CONSTANTS
    Shapes <- SmallShapes
    NumWaves = 2
    Launches = 2
SPECIFICATION Spec
INVARIANTS TypeOK OutputExact CountersReset NeverWaits
PROPERTIES WrittenOnce Termination
