CONSTANTS
    LgkmDefault = 2
    MaxTrips = 1
    Families <- MixedFamilies
SPECIFICATION Spec
INVARIANTS WaitStatesElapsed
