CONSTANTS
    LgkmDefault = 2
    MaxTrips = 1
    Families <- BranchFamilies
SPECIFICATION Spec
INVARIANTS WaitStatesElapsed
