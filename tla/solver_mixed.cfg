CONSTANTS
    CounterMax <- LegacyMax
    PosMax = 4
    MemTokens = {}
    RegOf <- Registers
    Programs <- MixedFunctions
    MaxTrips = 2
SPECIFICATION Spec
INVARIANTS OperandsReady
