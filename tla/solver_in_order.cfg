CONSTANTS
    CounterMax <- LegacyMax
    PosMax = 4
    MemTokens = {}
    RegOf <- Registers
    Programs <- InOrderFunctions
    MaxTrips = 2
SPECIFICATION Spec
INVARIANTS OperandsReady SolverCoversRewrite
