CONSTANTS
    CounterMax <- Maxima
    PosMax = 2
    MemTokens <- Tokens
    RegOf <- Registers
    Funcs <- AllFuncs
    MaxJoins = 1
SPECIFICATION Spec
INVARIANTS TypeOK NoEarlyRead NoClobber LatticeCovers DeallocSafe
