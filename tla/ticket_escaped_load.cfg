CONSTANTS
    CounterMax <- Maxima
    PosMax = 2
    MemTokens <- Tokens
    RegOf <- Registers
    Funcs <- OnlyVector
    MaxJoins = 0
SPECIFICATION Spec
INVARIANTS NoPendingWrite
