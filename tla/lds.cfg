CONSTANTS
    N = 3
    LDSOps = {p, q}
    Counts = {1}
    FixedSizes = {6}
    DynamicSizes = {32}
SPECIFICATION Spec
INVARIANTS TypeOK SlotsApart ShiftedOnce
