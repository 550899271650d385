CONSTANTS
    LgkmDefault = 2
    MaxTrips = 1
    Families <- UniformFamilies
SPECIFICATION Spec
INVARIANTS TypeOK WaitStatesCounted NoWastedWait GapAfterWait ForwardingSettled
