CONSTANTS
    w1 = w1
    w2 = w2
    Waves = {w1, w2}
    Trips = 2
    ArriveBase = 20
    Programs <- Bodies
SPECIFICATION FairSpec
INVARIANTS TypeOK SameRendezvous BarrierOrders CompletionsKept ProtocolPreserved ScanComplete
PROPERTIES Termination
