CONSTANTS
    a = a
    b = b
    w1 = w1
    w2 = w2
    Waves = {w1, w2}
    Slots = {a, b}
    Modulus = 8
    Body <- MixedBody
    Rounds = 5
SPECIFICATION FairSpec
INVARIANTS TypeOK NoEarlyRelease Publication NoLateZero PollInWindow
PROPERTIES ImplementsBarrier Termination
