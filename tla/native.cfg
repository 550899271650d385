CONSTANTS
    w1 = w1
    w2 = w2
    w3 = w3
    w4 = w4
    g1 = g1
    g2 = g2
    Waves = {w1, w2, w3, w4}
    Groups = {g1, g2}
    GroupOf <- TwoByTwo
    MaxLen = 3
    MaxRounds = 2
SPECIFICATION FairSpec
INVARIANTS TypeOK OneClusterSignal
PROPERTIES ImplementsBarrier NoLostCompletion Termination
