CONSTANTS
    k0 = k0
    k1 = k1
    k2 = k2
    Keys <- Keys3
    Stake <- Stake3
    Busy = {k0}
    MaxRound = 2
SPECIFICATION FairSpec
PROPERTIES EveryRoundLeft
