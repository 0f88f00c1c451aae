CONSTANTS
    k0 = k0
    k1 = k1
    k2 = k2
    k3 = k3
    Keys <- Keys4
    Stake <- Stake4
    Authors = {k0, k2}
    Restartable = {}
    Faulty = {k1, k3}
    MaxRound = 1
    MaxRestarts = 0
    MaxGc = 0
SPECIFICATION FairSpec
PROPERTIES HeaderCertified
CHECK_DEADLOCK FALSE
