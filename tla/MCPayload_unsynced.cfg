CONSTANTS
    k0 = k0
    k1 = k1
    k2 = k2
    d1 = d1
    Keys <- Keys3
    Stake <- Stake3
    Digest = {d1}
    owner <- OfK1
    Restartable = {}
    Silent = {}
    MaxRestarts = 0
    MaxLosses = 0
SPECIFICATION FairSpec
PROPERTIES PayloadArrives
CHECK_DEADLOCK FALSE
