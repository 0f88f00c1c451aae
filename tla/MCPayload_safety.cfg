CONSTANTS
    k0 = k0
    k1 = k1
    k2 = k2
    d1 = d1
    Keys <- Keys3
    Stake <- Stake3
    Digest = {d1}
    owner <- OfK1
    Restartable = {k1}
    Silent = {k2}
    MaxRestarts = 1
    MaxLosses = 1
SPECIFICATION FairSpec
INVARIANTS TypeOK ProposedIsHeld VotedIsStored ProposedOnce
PROPERTIES SealedIsProposed RequestsEnd
CHECK_DEADLOCK FALSE
