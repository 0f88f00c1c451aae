CONSTANTS
    k0 = k0
    k1 = k1
    k2 = k2
    k3 = k3
    Keys <- Keys2
    Stake <- Stake2
    Authors = {k0, k1}
    Restartable = {k1}
    Faulty = {}
    MaxRound = 2
    MaxRestarts = 1
    MaxGc = 0
SPECIFICATION Spec
INVARIANTS OwnVoteAccepted
CHECK_DEADLOCK FALSE
