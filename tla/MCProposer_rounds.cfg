CONSTANTS
    k0 = k0
    k1 = k1
    k2 = k2
    k3 = k3
    Keys <- Keys4
    Stake <- Stake4
    name = k2
    header_size = 1
    MaxRound = 2
SPECIFICATION FairSpec
INVARIANTS TypeOK OneHeaderPerRound HeadersHaveQuorum NoVoteNeverLinks HeaderJustified TimeoutOnce
PROPERTIES NonLeaderAdvances
