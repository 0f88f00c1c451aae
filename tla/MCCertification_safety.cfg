CONSTANTS
    k0 = k0
    k1 = k1
    k2 = k2
    k3 = k3
    Keys <- Keys4
    Stake <- Stake4
    Authors = {k0}
    Restartable = {k0}
    Faulty = {}
    MaxRound = 1
    MaxRestarts = 1
    MaxGc = 2
SPECIFICATION Spec
INVARIANTS TypeOK VoteOnce UniqueCertificates QuorumOnce CertificatesBacked
CHECK_DEADLOCK FALSE
