CONSTANTS
    k0 = k0
    k1 = k1
    k2 = k2
    k3 = k3
    Node = {n1, n2}
    Keys <- Keys3
    Stake <- Stake3
    Scenarios <- OrdersHeadersAgain
    MaxDeliveries = 2
    MaxHeaderDeliveries = 2
SPECIFICATION Spec
SYMMETRY NodeSymmetry
INVARIANTS TypeOK SoundAgreement OutputPerDelivery CausalOrder HeaderCommitHasVotes HistoryKnown NeverPanics SupportedLeadersCommitted SupportedLeadersLinked
PROPERTIES OnlyForward
CHECK_DEADLOCK FALSE
