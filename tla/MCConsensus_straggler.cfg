CONSTANTS
    k0 = k0
    k1 = k1
    k2 = k2
    k3 = k3
    Node = {n1, n2}
    Keys <- Keys4
    Stake <- Stake4
    Scenarios <- LateUnlinked
    MaxDeliveries = 1
    MaxHeaderDeliveries = 1
SPECIFICATION Spec
SYMMETRY NodeSymmetry
INVARIANTS Agreement
CHECK_DEADLOCK FALSE
