CONSTANTS
    Conns = {c1, c2, c3}
    BridgeIPs = {b1, b2, b3}
    MAX_INSTANCES = 2
    Faults <- StopsFaults
    MaxBoots = 1
SPECIFICATION Spec
SYMMETRY Symmetry
INVARIANTS
    AddressIsFresh
    NothingForgotten
    InstanceBound
CHECK_DEADLOCK FALSE
