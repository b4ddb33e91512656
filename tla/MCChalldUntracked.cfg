CONSTANTS
    Conns = {c1}
    BridgeIPs = {b1}
    MAX_INSTANCES = 1
    Faults = {}
    MaxBoots = 1
SPECIFICATION Spec
INVARIANTS
    GracefulShutdown
CHECK_DEADLOCK FALSE
