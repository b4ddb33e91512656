CONSTANTS
    Conns = {c1, c2}
    BridgeIPs = {b1, b2}
    MAX_INSTANCES = 2
    Faults <- AllFaults
    MaxBoots = 2
SPECIFICATION Spec
INVARIANTS
    IInv
    LeaseCoversNetwork
    PeerReachesOwnContainer
    SessionIntact
PROPERTIES
    ServiceSpec
CHECK_DEADLOCK FALSE
