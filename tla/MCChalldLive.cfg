CONSTANTS
    Conns = {c1, c2}
    BridgeIPs = {b1, b2}
    MAX_INSTANCES = 1
    Faults <- ServeFaults
    MaxBoots = 1
SPECIFICATION FairSpec
PROPERTIES
    ShutdownCompletes
    ClientAnswered
    AddressReturned
    ContainerDestroyed
CHECK_DEADLOCK FALSE
