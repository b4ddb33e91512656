CONSTANTS
    Conns = {c1}
    BridgeIPs = {b1}
    MAX_INSTANCES = 1
    Faults = {"crash"}
    MaxBoots = 2
SPECIFICATION RestartSpec
PROPERTIES
    RestartServes
CHECK_DEADLOCK FALSE
