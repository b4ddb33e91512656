CONSTANTS
    Names = {n1, n2}
    LONG = LONG
    NULL = NULL
    NODAY = NODAY
    Days = {1, 2}
    Admins <- MCAdmins
    PortMaps <- MCPortMaps
    PortSpace = 8
    PortLimit = 2
    MaxSerial <- MCMaxSerial
    MaxDrawn = 4
    CategoryTypes <- CategoryNames
SPECIFICATION Spec
INVARIANTS
    TooManyPortsRefused
CHECK_DEADLOCK FALSE
