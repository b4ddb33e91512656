CONSTANTS
    Tasks = {t1, t2, t3, t4}
    MAX_INSTANCES = 3
SPECIFICATION FairSpec
INVARIANTS
    IInv
    AddressExclusive
    MarkedIffHeld
PROPERTIES
    TakeReturns
    PoolSpec
