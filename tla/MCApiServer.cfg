CONSTANTS
    Reqs = {r1, r2}
    PoolSize = 1
    Faults = {"db", "crash"}
SPECIFICATION FairSpec
INVARIANTS
    IInv
    PoolConserved
    AnswerTellsSession
PROPERTIES
    PlainEnds
    RequestEnds
CHECK_DEADLOCK FALSE
