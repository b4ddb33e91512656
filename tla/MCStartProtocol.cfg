CONSTANTS
    B = 4
    Limit = 3
    NONE = NONE
    Requests <- MCRequests
    Configs <- MCConfigs
SPECIFICATION FairSpec
INVARIANTS
    IInv
    DecodedAsMeant
    NeverStarved
    RefusedForCause
    AnswerUnderstood
PROPERTIES
    ClientReturns
CHECK_DEADLOCK FALSE
