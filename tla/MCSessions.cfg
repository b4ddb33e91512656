CONSTANTS
    Codes = {k1, k2}
    TimerIds = {i1, i2}
    MaxTime = 5
    Ids <- MCIds
    Perms <- MCPerms
    ChallengeLife = 0
    AdminLife = 2
    UserLife = 2
    CodeLife = 2
    Tolerance = 1
    MaxTokens = 3
    MaxBoots = 2
SPECIFICATION FairSpec
INVARIANTS
    IInv
    CodeHasTimer
    SingleUse
    NoUninvitedGuest
    AdminSessionBounded
PROPERTIES
    EarlyOnlyIfRepeated
    CodesExpire
CHECK_DEADLOCK FALSE
