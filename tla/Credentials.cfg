\* A request that was answered leaves nothing to do.
SPECIFICATION FairSpec
CONSTANTS
    link1 = link1
    reset1 = reset1
    reset2 = reset2
    user1 = user1
    NoRequest = NoRequest
    NoToken = NoToken
    Request <- MCRequest
    Link <- MCLink
    Reset <- MCReset
    User <- MCUser
    UserOf <- MCUserOf
    Uses <- MCUses
    LinkTTL = 1
    ResetTTL = 2
    MaxTime = 2
INVARIANTS
    AuditComplete
    OkAnswersKept
PROPERTIES
    ImplementsSingleUse
    RequestsAnswered
CHECK_DEADLOCK FALSE
