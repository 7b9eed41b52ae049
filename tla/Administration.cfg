\* A request that was answered leaves nothing to do.
SPECIFICATION ReadSpec
CONSTANTS
    rome = rome
    milan = milan
    alice = alice
    bob = bob
    clerk = clerk
    chief = chief
    i1 = i1
    i2 = i2
    i3 = i3
    topic = topic
    old = old
    area = area
    hood = hood
    poll = poll
    idea = idea
    post = post
    catalog = catalog
    turin = turin
    locale = locale
    bookmark = bookmark
    notice = notice
    photo = photo
    Global = Global
    Nobody = Nobody
    NoRequest = NoRequest
    Request <- MCRequest
    City <- MCCity
    Role <- MCRole
    Account <- MCAccount
    Issue <- MCIssue
    Notice <- MCNotice
    Saved <- MCSaved
    Photo <- MCPhoto
    Plain <- MCPlain
    Home <- MCHome
    Owner <- MCOwner
    Seed <- MCSeed
    Uses <- MCUses
    Table <- MCTable
    Archived <- MCArchived
    Watched <- MCWatched
INVARIANTS
    TenantIsolation
    AuditExplained
    TimelineReplays
    ReplacementsExplained
    IssueAnswersExplained
    AnswersIsolated
CHECK_DEADLOCK FALSE
