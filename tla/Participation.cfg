\* A request that was answered leaves nothing to do.
SPECIFICATION ViewSpec
CONSTANTS
    poll = poll
    idea = idea
    post = post
    alice = alice
    bob = bob
    yes = yes
    no = no
    NoRequest = NoRequest
    Request <- MCRequest
    Poll <- MCPoll
    Idea <- MCIdea
    Comment <- MCComment
    User <- MCUser
    Option <- MCOption
    Uses <- MCUses
    Watching <- MCWatching
INVARIANTS
    AuditReplays
    VotesCounted
    AnswersExplained
PROPERTIES
    OneWay
CHECK_DEADLOCK FALSE
