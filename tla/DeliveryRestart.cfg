\* A job that is done and a row that is swept leave nothing to do.
SPECIFICATION FairSpec
CONSTANTS
    push1 = push1
    mail1 = mail1
    phone = phone
    Email = Email
    Delivery <- MCPush
    Subscription <- MCSubscription
    Target <- MCPushTarget
    Batches <- MCPushBatches
    s1 = s1
    s2 = s2
    Sweeper <- MCSweeper
    BATCH_CAP = 2
    MAX_SWEEP_ATTEMPTS = 2
    PUSH_ATTEMPTS = 2
    MaxStalled = 1
    MaxForgotten = 1
INVARIANTS
    SweepNeverResends
PROPERTIES
    QueuedOrDeadLettered
CHECK_DEADLOCK FALSE
