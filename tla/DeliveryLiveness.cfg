\* A job that is done and a row that is swept leave nothing to do.
SPECIFICATION FairSpec
CONSTANTS
    push1 = push1
    mail1 = mail1
    phone = phone
    Email = Email
    Delivery <- MCDelivery
    Subscription <- MCSubscription
    Target <- MCTarget
    Batches <- MCBatches
    s1 = s1
    s2 = s2
    Sweeper = {s1}
    BATCH_CAP = 2
    MAX_SWEEP_ATTEMPTS = 2
    PUSH_ATTEMPTS = 1
    MaxStalled = 0
    MaxForgotten = 0
PROPERTIES
    QueuedOrDeadLettered
CHECK_DEADLOCK FALSE
