\* A transaction that has ended stays ended: the finite set of them runs out.
SPECIFICATION AnchorSpec
CONSTANTS
    bulk = bulk
    one = one
    two = two
    i1 = i1
    i2 = i2
    NoTx = NoTx
    Lookback = 2
    MaxRuns = 2
    NoRange = NoRange
    Tx <- MCTx
    Entity <- MCEntity
    Plan <- MCPlan
INVARIANTS
    TypeOK
    AppendsSerialized
    WalkReportsFirstInversion
    DeadlockNeedsBulk
    AnchorsReproducible
PROPERTIES
    TransactionsEnd
    ImplementsChain
CHECK_DEADLOCK FALSE
