\* Two single-entity transactions are enough for the inversion.
SPECIFICATION AnchorSpec
CONSTANTS
    bulk = bulk
    one = one
    two = two
    i1 = i1
    i2 = i2
    NoTx = NoTx
    Lookback = 2
    MaxRuns = 0
    NoRange = NoRange
    Tx <- MCTx
    Entity <- MCEntity
    Plan <- MCPlan
INVARIANTS
    ChainInIdOrder
CHECK_DEADLOCK FALSE
