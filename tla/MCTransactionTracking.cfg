SPECIFICATION TrackingSpec
CONSTANTS
    tx1 = tx1
    tx2 = tx2
    Txs <- MCTxs
    NoRow = NoRow
    MaxIncomplete = 2
    Retention = 1
    MaxTime = 5
INVARIANTS
    OnePoll
    ShownIsKnown
PROPERTY
    TrackingEnds
CHECK_DEADLOCK FALSE
