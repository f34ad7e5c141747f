SPECIFICATION Spec
CONSTANTS
    Threads = {t1, t2}
    PoolSize = 2
    MaxRequestId = 4
    MaxResends = 0
SYMMETRY ThreadSymmetry
INVARIANTS
    TypeOK
    OwnResponse
    ReplyFindsItsSlot
    ListenerLeavesTransactions
CHECK_DEADLOCK FALSE
