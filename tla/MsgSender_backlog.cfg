SPECIFICATION Spec
CONSTANTS
    Threads = {t1}
    PoolSize = 2
    MaxRequestId = 2
    ResendPeriod = 1
    ExpireTimeout = 1
    ShutdownTimeout = 1
    PayloadSize <- LargeAndSmall
    BacklogLimit = 1
    SizeModulus = 8
INVARIANTS
    TypeOK
    UnansweredIsKept
    CounterIsContent
CHECK_DEADLOCK FALSE
