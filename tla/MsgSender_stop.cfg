SPECIFICATION FairSpec
CONSTANTS
    Threads = {t1}
    PoolSize = 1
    MaxRequestId = 2
    ResendPeriod = 1
    ExpireTimeout = 1
    ShutdownTimeout = 1
    PayloadSize <- LargeAndSmall
    BacklogLimit = 1
    SizeModulus = 8
PROPERTIES
    StopReturns
CHECK_DEADLOCK FALSE
