SPECIFICATION FairSpec
CONSTANTS
    Threads = {t1, t2}
    PoolSize = 1
    MaxRequestId = 3
    MaxResends = 1
INVARIANTS
    SlotExclusive
PROPERTIES
    WaitEnds
CHECK_DEADLOCK FALSE
