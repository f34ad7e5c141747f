SPECIFICATION FairSpec
CONSTANTS
    MaxConnections = 2
    IoConcurrency = 1
    Concurrency = 1
    MaxAccepts = 3
    MaxMsgs = 1
    MaxFaults = 0
INVARIANTS
    SessionFollowsConnection
    PendingMatchesPipe
PROPERTIES
    StopCompletes
CHECK_DEADLOCK FALSE
