SPECIFICATION Spec
CONSTANTS
    MaxConnections = 2
    IoConcurrency = 2
    Concurrency = 2
    MaxAccepts = 2
    MaxMsgs = 2
    MaxFaults = 1
INVARIANTS
    TypeOK
    StopDrains
    ReplyReachesLive
    PipesArePaired
PROPERTIES
    DispatchInOrder
CHECK_DEADLOCK FALSE
