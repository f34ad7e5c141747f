SPECIFICATION Spec
CONSTANTS
    MaxConnections = 1
    IoConcurrency = 1
    Concurrency = 2
    MaxAccepts = 2
    MaxMsgs = 0
    MaxFaults = 0
INVARIANTS
    NoSessionRace
CHECK_DEADLOCK FALSE
