SPECIFICATION Spec
CONSTANTS
    Scripts <- MCScripts
    Junk <- MCNoJunk
    MaxInteger = 3
    MaxConnections = 2
    MaxAllocFailures = 0
INVARIANTS
    ArrivedIsDelivered
CHECK_DEADLOCK FALSE
