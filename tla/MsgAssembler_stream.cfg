SPECIFICATION FairSpec
CONSTANTS
    Scripts <- MCScripts
    Junk <- MCJunk
    MaxInteger = 3
    MaxConnections = 2
    MaxAllocFailures = 2
INVARIANTS
    TypeOK
    SoundIsDelivered
    
    FramesAreRead
PROPERTIES
    AssemblyEnds
    ImplementsChannel
CHECK_DEADLOCK FALSE
