SPECIFICATION FairSpec
CONSTANTS
    ReadyWaiters = {r1, r2}
    ConnectWaiters = {c1, c2}
    Period = 1
    MaxFailures = 2
    MaxWrites = 2
INVARIANTS TypeOK ClosedOnce
PROPERTIES ConnectsInTheEnd WaitReadyReturns WaitConnectReturns LossIsAnnounced
CHECK_DEADLOCK FALSE
