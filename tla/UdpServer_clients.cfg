SPECIFICATION FairSpec
CONSTANTS
    Keys = {c1, c2, c3}
    Capacity = 8
    Hash <- MCHash
    MaxConnections = 2
    Expire = 1
    MaxDatagrams = 5
    MaxReplies = 1
    MaxRestarts = 2
INVARIANTS TypeOK ViewsAgree OneSlotPerClient UnexpiredAreAnswered
PROPERTIES SilentIsForgotten
CHECK_DEADLOCK FALSE
