SPECIFICATION Spec
CONSTANTS
    Keys = {c1, c2, c3}
    Capacity = 8
    Hash <- MCHash
    MaxConnections = 2
    Expire = 1
    MaxDatagrams = 4
    MaxReplies = 1
    MaxRestarts = 1
PROPERTY DatagramFindsItsSlot
CHECK_DEADLOCK FALSE
