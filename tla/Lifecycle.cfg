SPECIFICATION FairSpec
CONSTANTS
    c1 = c1
    Conns = {c1}
    DefaultVH = "/"
    OtherVH = "other"
    VHostOf <- OneVHost
    Heartbeats = {c1}
    Talkers = {c1}
    MaxPanics = 1
INVARIANTS
    NothingLeft
    WaitIsFinal
    ShutdownReachesAll
PROPERTIES
    DeadAreForgotten
    PanicResolves
    ShutdownEnds
CHECK_DEADLOCK FALSE
