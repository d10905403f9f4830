CONSTANTS
    Interval = 2
    MaxConnections = 2
    MaxRequests = 4
    MaxTime = 3
    RateLimit = 2
    Window = 2
    ReplayLimit = 3
    Nonces = {"a", "b", "c", "d", "e"}
    MaxNow = 6
    MaxReads = 6
    MaxTaken = 6
SPECIFICATION MCFairSpec
CHECK_DEADLOCK FALSE
INVARIANTS
    StoppedIsClean
    LimitsExact
PROPERTIES
    CyclesKeepLease
    StopEnds
