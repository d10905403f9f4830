CONSTANTS
    Interval = 2
    MaxConnections = 1
    MaxRequests = 4
    MaxTime = 2
    RateLimit = 1
    Window = 1
    ReplayLimit = 1
    Nonces = {}
    MaxNow = 0
    MaxReads = 0
    MaxTaken = 0
SPECIFICATION MCFairSpec
CHECK_DEADLOCK FALSE
PROPERTY
    DisconnectEndsLease
