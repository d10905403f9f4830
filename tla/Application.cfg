CONSTANTS
    MaxWaiting = 2
    MaxNormalized = 3
    MaxPublished = 4
    Procs = {a, b}
    MaxLaunches = 3
    Migrations = 2
    sample = sample
    mode = mode
    r1 = r1
    r2 = r2
    r3 = r3
    k1 = k1
    k2 = k2
    k3 = k3
    p1 = p1
    p2 = p2
    Refs = {r1, r2}
    Idems = {k1}
    Commands = {sample, mode}
    Payloads = {p1}
    IdempotencyOf <- MCIdempotencyOf
    OutcomeOf <- MCOutcomeOf
    TTL = 2
    MaxRecords = 1
    MaxSessions = 2
    MaxEpoch = 2
    MaxTime = 3
    MaxApprovals = 2
    MaxUses = 2
SPECIFICATION MCSpec
SYMMETRY MCSymmetry
INVARIANTS
    StatusIsTrue
    OneControlThread
    ShutdownStops
    WriterLockExact
    MigrationsOnce
    LeftoversReclaimable
    OnceUnlessForgotten
    UsesAsGranted
    OnlyLiveAuthorizations
CHECK_DEADLOCK FALSE
