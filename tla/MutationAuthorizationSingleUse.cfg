CONSTANTS
    sample = sample
    mode = mode
    r1 = r1
    r2 = r2
    r3 = r3
    k1 = k1
    k2 = k2
    k3 = k3
    p1 = p1
    p2 = p2
    Refs = {r1, r2, r3}
    Idems = {k1, k2, k3}
    Commands = {sample}
    Payloads = {p1}
    IdempotencyOf <- MCIdempotencyOf
    OutcomeOf <- MCOutcomeOf
    TTL = 2
    MaxRecords = 2
    MaxSessions = 1
    MaxEpoch = 1
    MaxTime = 1
    MaxApprovals = 3
    MaxUses = 2
SPECIFICATION AuthorizationSpec
SYMMETRY RefSymmetry
CHECK_DEADLOCK FALSE
INVARIANTS
    SingleUse
