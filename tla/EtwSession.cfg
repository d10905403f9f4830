CONSTANTS
    RawCapacity = 1
    BatchCapacity = 1
    BatchSize = 2
    MaxRate = 1
    MaxDrain = 1
    MaxEvents = 3
    MaxDrains = 1
    Capacity = 2
    MaxProxied = 4
    MaxProxyCalls = 5
SPECIFICATION MCFairSpec
INVARIANTS
    LossesExplained
    RateBounded
    StoppedCountersValid
    BatchesHandedOnce
    CountersFollowBatches
PROPERTIES
    NothingAfterStop
    StopCompletes
    StopJoins
