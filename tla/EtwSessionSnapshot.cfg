CONSTANTS
    RawCapacity = 1
    BatchCapacity = 1
    BatchSize = 2
    MaxRate = 2
    MaxDrain = 1
    MaxEvents = 3
    MaxDrains = 1
    Capacity = 1
    MaxProxied = 0
    MaxProxyCalls = 0
SPECIFICATION MCSpec
INVARIANTS
    SnapshotValid
