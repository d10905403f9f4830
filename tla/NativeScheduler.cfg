CONSTANTS
    NoStatus = NoStatus
    Samplers = {1, 2}
    Priority <- MCPriority
    Interval = 2
    RetryDelay = 1
    MaxWait = 2
    Budgets = {1}
    RateWindow = 1
    RateFloor = 2
    MaxCommands = 4
    PlansMayFail = TRUE
    MaxTasks = 2
    MaxCalls = 3
SPECIFICATION MCSpec
INVARIANTS
    RunningHasWork
    RetriesWithinBudget
    TasksMatchState
PROPERTIES
    RunsOnlyPermitted
    DueSamplerRuns
    UnwantedTaskEnds
    CopyCatchesUp
CHECK_DEADLOCK FALSE
