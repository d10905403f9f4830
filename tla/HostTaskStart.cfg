CONSTANTS
    PlansMayFail = FALSE
    MaxTasks = 2
    MaxCalls = 3
SPECIFICATION HostSpec
PROPERTIES
    StartHasTask
CHECK_DEADLOCK FALSE
