CONSTANTS
    t1 = t1
    s1 = s1
    s2 = s2
    e1 = e1
    e2 = e2
    Topics = {t1}
    Subs = {s1, s2}
    Events = {e1, e2}
    Majors = {1, 2}
    PublishLanes <- MCPublishLanes
    TopicConfigs <- MCTopicConfigs
    SubConfigs <- MCSubConfigs
    MaxPublications = 2
    PipeNodes = {1, 2, 3}
    MaxBytesPerTick = 4
    MaxRecordsPerTick = 2
    MaxLines = 3
    MaxFileLen = 5
    MaxFaults = 1
SPECIFICATION MCSpec
SYMMETRY MCSymmetry
INVARIANTS
    EveryDeliveryAccounted
    AckedWasHandled
    PlanIsRight
    LinesReadOnce
PROPERTIES
    ProtectedAnswerIsTrue
    DependenciesFirst
    TickMakesProgress
