CONSTANTS
    t1 = t1
    s1 = s1
    s2 = s2
    e1 = e1
    e2 = e2
    Topics = {t1}
    Subs = {s1}
    Events = {e1, e2}
    Majors = {1, 2}
    PublishLanes <- MCPublishLanes
    TopicConfigs <- MCTopicConfigs
    SubConfigs <- MCSubConfigs
    MaxPublications = 3
SPECIFICATION FairSpec
INVARIANTS
    InPublicationOrder
    WithinDefinitions
PROPERTIES
    CriticalLeavesOnlyHandled
    ImplementsLedger
    EveryDeliverySettled
