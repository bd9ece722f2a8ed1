SPECIFICATION FairSpec
CONSTANTS
    TotalRolloutSteps = 4
    RequiredSamples = 1
    TriggerStep = 1
    StalenessPercent = 100
    MaxQueueSize = 2
    ServerCapacity = 2
    PendingSize = 2
    PartialRollout = TRUE
    MaxFailures = 0
    TestFreq = 1
    Consumers = {"trainer"}
PROPERTIES
    RolloutRecovers
CHECK_DEADLOCK FALSE
