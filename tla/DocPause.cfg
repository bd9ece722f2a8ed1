SPECIFICATION Spec
CONSTANTS
    TotalRolloutSteps = 6
    RequiredSamples = 2
    TriggerStep = 1
    StalenessPercent = 50
    MaxQueueSize = 3
    ServerCapacity = 1
    PendingSize = 3
    PartialRollout = FALSE
    MaxFailures = 0
    TestFreq = 1
    Consumers = {"trainer"}
INVARIANTS
    NoTaskDuringSync
