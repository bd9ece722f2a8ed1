SPECIFICATION FairSpec
CONSTANTS
    TotalRolloutSteps = 7
    RequiredSamples = 2
    TriggerStep = 2
    StalenessPercent = 25
    MaxQueueSize = 5
    ServerCapacity = 2
    PendingSize = 3
    PartialRollout = TRUE
    MaxFailures = 1
    TestFreq = 1
    Consumers = {"trainer"}
INVARIANTS
    OnePlace
    SleepsOnlyPaused
PROPERTIES
    Terminates
