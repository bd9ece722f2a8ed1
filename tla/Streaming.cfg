SPECIFICATION FairSpec
CONSTANTS
    TotalRolloutSteps = 6
    RequiredSamples = 1
    TriggerStep = 1
    StalenessPercent = 100
    MaxQueueSize = 2
    ServerCapacity = 2
    PendingSize = 3
    PartialRollout = FALSE
    MaxFailures = 0
    TestFreq = 1
    Consumers = {"trainer"}
INVARIANTS
    TypeOK
    VersionsFollow
    LockHeld
    InFlightBounded
    StalenessCovers
    VersionLag
    EndMarkLast
PROPERTIES
    PauseFreezesTasks
    Terminates
