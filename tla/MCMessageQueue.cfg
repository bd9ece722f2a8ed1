SPECIFICATION MCSpec
CONSTANTS
    MaxQueueSize = 2
    Consumers = {"trainer", "other"}
    MaxProduced = 4
    MaxVersion = 1
INVARIANTS
    MQTypeOK
    QueueIsNewest
    NoLostWakeup
PROPERTIES
    ShutdownReleases
    WindowSafety
