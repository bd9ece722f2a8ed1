SPECIFICATION FairSpec
CONSTANTS
    Servers = {s1}
    NumWorkers = 2
    Samples = {a}
    N = 2
    ResponseLength = 4
    MaxModelLen = 6
    ToolLength = 1
    MaxSyncs = 2
    MaxRacing = 1
INVARIANTS
    SyncQuiet
    VersionsBracket
    MaskMatches
    EndsStay
    CallsRunOnce
PROPERTIES
    KeepsResponses
    PauseDrains
    Completes
