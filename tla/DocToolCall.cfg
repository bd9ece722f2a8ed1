SPECIFICATION Spec
CONSTANTS
    Servers = {s1}
    NumWorkers = 1
    Samples = {a}
    N = 1
    ResponseLength = 4
    MaxModelLen = 6
    ToolLength = 1
    MaxSyncs = 2
    MaxRacing = 1
INVARIANTS
    CallsAnswered
