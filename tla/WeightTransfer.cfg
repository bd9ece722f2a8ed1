SPECIFICATION FairSpec
CONSTANTS
    Replicas = {p1, p2, p3}
    NumTensors = 3
    BucketSize = 2
    MaxUpdates = 2
    MaxChanges = 2
INVARIANTS
    InOrderAndIntact
    ResumesWithAll
PROPERTIES
    TransferEnds
CHECK_DEADLOCK FALSE
