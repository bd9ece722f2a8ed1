SPECIFICATION FairSpec
CONSTANTS
    Requests = {r1, r2, r3}
    NumUrls = 2
    Second = 2
    Needs = {1, 3}
    MaxConcurrent = 1
    Timeout = 1
    MaxAttempts = 2
INVARIANTS
    RateHolds
    CallsBounded
    CountsCover
PROPERTIES
    Rewarded
CHECK_DEADLOCK FALSE
