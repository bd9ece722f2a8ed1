SPECIFICATION Spec
CONSTANTS
    Ranks = {r1, r2}
    UseCritic = TRUE
    TotalRolloutSteps = 3
    DatasetSize = 4
    TotalEpochs = 1
    RequiredSamples = 1
    TriggerSteps = {2}
    MaxKeeps = {1}
    SaveFreq = 1
    TestFreq = 1
    Lead = 2
    MaxCrashes = 0
INVARIANTS
    SavedStays
