SPECIFICATION Spec
CONSTANTS
    Ranks = {r1, r2}
    UseCritic = TRUE
    TotalRolloutSteps = 3
    DatasetSize = 3
    TotalEpochs = 1
    RequiredSamples = 1
    TriggerSteps = {1, 2}
    MaxKeeps = {1, 2}
    SaveFreq = 2
    TestFreq = 3
    Lead = 2
    MaxCrashes = 2
SYMMETRY Symmetry
INVARIANTS
    ResumesWhole
    CrashKeepsOne
    RetentionBound
    NoRepeat
    TrainsTotal
    CountsUpdates
