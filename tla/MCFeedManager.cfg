SPECIFICATION FairSpec
CONSTANTS
    Manuals = {m1}
    Enrichment = TRUE
    MaxAttempts = 1
    MaxConfigs = 2
    MaxFailures = 0
PROPERTIES LoopsStartAndStop RunningCleared
