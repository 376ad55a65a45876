SPECIFICATION Spec
CONSTANTS
    Manuals = {m1}
    Enrichment = FALSE
    MaxAttempts = 2
    MaxConfigs = 3
    MaxFailures = 1
PROPERTY StaleNeverOverwrites
