SPECIFICATION Spec
CONSTANTS
    None = None
    Off = Off
    x1 = x1
    x2 = x2
    m1 = m1
INVARIANTS
    SuccessMeansStored
    StoreMatchesSources
    OneSyncOfAFeed
PROPERTY WritersRespectEachOther
SYMMETRY Symmetry
CHECK_DEADLOCK FALSE
