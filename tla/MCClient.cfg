SPECIFICATION Spec
CONSTANTS
    None = None
    Off = Off
INVARIANTS
    GreenMeansClean
    ConfigTrusted
    MirrorFaithful
    ListsComplete
PROPERTY LocalDataKept
CHECK_DEADLOCK FALSE
