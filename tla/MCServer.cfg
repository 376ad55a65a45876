SPECIFICATION Spec
CONSTANTS
    None = None
    Off = Off
    Junk = Junk
    pkg1 = pkg1
    a1 = a1
    a2 = a2
    pkg2 = pkg2
    v1 = v1
    v2 = v2
    k1 = k1
    k2 = k2
SYMMETRY Symmetry
INVARIANTS
    LimitsHold
    AnswersBacked
    ActionsOnRecord
    RunningMeansReady
    MatchingExact
PROPERTY ChangesReplaceWhatWasSeen
CHECK_DEADLOCK FALSE
