SPECIFICATION FairSpec
CONSTANTS
    Packages = {p1, p2}
    Workers = {w1, w2}
    Clients = {c1, c2}
    Priorities = {1}
    MaxId = 2
    MaxTime = 5
    Stuck = 1
    None = None
INVARIANTS
    ClaimFencing
    OneActiveJobPerPackage
    AcceptedRequestHasJob
PROPERTIES
    OnlyLatestClaimantCompletes
    PausedAndRunningJobsKept
    StuckJobRecovered
    EnqueueReturns
