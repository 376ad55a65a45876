CONSTANTS
    Advisories = {1, 2}
    Packages = {1, 2}
    Scopes = {{1, 2}}
    Writers = {w1}
    None = None
    Modulus = 16
    Modes = {TRUE, FALSE}
    InterruptFull = FALSE
    MaxClock = 1
    FirstXID = 2
    MaxXID = 2
    MaxStops = 1
SPECIFICATION FairSpec
INVARIANTS DeltaCoversDifference
PROPERTIES DropsOnlyDelisted Converges
