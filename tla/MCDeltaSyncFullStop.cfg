CONSTANTS
    Advisories = {1}
    Packages = {1, 2}
    Scopes = {{1, 2}}
    Writers = {w1}
    None = None
    Modulus = 16
    Modes = {TRUE, FALSE}
    InterruptFull = TRUE
    MaxClock = 1
    FirstXID = 2
    MaxXID = 1
    MaxStops = 1
SPECIFICATION Spec
INVARIANT DeltaCoversDifference
