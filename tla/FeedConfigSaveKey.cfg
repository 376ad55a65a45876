SPECIFICATION Spec
CONSTANTS
    Admins = {a1, a2}
    Options = {on, off}
    Keys = {k1, k2, bad}
    RefusedKeys = {bad}
    DefaultOpt = on
    DefaultKey = k1
    MaxRevisions = 2
    None = None
    Keep = Keep
    Absent = Absent
PROPERTY KeptKeyInEffect
