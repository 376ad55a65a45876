SPECIFICATION FairSpec
CONSTANTS
    Configs = {a, b, off}
    Enabled = {a, b}
    MaxApplies = 4
    None = None
INVARIANTS
    OneProcessor
    SettledOnCurrentSettings
    ExitsAwaited
PROPERTIES
    SettingsTakeEffect
    ShutdownEnds
