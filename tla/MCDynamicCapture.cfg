SPECIFICATION CapSpec
CONSTANTS
    Manuals = {none, m1}
    NoManual = none
    Ranges = {"default", "custom"}
    MaxChanges = 1
    Offered <- SomeSettings
INVARIANTS ManualKept OptOutHolds BypassIsReal
