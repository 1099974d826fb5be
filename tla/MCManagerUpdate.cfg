SPECIFICATION UpdFairSpec
CONSTANTS
    a = a
    b = b
    c = c
    Versions = {a, b, c}
    Schema <- SmallSchema
    Integration <- SmallIntegration
    None = None
    Respawns = 1
    MaxFaults = 1
    MaxUpdates = 2
CHECK_DEADLOCK FALSE
INVARIANTS OutcomeTruthful FinishedJobIsOver
PROPERTIES DataplaneRecovers JobEnds
