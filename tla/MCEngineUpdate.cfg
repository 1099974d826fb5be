SPECIFICATION EngSpec
CONSTANTS
    a1 = a1
    a2 = a2
    u2 = u2
    m1 = m1
    m2 = m2
    Builds = {a1, a2, u2}
    Version <- SmallVersion
    Tags = {m1, m2}
    Bad = {a2, m2}
    Fixed = {a1, a2}
    None = None
    MaxFaults = 2
    MaxUpdates = 3
INVARIANTS BuildsKept FailedUpdateUndone
PROPERTY UpdateKeepsService
