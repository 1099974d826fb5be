CONSTANTS
    A = A
    B = B
    v1 = v1
    v2 = v2
    Profiles = {A, B}
    SingBox = {}
    NoProfile = NoProfile
    Versions = {v1, v2}
    None = None
    MaxFaults = 2
SPECIFICATION FairSpec
INVARIANTS SelectionKnown OneSelection
PROPERTY BootCompletes
