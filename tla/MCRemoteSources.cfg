SPECIFICATION RsSpec
CONSTANTS
    Urls = {u1, u2}
    Texts = {t1, t2}
    Nothing = nothing
    Gone = gone
    MaxVersion = 1
    MaxEdits = 3
    MaxFaults = 1
SYMMETRY Symmetric
INVARIANTS EditsKept ValidatorHonest CoreServesStored
