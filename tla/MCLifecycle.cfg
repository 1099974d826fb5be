CONSTANTS
    a1 = a1
    a2 = a2
    a3 = a3
    b1 = b1
    A = A
    B = B
    Gens <- MCGens
    Profiles = {A, B}
    ProfileOf <- MCProfileOf
    NoGen = NoGen
    Offered = {"start", "stop", "clean", "restart", "switch", "reconf", "reload", "policy"}

SPECIFICATION OpSpec

INVARIANTS FailOpen StoppedMeansStopped ActiveGenerationSound GuardSafe

PROPERTIES ReleaseAfterCapture OperationEnds
