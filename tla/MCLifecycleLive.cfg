CONSTANTS
    a1 = a1
    a2 = a2
    a3 = a3
    b1 = b1
    A = A
    B = B
    Gens <- PairGens
    Profiles = {A}
    ProfileOf <- PairProfileOf
    NoGen = NoGen
    Offered = {"reload"}
SPECIFICATION FairSpec
PROPERTIES DeadCoreFailsOpen TroubleResolves
