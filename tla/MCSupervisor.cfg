SPECIFICATION SupSpec
CONSTANTS
    m1 = m1
    m2 = m2
    m3 = m3
    s1 = s1
    Gens = {m1, m2, m3, s1}
    Engines = {"mihomo", "sing-box"}
    EngineOf <- SmallEngineOf
    HotReload = {"mihomo"}
    Pids = {p1, p2, p3}
    NoPid = NoPid
    NoGen = NoGen
    NoEngine = NoEngine
    MaxStarts = 3
SYMMETRY Symm
INVARIANTS OneCore CoreAccountedFor
PROPERTY ForeignUntouched
