---------------------------- MODULE MCSupervisor ----------------------------
EXTENDS Supervisor, TLC
CONSTANTS m1, m2, m3, s1
SmallEngineOf == (m1 :> "mihomo") @@ (m2 :> "mihomo") @@ (m3 :> "mihomo") @@ (s1 :> "sing-box")
Symm == Permutations(Pids) \union Permutations({m1, m2, m3})
=============================================================================
