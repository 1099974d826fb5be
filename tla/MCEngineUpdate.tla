--------------------------- MODULE MCEngineUpdate ---------------------------
EXTENDS EngineUpdate, TLC
CONSTANTS a1, a2, u2, m1, m2
SmallVersion == (a1 :> 1) @@ (a2 :> 2) @@ (u2 :> 2)
=============================================================================
