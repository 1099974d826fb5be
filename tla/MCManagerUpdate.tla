-------------------------- MODULE MCManagerUpdate --------------------------
EXTENDS ManagerUpdate, TLC
CONSTANTS a, b, c
SmallSchema == (a :> 1) @@ (b :> 1) @@ (c :> 2)
SmallIntegration == (a :> "i1") @@ (b :> "i1") @@ (c :> "i2")
=============================================================================
