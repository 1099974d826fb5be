----------------------------- MODULE MCLifecycle -----------------------------
(* Instances of Lifecycle for TLC.                                          *)
EXTENDS Lifecycle, TLC

CONSTANTS a1, a2, a3, b1, A, B

\* Two profiles; a replacement within A needs a target and a clone next to the
\* live runtime, a switch the other profile's runtime.
MCGens == {a1, a2, a3, b1}
MCProfileOf == (a1 :> A) @@ (a2 :> A) @@ (a3 :> A) @@ (b1 :> B)

\* One profile with the runtime it runs and the next one.
PairGens == {a1, a2}
PairProfileOf == [g \in PairGens |-> A]
=============================================================================
