------------------------------ MODULE MCSessions ------------------------------
(* An instance of Sessions for TLC. *)
EXTENDS Sessions, TLC

\* Passwords are interchangeable.
Symmetry == Permutations(Passwords)
=============================================================================
