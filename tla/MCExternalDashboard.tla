------------------------- MODULE MCExternalDashboard -------------------------
(* An instance of ExternalDashboard for TLC. *)
EXTENDS ExternalDashboard
=============================================================================
