---------------------------- MODULE MCProfileSwitch ----------------------------
(* Instances of ProfileSwitch for TLC.                                      *)
EXTENDS ProfileSwitch

CONSTANTS A, B, v1, v2
=============================================================================
