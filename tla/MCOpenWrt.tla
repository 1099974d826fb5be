------------------------------ MODULE MCOpenWrt ------------------------------
(* OpenWrtActivation with two plans that redirect dnsmasq and one that leaves *)
(* it alone: a refresh can change the plan, an activation the DNS side.       *)
EXTENDS OpenWrtActivation

CONSTANTS u1, u2, r

MCPlans == {u1, u2, r}
MCUpstream == {u1, u2}
=============================================================================
