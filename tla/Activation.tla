----------------------------- MODULE Activation -----------------------------
(***************************************************************************)
(* What lifecycle.go asks of its Activation interface: the platform        *)
(* capture (nft table, policy routes) and the dnsmasq redirection are one  *)
(* rollback-capable unit.  A call is a transaction under the host-wide     *)
(* "gateway-dns" lock; it may fail or be cut short anywhere, but only a    *)
(* call that removed everything may report that nothing is owned.          *)
(*                                                                         *)
(* Lifecycle is composed with this contract; OpenWrtActivation, the real   *)
(* nft/UCI/dnsmasq transaction, is shown to implement it.                  *)
(***************************************************************************)
EXTENDS FiniteSets

VARIABLES
    owned,     \* the resources of the host that boxctl currently owns
    recorded,  \* .boxctl/active-gateway.json exists
    call       \* the transaction holding the gateway-dns lock, "none" if free

actVars == <<owned, recorded, call>>

Resources == {"capture", "dns"}
Calls == {"activate", "deactivate", "reconcile"}

ActTypeOK ==
    /\ owned \subseteq Resources
    /\ recorded \in BOOLEAN
    /\ call \in Calls \union {"none"}

ActInit == owned = {} /\ recorded = FALSE /\ call = "none"

\* A hotplug reconciliation needs the record of a live generation; it is read
\* again under the lock, whatever the caller saw before it.
BeginCall(c) ==
    /\ call = "none"
    /\ c = "reconcile" => recorded
    /\ call' = c
    /\ UNCHANGED <<owned, recorded>>

Install(r) ==
    /\ call \in {"activate", "reconcile"}
    /\ owned' = owned \union {r}
    /\ UNCHANGED <<recorded, call>>

\* A failed reconciliation rolls its generation back, and a failed activation
\* undoes the policy routes of a table it could not create.
Remove(r) ==
    /\ call \in Calls
    /\ owned' = owned \ {r}
    /\ UNCHANGED <<recorded, call>>

\* Success of Activate and of Reconcile: everything is in place and recorded.
InstalledOK(c) ==
    /\ call = c /\ c \in {"activate", "reconcile"}
    /\ owned = Resources
    /\ recorded' = TRUE
    /\ call' = "none"
    /\ UNCHANGED owned

\* Success of Deactivate, and the clean end of a reconciliation's rollback.
RemovedOK(c) ==
    /\ call = c /\ c \in {"deactivate", "reconcile"}
    /\ owned = {}
    /\ recorded' = FALSE
    /\ call' = "none"
    /\ UNCHANGED owned

\* An error return or the death of the calling process: whatever was done so
\* far stays, and the file lock is released.  Writing or unlinking the record,
\* the last step of a call, may report an error although it took effect.
AbandonCall(c) ==
    /\ call = c /\ c \in Calls
    /\ call' = "none"
    /\ UNCHANGED owned
    /\ \/ recorded' = recorded
       \/ recorded' = TRUE /\ owned = Resources /\ c # "deactivate"
       \/ recorded' = FALSE /\ owned = {} /\ c # "activate"

\* A reboot ends every call and loses the nft table and the policy routes, but
\* neither the UCI configuration of dnsmasq nor the record.
LoseCapture ==
    /\ owned' = owned \ {"capture"}
    /\ call' = "none"
    /\ UNCHANGED recorded

ActNext ==
    \/ \E c \in Calls : BeginCall(c) \/ InstalledOK(c) \/ RemovedOK(c) \/ AbandonCall(c)
    \/ \E r \in Resources : Install(r) \/ Remove(r)
    \/ LoseCapture

ActSpec == ActInit /\ [][ActNext]_actVars
=============================================================================
