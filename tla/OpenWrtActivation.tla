-------------------------- MODULE OpenWrtActivation --------------------------
(***************************************************************************)
(* internal/app/openwrt_activation.go over platform/openwrt: one gateway   *)
(* transaction at a time changes the nft table, the policy routes, the UCI *)
(* configuration of dnsmasq and dnsmasq itself, step by step, and keeps    *)
(* two durable files: the DNS backup and the record of the active          *)
(* generation.  Any command can fail, and the calling process - the        *)
(* manager, a hotplug script, `boxctl cleanup` or `boxctl firewall stop` - *)
(* can die between any two steps.                                          *)
(***************************************************************************)

CONSTANTS
    Plans,        \* gateway plans: capture mode and address sets
    Upstream,     \* the plans that point dnsmasq at the core's DNS listener
    NoPlan        \* no table, no record

ASSUME UpstreamAssumption == Upstream \subseteq Plans
ASSUME NoPlanAssumption == NoPlan \notin Plans

VARIABLES
    mode,     \* OPERATING_MODE in the settings file
    nft,      \* the plan of the owned table inet boxctl
    routes,   \* owned policy rules or routes exist
    uci,      \* whose values dnsmasq's UCI options hold
    live,     \* whose values the dnsmasq process was last started with
    backup,   \* the DNS backup file: whose values it holds, "none" if absent
    active,   \* the plan in .boxctl/active-gateway.json
    last,     \* the manager remembers a lastPlan
    view,     \* what the manager's lifecycle knows of its activation
    hot,      \* the record a one-shot hotplug read before it takes the lock
    tx        \* the transaction under the gateway-dns lock

vars == <<mode, nft, routes, uci, live, backup, active, last, view, hot, tx>>
host == <<nft, routes, uci, live>>

Owners == {"admin", "boxctl"}
MaybePlan == Plans \union {NoPlan}
Callers == {"manager", "hotplug", "cleanup"}
TxOps == {"activate", "reconcile", "refresh", "deactivate"}
TxPcs == {"backup", "routes", "nft", "uci", "restart", "record", "reapply", "rsUci", "rsRestart", "rsRemove",
          "clNft", "clRoutes", "unrecord", "return"}
Txs == [who : Callers, op : TxOps, pc : TxPcs, plan : MaybePlan, err : BOOLEAN]
NoTx == [who |-> "none", op |-> "none", pc |-> "none", plan |-> NoPlan, err |-> FALSE]

TypeOK ==
    /\ mode \in {"gateway", "server"}
    /\ nft \in MaybePlan /\ active \in MaybePlan /\ hot \in MaybePlan
    /\ routes \in BOOLEAN /\ last \in BOOLEAN
    /\ uci \in Owners /\ live \in Owners /\ backup \in Owners \union {"none"}
    /\ view \in {"down", "boot", "off", "on", "dirty", "failed"}
    /\ tx \in {NoTx} \union Txs

Init ==
    /\ mode \in {"gateway", "server"}
    /\ nft = NoPlan /\ routes = FALSE /\ uci = "admin" /\ live = "admin"
    /\ backup = "none" /\ active = NoPlan
    /\ last = FALSE /\ view = "down" /\ hot = NoPlan /\ tx = NoTx

Free == tx = NoTx
At(pc) == tx.pc = pc
Goto(pc) == tx' = [tx EXCEPT !.pc = pc]
ByManager == tx.who = "manager"

\* withTransaction: the in-process mutex and the host-wide file lock.
Begin(who, o, pc, plan) ==
    /\ Free
    /\ tx' = [who |-> who, op |-> o, pc |-> pc, plan |-> plan, err |-> FALSE]

\* A failed reconciliation rolls itself back (rollbackLocked).  Activate and
\* Refresh return the error to a caller that deactivates.
Fail == Goto(IF tx.op = "reconcile" THEN "rsUci" ELSE "return")

ReturnError ==
    /\ At("return")
    /\ tx' = NoTx
    /\ UNCHANGED <<mode, host, backup, active, last, view, hot>>

-----------------------------------------------------------------------------
(* The callers.                                                            *)

\* procd respawns the manager whatever one-shot still holds the lock.
ManagerStart ==
    /\ view = "down" /\ view' = "boot"
    /\ UNCHANGED <<mode, host, backup, active, last, hot, tx>>

\* The lifecycle activates after a completed Deactivate, or at boot to recover
\* the core that survived a manager crash.
BeginActivate ==
    /\ view \in {"off", "boot"} /\ view' = "dirty"
    /\ mode = "gateway"
    /\ \E p \in Plans : Begin("manager", "activate", "backup", p)
    /\ UNCHANGED <<mode, host, backup, active, last, hot>>

\* Server mode never touches the dataplane.
ActivateNothing ==
    /\ view \in {"off", "boot"} /\ view' = "on"
    /\ mode = "server" /\ ~ByManager
    /\ last' = FALSE
    /\ UNCHANGED <<mode, host, backup, active, hot, tx>>

\* One-shot hotplug: ActivePrepared and the readiness probe need no lock.
HotplugEvent ==
    /\ mode = "gateway" /\ active # NoPlan /\ hot = NoPlan
    /\ hot' = active
    /\ UNCHANGED <<mode, host, backup, active, last, view, tx>>

\* Mutant: the plan read before the lock is reconciled.
BeginReconcileStale ==
    /\ hot # NoPlan /\ hot' = NoPlan
    /\ active # NoPlan
    /\ Begin("hotplug", "reconcile", "backup", hot)
    /\ UNCHANGED <<mode, host, backup, active, last, view>>

\* Reconcile loads the record again under the lock.
BeginReconcile ==
    /\ hot # NoPlan /\ hot' = NoPlan
    /\ \/ active # NoPlan /\ Begin("hotplug", "reconcile", "backup", active)
       \/ Free /\ UNCHANGED tx
    /\ UNCHANGED <<mode, host, backup, active, last, view>>

\* PeriodicMaintenance.Refresh on a running generation: new address sets.
BeginRefresh ==
    /\ view = "on" /\ mode = "gateway" /\ active # NoPlan
    /\ \E p \in Plans : /\ (p \in Upstream) = (active \in Upstream)
                        /\ Begin("manager", "refresh", "routes", p)
    /\ UNCHANGED <<mode, host, backup, active, last, view, hot>>

\* What tells Deactivate in server mode that there is something to remove.
HasGatewayOwnership(who) == (who = "manager" /\ last) \/ active # NoPlan \/ backup # "none"

\* Mutant: a backup that cannot be read counts as one that does not exist.
BeginDeactivateSkipsUnreadable ==
    /\ \E who \in {"manager", "cleanup"} :
         /\ mode = "gateway" \/ HasGatewayOwnership(who)
         /\ IF who = "manager" THEN view # "down" /\ view' = "dirty" ELSE UNCHANGED view
         /\ \E pc \in {"clNft", "rsUci"} : (pc = "rsUci" => backup # "none") /\ Begin(who, "deactivate", pc, NoPlan)
    /\ UNCHANGED <<mode, host, backup, active, last, hot>>

\* Deactivate: an unreadable backup is an error, a missing one is not.
BeginDeactivate ==
    /\ \E who \in {"manager", "cleanup"} :
         /\ mode = "gateway" \/ HasGatewayOwnership(who)
         /\ IF who = "manager" THEN view # "down" /\ view' = "dirty" ELSE UNCHANGED view
         /\ \/ Begin(who, "deactivate", IF backup = "none" THEN "clNft" ELSE "rsUci", NoPlan)
            \/ /\ backup # "none" /\ Free
               /\ tx' = [who |-> who, op |-> "deactivate", pc |-> "clNft", plan |-> NoPlan, err |-> TRUE]
    /\ UNCHANGED <<mode, host, backup, active, last, hot>>

DeactivateNothing ==
    /\ mode = "server" /\ view # "down" /\ ~ByManager
    /\ ~HasGatewayOwnership("manager")
    /\ last' = FALSE /\ view' = "off"
    /\ UNCHANGED <<mode, host, backup, active, hot, tx>>

-----------------------------------------------------------------------------
(* Activate, Reconcile and RefreshDynamicCapture.                          *)

\* Mutant: the current options are saved again over an existing backup.
BackupDNSAlways ==
    /\ At("backup")
    /\ backup' = uci /\ Goto("routes")
    /\ UNCHANGED <<mode, host, active, last, view, hot>>

\* ensureDNSBackup: an existing backup is never overwritten.  A failed write may
\* already have renamed the file into place; an existing file may be unreadable.
BackupDNS ==
    /\ At("backup")
    /\ \/ backup' = (IF backup = "none" THEN uci ELSE backup) /\ Goto("routes")
       \/ backup' \in (IF backup = "none" THEN {"none", uci} ELSE {backup}) /\ Goto("return")
    /\ UNCHANGED <<mode, host, active, last, view, hot>>

\* Mutant: the DNS side of a refreshed or activated plan is skipped.
AfterApplySkipsDNS == Goto("record")

\* RefreshDynamicCapture leaves DNS alone.
AfterApply == Goto(IF tx.op = "refresh" THEN "record" ELSE "uci")

\* openwrt.Apply: policy routes first; a table that matches the plan, and the
\* interfaces discovered for it, is not replaced.
ApplyRoutes ==
    /\ At("routes")
    /\ routes' = TRUE
    /\ \/ nft = tx.plan /\ AfterApply
       \/ Goto("nft")
    /\ UNCHANGED <<mode, nft, uci, live, backup, active, last, view, hot>>

ApplyNft ==
    /\ At("nft")
    /\ nft' = tx.plan
    /\ AfterApply
    /\ UNCHANGED <<mode, routes, uci, live, backup, active, last, view, hot>>

\* The routes may be half written, the former ones deleted before; without a
\* previous table they are removed again.  The nft transaction may commit
\* although its command reports failure.
ApplyFails ==
    /\ tx.pc \in {"routes", "nft"}
    /\ routes' \in IF At("routes") \/ nft = NoPlan THEN BOOLEAN ELSE {routes}
    /\ nft' \in IF At("nft") THEN {nft, tx.plan} ELSE {nft}
    /\ Fail
    /\ UNCHANGED <<mode, uci, live, backup, active, last, view, hot>>

Wanted(plan) == IF plan \in Upstream THEN "boxctl" ELSE backup

\* DNSManager.Apply: dnsmasq is restarted only if its options had to change.
ApplyUci ==
    /\ At("uci")
    /\ uci' = Wanted(tx.plan)
    /\ Goto(IF uci = Wanted(tx.plan) THEN "record" ELSE "restart")
    /\ UNCHANGED <<mode, nft, routes, live, backup, active, last, view, hot>>

\* The section cannot be read, or its options not all be written or committed.
ApplyUciFails ==
    /\ At("uci")
    /\ uci' \in {uci, Wanted(tx.plan)}
    /\ Fail
    /\ UNCHANGED <<mode, nft, routes, live, backup, active, last, view, hot>>

RestartDnsmasq ==
    /\ At("restart")
    /\ live' = uci
    /\ Goto("record")
    /\ UNCHANGED <<mode, nft, routes, uci, backup, active, last, view, hot>>

RestartDnsmasqFails ==
    /\ At("restart")
    /\ live' \in {live, uci}
    /\ Fail
    /\ UNCHANGED <<mode, nft, routes, uci, backup, active, last, view, hot>>

\* Success.  A hotplug process remembers its lastPlan for nobody.
Record ==
    /\ At("record")
    /\ active' = (IF tx.op = "reconcile" THEN active ELSE tx.plan)
    /\ last' = (last \/ ByManager)
    /\ view' = IF tx.op = "activate" THEN "on" ELSE view
    /\ tx' = NoTx
    /\ UNCHANGED <<mode, host, backup, hot>>

\* The record could not be written, or not synced once it was renamed.  Activate
\* remembered its plan before; Refresh reapplies the previous plan.
RecordFails ==
    /\ At("record") /\ tx.op \in {"activate", "refresh"}
    /\ active' \in {active, tx.plan}
    /\ IF tx.op = "activate"
       THEN last' = TRUE /\ tx' = NoTx
       ELSE last' = last /\ tx' = [tx EXCEPT !.pc = "reapply", !.plan = active]
    /\ UNCHANGED <<mode, host, backup, view, hot>>

Reapply ==
    /\ At("reapply")
    /\ nft' \in {nft, tx.plan} /\ routes' \in BOOLEAN
    /\ Goto("return")
    /\ UNCHANGED <<mode, uci, live, backup, active, last, view, hot>>

-----------------------------------------------------------------------------
(* Deactivate, and the rollback of a reconciliation.  DNS comes first; a   *)
(* failure of one side does not keep the other from being removed.         *)

Broken(pc) == tx' = [tx EXCEPT !.err = TRUE, !.pc = pc]

\* Mutant: Restore, like Apply, restarts dnsmasq only on changed options.
RestoreUciSkipsRestart ==
    /\ At("rsUci")
    /\ uci' = backup
    /\ Goto(IF uci = backup THEN "rsRemove" ELSE "rsRestart")
    /\ UNCHANGED <<mode, nft, routes, live, backup, active, last, view, hot>>

\* DNSManager.Restore always restarts dnsmasq.
RestoreUci ==
    /\ At("rsUci")
    /\ \/ uci' = backup /\ Goto("rsRestart")
       \/ uci' \in {uci, backup} /\ Broken("clNft")
    /\ UNCHANGED <<mode, nft, routes, live, backup, active, last, view, hot>>

RestoreRestart ==
    /\ At("rsRestart")
    /\ \/ live' = uci /\ Goto("rsRemove")
       \/ live' \in {live, uci} /\ Broken("clNft")
    /\ UNCHANGED <<mode, nft, routes, uci, backup, active, last, view, hot>>

RemoveDNSBackup ==
    /\ At("rsRemove")
    /\ \/ backup' = "none" /\ Goto("clNft")
       \/ backup' = backup /\ Broken("clNft")
    /\ UNCHANGED <<mode, host, active, last, view, hot>>

\* openwrt.Cleanup: table and routes are removed independently.
CleanupNft ==
    /\ At("clNft")
    /\ \/ nft' = NoPlan /\ Goto("clRoutes")
       \/ nft' \in {nft, NoPlan} /\ Broken("clRoutes")
    /\ UNCHANGED <<mode, routes, uci, live, backup, active, last, view, hot>>

\* Mutant: a failure to remove the routes is dropped.
CleanupRoutesIgnoresErrors ==
    /\ At("clRoutes")
    /\ routes' \in {routes, FALSE} /\ Goto("unrecord")
    /\ UNCHANGED <<mode, nft, uci, live, backup, active, last, view, hot>>

CleanupRoutes ==
    /\ At("clRoutes")
    /\ \/ routes' = FALSE /\ Goto("unrecord")
       \/ routes' \in {routes, FALSE} /\ Broken("unrecord")
    /\ UNCHANGED <<mode, nft, uci, live, backup, active, last, view, hot>>

\* Mutant: the record is removed although something could not be.
UnrecordAnyway ==
    /\ At("unrecord")
    /\ active' = NoPlan
    /\ last' = (last /\ ~ByManager)
    /\ view' = (IF ByManager THEN "off" ELSE view)
    /\ tx' = NoTx
    /\ UNCHANGED <<mode, host, backup, hot>>

\* The record goes last, and only if everything else is gone.
Unrecord ==
    /\ At("unrecord")
    /\ \/ /\ ~tx.err
          /\ active' = NoPlan
          /\ last' = (last /\ ~ByManager)
          /\ view' = (IF ByManager THEN "off" ELSE view)
       \/ /\ active' \in IF tx.err THEN {active} ELSE {active, NoPlan}
          /\ view' = (IF ByManager THEN "failed" ELSE view)
          /\ UNCHANGED last
    /\ tx' = NoTx
    /\ UNCHANGED <<mode, host, backup, hot>>

-----------------------------------------------------------------------------
(* The environment.                                                        *)

\* UpdateSettings holds opMu, so no operation of the lifecycle is under way; the
\* UI serves only once the initial Start or Stop has returned.
SetMode ==
    /\ ~ByManager /\ view \in {"off", "on", "failed"}
    /\ mode' \in {"gateway", "server"} \ {mode}
    /\ UNCHANGED <<host, backup, active, last, view, hot, tx>>

ManagerGone ==
    /\ view # "down" /\ view' = "down" /\ last' = FALSE
    /\ tx' = IF ByManager THEN NoTx ELSE tx
    /\ UNCHANGED <<mode, host, backup, active, hot>>

OneShotDies ==
    /\ tx.who \in {"hotplug", "cleanup"} /\ tx' = NoTx
    /\ UNCHANGED <<mode, host, backup, active, last, view, hot>>

\* Files and UCI survive; the kernel state is lost and dnsmasq starts afresh.
Reboot ==
    /\ nft' = NoPlan /\ routes' = FALSE /\ live' = uci
    /\ view' = "down" /\ last' = FALSE /\ hot' = NoPlan /\ tx' = NoTx
    /\ UNCHANGED <<mode, uci, backup, active>>

Next ==
    \/ ManagerStart \/ BeginActivate \/ ActivateNothing \/ HotplugEvent \/ BeginReconcile \/ BeginRefresh
    \/ BeginDeactivate \/ DeactivateNothing \/ ReturnError
    \/ BackupDNS \/ ApplyRoutes \/ ApplyNft \/ ApplyFails \/ ApplyUci \/ ApplyUciFails
    \/ RestartDnsmasq \/ RestartDnsmasqFails \/ Record \/ RecordFails \/ Reapply
    \/ RestoreUci \/ RestoreRestart \/ RemoveDNSBackup \/ CleanupNft \/ CleanupRoutes \/ Unrecord
    \/ SetMode \/ ManagerGone \/ OneShotDies \/ Reboot

Spec == Init /\ [][Next]_vars

-----------------------------------------------------------------------------
(* Properties.                                                             *)

\* Without a DNS backup nothing is left to restore: neither the configuration
\* nor the running dnsmasq serves boxctl's values, whatever step failed and
\* whichever process died on the way (ensureDNSBackup, Restore).
DnsBackupCovers == backup = "none" => uci = "admin" /\ live = "admin"

\* The backup is always the administrator's configuration: a retry over a
\* half-applied or half-restored transaction never saves boxctl's own options.
BackupIsAdmins == backup # "boxctl"

\* Together: whenever dnsmasq may serve boxctl's values there is a backup, and
\* it holds what the administrator had, so the original is never out of reach.
DnsBackupSafe == DnsBackupCovers /\ BackupIsAdmins

\* Nothing is left behind, in the kernel, in dnsmasq or on disk.
OffOwnsNothing ==
    view = "off" => /\ nft = NoPlan /\ ~routes /\ active = NoPlan
                    /\ uci = "admin" /\ live = "admin" /\ backup = "none"

\* A generation whose Deactivate returned success has left nothing behind, and
\* nobody late - a hotplug event, a refresh, a cleanup - brings any of it back,
\* as long as OPERATING_MODE stays gateway.  (In server mode Deactivate skips a
\* generation that an earlier gateway mode left on record and in the kernel.)
OffStaysEmpty == [](mode = "gateway") => []OffOwnsNothing

\* When Activate succeeds in gateway mode, what is installed is exactly the
\* generation on record, on the packet side and on the DNS side.  A hotplug
\* reconciliation installs the generation on record at that moment, never the
\* one its event was read under.
InstallsTheRecord ==
    [][/\ view # "on" /\ view' = "on" /\ mode = "gateway" =>
            /\ active' # NoPlan /\ nft' = active' /\ routes'
            /\ backup' = "admin"
            /\ uci' = IF active' \in Upstream THEN "boxctl" ELSE "admin"
       /\ At("record") /\ tx.op = "reconcile" => nft = active]_vars

\* The transaction implements the contract the lifecycle is checked against.
Contract == INSTANCE Activation WITH
    owned <- (IF nft # NoPlan \/ routes THEN {"capture"} ELSE {}) \union (IF backup # "none" THEN {"dns"} ELSE {}),
    recorded <- active # NoPlan,
    call <- IF tx.op = "refresh" THEN "reconcile" ELSE tx.op

ImplementsContract == Contract!ActSpec

\* What the lifecycle learns is true: the manager's Activate succeeds only as the
\* contract's InstalledOK and its Deactivate only as RemovedOK.
ReportsTruthfully ==
    [][ByManager /\ view' # view =>
         /\ view' = "on" => Contract!InstalledOK("activate")
         /\ view' = "off" => Contract!RemovedOK("deactivate")]_vars
=============================================================================
