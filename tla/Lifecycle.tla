------------------------------ MODULE Lifecycle ------------------------------
(***************************************************************************)
(* internal/app/lifecycle.go with everything that runs concurrently with   *)
(* it: the API operations and the crash monitor serialised by opMu, the    *)
(* core process, the kernel restart guard, one-shot hotplug and cleanup    *)
(* processes, and crashes and restarts of the manager.                     *)
(*                                                                         *)
(* A lifecycle operation is a record op that walks through the steps of    *)
(* the code (op.pc); the lock opMu is held exactly while op.pc # "idle".   *)
(* Capture and DNS are the Activation contract this module extends.        *)
(***************************************************************************)
EXTENDS Activation

CONSTANTS
    Gens,          \* private runtimes (one directory each); a removed one may be reused
    Profiles,      \* selectable profiles
    ProfileOf,     \* the profile a generation was prepared from
    NoGen,         \* the empty PreparedCore
    Offered        \* the API operations this instance exercises

ASSUME GensAssumption == NoGen \notin Gens
ASSUME ProfileAssumption == ProfileOf \in [Gens -> Profiles]

VARIABLES
    mgr,        \* "down", "adopting", "serving" (boot), "up", "stopping"
    argv,       \* "start" or "start-stopped": how procd launched this manager
    snap,       \* LifecycleSnapshot: state, prepared, health (last probe saw a process)
    op,         \* the operation holding opMu
    mon,        \* "retry": Monitor read cleanup-failed and is about to call Stop
    slot,       \* EngineHost.running # ""
    core,       \* the generation the live core is recorded with, NoGen if none lives
    runs,       \* the generation the live core process has loaded
    halfDone,   \* history: the last reload reached the process but not its record
    files,      \* the private runtimes on disk that somebody still refers to
    selected,   \* the active profile
    guard,      \* the restart guard's nft table: "off", "on", "expired"
    gstat,      \* openWrtRestartGuard.status: active, err (LastError # "")
    guardOn,    \* guardInProgress
    policy,     \* the CORE_RESTART_GUARD setting
    hot         \* a one-shot hotplug process saw a ready core, not yet locked

lcVars == <<mgr, argv, snap, op, mon, slot, core, runs, halfDone, files, selected, guard, gstat, guardOn, policy, hot>>
vars == <<actVars, lcVars>>

States == {"unset", "stopped", "starting", "running", "stopping", "cleanup-failed", "failed"}
Replacements == {"switch", "reconf"}
Kinds == Replacements \union
    {"none", "start", "stop", "restart", "recover", "discard", "monitor", "retry", "clean", "shutdown", "reload"}
Pcs == {"idle", "prepare", "guardBegin", "coreStart", "ready1", "activate", "ready2", "verify", "commit",
        "rbDeact", "rbStop", "stDeact", "stStop", "reload", "finish", "guardOff"}
MaybeGen == Gens \union {NoGen}

\* why: which failure a rollback answers ("stale": what a dead manager left,
\* "start": Core.Start refused, "late": after the core was accepted).
Idle == [kind |-> "none", pc |-> "idle", cur |-> NoGen, spare |-> NoGen, restore |-> FALSE, why |-> "none"]
NoSnap == [state |-> "unset", prepared |-> NoGen, health |-> FALSE]
NoGuard == [active |-> FALSE, err |-> FALSE]

Snaps == [state : States, prepared : MaybeGen, health : BOOLEAN]
Ops == [kind : Kinds, pc : Pcs, cur : MaybeGen, spare : MaybeGen, restore : BOOLEAN,
        why : {"none", "stale", "start", "late"}]
GuardStatus == [active : BOOLEAN, err : BOOLEAN]

TypeOK ==
    /\ ActTypeOK
    /\ mgr \in {"down", "adopting", "serving", "up", "stopping"}
    /\ argv \in {"start", "start-stopped"}
    /\ snap \in Snaps
    /\ op \in Ops
    /\ mon \in {"watch", "retry"}
    /\ slot \in BOOLEAN
    /\ core \in MaybeGen /\ runs \in MaybeGen
    /\ halfDone \in BOOLEAN
    /\ files \subseteq Gens
    /\ selected \in Profiles
    /\ guard \in {"off", "on", "expired"}
    /\ gstat \in GuardStatus
    /\ guardOn \in BOOLEAN
    /\ policy \in BOOLEAN
    /\ hot \in BOOLEAN

Init ==
    /\ ActInit
    /\ mgr = "down" /\ argv = "start"
    /\ snap = NoSnap /\ op = Idle /\ mon = "watch"
    /\ slot = FALSE /\ files = {}
    /\ core = NoGen /\ runs = NoGen /\ halfDone = FALSE
    /\ selected \in Profiles
    /\ guard = "off" /\ gstat = NoGuard /\ guardOn = FALSE /\ policy \in BOOLEAN
    /\ hot = FALSE

\* A private runtime gets a new random name.
Fresh(profs) == {g \in Gens \ (files \union {runs}) : ProfileOf[g] \in profs}
OpIdle == op.pc = "idle"
Replacing == op.kind \in Replacements
AtPc(pcs) == op.pc \in pcs

\* The groups of variables an action leaves alone.
hostVars == <<mgr, argv, mon, selected, policy, hot>>
guardVars == <<guard, gstat, guardOn>>
coreVars == <<slot, core, runs, halfDone>>

-----------------------------------------------------------------------------
(* The restart guard.  Its removal runs under the gateway-dns lock.        *)

GuardRemoved ==
    /\ call = "none"
    /\ guard' = "off" /\ gstat' = NoGuard

\* Mutant: a failed removal is not remembered for the monitor's retry.
GuardNotRemovedForgotten ==
    /\ guard' \in {guard, "off"}
    /\ gstat' = gstat

\* The table may be gone although its absence could not be verified.
GuardNotRemoved ==
    /\ guard' \in {guard, "off"}
    /\ gstat' = [gstat EXCEPT !.err = TRUE]

GuardRemove == GuardRemoved \/ GuardNotRemoved

\* Stop removes a guard it knows about, CleanupFirewall always.
GuardOffDue ==
    \/ op.kind = "clean"
    \/ op.kind \in {"stop", "retry", "shutdown"} /\ (gstat.active \/ gstat.err)

\* The operation returns, f being the runtimes it leaves on disk: the deferred
\* finishGuard and the cleanup of an unconsumed rollback clone come last.
Return(f) ==
    IF guardOn \/ GuardOffDue
    THEN /\ op' = [op EXCEPT !.pc = IF guardOn THEN "finish" ELSE "guardOff", !.cur = NoGen]
         /\ files' = f
    ELSE /\ op' = Idle
         /\ files' = f \ {op.spare}

FinishGuard ==
    /\ AtPc({"finish", "guardOff"})
    /\ GuardRemove
    /\ guardOn' = FALSE
    /\ op' = Idle
    /\ files' = files \ {op.spare}
    /\ UNCHANGED <<actVars, hostVars, coreVars, snap>>

\* Mutant: the tick removes whatever guard it finds, without opMu.
RetryGuardCleanupUnlocked ==
    /\ mgr = "up"
    /\ GuardRemove
    /\ UNCHANGED <<actVars, hostVars, coreVars, snap, op, files, guardOn>>

\* Mutant: only a guard this manager installed is retried.
RetryGuardCleanupOwnOnly ==
    /\ mgr = "up" /\ OpIdle /\ gstat.err /\ gstat.active
    /\ GuardRemove
    /\ UNCHANGED <<actVars, hostVars, coreVars, snap, op, files, guardOn>>

\* retryRestartGuardCleanup: the monitor's tick, only between operations.
RetryGuardCleanup ==
    /\ mgr = "up" /\ OpIdle /\ gstat.err
    /\ GuardRemove
    /\ UNCHANGED <<actVars, hostVars, coreVars, snap, op, files, guardOn>>

\* The kernel lease of the protected elements runs out.
GuardExpires ==
    /\ guard = "on" /\ guard' = "expired"
    /\ UNCHANGED <<actVars, hostVars, coreVars, snap, op, files, gstat, guardOn>>

\* UpdateSettings: enabling only validates; disabling must first verify that no
\* guard is left, and keeps the setting when it cannot.
SetPolicy ==
    /\ mgr = "up" /\ OpIdle /\ "policy" \in Offered
    /\ \/ /\ ~policy /\ policy' = TRUE
          /\ UNCHANGED guardVars
       \/ /\ policy
          /\ \/ GuardRemoved /\ policy' = FALSE
             \/ GuardNotRemoved /\ policy' = policy
          /\ UNCHANGED guardOn
    /\ UNCHANGED <<actVars, mgr, argv, mon, selected, hot, coreVars, snap, op, files>>

-----------------------------------------------------------------------------
(* Operations take opMu.                                                   *)

Take(kind, pc) == op' = [Idle EXCEPT !.kind = kind, !.pc = pc]
UserUp == mgr = "up" /\ OpIdle

\* startLocked: an unset or failed state first removes whatever it may own.
StartFrom(kind) ==
    IF snap.state \in {"unset", "failed"}
    THEN op' = [Idle EXCEPT !.kind = kind, !.pc = "rbDeact", !.why = "stale"] /\ UNCHANGED snap
    ELSE Take(kind, "prepare") /\ snap' = [snap EXCEPT !.state = "starting"]

BeginStart ==
    /\ UserUp /\ "start" \in Offered
    /\ snap.state \notin {"running", "cleanup-failed"}
    /\ StartFrom("start")
    /\ UNCHANGED <<actVars, hostVars, coreVars, files, guardVars>>

\* stopWithCleanupLocked: a clean stop is not repeated, except by force.
StopFrom(kind) ==
    IF snap.state = "stopped" /\ kind # "clean"
    THEN /\ kind # "discard"
         /\ op' = IF gstat.active \/ gstat.err THEN [Idle EXCEPT !.kind = kind, !.pc = "guardOff"] ELSE Idle
         /\ UNCHANGED snap
    ELSE Take(kind, "stDeact") /\ snap' = [snap EXCEPT !.state = "stopping"]

BeginStop ==
    /\ UserUp
    /\ \E k \in {"stop", "clean"} \intersect Offered : StopFrom(k)
    /\ UNCHANGED <<actVars, hostVars, coreVars, files, guardVars>>

\* Restart and RestartIfRunning without the guard: stop, then startLocked.
BeginRestart ==
    /\ UserUp /\ "restart" \in Offered
    /\ IF snap.state = "stopped" THEN StartFrom("restart")
       ELSE Take("restart", "stDeact") /\ snap' = [snap EXCEPT !.state = "stopping"]
    /\ UNCHANGED <<actVars, hostVars, coreVars, files, guardVars>>

\* SwitchPrepared, ReconfigurePrepared (saved configuration, guarded restart)
\* and the hot reload act on a running generation.
BeginOnRunning(kind) ==
    /\ UserUp
    /\ snap.state = "running"
    /\ Take(kind, "prepare")
    /\ UNCHANGED <<actVars, hostVars, coreVars, snap, files, guardVars>>

\* With nothing running a switch only commits the selection.
SwitchSelection ==
    /\ UserUp /\ "switch" \in Offered
    /\ snap.state \notin {"running", "cleanup-failed", "starting", "stopping"}
    /\ selected' \in Profiles \ {selected}
    /\ UNCHANGED <<actVars, mgr, argv, mon, policy, hot, coreVars, snap, op, files, guardVars>>

\* Mutant: only a live core with a failing controller is noticed.
MonitorIgnoresExit ==
    /\ UserUp
    /\ snap.state = "running" /\ core # NoGen
    /\ Take("monitor", "stDeact")
    /\ snap' = [snap EXCEPT !.state = "stopping", !.health = TRUE]
    /\ UNCHANGED <<actVars, hostVars, coreVars, files, guardVars>>

\* The monitor saw no process, or the controller failed ControllerFailures times.
MonitorFailsOpen ==
    /\ UserUp
    /\ snap.state = "running"
    /\ Take("monitor", "stDeact")
    /\ snap' = [snap EXCEPT !.state = "stopping", !.health = (core # NoGen)]
    /\ UNCHANGED <<actVars, hostVars, coreVars, files, guardVars>>

\* Mutant: Monitor treats cleanup-failed like any other idle state.
MonitorIgnoresCleanupFailed ==
    /\ mgr = "up" /\ mon = "watch"
    /\ snap.state = "failed"
    /\ mon' = "retry"
    /\ UNCHANGED <<actVars, mgr, argv, selected, policy, hot, coreVars, snap, op, files, guardVars>>

\* Monitor reads the state without opMu and calls Stop for what it read.
MonitorSeesCleanupFailed ==
    /\ mgr = "up" /\ mon = "watch"
    /\ snap.state = "cleanup-failed"
    /\ mon' = "retry"
    /\ UNCHANGED <<actVars, mgr, argv, selected, policy, hot, coreVars, snap, op, files, guardVars>>

MonitorRetries ==
    /\ mgr \in {"up", "stopping"} /\ OpIdle
    /\ mon = "retry" /\ mon' = "watch"
    /\ StopFrom("retry")
    /\ UNCHANGED <<actVars, mgr, argv, selected, policy, hot, coreVars, files, guardVars>>

-----------------------------------------------------------------------------
(* The steps of an operation.                                              *)

StartCore(g) == snap' = [state |-> "starting", prepared |-> g, health |-> snap.health]

\* Mutant: the rollback "clone" is the live runtime itself.
PrepareWithoutClone ==
    /\ AtPc({"prepare"})
    /\ \E g \in Fresh(IF op.kind = "switch" THEN Profiles \ {selected} ELSE {selected}) :
         \/ /\ op.kind \in {"start", "restart"}
            /\ op' = [op EXCEPT !.pc = "coreStart", !.cur = g]
            /\ files' = files \union {g}
            /\ StartCore(g)
         \/ /\ Replacing
            /\ snap.prepared \in files
            /\ op' = [op EXCEPT !.pc = "guardBegin", !.cur = g, !.spare = snap.prepared]
            /\ files' = files \union {g}
            /\ UNCHANGED snap
    /\ UNCHANGED <<actVars, hostVars, coreVars, guardVars>>

\* PrepareActive for a start, the preflight of a replacement and its clone of
\* the live runtime, or the runtime of a hot reload.
PrepareOK ==
    /\ AtPc({"prepare"})
    /\ \E g \in Fresh(IF op.kind = "switch" THEN Profiles \ {selected} ELSE {selected}) :
         \/ /\ op.kind \in {"start", "restart"}
            /\ op' = [op EXCEPT !.pc = "coreStart", !.cur = g]
            /\ files' = files \union {g}
            /\ StartCore(g)
         \/ /\ op.kind = "reload"
            /\ op' = [op EXCEPT !.pc = "reload", !.cur = g]
            /\ files' = files \union {g}
            /\ UNCHANGED snap
         \/ /\ Replacing
            /\ snap.prepared \in files
            /\ \E s \in Fresh({ProfileOf[snap.prepared]}) \ {g} :
                 /\ op' = [op EXCEPT !.pc = "guardBegin", !.cur = g, !.spare = s]
                 /\ files' = files \union {g, s}
            /\ UNCHANGED snap
    /\ UNCHANGED <<actVars, hostVars, coreVars, guardVars>>

PrepareFails ==
    /\ AtPc({"prepare"})
    /\ snap' = IF op.kind \in {"start", "restart"} THEN [snap EXCEPT !.state = "failed"] ELSE snap
    /\ Return(files)
    /\ UNCHANGED <<actVars, hostVars, coreVars, guardVars>>

StopOld == op' = [op EXCEPT !.pc = "stDeact"] /\ snap' = [snap EXCEPT !.state = "stopping"]

\* beginRestartGuard.  Without a panel reason or the policy there is no guard.
GuardSkipped ==
    /\ AtPc({"guardBegin"})
    /\ StopOld
    /\ UNCHANGED <<actVars, hostVars, coreVars, files, guardVars>>

\* Begin checks the old gateway's capture, not its DNS, and installs the table
\* under one lock.
GuardInstalled ==
    /\ AtPc({"guardBegin"}) /\ policy
    /\ call = "none" /\ recorded /\ "capture" \in owned
    /\ guard' = "on" /\ gstat' = [active |-> TRUE, err |-> FALSE] /\ guardOn' = TRUE
    /\ StopOld
    /\ UNCHANGED <<actVars, hostVars, coreVars, files>>

\* The removal after a failed Begin fails too: the table may have been installed
\* and only its verification have failed.
GuardStuck ==
    /\ guard' \in {guard, "off"} \/ (call = "none" /\ guard' = "on")
    /\ gstat' = [gstat EXCEPT !.err = TRUE]

\* A refused or failed installation leaves the old generation untouched.
GuardFails ==
    /\ AtPc({"guardBegin"}) /\ policy
    /\ UNCHANGED <<guard, gstat>> \/ GuardRemoved \/ GuardStuck
    /\ op' = Idle
    /\ files' = files \ {op.cur, op.spare}
    /\ UNCHANGED <<actVars, hostVars, coreVars, snap, guardOn>>

\* The process runs g and its record says so.
Records(g) == core' = g /\ runs' = g /\ halfDone' = FALSE

\* A rollback clone becomes the core's own once Core.Start accepted it.
CoreStartOK ==
    /\ AtPc({"coreStart"}) /\ op.cur \in files
    /\ ~slot /\ core = NoGen
    /\ slot' = TRUE /\ Records(op.cur)
    /\ op' = [op EXCEPT !.pc = "ready1", !.spare = IF op.restore THEN NoGen ELSE op.spare]
    /\ UNCHANGED <<actVars, hostVars, snap, files, guardVars>>

RollBack(why) == op' = [op EXCEPT !.pc = "rbDeact", !.why = why]

CoreStartFails ==
    /\ AtPc({"coreStart"})
    /\ RollBack("start")
    /\ UNCHANGED <<actVars, hostVars, coreVars, snap, files, guardVars>>

Started ==
    /\ snap' = [state |-> "running", prepared |-> op.cur, health |-> TRUE]
    /\ IF Replacing /\ ~op.restore
       THEN op' = [op EXCEPT !.pc = "commit"] /\ UNCHANGED files
       ELSE Return(files)

\* waitReady before and after the activation.
Ready ==
    /\ AtPc({"ready1", "ready2"})
    /\ core # NoGen /\ slot
    /\ \/ /\ op.pc = "ready1"
          /\ op' = [op EXCEPT !.pc = "activate"]
          /\ snap' = [snap EXCEPT !.health = TRUE]
          /\ UNCHANGED files
       \/ /\ op.pc = "ready2" /\ guardOn
          /\ op' = [op EXCEPT !.pc = "verify"]
          /\ snap' = [snap EXCEPT !.health = TRUE]
          /\ UNCHANGED files
       \/ op.pc = "ready2" /\ ~guardOn /\ Started
    /\ UNCHANGED <<actVars, hostVars, coreVars, guardVars>>

NotReady ==
    /\ AtPc({"ready1", "ready2"})
    /\ RollBack("late")
    /\ snap' = [snap EXCEPT !.health = (core # NoGen)]
    /\ UNCHANGED <<actVars, hostVars, coreVars, files, guardVars>>

\* RestartGuard.Verify of the replacement gateway.
VerifyOK ==
    /\ AtPc({"verify"})
    /\ call = "none" /\ recorded /\ owned = Resources
    /\ Started
    /\ UNCHANGED <<actVars, hostVars, coreVars, guardVars>>

VerifyFails ==
    /\ AtPc({"verify"})
    /\ RollBack("late")
    /\ UNCHANGED <<actVars, hostVars, coreVars, snap, files, guardVars>>

CommitOK ==
    /\ AtPc({"commit"})
    /\ selected' = IF op.kind = "switch" THEN ProfileOf[op.cur] ELSE selected
    /\ Return(files)
    /\ UNCHANGED <<actVars, mgr, argv, mon, policy, hot, coreVars, snap, guardVars>>

\* Mutant: the target generation stays although its selection was not saved.
CommitFailsKeepsTarget ==
    /\ AtPc({"commit"})
    /\ Return(files)
    /\ UNCHANGED <<actVars, hostVars, coreVars, snap, guardVars>>

CommitFails ==
    /\ AtPc({"commit"})
    /\ op' = [op EXCEPT !.pc = "stDeact", !.restore = TRUE]
    /\ snap' = [snap EXCEPT !.state = "stopping"]
    /\ UNCHANGED <<actVars, hostVars, coreVars, files, guardVars>>

-----------------------------------------------------------------------------
(* Activation calls of the lifecycle.                                      *)

ActCall == CASE op.pc = "activate" -> "activate"
             [] op.pc \in {"rbDeact", "stDeact"} -> "deactivate"
             [] OTHER -> "none"

ActBegin ==
    /\ ActCall # "none" /\ BeginCall(ActCall)
    /\ UNCHANGED lcVars

ActStep ==
    /\ ActCall # "none" /\ call = ActCall
    /\ \E r \in Resources : Install(r) \/ Remove(r)
    /\ UNCHANGED lcVars

\* The error return of a call, or of the attempt to lock it.
ActFailed == AbandonCall(ActCall) \/ (call # ActCall /\ UNCHANGED actVars)

ActivateOK ==
    /\ AtPc({"activate"})
    /\ InstalledOK("activate")
    /\ op' = [op EXCEPT !.pc = "ready2"]
    /\ UNCHANGED <<hostVars, coreVars, snap, files, guardVars>>

ActivateFails ==
    /\ AtPc({"activate"}) /\ ActFailed
    /\ RollBack("late")
    /\ UNCHANGED <<hostVars, coreVars, snap, files, guardVars>>

DeactivateOK ==
    /\ AtPc({"rbDeact", "stDeact"})
    /\ RemovedOK("deactivate")
    /\ op' = [op EXCEPT !.pc = IF op.pc = "rbDeact" THEN "rbStop" ELSE "stStop"]
    /\ UNCHANGED <<hostVars, coreVars, snap, files, guardVars>>

\* Mutant: the core is stopped although capture may remain.
DeactivateFailsStopsCore ==
    /\ AtPc({"rbDeact", "stDeact"}) /\ ActFailed
    /\ op' = [op EXCEPT !.pc = IF op.pc = "rbDeact" THEN "rbStop" ELSE "stStop"]
    /\ UNCHANGED <<hostVars, coreVars, snap, files, guardVars>>

\* Mutant: a failed cleanup is reported like any failed start.
DeactivateFailsAsFailed ==
    /\ AtPc({"rbDeact", "stDeact"}) /\ ActFailed
    /\ snap' = [snap EXCEPT !.state = "failed"]
    /\ Return(IF op.pc = "stDeact" /\ Replacing /\ ~op.restore THEN files \ {op.cur} ELSE files)
    /\ UNCHANGED <<hostVars, coreVars, guardVars>>

\* markCleanupFailed: the core is kept alive, a replacement is abandoned and no
\* previous generation is started over an unknown dataplane.
DeactivateFails ==
    /\ AtPc({"rbDeact", "stDeact"}) /\ ActFailed
    /\ snap' = [snap EXCEPT !.state = "cleanup-failed"]
    /\ Return(IF op.pc = "stDeact" /\ Replacing /\ ~op.restore THEN files \ {op.cur} ELSE files)
    /\ UNCHANGED <<hostVars, coreVars, guardVars>>

-----------------------------------------------------------------------------
(* Core.Stop after a successful Deactivate.                                *)

StopProcess == slot' = FALSE /\ Records(NoGen)

\* restorePreparedAfterFailure: start the clone of the previous generation.
Restore ==
    /\ op' = [op EXCEPT !.pc = "coreStart", !.cur = op.spare, !.restore = TRUE]
    /\ snap' = [state |-> "starting", prepared |-> op.spare, health |-> FALSE]

StopOK ==
    /\ AtPc({"stStop"}) /\ StopProcess
    /\ LET left == files \ {core, snap.prepared} IN
         \/ /\ Replacing /\ op.restore
            /\ Restore /\ files' = left
         \/ /\ Replacing /\ ~op.restore
            /\ op' = [op EXCEPT !.pc = "coreStart"]
            /\ snap' = [state |-> "starting", prepared |-> op.cur, health |-> FALSE]
            /\ files' = left
         \/ /\ op.kind = "restart"
            /\ op' = [op EXCEPT !.pc = "prepare"]
            /\ snap' = [state |-> "starting", prepared |-> NoGen, health |-> FALSE]
            /\ files' = left
         \/ /\ ~Replacing /\ op.kind # "restart"
            /\ snap' = [state |-> "stopped", prepared |-> NoGen, health |-> FALSE]
            /\ Return(left)
    /\ UNCHANGED <<actVars, hostVars, guardVars>>

\* Mutant: a core that could not be stopped is reported stopped.
StopFailsAsStopped ==
    /\ AtPc({"stStop"}) /\ slot
    /\ snap' = [snap EXCEPT !.state = "stopped"]
    /\ Return(IF Replacing /\ ~op.restore THEN files \ {op.cur} ELSE files)
    /\ UNCHANGED <<actVars, hostVars, coreVars, guardVars>>

\* The process or its runtime may still be in use: nothing is restored.
StopFails ==
    /\ AtPc({"stStop"}) /\ slot
    /\ snap' = [snap EXCEPT !.state = "failed"]
    /\ Return(IF Replacing /\ ~op.restore THEN files \ {op.cur} ELSE files)
    /\ UNCHANGED <<actVars, hostVars, coreVars, guardVars>>

RollbackOK ==
    /\ AtPc({"rbStop"}) /\ StopProcess
    /\ LET left == files \ {core, op.cur} IN
         \/ /\ op.why = "stale"
            /\ op' = [op EXCEPT !.pc = "prepare", !.why = "none"]
            /\ snap' = [state |-> "starting", prepared |-> NoGen, health |-> FALSE]
            /\ files' = left
         \/ /\ op.why # "stale" /\ Replacing /\ ~op.restore
            /\ Restore /\ files' = left
         \/ /\ op.why # "stale" /\ ~(Replacing /\ ~op.restore)
            /\ snap' = [state |-> "failed", prepared |-> NoGen, health |-> FALSE]
            /\ Return(left)
    /\ UNCHANGED <<actVars, hostVars, guardVars>>

\* Mutant: the runtime is removed although its core may still run.
RollbackStopFailsRemoves ==
    /\ AtPc({"rbStop"}) /\ slot
    /\ snap' = [snap EXCEPT !.state = "failed"]
    /\ Return(files \ {op.cur})
    /\ UNCHANGED <<actVars, hostVars, coreVars, guardVars>>

\* Mutant: the rollback is repeated until Core.Stop succeeds.
RollbackStopFailsRetries ==
    /\ AtPc({"rbStop"}) /\ slot
    /\ op' = [op EXCEPT !.pc = "rbDeact"]
    /\ UNCHANGED <<actVars, hostVars, coreVars, snap, files, guardVars>>

\* Core.Stop failed.  A generation last seen running forbids the restore.
RollbackStopFails ==
    /\ AtPc({"rbStop"}) /\ slot
    /\ LET left == IF op.why = "start" THEN files \ {op.cur} ELSE files IN
         \/ /\ op.why # "stale" /\ Replacing /\ ~op.restore /\ ~snap.health
            /\ Restore /\ files' = left
         \/ /\ ~(op.why # "stale" /\ Replacing /\ ~op.restore /\ ~snap.health)
            /\ snap' = [snap EXCEPT !.state = "failed"]
            /\ Return(left)
    /\ UNCHANGED <<actVars, hostVars, coreVars, guardVars>>

-----------------------------------------------------------------------------
(* CoreService.Reload: the native hot reload of a running Mihomo.          *)

ReloadOK ==
    /\ AtPc({"reload"}) /\ core # NoGen
    /\ Records(op.cur)
    /\ snap' = [snap EXCEPT !.prepared = op.cur]
    /\ Return(files \ {core})
    /\ UNCHANGED <<actVars, hostVars, slot, guardVars>>

\* Mutant: a reload the process never saw is reported as done.
ReloadFailsAdopted ==
    /\ AtPc({"reload"})
    /\ core' = op.cur /\ snap' = [snap EXCEPT !.prepared = op.cur]
    /\ Return(files \ {core})
    /\ UNCHANGED <<actVars, hostVars, slot, runs, halfDone, guardVars>>

ReloadFails ==
    /\ AtPc({"reload"})
    /\ Return(files \ {op.cur})
    /\ UNCHANGED <<actVars, hostVars, coreVars, snap, guardVars>>

\* The controller took the new configuration but the process record could not
\* be rewritten: Reload reports an error and its caller removes the runtime.
ReloadHalfDone ==
    /\ AtPc({"reload"}) /\ core # NoGen
    /\ runs' = op.cur /\ halfDone' = TRUE
    /\ Return(files \ {op.cur})
    /\ UNCHANGED <<actVars, hostVars, slot, core, snap, guardVars>>

-----------------------------------------------------------------------------
(* The manager process: boot, adoption, shutdown, crash.                   *)

\* defaultServeRuntime first removes a stale guard.  The owner lock excludes a
\* concurrent one-shot cleanup.
ManagerStart ==
    /\ mgr = "down" /\ call # "deactivate"
    /\ mgr' = "adopting"
    /\ argv' \in {"start", "start-stopped"}
    /\ GuardRemove
    /\ UNCHANGED <<actVars, snap, op, mon, coreVars, files, selected, guardOn, policy, hot>>

\* adoptSelectedEngine + acceptAdoptedGeneration: a surviving core is recovered
\* if it still matches the selection and this boot may run it, else discarded.
Adopt ==
    /\ mgr = "adopting" /\ mgr' = "serving"
    /\ IF core = NoGen
       THEN UNCHANGED <<snap, op, slot>>
       ELSE /\ slot' = TRUE
            /\ IF ProfileOf[core] = selected /\ argv = "start"
               THEN /\ snap' = [state |-> "starting", prepared |-> core, health |-> TRUE]
                    /\ op' = [Idle EXCEPT !.kind = "recover", !.pc = "ready1", !.cur = core]
               ELSE /\ snap' = [state |-> "stopping", prepared |-> core, health |-> TRUE]
                    /\ Take("discard", "stDeact")
    /\ UNCHANGED <<actVars, argv, mon, core, runs, halfDone, files, selected, guardVars, policy, hot>>

\* Serve brings the lifecycle to what procd asked for, then serves.
Serve ==
    /\ mgr = "serving" /\ OpIdle
    /\ mgr' = "up" /\ argv' = "start"
    /\ \/ argv = "start-stopped" /\ StopFrom("stop")
       \/ argv = "start" /\ snap.state \notin {"running", "cleanup-failed"} /\ StartFrom("start")
       \/ argv = "start" /\ snap.state \in {"running", "cleanup-failed"} /\ UNCHANGED <<snap, op>>
    /\ UNCHANGED <<actVars, mon, coreVars, files, selected, guardVars, policy, hot>>

Terminate ==
    /\ mgr = "up" /\ mgr' = "stopping"
    /\ UNCHANGED <<actVars, argv, mon, selected, policy, hot, coreVars, snap, op, files, guardVars>>

\* stopLifecycleForShutdown retries Stop within the shutdown budget.
ShutdownStop ==
    /\ mgr = "stopping" /\ OpIdle
    /\ snap.state # "stopped" \/ gstat.active \/ gstat.err
    /\ StopFrom("shutdown")
    /\ UNCHANGED <<actVars, hostVars, coreVars, files, guardVars>>

\* Only the core process, the host state and the settings outlive the manager.
Gone ==
    /\ mgr' = "down" /\ argv' = "start"
    /\ snap' = NoSnap /\ op' = Idle /\ mon' = "watch"
    /\ slot' = FALSE /\ guardOn' = FALSE /\ gstat' = NoGuard
    /\ files' = files \intersect {core}
    /\ UNCHANGED <<core, runs, halfDone, guard, selected, policy, hot>>

Exit == mgr = "stopping" /\ OpIdle /\ Gone /\ UNCHANGED actVars

\* A call in progress dies with its process and its file lock is released.
ManagerCrash ==
    /\ mgr # "down" /\ Gone
    /\ IF call \in {"activate", "deactivate"} THEN AbandonCall(call) ELSE UNCHANGED actVars

CoreDies ==
    /\ core # NoGen
    /\ Records(NoGen) /\ files' = files \ {core}
    /\ UNCHANGED <<actVars, hostVars, slot, snap, op, guardVars>>

\* The router reboots: of the runtimes, the guard and the packet path nothing
\* is left; procd starts the manager again.
Reboot ==
    /\ mgr' = "down" /\ argv' = "start"
    /\ snap' = NoSnap /\ op' = Idle /\ mon' = "watch"
    /\ slot' = FALSE /\ Records(NoGen) /\ files' = {}
    /\ guard' = "off" /\ gstat' = NoGuard /\ guardOn' = FALSE /\ hot' = FALSE
    /\ LoseCapture
    /\ UNCHANGED <<selected, policy>>

-----------------------------------------------------------------------------
(* One-shot processes.                                                     *)

\* boxctl hotplug: preparedCoreReady, then Reconcile under the lock.
HotplugEvent ==
    /\ core # NoGen /\ ~hot /\ hot' = TRUE
    /\ UNCHANGED <<actVars, mgr, argv, mon, selected, policy, coreVars, snap, op, files, guardVars>>

HotplugBegin ==
    /\ hot /\ hot' = FALSE
    /\ BeginCall("reconcile") \/ UNCHANGED actVars
    /\ UNCHANGED <<mgr, argv, mon, selected, policy, coreVars, snap, op, files, guardVars>>

HotplugStep ==
    /\ call = "reconcile"
    /\ \/ \E r \in Resources : Install(r) \/ Remove(r)
       \/ InstalledOK("reconcile") \/ RemovedOK("reconcile") \/ AbandonCall("reconcile")
    /\ UNCHANGED lcVars

\* boxctl cleanup holds the owner lock, so no manager is alive.
CleanupStep ==
    /\ mgr = "down"
    /\ \/ BeginCall("deactivate") /\ UNCHANGED guard
       \/ call = "deactivate" /\ (\E r \in Resources : Remove(r)) /\ UNCHANGED guard
       \/ (RemovedOK("deactivate") \/ AbandonCall("deactivate")) /\ guard' \in {guard, "off"}
    /\ UNCHANGED <<hostVars, coreVars, snap, op, files, gstat, guardOn>>

-----------------------------------------------------------------------------
OpStep ==
    \/ PrepareOK \/ PrepareFails \/ GuardSkipped \/ GuardInstalled \/ GuardFails
    \/ CoreStartOK \/ CoreStartFails \/ Ready \/ NotReady \/ VerifyOK \/ VerifyFails
    \/ CommitOK \/ CommitFails \/ ActBegin \/ ActStep \/ ActivateOK \/ ActivateFails
    \/ DeactivateOK \/ DeactivateFails \/ StopOK \/ StopFails \/ RollbackOK \/ RollbackStopFails
    \/ ReloadOK \/ ReloadFails \/ ReloadHalfDone \/ FinishGuard

UserOp ==
    \/ BeginStart \/ BeginStop \/ BeginRestart \/ SwitchSelection \/ SetPolicy
    \/ \E k \in {"switch", "reconf", "reload"} \intersect Offered : BeginOnRunning(k)

Monitor == MonitorFailsOpen \/ MonitorSeesCleanupFailed \/ MonitorRetries \/ RetryGuardCleanup

Process == ManagerStart \/ Adopt \/ Serve \/ Terminate \/ ShutdownStop \/ Exit

Fault == ManagerCrash \/ CoreDies \/ GuardExpires \/ Reboot

OneShot == HotplugEvent \/ HotplugBegin \/ HotplugStep \/ CleanupStep

Next == OpStep \/ UserOp \/ Monitor \/ Process \/ Fault \/ OneShot

Spec == Init /\ [][Next]_vars

-----------------------------------------------------------------------------
(* Safety.                                                                 *)

\* Stop and every rollback remove capture and DNS before the core: a stopped or
\* failed lifecycle owns nothing, and no late hotplug can bring it back.
FailOpen ==
    snap.state \in {"stopped", "failed"} => owned = {} /\ ~recorded

\* "stopped" also means that no core of ours is left behind.
StoppedMeansStopped ==
    snap.state = "stopped" => ~slot /\ core = NoGen

\* Between operations a running state names the generation of the live core's
\* record, which is the one the process runs unless a reload ended half done.
RunningIsLive ==
    OpIdle /\ snap.state = "running" =>
        slot /\ core \in {NoGen, snap.prepared} /\ (halfDone \/ runs \in {NoGen, snap.prepared})

\* No cleanup removes the private runtime that the record of a live core names,
\* so that the next manager can adopt it.
RecordedRuntimeKept ==
    core # NoGen => core \in files

\* A reload "removes only the private Mihomo YAML created for this reload attempt.
\* The active runtime" is "explicitly excluded" (core.go:342-344): no cleanup removes
\* the runtime a live core has loaded.
LoadedRuntimeKept ==
    runs # NoGen => runs \in files

\* The same, except after a reload that failed although the process took it.
ActiveRuntimeKept ==
    RecordedRuntimeKept /\ (halfDone \/ LoadedRuntimeKept)

\* The clone of the previous generation survives until it is restored.
RollbackCloneKept ==
    op.spare # NoGen /\ ~op.restore => op.spare \in files

\* Between operations the running generation is the selected profile's, however
\* the last switch, restore or crash recovery ended.
SelectionMatches ==
    OpIdle /\ mgr = "up" /\ snap.state = "running" => ProfileOf[snap.prepared] = selected

\* The running generation, its runtime directory, its rollback clone and the
\* selected profile stay together, across failed switches, commits that fail
\* after the target runs, half-done reloads, restores, crashes and adoptions.
ActiveGenerationSound == RunningIsLive /\ ActiveRuntimeKept /\ RollbackCloneKept /\ SelectionMatches

\* No guard outlives the operation that installed it without being known, and
\* retried, as a failed cleanup.
GuardScope ==
    guard = "on" /\ ~guardOn /\ mgr \notin {"down"} => gstat.err

\* From the moment the old dataplane is touched until the operation ends, a
\* guarded replacement is never without its guard, short of the lease's expiry.
GuardCovers ==
    guardOn => guard # "off"

\* The restart guard is on exactly while it is needed or known to be stuck, though
\* the monitor retries its removal next to operations that install it.
GuardSafe == GuardScope /\ GuardCovers

\* The manager lets go of a live core only after capture and DNS are gone.
ReleaseAfterCapture ==
    [][slot /\ ~slot' /\ mgr' # "down" => owned = {} /\ ~recorded]_vars

-----------------------------------------------------------------------------
(* Liveness.  Steps of an operation, of the monitor and of procd happen if *)
(* they stay possible; the pollers of opMu and of the file lock are not    *)
(* starved, and nft, UCI and the guard's removal do not fail forever.      *)

Deactivating == op.pc \in {"rbDeact", "stDeact"}

\* A call of Activate is a straight line of commands under a timeout.
OpFairness == WF_vars(OpStep) /\ WF_vars(ActivateOK \/ ActivateFails)

Fairness ==
    /\ OpFairness
    /\ WF_vars(ManagerStart) /\ WF_vars(Adopt) /\ WF_vars(Serve)
    /\ WF_vars(call = "deactivate" /\ CleanupStep)
    /\ WF_vars(HotplugBegin)
    /\ WF_vars(call = "reconcile" /\ HotplugStep /\ call' = "none")
    /\ WF_vars(MonitorSeesCleanupFailed)
    /\ SF_vars(MonitorRetries)
    /\ SF_vars(core = NoGen /\ MonitorFailsOpen)
    /\ SF_vars(RetryGuardCleanup /\ GuardRemoved)
    /\ SF_vars(Deactivating /\ ActBegin)
    /\ SF_vars(Deactivating /\ ActStep)
    /\ SF_vars(DeactivateOK)

FairSpec == Spec /\ Fairness
OpSpec == Spec /\ OpFairness

\* opMu is always released again.
OperationEnds == ~OpIdle ~> OpIdle

\* Once the manager stays up, capture never stays with a dead core, whatever
\* crashes and failed cleanups preceded.
DeadCoreFailsOpen ==
    <>[](mgr = "up") =>
        ((core = NoGen /\ owned # {}) ~> (core # NoGen \/ owned = {}))

\* cleanup-failed is not permanent unless hotplug events never cease.
CleanupFailedResolves ==
    <>[](mgr = "up" /\ call # "reconcile") =>
        (snap.state = "cleanup-failed" ~> snap.state # "cleanup-failed")

\* A guard whose removal failed is removed by a later tick of the monitor.
GuardErrorResolves ==
    <>[](mgr = "up" /\ call # "reconcile") =>
        (gstat.err ~> ~gstat.err)

\* Neither kind of trouble the monitor retries stays for good.
TroubleResolves == CleanupFailedResolves /\ GuardErrorResolves
=============================================================================
