--------------------------- MODULE ManagerUpdate ---------------------------
(***************************************************************************)
(* internal/app/self_update.go, manager_integration.go, manager_handoff.go *)
(* and manager_web_update.go with internal/update/install.go: how boxctl   *)
(* replaces its own binary and its OpenWrt integration, activates them by  *)
(* re-executing the manager (the core keeps running) or by a full service  *)
(* restart, and puts everything back when a step fails.  The updater is a  *)
(* CLI process or a one-shot procd worker; the manager, procd, the core    *)
(* and the administrator act between any two of its steps.                 *)
(***************************************************************************)
EXTENDS Integers

CONSTANTS
    Versions,     \* releases of boxctl
    Schema,       \* the settings schema and capture injector of a release
    Integration,  \* the OpenWrt integration a release embeds
    None,
    Respawns,     \* bound: boots procd attempts before it gives an instance up
    MaxFaults,    \* bound: injected faults over a behaviour
    MaxUpdates    \* bound: update transactions over a behaviour

ASSUME NoneAssumption == None \notin Versions
ASSUME UpdBoundAssumption == Respawns \in Nat /\ MaxFaults \in Nat /\ MaxUpdates \in Nat

VARIABLES
    target, prev, failed,   \* the binaries bin/boxctl, .prev and .failed
    integ,      \* the installed integration: a fingerprint, or "mixed"
    saved,      \* the integration snapshot kept for a binary
    marker,     \* manager-handoff.json: the version it is for, still valid or not
    mgr,        \* the manager process: state, version it runs, boots left
    sig,        \* SIGUSR2 is pending for it
    core,       \* the core process lives
    capt,       \* the release whose manager installed capture and DNS, None if they are off
    tx,         \* the update transaction, under the self-update lock
    job, worker, \* manager-update-job.json and the procd worker
    faults, updates

binVars == <<target, prev, failed>>
svcVars == <<marker, mgr, sig, core, capt>>
webVars == <<job, worker>>
updVars == <<binVars, integ, saved, svcVars, tx, webVars, faults, updates>>

MaybeVersion == Versions \union {None}
Integs == {Integration[v] : v \in Versions}
NoMarker == [to |-> None, fresh |-> FALSE]
NoTx == [kind |-> "none", pc |-> "idle", back |-> FALSE, from |-> None, to |-> None, mode |-> "none",
         before |-> "mixed", out |-> "none", web |-> FALSE, clean |-> TRUE]
ActiveJobs == {"queued", "running"}
Running == {"boot", "handed", "up"}

TxPcs == {"idle", "unlink", "keep", "swap", "sync", "files", "mark", "signal", "start", "poll", "verify"}
Outcomes == {"none", "ok", "kept", "restored", "broken"}
Transactions ==
    [kind : {"none", "install", "rollback"}, pc : TxPcs, back : BOOLEAN, from : MaybeVersion,
     to : MaybeVersion, mode : {"none", "only", "full"}, before : Integs \union {"mixed"}, out : Outcomes,
     web : BOOLEAN, clean : BOOLEAN]
Jobs == [st : {"none", "failed", "confirm", "succeeded"} \union ActiveJobs, id : 0 .. MaxUpdates]
Workers == [st : {"none", "started", "claimed", "working"}, id : 0 .. MaxUpdates]
Managers == [st : Running \union {"crashed", "down"}, ver : MaybeVersion, left : 0 .. Respawns]

UpdTypeOK ==
    /\ target \in MaybeVersion /\ prev \in MaybeVersion /\ failed \in MaybeVersion
    /\ integ \in Integs \union {"mixed"}
    /\ saved \in [Versions -> Integs \union {"mixed", "none"}]
    /\ marker \in [to : MaybeVersion, fresh : BOOLEAN]
    /\ mgr \in Managers
    /\ sig \in BOOLEAN /\ core \in BOOLEAN /\ capt \in MaybeVersion
    /\ tx \in Transactions /\ job \in Jobs /\ worker \in Workers
    /\ faults \in 0 .. MaxFaults /\ updates \in 0 .. MaxUpdates

UpdInit ==
    /\ target \in Versions /\ prev = None /\ failed = None
    /\ integ = Integration[target] /\ saved = [v \in Versions |-> "none"]
    /\ marker = NoMarker /\ sig = FALSE /\ core = TRUE /\ capt = target
    /\ mgr = [st |-> "up", ver |-> target, left |-> Respawns]
    /\ tx = NoTx /\ job = [st |-> "none", id |-> 0] /\ worker = [st |-> "none", id |-> 0]
    /\ faults = 0 /\ updates = 0

Fault == faults < MaxFaults /\ faults' = faults + 1
AtTx(pc) == tx.pc = pc

-----------------------------------------------------------------------------
(* Planning: which restart a candidate needs.  The comparison is between   *)
(* the binary on disk and the candidate.                                   *)

Compatible(from, to) ==
    Schema[from] = Schema[to] /\ Integration[from] = Integration[to] /\ integ = Integration[to]

\* --no-restart, the default of a compatible candidate, or a confirmed full restart.
Modes(from, to, changed) == {"none", "full"} \union (IF Compatible(from, to) /\ ~changed THEN {"only"} ELSE {})

Begin(kind, to, web, mode, changed) ==
    /\ tx.pc = "idle" /\ target # None /\ updates < MaxUpdates /\ worker.st # "working"
    /\ mode \in Modes(target, to, changed)
    /\ tx' = [NoTx EXCEPT !.kind = kind, !.pc = IF kind = "install" THEN "unlink" ELSE "keep",
                          !.from = target, !.to = to, !.mode = mode, !.before = integ, !.web = web]
    /\ updates' = updates + 1

\* The snapshot of the integration is on disk before the binary is touched.
BeginInstall(to, mode) ==
    /\ to # target \/ integ # Integration[to]
    /\ Begin("install", to, FALSE, mode, FALSE)
    /\ saved' = [saved EXCEPT ![target] = integ]
    /\ UNCHANGED <<binVars, integ, svcVars, webVars, faults>>

BeginRollback(mode) ==
    /\ prev # None /\ saved[prev] # "none"
    /\ Begin("rollback", prev, FALSE, mode, saved[prev] # integ)
    /\ UNCHANGED <<binVars, integ, saved, svcVars, webVars, faults>>

-----------------------------------------------------------------------------
(* The binary.  An install forward and the recovery of a rollback run      *)
(* update.Install, the two others update.Rollback.                         *)

Installing == (tx.kind = "install") = ~tx.back
Quit(out) == tx' = [tx EXCEPT !.pc = "idle", !.out = out]
Recover == tx' = [tx EXCEPT !.back = TRUE, !.clean = TRUE, !.pc = IF tx.kind = "install" THEN "keep" ELSE "unlink"]
\* A recovery goes on to restore the files when the binary could not be.
BinaryBroken == IF tx.back THEN tx' = [tx EXCEPT !.clean = FALSE, !.pc = "files"] ELSE Quit("broken")

RemoveOlder ==
    /\ AtTx("unlink")
    /\ prev' = None
    /\ tx' = [tx EXCEPT !.pc = "keep"]
    /\ UNCHANGED <<target, failed, integ, saved, svcVars, webVars, faults, updates>>

KeepCurrent ==
    /\ AtTx("keep")
    /\ target' = None
    /\ IF Installing THEN prev' = target /\ UNCHANGED failed ELSE failed' = target /\ UNCHANGED prev
    /\ tx' = [tx EXCEPT !.pc = "swap"]
    /\ UNCHANGED <<integ, saved, svcVars, webVars, faults, updates>>

SwapIn ==
    /\ AtTx("swap")
    /\ target' = IF Installing THEN (IF tx.back THEN failed ELSE tx.to) ELSE prev
    /\ prev' = IF Installing THEN prev ELSE None
    /\ failed' = IF Installing /\ tx.back THEN None ELSE failed
    /\ tx' = [tx EXCEPT !.pc = "sync"]
    /\ UNCHANGED <<integ, saved, svcVars, webVars, faults, updates>>

\* The second rename fails: the first one is undone.
SwapFails ==
    /\ AtTx("swap") /\ Fault
    /\ IF Installing
       THEN target' = prev /\ prev' = None /\ UNCHANGED failed
       ELSE target' = failed /\ failed' = None /\ UNCHANGED prev
    /\ IF tx.back THEN BinaryBroken ELSE Quit("kept")
    /\ UNCHANGED <<integ, saved, svcVars, webVars, updates>>

Synced ==
    /\ AtTx("sync")
    /\ tx' = [tx EXCEPT !.pc = "files"]
    /\ UNCHANGED <<binVars, integ, saved, svcVars, webVars, faults, updates>>

\* The directory cannot be synced: Install rolls back, Rollback only reports it.
SyncFails ==
    /\ AtTx("sync") /\ Fault
    /\ IF Installing
       THEN failed' = target /\ target' = prev /\ prev' = None
            /\ IF tx.back THEN BinaryBroken ELSE Quit("kept")
       ELSE UNCHANGED binVars /\ BinaryBroken
    /\ UNCHANGED <<integ, saved, svcVars, webVars, updates>>

-----------------------------------------------------------------------------
(* The integration files, one by one.                                      *)

Goal == IF tx.back THEN tx.before ELSE IF tx.kind = "install" THEN Integration[tx.to] ELSE saved[tx.to]

\* The recovery restarts the manager only when binary and files are back.
AfterFiles ==
    IF tx.mode # "none" /\ tx.clean THEN tx' = [tx EXCEPT !.pc = "mark"]
    ELSE IF tx.back THEN Quit(IF tx.clean THEN "restored" ELSE "broken")
    ELSE tx' = [tx EXCEPT !.pc = "verify"]

\* Mutant: a failed update leaves the new files.
ApplyFilesForwardOnly ==
    /\ AtTx("files")
    /\ integ' = IF tx.back THEN integ ELSE Goal
    /\ AfterFiles
    /\ UNCHANGED <<binVars, saved, svcVars, webVars, faults, updates>>

ApplyFiles ==
    /\ AtTx("files")
    /\ integ' = Goal
    /\ AfterFiles
    /\ UNCHANGED <<binVars, saved, svcVars, webVars, faults, updates>>

ApplyFilesFails ==
    /\ AtTx("files") /\ Fault
    /\ integ' \in {integ, "mixed"}
    /\ IF tx.back THEN Quit("broken") ELSE Recover
    /\ UNCHANGED <<binVars, saved, svcVars, webVars, updates>>

-----------------------------------------------------------------------------
(* Activation: restartManagerAndVerify.  A recovery always restarts fully. *)

Handoff == tx.mode = "only" /\ ~tx.back

\* Any failure of the activation: the marker goes, the transaction recovers.
ActivationFails ==
    /\ marker' = IF Handoff THEN NoMarker ELSE marker
    /\ IF tx.back THEN Quit("broken") ELSE Recover

WriteMarker ==
    /\ AtTx("mark")
    /\ marker' = IF Handoff THEN [to |-> tx.to, fresh |-> TRUE] ELSE NoMarker
    /\ tx' = [tx EXCEPT !.pc = "signal"]
    /\ UNCHANGED <<binVars, integ, saved, mgr, sig, core, capt, webVars, faults, updates>>

SignalManager ==
    /\ AtTx("signal") /\ Handoff
    /\ sig' = (mgr.st \in Running)
    /\ tx' = [tx EXCEPT !.pc = "poll"]
    /\ UNCHANGED <<binVars, integ, saved, marker, mgr, core, capt, webVars, faults, updates>>

CommandFails ==
    /\ AtTx("signal") /\ Fault
    /\ ActivationFails
    /\ UNCHANGED <<binVars, integ, saved, mgr, sig, core, capt, webVars, updates>>

\* init.d stop: SIGTERM gives the manager its cleanup window (skipped while a
\* valid marker says the core is to be preserved), procd then kills every
\* descendant, and service_stopped cleans up unless the marker file exists.
Stopped(keepsCapture) ==
    /\ mgr' = [mgr EXCEPT !.st = "down", !.ver = None]
    /\ sig' = FALSE
    /\ core' = FALSE
    /\ capt' = IF keepsCapture THEN capt ELSE None

ServiceCleans == (mgr.st = "up" /\ ~marker.fresh) \/ marker = NoMarker

StopService ==
    /\ AtTx("signal") /\ ~Handoff /\ mgr.st # "handed"
    /\ Stopped(~ServiceCleans)
    /\ tx' = [tx EXCEPT !.pc = "start"]
    /\ UNCHANGED <<binVars, integ, saved, marker, webVars, faults, updates>>

Launch == mgr' = [st |-> IF target = None THEN "down" ELSE "boot", ver |-> target, left |-> Respawns]

StartService ==
    /\ AtTx("start")
    /\ Launch
    /\ tx' = [tx EXCEPT !.pc = "poll"]
    /\ UNCHANGED <<binVars, integ, saved, marker, sig, core, capt, webVars, faults, updates>>

Verified == mgr.st \in Running /\ (Handoff => marker = NoMarker)

PollStable ==
    /\ AtTx("poll") /\ Verified
    /\ IF tx.back THEN Quit("restored") ELSE tx' = [tx EXCEPT !.pc = "verify"]
    /\ UNCHANGED <<binVars, integ, saved, svcVars, webVars, faults, updates>>

\* The transaction's sixty seconds pass first.
PollTimesOut ==
    /\ AtTx("poll") /\ (~Verified \/ faults < MaxFaults)
    /\ faults' = IF Verified THEN faults + 1 ELSE faults
    /\ ActivationFails
    /\ UNCHANGED <<binVars, integ, saved, mgr, sig, core, capt, webVars, updates>>

VerifyFiles ==
    /\ AtTx("verify")
    /\ IF integ = Goal THEN Quit("ok") ELSE Recover
    /\ UNCHANGED <<binVars, integ, saved, svcVars, webVars, faults, updates>>

-----------------------------------------------------------------------------
(* The manager: boot, hand-off, death and procd's respawn.                 *)

Requested == marker.fresh /\ marker.to = mgr.ver

\* A requested hand-off only inspects the recorded core and touches nothing.
BootHandsOver ==
    /\ mgr.st = "boot" /\ Requested
    /\ mgr' = [mgr EXCEPT !.st = IF core THEN "handed" ELSE "crashed"]
    /\ UNCHANGED <<binVars, integ, saved, marker, sig, core, capt, tx, webVars, faults, updates>>

\* Any other boot drops the marker, then recovers or starts the core and its
\* capture, or fails open.
BootRecovers ==
    /\ mgr.st = "boot" /\ ~Requested
    /\ marker' = NoMarker
    /\ mgr' = [mgr EXCEPT !.st = "up"]
    /\ \/ core' = TRUE /\ capt' = mgr.ver
       \/ core' = FALSE /\ capt' = None
    /\ UNCHANGED <<binVars, integ, saved, sig, tx, webVars, faults, updates>>

\* The listener is open: the marker is consumed.
Listens ==
    /\ mgr.st = "handed"
    /\ mgr' = [mgr EXCEPT !.st = "up"] /\ marker' = NoMarker
    /\ UNCHANGED <<binVars, integ, saved, sig, core, capt, tx, webVars, faults, updates>>

ManagerDies ==
    /\ mgr.st \in Running /\ Fault
    /\ mgr' = [mgr EXCEPT !.st = "crashed"] /\ sig' = FALSE
    /\ UNCHANGED <<binVars, integ, saved, marker, core, capt, tx, webVars, updates>>

Respawn ==
    /\ mgr.st = "crashed"
    /\ mgr' = IF mgr.left = 0 \/ target = None THEN [mgr EXCEPT !.st = "down", !.ver = None]
              ELSE [st |-> "boot", ver |-> target, left |-> mgr.left - 1]
    /\ UNCHANGED <<binVars, integ, saved, marker, sig, core, capt, tx, webVars, faults, updates>>

\* SIGUSR2: exec of whatever bin/boxctl names now, at any instruction.
ReExec ==
    /\ sig /\ mgr.st \in Running
    /\ sig' = FALSE
    /\ \/ target # None /\ mgr' = [mgr EXCEPT !.st = "boot", !.ver = target] /\ UNCHANGED faults
       \/ target = None /\ UNCHANGED <<mgr, faults>>
       \/ Fault /\ UNCHANGED mgr
    /\ UNCHANGED <<binVars, integ, saved, marker, core, capt, tx, webVars, updates>>

\* Mutant: capture another release installed is left alone.
MonitorFailsOpenOwn ==
    /\ mgr.st = "up" /\ ~core /\ capt = mgr.ver
    /\ capt' = None
    /\ UNCHANGED <<binVars, integ, saved, marker, mgr, sig, core, tx, webVars, faults, updates>>

\* The monitor of a serving manager stops a dead core's capture.
MonitorFailsOpen ==
    /\ mgr.st = "up" /\ ~core /\ capt # None
    /\ capt' = None
    /\ UNCHANGED <<binVars, integ, saved, marker, mgr, sig, core, tx, webVars, faults, updates>>

CoreDies ==
    /\ core /\ Fault
    /\ core' = FALSE
    /\ UNCHANGED <<binVars, integ, saved, marker, mgr, sig, capt, tx, webVars, updates>>

MarkerExpires ==
    /\ marker.fresh
    /\ marker' = [marker EXCEPT !.fresh = FALSE]
    /\ UNCHANGED <<binVars, integ, saved, mgr, sig, core, capt, tx, webVars, faults, updates>>

\* The administrator, or a network reload trigger, restarts the service.
AdminRestarts ==
    /\ mgr.st # "handed" /\ Fault
    /\ Launch
    /\ sig' = FALSE /\ core' = FALSE
    /\ capt' = IF ServiceCleans THEN None ELSE capt
    /\ UNCHANGED <<binVars, integ, saved, marker, tx, webVars, updates>>

UpdaterDies ==
    /\ Fault
    /\ tx.pc # "idle" \/ worker.st # "none"
    /\ tx' = IF tx.web \/ worker.st = "none" THEN NoTx ELSE tx
    /\ worker' = [worker EXCEPT !.st = "none"]
    /\ UNCHANGED <<binVars, integ, saved, svcVars, job, updates>>

PowerCut ==
    /\ Fault
    /\ Launch
    /\ sig' = FALSE /\ core' = FALSE /\ capt' = None
    /\ tx' = NoTx /\ worker' = [worker EXCEPT !.st = "none"]
    /\ UNCHANGED <<binVars, integ, saved, marker, job, updates>>

-----------------------------------------------------------------------------
(* The web job: queued by the manager, run by a worker of procd.           *)

NewJob == job.st \notin ActiveJobs /\ worker.st = "none" /\ mgr.st = "up" /\ job.id < MaxUpdates

QueueJob ==
    /\ NewJob
    /\ job' = [st |-> "queued", id |-> job.id + 1] /\ worker' = [st |-> "started", id |-> job.id + 1]
    /\ UNCHANGED <<binVars, integ, saved, svcVars, tx, faults, updates>>

\* procd reports a failure, whether or not it starts the worker.
QueueJobFails ==
    /\ NewJob /\ Fault
    /\ job' = [st |-> "failed", id |-> job.id + 1]
    /\ worker' \in {worker, [st |-> "started", id |-> job.id + 1]}
    /\ UNCHANGED <<binVars, integ, saved, svcVars, tx, updates>>

\* Mutant: the id alone is compared.
ClaimJobById ==
    /\ worker.st = "started"
    /\ IF job.id = worker.id
       THEN worker' = [worker EXCEPT !.st = "claimed"]
            /\ job' = IF job.st = "queued" THEN [job EXCEPT !.st = "running"] ELSE job
       ELSE UNCHANGED job /\ worker' = [worker EXCEPT !.st = "none"]
    /\ UNCHANGED <<binVars, integ, saved, svcVars, tx, faults, updates>>

\* Only the queued record with exactly this id may be claimed.
ClaimJob ==
    /\ worker.st = "started"
    /\ IF job = [st |-> "queued", id |-> worker.id]
       THEN job' = [job EXCEPT !.st = "running"] /\ worker' = [worker EXCEPT !.st = "claimed"]
       ELSE UNCHANGED job /\ worker' = [worker EXCEPT !.st = "none"]
    /\ UNCHANGED <<binVars, integ, saved, svcVars, tx, faults, updates>>

WorkerInstalls(to) ==
    /\ worker.st = "claimed"
    /\ to # target \/ integ # Integration[to]
    /\ Begin("install", to, TRUE, IF Compatible(target, to) THEN "only" ELSE "full", FALSE)
    /\ saved' = [saved EXCEPT ![target] = integ]
    /\ worker' = [worker EXCEPT !.st = "working"]
    /\ UNCHANGED <<binVars, integ, svcVars, job, faults>>

Finish(st) ==
    /\ job' = IF job.id = worker.id THEN [job EXCEPT !.st = st] ELSE job
    /\ worker' = [worker EXCEPT !.st = "none"]

\* Nothing to install, a full restart nobody confirmed, or no release found.
WorkerDeclines ==
    /\ worker.st = "claimed" /\ tx.pc = "idle"
    /\ Finish("succeeded") \/ Finish("confirm") \/ Finish("failed")
    /\ UNCHANGED <<binVars, integ, saved, svcVars, tx, faults, updates>>

WorkerFinishes ==
    /\ worker.st = "working" /\ tx.pc = "idle"
    /\ Finish(IF tx.out = "ok" THEN "succeeded" ELSE "failed")
    /\ UNCHANGED <<binVars, integ, saved, svcVars, tx, faults, updates>>

\* Mutant: only a job that had started is given up.
ReconcileRunningOnly ==
    /\ mgr.st = "up" /\ job.st = "running" /\ worker.st = "none"
    /\ job' = [job EXCEPT !.st = "failed"]
    /\ UNCHANGED <<binVars, integ, saved, svcVars, tx, worker, faults, updates>>

\* A status request finds an active job without a worker.
Reconcile ==
    /\ mgr.st = "up" /\ job.st \in ActiveJobs /\ worker.st = "none"
    /\ job' = [job EXCEPT !.st = "failed"]
    /\ UNCHANGED <<binVars, integ, saved, svcVars, tx, worker, faults, updates>>

-----------------------------------------------------------------------------
TxStep ==
    \/ RemoveOlder \/ KeepCurrent \/ SwapIn \/ SwapFails \/ Synced \/ SyncFails
    \/ ApplyFiles \/ ApplyFilesFails \/ WriteMarker \/ SignalManager \/ CommandFails
    \/ StopService \/ StartService \/ PollStable \/ PollTimesOut \/ VerifyFiles

ManagerStep == BootHandsOver \/ BootRecovers \/ Listens \/ Respawn \/ ReExec \/ MonitorFailsOpen

WorkerStep ==
    \/ ClaimJob \/ WorkerDeclines \/ WorkerFinishes
    \/ \E to \in Versions : WorkerInstalls(to)

UpdNext ==
    \/ \E to \in Versions, mode \in {"none", "only", "full"} : BeginInstall(to, mode)
    \/ \E mode \in {"none", "only", "full"} : BeginRollback(mode)
    \/ TxStep \/ ManagerStep \/ WorkerStep \/ Reconcile
    \/ ManagerDies \/ CoreDies \/ MarkerExpires \/ AdminRestarts \/ UpdaterDies \/ PowerCut
    \/ QueueJob \/ QueueJobFails

UpdSpec == UpdInit /\ [][UpdNext]_updVars

\* The updater, the manager, procd and the clock go on; an open page polls.
UpdFairSpec ==
    /\ UpdSpec
    /\ WF_updVars(TxStep) /\ WF_updVars(ManagerStep) /\ WF_updVars(WorkerStep)
    /\ WF_updVars(MarkerExpires) /\ WF_updVars(Reconcile)

-----------------------------------------------------------------------------
Ended == tx.pc = "idle"

(* The updater tells the truth: an update reported as done left its binary *)
(* and its integration, one reported as failed but undone the previous     *)
(* ones, until something else changes them.                                *)
OutcomeTruthful ==
    Ended => /\ tx.out = "ok" => target = tx.to /\ integ = Goal
             /\ tx.out \in {"kept", "restored"} => target = tx.from /\ integ = tx.before

(* A job that reads as finished is not still being installed.              *)
FinishedJobIsOver == worker.st \in {"claimed", "working"} => job = [st |-> "running", id |-> worker.id]

(* Capture without a core does not last while procd keeps the manager.     *)
DataplaneRecovers == (capt # None /\ ~core) ~> (capt = None \/ core \/ mgr.st = "down")

(* An interrupted worker's job is reported as failed.                      *)
JobEnds == job.st \in ActiveJobs ~> (job.st \notin ActiveJobs \/ mgr.st = "down")
=============================================================================
