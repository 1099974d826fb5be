---------------------------- MODULE EngineUpdate ----------------------------
(***************************************************************************)
(* internal/app/engine_updates.go and mihomo_update.go with                *)
(* internal/update/singbox.go and install.go: how a running manager        *)
(* replaces the binary of an engine, and how `boxctl engine install` does  *)
(* it while the manager is stopped.  sing-box builds live in immutable     *)
(* directories named by version, and current.json points at one; Mihomo is *)
(* a single file swapped with a .prev copy.  A transaction stops the core  *)
(* it concerns, publishes, starts the new build, and undoes all of it when *)
(* that fails, while the user and the manager's shutdown act between any   *)
(* two steps they are not locked out of.                                   *)
(***************************************************************************)
EXTENDS Integers

CONSTANTS
    Builds,    \* sing-box archives
    Version,   \* the version number of an archive
    Tags,      \* Mihomo releases
    Bad,       \* builds and releases whose core does not start
    Fixed,     \* builds published by upstream; the others are the user's own
    None,
    MaxFaults, \* bound: failures injected over a behaviour
    MaxUpdates \* bound: transactions over a behaviour

ASSUME NoneAssumption == None \notin Builds \union Tags
ASSUME VersionAssumption == Version \in [Builds -> Nat]
ASSUME EngBoundAssumption == MaxFaults \in Nat /\ MaxUpdates \in Nat

VARIABLES
    dirs,   \* versions/<version>: the manifest found there
    ptr,    \* current.json: the manifests of the current and previous build
    mihomo, \* the Mihomo file and its .prev copy
    mgr,    \* the manager process
    sel,    \* the engine of the selected profile
    life,   \* the lifecycle state
    proc,   \* the core process: engine and build
    tx,     \* the update transaction
    faults, updates

store == <<dirs, ptr, mihomo>>
coreVars == <<life, proc>>
engVars == <<store, mgr, sel, coreVars, tx, faults, updates>>

Engines == {"mihomo", "sing-box"}
Numbers == {Version[b] : b \in Builds}
NoManifest == [build |-> None, source |-> "none"]
Half == [build |-> None, source |-> "half"]  \* a directory removed in part
Manifests == [build : Builds, source : {"official", "custom"}]
NoProc == [engine |-> "none", build |-> None]
NoTx == [engine |-> "none", pc |-> "idle", build |-> None, cli |-> FALSE, was |-> FALSE, had |-> FALSE,
         before |-> None, staged |-> NoManifest, published |-> NoManifest, out |-> "none", calm |-> TRUE, f0 |-> 0]

TxPcs == {"idle", "staged", "stop", "publish", "point", "start", "verify", "undoStop", "undo", "remove", "restart"}
Transactions ==
    [engine : Engines \union {"none"}, pc : TxPcs, build : Builds \union Tags \union {None}, cli : BOOLEAN,
     was : BOOLEAN, had : BOOLEAN, before : Builds \union Tags \union {None}, staged : Manifests \union {NoManifest},
     published : Manifests \union {NoManifest}, out : {"none", "ok", "failed", "declined"}, calm : BOOLEAN,
     f0 : 0 .. MaxFaults]

EngTypeOK ==
    /\ dirs \in [Numbers -> Manifests \union {NoManifest, Half}]
    /\ ptr \in [cur : Manifests \union {NoManifest}, prev : Manifests \union {NoManifest}]
    /\ mihomo \in [cur : Tags \union {None}, prev : Tags \union {None}]
    /\ mgr \in {"up", "ending", "off"} /\ sel \in Engines
    /\ life \in {"running", "stopped", "failed"}
    /\ proc \in [engine : Engines \union {"none"}, build : Builds \union Tags \union {None}]
    /\ tx \in Transactions
    /\ faults \in 0 .. MaxFaults /\ updates \in 0 .. MaxUpdates

EngInit ==
    /\ dirs = [n \in Numbers |-> NoManifest]
    /\ ptr = [cur |-> NoManifest, prev |-> NoManifest]
    /\ mihomo \in [cur : (Tags \ Bad) \union {None}, prev : {None}]
    /\ mgr = "off" /\ sel \in Engines
    /\ life = "stopped" /\ proc = NoProc
    /\ tx = NoTx /\ faults = 0 /\ updates = 0

Fault == faults < MaxFaults /\ faults' = faults + 1
At(pc) == tx.pc = pc
Installed(e) == IF e = "mihomo" THEN mihomo.cur ELSE ptr.cur.build
\* ResolveManagedEngineBinary: the files a manifest names are there, unchanged.
Resolves(m) == m # NoManifest /\ dirs[Version[m.build]] = m
Startable(e) == IF e = "mihomo" THEN mihomo.cur # None ELSE ptr.cur # NoManifest /\ Resolves(ptr.cur)
Locked == tx.pc \notin {"idle", "staged"}
Goto(pc) == tx' = [tx EXCEPT !.pc = pc]
End(out) == tx' = [tx EXCEPT !.pc = "idle", !.out = out]
EndUnclean(out) == tx' = [tx EXCEPT !.pc = "idle", !.out = out, !.calm = FALSE]

-----------------------------------------------------------------------------
(* The lifecycle, as far as a transaction sees it.                         *)

StopOK == life' = "stopped" /\ proc' = NoProc /\ UNCHANGED faults
\* The core could not be verified dead.
StopError == Fault /\ life' = "failed" /\ UNCHANGED proc
StartOK ==
    /\ mgr = "up" /\ Startable(sel) /\ Installed(sel) \notin Bad /\ proc = NoProc
    /\ life' = "running" /\ proc' = [engine |-> sel, build |-> Installed(sel)]
    /\ UNCHANGED faults
\* The start is undone; what it started may survive that.
StartError ==
    /\ life' = "failed"
    /\ \/ /\ mgr # "up" \/ ~Startable(sel) \/ Installed(sel) \in Bad \/ proc # NoProc
          /\ UNCHANGED faults
       \/ Fault
    /\ \/ UNCHANGED proc
       \/ faults' > faults /\ proc = NoProc /\ Startable(sel)
          /\ proc' = [engine |-> sel, build |-> Installed(sel)]

UserStarts ==
    /\ mgr = "up" /\ ~Locked /\ life # "running"
    /\ StartOK \/ StartError
    /\ UNCHANGED <<store, mgr, sel, tx, updates>>

UserStops ==
    /\ mgr = "up" /\ ~Locked /\ life # "stopped"
    /\ StopOK \/ StopError
    /\ UNCHANGED <<store, mgr, sel, tx, updates>>

\* A selection is saved while nothing runs; a switch restarts the core.
UserSelects ==
    /\ mgr = "up" /\ ~Locked /\ life = "stopped"
    /\ sel' \in Engines \ {sel}
    /\ UNCHANGED <<store, mgr, coreVars, tx, faults, updates>>

Shutdown ==
    /\ mgr = "up"
    /\ mgr' = "ending"
    /\ UNCHANGED <<store, sel, coreVars, tx, faults, updates>>

\* The exiting manager waits for the operation gate, stops the core and goes;
\* procd kills every process of the instance that is left.
Exits ==
    /\ mgr = "ending" /\ ~Locked
    /\ mgr' = "off" /\ life' = "stopped" /\ proc' = NoProc
    /\ tx' = [tx EXCEPT !.pc = "idle"]
    /\ UNCHANGED <<store, sel, faults, updates>>

\* Power is cut, or procd's window ends, at any instruction.
PowerCut ==
    /\ Fault
    /\ mgr' = "off" /\ life' = "stopped" /\ proc' = NoProc /\ tx' = NoTx
    /\ dirs' = IF At("remove") THEN [dirs EXCEPT ![Version[tx.published.build]] = Half] ELSE dirs
    /\ UNCHANGED <<ptr, sel, updates>>
    /\ \/ UNCHANGED mihomo
       \/ /\ tx.engine = "mihomo" /\ At("publish") /\ tx.had
          /\ mihomo' \in {[cur |-> None, prev |-> mihomo.cur], [mihomo EXCEPT !.prev = None]}
       \/ /\ tx.engine = "mihomo" /\ At("undo")
          /\ mihomo' = [mihomo EXCEPT !.cur = None]

Boots ==
    /\ mgr = "off" /\ tx.pc = "idle"
    /\ mgr' = "up"
    /\ UNCHANGED <<store, sel, coreVars, tx, faults, updates>>

-----------------------------------------------------------------------------
(* Discovery and staging, before the operation gate is taken.              *)

Newer(b) == ptr.cur # NoManifest => Version[ptr.cur.build] < Version[b]

\* Source.Latest: the newest release of the channel, with its arm64 asset.
Offered == Fixed \union Tags

\* Checksum, extraction, ELF, version and license checks passed.
Stage(engine, build, cli) ==
    /\ tx.pc = "idle" /\ updates < MaxUpdates
    /\ tx' = [NoTx EXCEPT !.engine = engine, !.build = build, !.cli = cli,
                          !.had = Installed(engine) # None, !.before = Installed(engine),
                          !.staged = IF engine = "mihomo" THEN NoManifest
                                     ELSE [build |-> build, source |-> IF cli THEN "custom" ELSE "official"],
                          !.pc = IF cli THEN "publish" ELSE "staged", !.f0 = faults]
    /\ updates' = updates + 1
    /\ UNCHANGED <<store, mgr, sel, coreVars, faults>>

\* A custom build is never updated.
StageSingBox(b) ==
    /\ mgr = "up" /\ b \in Offered /\ ptr.cur.source # "custom" /\ Newer(b)
    /\ ptr.cur # NoManifest => Resolves(ptr.cur)
    /\ Stage("sing-box", b, FALSE)

StageMihomo(t) ==
    /\ mgr = "up" /\ t \in Offered /\ t # mihomo.cur
    /\ Stage("mihomo", t, FALSE)

\* boxctl engine install: only under the lock of a stopped manager.
StageLocal(b) ==
    /\ mgr = "off"
    /\ Stage("sing-box", b, TRUE)

\* Mutant: the core that runs the engine is not stopped.
EnterWithoutStop ==
    /\ At("staged") /\ mgr # "off" /\ (tx.engine = "mihomo" => mgr = "up")
    /\ life # "failed" \/ (~tx.had /\ proc = NoProc)
    /\ tx' = [tx EXCEPT !.was = FALSE, !.pc = "publish"]
    /\ UNCHANGED <<store, mgr, sel, coreVars, faults, updates>>

\* The gate is taken; the snapshot and the selection are read under it, and
\* the staged sing-box build prepares the selected profile.
Enter ==
    /\ At("staged") /\ mgr # "off" /\ (tx.engine = "mihomo" => mgr = "up")
    /\ life # "failed" \/ (~tx.had /\ proc = NoProc)
    /\ LET was == life = "running" /\ proc.engine = tx.engine
       IN  tx' = [tx EXCEPT !.was = was, !.pc = IF was THEN "stop" ELSE "publish"]
    /\ UNCHANGED <<store, mgr, sel, coreVars, faults, updates>>

\* Conflict, cancelled request, failed preflight.
Declined ==
    /\ At("staged")
    /\ End("declined")
    /\ UNCHANGED <<store, mgr, sel, coreVars, faults, updates>>

StopForUpdate ==
    /\ At("stop")
    /\ \/ StopOK /\ IF mgr = "up" THEN Goto("publish")
                    ELSE IF tx.engine = "mihomo" THEN End("failed") ELSE Goto("publish")
       \/ StopError /\ EndUnclean("failed")
    /\ UNCHANGED <<store, mgr, sel, updates>>

\* The minute of a Mihomo transaction ends before the swap.
TimesOut ==
    /\ At("publish") /\ tx.engine = "mihomo" /\ Fault
    /\ IF tx.was /\ mgr = "up" THEN Goto("restart") ELSE End("failed")
    /\ UNCHANGED <<store, mgr, sel, coreVars, updates>>

-----------------------------------------------------------------------------
(* PublishSingBoxVersion: the directory, then the pointer.                 *)

\* Nothing was published: what ran before runs again.
NotPublished == IF tx.was THEN Goto("restart") ELSE End("failed")

PublishDirectory ==
    /\ At("publish") /\ tx.engine = "sing-box"
    /\ LET n == Version[tx.build] IN
       \/ /\ dirs[n] = NoManifest
          /\ dirs' = [dirs EXCEPT ![n] = tx.staged]
          /\ (Goto("point") /\ UNCHANGED faults) \/ (Fault /\ NotPublished)
       \/ /\ dirs[n] = NoManifest \/ dirs[n].build = tx.build
          /\ Fault /\ NotPublished /\ UNCHANGED dirs
       \/ /\ dirs[n].build = tx.build
          /\ tx' = [tx EXCEPT !.pc = "point", !.staged = dirs[n]]
          /\ UNCHANGED <<dirs, faults>>
       \/ /\ dirs[n] # NoManifest /\ dirs[n].build # tx.build
          /\ NotPublished
          /\ UNCHANGED <<dirs, faults>>
    /\ UNCHANGED <<ptr, mihomo, mgr, sel, coreVars, updates>>

Activated == IF tx.was THEN "start" ELSE "idle"

PublishPointer ==
    /\ At("point")
    /\ ptr' = IF ptr.cur.build = tx.build THEN ptr ELSE [cur |-> tx.staged, prev |-> ptr.cur]
    /\ tx' = [tx EXCEPT !.published = tx.staged, !.pc = Activated, !.out = "ok"]
    /\ UNCHANGED <<dirs, mihomo, mgr, sel, coreVars, faults, updates>>

\* The pointer is not written, or it is but its directory cannot be synced:
\* either way the caller is told that nothing was published.
PublishPointerFails ==
    /\ At("point") /\ Fault
    /\ \/ UNCHANGED ptr /\ NotPublished
       \/ /\ ptr' = IF ptr.cur.build = tx.build THEN ptr ELSE [cur |-> tx.staged, prev |-> ptr.cur]
          /\ tx' = [tx EXCEPT !.pc = IF tx.was THEN "restart" ELSE "idle", !.out = "failed", !.calm = FALSE]
    /\ UNCHANGED <<dirs, mihomo, mgr, sel, coreVars, updates>>

(* update.Install on the Mihomo file.                                      *)
SwapMihomo ==
    /\ At("publish") /\ tx.engine = "mihomo"
    /\ mihomo' = [cur |-> tx.build, prev |-> IF tx.had THEN mihomo.cur ELSE mihomo.prev]
    /\ Goto(IF mgr # "up" THEN "undoStop" ELSE IF tx.was THEN "start" ELSE "verify")
    /\ UNCHANGED <<dirs, ptr, mgr, sel, coreVars, faults, updates>>

\* What install can leave behind when it reports ErrInstallRollbackFailed: nothing, the
\* new file, or the old one in a directory that could not be synced.
HalfSwapped ==
    IF tx.had THEN [cur : {None, tx.build}, prev : {mihomo.cur}] \union {[mihomo EXCEPT !.prev = None]}
              ELSE [cur : {None, tx.build}, prev : {mihomo.prev}]

\* Install gave up before the swap, put the old file back, or could not.
SwapMihomoFails ==
    /\ At("publish") /\ tx.engine = "mihomo" /\ Fault
    /\ \/ /\ UNCHANGED mihomo \/ (tx.had /\ mihomo' = [mihomo EXCEPT !.prev = None])
          /\ IF tx.was /\ mgr = "up" THEN Goto("restart") ELSE End("failed")
       \/ mihomo' \in HalfSwapped /\ EndUnclean("failed")
    /\ UNCHANGED <<dirs, ptr, mgr, sel, coreVars, updates>>

-----------------------------------------------------------------------------
(* The new build is started; a failure undoes the publication.             *)

StartUpdated ==
    /\ At("start")
    /\ \/ StartOK /\ IF tx.engine = "mihomo" THEN Goto("verify") ELSE End("ok")
       \/ StartError /\ Goto("undoStop")
    /\ UNCHANGED <<store, mgr, sel, updates>>

\* The installed Mihomo reports the version of its release.
VerifyMihomo ==
    /\ At("verify")
    /\ \/ mgr = "up" /\ End("ok") /\ UNCHANGED faults
       \/ mgr # "up" /\ Goto("undoStop") /\ UNCHANGED faults
       \/ Fault /\ Goto("undoStop")
    /\ UNCHANGED <<store, mgr, sel, coreVars, updates>>

\* Mutant: the build is reverted whether or not its core stopped.
UndoStopRegardless ==
    /\ At("undoStop")
    /\ \/ StopOK /\ Goto("undo")
       \/ life # "stopped" /\ StopError /\ tx' = [tx EXCEPT !.pc = "undo", !.calm = FALSE]
    /\ UNCHANGED <<store, mgr, sel, updates>>

\* A core that cannot be stopped keeps its sing-box build; Mihomo's file is
\* put back in any case.
UndoStop ==
    /\ At("undoStop")
    /\ \/ StopOK /\ Goto("undo")
       \/ life # "stopped" /\ StopError
          /\ IF tx.engine = "mihomo" THEN tx' = [tx EXCEPT !.pc = "undo", !.calm = FALSE]
             ELSE EndUnclean("failed")
    /\ UNCHANGED <<store, mgr, sel, updates>>

\* Mutant: current and previous are swapped, as in RollbackManagedEngine.
RevertPointerSwaps ==
    /\ At("undo") /\ tx.engine = "sing-box"
    /\ IF ptr.cur = tx.published /\ Resolves(ptr.cur) /\ Resolves(ptr.prev)
       THEN ptr' = [cur |-> ptr.prev, prev |-> ptr.cur] /\ Goto("remove")
       ELSE UNCHANGED ptr /\ EndUnclean("failed")
    /\ UNCHANGED <<dirs, mihomo, mgr, sel, coreVars, faults, updates>>

\* RevertManagedEnginePublish: compare, restore the pointer, then remove the build; the
\* restored pointer has no previous build.  A pointer that was written but whose
\* directory could not be synced ends the undo too.
RevertPointer ==
    /\ At("undo") /\ tx.engine = "sing-box"
    /\ IF ptr.cur = tx.published /\ Resolves(ptr.cur) /\ Resolves(ptr.prev)
       THEN /\ \/ ptr' = [cur |-> ptr.prev, prev |-> NoManifest] /\ Goto("remove") /\ UNCHANGED faults
               \/ /\ ptr' \in {ptr, [cur |-> ptr.prev, prev |-> NoManifest]}
                  /\ Fault /\ EndUnclean("failed")
       ELSE UNCHANGED <<ptr, faults>> /\ EndUnclean("failed")
    /\ UNCHANGED <<dirs, mihomo, mgr, sel, coreVars, updates>>

AfterUndo == IF tx.was /\ mgr = "up" THEN Goto("restart") ELSE End("failed")

RemoveReverted ==
    /\ At("remove")
    /\ \/ dirs' = [dirs EXCEPT ![Version[tx.published.build]] = NoManifest]
          /\ AfterUndo /\ UNCHANGED faults
       \/ Fault /\ dirs' = [dirs EXCEPT ![Version[tx.published.build]] = Half] /\ EndUnclean("failed")
    /\ UNCHANGED <<ptr, mihomo, mgr, sel, coreVars, updates>>

\* Mutant: the updated file stays.
RevertMihomoForgets ==
    /\ At("undo") /\ tx.engine = "mihomo"
    /\ IF tx.was /\ tx.calm /\ mgr = "up" THEN Goto("restart") ELSE End("failed")
    /\ UNCHANGED <<store, mgr, sel, coreVars, faults, updates>>

\* The reverse swap, or what is left of it where a rename or the sync of the directory
\* fails: the new file, none, or the old one.
RevertMihomo ==
    /\ At("undo") /\ tx.engine = "mihomo"
    /\ \/ /\ mihomo' = [cur |-> IF tx.had THEN mihomo.prev ELSE None,
                        prev |-> IF tx.had THEN None ELSE mihomo.prev]
          /\ IF tx.was /\ tx.calm /\ mgr = "up" THEN Goto("restart") ELSE End("failed")
          /\ UNCHANGED faults
       \/ /\ mihomo' \in {mihomo, [mihomo EXCEPT !.cur = None]}
                    \union (IF tx.had THEN {[cur |-> mihomo.prev, prev |-> None]} ELSE {})
          /\ Fault /\ EndUnclean("failed")
    /\ UNCHANGED <<dirs, ptr, mgr, sel, coreVars, updates>>

\* Mutant: the previous build is put back but not started.
RestartSkipped ==
    /\ At("restart")
    /\ End("failed")
    /\ UNCHANGED <<store, mgr, sel, coreVars, faults, updates>>

\* restartPreviousLifecycle: a manager that began to shut down meanwhile stops
\* what this started.
Restart ==
    /\ At("restart")
    /\ \/ StartOK /\ End("failed")
       \/ mgr = "up" /\ StartError /\ End("failed")
       \/ mgr # "up" /\ StopOK /\ End("failed")
       \/ mgr # "up" /\ StopError /\ EndUnclean("failed")
    /\ UNCHANGED <<store, mgr, sel, updates>>

-----------------------------------------------------------------------------
Transaction ==
    \/ Enter \/ Declined \/ StopForUpdate \/ TimesOut
    \/ PublishDirectory \/ PublishPointer \/ PublishPointerFails
    \/ SwapMihomo \/ SwapMihomoFails
    \/ StartUpdated \/ VerifyMihomo \/ UndoStop
    \/ RevertPointer \/ RemoveReverted \/ RevertMihomo \/ Restart

EngNext ==
    \/ \E b \in Builds : StageSingBox(b) \/ StageLocal(b)
    \/ \E t \in Tags : StageMihomo(t)
    \/ Transaction
    \/ UserStarts \/ UserStops \/ UserSelects
    \/ Shutdown \/ Exits \/ PowerCut \/ Boots

EngSpec == EngInit /\ [][EngNext]_engVars

-----------------------------------------------------------------------------
(* current.json never names a build that is not there in full, as current  *)
(* or as the one to roll back to, whatever failed or was cut short.        *)
PointerResolves ==
    /\ ptr.cur # NoManifest => Resolves(ptr.cur)
    /\ ptr.prev # NoManifest => Resolves(ptr.prev)

(* The build of a live sing-box core is never removed under it, not even   *)
(* when the core of a failed update could not be stopped.                  *)
LiveBuildKept == proc.engine = "sing-box" => Resolves([build |-> proc.build, source |-> "official"])
                                             \/ Resolves([build |-> proc.build, source |-> "custom"])

(* A running core is the installed build of its engine: no transaction, of *)
(* either engine, leaves another build running than the one on disk.       *)
RunningIsInstalled == life = "running" => proc.build = Installed(proc.engine)

(* Pointer, version directories and the running core agree about builds.   *)
BuildsKept == PointerResolves /\ LiveBuildKept /\ RunningIsInstalled

(* An update that reports failure leaves the build that was installed      *)
(* before it, unless undoing it failed as well or the pointer was written  *)
(* and its directory could not be synced.                                  *)
FailedUpdateUndone ==
    tx.pc = "idle" /\ tx.out = "failed" /\ tx.calm => Installed(tx.engine) = tx.before

(* An update of a running core ends with a running core when nothing but   *)
(* the new build failed and the manager stays.                             *)
UpdateKeepsService ==
    [][(tx.was /\ tx.pc # "idle" /\ tx'.pc = "idle" /\ mgr' = "up" /\ faults' = tx.f0)
        => life' = "running"]_engVars
=============================================================================
