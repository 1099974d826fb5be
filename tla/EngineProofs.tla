---------------------------- MODULE EngineProofs ----------------------------
(***************************************************************************)
(* Theorems about EngineUpdate for every set of builds and number of       *)
(* faults: the pointer, the version directories and the running core agree *)
(* about builds whatever fails or is cut short (EngInv), and an update     *)
(* that stopped a core ends with one if only the new build failed.         *)
(***************************************************************************)
EXTENDS EngineUpdate, TLAPS

-----------------------------------------------------------------------------
(* The core process.                                                       *)

BuildsOf(e) == IF e = "mihomo" THEN Tags ELSE Builds

CoreSound ==
    /\ mgr = "off" => life = "stopped" /\ proc = NoProc
    /\ proc.engine \in Engines => proc.build \in BuildsOf(proc.engine)
    /\ life = "running" => proc.engine = sel /\ proc.build \notin Bad

-----------------------------------------------------------------------------
(* The transaction: what it set out to do and where it is.                 *)

Active == tx.pc # "idle"
IsMihomo == tx.engine = "mihomo"
\* The former build is the installed one, before it is replaced and after it is put back.
AsBefore == {"staged", "stop", "publish", "point", "remove", "restart"}
\* No core of the engine runs.
Quiescent == {"publish", "point", "start", "undo", "remove", "restart"}

PlanSound ==
    Active =>
        /\ tx.engine \in Engines /\ tx.build \in BuildsOf(tx.engine)
        /\ tx.before \in BuildsOf(tx.engine) \union {None} /\ tx.had = (tx.before # None)
        /\ IsMihomo => ~tx.cli /\ tx.pc \notin {"point", "remove"}
        /\ ~IsMihomo => /\ tx.staged \in Manifests /\ tx.staged.build = tx.build
                        /\ tx.pc # "verify"
                        /\ (tx.pc \in {"start", "undoStop", "undo", "remove", "restart"} => tx.was)
                        /\ ~tx.cli /\ tx.before # None => Version[tx.before] < Version[tx.build]
        /\ tx.cli = (mgr = "off")
        /\ tx.cli => ~tx.was /\ tx.pc \in {"publish", "point"}
        /\ tx.pc = "staged" => ~tx.was
        /\ tx.was => tx.before # None /\ tx.before \notin Bad /\ sel = tx.engine
        /\ tx.f0 <= faults /\ (~tx.calm => tx.f0 < faults /\ tx.pc \in {"undo", "restart"})
        /\ ~IsMihomo /\ tx.pc = "undo" => tx.calm

StoreSound ==
    Active =>
        /\ tx.calm /\ tx.pc \in AsBefore => Installed(tx.engine) = tx.before
        /\ tx.pc = "point" => dirs[Version[tx.build]] = tx.staged
        /\ ~IsMihomo /\ tx.pc \in {"start", "undoStop", "undo"} =>
               ptr.cur = tx.published /\ tx.published = tx.staged /\ ptr.prev.build = tx.before
        /\ tx.pc = "remove" => /\ ptr.prev = NoManifest /\ tx.published = tx.staged /\ ptr.cur.build = tx.before
        /\ IsMihomo /\ tx.pc \in {"start", "verify", "undoStop", "undo"} => (tx.had => mihomo.prev = tx.before)

StopSound ==
    Active =>
        /\ tx.pc \in Quiescent => ~(life = "running" /\ proc.engine = tx.engine)
        /\ ~IsMihomo /\ tx.pc \in {"undo", "remove"} => proc = NoProc
        /\ tx.was /\ tx.pc = "verify" => life = "running"
        /\ tx.was /\ tx.pc \in Quiescent /\ faults = tx.f0 => proc = NoProc

EngInv ==
    /\ EngTypeOK /\ BuildsKept /\ FailedUpdateUndone
    /\ CoreSound /\ PlanSound /\ StoreSound /\ StopSound

-----------------------------------------------------------------------------
(* The parts of the type.                                                  *)

StoreTyped ==
    /\ dirs \in [Numbers -> Manifests \union {NoManifest, Half}]
    /\ ptr \in [cur : Manifests \union {NoManifest}, prev : Manifests \union {NoManifest}]
    /\ mihomo \in [cur : Tags \union {None}, prev : Tags \union {None}]
CoreTyped ==
    /\ mgr \in {"up", "ending", "off"} /\ sel \in Engines
    /\ life \in {"running", "stopped", "failed"}
    /\ proc \in [engine : Engines \union {"none"}, build : Builds \union Tags \union {None}]
Counted == faults \in 0 .. MaxFaults /\ updates \in 0 .. MaxUpdates

LEMMA InvParts ==
    EngInv <=> /\ StoreTyped /\ CoreTyped /\ Counted /\ tx \in Transactions /\ BuildsKept /\ FailedUpdateUndone
               /\ CoreSound /\ PlanSound /\ StoreSound /\ StopSound
BY DEF EngInv, EngTypeOK, StoreTyped, CoreTyped, Counted

LEMMA Assembled ==
    ASSUME StoreTyped', CoreTyped', Counted', tx' \in Transactions, BuildsKept', FailedUpdateUndone',
           CoreSound', PlanSound', StoreSound', StopSound'
    PROVE  EngInv'
BY DEF EngInv, EngTypeOK, StoreTyped, CoreTyped, Counted

LEMMA ManifestFacts ==
    /\ NoManifest.build = None /\ Half.build = None /\ NoManifest # Half /\ NoManifest \notin Manifests
    /\ Half \notin Manifests
    /\ \A m \in Manifests : m.build \in Builds /\ m.build # None /\ m.source \in {"official", "custom"}
                            /\ m = [build |-> m.build, source |-> m.source]
BY NoneAssumption DEF NoManifest, Half, Manifests

LEMMA TxFields ==
    ASSUME tx \in Transactions
    PROVE  /\ tx.engine \in Engines \union {"none"} /\ tx.pc \in TxPcs /\ tx.cli \in BOOLEAN /\ tx.was \in BOOLEAN
           /\ tx.had \in BOOLEAN /\ tx.calm \in BOOLEAN /\ tx.f0 \in 0 .. MaxFaults
           /\ tx.staged \in Manifests \union {NoManifest} /\ tx.published \in Manifests \union {NoManifest}
BY DEF Transactions

SamePlan ==
    /\ tx'.engine = tx.engine /\ tx'.build = tx.build /\ tx'.cli = tx.cli /\ tx'.was = tx.was /\ tx'.had = tx.had
    /\ tx'.before = tx.before /\ tx'.f0 = tx.f0

LEMMA Going ==
    ASSUME tx \in Transactions, NEW pc \in TxPcs, Goto(pc)
    PROVE  tx' \in Transactions /\ tx'.pc = pc /\ SamePlan /\ tx'.calm = tx.calm /\ tx'.staged = tx.staged
           /\ tx'.published = tx.published
BY DEF Goto, Transactions, SamePlan

LEMMA Ending ==
    ASSUME tx \in Transactions, NEW out \in {"ok", "failed", "declined"}, End(out)
    PROVE  tx' \in Transactions /\ tx'.pc = "idle" /\ tx'.out = out /\ SamePlan /\ tx'.calm = tx.calm
BY DEF End, Transactions, SamePlan, TxPcs

LEMMA EndingUnclean ==
    ASSUME tx \in Transactions, NEW out \in {"ok", "failed", "declined"}, EndUnclean(out)
    PROVE  tx' \in Transactions /\ tx'.pc = "idle" /\ tx'.out = out /\ SamePlan /\ tx'.calm = FALSE
BY DEF EndUnclean, Transactions, SamePlan, TxPcs

\* A finished transaction relies on nothing but the build it says it left.
LEMMA Finished ==
    ASSUME tx' \in Transactions, tx'.pc = "idle",
           tx'.out = "failed" /\ tx'.calm => (Installed(tx.engine) = tx.before)'
    PROVE  FailedUpdateUndone' /\ PlanSound' /\ StoreSound' /\ StopSound'
<1>1. FailedUpdateUndone'
  BY DEF FailedUpdateUndone
<1>2. PlanSound' /\ StoreSound' /\ StopSound'
  BY DEF PlanSound, StoreSound, StopSound, Active
<1>3. QED
  BY <1>1, <1>2

LEMMA FaultCounted ==
    ASSUME Counted, Fault \/ UNCHANGED faults, UNCHANGED updates
    PROVE  Counted' /\ faults' >= faults /\ (Fault => faults' = faults + 1)
BY EngBoundAssumption DEF Counted, Fault

-----------------------------------------------------------------------------
(* The lifecycle.                                                          *)

LEMMA Stops ==
    ASSUME StoreTyped, CoreTyped, BuildsKept, CoreSound, StopOK, UNCHANGED <<store, mgr, sel>>
    PROVE  CoreTyped' /\ CoreSound' /\ BuildsKept' /\ life' = "stopped" /\ proc' = NoProc
<1>1. NoProc.engine = "none" /\ NoProc.build = None
  BY DEF NoProc
<1>2. CoreTyped'
  BY DEF StopOK, CoreTyped, NoProc
<1>3. CoreSound'
  BY <1>1 DEF StopOK, CoreSound, Engines
<1>4. BuildsKept'
  BY <1>1 DEF StopOK, BuildsKept, PointerResolves, LiveBuildKept, RunningIsInstalled, Resolves, store
<1>5. QED
  BY <1>2, <1>3, <1>4 DEF StopOK

LEMMA StopsBadly ==
    ASSUME StoreTyped, CoreTyped, BuildsKept, CoreSound, StopError, mgr # "off", UNCHANGED <<store, mgr, sel>>
    PROVE  CoreTyped' /\ CoreSound' /\ BuildsKept' /\ life' = "failed" /\ proc' = proc
<1>1. CoreTyped'
  BY DEF StopError, CoreTyped
<1>2. CoreSound'
  BY DEF StopError, CoreSound
<1>3. BuildsKept'
  BY DEF StopError, BuildsKept, PointerResolves, LiveBuildKept, RunningIsInstalled, Resolves, store
<1>4. QED
  BY <1>1, <1>2, <1>3 DEF StopError

\* Whatever is started is the installed build of the selected engine.
LEMMA Startables ==
    ASSUME StoreTyped, CoreTyped, Startable(sel), proc' = [engine |-> sel, build |-> Installed(sel)]
    PROVE  /\ proc'.engine = sel /\ proc'.build = Installed(sel) /\ Installed(sel) \in BuildsOf(sel)
           /\ proc' \in [engine : Engines \union {"none"}, build : Builds \union Tags \union {None}]
<1>1. Installed(sel) \in BuildsOf(sel)
  BY ManifestFacts DEF StoreTyped, Startable, Installed, BuildsOf
<1>2. QED
  BY <1>1 DEF CoreTyped, Engines, BuildsOf

LEMMA StartedLive ==
    ASSUME StoreTyped, CoreTyped, BuildsKept, Startable(sel), proc' = [engine |-> sel, build |-> Installed(sel)],
           UNCHANGED <<store, mgr, sel>>
    PROVE  LiveBuildKept'
<1> SUFFICES ASSUME sel = "sing-box" PROVE LiveBuildKept'
  BY Startables DEF LiveBuildKept
<1>1. ptr.cur \in Manifests /\ dirs[Version[ptr.cur.build]] = ptr.cur /\ proc'.build = ptr.cur.build
  BY Startables DEF Startable, Resolves, StoreTyped, Installed
<1>2. ptr.cur = [build |-> ptr.cur.build, source |-> "official"] \/ ptr.cur = [build |-> ptr.cur.build, source |-> "custom"]
  BY <1>1, ManifestFacts
<1>3. QED
  BY <1>1, <1>2, ManifestFacts DEF LiveBuildKept, Resolves, store

LEMMA Starts ==
    ASSUME StoreTyped, CoreTyped, BuildsKept, CoreSound, StartOK, UNCHANGED <<store, mgr, sel>>
    PROVE  CoreTyped' /\ CoreSound' /\ BuildsKept' /\ life' = "running" /\ proc'.engine = sel
<1>1. mgr = "up" /\ Startable(sel) /\ Installed(sel) \notin Bad /\ life' = "running"
      /\ proc' = [engine |-> sel, build |-> Installed(sel)]
  BY DEF StartOK
<1>2. proc'.engine = sel /\ proc'.build = Installed(sel) /\ Installed(sel) \in BuildsOf(sel)
      /\ proc' \in [engine : Engines \union {"none"}, build : Builds \union Tags \union {None}]
  BY <1>1, Startables
<1>3. CoreTyped'
  BY <1>1, <1>2 DEF CoreTyped
<1>4. CoreSound'
  BY <1>1, <1>2 DEF CoreSound
<1>5. LiveBuildKept'
  BY <1>1, StartedLive
<1>6. BuildsKept'
  BY <1>1, <1>2, <1>5 DEF BuildsKept, PointerResolves, RunningIsInstalled, Resolves, store, Installed
<1>7. QED
  BY <1>1, <1>2, <1>3, <1>4, <1>6

LEMMA StartsBadly ==
    ASSUME StoreTyped, CoreTyped, BuildsKept, CoreSound, Counted, StartError, mgr # "off", UNCHANGED <<store, mgr, sel>>
    PROVE  CoreTyped' /\ CoreSound' /\ BuildsKept' /\ life' = "failed" /\ (Fault \/ UNCHANGED faults)
<1>1. life' = "failed" /\ (Fault \/ UNCHANGED faults)
      /\ (UNCHANGED proc \/ (Startable(sel) /\ proc' = [engine |-> sel, build |-> Installed(sel)]))
  BY DEF StartError
<1>2. CASE UNCHANGED proc
  <2>1. CoreTyped' /\ CoreSound'
    BY <1>1, <1>2 DEF CoreTyped, CoreSound
  <2>2. BuildsKept'
    BY <1>1, <1>2 DEF BuildsKept, PointerResolves, LiveBuildKept, RunningIsInstalled, Resolves, store
  <2>3. QED
    BY <1>1, <2>1, <2>2
<1>3. CASE Startable(sel) /\ proc' = [engine |-> sel, build |-> Installed(sel)]
  <2>1. proc'.engine = sel /\ proc'.build = Installed(sel) /\ Installed(sel) \in BuildsOf(sel)
        /\ proc' \in [engine : Engines \union {"none"}, build : Builds \union Tags \union {None}]
    BY <1>3, Startables
  <2>2. CoreTyped' /\ CoreSound'
    BY <1>1, <2>1 DEF CoreTyped, CoreSound
  <2>3. BuildsKept'
    BY <1>1, <1>3, StartedLive DEF BuildsKept, PointerResolves, RunningIsInstalled, Resolves, store
  <2>4. QED
    BY <1>1, <2>2, <2>3
<1>4. QED
  BY <1>1, <1>2, <1>3

-----------------------------------------------------------------------------
(* The user and the manager, outside the operation gate.                   *)

LEMMA OutsideGate ==
    ASSUME EngInv, ~Locked, UNCHANGED <<store, mgr, tx, updates>>, Fault \/ UNCHANGED faults, CoreTyped', CoreSound',
           BuildsKept'
    PROVE  EngInv'
<1>1. StoreTyped /\ Counted /\ tx \in Transactions /\ FailedUpdateUndone /\ PlanSound /\ StoreSound
  BY InvParts
<1>2. StoreTyped' /\ tx' \in Transactions
  BY <1>1 DEF StoreTyped, store
<1>3. Counted' /\ faults' >= faults
  BY <1>1, FaultCounted
<1>4. FailedUpdateUndone'
  BY <1>1 DEF FailedUpdateUndone, Installed, store
<1>5. PlanSound'
  <2>1. tx.f0 <= faults => tx.f0 <= faults'
    BY <1>1, <1>3, TxFields DEF Counted
  <2>2. QED
    BY <1>1, <2>1 DEF PlanSound, Active, IsMihomo, Locked
<1>6. StoreSound'
  BY <1>1 DEF StoreSound, Active, IsMihomo, Locked, Installed, AsBefore, store
<1>7. StopSound'
  BY DEF StopSound, Active, Locked, Quiescent
<1>8. QED
  BY <1>2, <1>3, <1>4, <1>5, <1>6, <1>7, Assembled

LEMMA UserStartsKeeps == ASSUME EngInv, UserStarts PROVE EngInv'
<1>1. mgr # "off" /\ (StartOK \/ StartError) /\ ~Locked /\ UNCHANGED <<store, mgr, sel, tx, updates>>
      /\ StoreTyped /\ CoreTyped /\ BuildsKept /\ CoreSound /\ Counted
  BY InvParts DEF UserStarts
<1>2. CoreTyped' /\ CoreSound' /\ BuildsKept' /\ (Fault \/ UNCHANGED faults)
  <2>1. CASE StartOK
    BY <1>1, <2>1, Starts DEF StartOK
  <2>2. CASE StartError
    BY <1>1, <2>2, StartsBadly
  <2>3. QED
    BY <1>1, <2>1, <2>2
<1>3. QED
  BY <1>1, <1>2, OutsideGate

LEMMA UserStopsKeeps == ASSUME EngInv, UserStops PROVE EngInv'
<1>1. mgr # "off" /\ (StopOK \/ StopError) /\ ~Locked /\ UNCHANGED <<store, mgr, sel, tx, updates>>
      /\ StoreTyped /\ CoreTyped /\ BuildsKept /\ CoreSound
  BY InvParts DEF UserStops
<1>2. CoreTyped' /\ CoreSound' /\ BuildsKept' /\ (Fault \/ UNCHANGED faults)
  <2>1. CASE StopOK
    BY <1>1, <2>1, Stops DEF StopOK
  <2>2. CASE StopError
    BY <1>1, <2>2, StopsBadly DEF StopError
  <2>3. QED
    BY <1>1, <2>1, <2>2
<1>3. QED
  BY <1>1, <1>2, OutsideGate

LEMMA UserSelectsKeeps == ASSUME EngInv, UserSelects PROVE EngInv'
<1>1. ~Locked /\ life = "stopped" /\ sel' \in Engines /\ UNCHANGED <<store, mgr, coreVars, tx, faults, updates>>
      /\ CoreTyped /\ BuildsKept /\ CoreSound
  BY InvParts DEF UserSelects
<1>2. CoreTyped' /\ CoreSound'
  BY <1>1 DEF CoreTyped, CoreSound, coreVars
<1>3. BuildsKept'
  BY <1>1 DEF BuildsKept, PointerResolves, LiveBuildKept, RunningIsInstalled, Resolves, Installed, store, coreVars
<1>4. QED
  BY <1>1, <1>2, <1>3, OutsideGate

LEMMA ShutdownKeeps == ASSUME EngInv, Shutdown PROVE EngInv'
<1>1. mgr = "up" /\ mgr' = "ending" /\ UNCHANGED <<store, sel, coreVars, tx, faults, updates>>
      /\ StoreTyped /\ CoreTyped /\ Counted /\ tx \in Transactions /\ BuildsKept /\ FailedUpdateUndone /\ CoreSound
      /\ PlanSound /\ StoreSound /\ StopSound
  BY InvParts DEF Shutdown
<1>2. StoreTyped' /\ CoreTyped' /\ Counted' /\ tx' \in Transactions
  BY <1>1 DEF StoreTyped, CoreTyped, Counted, store, coreVars
<1>3. BuildsKept' /\ FailedUpdateUndone'
  BY <1>1
     DEF BuildsKept, PointerResolves, LiveBuildKept, RunningIsInstalled, FailedUpdateUndone, Resolves,
         Installed, store, coreVars
<1>4. CoreSound'
  BY <1>1 DEF CoreSound, coreVars
<1>5. PlanSound'
  BY <1>1 DEF PlanSound, Active, IsMihomo
<1>6. StoreSound' /\ StopSound'
  BY <1>1 DEF StoreSound, StopSound, Active, IsMihomo, Installed, store, coreVars
<1>7. QED
  BY <1>2, <1>3, <1>4, <1>5, <1>6, Assembled

LEMMA GoneFacts == NoProc.engine = "none" /\ NoTx \in Transactions /\ NoTx.pc = "idle" /\ NoTx.out = "none"
BY EngBoundAssumption DEF NoProc, NoTx, Transactions, TxPcs, Engines

\* A manager that is gone left no core.
LEMMA ManagerGone ==
    ASSUME CoreTyped, mgr' = "off", life' = "stopped", proc' = NoProc, UNCHANGED sel
    PROVE  CoreTyped' /\ CoreSound' /\ LiveBuildKept' /\ RunningIsInstalled'
<1>1. CoreTyped'
  BY DEF CoreTyped, NoProc
<1>2. QED
  BY <1>1, GoneFacts DEF CoreSound, LiveBuildKept, RunningIsInstalled, Engines

LEMMA ExitsKeeps == ASSUME EngInv, Exits PROVE EngInv'
<1>1. mgr' = "off" /\ life' = "stopped" /\ proc' = NoProc /\ ~Locked /\ tx' = [tx EXCEPT !.pc = "idle"]
      /\ UNCHANGED <<store, sel, faults, updates>>
      /\ StoreTyped /\ CoreTyped /\ Counted /\ tx \in Transactions /\ BuildsKept /\ FailedUpdateUndone /\ StoreSound
  BY InvParts DEF Exits
<1>2. StoreTyped' /\ Counted'
  BY <1>1 DEF StoreTyped, Counted, store
<1>3. CoreTyped' /\ CoreSound' /\ BuildsKept'
  BY <1>1, ManagerGone DEF BuildsKept, PointerResolves, Resolves, store
<1>4. tx' \in Transactions /\ tx'.pc = "idle" /\ tx'.out = tx.out /\ tx'.calm = tx.calm /\ tx'.engine = tx.engine
      /\ tx'.before = tx.before
  BY <1>1 DEF Transactions, TxPcs
<1>5. tx'.out = "failed" /\ tx'.calm => (Installed(tx.engine) = tx.before)'
  BY <1>1, <1>4 DEF Locked, FailedUpdateUndone, StoreSound, Active, AsBefore, Installed, store
<1>6. QED
  BY <1>2, <1>3, <1>4, <1>5, Finished, Assembled

LEMMA BootsKeeps == ASSUME EngInv, Boots PROVE EngInv'
<1>1. mgr = "off" /\ mgr' = "up" /\ tx.pc = "idle" /\ UNCHANGED <<store, sel, coreVars, tx, faults, updates>>
      /\ StoreTyped /\ CoreTyped /\ Counted /\ tx \in Transactions /\ BuildsKept /\ FailedUpdateUndone /\ CoreSound
  BY InvParts DEF Boots
<1>2. StoreTyped' /\ CoreTyped' /\ Counted' /\ tx' \in Transactions
  BY <1>1 DEF StoreTyped, CoreTyped, Counted, store, coreVars
<1>3. BuildsKept' /\ FailedUpdateUndone'
  BY <1>1
     DEF BuildsKept, PointerResolves, LiveBuildKept, RunningIsInstalled, FailedUpdateUndone, Resolves,
         Installed, store, coreVars
<1>4. CoreSound'
  BY <1>1 DEF CoreSound, coreVars
<1>5. PlanSound' /\ StoreSound' /\ StopSound'
  BY <1>1 DEF PlanSound, StoreSound, StopSound, Active
<1>6. QED
  BY <1>2, <1>3, <1>4, <1>5, Assembled

\* The build being removed is neither pointed at nor run.
LEMMA RemovedUnused ==
    ASSUME EngInv, tx.pc = "remove"
    PROVE  /\ ptr.prev = NoManifest /\ proc = NoProc /\ tx.published \in Manifests
           /\ Version[tx.published.build] \in Numbers
           /\ ptr.cur \in Manifests => Version[ptr.cur.build] # Version[tx.published.build]
<1>1. StoreTyped /\ tx \in Transactions /\ PlanSound /\ StoreSound /\ StopSound
  BY InvParts
<1>2. /\ ~IsMihomo /\ tx.staged \in Manifests /\ tx.staged.build = tx.build /\ tx.was /\ tx.before # None /\ ~tx.cli
      /\ Version[tx.before] < Version[tx.build] /\ tx.before \in Builds /\ tx.build \in Builds
      /\ ptr.prev = NoManifest /\ tx.published = tx.staged /\ ptr.cur.build = tx.before /\ proc = NoProc
  BY <1>1 DEF PlanSound, StoreSound, StopSound, Active, IsMihomo, BuildsOf
<1>3. Version[tx.before] # Version[tx.build]
  BY <1>2, VersionAssumption
<1>4. QED
  BY <1>2, <1>3 DEF Numbers

\* The directory of a build nobody uses may go, whole or in part.
LEMMA DirectoryGoes ==
    ASSUME EngInv, tx.pc = "remove", NEW m \in {NoManifest, Half}, UNCHANGED ptr,
           dirs' = [dirs EXCEPT ![Version[tx.published.build]] = m]
    PROVE  dirs' \in [Numbers -> Manifests \union {NoManifest, Half}] /\ PointerResolves'
<1>1. StoreTyped /\ PointerResolves
  BY InvParts DEF BuildsKept
<1>2. dirs' \in [Numbers -> Manifests \union {NoManifest, Half}]
  BY <1>1, RemovedUnused DEF StoreTyped
<1>3. ptr.cur # NoManifest => ptr.cur \in Manifests /\ Version[ptr.cur.build] \in Numbers
  BY <1>1, ManifestFacts DEF StoreTyped, Numbers
<1>4. PointerResolves'
  BY <1>1, <1>3, RemovedUnused DEF PointerResolves, Resolves, StoreTyped
<1>5. QED
  BY <1>2, <1>4

LEMMA PowerCutKeeps == ASSUME EngInv, PowerCut PROVE EngInv'
<1>1. /\ Fault /\ mgr' = "off" /\ life' = "stopped" /\ proc' = NoProc /\ tx' = NoTx /\ UNCHANGED <<ptr, sel, updates>>
      /\ dirs' = (IF At("remove") THEN [dirs EXCEPT ![Version[tx.published.build]] = Half] ELSE dirs)
      /\ \/ mihomo' \in {mihomo, [mihomo EXCEPT !.prev = None], [mihomo EXCEPT !.cur = None]}
         \/ mihomo' = [cur |-> None, prev |-> mihomo.cur]
      /\ StoreTyped /\ CoreTyped /\ Counted /\ BuildsKept
  BY InvParts DEF PowerCut
<1>2. dirs' \in [Numbers -> Manifests \union {NoManifest, Half}] /\ PointerResolves'
  <2>1. CASE At("remove")
    BY <1>1, <2>1, DirectoryGoes DEF At
  <2>2. CASE ~At("remove")
    BY <1>1, <2>2 DEF StoreTyped, BuildsKept, PointerResolves, Resolves
  <2>3. QED
    BY <2>1, <2>2
<1>3. StoreTyped'
  BY <1>1, <1>2 DEF StoreTyped
<1>4. CoreTyped' /\ CoreSound' /\ BuildsKept'
  BY <1>1, <1>2, ManagerGone DEF BuildsKept
<1>5. Counted'
  BY <1>1, FaultCounted
<1>6. tx' \in Transactions /\ tx'.pc = "idle" /\ tx'.out # "failed"
  BY <1>1, GoneFacts
<1>7. QED
  BY <1>3, <1>4, <1>5, <1>6, Finished, Assembled

-----------------------------------------------------------------------------
(* Staging and entering the gate.                                          *)

LEMMA InstalledTyped ==
    ASSUME StoreTyped, NEW e \in Engines
    PROVE  Installed(e) \in BuildsOf(e) \union {None} /\ Installed(e) \in Builds \union Tags \union {None}
BY ManifestFacts DEF StoreTyped, Installed, BuildsOf, Engines

LEMMA Staging ==
    ASSUME EngInv, NEW engine \in Engines, NEW build \in BuildsOf(engine), NEW cli \in BOOLEAN, Stage(engine, build, cli),
           cli = (mgr = "off"), cli => engine = "sing-box",
           engine = "sing-box" /\ ~cli => Newer(build)
    PROVE  EngInv'
<1> DEFINE mf == IF engine = "mihomo" THEN NoManifest ELSE [build |-> build, source |-> IF cli THEN "custom" ELSE "official"]
<1>1. /\ tx.pc = "idle" /\ updates < MaxUpdates /\ updates' = updates + 1
      /\ UNCHANGED <<store, mgr, sel, coreVars, faults>>
      /\ tx' = [NoTx EXCEPT !.engine = engine, !.build = build, !.cli = cli, !.had = Installed(engine) # None,
                            !.before = Installed(engine), !.staged = mf, !.pc = IF cli THEN "publish" ELSE "staged",
                            !.f0 = faults]
      /\ StoreTyped /\ CoreTyped /\ Counted /\ BuildsKept /\ CoreSound
  BY InvParts DEF Stage
<1>2. StoreTyped' /\ CoreTyped'
  BY <1>1 DEF StoreTyped, CoreTyped, store, coreVars
<1>3. Counted'
  BY <1>1, EngBoundAssumption DEF Counted
<1>4. BuildsKept'
  BY <1>1 DEF BuildsKept, PointerResolves, LiveBuildKept, RunningIsInstalled, Resolves, Installed, store, coreVars
<1>5. CoreSound'
  BY <1>1 DEF CoreSound, coreVars
<1>6. Installed(engine) \in BuildsOf(engine) \union {None} /\ Installed(engine) \in Builds \union Tags \union {None}
  BY <1>1, InstalledTyped
<1>7. mf \in Manifests \union {NoManifest} /\ (engine # "mihomo" => mf \in Manifests /\ mf.build = build)
  BY DEF Manifests, BuildsOf
<1>8. /\ tx'.engine = engine /\ tx'.build = build /\ tx'.cli = cli /\ tx'.had = (Installed(engine) # None)
      /\ tx'.before = Installed(engine) /\ tx'.staged = mf /\ tx'.pc = (IF cli THEN "publish" ELSE "staged")
      /\ tx'.f0 = faults /\ tx'.was = FALSE /\ tx'.calm = TRUE /\ tx'.out = "none"
  <2> HIDE DEF mf
  <2> QED
    BY <1>1 DEF NoTx
<1>9. tx' \in Transactions
  <2>1. build \in Builds \union Tags \union {None} /\ (Installed(engine) # None) \in BOOLEAN
    BY DEF BuildsOf
  <2> HIDE DEF mf
  <2>2. QED
    BY <1>1, <1>6, <1>7, <2>1 DEF Transactions, NoTx, TxPcs, Counted
<1> HIDE DEF mf
<1>10. FailedUpdateUndone'
  BY <1>8 DEF FailedUpdateUndone
<1>11. PlanSound'
  <2>1. engine = "sing-box" /\ ~cli /\ Installed(engine) # None => Version[Installed(engine)] < Version[build]
    BY <1>1, ManifestFacts DEF Newer, Installed, StoreTyped
  <2>2. faults <= faults /\ UNCHANGED <<mgr, faults>>
    BY <1>1 DEF Counted
  <2>3. QED
    BY <1>6, <1>7, <1>8, <2>1, <2>2 DEF PlanSound, Active, IsMihomo, Engines
<1>12. StoreSound'
  BY <1>1, <1>8 DEF StoreSound, Active, IsMihomo, Installed, store
<1>13. StopSound'
  <2>1. cli => life = "stopped"
    BY <1>1 DEF CoreSound
  <2>2. QED
    BY <1>1, <1>8, <2>1 DEF StopSound, Active, IsMihomo, Quiescent, coreVars
<1>14. QED
  BY <1>2, <1>3, <1>4, <1>5, <1>9, <1>10, <1>11, <1>12, <1>13, Assembled

LEMMA StageSingBoxKeeps == ASSUME EngInv, NEW b \in Builds, StageSingBox(b) PROVE EngInv'
<1>1. /\ "sing-box" \in Engines /\ b \in BuildsOf("sing-box") /\ FALSE \in BOOLEAN
  BY DEF Engines, BuildsOf
<1>2. FALSE = (mgr = "off") /\ Newer(b) /\ Stage("sing-box", b, FALSE)
  BY DEF StageSingBox
<1>3. QED
  BY <1>1, <1>2, Staging

LEMMA StageLocalKeeps == ASSUME EngInv, NEW b \in Builds, StageLocal(b) PROVE EngInv'
<1>1. /\ "sing-box" \in Engines /\ b \in BuildsOf("sing-box") /\ TRUE \in BOOLEAN
  BY DEF Engines, BuildsOf
<1>2. TRUE = (mgr = "off") /\ Stage("sing-box", b, TRUE)
  BY DEF StageLocal
<1>3. QED
  BY <1>1, <1>2, Staging

LEMMA StageMihomoKeeps == ASSUME EngInv, NEW t \in Tags, StageMihomo(t) PROVE EngInv'
<1>1. /\ "mihomo" \in Engines /\ t \in BuildsOf("mihomo") /\ FALSE \in BOOLEAN
  BY DEF Engines, BuildsOf
<1>2. FALSE = (mgr = "off") /\ Stage("mihomo", t, FALSE)
  BY DEF StageMihomo
<1>3. QED
  BY <1>1, <1>2, Staging

\* A step of the transaction that leaves the store, the core and the manager alone.
LEMMA Bookkeeping ==
    ASSUME EngInv, UNCHANGED <<store, mgr, sel, coreVars, updates>>, Fault \/ UNCHANGED faults, tx' \in Transactions,
           FailedUpdateUndone', PlanSound', StoreSound', StopSound'
    PROVE  EngInv'
<1>1. StoreTyped /\ CoreTyped /\ Counted /\ BuildsKept /\ CoreSound
  BY InvParts
<1>2. StoreTyped' /\ CoreTyped' /\ Counted'
  BY <1>1, FaultCounted DEF StoreTyped, CoreTyped, store, coreVars
<1>3. BuildsKept' /\ CoreSound'
  BY <1>1 DEF BuildsKept, PointerResolves, LiveBuildKept, RunningIsInstalled, Resolves, Installed, CoreSound,
      store, coreVars
<1>4. QED
  BY <1>2, <1>3, Assembled

\* What runs is the former build, so there is one, it starts, and it is of the selected engine.
LEMMA EnterKeeps == ASSUME EngInv, Enter PROVE EngInv'
<1> DEFINE was == life = "running" /\ proc.engine = tx.engine
<1>1. /\ tx.pc = "staged" /\ tx' = [tx EXCEPT !.was = was, !.pc = IF was THEN "stop" ELSE "publish"]
      /\ UNCHANGED <<store, mgr, sel, coreVars, faults, updates>>
      /\ StoreTyped /\ CoreTyped /\ tx \in Transactions /\ BuildsKept /\ CoreSound /\ PlanSound /\ StoreSound
  BY InvParts DEF Enter, At
<1>2. was => tx.before \notin Bad /\ tx.before # None /\ sel = tx.engine
  <2> SUFFICES ASSUME was PROVE tx.before \notin Bad /\ tx.before # None /\ sel = tx.engine
    OBVIOUS
  <2>1. sel = tx.engine /\ proc.build \notin Bad /\ proc.build \in BuildsOf(proc.engine)
    BY <1>1 DEF CoreSound, CoreTyped
  <2>2. tx.before = proc.build
    BY <1>1 DEF BuildsKept, RunningIsInstalled, PlanSound, StoreSound, Active, AsBefore
  <2>3. QED
    BY <2>1, <2>2, NoneAssumption DEF BuildsOf
<1>3. was \in BOOLEAN
  OBVIOUS
<1>4. /\ tx' \in Transactions /\ tx'.was = was /\ tx'.pc = (IF was THEN "stop" ELSE "publish")
      /\ tx'.engine = tx.engine
      /\ tx'.build = tx.build /\ tx'.cli = tx.cli /\ tx'.had = tx.had /\ tx'.before = tx.before /\ tx'.f0 = tx.f0
      /\ tx'.staged = tx.staged /\ tx'.published = tx.published /\ tx'.calm = tx.calm
  <2> HIDE DEF was
  <2> QED
    BY <1>1, <1>3 DEF Transactions, TxPcs
<1>5. FailedUpdateUndone'
  BY <1>4 DEF FailedUpdateUndone
<1>6. PlanSound'
  <2> HIDE DEF was
  <2> QED
    BY <1>1, <1>2, <1>3, <1>4 DEF PlanSound, Active, IsMihomo
<1>7. StoreSound'
  <2> HIDE DEF was
  <2> QED
    BY <1>1, <1>4 DEF StoreSound, Active, IsMihomo, Installed, AsBefore, store
<1>8. StopSound'
  <2>1. CASE was
    BY <1>1, <1>4, <2>1 DEF StopSound, Active, IsMihomo, Quiescent, coreVars
  <2>2. CASE ~was
    <3>1. tx'.pc = "publish" /\ tx'.was = FALSE /\ tx'.engine = tx.engine /\ UNCHANGED <<life, proc>>
      BY <1>1, <1>4, <2>2 DEF coreVars
    <3>2. QED
      BY <2>2, <3>1 DEF StopSound, Active, IsMihomo, Quiescent
  <2>3. QED
    BY <2>1, <2>2
<1>9. QED
  BY <1>1, <1>4, <1>5, <1>6, <1>7, <1>8, Bookkeeping

LEMMA DeclinedKeeps == ASSUME EngInv, Declined PROVE EngInv'
<1>1. /\ tx.pc = "staged" /\ End("declined") /\ tx \in Transactions
      /\ UNCHANGED <<store, mgr, sel, coreVars, faults, updates>>
  BY InvParts DEF Declined, At
<1>2. tx' \in Transactions /\ tx'.pc = "idle" /\ tx'.out = "declined"
  BY <1>1, Ending
<1>3. QED
  BY <1>1, <1>2, Finished, Bookkeeping

-----------------------------------------------------------------------------
(* Ways a transaction goes on.                                             *)

\* It gives up before anything is published, or after the former build is back.
LEMMA GivesUp ==
    ASSUME EngInv, tx.pc \in AsBefore, End("failed"), UNCHANGED <<ptr, mihomo>>
    PROVE  tx' \in Transactions /\ FailedUpdateUndone' /\ PlanSound' /\ StoreSound' /\ StopSound'
<1>1. tx \in Transactions /\ StoreSound
  BY InvParts
<1>2. tx' \in Transactions /\ tx'.pc = "idle" /\ SamePlan /\ tx'.calm = tx.calm
  BY <1>1, Ending
<1>3. tx'.out = "failed" /\ tx'.calm => (Installed(tx.engine) = tx.before)'
  BY <1>1, <1>2 DEF StoreSound, Active, AsBefore, SamePlan, Installed
<1>4. QED
  BY <1>2, <1>3, Finished

\* It gives up leaving something behind, and says nothing about the build.
LEMMA GivesUpUnclean ==
    ASSUME EngInv, EndUnclean("failed")
    PROVE  tx' \in Transactions /\ FailedUpdateUndone' /\ PlanSound' /\ StoreSound' /\ StopSound'
<1>1. tx' \in Transactions /\ tx'.pc = "idle" /\ tx'.calm = FALSE
  BY InvParts, EndingUnclean
<1>2. QED
  BY <1>1, Finished

LEMMA Succeeds ==
    ASSUME EngInv, End("ok")
    PROVE  tx' \in Transactions /\ FailedUpdateUndone' /\ PlanSound' /\ StoreSound' /\ StopSound'
<1>1. tx' \in Transactions /\ tx'.pc = "idle" /\ tx'.out = "ok"
  BY InvParts, Ending
<1>2. QED
  BY <1>1, Finished

\* The former build is in place and the core is to be started again.
LEMMA TurnsBack ==
    ASSUME EngInv, tx.pc \in {"publish", "point", "remove"}, tx.was, Goto("restart"), UNCHANGED <<ptr, mihomo, mgr, sel, coreVars>>,
           Fault \/ UNCHANGED faults
    PROVE  tx' \in Transactions /\ FailedUpdateUndone' /\ PlanSound' /\ StoreSound' /\ StopSound'
<1>1. tx \in Transactions /\ PlanSound /\ StoreSound /\ StopSound /\ Counted
  BY InvParts
<1>2. tx' \in Transactions /\ tx'.pc = "restart" /\ SamePlan /\ tx'.calm = tx.calm /\ tx'.staged = tx.staged
  BY <1>1, Going DEF TxPcs
<1>3. FailedUpdateUndone'
  BY <1>2 DEF FailedUpdateUndone
<1>4. tx.f0 <= faults => tx.f0 <= faults' /\ (faults' = tx.f0 => faults = tx.f0)
  BY <1>1, TxFields DEF Counted, Fault
<1>5. tx.f0 < faults => tx.f0 < faults'
  BY <1>1, TxFields DEF Counted, Fault
<1>6. PlanSound'
  BY <1>1, <1>2, <1>4, <1>5 DEF PlanSound, Active, IsMihomo, SamePlan
<1>7. StoreSound'
  BY <1>1, <1>2 DEF StoreSound, Active, IsMihomo, SamePlan, AsBefore, Installed, store
<1>8. StopSound'
  BY <1>1, <1>2, <1>4 DEF StopSound, PlanSound, Active, IsMihomo, SamePlan, Quiescent, coreVars
<1>9. QED
  BY <1>2, <1>3, <1>6, <1>7, <1>8

\* The manager of a transaction the command line does not run is there.
LEMMA ManagerThere ==
    ASSUME EngInv, tx.pc \in TxPcs \ {"idle", "staged", "publish", "point"}
    PROVE  mgr # "off" /\ ~tx.cli
BY InvParts DEF PlanSound, Active, TxPcs

LEMMA StopForUpdateKeeps == ASSUME EngInv, StopForUpdate PROVE EngInv'
<1>1. /\ tx.pc = "stop" /\ UNCHANGED <<store, mgr, sel, updates>> /\ mgr # "off" /\ ~tx.cli
      /\ StoreTyped /\ CoreTyped /\ Counted /\ tx \in Transactions /\ BuildsKept /\ CoreSound
      /\ PlanSound /\ StoreSound /\ StopSound
  BY InvParts, ManagerThere DEF StopForUpdate, At, TxPcs
<1>2. StoreTyped'
  BY <1>1 DEF StoreTyped, store
<1>3. CASE StopOK /\ Goto("publish")
  <2>1. CoreTyped' /\ CoreSound' /\ BuildsKept' /\ life' = "stopped" /\ proc' = NoProc /\ UNCHANGED faults
    BY <1>1, <1>3, Stops DEF StopOK
  <2>2. tx' \in Transactions /\ tx'.pc = "publish" /\ SamePlan /\ tx'.calm = tx.calm /\ tx'.staged = tx.staged
    BY <1>1, <1>3, Going DEF TxPcs
  <2>3. FailedUpdateUndone' /\ Counted'
    BY <1>1, <2>1, <2>2 DEF FailedUpdateUndone, Counted
  <2>4. PlanSound'
    BY <1>1, <2>1, <2>2 DEF PlanSound, Active, IsMihomo, SamePlan
  <2>5. StoreSound'
    BY <1>1, <2>2 DEF StoreSound, Active, IsMihomo, SamePlan, AsBefore, Installed, store
  <2>6. StopSound'
    BY <2>1, <2>2 DEF StopSound, Active, IsMihomo, Quiescent
  <2>7. QED
    BY <1>2, <2>1, <2>2, <2>3, <2>4, <2>5, <2>6, Assembled
<1>4. CASE StopOK /\ End("failed")
  <2>1. CoreTyped' /\ CoreSound' /\ BuildsKept' /\ UNCHANGED faults
    BY <1>1, <1>4, Stops DEF StopOK
  <2>2. Counted' /\ tx.pc \in AsBefore /\ UNCHANGED <<ptr, mihomo>>
    BY <1>1, <2>1 DEF Counted, AsBefore, store
  <2>3. QED
    BY <1>2, <1>4, <2>1, <2>2, GivesUp, Assembled
<1>5. CASE StopError /\ EndUnclean("failed")
  <2>1. CoreTyped' /\ CoreSound' /\ BuildsKept' /\ Counted'
    BY <1>1, <1>5, StopsBadly, FaultCounted DEF StopError
  <2>2. QED
    BY <1>2, <1>5, <2>1, GivesUpUnclean, Assembled
<1>6. QED
  BY <1>3, <1>4, <1>5 DEF StopForUpdate

LEMMA TimesOutKeeps == ASSUME EngInv, TimesOut PROVE EngInv'
<1>1. /\ tx.pc = "publish" /\ Fault /\ UNCHANGED <<store, mgr, sel, coreVars, updates>>
      /\ (IF tx.was /\ mgr = "up" THEN Goto("restart") ELSE End("failed"))
  BY DEF TimesOut, At
<1>2. tx' \in Transactions /\ FailedUpdateUndone' /\ PlanSound' /\ StoreSound' /\ StopSound'
  BY <1>1, TurnsBack, GivesUp DEF AsBefore, store
<1>3. QED
  BY <1>1, <1>2, Bookkeeping

-----------------------------------------------------------------------------
(* Publishing a sing-box build.                                            *)

LEMMA NotPublishedKeeps ==
    ASSUME EngInv, tx.pc \in {"publish", "point"}, NotPublished, UNCHANGED <<ptr, mihomo, mgr, sel, coreVars>>,
           Fault \/ UNCHANGED faults
    PROVE  tx' \in Transactions /\ FailedUpdateUndone' /\ PlanSound' /\ StoreSound' /\ StopSound'
BY TurnsBack, GivesUp DEF NotPublished, AsBefore

\* A version that was not there is added: nothing pointed at or run was in its place.
LEMMA DirectoryAdded ==
    ASSUME StoreTyped, BuildsKept, CoreSound, NEW n \in Numbers, dirs[n] = NoManifest, NEW m \in Manifests,
           dirs' = [dirs EXCEPT ![n] = m], UNCHANGED <<ptr, mihomo, coreVars>>
    PROVE  StoreTyped' /\ BuildsKept' /\ dirs'[n] = m
<1>1. StoreTyped' /\ dirs'[n] = m
  BY DEF StoreTyped
<1>2. \A x \in Manifests : Resolves(x) => Resolves(x)'
  BY ManifestFacts DEF Resolves, StoreTyped, Numbers
<1>3. PointerResolves'
  BY <1>2 DEF BuildsKept, PointerResolves, StoreTyped
<1>4. LiveBuildKept'
  <2>1. proc.engine = "sing-box" => proc.build \in Builds
    BY DEF CoreSound, BuildsOf, Engines
  <2>2. \A b \in Builds : [build |-> b, source |-> "official"] \in Manifests /\ [build |-> b, source |-> "custom"] \in Manifests
    BY DEF Manifests
  <2>3. QED
    BY <1>2, <2>1, <2>2 DEF BuildsKept, LiveBuildKept, coreVars
<1>5. RunningIsInstalled'
  BY DEF BuildsKept, RunningIsInstalled, Installed, coreVars
<1>6. QED
  BY <1>1, <1>3, <1>4, <1>5 DEF BuildsKept

\* From the directory to the pointer.
LEMMA PointNext ==
    ASSUME EngInv, tx.pc = "publish", ~IsMihomo, tx' \in Transactions, tx'.pc = "point", SamePlan, tx'.calm = tx.calm,
           tx'.staged \in Manifests, tx'.staged.build = tx.build, dirs'[Version[tx.build]] = tx'.staged,
           UNCHANGED <<ptr, mihomo, mgr, sel, coreVars, faults>>
    PROVE  FailedUpdateUndone' /\ PlanSound' /\ StoreSound' /\ StopSound'
<1>1. PlanSound /\ StoreSound /\ StopSound
  BY InvParts
<1>2. FailedUpdateUndone'
  BY DEF FailedUpdateUndone
<1>3. PlanSound'
  BY <1>1 DEF PlanSound, Active, IsMihomo, SamePlan
<1>4. StoreSound'
  BY <1>1 DEF StoreSound, Active, IsMihomo, SamePlan, AsBefore, Installed
<1>5. StopSound'
  BY <1>1 DEF StopSound, Active, IsMihomo, SamePlan, Quiescent, coreVars
<1>6. QED
  BY <1>2, <1>3, <1>4, <1>5

LEMMA PublishDirectoryKeeps == ASSUME EngInv, PublishDirectory PROVE EngInv'
<1> DEFINE n == Version[tx.build]
<1>1. /\ tx.pc = "publish" /\ tx.engine = "sing-box" /\ ~IsMihomo
      /\ UNCHANGED <<ptr, mihomo, mgr, sel, coreVars, updates>>
      /\ StoreTyped /\ CoreTyped /\ Counted /\ tx \in Transactions /\ BuildsKept /\ CoreSound /\ PlanSound
  BY InvParts DEF PublishDirectory, At, IsMihomo
<1>2. tx.build \in Builds /\ n \in Numbers /\ tx.staged \in Manifests /\ tx.staged.build = tx.build
  BY <1>1 DEF PlanSound, Active, IsMihomo, BuildsOf, Numbers
<1>3. CoreTyped' /\ CoreSound'
  BY <1>1 DEF CoreTyped, CoreSound, coreVars
<1>4. CASE dirs[n] = NoManifest /\ dirs' = [dirs EXCEPT ![n] = tx.staged]
           /\ ((Goto("point") /\ UNCHANGED faults) \/ (Fault /\ NotPublished))
  <2>1. StoreTyped' /\ BuildsKept' /\ dirs'[n] = tx.staged
    BY <1>1, <1>2, <1>4, DirectoryAdded
  <2>2. Counted'
    BY <1>1, <1>4, FaultCounted
  <2>3. tx' \in Transactions /\ FailedUpdateUndone' /\ PlanSound' /\ StoreSound' /\ StopSound'
    <3>1. CASE Goto("point") /\ UNCHANGED faults
      <4>1. tx' \in Transactions /\ tx'.pc = "point" /\ SamePlan /\ tx'.calm = tx.calm /\ tx'.staged = tx.staged
        BY <1>1, <3>1, Going DEF TxPcs
      <4>2. QED
        BY <1>1, <1>2, <2>1, <3>1, <4>1, PointNext
    <3>2. CASE Fault /\ NotPublished
      BY <1>1, <3>2, NotPublishedKeeps
    <3>3. QED
      BY <1>4, <3>1, <3>2
  <2>4. QED
    BY <1>3, <2>1, <2>2, <2>3, Assembled
<1>5. CASE dirs[n].build = tx.build /\ tx' = [tx EXCEPT !.pc = "point", !.staged = dirs[n]] /\ UNCHANGED <<dirs, faults>>
  <2>1. dirs[n] \in Manifests
    BY <1>1, <1>2, <1>5, ManifestFacts, NoneAssumption DEF StoreTyped
  <2>2. tx' \in Transactions /\ tx'.pc = "point" /\ SamePlan /\ tx'.calm = tx.calm /\ tx'.staged = dirs[n]
    BY <1>1, <1>5, <2>1 DEF Transactions, TxPcs, SamePlan
  <2>3. FailedUpdateUndone' /\ PlanSound' /\ StoreSound' /\ StopSound'
    BY <1>1, <1>5, <2>1, <2>2, PointNext
  <2>4. QED
    BY <1>1, <1>5, <2>2, <2>3, Bookkeeping DEF store
<1>6. CASE NotPublished /\ UNCHANGED dirs /\ (Fault \/ UNCHANGED faults)
  BY <1>1, <1>6, NotPublishedKeeps, Bookkeeping DEF store
<1>7. QED
  BY <1>4, <1>5, <1>6 DEF PublishDirectory

\* The pointer that is written names a build whose directory is complete.
PointedTo == IF ptr.cur.build = tx.build THEN ptr ELSE [cur |-> tx.staged, prev |-> ptr.cur]

LEMMA PointerWritten ==
    ASSUME EngInv, tx.pc = "point", ptr' = PointedTo, UNCHANGED <<dirs, mihomo, mgr, sel, coreVars>>
    PROVE  /\ StoreTyped' /\ CoreTyped' /\ CoreSound' /\ BuildsKept' /\ ptr'.cur = tx.staged
           /\ ~tx.cli => ptr'.prev.build = tx.before
<1>1. /\ StoreTyped /\ CoreTyped /\ BuildsKept /\ CoreSound /\ PlanSound /\ StoreSound /\ StopSound
  BY InvParts
<1>2. /\ ~IsMihomo /\ tx.engine = "sing-box" /\ tx.build \in Builds /\ tx.staged \in Manifests
      /\ tx.staged.build = tx.build
      /\ dirs[Version[tx.build]] = tx.staged /\ ptr.cur.build = tx.before
      /\ ~(life = "running" /\ proc.engine = "sing-box")
      /\ ~tx.cli /\ tx.before # None => Version[tx.before] < Version[tx.build]
  BY <1>1 DEF PlanSound, StoreSound, StopSound, Active, IsMihomo, Engines, BuildsOf, AsBefore, Quiescent, Installed
<1>3. ptr.cur.build = tx.build => ptr.cur = tx.staged
  BY <1>1, <1>2, ManifestFacts DEF BuildsKept, PointerResolves, Resolves, StoreTyped
<1>4. ptr'.cur = tx.staged /\ (ptr.cur.build # tx.build => ptr'.prev = ptr.cur)
      /\ (ptr.cur.build = tx.build => ptr' = ptr)
  BY <1>3 DEF PointedTo
<1>5. StoreTyped' /\ CoreTyped' /\ CoreSound'
  BY <1>1, <1>2 DEF StoreTyped, CoreTyped, CoreSound, PointedTo, coreVars
<1>6. BuildsKept'
  <2>1. PointerResolves'
    BY <1>1, <1>2, <1>4 DEF BuildsKept, PointerResolves, Resolves
  <2>2. LiveBuildKept'
    BY <1>1 DEF BuildsKept, LiveBuildKept, Resolves, coreVars
  <2>3. RunningIsInstalled'
    BY <1>1, <1>2 DEF BuildsKept, RunningIsInstalled, CoreSound, CoreTyped, Installed, Engines, coreVars
  <2>4. QED
    BY <2>1, <2>2, <2>3 DEF BuildsKept
<1>7. ~tx.cli => ptr'.prev.build = tx.before
  BY <1>2, <1>4, VersionAssumption, NoneAssumption
<1>8. QED
  BY <1>4, <1>5, <1>6, <1>7

LEMMA PublishPointerKeeps == ASSUME EngInv, PublishPointer PROVE EngInv'
<1>1. /\ tx.pc = "point" /\ ptr' = PointedTo /\ UNCHANGED <<dirs, mihomo, mgr, sel, coreVars, faults, updates>>
      /\ tx' = [tx EXCEPT !.published = tx.staged, !.pc = Activated, !.out = "ok"]
      /\ Counted /\ tx \in Transactions /\ PlanSound /\ StopSound
  BY InvParts DEF PublishPointer, At, PointedTo
<1>2. /\ StoreTyped' /\ CoreTyped' /\ CoreSound' /\ BuildsKept' /\ ptr'.cur = tx.staged
      /\ ~tx.cli => ptr'.prev.build = tx.before
  BY <1>1, PointerWritten
<1>3. Counted'
  BY <1>1 DEF Counted
<1>4. /\ tx' \in Transactions /\ SamePlan /\ tx'.calm = tx.calm /\ tx'.staged = tx.staged /\ tx'.published = tx.staged
      /\ tx'.out = "ok" /\ tx'.pc = (IF tx.was THEN "start" ELSE "idle")
  BY <1>1 DEF Transactions, TxPcs, Activated, SamePlan
<1>5. CASE ~tx.was
  BY <1>2, <1>3, <1>4, <1>5, Finished, Assembled
<1>6. CASE tx.was
  <2>1. tx'.pc = "start" /\ ~tx.cli /\ ~IsMihomo
    BY <1>1, <1>4, <1>6 DEF PlanSound, Active
  <2>2. FailedUpdateUndone'
    BY <2>1 DEF FailedUpdateUndone
  <2>3. PlanSound'
    BY <1>1, <1>4, <1>6, <2>1 DEF PlanSound, Active, IsMihomo, SamePlan
  <2>4. StoreSound'
    BY <1>2, <1>4, <2>1 DEF StoreSound, Active, IsMihomo, SamePlan, AsBefore
  <2>5. StopSound'
    BY <1>1, <1>4, <2>1 DEF StopSound, Active, IsMihomo, SamePlan, Quiescent, coreVars
  <2>6. QED
    BY <1>2, <1>3, <1>4, <2>2, <2>3, <2>4, <2>5, Assembled
<1>7. QED
  BY <1>5, <1>6

\* The pointer may be the new one although the caller is told that it is not.
LEMMA PublishPointerFailsKeeps == ASSUME EngInv, PublishPointerFails PROVE EngInv'
<1>1. /\ tx.pc = "point" /\ Fault /\ UNCHANGED <<dirs, mihomo, mgr, sel, coreVars, updates>>
      /\ Counted /\ tx \in Transactions /\ PlanSound /\ StopSound
  BY InvParts DEF PublishPointerFails, At
<1>2. CASE UNCHANGED ptr /\ NotPublished
  BY <1>1, <1>2, NotPublishedKeeps, Bookkeeping DEF store
<1>3. CASE ptr' = PointedTo
           /\ tx' = [tx EXCEPT !.pc = IF tx.was THEN "restart" ELSE "idle", !.out = "failed", !.calm = FALSE]
  <2>1. StoreTyped' /\ CoreTyped' /\ CoreSound' /\ BuildsKept'
    BY <1>1, <1>3, PointerWritten
  <2>2. Counted' /\ faults' = faults + 1 /\ faults \in Nat /\ tx.f0 \in Nat
    BY <1>1, FaultCounted, TxFields, EngBoundAssumption DEF Counted
  <2>3. /\ tx' \in Transactions /\ SamePlan /\ tx'.calm = FALSE /\ tx'.staged = tx.staged
        /\ tx'.pc = (IF tx.was THEN "restart" ELSE "idle")
    <3> DEFINE pc == IF tx.was THEN "restart" ELSE "idle"
    <3>1. pc \in TxPcs /\ tx' = [tx EXCEPT !.pc = pc, !.out = "failed", !.calm = FALSE]
      BY <1>3 DEF TxPcs
    <3> HIDE DEF pc
    <3>2. tx' \in Transactions
      BY <1>1, <3>1 DEF Transactions
    <3>3. SamePlan /\ tx'.calm = FALSE /\ tx'.staged = tx.staged /\ tx'.pc = pc
      BY <1>1, <3>1 DEF Transactions, SamePlan
    <3>4. QED
      BY <3>2, <3>3 DEF pc
  <2>4. CASE ~tx.was
    BY <2>1, <2>2, <2>3, <2>4, Finished, Assembled
  <2>5. CASE tx.was
    <3>1. tx'.pc = "restart" /\ ~tx.cli /\ ~IsMihomo /\ tx.f0 <= faults
      BY <1>1, <2>3, <2>5 DEF PlanSound, Active
    <3>2. FailedUpdateUndone'
      BY <3>1 DEF FailedUpdateUndone
    <3>3. PlanSound'
      <4>1. tx.f0 <= faults' /\ tx.f0 < faults'
        BY <2>2, <3>1
      <4>2. QED
        BY <1>1, <2>3, <2>5, <3>1, <4>1 DEF PlanSound, Active, IsMihomo, SamePlan
    <3>4. StoreSound'
      BY <2>3, <3>1 DEF StoreSound, Active, IsMihomo, SamePlan
    <3>5. StopSound'
      <4>1. faults' # tx.f0
        BY <2>2, <3>1
      <4>2. QED
        BY <1>1, <2>3, <3>1, <4>1 DEF StopSound, Active, IsMihomo, SamePlan, Quiescent, coreVars
    <3>6. QED
      BY <2>1, <2>2, <2>3, <3>2, <3>3, <3>4, <3>5, Assembled
  <2>6. QED
    BY <2>4, <2>5
<1>4. QED
  BY <1>2, <1>3 DEF PublishPointerFails, PointedTo

-----------------------------------------------------------------------------
(* Swapping the Mihomo file.                                               *)

\* Another file in its place does not concern a core that is not running it.
LEMMA FileSwapped ==
    ASSUME EngInv, ~(life = "running" /\ proc.engine = "mihomo"), NEW c \in Tags \union {None}, NEW q \in Tags \union {None},
           mihomo' = [cur |-> c, prev |-> q], UNCHANGED <<dirs, ptr, mgr, sel, coreVars>>
    PROVE  StoreTyped' /\ CoreTyped' /\ CoreSound' /\ BuildsKept' /\ mihomo'.cur = c /\ mihomo'.prev = q
<1>1. StoreTyped /\ CoreTyped /\ BuildsKept /\ CoreSound
  BY InvParts
<1>2. StoreTyped' /\ CoreTyped' /\ CoreSound'
  BY <1>1 DEF StoreTyped, CoreTyped, CoreSound, coreVars
<1>3. PointerResolves' /\ LiveBuildKept'
  BY <1>1 DEF BuildsKept, PointerResolves, LiveBuildKept, Resolves, coreVars
<1>4. RunningIsInstalled'
  BY <1>1 DEF BuildsKept, RunningIsInstalled, Installed, CoreSound, CoreTyped, Engines, coreVars
<1>5. QED
  BY <1>2, <1>3, <1>4 DEF BuildsKept

LEMMA SwapMihomoKeeps == ASSUME EngInv, SwapMihomo PROVE EngInv'
<1> DEFINE pc == IF mgr # "up" THEN "undoStop" ELSE IF tx.was THEN "start" ELSE "verify"
           q == IF tx.had THEN mihomo.cur ELSE mihomo.prev
<1>1. /\ tx.pc = "publish" /\ tx.engine = "mihomo" /\ mihomo' = [cur |-> tx.build, prev |-> q] /\ Goto(pc)
      /\ UNCHANGED <<dirs, ptr, mgr, sel, coreVars, faults, updates>>
      /\ StoreTyped /\ Counted /\ tx \in Transactions /\ PlanSound /\ StoreSound /\ StopSound
  BY InvParts DEF SwapMihomo, At
<1>2. /\ ~(life = "running" /\ proc.engine = "mihomo") /\ tx.build \in Tags /\ ~tx.cli
      /\ q \in Tags \union {None} /\ mihomo.cur = tx.before
  BY <1>1 DEF PlanSound, StoreSound, StopSound, Active, IsMihomo, BuildsOf, Quiescent, AsBefore, Installed, StoreTyped
<1>3. StoreTyped' /\ CoreTyped' /\ CoreSound' /\ BuildsKept' /\ mihomo'.prev = q
  <2> HIDE DEF q
  <2> QED
    BY <1>1, <1>2, FileSwapped
<1>4. Counted'
  BY <1>1 DEF Counted
<1>5. /\ tx' \in Transactions /\ tx'.pc = pc /\ SamePlan /\ tx'.calm = tx.calm
      /\ pc \in {"undoStop", "start", "verify"}
  <2>1. pc \in TxPcs /\ pc \in {"undoStop", "start", "verify"}
    BY DEF TxPcs
  <2> HIDE DEF pc
  <2>2. QED
    BY <1>1, <2>1, Going
<1>6. FailedUpdateUndone'
  BY <1>5 DEF FailedUpdateUndone
<1>7. PlanSound'
  <2> HIDE DEF pc
  <2> QED
    BY <1>1, <1>5 DEF PlanSound, Active, IsMihomo, SamePlan
<1>8. StoreSound'
  <2>1. tx.had => q = tx.before
    BY <1>2
  <2> HIDE DEF pc, q
  <2>2. QED
    BY <1>1, <1>3, <1>5, <2>1 DEF StoreSound, Active, IsMihomo, SamePlan, AsBefore
<1>9. StopSound'
  <2>1. tx.was => pc # "verify"
    OBVIOUS
  <2> HIDE DEF pc
  <2>2. QED
    BY <1>1, <1>5, <2>1 DEF StopSound, Active, IsMihomo, SamePlan, Quiescent, coreVars
<1>10. QED
  BY <1>3, <1>4, <1>5, <1>6, <1>7, <1>8, <1>9, Assembled

LEMMA SwapMihomoFailsKeeps == ASSUME EngInv, SwapMihomoFails PROVE EngInv'
<1>1. /\ tx.pc = "publish" /\ tx.engine = "mihomo" /\ Fault /\ UNCHANGED <<dirs, ptr, mgr, sel, coreVars, updates>>
      /\ StoreTyped /\ Counted /\ tx \in Transactions /\ PlanSound /\ StoreSound /\ StopSound
  BY InvParts DEF SwapMihomoFails, At
<1>2. /\ ~(life = "running" /\ proc.engine = "mihomo") /\ tx.build \in Tags /\ mihomo.cur \in Tags \union {None}
      /\ mihomo.prev \in Tags \union {None} /\ mihomo = [cur |-> mihomo.cur, prev |-> mihomo.prev]
  BY <1>1 DEF PlanSound, StopSound, Active, IsMihomo, BuildsOf, Quiescent, StoreTyped
<1>3. Counted'
  BY <1>1, FaultCounted
<1>4. CASE mihomo' \in {mihomo, [mihomo EXCEPT !.prev = None]} /\ (IF tx.was /\ mgr = "up" THEN Goto("restart") ELSE End("failed"))
  <2>1. PICK q \in {None, mihomo.prev} : mihomo' = [cur |-> mihomo.cur, prev |-> q]
    BY <1>1, <1>2, <1>4 DEF StoreTyped
  <2>2. StoreTyped' /\ CoreTyped' /\ CoreSound' /\ BuildsKept' /\ mihomo'.cur = mihomo.cur
    BY <1>1, <1>2, <2>1, FileSwapped
  <2>3. tx' \in Transactions /\ tx'.pc \in {"restart", "idle"} /\ SamePlan /\ tx'.calm = tx.calm
        /\ (tx'.pc = "restart" => tx.was)
    BY <1>1, <1>4, Going, Ending DEF TxPcs
  <2>4. tx.calm => (Installed(tx.engine) = tx.before)'
    BY <1>1, <2>2, <2>3 DEF StoreSound, Active, AsBefore, SamePlan, Installed
  <2>5. CASE tx'.pc = "idle"
    BY <1>3, <2>2, <2>3, <2>4, <2>5, Finished, Assembled
  <2>6. CASE tx'.pc = "restart"
    <3>1. FailedUpdateUndone'
      BY <2>6 DEF FailedUpdateUndone
    <3>2. tx.f0 <= faults => tx.f0 <= faults' /\ tx.f0 < faults' /\ faults' # tx.f0
      BY <1>1, TxFields DEF Counted, Fault
    <3>3. PlanSound'
      BY <1>1, <2>3, <2>6, <3>2 DEF PlanSound, Active, IsMihomo, SamePlan
    <3>4. StoreSound'
      BY <1>1, <2>3, <2>4, <2>6 DEF StoreSound, Active, IsMihomo, SamePlan, AsBefore
    <3>5. StopSound'
      BY <1>1, <2>3, <2>6, <3>2 DEF StopSound, PlanSound, Active, IsMihomo, SamePlan, Quiescent, coreVars
    <3>6. QED
      BY <1>3, <2>2, <2>3, <3>1, <3>3, <3>4, <3>5, Assembled
  <2>7. QED
    BY <2>3, <2>5, <2>6
<1>5. CASE mihomo' \in HalfSwapped /\ EndUnclean("failed")
  <2>1. PICK c \in {None, tx.build, mihomo.cur}, q \in {None, mihomo.cur, mihomo.prev} : mihomo' = [cur |-> c, prev |-> q]
    BY <1>1, <1>2, <1>5 DEF HalfSwapped, StoreTyped
  <2>2. StoreTyped' /\ CoreTyped' /\ CoreSound' /\ BuildsKept'
    BY <1>1, <1>2, <2>1, FileSwapped
  <2>3. QED
    BY <1>3, <1>5, <2>2, GivesUpUnclean, Assembled
<1>6. QED
  BY <1>4, <1>5 DEF SwapMihomoFails

-----------------------------------------------------------------------------
(* Starting the new build and undoing it.                                  *)

\* The published build stays in place while its core is started, verified and stopped.
LEMMA Proceeds ==
    ASSUME EngInv, tx.pc \in {"start", "verify", "undoStop"}, NEW pc \in {"verify", "undoStop", "undo"}, Goto(pc),
           pc = "verify" => IsMihomo, UNCHANGED <<store, mgr, sel, updates>>, Fault \/ UNCHANGED faults
    PROVE  /\ tx' \in Transactions /\ tx'.pc = pc /\ SamePlan /\ FailedUpdateUndone' /\ PlanSound' /\ StoreSound'
           /\ StoreTyped' /\ Counted'
<1>1. StoreTyped /\ tx \in Transactions /\ PlanSound /\ StoreSound /\ Counted
  BY InvParts
<1>2. tx' \in Transactions /\ tx'.pc = pc /\ SamePlan /\ tx'.calm = tx.calm /\ tx'.staged = tx.staged
      /\ tx'.published = tx.published
  BY <1>1, Going DEF TxPcs
<1>3. FailedUpdateUndone'
  BY <1>2 DEF FailedUpdateUndone
<1>4. tx.f0 <= faults => tx.f0 <= faults'
  BY <1>1, TxFields DEF Counted, Fault
<1>5. PlanSound'
  BY <1>1, <1>2, <1>4 DEF PlanSound, Active, IsMihomo, SamePlan
<1>6. StoreSound'
  BY <1>1, <1>2 DEF StoreSound, PlanSound, Active, IsMihomo, SamePlan, AsBefore, store
<1>7. StoreTyped' /\ Counted'
  BY <1>1, FaultCounted DEF StoreTyped, store
<1>8. QED
  BY <1>2, <1>3, <1>5, <1>6, <1>7

LEMMA StartUpdatedKeeps == ASSUME EngInv, StartUpdated PROVE EngInv'
<1>1. /\ tx.pc = "start" /\ UNCHANGED <<store, mgr, sel, updates>> /\ mgr # "off"
      /\ StoreTyped /\ CoreTyped /\ Counted /\ BuildsKept /\ CoreSound
  BY InvParts, ManagerThere DEF StartUpdated, At, TxPcs
<1>2. CASE StartOK /\ IsMihomo /\ Goto("verify")
  <2>1. CoreTyped' /\ CoreSound' /\ BuildsKept' /\ life' = "running" /\ UNCHANGED faults
    BY <1>1, <1>2, Starts DEF StartOK
  <2>2. /\ tx' \in Transactions /\ tx'.pc = "verify" /\ SamePlan /\ FailedUpdateUndone' /\ PlanSound' /\ StoreSound'
        /\ StoreTyped' /\ Counted'
    BY <1>1, <1>2, <2>1, Proceeds
  <2>3. StopSound'
    BY <2>1, <2>2 DEF StopSound, Active, Quiescent
  <2>4. QED
    BY <2>1, <2>2, <2>3, Assembled
<1>3. CASE StartOK /\ End("ok")
  <2>1. CoreTyped' /\ CoreSound' /\ BuildsKept' /\ UNCHANGED faults
    BY <1>1, <1>3, Starts DEF StartOK
  <2>2. StoreTyped' /\ Counted'
    BY <1>1, <2>1 DEF StoreTyped, Counted, store
  <2>3. QED
    BY <1>3, <2>1, <2>2, Succeeds, Assembled
<1>4. CASE StartError /\ Goto("undoStop")
  <2>1. CoreTyped' /\ CoreSound' /\ BuildsKept' /\ (Fault \/ UNCHANGED faults)
    BY <1>1, <1>4, StartsBadly
  <2>2. /\ tx' \in Transactions /\ tx'.pc = "undoStop" /\ FailedUpdateUndone' /\ PlanSound' /\ StoreSound'
        /\ StoreTyped' /\ Counted'
    BY <1>1, <1>4, <2>1, Proceeds
  <2>3. StopSound'
    BY <2>2 DEF StopSound, Active, Quiescent
  <2>4. QED
    BY <2>1, <2>2, <2>3, Assembled
<1>5. QED
  BY <1>2, <1>3, <1>4 DEF StartUpdated, IsMihomo

LEMMA VerifyMihomoKeeps == ASSUME EngInv, VerifyMihomo PROVE EngInv'
<1>1. tx.pc = "verify" /\ UNCHANGED <<store, mgr, sel, coreVars, updates>> /\ (Fault \/ UNCHANGED faults)
      /\ (End("ok") \/ Goto("undoStop"))
  BY DEF VerifyMihomo, At
<1>2. CASE End("ok")
  BY <1>1, <1>2, Succeeds, Bookkeeping
<1>3. CASE Goto("undoStop")
  <2>1. tx' \in Transactions /\ tx'.pc = "undoStop" /\ FailedUpdateUndone' /\ PlanSound' /\ StoreSound'
    BY <1>1, <1>3, Proceeds
  <2>2. StopSound'
    BY <2>1 DEF StopSound, Active, Quiescent
  <2>3. QED
    BY <1>1, <2>1, <2>2, Bookkeeping
<1>4. QED
  BY <1>1, <1>2, <1>3

LEMMA UndoStopKeeps == ASSUME EngInv, UndoStop PROVE EngInv'
<1>1. /\ tx.pc = "undoStop" /\ UNCHANGED <<store, mgr, sel, updates>> /\ mgr # "off"
      /\ StoreTyped /\ CoreTyped /\ Counted /\ tx \in Transactions /\ BuildsKept /\ CoreSound /\ PlanSound
      /\ StoreSound
  BY InvParts, ManagerThere DEF UndoStop, At, TxPcs
<1>2. CASE StopOK /\ Goto("undo")
  <2>1. CoreTyped' /\ CoreSound' /\ BuildsKept' /\ life' = "stopped" /\ proc' = NoProc /\ UNCHANGED faults
    BY <1>1, <1>2, Stops DEF StopOK
  <2>2. /\ tx' \in Transactions /\ tx'.pc = "undo" /\ FailedUpdateUndone' /\ PlanSound' /\ StoreSound'
        /\ StoreTyped' /\ Counted'
    BY <1>1, <1>2, <2>1, Proceeds
  <2>3. StopSound'
    BY <2>1, <2>2 DEF StopSound, Active
  <2>4. QED
    BY <2>1, <2>2, <2>3, Assembled
<1>3. CASE StopError /\ tx.engine = "mihomo" /\ tx' = [tx EXCEPT !.pc = "undo", !.calm = FALSE]
  <2>1. CoreTyped' /\ CoreSound' /\ BuildsKept' /\ life' = "failed" /\ Counted' /\ StoreTyped'
    BY <1>1, <1>3, StopsBadly, FaultCounted DEF StopError, StoreTyped, store
  <2>2. tx' \in Transactions /\ tx'.pc = "undo" /\ SamePlan /\ tx'.calm = FALSE
    BY <1>1, <1>3 DEF Transactions, TxPcs, SamePlan
  <2>3. FailedUpdateUndone'
    BY <2>2 DEF FailedUpdateUndone
  <2>4. tx.f0 <= faults => tx.f0 <= faults' /\ tx.f0 < faults' /\ faults' # tx.f0
    BY <1>1, <1>3, TxFields DEF Counted, StopError, Fault
  <2>5. PlanSound'
    BY <1>1, <1>3, <2>2, <2>4 DEF PlanSound, Active, IsMihomo, SamePlan
  <2>6. StoreSound'
    BY <1>1, <1>3, <2>2 DEF StoreSound, Active, IsMihomo, SamePlan, AsBefore, store
  <2>7. StopSound'
    BY <1>1, <1>3, <2>1, <2>2, <2>4 DEF StopSound, PlanSound, Active, IsMihomo, SamePlan
  <2>8. QED
    BY <2>1, <2>2, <2>3, <2>5, <2>6, <2>7, Assembled
<1>4. CASE StopError /\ EndUnclean("failed")
  <2>1. CoreTyped' /\ CoreSound' /\ BuildsKept' /\ Counted' /\ StoreTyped'
    BY <1>1, <1>4, StopsBadly, FaultCounted DEF StopError, StoreTyped, store
  <2>2. QED
    BY <1>4, <2>1, GivesUpUnclean, Assembled
<1>5. QED
  BY <1>2, <1>3, <1>4 DEF UndoStop

\* The previous build and its directory are there again to be pointed at.
LEMMA PointerRestored ==
    ASSUME EngInv, tx.pc = "undo", tx.engine = "sing-box", Resolves(ptr.prev),
           ptr' = [cur |-> ptr.prev, prev |-> NoManifest], UNCHANGED <<dirs, mihomo, mgr, sel, coreVars>>
    PROVE  /\ StoreTyped' /\ CoreTyped' /\ CoreSound' /\ BuildsKept'
           /\ ptr'.cur = ptr.prev /\ ptr'.prev = NoManifest
<1>1. StoreTyped /\ CoreTyped /\ tx \in Transactions /\ BuildsKept /\ CoreSound /\ StopSound
  BY InvParts
<1>2. proc = NoProc
  BY <1>1 DEF StopSound, Active, IsMihomo
<1>3. /\ ptr'.cur = ptr.prev /\ ptr'.prev = NoManifest
      /\ ptr' \in [cur : Manifests \union {NoManifest}, prev : Manifests \union {NoManifest}]
  BY <1>1 DEF StoreTyped
<1>4. StoreTyped' /\ CoreTyped' /\ CoreSound'
  BY <1>1, <1>3 DEF StoreTyped, CoreTyped, CoreSound, coreVars
<1>5. PointerResolves'
  BY <1>1, <1>3 DEF BuildsKept, PointerResolves, Resolves
<1>6. LiveBuildKept'
  BY <1>1 DEF BuildsKept, LiveBuildKept, Resolves, coreVars
<1>7. RunningIsInstalled'
  BY <1>1, <1>2, GoneFacts DEF RunningIsInstalled, CoreSound, CoreTyped, Engines, coreVars
<1>8. QED
  BY <1>3, <1>4, <1>5, <1>6, <1>7 DEF BuildsKept

LEMMA RevertPointerKeeps == ASSUME EngInv, RevertPointer PROVE EngInv'
<1>1. /\ tx.pc = "undo" /\ tx.engine = "sing-box" /\ UNCHANGED <<dirs, mihomo, mgr, sel, coreVars, updates>>
      /\ StoreTyped /\ CoreTyped /\ Counted /\ tx \in Transactions /\ BuildsKept /\ CoreSound /\ PlanSound
      /\ StoreSound
      /\ StopSound
  BY InvParts DEF RevertPointer, At
<1>2. CASE Resolves(ptr.prev) /\ ptr' = [cur |-> ptr.prev, prev |-> NoManifest] /\ Goto("remove") /\ UNCHANGED faults
  <2>1. ~IsMihomo /\ tx.published = tx.staged /\ ptr.prev.build = tx.before /\ proc = NoProc
    BY <1>1 DEF StoreSound, StopSound, Active, IsMihomo
  <2>2. ptr'.cur = ptr.prev /\ ptr'.prev = NoManifest
    BY <1>1, <1>2, PointerRestored
  <2>3. StoreTyped' /\ CoreTyped' /\ Counted' /\ CoreSound'
    BY <1>1, <1>2, PointerRestored DEF Counted
  <2>4. BuildsKept'
    BY <1>1, <1>2, PointerRestored
  <2>5. /\ tx' \in Transactions /\ tx'.pc = "remove" /\ SamePlan /\ tx'.calm = tx.calm /\ tx'.staged = tx.staged
        /\ tx'.published = tx.published
    BY <1>1, <1>2, Going DEF TxPcs
  <2>6. FailedUpdateUndone'
    BY <2>5 DEF FailedUpdateUndone
  <2>7. tx.calm /\ PlanSound'
    <3>1. tx.calm
      BY <1>1, <2>1 DEF PlanSound, Active
    <3>2. QED
      BY <1>1, <1>2, <2>1, <2>5, <3>1 DEF PlanSound, Active, IsMihomo, SamePlan
  <2>8. StoreSound'
    BY <1>1, <2>1, <2>2, <2>5 DEF StoreSound, Active, IsMihomo, SamePlan, Installed
  <2>9. StopSound'
    <3>1. proc' = NoProc /\ proc'.engine # tx'.engine
      BY <1>1, <2>1, <2>5, GoneFacts DEF SamePlan, coreVars
    <3>2. QED
      BY <2>5, <3>1 DEF StopSound, Active
  <2>10. QED
    BY <2>3, <2>4, <2>5, <2>6, <2>7, <2>8, <2>9, Assembled
<1>3. CASE UNCHANGED ptr /\ (Fault \/ UNCHANGED faults) /\ EndUnclean("failed")
  BY <1>1, <1>3, GivesUpUnclean, Bookkeeping DEF store
<1>4. CASE /\ Resolves(ptr.prev) /\ ptr' = [cur |-> ptr.prev, prev |-> NoManifest]
           /\ Fault /\ EndUnclean("failed")
  <2>1. StoreTyped' /\ CoreTyped' /\ CoreSound' /\ BuildsKept' /\ Counted'
    BY <1>1, <1>4, PointerRestored, FaultCounted
  <2>2. QED
    BY <1>4, <2>1, GivesUpUnclean, Assembled
<1>5. QED
  BY <1>2, <1>3, <1>4 DEF RevertPointer

LEMMA RemoveRevertedKeeps == ASSUME EngInv, RemoveReverted PROVE EngInv'
<1>1. /\ tx.pc = "remove" /\ UNCHANGED <<ptr, mihomo, mgr, sel, coreVars, updates>>
      /\ StoreTyped /\ CoreTyped /\ Counted /\ BuildsKept /\ CoreSound
  BY InvParts DEF RemoveReverted, At
<1>2. \A m \in {NoManifest, Half} : dirs' = [dirs EXCEPT ![Version[tx.published.build]] = m] =>
          StoreTyped' /\ CoreTyped' /\ BuildsKept' /\ CoreSound'
  <2> SUFFICES ASSUME NEW m \in {NoManifest, Half}, dirs' = [dirs EXCEPT ![Version[tx.published.build]] = m]
               PROVE  StoreTyped' /\ CoreTyped' /\ BuildsKept' /\ CoreSound'
    OBVIOUS
  <2>1. dirs' \in [Numbers -> Manifests \union {NoManifest, Half}] /\ PointerResolves'
    BY <1>1, DirectoryGoes
  <2>2. StoreTyped' /\ CoreTyped' /\ CoreSound'
    BY <1>1, <2>1 DEF StoreTyped, CoreTyped, CoreSound, coreVars
  <2>3. LiveBuildKept' /\ RunningIsInstalled'
    BY <1>1, RemovedUnused, GoneFacts DEF LiveBuildKept, BuildsKept, RunningIsInstalled, Installed, coreVars
  <2>4. QED
    BY <2>1, <2>2, <2>3 DEF BuildsKept
<1>3. CASE dirs' = [dirs EXCEPT ![Version[tx.published.build]] = NoManifest] /\ AfterUndo /\ UNCHANGED faults
  <2>1. tx' \in Transactions /\ FailedUpdateUndone' /\ PlanSound' /\ StoreSound' /\ StopSound'
    <3>1. CASE tx.was /\ mgr = "up" /\ Goto("restart")
      BY <1>1, <1>3, <3>1, TurnsBack
    <3>2. CASE End("failed")
      BY <1>1, <3>2, GivesUp DEF AsBefore
    <3>3. QED
      BY <1>3, <3>1, <3>2 DEF AfterUndo
  <2>2. Counted'
    BY <1>1, <1>3, FaultCounted
  <2>3. QED
    BY <1>2, <1>3, <2>1, <2>2, Assembled
<1>4. CASE Fault /\ dirs' = [dirs EXCEPT ![Version[tx.published.build]] = Half] /\ EndUnclean("failed")
  <2>1. Counted'
    BY <1>1, <1>4, FaultCounted
  <2>2. QED
    BY <1>2, <1>4, <2>1, GivesUpUnclean, Assembled
<1>5. QED
  BY <1>3, <1>4 DEF RemoveReverted

LEMMA RevertMihomoKeeps == ASSUME EngInv, RevertMihomo PROVE EngInv'
<1>1. /\ tx.pc = "undo" /\ tx.engine = "mihomo" /\ UNCHANGED <<dirs, ptr, mgr, sel, coreVars, updates>>
      /\ StoreTyped /\ CoreTyped /\ Counted /\ tx \in Transactions /\ BuildsKept /\ CoreSound /\ PlanSound
      /\ StoreSound
      /\ StopSound
  BY InvParts DEF RevertMihomo, At
<1>2. CASE /\ mihomo' = [cur |-> IF tx.had THEN mihomo.prev ELSE None, prev |-> IF tx.had THEN None ELSE mihomo.prev]
           /\ (IF tx.was /\ tx.calm /\ mgr = "up" THEN Goto("restart") ELSE End("failed"))
           /\ UNCHANGED faults
  <2>1. /\ ~(life = "running" /\ proc.engine = "mihomo") /\ mihomo.prev \in Tags \union {None}
        /\ (tx.had => mihomo.prev = tx.before) /\ tx.had = (tx.before # None)
    BY <1>1 DEF StopSound, StoreSound, PlanSound, Active, IsMihomo, Quiescent, StoreTyped
  <2>2. StoreTyped' /\ CoreTyped' /\ CoreSound' /\ BuildsKept' /\ mihomo'.cur = tx.before
    <3> DEFINE c == IF tx.had THEN mihomo.prev ELSE None
               q == IF tx.had THEN None ELSE mihomo.prev
    <3>1. c \in Tags \union {None} /\ q \in Tags \union {None} /\ c = tx.before /\ mihomo' = [cur |-> c, prev |-> q]
      BY <1>2, <2>1
    <3> HIDE DEF c, q
    <3>2. QED
      BY <1>1, <2>1, <3>1, FileSwapped
  <2>3. tx' \in Transactions /\ tx'.pc \in {"restart", "idle"} /\ SamePlan /\ tx'.calm = tx.calm
        /\ (tx'.pc = "restart" => tx.was)
    BY <1>1, <1>2, Going, Ending DEF TxPcs
  <2>4. (Installed(tx.engine) = tx.before)' /\ Counted'
    BY <1>1, <1>2, <2>2, <2>3 DEF SamePlan, Installed, Counted
  <2>5. CASE tx'.pc = "idle"
    BY <2>2, <2>3, <2>4, <2>5, Finished, Assembled
  <2>6. CASE tx'.pc = "restart"
    <3>1. FailedUpdateUndone'
      BY <2>6 DEF FailedUpdateUndone
    <3>2. PlanSound'
      BY <1>1, <1>2, <2>3, <2>6 DEF PlanSound, Active, IsMihomo, SamePlan
    <3>3. StoreSound'
      BY <1>1, <2>3, <2>4, <2>6 DEF StoreSound, Active, IsMihomo, SamePlan, AsBefore
    <3>4. StopSound'
      BY <1>1, <1>2, <2>3, <2>6 DEF StopSound, PlanSound, Active, IsMihomo, SamePlan, Quiescent, coreVars
    <3>5. QED
      BY <2>2, <2>3, <2>4, <3>1, <3>2, <3>3, <3>4, Assembled
  <2>7. QED
    BY <2>3, <2>5, <2>6
<1>3. CASE /\ Fault /\ EndUnclean("failed")
           /\ mihomo' \in {mihomo, [mihomo EXCEPT !.cur = None], [cur |-> mihomo.prev, prev |-> None]}
  <2>1. /\ ~(life = "running" /\ proc.engine = "mihomo") /\ mihomo.prev \in Tags \union {None}
        /\ mihomo.cur \in Tags \union {None} /\ mihomo = [cur |-> mihomo.cur, prev |-> mihomo.prev]
    BY <1>1 DEF StopSound, Active, IsMihomo, Quiescent, StoreTyped
  <2>2. PICK c \in {None, mihomo.cur, mihomo.prev}, q \in {None, mihomo.prev} : mihomo' = [cur |-> c, prev |-> q]
    BY <1>1, <1>3, <2>1 DEF StoreTyped
  <2>3. StoreTyped' /\ CoreTyped' /\ CoreSound' /\ BuildsKept'
    BY <1>1, <2>1, <2>2, FileSwapped
  <2>4. Counted'
    BY <1>1, <1>3, FaultCounted
  <2>5. QED
    BY <1>3, <2>3, <2>4, GivesUpUnclean, Assembled
<1>4. QED
  BY <1>2, <1>3 DEF RevertMihomo

LEMMA RestartKeeps == ASSUME EngInv, Restart PROVE EngInv'
<1>1. /\ tx.pc = "restart" /\ UNCHANGED <<store, mgr, sel, updates>> /\ mgr # "off"
      /\ StoreTyped /\ CoreTyped /\ Counted /\ BuildsKept /\ CoreSound
  BY InvParts, ManagerThere DEF Restart, At, TxPcs
<1>2. StoreTyped' /\ UNCHANGED <<ptr, mihomo>> /\ tx.pc \in AsBefore
  BY <1>1 DEF StoreTyped, store, AsBefore
<1>3. CoreTyped' /\ CoreSound' /\ BuildsKept' /\ (Fault \/ UNCHANGED faults)
  <2>1. CASE StartOK
    BY <1>1, <2>1, Starts DEF StartOK
  <2>2. CASE StartError
    BY <1>1, <2>2, StartsBadly
  <2>3. CASE StopOK
    BY <1>1, <2>3, Stops DEF StopOK
  <2>4. CASE StopError
    BY <1>1, <2>4, StopsBadly DEF StopError
  <2>5. QED
    BY <2>1, <2>2, <2>3, <2>4 DEF Restart
<1>4. Counted'
  BY <1>1, <1>3, FaultCounted
<1>5. tx' \in Transactions /\ FailedUpdateUndone' /\ PlanSound' /\ StoreSound' /\ StopSound'
  <2>1. End("failed") \/ EndUnclean("failed")
    BY DEF Restart
  <2>2. QED
    BY <1>2, <2>1, GivesUp, GivesUpUnclean
<1>6. QED
  BY <1>2, <1>3, <1>4, <1>5, Assembled

-----------------------------------------------------------------------------
LEMMA EngInitKeeps == EngInit => EngInv
<1> SUFFICES ASSUME EngInit PROVE EngInv
  OBVIOUS
<1>1. StoreTyped /\ CoreTyped /\ Counted
  BY EngBoundAssumption DEF EngInit, StoreTyped, CoreTyped, Counted, NoProc
<1>2. BuildsKept /\ CoreSound
  BY GoneFacts DEF EngInit, BuildsKept, PointerResolves, LiveBuildKept, RunningIsInstalled, CoreSound, Engines
<1>3. tx \in Transactions /\ tx.pc = "idle" /\ tx.out = "none"
  BY GoneFacts DEF EngInit
<1>4. FailedUpdateUndone /\ PlanSound /\ StoreSound /\ StopSound
  BY <1>3 DEF FailedUpdateUndone, PlanSound, StoreSound, StopSound, Active
<1>5. QED
  BY <1>1, <1>2, <1>3, <1>4, InvParts

LEMMA EngStepKeeps == EngInv /\ [EngNext]_engVars => EngInv'
<1> SUFFICES ASSUME EngInv, [EngNext]_engVars PROVE EngInv'
  OBVIOUS
<1>1. CASE UNCHANGED engVars
  <2>1. FailedUpdateUndone' /\ PlanSound' /\ StoreSound' /\ StopSound' /\ tx' \in Transactions
    BY <1>1, InvParts DEF FailedUpdateUndone, PlanSound, StoreSound, StopSound, Active, IsMihomo, Installed,
        engVars, store, coreVars
  <2>2. QED
    BY <1>1, <2>1, Bookkeeping DEF engVars
<1>2. CASE \E b \in Builds : StageSingBox(b) \/ StageLocal(b)
  BY <1>2, StageSingBoxKeeps, StageLocalKeeps
<1>3. CASE \E t \in Tags : StageMihomo(t)
  BY <1>3, StageMihomoKeeps
<1>4. CASE Transaction
  BY <1>4, EnterKeeps, DeclinedKeeps, StopForUpdateKeeps, TimesOutKeeps, PublishDirectoryKeeps,
     PublishPointerKeeps, PublishPointerFailsKeeps, SwapMihomoKeeps, SwapMihomoFailsKeeps, StartUpdatedKeeps,
     VerifyMihomoKeeps, UndoStopKeeps, RevertPointerKeeps, RemoveRevertedKeeps, RevertMihomoKeeps, RestartKeeps
     DEF Transaction
<1>5. CASE UserStarts \/ UserStops \/ UserSelects
  BY <1>5, UserStartsKeeps, UserStopsKeeps, UserSelectsKeeps
<1>6. CASE Shutdown \/ Exits \/ PowerCut \/ Boots
  BY <1>6, ShutdownKeeps, ExitsKeeps, PowerCutKeeps, BootsKeeps
<1>7. QED
  BY <1>1, <1>2, <1>3, <1>4, <1>5, <1>6 DEF EngNext

(* The store, the running core and the transaction always agree.           *)
THEOREM EngInvariant == EngSpec => []EngInv
BY EngInitKeeps, EngStepKeeps, PTL DEF EngSpec

(* The pointer names complete builds, and the build that runs is kept.     *)
THEOREM BuildsKeptHolds == EngSpec => []BuildsKept
<1>1. EngInv => BuildsKept
  BY DEF EngInv
<1>2. QED
  BY EngInvariant, <1>1, PTL

(* A failed update leaves the build that was there before it.              *)
THEOREM FailedUpdateUndoneHolds == EngSpec => []FailedUpdateUndone
<1>1. EngInv => FailedUpdateUndone
  BY DEF EngInv
<1>2. QED
  BY EngInvariant, <1>1, PTL

-----------------------------------------------------------------------------
(* The update of a running core.                                           *)

EndsQuietly == tx.was /\ tx.pc # "idle" /\ tx'.pc = "idle" /\ mgr' = "up" /\ faults' = tx.f0

\* Without a fault since it began, its step is not a fault either.
LEMMA NoFault ==
    ASSUME EngInv, EndsQuietly
    PROVE  ~Fault /\ (UNCHANGED faults => faults = tx.f0 /\ tx.calm)
<1>1. Counted /\ tx \in Transactions /\ PlanSound
  BY InvParts
<1>2. tx.f0 <= faults /\ (~tx.calm => tx.f0 < faults) /\ faults \in Nat /\ tx.f0 \in Nat
  BY <1>1, TxFields, EngBoundAssumption DEF PlanSound, Active, Counted, EndsQuietly
<1>3. QED
  BY <1>2 DEF EndsQuietly, Fault

\* The former build can be started: it ran, it is installed, and nothing else runs.
LEMMA FormerStarts ==
    ASSUME EngInv, tx.pc = "restart", tx.was, faults = tx.f0, tx.calm
    PROVE  Startable(sel) /\ Installed(sel) \notin Bad /\ proc = NoProc
<1>1. StoreTyped /\ BuildsKept /\ PlanSound /\ StoreSound /\ StopSound
  BY InvParts
<1>2. sel = tx.engine /\ Installed(sel) = tx.before /\ tx.before # None /\ tx.before \notin Bad /\ sel \in Engines
  BY <1>1 DEF PlanSound, StoreSound, Active, AsBefore
<1>3. proc = NoProc
  BY <1>1 DEF StopSound, Active, Quiescent
<1>4. Startable(sel)
  BY <1>1, <1>2, ManifestFacts DEF Startable, Installed, BuildsKept, PointerResolves
<1>5. QED
  BY <1>2, <1>3, <1>4

LEMMA ServiceStep ==
    ASSUME EngInv, EngNext, EndsQuietly
    PROVE  life' = "running"
<1>1. StoreTyped /\ tx \in Transactions /\ BuildsKept /\ PlanSound /\ StoreSound /\ StopSound
  BY InvParts
<1>2. tx.was /\ tx.pc # "idle" /\ tx'.pc = "idle" /\ mgr' = "up"
  BY DEF EndsQuietly
<1>3. \A pc \in TxPcs \ {"idle"} : ~Goto(pc)
  BY <1>1, <1>2, Going
<1>4. CASE Enter \/ Declined
  <2>1. ~Declined
    BY <1>1, <1>2 DEF Declined, At, PlanSound, Active
  <2>2. ~Enter
    <3> SUFFICES ASSUME Enter PROVE FALSE
      OBVIOUS
    <3>1. tx'.pc \in {"stop", "publish"}
      BY <1>1 DEF Enter, Transactions
    <3>2. QED
      BY <1>2, <3>1
  <2>3. QED
    BY <1>4, <2>1, <2>2
<1>5. CASE StopForUpdate
  BY <1>2, <1>3, <1>5, NoFault DEF StopForUpdate, StopError, TxPcs
<1>6. CASE TimesOut \/ PublishPointerFails \/ SwapMihomoFails \/ PowerCut
  BY <1>6, NoFault DEF TimesOut, PublishPointerFails, SwapMihomoFails, PowerCut
<1>7. CASE PublishDirectory
  <2>1. CASE Goto("point") \/ NotPublished
    BY <1>2, <1>3, <2>1 DEF NotPublished, TxPcs
  <2>2. CASE tx' = [tx EXCEPT !.pc = "point", !.staged = dirs[Version[tx.build]]]
    <3>1. tx'.pc = "point"
      BY <1>1, <2>2 DEF Transactions
    <3>2. QED
      BY <1>2, <3>1
  <2>3. QED
    BY <1>7, <2>1, <2>2 DEF PublishDirectory
<1>8. CASE PublishPointer
  <2>1. tx'.pc = "start"
    BY <1>1, <1>2, <1>8 DEF PublishPointer, Activated, Transactions
  <2>2. QED
    BY <1>2, <2>1
<1>9. CASE SwapMihomo
  BY <1>3, <1>9 DEF SwapMihomo, TxPcs
<1>10. CASE StartUpdated
  BY <1>3, <1>10 DEF StartUpdated, StartOK, TxPcs
<1>11. CASE VerifyMihomo
  <2>1. tx.pc = "verify" /\ UNCHANGED life
    BY <1>11 DEF VerifyMihomo, At, coreVars
  <2>2. QED
    BY <1>1, <1>2, <2>1 DEF StopSound, Active
<1>12. CASE UndoStop
  BY <1>3, <1>12, NoFault DEF UndoStop, StopError, TxPcs
<1>13. CASE RevertPointer
  <2>1. tx.pc = "undo" /\ tx.engine = "sing-box"
    BY <1>13 DEF RevertPointer, At
  <2>2. ptr.cur = tx.published /\ tx.published \in Manifests /\ ptr.prev.build = tx.before /\ tx.before # None
    BY <1>1, <1>2, <2>1 DEF PlanSound, StoreSound, Active, IsMihomo
  <2>3. Resolves(ptr.cur) /\ Resolves(ptr.prev)
    BY <1>1, <2>2, ManifestFacts DEF BuildsKept, PointerResolves
  <2>4. Goto("remove") \/ Fault
    BY <1>13, <2>2, <2>3 DEF RevertPointer
  <2>5. QED
    BY <1>3, <2>4, NoFault DEF TxPcs
<1>14. CASE RemoveReverted
  <2>1. UNCHANGED mgr /\ (AfterUndo \/ Fault)
    BY <1>14 DEF RemoveReverted
  <2>2. QED
    BY <1>2, <1>3, <2>1, NoFault DEF AfterUndo, TxPcs
<1>15. CASE RevertMihomo
  <2>1. UNCHANGED mgr /\ ((UNCHANGED faults /\ (IF tx.was /\ tx.calm /\ mgr = "up" THEN Goto("restart") ELSE End("failed"))) \/ Fault)
    BY <1>15 DEF RevertMihomo
  <2>2. QED
    BY <1>2, <1>3, <2>1, NoFault DEF TxPcs
<1>16. CASE Restart
  <2>1. UNCHANGED mgr /\ tx.pc = "restart" /\ (StartOK \/ StartError)
    BY <1>2, <1>16 DEF Restart, At
  <2>2. CASE StartOK
    BY <2>2 DEF StartOK
  <2>3. CASE StartError
    <3>1. UNCHANGED faults /\ (mgr # "up" \/ ~Startable(sel) \/ Installed(sel) \in Bad \/ proc # NoProc)
      BY <2>3, NoFault DEF StartError
    <3>2. QED
      BY <1>2, <2>1, <3>1, NoFault, FormerStarts
  <2>4. QED
    BY <2>1, <2>2, <2>3
<1>17. CASE UserStarts \/ UserStops \/ UserSelects \/ Shutdown \/ Boots
  BY <1>2, <1>17 DEF UserStarts, UserStops, UserSelects, Shutdown, Boots
<1>18. CASE Exits
  BY <1>2, <1>18 DEF Exits
<1>19. CASE (\E b \in Builds : StageSingBox(b) \/ StageLocal(b)) \/ (\E t \in Tags : StageMihomo(t))
  BY <1>2, <1>19 DEF StageSingBox, StageLocal, StageMihomo, Stage
<1>20. QED
  BY <1>4, <1>5, <1>6, <1>7, <1>8, <1>9, <1>10, <1>11, <1>12, <1>13, <1>14, <1>15, <1>16, <1>17, <1>18, <1>19
     DEF EngNext, Transaction

(* Nothing but the new build failed: the update ends with a running core.  *)
THEOREM UpdateKeepsServiceHolds == EngSpec => UpdateKeepsService
<1>1. EngInv /\ [EngNext]_engVars =>
          [(tx.was /\ tx.pc # "idle" /\ tx'.pc = "idle" /\ mgr' = "up" /\ faults' = tx.f0) => life' = "running"]_engVars
  BY ServiceStep DEF EndsQuietly
<1>2. QED
  BY EngInvariant, <1>1, PTL DEF EngSpec, UpdateKeepsService
=============================================================================
