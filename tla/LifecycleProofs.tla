--------------------------- MODULE LifecycleProofs ---------------------------
(***************************************************************************)
(* Theorems about Lifecycle for every set of generations, profiles and     *)
(* offered operations: fail-open and the order of release (SafeInv), the   *)
(* restart guard (GuardInv), and, without record faults, the runtimes on   *)
(* disk and the selected profile of what runs (GenInv).                    *)
(***************************************************************************)
EXTENDS Lifecycle, TLAPS

-----------------------------------------------------------------------------
(* Records of the model, as facts the provers can cite.                    *)

LEMMA SnapType ==
    ASSUME NEW s \in States, NEW p \in MaybeGen, NEW h \in BOOLEAN
    PROVE  [state |-> s, prepared |-> p, health |-> h] \in Snaps
BY DEF Snaps

LEMMA SnapFields ==
    ASSUME snap \in Snaps
    PROVE  snap.state \in States /\ snap.prepared \in MaybeGen /\ snap.health \in BOOLEAN
BY DEF Snaps

LEMMA SnapUpdate ==
    ASSUME snap \in Snaps, NEW s \in States, NEW p \in MaybeGen, NEW h \in BOOLEAN
    PROVE  /\ [snap EXCEPT !.state = s] \in Snaps /\ [snap EXCEPT !.state = s].state = s
           /\ [snap EXCEPT !.state = s, !.health = h] \in Snaps
           /\ [snap EXCEPT !.state = s, !.health = h].state = s
           /\ [snap EXCEPT !.health = h] \in Snaps /\ [snap EXCEPT !.health = h].state = snap.state
           /\ [snap EXCEPT !.prepared = p] \in Snaps /\ [snap EXCEPT !.prepared = p].state = snap.state
BY DEF Snaps

LEMMA SnapState ==
    ASSUME snap \in Snaps, NEW s
    PROVE  [snap EXCEPT !.state = s].state = s
BY DEF Snaps

LEMMA SnapHealth ==
    ASSUME snap \in Snaps, NEW h \in BOOLEAN
    PROVE  [snap EXCEPT !.health = h].state = snap.state
BY DEF Snaps

LEMMA NoSnapType == NoSnap \in Snaps /\ NoSnap.state = "unset"
BY DEF NoSnap, Snaps, States, MaybeGen

LEMMA IdleType == Idle \in Ops /\ Idle.pc = "idle" /\ Idle.kind = "none"
BY DEF Idle, Ops, Kinds, Pcs, MaybeGen

LEMMA NoGuardType == NoGuard \in GuardStatus
BY DEF NoGuard, GuardStatus

LEMMA TakeType ==
    ASSUME NEW k \in Kinds, NEW p \in Pcs, Take(k, p)
    PROVE  op' \in Ops /\ op'.kind = k /\ op'.pc = p
BY IdleType DEF Take, Ops, Idle

LEMMA TakeShape ==
    ASSUME NEW k, NEW p, Take(k, p)
    PROVE  op'.kind = k /\ op'.pc = p /\ op'.why = "none"
BY DEF Take, Idle

\* A step of the Activation contract keeps its types.
LEMMA ActStepType ==
    ASSUME ActTypeOK, [ActNext]_actVars
    PROVE  ActTypeOK'
<1>1. CASE \E c \in Calls : BeginCall(c) \/ InstalledOK(c) \/ RemovedOK(c) \/ AbandonCall(c)
  BY <1>1 DEF ActTypeOK, BeginCall, InstalledOK, RemovedOK, AbandonCall, Calls
<1>2. CASE \E r \in Resources : Install(r) \/ Remove(r)
  BY <1>2 DEF ActTypeOK, Install, Remove, Resources
<1>3. CASE UNCHANGED actVars \/ LoseCapture
  BY <1>3 DEF ActTypeOK, actVars, LoseCapture
<1>4. QED
  BY <1>1, <1>2, <1>3 DEF ActNext

-----------------------------------------------------------------------------
(* Type correctness.                                                       *)

\* The target of a replacement is a real generation until it is committed.
CurIsGen ==
    /\ Replacing /\ ~op.restore /\ AtPc({"guardBegin", "stDeact", "stStop", "coreStart", "ready1",
                                         "activate", "ready2", "verify", "commit"})
         => op.cur \in Gens
    /\ op.pc = "commit" => Replacing /\ ~op.restore

TypeInv == TypeOK /\ CurIsGen

LEMMA ReturnType ==
    ASSUME TypeInv, NEW f \in SUBSET Gens, Return(f)
    PROVE  /\ op' \in Ops /\ files' \subseteq Gens /\ CurIsGen'
           /\ op'.pc \in {"idle", "finish", "guardOff"}
<1>1. op \in Ops
  BY DEF TypeInv, TypeOK
<1>2. CASE guardOn \/ GuardOffDue
  <2>1. op' = [op EXCEPT !.pc = IF guardOn THEN "finish" ELSE "guardOff", !.cur = NoGen] /\ files' = f
    BY <1>2 DEF Return
  <2>2. QED
    BY <1>1, <2>1 DEF Ops, Pcs, MaybeGen, CurIsGen, AtPc
<1>3. CASE ~(guardOn \/ GuardOffDue)
  <2>1. op' = Idle /\ files' = f \ {op.spare}
    BY <1>3 DEF Return
  <2>2. QED
    BY <2>1, IdleType DEF CurIsGen, AtPc
<1>4. QED
  BY <1>2, <1>3

LEMMA GuardRemoveType ==
    ASSUME TypeInv, GuardRemove
    PROVE  guard' \in {"off", "on", "expired"} /\ gstat' \in GuardStatus
<1>1. guard \in {"off", "on", "expired"} /\ gstat \in GuardStatus
  BY DEF TypeInv, TypeOK
<1>2. CASE GuardRemoved
  BY <1>2 DEF GuardRemoved, NoGuard, GuardStatus
<1>3. CASE GuardNotRemoved
  BY <1>1, <1>3 DEF GuardNotRemoved, GuardStatus
<1>4. QED
  BY <1>2, <1>3 DEF GuardRemove

LEMMA TypeInit == Init => TypeInv
<1> SUFFICES ASSUME Init PROVE TypeInv
  OBVIOUS
<1>1. op \in Ops /\ snap \in Snaps /\ gstat \in GuardStatus
  BY IdleType, NoSnapType, NoGuardType DEF Init
<1>2. CurIsGen
  BY IdleType DEF Init, CurIsGen, AtPc
<1>3. ActTypeOK
  BY DEF Init, ActInit, ActTypeOK
<1>4. QED
  BY <1>1, <1>2, <1>3 DEF Init, TypeInv, TypeOK, MaybeGen

\* What a freshly taken operation looks like.
LEMMA StartFromType ==
    ASSUME TypeInv, NEW k \in {"start", "restart"}, StartFrom(k)
    PROVE  op' \in Ops /\ snap' \in Snaps /\ CurIsGen'
<1>1. snap \in Snaps /\ k \in Kinds
  BY DEF TypeInv, TypeOK, Kinds
<1>2. CASE snap.state \in {"unset", "failed"}
  <2>1. op' = [Idle EXCEPT !.kind = k, !.pc = "rbDeact", !.why = "stale"] /\ snap' = snap
    BY <1>2 DEF StartFrom
  <2>2. op' \in Ops /\ op'.kind = k /\ op'.pc = "rbDeact"
    BY <1>1, <2>1, IdleType DEF Ops, Pcs
  <2>3. QED
    BY <1>1, <2>1, <2>2 DEF CurIsGen, Replacing, Replacements
<1>3. CASE snap.state \notin {"unset", "failed"}
  <2>1. Take(k, "prepare") /\ snap' = [snap EXCEPT !.state = "starting"]
    BY <1>3 DEF StartFrom
  <2>2. op' \in Ops /\ op'.kind = k /\ op'.pc = "prepare"
    BY <1>1, <2>1, TakeType DEF Pcs
  <2>3. QED
    BY <1>1, <2>1, <2>2, SnapFields, SnapUpdate
       DEF CurIsGen, Replacing, Replacements, States
<1>4. QED
  BY <1>2, <1>3

LEMMA StopFromType ==
    ASSUME TypeInv, NEW k \in {"stop", "clean", "retry", "shutdown"}, StopFrom(k)
    PROVE  op' \in Ops /\ snap' \in Snaps /\ CurIsGen'
<1>1. snap \in Snaps /\ k \in Kinds
  BY DEF TypeInv, TypeOK, Kinds
<1>2. CASE snap.state = "stopped" /\ k # "clean"
  <2>1. /\ op' = (IF gstat.active \/ gstat.err THEN [Idle EXCEPT !.kind = k, !.pc = "guardOff"] ELSE Idle)
        /\ snap' = snap
    BY <1>2 DEF StopFrom
  <2>2. op' \in Ops /\ op'.pc \in {"guardOff", "idle"}
    BY <1>1, <2>1, IdleType DEF Ops, Pcs
  <2>3. QED
    BY <1>1, <2>1, <2>2 DEF CurIsGen, AtPc
<1>3. CASE ~(snap.state = "stopped" /\ k # "clean")
  <2>1. Take(k, "stDeact") /\ snap' = [snap EXCEPT !.state = "stopping"]
    BY <1>3 DEF StopFrom
  <2>2. op' \in Ops /\ op'.kind = k /\ op'.pc = "stDeact"
    BY <1>1, <2>1, TakeType DEF Pcs
  <2>3. QED
    BY <1>1, <2>1, <2>2, SnapFields, SnapUpdate
       DEF CurIsGen, Replacing, Replacements, States
<1>4. QED
  BY <1>2, <1>3


LEMMA StartedType ==
    ASSUME TypeInv, AtPc({"ready2", "verify"}), Started
    PROVE  op' \in Ops /\ snap' \in Snaps /\ files' \subseteq Gens /\ CurIsGen'
<1>0. op \in Ops /\ files \subseteq Gens /\ CurIsGen
  BY DEF TypeInv, TypeOK
<1>1. snap' \in Snaps
  BY <1>0, SnapType DEF Started, States, Ops
<1>2. CASE Replacing /\ ~op.restore
  <2>1. op' = [op EXCEPT !.pc = "commit"] /\ files' = files
    BY <1>2 DEF Started
  <2>2. QED
    BY <1>0, <1>1, <1>2, <2>1 DEF Ops, Pcs, CurIsGen, AtPc, Replacing, Replacements
<1>3. CASE ~(Replacing /\ ~op.restore)
  BY <1>0, <1>1, <1>3, ReturnType DEF Started
<1>4. QED
  BY <1>2, <1>3

LEMMA RestoreType ==
    ASSUME TypeInv, Replacing, Restore
    PROVE  op' \in Ops /\ snap' \in Snaps /\ CurIsGen'
<1>0. op \in Ops
  BY DEF TypeInv, TypeOK
<1>1. op' \in Ops /\ op'.restore = TRUE /\ op'.pc = "coreStart"
  BY <1>0 DEF Restore, Ops, Pcs
<1>2. snap' \in Snaps
  BY <1>0, SnapType DEF Restore, Ops, States
<1>3. QED
  BY <1>1, <1>2 DEF CurIsGen

LEMMA GoneType ==
    ASSUME TypeInv, Gone
    PROVE  op' \in Ops /\ snap' \in Snaps /\ gstat' \in GuardStatus /\ CurIsGen' /\ files' \subseteq Gens
BY IdleType, NoSnapType, NoGuardType DEF Gone, TypeInv, TypeOK, CurIsGen, AtPc

LEMMA ActFailedType ==
    ASSUME ActTypeOK, ActFailed
    PROVE  ActTypeOK'
<1>1. CASE AbandonCall(ActCall)
  BY <1>1 DEF AbandonCall, ActTypeOK
<1>2. CASE call # ActCall /\ UNCHANGED actVars
  BY <1>2 DEF ActTypeOK, actVars
<1>3. QED
  BY <1>1, <1>2 DEF ActFailed

LEMMA TypeStep == TypeInv /\ [Next]_vars => TypeInv'
<1> SUFFICES ASSUME TypeInv, [Next]_vars PROVE TypeInv'
  OBVIOUS
<1>0. op \in Ops /\ snap \in Snaps /\ files \subseteq Gens /\ core \in MaybeGen /\ ActTypeOK /\ CurIsGen
  BY DEF TypeInv, TypeOK
<1>1. CASE PrepareOK
  <2>1. PICK g \in Fresh(IF op.kind = "switch" THEN Profiles \ {selected} ELSE {selected}) : PrepareOK!2!(g)
    BY <1>1 DEF PrepareOK
  <2>2. g \in Gens /\ op.pc = "prepare"
    BY <1>1 DEF PrepareOK, Fresh, AtPc
  <2>3. op' \in Ops /\ files' \subseteq Gens
    BY <1>0, <2>1, <2>2 DEF Ops, Pcs, MaybeGen, Fresh
  <2>4. snap' \in Snaps
    <3>1. CASE StartCore(g)
      BY <1>0, <2>2, <3>1, SnapType, SnapFields DEF StartCore, States, MaybeGen
    <3>2. CASE snap' = snap
      BY <1>0, <3>2
    <3>3. QED
      BY <2>1, <3>1, <3>2
  <2>5. CurIsGen'
    BY <1>0, <2>1, <2>2 DEF Ops, AtPc, CurIsGen, Replacing, Replacements
  <2>6. UNCHANGED <<actVars, hostVars, coreVars, guardVars>>
    BY <1>1 DEF PrepareOK
  <2>7. ActTypeOK'
    BY <1>0, <2>6 DEF ActTypeOK, actVars
  <2>8. QED
    BY <1>0, <2>3, <2>4, <2>5, <2>6, <2>7
       DEF TypeInv, TypeOK, hostVars, coreVars, guardVars
<1>2. CASE PrepareFails
  <2>1. op' \in Ops /\ files' \subseteq Gens /\ CurIsGen'
    BY <1>0, <1>2, ReturnType DEF PrepareFails
  <2>2. snap' \in Snaps
    BY <1>0, <1>2, SnapType, SnapFields, SnapUpdate DEF PrepareFails, States, MaybeGen
  <2>3. QED
    BY <1>0, <1>2, <2>1, <2>2
       DEF PrepareFails, TypeInv, TypeOK, ActTypeOK, hostVars, coreVars, guardVars, actVars,
           lcVars
<1>3. CASE GuardSkipped
  <2>1. op' \in Ops /\ files' \subseteq Gens
    BY <1>0, <1>3 DEF GuardSkipped, StopOld, Ops, Pcs, Kinds, MaybeGen
  <2>2. snap' \in Snaps
    BY <1>0, <1>3, SnapType, SnapFields, SnapUpdate
       DEF GuardSkipped, StopOld, States, MaybeGen
  <2>3. CurIsGen'
    BY <1>0, <1>3 DEF GuardSkipped, StopOld, CurIsGen, AtPc, Ops, Replacing, Replacements
  <2>4. QED
    BY <1>0, <1>3, <2>1, <2>2, <2>3
       DEF GuardSkipped, TypeInv, TypeOK, ActTypeOK, hostVars, coreVars, guardVars, actVars,
           lcVars
<1>4. CASE GuardInstalled
  <2>1. op' \in Ops /\ files' \subseteq Gens
    BY <1>0, <1>4 DEF GuardInstalled, StopOld, Ops, Pcs, Kinds, MaybeGen
  <2>2. snap' \in Snaps
    BY <1>0, <1>4, SnapType, SnapFields, SnapUpdate
       DEF GuardInstalled, StopOld, States, MaybeGen
  <2>3. CurIsGen'
    BY <1>0, <1>4 DEF GuardInstalled, StopOld, CurIsGen, AtPc, Ops, Replacing, Replacements
  <2>4. QED
    BY <1>0, <1>4, <2>1, <2>2, <2>3
       DEF GuardInstalled, TypeInv, TypeOK, ActTypeOK, hostVars, coreVars, guardVars,
           actVars, lcVars, GuardStatus
<1>5. CASE GuardFails
  <2>1. op' \in Ops /\ files' \subseteq Gens /\ CurIsGen'
    BY <1>0, <1>5, IdleType DEF GuardFails, CurIsGen, AtPc
  <2>2. guard' \in {"off", "on", "expired"} /\ gstat' \in GuardStatus
    <3>1. guard \in {"off", "on", "expired"} /\ gstat \in GuardStatus
      BY <1>0 DEF TypeInv, TypeOK
    <3>2. CASE GuardRemoved
      BY <1>0, <3>2, GuardRemoveType DEF GuardRemove
    <3>3. CASE GuardStuck
      BY <3>1, <3>3 DEF GuardStuck, GuardStatus
    <3>4. QED
      BY <1>5, <3>1, <3>2, <3>3 DEF GuardFails
  <2>3. QED
    BY <1>0, <1>5, <2>1, <2>2
       DEF GuardFails, TypeInv, TypeOK, ActTypeOK, hostVars, coreVars, guardVars, actVars,
           lcVars
<1>6. CASE CoreStartOK
  <2>0. op.cur \in MaybeGen
    BY <1>0 DEF Ops
  <2>1. op' \in Ops /\ files' \subseteq Gens
    BY <1>0, <1>6 DEF CoreStartOK, Records, Ops, Pcs, Kinds, MaybeGen
  <2>2. CurIsGen'
    BY <1>0, <1>6 DEF CoreStartOK, Records, CurIsGen, AtPc, Ops, Replacing, Replacements
  <2>3. QED
    BY <1>0, <1>6, <2>1, <2>2, <2>0
       DEF CoreStartOK, Records, TypeInv, TypeOK, ActTypeOK, hostVars, coreVars, guardVars, actVars,
           lcVars
<1>7. CASE CoreStartFails
  <2>1. op' \in Ops /\ files' \subseteq Gens
    BY <1>0, <1>7 DEF CoreStartFails, RollBack, Ops, Pcs, Kinds, MaybeGen
  <2>2. CurIsGen'
    BY <1>0, <1>7 DEF CoreStartFails, RollBack, CurIsGen, AtPc, Ops, Replacing, Replacements
  <2>3. QED
    BY <1>0, <1>7, <2>1, <2>2
       DEF CoreStartFails, TypeInv, TypeOK, ActTypeOK, hostVars, coreVars, guardVars,
           actVars, lcVars
<1>8. CASE Ready
  <2>0. op.pc \in {"ready1", "ready2"}
    BY <1>8 DEF Ready, AtPc
  <2>1. op' \in Ops /\ snap' \in Snaps /\ files' \subseteq Gens /\ CurIsGen'
    <3>1. CASE op.pc = "ready2" /\ ~guardOn /\ Started
      BY <3>1, StartedType DEF AtPc
    <3>2. CASE /\ op' = [op EXCEPT !.pc = IF op.pc = "ready1" THEN "activate" ELSE "verify"]
               /\ snap' = [snap EXCEPT !.health = TRUE] /\ files' = files
      <4>1. op' \in Ops /\ CurIsGen'
        BY <1>0, <2>0, <3>2 DEF Ops, Pcs, CurIsGen, AtPc, Replacing
      <4>2. QED
        BY <1>0, <3>2, <4>1, SnapFields, SnapUpdate
    <3>3. QED
      BY <1>8, <3>1, <3>2 DEF Ready
  <2>2. QED
    BY <1>0, <1>8, <2>1
       DEF Ready, TypeInv, TypeOK, ActTypeOK, hostVars, coreVars, guardVars, actVars, lcVars
<1>9. CASE NotReady
  <2>1. op' \in Ops /\ files' \subseteq Gens
    BY <1>0, <1>9 DEF NotReady, RollBack, Ops, Pcs, Kinds, MaybeGen
  <2>2. snap' \in Snaps
    BY <1>0, <1>9, SnapType, SnapFields, SnapUpdate DEF NotReady, RollBack, States, MaybeGen
  <2>3. CurIsGen'
    BY <1>0, <1>9 DEF NotReady, RollBack, CurIsGen, AtPc, Ops, Replacing, Replacements
  <2>4. QED
    BY <1>0, <1>9, <2>1, <2>2, <2>3
       DEF NotReady, TypeInv, TypeOK, ActTypeOK, hostVars, coreVars, guardVars, actVars,
           lcVars
<1>10. CASE VerifyOK
  <2>1. op' \in Ops /\ snap' \in Snaps /\ files' \subseteq Gens /\ CurIsGen'
    BY <1>10, StartedType DEF VerifyOK, AtPc
  <2>2. QED
    BY <1>0, <1>10, <2>1
       DEF VerifyOK, TypeInv, TypeOK, ActTypeOK, hostVars, coreVars, guardVars, actVars,
           lcVars
<1>11. CASE VerifyFails
  <2>1. op' \in Ops /\ files' \subseteq Gens
    BY <1>0, <1>11 DEF VerifyFails, RollBack, Ops, Pcs, Kinds, MaybeGen
  <2>2. CurIsGen'
    BY <1>0, <1>11 DEF VerifyFails, RollBack, CurIsGen, AtPc, Ops, Replacing, Replacements
  <2>3. QED
    BY <1>0, <1>11, <2>1, <2>2
       DEF VerifyFails, TypeInv, TypeOK, ActTypeOK, hostVars, coreVars, guardVars, actVars,
           lcVars
<1>12. CASE CommitOK
  <2>1. op' \in Ops /\ files' \subseteq Gens /\ CurIsGen'
    BY <1>0, <1>12, ReturnType DEF CommitOK
  <2>2. op.cur \in Gens
    BY <1>0, <1>12 DEF CommitOK, CurIsGen, AtPc
  <2>3. selected' \in Profiles
    BY <1>12, <2>2, ProfileAssumption DEF CommitOK, TypeInv, TypeOK
  <2>4. QED
    BY <1>0, <1>12, <2>1, <2>3
       DEF CommitOK, TypeInv, TypeOK, ActTypeOK, hostVars, coreVars, guardVars, actVars,
           lcVars
<1>13. CASE CommitFails
  <2>1. op' \in Ops /\ files' \subseteq Gens
    BY <1>0, <1>13 DEF CommitFails, Ops, Pcs, Kinds, MaybeGen
  <2>2. snap' \in Snaps
    BY <1>0, <1>13, SnapType, SnapFields, SnapUpdate DEF CommitFails, States, MaybeGen
  <2>3. CurIsGen'
    BY <1>0, <1>13 DEF CommitFails, CurIsGen, AtPc, Ops, Replacing, Replacements
  <2>4. QED
    BY <1>0, <1>13, <2>1, <2>2, <2>3
       DEF CommitFails, TypeInv, TypeOK, ActTypeOK, hostVars, coreVars, guardVars, actVars,
           lcVars
<1>14. CASE ActBegin
  <2>1. ActTypeOK'
    BY <1>0, <1>14, ActStepType DEF ActBegin, ActCall, ActNext, Calls
  <2>2. QED
    BY <1>0, <1>14, <2>1 DEF ActBegin, TypeInv, TypeOK, lcVars, CurIsGen, AtPc, Replacing
<1>15. CASE ActStep
  BY <1>0, <1>15
     DEF ActStep, TypeInv, TypeOK, ActTypeOK, hostVars, coreVars, guardVars, actVars,
         lcVars, Install, Remove, Calls, CurIsGen, AtPc, Replacing
<1>16. CASE ActivateOK
  <2>1. op' \in Ops /\ files' \subseteq Gens
    BY <1>0, <1>16 DEF ActivateOK, Ops, Pcs, Kinds, MaybeGen
  <2>2. CurIsGen'
    BY <1>0, <1>16 DEF ActivateOK, CurIsGen, AtPc, Ops, Replacing, Replacements
  <2>3. QED
    BY <1>0, <1>16, <2>1, <2>2
       DEF ActivateOK, TypeInv, TypeOK, ActTypeOK, hostVars, coreVars, guardVars, actVars,
           lcVars, InstalledOK, Calls
<1>17. CASE ActivateFails
  <2>1. op' \in Ops /\ files' \subseteq Gens
    BY <1>0, <1>17 DEF ActivateFails, RollBack, Ops, Pcs, Kinds, MaybeGen
  <2>2. CurIsGen'
    BY <1>0, <1>17 DEF ActivateFails, RollBack, CurIsGen, AtPc, Ops, Replacing, Replacements
  <2>3. ActTypeOK'
    BY <1>0, <1>17, ActFailedType DEF ActivateFails
  <2>4. snap' \in Snaps /\ UNCHANGED <<hostVars, coreVars, guardVars>>
    BY <1>0, <1>17 DEF ActivateFails, TypeInv, TypeOK
  <2>5. QED
    BY <1>0, <2>1, <2>2, <2>3, <2>4
       DEF TypeInv, TypeOK, hostVars, coreVars, guardVars
<1>18. CASE DeactivateOK
  <2>1. op' \in Ops /\ files' \subseteq Gens
    BY <1>0, <1>18 DEF DeactivateOK, Ops, Pcs, Kinds, MaybeGen
  <2>2. CurIsGen'
    BY <1>0, <1>18 DEF DeactivateOK, CurIsGen, AtPc, Ops, Replacing, Replacements
  <2>3. QED
    BY <1>0, <1>18, <2>1, <2>2
       DEF DeactivateOK, TypeInv, TypeOK, ActTypeOK, hostVars, coreVars, guardVars, actVars,
           lcVars, RemovedOK
<1>19. CASE DeactivateFails
  <2>1. op' \in Ops /\ files' \subseteq Gens /\ CurIsGen'
    BY <1>0, <1>19, ReturnType DEF DeactivateFails
  <2>2. snap' \in Snaps
    BY <1>0, <1>19, SnapType, SnapFields, SnapUpdate DEF DeactivateFails, States, MaybeGen
  <2>3. ActTypeOK'
    BY <1>0, <1>19, ActFailedType DEF DeactivateFails
  <2>4. UNCHANGED <<hostVars, coreVars, guardVars>>
    BY <1>19 DEF DeactivateFails
  <2>5. QED
    BY <1>0, <2>1, <2>2, <2>3, <2>4
       DEF TypeInv, TypeOK, hostVars, coreVars, guardVars
<1>20. CASE StopOK
  <2>1. op' \in Ops /\ snap' \in Snaps /\ files' \subseteq Gens /\ CurIsGen'
    <3>0. files \ {core, snap.prepared} \subseteq Gens /\ op.pc = "stStop"
      BY <1>0, <1>20 DEF StopOK, Records, AtPc
    <3>1. CASE Replacing /\ op.restore
      BY <1>20, <3>0, <3>1, RestoreType DEF StopOK, Records, Replacing, Replacements
    <3>2. CASE Replacing /\ ~op.restore
      <4>1. /\ op' = [op EXCEPT !.pc = "coreStart"]
            /\ snap' = [state |-> "starting", prepared |-> op.cur, health |-> FALSE]
        BY <1>20, <3>2 DEF StopOK, Records, Replacing, Replacements
      <4>2. op' \in Ops /\ CurIsGen'
        BY <1>0, <3>0, <3>2, <4>1 DEF Ops, Pcs, CurIsGen, AtPc, Replacing
      <4>3. QED
        BY <1>0, <1>20, <3>0, <3>2, <4>1, <4>2, SnapType
           DEF StopOK, Records, States, Ops, Replacing, Replacements
    <3>3. CASE op.kind = "restart"
      <4>1. op' = [op EXCEPT !.pc = "prepare"] /\ snap' = [state |-> "starting", prepared |-> NoGen, health |-> FALSE]
        BY <1>20, <3>3 DEF StopOK, Records, Replacing, Replacements
      <4>2. op' \in Ops /\ CurIsGen'
        BY <1>0, <3>3, <4>1 DEF Ops, Pcs, CurIsGen, AtPc, Replacing, Replacements
      <4>3. QED
        BY <1>0, <1>20, <3>0, <3>3, <4>1, <4>2, SnapType
           DEF StopOK, Records, States, MaybeGen, Replacing, Replacements
    <3>4. CASE ~Replacing /\ op.kind # "restart"
      BY <1>20, <3>0, <3>4, SnapType, ReturnType DEF StopOK, Records, States, MaybeGen
    <3>5. QED
      BY <3>1, <3>2, <3>3, <3>4
  <2>2. slot' = FALSE /\ core' \in MaybeGen /\ runs' \in MaybeGen /\ halfDone' \in BOOLEAN
    BY <1>20 DEF StopOK, Records, StopProcess, MaybeGen
  <2>3. UNCHANGED <<actVars, hostVars, guardVars>>
    BY <1>20 DEF StopOK, Records
  <2>4. ActTypeOK'
    BY <1>0, <2>3 DEF ActTypeOK, actVars
  <2>5. QED
    BY <1>0, <2>1, <2>2, <2>3, <2>4 DEF TypeInv, TypeOK, hostVars, guardVars
<1>21. CASE StopFails
  <2>1. op' \in Ops /\ files' \subseteq Gens /\ CurIsGen'
    BY <1>0, <1>21, ReturnType DEF StopFails
  <2>2. snap' \in Snaps
    BY <1>0, <1>21, SnapType, SnapFields, SnapUpdate DEF StopFails, States, MaybeGen
  <2>3. QED
    BY <1>0, <1>21, <2>1, <2>2
       DEF StopFails, TypeInv, TypeOK, ActTypeOK, hostVars, coreVars, guardVars, actVars,
           lcVars
<1>22. CASE RollbackOK
  <2>1. op' \in Ops /\ snap' \in Snaps /\ files' \subseteq Gens /\ CurIsGen'
    <3>0. files \ {core, op.cur} \subseteq Gens
      BY <1>0
    <3>1. CASE op.why = "stale"
      <4>1. /\ op' = [op EXCEPT !.pc = "prepare", !.why = "none"]
            /\ snap' = [state |-> "starting", prepared |-> NoGen, health |-> FALSE]
        BY <1>22, <3>1 DEF RollbackOK, Records
      <4>2. op' \in Ops /\ CurIsGen'
        BY <1>0, <4>1 DEF Ops, Pcs, CurIsGen, AtPc
      <4>3. QED
        BY <1>22, <3>0, <3>1, <4>1, <4>2, SnapType DEF RollbackOK, Records, States, MaybeGen
    <3>2. CASE op.why # "stale" /\ Replacing /\ ~op.restore
      BY <1>22, <3>0, <3>2, RestoreType DEF RollbackOK, Records
    <3>3. CASE op.why # "stale" /\ ~(Replacing /\ ~op.restore)
      BY <1>22, <3>0, <3>3, SnapType, ReturnType DEF RollbackOK, Records, States, MaybeGen
    <3>4. QED
      BY <3>1, <3>2, <3>3
  <2>2. slot' = FALSE /\ core' \in MaybeGen /\ runs' \in MaybeGen /\ halfDone' \in BOOLEAN
    BY <1>22 DEF RollbackOK, StopProcess, Records, MaybeGen
  <2>3. UNCHANGED <<actVars, hostVars, guardVars>>
    BY <1>22 DEF RollbackOK
  <2>4. QED
    BY <1>0, <2>1, <2>2, <2>3
       DEF TypeInv, TypeOK, ActTypeOK, hostVars, coreVars, guardVars, actVars,
           lcVars
<1>23. CASE RollbackStopFails
  <2>1. op' \in Ops /\ snap' \in Snaps /\ files' \subseteq Gens /\ CurIsGen'
    <3>0. (IF op.why = "start" THEN files \ {op.cur} ELSE files) \subseteq Gens
      BY <1>0
    <3>1. CASE op.why # "stale" /\ Replacing /\ ~op.restore /\ ~snap.health
      BY <1>23, <3>0, <3>1, RestoreType DEF RollbackStopFails
    <3>2. CASE ~(op.why # "stale" /\ Replacing /\ ~op.restore /\ ~snap.health)
      <4>1. snap' = [snap EXCEPT !.state = "failed"] /\ Return(IF op.why = "start" THEN files \ {op.cur} ELSE files)
        BY <1>23, <3>2 DEF RollbackStopFails
      <4>2. QED
        BY <1>0, <3>0, <4>1, SnapFields, SnapUpdate, ReturnType DEF States
    <3>3. QED
      BY <3>1, <3>2
  <2>2. QED
    BY <1>0, <1>23, <2>1
       DEF RollbackStopFails, TypeInv, TypeOK, ActTypeOK, hostVars, coreVars, guardVars,
           actVars, lcVars
<1>24. CASE ReloadOK
  <2>1. op' \in Ops /\ files' \subseteq Gens /\ CurIsGen'
    BY <1>0, <1>24, ReturnType DEF ReloadOK, Records
  <2>2. op.cur \in MaybeGen
    BY <1>0 DEF Ops
  <2>3. snap' \in Snaps
    BY <1>0, <1>24, <2>2, SnapFields, SnapUpdate DEF ReloadOK, Records
  <2>4. QED
    BY <1>0, <1>24, <2>1, <2>2, <2>3
       DEF ReloadOK, Records, TypeInv, TypeOK, ActTypeOK, hostVars, coreVars, guardVars, actVars,
           lcVars
<1>25. CASE ReloadFails
  <2>1. op' \in Ops /\ files' \subseteq Gens /\ CurIsGen'
    BY <1>0, <1>25, ReturnType DEF ReloadFails
  <2>2. QED
    BY <1>0, <1>25, <2>1
       DEF ReloadFails, TypeInv, TypeOK, ActTypeOK, hostVars, coreVars, guardVars, actVars,
           lcVars
<1>26. CASE ReloadHalfDone
  <2>1. op' \in Ops /\ files' \subseteq Gens /\ CurIsGen'
    BY <1>0, <1>26, ReturnType DEF ReloadHalfDone
  <2>2. op.cur \in MaybeGen
    BY <1>0 DEF Ops
  <2>3. QED
    BY <1>0, <1>26, <2>1, <2>2
       DEF ReloadHalfDone, TypeInv, TypeOK, ActTypeOK, hostVars, coreVars, guardVars,
           actVars, lcVars
<1>27. CASE FinishGuard
  <2>1. op' \in Ops /\ files' \subseteq Gens /\ CurIsGen'
    BY <1>0, <1>27, IdleType DEF FinishGuard, CurIsGen, AtPc
  <2>2. QED
    BY <1>0, <1>27, <2>1, GuardRemoveType
       DEF FinishGuard, TypeInv, TypeOK, ActTypeOK, hostVars, coreVars, guardVars, actVars,
           lcVars
<1>28. CASE BeginStart
  <2>1. op' \in Ops /\ snap' \in Snaps /\ CurIsGen'
    BY <1>28, StartFromType DEF BeginStart
  <2>2. QED
    BY <1>0, <1>28, <2>1
       DEF BeginStart, TypeInv, TypeOK, ActTypeOK, hostVars, coreVars, guardVars, actVars,
           lcVars
<1>29. CASE BeginStop
  <2>1. op' \in Ops /\ snap' \in Snaps /\ CurIsGen'
    BY <1>29, StopFromType DEF BeginStop
  <2>2. QED
    BY <1>0, <1>29, <2>1
       DEF BeginStop, TypeInv, TypeOK, ActTypeOK, hostVars, coreVars, guardVars, actVars,
           lcVars
<1>30. CASE BeginRestart
  <2>1. op' \in Ops /\ snap' \in Snaps /\ CurIsGen'
    <3>1. CASE snap.state = "stopped"
      BY <1>30, <3>1, StartFromType DEF BeginRestart
    <3>2. CASE snap.state # "stopped"
      <4>1. Take("restart", "stDeact") /\ snap' = [snap EXCEPT !.state = "stopping"]
        BY <1>30, <3>2 DEF BeginRestart
      <4>2. op' \in Ops /\ op'.kind = "restart" /\ op'.pc = "stDeact"
        BY <4>1, TakeType DEF Kinds, Pcs
      <4>3. QED
        BY <1>0, <4>1, <4>2, SnapFields, SnapUpdate
           DEF CurIsGen, Replacing, Replacements, States
    <3>3. QED
      BY <3>1, <3>2
  <2>2. QED
    BY <1>0, <1>30, <2>1
       DEF BeginRestart, TypeInv, TypeOK, ActTypeOK, hostVars, coreVars, guardVars, actVars,
           lcVars
<1>31. CASE SwitchSelection
  BY <1>0, <1>31
     DEF SwitchSelection, TypeInv, TypeOK, ActTypeOK, hostVars, coreVars, guardVars,
         actVars, lcVars, CurIsGen, AtPc, Replacing
<1>32. CASE SetPolicy
  <2>1. guard' \in {"off", "on", "expired"} /\ gstat' \in GuardStatus
    BY <1>32, GuardRemoveType DEF SetPolicy, GuardRemove, TypeInv, TypeOK, guardVars
  <2>2. /\ UNCHANGED <<actVars, mgr, argv, mon, selected, hot, coreVars, snap, op, files>>
        /\ policy' \in BOOLEAN /\ guardOn' \in BOOLEAN
    BY <1>32 DEF SetPolicy, guardVars, GuardRemoved, GuardNotRemoved, TypeInv, TypeOK
  <2>3. ActTypeOK' /\ CurIsGen'
    BY <1>0, <2>2 DEF ActTypeOK, actVars, CurIsGen, AtPc, Replacing
  <2>4. QED
    BY <1>0, <2>1, <2>2, <2>3 DEF TypeInv, TypeOK, coreVars
<1>33. CASE \E k \in {"switch", "reconf", "reload"} \intersect Offered : BeginOnRunning(k)
  <2>1. PICK k \in {"switch", "reconf", "reload"} : BeginOnRunning(k)
    BY <1>33
  <2>2. op' \in Ops /\ op'.pc = "prepare"
    BY <2>1, TakeType DEF BeginOnRunning, Kinds, Pcs, Replacements
  <2>3. QED
    BY <1>0, <2>1, <2>2
       DEF BeginOnRunning, CurIsGen, AtPc, TypeInv, TypeOK, ActTypeOK, hostVars, coreVars,
           guardVars, actVars, lcVars
<1>34. CASE MonitorFailsOpen
  <2>1. op' \in Ops /\ op'.kind = "monitor" /\ op'.pc = "stDeact"
    BY <1>34, TakeType DEF MonitorFailsOpen, Kinds, Pcs
  <2>2. snap' \in Snaps
    BY <1>0, <1>34, SnapFields, SnapUpdate DEF MonitorFailsOpen, States
  <2>3. CurIsGen'
    BY <2>1 DEF CurIsGen, Replacing, Replacements
  <2>4. QED
    BY <1>0, <1>34, <2>1, <2>2, <2>3
       DEF MonitorFailsOpen, TypeInv, TypeOK, ActTypeOK, hostVars, coreVars, guardVars,
           actVars, lcVars
<1>35. CASE MonitorSeesCleanupFailed
  BY <1>0, <1>35
     DEF MonitorSeesCleanupFailed, TypeInv, TypeOK, ActTypeOK, hostVars, coreVars,
         guardVars, actVars, lcVars, CurIsGen, AtPc, Replacing
<1>36. CASE MonitorRetries
  <2>1. op' \in Ops /\ snap' \in Snaps /\ CurIsGen'
    BY <1>36, StopFromType DEF MonitorRetries
  <2>2. QED
    BY <1>0, <1>36, <2>1
       DEF MonitorRetries, TypeInv, TypeOK, ActTypeOK, hostVars, coreVars, guardVars,
           actVars, lcVars
<1>37. CASE RetryGuardCleanup
  BY <1>0, <1>37, GuardRemoveType
     DEF RetryGuardCleanup, TypeInv, TypeOK, ActTypeOK, hostVars, coreVars, guardVars,
         actVars, lcVars, CurIsGen, AtPc, Replacing
<1>38. CASE ManagerStart
  BY <1>0, <1>38, GuardRemoveType
     DEF ManagerStart, TypeInv, TypeOK, ActTypeOK, hostVars, coreVars, guardVars, actVars,
         lcVars, CurIsGen, AtPc, Replacing
<1>39. CASE Adopt
  <2>1. op' \in Ops /\ snap' \in Snaps /\ CurIsGen'
    <3>1. CASE core = NoGen
      BY <1>0, <1>39, <3>1 DEF Adopt, CurIsGen, AtPc, Replacing
    <3>2. CASE core # NoGen /\ ProfileOf[core] = selected /\ argv = "start"
      <4>1. op' = [Idle EXCEPT !.kind = "recover", !.pc = "ready1", !.cur = core]
            /\ snap' = [state |-> "starting", prepared |-> core, health |-> TRUE]
        BY <1>39, <3>2 DEF Adopt
      <4>2. op' \in Ops /\ op'.kind = "recover" /\ op'.pc = "ready1"
        BY <1>0, <4>1, IdleType DEF Ops, Kinds, Pcs
      <4>3. QED
        BY <1>0, <4>1, <4>2, SnapType DEF CurIsGen, Replacing, Replacements, States
    <3>3. CASE core # NoGen /\ ~(ProfileOf[core] = selected /\ argv = "start")
      <4>1. Take("discard", "stDeact") /\ snap' = [state |-> "stopping", prepared |-> core, health |-> TRUE]
        BY <1>39, <3>3 DEF Adopt
      <4>2. op' \in Ops /\ op'.kind = "discard" /\ op'.pc = "stDeact"
        BY <4>1, TakeType DEF Kinds, Pcs
      <4>3. QED
        BY <1>0, <4>1, <4>2, SnapType DEF CurIsGen, Replacing, Replacements, States
    <3>4. QED
      BY <3>1, <3>2, <3>3
  <2>2. QED
    BY <1>0, <1>39, <2>1
       DEF Adopt, TypeInv, TypeOK, ActTypeOK, hostVars, coreVars, guardVars, actVars, lcVars
<1>40. CASE Serve
  <2>1. op' \in Ops /\ snap' \in Snaps /\ CurIsGen'
    BY <1>0, <1>40, StopFromType, StartFromType DEF Serve, CurIsGen, AtPc, Replacing
  <2>2. QED
    BY <1>0, <1>40, <2>1
       DEF Serve, TypeInv, TypeOK, ActTypeOK, hostVars, coreVars, guardVars, actVars, lcVars
<1>41. CASE Terminate
  BY <1>0, <1>41
     DEF Terminate, TypeInv, TypeOK, ActTypeOK, hostVars, coreVars, guardVars, actVars,
         lcVars, CurIsGen, AtPc, Replacing
<1>42. CASE ShutdownStop
  <2>1. op' \in Ops /\ snap' \in Snaps /\ CurIsGen'
    BY <1>42, StopFromType DEF ShutdownStop
  <2>2. QED
    BY <1>0, <1>42, <2>1
       DEF ShutdownStop, TypeInv, TypeOK, ActTypeOK, hostVars, coreVars, guardVars, actVars,
           lcVars
<1>43. CASE Exit
  BY <1>0, <1>43, GoneType
     DEF Exit, Gone, TypeInv, TypeOK, ActTypeOK, hostVars, coreVars, guardVars, actVars,
         lcVars
<1>44. CASE ManagerCrash
  BY <1>0, <1>44, GoneType
     DEF ManagerCrash, Gone, AbandonCall, TypeInv, TypeOK, ActTypeOK, hostVars, coreVars,
         guardVars, actVars, lcVars
<1>45. CASE CoreDies
  <2>1. core' \in MaybeGen /\ runs' \in MaybeGen /\ halfDone' \in BOOLEAN /\ files' \subseteq Gens
    BY <1>0, <1>45 DEF CoreDies, Records, MaybeGen
  <2>2. UNCHANGED <<actVars, hostVars, slot, snap, op, guardVars>>
    BY <1>45 DEF CoreDies
  <2>3. QED
    BY <1>0, <2>1, <2>2
       DEF TypeInv, TypeOK, ActTypeOK, hostVars, coreVars, guardVars, actVars, CurIsGen, AtPc, Replacing
<1>46. CASE GuardExpires
  BY <1>0, <1>46
     DEF GuardExpires, TypeInv, TypeOK, ActTypeOK, hostVars, coreVars, guardVars, actVars,
         lcVars, CurIsGen, AtPc, Replacing
<1>47. CASE HotplugEvent
  BY <1>0, <1>47
     DEF HotplugEvent, TypeInv, TypeOK, ActTypeOK, hostVars, coreVars, guardVars, actVars,
         lcVars, CurIsGen, AtPc, Replacing
<1>48. CASE HotplugBegin
  <2>1. ActTypeOK'
    BY <1>0, <1>48
       DEF HotplugBegin, TypeInv, TypeOK, ActTypeOK, actVars, BeginCall, Calls
  <2>2. hot' \in BOOLEAN /\ UNCHANGED <<mgr, argv, mon, selected, policy, coreVars, snap, op, files, guardVars>>
    BY <1>48 DEF HotplugBegin
  <2>3. CurIsGen'
    BY <1>0, <2>2 DEF CurIsGen, AtPc, Replacing
  <2>4. QED
    BY <1>0, <2>1, <2>2, <2>3 DEF TypeInv, TypeOK, coreVars, guardVars
<1>49. CASE HotplugStep
  <2>1. ActTypeOK'
    BY <1>0, <1>49, ActStepType DEF HotplugStep, ActNext, Calls
  <2>2. QED
    BY <1>0, <1>49, <2>1 DEF HotplugStep, TypeInv, TypeOK, lcVars, CurIsGen, AtPc, Replacing
<1>50. CASE CleanupStep
  <2>1. ActTypeOK' /\ guard' \in {"off", "on", "expired"}
    <3>1. ActNext
      BY <1>50 DEF CleanupStep, ActNext, Calls
    <3>2. guard' \in {guard, "off"}
      BY <1>50 DEF CleanupStep
    <3>3. QED
      BY <1>0, <3>1, <3>2, ActStepType DEF TypeInv, TypeOK
  <2>2. QED
    BY <1>0, <1>50, <2>1
       DEF CleanupStep, TypeInv, TypeOK, hostVars, coreVars, CurIsGen, AtPc, Replacing
<1>51. CASE UNCHANGED vars
  BY <1>0, <1>51
     DEF vars, TypeInv, TypeOK, ActTypeOK, hostVars, coreVars, guardVars, actVars, lcVars,
         CurIsGen, AtPc, Replacing
<1>52. CASE Reboot
  <2>1. op' \in Ops /\ snap' \in Snaps /\ gstat' \in GuardStatus /\ CurIsGen'
    BY <1>52, IdleType, NoSnapType, NoGuardType DEF Reboot, Records, CurIsGen, AtPc
  <2>2. QED
    BY <1>0, <1>52, <2>1 DEF Reboot, Records, LoseCapture, TypeInv, TypeOK, ActTypeOK, MaybeGen
<1>53. QED
  BY <1>1, <1>2, <1>3, <1>4, <1>5, <1>6, <1>7, <1>8, <1>9, <1>10, <1>11, <1>12, <1>13,
       <1>14, <1>15, <1>16, <1>17, <1>18, <1>19, <1>20, <1>21, <1>22, <1>23, <1>24, <1>25,
       <1>26, <1>27, <1>28, <1>29, <1>30, <1>31, <1>32, <1>33, <1>34, <1>35, <1>36, <1>37,
       <1>38, <1>39, <1>40, <1>41, <1>42, <1>43, <1>44, <1>45, <1>46, <1>47, <1>48, <1>49,
       <1>50, <1>51, <1>52 DEF Next, OpStep, UserOp, Monitor, Process, Fault, OneShot

\* TypeOK: the published snapshot, the operation under way, the guard and the
\* contract keep their types through every operation, fault and one-shot.
THEOREM TypeCorrect == Spec => []TypeOK
<1>1. Spec => []TypeInv
  BY TypeInit, TypeStep, PTL DEF Spec
<1>2. TypeInv => TypeOK
  BY DEF TypeInv
<1>3. QED
  BY <1>1, <1>2, PTL

-----------------------------------------------------------------------------
(* Fail-open.  FailOpen alone is not inductive: it needs what every step   *)
(* of an operation knows about the published state (StateAtPc), and that   *)
(* nothing is owned already while the core is being stopped (Released).    *)

NothingOwned == owned = {} /\ ~recorded /\ call \notin {"activate", "reconcile"}
StartingUp == op.kind \in {"start", "restart"}

\* Only the operation that is activating holds an Activate transaction.
ActivateHeld == call = "activate" => op.pc = "activate"

\* The state a lifecycle operation has published at each of its steps.
StateAtPc ==
    /\ AtPc({"coreStart", "ready1", "activate", "ready2", "verify"}) => snap.state = "starting"
    /\ AtPc({"commit", "guardBegin", "reload"}) => snap.state = "running"
    /\ AtPc({"prepare"}) => snap.state = (IF StartingUp THEN "starting" ELSE "running")
    /\ AtPc({"stDeact", "stStop"}) => snap.state = "stopping"
    /\ AtPc({"idle", "finish", "guardOff"}) => snap.state \notin {"starting", "stopping"}

\* Where the code relies on a completed Deactivate.
Released ==
    \/ snap.state \in {"stopped", "failed"}
    \/ AtPc({"rbStop", "stStop"})
    \/ AtPc({"prepare"}) /\ StartingUp

ReleasedOwnsNothing == Released => NothingOwned

\* A manager that has not adopted yet runs no operation.
BootIdle == mgr \in {"down", "adopting"} => op = Idle /\ snap = NoSnap

StaleIsStart == op.why = "stale" => StartingUp

SafeInv ==
    /\ TypeInv
    /\ ActivateHeld /\ StateAtPc /\ ReleasedOwnsNothing /\ BootIdle /\ StaleIsStart
    /\ StoppedMeansStopped

\* Where an operation returns, and what it keeps of its record.
LEMMA ReturnShape ==
    ASSUME TypeInv, NEW f, Return(f)
    PROVE  op'.pc \in {"idle", "finish", "guardOff"} /\ (op'.why = "stale" => op'.kind = op.kind /\ op.why = "stale")
<1>1. op \in Ops
  BY DEF TypeInv, TypeOK
<1>2. CASE guardOn \/ GuardOffDue
  <2>1. op' = [op EXCEPT !.pc = IF guardOn THEN "finish" ELSE "guardOff", !.cur = NoGen]
    BY <1>2 DEF Return
  <2>2. QED
    BY <1>1, <2>1 DEF Ops
<1>3. CASE ~(guardOn \/ GuardOffDue)
  BY <1>3 DEF Return, Idle
<1>4. QED
  BY <1>2, <1>3

LEMMA SafeInit == Init => SafeInv
BY TypeInit, IdleType, NoSnapType
   DEF Init, ActInit, SafeInv, ActivateHeld, StateAtPc, Released, ReleasedOwnsNothing, BootIdle,
       StaleIsStart, StartingUp, StoppedMeansStopped, NothingOwned, AtPc, Idle, NoSnap

\* The steps shared by several actions keep the invariant.
LEMMA StartedSafe ==
    ASSUME SafeInv, TypeInv', op.pc \in {"ready2", "verify"}, Started, UNCHANGED <<actVars, mgr, slot, core>>
    PROVE  SafeInv'
<1> USE DEF AtPc, StartingUp, NothingOwned, ActivateHeld, StateAtPc, Released, ReleasedOwnsNothing, BootIdle, StaleIsStart, StoppedMeansStopped
<1>1. op \in Ops /\ TypeInv
  BY DEF SafeInv, TypeInv, TypeOK
<1>2. snap'.state = "running"
  BY DEF Started
<1>3. /\ op'.pc \in {"commit", "idle", "finish", "guardOff"}
      /\ (op'.why = "stale" => op'.kind = op.kind /\ op.why = "stale")
  <2>1. CASE Replacing /\ ~op.restore
    BY <1>1, <2>1 DEF Started, Ops
  <2>2. CASE ~(Replacing /\ ~op.restore)
    BY <1>1, <2>2, ReturnShape DEF Started
  <2>3. QED
    BY <2>1, <2>2
<1>4. QED
  BY <1>2, <1>3, IdleType DEF SafeInv, actVars

LEMMA StartFromSafe ==
    ASSUME SafeInv, TypeInv', op.pc = "idle", snap.state \notin {"running", "cleanup-failed"},
           NEW k \in {"start", "restart"}, StartFrom(k),
           mgr' \notin {"down", "adopting"}, UNCHANGED <<actVars, slot, core>>
    PROVE  SafeInv'
<1> USE DEF AtPc, StartingUp, NothingOwned, ActivateHeld, StateAtPc, Released, ReleasedOwnsNothing, BootIdle, StaleIsStart, StoppedMeansStopped
<1>1. snap \in Snaps /\ snap.state \in States
  BY SnapFields DEF SafeInv, TypeInv, TypeOK
<1>2. CASE snap.state \in {"unset", "failed"}
  <2>1. op'.pc = "rbDeact" /\ op'.kind = k /\ snap' = snap
    BY <1>2 DEF StartFrom, Idle
  <2>2. QED
    BY <1>2, <2>1 DEF SafeInv, actVars
<1>3. CASE snap.state \notin {"unset", "failed"}
  <2>1. snap.state = "stopped"
    BY <1>1, <1>3 DEF States, SafeInv
  <2>2. Take(k, "prepare") /\ snap' = [snap EXCEPT !.state = "starting"]
    BY <1>3 DEF StartFrom
  <2>3. op'.pc = "prepare" /\ op'.kind = k /\ op'.why = "none" /\ snap'.state = "starting"
    BY <1>1, <2>2, SnapState, TakeShape
  <2>4. QED
    BY <2>1, <2>3 DEF SafeInv, actVars
<1>4. QED
  BY <1>2, <1>3

LEMMA StopFromSafe ==
    ASSUME SafeInv, TypeInv', op.pc = "idle",
           NEW k \in {"stop", "clean", "retry", "shutdown"}, StopFrom(k),
           mgr' \notin {"down", "adopting"}, UNCHANGED <<actVars, slot, core>>
    PROVE  SafeInv'
<1> USE DEF AtPc, StartingUp, NothingOwned, ActivateHeld, StateAtPc, Released, ReleasedOwnsNothing, BootIdle, StaleIsStart, StoppedMeansStopped
<1>1. snap \in Snaps
  BY DEF SafeInv, TypeInv, TypeOK
<1>2. CASE snap.state = "stopped" /\ k # "clean"
  <2>1. (op' = Idle \/ op' = [Idle EXCEPT !.kind = k, !.pc = "guardOff"]) /\ snap' = snap
    BY <1>2 DEF StopFrom
  <2>2. op'.pc \in {"guardOff", "idle"} /\ op'.why = "none"
    <3>1. CASE op' = Idle
      BY <3>1 DEF Idle
    <3>2. CASE op' = [Idle EXCEPT !.kind = k, !.pc = "guardOff"]
      BY <3>2 DEF Idle
    <3>3. QED
      BY <2>1, <3>1, <3>2
  <2>3. QED
    BY <1>2, <2>1, <2>2 DEF SafeInv, actVars
<1>3. CASE ~(snap.state = "stopped" /\ k # "clean")
  <2>1. Take(k, "stDeact") /\ snap' = [snap EXCEPT !.state = "stopping"]
    BY <1>3 DEF StopFrom
  <2>2. op'.pc = "stDeact" /\ op'.why = "none" /\ snap'.state = "stopping"
    BY <1>1, <2>1, SnapState, TakeShape
  <2>3. QED
    BY <2>2 DEF SafeInv, actVars
<1>4. QED
  BY <1>2, <1>3

LEMMA SafeStep == SafeInv /\ [Next]_vars => SafeInv'
<1> SUFFICES ASSUME SafeInv, [Next]_vars PROVE SafeInv'
  OBVIOUS
<1> USE DEF AtPc, StartingUp, NothingOwned, ActivateHeld, StateAtPc, Released, ReleasedOwnsNothing, BootIdle, StaleIsStart, StoppedMeansStopped
<1>0. /\ TypeInv /\ op \in Ops /\ snap \in Snaps
      /\ snap.state \in States /\ op.pc \in Pcs
      /\ ActivateHeld /\ StateAtPc /\ ReleasedOwnsNothing /\ BootIdle /\ StaleIsStart /\ StoppedMeansStopped
  BY SnapFields DEF SafeInv, TypeInv, TypeOK, Ops
<1>00. TypeInv'
  BY TypeStep DEF SafeInv
<1>1. CASE PrepareOK
  <2>1. op.pc = "prepare" /\ op'.kind = op.kind /\ op'.why = op.why
    BY <1>0, <1>1 DEF PrepareOK, Ops
  <2>2. \/ StartingUp /\ op'.pc = "coreStart" /\ snap'.state = "starting"
        \/ ~StartingUp /\ op'.pc \in {"reload", "guardBegin"} /\ snap' = snap
    <3>1. PICK g \in Fresh(IF op.kind = "switch" THEN Profiles \ {selected} ELSE {selected}) : PrepareOK!2!(g)
      BY <1>1 DEF PrepareOK
    <3>2. CASE StartingUp
      <4>1. op' = [op EXCEPT !.pc = "coreStart", !.cur = g] /\ StartCore(g)
        BY <3>1, <3>2 DEF Replacing, Replacements
      <4>2. QED
        BY <1>0, <3>2, <4>1 DEF StartCore, Ops
    <3>3. CASE ~StartingUp
      BY <1>0, <3>1, <3>3 DEF Ops
    <3>4. QED
      BY <3>2, <3>3
  <2>3. QED
    BY <1>0, <1>00, <1>1, <2>1, <2>2, IdleType
       DEF PrepareOK, SafeInv, hostVars, coreVars, guardVars, actVars
<1>2. CASE PrepareFails
  <2>1. op.pc \in {"prepare"}
    BY <1>2 DEF PrepareFails
  <2>2. op'.pc \in {"idle", "finish", "guardOff"} /\ (op'.why = "stale" => op'.kind = op.kind /\ op.why = "stale")
    BY <1>0, <1>2, <2>1, ReturnShape, IdleType DEF PrepareFails, Ops
  <2>3. snap'.state = (IF StartingUp THEN "failed" ELSE snap.state)
    BY <1>0, <1>2, SnapFields, SnapUpdate DEF PrepareFails, States
  <2>4. QED
    BY <1>0, <1>00, <1>2, <2>1, <2>2, <2>3, IdleType
       DEF PrepareFails, SafeInv, hostVars, coreVars, guardVars, actVars, lcVars
<1>3. CASE GuardSkipped
  <2>1. op.pc \in {"guardBegin"}
    BY <1>3 DEF GuardSkipped
  <2>2. op'.pc = "stDeact" /\ op'.kind = op.kind /\ op'.why = op.why
    BY <1>0, <1>3, <2>1, IdleType DEF GuardSkipped, StopOld, Ops
  <2>3. snap'.state = "stopping"
    BY <1>0, <1>3, SnapFields, SnapUpdate DEF GuardSkipped, StopOld, States
  <2>4. QED
    BY <1>0, <1>00, <1>3, <2>1, <2>2, <2>3, IdleType
       DEF GuardSkipped, SafeInv, hostVars, coreVars, guardVars, actVars, lcVars
<1>4. CASE GuardInstalled
  <2>1. op.pc \in {"guardBegin"}
    BY <1>4 DEF GuardInstalled
  <2>2. op'.pc = "stDeact" /\ op'.kind = op.kind /\ op'.why = op.why
    BY <1>0, <1>4, <2>1, IdleType DEF GuardInstalled, StopOld, Ops
  <2>3. snap'.state = "stopping"
    BY <1>0, <1>4, SnapFields, SnapUpdate DEF GuardInstalled, StopOld, States
  <2>4. QED
    BY <1>0, <1>00, <1>4, <2>1, <2>2, <2>3, IdleType
       DEF GuardInstalled, SafeInv, hostVars, coreVars, guardVars, actVars, lcVars
<1>5. CASE GuardFails
  BY <1>0, <1>00, <1>5
     DEF GuardFails, Idle, SafeInv, Ops, Snaps, hostVars, coreVars, guardVars, actVars, lcVars
<1>6. CASE CoreStartOK
  <2>1. op.pc \in {"coreStart"}
    BY <1>6 DEF CoreStartOK, Records
  <2>2. op'.pc = "ready1" /\ op'.kind = op.kind /\ op'.why = op.why
    BY <1>0, <1>6, <2>1, IdleType DEF CoreStartOK, Records, Ops
  <2>3. snap' = snap
    BY <1>0, <1>6, SnapFields, SnapUpdate DEF CoreStartOK, Records, States
  <2>4. QED
    BY <1>0, <1>00, <1>6, <2>1, <2>2, <2>3, IdleType
       DEF CoreStartOK, Records, SafeInv, hostVars, coreVars, guardVars, actVars, lcVars
<1>7. CASE CoreStartFails
  <2>1. op.pc \in {"coreStart"}
    BY <1>7 DEF CoreStartFails
  <2>2. op'.pc = "rbDeact" /\ op'.kind = op.kind /\ op'.why = "start"
    BY <1>0, <1>7, <2>1, IdleType DEF CoreStartFails, RollBack, Ops
  <2>3. snap' = snap
    BY <1>0, <1>7, SnapFields, SnapUpdate DEF CoreStartFails, RollBack, States
  <2>4. QED
    BY <1>0, <1>00, <1>7, <2>1, <2>2, <2>3, IdleType
       DEF CoreStartFails, SafeInv, hostVars, coreVars, guardVars, actVars, lcVars
<1>8. CASE Ready
  <2>1. CASE op.pc = "ready2" /\ Started
    <3>1. UNCHANGED <<actVars, mgr, slot, core>>
      BY <1>8 DEF Ready, hostVars, coreVars
    <3>2. QED
      BY <1>0, <1>00, <2>1, <3>1, StartedSafe
  <2>2. CASE ~(op.pc = "ready2" /\ Started)
    <3>1. op' = [op EXCEPT !.pc = IF op.pc = "ready1" THEN "activate" ELSE "verify"] /\ op.pc \in {"ready1", "ready2"}
      BY <1>8, <2>2 DEF Ready
    <3>2. op'.pc \in {"activate", "verify"} /\ op'.kind = op.kind /\ op'.why = op.why
      BY <1>0, <3>1 DEF Ops
    <3>3. snap'.state = snap.state
      <4>1. snap' = [snap EXCEPT !.health = TRUE]
        BY <1>8, <2>2 DEF Ready
      <4>2. QED
        BY <1>0, <4>1, SnapHealth
    <3>4. QED
      BY <1>0, <1>00, <1>8, <3>1, <3>2, <3>3, IdleType
         DEF Ready, SafeInv, hostVars, coreVars, actVars
  <2>3. QED
    BY <2>1, <2>2
<1>9. CASE NotReady
  <2>1. op.pc \in {"ready1", "ready2"}
    BY <1>9 DEF NotReady
  <2>2. op'.pc = "rbDeact" /\ op'.kind = op.kind /\ op'.why = "late"
    BY <1>0, <1>9, <2>1, IdleType DEF NotReady, RollBack, Ops
  <2>3. snap'.state = snap.state
    BY <1>0, <1>9, SnapFields, SnapUpdate DEF NotReady, RollBack, States
  <2>4. QED
    BY <1>0, <1>00, <1>9, <2>1, <2>2, <2>3, IdleType
       DEF NotReady, SafeInv, hostVars, coreVars, guardVars, actVars, lcVars
<1>10. CASE VerifyOK
  BY <1>0, <1>00, <1>10, StartedSafe DEF VerifyOK, hostVars, coreVars
<1>11. CASE VerifyFails
  <2>1. op.pc \in {"verify"}
    BY <1>11 DEF VerifyFails
  <2>2. op'.pc = "rbDeact" /\ op'.kind = op.kind /\ op'.why = "late"
    BY <1>0, <1>11, <2>1, IdleType DEF VerifyFails, RollBack, Ops
  <2>3. snap' = snap
    BY <1>0, <1>11, SnapFields, SnapUpdate DEF VerifyFails, RollBack, States
  <2>4. QED
    BY <1>0, <1>00, <1>11, <2>1, <2>2, <2>3, IdleType
       DEF VerifyFails, SafeInv, hostVars, coreVars, guardVars, actVars, lcVars
<1>12. CASE CommitOK
  <2>1. op.pc \in {"commit"}
    BY <1>12 DEF CommitOK
  <2>2. op'.pc \in {"idle", "finish", "guardOff"} /\ (op'.why = "stale" => op'.kind = op.kind /\ op.why = "stale")
    BY <1>0, <1>12, <2>1, ReturnShape, IdleType DEF CommitOK, Ops
  <2>3. snap' = snap
    BY <1>0, <1>12, SnapFields, SnapUpdate DEF CommitOK, States
  <2>4. QED
    BY <1>0, <1>00, <1>12, <2>1, <2>2, <2>3, IdleType
       DEF CommitOK, SafeInv, hostVars, coreVars, guardVars, actVars, lcVars
<1>13. CASE CommitFails
  <2>1. op.pc \in {"commit"}
    BY <1>13 DEF CommitFails
  <2>2. op'.pc = "stDeact" /\ op'.kind = op.kind /\ op'.why = op.why
    BY <1>0, <1>13, <2>1, IdleType DEF CommitFails, Ops
  <2>3. snap'.state = "stopping"
    BY <1>0, <1>13, SnapFields, SnapUpdate DEF CommitFails, States
  <2>4. QED
    BY <1>0, <1>00, <1>13, <2>1, <2>2, <2>3, IdleType
       DEF CommitFails, SafeInv, hostVars, coreVars, guardVars, actVars, lcVars
<1>14. CASE ActBegin
  BY <1>0, <1>00, <1>14
     DEF ActBegin, ActCall, BeginCall, SafeInv, Ops, Snaps, hostVars, coreVars, guardVars, actVars, lcVars
<1>15. CASE ActStep
  BY <1>0, <1>00, <1>15
     DEF ActStep, ActCall, Install, Remove, SafeInv, Ops, Snaps, hostVars, coreVars, guardVars, actVars, lcVars
<1>16. CASE ActivateOK
  <2>1. op.pc \in {"activate"}
    BY <1>16 DEF ActivateOK
  <2>2. op'.pc = "ready2" /\ op'.kind = op.kind /\ op'.why = op.why
    BY <1>0, <1>16, <2>1, IdleType DEF ActivateOK, Ops
  <2>3. snap' = snap
    BY <1>0, <1>16, SnapFields, SnapUpdate DEF ActivateOK, States
  <2>4. QED
    BY <1>0, <1>00, <1>16, <2>1, <2>2, <2>3, IdleType
       DEF ActivateOK, InstalledOK, SafeInv, hostVars, coreVars, guardVars, actVars, lcVars
<1>17. CASE ActivateFails
  <2>1. op.pc \in {"activate"}
    BY <1>17 DEF ActivateFails
  <2>2. op'.pc = "rbDeact" /\ op'.kind = op.kind /\ op'.why = "late"
    BY <1>0, <1>17, <2>1, IdleType DEF ActivateFails, RollBack, Ops
  <2>3. snap' = snap
    BY <1>0, <1>17, SnapFields, SnapUpdate DEF ActivateFails, RollBack, States
  <2>4. QED
    BY <1>0, <1>00, <1>17, <2>1, <2>2, <2>3, IdleType
       DEF ActivateFails, ActFailed, AbandonCall, ActCall, SafeInv, hostVars, coreVars,
           guardVars, actVars, lcVars
<1>18. CASE DeactivateOK
  <2>1. op.pc \in {"rbDeact", "stDeact"}
    BY <1>18 DEF DeactivateOK
  <2>2. op'.pc = (IF op.pc = "rbDeact" THEN "rbStop" ELSE "stStop") /\ op'.kind = op.kind /\ op'.why = op.why
    BY <1>0, <1>18, <2>1, IdleType DEF DeactivateOK, Ops
  <2>3. snap' = snap
    BY <1>0, <1>18, SnapFields, SnapUpdate DEF DeactivateOK, States
  <2>4. QED
    BY <1>0, <1>00, <1>18, <2>1, <2>2, <2>3, IdleType
       DEF DeactivateOK, RemovedOK, SafeInv, hostVars, coreVars, guardVars, actVars, lcVars
<1>19. CASE DeactivateFails
  <2>1. op.pc \in {"rbDeact", "stDeact"}
    BY <1>19 DEF DeactivateFails
  <2>2. op'.pc \in {"idle", "finish", "guardOff"} /\ (op'.why = "stale" => op'.kind = op.kind /\ op.why = "stale")
    BY <1>0, <1>19, <2>1, ReturnShape, IdleType DEF DeactivateFails, Ops
  <2>3. snap'.state = "cleanup-failed"
    BY <1>0, <1>19, SnapFields, SnapUpdate DEF DeactivateFails, States
  <2>4. QED
    BY <1>0, <1>00, <1>19, <2>1, <2>2, <2>3, IdleType
       DEF DeactivateFails, ActFailed, AbandonCall, ActCall, SafeInv, hostVars, coreVars,
           guardVars, actVars, lcVars
<1>20. CASE StopOK
  <2>0. op.pc = "stStop" /\ core' = NoGen /\ slot' = FALSE
    BY <1>20 DEF StopOK, Records, StopProcess
  <2>1. \/ op'.pc = "coreStart" /\ op'.kind = op.kind /\ op'.why = op.why /\ snap'.state = "starting"
        \/ op'.pc = "prepare" /\ op.kind = "restart" /\ op'.kind = op.kind /\ op'.why = op.why /\ snap'.state = "starting"
        \/ /\ op'.pc \in {"idle", "finish", "guardOff"} /\ (op'.why = "stale" => op'.kind = op.kind /\ op.why = "stale")
           /\ snap'.state = "stopped"
    <3>1. CASE Restore
      BY <1>0, <3>1 DEF Restore, Ops
    <3>2. CASE op' = [op EXCEPT !.pc = "coreStart"] /\ snap' = [state |-> "starting", prepared |-> op.cur, health |-> FALSE]
      BY <1>0, <3>2 DEF Ops
    <3>3. CASE /\ op.kind = "restart" /\ op' = [op EXCEPT !.pc = "prepare"]
               /\ snap' = [state |-> "starting", prepared |-> NoGen, health |-> FALSE]
      BY <1>0, <3>3 DEF Ops
    <3>4. CASE /\ snap' = [state |-> "stopped", prepared |-> NoGen, health |-> FALSE]
               /\ Return(files \ {core, snap.prepared})
      BY <1>0, <3>4, ReturnShape
    <3>5. QED
      BY <1>20, <3>1, <3>2, <3>3, <3>4 DEF StopOK, Records
  <2>2. QED
    BY <1>0, <1>00, <1>20, <2>0, <2>1, IdleType DEF StopOK, Records, SafeInv, hostVars, actVars
<1>21. CASE StopFails
  <2>1. op.pc \in {"stStop"}
    BY <1>21 DEF StopFails
  <2>2. op'.pc \in {"idle", "finish", "guardOff"} /\ (op'.why = "stale" => op'.kind = op.kind /\ op.why = "stale")
    BY <1>0, <1>21, <2>1, ReturnShape, IdleType DEF StopFails, Ops
  <2>3. snap'.state = "failed"
    BY <1>0, <1>21, SnapFields, SnapUpdate DEF StopFails, States
  <2>4. QED
    BY <1>0, <1>00, <1>21, <2>1, <2>2, <2>3, IdleType
       DEF StopFails, SafeInv, hostVars, coreVars, guardVars, actVars, lcVars
<1>22. CASE RollbackOK
  <2>0. op.pc = "rbStop" /\ core' = NoGen /\ slot' = FALSE
    BY <1>22 DEF RollbackOK, Records, StopProcess
  <2>1. \/ op'.pc = "coreStart" /\ op'.kind = op.kind /\ op'.why = op.why /\ snap'.state = "starting"
        \/ op'.pc = "prepare" /\ op.why = "stale" /\ op'.kind = op.kind /\ op'.why = "none" /\ snap'.state = "starting"
        \/ /\ op'.pc \in {"idle", "finish", "guardOff"} /\ (op'.why = "stale" => op'.kind = op.kind /\ op.why = "stale")
           /\ snap'.state = "failed"
    <3>1. CASE Restore
      BY <1>0, <3>1 DEF Restore, Ops
    <3>2. CASE /\ op.why = "stale" /\ op' = [op EXCEPT !.pc = "prepare", !.why = "none"]
               /\ snap' = [state |-> "starting", prepared |-> NoGen, health |-> FALSE]
      BY <1>0, <3>2 DEF Ops
    <3>3. CASE /\ snap' = [state |-> "failed", prepared |-> NoGen, health |-> FALSE]
               /\ Return(files \ {core, op.cur})
      BY <1>0, <3>3, ReturnShape
    <3>4. QED
      BY <1>22, <3>1, <3>2, <3>3 DEF RollbackOK, Records
  <2>2. QED
    BY <1>0, <1>00, <1>22, <2>0, <2>1, IdleType DEF RollbackOK, Records, SafeInv, hostVars, actVars
<1>23. CASE RollbackStopFails
  <2>0. op.pc = "rbStop"
    BY <1>23 DEF RollbackStopFails
  <2>1. \/ op'.pc = "coreStart" /\ op'.kind = op.kind /\ op'.why = op.why /\ snap'.state = "starting"
        \/ /\ op'.pc \in {"idle", "finish", "guardOff"} /\ (op'.why = "stale" => op'.kind = op.kind /\ op.why = "stale")
           /\ snap'.state = "failed"
    <3>1. CASE Restore
      BY <1>0, <3>1 DEF Restore, Ops
    <3>2. CASE ~Restore
      <4>1. snap' = [snap EXCEPT !.state = "failed"] /\ Return(IF op.why = "start" THEN files \ {op.cur} ELSE files)
        BY <1>23, <3>2 DEF RollbackStopFails
      <4>2. QED
        BY <1>0, <4>1, ReturnShape, SnapState
    <3>3. QED
      BY <3>1, <3>2
  <2>2. QED
    BY <1>0, <1>00, <1>23, <2>0, <2>1, IdleType
       DEF RollbackStopFails, SafeInv, hostVars, coreVars, actVars
<1>24. CASE ReloadOK
  <2>1. op.pc \in {"reload"}
    BY <1>24 DEF ReloadOK, Records
  <2>2. op'.pc \in {"idle", "finish", "guardOff"} /\ (op'.why = "stale" => op'.kind = op.kind /\ op.why = "stale")
    BY <1>0, <1>24, <2>1, ReturnShape, IdleType DEF ReloadOK, Records, Ops
  <2>3. snap'.state = snap.state
    BY <1>0, <1>24, SnapFields, SnapUpdate DEF ReloadOK, Records, Ops
  <2>4. QED
    BY <1>0, <1>00, <1>24, <2>1, <2>2, <2>3, IdleType
       DEF ReloadOK, Records, SafeInv, hostVars, coreVars, guardVars, actVars, lcVars
<1>25. CASE ReloadFails
  <2>1. op.pc \in {"reload"}
    BY <1>25 DEF ReloadFails
  <2>2. op'.pc \in {"idle", "finish", "guardOff"} /\ (op'.why = "stale" => op'.kind = op.kind /\ op.why = "stale")
    BY <1>0, <1>25, <2>1, ReturnShape, IdleType DEF ReloadFails, Ops
  <2>3. snap' = snap
    BY <1>0, <1>25, SnapFields, SnapUpdate DEF ReloadFails, States
  <2>4. QED
    BY <1>0, <1>00, <1>25, <2>1, <2>2, <2>3, IdleType
       DEF ReloadFails, SafeInv, hostVars, coreVars, guardVars, actVars, lcVars
<1>26. CASE ReloadHalfDone
  <2>1. op.pc \in {"reload"}
    BY <1>26 DEF ReloadHalfDone
  <2>2. op'.pc \in {"idle", "finish", "guardOff"} /\ (op'.why = "stale" => op'.kind = op.kind /\ op.why = "stale")
    BY <1>0, <1>26, <2>1, ReturnShape, IdleType DEF ReloadHalfDone, Ops
  <2>3. snap' = snap
    BY <1>0, <1>26, SnapFields, SnapUpdate DEF ReloadHalfDone, States
  <2>4. QED
    BY <1>0, <1>00, <1>26, <2>1, <2>2, <2>3, IdleType
       DEF ReloadHalfDone, SafeInv, hostVars, coreVars, guardVars, actVars, lcVars
<1>27. CASE FinishGuard
  BY <1>0, <1>00, <1>27
     DEF FinishGuard, Idle, SafeInv, Ops, Snaps, hostVars, coreVars, guardVars, actVars, lcVars
<1>28. CASE BeginStart
  <2>1. op.pc = "idle" /\ mgr' \notin {"down", "adopting"} /\ UNCHANGED <<actVars, slot, core>>
    BY <1>28 DEF BeginStart, UserUp, OpIdle, hostVars, coreVars
  <2>2. QED
    BY <1>0, <1>00, <1>28, <2>1, StartFromSafe DEF BeginStart
<1>29. CASE BeginStop
  <2>1. op.pc = "idle" /\ mgr' \notin {"down", "adopting"} /\ UNCHANGED <<actVars, slot, core>>
    BY <1>29 DEF BeginStop, UserUp, OpIdle, hostVars, coreVars
  <2>2. QED
    BY <1>0, <1>00, <1>29, <2>1, StopFromSafe DEF BeginStop
<1>30. CASE BeginRestart
  <2>1. op.pc = "idle" /\ mgr' = mgr /\ mgr = "up" /\ UNCHANGED <<actVars, slot, core>>
    BY <1>30 DEF BeginRestart, UserUp, OpIdle, hostVars, coreVars
  <2>2. CASE snap.state = "stopped"
    BY <1>0, <1>00, <1>30, <2>1, <2>2, StartFromSafe DEF BeginRestart
  <2>3. CASE snap.state # "stopped"
    <3>1. Take("restart", "stDeact") /\ snap' = [snap EXCEPT !.state = "stopping"]
      BY <1>30, <2>3 DEF BeginRestart
    <3>2. op'.pc = "stDeact" /\ op'.why = "none" /\ snap'.state = "stopping"
      BY <1>0, <3>1, SnapState, TakeShape
    <3>3. QED
      BY <1>0, <1>00, <2>1, <3>2 DEF SafeInv, actVars
  <2>4. QED
    BY <2>2, <2>3
<1>31. CASE SwitchSelection
  BY <1>0, <1>00, <1>31
     DEF SwitchSelection, SafeInv, Ops, Snaps, hostVars, coreVars, guardVars, actVars, lcVars
<1>32. CASE SetPolicy
  BY <1>0, <1>00, <1>32
     DEF SetPolicy, SafeInv, Ops, Snaps, hostVars, coreVars, guardVars, actVars, lcVars
<1>33. CASE \E k \in {"switch", "reconf", "reload"} \intersect Offered : BeginOnRunning(k)
  BY <1>0, <1>00, <1>33
     DEF BeginOnRunning, UserUp, OpIdle, Take, Idle, Replacements, SafeInv, Ops, Snaps, hostVars, coreVars,
         guardVars, actVars, lcVars
<1>34. CASE MonitorFailsOpen
  BY <1>0, <1>00, <1>34
     DEF MonitorFailsOpen, UserUp, OpIdle, Take, Idle, SafeInv, Ops, Snaps, hostVars, coreVars, guardVars,
         actVars, lcVars
<1>35. CASE MonitorSeesCleanupFailed
  BY <1>0, <1>00, <1>35
     DEF MonitorSeesCleanupFailed, SafeInv, Ops, Snaps, hostVars, coreVars, guardVars, actVars, lcVars
<1>36. CASE MonitorRetries
  <2>1. op.pc = "idle" /\ mgr' \notin {"down", "adopting"} /\ UNCHANGED <<actVars, slot, core>>
    BY <1>36 DEF MonitorRetries, UserUp, OpIdle, hostVars, coreVars
  <2>2. QED
    BY <1>0, <1>00, <1>36, <2>1, StopFromSafe DEF MonitorRetries
<1>37. CASE RetryGuardCleanup
  BY <1>0, <1>00, <1>37
     DEF RetryGuardCleanup, SafeInv, Ops, Snaps, hostVars, coreVars, guardVars, actVars, lcVars
<1>38. CASE ManagerStart
  BY <1>0, <1>00, <1>38
     DEF ManagerStart, SafeInv, Ops, Snaps, hostVars, coreVars, guardVars, actVars, lcVars
<1>39. CASE Adopt
  <2>1. mgr' = "serving" /\ op = Idle /\ snap = NoSnap /\ UNCHANGED <<actVars, core>>
    BY <1>0, <1>39 DEF Adopt
  <2>2. call # "activate"
    BY <1>0, <2>1, IdleType
  <2>3. CASE core = NoGen
    BY <1>0, <1>00, <1>39, <2>1, <2>3, NoSnapType DEF Adopt, SafeInv, actVars
  <2>4. CASE core # NoGen /\ ProfileOf[core] = selected /\ argv = "start"
    <3>1. /\ op' = [Idle EXCEPT !.kind = "recover", !.pc = "ready1", !.cur = core]
          /\ snap' = [state |-> "starting", prepared |-> core, health |-> TRUE]
      BY <1>39, <2>4 DEF Adopt
    <3>2. op'.pc = "ready1" /\ op'.why = "none" /\ snap'.state = "starting"
      BY <3>1 DEF Idle
    <3>3. QED
      BY <1>0, <1>00, <2>1, <2>2, <3>2 DEF SafeInv, actVars
  <2>5. CASE core # NoGen /\ ~(ProfileOf[core] = selected /\ argv = "start")
    <3>1. /\ Take("discard", "stDeact")
          /\ snap' = [state |-> "stopping", prepared |-> core, health |-> TRUE]
      BY <1>39, <2>5 DEF Adopt
    <3>2. op'.pc = "stDeact" /\ op'.why = "none" /\ snap'.state = "stopping"
      BY <3>1, TakeShape
    <3>3. QED
      BY <1>0, <1>00, <2>1, <2>2, <3>2 DEF SafeInv, actVars
  <2>6. QED
    BY <2>3, <2>4, <2>5
<1>40. CASE Serve
  <2>1. op.pc = "idle" /\ mgr' \notin {"down", "adopting"} /\ UNCHANGED <<actVars, slot, core>>
    BY <1>40 DEF Serve, OpIdle, coreVars
  <2>2. CASE StopFrom("stop")
    BY <1>0, <1>00, <2>1, <2>2, StopFromSafe
  <2>3. CASE snap.state \notin {"running", "cleanup-failed"} /\ StartFrom("start")
    BY <1>0, <1>00, <2>1, <2>3, StartFromSafe
  <2>4. CASE UNCHANGED <<snap, op>>
    BY <1>0, <1>00, <2>1, <2>4 DEF SafeInv, actVars
  <2>5. QED
    BY <1>40, <2>2, <2>3, <2>4 DEF Serve
<1>41. CASE Terminate
  BY <1>0, <1>00, <1>41
     DEF Terminate, SafeInv, Ops, Snaps, hostVars, coreVars, guardVars, actVars, lcVars
<1>42. CASE ShutdownStop
  <2>1. op.pc = "idle" /\ mgr' \notin {"down", "adopting"} /\ UNCHANGED <<actVars, slot, core>>
    BY <1>42 DEF ShutdownStop, OpIdle, hostVars, coreVars
  <2>2. QED
    BY <1>0, <1>00, <1>42, <2>1, StopFromSafe DEF ShutdownStop
<1>43. CASE Exit
  BY <1>0, <1>00, <1>43
     DEF Exit, Gone, Idle, NoSnap, OpIdle, SafeInv, Ops, Snaps, hostVars, coreVars, guardVars, actVars, lcVars
<1>44. CASE ManagerCrash
  BY <1>0, <1>00, <1>44
     DEF ManagerCrash, Gone, Idle, NoSnap, AbandonCall, SafeInv, Ops, Snaps, hostVars, coreVars, guardVars,
         actVars, lcVars
<1>45. CASE CoreDies
  BY <1>0, <1>00, <1>45
     DEF CoreDies, Records, SafeInv, Ops, Snaps, hostVars, coreVars, guardVars, actVars, lcVars
<1>46. CASE GuardExpires
  BY <1>0, <1>00, <1>46
     DEF GuardExpires, SafeInv, Ops, Snaps, hostVars, coreVars, guardVars, actVars, lcVars
<1>47. CASE HotplugEvent
  BY <1>0, <1>00, <1>47
     DEF HotplugEvent, SafeInv, Ops, Snaps, hostVars, coreVars, guardVars, actVars, lcVars
<1>48. CASE HotplugBegin
  BY <1>0, <1>00, <1>48
     DEF HotplugBegin, BeginCall, SafeInv, Ops, Snaps, hostVars, coreVars, guardVars, actVars, lcVars
<1>49. CASE HotplugStep
  BY <1>0, <1>00, <1>49
     DEF HotplugStep, Install, Remove, InstalledOK, RemovedOK, AbandonCall, SafeInv, Ops, Snaps, hostVars,
         coreVars, guardVars, actVars, lcVars
<1>50. CASE CleanupStep
  BY <1>0, <1>00, <1>50
     DEF CleanupStep, BeginCall, Remove, RemovedOK, AbandonCall, SafeInv, Ops, Snaps, hostVars, coreVars,
         guardVars, actVars, lcVars
<1>51. CASE UNCHANGED vars
  BY <1>0, <1>00, <1>51
     DEF vars, SafeInv, Ops, Snaps, hostVars, coreVars, guardVars, actVars, lcVars
<1>52. CASE Reboot
  BY <1>0, <1>00, <1>52
     DEF Reboot, Records, LoseCapture, Idle, NoSnap, SafeInv, Ops, Snaps, hostVars, coreVars, guardVars, actVars, lcVars
<1>53. QED
  BY <1>1, <1>2, <1>3, <1>4, <1>5, <1>6, <1>7, <1>8, <1>9, <1>10, <1>11, <1>12, <1>13,
       <1>14, <1>15, <1>16, <1>17, <1>18, <1>19, <1>20, <1>21, <1>22, <1>23, <1>24, <1>25,
       <1>26, <1>27, <1>28, <1>29, <1>30, <1>31, <1>32, <1>33, <1>34, <1>35, <1>36, <1>37,
       <1>38, <1>39, <1>40, <1>41, <1>42, <1>43, <1>44, <1>45, <1>46, <1>47, <1>48, <1>49,
       <1>50, <1>51, <1>52 DEF Next, OpStep, UserOp, Monitor, Process, Fault, OneShot

\* FailOpen: a stopped or failed lifecycle owns neither capture nor DNS, under
\* every interleaving of operations, crashes, hotplug and cleanup processes.
THEOREM FailOpenHolds == Spec => []FailOpen
<1>1. Spec => []SafeInv
  BY SafeInit, SafeStep, PTL DEF Spec
<1>2. SafeInv => FailOpen
  BY DEF SafeInv, ReleasedOwnsNothing, Released, NothingOwned, FailOpen
<1>3. QED
  BY <1>1, <1>2, PTL

\* StoppedMeansStopped: "stopped" is published only when no core is left.
THEOREM StoppedHolds == Spec => []StoppedMeansStopped
<1>1. Spec => []SafeInv
  BY SafeInit, SafeStep, PTL DEF Spec
<1>2. SafeInv => StoppedMeansStopped
  BY DEF SafeInv
<1>3. QED
  BY <1>1, <1>2, PTL

\* ReleaseAfterCapture: whoever stops a core does so after a completed
\* Deactivate, the slot being cleared only by StopOK and RollbackOK.
THEOREM ReleaseAfterCaptureHolds == Spec => ReleaseAfterCapture
<1> DEFINE Step == slot /\ ~slot' /\ mgr' # "down" => owned = {} /\ ~recorded
<1>1. Spec => []SafeInv
  BY SafeInit, SafeStep, PTL DEF Spec
<1>2. SafeInv /\ [Next]_vars => [Step]_vars
  <2> SUFFICES ASSUME SafeInv, Next, slot, ~slot', mgr' # "down" PROVE owned = {} /\ ~recorded
    OBVIOUS
  <2>1. StopOK \/ RollbackOK
    BY DEF Next, OpStep, UserOp, Monitor, Process, Fault, OneShot,
           PrepareOK, PrepareFails, GuardSkipped, GuardInstalled, GuardFails, CoreStartOK, Records, CoreStartFails,
           Ready, NotReady, VerifyOK, VerifyFails, CommitOK, CommitFails, ActBegin, ActStep, ActivateOK,
           ActivateFails, DeactivateOK, DeactivateFails, StopFails, RollbackStopFails, ReloadOK, Records, ReloadFails,
           ReloadHalfDone, FinishGuard, BeginStart, BeginStop, BeginRestart, SwitchSelection, SetPolicy,
           BeginOnRunning, MonitorFailsOpen, MonitorSeesCleanupFailed, MonitorRetries, RetryGuardCleanup,
           ManagerStart, Adopt, Serve, Terminate, ShutdownStop, Exit, ManagerCrash, Gone, CoreDies, Records,
           GuardExpires, HotplugEvent, HotplugBegin, HotplugStep, CleanupStep, Reboot, Records, lcVars, hostVars, coreVars
  <2>2. op.pc \in {"rbStop", "stStop"}
    BY <2>1 DEF StopOK, Records, RollbackOK, Records, AtPc
  <2>3. QED
    BY <2>2 DEF SafeInv, ReleasedOwnsNothing, Released, NothingOwned, AtPc
<1>3. QED
  BY <1>1, <1>2, PTL DEF Spec, ReleaseAfterCapture

-----------------------------------------------------------------------------
(* The restart guard.  It is in progress only within the replacement that  *)
(* installed it, so nobody else's removal can take it away.                *)

GuardedPcs == {"stDeact", "stStop", "coreStart", "ready1", "activate", "ready2", "verify", "commit", "rbDeact", "rbStop",
               "finish"}
GuardOwned == guardOn => Replacing /\ AtPc(GuardedPcs)
GuardBegun == AtPc({"guardBegin"}) => Replacing
GuardInv == GuardSafe /\ GuardOwned /\ GuardBegun

\* A step that leaves the guard alone, keeps the replacement that holds it, and
\* comes to "guardBegin" in a replacement only.
KeepsGuard ==
    /\ UNCHANGED guardVars
    /\ mgr' # "down" => mgr # "down"
    /\ guardOn => op'.kind = op.kind /\ op'.pc \in GuardedPcs
    /\ op'.pc = "guardBegin" => op'.kind \in Replacements

LEMMA GuardKept ==
    ASSUME GuardInv, KeepsGuard
    PROVE  GuardInv'
BY DEF GuardInv, GuardSafe, GuardScope, GuardCovers, GuardOwned, GuardBegun, KeepsGuard, guardVars, AtPc, Replacing

LEMMA ReturnKeepsGuard ==
    ASSUME op \in Ops, NEW f, Return(f)
    PROVE  /\ guardOn => op'.kind = op.kind /\ op'.pc = "finish"
           /\ op'.pc \in {"idle", "finish", "guardOff"}
<1>1. CASE guardOn \/ GuardOffDue
  BY <1>1 DEF Return, Ops
<1>2. CASE ~(guardOn \/ GuardOffDue)
  BY <1>2, IdleType DEF Return
<1>3. QED
  BY <1>1, <1>2

LEMMA StartedKeepsGuard ==
    ASSUME op \in Ops, Started
    PROVE  /\ guardOn => op'.kind = op.kind /\ op'.pc \in GuardedPcs
           /\ op'.pc # "guardBegin"
<1>1. CASE Replacing /\ ~op.restore
  BY <1>1 DEF Started, Ops, GuardedPcs
<1>2. CASE ~(Replacing /\ ~op.restore)
  BY <1>2, ReturnKeepsGuard DEF Started, GuardedPcs
<1>3. QED
  BY <1>1, <1>2

\* What an operation that was just taken begins with.
BeginPcs == {"idle", "prepare", "rbDeact", "stDeact", "guardOff", "ready1"}

LEMMA StartFromPc ==
    ASSUME NEW k, StartFrom(k)
    PROVE  op'.pc \in BeginPcs
<1>1. CASE snap.state \in {"unset", "failed"}
  BY <1>1 DEF StartFrom, Idle, BeginPcs
<1>2. CASE snap.state \notin {"unset", "failed"}
  BY <1>2 DEF StartFrom, Take, Idle, BeginPcs
<1>3. QED
  BY <1>1, <1>2

LEMMA StopFromPc ==
    ASSUME NEW k, StopFrom(k)
    PROVE  op'.pc \in BeginPcs
<1>1. CASE snap.state = "stopped" /\ k # "clean"
  <2>1. op' = Idle \/ op' = [Idle EXCEPT !.kind = k, !.pc = "guardOff"]
    BY <1>1 DEF StopFrom
  <2>2. CASE op' = Idle
    BY <2>2, IdleType DEF BeginPcs
  <2>3. CASE op' = [Idle EXCEPT !.kind = k, !.pc = "guardOff"]
    BY <2>3 DEF Idle, BeginPcs
  <2>4. QED
    BY <2>1, <2>2, <2>3
<1>2. CASE ~(snap.state = "stopped" /\ k # "clean")
  BY <1>2 DEF StopFrom, Take, Idle, BeginPcs
<1>3. QED
  BY <1>1, <1>2

\* No guard is in progress between operations.
LEMMA IdleHoldsNoGuard ==
    ASSUME SafeInv, GuardInv, OpIdle \/ mgr \in {"down", "adopting"}
    PROVE  guardOn = FALSE
<1>1. op.pc = "idle"
  BY IdleType DEF OpIdle, SafeInv, BootIdle
<1>2. ~guardOn
  BY <1>1 DEF GuardInv, GuardOwned, GuardedPcs, AtPc
<1>3. QED
  BY <1>2 DEF SafeInv, TypeInv, TypeOK

LEMMA GuardRemoveSafe ==
    ASSUME TypeInv, GuardRemove
    PROVE  guard' = "on" => gstat'.err
<1>1. CASE GuardRemoved
  BY <1>1 DEF GuardRemoved
<1>2. CASE GuardNotRemoved
  BY <1>2 DEF GuardNotRemoved, TypeInv, TypeOK, GuardStatus
<1>3. QED
  BY <1>1, <1>2 DEF GuardRemove

LEMMA GuardStep == SafeInv /\ GuardInv /\ [Next]_vars => GuardInv'
<1> SUFFICES ASSUME SafeInv, GuardInv, [Next]_vars PROVE GuardInv'
  OBVIOUS
<1>0. /\ TypeInv /\ op \in Ops /\ guardOn \in BOOLEAN
      /\ GuardOwned /\ GuardBegun /\ StaleIsStart /\ BootIdle
  BY DEF SafeInv, TypeInv, TypeOK, GuardInv
<1>01. ASSUME OpIdle, UNCHANGED guardVars, mgr # "down", op' = op \/ op'.pc \in BeginPcs PROVE KeepsGuard
  BY <1>01, <1>0, IdleHoldsNoGuard DEF KeepsGuard, BeginPcs, OpIdle
<1>1. CASE PrepareOK
  <2>1. guardOn = FALSE /\ UNCHANGED guardVars /\ mgr' = mgr
    BY <1>0, <1>1 DEF PrepareOK, GuardOwned, GuardedPcs, AtPc, hostVars
  <2>2. op'.pc = "guardBegin" => op'.kind \in Replacements
    BY <1>0, <1>1 DEF PrepareOK, Replacing, Ops
  <2>3. QED
    BY <2>1, <2>2, GuardKept DEF KeepsGuard
<1>2. CASE PrepareFails
  <2>1. KeepsGuard
    BY <1>0, <1>2, ReturnKeepsGuard
       DEF PrepareFails, KeepsGuard, GuardOwned, GuardedPcs, AtPc, Replacing, hostVars
  <2>2. QED
    BY <2>1, GuardKept
<1>3. CASE GuardSkipped
  <2>1. KeepsGuard
    BY <1>0, <1>3
       DEF GuardSkipped, StopOld, Ops, KeepsGuard, GuardOwned, GuardedPcs, AtPc, Replacing, hostVars
  <2>2. QED
    BY <2>1, GuardKept
<1>4. CASE GuardInstalled
  <2>1. guardOn' = TRUE /\ guard' = "on" /\ op'.pc = "stDeact" /\ op'.kind = op.kind /\ op.kind \in Replacements
    BY <1>0, <1>4 DEF GuardInstalled, StopOld, Ops, GuardBegun, AtPc, Replacing
  <2>2. QED
    BY <2>1 DEF GuardInv, GuardSafe, GuardScope, GuardCovers, GuardOwned, GuardBegun, GuardedPcs, AtPc, Replacing
<1>5. CASE GuardFails
  <2>1. guardOn = FALSE /\ guardOn' = FALSE /\ op'.pc = "idle" /\ mgr' = mgr
    BY <1>0, <1>5, IdleType DEF GuardFails, GuardOwned, GuardedPcs, AtPc, hostVars
  <2>2. GuardScope'
    <3>1. CASE UNCHANGED <<guard, gstat>>
      BY <2>1, <3>1 DEF GuardInv, GuardSafe, GuardScope
    <3>2. CASE GuardRemoved
      BY <1>0, <3>2, GuardRemoveSafe DEF GuardScope, GuardRemove
    <3>3. CASE GuardStuck
      BY <1>0, <3>3 DEF GuardStuck, GuardStatus, GuardScope, TypeInv, TypeOK
    <3>4. QED
      BY <1>5, <3>1, <3>2, <3>3 DEF GuardFails
  <2>3. QED
    BY <2>1, <2>2 DEF GuardInv, GuardSafe, GuardCovers, GuardOwned, GuardBegun, AtPc
<1>6. CASE CoreStartOK
  <2>1. KeepsGuard
    BY <1>0, <1>6
       DEF CoreStartOK, Records, Ops, KeepsGuard, GuardOwned, GuardedPcs, AtPc, Replacing, hostVars
  <2>2. QED
    BY <2>1, GuardKept
<1>7. CASE CoreStartFails
  <2>1. KeepsGuard
    BY <1>0, <1>7
       DEF CoreStartFails, RollBack, Ops, KeepsGuard, GuardOwned, GuardedPcs, AtPc, Replacing, hostVars
  <2>2. QED
    BY <2>1, GuardKept
<1>8. CASE Ready
  <2>1. UNCHANGED guardVars /\ mgr' = mgr
    BY <1>8 DEF Ready, hostVars
  <2>2. CASE Started
    BY <1>0, <2>1, <2>2, StartedKeepsGuard, GuardKept DEF KeepsGuard
  <2>3. CASE ~Started
    <3>1. op' = [op EXCEPT !.pc = IF op.pc = "ready1" THEN "activate" ELSE "verify"] /\ op.pc \in {"ready1", "ready2"}
      BY <1>8, <2>3 DEF Ready, AtPc
    <3>2. op'.kind = op.kind /\ op'.pc \in {"activate", "verify"}
      BY <1>0, <3>1 DEF Ops
    <3>3. QED
      BY <2>1, <3>2, GuardKept DEF KeepsGuard, GuardedPcs
  <2>4. QED
    BY <2>2, <2>3
<1>9. CASE NotReady
  <2>1. KeepsGuard
    BY <1>0, <1>9
       DEF NotReady, RollBack, Ops, KeepsGuard, GuardOwned, GuardedPcs, AtPc, Replacing, hostVars
  <2>2. QED
    BY <2>1, GuardKept
<1>10. CASE VerifyOK
  <2>1. KeepsGuard
    BY <1>0, <1>10, StartedKeepsGuard
       DEF VerifyOK, KeepsGuard, GuardOwned, GuardedPcs, AtPc, Replacing, hostVars
  <2>2. QED
    BY <2>1, GuardKept
<1>11. CASE VerifyFails
  <2>1. KeepsGuard
    BY <1>0, <1>11
       DEF VerifyFails, RollBack, Ops, KeepsGuard, GuardOwned, GuardedPcs, AtPc, Replacing, hostVars
  <2>2. QED
    BY <2>1, GuardKept
<1>12. CASE CommitOK
  <2>1. KeepsGuard
    BY <1>0, <1>12, ReturnKeepsGuard
       DEF CommitOK, KeepsGuard, GuardOwned, GuardedPcs, AtPc, Replacing, hostVars
  <2>2. QED
    BY <2>1, GuardKept
<1>13. CASE CommitFails
  <2>1. KeepsGuard
    BY <1>0, <1>13
       DEF CommitFails, Ops, KeepsGuard, GuardOwned, GuardedPcs, AtPc, Replacing, hostVars
  <2>2. QED
    BY <2>1, GuardKept
<1>14. CASE ActBegin
  <2>1. KeepsGuard
    BY <1>0, <1>14
       DEF ActBegin, KeepsGuard, GuardOwned, GuardedPcs, AtPc, Replacing, hostVars, lcVars, guardVars, GuardBegun
  <2>2. QED
    BY <2>1, GuardKept
<1>15. CASE ActStep
  <2>1. KeepsGuard
    BY <1>0, <1>15
       DEF ActStep, KeepsGuard, GuardOwned, GuardedPcs, AtPc, Replacing, hostVars, lcVars, guardVars, GuardBegun
  <2>2. QED
    BY <2>1, GuardKept
<1>16. CASE ActivateOK
  <2>1. KeepsGuard
    BY <1>0, <1>16
       DEF ActivateOK, Ops, KeepsGuard, GuardOwned, GuardedPcs, AtPc, Replacing, hostVars
  <2>2. QED
    BY <2>1, GuardKept
<1>17. CASE ActivateFails
  <2>1. KeepsGuard
    BY <1>0, <1>17
       DEF ActivateFails, RollBack, Ops, KeepsGuard, GuardOwned, GuardedPcs, AtPc, Replacing, hostVars
  <2>2. QED
    BY <2>1, GuardKept
<1>18. CASE DeactivateOK
  <2>1. KeepsGuard
    BY <1>0, <1>18
       DEF DeactivateOK, Ops, KeepsGuard, GuardOwned, GuardedPcs, AtPc, Replacing, hostVars
  <2>2. QED
    BY <2>1, GuardKept
<1>19. CASE DeactivateFails
  <2>1. KeepsGuard
    BY <1>0, <1>19, ReturnKeepsGuard
       DEF DeactivateFails, KeepsGuard, GuardOwned, GuardedPcs, AtPc, Replacing, hostVars
  <2>2. QED
    BY <2>1, GuardKept
<1>20. CASE StopOK
  <2>1. UNCHANGED guardVars /\ mgr' = mgr
    BY <1>20 DEF StopOK, Records, hostVars
  <2>2. /\ guardOn => op'.kind = op.kind /\ op'.pc \in GuardedPcs
        /\ op'.pc # "guardBegin"
    <3>1. CASE Restore
      BY <1>0, <3>1 DEF Restore, Ops, GuardedPcs
    <3>2. CASE op' = [op EXCEPT !.pc = "coreStart"]
      BY <1>0, <3>2 DEF Ops, GuardedPcs
    <3>3. CASE op.kind = "restart" /\ op' = [op EXCEPT !.pc = "prepare"]
      BY <1>0, <3>3 DEF Ops, GuardOwned, Replacing, Replacements
    <3>4. CASE Return(files \ {core, snap.prepared})
      BY <1>0, <3>4, ReturnKeepsGuard DEF GuardedPcs
    <3>5. QED
      BY <1>20, <3>1, <3>2, <3>3, <3>4 DEF StopOK, Records
  <2>3. QED
    BY <2>1, <2>2, GuardKept DEF KeepsGuard
<1>21. CASE StopFails
  <2>1. KeepsGuard
    BY <1>0, <1>21, ReturnKeepsGuard
       DEF StopFails, KeepsGuard, GuardOwned, GuardedPcs, AtPc, Replacing, hostVars
  <2>2. QED
    BY <2>1, GuardKept
<1>22. CASE RollbackOK
  <2>1. UNCHANGED guardVars /\ mgr' = mgr
    BY <1>22 DEF RollbackOK, Records, hostVars
  <2>2. /\ guardOn => op'.kind = op.kind /\ op'.pc \in GuardedPcs
        /\ op'.pc # "guardBegin"
    <3>1. CASE Restore
      BY <1>0, <3>1 DEF Restore, Ops, GuardedPcs
    <3>2. CASE op.why = "stale" /\ op' = [op EXCEPT !.pc = "prepare", !.why = "none"]
      BY <1>0, <3>2 DEF Ops, StaleIsStart, StartingUp, GuardOwned, Replacing, Replacements
    <3>3. CASE Return(files \ {core, op.cur})
      BY <1>0, <3>3, ReturnKeepsGuard DEF GuardedPcs
    <3>4. QED
      BY <1>22, <3>1, <3>2, <3>3 DEF RollbackOK, Records
  <2>3. QED
    BY <2>1, <2>2, GuardKept DEF KeepsGuard
<1>23. CASE RollbackStopFails
  <2>1. UNCHANGED guardVars /\ mgr' = mgr
    BY <1>23 DEF RollbackStopFails, hostVars
  <2>2. /\ guardOn => op'.kind = op.kind /\ op'.pc \in GuardedPcs
        /\ op'.pc # "guardBegin"
    <3>1. CASE Restore
      BY <1>0, <3>1 DEF Restore, Ops, GuardedPcs
    <3>2. CASE ~Restore
      <4>1. Return(IF op.why = "start" THEN files \ {op.cur} ELSE files)
        BY <1>23, <3>2 DEF RollbackStopFails
      <4>2. QED
        BY <1>0, <4>1, ReturnKeepsGuard DEF GuardedPcs
    <3>3. QED
      BY <3>1, <3>2
  <2>3. QED
    BY <2>1, <2>2, GuardKept DEF KeepsGuard
<1>24. CASE ReloadOK
  <2>1. KeepsGuard
    BY <1>0, <1>24, ReturnKeepsGuard
       DEF ReloadOK, Records, KeepsGuard, GuardOwned, GuardedPcs, AtPc, Replacing, hostVars
  <2>2. QED
    BY <2>1, GuardKept
<1>25. CASE ReloadFails
  <2>1. KeepsGuard
    BY <1>0, <1>25, ReturnKeepsGuard
       DEF ReloadFails, KeepsGuard, GuardOwned, GuardedPcs, AtPc, Replacing, hostVars
  <2>2. QED
    BY <2>1, GuardKept
<1>26. CASE ReloadHalfDone
  <2>1. KeepsGuard
    BY <1>0, <1>26, ReturnKeepsGuard
       DEF ReloadHalfDone, KeepsGuard, GuardOwned, GuardedPcs, AtPc, Replacing, hostVars
  <2>2. QED
    BY <2>1, GuardKept
<1>27. CASE FinishGuard
  <2>1. guardOn' = FALSE /\ op'.pc = "idle" /\ (guard' = "on" => gstat'.err)
    BY <1>0, <1>27, IdleType, GuardRemoveSafe DEF FinishGuard
  <2>2. QED
    BY <2>1 DEF GuardInv, GuardSafe, GuardScope, GuardCovers, GuardOwned, GuardBegun, AtPc
<1>28. CASE BeginStart
  <2>1. OpIdle /\ mgr # "down" /\ UNCHANGED guardVars /\ (op' = op \/ op'.pc \in BeginPcs)
    BY <1>28, StartFromPc DEF BeginStart, UserUp
  <2>2. QED
    BY <1>01, <2>1, GuardKept
<1>29. CASE BeginStop
  <2>1. OpIdle /\ mgr # "down" /\ UNCHANGED guardVars /\ (op' = op \/ op'.pc \in BeginPcs)
    BY <1>29, StopFromPc DEF BeginStop, UserUp
  <2>2. QED
    BY <1>01, <2>1, GuardKept
<1>30. CASE BeginRestart
  <2>1. OpIdle /\ mgr # "down" /\ UNCHANGED guardVars /\ (op' = op \/ op'.pc \in BeginPcs)
    BY <1>30, StartFromPc DEF BeginRestart, UserUp, Take, Idle, BeginPcs
  <2>2. QED
    BY <1>01, <2>1, GuardKept
<1>31. CASE SwitchSelection
  <2>1. OpIdle /\ mgr # "down" /\ UNCHANGED guardVars /\ (op' = op \/ op'.pc \in BeginPcs)
    BY <1>31 DEF SwitchSelection, UserUp
  <2>2. QED
    BY <1>01, <2>1, GuardKept
<1>32. CASE SetPolicy
  <2>1. mgr = "up" /\ mgr' = mgr /\ op' = op /\ guardOn' = FALSE
    BY <1>0, <1>32, IdleHoldsNoGuard DEF SetPolicy, guardVars
  <2>2. GuardScope'
    <3>1. CASE UNCHANGED guardVars
      BY <2>1, <3>1 DEF guardVars, GuardInv, GuardSafe, GuardScope
    <3>2. CASE GuardRemove
      BY <1>0, <3>2, GuardRemoveSafe DEF GuardScope
    <3>3. QED
      BY <1>32, <3>1, <3>2 DEF SetPolicy, GuardRemove
  <2>3. QED
    BY <1>0, <2>1, <2>2 DEF GuardInv, GuardSafe, GuardCovers, GuardOwned, GuardBegun, AtPc, Replacing
<1>33. CASE \E k \in {"switch", "reconf", "reload"} \intersect Offered : BeginOnRunning(k)
  <2>1. OpIdle /\ mgr # "down" /\ UNCHANGED guardVars /\ (op' = op \/ op'.pc \in BeginPcs)
    BY <1>33 DEF BeginOnRunning, UserUp, Take, Idle, BeginPcs
  <2>2. QED
    BY <1>01, <2>1, GuardKept
<1>34. CASE MonitorFailsOpen
  <2>1. OpIdle /\ mgr # "down" /\ UNCHANGED guardVars /\ (op' = op \/ op'.pc \in BeginPcs)
    BY <1>34 DEF MonitorFailsOpen, UserUp, Take, Idle, BeginPcs
  <2>2. QED
    BY <1>01, <2>1, GuardKept
<1>35. CASE MonitorSeesCleanupFailed
  <2>1. KeepsGuard
    BY <1>0, <1>35
       DEF MonitorSeesCleanupFailed, KeepsGuard, GuardOwned, GuardBegun, AtPc, Replacing
  <2>2. QED
    BY <2>1, GuardKept
<1>36. CASE MonitorRetries
  <2>1. OpIdle /\ mgr # "down" /\ UNCHANGED guardVars /\ (op' = op \/ op'.pc \in BeginPcs)
    BY <1>36, StopFromPc DEF MonitorRetries
  <2>2. QED
    BY <1>01, <2>1, GuardKept
<1>37. CASE RetryGuardCleanup
  <2>1. guardOn' = FALSE /\ op' = op /\ (guard' = "on" => gstat'.err)
    BY <1>0, <1>37, IdleHoldsNoGuard, GuardRemoveSafe DEF RetryGuardCleanup, OpIdle
  <2>2. QED
    BY <1>0, <2>1 DEF GuardInv, GuardSafe, GuardScope, GuardCovers, GuardOwned, GuardBegun, AtPc, Replacing
<1>38. CASE ManagerStart
  <2>1. guardOn' = FALSE /\ op' = op /\ (guard' = "on" => gstat'.err)
    BY <1>0, <1>38, IdleHoldsNoGuard, GuardRemoveSafe DEF ManagerStart, OpIdle
  <2>2. QED
    BY <1>0, <2>1 DEF GuardInv, GuardSafe, GuardScope, GuardCovers, GuardOwned, GuardBegun, AtPc, Replacing
<1>39. CASE Adopt
  <2>1. guardOn = FALSE /\ UNCHANGED guardVars /\ mgr # "down"
    BY <1>0, <1>39, IdleHoldsNoGuard DEF Adopt
  <2>2. op' = op \/ op'.pc \in BeginPcs
    BY <1>39 DEF Adopt, Take, Idle, BeginPcs
  <2>3. QED
    BY <1>0, <2>1, <2>2, GuardKept DEF KeepsGuard, BeginPcs, GuardBegun, AtPc, Replacing
<1>40. CASE Serve
  <2>1. OpIdle /\ mgr # "down" /\ UNCHANGED guardVars /\ (op' = op \/ op'.pc \in BeginPcs)
    BY <1>40, StartFromPc, StopFromPc DEF Serve
  <2>2. QED
    BY <1>01, <2>1, GuardKept
<1>41. CASE Terminate
  <2>1. KeepsGuard
    BY <1>0, <1>41
       DEF Terminate, KeepsGuard, GuardOwned, GuardBegun, AtPc, Replacing
  <2>2. QED
    BY <2>1, GuardKept
<1>42. CASE ShutdownStop
  <2>1. OpIdle /\ mgr # "down" /\ UNCHANGED guardVars /\ (op' = op \/ op'.pc \in BeginPcs)
    BY <1>42, StopFromPc DEF ShutdownStop
  <2>2. QED
    BY <1>01, <2>1, GuardKept
<1>43. CASE Exit
  <2>1. guardOn' = FALSE /\ op'.pc = "idle" /\ mgr' = "down"
    BY <1>43, IdleType DEF Exit, Gone
  <2>2. QED
    BY <2>1 DEF GuardInv, GuardSafe, GuardScope, GuardCovers, GuardOwned, GuardBegun, AtPc
<1>44. CASE ManagerCrash
  <2>1. guardOn' = FALSE /\ op'.pc = "idle" /\ mgr' = "down"
    BY <1>44, IdleType DEF ManagerCrash, Gone
  <2>2. QED
    BY <2>1 DEF GuardInv, GuardSafe, GuardScope, GuardCovers, GuardOwned, GuardBegun, AtPc
<1>45. CASE CoreDies
  <2>1. KeepsGuard
    BY <1>0, <1>45
       DEF CoreDies, Records, KeepsGuard, GuardOwned, GuardBegun, AtPc, Replacing, hostVars
  <2>2. QED
    BY <2>1, GuardKept
<1>46. CASE GuardExpires
  BY <1>0, <1>46
     DEF GuardExpires, GuardInv, GuardSafe, GuardScope, GuardCovers, GuardOwned, GuardBegun, AtPc, Replacing, hostVars
<1>47. CASE HotplugEvent
  <2>1. KeepsGuard
    BY <1>0, <1>47
       DEF HotplugEvent, KeepsGuard, GuardOwned, GuardBegun, AtPc, Replacing
  <2>2. QED
    BY <2>1, GuardKept
<1>48. CASE HotplugBegin
  <2>1. KeepsGuard
    BY <1>0, <1>48
       DEF HotplugBegin, KeepsGuard, GuardOwned, GuardBegun, AtPc, Replacing
  <2>2. QED
    BY <2>1, GuardKept
<1>49. CASE HotplugStep
  <2>1. KeepsGuard
    BY <1>0, <1>49
       DEF HotplugStep, KeepsGuard, GuardOwned, GuardBegun, AtPc, Replacing, lcVars, guardVars
  <2>2. QED
    BY <2>1, GuardKept
<1>50. CASE CleanupStep
  <2>1. guardOn' = FALSE /\ op' = op /\ mgr' = "down"
    BY <1>0, <1>50, IdleHoldsNoGuard DEF CleanupStep, hostVars
  <2>2. QED
    BY <1>0, <2>1 DEF GuardInv, GuardSafe, GuardScope, GuardCovers, GuardOwned, GuardBegun, AtPc, Replacing
<1>51. CASE UNCHANGED vars
  <2>1. KeepsGuard
    BY <1>0, <1>51
       DEF vars, KeepsGuard, GuardOwned, GuardBegun, AtPc, Replacing, lcVars, guardVars
  <2>2. QED
    BY <2>1, GuardKept
<1>52. CASE Reboot
  <2>1. guardOn' = FALSE /\ op'.pc = "idle" /\ mgr' = "down"
    BY <1>52, IdleType DEF Reboot, Records
  <2>2. QED
    BY <2>1 DEF GuardInv, GuardSafe, GuardScope, GuardCovers, GuardOwned, GuardBegun, AtPc
<1>53. QED
  BY <1>1, <1>2, <1>3, <1>4, <1>5, <1>6, <1>7, <1>8, <1>9, <1>10, <1>11, <1>12, <1>13,
       <1>14, <1>15, <1>16, <1>17, <1>18, <1>19, <1>20, <1>21, <1>22, <1>23, <1>24, <1>25,
       <1>26, <1>27, <1>28, <1>29, <1>30, <1>31, <1>32, <1>33, <1>34, <1>35, <1>36, <1>37,
       <1>38, <1>39, <1>40, <1>41, <1>42, <1>43, <1>44, <1>45, <1>46, <1>47, <1>48, <1>49,
       <1>50, <1>51, <1>52 DEF Next, OpStep, UserOp, Monitor, Process, Fault, OneShot

\* GuardSafe: an installed restart guard is covered by the replacement in progress
\* or known as a failed cleanup, and the replacement never loses it to a concurrent
\* removal: the monitor's tick, a settings change, a boot, a one-shot cleanup.
THEOREM GuardSafeHolds == Spec => []GuardSafe
<1>1. Init => GuardInv
  BY IdleType DEF Init, GuardInv, GuardSafe, GuardScope, GuardCovers, GuardOwned, GuardBegun, AtPc
<1>2. GuardInv => GuardSafe
  BY DEF GuardInv
<1>3. QED
  BY <1>1, <1>2, SafeInit, SafeStep, GuardStep, PTL DEF Spec

-----------------------------------------------------------------------------
(* The running generation, its runtime, its rollback clone and the selected *)
(* profile.  What a step of an operation relies on: the clone is nobody    *)
(* else's, a target not started may be removed, the core runs the target   *)
(* once it was accepted, and the clone goes back to the selected profile.  *)

LivePcs == {"ready1", "activate", "ready2", "verify"}
SwapPcs == {"guardBegin", "stDeact", "stStop", "coreStart", "commit", "rbDeact", "rbStop"} \union LivePcs

\* The clone is neither what runs, nor what is about to, nor what Core.Stop cleans up.
CloneApart ==
    op.spare # NoGen =>
        /\ Replacing /\ core # op.spare
        /\ ~op.restore => op.cur # op.spare
        /\ ~op.restore /\ AtPc({"guardBegin", "stDeact", "stStop"}) => snap.prepared # op.spare

\* A target that was prepared but not started may be removed.
NotStarted ==
    \/ AtPc({"guardBegin", "reload", "coreStart"})
    \/ AtPc({"stDeact", "stStop"}) /\ Replacing /\ ~op.restore
    \/ AtPc({"rbDeact", "rbStop"}) /\ op.why = "start"
TargetApart == NotStarted => op.cur # NoGen /\ core # op.cur

\* A hot reload has its runtime on disk and nothing to roll back to.
ReloadTarget == AtPc({"reload"}) => ~Replacing /\ op.cur \in files

GenerationLive ==
    /\ snap.state = "running" => slot /\ core \in {NoGen, snap.prepared}
    /\ AtPc(LivePcs) => slot /\ core \in {NoGen, op.cur}
    /\ AtPc({"commit"}) => snap.prepared = op.cur

\* Until its commit a switch runs the generation of another profile; everything else is
\* of the selected one,
TargetHeld ==
    \/ AtPc(LivePcs \union {"coreStart", "commit", "reload"})
    \/ AtPc({"guardBegin", "stDeact", "stStop"}) /\ Replacing /\ ~op.restore
TargetSelected == TargetHeld /\ (op.kind = "switch" => op.restore) => ProfileOf[op.cur] = selected
RunningSelected == snap.state = "running" /\ ~AtPc({"commit"}) => ProfileOf[snap.prepared] = selected

\* and so is the clone a failed replacement goes back to.
CloneNeeded == Replacing /\ ((~op.restore /\ AtPc(SwapPcs)) \/ AtPc({"stDeact", "stStop"}))
CloneSelected == CloneNeeded => op.spare # NoGen /\ ProfileOf[op.spare] = selected

\* Only a replacement goes back, and not before it touched the old generation.
RestoreLate == op.restore => Replacing /\ ~AtPc({"prepare", "guardBegin"})

GenInv ==
    /\ RecordedRuntimeKept /\ RollbackCloneKept
    /\ CloneApart /\ TargetApart /\ ReloadTarget /\ RestoreLate
    /\ GenerationLive /\ TargetSelected /\ RunningSelected /\ CloneSelected

genVars == <<op, snap, slot, core, files, selected>>

LEMMA GenQuiet ==
    ASSUME GenInv, UNCHANGED genVars
    PROVE  GenInv'
BY DEF GenInv, RecordedRuntimeKept, RollbackCloneKept, CloneApart, TargetApart, NotStarted, ReloadTarget,
       RestoreLate, GenerationLive, TargetSelected, TargetHeld, RunningSelected, CloneSelected, CloneNeeded,
       AtPc, Replacing, genVars

\* An operation between or past its steps concerns no target and needs no clone.
RestPcs == {"idle", "finish", "guardOff", "prepare"}

LEMMA GenAtRest ==
    ASSUME \/ op'.pc \in RestPcs
           \/ op'.pc \in {"stDeact", "rbDeact", "rbStop"} /\ op'.kind \notin Replacements /\ op'.why # "start",
           RecordedRuntimeKept', RollbackCloneKept', RestoreLate',
           op'.spare # NoGen => op'.kind \in Replacements /\ core' # op'.spare /\ (op'.restore \/ op'.cur # op'.spare),
           snap'.state = "running" => slot' /\ core' \in {NoGen, snap'.prepared} /\ ProfileOf[snap'.prepared] = selected'
    PROVE  GenInv'
<1> USE DEF AtPc, Replacing, RestPcs
<1>1. CloneApart'
  BY DEF CloneApart
<1>2. TargetApart' /\ ReloadTarget'
  BY DEF TargetApart, NotStarted, ReloadTarget
<1>3. GenerationLive' /\ RunningSelected'
  BY DEF GenerationLive, LivePcs, RunningSelected
<1>4. TargetSelected' /\ CloneSelected'
  BY DEF TargetSelected, TargetHeld, LivePcs, CloneSelected, CloneNeeded, SwapPcs
<1>5. QED
  BY <1>1, <1>2, <1>3, <1>4 DEF GenInv

\* Between operations a running generation is live and selected.
LEMMA GenRunning ==
    ASSUME GenInv, snap.state = "running", op.pc # "commit"
    PROVE  slot /\ core \in {NoGen, snap.prepared} /\ ProfileOf[snap.prepared] = selected
BY DEF GenInv, GenerationLive, RunningSelected, AtPc

\* The operation returns, f being what it leaves on disk.
LEMMA GenReturn ==
    ASSUME op \in Ops, NEW f, Return(f), CloneApart, RestoreLate,
           op.spare # NoGen => op.restore \/ op.spare \in f,
           core' # NoGen => core' \in f /\ core' # op.spare,
           snap'.state = "running" => slot' /\ core' \in {NoGen, snap'.prepared} /\ ProfileOf[snap'.prepared] = selected'
    PROVE  GenInv'
<1>1. CASE guardOn \/ GuardOffDue
  <2>1. op' = [op EXCEPT !.pc = IF guardOn THEN "finish" ELSE "guardOff", !.cur = NoGen] /\ files' = f
    BY <1>1 DEF Return
  <2>2. /\ op'.pc \in {"finish", "guardOff"} /\ op'.kind = op.kind /\ op'.cur = NoGen
        /\ op'.spare = op.spare /\ op'.restore = op.restore
    BY <2>1 DEF Ops
  <2>3. RecordedRuntimeKept' /\ RollbackCloneKept' /\ RestoreLate'
    BY <2>1, <2>2 DEF RecordedRuntimeKept, RollbackCloneKept, RestoreLate, AtPc, Replacing
  <2>4. op'.spare # NoGen => op'.kind \in Replacements /\ core' # op'.spare /\ (op'.restore \/ op'.cur # op'.spare)
    BY <2>2 DEF CloneApart, Replacing
  <2>5. QED
    BY <2>2, <2>3, <2>4, GenAtRest DEF RestPcs
<1>2. CASE ~(guardOn \/ GuardOffDue)
  <2>1. op' = Idle /\ files' = f \ {op.spare}
    BY <1>2 DEF Return
  <2>2. op'.pc = "idle" /\ op'.spare = NoGen /\ op'.restore = FALSE
    BY <2>1 DEF Idle
  <2>3. RecordedRuntimeKept' /\ RollbackCloneKept' /\ RestoreLate'
    BY <2>1, <2>2 DEF RecordedRuntimeKept, RollbackCloneKept, RestoreLate
  <2>4. QED
    BY <2>2, <2>3, GenAtRest DEF RestPcs
<1>3. QED
  BY <1>1, <1>2

\* An operation was just taken: it has neither target nor clone.
LEMMA GenTaken ==
    ASSUME GenInv, OpIdle, UNCHANGED <<slot, core, files, selected>>,
           op'.spare = NoGen, op'.restore = FALSE, op'.why # "start",
           \/ op'.pc \in RestPcs
           \/ op'.pc \in {"stDeact", "rbDeact"} /\ op'.kind \notin Replacements,
           snap'.state = "running" => snap' = snap
    PROVE  GenInv'
<1>1. RecordedRuntimeKept' /\ RollbackCloneKept' /\ RestoreLate'
  BY DEF GenInv, RecordedRuntimeKept, RollbackCloneKept, RestoreLate
<1>2. snap'.state = "running" => slot' /\ core' \in {NoGen, snap'.prepared} /\ ProfileOf[snap'.prepared] = selected'
  BY GenRunning DEF OpIdle
<1>3. QED
  BY <1>1, <1>2, GenAtRest

LEMMA GenStartFrom ==
    ASSUME GenInv, SafeInv, OpIdle, UNCHANGED <<slot, core, files, selected>>,
           NEW k \in {"start", "restart"}, StartFrom(k)
    PROVE  GenInv'
<1>1. snap \in Snaps
  BY DEF SafeInv, TypeInv, TypeOK
<1>2. CASE snap.state \in {"unset", "failed"}
  <2>1. /\ op'.pc = "rbDeact" /\ op'.kind = k /\ op'.why = "stale" /\ op'.spare = NoGen /\ op'.restore = FALSE
        /\ snap' = snap
    BY <1>2 DEF StartFrom, Idle
  <2>2. QED
    BY <2>1, GenTaken DEF Replacements
<1>3. CASE snap.state \notin {"unset", "failed"}
  <2>1. op'.pc = "prepare" /\ op'.why = "none" /\ op'.spare = NoGen /\ op'.restore = FALSE
    BY <1>3 DEF StartFrom, Take, Idle
  <2>2. snap'.state = "starting"
    BY <1>1, <1>3, SnapState DEF StartFrom
  <2>3. QED
    BY <2>1, <2>2, GenTaken DEF RestPcs
<1>4. QED
  BY <1>2, <1>3

\* An operation that only stops is taken.
LEMMA GenTakeStop ==
    ASSUME GenInv, SafeInv, OpIdle, UNCHANGED <<slot, core, files, selected>>,
           NEW k, k \notin Replacements, Take(k, "stDeact"), snap'.state = "stopping"
    PROVE  GenInv'
<1>1. op'.pc = "stDeact" /\ op'.kind = k /\ op'.why = "none" /\ op'.spare = NoGen /\ op'.restore = FALSE
  BY DEF Take, Idle
<1>2. QED
  BY <1>1, GenTaken

LEMMA GenStopFrom ==
    ASSUME GenInv, SafeInv, OpIdle, UNCHANGED <<slot, core, files, selected>>,
           NEW k \in {"stop", "clean", "retry", "shutdown"}, StopFrom(k)
    PROVE  GenInv'
<1>1. snap \in Snaps
  BY DEF SafeInv, TypeInv, TypeOK
<1>2. CASE snap.state = "stopped" /\ k # "clean"
  <2>1. (op' = Idle \/ op' = [Idle EXCEPT !.kind = k, !.pc = "guardOff"]) /\ snap' = snap
    BY <1>2 DEF StopFrom
  <2>2. op'.pc \in {"guardOff", "idle"} /\ op'.why = "none" /\ op'.spare = NoGen /\ op'.restore = FALSE
    <3>1. CASE op' = Idle
      BY <3>1 DEF Idle
    <3>2. CASE op' = [Idle EXCEPT !.kind = k, !.pc = "guardOff"]
      BY <3>2 DEF Idle
    <3>3. QED
      BY <2>1, <3>1, <3>2
  <2>3. QED
    BY <2>1, <2>2, GenTaken DEF RestPcs
<1>3. CASE ~(snap.state = "stopped" /\ k # "clean")
  <2>1. Take(k, "stDeact") /\ snap' = [snap EXCEPT !.state = "stopping"]
    BY <1>3 DEF StopFrom
  <2>2. snap'.state = "stopping" /\ k \notin Replacements
    BY <1>1, <2>1, SnapState DEF Replacements
  <2>3. QED
    BY <2>1, <2>2, GenTakeStop
<1>4. QED
  BY <1>2, <1>3

\* An operation goes on from one step to the next with its target and its clone.
LEMMA GenMoves ==
    ASSUME GenInv, UNCHANGED <<slot, core, files, selected>>,
           op'.kind = op.kind /\ op'.cur = op.cur /\ op'.spare = op.spare /\ op'.restore = op.restore,
           op'.pc \in LivePcs => op.pc \in LivePcs,
           op'.pc \notin {"reload", "commit", "guardBegin", "prepare"},
           NotStarted' => NotStarted, TargetHeld' => TargetHeld, CloneNeeded' => CloneNeeded,
           op'.pc \in {"stDeact", "stStop"} /\ ~op.restore =>
               op.pc \in {"guardBegin", "stDeact", "stStop"} /\ snap'.prepared = snap.prepared,
           snap'.state = "running" => snap' = snap /\ op.pc # "commit"
    PROVE  GenInv'
<1> USE DEF AtPc, Replacing
<1>1. RecordedRuntimeKept' /\ RollbackCloneKept'
  BY DEF GenInv, RecordedRuntimeKept, RollbackCloneKept
<1>2. CloneApart'
  BY DEF GenInv, CloneApart
<1>3. TargetApart' /\ ReloadTarget' /\ RestoreLate'
  BY DEF GenInv, TargetApart, ReloadTarget, RestoreLate
<1>4. GenerationLive' /\ RunningSelected'
  BY DEF GenInv, GenerationLive, RunningSelected
<1>5. TargetSelected' /\ CloneSelected'
  BY DEF GenInv, TargetSelected, CloneSelected
<1>6. QED
  BY <1>1, <1>2, <1>3, <1>4, <1>5 DEF GenInv

LEMMA GenRestore ==
    ASSUME op \in Ops, Restore, Replacing, op.spare # NoGen, ProfileOf[op.spare] = selected,
           selected' = selected, core' # op.spare, core' # NoGen => core' \in files'
    PROVE  GenInv'
<1> USE DEF AtPc, Replacing
<1>1. /\ op'.pc = "coreStart" /\ op'.kind = op.kind /\ op'.cur = op.spare /\ op'.spare = op.spare
      /\ op'.restore = TRUE /\ snap'.state = "starting"
  BY DEF Restore, Ops
<1>2. RecordedRuntimeKept' /\ RollbackCloneKept' /\ CloneApart'
  BY <1>1 DEF RecordedRuntimeKept, RollbackCloneKept, CloneApart
<1>3. TargetApart' /\ ReloadTarget' /\ RestoreLate'
  BY <1>1 DEF TargetApart, ReloadTarget, RestoreLate
<1>4. GenerationLive' /\ RunningSelected'
  BY <1>1 DEF GenerationLive, RunningSelected, LivePcs
<1>5. TargetSelected' /\ CloneSelected'
  BY <1>1 DEF TargetSelected, CloneSelected, CloneNeeded
<1>6. QED
  BY <1>2, <1>3, <1>4, <1>5 DEF GenInv

LEMMA GenStarted ==
    ASSUME SafeInv, GenInv, op.pc \in {"ready2", "verify"}, Started, UNCHANGED <<slot, core, selected>>
    PROVE  GenInv'
<1> USE DEF AtPc, Replacing
<1>0. op \in Ops
  BY DEF SafeInv, TypeInv, TypeOK
<1>1. snap'.state = "running" /\ snap'.prepared = op.cur
  BY DEF Started
<1>2. slot /\ core \in {NoGen, op.cur}
  BY DEF GenInv, GenerationLive, LivePcs
<1>3. CASE Replacing /\ ~op.restore
  <2>1. op' = [op EXCEPT !.pc = "commit"] /\ files' = files
    BY <1>3 DEF Started
  <2>2. /\ op'.pc = "commit" /\ op'.kind = op.kind /\ op'.cur = op.cur /\ op'.spare = op.spare
        /\ op'.restore = op.restore
    BY <1>0, <2>1 DEF Ops
  <2>3. RecordedRuntimeKept' /\ RollbackCloneKept' /\ CloneApart'
    BY <2>1, <2>2 DEF GenInv, RecordedRuntimeKept, RollbackCloneKept, CloneApart
  <2>4. TargetApart' /\ ReloadTarget' /\ RunningSelected' /\ RestoreLate'
    BY <1>3, <2>2 DEF TargetApart, NotStarted, ReloadTarget, RunningSelected, RestoreLate
  <2>5. GenerationLive'
    BY <1>1, <1>2, <2>2 DEF GenerationLive, LivePcs
  <2>6. TargetSelected' /\ CloneSelected'
    BY <1>3, <2>2 DEF GenInv, TargetSelected, TargetHeld, CloneSelected, CloneNeeded, LivePcs, SwapPcs
  <2>7. QED
    BY <2>3, <2>4, <2>5, <2>6 DEF GenInv
<1>4. CASE ~(Replacing /\ ~op.restore)
  <2>1. Return(files) /\ CloneApart /\ RestoreLate
    BY <1>4 DEF Started, GenInv
  <2>2. op.kind = "switch" => op.restore
    BY <1>4 DEF Replacements
  <2>3. ProfileOf[op.cur] = selected
    BY <2>2 DEF GenInv, TargetSelected, TargetHeld, LivePcs
  <2>4. op.spare # NoGen => op.restore \/ op.spare \in files
    BY DEF GenInv, RollbackCloneKept
  <2>5. core' # NoGen => core' \in files /\ core' # op.spare
    BY DEF GenInv, RecordedRuntimeKept, CloneApart
  <2>6. QED
    BY <1>0, <1>1, <1>2, <2>1, <2>3, <2>4, <2>5, GenReturn
<1>5. QED
  BY <1>3, <1>4

LEMMA GenInit == Init => GenInv
BY IdleType
   DEF Init, GenInv, RecordedRuntimeKept, RollbackCloneKept, CloneApart, TargetApart, NotStarted, ReloadTarget,
       RestoreLate, GenerationLive, TargetSelected, TargetHeld, RunningSelected, CloneSelected, CloneNeeded,
       LivePcs, SwapPcs, AtPc, Idle, NoSnap

\* For GenInv a half-done reload is a failed one: the record does not follow.
LEMMA GenStep == SafeInv /\ GenInv /\ [Next]_vars => GenInv'
<1> SUFFICES ASSUME SafeInv, GenInv, [Next]_vars PROVE GenInv'
  OBVIOUS
<1> USE DEF AtPc, Replacing
<1>0. /\ TypeInv /\ op \in Ops /\ snap \in Snaps /\ files \subseteq Gens /\ core \in MaybeGen
      /\ StateAtPc /\ BootIdle /\ StaleIsStart /\ CurIsGen
      /\ RecordedRuntimeKept /\ RollbackCloneKept /\ CloneApart /\ TargetApart /\ ReloadTarget /\ RestoreLate
      /\ GenerationLive /\ TargetSelected /\ RunningSelected /\ CloneSelected
  BY DEF SafeInv, TypeInv, TypeOK, GenInv
<1>1. CASE PrepareOK
  <2>0. op.pc = "prepare" /\ UNCHANGED <<slot, core, selected>>
    BY <1>1 DEF PrepareOK, hostVars, coreVars
  <2>1. PICK g \in Fresh(IF op.kind = "switch" THEN Profiles \ {selected} ELSE {selected}) : PrepareOK!2!(g)
    BY <1>1 DEF PrepareOK
  <2>2. g \in Gens /\ g \notin files /\ g # NoGen /\ (op.kind # "switch" => ProfileOf[g] = selected)
    BY GensAssumption DEF Fresh
  <2>3. core # g /\ (op.spare # NoGen => op.restore \/ op.spare # g)
    BY <1>0, <2>2 DEF RecordedRuntimeKept, RollbackCloneKept, RestoreLate
  <2>4. CASE op.kind \in {"start", "restart"}
    <3>1. op' = [op EXCEPT !.pc = "coreStart", !.cur = g] /\ files' = files \union {g} /\ StartCore(g)
      BY <2>1, <2>4 DEF Replacements
    <3>2. /\ op'.pc = "coreStart" /\ op'.kind = op.kind /\ op'.cur = g /\ op'.spare = NoGen /\ op'.restore = FALSE
          /\ op.kind \notin Replacements /\ snap'.state = "starting"
      BY <1>0, <2>4, <3>1 DEF Ops, StartCore, CloneApart, RestoreLate, Replacements
    <3>3. RecordedRuntimeKept' /\ RollbackCloneKept' /\ CloneApart' /\ TargetApart' /\ ReloadTarget' /\ RestoreLate'
      BY <1>0, <2>0, <2>2, <2>3, <3>1, <3>2
         DEF RecordedRuntimeKept, RollbackCloneKept, CloneApart, TargetApart, ReloadTarget, RestoreLate
    <3>4. GenerationLive' /\ TargetSelected' /\ RunningSelected' /\ CloneSelected'
      BY <2>0, <2>2, <2>4, <3>2 DEF GenerationLive, LivePcs, TargetSelected, RunningSelected, CloneSelected,
          CloneNeeded
    <3>5. QED
      BY <3>3, <3>4 DEF GenInv
  <2>5. CASE op.kind = "reload"
    <3>1. op' = [op EXCEPT !.pc = "reload", !.cur = g] /\ files' = files \union {g} /\ snap' = snap
      BY <2>1, <2>5 DEF Replacements
    <3>2. /\ op'.pc = "reload" /\ op'.kind = op.kind /\ op'.cur = g /\ op'.spare = NoGen /\ op'.restore = FALSE
          /\ op.kind \notin Replacements
      BY <1>0, <2>5, <3>1 DEF Ops, CloneApart, RestoreLate, Replacements
    <3>3. RecordedRuntimeKept' /\ RollbackCloneKept' /\ CloneApart' /\ TargetApart' /\ ReloadTarget' /\ RestoreLate'
      BY <1>0, <2>0, <2>2, <2>3, <3>1, <3>2
         DEF RecordedRuntimeKept, RollbackCloneKept, CloneApart, TargetApart, ReloadTarget, RestoreLate
    <3>4. GenerationLive' /\ TargetSelected' /\ RunningSelected' /\ CloneSelected'
      BY <1>0, <2>0, <2>2, <2>5, <3>1, <3>2
         DEF GenerationLive, LivePcs, TargetSelected, RunningSelected, CloneSelected, CloneNeeded
    <3>5. QED
      BY <3>3, <3>4 DEF GenInv
  <2>6. CASE op.kind \notin {"start", "restart", "reload"}
    <3>1. Replacing /\ snap.prepared \in files /\ snap' = snap
      BY <2>1, <2>6
    <3>2. PICK s \in Fresh({ProfileOf[snap.prepared]}) \ {g} :
            /\ op' = [op EXCEPT !.pc = "guardBegin", !.cur = g, !.spare = s]
            /\ files' = files \union {g, s}
      BY <2>1, <2>6
    <3>3. s \in Gens /\ s \notin files /\ s # NoGen /\ s # g /\ ProfileOf[s] = ProfileOf[snap.prepared]
      BY <3>2, GensAssumption DEF Fresh
    <3>4. snap.state = "running"
      BY <1>0, <2>0, <2>6 DEF StateAtPc, StartingUp
    <3>5. ProfileOf[s] = selected
      BY <1>0, <2>0, <3>3, <3>4 DEF RunningSelected
    <3>6. op'.pc = "guardBegin" /\ op'.kind = op.kind /\ op'.cur = g /\ op'.spare = s /\ op'.restore = op.restore
      BY <1>0, <3>2 DEF Ops
    <3>7. core # s /\ snap.prepared # s
      BY <1>0, <3>1, <3>3 DEF RecordedRuntimeKept
    <3>8. RecordedRuntimeKept' /\ RollbackCloneKept' /\ RestoreLate'
      BY <1>0, <2>0, <3>2, <3>6 DEF RecordedRuntimeKept, RollbackCloneKept, RestoreLate
    <3>9. CloneApart' /\ TargetApart' /\ ReloadTarget' /\ RestoreLate'
      BY <1>0, <2>0, <2>2, <2>3, <3>1, <3>3, <3>6, <3>7 DEF CloneApart, TargetApart, ReloadTarget, RestoreLate
    <3>10. GenerationLive' /\ RunningSelected'
      BY <1>0, <2>0, <3>1, <3>6 DEF GenerationLive, LivePcs, RunningSelected
    <3>11. TargetSelected' /\ CloneSelected'
      BY <2>0, <2>2, <3>3, <3>5, <3>6 DEF TargetSelected, TargetHeld, LivePcs, CloneSelected
    <3>12. QED
      BY <3>8, <3>9, <3>10, <3>11 DEF GenInv
  <2>7. QED
    BY <2>4, <2>5, <2>6
<1>2. CASE PrepareFails
  <2>1. op.pc \in {"prepare"} /\ UNCHANGED <<slot, core, selected>> /\ Return(files)
    BY <1>2 DEF PrepareFails, hostVars, coreVars
  <2>2. snap'.state = "running" => snap' = snap
    BY <1>0, <1>2, <2>1 DEF PrepareFails, Snaps, StateAtPc, StartingUp
  <2>3. op.spare # NoGen => op.restore \/ op.spare \in files
    BY <1>0, <2>1 DEF RollbackCloneKept, CloneApart
  <2>4. core' # NoGen => core' \in files /\ core' # op.spare
    BY <1>0, <2>1 DEF RecordedRuntimeKept, CloneApart, TargetApart, NotStarted
  <2>5. snap'.state = "running" => slot' /\ core' \in {NoGen, snap'.prepared} /\ ProfileOf[snap'.prepared] = selected'
    BY <2>1, <2>2, GenRunning
  <2>6. QED
    BY <1>0, <2>1, <2>3, <2>4, <2>5, GenReturn
<1>3. CASE GuardSkipped
  <2>1. op.pc \in {"guardBegin"} /\ UNCHANGED <<slot, core, files, selected>>
    BY <1>3 DEF GuardSkipped, hostVars, coreVars
  <2>2. /\ op'.pc = "stDeact" /\ op'.kind = op.kind /\ op'.cur = op.cur /\ op'.spare = op.spare
        /\ op'.restore = op.restore /\ op'.why = op.why
    BY <1>0, <1>3 DEF GuardSkipped, StopOld, Ops
  <2>3. snap'.state = "stopping" /\ snap'.prepared = snap.prepared
    BY <1>0, <1>3, <2>1 DEF GuardSkipped, StopOld, Snaps, StateAtPc
  <2>4. (NotStarted' => NotStarted) /\ (TargetHeld' => TargetHeld) /\ (CloneNeeded' => CloneNeeded)
    BY <1>0, <2>1, <2>2 DEF RestoreLate, NotStarted, TargetHeld, CloneNeeded, LivePcs, SwapPcs
  <2>5. QED
    BY <2>1, <2>2, <2>3, <2>4, GenMoves DEF LivePcs
<1>4. CASE GuardInstalled
  <2>1. op.pc \in {"guardBegin"} /\ UNCHANGED <<slot, core, files, selected>>
    BY <1>4 DEF GuardInstalled, hostVars, coreVars
  <2>2. /\ op'.pc = "stDeact" /\ op'.kind = op.kind /\ op'.cur = op.cur /\ op'.spare = op.spare
        /\ op'.restore = op.restore /\ op'.why = op.why
    BY <1>0, <1>4 DEF GuardInstalled, StopOld, Ops
  <2>3. snap'.state = "stopping" /\ snap'.prepared = snap.prepared
    BY <1>0, <1>4, <2>1 DEF GuardInstalled, StopOld, Snaps, StateAtPc
  <2>4. (NotStarted' => NotStarted) /\ (TargetHeld' => TargetHeld) /\ (CloneNeeded' => CloneNeeded)
    BY <1>0, <2>1, <2>2 DEF RestoreLate, NotStarted, TargetHeld, CloneNeeded, LivePcs, SwapPcs
  <2>5. QED
    BY <2>1, <2>2, <2>3, <2>4, GenMoves DEF LivePcs
<1>5. CASE GuardFails
  <2>1. /\ op.pc = "guardBegin" /\ op' = Idle /\ files' = files \ {op.cur, op.spare}
        /\ UNCHANGED <<slot, core, selected, snap>>
    BY <1>5 DEF GuardFails, hostVars, coreVars
  <2>2. op'.pc = "idle" /\ op'.spare = NoGen /\ op'.restore = FALSE
    BY <2>1 DEF Idle
  <2>3. core # NoGen => core # op.cur /\ core # op.spare
    BY <1>0, <2>1 DEF TargetApart, NotStarted, CloneApart
  <2>4. RecordedRuntimeKept' /\ RollbackCloneKept' /\ RestoreLate'
    BY <1>0, <2>1, <2>2, <2>3 DEF RecordedRuntimeKept, RollbackCloneKept, RestoreLate
  <2>5. QED
    BY <2>1, <2>2, <2>4, GenRunning, GenAtRest DEF RestPcs
<1>6. CASE CoreStartOK
  <2>1. /\ op.pc = "coreStart" /\ op.cur \in files /\ slot' = TRUE /\ core' = op.cur
        /\ UNCHANGED <<files, selected, snap>>
    BY <1>6 DEF CoreStartOK, Records, hostVars
  <2>2. /\ op'.pc = "ready1" /\ op'.kind = op.kind /\ op'.cur = op.cur /\ op'.restore = op.restore
        /\ op'.spare = IF op.restore THEN NoGen ELSE op.spare
    BY <1>0, <1>6 DEF CoreStartOK, Records, Ops
  <2>3. snap.state = "starting"
    BY <1>0, <2>1 DEF StateAtPc
  <2>4. RecordedRuntimeKept' /\ RollbackCloneKept' /\ CloneApart'
    BY <1>0, <2>1, <2>2 DEF RecordedRuntimeKept, RollbackCloneKept, CloneApart, RestoreLate
  <2>5. TargetApart' /\ ReloadTarget' /\ RestoreLate' /\ RunningSelected' /\ GenerationLive'
    BY <1>0, <2>1, <2>2, <2>3 DEF TargetApart, NotStarted, ReloadTarget, RestoreLate, RunningSelected, GenerationLive
  <2>6. TargetSelected' /\ CloneSelected'
    BY <1>0, <2>1, <2>2 DEF TargetSelected, TargetHeld, CloneSelected, CloneNeeded, LivePcs, SwapPcs
  <2>7. QED
    BY <2>4, <2>5, <2>6 DEF GenInv
<1>7. CASE CoreStartFails
  <2>1. op.pc \in {"coreStart"} /\ UNCHANGED <<slot, core, files, selected>>
    BY <1>7 DEF CoreStartFails, hostVars, coreVars
  <2>2. /\ op'.pc = "rbDeact" /\ op'.kind = op.kind /\ op'.cur = op.cur /\ op'.spare = op.spare
        /\ op'.restore = op.restore /\ op'.why = "start"
    BY <1>0, <1>7 DEF CoreStartFails, RollBack, Ops
  <2>3. snap'.state # "running"
    BY <1>0, <1>7, <2>1 DEF CoreStartFails, RollBack, Snaps, StateAtPc
  <2>4. (NotStarted' => NotStarted) /\ (TargetHeld' => TargetHeld) /\ (CloneNeeded' => CloneNeeded)
    BY <1>0, <2>1, <2>2 DEF NotStarted, TargetHeld, CloneNeeded, LivePcs, SwapPcs
  <2>5. QED
    BY <2>1, <2>2, <2>3, <2>4, GenMoves DEF LivePcs
<1>8. CASE Ready
  <2>0. op.pc \in {"ready1", "ready2"} /\ UNCHANGED <<slot, core, selected>>
    BY <1>8 DEF Ready, hostVars, coreVars
  <2>1. CASE op.pc = "ready2" /\ Started
    BY <2>0, <2>1, GenStarted
  <2>2. CASE ~(op.pc = "ready2" /\ Started)
    <3>1. /\ op' = [op EXCEPT !.pc = IF op.pc = "ready1" THEN "activate" ELSE "verify"]
          /\ snap' = [snap EXCEPT !.health = TRUE] /\ files' = files
      BY <1>8, <2>2 DEF Ready
    <3>2. /\ op'.pc \in {"activate", "verify"} /\ op'.kind = op.kind /\ op'.cur = op.cur /\ op'.spare = op.spare
          /\ op'.restore = op.restore
      BY <1>0, <3>1 DEF Ops
    <3>3. snap'.state # "running"
      BY <1>0, <2>0, <3>1 DEF Snaps, StateAtPc
    <3>4. (NotStarted' => NotStarted) /\ (TargetHeld' => TargetHeld) /\ (CloneNeeded' => CloneNeeded)
      BY <2>0, <3>2 DEF NotStarted, TargetHeld, CloneNeeded, LivePcs, SwapPcs
    <3>5. QED
      BY <2>0, <3>1, <3>2, <3>3, <3>4, GenMoves DEF LivePcs
  <2>3. QED
    BY <2>1, <2>2
<1>9. CASE NotReady
  <2>1. op.pc \in {"ready1", "ready2"} /\ UNCHANGED <<slot, core, files, selected>>
    BY <1>9 DEF NotReady, hostVars, coreVars
  <2>2. /\ op'.pc = "rbDeact" /\ op'.kind = op.kind /\ op'.cur = op.cur /\ op'.spare = op.spare
        /\ op'.restore = op.restore /\ op'.why = "late"
    BY <1>0, <1>9 DEF NotReady, RollBack, Ops
  <2>3. snap'.state # "running"
    BY <1>0, <1>9, <2>1 DEF NotReady, RollBack, Snaps, StateAtPc
  <2>4. (NotStarted' => NotStarted) /\ (TargetHeld' => TargetHeld) /\ (CloneNeeded' => CloneNeeded)
    BY <1>0, <2>1, <2>2 DEF NotStarted, TargetHeld, CloneNeeded, LivePcs, SwapPcs
  <2>5. QED
    BY <2>1, <2>2, <2>3, <2>4, GenMoves DEF LivePcs
<1>10. CASE VerifyOK
  BY <1>10, GenStarted DEF VerifyOK, hostVars, coreVars
<1>11. CASE VerifyFails
  <2>1. op.pc \in {"verify"} /\ UNCHANGED <<slot, core, files, selected>>
    BY <1>11 DEF VerifyFails, hostVars, coreVars
  <2>2. /\ op'.pc = "rbDeact" /\ op'.kind = op.kind /\ op'.cur = op.cur /\ op'.spare = op.spare
        /\ op'.restore = op.restore /\ op'.why = "late"
    BY <1>0, <1>11 DEF VerifyFails, RollBack, Ops
  <2>3. snap'.state # "running"
    BY <1>0, <1>11, <2>1 DEF VerifyFails, RollBack, Snaps, StateAtPc
  <2>4. (NotStarted' => NotStarted) /\ (TargetHeld' => TargetHeld) /\ (CloneNeeded' => CloneNeeded)
    BY <1>0, <2>1, <2>2 DEF NotStarted, TargetHeld, CloneNeeded, LivePcs, SwapPcs
  <2>5. QED
    BY <2>1, <2>2, <2>3, <2>4, GenMoves DEF LivePcs
<1>12. CASE CommitOK
  <2>1. /\ op.pc = "commit" /\ UNCHANGED <<slot, core, snap>> /\ Return(files)
        /\ selected' = IF op.kind = "switch" THEN ProfileOf[op.cur] ELSE selected
    BY <1>12 DEF CommitOK, coreVars
  <2>2. snap.state = "running" /\ snap.prepared = op.cur /\ slot /\ core \in {NoGen, snap.prepared}
    BY <1>0, <2>1 DEF StateAtPc, GenerationLive
  <2>3. ProfileOf[op.cur] = selected'
    BY <1>0, <2>1 DEF TargetSelected, TargetHeld
  <2>4. op.spare # NoGen => op.restore \/ op.spare \in files
    BY <1>0 DEF RollbackCloneKept
  <2>5. core' # NoGen => core' \in files /\ core' # op.spare
    BY <1>0, <2>1 DEF RecordedRuntimeKept, CloneApart
  <2>6. QED
    BY <1>0, <2>1, <2>2, <2>3, <2>4, <2>5, GenReturn
<1>13. CASE CommitFails
  <2>1. op.pc = "commit" /\ UNCHANGED <<slot, core, files, selected>> /\ Replacing /\ ~op.restore
    BY <1>0, <1>13 DEF CommitFails, hostVars, coreVars, CurIsGen
  <2>2. /\ op'.pc = "stDeact" /\ op'.kind = op.kind /\ op'.cur = op.cur /\ op'.spare = op.spare
        /\ op'.restore = TRUE
    BY <1>0, <1>13 DEF CommitFails, Ops
  <2>3. snap'.state = "stopping"
    BY <1>0, <1>13 DEF CommitFails, Snaps
  <2>4. RecordedRuntimeKept' /\ RollbackCloneKept' /\ CloneApart'
    BY <1>0, <2>1, <2>2 DEF RecordedRuntimeKept, RollbackCloneKept, CloneApart, RestoreLate
  <2>5. TargetApart' /\ ReloadTarget' /\ RestoreLate' /\ RunningSelected' /\ GenerationLive' /\ TargetSelected'
    BY <2>1, <2>2, <2>3
       DEF TargetApart, NotStarted, ReloadTarget, RestoreLate, RunningSelected, GenerationLive, TargetSelected,
           TargetHeld, LivePcs
  <2>6. CloneSelected'
    BY <1>0, <2>1, <2>2 DEF CloneSelected, CloneNeeded, SwapPcs
  <2>7. QED
    BY <2>4, <2>5, <2>6 DEF GenInv
<1>14. CASE ActBegin
  <2>1. UNCHANGED genVars
    BY <1>14 DEF ActBegin, genVars, lcVars, hostVars, coreVars
  <2>2. QED
    BY <2>1, GenQuiet
<1>15. CASE ActStep
  <2>1. UNCHANGED genVars
    BY <1>15 DEF ActStep, genVars, lcVars, hostVars, coreVars
  <2>2. QED
    BY <2>1, GenQuiet
<1>16. CASE ActivateOK
  <2>1. op.pc \in {"activate"} /\ UNCHANGED <<slot, core, files, selected>>
    BY <1>16 DEF ActivateOK, hostVars, coreVars
  <2>2. /\ op'.pc = "ready2" /\ op'.kind = op.kind /\ op'.cur = op.cur /\ op'.spare = op.spare
        /\ op'.restore = op.restore /\ op'.why = op.why
    BY <1>0, <1>16 DEF ActivateOK, Ops
  <2>3. snap'.state # "running"
    BY <1>0, <1>16, <2>1 DEF ActivateOK, Snaps, StateAtPc
  <2>4. (NotStarted' => NotStarted) /\ (TargetHeld' => TargetHeld) /\ (CloneNeeded' => CloneNeeded)
    BY <1>0, <2>1, <2>2 DEF NotStarted, TargetHeld, CloneNeeded, LivePcs, SwapPcs
  <2>5. QED
    BY <2>1, <2>2, <2>3, <2>4, GenMoves DEF LivePcs
<1>17. CASE ActivateFails
  <2>1. op.pc \in {"activate"} /\ UNCHANGED <<slot, core, files, selected>>
    BY <1>17 DEF ActivateFails, hostVars, coreVars
  <2>2. /\ op'.pc = "rbDeact" /\ op'.kind = op.kind /\ op'.cur = op.cur /\ op'.spare = op.spare
        /\ op'.restore = op.restore /\ op'.why = "late"
    BY <1>0, <1>17 DEF ActivateFails, RollBack, Ops
  <2>3. snap'.state # "running"
    BY <1>0, <1>17, <2>1 DEF ActivateFails, RollBack, Snaps, StateAtPc
  <2>4. (NotStarted' => NotStarted) /\ (TargetHeld' => TargetHeld) /\ (CloneNeeded' => CloneNeeded)
    BY <1>0, <2>1, <2>2 DEF NotStarted, TargetHeld, CloneNeeded, LivePcs, SwapPcs
  <2>5. QED
    BY <2>1, <2>2, <2>3, <2>4, GenMoves DEF LivePcs
<1>18. CASE DeactivateOK
  <2>1. op.pc \in {"rbDeact", "stDeact"} /\ UNCHANGED <<slot, core, files, selected>>
    BY <1>18 DEF DeactivateOK, hostVars, coreVars
  <2>2. /\ op'.pc = (IF op.pc = "rbDeact" THEN "rbStop" ELSE "stStop") /\ op'.kind = op.kind
        /\ op'.cur = op.cur /\ op'.spare = op.spare
        /\ op'.restore = op.restore /\ op'.why = op.why
    BY <1>0, <1>18 DEF DeactivateOK, Ops
  <2>3. snap' = snap
    BY <1>0, <1>18, <2>1 DEF DeactivateOK, Snaps, StateAtPc
  <2>4. (NotStarted' => NotStarted) /\ (TargetHeld' => TargetHeld) /\ (CloneNeeded' => CloneNeeded)
    BY <1>0, <2>1, <2>2 DEF NotStarted, TargetHeld, CloneNeeded, LivePcs, SwapPcs
  <2>5. QED
    BY <2>1, <2>2, <2>3, <2>4, GenMoves DEF LivePcs
<1>19. CASE DeactivateFails
  <2>1. /\ op.pc \in {"rbDeact", "stDeact"} /\ UNCHANGED <<slot, core, selected>>
        /\ Return((IF op.pc = "stDeact" /\ Replacing /\ ~op.restore THEN files \ {op.cur} ELSE files))
    BY <1>19 DEF DeactivateFails, hostVars, coreVars
  <2>2. snap'.state = "cleanup-failed"
    BY <1>0, <1>19, <2>1 DEF DeactivateFails, Snaps, StateAtPc, StartingUp
  <2>3. op.spare # NoGen => op.restore \/ op.spare \in (IF op.pc = "stDeact" /\ Replacing /\ ~op.restore THEN files \ {op.cur} ELSE files)
    BY <1>0, <2>1 DEF RollbackCloneKept, CloneApart
  <2>4. core' # NoGen => core' \in (IF op.pc = "stDeact" /\ Replacing /\ ~op.restore THEN files \ {op.cur} ELSE files) /\ core' # op.spare
    BY <1>0, <2>1 DEF RecordedRuntimeKept, CloneApart, TargetApart, NotStarted
  <2>5. snap'.state = "running" => slot' /\ core' \in {NoGen, snap'.prepared} /\ ProfileOf[snap'.prepared] = selected'
    BY <2>1, <2>2, GenRunning
  <2>6. QED
    BY <1>0, <2>1, <2>3, <2>4, <2>5, GenReturn
<1>20. CASE StopOK
  <2>1. /\ op.pc = "stStop" /\ core' = NoGen /\ selected' = selected
    BY <1>20 DEF StopOK, Records, StopProcess, hostVars
  <2>2. core # op.spare \/ op.spare = NoGen
    BY <1>0 DEF CloneApart
  <2>3. CASE Replacing /\ op.restore
    <3>1. Restore
      BY <1>20, <2>3 DEF StopOK, Records, Replacements
    <3>2. op.spare # NoGen /\ ProfileOf[op.spare] = selected
      BY <1>0, <2>1, <2>3 DEF CloneSelected, CloneNeeded
    <3>3. QED
      BY <1>0, <2>1, <2>3, <3>1, <3>2, GenRestore
  <2>4. CASE Replacing /\ ~op.restore
    <3>1. /\ op' = [op EXCEPT !.pc = "coreStart"] /\ files' = files \ {core, snap.prepared}
          /\ snap' = [state |-> "starting", prepared |-> op.cur, health |-> FALSE]
      BY <1>20, <2>4 DEF StopOK, Records, Replacements
    <3>2. /\ op'.pc = "coreStart" /\ op'.kind = op.kind /\ op'.cur = op.cur /\ op'.spare = op.spare
          /\ op'.restore = op.restore /\ snap'.state = "starting"
      BY <1>0, <3>1 DEF Ops
    <3>3. RecordedRuntimeKept' /\ RollbackCloneKept' /\ CloneApart'
      BY <1>0, <2>1, <3>1, <3>2 DEF RecordedRuntimeKept, RollbackCloneKept, CloneApart, RestoreLate
    <3>4. TargetApart' /\ ReloadTarget' /\ RestoreLate' /\ RunningSelected' /\ GenerationLive'
      BY <1>0, <2>1, <2>4, <3>2 DEF TargetApart, NotStarted, ReloadTarget, RestoreLate, RunningSelected,
          GenerationLive, LivePcs
    <3>5. TargetSelected' /\ CloneSelected'
      BY <1>0, <2>1, <2>4, <3>2 DEF TargetSelected, TargetHeld, CloneSelected, CloneNeeded, SwapPcs
    <3>6. QED
      BY <3>3, <3>4, <3>5 DEF GenInv
  <2>5. CASE op.kind = "restart"
    <3>1. op' = [op EXCEPT !.pc = "prepare"] /\ snap'.state = "starting"
      BY <1>20, <2>5 DEF StopOK, Records, Replacements
    <3>2. op'.pc = "prepare" /\ op'.spare = NoGen /\ op'.restore = FALSE
      BY <1>0, <2>5, <3>1 DEF Ops, CloneApart, RestoreLate, Replacements
    <3>3. RecordedRuntimeKept' /\ RollbackCloneKept' /\ RestoreLate'
      BY <2>1, <3>2 DEF RecordedRuntimeKept, RollbackCloneKept, RestoreLate
    <3>4. QED
      BY <3>1, <3>2, <3>3, GenAtRest DEF RestPcs
  <2>6. CASE ~Replacing /\ op.kind # "restart"
    <3>1. Return(files \ {core, snap.prepared}) /\ snap'.state = "stopped"
      BY <1>20, <2>6 DEF StopOK, Records
    <3>2. op.spare = NoGen
      BY <1>0, <2>6 DEF CloneApart
    <3>3. QED
      BY <1>0, <2>1, <3>1, <3>2, GenReturn
  <2>7. QED
    BY <2>3, <2>4, <2>5, <2>6
<1>21. CASE StopFails
  <2>1. /\ op.pc \in {"stStop"} /\ UNCHANGED <<slot, core, selected>>
        /\ Return((IF Replacing /\ ~op.restore THEN files \ {op.cur} ELSE files))
    BY <1>21 DEF StopFails, hostVars, coreVars
  <2>2. snap'.state = "failed"
    BY <1>0, <1>21, <2>1 DEF StopFails, Snaps, StateAtPc, StartingUp
  <2>3. op.spare # NoGen => op.restore \/ op.spare \in (IF Replacing /\ ~op.restore THEN files \ {op.cur} ELSE files)
    BY <1>0, <2>1 DEF RollbackCloneKept, CloneApart
  <2>4. core' # NoGen => core' \in (IF Replacing /\ ~op.restore THEN files \ {op.cur} ELSE files) /\ core' # op.spare
    BY <1>0, <2>1 DEF RecordedRuntimeKept, CloneApart, TargetApart, NotStarted
  <2>5. snap'.state = "running" => slot' /\ core' \in {NoGen, snap'.prepared} /\ ProfileOf[snap'.prepared] = selected'
    BY <2>1, <2>2, GenRunning
  <2>6. QED
    BY <1>0, <2>1, <2>3, <2>4, <2>5, GenReturn
<1>22. CASE RollbackOK
  <2>1. /\ op.pc = "rbStop" /\ core' = NoGen /\ selected' = selected
    BY <1>22 DEF RollbackOK, Records, StopProcess, hostVars
  <2>2. CASE op.why = "stale"
    <3>1. op' = [op EXCEPT !.pc = "prepare", !.why = "none"] /\ snap'.state = "starting"
      BY <1>22, <2>2 DEF RollbackOK, Records
    <3>2. op'.pc = "prepare" /\ op'.spare = NoGen /\ op'.restore = FALSE
      BY <1>0, <2>2, <3>1 DEF Ops, CloneApart, RestoreLate, Replacements, StaleIsStart, StartingUp
    <3>3. RecordedRuntimeKept' /\ RollbackCloneKept' /\ RestoreLate'
      BY <2>1, <3>2 DEF RecordedRuntimeKept, RollbackCloneKept, RestoreLate
    <3>4. QED
      BY <3>1, <3>2, <3>3, GenAtRest DEF RestPcs
  <2>3. CASE op.why # "stale" /\ Replacing /\ ~op.restore
    <3>1. Restore
      BY <1>22, <2>3 DEF RollbackOK, Records
    <3>2. op.spare # NoGen /\ ProfileOf[op.spare] = selected
      BY <1>0, <2>1, <2>3 DEF CloneSelected, CloneNeeded, SwapPcs
    <3>3. QED
      BY <1>0, <2>1, <2>3, <3>1, <3>2, GenRestore
  <2>4. CASE op.why # "stale" /\ ~(Replacing /\ ~op.restore)
    <3>1. Return(files \ {core, op.cur}) /\ snap'.state = "failed"
      BY <1>22, <2>4 DEF RollbackOK, Records
    <3>2. op.spare = NoGen \/ op.restore
      BY <1>0, <2>4 DEF CloneApart
    <3>3. QED
      BY <1>0, <2>1, <3>1, <3>2, GenReturn
  <2>5. QED
    BY <2>2, <2>3, <2>4
<1>23. CASE RollbackStopFails
  <2>1. op.pc = "rbStop" /\ UNCHANGED <<slot, core, selected>>
    BY <1>23 DEF RollbackStopFails, hostVars, coreVars
  <2> DEFINE left == IF op.why = "start" THEN files \ {op.cur} ELSE files
  <2>2. core # NoGen => core \in left /\ core # op.spare
    BY <1>0, <2>1 DEF RecordedRuntimeKept, CloneApart, TargetApart, NotStarted
  <2>3. CASE op.why # "stale" /\ Replacing /\ ~op.restore /\ ~snap.health
    <3>1. Restore /\ files' = left
      BY <1>23, <2>3 DEF RollbackStopFails
    <3>2. op.spare # NoGen /\ ProfileOf[op.spare] = selected /\ core # op.spare
      BY <1>0, <2>1, <2>3 DEF CloneSelected, CloneNeeded, SwapPcs, CloneApart
    <3>3. QED
      BY <1>0, <2>1, <2>2, <2>3, <3>1, <3>2, GenRestore
  <2>4. CASE ~(op.why # "stale" /\ Replacing /\ ~op.restore /\ ~snap.health)
    <3>1. Return(left) /\ snap' = [snap EXCEPT !.state = "failed"]
      BY <1>23, <2>4 DEF RollbackStopFails
    <3>2. op.spare # NoGen => op.restore \/ op.spare \in left
      BY <1>0 DEF RollbackCloneKept, CloneApart
    <3>3. snap'.state = "failed"
      BY <1>0, <3>1, SnapState
    <3>4. QED
      BY <1>0, <2>1, <2>2, <3>1, <3>2, <3>3, GenReturn
  <2>5. QED
    BY <2>3, <2>4
<1>24. CASE ReloadOK
  <2>1. /\ op.pc = "reload" /\ core # NoGen /\ core' = op.cur /\ snap' = [snap EXCEPT !.prepared = op.cur]
        /\ Return(files \ {core}) /\ UNCHANGED <<slot, selected>>
    BY <1>24 DEF ReloadOK, Records, hostVars
  <2>2. op.cur \in files /\ core # op.cur /\ ~Replacing /\ op.spare = NoGen
    BY <1>0, <2>1 DEF ReloadTarget, TargetApart, NotStarted, CloneApart
  <2>3. op.cur # NoGen
    BY <1>0, <2>2, GensAssumption
  <2>4. slot /\ snap'.prepared = op.cur
    BY <1>0, <2>1 DEF StateAtPc, GenerationLive, Snaps
  <2>5. ProfileOf[op.cur] = selected
    BY <1>0, <2>1, <2>2 DEF TargetSelected, TargetHeld, Replacements
  <2>6. QED
    BY <1>0, <2>1, <2>2, <2>3, <2>4, <2>5, GenReturn
<1>25. CASE ReloadFails
  <2>1. op.pc \in {"reload"} /\ UNCHANGED <<slot, core, selected>> /\ Return((files \ {op.cur}))
    BY <1>25 DEF ReloadFails, hostVars, coreVars
  <2>2. snap' = snap
    BY <1>0, <1>25, <2>1 DEF ReloadFails, Snaps, StateAtPc, StartingUp
  <2>3. op.spare # NoGen => op.restore \/ op.spare \in (files \ {op.cur})
    BY <1>0, <2>1 DEF RollbackCloneKept, CloneApart, ReloadTarget
  <2>4. core' # NoGen => core' \in (files \ {op.cur}) /\ core' # op.spare
    BY <1>0, <2>1 DEF RecordedRuntimeKept, CloneApart, TargetApart, NotStarted
  <2>5. snap'.state = "running" => slot' /\ core' \in {NoGen, snap'.prepared} /\ ProfileOf[snap'.prepared] = selected'
    BY <2>1, <2>2, GenRunning
  <2>6. QED
    BY <1>0, <2>1, <2>3, <2>4, <2>5, GenReturn
<1>26. CASE ReloadHalfDone
  <2>1. op.pc \in {"reload"} /\ UNCHANGED <<slot, core, selected>> /\ Return((files \ {op.cur}))
    BY <1>26 DEF ReloadHalfDone, hostVars, coreVars
  <2>2. snap' = snap
    BY <1>0, <1>26, <2>1 DEF ReloadHalfDone, Snaps, StateAtPc, StartingUp
  <2>3. op.spare # NoGen => op.restore \/ op.spare \in (files \ {op.cur})
    BY <1>0, <2>1 DEF RollbackCloneKept, CloneApart, ReloadTarget
  <2>4. core' # NoGen => core' \in (files \ {op.cur}) /\ core' # op.spare
    BY <1>0, <2>1 DEF RecordedRuntimeKept, CloneApart, TargetApart, NotStarted
  <2>5. snap'.state = "running" => slot' /\ core' \in {NoGen, snap'.prepared} /\ ProfileOf[snap'.prepared] = selected'
    BY <2>1, <2>2, GenRunning
  <2>6. QED
    BY <1>0, <2>1, <2>3, <2>4, <2>5, GenReturn
<1>27. CASE FinishGuard
  <2>1. /\ op.pc \in {"finish", "guardOff"} /\ op' = Idle /\ files' = files \ {op.spare}
        /\ UNCHANGED <<slot, core, selected, snap>>
    BY <1>27 DEF FinishGuard, hostVars, coreVars
  <2>2. op'.pc = "idle" /\ op'.spare = NoGen /\ op'.restore = FALSE
    BY <2>1 DEF Idle
  <2>3. RecordedRuntimeKept' /\ RollbackCloneKept' /\ RestoreLate'
    BY <1>0, <2>1, <2>2 DEF RecordedRuntimeKept, RollbackCloneKept, CloneApart, RestoreLate
  <2>4. QED
    BY <2>1, <2>2, <2>3, GenRunning, GenAtRest DEF RestPcs
<1>28. CASE BeginStart
  <2>1. OpIdle /\ UNCHANGED <<slot, core, files, selected>>
    BY <1>28 DEF BeginStart, UserUp, hostVars, coreVars
  <2>2. QED
    BY <1>28, <2>1, GenStartFrom DEF BeginStart
<1>29. CASE BeginStop
  <2>1. OpIdle /\ UNCHANGED <<slot, core, files, selected>>
    BY <1>29 DEF BeginStop, UserUp, hostVars, coreVars
  <2>2. QED
    BY <1>29, <2>1, GenStopFrom DEF BeginStop
<1>30. CASE BeginRestart
  <2>1. OpIdle /\ UNCHANGED <<slot, core, files, selected>>
    BY <1>30 DEF BeginRestart, UserUp, hostVars, coreVars
  <2>2. CASE snap.state = "stopped"
    BY <1>30, <2>1, <2>2, GenStartFrom DEF BeginRestart
  <2>3. CASE snap.state # "stopped"
    <3>1. Take("restart", "stDeact") /\ snap' = [snap EXCEPT !.state = "stopping"]
      BY <1>30, <2>3 DEF BeginRestart
    <3>2. QED
      BY <1>0, <2>1, <3>1, SnapState, GenTakeStop DEF Replacements
  <2>4. QED
    BY <2>2, <2>3
<1>31. CASE SwitchSelection
  <2>1. op.pc = "idle" /\ snap.state # "running" /\ UNCHANGED <<slot, core, files, op, snap>>
    BY <1>31 DEF SwitchSelection, UserUp, OpIdle, coreVars
  <2>2. QED
    BY <1>0, <2>1, GenAtRest DEF RestPcs, RecordedRuntimeKept, RollbackCloneKept, CloneApart, RestoreLate
<1>32. CASE SetPolicy
  <2>1. UNCHANGED genVars
    BY <1>32 DEF SetPolicy, genVars, lcVars, hostVars, coreVars
  <2>2. QED
    BY <2>1, GenQuiet
<1>33. CASE \E k \in {"switch", "reconf", "reload"} \intersect Offered : BeginOnRunning(k)
  <2>1. PICK k : BeginOnRunning(k)
    BY <1>33
  <2>2. OpIdle /\ UNCHANGED <<slot, core, files, selected, snap>> /\ Take(k, "prepare")
    BY <2>1 DEF BeginOnRunning, UserUp, hostVars, coreVars
  <2>3. op'.pc = "prepare" /\ op'.why = "none" /\ op'.spare = NoGen /\ op'.restore = FALSE
    BY <2>2 DEF Take, Idle
  <2>4. QED
    BY <2>2, <2>3, GenTaken DEF RestPcs
<1>34. CASE MonitorFailsOpen
  <2>1. OpIdle /\ UNCHANGED <<slot, core, files, selected>> /\ Take("monitor", "stDeact")
    BY <1>34 DEF MonitorFailsOpen, UserUp, hostVars, coreVars
  <2>2. snap'.state = "stopping"
    BY <1>0, <1>34 DEF MonitorFailsOpen, Snaps
  <2>3. QED
    BY <2>1, <2>2, GenTakeStop DEF Replacements
<1>35. CASE MonitorSeesCleanupFailed
  <2>1. UNCHANGED genVars
    BY <1>35 DEF MonitorSeesCleanupFailed, genVars, lcVars, hostVars, coreVars
  <2>2. QED
    BY <2>1, GenQuiet
<1>36. CASE MonitorRetries
  <2>1. OpIdle /\ UNCHANGED <<slot, core, files, selected>>
    BY <1>36 DEF MonitorRetries, hostVars, coreVars
  <2>2. QED
    BY <1>36, <2>1, GenStopFrom DEF MonitorRetries
<1>37. CASE RetryGuardCleanup
  <2>1. UNCHANGED genVars
    BY <1>37 DEF RetryGuardCleanup, genVars, lcVars, hostVars, coreVars
  <2>2. QED
    BY <2>1, GenQuiet
<1>38. CASE ManagerStart
  <2>1. UNCHANGED genVars
    BY <1>38 DEF ManagerStart, genVars, lcVars, hostVars, coreVars
  <2>2. QED
    BY <2>1, GenQuiet
<1>39. CASE Adopt
  <2>1. op = Idle /\ snap = NoSnap /\ op.pc = "idle" /\ UNCHANGED <<core, files, selected>>
    BY <1>0, <1>39, IdleType DEF Adopt, BootIdle
  <2>2. RecordedRuntimeKept'
    BY <1>0, <2>1 DEF RecordedRuntimeKept
  <2>3. CASE core = NoGen
    BY <1>39, <2>1, <2>3, GenQuiet DEF Adopt, genVars
  <2>4. CASE core # NoGen /\ ProfileOf[core] = selected /\ argv = "start"
    <3>1. /\ op' = [Idle EXCEPT !.kind = "recover", !.pc = "ready1", !.cur = core]
          /\ snap' = [state |-> "starting", prepared |-> core, health |-> TRUE] /\ slot' = TRUE
      BY <1>39, <2>4 DEF Adopt
    <3>2. /\ op'.pc = "ready1" /\ op'.kind = "recover" /\ op'.cur = core /\ op'.spare = NoGen
          /\ op'.restore = FALSE /\ snap'.state = "starting"
      BY <3>1 DEF Idle
    <3>3. RollbackCloneKept' /\ CloneApart' /\ TargetApart' /\ ReloadTarget' /\ RestoreLate'
      BY <3>2 DEF RollbackCloneKept, CloneApart, TargetApart, NotStarted, ReloadTarget, RestoreLate
    <3>4. GenerationLive' /\ RunningSelected' /\ TargetSelected' /\ CloneSelected'
      BY <2>1, <2>4, <3>1, <3>2
         DEF GenerationLive, LivePcs, RunningSelected, TargetSelected, CloneSelected, CloneNeeded, Replacements
    <3>5. QED
      BY <2>2, <3>3, <3>4 DEF GenInv
  <2>5. CASE core # NoGen /\ ~(ProfileOf[core] = selected /\ argv = "start")
    <3>1. /\ Take("discard", "stDeact")
          /\ snap' = [state |-> "stopping", prepared |-> core, health |-> TRUE]
      BY <1>39, <2>5 DEF Adopt
    <3>2. /\ op'.pc = "stDeact" /\ op'.kind = "discard" /\ op'.why = "none" /\ op'.spare = NoGen
          /\ op'.restore = FALSE
          /\ snap'.state = "stopping"
      BY <3>1 DEF Take, Idle
    <3>3. RollbackCloneKept' /\ RestoreLate'
      BY <3>2 DEF RollbackCloneKept, RestoreLate
    <3>4. QED
      BY <2>2, <3>2, <3>3, GenAtRest DEF Replacements
  <2>6. QED
    BY <2>3, <2>4, <2>5
<1>40. CASE Serve
  <2>1. OpIdle /\ UNCHANGED <<slot, core, files, selected>>
    BY <1>40 DEF Serve, coreVars
  <2>2. CASE StopFrom("stop")
    BY <2>1, <2>2, GenStopFrom
  <2>3. CASE StartFrom("start")
    BY <2>1, <2>3, GenStartFrom
  <2>4. CASE UNCHANGED <<snap, op>>
    BY <2>1, <2>4, GenQuiet DEF genVars
  <2>5. QED
    BY <1>40, <2>2, <2>3, <2>4 DEF Serve
<1>41. CASE Terminate
  <2>1. UNCHANGED genVars
    BY <1>41 DEF Terminate, genVars, lcVars, hostVars, coreVars
  <2>2. QED
    BY <2>1, GenQuiet
<1>42. CASE ShutdownStop
  <2>1. OpIdle /\ UNCHANGED <<slot, core, files, selected>>
    BY <1>42 DEF ShutdownStop, hostVars, coreVars
  <2>2. QED
    BY <1>42, <2>1, GenStopFrom DEF ShutdownStop
<1>43. CASE Exit
  <2>1. op' = Idle /\ snap' = NoSnap /\ core' = core /\ files' = files \intersect {core}
    BY <1>43 DEF Exit, Gone
  <2>2. op'.pc = "idle" /\ op'.spare = NoGen /\ op'.restore = FALSE /\ snap'.state = "unset"
    BY <2>1, NoSnapType DEF Idle
  <2>3. RecordedRuntimeKept' /\ RollbackCloneKept' /\ RestoreLate'
    BY <1>0, <2>1, <2>2 DEF RecordedRuntimeKept, RollbackCloneKept, RestoreLate
  <2>4. QED
    BY <2>2, <2>3, GenAtRest DEF RestPcs
<1>44. CASE ManagerCrash
  <2>1. op' = Idle /\ snap' = NoSnap /\ core' = core /\ files' = files \intersect {core}
    BY <1>44 DEF ManagerCrash, Gone
  <2>2. op'.pc = "idle" /\ op'.spare = NoGen /\ op'.restore = FALSE /\ snap'.state = "unset"
    BY <2>1, NoSnapType DEF Idle
  <2>3. RecordedRuntimeKept' /\ RollbackCloneKept' /\ RestoreLate'
    BY <1>0, <2>1, <2>2 DEF RecordedRuntimeKept, RollbackCloneKept, RestoreLate
  <2>4. QED
    BY <2>2, <2>3, GenAtRest DEF RestPcs
<1>45. CASE CoreDies
  <2>1. core # NoGen /\ core' = NoGen /\ files' = files \ {core} /\ UNCHANGED <<slot, snap, op, selected>>
    BY <1>45 DEF CoreDies, Records, hostVars
  <2>2. RecordedRuntimeKept' /\ RollbackCloneKept' /\ CloneApart'
    BY <1>0, <2>1 DEF RecordedRuntimeKept, RollbackCloneKept, CloneApart, RestoreLate
  <2>3. TargetApart' /\ ReloadTarget' /\ RestoreLate'
    BY <1>0, <2>1 DEF TargetApart, NotStarted, ReloadTarget, RestoreLate
  <2>4. GenerationLive' /\ RunningSelected'
    BY <1>0, <2>1 DEF GenerationLive, RunningSelected
  <2>5. TargetSelected' /\ CloneSelected'
    BY <1>0, <2>1 DEF TargetSelected, TargetHeld, CloneSelected, CloneNeeded
  <2>6. QED
    BY <2>2, <2>3, <2>4, <2>5 DEF GenInv
<1>46. CASE GuardExpires
  <2>1. UNCHANGED genVars
    BY <1>46 DEF GuardExpires, genVars, lcVars, hostVars, coreVars
  <2>2. QED
    BY <2>1, GenQuiet
<1>47. CASE HotplugEvent
  <2>1. UNCHANGED genVars
    BY <1>47 DEF HotplugEvent, genVars, lcVars, hostVars, coreVars
  <2>2. QED
    BY <2>1, GenQuiet
<1>48. CASE HotplugBegin
  <2>1. UNCHANGED genVars
    BY <1>48 DEF HotplugBegin, genVars, lcVars, hostVars, coreVars
  <2>2. QED
    BY <2>1, GenQuiet
<1>49. CASE HotplugStep
  <2>1. UNCHANGED genVars
    BY <1>49 DEF HotplugStep, genVars, lcVars, hostVars, coreVars
  <2>2. QED
    BY <2>1, GenQuiet
<1>50. CASE CleanupStep
  <2>1. UNCHANGED genVars
    BY <1>50 DEF CleanupStep, genVars, lcVars, hostVars, coreVars
  <2>2. QED
    BY <2>1, GenQuiet
<1>51. CASE UNCHANGED vars
  <2>1. UNCHANGED genVars
    BY <1>51 DEF vars, genVars, lcVars, hostVars, coreVars
  <2>2. QED
    BY <2>1, GenQuiet
<1>52. CASE Reboot
  <2>1. op' = Idle /\ snap' = NoSnap /\ core' = NoGen
    BY <1>52 DEF Reboot, Records
  <2>2. op'.pc = "idle" /\ op'.spare = NoGen /\ op'.restore = FALSE /\ snap'.state = "unset"
    BY <2>1, NoSnapType DEF Idle
  <2>3. RecordedRuntimeKept' /\ RollbackCloneKept' /\ RestoreLate'
    BY <2>1, <2>2 DEF RecordedRuntimeKept, RollbackCloneKept, RestoreLate
  <2>4. QED
    BY <2>2, <2>3, GenAtRest DEF RestPcs
<1>53. QED
  BY <1>1, <1>2, <1>3, <1>4, <1>5, <1>6, <1>7, <1>8, <1>9, <1>10, <1>11, <1>12, <1>13,
       <1>14, <1>15, <1>16, <1>17, <1>18, <1>19, <1>20, <1>21, <1>22, <1>23, <1>24, <1>25,
       <1>26, <1>27, <1>28, <1>29, <1>30, <1>31, <1>32, <1>33, <1>34, <1>35, <1>36, <1>37,
       <1>38, <1>39, <1>40, <1>41, <1>42, <1>43, <1>44, <1>45, <1>46, <1>47, <1>48, <1>49,
       <1>50, <1>51, <1>52 DEF Next, OpStep, UserOp, Monitor, Process, Fault, OneShot

\* What the process has loaded is what its record names, unless the last reload ended
\* half done.
LoadedInv ==
    /\ runs = NoGen => core = NoGen
    /\ core = NoGen => runs = NoGen
    /\ ~halfDone => runs = core

LEMMA LoadedInit == Init => LoadedInv
BY DEF Init, LoadedInv

LEMMA LoadedStep == SafeInv /\ GenInv /\ LoadedInv /\ [Next]_vars => LoadedInv'
<1> SUFFICES ASSUME SafeInv, GenInv, LoadedInv, [Next]_vars PROVE LoadedInv'
  OBVIOUS
<1>1. CASE UNCHANGED coreVars
  BY <1>1 DEF LoadedInv, coreVars
<1>2. CASE CoreStartOK \/ StopOK \/ RollbackOK \/ ReloadOK
  BY <1>2 DEF CoreStartOK, StopOK, RollbackOK, StopProcess, ReloadOK, Records, LoadedInv
<1>3. CASE ReloadHalfDone
  <2>1. op.cur # NoGen
    BY <1>3, GensAssumption DEF ReloadHalfDone, SafeInv, TypeInv, TypeOK, GenInv, ReloadTarget, AtPc
  <2>2. QED
    BY <1>3, <2>1 DEF ReloadHalfDone, LoadedInv
<1>4. CASE CoreDies \/ Reboot
  BY <1>4 DEF CoreDies, Reboot, Records, LoadedInv
<1>5. CASE Adopt \/ Exit \/ ManagerCrash
  BY <1>5 DEF Adopt, Exit, ManagerCrash, Gone, LoadedInv
<1>6. CASE OpStep
  <2>1. CASE \/ PrepareOK \/ PrepareFails \/ GuardSkipped \/ GuardInstalled \/ GuardFails \/ CoreStartFails
             \/ Ready \/ NotReady \/ VerifyOK \/ VerifyFails \/ CommitOK \/ CommitFails
    BY <1>1, <2>1 DEF PrepareOK, PrepareFails, GuardSkipped, GuardInstalled, GuardFails, CoreStartFails, Ready,
       NotReady, VerifyOK, VerifyFails, CommitOK, CommitFails
  <2>2. CASE \/ ActBegin \/ ActStep \/ ActivateOK \/ ActivateFails \/ DeactivateOK \/ DeactivateFails
             \/ StopFails \/ RollbackStopFails \/ ReloadFails \/ FinishGuard
    BY <1>1, <2>2 DEF ActBegin, ActStep, ActivateOK, ActivateFails, DeactivateOK, DeactivateFails, StopFails,
       RollbackStopFails, ReloadFails, FinishGuard, lcVars, coreVars
  <2>3. QED
    BY <1>2, <1>3, <1>6, <2>1, <2>2 DEF OpStep
<1>7. CASE UserOp \/ Monitor
  BY <1>1, <1>7 DEF UserOp, Monitor, BeginStart, BeginStop, BeginRestart, SwitchSelection, SetPolicy,
     BeginOnRunning, MonitorFailsOpen, MonitorSeesCleanupFailed, MonitorRetries, RetryGuardCleanup, coreVars
<1>8. CASE Process \/ Fault
  BY <1>1, <1>4, <1>5, <1>8 DEF Process, Fault, ManagerStart, Serve, Terminate, ShutdownStop, GuardExpires
<1>9. CASE OneShot \/ UNCHANGED vars
  BY <1>1, <1>9 DEF OneShot, HotplugEvent, HotplugBegin, HotplugStep, CleanupStep, vars, lcVars, coreVars
<1>10. QED
  BY <1>6, <1>7, <1>8, <1>9 DEF Next

\* ActiveGenerationSound: what runs, its record, its runtime directory, its rollback clone
\* and the selected profile stay together; a half-done reload parts the process from the
\* rest, and nothing else does.
THEOREM ActiveGenerationHolds == Spec => []ActiveGenerationSound
<1>1. SafeInv /\ GenInv /\ [Next]_vars => GenInv'
  BY GenStep
<1>2. GenInv /\ LoadedInv => ActiveGenerationSound
  BY DEF GenInv, LoadedInv, GenerationLive, RunningSelected, ActiveGenerationSound, RunningIsLive, SelectionMatches,
     ActiveRuntimeKept, LoadedRuntimeKept, RecordedRuntimeKept, OpIdle, AtPc
<1>3. QED
  BY <1>1, <1>2, SafeInit, SafeStep, GenInit, LoadedInit, LoadedStep, PTL DEF Spec

=============================================================================
