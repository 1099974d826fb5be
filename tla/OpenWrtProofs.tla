---------------------------- MODULE OpenWrtProofs ----------------------------
(***************************************************************************)
(* Theorems about OpenWrtActivation for every set of plans: DNS can always *)
(* be restored, a completed Activate installed what is on record, a        *)
(* completed Deactivate left nothing, and the transaction implements the   *)
(* contract the lifecycle is checked against.                              *)
(***************************************************************************)
EXTENDS OpenWrtActivation, TLAPS

-----------------------------------------------------------------------------
(* The shape of the transaction record after a step.                       *)

LEMMA NoTxFields ==
    /\ NoTx.who = "none" /\ NoTx.op = "none" /\ NoTx.pc = "none" /\ NoTx.plan = NoPlan /\ NoTx.err = FALSE
BY DEF NoTx

LEMMA TxFields ==
    ASSUME tx \in {NoTx} \union Txs, tx.pc # "none"
    PROVE  /\ tx \in Txs
           /\ tx.who \in Callers /\ tx.op \in TxOps /\ tx.plan \in MaybePlan /\ tx.err \in BOOLEAN
BY NoTxFields DEF Txs

LEMMA GotoShape ==
    ASSUME tx \in Txs, NEW pc \in TxPcs, Goto(pc)
    PROVE  /\ tx' \in Txs /\ tx'.pc = pc
           /\ tx'.who = tx.who /\ tx'.op = tx.op /\ tx'.plan = tx.plan /\ tx'.err = tx.err
BY DEF Goto, Txs

LEMMA BrokenShape ==
    ASSUME tx \in Txs, NEW pc \in TxPcs, Broken(pc)
    PROVE  /\ tx' \in Txs /\ tx'.pc = pc /\ tx'.err
           /\ tx'.who = tx.who /\ tx'.op = tx.op /\ tx'.plan = tx.plan
BY DEF Broken, Txs

LEMMA BeginShape ==
    ASSUME NEW who \in Callers, NEW o \in TxOps, NEW pc \in TxPcs, NEW plan \in MaybePlan, Begin(who, o, pc, plan)
    PROVE  /\ tx = NoTx
           /\ tx' \in Txs /\ tx'.pc = pc /\ tx'.who = who /\ tx'.op = o /\ tx'.plan = plan /\ ~tx'.err
BY DEF Begin, Free, Txs

-----------------------------------------------------------------------------
(* DNS can always be restored.                                              *)

\* Which program points a call can be at, and who makes it.
PcOfOp ==
    /\ tx.op = "activate" => tx.pc \in {"backup", "routes", "nft", "uci", "restart", "record", "return"}
    /\ tx.op = "reconcile" => tx.pc # "reapply" /\ tx.who = "hotplug"
    /\ tx.op = "refresh" => tx.pc \in {"routes", "nft", "record", "reapply", "return"}
    /\ tx.op = "deactivate" => tx.pc \in {"rsUci", "rsRestart", "rsRemove", "clNft", "clRoutes", "unrecord"}

\* DNS is never touched without a backup to restore it from.
ApplyHasBackup ==
    tx.op \in {"activate", "reconcile"} /\ tx.pc \in {"routes", "nft", "uci", "restart", "record"} => backup = "admin"

\* Restoring goes from the configuration to the process to the backup file.
RestoreInOrder ==
    /\ tx.pc \in {"rsUci", "rsRestart", "rsRemove"} => backup = "admin"
    /\ tx.pc \in {"rsRestart", "rsRemove"} => uci = "admin"
    /\ tx.pc = "rsRemove" => live = "admin"

DnsInv == TypeOK /\ PcOfOp /\ ApplyHasBackup /\ RestoreInOrder /\ DnsBackupCovers /\ BackupIsAdmins

LEMMA DnsInit == Init => DnsInv
BY NoTxFields, NoPlanAssumption
   DEF Init, DnsInv, TypeOK, PcOfOp, ApplyHasBackup, RestoreInOrder, DnsBackupCovers,
       BackupIsAdmins, Callers, TxOps, TxPcs, MaybePlan, Owners

LEMMA RecordKeepsDns ==
    ASSUME DnsInv, Record
    PROVE  DnsInv'
<1>1. /\ TypeOK /\ tx.pc = "record"
      /\ tx' = NoTx /\ active' \in {active, tx.plan} /\ view' \in {"on", view}
      /\ last' = (last \/ ByManager)
      /\ UNCHANGED <<mode, nft, routes, uci, live, backup, hot>>
  BY DEF DnsInv, Record, At, host
<1>2. tx.plan \in MaybePlan
  BY <1>1, TxFields DEF TypeOK
<1>3. last' \in BOOLEAN
  BY <1>1 DEF TypeOK
<1>4. TypeOK'
  BY <1>1, <1>2, <1>3 DEF TypeOK
<1>5. PcOfOp' /\ ApplyHasBackup' /\ RestoreInOrder'
  BY <1>1, NoTxFields DEF DnsInv, PcOfOp, ApplyHasBackup, RestoreInOrder
<1>6. DnsBackupCovers' /\ BackupIsAdmins'
  BY <1>1, NoTxFields DEF DnsInv, DnsBackupCovers, BackupIsAdmins, RestoreInOrder
<1>7. QED
  BY <1>4, <1>5, <1>6 DEF DnsInv

LEMMA UnrecordKeepsDns ==
    ASSUME DnsInv, Unrecord
    PROVE  DnsInv'
<1>1. /\ TypeOK /\ tx.pc = "unrecord"
      /\ tx' = NoTx /\ active' \in {active, NoPlan} /\ view' \in {"off", "failed", view}
      /\ last' \in {last, last /\ ~ByManager}
      /\ UNCHANGED <<mode, nft, routes, uci, live, backup, hot>>
  BY DEF DnsInv, Unrecord, At, host
<1>2. last' \in BOOLEAN
  BY <1>1 DEF TypeOK
<1>3. TypeOK'
  BY <1>1, <1>2 DEF TypeOK, MaybePlan
<1>4. PcOfOp' /\ ApplyHasBackup' /\ RestoreInOrder'
  BY <1>1, NoTxFields DEF PcOfOp, ApplyHasBackup, RestoreInOrder
<1>5. DnsBackupCovers' /\ BackupIsAdmins'
  BY <1>1, NoTxFields DEF DnsInv, DnsBackupCovers, BackupIsAdmins, RestoreInOrder
<1>6. QED
  BY <1>3, <1>4, <1>5 DEF DnsInv

LEMMA DnsStep == DnsInv /\ [Next]_vars => DnsInv'
<1> SUFFICES ASSUME DnsInv, [Next]_vars
             PROVE  DnsInv'
  OBVIOUS
<1> USE UpstreamAssumption, NoPlanAssumption, NoTxFields
    DEF DnsInv, TypeOK, PcOfOp, ApplyHasBackup, RestoreInOrder, DnsBackupCovers, BackupIsAdmins,
        Callers, TxOps, TxPcs, MaybePlan, Owners, host
<1>1. CASE ManagerStart
  BY <1>1 DEF ManagerStart
<1>2. CASE ActivateNothing
  <2>1. last' \in BOOLEAN
    BY <1>2 DEF ActivateNothing, DnsInv, TypeOK
  <2>2. view' = "on" /\ UNCHANGED <<mode, nft, routes, uci, live, backup, active, hot, tx>>
    BY <1>2 DEF ActivateNothing, host
  <2>3. QED
    BY <2>1, <2>2
<1>3. CASE HotplugEvent
  BY <1>3 DEF HotplugEvent
<1>4. CASE DeactivateNothing
  <2>1. last' \in BOOLEAN
    BY <1>4 DEF DeactivateNothing, DnsInv, TypeOK
  <2>2. view' = "off" /\ UNCHANGED <<mode, nft, routes, uci, live, backup, active, hot, tx>>
    BY <1>4 DEF DeactivateNothing, host
  <2>3. QED
    BY <2>1, <2>2
<1>5. CASE SetMode
  BY <1>5 DEF SetMode
<1>6. CASE ReturnError
  BY TxFields, <1>6 DEF ReturnError, ByManager
<1>7. CASE Record
  BY <1>7, RecordKeepsDns
<1>8. CASE Unrecord
  BY <1>8, UnrecordKeepsDns
<1>9. CASE ManagerGone
  <2>1. last' \in BOOLEAN
    BY <1>9 DEF ManagerGone, DnsInv, TypeOK
  <2>2. /\ view' = "down" /\ tx' \in {NoTx, tx}
        /\ UNCHANGED <<mode, nft, routes, uci, live, backup, active, hot>>
    BY <1>9 DEF ManagerGone, host
  <2>3. QED
    BY <2>1, <2>2
<1>10. CASE OneShotDies
  BY TxFields, <1>10 DEF OneShotDies, ByManager
<1>11. CASE Reboot
  BY TxFields, <1>11 DEF Reboot, ByManager
<1>12. CASE BeginActivate
  BY BeginShape, <1>12 DEF BeginActivate, Free, ByManager
<1>13. CASE BeginReconcile
  BY BeginShape, <1>13 DEF BeginReconcile, Free, ByManager
<1>14. CASE BeginRefresh
  BY BeginShape, <1>14 DEF BeginRefresh, Free, ByManager
<1>15. CASE BeginDeactivate
  <2>1. PICK who \in {"manager", "cleanup"} :
          \/ Begin(who, "deactivate", IF backup = "none" THEN "clNft" ELSE "rsUci", NoPlan)
          \/ /\ backup # "none" /\ Free
             /\ tx' = [who |-> who, op |-> "deactivate", pc |-> "clNft", plan |-> NoPlan, err |-> TRUE]
    BY <1>15 DEF BeginDeactivate
  <2>2. tx' \in Txs /\ tx'.op = "deactivate"
    <3>1. CASE Begin(who, "deactivate", IF backup = "none" THEN "clNft" ELSE "rsUci", NoPlan)
      BY <3>1, BeginShape DEF Callers, TxOps, TxPcs, MaybePlan
    <3>2. CASE tx' = [who |-> who, op |-> "deactivate", pc |-> "clNft", plan |-> NoPlan, err |-> TRUE]
      BY <3>2 DEF Txs, Callers, TxOps, TxPcs, MaybePlan
    <3>3. QED
      BY <2>1, <3>1, <3>2
  <2>3. tx'.pc \in {"rsUci", "clNft"} /\ (tx'.pc = "rsUci" => backup # "none")
    BY <2>1, BeginShape DEF Callers, TxOps, TxPcs, MaybePlan
  <2>4. view' \in {view, "dirty"} /\ UNCHANGED <<mode, nft, routes, uci, live, backup, active, last, hot>>
    BY <1>15 DEF BeginDeactivate, host
  <2>5. QED
    BY <2>2, <2>3, <2>4
<1>16. CASE BackupDNS
  BY TxFields, GotoShape, BrokenShape, <1>16
     DEF BackupDNS, At, Fail, AfterApply, Wanted, ByManager
<1>17. CASE ApplyRoutes
  BY TxFields, GotoShape, BrokenShape, <1>17
     DEF ApplyRoutes, At, Fail, AfterApply, Wanted, ByManager
<1>18. CASE ApplyNft
  BY TxFields, GotoShape, BrokenShape, <1>18
     DEF ApplyNft, At, Fail, AfterApply, Wanted, ByManager
<1>19. CASE ApplyFails
  <2>1. routes' \in BOOLEAN
    BY <1>19 DEF ApplyFails, DnsInv, TypeOK
  <2>2. tx \in Txs /\ tx.plan \in MaybePlan
    BY <1>19, TxFields DEF ApplyFails, At, DnsInv, TypeOK
  <2>3. /\ tx.pc \in {"routes", "nft"} /\ tx' \in Txs /\ tx'.op = tx.op /\ tx'.who = tx.who
        /\ tx'.pc = IF tx.op = "reconcile" THEN "rsUci" ELSE "return"
        /\ nft' \in {nft, tx.plan}
        /\ UNCHANGED <<mode, uci, live, backup, active, last, view, hot>>
    BY <2>2, GotoShape, BrokenShape, <1>19 DEF ApplyFails, At, Fail, TxPcs, DnsInv, TypeOK
  <2>4. QED
    BY <2>1, <2>2, <2>3
<1>20. CASE ApplyUci
  BY TxFields, GotoShape, BrokenShape, <1>20
     DEF ApplyUci, At, Fail, AfterApply, Wanted, ByManager
<1>21. CASE ApplyUciFails
  BY TxFields, GotoShape, BrokenShape, <1>21
     DEF ApplyUciFails, At, Fail, AfterApply, Wanted, ByManager
<1>22. CASE RestartDnsmasq
  BY TxFields, GotoShape, BrokenShape, <1>22
     DEF RestartDnsmasq, At, Fail, AfterApply, Wanted, ByManager
<1>23. CASE RestartDnsmasqFails
  BY TxFields, GotoShape, BrokenShape, <1>23
     DEF RestartDnsmasqFails, At, Fail, AfterApply, Wanted, ByManager
<1>24. CASE RecordFails
  <2>1. last' \in BOOLEAN
    BY <1>24 DEF RecordFails, DnsInv, TypeOK
  <2>2. /\ tx.pc = "record" /\ tx.op \in {"activate", "refresh"} /\ active' \in {active, tx.plan}
        /\ UNCHANGED <<mode, nft, routes, uci, live, backup, hot, view>>
    BY <1>24 DEF RecordFails, At, host
  <2>3. tx \in Txs /\ tx.plan \in MaybePlan
    BY <2>2, TxFields DEF DnsInv, TypeOK
  <2>4. CASE tx.op = "activate"
    <3>1. tx' = NoTx
      BY <1>24, <2>4 DEF RecordFails
    <3>2. QED
      BY <2>1, <2>2, <2>3, <3>1
  <2>5. CASE tx.op = "refresh"
    <3>1. tx' = [tx EXCEPT !.pc = "reapply", !.plan = active]
      BY <1>24, <2>5 DEF RecordFails
    <3>2. tx' \in Txs /\ tx'.pc = "reapply" /\ tx'.op = "refresh"
      BY <2>3, <2>5, <3>1 DEF Txs, TxPcs, DnsInv, TypeOK
    <3>3. QED
      BY <2>1, <2>2, <2>3, <3>2
  <2>6. QED
    BY <2>2, <2>4, <2>5
<1>25. CASE Reapply
  <2>1. routes' \in BOOLEAN
    BY <1>25 DEF Reapply, DnsInv, TypeOK
  <2>2. tx \in Txs /\ tx.plan \in MaybePlan
    BY <1>25, TxFields DEF Reapply, At, DnsInv, TypeOK
  <2>3. /\ tx.pc = "reapply" /\ tx' \in Txs /\ tx'.op = tx.op /\ tx'.who = tx.who /\ tx'.pc = "return"
        /\ nft' \in {nft, tx.plan}
        /\ UNCHANGED <<mode, uci, live, backup, active, last, view, hot>>
    BY <2>2, GotoShape, BrokenShape, <1>25 DEF Reapply, At, Fail, TxPcs, DnsInv, TypeOK
  <2>4. QED
    BY <2>1, <2>2, <2>3
<1>26. CASE RestoreUci
  BY TxFields, GotoShape, BrokenShape, <1>26
     DEF RestoreUci, At, Fail, AfterApply, Wanted, ByManager
<1>27. CASE RestoreRestart
  BY TxFields, GotoShape, BrokenShape, <1>27
     DEF RestoreRestart, At, Fail, AfterApply, Wanted, ByManager
<1>28. CASE RemoveDNSBackup
  BY TxFields, GotoShape, BrokenShape, <1>28
     DEF RemoveDNSBackup, At, Fail, AfterApply, Wanted, ByManager
<1>29. CASE CleanupNft
  BY TxFields, GotoShape, BrokenShape, <1>29
     DEF CleanupNft, At, Fail, AfterApply, Wanted, ByManager
<1>30. CASE CleanupRoutes
  <2>1. routes' \in BOOLEAN
    BY <1>30 DEF CleanupRoutes, DnsInv, TypeOK
  <2>2. tx \in Txs /\ tx.plan \in MaybePlan
    BY <1>30, TxFields DEF CleanupRoutes, At, DnsInv, TypeOK
  <2>3. /\ tx.pc = "clRoutes" /\ tx' \in Txs /\ tx'.op = tx.op /\ tx'.who = tx.who /\ tx'.pc = "unrecord"
        /\ UNCHANGED <<mode, nft, uci, live, backup, active, last, view, hot>>
    BY <2>2, GotoShape, BrokenShape, <1>30
       DEF CleanupRoutes, At, Fail, TxPcs, DnsInv, TypeOK
  <2>4. QED
    BY <2>1, <2>2, <2>3
<1>31. CASE UNCHANGED vars
  BY <1>31 DEF vars
<1>32. QED
  BY <1>1, <1>2, <1>3, <1>4, <1>5, <1>6, <1>7, <1>8, <1>9, <1>10, <1>11, <1>12, <1>13,
       <1>14, <1>15, <1>16, <1>17, <1>18, <1>19, <1>20, <1>21, <1>22, <1>23, <1>24, <1>25,
       <1>26, <1>27, <1>28, <1>29, <1>30, <1>31 DEF Next

\* Types, and the two facts that make DNS restorable, hold for every set of
\* plans, whatever fails, dies or reboots.
THEOREM TypeCorrect == Spec => []TypeOK
<1>1. DnsInv => TypeOK
  BY DEF DnsInv
<1>2. QED
  BY DnsInit, DnsStep, <1>1, PTL DEF Spec

\* Without a backup, the configuration and the process of dnsmasq are the
\* administrator's.
THEOREM DnsBackupCoversHolds == Spec => []DnsBackupCovers
<1>1. DnsInv => DnsBackupCovers
  BY DEF DnsInv
<1>2. QED
  BY DnsInit, DnsStep, <1>1, PTL DEF Spec

\* The backup never holds boxctl's own options.
THEOREM BackupIsAdminsHolds == Spec => []BackupIsAdmins
<1>1. DnsInv => BackupIsAdmins
  BY DEF DnsInv
<1>2. QED
  BY DnsInit, DnsStep, <1>1, PTL DEF Spec

\* The administrator's dnsmasq configuration is never out of reach.
THEOREM DnsBackupSafeHolds == Spec => []DnsBackupSafe
<1>1. DnsInv => DnsBackupSafe
  BY DEF DnsInv, DnsBackupSafe
<1>2. QED
  BY DnsInit, DnsStep, <1>1, PTL DEF Spec

-----------------------------------------------------------------------------
(* What a call has done by the time it reports.                            *)

\* What a call has put in place, or removed, by the time it is at a point.
InstalledSoFar ==
    /\ tx.op \in {"activate", "refresh"} /\ tx.pc \in {"backup", "routes", "nft", "uci", "restart", "record"}
         => tx.plan # NoPlan
    /\ tx.op \in {"refresh", "reconcile"} => active # NoPlan
    /\ tx.pc \in {"nft", "uci", "restart", "record"} => routes

RemovedSoFar ==
    /\ ~tx.err /\ tx.pc \in {"clNft", "clRoutes", "unrecord"} => backup = "none"
    /\ ~tx.err /\ tx.pc \in {"clRoutes", "unrecord"} => nft = NoPlan
    /\ ~tx.err /\ tx.pc = "unrecord" => ~routes

ContractInv == DnsInv /\ InstalledSoFar /\ RemovedSoFar

LEMMA ContractStep == ContractInv /\ [Next]_vars => ContractInv'
<1> SUFFICES ASSUME ContractInv, [Next]_vars
             PROVE  InstalledSoFar' /\ RemovedSoFar'
  BY DnsStep DEF ContractInv
<1> USE UpstreamAssumption, NoPlanAssumption, NoTxFields
    DEF ContractInv, DnsInv, TypeOK, PcOfOp, InstalledSoFar, RemovedSoFar, Callers, TxOps, TxPcs,
        MaybePlan, host
<1>1. CASE ManagerStart
  BY <1>1 DEF ManagerStart
<1>2. CASE ActivateNothing
  BY <1>2 DEF ActivateNothing
<1>3. CASE HotplugEvent
  BY <1>3 DEF HotplugEvent
<1>4. CASE DeactivateNothing
  BY <1>4 DEF DeactivateNothing
<1>5. CASE SetMode
  BY <1>5 DEF SetMode
<1>6. CASE ReturnError
  BY TxFields, <1>6 DEF ReturnError, ByManager
<1>7. CASE Record
  BY TxFields, <1>7 DEF Record, ByManager
<1>8. CASE Unrecord
  BY TxFields, <1>8 DEF Unrecord, ByManager
<1>9. CASE ManagerGone
  BY TxFields, <1>9 DEF ManagerGone, ByManager
<1>10. CASE OneShotDies
  BY TxFields, <1>10 DEF OneShotDies, ByManager
<1>11. CASE Reboot
  BY TxFields, <1>11 DEF Reboot, ByManager
<1>12. CASE BeginActivate
  BY BeginShape, <1>12 DEF BeginActivate, Free
<1>13. CASE BeginReconcile
  BY BeginShape, <1>13 DEF BeginReconcile, Free
<1>14. CASE BeginRefresh
  BY BeginShape, <1>14 DEF BeginRefresh, Free
<1>15. CASE BeginDeactivate
  BY BeginShape, <1>15 DEF BeginDeactivate, Free
<1>16. CASE BackupDNS
  BY TxFields, GotoShape, BrokenShape, <1>16 DEF BackupDNS, At, Fail, AfterApply, Wanted
<1>17. CASE ApplyRoutes
  BY TxFields, GotoShape, BrokenShape, <1>17 DEF ApplyRoutes, At, Fail, AfterApply, Wanted
<1>18. CASE ApplyNft
  BY TxFields, GotoShape, BrokenShape, <1>18 DEF ApplyNft, At, Fail, AfterApply, Wanted
<1>19. CASE ApplyFails
  BY TxFields, GotoShape, BrokenShape, <1>19 DEF ApplyFails, At, Fail, AfterApply, Wanted
<1>20. CASE ApplyUci
  BY TxFields, GotoShape, BrokenShape, <1>20 DEF ApplyUci, At, Fail, AfterApply, Wanted
<1>21. CASE ApplyUciFails
  BY TxFields, GotoShape, BrokenShape, <1>21 DEF ApplyUciFails, At, Fail, AfterApply, Wanted
<1>22. CASE RestartDnsmasq
  BY TxFields, GotoShape, BrokenShape, <1>22
     DEF RestartDnsmasq, At, Fail, AfterApply, Wanted
<1>23. CASE RestartDnsmasqFails
  BY TxFields, GotoShape, BrokenShape, <1>23
     DEF RestartDnsmasqFails, At, Fail, AfterApply, Wanted
<1>24. CASE RecordFails
  <2>1. tx.pc = "record" /\ active' \in {active, tx.plan} /\ UNCHANGED <<nft, routes, backup>>
    BY <1>24 DEF RecordFails, At, host
  <2>2. tx \in Txs /\ tx.plan \in MaybePlan
    BY <2>1, TxFields DEF DnsInv, TypeOK
  <2>3. CASE tx' = NoTx
    BY <2>1, <2>3 DEF InstalledSoFar, RemovedSoFar
  <2>4. CASE tx.op = "refresh" /\ tx' = [tx EXCEPT !.pc = "reapply", !.plan = active]
    <3>1. tx'.pc = "reapply" /\ tx'.op = "refresh"
      BY <2>2, <2>4 DEF Txs
    <3>2. active # NoPlan /\ tx.plan # NoPlan
      BY <2>1, <2>4 DEF InstalledSoFar
    <3>3. QED
      BY <2>1, <3>1, <3>2 DEF InstalledSoFar, RemovedSoFar
  <2>5. QED
    BY <1>24, <2>3, <2>4 DEF RecordFails
<1>25. CASE Reapply
  BY TxFields, GotoShape, BrokenShape, <1>25 DEF Reapply, At, Fail, AfterApply, Wanted
<1>26. CASE RestoreUci
  BY TxFields, GotoShape, BrokenShape, <1>26 DEF RestoreUci, At, Fail, AfterApply, Wanted
<1>27. CASE RestoreRestart
  BY TxFields, GotoShape, BrokenShape, <1>27
     DEF RestoreRestart, At, Fail, AfterApply, Wanted
<1>28. CASE RemoveDNSBackup
  BY TxFields, GotoShape, BrokenShape, <1>28
     DEF RemoveDNSBackup, At, Fail, AfterApply, Wanted
<1>29. CASE CleanupNft
  BY TxFields, GotoShape, BrokenShape, <1>29 DEF CleanupNft, At, Fail, AfterApply, Wanted
<1>30. CASE CleanupRoutes
  BY TxFields, GotoShape, BrokenShape, <1>30 DEF CleanupRoutes, At, Fail, AfterApply, Wanted
<1>31. CASE UNCHANGED vars
  BY <1>31 DEF vars
<1>32. QED
  BY <1>1, <1>2, <1>3, <1>4, <1>5, <1>6, <1>7, <1>8, <1>9, <1>10, <1>11, <1>12, <1>13,
       <1>14, <1>15, <1>16, <1>17, <1>18, <1>19, <1>20, <1>21, <1>22, <1>23, <1>24, <1>25,
       <1>26, <1>27, <1>28, <1>29, <1>30, <1>31 DEF Next

-----------------------------------------------------------------------------
(* The transaction implements the contract.                                *)

CaptureHeld == nft # NoPlan \/ routes
DnsHeld == backup # "none"
Recorded == active # NoPlan
CallOf == IF tx.op = "refresh" THEN "reconcile" ELSE tx.op

KeepsHeld == (CaptureHeld' <=> CaptureHeld) /\ (DnsHeld' <=> DnsHeld)
KeepsRecord == Recorded' <=> Recorded

LEMMA MapStutter ==
    ASSUME KeepsHeld, KeepsRecord, CallOf' = CallOf
    PROVE  UNCHANGED Contract!actVars
BY DEF Contract!actVars, KeepsHeld, KeepsRecord, CaptureHeld, DnsHeld, Recorded, CallOf

LEMMA MapBegin ==
    ASSUME KeepsHeld, KeepsRecord, CallOf = "none", CallOf' \in Contract!Calls, CallOf' = "reconcile" => Recorded
    PROVE  Contract!ActNext
<1>1. Contract!BeginCall(CallOf')
  BY DEF Contract!BeginCall, KeepsHeld, KeepsRecord, CaptureHeld, DnsHeld, Recorded, CallOf
<1>2. QED
  BY <1>1 DEF Contract!ActNext

\* Any end of a call that leaves a record only of a complete installation, and
\* removes the record only when nothing is owned.
LEMMA MapEnd ==
    ASSUME KeepsHeld, CallOf \in Contract!Calls, CallOf' = "none",
           \/ KeepsRecord
           \/ Recorded' /\ CaptureHeld /\ DnsHeld /\ CallOf # "deactivate"
           \/ ~Recorded' /\ ~CaptureHeld /\ ~DnsHeld /\ CallOf # "activate"
    PROVE  Contract!ActNext
<1>1. CASE KeepsRecord
  <2>1. Contract!AbandonCall(CallOf)
    BY <1>1
       DEF Contract!AbandonCall, KeepsHeld, KeepsRecord, CaptureHeld, DnsHeld, Recorded,
           CallOf
  <2>2. QED
    BY <2>1 DEF Contract!ActNext
<1>2. CASE Recorded' /\ CaptureHeld /\ DnsHeld /\ CallOf # "deactivate"
  <2>1. Contract!AbandonCall(CallOf)
    BY <1>2
       DEF Contract!AbandonCall, Contract!Resources, KeepsHeld, CaptureHeld, DnsHeld,
           Recorded, CallOf
  <2>2. QED
    BY <2>1 DEF Contract!ActNext
<1>3. CASE ~Recorded' /\ ~CaptureHeld /\ ~DnsHeld /\ CallOf # "activate"
  <2>1. Contract!AbandonCall(CallOf)
    BY <1>3 DEF Contract!AbandonCall, KeepsHeld, CaptureHeld, DnsHeld, Recorded, CallOf
  <2>2. QED
    BY <2>1 DEF Contract!ActNext
<1>4. QED
  BY <1>1, <1>2, <1>3

LEMMA MapCapture ==
    ASSUME DnsHeld' <=> DnsHeld, KeepsRecord, CallOf' = CallOf, CallOf \in Contract!Calls,
           CaptureHeld' => CaptureHeld \/ CallOf \in {"activate", "reconcile"}
    PROVE  [Contract!ActNext]_Contract!actVars
<1>1. CASE CaptureHeld' <=> CaptureHeld
  BY <1>1, MapStutter DEF KeepsHeld
<1>2. CASE CaptureHeld' /\ ~CaptureHeld
  <2>1. Contract!Install("capture")
    BY <1>2 DEF Contract!Install, KeepsRecord, CaptureHeld, DnsHeld, Recorded, CallOf
  <2>2. QED
    BY <2>1 DEF Contract!ActNext, Contract!Resources
<1>3. CASE ~CaptureHeld' /\ CaptureHeld
  <2>1. Contract!Remove("capture")
    BY <1>3 DEF Contract!Remove, KeepsRecord, CaptureHeld, DnsHeld, Recorded, CallOf
  <2>2. QED
    BY <2>1 DEF Contract!ActNext, Contract!Resources
<1>4. QED
  BY <1>1, <1>2, <1>3

LEMMA MapDns ==
    ASSUME CaptureHeld' <=> CaptureHeld, KeepsRecord, CallOf' = CallOf, CallOf \in Contract!Calls,
           DnsHeld' => DnsHeld \/ CallOf \in {"activate", "reconcile"}
    PROVE  [Contract!ActNext]_Contract!actVars
<1>1. CASE DnsHeld' <=> DnsHeld
  BY <1>1, MapStutter DEF KeepsHeld
<1>2. CASE DnsHeld' /\ ~DnsHeld
  <2>1. Contract!Install("dns")
    BY <1>2 DEF Contract!Install, KeepsRecord, CaptureHeld, DnsHeld, Recorded, CallOf
  <2>2. QED
    BY <2>1 DEF Contract!ActNext, Contract!Resources
<1>3. CASE ~DnsHeld' /\ DnsHeld
  <2>1. Contract!Remove("dns")
    BY <1>3 DEF Contract!Remove, KeepsRecord, CaptureHeld, DnsHeld, Recorded, CallOf
  <2>2. QED
    BY <2>1 DEF Contract!ActNext, Contract!Resources
<1>4. QED
  BY <1>1, <1>2, <1>3

LEMMA MapReboot ==
    ASSUME ~CaptureHeld', DnsHeld' <=> DnsHeld, KeepsRecord, CallOf' = "none"
    PROVE  Contract!ActNext
<1>1. Contract!LoseCapture
  BY DEF Contract!LoseCapture, KeepsRecord, CaptureHeld, DnsHeld, Recorded, CallOf
<1>2. QED
  BY <1>1 DEF Contract!ActNext

LEMMA CallTypes ==
    ASSUME tx \in Txs
    PROVE  CallOf \in Contract!Calls
BY DEF Txs, TxOps, CallOf, Contract!Calls

LEMMA ContractInit == Init => Contract!ActInit
BY NoTxFields DEF Init, Contract!ActInit

LEMMA ContractMap == ContractInv /\ [Next]_vars => [Contract!ActNext]_Contract!actVars
<1> SUFFICES ASSUME ContractInv, [Next]_vars
             PROVE  [Contract!ActNext]_Contract!actVars
  OBVIOUS
<1> USE NoPlanAssumption, NoTxFields DEF ContractInv, DnsInv
<1>1. CASE ManagerStart
  BY MapStutter, <1>1
     DEF ManagerStart, host, CaptureHeld, DnsHeld, Recorded, CallOf, KeepsHeld, KeepsRecord
<1>2. CASE ActivateNothing
  BY MapStutter, <1>2
     DEF ActivateNothing, host, CaptureHeld, DnsHeld, Recorded, CallOf, KeepsHeld,
         KeepsRecord
<1>3. CASE HotplugEvent
  BY MapStutter, <1>3
     DEF HotplugEvent, host, CaptureHeld, DnsHeld, Recorded, CallOf, KeepsHeld, KeepsRecord
<1>4. CASE DeactivateNothing
  BY MapStutter, <1>4
     DEF DeactivateNothing, host, CaptureHeld, DnsHeld, Recorded, CallOf, KeepsHeld,
         KeepsRecord
<1>5. CASE SetMode
  BY MapStutter, <1>5
     DEF SetMode, host, CaptureHeld, DnsHeld, Recorded, CallOf, KeepsHeld, KeepsRecord
<1>6. CASE ApplyRoutes
  <2>1. tx \in Txs /\ tx'.op = tx.op
    BY TxFields, GotoShape, BrokenShape, <1>6
       DEF ApplyRoutes, At, Fail, AfterApply, TypeOK, TxPcs
  <2>2. CallOf' = CallOf /\ CallOf \in {"activate", "reconcile"}
    BY TxFields, <1>6, <2>1 DEF ApplyRoutes, At, PcOfOp, CallOf, TxOps, TypeOK
  <2>3. (DnsHeld' <=> DnsHeld) /\ KeepsRecord
    BY <1>6
       DEF ApplyRoutes, host, CaptureHeld, DnsHeld, Recorded, CallOf, KeepsHeld, KeepsRecord
  <2>4. QED
    BY CallTypes, MapCapture, <2>1, <2>2, <2>3
<1>7. CASE ApplyNft
  <2>1. tx \in Txs /\ tx'.op = tx.op
    BY TxFields, GotoShape, BrokenShape, <1>7
       DEF ApplyNft, At, Fail, AfterApply, TypeOK, TxPcs
  <2>2. CallOf' = CallOf /\ CallOf \in {"activate", "reconcile"}
    BY TxFields, <1>7, <2>1 DEF ApplyNft, At, PcOfOp, CallOf, TxOps, TypeOK
  <2>3. (DnsHeld' <=> DnsHeld) /\ KeepsRecord
    BY <1>7
       DEF ApplyNft, host, CaptureHeld, DnsHeld, Recorded, CallOf, KeepsHeld, KeepsRecord
  <2>4. QED
    BY CallTypes, MapCapture, <2>1, <2>2, <2>3
<1>8. CASE ApplyFails
  <2>1. tx \in Txs /\ tx'.op = tx.op
    BY TxFields, GotoShape, BrokenShape, <1>8
       DEF ApplyFails, At, Fail, AfterApply, TypeOK, TxPcs
  <2>2. CallOf' = CallOf /\ CallOf \in {"activate", "reconcile"}
    BY TxFields, <1>8, <2>1 DEF ApplyFails, At, PcOfOp, CallOf, TxOps, TypeOK
  <2>3. (DnsHeld' <=> DnsHeld) /\ KeepsRecord
    BY <1>8
       DEF ApplyFails, host, CaptureHeld, DnsHeld, Recorded, CallOf, KeepsHeld, KeepsRecord
  <2>4. QED
    BY CallTypes, MapCapture, <2>1, <2>2, <2>3
<1>9. CASE Reapply
  <2>1. tx \in Txs /\ tx'.op = tx.op
    BY TxFields, GotoShape, BrokenShape, <1>9
       DEF Reapply, At, Fail, AfterApply, TypeOK, TxPcs
  <2>2. CallOf' = CallOf /\ CallOf \in {"activate", "reconcile"}
    BY TxFields, <1>9, <2>1 DEF Reapply, At, PcOfOp, CallOf, TxOps, TypeOK
  <2>3. (DnsHeld' <=> DnsHeld) /\ KeepsRecord
    BY <1>9
       DEF Reapply, host, CaptureHeld, DnsHeld, Recorded, CallOf, KeepsHeld, KeepsRecord
  <2>4. QED
    BY CallTypes, MapCapture, <2>1, <2>2, <2>3
<1>10. CASE CleanupNft
  <2>1. tx \in Txs /\ tx'.op = tx.op
    BY TxFields, GotoShape, BrokenShape, <1>10
       DEF CleanupNft, At, Fail, AfterApply, TypeOK, TxPcs
  <2>2. QED
    BY CallTypes, MapCapture, <1>10, <2>1
       DEF CleanupNft, At, PcOfOp, host, TypeOK, MaybePlan, CaptureHeld, DnsHeld, Recorded,
           CallOf, KeepsHeld, KeepsRecord
<1>11. CASE CleanupRoutes
  <2>1. tx \in Txs /\ tx'.op = tx.op
    BY TxFields, GotoShape, BrokenShape, <1>11
       DEF CleanupRoutes, At, Fail, AfterApply, TypeOK, TxPcs
  <2>2. QED
    BY CallTypes, MapCapture, <1>11, <2>1
       DEF CleanupRoutes, At, PcOfOp, host, TypeOK, MaybePlan, CaptureHeld, DnsHeld,
           Recorded, CallOf, KeepsHeld, KeepsRecord
<1>12. CASE ApplyUci
  <2>1. tx \in Txs /\ tx'.op = tx.op
    BY TxFields, GotoShape, BrokenShape, <1>12
       DEF ApplyUci, At, Fail, AfterApply, TypeOK, TxPcs
  <2>2. QED
    BY CallTypes, MapStutter, <1>12, <2>1
       DEF ApplyUci, At, PcOfOp, host, TypeOK, MaybePlan, CaptureHeld, DnsHeld, Recorded,
           CallOf, KeepsHeld, KeepsRecord
<1>13. CASE ApplyUciFails
  <2>1. tx \in Txs /\ tx'.op = tx.op
    BY TxFields, GotoShape, BrokenShape, <1>13
       DEF ApplyUciFails, At, Fail, AfterApply, TypeOK, TxPcs
  <2>2. QED
    BY CallTypes, MapStutter, <1>13, <2>1
       DEF ApplyUciFails, At, PcOfOp, host, TypeOK, MaybePlan, CaptureHeld, DnsHeld,
           Recorded, CallOf, KeepsHeld, KeepsRecord
<1>14. CASE RestartDnsmasq
  <2>1. tx \in Txs /\ tx'.op = tx.op
    BY TxFields, GotoShape, BrokenShape, <1>14
       DEF RestartDnsmasq, At, Fail, AfterApply, TypeOK, TxPcs
  <2>2. QED
    BY CallTypes, MapStutter, <1>14, <2>1
       DEF RestartDnsmasq, At, PcOfOp, host, TypeOK, MaybePlan, CaptureHeld, DnsHeld,
           Recorded, CallOf, KeepsHeld, KeepsRecord
<1>15. CASE RestartDnsmasqFails
  <2>1. tx \in Txs /\ tx'.op = tx.op
    BY TxFields, GotoShape, BrokenShape, <1>15
       DEF RestartDnsmasqFails, At, Fail, AfterApply, TypeOK, TxPcs
  <2>2. QED
    BY CallTypes, MapStutter, <1>15, <2>1
       DEF RestartDnsmasqFails, At, PcOfOp, host, TypeOK, MaybePlan, CaptureHeld, DnsHeld,
           Recorded, CallOf, KeepsHeld, KeepsRecord
<1>16. CASE RestoreUci
  <2>1. tx \in Txs /\ tx'.op = tx.op
    BY TxFields, GotoShape, BrokenShape, <1>16
       DEF RestoreUci, At, Fail, AfterApply, TypeOK, TxPcs
  <2>2. QED
    BY CallTypes, MapStutter, <1>16, <2>1
       DEF RestoreUci, At, PcOfOp, host, TypeOK, MaybePlan, CaptureHeld, DnsHeld, Recorded,
           CallOf, KeepsHeld, KeepsRecord
<1>17. CASE RestoreRestart
  <2>1. tx \in Txs /\ tx'.op = tx.op
    BY TxFields, GotoShape, BrokenShape, <1>17
       DEF RestoreRestart, At, Fail, AfterApply, TypeOK, TxPcs
  <2>2. QED
    BY CallTypes, MapStutter, <1>17, <2>1
       DEF RestoreRestart, At, PcOfOp, host, TypeOK, MaybePlan, CaptureHeld, DnsHeld,
           Recorded, CallOf, KeepsHeld, KeepsRecord
<1>18. CASE BackupDNS
  <2>1. tx \in Txs /\ tx'.op = tx.op
    BY TxFields, GotoShape, BrokenShape, <1>18
       DEF BackupDNS, At, Fail, AfterApply, TypeOK, TxPcs
  <2>2. CallOf' = CallOf /\ CallOf \in {"activate", "reconcile"}
    BY TxFields, <1>18, <2>1 DEF BackupDNS, At, PcOfOp, CallOf, TxOps, TypeOK
  <2>3. (CaptureHeld' <=> CaptureHeld) /\ KeepsRecord
    BY <1>18
       DEF BackupDNS, host, CaptureHeld, DnsHeld, Recorded, CallOf, KeepsHeld, KeepsRecord
  <2>4. QED
    BY CallTypes, MapDns, <2>1, <2>2, <2>3
<1>19. CASE RemoveDNSBackup
  <2>1. tx \in Txs /\ tx'.op = tx.op
    BY TxFields, GotoShape, BrokenShape, <1>19
       DEF RemoveDNSBackup, At, Fail, AfterApply, TypeOK, TxPcs
  <2>2. QED
    BY CallTypes, MapDns, <1>19, <2>1
       DEF RemoveDNSBackup, At, PcOfOp, host, TypeOK, MaybePlan, CaptureHeld, DnsHeld,
           Recorded, CallOf, KeepsHeld, KeepsRecord
<1>20. CASE BeginActivate
  BY MapBegin, MapStutter, BeginShape, <1>20
     DEF BeginActivate, Free, host, TypeOK, Callers, TxOps, TxPcs, MaybePlan,
         Contract!Calls, CaptureHeld, DnsHeld, Recorded, CallOf, KeepsHeld, KeepsRecord
<1>21. CASE BeginReconcile
  BY MapBegin, MapStutter, BeginShape, <1>21
     DEF BeginReconcile, Free, host, TypeOK, Callers, TxOps, TxPcs, MaybePlan,
         Contract!Calls, CaptureHeld, DnsHeld, Recorded, CallOf, KeepsHeld, KeepsRecord
<1>22. CASE BeginRefresh
  BY MapBegin, MapStutter, BeginShape, <1>22
     DEF BeginRefresh, Free, host, TypeOK, Callers, TxOps, TxPcs, MaybePlan, Contract!Calls,
         CaptureHeld, DnsHeld, Recorded, CallOf, KeepsHeld, KeepsRecord
<1>23. CASE BeginDeactivate
  BY MapBegin, MapStutter, BeginShape, <1>23
     DEF BeginDeactivate, Free, host, TypeOK, Callers, TxOps, TxPcs, MaybePlan,
         Contract!Calls, CaptureHeld, DnsHeld, Recorded, CallOf, KeepsHeld, KeepsRecord
<1>24. CASE ReturnError
  <2>1. tx' = NoTx => CallOf' = "none"
    BY DEF CallOf
  <2>2. QED
    BY CallTypes, TxFields, MapEnd, MapStutter, <1>24, <2>1
       DEF ReturnError, At, ByManager, host, TypeOK, CaptureHeld, DnsHeld, Recorded, CallOf,
           KeepsHeld, KeepsRecord
<1>25. CASE ManagerGone
  <2>1. tx' = NoTx => CallOf' = "none"
    BY DEF CallOf
  <2>2. QED
    BY CallTypes, TxFields, MapEnd, MapStutter, <1>25, <2>1
       DEF ManagerGone, At, ByManager, host, TypeOK, CaptureHeld, DnsHeld, Recorded, CallOf,
           KeepsHeld, KeepsRecord
<1>26. CASE OneShotDies
  <2>1. tx' = NoTx => CallOf' = "none"
    BY DEF CallOf
  <2>2. QED
    BY CallTypes, TxFields, MapEnd, MapStutter, <1>26, <2>1
       DEF OneShotDies, At, ByManager, host, TypeOK, CaptureHeld, DnsHeld, Recorded, CallOf,
           KeepsHeld, KeepsRecord
<1>27. CASE Record
  <2>1. tx.pc = "record" /\ tx \in Txs /\ tx.op \in {"activate", "reconcile", "refresh"}
    BY <1>27, TxFields DEF Record, At, TypeOK, PcOfOp, TxOps
  <2>2. KeepsHeld /\ CallOf' = "none"
    BY <1>27
       DEF Record, host, CaptureHeld, DnsHeld, Recorded, CallOf, KeepsHeld, KeepsRecord
  <2>3. Recorded'
    BY <1>27, <2>1 DEF Record, Recorded, InstalledSoFar
  <2>4. CASE tx.op = "activate"
    <3>1. CaptureHeld /\ DnsHeld /\ CallOf = "activate"
      BY <2>1, <2>4
         DEF InstalledSoFar, ApplyHasBackup, CaptureHeld, DnsHeld, Recorded, CallOf,
             KeepsHeld, KeepsRecord
    <3>2. QED
      BY MapEnd, CallTypes, <2>1, <2>2, <2>3, <3>1
  <2>5. CASE tx.op \in {"reconcile", "refresh"}
    <3>1. KeepsRecord
      BY <2>3, <2>5 DEF InstalledSoFar, KeepsRecord, Recorded
    <3>2. QED
      BY MapEnd, CallTypes, <2>1, <2>2, <3>1
  <2>6. QED
    BY <2>1, <2>4, <2>5
<1>28. CASE Unrecord
  <2>1. tx' = NoTx => CallOf' = "none"
    BY DEF CallOf
  <2>2. QED
    BY CallTypes, TxFields, MapEnd, MapStutter, <1>28, <2>1
       DEF Unrecord, At, ByManager, host, TypeOK, CaptureHeld, DnsHeld, Recorded, CallOf,
           KeepsHeld, KeepsRecord, PcOfOp, RemovedSoFar
<1>29. CASE RecordFails
  <2>1. /\ tx.pc = "record" /\ tx \in Txs /\ tx.op \in {"activate", "refresh"}
        /\ active' \in {active, tx.plan} /\ tx.plan # NoPlan
    BY <1>29, TxFields DEF RecordFails, At, TypeOK, InstalledSoFar
  <2>2. KeepsHeld
    BY <1>29
       DEF RecordFails, host, CaptureHeld, DnsHeld, Recorded, CallOf, KeepsHeld, KeepsRecord
  <2>3. CASE tx.op = "activate"
    <3>1. CaptureHeld /\ DnsHeld /\ CallOf = "activate"
      BY <2>1, <2>3
         DEF InstalledSoFar, ApplyHasBackup, CaptureHeld, DnsHeld, Recorded, CallOf,
             KeepsHeld, KeepsRecord
    <3>2. CallOf' = "none"
      BY <1>29, <2>3 DEF RecordFails, CallOf
    <3>3. Recorded' \/ KeepsRecord
      BY <2>1 DEF KeepsRecord, Recorded
    <3>4. QED
      BY MapEnd, CallTypes, <2>1, <2>2, <3>1, <3>2, <3>3
  <2>4. CASE tx.op = "refresh"
    <3>1. tx' = [tx EXCEPT !.pc = "reapply", !.plan = active]
      BY <1>29, <2>4 DEF RecordFails
    <3>2. tx'.op = tx.op
      BY <2>1, <3>1 DEF Txs
    <3>3. active # NoPlan /\ KeepsRecord
      BY <2>1, <2>4 DEF InstalledSoFar, KeepsRecord, Recorded
    <3>4. QED
      BY MapStutter, <2>2, <3>2, <3>3 DEF CallOf
  <2>5. QED
    BY <2>1, <2>3, <2>4
<1>30. CASE Reboot
  BY MapReboot, <1>30
     DEF Reboot, CaptureHeld, DnsHeld, Recorded, CallOf, KeepsHeld, KeepsRecord
<1>31. CASE UNCHANGED vars
  BY MapStutter, <1>31
     DEF vars, host, CaptureHeld, DnsHeld, Recorded, CallOf, KeepsHeld, KeepsRecord
<1>32. QED
  BY <1>1, <1>2, <1>3, <1>4, <1>5, <1>6, <1>7, <1>8, <1>9, <1>10, <1>11, <1>12, <1>13,
       <1>14, <1>15, <1>16, <1>17, <1>18, <1>19, <1>20, <1>21, <1>22, <1>23, <1>24, <1>25,
       <1>26, <1>27, <1>28, <1>29, <1>30, <1>31 DEF Next

\* Every step of the real transaction, with its failures, crashes and reboots,
\* is a step the contract allows or changes nothing the contract speaks of.
THEOREM Refinement == Spec => ImplementsContract
<1>1. Init => ContractInv
  BY DnsInit, NoTxFields DEF Init, ContractInv, InstalledSoFar, RemovedSoFar
<1>2. QED
  BY <1>1, ContractStep, ContractInit, ContractMap, PTL
     DEF Spec, ImplementsContract, Contract!ActSpec

-----------------------------------------------------------------------------
(* A completed Deactivate left nothing behind.                             *)

\* Only a cleanup, which removes what is already gone, can hold the lock after
\* the manager's Deactivate succeeded.
OffIsQuiet == view = "off" => tx.op \in {"none", "deactivate"} /\ ~ByManager

OffInv == ContractInv /\ mode = "gateway" /\ OffIsQuiet /\ OffOwnsNothing

LEMMA OffStep ==
    ASSUME OffInv, [Next]_vars, mode' = "gateway"
    PROVE  OffInv'
<1> SUFFICES mode' = "gateway" /\ OffIsQuiet' /\ OffOwnsNothing'
  BY ContractStep DEF OffInv
<1> USE NoPlanAssumption, NoTxFields DEF OffInv, ContractInv, DnsInv
<1>0. mode' = mode
  OBVIOUS
<1>1. CASE ManagerStart
  BY <1>0, <1>1 DEF ManagerStart, OffIsQuiet, OffOwnsNothing, ByManager, host
<1>2. CASE ActivateNothing
  BY <1>2 DEF ActivateNothing, OffIsQuiet, OffOwnsNothing, ByManager, host
<1>3. CASE HotplugEvent
  BY <1>0, <1>3 DEF HotplugEvent, OffIsQuiet, OffOwnsNothing, ByManager, host
<1>4. CASE DeactivateNothing
  BY <1>4 DEF DeactivateNothing, OffIsQuiet, OffOwnsNothing, ByManager, host
<1>5. CASE SetMode
  BY <1>0, <1>5 DEF SetMode
<1>6. CASE ReturnError
  BY <1>0, <1>6 DEF ReturnError, OffIsQuiet, OffOwnsNothing, ByManager, host
<1>7. CASE Record
  <2>1. tx.op \notin {"none", "deactivate"}
    BY TxFields, <1>7 DEF Record, At, PcOfOp, TypeOK, TxOps
  <2>2. view # "off" /\ view' \in {view, "on"}
    BY <1>7, <2>1 DEF Record, OffIsQuiet
  <2>3. QED
    BY <1>0, <2>2 DEF OffIsQuiet, OffOwnsNothing
<1>8. CASE Unrecord
  BY <1>0, <1>8
     DEF Unrecord, At, RemovedSoFar, DnsBackupCovers, OffIsQuiet, OffOwnsNothing, ByManager,
         host
<1>9. CASE ManagerGone
  BY <1>0, <1>9 DEF ManagerGone, OffIsQuiet, OffOwnsNothing, ByManager, host
<1>10. CASE OneShotDies
  BY <1>0, <1>10 DEF OneShotDies, OffIsQuiet, OffOwnsNothing, ByManager, host
<1>11. CASE Reboot
  BY <1>0, <1>11 DEF Reboot, OffIsQuiet, OffOwnsNothing, ByManager, host
<1>12. CASE BeginActivate
  BY BeginShape, <1>0, <1>12
     DEF BeginActivate, Free, Callers, TxOps, TxPcs, MaybePlan, TypeOK, OffIsQuiet,
         OffOwnsNothing, ByManager, host
<1>13. CASE BeginReconcile
  BY BeginShape, <1>0, <1>13
     DEF BeginReconcile, Free, Callers, TxOps, TxPcs, MaybePlan, TypeOK, OffIsQuiet,
         OffOwnsNothing, ByManager, host
<1>14. CASE BeginRefresh
  BY BeginShape, <1>0, <1>14
     DEF BeginRefresh, Free, Callers, TxOps, TxPcs, MaybePlan, TypeOK, OffIsQuiet,
         OffOwnsNothing, ByManager, host
<1>15. CASE BeginDeactivate
  BY BeginShape, <1>0, <1>15
     DEF BeginDeactivate, Free, Callers, TxOps, TxPcs, MaybePlan, TypeOK, OffIsQuiet,
         OffOwnsNothing, ByManager, host
<1>16. CASE BackupDNS
  <2>1. tx.op \notin {"none", "deactivate"}
    BY TxFields, <1>16 DEF BackupDNS, At, PcOfOp, TypeOK, TxOps
  <2>2. view # "off" /\ view' \in {view, "on"}
    BY <1>16, <2>1 DEF BackupDNS, OffIsQuiet
  <2>3. QED
    BY <1>0, <2>2 DEF OffIsQuiet, OffOwnsNothing
<1>17. CASE ApplyRoutes
  <2>1. tx.op \notin {"none", "deactivate"}
    BY TxFields, <1>17 DEF ApplyRoutes, At, PcOfOp, TypeOK, TxOps
  <2>2. view # "off" /\ view' \in {view, "on"}
    BY <1>17, <2>1 DEF ApplyRoutes, OffIsQuiet
  <2>3. QED
    BY <1>0, <2>2 DEF OffIsQuiet, OffOwnsNothing
<1>18. CASE ApplyNft
  <2>1. tx.op \notin {"none", "deactivate"}
    BY TxFields, <1>18 DEF ApplyNft, At, PcOfOp, TypeOK, TxOps
  <2>2. view # "off" /\ view' \in {view, "on"}
    BY <1>18, <2>1 DEF ApplyNft, OffIsQuiet
  <2>3. QED
    BY <1>0, <2>2 DEF OffIsQuiet, OffOwnsNothing
<1>19. CASE ApplyFails
  <2>1. tx.op \notin {"none", "deactivate"}
    BY TxFields, <1>19 DEF ApplyFails, At, PcOfOp, TypeOK, TxOps
  <2>2. view # "off" /\ view' \in {view, "on"}
    BY <1>19, <2>1 DEF ApplyFails, OffIsQuiet
  <2>3. QED
    BY <1>0, <2>2 DEF OffIsQuiet, OffOwnsNothing
<1>20. CASE ApplyUci
  <2>1. tx.op \notin {"none", "deactivate"}
    BY TxFields, <1>20 DEF ApplyUci, At, PcOfOp, TypeOK, TxOps
  <2>2. view # "off" /\ view' \in {view, "on"}
    BY <1>20, <2>1 DEF ApplyUci, OffIsQuiet
  <2>3. QED
    BY <1>0, <2>2 DEF OffIsQuiet, OffOwnsNothing
<1>21. CASE ApplyUciFails
  <2>1. tx.op \notin {"none", "deactivate"}
    BY TxFields, <1>21 DEF ApplyUciFails, At, PcOfOp, TypeOK, TxOps
  <2>2. view # "off" /\ view' \in {view, "on"}
    BY <1>21, <2>1 DEF ApplyUciFails, OffIsQuiet
  <2>3. QED
    BY <1>0, <2>2 DEF OffIsQuiet, OffOwnsNothing
<1>22. CASE RestartDnsmasq
  BY TxFields, GotoShape, BrokenShape, <1>0, <1>22
     DEF RestartDnsmasq, At, Fail, AfterApply, PcOfOp, RestoreInOrder, TypeOK, TxPcs,
         OffIsQuiet, OffOwnsNothing, ByManager, host
<1>23. CASE RestartDnsmasqFails
  BY TxFields, GotoShape, BrokenShape, <1>0, <1>23
     DEF RestartDnsmasqFails, At, Fail, AfterApply, PcOfOp, RestoreInOrder, TypeOK, TxPcs,
         OffIsQuiet, OffOwnsNothing, ByManager, host
<1>24. CASE RecordFails
  BY TxFields, GotoShape, BrokenShape, <1>0, <1>24
     DEF RecordFails, At, Fail, AfterApply, PcOfOp, RestoreInOrder, TypeOK, TxPcs,
         OffIsQuiet, OffOwnsNothing, ByManager, host
<1>25. CASE Reapply
  <2>1. tx.op \notin {"none", "deactivate"}
    BY TxFields, <1>25 DEF Reapply, At, PcOfOp, TypeOK, TxOps
  <2>2. view # "off" /\ view' \in {view, "on"}
    BY <1>25, <2>1 DEF Reapply, OffIsQuiet
  <2>3. QED
    BY <1>0, <2>2 DEF OffIsQuiet, OffOwnsNothing
<1>26. CASE RestoreUci
  BY TxFields, GotoShape, BrokenShape, <1>0, <1>26
     DEF RestoreUci, At, Fail, AfterApply, PcOfOp, RestoreInOrder, TypeOK, TxPcs,
         OffIsQuiet, OffOwnsNothing, ByManager, host
<1>27. CASE RestoreRestart
  BY TxFields, GotoShape, BrokenShape, <1>0, <1>27
     DEF RestoreRestart, At, Fail, AfterApply, PcOfOp, RestoreInOrder, TypeOK, TxPcs,
         OffIsQuiet, OffOwnsNothing, ByManager, host
<1>28. CASE RemoveDNSBackup
  BY TxFields, GotoShape, BrokenShape, <1>0, <1>28
     DEF RemoveDNSBackup, At, Fail, AfterApply, PcOfOp, RestoreInOrder, TypeOK, TxPcs,
         OffIsQuiet, OffOwnsNothing, ByManager, host
<1>29. CASE CleanupNft
  BY TxFields, GotoShape, BrokenShape, <1>0, <1>29
     DEF CleanupNft, At, Fail, AfterApply, PcOfOp, RestoreInOrder, TypeOK, TxPcs,
         OffIsQuiet, OffOwnsNothing, ByManager, host
<1>30. CASE CleanupRoutes
  <2>1. tx'.op = tx.op /\ tx'.who = tx.who
    BY TxFields, GotoShape, BrokenShape, <1>30 DEF CleanupRoutes, At, TypeOK, TxPcs
  <2>2. ~routes => ~routes'
    BY <1>30 DEF CleanupRoutes
  <2>3. UNCHANGED <<nft, uci, live, backup, active, view>>
    BY <1>30 DEF CleanupRoutes
  <2>4. QED
    BY <1>0, <2>1, <2>2, <2>3 DEF OffIsQuiet, OffOwnsNothing, ByManager
<1>31. CASE UNCHANGED vars
  BY <1>31 DEF vars, OffIsQuiet, OffOwnsNothing, ByManager, host
<1>32. QED
  BY <1>1, <1>2, <1>3, <1>4, <1>5, <1>6, <1>7, <1>8, <1>9, <1>10, <1>11, <1>12, <1>13,
       <1>14, <1>15, <1>16, <1>17, <1>18, <1>19, <1>20, <1>21, <1>22, <1>23, <1>24, <1>25,
       <1>26, <1>27, <1>28, <1>29, <1>30, <1>31 DEF Next

\* While OPERATING_MODE stays gateway, a generation whose Deactivate succeeded
\* has left nothing in the kernel, in dnsmasq or on disk.
THEOREM OffStaysEmptyHolds == Spec => OffStaysEmpty
<1>1. Init /\ mode = "gateway" => OffInv
  BY DnsInit, NoTxFields
     DEF Init, OffInv, ContractInv, InstalledSoFar, RemovedSoFar, OffIsQuiet, OffOwnsNothing
<1>2. OffInv /\ [Next]_vars /\ (mode = "gateway")' => OffInv'
  BY OffStep
<1>3. OffInv => OffOwnsNothing
  BY DEF OffInv
<1>4. QED
  BY <1>1, <1>2, <1>3, PTL DEF Spec, OffStaysEmpty

LEMMA ReportStep ==
    ASSUME ContractInv, [Next]_vars, ByManager, view' # view
    PROVE  /\ view' = "on" => Contract!InstalledOK("activate")
           /\ view' = "off" => Contract!RemovedOK("deactivate")
<1> USE NoPlanAssumption, NoTxFields DEF ContractInv, DnsInv
<1>1. CASE Record
  <2>1. tx.pc = "record" /\ tx.op = "activate" /\ view' = "on"
    BY <1>1 DEF Record, At
  <2>2. active' # NoPlan /\ routes /\ backup # "none" /\ tx.op = "activate" /\ tx' = NoTx
    BY <1>1, <2>1 DEF Record, InstalledSoFar, ApplyHasBackup
  <2>3. UNCHANGED <<nft, routes, backup>>
    BY <1>1 DEF Record, host
  <2>4. Contract!InstalledOK("activate")
    BY <2>2, <2>3 DEF Contract!InstalledOK, Contract!Resources
  <2>5. QED
    BY <2>1, <2>4
<1>2. CASE Unrecord
  <2>1. tx.pc = "unrecord" /\ tx' = NoTx /\ UNCHANGED <<nft, routes, backup>>
    BY <1>2 DEF Unrecord, At, host
  <2>2. view' = "off" => ~tx.err /\ active' = NoPlan
    BY <1>2 DEF Unrecord, ByManager
  <2>3. tx.op = "deactivate"
    BY <2>1, TxFields DEF TypeOK, PcOfOp, TxOps, ByManager
  <2>4. view' = "off" => Contract!RemovedOK("deactivate")
    BY <2>1, <2>2, <2>3 DEF Contract!RemovedOK, RemovedSoFar
  <2>5. view' # "on"
    BY <1>2 DEF Unrecord, ByManager
  <2>6. QED
    BY <2>4, <2>5
<1>3. CASE ReturnError \/ HotplugEvent \/ BeginReconcile \/ BeginRefresh
  BY <1>3 DEF ReturnError, HotplugEvent, BeginReconcile, BeginRefresh, host
<1>4. CASE BackupDNS \/ ApplyRoutes \/ ApplyNft \/ ApplyFails \/ ApplyUci \/ ApplyUciFails \/ RestartDnsmasq \/ RestartDnsmasqFails
  BY <1>4
     DEF BackupDNS, ApplyRoutes, ApplyNft, ApplyFails, ApplyUci, ApplyUciFails,
         RestartDnsmasq, RestartDnsmasqFails
<1>5. CASE RecordFails \/ Reapply \/ RestoreUci \/ RestoreRestart \/ RemoveDNSBackup \/ CleanupNft \/ CleanupRoutes \/ SetMode \/ OneShotDies
  BY <1>5
     DEF RecordFails, Reapply, RestoreUci, RestoreRestart, RemoveDNSBackup, CleanupNft,
         CleanupRoutes, SetMode, OneShotDies
<1>6. CASE BeginActivate \/ BeginDeactivate
  BY <1>6, BeginShape DEF BeginActivate, BeginDeactivate, Begin, Free, ByManager
<1>7. CASE ManagerStart \/ ManagerGone \/ Reboot
  BY <1>7 DEF ManagerStart, ManagerGone, Reboot
<1>8. CASE ActivateNothing \/ DeactivateNothing
  BY <1>8 DEF ActivateNothing, DeactivateNothing
<1>9. CASE UNCHANGED vars
  BY <1>9 DEF vars
<1>10. QED
  BY <1>1, <1>2, <1>3, <1>4, <1>5, <1>6, <1>7, <1>8, <1>9 DEF Next

\* The manager learns success only when the contract's success conditions hold.
THEOREM ReportsTruthfullyHolds == Spec => ReportsTruthfully
<1>1. Init => ContractInv
  BY DnsInit, NoTxFields DEF Init, ContractInv, InstalledSoFar, RemovedSoFar
<1>2. ContractInv /\ [Next]_vars
        => [ByManager /\ view' # view =>
              /\ view' = "on" => Contract!InstalledOK("activate")
              /\ view' = "off" => Contract!RemovedOK("deactivate")]_vars
  BY ReportStep
<1>3. QED
  BY <1>1, <1>2, ContractStep, PTL DEF Spec, ReportsTruthfully


-----------------------------------------------------------------------------
(* What a call has installed when it reports.                              *)

\* The table and the options in place are those of the call's plan, and a
\* reconciliation's plan is the one on record.
PlanInstalled ==
    /\ tx.pc \in {"uci", "restart", "record"} => nft = tx.plan
    /\ tx.op \in {"activate", "reconcile"} /\ tx.pc \in {"restart", "record"} => uci = Wanted(tx.plan)
    /\ tx.op = "reconcile" /\ tx.pc \in {"backup", "routes", "nft", "uci", "restart", "record"} => tx.plan = active

InstallInv == ContractInv /\ PlanInstalled

LEMMA InstallStep == InstallInv /\ [Next]_vars => InstallInv'
<1> SUFFICES ASSUME InstallInv, [Next]_vars
             PROVE  PlanInstalled'
  BY ContractStep DEF InstallInv
<1>0. TypeOK /\ PcOfOp /\ PlanInstalled /\ (tx.pc # "none" => tx \in Txs)
  BY TxFields DEF InstallInv, ContractInv, DnsInv, TypeOK
<1> USE NoTxFields
<1>1. CASE tx' = NoTx
  BY <1>1 DEF PlanInstalled
<1>2. CASE tx' = tx /\ UNCHANGED <<nft, uci, backup, active>>
  BY <1>0, <1>2 DEF PlanInstalled, Wanted
<1>3. CASE BeginActivate \/ BeginReconcile \/ BeginRefresh
  <2>1. CASE tx' = tx
    BY <1>2, <1>3, <2>1 DEF BeginActivate, BeginReconcile, BeginRefresh, host
  <2>2. CASE tx' # tx
    <3>1. \/ tx'.pc = "routes" /\ tx'.op = "refresh" /\ UNCHANGED active
          \/ tx'.pc = "backup" /\ (tx'.op = "reconcile" => tx'.plan = active) /\ UNCHANGED active
      BY <1>0, <1>3, <2>2, BeginShape
      DEF BeginActivate, BeginReconcile, BeginRefresh, TypeOK, Callers, TxOps, TxPcs, MaybePlan
    <3> QED
      BY <3>1 DEF PlanInstalled
  <2> QED
    BY <2>1, <2>2
<1>4. CASE BeginDeactivate
  <2>1. tx'.op = "deactivate" /\ tx'.pc \in {"clNft", "rsUci"}
    BY <1>4, BeginShape DEF BeginDeactivate, Callers, TxOps, TxPcs, MaybePlan
  <2> QED
    BY <2>1 DEF PlanInstalled
<1>5. CASE BackupDNS
  <2>1. /\ tx'.pc \in {"routes", "return"} /\ tx'.op = tx.op /\ tx'.plan = tx.plan
        /\ tx.pc = "backup" /\ UNCHANGED active
    BY <1>0, <1>5, GotoShape DEF BackupDNS, At, TxPcs, NoTx
  <2> QED
    BY <1>0, <2>1 DEF PlanInstalled
<1>6. CASE ApplyRoutes \/ ApplyNft
  <2>1. /\ tx'.pc = "nft" \/ (tx'.pc \in {"uci", "record"} /\ nft' = tx.plan)
        /\ tx'.pc = "record" => tx.op = "refresh"
        /\ tx'.op = tx.op /\ tx'.plan = tx.plan /\ tx.pc \in {"routes", "nft"} /\ UNCHANGED active
    BY <1>0, <1>6, GotoShape DEF ApplyRoutes, ApplyNft, AfterApply, At, TxPcs, NoTx
  <2> QED
    BY <1>0, <2>1 DEF PlanInstalled
<1>7. CASE ApplyFails \/ ApplyUciFails \/ RestartDnsmasqFails
  <2>1. tx'.pc \in {"return", "rsUci"}
    BY <1>0, <1>7, GotoShape DEF ApplyFails, ApplyUciFails, RestartDnsmasqFails, Fail, At, TxPcs, NoTx
  <2> QED
    BY <2>1 DEF PlanInstalled
<1>8. CASE ApplyUci
  <2>1. /\ tx'.pc \in {"restart", "record"} /\ tx'.op = tx.op /\ tx'.plan = tx.plan /\ tx.pc = "uci"
        /\ uci' = Wanted(tx.plan) /\ UNCHANGED <<nft, backup, active>>
    BY <1>0, <1>8, GotoShape DEF ApplyUci, At, TxPcs, NoTx
  <2> QED
    BY <1>0, <2>1 DEF PlanInstalled, Wanted
<1>9. CASE RestartDnsmasq
  <2>1. /\ tx'.pc = "record" /\ tx'.op = tx.op /\ tx'.plan = tx.plan /\ tx.pc = "restart"
        /\ UNCHANGED <<nft, uci, backup, active>>
    BY <1>0, <1>9, GotoShape DEF RestartDnsmasq, At, TxPcs, NoTx
  <2> QED
    BY <1>0, <2>1 DEF PlanInstalled, Wanted
<1>10. CASE RecordFails
  <2>1. CASE tx.op = "refresh"
    <3>1. tx' = [tx EXCEPT !.pc = "reapply", !.plan = active] /\ tx.pc = "record"
      BY <1>10, <2>1 DEF RecordFails, At
    <3>2. tx'.pc = "reapply"
      BY <1>0, <3>1 DEF Txs, NoTx
    <3> QED
      BY <3>2 DEF PlanInstalled
  <2>2. CASE tx.op # "refresh"
    BY <1>1, <1>10, <2>2 DEF RecordFails
  <2> QED
    BY <2>1, <2>2
<1>11. CASE Reapply \/ RestoreUci \/ RestoreRestart \/ RemoveDNSBackup \/ CleanupNft \/ CleanupRoutes
  <2>1. tx'.pc \in {"return", "rsRestart", "rsRemove", "clNft", "clRoutes", "unrecord"}
    BY <1>0, <1>11, GotoShape, BrokenShape
    DEF Reapply, RestoreUci, RestoreRestart, RemoveDNSBackup, CleanupNft, CleanupRoutes, At, TxPcs, NoTx
  <2> QED
    BY <2>1 DEF PlanInstalled
<1>12. CASE \/ ManagerStart \/ ActivateNothing \/ HotplugEvent \/ DeactivateNothing \/ SetMode \/ UNCHANGED vars
  BY <1>2, <1>12 DEF ManagerStart, ActivateNothing, HotplugEvent, DeactivateNothing, SetMode, host, vars
<1>13. CASE ReturnError \/ Record \/ Unrecord \/ OneShotDies \/ Reboot
  BY <1>1, <1>13 DEF ReturnError, Record, Unrecord, OneShotDies, Reboot
<1>14. CASE ManagerGone
  BY <1>1, <1>2, <1>14 DEF ManagerGone, host
<1> QED
  BY <1>3, <1>4, <1>5, <1>6, <1>7, <1>8, <1>9, <1>10, <1>11, <1>12, <1>13, <1>14 DEF Next

LEMMA InstallReport ==
    ASSUME InstallInv, [Next]_vars
    PROVE  /\ view # "on" /\ view' = "on" /\ mode = "gateway" =>
                /\ active' # NoPlan /\ nft' = active' /\ routes'
                /\ backup' = "admin"
                /\ uci' = IF active' \in Upstream THEN "boxctl" ELSE "admin"
           /\ At("record") /\ tx.op = "reconcile" => nft = active
<1>1. ContractInv /\ PlanInstalled
  BY DEF InstallInv
<1>2. At("record") /\ tx.op = "reconcile" => nft = active
  BY <1>1 DEF PlanInstalled, At
<1>3. ASSUME view # "on", view' = "on", mode = "gateway"
      PROVE  /\ active' # NoPlan /\ nft' = active' /\ routes' /\ backup' = "admin"
             /\ uci' = IF active' \in Upstream THEN "boxctl" ELSE "admin"
  <2>1. Record /\ tx.op = "activate" /\ tx.pc = "record"
    <3>1. \/ Record
          \/ view' \in {view, "boot", "dirty", "off", "failed", "down"}
      BY <1>3
      DEF Next, ManagerStart, BeginActivate, ActivateNothing, HotplugEvent, BeginReconcile, BeginRefresh,
          BeginDeactivate, DeactivateNothing, ReturnError, BackupDNS, ApplyRoutes, ApplyNft, ApplyFails, ApplyUci,
          ApplyUciFails, RestartDnsmasq, RestartDnsmasqFails, RecordFails, Reapply, RestoreUci, RestoreRestart,
          RemoveDNSBackup, CleanupNft, CleanupRoutes, Unrecord, SetMode, ManagerGone, OneShotDies, Reboot, vars
    <3> QED
      BY <1>3, <3>1 DEF Record, At
  <2>2. /\ tx.plan # NoPlan /\ nft = tx.plan /\ routes /\ backup = "admin" /\ uci = Wanted(tx.plan)
    BY <1>1, <2>1 DEF ContractInv, DnsInv, InstalledSoFar, ApplyHasBackup, PlanInstalled
  <2>3. active' = tx.plan /\ UNCHANGED <<nft, routes, uci, backup>>
    BY <2>1 DEF Record, host
  <2> QED
    BY <2>2, <2>3 DEF Wanted
<1> QED
  BY <1>2, <1>3

\* A successful Activate in gateway mode has installed exactly the generation on record, table,
\* routes and DNS, and a hotplug event reconciles the generation on record at that moment.
THEOREM InstallsTheRecordHolds == Spec => InstallsTheRecord
<1>1. Init => InstallInv
  BY DnsInit, NoTxFields DEF Init, InstallInv, ContractInv, InstalledSoFar, RemovedSoFar, PlanInstalled
<1>2. InstallInv /\ [Next]_vars
        => [/\ view # "on" /\ view' = "on" /\ mode = "gateway" =>
                 /\ active' # NoPlan /\ nft' = active' /\ routes'
                 /\ backup' = "admin"
                 /\ uci' = IF active' \in Upstream THEN "boxctl" ELSE "admin"
            /\ At("record") /\ tx.op = "reconcile" => nft = active]_vars
  BY InstallReport
<1> QED
  BY <1>1, <1>2, InstallStep, PTL DEF Spec, InstallsTheRecord
=============================================================================
