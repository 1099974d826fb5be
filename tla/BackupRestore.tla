--------------------------- MODULE BackupRestore ---------------------------
(***************************************************************************)
(* internal/app/maintenance_services.go (BackupService) with               *)
(* internal/backup/backup.go and the locks of internal/app/actions.go: an  *)
(* export copies the portable state while other requests write to it; an   *)
(* import stops the core, swaps top-level paths one rename at a time,      *)
(* starts the restored selection and puts the previous paths back when     *)
(* that does not start.  A path is the set of contents found under it.     *)
(***************************************************************************)
EXTENDS FiniteSets, Integers

CONSTANTS
    Parts,      \* the restorable top-level paths
    Dirs,       \* those that are directories; the others are files
    Config,     \* the path the core is started from
    Open,       \* paths some request writes to without a lock an import holds
    MaxFaults,  \* bound: failed renames, stops and power cuts
    MaxImports, \* bound: imports over a behaviour
    MaxWrites   \* bound: writes of other requests

ASSUME BakBoundAssumption == MaxFaults \in Nat /\ MaxImports \in Nat /\ MaxWrites \in Nat
ASSUME PathsAssumption == Dirs \subseteq Parts /\ Config \in Parts \ Dirs /\ Open \subseteq Dirs

VARIABLES
    root,    \* the state tree
    old,     \* staging/rollback of the restore transaction
    retained, \* what the staging directories of earlier imports still hold
    core,    \* the core's lifecycle and the configuration it was started from
    managed, \* holder of the profile and subscription locks
    op,      \* an import holds the operation gate and the state locks
    imp,     \* the import
    exp,     \* the export
    faults, writes

bakVars == <<root, old, retained, core, managed, op, imp, exp, faults, writes>>

Contents == {"prev", "arch", "unset", "set", "stray"}
Tree(mark) == [p \in Parts |-> {mark} \union IF p \in Dirs THEN {"unset"} ELSE {}]
NoTree == [p \in Parts |-> {}]
NoImport == [pc |-> "idle", was |-> FALSE, brings |-> {}, left |-> {}, put |-> {}, bad |-> FALSE, live |-> FALSE,
             again |-> FALSE, out |-> "none", n |-> 0]
NoExport == [pc |-> "idle", got |-> NoTree, left |-> {}, at |-> NoTree]

Trees == [Parts -> SUBSET Contents]
Cores == [st : {"running", "stopped", "failed", "uncertain"}, from : SUBSET Contents]
Imports == [pc : {"idle", "uploaded", "stop", "lock", "check", "stage", "moveOld", "moveNew", "sync", "undoNew", "undoOld",
                  "resume", "restart", "relock", "recheck", "restop", "commit"},
            was : BOOLEAN, brings : SUBSET Parts, left : SUBSET Parts, put : SUBSET Parts, bad : BOOLEAN,
            live : BOOLEAN, again : BOOLEAN, out : {"none", "failed", "kept", "rolledback", "committed", "cut"}, n : 0 .. MaxImports]
Exports == [pc : {"idle", "collect", "write", "done"}, got : Trees, left : SUBSET Parts, at : Trees]

BakTypeOK ==
    /\ root \in Trees /\ old \in Trees /\ retained \in Trees /\ core \in Cores
    /\ managed \in {"none", "import", "export"} /\ op \in BOOLEAN
    /\ imp \in Imports /\ exp \in Exports
    /\ faults \in 0 .. MaxFaults /\ writes \in 0 .. MaxWrites

BakInit ==
    /\ root = Tree("prev") /\ old = NoTree /\ retained = NoTree
    /\ core \in {[st |-> "running", from |-> Tree("prev")[Config]], [st |-> "stopped", from |-> {}]}
    /\ managed = "none" /\ op = FALSE
    /\ imp = NoImport /\ exp = NoExport
    /\ faults = 0 /\ writes = 0

Fault == faults < MaxFaults /\ faults' = faults + 1
At(pc) == imp.pc = pc
Goto(pc) == imp' = [imp EXCEPT !.pc = pc]
Finish(out) == imp' = [imp EXCEPT !.pc = "idle", !.out = out] /\ managed' = "none"
\* The locks of profile and subscription changes, for the whole export or import.
LockManagedState(by) == managed = "none" /\ managed' = by
Owning == core.st \in {"running", "uncertain"}

-----------------------------------------------------------------------------
(* What other requests do meanwhile.                                       *)

\* A start reads the configuration; a failed one may leave a process behind.
StartCore ==
    \/ root[Config] # {} /\ core' = [st |-> "running", from |-> root[Config]] /\ UNCHANGED faults
    \/ core' = [st |-> "failed", from |-> {}] /\ UNCHANGED faults
    \/ Fault /\ core' = [st |-> "uncertain", from |-> root[Config]]
StopCore ==
    \/ core' = [st |-> "stopped", from |-> {}] /\ UNCHANGED faults
    \/ Owning /\ Fault /\ core' = [core EXCEPT !.st = "uncertain"]

UserStarts ==
    /\ ~op /\ ~Owning
    /\ StartCore
    /\ UNCHANGED <<root, old, retained, managed, op, imp, exp, writes>>

UserStops ==
    /\ ~op /\ core.st # "stopped"
    /\ StopCore
    /\ UNCHANGED <<root, old, retained, managed, op, imp, exp, writes>>

Write(p, contents) ==
    /\ writes < MaxWrites /\ contents # root[p]
    /\ root' = [root EXCEPT ![p] = contents]
    /\ writes' = writes + 1
    /\ UNCHANGED <<old, retained, core, managed, op, imp, exp, faults>>

\* A settings update holds the operation gate and replaces a file.
SettingWrite(p) == ~op /\ "unset" \in root[p] /\ Write(p, (root[p] \ {"unset"}) \union {"set"})

\* A rule list, the upload of another import, the record of a manager update:
\* the writer creates the directory it needs and adds a file.
OpenWrite(p) == p \in Open /\ Write(p, root[p] \union {"stray"})

-----------------------------------------------------------------------------
(* Export.                                                                 *)

\* The export's own state lock only excludes the CLI's password change.
BeginExport ==
    /\ exp.pc = "idle" /\ LockManagedState("export")
    /\ exp' = [NoExport EXCEPT !.pc = "collect", !.left = Parts]
    /\ UNCHANGED <<root, old, retained, core, op, imp, faults, writes>>

\* The walk hashes one path after the other.
Collect(p) ==
    /\ exp.pc = "collect" /\ p \in exp.left
    /\ LET left == exp.left \ {p} IN
       exp' = [exp EXCEPT !.got = [@ EXCEPT ![p] = root[p]], !.left = left, !.pc = IF left = {} THEN "write" ELSE @,
                          !.at = IF left = {} THEN root ELSE @]
    /\ UNCHANGED <<root, old, retained, core, managed, op, imp, faults, writes>>

\* Mutant: the written archive is not checked against the manifest.
WriteArchiveUnchecked ==
    /\ exp.pc = "write"
    /\ exp' = [exp EXCEPT !.pc = "done"]
    /\ managed' = "none"
    /\ UNCHANGED <<root, old, retained, core, op, imp, faults, writes>>

\* The files collected are read again, and the archive is published only if each
\* still has its digest; a file that was added meanwhile is not missed.
WriteArchive ==
    /\ exp.pc = "write"
    /\ exp' = IF \A p \in Parts : exp.got[p] \subseteq root[p] THEN [exp EXCEPT !.pc = "done"] ELSE NoExport
    /\ managed' = "none"
    /\ UNCHANGED <<root, old, retained, core, op, imp, faults, writes>>

\* A path that cannot be read, or the registry of a required engine that is not sound.
ExportRefused ==
    /\ exp.pc = "collect" /\ exp' = NoExport /\ managed' = "none"
    /\ UNCHANGED <<root, old, retained, core, op, imp, faults, writes>>

-----------------------------------------------------------------------------
(* Import, up to the swap.                                                 *)

\* Every import has a staging directory of its own and asks for no other's.
Upload ==
    /\ At("idle") /\ imp.n < MaxImports /\ imp.out # "committed"
    /\ imp' = [NoImport EXCEPT !.pc = "uploaded", !.n = imp.n + 1]
    /\ retained' = [p \in Parts |-> retained[p] \union old[p]] /\ old' = NoTree
    /\ UNCHANGED <<root, core, managed, op, exp, faults, writes>>

\* Of a core that a failed start or stop left behind, the health may say either.
WasRunning == IF core.st = "uncertain" THEN BOOLEAN ELSE {core.st = "running"}

BeginImport ==
    /\ At("uploaded") /\ LockManagedState("import")
    /\ \E was \in WasRunning : imp' = [imp EXCEPT !.was = was, !.pc = IF was THEN "stop" ELSE "lock"]
    /\ UNCHANGED <<root, old, retained, core, op, exp, faults, writes>>

StopForImport ==
    /\ At("stop") /\ ~op
    /\ StopCore
    /\ IF core'.st = "stopped" THEN Goto("lock") /\ UNCHANGED managed ELSE Finish("failed")
    /\ UNCHANGED <<root, old, retained, op, exp, writes>>

LockImport ==
    /\ At("lock") /\ ~op
    /\ op' = TRUE
    /\ Goto("check")
    /\ UNCHANGED <<root, old, retained, core, managed, exp, faults, writes>>

\* Nothing was swapped: what ran before runs again.
GiveUp ==
    /\ op' = FALSE
    /\ IF imp.was THEN Goto("resume") /\ UNCHANGED managed ELSE Finish("failed")

\* A file lock of the import is not had in time.
LockImportFails ==
    /\ At("lock") /\ Fault /\ GiveUp
    /\ UNCHANGED <<root, old, retained, core, exp, writes>>

\* Mutant: the stopped state read before the gate was taken is relied on.
CheckStoppedEarly ==
    /\ At("check")
    /\ Goto("stage") /\ UNCHANGED <<op, managed>>
    /\ UNCHANGED <<root, old, retained, core, exp, faults, writes>>

\* CanImport, under every lock: no start can follow the check.
CheckStopped ==
    /\ At("check")
    /\ IF Owning THEN GiveUp ELSE Goto("stage") /\ UNCHANGED <<op, managed>>
    /\ UNCHANGED <<root, old, retained, core, exp, faults, writes>>

\* BeginRestore: the archive is extracted beside the tree, checked, and completed with
\* the credentials of this installation that it does not bring.  Only the paths it
\* brings are swapped: an export leaves some out unless they are asked for.
Stage ==
    /\ At("stage")
    /\ \E brings \in SUBSET Parts \ {{}} :
          imp' = [imp EXCEPT !.pc = "moveOld", !.brings = brings, !.left = brings, !.put = {}]
    /\ UNCHANGED <<root, old, retained, core, managed, op, exp, faults, writes>>

\* The extraction ends with a path, a size or a digest the manifest does not allow.
ArchiveRefused ==
    /\ At("stage") /\ GiveUp
    /\ UNCHANGED <<root, old, retained, core, exp, faults, writes>>

\* RestorePreflight: the engine of the restored selection does not take its configuration.
SelectionRefused ==
    /\ At("stage") /\ GiveUp
    /\ UNCHANGED <<root, old, retained, core, exp, faults, writes>>

-----------------------------------------------------------------------------
(* The swap and its compensation.                                          *)

Swapped == IF imp.was THEN "restart" ELSE "commit"
Undo == imp' = [imp EXCEPT !.pc = "undoNew", !.left = imp.put, !.bad = FALSE]
\* rename(2) onto a directory that is not empty fails; a file is replaced.
Free(p) == root[p] = {} \/ p \notin Dirs

MoveOld(p) ==
    /\ At("moveOld") /\ p \in imp.left
    /\ \/ /\ old' = [old EXCEPT ![p] = root[p]] /\ root' = [root EXCEPT ![p] = {}]
          /\ imp' = IF imp.left = {p} THEN [imp EXCEPT !.pc = "moveNew", !.left = imp.brings]
                    ELSE [imp EXCEPT !.left = @ \ {p}]
          /\ UNCHANGED faults
       \/ Fault /\ Undo /\ UNCHANGED <<root, old>>
    /\ UNCHANGED <<retained, core, managed, op, exp, writes>>

MoveNew(p) ==
    /\ At("moveNew") /\ p \in imp.left /\ Free(p)
    /\ root' = [root EXCEPT ![p] = Tree("arch")[p]]
    /\ imp' = [imp EXCEPT !.left = @ \ {p}, !.put = @ \union {p}, !.pc = IF imp.left = {p} THEN "sync" ELSE @]
    /\ UNCHANGED <<old, retained, core, managed, op, exp, faults, writes>>

MoveNewFails(p) ==
    /\ At("moveNew") /\ p \in imp.left
    /\ IF Free(p) THEN Fault ELSE UNCHANGED faults
    /\ Undo
    /\ UNCHANGED <<root, old, retained, core, managed, op, exp, writes>>

SyncSwap ==
    /\ At("sync")
    /\ imp' = [imp EXCEPT !.pc = Swapped, !.live = TRUE]
    /\ op' = FALSE
    /\ UNCHANGED <<root, old, retained, core, managed, exp, faults, writes>>

SyncSwapFails ==
    /\ At("sync") /\ Fault
    /\ Undo
    /\ UNCHANGED <<root, old, retained, core, managed, op, exp, writes>>

UndoneNew ==
    /\ At("undoNew") /\ imp.left = {}
    /\ imp' = [imp EXCEPT !.pc = "undoOld", !.left = {p \in Parts : old[p] # {}}]
    /\ UNCHANGED <<root, old, retained, core, managed, op, exp, faults, writes>>

UndoNew(p) ==
    /\ At("undoNew") /\ p \in imp.left
    /\ \/ root' = [root EXCEPT ![p] = {}] /\ imp' = [imp EXCEPT !.left = @ \ {p}] /\ UNCHANGED faults
       \/ Fault /\ imp' = [imp EXCEPT !.left = @ \ {p}, !.bad = TRUE] /\ UNCHANGED root
    /\ UNCHANGED <<old, retained, core, managed, op, exp, writes>>

UndoOld(p) ==
    /\ At("undoOld") /\ p \in imp.left
    /\ \/ /\ Free(p)
          /\ root' = [root EXCEPT ![p] = old[p]] /\ old' = [old EXCEPT ![p] = {}]
          /\ imp' = [imp EXCEPT !.left = @ \ {p}] /\ UNCHANGED faults
       \/ /\ IF Free(p) THEN Fault ELSE UNCHANGED faults
          /\ imp' = [imp EXCEPT !.left = @ \ {p}, !.bad = TRUE] /\ UNCHANGED <<root, old>>
    /\ UNCHANGED <<retained, core, managed, op, exp, writes>>

\* Everything is back and the tree cannot be synced: staging is kept as well.
SyncUndoFails ==
    /\ At("undoOld") /\ imp.left = {} /\ ~imp.bad /\ Fault
    /\ imp' = [imp EXCEPT !.bad = TRUE]
    /\ UNCHANGED <<root, old, retained, core, managed, op, exp, writes>>

\* Mutant: staging is removed although something could not be put back.
UndoneDiscards ==
    /\ At("undoOld") /\ imp.left = {}
    /\ op' = FALSE
    /\ old' = NoTree
    /\ IF imp.was THEN Goto("resume") /\ UNCHANGED managed ELSE Finish("failed")
    /\ UNCHANGED <<root, retained, core, exp, faults, writes>>

\* Staging is kept when something could not be put back.  A failed swap, and a
\* rollback that is complete, go on to start the previous selection.
Undone ==
    /\ At("undoOld") /\ imp.left = {}
    /\ op' = FALSE
    /\ IF imp.was /\ ~(imp.live /\ imp.bad) THEN Goto("resume") /\ UNCHANGED managed
       ELSE Finish(IF imp.bad THEN "kept" ELSE "failed")
    /\ UNCHANGED <<root, old, retained, core, exp, faults, writes>>

Resume ==
    /\ At("resume") /\ ~op
    /\ IF Owning THEN UNCHANGED <<core, faults>> ELSE StartCore
    /\ Finish(IF imp.bad THEN "kept" ELSE IF imp.live THEN "rolledback" ELSE "failed")
    /\ UNCHANGED <<root, old, retained, op, exp, writes>>

-----------------------------------------------------------------------------
(* After the swap: the restored selection has to start.                    *)

RestartRestored ==
    /\ At("restart") /\ ~op
    /\ IF Owning THEN UNCHANGED <<core, faults>> ELSE StartCore
    /\ Goto(IF ~Owning /\ core'.st = "running" THEN "commit" ELSE "relock")
    /\ UNCHANGED <<root, old, retained, managed, op, exp, writes>>

LockRollback ==
    /\ At("relock") /\ ~op
    /\ op' = TRUE
    /\ Goto("recheck")
    /\ UNCHANGED <<root, old, retained, core, managed, exp, faults, writes>>

\* Without its locks a rollback is as unsafe as beside a core.
LockRollbackFails ==
    /\ At("relock") /\ Fault
    /\ IF imp.again THEN Finish("kept") ELSE Goto("restop") /\ UNCHANGED managed
    /\ UNCHANGED <<root, old, retained, core, op, exp, writes>>

\* Mutant: the rollback does not ask whether the core is gone.
CheckRollbackUnsafe ==
    /\ At("recheck")
    /\ Undo /\ UNCHANGED <<op, managed>>
    /\ UNCHANGED <<root, old, retained, core, exp, faults, writes>>

\* One more stop is tried before the restored state is kept as it is.
CheckRollback ==
    /\ At("recheck")
    /\ IF ~Owning THEN Undo /\ UNCHANGED <<op, managed>>
       ELSE /\ op' = FALSE
            /\ IF imp.again THEN Finish("kept") ELSE Goto("restop") /\ UNCHANGED managed
    /\ UNCHANGED <<root, old, retained, core, exp, faults, writes>>

StopUncertain ==
    /\ At("restop") /\ ~op
    /\ StopCore
    /\ IF core'.st = "stopped" THEN imp' = [imp EXCEPT !.pc = "relock", !.again = TRUE] /\ UNCHANGED managed
       ELSE Finish("kept")
    /\ UNCHANGED <<root, old, retained, op, exp, writes>>

Commit ==
    /\ At("commit")
    /\ old' = NoTree
    /\ Finish("committed")
    /\ UNCHANGED <<root, retained, core, op, exp, faults, writes>>

\* Staging survives; nothing looks at it at boot.
PowerCut ==
    /\ Fault
    /\ core' = [st |-> "stopped", from |-> {}]
    /\ managed' = "none" /\ op' = FALSE
    /\ imp' = IF At("idle") THEN imp ELSE [NoImport EXCEPT !.n = imp.n, !.out = "cut"]
    /\ exp' = NoExport
    /\ UNCHANGED <<root, old, retained, writes>>

-----------------------------------------------------------------------------
ImportStep ==
    \/ BeginImport \/ StopForImport \/ LockImport \/ LockImportFails \/ CheckStopped
    \/ Stage \/ ArchiveRefused \/ SelectionRefused
    \/ \E p \in Parts : MoveOld(p) \/ MoveNew(p) \/ MoveNewFails(p) \/ UndoNew(p) \/ UndoOld(p)
    \/ SyncSwap \/ SyncSwapFails \/ UndoneNew \/ SyncUndoFails \/ Undone \/ Resume
    \/ RestartRestored \/ LockRollback \/ LockRollbackFails \/ CheckRollback \/ StopUncertain \/ Commit

ExportStep == WriteArchive \/ ExportRefused \/ \E p \in Parts : Collect(p)

BakNext ==
    \/ Upload \/ BeginExport \/ ImportStep \/ ExportStep
    \/ UserStarts \/ UserStops \/ PowerCut
    \/ \E p \in Dirs : SettingWrite(p) \/ OpenWrite(p)

BakSpec == BakInit /\ [][BakNext]_bakVars

-----------------------------------------------------------------------------
(* Whatever fails, races or is cut short, what a path held before an       *)
(* import is in the tree or in a staging until an import commits, also     *)
(* when one is tried over what an earlier one could not put back.          *)
NothingLost ==
    imp.out = "committed" \/ \A p \in Parts : "prev" \in root[p] \union old[p] \union retained[p]

(* A finished import leaves the whole previous tree, or the restored one   *)
(* on every path the archive brings and no other, unless it or an earlier  *)
(* one says that staging was retained or was cut by a power failure.       *)
WhollyOldOrNew ==
    At("idle") /\ imp.out \in {"failed", "rolledback", "committed"} /\ retained = NoTree =>
        LET new == IF imp.out = "committed" THEN imp.brings ELSE {} IN
        \A p \in Parts : ("arch" \in root[p] <=> p \in new) /\ ("prev" \in root[p] <=> p \notin new)

(* However a swap is interrupted, no path of the tree loses its only copy, *)
(* and an import that has reported leaves one tree and never a mixture.    *)
StateKept == NothingLost /\ WhollyOldOrNew

(* A running core was started from the configuration now in the tree: no   *)
(* path is swapped under it.                                               *)
CoreOnCurrentState == core.st = "running" => core.from = root[Config]

(* The files of a published archive were all in the tree at one instant,   *)
(* although an export does not exclude the writers that replace them.      *)
ExportIsSnapshot == exp.pc = "done" => \A p \in Parts : exp.got[p] \subseteq exp.at[p]
=============================================================================
