---------------------------- MODULE ProfileSwitch ----------------------------
(***************************************************************************)
(* internal/app/profile_switch.go: changing the selected profile is one    *)
(* transaction over the live core and four durable things - the active     *)
(* profile's metadata, the engine's active-config mirror, the revision     *)
(* registry and the transition journal - each replaced atomically, none    *)
(* together with another.  The manager can die between any two writes and  *)
(* a write can fail; the next boot recovers from the journal.  Saving a    *)
(* document (SaveProfileConfig) writes the same files; mutationMu keeps    *)
(* the two apart, but not the lifecycle operations of the API.             *)
(*                                                                         *)
(* A write that reports an error has done nothing here: WriteFileAtomic's  *)
(* error after the rename, a failed sync of the directory, is left out.    *)
(***************************************************************************)
EXTENDS Naturals

CONSTANTS
    Profiles,     \* the stored profiles
    SingBox,      \* those of them whose engine is sing-box; the others are Mihomo's
    NoProfile,    \* no active profile: a Mihomo config.yaml without a name
    Versions,     \* the versions of a profile's document
    None,         \* no document, journal or core
    MaxFaults     \* bound: failed writes, failed steps and exits of the manager,
                  \* and saves of the unnamed config.yaml into a switch

ASSUME ProfilesAssumption == NoProfile \notin Profiles /\ SingBox \subseteq Profiles
ASSUME NoneAssumption ==
    None \notin Profiles \union {NoProfile} /\ None \notin (Profiles \union {NoProfile}) \X Versions
ASSUME BoundAssumption == MaxFaults \in Nat

VARIABLES
    mgr,       \* "down", "boot" (defaultServeRuntime) or "up"
    op,        \* the operation under mutationMu, or the boot
    content,   \* the version of each profile file
    active,    \* the active profile's metadata
    mirror,    \* config.yaml and config.json
    rev,       \* the revision registry: applied and pending document
    journal,   \* .boxctl/profile-transition.v1.json
    core,      \* the document the running generation was prepared from
    told,      \* the selection the last answer of the API reported
    flaws,     \* "save": a save was cut short or not undone, "late": one was made while a
               \* journal was outstanding, "undo": a switch was begun over one not undone,
               \* "record": the start of the core went unrecorded, "unnamed": a config.yaml
               \* without a name was saved into a switch
    faults     \* what has gone wrong so far, up to the bound

vars == <<mgr, op, content, active, mirror, rev, journal, core, told, flaws, faults>>
disk == <<content, active, mirror, rev, journal>>
ghosts == <<told, flaws, faults>>

MaybeProfile == Profiles \union {NoProfile}
Docs == MaybeProfile \X Versions
MaybeDoc == Docs \union {None}
Engines == {"mihomo", "sing-box"}
Engine(p) == IF p \in SingBox THEN "sing-box" ELSE "mihomo"
Revision == [applied : MaybeDoc, pending : MaybeDoc]
NoRevision == [applied |-> None, pending |-> None]

\* What New's mirror and revision record were before the switch is kept with
\* the two selections and their revisions.
Journals == [old : MaybeProfile, new : Profiles, oldRev : MaybeDoc, newRev : Docs,
             prevMirror : MaybeDoc, prevRev : Revision, phase : {"prepared", "committed"}]

ASSUME JournalAssumption == None \notin Journals

Kinds == {"none", "switch", "save", "boot"}
Pcs == {"idle", "swap", "start", "mirror", "active", "applied", "commit", "publish", "unjournal",
        "undoRev", "undoMirror", "undoActive", "undoTarget", "swapBack", "bootMirror", "bootActive", "adopt",
        "saveMirror", "pending", "reconf", "unsave", "unsaveMirror", "unsaveRev"}

\* doc: the core a failed switch restores, or the document a save replaced.
\* was: the mirror before the last Activate.  err: a step of the undo failed.
\* record: the active profile's revisions before a save.  restart: the save is
\* to be applied.
Ops == [kind : Kinds, pc : Pcs, doc : MaybeDoc, was : MaybeDoc, err : BOOLEAN,
        record : Revision, restart : BOOLEAN]
Idle == [kind |-> "none", pc |-> "idle", doc |-> None, was |-> None, err |-> FALSE,
         record |-> NoRevision, restart |-> FALSE]

TypeOK ==
    /\ mgr \in {"down", "boot", "up"}
    /\ op \in Ops
    /\ content \in [Profiles -> Versions]
    /\ active \in MaybeProfile
    /\ mirror \in [Engines -> MaybeDoc]
    /\ rev \in [Profiles -> Revision]
    /\ journal \in Journals \union {None}
    /\ core \in MaybeDoc
    /\ told \in MaybeProfile \union {None}
    /\ flaws \subseteq {"save", "late", "undo", "record", "unnamed"}
    /\ faults \in 0..MaxFaults

Doc(p) == <<p, content[p]>>

\* An installation: every profile as first saved, the active one mirrored, or
\* a config.yaml from before there were profiles.
Init ==
    /\ mgr = "up" /\ op = Idle
    /\ \E v \in Versions :
         /\ content = [p \in Profiles |-> v]
         /\ active \in MaybeProfile /\ told = active
         /\ mirror = [e \in Engines |-> IF e = Engine(active) THEN <<active, v>> ELSE None]
    /\ rev = [p \in Profiles |-> NoRevision]
    /\ journal = None /\ core = None /\ flaws = {} /\ faults = 0

Ready == mgr = "up" /\ op = Idle
At(pc) == op.pc = pc
Goto(pc) == op' = [op EXCEPT !.pc = pc]
Booting == op.kind = "boot"
Trouble == faults < MaxFaults /\ faults' = faults + 1

\* The document PrepareActive reads: for Mihomo the mirror is authoritative.
Source == IF active \in SingBox \/ (active # NoProfile /\ mirror["mihomo"] = None)
          THEN Doc(active) ELSE mirror["mihomo"]

\* Mutant: the saved document is recorded, not the one that was started.
MarkAppliedCurrent(p, doc) == [rev EXCEPT ![p] = [applied |-> Doc(p), pending |-> None]]

MarkApplied(p, doc) ==
    [rev EXCEPT ![p] = [applied |-> doc, pending |-> IF @.pending = doc THEN None ELSE @.pending]]

MarkPending(p, previous) ==
    LET applied == IF rev[p].applied = None THEN previous ELSE rev[p].applied
    IN [rev EXCEPT ![p] = [applied |-> applied, pending |-> IF applied = Doc(p) THEN None ELSE Doc(p)]]

-----------------------------------------------------------------------------
(* A switch, up to the commit point: the journal in phase "committed".     *)

\* Preflight and captures, then the journal.  A failure of any of them leaves
\* no trace, an earlier journal included.
BeginSwitch ==
    /\ Ready
    /\ \E p \in Profiles \ {active} :
         journal' = [old |-> active, new |-> p,
                     oldRev |-> IF active = NoProfile THEN None
                                ELSE IF core # None THEN core ELSE Doc(active),
                     newRev |-> Doc(p), prevMirror |-> mirror[Engine(p)], prevRev |-> rev[p],
                     phase |-> "prepared"]
    /\ op' = [Idle EXCEPT !.kind = "switch", !.pc = "swap"]
    /\ flaws' = (flaws \ {"unnamed"}) \union IF told = None \/ "unnamed" \in flaws THEN {"undo"} ELSE {}
    /\ UNCHANGED <<mgr, content, active, mirror, rev, core, told, faults>>

\* The selected profile again: finalizeCommittedState takes up what a failed
\* publication left.
Finalize ==
    /\ Ready
    /\ journal # None /\ journal.phase = "committed" /\ journal.new = active
    /\ op' = [Idle EXCEPT !.kind = "switch", !.pc = "publish"]
    /\ UNCHANGED <<mgr, disk, core, ghosts>>

\* SwitchPrepared before the target starts: refused or failed, a stopped
\* lifecycle only commits, or the old generation is cloned and stopped.
Swap ==
    /\ At("swap")
    /\ \/ op' = Idle /\ core' \in {core, None}
       \/ core = None /\ Goto("mirror") /\ UNCHANGED core
       \/ core # None /\ op' = [op EXCEPT !.pc = "start", !.doc = core] /\ core' = None
    /\ UNCHANGED <<mgr, disk, ghosts>>

\* The target starts, or the clone of the old generation is restored.
StartTarget ==
    /\ At("start")
    /\ \/ core' = journal.newRev /\ Goto("mirror")
       \/ core' \in {op.doc, None} /\ op' = Idle
    /\ UNCHANGED <<mgr, disk, ghosts>>

\* ProfileStore.Activate(new) writes the mirror, then the metadata; an error
\* of the latter puts the mirror back.  Before that the target is read once
\* more, and an error of that alone leaves nothing to undo.
WriteMirror ==
    /\ At("mirror")
    /\ \/ /\ mirror' = [mirror EXCEPT ![Engine(journal.new)] = Doc(journal.new)]
          /\ Goto("active") /\ UNCHANGED faults
       \/ Trouble /\ (Goto("undoRev") \/ Goto("swapBack")) /\ UNCHANGED mirror
    /\ UNCHANGED <<mgr, content, active, rev, journal, core, told, flaws>>

WriteActive ==
    /\ At("active")
    /\ \/ active' = journal.new /\ Goto("applied") /\ UNCHANGED <<mirror, faults>>
       \/ /\ Trouble /\ Goto("undoRev")
          /\ mirror' = [mirror EXCEPT ![Engine(journal.new)] = journal.prevMirror]
          /\ UNCHANGED active
    /\ UNCHANGED <<mgr, content, rev, journal, core, told, flaws>>

WriteApplied ==
    /\ At("applied")
    /\ \/ rev' = MarkApplied(journal.new, journal.newRev) /\ Goto("commit") /\ UNCHANGED faults
       \/ Trouble /\ Goto("undoRev") /\ UNCHANGED rev
    /\ UNCHANGED <<mgr, content, active, mirror, journal, core, told, flaws>>

Commit ==
    /\ At("commit")
    /\ \/ /\ journal' = [journal EXCEPT !.phase = "committed"]
          /\ Goto("publish")
          /\ told' = journal.new
          /\ flaws' = flaws \intersect {"unnamed"} /\ UNCHANGED faults
       \/ Trouble /\ Goto("undoRev") /\ UNCHANGED <<journal, told, flaws>>
    /\ UNCHANGED <<mgr, content, active, mirror, rev, core>>

-----------------------------------------------------------------------------
(* After the commit point, in the switch and in the boot that completes it. *)

\* PublishProfileState exists for Mihomo only and insists on the committed
\* revision.  An error keeps the committed journal and fails a boot.
PublicationRefused == journal.new \notin SingBox /\ Doc(journal.new) # journal.newRev

\* Mutant: a boot that cannot go on does not exit either.
GiveUpHangs == op' = Idle /\ UNCHANGED mgr

GiveUp == op' = Idle /\ mgr' = IF Booting THEN "down" ELSE mgr

Publish ==
    /\ At("publish")
    /\ \/ ~PublicationRefused /\ Goto("unjournal") /\ UNCHANGED <<mgr, faults>>
       \/ PublicationRefused /\ GiveUp /\ UNCHANGED faults
       \/ journal.new \notin SingBox /\ Trouble /\ GiveUp
    /\ UNCHANGED <<disk, core, told, flaws>>

BootDone ==
    /\ op' = Idle /\ mgr' = "up"
    /\ told' = IF told = None THEN active ELSE told

RemoveJournal ==
    /\ At("unjournal")
    /\ \/ /\ journal' = None
          /\ IF Booting THEN BootDone ELSE op' = Idle /\ UNCHANGED <<mgr, told>>
          /\ UNCHANGED faults
       \/ Trouble /\ GiveUp /\ UNCHANGED <<journal, told>>
    /\ UNCHANGED <<content, active, mirror, rev, core, flaws>>

-----------------------------------------------------------------------------
(* restoreTransition, in a failed commit and in the boot that finds a       *)
(* prepared journal.  Every step is tried even if an earlier one failed.    *)

UndoFailed == Trouble /\ told' = IF Booting THEN told ELSE None
UndoGoto(pc, failed) == op' = [op EXCEPT !.pc = pc, !.err = @ \/ failed]

UndoEnd(failed) ==
    IF ~Booting THEN UndoGoto("swapBack", failed) /\ UNCHANGED mgr
    ELSE IF op.err \/ failed THEN GiveUp
    ELSE UndoGoto("adopt", FALSE) /\ UNCHANGED mgr

AfterRev == IF journal.old = NoProfile THEN "undoTarget" ELSE "undoMirror"

UndoRevision ==
    /\ At("undoRev")
    /\ \/ rev' = [rev EXCEPT ![journal.new] = journal.prevRev] /\ UndoGoto(AfterRev, FALSE) /\ UNCHANGED <<told, faults>>
       \/ UndoFailed /\ UndoGoto(AfterRev, TRUE) /\ UNCHANGED rev
    /\ UNCHANGED <<mgr, content, active, mirror, journal, core, flaws>>

\* Activate(old): its mirror, its metadata.
UndoMirror ==
    /\ At("undoMirror")
    /\ LET e == Engine(journal.old) IN
       \/ /\ mirror' = [mirror EXCEPT ![e] = Doc(journal.old)]
          /\ op' = [op EXCEPT !.pc = "undoActive", !.was = mirror[e]]
          /\ UNCHANGED <<told, faults>>
       \/ UndoFailed /\ UndoGoto("undoTarget", TRUE) /\ UNCHANGED mirror
    /\ UNCHANGED <<mgr, content, active, rev, journal, core, flaws>>

\* Without an old profile there is no Activate: the metadata goes last.
UndoActive ==
    /\ At("undoActive")
    /\ LET legacy == journal.old = NoProfile
           Next(failed) == IF legacy THEN UndoEnd(failed) ELSE UndoGoto("undoTarget", failed) /\ UNCHANGED mgr
       IN \/ active' = journal.old /\ Next(FALSE) /\ UNCHANGED <<mirror, told, faults>>
          \/ /\ UndoFailed /\ Next(TRUE)
             /\ mirror' = IF legacy THEN mirror ELSE [mirror EXCEPT ![Engine(journal.old)] = op.was]
             /\ UNCHANGED active
    /\ UNCHANGED <<content, rev, journal, core, flaws>>

\* Mutant: the target's mirror is not restored.
UndoTargetSkipped ==
    /\ At("undoTarget")
    /\ IF journal.old = NoProfile THEN UndoGoto("undoActive", FALSE) /\ UNCHANGED mgr ELSE UndoEnd(FALSE)
    /\ UNCHANGED <<disk, core, ghosts>>

UndoTarget ==
    /\ At("undoTarget")
    /\ LET Next(failed) == IF journal.old = NoProfile THEN UndoGoto("undoActive", failed) /\ UNCHANGED mgr
                           ELSE UndoEnd(failed)
       IN \/ /\ mirror' = [mirror EXCEPT ![Engine(journal.new)] = journal.prevMirror]
             /\ Next(FALSE) /\ UNCHANGED <<told, faults>>
          \/ UndoFailed /\ Next(TRUE) /\ UNCHANGED mirror
    /\ UNCHANGED <<content, active, rev, journal, core, flaws>>

\* Mutant: the target keeps running.
SwapBackSkipped ==
    /\ At("swapBack")
    /\ op' = Idle
    /\ UNCHANGED <<mgr, disk, core, ghosts>>

\* SwitchPrepared answers the failed commit: the target stops, the clone is
\* restored.  The prepared journal stays.
SwapBack ==
    /\ At("swapBack")
    /\ core' \in {op.doc, None}
    /\ op' = Idle
    /\ UNCHANGED <<mgr, disk, ghosts>>

-----------------------------------------------------------------------------
(* SaveProfileConfig.                                                       *)

BeginSave ==
    /\ Ready
    /\ \E p \in Profiles, v \in Versions, restart \in BOOLEAN :
         /\ v # content[p]
         /\ content' = [content EXCEPT ![p] = v]
         /\ op' = IF p = active
                  THEN [Idle EXCEPT !.kind = "save", !.pc = "saveMirror", !.doc = Doc(p),
                                    !.record = rev[p], !.restart = restart]
                  ELSE op
         /\ flaws' = flaws \union IF journal = None THEN {} ELSE {"late"}
    /\ UNCHANGED <<mgr, active, mirror, rev, journal, core, told, faults>>

\* Activate rewrites the metadata with the same value; its failure puts the
\* mirror back like one of the mirror's own.
SaveMirror ==
    /\ At("saveMirror")
    /\ \/ mirror' = [mirror EXCEPT ![Engine(active)] = Doc(active)] /\ Goto("pending") /\ UNCHANGED faults
       \/ Trouble /\ Goto("unsave") /\ UNCHANGED mirror
    /\ UNCHANGED <<mgr, content, active, rev, journal, core, told, flaws>>

SavePending ==
    /\ At("pending")
    /\ \/ /\ rev' = MarkPending(active, op.doc)
          /\ op' = IF op.restart /\ core # None THEN [op EXCEPT !.pc = "reconf"] ELSE Idle
          /\ UNCHANGED faults
       \/ Trouble /\ op' = [op EXCEPT !.pc = "unsave", !.err = TRUE] /\ UNCHANGED rev
    /\ UNCHANGED <<mgr, content, active, mirror, journal, core, told, flaws>>

\* ReconfigurePrepared with the saved document: the applied revision is its
\* commit; any failure restores the clone of the running generation, or
\* nothing.  Without a running core only the commit is left.
SaveApply ==
    /\ At("reconf")
    /\ \/ rev' = MarkApplied(active, Doc(active)) /\ core' = IF core = None THEN None ELSE Doc(active)
       \/ core' \in {core, None} /\ UNCHANGED rev
    /\ op' = Idle
    /\ UNCHANGED <<mgr, content, active, mirror, journal, ghosts>>

\* A failed Activate or MarkPending (err) puts the document and the mirror
\* back, the latter only behind the former; MarkPending's also the record.
AfterUnsave == op' = IF op.err THEN [op EXCEPT !.pc = "unsaveRev"] ELSE Idle

Unsave ==
    /\ At("unsave")
    /\ \/ content' = [content EXCEPT ![active] = op.doc[2]] /\ Goto("unsaveMirror") /\ UNCHANGED <<flaws, faults>>
       \/ Trouble /\ AfterUnsave /\ flaws' = flaws \union {"save"} /\ UNCHANGED content
    /\ UNCHANGED <<mgr, active, mirror, rev, journal, core, told>>

UnsaveMirror ==
    /\ At("unsaveMirror")
    /\ \/ mirror' = [mirror EXCEPT ![Engine(active)] = Doc(active)] /\ UNCHANGED <<flaws, faults>>
       \/ Trouble /\ flaws' = flaws \union {"save"} /\ UNCHANGED mirror
    /\ AfterUnsave
    /\ UNCHANGED <<mgr, content, active, rev, journal, core, told>>

UnsaveRevision ==
    /\ At("unsaveRev")
    /\ \/ /\ rev' = [rev EXCEPT ![active] = op.record]
          /\ flaws' = flaws \union IF rev' = rev THEN {} ELSE {"record"}
          /\ UNCHANGED faults
       \/ Trouble /\ UNCHANGED <<rev, flaws>>
    /\ op' = Idle
    /\ UNCHANGED <<mgr, content, active, mirror, journal, core, told>>

-----------------------------------------------------------------------------
(* SaveRawConfig without an active profile writes config.yaml itself, and   *)
(* takes no mutex: it looks at the selection, then writes, a switch or not. *)

SaveUnnamed ==
    /\ mgr = "up"
    /\ active = NoProfile \/ (op.kind = "switch" /\ journal.old = NoProfile)
    /\ \E v \in Versions : mirror' = [mirror EXCEPT !["mihomo"] = <<NoProfile, v>>]
    /\ IF op.kind = "switch" THEN Trouble /\ flaws' = flaws \union {"unnamed"}
       ELSE flaws' = flaws \union (IF journal = None THEN {} ELSE {"late"}) /\ UNCHANGED faults
    /\ UNCHANGED <<mgr, op, content, active, rev, journal, core, told>>

-----------------------------------------------------------------------------
(* The lifecycle, as far as it shares the files, and the process.           *)

\* SwitchPrepared holds opMu from the stop of the old core to its answer.
OpMuFree == At("idle") \/ op.kind = "save" \/ At("swap") \/ At("publish") \/ At("unjournal")

\* Start or Restart.  OnStarted records the applied revision; its error is
\* only logged.
StartCore ==
    /\ mgr = "up" /\ OpMuFree /\ Source # None
    /\ core' = Source
    /\ \/ rev' = (IF active = NoProfile THEN rev ELSE MarkApplied(active, Source)) /\ UNCHANGED <<flaws, faults>>
       \/ Trouble /\ flaws' = flaws \union {"record"} /\ UNCHANGED rev
    /\ UNCHANGED <<mgr, op, content, active, mirror, journal, told>>

\* The core is stopped, dies, or fails to start again.
CoreGone ==
    /\ core # None
    /\ core' = None
    /\ UNCHANGED <<mgr, op, disk, ghosts>>

\* The manager exits: killed, or with the whole router.
ManagerDies ==
    /\ mgr # "down" /\ Trouble
    /\ mgr' = "down" /\ op' = Idle
    /\ told' = IF op.kind = "switch" THEN None ELSE told
    /\ flaws' = flaws \union IF op.kind = "save" THEN {"save"} ELSE {}
    /\ core' \in {core, None}
    /\ UNCHANGED disk

-----------------------------------------------------------------------------
(* defaultServeRuntime: RecoverSelection, adoption, CompleteRecovery.       *)

\* Mutant: the phase of the journal is not looked at.
BootUndoes ==
    /\ mgr = "down"
    /\ mgr' = "boot"
    /\ op' = [Idle EXCEPT !.kind = "boot", !.pc = IF journal = None THEN "adopt" ELSE "undoRev"]
    /\ UNCHANGED <<disk, core, ghosts>>

Boot ==
    /\ mgr = "down"
    /\ mgr' = "boot"
    /\ op' = [Idle EXCEPT !.kind = "boot",
                          !.pc = IF journal = None THEN "adopt"
                                 ELSE IF journal.phase = "committed" THEN "bootMirror" ELSE "undoRev"]
    /\ UNCHANGED <<disk, core, ghosts>>

\* Activate(new) again.
BootMirror ==
    /\ At("bootMirror")
    /\ \/ /\ mirror' = [mirror EXCEPT ![Engine(journal.new)] = Doc(journal.new)]
          /\ op' = [op EXCEPT !.pc = "bootActive", !.was = mirror[Engine(journal.new)]]
          /\ UNCHANGED <<mgr, faults>>
       \/ Trouble /\ GiveUp /\ UNCHANGED mirror
    /\ UNCHANGED <<content, active, rev, journal, core, told, flaws>>

BootActive ==
    /\ At("bootActive")
    /\ \/ active' = journal.new /\ Goto("adopt") /\ UNCHANGED <<mgr, mirror, faults>>
       \/ /\ Trouble /\ GiveUp
          /\ mirror' = [mirror EXCEPT ![Engine(journal.new)] = op.was]
          /\ UNCHANGED active
    /\ UNCHANGED <<content, rev, journal, core, told, flaws>>

\* The document a surviving core must have been started from to be kept.
Expected ==
    IF journal = None THEN IF active = NoProfile THEN None ELSE Doc(active)
    ELSE IF journal.phase = "committed" THEN journal.newRev ELSE journal.oldRev

AfterAdoption ==
    IF journal = None THEN BootDone
    ELSE /\ Goto(IF journal.phase = "committed" THEN "publish" ELSE "unjournal")
         /\ UNCHANGED <<mgr, told>>

\* The survivor is recovered, with its applied revision, or discarded.
Adopt ==
    /\ At("adopt")
    /\ AfterAdoption
    /\ core' = IF core = Expected THEN core ELSE None
    /\ rev' = IF core' = None THEN rev ELSE MarkApplied(active, core)
    /\ UNCHANGED <<content, active, mirror, journal, flaws, faults>>

\* The survivor fails to become ready, or to stop: an error only to a boot
\* that is recovering a switch.
AdoptFails ==
    /\ At("adopt") /\ core # None /\ Trouble
    /\ core' = None
    /\ IF journal = None THEN BootDone ELSE GiveUp /\ UNCHANGED told
    /\ UNCHANGED <<disk, flaws>>

-----------------------------------------------------------------------------
SwitchStep ==
    \/ Swap \/ StartTarget \/ WriteMirror \/ WriteActive \/ WriteApplied \/ Commit
    \/ Publish \/ RemoveJournal
    \/ UndoRevision \/ UndoMirror \/ UndoActive \/ UndoTarget \/ SwapBack

SaveStep == SaveMirror \/ SavePending \/ SaveApply \/ Unsave \/ UnsaveMirror \/ UnsaveRevision
BootStep == Boot \/ BootMirror \/ BootActive \/ Adopt \/ AdoptFails
Lifecycle == StartCore \/ CoreGone \/ ManagerDies

Next == BeginSwitch \/ Finalize \/ BeginSave \/ SaveUnnamed \/ SwitchStep \/ SaveStep \/ BootStep \/ Lifecycle

Spec == Init /\ [][Next]_vars
FairSpec == Spec /\ WF_vars(BootStep \/ (Booting /\ SwitchStep))

-----------------------------------------------------------------------------
\* The selected profile is the one the last answer reported, across every
\* failed write, crash and recovery since; nothing is claimed between a switch
\* whose own undo failed, or that a crash cut short, and the next boot.
SelectionKnown == mgr = "up" /\ op.kind # "switch" /\ told # None => active = told

Settled == Ready /\ told # None /\ flaws \intersect {"undo", "unnamed"} = {}

MirrorOfSelection ==
    IF active = NoProfile THEN mirror["mihomo"] # None /\ mirror["mihomo"][1] = NoProfile
    ELSE mirror[Engine(active)] = Doc(active)

\* At rest the mirror, what the next start reads, holds the active profile's
\* document; without an active profile the unnamed config.yaml, which exists
\* nowhere else, is not lost to a switch that failed.
MirrorMatches == Settled /\ flaws \intersect {"save", "late"} = {} => MirrorOfSelection

\* The running generation is the selected profile's, whichever of the core,
\* the metadata and the mirror changed last.
CoreOfSelection == Settled /\ core # None => core[1] = active

\* StatusSnapshot's "profile_config" among the pending changes.
Shown(p) == \/ rev[p].pending # None /\ rev[p].pending # rev[p].applied
            \/ rev[p].applied # None /\ rev[p].applied # Doc(p)

\* A core that runs another document than the saved one is reported, even
\* after a crash between the document, its mirror and the registry.
PendingShown ==
    Settled /\ active # NoProfile /\ core # None /\ core # Doc(active) /\ "record" \notin flaws
        => Shown(active)

\* Mirror, core and the status shown belong to one selection and one document,
\* whichever write of a switch or a save failed or was cut short.
OneSelection == MirrorMatches /\ CoreOfSelection /\ PendingShown

\* The manager always comes back up, whatever the journal it finds; unless a
\* document was saved while a journal was outstanding.
BootCompletes == []<>(mgr = "up" \/ "late" \in flaws)
=============================================================================
