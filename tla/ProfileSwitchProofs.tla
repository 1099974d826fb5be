------------------------- MODULE ProfileSwitchProofs -------------------------
(***************************************************************************)
(* The type invariant of ProfileSwitch, SelectionKnown and OneSelection,   *)
(* for any number of profiles, versions and faults.  The selection         *)
(* survives a crash only because the journal on disk always names the one  *)
(* last reported, in the phase that makes the next boot recover it:        *)
(* SelInv.  That mirror, core and status follow it needs what the undo has *)
(* already put back at each of its steps: OneInv.                          *)
(***************************************************************************)
EXTENDS ProfileSwitch, TLAPS

PreCommit == {"swap", "start", "mirror", "active", "applied", "commit"}
Undoing == {"undoRev", "undoMirror", "undoActive", "undoTarget"}
Finishing == {"publish", "unjournal"}
Saving == {"saveMirror", "pending", "reconf", "unsave", "unsaveMirror", "unsaveRev"}

\* Which operation is at which step.
PcOfKind ==
    /\ op.kind = "none" <=> op.pc = "idle"
    /\ op.kind = "switch" => op.pc \in PreCommit \union Undoing \union Finishing \union {"swapBack"}
    /\ op.kind = "save" => op.pc \in Saving
    /\ op.kind = "boot" => op.pc \in Undoing \union Finishing \union {"bootMirror", "bootActive", "adopt"}
    /\ op.kind = "boot" <=> mgr = "boot"
    /\ mgr = "down" => op.kind = "none"

\* The journal of the transition a step belongs to is on disk, in its phase.
JournalOfStep ==
    /\ op.pc \in PreCommit \union Undoing \union {"swapBack"} => journal # None /\ journal.phase = "prepared"
    /\ op.pc \in {"bootMirror", "bootActive", "publish"} => journal # None /\ journal.phase = "committed"
    /\ op.pc = "unjournal" => journal # None
    /\ op.kind = "switch" /\ op.pc = "unjournal" => journal.phase = "committed"
    /\ op.pc = "undoMirror" => journal.old # NoProfile

\* The selection the next boot would recover.
Recovered == IF journal.phase = "committed" THEN journal.new ELSE journal.old

\* It is the one the last answer reported.
JournalAgrees == journal # None /\ told # None => told = Recovered

\* The metadata at the steps of a switch; outside of one it is what was told.
ActiveAtStep ==
    /\ op.pc \in {"applied", "commit"} => active = journal.new
    /\ op.kind = "switch" /\ told # None =>
          /\ op.pc \in {"swap", "start", "mirror", "active", "swapBack"} => active = journal.old
          /\ op.pc \in Finishing => active = journal.new
          /\ op.pc = "undoTarget" => journal.old = NoProfile \/ active = journal.old
    /\ op.kind # "switch" /\ told # None => active = told

\* A save works on an active profile and keeps its former document.
SaveTarget == op.kind = "save" => active \in Profiles /\ op.doc \in Docs

SelInv ==
    /\ TypeOK /\ PcOfKind /\ JournalOfStep /\ SaveTarget
    /\ JournalAgrees /\ ActiveAtStep

-----------------------------------------------------------------------------
(* What the helpers of the model do to op and which types they keep.        *)

\* The idle operation is a well-formed one.
LEMMA IdleType == Idle \in Ops /\ Idle.pc = "idle" /\ Idle.kind = "none"
BY DEF Idle, Ops, Kinds, Pcs, MaybeDoc, Revision, NoRevision

\* Faults stay within their bound.
LEMMA TroubleStep ==
    ASSUME faults \in 0..MaxFaults, Trouble \/ faults' = faults
    PROVE  faults' \in 0..MaxFaults
BY BoundAssumption DEF Trouble

\* The fields of an operation.
LEMMA OpFields ==
    ASSUME op \in Ops
    PROVE  /\ op.pc \in Pcs /\ op.kind \in Kinds /\ op.doc \in MaybeDoc /\ op.was \in MaybeDoc
           /\ op.err \in BOOLEAN /\ op.record \in Revision
BY DEF Ops

\* Goto moves the program counter and nothing else.
LEMMA GotoStep ==
    ASSUME op \in Ops, NEW pc \in Pcs, Goto(pc)
    PROVE  op' \in Ops /\ op'.pc = pc /\ op'.kind = op.kind /\ op'.doc = op.doc
BY DEF Ops, Goto

\* So does UndoGoto, but for the error it accumulates.
LEMMA UndoGotoStep ==
    ASSUME op \in Ops, NEW pc \in Pcs, NEW f \in BOOLEAN, UndoGoto(pc, f)
    PROVE  op' \in Ops /\ op'.pc = pc /\ op'.kind = op.kind
<1>1. op.err \/ f \in BOOLEAN
  OBVIOUS
<1> QED
  BY <1>1 DEF Ops, UndoGoto

\* The steps that take the mirror's document along do too.
LEMMA WithWas ==
    ASSUME op \in Ops, NEW pc \in Pcs, NEW d \in MaybeDoc, op' = [op EXCEPT !.pc = pc, !.was = d]
    PROVE  op' \in Ops /\ op'.pc = pc /\ op'.kind = op.kind
BY DEF Ops

\* After the document was put back, or not.
LEMMA AfterUnsaveStep ==
    ASSUME op \in Ops, AfterUnsave
    PROVE  op' \in Ops /\ (op' = Idle \/ (op'.kind = op.kind /\ op'.doc = op.doc /\ op'.pc = "unsaveRev"))
<1>1. CASE op.err
  <2>1. op' = [op EXCEPT !.pc = "unsaveRev"]
    BY <1>1 DEF AfterUnsave
  <2> QED
    BY <2>1 DEF Ops, Pcs
<1>2. CASE ~op.err
  <2>1. op' = Idle
    BY <1>2 DEF AfterUnsave
  <2>2. op' \in Ops
    BY <2>1, IdleType
  <2> QED
    BY <2>1, <2>2
<1> QED
  BY <1>1, <1>2

\* Giving up ends the operation, and a boot's process with it.
LEMMA GiveUpStep ==
    ASSUME mgr \in {"down", "boot", "up"}, GiveUp
    PROVE  op' = Idle /\ op' \in Ops /\ mgr' \in {"down", "boot", "up"}
           /\ (op.kind = "boot" => mgr' = "down") /\ (op.kind # "boot" => mgr' = mgr)
BY IdleType DEF GiveUp, Booting

\* The end of an undo: back to the switch that asked for it, or on with the
\* boot, or the end of that boot.
LEMMA UndoEndStep ==
    ASSUME op \in Ops, mgr \in {"down", "boot", "up"}, NEW f \in BOOLEAN, UndoEnd(f)
    PROVE  /\ op' \in Ops /\ mgr' \in {"down", "boot", "up"}
           /\ \/ op.kind # "boot" /\ op'.kind = op.kind /\ op'.pc = "swapBack" /\ mgr' = mgr
              \/ op.kind = "boot" /\ op' = Idle /\ mgr' = "down"
              \/ op.kind = "boot" /\ op'.kind = op.kind /\ op'.pc = "adopt" /\ mgr' = mgr
<1>1. CASE ~Booting
  BY <1>1, UndoGotoStep DEF UndoEnd, Booting, Pcs
<1>2. CASE Booting /\ (op.err \/ f)
  BY <1>2, GiveUpStep DEF UndoEnd, Booting
<1>3. CASE Booting /\ ~(op.err \/ f)
  <2>1. UndoGoto("adopt", FALSE) /\ mgr' = mgr
    BY <1>3 DEF UndoEnd
  <2> QED
    BY <2>1, <1>3, UndoGotoStep DEF Booting, Pcs
<1> QED
  BY <1>1, <1>2, <1>3

\* The document of a stored profile.
LEMMA DocType ==
    ASSUME TypeOK, NEW p \in Profiles
    PROVE  Doc(p) \in Docs /\ Doc(p) \in MaybeDoc /\ Engine(p) \in Engines
BY DEF TypeOK, Doc, Docs, MaybeDoc, MaybeProfile, Engine, Engines

\* The mirrors keep their type.
LEMMA MirrorType ==
    ASSUME TypeOK, NEW e \in Engines, NEW d \in MaybeDoc
    PROVE  [mirror EXCEPT ![e] = d] \in [Engines -> MaybeDoc] /\ mirror[e] \in MaybeDoc
BY DEF TypeOK

\* What a journal on disk holds.
LEMMA JournalFields ==
    ASSUME TypeOK, journal # None
    PROVE  /\ journal \in Journals
           /\ journal.old \in MaybeProfile /\ journal.new \in Profiles
           /\ journal.oldRev \in MaybeDoc /\ journal.newRev \in MaybeDoc
           /\ journal.prevMirror \in MaybeDoc /\ journal.prevRev \in Revision
           /\ journal.phase \in {"prepared", "committed"}
BY DEF TypeOK, Journals, MaybeDoc

\* Both profiles of a journal have documents and an engine.
LEMMA JournalDocs ==
    ASSUME TypeOK, journal # None
    PROVE  /\ Doc(journal.new) \in MaybeDoc /\ Engine(journal.new) \in Engines
           /\ journal.old # NoProfile => Doc(journal.old) \in MaybeDoc /\ Engine(journal.old) \in Engines
BY DocType, JournalFields DEF MaybeProfile

\* What a start reads is a document, or nothing.
LEMMA SourceType == ASSUME TypeOK PROVE Source \in MaybeDoc
<1>1. mirror["mihomo"] \in MaybeDoc /\ active \in MaybeProfile
  BY DEF TypeOK, Engines
<1>2. active \in SingBox \/ active # NoProfile => Doc(active) \in MaybeDoc
  BY <1>1, DocType, ProfilesAssumption DEF MaybeProfile
<1> QED
  BY <1>1, <1>2 DEF Source

\* The registry keeps its type.
LEMMA MarkAppliedType ==
    ASSUME TypeOK, NEW p, NEW d \in MaybeDoc
    PROVE  MarkApplied(p, d) \in [Profiles -> Revision]
BY DEF TypeOK, MarkApplied, Revision, MaybeDoc

\* Likewise.
LEMMA MarkPendingType ==
    ASSUME TypeOK, NEW p \in Profiles, NEW d \in MaybeDoc
    PROVE  MarkPending(p, d) \in [Profiles -> Revision]
<1>1. Doc(p) \in MaybeDoc /\ rev \in [Profiles -> Revision] /\ rev[p].applied \in MaybeDoc /\ None \in MaybeDoc
  BY DocType DEF TypeOK, Revision, MaybeDoc
<1> DEFINE applied == IF rev[p].applied = None THEN d ELSE rev[p].applied
<1>2. [applied |-> applied, pending |-> IF applied = Doc(p) THEN None ELSE Doc(p)] \in Revision
  BY <1>1 DEF Revision
<1> QED
  BY <1>1, <1>2 DEF MarkPending

-----------------------------------------------------------------------------
\* The journal a switch begins with.
LEMMA JournalMade ==
    ASSUME TypeOK, NEW p \in Profiles, NEW ph \in {"prepared", "committed"},
           journal' = [old |-> active, new |-> p,
                       oldRev |-> IF active = NoProfile THEN None
                                  ELSE IF core # None THEN core ELSE Doc(active),
                       newRev |-> Doc(p), prevMirror |-> mirror[Engine(p)], prevRev |-> rev[p],
                       phase |-> ph]
    PROVE  journal' \in Journals /\ journal'.old = active /\ journal'.phase = ph
<1>1. active \in MaybeProfile /\ core \in MaybeDoc /\ None \in MaybeDoc
  BY DEF TypeOK, MaybeDoc
<1>2. active # NoProfile => Doc(active) \in MaybeDoc
  BY <1>1, DocType DEF MaybeProfile
<1>3. Doc(p) \in Docs /\ mirror[Engine(p)] \in MaybeDoc /\ rev[p] \in Revision
  BY DocType DEF TypeOK
<1> QED
  BY <1>1, <1>2, <1>3 DEF Journals

\* The first step of a save.
LEMMA SaveBegun ==
    ASSUME TypeOK, NEW p \in Profiles, NEW v \in Versions, NEW restart \in BOOLEAN,
           content' = [content EXCEPT ![p] = v],
           op' = IF p = active
                 THEN [Idle EXCEPT !.kind = "save", !.pc = "saveMirror", !.doc = Doc(p),
                                   !.record = rev[p], !.restart = restart]
                 ELSE op
    PROVE  /\ op' \in Ops /\ content' \in [Profiles -> Versions]
           /\ (op' = op \/ (op'.kind = "save" /\ op'.pc = "saveMirror" /\ op'.doc \in Docs /\ active \in Profiles))
<1>1. Doc(p) \in Docs /\ Doc(p) \in MaybeDoc /\ rev[p] \in Revision
  BY DocType DEF TypeOK
<1>2. op \in Ops /\ content' \in [Profiles -> Versions]
  BY DEF TypeOK
<1>3. CASE p = active
  BY <1>1, <1>2, <1>3, IdleType DEF Ops, Kinds, Pcs
<1>4. CASE p # active
  <2>1. op' = op
    BY <1>4
  <2>2. op' \in Ops
    BY <1>2, <2>1
  <2> QED
    BY <1>2, <2>1, <2>2
<1> QED
  BY <1>3, <1>4

-----------------------------------------------------------------------------
(* The invariant.                                                           *)

\* An installation satisfies it.
LEMMA InitInv == Init => SelInv
<1> SUFFICES ASSUME Init PROVE SelInv
  OBVIOUS
<1>1. PICK v \in Versions : /\ content = [p \in Profiles |-> v]
                            /\ active \in MaybeProfile /\ told = active
                            /\ mirror = [e \in Engines |-> IF e = Engine(active) THEN <<active, v>> ELSE None]
  BY DEF Init
<1>2. mirror \in [Engines -> MaybeDoc]
  BY <1>1 DEF MaybeDoc, Docs
<1>3. rev \in [Profiles -> Revision]
  BY DEF Init, Revision, NoRevision, MaybeDoc
<1>4. TypeOK
  <2>1. mgr \in {"down", "boot", "up"} /\ op \in Ops /\ content \in [Profiles -> Versions]
    BY <1>1, IdleType DEF Init
  <2>2. /\ active \in MaybeProfile /\ journal \in Journals \union {None} /\ core \in MaybeDoc
        /\ told \in MaybeProfile \union {None} /\ flaws \subseteq {"save", "late", "undo", "record", "unnamed"}
        /\ faults \in 0..MaxFaults
    BY <1>1, BoundAssumption DEF Init, MaybeDoc
  <2> QED
    BY <1>2, <1>3, <2>1, <2>2 DEF TypeOK
<1>5. PcOfKind /\ JournalOfStep /\ SaveTarget /\ JournalAgrees /\ ActiveAtStep
  BY <1>1, IdleType DEF Init, PcOfKind, JournalOfStep, SaveTarget, JournalAgrees, ActiveAtStep,
     PreCommit, Undoing, Finishing, Saving
<1> QED
  BY <1>4, <1>5 DEF SelInv

\* Every step keeps it: for each action what it does to op, the types of the
\* variables it assigns, then the conjuncts about the journal and the metadata.
LEMMA SelStep == SelInv /\ [Next]_vars => SelInv'
<1> SUFFICES ASSUME SelInv, [Next]_vars PROVE SelInv'
  OBVIOUS
<1>a. TypeOK /\ PcOfKind /\ JournalOfStep /\ SaveTarget /\ JournalAgrees /\ ActiveAtStep
  BY DEF SelInv
<1>b. /\ mgr \in {"down", "boot", "up"} /\ op \in Ops /\ content \in [Profiles -> Versions]
      /\ active \in MaybeProfile /\ mirror \in [Engines -> MaybeDoc] /\ rev \in [Profiles -> Revision]
      /\ core \in MaybeDoc /\ told \in MaybeProfile \union {None}
      /\ flaws \subseteq {"save", "late", "undo", "record", "unnamed"} /\ faults \in 0..MaxFaults
  BY <1>a DEF TypeOK
<1>c. op.pc \in Saving => op.kind = "save"
  BY <1>a, <1>b, OpFields DEF PcOfKind, Kinds, PreCommit, Undoing, Finishing, Saving
<1>d. op.pc \in PreCommit \union {"swapBack"} => op.kind = "switch"
  BY <1>a, <1>b, OpFields DEF PcOfKind, Kinds, PreCommit, Undoing, Finishing, Saving
<1>e. op.pc \in Undoing \union Finishing => op.kind \in {"switch", "boot"}
  BY <1>a, <1>b, OpFields DEF PcOfKind, Kinds, Undoing, Finishing, Saving
<1>f. op.pc \in {"bootMirror", "bootActive", "adopt"} => op.kind = "boot"
  BY <1>a, <1>b, OpFields DEF PcOfKind, Kinds, PreCommit, Undoing, Finishing, Saving
<1>1. CASE BeginSwitch
  <2>1. mgr = "up" /\ op.pc = "idle" /\ op.kind = "none" /\ active \in MaybeProfile
    BY <1>1, <1>a, IdleType DEF BeginSwitch, Ready, TypeOK
  <2>2. op' \in Ops /\ op'.kind = "switch" /\ op'.pc = "swap"
    BY <1>1, IdleType DEF BeginSwitch, Ops, Kinds, Pcs
  <2>3. journal' \in Journals /\ journal'.old = active /\ journal'.phase = "prepared"
    BY <1>1, <1>a, JournalMade DEF BeginSwitch
  <2>4. journal' # None /\ UNCHANGED <<mgr, content, active, mirror, rev, core, told, faults>>
    BY <1>1, <2>3, JournalAssumption DEF BeginSwitch
  <2>5. flaws' \subseteq {"save", "late", "undo", "record", "unnamed"}
    BY <1>1, <1>a DEF BeginSwitch, TypeOK
  <2>6. TypeOK'
    BY <1>a, <2>2, <2>3, <2>4, <2>5 DEF TypeOK
  <2>7. PcOfKind' /\ JournalOfStep'
    BY <2>1, <2>2, <2>3, <2>4 DEF PcOfKind, JournalOfStep, PreCommit
  <2>8. SaveTarget' /\ JournalAgrees' /\ ActiveAtStep'
    BY <1>a, <2>1, <2>2, <2>3, <2>4 DEF SaveTarget, JournalAgrees, Recovered, ActiveAtStep, Finishing
  <2> QED
    BY <2>6, <2>7, <2>8 DEF SelInv
<1>2. CASE BeginSave
  <2>1. op.pc = "idle" /\ op.kind = "none" /\ mgr = "up"
    BY <1>2, IdleType DEF BeginSave, Ready
  <2>2. /\ op' \in Ops /\ content' \in [Profiles -> Versions]
        /\ (op' = op \/ (op'.kind = "save" /\ op'.pc = "saveMirror" /\ op'.doc \in Docs /\ active \in Profiles))
    BY <1>2, <1>a, SaveBegun DEF BeginSave
  <2>3. UNCHANGED <<mgr, active, mirror, rev, journal, core, told, faults>>
    BY <1>2 DEF BeginSave
  <2>4. flaws' \subseteq {"save", "late", "undo", "record", "unnamed"}
    BY <1>2, <1>a DEF BeginSave, TypeOK
  <2>5. TypeOK'
    BY <1>a, <2>2, <2>3, <2>4 DEF TypeOK
  <2>6. PcOfKind' /\ JournalOfStep'
    BY <2>1, <2>2, <2>3 DEF PcOfKind, JournalOfStep, PreCommit, Undoing, Saving
  <2>7. SaveTarget' /\ JournalAgrees' /\ ActiveAtStep'
    BY <1>a, <2>1, <2>2, <2>3 DEF SaveTarget, JournalAgrees, Recovered, ActiveAtStep
  <2> QED
    BY <2>5, <2>6, <2>7 DEF SelInv
<1>3. CASE Swap
  <2>1. op' \in Ops /\ (op' = Idle \/ (op'.kind = op.kind /\ op'.pc \in {"mirror", "start"}))
    <3>1. CASE op' = Idle
      <4>1. op' \in Ops
        BY <3>1, IdleType
      <4> QED
        BY <3>1, <4>1
    <3>2. CASE Goto("mirror")
      BY <3>2, <1>b, GotoStep DEF Pcs
    <3>3. CASE op' = [op EXCEPT !.pc = "start", !.doc = core]
      BY <3>3, <1>b DEF Ops, Pcs
    <3> QED
      BY <1>3, <3>1, <3>2, <3>3 DEF Swap
  <2>2. core' \in MaybeDoc
    BY <1>3, <1>b DEF Swap, MaybeDoc
  <2>3. TypeOK'
    BY <1>3, <1>a, <2>1, <2>2 DEF Swap, TypeOK, disk, ghosts
  <2>4. PcOfKind' /\ JournalOfStep'
    BY <1>3, <1>a, <1>d, <2>1, IdleType DEF Swap, At, disk, PcOfKind, JournalOfStep, PreCommit
  <2>5. SaveTarget' /\ JournalAgrees' /\ ActiveAtStep'
    BY <1>3, <1>a, <1>d, <2>1, IdleType
    DEF Swap, At, disk, ghosts, JournalOfStep, SaveTarget, JournalAgrees, Recovered, ActiveAtStep, PreCommit,
        Finishing
  <2> QED
    BY <2>3, <2>4, <2>5 DEF SelInv
<1>4. CASE StartTarget
  <2>1. op' \in Ops /\ (op' = Idle \/ (op'.kind = op.kind /\ op'.pc = "mirror"))
    <3>1. CASE op' = Idle
      <4>1. op' \in Ops
        BY <3>1, IdleType
      <4> QED
        BY <3>1, <4>1
    <3>2. CASE Goto("mirror")
      BY <3>2, <1>b, GotoStep DEF Pcs
    <3> QED
      BY <1>4, <3>1, <3>2 DEF StartTarget
  <2>2. journal.newRev \in MaybeDoc /\ op.doc \in MaybeDoc
    BY <1>4, <1>a, <1>b, JournalFields, OpFields DEF StartTarget, At, JournalOfStep, PreCommit
  <2>3. core' \in MaybeDoc
    BY <1>4, <2>2 DEF StartTarget, MaybeDoc
  <2>4. TypeOK'
    BY <1>4, <1>a, <2>1, <2>3 DEF StartTarget, TypeOK, disk, ghosts
  <2>5. PcOfKind' /\ JournalOfStep'
    BY <1>4, <1>a, <1>d, <2>1, IdleType DEF StartTarget, At, disk, PcOfKind, JournalOfStep, PreCommit
  <2>6. SaveTarget' /\ JournalAgrees' /\ ActiveAtStep'
    BY <1>4, <1>a, <1>d, <2>1, IdleType
    DEF StartTarget, At, disk, ghosts, JournalOfStep, SaveTarget, JournalAgrees, Recovered, ActiveAtStep,
        PreCommit, Finishing
  <2> QED
    BY <2>4, <2>5, <2>6 DEF SelInv
<1>5. CASE WriteMirror
  <2>1. op' \in Ops /\ op'.kind = op.kind /\ op'.pc \in {"active", "undoRev", "swapBack"}
    BY <1>5, <1>b, GotoStep DEF WriteMirror, Pcs
  <2>2. Doc(journal.new) \in MaybeDoc /\ Engine(journal.new) \in Engines
    BY <1>5, <1>a, JournalDocs DEF WriteMirror, At, JournalOfStep, PreCommit
  <2>3. mirror' \in [Engines -> MaybeDoc]
    BY <1>5, <1>b, <2>2 DEF WriteMirror
  <2>4. faults' \in 0..MaxFaults
    BY <1>5, <1>b, TroubleStep DEF WriteMirror
  <2>5. TypeOK'
    BY <1>5, <1>a, <2>1, <2>3, <2>4 DEF WriteMirror, TypeOK
  <2>6. PcOfKind' /\ JournalOfStep'
    BY <1>5, <1>a, <1>d, <2>1 DEF WriteMirror, At, PcOfKind, JournalOfStep, PreCommit, Undoing
  <2>7. SaveTarget' /\ JournalAgrees' /\ ActiveAtStep'
    BY <1>5, <1>a, <1>d, <2>1
    DEF WriteMirror, At, SaveTarget, JournalAgrees, Recovered, ActiveAtStep, PreCommit, Finishing
  <2> QED
    BY <2>5, <2>6, <2>7 DEF SelInv
<1>6. CASE WriteActive
  <2>1. /\ op' \in Ops /\ op'.kind = op.kind
        /\ ((op'.pc = "applied" /\ active' = journal.new) \/ (op'.pc = "undoRev" /\ active' = active))
    <3>1. CASE Goto("applied") /\ active' = journal.new
      <4>1. op' \in Ops /\ op'.kind = op.kind /\ op'.pc = "applied"
        BY <3>1, <1>b, GotoStep DEF Pcs
      <4> QED
        BY <3>1, <4>1
    <3>2. CASE Goto("undoRev") /\ active' = active
      <4>1. op' \in Ops /\ op'.kind = op.kind /\ op'.pc = "undoRev"
        BY <3>2, <1>b, GotoStep DEF Pcs
      <4> QED
        BY <3>2, <4>1
    <3> QED
      BY <1>6, <3>1, <3>2 DEF WriteActive
  <2>2. journal.new \in MaybeProfile /\ journal.prevMirror \in MaybeDoc /\ Engine(journal.new) \in Engines
    BY <1>6, <1>a, JournalDocs, JournalFields DEF WriteActive, At, JournalOfStep, PreCommit, MaybeProfile
  <2>3. mirror' \in [Engines -> MaybeDoc]
    BY <1>6, <1>b, <2>2 DEF WriteActive
  <2>4. active' \in MaybeProfile
    BY <2>1, <2>2, <1>b
  <2>5. faults' \in 0..MaxFaults
    BY <1>6, <1>b, TroubleStep DEF WriteActive
  <2>6. TypeOK'
    BY <1>6, <1>a, <2>1, <2>3, <2>4, <2>5 DEF WriteActive, TypeOK
  <2>7. PcOfKind' /\ JournalOfStep'
    BY <1>6, <1>a, <1>d, <2>1 DEF WriteActive, At, PcOfKind, JournalOfStep, PreCommit, Undoing
  <2>8. SaveTarget' /\ JournalAgrees' /\ ActiveAtStep'
    BY <1>6, <1>a, <1>d, <2>1
    DEF WriteActive, At, SaveTarget, JournalAgrees, Recovered, ActiveAtStep, PreCommit, Finishing
  <2> QED
    BY <2>6, <2>7, <2>8 DEF SelInv
<1>7. CASE WriteApplied
  <2>1. op' \in Ops /\ op'.kind = op.kind /\ op'.pc \in {"commit", "undoRev"}
    BY <1>7, <1>b, GotoStep DEF WriteApplied, Pcs
  <2>2. journal.newRev \in MaybeDoc
    BY <1>7, <1>a, JournalFields DEF WriteApplied, At, JournalOfStep, PreCommit
  <2>3. rev' \in [Profiles -> Revision]
    BY <1>7, <1>a, <1>b, <2>2, MarkAppliedType DEF WriteApplied
  <2>4. faults' \in 0..MaxFaults
    BY <1>7, <1>b, TroubleStep DEF WriteApplied
  <2>5. TypeOK'
    BY <1>7, <1>a, <2>1, <2>3, <2>4 DEF WriteApplied, TypeOK
  <2>6. PcOfKind' /\ JournalOfStep'
    BY <1>7, <1>a, <1>d, <2>1 DEF WriteApplied, At, PcOfKind, JournalOfStep, PreCommit, Undoing
  <2>7. SaveTarget' /\ JournalAgrees' /\ ActiveAtStep'
    BY <1>7, <1>a, <1>d, <2>1
    DEF WriteApplied, At, SaveTarget, JournalAgrees, Recovered, ActiveAtStep, PreCommit
  <2> QED
    BY <2>5, <2>6, <2>7 DEF SelInv
<1>8. CASE Commit
  <2>1. journal \in Journals /\ journal.new \in MaybeProfile
    BY <1>8, <1>a, JournalFields DEF Commit, At, JournalOfStep, PreCommit, MaybeProfile
  <2>2. \/ /\ op' \in Ops /\ op'.kind = op.kind /\ op'.pc = "publish"
           /\ journal' \in Journals /\ journal'.phase = "committed" /\ journal'.new = journal.new
           /\ told' = journal.new
        \/ op' \in Ops /\ op'.kind = op.kind /\ op'.pc = "undoRev" /\ journal' = journal /\ told' = told
    <3>1. CASE journal' = [journal EXCEPT !.phase = "committed"] /\ Goto("publish") /\ told' = journal.new
      <4>1. op' \in Ops /\ op'.kind = op.kind /\ op'.pc = "publish"
        BY <3>1, <1>b, GotoStep DEF Pcs
      <4>2. journal' \in Journals /\ journal'.phase = "committed" /\ journal'.new = journal.new
        BY <3>1, <2>1 DEF Journals
      <4>3. told' = journal.new
        BY <3>1
      <4> QED
        BY <4>1, <4>2, <4>3
    <3>2. CASE Goto("undoRev") /\ UNCHANGED <<journal, told>>
      BY <3>2, <1>b, GotoStep DEF Pcs
    <3> QED
      BY <1>8, <3>1, <3>2 DEF Commit
  <2>3. journal # None /\ journal' # None
    BY <1>8, <1>a, <2>2, JournalAssumption DEF Commit, At, JournalOfStep, PreCommit
  <2>4. faults' \in 0..MaxFaults
    BY <1>8, <1>b, TroubleStep DEF Commit
  <2>5. TypeOK'
    BY <1>8, <1>a, <2>1, <2>2, <2>4 DEF Commit, TypeOK
  <2>6. PcOfKind' /\ JournalOfStep'
    BY <1>8, <1>a, <1>d, <2>2, <2>3 DEF Commit, At, PcOfKind, JournalOfStep, PreCommit, Undoing, Finishing
  <2>7. SaveTarget' /\ JournalAgrees' /\ ActiveAtStep'
    BY <1>8, <1>a, <1>d, <2>2 DEF Commit, At, SaveTarget, JournalAgrees, Recovered, ActiveAtStep, PreCommit
  <2> QED
    BY <2>5, <2>6, <2>7 DEF SelInv
<1>9. CASE Publish
  <2>1. /\ op' \in Ops /\ mgr' \in {"down", "boot", "up"}
        /\ \/ op'.kind = op.kind /\ op'.pc = "unjournal" /\ mgr' = mgr
           \/ op' = Idle /\ (op.kind = "boot" => mgr' = "down") /\ (op.kind # "boot" => mgr' = mgr)
    BY <1>9, <1>b, GotoStep, GiveUpStep DEF Publish, Pcs
  <2>2. faults' \in 0..MaxFaults
    BY <1>9, <1>b, TroubleStep DEF Publish
  <2>3. TypeOK'
    BY <1>9, <1>a, <2>1, <2>2 DEF Publish, TypeOK, disk
  <2>4. PcOfKind' /\ JournalOfStep'
    BY <1>9, <1>a, <1>e, <2>1, IdleType
    DEF Publish, At, disk, PcOfKind, JournalOfStep, PreCommit, Undoing, Finishing
  <2>5. SaveTarget' /\ JournalAgrees' /\ ActiveAtStep'
    BY <1>9, <1>a, <1>e, <2>1, IdleType
    DEF Publish, At, disk, JournalOfStep, SaveTarget, JournalAgrees, Recovered, ActiveAtStep, Finishing
  <2> QED
    BY <2>3, <2>4, <2>5 DEF SelInv
<1>10. CASE RemoveJournal
  <2>1. /\ op' = Idle /\ op' \in Ops /\ UNCHANGED <<content, active, mirror, rev, core, flaws>>
        /\ \/ journal' = None /\ op.kind = "boot" /\ mgr' = "up" /\ told' = IF told = None THEN active ELSE told
           \/ journal' = None /\ op.kind # "boot" /\ mgr' = mgr /\ told' = told
           \/ journal' = journal /\ told' = told /\ mgr' = IF op.kind = "boot" THEN "down" ELSE mgr
    BY <1>10, IdleType DEF RemoveJournal, BootDone, GiveUp, Booting
  <2>2. faults' \in 0..MaxFaults
    BY <1>10, <1>b, TroubleStep DEF RemoveJournal
  <2>3. TypeOK'
    BY <1>a, <2>1, <2>2 DEF TypeOK
  <2>4. PcOfKind' /\ JournalOfStep'
    BY <1>a, <2>1, IdleType DEF PcOfKind, JournalOfStep, PreCommit, Undoing
  <2>5. SaveTarget' /\ JournalAgrees' /\ ActiveAtStep'
    BY <1>10, <1>a, <2>1, IdleType
    DEF RemoveJournal, At, JournalOfStep, SaveTarget, JournalAgrees, Recovered, ActiveAtStep, Finishing
  <2> QED
    BY <2>3, <2>4, <2>5 DEF SelInv
<1>11. CASE UndoRevision
  <2>1. AfterRev \in Pcs /\ AfterRev = IF journal.old = NoProfile THEN "undoTarget" ELSE "undoMirror"
    BY DEF AfterRev, Pcs
  <2>2. op' \in Ops /\ op'.kind = op.kind /\ op'.pc = AfterRev
    BY <1>11, <1>b, <2>1, UndoGotoStep DEF UndoRevision
  <2>3. journal.prevRev \in Revision
    BY <1>11, <1>a, JournalFields DEF UndoRevision, At, JournalOfStep, Undoing
  <2>4. rev' \in [Profiles -> Revision]
    BY <1>11, <1>a, <2>3 DEF UndoRevision, TypeOK
  <2>5. told' \in {told, None} /\ (op.kind = "boot" => told' = told)
    BY <1>11 DEF UndoRevision, UndoFailed, Booting
  <2>6. faults' \in 0..MaxFaults
    BY <1>11, <1>b, TroubleStep DEF UndoRevision, UndoFailed
  <2>7. TypeOK'
    BY <1>11, <1>a, <2>2, <2>4, <2>5, <2>6 DEF UndoRevision, TypeOK
  <2>8. PcOfKind' /\ JournalOfStep'
    BY <1>11, <1>a, <1>e, <2>1, <2>2 DEF UndoRevision, At, PcOfKind, JournalOfStep, Undoing
  <2>9. SaveTarget' /\ JournalAgrees' /\ ActiveAtStep'
    BY <1>11, <1>a, <1>e, <2>1, <2>2, <2>5
    DEF UndoRevision, At, SaveTarget, JournalAgrees, Recovered, ActiveAtStep, Undoing, Finishing
  <2> QED
    BY <2>7, <2>8, <2>9 DEF SelInv
<1>12. CASE UndoMirror
  <2>1. Engine(journal.old) \in Engines /\ Doc(journal.old) \in MaybeDoc
    BY <1>12, <1>a, JournalDocs DEF UndoMirror, At, JournalOfStep, Undoing
  <2>2. /\ mirror[Engine(journal.old)] \in MaybeDoc
        /\ [mirror EXCEPT ![Engine(journal.old)] = Doc(journal.old)] \in [Engines -> MaybeDoc]
    BY <1>a, <2>1, MirrorType
  <2>3. /\ op' \in Ops /\ op'.kind = op.kind /\ op'.pc \in {"undoActive", "undoTarget"}
        /\ op'.pc = "undoTarget" => told' = IF Booting THEN told ELSE None
    BY <1>12, <1>b, <2>2, UndoGotoStep, WithWas DEF UndoMirror, UndoFailed, Pcs
  <2>4. mirror' \in [Engines -> MaybeDoc]
    BY <1>12, <1>b, <2>2 DEF UndoMirror
  <2>5. /\ told' \in {told, None} /\ (op.kind = "boot" => told' = told)
        /\ UNCHANGED <<mgr, content, active, rev, journal, core, flaws>>
    BY <1>12 DEF UndoMirror, UndoFailed, Booting
  <2>6. faults' \in 0..MaxFaults
    BY <1>12, <1>b, TroubleStep DEF UndoMirror, UndoFailed
  <2>7. TypeOK'
    BY <1>a, <2>3, <2>4, <2>5, <2>6 DEF TypeOK
  <2>8. PcOfKind' /\ JournalOfStep'
    BY <1>12, <1>a, <1>e, <2>3 DEF UndoMirror, At, PcOfKind, JournalOfStep, Undoing
  <2>9. SaveTarget' /\ JournalAgrees' /\ ActiveAtStep'
    BY <1>12, <1>a, <1>e, <2>3, <2>5
    DEF UndoMirror, At, Booting, SaveTarget, JournalAgrees, Recovered, ActiveAtStep, Undoing, Finishing
  <2> QED
    BY <2>7, <2>8, <2>9 DEF SelInv
<1>13. CASE UndoActive
  <2>1. journal.old \in MaybeProfile /\ (journal.old # NoProfile => Engine(journal.old) \in Engines)
    BY <1>13, <1>a, JournalFields, JournalDocs DEF UndoActive, At, JournalOfStep, Undoing
  <2>2. /\ op' \in Ops /\ mgr' \in {"down", "boot", "up"}
        /\ \/ op'.kind = op.kind /\ op'.pc = "undoTarget" /\ journal.old # NoProfile /\ mgr' = mgr
           \/ op.kind # "boot" /\ op'.kind = op.kind /\ op'.pc = "swapBack" /\ mgr' = mgr
           \/ op.kind = "boot" /\ op' = Idle /\ mgr' = "down"
           \/ op.kind = "boot" /\ op'.kind = op.kind /\ op'.pc = "adopt" /\ mgr' = mgr
    BY <1>13, <1>b, UndoGotoStep, UndoEndStep DEF UndoActive, Pcs
  <2>3. (active' = journal.old /\ told' = told) \/ (active' = active /\ told' = (IF Booting THEN told ELSE None))
    <3>1. \/ active' = journal.old /\ UNCHANGED <<mirror, told, faults>>
          \/ UndoFailed /\ active' = active
      BY <1>13 DEF UndoActive
    <3>2. UndoFailed => told' = IF Booting THEN told ELSE None
      BY DEF UndoFailed
    <3> QED
      BY <3>1, <3>2
  <2>4. active' \in MaybeProfile
    BY <2>1, <2>3, <1>b
  <2>5. op.was \in MaybeDoc
    BY <1>b, OpFields
  <2>6. mirror' \in [Engines -> MaybeDoc]
    BY <1>13, <1>b, <2>5 DEF UndoActive
  <2>7. faults' \in 0..MaxFaults
    BY <1>13, <1>b, TroubleStep DEF UndoActive, UndoFailed
  <2>8. TypeOK'
    BY <1>13, <1>a, <2>2, <2>3, <2>4, <2>6, <2>7 DEF UndoActive, TypeOK
  <2>9. PcOfKind' /\ JournalOfStep'
    BY <1>13, <1>a, <1>e, <2>2, IdleType DEF UndoActive, At, PcOfKind, JournalOfStep, Undoing
  <2>10. SaveTarget' /\ JournalAgrees' /\ ActiveAtStep'
    BY <1>13, <1>a, <1>e, <2>2, <2>3, IdleType
    DEF UndoActive, At, Booting, JournalOfStep, SaveTarget, JournalAgrees, Recovered, ActiveAtStep, Undoing,
        Finishing
  <2> QED
    BY <2>8, <2>9, <2>10 DEF SelInv
<1>14. CASE UndoTarget
  <2>1. Engine(journal.new) \in Engines /\ journal.prevMirror \in MaybeDoc
    BY <1>14, <1>a, JournalFields, JournalDocs DEF UndoTarget, At, JournalOfStep, Undoing
  <2>2. /\ op' \in Ops /\ mgr' \in {"down", "boot", "up"}
        /\ \/ op'.kind = op.kind /\ op'.pc = "undoActive" /\ journal.old = NoProfile /\ mgr' = mgr
           \/ op.kind # "boot" /\ op'.kind = op.kind /\ op'.pc = "swapBack" /\ mgr' = mgr /\ journal.old # NoProfile
           \/ op.kind = "boot" /\ op' = Idle /\ mgr' = "down"
           \/ op.kind = "boot" /\ op'.kind = op.kind /\ op'.pc = "adopt" /\ mgr' = mgr
    BY <1>14, <1>b, UndoGotoStep, UndoEndStep DEF UndoTarget, Pcs
  <2>3. told' = told \/ told' = (IF Booting THEN told ELSE None)
    BY <1>14 DEF UndoTarget, UndoFailed
  <2>4. mirror' \in [Engines -> MaybeDoc]
    BY <1>14, <1>b, <2>1 DEF UndoTarget
  <2>5. faults' \in 0..MaxFaults
    BY <1>14, <1>b, TroubleStep DEF UndoTarget, UndoFailed
  <2>6. TypeOK'
    BY <1>14, <1>a, <2>2, <2>3, <2>4, <2>5 DEF UndoTarget, TypeOK
  <2>7. PcOfKind' /\ JournalOfStep'
    BY <1>14, <1>a, <1>e, <2>2, IdleType DEF UndoTarget, At, PcOfKind, JournalOfStep, Undoing
  <2>8. SaveTarget' /\ JournalAgrees' /\ ActiveAtStep'
    BY <1>14, <1>a, <1>e, <2>2, <2>3, IdleType
    DEF UndoTarget, At, SaveTarget, JournalAgrees, Recovered, ActiveAtStep, Undoing, Finishing
  <2> QED
    BY <2>6, <2>7, <2>8 DEF SelInv
<1>15. CASE SwapBack
  <2>1. op' = Idle /\ op' \in Ops
    BY <1>15, IdleType DEF SwapBack
  <2>2. core' \in MaybeDoc
    BY <1>15, <1>b, OpFields DEF SwapBack, MaybeDoc
  <2>3. TypeOK'
    BY <1>15, <1>a, <2>1, <2>2 DEF SwapBack, TypeOK, disk, ghosts
  <2>4. PcOfKind' /\ JournalOfStep'
    BY <1>15, <1>a, <1>d, IdleType DEF SwapBack, At, PcOfKind, JournalOfStep, PreCommit, Undoing
  <2>5. SaveTarget' /\ JournalAgrees' /\ ActiveAtStep'
    BY <1>15, <1>a, IdleType
    DEF SwapBack, At, disk, ghosts, JournalOfStep, SaveTarget, JournalAgrees, Recovered, ActiveAtStep
  <2> QED
    BY <2>3, <2>4, <2>5 DEF SelInv
<1>16. CASE SaveMirror
  <2>1. op' \in Ops /\ op'.kind = op.kind /\ op'.doc = op.doc /\ op'.pc \in {"pending", "unsave"}
    BY <1>16, <1>b, GotoStep DEF SaveMirror, Pcs
  <2>2. active \in Profiles
    BY <1>16, <1>a, <1>c DEF SaveMirror, At, SaveTarget, Saving
  <2>3. mirror' \in [Engines -> MaybeDoc]
    BY <1>16, <1>a, <2>2, DocType, MirrorType DEF SaveMirror
  <2>4. faults' \in 0..MaxFaults
    BY <1>16, <1>b, TroubleStep DEF SaveMirror
  <2>5. TypeOK'
    BY <1>16, <1>a, <2>1, <2>3, <2>4 DEF SaveMirror, TypeOK
  <2>6. PcOfKind' /\ JournalOfStep'
    BY <1>16, <1>a, <1>c, <2>1 DEF SaveMirror, At, PcOfKind, JournalOfStep, PreCommit, Undoing, Saving
  <2>7. SaveTarget' /\ JournalAgrees' /\ ActiveAtStep'
    BY <1>16, <1>a, <2>1 DEF SaveMirror, SaveTarget, JournalAgrees, Recovered, ActiveAtStep, Finishing
  <2> QED
    BY <2>5, <2>6, <2>7 DEF SelInv
<1>17. CASE SavePending
  <2>1. op' \in Ops /\ (op' = Idle \/ (op'.kind = op.kind /\ op'.doc = op.doc /\ op'.pc \in {"reconf", "unsave"}))
    <3>1. CASE op' = Idle
      <4>1. op' \in Ops
        BY <3>1, IdleType
      <4> QED
        BY <3>1, <4>1
    <3>2. CASE op' = [op EXCEPT !.pc = "reconf"]
      BY <3>2, <1>b DEF Ops, Pcs
    <3>3. CASE op' = [op EXCEPT !.pc = "unsave", !.err = TRUE]
      BY <3>3, <1>b DEF Ops, Pcs
    <3> QED
      BY <1>17, <3>1, <3>2, <3>3 DEF SavePending
  <2>2. active \in Profiles /\ op.doc \in MaybeDoc
    BY <1>17, <1>a, <1>b, <1>c, OpFields DEF SavePending, At, SaveTarget, Saving
  <2>3. rev' \in [Profiles -> Revision]
    BY <1>17, <1>a, <1>b, <2>2, MarkPendingType DEF SavePending
  <2>4. faults' \in 0..MaxFaults
    BY <1>17, <1>b, TroubleStep DEF SavePending
  <2>5. TypeOK'
    BY <1>17, <1>a, <2>1, <2>3, <2>4 DEF SavePending, TypeOK
  <2>6. PcOfKind' /\ JournalOfStep'
    BY <1>17, <1>a, <1>c, <2>1, IdleType
    DEF SavePending, At, PcOfKind, JournalOfStep, PreCommit, Undoing, Saving
  <2>7. SaveTarget' /\ JournalAgrees' /\ ActiveAtStep'
    BY <1>17, <1>a, <1>c, <2>1, IdleType
    DEF SavePending, At, SaveTarget, JournalAgrees, Recovered, ActiveAtStep, Saving
  <2> QED
    BY <2>5, <2>6, <2>7 DEF SelInv
<1>18. CASE SaveApply
  <2>1. op' = Idle /\ op' \in Ops
    BY <1>18, IdleType DEF SaveApply
  <2>2. active \in Profiles
    BY <1>18, <1>a, <1>c DEF SaveApply, At, SaveTarget, Saving
  <2>3. Doc(active) \in MaybeDoc
    BY <2>2, <1>a, DocType
  <2>4. rev' \in [Profiles -> Revision]
    BY <1>18, <1>a, <1>b, <2>3, MarkAppliedType DEF SaveApply
  <2>5. core' \in MaybeDoc
    BY <1>18, <1>b, <2>3 DEF SaveApply, MaybeDoc
  <2>6. TypeOK'
    BY <1>18, <1>a, <2>1, <2>4, <2>5 DEF SaveApply, TypeOK, ghosts
  <2>7. PcOfKind' /\ JournalOfStep'
    BY <1>18, <1>a, <1>c, IdleType DEF SaveApply, At, PcOfKind, JournalOfStep, PreCommit, Undoing, Saving
  <2>8. SaveTarget' /\ JournalAgrees' /\ ActiveAtStep'
    BY <1>18, <1>a, <1>c, IdleType
    DEF SaveApply, At, ghosts, SaveTarget, JournalAgrees, Recovered, ActiveAtStep, Saving
  <2> QED
    BY <2>6, <2>7, <2>8 DEF SelInv
<1>19. CASE Unsave
  <2>1. /\ op' \in Ops
        /\ (op' = Idle \/ (op'.kind = op.kind /\ op'.doc = op.doc /\ op'.pc \in {"unsaveMirror", "unsaveRev"}))
    <3>1. CASE AfterUnsave
      BY <3>1, <1>b, AfterUnsaveStep
    <3>2. CASE Goto("unsaveMirror")
      BY <3>2, <1>b, GotoStep DEF Pcs
    <3> QED
      BY <1>19, <3>1, <3>2 DEF Unsave
  <2>2. active \in Profiles /\ op.doc \in Docs
    BY <1>19, <1>a, <1>c DEF Unsave, At, SaveTarget, Saving
  <2>3. op.doc[2] \in Versions
    BY <2>2 DEF Docs
  <2>4. content' \in [Profiles -> Versions]
    BY <1>19, <1>b, <2>3 DEF Unsave
  <2>5. faults' \in 0..MaxFaults
    BY <1>19, <1>b, TroubleStep DEF Unsave
  <2>6. TypeOK'
    BY <1>19, <1>a, <2>1, <2>4, <2>5 DEF Unsave, TypeOK
  <2>7. PcOfKind' /\ JournalOfStep'
    BY <1>19, <1>a, <1>c, <2>1, IdleType DEF Unsave, At, PcOfKind, JournalOfStep, PreCommit, Undoing, Saving
  <2>8. SaveTarget' /\ JournalAgrees' /\ ActiveAtStep'
    BY <1>19, <1>a, <1>c, <2>1, IdleType
    DEF Unsave, At, SaveTarget, JournalAgrees, Recovered, ActiveAtStep, Saving
  <2> QED
    BY <2>6, <2>7, <2>8 DEF SelInv
<1>20. CASE UnsaveMirror
  <2>1. op' \in Ops /\ (op' = Idle \/ (op'.kind = op.kind /\ op'.doc = op.doc /\ op'.pc = "unsaveRev"))
    BY <1>20, <1>b, AfterUnsaveStep DEF UnsaveMirror
  <2>2. active \in Profiles
    BY <1>20, <1>a, <1>c DEF UnsaveMirror, At, SaveTarget, Saving
  <2>3. mirror' \in [Engines -> MaybeDoc]
    BY <1>20, <1>a, <2>2, DocType, MirrorType DEF UnsaveMirror
  <2>4. faults' \in 0..MaxFaults
    BY <1>20, <1>b, TroubleStep DEF UnsaveMirror
  <2>5. TypeOK'
    BY <1>20, <1>a, <2>1, <2>3, <2>4 DEF UnsaveMirror, TypeOK
  <2>6. PcOfKind' /\ JournalOfStep'
    BY <1>20, <1>a, <1>c, <2>1, IdleType
    DEF UnsaveMirror, At, PcOfKind, JournalOfStep, PreCommit, Undoing, Saving
  <2>7. SaveTarget' /\ JournalAgrees' /\ ActiveAtStep'
    BY <1>20, <1>a, <1>c, <2>1, IdleType
    DEF UnsaveMirror, At, SaveTarget, JournalAgrees, Recovered, ActiveAtStep, Saving
  <2> QED
    BY <2>5, <2>6, <2>7 DEF SelInv
<1>21. CASE UnsaveRevision
  <2>1. op' = Idle /\ op' \in Ops /\ op.record \in Revision
    BY <1>21, <1>b, IdleType, OpFields DEF UnsaveRevision
  <2>2. faults' \in 0..MaxFaults
    BY <1>21, <1>b, TroubleStep DEF UnsaveRevision
  <2>3. TypeOK'
    BY <1>21, <1>a, <2>1, <2>2 DEF UnsaveRevision, TypeOK
  <2>4. PcOfKind' /\ JournalOfStep'
    BY <1>21, <1>a, <1>c, IdleType DEF UnsaveRevision, At, PcOfKind, JournalOfStep, PreCommit, Undoing, Saving
  <2>5. SaveTarget' /\ JournalAgrees' /\ ActiveAtStep'
    BY <1>21, <1>a, <1>c, IdleType
    DEF UnsaveRevision, At, SaveTarget, JournalAgrees, Recovered, ActiveAtStep, Saving
  <2> QED
    BY <2>3, <2>4, <2>5 DEF SelInv
<1>22. CASE Boot
  <2>1. /\ mgr = "down" /\ mgr' = "boot" /\ op.kind = "none"
        /\ (journal # None => journal.phase \in {"prepared", "committed"})
    BY <1>22, <1>a, JournalFields DEF Boot, PcOfKind
  <2>2. /\ op' \in Ops /\ op'.kind = "boot"
        /\ \/ op'.pc = "adopt"
           \/ op'.pc = "bootMirror" /\ journal # None /\ journal.phase = "committed"
           \/ op'.pc = "undoRev" /\ journal # None /\ journal.phase # "committed"
    BY <1>22, IdleType DEF Boot, Ops, Kinds, Pcs
  <2>3. TypeOK'
    BY <1>22, <1>a, <2>2 DEF Boot, TypeOK, disk, ghosts
  <2>4. PcOfKind' /\ JournalOfStep'
    BY <1>22, <2>1 DEF Boot, disk, PcOfKind, JournalOfStep, PreCommit, Undoing
  <2>5. SaveTarget' /\ JournalAgrees' /\ ActiveAtStep'
    BY <1>22, <1>a, <2>1 DEF Boot, disk, ghosts, SaveTarget, JournalAgrees, Recovered, ActiveAtStep
  <2> QED
    BY <2>3, <2>4, <2>5 DEF SelInv
<1>23. CASE BootMirror
  <2>1. Engine(journal.new) \in Engines /\ Doc(journal.new) \in MaybeDoc
    BY <1>23, <1>a, JournalDocs DEF BootMirror, At, JournalOfStep
  <2>2. /\ mirror[Engine(journal.new)] \in MaybeDoc
        /\ [mirror EXCEPT ![Engine(journal.new)] = Doc(journal.new)] \in [Engines -> MaybeDoc]
    BY <1>a, <2>1, MirrorType
  <2>3. /\ op' \in Ops /\ mgr' \in {"down", "boot", "up"}
        /\ \/ op'.kind = op.kind /\ op'.pc = "bootActive" /\ mgr' = mgr
           \/ op' = Idle /\ (op.kind = "boot" => mgr' = "down") /\ (op.kind # "boot" => mgr' = mgr)
    BY <1>23, <1>b, <2>2, WithWas, GiveUpStep DEF BootMirror, Pcs
  <2>4. mirror' \in [Engines -> MaybeDoc]
    BY <1>23, <1>b, <2>2 DEF BootMirror
  <2>5. faults' \in 0..MaxFaults
    BY <1>23, <1>b, TroubleStep DEF BootMirror
  <2>6. TypeOK'
    BY <1>23, <1>a, <2>3, <2>4, <2>5 DEF BootMirror, TypeOK
  <2>7. PcOfKind' /\ JournalOfStep'
    BY <1>23, <1>a, <1>f, <2>3, IdleType DEF BootMirror, At, PcOfKind, JournalOfStep, PreCommit, Undoing
  <2>8. SaveTarget' /\ JournalAgrees' /\ ActiveAtStep'
    BY <1>23, <1>a, <1>f, <2>3, IdleType DEF BootMirror, At, SaveTarget, JournalAgrees, Recovered, ActiveAtStep
  <2> QED
    BY <2>6, <2>7, <2>8 DEF SelInv
<1>24. CASE BootActive
  <2>1. Engine(journal.new) \in Engines /\ journal.new \in MaybeProfile
    BY <1>24, <1>a, JournalDocs, JournalFields DEF BootActive, At, JournalOfStep, MaybeProfile
  <2>2. op.was \in MaybeDoc
    BY <1>b, OpFields
  <2>3. /\ op' \in Ops /\ mgr' \in {"down", "boot", "up"}
        /\ \/ op'.kind = op.kind /\ op'.pc = "adopt" /\ mgr' = mgr /\ active' = journal.new
           \/ op' = Idle /\ (op.kind = "boot" => mgr' = "down") /\ (op.kind # "boot" => mgr' = mgr) /\ active' = active
    BY <1>24, <1>b, GotoStep, GiveUpStep DEF BootActive, Pcs
  <2>4. active' \in MaybeProfile
    BY <2>1, <2>3, <1>b
  <2>5. mirror' \in [Engines -> MaybeDoc]
    BY <1>24, <1>b, <2>2 DEF BootActive
  <2>6. faults' \in 0..MaxFaults
    BY <1>24, <1>b, TroubleStep DEF BootActive
  <2>7. TypeOK'
    BY <1>24, <1>a, <2>3, <2>4, <2>5, <2>6 DEF BootActive, TypeOK
  <2>8. PcOfKind' /\ JournalOfStep'
    BY <1>24, <1>a, <1>f, <2>3, IdleType DEF BootActive, At, PcOfKind, JournalOfStep, PreCommit, Undoing
  <2>9. SaveTarget' /\ JournalAgrees' /\ ActiveAtStep'
    BY <1>24, <1>a, <1>f, <2>3, IdleType
    DEF BootActive, At, JournalOfStep, SaveTarget, JournalAgrees, Recovered, ActiveAtStep
  <2> QED
    BY <2>7, <2>8, <2>9 DEF SelInv
<1>25. CASE Adopt
  <2>1. /\ op' \in Ops /\ mgr' \in {"down", "boot", "up"}
        /\ \/ journal = None /\ op' = Idle /\ mgr' = "up" /\ told' = IF told = None THEN active ELSE told
           \/ /\ journal # None /\ op'.kind = op.kind /\ mgr' = mgr /\ told' = told
              /\ op'.pc = IF journal.phase = "committed" THEN "publish" ELSE "unjournal"
    BY <1>25, <1>b, IdleType, GotoStep DEF Adopt, AfterAdoption, BootDone, Pcs
  <2>2. core' \in MaybeDoc
    BY <1>25, <1>b DEF Adopt, MaybeDoc
  <2>3. rev' \in [Profiles -> Revision]
    BY <1>25, <1>a, <1>b, MarkAppliedType DEF Adopt
  <2>4. op.kind = "boot"
    BY <1>25, <1>a, <1>b, OpFields DEF Adopt, At, PcOfKind, PreCommit, Undoing, Finishing, Saving, Kinds
  <2>5. TypeOK'
    BY <1>25, <1>a, <2>1, <2>2, <2>3 DEF Adopt, TypeOK
  <2>6. PcOfKind' /\ JournalOfStep'
    BY <1>25, <1>a, <2>1, <2>4, IdleType DEF Adopt, PcOfKind, JournalOfStep, PreCommit, Undoing, Finishing
  <2>7. SaveTarget' /\ JournalAgrees' /\ ActiveAtStep'
    BY <1>25, <1>a, <2>1, <2>4, IdleType DEF Adopt, SaveTarget, JournalAgrees, Recovered, ActiveAtStep
  <2> QED
    BY <2>5, <2>6, <2>7 DEF SelInv
<1>26. CASE AdoptFails
  <2>1. /\ op' = Idle /\ op' \in Ops /\ mgr' \in {"down", "boot", "up"}
        /\ (op.kind = "boot" => mgr' # "boot") /\ (told' = told \/ (told = None /\ told' = active))
    <3>1. CASE BootDone
      <4>1. op' = Idle /\ op' \in Ops /\ mgr' = "up" /\ told' = IF told = None THEN active ELSE told
        BY <3>1, IdleType DEF BootDone
      <4> QED
        BY <4>1
    <3>2. CASE GiveUp /\ UNCHANGED told
      <4>1. /\ op' = Idle /\ op' \in Ops /\ mgr' \in {"down", "boot", "up"}
            /\ op.kind = "boot" => mgr' = "down"
        BY <3>2, <1>b, GiveUpStep
      <4> QED
        BY <3>2, <4>1
    <3> QED
      BY <1>26, <3>1, <3>2 DEF AdoptFails
  <2>2. core' \in MaybeDoc
    BY <1>26 DEF AdoptFails, MaybeDoc
  <2>3. faults' \in 0..MaxFaults
    BY <1>26, <1>b, TroubleStep DEF AdoptFails
  <2>4. op.kind = "boot"
    BY <1>26, <1>a, <1>b, OpFields DEF AdoptFails, At, PcOfKind, PreCommit, Undoing, Finishing, Saving, Kinds
  <2>5. TypeOK'
    BY <1>26, <1>a, <2>1, <2>2, <2>3 DEF AdoptFails, TypeOK, disk
  <2>6. PcOfKind' /\ JournalOfStep'
    BY <2>1, <2>4, IdleType DEF PcOfKind, JournalOfStep, PreCommit, Undoing
  <2>7. SaveTarget' /\ JournalAgrees' /\ ActiveAtStep'
    BY <1>26, <1>a, <2>1, <2>4, IdleType
    DEF AdoptFails, disk, SaveTarget, JournalAgrees, Recovered, ActiveAtStep
  <2> QED
    BY <2>5, <2>6, <2>7 DEF SelInv
<1>27. CASE StartCore
  <2>1. core' \in MaybeDoc
    BY <1>27, <1>a, SourceType DEF StartCore
  <2>2. rev' \in [Profiles -> Revision]
    BY <1>27, <1>a, <1>b, SourceType, MarkAppliedType DEF StartCore
  <2>3. faults' \in 0..MaxFaults
    BY <1>27, <1>b, TroubleStep DEF StartCore
  <2>4. TypeOK'
    BY <1>27, <1>a, <2>1, <2>2, <2>3 DEF StartCore, TypeOK
  <2>5. PcOfKind' /\ JournalOfStep'
    BY <1>27, <1>a DEF StartCore, PcOfKind, JournalOfStep
  <2>6. SaveTarget' /\ JournalAgrees' /\ ActiveAtStep'
    BY <1>27, <1>a DEF StartCore, SaveTarget, JournalAgrees, Recovered, ActiveAtStep
  <2> QED
    BY <2>4, <2>5, <2>6 DEF SelInv
<1>28. CASE CoreGone
  <2>1. core' \in MaybeDoc
    BY <1>28 DEF CoreGone, MaybeDoc
  <2>2. TypeOK'
    BY <1>28, <1>a, <2>1 DEF CoreGone, TypeOK, disk, ghosts
  <2>3. PcOfKind' /\ JournalOfStep'
    BY <1>28, <1>a DEF CoreGone, disk, PcOfKind, JournalOfStep
  <2>4. SaveTarget' /\ JournalAgrees' /\ ActiveAtStep'
    BY <1>28, <1>a DEF CoreGone, disk, ghosts, SaveTarget, JournalAgrees, Recovered, ActiveAtStep
  <2> QED
    BY <2>2, <2>3, <2>4 DEF SelInv
<1>29. CASE ManagerDies
  <2>1. mgr' = "down" /\ op' = Idle /\ op' \in Ops
    BY <1>29, IdleType DEF ManagerDies
  <2>2. core' \in MaybeDoc
    BY <1>29, <1>b DEF ManagerDies, MaybeDoc
  <2>3. faults' \in 0..MaxFaults
    BY <1>29, <1>b, TroubleStep DEF ManagerDies
  <2>4. TypeOK'
    BY <1>29, <1>a, <2>1, <2>2, <2>3 DEF ManagerDies, TypeOK, disk
  <2>5. PcOfKind' /\ JournalOfStep'
    BY <2>1, IdleType DEF PcOfKind, JournalOfStep, PreCommit, Undoing
  <2>6. SaveTarget' /\ JournalAgrees' /\ ActiveAtStep'
    BY <1>29, <1>a, IdleType DEF ManagerDies, disk, SaveTarget, JournalAgrees, Recovered, ActiveAtStep
  <2> QED
    BY <2>4, <2>5, <2>6 DEF SelInv
<1>30. CASE UNCHANGED vars
  BY <1>30 DEF vars, SelInv, TypeOK, PcOfKind, JournalOfStep, SaveTarget, JournalAgrees, Recovered, ActiveAtStep
<1>31. CASE Finalize
  <2>1. mgr = "up" /\ op.pc = "idle" /\ op.kind = "none"
    BY <1>31, IdleType DEF Finalize, Ready
  <2>2. op' \in Ops /\ op'.kind = "switch" /\ op'.pc = "publish"
    BY <1>31, IdleType DEF Finalize, Ops, Kinds, Pcs
  <2>3. TypeOK'
    BY <1>31, <1>a, <2>2 DEF Finalize, TypeOK, disk, ghosts
  <2>4. PcOfKind' /\ JournalOfStep'
    BY <1>31, <2>1, <2>2 DEF Finalize, disk, PcOfKind, JournalOfStep, PreCommit, Undoing, Finishing
  <2>5. SaveTarget' /\ JournalAgrees' /\ ActiveAtStep'
    BY <1>31, <1>a, <2>1, <2>2
    DEF Finalize, disk, ghosts, SaveTarget, JournalAgrees, Recovered, ActiveAtStep
  <2> QED
    BY <2>3, <2>4, <2>5 DEF SelInv
<1>32. CASE SaveUnnamed
  <2>1. mirror' \in [Engines -> MaybeDoc]
    <3>1. PICK v \in Versions : mirror' = [mirror EXCEPT !["mihomo"] = <<NoProfile, v>>]
      BY <1>32 DEF SaveUnnamed
    <3>2. <<NoProfile, v>> \in MaybeDoc
      BY DEF MaybeDoc, Docs, MaybeProfile
    <3> QED
      BY <1>b, <3>1, <3>2
  <2>2. flaws' \subseteq {"save", "late", "undo", "record", "unnamed"} /\ faults' \in 0..MaxFaults
    BY <1>32, <1>b, TroubleStep DEF SaveUnnamed
  <2>3. TypeOK'
    BY <1>32, <1>a, <2>1, <2>2 DEF SaveUnnamed, TypeOK
  <2> QED
    BY <1>32, <1>a, <2>3
    DEF SaveUnnamed, SelInv, PcOfKind, JournalOfStep, SaveTarget, JournalAgrees, Recovered, ActiveAtStep
<1> QED
  BY <1>1, <1>2, <1>3, <1>4, <1>5, <1>6, <1>7, <1>8, <1>9, <1>10, <1>11, <1>12, <1>13, <1>14, <1>15, <1>16,
      <1>17, <1>18, <1>19, <1>20, <1>21, <1>22, <1>23, <1>24, <1>25, <1>26, <1>27, <1>28, <1>29, <1>30,
      <1>31, <1>32
  DEF Next, SwitchStep, SaveStep, BootStep, Lifecycle

-----------------------------------------------------------------------------
\* In every reachable state the journal, if any, names the selection last
\* reported, and the operation in progress and the files agree with it.
THEOREM InductiveSelection == Spec => []SelInv
<1>1. SelInv /\ [Next]_vars => SelInv'
  BY SelStep
<1>2. QED
  BY InitInv, <1>1, PTL DEF Spec

\* Outside of a switch the active profile is the one the last answer reported,
\* whatever crashes and failed writes there were.
THEOREM SelectionIsKnown == Spec => []SelectionKnown
<1>1. SelInv => SelectionKnown
  BY DEF SelInv, ActiveAtStep, SelectionKnown
<1>2. QED
  BY InductiveSelection, <1>1, PTL

\* The state is well-formed, which the undo's use of the journal's profiles
\* as indices makes more than a restatement of the assignments.
THEOREM TypeCorrect == Spec => []TypeOK
<1>1. SelInv => TypeOK
  BY DEF SelInv
<1>2. QED
  BY InductiveSelection, <1>1, PTL

-----------------------------------------------------------------------------
(* OneSelection.  Its parts say nothing of the states in which a switch or *)
(* a boot has done half of its work; the invariant does, step by step, and *)
(* so does the journal on disk, which may be undone at any later boot.     *)

Sound == flaws \intersect {"undo", "unnamed"} = {}
Known == told # None /\ Sound
Clean == flaws \intersect {"save", "late"} = {}

\* What the next start of p reads: a document of p's; the unnamed config.yaml exists.
OwnedBy(p, d) == (p = NoProfile => d # None) /\ (d # None => d[1] = p)
MirrorOwned(p) == p \notin SingBox => OwnedBy(p, mirror["mihomo"])
MirrorCurrent(p) == p # NoProfile => mirror[Engine(p)] = Doc(p)
MirrorGood(p) == MirrorOwned(p) /\ (Clean => MirrorCurrent(p))

\* A core started from document d is p's, and the registry knows.
StartedFrom(d, p) == d # None => d[1] = p /\ (p \in Profiles /\ "record" \notin flaws => rev[p].applied = d)
CoreOwned == StartedFrom(core, active)

\* A save under an outstanding journal is marked; a switch works on the document it named.
JournalSound ==
    /\ journal = None => told # None
    /\ journal # None =>
          /\ journal.newRev[1] = journal.new /\ journal.old # journal.new
          /\ active = journal.new \/ (journal.phase = "prepared" /\ active = journal.old)
          /\ op.kind = "save" => "late" \in flaws
          /\ op.kind = "switch" /\ op.pc \notin Finishing => journal.newRev = Doc(journal.new)
          /\ journal.phase = "committed" /\ mgr = "up" => told # None

\* What a prepared journal puts back belongs to the old selection.
JournalUndoes ==
    journal # None /\ journal.phase = "prepared" /\ Sound =>
        /\ journal.oldRev # None => journal.oldRev[1] = journal.old
        /\ journal.old \notin SingBox /\ journal.new \notin SingBox => OwnedBy(journal.old, journal.prevMirror)
        /\ journal.old = NoProfile /\ journal.new \in SingBox => OwnedBy(NoProfile, mirror["mihomo"])
        /\ Clean /\ journal.old # NoProfile /\ Engine(journal.old) = Engine(journal.new) =>
              journal.prevMirror = Doc(journal.old)

\* Between switches; the mirror lags behind the document within a save.
RestSteps ==
    /\ mgr = "up" /\ op.kind \in {"none", "save"} /\ Known =>
          /\ CoreOwned /\ MirrorOwned(active)
          /\ Clean /\ op.pc \notin {"saveMirror", "unsave", "unsaveMirror"} => MirrorCurrent(active)
    /\ mgr = "down" /\ journal = None /\ Sound => MirrorGood(active)

SwitchSteps ==
    /\ op.pc = "swap" => op.doc = None
    /\ op.pc \in {"swap", "start", "mirror", "swapBack"} /\ Known => MirrorGood(active)
    /\ op.pc = "swap" /\ Known => CoreOwned
    /\ op.pc \in PreCommit \union Undoing \union {"swapBack"} /\ op.kind = "switch" /\ Known =>
          StartedFrom(op.doc, journal.old)
    /\ op.pc \in {"mirror", "active", "applied", "commit"} => core \in {None, journal.newRev}
    /\ op.pc \in {"active", "applied", "commit"} /\ "unnamed" \notin flaws =>
          mirror[Engine(journal.new)] = Doc(journal.new)
    /\ op.pc = "commit" => rev[journal.new].applied = journal.newRev
    /\ op.pc \in Finishing /\ op.kind = "switch" => told # None /\ active = journal.new
    /\ op.pc \in Finishing /\ op.kind = "switch" /\ Known => CoreOwned /\ MirrorGood(active)

\* No step of the undo has failed so far.
Undone == IF Booting THEN op.err = FALSE ELSE told # None

UndoSteps ==
    /\ op.pc = "undoActive" /\ journal.old # NoProfile => mirror[Engine(journal.old)] = Doc(journal.old)
    /\ op.pc = "undoTarget" /\ journal.old # NoProfile /\ Undone =>
          mirror[Engine(journal.old)] = Doc(journal.old) /\ active = journal.old
    /\ op.pc = "undoActive" /\ journal.old = NoProfile /\ Undone /\ Sound =>
          OwnedBy(NoProfile, mirror["mihomo"])

BootSteps ==
    /\ op.pc = "bootActive" => mirror[Engine(journal.new)] = Doc(journal.new)
    /\ op.pc = "adopt" /\ journal # None => active = Recovered
    /\ op.kind = "boot" /\ op.pc \in {"adopt"} \union Finishing /\ Sound => MirrorGood(active)
    /\ op.kind = "boot" /\ op.pc \in Finishing /\ Sound => CoreOwned

OneInv == JournalSound /\ JournalUndoes /\ RestSteps /\ SwitchSteps /\ UndoSteps /\ BootSteps

\* What the registry says after a revision was marked applied.
LEMMA Marked ==
    ASSUME TypeOK, NEW p \in Profiles, NEW d \in MaybeDoc, rev' = MarkApplied(p, d)
    PROVE  rev'[p].applied = d /\ \A q \in Profiles \ {p} : rev'[q] = rev[q]
BY DEF TypeOK, MarkApplied

\* A pending revision does not displace an applied one.
LEMMA MarkedPending ==
    ASSUME TypeOK, NEW p \in Profiles, NEW d \in MaybeDoc, rev' = MarkPending(p, d)
    PROVE  /\ rev[p].applied # None => rev'[p].applied = rev[p].applied
           /\ \A q \in Profiles \ {p} : rev'[q] = rev[q]
BY DEF TypeOK, MarkPending

\* What a start reads is the active profile's, if the mirror is.
LEMMA SourceOwned ==
    ASSUME TypeOK, MirrorOwned(active), Source # None
    PROVE  Source[1] = active
BY ProfilesAssumption DEF TypeOK, MaybeProfile, MirrorOwned, OwnedBy, Source, Doc

\* The end of an undo: a boot goes on only if no step of it failed.
LEMMA UndoEnds ==
    ASSUME op \in Ops, op.kind \in {"switch", "boot"}, NEW f \in BOOLEAN, UndoEnd(f)
    PROVE  \/ op.kind = "switch" /\ op'.pc = "swapBack" /\ op'.kind = op.kind /\ op'.doc = op.doc
           \/ op.kind = "boot" /\ op' = Idle /\ mgr' = "down"
           \/ op.kind = "boot" /\ op'.pc = "adopt" /\ op'.kind = op.kind /\ f = FALSE /\ op.err = FALSE
<1>1. CASE ~Booting
  <2>1. op.kind = "switch" /\ UndoGoto("swapBack", f)
    BY <1>1 DEF UndoEnd, Booting
  <2> QED
    BY <2>1 DEF UndoGoto, Ops
<1>2. CASE Booting /\ (op.err \/ f)
  BY <1>2 DEF UndoEnd, Booting, GiveUp
<1>3. CASE Booting /\ ~(op.err \/ f)
  <2>1. op.kind = "boot" /\ UndoGoto("adopt", FALSE) /\ f = FALSE /\ op.err = FALSE
    BY <1>3 DEF UndoEnd, Booting, Ops
  <2> QED
    BY <2>1 DEF UndoGoto, Ops
<1> QED
  BY <1>1, <1>2, <1>3
\* An installation satisfies it.
LEMMA OneInit == Init => OneInv
<1> SUFFICES ASSUME Init PROVE OneInv
  OBVIOUS
<1>1. PICK v \in Versions : /\ content = [p \in Profiles |-> v]
                            /\ active \in MaybeProfile /\ told = active
                            /\ mirror = [e \in Engines |-> IF e = Engine(active) THEN <<active, v>> ELSE None]
  BY DEF Init
<1>2. op.pc = "idle" /\ op.kind = "none" /\ journal = None /\ core = None /\ mgr = "up" /\ told # None
  BY <1>1, NoneAssumption DEF Init, Idle, MaybeProfile
<1>3. JournalSound /\ JournalUndoes
  BY <1>2 DEF Sound, JournalSound, JournalUndoes
<1>4. CoreOwned
  BY <1>2 DEF CoreOwned, StartedFrom
<1>5. <<active, v>> # None /\ <<active, v>>[1] = active
  BY <1>1, NoneAssumption DEF MaybeProfile
<1>6. MirrorOwned(active)
  BY <1>1, <1>5 DEF MirrorOwned, OwnedBy, Engine, Engines
<1>7. MirrorCurrent(active)
  BY <1>1 DEF MirrorCurrent, Engine, Engines, Doc, MaybeProfile
<1>8. RestSteps
  BY <1>2, <1>4, <1>6, <1>7 DEF RestSteps
<1>9. SwitchSteps /\ UndoSteps /\ BootSteps
  BY <1>2 DEF SwitchSteps, UndoSteps, BootSteps, PreCommit, Undoing, Finishing
<1> QED
  BY <1>3, <1>8, <1>9 DEF OneInv

\* Every step keeps it.
LEMMA OneStep == SelInv /\ OneInv /\ [Next]_vars => OneInv'
<1> SUFFICES ASSUME SelInv, OneInv, [Next]_vars PROVE OneInv'
  OBVIOUS
<1>a. TypeOK /\ PcOfKind /\ JournalOfStep /\ SaveTarget /\ JournalAgrees /\ ActiveAtStep
  BY DEF SelInv
<1>b. /\ op \in Ops /\ content \in [Profiles -> Versions]
      /\ active \in MaybeProfile /\ mirror \in [Engines -> MaybeDoc] /\ rev \in [Profiles -> Revision]
      /\ core \in MaybeDoc /\ told \in MaybeProfile \union {None}
  BY <1>a DEF TypeOK
<1>c. JournalSound /\ JournalUndoes /\ RestSteps /\ SwitchSteps /\ UndoSteps /\ BootSteps
  BY DEF OneInv
<1>j. journal # None => /\ journal.old \in MaybeProfile /\ journal.new \in Profiles
                        /\ journal.oldRev \in MaybeDoc /\ journal.newRev \in MaybeDoc
                        /\ journal.prevMirror \in MaybeDoc /\ journal.prevRev \in Revision
                        /\ journal.phase \in {"prepared", "committed"}
  BY <1>a, JournalFields
<1>k. /\ op.pc \in Saving <=> op.kind = "save"
      /\ op.pc \in PreCommit \union {"swapBack"} => op.kind = "switch"
      /\ op.pc \in Undoing \union Finishing => op.kind \in {"switch", "boot"}
      /\ op.pc \in {"bootMirror", "bootActive", "adopt"} => op.kind = "boot"
      /\ op.pc = "idle" <=> op.kind = "none"
  BY <1>a, <1>b, OpFields DEF PcOfKind, Kinds, PreCommit, Undoing, Finishing, Saving
<1>q. op.pc \in PreCommit \union Undoing \union {"swapBack"} =>
          journal # None /\ journal.phase = "prepared" /\ op.pc \notin Finishing
  BY <1>a DEF JournalOfStep, PreCommit, Undoing, Finishing
<1>p. NoProfile \notin Profiles /\ SingBox \subseteq Profiles
  BY ProfilesAssumption
<1>i. Idle.pc = "idle" /\ Idle.kind = "none" /\ Idle.doc = None /\ Idle.err = FALSE
  BY DEF Idle
<1>1. CASE BeginSwitch
  <2>1. mgr = "up" /\ op.pc = "idle" /\ op.kind = "none"
    BY <1>1, <1>i DEF BeginSwitch, Ready
  <2>2. op'.kind = "switch" /\ op'.pc = "swap" /\ op'.doc = None
    BY <1>1 DEF BeginSwitch, Idle
  <2>3. PICK p \in Profiles \ {active} :
         journal' = [old |-> active, new |-> p,
                     oldRev |-> IF active = NoProfile THEN None
                                ELSE IF core # None THEN core ELSE Doc(active),
                     newRev |-> Doc(p), prevMirror |-> mirror[Engine(p)], prevRev |-> rev[p],
                     phase |-> "prepared"]
    BY <1>1 DEF BeginSwitch
  <2>4. journal' \in Journals /\ journal' # None
    BY <1>a, <2>3, JournalMade, JournalAssumption
  <2>5. Sound' => Known /\ flaws' = flaws
    BY <1>1 DEF Sound, BeginSwitch, Known
  <2>6. UNCHANGED <<mgr, content, active, mirror, rev, core, told>>
    BY <1>1 DEF BeginSwitch
  <2>7. JournalSound'
    BY <2>2, <2>3, <2>4, <2>6 DEF Doc, JournalSound
  <2>8. JournalUndoes'
    BY <1>c, <1>p, <2>1, <2>3, <2>5, <2>6
    DEF Sound, Clean, MirrorOwned, MirrorCurrent, StartedFrom, CoreOwned, Doc, Engine, JournalUndoes, RestSteps
  <2>9. RestSteps'
    BY <2>2, <2>4 DEF RestSteps
  <2>10. SwitchSteps'
    BY <1>c, <2>1, <2>2, <2>5, <2>6
    DEF Sound, Known, Clean, MirrorOwned, MirrorCurrent, MirrorGood, StartedFrom, CoreOwned, Doc, Finishing, RestSteps,
        SwitchSteps
  <2>11. UndoSteps'
    BY <2>2 DEF UndoSteps
  <2>12. BootSteps'
    BY <2>2 DEF BootSteps
  <2> QED
    BY <2>7, <2>8, <2>9, <2>10, <2>11, <2>12 DEF OneInv
<1>2. CASE BeginSave
  <2>1. mgr = "up" /\ op.pc = "idle" /\ op.kind = "none"
    BY <1>2, <1>i DEF BeginSave, Ready
  <2>2. \/ op' = op /\ (active \in Profiles => content'[active] = content[active])
        \/ op'.kind = "save" /\ op'.pc = "saveMirror"
    BY <1>2, <1>b DEF BeginSave, Idle
  <2>3. JournalSound'
    BY <1>2, <1>c, <2>1 DEF BeginSave, JournalSound
  <2>4. JournalUndoes'
    BY <1>2, <1>c DEF Sound, BeginSave, Clean, JournalUndoes
  <2>5. RestSteps'
    BY <1>2, <1>c, <2>1
    DEF Sound, BeginSave, Known, Clean, MirrorOwned, MirrorCurrent, StartedFrom, CoreOwned, Doc, RestSteps
  <2>6. SwitchSteps'
    BY <2>1, <2>2 DEF SwitchSteps
  <2>7. UndoSteps'
    BY <2>1, <2>2 DEF UndoSteps
  <2>8. BootSteps'
    BY <2>1, <2>2 DEF BootSteps
  <2> QED
    BY <2>3, <2>4, <2>5, <2>6, <2>7, <2>8 DEF OneInv
<1>3. CASE Swap
  <2>1. \/ op'.pc = "idle" /\ op'.kind = "none" /\ op'.doc = None /\ core' \in {core, None}
        \/ op'.pc = "mirror" /\ op'.kind = op.kind /\ op'.doc = op.doc /\ core' = core /\ core = None
        \/ op'.pc = "start" /\ op'.kind = op.kind /\ op'.doc = core /\ core' = None
    BY <1>3, <1>b, <1>i, GotoStep DEF Swap, Pcs, Ops
  <2>2. mgr = "up" /\ op.kind = "switch"
    BY <1>3, <1>a, <1>k DEF Swap, At, PreCommit, PcOfKind, TypeOK
  <2>3. JournalSound'
    BY <1>3, <1>c, <1>q, <2>1 DEF Swap, At, Doc, disk, ghosts, PreCommit, JournalSound
  <2>4. JournalUndoes'
    BY <1>3, <1>c DEF Sound, Swap, Clean, Doc, disk, ghosts, JournalUndoes
  <2>5. RestSteps'
    BY <1>3, <1>c
    DEF Sound, Swap, At, Known, Clean, MirrorOwned, MirrorCurrent, MirrorGood, StartedFrom, CoreOwned, Doc, disk,
        ghosts, RestSteps, SwitchSteps
  <2>6. SwitchSteps'
    BY <1>3, <1>a, <1>c, <2>1
    DEF Sound, Swap, At, Known, Clean, MirrorOwned, MirrorCurrent, MirrorGood, StartedFrom, CoreOwned, Doc, Finishing,
        disk, ghosts, ActiveAtStep, SwitchSteps
  <2>7. UndoSteps'
    BY <2>1 DEF UndoSteps
  <2>8. BootSteps'
    BY <2>1, <2>2 DEF BootSteps
  <2> QED
    BY <2>3, <2>4, <2>5, <2>6, <2>7, <2>8 DEF OneInv
<1>4. CASE StartTarget
  <2>1. \/ op'.pc = "idle" /\ op'.kind = "none" /\ op'.doc = None /\ core' \in {op.doc, None}
        \/ op'.pc = "mirror" /\ op'.kind = op.kind /\ op'.doc = op.doc /\ core' = journal.newRev
    BY <1>4, <1>b, <1>i, GotoStep DEF StartTarget, Pcs
  <2>2. mgr = "up" /\ op.kind = "switch"
    BY <1>4, <1>a, <1>k DEF StartTarget, At, PreCommit, PcOfKind, TypeOK
  <2>3. JournalSound'
    BY <1>4, <1>c, <1>q, <2>1 DEF StartTarget, At, Doc, disk, ghosts, PreCommit, JournalSound
  <2>4. JournalUndoes'
    BY <1>4, <1>c DEF Sound, StartTarget, Clean, Doc, disk, ghosts, JournalUndoes
  <2>5. RestSteps'
    BY <1>4, <1>a, <1>c, <1>k, <2>1
    DEF Sound, StartTarget, At, Known, Clean, MirrorOwned, MirrorCurrent, MirrorGood, StartedFrom, CoreOwned, Doc,
        PreCommit, disk, ghosts, ActiveAtStep, RestSteps, SwitchSteps
  <2>6. SwitchSteps'
    BY <1>4, <1>a, <1>c, <2>1
    DEF Sound, StartTarget, At, Known, Clean, MirrorOwned, MirrorCurrent, MirrorGood, StartedFrom, Doc, Finishing,
        disk, ghosts, PcOfKind, SwitchSteps
  <2>7. UndoSteps'
    BY <2>1 DEF UndoSteps
  <2>8. BootSteps'
    BY <2>1, <2>2 DEF BootSteps
  <2> QED
    BY <2>3, <2>4, <2>5, <2>6, <2>7, <2>8 DEF OneInv
<1>5. CASE WriteMirror
  <2>1. op'.pc \in {"active", "undoRev", "swapBack"} /\ op'.kind = op.kind /\ op'.doc = op.doc
    BY <1>5, <1>b, GotoStep DEF WriteMirror, Pcs
  <2>2. op'.pc = "active" => mirror' = [mirror EXCEPT ![Engine(journal.new)] = Doc(journal.new)]
    BY <1>5, <1>b, GotoStep DEF WriteMirror, Pcs
  <2>3. JournalSound'
    BY <1>5, <1>c, <1>q, <2>1 DEF WriteMirror, At, Doc, PreCommit, JournalSound
  <2>4. JournalUndoes'
    BY <1>5, <1>b, <1>c DEF Sound, WriteMirror, Engines, Clean, Doc, Engine, JournalUndoes
  <2>5. RestSteps'
    BY <1>5, <1>a, <2>1 DEF WriteMirror, At, Saving, PcOfKind, RestSteps
  <2>6. SwitchSteps'
    <3>1. (op.pc = "swap" => op.doc = None)'
      BY <2>1 DEF SwitchSteps
    <3>2. (op.pc \in {"swap", "start", "mirror", "swapBack"} /\ Known => MirrorGood(active))'
      <4>1. op'.pc = "swapBack" => UNCHANGED <<content, active, mirror, told, flaws>>
        BY <1>5, <1>b, GotoStep DEF WriteMirror, Pcs
      <4> QED
        BY <1>5, <1>c, <2>1, <4>1
        DEF WriteMirror, At, Known, Sound, Clean, MirrorGood, MirrorOwned, MirrorCurrent, OwnedBy, Doc, SwitchSteps
    <3>3. (op.pc = "swap" /\ Known => CoreOwned)'
      BY <2>1 DEF SwitchSteps
    <3>4. (op.pc \in PreCommit \union Undoing \union {"swapBack"} /\ op.kind = "switch" /\ Known
          => StartedFrom(op.doc, journal.old))'
      BY <1>5, <1>c, <2>1 DEF Sound, WriteMirror, At, Known, StartedFrom, PreCommit, SwitchSteps
    <3>5. (op.pc \in {"mirror", "active", "applied", "commit"} => core \in {None, journal.newRev})'
      BY <1>5, <1>c DEF WriteMirror, At, SwitchSteps
    <3>6. (op.pc \in {"active", "applied", "commit"} /\ "unnamed" \notin flaws
          => mirror[Engine(journal.new)] = Doc(journal.new))'
      BY <1>5, <1>b, <2>1, <2>2 DEF WriteMirror, Engines, Doc, Engine, SwitchSteps
    <3>7. (op.pc = "commit" => rev[journal.new].applied = journal.newRev)'
      BY <2>1 DEF SwitchSteps
    <3>8. (op.pc \in Finishing /\ op.kind = "switch" =>
           told # None /\ active = journal.new /\ (Known => CoreOwned /\ MirrorGood(active)))'
      BY <2>1 DEF Finishing, SwitchSteps
    <3> QED
      BY <3>1, <3>2, <3>3, <3>4, <3>5, <3>6, <3>7, <3>8 DEF SwitchSteps
  <2>7. UndoSteps'
    BY <2>1 DEF UndoSteps
  <2>8. BootSteps'
    BY <1>5, <1>k, <2>1 DEF WriteMirror, At, PreCommit, BootSteps
  <2> QED
    BY <2>3, <2>4, <2>5, <2>6, <2>7, <2>8 DEF OneInv
<1>6. CASE WriteActive
  <2>1. op'.pc \in {"applied", "undoRev"} /\ op'.kind = op.kind /\ op'.doc = op.doc
    BY <1>6, <1>b, GotoStep DEF WriteActive, Pcs
  <2>2. op'.pc = "applied" => active' = journal.new /\ mirror' = mirror
    BY <1>6, <1>b, GotoStep DEF WriteActive, Pcs
  <2>3. JournalSound'
    BY <1>6, <1>c, <1>q, <2>1 DEF WriteActive, At, Doc, PreCommit, JournalSound
  <2>4. JournalUndoes'
    BY <1>6, <1>b, <1>c DEF Sound, WriteActive, Engines, Clean, Doc, Engine, JournalUndoes
  <2>5. RestSteps'
    BY <1>6, <1>a, <2>1 DEF WriteActive, At, Saving, PcOfKind, RestSteps
  <2>6. SwitchSteps'
    BY <1>6, <1>c, <2>1, <2>2 DEF Sound, WriteActive, At, Known, StartedFrom, Doc, PreCommit, Finishing, SwitchSteps
  <2>7. UndoSteps'
    BY <2>1 DEF UndoSteps
  <2>8. BootSteps'
    BY <1>6, <1>k, <2>1 DEF WriteActive, At, PreCommit, BootSteps
  <2> QED
    BY <2>3, <2>4, <2>5, <2>6, <2>7, <2>8 DEF OneInv
<1>7. CASE WriteApplied
  <2>1. op'.pc \in {"commit", "undoRev"} /\ op'.kind = op.kind /\ op'.doc = op.doc
    BY <1>7, <1>b, GotoStep DEF WriteApplied, Pcs
  <2>2. op'.pc = "commit" => rev' = MarkApplied(journal.new, journal.newRev)
    BY <1>7, <1>b, GotoStep DEF WriteApplied, Pcs
  <2>3. op'.pc = "undoRev" => rev' = rev
    BY <1>7, <1>b, GotoStep DEF WriteApplied, Pcs
  <2>4. /\ op'.pc = "commit" => rev'[journal.new].applied = journal.newRev
        /\ journal.old \in Profiles \ {journal.new} => rev'[journal.old] = rev[journal.old]
    BY <1>7, <1>a, <1>j, <2>1, <2>2, <2>3, Marked DEF WriteApplied, At, JournalOfStep, PreCommit
  <2>5. JournalSound'
    BY <1>7, <1>c, <1>q, <2>1 DEF WriteApplied, At, Doc, PreCommit, JournalSound
  <2>6. JournalUndoes'
    BY <1>7, <1>c DEF Sound, WriteApplied, Clean, Doc, JournalUndoes
  <2>7. RestSteps'
    BY <1>7, <1>c, <1>k, <2>1
    DEF WriteApplied, At, Sound, Clean, MirrorOwned, MirrorCurrent, MirrorGood, OwnedBy, Doc, PreCommit, RestSteps
  <2>8. SwitchSteps'
    <3>1. (op.pc = "swap" => op.doc = None)'
      BY <2>1 DEF SwitchSteps
    <3>2. (op.pc \in {"swap", "start", "mirror", "swapBack"} /\ Known => MirrorGood(active))'
      BY <2>1 DEF SwitchSteps
    <3>3. (op.pc = "swap" /\ Known => CoreOwned)'
      BY <2>1 DEF SwitchSteps
    <3>4. (op.pc \in PreCommit \union Undoing \union {"swapBack"} /\ op.kind = "switch" /\ Known
          => StartedFrom(op.doc, journal.old))'
      BY <1>7, <1>a, <1>c, <2>1, <2>4
      DEF Sound, WriteApplied, At, Known, StartedFrom, PreCommit, JournalOfStep, JournalSound, SwitchSteps
    <3>5. (op.pc \in {"mirror", "active", "applied", "commit"} => core \in {None, journal.newRev})'
      BY <1>7, <1>c DEF WriteApplied, At, SwitchSteps
    <3>6. (op.pc \in {"active", "applied", "commit"} /\ "unnamed" \notin flaws
          => mirror[Engine(journal.new)] = Doc(journal.new))'
      BY <1>7, <1>c DEF WriteApplied, At, Doc, SwitchSteps
    <3>7. (op.pc = "commit" => rev[journal.new].applied = journal.newRev)'
      BY <1>7, <2>4 DEF WriteApplied, SwitchSteps
    <3>8. (op.pc \in Finishing /\ op.kind = "switch" =>
           told # None /\ active = journal.new /\ (Known => CoreOwned /\ MirrorGood(active)))'
      BY <2>1 DEF Finishing, SwitchSteps
    <3> QED
      BY <3>1, <3>2, <3>3, <3>4, <3>5, <3>6, <3>7, <3>8 DEF SwitchSteps
  <2>9. UndoSteps'
    BY <2>1 DEF UndoSteps
  <2>10. BootSteps'
    BY <1>7, <1>k, <2>1 DEF WriteApplied, At, PreCommit, BootSteps
  <2> QED
    BY <2>5, <2>6, <2>7, <2>8, <2>9, <2>10 DEF OneInv
<1>8. CASE Commit
  <2>1. op'.pc \in {"publish", "undoRev"} /\ op'.kind = op.kind /\ op'.doc = op.doc
    BY <1>8, <1>b, GotoStep DEF Commit, Pcs
  <2>2. op'.pc = "publish" => /\ journal' = [journal EXCEPT !.phase = "committed"]
                             /\ told' = journal.new /\ flaws' = flaws \intersect {"unnamed"}
    BY <1>8, <1>b, GotoStep DEF Commit, Pcs
  <2>3. op'.pc = "undoRev" => UNCHANGED <<journal, told, flaws>>
    BY <1>8, <1>b, GotoStep DEF Commit, Pcs
  <2>4. /\ journal \in Journals /\ journal # None /\ journal.phase = "prepared" /\ op.kind = "switch"
    BY <1>8, <1>a, <1>k, JournalFields DEF Commit, At, JournalOfStep, PreCommit
  <2>5. /\ journal'.old = journal.old /\ journal'.new = journal.new /\ journal'.oldRev = journal.oldRev
        /\ journal'.newRev = journal.newRev /\ journal'.prevMirror = journal.prevMirror
        /\ journal' # None /\ journal'.phase = IF op'.pc = "publish" THEN "committed" ELSE "prepared"
    BY <2>1, <2>2, <2>3, <2>4, JournalAssumption DEF Journals
  <2>6. JournalSound'
    BY <1>8, <1>a, <1>c, <1>j, <1>q, <2>1, <2>2, <2>4, <2>5, NoneAssumption
    DEF Commit, At, Doc, ActiveAtStep, PreCommit, MaybeProfile, JournalSound
  <2>7. JournalUndoes'
    BY <1>8, <1>c, <2>1, <2>3, <2>5 DEF Sound, Commit, Clean, Doc, JournalUndoes
  <2>8. RestSteps'
    BY <2>1, <2>4, <2>5 DEF RestSteps
  <2>9. SwitchSteps'
    <3>1. (op.pc = "swap" => op.doc = None)'
      BY <2>1 DEF SwitchSteps
    <3>2. (op.pc \in {"swap", "start", "mirror", "swapBack"} /\ Known => MirrorGood(active))'
      BY <2>1 DEF SwitchSteps
    <3>3. (op.pc = "swap" /\ Known => CoreOwned)'
      BY <2>1 DEF SwitchSteps
    <3>4. (op.pc \in PreCommit \union Undoing \union {"swapBack"} /\ op.kind = "switch" /\ Known
          => StartedFrom(op.doc, journal.old))'
      BY <1>8, <1>c, <2>1, <2>3 DEF Sound, Commit, At, Known, StartedFrom, PreCommit, Undoing, SwitchSteps
    <3>5. (op.pc \in {"mirror", "active", "applied", "commit"} => core \in {None, journal.newRev})'
      BY <2>1 DEF SwitchSteps
    <3>6. (op.pc \in {"active", "applied", "commit"} /\ "unnamed" \notin flaws
          => mirror[Engine(journal.new)] = Doc(journal.new))'
      BY <2>1 DEF SwitchSteps
    <3>7. (op.pc = "commit" => rev[journal.new].applied = journal.newRev)'
      BY <2>1 DEF SwitchSteps
    <3>8. (op.pc \in Finishing /\ op.kind = "switch" =>
           told # None /\ active = journal.new /\ (Known => CoreOwned /\ MirrorGood(active)))'
      <4>1. op'.pc = "publish" => told' # None /\ active' = journal'.new /\ active' \in Profiles /\ active' # NoProfile
        BY <1>8, <1>a, <1>j, <1>p, NoneAssumption, <2>2, <2>4, <2>5 DEF Commit, At, ActiveAtStep
      <4>2. op'.pc = "publish" /\ Known' => MirrorCurrent(active)'
        <5> SUFFICES ASSUME op'.pc = "publish", Known' PROVE MirrorCurrent(active)'
          OBVIOUS
        <5>1. "unnamed" \notin flaws
          BY <2>2 DEF Known, Sound
        <5>2. mirror[Engine(journal.new)] = Doc(journal.new)
          BY <1>8, <1>c, <5>1 DEF Commit, At, SwitchSteps
        <5>3. mirror' = mirror /\ content' = content /\ active' = journal.new
          BY <1>8, <2>5, <4>1 DEF Commit
        <5> QED
          BY <5>2, <5>3 DEF MirrorCurrent, Doc, Engine
      <4>3. op'.pc = "publish" /\ Known' => MirrorGood(active)'
        BY <4>1, <4>2 DEF MirrorGood, MirrorOwned, MirrorCurrent, OwnedBy, Engine, Doc
      <4>4. op'.pc = "publish" => CoreOwned'
        BY <1>8, <1>c, <2>4, <2>5, <4>1 DEF Commit, At, CoreOwned, StartedFrom, JournalSound, SwitchSteps
      <4> QED
        BY <2>1, <4>1, <4>3, <4>4 DEF Finishing
    <3> QED
      BY <3>1, <3>2, <3>3, <3>4, <3>5, <3>6, <3>7, <3>8 DEF SwitchSteps
  <2>10. UndoSteps'
    BY <2>1 DEF UndoSteps
  <2>11. BootSteps'
    BY <2>1, <2>4 DEF BootSteps
  <2> QED
    BY <2>6, <2>7, <2>8, <2>9, <2>10, <2>11 DEF OneInv
<1>9. CASE Publish
  <2>1. \/ op'.pc = "unjournal" /\ op'.kind = op.kind /\ op'.doc = op.doc /\ mgr' = mgr
        \/ op'.pc = "idle" /\ op'.kind = "none" /\ op'.doc = None /\ op.kind = "switch" /\ mgr' = mgr
        \/ op'.pc = "idle" /\ op'.kind = "none" /\ op'.doc = None /\ op.kind = "boot" /\ mgr' = "down"
    BY <1>9, <1>b, <1>i, <1>k, GotoStep DEF Publish, At, GiveUp, Booting, Pcs, Finishing
  <2>2. JournalSound'
    BY <1>9, <1>c, <2>1 DEF Publish, Doc, disk, Finishing, JournalSound
  <2>3. JournalUndoes'
    BY <1>9, <1>a DEF Sound, Publish, At, disk, JournalOfStep, JournalUndoes
  <2>4. RestSteps'
    BY <1>9, <1>a, <1>c, <1>j, <1>p, <2>1
    DEF Sound, Publish, At, Known, Clean, OwnedBy, MirrorOwned, MirrorCurrent, MirrorGood, StartedFrom, CoreOwned,
        Doc, Engine, Finishing, disk, PcOfKind, JournalOfStep, RestSteps, SwitchSteps
  <2>5. SwitchSteps'
    BY <1>9, <1>c, <2>1
    DEF Sound, Publish, At, Known, Clean, OwnedBy, MirrorOwned, MirrorCurrent, MirrorGood, StartedFrom, CoreOwned,
        Doc, Engine, PreCommit, Undoing, Finishing, disk, SwitchSteps
  <2>6. UndoSteps'
    BY <2>1 DEF UndoSteps
  <2>7. BootSteps'
    BY <1>9, <1>c, <2>1
    DEF Sound, Publish, At, Clean, MirrorOwned, MirrorCurrent, MirrorGood, StartedFrom, CoreOwned, Doc, Finishing,
        disk, BootSteps
  <2> QED
    BY <2>2, <2>3, <2>4, <2>5, <2>6, <2>7 DEF OneInv
<1>10. CASE RemoveJournal
  <2>1. op'.pc = "idle" /\ op'.kind = "none" /\ op'.doc = None
    BY <1>10, <1>i DEF RemoveJournal, BootDone, GiveUp
  <2>2. op.kind \in {"switch", "boot"} /\ (op.kind = "switch" => mgr = "up")
    BY <1>10, <1>a, <1>k DEF RemoveJournal, At, Finishing, PcOfKind, TypeOK
  <2>3. active # None
    BY <1>b, NoneAssumption DEF MaybeProfile
  <2>4. \/ op.kind = "boot" /\ journal' = None /\ mgr' = "up" /\ told' # None
        \/ op.kind = "switch" /\ journal' = None /\ mgr' = mgr /\ told' = told
        \/ op.kind = "boot" /\ journal' = journal /\ mgr' = "down" /\ told' = told
        \/ op.kind = "switch" /\ journal' = journal /\ mgr' = mgr /\ told' = told
    BY <1>10, <2>2, <2>3 DEF RemoveJournal, BootDone, GiveUp, Booting
  <2>5. journal # None /\ journal.new # NoProfile
    BY <1>10, <1>a, <1>j, <1>p DEF RemoveJournal, At, JournalOfStep
  <2>6. JournalSound'
    BY <1>10, <1>c, <2>1, <2>4 DEF Sound, RemoveJournal, At, Known, Finishing, JournalSound, SwitchSteps
  <2>7. JournalUndoes'
    BY <1>10, <1>c DEF Sound, RemoveJournal, Clean, Doc, JournalUndoes
  <2>8. RestSteps'
    BY <1>10, <1>c, <2>2, <2>5
    DEF Sound, RemoveJournal, At, Known, Clean, OwnedBy, MirrorOwned, MirrorCurrent, MirrorGood, StartedFrom,
        CoreOwned, Doc, Engine, Finishing, RestSteps, SwitchSteps, BootSteps
  <2>9. SwitchSteps'
    BY <2>1 DEF SwitchSteps
  <2>10. UndoSteps'
    BY <2>1 DEF UndoSteps
  <2>11. BootSteps'
    BY <2>1 DEF BootSteps
  <2> QED
    BY <2>6, <2>7, <2>8, <2>9, <2>10, <2>11 DEF OneInv
<1>11. CASE UndoRevision
  <2>1. op'.kind = op.kind /\ op'.doc = op.doc /\ op'.pc = AfterRev
    BY <1>11, <1>b DEF UndoRevision, UndoGoto, Ops
  <2>2. journal # None /\ journal.phase = "prepared" /\ journal.old # journal.new /\ journal.old \in MaybeProfile
    BY <1>11, <1>a, <1>c, <1>j DEF UndoRevision, At, JournalOfStep, Undoing, JournalSound
  <2>3. told' \in {told, None}
    BY <1>11 DEF UndoRevision, UndoFailed
  <2>4. op'.pc = IF journal.old = NoProfile THEN "undoTarget" ELSE "undoMirror"
    BY <2>1 DEF AfterRev
  <2>5. JournalSound'
    BY <1>11, <1>c, <1>q, <2>1, <2>2 DEF UndoRevision, At, Doc, Undoing, JournalSound
  <2>6. JournalUndoes'
    BY <1>11, <1>c DEF Sound, UndoRevision, Clean, Doc, JournalUndoes
  <2>7. RestSteps'
    BY <1>11, <1>k, <2>1, <2>2 DEF UndoRevision, At, Undoing, RestSteps
  <2>8. SwitchSteps'
    BY <1>11, <1>b, <1>c, <2>1, <2>2, <2>3, <2>4
    DEF Sound, UndoRevision, At, Known, StartedFrom, Undoing, Finishing, SwitchSteps
  <2>9. UndoSteps'
    BY <1>11, <2>4 DEF UndoRevision, UndoSteps
  <2>10. BootSteps'
    BY <2>4 DEF Finishing, BootSteps
  <2> QED
    BY <2>5, <2>6, <2>7, <2>8, <2>9, <2>10 DEF OneInv
<1>12. CASE UndoMirror
  <2>1. op'.kind = op.kind /\ op'.doc = op.doc /\ op'.pc \in {"undoActive", "undoTarget"}
    BY <1>12, <1>b DEF UndoMirror, UndoGoto, Ops
  <2>2. /\ journal # None /\ journal.phase = "prepared" /\ journal.old # journal.new
        /\ journal.old \in MaybeProfile /\ journal.old # NoProfile
    BY <1>12, <1>a, <1>c, <1>j DEF UndoMirror, At, JournalOfStep, Undoing, JournalSound
  <2>3. told' \in {told, None}
    BY <1>12 DEF UndoMirror, UndoFailed
  <2>4. op'.pc = "undoActive" => mirror' = [mirror EXCEPT ![Engine(journal.old)] = Doc(journal.old)]
    BY <1>12, <1>b DEF UndoMirror, UndoGoto, Ops
  <2>5. op'.pc = "undoTarget" => ~Undone'
    <3>1. ASSUME op'.pc = "undoTarget" PROVE UndoFailed /\ UndoGoto("undoTarget", TRUE)
      BY <1>12, <1>b, <3>1 DEF UndoMirror, Ops
    <3>2. ASSUME UndoGoto("undoTarget", TRUE) PROVE op'.err = TRUE
      BY <1>b, <3>2 DEF UndoGoto, Ops
    <3> QED
      BY <2>1, <3>1, <3>2 DEF Undone, UndoFailed, Booting
  <2>6. JournalSound'
    BY <1>12, <1>c, <1>q, <2>1, <2>2 DEF UndoMirror, At, Doc, Undoing, JournalSound
  <2>7. JournalUndoes'
    BY <1>12, <1>c, <2>2 DEF Sound, UndoMirror, Clean, Doc, JournalUndoes
  <2>8. RestSteps'
    BY <1>12, <1>k, <2>1, <2>2 DEF UndoMirror, At, Undoing, RestSteps
  <2>9. SwitchSteps'
    BY <1>12, <1>c, <2>1, <2>3 DEF Sound, UndoMirror, At, Known, StartedFrom, Undoing, Finishing, SwitchSteps
  <2>10. UndoSteps'
    BY <1>12, <1>b, <2>2, <2>4, <2>5 DEF UndoMirror, Engines, Doc, Engine, UndoSteps
  <2>11. BootSteps'
    BY <2>1 DEF Finishing, BootSteps
  <2> QED
    BY <2>6, <2>7, <2>8, <2>9, <2>10, <2>11 DEF OneInv
<1>13. CASE UndoActive
  <2>1. journal # None /\ journal.phase = "prepared" /\ journal.old # journal.new /\ journal.old \in MaybeProfile
    BY <1>13, <1>a, <1>c, <1>j DEF UndoActive, At, JournalOfStep, Undoing, JournalSound
  <2>2. op.kind \in {"switch", "boot"}
    BY <1>13, <1>k DEF UndoActive, At, Undoing
  <2>3. PICK failed \in BOOLEAN :
        /\ IF journal.old = NoProfile THEN UndoEnd(failed) ELSE UndoGoto("undoTarget", failed) /\ UNCHANGED mgr
        /\ failed = FALSE => active' = journal.old /\ mirror' = mirror /\ told' = told
        /\ failed = TRUE => /\ UndoFailed /\ active' = active
                            /\ mirror' = IF journal.old = NoProfile THEN mirror ELSE [mirror EXCEPT ![Engine(journal.old)] = op.was]
    BY <1>13 DEF UndoActive
  <2>4. journal.old = NoProfile =>
        \/ op.kind = "switch" /\ op'.pc = "swapBack" /\ op'.kind = "switch" /\ op'.doc = op.doc
        \/ op.kind = "boot" /\ op'.pc = "idle" /\ op'.kind = "none" /\ op'.doc = None /\ mgr' = "down"
        \/ op.kind = "boot" /\ op'.pc = "adopt" /\ op'.kind = "boot" /\ failed = FALSE /\ op.err = FALSE
    BY <1>b, <1>i, <2>2, <2>3, UndoEnds
  <2>5. journal.old # NoProfile => /\ op'.pc = "undoTarget" /\ op'.kind = op.kind /\ op'.doc = op.doc
                                  /\ op'.err = IF failed THEN TRUE ELSE op.err
    BY <1>b, <2>3 DEF UndoGoto, Ops
  <2>6. told' \in {told, None} /\ (failed = TRUE => told' = IF op.kind = "boot" THEN told ELSE None)
    BY <2>3 DEF UndoFailed, Booting
  <2>7. UNCHANGED <<content, rev, journal, core, flaws>>
    BY <1>13 DEF UndoActive
  <2>8. JournalSound'
    BY <1>13, <1>c, <1>q, <2>1, <2>3, <2>4, <2>5, <2>7 DEF UndoActive, At, Doc, Undoing, JournalSound
  <2>9. JournalUndoes'
    BY <1>c, <2>3, <2>7 DEF Sound, Clean, Doc, JournalUndoes
  <2>10. RestSteps'
    BY <2>1, <2>2, <2>4, <2>5, <2>7 DEF RestSteps
  <2>11. SwitchSteps'
    BY <1>13, <1>c, <2>3, <2>4, <2>5, <2>6
    DEF Sound, UndoActive, At, Known, MirrorOwned, MirrorCurrent, MirrorGood, StartedFrom, Undone, Booting, Undoing,
        Finishing, JournalAgrees, JournalUndoes, RestSteps, SwitchSteps, UndoSteps, BootSteps
  <2>12. UndoSteps'
    BY <1>13, <1>c, <2>3, <2>4, <2>5, <2>6 DEF UndoActive, At, Undone, Booting, Doc, UndoSteps
  <2>13. BootSteps'
    BY <1>13, <1>c, <2>1, <2>3, <2>4, <2>5
    DEF Sound, UndoActive, At, MirrorOwned, MirrorCurrent, MirrorGood, Undone, Booting, Recovered, Finishing,
        UndoSteps, BootSteps
  <2> QED
    BY <2>8, <2>9, <2>10, <2>11, <2>12, <2>13 DEF OneInv
<1>14. CASE UndoTarget
  <2>1. journal # None /\ journal.phase = "prepared" /\ journal.old # journal.new /\ journal.old \in MaybeProfile
    BY <1>14, <1>a, <1>c, <1>j DEF UndoTarget, At, JournalOfStep, Undoing, JournalSound
  <2>2. op.kind \in {"switch", "boot"}
    BY <1>14, <1>k DEF UndoTarget, At, Undoing
  <2>3. PICK failed \in BOOLEAN :
        /\ IF journal.old = NoProfile THEN UndoGoto("undoActive", failed) /\ UNCHANGED mgr ELSE UndoEnd(failed)
        /\ failed = FALSE => mirror' = [mirror EXCEPT ![Engine(journal.new)] = journal.prevMirror] /\ told' = told
        /\ failed = TRUE => UndoFailed /\ mirror' = mirror
    BY <1>14 DEF UndoTarget
  <2>4. journal.old # NoProfile =>
        \/ op.kind = "switch" /\ op'.pc = "swapBack" /\ op'.kind = "switch" /\ op'.doc = op.doc
        \/ op.kind = "boot" /\ op'.pc = "idle" /\ op'.kind = "none" /\ op'.doc = None /\ mgr' = "down"
        \/ op.kind = "boot" /\ op'.pc = "adopt" /\ op'.kind = "boot" /\ failed = FALSE /\ op.err = FALSE
    BY <1>b, <1>i, <2>2, <2>3, UndoEnds
  <2>5. journal.old = NoProfile => /\ op'.pc = "undoActive" /\ op'.kind = op.kind /\ op'.doc = op.doc
                                  /\ op'.err = IF failed THEN TRUE ELSE op.err
    BY <1>b, <2>3 DEF UndoGoto, Ops
  <2>6. told' \in {told, None} /\ (failed = TRUE => told' = IF op.kind = "boot" THEN told ELSE None)
    BY <2>3 DEF UndoFailed, Booting
  <2>7. UNCHANGED <<content, active, rev, journal, core, flaws>>
    BY <1>14 DEF UndoTarget
  <2>8. journal.old # NoProfile /\ Undone /\ failed = FALSE /\ Sound => MirrorGood(active)'
    <3> SUFFICES ASSUME journal.old # NoProfile, Undone, failed = FALSE, Sound PROVE MirrorGood(active)'
      OBVIOUS
    <3>1. op.pc = "undoTarget"
      BY <1>14 DEF UndoTarget, At
    <3>2. /\ mirror[Engine(journal.old)] = Doc(journal.old) /\ active' = journal.old /\ content' = content
          /\ journal.old \in Profiles
      BY <1>c, <2>1, <2>7, <3>1 DEF UndoSteps, MaybeProfile
    <3>3. mirror' = [mirror EXCEPT ![Engine(journal.new)] = journal.prevMirror]
      BY <2>3
    <3>4. CASE Engine(journal.old) = Engine(journal.new)
      <4>1. /\ Clean => journal.prevMirror = Doc(journal.old)
            /\ journal.old \notin SingBox => OwnedBy(journal.old, journal.prevMirror)
        BY <1>c, <2>1, <3>4 DEF Sound, JournalUndoes, Engine
      <4>2. mirror'[Engine(journal.old)] = journal.prevMirror
        BY <1>b, <3>3, <3>4 DEF Engine, Engines
      <4> QED
        BY <2>7, <3>2, <4>1, <4>2 DEF MirrorGood, MirrorOwned, MirrorCurrent, Clean, OwnedBy, Engine, Doc
    <3>5. CASE Engine(journal.old) # Engine(journal.new)
      <4>1. mirror'[Engine(journal.old)] = Doc(journal.old)
        BY <1>b, <3>2, <3>3, <3>5 DEF Engine, Engines
      <4> QED
        BY <2>7, <3>2, <4>1 DEF MirrorGood, MirrorOwned, MirrorCurrent, OwnedBy, Engine, Doc
    <3> QED
      BY <3>4, <3>5
  <2>9. JournalSound'
    BY <1>14, <1>c, <1>q, <2>1, <2>4, <2>5, <2>7 DEF UndoTarget, At, Doc, Undoing, JournalSound
  <2>10. JournalUndoes'
    BY <1>b, <1>c, <2>3, <2>7 DEF Sound, Engines, Clean, Doc, Engine, JournalUndoes
  <2>11. RestSteps'
    BY <2>1, <2>2, <2>4, <2>5, <2>7 DEF RestSteps
  <2>12. SwitchSteps'
    <3>1. (op.pc = "swap" => op.doc = None)'
      BY <2>4, <2>5 DEF SwitchSteps
    <3>2. (op.pc \in {"swap", "start", "mirror", "swapBack"} /\ Known => MirrorGood(active))'
      BY <1>14, <1>a, <1>k, <2>1, <2>4, <2>5, <2>6, <2>7, <2>8
      DEF Sound, UndoTarget, At, Known, Undone, Booting, PcOfKind, Undoing
    <3>3. (op.pc = "swap" /\ Known => CoreOwned)'
      BY <2>4, <2>5 DEF SwitchSteps
    <3>4. (op.pc \in PreCommit \union Undoing \union {"swapBack"} /\ op.kind = "switch" /\ Known
          => StartedFrom(op.doc, journal.old))'
      BY <1>14, <1>c, <2>4, <2>5, <2>6 DEF Sound, UndoTarget, At, Known, StartedFrom, Undoing, SwitchSteps
    <3>5. (op.pc \in {"mirror", "active", "applied", "commit"} => core \in {None, journal.newRev})'
      BY <2>4, <2>5 DEF SwitchSteps
    <3>6. (op.pc \in {"active", "applied", "commit"} /\ "unnamed" \notin flaws
          => mirror[Engine(journal.new)] = Doc(journal.new))'
      BY <2>4, <2>5 DEF SwitchSteps
    <3>7. (op.pc = "commit" => rev[journal.new].applied = journal.newRev)'
      BY <2>4, <2>5 DEF SwitchSteps
    <3>8. (op.pc \in Finishing /\ op.kind = "switch" =>
           told # None /\ active = journal.new /\ (Known => CoreOwned /\ MirrorGood(active)))'
      BY <2>4, <2>5 DEF Finishing, SwitchSteps
    <3> QED
      BY <3>1, <3>2, <3>3, <3>4, <3>5, <3>6, <3>7, <3>8 DEF SwitchSteps
  <2>13. UndoSteps'
    BY <1>b, <1>c, <1>p, <2>1, <2>3, <2>4, <2>5, <2>6, <2>7
    DEF Sound, Engines, Undone, Booting, Engine, JournalUndoes, UndoSteps
  <2>14. BootSteps'
    <3>1. (op.pc = "bootActive" => mirror[Engine(journal.new)] = Doc(journal.new))'
      BY <2>4, <2>5 DEF BootSteps
    <3>2. (op.pc = "adopt" /\ journal # None => active = Recovered)'
      BY <1>14, <1>c, <2>4, <2>5
      DEF UndoTarget, At, Undone, Booting, Recovered, JournalSound, UndoSteps, BootSteps
    <3>3. (op.kind = "boot" /\ op.pc \in {"adopt"} \union Finishing /\ Sound => MirrorGood(active))'
      BY <1>14, <1>a, <1>k, <2>1, <2>4, <2>5, <2>6, <2>7, <2>8
      DEF UndoTarget, At, Sound, Undone, Booting, PcOfKind, Undoing, Finishing
    <3>4. (op.kind = "boot" /\ op.pc \in Finishing /\ Sound => CoreOwned)'
      BY <2>4, <2>5 DEF Finishing, BootSteps
    <3> QED
      BY <3>1, <3>2, <3>3, <3>4 DEF BootSteps
  <2> QED
    BY <2>9, <2>10, <2>11, <2>12, <2>13, <2>14 DEF OneInv
<1>15. CASE SwapBack
  <2>1. op'.pc = "idle" /\ op'.kind = "none" /\ op'.doc = None
    BY <1>15, <1>i DEF SwapBack
  <2>2. JournalSound'
    BY <1>15, <1>c, <2>1 DEF SwapBack, disk, ghosts, JournalSound
  <2>3. JournalUndoes'
    BY <1>15, <1>c DEF Sound, SwapBack, Clean, Doc, disk, ghosts, JournalUndoes
  <2>4. RestSteps'
    BY <1>15, <1>a, <1>c, <1>k
    DEF Sound, SwapBack, At, Known, Clean, MirrorOwned, MirrorCurrent, MirrorGood, StartedFrom, CoreOwned, Doc, disk,
        ghosts, ActiveAtStep, RestSteps, SwitchSteps
  <2>5. SwitchSteps'
    BY <2>1 DEF SwitchSteps
  <2>6. UndoSteps'
    BY <2>1 DEF UndoSteps
  <2>7. BootSteps'
    BY <2>1 DEF BootSteps
  <2> QED
    BY <2>2, <2>3, <2>4, <2>5, <2>6, <2>7 DEF OneInv
<1>16. CASE SaveMirror
  <2>1. op'.pc \in {"pending", "unsave"} /\ op'.kind = op.kind /\ op'.doc = op.doc
    BY <1>16, <1>b, GotoStep DEF SaveMirror, Pcs
  <2>2. op'.pc = "pending" => mirror' = [mirror EXCEPT ![Engine(active)] = Doc(active)]
    BY <1>16, <1>b, GotoStep DEF SaveMirror, Pcs
  <2>3. JournalSound'
    BY <1>16, <1>c, <1>k, <2>1 DEF SaveMirror, At, Doc, Saving, JournalSound
  <2>4. JournalUndoes'
    <3>1. (journal # None /\ journal.phase = "prepared" /\ Sound /\ journal.oldRev # None => journal.oldRev[1] = journal.old)'
      BY <1>16, <1>c DEF Sound, SaveMirror, JournalUndoes
    <3>2. (journal # None /\ journal.phase = "prepared" /\ Sound /\ journal.old \notin SingBox /\ journal.new \notin SingBox
          => OwnedBy(journal.old, journal.prevMirror))'
      BY <1>16, <1>c DEF Sound, SaveMirror, JournalUndoes
    <3>3. (journal # None /\ journal.phase = "prepared" /\ Sound /\ journal.old = NoProfile /\ journal.new \in SingBox
          => OwnedBy(NoProfile, mirror["mihomo"]))'
      BY <1>16, <1>a, <1>b, <1>c, <1>k, <1>p
      DEF Sound, SaveMirror, At, Engines, Engine, Saving, SaveTarget, JournalSound, JournalUndoes
    <3>4. (journal # None /\ journal.phase = "prepared" /\ Sound /\ Clean /\ journal.old # NoProfile /\ Engine(journal.old) = Engine(journal.new)
          => journal.prevMirror = Doc(journal.old))'
      BY <1>16, <1>c DEF Sound, SaveMirror, Clean, Doc, JournalUndoes
    <3> QED
      BY <3>1, <3>2, <3>3, <3>4 DEF Sound, JournalUndoes
  <2>5. RestSteps'
    <3>1. (mgr = "up" /\ op.kind \in {"none", "save"} /\ Known => CoreOwned)'
      BY <1>16, <1>c, <2>1 DEF Sound, SaveMirror, Known, StartedFrom, CoreOwned, RestSteps
    <3>2. (mgr = "up" /\ op.kind \in {"none", "save"} /\ Known => MirrorOwned(active))'
      BY <1>16, <1>a, <1>b, <1>c, <1>k, <1>p, <2>1
      DEF Sound, SaveMirror, At, Engines, Known, OwnedBy, MirrorOwned, Doc, SaveTarget, RestSteps
    <3>3. (mgr = "up" /\ op.kind \in {"none", "save"} /\ Known /\ Clean /\ op.pc \notin {"saveMirror", "unsave", "unsaveMirror"}
          => MirrorCurrent(active))'
      BY <1>16, <1>b, <2>1, <2>2 DEF SaveMirror, Engines, MirrorCurrent, Doc, Engine, RestSteps
    <3>4. (mgr = "down" /\ journal = None /\ Sound => MirrorGood(active))'
      BY <1>16, <1>a DEF SaveMirror, At, PcOfKind, RestSteps
    <3> QED
      BY <3>1, <3>2, <3>3, <3>4 DEF RestSteps
  <2>6. SwitchSteps'
    BY <1>16, <1>k, <2>1 DEF SaveMirror, At, Saving, SwitchSteps
  <2>7. UndoSteps'
    BY <2>1 DEF UndoSteps
  <2>8. BootSteps'
    BY <2>1 DEF Finishing, BootSteps
  <2> QED
    BY <2>3, <2>4, <2>5, <2>6, <2>7, <2>8 DEF OneInv
<1>17. CASE SavePending
  <2>1. mgr = "up" /\ op.kind = "save"
    BY <1>17, <1>a, <1>k DEF SavePending, At, Saving, PcOfKind, TypeOK
  <2>2. \/ op'.pc \in {"reconf", "unsave"} /\ op'.kind = op.kind /\ op'.doc = op.doc
        \/ op'.pc = "idle" /\ op'.kind = "none" /\ op'.doc = None
    BY <1>17, <1>b, <1>i DEF SavePending, Ops
  <2>3. active \in Profiles /\ op.doc \in MaybeDoc
    BY <1>a, <2>1 DEF SaveTarget, MaybeDoc
  <2>4. rev[active].applied # None => rev'[active].applied = rev[active].applied
    BY <1>17, <1>a, <2>3, MarkedPending DEF SavePending
  <2>5. JournalSound'
    BY <1>17, <1>c, <2>1, <2>2 DEF SavePending, JournalSound
  <2>6. JournalUndoes'
    BY <1>17, <1>c DEF Sound, SavePending, Clean, Doc, JournalUndoes
  <2>7. RestSteps'
    BY <1>17, <1>c, <2>1, <2>4
    DEF Sound, SavePending, At, Known, Clean, MirrorOwned, MirrorCurrent, StartedFrom, CoreOwned, Doc, RestSteps
  <2>8. SwitchSteps'
    BY <2>1, <2>2 DEF SwitchSteps
  <2>9. UndoSteps'
    BY <2>2 DEF UndoSteps
  <2>10. BootSteps'
    BY <2>1, <2>2 DEF BootSteps
  <2> QED
    BY <2>5, <2>6, <2>7, <2>8, <2>9, <2>10 DEF OneInv
<1>18. CASE SaveApply
  <2>1. op'.pc = "idle" /\ op'.kind = "none" /\ op'.doc = None
    BY <1>18, <1>i DEF SaveApply
  <2>2. active \in Profiles /\ Doc(active) \in MaybeDoc /\ Doc(active)[1] = active
    BY <1>18, <1>a, <1>k, DocType DEF SaveApply, At, SaveTarget, Saving, Doc
  <2>3. \/ core' \in {None, Doc(active)} /\ rev'[active].applied = Doc(active)
        \/ core' \in {core, None} /\ rev' = rev
    BY <1>18, <1>a, <2>2, Marked DEF SaveApply
  <2>4. JournalSound'
    BY <1>18, <1>c, <2>1 DEF SaveApply, ghosts, JournalSound
  <2>5. JournalUndoes'
    BY <1>18, <1>c DEF Sound, SaveApply, Clean, Doc, ghosts, JournalUndoes
  <2>6. RestSteps'
    <3>1. (mgr = "up" /\ op.kind \in {"none", "save"} /\ Known => CoreOwned)'
      BY <1>18, <1>c, <1>k, <2>2, <2>3
      DEF Sound, SaveApply, At, Known, StartedFrom, CoreOwned, Saving, ghosts, RestSteps
    <3>2. (mgr = "up" /\ op.kind \in {"none", "save"} /\ Known => MirrorOwned(active))'
      BY <1>18, <1>c, <1>k DEF Sound, SaveApply, At, Known, MirrorOwned, Saving, ghosts, RestSteps
    <3>3. (mgr = "up" /\ op.kind \in {"none", "save"} /\ Known /\ Clean /\ op.pc \notin {"saveMirror", "unsave", "unsaveMirror"}
          => MirrorCurrent(active))'
      BY <1>18, <1>c, <1>k DEF Sound, SaveApply, At, Known, Clean, MirrorCurrent, Doc, Saving, ghosts, RestSteps
    <3>4. (mgr = "down" /\ journal = None /\ Sound => MirrorGood(active))'
      BY <1>18, <1>a DEF SaveApply, At, PcOfKind, RestSteps
    <3> QED
      BY <3>1, <3>2, <3>3, <3>4 DEF RestSteps
  <2>7. SwitchSteps'
    BY <2>1 DEF SwitchSteps
  <2>8. UndoSteps'
    BY <2>1 DEF UndoSteps
  <2>9. BootSteps'
    BY <2>1 DEF BootSteps
  <2> QED
    BY <2>4, <2>5, <2>6, <2>7, <2>8, <2>9 DEF OneInv
<1>19. CASE Unsave
  <2>1. mgr = "up" /\ op.kind = "save"
    BY <1>19, <1>a, <1>k DEF Unsave, At, Saving, PcOfKind, TypeOK
  <2>2. \/ op'.pc = "unsaveMirror" /\ op'.kind = op.kind /\ op'.doc = op.doc /\ flaws' = flaws
        \/ op'.pc = "unsaveRev" /\ op'.kind = op.kind /\ op'.doc = op.doc /\ flaws' = flaws \union {"save"}
        \/ op'.pc = "idle" /\ op'.kind = "none" /\ op'.doc = None /\ flaws' = flaws \union {"save"}
    BY <1>19, <1>b, <1>i DEF Unsave, Goto, AfterUnsave, Ops
  <2>3. JournalSound'
    BY <1>19, <1>c, <2>1, <2>2 DEF Unsave, JournalSound
  <2>4. JournalUndoes'
    BY <1>19, <1>c, <2>1 DEF Sound, Unsave, Clean, JournalSound, JournalUndoes
  <2>5. RestSteps'
    BY <1>19, <1>c, <2>1, <2>2 DEF Sound, Unsave, Known, Clean, MirrorOwned, StartedFrom, CoreOwned, RestSteps
  <2>6. SwitchSteps'
    BY <2>1, <2>2 DEF SwitchSteps
  <2>7. UndoSteps'
    BY <2>2 DEF UndoSteps
  <2>8. BootSteps'
    BY <2>1, <2>2 DEF BootSteps
  <2> QED
    BY <2>3, <2>4, <2>5, <2>6, <2>7, <2>8 DEF OneInv
<1>20. CASE UnsaveMirror
  <2>1. mgr = "up" /\ op.kind = "save" /\ active \in Profiles
    BY <1>20, <1>a, <1>k DEF UnsaveMirror, At, Saving, PcOfKind, TypeOK, SaveTarget
  <2>2. \/ op'.pc = "unsaveRev" /\ op'.kind = op.kind /\ op'.doc = op.doc
        \/ op'.pc = "idle" /\ op'.kind = "none" /\ op'.doc = None
    BY <1>20, <1>b, <1>i DEF UnsaveMirror, AfterUnsave, Ops
  <2>3. JournalSound'
    BY <1>20, <1>c, <2>1, <2>2 DEF UnsaveMirror, JournalSound
  <2>4. JournalUndoes'
    BY <1>20, <1>b, <1>c, <1>p, <2>1 DEF Sound, UnsaveMirror, Engines, Clean, Engine, JournalSound, JournalUndoes
  <2>5. RestSteps'
    BY <1>20, <1>b, <1>c, <1>p, <2>1
    DEF Sound, UnsaveMirror, Engines, Known, Clean, OwnedBy, MirrorOwned, MirrorCurrent, StartedFrom, CoreOwned, Doc,
        Engine, RestSteps
  <2>6. SwitchSteps'
    BY <2>1, <2>2 DEF SwitchSteps
  <2>7. UndoSteps'
    BY <2>2 DEF UndoSteps
  <2>8. BootSteps'
    BY <2>1, <2>2 DEF BootSteps
  <2> QED
    BY <2>3, <2>4, <2>5, <2>6, <2>7, <2>8 DEF OneInv
<1>21. CASE UnsaveRevision
  <2>1. op'.pc = "idle" /\ op'.kind = "none" /\ op'.doc = None
    BY <1>21, <1>i DEF UnsaveRevision
  <2>2. JournalSound'
    BY <1>21, <1>c, <2>1 DEF UnsaveRevision, JournalSound
  <2>3. JournalUndoes'
    BY <1>21, <1>c DEF Sound, UnsaveRevision, Clean, Doc, JournalUndoes
  <2>4. RestSteps'
    BY <1>21, <1>c, <1>k
    DEF Sound, UnsaveRevision, At, Known, Clean, MirrorOwned, MirrorCurrent, MirrorGood, StartedFrom, CoreOwned, Doc,
        Saving, RestSteps
  <2>5. SwitchSteps'
    BY <2>1 DEF SwitchSteps
  <2>6. UndoSteps'
    BY <2>1 DEF UndoSteps
  <2>7. BootSteps'
    BY <2>1 DEF BootSteps
  <2> QED
    BY <2>2, <2>3, <2>4, <2>5, <2>6, <2>7 DEF OneInv
<1>22. CASE Boot
  <2>1. mgr = "down" /\ mgr' = "boot" /\ op.kind = "none" /\ op'.kind = "boot" /\ op'.doc = None
    BY <1>22, <1>a DEF Boot, PcOfKind, Idle
  <2>2. op'.pc = IF journal = None THEN "adopt" ELSE IF journal.phase = "committed" THEN "bootMirror" ELSE "undoRev"
    BY <1>22 DEF Boot, Idle
  <2>3. JournalSound'
    BY <1>22, <1>c DEF Boot, disk, ghosts, JournalSound
  <2>4. JournalUndoes'
    BY <1>22, <1>c DEF Sound, Boot, Clean, Doc, disk, ghosts, JournalUndoes
  <2>5. RestSteps'
    BY <2>1 DEF RestSteps
  <2>6. SwitchSteps'
    BY <2>1, <2>2 DEF SwitchSteps
  <2>7. UndoSteps'
    BY <2>2 DEF UndoSteps
  <2>8. BootSteps'
    BY <1>22, <1>c
    DEF Sound, Boot, Clean, MirrorOwned, MirrorCurrent, MirrorGood, Doc, Finishing, disk, ghosts, RestSteps, BootSteps
  <2> QED
    BY <2>3, <2>4, <2>5, <2>6, <2>7, <2>8 DEF OneInv
<1>23. CASE BootMirror
  <2>1. journal # None /\ journal.phase = "committed" /\ op.kind = "boot"
    BY <1>23, <1>a, <1>k DEF BootMirror, At, JournalOfStep
  <2>2. \/ /\ op'.pc = "bootActive" /\ op'.kind = op.kind /\ op'.doc = op.doc /\ mgr' = mgr
           /\ mirror' = [mirror EXCEPT ![Engine(journal.new)] = Doc(journal.new)]
        \/ op'.pc = "idle" /\ op'.kind = "none" /\ op'.doc = None /\ mgr' = "down" /\ mirror' = mirror
    BY <1>23, <1>b, <1>i, <2>1 DEF BootMirror, GiveUp, Booting, Ops
  <2>3. JournalSound'
    BY <1>23, <1>c, <2>1, <2>2 DEF BootMirror, JournalSound
  <2>4. JournalUndoes'
    BY <1>23, <2>1 DEF Sound, BootMirror, JournalUndoes
  <2>5. RestSteps'
    BY <1>23, <2>1, <2>2 DEF BootMirror, RestSteps
  <2>6. SwitchSteps'
    BY <2>1, <2>2 DEF SwitchSteps
  <2>7. UndoSteps'
    BY <2>2 DEF UndoSteps
  <2>8. BootSteps'
    BY <1>23, <1>b, <2>2 DEF BootMirror, Engines, Doc, Engine, Finishing, BootSteps
  <2> QED
    BY <2>3, <2>4, <2>5, <2>6, <2>7, <2>8 DEF OneInv
<1>24. CASE BootActive
  <2>1. journal # None /\ journal.phase = "committed" /\ op.kind = "boot"
    BY <1>24, <1>a, <1>k DEF BootActive, At, JournalOfStep
  <2>2. \/ /\ op'.pc = "adopt" /\ op'.kind = op.kind /\ op'.doc = op.doc /\ mgr' = mgr
           /\ active' = journal.new /\ mirror' = mirror
        \/ op'.pc = "idle" /\ op'.kind = "none" /\ op'.doc = None /\ mgr' = "down" /\ active' = active
    BY <1>24, <1>b, <1>i, <2>1, GotoStep DEF BootActive, GiveUp, Booting, Pcs
  <2>3. JournalSound'
    BY <1>24, <1>c, <2>1, <2>2 DEF BootActive, JournalSound
  <2>4. JournalUndoes'
    BY <1>24, <2>1 DEF Sound, BootActive, JournalUndoes
  <2>5. RestSteps'
    BY <1>24, <2>1, <2>2 DEF BootActive, RestSteps
  <2>6. SwitchSteps'
    BY <2>1, <2>2 DEF SwitchSteps
  <2>7. UndoSteps'
    BY <2>2 DEF UndoSteps
  <2>8. BootSteps'
    BY <1>24, <1>c, <1>j, <1>p, <2>1, <2>2
    DEF Sound, BootActive, At, OwnedBy, MirrorOwned, MirrorCurrent, MirrorGood, Doc, Engine, Recovered, Finishing,
        BootSteps
  <2> QED
    BY <2>3, <2>4, <2>5, <2>6, <2>7, <2>8 DEF OneInv
<1>25. CASE Adopt
  <2>1. op.kind = "boot" /\ mgr = "boot" /\ active # None
    BY <1>25, <1>a, <1>b, <1>k, NoneAssumption DEF Adopt, At, PcOfKind, MaybeProfile
  <2>2. \/ /\ journal = None /\ op'.pc = "idle" /\ op'.kind = "none" /\ op'.doc = None /\ mgr' = "up"
           /\ told' # None
        \/ /\ journal # None /\ op'.kind = op.kind /\ op'.doc = op.doc /\ mgr' = mgr /\ told' = told
           /\ op'.pc = IF journal.phase = "committed" THEN "publish" ELSE "unjournal"
    BY <1>25, <1>b, <1>i, <2>1, GotoStep DEF Adopt, AfterAdoption, BootDone, Pcs
  <2>3. core' # None => core' = core /\ core = Expected
    BY <1>25 DEF Adopt
  <2>4. active \in Profiles /\ core' # None => rev'[active].applied = core'
    <3>1. ASSUME active \in Profiles, core' # None PROVE rev' = MarkApplied(active, core) /\ core' = core
      BY <1>25, <2>3, <3>1 DEF Adopt
    <3> QED
      BY <1>a, <1>b, <3>1, Marked
  <2>5. core' # None /\ (journal # None => Sound) => core'[1] = active
    BY <1>25, <1>c, <1>j, <2>3 DEF Sound, Adopt, At, Expected, Doc, JournalSound, JournalUndoes, BootSteps, Recovered
  <2>6. JournalSound'
    BY <1>25, <1>c, <2>1, <2>2 DEF Adopt, JournalSound
  <2>7. JournalUndoes'
    BY <1>25, <1>c DEF Sound, Adopt, Clean, Doc, JournalUndoes
  <2>8. RestSteps'
    BY <1>25, <1>c, <1>k, <2>4, <2>5
    DEF Sound, Adopt, At, Known, Clean, MirrorOwned, MirrorCurrent, MirrorGood, StartedFrom, CoreOwned, Doc, RestSteps,
        BootSteps
  <2>9. SwitchSteps'
    BY <2>1, <2>2 DEF SwitchSteps
  <2>10. UndoSteps'
    BY <2>2 DEF UndoSteps
  <2>11. BootSteps'
    BY <1>25, <1>c, <2>2, <2>4, <2>5
    DEF Sound, Adopt, At, Clean, MirrorOwned, MirrorCurrent, MirrorGood, StartedFrom, CoreOwned, Doc, BootSteps
  <2> QED
    BY <2>6, <2>7, <2>8, <2>9, <2>10, <2>11 DEF OneInv
<1>26. CASE AdoptFails
  <2>1. op.kind = "boot" /\ mgr = "boot" /\ active # None /\ core' = None
    BY <1>26, <1>a, <1>b, <1>k, NoneAssumption DEF AdoptFails, At, PcOfKind, MaybeProfile
  <2>2. op'.pc = "idle" /\ op'.kind = "none" /\ op'.doc = None
    BY <1>26, <1>i DEF AdoptFails, BootDone, GiveUp
  <2>3. \/ journal = None /\ mgr' = "up" /\ told' # None
        \/ journal # None /\ mgr' = "down" /\ told' = told
    BY <1>26, <2>1 DEF AdoptFails, BootDone, GiveUp, Booting
  <2>4. JournalSound'
    BY <1>26, <1>c, <2>2, <2>3 DEF AdoptFails, disk, JournalSound
  <2>5. JournalUndoes'
    BY <1>26, <1>c DEF Sound, AdoptFails, Clean, Doc, disk, JournalUndoes
  <2>6. RestSteps'
    BY <1>26, <1>c, <1>k
    DEF Sound, AdoptFails, At, Known, Clean, MirrorOwned, MirrorCurrent, MirrorGood, StartedFrom, CoreOwned, Doc, disk,
        RestSteps, BootSteps
  <2>7. SwitchSteps'
    BY <2>2 DEF SwitchSteps
  <2>8. UndoSteps'
    BY <2>2 DEF UndoSteps
  <2>9. BootSteps'
    BY <2>2 DEF BootSteps
  <2> QED
    BY <2>4, <2>5, <2>6, <2>7, <2>8, <2>9 DEF OneInv
<1>27. CASE StartCore
  <2>1. op' = op /\ core' = Source /\ Source # None /\ Source \in MaybeDoc
    BY <1>27, <1>a, SourceType DEF StartCore
  <2>2. op.kind \in {"none", "save"} \/ op.pc \in {"swap", "publish", "unjournal"}
    BY <1>27, <1>k DEF StartCore, OpMuFree, At
  <2>3. op.kind # "boot"
    BY <1>27, <1>a DEF StartCore, PcOfKind
  <2>4. Known => Source[1] = active
    <3>1. CASE op.kind \in {"none", "save"}
      BY <1>27, <1>a, <1>c, <2>1, <3>1, SourceOwned DEF StartCore, RestSteps
    <3>2. CASE op.pc = "swap"
      BY <1>a, <1>c, <2>1, <3>2, SourceOwned DEF SwitchSteps, MirrorGood
    <3>3. CASE op.pc \in Finishing
      <4>1. op.kind = "switch"
        BY <1>k, <2>3, <3>3
      <4>2. Known => MirrorOwned(active)
        BY <1>c, <3>3, <4>1 DEF SwitchSteps, MirrorGood, Finishing
      <4> QED
        BY <1>a, <2>1, <4>2, SourceOwned
    <3> QED
      BY <2>2, <3>1, <3>2, <3>3 DEF Finishing
  <2>5. active \in Profiles /\ "record" \notin flaws' => rev'[active].applied = Source
    BY <1>27, <1>a, <1>p, <2>1, Marked DEF StartCore
  <2>6. JournalSound'
    BY <1>27, <1>c DEF StartCore, Doc, JournalSound
  <2>7. JournalUndoes'
    BY <1>27, <1>c DEF Sound, StartCore, Clean, Doc, JournalUndoes
  <2>8. RestSteps'
    <3>1. (mgr = "up" /\ op.kind \in {"none", "save"} /\ Known => CoreOwned)'
      BY <1>27, <2>4, <2>5 DEF Sound, StartCore, Known, StartedFrom, CoreOwned, RestSteps
    <3>2. (mgr = "up" /\ op.kind \in {"none", "save"} /\ Known => MirrorOwned(active))'
      BY <1>27, <1>c DEF Sound, StartCore, Known, MirrorOwned, RestSteps
    <3>3. (mgr = "up" /\ op.kind \in {"none", "save"} /\ Known /\ Clean /\ op.pc \notin {"saveMirror", "unsave", "unsaveMirror"}
          => MirrorCurrent(active))'
      BY <1>27, <1>c DEF Sound, StartCore, Known, Clean, MirrorCurrent, Doc, RestSteps
    <3>4. (mgr = "down" /\ journal = None /\ Sound => MirrorGood(active))'
      BY <1>27 DEF StartCore, RestSteps
    <3> QED
      BY <3>1, <3>2, <3>3, <3>4 DEF RestSteps
  <2>9. SwitchSteps'
    <3>1. (op.pc = "swap" => op.doc = None)'
      BY <1>c, <2>1 DEF SwitchSteps
    <3>2. (op.pc \in {"swap", "start", "mirror", "swapBack"} /\ Known => MirrorGood(active))'
      BY <1>27, <1>c DEF Sound, StartCore, Known, Clean, MirrorOwned, MirrorCurrent, MirrorGood, Doc, SwitchSteps
    <3>3. (op.pc = "swap" /\ Known => CoreOwned)'
      BY <1>27, <2>4, <2>5 DEF Sound, StartCore, Known, StartedFrom, CoreOwned, SwitchSteps
    <3>4. (op.pc \in PreCommit \union Undoing \union {"swapBack"} /\ op.kind = "switch" /\ Known
          => StartedFrom(op.doc, journal.old))'
      BY <1>c, <2>1, <2>2 DEF StartedFrom, PreCommit, Undoing, SwitchSteps
    <3>5. (op.pc \in {"mirror", "active", "applied", "commit"} => core \in {None, journal.newRev})'
      BY <1>k, <2>1, <2>2 DEF PreCommit, SwitchSteps
    <3>6. (op.pc \in {"active", "applied", "commit"} /\ "unnamed" \notin flaws
          => mirror[Engine(journal.new)] = Doc(journal.new))'
      BY <1>k, <2>1, <2>2 DEF PreCommit, SwitchSteps
    <3>7. (op.pc = "commit" => rev[journal.new].applied = journal.newRev)'
      BY <1>k, <2>1, <2>2 DEF PreCommit, SwitchSteps
    <3>8. (op.pc \in Finishing /\ op.kind = "switch" =>
           told # None /\ active = journal.new /\ (Known => CoreOwned /\ MirrorGood(active)))'
      BY <1>27, <1>c, <2>4, <2>5
      DEF Sound, StartCore, Known, Clean, MirrorGood, MirrorOwned, MirrorCurrent, OwnedBy, StartedFrom, CoreOwned, Doc,
          SwitchSteps
    <3> QED
      BY <3>1, <3>2, <3>3, <3>4, <3>5, <3>6, <3>7, <3>8 DEF SwitchSteps
  <2>10. UndoSteps'
    BY <1>k, <2>1, <2>2 DEF Undoing, UndoSteps
  <2>11. BootSteps'
    BY <1>k, <2>1, <2>3 DEF BootSteps
  <2> QED
    BY <2>6, <2>7, <2>8, <2>9, <2>10, <2>11 DEF OneInv
<1>28. CASE CoreGone
  <2>1. JournalSound'
    BY <1>28, <1>c DEF CoreGone, Doc, disk, ghosts, JournalSound
  <2>2. JournalUndoes'
    BY <1>28, <1>c DEF Sound, CoreGone, Clean, Doc, disk, ghosts, JournalUndoes
  <2>3. RestSteps'
    BY <1>28, <1>c
    DEF Sound, CoreGone, Known, Clean, MirrorOwned, MirrorCurrent, MirrorGood, StartedFrom, CoreOwned, Doc, disk,
        ghosts, RestSteps
  <2>4. SwitchSteps'
    BY <1>28, <1>c
    DEF Sound, CoreGone, Known, Clean, MirrorOwned, MirrorCurrent, MirrorGood, StartedFrom, CoreOwned, Doc, disk,
        ghosts, SwitchSteps
  <2>5. UndoSteps'
    BY <1>28, <1>c DEF CoreGone, Undone, Booting, Doc, Sound, OwnedBy, disk, ghosts, UndoSteps
  <2>6. BootSteps'
    BY <1>28, <1>c
    DEF Sound, CoreGone, Clean, MirrorOwned, MirrorCurrent, MirrorGood, StartedFrom, CoreOwned, Doc, Recovered, disk,
        ghosts, BootSteps
  <2> QED
    BY <2>1, <2>2, <2>3, <2>4, <2>5, <2>6 DEF OneInv
<1>29. CASE ManagerDies
  <2>1. op'.pc = "idle" /\ op'.kind = "none" /\ op'.doc = None
    BY <1>29, <1>i DEF ManagerDies
  <2>2. JournalSound'
    BY <1>29, <1>a, <1>c, <2>1 DEF ManagerDies, Finishing, disk, PcOfKind, JournalOfStep, JournalSound
  <2>3. JournalUndoes'
    BY <1>29, <1>c DEF Sound, ManagerDies, Clean, Doc, disk, JournalUndoes
  <2>4. RestSteps'
    <3> SUFFICES ASSUME journal = None, Sound PROVE MirrorGood(active)'
      BY <1>29, <2>1 DEF ManagerDies, Sound, disk, RestSteps
    <3>1. told # None
      BY <1>c DEF JournalSound
    <3>2. UNCHANGED <<content, active, mirror>> /\ flaws \subseteq flaws'
      BY <1>29 DEF ManagerDies, disk
    <3>3. op.kind \in {"none", "save", "boot"}
      BY <1>a, <1>b, OpFields DEF PcOfKind, JournalOfStep, PreCommit, Undoing, Finishing, Kinds
    <3>4. CASE op.kind = "none"
      <4>1. mgr = "up" /\ op.pc = "idle"
        BY <1>29, <1>a, <1>k, <3>4 DEF ManagerDies, PcOfKind, TypeOK
      <4> QED
        BY <1>c, <3>1, <3>2, <3>4, <4>1 DEF Sound, RestSteps, MirrorGood, MirrorOwned, MirrorCurrent, OwnedBy, Clean,
            Known, Doc
    <3>5. CASE op.kind = "save"
      <4>1. mgr = "up" /\ "save" \in flaws'
        BY <1>29, <1>a, <3>5 DEF ManagerDies, PcOfKind, TypeOK
      <4> QED
        BY <1>c, <3>1, <3>2, <3>5, <4>1 DEF Sound, RestSteps, MirrorGood, MirrorOwned, MirrorCurrent, OwnedBy, Clean,
            Known, Doc
    <3>6. CASE op.kind = "boot"
      <4>1. op.pc = "adopt"
        BY <1>a, <3>6 DEF PcOfKind, JournalOfStep, PreCommit, Undoing, Finishing
      <4> QED
        BY <1>c, <3>2, <3>6, <4>1 DEF Sound, BootSteps, MirrorGood, MirrorOwned, MirrorCurrent, OwnedBy, Clean, Doc
    <3> QED
      BY <3>3, <3>4, <3>5, <3>6
  <2>5. SwitchSteps'
    BY <2>1 DEF SwitchSteps
  <2>6. UndoSteps'
    BY <2>1 DEF UndoSteps
  <2>7. BootSteps'
    BY <2>1 DEF BootSteps
  <2> QED
    BY <2>2, <2>3, <2>4, <2>5, <2>6, <2>7 DEF OneInv
<1>30. CASE UNCHANGED vars
  BY <1>30, <1>c DEF Sound, vars, OneInv, At, Engines, Known, Clean, OwnedBy, MirrorOwned, MirrorCurrent, MirrorGood,
      StartedFrom, CoreOwned, Undone, Booting, Doc, Engine, Recovered, PreCommit, Undoing, Finishing, Saving,
      disk, ghosts, JournalSound, JournalUndoes, RestSteps, SwitchSteps, UndoSteps, BootSteps
<1>31. CASE Finalize
  <2>1. mgr = "up" /\ op.pc = "idle" /\ op.kind = "none"
    BY <1>31, <1>i DEF Finalize, Ready
  <2>2. op'.kind = "switch" /\ op'.pc = "publish" /\ op'.doc = None
    BY <1>31, <1>i DEF Finalize, Idle
  <2>3. UNCHANGED <<mgr, content, active, mirror, rev, journal, core, told, flaws>>
    BY <1>31 DEF Finalize, disk, ghosts
  <2>4. journal # None /\ journal.phase = "committed" /\ journal.new = active /\ told # None
    BY <1>31, <1>c, <2>1 DEF Finalize, JournalSound
  <2>5. JournalSound'
    BY <1>c, <2>1, <2>2, <2>3, <2>4 DEF JournalSound, Finishing
  <2>6. JournalUndoes' /\ RestSteps'
    BY <2>1, <2>2, <2>3, <2>4 DEF JournalUndoes, RestSteps
  <2>7. CoreOwned' <=> CoreOwned
    BY <2>3 DEF CoreOwned, StartedFrom
  <2>8. MirrorGood(active)' <=> MirrorGood(active)
    BY <2>3 DEF MirrorGood, MirrorOwned, MirrorCurrent, OwnedBy, Clean, Doc
  <2>9. SwitchSteps'
    BY <1>c, <2>1, <2>2, <2>3, <2>4, <2>7, <2>8
    DEF SwitchSteps, RestSteps, MirrorGood, Known, Sound, PreCommit, Undoing, Finishing
  <2>10. UndoSteps' /\ BootSteps'
    BY <2>2 DEF UndoSteps, BootSteps
  <2> QED
    BY <2>5, <2>6, <2>9, <2>10 DEF OneInv
<1>32. CASE SaveUnnamed
  <2>1. PICK v \in Versions : mirror' = [mirror EXCEPT !["mihomo"] = <<NoProfile, v>>]
    BY <1>32 DEF SaveUnnamed
  <2>2. UNCHANGED <<mgr, op, content, active, rev, journal, core, told>> /\ mgr = "up" /\ flaws \subseteq flaws'
    BY <1>32 DEF SaveUnnamed
  <2>3. op.kind = "switch" => "unnamed" \in flaws' /\ ~Sound'
    BY <1>32 DEF SaveUnnamed, Sound
  <2>4. op.kind # "switch" => active = NoProfile /\ (journal # None => "late" \in flaws' /\ ~Clean')
    BY <1>32 DEF SaveUnnamed, Clean
  <2>5. OwnedBy(NoProfile, mirror'["mihomo"])
    BY <1>b, <2>1, NoneAssumption DEF OwnedBy, Engines, MaybeProfile
  <2>6. JournalSound'
    BY <1>c, <2>2 DEF JournalSound, Doc
  <2>7. JournalUndoes'
    BY <1>c, <2>2, <2>5 DEF JournalUndoes, Sound, Clean, OwnedBy, Doc
  <2>8. op.kind \notin {"switch", "boot"} => active = NoProfile /\ op.kind # "save"
    BY <1>a, <1>p, <2>4 DEF SaveTarget
  <2>9. op.kind # "boot"
    BY <1>a, <2>2 DEF PcOfKind
  <2>10. RestSteps'
    BY <1>c, <2>2, <2>5, <2>8
    DEF RestSteps, Known, Sound, Clean, CoreOwned, StartedFrom, MirrorOwned, MirrorCurrent, OwnedBy
  <2>11. SwitchSteps'
    BY <1>c, <1>k, <2>2, <2>3 DEF SwitchSteps, Known, PreCommit, Undoing, Finishing
  <2>12. UndoSteps'
    <3>1. op.kind = "switch" /\ journal # None => journal.old = NoProfile
      BY <1>32, <1>c, <1>j, <1>p DEF SaveUnnamed, JournalSound
    <3>2. op.pc \in Undoing => op.kind = "switch" /\ journal # None
      BY <1>a, <1>k, <2>9 DEF JournalOfStep
    <3> QED
      BY <2>2, <2>3, <3>1, <3>2 DEF UndoSteps, Undoing
  <2>13. BootSteps'
    BY <1>k, <2>2, <2>9 DEF BootSteps, Finishing
  <2> QED
    BY <2>6, <2>7, <2>10, <2>11, <2>12, <2>13 DEF OneInv
<1> QED
  BY <1>1, <1>2, <1>3, <1>4, <1>5, <1>6, <1>7, <1>8, <1>9, <1>10, <1>11, <1>12, <1>13, <1>14, <1>15, <1>16,
      <1>17, <1>18, <1>19, <1>20, <1>21, <1>22, <1>23, <1>24, <1>25, <1>26, <1>27, <1>28, <1>29, <1>30,
      <1>31, <1>32
  DEF Next, SwitchStep, SaveStep, BootStep, Lifecycle

-----------------------------------------------------------------------------
\* Mirror, core and the status shown belong to one selection and one document
\* at rest, whichever write of a switch, of its undo, of a boot or of a save
\* failed or was cut short.
THEOREM OneSelectionHolds == Spec => []OneSelection
<1>1. SelInv /\ OneInv => OneSelection
  <2> SUFFICES ASSUME SelInv, OneInv, Settled PROVE OneSelection
    BY DEF OneSelection, MirrorMatches, CoreOfSelection, PendingShown
  <2>1. /\ mgr = "up" /\ op.kind = "none" /\ op.pc = "idle" /\ Known /\ active \in MaybeProfile
        /\ rev \in [Profiles -> Revision]
    BY DEF Sound, Settled, Ready, Idle, Known, SelInv, TypeOK
  <2>2. CoreOwned /\ MirrorOwned(active) /\ (Clean => MirrorCurrent(active))
    BY <2>1 DEF OneInv, RestSteps
  <2>3. MirrorMatches
    BY <2>1, <2>2, ProfilesAssumption
    DEF MirrorMatches, MirrorOfSelection, Clean, MirrorOwned, MirrorCurrent, OwnedBy
  <2>4. CoreOfSelection
    BY <2>2 DEF CoreOfSelection, CoreOwned, StartedFrom
  <2>5. PendingShown
    BY <2>1, <2>2 DEF PendingShown, Shown, CoreOwned, StartedFrom, MaybeProfile
  <2> QED
    BY <2>3, <2>4, <2>5 DEF OneSelection
<1>2. SelInv /\ OneInv /\ [Next]_vars => OneInv'
  BY OneStep
<1>3. QED
  BY InductiveSelection, OneInit, <1>1, <1>2, PTL DEF Spec
=============================================================================
