--------------------------- MODULE ProcessProofs ----------------------------
(***************************************************************************)
(* Theorems about the processes the manager starts and is replaced by:     *)
(* Supervisor for every number of pids, runtimes and drivers, and          *)
(* ManagerUpdate for every set of versions and every bound.                *)
(***************************************************************************)
EXTENDS Supervisor, ManagerUpdate, FiniteSetTheorems, TLAPS

(***************************************************************************)
(* Supervisor: never two cores, a core the next manager can always adopt,  *)
(* and no signal to a process of somebody else.                            *)
(***************************************************************************)

-----------------------------------------------------------------------------
(* The inductive invariant, part by part.                                  *)

\* Start times are unique; what is nobody's child and not ours stays alive.
Table ==
    /\ \A p \in Pids : procs[p].st # "free" => procs[p].id \in 1 .. ticks
    /\ \A p, q \in Pids : procs[p].st # "free" /\ procs[q].st # "free" /\ procs[p].id = procs[q].id => p = q
    /\ \A p \in Pids : procs[p].st = "free" => procs[p].gen # "foreign"
    /\ \A p \in Pids : procs[p].gen = "foreign" => procs[p].st = "alive" /\ ~procs[p].child

\* A remembered process, if it still exists, is a core of ours where it is remembered.
OursIfThere(o) ==
    /\ o.id <= ticks
    /\ \A p \in Pids : procs[p].st # "free" /\ procs[p].id = o.id => p = o.pid /\ procs[p].gen \in Gens

Remembered ==
    /\ OursIfThere(record)
    /\ \A e \in Engines : OursIfThere(sup[e])
    /\ OursIfThere(call.own)
    /\ \A w \in waiters : OursIfThere(w.own)

\* Without a manager nothing is remembered but the record.
DownIsBlank == ~up => waiters = {} /\ call = NoCall /\ host = NoEngine /\ \A e \in Engines : sup[e] = NoSup

\* What a serving manager owns it owns through the host's driver, or through
\* the one that starts it; a core it does not own has lost its record.
Held == call.pc \in {"identify", "record"}
SupOfHost ==
    \A e \in Engines : sup[e] # NoSup => sup[e].pid \in Pids /\ e = (IF Held THEN call.eng ELSE host)
SupOwnsCore ==
    up => \A p \in Cores : procs[p].id \in lost \/ InStart(p) \/
             (host \in Engines /\ sup[host].pid = p /\ sup[host].id = procs[p].id)

\* A start in progress has a child nobody else knows of, and that it has not reaped.
StartCall ==
    call.pc \in Starting =>
       /\ host = NoEngine /\ call.eng \in Engines
       /\ call.own.pid \in Pids /\ call.own.id # 0 /\ call.own.child /\ call.own.gen \in Gens /\ call.own.gen \in files
       /\ Held => sup[call.eng] = call.own
       /\ call.pc # "unrecord" => Exists(call.own) /\ procs[call.own.pid].child /\ procs[call.own.pid].gen = call.own.gen
       /\ call.pc = "unrecord" => ~Exists(call.own)
       /\ record.id = call.own.id => record = AsRecord(call.own)
       /\ \A w \in waiters : w.own.id # call.own.id /\ w.own.gen # call.own.gen

\* A stop or reload works on what the supervisor holds, or held until a waiter cleared it.
CallOfHost ==
    call.pc \in Stopping \union {"reload"} =>
       /\ call.eng = host /\ host \in Engines
       /\ sup[host] # NoSup => /\ sup[host].pid = call.own.pid /\ sup[host].id = call.own.id
                               /\ sup[host].child = call.own.child

\* Nobody but the process names the runtime a reload brings.
ReloadCall ==
    call.pc = "reload" =>
       /\ call.own.gen \in Gens /\ call.own.gen \in files /\ record.gen # call.own.gen
       /\ Exists(call.own) => procs[call.own.pid].gen = call.own.gen
       /\ \A e \in Engines : sup[e].gen # call.own.gen
       /\ \A w \in waiters : w.own.gen # call.own.gen

\* A runtime that is recorded is remembered for the recorded process only.
Apart(o) == o.gen = record.gen /\ o.gen # NoGen => o.id = record.id
RuntimesApart == (\A e \in Engines : Apart(sup[e])) /\ (\A w \in waiters : Apart(w.own))

\* A waiter that has not cleared the supervisor yet waits for what it holds.
Holds(w) == Owned(w) /\ sup[w.eng].child = w.own.child

\* A child has a goroutine waiting for it until the supervisor lets go of it.
ChildWaited ==
    \A e \in Engines : sup[e] # NoSup /\ sup[e].child /\ ~Locked(e)
        => \E w \in waiters :
              /\ w.eng = e /\ w.own.child /\ w.own.id = sup[e].id /\ w.own.pid = sup[e].pid
              /\ w.pc \in {"wait", "lock"}

OneWaiter == \A v, w \in waiters : v.own.id = w.own.id => v = w

WaiterAtStep ==
    \A w \in waiters :
       /\ w.own.pid \in Pids
       /\ w.pc = "wait" => Exists(w.own) /\ procs[w.own.pid].child /\ Holds(w)
       /\ w.pc # "wait" => ~Exists(w.own)
       /\ w.pc = "lock" /\ w.own.child => Holds(w)

SupInv ==
    /\ SupTypeOK /\ Table /\ Remembered /\ DownIsBlank /\ SupOfHost /\ SupOwnsCore /\ StartCall /\ CallOfHost
    /\ ReloadCall /\ RuntimesApart /\ ChildWaited /\ OneWaiter /\ WaiterAtStep /\ Adoptable

-----------------------------------------------------------------------------
(* Types.                                                                  *)

LEMMA BlankTypes ==
    /\ NoRecord \in Records /\ NoSup \in Owners /\ FreeProc \in Procs /\ 0 \in Ids
    /\ NoCall \in Calls
BY SupBoundAssumption
   DEF NoRecord, NoSup, FreeProc, NoCall, Records, Owners, Procs, Calls, Ids

\* The next start time is one.
LEMMA NextTick ==
    ASSUME SupTypeOK, ticks < MaxStarts
    PROVE  ticks + 1 \in Ids /\ ticks \in Nat
BY SupBoundAssumption DEF SupTypeOK, Ids

LEMMA ExitType ==
    ASSUME procs \in [Pids -> Procs], NEW p \in Pids
    PROVE  /\ Exit(p, procs) \in [Pids -> Procs]
           /\ \A q \in Pids : q # p => Exit(p, procs)[q] = procs[q]
           /\ procs[p].child => /\ Exit(p, procs)[p].st = "zombie" /\ Exit(p, procs)[p].child
                                /\ Exit(p, procs)[p].id = procs[p].id
                                /\ Exit(p, procs)[p].gen = procs[p].gen
           /\ ~procs[p].child => Exit(p, procs)[p] = FreeProc
<1>1. procs[p] \in Procs
  OBVIOUS
<1>2. [procs[p] EXCEPT !.st = "zombie"] \in Procs
  BY <1>1 DEF Procs
<1>3. Exit(p, procs) = [procs EXCEPT ![p] = IF procs[p].child THEN [procs[p] EXCEPT !.st = "zombie"] ELSE FreeProc]
  BY DEF Exit
<1>4. QED
  BY <1>1, <1>2, <1>3, BlankTypes DEF Procs

\* A waiter one step further.
LEMMA WaiterFields ==
    ASSUME NEW w \in Waiters, NEW pc \in {"wait", "lock", "record", "files"}
    PROVE  /\ w.eng \in Engines /\ w.own \in Owners /\ w.pc \in {"wait", "lock", "record", "files"}
           /\ [w EXCEPT !.pc = pc] = [eng |-> w.eng, own |-> w.own, pc |-> pc]
           /\ [w EXCEPT !.pc = pc] \in Waiters
BY DEF Waiters

LEMMA CleaningFields ==
    ASSUME NEW w \in Waiters, NEW g \in Gens \union {NoGen}
    PROVE  /\ Cleaning(w, g) \in Waiters
           /\ Cleaning(w, g).eng = w.eng /\ Cleaning(w, g).pc = "record"
           /\ Cleaning(w, g).own.pid = w.own.pid /\ Cleaning(w, g).own.id = w.own.id
           /\ Cleaning(w, g).own.child = w.own.child
<1>1. w.own \in Owners /\ w.eng \in Engines
  BY DEF Waiters
<1>2. /\ [w.own EXCEPT !.gen = g] \in Owners
      /\ [w.own EXCEPT !.gen = g].pid = w.own.pid
      /\ [w.own EXCEPT !.gen = g].id = w.own.id
      /\ [w.own EXCEPT !.gen = g].child = w.own.child
  BY <1>1 DEF Owners
<1>3. QED
  BY <1>1, <1>2 DEF Cleaning, Waiters

\* The call of a stop one step further.
LEMMA CallFields ==
    ASSUME call \in Calls, NEW pc \in {"none", "reload"} \union Starting \union Stopping
    PROVE  /\ call.eng \in Engines \union {NoEngine} /\ call.own \in Owners
           /\ [call EXCEPT !.pc = pc] = [pc |-> pc, eng |-> call.eng, own |-> call.own]
           /\ [call EXCEPT !.pc = pc] \in Calls
BY DEF Calls

LEMMA StartTypes ==
    ASSUME SupInv, StartStep
    PROVE  SupTypeOK'
<1> USE BlankTypes, SupEngineAssumption
<1>0. /\ procs \in [Pids -> Procs] /\ ticks \in Ids /\ record \in Records /\ files \subseteq Gens
      /\ sup \in [Engines -> Owners] /\ host \in Engines \union {NoEngine} /\ up \in BOOLEAN
      /\ call \in Calls /\ waiters \subseteq Waiters /\ lost \subseteq Ids /\ parted \subseteq Ids
      /\ call.own \in Owners /\ call.eng \in Engines \union {NoEngine} /\ record.id \in Ids
  BY CallFields DEF SupInv, SupTypeOK, Records, Calls
<1>1. ASSUME NEW g \in Gens, NEW p \in Pids, Spawn(g, p) PROVE SupTypeOK'
  <2> DEFINE own == [pid |-> p, id |-> ticks + 1, gen |-> g, child |-> TRUE]
  <2>1. ticks + 1 \in Ids /\ EngineOf[g] \in Engines
    BY <1>1, NextTick DEF Spawn, SupInv
  <2>2. own \in Owners /\ [id |-> ticks + 1, gen |-> g, child |-> TRUE, st |-> "alive"] \in Procs
    BY <2>1 DEF Owners, Procs
  <2>3. call' \in Calls /\ procs' \in [Pids -> Procs] /\ sup' \in [Engines -> Owners]
    BY <1>0, <1>1, <2>1, <2>2 DEF Spawn, Calls, Starting
  <2>4. QED
    BY <1>0, <1>1, <2>1, <2>3 DEF SupTypeOK, Spawn, histVars
<1>2. CASE Identify \/ IdentifyFails
  <2>1. {"record", "unnamed"} \subseteq Starting
    BY DEF Starting
  <2>2. [call EXCEPT !.pc = "record"] \in Calls /\ [call EXCEPT !.pc = "unnamed"] \in Calls
    BY <1>0, <2>1, CallFields
  <2>3. call' \in Calls
    BY <1>2, <2>2 DEF Identify, IdentifyFails
  <2>4. QED
    BY <1>0, <1>2, <2>3 DEF Identify, IdentifyFails, SupTypeOK, histVars
<1>3. AsRecord(call.own) \in Records
  BY <1>0 DEF AsRecord, Owners, Records
<1>4. CASE WriteRecord
  <2>0. call.eng \in Engines
    BY <1>4 DEF WriteRecord, SupInv, StartCall, Starting
  <2>1. waiters' \subseteq Waiters /\ host' \in Engines \union {NoEngine}
    BY <1>0, <1>4, <2>0 DEF WriteRecord, Waiters
  <2>2. QED
    BY <1>0, <1>3, <1>4, <2>1 DEF WriteRecord, SupTypeOK, histVars
<1>5. CASE WriteFails
  <2>1. call' \in Calls
    BY <1>0, <1>5, CallFields DEF WriteFails, Starting
  <2>2. QED
    BY <1>0, <1>3, <1>5, <2>1 DEF WriteFails, SupTypeOK, histVars
<1>6. CASE KillChild
  <2>1. call' \in Calls /\ files' \subseteq Gens
    BY <1>0, <1>6, CallFields DEF KillChild, Starting
  <2>2. QED
    BY <1>0, <1>6, <2>1 DEF KillChild, SupTypeOK, histVars
<1>7. CASE UnrecordChild
  BY <1>0, <1>7 DEF UnrecordChild, Unrecord, SupTypeOK
<1>8. QED
  BY <1>1, <1>2, <1>4, <1>5, <1>6, <1>7 DEF StartStep

LEMMA ReloadTypes ==
    ASSUME SupInv, ReloadStep
    PROVE  SupTypeOK'
<1> USE BlankTypes, SupEngineAssumption
<1>0. /\ procs \in [Pids -> Procs] /\ ticks \in Ids /\ record \in Records /\ files \subseteq Gens
      /\ sup \in [Engines -> Owners] /\ host \in Engines \union {NoEngine} /\ up \in BOOLEAN
      /\ call \in Calls /\ waiters \subseteq Waiters /\ lost \subseteq Ids /\ parted \subseteq Ids
      /\ call.own \in Owners /\ call.eng \in Engines \union {NoEngine}
  BY CallFields DEF SupInv, SupTypeOK
<1>1. \A o \in Owners, g \in Gens \union {NoGen} :
         /\ [o EXCEPT !.gen = g] \in Owners /\ AsRecord([o EXCEPT !.gen = g]) \in Records
         /\ o.id \in Ids
  BY DEF Owners, AsRecord, Records
<1>2. ASSUME NEW g \in Gens, ReloadAccepted(g) PROVE SupTypeOK'
  <2> DEFINE e == EngineOf[g]
  <2>1. e \in Engines /\ sup[e] \in Owners /\ sup[e].pid \in Pids /\ procs[sup[e].pid] \in Procs
    BY <1>0, <1>2 DEF ReloadAccepted, Executing
  <2>2. [procs[sup[e].pid] EXCEPT !.gen = g] \in Procs
    BY <2>1 DEF Procs
  <2>3. procs' = [procs EXCEPT ![sup[e].pid] = [procs[sup[e].pid] EXCEPT !.gen = g]]
    BY <1>0, <1>2, <2>1 DEF ReloadAccepted
  <2>4. call' \in Calls
    BY <1>1, <1>2, <2>1 DEF ReloadAccepted, Calls
  <2>5. procs' \in [Pids -> Procs]
    BY <1>0, <2>2, <2>3
  <2>6. QED
    BY <1>0, <1>1, <1>2, <2>1, <2>4, <2>5 DEF SupTypeOK, ReloadAccepted
<1>3. CASE ReloadRecorded \/ ReloadUnrecorded
  <2>1. call.own.gen \in Gens \union {NoGen} /\ call.own.id \in Ids /\ call.eng \in Engines
    BY <1>0, <1>3 DEF Owners, ReloadRecorded, ReloadUnrecorded, SupInv, CallOfHost
  <2>3. sup[call.eng] \in Owners
    BY <1>0, <2>1
  <2>2. sup' \in [Engines -> Owners]
    <3>1. sup' = [sup EXCEPT ![call.eng] = [sup[call.eng] EXCEPT !.gen = call.own.gen]]
      BY <1>3 DEF ReloadRecorded, ReloadUnrecorded
    <3>2. QED
      BY <1>0, <1>1, <2>1, <3>1
  <2>4. record' \in Records /\ lost' \subseteq Ids
    BY <1>0, <1>1, <1>3, <2>1, <2>3 DEF ReloadRecorded, ReloadUnrecorded
  <2>5. QED
    BY <1>0, <1>3, <2>2, <2>4 DEF ReloadRecorded, ReloadUnrecorded, SupTypeOK
<1>4. CASE ReloadLost
  BY <1>0, <1>4 DEF ReloadLost, SupTypeOK, histVars
<1>5. QED
  BY <1>2, <1>3, <1>4 DEF ReloadStep

LEMMA TypeStep == SupInv /\ [SupNext]_supVars => SupTypeOK'
<1> SUFFICES ASSUME SupInv, SupTypeOK, [SupNext]_supVars PROVE SupTypeOK'
  BY DEF SupInv
<1> USE BlankTypes, SupEngineAssumption DEF histVars
<1>1. ASSUME NEW p \in Pids, CoreExits(p) PROVE SupTypeOK'
  BY <1>1, ExitType DEF SupTypeOK, CoreExits, Cores
<1>2. ASSUME NEW p \in Pids, ForeignStarts(p) PROVE SupTypeOK'
  BY <1>2, NextTick DEF SupTypeOK, ForeignStarts, Procs
<1>3. CASE StartStep \/ ReloadStep
  BY <1>3, StartTypes, ReloadTypes
<1>6. ASSUME NEW w \in waiters, WaiterStep(w) PROVE SupTypeOK'
  <2>1. w \in Waiters /\ w.eng \in Engines /\ w.own \in Owners
    BY WaiterFields DEF SupTypeOK
  <2>2. CASE WaiterReaps(w)
    <3>1. procs' \in [Pids -> Procs]
      BY <2>2 DEF WaiterReaps, SupTypeOK
    <3>2. waiters' \subseteq Waiters
      <4>1. [w EXCEPT !.pc = "lock"] \in Waiters
        BY <2>1, WaiterFields
      <4>2. QED
        BY <2>2, <4>1 DEF WaiterReaps, Move, SupTypeOK
    <3>3. QED
      BY <2>2, <3>1, <3>2 DEF WaiterReaps, SupTypeOK
  <2>3. CASE WaiterClears(w)
    <3>1. sup[w.eng].gen \in Gens \union {NoGen} /\ w.own.gen \in Gens \union {NoGen}
      BY <2>1 DEF SupTypeOK, Owners
    <3>4. /\ Cleaning(w, NoGen) \in Waiters
          /\ Cleaning(w, IF w.own.child THEN sup[w.eng].gen ELSE w.own.gen) \in Waiters
      BY <2>1, <3>1, CleaningFields
    <3>5. waiters' \subseteq Waiters
      BY <2>3, <3>4 DEF WaiterClears, SupTypeOK
    <3>6. sup' \in [Engines -> Owners]
      BY <2>3 DEF WaiterClears, SupTypeOK
    <3>7. QED
      BY <2>3, <3>5, <3>6 DEF WaiterClears, SupTypeOK
  <2>4. CASE WaiterUnrecords(w)
    <3>1. waiters' \subseteq Waiters
      <4>1. [w EXCEPT !.pc = "files"] \in Waiters
        BY <2>1, WaiterFields
      <4>2. QED
        BY <2>4, <4>1 DEF WaiterUnrecords, Move, SupTypeOK
    <3>2. record' \in Records /\ lost' \subseteq Ids
      BY <2>4 DEF WaiterUnrecords, Unrecord, SupTypeOK, Records
    <3>3. QED
      BY <2>4, <3>1, <3>2 DEF WaiterUnrecords, SupTypeOK
  <2>5. CASE WaiterCleans(w)
    BY <2>5 DEF WaiterCleans, SupTypeOK
  <2>6. QED
    BY <1>6, <2>2, <2>3, <2>4, <2>5 DEF WaiterStep
<1>7. CASE StopNothing
  BY <1>7 DEF SupTypeOK, StopNothing
<1>8. CASE StopBegin
  <2>1. host \in Engines /\ sup[host] \in Owners
    BY <1>8 DEF StopBegin, SupTypeOK
  <2>2. call' \in Calls
    BY <1>8, <2>1 DEF StopBegin, Calls, Stopping
  <2>3. QED
    BY <1>8, <2>2 DEF SupTypeOK, StopBegin
<1>9. CASE StopTerm
  BY <1>9, CallFields DEF SupTypeOK, StopTerm, Stopping
<1>10. CASE StopKill
  <2>1. procs' \in [Pids -> Procs]
    BY <1>10, ExitType DEF SupTypeOK, StopKill, Executing
  <2>2. call' \in Calls
    BY <1>10, CallFields DEF SupTypeOK, StopKill, Stopping
  <2>3. QED
    BY <1>10, <2>1, <2>2 DEF SupTypeOK, StopKill
<1>11. CASE StopCancelled
  <2>1. procs' \in [Pids -> Procs]
    BY <1>11, ExitType DEF SupTypeOK, StopCancelled, Executing
  <2>2. QED
    BY <1>11, <2>1 DEF SupTypeOK, StopCancelled
<1>12. CASE StopDone
  BY <1>12 DEF SupTypeOK, StopDone, Unrecord, Records
<1>13. CASE ManagerEnds
  <2>1. \A p \in Pids : [procs[p] EXCEPT !.child = FALSE] \in Procs
    BY DEF SupTypeOK, Procs
  <2>2. procs' \in [Pids -> Procs]
    BY <1>13, <2>1 DEF SupTypeOK, ManagerEnds
  <2>3. lost' \subseteq Ids
    BY <1>13, CallFields DEF SupTypeOK, ManagerEnds, Owners
  <2>4. QED
    BY <1>13, <2>2, <2>3 DEF SupTypeOK, ManagerEnds
<1>14. CASE BootAdopts
  <2> DEFINE own == [pid |-> record.pid, id |-> record.id, gen |-> record.gen, child |-> FALSE]
             e == EngineOf[record.gen]
  <2>1. record.gen \in Gens
    BY <1>14 DEF BootAdopts, SupTypeOK
  <2>2. e \in Engines /\ own \in Owners
    BY <2>1 DEF SupTypeOK, Records, Owners
  <2>3. [eng |-> e, own |-> own, pc |-> "wait"] \in Waiters
    BY <2>2 DEF Waiters
  <2>4. QED
    BY <1>14, <2>2, <2>3 DEF BootAdopts, SupTypeOK
<1>15. CASE BootFindsNone
  BY <1>15 DEF SupTypeOK, BootFindsNone
<1>16. CASE UNCHANGED supVars
  BY <1>16 DEF SupTypeOK, supVars
<1>17. QED
  BY <1>1, <1>2, <1>3, <1>6, <1>7, <1>8, <1>9, <1>10, <1>11, <1>12, <1>13, <1>14, <1>15, <1>16
     DEF SupNext, StopStep
-----------------------------------------------------------------------------
(* Steps of the process table.                                             *)

\* No process appears, those that remain keep their identity, and nothing
\* happens to those of somebody else.
Fewer ==
    \A q \in Pids :
       /\ procs[q].gen = "foreign" => procs'[q] = procs[q]
       /\ procs'[q].gen = "foreign" => procs'[q] = procs[q]
       /\ procs'[q].st # "free" => /\ procs[q].st # "free" /\ procs'[q].id = procs[q].id
                                   /\ procs'[q].gen = procs[q].gen
       /\ procs'[q].st = "alive" => procs[q].st = "alive"

LEMMA FewerTable ==
    ASSUME SupInv, SupTypeOK', Fewer, UNCHANGED ticks
    PROVE  /\ Table'
           /\ \A p \in Cores' : p \in Cores /\ procs'[p].id = procs[p].id /\ procs'[p].gen = procs[p].gen
<1>1. Table'
  BY DEF SupInv, Table, Fewer
<1>2. ASSUME NEW p \in Cores'
      PROVE  p \in Cores /\ procs'[p].id = procs[p].id /\ procs'[p].gen = procs[p].gen
  <2>1. p \in Pids /\ procs'[p].st = "alive" /\ procs'[p].gen \in Gens
    BY DEF Cores
  <2>2. procs[p].st = "alive" /\ procs'[p].id = procs[p].id /\ procs'[p].gen = procs[p].gen
    BY <2>1 DEF Fewer
  <2>3. QED
    BY <2>1, <2>2 DEF Cores
<1>3. QED
  BY <1>1, <1>2

\* Start times of processes are positive, so nothing has the one of nobody.
LEMMA Nobody ==
    ASSUME SupInv
    PROVE  OursIfThere(NoSup) /\ OursIfThere(NoRecord)
BY SupBoundAssumption DEF SupInv, SupTypeOK, Table, Ids, OursIfThere, NoSup, NoRecord

\* What OursIfThere says of o, after the step.
StillOurs(o) ==
    /\ o.id <= ticks'
    /\ \A p \in Pids : procs'[p].st # "free" /\ procs'[p].id = o.id => p = o.pid /\ procs'[p].gen \in Gens

LEMMA FewerOurs ==
    ASSUME SupInv, Fewer, UNCHANGED ticks
    PROVE  \A o : OursIfThere(o) => StillOurs(o)
BY DEF Fewer, OursIfThere, StillOurs

LEMMA StillRemembered ==
    ASSUME StillOurs(record'), StillOurs(call'.own), \A e \in Engines : StillOurs(sup'[e]),
           \A w \in waiters' : StillOurs(w.own)
    PROVE  Remembered'
BY DEF Remembered, OursIfThere, StillOurs

\* What is remembered is known and has a start time.
LEMMA KnownIds ==
    ASSUME SupInv
    PROVE  /\ OursIfThere(record) /\ OursIfThere(call.own) /\ record.id \in Ids /\ call.own.id \in Ids
           /\ \A e \in Engines : OursIfThere(sup[e]) /\ sup[e].id \in Ids
           /\ \A w \in waiters : OursIfThere(w.own) /\ w.own.id \in Ids
BY DEF SupInv, Remembered, SupTypeOK, Records, Owners, Calls, Waiters

\* A core exits, by itself or because it is killed.
LEMMA ExitKeeps ==
    ASSUME SupInv, SupTypeOK', NEW p \in Pids, procs[p].gen \in Gens, procs[p].st = "alive",
           procs' = Exit(p, procs),
           UNCHANGED <<ticks, record, files, up, sup, host, waiters, histVars>>,
           call' = call \/ (call.pc \notin Starting \union {"reload"} /\ call'.pc \notin Starting \union {"reload"})
    PROVE  /\ Fewer /\ Table' /\ SupOfHost' /\ SupOwnsCore' /\ StartCall' /\ ReloadCall' /\ RuntimesApart'
           /\ ChildWaited' /\ OneWaiter' /\ WaiterAtStep' /\ Adoptable'
<1>0. UNCHANGED <<ticks, record, files, up, sup, host, waiters, lost, parted>>
  BY DEF histVars
<1>1. /\ \A q \in Pids : q # p => procs'[q] = procs[q]
      /\ procs[p].child => procs'[p].st = "zombie" /\ procs'[p].child /\ procs'[p].id = procs[p].id /\ procs'[p].gen = procs[p].gen
      /\ ~procs[p].child => procs'[p] = FreeProc
  BY ExitType DEF SupInv, SupTypeOK
<1>2. Fewer
  BY <1>1, SupGensAssumption DEF Fewer, FreeProc
<1>3. Table' /\ \A q \in Cores' : q \in Cores /\ procs'[q].id = procs[q].id /\ procs'[q].gen = procs[q].gen
  BY <1>0, <1>2, FewerTable
<1>4. RuntimesApart' /\ OneWaiter'
  BY <1>0 DEF SupInv, RuntimesApart, Apart, OneWaiter
<1>41. Starting \cap {"reload"} = {} /\ \A q \in {"identify", "record"} : q \in Starting
  BY DEF Starting
<1>42. Held' = Held /\ \A e : Locked(e)' = Locked(e)
  BY <1>41 DEF Held, Locked
<1>43. SupOfHost' /\ ChildWaited'
  BY <1>0, <1>41, <1>42 DEF SupInv, SupOfHost, ChildWaited, Held
<1>5. \A o : Exists(o)' => Exists(o)
  BY <1>2 DEF Fewer, Exists
<1>6. \A o : Exists(o) /\ procs[o.pid].child => Exists(o)' /\ procs'[o.pid].child /\ procs'[o.pid].gen = procs[o.pid].gen
  BY <1>1 DEF Exists
<1>7. \A q \in Cores' : InStart(q)' <=> InStart(q)
  BY <1>3 DEF InStart
<1>8. SupOwnsCore' /\ Adoptable'
  BY <1>0, <1>3, <1>7 DEF SupInv, SupOwnsCore, Adoptable
<1>9. StartCall'
  <2>1. CASE call' = call
    BY <1>0, <1>5, <1>6, <2>1 DEF SupInv, StartCall, Held, Exists
  <2>2. CASE call'.pc \notin Starting
    BY <2>2 DEF StartCall
  <2>3. QED
    BY <2>1, <2>2
<1>10. ReloadCall'
  <2>1. CASE call' = call
    <3>1. Exists(call.own)' => procs'[call.own.pid].gen = procs[call.own.pid].gen
      BY <1>2, <2>1 DEF Exists, Fewer
    <3>2. QED
      BY <1>0, <1>5, <2>1, <3>1 DEF SupInv, ReloadCall
  <2>2. CASE call'.pc # "reload"
    BY <2>2 DEF ReloadCall
  <2>3. QED
    BY <2>1, <2>2
<1>11. WaiterAtStep'
  <2>1. \A w : Holds(w)' <=> Holds(w)
    BY <1>0 DEF Holds, Owned
  <2>2. QED
    BY <1>0, <1>5, <1>6, <2>1 DEF SupInv, WaiterAtStep
<1>12. QED
  BY <1>2, <1>3, <1>4, <1>43, <1>8, <1>9, <1>10, <1>11

LEMMA CoreExitsStep ==
    ASSUME SupInv, SupTypeOK', NEW p \in Pids, CoreExits(p)
    PROVE  SupInv'
<1>1. /\ procs' = Exit(p, procs) /\ procs[p].gen \in Gens /\ procs[p].st = "alive"
      /\ UNCHANGED <<ticks, record, files, up, sup, host, call, waiters, histVars>>
  BY DEF CoreExits, Cores
<1>2. /\ Fewer /\ Table' /\ SupOfHost' /\ SupOwnsCore' /\ StartCall' /\ ReloadCall' /\ RuntimesApart'
      /\ ChildWaited' /\ OneWaiter' /\ WaiterAtStep' /\ Adoptable'
  BY <1>1, ExitKeeps
<1>3. Remembered'
  BY <1>1, <1>2, FewerOurs, StillRemembered, KnownIds
<1>4. DownIsBlank' /\ CallOfHost'
  BY <1>1 DEF SupInv, DownIsBlank, CallOfHost
<1>5. QED
  BY <1>2, <1>3, <1>4 DEF SupInv

\* A process appears: what is remembered does not have its start time.
LEMMA NewProcess ==
    ASSUME SupInv, SupTypeOK', NEW p \in Pids, procs[p].st = "free", ticks < MaxStarts, ticks' = ticks + 1,
           NEW new \in Procs, new.id = ticks + 1, new.st = "alive", new.gen \in Gens \/ (new.gen = "foreign" /\ ~new.child),
           procs' = [procs EXCEPT ![p] = new]
    PROVE  /\ Table'
           /\ \A q \in Pids : q # p => procs'[q] = procs[q]
           /\ procs'[p] = new /\ ticks \in Nat
           /\ \A o : OursIfThere(o) /\ o.id \in Ids => o.id # ticks + 1 /\ (Exists(o)' <=> Exists(o)) /\ (Exists(o) => o.pid # p)
           /\ \A o : OursIfThere(o) /\ o.id \in Ids => StillOurs(o)
<1>1. /\ \A q \in Pids : q # p => procs'[q] = procs[q]
      /\ procs'[p] = new /\ ticks \in Nat
  BY NextTick DEF SupInv, SupTypeOK
<1>2. Table'
  <2>1. \A q \in Pids : procs[q].st # "free" => procs[q].id \in 1 .. ticks
    BY DEF SupInv, Table
  <2>2. \A q \in Pids : procs'[q].st # "free" => procs'[q].id \in 1 .. ticks'
    BY <1>1, <2>1
  <2>3. \A q \in Pids : q # p /\ procs'[q].st # "free" => procs'[q].id # ticks + 1
    BY <1>1, <2>1
  <2>4. \A q, r \in Pids : procs'[q].st # "free" /\ procs'[r].st # "free" /\ procs'[q].id = procs'[r].id => q = r
    BY <1>1, <2>3 DEF SupInv, Table
  <2>5. QED
    BY <1>1, <2>2, <2>4, SupGensAssumption DEF SupInv, Table
<1>3. \A o : OursIfThere(o) /\ o.id \in Ids => o.id # ticks + 1
  BY <1>1 DEF OursIfThere, Ids
<1>4. \A o : OursIfThere(o) /\ o.id \in Ids => (Exists(o)' <=> Exists(o)) /\ (Exists(o) => o.pid # p)
  BY <1>1, <1>3 DEF Exists
<1>5. \A o : OursIfThere(o) /\ o.id \in Ids => StillOurs(o)
  BY <1>1, <1>3 DEF OursIfThere, StillOurs, Ids
<1>6. QED
  BY <1>1, <1>2, <1>3, <1>4, <1>5

LEMMA ForeignStartsStep ==
    ASSUME SupInv, SupTypeOK', NEW p \in Pids, ForeignStarts(p)
    PROVE  SupInv'
<1> DEFINE new == [id |-> ticks + 1, gen |-> "foreign", child |-> FALSE, st |-> "alive"]
<1>1. /\ procs[p].st = "free" /\ ticks' = ticks + 1 /\ ticks < MaxStarts
      /\ procs' = [procs EXCEPT ![p] = new] /\ new \in Procs
      /\ UNCHANGED <<record, files, up, sup, host, call, waiters, lost, parted>>
  BY NextTick DEF ForeignStarts, SupInv, Procs, histVars
<1>2. /\ Table'
      /\ \A q \in Pids : q # p => procs'[q] = procs[q]
      /\ procs'[p] = new
      /\ \A o : OursIfThere(o) /\ o.id \in Ids => o.id # ticks + 1 /\ (Exists(o)' <=> Exists(o)) /\ (Exists(o) => o.pid # p)
      /\ \A o : OursIfThere(o) /\ o.id \in Ids => StillOurs(o)
  BY <1>1, NewProcess
<1> HIDE DEF new
<1>3. Cores' = Cores /\ \A q \in Cores : procs'[q] = procs[q]
  BY <1>1, <1>2, SupGensAssumption DEF Cores, new
<1>4. Remembered'
  BY <1>1, <1>2, KnownIds, StillRemembered
<1>5. DownIsBlank' /\ SupOfHost' /\ CallOfHost' /\ ChildWaited' /\ OneWaiter' /\ RuntimesApart'
  BY <1>1
     DEF SupInv, DownIsBlank, SupOfHost, Held, CallOfHost, ChildWaited, Locked, OneWaiter, RuntimesApart, Apart
<1>6. SupOwnsCore' /\ Adoptable'
  BY <1>1, <1>3 DEF SupInv, SupOwnsCore, Adoptable, InStart
<1>7. /\ Exists(call.own)' <=> Exists(call.own)
      /\ Exists(call.own) => procs'[call.own.pid] = procs[call.own.pid]
  BY <1>1, <1>2, KnownIds DEF Exists
<1>8. StartCall' /\ ReloadCall'
  BY <1>1, <1>7 DEF SupInv, StartCall, Held, ReloadCall
<1>9. WaiterAtStep'
  <2>1. \A w : Holds(w)' <=> Holds(w)
    BY <1>1 DEF Holds, Owned
  <2>2. \A w \in waiters : /\ Exists(w.own)' <=> Exists(w.own)
                           /\ Exists(w.own) => procs'[w.own.pid] = procs[w.own.pid]
    BY <1>2, KnownIds DEF Exists
  <2>3. QED
    BY <1>1, <2>1, <2>2 DEF SupInv, WaiterAtStep
<1>10. QED
  BY <1>2, <1>4, <1>5, <1>6, <1>8, <1>9 DEF SupInv


-----------------------------------------------------------------------------
(* Starting.                                                               *)

LEMMA Blanks ==
    /\ NoCall.pc = "none" /\ NoCall.own = NoSup /\ NoSup.pid = NoPid /\ NoSup.gen = NoGen /\ NoSup.id = 0
    /\ NoRecord.gen = NoGen /\ NoRecord.id = 0 /\ ~NoSup.child
    /\ "none" \notin Starting \union Stopping \union {"reload"}
    /\ "reload" \notin Starting \union Stopping /\ Starting \cap Stopping = {}
BY DEF NoCall, NoSup, NoRecord, Starting, Stopping

\* Without a call and a host nothing is supervised.
LEMMA Idle ==
    ASSUME SupInv, call = NoCall
    PROVE  /\ ~Held /\ \A e : ~Locked(e)
           /\ \A e \in Engines : sup[e] # NoSup => e = host /\ sup[e].pid \in Pids
           /\ \A p \in Pids : ~InStart(p)
           /\ host = NoEngine => /\ \A e \in Engines : sup[e] = NoSup
                                 /\ \A w \in waiters : w.pc # "wait" /\ (w.pc = "lock" => ~w.own.child)
                                 /\ up => \A p \in Cores : procs[p].id \in lost
<1>1. ~Held /\ (\A e : ~Locked(e)) /\ \A p \in Pids : ~InStart(p)
  BY Blanks DEF Held, Locked, InStart
<1>2. \A e \in Engines : sup[e] # NoSup => e = host /\ sup[e].pid \in Pids
  BY <1>1 DEF SupInv, SupOfHost
<1>3. ASSUME host = NoEngine PROVE \A e \in Engines : sup[e] = NoSup
  BY <1>2, <1>3, SupEngineAssumption
<1>4. ASSUME host = NoEngine, NEW w \in waiters PROVE w.pc # "wait" /\ (w.pc = "lock" => ~w.own.child)
  <2>1. w.eng \in Engines /\ w.own.pid \in Pids
    BY DEF SupInv, SupTypeOK, Waiters, WaiterAtStep
  <2>2. ~Holds(w)
    BY <1>3, <1>4, <2>1, Blanks, SupPidAssumption DEF Holds, Owned
  <2>3. QED
    BY <2>2 DEF SupInv, WaiterAtStep
<1>5. ASSUME host = NoEngine, up PROVE \A p \in Cores : procs[p].id \in lost
  BY <1>1, <1>5, SupEngineAssumption DEF SupInv, SupOwnsCore, Cores
<1>6. QED
  BY <1>1, <1>2, <1>3, <1>4, <1>5

\* While one starts, no other process is supervised or recorded.
LEMMA Alone ==
    ASSUME SupInv, call.pc \in Starting
    PROVE  /\ up /\ host = NoEngine /\ call.eng \in Engines
           /\ \A e \in Engines : sup[e] # NoSup => Held /\ e = call.eng /\ sup[e] = call.own
           /\ \A w \in waiters : w.pc # "wait" /\ (w.pc = "lock" => ~w.own.child)
           /\ \A p \in Cores : procs[p].id \in lost \/ (procs[p].id = call.own.id /\ p = call.own.pid)
<1>1. up
  BY Blanks DEF SupInv, DownIsBlank
<1>2. host = NoEngine /\ call.eng \in Engines
  BY DEF SupInv, StartCall
<1>3. \A e \in Engines : sup[e] # NoSup => Held /\ e = call.eng /\ sup[e] = call.own
  BY <1>2, SupEngineAssumption DEF SupInv, SupOfHost, StartCall
<1>4. ASSUME NEW w \in waiters PROVE w.pc # "wait" /\ (w.pc = "lock" => ~w.own.child)
  <2>1. w.eng \in Engines /\ w.own.pid \in Pids /\ w.own.id # call.own.id
    BY DEF SupInv, SupTypeOK, Waiters, WaiterAtStep, StartCall
  <2>2. ~Holds(w)
    BY <1>3, <2>1, Blanks, SupPidAssumption DEF Holds, Owned
  <2>3. QED
    BY <2>2 DEF SupInv, WaiterAtStep
<1>5. ASSUME NEW p \in Cores PROVE procs[p].id \in lost \/ (procs[p].id = call.own.id /\ p = call.own.pid)
  BY <1>1, <1>2, SupEngineAssumption DEF SupInv, SupOwnsCore, InStart, Cores, Remembered, OursIfThere
<1>6. QED
  BY <1>1, <1>2, <1>3, <1>4, <1>5

LEMMA SpawnStep ==
    ASSUME SupInv, SupTypeOK', NEW g \in Gens, NEW p \in Pids, Spawn(g, p)
    PROVE  SupInv'
<1> DEFINE own == [pid |-> p, id |-> ticks + 1, gen |-> g, child |-> TRUE]
           new == [id |-> ticks + 1, gen |-> g, child |-> TRUE, st |-> "alive"]
           e == EngineOf[g]
<1>1. /\ up /\ call = NoCall /\ host = NoEngine /\ Fresh(g) /\ e \in Engines
      /\ procs[p].st = "free" /\ ticks' = ticks + 1 /\ ticks < MaxStarts
      /\ procs' = [procs EXCEPT ![p] = new] /\ new \in Procs
      /\ call' = [pc |-> "identify", eng |-> e, own |-> own]
      /\ files' = files \union {g}
      /\ UNCHANGED <<record, up, host, waiters, lost, parted>>
  BY NextTick, SupEngineAssumption DEF Spawn, CanCall, StartRefused, SupInv, Procs, histVars
<1>2. sup'[e] = own /\ \A f \in Engines : f # e => sup'[f] = NoSup
  BY <1>1, Idle DEF Spawn, SupInv, SupTypeOK
<1>3. /\ Table' /\ ticks \in Nat
      /\ \A q \in Pids : q # p => procs'[q] = procs[q]
      /\ procs'[p] = new
      /\ \A o : OursIfThere(o) /\ o.id \in Ids => o.id # ticks + 1 /\ (Exists(o)' <=> Exists(o)) /\ (Exists(o) => o.pid # p)
      /\ \A o : OursIfThere(o) /\ o.id \in Ids => StillOurs(o)
  BY <1>1, NewProcess
<1>4. own.pid = p /\ own.id = ticks + 1 /\ own.gen = g /\ own.child /\ call'.own = own /\ call'.pc = "identify" /\ call'.eng = e
  BY <1>1
<1>41. new.id = ticks + 1 /\ new.gen = g /\ new.child /\ new.st = "alive"
  OBVIOUS
<1> HIDE DEF own, new, e
<1>5. StillOurs(own)
  BY <1>1, <1>3, <1>4, <1>41 DEF Table, StillOurs
<1>6. Remembered'
  <2>1. \A f \in Engines : StillOurs(sup'[f])
    BY <1>2, <1>3, <1>5, Nobody, BlankTypes, Blanks
  <2>2. QED
    BY <1>1, <1>3, <1>4, <1>5, <2>1, KnownIds, StillRemembered
<1>7. DownIsBlank' /\ CallOfHost' /\ ReloadCall' /\ OneWaiter'
  BY <1>1, <1>4, Blanks DEF SupInv, DownIsBlank, CallOfHost, ReloadCall, OneWaiter, Stopping
<1>8. SupOfHost' /\ ChildWaited'
  BY <1>2, <1>4 DEF SupOfHost, ChildWaited, Held, Locked
<1>9. \A q \in Cores' : procs'[q].id \in lost \/ q = p
  <2>1. \A q \in Cores : procs[q].id \in lost
    BY <1>1, Idle
  <2>2. QED
    BY <1>3, <2>1 DEF Cores
<1>10. InStart(p)'
  BY <1>3, <1>4, <1>41 DEF InStart, Starting
<1>11. SupOwnsCore' /\ Adoptable'
  BY <1>1, <1>9, <1>10 DEF SupOwnsCore, Adoptable
<1>12. StartCall'
  <2>1. record.id # own.id /\ record.id \in Ids /\ \A w \in waiters : w.own.id # own.id
    BY <1>3, <1>4, KnownIds
  <2>2. \A w \in waiters : w.own.gen # g
    BY <1>1 DEF Fresh
  <2>3. Exists(call.own)' /\ procs'[own.pid].child /\ procs'[own.pid].gen = g
    BY <1>3, <1>4, <1>41 DEF Exists
  <2>4. own.id # 0
    BY <1>3, <1>4
  <2>5. QED
    BY <1>1, <1>2, <1>4, <2>1, <2>2, <2>3, <2>4 DEF StartCall
<1>13. RuntimesApart'
  <2>1. record.gen # g /\ \A w \in waiters : Apart(w.own)
    BY <1>1 DEF Fresh, SupInv, RuntimesApart
  <2>2. \A f \in Engines : sup'[f].gen = g \/ sup'[f].gen = NoGen
    BY <1>2, <1>4, Blanks
  <2>3. QED
    BY <1>1, <2>1, <2>2 DEF RuntimesApart, Apart
<1>14. WaiterAtStep'
  <2>1. \A w \in waiters : w.own.pid \in Pids /\ w.pc # "wait" /\ ~(w.pc = "lock" /\ w.own.child) /\ ~Exists(w.own)
    BY <1>1, Idle DEF SupInv, WaiterAtStep
  <2>2. \A w \in waiters : ~Exists(w.own)'
    BY <1>3, <2>1, KnownIds
  <2>3. QED
    BY <1>1, <2>1, <2>2 DEF WaiterAtStep
<1>15. QED
  BY <1>3, <1>6, <1>7, <1>8, <1>11, <1>12, <1>13, <1>14 DEF SupInv

\* Steps of a start that leave the process table alone.
LEMMA SameProcs ==
    ASSUME SupInv, UNCHANGED <<procs, ticks>>
    PROVE  /\ Table' /\ Cores' = Cores
           /\ \A o : Exists(o)' <=> Exists(o)
           /\ \A o : OursIfThere(o) => StillOurs(o)
BY DEF SupInv, Table, Cores, Exists, OursIfThere, StillOurs

LEMMA IdentifyStep ==
    ASSUME SupInv, SupTypeOK', Identify
    PROVE  SupInv'
<1>1. /\ call.pc = "identify" /\ call'.pc = "record" /\ call'.eng = call.eng /\ call'.own = call.own
      /\ UNCHANGED <<procs, ticks, record, files, up, sup, host, waiters, lost, parted>>
  BY CallFields DEF Identify, Starting, SupInv, SupTypeOK, histVars
<1>2. Table' /\ Cores' = Cores /\ (\A o : Exists(o)' <=> Exists(o)) /\ \A o : OursIfThere(o) => StillOurs(o)
  BY <1>1, SameProcs
<1>3. Remembered'
  BY <1>1, <1>2, KnownIds, StillRemembered
<1>4. {"identify", "record"} \subseteq Starting /\ "record" \notin Stopping \union {"reload"}
  BY DEF Starting, Stopping
<1>5. Held /\ Held' /\ (\A e : Locked(e)' <=> Locked(e)) /\ \A q : InStart(q)' <=> InStart(q)
  BY <1>1, <1>4 DEF Held, Locked, InStart
<1>6. DownIsBlank' /\ SupOfHost' /\ SupOwnsCore' /\ CallOfHost' /\ ReloadCall'
  BY <1>1, <1>2, <1>4, <1>5, Alone DEF SupInv, DownIsBlank, SupOfHost, SupOwnsCore, CallOfHost, ReloadCall
<1>7. StartCall'
  <2>1. Exists(call.own)' <=> Exists(call.own)
    BY <1>1 DEF Exists
  <2>2. QED
    BY <1>1, <1>4, <1>5, <2>1 DEF SupInv, StartCall, AsRecord
<1>8. RuntimesApart' /\ ChildWaited' /\ OneWaiter' /\ Adoptable'
  BY <1>1, <1>2, <1>5 DEF SupInv, RuntimesApart, Apart, ChildWaited, OneWaiter, Adoptable
<1>9. WaiterAtStep'
  BY <1>1, <1>2 DEF SupInv, WaiterAtStep, Holds, Owned
<1>10. QED
  BY <1>2, <1>3, <1>6, <1>7, <1>8, <1>9 DEF SupInv

\* The lock is let go of without the record of the child, or with one nobody relies on.
LEMMA StartFailsStep ==
    ASSUME SupInv, SupTypeOK', IdentifyFails \/ WriteFails
    PROVE  SupInv'
<1>1. /\ call.pc \in {"identify", "record"} /\ call'.pc \in {"unnamed", "unwritten"}
      /\ call'.eng = call.eng /\ call'.own = call.own
      /\ record' \in {record, AsRecord(call.own)} /\ sup' = [sup EXCEPT ![call.eng] = NoSup]
      /\ UNCHANGED <<procs, ticks, files, up, host, waiters, lost, parted>>
  BY CallFields DEF IdentifyFails, WriteFails, Starting, SupInv, SupTypeOK, histVars
<1>2. call.pc \in Starting /\ call'.pc \in Starting /\ call'.pc \notin Stopping \union {"reload"} /\ Held /\ ~Held'
  BY <1>1 DEF Starting, Stopping, Held
<1>3. Table' /\ Cores' = Cores /\ (\A o : Exists(o)' <=> Exists(o)) /\ \A o : OursIfThere(o) => StillOurs(o)
  BY <1>1, SameProcs
<1>4. \A f \in Engines : sup'[f] = NoSup
  BY <1>1, <1>2, Alone DEF SupInv, SupTypeOK
<1>5. AsRecord(call.own).pid = call.own.pid /\ AsRecord(call.own).id = call.own.id /\ AsRecord(call.own).gen = call.own.gen
  BY DEF AsRecord
<1>6. StillOurs(record')
  BY <1>1, <1>3, <1>5, KnownIds DEF OursIfThere, StillOurs
<1>7. Remembered'
  BY <1>1, <1>3, <1>4, <1>6, KnownIds, Nobody, StillRemembered
<1>8. DownIsBlank' /\ CallOfHost' /\ ReloadCall' /\ SupOfHost' /\ ChildWaited' /\ OneWaiter'
  BY <1>1, <1>2, <1>4, Alone
     DEF SupInv, DownIsBlank, CallOfHost, ReloadCall, SupOfHost, ChildWaited, OneWaiter
<1>9. SupOwnsCore' /\ Adoptable'
  BY <1>1, <1>2, <1>3, Alone DEF SupOwnsCore, Adoptable, InStart
<1>10. StartCall'
  <2>1. /\ Exists(call.own)' <=> Exists(call.own)
        /\ AsRecord(call'.own) = AsRecord(call.own) /\ call'.pc # "unrecord" /\ call.pc # "unrecord"
    BY <1>1 DEF Exists
  <2>2. record'.id = call.own.id => record' = AsRecord(call.own)
    BY <1>1, <1>2 DEF SupInv, StartCall
  <2>3. QED
    BY <1>1, <1>2, <2>1, <2>2 DEF SupInv, StartCall
<1>11. RuntimesApart'
  BY <1>1, <1>2, <1>4, <1>5, Blanks DEF SupInv, RuntimesApart, Apart, StartCall
<1>12. WaiterAtStep'
  BY <1>1, <1>2, <1>3, Alone DEF SupInv, WaiterAtStep
<1>13. QED
  BY <1>3, <1>7, <1>8, <1>9, <1>10, <1>11, <1>12 DEF SupInv

LEMMA WriteRecordStep ==
    ASSUME SupInv, SupTypeOK', WriteRecord
    PROVE  SupInv'
<1>0. PICK new : new = [eng |-> call.eng, own |-> call.own, pc |-> "wait"]
  OBVIOUS
<1>1. /\ call.pc = "record" /\ call' = NoCall /\ record' = AsRecord(call.own) /\ host' = call.eng
      /\ waiters' = waiters \union {new}
      /\ UNCHANGED <<procs, ticks, files, up, sup, lost, parted>>
  BY <1>0 DEF WriteRecord, histVars
<1>2. call.pc \in Starting /\ Held /\ sup[call.eng] = call.own /\ ~Held' /\ \A e : ~Locked(e)'
  BY <1>1, Blanks DEF Starting, Held, Locked, SupInv, StartCall
<1>3. Table' /\ Cores' = Cores /\ (\A o : Exists(o)' <=> Exists(o)) /\ \A o : OursIfThere(o) => StillOurs(o)
  BY <1>1, SameProcs
<1>4. new.eng = call.eng /\ new.own = call.own /\ new.pc = "wait"
  BY <1>0
<1>5. /\ record'.pid = call.own.pid /\ record'.id = call.own.id /\ record'.gen = call.own.gen
      /\ call'.own = NoSup /\ call'.pc = "none"
  BY <1>1, Blanks DEF AsRecord
<1>6. Remembered'
  <2>1. StillOurs(record')
    BY <1>3, <1>5, KnownIds DEF OursIfThere, StillOurs
  <2>2. QED
    BY <1>1, <1>3, <1>4, <1>5, <2>1, KnownIds, Nobody, StillRemembered
<1>7. /\ call.eng \in Engines /\ up /\ call.own.pid \in Pids /\ call.own.gen \in files /\ call.own.child
      /\ Exists(call.own) /\ procs[call.own.pid].child /\ procs[call.own.pid].gen = call.own.gen
      /\ \A w \in waiters : w.own.id # call.own.id /\ w.own.gen # call.own.gen
  BY <1>1, <1>2, Alone DEF SupInv, StartCall
<1>8. DownIsBlank' /\ StartCall' /\ CallOfHost' /\ ReloadCall'
  BY <1>1, <1>5, <1>7, Blanks DEF DownIsBlank, StartCall, CallOfHost, ReloadCall
<1>9. SupOfHost' /\ SupOwnsCore' /\ Adoptable'
  BY <1>1, <1>2, <1>3, <1>5, <1>7, Alone DEF SupOfHost, SupOwnsCore, Adoptable
<1>10. ChildWaited'
  BY <1>1, <1>2, <1>4, Alone DEF ChildWaited
<1>11. OneWaiter'
  BY <1>1, <1>4, <1>7 DEF SupInv, OneWaiter
<1>12. RuntimesApart'
  <2>1. \A f \in Engines : sup[f].gen = NoGen \/ sup[f] = call.own
    BY <1>2, Alone, Blanks
  <2>2. QED
    BY <1>1, <1>4, <1>5, <1>7, <2>1 DEF RuntimesApart, Apart
<1>13. WaiterAtStep'
  <2>1. Holds(new)'
    BY <1>1, <1>2, <1>4 DEF Holds, Owned
  <2>2. Exists(new.own)' /\ procs'[new.own.pid].child /\ new.own.pid \in Pids
    BY <1>1, <1>4, <1>7 DEF Exists
  <2>3. \A w \in waiters : w.own.pid \in Pids /\ w.pc # "wait" /\ ~(w.pc = "lock" /\ w.own.child) /\ ~Exists(w.own)'
    BY <1>2, <1>3, Alone DEF SupInv, WaiterAtStep
  <2>4. QED
    <3> SUFFICES ASSUME NEW w \in waiters'
                 PROVE  /\ w.own.pid \in Pids
                        /\ w.pc = "wait" => Exists(w.own)' /\ procs'[w.own.pid].child /\ Holds(w)'
                        /\ w.pc # "wait" => ~Exists(w.own)'
                        /\ w.pc = "lock" /\ w.own.child => Holds(w)'
      BY DEF WaiterAtStep
    <3>1. CASE w \in waiters
      BY <2>3, <3>1
    <3>2. CASE w = new
      BY <1>4, <2>1, <2>2, <3>2 DEF Holds, Owned, Exists
    <3>3. QED
      BY <1>1, <3>1, <3>2
<1>14. QED
  BY <1>3, <1>6, <1>8, <1>9, <1>10, <1>11, <1>12, <1>13 DEF SupInv

LEMMA KillChildStep ==
    ASSUME SupInv, SupTypeOK', KillChild
    PROVE  SupInv'
<1>1. /\ call.pc \in {"unnamed", "unwritten"} /\ procs' = [procs EXCEPT ![call.own.pid] = FreeProc]
      /\ UNCHANGED <<ticks, record, up, sup, host, waiters, lost, parted>>
      /\ (call' = [call EXCEPT !.pc = "unrecord"] /\ files' = files) \/ call' = NoCall
  BY DEF KillChild, histVars
<1>2. /\ call.pc \in Starting /\ ~Held /\ call.pc # "unrecord"
      /\ call.own.pid \in Pids /\ Exists(call.own) /\ procs[call.own.pid].gen \in Gens
  BY <1>1 DEF Starting, Held, SupInv, StartCall
<1>3. /\ \A q \in Pids : q # call.own.pid => procs'[q] = procs[q]
      /\ procs'[call.own.pid] = FreeProc
  BY <1>1, <1>2 DEF SupInv, SupTypeOK
<1>4. Fewer
  BY <1>2, <1>3, SupGensAssumption DEF Fewer, FreeProc
<1>5. /\ Table' /\ \A q \in Cores' : q \in Cores /\ procs'[q].id = procs[q].id /\ procs'[q].gen = procs[q].gen
      /\ \A o : OursIfThere(o) => StillOurs(o)
  BY <1>1, <1>4, FewerTable, FewerOurs
<1>6. call'.own \in {call.own, NoSup} /\ call'.eng \in {call.eng, NoEngine} /\ call'.pc \in {"unrecord", "none"}
  <2>1. call \in Calls /\ "unrecord" \in Starting
    BY DEF SupInv, SupTypeOK, Starting
  <2>2. [call EXCEPT !.pc = "unrecord"] = [pc |-> "unrecord", eng |-> call.eng, own |-> call.own]
    BY <2>1, CallFields
  <2>3. QED
    BY <1>1, <2>2 DEF NoCall
<1>7. \A e \in Engines : sup[e] = NoSup
  BY <1>2, Alone
<1>8. Remembered'
  BY <1>1, <1>5, <1>6, KnownIds, Nobody, StillRemembered
<1>9. \A q \in Cores' : procs'[q].id \in lost
  BY <1>2, <1>3, <1>5, Alone DEF Cores, FreeProc
<1>10. SupOwnsCore' /\ Adoptable'
  BY <1>1, <1>9 DEF SupOwnsCore, Adoptable
<1>11. "unrecord" \notin Stopping \union {"reload", "identify", "record"} /\ "unrecord" \in Starting
  BY DEF Starting, Stopping
<1>12. DownIsBlank' /\ SupOfHost' /\ CallOfHost' /\ ReloadCall' /\ RuntimesApart' /\ ChildWaited' /\ OneWaiter'
  BY <1>1, <1>2, <1>6, <1>7, <1>11, Alone, Blanks
     DEF SupInv, DownIsBlank, SupOfHost, CallOfHost, ReloadCall, RuntimesApart, Apart, ChildWaited, OneWaiter
<1>13. StartCall'
  <2>1. CASE call' = NoCall
    BY <2>1, Blanks DEF StartCall
  <2>2. CASE call' = [call EXCEPT !.pc = "unrecord"] /\ files' = files
    <3>1. call'.pc = "unrecord" /\ call'.eng = call.eng /\ call'.own = call.own
      BY <1>11, <2>2, CallFields DEF SupInv, SupTypeOK
    <3>2. ~Exists(call.own)'
      BY <1>3, <3>1 DEF Exists, FreeProc
    <3>3. ~Held' /\ AsRecord(call'.own) = AsRecord(call.own)
      BY <1>11, <3>1 DEF Held
    <3>4. QED
      BY <1>1, <1>2, <2>2, <3>1, <3>2, <3>3 DEF SupInv, StartCall
  <2>3. QED
    BY <1>1, <2>1, <2>2
<1>14. WaiterAtStep'
  <2>1. \A w \in waiters : w.own.pid \in Pids /\ w.pc # "wait" /\ ~(w.pc = "lock" /\ w.own.child) /\ ~Exists(w.own)
    BY <1>2, Alone DEF SupInv, WaiterAtStep
  <2>2. \A o : Exists(o)' => Exists(o)
    BY <1>4 DEF Fewer, Exists
  <2>3. QED
    BY <1>1, <2>1, <2>2 DEF WaiterAtStep
<1>15. QED
  BY <1>5, <1>8, <1>10, <1>12, <1>13, <1>14 DEF SupInv

LEMMA UnrecordChildStep ==
    ASSUME SupInv, SupTypeOK', UnrecordChild
    PROVE  SupInv'
<1>1. /\ call.pc = "unrecord" /\ record' = NoRecord /\ lost \subseteq lost' /\ call' = NoCall
      /\ UNCHANGED <<procs, ticks, up, sup, host, waiters>>
  BY DEF UnrecordChild, Unrecord
<1>2. call.pc \in Starting /\ ~Held /\ ~Exists(call.own)
  BY <1>1 DEF Starting, Held, SupInv, StartCall
<1>3. Table' /\ Cores' = Cores /\ (\A o : Exists(o)' <=> Exists(o)) /\ \A o : OursIfThere(o) => StillOurs(o)
  BY <1>1, SameProcs
<1>4. \A e \in Engines : sup[e] = NoSup
  BY <1>2, Alone
<1>5. Remembered'
  BY <1>1, <1>3, Blanks, KnownIds, Nobody, StillRemembered
<1>6. \A p \in Cores : procs[p].id \in lost
  BY <1>2, Alone DEF Cores, Exists
<1>7. SupOwnsCore' /\ Adoptable'
  BY <1>1, <1>3, <1>6 DEF SupOwnsCore, Adoptable
<1>8. /\ DownIsBlank' /\ SupOfHost' /\ StartCall' /\ CallOfHost' /\ ReloadCall' /\ RuntimesApart' /\ ChildWaited'
      /\ OneWaiter'
  BY <1>1, <1>2, <1>4, Alone, Blanks
     DEF SupInv, DownIsBlank, SupOfHost, StartCall, CallOfHost, ReloadCall, RuntimesApart, Apart, ChildWaited,
         OneWaiter
<1>9. WaiterAtStep'
  BY <1>1, <1>2, <1>3, Alone DEF SupInv, WaiterAtStep
<1>10. QED
  BY <1>3, <1>5, <1>7, <1>8, <1>9 DEF SupInv

-----------------------------------------------------------------------------
(* Reloading.                                                              *)

LEMMA ReloadAcceptedStep ==
    ASSUME SupInv, SupTypeOK', NEW g \in Gens, ReloadAccepted(g)
    PROVE  SupInv'
<1>0. PICK old : old = sup[EngineOf[g]]
  OBVIOUS
<1>1. /\ up /\ call = NoCall /\ host = EngineOf[g] /\ host \in Engines /\ old = sup[host] /\ old \in Owners
      /\ Executing(old) /\ Fresh(g)
      /\ procs' = [procs EXCEPT ![old.pid].gen = g]
      /\ parted' = parted \union {old.id} /\ files' = files \union {g}
      /\ call' = [pc |-> "reload", eng |-> host, own |-> [old EXCEPT !.gen = g]]
      /\ UNCHANGED <<ticks, record, up, sup, host, waiters, lost>>
  BY <1>0, SupEngineAssumption DEF ReloadAccepted, CanCall, SupInv, SupTypeOK
<1>2. /\ call'.pc = "reload" /\ call'.eng = host /\ call'.own.gen = g
      /\ call'.own.pid = old.pid /\ call'.own.id = old.id /\ call'.own.child = old.child
  BY <1>1 DEF Owners
<1>3. old.pid \in Pids /\ procs[old.pid].st = "alive" /\ procs[old.pid].id = old.id /\ procs[old.pid].gen \in Gens
  BY <1>1, KnownIds DEF Executing, OursIfThere
<1>4. /\ \A q \in Pids : q # old.pid => procs'[q] = procs[q]
      /\ procs'[old.pid].gen = g /\ procs'[old.pid].id = old.id /\ procs'[old.pid].st = "alive"
      /\ procs'[old.pid].child = procs[old.pid].child
  BY <1>1, <1>3 DEF SupInv, SupTypeOK, Procs
<1>5. \A q \in Pids : procs'[q].st = procs[q].st /\ procs'[q].id = procs[q].id /\ procs'[q].child = procs[q].child
  BY <1>3, <1>4
<1>6. Cores' = Cores /\ (\A o : Exists(o)' <=> Exists(o)) /\ Table'
  <2>1. \A q \in Pids : /\ procs'[q].gen \in Gens <=> procs[q].gen \in Gens
                        /\ procs'[q].gen = "foreign" <=> procs[q].gen = "foreign"
    BY <1>3, <1>4, SupGensAssumption
  <2>2. Cores' = Cores
    BY <1>5, <2>1 DEF Cores
  <2>3. \A o : Exists(o)' <=> Exists(o)
    BY <1>5 DEF Exists
  <2>4. Table'
    BY <1>1, <1>5, <2>1 DEF SupInv, Table
  <2>5. QED
    BY <2>2, <2>3, <2>4
<1>7. \A o : OursIfThere(o) => StillOurs(o)
  BY <1>1, <1>4, <1>5 DEF OursIfThere, StillOurs
<1>8. Remembered'
  <2>1. StillOurs(call'.own)
    BY <1>1, <1>2, <1>7, KnownIds DEF StillOurs
  <2>2. QED
    BY <1>1, <1>7, <2>1, KnownIds, StillRemembered
<1>9. /\ ~Held /\ ~Held' /\ \A e : ~Locked(e) /\ ~Locked(e)'
      /\ \A p \in Cores : ~InStart(p)
  BY <1>1, <1>2, Blanks, Idle DEF Held, Locked, Cores
<1>10. DownIsBlank' /\ SupOfHost' /\ ChildWaited' /\ OneWaiter' /\ RuntimesApart'
  BY <1>1, <1>9 DEF SupInv, DownIsBlank, SupOfHost, ChildWaited, OneWaiter, RuntimesApart, Apart
<1>11. SupOwnsCore'
  BY <1>1, <1>5, <1>6, <1>9 DEF SupInv, SupOwnsCore, Cores
<1>12. StartCall' /\ CallOfHost'
  BY <1>1, <1>2, Blanks DEF StartCall, CallOfHost
<1>13. ReloadCall'
  <2>1. \A w \in waiters : w.own.gen # g
    BY <1>1 DEF Fresh
  <2>2. record.gen # g /\ \A e \in Engines : sup[e].gen # g
    BY <1>1 DEF Fresh
  <2>3. QED
    BY <1>1, <1>2, <1>4, <2>1, <2>2 DEF ReloadCall
<1>14. Adoptable'
  <2> SUFFICES ASSUME NEW p \in Cores
               PROVE  \/ procs'[p].id \in lost'
                      \/ /\ record'.pid = p /\ record'.id = procs'[p].id /\ record'.gen \in files'
                         /\ procs'[p].id \in parted' \/ record'.gen = procs'[p].gen
    BY <1>6 DEF Adoptable
  <2>1. p \in Pids /\ procs'[p].id = procs[p].id
    BY <1>5 DEF Cores
  <2>2. \/ procs[p].id \in lost
        \/ /\ record.pid = p /\ record.id = procs[p].id /\ record.gen \in files
           /\ procs[p].id \in parted \/ record.gen = procs[p].gen
    BY <1>9 DEF SupInv, Adoptable
  <2>3. p = old.pid => procs'[p].id \in parted'
    BY <1>1, <1>4
  <2>4. p # old.pid => procs'[p].gen = procs[p].gen
    BY <1>4, <2>1
  <2>5. QED
    BY <1>1, <2>1, <2>2, <2>3, <2>4
<1>15. WaiterAtStep'
  <2>1. \A w : Holds(w)' <=> Holds(w)
    BY <1>1 DEF Holds, Owned
  <2>2. QED
    BY <1>1, <1>5, <1>6, <2>1 DEF SupInv, WaiterAtStep
<1>16. QED
  BY <1>6, <1>8, <1>10, <1>11, <1>12, <1>13, <1>14, <1>15 DEF SupInv

\* A reload that was accepted ends; memory follows it or not.
LEMMA ReloadEnds ==
    ASSUME SupInv, SupTypeOK', call.pc = "reload", call' = NoCall, UNCHANGED <<procs, ticks, up, host, waiters>>,
           sup' = sup \/ (sup[call.eng] # NoSup /\ sup' = [sup EXCEPT ![call.eng].gen = call.own.gen]),
           (record'.pid = record.pid /\ record'.id = record.id) \/ (record'.pid = call.own.pid /\ record'.id = call.own.id)
    PROVE  /\ up /\ host \in Engines /\ call.eng = host
           /\ sup[host] # NoSup => sup[host].id = call.own.id /\ sup[host].pid = call.own.pid
           /\ \A e \in Engines : e # host => sup[e] = NoSup /\ sup'[e] = NoSup
           /\ \A e \in Engines : /\ sup'[e].pid = sup[e].pid /\ sup'[e].id = sup[e].id /\ sup'[e].child = sup[e].child
                                 /\ sup'[e] = NoSup <=> sup[e] = NoSup
           /\ sup' # sup => sup'[host].gen = call.own.gen
           /\ Table' /\ Remembered' /\ DownIsBlank' /\ SupOfHost' /\ StartCall' /\ CallOfHost' /\ ReloadCall'
           /\ ChildWaited' /\ OneWaiter' /\ WaiterAtStep' /\ Cores' = Cores
           /\ \A p \in Cores : \/ procs[p].id \in lost
                               \/ (sup[host] # NoSup /\ p = call.own.pid /\ procs[p].id = call.own.id /\ procs[p].gen = call.own.gen)
<1>1. ~Held /\ ~Held' /\ (\A e : ~Locked(e) /\ ~Locked(e)') /\ call.pc \notin Starting
  BY Blanks DEF Held, Locked, Starting
<1>2. /\ up /\ host \in Engines /\ call.eng = host
      /\ sup[host] # NoSup => sup[host].id = call.own.id /\ sup[host].pid = call.own.pid /\ sup[host].pid \in Pids
      /\ sup \in [Engines -> Owners]
  BY <1>1, Blanks DEF SupInv, CallOfHost, DownIsBlank, SupOfHost, SupTypeOK
<1>3. \A e \in Engines : e # host => sup[e] = NoSup /\ sup'[e] = sup[e]
  BY <1>1, <1>2 DEF SupInv, SupOfHost
<1>4. /\ sup'[host].pid = sup[host].pid /\ sup'[host].id = sup[host].id /\ sup'[host].child = sup[host].child
      /\ sup' # sup => sup'[host].gen = call.own.gen /\ sup[host] # NoSup
  BY <1>2 DEF Owners
<1>5. sup'[host] = NoSup <=> sup[host] = NoSup
  BY <1>2, <1>4, Blanks, SupPidAssumption
<1>6. Table' /\ Cores' = Cores /\ (\A o : Exists(o)' <=> Exists(o)) /\ \A o : OursIfThere(o) => StillOurs(o)
  BY SameProcs
<1>7. Remembered'
  <2>1. StillOurs(record')
    BY <1>6, KnownIds DEF StillOurs
  <2>2. \A e \in Engines : StillOurs(sup'[e])
    BY <1>3, <1>4, <1>6, KnownIds DEF StillOurs
  <2>3. QED
    BY <1>6, <2>1, <2>2, Blanks, KnownIds, Nobody, StillRemembered
<1>8. DownIsBlank' /\ SupOfHost' /\ StartCall' /\ CallOfHost' /\ ReloadCall' /\ OneWaiter'
  BY <1>1, <1>2, <1>3, <1>4, <1>5, Blanks
     DEF SupInv, DownIsBlank, SupOfHost, StartCall, CallOfHost, ReloadCall, OneWaiter
<1>9. ChildWaited'
  BY <1>1, <1>2, <1>3, <1>4, <1>5 DEF SupInv, ChildWaited
<1>10. WaiterAtStep'
  <2>1. \A w \in waiters : w.eng \in Engines
    BY DEF SupInv, SupTypeOK, Waiters
  <2>2. \A w \in waiters : Holds(w)' <=> Holds(w)
    BY <1>3, <1>4, <2>1 DEF Holds, Owned
  <2>3. QED
    BY <1>6, <2>2 DEF SupInv, WaiterAtStep
<1>11. ASSUME NEW p \in Cores, procs[p].id \notin lost
       PROVE  sup[host] # NoSup /\ p = call.own.pid /\ procs[p].id = call.own.id /\ procs[p].gen = call.own.gen
  <2>1. p \in Pids /\ procs[p].st # "free" /\ sup[host].pid = p /\ sup[host].id = procs[p].id
    BY <1>1, <1>2, <1>11 DEF SupInv, SupOwnsCore, InStart, Cores
  <2>2. sup[host] # NoSup
    BY <2>1, Blanks, SupPidAssumption
  <2>3. p = call.own.pid /\ procs[p].id = call.own.id /\ Exists(call.own)
    BY <1>2, <2>1, <2>2 DEF Exists
  <2>4. QED
    BY <2>2, <2>3 DEF SupInv, ReloadCall
<1>12. QED
  BY <1>2, <1>3, <1>4, <1>5, <1>6, <1>7, <1>8, <1>9, <1>10, <1>11

LEMMA ReloadRecordedStep ==
    ASSUME SupInv, SupTypeOK', ReloadRecorded
    PROVE  SupInv'
<1>0. PICK old : old = sup[call.eng]
  OBVIOUS
<1>1. /\ call.pc = "reload" /\ old.pid # NoPid /\ call' = NoCall /\ call.eng \in Engines /\ old \in Owners
      /\ sup' = [sup EXCEPT ![call.eng].gen = call.own.gen]
      /\ record' = AsRecord([old EXCEPT !.gen = call.own.gen])
      /\ files' = files \ {old.gen} /\ parted' = parted \ {old.id} /\ lost' = lost \ {old.id}
      /\ UNCHANGED <<procs, ticks, up, host, waiters>>
  BY <1>0 DEF ReloadRecorded, SupInv, CallOfHost, SupTypeOK
<1>2. sup[call.eng] # NoSup /\ old.pid = call.own.pid /\ old.id = call.own.id
  BY <1>0, <1>1, Blanks DEF SupInv, CallOfHost
<1>3. record'.pid = call.own.pid /\ record'.id = call.own.id /\ record'.gen = call.own.gen
  BY <1>1, <1>2 DEF AsRecord, Owners
<1>4. /\ up /\ host \in Engines /\ call.eng = host /\ sup[host] # NoSup
      /\ \A e \in Engines : e # host => sup'[e] = NoSup
      /\ \A e \in Engines : sup'[e].pid = sup[e].pid /\ sup'[e].id = sup[e].id
      /\ sup'[host].gen = call.own.gen
      /\ Table' /\ Remembered' /\ DownIsBlank' /\ SupOfHost' /\ StartCall' /\ CallOfHost' /\ ReloadCall'
      /\ ChildWaited' /\ OneWaiter' /\ WaiterAtStep' /\ Cores' = Cores
      /\ \A p \in Cores : \/ procs[p].id \in lost
                          \/ (p = call.own.pid /\ procs[p].id = call.own.id /\ procs[p].gen = call.own.gen)
  <2>1. call.own.gen = sup'[call.eng].gen
    BY <1>1 DEF SupInv, SupTypeOK, Owners
  <2>2. QED
    BY <1>1, <1>2, <1>3, <2>1, ReloadEnds
<1>5. \A p \in Cores : p \in Pids /\ (procs[p].id = call.own.id => p = call.own.pid /\ procs[p].gen = call.own.gen)
  BY <1>1, <1>4, KnownIds DEF Cores, OursIfThere, SupInv, ReloadCall, Exists
<1>6. SupOwnsCore'
  BY <1>0, <1>1, <1>2, <1>4, <1>5 DEF SupOwnsCore
<1>7. RuntimesApart'
  <2>1. \A e \in Engines : Apart(sup[e])'
    BY <1>0, <1>2, <1>3, <1>4, Blanks DEF Apart
  <2>2. \A w \in waiters : Apart(w.own)'
    BY <1>1, <1>3 DEF Apart, SupInv, ReloadCall
  <2>3. QED
    BY <1>1, <2>1, <2>2 DEF RuntimesApart, Apart
<1>8. Adoptable'
  <2>1. call.own.gen \in files'
    BY <1>0, <1>1 DEF SupInv, ReloadCall
  <2>2. QED
    BY <1>1, <1>2, <1>3, <1>4, <1>5, <2>1 DEF Adoptable
<1>9. QED
  BY <1>4, <1>6, <1>7, <1>8 DEF SupInv

LEMMA ReloadFailsStep ==
    ASSUME SupInv, SupTypeOK', ReloadLost \/ ReloadUnrecorded
    PROVE  SupInv'
<1>0. PICK r : r = AsRecord([sup[call.eng] EXCEPT !.gen = call.own.gen])
  OBVIOUS
<1>1. /\ call.pc = "reload" /\ call' = NoCall /\ files' = files \ {call.own.gen}
      /\ UNCHANGED <<procs, ticks, up, host, waiters, parted>>
      /\ call.eng = host /\ host \in Engines /\ sup[host] \in Owners /\ call.own.gen \in Gens
  BY DEF ReloadLost, ReloadUnrecorded, histVars, SupInv, CallOfHost, ReloadCall, SupTypeOK
<1>2. \/ sup' = sup
      \/ sup[call.eng] # NoSup /\ sup' = [sup EXCEPT ![call.eng].gen = call.own.gen]
  BY Blanks DEF ReloadLost, ReloadUnrecorded
<1>3. \/ record' = record /\ lost' = lost
      \/ record' = r /\ lost' = lost \union {call.own.id} /\ sup[host] # NoSup
  BY <1>0, <1>1, Blanks DEF ReloadLost, ReloadUnrecorded, histVars
<1>4. sup[host] # NoSup => r.pid = call.own.pid /\ r.id = call.own.id /\ r.gen = call.own.gen
  BY <1>0, <1>1 DEF AsRecord, Owners, SupInv, CallOfHost
<1>5. /\ up
      /\ sup[host] # NoSup => sup[host].id = call.own.id
      /\ \A e \in Engines : e # host => sup'[e] = NoSup
      /\ \A e \in Engines : sup'[e].pid = sup[e].pid /\ sup'[e].id = sup[e].id /\ (sup'[e] = NoSup <=> sup[e] = NoSup)
      /\ sup' # sup => sup'[host].gen = call.own.gen
      /\ Table' /\ Remembered' /\ DownIsBlank' /\ SupOfHost' /\ StartCall' /\ CallOfHost' /\ ReloadCall'
      /\ ChildWaited' /\ OneWaiter' /\ WaiterAtStep' /\ Cores' = Cores
      /\ \A p \in Cores : \/ procs[p].id \in lost
                          \/ (sup[host] # NoSup /\ p = call.own.pid /\ procs[p].id = call.own.id /\ procs[p].gen = call.own.gen)
  <2>1. (record'.pid = record.pid /\ record'.id = record.id) \/ (record'.pid = call.own.pid /\ record'.id = call.own.id)
    BY <1>3, <1>4
  <2>2. call.pc = "reload" /\ call' = NoCall /\ UNCHANGED <<procs, ticks, up, host, waiters>>
    BY <1>1
  <2>3. QED
    BY <1>2, <2>1, <2>2, ReloadEnds
<1>6. ~Held /\ \A p : ~InStart(p)
  BY <1>1, Blanks DEF Held, InStart, Starting
<1>7. SupOwnsCore'
  BY <1>1, <1>3, <1>5, <1>6 DEF SupInv, SupOwnsCore
<1>8. RuntimesApart'
  <2>1. CASE record' = record
    <3>1. \A e \in Engines : Apart(sup[e])'
      <4>1. ASSUME NEW e \in Engines, sup'[e] = sup[e] PROVE Apart(sup[e])'
        BY <2>1, <4>1 DEF Apart, SupInv, RuntimesApart
      <4>2. ASSUME sup' # sup PROVE Apart(sup[host])'
        BY <1>1, <1>5, <2>1, <4>2 DEF Apart, SupInv, ReloadCall
      <4>3. QED
        BY <1>1, <1>2, <1>5, <4>1, <4>2, Blanks DEF Apart
    <3>2. QED
      BY <1>1, <2>1, <3>1 DEF SupInv, RuntimesApart, Apart
  <2>2. CASE record' = r /\ sup[host] # NoSup
    <3>1. \A e \in Engines : Apart(sup[e])'
      BY <1>1, <1>4, <1>5, <2>2, Blanks DEF Apart
    <3>2. \A w \in waiters : Apart(w.own)'
      BY <1>1, <1>4, <2>2 DEF Apart, SupInv, ReloadCall
    <3>3. QED
      BY <1>1, <3>1, <3>2 DEF RuntimesApart, Apart
  <2>3. QED
    BY <1>3, <2>1, <2>2
<1>9. Adoptable'
  <2>1. CASE record' = record /\ lost' = lost
    BY <1>1, <1>5, <1>6, <2>1 DEF SupInv, Adoptable, ReloadCall
  <2>2. CASE lost' = lost \union {call.own.id}
    BY <1>1, <1>5, <2>2 DEF Adoptable
  <2>3. QED
    BY <1>3, <2>1, <2>2
<1>10. QED
  BY <1>5, <1>7, <1>8, <1>9 DEF SupInv

-----------------------------------------------------------------------------
(* The goroutine that waits for a process.                                 *)

LEMMA WaiterReapsStep ==
    ASSUME SupInv, SupTypeOK', NEW w \in waiters, WaiterReaps(w)
    PROVE  SupInv'
<1>0. PICK next : next = [w EXCEPT !.pc = "lock"]
  OBVIOUS
<1>1. /\ w \in Waiters /\ w.pc = "wait" /\ w.own.pid \in Pids
      /\ procs[w.own.pid].id = w.own.id /\ procs[w.own.pid].st = "zombie"
      /\ procs' = [procs EXCEPT ![w.own.pid] = FreeProc]
      /\ waiters' = (waiters \ {w}) \union {next}
      /\ UNCHANGED <<ticks, record, files, up, sup, host, call, lost, parted>>
  BY <1>0 DEF WaiterReaps, Move, histVars, SupInv, SupTypeOK, WaiterAtStep
<1>2. next.own = w.own /\ next.eng = w.eng /\ next.pc = "lock"
  BY <1>0, <1>1, WaiterFields
<1>3. /\ \A q \in Pids : q # w.own.pid => procs'[q] = procs[q]
      /\ procs'[w.own.pid] = FreeProc
  BY <1>1 DEF SupInv, SupTypeOK
<1>31. FreeProc.st = "free" /\ FreeProc.gen = NoGen
  BY DEF FreeProc
<1>4. Fewer
  <2>1. procs[w.own.pid].gen # "foreign"
    BY <1>1 DEF SupInv, Table
  <2>2. QED
    BY <1>3, <1>31, <2>1, SupGensAssumption DEF Fewer
<1>5. Table' /\ \A o : OursIfThere(o) => StillOurs(o)
  BY <1>1, <1>4, FewerTable, FewerOurs
<1>6. Cores' = Cores /\ \A p \in Cores : procs'[p] = procs[p]
  BY <1>1, <1>3, <1>31 DEF Cores
<1>7. \A o : o.id # w.own.id => /\ Exists(o)' <=> Exists(o)
                                /\ Exists(o) => procs'[o.pid] = procs[o.pid]
  <2> SUFFICES ASSUME NEW o, o.id # w.own.id
               PROVE  /\ (o.pid \in Pids /\ procs'[o.pid].st # "free" /\ procs'[o.pid].id = o.id) <=> Exists(o)
                      /\ Exists(o) => procs'[o.pid] = procs[o.pid]
    BY DEF Exists
  <2>1. QED
    BY <1>1, <1>3, <1>31 DEF Exists
<1>8. \A o : Exists(o)' => Exists(o)
  BY <1>4 DEF Fewer, Exists
<1>9. Remembered'
  BY <1>1, <1>2, <1>5, KnownIds, StillRemembered
<1>10. DownIsBlank' /\ SupOfHost' /\ CallOfHost'
  BY <1>1 DEF SupInv, DownIsBlank, SupOfHost, Held, CallOfHost
<1>11. SupOwnsCore' /\ Adoptable'
  BY <1>1, <1>6 DEF SupInv, SupOwnsCore, Adoptable, InStart
<1>12. StartCall'
  <2>1. CASE call.pc \in Starting
    <3>1. call.own.id # w.own.id
      BY <2>1 DEF SupInv, StartCall
    <3>2. /\ Exists(call.own)' <=> Exists(call.own)
          /\ Exists(call.own) => procs'[call.own.pid] = procs[call.own.pid]
      BY <1>1, <1>7, <3>1 DEF Exists
    <3>3. \A v \in waiters' : v.own.id # call.own.id /\ v.own.gen # call.own.gen
      BY <1>1, <1>2, <2>1 DEF SupInv, StartCall
    <3>4. QED
      BY <1>1, <2>1, <3>2, <3>3 DEF SupInv, StartCall, Held
  <2>2. CASE call.pc \notin Starting
    BY <1>1, <2>2 DEF StartCall
  <2>3. QED
    BY <2>1, <2>2
<1>13. ReloadCall'
  <2>1. Exists(call.own)' => Exists(call.own) /\ procs'[call.own.pid].gen = procs[call.own.pid].gen
    BY <1>1, <1>4 DEF Exists, Fewer
  <2>2. \A v \in waiters' : \E u \in waiters : v.own = u.own
    BY <1>1, <1>2
  <2>3. QED
    BY <1>1, <2>1, <2>2 DEF SupInv, ReloadCall
<1>14. RuntimesApart'
  BY <1>1, <1>2 DEF SupInv, RuntimesApart, Apart
<1>15. ChildWaited'
  <2>1. \A v \in waiters : v # w => v \in waiters'
    BY <1>1
  <2>2. \A e \in Engines : Locked(e)' = Locked(e)
    BY <1>1 DEF Locked
  <2>3. QED
    BY <1>1, <1>2, <2>1, <2>2 DEF SupInv, ChildWaited
<1>16. OneWaiter'
  BY <1>1, <1>2 DEF SupInv, OneWaiter
<1>17. WaiterAtStep'
  <2>1. \A v : Holds(v)' <=> Holds(v)
    BY <1>1 DEF Holds, Owned
  <2>2. Holds(w) /\ (Holds(next) <=> Holds(w))
    BY <1>1, <1>2 DEF SupInv, WaiterAtStep, Holds, Owned
  <2> SUFFICES ASSUME NEW v \in waiters'
               PROVE  /\ v.own.pid \in Pids
                      /\ v.pc = "wait" => Exists(v.own)' /\ procs'[v.own.pid].child /\ Holds(v)'
                      /\ v.pc # "wait" => ~Exists(v.own)'
                      /\ v.pc = "lock" /\ v.own.child => Holds(v)'
    BY DEF WaiterAtStep
  <2>3. CASE v \in waiters /\ v # w
    <3>1. v.own.id # w.own.id
      BY <2>3 DEF SupInv, OneWaiter
    <3>2. QED
      BY <1>7, <2>1, <2>3, <3>1 DEF SupInv, WaiterAtStep
  <2>4. CASE v = next
    <3>1. ~Exists(v.own)'
      BY <1>2, <1>3, <1>31, <2>4 DEF Exists
    <3>2. QED
      BY <1>1, <1>2, <2>1, <2>2, <2>4, <3>1
  <2>5. QED
    BY <1>1, <2>3, <2>4
<1>18. QED
  BY <1>5, <1>9, <1>10, <1>11, <1>12, <1>13, <1>14, <1>15, <1>16, <1>17 DEF SupInv

\* The process is gone when its waiter takes the lock.
LEMMA WaiterClearsStep ==
    ASSUME SupInv, SupTypeOK', NEW w \in waiters, WaiterClears(w)
    PROVE  SupInv'
<1>1. /\ w \in Waiters /\ w.pc = "lock" /\ ~Locked(w.eng) /\ w.own.pid \in Pids /\ ~Exists(w.own) /\ w.eng \in Engines
      /\ UNCHANGED <<procs, ticks, record, files, up, host, call, lost, parted>>
      /\ sup \in [Engines -> Owners] /\ w.own \in Owners
  BY WaiterFields DEF WaiterClears, histVars, SupInv, SupTypeOK, WaiterAtStep
<1>2. Table' /\ Cores' = Cores /\ (\A o : Exists(o)' <=> Exists(o)) /\ \A o : OursIfThere(o) => StillOurs(o)
  BY <1>1, SameProcs
<1>3. Owned(w) => sup[w.eng] # NoSup /\ w.eng = host /\ ~Held
  BY <1>1, Blanks, SupPidAssumption DEF Owned, SupInv, SupOfHost, Held, Locked
<1>4. PICK g : g = IF ~Owned(w) THEN NoGen ELSE IF w.own.child THEN sup[w.eng].gen ELSE w.own.gen
  OBVIOUS
<1>5. g \in Gens \union {NoGen}
  BY <1>1, <1>4 DEF Owners
<1>6. PICK next : next = Cleaning(w, g)
  OBVIOUS
<1>7. next.eng = w.eng /\ next.pc = "record" /\ next.own.pid = w.own.pid /\ next.own.id = w.own.id /\ next.own.gen = g
  <2>1. next.own.gen = g
    BY <1>1, <1>6 DEF Cleaning, Owners
  <2>2. QED
    BY <1>1, <1>5, <1>6, <2>1, CleaningFields
<1>8. waiters' = (waiters \ {w}) \union {next} \/ waiters' = waiters \ {w}
  BY <1>4, <1>6 DEF WaiterClears
<1>9. \A v \in waiters' : (v \in waiters /\ v # w) \/ v = next
  BY <1>8
<1>10. IF Owned(w) THEN sup' = [sup EXCEPT ![w.eng] = NoSup] ELSE sup' = sup
  BY DEF WaiterClears
<1>11. \A e \in Engines : sup'[e] = IF Owned(w) /\ e = w.eng THEN NoSup ELSE sup[e]
  BY <1>1, <1>10
<1>12. Remembered'
  <2>1. \A v \in waiters' : StillOurs(v.own)
    BY <1>2, <1>7, <1>9, KnownIds DEF StillOurs
  <2>2. QED
    BY <1>1, <1>2, <1>11, <2>1, KnownIds, Nobody, StillRemembered
<1>13. DownIsBlank' /\ SupOfHost' /\ CallOfHost'
  BY <1>1, <1>11 DEF SupInv, DownIsBlank, SupOfHost, Held, CallOfHost
<1>14. SupOwnsCore' /\ Adoptable'
  <2>1. \A p \in Cores : InStart(p)' <=> InStart(p)
    BY <1>1 DEF InStart
  <2>2. Adoptable'
    BY <1>1, <1>2, <2>1 DEF SupInv, Adoptable
  <2>3. \A p \in Cores : ~(Owned(w) /\ host = w.eng /\ sup[host].pid = p /\ sup[host].id = procs[p].id)
    BY <1>1 DEF Owned, Exists, Cores
  <2>4. SupOwnsCore'
    BY <1>1, <1>2, <1>11, <2>1, <2>3 DEF SupInv, SupOwnsCore
  <2>5. QED
    BY <2>2, <2>4
<1>15. StartCall'
  <2>1. CASE call.pc \in Starting
    <3>1. call.own.gen \in Gens /\ (g = NoGen \/ g # call.own.gen)
      BY <1>3, <1>4, <2>1, SupEngineAssumption, SupGensAssumption, <1>1 DEF SupInv, StartCall
    <3>2. \A v \in waiters' : v.own.id # call.own.id /\ v.own.gen # call.own.gen
      BY <1>7, <1>9, <2>1, <3>1, SupGensAssumption DEF SupInv, StartCall
    <3>3. Held' <=> Held
      BY <1>1 DEF Held
    <3>4. sup'[call.eng] = sup[call.eng] \/ ~Held
      BY <1>3, <1>11, <2>1 DEF SupInv, StartCall
    <3>5. Exists(call.own)' <=> Exists(call.own)
      BY <1>1 DEF Exists
    <3>6. QED
      BY <1>1, <2>1, <3>2, <3>3, <3>4, <3>5 DEF SupInv, StartCall
  <2>2. CASE call.pc \notin Starting
    BY <1>1, <2>2 DEF StartCall
  <2>3. QED
    BY <2>1, <2>2
<1>16. ReloadCall'
  <2>1. CASE call.pc = "reload"
    <3>1. /\ call.own.gen \in Gens /\ \A v \in waiters : v.own.gen # call.own.gen
          /\ \A e \in Engines : sup[e].gen # call.own.gen
      BY <2>1 DEF SupInv, ReloadCall
    <3>2. g # call.own.gen
      BY <1>1, <1>4, <3>1, SupGensAssumption
    <3>3. Exists(call.own)' <=> Exists(call.own)
      BY <1>1 DEF Exists
    <3>4. (\A v \in waiters' : v.own.gen # call.own.gen) /\ \A e \in Engines : sup'[e].gen # call.own.gen
      BY <1>7, <1>9, <1>11, <3>1, <3>2, Blanks, SupGensAssumption
    <3>5. QED
      BY <1>1, <2>1, <3>3, <3>4 DEF SupInv, ReloadCall
  <2>2. CASE call.pc # "reload"
    BY <1>1, <2>2 DEF ReloadCall
  <2>3. QED
    BY <2>1, <2>2
<1>17. RuntimesApart'
  <2>1. g = record.gen /\ g # NoGen => w.own.id = record.id
    BY <1>1, <1>4 DEF SupInv, RuntimesApart, Apart, Owned
  <2>2. \A v \in waiters' : v.own.gen = record.gen /\ v.own.gen # NoGen => v.own.id = record.id
    BY <1>7, <1>9, <2>1 DEF SupInv, RuntimesApart, Apart
  <2>3. \A e \in Engines : sup'[e].gen = record.gen /\ sup'[e].gen # NoGen => sup'[e].id = record.id
    BY <1>11, Blanks DEF SupInv, RuntimesApart, Apart
  <2>4. QED
    BY <1>1, <2>2, <2>3 DEF RuntimesApart, Apart
<1>18. ChildWaited'
  <2> SUFFICES ASSUME NEW e \in Engines, sup'[e] # NoSup, sup'[e].child, ~Locked(e)'
               PROVE  \E v \in waiters' : /\ v.eng = e /\ v.own.child /\ v.own.id = sup'[e].id /\ v.own.pid = sup'[e].pid
                                          /\ v.pc \in {"wait", "lock"}
    BY DEF ChildWaited
  <2>1. sup'[e] = sup[e] /\ ~(Owned(w) /\ e = w.eng)
    BY <1>11
  <2>2. ~Locked(e)
    BY <1>1 DEF Locked
  <2>3. PICK v \in waiters : /\ v.eng = e /\ v.own.child /\ v.own.id = sup[e].id /\ v.own.pid = sup[e].pid
                             /\ v.pc \in {"wait", "lock"}
    BY <2>1, <2>2 DEF SupInv, ChildWaited
  <2>4. v # w
    BY <2>1, <2>3 DEF Owned
  <2>5. v \in waiters'
    BY <1>8, <2>4
  <2>6. QED
    BY <2>1, <2>3, <2>5
<1>19. OneWaiter'
  BY <1>7, <1>9 DEF SupInv, OneWaiter
<1>20. WaiterAtStep'
  <2> SUFFICES ASSUME NEW v \in waiters'
               PROVE  /\ v.own.pid \in Pids
                      /\ v.pc = "wait" => Exists(v.own)' /\ procs'[v.own.pid].child /\ Holds(v)'
                      /\ v.pc # "wait" => ~Exists(v.own)'
                      /\ v.pc = "lock" /\ v.own.child => Holds(v)'
    BY DEF WaiterAtStep
  <2>1. CASE v \in waiters /\ v # w
    <3>1. v.own.id # w.own.id /\ v.eng \in Engines
      BY <2>1 DEF SupInv, OneWaiter, SupTypeOK, Waiters
    <3>2. Holds(v) => Holds(v)'
      BY <1>11, <3>1 DEF Holds, Owned
    <3>3. QED
      BY <1>1, <1>2, <2>1, <3>2 DEF SupInv, WaiterAtStep
  <2>2. CASE v = next
    <3>1. ~Exists(v.own)'
      BY <1>1, <1>7, <2>2 DEF Exists
    <3>2. QED
      BY <1>1, <1>7, <2>2, <3>1
  <2>3. QED
    BY <1>9, <2>1, <2>2
<1>21. QED
  BY <1>2, <1>12, <1>13, <1>14, <1>15, <1>16, <1>17, <1>18, <1>19, <1>20 DEF SupInv

\* Whoever is recorded by now has lost its record, and no runtime of a live core goes.
LEMMA WaiterFinishesStep ==
    ASSUME SupInv, SupTypeOK', NEW w \in waiters, WaiterUnrecords(w) \/ WaiterCleans(w)
    PROVE  SupInv'
<1>0. PICK next : next = [w EXCEPT !.pc = "files"]
  OBVIOUS
<1>1. /\ w \in Waiters /\ w.pc \in {"record", "files"} /\ w.own.pid \in Pids /\ ~Exists(w.own)
      /\ UNCHANGED <<procs, ticks, up, sup, host, call, parted>>
      /\ \/ UNCHANGED <<record, lost>> /\ files' = files \ {w.own.gen}
         \/ record' = NoRecord /\ lost' = lost \union ({record.id} \ {0, w.own.id}) /\ files' = files
  BY DEF WaiterUnrecords, WaiterCleans, Unrecord, histVars, SupInv, SupTypeOK, WaiterAtStep
<1>2. next.own = w.own /\ next.pc = "files" /\ next.eng = w.eng
  BY <1>0, <1>1, WaiterFields
<1>3. waiters' = (waiters \ {w}) \union {next} \/ waiters' = waiters \ {w}
  BY <1>0 DEF WaiterUnrecords, WaiterCleans, Move
<1>4. Table' /\ Cores' = Cores /\ (\A o : Exists(o)' <=> Exists(o)) /\ \A o : OursIfThere(o) => StillOurs(o)
  BY <1>1, SameProcs
<1>5. \A v \in waiters' : (v \in waiters /\ v # w) \/ v = next
  BY <1>3
<1>6. Remembered'
  BY <1>1, <1>2, <1>4, <1>5, KnownIds, Nobody, StillRemembered
<1>7. DownIsBlank' /\ SupOfHost' /\ CallOfHost'
  BY <1>1, <1>3 DEF SupInv, DownIsBlank, SupOfHost, Held, CallOfHost
<1>8. \A p \in Cores : procs[p].id # w.own.id /\ procs[p].id # 0
  BY <1>1, KnownIds DEF SupInv, Table, Cores, OursIfThere, Exists
<1>9. Adoptable'
  <2>1. \A p \in Cores : InStart(p)' <=> InStart(p)
    BY <1>1 DEF InStart
  <2>2. CASE UNCHANGED <<record, lost>> /\ files' = files \ {w.own.gen}
    <3>1. \A p \in Cores : record.id = procs[p].id /\ record.gen \in files => record.gen # w.own.gen
      BY <1>8, SupGensAssumption DEF SupInv, RuntimesApart, Apart, SupTypeOK
    <3>2. QED
      BY <1>1, <1>4, <2>1, <2>2, <3>1 DEF SupInv, Adoptable
  <2>3. CASE lost' = lost \union ({record.id} \ {0, w.own.id})
    <3>1. \A p \in Cores : record.id = procs[p].id => procs[p].id \in lost'
      BY <1>8, <2>3
    <3>2. QED
      BY <1>1, <1>4, <2>1, <2>3, <3>1 DEF SupInv, Adoptable
  <2>4. QED
    BY <1>1, <2>2, <2>3
<1>10. SupOwnsCore'
  BY <1>1, <1>4 DEF SupInv, SupOwnsCore, InStart
<1>11. StartCall'
  <2>1. CASE call.pc \in Starting
    <3>1. \A v \in waiters' : v.own.id # call.own.id /\ v.own.gen # call.own.gen
      BY <1>2, <1>5, <2>1 DEF SupInv, StartCall
    <3>2. call.own.gen \in files'
      BY <1>1, <2>1 DEF SupInv, StartCall
    <3>3. record'.id = call.own.id => record' = AsRecord(call.own)
      BY <1>1, <2>1, Blanks DEF SupInv, StartCall
    <3>4. Exists(call.own)' <=> Exists(call.own)
      BY <1>1 DEF Exists
    <3>5. QED
      BY <1>1, <2>1, <3>1, <3>2, <3>3, <3>4 DEF SupInv, StartCall, Held
  <2>2. CASE call.pc \notin Starting
    BY <1>1, <2>2 DEF StartCall
  <2>3. QED
    BY <2>1, <2>2
<1>12. ReloadCall'
  <2>1. \A v \in waiters' : \E u \in waiters : v.own = u.own
    BY <1>2, <1>5
  <2>2. call.pc = "reload" => record'.gen # call.own.gen /\ call.own.gen \in files'
    BY <1>1, Blanks, SupGensAssumption DEF SupInv, ReloadCall
  <2>3. Exists(call.own)' <=> Exists(call.own)
    BY <1>1 DEF Exists
  <2>4. QED
    BY <1>1, <2>1, <2>2, <2>3 DEF SupInv, ReloadCall
<1>13. RuntimesApart'
  <2>1. CASE record' = record
    BY <1>1, <1>2, <1>5, <2>1 DEF SupInv, RuntimesApart, Apart
  <2>2. CASE record' = NoRecord
    BY <2>2, Blanks DEF RuntimesApart, Apart
  <2>3. QED
    BY <1>1, <2>1, <2>2
<1>14. ChildWaited'
  <2>1. \A v \in waiters : v.pc \in {"wait", "lock"} => v \in waiters'
    BY <1>1, <1>3
  <2>2. QED
    BY <1>1, <2>1 DEF SupInv, ChildWaited, Locked
<1>15. OneWaiter'
  BY <1>2, <1>5 DEF SupInv, OneWaiter
<1>16. WaiterAtStep'
  <2>1. \A v : Holds(v)' <=> Holds(v)
    BY <1>1 DEF Holds, Owned
  <2>2. QED
    BY <1>1, <1>2, <1>4, <1>5, <2>1 DEF SupInv, WaiterAtStep
<1>17. QED
  BY <1>4, <1>6, <1>7, <1>9, <1>10, <1>11, <1>12, <1>13, <1>14, <1>15, <1>16 DEF SupInv

-----------------------------------------------------------------------------
(* Stopping.                                                               *)

\* The process a stop works on is a core of ours, or gone.
LEMMA CalledProcess ==
    ASSUME SupInv, Executing(call.own)
    PROVE  call.own.pid \in Pids /\ procs[call.own.pid].gen \in Gens /\ procs[call.own.pid].st = "alive"
BY DEF Executing, SupInv, Remembered, OursIfThere

LEMMA StopBeginsStep ==
    ASSUME SupInv, SupTypeOK', StopNothing \/ StopBegin
    PROVE  SupInv'
<1>1. /\ up /\ up' /\ host \in Engines /\ call = NoCall
      /\ UNCHANGED <<procs, ticks, record, files, sup, waiters, lost, parted>>
  BY DEF StopNothing, StopBegin, CanCall, histVars, SupInv, SupTypeOK
<1>2. \/ host' = NoEngine /\ call' = NoCall /\ sup[host].pid = NoPid
      \/ host' = host /\ call' = [pc |-> "term", eng |-> host, own |-> sup[host]]
  <2>1. CASE StopNothing
    BY <1>1, <2>1 DEF StopNothing
  <2>2. CASE StopBegin
    BY <2>2 DEF StopBegin
  <2>3. QED
    BY <2>1, <2>2
<1>3. /\ call'.pc \in {"none", "term"} /\ call'.own \in {NoSup, sup[host]}
      /\ call'.pc = "term" => call'.eng = host /\ call'.own = sup[host] /\ host' = host
  BY <1>2, Blanks
<1>31. {"none", "term"} \cap (Starting \union {"reload"}) = {}
  BY DEF Starting
<1>4. Table' /\ Cores' = Cores /\ (\A o : Exists(o)' <=> Exists(o)) /\ \A o : OursIfThere(o) => StillOurs(o)
  BY <1>1, SameProcs
<1>5. ~Held' /\ (\A e : ~Locked(e)') /\ \A p : ~InStart(p)'
  BY <1>3, <1>31 DEF Held, Locked, InStart
<1>6. Remembered'
  BY <1>1, <1>3, <1>4, KnownIds, Nobody, StillRemembered
<1>7. DownIsBlank' /\ StartCall' /\ ReloadCall' /\ RuntimesApart' /\ OneWaiter' /\ WaiterAtStep' /\ ChildWaited'
  <2>1. \A w : Holds(w)' <=> Holds(w)
    BY <1>1 DEF Holds, Owned
  <2>2. \A e : ~Locked(e)
    BY <1>1, Idle
  <2>3. QED
    BY <1>1, <1>3, <1>31, <1>4, <1>5, <2>1, <2>2
       DEF SupInv, DownIsBlank, StartCall, ReloadCall, RuntimesApart, Apart, OneWaiter, WaiterAtStep, ChildWaited
<1>8. CallOfHost'
  BY <1>1, <1>3, Blanks DEF CallOfHost
<1>9. \A e \in Engines : sup[e] # NoSup => e = host /\ sup[e].pid \in Pids
  BY <1>1, Idle
<1>10. SupOfHost'
  BY <1>1, <1>2, <1>5, <1>9, SupPidAssumption DEF SupOfHost
<1>11. \A p \in Cores : p \in Pids /\ ~InStart(p)
  BY <1>1, Idle DEF Cores
<1>12. SupOwnsCore'
  BY <1>1, <1>2, <1>4, <1>11, SupPidAssumption DEF SupInv, SupOwnsCore
<1>13. Adoptable'
  BY <1>1, <1>4, <1>11 DEF SupInv, Adoptable
<1>14. QED
  BY <1>4, <1>6, <1>7, <1>8, <1>10, <1>12, <1>13 DEF SupInv

LEMMA KillsCalled ==
    ASSUME StopTerm \/ StopKill \/ StopCancelled
    PROVE  procs' = procs \/ (Executing(call.own) /\ procs' = Exit(call.own.pid, procs))
<1>1. CASE StopTerm
  BY <1>1 DEF StopTerm
<1>2. CASE StopKill
  BY <1>2 DEF StopKill
<1>3. CASE StopCancelled
  BY <1>3 DEF StopCancelled
<1>4. QED
  BY <1>1, <1>2, <1>3

LEMMA StopSignalsStep ==
    ASSUME SupInv, SupTypeOK', StopTerm \/ StopKill \/ StopCancelled
    PROVE  SupInv'
<1>1. /\ UNCHANGED <<ticks, record, files, up, sup, host, waiters, lost, parted>>
      /\ call.pc \in Stopping
  BY DEF StopTerm, StopKill, StopCancelled, histVars, Stopping
<1>2. call' = NoCall \/ (call'.pc \in Stopping /\ call'.own = call.own /\ call'.eng = call.eng)
  <2>1. call \in Calls /\ {"wait", "killed", "gone"} \subseteq Stopping
    BY DEF SupInv, SupTypeOK, Stopping
  <2>2. \A pc \in {"wait", "killed", "gone"} : [call EXCEPT !.pc = pc] = [pc |-> pc, eng |-> call.eng, own |-> call.own]
    BY <2>1, CallFields
  <2>3. call' = NoCall \/ \E pc \in {"wait", "killed", "gone"} : call' = [call EXCEPT !.pc = pc]
    BY DEF StopTerm, StopKill, StopCancelled
  <2>4. QED
    BY <2>1, <2>2, <2>3
<1>3. call.pc \notin Starting \union {"reload"} /\ call'.pc \notin Starting \union {"reload"} /\ call'.own \in {call.own, NoSup}
  BY <1>1, <1>2, Blanks
<1>4. \A c \in {"identify", "record"} : c \in Starting
  BY DEF Starting
<1>5. procs' = procs \/ (Executing(call.own) /\ procs' = Exit(call.own.pid, procs))
  BY KillsCalled
<1>6. /\ Fewer /\ Table' /\ SupOfHost' /\ SupOwnsCore' /\ StartCall' /\ ReloadCall' /\ RuntimesApart'
      /\ ChildWaited' /\ OneWaiter' /\ WaiterAtStep' /\ Adoptable'
  <2>1. CASE procs' = procs
    <3>1. Fewer
      BY <2>1 DEF Fewer
    <3>2. Table' /\ Cores' = Cores /\ \A o : Exists(o)' <=> Exists(o)
      BY <1>1, <2>1, SameProcs
    <3>3. ~Held /\ ~Held' /\ (\A e : ~Locked(e) /\ ~Locked(e)') /\ \A p : ~InStart(p) /\ ~InStart(p)'
      BY <1>3, <1>4 DEF Held, Locked, InStart
    <3>4. \A w : Holds(w)' <=> Holds(w)
      BY <1>1 DEF Holds, Owned
    <3>5. SupOfHost' /\ SupOwnsCore' /\ Adoptable' /\ ChildWaited'
      BY <1>1, <2>1, <3>2, <3>3 DEF SupInv, SupOfHost, SupOwnsCore, Adoptable, ChildWaited
    <3>6. StartCall' /\ ReloadCall' /\ RuntimesApart' /\ OneWaiter' /\ WaiterAtStep'
      BY <1>1, <1>3, <2>1, <3>2, <3>4
         DEF SupInv, StartCall, ReloadCall, RuntimesApart, Apart, OneWaiter, WaiterAtStep
    <3>7. QED
      BY <3>1, <3>2, <3>5, <3>6
  <2>2. CASE Executing(call.own) /\ procs' = Exit(call.own.pid, procs)
    BY <1>1, <1>3, <2>2, CalledProcess, ExitKeeps DEF histVars
  <2>3. QED
    BY <1>5, <2>1, <2>2
<1>7. Remembered'
  BY <1>1, <1>3, <1>6, FewerOurs, KnownIds, Nobody, StillRemembered
<1>8. DownIsBlank' /\ CallOfHost'
  <2>1. up
    BY <1>1, Blanks DEF SupInv, DownIsBlank
  <2>2. QED
    BY <1>1, <1>2, <2>1, Blanks DEF SupInv, DownIsBlank, CallOfHost
<1>9. QED
  BY <1>6, <1>7, <1>8 DEF SupInv

\* A stop is over only when its process is: nothing is owned and nothing owned runs.
LEMMA StopDoneStep ==
    ASSUME SupInv, SupTypeOK', StopDone
    PROVE  SupInv'
<1>1. /\ call.pc \in Stopping /\ call.eng = host /\ host \in Engines /\ up /\ Gone /\ host' = NoEngine /\ call' = NoCall
      /\ sup[host] # NoSup => sup[host].pid = call.own.pid /\ sup[host].id = call.own.id /\ sup[host].child = call.own.child
      /\ UNCHANGED <<procs, ticks, up, waiters, parted>>
      /\ sup \in [Engines -> Owners]
  BY Blanks DEF StopDone, Stopping, SupInv, CallOfHost, DownIsBlank, SupTypeOK
<1>2. record' \in {record, NoRecord} /\ lost \subseteq lost'
  BY DEF StopDone, Unrecord
<1>3. ~Held /\ \A e : ~Locked(e)
  BY <1>1, Blanks DEF Held, Locked, Starting
<1>4. \A e \in Engines : e # host => sup[e] = NoSup
  BY <1>3 DEF SupInv, SupOfHost
<1>5. call.own.child => sup[host] = NoSup
  <2> SUFFICES ASSUME call.own.child, sup[host] # NoSup PROVE FALSE
    OBVIOUS
  <2>1. \A w \in waiters : w.own.id # call.own.id
    BY <1>1 DEF Gone
  <2>2. sup[host].child /\ ~Locked(host) /\ sup[host].id = call.own.id
    BY <1>1, <1>3
  <2>3. \E w \in waiters : w.own.id = sup[host].id
    BY <1>1, <2>2 DEF SupInv, ChildWaited
  <2>4. QED
    BY <2>1, <2>2, <2>3
<1>6. \A e \in Engines : sup'[e] = NoSup
  <2>1. CASE call.own.child
    BY <1>4, <1>5, <2>1 DEF StopDone
  <2>2. CASE ~call.own.child
    <3>1. sup' = [sup EXCEPT ![host] = IF sup[host].pid = call.own.pid /\ sup[host].id = call.own.id THEN NoSup ELSE sup[host]]
      BY <1>1, <2>2 DEF StopDone
    <3>2. QED
      BY <1>1, <1>4, <3>1
  <2>3. QED
    BY <2>1, <2>2
<1>7. Table' /\ Cores' = Cores /\ (\A o : Exists(o)' <=> Exists(o)) /\ \A o : OursIfThere(o) => StillOurs(o)
  BY <1>1, SameProcs
<1>8. \A p \in Cores : procs[p].id \in lost
  <2> SUFFICES ASSUME NEW p \in Cores, procs[p].id \notin lost PROVE FALSE
    OBVIOUS
  <2>1. p \in Pids /\ procs[p].st # "free" /\ sup[host].pid = p /\ sup[host].id = procs[p].id
    BY <1>1, Blanks DEF SupInv, SupOwnsCore, InStart, Cores
  <2>2. sup[host] # NoSup
    BY <2>1, Blanks, SupPidAssumption
  <2>3. ~call.own.child /\ Exists(call.own)
    BY <1>1, <1>5, <2>1, <2>2 DEF Exists
  <2>4. QED
    BY <1>1, <2>3 DEF Gone
<1>9. SupOwnsCore' /\ Adoptable'
  BY <1>1, <1>2, <1>7, <1>8 DEF SupOwnsCore, Adoptable
<1>10. Remembered'
  BY <1>1, <1>2, <1>6, <1>7, Blanks, KnownIds, Nobody, StillRemembered
<1>11. DownIsBlank' /\ StartCall' /\ CallOfHost' /\ ReloadCall' /\ SupOfHost' /\ ChildWaited' /\ OneWaiter'
  BY <1>1, <1>6, Blanks
     DEF SupInv, DownIsBlank, StartCall, CallOfHost, ReloadCall, SupOfHost, ChildWaited, OneWaiter
<1>12. RuntimesApart'
  BY <1>1, <1>2, <1>6, Blanks DEF SupInv, RuntimesApart, Apart
<1>13. WaiterAtStep'
  <2> SUFFICES ASSUME NEW w \in waiters
               PROVE  /\ w.own.pid \in Pids /\ w.pc # "wait" /\ ~Exists(w.own) /\ ~(w.pc = "lock" /\ w.own.child)
    BY <1>1, <1>7 DEF WaiterAtStep
  <2>1. w.own.pid \in Pids /\ w.eng \in Engines
    BY DEF SupInv, WaiterAtStep, SupTypeOK, Waiters
  <2>2. ASSUME Holds(w) PROVE ~call.own.child /\ ~Exists(w.own) /\ ~w.own.child
    <3>1. w.eng = host /\ sup[host] # NoSup
      BY <1>4, <2>1, <2>2, Blanks, SupPidAssumption DEF Holds, Owned
    <3>2. w.own.pid = call.own.pid /\ w.own.id = call.own.id /\ ~call.own.child /\ ~w.own.child
      BY <1>1, <1>5, <2>2, <3>1 DEF Holds, Owned
    <3>3. ~Exists(call.own)
      BY <1>1, <3>2 DEF Gone
    <3>4. QED
      BY <3>2, <3>3 DEF Exists
  <2>3. QED
    BY <2>1, <2>2 DEF SupInv, WaiterAtStep
<1>14. QED
  BY <1>7, <1>9, <1>10, <1>11, <1>12, <1>13 DEF SupInv

-----------------------------------------------------------------------------
(* The manager ends and the next one comes up.                             *)

LEMMA ManagerEndsStep ==
    ASSUME SupInv, SupTypeOK', ManagerEnds
    PROVE  SupInv'
<1>1. /\ ~up' /\ waiters' = {} /\ call' = NoCall /\ host' = NoEngine
      /\ \A e \in Engines : sup'[e] = NoSup
      /\ lost' = IF call.pc \in Starting /\ record.id # call.own.id THEN lost \union {call.own.id} ELSE lost
      /\ UNCHANGED <<ticks, record, files, parted>>
  BY DEF ManagerEnds
<1>2. \A p \in Pids : \/ procs'[p] = procs[p]
                     \/ (procs[p].st = "zombie" /\ procs'[p] = FreeProc)
                     \/ procs'[p] = [procs[p] EXCEPT !.child = FALSE]
  BY DEF ManagerEnds
<1>3. \A p \in Pids : LET orphan == [procs[p] EXCEPT !.child = FALSE]
                       IN orphan.id = procs[p].id /\ orphan.gen = procs[p].gen /\ orphan.st = procs[p].st /\ ~orphan.child
  BY DEF SupInv, SupTypeOK, Procs
<1>4. \A p \in Pids : procs[p].gen = "foreign" => [procs[p] EXCEPT !.child = FALSE] = procs[p]
  BY DEF SupInv, SupTypeOK, Procs, Table
<1>5. Fewer
  <2> SUFFICES ASSUME NEW q \in Pids
               PROVE  /\ procs[q].gen = "foreign" => procs'[q] = procs[q]
                      /\ procs'[q].gen = "foreign" => procs'[q] = procs[q]
                      /\ procs'[q].st # "free" => /\ procs[q].st # "free" /\ procs'[q].id = procs[q].id
                                                  /\ procs'[q].gen = procs[q].gen
                      /\ procs'[q].st = "alive" => procs[q].st = "alive"
    BY DEF Fewer
  <2>1. CASE procs'[q] = procs[q]
    BY <2>1
  <2>2. CASE procs[q].st = "zombie" /\ procs'[q] = FreeProc
    BY <2>2, SupGensAssumption DEF FreeProc, SupInv, Table
  <2>3. CASE procs'[q] = [procs[q] EXCEPT !.child = FALSE]
    BY <1>3, <1>4, <2>3
  <2>4. QED
    BY <1>2, <2>1, <2>2, <2>3
<1>6. /\ Table' /\ \A q \in Cores' : q \in Cores /\ procs'[q].id = procs[q].id /\ procs'[q].gen = procs[q].gen
      /\ \A o : OursIfThere(o) => StillOurs(o)
  BY <1>1, <1>5, FewerTable, FewerOurs
<1>7. Remembered'
  BY <1>1, <1>6, Blanks, KnownIds, Nobody, StillRemembered
<1>8. /\ DownIsBlank' /\ SupOfHost' /\ SupOwnsCore' /\ StartCall' /\ CallOfHost' /\ ReloadCall' /\ ChildWaited'
      /\ OneWaiter' /\ WaiterAtStep'
  BY <1>1, Blanks
     DEF DownIsBlank, SupOfHost, SupOwnsCore, StartCall, CallOfHost, ReloadCall, ChildWaited, OneWaiter, WaiterAtStep
<1>9. RuntimesApart'
  BY <1>1, Blanks DEF RuntimesApart, Apart
<1>10. Adoptable'
  <2> SUFFICES ASSUME NEW p \in Cores', procs'[p].id \notin lost'
               PROVE  /\ record.pid = p /\ record.id = procs[p].id /\ record.gen \in files
                      /\ procs[p].id \in parted \/ record.gen = procs[p].gen
    BY <1>1, <1>6 DEF Adoptable
  <2>1. p \in Cores /\ procs'[p].id = procs[p].id /\ procs[p].id \notin lost
    BY <1>1, <1>6
  <2>2. CASE InStart(p)
    <3>1. call.pc \in Starting /\ procs[p].id = call.own.id /\ record.id = call.own.id
      BY <1>1, <2>1, <2>2 DEF InStart
    <3>2. record = AsRecord(call.own) /\ call.own.gen \in files
      BY <3>1 DEF SupInv, StartCall
    <3>3. p = call.own.pid /\ Exists(call.own)
      BY <2>1, <3>1, KnownIds DEF OursIfThere, Cores, Exists
    <3>4. procs[p].gen = call.own.gen
      BY <3>1, <3>3 DEF SupInv, StartCall
    <3>5. QED
      BY <3>1, <3>2, <3>3, <3>4 DEF AsRecord
  <2>3. QED
    BY <2>1, <2>2 DEF SupInv, Adoptable
<1>11. QED
  BY <1>6, <1>7, <1>8, <1>9, <1>10 DEF SupInv

LEMMA BootAdoptsStep ==
    ASSUME SupInv, SupTypeOK', BootAdopts
    PROVE  SupInv'
<1>0. PICK own, e : own = [pid |-> record.pid, id |-> record.id, gen |-> record.gen, child |-> FALSE] /\ e = EngineOf[record.gen]
  OBVIOUS
<1>01. PICK waiter : waiter = [eng |-> e, own |-> own, pc |-> "wait"]
  OBVIOUS
<1>02. own.pid = record.pid /\ own.id = record.id /\ own.gen = record.gen /\ ~own.child
  BY <1>0
<1>03. waiter.eng = e /\ waiter.own = own /\ waiter.pc = "wait"
  BY <1>01
<1>1. /\ ~up /\ up' /\ record.gen \in Gens /\ e \in Engines /\ host' = e
      /\ record.pid \in Pids /\ procs[record.pid].st = "alive" /\ procs[record.pid].id = record.id
      /\ waiters = {} /\ call = NoCall /\ \A f \in Engines : sup[f] = NoSup
      /\ waiters' = IF procs[record.pid].child THEN {waiter} ELSE {}
      /\ UNCHANGED <<procs, ticks, record, files, call, lost, parted>>
  BY <1>0, <1>01, SupEngineAssumption DEF BootAdopts, histVars, Executing, SupInv, SupTypeOK, DownIsBlank
<1>2. sup'[e] = own /\ \A f \in Engines : f # e => sup'[f] = NoSup
  BY <1>0, <1>1 DEF BootAdopts, SupInv, SupTypeOK
<1>3. Table' /\ Cores' = Cores /\ (\A o : Exists(o)' <=> Exists(o)) /\ \A o : OursIfThere(o) => StillOurs(o)
  BY <1>1, SameProcs
<1>4. call'.pc = "none" /\ ~Held' /\ \A p : ~InStart(p) /\ ~InStart(p)'
  BY <1>1, Blanks DEF Held, InStart, Starting
<1>5. Adoptable' /\ OneWaiter'
  BY <1>1, <1>3, <1>4 DEF SupInv, Adoptable, OneWaiter
<1>6. Remembered'
  <2>1. OursIfThere(own)
    BY <1>02, KnownIds DEF OursIfThere
  <2>2. QED
    BY <1>1, <1>2, <1>3, <1>03, <2>1, KnownIds, Nobody, StillRemembered
<1>7. DownIsBlank' /\ SupOfHost' /\ StartCall' /\ CallOfHost' /\ ReloadCall' /\ ChildWaited'
  BY <1>1, <1>2, <1>02, <1>4, Blanks
     DEF DownIsBlank, SupOfHost, StartCall, CallOfHost, ReloadCall, ChildWaited
<1>8. SupOwnsCore'
  BY <1>1, <1>2, <1>02, <1>3, <1>4 DEF SupInv, Adoptable, SupOwnsCore
<1>9. RuntimesApart'
  BY <1>1, <1>2, <1>02, <1>03, Blanks DEF RuntimesApart, Apart
<1>10. WaiterAtStep'
  <2> SUFFICES ASSUME NEW w \in waiters'
               PROVE  /\ w.own.pid \in Pids /\ w.pc = "wait"
                      /\ Exists(w.own)' /\ procs'[w.own.pid].child /\ Holds(w)'
    BY DEF WaiterAtStep
  <2>1. w = waiter /\ procs[record.pid].child
    BY <1>1
  <2>2. QED
    BY <1>1, <1>2, <1>02, <1>03, <2>1 DEF Exists, Holds, Owned
<1>11. QED
  BY <1>3, <1>5, <1>6, <1>7, <1>8, <1>9, <1>10 DEF SupInv

LEMMA BootFindsNoneStep ==
    ASSUME SupInv, SupTypeOK', BootFindsNone
    PROVE  SupInv'
<1>1. /\ ~up /\ up' /\ waiters = {} /\ call = NoCall /\ host = NoEngine /\ \A e \in Engines : sup[e] = NoSup
      /\ record' \in {record, NoRecord}
      /\ UNCHANGED <<procs, ticks, sup, host, call, waiters, lost, parted>>
  BY DEF BootFindsNone, histVars, SupInv, DownIsBlank
<1>2. Table' /\ Cores' = Cores /\ (\A o : Exists(o)' <=> Exists(o)) /\ \A o : OursIfThere(o) => StillOurs(o)
  BY <1>1, SameProcs
<1>3. \A p \in Cores : procs[p].id \in lost
  <2> SUFFICES ASSUME NEW p \in Cores, procs[p].id \notin lost PROVE FALSE
    OBVIOUS
  <2>1. record.pid = p /\ record.id = procs[p].id /\ record.gen \in files
    BY <1>1, Idle DEF SupInv, Adoptable, Cores
  <2>2. p \in Pids /\ procs[p].st = "alive"
    BY DEF Cores
  <2>3. record # NoRecord /\ record.gen \in files /\ Executing(record)
    BY <2>1, <2>2, Blanks, SupGensAssumption DEF Executing, SupInv, SupTypeOK
  <2>4. QED
    BY <2>3 DEF BootFindsNone
<1>4. SupOwnsCore' /\ Adoptable'
  BY <1>1, <1>2, <1>3 DEF SupOwnsCore, Adoptable
<1>5. Remembered'
  BY <1>1, <1>2, KnownIds, Nobody, StillRemembered
<1>6. QED
  BY <1>1, <1>2, <1>4, <1>5, Blanks
     DEF SupInv, DownIsBlank, SupOfHost, StartCall, CallOfHost, ReloadCall, RuntimesApart, Apart, ChildWaited,
         OneWaiter, WaiterAtStep

-----------------------------------------------------------------------------
(* The theorems.                                                           *)

LEMMA SupInvInit == SupInit => SupInv
<1> SUFFICES ASSUME SupInit PROVE SupInv
  OBVIOUS
<1>1. SupTypeOK
  BY BlankTypes DEF SupInit, SupTypeOK
<1>2. \A p \in Pids : procs[p].st = "free" /\ procs[p].gen = NoGen
  BY DEF SupInit, FreeProc
<1>3. Cores = {}
  BY <1>2 DEF Cores
<1>4. Table
  BY <1>2, SupGensAssumption DEF SupInit, Table
<1>5. ~up /\ record = NoRecord /\ call = NoCall /\ waiters = {} /\ host = NoEngine /\ ticks = 0 /\ \A e \in Engines : sup[e] = NoSup
  BY DEF SupInit
<1>6. Remembered
  BY <1>2, <1>5, Blanks DEF Remembered, OursIfThere
<1>7. QED
  BY <1>1, <1>3, <1>4, <1>5, <1>6, Blanks
     DEF SupInv, DownIsBlank, SupOfHost, SupOwnsCore, StartCall, CallOfHost, ReloadCall, RuntimesApart, Apart,
         ChildWaited, OneWaiter, WaiterAtStep, Adoptable

LEMMA SupInvStutters == SupInv /\ UNCHANGED supVars => SupInv'
<1> SUFFICES ASSUME SupInv, UNCHANGED supVars PROVE SupInv'
  OBVIOUS
<1>1. UNCHANGED <<procs, ticks, record, files, up, sup, host, call, waiters, lost, parted>>
  BY DEF supVars
<1>2. SupTypeOK'
  BY <1>1 DEF SupInv, SupTypeOK
<1>3. Table' /\ Cores' = Cores /\ (\A o : Exists(o)' <=> Exists(o)) /\ \A o : OursIfThere(o) => StillOurs(o)
  BY <1>1, SameProcs
<1>4. Remembered'
  BY <1>1, <1>3, KnownIds, StillRemembered
<1>5. DownIsBlank' /\ SupOfHost' /\ CallOfHost' /\ RuntimesApart' /\ ChildWaited' /\ OneWaiter'
  BY <1>1 DEF SupInv, DownIsBlank, SupOfHost, Held, CallOfHost, RuntimesApart, Apart, ChildWaited, Locked, OneWaiter
<1>6. SupOwnsCore' /\ Adoptable'
  BY <1>1, <1>3 DEF SupInv, SupOwnsCore, Adoptable, InStart
<1>7. Exists(call.own)' <=> Exists(call.own)
  BY <1>1 DEF Exists
<1>8. StartCall' /\ ReloadCall'
  BY <1>1, <1>7 DEF SupInv, StartCall, Held, ReloadCall
<1>9. WaiterAtStep'
  BY <1>1, <1>3 DEF SupInv, WaiterAtStep, Holds, Owned
<1>10. QED
  BY <1>2, <1>3, <1>4, <1>5, <1>6, <1>8, <1>9 DEF SupInv

LEMMA SupInvStep == SupInv /\ [SupNext]_supVars => SupInv'
<1> SUFFICES ASSUME SupInv, [SupNext]_supVars PROVE SupInv'
  OBVIOUS
<1>1. SupTypeOK'
  BY TypeStep
<1>2. ASSUME NEW p \in Pids, CoreExits(p) \/ ForeignStarts(p) PROVE SupInv'
  BY <1>1, <1>2, CoreExitsStep, ForeignStartsStep
<1>3. CASE StartStep
  BY <1>1, <1>3, SpawnStep, IdentifyStep, StartFailsStep, WriteRecordStep, KillChildStep, UnrecordChildStep
     DEF StartStep
<1>4. CASE ReloadStep
  BY <1>1, <1>4, ReloadAcceptedStep, ReloadRecordedStep, ReloadFailsStep DEF ReloadStep
<1>5. ASSUME NEW w \in waiters, WaiterStep(w) PROVE SupInv'
  BY <1>1, <1>5, WaiterReapsStep, WaiterClearsStep, WaiterFinishesStep DEF WaiterStep
<1>6. CASE StopStep
  BY <1>1, <1>6, StopBeginsStep, StopSignalsStep, StopDoneStep DEF StopStep
<1>7. CASE ManagerEnds \/ BootAdopts \/ BootFindsNone
  BY <1>1, <1>7, ManagerEndsStep, BootAdoptsStep, BootFindsNoneStep
<1>8. CASE UNCHANGED supVars
  BY <1>8, SupInvStutters
<1>9. QED
  BY <1>2, <1>3, <1>4, <1>5, <1>6, <1>7, <1>8 DEF SupNext

\* The kernel, the supervisors, the calls in progress and the waiting
\* goroutines stay in their types and in the inductive invariant.
THEOREM SupervisorInvariant == SupSpec => []SupInv
<1>1. SupInv /\ [SupNext]_supVars => SupInv'
  BY SupInvStep
<1>2. QED
  BY <1>1, SupInvInit, PTL DEF SupSpec

\* A live core is described by its record and has its runtime on disk, unless
\* its record was lost under it or its Start is not over; a serving manager is
\* right about what runs, the same cores excepted.
THEOREM CoreAccountedForHolds == SupSpec => []CoreAccountedFor
<1>1. SupInv => CoreAccountedFor
  <2> SUFFICES ASSUME SupInv PROVE HostIsRight
    BY DEF SupInv, CoreAccountedFor
  <2>1. ASSUME up, host = NoEngine PROVE \A p \in Cores : procs[p].id \in lost \/ InStart(p)
    BY <2>1, SupEngineAssumption DEF SupInv, SupOwnsCore
  <2>2. ASSUME NEW e \in Engines, sup[e].pid # NoPid PROVE host = e \/ (call.pc \in Starting /\ call.eng = e)
    BY <2>2, Blanks DEF SupInv, SupOfHost, Held, Starting
  <2>3. QED
    BY <2>1, <2>2 DEF HostIsRight
<1>2. QED
  BY <1>1, SupervisorInvariant, PTL

\* The two drivers never run two cores beside those whose record was lost under
\* them, whatever was started, killed, adopted or left behind.
THEOREM OneCoreHolds == SupSpec => []OneCore
<1>1. SupInv => OneCore
  <2> SUFFICES ASSUME SupInv PROVE OneCore
    OBVIOUS
  <2> DEFINE known == {p \in Cores : procs[p].id \notin lost}
  <2>1. ASSUME NEW p \in known PROVE p = (IF call.pc \in Starting THEN call.own.pid ELSE record.pid)
    <3>1. CASE call.pc \in Starting
      BY <3>1, Alone
    <3>2. CASE call.pc \notin Starting
      BY <3>2 DEF SupInv, Adoptable, InStart
    <3>3. QED
      BY <3>1, <3>2
  <2>2. PICK q : q = IF call.pc \in Starting THEN call.own.pid ELSE record.pid
    OBVIOUS
  <2>3. known \in SUBSET {q}
    BY <2>1, <2>2
  <2>4. IsFiniteSet({q}) /\ Cardinality({q}) = 1
    BY FS_Singleton
  <2>5. Cardinality(known) <= 1
    BY <2>3, <2>4, FS_Subset
  <2>6. QED
    BY <2>5 DEF OneCore
<1>2. QED
  BY <1>1, SupervisorInvariant, PTL

LEMMA ForeignStep ==
    SupInv /\ [SupNext]_supVars => [\A p \in Pids : procs[p].gen = "foreign" => procs'[p] = procs[p]]_supVars
<1> SUFFICES ASSUME SupInv, SupNext, NEW p \in Pids, procs[p].gen = "foreign" PROVE procs'[p] = procs[p]
  OBVIOUS
<1>1. procs[p].st = "alive" /\ ~procs[p].child /\ procs \in [Pids -> Procs]
  BY DEF SupInv, SupTypeOK, Table
<1>2. ASSUME NEW q \in Pids, q # p, procs' = Exit(q, procs) PROVE procs'[p] = procs[p]
  BY <1>1, <1>2, ExitType
<1>3. ASSUME NEW q \in Pids, CoreExits(q) PROVE procs'[p] = procs[p]
  <2>1. q # p /\ procs' = Exit(q, procs)
    BY <1>3, SupGensAssumption DEF CoreExits, Cores
  <2>2. QED
    BY <1>2, <2>1
<1>4. ASSUME NEW q \in Pids, ForeignStarts(q) PROVE procs'[p] = procs[p]
  BY <1>4 DEF ForeignStarts
<1>5. CASE StartStep
  <2>1. ASSUME NEW g \in Gens, NEW q \in Pids, Spawn(g, q) PROVE procs'[p] = procs[p]
    BY <1>1, <2>1 DEF Spawn
  <2>2. CASE KillChild
    <3>1. call.own.pid # p
      BY <2>2, SupGensAssumption DEF KillChild, Starting, SupInv, StartCall
    <3>2. QED
      BY <1>1, <2>2, <3>1 DEF KillChild
  <2>3. CASE Identify \/ IdentifyFails \/ WriteRecord \/ WriteFails \/ UnrecordChild
    BY <2>3 DEF Identify, IdentifyFails, WriteRecord, WriteFails, UnrecordChild
  <2>4. QED
    BY <1>5, <2>1, <2>2, <2>3 DEF StartStep
<1>6. CASE ReloadStep
  <2>1. ASSUME NEW g \in Gens, ReloadAccepted(g) PROVE procs'[p] = procs[p]
    <3>1. LET o == sup[EngineOf[g]] IN o.pid \in Pids /\ procs[o.pid].gen \in Gens
      BY <2>1, KnownIds, SupEngineAssumption DEF ReloadAccepted, Executing, OursIfThere
    <3>2. QED
      BY <1>1, <2>1, <3>1, SupGensAssumption DEF ReloadAccepted
  <2>2. CASE ReloadRecorded \/ ReloadLost \/ ReloadUnrecorded
    BY <2>2 DEF ReloadRecorded, ReloadLost, ReloadUnrecorded
  <2>3. QED
    BY <1>6, <2>1, <2>2 DEF ReloadStep
<1>7. ASSUME NEW w \in waiters, WaiterStep(w) PROVE procs'[p] = procs[p]
  BY <1>1, <1>7 DEF WaiterStep, WaiterReaps, WaiterClears, WaiterUnrecords, WaiterCleans
<1>8. CASE StopNothing \/ StopBegin \/ StopDone
  BY <1>8 DEF StopNothing, StopBegin, StopDone
<1>9. CASE StopTerm \/ StopKill \/ StopCancelled
  <2>1. procs' = procs \/ (Executing(call.own) /\ procs' = Exit(call.own.pid, procs))
    BY <1>9, KillsCalled
  <2>2. Executing(call.own) => call.own.pid \in Pids /\ call.own.pid # p
    BY CalledProcess, SupGensAssumption
  <2>3. QED
    BY <1>2, <2>1, <2>2
<1>10. CASE ManagerEnds
  <2>1. procs[p] \in Procs /\ [procs[p] EXCEPT !.child = FALSE] = procs[p]
    BY <1>1 DEF Procs
  <2>2. QED
    BY <1>1, <1>10, <2>1 DEF ManagerEnds
<1>11. CASE BootAdopts \/ BootFindsNone
  BY <1>11 DEF BootAdopts, BootFindsNone
<1>12. QED
  BY <1>3, <1>4, <1>5, <1>6, <1>7, <1>8, <1>9, <1>10, <1>11 DEF SupNext, StopStep

\* No signal of a stop, and nothing else here, reaches a process of somebody
\* else, although pids are reused and a stop works on an old snapshot.
THEOREM ForeignUntouchedHolds == SupSpec => ForeignUntouched
<1>1. SupInv /\ [SupNext]_supVars => [\A p \in Pids : procs[p].gen = "foreign" => procs'[p] = procs[p]]_supVars
  BY ForeignStep
<1>2. QED
  BY <1>1, SupervisorInvariant, PTL DEF SupSpec, ForeignUntouched

(***************************************************************************)
(* ManagerUpdate: an update that is reported as done, undone or failed is  *)
(* what the disk and the running manager say.                              *)
(***************************************************************************)

-----------------------------------------------------------------------------
(* The binaries and the integration at each step of a transaction.         *)

Active == tx.pc # "idle"
IsInstall == tx.kind = "install"
Activating == {"mark", "signal", "start", "poll"}

TxSound ==
    Active => /\ tx.kind \in {"install", "rollback"} /\ tx.from \in Versions /\ tx.to \in Versions
              /\ ~IsInstall => saved[tx.to] # "none"
              /\ tx.pc = "unlink" => IsInstall = ~tx.back

\* On the way forward the former binary is under its recovery name.
ForwardSound ==
    Active /\ ~tx.back =>
        /\ tx.pc \in {"unlink", "keep"} => target = tx.from
        /\ ~IsInstall /\ tx.pc \in {"keep", "swap"} => prev = tx.to
        /\ tx.pc \notin {"unlink", "keep"} => tx.from = IF IsInstall THEN prev ELSE failed
        /\ tx.pc \notin {"unlink", "keep", "swap"} => target = tx.to
        /\ tx.pc \in {"unlink", "keep", "swap", "sync"} => integ = tx.before

\* On the way back it is still there until it is in place; the activation of the former
\* binary begins when both it and the former integration are.
BackwardSound ==
    Active /\ tx.back =>
        /\ tx.pc # "verify"
        /\ tx.pc \in {"unlink", "keep", "swap"} => tx.from = IF IsInstall THEN prev ELSE failed
        /\ tx.pc = "sync" \/ (tx.pc = "files" /\ tx.clean) => target = tx.from
        /\ tx.pc \in Activating => target = tx.from /\ integ = tx.before /\ tx.clean

TransactionSound == TxSound /\ ForwardSound /\ BackwardSound /\ OutcomeTruthful

UpdInv == UpdTypeOK /\ TransactionSound /\ FinishedJobIsOver

-----------------------------------------------------------------------------
(* The parts of the type, and what a step makes of the records.            *)

FilesTyped ==
    /\ target \in MaybeVersion /\ prev \in MaybeVersion /\ failed \in MaybeVersion
    /\ integ \in Integs \union {"mixed"} /\ saved \in [Versions -> Integs \union {"mixed", "none"}]
ServiceTyped ==
    /\ marker \in [to : MaybeVersion, fresh : BOOLEAN]
    /\ mgr \in Managers /\ sig \in BOOLEAN /\ core \in BOOLEAN /\ capt \in MaybeVersion
WebTyped == job \in Jobs /\ worker \in Workers /\ FinishedJobIsOver
Counted == faults \in 0 .. MaxFaults /\ updates \in 0 .. MaxUpdates

LEMMA InvParts == UpdInv <=> FilesTyped /\ ServiceTyped /\ WebTyped /\ Counted /\ tx \in Transactions /\ TransactionSound
BY DEF UpdInv, UpdTypeOK, FilesTyped, ServiceTyped, WebTyped, Counted

LEMMA Assembled ==
    ASSUME FilesTyped', ServiceTyped', WebTyped', Counted', tx' \in Transactions, TransactionSound'
    PROVE  UpdInv'
BY DEF UpdInv, UpdTypeOK, FilesTyped, ServiceTyped, WebTyped, Counted

LEMMA TxFields ==
    ASSUME tx \in Transactions
    PROVE  /\ tx.kind \in {"none", "install", "rollback"} /\ tx.pc \in TxPcs /\ tx.back \in BOOLEAN
           /\ tx.from \in MaybeVersion /\ tx.to \in MaybeVersion /\ tx.mode \in {"none", "only", "full"}
           /\ tx.before \in Integs \union {"mixed"} /\ tx.out \in Outcomes /\ tx.clean \in BOOLEAN
BY DEF Transactions

LEMMA NoTxFacts == NoTx \in Transactions /\ NoTx.pc = "idle" /\ NoTx.out = "none"
BY DEF NoTx, Transactions, TxPcs, Outcomes, MaybeVersion

SamePlan == tx'.kind = tx.kind /\ tx'.from = tx.from /\ tx'.to = tx.to /\ tx'.mode = tx.mode /\ tx'.before = tx.before

LEMMA TxGoto ==
    ASSUME tx \in Transactions, NEW pc \in TxPcs, tx' = [tx EXCEPT !.pc = pc]
    PROVE  tx' \in Transactions /\ tx'.pc = pc /\ SamePlan /\ tx'.back = tx.back /\ tx'.clean = tx.clean
           /\ tx'.out = tx.out
BY DEF Transactions, SamePlan

LEMMA TxQuit ==
    ASSUME tx \in Transactions, NEW out \in Outcomes, Quit(out)
    PROVE  tx' \in Transactions /\ tx'.pc = "idle" /\ SamePlan /\ tx'.back = tx.back /\ tx'.clean = tx.clean
           /\ tx'.out = out
BY DEF Transactions, TxPcs, Quit, SamePlan

LEMMA TxRecover ==
    ASSUME tx \in Transactions, Recover
    PROVE  tx' \in Transactions /\ tx'.pc = (IF IsInstall THEN "keep" ELSE "unlink") /\ SamePlan /\ tx'.back
           /\ tx'.clean /\ tx'.out = tx.out
BY DEF Transactions, TxPcs, Recover, SamePlan, IsInstall

LEMMA TxBroken ==
    ASSUME tx \in Transactions, BinaryBroken
    PROVE  tx' \in Transactions /\ SamePlan /\ tx'.back = tx.back
           /\ \/ tx.back /\ tx'.pc = "files" /\ ~tx'.clean
              \/ ~tx.back /\ tx'.pc = "idle" /\ tx'.out = "broken"
<1>1. CASE tx.back
  BY <1>1 DEF Transactions, TxPcs, BinaryBroken, SamePlan
<1>2. CASE ~tx.back
  <2>1. Quit("broken")
    BY <1>2 DEF BinaryBroken
  <2>2. QED
    BY <1>2, <2>1, TxQuit DEF Outcomes
<1>3. QED
  BY <1>1, <1>2

\* A transaction given up without being reported leaves nothing to account for.
LEMMA Forgotten ==
    ASSUME tx' \in Transactions, tx'.pc = "idle", tx'.out \notin {"ok", "kept", "restored"}
    PROVE  TransactionSound'
BY DEF TransactionSound, TxSound, ForwardSound, BackwardSound, OutcomeTruthful, Active, Ended

\* What a transaction relies on is its own.
LEMMA Elsewhere ==
    ASSUME TransactionSound, UNCHANGED <<binVars, integ, saved, tx>>
    PROVE  TransactionSound'
BY DEF TransactionSound, TxSound, ForwardSound, BackwardSound, OutcomeTruthful, Active, Ended, IsInstall, Goal,
    binVars

LEMMA FaultCounted == ASSUME UpdInv, Fault \/ UNCHANGED faults, UNCHANGED updates PROVE Counted'
BY UpdBoundAssumption DEF UpdInv, UpdTypeOK, Fault, Counted

\* A step that leaves the service, the web job and the counters as they are, but for a fault.
LEMMA Offline ==
    ASSUME UpdInv, UNCHANGED <<svcVars, webVars, updates>>, Fault \/ UNCHANGED faults, FilesTyped', tx' \in Transactions,
           TransactionSound'
    PROVE  UpdInv'
<1>1. ServiceTyped' /\ WebTyped'
  BY InvParts DEF ServiceTyped, WebTyped, FinishedJobIsOver, svcVars, webVars
<1>2. QED
  BY <1>1, FaultCounted, Assembled

-----------------------------------------------------------------------------
(* The binary.                                                             *)

LEMMA BeginFacts ==
    ASSUME UpdInv, NEW kind \in {"install", "rollback"}, NEW to \in Versions, NEW web \in BOOLEAN,
           NEW mode \in {"none", "only", "full"}, NEW changed, Begin(kind, to, web, mode, changed)
    PROVE  /\ tx.pc = "idle" /\ target \in Versions /\ worker.st # "working" /\ updates' \in 0 .. MaxUpdates
           /\ tx' \in Transactions /\ tx'.kind = kind /\ tx'.pc = (IF kind = "install" THEN "unlink" ELSE "keep")
           /\ tx'.from = target /\ tx'.to = to /\ tx'.before = integ /\ tx'.back = FALSE /\ tx'.out = "none"
<1>1. /\ tx.pc = "idle" /\ target \in Versions /\ worker.st # "working" /\ updates' \in 0 .. MaxUpdates
      /\ integ \in Integs \union {"mixed"}
  BY UpdBoundAssumption DEF Begin, UpdInv, UpdTypeOK, MaybeVersion
<1>2. tx' = [NoTx EXCEPT !.kind = kind, !.pc = IF kind = "install" THEN "unlink" ELSE "keep",
                         !.from = target, !.to = to, !.mode = mode, !.before = integ, !.web = web]
  BY DEF Begin
<1>3. QED
  BY <1>1, <1>2 DEF NoTx, Transactions, TxPcs, Outcomes, MaybeVersion

\* The beginning of an install, from the command line or by the worker.
LEMMA InstallBegins ==
    ASSUME UpdInv, NEW to \in Versions, NEW web \in BOOLEAN, NEW mode \in {"none", "only", "full"}, NEW changed,
           Begin("install", to, web, mode, changed), saved' = [saved EXCEPT ![target] = integ],
           UNCHANGED <<binVars, integ>>
    PROVE  FilesTyped' /\ tx' \in Transactions /\ TransactionSound'
<1>1. /\ tx.pc = "idle" /\ target \in Versions
      /\ tx' \in Transactions /\ tx'.kind = "install" /\ tx'.pc = "unlink"
      /\ tx'.from = target /\ tx'.to = to /\ tx'.before = integ /\ tx'.back = FALSE /\ tx'.out = "none"
  BY BeginFacts
<1>2. FilesTyped'
  BY <1>1, InvParts DEF FilesTyped, binVars
<1>3. UNCHANGED <<target, prev, failed, integ>>
  BY DEF binVars
<1>4. TransactionSound'
  BY <1>1, <1>3 DEF TransactionSound, TxSound, ForwardSound, BackwardSound, OutcomeTruthful, Active, Ended, IsInstall
<1>5. QED
  BY <1>1, <1>2, <1>4

LEMMA BeginInstallKeeps ==
    ASSUME UpdInv, NEW to \in Versions, NEW mode \in {"none", "only", "full"}, BeginInstall(to, mode)
    PROVE  UpdInv'
<1>1. Begin("install", to, FALSE, mode, FALSE) /\ saved' = [saved EXCEPT ![target] = integ]
      /\ UNCHANGED <<binVars, integ, svcVars, webVars, faults>>
  BY DEF BeginInstall
<1>2. FilesTyped' /\ tx' \in Transactions /\ TransactionSound'
  BY <1>1, InstallBegins
<1>3. Counted'
  BY <1>1, BeginFacts DEF Counted, UpdInv, UpdTypeOK
<1>4. ServiceTyped' /\ WebTyped'
  BY <1>1, InvParts DEF ServiceTyped, WebTyped, FinishedJobIsOver, svcVars, webVars
<1>5. QED
  BY <1>2, <1>3, <1>4, Assembled

LEMMA BeginRollbackKeeps ==
    ASSUME UpdInv, NEW mode \in {"none", "only", "full"}, BeginRollback(mode)
    PROVE  UpdInv'
<1>1. Begin("rollback", prev, FALSE, mode, saved[prev] # integ) /\ prev \in Versions /\ saved[prev] # "none"
      /\ UNCHANGED <<binVars, integ, saved, svcVars, webVars, faults>>
  BY DEF BeginRollback, UpdInv, UpdTypeOK, MaybeVersion
<1>2. /\ tx.pc = "idle" /\ target \in Versions /\ updates' \in 0 .. MaxUpdates
      /\ tx' \in Transactions /\ tx'.kind = "rollback" /\ tx'.pc = "keep"
      /\ tx'.from = target /\ tx'.to = prev /\ tx'.before = integ /\ tx'.back = FALSE /\ tx'.out = "none"
  <2>1. "rollback" \in {"install", "rollback"} /\ FALSE \in BOOLEAN
    OBVIOUS
  <2>2. QED
    BY <1>1, <2>1, BeginFacts
<1>3. UNCHANGED <<target, prev, failed, integ, saved>>
  BY <1>1 DEF binVars
<1>4. TransactionSound'
  BY <1>1, <1>2, <1>3 DEF TransactionSound, TxSound, ForwardSound, BackwardSound, OutcomeTruthful, Active,
      Ended, IsInstall
<1>5. Counted' /\ FilesTyped'
  BY <1>1, <1>2, <1>3 DEF Counted, FilesTyped, UpdInv, UpdTypeOK
<1>6. ServiceTyped' /\ WebTyped'
  BY <1>1, InvParts DEF ServiceTyped, WebTyped, FinishedJobIsOver, svcVars, webVars
<1>7. QED
  BY <1>2, <1>4, <1>5, <1>6, Assembled

LEMMA RemoveOlderKeeps == ASSUME UpdInv, RemoveOlder PROVE UpdInv'
<1>1. AtTx("unlink") /\ prev' = None /\ UNCHANGED <<target, failed, integ, saved, svcVars, webVars, faults, updates>>
      /\ tx' = [tx EXCEPT !.pc = "keep"] /\ FilesTyped /\ tx \in Transactions /\ TransactionSound
  BY InvParts DEF RemoveOlder
<1>2. /\ tx' \in Transactions /\ tx'.pc = "keep" /\ SamePlan /\ tx'.back = tx.back /\ tx'.clean = tx.clean
      /\ tx'.out = tx.out
  BY <1>1, TxGoto DEF TxPcs
<1>3. TransactionSound'
  BY <1>1, <1>2, TxFields
     DEF TransactionSound, TxSound, ForwardSound, BackwardSound, OutcomeTruthful, Active, Ended, IsInstall,
         Activating, SamePlan, AtTx
<1>4. FilesTyped'
  BY <1>1 DEF FilesTyped, MaybeVersion
<1>5. QED
  BY <1>1, <1>2, <1>3, <1>4, Offline

LEMMA KeepCurrentKeeps == ASSUME UpdInv, KeepCurrent PROVE UpdInv'
<1>1. AtTx("keep") /\ target' = None /\ UNCHANGED <<integ, saved, svcVars, webVars, faults, updates>>
      /\ tx' = [tx EXCEPT !.pc = "swap"] /\ FilesTyped /\ tx \in Transactions /\ TransactionSound
      /\ (IF Installing THEN prev' = target /\ UNCHANGED failed ELSE failed' = target /\ UNCHANGED prev)
  BY InvParts DEF KeepCurrent
<1>2. /\ tx' \in Transactions /\ tx'.pc = "swap" /\ SamePlan /\ tx'.back = tx.back /\ tx'.clean = tx.clean
      /\ tx'.out = tx.out
  BY <1>1, TxGoto DEF TxPcs
<1>3. TransactionSound'
  BY <1>1, <1>2, TxFields
     DEF TransactionSound, TxSound, ForwardSound, BackwardSound, OutcomeTruthful, Active, Ended, IsInstall,
         Installing, Activating, SamePlan, AtTx
<1>4. FilesTyped'
  BY <1>1 DEF FilesTyped, MaybeVersion
<1>5. QED
  BY <1>1, <1>2, <1>3, <1>4, Offline

LEMMA SwapInKeeps == ASSUME UpdInv, SwapIn PROVE UpdInv'
<1>1. AtTx("swap") /\ UNCHANGED <<integ, saved, svcVars, webVars, faults, updates>>
      /\ tx' = [tx EXCEPT !.pc = "sync"] /\ FilesTyped /\ tx \in Transactions /\ TransactionSound
      /\ target' = (IF Installing THEN (IF tx.back THEN failed ELSE tx.to) ELSE prev)
      /\ prev' = (IF Installing THEN prev ELSE None)
      /\ failed' = (IF Installing /\ tx.back THEN None ELSE failed)
  BY InvParts DEF SwapIn
<1>2. /\ tx' \in Transactions /\ tx'.pc = "sync" /\ SamePlan /\ tx'.back = tx.back /\ tx'.clean = tx.clean
      /\ tx'.out = tx.out
  BY <1>1, TxGoto DEF TxPcs
<1>3. TransactionSound'
  BY <1>1, <1>2, TxFields
     DEF TransactionSound, TxSound, ForwardSound, BackwardSound, OutcomeTruthful, Active, Ended, IsInstall,
         Installing, Activating, SamePlan, AtTx
<1>4. FilesTyped'
  BY <1>1, TxFields DEF FilesTyped, MaybeVersion
<1>5. QED
  BY <1>1, <1>2, <1>3, <1>4, Offline

LEMMA SyncedKeeps == ASSUME UpdInv, Synced PROVE UpdInv'
<1>1. AtTx("sync") /\ UNCHANGED <<binVars, integ, saved, svcVars, webVars, faults, updates>>
      /\ tx' = [tx EXCEPT !.pc = "files"] /\ FilesTyped /\ tx \in Transactions /\ TransactionSound
  BY InvParts DEF Synced
<1>2. /\ tx' \in Transactions /\ tx'.pc = "files" /\ SamePlan /\ tx'.back = tx.back /\ tx'.clean = tx.clean
      /\ tx'.out = tx.out
  BY <1>1, TxGoto DEF TxPcs
<1>3. TransactionSound'
  BY <1>1, <1>2, TxFields
     DEF TransactionSound, TxSound, ForwardSound, BackwardSound, OutcomeTruthful, Active, Ended, IsInstall,
         Activating, SamePlan, AtTx, binVars
<1>4. FilesTyped'
  BY <1>1 DEF FilesTyped, binVars
<1>5. QED
  BY <1>1, <1>2, <1>3, <1>4, Offline

\* The rename is undone: the binaries are as they were before it, and the update ends, or
\* the recovery goes on without its binary.
LEMMA SwapFailsKeeps == ASSUME UpdInv, SwapFails PROVE UpdInv'
<1>1. AtTx("swap") /\ Fault /\ UNCHANGED <<integ, saved, svcVars, webVars, updates>>
      /\ FilesTyped /\ tx \in Transactions /\ TransactionSound
      /\ (IF Installing THEN target' = prev /\ prev' = None /\ UNCHANGED failed
          ELSE target' = failed /\ failed' = None /\ UNCHANGED prev)
      /\ (IF tx.back THEN BinaryBroken ELSE Quit("kept"))
  BY InvParts DEF SwapFails
<1>2. FilesTyped'
  BY <1>1 DEF FilesTyped, MaybeVersion
<1>3. CASE tx.back
  <2>1. tx' \in Transactions /\ SamePlan /\ tx'.back = tx.back /\ tx'.pc = "files" /\ ~tx'.clean
    BY <1>1, <1>3, TxBroken
  <2>2. TransactionSound'
    BY <1>1, <1>3, <2>1
       DEF TransactionSound, TxSound, ForwardSound, BackwardSound, OutcomeTruthful, Active, Ended, IsInstall,
           Activating, SamePlan, AtTx
  <2>3. QED
    BY <1>1, <1>2, <2>1, <2>2, Offline
<1>4. CASE ~tx.back
  <2>1. tx' \in Transactions /\ SamePlan /\ tx'.pc = "idle" /\ tx'.out = "kept"
    BY <1>1, <1>4, TxQuit DEF Outcomes
  <2>2. TransactionSound'
    BY <1>1, <1>4, <2>1
       DEF TransactionSound, TxSound, ForwardSound, BackwardSound, OutcomeTruthful, Active, Ended, IsInstall,
           Installing, Activating, SamePlan, AtTx
  <2>3. QED
    BY <1>1, <1>2, <2>1, <2>2, Offline
<1>5. QED
  BY <1>3, <1>4

LEMMA SyncFailsKeeps == ASSUME UpdInv, SyncFails PROVE UpdInv'
<1>1. AtTx("sync") /\ Fault /\ UNCHANGED <<integ, saved, svcVars, webVars, updates>>
      /\ FilesTyped /\ tx \in Transactions /\ TransactionSound
      /\ (IF Installing THEN failed' = target /\ target' = prev /\ prev' = None /\ IF tx.back THEN BinaryBroken ELSE Quit("kept")
          ELSE UNCHANGED binVars /\ BinaryBroken)
  BY InvParts DEF SyncFails
<1>2. FilesTyped'
  BY <1>1 DEF FilesTyped, MaybeVersion, binVars
<1>3. CASE tx.back
  <2>1. tx' \in Transactions /\ SamePlan /\ tx'.back = tx.back /\ tx'.pc = "files" /\ ~tx'.clean
    BY <1>1, <1>3, TxBroken
  <2>2. TransactionSound'
    BY <1>1, <1>3, <2>1
       DEF TransactionSound, TxSound, ForwardSound, BackwardSound, OutcomeTruthful, Active, Ended, IsInstall,
           Activating, SamePlan, AtTx
  <2>3. QED
    BY <1>1, <1>2, <2>1, <2>2, Offline
<1>4. CASE ~tx.back /\ Installing
  <2>1. tx' \in Transactions /\ SamePlan /\ tx'.pc = "idle" /\ tx'.out = "kept"
    BY <1>1, <1>4, TxQuit DEF Outcomes
  <2>2. TransactionSound'
    BY <1>1, <1>4, <2>1
       DEF TransactionSound, TxSound, ForwardSound, BackwardSound, OutcomeTruthful, Active, Ended, IsInstall,
           Installing, Activating, SamePlan, AtTx
  <2>3. QED
    BY <1>1, <1>2, <2>1, <2>2, Offline
<1>5. CASE ~tx.back /\ ~Installing
  <2>1. tx' \in Transactions /\ tx'.pc = "idle" /\ tx'.out = "broken"
    BY <1>1, <1>5, TxBroken
  <2>2. TransactionSound'
    BY <2>1, Forgotten
  <2>3. QED
    BY <1>1, <1>2, <2>1, <2>2, Offline
<1>6. QED
  BY <1>3, <1>4, <1>5

-----------------------------------------------------------------------------
(* The integration files and the activation.                               *)

\* What the step wants is a snapshot or an embedded integration.
LEMMA GoalTyped == ASSUME FilesTyped, tx \in Transactions, TransactionSound, Active PROVE Goal \in Integs \union {"mixed"}
<1>1. tx.to \in Versions
  BY DEF TransactionSound, TxSound
<1>2. Integration[tx.to] \in Integs
  BY <1>1 DEF Integs
<1>3. CASE tx.back
  BY <1>3, TxFields DEF Goal
<1>4. CASE ~tx.back /\ tx.kind # "install"
  <2>1. saved[tx.to] # "none" /\ saved[tx.to] \in Integs \union {"mixed", "none"}
    BY <1>1, <1>4 DEF TransactionSound, TxSound, IsInstall, FilesTyped
  <2>2. QED
    BY <1>4, <2>1 DEF Goal
<1>5. QED
  BY <1>2, <1>3, <1>4 DEF Goal

LEMMA ApplyFilesKeeps == ASSUME UpdInv, ApplyFiles PROVE UpdInv'
<1>1. AtTx("files") /\ integ' = Goal /\ AfterFiles /\ UNCHANGED <<binVars, saved, svcVars, webVars, faults, updates>>
      /\ FilesTyped /\ tx \in Transactions /\ TransactionSound
  BY InvParts DEF ApplyFiles
<1>2. FilesTyped'
  BY <1>1, GoalTyped DEF FilesTyped, binVars, Active, AtTx
<1>3. UNCHANGED <<target, prev, failed, saved>>
  BY <1>1 DEF binVars
<1>4. CASE tx.mode # "none" /\ tx.clean
  <2>1. /\ tx' \in Transactions /\ tx'.pc = "mark" /\ SamePlan /\ tx'.back = tx.back /\ tx'.clean = tx.clean
    BY <1>1, <1>4, TxGoto DEF TxPcs, AfterFiles
  <2>2. TransactionSound'
    BY <1>1, <1>3, <1>4, <2>1
       DEF TransactionSound, TxSound, ForwardSound, BackwardSound, OutcomeTruthful, Active, Ended, IsInstall,
           Activating, SamePlan, AtTx, Goal
  <2>3. QED
    BY <1>1, <1>2, <2>1, <2>2, Offline
<1>5. CASE ~(tx.mode # "none" /\ tx.clean) /\ tx.back
  <2>1. tx' \in Transactions /\ SamePlan /\ tx'.pc = "idle" /\ tx'.out = (IF tx.clean THEN "restored" ELSE "broken")
        /\ tx'.back = tx.back
    BY <1>1, <1>5, TxQuit DEF Outcomes, AfterFiles
  <2>2. TransactionSound'
    BY <1>1, <1>3, <1>5, <2>1
       DEF TransactionSound, TxSound, ForwardSound, BackwardSound, OutcomeTruthful, Active, Ended, IsInstall,
           Activating, SamePlan, AtTx, Goal
  <2>3. QED
    BY <1>1, <1>2, <2>1, <2>2, Offline
<1>6. CASE ~(tx.mode # "none" /\ tx.clean) /\ ~tx.back
  <2>1. /\ tx' \in Transactions /\ tx'.pc = "verify" /\ SamePlan /\ tx'.back = tx.back
    BY <1>1, <1>6, TxGoto DEF TxPcs, AfterFiles
  <2>2. TransactionSound'
    BY <1>1, <1>3, <1>6, <2>1
       DEF TransactionSound, TxSound, ForwardSound, BackwardSound, OutcomeTruthful, Active, Ended, IsInstall,
           Activating, SamePlan, AtTx, Goal
  <2>3. QED
    BY <1>1, <1>2, <2>1, <2>2, Offline
<1>7. QED
  BY <1>4, <1>5, <1>6

\* The way back begins after the binary has been swapped and synced.
LEMMA RecoveryBegins ==
    ASSUME tx \in Transactions, TransactionSound, ~tx.back, tx.pc \in {"files", "mark", "signal", "start", "poll", "verify"},
           Recover, UNCHANGED <<binVars, saved>>
    PROVE  tx' \in Transactions /\ TransactionSound'
<1>1. tx' \in Transactions /\ tx'.pc = (IF IsInstall THEN "keep" ELSE "unlink") /\ SamePlan /\ tx'.back /\ tx'.clean
  BY TxRecover
<1>2. QED
  BY <1>1
     DEF TransactionSound, TxSound, ForwardSound, BackwardSound, OutcomeTruthful, Active, Ended, IsInstall,
         Activating, SamePlan, binVars

\* A recovery that fails too says so.
LEMMA RecoveryBroken == ASSUME tx \in Transactions, Quit("broken") PROVE tx' \in Transactions /\ TransactionSound'
BY TxQuit, Forgotten DEF Outcomes

LEMMA ApplyFilesFailsKeeps == ASSUME UpdInv, ApplyFilesFails PROVE UpdInv'
<1>1. AtTx("files") /\ Fault /\ integ' \in {integ, "mixed"} /\ UNCHANGED <<binVars, saved, svcVars, webVars, updates>>
      /\ FilesTyped /\ tx \in Transactions /\ TransactionSound /\ (IF tx.back THEN Quit("broken") ELSE Recover)
  BY InvParts DEF ApplyFilesFails
<1>2. FilesTyped'
  BY <1>1 DEF FilesTyped, binVars
<1>3. tx' \in Transactions /\ TransactionSound'
  BY <1>1, RecoveryBegins, RecoveryBroken DEF AtTx
<1>4. QED
  BY <1>1, <1>2, <1>3, Offline

LEMMA VerifyFilesKeeps == ASSUME UpdInv, VerifyFiles PROVE UpdInv'
<1>1. AtTx("verify") /\ UNCHANGED <<binVars, integ, saved, svcVars, webVars, faults, updates>>
      /\ FilesTyped /\ tx \in Transactions /\ TransactionSound /\ (IF integ = Goal THEN Quit("ok") ELSE Recover)
  BY InvParts DEF VerifyFiles
<1>2. FilesTyped' /\ ~tx.back /\ UNCHANGED <<target, prev, failed, integ, saved>>
  BY <1>1 DEF FilesTyped, binVars, AtTx, TransactionSound, BackwardSound, Active
<1>3. CASE integ = Goal
  <2>1. tx' \in Transactions /\ SamePlan /\ tx'.pc = "idle" /\ tx'.out = "ok" /\ tx'.back = tx.back
    BY <1>1, <1>3, TxQuit DEF Outcomes
  <2>2. TransactionSound'
    BY <1>1, <1>2, <1>3, <2>1
       DEF TransactionSound, TxSound, ForwardSound, BackwardSound, OutcomeTruthful, Active, Ended, IsInstall,
           Activating, SamePlan, AtTx, Goal
  <2>3. QED
    BY <1>1, <1>2, <2>1, <2>2, Offline
<1>4. CASE integ # Goal
  <2>1. tx' \in Transactions /\ TransactionSound'
    BY <1>1, <1>2, <1>4, RecoveryBegins DEF AtTx
  <2>2. QED
    BY <1>1, <1>2, <2>1, Offline
<1>5. QED
  BY <1>3, <1>4

LEMMA Activated ==
    ASSUME UpdInv, UNCHANGED <<binVars, integ, saved, webVars, updates>>, Fault \/ UNCHANGED faults, ServiceTyped',
           tx' \in Transactions, TransactionSound'
    PROVE  UpdInv'
<1>1. FilesTyped' /\ WebTyped'
  BY InvParts DEF FilesTyped, WebTyped, FinishedJobIsOver, webVars, binVars
<1>2. QED
  BY <1>1, FaultCounted, Assembled

\* The activation only moves on.
LEMMA ActivationGoes ==
    ASSUME tx \in Transactions, TransactionSound, tx.pc \in Activating, UNCHANGED <<binVars, integ, saved>>,
           NEW pc \in {"signal", "start", "poll"}, tx' = [tx EXCEPT !.pc = pc]
    PROVE  tx' \in Transactions /\ TransactionSound'
<1>1. tx' \in Transactions /\ tx'.pc = pc /\ SamePlan /\ tx'.back = tx.back /\ tx'.clean = tx.clean
  BY TxGoto DEF TxPcs
<1>2. QED
  BY <1>1
     DEF TransactionSound, TxSound, ForwardSound, BackwardSound, OutcomeTruthful, Active, Ended, IsInstall,
         Activating, SamePlan, binVars

LEMMA ManagerTyped == ASSUME mgr \in Managers PROVE mgr.st \in Running \union {"crashed", "down"} /\ mgr.left \in 0 .. Respawns
BY DEF Managers

LEMMA WriteMarkerKeeps == ASSUME UpdInv, WriteMarker PROVE UpdInv'
<1>1. /\ AtTx("mark") /\ tx' = [tx EXCEPT !.pc = "signal"]
      /\ marker' = (IF Handoff THEN [to |-> tx.to, fresh |-> TRUE] ELSE NoMarker)
      /\ UNCHANGED <<binVars, integ, saved, mgr, sig, core, capt, webVars, faults, updates>>
      /\ ServiceTyped /\ tx \in Transactions /\ TransactionSound
  BY InvParts DEF WriteMarker
<1>2. ServiceTyped'
  BY <1>1, TxFields DEF ServiceTyped, NoMarker, MaybeVersion
<1>3. tx' \in Transactions /\ TransactionSound'
  BY <1>1, ActivationGoes DEF AtTx, Activating
<1>4. QED
  BY <1>1, <1>2, <1>3, Activated

LEMMA SignalManagerKeeps == ASSUME UpdInv, SignalManager PROVE UpdInv'
<1>1. AtTx("signal") /\ tx' = [tx EXCEPT !.pc = "poll"] /\ sig' = (mgr.st \in Running)
      /\ UNCHANGED <<binVars, integ, saved, marker, mgr, core, capt, webVars, faults, updates>>
      /\ ServiceTyped /\ tx \in Transactions /\ TransactionSound
  BY InvParts DEF SignalManager
<1>2. sig' \in BOOLEAN
  BY <1>1
<1>3. ServiceTyped'
  BY <1>1, <1>2 DEF ServiceTyped
<1>4. tx' \in Transactions /\ TransactionSound'
  BY <1>1, ActivationGoes DEF AtTx, Activating
<1>5. QED
  BY <1>1, <1>3, <1>4, Activated

\* Whatever fails, the marker is dropped and the transaction turns back or admits it is broken.
LEMMA ActivationFailsKeeps ==
    ASSUME UpdInv, tx.pc \in {"signal", "poll"}, ActivationFails, Fault \/ UNCHANGED faults,
           UNCHANGED <<binVars, integ, saved, mgr, sig, core, capt, webVars, updates>>
    PROVE  UpdInv'
<1>1. ServiceTyped /\ tx \in Transactions /\ TransactionSound /\ (IF tx.back THEN Quit("broken") ELSE Recover)
      /\ marker' = (IF Handoff THEN NoMarker ELSE marker)
  BY InvParts DEF ActivationFails
<1>2. ServiceTyped'
  BY <1>1 DEF ServiceTyped, NoMarker, MaybeVersion
<1>3. tx' \in Transactions /\ TransactionSound'
  BY <1>1, RecoveryBegins, RecoveryBroken
<1>4. QED
  BY <1>2, <1>3, Activated

LEMMA CommandFailsKeeps == ASSUME UpdInv, CommandFails PROVE UpdInv'
BY ActivationFailsKeeps DEF CommandFails, AtTx

LEMMA PollTimesOutKeeps == ASSUME UpdInv, PollTimesOut PROVE UpdInv'
<1>1. Fault \/ UNCHANGED faults
  BY DEF PollTimesOut, Fault
<1>2. QED
  BY <1>1, ActivationFailsKeeps DEF PollTimesOut, AtTx

LEMMA StopServiceKeeps == ASSUME UpdInv, StopService PROVE UpdInv'
<1>1. AtTx("signal") /\ tx' = [tx EXCEPT !.pc = "start"] /\ Stopped(~ServiceCleans)
      /\ UNCHANGED <<binVars, integ, saved, marker, webVars, faults, updates>>
      /\ ServiceTyped /\ tx \in Transactions /\ TransactionSound
  BY InvParts DEF StopService
<1>2. ServiceTyped'
  BY <1>1 DEF ServiceTyped, Stopped, Managers, MaybeVersion
<1>3. tx' \in Transactions /\ TransactionSound'
  BY <1>1, ActivationGoes DEF AtTx, Activating
<1>4. QED
  BY <1>1, <1>2, <1>3, Activated

LEMMA Launched == ASSUME Launch, FilesTyped PROVE mgr' \in Managers
BY UpdBoundAssumption DEF Launch, FilesTyped, Managers, Running

LEMMA StartServiceKeeps == ASSUME UpdInv, StartService PROVE UpdInv'
<1>1. AtTx("start") /\ tx' = [tx EXCEPT !.pc = "poll"] /\ Launch
      /\ UNCHANGED <<binVars, integ, saved, marker, sig, core, capt, webVars, faults, updates>>
      /\ FilesTyped /\ ServiceTyped /\ tx \in Transactions /\ TransactionSound
  BY InvParts DEF StartService
<1>2. ServiceTyped'
  BY <1>1, Launched DEF ServiceTyped
<1>3. tx' \in Transactions /\ TransactionSound'
  BY <1>1, ActivationGoes DEF AtTx, Activating
<1>4. QED
  BY <1>1, <1>2, <1>3, Activated

LEMMA PollStableKeeps == ASSUME UpdInv, PollStable PROVE UpdInv'
<1>1. AtTx("poll") /\ UNCHANGED <<binVars, integ, saved, svcVars, webVars, faults, updates>>
      /\ (IF tx.back THEN Quit("restored") ELSE tx' = [tx EXCEPT !.pc = "verify"])
      /\ ServiceTyped /\ tx \in Transactions /\ TransactionSound
  BY InvParts DEF PollStable
<1>2. ServiceTyped' /\ UNCHANGED <<target, prev, failed, integ, saved>>
  BY <1>1 DEF ServiceTyped, svcVars, binVars
<1>3. CASE tx.back
  <2>1. tx' \in Transactions /\ SamePlan /\ tx'.pc = "idle" /\ tx'.out = "restored"
    BY <1>1, <1>3, TxQuit DEF Outcomes
  <2>2. TransactionSound'
    BY <1>1, <1>2, <1>3, <2>1
       DEF TransactionSound, TxSound, ForwardSound, BackwardSound, OutcomeTruthful, Active, Ended, Activating,
           SamePlan, AtTx
  <2>3. QED
    BY <1>1, <1>2, <2>1, <2>2, Activated
<1>4. CASE ~tx.back
  <2>1. tx' \in Transactions /\ tx'.pc = "verify" /\ SamePlan /\ tx'.back = tx.back
    BY <1>1, <1>4, TxGoto DEF TxPcs
  <2>2. TransactionSound'
    BY <1>1, <1>2, <1>4, <2>1
       DEF TransactionSound, TxSound, ForwardSound, BackwardSound, OutcomeTruthful, Active, Ended, IsInstall,
           Activating, SamePlan, AtTx
  <2>3. QED
    BY <1>1, <1>2, <2>1, <2>2, Activated
<1>5. QED
  BY <1>3, <1>4

LEMMA TxStepKeeps == ASSUME UpdInv, TxStep PROVE UpdInv'
BY RemoveOlderKeeps, KeepCurrentKeeps, SwapInKeeps, SwapFailsKeeps, SyncedKeeps, SyncFailsKeeps, ApplyFilesKeeps,
   ApplyFilesFailsKeeps, WriteMarkerKeeps, SignalManagerKeeps, CommandFailsKeeps, StopServiceKeeps, StartServiceKeeps,
   PollStableKeeps, PollTimesOutKeeps, VerifyFilesKeeps DEF TxStep

-----------------------------------------------------------------------------
(* The manager and the deaths.                                             *)

\* What the manager, procd and the clock do is not the transaction's.
LEMMA ServiceSteps ==
    ASSUME UpdInv, UNCHANGED <<binVars, integ, saved, tx, webVars, updates>>, Fault \/ UNCHANGED faults, ServiceTyped'
    PROVE  UpdInv'
<1>1. tx' \in Transactions /\ TransactionSound'
  BY InvParts, Elsewhere
<1>2. QED
  BY <1>1, Activated

LEMMA ManagerStepKeeps == ASSUME UpdInv, ManagerStep PROVE UpdInv'
<1> USE InvParts
<1>1. CASE BootHandsOver
  <2>1. ServiceTyped'
    BY <1>1 DEF BootHandsOver, ServiceTyped, Managers, Running
  <2>2. QED
    BY <1>1, <2>1, ServiceSteps DEF BootHandsOver
<1>2. CASE BootRecovers
  <2>1. ServiceTyped /\ mgr' = [mgr EXCEPT !.st = "up"] /\ marker' = NoMarker /\ UNCHANGED sig
        /\ (\/ core' = TRUE /\ capt' = mgr.ver
            \/ core' = FALSE /\ capt' = None)
    BY <1>2 DEF BootRecovers
  <2>2. mgr' \in Managers /\ mgr.ver \in MaybeVersion
    BY <2>1 DEF ServiceTyped, Managers, Running
  <2>3. core' \in BOOLEAN /\ capt' \in MaybeVersion
    BY <2>1, <2>2 DEF MaybeVersion
  <2>4. ServiceTyped'
    BY <2>1, <2>2, <2>3 DEF ServiceTyped, NoMarker, MaybeVersion
  <2>5. QED
    BY <1>2, <2>4, ServiceSteps DEF BootRecovers
<1>3. CASE Listens
  <2>1. ServiceTyped'
    BY <1>3 DEF Listens, ServiceTyped, Managers, Running, NoMarker, MaybeVersion
  <2>2. QED
    BY <1>3, <2>1, ServiceSteps DEF Listens
<1>4. CASE Respawn
  <2>1. ServiceTyped /\ FilesTyped /\ UNCHANGED <<marker, sig, core, capt>>
        /\ mgr' = (IF mgr.left = 0 \/ target = None THEN [mgr EXCEPT !.st = "down", !.ver = None]
                   ELSE [st |-> "boot", ver |-> target, left |-> mgr.left - 1])
    BY <1>4 DEF Respawn
  <2>2. mgr' \in Managers
    <3>1. mgr.left \in 0 .. Respawns /\ mgr \in Managers /\ target \in MaybeVersion
      BY <2>1, ManagerTyped DEF ServiceTyped, FilesTyped
    <3>2. CASE mgr.left = 0 \/ target = None
      BY <2>1, <3>1, <3>2 DEF Managers, MaybeVersion
    <3>3. CASE ~(mgr.left = 0 \/ target = None)
      <4>1. mgr.left - 1 \in 0 .. Respawns
        BY <3>1, <3>3, UpdBoundAssumption
      <4>2. QED
        BY <2>1, <3>1, <3>3, <4>1 DEF Managers, Running
    <3>4. QED
      BY <3>2, <3>3
  <2>3. ServiceTyped'
    BY <2>1, <2>2 DEF ServiceTyped
  <2>4. QED
    BY <1>4, <2>3, ServiceSteps DEF Respawn
<1>5. CASE ReExec
  <2>1. ServiceTyped /\ FilesTyped /\ sig' = FALSE /\ UNCHANGED <<marker, core, capt>>
        /\ (mgr' = [mgr EXCEPT !.st = "boot", !.ver = target] \/ UNCHANGED mgr)
    BY <1>5 DEF ReExec
  <2>2. ServiceTyped'
    BY <2>1 DEF ServiceTyped, FilesTyped, Managers, Running
  <2>3. Fault \/ UNCHANGED faults
    BY <1>5 DEF ReExec
  <2>4. QED
    BY <1>5, <2>2, <2>3, ServiceSteps DEF ReExec
<1>6. CASE MonitorFailsOpen
  <2>1. ServiceTyped'
    BY <1>6 DEF MonitorFailsOpen, ServiceTyped, MaybeVersion
  <2>2. QED
    BY <1>6, <2>1, ServiceSteps DEF MonitorFailsOpen
<1>7. QED
  BY <1>1, <1>2, <1>3, <1>4, <1>5, <1>6 DEF ManagerStep

LEMMA ManagerDiesKeeps == ASSUME UpdInv, ManagerDies PROVE UpdInv'
<1>1. ServiceTyped'
  BY InvParts DEF ManagerDies, ServiceTyped, Managers, Running
<1>2. QED
  BY <1>1, ServiceSteps DEF ManagerDies

LEMMA CoreDiesKeeps == ASSUME UpdInv, CoreDies PROVE UpdInv'
<1>1. ServiceTyped'
  BY InvParts DEF CoreDies, ServiceTyped
<1>2. QED
  BY <1>1, ServiceSteps DEF CoreDies

LEMMA MarkerExpiresKeeps == ASSUME UpdInv, MarkerExpires PROVE UpdInv'
<1>1. ServiceTyped'
  BY InvParts DEF MarkerExpires, ServiceTyped
<1>2. QED
  BY <1>1, ServiceSteps DEF MarkerExpires

LEMMA AdminRestartsKeeps == ASSUME UpdInv, AdminRestarts PROVE UpdInv'
<1>1. ServiceTyped'
  BY InvParts, Launched DEF AdminRestarts, ServiceTyped, MaybeVersion
<1>2. QED
  BY <1>1, ServiceSteps DEF AdminRestarts

\* An updater that dies reports nothing; one that was not asked to die goes on.
LEMMA UpdaterDiesKeeps == ASSUME UpdInv, UpdaterDies PROVE UpdInv'
<1>1. Fault /\ tx' = (IF tx.web \/ worker.st = "none" THEN NoTx ELSE tx) /\ worker' = [worker EXCEPT !.st = "none"]
      /\ UNCHANGED <<binVars, integ, saved, svcVars, job, updates>>
      /\ FilesTyped /\ ServiceTyped /\ WebTyped /\ tx \in Transactions /\ TransactionSound
  BY InvParts DEF UpdaterDies
<1>2. FilesTyped' /\ ServiceTyped'
  BY <1>1 DEF FilesTyped, ServiceTyped, binVars, svcVars
<1>3. WebTyped'
  BY <1>1 DEF WebTyped, Workers, FinishedJobIsOver
<1>4. tx' \in Transactions /\ TransactionSound'
  <2>1. CASE tx' = NoTx
    BY <2>1, NoTxFacts, Forgotten
  <2>2. CASE tx' = tx
    BY <1>1, <2>2, Elsewhere
  <2>3. QED
    BY <1>1, <2>1, <2>2
<1>5. QED
  BY <1>1, <1>2, <1>3, <1>4, FaultCounted, Assembled

LEMMA PowerCutKeeps == ASSUME UpdInv, PowerCut PROVE UpdInv'
<1>1. /\ Fault /\ tx' = NoTx /\ worker' = [worker EXCEPT !.st = "none"] /\ Launch /\ sig' = FALSE
      /\ core' = FALSE /\ capt' = None
      /\ UNCHANGED <<binVars, integ, saved, marker, job, updates>>
      /\ FilesTyped /\ ServiceTyped /\ WebTyped
  BY InvParts DEF PowerCut
<1>2. FilesTyped' /\ ServiceTyped'
  BY <1>1, Launched DEF FilesTyped, ServiceTyped, binVars, MaybeVersion
<1>3. WebTyped'
  BY <1>1 DEF WebTyped, Workers, FinishedJobIsOver
<1>4. tx' \in Transactions /\ TransactionSound'
  BY <1>1, NoTxFacts, Forgotten
<1>5. QED
  BY <1>1, <1>2, <1>3, <1>4, FaultCounted, Assembled

-----------------------------------------------------------------------------
(* The web job.  A worker past its claim owns the record it claimed: no    *)
(* other job is queued, and none is given up, while it lives.              *)

LEMMA WebFields ==
    ASSUME WebTyped
    PROVE  /\ job.st \in {"none", "failed", "confirm", "succeeded"} \union ActiveJobs /\ job.id \in 0 .. MaxUpdates
           /\ worker.st \in {"none", "started", "claimed", "working"} /\ worker.id \in 0 .. MaxUpdates
BY DEF WebTyped, Jobs, Workers

\* A step of the job or its worker alone.
LEMMA WebSteps ==
    ASSUME UpdInv, UNCHANGED <<binVars, integ, saved, svcVars, tx, updates>>, Fault \/ UNCHANGED faults, WebTyped'
    PROVE  UpdInv'
<1>1. FilesTyped' /\ ServiceTyped' /\ tx' \in Transactions /\ TransactionSound'
  BY InvParts, Elsewhere DEF FilesTyped, ServiceTyped, binVars, svcVars
<1>2. QED
  BY <1>1, FaultCounted, Assembled

LEMMA QueueJobKeeps == ASSUME UpdInv, QueueJob PROVE UpdInv'
<1>1. WebTyped
  BY InvParts
<1>2. job.id + 1 \in 0 .. MaxUpdates
  BY <1>1, WebFields, UpdBoundAssumption DEF QueueJob, NewJob
<1>3. WebTyped'
  BY <1>2 DEF QueueJob, WebTyped, Jobs, Workers, ActiveJobs, FinishedJobIsOver
<1>4. QED
  BY <1>3, WebSteps DEF QueueJob

LEMMA QueueJobFailsKeeps == ASSUME UpdInv, QueueJobFails PROVE UpdInv'
<1>1. WebTyped
  BY InvParts
<1>2. job.id + 1 \in 0 .. MaxUpdates
  BY <1>1, WebFields, UpdBoundAssumption DEF QueueJobFails, NewJob
<1>3. WebTyped'
  BY <1>1, <1>2 DEF QueueJobFails, NewJob, WebTyped, Jobs, Workers, ActiveJobs, FinishedJobIsOver
<1>4. QED
  BY <1>3, WebSteps DEF QueueJobFails

LEMMA ClaimJobKeeps == ASSUME UpdInv, ClaimJob PROVE UpdInv'
<1>1. WebTyped
  BY InvParts
<1>2. WebTyped'
  BY <1>1, WebFields DEF ClaimJob, WebTyped, Jobs, Workers, ActiveJobs, FinishedJobIsOver
<1>3. QED
  BY <1>2, WebSteps DEF ClaimJob

LEMMA FinishTyped ==
    ASSUME WebTyped, NEW st \in {"succeeded", "confirm", "failed"}, Finish(st)
    PROVE  WebTyped'
BY WebFields DEF Finish, WebTyped, Jobs, Workers, FinishedJobIsOver

LEMMA WorkerDeclinesKeeps == ASSUME UpdInv, WorkerDeclines PROVE UpdInv'
<1>1. WebTyped /\ (Finish("succeeded") \/ Finish("confirm") \/ Finish("failed"))
  BY InvParts DEF WorkerDeclines
<1>2. WebTyped'
  BY <1>1, FinishTyped
<1>3. QED
  BY <1>2, WebSteps DEF WorkerDeclines

LEMMA WorkerFinishesKeeps == ASSUME UpdInv, WorkerFinishes PROVE UpdInv'
<1>1. WebTyped /\ Finish(IF tx.out = "ok" THEN "succeeded" ELSE "failed")
  BY InvParts DEF WorkerFinishes
<1>2. WebTyped'
  BY <1>1, FinishTyped
<1>3. QED
  BY <1>2, WebSteps DEF WorkerFinishes

LEMMA ReconcileKeeps == ASSUME UpdInv, Reconcile PROVE UpdInv'
<1>1. WebTyped
  BY InvParts
<1>2. WebTyped'
  BY <1>1, WebFields DEF Reconcile, WebTyped, Jobs, Workers, FinishedJobIsOver
<1>3. QED
  BY <1>2, WebSteps DEF Reconcile

LEMMA WorkerInstallsKeeps == ASSUME UpdInv, NEW to \in Versions, WorkerInstalls(to) PROVE UpdInv'
<1> DEFINE mode == IF Compatible(target, to) THEN "only" ELSE "full"
<1>1. /\ worker.st = "claimed" /\ Begin("install", to, TRUE, mode, FALSE) /\ saved' = [saved EXCEPT ![target] = integ]
      /\ worker' = [worker EXCEPT !.st = "working"] /\ UNCHANGED <<binVars, integ, svcVars, job, faults>>
  BY DEF WorkerInstalls
<1>2. mode \in {"none", "only", "full"}
  OBVIOUS
<1>3. FilesTyped' /\ tx' \in Transactions /\ TransactionSound'
  <2> HIDE DEF mode
  <2> QED
    BY <1>1, <1>2, InstallBegins
<1>4. Counted'
  <2>1. "install" \in {"install", "rollback"} /\ TRUE \in BOOLEAN
    OBVIOUS
  <2> HIDE DEF mode
  <2>2. updates' \in 0 .. MaxUpdates
    BY <1>1, <1>2, <2>1, BeginFacts
  <2>3. QED
    BY <1>1, <2>2 DEF Counted, UpdInv, UpdTypeOK
<1>5. ServiceTyped' /\ WebTyped'
  BY <1>1, InvParts, WebFields DEF ServiceTyped, WebTyped, Workers, FinishedJobIsOver, svcVars
<1>6. QED
  BY <1>3, <1>4, <1>5, Assembled

-----------------------------------------------------------------------------
LEMMA UpdInitKeeps == UpdInit => UpdInv
<1> SUFFICES ASSUME UpdInit PROVE UpdInv
  OBVIOUS
<1>1. FilesTyped
  BY DEF UpdInit, FilesTyped, MaybeVersion, Integs
<1>2. ServiceTyped
  <2>1. Respawns \in 0 .. Respawns
    BY UpdBoundAssumption
  <2>2. QED
    BY <2>1 DEF UpdInit, ServiceTyped, NoMarker, Managers, Running, MaybeVersion
<1>3. WebTyped /\ Counted
  BY UpdBoundAssumption DEF UpdInit, WebTyped, Counted, Jobs, Workers, FinishedJobIsOver
<1>4. tx \in Transactions /\ TransactionSound
  BY NoTxFacts DEF UpdInit, TransactionSound, TxSound, ForwardSound, BackwardSound, OutcomeTruthful, Active, Ended
<1>5. QED
  BY <1>1, <1>2, <1>3, <1>4, InvParts

LEMMA UpdStepKeeps == UpdInv /\ [UpdNext]_updVars => UpdInv'
<1> SUFFICES ASSUME UpdInv, [UpdNext]_updVars PROVE UpdInv'
  OBVIOUS
<1>1. CASE UNCHANGED updVars
  <2>1. ServiceTyped'
    BY <1>1, InvParts DEF ServiceTyped, updVars, svcVars
  <2>2. QED
    BY <1>1, <2>1, ServiceSteps DEF updVars
<1>2. CASE \E to \in Versions, mode \in {"none", "only", "full"} : BeginInstall(to, mode)
  BY <1>2, BeginInstallKeeps
<1>3. CASE \E mode \in {"none", "only", "full"} : BeginRollback(mode)
  BY <1>3, BeginRollbackKeeps
<1>4. CASE TxStep \/ ManagerStep
  BY <1>4, TxStepKeeps, ManagerStepKeeps
<1>5. CASE WorkerStep \/ Reconcile
  BY <1>5, ClaimJobKeeps, WorkerDeclinesKeeps, WorkerFinishesKeeps, WorkerInstallsKeeps, ReconcileKeeps DEF WorkerStep
<1>6. CASE ManagerDies \/ CoreDies \/ MarkerExpires \/ AdminRestarts \/ UpdaterDies \/ PowerCut
  BY <1>6, ManagerDiesKeeps, CoreDiesKeeps, MarkerExpiresKeeps, AdminRestartsKeeps, UpdaterDiesKeeps, PowerCutKeeps
<1>7. CASE QueueJob \/ QueueJobFails
  BY <1>7, QueueJobKeeps, QueueJobFailsKeeps
<1>8. QED
  BY <1>1, <1>2, <1>3, <1>4, <1>5, <1>6, <1>7 DEF UpdNext

(* An update transaction always knows where its binaries and files are.    *)
THEOREM UpdInvariant == UpdSpec => []UpdInv
BY UpdInitKeeps, UpdStepKeeps, PTL DEF UpdSpec

(* What the updater reports is what is installed.                          *)
THEOREM OutcomeTruthfulHolds == UpdSpec => []OutcomeTruthful
<1>1. UpdInv => OutcomeTruthful
  BY DEF UpdInv, TransactionSound
<1>2. QED
  BY UpdInvariant, <1>1, PTL

(* A job that reads as finished has no worker installing it.               *)
THEOREM FinishedJobIsOverHolds == UpdSpec => []FinishedJobIsOver
<1>1. UpdInv => FinishedJobIsOver
  BY DEF UpdInv
<1>2. QED
  BY UpdInvariant, <1>1, PTL
=============================================================================
