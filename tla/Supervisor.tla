----------------------------- MODULE Supervisor -----------------------------
(***************************************************************************)
(* internal/engine/supervisor.go with app/engines.go (EngineHost) and the  *)
(* kernel's process table: how a core process is started, recorded on      *)
(* disk, watched, signalled, reaped, hot-reloaded and, after the manager   *)
(* died or re-executed itself, adopted.  Both drivers share one record     *)
(* file and one process may outlive several managers.                      *)
(*                                                                         *)
(* EngineHost.opMu serialises Start, Stop and Reload; what is concurrent   *)
(* are the kernel, the goroutines that wait for a process, and the death   *)
(* of the manager at any instant, between a spawn and its record too.      *)
(***************************************************************************)
EXTENDS Integers, FiniteSets

CONSTANTS
    Gens,        \* private runtimes (one directory each)
    Engines,     \* the drivers
    EngineOf,    \* the engine a runtime was prepared for
    HotReload,   \* the engines whose driver reloads in place
    Pids,        \* process ids the kernel hands out
    NoPid, NoGen, NoEngine,
    MaxStarts    \* bound: processes created over a behaviour

ASSUME SupGensAssumption == NoGen \notin Gens /\ "foreign" \notin Gens /\ NoGen # "foreign"
ASSUME SupEngineAssumption ==
    /\ NoEngine \notin Engines /\ EngineOf \in [Gens -> Engines] /\ HotReload \subseteq Engines
ASSUME SupPidAssumption == NoPid \notin Pids
ASSUME SupBoundAssumption == MaxStarts \in Nat

VARIABLES
    procs,     \* the process table: start time, what it runs, whose child, state
    ticks,     \* the kernel clock that makes start times unique
    record,    \* mihomo-process.json
    files,     \* the private runtimes on disk
    up,        \* a manager serves
    sup,       \* each driver's supervisor: the process it believes it owns
    host,      \* EngineHost.running
    call,      \* the Start, Stop or Reload in progress, with the process it is about
    waiters,   \* goroutines in waitProcess and reapAdoptedChild
    lost,      \* history: processes whose record was not written, or was removed, under them
    parted     \* history: processes that loaded a runtime their record does not name

histVars == <<lost, parted>>
supVars == <<procs, ticks, record, files, up, sup, host, call, waiters, lost, parted>>

Ids == 0 .. MaxStarts
NoRecord == [pid |-> NoPid, id |-> 0, gen |-> NoGen]
NoSup == [pid |-> NoPid, id |-> 0, gen |-> NoGen, child |-> FALSE]
NoCall == [pc |-> "none", eng |-> NoEngine, own |-> NoSup]
FreeProc == [id |-> 0, gen |-> NoGen, child |-> FALSE, st |-> "free"]

Procs == [id : Ids, gen : Gens \union {NoGen, "foreign"}, child : BOOLEAN, st : {"free", "alive", "zombie"}]
Records == [pid : Pids \union {NoPid}, id : Ids, gen : Gens \union {NoGen}]
Owners == [pid : Pids \union {NoPid}, id : Ids, gen : Gens \union {NoGen}, child : BOOLEAN]
Starting == {"identify", "record", "unnamed", "unwritten", "unrecord"}
Stopping == {"term", "wait", "killed", "gone"}
Calls == [pc : {"none", "reload"} \union Starting \union Stopping, eng : Engines \union {NoEngine}, own : Owners]
Waiters == [eng : Engines, own : Owners, pc : {"wait", "lock", "record", "files"}]

SupTypeOK ==
    /\ procs \in [Pids -> Procs] /\ ticks \in Ids
    /\ record \in Records /\ files \subseteq Gens
    /\ up \in BOOLEAN /\ sup \in [Engines -> Owners] /\ host \in Engines \union {NoEngine}
    /\ call \in Calls /\ waiters \subseteq Waiters
    /\ lost \subseteq Ids /\ parted \subseteq Ids

SupInit ==
    /\ procs = [p \in Pids |-> FreeProc] /\ ticks = 0
    /\ record = NoRecord /\ files = {} /\ up = FALSE
    /\ sup = [e \in Engines |-> NoSup] /\ host = NoEngine
    /\ call = NoCall /\ waiters = {} /\ lost = {} /\ parted = {}

-----------------------------------------------------------------------------
(* The kernel.                                                             *)

Cores == {p \in Pids : procs[p].st = "alive" /\ procs[p].gen \in Gens}

\* validatePersistedProcessExecution: same start time, executable and argv.  A
\* zombie has no executable any more, another process another start time.
Executing(o) == o.pid \in Pids /\ procs[o.pid].st = "alive" /\ procs[o.pid].id = o.id

\* persistedProcessAlive: the start time alone, which a zombie still shows.
Exists(o) == o.pid \in Pids /\ procs[o.pid].st # "free" /\ procs[o.pid].id = o.id

Exit(p, table) == [table EXCEPT ![p] = IF @.child THEN [@ EXCEPT !.st = "zombie"] ELSE FreeProc]

CoreExits(p) ==
    /\ p \in Cores
    /\ procs' = Exit(p, procs)
    /\ UNCHANGED <<ticks, record, files, up, sup, host, call, waiters, histVars>>

\* The kernel gives a free pid to a process of somebody else.
ForeignStarts(p) ==
    /\ procs[p].st = "free" /\ ticks < MaxStarts
    /\ \A q \in Pids : procs[q].gen # "foreign"
    /\ ticks' = ticks + 1
    /\ procs' = [procs EXCEPT ![p] = [id |-> ticks + 1, gen |-> "foreign", child |-> FALSE, st |-> "alive"]]
    /\ UNCHANGED <<record, files, up, sup, host, call, waiters, histVars>>

-----------------------------------------------------------------------------
(* Start.  The supervisor's lock is held from the spawn to the record; a   *)
(* child that was spawned survives its manager whatever the record says.   *)

CanCall == up /\ call = NoCall
StartRefused(g) == host # NoEngine \/ sup[EngineOf[g]].pid # NoPid
Locked(e) == call.pc \in {"identify", "record"} /\ call.eng = e

\* Every preparation makes a runtime of its own.
Fresh(g) ==
    /\ g \notin files /\ record.gen # g /\ \A p \in Pids : procs[p].gen # g
    /\ \A e \in Engines : sup[e].gen # g
    /\ \A w \in waiters : w.own.gen # g

\* removeProcessState removes whatever is recorded, on behalf of process id.
Unrecord(id) == record' = NoRecord /\ lost' = lost \union ({record.id} \ {0, id})

AsRecord(own) == [pid |-> own.pid, id |-> own.id, gen |-> own.gen]

Spawn(g, p) ==
    LET own == [pid |-> p, id |-> ticks + 1, gen |-> g, child |-> TRUE]
    IN /\ CanCall /\ Fresh(g) /\ ~StartRefused(g)
       /\ procs[p].st = "free" /\ ticks < MaxStarts
       /\ ticks' = ticks + 1
       /\ procs' = [procs EXCEPT ![p] = [id |-> own.id, gen |-> g, child |-> TRUE, st |-> "alive"]]
       /\ sup' = [sup EXCEPT ![EngineOf[g]] = own]
       /\ call' = [pc |-> "identify", eng |-> EngineOf[g], own |-> own]
       /\ files' = files \union {g}
       /\ UNCHANGED <<record, up, host, waiters, histVars>>

\* captureProcessExecution reads the start time, the executable and the argv.
Identify ==
    /\ call.pc = "identify" /\ Executing(call.own)
    /\ call' = [call EXCEPT !.pc = "record"]
    /\ UNCHANGED <<procs, ticks, record, files, up, sup, host, waiters, histVars>>

IdentifyFails ==
    /\ call.pc = "identify"
    /\ sup' = [sup EXCEPT ![call.eng] = NoSup]
    /\ call' = [call EXCEPT !.pc = "unnamed"]
    /\ UNCHANGED <<procs, ticks, record, files, up, host, waiters, histVars>>

\* The record is durable: the lock is released and a goroutine waits for the child.
WriteRecord ==
    /\ call.pc = "record"
    /\ record' = AsRecord(call.own)
    /\ waiters' = waiters \union {[eng |-> call.eng, own |-> call.own, pc |-> "wait"]}
    /\ host' = call.eng
    /\ call' = NoCall
    /\ UNCHANGED <<procs, ticks, files, up, sup, histVars>>

\* WriteFileAtomic fails before its rename, or after it.
WriteFails ==
    /\ call.pc = "record"
    /\ record' \in {record, AsRecord(call.own)}
    /\ sup' = [sup EXCEPT ![call.eng] = NoSup]
    /\ call' = [call EXCEPT !.pc = "unwritten"]
    /\ UNCHANGED <<procs, ticks, files, up, host, waiters, histVars>>

\* Mutant: the child of a Start that fails is left running.
KillChildForgotten ==
    /\ call.pc \in {"unnamed", "unwritten"}
    /\ call' = NoCall /\ files' = files \ {call.own.gen}
    /\ UNCHANGED <<procs, ticks, record, up, sup, host, waiters, histVars>>

\* A child that is not supervised after all is killed and reaped; the caller
\* removes the runtime it prepared.
KillChild ==
    /\ call.pc \in {"unnamed", "unwritten"}
    /\ procs' = [procs EXCEPT ![call.own.pid] = FreeProc]
    /\ IF call.pc = "unnamed"
       THEN call' = NoCall /\ files' = files \ {call.own.gen}
       ELSE call' = [call EXCEPT !.pc = "unrecord"] /\ UNCHANGED files
    /\ UNCHANGED <<ticks, record, up, sup, host, waiters, histVars>>

UnrecordChild ==
    /\ call.pc = "unrecord"
    /\ Unrecord(call.own.id)
    /\ call' = NoCall /\ files' = files \ {call.own.gen}
    /\ UNCHANGED <<procs, ticks, up, sup, host, waiters, parted>>

-----------------------------------------------------------------------------
(* Reload: the controller has the running process load another runtime,    *)
(* then memory and record follow it and the old runtime goes.              *)

ReloadAccepted(g) ==
    LET e == EngineOf[g]  old == sup[e]
    IN /\ CanCall /\ host = e /\ e \in HotReload /\ Executing(old) /\ Fresh(g)
       /\ procs' = [procs EXCEPT ![old.pid].gen = g]
       /\ parted' = parted \union {old.id}
       /\ call' = [pc |-> "reload", eng |-> e, own |-> [old EXCEPT !.gen = g]]
       /\ files' = files \union {g}
       /\ UNCHANGED <<ticks, record, up, sup, host, waiters, lost>>

ReloadRecorded ==
    LET old == sup[call.eng]
    IN /\ call.pc = "reload" /\ old.pid # NoPid
       /\ sup' = [sup EXCEPT ![call.eng].gen = call.own.gen]
       /\ record' = AsRecord([old EXCEPT !.gen = call.own.gen])
       /\ files' = files \ {old.gen}
       /\ parted' = parted \ {old.id} /\ lost' = lost \ {old.id}
       /\ call' = NoCall
       /\ UNCHANGED <<procs, ticks, up, host, waiters>>

\* The answer got lost, or the process exited meanwhile: the caller removes the
\* runtime it prepared, which is the one the process has loaded.
ReloadLost ==
    /\ call.pc = "reload"
    /\ files' = files \ {call.own.gen}
    /\ call' = NoCall
    /\ UNCHANGED <<procs, ticks, record, up, sup, host, waiters, histVars>>

\* The record cannot be written: memory follows the process all the same, and the
\* caller removes the new runtime.  A record renamed but not synced names that runtime.
ReloadUnrecorded ==
    /\ call.pc = "reload" /\ sup[call.eng].pid # NoPid
    /\ sup' = [sup EXCEPT ![call.eng].gen = call.own.gen]
    /\ \/ UNCHANGED <<record, lost>>
       \/ record' = AsRecord([sup[call.eng] EXCEPT !.gen = call.own.gen]) /\ lost' = lost \union {call.own.id}
    /\ files' = files \ {call.own.gen}
    /\ call' = NoCall
    /\ UNCHANGED <<procs, ticks, up, host, waiters, parted>>

-----------------------------------------------------------------------------
(* The goroutine that waits for a process: it clears the supervisor under  *)
(* the lock, then removes the record, then the runtime.                    *)

Move(w, pc) == waiters' = (waiters \ {w}) \union {[w EXCEPT !.pc = pc]}

WaiterReaps(w) ==
    /\ w.pc = "wait"
    /\ procs[w.own.pid].id = w.own.id /\ procs[w.own.pid].st = "zombie"
    /\ procs' = [procs EXCEPT ![w.own.pid] = FreeProc]
    /\ Move(w, "lock")
    /\ UNCHANGED <<ticks, record, files, up, sup, host, call, histVars>>

Owned(w) == sup[w.eng].pid = w.own.pid /\ sup[w.eng].id = w.own.id

\* Mutant: the supervisor is cleared whether or not it still holds the process.
WaiterClearsStarted(w) ==
    /\ w.pc = "lock" /\ ~Locked(w.eng)
    /\ sup' = [sup EXCEPT ![w.eng] = NoSup]
    /\ Move(w, "record")
    /\ UNCHANGED <<procs, ticks, record, files, up, host, call, histVars>>

\* waitProcess removes what the supervisor runs now (a reload may have moved
\* on), reapAdoptedChild what it was given, and only if it is still current.
Cleaning(w, g) == [eng |-> w.eng, own |-> [w.own EXCEPT !.gen = g], pc |-> "record"]

WaiterClears(w) ==
    /\ w.pc = "lock" /\ ~Locked(w.eng)
    /\ IF Owned(w)
       THEN /\ sup' = [sup EXCEPT ![w.eng] = NoSup]
            /\ waiters' = (waiters \ {w}) \union
                  {Cleaning(w, IF w.own.child THEN sup[w.eng].gen ELSE w.own.gen)}
       ELSE /\ waiters' = (waiters \ {w}) \union (IF w.own.child THEN {Cleaning(w, NoGen)} ELSE {})
            /\ UNCHANGED sup
    /\ UNCHANGED <<procs, ticks, record, files, up, host, call, histVars>>

WaiterUnrecords(w) ==
    /\ w.pc = "record"
    /\ Unrecord(w.own.id)
    /\ Move(w, "files")
    /\ UNCHANGED <<procs, ticks, files, up, sup, host, call, parted>>

WaiterCleans(w) ==
    /\ w.pc = "files"
    /\ files' = files \ {w.own.gen}
    /\ waiters' = waiters \ {w}
    /\ UNCHANGED <<procs, ticks, record, up, sup, host, call, histVars>>

-----------------------------------------------------------------------------
(* Stop works on a snapshot of the supervisor.                             *)

StopNothing ==
    /\ CanCall /\ host # NoEngine /\ sup[host].pid = NoPid
    /\ host' = NoEngine
    /\ UNCHANGED <<procs, ticks, record, files, up, sup, call, waiters, histVars>>

StopBegin ==
    /\ CanCall /\ host # NoEngine /\ sup[host].pid # NoPid
    /\ call' = [pc |-> "term", eng |-> host, own |-> sup[host]]
    /\ UNCHANGED <<procs, ticks, record, files, up, sup, host, waiters, histVars>>

\* signalVerifiedProcessGroup: verified, or gone, or refused ("a changed process").
StopTerm ==
    /\ call.pc = "term"
    /\ \/ Executing(call.own) /\ call' = [call EXCEPT !.pc = "wait"]
       \/ ~Exists(call.own) /\ call' = [call EXCEPT !.pc = "gone"]
       \/ Exists(call.own) /\ ~Executing(call.own) /\ call' = NoCall
    /\ UNCHANGED <<procs, ticks, record, files, up, sup, host, waiters, histVars>>

\* Mutant: the timeout kills whatever has the pid by now.
StopKillUnverified ==
    /\ call.pc = "wait"
    /\ procs' = IF procs[call.own.pid].st = "alive" THEN Exit(call.own.pid, procs) ELSE procs
    /\ call' = [call EXCEPT !.pc = "killed"]
    /\ UNCHANGED <<ticks, record, files, up, sup, host, waiters, histVars>>

\* The stop timeout: KILL, verified again because the pid may have a new owner.
StopKill ==
    /\ call.pc = "wait"
    /\ \/ Executing(call.own) /\ procs' = Exit(call.own.pid, procs) /\ call' = [call EXCEPT !.pc = "killed"]
       \/ ~Exists(call.own) /\ call' = [call EXCEPT !.pc = "gone"] /\ UNCHANGED procs
       \/ Exists(call.own) /\ ~Executing(call.own) /\ call' = NoCall /\ UNCHANGED procs
    /\ UNCHANGED <<ticks, record, files, up, sup, host, waiters, histVars>>

\* The caller gives up: KILL is still sent, the host still says running.
StopCancelled ==
    /\ call.pc \in {"wait", "killed", "gone"}
    /\ procs' = IF call.pc # "gone" /\ Executing(call.own) THEN Exit(call.own.pid, procs) ELSE procs
    /\ call' = NoCall
    /\ UNCHANGED <<ticks, record, files, up, sup, host, waiters, histVars>>

\* A child is gone when its waiter is done with it, an adopted process when no
\* process has its start time; the latter is cleaned up here.
Gone == IF call.own.child THEN \A w \in waiters : w.own.id # call.own.id ELSE ~Exists(call.own)

StopDone ==
    /\ call.pc \in {"wait", "killed", "gone"} /\ Gone
    /\ IF call.own.child
       THEN UNCHANGED <<sup, record, files, lost>>
       ELSE /\ sup' = [sup EXCEPT ![call.eng] = IF @.pid = call.own.pid /\ @.id = call.own.id THEN NoSup ELSE @]
            /\ Unrecord(call.own.id)
            /\ files' = files \ {call.own.gen}
    /\ host' = NoEngine
    /\ call' = NoCall
    /\ UNCHANGED <<procs, ticks, up, waiters, parted>>

-----------------------------------------------------------------------------
(* The manager dies, or replaces itself (SIGUSR2 execs the new binary in   *)
(* the same process, so the core stays a child and nobody waits for it).   *)
(* Neither waits for the call in progress, and nothing kills the child.    *)

ManagerEnds ==
    /\ up
    /\ up' = FALSE
    /\ \/ procs' = procs
       \/ procs' = [p \in Pids |-> IF procs[p].st = "zombie" THEN FreeProc ELSE [procs[p] EXCEPT !.child = FALSE]]
    /\ sup' = [e \in Engines |-> NoSup] /\ host' = NoEngine /\ call' = NoCall /\ waiters' = {}
    /\ lost' = IF call.pc \in Starting /\ record.id # call.own.id THEN lost \union {call.own.id} ELSE lost
    /\ UNCHANGED <<ticks, record, files, parted>>

\* The next manager adopts the recorded process if it is exactly that process.
\* An adopted process that is still our child is reaped by a goroutine.
BootAdopts ==
    LET own == [pid |-> record.pid, id |-> record.id, gen |-> record.gen, child |-> FALSE]
        e == EngineOf[record.gen]
    IN /\ ~up /\ record # NoRecord /\ record.gen \in files /\ Executing(record)
       /\ up' = TRUE
       /\ sup' = [sup EXCEPT ![e] = own]
       /\ host' = e
       /\ waiters' = IF procs[record.pid].child THEN {[eng |-> e, own |-> own, pc |-> "wait"]} ELSE {}
       /\ UNCHANGED <<procs, ticks, record, files, call, histVars>>

\* The recorded pid is free: record and runtime are discarded.  A reused pid, a
\* zombie or a missing runtime is not enough to delete anything.
BootFindsNone ==
    /\ ~up
    /\ record # NoRecord /\ record.gen \in files => ~Executing(record)
    /\ up' = TRUE
    /\ IF record # NoRecord /\ record.gen \in files /\ procs[record.pid].st = "free"
       THEN record' = NoRecord /\ files' = files \ {record.gen}
       ELSE UNCHANGED <<record, files>>
    /\ UNCHANGED <<procs, ticks, sup, host, call, waiters, histVars>>

-----------------------------------------------------------------------------
WaiterStep(w) == WaiterReaps(w) \/ WaiterClears(w) \/ WaiterUnrecords(w) \/ WaiterCleans(w)

StartStep ==
    \/ Identify \/ IdentifyFails \/ WriteRecord \/ WriteFails \/ KillChild \/ UnrecordChild
    \/ \E g \in Gens, p \in Pids : Spawn(g, p)

ReloadStep == ReloadRecorded \/ ReloadLost \/ ReloadUnrecorded \/ \E g \in Gens : ReloadAccepted(g)

StopStep == StopNothing \/ StopBegin \/ StopTerm \/ StopKill \/ StopCancelled \/ StopDone

SupNext ==
    \/ \E p \in Pids : CoreExits(p) \/ ForeignStarts(p)
    \/ StartStep \/ ReloadStep \/ StopStep
    \/ \E w \in waiters : WaiterStep(w)
    \/ ManagerEnds \/ BootAdopts \/ BootFindsNone

SupSpec == SupInit /\ [][SupNext]_supVars

-----------------------------------------------------------------------------
(* The mutually exclusive drivers never run two cores at once, over any    *)
(* sequence of starts, failed starts, crashes, re-executions and           *)
(* adoptions, but beside a core whose record was lost under it: its        *)
(* manager ended between spawn and record (supervisor.go:242-266), the     *)
(* waiter of the core before it removed the record (:303), or a reload     *)
(* left a record of a runtime that is gone (:538-541).                     *)
OneCore == Cardinality({p \in Cores : procs[p].id \notin lost}) <= 1

(* While such a core lives, and its Start is over, the record names that   *)
(* process and a runtime that is on disk, so the next manager can adopt    *)
(* it; the runtime is the one it loaded unless its last reload failed to   *)
(* say so.                                                                 *)
InStart(p) == call.pc \in Starting /\ call.own.id = procs[p].id

Adoptable ==
    \A p \in Cores : procs[p].id \in lost \/ InStart(p) \/
        /\ record.pid = p /\ record.id = procs[p].id /\ record.gen \in files
        /\ procs[p].id \in parted \/ record.gen = procs[p].gen

(* A serving manager which says that no engine runs is right, and it never *)
(* owns a process through a driver other than the host's.                  *)
HostIsRight ==
    up => /\ host = NoEngine => \A p \in Cores : procs[p].id \in lost \/ InStart(p)
          /\ \A e \in Engines : sup[e].pid # NoPid => host = e \/ (call.pc \in Starting /\ call.eng = e)

(* The process, its record on disk and what the drivers say of it agree.   *)
CoreAccountedFor == Adoptable /\ HostIsRight

(* No signal of ours reaches a process of somebody else, although pids     *)
(* are reused and snapshots are old.                                       *)
ForeignUntouched == [][\A p \in Pids : procs[p].gen = "foreign" => procs'[p] = procs[p]]_supVars
=============================================================================
