-------------------------- MODULE ExternalDashboard --------------------------
(***************************************************************************)
(* app/external_dashboard.go and external_dashboard_scope.go: the optional *)
(* dashboard is a directory, ui, that an install replaces by renames, with *)
(* the former tree kept under a reserved name until the new one is         *)
(* durable; the next start or install recovers what was interrupted.       *)
(* Requests to the controller proxy live until the setting is turned off.  *)
(*                                                                         *)
(* A rename is durable once the root directory is synced.  Until then a    *)
(* power cut leaves any of the directories there were since the last sync, *)
(* and a tree whose files were not synced themselves is lost with it.      *)
(***************************************************************************)
EXTENDS Naturals, FiniteSets

CONSTANTS
    Releases,    \* verified dashboard trees, each a release or a manual copy
    Requests,    \* concurrent requests to the controller proxy
    None,        \* nothing under a name
    MaxInstalls, \* bound: installs begun
    MaxCuts,     \* bound: power cuts and deaths of the manager
    MaxFileFaults, \* bound: file operations that fail
    MaxToggles   \* bound: settings updates and imports that change the setting

ASSUME DashNoneAssumption ==
    None \notin Releases \union {"broken", "raw", "p1", "p2"} /\ {"broken", "raw"} \cap Releases = {}
ASSUME DashBoundAssumption == MaxInstalls \in Nat /\ MaxCuts \in Nat /\ MaxFileFaults \in Nat /\ MaxToggles \in Nat

VARIABLES
    dir,       \* the root directory: what each name holds
    may,       \* the directories a power cut may leave
    up,        \* the manager runs
    err,       \* recoveryErr # nil
    job,       \* the install under installMu, or the recovery of a start
    had,       \* history: a complete dashboard has been published
    enabled,   \* EXTERNAL_DASHBOARD_ENABLED in the settings file
    live,      \* requests registered in the scope and not cancelled
    upd,       \* a settings update has saved and is about to cancel
    leaked,    \* history: the setting went off with nobody told to cancel
    installs, cuts, fileFaults, toggles

disk == <<dir, may>>
scope == <<enabled, live, upd, leaked, toggles>>
counts == <<installs, cuts, fileFaults>>
dashVars == <<disk, up, err, job, had, scope, counts>>

\* broken: a directory without its index; raw: a complete tree, not yet durable
Trees == Releases \union {"broken", "raw"}
Backups == {"p1", "p2"}              \* .boxctl-dashboard-previous-*
Names == {"ui", "staged", "failed"} \union Backups
Directories == [Names -> Trees \union {None}]
NoJob == [pc |-> "idle", boot |-> FALSE, new |-> None, old |-> None]

Pcs == {"idle", "recover", "latest", "extract", "sync", "moveOld", "moveNew", "durable", "drop",
        "undoNew", "undoOld", "undoSync", "clean"}
Jobs == [pc : Pcs, boot : BOOLEAN, new : Releases \union {None}, old : Backups \union {None}]

DashTypeOK ==
    /\ dir \in Directories /\ may \subseteq Directories /\ dir \in may
    /\ up \in BOOLEAN /\ err \in BOOLEAN /\ had \in BOOLEAN
    /\ job \in Jobs
    /\ enabled \in BOOLEAN /\ live \subseteq Requests /\ upd \in BOOLEAN /\ leaked \in BOOLEAN
    /\ installs \in 0 .. MaxInstalls /\ cuts \in 0 .. MaxCuts
    /\ fileFaults \in 0 .. MaxFileFaults /\ toggles \in 0 .. MaxToggles

DashInit ==
    /\ \E tree \in Releases \union {"broken", None} :
         /\ dir = [n \in Names |-> IF n = "ui" THEN tree ELSE None]
         /\ had = (tree \in Releases)
    /\ may = {dir} /\ up = FALSE /\ err = FALSE /\ job = NoJob
    /\ enabled = TRUE /\ live = {} /\ upd = FALSE /\ leaked = FALSE
    /\ installs = 0 /\ cuts = 0 /\ fileFaults = 0 /\ toggles = 0

FileFault == fileFaults < MaxFileFaults /\ fileFaults' = fileFaults + 1 /\ UNCHANGED <<installs, cuts>>
At(pc) == job.pc = pc
Goto(pc) == job' = [job EXCEPT !.pc = pc]
Left == {n \in Backups : dir[n] # None}
Installed == dir["ui"] \in Releases \union {"raw"}

Put(d) == dir' = d /\ may' = may \union {d}
PutDurably(d) == dir' = d /\ may' = {d}
Renamed(a, b) == [dir EXCEPT ![a] = None, ![b] = dir[a]]
Rename(a, b) == Put(Renamed(a, b))
Keeps == UNCHANGED <<up, scope>>
Same == UNCHANGED counts

-----------------------------------------------------------------------------
(* Recovery, at a start of the manager and before every install.           *)

Boot ==
    /\ ~up /\ up' = TRUE /\ err' = FALSE
    /\ job' = [NoJob EXCEPT !.pc = "recover", !.boot = TRUE]
    /\ UNCHANGED <<disk, had, scope, counts>>

Begin ==
    /\ up /\ At("idle") /\ installs < MaxInstalls
    /\ job' = [NoJob EXCEPT !.pc = "recover"] /\ installs' = installs + 1
    /\ UNCHANGED <<disk, up, err, had, scope, cuts, fileFaults>>

\* A start remembers the error, an install reports it; a success clears it.
Recovered ==
    /\ err' = FALSE
    /\ IF job.boot THEN job' = NoJob ELSE Goto("latest")
NotRecovered == err' = (err \/ job.boot) /\ job' = NoJob

RecoverNothing ==
    /\ At("recover") /\ Left = {} /\ Recovered
    /\ Keeps /\ Same /\ UNCHANGED <<disk, had>>

WithoutBackups == [n \in Names |-> IF n \in Backups THEN None ELSE dir[n]]

\* The new tree is in place: the former ones are removed file by file.  One that cannot
\* be, and a sync that fails, are passed over.
RecoverCleans ==
    /\ At("recover") /\ Left # {} /\ Installed
    /\ \/ UNCHANGED <<err, job>> /\ Same /\ \E n \in Left : Put([dir EXCEPT ![n] = "broken"])
       \/ Recovered /\ PutDurably(WithoutBackups) /\ Same
       \/ Recovered /\ FileFault /\ Put(WithoutBackups)
       \/ Recovered /\ FileFault /\ \E n \in Left : \E t \in {dir[n], "broken"} :
             PutDurably([WithoutBackups EXCEPT ![n] = t])
    /\ Keeps /\ UNCHANGED had

\* Mutant: the former tree is not put back.
RecoverRestoresNothing(n) == dir

RecoverRestores(n) == Renamed(n, "ui")

\* Interrupted between the renames: the only former tree goes back, and is synced.
RecoverRenames ==
    /\ At("recover") /\ dir["ui"] = None /\ Cardinality(Left) = 1
    /\ \E n \in Left :
          \/ Recovered /\ PutDurably(RecoverRestores(n)) /\ Same
          \/ NotRecovered /\ Put(RecoverRestores(n)) /\ FileFault
    /\ Keeps /\ UNCHANGED had

RecoverFails ==
    /\ At("recover") /\ Left # {} /\ ~Installed /\ NotRecovered
    /\ \/ (dir["ui"] # None \/ Cardinality(Left) > 1) /\ Same
       \/ dir["ui"] = None /\ FileFault
    /\ Keeps /\ UNCHANGED <<disk, had>>

-----------------------------------------------------------------------------
(* An install or update.                                                   *)

\* installLatest: nothing to do, not installed where it must be, or no verified release.
NotStaged ==
    /\ At("latest") /\ job' = NoJob
    /\ Keeps /\ Same /\ UNCHANGED <<disk, err, had>>

Latest(v) ==
    /\ At("latest") /\ v # dir["ui"]
    /\ job' = [job EXCEPT !.pc = "extract", !.new = v]
    /\ Keeps /\ Same /\ UNCHANGED <<disk, err, had>>

\* stage: the archive is verified and extracted, then every file is synced.
Extract ==
    /\ At("extract") /\ Goto("sync")
    /\ Put([dir EXCEPT !["staged"] = "raw"])
    /\ Keeps /\ Same /\ UNCHANGED <<err, had>>

ExtractFails ==
    /\ At("extract") /\ FileFault /\ job' = NoJob
    /\ Keeps /\ UNCHANGED <<disk, err, had>>

\* Mutant: the extracted files are not synced.
SyncTreeSkipped == UNCHANGED disk

\* syncTree: from here on what is there is the release, wherever the root puts it.
Raw(d, tree) == [n \in Names |-> IF d[n] = "raw" THEN tree ELSE d[n]]
SyncTree == dir' = Raw(dir, job.new) /\ may' = {Raw(d, job.new) : d \in may}

SyncStaged ==
    /\ At("sync")
    /\ \/ SyncTree /\ Goto("moveOld") /\ Same
       \/ FileFault /\ Goto("clean") /\ UNCHANGED disk
    /\ Keeps /\ UNCHANGED <<err, had>>

Free == CHOOSE n \in Backups : dir[n] = None

\* publish, under contentMu: the former tree, if there is one, goes aside.
MoveOld ==
    /\ At("moveOld") /\ Left # Backups
    /\ IF dir["ui"] = None
       THEN Goto("moveNew") /\ UNCHANGED disk
       ELSE Rename("ui", Free) /\ job' = [job EXCEPT !.pc = "moveNew", !.old = Free]
    /\ Keeps /\ Same /\ UNCHANGED <<err, had>>

MoveOldFails ==
    /\ At("moveOld") /\ FileFault /\ Goto("clean")
    /\ Keeps /\ UNCHANGED <<disk, err, had>>

MoveNew ==
    /\ At("moveNew") /\ Rename("staged", "ui") /\ Goto("durable")
    /\ Keeps /\ Same /\ UNCHANGED <<err, had>>

MoveNewFails ==
    /\ At("moveNew") /\ FileFault
    /\ Goto(IF job.old = None THEN "clean" ELSE "undoOld")
    /\ Keeps /\ UNCHANGED <<disk, err, had>>

Durable ==
    /\ At("durable") /\ PutDurably(dir) /\ had' = TRUE
    /\ IF job.old = None THEN job' = NoJob ELSE Goto("drop")
    /\ Keeps /\ Same /\ UNCHANGED err

DurableFails ==
    /\ At("durable") /\ FileFault /\ Goto("undoNew")
    /\ Keeps /\ UNCHANGED <<disk, err, had>>

\* The former tree is removed file by file; nobody is told when that or its sync fails.
DropOld ==
    /\ At("drop")
    /\ \/ dir[job.old] # "broken" /\ Put([dir EXCEPT ![job.old] = "broken"]) /\ UNCHANGED job /\ Same
       \/ PutDurably([dir EXCEPT ![job.old] = None]) /\ job' = NoJob /\ Same
       \/ FileFault /\ job' = NoJob /\ (UNCHANGED disk \/ Put([dir EXCEPT ![job.old] = None]))
    /\ Keeps /\ UNCHANGED <<err, had>>

\* rollbackPublishedDashboard: the new tree steps aside, the former one returns.
UndoNew ==
    /\ At("undoNew")
    /\ \/ Rename("ui", "failed") /\ Same /\ Goto(IF job.old = None THEN "undoSync" ELSE "undoOld")
       \/ FileFault /\ job' = NoJob /\ UNCHANGED disk
    /\ Keeps /\ UNCHANGED <<err, had>>

UndoOld ==
    /\ At("undoOld")
    /\ \/ Rename(job.old, "ui") /\ Same /\ Goto(IF dir["staged"] = None THEN "undoSync" ELSE "clean")
       \/ FileFault /\ Goto("clean") /\ UNCHANGED disk
    /\ Keeps /\ UNCHANGED <<err, had>>

UndoSync ==
    /\ At("undoSync") /\ job' = NoJob
    /\ \/ PutDurably([dir EXCEPT !["failed"] = None]) /\ Same
       \/ FileFault /\ UNCHANGED disk
    /\ Keeps /\ UNCHANGED <<err, had>>

\* The deferred removal of the staging directory.
Clean ==
    /\ At("clean") /\ job' = NoJob
    /\ \/ Put([dir EXCEPT !["staged"] = None]) /\ Same
       \/ FileFault /\ UNCHANGED disk
    /\ Keeps /\ UNCHANGED <<err, had>>

-----------------------------------------------------------------------------
(* Deaths.                                                                 *)

Down == up' = FALSE /\ job' = NoJob /\ live' = {} /\ upd' = FALSE /\ UNCHANGED <<err, had, enabled, leaked, toggles>>
Cut == up /\ cuts < MaxCuts /\ cuts' = cuts + 1 /\ UNCHANGED <<installs, fileFaults>>

\* What the interrupted job staged or put aside under a name of its own stays for good;
\* the next job picks new names.
Forgotten(d) == [d EXCEPT !["staged"] = None, !["failed"] = None]

ManagerDies ==
    /\ Cut /\ Down
    /\ Put(Forgotten(dir))

\* Files that were not synced are lost with it.
PowerCut ==
    /\ Cut /\ Down
    /\ \E d \in may : PutDurably(Forgotten(Raw(d, "broken")))

-----------------------------------------------------------------------------
(* The scope of the controller proxy.                                      *)

\* Mutant: the setting was read before the lock was taken.
RegisterStale(r) == live' = live \union {r}

\* ServeHTTP: the setting is read, and the request registered, under scope.mu.
Register(r) == enabled /\ live' = live \union {r}

Serve(r) ==
    /\ up /\ r \notin live /\ Register(r)
    /\ UNCHANGED <<disk, up, err, job, had, enabled, upd, leaked, toggles, counts>>

Ends(r) ==
    /\ r \in live /\ live' = live \ {r}
    /\ UNCHANGED <<disk, up, err, job, had, enabled, upd, leaked, toggles, counts>>

Toggle == up /\ ~upd /\ toggles < MaxToggles /\ toggles' = toggles + 1 /\ enabled' = ~enabled

\* UpdateSettings, under the operation gate: the file is replaced ...
SaveSetting ==
    /\ Toggle /\ upd' = TRUE
    /\ UNCHANGED <<disk, up, err, job, had, live, leaked, counts>>

\* ... and then cancelRequests runs.
CancelRequests ==
    /\ upd /\ upd' = FALSE /\ live' = {} /\ leaked' = FALSE
    /\ UNCHANGED <<disk, up, err, job, had, enabled, toggles, counts>>

\* The save reports an error after its rename, or a backup import brought the setting:
\* nobody cancels.
SettingReplaced ==
    /\ Toggle /\ leaked' = TRUE
    /\ UNCHANGED <<disk, up, err, job, had, live, upd, counts>>

DashNext ==
    \/ Boot \/ Begin \/ RecoverNothing \/ RecoverCleans \/ RecoverRenames \/ RecoverFails
    \/ NotStaged \/ (\E v \in Releases : Latest(v)) \/ Extract \/ ExtractFails \/ SyncStaged
    \/ MoveOld \/ MoveOldFails \/ MoveNew \/ MoveNewFails \/ Durable \/ DurableFails \/ DropOld
    \/ UndoNew \/ UndoOld \/ UndoSync \/ Clean \/ ManagerDies \/ PowerCut
    \/ \E r \in Requests : Serve(r) \/ Ends(r)
    \/ SaveSetting \/ CancelRequests \/ SettingReplaced

DashSpec == DashInit /\ [][DashNext]_dashVars

-----------------------------------------------------------------------------
\* Once a dashboard was published, a complete one is in place or put aside where the
\* recovery finds it, in whatever state a failure or a power cut leaves the directory.
CopyKept ==
    had => \A d \in may : \E n \in {"ui"} \union Backups : d[n] \in Releases

\* Power cuts alone never keep the dashboard from being served: without a failed file
\* operation, the manager that finished its recovery serves the published one.
CutsRecover ==
    had /\ up /\ fileFaults = 0 /\ job.pc \in {"idle", "latest", "extract", "sync", "drop"} => Installed /\ ~err

\* publish, its rollback and the recovery together: no order of renames, failures, deaths and
\* power cuts loses the dashboard, and without a failed operation it is served again by itself.
DashboardKept == CopyKept /\ CutsRecover

\* "Settings changes also revoke already-open controller streams": when the update that
\* turned the dashboard off has returned, no earlier or racing request is left.
DisabledMeansRevoked == ~enabled /\ ~upd /\ ~leaked => live = {}
=============================================================================
