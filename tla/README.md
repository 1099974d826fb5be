# boxctl in TLA+

boxctl manages a proxy core (Mihomo or sing-box) on an OpenWrt router: it starts the
core, points the router's packet filter, policy routes and dnsmasq at it, and takes all
of that back when the core stops, dies, is replaced or is updated. Whatever goes wrong,
a router must not keep sending its traffic to a core that is not there, and must not lose
what its administrator configured. This directory models the parts of the program that keep
those promises, checks them with TLC on small instances and proves their safety
properties with TLAPS for every size.

Paths are relative to the repository's `internal/`; a file name without a directory is
in `internal/app/`.

## 1. The system

| component | state it keeps | operations | what is hard about it | module |
|---|---|---|---|---|
| Core lifecycle (`lifecycle.go`), service (`core.go`) | `LifecycleSnapshot`, `opMu` | Start, Stop, Restart, SwitchPrepared, ReconfigurePrepared, Reload, RecoverAdopted, DiscardAdopted, Monitor | every operation is a sequence of fallible steps with a rollback and sometimes a restore of the previous generation; the monitor and one-shot processes act beside it | Lifecycle |
| Restart guard (`restart_guard.go`) | an nft table with a lease, `status`, `guardInProgress` | Begin, Verify, Remove, the monitor's retry | drops forwarded traffic while a core is replaced; must neither be missing nor be left behind | Lifecycle |
| Gateway activation (`openwrt_activation.go`, `platform/openwrt`) | nft table, policy routes, UCI, dnsmasq, DNS backup, `active-gateway.json` | Activate, Deactivate, Reconcile, RefreshDynamicCapture | four processes, one file lock, a dozen commands each of which can fail or be the last one before a power cut | Activation, OpenWrtActivation |
| Manager process (`actions.go`, `init.d/boxctl`) | boot phase, `start`/`start-stopped`, the surviving core | boot, adoption, serve, shutdown; `hotplug`, `cleanup`, `firewall stop` as processes of their own | dies at any point; a core outlives it | Lifecycle, ProfileSwitch, ManagerUpdate |
| Profile switch (`profile_switch.go`), saves (`config_service.go`, `profile_revisions.go`) | transition journal, profile files, active metadata, `config.yaml` mirror, revision registry | Switch, SaveProfileConfig, RecoverSelection, CompleteRecovery | one transaction over the running core and four files; lifecycle operations do not take its mutex | ProfileSwitch |
| Process supervisor (`engine/supervisor.go`) | process record, pid and start time, runtime directory | Start, wait, Stop, Reload, adopt | exit of the process racing each of them; reused pids | Supervisor |
| Self update (`self_update.go`, `manager_integration.go`, `manager_handoff.go`, `manager_web_update.go`) | `bin/boxctl` and copies, integration files, hand-off marker, job record | install, roll back, re-execute, full restart, verify, recover | the new binary adopts the core of the old one; worker, manager and procd act between any two steps | ManagerUpdate |
| Engine updates (`engine_updates.go`, `mihomo_update.go`, `update/singbox.go`) | version directories, `current.json`, the Mihomo file | stage, publish, start, undo | a running core uses what is replaced | EngineUpdate |
| Backups (`maintenance_services.go`, `backup/backup.go`) | the whole state tree, staging | export, import with swap, readiness, commit, rollback | writers that hold no common lock; a swap is many renames | BackupRestore |
| Dynamic capture (`fakeip_capture*.go`, `fakeip/store.go`, `endpoint_bypass.go`, `periodic_maintenance.go`) | pool document, gateway plan, endpoint cache | regenerate, save text, refresh, resolve | minutes of reading providers between reading and writing | DynamicCapture |
| Remote sources (`proxy_subscriptions.go`, `profiles.go`, `remote/fetch.go`) | registry, provider caches, profile metadata with ETags | edit, refresh, scheduled refresh, local rebuild | downloads against concurrent edits; three files per change | RemoteSources |
| Web sessions (`web/auth.go`, `web/passkeys.go`, `web/server.go`) | password, passkeys, signing keys, `mutationGate` | login, set up, register, rotate, revoke, import | rotation runs inside any request; the CLI and an import write the same files | Sessions |
| External dashboard (`external_dashboard*.go`) | directory `ui` and its reserved neighbours, open requests | install, publish, roll back, recover, disable | renames without a directory sync, power cuts | ExternalDashboard |
| Event log, rule lists, rule conversion, connection names, diagnostics, drivers' HTTP, CLI, frontend | none that another component relies on | decode, convert, display | plumbing and data transformation | – |

How they interact: the web API, the schedulers and `actions.go` call the lifecycle; the lifecycle calls
the `Activation` interface under `opMu`, the engine host (and through it the supervisor) for the
process, the guard around a replacement. The activation transaction takes the host-wide file lock
`gateway-dns`, which hotplug scripts and cleanup commands of *other* processes take too,
without `opMu`. A profile switch, an engine update, a capture refresh and an import each hold
the lifecycle's gate for part of their work and other locks (mutationMu, `service.mu`, `credentials`,
`self-update`) for other parts; what happens between those parts is where most hazards
lie. The manager's boot does all of this with whatever its predecessor left on disk, in the
kernel and as a process.

What makes the components correct:

* nothing is captured for a core that is stopped or failed, and a live core is not let go
  before its capture is gone (lifecycle, activation);
* there is one core, it is the one on record, and no signal reaches anybody else's process
  (supervisor);
* what an operation reports is what the host looks like: stopped, running, selected profile,
  updated, rolled back, imported (lifecycle, switch, updates, backup);
* the administrator's DNS configuration always comes back; a saved text, an edited source,
  an opt-out hold against every background job (activation, capture, remote sources);
* no file that a running core, a rollback or a recovery needs is removed (lifecycle, engine updates,
  backup, dashboard);
* a crash between two durable writes ends on one side of the transaction (switch, save, publish);
* a revoked session stays revoked, a valid one stays valid (sessions);
* what failed is retried or reported, and the router gets out of every state a crash leaves (monitor,
  boot, guard, update job).

`PROJECT.json` lists every component with its status, and under `hazards` each line where
one of these can go wrong.

## 2. Modules

```
Activation            contract: capture and DNS as one rollback-capable unit
 ├─ Lifecycle         EXTENDS it: lifecycle, guard, manager, core, monitor, hotplug
 │   ├─ MCLifecycle · LifecycleProofs
 └─ OpenWrtActivation INSTANCEs it: implements it, nft/routes/UCI/dnsmasq step by step
     ├─ MCOpenWrt · OpenWrtProofs
ProfileSwitch         switches, saves and boots over the four files
     └─ MCProfileSwitch · ProfileSwitchProofs
Supervisor            the process behind Lifecycle's core
     └─ MCSupervisor · ProcessProofs
DynamicCapture        pool document, plan and bypass beside the lifecycle's gate
     └─ MCDynamicCapture · CaptureProofs
BackupRestore         export, import, swap               └─ MCBackupRestore · StateProofs
Sessions              keys, sessions, passkeys           └─ MCSessions · StateProofs
ManagerUpdate         binary, integration, hand-off, job └─ MCManagerUpdate · ProcessProofs
EngineUpdate          engine builds and their core       └─ MCEngineUpdate · EngineProofs
RemoteSources         subscription, remote profile       └─ MCRemoteSources · RemoteProofs
ExternalDashboard     tree, requests                     └─ MCExternalDashboard · RemoteProofs
```

A proof module that stands beside two components holds the theorems of each in a part of its own; neither part
uses the other.

The modules of the second group meet the lifecycle only through what it promises them: a gate
that one operation holds at a time, a start that runs, fails or leaves a core of unknown state, a
stop that succeeds or fails. Each of them states those outcomes as its own small actions
(StartCore, StopError, BootRecovers) and leaves the steps inside to Lifecycle.

**Activation** is the abstract specification of the interface `lifecycle.go:27-33` as its
caller relies on it: a call holds the lock, installs and removes `capture` and `dns` in any
order, and ends in success (everything in place and recorded, or nothing owned and no
record) or is abandoned anywhere, which is what an error return and the death of the
process both are. A reboot loses the capture and keeps the DNS configuration.

**Lifecycle** walks one operation record `op` through the steps of the code. `op.pc` is the
step, `op.kind` the operation, `op.cur` the generation being started, `op.spare` the clone
of the previous one, `op.restore` whether a restore is running, `op.why` what failed. `opMu`
is held exactly while `op.pc # "idle"`. The platform is the contract it extends: a
step that calls Activate or Deactivate waits for `call = "none"` and then for its success or
its end, so hotplug and cleanup processes interleave at the lock. `core` is the generation that
the process's record names, `runs` the runtime the process has loaded (they differ after a reload that ended half
done, which `halfDone` remembers), `slot` the engine host's, `files` the private runtimes on disk; a removed one may
be handed out again. `mgr` runs through boot, adoption, serving and shutdown; ManagerCrash,
CoreDies and Reboot are enabled everywhere.

| actions | code |
|---|---|
| BeginStart, BeginStop, BeginRestart, BeginOnRunning | the API operations taking `opMu` (`lockOperation`) |
| PrepareOK/Fails, StopOld, GuardSkipped/Installed/Fails, CoreStartOK/Fails, Ready, NotReady, ActivateOK/Fails, VerifyOK/Fails, CommitOK/Fails, Started | `SwitchPrepared`, `startPreparedLockedWithAcceptance` line by line |
| DeactivateOK/Fails, StopOK/Fails, RollbackOK, RollbackStopFails, Restore, FinishGuard | `stopWithCleanupLocked`, `rollback`, `restorePreparedAfterFailure`, the deferred guard removal |
| ReloadOK/Fails/HalfDone | `CoreService.Reload` and the supervisor's `replacePrepared` |
| MonitorFailsOpen, MonitorSeesCleanupFailed, MonitorRetries, RetryGuardCleanup, GuardExpires | `Monitor` and the lease |
| ManagerStart, Adopt, Serve, Terminate, ShutdownStop, Gone, Exit, ManagerCrash | `defaultServeRuntime`, `Serve` |
| HotplugEvent/Begin/Step, CleanupStep | the one-shot processes |

**OpenWrtActivation** is the transaction itself: `tx` holds the lock and walks through
`ensureDNSBackup`, policy routes, nft, UCI, dnsmasq's restart and the record, or back
through the restore; every step has a failing twin. `uci` and `live` say whose values
the configuration and the running dnsmasq hold, `backup` whose values were saved,
`active`/`last` are the record on disk and in memory. `view` is what the manager's
lifecycle concluded, `mode` the setting OPERATING_MODE, which may change at any time. The refinement
mapping to `Activation` reads `owned` off the nft table,
the routes and the backup, `recorded` off the record, `call` off the transaction; a refresh is
mapped to a reconciliation.

**ProfileSwitch** models each durable write of `ProfileSwitcher.Switch`, of its
undo (`restoreTransition`), of `SaveProfileConfig` with its rollback, and of the boot's
`RecoverSelection`/`CompleteRecovery`. The state is the disk (`content`, `active`, `mirror`,
`rev`, `journal`), the document the core runs (`core`), the operation under `mutationMu` or the
boot (`op`), and three variables for the properties only: `told`, the selection the last
answer reported, `faults`, and `flaws`, which names the circumstances a property excludes.
A lifecycle operation of the API (StartCore) runs beside a save or a switch whenever `opMu` is
free. Finalize is the repeated choice of the selected profile, which takes up a failed publication; SaveUnnamed
is `SaveRawConfig` while no profile is active, which takes no `mutationMu`. A revision digest is modelled by the
document it identifies, a pair of profile and version.

**Supervisor** has the kernel's process table (`procs`: start time, what runs, whose child, alive or
zombie), the record file (`record`), the private runtimes (`files`), each driver's `sup`, the engine
host's choice (`host`), the Start, Reload or Stop in progress (`call`; a Stop keeps the snapshot it took), and the
goroutines that wait for a process (`waiters`). A pid is reused as soon as its process is reaped. Two history variables serve
the properties: `lost`, the processes whose record was not written or was removed under them, and `parted`, those that
loaded a runtime their record does not name.

| actions | code |
|---|---|
| Spawn, Identify/Fails, WriteRecord, WriteFails, KillChild, UnrecordChild | `Supervisor.Start` step by step; a process that cannot be identified or recorded is killed. The manager may die, and the core exit, between any two of them |
| ReloadAccepted, ReloadRecorded, ReloadLost, ReloadUnrecorded | `MihomoDriver.Reload` and `replacePrepared`: the core loads the new runtime, then the record follows, or the answer is lost, or the record cannot be written |
| WaiterReaps, WaiterClears, WaiterUnrecords, WaiterCleans | `waitProcess` and `reapAdoptedChild`, the last two after the unlock and as late as they like |
| StopBegin, StopTerm, StopKill, StopCancelled, StopDone, StopNothing | `Stop` on its snapshot, signal by signal |
| ManagerEnds, BootAdopts, BootFindsNone | death or re-execution; `Adopt` of the record's process by pid and start time |
| CoreExits, ForeignStarts | the kernel |

**ManagerUpdate** follows an update transaction `tx` (install or rollback, forward or `back` in recovery)
through unlink, rename, rename, directory sync, integration files, marker, signal or restart, poll and
verification; `target`, `prev`, `failed` are the binaries, `integ` the fingerprint of the installed
integration, `mgr` the process with the version it runs and the respawns procd has left, `capt` the
release whose manager installed the dataplane.

| actions | code |
|---|---|
| BeginInstall, BeginRollback | planning (`Compatible`, `Modes`): no restart, hand-off, or full restart |
| RemoveOlder, KeepCurrent, SwapIn/Fails, Synced, SyncFails | `update/install.go:375-438`, one rename at a time |
| ApplyFiles/Fails, ActivationFails, CommandFails | `manager_integration.go` and the recovery of `self_update.go:282-316` |
| WriteMarker, SignalManager, StopService, StartService, PollStable, PollTimesOut, VerifyFiles | activation and its verification |
| BootHandsOver, BootRecovers, Listens, ReExec, Respawn, ManagerDies, MonitorFailsOpen, MarkerExpires | the manager and procd |
| QueueJob/Fails, ClaimJob, WorkerInstalls/Declines/Finishes, Reconcile | `manager_web_update.go` |

**EngineUpdate** has the version directories (`dirs`: complete, half-removed or absent), `current.json` (`ptr`), the
Mihomo file with its copy, the selected engine, the lifecycle's state and the process. StageSingBox, StageMihomo
and StageLocal download without a lock; Enter takes the gate and stops a core of that engine; PublishDirectory,
PublishPointer/Fails and SwapMihomo/Fails are the renames; StartUpdated and VerifyMihomo are the readiness check;
UndoStop, RevertPointer, RemoveReverted, RevertMihomo and Restart undo. The CLI's `engine install` is the same
transaction while no manager runs. The user starts, stops and selects, and the manager shuts down, between any
two steps they are not locked out of.

**BackupRestore** maps each restorable path to the set of contents found there (`root`, and `old` for
the staging), so that losing, mixing and overwriting are visible. Collect hashes one path after another and
WriteArchive looks at all of them again; the import `imp` stops the core, takes the gate, checks again
(CheckStopped), stages the paths the archive brings (`imp.brings`), moves those out and the new ones in (MoveOld,
MoveNew: two renames per path, each of which may fail), compensates (UndoNew, UndoOld, SyncUndoFails), starts the restored
selection (RestartRestored) and commits or rolls back (CheckRollback, LockRollbackFails, StopUncertain). An import that could
not put everything back leaves its staging behind (`retained`); the next import takes no notice of it. SettingWrite and OpenWrite are the writers that do and do not share
a lock with it.

**DynamicCapture** is one pool document (`doc`: the administrator's text and the generated block with its
scope), the settings, the running core's fake-IP range, the gateway's destinations and bypass (`nft`, `rec`) and the
endpoint cache. A restart and a refresh hold the lifecycle's gate (`gate`) with the settings they
loaded; the browser's RegenerateRead/Commit and SaveManual do not. A commit succeeds if the document still has
the revision that was read (`fresh`). PolicyAsIs/Generate/Fails/Commit, ResolveEndpoints and
RefreshApply/Save follow `fakeip_capture.go`, `endpoint_bypass.go` and `RefreshDynamicCapture`; MaintLoad,
MaintNotified and MaintTimer are the goroutine of `periodic_maintenance.go`.

**RemoteSources** has one subscription (`rec` in the registry, `cache`) and one remote profile (content, metadata,
`mirror`), the mutation that holds each service's lock (`sub`, `pro`), what the two schedulers listed before they
took it (`due`), and a restart of the core beside both (`life`). A fetch is answered with a newer document, a 304 or an
error. SubWrite, SubSave, SubDrop and ProStore, ProMeta, ProMirror are the writes in the code's
order, each with its failing twin; RolledBack is `rollbackProfileUpdate`, whose own three writes can fail as well. A restart that
publishes a change prepares, rebuilds the cache of a link (EnsureLocal), stops the core and starts it; it may be unable
to stop it (StopFails, after which the core is `held`) or end with the previous generation (PreviousAgain). PanelRestart and the
rest of `life` are the user's. Crash cuts anywhere.

**Sessions** separates the key set on disk (`file`) from the one in memory (`mem`) and the one about to be published
(`next`), as `web/auth.go` does, and puts the lock of the key set (`mu`), the inter-process `credentials` lock (`cred`) and
`mutationGate` (`gate`) around them. Rotate and Publish run beside everything; Login, PasskeyLogin,
RegisterBegin/Finish and PasskeyDelete are requests; Stamp and Sign are two steps of issuing a session; Setup*, Import*, Cli*,
Boot and Crash are the writers of the files, SetupFails and CliFails their failures. `era` counts the revocations published.

**ExternalDashboard** has the names in the dashboard's root (`dir`), the directories a power cut may leave
(`may`: every one since the last sync), the install or recovery in progress (`job`), and the requests in the
controller scope (`live`). A tree is `raw` from its extraction to the sync of its files: it looks complete, and a
power cut loses it. Renames and syncs fail within `MaxFileFaults`. Extract to DropOld publish, UndoNew to Clean roll back, Recover* is the next start;
Serve, SaveSetting, CancelRequests and SettingReplaced are `external_dashboard_scope.go` and its callers.

## 3. Runs

Every run passes. The questions and the properties are in `PROJECT.json`; distinct states are those TLC finds.

| run | bounds | states | why that is enough |
|---|---|---|---|
| `lifecycle` | two profiles, one with three runtimes and one with one; every operation and every fault, guard policy on and off | 684 k | an operation refers to at most three runtimes of a profile (running, clone, next) and a switch to one of another; more of either repeat it |
| `lifecycle_live` | two runtimes of one profile, reloads, boots, crashes, reboots, hotplug, cleanup | 33 k | the troubles that have to resolve are left behind by one operation; the reload has the one that nobody else leaves. Strong fairness makes a larger instance too slow |
| `openwrt` | two plans that redirect dnsmasq, one that does not; mode changes | 92 k | two let a refresh change the plan, the third lets an activation leave dnsmasq alone |
| `profile_switch` | two Mihomo profiles (they share a mirror) or none, two versions, two faults | 2.3 M | two faults are a failed write and a failed undo, or a failure and a crash during its recovery |
| `supervisor` | four runtimes of two engines, three symmetric pids, three births of a process | 879 k | a core, one whose record was lost, its successor or a stranger on the reused pid; a reload needs two runtimes beside the successor's |
| `update` | three releases, of which two are compatible; two updates, one fault, one respawn | 526 k | hand-off and full restart, and a second job over what the first left |
| `engine` | three sing-box archives of two versions (one custom, one that does not start), two Mihomo releases (one bad), three transactions, two faults | 158 k | install, update and a failed update with a failed undo, of either engine beside the other |
| `backup` | a file and two directories, both written to by requests that hold no lock; two imports of any of them, two faults, one write | 6.3 M | a failed rename and a failed compensation; the second import starts on what the first left; one write is enough to come between hashing and archiving |
| `capture` | two texts, two ranges, four settings, one change of settings or range | 7.0 M | every combination of inclusion and refresh; one change is what an operation can be outdated by |
| `remote` | two URLs and two texts, symmetric, one new version per server, three edits, one fault | 7.3 M | an edit between listing and refresh, another while the first's restart waits, and the change from link to URL and back to another link |
| `sessions` | two passwords (symmetric), sessions of three ticks, rotation each tick, six keys, three sessions, three changes | 6.0 M | a session outlives two rotations; setup, import and CLI change can all happen |
| `dashboard` | two releases, three installs, two power cuts, two failures, two requests, two changes of the setting | 583 k | a second cut during the recovery of the first; a third install over two remnants |

Bounds are constants named `Max*` in the guards of the steps they limit; each module says what they count. TLC checks
deadlock in every run except `update`, where the system does stop: an update may end with procd having given the
manager up.

What the less obvious properties say:

* `FailOpen`, `ReleaseAfterCapture`: stopped or failed means nothing is owned or recorded, also
  against a hotplug that probed before; a live core is never let go with traffic on it.
* `ActiveGenerationSound`: no cleanup removes the runtime that the live core's record names, or has loaded, or a clone
  that may still be restored, and between operations the running generation is the one named and the selected profile's.
  Of these facts only the loaded runtime is exempted, and only after a reload that ended half done (`halfDone`).
* `GuardSafe`: a guard outlives its operation only as a known error; during a
  guarded replacement it is not removed by the monitor (an expired lease counts as covered).
* `DnsBackupSafe`: without a backup nothing is left to restore; a backup never holds boxctl's own options.
* `OffStaysEmpty`: a behaviour in which OPERATING_MODE stays gateway keeps nothing after a successful
  Deactivate. (With changes of mode it may, section 5.)
* `ReportsTruthfully`: the refinement alone would allow every call to be abandoned; this ties what the
  manager concludes to the contract's success steps.
* `SelectionKnown`: the active profile is the one last answered, or answered by nobody because a crash cut
  the switch short; then the boot decides.
* `OneSelection`: at rest the document a start reads is the active profile's (or, without one, the unnamed
  `config.yaml` a failed first switch must not lose), the core's profile is the active
  one, and a core that runs another document than the saved one is reported as pending. The names in `flaws`
  exclude what the code does not promise: a save that was itself cut short or not undone, a save made while a
  journal was outstanding, an applied revision that could not be recorded (the code only logs it), a save of the
  unnamed document in the middle of a switch, and the undo of a switch begun without a selection known.
* `CoreAccountedFor`: outside the start that is creating it, a live core is described exactly by the record, with the
  recorded runtime on disk, so a manager that dies now leaves something its successor can adopt; and a manager that says
  no engine runs is right. `lost` exempts a core whose record was never written, or was removed under it; `parted` exempts
  one that loaded a runtime without its record.
* `OneCore`: at most one core lives beside those in `lost`.
* `ForeignUntouched`: an action property over the whole process table, for processes boxctl did not start.
* `OutcomeTruthful`: `ok`, `kept` and `restored` each tie the report to both binary and integration.
* `BuildsKept`: the pointer names complete directories, the directory of a live core stays, and a running core is
  the installed build, three facts every transaction has to move between together.
* `UpdateKeepsService`: if nothing but the new build failed, a transaction that found a running core ends with one.
* `StateKept`: what a path held before an import is in the tree or in the staging until the commit; a report of success means
  the archive's paths beside the former others, one of failure the former tree. `kept` and `cut` are the outcomes that say
  otherwise, and an import over staging that an earlier one left behind is not judged by it.
* `ExportIsSnapshot`: the code only compares the collected files with the tree a second time; that this makes
  the archive a state the tree was in is not what it says anywhere, and depends on how the writers write.
* `ManualKept`, `EditsKept`: no background job puts back what it read before the user's write.
* `OptOutHolds`, `BypassIsReal`: the first lapses when a refresh begins with settings its goroutine loaded before the opt-out
  (`outdated`), the second when a generation is prepared for another range than the live core answers from (`range`), and not
  before: a block generated earlier, an unreadable provider, a stale cache or a refresh that waited do not break them.
* `ValidatorHonest`: a recorded ETag is never newer than the stored document, or each 304 would keep the old one; across
  changes of kind as well. The failing writes and late rebuilds that do leave it newer are in `slips`.
* `CoreServesStored`: at rest the core runs what is stored, although restarts are guarded, refused, rolled back or unable to stop
  it; those that were given up are in `slips`.
* `LiveSessionKept` and `RevokedStaysRevoked` pull in opposite directions: keeping more keys breaks the second, fewer
  the first.
* `NothingProvisional`: an import that is rolled back takes with it every session and passkey its password gave.
* `DashboardKept`: in every directory a power cut may leave, not only in the one visible now.

Each property has a mutant in `PROJECT.json`: a plausible bug of the named definition that breaks it. A property
whose parts fail separately has several.

## 4. Fairness

`OpFairness` assumes that an operation that can take a step takes one: the code is sequential, and every command
it waits for has a timeout; a call of Activate ends one way or the other. `FairSpec` of Lifecycle
adds: procd respawns the manager and the boot goes on (`init.d/boxctl`), the monitor ticks, the pollers of
`opMu` and of the file lock are not starved (`lockOperation` polls), and nft, UCI and the guard's removal
do not fail forever, the last as strong fairness of their success: without it a router whose `nft` is
broken for good stays captured, and no program can help it. The liveness properties are
conditional on the manager staying up (`<>[](mgr = "up")`), since crashes are unbounded.

`FairSpec` of ProfileSwitch only assumes that boots happen and go on (`respawn 3600 5 5`); the number of failing
steps is bounded by `MaxFaults`. In fact procd gives up after five exits within the hour, so
`BootCompletes` allows more patience than the router has; with two faults no more than two boots fail.

`UpdFairSpec` of ManagerUpdate assumes weak fairness of the updater's next step, the manager's, the worker's, the expiry
of the marker, and Reconcile: a job whose worker died is only noticed when a page asks for its status.
Respawns are bounded there as procd bounds them, and both liveness properties allow for a manager that was given up.

## 5. Where code and promise part

These behaviours are in the models, or excluded from them by a history variable. None is
claimed to be harmless or harmful here; each is what a reader of the properties above should know.

Lifecycle and activation

* `Monitor` reads cleanup-failed without `opMu`, then waits for it: a Start that succeeded in between is stopped
  (`lifecycle.go:715`, MonitorRetries).
* A reload whose configuration the controller accepted but whose record could not be rewritten (`engine/supervisor.go:538`) is
  cleaned up as failed: `core.go:329-351` removes the private runtime the live core has just loaded. The comment there says that
  it "removes only the private Mihomo YAML created for this reload attempt" and that the active runtime is "explicitly
  excluded". TLC refutes `LoadedRuntimeKept` taken alone within a second; `ActiveGenerationSound` exempts it by `halfDone`.
* A restart guard whose installation could not be verified, and whose removal failed too, may be left installed
  (`restart_guard.go:138-147`, GuardStuck); it is a known error and retried.
* Preparation comes before `opMu` (`lifecycle.go:251,322`); in Lifecycle it is a step of the operation. A preparation touches only
  the runtimes it creates, so what comes between is a change of the selection or the policy, which the next operation sees.
* A failing refresh or reconcile may leave the table without its policy routes until the next successful call
  (`openwrt_activation.go:258`, Reapply and ApplyFails).
* After a first activation that left no record, with DNS restored but the table not, a change to server mode lets
  Deactivate return success over the table (`openwrt_activation.go:146`); hence the premise of `OffStaysEmpty`.
* A recovery that finds UCI already as wanted does not restart dnsmasq, although the crash may have come before
  that restart (`platform/openwrt/dns.go:229`).

Profiles

* The prepared journal of a switch that failed stays, and the next boot restores the mirror of before the switch
  over whatever was saved since (`profile_switch.go:163,209`; the flaw `late`).
* A committed journal whose profile was edited afterwards is refused at every boot, which exits
  (`profile_switch.go:245`; the same flaw in `BootCompletes`).

Supervisor

* A manager that dies between spawning a core and writing its record (`engine/supervisor.go:242-266`, up to 250 ms of identification)
  leaves a live core that no record names, since the child outlives its parent (`engine/process_attrs_linux.go:12-16`). The next
  boot starts a second one.
* The goroutine that waits for a core removes record and runtime after it gave up the lock (`engine/supervisor.go:301`); a
  start within those instructions loses its record, and that core is not found again after the next death of the manager.
* A record that was renamed but not synced on a reload names the runtime the caller then removes; the next adoption refuses it
  and the core runs on unsupervised (`engine/supervisor.go:534-541`, ReloadUnrecorded). All three are `lost`.
* After a reload whose answer was lost, the core runs a runtime that neither memory nor the record names, and that was removed
  (ReloadLost, `parted`).

Updates

* `bin/boxctl` is replaced by two renames (`update/install.go:381-388`): for an instant, and after a power cut there,
  it is absent. The repository's README (line 568) says that it is atomically swapped into place.
* Planning compares the candidate with the binary on disk, not with the one the manager runs: after an install without
  restart a hand-off may join incompatible releases.
* A pointer that was renamed into place but whose directory could not be synced is reported as not published
  (`update/singbox.go:1139`); a version directory removed in part blocks its reinstallation; undoing a publication drops
  the older rollback target.
* A failed Mihomo update puts the old file back even when its core could not be stopped (`mihomo_update.go:253`).

Backups

* Passwords and settings written between the swap and a rollback go with the rejected tree; staging that survived a power
  cut or a failed compensation is never looked at, and the next import starts beside it (`retained`; WhollyOldOrNew exempts
  `kept` and `cut`).
* A rollback that cannot take its locks again keeps the restored state, as one beside a running core does
  (`maintenance_services.go:573`).
* The import excludes only the writers that take its locks; the others may add a file to a directory it then finds
  not empty, which makes the rename fail and the compensation run.

Capture and remote sources

* A refresh waits for the gate with the settings it loaded before (`periodic_maintenance.go:86`): it undoes an opt-out saved
  meanwhile, and the next start of the core or regeneration repairs it (`outdated`).
* A preparation for a new fake-IP range asks the router's resolver while the running core still answers from its old range, and
  filters by the new one only (`endpoint_bypass.go:130-132,176`): a synthetic address goes into the bypass and the endpoint
  cache. The repository's README (lines 83-84) says: "Endpoint bypass refresh excludes synthetic fake-IP addresses from DNS
  answers and persisted caches, including configured custom pools". TLC refutes `SyntheticExcluded` taken alone after one
  change of the range and without any fault; `BypassIsReal` exempts it by `range`.
* A subscription refresh whose cache write failed saves the new validator all the same (`proxy_subscriptions.go:281`), and a start
  that prepared a share link may rebuild its cache after the link became a URL, under the URL's new validator
  (`proxy_subscriptions.go:413`); each later 304 keeps the wrong document (`slips`).
* An edit of share links within one subscription is not noticed as a change (`proxy_subscriptions.go:206`): the core serves the
  old ones until its next start (Unnoticed).
* Deleting a subscription whose cache cannot be removed returns before anybody is told (`proxy_subscriptions.go:259`).
* A restart that was given up after its deadline, could not stop the core or brought the previous generation back is not tried
  again, so the core keeps the old documents (`slips`).
* `rollbackProfileUpdate` puts document, metadata and mirror back by three writes that can fail one by one
  (`profiles.go:754-788`, RolledBack).

Sessions

* A rotation in the running manager persists its key set between the CLI's new password and the restart it asks for, and so
  brings removed keys back; one during an import is lost if the import is rolled back (`lost`). A password set by the CLI
  keeps the passkeys.
* A request is authenticated before it waits for `mutationGate`, and runs after the revocation it waited for.

Dashboard

* A failed cleanup followed by a cut may leave two backups, which ask for manual recovery (`external_dashboard.go:680`);
  remnants of staging are not removed. A settings file replaced by an import, or saved with an error after its rename,
  cancels no open request (`leaked`).

## 6. Proofs

The theorems hold for any values of the constants that satisfy the named assumptions of the
modules; TLC evaluates those in every run. Eight modules hold them. Each safety proof has the same outline: an inductive
invariant made of named parts, one lemma per action or group of actions, and a last step by PTL.

* **LifecycleProofs** (`TypeCorrect`, `FailOpenHolds`, `StoppedHolds`, `ReleaseAfterCaptureHolds`, `GuardSafeHolds`,
  `ActiveGenerationHolds`). `FailOpen` is not
  inductive: it breaks if an Activate of an earlier operation could still end, or a reconciliation start, after
  the state became stopped. `SafeInv` adds who may hold the lock while what is at which step (ActivateHeld), the
  lifecycle state at each step (StateAtPc), that a release follows a successful Deactivate (ReleasedOwnsNothing), and
  what boots and stale adoptions look like (BootIdle, StaleIsStart, StoppedMeansStopped). `GuardInv` adds to `GuardSafe` that
  a guard in progress belongs to the replacement that is between installing and finishing it (GuardOwned), which is why
  no tick of the monitor can meet it. `GenInv` is about who may remove which runtime: the clone is nobody else's
  (CloneApart), a target may be removed until it was started (TargetApart), the core runs the target from then on
  (GenerationLive), and target, running generation and clone are of the selected profile at the steps where one may become
  the running one (TargetSelected, RunningSelected, CloneSelected).
* **OpenWrtProofs** (`TypeCorrect`, `DnsBackupSafeHolds`, `Refinement`, `OffStaysEmptyHolds`, `ReportsTruthfullyHolds`,
  `InstallsTheRecordHolds`).
  `DnsInv` says which steps have a backup on disk (PcOfOp, ApplyHasBackup) and that the restore touches UCI, dnsmasq and
  the backup in that order (RestoreInOrder). `Refinement`: every step is a step of the contract or a stutter, from
  `ContractInv`, which adds what a transaction has installed or removed when it reaches its record (InstalledSoFar, RemovedSoFar).
  `InstallsTheRecord` compares plans, which the contract does not know: PlanInstalled says that what is installed so far
  is of the plan the transaction carries.
* **ProfileSwitchProofs** (`InductiveSelection`, `SelectionIsKnown`, `TypeCorrect`, `OneSelectionHolds`). What a crash recovers is
  decided by the journal alone, so the invariant is about it: at every step the journal is there and in the phase the
  step belongs to (PcOfKind, JournalOfStep), it names the selection last reported as the one a boot would recover
  (JournalAgrees), and the metadata agrees with it step by step (ActiveAtStep). The commit point moves `told` and the
  phase at once, which is why every earlier and later step may die. `OneInv` follows mirror and core: what a prepared
  journal puts back belongs to the old selection (JournalUndoes), the old mirror and the old metadata are back before the target's
  is undone (UndoSteps), and a boot takes over a mirror of the recovered selection (BootSteps).
* **ProcessProofs**, Supervisor (`SupervisorInvariant`, `CoreAccountedForHolds`, `OneCoreHolds`, `ForeignUntouchedHolds`). A pid says nothing by itself; start times are unique (Table), so whatever a snapshot, a record or a
  waiter remembers with a start time is that process or gone (Remembered). On top of that: a live core is the one its
  supervisor owns (SupOwnsCore), a stop works on what the host holds (CallOfHost), and a child is always
  waited for by one goroutine (ChildWaited, OneWaiter, WaiterAtStep), which is why a record is never cleared for a live core.
  ManagerUpdate (`UpdInvariant`, `OutcomeTruthfulHolds`, `FinishedJobIsOverHolds`). ForwardSound says that the former
  binary is under its recovery name from the second rename on, BackwardSound that it stays there until it is in place again, and that
  the former release is activated only when its integration files are back too; the truth of the report follows at the end of
  either direction.
* **CaptureProofs** (`ManualKeptHolds`, `CaptureInvariant`, `OptOutKept`, `BypassIsRealHolds`). The text: every
  pending generation that may still commit holds the document's present text (PendingKeepsText). The rest: an operation works with
  the settings and the range of when it took the gate (Current), a block marked local-only names no remote destination
  (BlocksHonest), a success already told is kept by everything that is still to be applied (Promised), and neither cache nor gateway
  nor record nor pending plan holds a synthetic address (NothingSynthetic).
* **StateProofs**, Sessions (`SessionsInvariant`, `RevokedStaysRevokedHolds`, `LiveSessionKeptHolds`, `NothingProvisionalHolds`). The parts
  say what a request at each step has in hand (GateOrder), whose the set in memory and the next one are (KeyOrder), that keys are
  numbered in the order of their birth (Numbered), that no set in memory, on disk, staged or about to be published knows the key of
  a revoked session (StaleForgotten), that sessions are signed by the persisted key (Timely) and every set keeps a key as long as a
  session it signed lasts (LiveCovered), and which passwords are final (Final).
  BackupRestore (`BackupInvariant`, `StateKeptHolds`, `CoreOnCurrentStateHolds`, `ExportIsSnapshotHolds`). Locks says which
  steps hold the gate and that nothing owns a core from the second check to the end of the swap; Kept, that every path is
  untouched in the tree or set aside whole in the staging; Moved, which of the two at each step of the swap and of its compensation;
  Collected, that what an export has hashed can only lose what a writer replaced, which never comes back.
* **EngineProofs** (`EngInvariant`, `BuildsKeptHolds`, `FailedUpdateUndoneHolds`, `UpdateKeepsServiceHolds`). PlanSound ties a transaction to
  what it was begun with, StoreSound says which build the pointer or the Mihomo file names at each step of the way forward and back,
  StopSound and CoreSound which steps no core of the engine can run at. `UpdateKeepsService` is an action property: without a fault
  since its begin, every step that ends a transaction is one after the core was started or restarted (NoFault).
* **RemoteProofs**, RemoteSources (`RsInvariant`, `EditsKeptHolds`, `CoreServesStoredHolds`, `ValidatorHonestHolds`). A refresh works on the record as it was last published (RecordKept), the copies a profile mutation
  carries are those on disk (ProInv), the restart in progress is owned by the mutation that waits for it (LifeOwned), and
  whatever the core has not been told is on its way to it or in `slips` (Told). `CacheInv`, under the hypothesis, says which
  validator covers the cache at each step.
  ExternalDashboard (`DashboardInvariant`, `DashboardKeptHolds`, `DisabledMeansRevokedHolds`). DiskSound speaks of every
  directory in `may`, since a power cut chooses one: each has a whole tree once one was published, and is recoverable without
  help as long as no file operation failed. PublishSound says where tree and backup are at each step of the job,
  CutsSound that without a failed operation nothing lies about but the backup a recovery puts back. `DisabledMeansRevoked` is
  inductive by itself: a request is registered only while the saved setting allows it, and the
  update that turns it off has not returned before it cancelled those that were.

No theorem has a hypothesis beyond the assumptions on its constants: where the code departs from a property, the step that
departs is in the model and a history variable (`halfDone`, `lost`, `parted`, `flaws`, `slips`) records it, so that a property exempts
the states such a step led to and none before it. Section 5 has each of them.

## 7. Only model-checked, and not modelled

Only model-checked: the liveness properties (`OperationEnds`, `DeadCoreFailsOpen`, `TroubleResolves`, `BootCompletes`,
`DataplaneRecovers`, `JobEnds`), since TLAPS treats neither fairness nor ENABLED. Every invariant and action
property of the runs is proved.

Not modelled:

* OPERATING_MODE in Lifecycle: it assumes gateway mode; the modes are in OpenWrtActivation. `boxctl firewall stop`
  is in OpenWrtActivation only.
* Several data roots on one host and the owner file; conflicts of policy routes with foreign ones; parsing of plans
  and of command output; discovered interfaces.
* In ProfileSwitch: boots with `--no-core`, profiles edited behind the program's back, an error of `WriteFileAtomic` reported
  after the rename, saves with native reload. Rename and deletion of profiles.
* `.boxctl` files restored by an import beside a hand-off marker or job record: BackupRestore treats them as contents,
  ManagerUpdate knows no import.
* RollbackManagedEngine and the unattended scheduler of engine updates (one more caller of the modelled transaction).
* Several subscriptions at once (they share a lock and a registry write), sing-box providers and rule lists.
* A capture commit that fails after its rename (`store.go:274`); the export's file lock (`actions.go:1341,1573`); the
  transient empty directory that `reserveDashboardRenamePath` leaves for a moment (`external_dashboard.go:627-635`).
* Login throttling, WebAuthn, cookie encoding, routing; the event log (an in-memory ring that drops what a subscriber does not
  take); rule conversion, connection names, diagnostics, drivers' HTTP, frontend and packaging: data transformation or I/O.

## 8. Plan

1. Supervisor as an implementation of the slot that Lifecycle uses, by a refinement mapping, checked and then proved.
2. The composition of ManagerUpdate with ProfileSwitch's boot: an outstanding journal makes the adopted core fail to match.
3. Rule lists and provider refresh as writers beside RemoteSources and BackupRestore.
