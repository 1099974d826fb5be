--------------------------- MODULE DynamicCapture ---------------------------
(***************************************************************************)
(* internal/fakeip/store.go, app/fakeip_capture.go and its service,        *)
(* app/endpoint_bypass.go, app/periodic_maintenance.go and                 *)
(* OpenWrtActivation.RefreshDynamicCapture: which destinations the gateway *)
(* captures and which it lets past the core, while the core keeps running. *)
(*                                                                         *)
(* The document with the destination pool holds the administrator's text   *)
(* and a generated block.  A restart of the core, the periodic refresh and *)
(* the browser all rewrite that block, the browser and the settings page   *)
(* without the operation gate the other two hold.  The profile is one      *)
(* whose fake-IP filter uses the pool (whitelist or rule mode).            *)
(***************************************************************************)
EXTENDS Naturals

CONSTANTS
    Manuals,       \* texts an administrator may save
    NoManual,      \* the empty text
    Ranges,        \* fake-IP ranges of the profiles; "default" is always filtered
    MaxChanges,    \* bound: saves of the settings and of the profile's range
    Offered        \* the settings an administrator may choose

ASSUME CapManualAssumption == NoManual \in Manuals
ASSUME CapBoundAssumption == MaxChanges \in Nat

VARIABLES
    doc,       \* the whitelist document: generated block, manual text
    fresh,     \* the pending generations whose revision is still the document's
    saved,     \* history: the last text SaveManual accepted
    settings,  \* AUTO_FAKEIP_WHITELIST, ..._INCLUDE_EXTERNAL_..., the AUTO_REFRESH_ pair
    changes,   \* settings and range changes so far
    range,     \* the fake-IP range of the selected profile
    core,      \* the running core: its fake-IP range and the snapshot's capture
    nft, rec,  \* what the gateway captures and the active record on disk
    told,      \* history: the last settings call reported success
    gate,      \* the operation holding the lifecycle's gate, with what it read
    pend,      \* callers waiting for RestartIfRunning
    api,       \* a RegenerateFakeIPWhitelist call between its read and its commit
    maint,     \* the maintenance goroutine and the settings it loaded
    wake,      \* its one-slot notification channel
    cache,     \* endpoint-bypass cache: the address known for the endpoint's host
    flaws      \* history: "outdated", a refresh began with settings no longer the
               \* administrator's and nothing was generated for a start since; "range", a
               \* generation was prepared for another fake-IP range than the live core's

capVars == <<doc, fresh, saved, settings, changes, range, core, nft, rec, told,
             gate, pend, api, maint, wake, cache, flaws>>

Sources == {"local", "remote"}
Scopes == {"", "local-only", "all-providers"}
Addresses == {"none", "real"} \union Ranges
Settings == [auto : BOOLEAN, ext : BOOLEAN, refresh : SUBSET {"pool", "endpoints"}]
ASSUME CapOfferedAssumption == Offered \subseteq Settings

Docs == [has : BOOLEAN, scope : Scopes, cidrs : SUBSET Sources, manual : Manuals]
Captures == [cidrs : SUBSET Sources, bypass : Addresses]
NoCapture == [cidrs |-> {}, bypass |-> "none"]
EmptyDoc == [has |-> FALSE, scope |-> "", cidrs |-> {}, manual |-> NoManual]
LegacyDoc == [EmptyDoc EXCEPT !.has = TRUE, !.cidrs = Sources]
Defaults == [auto |-> TRUE, ext |-> TRUE, refresh |-> {"pool", "endpoints"}]
FreeGate == [by |-> "none", pc |-> "free", set |-> Defaults, next |-> EmptyDoc, cap |-> NoCapture]
NoApi == [on |-> FALSE, next |-> EmptyDoc]

Gates == [by : {"none", "settings", "pool", "start", "refresh"},
          pc : {"free", "policy", "commit", "resolve", "apply", "save"},
          set : Settings, next : Docs, cap : Captures]
CoreStates == [on : BOOLEAN, range : Ranges, cap : Captures]

CapTypeOK ==
    /\ doc \in Docs /\ fresh \subseteq {"gate", "api"} /\ saved \in Manuals
    /\ settings \in Settings /\ changes \in 0 .. MaxChanges /\ range \in Ranges
    /\ core \in CoreStates /\ nft \in Captures /\ rec \in Captures /\ told \in BOOLEAN
    /\ gate \in Gates /\ pend \subseteq {"settings", "pool"} /\ api \in [on : BOOLEAN, next : Docs]
    /\ maint \in [pc : {"load", "wait", "fired"}, set : Settings] /\ wake \in BOOLEAN
    /\ cache \in Addresses /\ flaws \subseteq {"outdated", "range"}

CapInit ==
    /\ doc \in {EmptyDoc, LegacyDoc} /\ fresh = {} /\ saved = NoManual
    /\ settings = Defaults /\ changes = 0 /\ range \in Ranges
    /\ core = [on |-> FALSE, range |-> range, cap |-> NoCapture]
    /\ nft = NoCapture /\ rec = NoCapture /\ told = TRUE
    /\ gate = FreeGate /\ pend = {} /\ api = NoApi
    /\ maint = [pc |-> "load", set |-> Defaults] /\ wake = FALSE /\ cache = "none" /\ flaws = {}

-----------------------------------------------------------------------------
(* Generating the pool from the providers that can be read now.            *)

Wanted(set) == IF set.ext THEN Sources ELSE {"local"}
AutoScope(set) == IF set.ext THEN "all-providers" ELSE "local-only"

\* Mutant: any generated block will do as the last known good one.
ScopeAnything(current, target) == current \in Scopes /\ target \in Scopes

ScopeCompatible(current, target) == current = target \/ (current = "" /\ target = "all-providers")

Block(d, set, avail) ==
    [d EXCEPT !.has = TRUE, !.scope = AutoScope(set), !.cidrs = Wanted(set) \intersect avail]

\* regenerate: an incomplete run keeps a compatible block, replaces one of another
\* scope by what it could read, and has no answer when there is no block at all.
Complete(set, avail) == Wanted(set) \subseteq avail
Retains(d, set, avail) ==
    ~Complete(set, avail) /\ d.has /\ ScopeCompatible(d.scope, AutoScope(set))
Generates(d, set, avail) == Complete(set, avail) \/ d.has
Generated(d, set, avail) == IF Retains(d, set, avail) THEN d ELSE Block(d, set, avail)

\* Mutant: a document is written back whatever was saved in the meantime.
CanCommitAlways(reader) == reader \in {"gate", "api"}

\* ReplaceGenerated under the store's lock: only the revision that was read, and
\* around the block the text of that revision.
CanCommit(reader) == reader \in fresh
Publish(next) == doc' = next /\ fresh' = {}

-----------------------------------------------------------------------------
(* The browser: no gate, but the revision it was shown.                    *)

\* Every revision but the current one is a conflict and changes nothing.
SaveManual(text) ==
    /\ text # doc.manual
    /\ Publish([doc EXCEPT !.manual = text])
    /\ saved' = text
    /\ pend' = pend \union {"pool"}
    /\ UNCHANGED <<settings, changes, range, core, nft, rec, told, gate, api, maint, wake, cache, flaws>>

\* Between reading the document and publishing the block lie the providers' files.
RegenerateRead(avail) ==
    /\ ~api.on /\ Generates(doc, settings, avail)
    /\ IF Retains(doc, settings, avail)
       THEN pend' = pend \union {"pool"} /\ UNCHANGED <<api, fresh>>
       ELSE /\ api' = [on |-> TRUE, next |-> Generated(doc, settings, avail)]
            /\ fresh' = fresh \union {"api"} /\ UNCHANGED pend
    /\ UNCHANGED <<doc, saved, settings, changes, range, core, nft, rec, told, gate, maint, wake, cache, flaws>>

RegenerateCommit ==
    /\ api.on
    /\ IF CanCommit("api")
       THEN Publish(api.next) /\ pend' = pend \union {"pool"}
       ELSE UNCHANGED <<doc, fresh, pend>>
    /\ api' = NoApi
    /\ UNCHANGED <<saved, settings, changes, range, core, nft, rec, told, gate, maint, wake, cache, flaws>>

-----------------------------------------------------------------------------
(* SettingsService.UpdateSettings: saved under the gate, which it gives up *)
(* before the restart and the notification of the maintenance goroutine.   *)

SettingsCallIdle == "settings" \notin pend /\ gate.by # "settings"

UpdateSettings(set) ==
    /\ gate.by = "none" /\ SettingsCallIdle /\ changes < MaxChanges /\ set # settings
    /\ settings' = set /\ changes' = changes + 1
    /\ IF set.auto # settings.auto \/ set.ext # settings.ext
       THEN pend' = pend \union {"settings"} /\ told' = FALSE /\ UNCHANGED wake
       ELSE wake' = TRUE /\ UNCHANGED <<pend, told>>
    /\ UNCHANGED <<doc, fresh, saved, range, core, nft, rec, gate, api, maint, cache, flaws>>

SelectRange(r) ==
    /\ gate.by = "none" /\ changes < MaxChanges /\ r # range
    /\ range' = r /\ changes' = changes + 1
    /\ pend' = pend \union {"pool"}
    /\ UNCHANGED <<doc, fresh, saved, settings, core, nft, rec, told, gate, api, maint, wake, cache, flaws>>

-----------------------------------------------------------------------------
(* The two operations that hold the gate.                                  *)

Hold(by, set, cap) ==
    gate' = [FreeGate EXCEPT !.by = by, !.pc = "policy", !.set = set, !.cap = cap]

\* An operation ends: the settings call notifies maintenance only after a restart
\* that worked.
Release(ok) ==
    /\ gate' = FreeGate
    /\ IF gate.by = "settings"
       THEN told' = ok /\ wake' = (wake \/ ok)
       ELSE UNCHANGED <<told, wake>>

\* RestartIfRunning, nothing running.
RestartSkipped(by) ==
    /\ by \in pend /\ gate.by = "none" /\ ~core.on
    /\ pend' = pend \ {by}
    /\ IF by = "settings" THEN told' = TRUE /\ wake' = TRUE ELSE UNCHANGED <<told, wake>>
    /\ UNCHANGED <<doc, fresh, saved, settings, changes, range, core, nft, rec, gate, api, maint, cache, flaws>>

\* With the restart guard the new generation is prepared beside the old core,
\* without it after the old one was stopped and its capture removed.
RestartBegin(by, guarded) ==
    /\ by \in pend /\ gate.by = "none" /\ core.on
    /\ pend' = pend \ {by}
    /\ flaws' = flaws \union (IF guarded /\ core.range \notin {range, "default"} THEN {"range"} ELSE {})
    /\ Hold(by, settings, NoCapture)
    /\ IF guarded
       THEN UNCHANGED <<core, nft, rec>>
       ELSE core' = [core EXCEPT !.on = FALSE, !.cap = NoCapture] /\ nft' = NoCapture /\ rec' = NoCapture
    /\ UNCHANGED <<doc, fresh, saved, settings, changes, range, told, api, maint, wake, cache>>

StartBegin ==
    /\ gate.by = "none" /\ ~core.on
    /\ Hold("start", settings, NoCapture)
    /\ UNCHANGED <<doc, fresh, saved, settings, changes, range, core, nft, rec, told, pend, api, maint,
                   wake, cache, flaws>>

\* The settings do not ask for the block the administrator's settings ask for.
Outdated(set) == set.auto # settings.auto \/ set.ext # settings.ext

\* Refresh keeps the settings its goroutine loaded before it waited; nothing runs:
\* it returns at once.
RefreshBegin ==
    /\ maint.pc = "fired" /\ gate.by = "none"
    /\ maint' = [pc |-> "load", set |-> Defaults]
    /\ IF core.on THEN Hold("refresh", maint.set, core.cap) ELSE UNCHANGED gate
    /\ flaws' = flaws \union (IF core.on /\ Outdated(maint.set) THEN {"outdated"} ELSE {})
    /\ UNCHANGED <<doc, fresh, saved, settings, changes, range, core, nft, rec, told, pend, api, wake, cache>>

Regenerating == gate.set.auto /\ (gate.by = "refresh" => "pool" \in gate.set.refresh)
Resolving == gate.by = "refresh" => "endpoints" \in gate.set.refresh

\* The policy of a document (the administrator's own entries are always in it); a
\* refresh without the pool keeps the snapshot's.
Destinations(d) == [gate.cap EXCEPT !.cidrs = d.cidrs]

PolicyAsIs ==
    /\ gate.pc = "policy" /\ ~Regenerating
    /\ gate' = [gate EXCEPT !.pc = "resolve",
                            !.cap = IF gate.by = "refresh" THEN @ ELSE Destinations(doc)]
    /\ UNCHANGED <<doc, fresh, saved, settings, changes, range, core, nft, rec, told, pend, api, maint,
                   wake, cache, flaws>>

PolicyGenerate(avail) ==
    /\ gate.pc = "policy" /\ Regenerating /\ Generates(doc, gate.set, avail)
    /\ IF Retains(doc, gate.set, avail)
       THEN gate' = [gate EXCEPT !.pc = "resolve", !.cap = Destinations(doc)] /\ UNCHANGED fresh
       ELSE /\ gate' = [gate EXCEPT !.pc = "commit", !.next = Generated(doc, gate.set, avail)]
            /\ fresh' = fresh \union {"gate"}
    /\ UNCHANGED <<doc, saved, settings, changes, range, core, nft, rec, told, pend, api, maint,
                   wake, cache, flaws>>

PolicyFails(avail) ==
    /\ gate.pc = "policy" /\ Regenerating /\ ~Generates(doc, gate.set, avail)
    /\ Release(FALSE)
    /\ UNCHANGED <<doc, fresh, saved, settings, changes, range, core, nft, rec, pend, api, maint, cache, flaws>>

PolicyCommit ==
    /\ gate.pc = "commit"
    /\ IF CanCommit("gate")
       THEN /\ Publish(gate.next)
            /\ gate' = [gate EXCEPT !.pc = "resolve", !.cap = Destinations(gate.next)]
            /\ UNCHANGED <<told, wake>>
       ELSE Release(FALSE) /\ UNCHANGED <<doc, fresh>>
    /\ UNCHANGED <<saved, settings, changes, range, core, nft, rec, pend, api, maint, cache, flaws>>

\* The range the answers are filtered by: the running core's own for a refresh.
FilterRange == IF gate.by = "refresh" THEN core.range ELSE range

\* Mutant: what the resolver says is taken as it is.
RealUnfiltered(address, filter) == address # "none" /\ filter \in Ranges

\* filterEndpointAddresses, for answers and for cache entries.
Real(address, filter) == address \notin {"none", "default", filter}

\* The router's resolver may be the running core's own fake-IP DNS.
Answers == {"none", "real"} \union (IF core.on THEN {core.range} ELSE {})

\* prepareHosts: the answer, or the last known good one, or no address at all.
Endpoint(answer) ==
    CHOOSE a \in {answer, cache, "none"} :
        \/ a = answer /\ Real(answer, FilterRange)
        \/ a = cache /\ ~Real(answer, FilterRange) /\ Real(cache, FilterRange)
        \/ a = "none" /\ ~Real(answer, FilterRange) /\ ~Real(cache, FilterRange)

ResolveEndpoints(answer) ==
    /\ gate.pc = "resolve"
    /\ IF Resolving
       THEN /\ cache' = Endpoint(answer)
            /\ gate' = [gate EXCEPT !.pc = "apply", !.cap.bypass = Endpoint(answer)]
       ELSE gate' = [gate EXCEPT !.pc = "apply"] /\ UNCHANGED cache
    /\ UNCHANGED <<doc, fresh, saved, settings, changes, range, core, nft, rec, told, pend, api, maint, wake, flaws>>

\* The lifecycle replaces the core and activates the new capture.
RestartActivates ==
    /\ gate.pc = "apply" /\ gate.by # "refresh"
    /\ core' = [on |-> TRUE, range |-> range, cap |-> gate.cap]
    /\ nft' = gate.cap /\ rec' = gate.cap
    /\ flaws' = flaws \ {"outdated"}
    /\ Release(TRUE)
    /\ UNCHANGED <<doc, fresh, saved, settings, changes, range, pend, api, maint, cache>>

\* Or fails: the previous core, where there is one, stays or comes back.
RestartFails ==
    /\ gate.pc = "apply" /\ gate.by # "refresh"
    /\ Release(FALSE)
    /\ UNCHANGED <<doc, fresh, saved, settings, changes, range, core, nft, rec, pend, api, maint, cache, flaws>>

RefreshApply ==
    /\ gate.pc = "apply" /\ gate.by = "refresh"
    /\ nft' = gate.cap
    /\ gate' = [gate EXCEPT !.pc = "save"]
    /\ UNCHANGED <<doc, fresh, saved, settings, changes, range, core, rec, told, pend, api, maint, wake, cache, flaws>>

RefreshApplyFails ==
    /\ gate.pc = "apply" /\ gate.by = "refresh"
    /\ Release(FALSE)
    /\ UNCHANGED <<doc, fresh, saved, settings, changes, range, core, nft, rec, pend, api, maint, cache, flaws>>

RefreshSave ==
    /\ gate.pc = "save"
    /\ rec' = gate.cap /\ core' = [core EXCEPT !.cap = gate.cap]
    /\ Release(TRUE)
    /\ UNCHANGED <<doc, fresh, saved, settings, changes, range, nft, pend, api, maint, cache, flaws>>

\* The record cannot be written: the previous plan is applied again, or even that fails.
RefreshUnsaved ==
    /\ gate.pc = "save"
    /\ nft' = rec \/ UNCHANGED nft
    /\ Release(FALSE)
    /\ UNCHANGED <<doc, fresh, saved, settings, changes, range, core, rec, pend, api, maint, cache, flaws>>

-----------------------------------------------------------------------------
(* The maintenance goroutine.                                              *)

MaintLoad ==
    /\ maint.pc = "load"
    /\ maint' = [pc |-> "wait", set |-> settings]
    /\ UNCHANGED <<doc, fresh, saved, settings, changes, range, core, nft, rec, told, gate, pend, api, wake,
                   cache, flaws>>

MaintNotified ==
    /\ maint.pc = "wait" /\ wake
    /\ wake' = FALSE /\ maint' = [pc |-> "load", set |-> Defaults]
    /\ UNCHANGED <<doc, fresh, saved, settings, changes, range, core, nft, rec, told, gate, pend, api, cache, flaws>>

\* The timer is armed only when something is to be refreshed.
MaintTimer ==
    /\ maint.pc = "wait" /\ maint.set.refresh # {}
    /\ maint' = [maint EXCEPT !.pc = "fired"]
    /\ UNCHANGED <<doc, fresh, saved, settings, changes, range, core, nft, rec, told, gate, pend, api, wake,
                   cache, flaws>>

CapNext ==
    \/ \E text \in Manuals : SaveManual(text)
    \/ \E avail \in SUBSET Sources :
          RegenerateRead(avail) \/ PolicyGenerate(avail) \/ PolicyFails(avail)
    \/ RegenerateCommit
    \/ \E set \in Offered : UpdateSettings(set)
    \/ \E r \in Ranges : SelectRange(r)
    \/ \E by \in {"settings", "pool"} :
          RestartSkipped(by) \/ (\E guarded \in BOOLEAN : RestartBegin(by, guarded))
    \/ StartBegin \/ RefreshBegin \/ PolicyAsIs \/ PolicyCommit
    \/ \E answer \in Answers : ResolveEndpoints(answer)
    \/ RestartActivates \/ RestartFails
    \/ RefreshApply \/ RefreshApplyFails \/ RefreshSave \/ RefreshUnsaved
    \/ MaintLoad \/ MaintNotified \/ MaintTimer

CapSpec == CapInit /\ [][CapNext]_capVars

-----------------------------------------------------------------------------
\* The text an administrator saved survives every regeneration of the block beside
\* it, whichever of restart, refresh and browser read the document before the save.
ManualKept == doc.manual = saved

\* Once a settings call that excludes external providers reported success, the
\* gateway captures no destination a remote provider named, whatever blocks earlier
\* versions generated and however many providers could not be read - until a refresh
\* begins with settings its goroutine loaded before that call, and from the next
\* start of the core on again.
OptOutHolds ==
    "outdated" \notin flaws =>
        (told /\ pend = {} /\ gate.by = "none" /\ core.on /\ settings.auto /\ ~settings.ext
            => "remote" \notin nft.cidrs)

\* "Endpoint bypass refresh excludes synthetic fake-IP addresses from DNS answers and
\* persisted caches, including configured custom pools" (README.md:83-84).
SyntheticExcluded == nft.bypass \in {"none", "real"} /\ cache \in {"none", "real"}

\* No synthetic address is ever let past the core, by an answer or by the cache: the
\* endpoint is bypassed by a real address or not at all, as long as no generation was
\* prepared for another fake-IP range while the live core's own DNS may answer.
BypassIsReal == "range" \notin flaws => SyntheticExcluded
=============================================================================
