---------------------------- MODULE RemoteSources ----------------------------
(***************************************************************************)
(* app/proxy_subscriptions.go, app/profiles.go and remote/fetch.go: a      *)
(* Mihomo proxy subscription and a remote Mihomo profile, edited by the    *)
(* browser, refreshed by the two schedulers, and consumed by the running   *)
(* core through a restart.                                                 *)
(*                                                                         *)
(* Each service serialises its own mutations (service.mu, mutationMu); a   *)
(* restart holds neither lock: it reads the registry and rebuilds local    *)
(* caches beside them, and the core reads the cache file when it starts.   *)
(* A document is the pair of its source and the version the source served. *)
(***************************************************************************)
EXTENDS Integers

CONSTANTS
    Urls, Texts,    \* remote sources; share links and profile texts
    Nothing, Gone,  \* no source, document or validator yet; deleted
    MaxVersion,     \* bound: versions a server publishes
    MaxEdits,       \* bound: edits of the administrator
    MaxFaults       \* bound: failed writes, stops and starts, abandoned waits, crashes

ASSUME RsBoundAssumption ==
    MaxVersion \in Nat /\ MaxEdits \in Nat /\ MaxFaults \in Nat
ASSUME RsSourceAssumption ==
    /\ Urls \intersect Texts = {}
    /\ Nothing # Gone /\ {Nothing, Gone} \intersect (Urls \union Texts) = {}
    /\ Nothing \notin (Urls \union Texts) \X (0 .. MaxVersion)

VARIABLES
    server,    \* what each URL serves
    rec,       \* the subscription's record in the registry
    cache,     \* its normalised provider cache
    sub,       \* the mutation that holds service.mu
    profile,   \* the profile's content and its source metadata
    active,    \* whether it is the selected profile (constant: see ProfileSwitch)
    mirror,    \* the active mirror's content
    pro,       \* the mutation that holds mutationMu
    due,       \* what the two schedulers listed before they took a lock
    life,      \* the lifecycle operation in progress
    core,      \* the core's process; held when its stop failed and nothing restarts it
    acked,     \* history: the last edits that were published
    slips,     \* history: what a failed write or restart, a crash or a late rebuild left behind
    edits, faults

rsVars == <<server, rec, cache, sub, profile, active, mirror, pro, due, life, core,
            acked, slips, edits, faults>>
subVars == <<rec, cache, sub>>
proVars == <<profile, mirror, pro>>
hostVars == <<life, core>>

SourceNames == Urls \union Texts
Documents == SourceNames \X (0 .. MaxVersion)
Maybe(S) == S \union {Nothing}
Records == [src : SourceNames \union {Nothing, Gone}, on : BOOLEAN, etag : Maybe(Documents)]
Metadata == [url : Maybe(Urls), etag : Maybe(Documents)]
NoRecord == [src |-> Nothing, on |-> FALSE, etag |-> Nothing]
NoMeta == [url |-> Nothing, etag |-> Nothing]
SubFree == [pc |-> "free", kind |-> "none", rec |-> NoRecord, changed |-> FALSE]
ProFree == [pc |-> "free", kind |-> "none", meta |-> NoMeta, was |-> NoMeta,
            got |-> Nothing, old |-> Nothing]
LifeFree == [by |-> "none", pc |-> "free", rec |-> NoRecord, prof |-> Nothing]
CoreOff == [on |-> FALSE, held |-> FALSE, prof |-> Nothing, prov |-> Nothing]

SubOps == [pc : {"free", "fetch", "write", "save", "drop", "tell", "wait"},
           kind : {"none", "create", "patch", "toggle", "delete", "refresh"},
           rec : Records, changed : BOOLEAN]
ProOps == [pc : {"free", "fetch", "store", "meta", "mirror", "tell", "wait"},
           kind : {"none", "patch", "text", "refresh"}, meta : Metadata, was : Metadata,
           got : Maybe(Documents), old : Maybe(Documents)]
LifeOps == [by : {"none", "panel", "sub", "pro"}, pc : {"free", "ensure", "start"},
            rec : Records, prof : Maybe(Documents)]
Cores == [on : BOOLEAN, held : BOOLEAN, prof : Maybe(Documents), prov : Maybe(Documents)]
Acks == [src : SourceNames \union {Nothing, Gone}, on : BOOLEAN, url : Maybe(Urls), content : Documents]

RsTypeOK ==
    /\ server \in [Urls -> 0 .. MaxVersion]
    /\ rec \in Records /\ cache \in Maybe(Documents) /\ sub \in SubOps
    /\ profile \in [content : Documents, meta : Metadata] /\ active \in BOOLEAN
    /\ mirror \in Maybe(Documents) /\ pro \in ProOps
    /\ due \in [sub : Maybe(Records), pro : Maybe(Metadata)]
    /\ life \in LifeOps /\ core \in Cores /\ acked \in Acks
    /\ slips \subseteq {"told", "cache", "profile"}
    /\ edits \in 0 .. MaxEdits /\ faults \in 0 .. MaxFaults

RsInit ==
    /\ server = [u \in Urls |-> 0]
    /\ rec = NoRecord /\ cache = Nothing /\ sub = SubFree
    /\ \E t \in Texts : profile = [content |-> <<t, 0>>, meta |-> NoMeta]
    /\ active \in BOOLEAN /\ mirror = (IF active THEN profile.content ELSE Nothing)
    /\ pro = ProFree /\ due = [sub |-> Nothing, pro |-> Nothing]
    /\ life = LifeFree /\ core = CoreOff
    /\ acked = [src |-> Nothing, on |-> FALSE, url |-> Nothing, content |-> profile.content]
    /\ slips = {} /\ edits = 0 /\ faults = 0

Edit == edits < MaxEdits /\ edits' = edits + 1
Fault == faults < MaxFaults /\ faults' = faults + 1
Served(src) == <<src, IF src \in Urls THEN server[src] ELSE 0>>
Exists(r) == r.src \in SourceNames

\* The remote side publishes a new version under a new validator.
Publish(u) ==
    /\ server[u] < MaxVersion
    /\ server' = [server EXCEPT ![u] = @ + 1]
    /\ UNCHANGED <<subVars, proVars, hostVars, active, due, acked, slips, edits, faults>>

-----------------------------------------------------------------------------
(* Subscriptions: each mutation loads the registry under service.mu.       *)

SubBegin(kind, record, fetches) ==
    /\ sub.pc = "free"
    /\ sub' = [pc |-> IF fetches THEN "fetch" ELSE "save", kind |-> kind,
               rec |-> record, changed |-> FALSE]
    /\ UNCHANGED <<server, rec, cache, proVars, hostVars, active, acked, slips, faults>>

SubCreate(src) ==
    /\ rec.src = Nothing /\ Edit /\ UNCHANGED due
    /\ SubBegin("create", [src |-> src, on |-> TRUE, etag |-> Nothing], TRUE)

\* A new source, or new headers for the present one: the validators go.
SubPatch(src) ==
    /\ Exists(rec) /\ Edit /\ UNCHANGED due
    /\ SubBegin("patch", [rec EXCEPT !.src = src, !.etag = Nothing], TRUE)

SubToggle ==
    /\ Exists(rec) /\ Edit /\ UNCHANGED due
    /\ SubBegin("toggle", [rec EXCEPT !.on = ~@], FALSE)

SubDelete ==
    /\ Exists(rec) /\ Edit /\ UNCHANGED due
    /\ SubBegin("delete", [NoRecord EXCEPT !.src = Gone], FALSE)

\* RefreshDueProxySubscriptions lists the records and lets the lock go.
SubListed ==
    /\ sub.pc = "free" /\ due.sub = Nothing /\ rec.on /\ rec.src \in Urls
    /\ due' = [due EXCEPT !.sub = rec]
    /\ UNCHANGED <<server, subVars, proVars, hostVars, active, acked, slips, edits, faults>>

\* Mutant: the scheduler refreshes the record it had listed.
SubLoadedStale == IF due.sub # Nothing THEN due.sub ELSE rec

\* RefreshProxySubscription reads the registry again under the lock.
SubLoaded == rec

SubRefresh(by) ==
    /\ by = "sched" => due.sub # Nothing
    /\ due' = IF by = "sched" THEN [due EXCEPT !.sub = Nothing] ELSE due
    /\ by = "user" => edits < MaxEdits
    /\ edits' = IF by = "user" THEN edits + 1 ELSE edits
    /\ Exists(SubLoaded) /\ SubBegin("refresh", SubLoaded, TRUE)

\* The record vanished between the listing and the lock.
SubRefreshMissing ==
    /\ sub.pc = "free" /\ due.sub # Nothing /\ ~Exists(rec)
    /\ due' = [due EXCEPT !.sub = Nothing]
    /\ UNCHANGED <<server, subVars, proVars, hostVars, active, acked, slips, edits, faults>>

SubStep == UNCHANGED <<server, proVars, active, due, edits>>

\* refreshRecord's request: conditional for a refresh, and its three answers.
SubFetched ==
    /\ sub.pc = "fetch" /\ SubStep
    /\ sub' = IF sub.kind = "refresh" /\ sub.rec.src \in Urls /\ sub.rec.etag = Served(sub.rec.src)
                THEN [sub EXCEPT !.pc = "save"]
                ELSE [sub EXCEPT !.pc = "write",
                                 !.rec.etag = IF sub.rec.src \in Urls THEN Served(sub.rec.src)
                                              ELSE Nothing]
    /\ UNCHANGED <<rec, cache, hostVars, acked, slips, faults>>

\* No usable answer: a refresh only notes the error in its record.
SubFetchFails ==
    /\ sub.pc = "fetch" /\ sub.rec.src \in Urls /\ SubStep
    /\ sub' = SubFree
    /\ UNCHANGED <<rec, cache, hostVars, acked, slips, faults>>

SubGot == IF sub.rec.src \in Urls THEN sub.rec.etag ELSE Served(sub.rec.src)

SubWrite ==
    /\ sub.pc = "write" /\ SubStep
    /\ cache' = SubGot
    /\ sub' = [sub EXCEPT !.pc = "save", !.changed = cache # SubGot]
    /\ UNCHANGED <<rec, hostVars, acked, slips, faults>>

\* The cache cannot be written: a refresh still saves its record, new validators included.
SubWriteFails ==
    /\ sub.pc = "write" /\ Fault /\ SubStep
    /\ sub' = IF sub.kind = "refresh" THEN [sub EXCEPT !.pc = "save"] ELSE SubFree
    /\ slips' = IF sub.kind = "refresh" THEN slips \union {"cache"} ELSE slips
    /\ UNCHANGED <<rec, cache, hostVars, acked>>

\* Mutant: only another cache is worth a restart.
SubTellsCacheOnly == sub.changed

\* runtimeChanged, as each of the five mutations decides it.
SubTells ==
    CASE sub.kind = "create" -> TRUE
      [] sub.kind = "delete" -> rec.on
      [] sub.kind = "refresh" -> sub.changed /\ sub.rec.on
      [] OTHER -> /\ \/ sub.changed \/ rec.on # sub.rec.on
                     \/ rec.src # sub.rec.src /\ {rec.src, sub.rec.src} \intersect Urls # {}
                  /\ rec.on \/ sub.rec.on

\* Share links are compared by their cache alone: an edit that finds its text there,
\* left by one that was not saved, tells nobody.
Unnoticed == sub.rec.on /\ rec.src # sub.rec.src /\ ~SubTells

SubSave ==
    /\ sub.pc = "save" /\ SubStep
    /\ rec' = sub.rec
    /\ acked' = IF sub.kind = "refresh" THEN acked
                ELSE [acked EXCEPT !.src = sub.rec.src, !.on = sub.rec.on]
    /\ sub' = IF sub.kind = "delete" THEN [sub EXCEPT !.pc = "drop", !.changed = SubTells]
              ELSE IF SubTells THEN [sub EXCEPT !.pc = "tell"] ELSE SubFree
    /\ slips' = (IF sub.rec.etag = cache THEN slips \ {"cache"} ELSE slips)
                \union (IF Unnoticed THEN {"told"} ELSE {})
    /\ UNCHANGED <<cache, hostVars, faults>>

\* The registry cannot be written: the cache stays ahead of it.
SubSaveFails ==
    /\ sub.pc = "save" /\ Fault /\ SubStep
    /\ sub' = SubFree
    /\ slips' = IF sub.changed THEN slips \union {"cache", "told"} ELSE slips
    /\ UNCHANGED <<rec, cache, hostVars, acked>>

SubDrop ==
    /\ sub.pc = "drop" /\ SubStep
    /\ cache' = Nothing
    /\ sub' = IF sub.changed THEN [sub EXCEPT !.pc = "tell"] ELSE SubFree
    /\ UNCHANGED <<rec, hostVars, acked, slips, faults>>

\* RemoveRegular's error returns before anybody is told.
SubDropFails ==
    /\ sub.pc = "drop" /\ Fault /\ SubStep
    /\ sub' = SubFree
    /\ slips' = IF sub.changed THEN slips \union {"told"} ELSE slips
    /\ UNCHANGED <<rec, cache, hostVars, acked>>

-----------------------------------------------------------------------------
(* The remote profile: mutations under mutationMu.                         *)

ProStep == UNCHANGED <<server, subVars, active, due, edits>>

ProBegin(kind, meta, got, pc) ==
    /\ pro.pc = "free"
    /\ pro' = [pc |-> pc, kind |-> kind, meta |-> meta, was |-> profile.meta,
               got |-> got, old |-> profile.content]
    /\ UNCHANGED <<server, subVars, profile, mirror, hostVars, active, acked, slips, faults>>

\* UpdateProfile with a URL (fetched whole), with a text (which drops the source).
ProPatch(u) == Edit /\ UNCHANGED due /\ ProBegin("patch", [url |-> u, etag |-> Nothing], Nothing, "fetch")
ProText(t) == Edit /\ UNCHANGED due /\ ProBegin("text", NoMeta, <<t, 0>>, "store")

\* DetachProfileSource: what is there now is the administrator's.
ProDetach ==
    /\ pro.pc = "free" /\ profile.meta.url # Nothing /\ Edit
    /\ profile' = [profile EXCEPT !.meta = NoMeta]
    /\ acked' = [acked EXCEPT !.url = Nothing, !.content = profile.content]
    /\ UNCHANGED <<server, subVars, mirror, pro, hostVars, active, due, slips, faults>>

ProListed ==
    /\ due.pro = Nothing /\ profile.meta.url # Nothing
    /\ due' = [due EXCEPT !.pro = profile.meta]
    /\ UNCHANGED <<server, subVars, proVars, hostVars, active, acked, slips, edits, faults>>

\* RefreshProfile loads the source under the lock.
ProLoaded == profile.meta

ProRefresh(by) ==
    /\ by = "sched" => due.pro # Nothing
    /\ due' = IF by = "sched" THEN [due EXCEPT !.pro = Nothing] ELSE due
    /\ by = "user" => edits < MaxEdits
    /\ edits' = IF by = "user" THEN edits + 1 ELSE edits
    /\ ProLoaded.url # Nothing /\ ProBegin("refresh", ProLoaded, Nothing, "fetch")

ProRefreshLocal ==
    /\ pro.pc = "free" /\ due.pro # Nothing /\ profile.meta.url = Nothing
    /\ due' = [due EXCEPT !.pro = Nothing]
    /\ UNCHANGED <<server, subVars, proVars, hostVars, active, acked, slips, edits, faults>>

ProFetched ==
    /\ pro.pc = "fetch" /\ ProStep
    /\ LET got == Served(pro.meta.url) IN
       pro' = IF pro.kind = "refresh" /\ pro.meta.etag = got THEN [pro EXCEPT !.pc = "meta", !.got = pro.old]
              ELSE [pro EXCEPT !.pc = IF pro.kind = "refresh" /\ got = pro.old THEN "meta" ELSE "store",
                               !.meta.etag = got, !.got = got]
    /\ UNCHANGED <<profile, mirror, hostVars, acked, slips, faults>>

ProFetchFails ==
    /\ pro.pc = "fetch" /\ ProStep
    /\ pro' = ProFree
    /\ UNCHANGED <<profile, mirror, hostVars, acked, slips, faults>>

\* Store.Update; a refresh restarts the core before it saves its validators.
ProStore ==
    /\ pro.pc = "store" /\ ProStep
    /\ profile' = [profile EXCEPT !.content = pro.got]
    /\ pro' = [pro EXCEPT !.pc = IF pro.kind = "refresh" /\ active THEN "mirror" ELSE "meta"]
    /\ UNCHANGED <<mirror, hostVars, acked, slips, faults>>

Acknowledged == [acked EXCEPT !.url = pro.meta.url, !.content = pro.got]

\* saveSource or, for a text, deleteSource.
ProMeta ==
    /\ pro.pc = "meta" /\ ProStep
    /\ profile' = [profile EXCEPT !.meta = pro.meta]
    /\ pro' = IF pro.kind # "refresh" /\ active /\ pro.got # pro.old THEN [pro EXCEPT !.pc = "mirror"]
              ELSE ProFree
    /\ acked' = IF pro.kind = "refresh" \/ pro'.pc = "mirror" THEN acked ELSE Acknowledged
    /\ slips' = IF pro.kind # "refresh" /\ ~active THEN slips \ {"profile"} ELSE slips
    /\ UNCHANGED <<mirror, hostVars, faults>>

\* Mutant: the new content stays although its source could not be saved.
ProMetaFailsKeeps ==
    /\ pro.pc = "meta" /\ Fault /\ ProStep
    /\ pro' = ProFree
    /\ UNCHANGED <<profile, mirror, hostVars, acked, slips>>

\* rollbackProfileUpdate puts content and source back one by one; a write that fails
\* again leaves what the mutation had put there.
RolledBack ==
    /\ \E content \in {pro.old, profile.content}, meta \in {pro.was, profile.meta} :
          profile' = [content |-> content, meta |-> meta]
    /\ pro' = ProFree

RestoredSlips ==
    slips \union (IF profile' = [content |-> pro.old, meta |-> pro.was] /\ mirror' = mirror
                  THEN {} ELSE {"profile"})
          \union (IF mirror' = mirror THEN {} ELSE {"told"})

\* The source cannot be saved; a refreshed profile that already runs is kept.
ProMetaFails ==
    /\ pro.pc = "meta" /\ Fault /\ ProStep /\ UNCHANGED <<mirror, hostVars, acked>>
    /\ IF pro.kind = "refresh" /\ active
         THEN UNCHANGED <<profile, slips>> /\ pro' = ProFree
         ELSE RolledBack /\ slips' = RestoredSlips

\* Store.Activate publishes the mirror.
ProMirror ==
    /\ pro.pc = "mirror" /\ ProStep
    /\ mirror' = pro.got
    /\ pro' = [pro EXCEPT !.pc = "tell"]
    /\ IF pro.kind = "refresh" THEN UNCHANGED <<acked, slips>>
       ELSE acked' = Acknowledged /\ slips' = slips \ {"profile"}
    /\ UNCHANGED <<profile, hostVars, faults>>

\* The mirror cannot be published, or only the selection behind it; it is published
\* again from the content that came back.
ProMirrorFails ==
    /\ pro.pc = "mirror" /\ Fault /\ ProStep
    /\ RolledBack /\ mirror' \in {mirror, pro.got, profile'.content} /\ slips' = RestoredSlips
    /\ UNCHANGED <<hostVars, acked>>

-----------------------------------------------------------------------------
(* RestartIfRunning and a start from the panel: one lifecycle operation.   *)

LifeStep == UNCHANGED <<server, profile, mirror, active, due, acked, edits>>

\* PrepareActive reads the mirror and, without service.mu, the registry.
Prepared(by) ==
    [by |-> by, rec |-> rec, prof |-> mirror,
     pc |-> IF rec.on /\ rec.src \in Texts THEN "ensure" ELSE "start"]

PanelStart ==
    /\ life.pc = "free" /\ ~core.on /\ LifeStep
    /\ life' = Prepared("panel") /\ slips' = slips \ {"told"}
    /\ UNCHANGED <<rec, cache, sub, pro, core, faults>>

\* A change that was saved: a running core is stopped and started again.
Restart(by) ==
    /\ life.pc = "free" /\ core.on /\ ~core.held /\ LifeStep
    /\ life' = Prepared(by) /\ core' = CoreOff /\ slips' = slips \ {"told"}
    /\ UNCHANGED <<rec, cache, faults>>

\* restartPreparedLocked, the panel's guarded restart: the core runs on until the
\* target is prepared.  (Its unguarded restart is PanelStop, then PanelStart.)
PanelRestart ==
    /\ life.pc = "free" /\ core.on /\ ~core.held /\ LifeStep
    /\ life' = Prepared("panel") /\ slips' = slips \ {"told"}
    /\ UNCHANGED <<rec, cache, sub, pro, core, faults>>

\* Capture cannot be removed or the process not be stopped: it keeps what it has
\* loaded, and the lifecycle no longer counts it as running.
StopFails ==
    /\ life.pc = "free" /\ core.on /\ ~core.held /\ Fault /\ LifeStep
    /\ core' = [core EXCEPT !.held = TRUE] /\ slips' = slips \union {"told"}
    /\ \/ UNCHANGED <<sub, pro>>
       \/ sub.pc = "tell" /\ sub' = SubFree /\ UNCHANGED pro
       \/ pro.pc = "tell" /\ pro' = ProFree /\ UNCHANGED sub
    /\ UNCHANGED <<rec, cache, life>>

NotRunning ==
    /\ life.pc = "free" /\ (core.on => core.held) /\ LifeStep
    /\ UNCHANGED <<rec, cache, hostVars, slips, faults>>

ProResumes == IF pro.kind = "refresh" THEN [pro EXCEPT !.pc = "meta"] ELSE ProFree

SubRestarts == sub.pc = "tell" /\ sub' = [sub EXCEPT !.pc = "wait"] /\ Restart("sub") /\ UNCHANGED pro
SubNotRunning == sub.pc = "tell" /\ sub' = SubFree /\ NotRunning /\ UNCHANGED pro
ProRestarts == pro.pc = "tell" /\ pro' = [pro EXCEPT !.pc = "wait"] /\ Restart("pro") /\ UNCHANGED sub
ProNotRunning == pro.pc = "tell" /\ pro' = ProResumes /\ NotRunning /\ UNCHANGED sub

\* The caller's context ends while another operation holds the lifecycle.
GiveUp ==
    /\ life.pc # "free" /\ Fault /\ LifeStep
    /\ slips' = slips \union {"told"}
    /\ \/ sub.pc = "tell" /\ sub' = SubFree /\ UNCHANGED pro
       \/ pro.pc = "tell" /\ pro' = ProFree /\ UNCHANGED sub
    /\ UNCHANGED <<rec, cache, hostVars>>

\* ensureLocalProviderCache rebuilds the cache of the record it was given, which may
\* have become a URL's since, or be about to.
EnsureLocal ==
    /\ life.pc = "ensure" /\ LifeStep
    /\ cache' = Served(life.rec.src)
    /\ life' = [life EXCEPT !.pc = "start"]
    /\ slips' = IF rec.src \in Urls \/ (sub.pc = "save" /\ sub.rec.src \in Urls)
                THEN slips \union {"cache"} ELSE slips
    /\ UNCHANGED <<rec, sub, pro, core, faults>>

CallerResumes(proNext) ==
    /\ life' = LifeFree
    /\ sub' = IF life.by = "sub" THEN SubFree ELSE sub
    /\ pro' = IF life.by = "pro" THEN proNext ELSE pro

\* The core reads the provider's file when it starts.
Starts ==
    /\ life.pc = "start" /\ LifeStep
    /\ core' = [on |-> TRUE, held |-> FALSE, prof |-> life.prof,
                prov |-> IF life.rec.on THEN cache ELSE Nothing]
    /\ CallerResumes(ProResumes)
    /\ UNCHANGED <<rec, cache, slips, faults>>

\* The previous generation again: its own profile, its provider's file as it is now.
PreviousAgain == [core EXCEPT !.prov = IF @ = Nothing THEN Nothing ELSE cache]

\* A start that fails leaves no core; a guarded one keeps the core it did not come to
\* stop or could not stop, or starts its previous generation again.
StartFails ==
    /\ life.pc # "free" /\ Fault /\ LifeStep
    /\ CallerResumes(ProFree)
    /\ \/ core' = CoreOff /\ UNCHANGED slips
       \/ /\ core.on /\ slips' = slips \union {"told"}
          /\ core' \in {core, [core EXCEPT !.held = TRUE], PreviousAgain}
    /\ UNCHANGED <<rec, cache>>

PanelStop ==
    /\ life.pc = "free" /\ core.on /\ core' = CoreOff /\ LifeStep
    /\ UNCHANGED <<rec, cache, sub, pro, life, slips, faults>>

\* The manager dies with whatever it was doing; the files stay as they are.
Crash ==
    /\ Fault
    /\ sub' = SubFree /\ pro' = ProFree /\ life' = LifeFree /\ core' = CoreOff
    /\ due' = [sub |-> Nothing, pro |-> Nothing]
    /\ slips' = slips \union (IF sub.changed \/ sub.kind = "delete" THEN {"cache"} ELSE {})
                     \union (IF pro.pc \in {"meta", "mirror"} /\ pro.got # pro.old
                             THEN {"profile"} ELSE {})
    /\ UNCHANGED <<server, rec, cache, profile, mirror, active, acked, edits>>

-----------------------------------------------------------------------------
RsNext ==
    \/ \E u \in Urls : Publish(u) \/ ProPatch(u)
    \/ \E src \in SourceNames : SubCreate(src) \/ SubPatch(src)
    \/ SubToggle \/ SubDelete \/ SubListed \/ SubRefreshMissing
    \/ \E by \in {"user", "sched"} : SubRefresh(by) \/ ProRefresh(by)
    \/ SubFetched \/ SubFetchFails \/ SubWrite \/ SubWriteFails
    \/ SubSave \/ SubSaveFails \/ SubDrop \/ SubDropFails
    \/ \E t \in Texts : ProText(t)
    \/ ProDetach \/ ProListed \/ ProRefreshLocal
    \/ ProFetched \/ ProFetchFails \/ ProStore \/ ProMeta \/ ProMetaFails
    \/ ProMirror \/ ProMirrorFails
    \/ SubRestarts \/ SubNotRunning \/ ProRestarts \/ ProNotRunning
    \/ GiveUp \/ PanelStart \/ PanelRestart \/ EnsureLocal \/ Starts \/ StartFails
    \/ PanelStop \/ StopFails \/ Crash

RsSpec == RsInit /\ [][RsNext]_rsVars

-----------------------------------------------------------------------------
SubIdle == sub.pc = "free"
ProIdle == pro.pc = "free"

\* An edit that was published stays: no refresh, planned from what a scheduler had
\* listed before, brings back a source the administrator replaced, deleted or
\* disabled, and none touches the text of a profile without a source; except where a
\* crash or a failing rollback cut a profile's edit in two.
EditsKept ==
    /\ SubIdle => rec.src = acked.src /\ rec.on = acked.on
    /\ ProIdle /\ "profile" \notin slips =>
                  /\ profile.meta.url = acked.url
                  /\ acked.url = Nothing => profile.content = acked.content

\* A validator never runs ahead of what is stored: the document of a source is at
\* least as new as the version whose ETag is recorded, so no 304 can pin an older
\* one; except where a failed write or a crash left the two files apart, or a start
\* rebuilt a share link's cache over that of the URL it had just become.
Covers(document, tag) == document # Nothing /\ document[1] = tag[1] /\ document[2] >= tag[2]

ValidatorHonest ==
    /\ SubIdle /\ rec.etag # Nothing /\ "cache" \notin slips => Covers(cache, rec.etag)
    /\ ProIdle /\ profile.meta.etag # Nothing /\ "profile" \notin slips
         => Covers(profile.content, profile.meta.etag)

\* When nothing is in progress, a running core serves the cache of the enabled
\* subscription and the selected profile as they are stored; except where a failed
\* write, an abandoned restart, one that could neither stop nor replace it, or an edit
\* of share links that nobody noticed left it untold.
CoreServesStored ==
    SubIdle /\ ProIdle /\ life.pc = "free" /\ core.on /\ "told" \notin slips =>
        /\ core.prov = (IF rec.on THEN cache ELSE Nothing)
        /\ rec.on /\ rec.src \in Texts => cache = Served(rec.src)
        /\ active /\ "profile" \notin slips => core.prof = mirror /\ mirror = profile.content
=============================================================================
