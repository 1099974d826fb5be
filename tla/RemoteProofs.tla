---------------------------- MODULE RemoteProofs ----------------------------
(***************************************************************************)
(* Theorems about what the manager downloads: RemoteSources for every set  *)
(* of servers, texts and every bound, and ExternalDashboard for every set  *)
(* of releases and every bound.                                            *)
(***************************************************************************)
EXTENDS RemoteSources, ExternalDashboard, FiniteSetTheorems, TLAPS

(***************************************************************************)
(* RemoteSources: no refresh undoes an edit, the core serves what is       *)
(* stored, and a validator vouches for nothing newer than that.            *)
(***************************************************************************)

Covered(document, tag) == tag # Nothing => Covers(document, tag)

\* The registry is as last published, and a refresh works on that very record.
RecordKept ==
    /\ rec.src = acked.src /\ rec.on = acked.on
    /\ sub.pc \in {"fetch", "write"} => Exists(sub.rec) /\ sub.kind # "delete"
    /\ sub.kind = "refresh" /\ sub.pc \in {"fetch", "write", "save"} =>
          /\ sub.rec.src = rec.src /\ sub.rec.on = rec.on
          /\ sub.pc = "fetch" => sub.rec.etag = rec.etag
    /\ sub.kind = "delete" /\ sub.pc = "save" => sub.rec.on = FALSE /\ sub.rec.etag = Nothing
    /\ sub.pc = "drop" => rec.on = FALSE /\ rec.etag = Nothing

\* Only the record of a URL has a validator.
Validated(r) == r.etag # Nothing => r.src \in Urls
KindKept == Validated(rec) /\ (sub.pc \in {"fetch", "write", "save"} => Validated(sub.rec))

\* The cache covers the validator in the registry until it is replaced, and the
\* one about to be saved once it was.
CachePaired ==
    "cache" \notin slips =>
        /\ ~(sub.pc = "save" /\ sub.changed) => Covered(cache, rec.etag)
        /\ sub.pc = "save" => Covered(cache, sub.rec.etag)

\* What a mutation of the profile keeps to roll back, and what it has written.
Rewritten == {"mirror", "tell", "wait"}
ProCopies ==
    /\ pro.pc \in {"fetch", "store"} => pro.old = profile.content
    /\ pro.pc \in {"fetch", "store", "meta"} => pro.was = profile.meta
    /\ pro.pc \in {"meta"} \union Rewritten => pro.got = profile.content
    /\ pro.pc \in Rewritten => active /\ profile.meta = IF pro.kind = "refresh" THEN pro.was ELSE pro.meta
    /\ pro.pc = "mirror" /\ pro.kind # "refresh" => pro.got # pro.old
    /\ pro.kind = "refresh" => pro.meta.url = pro.was.url /\ pro.meta.url # Nothing
    /\ pro.pc = "fetch" => pro.meta.url \in Urls /\ (pro.kind # "refresh" => pro.meta.etag = Nothing)
    /\ pro.pc = "fetch" /\ pro.kind = "refresh" => pro.meta = pro.was
    /\ pro.pc # "free" => pro.old \in Documents
    /\ pro.pc = "store" => pro.got \in Documents
    /\ pro.pc = "free" <=> pro.kind = "none"

\* The profile last published is the one on disk, or the one kept to roll back.
SameText(content) == acked.url = Nothing => content = acked.content
EditPublished ==
    "profile" \notin slips =>
        /\ pro.pc \notin Rewritten \/ pro.kind = "refresh" => profile.meta.url = acked.url
        /\ pro.pc = "free" => SameText(profile.content)
        /\ pro.pc \in {"fetch", "store", "meta", "mirror"} => SameText(pro.old)
        /\ pro.pc = "mirror" => pro.was.url = acked.url
        /\ pro.pc \in {"tell", "wait"} /\ pro.kind # "refresh" => acked.url = pro.meta.url /\ SameText(pro.got)

\* A validator is one of its URL's, no newer than what that serves.
Issued(m) == m.etag # Nothing => m.url \in Urls /\ m.etag[1] = m.url /\ m.etag[2] <= server[m.url]
ProValidators ==
    /\ Issued(profile.meta) /\ Issued(pro.meta) /\ Issued(pro.was)
    /\ pro.pc \in {"store", "meta"} \union Rewritten /\ ("profile" \notin slips \/ pro.kind # "refresh") =>
          Covered(pro.got, pro.meta.etag)
    /\ "profile" \notin slips =>
          /\ pro.pc \in {"free", "fetch", "store"} => Covered(profile.content, profile.meta.etag)
          /\ pro.pc \in {"meta", "mirror"} \/ (pro.pc \in {"tell", "wait"} /\ pro.kind = "refresh") =>
                Covered(pro.old, pro.was.etag)
          /\ pro.kind = "refresh" /\ pro.pc \in {"store", "meta"} \union Rewritten => Covered(pro.got, pro.was.etag)

\* The selected profile's mirror holds its content, but for the step between.
MirrorPaired ==
    active /\ "profile" \notin slips =>
        /\ pro.pc \in {"free", "tell", "wait"} => mirror = profile.content
        /\ pro.pc \in {"fetch", "store", "mirror"} => mirror = pro.old
        /\ pro.pc = "meta" => mirror = IF pro.kind = "refresh" THEN profile.content ELSE pro.old

\* The lifecycle operation serves its caller; only a core that runs can be held, and
\* only the panel's guarded restart has not stopped it yet.
LifeOwned ==
    /\ life.by = "sub" => sub.pc = "wait"
    /\ life.by = "pro" => pro.pc = "wait"
    /\ core.held => core.on
    /\ life.pc # "free" => core.held = FALSE
    /\ life.pc = "ensure" => life.rec.on = TRUE /\ life.rec.src \in Texts

\* A core that was told of every change, or is about to be, has what is stored;
\* so does a start that has read it.
SubUntold == sub.pc = "tell" \/ (sub.pc = "drop" /\ sub.changed)
LocalStored == rec.on /\ rec.src \in Texts => cache = <<rec.src, 0>>
Told ==
    "told" \notin slips =>
        /\ core.held = FALSE
        /\ pro.pc # "tell" => (life.pc = "free" /\ core.on => core.prof = mirror)
                             /\ (life.pc # "free" => life.prof = mirror)
        /\ ~SubUntold => (life.pc # "free" => life.rec.on = rec.on /\ (rec.on => life.rec.src = rec.src))
        /\ ~SubUntold /\ life.pc = "free" /\ core.on /\ ~rec.on => core.prov = Nothing
        /\ ~SubUntold /\ life.pc = "free" /\ core.on /\ rec.on /\ ~(sub.pc = "save" /\ sub.changed) =>
              core.prov = cache /\ LocalStored
        /\ ~SubUntold /\ life.pc = "start" /\ ~(sub.pc = "save" /\ sub.changed) => LocalStored

ProInv == ProCopies /\ EditPublished /\ ProValidators /\ MirrorPaired
RsInv == RsTypeOK /\ RecordKept /\ ProInv /\ LifeOwned /\ Told
CacheInv == KindKept /\ CachePaired

-----------------------------------------------------------------------------
(* What the parts of the state consist of, and which steps leave a part of  *)
(* the invariant alone.                                                     *)

\* The fields of the records, and the records that stand for nothing.
LEMMA RsFields ==
    ASSUME RsTypeOK
    PROVE  /\ rec.src \in SourceNames \union {Nothing, Gone} /\ rec.on \in BOOLEAN /\ rec.etag \in Maybe(Documents)
           /\ sub.rec \in Records /\ sub.rec.src \in SourceNames \union {Nothing, Gone}
           /\ sub.rec.on \in BOOLEAN /\ sub.rec.etag \in Maybe(Documents) /\ sub.changed \in BOOLEAN
           /\ profile.content \in Documents /\ profile.meta \in Metadata
           /\ profile.meta.url \in Maybe(Urls) /\ profile.meta.etag \in Maybe(Documents)
           /\ pro.meta \in Metadata /\ pro.was \in Metadata /\ pro.meta.url \in Maybe(Urls)
           /\ pro.meta.etag \in Maybe(Documents) /\ pro.got \in Maybe(Documents) /\ pro.old \in Maybe(Documents)
           /\ life.rec \in Records /\ life.rec.src \in SourceNames \union {Nothing, Gone} /\ life.rec.on \in BOOLEAN
           /\ life.prof \in Maybe(Documents)
BY DEF RsTypeOK, Records, SubOps, Metadata, ProOps, LifeOps

\* Nothing, free and off.
LEMMA Frees ==
    /\ NoRecord \in Records /\ NoRecord.src = Nothing /\ NoRecord.on = FALSE /\ NoRecord.etag = Nothing
    /\ NoMeta \in Metadata /\ NoMeta.url = Nothing /\ NoMeta.etag = Nothing
    /\ SubFree \in SubOps /\ SubFree.pc = "free" /\ SubFree.kind = "none"
    /\ ProFree \in ProOps /\ ProFree.pc = "free" /\ ProFree.kind = "none" /\ ProFree.meta = NoMeta
    /\ ProFree.was = NoMeta
    /\ LifeFree \in LifeOps /\ LifeFree.by = "none" /\ LifeFree.pc = "free" /\ LifeFree.rec = NoRecord
    /\ CoreOff \in Cores /\ CoreOff.on = FALSE /\ CoreOff.held = FALSE
<1>1. NoRecord \in Records /\ NoMeta \in Metadata
  BY DEF NoRecord, NoMeta, Records, Metadata, Maybe
<1>2. SubFree \in SubOps
  BY <1>1 DEF SubFree, SubOps
<1>3. ProFree \in ProOps
  BY <1>1 DEF ProFree, ProOps, Maybe
<1>4. LifeFree \in LifeOps
  BY <1>1 DEF LifeFree, LifeOps, Maybe
<1>5. CoreOff \in Cores
  BY DEF CoreOff, Cores, Maybe
<1> QED
  BY <1>1, <1>2, <1>3, <1>4, <1>5 DEF NoRecord, NoMeta, SubFree, ProFree, LifeFree, CoreOff

\* What a source serves is a document of its own.
LEMMA ServedType ==
    ASSUME RsTypeOK, NEW src \in SourceNames
    PROVE  Served(src) \in Documents /\ Served(src) # Nothing /\ Served(src)[1] = src
           /\ (src \in Urls => Served(src)[2] = server[src])
BY RsBoundAssumption, RsSourceAssumption DEF RsTypeOK, Served, Documents, SourceNames

\* A document covers itself.
LEMMA CoversItself == ASSUME NEW d \in Documents PROVE Covers(d, d) /\ d # Nothing
BY RsBoundAssumption, RsSourceAssumption DEF Documents, SourceNames, Covers

\* The counters stay within their bounds.
LEMMA RsCounted ==
    ASSUME RsTypeOK
    PROVE  /\ (Edit \/ edits' = edits => edits' \in 0 .. MaxEdits)
           /\ (Fault \/ faults' = faults => faults' \in 0 .. MaxFaults)
BY RsBoundAssumption DEF RsTypeOK, Edit, Fault

\* Steps of the subscription and of the lifecycle leave the profile alone.
LEMMA ProFrame ==
    ASSUME ProInv, UNCHANGED <<server, profile, mirror, pro, active>>,
           acked'.url = acked.url, acked'.content = acked.content, "profile" \in slips' <=> "profile" \in slips
    PROVE  ProInv'
BY DEF ProInv, ProCopies, Rewritten, EditPublished, SameText, ProValidators, Issued, Covered, Covers, MirrorPaired

\* Steps of the profile leave the subscription alone.
LEMMA RecordFrame ==
    ASSUME RecordKept, UNCHANGED <<rec, sub>>, acked'.src = acked.src, acked'.on = acked.on
    PROVE  RecordKept'
BY DEF RecordKept

\* Likewise for its cache.
LEMMA CacheFrame ==
    ASSUME CacheInv, UNCHANGED <<rec, cache, sub>>, "cache" \in slips => "cache" \in slips'
    PROVE  CacheInv'
BY DEF CacheInv, KindKept, Validated, CachePaired, Covered, Covers

\* A step that leaves what the core reads alone and tells no less than before.
LEMMA ToldFrame ==
    ASSUME Told, UNCHANGED <<rec, cache, mirror, life, core>>, pro.pc = "tell" => pro'.pc = "tell",
           SubUntold => SubUntold',
           sub.pc = "save" /\ sub.changed => SubUntold' \/ (sub'.pc = "save" /\ sub'.changed),
           "told" \in slips => "told" \in slips'
    PROVE  Told'
BY DEF Told, SubUntold, LocalStored

\* A mutation that takes service.mu.
LEMMA SubBegun ==
    ASSUME NEW kind \in {"create", "patch", "toggle", "delete", "refresh"},
           NEW r \in Records, NEW fetches \in BOOLEAN,
           SubBegin(kind, r, fetches)
    PROVE  /\ sub.pc = "free" /\ sub' \in SubOps
           /\ sub'.pc = (IF fetches THEN "fetch" ELSE "save") /\ sub'.kind = kind /\ sub'.rec = r
           /\ sub'.changed = FALSE
           /\ UNCHANGED <<server, rec, cache, profile, mirror, pro, life, core, active, acked, slips, faults>>
BY DEF SubBegin, SubOps, proVars, hostVars

\* It and the edits it is counted as.
LEMMA SubBegunType ==
    ASSUME RsTypeOK, sub' \in SubOps, due' \in [sub : Maybe(Records), pro : Maybe(Metadata)], edits' = edits \/ Edit,
           UNCHANGED <<server, rec, cache, profile, mirror, pro, life, core, active, acked, slips, faults>>
    PROVE  RsTypeOK'
<1>1. edits' \in 0 .. MaxEdits
  BY RsCounted
<1> QED
  BY <1>1 DEF RsTypeOK

\* A mutation that takes mutationMu.
LEMMA ProBegun ==
    ASSUME NEW kind \in {"patch", "text", "refresh"}, NEW m \in Metadata, NEW g \in Maybe(Documents),
           NEW pc \in {"fetch", "store"}, profile \in [content : Documents, meta : Metadata], ProBegin(kind, m, g, pc)
    PROVE  /\ pro.pc = "free" /\ pro' \in ProOps /\ pro'.pc = pc /\ pro'.kind = kind /\ pro'.meta = m
           /\ pro'.was = profile.meta /\ pro'.got = g /\ pro'.old = profile.content
           /\ UNCHANGED <<server, rec, cache, sub, profile, mirror, life, core, active, acked, slips, faults>>
BY DEF ProBegin, ProOps, Maybe, subVars, hostVars

\* What a server publishes only becomes newer.
LEMMA IssuedLater ==
    ASSUME server \in [Urls -> 0 .. MaxVersion], server' \in [Urls -> 0 .. MaxVersion],
           \A u \in Urls : server[u] <= server'[u], NEW m \in Metadata, Issued(m), m.etag # Nothing
    PROVE  m.url \in Urls /\ m.etag[1] = m.url /\ m.etag[2] <= server'[m.url]
<1>1. m.etag \in Documents /\ m.url \in Urls
  BY DEF Metadata, Maybe, Issued
<1>2. m.etag[2] \in Int /\ server[m.url] \in Int /\ server'[m.url] \in Int
  BY <1>1, RsBoundAssumption DEF Documents
<1> QED
  BY <1>1, <1>2 DEF Issued

\* What a start or a restart reads.
LEMMA PreparedType ==
    ASSUME rec \in Records, mirror \in Maybe(Documents), NEW by \in {"panel", "sub", "pro"}, life' = Prepared(by)
    PROVE  /\ life' \in LifeOps /\ life'.by = by /\ life'.rec = rec /\ life'.prof = mirror
           /\ life'.pc = (IF rec.on /\ rec.src \in Texts THEN "ensure" ELSE "start")
BY DEF Prepared, LifeOps

\* How a mutation of the profile goes on behind its restart.
LEMMA Resumed ==
    ASSUME pro \in ProOps, pro' = ProResumes
    PROVE  /\ pro' \in ProOps
           /\ \/ /\ pro.kind = "refresh" /\ pro'.pc = "meta" /\ pro'.kind = pro.kind /\ pro'.meta = pro.meta
                 /\ pro'.was = pro.was /\ pro'.got = pro.got /\ pro'.old = pro.old
              \/ pro.kind # "refresh" /\ pro' = ProFree
<1>1. CASE pro.kind = "refresh"
  <2>1. pro' = [pro EXCEPT !.pc = "meta"]
    BY <1>1 DEF ProResumes
  <2> QED
    BY <1>1, <2>1 DEF ProOps
<1>2. CASE pro.kind # "refresh"
  BY <1>2, Frees DEF ProResumes
<1> QED
  BY <1>1, <1>2

\* A mutation of the profile that ends leaves the profile as one of its edits.
LEMMA ProEnds ==
    ASSUME ProInv, pro \in ProOps, profile \in [content : Documents, meta : Metadata],
           UNCHANGED <<server, profile, mirror, active, acked>>,
           pro'.pc = "free", pro'.kind = "none", pro'.meta.etag = Nothing, pro'.was.etag = Nothing,
           "profile" \notin slips' =>
               "profile" \notin slips /\ ~(pro.pc \in {"meta", "mirror"} /\ pro.got # pro.old)
    PROVE  ProInv'
<1>1. ProCopies /\ EditPublished /\ ProValidators /\ MirrorPaired
  BY DEF ProInv
<1>2. ProCopies'
  BY DEF ProCopies, Rewritten
<1>3. Issued(profile.meta)' /\ Issued(pro.meta)' /\ Issued(pro.was)'
  BY <1>1 DEF ProValidators, Issued
<1>4. CASE "profile" \in slips'
  BY <1>2, <1>3, <1>4 DEF ProInv, EditPublished, ProValidators, MirrorPaired, Rewritten
<1>5. CASE "profile" \notin slips'
  <2>1. "profile" \notin slips
    BY <1>5
  <2>2. profile.meta.url = acked.url
    BY <1>1, <1>5, <2>1 DEF EditPublished, ProCopies, Rewritten
  <2>3. SameText(profile.content)
    <3>1. CASE pro.pc \in {"free", "fetch", "store"}
      BY <1>1, <2>1, <3>1 DEF EditPublished, ProCopies
    <3>2. CASE pro.pc \in {"meta", "mirror"}
      BY <1>1, <1>5, <2>1, <3>2 DEF EditPublished, ProCopies, Rewritten
    <3>3. CASE pro.pc \in {"tell", "wait"}
      BY <1>1, <2>1, <2>2, <3>3 DEF EditPublished, ProCopies, Rewritten, SameText
    <3> QED
      BY <3>1, <3>2, <3>3 DEF ProOps
  <2>4. Covered(profile.content, profile.meta.etag)
    <3>1. CASE pro.pc \in {"free", "fetch", "store"}
      BY <1>1, <2>1, <3>1 DEF ProValidators
    <3>2. CASE pro.pc = "meta"
      BY <1>1, <1>5, <2>1, <3>2 DEF ProValidators, ProCopies
    <3>3. CASE pro.pc \in Rewritten
      <4>1. CASE pro.kind = "refresh"
        BY <1>1, <2>1, <3>3, <4>1 DEF ProValidators, ProCopies
      <4>2. CASE pro.kind # "refresh"
        BY <1>1, <2>1, <3>3, <4>2 DEF ProValidators, ProCopies
      <4> QED
        BY <4>1, <4>2
    <3> QED
      BY <3>1, <3>2, <3>3 DEF ProOps, Rewritten
  <2>5. active => mirror = profile.content
    BY <1>1, <1>5, <2>1 DEF MirrorPaired, ProCopies, Rewritten, ProOps
  <2> QED
    BY <1>2, <1>3, <2>2, <2>3, <2>4, <2>5
    DEF ProInv, EditPublished, ProValidators, MirrorPaired, Rewritten, SameText, Covered, Covers
<1> QED
  BY <1>4, <1>5

\* A refresh goes on behind its restart.
LEMMA ProGoesOn ==
    ASSUME ProInv, pro.pc \in {"tell", "wait"}, pro.kind = "refresh",
           UNCHANGED <<server, profile, mirror, active, acked, slips>>,
           pro'.pc = "meta", pro'.kind = pro.kind, pro'.meta = pro.meta, pro'.was = pro.was,
           pro'.got = pro.got, pro'.old = pro.old
    PROVE  ProInv'
<1>1. ProCopies /\ EditPublished /\ ProValidators /\ MirrorPaired
  BY DEF ProInv
<1>2. profile.meta = pro.was /\ pro.was.url # Nothing /\ pro.got = profile.content
  BY <1>1 DEF ProCopies, Rewritten
<1>3. ProCopies'
  BY <1>1, <1>2 DEF ProCopies, Rewritten
<1>4. EditPublished'
  BY <1>1, <1>2 DEF EditPublished, SameText, Rewritten
<1>5. ProValidators'
  BY <1>1, <1>2 DEF ProValidators, Rewritten, Issued, Covered, Covers
<1>6. MirrorPaired'
  BY <1>1 DEF MirrorPaired
<1> QED
  BY <1>3, <1>4, <1>5, <1>6 DEF ProInv

\* Steps of the subscription keep the invariant.
LEMMA SubSteps ==
    ASSUME RsInv,
           \/ (\E src \in SourceNames : SubCreate(src)) \/ (\E src \in SourceNames : SubPatch(src))
           \/ SubToggle \/ SubDelete \/ (\E by \in {"user", "sched"} : SubRefresh(by)) \/ SubListed
           \/ SubRefreshMissing \/ SubFetched \/ SubFetchFails \/ SubWrite \/ SubWriteFails \/ SubSave
           \/ SubSaveFails \/ SubDrop \/ SubDropFails
    PROVE  RsInv'
<1>a. RsTypeOK /\ RecordKept /\ ProInv /\ LifeOwned /\ Told
  BY DEF RsInv
<1>b. /\ rec \in Records /\ sub \in SubOps /\ pro \in ProOps /\ life \in LifeOps /\ core \in Cores
      /\ profile \in [content : Documents, meta : Metadata]
  BY <1>a DEF RsTypeOK
<1>d. ProCopies /\ EditPublished /\ ProValidators /\ MirrorPaired
  BY <1>a DEF ProInv
<1>c. edits' = edits \/ Edit => edits' \in 0 .. MaxEdits
  BY <1>a, RsCounted
<1>1. ASSUME NEW src \in SourceNames, SubCreate(src) PROVE RsInv'
  <2>1. [src |-> src, on |-> TRUE, etag |-> Nothing] \in Records
    BY DEF Records, Maybe
  <2>2. /\ sub.pc = "free" /\ sub' \in SubOps /\ sub'.pc = "fetch" /\ sub'.kind = "create"
        /\ sub'.rec = [src |-> src, on |-> TRUE, etag |-> Nothing]
        /\ sub'.changed = FALSE
        /\ UNCHANGED <<server, rec, cache, profile, mirror, pro, life, core, active, acked, slips, faults>>
    BY <1>1, <2>1, SubBegun DEF SubCreate, SubLoaded
  <2>3. due' \in [sub : Maybe(Records), pro : Maybe(Metadata)] /\ (edits' = edits \/ Edit)
    BY <1>1, <1>a DEF SubCreate, RsTypeOK, Maybe, Edit
  <2>4. RsTypeOK'
    BY <1>a, <2>2, <2>3, SubBegunType
  <2>5. RecordKept'
    BY <1>a, <1>b, <2>2 DEF RecordKept, Exists, Records
  <2>6. ProInv'
    BY <1>a, <2>2, ProFrame
  <2>7. LifeOwned'
    BY <1>a, <2>2 DEF LifeOwned
  <2>8. Told'
    BY <1>a, <2>2, ToldFrame DEF SubUntold
  <2> QED
    BY <2>4, <2>5, <2>6, <2>7, <2>8 DEF RsInv
<1>2. ASSUME NEW src \in SourceNames, SubPatch(src) PROVE RsInv'
  <2>1. [rec EXCEPT !.src = src, !.etag = Nothing] \in Records
    BY <1>b DEF Records, Maybe
  <2>2. /\ sub.pc = "free" /\ sub' \in SubOps /\ sub'.pc = "fetch" /\ sub'.kind = "patch"
        /\ sub'.rec = [rec EXCEPT !.src = src, !.etag = Nothing]
        /\ sub'.changed = FALSE
        /\ UNCHANGED <<server, rec, cache, profile, mirror, pro, life, core, active, acked, slips, faults>>
    BY <1>2, <2>1, SubBegun DEF SubPatch, SubLoaded
  <2>3. due' \in [sub : Maybe(Records), pro : Maybe(Metadata)] /\ (edits' = edits \/ Edit)
    BY <1>2, <1>a DEF SubPatch, RsTypeOK, Maybe, Edit
  <2>4. RsTypeOK'
    BY <1>a, <2>2, <2>3, SubBegunType
  <2>5. RecordKept'
    BY <1>a, <1>b, <2>2 DEF RecordKept, Exists, Records
  <2>6. ProInv'
    BY <1>a, <2>2, ProFrame
  <2>7. LifeOwned'
    BY <1>a, <2>2 DEF LifeOwned
  <2>8. Told'
    BY <1>a, <2>2, ToldFrame DEF SubUntold
  <2> QED
    BY <2>4, <2>5, <2>6, <2>7, <2>8 DEF RsInv
<1>3. CASE SubToggle
  <2>1. [rec EXCEPT !.on = ~@] \in Records
    BY <1>b DEF Records, Maybe
  <2>2. /\ sub.pc = "free" /\ sub' \in SubOps /\ sub'.pc = "save" /\ sub'.kind = "toggle"
        /\ sub'.rec = [rec EXCEPT !.on = ~@]
        /\ sub'.changed = FALSE
        /\ UNCHANGED <<server, rec, cache, profile, mirror, pro, life, core, active, acked, slips, faults>>
    BY <1>3, <2>1, SubBegun DEF SubToggle, SubLoaded
  <2>3. due' \in [sub : Maybe(Records), pro : Maybe(Metadata)] /\ (edits' = edits \/ Edit)
    BY <1>3, <1>a DEF SubToggle, RsTypeOK, Maybe, Edit
  <2>4. RsTypeOK'
    BY <1>a, <2>2, <2>3, SubBegunType
  <2>5. RecordKept'
    BY <1>a, <2>2 DEF RecordKept
  <2>6. ProInv'
    BY <1>a, <2>2, ProFrame
  <2>7. LifeOwned'
    BY <1>a, <2>2 DEF LifeOwned
  <2>8. Told'
    BY <1>a, <2>2, ToldFrame DEF SubUntold
  <2> QED
    BY <2>4, <2>5, <2>6, <2>7, <2>8 DEF RsInv
<1>4. CASE SubDelete
  <2>1. [NoRecord EXCEPT !.src = Gone] \in Records
    BY DEF NoRecord, Records, Maybe
  <2>2. /\ sub.pc = "free" /\ sub' \in SubOps /\ sub'.pc = "save" /\ sub'.kind = "delete"
        /\ sub'.rec = [NoRecord EXCEPT !.src = Gone]
        /\ sub'.changed = FALSE
        /\ UNCHANGED <<server, rec, cache, profile, mirror, pro, life, core, active, acked, slips, faults>>
    BY <1>4, <2>1, SubBegun DEF SubDelete, SubLoaded
  <2>3. due' \in [sub : Maybe(Records), pro : Maybe(Metadata)] /\ (edits' = edits \/ Edit)
    BY <1>4, <1>a DEF SubDelete, RsTypeOK, Maybe, Edit
  <2>4. RsTypeOK'
    BY <1>a, <2>2, <2>3, SubBegunType
  <2>5. RecordKept'
    BY <1>a, <2>2 DEF RecordKept, NoRecord
  <2>6. ProInv'
    BY <1>a, <2>2, ProFrame
  <2>7. LifeOwned'
    BY <1>a, <2>2 DEF LifeOwned
  <2>8. Told'
    BY <1>a, <2>2, ToldFrame DEF SubUntold
  <2> QED
    BY <2>4, <2>5, <2>6, <2>7, <2>8 DEF RsInv
<1>5. ASSUME NEW by \in {"user", "sched"}, SubRefresh(by) PROVE RsInv'
  <2>1. rec \in Records
    BY <1>b
  <2>2. /\ sub.pc = "free" /\ sub' \in SubOps /\ sub'.pc = "fetch" /\ sub'.kind = "refresh" /\ sub'.rec = rec
        /\ sub'.changed = FALSE
        /\ UNCHANGED <<server, rec, cache, profile, mirror, pro, life, core, active, acked, slips, faults>>
    BY <1>5, <2>1, SubBegun DEF SubRefresh, SubLoaded
  <2>3. due' \in [sub : Maybe(Records), pro : Maybe(Metadata)] /\ (edits' = edits \/ Edit)
    BY <1>5, <1>a DEF SubRefresh, RsTypeOK, Maybe, Edit
  <2>4. RsTypeOK'
    BY <1>a, <2>2, <2>3, SubBegunType
  <2>5. RecordKept'
    BY <1>5, <1>a, <2>2 DEF SubRefresh, SubLoaded, RecordKept, Exists
  <2>6. ProInv'
    BY <1>a, <2>2, ProFrame
  <2>7. LifeOwned'
    BY <1>a, <2>2 DEF LifeOwned
  <2>8. Told'
    BY <1>a, <2>2, ToldFrame DEF SubUntold
  <2> QED
    BY <2>4, <2>5, <2>6, <2>7, <2>8 DEF RsInv
<1>6. CASE SubListed
  <2>1. RsTypeOK'
    BY <1>6, <1>a DEF SubListed, subVars, proVars, hostVars, RsTypeOK, Maybe
  <2>2. RecordKept'
    BY <1>6, <1>a, RecordFrame DEF SubListed, subVars
  <2>3. ProInv'
    BY <1>6, <1>a, ProFrame DEF SubListed, proVars
  <2>4. LifeOwned'
    BY <1>6, <1>a DEF SubListed, subVars, proVars, hostVars, LifeOwned
  <2>5. Told'
    BY <1>6, <1>a, ToldFrame DEF SubListed, subVars, proVars, hostVars, SubUntold
  <2> QED
    BY <2>1, <2>2, <2>3, <2>4, <2>5 DEF RsInv
<1>7. CASE SubRefreshMissing
  <2>1. RsTypeOK'
    BY <1>7, <1>a DEF SubRefreshMissing, subVars, proVars, hostVars, RsTypeOK, Maybe
  <2>2. RecordKept'
    BY <1>7, <1>a, RecordFrame DEF SubRefreshMissing, subVars
  <2>3. ProInv'
    BY <1>7, <1>a, ProFrame DEF SubRefreshMissing, proVars
  <2>4. LifeOwned'
    BY <1>7, <1>a DEF SubRefreshMissing, subVars, proVars, hostVars, LifeOwned
  <2>5. Told'
    BY <1>7, <1>a, ToldFrame DEF SubRefreshMissing, subVars, proVars, hostVars, SubUntold
  <2> QED
    BY <2>1, <2>2, <2>3, <2>4, <2>5 DEF RsInv
<1>8. CASE SubFetched
  <2>1. sub.pc = "fetch" /\ UNCHANGED <<server, profile, mirror, pro, active, due, edits, life, core>>
    BY <1>8 DEF SubFetched, SubStep, proVars, hostVars
  <2>2. faults' = faults \/ Fault => faults' \in 0 .. MaxFaults
    BY <1>a, RsCounted
  <2>3. /\ sub' \in SubOps /\ sub'.kind = sub.kind /\ sub'.changed = sub.changed
        /\ sub'.rec.src = sub.rec.src /\ sub'.rec.on = sub.rec.on
        /\ \/ /\ sub'.pc = "save" /\ sub'.rec = sub.rec /\ sub.kind = "refresh"
              /\ sub.rec.src \in Urls /\ sub.rec.etag = Served(sub.rec.src)
           \/ sub'.pc = "write" /\ sub'.rec.etag = IF sub.rec.src \in Urls THEN Served(sub.rec.src) ELSE Nothing
    <3>1. CASE sub.kind = "refresh" /\ sub.rec.src \in Urls /\ sub.rec.etag = Served(sub.rec.src)
      <4>1. sub' = [sub EXCEPT !.pc = "save"]
        BY <1>8, <3>1 DEF SubFetched
      <4> QED
        BY <1>b, <3>1, <4>1 DEF SubOps
    <3>2. CASE ~(sub.kind = "refresh" /\ sub.rec.src \in Urls /\ sub.rec.etag = Served(sub.rec.src))
      <4> DEFINE tag == IF sub.rec.src \in Urls THEN Served(sub.rec.src) ELSE Nothing
      <4>1. sub' = [sub EXCEPT !.pc = "write", !.rec.etag = tag]
        BY <1>8, <3>2 DEF SubFetched
      <4>2. tag \in Maybe(Documents)
        BY <1>a, ServedType DEF SourceNames, Maybe
      <4>3. [sub.rec EXCEPT !.etag = tag] \in Records
        BY <1>b, <4>2 DEF SubOps, Records
      <4> QED
        BY <1>b, <4>1, <4>3 DEF SubOps, Records
    <3> QED
      BY <3>1, <3>2
  <2>4. RsTypeOK'
    BY <1>8, <1>a, <2>1, <2>2, <2>3, Frees DEF SubFetched, RsTypeOK, Maybe
  <2>5. RecordKept'
    BY <1>8, <1>a, <2>1, <2>3 DEF SubFetched, RecordKept, Exists
  <2>6. ProInv'
    BY <1>8, <1>a, <2>1, ProFrame DEF SubFetched
  <2>7. LifeOwned'
    BY <1>a, <2>1 DEF LifeOwned
  <2>8. Told'
    BY <1>8, <1>a, <2>1, <2>3, ToldFrame DEF SubFetched, SubUntold
  <2> QED
    BY <2>4, <2>5, <2>6, <2>7, <2>8 DEF RsInv
<1>9. CASE SubFetchFails
  <2>1. sub.pc = "fetch" /\ UNCHANGED <<server, profile, mirror, pro, active, due, edits, life, core>>
    BY <1>9 DEF SubFetchFails, SubStep, proVars, hostVars
  <2>2. faults' = faults \/ Fault => faults' \in 0 .. MaxFaults
    BY <1>a, RsCounted
  <2>3. sub' = SubFree /\ sub' \in SubOps /\ sub'.pc = "free" /\ sub'.kind = "none"
    BY <1>9, Frees DEF SubFetchFails
  <2>4. RsTypeOK'
    BY <1>9, <1>a, <2>1, <2>2, <2>3, Frees DEF SubFetchFails, RsTypeOK, Maybe
  <2>5. RecordKept'
    BY <1>9, <1>a, <2>1, <2>3 DEF SubFetchFails, RecordKept
  <2>6. ProInv'
    BY <1>9, <1>a, <2>1, ProFrame DEF SubFetchFails
  <2>7. LifeOwned'
    BY <1>a, <2>1 DEF LifeOwned
  <2>8. Told'
    BY <1>9, <1>a, <2>1, <2>3, ToldFrame DEF SubFetchFails, SubUntold
  <2> QED
    BY <2>4, <2>5, <2>6, <2>7, <2>8 DEF RsInv
<1>10. CASE SubWrite
  <2>1. sub.pc = "write" /\ UNCHANGED <<server, profile, mirror, pro, active, due, edits, life, core>>
    BY <1>10 DEF SubWrite, SubStep, proVars, hostVars
  <2>2. /\ sub' \in SubOps /\ sub'.pc = "save" /\ sub'.kind = sub.kind /\ sub'.rec = sub.rec
        /\ cache' = SubGot /\ UNCHANGED <<rec, acked, slips, faults>>
    BY <1>10, <1>b DEF SubWrite, SubOps
  <2>3. sub'.changed = TRUE \/ (sub'.changed = FALSE /\ cache' = cache)
    BY <1>10, <1>b DEF SubWrite, SubOps
  <2>4. RsTypeOK'
    <3>1. cache' \in Maybe(Documents)
      BY <1>a, <2>1, <2>2, RsFields, ServedType DEF SubGot, RecordKept, Exists, Maybe
    <3> QED
      BY <1>a, <2>1, <2>2, <3>1 DEF RsTypeOK
  <2>5. RecordKept'
    BY <1>a, <2>1, <2>2 DEF RecordKept, Exists
  <2>6. ProInv'
    BY <1>10, <1>a, <2>1, ProFrame DEF SubWrite
  <2>7. LifeOwned'
    BY <1>a, <2>1 DEF LifeOwned
  <2>8. Told'
    BY <1>a, <2>1, <2>2, <2>3 DEF Told, LifeOwned, SubUntold, LocalStored
  <2> QED
    BY <2>4, <2>5, <2>6, <2>7, <2>8 DEF RsInv
<1>11. CASE SubWriteFails
  <2>1. sub.pc = "write" /\ UNCHANGED <<server, profile, mirror, pro, active, due, edits, life, core>>
    BY <1>11 DEF SubWriteFails, SubStep, proVars, hostVars
  <2>2. faults' = faults \/ Fault => faults' \in 0 .. MaxFaults
    BY <1>a, RsCounted
  <2>3. /\ sub' \in SubOps /\ slips' \in {slips, slips \union {"cache"}}
        /\ \/ sub'.pc = "free" /\ sub'.kind = "none"
           \/ /\ sub'.pc = "save" /\ sub'.kind = sub.kind /\ sub'.rec = sub.rec /\ sub'.changed = sub.changed
              /\ sub.kind = "refresh" /\ "cache" \in slips'
    BY <1>11, <1>b, Frees DEF SubWriteFails, SubOps
  <2>4. RsTypeOK'
    <3>1. slips' \subseteq {"told", "cache", "profile"} /\ sub' \in SubOps
      BY <1>a, <2>3 DEF RsTypeOK
    <3>2. faults' \in 0 .. MaxFaults /\ UNCHANGED <<rec, cache, acked>>
      BY <1>11, <2>2 DEF SubWriteFails
    <3> QED
      BY <1>a, <2>1, <3>1, <3>2 DEF RsTypeOK
  <2>5. RecordKept'
    BY <1>11, <1>a, <2>1, <2>3 DEF SubWriteFails, RecordKept
  <2>6. ProInv'
    BY <1>11, <1>a, <2>1, ProFrame DEF SubWriteFails
  <2>7. LifeOwned'
    BY <1>a, <2>1 DEF LifeOwned
  <2>8. Told'
    BY <1>11, <1>a, <2>1, <2>3, ToldFrame DEF SubWriteFails, SubUntold
  <2> QED
    BY <2>4, <2>5, <2>6, <2>7, <2>8 DEF RsInv
<1>12. CASE SubSave
  <2>1. sub.pc = "save" /\ UNCHANGED <<server, profile, mirror, pro, active, due, edits, life, core>>
    BY <1>12 DEF SubSave, SubStep, proVars, hostVars
  <2>2. faults' = faults \/ Fault => faults' \in 0 .. MaxFaults
    BY <1>a, RsCounted
  <2>3. sub.rec \in Records /\ sub.rec.on \in BOOLEAN /\ rec.on \in BOOLEAN
    BY <1>b DEF SubOps, Records
  <2>4. /\ sub' \in SubOps /\ rec' = sub.rec
        /\ \/ /\ sub.kind = "delete" /\ sub'.kind = "delete" /\ sub'.pc = "drop" /\ sub'.changed = SubTells
           \/ sub.kind # "delete" /\ SubTells /\ sub'.pc = "tell"
           \/ sub.kind # "delete" /\ ~SubTells /\ sub'.pc = "free" /\ sub'.kind = "none"
    <3>1. SubTells \in BOOLEAN
      BY <1>b, <2>3 DEF SubTells, SubOps
    <3>2. CASE sub.kind = "delete"
      BY <1>12, <1>b, <3>1, <3>2 DEF SubSave, SubOps
    <3>3. CASE sub.kind # "delete" /\ SubTells
      BY <1>12, <1>b, <3>3 DEF SubSave, SubOps
    <3>4. CASE sub.kind # "delete" /\ ~SubTells
      BY <1>12, <3>4, Frees DEF SubSave
    <3> QED
      BY <3>2, <3>3, <3>4
  <2>5. /\ acked' \in Acks /\ acked'.src = sub.rec.src /\ acked'.on = sub.rec.on
        /\ acked'.url = acked.url /\ acked'.content = acked.content
    <3>1. acked \in Acks
      BY <1>a DEF RsTypeOK
    <3>2. CASE sub.kind = "refresh"
      BY <1>12, <1>a, <2>1, <3>1, <3>2 DEF SubSave, RecordKept
    <3>3. CASE sub.kind # "refresh"
      BY <1>12, <2>3, <3>1, <3>3 DEF SubSave, Acks, Records
    <3> QED
      BY <3>2, <3>3
  <2>6. RsTypeOK'
    BY <1>12, <1>a, <2>1, <2>2, <2>3, <2>4, <2>5 DEF SubSave, RsTypeOK
  <2>7. RecordKept'
    BY <1>12, <1>a, <2>1, <2>3, <2>4, <2>5 DEF SubSave, RecordKept
  <2>8. ProInv'
    BY <1>12, <1>a, <2>1, <2>5, ProFrame DEF SubSave
  <2>9. LifeOwned'
    BY <1>a, <2>1 DEF LifeOwned
  <2>10. Told'
    BY <1>12, <1>a, <1>b, <1>c, <2>1, <2>2, <2>3, <2>4, <2>5
    DEF SubSave, Unnoticed, SubStep, subVars, proVars, hostVars, SubTells, Told, LifeOwned, RecordKept,
        SubUntold, LocalStored
  <2> QED
    BY <2>6, <2>7, <2>8, <2>9, <2>10 DEF RsInv
<1>13. CASE SubSaveFails
  <2>1. sub.pc = "save" /\ UNCHANGED <<server, profile, mirror, pro, active, due, edits, life, core>>
    BY <1>13 DEF SubSaveFails, SubStep, proVars, hostVars
  <2>2. faults' = faults \/ Fault => faults' \in 0 .. MaxFaults
    BY <1>a, RsCounted
  <2>3. sub' = SubFree /\ sub' \in SubOps /\ sub'.pc = "free" /\ sub'.kind = "none"
    BY <1>13, Frees DEF SubSaveFails
  <2>4. RsTypeOK'
    BY <1>13, <1>a, <2>1, <2>2, <2>3, Frees DEF SubSaveFails, RsTypeOK, Maybe
  <2>5. RecordKept'
    BY <1>13, <1>a, <2>1, <2>3 DEF SubSaveFails, RecordKept
  <2>6. ProInv'
    BY <1>13, <1>a, <2>1, ProFrame DEF SubSaveFails
  <2>7. LifeOwned'
    BY <1>a, <2>1 DEF LifeOwned
  <2>8. Told'
    BY <1>13, <1>a, <1>b, <1>c, <2>1, <2>2, <2>3
    DEF SubSaveFails, SubStep, subVars, proVars, hostVars, Told, LifeOwned, RecordKept, SubUntold, LocalStored
  <2> QED
    BY <2>4, <2>5, <2>6, <2>7, <2>8 DEF RsInv
<1>14. CASE SubDrop
  <2>1. sub.pc = "drop" /\ UNCHANGED <<server, profile, mirror, pro, active, due, edits, life, core>>
    BY <1>14 DEF SubDrop, SubStep, proVars, hostVars
  <2>2. faults' = faults \/ Fault => faults' \in 0 .. MaxFaults
    BY <1>a, RsCounted
  <2>3. /\ cache' = Nothing /\ sub' \in SubOps
        /\ IF sub.changed THEN sub'.pc = "tell" ELSE sub'.pc = "free" /\ sub'.kind = "none"
    <3>1. CASE sub.changed
      <4>1. sub' = [sub EXCEPT !.pc = "tell"]
        BY <1>14, <3>1 DEF SubDrop
      <4> QED
        BY <1>14, <1>b, <3>1, <4>1 DEF SubDrop, SubOps
    <3>2. CASE ~sub.changed
      <4>1. sub' = SubFree
        BY <1>14, <3>2 DEF SubDrop
      <4> QED
        BY <1>14, <3>2, <4>1, Frees DEF SubDrop
    <3> QED
      BY <3>1, <3>2
  <2>4. RsTypeOK'
    BY <1>14, <1>a, <2>1, <2>2, <2>3, Frees DEF SubDrop, RsTypeOK, Maybe
  <2>5. RecordKept'
    BY <1>14, <1>a, <2>1, <2>3 DEF SubDrop, RecordKept
  <2>6. ProInv'
    BY <1>14, <1>a, <2>1, ProFrame DEF SubDrop
  <2>7. LifeOwned'
    BY <1>a, <2>1 DEF LifeOwned
  <2>8. Told'
    BY <1>14, <1>a, <1>b, <1>c, <2>1, <2>2, <2>3
    DEF SubDrop, SubStep, subVars, proVars, hostVars, Told, LifeOwned, RecordKept, SubUntold, LocalStored
  <2> QED
    BY <2>4, <2>5, <2>6, <2>7, <2>8 DEF RsInv
<1>15. CASE SubDropFails
  <2>1. sub.pc = "drop" /\ UNCHANGED <<server, profile, mirror, pro, active, due, edits, life, core>>
    BY <1>15 DEF SubDropFails, SubStep, proVars, hostVars
  <2>2. faults' \in 0 .. MaxFaults /\ UNCHANGED <<rec, cache, acked>>
    BY <1>15, <1>a, RsCounted DEF SubDropFails
  <2>3. sub' = SubFree /\ sub' \in SubOps /\ sub'.pc = "free" /\ sub'.kind = "none"
    BY <1>15, Frees DEF SubDropFails
  <2>4. slips' = (IF sub.changed THEN slips \union {"told"} ELSE slips)
    BY <1>15 DEF SubDropFails
  <2>5. RsTypeOK'
    BY <1>a, <2>1, <2>2, <2>3, <2>4 DEF RsTypeOK
  <2>6. RecordKept'
    BY <1>a, <2>1, <2>2, <2>3 DEF RecordKept
  <2>7. ProInv'
    BY <1>a, <2>1, <2>2, <2>4, ProFrame
  <2>8. LifeOwned'
    BY <1>a, <2>1 DEF LifeOwned
  <2>9. Told'
    BY <1>a, <1>b, <2>1, <2>2, <2>3, <2>4 DEF Told, SubUntold, LocalStored
  <2> QED
    BY <2>5, <2>6, <2>7, <2>8, <2>9 DEF RsInv
<1> QED
  BY <1>1, <1>2, <1>3, <1>4, <1>5, <1>6, <1>7, <1>8, <1>9, <1>10, <1>11, <1>12, <1>13, <1>14, <1>15

\* Steps of the profile and of the remote servers keep it.
LEMMA ProSteps ==
    ASSUME RsInv,
           \/ (\E u \in Urls : Publish(u)) \/ (\E u \in Urls : ProPatch(u)) \/ (\E t \in Texts : ProText(t))
           \/ ProDetach \/ ProListed \/ (\E by \in {"user", "sched"} : ProRefresh(by)) \/ ProRefreshLocal
           \/ ProFetched \/ ProFetchFails \/ ProStore \/ ProMeta \/ ProMetaFails \/ ProMirror
           \/ ProMirrorFails
    PROVE  RsInv'
<1>a. RsTypeOK /\ RecordKept /\ ProInv /\ LifeOwned /\ Told
  BY DEF RsInv
<1>b. /\ rec \in Records /\ sub \in SubOps /\ pro \in ProOps /\ life \in LifeOps /\ core \in Cores
      /\ profile \in [content : Documents, meta : Metadata]
  BY <1>a DEF RsTypeOK
<1>d. ProCopies /\ EditPublished /\ ProValidators /\ MirrorPaired
  BY <1>a DEF ProInv
<1>c. edits' = edits \/ Edit => edits' \in 0 .. MaxEdits
  BY <1>a, RsCounted
<1>1. ASSUME NEW u \in Urls, Publish(u) PROVE RsInv'
  <2>1. server' \in [Urls -> 0 .. MaxVersion] /\ \A v \in Urls : server[v] <= server'[v]
    BY <1>1, <1>a, RsBoundAssumption DEF Publish, RsTypeOK
  <2>2. UNCHANGED <<rec, cache, sub, profile, mirror, pro, life, core, active, due, acked, slips, edits, faults>>
    BY <1>1 DEF Publish, subVars, proVars, hostVars
  <2>3. \A m \in Metadata :
          Issued(m) /\ m.etag # Nothing => m.url \in Urls /\ m.etag[1] = m.url /\ m.etag[2] <= server'[m.url]
    BY <1>a, <2>1, IssuedLater DEF RsTypeOK
  <2>4. profile.meta \in Metadata /\ pro.meta \in Metadata /\ pro.was \in Metadata
    BY <1>b DEF ProOps
  <2>5. (Issued(profile.meta) /\ Issued(pro.meta) /\ Issued(pro.was))'
    BY <1>d, <2>2, <2>3, <2>4 DEF ProValidators, Issued
  <2>6. RsTypeOK'
    BY <1>a, <2>1, <2>2 DEF RsTypeOK
  <2>7. RecordKept'
    BY <1>a, <2>2, RecordFrame
  <2>8. ProInv'
    <3>1. ProCopies'
      BY <1>d, <2>2 DEF ProCopies, Rewritten, EditPublished, SameText, MirrorPaired
    <3>2. EditPublished'
      BY <1>d, <2>2 DEF ProCopies, Rewritten, EditPublished, SameText, MirrorPaired
    <3>3. ProValidators'
      BY <1>d, <2>2, <2>5 DEF ProValidators, Rewritten, Covered, Covers
    <3>4. MirrorPaired'
      BY <1>d, <2>2 DEF ProCopies, Rewritten, EditPublished, SameText, MirrorPaired
    <3> QED
      BY <3>1, <3>2, <3>3, <3>4 DEF ProInv
  <2>9. LifeOwned'
    BY <1>a, <2>2 DEF LifeOwned
  <2>10. Told'
    BY <1>a, <2>2, ToldFrame DEF SubUntold
  <2> QED
    BY <2>6, <2>7, <2>8, <2>9, <2>10 DEF RsInv
<1>2. ASSUME NEW u \in Urls, ProPatch(u) PROVE RsInv'
  <2>1. [url |-> u, etag |-> Nothing] \in Metadata /\ Nothing \in Maybe(Documents)
    BY DEF Metadata, Maybe
  <2>2. /\ pro.pc = "free" /\ pro' \in ProOps /\ pro'.pc = "fetch" /\ pro'.kind = "patch"
        /\ pro'.meta = [url |-> u, etag |-> Nothing]
        /\ pro'.was = profile.meta /\ pro'.got = Nothing /\ pro'.old = profile.content
        /\ UNCHANGED <<server, rec, cache, sub, profile, mirror, life, core, active, acked, slips, faults>>
    BY <1>2, <1>b, <2>1, ProBegun DEF ProPatch, ProLoaded
  <2>3. due' \in [sub : Maybe(Records), pro : Maybe(Metadata)] /\ (edits' = edits \/ Edit)
    BY <1>2, <1>a DEF ProPatch, RsTypeOK, Maybe, Edit
  <2>4. RsTypeOK'
    BY <1>a, <1>c, <2>2, <2>3 DEF RsTypeOK
  <2>5. RecordKept'
    BY <1>a, <2>2, RecordFrame
  <2>6. ProInv'
    <3>1. ProCopies'
      BY <1>b, <1>d, <2>1, <2>2, <2>3 DEF ProCopies, Rewritten
    <3>2. EditPublished'
      BY <1>b, <1>d, <2>1, <2>2, <2>3 DEF EditPublished, ProCopies, SameText, Rewritten
    <3>3. ProValidators'
      BY <1>b, <1>d, <2>1, <2>2, <2>3 DEF ProValidators, Rewritten, ProCopies, Issued, Covered, Covers
    <3>4. MirrorPaired'
      BY <1>b, <1>d, <2>1, <2>2 DEF MirrorPaired
    <3> QED
      BY <3>1, <3>2, <3>3, <3>4 DEF ProInv
  <2>7. LifeOwned'
    BY <1>a, <2>2 DEF LifeOwned
  <2>8. Told'
    BY <1>a, <2>2, ToldFrame DEF SubUntold
  <2> QED
    BY <2>4, <2>5, <2>6, <2>7, <2>8 DEF RsInv
<1>3. ASSUME NEW t \in Texts, ProText(t) PROVE RsInv'
  <2>1. NoMeta \in Metadata /\ <<t, 0>> \in Maybe(Documents)
    BY <1>3, RsBoundAssumption DEF NoMeta, Metadata, Maybe, Documents, SourceNames
  <2>2. /\ pro.pc = "free" /\ pro' \in ProOps /\ pro'.pc = "store" /\ pro'.kind = "text" /\ pro'.meta = NoMeta
        /\ pro'.was = profile.meta /\ pro'.got = <<t, 0>> /\ pro'.old = profile.content
        /\ UNCHANGED <<server, rec, cache, sub, profile, mirror, life, core, active, acked, slips, faults>>
    BY <1>3, <1>b, <2>1, ProBegun DEF ProText, ProLoaded
  <2>3. due' \in [sub : Maybe(Records), pro : Maybe(Metadata)] /\ (edits' = edits \/ Edit)
    BY <1>3, <1>a DEF ProText, RsTypeOK, Maybe, Edit
  <2>4. pro'.meta.url = Nothing /\ pro'.meta.etag = Nothing /\ <<t, 0>> \in Documents
    BY <2>2, Frees, RsBoundAssumption DEF Documents, SourceNames
  <2>5. RsTypeOK'
    BY <1>a, <1>c, <2>2, <2>3 DEF RsTypeOK
  <2>6. RecordKept'
    BY <1>a, <2>2, RecordFrame
  <2>7. ProInv'
    <3>1. ProCopies'
      BY <1>b, <1>d, <2>1, <2>2, <2>3, <2>4 DEF ProCopies, Rewritten
    <3>2. EditPublished'
      BY <1>b, <1>d, <2>1, <2>2, <2>3, <2>4 DEF EditPublished, ProCopies, SameText, Rewritten
    <3>3. ProValidators'
      BY <1>b, <1>d, <2>1, <2>2, <2>3, <2>4 DEF ProValidators, Rewritten, ProCopies, Issued, Covered, Covers
    <3>4. MirrorPaired'
      BY <1>b, <1>d, <2>1, <2>2, <2>3, <2>4 DEF MirrorPaired
    <3> QED
      BY <3>1, <3>2, <3>3, <3>4 DEF ProInv
  <2>8. LifeOwned'
    BY <1>a, <2>2 DEF LifeOwned
  <2>9. Told'
    BY <1>a, <2>2, ToldFrame DEF SubUntold
  <2> QED
    BY <2>5, <2>6, <2>7, <2>8, <2>9 DEF RsInv
<1>4. CASE ProDetach
  <2>1. UNCHANGED <<server, rec, cache, sub, mirror, pro, life, core, active, due, slips, faults>>
    BY <1>4 DEF ProDetach, subVars, hostVars
  <2>2. /\ profile' \in [content : Documents, meta : Metadata] /\ profile'.content = profile.content
        /\ profile'.meta = NoMeta
        /\ acked' \in Acks /\ acked'.src = acked.src /\ acked'.on = acked.on /\ acked'.url = Nothing
        /\ acked'.content = profile.content /\ pro.pc = "free"
    <3>1. acked \in Acks /\ NoMeta \in Metadata
      BY <1>a, Frees DEF RsTypeOK
    <3> QED
      BY <1>4, <1>b, <3>1 DEF ProDetach, Acks, Maybe
  <2>3. edits' \in 0 .. MaxEdits
    BY <1>4, <1>c DEF ProDetach
  <2>4. profile'.meta.url = Nothing /\ profile'.meta.etag = Nothing
    BY <2>2, Frees
  <2>5. RsTypeOK'
    BY <1>a, <2>1, <2>2, <2>3 DEF RsTypeOK
  <2>6. RecordKept'
    BY <1>a, <2>1, <2>2, RecordFrame
  <2>7. ProInv'
    <3>1. ProCopies'
      BY <1>b, <1>d, <2>1, <2>2 DEF ProCopies, Rewritten
    <3>2. EditPublished'
      BY <1>b, <1>d, <2>1, <2>2, <2>3, <2>4 DEF EditPublished, ProCopies, SameText, Rewritten
    <3>3. ProValidators'
      BY <1>b, <1>d, <2>1, <2>2, <2>3, <2>4 DEF ProValidators, Rewritten, ProCopies, Issued, Covered, Covers
    <3>4. MirrorPaired'
      BY <1>b, <1>d, <2>1, <2>2, <2>3, <2>4 DEF MirrorPaired
    <3> QED
      BY <3>1, <3>2, <3>3, <3>4 DEF ProInv
  <2>8. LifeOwned'
    BY <1>a, <2>1 DEF LifeOwned
  <2>9. Told'
    BY <1>a, <2>1, ToldFrame DEF SubUntold
  <2> QED
    BY <2>5, <2>6, <2>7, <2>8, <2>9 DEF RsInv
<1>5. CASE ProListed
  <2>1. RsTypeOK'
    BY <1>5, <1>a, <1>b DEF ProListed, subVars, proVars, hostVars, RsTypeOK, Maybe
  <2>2. RecordKept'
    BY <1>5, <1>a, RecordFrame DEF ProListed, subVars
  <2>3. ProInv'
    BY <1>5, <1>a, ProFrame DEF ProListed, proVars
  <2>4. LifeOwned'
    BY <1>5, <1>a DEF ProListed, subVars, proVars, hostVars, LifeOwned
  <2>5. Told'
    BY <1>5, <1>a, ToldFrame DEF ProListed, subVars, proVars, hostVars, SubUntold
  <2> QED
    BY <2>1, <2>2, <2>3, <2>4, <2>5 DEF RsInv
<1>6. ASSUME NEW by \in {"user", "sched"}, ProRefresh(by) PROVE RsInv'
  <2>1. profile.meta \in Metadata /\ Nothing \in Maybe(Documents)
    BY <1>b DEF Maybe
  <2>2. /\ pro.pc = "free" /\ pro' \in ProOps /\ pro'.pc = "fetch" /\ pro'.kind = "refresh"
        /\ pro'.meta = profile.meta
        /\ pro'.was = profile.meta /\ pro'.got = Nothing /\ pro'.old = profile.content
        /\ UNCHANGED <<server, rec, cache, sub, profile, mirror, life, core, active, acked, slips, faults>>
    BY <1>6, <1>b, <2>1, ProBegun DEF ProRefresh, ProLoaded
  <2>3. due' \in [sub : Maybe(Records), pro : Maybe(Metadata)] /\ (edits' = edits \/ Edit)
    BY <1>6, <1>a DEF ProRefresh, RsTypeOK, Maybe, Edit
  <2>4. profile.meta.url \in Urls /\ profile.meta.url # Nothing
    BY <1>6, <1>b DEF ProRefresh, ProLoaded, Metadata, Maybe
  <2>5. RsTypeOK'
    BY <1>a, <1>c, <2>2, <2>3 DEF RsTypeOK
  <2>6. RecordKept'
    BY <1>a, <2>2, RecordFrame
  <2>7. ProInv'
    <3>1. ProCopies'
      BY <1>b, <1>d, <2>1, <2>2, <2>3, <2>4 DEF ProCopies, Rewritten
    <3>2. EditPublished'
      BY <1>b, <1>d, <2>1, <2>2, <2>3, <2>4 DEF EditPublished, ProCopies, SameText, Rewritten
    <3>3. ProValidators'
      BY <1>b, <1>d, <2>1, <2>2, <2>3, <2>4 DEF ProValidators, Rewritten, ProCopies, Issued, Covered, Covers
    <3>4. MirrorPaired'
      BY <1>b, <1>d, <2>1, <2>2, <2>3, <2>4 DEF MirrorPaired
    <3> QED
      BY <3>1, <3>2, <3>3, <3>4 DEF ProInv
  <2>8. LifeOwned'
    BY <1>a, <2>2 DEF LifeOwned
  <2>9. Told'
    BY <1>a, <2>2, ToldFrame DEF SubUntold
  <2> QED
    BY <2>5, <2>6, <2>7, <2>8, <2>9 DEF RsInv
<1>7. CASE ProRefreshLocal
  <2>1. RsTypeOK'
    BY <1>7, <1>a, <1>b DEF ProRefreshLocal, subVars, proVars, hostVars, RsTypeOK, Maybe
  <2>2. RecordKept'
    BY <1>7, <1>a, RecordFrame DEF ProRefreshLocal, subVars
  <2>3. ProInv'
    BY <1>7, <1>a, ProFrame DEF ProRefreshLocal, proVars
  <2>4. LifeOwned'
    BY <1>7, <1>a DEF ProRefreshLocal, subVars, proVars, hostVars, LifeOwned
  <2>5. Told'
    BY <1>7, <1>a, ToldFrame DEF ProRefreshLocal, subVars, proVars, hostVars, SubUntold
  <2> QED
    BY <2>1, <2>2, <2>3, <2>4, <2>5 DEF RsInv
<1>8. CASE ProFetched
  <2>1. pro.pc = "fetch" /\ UNCHANGED <<server, rec, cache, sub, active, due, edits, life, core>>
    BY <1>8 DEF ProFetched, ProStep, subVars, hostVars
  <2>2. faults' = faults \/ Fault => faults' \in 0 .. MaxFaults
    BY <1>a, RsCounted
  <2>3. /\ pro' \in ProOps /\ pro'.kind = pro.kind /\ pro'.was = pro.was /\ pro'.old = pro.old
        /\ pro'.meta.url = pro.meta.url /\ pro'.meta.etag = Served(pro.meta.url)
        /\ \/ /\ pro'.pc = "meta" /\ pro'.meta = pro.meta /\ pro'.got = pro.old /\ pro.kind = "refresh"
           \/ /\ pro'.pc = "meta" /\ pro'.got = pro.old /\ pro'.got = Served(pro.meta.url) /\ pro.kind = "refresh"
           \/ /\ pro'.pc = "store" /\ pro'.got = Served(pro.meta.url)
    <3>1. pro.meta.url \in Urls
      BY <1>a, <2>1 DEF ProInv, ProCopies
    <3>2. Served(pro.meta.url) \in Documents
      BY <1>a, <3>1, ServedType DEF SourceNames
    <3>3. CASE pro.kind = "refresh" /\ pro.meta.etag = Served(pro.meta.url)
      <4>1. pro' = [pro EXCEPT !.pc = "meta", !.got = pro.old]
        BY <1>8, <3>3 DEF ProFetched
      <4> QED
        BY <1>b, <3>3, <4>1 DEF ProOps
    <3>4. CASE ~(pro.kind = "refresh" /\ pro.meta.etag = Served(pro.meta.url))
      <4> DEFINE pc == IF pro.kind = "refresh" /\ Served(pro.meta.url) = pro.old THEN "meta" ELSE "store"
                 m == [pro.meta EXCEPT !.etag = Served(pro.meta.url)]
      <4>1. pro' = [pro EXCEPT !.pc = pc, !.meta = m, !.got = Served(pro.meta.url)]
        BY <1>8, <1>b, <3>4 DEF ProFetched, ProOps, Metadata
      <4>2. m \in Metadata /\ m.url = pro.meta.url /\ m.etag = Served(pro.meta.url)
        BY <1>b, <3>2 DEF ProOps, Metadata, Maybe
      <4>3. pc \in {"meta", "store"} /\ (pc = "meta" => pro.kind = "refresh" /\ Served(pro.meta.url) = pro.old)
        OBVIOUS
      <4> HIDE DEF pc, m
      <4>4. /\ pro' \in ProOps /\ pro'.kind = pro.kind /\ pro'.was = pro.was /\ pro'.old = pro.old
            /\ pro'.pc = pc /\ pro'.meta = m /\ pro'.got = Served(pro.meta.url)
        BY <1>b, <3>2, <4>1, <4>2, <4>3 DEF ProOps, Maybe
      <4> QED
        BY <4>2, <4>3, <4>4
    <3> QED
      BY <3>3, <3>4
  <2>4. UNCHANGED <<profile, mirror, acked, slips>>
    BY <1>8 DEF ProFetched, hostVars
  <2>5. Served(pro.meta.url) \in Documents /\ pro.meta.url \in Urls /\ Served(pro.meta.url)[1] = pro.meta.url
        /\ Served(pro.meta.url)[2] = server[pro.meta.url]
    BY <1>a, <1>d, <2>1, ServedType DEF ProCopies, SourceNames
  <2>6. /\ Issued(pro.meta)' /\ Covered(Served(pro.meta.url), pro.meta.etag)
        /\ Covered(Served(pro.meta.url), pro'.meta.etag)
    <3>1. Issued(pro.meta)
      BY <1>d DEF ProValidators
    <3>2. Covered(Served(pro.meta.url), pro.meta.etag)
      <4> SUFFICES ASSUME pro.meta.etag # Nothing PROVE Covers(Served(pro.meta.url), pro.meta.etag)
        BY DEF Covered
      <4>1. pro.meta.etag \in Documents
        BY <1>b DEF ProOps, Metadata, Maybe
      <4>2. pro.meta.etag[2] \in Int /\ server[pro.meta.url] \in Int
        BY <1>a, <2>5, <4>1, RsBoundAssumption DEF Documents, RsTypeOK
      <4>3. pro.meta.etag[1] = pro.meta.url /\ pro.meta.etag[2] <= server[pro.meta.url]
        BY <3>1 DEF Issued
      <4>4. server[pro.meta.url] >= pro.meta.etag[2]
        BY <4>2, <4>3
      <4>5. Served(pro.meta.url) # Nothing
        BY <2>5, CoversItself
      <4> QED
        BY <2>5, <4>3, <4>4, <4>5 DEF Covers
    <3>3. Covered(Served(pro.meta.url), pro'.meta.etag)
      BY <2>3, <2>5, CoversItself DEF Covered
    <3>4. Issued(pro.meta)'
      BY <2>1, <2>3, <2>5, RsBoundAssumption DEF Issued, Documents
    <3> QED
      BY <3>2, <3>3, <3>4
  <2>7. RsTypeOK'
    BY <1>8, <1>a, <2>1, <2>2, <2>3 DEF ProFetched, RsTypeOK
  <2>8. RecordKept'
    BY <1>8, <1>a, <2>1, RecordFrame DEF ProFetched
  <2>9. ProInv'
    <3>1. ProCopies'
      BY <1>b, <1>d, <2>1, <2>2, <2>3, <2>4, <2>5, <2>6 DEF ProCopies, Rewritten
    <3>2. EditPublished'
      BY <1>b, <1>d, <2>1, <2>2, <2>3, <2>4, <2>5, <2>6 DEF EditPublished, ProCopies, SameText, Rewritten
    <3>3. ProValidators'
      BY <1>b, <1>d, <2>1, <2>2, <2>3, <2>4, <2>5, <2>6
      DEF ProValidators, Rewritten, ProCopies, Issued, Covered, Covers
    <3>4. MirrorPaired'
      BY <1>b, <1>d, <2>1, <2>2, <2>3, <2>4, <2>5, <2>6 DEF MirrorPaired, ProCopies, Rewritten
    <3> QED
      BY <3>1, <3>2, <3>3, <3>4 DEF ProInv
  <2>10. LifeOwned'
    BY <1>a, <2>1 DEF LifeOwned
  <2>11. Told'
    BY <1>8, <1>a, <2>1, <2>3, ToldFrame DEF ProFetched, SubUntold
  <2> QED
    BY <2>7, <2>8, <2>9, <2>10, <2>11 DEF RsInv
<1>9. CASE ProFetchFails
  <2>1. pro.pc = "fetch" /\ UNCHANGED <<server, rec, cache, sub, active, due, edits, life, core>>
    BY <1>9 DEF ProFetchFails, ProStep, subVars, hostVars
  <2>2. faults' = faults \/ Fault => faults' \in 0 .. MaxFaults
    BY <1>a, RsCounted
  <2>3. pro' \in ProOps /\ pro'.pc = "free" /\ pro'.kind = "none" /\ pro'.meta = NoMeta /\ pro'.was = NoMeta
    BY <1>9, Frees DEF ProFetchFails
  <2>4. pro'.meta.etag = Nothing /\ pro'.was.etag = Nothing
    BY <2>3, Frees
  <2>5. RsTypeOK'
    BY <1>9, <1>a, <2>1, <2>2, <2>3 DEF ProFetchFails, RsTypeOK
  <2>6. RecordKept'
    BY <1>9, <1>a, <2>1, RecordFrame DEF ProFetchFails
  <2>7. ProInv'
    <3>1. ProCopies'
      BY <1>9, <1>b, <1>d, <2>1, <2>2, <2>3 DEF proVars, hostVars, ProCopies, Rewritten
    <3>2. EditPublished'
      BY <1>9, <1>b, <1>d, <2>1, <2>2, <2>3, <2>4
      DEF ProFetchFails, ProStep, subVars, proVars, hostVars, EditPublished, ProCopies, SameText, Rewritten
    <3>3. ProValidators'
      BY <1>9, <1>b, <1>d, <2>1, <2>2, <2>3, <2>4
      DEF ProFetchFails, ProStep, subVars, proVars, hostVars, ProValidators, Rewritten, ProCopies, Issued,
          Covered, Covers
    <3>4. MirrorPaired'
      BY <1>9, <1>b, <1>d, <2>1, <2>2, <2>3, <2>4
      DEF ProFetchFails, ProStep, subVars, proVars, hostVars, MirrorPaired, ProCopies, Rewritten
    <3> QED
      BY <3>1, <3>2, <3>3, <3>4 DEF ProInv
  <2>8. LifeOwned'
    BY <1>a, <2>1 DEF LifeOwned
  <2>9. Told'
    BY <1>9, <1>a, <2>1, <2>3, ToldFrame DEF ProFetchFails, SubUntold
  <2> QED
    BY <2>5, <2>6, <2>7, <2>8, <2>9 DEF RsInv
<1>10. CASE ProStore
  <2>1. pro.pc = "store" /\ UNCHANGED <<server, rec, cache, sub, active, due, edits, life, core>>
    BY <1>10 DEF ProStore, ProStep, subVars, hostVars
  <2>2. faults' = faults \/ Fault => faults' \in 0 .. MaxFaults
    BY <1>a, RsCounted
  <2>3. /\ pro' \in ProOps /\ pro'.kind = pro.kind /\ pro'.was = pro.was /\ pro'.old = pro.old
        /\ pro'.meta = pro.meta /\ pro'.got = pro.got
        /\ pro'.pc = IF pro.kind = "refresh" /\ active THEN "mirror" ELSE "meta"
    BY <1>10, <1>b DEF ProStore, ProOps
  <2>4. /\ profile' \in [content : Documents, meta : Metadata] /\ profile'.content = pro.got
        /\ profile'.meta = profile.meta
    BY <1>10, <1>b, <1>d, <2>1 DEF ProStore, ProCopies, Rewritten
  <2>5. RsTypeOK'
    BY <1>10, <1>a, <2>1, <2>3, <2>4 DEF ProStore, RsTypeOK
  <2>6. RecordKept'
    BY <1>10, <1>a, <2>1, RecordFrame DEF ProStore
  <2>7. ProInv'
    <3>1. ProCopies'
      BY <1>10, <1>b, <1>d, <2>1, <2>2, <2>3, <2>4
      DEF ProStore, ProStep, subVars, proVars, hostVars, ProCopies, Rewritten
    <3>2. EditPublished'
      BY <1>10, <1>b, <1>d, <2>1, <2>2, <2>3, <2>4
      DEF ProStore, ProStep, subVars, proVars, hostVars, EditPublished, ProCopies, SameText, Rewritten
    <3>3. ProValidators'
      BY <1>10, <1>b, <1>d, <2>1, <2>2, <2>3, <2>4
      DEF ProStore, ProStep, subVars, proVars, hostVars, ProValidators, Rewritten, ProCopies, Issued, Covered,
          Covers
    <3>4. MirrorPaired'
      BY <1>10, <1>b, <1>d, <2>1, <2>2, <2>3, <2>4
      DEF ProStore, ProStep, subVars, proVars, hostVars, MirrorPaired, ProCopies, Rewritten
    <3> QED
      BY <3>1, <3>2, <3>3, <3>4 DEF ProInv
  <2>8. LifeOwned'
    BY <1>a, <2>1 DEF LifeOwned
  <2>9. Told'
    BY <1>10, <1>a, <2>1, <2>3, ToldFrame DEF ProStore, SubUntold
  <2> QED
    BY <2>5, <2>6, <2>7, <2>8, <2>9 DEF RsInv
<1>11. CASE ProMeta
  <2>1. pro.pc = "meta" /\ UNCHANGED <<server, rec, cache, sub, active, due, edits, life, core>>
    BY <1>11 DEF ProMeta, ProStep, subVars, hostVars
  <2>2. faults' = faults \/ Fault => faults' \in 0 .. MaxFaults
    BY <1>a, RsCounted
  <2>3. /\ profile' \in [content : Documents, meta : Metadata] /\ profile'.content = pro.got
        /\ profile'.meta = pro.meta
        /\ profile.content = pro.got /\ profile.meta = pro.was
    BY <1>11, <1>b, <1>d, <2>1 DEF ProMeta, ProCopies, Rewritten, ProOps
  <2>4. pro' \in ProOps /\ IF pro.kind # "refresh" /\ active /\ pro.got # pro.old
                        THEN /\ pro'.pc = "mirror" /\ pro'.kind = pro.kind /\ pro'.meta = pro.meta
                             /\ pro'.was = pro.was /\ pro'.got = pro.got /\ pro'.old = pro.old
                        ELSE /\ pro'.pc = "free" /\ pro'.kind = "none" /\ pro'.meta = NoMeta /\ pro'.was = NoMeta
    <3>1. CASE pro.kind # "refresh" /\ active /\ pro.got # pro.old
      <4>1. pro' = [pro EXCEPT !.pc = "mirror"]
        BY <1>11, <3>1 DEF ProMeta
      <4> QED
        BY <1>b, <3>1, <4>1 DEF ProOps
    <3>2. CASE ~(pro.kind # "refresh" /\ active /\ pro.got # pro.old)
      <4>1. pro' = ProFree
        BY <1>11, <3>2 DEF ProMeta
      <4> QED
        BY <3>2, <4>1, Frees
    <3> QED
      BY <3>1, <3>2
  <2>5. /\ acked' \in Acks /\ acked'.src = acked.src /\ acked'.on = acked.on /\ mirror' = mirror /\ faults' = faults
        /\ IF pro.kind = "refresh" \/ pro'.pc = "mirror" THEN acked' = acked
           ELSE acked'.url = pro.meta.url /\ acked'.content = pro.got
        /\ slips' = (IF pro.kind # "refresh" /\ ~active THEN slips \ {"profile"} ELSE slips)
    <3>1. acked \in Acks /\ pro.meta.url \in Maybe(Urls) /\ pro.got \in Documents
      BY <1>a, <1>b, <2>3, RsFields DEF RsTypeOK
    <3>2. /\ Acknowledged \in Acks /\ Acknowledged.src = acked.src /\ Acknowledged.on = acked.on
          /\ Acknowledged.url = pro.meta.url /\ Acknowledged.content = pro.got
      BY <3>1 DEF Acknowledged, Acks
    <3>3. acked' = (IF pro.kind = "refresh" \/ pro'.pc = "mirror" THEN acked ELSE Acknowledged)
      BY <1>11 DEF ProMeta
    <3>4. /\ mirror' = mirror /\ faults' = faults
          /\ slips' = (IF pro.kind # "refresh" /\ ~active THEN slips \ {"profile"} ELSE slips)
      BY <1>11 DEF ProMeta, hostVars
    <3> QED
      BY <3>1, <3>2, <3>3, <3>4
  <2>6. NoMeta.url = Nothing /\ NoMeta.etag = Nothing /\ (active = TRUE \/ active = FALSE)
    BY <1>a, Frees DEF RsTypeOK
  <2>7. RsTypeOK'
    BY <1>a, <2>1, <2>3, <2>4, <2>5 DEF RsTypeOK
  <2>8. RecordKept'
    BY <1>a, <2>1, <2>5, RecordFrame
  <2>9. ProInv'
    <3>1. ProCopies'
      BY <1>b, <1>d, <2>1, <2>2, <2>3, <2>4, <2>5, <2>6 DEF ProCopies, Rewritten
    <3>2. EditPublished'
      BY <1>b, <1>d, <2>1, <2>2, <2>3, <2>4, <2>5, <2>6 DEF EditPublished, ProCopies, SameText, Rewritten
    <3>3. ProValidators'
      BY <1>b, <1>d, <2>1, <2>2, <2>3, <2>4, <2>5, <2>6
      DEF ProValidators, Rewritten, ProCopies, Issued, Covered, Covers
    <3>4. MirrorPaired'
      BY <1>b, <1>d, <2>1, <2>2, <2>3, <2>4, <2>5, <2>6 DEF MirrorPaired, ProCopies, Rewritten
    <3> QED
      BY <3>1, <3>2, <3>3, <3>4 DEF ProInv
  <2>10. LifeOwned'
    BY <1>a, <2>1 DEF LifeOwned
  <2>11. Told'
    BY <1>a, <2>1, <2>4, <2>5, ToldFrame DEF SubUntold
  <2> QED
    BY <2>7, <2>8, <2>9, <2>10, <2>11 DEF RsInv
<1>12. CASE ProMetaFails
  <2>1. pro.pc = "meta" /\ UNCHANGED <<server, rec, cache, sub, active, due, edits, life, core>>
    BY <1>12 DEF ProMetaFails, ProStep, subVars, hostVars
  <2>2. faults' = faults \/ Fault => faults' \in 0 .. MaxFaults
    BY <1>a, RsCounted
  <2>3. /\ pro' \in ProOps /\ pro'.pc = "free" /\ pro'.kind = "none" /\ pro'.meta.etag = Nothing
        /\ pro'.was.etag = Nothing
    BY <1>12, Frees DEF ProMetaFails, RolledBack
  <2>4. profile.content = pro.got /\ profile.meta = pro.was /\ pro.old \in Documents
    BY <1>b, <1>d, <2>1 DEF ProCopies, Rewritten
  <2>5. /\ profile' \in [content : Documents, meta : Metadata] /\ profile'.meta = profile.meta
        /\ UNCHANGED <<mirror, acked>>
        /\ \/ pro.kind = "refresh" /\ active /\ profile' = profile /\ slips' = slips
           \/ ~(pro.kind = "refresh" /\ active) /\ profile'.content = pro.old /\ slips' = slips
           \/ "profile" \in slips' /\ slips' = slips \union {"profile"}
    <3>1. CASE pro.kind = "refresh" /\ active
      BY <1>12, <1>b, <3>1 DEF ProMetaFails, hostVars
    <3>2. CASE ~(pro.kind = "refresh" /\ active)
      <4>1. RolledBack /\ slips' = RestoredSlips /\ UNCHANGED <<mirror, acked>>
        BY <1>12, <3>2 DEF ProMetaFails, hostVars
      <4>2. PICK content \in {pro.old, profile.content}, meta \in {pro.was, profile.meta} :
              profile' = [content |-> content, meta |-> meta]
        BY <4>1 DEF RolledBack
      <4>3. content \in Documents /\ meta \in Metadata /\ meta = profile.meta
        BY <1>b, <2>4, <4>2
      <4>4. profile' \in [content : Documents, meta : Metadata] /\ profile'.meta = profile.meta
        BY <4>2, <4>3
      <4>5. slips' = slips \union (IF profile' = [content |-> pro.old, meta |-> pro.was] THEN {} ELSE {"profile"})
        BY <4>1 DEF RestoredSlips
      <4>6. profile' = [content |-> pro.old, meta |-> pro.was] => profile'.content = pro.old
        OBVIOUS
      <4> QED
        BY <3>2, <4>1, <4>4, <4>5, <4>6
    <3> QED
      BY <3>1, <3>2
  <2>6. UNCHANGED <<mirror, acked>> /\ (active = TRUE \/ active = FALSE)
    BY <1>a, <2>5 DEF RsTypeOK
  <2>7. RsTypeOK'
    <3>1. faults' \in 0 .. MaxFaults /\ slips' \subseteq {"told", "cache", "profile"}
      BY <1>12, <1>a, <2>2, <2>5 DEF ProMetaFails, RsTypeOK
    <3> QED
      BY <1>a, <2>1, <2>3, <2>5, <3>1 DEF RsTypeOK
  <2>8. RecordKept'
    BY <1>a, <2>1, <2>6, RecordFrame
  <2>9. ProInv'
    <3>1. ProCopies'
      BY <2>3 DEF ProCopies, Rewritten
    <3>2. EditPublished'
      BY <1>b, <1>d, <2>1, <2>3, <2>4, <2>5, <2>6 DEF EditPublished, ProCopies, SameText, Rewritten
    <3>3. ProValidators'
      BY <1>b, <1>d, <2>1, <2>3, <2>4, <2>5, <2>6
      DEF ProValidators, Rewritten, ProCopies, Issued, Covered, Covers
    <3>4. MirrorPaired'
      BY <1>b, <1>d, <2>1, <2>3, <2>4, <2>5, <2>6 DEF MirrorPaired, ProCopies, Rewritten
    <3> QED
      BY <3>1, <3>2, <3>3, <3>4 DEF ProInv
  <2>10. LifeOwned'
    BY <1>a, <2>1 DEF LifeOwned
  <2>11. Told'
    BY <1>a, <2>1, <2>3, <2>5, <2>6, ToldFrame DEF SubUntold
  <2> QED
    BY <2>7, <2>8, <2>9, <2>10, <2>11 DEF RsInv
<1>13. CASE ProMirror
  <2>1. pro.pc = "mirror" /\ UNCHANGED <<server, rec, cache, sub, active, due, edits, life, core>>
    BY <1>13 DEF ProMirror, ProStep, subVars, hostVars
  <2>2. faults' = faults \/ Fault => faults' \in 0 .. MaxFaults
    BY <1>a, RsCounted
  <2>3. /\ pro' \in ProOps /\ pro'.pc = "tell" /\ pro'.kind = pro.kind /\ pro'.meta = pro.meta
        /\ pro'.was = pro.was /\ pro'.got = pro.got /\ pro'.old = pro.old /\ mirror' = pro.got /\ profile' = profile
    BY <1>13, <1>b DEF ProMirror, ProOps, hostVars
  <2>4. /\ acked' \in Acks /\ acked'.src = acked.src /\ acked'.on = acked.on /\ faults' = faults
        /\ IF pro.kind = "refresh" THEN acked' = acked /\ slips' = slips
           ELSE acked'.url = pro.meta.url /\ acked'.content = pro.got /\ slips' = slips \ {"profile"}
    <3>1. acked \in Acks /\ pro.meta.url \in Maybe(Urls) /\ pro.got \in Documents
      BY <1>a, <1>b, <1>d, <2>1, RsFields DEF RsTypeOK, ProCopies, Rewritten
    <3>2. /\ Acknowledged \in Acks /\ Acknowledged.src = acked.src /\ Acknowledged.on = acked.on
          /\ Acknowledged.url = pro.meta.url /\ Acknowledged.content = pro.got
      BY <3>1 DEF Acknowledged, Acks
    <3>3. acked' = (IF pro.kind = "refresh" THEN acked ELSE Acknowledged)
      BY <1>13 DEF ProMirror
    <3>4. faults' = faults /\ slips' = (IF pro.kind = "refresh" THEN slips ELSE slips \ {"profile"})
      BY <1>13 DEF ProMirror, hostVars
    <3> QED
      BY <3>1, <3>2, <3>3, <3>4
  <2>5. RsTypeOK'
    BY <1>a, <1>d, <2>1, <2>3, <2>4 DEF RsTypeOK, ProCopies, Rewritten, Maybe
  <2>6. RecordKept'
    BY <1>a, <2>1, <2>4, RecordFrame
  <2>7. ProInv'
    <3>1. ProCopies'
      BY <1>b, <1>d, <2>1, <2>2, <2>3, <2>4 DEF ProCopies, Rewritten
    <3>2. EditPublished'
      BY <1>b, <1>d, <2>1, <2>2, <2>3, <2>4 DEF EditPublished, ProCopies, SameText, Rewritten
    <3>3. ProValidators'
      BY <1>b, <1>d, <2>1, <2>2, <2>3, <2>4 DEF ProValidators, Rewritten, ProCopies, Issued, Covered, Covers
    <3>4. MirrorPaired'
      BY <1>b, <1>d, <2>1, <2>2, <2>3, <2>4 DEF MirrorPaired, ProCopies, Rewritten
    <3> QED
      BY <3>1, <3>2, <3>3, <3>4 DEF ProInv
  <2>8. LifeOwned'
    BY <1>a, <2>1 DEF LifeOwned
  <2>9. Told'
    BY <1>a, <2>1, <2>3, <2>4 DEF Told, SubUntold, LocalStored
  <2> QED
    BY <2>5, <2>6, <2>7, <2>8, <2>9 DEF RsInv
<1>14. CASE ProMirrorFails
  <2>1. pro.pc = "mirror" /\ UNCHANGED <<server, rec, cache, sub, active, due, edits, life, core>>
    BY <1>14 DEF ProMirrorFails, ProStep, subVars, hostVars
  <2>2. faults' \in 0 .. MaxFaults
    BY <1>14, <1>a, RsCounted DEF ProMirrorFails
  <2>3. /\ pro' \in ProOps /\ pro'.pc = "free" /\ pro'.kind = "none" /\ pro'.meta.etag = Nothing
        /\ pro'.was.etag = Nothing
    BY <1>14, Frees DEF ProMirrorFails, RolledBack
  <2>4. pro.old \in Documents /\ pro.got \in Documents /\ pro.was \in Metadata /\ Issued(pro.was)
        /\ Issued(profile.meta)
    BY <1>b, <1>d, <2>1 DEF ProCopies, ProOps, Rewritten, ProValidators
  <2>5. /\ profile' \in [content : Documents, meta : Metadata] /\ profile'.meta \in {pro.was, profile.meta}
        /\ mirror' \in {mirror, pro.got, profile'.content} /\ mirror' \in Maybe(Documents) /\ acked' = acked
        /\ slips \subseteq slips' /\ slips' \subseteq slips \union {"profile", "told"}
        /\ "told" \notin slips' => mirror' = mirror
        /\ "profile" \notin slips' => profile'.content = pro.old /\ profile'.meta = pro.was /\ mirror' = mirror
    <3>1. RolledBack /\ slips' = RestoredSlips /\ mirror' \in {mirror, pro.got, profile'.content} /\ acked' = acked
      BY <1>14 DEF ProMirrorFails
    <3>2. PICK content \in {pro.old, profile.content}, meta \in {pro.was, profile.meta} :
            profile' = [content |-> content, meta |-> meta]
      BY <3>1 DEF RolledBack
    <3>3. /\ profile' \in [content : Documents, meta : Metadata] /\ profile'.meta \in {pro.was, profile.meta}
          /\ profile'.content \in Documents
      BY <1>b, <2>4, <3>2
    <3>4. mirror' \in Maybe(Documents)
      BY <1>a, <2>4, <3>1, <3>3 DEF RsTypeOK, Maybe
    <3>5. profile' = [content |-> pro.old, meta |-> pro.was] => profile'.content = pro.old /\ profile'.meta = pro.was
      OBVIOUS
    <3> QED
      BY <3>1, <3>3, <3>4, <3>5 DEF RestoredSlips
  <2>6. UNCHANGED acked
    BY <2>5
  <2>7. RsTypeOK'
    BY <1>a, <2>1, <2>2, <2>3, <2>5 DEF RsTypeOK
  <2>8. RecordKept'
    BY <1>a, <2>1, <2>6, RecordFrame
  <2>9. ProInv'
    <3>1. ProCopies'
      BY <2>3 DEF ProCopies, Rewritten
    <3>2. EditPublished'
      BY <1>b, <1>d, <2>1, <2>3, <2>4, <2>5 DEF EditPublished, ProCopies, SameText, Rewritten
    <3>3. ProValidators'
      BY <1>b, <1>d, <2>1, <2>3, <2>4, <2>5 DEF ProValidators, Rewritten, ProCopies, Issued, Covered, Covers
    <3>4. MirrorPaired'
      BY <1>b, <1>d, <2>1, <2>3, <2>4, <2>5 DEF MirrorPaired, ProCopies, Rewritten
    <3> QED
      BY <3>1, <3>2, <3>3, <3>4 DEF ProInv
  <2>10. LifeOwned'
    BY <1>a, <2>1 DEF LifeOwned
  <2>11. Told'
    BY <1>a, <2>1, <2>3, <2>5 DEF Told, SubUntold, LocalStored
  <2> QED
    BY <2>7, <2>8, <2>9, <2>10, <2>11 DEF RsInv
<1> QED
  BY <1>1, <1>2, <1>3, <1>4, <1>5, <1>6, <1>7, <1>8, <1>9, <1>10, <1>11, <1>12, <1>13, <1>14

\* Steps of the lifecycle keep it, and so does a crash.
LEMMA LifeSteps ==
    ASSUME RsInv,
           \/ SubRestarts \/ SubNotRunning \/ ProRestarts \/ ProNotRunning \/ GiveUp \/ PanelStart
           \/ PanelRestart \/ EnsureLocal \/ Starts \/ StartFails \/ PanelStop \/ StopFails \/ Crash
    PROVE  RsInv'
<1>a. RsTypeOK /\ RecordKept /\ ProInv /\ LifeOwned /\ Told
  BY DEF RsInv
<1>b. /\ rec \in Records /\ sub \in SubOps /\ pro \in ProOps /\ life \in LifeOps /\ core \in Cores
      /\ profile \in [content : Documents, meta : Metadata]
  BY <1>a DEF RsTypeOK
<1>d. ProCopies /\ EditPublished /\ ProValidators /\ MirrorPaired
  BY <1>a DEF ProInv
<1>c. edits' = edits \/ Edit => edits' \in 0 .. MaxEdits
  BY <1>a, RsCounted
<1>1. CASE SubRestarts
  <2>1. UNCHANGED <<server, profile, mirror, active, due, acked, edits>>
    BY <1>1 DEF SubRestarts, LifeStep, Restart, NotRunning
  <2>2. /\ life.pc = "free" /\ life' = Prepared("sub") /\ core' = CoreOff /\ slips' = slips \ {"told"}
        /\ UNCHANGED <<rec, cache, faults>>
    BY <1>1 DEF SubRestarts, Restart
  <2>3. /\ life' \in LifeOps /\ life'.by = "sub"
        /\ life'.pc = (IF rec.on /\ rec.src \in Texts THEN "ensure" ELSE "start")
        /\ life'.rec = rec /\ life'.prof = mirror
    BY <1>a, <1>b, <2>2, PreparedType DEF RsTypeOK
  <2>4. core' \in Cores /\ core'.on = FALSE /\ core'.held = FALSE
    BY <2>2, Frees
  <2>5. sub.pc = "tell" /\ sub' \in SubOps /\ sub'.pc = "wait" /\ pro' = pro
        /\ sub'.kind = sub.kind /\ sub'.rec = sub.rec
    BY <1>1, <1>b DEF SubRestarts, SubOps, ProOps
  <2>6. RsTypeOK'
    BY <1>a, <1>b, <2>1, <2>2, <2>3, <2>4, <2>5 DEF RsTypeOK
  <2>7. RecordKept'
    BY <1>a, <2>1, <2>2, <2>5 DEF RecordKept
  <2>8. ProInv'
    BY <1>a, <2>1, <2>2, <2>5, ProFrame
  <2>9. LifeOwned'
    BY <1>a, <1>b, <2>2, <2>3, <2>4, <2>5 DEF LifeOwned
  <2>10. Told'
    BY <2>1, <2>2, <2>3, <2>4, <2>5 DEF Told, LocalStored
  <2> QED
    BY <2>6, <2>7, <2>8, <2>9, <2>10 DEF RsInv
<1>2. CASE SubNotRunning
  <2>1. UNCHANGED <<server, profile, mirror, active, due, acked, edits>>
    BY <1>2 DEF SubNotRunning, LifeStep, Restart, NotRunning
  <2>2. /\ life.pc = "free" /\ (core.held = FALSE => core.on = FALSE)
        /\ UNCHANGED <<rec, cache, life, core, slips, faults>>
        /\ pro' = pro /\ sub.pc = "tell"
    BY <1>2, <1>b DEF SubNotRunning, NotRunning, hostVars, Cores
  <2>3. sub' \in SubOps /\ sub'.pc = "free" /\ sub'.kind = "none"
    BY <1>2, Frees DEF SubNotRunning
  <2>4. RsTypeOK'
    BY <1>a, <1>b, <2>1, <2>2, <2>3 DEF RsTypeOK
  <2>5. RecordKept'
    BY <1>a, <2>1, <2>2, <2>3 DEF RecordKept
  <2>6. ProInv'
    BY <1>a, <2>1, <2>2, ProFrame
  <2>7. LifeOwned'
    BY <1>a, <2>2, <2>3 DEF LifeOwned
  <2>8. Told'
    BY <1>a, <2>1, <2>2, <2>3 DEF Told, LocalStored, SubUntold, LifeOwned
  <2> QED
    BY <2>4, <2>5, <2>6, <2>7, <2>8 DEF RsInv
<1>3. CASE ProRestarts
  <2>1. UNCHANGED <<server, profile, mirror, active, due, acked, edits>>
    BY <1>3 DEF ProRestarts, LifeStep, Restart, NotRunning
  <2>2. /\ life.pc = "free" /\ life' = Prepared("pro") /\ core' = CoreOff /\ slips' = slips \ {"told"}
        /\ UNCHANGED <<rec, cache, faults>>
    BY <1>3 DEF ProRestarts, Restart
  <2>3. /\ life' \in LifeOps /\ life'.by = "pro"
        /\ life'.pc = (IF rec.on /\ rec.src \in Texts THEN "ensure" ELSE "start")
        /\ life'.rec = rec /\ life'.prof = mirror
    BY <1>a, <1>b, <2>2, PreparedType DEF RsTypeOK
  <2>4. core' \in Cores /\ core'.on = FALSE /\ core'.held = FALSE
    BY <2>2, Frees
  <2>5. pro.pc = "tell" /\ pro' \in ProOps /\ pro'.pc = "wait" /\ sub' = sub
        /\ pro'.kind = pro.kind /\ pro'.meta = pro.meta /\ pro'.was = pro.was /\ pro'.got = pro.got
        /\ pro'.old = pro.old
    BY <1>3, <1>b DEF ProRestarts, SubOps, ProOps
  <2>6. RsTypeOK'
    BY <1>a, <1>b, <2>1, <2>2, <2>3, <2>4, <2>5 DEF RsTypeOK
  <2>7. RecordKept'
    BY <1>a, <2>1, <2>2, <2>5, RecordFrame
  <2>8. ProInv'
    <3>1. ProCopies'
      BY <1>b, <1>d, <2>1, <2>2, <2>3, <2>4, <2>5 DEF ProCopies, Rewritten
    <3>2. EditPublished'
      BY <1>b, <1>d, <2>1, <2>2, <2>3, <2>4, <2>5 DEF EditPublished, ProCopies, SameText, Rewritten
    <3>3. ProValidators'
      BY <1>b, <1>d, <2>1, <2>2, <2>3, <2>4, <2>5
      DEF ProValidators, Rewritten, ProCopies, Issued, Covered, Covers
    <3>4. MirrorPaired'
      BY <1>b, <1>d, <2>1, <2>2, <2>3, <2>4, <2>5 DEF MirrorPaired, ProCopies, Rewritten
    <3> QED
      BY <3>1, <3>2, <3>3, <3>4 DEF ProInv
  <2>9. LifeOwned'
    BY <1>a, <1>b, <2>2, <2>3, <2>4, <2>5 DEF LifeOwned
  <2>10. Told'
    BY <2>1, <2>2, <2>3, <2>4, <2>5 DEF Told, LocalStored
  <2> QED
    BY <2>6, <2>7, <2>8, <2>9, <2>10 DEF RsInv
<1>4. CASE ProNotRunning
  <2>1. UNCHANGED <<server, profile, mirror, active, due, acked, edits>>
    BY <1>4 DEF ProNotRunning, LifeStep, Restart, NotRunning
  <2>2. /\ life.pc = "free" /\ (core.held = FALSE => core.on = FALSE)
        /\ UNCHANGED <<rec, cache, life, core, slips, faults>>
        /\ sub' = sub /\ pro.pc = "tell"
    BY <1>4, <1>b DEF ProNotRunning, NotRunning, hostVars, Cores
  <2>3. /\ pro' \in ProOps
        /\ \/ /\ pro.kind = "refresh" /\ pro'.pc = "meta" /\ pro'.kind = pro.kind /\ pro'.meta = pro.meta
              /\ pro'.was = pro.was /\ pro'.got = pro.got /\ pro'.old = pro.old
           \/ pro.kind # "refresh" /\ pro' = ProFree
    BY <1>4, <1>b, Resumed DEF ProNotRunning
  <2>4. ProFree.pc = "free" /\ ProFree.kind = "none" /\ ProFree.meta.etag = Nothing /\ ProFree.was.etag = Nothing
    BY Frees
  <2>5. RsTypeOK'
    BY <1>a, <1>b, <2>1, <2>2, <2>3 DEF RsTypeOK
  <2>6. RecordKept'
    BY <1>a, <2>1, <2>2, RecordFrame
  <2>7. ProInv'
    BY <1>a, <1>b, <2>1, <2>2, <2>3, <2>4, ProEnds, ProGoesOn
  <2>8. LifeOwned'
    BY <1>a, <2>2, <2>3 DEF LifeOwned
  <2>9. Told'
    BY <1>a, <2>1, <2>2, <2>3 DEF Told, LocalStored, SubUntold, LifeOwned
  <2> QED
    BY <2>5, <2>6, <2>7, <2>8, <2>9 DEF RsInv
<1>5. CASE GiveUp
  <2>1. UNCHANGED <<server, profile, mirror, active, due, acked, edits>>
    BY <1>5 DEF GiveUp, LifeStep, Restart, NotRunning
  <2>2. faults' = faults \/ Fault => faults' \in 0 .. MaxFaults
    BY <1>a, RsCounted
  <2>3. /\ Fault /\ UNCHANGED <<rec, cache, life, core>> /\ slips' = slips \union {"told"}
        /\ \/ sub.pc = "tell" /\ sub' = SubFree /\ pro' = pro
           \/ pro.pc = "tell" /\ pro' = ProFree /\ sub' = sub
    BY <1>5 DEF GiveUp, hostVars
  <2>4. /\ SubFree \in SubOps /\ SubFree.pc = "free" /\ SubFree.kind = "none" /\ ProFree \in ProOps
        /\ ProFree.pc = "free"
        /\ ProFree.kind = "none" /\ ProFree.meta.etag = Nothing /\ ProFree.was.etag = Nothing
    BY Frees
  <2>5. RsTypeOK'
    BY <1>a, <1>b, <2>1, <2>2, <2>3, <2>4 DEF RsTypeOK
  <2>6. RecordKept'
    BY <1>a, <2>1, <2>3, <2>4 DEF RecordKept
  <2>7. ProInv'
    <3>1. CASE sub.pc = "tell" /\ pro' = pro
      BY <1>a, <2>1, <2>3, <3>1, ProFrame
    <3>2. CASE pro.pc = "tell" /\ pro' = ProFree
      BY <1>a, <1>b, <2>1, <2>3, <2>4, <3>2, ProEnds
    <3> QED
      BY <2>3, <3>1, <3>2
  <2>8. LifeOwned'
    BY <1>a, <2>3, <2>4 DEF LifeOwned
  <2>9. Told'
    BY <2>3 DEF Told
  <2> QED
    BY <2>5, <2>6, <2>7, <2>8, <2>9 DEF RsInv
<1>6. CASE PanelStart
  <2>1. UNCHANGED <<server, profile, mirror, active, due, acked, edits>>
    BY <1>6 DEF PanelStart, LifeStep, Restart, NotRunning
  <2>2. /\ life.pc = "free" /\ core.on = FALSE /\ life' = Prepared("panel") /\ slips' = slips \ {"told"}
        /\ UNCHANGED <<rec, cache, sub, pro, core, faults>>
    BY <1>6, <1>b DEF PanelStart, Cores
  <2>3. /\ life' \in LifeOps /\ life'.by = "panel"
        /\ life'.pc = (IF rec.on /\ rec.src \in Texts THEN "ensure" ELSE "start")
        /\ life'.rec = rec /\ life'.prof = mirror
    BY <1>a, <1>b, <2>2, PreparedType DEF RsTypeOK
  <2>4. RsTypeOK'
    BY <1>a, <1>b, <2>1, <2>2, <2>3 DEF RsTypeOK
  <2>5. RecordKept'
    BY <1>a, <2>1, <2>2, RecordFrame
  <2>6. ProInv'
    BY <1>a, <2>1, <2>2, ProFrame
  <2>7. LifeOwned'
    BY <1>a, <2>2, <2>3 DEF LifeOwned
  <2>8. Told'
    BY <1>a, <1>b, <2>1, <2>2, <2>3 DEF Told, LifeOwned, LocalStored, Cores
  <2> QED
    BY <2>4, <2>5, <2>6, <2>7, <2>8 DEF RsInv
<1>7. CASE EnsureLocal
  <2>1. UNCHANGED <<server, profile, mirror, active, due, acked, edits>>
    BY <1>7 DEF EnsureLocal, LifeStep, Restart, NotRunning
  <2>2. /\ life.pc = "ensure" /\ cache' = Served(life.rec.src) /\ UNCHANGED <<rec, sub, pro, core, faults>>
        /\ slips' \in {slips, slips \union {"cache"}}
    BY <1>7 DEF EnsureLocal
  <2>3. /\ life' \in LifeOps /\ life'.pc = "start" /\ life'.by = life.by /\ life'.rec = life.rec
        /\ life'.prof = life.prof
    BY <1>7, <1>b DEF EnsureLocal, LifeOps
  <2>4. life.rec.src \in Texts /\ cache' = <<life.rec.src, 0>> /\ cache' \in Documents
    BY <1>a, <2>2, ServedType, RsSourceAssumption DEF LifeOwned, Served, SourceNames
  <2>5. RsTypeOK'
    BY <1>a, <1>b, <2>1, <2>2, <2>3, <2>4 DEF RsTypeOK, Maybe
  <2>6. RecordKept'
    BY <1>a, <2>1, <2>2, RecordFrame
  <2>7. ProInv'
    BY <1>a, <2>1, <2>2, ProFrame
  <2>8. LifeOwned'
    BY <1>a, <2>2, <2>3 DEF LifeOwned
  <2>9. Told'
    BY <1>a, <2>1, <2>2, <2>3, <2>4 DEF Told, LocalStored, SubUntold, LifeOwned
  <2> QED
    BY <2>5, <2>6, <2>7, <2>8, <2>9 DEF RsInv
<1>8. CASE Starts
  <2>1. UNCHANGED <<server, profile, mirror, active, due, acked, edits>>
    BY <1>8 DEF Starts, LifeStep, Restart, NotRunning
  <2>2. life.pc = "start" /\ UNCHANGED <<rec, cache, slips, faults>>
    BY <1>8 DEF Starts
  <2>3. life' \in LifeOps /\ life'.pc = "free" /\ life'.by = "none"
    BY <1>8, Frees DEF Starts, CallerResumes
  <2>4. /\ sub' \in SubOps
        /\ IF life.by = "sub" THEN sub.pc = "wait" /\ sub'.pc = "free" /\ sub'.kind = "none" ELSE sub' = sub
    BY <1>8, <1>a, <1>b, Frees DEF Starts, CallerResumes, LifeOwned
  <2>5. /\ core' \in Cores /\ core'.on = TRUE /\ core'.held = FALSE /\ core'.prof = life.prof
        /\ core'.prov = IF life.rec.on THEN cache ELSE Nothing
    BY <1>8, <1>a, RsFields DEF Starts, Cores, RsTypeOK, Maybe
  <2>6. pro' \in ProOps /\ (pro' = pro \/ (pro.pc = "wait" /\ pro'.pc \in {"free", "meta"}))
    <3>1. CASE life.by = "pro"
      <4>1. pro.pc = "wait" /\ pro' = ProResumes
        BY <1>8, <1>a, <3>1 DEF Starts, CallerResumes, LifeOwned
      <4> QED
        BY <1>b, <4>1, Resumed, Frees
    <3>2. CASE life.by # "pro"
      <4>1. pro' = pro
        BY <1>8, <3>2 DEF Starts, CallerResumes
      <4> QED
        BY <1>b, <4>1
    <3> QED
      BY <3>1, <3>2
  <2>7. \/ pro' = pro
        \/ /\ pro.pc = "wait" /\ pro.kind = "refresh" /\ pro'.pc = "meta"
           /\ pro'.kind = pro.kind /\ pro'.meta = pro.meta /\ pro'.was = pro.was /\ pro'.got = pro.got /\ pro'.old = pro.old
        \/ pro.pc = "wait" /\ pro.kind # "refresh" /\ pro' = ProFree
    BY <1>8, <1>a, <1>b, Resumed DEF Starts, CallerResumes, LifeOwned
  <2>8. ProFree.pc = "free" /\ ProFree.kind = "none" /\ ProFree.meta.etag = Nothing /\ ProFree.was.etag = Nothing
    BY Frees
  <2>9. RsTypeOK'
    BY <1>a, <1>b, <2>1, <2>2, <2>3, <2>4, <2>5, <2>6 DEF RsTypeOK
  <2>10. RecordKept'
    BY <1>a, <2>1, <2>2, <2>4 DEF RecordKept
  <2>11. ProInv'
    BY <1>a, <1>b, <2>1, <2>2, <2>7, <2>8, ProFrame, ProEnds, ProGoesOn
  <2>12. LifeOwned'
    BY <2>3, <2>5 DEF LifeOwned
  <2>13. Told'
    BY <1>a, <2>1, <2>2, <2>3, <2>4, <2>5, <2>6 DEF Told, LocalStored, SubUntold
  <2> QED
    BY <2>9, <2>10, <2>11, <2>12, <2>13 DEF RsInv
<1>9. CASE StartFails
  <2>1. UNCHANGED <<server, profile, mirror, active, due, acked, edits>>
    BY <1>9 DEF StartFails, LifeStep, Restart, NotRunning
  <2>2. faults' = faults \/ Fault => faults' \in 0 .. MaxFaults
    BY <1>a, RsCounted
  <2>3. /\ life.pc # "free" /\ Fault /\ UNCHANGED <<rec, cache>>
        /\ \/ core'.on = FALSE /\ core'.held = FALSE /\ slips' = slips
           \/ core'.on = TRUE /\ slips' = slips \union {"told"}
        /\ core' \in Cores
    <3>1. [core EXCEPT !.held = TRUE] \in Cores /\ (core.on => [core EXCEPT !.held = TRUE].on)
      BY <1>b DEF Cores
    <3>2. PreviousAgain \in Cores /\ (core.on => PreviousAgain.on)
      BY <1>a, <1>b DEF PreviousAgain, Cores, RsTypeOK, Maybe
    <3>3. CASE core' = CoreOff /\ UNCHANGED slips
      BY <1>9, <3>3, Frees DEF StartFails
    <3>4. CASE /\ core.on /\ slips' = slips \union {"told"}
               /\ core' \in {core, [core EXCEPT !.held = TRUE], PreviousAgain}
      <4>1. core' \in Cores /\ core'.on
        BY <1>b, <3>1, <3>2, <3>4
      <4>2. core'.on = TRUE
        BY <4>1 DEF Cores
      <4> QED
        BY <1>9, <3>4, <4>1, <4>2 DEF StartFails
    <3> QED
      BY <1>9, <3>3, <3>4 DEF StartFails
  <2>4. life' \in LifeOps /\ life'.pc = "free" /\ life'.by = "none"
    BY <1>9, Frees DEF StartFails, CallerResumes
  <2>5. /\ sub' \in SubOps
        /\ IF life.by = "sub" THEN sub.pc = "wait" /\ sub'.pc = "free" /\ sub'.kind = "none" ELSE sub' = sub
    BY <1>9, <1>a, <1>b, Frees DEF StartFails, CallerResumes, LifeOwned
  <2>6. pro' = pro \/ (pro.pc = "wait" /\ pro' = ProFree)
    BY <1>9, <1>a DEF StartFails, CallerResumes, LifeOwned
  <2>7. /\ ProFree \in ProOps /\ ProFree.pc = "free" /\ ProFree.kind = "none" /\ ProFree.meta.etag = Nothing
        /\ ProFree.was.etag = Nothing
    BY Frees
  <2>8. RsTypeOK'
    BY <1>a, <1>b, <2>1, <2>2, <2>3, <2>4, <2>5, <2>6, <2>7 DEF RsTypeOK
  <2>9. RecordKept'
    BY <1>a, <2>1, <2>3, <2>5 DEF RecordKept
  <2>10. ProInv'
    BY <1>a, <1>b, <2>1, <2>3, <2>6, <2>7, ProFrame, ProEnds
  <2>11. LifeOwned'
    BY <2>3, <2>4 DEF LifeOwned
  <2>12. Told'
    BY <1>a, <2>3, <2>4 DEF Told, LifeOwned
  <2> QED
    BY <2>8, <2>9, <2>10, <2>11, <2>12 DEF RsInv
<1>10. CASE PanelStop
  <2>1. UNCHANGED <<server, profile, mirror, active, due, acked, edits>>
    BY <1>10 DEF PanelStop, LifeStep, Restart, NotRunning
  <2>2. /\ life.pc = "free" /\ core' \in Cores /\ core'.on = FALSE /\ core'.held = FALSE
        /\ UNCHANGED <<rec, cache, sub, pro, life, slips, faults>>
    BY <1>10, Frees DEF PanelStop
  <2>3. RsTypeOK'
    BY <1>a, <2>1, <2>2 DEF RsTypeOK
  <2>4. RecordKept'
    BY <1>a, <2>1, <2>2, RecordFrame
  <2>5. ProInv'
    BY <1>a, <2>1, <2>2, ProFrame
  <2>6. LifeOwned'
    BY <1>a, <2>2 DEF LifeOwned
  <2>7. Told'
    BY <2>2 DEF Told
  <2> QED
    BY <2>3, <2>4, <2>5, <2>6, <2>7 DEF RsInv
<1>11. CASE Crash
  <2>1. UNCHANGED <<server, rec, cache, profile, mirror, active, acked, edits>> /\ Fault
    BY <1>11 DEF Crash
  <2>2. faults' = faults \/ Fault => faults' \in 0 .. MaxFaults
    BY <1>a, RsCounted
  <2>3. /\ sub' \in SubOps /\ sub'.pc = "free" /\ sub'.kind = "none" /\ life' \in LifeOps /\ life'.pc = "free"
        /\ life'.by = "none"
        /\ core' \in Cores /\ core'.on = FALSE /\ core'.held = FALSE
    BY <1>11, Frees DEF Crash
  <2>4. /\ pro' \in ProOps /\ pro'.pc = "free" /\ pro'.kind = "none" /\ pro'.meta.etag = Nothing
        /\ pro'.was.etag = Nothing
    BY <1>11, Frees DEF Crash
  <2>5. /\ slips' \subseteq {"told", "cache", "profile"}
        /\ "profile" \notin slips' => "profile" \notin slips /\ ~(pro.pc \in {"meta", "mirror"} /\ pro.got # pro.old)
    BY <1>11, <1>a DEF Crash, RsTypeOK
  <2>6. due' \in [sub : Maybe(Records), pro : Maybe(Metadata)]
    BY <1>11 DEF Crash, Maybe
  <2>7. RsTypeOK'
    BY <1>a, <2>1, <2>2, <2>3, <2>4, <2>5, <2>6 DEF RsTypeOK
  <2>8. RecordKept'
    BY <1>a, <2>1, <2>3 DEF RecordKept
  <2>9. ProInv'
    BY <1>a, <1>b, <2>1, <2>4, <2>5, ProEnds
  <2>10. LifeOwned'
    BY <2>3 DEF LifeOwned
  <2>11. Told'
    BY <2>3 DEF Told
  <2> QED
    BY <2>7, <2>8, <2>9, <2>10, <2>11 DEF RsInv
<1>12. CASE PanelRestart
  <2>1. UNCHANGED <<server, profile, mirror, active, due, acked, edits>>
    BY <1>12 DEF PanelRestart, LifeStep
  <2>2. /\ life.pc = "free" /\ life' = Prepared("panel") /\ slips' = slips \ {"told"}
        /\ core.held = FALSE /\ UNCHANGED <<rec, cache, sub, pro, core, faults>>
    BY <1>12, <1>b DEF PanelRestart, Cores
  <2>3. /\ life' \in LifeOps /\ life'.by = "panel"
        /\ life'.pc = (IF rec.on /\ rec.src \in Texts THEN "ensure" ELSE "start")
        /\ life'.rec = rec /\ life'.prof = mirror
    BY <1>a, <1>b, <2>2, PreparedType DEF RsTypeOK
  <2>4. RsTypeOK'
    BY <1>a, <1>b, <2>1, <2>2, <2>3 DEF RsTypeOK
  <2>5. RecordKept'
    BY <1>a, <2>1, <2>2, RecordFrame
  <2>6. ProInv'
    BY <1>a, <2>1, <2>2, ProFrame
  <2>7. LifeOwned'
    BY <1>a, <1>b, <2>2, <2>3 DEF LifeOwned
  <2>8. Told'
    BY <2>1, <2>2, <2>3 DEF Told, LocalStored
  <2> QED
    BY <2>4, <2>5, <2>6, <2>7, <2>8 DEF RsInv
<1>13. CASE StopFails
  <2>1. UNCHANGED <<server, profile, mirror, active, due, acked, edits>>
    BY <1>13 DEF StopFails, LifeStep
  <2>2. faults' \in 0 .. MaxFaults
    BY <1>13, <1>a, RsCounted DEF StopFails
  <2>3. /\ UNCHANGED <<rec, cache, life>> /\ slips' = slips \union {"told"} /\ life.pc = "free"
        /\ core' \in Cores /\ core'.on = TRUE
        /\ \/ sub' = sub /\ pro' = pro
           \/ sub.pc = "tell" /\ sub' = SubFree /\ pro' = pro
           \/ pro.pc = "tell" /\ pro' = ProFree /\ sub' = sub
    BY <1>13, <1>b DEF StopFails, Cores
  <2>4. /\ SubFree \in SubOps /\ SubFree.pc = "free" /\ SubFree.kind = "none" /\ ProFree \in ProOps
        /\ ProFree.pc = "free"
        /\ ProFree.kind = "none" /\ ProFree.meta.etag = Nothing /\ ProFree.was.etag = Nothing
    BY Frees
  <2>5. RsTypeOK'
    BY <1>a, <1>b, <2>1, <2>2, <2>3, <2>4 DEF RsTypeOK
  <2>6. RecordKept'
    BY <1>a, <2>1, <2>3, <2>4 DEF RecordKept
  <2>7. ProInv'
    <3>1. CASE pro' = pro
      BY <1>a, <2>1, <2>3, <3>1, ProFrame
    <3>2. CASE pro.pc = "tell" /\ pro' = ProFree
      BY <1>a, <1>b, <2>1, <2>3, <2>4, <3>2, ProEnds
    <3> QED
      BY <2>3, <3>1, <3>2
  <2>8. LifeOwned'
    BY <1>a, <2>3, <2>4 DEF LifeOwned
  <2>9. Told'
    BY <2>3 DEF Told
  <2> QED
    BY <2>5, <2>6, <2>7, <2>8, <2>9 DEF RsInv
<1> QED
  BY <1>1, <1>2, <1>3, <1>4, <1>5, <1>6, <1>7, <1>8, <1>9, <1>10, <1>11, <1>12, <1>13

\* The invariants hold when the manager is installed.
LEMMA RsStart == RsInit => RsInv /\ CacheInv
<1> SUFFICES ASSUME RsInit PROVE RsInv /\ CacheInv
  OBVIOUS
<1>1. /\ rec = NoRecord /\ cache = Nothing /\ sub = SubFree /\ pro = ProFree /\ life = LifeFree /\ core = CoreOff
      /\ slips = {} /\ edits = 0 /\ faults = 0 /\ active \in BOOLEAN
      /\ mirror = (IF active THEN profile.content ELSE Nothing)
      /\ due = [sub |-> Nothing, pro |-> Nothing] /\ server = [u \in Urls |-> 0]
      /\ acked = [src |-> Nothing, on |-> FALSE, url |-> Nothing, content |-> profile.content]
  BY DEF RsInit
<1>2. PICK t \in Texts : profile = [content |-> <<t, 0>>, meta |-> NoMeta]
  BY DEF RsInit
<1>3. profile.content \in Documents /\ profile.meta = NoMeta /\ profile \in [content : Documents, meta : Metadata]
  BY <1>2, Frees, RsBoundAssumption DEF Documents, SourceNames
<1>4. server \in [Urls -> 0 .. MaxVersion] /\ edits \in 0 .. MaxEdits /\ faults \in 0 .. MaxFaults
  BY <1>1, RsBoundAssumption
<1>5. acked \in Acks
  BY <1>1, <1>3 DEF Acks, Maybe
<1>6. /\ due \in [sub : Maybe(Records), pro : Maybe(Metadata)] /\ mirror \in Maybe(Documents)
      /\ cache \in Maybe(Documents)
  BY <1>1, <1>3 DEF Maybe
<1>7. RsTypeOK
  BY <1>1, <1>3, <1>4, <1>5, <1>6, Frees DEF RsTypeOK
<1>8. RecordKept /\ LifeOwned /\ Told
  BY <1>1, Frees DEF RecordKept, LifeOwned, Told
<1>9. ProInv
  BY <1>1, <1>3, Frees
  DEF ProInv, ProCopies, Rewritten, EditPublished, SameText, ProValidators, Issued, Covered, MirrorPaired
<1>10. CacheInv
  BY <1>1, Frees, RsSourceAssumption DEF CacheInv, KindKept, Validated, CachePaired, Covered
<1> QED
  BY <1>7, <1>8, <1>9, <1>10 DEF RsInv

\* A step that neither writes the cache nor the registry nor reaches either.
LEMMA CacheQuiet ==
    ASSUME CacheInv, UNCHANGED <<rec, cache>>, sub.pc # "save", sub'.pc \in {"free", "drop", "tell", "wait"},
           "cache" \in slips => "cache" \in slips'
    PROVE  CacheInv'
BY DEF CacheInv, KindKept, Validated, CachePaired, Covered, Covers

\* Every step pairs the cache with the validators.
LEMMA CacheStep ==
    ASSUME RsInv, CacheInv, [RsNext]_rsVars
    PROVE  CacheInv'
<1>a. RsTypeOK /\ RecordKept /\ LifeOwned /\ KindKept /\ CachePaired
  BY DEF RsInv, CacheInv
<1>b. rec \in Records /\ sub \in SubOps /\ sub.rec \in Records /\ cache \in Maybe(Documents)
  BY <1>a, RsFields DEF RsTypeOK
<1>1. ASSUME NEW src \in SourceNames, SubCreate(src) PROVE CacheInv'
  <2>1. /\ sub.pc = "free" /\ sub'.pc = "fetch" /\ sub'.kind = "create" /\ sub'.rec.etag = Nothing
        /\ rec.src = Nothing /\ UNCHANGED <<rec, cache, life, slips>>
    BY <1>1 DEF SubCreate, SubBegin, hostVars
  <2> QED
    BY <1>a, <2>1 DEF CacheInv, KindKept, Validated, CachePaired, Covered, Covers
<1>2. ASSUME NEW src \in SourceNames, SubPatch(src) PROVE CacheInv'
  <2>1. /\ sub.pc = "free" /\ sub'.pc = "fetch" /\ sub'.kind = "patch" /\ sub'.rec.etag = Nothing
        /\ sub'.rec.src = src
        /\ UNCHANGED <<rec, cache, life, slips>>
    BY <1>2, <1>b DEF SubPatch, SubBegin, hostVars, Records
  <2> QED
    BY <1>a, <2>1 DEF CacheInv, KindKept, Validated, CachePaired, Covered, Covers
<1>3. CASE SubToggle
  <2>1. /\ sub.pc = "free" /\ sub'.pc = "save" /\ sub'.kind = "toggle" /\ sub'.rec.etag = rec.etag
        /\ sub'.rec.src = rec.src /\ sub'.changed = FALSE /\ UNCHANGED <<rec, cache, life, slips>>
    BY <1>3, <1>b DEF SubToggle, SubBegin, hostVars, Records
  <2> QED
    BY <1>a, <2>1 DEF CacheInv, KindKept, Validated, CachePaired, Covered, Covers
<1>4. CASE SubDelete
  <2>1. /\ sub.pc = "free" /\ sub'.pc = "save" /\ sub'.kind = "delete" /\ sub'.rec.etag = Nothing
        /\ sub'.rec.src = Gone /\ sub'.changed = FALSE /\ UNCHANGED <<rec, cache, life, slips>>
    BY <1>4 DEF SubDelete, SubBegin, hostVars, NoRecord
  <2> QED
    BY <1>a, <2>1 DEF CacheInv, KindKept, Validated, CachePaired, Covered, Covers
<1>5. ASSUME NEW by \in {"user", "sched"}, SubRefresh(by) PROVE CacheInv'
  <2>1. /\ sub.pc = "free" /\ sub'.pc = "fetch" /\ sub'.kind = "refresh" /\ sub'.rec = rec
        /\ UNCHANGED <<rec, cache, life, slips>>
    BY <1>5 DEF SubRefresh, SubLoaded, SubBegin, hostVars
  <2> QED
    BY <1>a, <2>1 DEF CacheInv, KindKept, Validated, CachePaired, Covered, Covers
<1>6. CASE SubFetched
  <2>1. sub.pc = "fetch" /\ UNCHANGED <<rec, cache, life, slips>>
    BY <1>6 DEF SubFetched, hostVars
  <2>2. CASE sub.kind = "refresh" /\ sub.rec.src \in Urls /\ sub.rec.etag = Served(sub.rec.src)
    <3>1. sub'.pc = "save" /\ sub'.kind = sub.kind /\ sub'.rec = sub.rec /\ sub.rec.etag = rec.etag
      BY <1>6, <1>a, <1>b, <2>1, <2>2 DEF SubFetched, SubOps, RecordKept
    <3> QED
      BY <1>a, <2>1, <2>2, <3>1 DEF CacheInv, KindKept, Validated, CachePaired, Covered, Covers
  <2>3. CASE ~(sub.kind = "refresh" /\ sub.rec.src \in Urls /\ sub.rec.etag = Served(sub.rec.src))
    <3>1. /\ sub'.pc = "write" /\ sub'.kind = sub.kind /\ sub'.rec.src = sub.rec.src
          /\ sub'.rec.etag # Nothing => sub.rec.src \in Urls
      BY <1>6, <1>b, <2>3 DEF SubFetched, SubOps, Records
    <3> QED
      BY <1>a, <2>1, <3>1 DEF CacheInv, KindKept, Validated, CachePaired, Covered, Covers
  <2> QED
    BY <2>2, <2>3
<1>7. CASE SubFetchFails
  BY <1>7, Frees, CacheQuiet DEF SubFetchFails, hostVars
<1>8. CASE SubWrite
  <2>1. /\ sub.pc = "write" /\ cache' = SubGot /\ sub'.pc = "save" /\ sub'.kind = sub.kind /\ sub'.rec = sub.rec
        /\ (sub'.changed \/ cache' = cache) /\ UNCHANGED <<rec, life, slips>>
    BY <1>8, <1>b DEF SubWrite, SubOps, hostVars
  <2>2. Covered(SubGot, sub.rec.etag)
    <3>1. CASE sub.rec.src \in Urls
      <4>1. SubGot = sub.rec.etag
        BY <3>1 DEF SubGot
      <4>2. sub.rec.etag # Nothing => sub.rec.etag \in Documents
        BY <1>b DEF Records, Maybe
      <4> QED
        BY <4>1, <4>2, CoversItself DEF Covered
    <3>2. CASE sub.rec.src \notin Urls
      BY <1>a, <2>1, <3>2 DEF KindKept, Validated, Covered
    <3> QED
      BY <3>1, <3>2
  <2> QED
    BY <1>a, <2>1, <2>2 DEF CacheInv, KindKept, Validated, CachePaired, Covered, Covers
<1>9. CASE SubWriteFails
  <2>1. sub.pc = "write" /\ UNCHANGED <<rec, cache, life>>
    BY <1>9 DEF SubWriteFails, hostVars
  <2>2. CASE sub.kind = "refresh"
    <3>1. /\ sub'.pc = "save" /\ sub'.kind = sub.kind /\ sub'.rec = sub.rec /\ "cache" \in slips'
      BY <1>9, <1>b, <2>2 DEF SubWriteFails, SubOps
    <3> QED
      BY <1>a, <2>1, <3>1 DEF CacheInv, KindKept, Validated, CachePaired
  <2>3. CASE sub.kind # "refresh"
    BY <1>9, <2>1, <2>3, Frees, CacheQuiet DEF SubWriteFails
  <2> QED
    BY <2>2, <2>3
<1>10. CASE SubSave
  <2>1. /\ sub.pc = "save" /\ rec' = sub.rec /\ sub'.pc \in {"drop", "tell", "free"} /\ UNCHANGED <<cache, life>>
        /\ "cache" \in slips' <=> "cache" \in slips /\ sub.rec.etag # cache
    BY <1>10, <1>b, Frees DEF SubSave, SubOps, hostVars
  <2>2. KindKept'
    BY <1>a, <2>1 DEF KindKept, Validated
  <2>3. cache = sub.rec.etag => Covered(cache, sub.rec.etag)
    BY <1>b, CoversItself DEF Covered, Maybe
  <2>4. "cache" \notin slips' => Covered(cache, sub.rec.etag)
    BY <1>a, <2>1, <2>3 DEF CachePaired
  <2> QED
    BY <2>1, <2>2, <2>4 DEF CacheInv, CachePaired, Covered, Covers
<1>11. CASE SubSaveFails
  <2>1. /\ sub.pc = "save" /\ sub'.pc = "free" /\ UNCHANGED <<rec, cache, life>>
        /\ "cache" \notin slips' => ~sub.changed /\ "cache" \notin slips
    BY <1>11, Frees DEF SubSaveFails, hostVars
  <2> QED
    BY <1>a, <2>1 DEF CacheInv, KindKept, Validated, CachePaired, Covered, Covers
<1>12. CASE SubDrop
  <2>1. sub.pc = "drop" /\ sub'.pc \in {"tell", "free"} /\ UNCHANGED <<rec, life>> /\ rec.etag = Nothing
    BY <1>12, <1>a, <1>b, Frees DEF SubDrop, SubOps, hostVars, RecordKept
  <2> QED
    BY <1>a, <2>1 DEF CacheInv, KindKept, Validated, CachePaired, Covered
<1>13. CASE EnsureLocal
  <2>1. UNCHANGED <<rec, sub>>
    BY <1>13 DEF EnsureLocal
  <2>2. "cache" \notin slips' => rec.src \notin Urls /\ (sub.pc = "save" => sub.rec.src \notin Urls)
    BY <1>13 DEF EnsureLocal
  <2> QED
    BY <1>a, <2>1, <2>2 DEF CacheInv, KindKept, Validated, CachePaired, Covered
<1>14. CASE PanelStart \/ ProRestarts \/ PanelRestart
  <2>1. UNCHANGED <<rec, cache, sub>> /\ ("cache" \in slips => "cache" \in slips')
    BY <1>14 DEF PanelStart, ProRestarts, Restart, PanelRestart
  <2> QED
    BY <2>1, CacheFrame
<1>15. CASE SubRestarts
  <2>1. /\ UNCHANGED <<rec, cache>> /\ ("cache" \in slips => "cache" \in slips')
        /\ sub.pc = "tell" /\ sub'.pc = "wait"
    BY <1>15, <1>b DEF SubRestarts, Restart, SubOps
  <2> QED
    BY <2>1, CacheQuiet
<1>16. CASE SubNotRunning
  BY <1>16, Frees, CacheQuiet DEF SubNotRunning, NotRunning, hostVars
<1>17. CASE GiveUp \/ StopFails \/ SubDropFails
  <2>1. UNCHANGED <<rec, cache>> /\ slips \subseteq slips'
    BY <1>17 DEF GiveUp, StopFails, SubDropFails, hostVars
  <2>2. sub' = sub \/ (sub.pc \in {"tell", "drop"} /\ sub' = SubFree)
    BY <1>17 DEF GiveUp, StopFails, SubDropFails
  <2> QED
    BY <2>1, <2>2, Frees, CacheQuiet, CacheFrame
<1>18. CASE Starts \/ StartFails
  <2>1. /\ UNCHANGED <<rec, cache>> /\ slips \subseteq slips'
        /\ sub' = sub \/ (sub.pc = "wait" /\ sub' = SubFree)
    BY <1>18, <1>a DEF Starts, StartFails, CallerResumes, LifeOwned
  <2> QED
    BY <2>1, Frees, CacheQuiet, CacheFrame
<1>19. CASE Crash
  <2>1. /\ sub'.pc = "free" /\ UNCHANGED <<rec, cache>>
        /\ "cache" \notin slips' => ~sub.changed /\ "cache" \notin slips
    BY <1>19, Frees DEF Crash
  <2> QED
    BY <1>a, <2>1 DEF CacheInv, KindKept, Validated, CachePaired, Covered, Covers
<1>20. CASE UNCHANGED <<rec, cache, sub, life, slips>>
  BY <1>20, CacheFrame
<1>21. SubListed \/ SubRefreshMissing \/ PanelStop \/ ProNotRunning => UNCHANGED <<rec, cache, sub, life, slips>>
  BY DEF SubListed, SubRefreshMissing, PanelStop, ProNotRunning, NotRunning, subVars, hostVars
<1>22. ASSUME NEW u \in Urls, Publish(u) \/ ProPatch(u) PROVE UNCHANGED <<rec, cache, sub, life, slips>>
  BY <1>22 DEF Publish, ProPatch, ProBegin, subVars, hostVars
<1>23. ASSUME NEW t \in Texts, ProText(t) PROVE UNCHANGED <<rec, cache, sub, life, slips>>
  BY <1>23 DEF ProText, ProBegin, subVars, hostVars
<1>24. ASSUME NEW by \in {"user", "sched"}, ProRefresh(by) PROVE UNCHANGED <<rec, cache, sub, life, slips>>
  BY <1>24 DEF ProRefresh, ProBegin, subVars, hostVars
<1>25. CASE \/ ProDetach \/ ProListed \/ ProRefreshLocal \/ ProFetched \/ ProFetchFails \/ ProStore \/ ProMeta
           \/ ProMetaFails \/ ProMirror \/ ProMirrorFails
  <2>1. UNCHANGED <<rec, cache, sub, life>> /\ ("cache" \in slips => "cache" \in slips')
    BY <1>25
    DEF ProDetach, ProListed, ProRefreshLocal, ProFetched, ProFetchFails, ProStore, ProMeta, ProMetaFails,
        ProMirror, ProMirrorFails, RestoredSlips, ProStep, subVars, hostVars
  <2> QED
    BY <2>1, CacheFrame
<1>26. CASE UNCHANGED rsVars
  BY <1>26, <1>20 DEF rsVars
<1> QED
  BY <1>1, <1>2, <1>3, <1>4, <1>5, <1>6, <1>7, <1>8, <1>9, <1>10, <1>11, <1>12, <1>13, <1>14, <1>15, <1>16,
     <1>17, <1>18, <1>19, <1>20, <1>21, <1>22, <1>23, <1>24, <1>25, <1>26 DEF RsNext

\* Every step keeps the invariant of the edits, the profile and the running core.
LEMMA RsStep == RsInv /\ [RsNext]_rsVars => RsInv'
<1>1. RsInv /\ UNCHANGED rsVars => RsInv'
  BY DEF rsVars, RsInv, RsTypeOK, RecordKept, Exists, ProInv, ProCopies, EditPublished, SameText, ProValidators,
         Issued, Covered, Covers, MirrorPaired, LifeOwned, Told, SubUntold, LocalStored, Rewritten
<1> QED
  BY <1>1, SubSteps, ProSteps, LifeSteps DEF RsNext

\* The registry, the profile with its mirror, the running core and whatever mutates them stay in
\* step: RsInv holds in every state, for every set of sources, versions and faults.
THEOREM RsInvariant == RsSpec => []RsInv
BY RsStart, RsStep, PTL DEF RsSpec

\* A published edit of a subscription or a profile is never undone: no refresh that a
\* scheduler had planned before it brings back the source that it replaced, deleted or
\* disabled, and no refresh touches the text of a profile without a source; for the profile,
\* as long as no crash or failing rollback cut an edit of it in two.
THEOREM EditsKeptHolds == RsSpec => []EditsKept
<1>1. RsInv => EditsKept
  <2> SUFFICES ASSUME RsInv PROVE EditsKept
    OBVIOUS
  <2>1. rec.src = acked.src /\ rec.on = acked.on
    BY DEF RsInv, RecordKept
  <2>2. EditPublished
    BY DEF RsInv, ProInv
  <2> QED
    BY <2>1, <2>2 DEF EditsKept, EditPublished, SameText, ProIdle, Rewritten
<1> QED
  BY <1>1, RsInvariant, PTL

\* When nothing is in progress and nothing was left behind, a running core has the cache of
\* the enabled subscription and the selected profile as they are stored.
THEOREM CoreServesStoredHolds == RsSpec => []CoreServesStored
<1>1. RsInv => CoreServesStored
  <2> SUFFICES ASSUME RsInv, SubIdle, ProIdle, life.pc = "free", core.on, "told" \notin slips
               PROVE  /\ core.prov = (IF rec.on THEN cache ELSE Nothing)
                      /\ rec.on /\ rec.src \in Texts => cache = Served(rec.src)
                      /\ active /\ "profile" \notin slips => core.prof = mirror /\ mirror = profile.content
    BY DEF CoreServesStored
  <2>1. Told /\ MirrorPaired
    BY DEF RsInv, ProInv
  <2>2. sub.pc = "free" /\ pro.pc = "free"
    BY DEF SubIdle, ProIdle
  <2>3. rec.src \in Texts => Served(rec.src) = <<rec.src, 0>>
    BY RsSourceAssumption DEF Served
  <2> QED
    BY <2>1, <2>2, <2>3 DEF Told, SubUntold, LocalStored, MirrorPaired
<1> QED
  BY <1>1, RsInvariant, PTL

\* A recorded validator never runs ahead of the stored document, so no conditional request
\* can be answered "not modified" over older content; but for a failed write, a crash or a
\* start that rebuilt a share link's cache over that of the URL it had just become.
THEOREM ValidatorHonestHolds == RsSpec => []ValidatorHonest
<1>1. RsInit => RsInv /\ CacheInv
  BY RsStart
<1>2. RsInv /\ CacheInv /\ [RsNext]_rsVars => (RsInv /\ CacheInv)'
  BY RsStep, CacheStep
<1>3. RsInv /\ CacheInv => ValidatorHonest
  BY DEF RsInv, ProInv, ProValidators, CacheInv, CachePaired, ValidatorHonest, SubIdle, ProIdle, Covered
<1> QED
  BY <1>1, <1>2, <1>3, PTL DEF RsSpec

(***************************************************************************)
(* ExternalDashboard: the published tree survives every power cut, and a   *)
(* disabled dashboard answers nobody.                                      *)
(***************************************************************************)

-----------------------------------------------------------------------------
(* The dashboard directory.                                                *)

\* A directory with a complete tree in place or put aside.
Whole(d) == \E n \in {"ui"} \union Backups : d[n] \in Releases
LeftIn(d) == {n \in Backups : d[n] # None}
\* A directory from which the recovery needs no help.
Recoverable(d) ==
    d["ui"] \in Releases \/ LeftIn(d) = {} \/ (d["ui"] = None /\ \E n \in Backups : LeftIn(d) = {n})
\* What each directory a power cut may leave is, given what was published and what failed.
SoundDirectory(d, published, failures) ==
    /\ d \in Directories
    /\ \A n \in Names \ {"staged"} : d[n] # "raw"
    /\ published => Whole(d)
    /\ failures = 0 => Recoverable(d)
DiskSound == dir \in may /\ \A d \in may : SoundDirectory(d, had, fileFaults)

\* Until the former tree goes aside it is in place; then it is in the backup.
Planning == {"latest", "extract", "sync", "moveOld"}
Swapping == {"moveNew", "durable", "undoNew", "undoOld"}
PublishSound ==
    /\ job.pc \in {"extract", "sync"} => job.new \in Releases
    /\ job.pc = "sync" => dir["staged"] = "raw"
    /\ job.pc \in {"moveOld", "moveNew"} => dir["staged"] \in Releases
    /\ job.pc \in {"moveNew", "undoOld"} => dir["ui"] = None
    /\ job.pc = "durable" => dir["ui"] \in Releases
    /\ job.pc = "drop" => had /\ \A d \in may : d["ui"] \in Releases
    /\ job.pc \in {"drop", "undoOld"} => job.old \in Backups
    /\ had /\ job.pc \in Planning => dir["ui"] \in Releases
    /\ had /\ job.pc \in Swapping => job.old \in Backups /\ dir[job.old] \in Releases

\* Without a failed operation nothing is left behind but what a recovery puts back.
CutsSound ==
    fileFaults = 0 =>
        /\ ~err
        /\ job.pc \in Planning \/ (up /\ job.pc = "idle") => Left = {}
        /\ job.pc \in {"moveNew", "durable", "drop"} => Left \subseteq {job.old}
        /\ job.pc \notin {"undoNew", "undoOld", "undoSync", "clean"}

DashInv == DashTypeOK /\ DiskSound /\ PublishSound /\ CutsSound /\ DisabledMeansRevoked

-----------------------------------------------------------------------------
(* Lemmas about names, records and counters.                               *)

LEMMA NameFacts ==
    /\ Backups \subseteq Names /\ "ui" \in Names /\ "staged" \in Names /\ "failed" \in Names
    /\ "ui" \notin Backups /\ "staged" \notin Backups /\ "failed" \notin Backups
    /\ "ui" # "staged" /\ "ui" # "failed" /\ None \notin Backups /\ None \notin Trees
BY DashNoneAssumption DEF Names, Backups, Trees

LEMMA JobFields ==
    ASSUME job \in Jobs
    PROVE  job.pc \in Pcs /\ job.boot \in BOOLEAN /\ job.new \in Releases \union {None}
           /\ job.old \in Backups \union {None}
BY DEF Jobs

LEMMA NoJobFacts == NoJob \in Jobs /\ NoJob.pc = "idle" /\ NoJob.new = None /\ NoJob.old = None
BY DEF NoJob, Jobs, Pcs

LEMMA DashGoto ==
    ASSUME job \in Jobs, NEW pc \in Pcs, Goto(pc)
    PROVE  job' \in Jobs /\ job'.pc = pc /\ job'.new = job.new /\ job'.old = job.old
BY DEF Goto, Jobs, Pcs

LEMMA Counted ==
    ASSUME DashTypeOK, Same \/ FileFault
    PROVE  /\ fileFaults' \in Nat /\ fileFaults \in Nat /\ fileFaults' \in 0 .. MaxFileFaults
           /\ installs' = installs /\ cuts' = cuts
           /\ fileFaults' = 0 => fileFaults = 0
           /\ FileFault => fileFaults' # 0
BY DashBoundAssumption DEF DashTypeOK, Same, FileFault, counts

\* The fields no step of a job touches.
LEMMA Framed ==
    ASSUME DashTypeOK, DisabledMeansRevoked, Keeps, Same \/ FileFault, DiskSound',
           err' \in BOOLEAN, had' \in BOOLEAN, job' \in Jobs
    PROVE  DashTypeOK' /\ DisabledMeansRevoked' /\ up' = up
<1>1. may' \subseteq Directories /\ dir' \in may' /\ dir' \in Directories
  BY DEF DiskSound, SoundDirectory
<1>2. fileFaults' \in 0 .. MaxFileFaults /\ installs' = installs /\ cuts' = cuts
  BY Counted
<1>3. QED
  BY <1>1, <1>2 DEF DashTypeOK, DisabledMeansRevoked, Keeps, scope

-----------------------------------------------------------------------------
(* What the three ways to change the directory keep.                       *)

LEMMA SoundForMore ==
    ASSUME NEW d, NEW p, NEW f, NEW g, SoundDirectory(d, p, f), g = 0 => f = 0
    PROVE  SoundDirectory(d, p, g)
BY DEF SoundDirectory

LEMMA Untouched ==
    ASSUME DashTypeOK, DiskSound, UNCHANGED <<disk, had>>, Same \/ FileFault
    PROVE  DiskSound' /\ dir' = dir
<1>1. dir' = dir /\ may' = may /\ had' = had
  BY DEF disk
<1>2. QED
  BY <1>1, Counted, SoundForMore DEF DiskSound

LEMMA PutSound ==
    ASSUME DashTypeOK, DiskSound, NEW x, Put(x), had' = had, Same \/ FileFault,
           SoundDirectory(x, had, fileFaults')
    PROVE  DiskSound' /\ dir' = x /\ may' = may \union {x}
<1>1. dir' = x /\ may' = may \union {x}
  BY DEF Put
<1>2. \A d \in may : SoundDirectory(d, had, fileFaults')
  BY Counted, SoundForMore DEF DiskSound
<1>3. QED
  BY <1>1, <1>2 DEF DiskSound

LEMMA PutDurablySound ==
    ASSUME NEW x, PutDurably(x), SoundDirectory(x, had', fileFaults')
    PROVE  DiskSound' /\ dir' = x /\ may' = {x}
BY DEF PutDurably, DiskSound

LEMMA Present ==
    ASSUME DiskSound
    PROVE  dir \in may /\ SoundDirectory(dir, had, fileFaults) /\ dir \in Directories
BY DEF DiskSound, SoundDirectory

LEMMA LeftIsLeftIn == Left = LeftIn(dir)
BY DEF Left, LeftIn

\* Only what lies under ui and the backup names decides what a directory is worth.
LEMMA SameShelves ==
    ASSUME NEW d \in Directories, NEW e \in Directories, NEW p, NEW f, SoundDirectory(d, p, f),
           \A n \in {"ui"} \union Backups : e[n] = d[n], e["failed"] # "raw"
    PROVE  SoundDirectory(e, p, f)
<1>1. LeftIn(e) = LeftIn(d)
  BY DEF LeftIn
<1>2. \A n \in Names \ {"staged"} : e[n] # "raw"
  BY DEF SoundDirectory, Names
<1>3. Whole(d) => Whole(e)
  BY DEF Whole
<1>4. Recoverable(d) => Recoverable(e)
  BY <1>1 DEF Recoverable
<1>5. QED
  BY <1>2, <1>3, <1>4 DEF SoundDirectory

-----------------------------------------------------------------------------
(* Recovery.                                                               *)

LEMMA BootKeeps == ASSUME DashInv, Boot PROVE DashInv'
<1>1. job'.pc = "recover" /\ job' \in Jobs
  BY NoJobFacts DEF Boot, NoJob, Jobs, Pcs
<1>2. /\ UNCHANGED <<dir, may, had, enabled, live, upd, leaked, toggles, installs, cuts, fileFaults>>
      /\ up' = TRUE /\ err' = FALSE
  BY DEF Boot, disk, scope, counts
<1>3. DashTypeOK' /\ DiskSound' /\ DisabledMeansRevoked'
  BY <1>1, <1>2 DEF DashInv, DashTypeOK, DiskSound, DisabledMeansRevoked
<1>4. PublishSound' /\ CutsSound'
  BY <1>1, <1>2 DEF DashInv, PublishSound, CutsSound, Planning, Swapping
<1>5. QED
  BY <1>3, <1>4 DEF DashInv

LEMMA BeginKeeps == ASSUME DashInv, Begin PROVE DashInv'
<1>1. job'.pc = "recover" /\ job' \in Jobs
  BY NoJobFacts DEF Begin, NoJob, Jobs, Pcs
<1>2. UNCHANGED <<dir, may, had, up, err, enabled, live, upd, leaked, toggles, cuts, fileFaults>>
  BY DEF Begin, disk, scope
<1>3. installs' \in 0 .. MaxInstalls
  BY DashBoundAssumption DEF DashInv, DashTypeOK, Begin
<1>4. DashTypeOK' /\ DiskSound' /\ DisabledMeansRevoked'
  BY <1>1, <1>2, <1>3 DEF DashInv, DashTypeOK, DiskSound, DisabledMeansRevoked
<1>5. PublishSound' /\ CutsSound'
  BY <1>1, <1>2 DEF DashInv, PublishSound, CutsSound, Planning, Swapping
<1>6. QED
  BY <1>4, <1>5 DEF DashInv

\* A recovery that worked leaves a published tree in place, and nothing aside if nothing failed.
LEMMA RecoveredKeeps ==
    ASSUME DashInv, Recovered, Keeps, Same \/ FileFault, had' = had, DiskSound',
           had => dir'["ui"] \in Releases, fileFaults' = 0 => LeftIn(dir') = {}
    PROVE  DashInv'
<1>1. err' = FALSE /\ job' \in Jobs /\ job'.pc \in {"idle", "latest"}
  BY NoJobFacts, DashGoto DEF Recovered, Pcs, DashInv, DashTypeOK
<1>2. DashTypeOK' /\ DisabledMeansRevoked'
  BY <1>1, Framed DEF DashInv, DashTypeOK
<1>3. PublishSound'
  BY <1>1 DEF PublishSound, Planning, Swapping
<1>4. CutsSound'
  BY <1>1, LeftIsLeftIn DEF CutsSound, Planning, Left, LeftIn
<1>5. QED
  BY <1>2, <1>3, <1>4 DEF DashInv

\* One that did not has an error to show, or had something to put right.
LEMMA NotRecoveredKeeps ==
    ASSUME DashInv, NotRecovered, Keeps, Same \/ FileFault, had' = had, DiskSound', fileFaults' # 0
    PROVE  DashInv'
<1>1. err' \in BOOLEAN /\ job' \in Jobs /\ job'.pc = "idle"
  BY NoJobFacts, JobFields DEF NotRecovered, DashInv, DashTypeOK
<1>2. DashTypeOK' /\ DisabledMeansRevoked'
  BY <1>1, Framed DEF DashInv, DashTypeOK
<1>3. PublishSound' /\ CutsSound'
  BY <1>1 DEF PublishSound, CutsSound, Planning, Swapping
<1>4. QED
  BY <1>2, <1>3 DEF DashInv

LEMMA RecoverNothingKeeps == ASSUME DashInv, RecoverNothing PROVE DashInv'
<1>1. Left = {} /\ Recovered /\ Keeps /\ Same /\ UNCHANGED <<disk, had>>
  BY DEF RecoverNothing
<1>2. DiskSound' /\ dir' = dir
  BY <1>1, Untouched DEF DashInv
<1>3. had => dir["ui"] \in Releases
  BY <1>1, Present, LeftIsLeftIn, DashNoneAssumption DEF DashInv, SoundDirectory, Whole, LeftIn
<1>4. had' = had
  BY <1>1
<1>5. QED
  BY <1>1, <1>2, <1>3, <1>4, RecoveredKeeps, LeftIsLeftIn

\* The directory with its backups removed, all but what may be left under one name.
LEMMA WithoutBackupsSound ==
    ASSUME DashInv, Installed, NEW f
    PROVE  /\ dir["ui"] \in Releases
           /\ SoundDirectory(WithoutBackups, had, f) /\ LeftIn(WithoutBackups) = {}
           /\ WithoutBackups["ui"] = dir["ui"]
           /\ \A n \in Backups : \A t \in {dir[n], "broken"} :
                 /\ SoundDirectory([WithoutBackups EXCEPT ![n] = t], had, f)
                 /\ [WithoutBackups EXCEPT ![n] = t]["ui"] = dir["ui"]
<1>1. dir["ui"] \in Releases /\ dir \in Directories /\ SoundDirectory(dir, had, fileFaults)
  BY Present, NameFacts DEF DashInv, Installed, SoundDirectory
<1>2. /\ WithoutBackups \in Directories /\ WithoutBackups["ui"] = dir["ui"]
      /\ \A n \in Backups : WithoutBackups[n] = None
  BY <1>1, NameFacts DEF WithoutBackups, Directories
<1>3. \A n \in Names \ {"staged"} : WithoutBackups[n] # "raw"
  BY <1>1, NameFacts DEF WithoutBackups, SoundDirectory, Trees
<1>4. SoundDirectory(WithoutBackups, had, f) /\ LeftIn(WithoutBackups) = {}
  BY <1>1, <1>2, <1>3 DEF SoundDirectory, Whole, Recoverable, LeftIn
<1>5. ASSUME NEW n \in Backups, NEW t \in {dir[n], "broken"}
      PROVE  /\ SoundDirectory([WithoutBackups EXCEPT ![n] = t], had, f)
             /\ [WithoutBackups EXCEPT ![n] = t]["ui"] = dir["ui"]
  <2>1. t \in Trees \union {None} /\ t # "raw"
    BY <1>1, NameFacts DEF Directories, Trees, SoundDirectory
  <2>2. [WithoutBackups EXCEPT ![n] = t] \in Directories /\ [WithoutBackups EXCEPT ![n] = t]["ui"] = dir["ui"]
    BY <1>2, <2>1, NameFacts DEF Directories
  <2>3. \A m \in Names \ {"staged"} : [WithoutBackups EXCEPT ![n] = t][m] # "raw"
    BY <1>2, <1>3, <2>1 DEF Directories
  <2>4. QED
    BY <1>1, <2>2, <2>3 DEF SoundDirectory, Whole, Recoverable
<1>6. QED
  BY <1>1, <1>2, <1>4, <1>5

\* A tree under one name gone or in part: what is in place is as before.
LEMMA BreakSound ==
    ASSUME DashInv, NEW n \in Backups, dir["ui"] \in Releases, NEW f, NEW t \in {"broken", None}
    PROVE  SoundDirectory([dir EXCEPT ![n] = t], had, f) /\ [dir EXCEPT ![n] = t]["ui"] = dir["ui"]
           /\ \A m \in Backups \ {n} : [dir EXCEPT ![n] = t][m] = dir[m]
<1>1. dir \in Directories /\ SoundDirectory(dir, had, fileFaults)
  BY Present DEF DashInv
<1>2. [dir EXCEPT ![n] = t] \in Directories /\ [dir EXCEPT ![n] = t]["ui"] = dir["ui"]
      /\ \A m \in Names \ {n} : [dir EXCEPT ![n] = t][m] = dir[m]
  BY <1>1, NameFacts DEF Directories, Trees
<1>3. \A m \in Names \ {"staged"} : [dir EXCEPT ![n] = t][m] # "raw"
  BY <1>1, NameFacts DEF SoundDirectory, Directories, Trees
<1>4. QED
  BY <1>2, <1>3, NameFacts DEF SoundDirectory, Whole, Recoverable

LEMMA RecoverCleansKeeps == ASSUME DashInv, RecoverCleans PROVE DashInv'
<1>1. At("recover") /\ Installed /\ Keeps /\ had' = had /\ dir["ui"] \in Releases /\ had \in BOOLEAN
  BY WithoutBackupsSound DEF RecoverCleans, DashInv, DashTypeOK
<1>2. CASE /\ UNCHANGED <<err, job>> /\ Same
           /\ \E n \in Left : Put([dir EXCEPT ![n] = "broken"])
  <2>1. PICK n \in Backups : Put([dir EXCEPT ![n] = "broken"])
    BY <1>2 DEF Left
  <2>2. DiskSound' /\ dir' = [dir EXCEPT ![n] = "broken"]
    BY <1>1, <1>2, <2>1, BreakSound, PutSound DEF DashInv
  <2>3. DashTypeOK' /\ DisabledMeansRevoked' /\ up' = up
    BY <1>1, <1>2, <2>2, Framed DEF DashInv, DashTypeOK
  <2>4. PublishSound' /\ CutsSound'
    BY <1>1, <1>2, <2>2, <2>3, Counted DEF DashInv, PublishSound, CutsSound, Planning, Swapping, At
  <2>5. QED
    BY <2>2, <2>3, <2>4 DEF DashInv
<1>3. CASE Recovered /\ PutDurably(WithoutBackups) /\ Same
  <2>1. DiskSound' /\ dir' = WithoutBackups
    BY <1>1, <1>3, WithoutBackupsSound, PutDurablySound
  <2>2. QED
    BY <1>1, <1>3, <2>1, WithoutBackupsSound, RecoveredKeeps
<1>4. CASE Recovered /\ FileFault /\ Put(WithoutBackups)
  <2>1. DiskSound' /\ dir' = WithoutBackups
    BY <1>1, <1>4, WithoutBackupsSound, PutSound DEF DashInv
  <2>2. QED
    BY <1>1, <1>4, <2>1, WithoutBackupsSound, RecoveredKeeps
<1>5. CASE /\ Recovered /\ FileFault
           /\ \E n \in Left : \E t \in {dir[n], "broken"} : PutDurably([WithoutBackups EXCEPT ![n] = t])
  <2>0. PICK n \in Backups : \E t \in {dir[n], "broken"} : PutDurably([WithoutBackups EXCEPT ![n] = t])
    BY <1>5 DEF Left
  <2>1. PICK t \in {dir[n], "broken"} : PutDurably([WithoutBackups EXCEPT ![n] = t])
    BY <2>0
  <2>2. DiskSound' /\ dir' = [WithoutBackups EXCEPT ![n] = t]
    BY <1>1, <2>1, WithoutBackupsSound, PutDurablySound
  <2>3. dir'["ui"] = dir["ui"] /\ fileFaults' # 0
    BY <1>1, <1>5, <2>2, WithoutBackupsSound, Counted DEF DashInv
  <2>4. QED
    BY <1>1, <1>5, <2>2, <2>3, RecoveredKeeps
<1>6. QED
  BY <1>2, <1>3, <1>4, <1>5 DEF RecoverCleans

LEMMA RecoverRenamesKeeps == ASSUME DashInv, RecoverRenames PROVE DashInv'
<1>1. At("recover") /\ Keeps /\ had' = had /\ dir["ui"] = None /\ Cardinality(Left) = 1
      /\ SoundDirectory(dir, had, fileFaults) /\ dir \in Directories
  BY Present DEF RecoverRenames, DashInv
<1>2. PICK n \in Left : \/ Recovered /\ PutDurably(Renamed(n, "ui")) /\ Same
                        \/ NotRecovered /\ Put(Renamed(n, "ui")) /\ FileFault
  BY DEF RecoverRenames, RecoverRestores
<1>3. Left = {n} /\ n \in Backups
  <2>1. IsFiniteSet(Backups)
    <3>1. IsFiniteSet({"p1"} \union {"p2"})
      BY FS_Singleton, FS_AddElement
    <3>2. Backups = {"p1"} \union {"p2"}
      BY DEF Backups
    <3>3. QED
      BY <3>1, <3>2
  <2>2. IsFiniteSet(Left)
    BY <2>1, FS_Subset DEF Left
  <2>3. QED
    BY <1>1, <1>2, <2>2, FS_Singleton DEF Left
<1> DEFINE x == Renamed(n, "ui")
<1>4. x \in Directories /\ x["ui"] = dir[n] /\ LeftIn(x) = {} /\ \A m \in Names \ {"ui"} : x[m] \in {dir[m], None}
  <2>1. x = [dir EXCEPT ![n] = None, !["ui"] = dir[n]]
    BY DEF Renamed
  <2>2. x \in Directories /\ x["ui"] = dir[n] /\ x[n] = None /\ \A m \in Names \ {n, "ui"} : x[m] = dir[m]
    BY <1>1, <1>3, <2>1, NameFacts DEF Directories
  <2>3. LeftIn(x) = {}
    BY <1>3, <2>2, NameFacts DEF LeftIn, Left
  <2>4. QED
    BY <2>2, <2>3
<1>5. had => x["ui"] \in Releases
  BY <1>1, <1>3, <1>4, NameFacts DEF SoundDirectory, Whole, Left, Trees
<1>6. \A m \in Names \ {"staged"} : x[m] # "raw"
  BY <1>1, <1>3, <1>4, NameFacts, DashNoneAssumption DEF SoundDirectory
<1>7. \A f : SoundDirectory(x, had, f)
  BY <1>4, <1>5, <1>6 DEF SoundDirectory, Whole, Recoverable
<1> HIDE DEF x
<1>8. CASE Recovered /\ PutDurably(x) /\ Same
  <2>1. DiskSound' /\ dir' = x
    BY <1>1, <1>7, <1>8, PutDurablySound
  <2>2. QED
    BY <1>1, <1>4, <1>5, <1>8, <2>1, RecoveredKeeps
<1>9. CASE NotRecovered /\ Put(x) /\ FileFault
  <2>1. DiskSound'
    BY <1>1, <1>7, <1>9, PutSound DEF DashInv
  <2>2. fileFaults' # 0
    BY <1>9, Counted DEF DashInv
  <2>3. QED
    BY <1>1, <1>9, <2>1, <2>2, NotRecoveredKeeps
<1>10. QED
  BY <1>2, <1>8, <1>9 DEF x

LEMMA RecoverFailsKeeps == ASSUME DashInv, RecoverFails PROVE DashInv'
<1>1. /\ Left # {} /\ ~Installed /\ NotRecovered /\ Keeps /\ UNCHANGED <<disk, had>>
      /\ \/ (dir["ui"] # None \/ Cardinality(Left) > 1) /\ Same
         \/ FileFault
  BY DEF RecoverFails
<1>2. DiskSound'
  BY <1>1, Untouched DEF DashInv
<1>3. ASSUME fileFaults = 0
      PROVE  dir["ui"] = None /\ Cardinality(Left) = 1
  <2>1. Recoverable(dir)
    BY <1>3, Present DEF DashInv, SoundDirectory
  <2>2. dir["ui"] = None /\ \E n \in Backups : Left = {n}
    BY <1>1, <2>1, LeftIsLeftIn DEF Recoverable, Installed
  <2>3. QED
    BY <2>2, FS_Singleton
<1>4. fileFaults' # 0
  BY <1>1, <1>3, Counted DEF DashInv
<1>5. QED
  BY <1>1, <1>2, <1>4, NotRecoveredKeeps

-----------------------------------------------------------------------------
(* The steps of an install.                                                *)

\* The job ended, or is about to, after an operation failed.
LEMMA AfterFaults ==
    ASSUME DashInv, Keeps, Same \/ FileFault, fileFaults' # 0, UNCHANGED <<had, err>>,
           job' \in Jobs, job'.pc \in {"idle", "undoSync", "clean"}, DiskSound'
    PROVE  DashInv'
<1>1. DashTypeOK' /\ DisabledMeansRevoked'
  BY Framed DEF DashInv, DashTypeOK
<1>2. PublishSound' /\ CutsSound'
  BY DEF PublishSound, CutsSound, Planning, Swapping
<1>3. QED
  BY <1>1, <1>2 DEF DashInv

\* The same when the failure is this step's, or any before it, and the disk is as it was.
LEMMA FaultLeaves ==
    ASSUME DashInv, Keeps, FileFault \/ (fileFaults # 0 /\ Same), UNCHANGED <<disk, had, err>>,
           job' \in Jobs, job'.pc \in {"idle", "undoSync", "clean"}
    PROVE  DashInv'
<1>1. DiskSound'
  BY Untouched DEF DashInv
<1>2. fileFaults' # 0
  BY Counted DEF DashInv, Same, counts
<1>3. QED
  BY <1>1, <1>2, AfterFaults

\* A job that goes on without a failure.
LEMMA GoesOn ==
    ASSUME DashInv, Keeps, Same, UNCHANGED err, had' \in BOOLEAN, job' \in Jobs, DiskSound', PublishSound',
           fileFaults = 0 => /\ job'.pc \in Planning \/ (up /\ job'.pc = "idle") => LeftIn(dir') = {}
                             /\ job'.pc \in {"moveNew", "durable", "drop"} => LeftIn(dir') \subseteq {job'.old}
                             /\ job'.pc \notin {"undoNew", "undoOld", "undoSync", "clean"}
    PROVE  DashInv'
<1>1. DashTypeOK' /\ DisabledMeansRevoked' /\ up' = up
  BY Framed DEF DashInv, DashTypeOK
<1>2. fileFaults' = fileFaults
  BY DEF Same, counts
<1>3. Left' = LeftIn(dir')
  BY DEF Left, LeftIn
<1>4. CutsSound'
  BY <1>1, <1>2, <1>3 DEF CutsSound, DashInv
<1>5. QED
  BY <1>1, <1>4 DEF DashInv

LEMMA NotStagedKeeps == ASSUME DashInv, NotStaged PROVE DashInv'
<1>1. At("latest") /\ job' = NoJob /\ Keeps /\ Same /\ UNCHANGED <<disk, err, had>>
  BY DEF NotStaged
<1>2. DiskSound' /\ dir' = dir
  BY <1>1, Untouched DEF DashInv
<1>3. PublishSound'
  BY <1>1, NoJobFacts DEF PublishSound, Planning, Swapping
<1>4. fileFaults = 0 => LeftIn(dir') = {}
  BY <1>1, <1>2, LeftIsLeftIn DEF DashInv, CutsSound, Planning, At
<1>5. had' \in BOOLEAN
  BY <1>1 DEF DashInv, DashTypeOK
<1>6. QED
  BY <1>1, <1>2, <1>3, <1>4, <1>5, NoJobFacts, GoesOn DEF Planning

LEMMA LatestKeeps == ASSUME DashInv, NEW v \in Releases, Latest(v) PROVE DashInv'
<1>1. At("latest") /\ job' = [job EXCEPT !.pc = "extract", !.new = v] /\ Keeps /\ Same /\ UNCHANGED <<disk, err, had>>
  BY DEF Latest
<1>2. DiskSound' /\ dir' = dir
  BY <1>1, Untouched DEF DashInv
<1>3. job' \in Jobs /\ job'.pc = "extract" /\ job'.new = v
  BY <1>1 DEF DashInv, DashTypeOK, Jobs, Pcs
<1>4. PublishSound'
  BY <1>1, <1>2, <1>3 DEF DashInv, PublishSound, Planning, Swapping, At
<1>5. fileFaults = 0 => LeftIn(dir') = {}
  BY <1>1, <1>2, LeftIsLeftIn DEF DashInv, CutsSound, Planning, At
<1>6. had' \in BOOLEAN
  BY <1>1 DEF DashInv, DashTypeOK
<1>7. QED
  BY <1>1, <1>2, <1>3, <1>4, <1>5, <1>6, GoesOn DEF Planning

\* A name that is not looked at by the recovery holds something else.
LEMMA StagingSound ==
    ASSUME DashInv, NEW n \in {"staged", "failed"}, NEW t \in Trees \union {None}, n = "failed" => t # "raw"
    PROVE  /\ SoundDirectory([dir EXCEPT ![n] = t], had, fileFaults)
           /\ LeftIn([dir EXCEPT ![n] = t]) = LeftIn(dir)
           /\ [dir EXCEPT ![n] = t]["ui"] = dir["ui"] /\ [dir EXCEPT ![n] = t][n] = t
<1>1. SoundDirectory(dir, had, fileFaults) /\ dir \in Directories
  BY Present DEF DashInv
<1>2. [dir EXCEPT ![n] = t] \in Directories /\ [dir EXCEPT ![n] = t][n] = t
      /\ \A m \in Names \ {n} : [dir EXCEPT ![n] = t][m] = dir[m]
  BY <1>1, NameFacts DEF Directories
<1>3. \A m \in {"ui"} \union Backups : [dir EXCEPT ![n] = t][m] = dir[m]
  BY <1>2, NameFacts
<1>4. [dir EXCEPT ![n] = t]["failed"] # "raw"
  BY <1>1, <1>2, NameFacts DEF SoundDirectory, Names
<1>5. QED
  BY <1>1, <1>2, <1>3, <1>4, SameShelves DEF LeftIn

LEMMA ExtractKeeps == ASSUME DashInv, Extract PROVE DashInv'
<1>1. /\ At("extract") /\ Goto("sync") /\ Put([dir EXCEPT !["staged"] = "raw"]) /\ Keeps /\ Same
      /\ UNCHANGED <<err, had>>
  BY DEF Extract
<1>2. "raw" \in Trees
  BY DEF Trees
<1>3. fileFaults' = fileFaults
  BY <1>1 DEF Same, counts
<1>4. DiskSound' /\ dir' = [dir EXCEPT !["staged"] = "raw"]
  BY <1>1, <1>2, <1>3, StagingSound, PutSound DEF DashInv
<1>5. job' \in Jobs /\ job'.pc = "sync" /\ job'.new = job.new
  BY <1>1, DashGoto DEF DashInv, DashTypeOK, Pcs
<1>6. LeftIn(dir') = LeftIn(dir) /\ dir'["ui"] = dir["ui"] /\ dir'["staged"] = "raw"
  BY <1>2, <1>4, StagingSound
<1>7. PublishSound'
  BY <1>1, <1>5, <1>6 DEF DashInv, PublishSound, Planning, Swapping, At
<1>8. fileFaults = 0 => LeftIn(dir') = {}
  BY <1>1, <1>6, LeftIsLeftIn DEF DashInv, CutsSound, Planning, At
<1>9. had' \in BOOLEAN
  BY <1>1 DEF DashInv, DashTypeOK
<1>10. QED
  BY <1>1, <1>4, <1>5, <1>7, <1>8, <1>9, GoesOn DEF Planning

LEMMA ExtractFailsKeeps == ASSUME DashInv, ExtractFails PROVE DashInv'
BY FaultLeaves, NoJobFacts DEF ExtractFails

LEMMA SyncStagedKeeps == ASSUME DashInv, SyncStaged PROVE DashInv'
<1>1. At("sync") /\ Keeps /\ UNCHANGED <<err, had>>
  BY DEF SyncStaged
<1>2. CASE SyncTree /\ Goto("moveOld") /\ Same
  <2>1. job' \in Jobs /\ job'.pc = "moveOld" /\ job.new \in Releases /\ dir["staged"] = "raw"
    BY <1>1, <1>2, DashGoto DEF DashInv, DashTypeOK, PublishSound, Pcs, At
  <2>2. fileFaults' = fileFaults /\ had' = had
    BY <1>1, <1>2 DEF Same, counts
  <2>3. ASSUME NEW d \in may
        PROVE  /\ SoundDirectory(Raw(d, job.new), had, fileFaults)
               /\ \A n \in {"ui"} \union Backups : Raw(d, job.new)[n] = d[n]
    <3>1. d \in Directories /\ SoundDirectory(d, had, fileFaults)
      BY DEF DashInv, DiskSound, SoundDirectory
    <3>2. Raw(d, job.new) \in Directories
      BY <2>1, <3>1 DEF Raw, Directories, Trees
    <3>3. \A n \in {"ui"} \union Backups : Raw(d, job.new)[n] = d[n]
      BY <3>1, NameFacts DEF Raw, SoundDirectory
    <3>4. Raw(d, job.new)["failed"] # "raw"
      BY <2>1, NameFacts, DashNoneAssumption DEF Raw
    <3>5. QED
      BY <3>1, <3>2, <3>3, <3>4, SameShelves
  <2>4. dir' = Raw(dir, job.new) /\ may' = {Raw(d, job.new) : d \in may}
    BY <1>2 DEF SyncTree
  <2>5. DiskSound'
    BY <2>2, <2>3, <2>4 DEF DashInv, DiskSound
  <2>6. dir'["ui"] = dir["ui"] /\ LeftIn(dir') = LeftIn(dir) /\ dir'["staged"] \in Releases
    BY <2>1, <2>3, <2>4, Present, NameFacts DEF DashInv, LeftIn, Raw
  <2>7. PublishSound'
    BY <1>1, <2>1, <2>2, <2>6 DEF DashInv, PublishSound, Planning, Swapping, At
  <2>8. fileFaults = 0 => LeftIn(dir') = {}
    BY <1>1, <2>6, LeftIsLeftIn DEF DashInv, CutsSound, Planning, At
  <2>9. had' \in BOOLEAN
    BY <1>1 DEF DashInv, DashTypeOK
  <2>10. QED
    BY <1>1, <1>2, <2>1, <2>5, <2>7, <2>8, <2>9, GoesOn DEF Planning
<1>3. CASE FileFault /\ Goto("clean") /\ UNCHANGED disk
  BY <1>1, <1>3, DashGoto, FaultLeaves DEF DashInv, DashTypeOK, Pcs
<1>4. QED
  BY <1>2, <1>3 DEF SyncStaged

LEMMA MoveOldKeeps == ASSUME DashInv, MoveOld PROVE DashInv'
<1>1. At("moveOld") /\ Left # Backups /\ Keeps /\ Same /\ UNCHANGED <<err, had>> /\ had' \in BOOLEAN
      /\ dir["staged"] \in Releases /\ (had => dir["ui"] \in Releases) /\ (fileFaults = 0 => Left = {})
      /\ SoundDirectory(dir, had, fileFaults) /\ dir \in Directories
  BY Present DEF MoveOld, DashInv, DashTypeOK, PublishSound, CutsSound, Planning, At
<1>2. CASE dir["ui"] = None
  <2>1. Goto("moveNew") /\ UNCHANGED disk /\ ~had
    BY <1>1, <1>2, NameFacts DEF MoveOld, Trees
  <2>2. DiskSound' /\ dir' = dir
    BY <1>1, <2>1, Untouched DEF DashInv
  <2>3. job' \in Jobs /\ job'.pc = "moveNew"
    BY <2>1, DashGoto DEF DashInv, DashTypeOK, Pcs
  <2>4. PublishSound'
    BY <1>1, <1>2, <2>1, <2>2, <2>3 DEF PublishSound, Planning, Swapping
  <2>5. QED
    BY <1>1, <2>2, <2>3, <2>4, LeftIsLeftIn, GoesOn DEF Planning
<1>3. CASE dir["ui"] # None
  <2>1. Put(Renamed("ui", Free)) /\ job' = [job EXCEPT !.pc = "moveNew", !.old = Free]
    BY <1>3 DEF MoveOld, Rename
  <2>2. Free \in Backups /\ dir[Free] = None
    BY <1>1 DEF Free, Left
  <2> DEFINE x == Renamed("ui", Free)
  <2>3. x \in Directories /\ x["ui"] = None /\ x[Free] = dir["ui"] /\ \A m \in Names \ {"ui", Free} : x[m] = dir[m]
    BY <1>1, <2>2, NameFacts DEF Renamed, Directories
  <2>4. \A m \in Names \ {"staged"} : x[m] # "raw"
    BY <1>1, <2>2, <2>3, NameFacts, DashNoneAssumption DEF SoundDirectory
  <2>5. had => Whole(x)
    BY <1>1, <2>2, <2>3 DEF Whole
  <2>6. fileFaults = 0 => LeftIn(x) = {Free}
    BY <1>1, <1>3, <2>2, <2>3, NameFacts DEF LeftIn, Left
  <2>7. SoundDirectory(x, had, fileFaults)
    BY <2>2, <2>3, <2>4, <2>5, <2>6 DEF SoundDirectory, Recoverable
  <2> HIDE DEF x
  <2>8. fileFaults' = fileFaults
    BY <1>1 DEF Same, counts
  <2>9. DiskSound' /\ dir' = x
    BY <1>1, <2>1, <2>7, <2>8, PutSound DEF DashInv, x
  <2>10. job' \in Jobs /\ job'.pc = "moveNew" /\ job'.old = Free
    BY <2>1, <2>2 DEF DashInv, DashTypeOK, Jobs, Pcs
  <2>11. dir'["staged"] \in Releases /\ dir'["ui"] = None /\ dir'[Free] = dir["ui"]
    BY <1>1, <2>2, <2>3, <2>9, NameFacts
  <2>12. PublishSound'
    BY <1>1, <2>2, <2>10, <2>11 DEF PublishSound, Planning, Swapping
  <2>13. fileFaults = 0 => LeftIn(dir') \subseteq {job'.old}
    BY <2>6, <2>9, <2>10
  <2>14. QED
    BY <1>1, <2>9, <2>10, <2>12, <2>13, GoesOn DEF Planning
<1>4. QED
  BY <1>2, <1>3

LEMMA MoveOldFailsKeeps == ASSUME DashInv, MoveOldFails PROVE DashInv'
<1>1. job' \in Jobs /\ job'.pc = "clean"
  BY DashGoto DEF MoveOldFails, DashInv, DashTypeOK, Pcs
<1>2. QED
  BY <1>1, FaultLeaves DEF MoveOldFails

LEMMA MoveNewKeeps == ASSUME DashInv, MoveNew PROVE DashInv'
<1>1. At("moveNew") /\ Put(Renamed("staged", "ui")) /\ Goto("durable") /\ Keeps /\ Same /\ UNCHANGED <<err, had>>
      /\ had' \in BOOLEAN /\ dir["staged"] \in Releases /\ dir["ui"] = None
      /\ SoundDirectory(dir, had, fileFaults) /\ dir \in Directories
  BY Present DEF MoveNew, Rename, DashInv, DashTypeOK, PublishSound, At
<1> DEFINE x == Renamed("staged", "ui")
<1>2. x \in Directories /\ x["ui"] = dir["staged"] /\ \A m \in Names \ {"staged", "ui"} : x[m] = dir[m]
  BY <1>1, NameFacts DEF Renamed, Directories
<1>3. \A m \in Names \ {"staged"} : x[m] # "raw"
  BY <1>1, <1>2, NameFacts, DashNoneAssumption DEF SoundDirectory
<1>4. SoundDirectory(x, had, fileFaults) /\ LeftIn(x) = LeftIn(dir)
  BY <1>1, <1>2, <1>3, NameFacts DEF SoundDirectory, Whole, Recoverable, LeftIn
<1>5. \A m \in Backups : x[m] = dir[m]
  BY <1>2, NameFacts
<1> HIDE DEF x
<1>6. fileFaults' = fileFaults
  BY <1>1 DEF Same, counts
<1>7. DiskSound' /\ dir' = x
  BY <1>1, <1>4, <1>6, PutSound DEF DashInv, x
<1>8. job' \in Jobs /\ job'.pc = "durable" /\ job'.old = job.old
  BY <1>1, DashGoto DEF DashInv, DashTypeOK, Pcs
<1>9. PublishSound'
  BY <1>1, <1>2, <1>5, <1>7, <1>8 DEF DashInv, PublishSound, Planning, Swapping, At
<1>10. fileFaults = 0 => LeftIn(dir') \subseteq {job'.old}
  BY <1>1, <1>4, <1>7, <1>8, LeftIsLeftIn DEF DashInv, CutsSound, At
<1>11. QED
  BY <1>1, <1>7, <1>8, <1>9, <1>10, GoesOn DEF Planning

LEMMA MoveNewFailsKeeps == ASSUME DashInv, MoveNewFails PROVE DashInv'
<1>1. At("moveNew") /\ FileFault /\ Keeps /\ UNCHANGED <<disk, err, had>>
  BY DEF MoveNewFails
<1>2. CASE job.old = None
  BY <1>1, <1>2, DashGoto, FaultLeaves DEF MoveNewFails, DashInv, DashTypeOK, Pcs
<1>3. CASE job.old # None
  <2>1. job' \in Jobs /\ job'.pc = "undoOld" /\ job'.old = job.old
    BY <1>3, DashGoto DEF MoveNewFails, DashInv, DashTypeOK, Pcs
  <2>2. job.old \in Backups
    BY <1>3, JobFields DEF DashInv, DashTypeOK
  <2>3. DiskSound' /\ dir' = dir
    BY <1>1, Untouched DEF DashInv
  <2>4. PublishSound'
    BY <1>1, <2>1, <2>2, <2>3 DEF DashInv, PublishSound, Planning, Swapping, At
  <2>5. CutsSound'
    BY <1>1, Counted DEF DashInv, CutsSound
  <2>6. DashTypeOK' /\ DisabledMeansRevoked'
    BY <1>1, <2>1, <2>3, Framed DEF DashInv, DashTypeOK
  <2>7. QED
    BY <2>3, <2>4, <2>5, <2>6 DEF DashInv
<1>4. QED
  BY <1>2, <1>3

LEMMA DurableKeeps == ASSUME DashInv, Durable PROVE DashInv'
<1>1. At("durable") /\ PutDurably(dir) /\ had' = TRUE /\ Keeps /\ Same /\ UNCHANGED err /\ dir["ui"] \in Releases
      /\ SoundDirectory(dir, had, fileFaults)
  BY Present DEF Durable, DashInv, PublishSound, At
<1>2. fileFaults' = fileFaults
  BY <1>1 DEF Same, counts
<1>3. SoundDirectory(dir, had', fileFaults')
  BY <1>1, <1>2 DEF SoundDirectory, Whole
<1>4. DiskSound' /\ dir' = dir /\ may' = {dir}
  BY <1>3, <1>1, PutDurablySound
<1>5. fileFaults = 0 => LeftIn(dir') \subseteq {job.old}
  BY <1>1, <1>4, LeftIsLeftIn DEF DashInv, CutsSound, At
<1>6. CASE job.old = None
  <2>1. job' = NoJob
    BY <1>6 DEF Durable
  <2>2. PublishSound'
    BY <2>1, NoJobFacts DEF PublishSound, Planning, Swapping
  <2>3. fileFaults = 0 => LeftIn(dir') = {}
    BY <1>5, <1>6, NameFacts DEF LeftIn
  <2>4. QED
    BY <1>1, <1>4, <2>1, <2>2, <2>3, NoJobFacts, GoesOn DEF Planning
<1>7. CASE job.old # None
  <2>1. job' \in Jobs /\ job'.pc = "drop" /\ job'.old = job.old /\ job.old \in Backups
    BY <1>7, DashGoto, JobFields DEF Durable, DashInv, DashTypeOK, Pcs
  <2>2. PublishSound'
    BY <1>1, <1>4, <2>1 DEF PublishSound, Planning, Swapping
  <2>3. QED
    BY <1>1, <1>4, <1>5, <2>1, <2>2, GoesOn DEF Planning
<1>8. QED
  BY <1>6, <1>7

LEMMA DurableFailsKeeps == ASSUME DashInv, DurableFails PROVE DashInv'
<1>1. At("durable") /\ FileFault /\ Goto("undoNew") /\ Keeps /\ UNCHANGED <<disk, err, had>>
  BY DEF DurableFails
<1>2. job' \in Jobs /\ job'.pc = "undoNew" /\ job'.old = job.old
  BY <1>1, DashGoto DEF DashInv, DashTypeOK, Pcs
<1>3. DiskSound' /\ dir' = dir
  BY <1>1, Untouched DEF DashInv
<1>4. PublishSound'
  BY <1>1, <1>2, <1>3 DEF DashInv, PublishSound, Planning, Swapping, At
<1>5. CutsSound'
  BY <1>1, Counted DEF DashInv, CutsSound
<1>6. DashTypeOK' /\ DisabledMeansRevoked'
  BY <1>1, <1>2, <1>3, Framed DEF DashInv, DashTypeOK
<1>7. QED
  BY <1>3, <1>4, <1>5, <1>6 DEF DashInv

LEMMA DropOldKeeps == ASSUME DashInv, DropOld PROVE DashInv'
<1>1. At("drop") /\ Keeps /\ UNCHANGED <<err, had>> /\ had' \in BOOLEAN /\ had /\ dir["ui"] \in Releases
      /\ (\A d \in may : d["ui"] \in Releases) /\ job.old \in Backups
      /\ (fileFaults = 0 => LeftIn(dir) \subseteq {job.old})
  BY Present, LeftIsLeftIn DEF DropOld, DashInv, DashTypeOK, PublishSound, CutsSound, At
<1>2. ASSUME NEW t \in {"broken", None}
      PROVE  LeftIn([dir EXCEPT ![job.old] = t]) \subseteq LeftIn(dir) \union (IF t = None THEN {} ELSE {job.old})
             /\ (t = None => job.old \notin LeftIn([dir EXCEPT ![job.old] = t]))
             /\ \A f : SoundDirectory([dir EXCEPT ![job.old] = t], had, f)
             /\ [dir EXCEPT ![job.old] = t]["ui"] = dir["ui"]
  <2>1. dir \in Directories
    BY Present DEF DashInv
  <2>2. QED
    BY <1>1, <2>1, BreakSound, NameFacts DEF LeftIn, Directories
<1>3. CASE dir[job.old] # "broken" /\ Put([dir EXCEPT ![job.old] = "broken"]) /\ UNCHANGED job /\ Same
  <2>1. DiskSound' /\ dir' = [dir EXCEPT ![job.old] = "broken"] /\ may' = may \union {dir'}
    BY <1>1, <1>2, <1>3, PutSound DEF DashInv
  <2>2. dir'["ui"] \in Releases /\ (fileFaults = 0 => LeftIn(dir') \subseteq {job.old}) /\ job' \in Jobs
    BY <1>1, <1>2, <1>3, <2>1 DEF DashInv, DashTypeOK
  <2>3. PublishSound'
    BY <1>1, <1>3, <2>1, <2>2 DEF PublishSound, Planning, Swapping, At
  <2>4. QED
    BY <1>1, <1>3, <2>1, <2>2, <2>3, GoesOn DEF Planning, At
<1>4. CASE PutDurably([dir EXCEPT ![job.old] = None]) /\ job' = NoJob /\ Same
  <2>1. DiskSound' /\ dir' = [dir EXCEPT ![job.old] = None]
    BY <1>1, <1>2, <1>4, PutDurablySound
  <2>2. fileFaults = 0 => LeftIn(dir') = {}
    BY <1>1, <1>2, <2>1
  <2>3. PublishSound'
    BY <1>4, NoJobFacts DEF PublishSound, Planning, Swapping
  <2>4. QED
    BY <1>1, <1>4, <2>1, <2>2, <2>3, NoJobFacts, GoesOn DEF Planning
<1>5. CASE FileFault /\ job' = NoJob /\ UNCHANGED disk
  BY <1>1, <1>5, NoJobFacts, FaultLeaves
<1>6. CASE FileFault /\ job' = NoJob /\ Put([dir EXCEPT ![job.old] = None])
  <2>1. DiskSound' /\ fileFaults' # 0
    BY <1>1, <1>2, <1>6, PutSound, Counted DEF DashInv
  <2>2. QED
    BY <1>1, <1>6, <2>1, NoJobFacts, AfterFaults
<1>7. QED
  BY <1>3, <1>4, <1>5, <1>6 DEF DropOld

LEMMA UndoNewKeeps == ASSUME DashInv, UndoNew PROVE DashInv'
<1>1. At("undoNew") /\ Keeps /\ UNCHANGED <<err, had>> /\ fileFaults # 0
      /\ (had => job.old \in Backups /\ dir[job.old] \in Releases)
      /\ SoundDirectory(dir, had, fileFaults) /\ dir \in Directories
  BY Present DEF UndoNew, DashInv, PublishSound, CutsSound, Swapping, At
<1>2. CASE Rename("ui", "failed") /\ Same /\ Goto(IF job.old = None THEN "undoSync" ELSE "undoOld")
  <2> DEFINE x == Renamed("ui", "failed")
  <2>1. /\ x \in Directories /\ x["ui"] = None /\ x["failed"] = dir["ui"]
        /\ \A m \in Names \ {"ui", "failed"} : x[m] = dir[m]
    BY <1>1, NameFacts DEF Renamed, Directories
  <2>2. \A m \in Names \ {"staged"} : x[m] # "raw"
    BY <1>1, <2>1, NameFacts, DashNoneAssumption DEF SoundDirectory
  <2>3. SoundDirectory(x, had, fileFaults)
    BY <1>1, <2>1, <2>2, NameFacts DEF SoundDirectory, Whole
  <2> HIDE DEF x
  <2>4. fileFaults' = fileFaults
    BY <1>2 DEF Same, counts
  <2>5. DiskSound' /\ dir' = x
    BY <1>1, <1>2, <2>3, <2>4, PutSound DEF DashInv, x, Rename
  <2>6. CASE job.old = None
    <3>1. job' \in Jobs /\ job'.pc = "undoSync"
      BY <1>2, <2>6, DashGoto DEF DashInv, DashTypeOK, Pcs
    <3>2. QED
      BY <1>1, <1>2, <2>4, <2>5, <3>1, AfterFaults
  <2>7. CASE job.old # None
    <3>1. job' \in Jobs /\ job'.pc = "undoOld" /\ job'.old = job.old /\ job.old \in Backups
      BY <1>2, <2>7, DashGoto, JobFields DEF DashInv, DashTypeOK, Pcs
    <3>2. dir'["ui"] = None /\ dir'[job.old] = dir[job.old]
      BY <2>1, <2>5, <3>1, NameFacts
    <3>3. PublishSound'
      BY <1>1, <3>1, <3>2 DEF PublishSound, Planning, Swapping
    <3>4. CutsSound'
      BY <1>1, <2>4 DEF CutsSound
    <3>5. DashTypeOK' /\ DisabledMeansRevoked'
      BY <1>1, <1>2, <2>5, <3>1, Framed DEF DashInv, DashTypeOK
    <3>6. QED
      BY <2>5, <3>3, <3>4, <3>5 DEF DashInv
  <2>8. QED
    BY <2>6, <2>7
<1>3. CASE FileFault /\ job' = NoJob /\ UNCHANGED disk
  BY <1>1, <1>3, NoJobFacts, FaultLeaves
<1>4. QED
  BY <1>2, <1>3 DEF UndoNew

LEMMA UndoOldKeeps == ASSUME DashInv, UndoOld PROVE DashInv'
<1>1. At("undoOld") /\ Keeps /\ UNCHANGED <<err, had>> /\ fileFaults # 0 /\ job.old \in Backups
      /\ (had => dir[job.old] \in Releases)
      /\ SoundDirectory(dir, had, fileFaults) /\ dir \in Directories
  BY Present DEF UndoOld, DashInv, PublishSound, CutsSound, Swapping, At
<1>2. CASE Rename(job.old, "ui") /\ Same /\ Goto(IF dir["staged"] = None THEN "undoSync" ELSE "clean")
  <2> DEFINE x == Renamed(job.old, "ui")
  <2>1. x \in Directories /\ x["ui"] = dir[job.old] /\ \A m \in Names \ {"ui"} : x[m] \in {dir[m], None}
    BY <1>1, NameFacts DEF Renamed, Directories
  <2>2. \A m \in Names \ {"staged"} : x[m] # "raw"
    BY <1>1, <2>1, NameFacts, DashNoneAssumption DEF SoundDirectory
  <2>3. SoundDirectory(x, had, fileFaults)
    BY <1>1, <2>1, <2>2, NameFacts DEF SoundDirectory, Whole
  <2> HIDE DEF x
  <2>4. fileFaults' = fileFaults
    BY <1>2 DEF Same, counts
  <2>5. DiskSound'
    BY <1>1, <1>2, <2>3, <2>4, PutSound DEF DashInv, x, Rename
  <2>6. job' \in Jobs /\ job'.pc \in {"undoSync", "clean"}
    BY <1>2, DashGoto DEF DashInv, DashTypeOK, Pcs
  <2>7. QED
    BY <1>1, <1>2, <2>4, <2>5, <2>6, AfterFaults
<1>3. CASE FileFault /\ Goto("clean") /\ UNCHANGED disk
  BY <1>1, <1>3, DashGoto, FaultLeaves DEF DashInv, DashTypeOK, Pcs
<1>4. QED
  BY <1>2, <1>3 DEF UndoOld

\* The two last steps of a failed install remove a tree no recovery looks at.
LEMMA RemovalKeeps ==
    ASSUME DashInv, NEW n \in {"staged", "failed"}, fileFaults # 0, Keeps, UNCHANGED <<err, had>>, job' = NoJob, Same,
           Put([dir EXCEPT ![n] = None]) \/ PutDurably([dir EXCEPT ![n] = None])
    PROVE  DashInv'
<1>1. SoundDirectory([dir EXCEPT ![n] = None], had, fileFaults)
  BY StagingSound, DashNoneAssumption
<1>2. fileFaults' = fileFaults
  BY DEF Same, counts
<1>3. DiskSound'
  <2>1. CASE Put([dir EXCEPT ![n] = None])
    BY <1>1, <1>2, <2>1, PutSound DEF DashInv
  <2>2. CASE PutDurably([dir EXCEPT ![n] = None])
    BY <1>1, <1>2, <2>2, PutDurablySound
  <2>3. QED
    BY <2>1, <2>2
<1>4. QED
  BY <1>2, <1>3, NoJobFacts, AfterFaults

LEMMA UndoSyncKeeps == ASSUME DashInv, UndoSync PROVE DashInv'
<1>1. job' = NoJob /\ Keeps /\ UNCHANGED <<err, had>> /\ fileFaults # 0
  BY DEF UndoSync, DashInv, CutsSound, At
<1>2. CASE PutDurably([dir EXCEPT !["failed"] = None]) /\ Same
  BY <1>1, <1>2, RemovalKeeps
<1>3. CASE FileFault /\ UNCHANGED disk
  BY <1>1, <1>3, NoJobFacts, FaultLeaves
<1>4. QED
  BY <1>2, <1>3 DEF UndoSync

LEMMA CleanKeeps == ASSUME DashInv, Clean PROVE DashInv'
<1>1. job' = NoJob /\ Keeps /\ UNCHANGED <<err, had>> /\ fileFaults # 0
  BY DEF Clean, DashInv, CutsSound, At
<1>2. CASE Put([dir EXCEPT !["staged"] = None]) /\ Same
  BY <1>1, <1>2, RemovalKeeps
<1>3. CASE FileFault /\ UNCHANGED disk
  BY <1>1, <1>3, NoJobFacts, FaultLeaves
<1>4. QED
  BY <1>2, <1>3 DEF Clean

-----------------------------------------------------------------------------
(* Deaths, and the requests of the controller proxy.                       *)

\* What was staged without being synced, or put aside under a name of its own, is lost.
LEMMA CrashSound ==
    ASSUME NEW d \in Directories, NEW t \in {"raw", "broken"}, NEW p, NEW f, SoundDirectory(d, p, f)
    PROVE  SoundDirectory(Forgotten(Raw(d, t)), p, f)
<1>1. Raw(d, t) \in Directories /\ \A n \in {"ui"} \union Backups : Raw(d, t)[n] = d[n]
  BY NameFacts DEF Raw, Directories, Trees, SoundDirectory
<1> DEFINE x == Forgotten(Raw(d, t))
<1>2. x \in Directories /\ x["failed"] = None /\ \A n \in Names \ {"staged", "failed"} : x[n] = Raw(d, t)[n]
  BY <1>1, NameFacts DEF Forgotten, Directories
<1>3. \A n \in {"ui"} \union Backups : x[n] = d[n]
  BY <1>1, <1>2, NameFacts
<1> HIDE DEF x
<1>4. SoundDirectory(x, p, f)
  BY <1>2, <1>3, SameShelves, DashNoneAssumption
<1>5. QED
  BY <1>4 DEF x

LEMMA DownKeeps ==
    ASSUME DashInv, Down, Cut, DiskSound'
    PROVE  DashInv'
<1>1. up' = FALSE /\ job' = NoJob /\ live' = {} /\ upd' = FALSE /\ UNCHANGED <<err, had, enabled, leaked, toggles>>
      /\ cuts' \in 0 .. MaxCuts /\ UNCHANGED <<installs, fileFaults>>
  BY DashBoundAssumption DEF Down, Cut, DashInv, DashTypeOK
<1>2. dir' \in Directories /\ may' \subseteq Directories /\ dir' \in may'
  BY DEF DiskSound, SoundDirectory
<1>3. DashTypeOK' /\ DisabledMeansRevoked'
  BY <1>1, <1>2, NoJobFacts DEF DashInv, DashTypeOK, DisabledMeansRevoked
<1>4. PublishSound' /\ CutsSound'
  BY <1>1, NoJobFacts DEF DashInv, PublishSound, CutsSound, Planning, Swapping
<1>5. QED
  BY <1>3, <1>4 DEF DashInv

LEMMA ManagerDiesKeeps == ASSUME DashInv, ManagerDies PROVE DashInv'
<1>1. Cut /\ Down /\ Put(Forgotten(dir)) /\ had' = had /\ fileFaults' = fileFaults
  BY DEF ManagerDies, Cut, Down
<1>2. Raw(dir, "raw") = dir
  BY Present DEF DashInv, Raw, Directories
<1>3. SoundDirectory(Forgotten(dir), had, fileFaults)
  BY <1>2, Present, CrashSound DEF DashInv
<1>4. DiskSound'
  BY <1>1, <1>3 DEF DashInv, DiskSound, Put
<1>5. QED
  BY <1>1, <1>4, DownKeeps

LEMMA DashPowerCutKeeps == ASSUME DashInv, PowerCut PROVE DashInv'
<1>1. Cut /\ Down /\ had' = had /\ fileFaults' = fileFaults
  BY DEF PowerCut, Cut, Down
<1>2. PICK d \in may : PutDurably(Forgotten(Raw(d, "broken")))
  BY DEF PowerCut
<1>3. d \in Directories /\ SoundDirectory(d, had, fileFaults)
  BY DEF DashInv, DiskSound, SoundDirectory
<1>4. DiskSound'
  BY <1>1, <1>2, <1>3, CrashSound, PutDurablySound
<1>5. QED
  BY <1>1, <1>4, DownKeeps

LEMMA ScopeKeeps ==
    ASSUME DashInv, \/ \E r \in Requests : Serve(r) \/ Ends(r)
                    \/ SaveSetting \/ CancelRequests \/ SettingReplaced
    PROVE  DashInv'
<1>1. UNCHANGED <<dir, may, up, err, job, had, installs, cuts, fileFaults>>
  BY DEF Serve, Ends, SaveSetting, CancelRequests, SettingReplaced, disk, counts
<1>2. enabled' \in BOOLEAN /\ live' \subseteq Requests /\ upd' \in BOOLEAN /\ leaked' \in BOOLEAN
      /\ toggles' \in 0 .. MaxToggles /\ DisabledMeansRevoked'
  <2>1. CASE \E r \in Requests : Serve(r)
    BY <2>1 DEF DashInv, DashTypeOK, DisabledMeansRevoked, Serve, Register
  <2>2. CASE \E r \in Requests : Ends(r)
    BY <2>2 DEF DashInv, DashTypeOK, DisabledMeansRevoked, Ends
  <2>3. CASE SaveSetting \/ SettingReplaced
    <3>1. toggles' \in 0 .. MaxToggles
      BY <2>3, DashBoundAssumption DEF DashInv, DashTypeOK, SaveSetting, SettingReplaced, Toggle
    <3>2. live' = live /\ enabled' = ~enabled
      BY <2>3 DEF SaveSetting, SettingReplaced, Toggle
    <3>3. (upd' = TRUE /\ leaked' = leaked) \/ (leaked' = TRUE /\ upd' = upd)
      BY <2>3 DEF SaveSetting, SettingReplaced
    <3>4. live' \subseteq Requests /\ upd' \in BOOLEAN /\ leaked' \in BOOLEAN
      BY <3>2, <3>3 DEF DashInv, DashTypeOK
    <3>5. enabled' \in BOOLEAN
      BY <3>2
    <3>6. DisabledMeansRevoked'
      BY <3>3 DEF DisabledMeansRevoked
    <3>7. QED
      BY <3>1, <3>4, <3>5, <3>6
  <2>4. CASE CancelRequests
    BY <2>4 DEF DashInv, DashTypeOK, DisabledMeansRevoked, CancelRequests
  <2>5. QED
    BY <2>1, <2>2, <2>3, <2>4
<1>3. DashTypeOK' /\ DiskSound' /\ PublishSound' /\ CutsSound'
  BY <1>1, <1>2 DEF DashInv, DashTypeOK, DiskSound, PublishSound, CutsSound, Left
<1>4. QED
  BY <1>2, <1>3 DEF DashInv

-----------------------------------------------------------------------------
LEMMA DashInitial == ASSUME DashInit PROVE DashInv
<1>1. PICK tree \in Releases \union {"broken", None} :
        dir = [n \in Names |-> IF n = "ui" THEN tree ELSE None] /\ had = (tree \in Releases)
  BY DEF DashInit
<1>2. dir \in Directories /\ dir["ui"] = tree /\ \A n \in Names \ {"ui"} : dir[n] = None
  BY <1>1, NameFacts DEF Directories, Trees
<1>3. LeftIn(dir) = {}
  BY <1>2, NameFacts DEF LeftIn
<1>4. \A n \in Names \ {"staged"} : dir[n] # "raw"
  BY <1>2, DashNoneAssumption
<1>5. SoundDirectory(dir, had, fileFaults)
  BY <1>1, <1>2, <1>3, <1>4 DEF SoundDirectory, Whole, Recoverable
<1>6. /\ may = {dir} /\ up = FALSE /\ err = FALSE /\ job = NoJob /\ enabled = TRUE /\ live = {} /\ upd = FALSE
      /\ leaked = FALSE
      /\ installs = 0 /\ cuts = 0 /\ fileFaults = 0 /\ toggles = 0 /\ had \in BOOLEAN
  BY <1>1 DEF DashInit
<1>7. DashTypeOK /\ DisabledMeansRevoked
  <2>1. 0 \in 0 .. MaxInstalls /\ 0 \in 0 .. MaxCuts /\ 0 \in 0 .. MaxFileFaults /\ 0 \in 0 .. MaxToggles
    BY DashBoundAssumption
  <2>2. job \in Jobs
    BY <1>6, NoJobFacts
  <2>3. DisabledMeansRevoked
    BY <1>6 DEF DisabledMeansRevoked
  <2>4. QED
    BY <1>2, <1>6, <2>1, <2>2, <2>3 DEF DashTypeOK
<1>8. DiskSound /\ PublishSound /\ CutsSound
  BY <1>3, <1>5, <1>6, NoJobFacts, LeftIsLeftIn DEF DiskSound, PublishSound, CutsSound, Planning, Swapping
<1>9. QED
  BY <1>7, <1>8 DEF DashInv

LEMMA DashStep == DashInv /\ [DashNext]_dashVars => DashInv'
<1> SUFFICES ASSUME DashInv, [DashNext]_dashVars PROVE DashInv'
  OBVIOUS
<1>1. CASE Boot \/ Begin \/ RecoverNothing \/ RecoverCleans \/ RecoverRenames \/ RecoverFails
  BY <1>1, BootKeeps, BeginKeeps, RecoverNothingKeeps, RecoverCleansKeeps, RecoverRenamesKeeps, RecoverFailsKeeps
<1>2. CASE NotStaged \/ (\E v \in Releases : Latest(v)) \/ Extract \/ ExtractFails \/ SyncStaged
  BY <1>2, NotStagedKeeps, LatestKeeps, ExtractKeeps, ExtractFailsKeeps, SyncStagedKeeps
<1>3. CASE MoveOld \/ MoveOldFails \/ MoveNew \/ MoveNewFails \/ Durable \/ DurableFails \/ DropOld
  BY <1>3, MoveOldKeeps, MoveOldFailsKeeps, MoveNewKeeps, MoveNewFailsKeeps, DurableKeeps, DurableFailsKeeps,
      DropOldKeeps
<1>4. CASE UndoNew \/ UndoOld \/ UndoSync \/ Clean
  BY <1>4, UndoNewKeeps, UndoOldKeeps, UndoSyncKeeps, CleanKeeps
<1>5. CASE ManagerDies \/ PowerCut
  BY <1>5, ManagerDiesKeeps, DashPowerCutKeeps
<1>6. CASE (\E r \in Requests : Serve(r) \/ Ends(r)) \/ SaveSetting \/ CancelRequests \/ SettingReplaced
  BY <1>6, ScopeKeeps
<1>7. CASE UNCHANGED dashVars
  <2>1. UNCHANGED <<dir, may, up, err, job, had, enabled, live, upd, leaked, toggles, installs, cuts, fileFaults>>
    BY <1>7 DEF dashVars, disk, scope, counts
  <2>2. QED
    BY <2>1 DEF DashInv, DashTypeOK, DiskSound, PublishSound, CutsSound, DisabledMeansRevoked, Left
<1>8. QED
  BY <1>1, <1>2, <1>3, <1>4, <1>5, <1>6, <1>7 DEF DashNext

\* DashInv holds in every state: every directory a power cut may leave has the tree it needs
\* at each step of publish, of its rollback and of the recovery.
THEOREM DashboardInvariant == DashSpec => []DashInv
<1>1. DashInit => DashInv
  BY DashInitial
<1>2. DashInv /\ [DashNext]_dashVars => DashInv'
  BY DashStep
<1>3. QED
  BY <1>1, <1>2, PTL DEF DashSpec

\* No order of renames, syncs, failures, deaths and power cuts loses the last complete
\* dashboard, and cuts alone never keep the manager from serving the published one.
THEOREM DashboardKeptHolds == DashSpec => []DashboardKept
<1>1. DashInv => DashboardKept
  <2> SUFFICES ASSUME DashInv PROVE DashboardKept
    OBVIOUS
  <2>1. CopyKept
    BY DEF DashInv, DiskSound, SoundDirectory, Whole, CopyKept
  <2>2. ASSUME had, up, fileFaults = 0, job.pc \in {"idle", "latest", "extract", "sync", "drop"}
        PROVE  Installed /\ ~err
    <3>1. ~err
      BY <2>2 DEF DashInv, CutsSound
    <3>2. CASE job.pc = "drop"
      BY <3>1, <3>2, Present DEF DashInv, PublishSound, Installed
    <3>3. CASE job.pc # "drop"
      <4>1. LeftIn(dir) = {}
        BY <2>2, <3>3, LeftIsLeftIn DEF DashInv, CutsSound, Planning
      <4>2. QED
        BY <2>2, <3>1, <4>1, Present, DashNoneAssumption DEF DashInv, SoundDirectory, Whole, LeftIn, Installed
    <3>4. QED
      BY <3>2, <3>3
  <2>3. CutsRecover
    BY <2>2 DEF CutsRecover
  <2>4. QED
    BY <2>1, <2>3 DEF DashboardKept
<1>2. QED
  BY <1>1, DashboardInvariant, PTL

\* When an update that turned the dashboard off has returned, no request of the controller
\* proxy is left, whichever was being registered meanwhile.
THEOREM DisabledMeansRevokedHolds == DashSpec => []DisabledMeansRevoked
<1>1. DashInv => DisabledMeansRevoked
  BY DEF DashInv
<1>2. QED
  BY <1>1, DashboardInvariant, PTL
=============================================================================
