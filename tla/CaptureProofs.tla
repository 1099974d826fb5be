--------------------------- MODULE CaptureProofs ---------------------------
(***************************************************************************)
(* Theorems about DynamicCapture for every set of texts, ranges and        *)
(* settings: the administrator's text is never overwritten; an accepted    *)
(* opt-out holds until a refresh begins with outdated settings; and no     *)
(* synthetic address is let past the core until a generation is prepared   *)
(* for another range than the live core's.                                 *)
(***************************************************************************)
EXTENDS DynamicCapture, TLAPS

-----------------------------------------------------------------------------
(* What an operation holds while it holds the gate.                        *)

\* Every generation that can still be published carries the text of the document.
PendingKeepsText ==
    /\ gate.pc = "commit" /\ "gate" \in fresh => gate.next.manual = doc.manual
    /\ api.on /\ "api" \in fresh => api.next.manual = doc.manual

TextInv == CapTypeOK /\ PendingKeepsText /\ ManualKept

\* An operation works with the settings and for the range of the moment it began,
\* unless a flaw was recorded at that moment.
Current ==
    /\ gate.by = "none" <=> gate.pc = "free"
    /\ gate.by \in {"settings", "pool", "start"} => gate.set = settings
    /\ gate.by = "refresh" /\ "outdated" \notin flaws => ~Outdated(gate.set)
    /\ gate.by \in {"settings", "pool", "start"} /\ core.on /\ "range" \notin flaws
          => core.range \in {range, "default"}
    /\ gate.by = "refresh" => core.on /\ (gate.pc = "policy" => gate.cap = core.cap)
    /\ gate.pc = "save" => gate.by = "refresh"

\* A block that says it is local names no remote destination.
LocalIsClean(d) == d.scope = "local-only" => "remote" \notin d.cidrs
BlocksHonest ==
    /\ LocalIsClean(doc)
    /\ gate.pc = "commit" => LocalIsClean(gate.next) /\ (gate.set.ext \/ gate.next.scope = "local-only")
    /\ api.on => LocalIsClean(api.next)

\* What the gateway may still install again is as clean as what it captures.
Clean(cap) == "remote" \notin cap.cidrs
OptedOut == settings.auto /\ ~settings.ext
Relied == told /\ "outdated" \notin flaws
Promised ==
    /\ "settings" \in pend \/ gate.by = "settings" => ~told
    /\ gate.by = "settings" => "settings" \notin pend
    /\ OptedOut /\ Relied => Clean(nft) /\ Clean(rec) /\ Clean(core.cap)
    /\ gate.pc \in {"resolve", "apply", "save"} /\ OptedOut /\ (Relied \/ gate.by # "refresh")
          => Clean(gate.cap)
    /\ ~core.on => nft = NoCapture /\ rec = NoCapture /\ core.cap = NoCapture

Honest(cap) == cap.bypass \in {"none", "real"}
NothingSynthetic ==
    "range" \notin flaws =>
        cache \in {"none", "real"} /\ Honest(nft) /\ Honest(rec) /\ Honest(core.cap) /\ Honest(gate.cap)

CaptureInv == CapTypeOK /\ Current /\ BlocksHonest /\ Promised /\ NothingSynthetic

-----------------------------------------------------------------------------
(* Types, and the shape of what the operators build.                       *)

LEMMA BlankTypes ==
    /\ EmptyDoc \in Docs /\ LegacyDoc \in Docs /\ NoCapture \in Captures /\ Defaults \in Settings
    /\ FreeGate \in Gates /\ NoApi \in [on : BOOLEAN, next : Docs]
<1>1. EmptyDoc \in Docs /\ NoCapture \in Captures /\ Defaults \in Settings
  BY CapManualAssumption DEF EmptyDoc, NoCapture, Defaults, Docs, Captures, Settings, Scopes, Addresses
<1>2. LegacyDoc \in Docs
  BY <1>1 DEF LegacyDoc, Docs, Sources
<1>3. QED
  BY <1>1, <1>2 DEF FreeGate, NoApi, Gates

\* A regeneration keeps the text, and names remote destinations only when asked to.
LEMMA GeneratedShape ==
    ASSUME NEW d \in Docs, NEW set \in Settings, NEW avail \in SUBSET Sources
    PROVE  /\ Generated(d, set, avail) \in Docs
           /\ Generated(d, set, avail).manual = d.manual
           /\ LocalIsClean(d) => LocalIsClean(Generated(d, set, avail))
           /\ ~Retains(d, set, avail) /\ ~set.ext => Generated(d, set, avail).scope = "local-only"
           /\ Retains(d, set, avail) /\ ~set.ext => d.scope = "local-only"
<1> DEFINE b == [d EXCEPT !.has = TRUE, !.scope = AutoScope(set), !.cidrs = Wanted(set) \intersect avail]
<1>1. AutoScope(set) \in Scopes /\ Wanted(set) \intersect avail \in SUBSET Sources
  BY DEF AutoScope, Scopes, Wanted, Sources
<1>2. b \in Docs /\ b.manual = d.manual /\ b.scope = AutoScope(set) /\ b.cidrs = Wanted(set) \intersect avail
  BY <1>1 DEF Docs
<1>3. LocalIsClean(b)
  BY <1>2 DEF LocalIsClean, AutoScope, Wanted
<1>4. Generated(d, set, avail) = IF Retains(d, set, avail) THEN d ELSE b
  BY DEF Generated, Block
<1>5. ~set.ext => AutoScope(set) = "local-only"
  BY DEF AutoScope
<1>6. Retains(d, set, avail) /\ ~set.ext => d.scope = "local-only"
  BY <1>5 DEF Retains, ScopeCompatible
<1>7. QED
  BY <1>2, <1>3, <1>4, <1>5, <1>6

LEMMA GateFields ==
    ASSUME gate \in Gates
    PROVE  /\ gate.by \in {"none", "settings", "pool", "start", "refresh"} /\ gate.set \in Settings
           /\ gate.next \in Docs /\ gate.cap \in Captures
BY DEF Gates

\* The gate one step further.
GateAt(pc, next, cap) == [by |-> gate.by, pc |-> pc, set |-> gate.set, next |-> next, cap |-> cap]

LEMMA GateAtType ==
    ASSUME gate \in Gates, NEW pc \in {"free", "policy", "commit", "resolve", "apply", "save"},
           NEW d \in Docs, NEW cap \in Captures
    PROVE  GateAt(pc, d, cap) \in Gates
BY DEF Gates, GateAt

LEMMA GateMoves ==
    ASSUME gate \in Gates, NEW pc \in {"free", "policy", "commit", "resolve", "apply", "save"},
           NEW d \in Docs, NEW cap \in Captures
    PROVE  /\ [gate EXCEPT !.pc = pc] = GateAt(pc, gate.next, gate.cap)
           /\ [gate EXCEPT !.pc = pc, !.cap = cap] = GateAt(pc, gate.next, cap)
           /\ [gate EXCEPT !.pc = pc, !.next = d] = GateAt(pc, d, gate.cap)
<1>1. [gate EXCEPT !.pc = pc] = GateAt(pc, gate.next, gate.cap)
  <2> DEFINE g == [gate EXCEPT !.pc = pc]
  <2>1. g \in Gates
    BY DEF Gates
  <2>2. GateAt(pc, gate.next, gate.cap) \in Gates
    BY GateFields, GateAtType
  <2>3. g.by = gate.by /\ g.pc = pc /\ g.set = gate.set /\ g.next = gate.next /\ g.cap = gate.cap
    BY DEF Gates
  <2> HIDE DEF g
  <2>4. g = GateAt(pc, gate.next, gate.cap)
    BY <2>1, <2>2, <2>3 DEF GateAt, Gates
  <2>5. QED
    BY <2>4 DEF g
<1>2. [gate EXCEPT !.pc = pc, !.cap = cap] = GateAt(pc, gate.next, cap)
  <2> DEFINE g == [gate EXCEPT !.pc = pc, !.cap = cap]
  <2>1. g \in Gates
    BY DEF Gates
  <2>2. GateAt(pc, gate.next, cap) \in Gates
    BY GateFields, GateAtType
  <2>3. g.by = gate.by /\ g.pc = pc /\ g.set = gate.set /\ g.next = gate.next /\ g.cap = cap
    BY DEF Gates
  <2> HIDE DEF g
  <2>4. g = GateAt(pc, gate.next, cap)
    BY <2>1, <2>2, <2>3 DEF GateAt, Gates
  <2>5. QED
    BY <2>4 DEF g
<1>3. [gate EXCEPT !.pc = pc, !.next = d] = GateAt(pc, d, gate.cap)
  <2> DEFINE g == [gate EXCEPT !.pc = pc, !.next = d]
  <2>1. g \in Gates
    BY DEF Gates
  <2>2. GateAt(pc, d, gate.cap) \in Gates
    BY GateFields, GateAtType
  <2>3. g.by = gate.by /\ g.pc = pc /\ g.set = gate.set /\ g.next = d /\ g.cap = gate.cap
    BY DEF Gates
  <2> HIDE DEF g
  <2>4. g = GateAt(pc, d, gate.cap)
    BY <2>1, <2>2, <2>3 DEF GateAt, Gates
  <2>5. QED
    BY <2>4 DEF g
<1>4. QED
  BY <1>1, <1>2, <1>3

LEMMA DestinationsShape ==
    ASSUME gate \in Gates, NEW d \in Docs
    PROVE  /\ Destinations(d) \in Captures /\ Destinations(d).cidrs = d.cidrs
           /\ Destinations(d).bypass = gate.cap.bypass
<1>1. gate.cap \in Captures /\ d.cidrs \in SUBSET Sources
  BY DEF Gates, Docs
<1>2. QED
  BY <1>1 DEF Destinations, Captures

LEMMA FreeFields ==
    /\ FreeGate.by = "none" /\ FreeGate.pc = "free" /\ FreeGate.cap = NoCapture
    /\ NoCapture.cidrs = {} /\ NoCapture.bypass = "none" /\ NoApi.on = FALSE
BY DEF FreeGate, NoCapture, NoApi

\* What an operation takes the gate with.
LEMMA HoldShape ==
    ASSUME NEW by \in {"settings", "pool", "start", "refresh"}, NEW set \in Settings, NEW cap \in Captures, Hold(by, set, cap)
    PROVE  gate' \in Gates /\ gate'.by = by /\ gate'.pc = "policy" /\ gate'.set = set /\ gate'.cap = cap
<1>1. FreeGate \in Gates
  BY BlankTypes
<1>2. QED
  BY <1>1 DEF Hold, Gates

LEMMA ReleaseShape ==
    ASSUME CapTypeOK, NEW ok \in BOOLEAN, Release(ok)
    PROVE  gate' = FreeGate /\ gate' \in Gates /\ told' \in BOOLEAN /\ wake' \in BOOLEAN
           /\ (told' = told \/ (gate.by = "settings" /\ told' = ok))
BY BlankTypes DEF Release, CapTypeOK

\* The endpoint's address is real for the filter in force, or there is none.
LEMMA EndpointReal ==
    ASSUME NEW answer, cache \in {"none", "real"}, answer \in {"none", "real", "default", FilterRange}
    PROVE  Endpoint(answer) \in {"none", "real"}
<1> DEFINE P(a) == \/ a = answer /\ Real(answer, FilterRange)
                   \/ a = cache /\ ~Real(answer, FilterRange) /\ Real(cache, FilterRange)
                   \/ a = "none" /\ ~Real(answer, FilterRange) /\ ~Real(cache, FilterRange)
<1>1. \E a \in {answer, cache, "none"} : P(a)
  OBVIOUS
<1>2. P(Endpoint(answer))
  BY <1>1 DEF Endpoint
<1>3. Real(answer, FilterRange) => answer \in {"none", "real"}
  BY DEF Real
<1>4. QED
  BY <1>2, <1>3

LEMMA EndpointType ==
    ASSUME NEW answer \in Addresses, cache \in Addresses
    PROVE  Endpoint(answer) \in Addresses
<1> DEFINE P(a) == \/ a = answer /\ Real(answer, FilterRange)
                   \/ a = cache /\ ~Real(answer, FilterRange) /\ Real(cache, FilterRange)
                   \/ a = "none" /\ ~Real(answer, FilterRange) /\ ~Real(cache, FilterRange)
<1>1. \E a \in {answer, cache, "none"} : P(a)
  OBVIOUS
<1>2. Endpoint(answer) \in {answer, cache, "none"}
  BY <1>1 DEF Endpoint
<1>3. QED
  BY <1>2 DEF Addresses

\* Where the steps of an operation leave the gate.
LEMMA AsIsMoves ==
    ASSUME CapTypeOK, PolicyAsIs
    PROVE  gate' = GateAt("resolve", gate.next, IF gate.by = "refresh" THEN gate.cap ELSE Destinations(doc))
<1> DEFINE cap == IF gate.by = "refresh" THEN gate.cap ELSE Destinations(doc)
<1>1. gate \in Gates /\ cap \in Captures
  BY GateFields, DestinationsShape DEF CapTypeOK
<1>2. gate' = [gate EXCEPT !.pc = "resolve", !.cap = cap]
  BY <1>1 DEF PolicyAsIs, Gates
<1> HIDE DEF cap
<1>3. gate' = GateAt("resolve", gate.next, cap)
  BY <1>1, <1>2, GateFields, GateMoves
<1>4. QED
  BY <1>3 DEF cap

LEMMA GenerateMoves ==
    ASSUME CapTypeOK, NEW avail \in SUBSET Sources, PolicyGenerate(avail)
    PROVE  \/ /\ Retains(doc, gate.set, avail) /\ UNCHANGED fresh
              /\ gate' = GateAt("resolve", gate.next, Destinations(doc))
           \/ /\ ~Retains(doc, gate.set, avail) /\ fresh' = fresh \union {"gate"}
              /\ gate' = GateAt("commit", Generated(doc, gate.set, avail), gate.cap)
<1>1. gate \in Gates /\ Destinations(doc) \in Captures
  BY DestinationsShape DEF CapTypeOK
<1>2. Generated(doc, gate.set, avail) \in Docs
  BY <1>1, GeneratedShape, GateFields DEF CapTypeOK
<1>3. CASE Retains(doc, gate.set, avail)
  <2>1. gate' = [gate EXCEPT !.pc = "resolve", !.cap = Destinations(doc)] /\ UNCHANGED fresh
    BY <1>3 DEF PolicyGenerate
  <2>2. QED
    BY <1>1, <1>3, <2>1, GateFields, GateMoves
<1>4. CASE ~Retains(doc, gate.set, avail)
  <2>1. gate' = [gate EXCEPT !.pc = "commit", !.next = Generated(doc, gate.set, avail)]
        /\ fresh' = fresh \union {"gate"}
    BY <1>4 DEF PolicyGenerate
  <2>2. QED
    BY <1>1, <1>2, <1>4, <2>1, GateFields, GateMoves
<1>5. QED
  BY <1>3, <1>4

LEMMA CommitMoves ==
    ASSUME CapTypeOK, PolicyCommit
    PROVE  \/ /\ "gate" \in fresh /\ doc' = gate.next /\ fresh' = {} /\ told' = told /\ wake' = wake
              /\ gate' = GateAt("resolve", gate.next, Destinations(gate.next))
           \/ Release(FALSE) /\ doc' = doc /\ fresh' = fresh
<1>1. gate \in Gates /\ gate.next \in Docs /\ Destinations(gate.next) \in Captures
  BY GateFields, DestinationsShape DEF CapTypeOK
<1>2. [gate EXCEPT !.pc = "resolve", !.cap = Destinations(gate.next)]
        = GateAt("resolve", gate.next, Destinations(gate.next))
  BY <1>1, GateMoves
<1>3. QED
  BY <1>2 DEF PolicyCommit, CanCommit, Publish

LEMMA ResolveMoves ==
    ASSUME CapTypeOK, NEW answer \in Answers, ResolveEndpoints(answer)
    PROVE  /\ Endpoint(answer) \in Addresses
           /\ \/ /\ cache' = Endpoint(answer)
                 /\ gate' = GateAt("apply", gate.next, [cidrs |-> gate.cap.cidrs, bypass |-> Endpoint(answer)])
              \/ cache' = cache /\ gate' = GateAt("apply", gate.next, gate.cap)
<1>1. gate \in Gates /\ gate.cap \in Captures /\ gate.next \in Docs
  BY GateFields DEF CapTypeOK
<1>2. answer \in Addresses
  BY DEF Answers, Addresses, CapTypeOK, CoreStates
<1>3. Endpoint(answer) \in Addresses
  BY <1>2, EndpointType DEF CapTypeOK
<1> DEFINE cap == [cidrs |-> gate.cap.cidrs, bypass |-> Endpoint(answer)]
<1>4. cap \in Captures /\ [gate.cap EXCEPT !.bypass = Endpoint(answer)] = cap
  BY <1>1, <1>3 DEF Captures
<1>5. CASE Resolving
  <2>1. cache' = Endpoint(answer) /\ gate' = [gate EXCEPT !.pc = "apply", !.cap = cap]
    BY <1>1, <1>4, <1>5 DEF ResolveEndpoints, Gates
  <2> HIDE DEF cap
  <2>2. gate' = GateAt("apply", gate.next, cap)
    BY <1>1, <1>4, <2>1, GateMoves
  <2>3. QED
    BY <1>3, <2>1, <2>2 DEF cap
<1>6. CASE ~Resolving
  <2>1. cache' = cache /\ gate' = [gate EXCEPT !.pc = "apply"]
    BY <1>6 DEF ResolveEndpoints
  <2>2. QED
    BY <1>1, <1>3, <2>1, GateMoves
<1>7. QED
  BY <1>5, <1>6

LEMMA ApplyMoves ==
    ASSUME CapTypeOK, RefreshApply
    PROVE  gate' = GateAt("save", gate.next, gate.cap) /\ nft' = gate.cap
<1>1. gate \in Gates /\ gate' = [gate EXCEPT !.pc = "save"] /\ nft' = gate.cap
  BY DEF CapTypeOK, RefreshApply
<1>2. QED
  BY <1>1, GateFields, GateMoves

LEMMA CapTypeStep == CapTypeOK /\ [CapNext]_capVars => CapTypeOK'
<1> SUFFICES ASSUME CapTypeOK, [CapNext]_capVars PROVE CapTypeOK'
  OBVIOUS
<1> USE BlankTypes, FreeFields, CapBoundAssumption, CapManualAssumption
<1>1. ASSUME NEW text \in Manuals, SaveManual(text) PROVE CapTypeOK'
  <2>1. [doc EXCEPT !.manual = text] \in Docs
    BY DEF CapTypeOK, Docs
  <2>2. QED
    BY <1>1, <2>1 DEF CapTypeOK, SaveManual, Publish
<1>2. ASSUME NEW avail \in SUBSET Sources, RegenerateRead(avail) PROVE CapTypeOK'
  <2>1. Generated(doc, settings, avail) \in Docs
    BY GeneratedShape DEF CapTypeOK
  <2>2. api' \in [on : BOOLEAN, next : Docs]
    <3>1. CASE Retains(doc, settings, avail)
      BY <1>2, <3>1 DEF CapTypeOK, RegenerateRead
    <3>2. CASE ~Retains(doc, settings, avail)
      <4>1. api' = [on |-> TRUE, next |-> Generated(doc, settings, avail)]
        BY <1>2, <3>2 DEF RegenerateRead
      <4>2. QED
        BY <4>1, <2>1
    <3>3. QED
      BY <3>1, <3>2
  <2>3. fresh' \subseteq {"gate", "api"} /\ pend' \subseteq {"settings", "pool"}
    BY <1>2 DEF CapTypeOK, RegenerateRead
  <2>4. QED
    BY <1>2, <2>2, <2>3 DEF CapTypeOK, RegenerateRead
<1>3. CASE RegenerateCommit
  BY <1>3 DEF CapTypeOK, RegenerateCommit, Publish
<1>4. ASSUME NEW set \in Offered, UpdateSettings(set) PROVE CapTypeOK'
  <2>1. settings' \in Settings /\ changes' \in 0 .. MaxChanges
    BY <1>4, CapOfferedAssumption DEF CapTypeOK, UpdateSettings
  <2>2. pend' \subseteq {"settings", "pool"} /\ told' \in BOOLEAN /\ wake' \in BOOLEAN
    BY <1>4 DEF CapTypeOK, UpdateSettings
  <2>3. QED
    BY <1>4, <2>1, <2>2 DEF CapTypeOK, UpdateSettings
<1>5. ASSUME NEW r \in Ranges, SelectRange(r) PROVE CapTypeOK'
  BY <1>5 DEF CapTypeOK, SelectRange
<1>6. ASSUME NEW by \in {"settings", "pool"}, RestartSkipped(by) PROVE CapTypeOK'
  BY <1>6 DEF CapTypeOK, RestartSkipped
<1>7. ASSUME NEW by \in {"settings", "pool"}, NEW guarded \in BOOLEAN, RestartBegin(by, guarded) PROVE CapTypeOK'
  <2>1. gate' \in Gates
    BY <1>7, HoldShape DEF RestartBegin, CapTypeOK
  <2>2. [core EXCEPT !.on = FALSE, !.cap = NoCapture] \in CoreStates
    BY DEF CapTypeOK, CoreStates
  <2>3. QED
    BY <1>7, <2>1, <2>2 DEF CapTypeOK, RestartBegin
<1>8. CASE StartBegin
  <2>1. gate' \in Gates
    BY <1>8, HoldShape DEF StartBegin, CapTypeOK
  <2>2. QED
    BY <1>8, <2>1 DEF CapTypeOK, StartBegin
<1>9. CASE RefreshBegin
  <2>1. maint.set \in Settings /\ core.cap \in Captures
    BY DEF CapTypeOK, CoreStates
  <2>2. gate' \in Gates
    BY <1>9, <2>1, HoldShape DEF RefreshBegin, CapTypeOK
  <2>3. QED
    BY <1>9, <2>2 DEF CapTypeOK, RefreshBegin
<1>10. CASE PolicyAsIs
  <2>1. gate' \in Gates
    BY <1>10, AsIsMoves, GateFields, GateAtType, DestinationsShape DEF CapTypeOK
  <2>2. QED
    BY <1>10, <2>1 DEF CapTypeOK, PolicyAsIs
<1>11. ASSUME NEW avail \in SUBSET Sources, PolicyGenerate(avail) PROVE CapTypeOK'
  <2>1. gate \in Gates /\ Destinations(doc) \in Captures
    BY DestinationsShape DEF CapTypeOK
  <2>2. Generated(doc, gate.set, avail) \in Docs
    BY <2>1, GeneratedShape, GateFields DEF CapTypeOK
  <2>3. gate' \in Gates
    BY <1>11, <2>1, <2>2, GenerateMoves, GateFields, GateAtType
  <2>4. fresh' \subseteq {"gate", "api"}
    BY <1>11, GenerateMoves DEF CapTypeOK
  <2>5. QED
    BY <1>11, <2>3, <2>4 DEF CapTypeOK, PolicyGenerate
<1>12. ASSUME NEW avail \in SUBSET Sources, PolicyFails(avail) PROVE CapTypeOK'
  BY <1>12, ReleaseShape DEF CapTypeOK, PolicyFails
<1>13. CASE PolicyCommit
  <2>1. gate \in Gates /\ gate.next \in Docs /\ Destinations(gate.next) \in Captures
    BY GateFields, DestinationsShape DEF CapTypeOK
  <2>2. GateAt("resolve", gate.next, Destinations(gate.next)) \in Gates
    BY <2>1, GateAtType
  <2>3. gate' \in Gates /\ doc' \in Docs /\ fresh' \subseteq {"gate", "api"} /\ told' \in BOOLEAN /\ wake' \in BOOLEAN
    BY <1>13, <2>1, <2>2, CommitMoves, ReleaseShape DEF CapTypeOK
  <2>4. QED
    BY <1>13, <2>3 DEF CapTypeOK, PolicyCommit
<1>14. ASSUME NEW answer \in Answers, ResolveEndpoints(answer) PROVE CapTypeOK'
  <2> DEFINE cap == [cidrs |-> gate.cap.cidrs, bypass |-> Endpoint(answer)]
  <2>1. gate \in Gates /\ gate.next \in Docs /\ gate.cap \in Captures /\ Endpoint(answer) \in Addresses
    BY <1>14, GateFields, ResolveMoves DEF CapTypeOK
  <2>2. cap \in Captures
    BY <2>1 DEF Captures
  <2>3. /\ cache' \in Addresses
        /\ (gate' = GateAt("apply", gate.next, cap) \/ gate' = GateAt("apply", gate.next, gate.cap))
    BY <1>14, <2>1, ResolveMoves DEF CapTypeOK
  <2> HIDE DEF cap
  <2>4. gate' \in Gates
    BY <2>1, <2>2, <2>3, GateAtType
  <2>5. QED
    BY <1>14, <2>3, <2>4 DEF CapTypeOK, ResolveEndpoints
<1>15. CASE RestartActivates
  <2>1. gate.cap \in Captures /\ core' \in CoreStates
    BY <1>15, GateFields DEF CapTypeOK, RestartActivates, CoreStates
  <2>2. QED
    BY <1>15, <2>1, ReleaseShape DEF CapTypeOK, RestartActivates
<1>16. CASE RestartFails \/ RefreshApplyFails
  BY <1>16, ReleaseShape DEF CapTypeOK, RestartFails, RefreshApplyFails
<1>17. CASE RefreshApply
  <2>1. gate' \in Gates /\ nft' \in Captures
    BY <1>17, ApplyMoves, GateFields, GateAtType DEF CapTypeOK
  <2>2. QED
    BY <1>17, <2>1 DEF CapTypeOK, RefreshApply
<1>18. CASE RefreshSave
  <2>1. gate.cap \in Captures /\ [core EXCEPT !.cap = gate.cap] \in CoreStates
    BY GateFields DEF CapTypeOK, CoreStates
  <2>2. QED
    BY <1>18, <2>1, ReleaseShape DEF CapTypeOK, RefreshSave
<1>19. CASE RefreshUnsaved
  BY <1>19, ReleaseShape DEF CapTypeOK, RefreshUnsaved
<1>20. CASE MaintLoad \/ MaintNotified
  <2>1. maint' \in [pc : {"load", "wait", "fired"}, set : Settings]
    BY <1>20 DEF CapTypeOK, MaintLoad, MaintNotified
  <2>2. QED
    BY <1>20, <2>1 DEF CapTypeOK, MaintLoad, MaintNotified
<1>21. CASE MaintTimer
  BY <1>21 DEF CapTypeOK, MaintTimer
<1>22. CASE UNCHANGED capVars
  BY <1>22 DEF CapTypeOK, capVars
<1>23. QED
  BY <1>1, <1>2, <1>3, <1>4, <1>5, <1>6, <1>7, <1>8, <1>9, <1>10, <1>11, <1>12, <1>13, <1>14, <1>15, <1>16,
     <1>17, <1>18, <1>19, <1>20, <1>21, <1>22 DEF CapNext

-----------------------------------------------------------------------------
(* The administrator's text.                                               *)

LEMMA TextInit == CapInit => TextInv
<1> SUFFICES ASSUME CapInit PROVE TextInv
  OBVIOUS
<1>1. CapTypeOK
  <2>1. core \in CoreStates /\ maint \in [pc : {"load", "wait", "fired"}, set : Settings]
    BY BlankTypes DEF CapInit, CoreStates
  <2>2. "none" \in Addresses /\ 0 \in 0 .. MaxChanges
    BY CapBoundAssumption DEF Addresses
  <2>3. QED
    BY <2>1, <2>2, BlankTypes, CapManualAssumption DEF CapInit, CapTypeOK
<1>2. doc.manual = NoManual
  <2>1. EmptyDoc.manual = NoManual
    BY DEF EmptyDoc
  <2>2. LegacyDoc.manual = EmptyDoc.manual
    BY DEF LegacyDoc, EmptyDoc
  <2>3. QED
    BY <2>1, <2>2 DEF CapInit
<1>3. QED
  BY <1>1, <1>2, FreeFields DEF CapInit, TextInv, PendingKeepsText, ManualKept

LEMMA TextStep == TextInv /\ [CapNext]_capVars => TextInv'
<1> SUFFICES ASSUME TextInv, [CapNext]_capVars PROVE (PendingKeepsText /\ ManualKept)'
  BY CapTypeStep DEF TextInv
<1> USE FreeFields DEF TextInv
<1>1. ASSUME NEW text \in Manuals, SaveManual(text) PROVE (PendingKeepsText /\ ManualKept)'
  <2>1. doc'.manual = text /\ fresh' = {} /\ saved' = text
    BY <1>1 DEF SaveManual, Publish, CapTypeOK, Docs
  <2>2. QED
    BY <2>1 DEF PendingKeepsText, ManualKept
<1>2. ASSUME NEW avail \in SUBSET Sources, RegenerateRead(avail) PROVE (PendingKeepsText /\ ManualKept)'
  <2>1. Generated(doc, settings, avail).manual = doc.manual
    BY GeneratedShape DEF CapTypeOK
  <2>2. doc' = doc /\ saved' = saved /\ gate' = gate
    BY <1>2 DEF RegenerateRead
  <2>3. CASE Retains(doc, settings, avail)
    BY <1>2, <2>2, <2>3 DEF RegenerateRead, PendingKeepsText, ManualKept
  <2>4. CASE ~Retains(doc, settings, avail)
    <3>1. api'.next = Generated(doc, settings, avail) /\ fresh' = fresh \union {"api"}
      BY <1>2, <2>4 DEF RegenerateRead
    <3>2. QED
      BY <2>1, <2>2, <3>1 DEF PendingKeepsText, ManualKept
  <2>5. QED
    BY <2>3, <2>4
<1>3. CASE RegenerateCommit
  BY <1>3 DEF RegenerateCommit, CanCommit, Publish, PendingKeepsText, ManualKept
<1>4. ASSUME UNCHANGED <<doc, fresh, saved, gate, api>> PROVE (PendingKeepsText /\ ManualKept)'
  BY <1>4 DEF PendingKeepsText, ManualKept
<1>5. ASSUME UNCHANGED <<doc, fresh, saved, api>>, gate'.pc # "commit" PROVE (PendingKeepsText /\ ManualKept)'
  BY <1>5 DEF PendingKeepsText, ManualKept
<1>6. ASSUME NEW by \in {"settings", "pool"}, NEW guarded \in BOOLEAN, RestartBegin(by, guarded)
      PROVE  (PendingKeepsText /\ ManualKept)'
  <2>1. gate'.pc # "commit"
    BY <1>6, HoldShape, BlankTypes DEF RestartBegin, CapTypeOK
  <2>2. QED
    BY <1>6, <1>5, <2>1 DEF RestartBegin
<1>7. CASE StartBegin
  <2>1. gate'.pc # "commit"
    BY <1>7, HoldShape, BlankTypes DEF StartBegin, CapTypeOK
  <2>2. QED
    BY <1>7, <1>5, <2>1 DEF StartBegin
<1>8. CASE RefreshBegin
  <2>1. UNCHANGED gate \/ Hold("refresh", maint.set, core.cap)
    BY <1>8 DEF RefreshBegin
  <2>2. maint.set \in Settings /\ core.cap \in Captures
    BY DEF CapTypeOK, CoreStates
  <2>3. gate' = gate \/ gate'.pc # "commit"
    BY <2>1, <2>2, HoldShape
  <2>4. QED
    BY <1>8, <1>4, <1>5, <2>3 DEF RefreshBegin
<1>9. CASE PolicyAsIs
  <2>1. gate'.pc = "resolve"
    BY <1>9, AsIsMoves DEF GateAt
  <2>2. QED
    BY <1>9, <1>5, <2>1 DEF PolicyAsIs
<1>10. ASSUME NEW avail \in SUBSET Sources, PolicyGenerate(avail) PROVE (PendingKeepsText /\ ManualKept)'
  <2>1. "api" \in fresh' => "api" \in fresh
    BY <1>10, GenerateMoves
  <2>2. gate'.pc = "commit" => gate'.next = Generated(doc, gate.set, avail)
    BY <1>10, GenerateMoves DEF GateAt
  <2>3. Generated(doc, gate.set, avail).manual = doc.manual
    BY GeneratedShape, GateFields DEF CapTypeOK
  <2>4. UNCHANGED <<doc, saved, api>>
    BY <1>10 DEF PolicyGenerate
  <2>5. QED
    BY <2>1, <2>2, <2>3, <2>4 DEF PendingKeepsText, ManualKept
<1>11. ASSUME UNCHANGED <<doc, fresh, saved, api>>, NEW ok \in BOOLEAN, Release(ok)
       PROVE  (PendingKeepsText /\ ManualKept)'
  BY <1>11, <1>5, ReleaseShape
<1>12. CASE PolicyCommit
  <2>1. CASE "gate" \in fresh /\ doc' = gate.next /\ fresh' = {}
    BY <1>12, <2>1 DEF PolicyCommit, PendingKeepsText, ManualKept
  <2>2. CASE Release(FALSE) /\ doc' = doc /\ fresh' = fresh
    BY <1>12, <1>11, <2>2 DEF PolicyCommit
  <2>3. QED
    BY <1>12, <2>1, <2>2, CommitMoves
<1>13. ASSUME NEW answer \in Answers, ResolveEndpoints(answer) PROVE (PendingKeepsText /\ ManualKept)'
  <2>1. gate'.pc = "apply"
    BY <1>13, ResolveMoves DEF GateAt
  <2>2. QED
    BY <1>13, <1>5, <2>1 DEF ResolveEndpoints
<1>14. CASE RefreshApply
  <2>1. gate'.pc = "save"
    BY <1>14, ApplyMoves DEF GateAt
  <2>2. QED
    BY <1>14, <1>5, <2>1 DEF RefreshApply
<1>15. CASE RestartActivates \/ RestartFails \/ RefreshApplyFails \/ RefreshSave \/ RefreshUnsaved
  BY <1>15, <1>11 DEF RestartActivates, RestartFails, RefreshApplyFails, RefreshSave, RefreshUnsaved
<1>16. ASSUME NEW avail \in SUBSET Sources, PolicyFails(avail) PROVE (PendingKeepsText /\ ManualKept)'
  BY <1>16, <1>11 DEF PolicyFails
<1>17. ASSUME NEW set \in Offered, UpdateSettings(set) PROVE (PendingKeepsText /\ ManualKept)'
  BY <1>17, <1>4 DEF UpdateSettings
<1>18. ASSUME NEW r \in Ranges, SelectRange(r) PROVE (PendingKeepsText /\ ManualKept)'
  BY <1>18, <1>4 DEF SelectRange
<1>19. ASSUME NEW by \in {"settings", "pool"}, RestartSkipped(by) PROVE (PendingKeepsText /\ ManualKept)'
  BY <1>19, <1>4 DEF RestartSkipped
<1>20. CASE MaintLoad \/ MaintNotified \/ MaintTimer \/ UNCHANGED capVars
  BY <1>20, <1>4 DEF MaintLoad, MaintNotified, MaintTimer, capVars
<1>21. QED
  BY <1>1, <1>2, <1>3, <1>6, <1>7, <1>8, <1>9, <1>10, <1>12, <1>13, <1>14, <1>15, <1>16,
     <1>17, <1>18, <1>19, <1>20 DEF CapNext

\* The text an administrator saved is the document's: no regeneration that read an
\* older revision, of the restart, the refresh or the browser, overwrites it.
THEOREM ManualKeptHolds == CapSpec => []ManualKept
<1>1. TextInv => ManualKept
  BY DEF TextInv
<1>2. QED
  BY TextInit, TextStep, <1>1, PTL DEF CapSpec

-----------------------------------------------------------------------------
(* What is decided when the gate is taken stays true.                      *)

LEMMA CurrentStep ==
    ASSUME CapTypeOK, Current, CapNext
    PROVE  Current'
<1> USE FreeFields, BlankTypes
<1>0. gate.by = "none" \/ gate.by \in {"settings", "pool", "start", "refresh"}
  BY GateFields DEF CapTypeOK
<1>1. ASSUME UNCHANGED <<gate, core, flaws>>, (settings' = settings /\ range' = range) \/ gate.by = "none"
      PROVE  Current'
  BY <1>1 DEF Current, Outdated
<1>2. ASSUME NEW ok \in BOOLEAN, Release(ok) PROVE Current'
  BY <1>2 DEF Release, Current
<1>3. ASSUME NEW pc \in {"commit", "resolve", "apply", "save"}, NEW d, NEW cap, gate' = GateAt(pc, d, cap),
             gate.pc # "free", pc = "save" => gate.by = "refresh", UNCHANGED <<settings, range, core, flaws>>
      PROVE  Current'
  <2>1. gate'.by = gate.by /\ gate'.set = gate.set /\ gate'.pc = pc
    BY <1>3 DEF GateAt
  <2>2. QED
    BY <1>0, <1>3, <2>1 DEF Current, Outdated
<1>4. ASSUME NEW by \in {"settings", "pool"}, NEW guarded \in BOOLEAN, RestartBegin(by, guarded) PROVE Current'
  <2>1. gate'.by = by /\ gate'.pc = "policy" /\ gate'.set = settings
    BY <1>4, HoldShape DEF RestartBegin, CapTypeOK
  <2>2. settings' = settings /\ range' = range
        /\ (core'.on /\ "range" \notin flaws' => core'.range \in {range, "default"})
    <3>1. CASE guarded
      BY <1>4, <3>1 DEF RestartBegin
    <3>2. CASE ~guarded
      BY <1>4, <3>2 DEF RestartBegin, CapTypeOK, CoreStates
    <3>3. QED
      BY <3>1, <3>2
  <2>3. QED
    BY <2>1, <2>2 DEF Current
<1>5. CASE StartBegin
  <2>1. gate'.by = "start" /\ gate'.pc = "policy" /\ gate'.set = settings
    BY <1>5, HoldShape DEF StartBegin, CapTypeOK
  <2>2. QED
    BY <1>5, <2>1 DEF Current, StartBegin
<1>6. CASE RefreshBegin
  <2>1. maint.set \in Settings /\ core.cap \in Captures
    BY DEF CapTypeOK, CoreStates
  <2>2. CASE core.on
    <3>1. gate'.by = "refresh" /\ gate'.pc = "policy" /\ gate'.set = maint.set /\ gate'.cap = core.cap
      BY <1>6, <2>1, <2>2, HoldShape DEF RefreshBegin
    <3>2. "outdated" \notin flaws' => ~Outdated(maint.set)
      BY <1>6, <2>2 DEF RefreshBegin
    <3>3. QED
      BY <1>6, <2>2, <3>1, <3>2 DEF Current, Outdated, RefreshBegin
  <2>3. CASE ~core.on
    <3>1. flaws' = flaws /\ gate' = gate
      BY <1>6, <2>3 DEF RefreshBegin
    <3>2. QED
      BY <1>6, <1>1, <3>1 DEF RefreshBegin
  <2>4. QED
    BY <2>2, <2>3
<1>7. CASE PolicyAsIs
  BY <1>7, <1>3, AsIsMoves DEF PolicyAsIs
<1>8. ASSUME NEW avail \in SUBSET Sources, PolicyGenerate(avail) PROVE Current'
  <2>1. gate.pc = "policy" /\ UNCHANGED <<settings, range, core, flaws>>
    BY <1>8 DEF PolicyGenerate
  <2>2. \/ gate' = GateAt("resolve", gate.next, Destinations(doc))
        \/ gate' = GateAt("commit", Generated(doc, gate.set, avail), gate.cap)
    BY <1>8, GenerateMoves
  <2>3. QED
    BY <1>3, <2>1, <2>2
<1>9. CASE PolicyCommit
  BY <1>9, <1>2, <1>3, CommitMoves DEF PolicyCommit
<1>10. ASSUME NEW answer \in Answers, ResolveEndpoints(answer) PROVE Current'
  BY <1>10, <1>3, ResolveMoves DEF ResolveEndpoints
<1>11. CASE RefreshApply
  BY <1>11, <1>3, ApplyMoves DEF RefreshApply
<1>12. CASE RestartActivates \/ RestartFails \/ RefreshApplyFails \/ RefreshSave \/ RefreshUnsaved
  BY <1>12, <1>2 DEF RestartActivates, RestartFails, RefreshApplyFails, RefreshSave, RefreshUnsaved
<1>13. ASSUME NEW avail \in SUBSET Sources, PolicyFails(avail) \/ RegenerateRead(avail) PROVE Current'
  BY <1>13, <1>1, <1>2 DEF PolicyFails, RegenerateRead
<1>14. ASSUME NEW set \in Offered, UpdateSettings(set) PROVE Current'
  BY <1>14, <1>1 DEF UpdateSettings
<1>15. ASSUME NEW r \in Ranges, SelectRange(r) PROVE Current'
  BY <1>15, <1>1 DEF SelectRange
<1>16. ASSUME NEW by \in {"settings", "pool"}, RestartSkipped(by) PROVE Current'
  BY <1>16, <1>1 DEF RestartSkipped
<1>17. ASSUME NEW text \in Manuals, SaveManual(text) PROVE Current'
  BY <1>17, <1>1 DEF SaveManual
<1>18. CASE RegenerateCommit \/ MaintLoad \/ MaintNotified \/ MaintTimer
  BY <1>18, <1>1 DEF RegenerateCommit, MaintLoad, MaintNotified, MaintTimer
<1>19. QED
  BY <1>4, <1>5, <1>6, <1>7, <1>8, <1>9, <1>10, <1>11, <1>12, <1>13, <1>14, <1>15, <1>16, <1>17, <1>18 DEF CapNext

LEMMA BlocksStep ==
    ASSUME CapTypeOK, BlocksHonest, CapNext
    PROVE  BlocksHonest'
<1> USE FreeFields, BlankTypes
<1>1. ASSUME UNCHANGED <<doc, api>>, gate' = gate \/ gate'.pc # "commit" PROVE BlocksHonest'
  BY <1>1 DEF BlocksHonest
<1>2. ASSUME NEW ok \in BOOLEAN, Release(ok), UNCHANGED <<doc, api>> PROVE BlocksHonest'
  BY <1>1, <1>2 DEF Release
<1>3. ASSUME NEW text \in Manuals, SaveManual(text) PROVE BlocksHonest'
  <2>1. doc'.scope = doc.scope /\ doc'.cidrs = doc.cidrs
    BY <1>3 DEF SaveManual, Publish, CapTypeOK, Docs
  <2>2. QED
    BY <1>3, <2>1 DEF SaveManual, BlocksHonest, LocalIsClean
<1>4. ASSUME NEW avail \in SUBSET Sources, RegenerateRead(avail) PROVE BlocksHonest'
  <2>1. LocalIsClean(Generated(doc, settings, avail))
    BY GeneratedShape DEF BlocksHonest, CapTypeOK
  <2>2. CASE Retains(doc, settings, avail)
    BY <1>1, <1>4, <2>2 DEF RegenerateRead
  <2>3. CASE ~Retains(doc, settings, avail)
    <3>1. api'.next = Generated(doc, settings, avail) /\ doc' = doc /\ gate' = gate
      BY <1>4, <2>3 DEF RegenerateRead
    <3>2. LocalIsClean(api'.next)
      BY <2>1, <3>1
    <3>3. QED
      BY <3>1, <3>2 DEF BlocksHonest, LocalIsClean
  <2>4. QED
    BY <2>2, <2>3
<1>5. CASE RegenerateCommit
  BY <1>5 DEF RegenerateCommit, Publish, BlocksHonest, LocalIsClean
<1>6. ASSUME NEW by \in {"settings", "pool"}, NEW guarded \in BOOLEAN, RestartBegin(by, guarded) PROVE BlocksHonest'
  <2>1. gate'.pc = "policy"
    BY <1>6, HoldShape DEF RestartBegin, CapTypeOK
  <2>2. QED
    BY <1>1, <1>6, <2>1 DEF RestartBegin
<1>7. CASE StartBegin
  <2>1. gate'.pc = "policy"
    BY <1>7, HoldShape DEF StartBegin, CapTypeOK
  <2>2. QED
    BY <1>1, <1>7, <2>1 DEF StartBegin
<1>8. CASE RefreshBegin
  <2>1. maint.set \in Settings /\ core.cap \in Captures
    BY DEF CapTypeOK, CoreStates
  <2>2. gate' = gate \/ gate'.pc = "policy"
    BY <1>8, <2>1, HoldShape DEF RefreshBegin
  <2>3. QED
    BY <1>1, <1>8, <2>2 DEF RefreshBegin
<1>9. CASE PolicyAsIs
  <2>1. gate'.pc = "resolve"
    BY <1>9, AsIsMoves DEF GateAt
  <2>2. QED
    BY <1>1, <1>9, <2>1 DEF PolicyAsIs
<1>10. ASSUME NEW avail \in SUBSET Sources, PolicyGenerate(avail) PROVE BlocksHonest'
  <2> DEFINE next == Generated(doc, gate.set, avail)
  <2>1. LocalIsClean(next) /\ (~Retains(doc, gate.set, avail) /\ ~gate.set.ext => next.scope = "local-only")
    BY GeneratedShape, GateFields DEF BlocksHonest, CapTypeOK
  <2> HIDE DEF next
  <2>2. gate'.pc = "commit" => gate'.next = next /\ gate'.set = gate.set /\ ~Retains(doc, gate.set, avail)
    BY <1>10, GenerateMoves DEF GateAt, next
  <2>3. doc' = doc /\ api' = api
    BY <1>10 DEF PolicyGenerate
  <2>4. QED
    BY <2>1, <2>2, <2>3 DEF BlocksHonest, LocalIsClean
<1>11. CASE PolicyCommit
  <2>1. CASE Release(FALSE) /\ doc' = doc
    BY <1>2, <1>11, <2>1 DEF PolicyCommit
  <2>2. CASE doc' = gate.next /\ gate' = GateAt("resolve", gate.next, Destinations(gate.next))
    <3>1. gate'.pc = "resolve"
      BY <2>2 DEF GateAt
    <3>2. QED
      BY <1>11, <2>2, <3>1 DEF PolicyCommit, BlocksHonest, LocalIsClean
  <2>3. QED
    BY <1>11, <2>1, <2>2, CommitMoves
<1>12. ASSUME NEW answer \in Answers, ResolveEndpoints(answer) PROVE BlocksHonest'
  <2>1. gate'.pc = "apply"
    BY <1>12, ResolveMoves DEF GateAt
  <2>2. QED
    BY <1>1, <1>12, <2>1 DEF ResolveEndpoints
<1>13. CASE RefreshApply
  <2>1. gate'.pc = "save"
    BY <1>13, ApplyMoves DEF GateAt
  <2>2. QED
    BY <1>1, <1>13, <2>1 DEF RefreshApply
<1>14. CASE RestartActivates \/ RestartFails \/ RefreshApplyFails \/ RefreshSave \/ RefreshUnsaved
  BY <1>14, <1>2 DEF RestartActivates, RestartFails, RefreshApplyFails, RefreshSave, RefreshUnsaved
<1>15. ASSUME NEW avail \in SUBSET Sources, PolicyFails(avail) PROVE BlocksHonest'
  BY <1>15, <1>2 DEF PolicyFails
<1>16. ASSUME NEW set \in Offered, UpdateSettings(set) PROVE BlocksHonest'
  BY <1>16, <1>1 DEF UpdateSettings
<1>17. ASSUME NEW r \in Ranges, SelectRange(r) PROVE BlocksHonest'
  BY <1>17, <1>1 DEF SelectRange
<1>18. ASSUME NEW by \in {"settings", "pool"}, RestartSkipped(by) PROVE BlocksHonest'
  BY <1>18, <1>1 DEF RestartSkipped
<1>19. CASE MaintLoad \/ MaintNotified \/ MaintTimer
  BY <1>19, <1>1 DEF MaintLoad, MaintNotified, MaintTimer
<1>20. QED
  BY <1>3, <1>4, <1>5, <1>6, <1>7, <1>8, <1>9, <1>10, <1>11, <1>12, <1>13, <1>14, <1>15, <1>16, <1>17, <1>18,
     <1>19 DEF CapNext

LEMMA PromisedStep ==
    ASSUME CapTypeOK, Current, BlocksHonest, Promised, CapNext
    PROVE  Promised'
<1> USE FreeFields, BlankTypes DEF OptedOut, Relied, Clean
<1>0. gate.by = "none" \/ gate.by \in {"settings", "pool", "start", "refresh"}
  BY GateFields DEF CapTypeOK
<1>1. ASSUME UNCHANGED <<settings, told, core, nft, rec, gate, flaws>>,
             "settings" \in pend' => "settings" \in pend
      PROVE  Promised'
  BY <1>1 DEF Promised
<1>2. ASSUME UNCHANGED <<settings, pend, core, nft, rec, flaws>>, NEW ok \in BOOLEAN, Release(ok),
             ok => gate.by # "settings"
      PROVE  Promised'
  BY <1>2 DEF Promised, Release
<1>3. ASSUME NEW pc \in {"commit", "resolve", "apply", "save"}, NEW d, NEW cap, gate' = GateAt(pc, d, cap),
             UNCHANGED <<settings, told, pend, core, rec, flaws>>,
             nft' = nft \/ ((Relied /\ OptedOut => Clean(nft')) /\ core.on),
             pc # "commit" /\ OptedOut /\ (Relied \/ gate.by # "refresh") => Clean(cap)
      PROVE  Promised'
  <2>1. gate'.by = gate.by /\ gate'.pc = pc /\ gate'.cap = cap
    BY <1>3 DEF GateAt
  <2>2. QED
    BY <1>3, <2>1 DEF Promised
<1>4. ASSUME NEW by \in {"settings", "pool"}, NEW guarded \in BOOLEAN, RestartBegin(by, guarded) PROVE Promised'
  <2>1. gate'.by = by /\ gate'.pc = "policy" /\ gate.by = "none"
    BY <1>4, HoldShape DEF RestartBegin, CapTypeOK
  <2>2. settings' = settings /\ told' = told /\ pend' = pend \ {by} /\ by \in pend
        /\ ("outdated" \in flaws <=> "outdated" \in flaws')
    BY <1>4 DEF RestartBegin
  <2>3. CASE guarded
    BY <1>4, <2>1, <2>2, <2>3 DEF RestartBegin, Promised
  <2>4. CASE ~guarded
    <3>1. nft' = NoCapture /\ rec' = NoCapture /\ core'.cap = NoCapture
      BY <1>4, <2>4 DEF RestartBegin, CapTypeOK, CoreStates
    <3>2. QED
      BY <2>1, <2>2, <3>1 DEF Promised
  <2>5. QED
    BY <2>3, <2>4
<1>5. CASE StartBegin
  <2>1. gate'.by = "start" /\ gate'.pc = "policy"
    BY <1>5, HoldShape DEF StartBegin, CapTypeOK
  <2>2. QED
    BY <1>5, <2>1 DEF Promised, StartBegin
<1>6. CASE RefreshBegin
  <2>1. maint.set \in Settings /\ core.cap \in Captures
    BY DEF CapTypeOK, CoreStates
  <2>2. UNCHANGED <<settings, told, pend, core, nft, rec>> /\ flaws \subseteq flaws'
    BY <1>6 DEF RefreshBegin
  <2>3. gate' = gate \/ (gate'.by = "refresh" /\ gate'.pc = "policy")
    BY <1>6, <2>1, HoldShape DEF RefreshBegin
  <2>4. QED
    BY <2>2, <2>3 DEF Promised
<1>7. CASE PolicyAsIs
  <2> DEFINE cap == IF gate.by = "refresh" THEN gate.cap ELSE Destinations(doc)
  <2>1. gate' = GateAt("resolve", gate.next, cap)
    BY <1>7, AsIsMoves
  <2>2. OptedOut /\ (Relied \/ gate.by # "refresh") => Clean(cap)
    <3>1. gate.pc = "policy" /\ (gate.by = "refresh" \/ gate.set = settings)
      BY <1>0, <1>7 DEF PolicyAsIs, Current
    <3>2. CASE gate.by = "refresh"
      BY <3>1, <3>2 DEF Current, Promised
    <3>3. CASE gate.by # "refresh"
      BY <1>7, <3>1, <3>3 DEF PolicyAsIs, Regenerating
    <3>4. QED
      BY <3>2, <3>3
  <2> HIDE DEF cap
  <2>3. QED
    BY <1>3, <1>7, <2>1, <2>2 DEF PolicyAsIs
<1>8. ASSUME NEW avail \in SUBSET Sources, PolicyGenerate(avail) PROVE Promised'
  <2>1. Relied \/ gate.by # "refresh" => gate.set.ext = settings.ext
    BY <1>0, <1>8 DEF PolicyGenerate, Current, Outdated
  <2>2. UNCHANGED <<settings, told, pend, core, nft, rec, flaws>>
    BY <1>8 DEF PolicyGenerate
  <2>3. CASE Retains(doc, gate.set, avail) /\ gate' = GateAt("resolve", gate.next, Destinations(doc))
    <3>1. OptedOut /\ (Relied \/ gate.by # "refresh") => Clean(Destinations(doc))
      BY <2>1, <2>3, GeneratedShape, DestinationsShape, GateFields DEF CapTypeOK, BlocksHonest, LocalIsClean
    <3>2. QED
      BY <1>3, <2>2, <2>3, <3>1
  <2>4. CASE gate' = GateAt("commit", Generated(doc, gate.set, avail), gate.cap)
    BY <1>3, <2>2, <2>4
  <2>5. QED
    BY <1>8, <2>3, <2>4, GenerateMoves
<1>9. CASE PolicyCommit
  <2>1. UNCHANGED <<settings, pend, core, nft, rec, flaws>>
    BY <1>9 DEF PolicyCommit
  <2>2. CASE Release(FALSE)
    BY <1>2, <2>1, <2>2
  <2>3. CASE told' = told /\ gate' = GateAt("resolve", gate.next, Destinations(gate.next))
    <3>1. /\ Relied \/ gate.by # "refresh" => gate.set.ext = settings.ext
          /\ gate.pc = "commit" /\ gate.next \in Docs
      BY <1>0, <1>9, GateFields DEF PolicyCommit, Current, CapTypeOK, Outdated
    <3>2. OptedOut /\ (Relied \/ gate.by # "refresh") => Clean(Destinations(gate.next))
      BY <3>1, DestinationsShape DEF BlocksHonest, LocalIsClean, CapTypeOK
    <3>3. QED
      BY <1>3, <2>1, <2>3, <3>2
  <2>4. QED
    BY <1>9, <2>2, <2>3, CommitMoves
<1>10. ASSUME NEW answer \in Answers, ResolveEndpoints(answer) PROVE Promised'
  <2> DEFINE cap == [cidrs |-> gate.cap.cidrs, bypass |-> Endpoint(answer)]
  <2>1. UNCHANGED <<settings, told, pend, core, nft, rec, flaws>> /\ gate.pc = "resolve"
    BY <1>10 DEF ResolveEndpoints
  <2>2. OptedOut /\ (Relied \/ gate.by # "refresh") => Clean(gate.cap) /\ Clean(cap)
    BY <2>1 DEF Promised
  <2>3. gate' = GateAt("apply", gate.next, cap) \/ gate' = GateAt("apply", gate.next, gate.cap)
    BY <1>10, ResolveMoves
  <2> HIDE DEF cap
  <2>4. QED
    BY <1>3, <2>1, <2>2, <2>3
<1>11. CASE RestartActivates
  <2>1. gate.pc = "apply" /\ gate.by # "refresh"
    BY <1>11 DEF RestartActivates
  <2>2. OptedOut => Clean(gate.cap)
    BY <2>1 DEF Promised
  <2>3. settings' = settings /\ pend' = pend /\ nft' = gate.cap /\ rec' = gate.cap /\ core'.cap = gate.cap
        /\ core'.on /\ gate' = FreeGate
    BY <1>11 DEF RestartActivates, Release
  <2>4. told' = told \/ gate.by = "settings"
    BY <1>11 DEF RestartActivates, Release
  <2>5. QED
    BY <2>2, <2>3, <2>4 DEF Promised
<1>12. CASE RefreshApply
  <2>1. gate.pc = "apply" /\ gate.by = "refresh" /\ core.on
        /\ UNCHANGED <<settings, told, pend, core, rec, flaws>>
    BY <1>12 DEF RefreshApply, Current
  <2>2. OptedOut /\ Relied => Clean(gate.cap)
    BY <2>1 DEF Promised
  <2>3. QED
    BY <1>3, <1>12, <2>1, <2>2, ApplyMoves
<1>13. CASE RefreshSave
  <2>1. gate.pc = "save" /\ UNCHANGED <<settings, pend, nft, flaws>> /\ rec' = gate.cap /\ gate' = FreeGate
    BY <1>13 DEF RefreshSave, Release
  <2>2. core'.on = core.on /\ core'.cap = gate.cap
    BY <1>13 DEF RefreshSave, CapTypeOK, CoreStates
  <2>3. gate.by = "refresh" /\ core.on
    BY <1>13 DEF RefreshSave, Current
  <2>4. told' = told
    BY <1>13, <2>3 DEF RefreshSave, Release
  <2>5. QED
    BY <2>1, <2>2, <2>3, <2>4 DEF Promised
<1>14. CASE RefreshUnsaved
  <2>1. UNCHANGED <<settings, pend, rec, core, flaws>> /\ gate' = FreeGate /\ (nft' = rec \/ nft' = nft)
    BY <1>14 DEF RefreshUnsaved, Release
  <2>2. told' => told
    BY <1>14 DEF RefreshUnsaved, Release
  <2>3. QED
    BY <2>1, <2>2 DEF Promised
<1>15. CASE RestartFails \/ RefreshApplyFails
  BY <1>15, <1>2 DEF RestartFails, RefreshApplyFails
<1>16. ASSUME NEW avail \in SUBSET Sources, PolicyFails(avail) PROVE Promised'
  BY <1>16, <1>2 DEF PolicyFails
<1>17. ASSUME NEW set \in Offered, UpdateSettings(set) PROVE Promised'
  <2>1. UNCHANGED <<core, nft, rec, gate, flaws>> /\ gate.pc = "free" /\ gate.by = "none"
    BY <1>17 DEF UpdateSettings, Current
  <2>2. CASE set.auto # settings.auto \/ set.ext # settings.ext
    BY <1>17, <2>1, <2>2 DEF UpdateSettings, Promised
  <2>3. CASE set.auto = settings.auto /\ set.ext = settings.ext
    BY <1>17, <2>1, <2>3 DEF UpdateSettings, Promised
  <2>4. QED
    BY <2>2, <2>3
<1>18. ASSUME NEW r \in Ranges, SelectRange(r) PROVE Promised'
  BY <1>18, <1>1 DEF SelectRange
<1>19. ASSUME NEW by \in {"settings", "pool"}, RestartSkipped(by) PROVE Promised'
  <2>1. UNCHANGED <<settings, core, nft, rec, gate, flaws>> /\ gate.pc = "free" /\ gate.by = "none" /\ ~core.on
    BY <1>19 DEF RestartSkipped, Current
  <2>2. pend' = pend \ {by} /\ (by = "settings" \/ told' = told)
    BY <1>19 DEF RestartSkipped
  <2>3. QED
    BY <2>1, <2>2 DEF Promised
<1>20. ASSUME NEW text \in Manuals, SaveManual(text) PROVE Promised'
  BY <1>20, <1>1 DEF SaveManual
<1>21. ASSUME NEW avail \in SUBSET Sources, RegenerateRead(avail) PROVE Promised'
  BY <1>21, <1>1 DEF RegenerateRead
<1>22. CASE RegenerateCommit
  BY <1>22, <1>1 DEF RegenerateCommit
<1>23. CASE MaintLoad \/ MaintNotified \/ MaintTimer
  BY <1>23, <1>1 DEF MaintLoad, MaintNotified, MaintTimer
<1>24. QED
  BY <1>4, <1>5, <1>6, <1>7, <1>8, <1>9, <1>10, <1>11, <1>12, <1>13, <1>14, <1>15, <1>16, <1>17, <1>18, <1>19,
     <1>20, <1>21, <1>22, <1>23 DEF CapNext

LEMMA SyntheticStep ==
    ASSUME CapTypeOK, Current, NothingSynthetic, CapNext
    PROVE  NothingSynthetic'
<1> USE FreeFields, BlankTypes DEF Honest
<1>0. gate.by = "none" \/ gate.by \in {"settings", "pool", "start", "refresh"}
  BY GateFields DEF CapTypeOK
<1>1. ASSUME UNCHANGED <<cache, nft, rec, core>>, flaws \intersect {"range"} \subseteq flaws',
             gate' = gate \/ Honest(gate'.cap) PROVE NothingSynthetic'
  BY <1>1 DEF NothingSynthetic
<1>2. ASSUME NEW ok \in BOOLEAN, Release(ok), UNCHANGED cache, flaws \intersect {"range"} \subseteq flaws',
             nft' \in {nft, rec, gate.cap}, rec' \in {rec, gate.cap},
             core'.cap \in {core.cap, gate.cap}
      PROVE  NothingSynthetic'
  <2>1. gate'.cap.bypass = "none"
    BY <1>2 DEF Release
  <2>2. QED
    BY <1>2, <2>1 DEF NothingSynthetic
<1>3. ASSUME NEW by \in {"settings", "pool"}, NEW guarded \in BOOLEAN, RestartBegin(by, guarded)
      PROVE  NothingSynthetic'
  <2>1. gate'.cap = NoCapture
    BY <1>3, HoldShape DEF RestartBegin, CapTypeOK
  <2>2. cache' = cache /\ nft' \in {nft, NoCapture} /\ rec' \in {rec, NoCapture}
        /\ core'.cap \in {core.cap, NoCapture} /\ flaws \subseteq flaws'
    BY <1>3 DEF RestartBegin, CapTypeOK, CoreStates
  <2>3. QED
    BY <2>1, <2>2 DEF NothingSynthetic
<1>4. CASE StartBegin
  <2>1. gate'.cap = NoCapture
    BY <1>4, HoldShape DEF StartBegin, CapTypeOK
  <2>2. QED
    BY <1>1, <1>4, <2>1 DEF StartBegin
<1>5. CASE RefreshBegin
  <2>1. maint.set \in Settings /\ core.cap \in Captures
    BY DEF CapTypeOK, CoreStates
  <2>2. (gate' = gate \/ gate'.cap = core.cap) /\ flaws \subseteq flaws'
    BY <1>5, <2>1, HoldShape DEF RefreshBegin
  <2>3. QED
    BY <1>1, <1>5, <2>2 DEF RefreshBegin, NothingSynthetic
<1>6. ASSUME UNCHANGED <<cache, nft, rec, core, flaws>>, NEW pc, NEW d, NEW cap, gate' = GateAt(pc, d, cap),
             cap.bypass = gate.cap.bypass
      PROVE  NothingSynthetic'
  <2>1. gate'.cap = cap
    BY <1>6 DEF GateAt
  <2>2. QED
    BY <1>6, <2>1 DEF NothingSynthetic
<1>7. CASE PolicyAsIs
  BY <1>6, <1>7, AsIsMoves, DestinationsShape DEF PolicyAsIs, CapTypeOK
<1>8. ASSUME NEW avail \in SUBSET Sources, PolicyGenerate(avail) PROVE NothingSynthetic'
  <2>1. UNCHANGED <<cache, nft, rec, core, flaws>>
    BY <1>8 DEF PolicyGenerate
  <2>2. \/ gate' = GateAt("resolve", gate.next, Destinations(doc))
        \/ gate' = GateAt("commit", Generated(doc, gate.set, avail), gate.cap)
    BY <1>8, GenerateMoves
  <2>3. Destinations(doc).bypass = gate.cap.bypass
    BY DestinationsShape DEF CapTypeOK
  <2>4. QED
    BY <1>6, <2>1, <2>2, <2>3
<1>9. CASE PolicyCommit
  <2>1. UNCHANGED <<cache, nft, rec, core, flaws>>
    BY <1>9 DEF PolicyCommit
  <2>2. Destinations(gate.next).bypass = gate.cap.bypass
    BY DestinationsShape, GateFields DEF CapTypeOK
  <2>3. Release(FALSE) \/ gate' = GateAt("resolve", gate.next, Destinations(gate.next))
    BY <1>9, CommitMoves
  <2>4. QED
    BY <1>2, <1>6, <2>1, <2>2, <2>3
<1>10. ASSUME NEW answer \in Answers, ResolveEndpoints(answer) PROVE NothingSynthetic'
  <2> DEFINE cap == [cidrs |-> gate.cap.cidrs, bypass |-> Endpoint(answer)]
  <2>1. gate.pc = "resolve" /\ UNCHANGED <<nft, rec, core, flaws>>
    BY <1>10 DEF ResolveEndpoints
  <2>2. gate.by \in {"settings", "pool", "start"} \/ gate.by = "refresh"
    BY <1>0, <2>1 DEF Current
  <2>3. "range" \notin flaws => answer \in {"none", "real", "default", FilterRange}
    BY <2>2 DEF Answers, FilterRange, Current
  <2>4. "range" \notin flaws => Endpoint(answer) \in {"none", "real"}
    BY <2>3, EndpointReal DEF NothingSynthetic
  <2>5. CASE cache' = Endpoint(answer) /\ gate' = GateAt("apply", gate.next, cap)
    <3>1. gate'.cap = cap /\ cap.bypass = Endpoint(answer)
      BY <2>5 DEF GateAt
    <3> HIDE DEF cap
    <3>2. QED
      BY <2>1, <2>4, <2>5, <3>1 DEF NothingSynthetic
  <2>6. CASE cache' = cache /\ gate' = GateAt("apply", gate.next, gate.cap)
    BY <1>6, <2>1, <2>6
  <2>7. QED
    BY <1>10, <2>5, <2>6, ResolveMoves
<1>11. CASE RefreshApply
  <2>1. nft' = gate.cap /\ gate'.cap = gate.cap
    BY <1>11, ApplyMoves DEF GateAt
  <2>2. QED
    BY <1>11, <2>1 DEF RefreshApply, NothingSynthetic
<1>12. CASE RestartActivates
  BY <1>2, <1>12 DEF RestartActivates
<1>13. CASE RefreshSave
  <2>1. core'.cap = gate.cap
    BY <1>13 DEF RefreshSave, CapTypeOK, CoreStates
  <2>2. QED
    BY <1>2, <1>13, <2>1 DEF RefreshSave
<1>14. CASE RestartFails \/ RefreshApplyFails \/ RefreshUnsaved
  BY <1>2, <1>14 DEF RestartFails, RefreshApplyFails, RefreshUnsaved
<1>15. ASSUME NEW avail \in SUBSET Sources, PolicyFails(avail) PROVE NothingSynthetic'
  BY <1>2, <1>15 DEF PolicyFails
<1>16. ASSUME NEW avail \in SUBSET Sources, RegenerateRead(avail) PROVE NothingSynthetic'
  BY <1>1, <1>16 DEF RegenerateRead
<1>17. ASSUME NEW set \in Offered, UpdateSettings(set) PROVE NothingSynthetic'
  BY <1>1, <1>17 DEF UpdateSettings
<1>18. ASSUME NEW r \in Ranges, SelectRange(r) PROVE NothingSynthetic'
  BY <1>1, <1>18 DEF SelectRange
<1>19. ASSUME NEW by \in {"settings", "pool"}, RestartSkipped(by) PROVE NothingSynthetic'
  BY <1>1, <1>19 DEF RestartSkipped
<1>20. ASSUME NEW text \in Manuals, SaveManual(text) PROVE NothingSynthetic'
  BY <1>1, <1>20 DEF SaveManual
<1>21. CASE RegenerateCommit \/ MaintLoad \/ MaintNotified \/ MaintTimer
  BY <1>1, <1>21 DEF RegenerateCommit, MaintLoad, MaintNotified, MaintTimer
<1>22. QED
  BY <1>3, <1>4, <1>5, <1>7, <1>8, <1>9, <1>10, <1>11, <1>12, <1>13, <1>14, <1>15, <1>16, <1>17, <1>18, <1>19,
     <1>20, <1>21 DEF CapNext

LEMMA CaptureInit == CapInit => CaptureInv
<1> SUFFICES ASSUME CapInit PROVE CaptureInv
  OBVIOUS
<1>1. CapTypeOK
  BY TextInit DEF TextInv
<1>2. EmptyDoc.scope = "" /\ LegacyDoc.scope = ""
  <2>1. EmptyDoc.scope = ""
    BY DEF EmptyDoc
  <2>2. LegacyDoc.scope = EmptyDoc.scope
    BY DEF LegacyDoc, EmptyDoc
  <2>3. QED
    BY <2>1, <2>2
<1>3. doc \in {EmptyDoc, LegacyDoc} /\ gate = FreeGate /\ api = NoApi /\ pend = {} /\ nft = NoCapture
      /\ rec = NoCapture /\ cache = "none" /\ core.cap = NoCapture
  BY DEF CapInit
<1>4. Current /\ Promised /\ NothingSynthetic
  BY <1>3, FreeFields DEF Current, Promised, NothingSynthetic, Honest, Clean
<1>5. BlocksHonest
  BY <1>2, <1>3, FreeFields DEF BlocksHonest, LocalIsClean
<1>6. QED
  BY <1>1, <1>4, <1>5 DEF CaptureInv

LEMMA CaptureStep == ASSUME CaptureInv, [CapNext]_capVars PROVE CaptureInv'
<1>1. CASE CapNext
  BY <1>1, CapTypeStep, CurrentStep, BlocksStep, PromisedStep, SyntheticStep DEF CaptureInv
<1>2. CASE UNCHANGED capVars
  BY <1>2, CapTypeStep DEF CaptureInv, Current, BlocksHonest, LocalIsClean, Promised, OptedOut, Relied,
     Outdated, Clean, NothingSynthetic, Honest, capVars
<1>3. QED
  BY <1>1, <1>2

\* What every operation reads under the gate, and the two flaws recorded when it does
\* not hold, for every set of texts, ranges and settings.
THEOREM CaptureInvariant == CapSpec => []CaptureInv
<1>1. CaptureInv /\ [CapNext]_capVars => CaptureInv'
  BY CaptureStep
<1>2. QED
  BY CaptureInit, <1>1, PTL DEF CapSpec

\* Once a settings call that excludes external providers reported success, no
\* destination of a remote provider is captured, until a refresh begins with
\* settings loaded before that call.
THEOREM OptOutKept == CapSpec => []OptOutHolds
<1>1. CaptureInv => OptOutHolds
  BY DEF CaptureInv, Promised, OptOutHolds, OptedOut, Relied, Clean
<1>2. QED
  BY CaptureInvariant, <1>1, PTL

\* No synthetic address is ever let past the core, unless a generation was prepared
\* for another range than the live core's.
THEOREM BypassIsRealHolds == CapSpec => []BypassIsReal
<1>1. CaptureInv => BypassIsReal
  BY DEF CaptureInv, NothingSynthetic, Honest, BypassIsReal, SyntheticExcluded
<1>2. QED
  BY CaptureInvariant, <1>1, PTL
=============================================================================
