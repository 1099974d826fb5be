---------------------------- MODULE StateProofs -----------------------------
(***************************************************************************)
(* Theorems about what the manager keeps and gives back: Sessions for every *)
(* set of passwords, every session lifetime and every bound, and           *)
(* BackupRestore for every set of paths and every bound.                   *)
(***************************************************************************)
EXTENDS Sessions, BackupRestore, TLAPS

(***************************************************************************)
(* Sessions: a revoked session stays revoked, a session that nothing       *)
(* revoked is kept until it expires, and nothing that a provisional        *)
(* password gave access to remains after a rollback.                       *)
(***************************************************************************)

-----------------------------------------------------------------------------
(* The requests, the locks and the process.                                *)

GateOrder ==
    /\ gate.by = "none" <=> gate.pc = "free"
    /\ gate.by # "none" => up
    /\ gate.by = "login" => gate.pc \in {"stamp", "sign"}
    /\ gate.by = "setup" => gate.pc \in {"remove", "passkeys", "write", "revoke"} /\ gate.pw \in Passwords
    /\ gate.by = "import" => gate.pc \in {"ready", "revoke"} /\ password \in Passwords
    /\ staging.on <=> gate.by = "import" /\ gate.pc = "ready"
    /\ ~staging.on => staging = NoStaging

\* The set in memory is that of a running manager, the next one that of the lock's holder.
KeyOrder ==
    /\ IF up THEN mem.cur # 0 ELSE mem = NoSet /\ mu = "free"
    /\ IF mu = "free" THEN next = NoSet ELSE next.cur # 0
    /\ mu = "revoke" => gate.pc = "revoke"
    /\ cred = "cli" => file.cur = 0

\* Keys are numbered as they are generated, and every revocation generates one.
Below(set) == set.cur <= keys /\ \A past \in set.prev : past.key <= keys
Numbered ==
    /\ Below(file) /\ Below(mem) /\ Below(next) /\ Below(staging.file)
    /\ era < keys /\ (mu = "revoke" => era + 1 < keys)
    /\ \A token \in tokens : token.key <= keys /\ token.era <= era

SesBase == SesTypeOK /\ GateOrder /\ KeyOrder /\ Numbered

-----------------------------------------------------------------------------
(* Which sets know the key of a session.                                   *)

Knows(set, token) == token.key = set.cur \/ \E past \in set.prev : past.key = token.key

\* No set that is or may again be in force knows the key of a revoked session; while
\* a revocation is published, none of those knows any session's.
StaleForgotten ==
    /\ \A token \in tokens : token.era < era =>
          ~Knows(mem, token) /\ ~Knows(file, token) /\ ~Knows(next, token) /\ ~Knows(staging.file, token)
    /\ mu = "revoke" => \A token \in tokens : ~Knows(file, token) /\ ~Knows(next, token)

\* A set lets a session verify until it expires.
Covers(set, token) ==
    token.key = set.cur \/ \E past \in set.prev : past.key = token.key /\ token.exp <= past.retire

Counts(token) == token.era = era /\ clock < token.exp /\ token.key \notin lost
LiveCovered ==
    \A token \in tokens : Counts(token) =>
        /\ up => Covers(mem, token)
        /\ mu = "rotate" => Covers(next, token)
        /\ mu # "revoke" /\ file.cur # 0 => Covers(file, token)
        /\ staging.file.cur # 0 => Covers(staging.file, token)

\* A session expires within one lifetime, and the key that signs is the persisted one.
Timely ==
    /\ gate.exp <= clock + TTL /\ \A token \in tokens : token.exp <= clock + TTL
    /\ up /\ mu = "free" /\ file.cur # 0 => file.cur = mem.cur \/ mem.cur \in lost
    /\ mu # "free" /\ file.cur # 0 => file.cur = next.cur \/ next.cur \in lost

\* Every password that gave access was set for good.
Final ==
    /\ staging.on \/ password \in chosen \union {NoPassword}
    /\ staging.on => staging.pw \in chosen
    /\ gate.by = "login" => gate.pw \in chosen
    /\ passkeys \subseteq chosen \union {NoPassword}
    /\ \A token \in tokens :
          \/ token.pw \in chosen \/ token.era < era
          \/ ~up /\ token.pw = NoPassword /\ (file.cur = 0 \/ password = NoPassword)

SesInv == SesBase /\ StaleForgotten /\ Timely /\ LiveCovered /\ Final

-----------------------------------------------------------------------------
(* Types, and what the operators build.                                    *)

LEMMA Blank ==
    /\ NoSet \in KeySets /\ NoSet.cur = 0 /\ NoSet.prev = {}
    /\ NoStaging \in Stagings /\ ~NoStaging.on /\ NoStaging.file = NoSet
    /\ GateFree \in GateStates /\ GateFree.by = "none" /\ GateFree.pc = "free" /\ GateFree.exp = 0
<1>1. 0 \in 0 .. MaxTime /\ 0 \in 0 .. MaxKeys /\ 0 \in 0 .. MaxTime + TTL
  BY SesTimeAssumption, SesBoundAssumption
<1>2. NoSet \in KeySets /\ NoSet.cur = 0 /\ NoSet.prev = {}
  BY <1>1 DEF NoSet, KeySets
<1>3. NoStaging \in Stagings /\ ~NoStaging.on /\ NoStaging.file = NoSet
  BY <1>2 DEF NoStaging, Stagings, Secrets
<1>4. GateFree \in GateStates /\ GateFree.by = "none" /\ GateFree.pc = "free" /\ GateFree.exp = 0
  BY <1>1 DEF GateFree, GateStates, Secrets
<1>5. QED
  BY <1>2, <1>3, <1>4

LEMMA Typed ==
    ASSUME SesTypeOK
    PROVE  /\ clock \in 0 .. MaxTime /\ keys \in 0 .. MaxKeys /\ era \in 0 .. MaxKeys
           /\ file \in KeySets /\ mem \in KeySets /\ next \in KeySets /\ staging \in Stagings
           /\ gate \in GateStates /\ password \in Secrets
           /\ clock \in Nat /\ keys \in Nat /\ era \in Nat
BY SesTimeAssumption, SesBoundAssumption DEF SesTypeOK

LEMMA SetFields ==
    ASSUME NEW set \in KeySets
    PROVE  set.cur \in 0 .. MaxKeys /\ set.cur \in Nat /\ set.at \in 0 .. MaxTime /\ set.at \in Nat
           /\ \A past \in set.prev : past.key \in 1 .. MaxKeys /\ past.key \in Nat
                                    /\ past.retire \in 0 .. MaxTime + TTL /\ past.retire \in Nat
           /\ set.prev \in SUBSET [key : 1 .. MaxKeys, retire : 0 .. MaxTime + TTL]
BY SesTimeAssumption, SesBoundAssumption DEF KeySets

LEMMA TokenFields ==
    ASSUME NEW token \in Tokens
    PROVE  token.key \in 1 .. MaxKeys /\ token.key \in Nat \ {0} /\ token.exp \in Nat
           /\ token.era \in Nat
BY SesTimeAssumption, SesBoundAssumption DEF Tokens

LEMMA GateFields ==
    ASSUME SesTypeOK
    PROVE  gate.pw \in Secrets /\ gate.exp \in 0 .. MaxTime + TTL /\ gate.exp \in Nat
           /\ gate.by \in {"none", "login", "setup", "import"}
<1>1. gate \in GateStates
  BY Typed
<1>2. QED
  BY <1>1, SesTimeAssumption DEF GateStates

LEMMA StagingFields ==
    ASSUME SesTypeOK
    PROVE  staging.pw \in Secrets /\ staging.file \in KeySets /\ staging.on \in BOOLEAN
<1>1. staging \in Stagings
  BY Typed
<1>2. QED
  BY <1>1 DEF Stagings

\* A request one step further, with a new expiry or the one it has.
LEMMA GateMoved ==
    ASSUME SesTypeOK, NEW pc \in {"free", "stamp", "sign", "remove", "passkeys", "write", "revoke", "ready"},
           gate' = [gate EXCEPT !.pc = pc]
    PROVE  gate' \in GateStates /\ gate'.by = gate.by /\ gate'.pc = pc /\ gate'.pw = gate.pw /\ gate'.exp = gate.exp
<1>1. gate \in GateStates
  BY Typed
<1>2. QED
  BY <1>1 DEF GateStates

LEMMA FreshShape ==
    ASSUME SesTypeOK, keys < MaxKeys
    PROVE  Fresh \in KeySets /\ Fresh.cur = keys + 1 /\ Fresh.prev = {}
<1>1. keys + 1 \in 0 .. MaxKeys /\ clock \in 0 .. MaxTime
  BY Typed, SesBoundAssumption
<1>2. QED
  BY <1>1 DEF Fresh, KeySets

LEMMA RotatedShape ==
    ASSUME SesTypeOK, keys < MaxKeys, mem.cur # 0
    PROVE  /\ Rotated \in KeySets /\ Rotated.cur = keys + 1
           /\ [key |-> mem.cur, retire |-> clock + TTL] \in Rotated.prev
           /\ \A past \in mem.prev : past.retire > clock => past \in Rotated.prev
           /\ \A past \in Rotated.prev : past.key = mem.cur \/ past \in mem.prev
<1> DEFINE prev == {[key |-> mem.cur, retire |-> clock + TTL]} \union {past \in mem.prev : past.retire > clock}
<1>1. keys + 1 \in 0 .. MaxKeys /\ clock \in 0 .. MaxTime
  BY Typed, SesBoundAssumption
<1>2. mem.cur \in 1 .. MaxKeys /\ clock + TTL \in 0 .. MaxTime + TTL
  BY <1>1, Typed, SetFields, SesTimeAssumption, SesBoundAssumption
<1>3. prev \in SUBSET [key : 1 .. MaxKeys, retire : 0 .. MaxTime + TTL]
  BY <1>2, Typed, SetFields
<1>4. /\ [key |-> mem.cur, retire |-> clock + TTL] \in prev
      /\ \A past \in mem.prev : past.retire > clock => past \in prev
      /\ \A past \in prev : past.key = mem.cur \/ past \in mem.prev
  OBVIOUS
<1>5. Rotated = [cur |-> keys + 1, at |-> clock, prev |-> prev]
  BY DEF Rotated
<1> HIDE DEF prev
<1>6. Rotated \in KeySets /\ Rotated.cur = keys + 1 /\ Rotated.prev = prev
  BY <1>1, <1>3, <1>5 DEF KeySets
<1>7. QED
  BY <1>4, <1>6

-----------------------------------------------------------------------------
(* The requests, the locks and the process.                                *)

LEMMA TypeStep ==
    ASSUME SesBase, SesNext
    PROVE  SesTypeOK'
<1> USE Blank, Typed, SesBoundAssumption, SesTimeAssumption DEF SesBase, diskVars, pkVars, bounds
<1>1. CASE Tick
  <2>1. clock' \in 0 .. MaxTime
    BY <1>1 DEF Tick
  <2>2. QED
    BY <1>1, <2>1 DEF Tick, SesTypeOK
<1>2. ASSUME NEW set \in KeySets, NEW by \in {"rotate", "revoke"}, Persist(set, by), UNCHANGED gate
      PROVE  SesTypeOK'
  BY <1>2 DEF Persist, NewKey, SesTypeOK
<1>3. CASE Rotate
  BY <1>2, <1>3, RotatedShape DEF Rotate, Persist, NewKey, KeyOrder
<1>4. CASE Revoke
  BY <1>2, <1>4, FreshShape DEF Revoke, Revoked, Persist, NewKey
<1>5. CASE Publish
  <2>1. era' \in 0 .. MaxKeys
    BY <1>5 DEF Publish, Numbered
  <2>2. gate' \in GateStates
    BY <1>5 DEF Publish
  <2>3. QED
    BY <1>5, <2>1, <2>2 DEF Publish, SesTypeOK
<1>6. CASE Login \/ PasskeyLogin
  <2>1. Authenticated
    BY <1>6 DEF Login, PasskeyLogin
  <2>2. gate' \in GateStates
    BY <2>1 DEF Authenticated, GateStates
  <2>3. QED
    BY <2>1, <2>2 DEF Authenticated, GateStep, SesTypeOK
<1>7. CASE RegisterBegin \/ RegisterFinish \/ PasskeyDelete
  <2>1. passkeys' \subseteq Secrets /\ ceremony' \in Secrets
    BY <1>7 DEF RegisterBegin, RegisterFinish, PasskeyDelete, Secrets, SesTypeOK
  <2>2. QED
    BY <1>7, <2>1 DEF RegisterBegin, RegisterFinish, PasskeyDelete, PasskeyRequest, SesTypeOK, Secrets
<1>8. CASE Stamp
  <2>1. clock + TTL \in 0 .. MaxTime + TTL
    OBVIOUS
  <2>2. gate' \in GateStates
    BY <1>8, <2>1 DEF Stamp, GateStates
  <2>3. QED
    BY <1>8, <2>2 DEF Stamp, GateStep, SesTypeOK
<1>9. CASE Sign
  <2>1. gate.by # "none"
    BY <1>9 DEF Sign, GateOrder
  <2>2. mem.cur \in 1 .. MaxKeys
    BY <2>1, SetFields DEF GateOrder, KeyOrder
  <2>3. [key |-> mem.cur, exp |-> gate.exp, pw |-> gate.pw, era |-> era] \in Tokens
    BY <2>2, GateFields DEF Tokens, Secrets
  <2>4. tokens' \subseteq Tokens /\ gate' \in GateStates
    BY <1>9, <2>3 DEF Sign, SesTypeOK
  <2>5. QED
    BY <1>9, <2>4 DEF Sign, GateStep, SesTypeOK
<1>10. CASE LoginFails \/ RevokeFails
  <2>1. gate' \in GateStates
    BY <1>10 DEF LoginFails, RevokeFails
  <2>2. QED
    BY <1>10, <2>1 DEF LoginFails, RevokeFails, GateStep, SesTypeOK
<1>11. ASSUME NEW p \in Passwords, Setup(p) PROVE SesTypeOK'
  <2>1. gate' \in GateStates
    BY <1>11 DEF Setup, GateStates, Secrets
  <2>2. QED
    BY <1>11, <2>1 DEF Setup, Change, GateStep, SesTypeOK
<1>12. CASE SetupRemoves \/ SetupRemovesPasskeys
  <2>1. gate' \in GateStates
    BY <1>12, GateMoved DEF SetupRemoves, SetupRemovesPasskeys
  <2>2. QED
    BY <1>12, <2>1 DEF SetupRemoves, SetupRemovesPasskeys, GateStep, SesTypeOK
<1>13. CASE SetupWrites
  <2>1. gate' \in GateStates /\ gate.pw \in Passwords /\ gate.pw \in Secrets
    BY <1>13, GateMoved, GateFields DEF SetupWrites, GateOrder
  <2>2. QED
    BY <1>13, <2>1 DEF SetupWrites, GateStep, SesTypeOK
<1>14. ASSUME NEW p \in Passwords, Import(p) PROVE SesTypeOK'
  <2>1. gate' \in GateStates /\ staging' \in Stagings
    BY <1>14 DEF Import, GateStates, Stagings, Secrets
  <2>2. QED
    BY <1>14, <2>1 DEF Import, Change, SesTypeOK, Secrets
<1>15. CASE ImportCommits
  <2>1. gate' \in GateStates /\ password \in Passwords
    BY <1>15, GateMoved DEF ImportCommits, GateOrder
  <2>2. QED
    BY <1>15, <2>1 DEF ImportCommits, SesTypeOK
<1>16. CASE ImportRollsBack
  <2>1. password' \in Secrets /\ file' \in KeySets /\ staging' \in Stagings /\ gate' \in GateStates
    BY <1>16, StagingFields DEF ImportRollsBack
  <2>2. lost' \subseteq 1 .. MaxKeys
    <3>1. mem.cur \in 0 .. MaxKeys /\ next.cur \in 0 .. MaxKeys
      BY SetFields
    <3>2. {mem.cur, next.cur} \ {0, staging.file.cur} \subseteq 1 .. MaxKeys
      BY <3>1
    <3>3. QED
      BY <1>16, <3>2 DEF ImportRollsBack, SesTypeOK
  <2>3. QED
    BY <1>16, <2>1, <2>2 DEF ImportRollsBack, SesTypeOK
<1>17. CASE CliRemoves
  BY <1>17 DEF CliRemoves, Change, SesTypeOK
<1>18. ASSUME NEW p \in Passwords, CliWrites(p) PROVE SesTypeOK'
  BY <1>18 DEF CliWrites, SesTypeOK, Secrets
<1>19. CASE Boot
  <2>1. mem' \in KeySets /\ file' \in KeySets /\ keys' \in 0 .. MaxKeys /\ era' \in 0 .. MaxKeys
    BY <1>19, FreshShape DEF Boot, NewKey, Numbered
  <2>2. QED
    BY <1>19, <2>1 DEF Boot, SesTypeOK
<1>20. CASE Crash
  <2>1. era' \in 0 .. MaxKeys /\ gate' \in GateStates
    BY <1>20 DEF Crash, Numbered
  <2>2. cred' \in {"free", "setup", "cli"} /\ changes' \in 0 .. MaxChanges /\ ceremony' \in Secrets
    BY <1>20 DEF Crash, Change, SesTypeOK, Secrets
  <2>3. mem' \in KeySets /\ next' \in KeySets /\ up' \in BOOLEAN /\ mu' = "free"
    BY <1>20 DEF Crash
  <2>4. UNCHANGED <<diskVars, passkeys, tokens, lost, chosen, clock, keys>>
    BY <1>20 DEF Crash
  <2>5. QED
    BY <2>1, <2>2, <2>3, <2>4 DEF SesTypeOK
<1>21. CASE SetupFails
  <2>1. gate.pc = "write" => gate.pw \in Passwords
    BY GateFields DEF GateOrder
  <2>2. password' \in Secrets /\ chosen' \subseteq Passwords
    BY <1>21, <2>1 DEF SetupFails, Secrets, SesTypeOK
  <2>3. gate' \in GateStates
    BY <1>21 DEF SetupFails
  <2>4. QED
    BY <1>21, <2>2, <2>3 DEF SetupFails, GateStep, SesTypeOK
<1>22. CASE CliFails
  BY <1>22 DEF CliFails, SesTypeOK
<1>23. QED
  BY <1>1, <1>3, <1>4, <1>5, <1>6, <1>7, <1>8, <1>9, <1>10, <1>11, <1>12, <1>13, <1>14, <1>15, <1>16, <1>17,
     <1>18, <1>19, <1>20,
     <1>21, <1>22 DEF SesNext

LEMMA GateOrderStep ==
    ASSUME SesBase, SesNext
    PROVE  GateOrder'
<1> USE Blank DEF SesBase
<1>1. ASSUME UNCHANGED <<gate, up, staging, password>> PROVE GateOrder'
  BY <1>1 DEF GateOrder
<1>2. ASSUME gate' = GateFree, UNCHANGED <<up, staging, password>>,
             gate.pc # "ready"
      PROVE  GateOrder'
  BY <1>2 DEF GateOrder
<1>3. CASE Tick \/ CliRemoves
  BY <1>1, <1>3 DEF Tick, CliRemoves, diskVars
<1>4. ASSUME NEW set, NEW by, Persist(set, by), UNCHANGED gate PROVE GateOrder'
  BY <1>1, <1>4 DEF Persist
<1>5. CASE Rotate \/ Revoke
  BY <1>4, <1>5 DEF Rotate, Revoke
<1>6. CASE Publish
  <2>1. CASE mu = "revoke"
    BY <1>2, <1>6, <2>1 DEF Publish, diskVars, KeyOrder
  <2>2. CASE mu # "revoke"
    BY <1>1, <1>6, <2>2 DEF Publish, diskVars
  <2>3. QED
    BY <2>1, <2>2
<1>7. CASE Login \/ PasskeyLogin
  <2>1. gate.by = "none" /\ up /\ UNCHANGED <<up, staging>>
    BY <1>7 DEF Login, PasskeyLogin, Authenticated, GateTaken, GateStep
  <2>2. gate'.by = "login" /\ gate'.pc = "stamp"
    BY <1>7 DEF Login, PasskeyLogin, Authenticated
  <2>3. QED
    BY <2>1, <2>2 DEF GateOrder
<1>8. CASE RegisterBegin \/ RegisterFinish \/ PasskeyDelete
  BY <1>1, <1>8 DEF RegisterBegin, RegisterFinish, PasskeyDelete, PasskeyRequest, diskVars
<1>9. CASE Stamp
  <2>1. gate' \in GateStates /\ gate'.by = gate.by /\ gate'.pc = "sign" /\ gate'.pw = gate.pw
    <3>1. gate \in GateStates /\ clock + TTL \in 0 .. MaxTime + TTL
      BY Typed, SesTimeAssumption
    <3>2. QED
      BY <1>9, <3>1 DEF Stamp, GateStates
  <2>2. gate.by = "login"
    BY <1>9, GateFields DEF Stamp, GateOrder
  <2>3. QED
    BY <1>9, <2>1, <2>2 DEF Stamp, GateStep, GateOrder
<1>10. CASE Sign \/ LoginFails \/ RevokeFails
  <2>1. gate.pc # "ready"
    BY <1>10 DEF Sign, LoginFails, RevokeFails, GateOrder
  <2>2. QED
    BY <1>2, <1>10, <2>1 DEF Sign, LoginFails, RevokeFails, GateStep
<1>11. ASSUME NEW p \in Passwords, Setup(p) PROVE GateOrder'
  <2>1. gate.by = "none" /\ up /\ UNCHANGED <<up, staging>>
    BY <1>11 DEF Setup, GateTaken, GateStep
  <2>2. gate'.by = "setup" /\ gate'.pc = "remove" /\ gate'.pw = p
    BY <1>11 DEF Setup
  <2>3. QED
    BY <2>1, <2>2 DEF GateOrder
<1>12. CASE SetupRemoves \/ SetupRemovesPasskeys \/ SetupWrites
  <2>1. gate.by = "setup"
    BY <1>12, GateFields DEF SetupRemoves, SetupRemovesPasskeys, SetupWrites, GateOrder
  <2>2. gate'.by = "setup" /\ gate'.pw = gate.pw /\ gate'.pc \in {"passkeys", "write", "revoke"}
    BY <1>12, <2>1, GateMoved DEF SetupRemoves, SetupRemovesPasskeys, SetupWrites
  <2>3. UNCHANGED <<up, staging>>
    BY <1>12 DEF SetupRemoves, SetupRemovesPasskeys, SetupWrites, GateStep
  <2>4. QED
    BY <2>1, <2>2, <2>3 DEF GateOrder
<1>13. ASSUME NEW p \in Passwords, Import(p) PROVE GateOrder'
  <2>1. up /\ up' = up /\ staging'.on /\ password' = p /\ gate'.by = "import" /\ gate'.pc = "ready"
    BY <1>13 DEF Import, GateTaken
  <2>2. QED
    BY <2>1 DEF GateOrder
<1>14. CASE ImportCommits
  <2>1. gate'.by = "import" /\ gate'.pc = "revoke" /\ staging' = NoStaging /\ UNCHANGED <<up, password>>
    BY <1>14, GateMoved DEF ImportCommits
  <2>2. QED
    BY <1>14, <2>1 DEF ImportCommits, GateOrder
<1>15. CASE ImportRollsBack
  BY <1>15 DEF ImportRollsBack, GateOrder
<1>16. ASSUME NEW p \in Passwords, CliWrites(p) PROVE GateOrder'
  BY <1>16 DEF CliWrites, GateOrder
<1>17. CASE Boot
  BY <1>17 DEF Boot, GateOrder
<1>18. CASE Crash
  BY <1>18 DEF Crash, GateOrder, diskVars
<1>19. CASE SetupFails
  BY <1>19 DEF SetupFails, GateStep, GateOrder
<1>20. CASE CliFails
  BY <1>1, <1>20 DEF CliFails, diskVars
<1>21. QED
  BY <1>3, <1>5, <1>6, <1>7, <1>8, <1>9, <1>10, <1>11, <1>12, <1>13, <1>14, <1>15, <1>16, <1>17, <1>18,
     <1>19, <1>20 DEF SesNext

LEMMA KeyOrderStep ==
    ASSUME SesBase, SesNext
    PROVE  KeyOrder'
<1> USE Blank, Typed DEF SesBase
<1>1. ASSUME UNCHANGED <<mem, next, mu, up>>, gate' = gate \/ mu # "revoke",
             cred' = "cli" => file'.cur = 0
      PROVE  KeyOrder'
  BY <1>1 DEF KeyOrder
<1>2. ASSUME UNCHANGED <<file, mem, next, mu, up, cred>>, gate' = gate \/ mu # "revoke" PROVE KeyOrder'
  BY <1>1, <1>2 DEF KeyOrder
<1>3. CASE Tick
  BY <1>2, <1>3 DEF Tick, diskVars
<1>4. ASSUME NEW set, NEW by \in {"rotate", "revoke"}, Persist(set, by), UNCHANGED gate, set.cur # 0,
             by = "revoke" => gate.pc = "revoke", up
      PROVE  KeyOrder'
  BY <1>4 DEF Persist, KeyOrder
<1>5. CASE Rotate
  <2>1. Rotated.cur # 0
    BY <1>5, RotatedShape DEF Rotate, Persist, NewKey, KeyOrder
  <2>2. QED
    BY <1>4, <1>5, <2>1 DEF Rotate
<1>6. CASE Revoke
  <2>1. Revoked.cur # 0
    BY <1>6, FreshShape DEF Revoke, Revoked, Persist, NewKey
  <2>2. up
    BY <1>6 DEF Revoke, GateOrder
  <2>3. QED
    BY <1>4, <1>6, <2>1, <2>2 DEF Revoke
<1>7. CASE Publish
  BY <1>7 DEF Publish, KeyOrder, diskVars
<1>8. CASE Login \/ PasskeyLogin
  BY <1>2, <1>8 DEF Login, PasskeyLogin, Authenticated, GateTaken, GateStep, KeyOrder, GateOrder
<1>9. CASE RegisterBegin \/ RegisterFinish \/ PasskeyDelete
  BY <1>2, <1>9 DEF RegisterBegin, RegisterFinish, PasskeyDelete, PasskeyRequest, diskVars
<1>10. CASE Stamp \/ Sign \/ LoginFails \/ RevokeFails
  <2>1. mu # "revoke"
    BY <1>10 DEF Stamp, Sign, LoginFails, RevokeFails, KeyOrder, GateOrder
  <2>2. QED
    BY <1>2, <1>10, <2>1 DEF Stamp, Sign, LoginFails, RevokeFails, GateStep
<1>11. ASSUME NEW p \in Passwords, Setup(p) PROVE KeyOrder'
  BY <1>1, <1>11 DEF Setup, GateStep, GateTaken, GateOrder, KeyOrder
<1>12. CASE SetupRemoves \/ SetupRemovesPasskeys \/ SetupWrites
  <2>1. mu # "revoke"
    BY <1>12 DEF SetupRemoves, SetupRemovesPasskeys, SetupWrites, KeyOrder
  <2>2. cred' = "cli" => file'.cur = 0
    BY <1>12 DEF SetupRemoves, SetupRemovesPasskeys, SetupWrites, KeyOrder
  <2>3. QED
    BY <1>1, <1>12, <2>1, <2>2 DEF SetupRemoves, SetupRemovesPasskeys, SetupWrites, GateStep
<1>13. ASSUME NEW p \in Passwords, Import(p) PROVE KeyOrder'
  BY <1>1, <1>13 DEF Import, GateTaken, GateOrder, KeyOrder
<1>14. CASE ImportCommits
  BY <1>2, <1>14 DEF ImportCommits, KeyOrder
<1>15. CASE ImportRollsBack
  BY <1>1, <1>15 DEF ImportRollsBack, KeyOrder
<1>16. CASE CliRemoves
  BY <1>1, <1>16 DEF CliRemoves
<1>17. ASSUME NEW p \in Passwords, CliWrites(p) PROVE KeyOrder'
  BY <1>1, <1>17 DEF CliWrites
<1>18. CASE Boot
  <2>1. mem'.cur # 0
    BY <1>18, FreshShape DEF Boot, NewKey
  <2>2. QED
    BY <1>18, <2>1 DEF Boot, KeyOrder
<1>19. CASE Crash
  BY <1>19 DEF Crash, KeyOrder, diskVars
<1>20. CASE SetupFails
  <2>1. mu # "revoke" /\ cred' = "free"
    BY <1>20 DEF SetupFails, KeyOrder
  <2>2. QED
    BY <1>1, <1>20, <2>1 DEF SetupFails, GateStep
<1>21. CASE CliFails
  BY <1>1, <1>21 DEF CliFails, diskVars
<1>22. QED
  BY <1>3, <1>5, <1>6, <1>7, <1>8, <1>9, <1>10, <1>11, <1>12, <1>13, <1>14, <1>15, <1>16, <1>17, <1>18, <1>19,
     <1>20, <1>21 DEF SesNext

LEMMA NumberedStep ==
    ASSUME SesBase, SesNext
    PROVE  Numbered'
<1> USE Blank, Typed DEF SesBase, Below
<1>0. \A token \in tokens : token.key \in Nat \ {0} /\ token.era \in Nat
  BY TokenFields DEF SesTypeOK
<1>1. ASSUME UNCHANGED <<mem, next, mu, era, keys, tokens>>, file' \in {file, NoSet, staging.file},
             staging'.file \in {staging.file, file, NoSet}
      PROVE  Numbered'
  BY <1>1 DEF Numbered
<1>2. ASSUME NEW set \in KeySets, NEW by \in {"rotate", "revoke"}, Persist(set, by), set.cur <= keys + 1,
             \A past \in set.prev : past.key <= keys
      PROVE  Numbered'
  <2>1. keys' = keys + 1 /\ next' = set /\ file' = set /\ UNCHANGED <<mem, staging, era, tokens>>
    BY <1>2 DEF Persist, NewKey
  <2>2. \A s \in {file, mem, next, staging.file} : s.cur \in Nat /\ \A past \in s.prev : past.key \in Nat
    BY SetFields, StagingFields
  <2>3. set.cur \in Nat /\ \A past \in set.prev : past.key \in Nat
    BY SetFields
  <2>4. Below(file)' /\ Below(next)'
    BY <1>2, <2>1, <2>3
  <2>5. Below(mem)' /\ Below(staging.file)'
    BY <2>1, <2>2 DEF Numbered
  <2>6. QED
    BY <1>0, <2>1, <2>4, <2>5 DEF Numbered
<1>3. CASE Rotate
  <2>1. keys < MaxKeys /\ mem.cur # 0 /\ Persist(Rotated, "rotate")
    BY <1>3 DEF Rotate, Persist, NewKey, KeyOrder
  <2>2. \A past \in Rotated.prev : past.key <= keys
    BY <2>1, RotatedShape DEF Numbered
  <2>3. QED
    BY <1>2, <2>1, <2>2, RotatedShape
<1>4. CASE Revoke
  <2>1. keys < MaxKeys /\ Persist(Fresh, "revoke")
    BY <1>4 DEF Revoke, Revoked, Persist, NewKey
  <2>2. QED
    BY <1>2, <2>1, FreshShape
<1>5. CASE Publish
  <2>1. mem' = next /\ next' = NoSet /\ mu' = "free" /\ UNCHANGED <<file, staging, keys, tokens>>
    BY <1>5 DEF Publish, diskVars, bounds
  <2>2. era' = (IF mu = "revoke" THEN era + 1 ELSE era)
    BY <1>5 DEF Publish
  <2>3. QED
    BY <1>0, <2>1, <2>2 DEF Numbered
<1>6. CASE Sign
  <2>1. UNCHANGED <<file, mem, next, staging, mu, era, keys>>
    BY <1>6 DEF Sign, GateStep
  <2>2. tokens' = tokens \union {[key |-> mem.cur, exp |-> gate.exp, pw |-> gate.pw, era |-> era]}
    BY <1>6 DEF Sign
  <2>3. mem.cur <= keys /\ era <= era
    BY DEF Numbered
  <2>4. QED
    BY <2>1, <2>2, <2>3 DEF Numbered
<1>7. CASE Boot
  <2>1. UNCHANGED <<next, staging, tokens, mu>> /\ mu = "free"
    BY <1>7 DEF Boot, KeyOrder
  <2>2. CASE file.cur = 0 \/ password = NoPassword
    <3>1. keys < MaxKeys /\ keys' = keys + 1 /\ mem' = Fresh /\ file' = Fresh /\ era' = era + 1
      BY <1>7, <2>2 DEF Boot, NewKey
    <3>2. next.cur \in Nat /\ staging.file.cur \in Nat
          /\ (\A past \in next.prev : past.key \in Nat) /\ (\A past \in staging.file.prev : past.key \in Nat)
      BY SetFields, StagingFields
    <3>3. QED
      BY <1>0, <2>1, <3>1, <3>2, FreshShape DEF Numbered
  <2>3. CASE ~(file.cur = 0 \/ password = NoPassword)
    BY <1>7, <2>1, <2>3 DEF Boot, Numbered
  <2>4. QED
    BY <2>2, <2>3
<1>8. CASE Crash
  <2>1. mem' = NoSet /\ next' = NoSet /\ mu' = "free" /\ UNCHANGED <<file, staging, keys, tokens>>
    BY <1>8 DEF Crash, diskVars
  <2>2. era' = (IF mu = "revoke" THEN era + 1 ELSE era)
    BY <1>8 DEF Crash
  <2>3. QED
    BY <1>0, <2>1, <2>2 DEF Numbered
<1>9. CASE Tick \/ RegisterBegin \/ RegisterFinish \/ PasskeyDelete
  BY <1>1, <1>9 DEF Tick, RegisterBegin, RegisterFinish, PasskeyDelete, PasskeyRequest, diskVars, bounds
<1>10. CASE Login \/ PasskeyLogin \/ Stamp \/ LoginFails \/ RevokeFails
  BY <1>1, <1>10 DEF Login, PasskeyLogin, Authenticated, Stamp, LoginFails, RevokeFails, GateStep
<1>11. CASE SetupRemoves \/ SetupRemovesPasskeys \/ SetupWrites
  BY <1>1, <1>11 DEF SetupRemoves, SetupRemovesPasskeys, SetupWrites, GateStep
<1>12. ASSUME NEW p \in Passwords, Setup(p) PROVE Numbered'
  BY <1>1, <1>12 DEF Setup, GateStep
<1>13. ASSUME NEW p \in Passwords, Import(p) PROVE Numbered'
  BY <1>1, <1>13 DEF Import
<1>14. ASSUME NEW p \in Passwords, CliWrites(p) PROVE Numbered'
  BY <1>1, <1>14 DEF CliWrites, bounds
<1>15. CASE ImportCommits \/ ImportRollsBack \/ CliRemoves
  BY <1>1, <1>15 DEF ImportCommits, ImportRollsBack, CliRemoves, bounds
<1>16. CASE SetupFails
  BY <1>1, <1>16 DEF SetupFails, GateStep
<1>17. CASE CliFails
  BY <1>1, <1>17 DEF CliFails, diskVars, bounds
<1>18. QED
  BY <1>3, <1>4, <1>5, <1>6, <1>7, <1>8, <1>9, <1>10, <1>11, <1>12, <1>13, <1>14, <1>15,
     <1>16, <1>17 DEF SesNext

LEMMA BaseStep ==
    ASSUME SesBase, SesNext
    PROVE  SesBase'
BY TypeStep, GateOrderStep, KeyOrderStep, NumberedStep DEF SesBase

-----------------------------------------------------------------------------
(* Revocation.                                                             *)

LEMMA NothingKnown == SesTypeOK => \A token \in tokens : ~Knows(NoSet, token)
<1>1. ASSUME SesTypeOK, NEW token \in tokens PROVE ~Knows(NoSet, token)
  <2>1. token.key # 0
    BY <1>1, TokenFields DEF SesTypeOK
  <2>2. QED
    BY <2>1, Blank DEF Knows
<1>2. QED
  BY <1>1

LEMMA FreshUnknown ==
    ASSUME SesBase, keys < MaxKeys
    PROVE  \A token \in tokens : ~Knows(Fresh, token)
<1>1. ASSUME NEW token \in tokens PROVE ~Knows(Fresh, token)
  <2>1. token.key <= keys /\ token.key \in Nat /\ keys \in Nat
    BY Typed, TokenFields DEF SesBase, Numbered, SesTypeOK
  <2>2. Fresh.cur = keys + 1 /\ Fresh.prev = {}
    BY FreshShape DEF SesBase
  <2>3. QED
    BY <2>1, <2>2 DEF Knows
<1>2. QED
  BY <1>1

LEMMA RotatedKnows ==
    ASSUME SesBase, keys < MaxKeys, mem.cur # 0
    PROVE  \A token \in tokens : Knows(Rotated, token) => Knows(mem, token)
<1>1. ASSUME NEW token \in tokens, Knows(Rotated, token) PROVE Knows(mem, token)
  <2>1. token.key <= keys /\ token.key \in Nat /\ keys \in Nat
    BY Typed, TokenFields DEF SesBase, Numbered, SesTypeOK
  <2>2. token.key # Rotated.cur
    BY <2>1, RotatedShape DEF SesBase
  <2>3. PICK past \in Rotated.prev : past.key = token.key
    BY <1>1, <2>2 DEF Knows
  <2>4. past.key = mem.cur \/ past \in mem.prev
    BY RotatedShape DEF SesBase
  <2>5. QED
    BY <2>3, <2>4 DEF Knows
<1>2. QED
  BY <1>1

LEMMA StaleStep ==
    ASSUME SesBase, StaleForgotten, SesNext
    PROVE  StaleForgotten'
<1> USE Blank, NothingKnown, Typed DEF SesBase
<1>0. \A token \in tokens : token.era <= era /\ token.era \in Nat
  BY TokenFields DEF SesTypeOK, Numbered
<1>1. ASSUME UNCHANGED <<era, tokens, mu, mem, next>>, file' \in {file, NoSet, staging.file},
             staging'.file \in {staging.file, file, NoSet},
             file' = staging.file => mu # "revoke" \/ staging.file = NoSet
      PROVE  StaleForgotten'
  BY <1>1 DEF StaleForgotten
<1>2. CASE Rotate
  <2>1. keys < MaxKeys /\ mem.cur # 0
    BY <1>2 DEF Rotate, Persist, NewKey, KeyOrder
  <2>2. UNCHANGED <<era, tokens, mem, staging>> /\ next' = Rotated /\ file' = Rotated /\ mu' = "rotate"
    BY <1>2 DEF Rotate, Persist
  <2>3. QED
    BY <2>1, <2>2, RotatedKnows DEF StaleForgotten
<1>3. CASE Revoke
  <2>1. keys < MaxKeys /\ UNCHANGED <<era, tokens, mem, staging>> /\ next' = Fresh /\ file' = Fresh
    BY <1>3 DEF Revoke, Revoked, Persist, NewKey
  <2>2. QED
    BY <2>1, FreshUnknown DEF StaleForgotten
<1>4. CASE Publish
  <2>1. UNCHANGED <<tokens, file, staging>> /\ mem' = next /\ next' = NoSet /\ mu' = "free"
    BY <1>4 DEF Publish, diskVars
  <2>2. CASE mu = "revoke"
    <3>1. staging.file = NoSet
      BY <2>2 DEF KeyOrder, GateOrder
    <3>2. QED
      BY <2>1, <2>2, <3>1 DEF StaleForgotten
  <2>3. CASE mu # "revoke"
    BY <1>4, <2>1, <2>3 DEF Publish, StaleForgotten
  <2>4. QED
    BY <2>2, <2>3
<1>5. CASE Sign
  <2>1. UNCHANGED <<era, file, mem, next, staging, mu>> /\ mu = "free"
    BY <1>5 DEF Sign, GateStep
  <2>2. \A token \in tokens' : token \in tokens \/ token.era = era
    BY <1>5 DEF Sign
  <2>3. ~(era < era)
    OBVIOUS
  <2>4. QED
    BY <2>1, <2>2, <2>3 DEF StaleForgotten
<1>6. CASE Boot
  <2>1. UNCHANGED <<next, tokens, mu, staging>> /\ mu = "free" /\ next = NoSet
    BY <1>6 DEF Boot, KeyOrder
  <2>2. staging.file = NoSet
    BY <1>6 DEF Boot, GateOrder
  <2>3. CASE file.cur = 0 \/ password = NoPassword
    <3>1. keys < MaxKeys /\ mem' = Fresh /\ file' = Fresh
      BY <1>6, <2>3 DEF Boot, NewKey
    <3>2. QED
      BY <2>1, <2>2, <3>1, FreshUnknown DEF StaleForgotten
  <2>4. CASE ~(file.cur = 0 \/ password = NoPassword)
    BY <1>6, <2>1, <2>4 DEF Boot, StaleForgotten
  <2>5. QED
    BY <2>3, <2>4
<1>7. CASE Crash
  <2>1. UNCHANGED <<tokens, file, staging>> /\ mem' = NoSet /\ next' = NoSet /\ mu' = "free"
    BY <1>7 DEF Crash, diskVars
  <2>2. staging.file = NoSet
    BY <1>7 DEF Crash, GateOrder
  <2>3. CASE mu = "revoke"
    BY <2>1, <2>2, <2>3 DEF StaleForgotten
  <2>4. CASE mu # "revoke"
    BY <1>7, <2>1, <2>4 DEF Crash, StaleForgotten
  <2>5. QED
    BY <2>3, <2>4
<1>8. CASE ImportRollsBack
  <2>1. UNCHANGED <<era, tokens, mu, mem, next>> /\ file' = staging.file /\ staging'.file = NoSet
    BY <1>8 DEF ImportRollsBack
  <2>2. mu # "revoke"
    BY <1>8 DEF ImportRollsBack, KeyOrder
  <2>3. QED
    BY <1>1, <2>1, <2>2
<1>9. ASSUME UNCHANGED <<era, tokens, mu, mem, next>>, file' \in {file, NoSet},
             staging'.file \in {staging.file, file, NoSet}
      PROVE  StaleForgotten'
  BY <1>9 DEF StaleForgotten
<1>10. CASE Tick \/ RegisterBegin \/ RegisterFinish \/ PasskeyDelete
  BY <1>9, <1>10 DEF Tick, RegisterBegin, RegisterFinish, PasskeyDelete, PasskeyRequest, diskVars
<1>11. CASE Login \/ PasskeyLogin \/ Stamp \/ LoginFails \/ RevokeFails
  BY <1>9, <1>11 DEF Login, PasskeyLogin, Authenticated, Stamp, LoginFails, RevokeFails, GateStep
<1>12. CASE SetupRemoves \/ SetupRemovesPasskeys \/ SetupWrites
  BY <1>9, <1>12 DEF SetupRemoves, SetupRemovesPasskeys, SetupWrites, GateStep
<1>13. ASSUME NEW p \in Passwords, Setup(p) PROVE StaleForgotten'
  BY <1>9, <1>13 DEF Setup, GateStep
<1>14. ASSUME NEW p \in Passwords, Import(p) PROVE StaleForgotten'
  BY <1>9, <1>14 DEF Import
<1>15. ASSUME NEW p \in Passwords, CliWrites(p) PROVE StaleForgotten'
  BY <1>9, <1>15 DEF CliWrites
<1>16. CASE ImportCommits \/ CliRemoves
  BY <1>9, <1>16 DEF ImportCommits, CliRemoves
<1>17. CASE SetupFails
  BY <1>9, <1>17 DEF SetupFails, GateStep
<1>18. CASE CliFails
  BY <1>9, <1>18 DEF CliFails, diskVars
<1>19. QED
  BY <1>2, <1>3, <1>4, <1>5, <1>6, <1>7, <1>8, <1>10, <1>11, <1>12, <1>13, <1>14, <1>15, <1>16,
     <1>17, <1>18 DEF SesNext

-----------------------------------------------------------------------------
(* The lifetime of a session.                                              *)

LEMMA TimelyStep ==
    ASSUME SesBase, Timely, SesNext
    PROVE  Timely'
<1> USE Blank, Typed, SesTimeAssumption DEF SesBase
<1>0. gate.exp \in Nat /\ \A token \in tokens : token.exp \in Nat
  BY GateFields, TokenFields DEF SesTypeOK
<1>1. ASSUME UNCHANGED <<clock, tokens, up, mem, next, mu>>, file' \in {file, NoSet}, lost \subseteq lost',
             gate'.exp \in {0, gate.exp}
      PROVE  Timely'
  BY <1>0, <1>1 DEF Timely
<1>2. CASE Tick
  <2>1. clock' >= clock /\ clock' \in Nat /\ UNCHANGED <<gate, tokens, up, mem, next, mu, file, lost>>
    BY <1>2 DEF Tick, diskVars
  <2>2. QED
    BY <1>0, <2>1 DEF Timely
<1>3. CASE Rotate \/ Revoke
  BY <1>3 DEF Rotate, Revoke, Persist, Timely
<1>4. CASE Publish
  <2>1. UNCHANGED <<clock, tokens, up, file, lost>> /\ mem' = next /\ mu' = "free" /\ mu # "free"
        /\ gate'.exp \in {0, gate.exp}
    BY <1>4 DEF Publish, diskVars, bounds
  <2>2. QED
    BY <1>0, <2>1 DEF Timely
<1>5. CASE Stamp
  <2>1. gate'.exp = clock + TTL
    <3>1. gate \in GateStates
      BY Typed
    <3>2. QED
      BY <1>5, <3>1 DEF Stamp, GateStates
  <2>2. QED
    BY <1>5, <2>1 DEF Stamp, GateStep, Timely
<1>6. CASE Sign
  <2>1. \A token \in tokens' : token \in tokens \/ token.exp = gate.exp
    BY <1>6 DEF Sign
  <2>2. gate'.exp = 0 /\ UNCHANGED <<clock, up, file, mem, next, mu, lost>>
    BY <1>6 DEF Sign, GateStep
  <2>3. QED
    BY <2>1, <2>2 DEF Timely
<1>7. CASE Boot
  <2>1. UNCHANGED <<clock, tokens, mu, gate>> /\ mu = "free" /\ mem' = file'
    BY <1>7 DEF Boot, KeyOrder
  <2>2. QED
    BY <2>1 DEF Timely
<1>8. CASE Crash
  <2>1. UNCHANGED <<clock, tokens>> /\ ~up' /\ mu' = "free" /\ gate'.exp = 0
    BY <1>8 DEF Crash
  <2>2. QED
    BY <2>1 DEF Timely
<1>9. CASE ImportRollsBack
  <2>1. UNCHANGED <<clock, tokens, up, mem, next, mu>> /\ file' = staging.file /\ gate'.exp = 0
        /\ lost' = lost \union ({mem.cur, next.cur} \ {0, staging.file.cur})
    BY <1>9 DEF ImportRollsBack, bounds
  <2>2. up => mem.cur # 0
    BY DEF KeyOrder
  <2>3. mu # "free" => next.cur # 0
    BY DEF KeyOrder
  <2>4. QED
    BY <1>0, <2>1, <2>2, <2>3 DEF Timely
<1>10. CASE RegisterBegin \/ RegisterFinish \/ PasskeyDelete
  BY <1>1, <1>10 DEF RegisterBegin, RegisterFinish, PasskeyDelete, PasskeyRequest, diskVars, bounds
<1>11. CASE Login \/ PasskeyLogin \/ LoginFails \/ RevokeFails
  BY <1>1, <1>11 DEF Login, PasskeyLogin, Authenticated, LoginFails, RevokeFails, GateStep
<1>12. CASE SetupRemoves \/ SetupRemovesPasskeys \/ SetupWrites
  BY <1>1, <1>12, GateMoved DEF SetupRemoves, SetupRemovesPasskeys, SetupWrites, GateStep
<1>13. ASSUME NEW p \in Passwords, Setup(p) PROVE Timely'
  BY <1>1, <1>13 DEF Setup, GateStep
<1>14. ASSUME NEW p \in Passwords, Import(p) PROVE Timely'
  BY <1>1, <1>14 DEF Import
<1>15. ASSUME NEW p \in Passwords, CliWrites(p) PROVE Timely'
  BY <1>1, <1>15 DEF CliWrites, bounds
<1>16. CASE ImportCommits \/ CliRemoves
  BY <1>1, <1>16, GateMoved DEF ImportCommits, CliRemoves, bounds
<1>17. CASE SetupFails
  BY <1>1, <1>17 DEF SetupFails, GateStep
<1>18. CASE CliFails
  BY <1>1, <1>18 DEF CliFails, diskVars, bounds
<1>19. QED
  BY <1>2, <1>3, <1>4, <1>5, <1>6, <1>7, <1>8, <1>9, <1>10, <1>11, <1>12, <1>13, <1>14, <1>15, <1>16,
     <1>17, <1>18 DEF SesNext

\* A rotation keeps every live session of the set it replaces.
LEMMA RotatedCovers ==
    ASSUME SesBase, Timely, keys < MaxKeys, mem.cur # 0
    PROVE  \A token \in tokens : clock < token.exp /\ Covers(mem, token) => Covers(Rotated, token)
<1>1. ASSUME NEW token \in tokens, clock < token.exp, Covers(mem, token) PROVE Covers(Rotated, token)
  <2>1. token.exp \in Nat /\ clock \in Nat /\ token.exp <= clock + TTL
    BY Typed, TokenFields DEF SesBase, SesTypeOK, Timely
  <2>2. CASE token.key = mem.cur
    <3> DEFINE past == [key |-> mem.cur, retire |-> clock + TTL]
    <3>1. past \in Rotated.prev /\ past.key = token.key /\ token.exp <= past.retire
      BY <2>1, <2>2, RotatedShape DEF SesBase
    <3> HIDE DEF past
    <3>2. QED
      BY <3>1 DEF Covers
  <2>3. CASE \E past \in mem.prev : past.key = token.key /\ token.exp <= past.retire
    <3>1. PICK past \in mem.prev : past.key = token.key /\ token.exp <= past.retire
      BY <2>3
    <3>2. past.retire \in Nat
      BY Typed, SetFields DEF SesBase
    <3>3. past \in Rotated.prev
      BY <1>1, <2>1, <3>1, <3>2, RotatedShape DEF SesBase
    <3>4. QED
      BY <3>1, <3>3 DEF Covers
  <2>4. QED
    BY <1>1, <2>2, <2>3 DEF Covers
<1>2. QED
  BY <1>1

LEMMA CoveredStep ==
    ASSUME SesBase, Timely, LiveCovered, SesNext
    PROVE  LiveCovered'
<1> USE Blank, Typed DEF SesBase
<1>0. \A token \in tokens : token.era <= era /\ token.era \in Nat /\ token.exp \in Nat
  BY TokenFields DEF SesTypeOK, Numbered
<1>1. ASSUME UNCHANGED <<clock, era, tokens, up, mem, mu, next>>, lost \subseteq lost', file' \in {file, NoSet},
             staging'.file \in {staging.file, NoSet}
      PROVE  LiveCovered'
  BY <1>1 DEF LiveCovered, Counts
<1>2. CASE Tick
  <2>1. clock' >= clock /\ clock' \in Nat /\ UNCHANGED <<era, tokens, up, mem, next, mu, file, lost, staging>>
    BY <1>2 DEF Tick, diskVars
  <2>2. \A token \in tokens : Counts(token)' => Counts(token)
    BY <1>0, <2>1 DEF Counts
  <2>3. QED
    BY <2>1, <2>2 DEF LiveCovered
<1>3. CASE Rotate
  <2>1. keys < MaxKeys /\ mem.cur # 0 /\ up
    BY <1>3 DEF Rotate, Persist, NewKey, KeyOrder
  <2>2. UNCHANGED <<clock, era, tokens, up, mem, staging, lost>> /\ next' = Rotated /\ file' = Rotated
    BY <1>3 DEF Rotate, Persist
  <2>3. QED
    BY <2>1, <2>2, RotatedCovers DEF LiveCovered, Counts
<1>4. CASE Revoke
  <2>1. UNCHANGED <<clock, era, tokens, up, mem, staging, lost>> /\ mu' = "revoke"
    BY <1>4 DEF Revoke, Persist
  <2>2. QED
    BY <2>1 DEF LiveCovered, Counts
<1>5. ASSUME era' = era + 1, tokens' = tokens PROVE LiveCovered'
  <2>1. \A token \in tokens : ~(token.era = era + 1)
    BY <1>0
  <2>2. QED
    BY <1>5, <2>1 DEF LiveCovered, Counts
<1>6. CASE Publish
  <2>1. CASE mu = "revoke"
    BY <1>5, <1>6, <2>1 DEF Publish
  <2>2. CASE mu = "rotate"
    <3>1. UNCHANGED <<clock, era, tokens, up, file, staging, lost>> /\ mem' = next /\ mu' = "free"
      BY <1>6, <2>2 DEF Publish, diskVars, bounds
    <3>2. QED
      BY <2>2, <3>1 DEF LiveCovered, Counts
  <2>3. QED
    BY <1>6, <2>1, <2>2 DEF Publish, SesTypeOK
<1>7. CASE Sign
  <2>1. UNCHANGED <<clock, era, up, mem, mu, next, file, staging, lost>> /\ mu = "free"
    BY <1>7 DEF Sign, GateStep
  <2>2. gate.by = "login" /\ up /\ staging.file = NoSet
    BY <1>7, GateFields DEF Sign, GateOrder
  <2> DEFINE new == [key |-> mem.cur, exp |-> gate.exp, pw |-> gate.pw, era |-> era]
  <2>3. tokens' = tokens \union {new} /\ new.key = mem.cur
    BY <1>7 DEF Sign
  <2> HIDE DEF new
  <2>4. Counts(new) => Covers(mem, new) /\ (file.cur # 0 => Covers(file, new))
    BY <2>1, <2>2, <2>3 DEF Counts, Covers, Timely
  <2>5. QED
    BY <2>1, <2>2, <2>3, <2>4 DEF LiveCovered, Counts
<1>8. CASE Boot
  <2>1. CASE file.cur = 0 \/ password = NoPassword
    BY <1>5, <1>8, <2>1 DEF Boot
  <2>2. CASE ~(file.cur = 0 \/ password = NoPassword)
    <3>1. UNCHANGED <<clock, era, tokens, mu, file, staging, lost>> /\ mem' = file /\ mu = "free"
      BY <1>8, <2>2 DEF Boot, KeyOrder
    <3>2. QED
      BY <2>2, <3>1 DEF LiveCovered, Counts
  <2>3. QED
    BY <2>1, <2>2
<1>9. CASE Crash
  <2>1. CASE mu = "revoke"
    BY <1>5, <1>9, <2>1 DEF Crash
  <2>2. CASE mu # "revoke"
    <3>1. UNCHANGED <<clock, era, tokens, file, staging, lost>> /\ ~up' /\ mu' = "free"
      BY <1>9, <2>2 DEF Crash, diskVars
    <3>2. QED
      BY <2>2, <3>1 DEF LiveCovered, Counts
  <2>3. QED
    BY <2>1, <2>2
<1>10. ASSUME NEW p \in Passwords, Import(p) PROVE LiveCovered'
  <2>1. UNCHANGED <<clock, era, tokens, up, mem, mu, next, lost>> /\ file' = NoSet /\ staging'.file = file
    BY <1>10 DEF Import
  <2>2. mu # "revoke"
    BY <1>10 DEF Import, GateTaken, KeyOrder, GateOrder
  <2>3. QED
    BY <2>1, <2>2 DEF LiveCovered, Counts
<1>11. CASE ImportRollsBack
  <2>1. UNCHANGED <<clock, era, tokens, up, mem, mu, next>> /\ file' = staging.file /\ staging'.file = NoSet
        /\ lost \subseteq lost'
    BY <1>11 DEF ImportRollsBack, bounds
  <2>2. QED
    BY <2>1 DEF LiveCovered, Counts
<1>12. CASE RegisterBegin \/ RegisterFinish \/ PasskeyDelete
  BY <1>1, <1>12 DEF RegisterBegin, RegisterFinish, PasskeyDelete, PasskeyRequest, diskVars, bounds
<1>13. CASE Login \/ PasskeyLogin \/ Stamp \/ LoginFails \/ RevokeFails
  BY <1>1, <1>13 DEF Login, PasskeyLogin, Authenticated, Stamp, LoginFails, RevokeFails, GateStep
<1>14. CASE SetupRemoves \/ SetupRemovesPasskeys \/ SetupWrites
  BY <1>1, <1>14 DEF SetupRemoves, SetupRemovesPasskeys, SetupWrites, GateStep
<1>15. ASSUME NEW p \in Passwords, Setup(p) PROVE LiveCovered'
  BY <1>1, <1>15 DEF Setup, GateStep
<1>16. ASSUME NEW p \in Passwords, CliWrites(p) PROVE LiveCovered'
  BY <1>1, <1>16 DEF CliWrites, bounds
<1>17. CASE ImportCommits \/ CliRemoves
  BY <1>1, <1>17 DEF ImportCommits, CliRemoves, bounds
<1>18. CASE SetupFails
  BY <1>1, <1>18 DEF SetupFails, GateStep
<1>19. CASE CliFails
  BY <1>1, <1>19 DEF CliFails, diskVars, bounds
<1>20. QED
  BY <1>2, <1>3, <1>4, <1>6, <1>7, <1>8, <1>9, <1>10, <1>11, <1>12, <1>13, <1>14, <1>15, <1>16, <1>17,
     <1>18, <1>19 DEF SesNext

-----------------------------------------------------------------------------
(* Provisional passwords.                                                  *)

LEMMA FinalStep ==
    ASSUME SesBase, Final, SesNext
    PROVE  Final'
<1> USE Blank, Typed DEF SesBase
<1>0. \A token \in tokens : token.era <= era /\ token.era \in Nat
  BY TokenFields DEF SesTypeOK, Numbered
<1>1. ASSUME UNCHANGED <<password, staging, era, tokens, up>>, file' \in {file, NoSet}, chosen \subseteq chosen',
             passkeys' \subseteq passkeys, gate'.by = "login" => gate'.pw \in chosen
      PROVE  Final'
  BY <1>1 DEF Final
<1>2. CASE Tick \/ CliRemoves
  BY <1>1, <1>2 DEF Tick, CliRemoves, diskVars, pkVars, Final
<1>3. CASE Rotate \/ Revoke
  <2>1. up
    BY <1>3 DEF Rotate, Revoke, GateOrder
  <2>2. UNCHANGED <<password, staging, era, tokens, up, chosen, passkeys, gate>>
    BY <1>3 DEF Rotate, Revoke, Persist, pkVars
  <2>3. QED
    BY <2>1, <2>2 DEF Final
<1>4. CASE Publish
  <2>1. UNCHANGED <<password, staging, file, tokens, up, chosen, passkeys>> /\ era' \in {era, era + 1}
        /\ gate' \in {gate, GateFree}
    BY <1>4 DEF Publish, diskVars, pkVars
  <2>2. QED
    BY <1>0, <2>1 DEF Final
<1>5. CASE Login \/ PasskeyLogin
  <2>1. Authenticated
    BY <1>5 DEF Login, PasskeyLogin
  <2>2. ~staging.on /\ password # NoPassword
    BY <2>1 DEF Authenticated, GateTaken, GateOrder
  <2>3. gate'.pw \in chosen
    BY <2>1, <2>2 DEF Authenticated, Final
  <2>4. QED
    BY <1>1, <2>1, <2>3 DEF Authenticated, GateStep
<1>6. CASE RegisterBegin \/ PasskeyDelete
  BY <1>1, <1>6 DEF RegisterBegin, PasskeyDelete, PasskeyRequest, diskVars, Final
<1>7. CASE RegisterFinish
  <2>1. ~staging.on /\ password # NoPassword
    BY <1>7 DEF RegisterFinish, PasskeyRequest, GateTaken, GateOrder
  <2>2. password \in chosen /\ passkeys' \subseteq passkeys \union {password}
    BY <1>7, <2>1 DEF RegisterFinish, Final
  <2>3. QED
    BY <1>7, <2>2 DEF RegisterFinish, PasskeyRequest, diskVars, Final
<1>8. CASE Stamp
  <2>1. gate'.by = gate.by /\ gate'.pw = gate.pw
    <3>1. gate \in GateStates
      BY Typed
    <3>2. QED
      BY <1>8, <3>1 DEF Stamp, GateStates
  <2>2. QED
    BY <1>1, <1>8, <2>1 DEF Stamp, GateStep, Final
<1>9. CASE Sign
  <2>1. gate.by = "login"
    BY <1>9, GateFields DEF Sign, GateOrder
  <2>2. \A token \in tokens' : token \in tokens \/ token.pw = gate.pw
    BY <1>9 DEF Sign
  <2>3. gate' = GateFree /\ UNCHANGED <<password, file, staging, era, up, chosen, passkeys>>
    BY <1>9 DEF Sign, GateStep
  <2>4. QED
    BY <2>1, <2>2, <2>3 DEF Final
<1>10. CASE LoginFails \/ RevokeFails
  BY <1>1, <1>10 DEF LoginFails, RevokeFails, GateStep
<1>11. ASSUME NEW p \in Passwords, Setup(p) PROVE Final'
  BY <1>1, <1>11 DEF Setup, GateStep
<1>12. CASE SetupRemoves \/ SetupRemovesPasskeys
  <2>1. gate'.by # "login"
    BY <1>12, GateMoved DEF SetupRemoves, SetupRemovesPasskeys, GateOrder
  <2>2. passkeys' \subseteq passkeys
    BY <1>12 DEF SetupRemoves, SetupRemovesPasskeys
  <2>3. QED
    BY <1>1, <1>12, <2>1, <2>2 DEF SetupRemoves, SetupRemovesPasskeys, GateStep
<1>13. CASE SetupWrites
  <2>1. gate'.by # "login" /\ up
    BY <1>13, GateMoved DEF SetupWrites, GateOrder
  <2>2. password' = gate.pw /\ chosen' = chosen \union {gate.pw}
        /\ UNCHANGED <<file, staging, era, tokens, up, passkeys>>
    BY <1>13 DEF SetupWrites, GateStep
  <2>3. QED
    BY <2>1, <2>2 DEF Final
<1>14. ASSUME NEW p \in Passwords, Import(p) PROVE Final'
  <2>1. ~staging.on /\ password # NoPassword /\ up
    BY <1>14 DEF Import, GateTaken, GateOrder
  <2>2. staging'.on /\ staging'.pw = password /\ gate'.by = "import"
        /\ UNCHANGED <<era, tokens, up, chosen, passkeys>>
    BY <1>14 DEF Import, pkVars
  <2>3. QED
    BY <2>1, <2>2 DEF Final
<1>15. CASE ImportCommits
  <2>1. gate'.by # "login" /\ up
    BY <1>15, GateMoved DEF ImportCommits, GateOrder
  <2>2. chosen' = chosen \union {password} /\ ~staging'.on
        /\ UNCHANGED <<password, file, era, tokens, up, passkeys>>
    BY <1>15 DEF ImportCommits, pkVars
  <2>3. QED
    BY <2>1, <2>2 DEF Final
<1>16. CASE ImportRollsBack
  <2>1. staging.on /\ up /\ password' = staging.pw /\ ~staging'.on /\ gate' = GateFree
        /\ UNCHANGED <<era, tokens, up, chosen, passkeys>>
    BY <1>16 DEF ImportRollsBack, pkVars, GateOrder
  <2>2. QED
    BY <2>1 DEF Final
<1>17. ASSUME NEW p \in Passwords, CliWrites(p) PROVE Final'
  <2>1. file.cur = 0 /\ password' = p /\ UNCHANGED <<file, staging, gate, era, tokens, up, passkeys>>
    BY <1>17 DEF CliWrites, KeyOrder, pkVars
  <2>2. chosen' = IF staging.on THEN chosen ELSE chosen \union {p}
    BY <1>17 DEF CliWrites
  <2>3. QED
    BY <2>1, <2>2 DEF Final
<1>18. CASE Boot
  <2>1. UNCHANGED <<password, staging, gate, tokens, chosen, passkeys>> /\ ~up
    BY <1>18 DEF Boot, pkVars
  <2>2. (file.cur # 0 /\ password # NoPassword /\ era' = era) \/ era' = era + 1
    BY <1>18 DEF Boot
  <2>3. QED
    BY <1>0, <2>1, <2>2 DEF Final
<1>19. CASE Crash
  <2>1. UNCHANGED <<password, file, staging, tokens, chosen, passkeys>> /\ up /\ gate' = GateFree
        /\ era' \in {era, era + 1}
    BY <1>19 DEF Crash, diskVars
  <2>2. QED
    BY <1>0, <2>1 DEF Final
<1>20. CASE SetupFails
  <2>1. up /\ gate' = GateFree /\ UNCHANGED <<file, staging, era, tokens, up, passkeys>>
    BY <1>20 DEF SetupFails, GateStep, GateOrder
  <2>2. \/ password' = gate.pw /\ chosen' = chosen \union {gate.pw}
        \/ UNCHANGED <<password, chosen>>
    BY <1>20 DEF SetupFails
  <2>3. QED
    BY <2>1, <2>2 DEF Final
<1>21. CASE CliFails
  BY <1>1, <1>21 DEF CliFails, diskVars, pkVars, Final
<1>22. QED
  BY <1>2, <1>3, <1>4, <1>5, <1>6, <1>7, <1>8, <1>9, <1>10, <1>11, <1>12, <1>13, <1>14, <1>15, <1>16, <1>17,
     <1>18, <1>19,
     <1>20, <1>21 DEF SesNext

-----------------------------------------------------------------------------
(* The theorems.                                                           *)

LEMMA SesInvInit == SesInit => SesInv
<1> SUFFICES ASSUME SesInit PROVE SesInv
  OBVIOUS
<1> USE Blank, SesTimeAssumption, SesBoundAssumption
<1> DEFINE first == [key |-> 1, exp |-> TTL, pw |-> password, era |-> 0]
<1>1. /\ clock = 0 /\ keys = 1 /\ era = 0 /\ mem = NoSet /\ next = NoSet /\ staging = NoStaging /\ gate = GateFree
      /\ up = FALSE /\ mu = "free" /\ cred = "free" /\ lost = {} /\ changes = 0 /\ password \in Secrets
      /\ chosen = {password} \ {NoPassword} /\ passkeys \in {{}, {password}} /\ ceremony = NoPassword
  BY DEF SesInit
<1>2. file \in KeySets /\ file.cur = 1 /\ file.prev = {}
  BY DEF SesInit, KeySets
<1>3. tokens = {first} /\ first \in Tokens
  BY <1>1 DEF SesInit, Tokens
<1>4. first.key = 1 /\ first.exp = TTL /\ first.pw = password /\ first.era = 0
  OBVIOUS
<1> HIDE DEF first
<1>5. SesTypeOK
  <2>1. chosen \subseteq Passwords /\ passkeys \subseteq Secrets /\ ceremony \in Secrets
    BY <1>1 DEF Secrets
  <2>2. 0 \in 0 .. MaxTime /\ 1 \in 0 .. MaxKeys /\ 0 \in 0 .. MaxKeys /\ 0 \in 0 .. MaxChanges
    OBVIOUS
  <2>3. QED
    BY <1>1, <1>2, <1>3, <2>1, <2>2 DEF SesTypeOK
<1>6. GateOrder /\ KeyOrder
  BY <1>1 DEF GateOrder, KeyOrder
<1>7. Numbered
  BY <1>1, <1>2, <1>3, <1>4 DEF Numbered, Below
<1>8. StaleForgotten /\ Timely
  BY <1>1, <1>2, <1>3, <1>4 DEF StaleForgotten, Timely
<1>9. LiveCovered
  BY <1>1, <1>2, <1>3, <1>4 DEF LiveCovered, Covers
<1>10. Final
  BY <1>1, <1>3, <1>4 DEF Final
<1>11. QED
  BY <1>5, <1>6, <1>7, <1>8, <1>9, <1>10 DEF SesInv, SesBase

LEMMA SesInvStep == SesInv /\ [SesNext]_sesVars => SesInv'
<1>1. CASE SesInv /\ SesNext
  BY <1>1, BaseStep, StaleStep, TimelyStep, CoveredStep, FinalStep DEF SesInv
<1>2. CASE SesInv /\ UNCHANGED sesVars
  <2>1. SesBase'
    BY <1>2 DEF SesInv, SesBase, SesTypeOK, GateOrder, KeyOrder, Numbered, Below, sesVars
  <2>2. StaleForgotten' /\ Timely' /\ Final'
    BY <1>2 DEF SesInv, StaleForgotten, Knows, Timely, Final, sesVars
  <2>3. LiveCovered'
    BY <1>2 DEF SesInv, LiveCovered, Counts, Covers, sesVars
  <2>4. QED
    BY <2>1, <2>2, <2>3 DEF SesInv
<1>3. QED
  BY <1>1, <1>2

\* The invariant of the sessions, types included, for every instance.
THEOREM SessionsInvariant == SesSpec => []SesInv
BY SesInvInit, SesInvStep, PTL DEF SesSpec

\* No session issued before a published revocation verifies after it.
THEOREM RevokedStaysRevokedHolds == SesSpec => []RevokedStaysRevoked
<1>1. SesInv => RevokedStaysRevoked
  BY DEF SesInv, StaleForgotten, RevokedStaysRevoked, Verifies, Knows
<1>2. QED
  BY SessionsInvariant, <1>1, PTL

\* A session that nothing revoked verifies until it expires.
THEOREM LiveSessionKeptHolds == SesSpec => []LiveSessionKept
<1>1. SesInv => LiveSessionKept
  <2> SUFFICES ASSUME SesInv, NEW token \in tokens, up, mu = "free", clock < token.exp, token.era = era,
                      token.key \notin lost
               PROVE  Verifies(token)
    BY DEF LiveSessionKept
  <2>1. Covers(mem, token)
    BY DEF SesInv, LiveCovered, Counts
  <2>2. clock \in Nat /\ token.exp \in Nat /\ \A past \in mem.prev : past.retire \in Nat
    BY Typed, TokenFields, SetFields DEF SesInv, SesBase, SesTypeOK
  <2>3. QED
    BY <2>1, <2>2 DEF Covers, Verifies
<1>2. QED
  BY SessionsInvariant, <1>1, PTL

\* Nothing that an import's provisional password gave access to outlives its rollback.
THEOREM NothingProvisionalHolds == SesSpec => []NothingProvisional
<1>1. SesInv => NothingProvisional
  <2> SUFFICES ASSUME SesInv, gate.by # "import", cred = "free"
               PROVE  /\ \A token \in tokens : Verifies(token) => token.pw \in chosen
                      /\ passkeys \ {NoPassword} \subseteq chosen
    BY DEF NothingProvisional
  <2>1. ASSUME NEW token \in tokens, Verifies(token) PROVE token.pw \in chosen
    <3>1. up /\ ~(token.era < era)
      BY <2>1 DEF SesInv, StaleForgotten, Verifies, Knows
    <3>2. QED
      BY <3>1 DEF SesInv, Final
  <2>2. QED
    BY <2>1 DEF SesInv, Final
<1>2. QED
  BY SessionsInvariant, <1>1, PTL

(***************************************************************************)
(* BackupRestore: an import never loses a path and never reports a         *)
(* mixture, a running core is never swapped under, and an archive is a     *)
(* snapshot.                                                               *)
(***************************************************************************)

-----------------------------------------------------------------------------
(* Who holds what while an import or an export runs.                       *)

Locked == {"check", "stage", "moveOld", "moveNew", "sync", "undoNew", "undoOld", "recheck"}
Swapping == {"stage", "moveOld", "moveNew", "sync", "undoNew", "undoOld"}
Locks ==
    /\ op <=> imp.pc \in Locked
    /\ managed = "import" <=> imp.pc \notin {"idle", "uploaded"}
    /\ managed = "export" <=> exp.pc \in {"collect", "write"}
    /\ imp.pc \in Swapping => ~Owning
    /\ imp.out = "committed" => imp.pc = "idle"

\* Before the swap nothing was moved, and every path moved is put aside first.
Before == {"uploaded", "stop", "lock", "check", "stage"}
After == {"moveNew", "sync", "restart", "relock", "recheck", "restop", "commit"}
Aside(p) == "prev" \in old[p] /\ "arch" \notin old[p]
InPlace(p) == old[p] = {} /\ "prev" \in root[p] /\ "arch" \notin root[p]
Kept == imp.out # "committed" => \A p \in Parts : InPlace(p) \/ Aside(p)

Moved ==
    /\ imp.pc \in Before => old = NoTree /\ ~imp.bad
    /\ imp.pc = "moveOld" => \A p \in imp.left : old[p] = {}
    /\ imp.pc = "moveOld" => \A p \in imp.brings \ imp.left : Aside(p)
    /\ imp.pc \in {"moveOld"} \union After => \A p \in Parts \ imp.brings : old[p] = {}
    /\ imp.pc \in {"moveOld"} \union Before => imp.put = {}
    /\ imp.pc \in After => \A p \in imp.brings : Aside(p)
    /\ \A p \in imp.put : imp.pc \in After => "arch" \in root[p] /\ "prev" \notin root[p]
    /\ imp.pc \in {"moveOld", "moveNew"} => imp.left \subseteq imp.brings
    /\ imp.pc \in After => imp.put \subseteq imp.brings
    /\ imp.pc = "moveNew" => imp.brings \subseteq imp.left \union imp.put
    /\ imp.pc \in After \ {"moveNew"} => imp.put = imp.brings
    /\ imp.pc = "undoNew" => \A p \in imp.left : Aside(p)
    /\ imp.pc = "undoOld" => \A p \in imp.left : old[p] # {}
    /\ imp.pc = "undoOld" /\ ~imp.bad => \A p \in Parts \ imp.left : old[p] = {}
    /\ imp.pc = "resume" /\ ~imp.bad => old = NoTree
    /\ imp.pc = "idle" /\ imp.out \in {"failed", "rolledback"} => old = NoTree
    /\ imp.out = "committed" =>
          \A p \in Parts : ("arch" \in root[p] <=> p \in imp.brings) /\ ("prev" \in root[p] <=> p \notin imp.brings)

\* Whatever earlier imports left: a path that an import moves or removes is not the
\* only copy of what was there before.
Somewhere == imp.out # "committed" => \A p \in Parts : "prev" \in root[p] \union old[p] \union retained[p]
Apart ==
    /\ imp.pc \in Before => old = NoTree
    /\ imp.pc = "moveOld" => imp.put = {} /\ \A p \in imp.left : old[p] = {}
    /\ imp.pc = "moveOld" => imp.left \subseteq imp.brings
    /\ \A p \in Parts : old[p] # {} => "prev" \notin root[p]
    /\ imp.pc = "moveOld" => \A p \in imp.brings \ imp.left : "prev" \notin root[p]
    /\ imp.pc = "moveNew" => \A p \in imp.left : "prev" \notin root[p]
    /\ imp.pc \in After => \A p \in imp.put : "prev" \notin root[p]
    /\ imp.pc = "undoNew" => \A p \in imp.left : "prev" \notin root[p]
    /\ imp.pc = "undoOld" => \A p \in imp.left : old[p] # {}

\* What was collected is still there but for what was replaced, and nothing replaced
\* comes back.
Collected ==
    /\ exp.pc = "collect" => \A p \in Parts \ exp.left : exp.got[p] \ {"unset"} \subseteq root[p]
    /\ exp.pc = "write" => \A p \in Parts : /\ exp.got[p] \ {"unset"} \subseteq exp.at[p]
                                            /\ "unset" \in root[p] => "unset" \in exp.at[p]

Clean == retained = NoTree
Paths == Clean => Kept /\ Moved
BakInv == BakTypeOK /\ Locks /\ Paths /\ Somewhere /\ Apart /\ Collected /\ CoreOnCurrentState /\ ExportIsSnapshot

-----------------------------------------------------------------------------
(* What the steps of an import make of its record.                         *)

ImportPcs == {"idle", "uploaded", "stop", "lock", "check", "stage", "moveOld", "moveNew", "sync", "undoNew", "undoOld",
              "resume", "restart", "relock", "recheck", "restop", "commit"}
Outcomes == {"none", "failed", "kept", "rolledback", "committed", "cut"}

LEMMA ImpFields ==
    ASSUME imp \in Imports
    PROVE  imp.pc \in ImportPcs /\ imp.was \in BOOLEAN /\ imp.left \in SUBSET Parts /\ imp.put \in SUBSET Parts
           /\ imp.brings \in SUBSET Parts
           /\ imp.bad \in BOOLEAN /\ imp.live \in BOOLEAN /\ imp.again \in BOOLEAN /\ imp.out \in Outcomes
           /\ imp.n \in 0 .. MaxImports
BY DEF Imports, ImportPcs, Outcomes

LEMMA BlankTypes ==
    /\ NoTree \in Trees /\ \A p \in Parts : NoTree[p] = {}
    /\ NoImport \in Imports /\ NoImport.pc = "idle" /\ NoImport.out = "none" /\ ~NoImport.bad /\ NoImport.put = {}
    /\ NoExport \in Exports /\ NoExport.pc = "idle"
    /\ [st |-> "stopped", from |-> {}] \in Cores /\ [st |-> "failed", from |-> {}] \in Cores
<1>1. NoTree \in Trees /\ \A p \in Parts : NoTree[p] = {}
  BY DEF NoTree, Trees
<1>2. NoImport \in Imports /\ NoImport.pc = "idle" /\ NoImport.out = "none" /\ ~NoImport.bad /\ NoImport.put = {}
  BY BakBoundAssumption DEF NoImport, Imports
<1>3. NoExport \in Exports /\ NoExport.pc = "idle"
  BY <1>1 DEF NoExport, Exports
<1>4. [st |-> "stopped", from |-> {}] \in Cores /\ [st |-> "failed", from |-> {}] \in Cores
  BY DEF Cores
<1>5. QED
  BY <1>1, <1>2, <1>3, <1>4

LEMMA ArchiveTree ==
    /\ Tree("arch") \in Trees /\ Tree("prev") \in Trees
    /\ \A p \in Parts : "arch" \in Tree("arch")[p] /\ "prev" \notin Tree("arch")[p]
    /\ \A p \in Parts : "prev" \in Tree("prev")[p] /\ "arch" \notin Tree("prev")[p]
<1>1. ASSUME NEW mark \in {"arch", "prev"}
      PROVE  Tree(mark) \in Trees /\ \A p \in Parts : Tree(mark)[p] = {mark} \union IF p \in Dirs THEN {"unset"} ELSE {}
  BY DEF Tree, Trees, Contents
<1>2. QED
  BY <1>1

LEMMA GotoFacts ==
    ASSUME imp \in Imports, NEW pc \in ImportPcs, Goto(pc)
    PROVE  imp' \in Imports /\ imp'.pc = pc /\ imp'.left = imp.left /\ imp'.put = imp.put /\ imp'.bad = imp.bad
           /\ imp'.out = imp.out /\ imp'.brings = imp.brings
BY DEF Imports, ImportPcs, Goto

LEMMA FinishFacts ==
    ASSUME imp \in Imports, NEW out \in Outcomes, Finish(out)
    PROVE  imp' \in Imports /\ imp'.pc = "idle" /\ imp'.left = imp.left /\ imp'.put = imp.put /\ imp'.bad = imp.bad
           /\ imp'.out = out /\ imp'.brings = imp.brings /\ managed' = "none"
BY DEF Imports, Outcomes, Finish

LEMMA UndoFacts ==
    ASSUME imp \in Imports, Undo
    PROVE  imp' \in Imports /\ imp'.pc = "undoNew" /\ imp'.left = imp.put /\ imp'.put = imp.put /\ imp'.bad = FALSE
           /\ imp'.out = imp.out /\ imp'.brings = imp.brings
BY DEF Imports, Undo

LEMMA GiveUpFacts ==
    ASSUME imp \in Imports, GiveUp
    PROVE  /\ op' = FALSE /\ imp' \in Imports /\ imp'.put = imp.put /\ imp'.bad = imp.bad
           /\ imp'.brings = imp.brings
           /\ \/ imp'.pc = "resume" /\ imp'.out = imp.out /\ managed' = managed
              \/ imp'.pc = "idle" /\ imp'.out = "failed" /\ managed' = "none"
<1>1. CASE imp.was
  <2>1. Goto("resume") /\ op' = FALSE /\ managed' = managed
    BY <1>1 DEF GiveUp
  <2>2. QED
    BY <2>1, GotoFacts DEF ImportPcs
<1>2. CASE ~imp.was
  <2>1. Finish("failed") /\ op' = FALSE
    BY <1>2 DEF GiveUp
  <2>2. QED
    BY <2>1, FinishFacts DEF Outcomes
<1>3. QED
  BY <1>1, <1>2

\* The record one path further.
LEMMA LeftFacts ==
    ASSUME imp \in Imports, NEW p \in Parts, NEW bad \in BOOLEAN,
           imp' = [imp EXCEPT !.left = @ \ {p}, !.bad = bad] \/ (bad = imp.bad /\ imp' = [imp EXCEPT !.left = @ \ {p}])
    PROVE  imp' \in Imports /\ imp'.pc = imp.pc /\ imp'.left = imp.left \ {p} /\ imp'.put = imp.put /\ imp'.bad = bad
           /\ imp'.out = imp.out /\ imp'.brings = imp.brings
<1>1. imp.left \ {p} \in SUBSET Parts
  BY ImpFields
<1>2. CASE imp' = [imp EXCEPT !.left = @ \ {p}, !.bad = bad]
  BY <1>1, <1>2 DEF Imports
<1>3. CASE bad = imp.bad /\ imp' = [imp EXCEPT !.left = @ \ {p}]
  BY <1>1, <1>3 DEF Imports
<1>4. QED
  BY <1>2, <1>3

LEMMA MoveOldFacts ==
    ASSUME BakTypeOK, NEW p \in Parts, MoveOld(p)
    PROVE  /\ UNCHANGED <<core, managed, op, exp, writes>> /\ imp.pc = "moveOld" /\ p \in imp.left /\ imp' \in Imports
           /\ faults' \in 0 .. MaxFaults
           /\ imp'.out = imp.out /\ imp'.put = imp.put /\ imp'.brings = imp.brings
           /\ \/ /\ root' \in Trees /\ old' \in Trees /\ old'[p] = root[p] /\ root'[p] = {}
                 /\ \A q \in Parts \ {p} : old'[q] = old[q] /\ root'[q] = root[q]
                 /\ imp'.bad = imp.bad
                 /\ \/ imp'.pc = "moveNew" /\ imp'.left = imp.brings /\ imp.left = {p}
                    \/ imp'.pc = "moveOld" /\ imp'.left = imp.left \ {p}
              \/ Undo /\ UNCHANGED <<root, old>>
<1>1. imp.pc = "moveOld" /\ p \in imp.left /\ UNCHANGED <<core, managed, op, exp, writes>> /\ imp \in Imports
      /\ root \in Trees /\ old \in Trees /\ faults \in 0 .. MaxFaults
  BY DEF MoveOld, At, BakTypeOK
<1>2. CASE Fault /\ Undo /\ UNCHANGED <<root, old>>
  BY <1>1, <1>2, UndoFacts, BakBoundAssumption DEF Fault
<1>3. CASE /\ old' = [old EXCEPT ![p] = root[p]] /\ root' = [root EXCEPT ![p] = {}]
           /\ imp' = (IF imp.left = {p} THEN [imp EXCEPT !.pc = "moveNew", !.left = imp.brings]
                      ELSE [imp EXCEPT !.left = @ \ {p}])
           /\ UNCHANGED faults
  <2>1. root' \in Trees /\ old' \in Trees /\ old'[p] = root[p] /\ root'[p] = {}
        /\ \A q \in Parts \ {p} : old'[q] = old[q] /\ root'[q] = root[q]
    BY <1>1, <1>3 DEF Trees
  <2>2. CASE imp.left = {p}
    <3>1. imp' = [imp EXCEPT !.pc = "moveNew", !.left = imp.brings]
      BY <1>3, <2>2
    <3>2. imp' \in Imports /\ imp'.pc = "moveNew" /\ imp'.left = imp.brings /\ imp'.put = imp.put
          /\ imp'.bad = imp.bad /\ imp'.out = imp.out /\ imp'.brings = imp.brings
      BY <1>1, <3>1 DEF Imports
    <3>3. QED
      BY <1>1, <1>3, <2>1, <2>2, <3>2
  <2>3. CASE imp.left # {p}
    <3>1. imp' = [imp EXCEPT !.left = @ \ {p}]
      BY <1>3, <2>3
    <3>2. QED
      BY <1>1, <1>3, <2>1, <3>1, LeftFacts, ImpFields
  <2>4. QED
    BY <2>2, <2>3
<1>4. QED
  BY <1>2, <1>3 DEF MoveOld

LEMMA MoveNewFacts ==
    ASSUME BakTypeOK, NEW p \in Parts, MoveNew(p)
    PROVE  /\ UNCHANGED <<old, core, managed, op, exp, faults, writes>> /\ imp.pc = "moveNew" /\ p \in imp.left
           /\ root' \in Trees /\ "arch" \in root'[p] /\ "prev" \notin root'[p]
           /\ \A q \in Parts \ {p} : root'[q] = root[q]
           /\ imp' \in Imports /\ imp'.left = imp.left \ {p} /\ imp'.put = imp.put \union {p} /\ imp'.bad = imp.bad
           /\ imp'.out = imp.out /\ imp'.brings = imp.brings
           /\ imp'.pc = "moveNew" \/ (imp'.pc = "sync" /\ imp.left = {p})
<1>1. UNCHANGED <<old, core, managed, op, exp, faults, writes>> /\ imp.pc = "moveNew" /\ p \in imp.left
      /\ imp \in Imports /\ root \in Trees
  BY DEF MoveNew, At, BakTypeOK
<1>2. root' \in Trees /\ root'[p] = Tree("arch")[p] /\ \A q \in Parts \ {p} : root'[q] = root[q]
  BY <1>1, ArchiveTree DEF MoveNew, Trees
<1> DEFINE pc == IF imp.left = {p} THEN "sync" ELSE imp.pc
<1>3. imp' = [imp EXCEPT !.left = imp.left \ {p}, !.put = imp.put \union {p}, !.pc = pc]
  BY <1>1 DEF MoveNew, Imports
<1>4. imp.left \ {p} \in SUBSET Parts /\ imp.put \union {p} \in SUBSET Parts /\ pc \in {"moveNew", "sync"}
      /\ (pc = "sync" => imp.left = {p})
  BY <1>1, ImpFields
<1> HIDE DEF pc
<1>5. imp' \in Imports /\ imp'.left = imp.left \ {p} /\ imp'.put = imp.put \union {p} /\ imp'.bad = imp.bad
      /\ imp'.out = imp.out /\ imp'.brings = imp.brings /\ imp'.pc = pc
  BY <1>1, <1>3, <1>4 DEF Imports
<1>6. QED
  BY <1>1, <1>2, <1>4, <1>5, ArchiveTree

LEMMA UndoNewFacts ==
    ASSUME BakTypeOK, NEW p \in Parts, UndoNew(p)
    PROVE  /\ UNCHANGED <<old, core, managed, op, exp, writes>> /\ imp.pc = "undoNew" /\ p \in imp.left
           /\ faults' \in 0 .. MaxFaults
           /\ root' \in Trees /\ \A q \in Parts \ {p} : root'[q] = root[q]
           /\ imp' \in Imports /\ imp'.pc = "undoNew" /\ imp'.left = imp.left \ {p} /\ imp'.put = imp.put
           /\ imp'.out = imp.out /\ imp'.brings = imp.brings
           /\ root'[p] = {} \/ root' = root
<1>1. UNCHANGED <<old, core, managed, op, exp, writes>> /\ imp.pc = "undoNew" /\ p \in imp.left
      /\ imp \in Imports /\ root \in Trees /\ faults \in 0 .. MaxFaults
  BY DEF UndoNew, At, BakTypeOK
<1>2. CASE root' = [root EXCEPT ![p] = {}] /\ imp' = [imp EXCEPT !.left = @ \ {p}] /\ UNCHANGED faults
  <2>1. root' \in Trees /\ root'[p] = {} /\ \A q \in Parts \ {p} : root'[q] = root[q]
    BY <1>1, <1>2 DEF Trees
  <2>2. QED
    BY <1>1, <1>2, <2>1, LeftFacts, ImpFields
<1>3. CASE Fault /\ imp' = [imp EXCEPT !.left = @ \ {p}, !.bad = TRUE] /\ UNCHANGED root
  <2>1. faults' \in 0 .. MaxFaults
    BY <1>1, <1>3, BakBoundAssumption DEF Fault
  <2>2. QED
    BY <1>1, <1>3, <2>1, LeftFacts, ImpFields
<1>4. QED
  BY <1>2, <1>3 DEF UndoNew

LEMMA UndoOldFacts ==
    ASSUME BakTypeOK, NEW p \in Parts, UndoOld(p)
    PROVE  /\ UNCHANGED <<core, managed, op, exp, writes>> /\ imp.pc = "undoOld" /\ p \in imp.left
           /\ faults' \in 0 .. MaxFaults
           /\ imp' \in Imports /\ imp'.pc = "undoOld" /\ imp'.left = imp.left \ {p} /\ imp'.put = imp.put
           /\ imp'.out = imp.out /\ imp'.brings = imp.brings
           /\ \/ /\ root' \in Trees /\ old' \in Trees /\ root'[p] = old[p] /\ old'[p] = {} /\ imp'.bad = imp.bad
                 /\ \A q \in Parts \ {p} : root'[q] = root[q] /\ old'[q] = old[q]
              \/ imp'.bad /\ UNCHANGED <<root, old>>
<1>1. UNCHANGED <<core, managed, op, exp, writes>> /\ imp.pc = "undoOld" /\ p \in imp.left
      /\ imp \in Imports /\ root \in Trees /\ old \in Trees /\ faults \in 0 .. MaxFaults
  BY DEF UndoOld, At, BakTypeOK
<1>2. CASE /\ root' = [root EXCEPT ![p] = old[p]] /\ old' = [old EXCEPT ![p] = {}]
           /\ imp' = [imp EXCEPT !.left = @ \ {p}] /\ UNCHANGED faults
  <2>1. root' \in Trees /\ old' \in Trees /\ root'[p] = old[p] /\ old'[p] = {}
        /\ \A q \in Parts \ {p} : root'[q] = root[q] /\ old'[q] = old[q]
    BY <1>1, <1>2 DEF Trees
  <2>2. QED
    BY <1>1, <1>2, <2>1, LeftFacts, ImpFields
<1>3. CASE /\ Fault \/ UNCHANGED faults
           /\ imp' = [imp EXCEPT !.left = @ \ {p}, !.bad = TRUE] /\ UNCHANGED <<root, old>>
  <2>1. faults' \in 0 .. MaxFaults
    BY <1>1, <1>3, BakBoundAssumption DEF Fault
  <2>2. QED
    BY <1>1, <1>3, <2>1, LeftFacts, ImpFields
<1>4. QED
  BY <1>2, <1>3 DEF UndoOld

\* A write of another request keeps what an import and an export go by.
LEMMA WriteFacts ==
    ASSUME BakTypeOK, NEW p \in Dirs, SettingWrite(p) \/ OpenWrite(p)
    PROVE  /\ UNCHANGED <<old, retained, core, managed, op, imp, exp, faults>>
           /\ root' \in Trees /\ writes' \in 0 .. MaxWrites
           /\ \A q \in Parts : root[q] \ {"unset"} \subseteq root'[q] /\ root'[q] \subseteq root[q] \union {"set", "stray"}
           /\ root'[Config] = root[Config]
           /\ \A q \in Parts : q # p => root'[q] = root[q]
<1>1. UNCHANGED <<old, retained, core, managed, op, imp, exp, faults>> /\ root \in Trees /\ writes' \in 0 .. MaxWrites
  BY BakBoundAssumption DEF SettingWrite, OpenWrite, Write, BakTypeOK
<1>2. p \in Parts /\ Config \in Parts /\ p # Config
  BY PathsAssumption
<1>3. PICK contents \in {(root[p] \ {"unset"}) \union {"set"}, root[p] \union {"stray"}} :
          root' = [root EXCEPT ![p] = contents]
  BY DEF SettingWrite, OpenWrite, Write
<1>4. contents \in SUBSET Contents
  BY <1>1, <1>2 DEF Trees, Contents
<1>5. root' \in Trees /\ root'[p] = contents /\ \A q \in Parts : q # p => root'[q] = root[q]
  BY <1>1, <1>2, <1>3, <1>4 DEF Trees
<1>6. QED
  BY <1>1, <1>2, <1>5

-----------------------------------------------------------------------------
(* The other steps of an import, by what they leave in its record.         *)

\* The paths and the export are not touched.
Aloof == UNCHANGED <<root, old, exp, writes>>

LEMMA CoreTypes ==
    ASSUME BakTypeOK, StartCore \/ StopCore
    PROVE  core' \in Cores /\ faults' \in 0 .. MaxFaults
<1>1. root[Config] \in SUBSET Contents /\ core \in Cores /\ faults \in 0 .. MaxFaults
  BY PathsAssumption DEF BakTypeOK, Trees
<1>2. [st |-> "running", from |-> root[Config]] \in Cores /\ [st |-> "uncertain", from |-> root[Config]] \in Cores
      /\ [core EXCEPT !.st = "uncertain"] \in Cores
  BY <1>1 DEF Cores
<1>3. Fault => faults' \in 0 .. MaxFaults
  BY <1>1, BakBoundAssumption DEF Fault
<1>4. QED
  BY <1>1, <1>2, <1>3, BlankTypes DEF StartCore, StopCore

\* A start or a stop leaves a running core only with the present configuration.
LEMMA CoreFresh ==
    ASSUME BakTypeOK, StartCore \/ StopCore
    PROVE  /\ core'.st = "running" => core'.from = root[Config] /\ ~StopCore
           /\ StopCore => core'.st # "running"
<1>1. core \in Cores
  BY DEF BakTypeOK
<1>2. StopCore => core'.st \in {"stopped", "uncertain"}
  BY <1>1 DEF StopCore, Cores
<1>3. StartCore /\ core'.st = "running" => core'.from = root[Config]
  BY DEF StartCore
<1>4. QED
  BY <1>2, <1>3

LEMMA ImportCases ==
    ASSUME BakTypeOK, ImportStep
    PROVE  \/ \E p \in Parts : MoveOld(p) \/ MoveNew(p) \/ UndoNew(p) \/ UndoOld(p)
           \/ /\ (\E p \in Parts : MoveNewFails(p)) \/ SyncSwapFails \/ (CheckRollback /\ ~Owning)
              /\ Undo /\ Aloof /\ UNCHANGED <<core, managed, op>> /\ imp.pc \in {"moveNew", "sync", "recheck"}
              /\ imp.pc = "recheck" => ~Owning
              /\ faults' \in 0 .. MaxFaults
           \/ /\ (CheckStopped /\ Owning) \/ ArchiveRefused \/ SelectionRefused \/ LockImportFails
              /\ GiveUp /\ Aloof /\ UNCHANGED core /\ imp.pc \in {"lock", "check", "stage"}
              /\ faults' \in 0 .. MaxFaults
           \/ BeginImport \/ StopForImport \/ LockImport \/ (CheckStopped /\ ~Owning) \/ Stage
           \/ SyncSwap \/ UndoneNew \/ SyncUndoFails \/ Undone \/ Resume
           \/ RestartRestored \/ LockRollback \/ LockRollbackFails \/ (CheckRollback /\ Owning) \/ StopUncertain \/ Commit
<1>1. faults \in 0 .. MaxFaults /\ (Fault => faults' \in 0 .. MaxFaults)
  BY BakBoundAssumption DEF BakTypeOK, Fault
<1>2. ASSUME NEW p \in Parts, MoveNewFails(p)
      PROVE  Undo /\ Aloof /\ UNCHANGED <<core, managed, op>> /\ imp.pc = "moveNew" /\ faults' \in 0 .. MaxFaults
  BY <1>1, <1>2 DEF MoveNewFails, At, Aloof
<1>3. SyncSwapFails => Undo /\ Aloof /\ UNCHANGED <<core, managed, op>> /\ imp.pc = "sync" /\ faults' \in 0 .. MaxFaults
  BY <1>1 DEF SyncSwapFails, At, Aloof
<1>4. CheckRollback /\ ~Owning => Undo /\ Aloof /\ UNCHANGED <<core, managed, op>> /\ imp.pc = "recheck" /\ faults' = faults
  BY DEF CheckRollback, At, Aloof
<1>5. (CheckStopped /\ Owning) \/ ArchiveRefused \/ SelectionRefused \/ LockImportFails
        => GiveUp /\ Aloof /\ UNCHANGED core /\ imp.pc \in {"lock", "check", "stage"} /\ faults' \in 0 .. MaxFaults
  BY <1>1 DEF CheckStopped, ArchiveRefused, SelectionRefused, LockImportFails, At, Aloof
<1>6. QED
  BY <1>1, <1>2, <1>3, <1>4, <1>5 DEF ImportStep

\* The steps that only move the import along, take or give back a lock, or start or
\* stop the core.
Plain(from, to, out) ==
    /\ Aloof /\ imp.pc = from /\ imp' \in Imports /\ imp'.pc = to /\ imp'.put = imp.put /\ imp'.bad = imp.bad
    /\ imp'.left = imp.left /\ imp'.out = out /\ imp'.brings = imp.brings

Along(from, to) == Plain(from, to, imp.out)

LEMMA BeginImportFacts ==
    ASSUME BakTypeOK, BeginImport
    PROVE  /\ Along("uploaded", "stop") \/ Along("uploaded", "lock")
           /\ managed = "none" /\ managed' = "import" /\ UNCHANGED <<core, op, faults>>
<1>1. PICK was \in WasRunning : imp' = [imp EXCEPT !.was = was, !.pc = IF was THEN "stop" ELSE "lock"]
  BY DEF BeginImport
<1>2. imp \in Imports /\ imp.pc = "uploaded"
      /\ managed = "none" /\ managed' = "import" /\ UNCHANGED <<root, old, core, op, exp, faults, writes>>
  BY DEF BeginImport, LockManagedState, At, BakTypeOK
<1>3. was \in BOOLEAN
  BY DEF WasRunning
<1>4. PICK pc \in {"stop", "lock"} : imp' = [imp EXCEPT !.was = was, !.pc = pc]
  BY <1>1
<1>5. imp' \in Imports /\ imp'.pc = pc /\ imp'.put = imp.put /\ imp'.bad = imp.bad /\ imp'.left = imp.left
      /\ imp'.out = imp.out /\ imp'.brings = imp.brings
  BY <1>2, <1>3, <1>4 DEF Imports
<1>6. QED
  BY <1>2, <1>4, <1>5 DEF Plain, Along, Aloof

LEMMA StopForImportFacts ==
    ASSUME BakTypeOK, StopForImport
    PROVE  /\ ~op /\ UNCHANGED op /\ StopCore
           /\ \/ Along("stop", "lock") /\ managed' = managed
              \/ Plain("stop", "idle", "failed") /\ managed' = "none"
<1>1. imp.pc = "stop" /\ ~op /\ StopCore /\ UNCHANGED <<root, old, op, exp, writes>> /\ imp \in Imports
  BY DEF StopForImport, At, BakTypeOK
<1>2. (Goto("lock") /\ UNCHANGED managed) \/ Finish("failed")
  BY DEF StopForImport
<1>3. QED
  BY <1>1, <1>2, GotoFacts, FinishFacts DEF ImportPcs, Outcomes, Plain, Along, Aloof

LEMMA LockFacts ==
    ASSUME BakTypeOK, LockImport \/ LockRollback
    PROVE  /\ Along("lock", "check") \/ Along("relock", "recheck")
           /\ ~op /\ op' = TRUE /\ UNCHANGED <<core, managed, faults>>
<1>1. imp \in Imports
  BY DEF BakTypeOK
<1>2. QED
  BY <1>1, GotoFacts DEF ImportPcs, LockImport, LockRollback, At, Plain, Along, Aloof

LEMMA CheckFacts ==
    ASSUME BakTypeOK, CheckStopped, ~Owning
    PROVE  Along("check", "stage") /\ UNCHANGED <<core, managed, op, faults>>
<1>1. imp \in Imports
  BY DEF BakTypeOK
<1>2. QED
  BY <1>1, GotoFacts DEF ImportPcs, CheckStopped, At, Plain, Along, Aloof

LEMMA StageFacts ==
    ASSUME BakTypeOK, Stage
    PROVE  /\ Aloof /\ UNCHANGED <<core, managed, op, faults>> /\ imp.pc = "stage"
           /\ imp' \in Imports /\ imp'.pc = "moveOld" /\ imp'.left = imp'.brings /\ imp'.put = {} /\ imp'.bad = imp.bad
           /\ imp'.out = imp.out
<1>1. PICK brings \in SUBSET Parts \ {{}} :
          imp' = [imp EXCEPT !.pc = "moveOld", !.brings = brings, !.left = brings, !.put = {}]
  BY DEF Stage
<1>2. imp \in Imports
  BY DEF BakTypeOK
<1>3. imp' \in Imports /\ imp'.pc = "moveOld" /\ imp'.left = imp'.brings /\ imp'.put = {} /\ imp'.bad = imp.bad
      /\ imp'.out = imp.out
  BY <1>1, <1>2 DEF Imports
<1>4. QED
  BY <1>3 DEF Stage, At, Aloof

LEMMA SyncFacts ==
    ASSUME BakTypeOK, SyncSwap
    PROVE  /\ Along("sync", "restart") \/ Along("sync", "commit")
           /\ op' = FALSE /\ UNCHANGED <<core, managed, faults>>
<1>1. imp \in Imports /\ imp.pc = "sync" /\ imp' = [imp EXCEPT !.pc = Swapped, !.live = TRUE] /\ op' = FALSE
      /\ UNCHANGED <<root, old, core, managed, exp, faults, writes>>
  BY DEF BakTypeOK, SyncSwap, At
<1>2. Swapped \in {"restart", "commit"}
  BY DEF Swapped
<1>3. imp' \in Imports /\ imp'.pc = Swapped /\ imp'.put = imp.put /\ imp'.bad = imp.bad /\ imp'.left = imp.left
      /\ imp'.out = imp.out /\ imp'.brings = imp.brings
  BY <1>1, <1>2 DEF Imports
<1>4. QED
  BY <1>1, <1>2, <1>3 DEF Plain, Along, Aloof

LEMMA UndoneNewFacts ==
    ASSUME BakTypeOK, UndoneNew
    PROVE  /\ Aloof /\ UNCHANGED <<core, managed, op, faults>> /\ imp.pc = "undoNew"
           /\ imp' \in Imports /\ imp'.pc = "undoOld" /\ imp'.left = {p \in Parts : old[p] # {}} /\ imp'.put = imp.put
           /\ imp'.bad = imp.bad /\ imp'.out = imp.out /\ imp'.brings = imp.brings
<1> DEFINE left == {p \in Parts : old[p] # {}}
<1>1. left \in SUBSET Parts
  OBVIOUS
<1>2. imp' = [imp EXCEPT !.pc = "undoOld", !.left = left] /\ imp \in Imports /\ imp.pc = "undoNew"
      /\ UNCHANGED <<root, old, core, managed, op, exp, faults, writes>>
  BY DEF BakTypeOK, UndoneNew, At
<1> HIDE DEF left
<1>3. imp' \in Imports /\ imp'.pc = "undoOld" /\ imp'.left = left /\ imp'.put = imp.put
      /\ imp'.bad = imp.bad /\ imp'.out = imp.out /\ imp'.brings = imp.brings
  BY <1>1, <1>2 DEF Imports
<1>4. QED
  BY <1>2, <1>3 DEF left, Aloof

LEMMA SyncUndoFacts ==
    ASSUME BakTypeOK, SyncUndoFails
    PROVE  /\ Aloof /\ UNCHANGED <<core, managed, op>> /\ imp.pc = "undoOld" /\ imp.left = {}
           /\ faults' \in 0 .. MaxFaults
           /\ imp' \in Imports /\ imp'.pc = "undoOld" /\ imp'.left = {} /\ imp'.put = imp.put /\ imp'.bad = TRUE
           /\ imp'.out = imp.out /\ imp'.brings = imp.brings
<1>1. imp \in Imports /\ imp.pc = "undoOld" /\ imp.left = {} /\ imp' = [imp EXCEPT !.bad = TRUE]
      /\ UNCHANGED <<root, old, core, managed, op, exp, writes>>
  BY DEF BakTypeOK, SyncUndoFails, At
<1>2. imp' \in Imports /\ imp'.pc = "undoOld" /\ imp'.left = {} /\ imp'.put = imp.put /\ imp'.bad = TRUE
      /\ imp'.out = imp.out /\ imp'.brings = imp.brings
  BY <1>1 DEF Imports
<1>3. faults' \in 0 .. MaxFaults
  BY BakBoundAssumption DEF SyncUndoFails, Fault, BakTypeOK
<1>4. QED
  BY <1>1, <1>2, <1>3 DEF Aloof

LEMMA LockRollbackFailsFacts ==
    ASSUME BakTypeOK, LockRollbackFails
    PROVE  /\ UNCHANGED <<core, op>> /\ faults' \in 0 .. MaxFaults
           /\ \/ Along("relock", "restop") /\ managed' = managed
              \/ Plain("relock", "idle", "kept") /\ managed' = "none"
<1>1. imp.pc = "relock" /\ UNCHANGED <<root, old, core, op, exp, writes>> /\ imp \in Imports
  BY DEF LockRollbackFails, At, BakTypeOK
<1>2. (Goto("restop") /\ UNCHANGED managed) \/ Finish("kept")
  BY DEF LockRollbackFails
<1>3. faults' \in 0 .. MaxFaults
  BY BakBoundAssumption DEF LockRollbackFails, Fault, BakTypeOK
<1>4. QED
  BY <1>1, <1>2, <1>3, GotoFacts, FinishFacts DEF ImportPcs, Outcomes, Plain, Along, Aloof

LEMMA UndoneFacts ==
    ASSUME BakTypeOK, Undone
    PROVE  /\ op' = FALSE /\ UNCHANGED <<core, faults>> /\ imp.left = {}
           /\ \/ Along("undoOld", "resume") /\ managed' = managed
              \/ Plain("undoOld", "idle", IF imp.bad THEN "kept" ELSE "failed") /\ managed' = "none"
<1>1. /\ imp.pc = "undoOld" /\ imp.left = {} /\ op' = FALSE
      /\ UNCHANGED <<root, old, core, exp, faults, writes>> /\ imp \in Imports
  BY DEF Undone, At, BakTypeOK
<1>2. (Goto("resume") /\ UNCHANGED managed) \/ Finish(IF imp.bad THEN "kept" ELSE "failed")
  BY DEF Undone
<1>3. QED
  BY <1>1, <1>2, GotoFacts, FinishFacts DEF ImportPcs, Outcomes, Plain, Along, Aloof

LEMMA ResumeFacts ==
    ASSUME BakTypeOK, Resume
    PROVE  /\ ~op /\ UNCHANGED op /\ managed' = "none" /\ (StartCore \/ UNCHANGED <<core, faults>>)
           /\ Plain("resume", "idle", IF imp.bad THEN "kept" ELSE IF imp.live THEN "rolledback" ELSE "failed")
<1>1. imp.pc = "resume" /\ ~op /\ UNCHANGED <<root, old, op, exp, writes>> /\ imp \in Imports
      /\ (StartCore \/ UNCHANGED <<core, faults>>)
  BY DEF Resume, At, BakTypeOK
<1>2. Finish(IF imp.bad THEN "kept" ELSE IF imp.live THEN "rolledback" ELSE "failed")
  BY DEF Resume
<1>3. QED
  BY <1>1, <1>2, FinishFacts DEF Outcomes, Plain, Aloof

LEMMA RestartFacts ==
    ASSUME BakTypeOK, RestartRestored
    PROVE  /\ ~op /\ UNCHANGED <<op, managed>> /\ (StartCore \/ UNCHANGED <<core, faults>>)
           /\ Along("restart", "commit") \/ Along("restart", "relock")
<1>1. imp.pc = "restart" /\ ~op /\ UNCHANGED <<root, old, managed, op, exp, writes>> /\ imp \in Imports
      /\ (StartCore \/ UNCHANGED <<core, faults>>)
  BY DEF RestartRestored, At, BakTypeOK
<1>2. Goto("commit") \/ Goto("relock")
  BY DEF RestartRestored
<1>3. QED
  BY <1>1, <1>2, GotoFacts DEF ImportPcs, Plain, Along, Aloof

LEMMA CheckRollbackFacts ==
    ASSUME BakTypeOK, CheckRollback, Owning
    PROVE  /\ op' = FALSE /\ UNCHANGED <<core, faults>>
           /\ \/ Along("recheck", "restop") /\ managed' = managed
              \/ Plain("recheck", "idle", "kept") /\ managed' = "none"
<1>1. imp.pc = "recheck" /\ op' = FALSE /\ UNCHANGED <<root, old, core, exp, faults, writes>> /\ imp \in Imports
  BY DEF CheckRollback, At, BakTypeOK
<1>2. (Goto("restop") /\ UNCHANGED managed) \/ Finish("kept")
  BY DEF CheckRollback
<1>3. QED
  BY <1>1, <1>2, GotoFacts, FinishFacts DEF ImportPcs, Outcomes, Plain, Along, Aloof

LEMMA StopUncertainFacts ==
    ASSUME BakTypeOK, StopUncertain
    PROVE  /\ ~op /\ UNCHANGED op /\ StopCore
           /\ \/ Along("restop", "relock") /\ managed' = managed
              \/ Plain("restop", "idle", "kept") /\ managed' = "none"
<1>1. imp.pc = "restop" /\ ~op /\ StopCore /\ UNCHANGED <<root, old, op, exp, writes>> /\ imp \in Imports
  BY DEF StopUncertain, At, BakTypeOK
<1>2. (imp' = [imp EXCEPT !.pc = "relock", !.again = TRUE] /\ UNCHANGED managed) \/ Finish("kept")
  BY DEF StopUncertain
<1>3. CASE Finish("kept")
  BY <1>1, <1>3, FinishFacts DEF Outcomes, Plain, Aloof
<1>4. CASE imp' = [imp EXCEPT !.pc = "relock", !.again = TRUE] /\ UNCHANGED managed
  <2>1. imp' \in Imports /\ imp'.pc = "relock" /\ imp'.put = imp.put /\ imp'.bad = imp.bad /\ imp'.left = imp.left
        /\ imp'.out = imp.out /\ imp'.brings = imp.brings
    BY <1>1, <1>4 DEF Imports
  <2>2. QED
    BY <1>1, <1>4, <2>1 DEF Plain, Along, Aloof
<1>5. QED
  BY <1>2, <1>3, <1>4

LEMMA CommitFacts ==
    ASSUME BakTypeOK, Commit
    PROVE  /\ UNCHANGED <<root, core, op, exp, faults, writes>> /\ imp.pc = "commit" /\ old' = NoTree
           /\ imp' \in Imports /\ imp'.pc = "idle" /\ imp'.out = "committed" /\ imp'.brings = imp.brings
           /\ managed' = "none"
<1>1. imp \in Imports
  BY DEF BakTypeOK
<1>2. QED
  BY <1>1, FinishFacts DEF Commit, At, Outcomes

-----------------------------------------------------------------------------
(* One step of an import.                                                  *)

LEMMA Retained ==
    ASSUME ImportStep
    PROVE  UNCHANGED retained
BY DEF ImportStep, BeginImport, StopForImport, LockImport, LockImportFails, CheckStopped, Stage, ArchiveRefused,
       SelectionRefused, MoveOld, MoveNew, MoveNewFails, UndoNew, UndoOld, SyncSwap, SyncSwapFails, UndoneNew,
       SyncUndoFails, Undone, Resume, RestartRestored, LockRollback, LockRollbackFails, CheckRollback, StopUncertain,
       Commit

LEMMA ImportTypes ==
    ASSUME BakTypeOK, ImportStep
    PROVE  BakTypeOK'
<1> USE Retained DEF BakTypeOK
<1>1. ASSUME NEW p \in Parts, MoveOld(p) \/ MoveNew(p) \/ UndoNew(p) \/ UndoOld(p)
      PROVE  BakTypeOK'
  <2>1. CASE MoveOld(p)
    <3>1. root' \in Trees /\ old' \in Trees
      BY <2>1, MoveOldFacts
    <3>2. QED
      BY <2>1, <3>1, MoveOldFacts
  <2>2. CASE MoveNew(p)
    BY <2>2, MoveNewFacts
  <2>3. CASE UndoNew(p)
    BY <2>3, UndoNewFacts
  <2>4. CASE UndoOld(p)
    <3>1. root' \in Trees /\ old' \in Trees
      BY <2>4, UndoOldFacts
    <3>2. QED
      BY <2>4, <3>1, UndoOldFacts
  <2>5. QED
    BY <1>1, <2>1, <2>2, <2>3, <2>4
<1>2. CASE Undo /\ Aloof /\ UNCHANGED <<core, managed, op>> /\ faults' \in 0 .. MaxFaults
  BY <1>2, UndoFacts DEF Aloof
<1>3. CASE GiveUp /\ Aloof /\ UNCHANGED core /\ faults' \in 0 .. MaxFaults
  BY <1>3, GiveUpFacts DEF Aloof
<1>4. CASE BeginImport
  BY <1>4, BeginImportFacts DEF Along, Plain, Aloof
<1>5. CASE StopForImport
  BY <1>5, StopForImportFacts, CoreTypes DEF Along, Plain, Aloof
<1>6. CASE LockImport \/ LockRollback
  BY <1>6, LockFacts DEF Along, Plain, Aloof
<1>7. CASE CheckStopped /\ ~Owning
  BY <1>7, CheckFacts DEF Along, Plain, Aloof
<1>8. CASE Stage
  BY <1>8, StageFacts DEF Aloof
<1>9. CASE SyncSwap
  BY <1>9, SyncFacts DEF Along, Plain, Aloof
<1>10. CASE UndoneNew
  BY <1>10, UndoneNewFacts DEF Aloof
<1>11. CASE Undone
  BY <1>11, UndoneFacts DEF Along, Plain, Aloof
<1>12. CASE Resume
  BY <1>12, ResumeFacts, CoreTypes DEF Plain, Aloof
<1>13. CASE RestartRestored
  BY <1>13, RestartFacts, CoreTypes DEF Along, Plain, Aloof
<1>14. CASE CheckRollback /\ Owning
  BY <1>14, CheckRollbackFacts DEF Along, Plain, Aloof
<1>15. CASE StopUncertain
  BY <1>15, StopUncertainFacts, CoreTypes DEF Along, Plain, Aloof
<1>16. CASE Commit
  BY <1>16, CommitFacts, BlankTypes
<1>17. CASE SyncUndoFails
  BY <1>17, SyncUndoFacts DEF Aloof
<1>18. CASE LockRollbackFails
  BY <1>18, LockRollbackFailsFacts DEF Along, Plain, Aloof
<1>19. QED
  BY <1>1, <1>2, <1>3, <1>4, <1>5, <1>6, <1>7, <1>8, <1>9, <1>10, <1>11, <1>12, <1>13, <1>14, <1>15, <1>16, <1>17,
     <1>18, ImportCases

LEMMA ImportLocks ==
    ASSUME BakTypeOK, Locks, ImportStep
    PROVE  Locks' /\ exp' = exp /\ exp.pc \notin {"collect", "write"}
<1> USE DEF Locks, Locked, Swapping
<1>0. op \in BOOLEAN /\ managed \in {"none", "import", "export"}
  BY DEF BakTypeOK
<1>1. ASSUME NEW p \in Parts, MoveOld(p) \/ MoveNew(p) \/ UndoNew(p) \/ UndoOld(p)
      PROVE  Locks' /\ exp' = exp /\ exp.pc \notin {"collect", "write"}
  <2>1. CASE MoveOld(p)
    BY <2>1, MoveOldFacts, UndoFacts DEF Owning, BakTypeOK
  <2>2. CASE MoveNew(p)
    BY <2>2, MoveNewFacts DEF Owning
  <2>3. CASE UndoNew(p)
    BY <2>3, UndoNewFacts DEF Owning
  <2>4. CASE UndoOld(p)
    BY <2>4, UndoOldFacts DEF Owning
  <2>5. QED
    BY <1>1, <2>1, <2>2, <2>3, <2>4
<1>2. CASE /\ Undo /\ Aloof /\ UNCHANGED <<core, managed, op>> /\ imp.pc \in {"moveNew", "sync", "recheck"}
           /\ imp.pc = "recheck" => ~Owning
  BY <1>2, UndoFacts DEF Owning, Aloof, BakTypeOK
<1>3. CASE GiveUp /\ Aloof /\ UNCHANGED core /\ imp.pc \in {"lock", "check", "stage"}
  BY <1>3, GiveUpFacts DEF Owning, Aloof, BakTypeOK
<1>4. CASE BeginImport
  BY <1>0, <1>4, BeginImportFacts DEF Along, Plain, Aloof
<1>5. CASE StopForImport
  BY <1>0, <1>5, StopForImportFacts DEF Along, Plain, Aloof
<1>6. CASE LockImport \/ LockRollback
  BY <1>0, <1>6, LockFacts DEF Along, Plain, Aloof
<1>7. CASE CheckStopped /\ ~Owning
  BY <1>0, <1>7, CheckFacts DEF Along, Plain, Aloof, Owning
<1>8. CASE Stage
  BY <1>0, <1>8, StageFacts DEF Aloof, Owning
<1>9. CASE SyncSwap
  BY <1>0, <1>9, SyncFacts DEF Along, Plain, Aloof
<1>10. CASE UndoneNew
  BY <1>0, <1>10, UndoneNewFacts DEF Aloof, Owning
<1>11. CASE Undone
  BY <1>0, <1>11, UndoneFacts DEF Along, Plain, Aloof
<1>12. CASE Resume
  BY <1>0, <1>12, ResumeFacts DEF Plain, Aloof
<1>13. CASE RestartRestored
  BY <1>0, <1>13, RestartFacts DEF Along, Plain, Aloof
<1>14. CASE CheckRollback /\ Owning
  BY <1>0, <1>14, CheckRollbackFacts DEF Along, Plain, Aloof
<1>15. CASE StopUncertain
  BY <1>0, <1>15, StopUncertainFacts DEF Along, Plain, Aloof
<1>16. CASE Commit
  BY <1>0, <1>16, CommitFacts
<1>17. CASE SyncUndoFails
  BY <1>0, <1>17, SyncUndoFacts DEF Aloof, Owning
<1>18. CASE LockRollbackFails
  BY <1>0, <1>18, LockRollbackFailsFacts DEF Along, Plain, Aloof
<1>19. QED
  BY <1>1, <1>2, <1>3, <1>4, <1>5, <1>6, <1>7, <1>8, <1>9, <1>10, <1>11, <1>12, <1>13, <1>14, <1>15, <1>16, <1>17,
     <1>18, ImportCases

LEMMA ImportCore ==
    ASSUME BakTypeOK, Locks, CoreOnCurrentState, ImportStep
    PROVE  CoreOnCurrentState'
<1> USE DEF CoreOnCurrentState
<1>1. ASSUME NEW p \in Parts, MoveOld(p) \/ MoveNew(p) \/ UndoNew(p) \/ UndoOld(p)
      PROVE  core' = core /\ core.st # "running"
  BY <1>1, MoveOldFacts, MoveNewFacts, UndoNewFacts, UndoOldFacts DEF Locks, Swapping, Owning
<1>2. ASSUME UNCHANGED <<root, core>>
      PROVE  CoreOnCurrentState'
  BY <1>2
<1>3. ASSUME UNCHANGED root, StartCore \/ StopCore
      PROVE  CoreOnCurrentState'
  BY <1>3, CoreFresh
<1>4. CASE BeginImport \/ LockImport \/ LockRollback \/ (CheckStopped /\ ~Owning) \/ Stage \/ SyncSwap
  BY <1>2, <1>4, BeginImportFacts, LockFacts, CheckFacts, StageFacts, SyncFacts DEF Along, Plain, Aloof
<1>5. CASE UndoneNew \/ SyncUndoFails \/ Undone \/ LockRollbackFails \/ (CheckRollback /\ Owning) \/ Commit
  BY <1>2, <1>5, UndoneNewFacts, SyncUndoFacts, UndoneFacts, LockRollbackFailsFacts, CheckRollbackFacts, CommitFacts
     DEF Along, Plain, Aloof
<1>6. CASE StopForImport \/ Resume \/ RestartRestored \/ StopUncertain
  BY <1>2, <1>3, <1>6, StopForImportFacts, ResumeFacts, RestartFacts, StopUncertainFacts DEF Along, Plain, Aloof
<1>7. CASE Aloof /\ UNCHANGED core
  BY <1>2, <1>7 DEF Aloof
<1>8. QED
  BY <1>1, <1>4, <1>5, <1>6, <1>7, ImportCases

\* Where the paths are over one step of an import.
LEMMA ImportPaths ==
    ASSUME BakTypeOK, Locks, Kept, Moved, ImportStep
    PROVE  Kept' /\ Moved'
<1> USE DEF Before, After
<1>0. /\ imp \in Imports /\ imp.bad \in BOOLEAN /\ imp.put \subseteq Parts /\ imp.left \subseteq Parts
      /\ imp.brings \subseteq Parts
      /\ imp.out # "committed" \/ imp.pc = "idle"
      /\ old \in Trees
  BY ImpFields DEF BakTypeOK, Locks
<1>1. ASSUME NEW p \in Parts, MoveOld(p)
      PROVE  Kept' /\ Moved'
  <2>1. /\ imp.pc = "moveOld" /\ p \in imp.left /\ imp.out # "committed" /\ imp.put = {} /\ imp'.put = {}
        /\ imp'.out = imp.out /\ imp'.brings = imp.brings /\ imp.left \subseteq imp.brings
    BY <1>0, <1>1, MoveOldFacts DEF Moved
  <2>2. CASE Undo /\ UNCHANGED <<root, old>>
    <3>1. imp'.pc = "undoNew" /\ imp'.left = {} /\ imp'.put = {}
      BY <1>0, <2>1, <2>2, UndoFacts
    <3>2. QED
      BY <2>1, <2>2, <3>1 DEF Kept, Moved, InPlace, Aside
  <2>3. CASE /\ old'[p] = root[p] /\ root'[p] = {}
             /\ \A q \in Parts \ {p} : old'[q] = old[q] /\ root'[q] = root[q]
             /\ \/ imp'.pc = "moveNew" /\ imp'.left = imp.brings /\ imp.left = {p}
                \/ imp'.pc = "moveOld" /\ imp'.left = imp.left \ {p}
    <3>1. InPlace(p) /\ Aside(p)'
      BY <2>1, <2>3 DEF Kept, Moved, InPlace, Aside
    <3>2. \A q \in Parts \ {p} : (InPlace(q) => InPlace(q)') /\ (Aside(q) => Aside(q)')
      BY <2>3 DEF InPlace, Aside
    <3>3. Kept'
      BY <2>1, <3>1, <3>2 DEF Kept
    <3>9. \A q \in Parts \ imp.brings : old'[q] = {}
      BY <2>1, <2>3 DEF Moved
    <3>4. CASE imp'.pc = "moveNew" /\ imp'.left = imp.brings /\ imp.left = {p}
      <4>1. \A q \in imp.brings : Aside(q)'
        BY <1>0, <2>1, <3>1, <3>2, <3>4 DEF Moved
      <4>2. QED
        BY <2>1, <3>3, <3>4, <3>9, <4>1 DEF Moved
    <3>5. CASE imp'.pc = "moveOld" /\ imp'.left = imp.left \ {p}
      <4>1. \A q \in imp.brings \ imp'.left : Aside(q)'
        BY <1>0, <2>1, <3>1, <3>2, <3>5 DEF Moved
      <4>2. \A q \in imp'.left : old'[q] = {}
        BY <1>0, <2>1, <2>3, <3>5 DEF Moved
      <4>3. QED
        BY <2>1, <3>3, <3>5, <3>9, <4>1, <4>2 DEF Moved
    <3>6. QED
      BY <2>3, <3>4, <3>5
  <2>4. QED
    BY <1>1, <2>2, <2>3, MoveOldFacts
<1>2. ASSUME NEW p \in Parts, MoveNew(p)
      PROVE  Kept' /\ Moved'
  <2>1. imp.pc = "moveNew" /\ imp.out # "committed" /\ imp'.out = imp.out /\ imp'.pc \in {"moveNew", "sync"}
        /\ imp'.put = imp.put \union {p} /\ imp'.left = imp.left \ {p} /\ imp'.brings = imp.brings /\ p \in imp.brings
        /\ imp.put \subseteq imp.brings /\ imp.left \subseteq imp.brings
    BY <1>0, <1>2, MoveNewFacts DEF Moved
  <2>2. \A q \in imp.brings : Aside(q) /\ Aside(q)'
    BY <1>2, <2>1, MoveNewFacts DEF Moved, Aside
  <2>7. \A q \in Parts \ imp.brings : InPlace(q) /\ InPlace(q)' /\ old'[q] = {}
    <3>1. \A q \in Parts \ imp.brings : old[q] = {} /\ InPlace(q)
      BY <2>1 DEF Kept, Moved, Aside
    <3>2. QED
      BY <1>2, <2>1, <3>1, MoveNewFacts DEF InPlace
  <2>3. \A q \in imp'.put : "arch" \in root'[q] /\ "prev" \notin root'[q]
    BY <1>0, <1>2, <2>1, MoveNewFacts DEF Moved
  <2>4. imp.brings \subseteq imp'.left \union imp'.put /\ imp'.put \subseteq imp.brings /\ imp'.left \subseteq imp.brings
    BY <2>1 DEF Moved
  <2>5. imp'.pc = "sync" => imp'.put = imp.brings
    BY <1>0, <1>2, <2>1, <2>4, MoveNewFacts
  <2>8. Kept'
    BY <2>1, <2>2, <2>7 DEF Kept
  <2>6. QED
    BY <2>1, <2>2, <2>3, <2>4, <2>5, <2>7, <2>8 DEF Moved
<1>3. ASSUME NEW p \in Parts, UndoNew(p)
      PROVE  Kept' /\ Moved'
  <2>1. imp.pc = "undoNew" /\ p \in imp.left /\ imp.out # "committed" /\ imp'.out = imp.out /\ imp'.pc = "undoNew"
        /\ imp'.left = imp.left \ {p} /\ old' = old /\ \A q \in Parts \ {p} : root'[q] = root[q]
    BY <1>0, <1>3, UndoNewFacts
  <2>2. \A q \in imp.left : Aside(q)
    BY <2>1 DEF Moved
  <2>3. \A q \in Parts : Aside(q) => Aside(q)'
    BY <2>1 DEF Aside
  <2>4. \A q \in Parts \ {p} : InPlace(q) => InPlace(q)'
    BY <2>1 DEF InPlace
  <2>5. QED
    BY <1>0, <2>1, <2>2, <2>3, <2>4 DEF Kept, Moved
<1>4. ASSUME NEW p \in Parts, UndoOld(p)
      PROVE  Kept' /\ Moved'
  <2>1. imp.pc = "undoOld" /\ p \in imp.left /\ imp.out # "committed" /\ imp'.out = imp.out /\ imp'.pc = "undoOld"
        /\ imp'.left = imp.left \ {p} /\ imp' \in Imports
    BY <1>0, <1>4, UndoOldFacts
  <2>2. CASE imp'.bad /\ UNCHANGED <<root, old>>
    BY <1>0, <2>1, <2>2 DEF Kept, Moved, InPlace, Aside
  <2>3. CASE /\ root'[p] = old[p] /\ old'[p] = {} /\ imp'.bad = imp.bad
             /\ \A q \in Parts \ {p} : root'[q] = root[q] /\ old'[q] = old[q]
    <3>1. Aside(p)
      BY <2>1 DEF Kept, Moved, InPlace
    <3>2. InPlace(p)'
      BY <2>3, <3>1 DEF InPlace, Aside
    <3>3. \A q \in Parts \ {p} : (InPlace(q) => InPlace(q)') /\ (Aside(q) => Aside(q)')
      BY <2>3 DEF InPlace, Aside
    <3>4. Kept'
      BY <2>1, <3>2, <3>3 DEF Kept
    <3>5. \A q \in imp'.left : old'[q] # {}
      BY <1>0, <2>1, <2>3 DEF Moved
    <3>6. ~imp'.bad => \A q \in Parts \ imp'.left : old'[q] = {}
      BY <1>0, <2>1, <2>3 DEF Moved
    <3>7. QED
      BY <2>1, <3>4, <3>5, <3>6 DEF Moved
  <2>4. QED
    BY <1>4, <2>2, <2>3, UndoOldFacts
<1>5. ASSUME Aloof
      PROVE  /\ (imp'.out # "committed" => imp.out # "committed") => Kept'
             /\ \A q \in Parts : Aside(q)' <=> Aside(q)
  BY <1>5 DEF Aloof, Kept, InPlace, Aside
<1>6. CASE Undo /\ Aloof /\ imp.pc \in {"moveNew", "sync", "recheck"}
  <2>1. imp'.pc = "undoNew" /\ imp'.left = imp.put /\ imp'.put = imp.put /\ imp'.out = imp.out
    BY <1>0, <1>6, UndoFacts
  <2>2. \A q \in imp.put : Aside(q)'
    BY <1>0, <1>5, <1>6 DEF Moved
  <2>3. QED
    BY <1>0, <1>5, <1>6, <2>1, <2>2 DEF Moved
<1>7. CASE GiveUp /\ Aloof /\ imp.pc \in {"lock", "check", "stage"}
  BY <1>0, <1>5, <1>7, GiveUpFacts DEF Moved, Aloof
<1>8. ASSUME NEW from, NEW to, Along(from, to),
             \/ from \in Before /\ to \in Before
             \/ from \in After \ {"moveNew"} /\ to \in After \ {"moveNew", "sync"}
      PROVE  Kept' /\ Moved'
  BY <1>0, <1>5, <1>8 DEF Along, Plain, Moved, Aloof
<1>9. CASE BeginImport
  BY <1>8, <1>9, BeginImportFacts
<1>10. CASE StopForImport
  <2>1. CASE Plain("stop", "idle", "failed")
    BY <1>0, <1>5, <2>1 DEF Plain, Moved, Aloof
  <2>2. QED
    BY <1>8, <1>10, <2>1, StopForImportFacts
<1>11. CASE LockImport \/ LockRollback
  BY <1>8, <1>11, LockFacts
<1>12. CASE CheckStopped /\ ~Owning
  BY <1>8, <1>12, CheckFacts
<1>13. CASE Stage
  <2>1. imp.pc = "stage" /\ imp'.pc = "moveOld" /\ imp'.left = imp'.brings /\ imp'.put = {} /\ imp'.out = imp.out
        /\ Aloof /\ imp' \in Imports
    BY <1>13, StageFacts
  <2>2. \A q \in Parts : old'[q] = {}
    BY <2>1, BlankTypes DEF Moved, Aloof
  <2>3. imp'.left \subseteq Parts
    BY <2>1 DEF Imports
  <2>4. QED
    BY <1>0, <1>5, <2>1, <2>2, <2>3 DEF Moved
<1>14. CASE SyncSwap
  BY <1>8, <1>14, SyncFacts
<1>15. CASE UndoneNew
  BY <1>0, <1>5, <1>15, UndoneNewFacts DEF Moved, Aloof
<1>16. CASE Undone
  <2>1. /\ imp.left = {} /\ imp.pc = "undoOld" /\ Aloof /\ imp'.bad = imp.bad /\ imp'.put = imp.put
        /\ imp.out # "committed"
    BY <1>0, <1>16, UndoneFacts DEF Along, Plain
  <2>2. imp.bad \/ old' = NoTree
    <3>1. ~imp.bad => \A q \in Parts : old[q] = {}
      BY <2>1 DEF Moved
    <3>2. (\A q \in Parts : old[q] = {}) => old = NoTree
      BY <1>0 DEF NoTree, Trees
    <3>3. QED
      BY <1>0, <2>1, <3>1, <3>2 DEF Aloof
  <2>3. \/ imp'.pc = "resume" /\ imp'.out = imp.out
        \/ imp'.pc = "idle" /\ imp'.out = "kept"
        \/ imp'.pc = "idle" /\ imp'.out = "failed" /\ ~imp.bad
    BY <1>0, <1>16, UndoneFacts DEF Along, Plain
  <2>4. QED
    BY <1>0, <1>5, <2>1, <2>2, <2>3 DEF Moved
<1>17. CASE Resume
  <2>1. imp.pc = "resume" /\ Aloof /\ imp'.pc = "idle" /\ imp.out # "committed"
        /\ imp'.out \in {"kept", "failed", "rolledback"} /\ (imp'.out = "kept" \/ ~imp.bad)
    BY <1>0, <1>17, ResumeFacts DEF Plain
  <2>2. QED
    BY <1>5, <2>1 DEF Moved, Aloof
<1>18. CASE RestartRestored
  BY <1>8, <1>18, RestartFacts
<1>19. CASE CheckRollback /\ Owning
  <2>1. CASE Plain("recheck", "idle", "kept")
    BY <1>0, <1>5, <2>1 DEF Plain, Moved, Aloof
  <2>2. QED
    BY <1>8, <1>19, <2>1, CheckRollbackFacts
<1>20. CASE StopUncertain
  <2>1. CASE Plain("restop", "idle", "kept")
    BY <1>0, <1>5, <2>1 DEF Plain, Moved, Aloof
  <2>2. QED
    BY <1>8, <1>20, <2>1, StopUncertainFacts
<1>21. CASE Commit
  <2>1. imp.pc = "commit" /\ imp'.pc = "idle" /\ imp'.out = "committed" /\ imp'.brings = imp.brings /\ root' = root
        /\ imp.out # "committed"
    BY <1>0, <1>21, CommitFacts
  <2>2. \A q \in Parts : ("arch" \in root[q] <=> q \in imp.brings) /\ ("prev" \in root[q] <=> q \notin imp.brings)
    <3>1. \A q \in imp.brings : "arch" \in root[q] /\ "prev" \notin root[q]
      BY <2>1 DEF Moved
    <3>2. \A q \in Parts \ imp.brings : "arch" \notin root[q] /\ "prev" \in root[q]
      BY <2>1 DEF Kept, Moved, InPlace, Aside
    <3>3. QED
      BY <3>1, <3>2
  <2>3. QED
    BY <2>1, <2>2 DEF Kept, Moved
<1>22. CASE SyncUndoFails
  <2>1. /\ imp.pc = "undoOld" /\ imp.left = {} /\ Aloof /\ imp'.pc = "undoOld" /\ imp'.left = {} /\ imp'.bad = TRUE
        /\ imp'.out = imp.out /\ imp.out # "committed"
    BY <1>0, <1>22, SyncUndoFacts
  <2>2. QED
    BY <1>5, <2>1 DEF Moved, Aloof
<1>23. CASE LockRollbackFails
  <2>1. CASE Plain("relock", "idle", "kept")
    BY <1>0, <1>5, <2>1 DEF Plain, Moved, Aloof
  <2>2. QED
    BY <1>8, <1>23, <2>1, LockRollbackFailsFacts
<1>24. QED
  BY <1>1, <1>2, <1>3, <1>4, <1>6, <1>7, <1>9, <1>10, <1>11, <1>12, <1>13, <1>14, <1>15, <1>16, <1>17, <1>18, <1>19,
     <1>20, <1>21, <1>22, <1>23, ImportCases

\* What an import takes away is not the only copy of a path, over one step of it.
LEMMA ImportApart ==
    ASSUME BakTypeOK, Locks, Somewhere, Apart, ImportStep
    PROVE  Somewhere' /\ Apart'
<1> USE Retained DEF Before, After
<1>0. /\ imp \in Imports /\ imp.bad \in BOOLEAN /\ imp.put \subseteq Parts /\ imp.left \subseteq Parts
      /\ imp.brings \subseteq Parts
      /\ imp.out # "committed" \/ imp.pc = "idle"
      /\ old \in Trees
  BY ImpFields DEF BakTypeOK, Locks
<1>1. ASSUME NEW p \in Parts, MoveOld(p)
      PROVE  Somewhere' /\ Apart'
  <2>1. /\ imp.pc = "moveOld" /\ p \in imp.left /\ imp.out # "committed" /\ imp.put = {} /\ imp'.put = {}
        /\ imp'.out = imp.out /\ imp'.brings = imp.brings /\ imp.left \subseteq imp.brings /\ old[p] = {}
    BY <1>0, <1>1, MoveOldFacts DEF Apart
  <2>2. CASE Undo /\ UNCHANGED <<root, old>>
    <3>1. imp'.pc = "undoNew" /\ imp'.left = {} /\ imp'.put = {}
      BY <1>0, <2>1, <2>2, UndoFacts
    <3>2. QED
      BY <2>1, <2>2, <3>1 DEF Somewhere, Apart
  <2>3. CASE /\ old'[p] = root[p] /\ root'[p] = {}
             /\ \A q \in Parts \ {p} : old'[q] = old[q] /\ root'[q] = root[q]
             /\ \/ imp'.pc = "moveNew" /\ imp'.left = imp.brings /\ imp.left = {p}
                \/ imp'.pc = "moveOld" /\ imp'.left = imp.left \ {p}
    <3>1. Somewhere'
      BY <2>1, <2>3 DEF Somewhere
    <3>2. \A q \in Parts : old'[q] # {} => "prev" \notin root'[q]
      BY <2>3 DEF Apart
    <3>3. \A q \in imp.brings \ (imp.left \ {p}) : "prev" \notin root'[q]
      BY <1>0, <2>1, <2>3 DEF Apart
    <3>4. \A q \in imp.left \ {p} : old'[q] = {}
      BY <1>0, <2>1, <2>3 DEF Apart
    <3>5. QED
      BY <2>1, <2>3, <3>1, <3>2, <3>3, <3>4 DEF Apart
  <2>4. QED
    BY <1>1, <2>2, <2>3, MoveOldFacts
<1>2. ASSUME NEW p \in Parts, MoveNew(p)
      PROVE  Somewhere' /\ Apart'
  <2>1. /\ imp.pc = "moveNew" /\ p \in imp.left /\ imp'.out = imp.out /\ imp'.pc \in {"moveNew", "sync"}
        /\ imp'.put = imp.put \union {p} /\ imp'.left = imp.left \ {p} /\ old' = old /\ "prev" \notin root'[p]
        /\ "prev" \notin root[p] /\ \A q \in Parts \ {p} : root'[q] = root[q]
    BY <1>0, <1>2, MoveNewFacts DEF Apart
  <2>2. Somewhere'
    BY <2>1 DEF Somewhere
  <2>3. \A q \in Parts : "prev" \in root'[q] => "prev" \in root[q]
    BY <2>1
  <2>4. QED
    BY <1>0, <2>1, <2>2, <2>3 DEF Apart
<1>3. ASSUME NEW p \in Parts, UndoNew(p)
      PROVE  Somewhere' /\ Apart'
  <2>1. /\ imp.pc = "undoNew" /\ p \in imp.left /\ imp'.out = imp.out /\ imp'.pc = "undoNew"
        /\ imp'.left = imp.left \ {p} /\ old' = old /\ "prev" \notin root[p]
        /\ root'[p] = {} \/ root' = root
        /\ \A q \in Parts \ {p} : root'[q] = root[q]
    BY <1>0, <1>3, UndoNewFacts DEF Apart
  <2>2. Somewhere'
    BY <2>1 DEF Somewhere
  <2>3. \A q \in Parts : "prev" \in root'[q] => "prev" \in root[q]
    BY <2>1
  <2>4. QED
    BY <1>0, <2>1, <2>2, <2>3 DEF Apart
<1>4. ASSUME NEW p \in Parts, UndoOld(p)
      PROVE  Somewhere' /\ Apart'
  <2>1. imp.pc = "undoOld" /\ p \in imp.left /\ imp'.out = imp.out /\ imp'.pc = "undoOld"
        /\ imp'.left = imp.left \ {p} /\ "prev" \notin root[p]
    BY <1>0, <1>4, UndoOldFacts DEF Apart
  <2>2. CASE UNCHANGED <<root, old>>
    BY <1>0, <2>1, <2>2 DEF Somewhere, Apart
  <2>3. CASE /\ root'[p] = old[p] /\ old'[p] = {}
             /\ \A q \in Parts \ {p} : root'[q] = root[q] /\ old'[q] = old[q]
    <3>1. Somewhere'
      BY <2>1, <2>3 DEF Somewhere
    <3>2. \A q \in Parts : old'[q] # {} => "prev" \notin root'[q]
      BY <2>3 DEF Apart
    <3>3. \A q \in imp'.left : old'[q] # {}
      BY <1>0, <2>1, <2>3 DEF Apart
    <3>4. QED
      BY <2>1, <3>1, <3>2, <3>3 DEF Apart
  <2>4. QED
    BY <1>4, <2>2, <2>3, UndoOldFacts
<1>5. ASSUME Aloof, imp'.out # "committed" => imp.out # "committed"
      PROVE  Somewhere' /\ \A q \in Parts : old'[q] # {} => "prev" \notin root'[q]
  BY <1>5 DEF Aloof, Somewhere, Apart
<1>6. CASE Undo /\ Aloof /\ imp.pc \in {"moveNew", "sync", "recheck"}
  <2>1. imp'.pc = "undoNew" /\ imp'.left = imp.put /\ imp'.put = imp.put /\ imp'.out = imp.out
    BY <1>0, <1>6, UndoFacts
  <2>2. QED
    BY <1>5, <1>6, <2>1 DEF Apart, Aloof
<1>7. CASE GiveUp /\ Aloof /\ imp.pc \in {"lock", "check", "stage"}
  BY <1>0, <1>5, <1>7, GiveUpFacts DEF Apart, Aloof
<1>8. ASSUME NEW from, NEW to, NEW out, Plain(from, to, out), out # "committed" => imp.out # "committed",
             \/ to \in Before /\ from \in Before
             \/ to \in After \ {"moveNew"} /\ from \in After
             \/ to \in {"idle", "resume"}
      PROVE  Somewhere' /\ Apart'
  BY <1>0, <1>5, <1>8 DEF Plain, Apart, Aloof
<1>9. CASE BeginImport \/ StopForImport
  BY <1>0, <1>8, <1>9, BeginImportFacts, StopForImportFacts DEF Along, Plain
<1>10. CASE LockImport \/ LockRollback \/ (CheckStopped /\ ~Owning)
  BY <1>0, <1>8, <1>10, LockFacts, CheckFacts DEF Along, Plain
<1>11. CASE Stage
  <2>1. imp.pc = "stage" /\ imp'.pc = "moveOld" /\ imp'.left = imp'.brings /\ imp'.put = {} /\ imp'.out = imp.out
        /\ Aloof /\ imp' \in Imports
    BY <1>11, StageFacts
  <2>2. \A q \in Parts : old'[q] = {}
    BY <2>1, BlankTypes DEF Apart, Aloof
  <2>3. imp'.left \subseteq Parts
    BY <2>1 DEF Imports
  <2>4. QED
    BY <1>0, <1>5, <2>1, <2>2, <2>3 DEF Apart
<1>12. CASE SyncSwap \/ RestartRestored \/ LockRollbackFails
  BY <1>0, <1>8, <1>12, SyncFacts, RestartFacts, LockRollbackFailsFacts DEF Along, Plain
<1>13. CASE UndoneNew
  BY <1>0, <1>5, <1>13, UndoneNewFacts DEF Apart, Aloof
<1>14. CASE SyncUndoFails
  BY <1>0, <1>5, <1>14, SyncUndoFacts DEF Apart, Aloof
<1>15. CASE Undone
  BY <1>0, <1>8, <1>15, UndoneFacts DEF Along, Plain
<1>16. CASE Resume
  BY <1>0, <1>8, <1>16, ResumeFacts DEF Plain
<1>17. CASE (CheckRollback /\ Owning) \/ StopUncertain
  BY <1>0, <1>8, <1>17, CheckRollbackFacts, StopUncertainFacts DEF Along, Plain
<1>18. CASE Commit
  <2>1. imp'.pc = "idle" /\ imp'.out = "committed" /\ \A q \in Parts : old'[q] = {}
    BY <1>18, CommitFacts, BlankTypes
  <2>2. QED
    BY <2>1 DEF Somewhere, Apart
<1>19. QED
  BY <1>1, <1>2, <1>3, <1>4, <1>6, <1>7, <1>9, <1>10, <1>11, <1>12, <1>13, <1>14, <1>15, <1>16, <1>17, <1>18,
     ImportCases

-----------------------------------------------------------------------------
(* One step of an export, of another request, or a power cut.              *)

\* What an import goes by does not change.
LEMMA Unmoved ==
    ASSUME Paths, Somewhere, Apart, UNCHANGED <<root, old, retained, imp>>
    PROVE  Paths' /\ Somewhere' /\ Apart'
BY DEF Paths, Clean, Kept, Moved, Somewhere, Apart, InPlace, Aside

LEMMA UploadStep ==
    ASSUME BakInv, Upload
    PROVE  BakInv'
<1>1. /\ imp.pc = "idle" /\ imp.out # "committed" /\ imp.n < MaxImports /\ imp.n \in 0 .. MaxImports
      /\ imp' = [NoImport EXCEPT !.pc = "uploaded", !.n = imp.n + 1]
      /\ retained' = [p \in Parts |-> retained[p] \union old[p]] /\ old' = NoTree
      /\ UNCHANGED <<root, core, managed, op, exp, faults, writes>>
      /\ old \in Trees /\ retained \in Trees
  BY ImpFields DEF BakInv, BakTypeOK, Upload, At
<1>2. imp' \in Imports /\ imp'.pc = "uploaded" /\ imp'.out = "none" /\ imp'.bad = FALSE /\ imp'.put = {}
  <2>1. imp.n + 1 \in 0 .. MaxImports
    BY <1>1, BakBoundAssumption
  <2>2. QED
    BY <1>1, <2>1, BlankTypes DEF Imports
<1>3. BakTypeOK'
  <2>1. retained' \in Trees /\ old' \in Trees
    BY <1>1, BlankTypes DEF Trees
  <2>2. QED
    BY <1>1, <1>2, <2>1 DEF BakInv, BakTypeOK
<1>4. Locks'
  BY <1>1, <1>2 DEF BakInv, Locks, Locked, Swapping, Owning
<1>5. Paths'
  <2> SUFFICES ASSUME Clean' PROVE Kept' /\ Moved'
    BY DEF Paths
  <2>1. \A p \in Parts : retained[p] = {} /\ old[p] = {}
    BY <1>1, BlankTypes DEF Clean
  <2>2. retained = NoTree /\ old = NoTree
    BY <1>1, <2>1 DEF NoTree, Trees
  <2>3. Kept'
    BY <1>1, <2>2 DEF BakInv, Paths, Clean, Kept, InPlace, Aside
  <2>4. QED
    BY <1>1, <1>2, <2>3 DEF Moved, Before, After
<1>6. Somewhere' /\ Apart'
  <2>1. Somewhere'
    BY <1>1, <1>2 DEF BakInv, Somewhere
  <2>2. QED
    BY <1>1, <1>2, <2>1, BlankTypes DEF Apart, Before, After
<1>7. QED
  BY <1>1, <1>3, <1>4, <1>5, <1>6 DEF BakInv, Collected, CoreOnCurrentState, ExportIsSnapshot

LEMMA ExportSteps ==
    ASSUME BakInv, BeginExport \/ ExportStep
    PROVE  BakInv'
<1>0. exp \in Exports /\ exp.left \in SUBSET Parts /\ exp.got \in Trees /\ root \in Trees /\ exp.at \in Trees
      /\ UNCHANGED <<root, old, retained, core, op, imp, faults, writes>>
  BY DEF BakInv, BakTypeOK, Exports, BeginExport, ExportStep, WriteArchive, ExportRefused, Collect
<1>1. Paths' /\ Somewhere' /\ Apart' /\ CoreOnCurrentState'
  BY <1>0, Unmoved DEF BakInv, CoreOnCurrentState
<1>2. ASSUME exp' \in Exports, managed' \in {"none", "import", "export"},
             managed # "import", managed' # "import", managed' = "export" <=> exp'.pc \in {"collect", "write"}
      PROVE  BakTypeOK' /\ Locks'
  <2>1. BakTypeOK'
    BY <1>0, <1>2 DEF BakInv, BakTypeOK
  <2>2. QED
    BY <1>0, <1>2, <2>1 DEF BakInv, Locks, Locked, Swapping, Owning
<1>3. CASE BeginExport
  <2>1. exp' = [NoExport EXCEPT !.pc = "collect", !.left = Parts] /\ managed = "none" /\ managed' = "export"
    BY <1>3 DEF BeginExport, LockManagedState
  <2>2. exp' \in Exports /\ exp'.pc = "collect" /\ exp'.left = Parts
    BY <2>1, BlankTypes DEF Exports
  <2>3. QED
    BY <1>1, <1>2, <2>1, <2>2 DEF BakInv, Collected, ExportIsSnapshot
<1>4. ASSUME NEW p \in Parts, Collect(p)
      PROVE  BakInv'
  <2> DEFINE left == exp.left \ {p}
  <2> DEFINE got == [exp.got EXCEPT ![p] = root[p]]
  <2> DEFINE pc == IF left = {} THEN "write" ELSE "collect"
  <2> DEFINE at == IF left = {} THEN root ELSE exp.at
  <2>1. exp.pc = "collect" /\ managed' = managed
        /\ exp' = [exp EXCEPT !.got = got, !.left = left, !.pc = pc, !.at = at]
    BY <1>0, <1>4 DEF Collect, Exports
  <2>2. /\ left \in SUBSET Parts /\ left = exp.left \ {p}
        /\ got \in Trees /\ got[p] = root[p] /\ \A q \in Parts \ {p} : got[q] = exp.got[q]
        /\ pc \in {"collect", "write"} /\ at \in Trees
        /\ pc = "write" => left = {} /\ at = root
    BY <1>0 DEF Trees
  <2> HIDE DEF left, got, pc, at
  <2>3. exp' \in Exports /\ exp'.pc = pc /\ exp'.got = got /\ exp'.left = left /\ exp'.at = at
    BY <1>0, <2>1, <2>2 DEF Exports
  <2>4. managed = "export"
    BY <2>1 DEF BakInv, Locks
  <2>5. BakTypeOK' /\ Locks'
    BY <1>2, <2>1, <2>2, <2>3, <2>4
  <2>6. \A q \in Parts \ left : got[q] \ {"unset"} \subseteq root[q]
    BY <2>1, <2>2 DEF BakInv, Collected
  <2>7. Collected' /\ ExportIsSnapshot'
    BY <1>0, <2>2, <2>3, <2>6 DEF Collected, ExportIsSnapshot
  <2>8. QED
    BY <1>1, <2>5, <2>7 DEF BakInv
<1>5. CASE WriteArchive \/ ExportRefused
  <2>1. managed = "export" /\ managed' = "none" /\ exp.pc \in {"collect", "write"}
    BY <1>5 DEF BakInv, Locks, WriteArchive, ExportRefused
  <2>2. CASE exp' = NoExport
    BY <1>1, <1>2, <2>1, <2>2, BlankTypes DEF BakInv, Collected, ExportIsSnapshot
  <2>3. CASE /\ exp.pc = "write" /\ exp' = [exp EXCEPT !.pc = "done"]
             /\ \A p \in Parts : exp.got[p] \subseteq root[p]
    <3>1. exp' \in Exports /\ exp'.pc = "done" /\ exp'.got = exp.got /\ exp'.at = exp.at
      BY <1>0, <2>3 DEF Exports
    <3>2. \A p \in Parts : exp.got[p] \subseteq exp.at[p]
      BY <2>3 DEF BakInv, Collected
    <3>3. QED
      BY <1>1, <1>2, <2>1, <3>1, <3>2 DEF BakInv, Collected, ExportIsSnapshot
  <2>4. QED
    BY <1>5, <2>2, <2>3 DEF WriteArchive, ExportRefused
<1>6. QED
  BY <1>3, <1>4, <1>5 DEF ExportStep

LEMMA UserSteps ==
    ASSUME BakInv, UserStarts \/ UserStops
    PROVE  BakInv'
<1>1. op = FALSE /\ (StartCore \/ StopCore) /\ UNCHANGED <<root, old, retained, managed, op, imp, exp, writes>>
  BY DEF BakInv, BakTypeOK, UserStarts, UserStops
<1>2. BakTypeOK'
  BY <1>1, CoreTypes DEF BakInv, BakTypeOK
<1>3. Locks'
  BY <1>1 DEF BakInv, Locks, Locked, Swapping
<1>4. CoreOnCurrentState'
  BY <1>1, CoreFresh DEF BakInv, CoreOnCurrentState
<1>5. QED
  BY <1>1, <1>2, <1>3, <1>4, Unmoved DEF BakInv, Collected, ExportIsSnapshot

LEMMA WriteSteps ==
    ASSUME BakInv, NEW p \in Dirs, SettingWrite(p) \/ OpenWrite(p)
    PROVE  BakInv'
<1>1. /\ UNCHANGED <<old, retained, core, managed, op, imp, exp, faults>> /\ root' \in Trees /\ writes' \in 0 .. MaxWrites
      /\ \A q \in Parts : root[q] \ {"unset"} \subseteq root'[q] /\ root'[q] \subseteq root[q] \union {"set", "stray"}
      /\ root'[Config] = root[Config]
  BY WriteFacts DEF BakInv
<1>2. BakTypeOK' /\ Locks' /\ CoreOnCurrentState' /\ ExportIsSnapshot'
  BY <1>1 DEF BakInv, BakTypeOK, Locks, CoreOnCurrentState, ExportIsSnapshot, Owning
<1>3. /\ \A q \in Parts : InPlace(q) => InPlace(q)'
      /\ \A q \in Parts : Aside(q)' <=> Aside(q)
      /\ \A q \in Parts : ("arch" \in root'[q] <=> "arch" \in root[q]) /\ ("prev" \in root'[q] <=> "prev" \in root[q])
      /\ \A q \in Parts : "unset" \in root'[q] => "unset" \in root[q]
  BY <1>1 DEF InPlace, Aside
<1>4. imp.put \subseteq Parts /\ imp.left \subseteq Parts /\ imp.brings \subseteq Parts
  BY ImpFields DEF BakInv, BakTypeOK
<1>5. Paths'
  <2> SUFFICES ASSUME Clean' PROVE Kept' /\ Moved'
    BY DEF Paths
  <2>1. Kept /\ Moved
    BY <1>1 DEF BakInv, Paths, Clean
  <2>2. Kept'
    BY <1>1, <1>3, <2>1 DEF Kept
  <2>3. Moved'
    BY <1>1, <1>3, <1>4, <2>1 DEF Moved
  <2>4. QED
    BY <2>2, <2>3
<1>8. Somewhere' /\ Apart'
  <2>1. Somewhere'
    BY <1>1, <1>3 DEF BakInv, Somewhere
  <2>2. Apart'
    BY <1>1, <1>3, <1>4 DEF BakInv, Apart
  <2>3. QED
    BY <2>1, <2>2
<1>6. Collected'
  BY <1>1, <1>3 DEF BakInv, Collected
<1>7. QED
  BY <1>2, <1>5, <1>6, <1>8 DEF BakInv

LEMMA PowerCutStep ==
    ASSUME BakInv, PowerCut
    PROVE  BakInv'
<1>1. /\ core' = [st |-> "stopped", from |-> {}] /\ managed' = "none" /\ op' = FALSE /\ exp' = NoExport
      /\ UNCHANGED <<root, old, retained, writes>> /\ faults' \in 0 .. MaxFaults /\ imp \in Imports
  BY BakBoundAssumption DEF PowerCut, Fault, BakInv, BakTypeOK
<1>2. CASE imp.pc = "idle" /\ imp' = imp
  <2>1. BakTypeOK'
    BY <1>1, <1>2, BlankTypes DEF BakInv, BakTypeOK
  <2>2. Locks' /\ CoreOnCurrentState' /\ ExportIsSnapshot' /\ Collected'
    BY <1>1, <1>2, BlankTypes DEF BakInv, Locks, Locked, Swapping, CoreOnCurrentState, ExportIsSnapshot, Collected
  <2>3. QED
    BY <1>1, <1>2, <2>1, <2>2, Unmoved DEF BakInv
<1>3. CASE imp.pc # "idle" /\ imp' = [NoImport EXCEPT !.n = imp.n, !.out = "cut"]
  <2>1. imp' \in Imports /\ imp'.pc = "idle" /\ imp'.out = "cut" /\ imp'.put = {}
    BY <1>1, <1>3, BlankTypes, ImpFields DEF Imports
  <2>2. BakTypeOK'
    BY <1>1, <2>1, BlankTypes DEF BakInv, BakTypeOK
  <2>3. Locks' /\ CoreOnCurrentState' /\ ExportIsSnapshot' /\ Collected'
    BY <1>1, <2>1, BlankTypes DEF BakInv, Locks, Locked, Swapping, CoreOnCurrentState, ExportIsSnapshot, Collected
  <2>4. Paths'
    BY <1>1, <1>3, <2>1 DEF BakInv, Locks, Paths, Clean, Kept, Moved, InPlace, Aside, Before, After
  <2>5. Somewhere' /\ Apart'
    BY <1>1, <1>3, <2>1 DEF BakInv, Locks, Somewhere, Apart, Before, After
  <2>6. QED
    BY <2>2, <2>3, <2>4, <2>5 DEF BakInv
<1>4. QED
  BY <1>2, <1>3 DEF PowerCut, At

-----------------------------------------------------------------------------
(* The theorems.                                                           *)

LEMMA BakInitial == BakInit => BakInv
<1> SUFFICES ASSUME BakInit PROVE BakInv
  OBVIOUS
<1>1. imp = NoImport /\ exp = NoExport /\ root = Tree("prev") /\ old = NoTree /\ retained = NoTree /\ managed = "none" /\ op = FALSE
      /\ faults = 0 /\ writes = 0
      /\ core \in {[st |-> "running", from |-> root[Config]], [st |-> "stopped", from |-> {}]}
  BY DEF BakInit
<1>2. core \in Cores
  <2>1. root[Config] \in SUBSET Contents
    BY <1>1, ArchiveTree, PathsAssumption DEF Trees
  <2>2. QED
    BY <1>1, <2>1 DEF Cores
<1>3. BakTypeOK
  <2>1. root \in Trees /\ old \in Trees /\ retained \in Trees /\ imp \in Imports /\ exp \in Exports
    BY <1>1, ArchiveTree, BlankTypes
  <2>2. faults \in 0 .. MaxFaults /\ writes \in 0 .. MaxWrites
    BY <1>1, BakBoundAssumption
  <2>3. QED
    BY <1>1, <1>2, <2>1, <2>2 DEF BakTypeOK
<1>4. Locks /\ Collected /\ CoreOnCurrentState /\ ExportIsSnapshot
  BY <1>1, BlankTypes DEF Locks, Locked, Swapping, Collected, CoreOnCurrentState, ExportIsSnapshot
<1>5. Paths /\ Somewhere /\ Apart
  BY <1>1, BlankTypes, ArchiveTree DEF Paths, Kept, Moved, Somewhere, Apart, InPlace, Before, After
<1>6. QED
  BY <1>3, <1>4, <1>5 DEF BakInv

LEMMA BakStep == BakInv /\ [BakNext]_bakVars => BakInv'
<1> SUFFICES ASSUME BakInv, [BakNext]_bakVars PROVE BakInv'
  OBVIOUS
<1>1. CASE Upload
  BY <1>1, UploadStep
<1>2. CASE BeginExport \/ ExportStep
  BY <1>2, ExportSteps
<1>3. CASE ImportStep
  <2>1. BakTypeOK' /\ Locks' /\ Somewhere' /\ Apart' /\ CoreOnCurrentState'
    BY <1>3, ImportTypes, ImportLocks, ImportApart, ImportCore DEF BakInv
  <2>2. Collected' /\ ExportIsSnapshot'
    BY <1>3, ImportLocks DEF BakInv, Collected, ExportIsSnapshot
  <2>3. Paths'
    BY <1>3, Retained, ImportPaths DEF BakInv, Paths, Clean
  <2>4. QED
    BY <2>1, <2>2, <2>3 DEF BakInv
<1>4. CASE UserStarts \/ UserStops
  BY <1>4, UserSteps
<1>5. CASE PowerCut
  BY <1>5, PowerCutStep
<1>6. ASSUME NEW p \in Dirs, SettingWrite(p) \/ OpenWrite(p)
      PROVE  BakInv'
  BY <1>6, WriteSteps
<1>7. CASE UNCHANGED bakVars
  <2>1. UNCHANGED <<root, old, retained, core, managed, op, imp, exp, faults, writes>>
    BY <1>7 DEF bakVars
  <2>2. BakTypeOK' /\ Locks'
    BY <2>1 DEF BakInv, BakTypeOK, Locks, Owning
  <2>3. Collected' /\ CoreOnCurrentState' /\ ExportIsSnapshot'
    BY <2>1 DEF BakInv, Collected, CoreOnCurrentState, ExportIsSnapshot
  <2>4. QED
    BY <2>1, <2>2, <2>3, Unmoved DEF BakInv
<1>8. QED
  BY <1>1, <1>2, <1>3, <1>4, <1>5, <1>6, <1>7 DEF BakNext

\* BakInv holds in every state: the locks an import and an export take are held for as
\* long as they rely on them, nothing runs during a swap, and every path is untouched in
\* the tree or set aside whole in the staging, step by step of backup.Restore and of its
\* compensation.
THEOREM BackupInvariant == BakSpec => []BakInv
<1>1. BakInit => BakInv
  BY BakInitial
<1>2. BakInv /\ [BakNext]_bakVars => BakInv'
  BY BakStep
<1>3. QED
  BY <1>1, <1>2, PTL DEF BakSpec

\* However a swap of backup.Restore is interrupted, by a failed rename, a failed sync, a
\* core that cannot be stopped or a power cut, no path loses its only copy, and an
\* import that has reported leaves one tree.
THEOREM StateKeptHolds == BakSpec => []StateKept
<1>1. BakInv => StateKept
  <2> SUFFICES ASSUME BakInv PROVE StateKept
    OBVIOUS
  <2>1. NothingLost
    BY DEF BakInv, Somewhere, NothingLost
  <2>2. ASSUME imp.pc = "idle", imp.out \in {"failed", "rolledback"}, retained = NoTree
        PROVE  \A p \in Parts : "prev" \in root[p] /\ "arch" \notin root[p]
    <3>1. old = NoTree /\ imp.out # "committed"
      BY <2>2 DEF BakInv, Paths, Clean, Moved
    <3>2. QED
      BY <2>2, <3>1, BlankTypes DEF BakInv, Paths, Clean, Kept, InPlace, Aside
  <2>3. ASSUME imp.out = "committed", retained = NoTree
        PROVE  \A p \in Parts : /\ "arch" \in root[p] <=> p \in imp.brings
                                /\ "prev" \in root[p] <=> p \notin imp.brings
    BY <2>3 DEF BakInv, Paths, Clean, Moved
  <2>4. WhollyOldOrNew
    BY <2>2, <2>3 DEF WhollyOldOrNew, At
  <2>5. QED
    BY <2>1, <2>4 DEF StateKept
<1>2. QED
  BY <1>1, BackupInvariant, PTL

\* No path is swapped under a running core, whoever starts and stops it between the
\* steps of an import.
THEOREM CoreOnCurrentStateHolds == BakSpec => []CoreOnCurrentState
<1>1. BakInv => CoreOnCurrentState
  BY DEF BakInv
<1>2. QED
  BY <1>1, BackupInvariant, PTL

\* The second look at every file that writeArchive takes before it publishes makes an
\* archive a snapshot although the writers it races are not locked out.
THEOREM ExportIsSnapshotHolds == BakSpec => []ExportIsSnapshot
<1>1. BakInv => ExportIsSnapshot
  BY DEF BakInv
<1>2. QED
  BY <1>1, BackupInvariant, PTL
=============================================================================
