------------------------------- MODULE Sessions -------------------------------
(***************************************************************************)
(* web/auth.go, web/passkeys.go, the gates of web/server.go and            *)
(* web/handlers.go, and app/credentials.go: the administrator's password,  *)
(* the passkeys, the signing keys and the browser sessions they verify,    *)
(* through key rotation, the first-run setup, a password change by the     *)
(* CLI, a backup import and restarts.                                      *)
(*                                                                         *)
(* A request that changes state holds mutationGate, the file writers hold  *)
(* the inter-process "credentials" lock, and the key set has its own lock. *)
(* Rotation runs inside any authenticated request, so beside all of them.  *)
(* A request is authenticated before it waits for the gate.                *)
(***************************************************************************)
EXTENDS Integers, FiniteSets

CONSTANTS
    Passwords, NoPassword,  \* passwords an administrator chooses; none set yet
    TTL, Rotation,          \* lifetime of a session, age at which a key is replaced
    MaxTime,                \* bound: clock ticks
    MaxKeys,                \* bound: signing keys generated
    MaxTokens,              \* bound: sessions issued
    MaxChanges              \* bound: password changes, imports, setups, restarts

ASSUME SesTimeAssumption == TTL \in Nat \ {0} /\ Rotation \in Nat \ {0} /\ MaxTime \in Nat
ASSUME SesBoundAssumption ==
    MaxKeys \in Nat \ {0} /\ MaxTokens \in Nat /\ MaxChanges \in Nat

VARIABLES
    clock,
    password, file,  \* on disk: the password record, the persisted key set
    staging,         \* what an import may roll back to
    mem,             \* the running manager's key set
    up,
    mu, next,        \* who holds the key set's lock, and the set it publishes
    cred,            \* who holds the "credentials" lock across two writes
    gate,            \* the request that holds mutationGate
    passkeys,        \* on disk: registered passkeys, by the password that confirmed each
    ceremony,        \* the pending registration: the password its begin confirmed
    tokens,          \* the sessions issued
    era,             \* history: revocations published so far
    lost,            \* history: keys a rolled back import dropped from disk
    chosen,          \* history: passwords set for good
    keys, changes

sesVars == <<clock, password, file, staging, mem, up, mu, next, cred, gate, passkeys, ceremony,
             tokens, era, lost, chosen, keys, changes>>
diskVars == <<password, file, staging>>
bounds == <<clock, keys, changes>>
pkVars == <<passkeys, ceremony>>

Secrets == Passwords \union {NoPassword}
NoSet == [cur |-> 0, at |-> 0, prev |-> {}]
KeySets == [cur : 0 .. MaxKeys, at : 0 .. MaxTime,
            prev : SUBSET [key : 1 .. MaxKeys, retire : 0 .. MaxTime + TTL]]
Tokens == [key : 1 .. MaxKeys, exp : 0 .. MaxTime + TTL,
           pw : Secrets, era : 0 .. MaxKeys]
GateStates == [by : {"none", "login", "setup", "import"},
               pc : {"free", "stamp", "sign", "remove", "passkeys", "write", "revoke", "ready"},
               pw : Secrets, exp : 0 .. MaxTime + TTL]
GateFree == [by |-> "none", pc |-> "free", pw |-> NoPassword, exp |-> 0]
Stagings == [on : BOOLEAN, pw : Secrets, file : KeySets]
NoStaging == [on |-> FALSE, pw |-> NoPassword, file |-> NoSet]

SesTypeOK ==
    /\ clock \in 0 .. MaxTime /\ password \in Secrets
    /\ file \in KeySets /\ mem \in KeySets /\ next \in KeySets /\ up \in BOOLEAN
    /\ staging \in Stagings
    /\ mu \in {"free", "rotate", "revoke"} /\ cred \in {"free", "setup", "cli"}
    /\ gate \in GateStates
    /\ passkeys \subseteq Secrets /\ ceremony \in Secrets
    /\ tokens \subseteq Tokens /\ era \in 0 .. MaxKeys /\ lost \subseteq 1 .. MaxKeys
    /\ chosen \subseteq Passwords
    /\ keys \in 0 .. MaxKeys /\ changes \in 0 .. MaxChanges

\* An installation with a key, a session and perhaps a passkey from before; its password
\* file may have been removed to run the setup again.
SesInit ==
    /\ clock = 0 /\ staging = NoStaging /\ mem = NoSet /\ up = FALSE
    /\ mu = "free" /\ next = NoSet /\ cred = "free" /\ gate = GateFree
    /\ era = 0 /\ lost = {} /\ keys = 1 /\ changes = 0
    /\ password \in Secrets
    /\ file = [cur |-> 1, at |-> 0, prev |-> {}] /\ chosen = {password} \ {NoPassword}
    /\ tokens = {[key |-> 1, exp |-> TTL, pw |-> password, era |-> 0]}
    /\ passkeys \in {{}, {password}} /\ ceremony = NoPassword

Change == changes < MaxChanges /\ changes' = changes + 1
Fresh == [cur |-> keys + 1, at |-> clock, prev |-> {}]
NewKey == keys < MaxKeys /\ keys' = keys + 1

\* Time passes, up to the bound.
Tick ==
    /\ clock' = IF clock < MaxTime THEN clock + 1 ELSE clock
    /\ UNCHANGED <<diskVars, mem, up, mu, next, cred, gate, pkVars, tokens, era, lost, chosen, keys, changes>>

-----------------------------------------------------------------------------
(* The key set.                                                            *)

Due == clock >= mem.at + Rotation

\* Mutant: only the key just replaced stays.
RotatedForgets ==
    [cur |-> keys + 1, at |-> clock, prev |-> {[key |-> mem.cur, retire |-> clock + TTL]}]

\* rotateIfDue: the former key verifies for one more session lifetime.
Rotated ==
    [cur |-> keys + 1, at |-> clock,
     prev |-> {[key |-> mem.cur, retire |-> clock + TTL]}
              \union {old \in mem.prev : old.retire > clock}]

\* Mutant: the key that is revoked is retired like a rotated one.
RevokedRetires == Rotated

\* revokeAll keeps no former key.
Revoked == Fresh

Persist(set, by) ==
    /\ mu = "free" /\ cred = "free" /\ NewKey
    /\ mu' = by /\ next' = set /\ file' = set
    /\ UNCHANGED <<clock, password, staging, mem, up, cred, pkVars, tokens, era, lost, chosen, changes>>

\* Any authenticated request, or the issue of a session, finds the key due.
Rotate == up /\ Due /\ Persist(Rotated, "rotate") /\ UNCHANGED gate

Publish ==
    /\ mu # "free" /\ mem' = next /\ mu' = "free" /\ next' = NoSet
    /\ era' = IF mu = "revoke" THEN era + 1 ELSE era
    /\ gate' = IF mu = "revoke" THEN GateFree ELSE gate
    /\ UNCHANGED <<diskVars, up, cred, pkVars, tokens, lost, chosen, bounds>>

\* findSecret and the claims: a key that is current or not yet retired, a live session.
Verifies(token) ==
    /\ up /\ mu = "free"
    /\ \/ token.key = mem.cur
       \/ \E old \in mem.prev : old.key = token.key /\ clock < old.retire
    /\ clock < token.exp

-----------------------------------------------------------------------------
(* Requests under mutationGate.                                            *)

GateStep == UNCHANGED <<staging, mem, up, mu, next, ceremony, lost, era, clock, keys>>

\* Mutant: a login does not wait for the request that holds the gate.
GateTakenByAnyone(by) == up /\ gate.by \in {"none", "import"} /\ by # "none"

\* acquireMutation.
GateTaken(by) == up /\ gate.by = "none" /\ by # "none"

Authenticated ==
    /\ GateTaken("login") /\ password # NoPassword /\ Cardinality(tokens) < MaxTokens
    /\ gate' = [by |-> "login", pc |-> "stamp", pw |-> password, exp |-> 0]
    /\ GateStep /\ UNCHANGED <<passkeys, password, file, cred, tokens, chosen, changes>>

\* handleLogin: the password typed is the one on disk when it is checked, no lock held.
Login == Authenticated

\* handlePasskeyLoginFinish: a registered passkey, checked under the credentials lock.
PasskeyLogin == cred = "free" /\ passkeys # {} /\ Authenticated

-----------------------------------------------------------------------------
(* The passkeys: a registration takes two requests, each atomic under the  *)
(* gate and the credentials lock.  Their sessions may be revoked by now:   *)
(* they were authenticated before they waited for the gate.                *)

PasskeyRequest ==
    /\ GateTaken("passkey") /\ cred = "free" /\ password # NoPassword /\ tokens # {}
    /\ UNCHANGED <<diskVars, mem, up, mu, next, cred, gate, tokens, era, lost, chosen, bounds>>

\* handlePasskeyRegistrationBegin: the password typed is the one on disk.  One pending
\* ceremony is followed; an earlier one expires.
RegisterBegin == PasskeyRequest /\ ceremony' = password /\ UNCHANGED passkeys

\* handlePasskeyRegistrationFinish: the ceremony is consumed whatever comes of it.
RegisterFinish ==
    /\ PasskeyRequest /\ ceremony # NoPassword /\ ceremony' = NoPassword
    /\ \/ ceremony = password /\ passkeys' = passkeys \union {password}
       \/ UNCHANGED passkeys

\* handlePasskeys DELETE.
PasskeyDelete ==
    /\ PasskeyRequest /\ UNCHANGED ceremony
    /\ \E k \in passkeys : passkeys' = passkeys \ {k}

-----------------------------------------------------------------------------
(* Logins.                                                                 *)

\* issue: the expiry is computed, and then the current key is read and signs.
Stamp ==
    /\ gate.pc = "stamp" /\ mu = "free" /\ ~Due
    /\ gate' = [gate EXCEPT !.pc = "sign", !.exp = clock + TTL]
    /\ GateStep /\ UNCHANGED <<passkeys, password, file, cred, tokens, chosen, changes>>

Sign ==
    /\ gate.pc = "sign" /\ mu = "free"
    /\ tokens' = tokens \union {[key |-> mem.cur, exp |-> gate.exp, pw |-> gate.pw, era |-> era]}
    /\ gate' = GateFree
    /\ GateStep /\ UNCHANGED <<passkeys, password, file, cred, chosen, changes>>

\* rotateIfDue failed, or the client went away: no session.
LoginFails ==
    /\ gate.by = "login" /\ gate' = GateFree
    /\ GateStep /\ UNCHANGED <<passkeys, password, file, cred, tokens, chosen, changes>>

\* InitializeAdmin under the credentials lock: only when there is no password.
Setup(p) ==
    /\ GateTaken("setup") /\ cred = "free" /\ password = NoPassword /\ Change
    /\ cred' = "setup" /\ gate' = [by |-> "setup", pc |-> "remove", pw |-> p, exp |-> 0]
    /\ GateStep /\ UNCHANGED <<passkeys, password, file, tokens, chosen>>

SetupRemoves ==
    /\ gate.pc = "remove" /\ file' = NoSet /\ gate' = [gate EXCEPT !.pc = "passkeys"]
    /\ GateStep /\ UNCHANGED <<passkeys, password, cred, tokens, chosen, changes>>

SetupRemovesPasskeys ==
    /\ gate.pc = "passkeys" /\ passkeys' = {} /\ gate' = [gate EXCEPT !.pc = "write"]
    /\ GateStep /\ UNCHANGED <<password, file, cred, tokens, chosen, changes>>

SetupWrites ==
    /\ gate.pc = "write" /\ password' = gate.pw /\ cred' = "free"
    /\ gate' = [gate EXCEPT !.pc = "revoke"] /\ chosen' = chosen \union {gate.pw}
    /\ GateStep /\ UNCHANGED <<passkeys, file, tokens, changes>>

\* A removal or the write failed; the new password may have been renamed into place.
SetupFails ==
    /\ gate.by = "setup" /\ gate.pc # "revoke" /\ gate' = GateFree /\ cred' = "free"
    /\ \/ gate.pc = "write" /\ password' = gate.pw /\ chosen' = chosen \union {gate.pw}
       \/ UNCHANGED <<password, chosen>>
    /\ GateStep /\ UNCHANGED <<passkeys, file, tokens, changes>>

\* The revocation that ends a setup and an import holds the gate until it is published.
Revoke == gate.pc = "revoke" /\ Persist(Revoked, "revoke") /\ UNCHANGED gate

\* The new set cannot be persisted: the request ends with an error and the old keys.
RevokeFails ==
    /\ gate.pc = "revoke" /\ mu # "revoke" /\ gate' = GateFree
    /\ GateStep /\ UNCHANGED <<passkeys, password, file, cred, tokens, chosen, changes>>

\* handleBackupImport: the swap, under the credentials lock; the restored state may
\* bring a password, and never the session file.
Import(p) ==
    /\ GateTaken("import") /\ cred = "free" /\ password # NoPassword /\ Change
    /\ staging' = [on |-> TRUE, pw |-> password, file |-> file]
    /\ password' = p /\ file' = NoSet
    /\ gate' = [by |-> "import", pc |-> "ready", pw |-> p, exp |-> 0]
    /\ UNCHANGED <<mem, up, mu, next, cred, pkVars, tokens, era, lost, chosen, clock, keys>>

\* The restored selection proved ready.
ImportCommits ==
    /\ gate.by = "import" /\ gate.pc = "ready"
    /\ gate' = [gate EXCEPT !.pc = "revoke"] /\ staging' = NoStaging
    /\ chosen' = chosen \union {password}
    /\ UNCHANGED <<password, file, mem, up, mu, next, cred, pkVars, tokens, era, lost, bounds>>

\* It did not: the previous files return, and what a rotation persisted meanwhile goes.
ImportRollsBack ==
    /\ gate.by = "import" /\ gate.pc = "ready" /\ cred = "free"
    /\ password' = staging.pw /\ file' = staging.file
    /\ lost' = lost \union ({mem.cur, next.cur} \ {0, staging.file.cur})
    /\ staging' = NoStaging /\ gate' = GateFree
    /\ UNCHANGED <<mem, up, mu, next, cred, pkVars, tokens, era, chosen, bounds>>

-----------------------------------------------------------------------------
(* The CLI and the process itself.                                         *)

\* SetPassword removes the persisted keys, then publishes the password.
CliRemoves ==
    /\ cred = "free" /\ Change
    /\ cred' = "cli" /\ file' = NoSet
    /\ UNCHANGED <<clock, password, staging, mem, up, mu, next, gate, pkVars, tokens, era, lost, chosen, keys>>

CliWrites(p) ==
    /\ cred = "cli" /\ password' = p /\ cred' = "free"
    /\ chosen' = IF staging.on THEN chosen ELSE chosen \union {p}
    /\ UNCHANGED <<file, staging, mem, up, mu, next, gate, pkVars, tokens, era, lost, bounds>>

\* The password could not be written; the keys are gone all the same.
CliFails ==
    /\ cred = "cli" /\ cred' = "free"
    /\ UNCHANGED <<diskVars, mem, up, mu, next, gate, pkVars, tokens, era, lost, chosen, bounds>>

\* newSessionManager: without a persisted key, or before the setup, a fresh set.
Boot ==
    /\ ~up /\ cred = "free" /\ up' = TRUE
    /\ IF file.cur = 0 \/ password = NoPassword
         THEN NewKey /\ mem' = Fresh /\ file' = Fresh /\ era' = era + 1
         ELSE mem' = file /\ UNCHANGED <<file, era, keys>>
    /\ UNCHANGED <<clock, password, staging, mu, next, cred, gate, pkVars, tokens, lost, chosen, changes>>

\* Outside an import, whose recovery is BackupRestore's.
Crash ==
    /\ up /\ gate.by # "import" /\ Change
    /\ up' = FALSE /\ mem' = NoSet /\ mu' = "free" /\ next' = NoSet /\ gate' = GateFree
    /\ cred' = IF cred = "setup" THEN "free" ELSE cred
    /\ era' = IF mu = "revoke" THEN era + 1 ELSE era
    /\ ceremony' = NoPassword
    /\ UNCHANGED <<diskVars, passkeys, tokens, lost, chosen, clock, keys>>

SesNext ==
    \/ Tick \/ Rotate \/ Publish \/ Login \/ PasskeyLogin \/ Stamp \/ Sign \/ LoginFails
    \/ \E p \in Passwords : Setup(p) \/ Import(p) \/ CliWrites(p)
    \/ RegisterBegin \/ RegisterFinish \/ PasskeyDelete
    \/ SetupRemoves \/ SetupRemovesPasskeys \/ SetupWrites \/ SetupFails
    \/ Revoke \/ RevokeFails \/ ImportCommits \/ ImportRollsBack
    \/ CliRemoves \/ CliFails \/ Boot \/ Crash

SesSpec == SesInit /\ [][SesNext]_sesVars

-----------------------------------------------------------------------------
\* "Keeps already-issued sessions valid for their lifetime": until something revokes
\* the sessions, each verifies to its expiry, through any number of rotations and
\* restarts, unless a rolled back import took its key from the disk.
LiveSessionKept ==
    \A token \in tokens :
        up /\ mu = "free" /\ clock < token.exp /\ token.era = era /\ token.key \notin lost
            => Verifies(token)

\* No session issued before a published revocation verifies after it, whatever was
\* rotated, restarted or half set up in between.
RevokedStaysRevoked == \A token \in tokens : token.era < era => ~Verifies(token)

\* Nothing that the password of an import gave access to while it was provisional, a
\* session or a passkey, outlives the import's rollback.
NothingProvisional ==
    gate.by # "import" /\ cred = "free" =>
        /\ \A token \in tokens : Verifies(token) => token.pw \in chosen
        /\ passkeys \ {NoPassword} \subseteq chosen
=============================================================================
