--------------------------- MODULE VaultAccounts ---------------------------
(***************************************************************************)
(* The users of the vault and what authorises them: init tokens, sessions  *)
(* of an unlock and of a recovery, and the master key that is in memory    *)
(* while somebody has unlocked.  Every handler runs                        *)
(* whole under v.mu, except that an unlock releases it before it loads the *)
(* store (VaultStore models what the load does to the index; here it is    *)
(* the index key that counts).  vault.json is written by every handler     *)
(* that changes a user, and a write may fail.                              *)
(*                                                                         *)
(* Passwords and users of the same name are told apart by numbers that are *)
(* drawn from one counter.  A request is one that has its factors right:   *)
(* the challenge, the code, the signature, the password; with one of them  *)
(* wrong a handler only counts the failure.                                *)
(***************************************************************************)
EXTENDS Naturals, FiniteSets

CONSTANTS
    VUser,         \* names
    Token,         \* session tokens, init tokens, and the master keys of unlocks
    NoToken,
    MaxTOTPFails,  \* maxTOTPFails
    MaxFresh,      \* bound of the counter
    MaxSaveFails   \* a write fails while so many numbers are drawn at most, once

ASSUME VaultAssumption ==
    /\ NoToken \notin Token
    /\ MaxTOTPFails \in Nat /\ MaxFresh \in Nat /\ MaxSaveFails \in Nat

VARIABLES
    users,      \* name -> user, for the users there are
    initialized,
    vaultFile,  \* what vault.json holds: users and whether there is a recovery
    vsessions,  \* token -> session
    lapsed,     \* sessions that have expired and are not swept yet
    initTokens, \* token -> init token
    masterKey,  \* the token of the unlock whose key is in memory, or NoToken
    zeroed,     \* keys of loading unlocks that have been overwritten
    loading,
    phase2,     \* token -> where its unlock is after it released v.mu
    indexKey,   \* the store holds the index key
    fresh,      \* the counter
    saveFails,  \* counts the writes that failed, for MaxSaveFails
    unsaved,    \* history: the last write failed and its change stayed in memory
    leaked,     \* history: a lock met an unlock that was loading, or was a removal
    stuck       \* history: an unlock ended after its forced change was not saved

accounts == <<users, initialized, vaultFile, fresh, saveFails, unsaved>>
tokens == <<vsessions, lapsed, initTokens>>
keys == <<masterKey, zeroed, loading, phase2, indexKey, leaked, stuck>>
vaultVars == <<accounts, tokens, keys>>

\* since is history: the last password that was not the forced one of an unlock.
Account == [made : 1..MaxFresh, pw : 1..MaxFresh, since : 1..MaxFresh,
            bound : BOOLEAN, cert : BOOLEAN]
InitToken == [user : VUser, made : 1..MaxFresh, fails : 0..MaxTOTPFails]
Session == [user : VUser, made : 1..MaxFresh, pw : 0..MaxFresh, recovery : BOOLEAN]

Empty == [x \in {} |-> 0]
Partial(f, from, to) == DOMAIN f \subseteq from /\ \A x \in DOMAIN f : f[x] \in to
With(f, x, y) == [z \in DOMAIN f \cup {x} |-> IF z = x THEN y ELSE f[z]]
Without(f, gone) == [z \in DOMAIN f \ gone |-> f[z]]

AccountsTypeOK ==
    /\ Partial(users, VUser, Account) /\ initialized \in BOOLEAN
    /\ Partial(vaultFile.users, VUser, Account) /\ vaultFile.recovery \in BOOLEAN
    /\ fresh \in 1..MaxFresh + 1 /\ saveFails \in 0..1 /\ unsaved \in BOOLEAN
TokensTypeOK ==
    /\ Partial(vsessions, Token, Session) /\ lapsed \subseteq DOMAIN vsessions
    /\ Partial(initTokens, Token, InitToken)
KeysTypeOK ==
    /\ masterKey \in Token \cup {NoToken} /\ zeroed \subseteq Token
    /\ Partial(phase2, Token, {"unwrap", "install", "rest", "failed", "zero"})
    /\ loading \in BOOLEAN /\ indexKey \in BOOLEAN /\ leaked \in BOOLEAN /\ stuck \in BOOLEAN
VaultTypeOK == AccountsTypeOK /\ TokensTypeOK /\ KeysTypeOK

VaultInit ==
    /\ users = Empty /\ initialized = FALSE
    /\ vaultFile = [users |-> Empty, recovery |-> FALSE]
    /\ vsessions = Empty /\ lapsed = {} /\ initTokens = Empty
    /\ masterKey = NoToken /\ zeroed = {} /\ loading = FALSE /\ phase2 = Empty
    /\ indexKey = FALSE
    /\ fresh = 1 /\ saveFails = 0
    /\ unsaved = FALSE /\ leaked = FALSE /\ stuck = FALSE

----------------------------------------------------------------------------
(* vaultState: who may do what.                                            *)

Unlocked == masterKey # NoToken

\* sessionFor: a session that has not expired.
Live(t) == t \in DOMAIN vsessions \ lapsed

\* A live session of an unlock, while the vault is unlocked.
Holds(t) == Unlocked /\ Live(t) /\ ~vsessions[t].recovery

UnlockSessions == {t \in DOMAIN vsessions : ~vsessions[t].recovery}
SessionsOf(u) == {t \in UnlockSessions : vsessions[t].user = u}

\* vaultTarget: the user that a token acts on, and what the token is.
IsInit(t) == t \in DOMAIN initTokens /\ initTokens[t].user \in DOMAIN users
IsSession(t) == /\ Live(t) /\ vsessions[t].user \in DOMAIN users
                /\ vsessions[t].recovery \/ Unlocked
TargetOf(t) == IF IsInit(t) THEN initTokens[t].user ELSE vsessions[t].user

\* A new token is unlike all that are in use.
Unused(t) == t \notin DOMAIN vsessions \cup DOMAIN initTokens \cup DOMAIN phase2 \cup {masterKey}

\* What ZeroBytes(v.masterKey) overwrites is the key of an unlock, which it may
\* still be loading with.
Overwritten == zeroed \cup ({masterKey} \cap DOMAIN phase2)

\* save writes memory as it will be after the handler, or fails.
Saved(us) ==
    /\ vaultFile' = [users |-> us, recovery |-> TRUE]
    /\ unsaved' = FALSE /\ UNCHANGED saveFails
NotSaved ==
    /\ saveFails = 0 /\ fresh <= MaxSaveFails + 1 /\ saveFails' = 1
    /\ UNCHANGED vaultFile
SavesOrKeeps(us) == Saved(us) \/ (NotSaved /\ unsaved' = TRUE)

Draw == fresh <= MaxFresh /\ fresh' = fresh + 1

----------------------------------------------------------------------------
(* Initialisation and users.                                               *)

NewAccount == [made |-> fresh, pw |-> fresh, since |-> fresh, bound |-> FALSE, cert |-> FALSE]

FaultNewUserNoRollback(u, t) ==
    /\ Draw /\ Unused(t)
    /\ LET added == With(users, u, NewAccount)
       IN  \/ /\ Saved(added) /\ users' = added /\ initialized' = TRUE
              /\ initTokens' = With(initTokens, t, [user |-> u, made |-> fresh, fails |-> 0])
           \/ /\ NotSaved /\ users' = added /\ initialized' = TRUE
              /\ UNCHANGED <<unsaved, initTokens>>

\* A user is added and given an init token; if vault.json cannot be written the
\* memory is rolled back.
NewUser(u, t) ==
    /\ Draw /\ Unused(t)
    /\ LET added == With(users, u, NewAccount)
       IN  \/ /\ Saved(added) /\ users' = added /\ initialized' = TRUE
              /\ initTokens' = With(initTokens, t, [user |-> u, made |-> fresh, fails |-> 0])
           \/ NotSaved /\ UNCHANGED <<users, initialized, unsaved, initTokens>>

\* handleVaultInit: the first user, with the keys and the recovery token.
InitVault(u, t) ==
    /\ ~initialized
    /\ NewUser(u, t)
    /\ UNCHANGED <<vsessions, lapsed, keys>>

\* handleVaultUserAdd
AddUser(u, t, by) ==
    /\ Holds(by) /\ u \notin DOMAIN users
    /\ NewUser(u, t)
    /\ UNCHANGED <<vsessions, lapsed, keys>>

FaultRemoveKeepsSessions(u, by) ==
    /\ Holds(by) /\ u \in DOMAIN users /\ Cardinality(DOMAIN users) > 1
    /\ users' = Without(users, {u}) /\ SavesOrKeeps(users')
    /\ vsessions' = Without(vsessions, IF by \in SessionsOf(u) THEN {by} ELSE {}) /\ lapsed' = lapsed \ {by}
    /\ IF UnlockSessions \ SessionsOf(u) = {}
       THEN masterKey' = NoToken /\ zeroed' = Overwritten /\ leaked' = TRUE
       ELSE UNCHANGED <<masterKey, zeroed, leaked>>
    /\ UNCHANGED <<initialized, fresh, initTokens, loading, phase2, indexKey, stuck>>

\* handleVaultUserRemove: not the last user; its sessions go.  Without a session
\* of an unlock the master key goes too, but neither the index key nor loading.
RemoveUser(u, by) ==
    /\ Holds(by) /\ u \in DOMAIN users /\ Cardinality(DOMAIN users) > 1
    /\ users' = Without(users, {u}) /\ SavesOrKeeps(users')
    /\ vsessions' = Without(vsessions, SessionsOf(u)) /\ lapsed' = lapsed \ SessionsOf(u)
    /\ IF UnlockSessions \ SessionsOf(u) = {}
       THEN masterKey' = NoToken /\ zeroed' = Overwritten /\ leaked' = TRUE
       ELSE UNCHANGED <<masterKey, zeroed, leaked>>
    /\ UNCHANGED <<initialized, fresh, initTokens, loading, phase2, indexKey, stuck>>

----------------------------------------------------------------------------
(* The second factors.                                                     *)

\* The code is served while the vault is locked too.
Verifies(t) == IsInit(t) \/ (Live(t) /\ vsessions[t].user \in DOMAIN users)

FaultBoundNotSaved(t) ==
    /\ Verifies(t)
    /\ users' = [users EXCEPT ![TargetOf(t)].bound = TRUE]
    /\ UNCHANGED <<initialized, vaultFile, fresh, saveFails, unsaved, tokens, keys>>

\* handleVaultTOTPVerify with the right code: the token stays for the certificate.
VerifyTOTP(t) ==
    /\ Verifies(t)
    /\ users' = [users EXCEPT ![TargetOf(t)].bound = TRUE] /\ SavesOrKeeps(users')
    /\ UNCHANGED <<initialized, fresh, tokens, keys>>

FaultTOTPTriesUnlimited(t) ==
    /\ IsInit(t)
    /\ initTokens' = [initTokens EXCEPT ![t].fails = @ + 1]
    /\ UNCHANGED <<accounts, vsessions, lapsed, keys>>

\* ... with a wrong one: an init token is withdrawn after maxTOTPFails of them.
FailTOTP(t) ==
    /\ IsInit(t)
    /\ LET fails == initTokens[t].fails + 1
       IN  initTokens' = IF fails >= MaxTOTPFails THEN Without(initTokens, {t})
                         ELSE [initTokens EXCEPT ![t].fails = fails]
    /\ UNCHANGED <<accounts, vsessions, lapsed, keys>>

\* handleVaultTOTPReset: a new secret, not bound yet.
ResetTOTP(t) ==
    /\ ~IsInit(t) /\ IsSession(t)
    /\ users' = [users EXCEPT ![vsessions[t].user].bound = FALSE] /\ SavesOrKeeps(users')
    /\ UNCHANGED <<initialized, fresh, tokens, keys>>

\* handleVaultCert: the init token has then done its work.
BindCert(t) ==
    /\ IsInit(t) \/ IsSession(t)
    /\ users' = [users EXCEPT ![TargetOf(t)].cert = TRUE] /\ SavesOrKeeps(users')
    /\ initTokens' = IF IsInit(t) THEN Without(initTokens, {t}) ELSE initTokens
    /\ UNCHANGED <<initialized, fresh, vsessions, lapsed, keys>>

----------------------------------------------------------------------------
(* Unlocking.                                                              *)

Enter(t, u, pw) ==
    /\ vsessions' = With(vsessions, t,
           [user |-> u, made |-> users[u].made, pw |-> pw, recovery |-> FALSE])
    /\ masterKey' = t /\ loading' = TRUE

\* handleVaultUnlock succeeds: the session, and the master key in place of
\* whatever is there.
Unlock(t, u) ==
    /\ initialized /\ Unused(t)
    /\ u \in DOMAIN users /\ users[u].bound /\ users[u].cert
    /\ Enter(t, u, users[u].pw)
    /\ phase2' = With(phase2, t, "unwrap")
    /\ UNCHANGED <<accounts, lapsed, initTokens, zeroed, indexKey, leaked, stuck>>

\* The same with a forced change of an expired password; the other sessions of the
\* user stay.  If the change is not saved the handler ends here, with the session,
\* the key and loading in place.
UnlockForced(t, u) ==
    /\ initialized /\ Unused(t)
    /\ u \in DOMAIN users /\ users[u].bound /\ users[u].cert
    /\ Draw /\ users' = [users EXCEPT ![u].pw = fresh]
    /\ Enter(t, u, fresh)
    /\ \/ Saved(users') /\ phase2' = With(phase2, t, "unwrap") /\ UNCHANGED stuck
       \/ NotSaved /\ unsaved' = TRUE /\ stuck' = TRUE /\ UNCHANGED phase2
    /\ UNCHANGED <<initialized, lapsed, initTokens, zeroed, indexKey, leaked>>

Phase(t, l) == t \in DOMAIN phase2 /\ phase2[t] = l
To(t, l) == phase2' = [phase2 EXCEPT ![t] = l]

\* vaultStore.load unwraps the index key with the master key of its unlock ...
UnwrapIndexKey(t) ==
    /\ Phase(t, "unwrap")
    /\ To(t, IF t \in zeroed THEN "failed" ELSE "install")
    /\ UNCHANGED <<accounts, tokens, masterKey, zeroed, loading, indexKey, leaked, stuck>>

\* ... and puts it into the store, whatever has happened meanwhile.
InstallIndexKey(t) ==
    /\ Phase(t, "install") /\ To(t, "rest")
    /\ indexKey' = TRUE
    /\ UNCHANGED <<accounts, tokens, masterKey, zeroed, loading, leaked, stuck>>

\* The rest of postUnlockInit succeeds ...
UnlockReady(t) ==
    /\ Phase(t, "rest") /\ phase2' = Without(phase2, {t}) /\ zeroed' = zeroed \ {t}
    /\ loading' = FALSE /\ stuck' = FALSE
    /\ UNCHANGED <<accounts, tokens, masterKey, indexKey, leaked>>

\* ... or fails, as the load may.
UnlockFails(t) ==
    /\ Phase(t, "rest") /\ To(t, "failed")
    /\ UNCHANGED <<accounts, tokens, masterKey, zeroed, loading, indexKey, leaked, stuck>>

\* The session goes and the master key, though it be that of another unlock;
\* then, without v.mu, the index key.
RollbackUnlock(t) ==
    /\ Phase(t, "failed") /\ To(t, "zero")
    /\ vsessions' = Without(vsessions, {t}) /\ lapsed' = lapsed \ {t}
    /\ masterKey' = NoToken /\ zeroed' = Overwritten \ {t}
    /\ loading' = FALSE /\ stuck' = FALSE
    /\ UNCHANGED <<accounts, initTokens, indexKey, leaked>>

RollbackIndexKey(t) ==
    /\ Phase(t, "zero") /\ phase2' = Without(phase2, {t})
    /\ indexKey' = FALSE
    /\ leaked' = (leaked \/ DOMAIN phase2 # {t})
    /\ UNCHANGED <<accounts, tokens, masterKey, zeroed, loading, stuck>>

----------------------------------------------------------------------------
(* Locking.                                                                *)

FaultOnlyMasterKeyGoes ==
    /\ masterKey' = NoToken /\ zeroed' = Overwritten
    /\ leaked' = (DOMAIN phase2 # {}) /\ UNCHANGED indexKey

\* Both keys are overwritten.  An unlock that is loading may put the index key
\* back.
KeysGo ==
    /\ masterKey' = NoToken /\ zeroed' = Overwritten
    /\ indexKey' = FALSE
    /\ leaked' = (DOMAIN phase2 # {})

\* handleVaultLock: the sessions of all unlocks go.
Lock(by) ==
    /\ Holds(by)
    /\ vsessions' = Without(vsessions, UnlockSessions) /\ lapsed' = lapsed \ UnlockSessions
    /\ KeysGo /\ loading' = FALSE /\ stuck' = FALSE
    /\ UNCHANGED <<accounts, initTokens, phase2>>

\* Time passes and a session or an init token expires; a request with the session
\* that comes before renews it (vaultGate).
ExpireSession(t) ==
    /\ Live(t) /\ lapsed' = lapsed \cup {t}
    /\ UNCHANGED <<accounts, vsessions, initTokens, keys>>
ExpireInitToken(t) ==
    /\ t \in DOMAIN initTokens /\ initTokens' = Without(initTokens, {t})
    /\ UNCHANGED <<accounts, vsessions, lapsed, keys>>

\* janitor: what has expired goes, and with the last session of an unlock the keys.
SweepSessions ==
    /\ vsessions' = Without(vsessions, lapsed) /\ lapsed' = {}
    /\ IF Unlocked /\ UnlockSessions \subseteq lapsed THEN KeysGo
       ELSE lapsed # {} /\ UNCHANGED <<masterKey, zeroed, indexKey, leaked>>
    /\ UNCHANGED <<accounts, initTokens, loading, phase2, stuck>>

----------------------------------------------------------------------------
(* Passwords and recovery.                                                 *)

FaultPasswordKeepsSessions(t) ==
    /\ ~IsInit(t) /\ IsSession(t)
    /\ LET u == vsessions[t].user
       IN  /\ Draw
           /\ users' = [users EXCEPT ![u].pw = fresh, ![u].since = fresh] /\ SavesOrKeeps(users')
           /\ vsessions' = [vsessions EXCEPT ![t].pw = fresh]
    /\ UNCHANGED <<initialized, lapsed, initTokens, keys>>

\* handleVaultPassword, by a session that knows the old password or by a recovery:
\* the other sessions of unlocks of this user go.
ChangePassword(t) ==
    /\ ~IsInit(t) /\ IsSession(t)
    /\ LET u == vsessions[t].user
           others == SessionsOf(u) \ {t}
       IN  /\ Draw
           /\ users' = [users EXCEPT ![u].pw = fresh, ![u].since = fresh] /\ SavesOrKeeps(users')
           /\ vsessions' = [s \in DOMAIN vsessions \ others |->
                  IF s = t THEN [vsessions[s] EXCEPT !.pw = fresh] ELSE vsessions[s]]
           /\ lapsed' = lapsed \ others
    /\ UNCHANGED <<initialized, initTokens, keys>>

\* handleVaultRecovery, with the recovery token: it opens nothing but changes of
\* the password, the code and the certificate.
Recover(t, u) ==
    /\ initialized /\ Unused(t) /\ u \in DOMAIN users
    /\ vsessions' = With(vsessions, t, [user |-> u, made |-> users[u].made, pw |-> 0, recovery |-> TRUE])
    /\ UNCHANGED <<accounts, lapsed, initTokens, keys>>

\* The process ends and load reads vault.json.
RestartVault ==
    /\ users' = vaultFile.users /\ initialized' = vaultFile.recovery
    /\ vsessions' = Empty /\ lapsed' = {} /\ initTokens' = Empty
    /\ masterKey' = NoToken /\ zeroed' = {} /\ loading' = FALSE /\ phase2' = Empty
    /\ indexKey' = FALSE
    /\ unsaved' = FALSE /\ leaked' = FALSE /\ stuck' = FALSE
    /\ UNCHANGED <<vaultFile, fresh, saveFails>>

VaultNext ==
    \/ \E t \in Token, u \in VUser :
        \/ InitVault(u, t) \/ Unlock(t, u) \/ UnlockForced(t, u) \/ Recover(t, u)
        \/ RemoveUser(u, t) \/ \E by \in Token : AddUser(u, t, by)
    \/ \E t \in Token :
        \/ VerifyTOTP(t) \/ FailTOTP(t) \/ ResetTOTP(t) \/ BindCert(t)
        \/ UnwrapIndexKey(t) \/ InstallIndexKey(t) \/ UnlockReady(t) \/ UnlockFails(t)
        \/ RollbackUnlock(t) \/ RollbackIndexKey(t)
        \/ Lock(t) \/ ExpireSession(t) \/ ExpireInitToken(t) \/ ChangePassword(t)
    \/ SweepSessions \/ RestartVault

VaultSpec == VaultInit /\ [][VaultNext]_vaultVars

----------------------------------------------------------------------------
(* Properties                                                              *)

\* A session of an unlock is one of a user that is still there, the very one that
\* unlocked.
SessionsFollowUsers ==
    \A t \in UnlockSessions :
        /\ vsessions[t].user \in DOMAIN users
        /\ vsessions[t].made = users[vsessions[t].user].made

\* When nobody has unlocked and no unlock is loading, neither key is in memory,
\* except after a lock that met a load and after the removal of the last user
\* with a session.
LockLeavesNoKeys == ~Unlocked /\ phase2 = Empty => ~indexKey \/ leaked

\* The master key in use is never one that has been overwritten, whichever unlock
\* it came from.
KeyIsUsable == masterKey \notin zeroed

\* vaultGate refuses everything while the vault loads: that ends with the unlocks
\* that load, unless one could not save its forced change.
LoadingEnds == loading => phase2 # Empty \/ stuck

\* What memory says of the users is what a restart finds, unless a handler has
\* answered that it could not save.
AccountsAreDurable == unsaved \/ (vaultFile.users = users /\ vaultFile.recovery = initialized)

\* A change of the password (handleVaultPassword) ends the sessions that were opened
\* with an older one, though a recovery makes it, or memory is ahead of vault.json;
\* only a change that an unlock was forced to make leaves them.
PasswordsEndSessions ==
    \A t \in UnlockSessions : vsessions[t].pw >= users[vsessions[t].user].since

\* The users of the vault, their sessions and the keys.
VaultAccountsHold ==
    /\ SessionsFollowUsers /\ PasswordsEndSessions
    /\ LockLeavesNoKeys /\ KeyIsUsable /\ LoadingEnds
    /\ AccountsAreDurable

----------------------------------------------------------------------------
(* What the code means to keep and does not: a lock leaves no key behind,  *)
(* every token is one of the user it was made for, whoever has a session   *)
(* finds the vault unlocked, and any change of a password ends the         *)
(* sessions of the old one.                                                *)

LocksLeaveNoKeys == ~Unlocked /\ phase2 = Empty => ~indexKey
TokensFollowUsers ==
    /\ \A t \in DOMAIN initTokens : IsInit(t) => initTokens[t].made = users[TargetOf(t)].made
    /\ \A t \in DOMAIN vsessions : IsSession(t) => vsessions[t].made = users[vsessions[t].user].made
SessionsFindItUnlocked == UnlockSessions # {} => Unlocked
AnyChangeEndsSessions ==
    \A t \in UnlockSessions : vsessions[t].pw = users[vsessions[t].user].pw
=============================================================================
