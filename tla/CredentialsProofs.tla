------------------------- MODULE CredentialsProofs -------------------------
(***************************************************************************)
(* Proofs about what guards an account: the accounts of the vault          *)
(* (VaultAccounts), the limiter of the logins (LoginLimiter) and the       *)
(* endpoint permissions (AccountPermissions), for any users, addresses,    *)
(* endpoints, requests and limits.                                         *)
(*                                                                         *)
(* The limiter: what a failure may count beyond its limit is owed by the   *)
(* logins under way, so that the invariant adds those to the count         *)
(* (CountFits).  The permissions: what a request has loaded is as old as   *)
(* the tiers it came through, so that the invariant gives every place of   *)
(* a load its age (PermAgeFits), and says what is current while no load    *)
(* and write overlap (PermCurrent).                                        *)
(***************************************************************************)
EXTENDS MCCredentials, FiniteSetTheorems, TLAPS

----------------------------------------------------------------------------
(* The inductive invariant.                                                *)

\* What an unlock that is on its way owes to the keys.  A key that has been
\* overwritten is one that an unlock is still loading with, and not one whose
\* rollback has only the index key left to take away.  While nobody has unlocked,
\* the index key can only be there if a rollback is about to remove it or a lock
\* has met a load; and what waits for loading to end is an unlock before its
\* rollback.
KeysInv ==
    /\ zeroed \subseteq DOMAIN phase2
    /\ masterKey \notin zeroed
    /\ \A t \in DOMAIN phase2 : phase2[t] = "zero" => t \notin zeroed /\ masterKey # t
    /\ ~Unlocked => \/ leaked
                    \/ \E t \in DOMAIN phase2 : phase2[t] = "zero"
                    \/ DOMAIN phase2 = {} /\ ~indexKey
    /\ loading => stuck \/ \E t \in DOMAIN phase2 : phase2[t] # "zero"

\* There is no user before the vault is initialised, in memory or in vault.json.
UsersInv ==
    /\ ~initialized => DOMAIN users = {}
    /\ ~vaultFile.recovery => DOMAIN vaultFile.users = {}
    /\ AccountsAreDurable

\* The numbers of a user's passwords have been drawn, the forced ones after the last
\* that was not; so it is in vault.json, which a restart reads.
InOrder(us) == \A u \in DOMAIN us : us[u].since <= us[u].pw /\ us[u].pw <= fresh
OrderInv == InOrder(users) /\ InOrder(vaultFile.users)

\* A session of an unlock is of a user there is, and not older than the last change
\* of its password that was not forced.
SessionsInv == SessionsFollowUsers /\ PasswordsEndSessions

VaultInv == VaultTypeOK /\ KeysInv /\ UsersInv /\ OrderInv /\ SessionsInv

----------------------------------------------------------------------------
(* Partial functions.                                                      *)

\* The empty function is one from any set to any set.
LEMMA EmptyIsPartial ==
    ASSUME NEW from, NEW to
    PROVE  Partial(Empty, from, to)
  BY DEF Partial, Empty

\* A value more,
LEMMA WithIsPartial ==
    ASSUME NEW f, NEW from, NEW to, Partial(f, from, to), NEW x \in from, NEW y \in to
    PROVE  Partial(With(f, x, y), from, to)
  BY DEF Partial, With

\* some values less,
LEMMA WithoutIsPartial ==
    ASSUME NEW f, NEW from, NEW to, Partial(f, from, to), NEW gone
    PROVE  Partial(Without(f, gone), from, to)
  BY DEF Partial, Without

\* and a value exchanged keep a partial function one.
LEMMA ExceptIsPartial ==
    ASSUME NEW f, NEW from, NEW to, Partial(f, from, to), NEW x, NEW y \in to
    PROVE  Partial([f EXCEPT ![x] = y], from, to)
  BY DEF Partial

----------------------------------------------------------------------------
(* Type correctness.                                                       *)

\* Nobody has unlocked a vault that has just been made, and nothing is in it.
LEMMA VaultInitTyped == VaultInit => VaultTypeOK
  <1> SUFFICES ASSUME VaultInit PROVE VaultTypeOK
    OBVIOUS
  <1> USE VaultAssumption, EmptyIsPartial DEF VaultInit
  <1>1. AccountsTypeOK
    <2>1. Partial(users, VUser, Account) /\ Partial(vaultFile.users, VUser, Account)
      OBVIOUS
    <2>2. initialized \in BOOLEAN /\ unsaved \in BOOLEAN
      OBVIOUS
    <2>3. vaultFile.recovery \in BOOLEAN
      OBVIOUS
    <2>4. fresh \in 1..MaxFresh + 1 /\ saveFails \in 0..1
      OBVIOUS
    <2> QED
      BY <2>1, <2>2, <2>3, <2>4, Zenon DEF AccountsTypeOK
  <1>2. TokensTypeOK
    BY DEF TokensTypeOK
  <1>3. KeysTypeOK
    <2>1. Partial(phase2, Token, {"unwrap", "install", "rest", "failed", "zero"})
      OBVIOUS
    <2> QED
      BY <2>1 DEF KeysTypeOK
  <1> QED
    BY <1>1, <1>2, <1>3 DEF VaultTypeOK

\* save writes the users of memory, or nothing.
LEMMA SaveIsTyped ==
    ASSUME AccountsTypeOK, NEW us, Partial(us, VUser, Account), SavesOrKeeps(us)
    PROVE  /\ Partial(vaultFile'.users, VUser, Account) /\ vaultFile'.recovery \in BOOLEAN
           /\ saveFails' \in 0..1 /\ unsaved' \in BOOLEAN
  <1>1. CASE Saved(us)
    <2>1. vaultFile'.users = us /\ vaultFile'.recovery = TRUE
      BY <1>1 DEF Saved
    <2> QED
      BY <1>1, <2>1 DEF Saved, AccountsTypeOK
  <1>2. CASE NotSaved /\ unsaved' = TRUE
    BY <1>2 DEF NotSaved, AccountsTypeOK
  <1> QED
    BY <1>1, <1>2, Zenon DEF SavesOrKeeps

\* A new user is one of the type.
LEMMA NewUserIsTyped ==
    ASSUME VaultTypeOK, NEW t \in Token, NEW u \in VUser, NewUser(u, t)
    PROVE  AccountsTypeOK' /\ Partial(initTokens', Token, InitToken)
  <1> DEFINE account == NewAccount
             added == With(users, u, account)
             token == [user |-> u, made |-> fresh, fails |-> 0]
  <1>1. fresh \in 1..MaxFresh /\ fresh' \in 1..MaxFresh + 1
    BY VaultAssumption DEF NewUser, Draw, VaultTypeOK, AccountsTypeOK
  <1>2. account \in Account /\ token \in InitToken
    BY VaultAssumption, <1>1 DEF NewAccount, Account, InitToken
  <1>3. Partial(added, VUser, Account)
    BY <1>2, WithIsPartial, Zenon DEF VaultTypeOK, AccountsTypeOK
  <1>4. Partial(With(initTokens, t, token), Token, InitToken)
    BY <1>2, WithIsPartial, Zenon DEF VaultTypeOK, TokensTypeOK
  <1>5. CASE /\ Saved(added) /\ users' = added /\ initialized' = TRUE
             /\ initTokens' = With(initTokens, t, token)
    <2>1. SavesOrKeeps(added)
      BY <1>5 DEF SavesOrKeeps
    <2> QED
      BY <1>1, <1>3, <1>4, <1>5, <2>1, SaveIsTyped DEF VaultTypeOK, AccountsTypeOK
  <1>6. CASE NotSaved /\ UNCHANGED <<users, initialized, unsaved, initTokens>>
    BY <1>1, <1>6 DEF NotSaved, VaultTypeOK, AccountsTypeOK, TokensTypeOK
  <1> QED
    BY <1>5, <1>6, Zenon DEF NewUser

\* A handler that saves other values of the users, all of them of the type.
LEMMA AccountsChangeTyped ==
    ASSUME AccountsTypeOK, Partial(users', VUser, Account), SavesOrKeeps(users'),
           initialized' = initialized, fresh' \in 1..MaxFresh + 1
    PROVE  AccountsTypeOK'
  BY SaveIsTyped DEF AccountsTypeOK

\* A user whose password is exchanged is still one.
LEMMA PasswordChangeTyped ==
    ASSUME AccountsTypeOK, NEW u, NEW n \in 1..MaxFresh
    PROVE  /\ Partial([users EXCEPT ![u].pw = n], VUser, Account)
           /\ Partial([users EXCEPT ![u].pw = n, ![u].since = n], VUser, Account)
  BY DEF AccountsTypeOK, Partial, Account

\* What an action does to the users and to vault.json keeps them in their types:
\* a handler either leaves them alone or changes what is of a type already.
LEMMA AccountsTyped ==
    ASSUME VaultTypeOK, VaultNext
    PROVE  AccountsTypeOK'
  <1> USE VaultAssumption DEF VaultTypeOK, accounts, tokens, keys
  <1>1. ASSUME UNCHANGED accounts PROVE AccountsTypeOK'
    BY <1>1 DEF AccountsTypeOK
  <1>2. ASSUME NEW t \in Token, NEW u \in VUser, NEW by \in Token,
               InitVault(u, t) \/ AddUser(u, t, by)
        PROVE  AccountsTypeOK'
    BY <1>2, NewUserIsTyped DEF InitVault, AddUser
  <1>3. ASSUME NEW t \in Token, NEW u \in VUser, RemoveUser(u, t) PROVE AccountsTypeOK'
    <2>1. Partial(users', VUser, Account)
      BY <1>3, WithoutIsPartial DEF RemoveUser, AccountsTypeOK
    <2> QED
      BY <1>3, <2>1, AccountsChangeTyped DEF RemoveUser, AccountsTypeOK
  <1>4. ASSUME NEW t \in Token, VerifyTOTP(t) \/ ResetTOTP(t) \/ BindCert(t)
        PROVE  AccountsTypeOK'
    <2>1. ASSUME VerifyTOTP(t) PROVE Partial(users', VUser, Account)
      BY <2>1 DEF VerifyTOTP, AccountsTypeOK, Partial, Account
    <2>2. ASSUME ResetTOTP(t) PROVE Partial(users', VUser, Account)
      BY <2>2, ZenonT(60) DEF ResetTOTP, AccountsTypeOK, Partial, Account
    <2>3. ASSUME BindCert(t) PROVE Partial(users', VUser, Account)
      BY <2>3 DEF BindCert, AccountsTypeOK, Partial, Account
    <2>4. Partial(users', VUser, Account)
      BY <1>4, <2>1, <2>2, <2>3
    <2> QED
      BY <1>4, <2>4, AccountsChangeTyped DEF VerifyTOTP, ResetTOTP, BindCert, AccountsTypeOK
  <1>5. ASSUME NEW t \in Token, NEW u \in VUser, UnlockForced(t, u) PROVE AccountsTypeOK'
    <2>1. Draw /\ users' = [users EXCEPT ![u].pw = fresh]
      BY <1>5 DEF UnlockForced
    <2>2. fresh \in 1..MaxFresh /\ fresh' \in 1..MaxFresh + 1
      BY <2>1 DEF Draw, AccountsTypeOK
    <2>3. Partial(users', VUser, Account)
      BY <2>1, <2>2, PasswordChangeTyped
    <2>4. SavesOrKeeps(users') /\ initialized' = initialized
      BY <1>5 DEF UnlockForced, SavesOrKeeps
    <2> QED
      BY <2>2, <2>3, <2>4, AccountsChangeTyped
  <1>6. ASSUME NEW t \in Token, ChangePassword(t) PROVE AccountsTypeOK'
    <2>1. PICK u : /\ Draw /\ users' = [users EXCEPT ![u].pw = fresh, ![u].since = fresh]
                   /\ SavesOrKeeps(users')
      BY <1>6 DEF ChangePassword
    <2>2. fresh \in 1..MaxFresh /\ fresh' \in 1..MaxFresh + 1
      BY <2>1 DEF Draw, AccountsTypeOK
    <2>3. Partial(users', VUser, Account)
      BY <2>1, <2>2, PasswordChangeTyped
    <2> QED
      BY <1>6, <2>1, <2>2, <2>3, AccountsChangeTyped DEF ChangePassword
  <1>7. ASSUME RestartVault PROVE AccountsTypeOK'
    BY <1>7 DEF RestartVault, AccountsTypeOK
  <1>8. ASSUME NEW t \in Token, NEW u \in VUser, Unlock(t, u) \/ Recover(t, u)
        PROVE  UNCHANGED accounts
    BY <1>8 DEF Unlock, Recover
  <1>9. ASSUME NEW t \in Token,
               \/ FailTOTP(t) \/ UnwrapIndexKey(t) \/ InstallIndexKey(t) \/ UnlockReady(t)
               \/ UnlockFails(t) \/ RollbackUnlock(t) \/ RollbackIndexKey(t) \/ Lock(t)
               \/ ExpireSession(t) \/ ExpireInitToken(t)
        PROVE  UNCHANGED accounts
    BY <1>9 DEF FailTOTP, UnwrapIndexKey, InstallIndexKey, UnlockReady, UnlockFails,
         RollbackUnlock, RollbackIndexKey, Lock, ExpireSession, ExpireInitToken
  <1>10. ASSUME SweepSessions PROVE UNCHANGED accounts
    BY <1>10 DEF SweepSessions
  <1> QED
    BY <1>1, <1>2, <1>3, <1>4, <1>5, <1>6, <1>7, <1>8, <1>9, <1>10, Zenon DEF VaultNext

\* Fewer sessions, of which those that have lapsed are still the same.
LEMMA FewerSessionsTyped ==
    ASSUME TokensTypeOK, NEW gone, vsessions' = Without(vsessions, gone),
           lapsed' = lapsed \ gone, UNCHANGED initTokens
    PROVE  TokensTypeOK'
  BY WithoutIsPartial DEF TokensTypeOK, Without

\* The session of an unlock is one of the type.
LEMMA EnterTyped ==
    ASSUME VaultTypeOK, NEW t \in Token, NEW u \in DOMAIN users, NEW pw \in 1..MaxFresh,
           Enter(t, u, pw), UNCHANGED <<lapsed, initTokens>>
    PROVE  TokensTypeOK'
  <1>1. [user |-> u, made |-> users[u].made, pw |-> pw, recovery |-> FALSE] \in Session
    BY DEF VaultTypeOK, AccountsTypeOK, Partial, Account, Session
  <1>2. Partial(vsessions', Token, Session)
    BY <1>1, WithIsPartial DEF Enter, VaultTypeOK, TokensTypeOK
  <1>3. lapsed' \subseteq DOMAIN vsessions'
    BY DEF Enter, With, VaultTypeOK, TokensTypeOK
  <1> QED
    BY <1>2, <1>3 DEF VaultTypeOK, TokensTypeOK

\* The tokens of sessions and of initialisations keep to their types.
LEMMA TokensTyped ==
    ASSUME VaultTypeOK, VaultNext
    PROVE  TokensTypeOK'
  <1> USE VaultAssumption DEF VaultTypeOK
  <1>1. ASSUME UNCHANGED tokens PROVE TokensTypeOK'
    BY <1>1 DEF TokensTypeOK, tokens
  <1>2. ASSUME NEW t \in Token, NEW u \in VUser, NEW by \in Token,
               InitVault(u, t) \/ AddUser(u, t, by)
        PROVE  TokensTypeOK'
    BY <1>2, NewUserIsTyped DEF InitVault, AddUser, TokensTypeOK
  <1>3. ASSUME NEW t \in Token, NEW u \in VUser, RemoveUser(u, t) PROVE TokensTypeOK'
    BY <1>3, FewerSessionsTyped DEF RemoveUser
  <1>4. ASSUME NEW t \in Token, FailTOTP(t) PROVE TokensTypeOK'
    <2>1. CASE initTokens[t].fails + 1 >= MaxTOTPFails
      BY <1>4, <2>1, WithoutIsPartial DEF FailTOTP, TokensTypeOK
    <2>2. CASE ~(initTokens[t].fails + 1 >= MaxTOTPFails)
      <3>1. initTokens[t].fails + 1 \in 0..MaxTOTPFails
        BY <1>4, <2>2 DEF FailTOTP, IsInit, TokensTypeOK, Partial, InitToken
      <3>2. initTokens' = [initTokens EXCEPT ![t].fails = initTokens[t].fails + 1]
        BY <1>4, <2>2 DEF FailTOTP
      <3> QED
        <4>1. Partial(initTokens', Token, InitToken)
          BY <3>1, <3>2 DEF TokensTypeOK, Partial, InitToken
        <4> QED
          BY <1>4, <4>1 DEF FailTOTP, TokensTypeOK
    <2> QED
      BY <2>1, <2>2
  <1>5. ASSUME NEW t \in Token, BindCert(t) PROVE TokensTypeOK'
    BY <1>5, WithoutIsPartial DEF BindCert, TokensTypeOK
  <1>6. ASSUME NEW t \in Token, NEW u \in VUser, Unlock(t, u) PROVE TokensTypeOK'
    <2>1. users[u].pw \in 1..MaxFresh
      BY <1>6 DEF Unlock, AccountsTypeOK, Partial, Account
    <2> QED
      BY <1>6, <2>1, EnterTyped DEF Unlock
  <1>7. ASSUME NEW t \in Token, NEW u \in VUser, UnlockForced(t, u) PROVE TokensTypeOK'
    <2>1. fresh \in 1..MaxFresh
      BY <1>7 DEF UnlockForced, Draw, AccountsTypeOK
    <2> QED
      BY <1>7, <2>1, EnterTyped DEF UnlockForced
  <1>8. ASSUME NEW t \in Token, RollbackUnlock(t) PROVE TokensTypeOK'
    BY <1>8, FewerSessionsTyped DEF RollbackUnlock
  <1>9. ASSUME NEW t \in Token, Lock(t) PROVE TokensTypeOK'
    BY <1>9, FewerSessionsTyped DEF Lock
  <1>10. ASSUME NEW t \in Token, ExpireSession(t) PROVE TokensTypeOK'
    BY <1>10 DEF ExpireSession, Live, TokensTypeOK
  <1>11. ASSUME NEW t \in Token, ExpireInitToken(t) PROVE TokensTypeOK'
    BY <1>11, WithoutIsPartial DEF ExpireInitToken, TokensTypeOK
  <1>12. ASSUME NEW t \in Token, ChangePassword(t) PROVE TokensTypeOK'
    <2>1. fresh \in 1..MaxFresh
      BY <1>12 DEF ChangePassword, Draw, AccountsTypeOK
    <2> QED
      <3>1. Partial(vsessions', Token, Session)
        BY <1>12, <2>1 DEF ChangePassword, TokensTypeOK, Partial, Session
      <3>2. lapsed' \subseteq DOMAIN vsessions'
        BY <1>12 DEF ChangePassword, TokensTypeOK
      <3>3. UNCHANGED initTokens
        BY <1>12 DEF ChangePassword
      <3> QED
        BY <3>1, <3>2, <3>3 DEF TokensTypeOK
  <1>13. ASSUME NEW t \in Token, NEW u \in VUser, Recover(t, u) PROVE TokensTypeOK'
    <2>1. [user |-> u, made |-> users[u].made, pw |-> 0, recovery |-> TRUE] \in Session
      BY <1>13 DEF Recover, AccountsTypeOK, Partial, Account, Session
    <2>2. Partial(vsessions', Token, Session)
      BY <1>13, <2>1, WithIsPartial DEF Recover, TokensTypeOK
    <2>3. lapsed' \subseteq DOMAIN vsessions'
      BY <1>13 DEF Recover, TokensTypeOK, With
    <2> QED
      BY <1>13, <2>2, <2>3 DEF Recover, TokensTypeOK
  <1>14. ASSUME SweepSessions PROVE TokensTypeOK'
    BY <1>14, FewerSessionsTyped DEF SweepSessions
  <1>15. ASSUME RestartVault PROVE TokensTypeOK'
    BY <1>15, EmptyIsPartial DEF RestartVault, TokensTypeOK
  <1>16. ASSUME NEW t \in Token,
                \/ VerifyTOTP(t) \/ ResetTOTP(t) \/ UnwrapIndexKey(t) \/ InstallIndexKey(t)
                \/ UnlockReady(t) \/ UnlockFails(t) \/ RollbackIndexKey(t)
         PROVE  UNCHANGED tokens
    BY <1>16 DEF VerifyTOTP, ResetTOTP, UnwrapIndexKey, InstallIndexKey, UnlockReady,
         UnlockFails, RollbackIndexKey
  <1> QED
    BY <1>1, <1>2, <1>3, <1>4, <1>5, <1>6, <1>7, <1>8, <1>9, <1>10, <1>11, <1>12, <1>13,
       <1>14, <1>15, <1>16, Zenon DEF VaultNext

\* The unlocks that are loading, and the keys, keep to their types.
LEMMA KeysTyped ==
    ASSUME VaultTypeOK, VaultNext
    PROVE  KeysTypeOK'
  <1> USE VaultAssumption DEF VaultTypeOK
  <1>1. ASSUME UNCHANGED keys PROVE KeysTypeOK'
    BY <1>1 DEF KeysTypeOK, keys
  <1>2. ASSUME NEW t \in Token, NEW u \in VUser, RemoveUser(u, t) PROVE KeysTypeOK'
    BY <1>2 DEF RemoveUser, Overwritten, KeysTypeOK, Partial
  <1>3. ASSUME NEW t \in Token, NEW u \in VUser, Unlock(t, u) PROVE KeysTypeOK'
    BY <1>3, WithIsPartial DEF Unlock, Enter, KeysTypeOK
  <1>4. ASSUME NEW t \in Token, NEW u \in VUser, UnlockForced(t, u) PROVE KeysTypeOK'
    BY <1>4, WithIsPartial DEF UnlockForced, Enter, KeysTypeOK
  <1>5. ASSUME NEW t \in Token, UnwrapIndexKey(t) \/ InstallIndexKey(t) \/ UnlockFails(t)
        PROVE  KeysTypeOK'
    <2>1. PICK l \in {"install", "rest", "failed"} : To(t, l)
      BY <1>5 DEF UnwrapIndexKey, InstallIndexKey, UnlockFails
    <2> QED
      BY <1>5, <2>1, ExceptIsPartial DEF To, UnwrapIndexKey, InstallIndexKey, UnlockFails, KeysTypeOK
  <1>6. ASSUME NEW t \in Token, UnlockReady(t) PROVE KeysTypeOK'
    BY <1>6, WithoutIsPartial DEF UnlockReady, KeysTypeOK
  <1>7. ASSUME NEW t \in Token, RollbackIndexKey(t) PROVE KeysTypeOK'
    BY <1>7, WithoutIsPartial DEF RollbackIndexKey, KeysTypeOK
  <1>8. ASSUME NEW t \in Token, RollbackUnlock(t) PROVE KeysTypeOK'
    BY <1>8, ExceptIsPartial DEF RollbackUnlock, To, Overwritten, KeysTypeOK, Partial
  <1>9. ASSUME NEW t \in Token, Lock(t) PROVE KeysTypeOK'
    BY <1>9 DEF Lock, KeysGo, Overwritten, KeysTypeOK, Partial
  <1>10. ASSUME SweepSessions PROVE KeysTypeOK'
    BY <1>10 DEF SweepSessions, KeysGo, Overwritten, KeysTypeOK, Partial
  <1>11. ASSUME RestartVault PROVE KeysTypeOK'
    BY <1>11, EmptyIsPartial DEF RestartVault, KeysTypeOK
  <1>12. ASSUME NEW t \in Token, NEW u \in VUser, NEW by \in Token,
                InitVault(u, t) \/ AddUser(u, t, by) \/ Recover(t, u)
         PROVE  UNCHANGED keys
    BY <1>12 DEF InitVault, AddUser, Recover
  <1>13. ASSUME NEW t \in Token,
                \/ VerifyTOTP(t) \/ FailTOTP(t) \/ ResetTOTP(t) \/ BindCert(t)
                \/ ExpireSession(t) \/ ExpireInitToken(t) \/ ChangePassword(t)
         PROVE  UNCHANGED keys
    BY <1>13 DEF VerifyTOTP, FailTOTP, ResetTOTP, BindCert, ExpireSession, ExpireInitToken,
         ChangePassword
  <1> QED
    BY <1>1, <1>2, <1>3, <1>4, <1>5, <1>6, <1>7, <1>8, <1>9, <1>10, <1>11, <1>12, <1>13, Zenon
    DEF VaultNext

\* Every variable of the vault's accounts keeps to its type.
THEOREM VaultTypeCorrect == VaultSpec => []VaultTypeOK
  <1>1. VaultTypeOK /\ [VaultNext]_vaultVars => VaultTypeOK'
    <2>1. CASE VaultTypeOK /\ VaultNext
      BY <2>1, AccountsTyped, TokensTyped, KeysTyped DEF VaultTypeOK
    <2>2. CASE VaultTypeOK /\ UNCHANGED vaultVars
      BY <2>2 DEF VaultTypeOK, AccountsTypeOK, TokensTypeOK, KeysTypeOK,
           vaultVars, accounts, tokens, keys
    <2> QED
      BY <2>1, <2>2
  <1> QED
    BY VaultInitTyped, <1>1, PTL DEF VaultSpec

----------------------------------------------------------------------------
(* The keys.                                                               *)

\* What overwrites the key in memory leaves every key that is overwritten one of
\* an unlock on its way, and none of them past its rollback.
LEMMA OverwrittenFacts ==
    ASSUME VaultTypeOK, KeysInv
    PROVE  /\ Overwritten \subseteq DOMAIN phase2
           /\ Overwritten \subseteq Token
           /\ NoToken \notin Overwritten
           /\ \A t \in DOMAIN phase2 : phase2[t] = "zero" => t \notin Overwritten
  BY VaultAssumption DEF VaultTypeOK, KeysTypeOK, KeysInv, Partial, Overwritten

\* When the keys go, they are gone, or there is an unlock that a lock has met.
LEMMA KeysGoFacts ==
    ASSUME KeysGo
    PROVE  /\ leaked' \in BOOLEAN /\ indexKey' \in BOOLEAN
           /\ leaked' \/ (DOMAIN phase2 = {} /\ ~indexKey')
           /\ masterKey' = NoToken /\ zeroed' = Overwritten
  BY DEF KeysGo

\* Every unlock, lock and rollback keeps KeysInv.
LEMMA KeysKept ==
    ASSUME VaultTypeOK, KeysInv, VaultNext
    PROVE  KeysInv'
  <1> DEFINE over == Overwritten
  <1>0. /\ over \subseteq DOMAIN phase2 /\ over \subseteq Token /\ NoToken \notin over
        /\ \A t \in DOMAIN phase2 : phase2[t] = "zero" => t \notin over
    BY OverwrittenFacts
  <1> USE VaultAssumption DEF VaultTypeOK, KeysTypeOK, KeysInv, Unlocked, Partial
  <1>1. ASSUME UNCHANGED keys PROVE KeysInv'
    BY <1>1 DEF keys
  <1>2. ASSUME NEW t \in Token, NEW u \in VUser, RemoveUser(u, t) PROVE KeysInv'
    BY <1>2, <1>0 DEF RemoveUser
  <1>3. ASSUME NEW t \in Token, NEW u \in VUser, Unlock(t, u) PROVE KeysInv'
    BY <1>3 DEF Unlock, Enter, Unused, With
  <1>4. ASSUME NEW t \in Token, NEW u \in VUser, UnlockForced(t, u) PROVE KeysInv'
    BY <1>4 DEF UnlockForced, Enter, Unused, With
  <1>5. ASSUME NEW t \in Token, UnwrapIndexKey(t) PROVE KeysInv'
    BY <1>5 DEF UnwrapIndexKey, Phase, To, tokens
  <1>6. ASSUME NEW t \in Token, InstallIndexKey(t) PROVE KeysInv'
    BY <1>6 DEF InstallIndexKey, Phase, To, tokens
  <1>7. ASSUME NEW t \in Token, UnlockFails(t) PROVE KeysInv'
    BY <1>7 DEF UnlockFails, Phase, To, tokens
  <1>8. ASSUME NEW t \in Token, UnlockReady(t) PROVE KeysInv'
    BY <1>8 DEF UnlockReady, Phase, Without, tokens
  <1>9. ASSUME NEW t \in Token, RollbackUnlock(t) PROVE KeysInv'
    BY <1>9, <1>0 DEF RollbackUnlock, Phase, To
  <1>10. ASSUME NEW t \in Token, RollbackIndexKey(t) PROVE KeysInv'
    BY <1>10 DEF RollbackIndexKey, Phase, Without
  <1>11. ASSUME NEW t \in Token, Lock(t) PROVE KeysInv'
    BY <1>11, <1>0, KeysGoFacts DEF Lock
  <1>12. ASSUME SweepSessions PROVE KeysInv'
    BY <1>12, <1>0, KeysGoFacts DEF SweepSessions
  <1>13. ASSUME RestartVault PROVE KeysInv'
    BY <1>13 DEF RestartVault, Empty
  <1>14. ASSUME NEW t \in Token, NEW u \in VUser, NEW by \in Token,
                InitVault(u, t) \/ AddUser(u, t, by) \/ Recover(t, u)
         PROVE  UNCHANGED keys
    BY <1>14 DEF InitVault, AddUser, Recover
  <1>15. ASSUME NEW t \in Token,
                \/ VerifyTOTP(t) \/ FailTOTP(t) \/ ResetTOTP(t) \/ BindCert(t)
                \/ ExpireSession(t) \/ ExpireInitToken(t) \/ ChangePassword(t)
         PROVE  UNCHANGED keys
    BY <1>15 DEF VerifyTOTP, FailTOTP, ResetTOTP, BindCert, ExpireSession, ExpireInitToken,
         ChangePassword
  <1> QED
    BY <1>1, <1>2, <1>3, <1>4, <1>5, <1>6, <1>7, <1>8, <1>9, <1>10, <1>11, <1>12, <1>13,
       <1>14, <1>15, Zenon DEF VaultNext

----------------------------------------------------------------------------
(* The users and vault.json.                                               *)

\* A handler that saves what it has made of the users leaves memory and file
\* alike, or says that it could not.
LEMMA SaveIsDurable ==
    ASSUME VaultTypeOK, UsersInv, initialized, SavesOrKeeps(users'), UNCHANGED initialized
    PROVE  UsersInv'
  <1>1. CASE Saved(users')
    <2>1. vaultFile'.users = users' /\ vaultFile'.recovery = TRUE
      BY <1>1 DEF Saved
    <2>2. initialized = TRUE
      BY DEF VaultTypeOK, AccountsTypeOK
    <2> QED
      BY <2>1, <2>2 DEF UsersInv, AccountsAreDurable
  <1>2. CASE NotSaved /\ unsaved' = TRUE
    BY <1>2 DEF NotSaved, UsersInv, AccountsAreDurable
  <1> QED
    BY <1>1, <1>2, Zenon DEF SavesOrKeeps

\* So does a new user, whose handler rolls memory back.
LEMMA NewUserIsDurable ==
    ASSUME VaultTypeOK, UsersInv, NEW t \in Token, NEW u \in VUser, NewUser(u, t)
    PROVE  UsersInv'
  <1>1. \/ users' = vaultFile'.users /\ vaultFile'.recovery = TRUE /\ initialized' = TRUE
        \/ UNCHANGED <<users, vaultFile, initialized, unsaved>>
    BY DEF NewUser, Saved, NotSaved
  <1> QED
    BY <1>1 DEF UsersInv, AccountsAreDurable

\* Every handler keeps UsersInv.
LEMMA UsersKept ==
    ASSUME VaultTypeOK, UsersInv, VaultNext
    PROVE  UsersInv'
  <1>1. ASSUME UNCHANGED accounts PROVE UsersInv'
    BY <1>1 DEF accounts, UsersInv, AccountsAreDurable
  <1>2. ASSUME NEW u \in DOMAIN users PROVE initialized
    BY <1>2 DEF UsersInv, VaultTypeOK, AccountsTypeOK
  <1>3. ASSUME NEW t \in Token, NEW u \in VUser, NEW by \in Token,
               InitVault(u, t) \/ AddUser(u, t, by)
        PROVE  UsersInv'
    BY <1>3, NewUserIsDurable DEF InitVault, AddUser
  <1>4. ASSUME NEW t \in Token, NEW u \in VUser, RemoveUser(u, t) PROVE UsersInv'
    BY <1>2, <1>4, SaveIsDurable DEF RemoveUser
  <1>5. ASSUME NEW t \in Token, VerifyTOTP(t) PROVE UsersInv'
    BY <1>2, <1>5, SaveIsDurable DEF VerifyTOTP, Verifies, TargetOf, IsInit
  <1>6. ASSUME NEW t \in Token, ResetTOTP(t) PROVE UsersInv'
    BY <1>2, <1>6, SaveIsDurable DEF ResetTOTP, IsSession
  <1>7. ASSUME NEW t \in Token, BindCert(t) PROVE UsersInv'
    BY <1>2, <1>7, SaveIsDurable DEF BindCert, IsInit, IsSession
  <1>8. ASSUME NEW t \in Token, NEW u \in VUser, UnlockForced(t, u) PROVE UsersInv'
    <2>1. SavesOrKeeps(users')
      BY <1>8 DEF UnlockForced, SavesOrKeeps
    <2> QED
      BY <1>2, <1>8, <2>1, SaveIsDurable DEF UnlockForced
  <1>9. ASSUME NEW t \in Token, ChangePassword(t) PROVE UsersInv'
    BY <1>2, <1>9, SaveIsDurable DEF ChangePassword, IsSession
  <1>10. ASSUME RestartVault PROVE UsersInv'
    BY <1>10 DEF RestartVault, UsersInv, AccountsAreDurable
  <1>11. ASSUME NEW t \in Token, NEW u \in VUser, Unlock(t, u) \/ Recover(t, u)
         PROVE  UNCHANGED accounts
    BY <1>11 DEF Unlock, Recover
  <1>12. ASSUME NEW t \in Token,
                \/ FailTOTP(t) \/ UnwrapIndexKey(t) \/ InstallIndexKey(t) \/ UnlockReady(t)
                \/ UnlockFails(t) \/ RollbackUnlock(t) \/ RollbackIndexKey(t) \/ Lock(t)
                \/ ExpireSession(t) \/ ExpireInitToken(t)
         PROVE  UNCHANGED accounts
    BY <1>12 DEF FailTOTP, UnwrapIndexKey, InstallIndexKey, UnlockReady, UnlockFails,
         RollbackUnlock, RollbackIndexKey, Lock, ExpireSession, ExpireInitToken
  <1>13. ASSUME SweepSessions PROVE UNCHANGED accounts
    BY <1>13 DEF SweepSessions
  <1> QED
    BY <1>1, <1>3, <1>4, <1>5, <1>6, <1>7, <1>8, <1>9, <1>10, <1>11, <1>12, <1>13, Zenon
    DEF VaultNext

----------------------------------------------------------------------------
(* The order of the passwords.                                             *)

\* The counter only grows.
LEMMA FreshGrows ==
    ASSUME VaultTypeOK, VaultNext
    PROVE  fresh' \in Nat /\ fresh \in Nat /\ fresh <= fresh'
  <1>0. fresh \in Nat
    BY VaultAssumption DEF VaultTypeOK, AccountsTypeOK
  <1>1. fresh' = fresh \/ fresh' = fresh + 1
    BY DEF VaultNext, InitVault, AddUser, NewUser, RemoveUser, Unlock, UnlockForced, Recover,
       VerifyTOTP, FailTOTP, ResetTOTP, BindCert, UnwrapIndexKey, InstallIndexKey, UnlockReady,
       UnlockFails, RollbackUnlock, RollbackIndexKey, Lock, ExpireSession, ExpireInitToken,
       ChangePassword, SweepSessions, RestartVault, Draw, accounts
  <1> QED BY <1>0, <1>1

\* What is saved, and what is not, is in order.
LEMMA SaveInOrder ==
    ASSUME VaultTypeOK, OrderInv, fresh' \in Nat, fresh <= fresh', NEW us, Partial(us, VUser, Account),
           \A u \in DOMAIN us : us[u].since <= us[u].pw /\ us[u].pw <= fresh',
           users' = us, vaultFile'.users = us \/ UNCHANGED vaultFile
    PROVE  OrderInv'
  <1>0. fresh \in Nat
    BY VaultAssumption DEF VaultTypeOK, AccountsTypeOK
  <1>1. CASE vaultFile'.users = us
    BY <1>1 DEF OrderInv, InOrder
  <1>2. CASE UNCHANGED vaultFile
    <2>1. \A u \in DOMAIN vaultFile.users :
             /\ vaultFile.users[u].pw \in Nat /\ vaultFile.users[u].since <= vaultFile.users[u].pw
             /\ vaultFile.users[u].pw <= fresh
      BY DEF OrderInv, InOrder, VaultTypeOK, AccountsTypeOK, Partial, Account
    <2> QED
      BY <1>0, <1>2, <2>1 DEF OrderInv, InOrder
  <1> QED BY <1>1, <1>2

\* The users that stay as they are, are in order however far the counter is.
LEMMA SameInOrder ==
    ASSUME VaultTypeOK, OrderInv, fresh' \in Nat, fresh <= fresh',
           users' = users, UNCHANGED vaultFile
    PROVE  OrderInv'
  <1>0. fresh \in Nat
    BY VaultAssumption DEF VaultTypeOK, AccountsTypeOK
  <1>1. \A u \in DOMAIN users :
           users[u].pw \in Nat /\ users[u].since <= users[u].pw /\ users[u].pw <= fresh
    BY DEF OrderInv, InOrder, VaultTypeOK, AccountsTypeOK, Partial, Account
  <1>2. \A u \in DOMAIN users : users[u].since <= users[u].pw /\ users[u].pw <= fresh'
    BY <1>0, <1>1
  <1>3. Partial(users, VUser, Account)
    BY DEF VaultTypeOK, AccountsTypeOK
  <1> QED BY <1>2, <1>3, SaveInOrder

\* Every handler draws a number above those that are there.
LEMMA OrderKept ==
    ASSUME VaultTypeOK, OrderInv, VaultNext
    PROVE  OrderInv'
  <1>0. fresh' \in Nat /\ fresh \in Nat /\ fresh <= fresh'
    BY FreshGrows
  <1>1. \A u \in DOMAIN users :
           /\ users[u] \in Account /\ users[u].pw \in Nat /\ users[u].since \in Nat
           /\ users[u].since <= users[u].pw /\ users[u].pw <= fresh
    BY DEF OrderInv, InOrder, VaultTypeOK, AccountsTypeOK, Partial, Account
  <1>2. Partial(users', VUser, Account)
    BY AccountsTyped DEF AccountsTypeOK
  <1>3. ASSUME UNCHANGED <<users, vaultFile>> PROVE OrderInv'
    BY <1>0, <1>3, SameInOrder
  <1>4. ASSUME NEW t \in Token, NEW u \in VUser, NewUser(u, t) PROVE OrderInv'
    <2>1. CASE UNCHANGED <<users, vaultFile>>
      BY <2>1, <1>3
    <2>2. CASE users' = With(users, u, NewAccount) /\ vaultFile'.users = users'
      <3>1. \A v \in DOMAIN users' : users'[v].since <= users'[v].pw /\ users'[v].pw <= fresh'
        BY <1>0, <1>1, <2>2 DEF With, NewAccount
      <3> QED BY <1>0, <1>2, <2>2, <3>1, SaveInOrder
    <2> QED BY <1>4, <2>1, <2>2 DEF NewUser, Saved, NotSaved
  <1>5. ASSUME SavesOrKeeps(users'),
               \A u \in DOMAIN users' : users'[u].since <= users'[u].pw /\ users'[u].pw <= fresh'
        PROVE  OrderInv'
    <2>1. vaultFile'.users = users' \/ UNCHANGED vaultFile
      BY <1>5 DEF SavesOrKeeps, Saved, NotSaved
    <2> QED BY <1>0, <1>2, <1>5, <2>1, SaveInOrder
  <1>6. ASSUME NEW t \in Token, NEW u \in VUser, RemoveUser(u, t) PROVE OrderInv'
    <2>1. SavesOrKeeps(users') /\ users' = Without(users, {u})
      BY <1>6 DEF RemoveUser
    <2> QED BY <1>0, <1>1, <1>5, <2>1 DEF Without
  <1>7. ASSUME NEW t \in Token, VerifyTOTP(t) \/ ResetTOTP(t) \/ BindCert(t) PROVE OrderInv'
    <2>1. SavesOrKeeps(users') /\ DOMAIN users' = DOMAIN users
      BY <1>7 DEF VerifyTOTP, ResetTOTP, BindCert
    <2>2. \A v \in DOMAIN users : users'[v].since = users[v].since /\ users'[v].pw = users[v].pw
      BY <1>1, <1>7 DEF VerifyTOTP, ResetTOTP, BindCert, Account
    <2>3. \A v \in DOMAIN users' : users'[v].since <= users'[v].pw /\ users'[v].pw <= fresh'
      BY <1>0, <1>1, <2>1, <2>2
    <2> QED BY <1>5, <2>1, <2>3
  <1>8. ASSUME NEW t \in Token, NEW u \in VUser, UnlockForced(t, u) PROVE OrderInv'
    <2>1. SavesOrKeeps(users') /\ users' = [users EXCEPT ![u].pw = fresh]
      BY <1>8 DEF UnlockForced, SavesOrKeeps
    <2>2. DOMAIN users' = DOMAIN users
      BY <2>1
    <2>3. \A v \in DOMAIN users : /\ users'[v].since = users[v].since
                                  /\ users'[v].pw = IF v = u THEN fresh ELSE users[v].pw
      BY <1>1, <2>1 DEF Account
    <2>4. \A v \in DOMAIN users' : users'[v].since <= users'[v].pw /\ users'[v].pw <= fresh'
      BY <1>0, <1>1, <2>2, <2>3
    <2> QED BY <1>5, <2>1, <2>4
  <1>9. ASSUME NEW t \in Token, ChangePassword(t) PROVE OrderInv'
    <2>1. PICK u : SavesOrKeeps(users') /\ users' = [users EXCEPT ![u].pw = fresh, ![u].since = fresh]
      BY <1>9 DEF ChangePassword
    <2>2. DOMAIN users' = DOMAIN users
      BY <2>1
    <2>3. \A v \in DOMAIN users : /\ users'[v].since = IF v = u THEN fresh ELSE users[v].since
                                  /\ users'[v].pw = IF v = u THEN fresh ELSE users[v].pw
      BY <1>1, <2>1 DEF Account
    <2>4. \A v \in DOMAIN users' : users'[v].since <= users'[v].pw /\ users'[v].pw <= fresh'
      BY <1>0, <1>1, <2>2, <2>3
    <2> QED BY <1>5, <2>1, <2>4
  <1>10. ASSUME RestartVault PROVE OrderInv'
    BY <1>10 DEF RestartVault, OrderInv, InOrder
  <1>11. ASSUME NEW t \in Token, NEW u \in VUser, NEW by \in Token,
                InitVault(u, t) \/ AddUser(u, t, by)
         PROVE  OrderInv'
    BY <1>4, <1>11 DEF InitVault, AddUser
  <1>12. ASSUME NEW t \in Token, NEW u \in VUser, Unlock(t, u) \/ Recover(t, u)
         PROVE  UNCHANGED <<users, vaultFile>>
    BY <1>12 DEF Unlock, Recover, accounts
  <1>13. ASSUME NEW t \in Token,
                \/ FailTOTP(t) \/ UnwrapIndexKey(t) \/ InstallIndexKey(t) \/ UnlockReady(t)
                \/ UnlockFails(t) \/ RollbackUnlock(t) \/ RollbackIndexKey(t) \/ Lock(t)
                \/ ExpireSession(t) \/ ExpireInitToken(t)
         PROVE  UNCHANGED <<users, vaultFile>>
    BY <1>13 DEF FailTOTP, UnwrapIndexKey, InstallIndexKey, UnlockReady, UnlockFails,
         RollbackUnlock, RollbackIndexKey, Lock, ExpireSession, ExpireInitToken, accounts
  <1>14. ASSUME SweepSessions PROVE UNCHANGED <<users, vaultFile>>
    BY <1>14 DEF SweepSessions, accounts
  <1> QED
    BY <1>3, <1>6, <1>7, <1>8, <1>9, <1>10, <1>11, <1>12, <1>13, <1>14, Zenon DEF VaultNext

----------------------------------------------------------------------------
(* The sessions.                                                           *)

\* Users that are the same to the sessions: nobody is gone, made anew or given
\* another password that was not forced.
SameUsers ==
    /\ DOMAIN users \subseteq DOMAIN users'
    /\ \A u \in DOMAIN users : users'[u].made = users[u].made /\ users'[u].since = users[u].since

\* Without a new session of an unlock or a change of one, and with the same users,
\* SessionsInv stays.
LEMMA FewerSessionsFollow ==
    ASSUME SessionsInv, SameUsers,
           DOMAIN vsessions' \subseteq DOMAIN vsessions,
           \A t \in DOMAIN vsessions' : vsessions'[t] = vsessions[t]
    PROVE  SessionsInv'
  BY DEF SessionsInv, SameUsers, SessionsFollowUsers, PasswordsEndSessions, UnlockSessions

\* An unlock leaves the other sessions as they are, and its own is of a password
\* that is not too old.
LEMMA EnterFollows ==
    ASSUME SessionsInv, SameUsers, NEW u \in DOMAIN users, NEW pw, pw >= users[u].since,
           NEW t, Enter(t, u, pw)
    PROVE  SessionsInv'
  <1>1. SUFFICES ASSUME NEW s \in UnlockSessions'
                 PROVE  /\ vsessions'[s].user \in DOMAIN users'
                        /\ vsessions'[s].made = users'[vsessions'[s].user].made
                        /\ vsessions'[s].pw >= users'[vsessions'[s].user].since
    BY DEF SessionsInv, SessionsFollowUsers, PasswordsEndSessions
  <1>2. CASE s = t
    BY <1>2 DEF Enter, With, SameUsers
  <1>3. CASE s # t
    <2>1. vsessions'[s] = vsessions[s] /\ s \in UnlockSessions
      BY <1>3 DEF Enter, With, UnlockSessions
    <2> QED
      BY <2>1 DEF SameUsers, SessionsInv, SessionsFollowUsers, PasswordsEndSessions
  <1> QED
    BY <1>2, <1>3

\* Every handler keeps SessionsInv.
LEMMA SessionsKept ==
    ASSUME VaultTypeOK, UsersInv, OrderInv, SessionsInv, VaultNext
    PROVE  SessionsInv'
  <1>1. ASSUME UNCHANGED <<users, vsessions>> PROVE SessionsInv'
    BY <1>1, FewerSessionsFollow DEF SameUsers
  <1>2. ASSUME NEW t \in Token, NEW u \in VUser, InitVault(u, t) PROVE SessionsInv'
    <2>1. DOMAIN users = {}
      BY <1>2 DEF InitVault, UsersInv
    <2> QED
      BY <1>2, <2>1, FewerSessionsFollow DEF InitVault, SameUsers
  <1>3. ASSUME NEW t \in Token, NEW u \in VUser, NEW by \in Token, AddUser(u, t, by)
        PROVE  SessionsInv'
    <2>1. SameUsers /\ UNCHANGED vsessions
      BY <1>3 DEF AddUser, NewUser, With, SameUsers
    <2> QED
      BY <2>1, FewerSessionsFollow
  <1>4. ASSUME NEW t \in Token, NEW u \in VUser, RemoveUser(u, t) PROVE SessionsInv'
    BY <1>4 DEF RemoveUser, Without, SessionsInv, SessionsFollowUsers, PasswordsEndSessions,
         UnlockSessions, SessionsOf
  <1>5. ASSUME NEW t \in Token, VerifyTOTP(t) \/ ResetTOTP(t) \/ BindCert(t)
        PROVE  SessionsInv'
    <2>1. UNCHANGED vsessions
      BY <1>5 DEF VerifyTOTP, ResetTOTP, BindCert, tokens
    <2>2. SameUsers
      BY <1>5 DEF VerifyTOTP, ResetTOTP, BindCert, SameUsers, VaultTypeOK, AccountsTypeOK,
           Partial, Account
    <2> QED
      BY <2>1, <2>2, FewerSessionsFollow
  <1>6. ASSUME NEW t \in Token, NEW u \in VUser, Unlock(t, u) PROVE SessionsInv'
    <2>1. u \in DOMAIN users /\ Enter(t, u, users[u].pw) /\ UNCHANGED users
      BY <1>6 DEF Unlock, accounts
    <2>2. users[u].pw >= users[u].since
      BY <2>1 DEF OrderInv, InOrder, VaultTypeOK, AccountsTypeOK, Partial, Account
    <2> QED
      BY <2>1, <2>2, EnterFollows DEF SameUsers
  <1>7. ASSUME NEW t \in Token, NEW u \in VUser, UnlockForced(t, u) PROVE SessionsInv'
    <2>1. u \in DOMAIN users /\ Enter(t, u, fresh) /\ users' = [users EXCEPT ![u].pw = fresh]
      BY <1>7 DEF UnlockForced
    <2>2. SameUsers
      BY <2>1 DEF SameUsers, VaultTypeOK, AccountsTypeOK, Partial, Account
    <2>3. fresh >= users[u].since
      BY <2>1, VaultAssumption DEF OrderInv, InOrder, VaultTypeOK, AccountsTypeOK, Partial, Account
    <2> QED
      BY <2>1, <2>2, <2>3, EnterFollows
  <1>8. ASSUME NEW t \in Token, RollbackUnlock(t) \/ Lock(t) PROVE SessionsInv'
    BY <1>8, FewerSessionsFollow DEF RollbackUnlock, Lock, Without, accounts, SameUsers
  <1>9. ASSUME SweepSessions PROVE SessionsInv'
    BY <1>9, FewerSessionsFollow DEF SweepSessions, Without, accounts, SameUsers
  <1>10. ASSUME NEW t \in Token, ChangePassword(t) PROVE SessionsInv'
    <2>0. PICK u : u = vsessions[t].user
      OBVIOUS
    <2> DEFINE others == SessionsOf(u) \ {t}
    <2>1. /\ t \in DOMAIN vsessions /\ u \in DOMAIN users
          /\ users' = [users EXCEPT ![u].pw = fresh, ![u].since = fresh]
          /\ vsessions' = [s \in DOMAIN vsessions \ others |->
                 IF s = t THEN [vsessions[s] EXCEPT !.pw = fresh] ELSE vsessions[s]]
      BY <1>10, <2>0 DEF ChangePassword, IsSession, Live
    <2>2. /\ DOMAIN users' = DOMAIN users
          /\ \A v \in DOMAIN users : users'[v].made = users[v].made
          /\ \A v \in DOMAIN users : users'[v].since = IF v = u THEN fresh ELSE users[v].since
      BY <2>1 DEF VaultTypeOK, AccountsTypeOK, Partial, Account
    <2>3. ASSUME NEW s \in UnlockSessions'
          PROVE  /\ vsessions'[s].user \in DOMAIN users'
                 /\ vsessions'[s].made = users'[vsessions'[s].user].made
                 /\ vsessions'[s].pw >= users'[vsessions'[s].user].since
      <3>1. s \in DOMAIN vsessions \ others /\ ~vsessions'[s].recovery
        BY <2>1 DEF UnlockSessions
      <3>2. CASE s = t
        <4>1. /\ vsessions'[s].user = u /\ vsessions'[s].pw = fresh
              /\ vsessions'[s].made = vsessions[t].made
              /\ vsessions'[s].recovery = vsessions[t].recovery
          BY <2>0, <2>1, <3>1, <3>2 DEF VaultTypeOK, TokensTypeOK, Partial, Session
        <4>2. vsessions[t].made = users[u].made
          BY <2>0, <2>1, <3>1, <3>2, <4>1 DEF SessionsInv, SessionsFollowUsers, UnlockSessions
        <4>3. fresh >= fresh
          BY VaultAssumption DEF VaultTypeOK, AccountsTypeOK
        <4> QED
          BY <2>1, <2>2, <4>1, <4>2, <4>3
      <3>3. CASE s # t
        <4>1. vsessions'[s] = vsessions[s] /\ s \in UnlockSessions /\ vsessions[s].user # u
          BY <2>1, <3>1, <3>3 DEF UnlockSessions, SessionsOf
        <4> QED
          BY <2>2, <4>1 DEF SessionsInv, SessionsFollowUsers, PasswordsEndSessions
      <3> QED
        BY <3>2, <3>3
    <2> QED
      BY <2>3 DEF SessionsInv, SessionsFollowUsers, PasswordsEndSessions
  <1>11. ASSUME NEW t \in Token, NEW u \in VUser, Recover(t, u) PROVE SessionsInv'
    BY <1>11 DEF Recover, With, accounts, SessionsInv, SessionsFollowUsers,
         PasswordsEndSessions, UnlockSessions
  <1>12. ASSUME RestartVault PROVE SessionsInv'
    BY <1>12 DEF RestartVault, Empty, SessionsInv, SessionsFollowUsers,
         PasswordsEndSessions, UnlockSessions
  <1>13. ASSUME NEW t \in Token,
                \/ FailTOTP(t) \/ UnwrapIndexKey(t) \/ InstallIndexKey(t) \/ UnlockReady(t)
                \/ UnlockFails(t) \/ RollbackIndexKey(t) \/ ExpireSession(t)
                \/ ExpireInitToken(t)
         PROVE  UNCHANGED <<users, vsessions>>
    BY <1>13 DEF FailTOTP, UnwrapIndexKey, InstallIndexKey, UnlockReady, UnlockFails,
         RollbackIndexKey, ExpireSession, ExpireInitToken, accounts, tokens
  <1> QED
    BY <1>1, <1>2, <1>3, <1>4, <1>5, <1>6, <1>7, <1>8, <1>9, <1>10, <1>11, <1>12, <1>13,
       Zenon DEF VaultNext

----------------------------------------------------------------------------
(* The invariant of the accounts.                                          *)

\* A vault that has just been made has neither users, nor sessions, nor keys.
LEMMA VaultInitInv == VaultInit => KeysInv /\ UsersInv /\ OrderInv /\ SessionsInv
  <1> SUFFICES ASSUME VaultInit PROVE KeysInv /\ UsersInv /\ OrderInv /\ SessionsInv
    OBVIOUS
  <1> USE DEF VaultInit, Empty
  <1>1. KeysInv
    BY DEF KeysInv, Unlocked
  <1>2. UsersInv
    <2>1. vaultFile.users = Empty /\ vaultFile.recovery = FALSE
      OBVIOUS
    <2> QED
      BY <2>1 DEF UsersInv, AccountsAreDurable
  <1>3. SessionsInv
    BY DEF SessionsInv, SessionsFollowUsers, PasswordsEndSessions, UnlockSessions
  <1>4. OrderInv
    <2>1. vaultFile.users = Empty
      OBVIOUS
    <2> QED
      BY <2>1 DEF OrderInv, InOrder
  <1> QED
    BY <1>1, <1>2, <1>3, <1>4

\* VaultInv is inductive.
LEMMA VaultInvInductive ==
    /\ VaultInit => VaultInv
    /\ VaultInv /\ [VaultNext]_vaultVars => VaultInv'
  <1>1. VaultInit => VaultInv
    BY VaultInitTyped, VaultInitInv DEF VaultInv
  <1>2. ASSUME VaultInv, VaultNext PROVE VaultInv'
    BY <1>2, AccountsTyped, TokensTyped, KeysTyped, KeysKept, UsersKept, OrderKept, SessionsKept
    DEF VaultInv, VaultTypeOK
  <1>3. ASSUME VaultInv, UNCHANGED vaultVars PROVE VaultInv'
    BY <1>3 DEF VaultInv, VaultTypeOK, AccountsTypeOK, TokensTypeOK, KeysTypeOK, KeysInv,
         Unlocked, UsersInv, AccountsAreDurable, OrderInv, InOrder, SessionsInv, SessionsFollowUsers,
         PasswordsEndSessions, UnlockSessions, vaultVars, accounts, tokens, keys
  <1> QED
    BY <1>1, <1>2, <1>3

\* What the run checks of the vault's accounts holds for any users and tokens: a
\* session is of a user there is and as new as the last password that was not forced on an unlock, a lock leaves no key
\* behind but in the windows named, the key in use is never one that was
\* overwritten, loading ends, and a restart finds the users of memory.
THEOREM VaultAccountsSafe == VaultSpec => []VaultAccountsHold
  <1>1. VaultInv => VaultAccountsHold
    BY DEF VaultInv, KeysInv, UsersInv, SessionsInv, VaultAccountsHold, LockLeavesNoKeys,
         KeyIsUsable, LoadingEnds, Empty
  <1> QED
    BY VaultInvInductive, <1>1, PTL DEF VaultSpec

----------------------------------------------------------------------------
(* The limiter: the inductive invariant.                                   *)

\* The logins under way that are counted under a key.
Under(k) == {l \in Login : k \in Keys(l)}

\* A login under way has a pair and its address.
AttemptInv ==
    \A l \in Login :
        /\ attempt[l].pc = "out" => Keys(l) = {}
        /\ Keys(l) = {} \/ \E u \in User, a \in Address : Keys(l) = {<<u, a>>, a}

\* A lock ends before its entry is stale.
LockAgeInv ==
    \A k \in DOMAIN loginFails :
        loginFails[k].left > 0 => loginFails[k].age + loginFails[k].left <= 2 * Window

\* How far a count is beyond its limit.  What locks a key within its window leaves as
\* many failures as there are other logins; when the lock ends with the window, every
\* login may count once more; past it a failure begins a new window.
CountFits(k) ==
    loginFails[k].count >= Limit(k) =>
        /\ Window <= loginFails[k].age + loginFails[k].left
        /\ loginFails[k].age < Window =>
             loginFails[k].count + Cardinality(Under(k)) < Limit(k) + Cardinality(Login)
        /\ loginFails[k].age = Window /\ loginFails[k].left = 0 =>
             loginFails[k].count < Limit(k) + Cardinality(Login)
        /\ loginFails[k].age = Window /\ loginFails[k].left > 0 =>
             loginFails[k].count + Cardinality(Under(k)) < Limit(k) + 2 * Cardinality(Login)
        /\ loginFails[k].count < Limit(k) + 2 * Cardinality(Login)
CountInv == \A k \in DOMAIN loginFails : CountFits(k)

\* The invariant of the limiter.
LimiterInv ==
    /\ LimiterTypeOK /\ AttemptInv /\ IsFiniteSet(DOMAIN loginFails) /\ TableIsBounded
    /\ LockAgeInv /\ LockHolds /\ CountInv

\* The bounds are numbers.
LEMMA LimitsAre ==
    /\ MaxKeys \in Nat /\ MaxKeys >= 2 /\ Window \in Nat /\ Window >= 1 /\ MaxCount \in Nat /\ MaxCount >= 1
    /\ \A k : Limit(k) \in Nat /\ Limit(k) >= 1
    /\ IsFiniteSet(Login) /\ Cardinality(Login) \in Nat
<1>1. IsFiniteSet(Login) /\ Cardinality(Login) \in Nat
  BY LimiterAssumption, FS_CardinalityType
<1> QED BY <1>1, LimiterAssumption DEF Limit

\* So is the number of logins under a key, which is no more than all of them.
LEMMA UnderIs ==
    ASSUME NEW k
    PROVE  /\ IsFiniteSet(Under(k)) /\ Cardinality(Under(k)) \in Nat
           /\ Cardinality(Under(k)) <= Cardinality(Login)
<1>1. Under(k) \subseteq Login
  BY DEF Under
<1> QED BY <1>1, LimitsAre, FS_Subset, FS_CardinalityType

\* What the types say of an entry.
LEMMA EntrySays ==
    ASSUME NEW e \in Entry
    PROVE  e.age \in Nat /\ e.count \in Nat /\ e.left \in Nat
           /\ e.age <= MaxWindowAge /\ e.count <= MaxCount /\ e.left <= Window
BY LimitsAre DEF Entry, MaxWindowAge

\* What is kept follows from the invariant.
LEMMA LimiterInvHolds == LimiterInv => LimiterTypeOK /\ LimiterHolds
<1> SUFFICES ASSUME LimiterInv PROVE LimiterTypeOK /\ LimiterHolds
  OBVIOUS
<1>1. CountIsBounded
  <2> SUFFICES ASSUME NEW k \in DOMAIN loginFails
               PROVE  loginFails[k].count < Limit(k) + 2 * Cardinality(Login)
    BY DEF CountIsBounded
  <2>1. loginFails[k] \in Entry /\ CountFits(k)
    BY DEF LimiterInv, LimiterTypeOK, CountInv
  <2>2. loginFails[k].count \in Nat
    BY <2>1, EntrySays
  <2> QED BY <2>1, <2>2, LimitsAre DEF CountFits
<1> QED BY <1>1 DEF LimiterInv, LimiterHolds

\* The table is empty at first.
LEMMA LimiterBegins == LimiterInit => LimiterInv
<1> SUFFICES ASSUME LimiterInit PROVE LimiterInv
  OBVIOUS
<1>1. DOMAIN loginFails = {}
  BY DEF LimiterInit
<1>2. LimiterTypeOK
  BY <1>1, LimitsAre DEF LimiterInit, LimiterTypeOK, Out
<1>3. AttemptInv
  BY DEF LimiterInit, AttemptInv, Out, Keys
<1>4. IsFiniteSet(DOMAIN loginFails) /\ Cardinality(DOMAIN loginFails) = 0
  BY <1>1, FS_EmptySet
<1>5. TableIsBounded
  BY <1>4, LimitsAre DEF TableIsBounded
<1>6. LockAgeInv /\ CountInv
  BY <1>1 DEF LockAgeInv, CountInv
<1>7. LockHolds
  BY LimitsAre DEF LimiterInit, LockHolds
<1> QED BY <1>2, <1>3, <1>4, <1>5, <1>6, <1>7 DEF LimiterInv

----------------------------------------------------------------------------
(* The limiter: its steps.                                                 *)

\* An entry that stays as it was still fits when no login has come to it.
LEMMA CountStays ==
    ASSUME NEW k, CountFits(k), loginFails'[k] = loginFails[k], loginFails[k] \in Entry,
           Cardinality(Under(k))' \in Nat, Cardinality(Under(k))' <= Cardinality(Under(k))
    PROVE  CountFits(k)'
<1>1. loginFails[k].count \in Nat /\ loginFails[k].age \in Nat /\ loginFails[k].left \in Nat
  BY EntrySays
<1>2. Cardinality(Under(k)) \in Nat
  BY UnderIs
<1>3. Limit(k) \in Nat /\ Cardinality(Login) \in Nat /\ Window \in Nat
  BY LimitsAre
<1> QED BY <1>1, <1>2, <1>3 DEF CountFits

\* A table that only loses entries keeps what is said of those it has.
LEMMA TableShrinks ==
    ASSUME LimiterInv, NEW D, D \subseteq DOMAIN loginFails,
           loginFails' = [k \in D |-> loginFails[k]],
           \A l \in Login : Keys(l)' \subseteq Keys(l)
    PROVE  /\ DOMAIN loginFails' \subseteq Key /\ \A k \in DOMAIN loginFails' : loginFails'[k] \in Entry
           /\ IsFiniteSet(DOMAIN loginFails)' /\ TableIsBounded' /\ LockAgeInv' /\ CountInv'
<1>1. DOMAIN loginFails' = D /\ \A k \in D : loginFails'[k] = loginFails[k]
  OBVIOUS
<1>2. DOMAIN loginFails' \subseteq Key /\ \A k \in DOMAIN loginFails' : loginFails'[k] \in Entry
  BY <1>1 DEF LimiterInv, LimiterTypeOK
<1>3. IsFiniteSet(D) /\ Cardinality(D) <= Cardinality(DOMAIN loginFails)
  BY FS_Subset DEF LimiterInv
<1>4. IsFiniteSet(DOMAIN loginFails)' /\ TableIsBounded'
  <2>1. Cardinality(D) \in Nat /\ Cardinality(DOMAIN loginFails) \in Nat
    BY <1>3, FS_CardinalityType DEF LimiterInv
  <2>2. Cardinality(DOMAIN loginFails) <= MaxKeys + 1
    BY DEF LimiterInv, TableIsBounded
  <2> QED BY <1>1, <1>3, <2>1, <2>2, LimitsAre DEF TableIsBounded
<1>5. LockAgeInv'
  BY <1>1 DEF LimiterInv, LockAgeInv
<1>6. CountInv'
  <2> SUFFICES ASSUME NEW k \in D PROVE CountFits(k)'
    BY <1>1 DEF CountInv
  <2>1. CountFits(k) /\ loginFails'[k] = loginFails[k] /\ loginFails[k] \in Entry
    BY <1>1 DEF LimiterInv, LimiterTypeOK, CountInv
  <2>2. Under(k)' \subseteq Under(k)
    BY DEF Under
  <2>3. IsFiniteSet(Under(k)) /\ Cardinality(Under(k)) \in Nat
    BY UnderIs
  <2>4. Cardinality(Under(k)') <= Cardinality(Under(k)) /\ Cardinality(Under(k)') \in Nat
    BY <2>2, <2>3, FS_Subset, FS_CardinalityType
  <2> QED BY <2>1, <2>4, CountStays
<1> QED BY <1>2, <1>4, <1>5, <1>6

\* handleAccountLogin asks: neither key is locked, so that a count beyond the limit has
\* no lock left, and those who come now are counted in the last part of CountFits.
LEMMA AskKeeps ==
    ASSUME LimiterInv, NEW l \in Login, NEW u \in User, NEW a \in Address, Ask(l, u, a)
    PROVE  LimiterInv'
<1> DEFINE asked == {<<u, a>>, a}
<1>1. /\ attempt' = [attempt EXCEPT ![l] = [pc |-> "asked", keys |-> asked, ticked |-> FALSE]]
      /\ loginFails' = loginFails /\ lockLeft' = lockLeft /\ crossed' = crossed
      /\ \A k \in asked : ~Blocked(k)
  BY DEF Ask
<1>2. asked \subseteq Key
  BY DEF Key
<1>3. LimiterTypeOK'
  BY <1>1, <1>2 DEF LimiterInv, LimiterTypeOK
<1>4. Keys(l)' = asked /\ attempt'[l].pc = "asked"
      /\ \A o \in Login \ {l} : attempt'[o] = attempt[o] /\ Keys(o)' = Keys(o)
  BY <1>1 DEF LimiterInv, LimiterTypeOK, Keys
<1>5. AttemptInv'
  <2> SUFFICES ASSUME NEW o \in Login
               PROVE  /\ attempt'[o].pc = "out" => Keys(o)' = {}
                      /\ Keys(o)' = {} \/ \E usr \in User, adr \in Address : Keys(o)' = {<<usr, adr>>, adr}
    BY DEF AttemptInv
  <2>1. CASE o = l
    BY <2>1, <1>4
  <2>2. CASE o # l
    BY <2>2, <1>4 DEF LimiterInv, AttemptInv
  <2> QED BY <2>1, <2>2
<1>6. (IsFiniteSet(DOMAIN loginFails) /\ TableIsBounded /\ LockAgeInv /\ LockHolds)'
  BY <1>1 DEF LimiterInv, TableIsBounded, LockAgeInv, LockHolds, Blocked
<1>7. CountInv'
  <2> SUFFICES ASSUME NEW k \in DOMAIN loginFails PROVE CountFits(k)'
    BY <1>1 DEF CountInv
  <2>1. CountFits(k) /\ loginFails'[k] = loginFails[k] /\ loginFails[k] \in Entry
    BY <1>1 DEF LimiterInv, LimiterTypeOK, CountInv
  <2>2. CASE k \in asked
    <3>1. loginFails[k].left = 0
      BY <2>1, <2>2, <1>1, EntrySays DEF Blocked
    <3>2. loginFails[k].age \in Nat /\ Window \in Nat
      BY <2>1, EntrySays, LimitsAre
    <3>3. loginFails[k].count >= Limit(k) => ~(loginFails[k].age < Window)
      BY <2>1, <3>1, <3>2 DEF CountFits
    <3> QED BY <2>1, <3>1, <3>2, <3>3 DEF CountFits
  <2>3. CASE k \notin asked
    <3>1. Under(k)' \subseteq Under(k)
      BY <1>4, <2>3 DEF Under
    <3>2. IsFiniteSet(Under(k)) /\ Cardinality(Under(k)) \in Nat
      BY UnderIs
    <3>3. Cardinality(Under(k)') <= Cardinality(Under(k)) /\ Cardinality(Under(k)') \in Nat
      BY <3>1, <3>2, FS_Subset, FS_CardinalityType
    <3> QED BY <2>1, <3>3, CountStays
  <2> QED BY <2>2, <2>3
<1> QED BY <1>3, <1>5, <1>6, <1>7 DEF LimiterInv

\* A key that no lock was imposed on, or whose lock is over, is not locked for LockHolds.
LEMMA LockIsOver ==
    ASSUME LimiterInv, NEW k \in Key \ crossed, ~Blocked(k)
    PROVE  lockLeft[k] = 0
<1>1. lockLeft[k] \in Nat
  BY LimitsAre DEF LimiterInv, LimiterTypeOK
<1> QED BY <1>1 DEF LimiterInv, LockHolds

\* purgeLoginFails takes no lock away: a locked entry is not stale.
LEMMA PurgeKeeps == ASSUME LimiterInv, NEW l \in Login, PurgeLoginFails(l) PROVE LimiterInv'
<1>1. /\ attempt[l].pc = "asked" /\ attempt' = [attempt EXCEPT ![l].pc = "purged"]
      /\ loginFails' = [k \in DOMAIN loginFails \ Stale |-> loginFails[k]]
      /\ lockLeft' = lockLeft /\ crossed' = crossed
  BY DEF PurgeLoginFails, Dropping
<1>2. \A o \in Login : Keys(o)' = Keys(o) /\ (attempt'[o].pc = "out" => attempt[o].pc = "out")
  BY <1>1 DEF LimiterInv, LimiterTypeOK, Keys
<1>3. /\ DOMAIN loginFails' \subseteq Key /\ \A k \in DOMAIN loginFails' : loginFails'[k] \in Entry
      /\ IsFiniteSet(DOMAIN loginFails)' /\ TableIsBounded' /\ LockAgeInv' /\ CountInv'
  <2>1. DOMAIN loginFails \ Stale \subseteq DOMAIN loginFails
    OBVIOUS
  <2> QED BY <2>1, <1>1, <1>2, TableShrinks
<1>4. LimiterTypeOK'
  BY <1>1, <1>3 DEF LimiterInv, LimiterTypeOK
<1>5. AttemptInv'
  BY <1>2 DEF LimiterInv, AttemptInv
<1>6. LockHolds'
  <2> SUFFICES ASSUME NEW k \in Key \ crossed, lockLeft[k] > 0
               PROVE  Blocked(k)' /\ loginFails'[k].left = lockLeft[k]
    BY <1>1 DEF LockHolds
  <2>1. Blocked(k) /\ loginFails[k].left = lockLeft[k]
    BY DEF LimiterInv, LockHolds
  <2>2. k \in DOMAIN loginFails /\ loginFails[k] \in Entry /\ loginFails[k].left > 0
    BY <2>1 DEF Blocked, LimiterInv, LimiterTypeOK
  <2>3. loginFails[k].age <= 2 * Window
    BY <2>2, EntrySays, LimitsAre DEF LimiterInv, LockAgeInv
  <2>4. k \notin Stale
    BY <2>2, <2>3, EntrySays, LimitsAre DEF Stale
  <2> QED BY <1>1, <2>1, <2>2, <2>4 DEF Blocked
<1> QED BY <1>3, <1>4, <1>5, <1>6 DEF LimiterInv

\* clearLoginFailures: a lock it takes away is a window.
LEMMA ClearKeeps == ASSUME LimiterInv, NEW l \in Login, ClearFailures(l) PROVE LimiterInv'
<1>1. /\ attempt' = [attempt EXCEPT ![l] = Out]
      /\ loginFails' = [k \in DOMAIN loginFails \ Keys(l) |-> loginFails[k]]
      /\ lockLeft' = lockLeft /\ crossed' = crossed \cup {k \in Keys(l) : Blocked(k)}
  BY DEF ClearFailures, Dropping
<1>2. Keys(l)' = {} /\ \A o \in Login \ {l} : attempt'[o] = attempt[o] /\ Keys(o)' = Keys(o)
  BY <1>1 DEF LimiterInv, LimiterTypeOK, Keys, Out
<1>3. /\ DOMAIN loginFails' \subseteq Key /\ \A k \in DOMAIN loginFails' : loginFails'[k] \in Entry
      /\ IsFiniteSet(DOMAIN loginFails)' /\ TableIsBounded' /\ LockAgeInv' /\ CountInv'
  <2>1. DOMAIN loginFails \ Keys(l) \subseteq DOMAIN loginFails
    OBVIOUS
  <2>2. \A o \in Login : Keys(o)' \subseteq Keys(o)
    BY <1>2
  <2> QED BY <2>1, <2>2, <1>1, TableShrinks
<1>4. LimiterTypeOK'
  <2>1. Keys(l) \subseteq Key
    BY DEF LimiterInv, LimiterTypeOK, Keys
  <2> QED BY <1>1, <1>3, <2>1 DEF LimiterInv, LimiterTypeOK, Out
<1>5. AttemptInv'
  BY <1>2 DEF LimiterInv, AttemptInv
<1>6. LockHolds'
  <2> SUFFICES ASSUME NEW k \in Key \ crossed, ~(k \in Keys(l) /\ Blocked(k)), lockLeft[k] > 0
               PROVE  Blocked(k)' /\ loginFails'[k].left = lockLeft[k]
    BY <1>1 DEF LockHolds
  <2>1. Blocked(k) /\ loginFails[k].left = lockLeft[k]
    BY DEF LimiterInv, LockHolds
  <2> QED BY <1>1, <2>1 DEF Blocked
<1> QED BY <1>3, <1>4, <1>5, <1>6 DEF LimiterInv

\* What one more failure makes of an entry.
LEMMA CountedSays ==
    ASSUME NEW e \in Entry, NEW k, e.left > 0 => e.age + e.left <= 2 * Window, NEW c, c = Counted(e, k)
    PROVE  /\ c.count = IF e.age > Window THEN 1 ELSE e.count + 1
           /\ c.age = IF e.age > Window THEN 0 ELSE e.age
           /\ c.left = IF c.count >= Limit(k) THEN Window ELSE IF e.age > Window THEN 0 ELSE e.left
           /\ e.count < MaxCount => c \in Entry
           /\ c.left > 0 => c.age + c.left <= 2 * Window
<1> DEFINE begun == IF e.age > Window THEN NewEntry ELSE e
<1>1. begun \in Entry /\ e.age \in Nat /\ e.count \in Nat /\ e.left \in Nat
  BY EntrySays, LimitsAre DEF NewEntry, Entry, MaxWindowAge
<1>2. c = [begun EXCEPT !.count = begun.count + 1,
                        !.left = IF begun.count + 1 >= Limit(k) THEN Window ELSE begun.left]
  BY DEF Counted
<1>3. /\ c.count = begun.count + 1 /\ c.age = begun.age
      /\ c.left = IF begun.count + 1 >= Limit(k) THEN Window ELSE begun.left
  BY <1>1, <1>2 DEF Entry
<1>4. begun.count = (IF e.age > Window THEN 0 ELSE e.count) /\ begun.age = (IF e.age > Window THEN 0 ELSE e.age)
      /\ begun.left = (IF e.age > Window THEN 0 ELSE e.left)
  BY DEF NewEntry
<1>5. c.count = (IF e.age > Window THEN 1 ELSE e.count + 1) /\ c.age = (IF e.age > Window THEN 0 ELSE e.age)
      /\ c.left = (IF c.count >= Limit(k) THEN Window ELSE IF e.age > Window THEN 0 ELSE e.left)
  BY <1>3, <1>4
<1>6. e.count < MaxCount => c \in Entry
  <2> SUFFICES ASSUME e.count < MaxCount PROVE c \in Entry
    OBVIOUS
  <2>1. begun.count + 1 \in 0..MaxCount
    BY <1>1, <1>4, LimitsAre
  <2>2. (IF begun.count + 1 >= Limit(k) THEN Window ELSE begun.left) \in 0..Window
    BY <1>1, LimitsAre DEF Entry
  <2> HIDE DEF begun
  <2> QED BY <1>1, <1>2, <2>1, <2>2 DEF Entry
<1>7. c.left > 0 => c.age + c.left <= 2 * Window
  BY <1>1, <1>5, LimitsAre
<1> QED BY <1>5, <1>6, <1>7

\* A full table makes room for one key at least.
LEMMA RoomIsMade ==
    ASSUME LimiterInv, NEW out \in Evicted
    PROVE  /\ IsFiniteSet(DOMAIN loginFails \ out)
           /\ Cardinality(DOMAIN loginFails \ out) \in Nat /\ Cardinality(DOMAIN loginFails \ out) <= MaxKeys - 1
<1> DEFINE D == DOMAIN loginFails
           kept == D \ Stale
           excess == Cardinality(kept) - (MaxKeys - 1)
<1>1. IsFiniteSet(D) /\ Cardinality(D) \in Nat
  BY FS_CardinalityType DEF LimiterInv
<1>2. IsFiniteSet(kept) /\ Cardinality(kept) \in Nat
  BY <1>1, FS_Subset, FS_CardinalityType
<1>3. IsFiniteSet(D \ out)
  BY <1>1, FS_Subset
<1>4. Cardinality(D \ out) \in Nat
  BY <1>3, FS_CardinalityType
<1>5. CASE Cardinality(D) < MaxKeys
  <2>1. out = {}
    BY <1>5 DEF Evicted
  <2> QED BY <1>1, <1>3, <1>5, <2>1, LimitsAre
<1>6. CASE ~(Cardinality(D) < MaxKeys) /\ excess <= 0
  <2>1. out = Stale
    BY <1>6 DEF Evicted
  <2> QED BY <1>2, <1>3, <1>6, <2>1, LimitsAre
<1>7. CASE ~(Cardinality(D) < MaxKeys) /\ ~(excess <= 0)
  <2>1. PICK o \in SUBSET kept : out = Stale \cup o /\ Cardinality(o) = excess
    BY <1>7 DEF Evicted
  <2>2. D \ out = kept \ o
    BY <2>1
  <2>3. Cardinality(kept \ o) = Cardinality(kept) - Cardinality(o)
    <3>1. kept \cap o = o
      OBVIOUS
    <3>2. Cardinality(kept \ o) = Cardinality(kept) - Cardinality(kept \cap o)
      BY <1>2, FS_Difference
    <3> QED BY <3>1, <3>2
  <2>4. Cardinality(kept \ o) = MaxKeys - 1
    <3>1. Cardinality(o) = Cardinality(kept) - (MaxKeys - 1)
      BY <2>1
    <3>2. MaxKeys \in Nat /\ Cardinality(kept) \in Nat
      BY <1>2, LimitsAre
    <3> HIDE DEF kept
    <3> QED BY <2>3, <3>1, <3>2
  <2> QED BY <1>3, <1>4, <2>2, <2>4, LimitsAre
<1> QED BY <1>5, <1>6, <1>7

\* A key of a login that fails is counted once more, and the login with it no longer.
LEMMA KeyIsCounted ==
    ASSUME LimiterInv, NEW l \in Login, NEW k \in Keys(l), NEW e \in Entry,
           e.left > 0 => e.age + e.left <= 2 * Window,
           e = NewEntry \/ (e = loginFails[k] /\ CountFits(k)),
           loginFails'[k] = Counted(e, k), Under(k)' = Under(k) \ {l}
    PROVE  CountFits(k)'
<1> DEFINE c == loginFails'[k]
           m == Cardinality(Under(k))
           N == Cardinality(Login)
<1>1. m \in Nat /\ m >= 1 /\ m <= N /\ Cardinality(Under(k)') = m - 1
  <2>1. l \in Under(k) /\ IsFiniteSet(Under(k)) /\ m \in Nat /\ m <= N
    BY UnderIs DEF Under
  <2>2. Cardinality(Under(k) \ {l}) = m - 1
    BY <2>1, FS_RemoveElement
  <2>3. Cardinality(Under(k) \ {l}) \in Nat
    BY <2>1, FS_Subset, FS_CardinalityType
  <2> QED BY <2>1, <2>2, <2>3
<1>2. /\ c.count = (IF e.age > Window THEN 1 ELSE e.count + 1)
      /\ c.age = (IF e.age > Window THEN 0 ELSE e.age)
      /\ c.left = (IF c.count >= Limit(k) THEN Window ELSE IF e.age > Window THEN 0 ELSE e.left)
  BY CountedSays
<1>3. e.age \in Nat /\ e.count \in Nat /\ e.left \in Nat
  BY EntrySays
<1>4. N \in Nat /\ Window \in Nat /\ Window >= 1 /\ Limit(k) \in Nat /\ Limit(k) >= 1
  BY LimitsAre
<1> SUFFICES ASSUME c.count >= Limit(k)
             PROVE  /\ Window <= c.age + c.left
                    /\ c.age < Window => c.count + (m - 1) < Limit(k) + N
                    /\ c.age = Window /\ c.left = 0 => c.count < Limit(k) + N
                    /\ c.age = Window /\ c.left > 0 => c.count + (m - 1) < Limit(k) + 2 * N
                    /\ c.count < Limit(k) + 2 * N
  BY <1>1 DEF CountFits
<1>5. CASE e.age > Window \/ e = NewEntry
  <2>1. c.count = 1 /\ c.age = 0 /\ c.left = Window
    BY <1>2, <1>3, <1>4, <1>5 DEF NewEntry
  <2> QED BY <2>1, <1>1, <1>4
<1>6. CASE ~(e.age > Window) /\ e = loginFails[k] /\ CountFits(k)
  <2>1. c.count = e.count + 1 /\ c.age = e.age /\ c.left = Window /\ e.age <= Window
    BY <1>2, <1>3, <1>4, <1>6
  <2>2. CASE e.count >= Limit(k)
    <3>1. /\ e.age < Window => e.count + m < Limit(k) + N
          /\ e.age = Window /\ e.left = 0 => e.count < Limit(k) + N
          /\ e.age = Window /\ e.left > 0 => e.count + m < Limit(k) + 2 * N
      BY <1>6, <2>2 DEF CountFits
    <3> QED BY <1>1, <1>3, <1>4, <2>1, <3>1
  <2>3. CASE ~(e.count >= Limit(k))
    BY <1>1, <1>3, <1>4, <2>1, <2>3
  <2> QED BY <2>2, <2>3
<1> QED BY <1>5, <1>6

\* recordLoginFailure: a lock that it imposes is whole, and one that it takes away,
\* with an entry that it evicts or begins anew, is a window.
LEMMA RecordKeeps == ASSUME LimiterInv, NEW l \in Login, RecordFailure(l) PROVE LimiterInv'
<1>1. PICK out \in Evicted :
        LET kept == DOMAIN loginFails \ out
            new == [k \in Keys(l) |-> Counted(IF k \in kept THEN loginFails[k] ELSE NewEntry, k)]
            locked == {k \in Keys(l) : new[k].count >= Limit(k)}
        IN  /\ loginFails' = [k \in kept \cup Keys(l) |-> IF k \in Keys(l) THEN new[k] ELSE loginFails[k]]
            /\ lockLeft' = [k \in Key |-> IF k \in locked THEN Window ELSE lockLeft[k]]
            /\ crossed' = (crossed \cup {k \in out \cup Keys(l) : Blocked(k)}) \ locked
  BY DEF RecordFailure
<1> DEFINE kept == DOMAIN loginFails \ out
           old(k) == IF k \in kept THEN loginFails[k] ELSE NewEntry
           locked == {k \in Keys(l) : Counted(old(k), k).count >= Limit(k)}
<1>2. /\ loginFails' = [k \in kept \cup Keys(l) |-> IF k \in Keys(l) THEN Counted(old(k), k) ELSE loginFails[k]]
      /\ lockLeft' = [k \in Key |-> IF k \in locked THEN Window ELSE lockLeft[k]]
      /\ crossed' = (crossed \cup {k \in out \cup Keys(l) : Blocked(k)}) \ locked
  BY <1>1
<1>3. /\ attempt' = [attempt EXCEPT ![l] = Out]
      /\ \A k \in Keys(l) : k \in DOMAIN loginFails => loginFails[k].count < MaxCount
  BY DEF RecordFailure
<1>4. Keys(l)' = {} /\ \A o \in Login \ {l} : attempt'[o] = attempt[o] /\ Keys(o)' = Keys(o)
  BY <1>3 DEF LimiterInv, LimiterTypeOK, Keys, Out
<1>5. Keys(l) \subseteq Key /\ DOMAIN loginFails \subseteq Key /\ DOMAIN loginFails' = kept \cup Keys(l)
      /\ \A k \in DOMAIN loginFails : loginFails[k] \in Entry
  BY <1>2 DEF LimiterInv, LimiterTypeOK, Keys
<1>6. ASSUME NEW k \in Keys(l)
      PROVE  /\ old(k) \in Entry /\ old(k).count < MaxCount /\ loginFails'[k] = Counted(old(k), k)
             /\ old(k).left > 0 => old(k).age + old(k).left <= 2 * Window
             /\ old(k) = NewEntry \/ (old(k) = loginFails[k] /\ CountFits(k))
             /\ Under(k)' = Under(k) \ {l}
  <2>1. NewEntry \in Entry /\ NewEntry.count < MaxCount /\ NewEntry.left = 0
    BY LimitsAre DEF NewEntry, Entry, MaxWindowAge
  <2>0. Under(k)' = Under(k) \ {l}
    BY <1>4 DEF Under
  <2>2. CASE k \in kept
    <3>1. old(k) = loginFails[k] /\ k \in DOMAIN loginFails /\ loginFails[k] \in Entry
      BY <2>2, <1>5
    <3>2. loginFails[k].count < MaxCount /\ CountFits(k)
          /\ (loginFails[k].left > 0 => loginFails[k].age + loginFails[k].left <= 2 * Window)
      BY <3>1, <1>3 DEF LimiterInv, LockAgeInv, CountInv
    <3>3. loginFails'[k] = Counted(old(k), k)
      BY <1>2
    <3> HIDE DEF old
    <3> QED BY <3>1, <3>2, <3>3, <2>0
  <2>3. CASE k \notin kept
    <3>1. old(k) = NewEntry
      BY <2>3
    <3>2. loginFails'[k] = Counted(old(k), k)
      BY <1>2
    <3> HIDE DEF old
    <3> QED BY <2>1, <3>1, <3>2, <2>0
  <2> QED BY <2>2, <2>3
<1>7. ASSUME NEW k \in kept, k \notin Keys(l)
      PROVE  loginFails'[k] = loginFails[k] /\ k \in DOMAIN loginFails
             /\ Cardinality(Under(k))' = Cardinality(Under(k))
  <2>1. Under(k)' = Under(k)
    BY <1>4, <1>7 DEF Under
  <2> QED BY <1>2, <1>7, <2>1
<1>8. LimiterTypeOK'
  <2>1. \A k \in DOMAIN loginFails' : loginFails'[k] \in Entry
    <3> SUFFICES ASSUME NEW k \in DOMAIN loginFails' PROVE loginFails'[k] \in Entry
      OBVIOUS
    <3>1. CASE k \in Keys(l)
      BY <3>1, <1>6, CountedSays
    <3>2. CASE k \notin Keys(l)
      BY <3>2, <1>5, <1>7
    <3> QED BY <3>1, <3>2
  <2>2. lockLeft' \in [Key -> 0..Window] /\ crossed' \subseteq Key
    <3>1. out \subseteq DOMAIN loginFails \/ \A k \in out : Blocked(k) => k \in DOMAIN loginFails
      BY DEF Blocked
    <3>2. {k \in out \cup Keys(l) : Blocked(k)} \subseteq Key
      BY <1>5 DEF Blocked
    <3>3. crossed \subseteq Key /\ lockLeft \in [Key -> 0..Window] /\ Window \in 0..Window
      BY LimitsAre DEF LimiterInv, LimiterTypeOK
    <3> QED BY <1>2, <3>2, <3>3
  <2>3. attempt' \in [Login -> [pc : {"out", "asked", "purged"}, keys : SUBSET Key, ticked : BOOLEAN]]
    BY <1>3 DEF LimiterInv, LimiterTypeOK, Out
  <2>4. DOMAIN loginFails' \subseteq Key
    BY <1>5
  <2> QED BY <2>1, <2>2, <2>3, <2>4 DEF LimiterTypeOK
<1>9. AttemptInv'
  BY <1>4 DEF LimiterInv, AttemptInv
<1>10. (IsFiniteSet(DOMAIN loginFails) /\ TableIsBounded)'
  <2>1. IsFiniteSet(kept) /\ Cardinality(kept) \in Nat /\ Cardinality(kept) <= MaxKeys - 1
    BY RoomIsMade
  <2>2. PICK x, y : Keys(l) \subseteq {x, y}
    BY DEF LimiterInv, AttemptInv
  <2>3. kept \cup Keys(l) \subseteq (kept \cup {x}) \cup {y}
    BY <2>2
  <2>4. IsFiniteSet(kept \cup {x}) /\ Cardinality(kept \cup {x}) \in Nat
        /\ Cardinality(kept \cup {x}) <= Cardinality(kept) + 1
    <3>1. IsFiniteSet(kept \cup {x})
      BY <2>1, FS_AddElement
    <3>2. Cardinality(kept \cup {x}) \in Nat
      BY <3>1, FS_CardinalityType
    <3> QED BY <2>1, <3>1, <3>2, FS_AddElement
  <2>5. IsFiniteSet((kept \cup {x}) \cup {y}) /\ Cardinality((kept \cup {x}) \cup {y}) \in Nat
        /\ Cardinality((kept \cup {x}) \cup {y}) <= Cardinality(kept \cup {x}) + 1
    <3>0. PICK S : S = kept \cup {x}
      OBVIOUS
    <3>1. IsFiniteSet(S \cup {y}) /\ Cardinality(S) \in Nat
      BY <2>4, <3>0, FS_AddElement
    <3>2. Cardinality(S \cup {y}) \in Nat
      BY <3>1, FS_CardinalityType
    <3>3. Cardinality(S \cup {y}) = IF y \in S THEN Cardinality(S) ELSE Cardinality(S) + 1
      BY <2>4, <3>0, FS_AddElement
    <3>4. Cardinality(S \cup {y}) <= Cardinality(S) + 1
      BY <3>1, <3>3
    <3> HIDE DEF kept
    <3> QED BY <3>0, <3>1, <3>2, <3>4
  <2>6. IsFiniteSet(kept \cup Keys(l)) /\ Cardinality(kept \cup Keys(l)) <= Cardinality((kept \cup {x}) \cup {y})
    BY <2>3, <2>5, FS_Subset
  <2>7. Cardinality(kept \cup Keys(l)) \in Nat
    BY <2>6, FS_CardinalityType
  <2>8. Cardinality(kept \cup Keys(l)) <= MaxKeys + 1
    BY <2>1, <2>4, <2>5, <2>6, <2>7, LimitsAre
  <2> QED BY <1>5, <2>6, <2>8 DEF TableIsBounded
<1>11. LockAgeInv'
  <2> SUFFICES ASSUME NEW k \in DOMAIN loginFails', loginFails'[k].left > 0
               PROVE  loginFails'[k].age + loginFails'[k].left <= 2 * Window
    BY DEF LockAgeInv
  <2>1. CASE k \in Keys(l)
    BY <2>1, <1>6, CountedSays
  <2>2. CASE k \notin Keys(l)
    BY <2>2, <1>5, <1>7 DEF LimiterInv, LockAgeInv
  <2> QED BY <2>1, <2>2
<1>12. CountInv'
  <2> SUFFICES ASSUME NEW k \in DOMAIN loginFails' PROVE CountFits(k)'
    BY DEF CountInv
  <2>1. CASE k \in Keys(l)
    <3>1. PICK e : e = old(k)
      OBVIOUS
    <3> HIDE DEF kept, old, locked
    <3> QED BY <2>1, <3>1, <1>6, KeyIsCounted
  <2>2. CASE k \notin Keys(l)
    <3>1. k \in kept
      BY <2>2, <1>5
    <3>2. CountFits(k) /\ loginFails[k] \in Entry
      BY <3>1, <1>5 DEF LimiterInv, CountInv
    <3>3. Cardinality(Under(k))' \in Nat /\ Cardinality(Under(k))' <= Cardinality(Under(k))
      BY <2>2, <3>1, <1>7, UnderIs
    <3> QED BY <2>2, <3>1, <3>2, <3>3, <1>7, CountStays
  <2> QED BY <2>1, <2>2
<1>13. LockHolds'
  <2> SUFFICES ASSUME NEW k \in Key \ crossed', lockLeft'[k] > 0
               PROVE  Blocked(k)' /\ loginFails'[k].left = lockLeft'[k]
    BY DEF LockHolds
  <2>1. CASE k \in locked
    <3>1. lockLeft'[k] = Window /\ k \in Keys(l) /\ loginFails'[k] = Counted(old(k), k)
          /\ Counted(old(k), k).count >= Limit(k)
      BY <2>1, <1>2, <1>6
    <3>2. Counted(old(k), k).left = Window
      BY <3>1, <1>6, CountedSays
    <3> QED BY <3>1, <3>2, <1>5, LimitsAre DEF Blocked
  <2>2. CASE k \notin locked
    <3>1. lockLeft[k] > 0 /\ lockLeft'[k] = lockLeft[k] /\ k \notin crossed
          /\ ~(k \in out \cup Keys(l) /\ Blocked(k))
      BY <2>2, <1>2
    <3>2. Blocked(k) /\ loginFails[k].left = lockLeft[k]
      BY <3>1 DEF LimiterInv, LockHolds
    <3>3. k \in kept /\ k \notin Keys(l)
      BY <3>1, <3>2 DEF Blocked
    <3> QED BY <3>1, <3>2, <3>3, <1>5, <1>7 DEF Blocked
  <2> QED BY <2>1, <2>2
<1> QED BY <1>8, <1>9, <1>10, <1>11, <1>12, <1>13 DEF LimiterInv

\* A tick makes windows older and locks shorter; nobody is in its second tick.
LEMMA LimiterTickKeeps == ASSUME LimiterInv, LimiterTick PROVE LimiterInv'
<1>1. /\ attempt' = [l \in Login |-> IF attempt[l].pc = "out" THEN Out ELSE [attempt[l] EXCEPT !.ticked = TRUE]]
      /\ DOMAIN loginFails' = DOMAIN loginFails
      /\ lockLeft' = [k \in Key |-> IF lockLeft[k] = 0 THEN 0 ELSE lockLeft[k] - 1]
      /\ crossed' = {k \in crossed : lockLeft'[k] > 0}
  BY DEF LimiterTick
<1>2. ASSUME NEW k \in DOMAIN loginFails
      PROVE  /\ loginFails[k] \in Entry /\ loginFails'[k] \in Entry
             /\ loginFails'[k].count = loginFails[k].count
             /\ loginFails'[k].age = (IF loginFails[k].age = MaxWindowAge THEN loginFails[k].age ELSE loginFails[k].age + 1)
             /\ loginFails'[k].left = (IF loginFails[k].left = 0 THEN 0 ELSE loginFails[k].left - 1)
  <2>1. loginFails[k] \in Entry
    BY DEF LimiterInv, LimiterTypeOK
  <2>2. PICK e \in Entry : e = loginFails[k]
    BY <2>1
  <2>3. loginFails'[k] = [e EXCEPT !.age = IF e.age = MaxWindowAge THEN e.age ELSE e.age + 1,
                                   !.left = IF e.left = 0 THEN 0 ELSE e.left - 1]
    BY <2>2 DEF LimiterTick
  <2>4. e.age \in 0..MaxWindowAge /\ e.left \in 0..Window /\ MaxWindowAge \in Nat
    BY LimitsAre DEF Entry, MaxWindowAge
  <2>5. (IF e.age = MaxWindowAge THEN e.age ELSE e.age + 1) \in 0..MaxWindowAge
        /\ (IF e.left = 0 THEN 0 ELSE e.left - 1) \in 0..Window
    BY <2>4, LimitsAre
  <2> QED BY <2>2, <2>3, <2>5 DEF Entry
<1>3. \A l \in Login : Keys(l)' = Keys(l) /\ (attempt'[l].pc = "out" => attempt[l].pc = "out")
  BY <1>1 DEF LimiterInv, LimiterTypeOK, AttemptInv, Keys, Out
<1>4. LimiterTypeOK'
  <2>1. attempt' \in [Login -> [pc : {"out", "asked", "purged"}, keys : SUBSET Key, ticked : BOOLEAN]]
    BY <1>1 DEF LimiterInv, LimiterTypeOK, Out
  <2>2. lockLeft' \in [Key -> 0..Window] /\ crossed' \subseteq Key
    BY <1>1, LimitsAre DEF LimiterInv, LimiterTypeOK
  <2>3. DOMAIN loginFails' \subseteq Key /\ \A k \in DOMAIN loginFails' : loginFails'[k] \in Entry
    BY <1>1, <1>2 DEF LimiterInv, LimiterTypeOK
  <2> QED BY <2>1, <2>2, <2>3 DEF LimiterTypeOK
<1>5. AttemptInv'
  BY <1>3 DEF LimiterInv, AttemptInv
<1>6. (IsFiniteSet(DOMAIN loginFails) /\ TableIsBounded)'
  BY <1>1 DEF LimiterInv, TableIsBounded
<1>7. LockAgeInv'
  <2> SUFFICES ASSUME NEW k \in DOMAIN loginFails, loginFails'[k].left > 0
               PROVE  loginFails'[k].age + loginFails'[k].left <= 2 * Window
    BY <1>1 DEF LockAgeInv
  <2>1. loginFails[k].age \in Nat /\ loginFails[k].left \in Nat
    BY <1>2, EntrySays
  <2>2. loginFails[k].left > 0 /\ loginFails[k].age + loginFails[k].left <= 2 * Window
    BY <1>2, <2>1 DEF LimiterInv, LockAgeInv
  <2> QED BY <1>2, <2>1, <2>2, LimitsAre
<1>8. CountInv'
  <2> SUFFICES ASSUME NEW k \in DOMAIN loginFails PROVE CountFits(k)'
    BY <1>1 DEF CountInv
  <2>1. Under(k)' = Under(k)
    BY <1>3 DEF Under
  <2>2. Cardinality(Under(k)) \in Nat /\ Cardinality(Under(k)') = Cardinality(Under(k))
    BY <2>1, UnderIs
  <2>3. loginFails[k].age \in Nat /\ loginFails[k].left \in Nat /\ loginFails[k].count \in Nat
    BY <1>2, EntrySays
  <2>4. CountFits(k)
    BY DEF LimiterInv, CountInv
  <2>5. Limit(k) \in Nat /\ Cardinality(Login) \in Nat /\ Window \in Nat /\ Window >= 1
        /\ MaxWindowAge = 2 * Window + 1
    BY LimitsAre DEF MaxWindowAge
  <2> QED BY <1>2, <2>2, <2>3, <2>4, <2>5 DEF CountFits
<1>9. LockHolds'
  <2> SUFFICES ASSUME NEW k \in Key, k \notin crossed', lockLeft'[k] > 0
               PROVE  Blocked(k)' /\ loginFails'[k].left = lockLeft'[k]
    BY DEF LockHolds
  <2>1. k \notin crossed /\ lockLeft[k] \in Nat /\ lockLeft[k] > 0 /\ lockLeft'[k] = lockLeft[k] - 1
    BY <1>1, LimitsAre DEF LimiterInv, LimiterTypeOK
  <2>2. Blocked(k) /\ loginFails[k].left = lockLeft[k]
    BY <2>1 DEF LimiterInv, LockHolds
  <2>3. k \in DOMAIN loginFails
    BY <2>2 DEF Blocked
  <2> QED BY <1>1, <1>2, <2>1, <2>2, <2>3 DEF Blocked
<1> QED BY <1>4, <1>5, <1>6, <1>7, <1>8, <1>9 DEF LimiterInv

\* Every step of the limiter keeps the invariant.
LEMMA LimiterStays == ASSUME LimiterInv, [LimiterNext]_limiterVars PROVE LimiterInv'
<1>1. CASE UNCHANGED limiterVars
  BY <1>1 DEF limiterVars, LimiterInv, LimiterTypeOK, AttemptInv, TableIsBounded, LockAgeInv, LockHolds,
     Blocked, CountInv, CountFits, Under, Keys
<1>2. ASSUME NEW l \in Login,
             (\E u \in User, a \in Address : Ask(l, u, a))
               \/ PurgeLoginFails(l) \/ RecordFailure(l) \/ ClearFailures(l)
      PROVE  LimiterInv'
  BY <1>2, AskKeeps, PurgeKeeps, RecordKeeps, ClearKeeps
<1>3. CASE LimiterTick
  BY <1>3, LimiterTickKeeps
<1> QED BY <1>1, <1>2, <1>3 DEF LimiterNext

\* A lock lasts, the table is bounded and a count passes its limit only by the logins
\* that ran at the same time (account_session.go), for any accounts, addresses, number
\* of logins and limits.
THEOREM LimiterSafe == LimiterSpec => [](LimiterTypeOK /\ LimiterHolds)
<1>1. LimiterInit => LimiterInv
  BY LimiterBegins
<1>2. LimiterInv /\ [LimiterNext]_limiterVars => LimiterInv'
  BY LimiterStays
<1>3. LimiterInv => LimiterTypeOK /\ LimiterHolds
  BY LimiterInvHolds
<1> QED BY <1>1, <1>2, <1>3, PTL DEF LimiterSpec

----------------------------------------------------------------------------
(* The permissions: the inductive invariant.                               *)

\* Where a load is, and where it holds what it has loaded.
LoadLabel == {"cache", "redis", "sql", "fill from redis", "fill", "fill redis", "absent", "loaded"}
Fetched == {"fill from redis", "fill", "fill redis", "absent", "loaded"}

\* Only a check and a change load.
PermPlaceFits(q) ==
    /\ permReq[q].pc \in LoadLabel => permReq[q].op \in {"use", "change"}
    /\ permReq[q].pc = "account" => permReq[q].op = "change"

\* How old permissions may be: none are never too old.
NotOlder(perms, n) == perms = {} \/ age[perms] <= n
Ticks(q) == IF permReq[q].ticked THEN 1 ELSE 0

\* What a request has read from the row is as old as the request, what it has read from
\* a copy as old as the copy might be and the request.
PermAgeFits(q) ==
    /\ permReq[q].pc \in {"fill", "fill redis"} => NotOlder(permReq[q].perms, Ticks(q))
    /\ permReq[q].pc = "fill from redis" => NotOlder(permReq[q].perms, 3 + Ticks(q))
    /\ permReq[q].pc = "absent" => permReq[q].perms = {}
    /\ permReq[q].pc = "loaded" => NotOlder(permReq[q].perms, 5 + Ticks(q))

\* The column is no tick old, and a copy grows older as its time runs down.
PermAgeInv ==
    /\ NotOlder(Held(permRow), 0)
    /\ Valid(permRedis) => NotOlder(permRedis.perms, 4 - permRedis.left)
    /\ Valid(permCache) => NotOlder(permCache.perms, 6 - permCache.left)
    /\ \A q \in PermRequest : PermAgeFits(q)

\* Outside the windows: what a request has loaded is the column, which it has seen, and
\* a change has changed the column.
PermCurrentFits(q) ==
    /\ permReq[q].pc \in Fetched => permReq[q].perms = Held(permRow)
    /\ permReq[q].pc \in LoadLabel /\ permReq[q].op = "use" => Held(permRow) \in permReq[q].since
    /\ permReq[q].pc = "write" /\ permReq[q].op = "change" =>
         permReq[q].perms = Apply(permReq[q].change, Held(permRow))

\* A copy is the column unless a write is still to take it out, and while it is to take
\* out Redis' copy no load is past the cache.
PermCurrent ==
    /\ Held(permRow) = Held(intended)
    /\ (\A q \in PermRequest : ~Is(q, "del redis")) /\ Valid(permRedis) => permRedis.perms = Held(permRow)
    /\ (\A q \in PermRequest : ~Writing(q)) /\ Valid(permCache) => permCache.perms = Held(permRow)
    /\ \A q \in PermRequest : PermCurrentFits(q)
    /\ \A w, q \in PermRequest : Is(w, "del redis") /\ Loading(q) => Is(q, "cache")

\* The invariant of the permissions.
PermInv ==
    /\ PermTypeOK /\ (\A q \in PermRequest : PermPlaceFits(q)) /\ PermAgeInv
    /\ ~Overlapped => PermCurrent

\* A request.
PermJob == [pc : PermLabel, op : {"use", "change", "create", "delete"}, change : Change,
            perms : Perms, since : SUBSET Perms, ticked : BOOLEAN]

\* The types of what only bounds the requests.
PermBoundsOK == rdDown \in 0..Cooldown + 1 /\ permCount \in [begun : 0..MaxPermRequests, fails : 0..MaxPermFails]

\* A bound of an age may be raised.
LEMMA NotOlderThanMore ==
    ASSUME PermTypeOK, NEW p \in Perms, NEW m \in Nat, NEW n \in Nat, m <= n, NotOlder(p, m)
    PROVE  NotOlder(p, n)
<1>1. CASE p = {}
  BY <1>1 DEF NotOlder
<1>2. CASE p # {}
  <2>1. age[p] \in Nat
    BY <1>2 DEF PermTypeOK
  <2>2. age[p] <= m
    BY <1>2 DEF NotOlder
  <2> QED BY <2>1, <2>2 DEF NotOlder
<1> QED BY <1>1, <1>2

\* A request has met no tick or one.
LEMMA TicksAre ==
    ASSUME NEW q \in PermRequest
    PROVE  /\ Ticks(q) \in Nat /\ Ticks(q) <= 1 /\ Ticks(q) <= 4
           /\ 3 + Ticks(q) \in Nat /\ 3 + Ticks(q) <= 4 /\ 3 + Ticks(q) <= 5 + Ticks(q)
           /\ 5 + Ticks(q) \in Nat /\ Ticks(q) <= 5 + Ticks(q) /\ 5 <= 5 + Ticks(q) /\ 3 <= 3 + Ticks(q)
           /\ 0 <= Ticks(q)
BY DEF Ticks

\* How old a copy is that is new.
LEMMA CopyIsNew ==
    ASSUME NEW c
    PROVE  /\ c.left = 3 => 4 - c.left = 1
           /\ c.left = 2 => 6 - c.left = 4
OBVIOUS

\* What is held of a row.
LEMMA HeldIs ==
    ASSUME PermTypeOK
    PROVE  /\ Held(permRow) \in Perms /\ Held(intended) \in Perms
           /\ Held(NoPerms) = {} /\ \A p \in Perms : Held({p}) = p
           /\ permRow \in {{p} : p \in Perms} \cup {NoPerms} /\ intended \in {{p} : p \in Perms} \cup {NoPerms}
<1>1. Held({}) = {} /\ \A p \in Perms : Held({p}) = p
  BY DEF Held
<1>2. {} \in Perms
  BY DEF Perms
<1>3. permRow \in {{p} : p \in Perms} \cup {{}} /\ intended \in {{p} : p \in Perms} \cup {{}}
  BY DEF PermTypeOK, NoPerms
<1> QED BY <1>1, <1>2, <1>3 DEF NoPerms

\* What the types say of a request.
LEMMA PermSays ==
    ASSUME PermTypeOK, NEW q \in PermRequest
    PROVE  /\ permReq \in [PermRequest -> PermJob] /\ permReq[q] \in PermJob
           /\ permReq[q].perms \in Perms /\ permReq[q].since \subseteq Perms
           /\ permReq[q].ticked \in BOOLEAN /\ permReq[q].change \in Change /\ permReq[q].pc \in PermLabel
           /\ permReq[q].op \in {"use", "change", "create", "delete"}
BY DEF PermTypeOK, PermJob

\* And of the copies.
LEMMA CopySays ==
    ASSUME PermTypeOK
    PROVE  /\ permRedis \in Copy /\ permRedis.perms \in Perms /\ permRedis.left \in 0..3
           /\ permCache \in Copy /\ permCache.perms \in Perms /\ permCache.left \in 0..3
           /\ NoCopy \in Copy /\ ~Valid(NoCopy)
           /\ \A p \in Perms : p # {} => age[p] \in 0..MaxAge
<1>1. RedisTTL + 1 = 3
  BY DEF RedisTTL
<1> QED BY <1>1 DEF PermTypeOK, Copy, NoCopy, Valid, Perms

\* The age a copy may have is a number.
LEMMA CopyAges ==
    ASSUME PermTypeOK
    PROVE  4 - permRedis.left \in Nat /\ 6 - permCache.left \in Nat
BY CopySays

\* What a fill puts into Redis or the cache.
LEMMA CopyForSays ==
    ASSUME NEW p \in Perms
    PROVE  /\ CopyFor(p, RedisTTL) \in Copy /\ CopyFor(p, RedisTTL).perms = p
           /\ CopyFor(p, RedisTTL).left = 3
           /\ CopyFor(p, CacheTTL) \in Copy /\ CopyFor(p, CacheTTL).perms = p
           /\ CopyFor(p, CacheTTL).left = 2
<1>1. CopyFor(p, RedisTTL) = [perms |-> p, left |-> 3] /\ CopyFor(p, CacheTTL) = [perms |-> p, left |-> 2]
  BY DEF CopyFor, RedisTTL, CacheTTL
<1>2. 3 \in 0..(RedisTTL + 1) /\ 2 \in 0..(RedisTTL + 1)
  BY DEF RedisTTL
<1> QED BY <1>1, <1>2 DEF Copy

\* Ages are numbers.
LEMMA AgesAre ==
    ASSUME PermTypeOK, NEW p \in Perms, p # {}
    PROVE  age[p] \in Nat /\ age[p] <= 7
<1>1. MaxAge = 7
  BY DEF MaxAge, MaxStale, CacheTTL, RedisTTL
<1>2. age[p] \in 0..MaxAge
  BY DEF PermTypeOK
<1> QED BY <1>1, <1>2

\* A request that is not under way.
LEMMA IdleSays == IdleRequest \in PermJob /\ IdleRequest.pc = "idle" /\ IdleRequest.op = "use"
BY PermAssumption DEF IdleRequest, PermJob, PermLabel, NoChange, Change, Perms

\* What is kept follows from the invariant.
LEMMA PermInvHolds == PermInv => PermTypeOK /\ PermissionsAreCurrent /\ ChangesAreKept
<1> SUFFICES ASSUME PermInv PROVE PermTypeOK /\ PermissionsAreCurrent /\ ChangesAreKept
  OBVIOUS
<1>1. LoadsAreCurrent
  <2> SUFFICES ASSUME NEW q \in PermRequest, permReq[q].pc = "loaded", permReq[q].op = "use", ~Overlapped
               PROVE  permReq[q].perms \in permReq[q].since
    BY DEF LoadsAreCurrent, Is
  <2>1. PermCurrentFits(q)
    BY DEF PermInv, PermCurrent
  <2> QED BY <2>1 DEF PermCurrentFits, Fetched, LoadLabel
<1>2. StalenessIsBounded
  <2> SUFFICES ASSUME NEW q \in PermRequest, permReq[q].pc = "loaded", permReq[q].perms # {}
               PROVE  age[permReq[q].perms] <= MaxStale
    BY DEF StalenessIsBounded, Is
  <2>1. PermAgeFits(q)
    BY DEF PermInv, PermAgeInv
  <2>2. age[permReq[q].perms] <= 5 + Ticks(q)
    BY <2>1 DEF PermAgeFits, NotOlder
  <2>3. age[permReq[q].perms] \in Nat
    BY PermSays, CopySays DEF PermInv, MaxAge, MaxStale, CacheTTL, RedisTTL
  <2> QED BY <2>2, <2>3 DEF Ticks, MaxStale, CacheTTL, RedisTTL
<1>3. ChangesAreKept
  BY DEF ChangesAreKept, PermInv, PermCurrent
<1> QED BY <1>1, <1>2, <1>3 DEF PermInv, PermissionsAreCurrent

\* A new account.
LEMMA PermBegins == PermInit => PermInv
<1> SUFFICES ASSUME PermInit PROVE PermInv
  OBVIOUS
<1>1. MaxAge = 7
  BY DEF MaxAge, MaxStale, CacheTTL, RedisTTL
<1>2. PermTypeOK
  <2>1. permReq \in [PermRequest -> PermJob]
    BY IdleSays DEF PermInit
  <2>2. permRow \in {{p} : p \in Perms} /\ intended = permRow
    BY DEF PermInit, Perms
  <2>3. NoCopy \in Copy
    BY DEF NoCopy, Copy, Perms, RedisTTL
  <2>4. age \in [Perms \ {{}} -> 0..MaxAge]
    BY <1>1 DEF PermInit
  <2>5. permCount \in [begun : 0..MaxPermRequests, fails : 0..MaxPermFails]
    BY PermAssumption DEF PermInit
  <2>6. rdDown \in 0..Cooldown + 1
    BY DEF PermInit, Cooldown
  <2>7. {permRow, intended} \subseteq {{p} : p \in Perms} \cup {NoPerms}
    BY <2>2
  <2>8. {permRedis, permCache} \subseteq Copy
    BY <2>3 DEF PermInit
  <2> QED BY <2>1, <2>4, <2>5, <2>6, <2>7, <2>8 DEF PermTypeOK, PermJob
<1>3. \A q \in PermRequest : permReq[q].pc = "idle"
  BY IdleSays DEF PermInit
<1>4. \A q \in PermRequest : PermPlaceFits(q) /\ PermAgeFits(q) /\ PermCurrentFits(q)
  BY <1>3 DEF PermPlaceFits, PermAgeFits, PermCurrentFits, LoadLabel, Fetched
<1>5. Held(permRow) = {} /\ ~Valid(permRedis) /\ ~Valid(permCache) /\ intended = permRow
  BY DEF PermInit, Held, Valid, NoCopy
<1> QED BY <1>2, <1>3, <1>4, <1>5 DEF PermInv, PermAgeInv, PermCurrent, NotOlder, Is
----------------------------------------------------------------------------
(* The permissions: steps that leave the row alone.                        *)

\* What Step, StepWith and Done do.
LEMMA StepSays ==
    ASSUME PermTypeOK, NEW q \in PermRequest, NEW l \in PermLabel, Step(q, l)
    PROVE  /\ permReq' \in [PermRequest -> PermJob]
           /\ \A o \in PermRequest \ {q} : permReq'[o] = permReq[o]
           /\ permReq'[q].pc = l /\ permReq'[q].op = permReq[q].op /\ permReq'[q].perms = permReq[q].perms
           /\ permReq'[q].since = permReq[q].since /\ permReq'[q].change = permReq[q].change
           /\ permReq'[q].ticked = permReq[q].ticked
<1>1. permReq \in [PermRequest -> PermJob] /\ permReq[q] \in PermJob
  BY PermSays
<1>2. PICK r \in PermJob : r = permReq[q]
  BY <1>1
<1>3. permReq' = [permReq EXCEPT ![q] = [r EXCEPT !.pc = l]]
  BY <1>2 DEF Step
<1>4. [r EXCEPT !.pc = l] \in PermJob
  BY DEF PermJob
<1>5. permReq' \in [PermRequest -> PermJob] /\ permReq'[q] = [r EXCEPT !.pc = l]
      /\ \A o \in PermRequest \ {q} : permReq'[o] = permReq[o]
  BY <1>1, <1>3, <1>4
<1> QED BY <1>2, <1>5 DEF PermJob

LEMMA StepWithSays ==
    ASSUME PermTypeOK, NEW q \in PermRequest, NEW l \in PermLabel, NEW p \in Perms, StepWith(q, l, p)
    PROVE  /\ permReq' \in [PermRequest -> PermJob]
           /\ \A o \in PermRequest \ {q} : permReq'[o] = permReq[o]
           /\ permReq'[q].pc = l /\ permReq'[q].op = permReq[q].op /\ permReq'[q].perms = p
           /\ permReq'[q].since = permReq[q].since /\ permReq'[q].change = permReq[q].change
           /\ permReq'[q].ticked = permReq[q].ticked
<1>1. permReq \in [PermRequest -> PermJob] /\ permReq[q] \in PermJob
  BY PermSays
<1>2. PICK r \in PermJob : r = permReq[q]
  BY <1>1
<1>3. permReq' = [permReq EXCEPT ![q] = [r EXCEPT !.pc = l, !.perms = p]]
  BY <1>1, <1>2 DEF StepWith
<1>4. [r EXCEPT !.pc = l, !.perms = p] \in PermJob
  BY DEF PermJob
<1>5. permReq' \in [PermRequest -> PermJob] /\ permReq'[q] = [r EXCEPT !.pc = l, !.perms = p]
      /\ \A o \in PermRequest \ {q} : permReq'[o] = permReq[o]
  BY <1>1, <1>3, <1>4
<1> QED BY <1>2, <1>5 DEF PermJob

LEMMA DoneSays ==
    ASSUME PermTypeOK, NEW q \in PermRequest, Done(q)
    PROVE  /\ permReq' \in [PermRequest -> PermJob]
           /\ \A o \in PermRequest \ {q} : permReq'[o] = permReq[o]
           /\ permReq'[q].pc = "idle" /\ permReq'[q].op = "use"
<1>1. permReq \in [PermRequest -> PermJob]
  BY PermSays
<1> QED BY <1>1, IdleSays DEF Done

\* A step of one request that leaves the row alone keeps the invariant when the request
\* fits after it, a copy is only taken out or filled with what was loaded, and outside
\* the windows it goes past the cache only while no write is to take out Redis' copy.
LEMMA PermStepKeeps ==
    ASSUME PermInv, NEW q \in PermRequest,
           permReq' \in [PermRequest -> PermJob], \A o \in PermRequest \ {q} : permReq'[o] = permReq[o],
           permRow' = permRow, age' = age, intended' \in {intended, NoPerms},
           PermBoundsOK',
           \/ permRedis' \in {permRedis, NoCopy}
           \/ permReq[q].pc = "fill redis" /\ permRedis' = CopyFor(permReq[q].perms, RedisTTL),
           \/ permCache' \in {permCache, NoCopy}
           \/ permReq[q].pc \in {"fill from redis", "fill", "absent"}
              /\ permCache' = CopyFor(permReq[q].perms, CacheTTL),
           PermPlaceFits(q)', PermAgeFits(q)',
           ~Overlapped /\ intended' = intended =>
             /\ PermCurrentFits(q)'
             /\ permReq'[q].pc # "del redis"
             /\ permReq[q].pc = "del redis" => permRedis' = NoCopy
             /\ Writing(q) => Writing(q)' \/ permCache' = NoCopy
             /\ Loading(q)' =>
                  \/ permReq'[q].pc = "cache"
                  \/ Loading(q) /\ permReq[q].pc # "cache"
                  \/ \A w \in PermRequest : permReq[w].pc # "del redis"
    PROVE  PermInv'
<1>0. PermTypeOK
  BY DEF PermInv
<1>1. permReq[q].perms \in Perms
  BY <1>0, PermSays
<1>2. permRedis' = CopyFor(permReq[q].perms, RedisTTL) =>
        permRedis' \in Copy /\ permRedis'.perms = permReq[q].perms /\ permRedis'.left = 3
  <2>1. /\ CopyFor(permReq[q].perms, RedisTTL) \in Copy
        /\ CopyFor(permReq[q].perms, RedisTTL).perms = permReq[q].perms
        /\ CopyFor(permReq[q].perms, RedisTTL).left = 3
    BY <1>1, CopyForSays
  <2> QED BY <2>1
<1>3. permCache' = CopyFor(permReq[q].perms, CacheTTL) =>
        permCache' \in Copy /\ permCache'.perms = permReq[q].perms /\ permCache'.left = 2
  <2>1. /\ CopyFor(permReq[q].perms, CacheTTL) \in Copy
        /\ CopyFor(permReq[q].perms, CacheTTL).perms = permReq[q].perms
        /\ CopyFor(permReq[q].perms, CacheTTL).left = 2
    BY <1>1, CopyForSays
  <2> QED BY <2>1
<1>4. permRedis' \in Copy /\ permCache' \in Copy
  BY <1>0, <1>2, <1>3, CopySays
<1>5. PermTypeOK'
  <2>1. {permRow', intended'} \subseteq {{p} : p \in Perms} \cup {NoPerms}
    BY <1>0, HeldIs
  <2>2. age' \in [Perms \ {{}} -> 0..MaxAge]
    BY <1>0 DEF PermTypeOK
  <2> QED BY <1>4, <2>1, <2>2 DEF PermTypeOK, PermJob, PermBoundsOK
<1>6. \A o \in PermRequest : PermPlaceFits(o)'
  BY DEF PermInv, PermPlaceFits
<1>7. PermAgeInv'
  <2>1. NotOlder(Held(permRow), 0)'
    BY DEF PermInv, PermAgeInv, NotOlder
  <2>2. \A o \in PermRequest : PermAgeFits(o)'
    <3> SUFFICES ASSUME NEW o \in PermRequest \ {q} PROVE PermAgeFits(o)'
      OBVIOUS
    <3>1. PermAgeFits(o) /\ permReq'[o] = permReq[o]
      BY DEF PermInv, PermAgeInv
    <3> QED BY <3>1 DEF PermAgeFits, NotOlder, Ticks
  <2>3. PermAgeFits(q)
    BY DEF PermInv, PermAgeInv
  <2>4. permReq[q].perms # {} => age[permReq[q].perms] \in Nat
    BY <1>0, <1>1, AgesAre
  <2>5. Valid(permRedis)' => NotOlder(permRedis.perms, 4 - permRedis.left)'
    <3>1. CASE permRedis' \in {permRedis, NoCopy}
      BY <3>1, <1>0, CopySays DEF PermInv, PermAgeInv, NotOlder, Valid
    <3>2. CASE permReq[q].pc = "fill redis" /\ permRedis' = CopyFor(permReq[q].perms, RedisTTL)
      <4>1. permRedis'.perms = permReq[q].perms /\ permRedis'.left = 3
        BY <3>2, <1>2
      <4>2. NotOlder(permReq[q].perms, 1)
        <5>1. NotOlder(permReq[q].perms, Ticks(q))
          BY <3>2, <2>3 DEF PermAgeFits
        <5> QED BY <5>1, TicksAre, <1>0, <1>1, NotOlderThanMore
      <4>3. 4 - permRedis'.left = 1
        BY <4>1, CopyIsNew, Zenon
      <4>4. NotOlder(permRedis.perms, 4 - permRedis.left)' <=> NotOlder(permReq[q].perms, 1)
        BY <4>1, <4>3, Zenon DEF NotOlder
      <4> QED BY <4>2, <4>4
    <3> QED BY <3>1, <3>2
  <2>6. Valid(permCache)' => NotOlder(permCache.perms, 6 - permCache.left)'
    <3>1. CASE permCache' \in {permCache, NoCopy}
      BY <3>1, <1>0, CopySays DEF PermInv, PermAgeInv, NotOlder, Valid
    <3>2. CASE permReq[q].pc \in {"fill from redis", "fill", "absent"}
               /\ permCache' = CopyFor(permReq[q].perms, CacheTTL)
      <4>1. permCache'.perms = permReq[q].perms /\ permCache'.left = 2
        BY <3>2, <1>3
      <4>2. NotOlder(permReq[q].perms, 4)
        <5>1. \/ NotOlder(permReq[q].perms, 3 + Ticks(q))
              \/ NotOlder(permReq[q].perms, Ticks(q))
              \/ permReq[q].perms = {}
          BY <3>2, <2>3 DEF PermAgeFits
        <5>2. permReq[q].perms = {} => NotOlder(permReq[q].perms, 4)
          BY DEF NotOlder
        <5> QED BY <5>1, <5>2, TicksAre, <1>0, <1>1, NotOlderThanMore
      <4>3. 6 - permCache'.left = 4
        BY <4>1, CopyIsNew, Zenon
      <4>4. NotOlder(permCache.perms, 6 - permCache.left)' <=> NotOlder(permReq[q].perms, 4)
        BY <4>1, <4>3, Zenon DEF NotOlder
      <4> QED BY <4>2, <4>4
    <3> QED BY <3>1, <3>2
  <2> QED BY <2>1, <2>2, <2>5, <2>6 DEF PermAgeInv
<1>8. ASSUME ~Overlapped' PROVE PermCurrent'
  <2>1. intended' = intended /\ ~Overlapped /\ PermCurrent
    BY <1>8 DEF Overlapped, PermInv
  <2>2. \A o \in PermRequest : PermCurrentFits(o)'
    <3> SUFFICES ASSUME NEW o \in PermRequest \ {q} PROVE PermCurrentFits(o)'
      BY <2>1
    <3>1. PermCurrentFits(o) /\ permReq'[o] = permReq[o]
      BY <2>1 DEF PermCurrent
    <3> QED BY <3>1 DEF PermCurrentFits
  <2>3. PermCurrentFits(q)
    BY <2>1 DEF PermCurrent
  <2>4. ASSUME \A o \in PermRequest : ~Is(o, "del redis")', Valid(permRedis)'
        PROVE  permRedis'.perms = Held(permRow)
    <3>1. permRedis' # NoCopy
      BY <1>0, <2>4, CopySays DEF Valid
    <3>2. \A o \in PermRequest : ~Is(o, "del redis")
      BY <2>1, <2>4, <3>1 DEF Is
    <3>3. CASE permRedis' = permRedis
      BY <2>1, <2>4, <3>2, <3>3 DEF PermCurrent, Valid
    <3>4. CASE permReq[q].pc = "fill redis" /\ permRedis' = CopyFor(permReq[q].perms, RedisTTL)
      BY <2>3, <3>4, <1>2, <1>3 DEF PermCurrentFits, Fetched
    <3> QED BY <3>1, <3>3, <3>4
  <2>5. ASSUME \A o \in PermRequest : ~Writing(o)', Valid(permCache)'
        PROVE  permCache'.perms = Held(permRow)
    <3>1. permCache' # NoCopy
      BY <1>0, <2>5, CopySays DEF Valid
    <3>2. \A o \in PermRequest : ~Writing(o)
      BY <2>1, <2>5, <3>1 DEF Writing
    <3>3. CASE permCache' = permCache
      BY <2>1, <2>5, <3>2, <3>3 DEF PermCurrent, Valid
    <3>4. CASE permReq[q].pc \in {"fill from redis", "fill", "absent"}
               /\ permCache' = CopyFor(permReq[q].perms, CacheTTL)
      BY <2>3, <3>4, <1>2, <1>3 DEF PermCurrentFits, Fetched
    <3> QED BY <3>1, <3>3, <3>4
  <2>6. ASSUME NEW w \in PermRequest, NEW o \in PermRequest, Is(w, "del redis")', Loading(o)'
        PROVE  Is(o, "cache")'
    <3>1. w # q /\ Is(w, "del redis")
      BY <2>1, <2>6 DEF Is
    <3>2. CASE o # q
      BY <2>1, <2>6, <3>1, <3>2 DEF PermCurrent, Is, Loading
    <3>3. CASE o = q
      <4>1. Loading(q) => Is(q, "cache")
        BY <2>1, <3>1 DEF PermCurrent
      <4> QED BY <2>1, <2>6, <3>1, <3>3, <4>1 DEF Is
    <3> QED BY <3>2, <3>3
  <2>7. Held(permRow) = Held(intended)
    BY <2>1 DEF PermCurrent
  <2> QED BY <2>1, <2>2, <2>4, <2>5, <2>6, <2>7 DEF PermCurrent
<1> QED BY <1>5, <1>6, <1>7, <1>8 DEF PermInv
----------------------------------------------------------------------------
(* The permissions: every step of a request that leaves the row alone.     *)

\* A change makes permissions of permissions.
LEMMA ApplyIs ==
    ASSUME NEW c \in Change, NEW p \in Perms
    PROVE  Apply(c, p) \in Perms
BY DEF Change, Apply, Perms

\* The invariant of one request.
LEMMA PermInvOf ==
    ASSUME PermInv, NEW q \in PermRequest
    PROVE  /\ PermTypeOK /\ PermPlaceFits(q) /\ PermAgeFits(q) /\ PermBoundsOK
           /\ ~Overlapped => PermCurrentFits(q)
BY DEF PermInv, PermAgeInv, PermCurrent, PermTypeOK, PermBoundsOK

\* The bounds stay when nothing is counted, and when a call fails.
LEMMA BoundsStay ==
    ASSUME PermTypeOK, UNCHANGED <<rdDown, permCount>> \/ CallFails \/ (Fails /\ UNCHANGED rdDown)
    PROVE  PermBoundsOK'
<1>1. CASE UNCHANGED <<rdDown, permCount>>
  BY <1>1 DEF PermTypeOK, PermBoundsOK
<1>2. CASE CallFails \/ (Fails /\ UNCHANGED rdDown)
  <2>1. PICK b \in 0..MaxPermRequests, f \in 0..MaxPermFails : permCount = [begun |-> b, fails |-> f]
    BY DEF PermTypeOK
  <2>2. permCount' = [begun |-> b, fails |-> f + 1] /\ f < MaxPermFails
    BY <1>2, <2>1 DEF CallFails, Fails
  <2>3. f + 1 \in 0..MaxPermFails
    BY <2>2, PermAssumption
  <2>4. permCount' \in [begun : 0..MaxPermRequests, fails : 0..MaxPermFails]
    BY <2>2, <2>3
  <2>5. rdDown' \in 0..Cooldown + 1
    BY <1>2 DEF CallFails, Cooldown, PermTypeOK
  <2> QED BY <2>4, <2>5 DEF PermBoundsOK
<1> QED BY <1>1, <1>2

\* What a request begins with.
Begun(pc, op, c, s) == [IdleRequest EXCEPT !.pc = pc, !.op = op, !.change = c, !.since = s]

LEMMA NewRequest ==
    ASSUME NEW pc \in PermLabel, NEW op \in {"use", "change", "create", "delete"}, NEW c \in Change,
           NEW s \in SUBSET Perms
    PROVE  /\ Begun(pc, op, c, s) \in PermJob /\ Begun(pc, op, c, s).pc = pc
           /\ Begun(pc, op, c, s).op = op /\ Begun(pc, op, c, s).since = s
<1>1. PICK r \in PermJob : r = IdleRequest
  BY IdleSays
<1>2. PICK n : n = Begun(pc, op, c, s)
  OBVIOUS
<1>3. n = [r EXCEPT !.pc = pc, !.op = op, !.change = c, !.since = s]
  BY <1>1, <1>2 DEF Begun
<1>4. n \in PermJob
  BY <1>3 DEF PermJob
<1> QED BY <1>2, <1>3, <1>4 DEF PermJob

\* A request begins.
LEMMA BeginPermKeeps ==
    ASSUME PermInv, NEW q \in PermRequest, NEW op \in {"use", "change", "create", "delete"},
           NEW pc \in {"cache", "account", "write"}, NEW c \in Change,
           pc = "cache" <=> op = "use", pc = "account" <=> op = "change", BeginPerm(q, op, pc, c)
    PROVE  PermInv'
<1>0. PermTypeOK
  BY PermInvOf
<1>1. PICK h \in Perms : h = Held(permRow)
  BY <1>0, HeldIs
<1>s. PICK since \in SUBSET Perms : since = IF op = "use" /\ ~Overlapped THEN {h} ELSE {}
  OBVIOUS
<1>2. PICK n : n = Begun(pc, op, c, since)
  OBVIOUS
<1>3. permReq' = [permReq EXCEPT ![q] = n]
  BY <1>1, <1>2, <1>s DEF BeginPerm, Begun
<1>5. n \in PermJob /\ n.pc = pc /\ n.op = op /\ n.since = since
  <2>1. pc \in PermLabel
    BY DEF PermLabel
  <2>2. /\ Begun(pc, op, c, since) \in PermJob /\ Begun(pc, op, c, since).pc = pc
        /\ Begun(pc, op, c, since).op = op /\ Begun(pc, op, c, since).since = since
    BY <2>1, NewRequest
  <2> QED BY <1>2, <2>2
<1>6. /\ permReq' \in [PermRequest -> PermJob] /\ \A o \in PermRequest \ {q} : permReq'[o] = permReq[o]
      /\ permReq'[q].pc = pc /\ permReq'[q].op = op /\ permReq'[q].since = since
  BY <1>0, <1>3, <1>5, PermSays
<1>7. PermBoundsOK'
  <2>1. PICK b \in 0..MaxPermRequests, f \in 0..MaxPermFails : permCount = [begun |-> b, fails |-> f]
    BY <1>0 DEF PermTypeOK
  <2>2. permCount' = [begun |-> b + 1, fails |-> f] /\ b < MaxPermRequests
    BY <2>1 DEF BeginPerm
  <2>3. b + 1 \in 0..MaxPermRequests
    BY <2>2, PermAssumption
  <2>4. permCount' \in [begun : 0..MaxPermRequests, fails : 0..MaxPermFails]
    BY <2>2, <2>3
  <2> QED BY <2>4, <1>0 DEF PermBoundsOK, PermTypeOK, BeginPerm
<1>8. PermPlaceFits(q)' /\ PermAgeFits(q)'
  BY <1>6 DEF PermPlaceFits, PermAgeFits, LoadLabel
<1>9. permReq[q].pc = "idle" /\ UNCHANGED <<permRow, permRedis, permCache, age, intended>>
  BY DEF BeginPerm, Is, permHistory
<1>10. ~Overlapped => PermCurrentFits(q)'
  BY <1>1, <1>s, <1>6, <1>9 DEF PermCurrentFits, LoadLabel, Fetched
<1>11. permReq'[q].pc # "del redis" /\ ~Writing(q) /\ (Loading(q)' => permReq'[q].pc = "cache")
  BY <1>6, <1>9 DEF Writing, Loading
<1> QED BY <1>6, <1>7, <1>8, <1>9, <1>10, <1>11, PermStepKeeps

\* The row of the account is looked for.
LEMMA FindAccountKeeps ==
    ASSUME PermInv, NEW q \in PermRequest, FindAccount(q)
    PROVE  PermInv'
<1>0. PermTypeOK /\ PermPlaceFits(q) /\ PermBoundsOK'
  BY PermInvOf, BoundsStay DEF FindAccount
<1>1. permReq[q].pc = "account" /\ permReq[q].op = "change"
  BY <1>0 DEF FindAccount, Is, PermPlaceFits
<1>2. UNCHANGED <<permRow, permRedis, permCache, age, intended>>
  BY DEF FindAccount, permHistory
<1>3. CASE Done(q)
  <2>1. /\ permReq' \in [PermRequest -> PermJob] /\ permReq'[q].pc = "idle"
        /\ \A o \in PermRequest \ {q} : permReq'[o] = permReq[o]
    BY <1>0, <1>3, DoneSays
  <2>2. PermPlaceFits(q)' /\ PermAgeFits(q)' /\ PermCurrentFits(q)'
    BY <2>1 DEF PermPlaceFits, PermAgeFits, PermCurrentFits, LoadLabel, Fetched
  <2>3. ~Writing(q) /\ ~Loading(q)'
    BY <1>1, <2>1 DEF Writing, Loading
  <2> QED BY <1>0, <1>1, <1>2, <2>1, <2>2, <2>3, PermStepKeeps
<1>4. CASE Step(q, "cache")
  <2>0. "cache" \in PermLabel
    BY DEF PermLabel
  <2>1. /\ permReq' \in [PermRequest -> PermJob] /\ permReq'[q].pc = "cache" /\ permReq'[q].op = "change"
        /\ \A o \in PermRequest \ {q} : permReq'[o] = permReq[o]
    BY <1>0, <1>1, <1>4, <2>0, StepSays
  <2>2. PermPlaceFits(q)' /\ PermAgeFits(q)' /\ PermCurrentFits(q)'
    BY <2>1 DEF PermPlaceFits, PermAgeFits, PermCurrentFits, LoadLabel, Fetched
  <2>3. ~Writing(q)
    BY <1>1 DEF Writing
  <2> QED BY <1>0, <1>1, <1>2, <2>1, <2>2, <2>3, PermStepKeeps
<1> QED BY <1>3, <1>4 DEF FindAccount
\* The cache is asked.
LEMMA LoadFromCacheKeeps ==
    ASSUME PermInv, NEW q \in PermRequest, LoadFromCache(q)
    PROVE  PermInv'
<1>0. PermTypeOK /\ PermPlaceFits(q) /\ PermBoundsOK'
  BY PermInvOf, BoundsStay DEF LoadFromCache
<1>1. permReq[q].pc = "cache" /\ permReq[q].op \in {"use", "change"}
  BY <1>0 DEF LoadFromCache, Is, PermPlaceFits, LoadLabel
<1>2. UNCHANGED <<permRow, permRedis, permCache, age>> /\ intended' \in {intended, NoPerms}
  BY DEF LoadFromCache
<1>3. ~Overlapped /\ intended' = intended => \A o \in PermRequest : ~Writing(o)
  BY DEF LoadFromCache, Overlapped
<1>4. ~Writing(q)
  BY <1>1 DEF Writing
<1>5. \A o \in PermRequest : ~Writing(o) => permReq[o].pc # "del redis"
  BY DEF Writing
<1>6. CASE Valid(permCache) /\ StepWith(q, "loaded", permCache.perms)
  <2>0. "loaded" \in PermLabel
    BY DEF PermLabel
  <2>1. PICK p \in Perms : p = permCache.perms
    BY <1>0, CopySays
  <2>2. /\ permReq' \in [PermRequest -> PermJob] /\ permReq'[q].pc = "loaded" /\ permReq'[q].op = permReq[q].op
        /\ \A o \in PermRequest \ {q} : permReq'[o] = permReq[o]
        /\ permReq'[q].perms = p /\ permReq'[q].since = permReq[q].since /\ permReq'[q].ticked = permReq[q].ticked
    BY <1>0, <1>6, <2>0, <2>1, StepWithSays
  <2>3. NotOlder(p, 6 - permCache.left)
    BY <1>6, <2>1 DEF PermInv, PermAgeInv
  <2>4. NotOlder(p, 5 + Ticks(q))
    <3>1. permCache.left \in 0..3 /\ permCache.left > 0
      BY <1>0, <1>6, CopySays DEF Valid
    <3>2. 6 - permCache.left \in Nat /\ 6 - permCache.left <= 5 + Ticks(q)
      BY <3>1 DEF Ticks
    <3> QED BY <1>0, <2>3, <3>2, TicksAre, NotOlderThanMore
  <2>5. PermPlaceFits(q)'
    BY <1>1, <2>2 DEF PermPlaceFits
  <2>6. PermAgeFits(q)'
    <3>1. NotOlder(permReq[q].perms, 5 + Ticks(q))' <=> NotOlder(p, 5 + Ticks(q))
      BY <1>2, <2>2, Zenon DEF NotOlder, Ticks
    <3> QED BY <2>2, <2>4, <3>1 DEF PermAgeFits
  <2>7. ~Overlapped /\ intended' = intended => PermCurrentFits(q)'
    <3> SUFFICES ASSUME ~Overlapped, intended' = intended PROVE PermCurrentFits(q)'
      OBVIOUS
    <3>1. p = Held(permRow)
      BY <1>3, <1>6, <2>1 DEF PermInv, PermCurrent
    <3>2. permReq[q].op = "use" => Held(permRow) \in permReq[q].since
      BY <1>1 DEF PermInv, PermCurrent, PermCurrentFits, LoadLabel
    <3> QED BY <1>2, <2>2, <3>1, <3>2 DEF PermCurrentFits
  <2>8. permReq[q].pc # "del redis" /\ permReq'[q].pc # "del redis"
    BY <1>1, <2>2
  <2> QED BY <1>0, <1>1, <1>2, <1>3, <1>4, <1>5, <2>2, <2>5, <2>6, <2>7, <2>8, PermStepKeeps
<1>7. CASE Step(q, "redis")
  <2>0. "redis" \in PermLabel
    BY DEF PermLabel
  <2>1. /\ permReq' \in [PermRequest -> PermJob] /\ permReq'[q].pc = "redis" /\ permReq'[q].op = permReq[q].op
        /\ \A o \in PermRequest \ {q} : permReq'[o] = permReq[o]
        /\ permReq'[q].since = permReq[q].since
    BY <1>0, <1>7, <2>0, StepSays
  <2>2. PermPlaceFits(q)' /\ PermAgeFits(q)'
    BY <1>1, <2>1 DEF PermPlaceFits, PermAgeFits
  <2>3. ~Overlapped => PermCurrentFits(q)'
    <3>1. ~Overlapped /\ permReq[q].op = "use" => Held(permRow) \in permReq[q].since
      BY <1>1 DEF PermInv, PermCurrent, PermCurrentFits, LoadLabel
    <3> QED BY <1>2, <2>1, <3>1 DEF PermCurrentFits, Fetched
  <2>4. permReq[q].pc # "del redis" /\ permReq'[q].pc # "del redis"
    BY <1>1, <2>1
  <2> QED BY <1>0, <1>1, <1>2, <1>3, <1>4, <1>5, <2>1, <2>2, <2>3, <2>4, PermStepKeeps
<1> QED BY <1>6, <1>7 DEF LoadFromCache

\* A load past the cache goes on: what is to be shown of it.
LEMMA PastCacheKeeps ==
    ASSUME PermInv, NEW q \in PermRequest, permReq[q].pc \in LoadLabel \ {"cache"}, NEW l \in LoadLabel \ {"cache"},
           permReq' \in [PermRequest -> PermJob], \A o \in PermRequest \ {q} : permReq'[o] = permReq[o],
           permReq'[q].pc = l, permReq'[q].op = permReq[q].op, permReq'[q].since = permReq[q].since,
           UNCHANGED <<permRow, age>>, intended' \in {intended, NoPerms}, PermBoundsOK',
           \/ permRedis' = permRedis
           \/ permReq[q].pc = "fill redis" /\ permRedis' = CopyFor(permReq[q].perms, RedisTTL),
           \/ permCache' = permCache
           \/ permReq[q].pc \in {"fill from redis", "fill", "absent"}
              /\ permCache' = CopyFor(permReq[q].perms, CacheTTL),
           PermAgeFits(q)',
           ~Overlapped /\ intended' = intended /\ l \in Fetched => permReq'[q].perms = Held(permRow)
    PROVE  PermInv'
<1>0. PermTypeOK /\ PermPlaceFits(q)
  BY PermInvOf
<1>1. permReq[q].op \in {"use", "change"}
  BY <1>0 DEF PermPlaceFits, LoadLabel
<1>2. PermPlaceFits(q)'
  BY <1>1 DEF PermPlaceFits, LoadLabel
<1>3. ~Overlapped /\ intended' = intended => PermCurrentFits(q)'
  <2>1. ~Overlapped /\ permReq[q].op = "use" => Held(permRow) \in permReq[q].since
    BY DEF PermInv, PermCurrent, PermCurrentFits
  <2>2. l # "write"
    BY DEF LoadLabel
  <2> QED BY <1>1, <2>1, <2>2 DEF PermCurrentFits
<1>4. Loading(q) /\ permReq[q].pc # "cache"
  BY <1>1 DEF Loading, LoadLabel
<1>5. ~Writing(q) /\ permReq[q].pc # "del redis" /\ permReq'[q].pc # "del redis"
  BY DEF Writing, LoadLabel
<1>6. permRow' = permRow /\ age' = age
  OBVIOUS
<1> QED BY <1>2, <1>3, <1>4, <1>5, <1>6, PermStepKeeps

\* Redis is asked.
LEMMA LoadFromRedisKeeps ==
    ASSUME PermInv, NEW q \in PermRequest, LoadFromRedis(q)
    PROVE  PermInv'
<1>0. PermTypeOK /\ PermBoundsOK'
  BY PermInvOf, BoundsStay DEF LoadFromRedis
<1>1. permReq[q].pc = "redis" /\ permReq[q].pc \in LoadLabel \ {"cache"}
  BY DEF LoadFromRedis, Is, LoadLabel
<1>2. UNCHANGED <<permRow, permRedis, permCache, age, intended>>
  BY DEF LoadFromRedis, permHistory
<1>3. {"sql", "fill from redis"} \subseteq PermLabel /\ {"sql", "fill from redis"} \subseteq LoadLabel \ {"cache"}
  BY DEF PermLabel, LoadLabel
<1>4. CASE Valid(permRedis) /\ StepWith(q, "fill from redis", permRedis.perms)
  <2>1. PICK p \in Perms : p = permRedis.perms
    BY <1>0, CopySays
  <2>2. /\ permReq' \in [PermRequest -> PermJob] /\ permReq'[q].pc = "fill from redis"
        /\ permReq'[q].op = permReq[q].op /\ \A o \in PermRequest \ {q} : permReq'[o] = permReq[o]
        /\ permReq'[q].perms = p /\ permReq'[q].since = permReq[q].since /\ permReq'[q].ticked = permReq[q].ticked
    BY <1>0, <1>3, <1>4, <2>1, StepWithSays
  <2>3. NotOlder(p, 4 - permRedis.left)
    BY <1>4, <2>1 DEF PermInv, PermAgeInv
  <2>4. NotOlder(p, 3 + Ticks(q))
    <3>1. permRedis.left \in 0..3 /\ permRedis.left > 0
      BY <1>0, <1>4, CopySays DEF Valid
    <3>2. 4 - permRedis.left \in Nat /\ 4 - permRedis.left <= 3 + Ticks(q)
      BY <3>1 DEF Ticks
    <3> QED BY <1>0, <2>3, <3>2, TicksAre, NotOlderThanMore
  <2>5. PermAgeFits(q)'
    <3>1. NotOlder(permReq[q].perms, 3 + Ticks(q))' <=> NotOlder(p, 3 + Ticks(q))
      BY <1>2, <2>2, Zenon DEF NotOlder, Ticks
    <3> QED BY <2>2, <2>4, <3>1 DEF PermAgeFits
  <2>6. ~Overlapped => permReq'[q].perms = Held(permRow)
    <3> SUFFICES ASSUME ~Overlapped PROVE permReq'[q].perms = Held(permRow)
      OBVIOUS
    <3>1. permReq[q].op \in {"use", "change"}
      BY <1>1, PermInvOf DEF PermPlaceFits, LoadLabel
    <3>2. \A w \in PermRequest : ~Is(w, "del redis")
      BY <1>1, <3>1 DEF PermInv, PermCurrent, Loading, Is
    <3> QED BY <1>4, <2>1, <2>2, <3>2 DEF PermInv, PermCurrent
  <2> QED BY <1>0, <1>1, <1>2, <1>3, <2>2, <2>5, <2>6, PastCacheKeeps
<1>5. CASE Step(q, "sql")
  <2>1. /\ permReq' \in [PermRequest -> PermJob] /\ permReq'[q].pc = "sql"
        /\ permReq'[q].op = permReq[q].op /\ \A o \in PermRequest \ {q} : permReq'[o] = permReq[o]
        /\ permReq'[q].since = permReq[q].since
    BY <1>0, <1>3, <1>5, StepSays
  <2>2. PermAgeFits(q)' /\ permReq'[q].pc \notin Fetched
    BY <2>1 DEF PermAgeFits, Fetched
  <2> QED BY <1>0, <1>1, <1>2, <1>3, <2>1, <2>2, PastCacheKeeps
<1> QED BY <1>4, <1>5 DEF LoadFromRedis

\* The row is read.
LEMMA LoadFromRowKeeps ==
    ASSUME PermInv, NEW q \in PermRequest, LoadFromRow(q)
    PROVE  PermInv'
<1>0. PermTypeOK /\ PermBoundsOK'
  BY PermInvOf, BoundsStay DEF LoadFromRow
<1>1. permReq[q].pc \in LoadLabel \ {"cache"}
  BY DEF LoadFromRow, Is, LoadLabel
<1>2. UNCHANGED <<permRow, permRedis, permCache, age>>
  BY DEF LoadFromRow
<1>3. CASE UNCHANGED intended /\ StepWith(q, IF permRow = NoPerms THEN "absent" ELSE "fill", Held(permRow))
  <2>1. PICK p \in Perms : p = Held(permRow)
    BY <1>0, HeldIs
  <2>2. PICK l : l = IF permRow = NoPerms THEN "absent" ELSE "fill"
    OBVIOUS
  <2>3. l \in PermLabel /\ l \in LoadLabel \ {"cache"}
    BY <2>2 DEF PermLabel, LoadLabel
  <2>4. StepWith(q, l, p)
    BY <1>3, <2>1, <2>2
  <2>5. /\ permReq' \in [PermRequest -> PermJob] /\ permReq'[q].pc = l
        /\ permReq'[q].op = permReq[q].op /\ \A o \in PermRequest \ {q} : permReq'[o] = permReq[o]
        /\ permReq'[q].perms = p /\ permReq'[q].since = permReq[q].since
        /\ permReq'[q].ticked = permReq[q].ticked
    BY <1>0, <2>3, <2>4, StepWithSays
  <2>6. PermAgeFits(q)'
    <3>1. NotOlder(p, 0)
      BY <2>1 DEF PermInv, PermAgeInv
    <3>2. NotOlder(p, Ticks(q))
      BY <1>0, <3>1, TicksAre, NotOlderThanMore
    <3>3. NotOlder(permReq[q].perms, Ticks(q))' <=> NotOlder(p, Ticks(q))
      BY <1>2, <2>5, Zenon DEF NotOlder, Ticks
    <3>4. l = "absent" => p = {}
      BY <1>0, <2>1, <2>2, HeldIs
    <3> QED BY <2>2, <2>5, <3>2, <3>3, <3>4 DEF PermAgeFits
  <2>7. intended' \in {intended, NoPerms}
    BY <1>3
  <2> QED BY <1>0, <1>1, <1>2, <2>1, <2>3, <2>5, <2>6, <2>7, PastCacheKeeps
<1>4. CASE intended' = NoPerms /\ StepWith(q, "absent", {})
  <2>1. "absent" \in PermLabel /\ "absent" \in LoadLabel \ {"cache"} /\ {} \in Perms
    BY DEF PermLabel, LoadLabel, Perms
  <2>2. /\ permReq' \in [PermRequest -> PermJob] /\ permReq'[q].pc = "absent"
        /\ permReq'[q].op = permReq[q].op /\ \A o \in PermRequest \ {q} : permReq'[o] = permReq[o]
        /\ permReq'[q].perms = {} /\ permReq'[q].since = permReq[q].since
    BY <1>0, <1>4, <2>1, StepWithSays
  <2>3. PermAgeFits(q)'
    BY <2>2 DEF PermAgeFits
  <2>4. intended' \in {intended, NoPerms} /\ ~(~Overlapped /\ intended' = intended)
    BY <1>4 DEF Overlapped
  <2> QED BY <1>0, <1>1, <1>2, <2>1, <2>2, <2>3, <2>4, PastCacheKeeps
<1> QED BY <1>3, <1>4, Zenon DEF LoadFromRow

\* The cache is filled.
LEMMA FillPermCacheKeeps ==
    ASSUME PermInv, NEW q \in PermRequest, FillPermCache(q)
    PROVE  PermInv'
<1>0. PermTypeOK /\ PermBoundsOK' /\ PermAgeFits(q)
  BY PermInvOf, BoundsStay DEF FillPermCache
<1>1. permReq[q].pc \in {"fill from redis", "fill", "absent"}
  BY DEF FillPermCache
<1>2. permReq[q].pc \in LoadLabel \ {"cache"} /\ permReq[q].pc \in Fetched
  BY <1>1 DEF LoadLabel, Fetched
<1>3. UNCHANGED <<permRow, permRedis, age, intended>> /\ permCache' = CopyFor(permReq[q].perms, CacheTTL)
  BY DEF FillPermCache, permHistory
<1>4. PICK l : l = IF permReq[q].pc = "fill" THEN "fill redis" ELSE "loaded"
  OBVIOUS
<1>5. l \in PermLabel /\ l \in LoadLabel \ {"cache"}
  BY <1>4 DEF PermLabel, LoadLabel
<1>6. Step(q, l)
  BY <1>4 DEF FillPermCache, Is
<1>7. /\ permReq' \in [PermRequest -> PermJob] /\ permReq'[q].pc = l
      /\ permReq'[q].op = permReq[q].op /\ \A o \in PermRequest \ {q} : permReq'[o] = permReq[o]
      /\ permReq'[q].perms = permReq[q].perms /\ permReq'[q].since = permReq[q].since
      /\ permReq'[q].ticked = permReq[q].ticked
  BY <1>0, <1>5, <1>6, StepSays
<1>8. PermAgeFits(q)'
  <2>1. \A n : NotOlder(permReq[q].perms, n)' <=> NotOlder(permReq[q].perms, n)
    BY <1>3, <1>7 DEF NotOlder
  <2>2. Ticks(q)' = Ticks(q)
    BY <1>7 DEF Ticks
  <2>3. permReq[q].perms \in Perms
    BY <1>0, PermSays
  <2>4. CASE permReq[q].pc = "fill"
    <3>1. NotOlder(permReq[q].perms, Ticks(q))
      BY <1>0, <2>4 DEF PermAgeFits
    <3> QED BY <1>4, <1>7, <2>1, <2>2, <2>4, <3>1 DEF PermAgeFits
  <2>5. CASE permReq[q].pc = "fill from redis"
    <3>1. NotOlder(permReq[q].perms, 3 + Ticks(q))
      BY <1>0, <2>5 DEF PermAgeFits
    <3>2. NotOlder(permReq[q].perms, 5 + Ticks(q))
      BY <1>0, <2>3, <3>1, TicksAre, NotOlderThanMore
    <3> QED BY <1>4, <1>7, <2>1, <2>2, <2>5, <3>2 DEF PermAgeFits
  <2>6. CASE permReq[q].pc = "absent"
    <3>1. permReq'[q].perms = {}
      BY <1>0, <1>7, <2>6 DEF PermAgeFits
    <3> QED BY <1>4, <1>7, <2>6, <3>1 DEF PermAgeFits, NotOlder
  <2> QED BY <1>1, <2>4, <2>5, <2>6
<1>9. ~Overlapped => permReq'[q].perms = Held(permRow)
  BY <1>2, <1>7, PermInvOf DEF PermCurrentFits
<1> QED BY <1>0, <1>1, <1>2, <1>3, <1>5, <1>7, <1>8, <1>9, PastCacheKeeps

\* Redis is filled, or not.
LEMMA FillPermRedisKeeps ==
    ASSUME PermInv, NEW q \in PermRequest, FillPermRedis(q)
    PROVE  PermInv'
<1>0. PermTypeOK /\ PermBoundsOK' /\ PermAgeFits(q)
  BY PermInvOf, BoundsStay DEF FillPermRedis
<1>1. permReq[q].pc = "fill redis" /\ permReq[q].pc \in LoadLabel \ {"cache"} /\ permReq[q].pc \in Fetched
  BY DEF FillPermRedis, Is, LoadLabel, Fetched
<1>2. UNCHANGED <<permRow, permCache, age, intended>>
      /\ (permRedis' = permRedis \/ permRedis' = CopyFor(permReq[q].perms, RedisTTL))
  BY DEF FillPermRedis, permHistory
<1>3. "loaded" \in PermLabel /\ "loaded" \in LoadLabel \ {"cache"}
  BY DEF PermLabel, LoadLabel
<1>4. Step(q, "loaded")
  BY DEF FillPermRedis
<1>5. /\ permReq' \in [PermRequest -> PermJob] /\ permReq'[q].pc = "loaded"
      /\ permReq'[q].op = permReq[q].op /\ \A o \in PermRequest \ {q} : permReq'[o] = permReq[o]
      /\ permReq'[q].perms = permReq[q].perms /\ permReq'[q].since = permReq[q].since
      /\ permReq'[q].ticked = permReq[q].ticked
  BY <1>0, <1>3, <1>4, StepSays
<1>6. PermAgeFits(q)'
  <2>1. \A n : NotOlder(permReq[q].perms, n)' <=> NotOlder(permReq[q].perms, n)
    BY <1>2, <1>5 DEF NotOlder
  <2>2. Ticks(q)' = Ticks(q)
    BY <1>5 DEF Ticks
  <2>3. NotOlder(permReq[q].perms, Ticks(q))
    BY <1>0, <1>1 DEF PermAgeFits
  <2>4. permReq[q].perms \in Perms
    BY <1>0, PermSays
  <2>5. NotOlder(permReq[q].perms, 5 + Ticks(q))
    BY <1>0, <2>3, <2>4, TicksAre, NotOlderThanMore
  <2> QED BY <1>5, <2>1, <2>2, <2>5 DEF PermAgeFits
<1>7. ~Overlapped => permReq'[q].perms = Held(permRow)
  BY <1>1, <1>5, PermInvOf DEF PermCurrentFits
<1> QED BY <1>0, <1>1, <1>2, <1>3, <1>5, <1>6, <1>7, PastCacheKeeps

\* A request that is over, and is not a write that leaves a copy behind.
LEMMA DoneKeeps ==
    ASSUME PermInv, NEW q \in PermRequest, Done(q), permReq[q].pc # "del redis",
           UNCHANGED <<permRow, permRedis, rdDown, age, intended>>, UNCHANGED permCount \/ Fails,
           (permCache' = permCache /\ permReq[q].pc # "del cache") \/ permCache' = NoCopy
    PROVE  PermInv'
<1>0. PermTypeOK /\ PermBoundsOK'
  BY PermInvOf, BoundsStay
<1>1. /\ permReq' \in [PermRequest -> PermJob] /\ permReq'[q].pc = "idle"
      /\ \A o \in PermRequest \ {q} : permReq'[o] = permReq[o]
  BY <1>0, DoneSays
<1>2. PermPlaceFits(q)' /\ PermAgeFits(q)' /\ PermCurrentFits(q)'
  BY <1>1 DEF PermPlaceFits, PermAgeFits, PermCurrentFits, LoadLabel, Fetched
<1>3. (Writing(q) => permCache' = NoCopy) /\ ~Loading(q)' /\ permReq'[q].pc # "del redis"
  BY <1>1 DEF Writing, Loading
<1> QED BY <1>0, <1>1, <1>2, <1>3, PermStepKeeps

\* The check is decided.
LEMMA DecideKeeps ==
    ASSUME PermInv, NEW q \in PermRequest, Decide(q)
    PROVE  PermInv'
<1>1. permReq[q].pc = "loaded" /\ Done(q)
      /\ UNCHANGED <<permRow, permRedis, permCache, rdDown, permCount, age, intended>>
  BY DEF Decide, Is, permHistory
<1> QED BY <1>1, DoneKeeps

\* The loaded copy is changed, or the change is given up.
LEMMA ChangeCopyKeeps ==
    ASSUME PermInv, NEW q \in PermRequest, ChangeCopy(q)
    PROVE  PermInv'
<1>0. PermTypeOK /\ PermBoundsOK'
  BY PermInvOf, BoundsStay DEF ChangeCopy
<1>1. permReq[q].pc = "loaded" /\ permReq[q].op = "change"
  BY DEF ChangeCopy, Is
<1>2. UNCHANGED <<permRow, permRedis, permCache, rdDown, permCount, age, intended>>
  BY DEF ChangeCopy, permHistory
<1>3. CASE Done(q)
  BY <1>1, <1>2, <1>3, DoneKeeps
<1>4. CASE StepWith(q, "write", Apply(permReq[q].change, permReq[q].perms))
  <2>1. PICK p \in Perms, c \in Change : p = permReq[q].perms /\ c = permReq[q].change
    BY <1>0, PermSays
  <2>2. PICK new \in Perms : new = Apply(c, p)
    BY ApplyIs
  <2>3. "write" \in PermLabel /\ StepWith(q, "write", new)
    BY <1>4, <2>1, <2>2 DEF PermLabel
  <2>4. /\ permReq' \in [PermRequest -> PermJob] /\ permReq'[q].pc = "write" /\ permReq'[q].op = "change"
        /\ permReq'[q].perms = new /\ permReq'[q].change = c /\ \A o \in PermRequest \ {q} : permReq'[o] = permReq[o]
    BY <1>0, <1>1, <2>1, <2>3, StepWithSays
  <2>5. PermPlaceFits(q)' /\ PermAgeFits(q)'
    BY <2>4 DEF PermPlaceFits, PermAgeFits, LoadLabel
  <2>6. ~Overlapped => PermCurrentFits(q)'
    <3> SUFFICES ASSUME ~Overlapped PROVE PermCurrentFits(q)'
      OBVIOUS
    <3>1. p = Held(permRow)
      BY <1>1, <2>1, PermInvOf DEF PermCurrentFits, Fetched
    <3> QED BY <1>2, <2>2, <2>4, <3>1 DEF PermCurrentFits, LoadLabel, Fetched
  <2>7. Loading(q) /\ ~Writing(q)
    BY <1>1 DEF Loading, Writing
  <2>8. permReq[q].pc # "cache" /\ permReq[q].pc # "del redis" /\ permReq'[q].pc # "del redis"
    BY <1>1, <2>4
  <2> QED BY <1>0, <1>2, <2>4, <2>5, <2>6, <2>7, <2>8, PermStepKeeps
<1> QED BY <1>3, <1>4 DEF ChangeCopy

\* Redis' copy is taken out, or stays in a window.
LEMMA DropRedisCopyKeeps ==
    ASSUME PermInv, NEW q \in PermRequest, DropRedisCopy(q)
    PROVE  PermInv'
<1>0. PermTypeOK /\ PermBoundsOK'
  BY PermInvOf, BoundsStay DEF DropRedisCopy
<1>1. permReq[q].pc = "del redis" /\ Step(q, "del cache")
  BY DEF DropRedisCopy, Is
<1>2. /\ UNCHANGED <<permRow, permCache, age>> /\ permRedis' \in {permRedis, NoCopy}
      /\ intended' \in {intended, NoPerms}
      /\ ~Overlapped /\ intended' = intended => permRedis' = NoCopy
  BY DEF DropRedisCopy, Overlapped
<1>3. "del cache" \in PermLabel
  BY DEF PermLabel
<1>4. /\ permReq' \in [PermRequest -> PermJob] /\ permReq'[q].pc = "del cache"
      /\ \A o \in PermRequest \ {q} : permReq'[o] = permReq[o]
  BY <1>0, <1>1, <1>3, StepSays
<1>5. PermPlaceFits(q)' /\ PermAgeFits(q)' /\ PermCurrentFits(q)'
  BY <1>4 DEF PermPlaceFits, PermAgeFits, PermCurrentFits, LoadLabel, Fetched
<1>6. Writing(q)' /\ ~Loading(q)' /\ permReq'[q].pc # "del redis"
  BY <1>4 DEF Writing, Loading
<1> QED BY <1>0, <1>1, <1>2, <1>4, <1>5, <1>6, PermStepKeeps

\* The copy of the process is taken out.
LEMMA DropCacheCopyKeeps ==
    ASSUME PermInv, NEW q \in PermRequest, DropCacheCopy(q)
    PROVE  PermInv'
<1>1. permReq[q].pc = "del cache" /\ Done(q) /\ permCache' = NoCopy
      /\ UNCHANGED <<permRow, permRedis, rdDown, permCount, age, intended>>
  BY DEF DropCacheCopy, Is, permHistory
<1> QED BY <1>1, DoneKeeps
----------------------------------------------------------------------------
(* The permissions: a write of the row, and the clock.                     *)

\* What a write does to the requests.
LEMMA RowBecomesReqs ==
    ASSUME PermTypeOK, NEW q \in PermRequest, NEW row, NEW meant, NEW pc \in {"del redis", "del cache"},
           RowBecomes(q, row, meant, pc), Held(row) \in Perms
    PROVE  /\ permReq' \in [PermRequest -> PermJob] /\ permReq'[q].pc = pc
           /\ \A o \in PermRequest \ {q} :
                 /\ permReq'[o].pc = permReq[o].pc /\ permReq'[o].op = permReq[o].op
                 /\ permReq'[o].perms = permReq[o].perms /\ permReq'[o].ticked = permReq[o].ticked
<1>1. PICK h \in Perms : h = Held(row)
  OBVIOUS
<1>2. permReq' = [o \in PermRequest |-> permReq'[o]]
  BY DEF RowBecomes
<1>3. permReq'[q] \in PermJob /\ permReq'[q].pc = pc
  <2>1. PICK r \in PermJob : r = IdleRequest
    BY IdleSays
  <2>2. permReq'[q] = [r EXCEPT !.pc = pc, !.ticked = permReq[q].ticked]
    BY <2>1 DEF RowBecomes
  <2>3. permReq[q].ticked \in BOOLEAN /\ pc \in PermLabel
    BY PermSays DEF PermLabel
  <2> QED BY <2>2, <2>3 DEF PermJob
<1>4. ASSUME NEW o \in PermRequest \ {q}
      PROVE  /\ permReq'[o] \in PermJob
             /\ permReq'[o].pc = permReq[o].pc /\ permReq'[o].op = permReq[o].op
             /\ permReq'[o].perms = permReq[o].perms /\ permReq'[o].ticked = permReq[o].ticked
  <2>1. PICK r \in PermJob : r = permReq[o]
    BY PermSays
  <2>2. PICK s : s = IF intended' = NoPerms \/ ~Loading(o) \/ permReq[o].op # "use"
                     THEN {} ELSE r.since \cup {h}
    OBVIOUS
  <2>3. permReq'[o] = [r EXCEPT !.since = s]
    BY <1>1, <2>1, <2>2 DEF RowBecomes
  <2>4. r.since \in SUBSET Perms
    BY DEF PermJob
  <2>5. s \in SUBSET Perms
    BY <2>2, <2>4
  <2> QED BY <2>1, <2>3, <2>5 DEF PermJob
<1> QED BY <1>2, <1>3, <1>4

\* A write of the row makes it new, and lets no set in use look younger.
LEMMA RowBecomesAges ==
    ASSUME PermTypeOK, NEW q, NEW row, NEW meant, NEW pc, RowBecomes(q, row, meant, pc), Held(row) \in Perms
    PROVE  /\ age' \in [Perms \ {{}} -> 0..MaxAge] /\ NotOlder(Held(row), 0)'
           /\ \A p \in Perms, n \in Nat : InUse(p) /\ NotOlder(p, n) => p = {} \/ age'[p] <= n
<1>1. MaxAge = 7
  BY DEF MaxAge, MaxStale, CacheTTL, RedisTTL
<1>2. age \in [Perms \ {{}} -> 0..7]
  BY <1>1 DEF PermTypeOK
<1>3. PICK h \in Perms : h = Held(row)
  OBVIOUS
<1>4. age' = [p \in Perms \ {{}} |-> IF p = h THEN 0 ELSE IF InUse(p) THEN age[p] ELSE 7]
  BY <1>1, <1>2, <1>3 DEF RowBecomes
<1>5. age' \in [Perms \ {{}} -> 0..7]
  BY <1>2, <1>4
<1>6. h = {} \/ age'[h] = 0
  BY <1>4
<1>7. NotOlder(Held(row), 0)'
  BY <1>3, <1>6 DEF NotOlder, Held
<1>8. \A p \in Perms, n \in Nat : InUse(p) /\ NotOlder(p, n) => p = {} \/ age'[p] <= n
  BY <1>2, <1>4 DEF NotOlder
<1> QED BY <1>1, <1>5, <1>7, <1>8

\* The row is written, and no copy has been taken out yet.
LEMMA RowBecomesKeeps ==
    ASSUME PermInv, NEW q \in PermRequest, permReq[q].pc = "write",
           NEW row \in {{p} : p \in Perms} \cup {NoPerms}, NEW meant \in Perms,
           NEW pc \in {"del redis", "del cache"}, RowBecomes(q, row, meant, pc),
           UNCHANGED <<permRedis, permCache, rdDown, permCount>>,
           ~Overlapped => Held(row) = meant,
           pc = "del cache" => Held(row) = Held(permRow)
    PROVE  PermInv'
<1>0. PermTypeOK /\ permRow' = row
  BY DEF PermInv, RowBecomes
<1>1. PICK h \in Perms : h = Held(row)
  <2>1. Held(NoPerms) = {} /\ {} \in Perms /\ \A p \in Perms : Held({p}) = p
    BY <1>0, HeldIs DEF Perms
  <2> QED BY <2>1
<1>2. Held(permRow)' = h
  BY <1>0, <1>1 DEF Held
<1>3. /\ permReq' \in [PermRequest -> PermJob] /\ permReq'[q].pc = pc
      /\ \A o \in PermRequest \ {q} :
            /\ permReq'[o].pc = permReq[o].pc /\ permReq'[o].op = permReq[o].op
            /\ permReq'[o].perms = permReq[o].perms /\ permReq'[o].ticked = permReq[o].ticked
  BY <1>0, <1>1, RowBecomesReqs
<1>4. /\ age' \in [Perms \ {{}} -> 0..MaxAge] /\ NotOlder(Held(row), 0)'
      /\ \A p \in Perms, n \in Nat : InUse(p) /\ NotOlder(p, n) => p = {} \/ age'[p] <= n
  BY <1>0, <1>1, RowBecomesAges
<1>5. intended' \in {{meant}, NoPerms}
      /\ (intended' # NoPerms =>
            ~Overlapped /\ \A o \in PermRequest \ {q} : ~Loading(o) /\ ~Writing(o))
  BY DEF RowBecomes
<1>6. PermTypeOK'
  <2>1. permCount' \in [begun : 0..MaxPermRequests, fails : 0..MaxPermFails] /\ rdDown' \in 0..Cooldown + 1
    BY <1>0 DEF PermTypeOK
  <2>2. {permRedis', permCache'} \subseteq Copy
    BY <1>0 DEF PermTypeOK
  <2>3. {permRow', intended'} \subseteq {{p} : p \in Perms} \cup {NoPerms}
    BY <1>0, <1>5
  <2> QED BY <1>3, <1>4, <2>1, <2>2, <2>3 DEF PermTypeOK, PermJob
<1>7. \A o \in PermRequest : PermPlaceFits(o)'
  <2>1. PermPlaceFits(q)'
    BY <1>3 DEF PermPlaceFits, LoadLabel
  <2>2. \A o \in PermRequest \ {q} : PermPlaceFits(o)'
    BY <1>3 DEF PermInv, PermPlaceFits
  <2> QED BY <2>1, <2>2
<1>8. PermAgeInv'
  <2>1. NotOlder(Held(permRow), 0)'
    BY <1>1, <1>2, <1>4 DEF NotOlder, Held
  <2>2. Valid(permRedis)' => NotOlder(permRedis.perms, 4 - permRedis.left)'
    <3> SUFFICES ASSUME Valid(permRedis) PROVE NotOlder(permRedis.perms, 4 - permRedis.left)'
      BY DEF Valid
    <3>1. PICK p \in Perms, n \in Nat : p = permRedis.perms /\ n = 4 - permRedis.left
      BY <1>0, CopySays, CopyAges
    <3>2. NotOlder(p, n) /\ InUse(p)
      BY <3>1 DEF PermInv, PermAgeInv, InUse
    <3>3. p = {} \/ age'[p] <= n
      BY <1>4, <3>2
    <3> QED BY <3>1, <3>3, Zenon DEF NotOlder
  <2>3. Valid(permCache)' => NotOlder(permCache.perms, 6 - permCache.left)'
    <3> SUFFICES ASSUME Valid(permCache) PROVE NotOlder(permCache.perms, 6 - permCache.left)'
      BY DEF Valid
    <3>1. PICK p \in Perms, n \in Nat : p = permCache.perms /\ n = 6 - permCache.left
      BY <1>0, CopySays, CopyAges
    <3>2. NotOlder(p, n) /\ InUse(p)
      BY <3>1 DEF PermInv, PermAgeInv, InUse
    <3>3. p = {} \/ age'[p] <= n
      BY <1>4, <3>2
    <3> QED BY <3>1, <3>3, Zenon DEF NotOlder
  <2>4. PermAgeFits(q)'
    BY <1>3 DEF PermAgeFits
  <2>5. ASSUME NEW o \in PermRequest \ {q} PROVE PermAgeFits(o)'
    <3>1. PermAgeFits(o) /\ PermPlaceFits(o)
      BY PermInvOf
    <3>2. PICK p \in Perms, t \in Nat : p = permReq[o].perms /\ t = Ticks(o)
      BY <1>0, PermSays, TicksAre
    <3>3. Ticks(o)' = t /\ permReq'[o].perms = p /\ permReq'[o].pc = permReq[o].pc
      BY <1>3, <3>2 DEF Ticks
    <3>4. permReq[o].pc \in Fetched => InUse(p)
      BY <3>1, <3>2 DEF InUse, Loading, Fetched, LoadLabel, PermPlaceFits
    <3>5. \A n \in Nat : permReq[o].pc \in Fetched /\ NotOlder(p, n) => NotOlder(permReq[o].perms, n)'
      BY <1>4, <3>3, <3>4 DEF NotOlder
    <3>6. 3 + t \in Nat /\ 5 + t \in Nat
      BY <3>2, TicksAre
    <3>7. permReq[o].pc \in {"fill", "fill redis"} => NotOlder(permReq[o].perms, Ticks(o))'
      BY <3>1, <3>2, <3>3, <3>5 DEF PermAgeFits, Fetched
    <3>8. permReq[o].pc = "fill from redis" => NotOlder(permReq[o].perms, 3 + Ticks(o))'
      BY <3>1, <3>2, <3>3, <3>5, <3>6 DEF PermAgeFits, Fetched
    <3>9. permReq[o].pc = "loaded" => NotOlder(permReq[o].perms, 5 + Ticks(o))'
      BY <3>1, <3>2, <3>3, <3>5, <3>6 DEF PermAgeFits, Fetched
    <3> QED BY <3>1, <3>2, <3>3, <3>7, <3>8, <3>9 DEF PermAgeFits
  <2> QED BY <2>1, <2>2, <2>3, <2>4, <2>5 DEF PermAgeInv
<1>9. ASSUME ~Overlapped' PROVE PermCurrent'
  <2>1. intended' = {meant} /\ ~Overlapped /\ \A o \in PermRequest \ {q} : ~Loading(o) /\ ~Writing(o)
    BY <1>5, <1>9 DEF Overlapped
  <2>2. PermCurrent
    BY <2>1 DEF PermInv
  <2>3. h = meant /\ Held(intended)' = h
    BY <1>1, <2>1 DEF Held
  <2>4. Writing(q)' /\ ~Loading(q)'
    BY <1>3 DEF Writing, Loading
  <2>5. \A o \in PermRequest \ {q} : ~Loading(o)' /\ ~Writing(o)'
    BY <1>3, <2>1 DEF Writing, Loading
  <2>6. \A o \in PermRequest : PermCurrentFits(o)'
    <3>1. PermCurrentFits(q)'
      BY <1>3 DEF PermCurrentFits, LoadLabel, Fetched
    <3>2. ASSUME NEW o \in PermRequest \ {q} PROVE PermCurrentFits(o)'
      <4>1. PermPlaceFits(o)'
        BY <1>7
      <4> QED BY <4>1, <2>5 DEF PermCurrentFits, PermPlaceFits, Loading, LoadLabel, Fetched
    <3> QED BY <3>1, <3>2
  <2>7. ASSUME \A o \in PermRequest : ~Is(o, "del redis")', Valid(permRedis)'
        PROVE  permRedis'.perms = Held(permRow)'
    <3>1. pc = "del cache"
      BY <1>3, <2>7 DEF Is
    <3>2. \A o \in PermRequest : ~Is(o, "del redis")
      BY <1>3, <2>7 DEF Is
    <3>3. permRedis.perms = Held(permRow)
      BY <2>2, <2>7, <3>2 DEF PermCurrent, Valid
    <3> QED BY <1>1, <1>2, <3>1, <3>3
  <2>8. ~\A o \in PermRequest : ~Writing(o)'
    BY <2>4
  <2>9. ASSUME NEW w \in PermRequest, NEW o \in PermRequest, Loading(o)' PROVE FALSE
    BY <2>4, <2>5, <2>9
  <2> QED BY <1>2, <2>3, <2>6, <2>7, <2>8, <2>9 DEF PermCurrent
<1> QED BY <1>6, <1>7, <1>8, <1>9 DEF PermInv
\* A change is written.
LEMMA UpdateRowKeeps ==
    ASSUME PermInv, NEW q \in PermRequest, UpdateRow(q)
    PROVE  PermInv'
<1>0. PermTypeOK
  BY PermInvOf
<1>1. permReq[q].pc = "write" /\ permReq[q].op = "change"
      /\ UNCHANGED <<permRedis, permCache, rdDown>>
  BY DEF UpdateRow, Is
<1>2. CASE (UNCHANGED permCount \/ Fails) /\ Done(q) /\ UNCHANGED <<permRow, permHistory>>
  <2>1. UNCHANGED <<permRow, age, intended>>
    BY <1>2 DEF permHistory
  <2> QED BY <1>1, <1>2, <2>1, DoneKeeps
<1>3. CASE /\ UNCHANGED permCount
           /\ RowBecomes(q, {permReq[q].perms}, Apply(permReq[q].change, Held(intended)), "del redis")
  <2>1. PICK p \in Perms, c \in Change : p = permReq[q].perms /\ c = permReq[q].change
    BY <1>0, PermSays
  <2>2. PICK meant \in Perms : meant = Apply(c, Held(intended))
    BY <1>0, HeldIs, ApplyIs
  <2>3. RowBecomes(q, {p}, meant, "del redis")
    BY <1>3, <2>1, <2>2
  <2>4. {p} \in {{r} : r \in Perms} \cup {NoPerms} /\ Held({p}) = p
    BY <1>0, HeldIs
  <2>5. ~Overlapped => p = meant
    <3> SUFFICES ASSUME ~Overlapped PROVE p = meant
      OBVIOUS
    <3>1. PermCurrentFits(q) /\ Held(permRow) = Held(intended)
      BY DEF PermInv, PermCurrent
    <3> QED BY <1>1, <2>1, <2>2, <3>1 DEF PermCurrentFits
  <2> QED BY <1>1, <1>3, <2>3, <2>4, <2>5, RowBecomesKeeps
<1> QED BY <1>2, <1>3, Zenon DEF UpdateRow

\* A row is added, or the key was taken.
LEMMA InsertRowKeeps ==
    ASSUME PermInv, NEW q \in PermRequest, InsertRow(q)
    PROVE  PermInv'
<1>0. PermTypeOK /\ PermBoundsOK'
  BY PermInvOf, BoundsStay DEF InsertRow
<1>1. permReq[q].pc = "write" /\ permReq[q].op = "create"
      /\ UNCHANGED <<permRedis, permCache, rdDown>>
  BY DEF InsertRow, Is
<1>2. CASE permRow = NoPerms /\ RowBecomes(q, {{}}, {}, "del cache") /\ UNCHANGED permCount
  <2>1. {} \in Perms
    BY DEF Perms
  <2>2. {{}} \in {{r} : r \in Perms} \cup {NoPerms} /\ Held({{}}) = {} /\ Held(permRow) = {}
    BY <1>0, <1>2, <2>1, HeldIs
  <2> QED BY <1>1, <1>2, <2>1, <2>2, RowBecomesKeeps
<1>3. CASE Step(q, "del cache") /\ UNCHANGED <<permRow, permHistory>>
  <2>1. Step(q, "del cache") /\ UNCHANGED <<permRow, age, intended>> /\ "del cache" \in PermLabel
    BY <1>3 DEF permHistory, PermLabel
  <2>2. /\ permReq' \in [PermRequest -> PermJob] /\ permReq'[q].pc = "del cache"
        /\ \A o \in PermRequest \ {q} : permReq'[o] = permReq[o]
    BY <1>0, <2>1, StepSays
  <2>3. PermPlaceFits(q)' /\ PermAgeFits(q)' /\ PermCurrentFits(q)'
    BY <2>2 DEF PermPlaceFits, PermAgeFits, PermCurrentFits, LoadLabel, Fetched
  <2>4. ~Writing(q) /\ ~Loading(q)' /\ permReq'[q].pc # "del redis" /\ permReq[q].pc # "del redis"
    BY <1>1, <2>2 DEF Writing, Loading
  <2> QED BY <1>0, <1>1, <2>1, <2>2, <2>3, <2>4, PermStepKeeps
<1> QED BY <1>2, <1>3, Zenon DEF InsertRow

\* The row is taken out, or there was none.
LEMMA DeleteRowKeeps ==
    ASSUME PermInv, NEW q \in PermRequest, DeleteRow(q)
    PROVE  PermInv'
<1>0. PermTypeOK
  BY PermInvOf
<1>1. permReq[q].pc = "write" /\ permReq[q].op = "delete"
      /\ UNCHANGED <<permRedis, permCache, rdDown>>
  BY DEF DeleteRow, Is
<1>2. CASE (UNCHANGED permCount \/ Fails) /\ Done(q) /\ UNCHANGED <<permRow, permHistory>>
  <2>1. UNCHANGED <<permRow, age, intended>>
    BY <1>2 DEF permHistory
  <2> QED BY <1>1, <1>2, <2>1, DoneKeeps
<1>3. CASE RowBecomes(q, NoPerms, {}, "del redis") /\ UNCHANGED permCount
  <2>1. {} \in Perms /\ Held(NoPerms) = {}
    BY <1>0, HeldIs DEF Perms
  <2> QED BY <1>1, <1>3, <2>1, RowBecomesKeeps
<1> QED BY <1>2, <1>3, Zenon DEF DeleteRow

\* What the clock leaves of a copy.
LEMMA OlderIs ==
    ASSUME NEW c \in Copy
    PROVE  /\ Older(c) \in Copy
           /\ Valid(Older(c)) =>
                /\ Valid(c) /\ Older(c).perms = c.perms
                /\ Older(c).left = c.left - 1 /\ c.left \in {2, 3}
<1>1. c.left \in 0..3 /\ c.perms \in Perms
  BY DEF Copy, RedisTTL
<1>2. NoCopy \in Copy /\ ~Valid(NoCopy)
  BY DEF NoCopy, Copy, Perms, Valid, RedisTTL
<1>3. CASE c.left <= 1
  <2>1. Older(c) = NoCopy
    BY <1>3 DEF Older
  <2> QED BY <1>2, <2>1
<1>4. CASE ~(c.left <= 1)
  <2>1. Older(c) = [c EXCEPT !.left = c.left - 1]
    BY <1>4 DEF Older
  <2>2. c.left \in {2, 3} /\ c.left - 1 \in 0..3
    BY <1>1, <1>4
  <2>3. Older(c) \in Copy /\ Older(c).perms = c.perms /\ Older(c).left = c.left - 1
    BY <2>1, <2>2 DEF Copy, RedisTTL
  <2>4. Valid(c)
    BY <2>2 DEF Valid
  <2> QED BY <2>2, <2>3, <2>4
<1> QED BY <1>3, <1>4

\* The clock makes no set in use more than one tick older.
LEMMA PermTickAges ==
    ASSUME PermTypeOK, PermTick
    PROVE  /\ age' \in [Perms \ {{}} -> 0..MaxAge] /\ NotOlder(Held(permRow), 0)'
           /\ \A p \in Perms, n \in Nat : InUse(p) /\ NotOlder(p, n) => p = {} \/ age'[p] <= n + 1
<1>1. MaxAge = 7
  BY DEF MaxAge, MaxStale, CacheTTL, RedisTTL
<1>2. age \in [Perms \ {{}} -> 0..7]
  BY <1>1 DEF PermTypeOK
<1>3. PICK h \in Perms : h = Held(permRow) /\ h = Held(permRow)'
  <2>1. permRow' = permRow
    BY DEF PermTick
  <2> QED BY <2>1, HeldIs DEF Held
<1>4. age' = [p \in Perms \ {{}} |-> IF p = h THEN 0 ELSE IF InUse(p) /\ age[p] < 7 THEN age[p] + 1 ELSE 7]
  BY <1>1, <1>2, <1>3 DEF PermTick
<1>5. age' \in [Perms \ {{}} -> 0..7]
  BY <1>2, <1>4
<1>6. h = {} \/ age'[h] = 0
  BY <1>4
<1>7. NotOlder(Held(permRow), 0)'
  BY <1>3, <1>6 DEF NotOlder
<1>8. \A p \in Perms, n \in Nat : InUse(p) /\ NotOlder(p, n) => p = {} \/ age'[p] <= n + 1
  <2> SUFFICES ASSUME NEW p \in Perms, NEW n \in Nat, InUse(p), p # {}, age[p] <= n
               PROVE  age'[p] <= n + 1
    BY DEF NotOlder
  <2>1. age[p] \in 0..7
    BY <1>2
  <2>2. age'[p] = IF p = h THEN 0 ELSE IF age[p] < 7 THEN age[p] + 1 ELSE 7
    BY <1>4
  <2> QED BY <2>1, <2>2
<1> QED BY <1>1, <1>5, <1>7, <1>8

\* What the clock does to the requests.
LEMMA PermTickReqs ==
    ASSUME PermTypeOK, PermTick
    PROVE  /\ permReq' \in [PermRequest -> PermJob]
           /\ \A o \in PermRequest :
                /\ permReq'[o].pc = permReq[o].pc
                /\ permReq[o].pc # "idle" =>
                     /\ permReq'[o].op = permReq[o].op /\ permReq'[o].perms = permReq[o].perms
                     /\ permReq'[o].since = permReq[o].since /\ permReq'[o].change = permReq[o].change
                     /\ ~permReq[o].ticked /\ permReq'[o].ticked
<1>1. permReq' = [o \in PermRequest |-> permReq'[o]]
  BY DEF PermTick
<1>2. ASSUME NEW o \in PermRequest
      PROVE  /\ permReq'[o] \in PermJob /\ permReq'[o].pc = permReq[o].pc
             /\ permReq[o].pc # "idle" =>
                  /\ permReq'[o].op = permReq[o].op /\ permReq'[o].perms = permReq[o].perms
                  /\ permReq'[o].since = permReq[o].since /\ permReq'[o].change = permReq[o].change
                  /\ ~permReq[o].ticked /\ permReq'[o].ticked
  <2>1. CASE permReq[o].pc = "idle"
    <3>1. permReq'[o] = IdleRequest
      BY <2>1 DEF PermTick, Is
    <3> QED BY <2>1, <3>1, IdleSays
  <2>2. CASE permReq[o].pc # "idle"
    <3>1. PICK r \in PermJob : r = permReq[o]
      BY PermSays
    <3>2. permReq'[o] = [r EXCEPT !.ticked = TRUE] /\ ~r.ticked
      BY <2>2, <3>1 DEF PermTick, Is
    <3> QED BY <3>1, <3>2 DEF PermJob
  <2> QED BY <2>1, <2>2
<1> QED BY <1>1, <1>2

\* Half a minute passes.
LEMMA PermTickKeeps ==
    ASSUME PermInv, PermTick
    PROVE  PermInv'
<1>0. PermTypeOK
  BY DEF PermInv
<1>1. /\ age' \in [Perms \ {{}} -> 0..MaxAge] /\ NotOlder(Held(permRow), 0)'
      /\ \A p \in Perms, n \in Nat : InUse(p) /\ NotOlder(p, n) => p = {} \/ age'[p] <= n + 1
  BY <1>0, PermTickAges
<1>2. /\ permReq' \in [PermRequest -> PermJob]
      /\ \A o \in PermRequest :
           /\ permReq'[o].pc = permReq[o].pc
           /\ permReq[o].pc # "idle" =>
                /\ permReq'[o].op = permReq[o].op /\ permReq'[o].perms = permReq[o].perms
                /\ permReq'[o].since = permReq[o].since /\ permReq'[o].change = permReq[o].change
                /\ ~permReq[o].ticked /\ permReq'[o].ticked
  BY <1>0, PermTickReqs
<1>3. permRow' = permRow /\ intended' = intended /\ permCount' = permCount
      /\ permRedis' = Older(permRedis) /\ permCache' = Older(permCache)
  BY DEF PermTick
<1>4. /\ permRedis' \in Copy
      /\ Valid(permRedis)' => /\ Valid(permRedis) /\ permRedis'.perms = permRedis.perms
                              /\ permRedis'.left = permRedis.left - 1 /\ permRedis.left \in {2, 3}
  BY <1>0, <1>3, CopySays, OlderIs DEF Valid
<1>5. /\ permCache' \in Copy
      /\ Valid(permCache)' => /\ Valid(permCache) /\ permCache'.perms = permCache.perms
                              /\ permCache'.left = permCache.left - 1 /\ permCache.left \in {2, 3}
  BY <1>0, <1>3, CopySays, OlderIs DEF Valid
<1>6. PermTypeOK'
  <2>1. rdDown' \in 0..Cooldown + 1
    BY <1>0 DEF PermTick, PermTypeOK, Cooldown
  <2>2. {permRow', intended'} \subseteq {{p} : p \in Perms} \cup {NoPerms}
        /\ permCount' \in [begun : 0..MaxPermRequests, fails : 0..MaxPermFails]
    BY <1>0, <1>3 DEF PermTypeOK
  <2> QED BY <1>1, <1>2, <1>4, <1>5, <2>1, <2>2 DEF PermTypeOK, PermJob
<1>7. \A o \in PermRequest : PermPlaceFits(o)'
  <2> SUFFICES ASSUME NEW o \in PermRequest PROVE PermPlaceFits(o)'
    OBVIOUS
  <2>1. PermPlaceFits(o)
    BY PermInvOf
  <2> QED BY <1>2, <2>1 DEF PermPlaceFits, LoadLabel
<1>8. PermAgeInv'
  <2>1. Valid(permRedis)' => NotOlder(permRedis.perms, 4 - permRedis.left)'
    <3> SUFFICES ASSUME Valid(permRedis)' PROVE NotOlder(permRedis.perms, 4 - permRedis.left)'
      OBVIOUS
    <3>1. PICK p \in Perms, n \in Nat : p = permRedis.perms /\ n = 4 - permRedis.left
      BY <1>0, CopySays, CopyAges
    <3>2. NotOlder(p, n) /\ InUse(p)
      BY <1>4, <3>1 DEF PermInv, PermAgeInv, InUse
    <3>3. p = {} \/ age'[p] <= n + 1
      BY <1>1, <3>2
    <3>4. 4 - permRedis'.left = n + 1 /\ permRedis'.perms = p
      BY <1>4, <3>1
    <3> QED BY <3>3, <3>4, Zenon DEF NotOlder
  <2>2. Valid(permCache)' => NotOlder(permCache.perms, 6 - permCache.left)'
    <3> SUFFICES ASSUME Valid(permCache)' PROVE NotOlder(permCache.perms, 6 - permCache.left)'
      OBVIOUS
    <3>1. PICK p \in Perms, n \in Nat : p = permCache.perms /\ n = 6 - permCache.left
      BY <1>0, CopySays, CopyAges
    <3>2. NotOlder(p, n) /\ InUse(p)
      BY <1>5, <3>1 DEF PermInv, PermAgeInv, InUse
    <3>3. p = {} \/ age'[p] <= n + 1
      BY <1>1, <3>2
    <3>4. 6 - permCache'.left = n + 1 /\ permCache'.perms = p
      BY <1>5, <3>1
    <3> QED BY <3>3, <3>4, Zenon DEF NotOlder
  <2>3. ASSUME NEW o \in PermRequest PROVE PermAgeFits(o)'
    <3>1. PermAgeFits(o) /\ PermPlaceFits(o)
      BY PermInvOf
    <3>2. CASE permReq[o].pc \notin Fetched
      BY <1>2, <3>2 DEF PermAgeFits, Fetched
    <3>3. CASE permReq[o].pc \in Fetched
      <4>0. permReq[o].pc # "idle"
        BY <3>3 DEF Fetched
      <4>1. PICK p \in Perms : p = permReq[o].perms
        BY <1>0, PermSays
      <4>2. InUse(p)
        BY <3>1, <3>3, <4>1 DEF InUse, Loading, Fetched, LoadLabel, PermPlaceFits
      <4>3. Ticks(o) = 0 /\ Ticks(o)' = 1 /\ permReq'[o].perms = p /\ permReq'[o].pc = permReq[o].pc
        BY <1>2, <4>0, <4>1 DEF Ticks
      <4>4. \A n \in Nat : NotOlder(p, n) => NotOlder(permReq[o].perms, n + 1)'
        BY <1>1, <4>2, <4>3 DEF NotOlder
      <4>5. PICK t, u : t = Ticks(o) /\ u = Ticks(o)' /\ t + 1 = u /\ (3 + t) + 1 = 3 + u /\ (5 + t) + 1 = 5 + u
        BY <4>3
      <4>6. t \in Nat /\ 3 + t \in Nat /\ 5 + t \in Nat
        BY <4>5, TicksAre
      <4>7. permReq[o].pc \in {"fill", "fill redis"} => NotOlder(permReq[o].perms, u)'
        <5>1. permReq[o].pc \in {"fill", "fill redis"} => NotOlder(p, t)
          BY <3>1, <4>1, <4>5 DEF PermAgeFits
        <5>2. NotOlder(p, t) => NotOlder(permReq[o].perms, t + 1)'
          BY <4>4, <4>6
        <5> QED BY <4>5, <5>1, <5>2
      <4>8. permReq[o].pc = "fill from redis" => NotOlder(permReq[o].perms, 3 + u)'
        <5>1. permReq[o].pc = "fill from redis" => NotOlder(p, 3 + t)
          BY <3>1, <4>1, <4>5, Zenon DEF PermAgeFits
        <5>2. NotOlder(p, 3 + t) => NotOlder(permReq[o].perms, (3 + t) + 1)'
          BY <4>4, <4>6
        <5> QED BY <4>5, <5>1, <5>2, Zenon
      <4>9. permReq[o].pc = "loaded" => NotOlder(permReq[o].perms, 5 + u)'
        <5>1. permReq[o].pc = "loaded" => NotOlder(p, 5 + t)
          BY <3>1, <4>1, <4>5, Zenon DEF PermAgeFits
        <5>2. NotOlder(p, 5 + t) => NotOlder(permReq[o].perms, (5 + t) + 1)'
          BY <4>4, <4>6
        <5> QED BY <4>5, <5>1, <5>2, Zenon
      <4>10. permReq[o].pc = "absent" => permReq'[o].perms = {}
        BY <3>1, <4>1, <4>3 DEF PermAgeFits
      <4> QED BY <4>3, <4>5, <4>7, <4>8, <4>9, <4>10, Zenon DEF PermAgeFits
    <3> QED BY <3>2, <3>3
  <2> QED BY <1>1, <2>1, <2>2, <2>3 DEF PermAgeInv
<1>9. ASSUME ~Overlapped' PROVE PermCurrent'
  <2>1. PermCurrent
    BY <1>3, <1>9 DEF PermInv, Overlapped
  <2>2. \A o \in PermRequest : PermCurrentFits(o)'
    <3> SUFFICES ASSUME NEW o \in PermRequest PROVE PermCurrentFits(o)'
      OBVIOUS
    <3>1. PermCurrentFits(o)
      BY <2>1 DEF PermCurrent
    <3>2. CASE permReq[o].pc = "idle"
      BY <1>2, <3>2 DEF PermCurrentFits, LoadLabel, Fetched
    <3>3. CASE permReq[o].pc # "idle"
      BY <1>2, <1>3, <3>1, <3>3 DEF PermCurrentFits
    <3> QED BY <3>2, <3>3
  <2>3. \A o \in PermRequest : Is(o, "del redis")' <=> Is(o, "del redis")
    BY <1>2 DEF Is
  <2>4. \A o \in PermRequest : Writing(o)' <=> Writing(o)
    BY <1>2 DEF Writing
  <2>5. \A o \in PermRequest : Loading(o)' => Loading(o)
    <3> SUFFICES ASSUME NEW o \in PermRequest, Loading(o)' PROVE Loading(o)
      OBVIOUS
    <3>1. permReq[o].pc # "idle"
      BY <1>2 DEF Loading
    <3> QED BY <1>2, <3>1 DEF Loading
  <2>6. \A o \in PermRequest : Is(o, "cache")' <=> Is(o, "cache")
    BY <1>2 DEF Is
  <2>7. Held(permRow)' = Held(intended)' /\ Held(permRow)' = Held(permRow)
    BY <1>3, <2>1 DEF PermCurrent, Held
  <2>8. (\A o \in PermRequest : ~Is(o, "del redis")') /\ Valid(permRedis)' => permRedis'.perms = Held(permRow)'
    BY <1>4, <2>1, <2>3, <2>7 DEF PermCurrent
  <2>9. (\A o \in PermRequest : ~Writing(o)') /\ Valid(permCache)' => permCache'.perms = Held(permRow)'
    BY <1>5, <2>1, <2>4, <2>7 DEF PermCurrent
  <2>10. \A w, o \in PermRequest : Is(w, "del redis")' /\ Loading(o)' => Is(o, "cache")'
    BY <2>1, <2>3, <2>5, <2>6 DEF PermCurrent
  <2> QED BY <2>2, <2>7, <2>8, <2>9, <2>10 DEF PermCurrent
<1> QED BY <1>6, <1>7, <1>8, <1>9 DEF PermInv

\* A request that changes nothing.
LEMMA IdleChange == NoChange \in Change
BY PermAssumption DEF NoChange, Change, Perms

\* Every step keeps the invariant.
LEMMA PermNextKeeps ==
    ASSUME PermInv, PermNext
    PROVE  PermInv'
<1>1. ASSUME NEW q \in PermRequest, BeginUse(q) PROVE PermInv'
  BY <1>1, BeginPermKeeps, IdleChange DEF BeginUse
<1>2. ASSUME NEW q \in PermRequest, BeginChange(q) PROVE PermInv'
  BY <1>2, BeginPermKeeps DEF BeginChange
<1>3. ASSUME NEW q \in PermRequest, BeginCreate(q) PROVE PermInv'
  BY <1>3, BeginPermKeeps, IdleChange DEF BeginCreate
<1>4. ASSUME NEW q \in PermRequest, BeginDelete(q) PROVE PermInv'
  BY <1>4, BeginPermKeeps, IdleChange DEF BeginDelete
<1>5. ASSUME NEW q \in PermRequest,
             \/ FindAccount(q) \/ LoadFromCache(q) \/ LoadFromRedis(q) \/ LoadFromRow(q)
             \/ FillPermCache(q) \/ FillPermRedis(q) \/ Decide(q) \/ ChangeCopy(q)
      PROVE  PermInv'
  BY <1>5, FindAccountKeeps, LoadFromCacheKeeps, LoadFromRedisKeeps, LoadFromRowKeeps,
     FillPermCacheKeeps, FillPermRedisKeeps, DecideKeeps, ChangeCopyKeeps
<1>6. ASSUME NEW q \in PermRequest,
             UpdateRow(q) \/ InsertRow(q) \/ DeleteRow(q) \/ DropRedisCopy(q) \/ DropCacheCopy(q)
      PROVE  PermInv'
  BY <1>6, UpdateRowKeeps, InsertRowKeeps, DeleteRowKeeps, DropRedisCopyKeeps, DropCacheCopyKeeps
<1>7. CASE PermTick
  BY <1>7, PermTickKeeps
<1> QED BY <1>1, <1>2, <1>3, <1>4, <1>5, <1>6, <1>7 DEF PermNext

\* A step of nothing keeps it too.
LEMMA PermStutters ==
    ASSUME PermInv, UNCHANGED permVars
    PROVE  PermInv'
<1>1. PermTypeOK' /\ (Overlapped' <=> Overlapped)
  BY DEF PermInv, permVars, PermTypeOK, Overlapped
<1>2. \A q \in PermRequest : PermPlaceFits(q)' /\ (PermAgeFits(q)' <=> PermAgeFits(q))
  BY DEF PermInv, permVars, PermPlaceFits, PermAgeFits, NotOlder, Ticks
<1>3. PermAgeInv'
  BY <1>2 DEF PermInv, permVars, PermAgeInv, NotOlder, Valid, Held
<1>4. PermCurrent => PermCurrent'
  BY DEF permVars, PermCurrent, PermCurrentFits, Valid, Held, Is, Writing, Loading
<1> QED BY <1>1, <1>2, <1>3, <1>4 DEF PermInv

\* So does every step, and a step of nothing.
LEMMA PermStays == PermInv /\ [PermNext]_permVars => PermInv'
BY PermNextKeeps, PermStutters

----------------------------------------------------------------------------
(* The three together.                                                     *)

\* All three begin well.
LEMMA CredentialsBegin == Init => PermInv /\ LimiterInv /\ VaultInv
BY PermBegins, LimiterBegins, VaultInvInductive DEF Init

\* A step of the run is one of each, or leaves it alone.
LEMMA CredentialsStep ==
    ASSUME [Next]_<<part, permVars, limiterVars, vaultVars>>
    PROVE  [PermNext]_permVars /\ [LimiterNext]_limiterVars /\ [VaultNext]_vaultVars
BY DEF Next

\* TypeOK: every variable of the part that runs keeps to its type.
THEOREM CredentialsTypeCorrect == Spec => []TypeOK
<1> DEFINE CInv == PermInv /\ LimiterInv /\ VaultInv
<1>1. Init => CInv
  BY CredentialsBegin
<1>2. CInv /\ [Next]_<<part, permVars, limiterVars, vaultVars>> => CInv'
  BY CredentialsStep, PermStays, LimiterStays, VaultInvInductive
<1>3. CInv => TypeOK
  BY PermInvHolds, LimiterInvHolds DEF VaultInv, TypeOK
<1> QED BY <1>1, <1>2, <1>3, PTL DEF Spec

\* PermissionsHold: what a request is checked against is current outside the windows that
\* the model names, and never staler than the time limits of the copies add up to; and the
\* read-modify-write of handleAccountPermissions keeps the endpoints it does not change.
THEOREM PermissionsAreSafe == Spec => []PermissionsHold
<1>1. Init => PermInv
  BY CredentialsBegin
<1>2. PermInv /\ [Next]_<<part, permVars, limiterVars, vaultVars>> => PermInv'
  BY CredentialsStep, PermStays
<1>3. PermInv => PermissionsHold
  BY PermInvHolds DEF PermissionsHold
<1> QED BY <1>1, <1>2, <1>3, PTL DEF Spec
============================================================================
