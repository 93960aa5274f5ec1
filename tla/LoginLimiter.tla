--------------------------- MODULE LoginLimiter ---------------------------
(***************************************************************************)
(* The limiter of the login: failures are counted in one table under the   *)
(* pair of account and address and under the address alone, a key is       *)
(* locked at its limit.  A login asks the table, checks the password and   *)
(* counts or clears in three critical sections of their own, so that       *)
(* logins overlap.                                                         *)
(*                                                                         *)
(* Time is in ticks; accountLoginWindow and accountLoginLockout are the    *)
(* same number of them.  An entry holds the age of its window and what is  *)
(* left of its lock.                                                       *)
(***************************************************************************)
EXTENDS Naturals, FiniteSets

CONSTANTS
    User, Address,
    Login,         \* logins that run at the same time
    MaxFails,      \* accountLoginMaxFails
    MaxFailsIP,    \* accountLoginMaxFailsIP
    MaxKeys,       \* accountLoginMaxKeys
    Window,        \* accountLoginWindow and accountLoginLockout, in ticks
    MaxCount       \* bound of a counter

\* Two keys are added at a time, and the table never shrinks below one less.
ASSUME LimiterAssumption ==
    /\ MaxKeys \in Nat \ {0, 1} /\ IsFiniteSet(Login)
    /\ {MaxFails, MaxFailsIP, Window, MaxCount} \subseteq Nat \ {0}

VARIABLES
    loginFails, \* the table: key -> entry, for the keys it has
    attempt,    \* per login: where it is and under which keys it is counted
    lockLeft,   \* history: what is left of the last lock imposed on a key
    crossed     \* history: locked keys that a login under way, or an eviction, undid

limiterVars == <<loginFails, attempt, lockLeft, crossed>>

Key == (User \X Address) \cup Address
Keys(l) == attempt[l].keys
Limit(k) == IF k \in Address THEN MaxFailsIP ELSE MaxFails

\* Beyond the age at which an entry is purged, ages are not told apart.
MaxWindowAge == 2 * Window + 1
Entry == [age : 0..MaxWindowAge, count : 0..MaxCount, left : 0..Window]
NewEntry == [age |-> 0, count |-> 0, left |-> 0]

Out == [pc |-> "out", keys |-> {}, ticked |-> FALSE]

LimiterTypeOK ==
    /\ DOMAIN loginFails \subseteq Key /\ \A k \in DOMAIN loginFails : loginFails[k] \in Entry
    /\ attempt \in [Login -> [pc : {"out", "asked", "purged"}, keys : SUBSET Key,
                              ticked : BOOLEAN]]
    /\ lockLeft \in [Key -> 0..Window] /\ crossed \subseteq Key

LimiterInit ==
    /\ loginFails = [k \in {} |-> NewEntry]
    /\ attempt = [l \in Login |-> Out]
    /\ lockLeft = [k \in Key |-> 0] /\ crossed = {}

Blocked(k) == k \in DOMAIN loginFails /\ loginFails[k].left > 0
Dropping(keys) == [k \in DOMAIN loginFails \ keys |-> loginFails[k]]

\* An entry is stale when its window began before the window and the lockout.
FaultStaleIgnoresLockout == {k \in DOMAIN loginFails : loginFails[k].age > Window}
Stale == {k \in DOMAIN loginFails : loginFails[k].age > 2 * Window}

----------------------------------------------------------------------------

\* handleAccountLogin, loginBlocked: either key locked ends it.
Ask(l, u, a) ==
    /\ attempt[l].pc = "out"
    /\ ~Blocked(<<u, a>>) /\ ~Blocked(a)
    /\ attempt' = [attempt EXCEPT ![l] = [pc |-> "asked", keys |-> {<<u, a>>, a},
                                          ticked |-> FALSE]]
    /\ UNCHANGED <<loginFails, lockLeft, crossed>>

\* purgeLoginFails, at the end of purgeExpiredSessions.
PurgeLoginFails(l) ==
    /\ attempt[l].pc = "asked"
    /\ loginFails' = Dropping(Stale)
    /\ attempt' = [attempt EXCEPT ![l].pc = "purged"]
    /\ UNCHANGED <<lockLeft, crossed>>

FaultNeverEvicts == {{}}

\* What is taken out of a table that is full: the stale entries, then, until
\* there is room, the entries whose window began first.
Evicted ==
    LET kept == DOMAIN loginFails \ Stale
        excess == Cardinality(kept) - (MaxKeys - 1)
    IN  IF Cardinality(DOMAIN loginFails) < MaxKeys THEN {{}}
        ELSE IF excess <= 0 THEN {Stale}
        ELSE {Stale \cup out : out \in {o \in SUBSET kept :
                 /\ Cardinality(o) = excess
                 /\ \A k \in o, other \in kept \ o : loginFails[k].age >= loginFails[other].age}}

FaultCountedLocksOnce(e, k) ==
    LET fresh == IF e.age > Window THEN NewEntry ELSE e
        count == fresh.count + 1
    IN  [fresh EXCEPT !.count = count,
                      !.left = IF count = Limit(k) THEN Window ELSE @]

\* One key of a failure: an old window is begun anew, lock and all; at the limit
\* the key is locked.
Counted(e, k) ==
    LET fresh == IF e.age > Window THEN NewEntry ELSE e
        count == fresh.count + 1
    IN  [fresh EXCEPT !.count = count,
                      !.left = IF count >= Limit(k) THEN Window ELSE @]

\* recordLoginFailure, for both keys; a locked key it evicts, or whose window it
\* begins anew, is in a window of LockHolds.
RecordFailure(l) ==
    /\ attempt[l].pc = "purged"
    /\ \E out \in Evicted :
        LET kept == DOMAIN loginFails \ out
            new == [k \in Keys(l) |->
                       Counted(IF k \in kept THEN loginFails[k] ELSE NewEntry, k)]
            locked == {k \in Keys(l) : new[k].count >= Limit(k)}
        IN  /\ loginFails' = [k \in kept \cup Keys(l) |->
                   IF k \in Keys(l) THEN new[k] ELSE loginFails[k]]
            /\ lockLeft' = [k \in Key |-> IF k \in locked THEN Window ELSE lockLeft[k]]
            /\ crossed' = (crossed \cup {k \in out \cup Keys(l) : Blocked(k)}) \ locked
    /\ \A k \in Keys(l) : k \in DOMAIN loginFails => loginFails[k].count < MaxCount
    /\ attempt' = [attempt EXCEPT ![l] = Out]

\* clearLoginFailures: the keys of a login that succeeded, though another one
\* may have locked them since it asked.
ClearFailures(l) ==
    /\ attempt[l].pc = "purged"
    /\ loginFails' = Dropping(Keys(l))
    /\ crossed' = crossed \cup {k \in Keys(l) : Blocked(k)}
    /\ attempt' = [attempt EXCEPT ![l] = Out]
    /\ UNCHANGED lockLeft

\* A login is over within one tick.
LimiterTick ==
    /\ \A l \in Login : ~attempt[l].ticked
    /\ attempt' = [l \in Login |-> IF attempt[l].pc = "out" THEN Out
                                   ELSE [attempt[l] EXCEPT !.ticked = TRUE]]
    /\ loginFails' = [k \in DOMAIN loginFails |->
           LET e == loginFails[k]
           IN  [e EXCEPT !.age = IF @ = MaxWindowAge THEN @ ELSE @ + 1,
                         !.left = IF @ = 0 THEN 0 ELSE @ - 1]]
    /\ lockLeft' = [k \in Key |-> IF lockLeft[k] = 0 THEN 0 ELSE lockLeft[k] - 1]
    /\ crossed' = {k \in crossed : lockLeft'[k] > 0}

LimiterNext ==
    \/ \E l \in Login :
        \/ \E u \in User, a \in Address : Ask(l, u, a)
        \/ PurgeLoginFails(l) \/ RecordFailure(l) \/ ClearFailures(l)
    \/ LimiterTick

LimiterSpec == LimiterInit /\ [][LimiterNext]_limiterVars

----------------------------------------------------------------------------
(* Properties                                                              *)

\* A lock lasts its whole time: neither the purge, which looks at the window
\* only, nor a window that is begun anew ends it early.  A login that had asked
\* before the lock and the eviction from a full table are the windows.
LockHolds == \A k \in Key \ crossed : lockLeft[k] > 0 => Blocked(k) /\ loginFails[k].left = lockLeft[k]

\* The table is bounded though every failure adds two keys and room is made for
\* one: it has one key more than accountLoginMaxKeys at most.
TableIsBounded == Cardinality(DOMAIN loginFails) <= MaxKeys + 1

\* The limit is passed only by logins that ran at the same time: a window counts
\* the failures that lock the key, those of the other logins that had asked
\* before, and once more when the lock ends together with the window.
CountIsBounded ==
    \A k \in DOMAIN loginFails : loginFails[k].count < Limit(k) + 2 * Cardinality(Login)

\* The limiter as a whole.
LimiterHolds == LockHolds /\ TableIsBounded /\ CountIsBounded

----------------------------------------------------------------------------
(* accountLoginMaxKeys is called the maximum of the table, and a lock lasts *)
(* accountLoginLockout.  The code keeps neither in full.                    *)

TableWithinMaxKeys == Cardinality(DOMAIN loginFails) <= MaxKeys
LocksLastThroughout == \A k \in Key : lockLeft[k] > 0 => Blocked(k)
=============================================================================
