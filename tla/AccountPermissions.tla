------------------------ MODULE AccountPermissions ------------------------
(***************************************************************************)
(* The endpoint permissions of one account that is not an administrator.   *)
(* They are a column of its row and are copied into Redis and into a cache *)
(* of the process.  Every request of the account loads them                *)
(* (loadPermissions); an administrator changes some of them by loading     *)
(* them, changing the loaded copy and writing it back whole.               *)
(*                                                                         *)
(* Permissions are the set of the endpoints that are switched on.  Time is *)
(* what is left of every deadline, in ticks of 30 seconds:                 *)
(* accountPermCacheTTL and accountRedisCoold are one tick, accountPermTTL  *)
(* is two.                                                                 *)
(***************************************************************************)
EXTENDS Naturals, FiniteSets

CONSTANTS
    Endpoint,       \* the permission catalog: one group of endpoints
    PermRequest,    \* requests that run at the same time
    MaxPermRequests, \* bound of the requests that are begun
    MaxPermFails    \* bound of the calls of Redis and the statements of SQL that fail

ASSUME PermAssumption == Endpoint # {} /\ MaxPermRequests \in Nat /\ MaxPermFails \in Nat

VARIABLES
    permRow,     \* the rows of the account: none, or one with this column
    permRedis,   \* Redis' copy and how long it still lives
    permCache,   \* the copy of the process and how long it still lives
    rdDown,      \* how long Redis is left alone
    permReq,     \* per request: where it is and what it holds
    permCount,   \* the requests begun and the failures, for the bounds
    intended,    \* history: the column if every change touched only its endpoints,
                 \* none after a window of PermissionsAreCurrent was met
    age          \* history: the ticks since each set of permissions was the column;
                 \* none at all may be as old as it likes

permVars == <<permRow, permRedis, permCache, rdDown, permReq, permCount,
              intended, age>>
permHistory == <<intended, age>>

NoPerms == {}
NoCopy == [perms |-> {}, left |-> 0]
CacheTTL == 1
RedisTTL == 2
Cooldown == 1

Perms == SUBSET Endpoint
Copy == [perms : Perms, left : 0..RedisTTL + 1]
CopyFor(perms, ttl) == [perms |-> perms, left |-> ttl + 1]
Older(copy) == IF copy.left <= 1 THEN NoCopy ELSE [copy EXCEPT !.left = @ - 1]

\* Ages are told apart up to one more than what a check may meet.
MaxStale == CacheTTL + RedisTTL + 3
MaxAge == MaxStale + 1

\* What a change does to the copy it has loaded.
Change == [keys : Perms \ {{}}, on : BOOLEAN]
NoChange == [keys |-> Endpoint, on |-> TRUE]
Apply(c, perms) == IF c.on THEN perms \cup c.keys ELSE perms \ c.keys

\* since holds the values of the column while the request has run (history),
\* ticked whether the clock has moved since it began.
IdleRequest == [pc |-> "idle", op |-> "use", change |-> NoChange, perms |-> {},
                since |-> {}, ticked |-> FALSE]

PermLabel == {"idle", "account", "cache", "redis", "sql", "fill from redis", "fill",
              "fill redis", "absent", "loaded", "write", "del redis", "del cache"}

PermTypeOK ==
    /\ {permRow, intended} \subseteq {{p} : p \in Perms} \cup {NoPerms}
    /\ {permRedis, permCache} \subseteq Copy
    /\ rdDown \in 0..Cooldown + 1
    /\ permReq \in [PermRequest ->
           [pc : PermLabel, op : {"use", "change", "create", "delete"}, change : Change,
            perms : Perms, since : SUBSET Perms, ticked : BOOLEAN]]
    /\ permCount \in [begun : 0..MaxPermRequests, fails : 0..MaxPermFails]
    /\ age \in [Perms \ {{}} -> 0..MaxAge]

\* What a check reads off a column: an account that is not there may do nothing.
Held(row) == UNION row

\* A new account has no permissions.
PermInit ==
    /\ permRow = {{}}
    /\ permRedis = NoCopy /\ permCache = NoCopy /\ rdDown = 0
    /\ permReq = [q \in PermRequest |-> IdleRequest]
    /\ permCount = [begun |-> 0, fails |-> 0]
    /\ intended = permRow
    /\ age = [p \in Perms \ {{}} |-> MaxAge]

Is(q, l) == permReq[q].pc = l
Step(q, l) == permReq' = [permReq EXCEPT ![q].pc = l]
StepWith(q, l, p) == permReq' = [permReq EXCEPT ![q].pc = l, ![q].perms = p]
Done(q) == permReq' = [permReq EXCEPT ![q] = IdleRequest]

Loading(q) == permReq[q].pc \in {"cache", "redis", "sql", "fill from redis", "fill",
                                 "fill redis", "absent", "loaded", "write"}
               /\ permReq[q].op \in {"use", "change"}
Writing(q) == permReq[q].pc \in {"del redis", "del cache"}

\* Whether a copy may still be read: now.After(expires) is false.
Valid(copy) == copy.left > 0

\* The age of permissions that no copy and no request holds is of no interest.
InUse(perms) ==
    \/ Valid(permRedis) /\ permRedis.perms = perms
    \/ Valid(permCache) /\ permCache.perms = perms
    \/ \E q \in PermRequest : Loading(q) /\ permReq[q].perms = perms

Overlapped == intended = NoPerms

\* A call of Redis or a statement of SQL fails.
Fails == permCount.fails < MaxPermFails /\ permCount' = [permCount EXCEPT !.fails = @ + 1]

----------------------------------------------------------------------------
(* Requests begin.  A load that begins while a write has not cleaned the   *)
(* copies yet is in a window.                                              *)

BeginPerm(q, op, pc, c) ==
    /\ Is(q, "idle") /\ permCount.begun < MaxPermRequests
    /\ permCount' = [permCount EXCEPT !.begun = @ + 1]
    /\ permReq' = [permReq EXCEPT ![q] =
           [IdleRequest EXCEPT !.pc = pc, !.op = op, !.change = c,
                               !.since = IF op = "use" /\ ~Overlapped THEN {Held(permRow)} ELSE {}]]
    /\ UNCHANGED <<permRow, permRedis, permCache, rdDown, permHistory>>

\* permAllowed, for any endpoint of the catalog.
BeginUse(q) == BeginPerm(q, "use", "cache", NoChange)

\* handleAccountPermissions: a group of endpoints is switched, or single ones.
BeginChange(q) == \E c \in Change : BeginPerm(q, "change", "account", c)

\* handleAccountCreate and handleAccountDelete, when they reach the table.
BeginCreate(q) == BeginPerm(q, "create", "write", NoChange)
BeginDelete(q) == BeginPerm(q, "delete", "write", NoChange)

\* getAccount: 404 if there is no row, 500 if the query fails.
FindAccount(q) ==
    /\ Is(q, "account")
    /\ \/ permRow = NoPerms /\ Done(q) /\ UNCHANGED permCount
       \/ permRow # NoPerms /\ Step(q, "cache") /\ UNCHANGED permCount
       \/ Fails /\ Done(q)
    /\ UNCHANGED <<permRow, permRedis, permCache, rdDown, permHistory>>

----------------------------------------------------------------------------
(* loadPermissions                                                         *)

\* cachedPerms returns a copy: changing it does not change the cache.
LoadFromCache(q) ==
    /\ Is(q, "cache")
    /\ IF Valid(permCache) THEN StepWith(q, "loaded", permCache.perms) ELSE Step(q, "redis")
    /\ intended' = IF \E other \in PermRequest : Writing(other) THEN NoPerms ELSE intended
    /\ UNCHANGED <<permRow, permRedis, permCache, rdDown, permCount, age>>

\* redisReady: the cooldown after a failure is over.
Ready == rdDown = 0
CallFails == Fails /\ rdDown' = Cooldown + 1

\* redisGetPerms, if Redis is asked and answers; otherwise the row is read.
LoadFromRedis(q) ==
    /\ Is(q, "redis")
    /\ \/ /\ Ready /\ Valid(permRedis)
          /\ StepWith(q, "fill from redis", permRedis.perms)
          /\ UNCHANGED <<rdDown, permCount>>
       \/ /\ Ready => ~Valid(permRedis)
          /\ Step(q, "sql") /\ UNCHANGED <<rdDown, permCount>>
       \/ /\ Ready /\ CallFails /\ Step(q, "sql")
    /\ UNCHANGED <<permRow, permRedis, permCache, permHistory>>

\* getAccount, the authority.  A query that fails is taken for an account that is
\* not there: the account has no permissions while the copy lives, and a change
\* that starts from them writes the others out, which is a window.
LoadFromRow(q) ==
    /\ Is(q, "sql")
    /\ \/ /\ StepWith(q, IF permRow = NoPerms THEN "absent" ELSE "fill", Held(permRow))
          /\ UNCHANGED <<permCount, intended>>
       \/ Fails /\ StepWith(q, "absent", {}) /\ intended' = NoPerms
    /\ UNCHANGED <<permRow, permRedis, permCache, rdDown, age>>

\* cachePerms stores a copy.  What came from Redis, or from no row, stays here;
\* what came from the row goes on to Redis.
FillPermCache(q) ==
    /\ permReq[q].pc \in {"fill from redis", "fill", "absent"}
    /\ permCache' = CopyFor(permReq[q].perms, CacheTTL)
    /\ Step(q, IF Is(q, "fill") THEN "fill redis" ELSE "loaded")
    /\ UNCHANGED <<permRow, permRedis, rdDown, permCount, permHistory>>

\* redisSetPerms, as far as Redis is ready and answers.
FillPermRedis(q) ==
    /\ Is(q, "fill redis") /\ Step(q, "loaded")
    /\ \/ /\ Ready /\ permRedis' = CopyFor(permReq[q].perms, RedisTTL)
          /\ UNCHANGED <<rdDown, permCount>>
       \/ ~Ready /\ UNCHANGED <<permRedis, rdDown, permCount>>
       \/ Ready /\ CallFails /\ UNCHANGED permRedis
    /\ UNCHANGED <<permRow, permCache, permHistory>>

----------------------------------------------------------------------------
(* What the loaded permissions are used for.                               *)

\* permAllowed has decided.
Decide(q) ==
    /\ Is(q, "loaded") /\ permReq[q].op = "use"
    /\ Done(q)
    /\ UNCHANGED <<permRow, permRedis, permCache, rdDown, permCount, permHistory>>

FaultChangesSharedMap(q) ==
    /\ Is(q, "loaded") /\ permReq[q].op = "change"
    /\ LET changed == Apply(permReq[q].change, permReq[q].perms)
       IN  /\ permCache' = IF Valid(permCache) THEN [permCache EXCEPT !.perms = changed] ELSE permCache
           /\ StepWith(q, "write", changed) \/ Done(q)
    /\ UNCHANGED <<permRow, permRedis, rdDown, permCount, permHistory>>

\* The handler changes its copy, key by key; a key that is not in the catalog
\* ends it when others have been changed.
ChangeCopy(q) ==
    /\ Is(q, "loaded") /\ permReq[q].op = "change"
    /\ \/ StepWith(q, "write", Apply(permReq[q].change, permReq[q].perms))
       \/ Done(q)
    /\ UNCHANGED <<permRow, permRedis, permCache, rdDown, permCount, permHistory>>

----------------------------------------------------------------------------
(* Writes of the table, and the copies they take out.                      *)

\* A column becomes row and should be meant, and the request needs nothing more of
\* what it has loaded: the requests under way have seen the row, and a load under way,
\* or a write whose copies are not out yet, is a window.
RowBecomes(q, row, meant, pc) ==
    /\ permRow' = row
    /\ age' = [p \in DOMAIN age |-> IF p = Held(row) THEN 0 ELSE IF InUse(p) THEN age[p] ELSE MaxAge]
    /\ intended' = IF Overlapped \/ \E other \in PermRequest \ {q} : Loading(other) \/ Writing(other)
                   THEN NoPerms ELSE {meant}
    /\ permReq' = [other \in PermRequest |->
           IF other = q THEN [IdleRequest EXCEPT !.pc = pc, !.ticked = permReq[q].ticked]
           ELSE [permReq[other] EXCEPT
                   !.since = IF intended' = NoPerms \/ ~Loading(other) \/ permReq[other].op # "use"
                             THEN {} ELSE @ \cup {Held(row)}]]

\* setPermissions: the whole column is written; without a row it fails, as the
\* statement may, and no copy is taken out.
UpdateRow(q) ==
    /\ Is(q, "write") /\ permReq[q].op = "change"
    /\ \/ /\ permRow # NoPerms
          /\ RowBecomes(q, {permReq[q].perms}, Apply(permReq[q].change, Held(intended)), "del redis")
          /\ UNCHANGED permCount
       \/ permRow = NoPerms /\ Done(q) /\ UNCHANGED <<permRow, permCount, permHistory>>
       \/ Fails /\ Done(q) /\ UNCHANGED <<permRow, permHistory>>
    /\ UNCHANGED <<permRedis, permCache, rdDown>>

\* createAccount: the row is new, or the key is taken, or the statement fails; the
\* process' copy goes in either case, Redis' copy stays.
InsertRow(q) ==
    /\ Is(q, "write") /\ permReq[q].op = "create"
    /\ \/ permRow = NoPerms /\ RowBecomes(q, {{}}, {}, "del cache") /\ UNCHANGED permCount
       \/ /\ permRow # NoPerms /\ Step(q, "del cache")
          /\ UNCHANGED <<permRow, permCount, permHistory>>
       \/ Fails /\ Step(q, "del cache") /\ UNCHANGED <<permRow, permHistory>>
    /\ UNCHANGED <<permRedis, permCache, rdDown>>

\* deleteAccount: no row, no account; the statement may fail.
DeleteRow(q) ==
    /\ Is(q, "write") /\ permReq[q].op = "delete"
    /\ \/ permRow # NoPerms /\ RowBecomes(q, NoPerms, {}, "del redis") /\ UNCHANGED permCount
       \/ permRow = NoPerms /\ Done(q) /\ UNCHANGED <<permRow, permCount, permHistory>>
       \/ Fails /\ Done(q) /\ UNCHANGED <<permRow, permHistory>>
    /\ UNCHANGED <<permRedis, permCache, rdDown>>

FaultKeepsRedisCopy(q) ==
    /\ Is(q, "del redis") /\ Step(q, "del cache")
    /\ UNCHANGED <<permRow, permRedis, permCache, rdDown, permCount, permHistory>>

\* redisDelPerms: a copy that Redis keeps, because it is left alone or fails, is
\* a window.
DropRedisCopy(q) ==
    /\ Is(q, "del redis") /\ Step(q, "del cache")
    /\ \/ Ready /\ permRedis' = NoCopy /\ UNCHANGED <<rdDown, permCount, intended>>
       \/ /\ ~Ready /\ intended' = NoPerms
          /\ UNCHANGED <<permRedis, rdDown, permCount>>
       \/ /\ Ready /\ CallFails /\ intended' = NoPerms
          /\ UNCHANGED permRedis
    /\ UNCHANGED <<permRow, permCache, age>>

FaultKeepsCacheCopy(q) ==
    /\ Is(q, "del cache") /\ Done(q)
    /\ UNCHANGED <<permRow, permRedis, permCache, rdDown, permCount, permHistory>>

\* invalidatePerms
DropCacheCopy(q) ==
    /\ Is(q, "del cache") /\ Done(q)
    /\ permCache' = NoCopy
    /\ UNCHANGED <<permRow, permRedis, rdDown, permCount, permHistory>>

\* A request is over in less than two ticks, a minute.
PermTick ==
    /\ \A q \in PermRequest : ~permReq[q].ticked
    /\ permReq' = [q \in PermRequest |->
           IF Is(q, "idle") THEN IdleRequest ELSE [permReq[q] EXCEPT !.ticked = TRUE]]
    /\ permRedis' = Older(permRedis) /\ permCache' = Older(permCache)
    /\ rdDown' = IF rdDown = 0 THEN 0 ELSE rdDown - 1
    /\ age' = [p \in DOMAIN age |-> IF p = Held(permRow) THEN 0
                                      ELSE IF InUse(p) /\ age[p] < MaxAge THEN age[p] + 1 ELSE MaxAge]
    /\ UNCHANGED <<permRow, permCount, intended>>

PermNext ==
    \/ \E q \in PermRequest :
        \/ BeginUse(q) \/ BeginChange(q) \/ BeginCreate(q) \/ BeginDelete(q)
        \/ FindAccount(q) \/ LoadFromCache(q) \/ LoadFromRedis(q) \/ LoadFromRow(q)
        \/ FillPermCache(q) \/ FillPermRedis(q) \/ Decide(q) \/ ChangeCopy(q)
        \/ UpdateRow(q) \/ InsertRow(q) \/ DeleteRow(q)
        \/ DropRedisCopy(q) \/ DropCacheCopy(q)
    \/ PermTick

PermSpec == PermInit /\ [][PermNext]_permVars

----------------------------------------------------------------------------
(* Properties                                                              *)

\* A request that has loaded permissions holds those of the column at some time
\* since it began: loadPermissions never serves a copy that a write has taken
\* out, however the three tiers were filled before.  The windows are a load and
\* a write at the same time, a Redis that keeps what it was told to delete, and a
\* load whose query fails.
LoadsAreCurrent ==
    \A q \in PermRequest :
        Is(q, "loaded") /\ permReq[q].op = "use" =>
            Overlapped \/ permReq[q].perms \in permReq[q].since

\* Whatever overlaps and however Redis fails, what a check uses was the column
\* within the last MaxStale ticks: a load (one tick) that fills Redis late,
\* Redis' two, a second load (one), the cache's one, and the request's own.
StalenessIsBounded ==
    \A q \in PermRequest :
        Is(q, "loaded") => permReq[q].perms = {} \/ age[permReq[q].perms] <= MaxStale

\* loadPermissions: what a request is checked against is current, or stale for
\* no longer than the time limits of the copies.
PermissionsAreCurrent == LoadsAreCurrent /\ StalenessIsBounded

\* A change of some endpoints leaves the others as they were: the read-modify-
\* write of handleAccountPermissions through the caches never writes back an
\* older setting, outside the same windows.
ChangesAreKept == Overlapped \/ Held(permRow) = Held(intended)

----------------------------------------------------------------------------
(* What the code means to keep and does not.  setPermissions says that a   *)
(* permission that is taken away must be gone at once: a load that         *)
(* overlaps the change puts the older permissions back into the cache      *)
(* after it was cleared.  And a change is to touch its endpoints only: one *)
(* whose load failed writes the column back without the others.            *)

TighteningIsImmediate ==
    \A q \in PermRequest :
        Is(q, "loaded") /\ permReq[q].op = "use" => permReq[q].perms \in permReq[q].since
ChangesTouchOnlyTheirs ==
    [][\A q \in PermRequest :
           UpdateRow(q) => permRow' \in {permRow, {Apply(permReq[q].change, Held(permRow))}}]_permVars
=============================================================================
