-------------------------- MODULE AccountSessions --------------------------
(***************************************************************************)
(* The login sessions of one account.  A session lives in three tiers: the *)
(* SQL table, a Redis cache and a cache in the process.  A request asks    *)
(* the tiers from the fastest to the slowest and fills what it missed;     *)
(* logout, a change of the password and the deletion of the account take   *)
(* sessions out of all three, each tier in a step of its own.  Redis may   *)
(* fail at any call and is then left alone for a while; a statement of SQL *)
(* may fail too, and nobody is told.                                       *)
(*                                                                         *)
(* Time is counted in halves of accountSessionTTL (15 days): a session     *)
(* expires two ticks after it was made and is renewed in its last tick.    *)
(***************************************************************************)
EXTENDS Naturals, FiniteSets

CONSTANTS
    Token,   \* sessions; each login makes a new one
    Old,     \* those that were made before
    Request, \* requests that run at the same time
    Ops,     \* among "login", "use", "logout", "password", "admin"
    MaxFails, \* bound of the calls of Redis and the statements of SQL that fail
    MaxTime, \* bound of the clock
    MaxRequests \* bound of the requests that are begun

Nobody == "nobody"

ASSUME SessionsAssumption ==
    /\ Old \subseteq Token /\ Nobody \notin Token
    /\ MaxFails \in Nat /\ MaxTime \in Nat /\ MaxRequests \in Nat

VARIABLES
    sql, redis, cache, \* per session: when it expires, 0 if the tier has it not
    usess,     \* the sessions in the index that Redis keeps of the account
    redisDown, \* rdDown: Redis is not asked
    fails,     \* counts the failures, for MaxFails
    account,   \* the account exists
    now,
    begun,     \* counts the requests, for MaxRequests
    req,       \* per request: where it is and what it holds
    promised,  \* history, per session: the expiry a login or renewal has set
    revoking,  \* history: sessions a revocation has begun to take out
    revoked,   \* history: sessions whose revocation has been answered
    exposed,   \* history: sessions that met a window of RevokedIsRefused,
    raced      \* ... and of LiveIsServed

tiers == <<sql, redis, cache>>
caching == <<usess, redisDown, fails>>
history == <<promised, revoking, revoked, exposed, raced>>
vars == <<tiers, caching, account, now, begun, req, history>>

TTL == 2

Label == {"idle", "login", "cache", "redis", "cache hit", "sql", "expired",
          "fill cache", "fill redis", "put", "put redis", "put index", "put cache",
          "authenticated", "refused", "delete redis", "delete index", "delete cache",
          "revoke", "revoke list", "revoke redis", "revoke cache"}

Expiry == 0..MaxTime + TTL

\* op, token and exp are the code's; todo are the members of the index that are
\* still to be deleted; targets, barred, due and ticked are history: what a
\* revocation takes out, whether the session had been revoked before the request
\* began, what it had been promised then, and whether the clock has moved since.
Idle == [pc |-> "idle", op |-> "use", token |-> Nobody, exp |-> 0, todo |-> {},
         targets |-> {}, barred |-> FALSE, due |-> 0, ticked |-> FALSE]

\* The type of every variable: no tier is ever given more than a TTL from now.
TypeOK ==
    /\ {sql, redis, cache, promised} \subseteq [Token -> Expiry]
    /\ usess \subseteq Token
    /\ {redisDown, account} \subseteq BOOLEAN
    /\ now \in 0..MaxTime /\ begun \in 0..MaxRequests /\ fails \in 0..MaxFails
    /\ req \in [Request ->
           [pc : Label, op : Ops \cup {"use"}, token : Token \cup {Nobody}, exp : Expiry,
            todo : SUBSET Token, targets : SUBSET Token,
            barred : BOOLEAN, due : Expiry, ticked : BOOLEAN]]
    /\ {revoking, revoked, exposed, raced} \subseteq SUBSET Token

\* The sessions of Old were made while Redis worked.
Init ==
    /\ sql = [t \in Token |-> IF t \in Old THEN TTL ELSE 0] /\ redis = sql /\ cache = sql
    /\ usess = Old /\ redisDown = FALSE /\ fails = 0
    /\ account = TRUE
    /\ now = 0 /\ begun = 0
    /\ req = [r \in Request |-> Idle]
    /\ promised = sql /\ revoking = {} /\ revoked = {} /\ exposed = {} /\ raced = {}

Active(r) == req[r].pc # "idle"
At(r, l) == req[r].pc = l
Goto(r, l) == req' = [req EXCEPT ![r].pc = l]
GotoHolding(r, l, e) == req' = [req EXCEPT ![r].pc = l, ![r].exp = e]
Answered(r) == req' = [req EXCEPT ![r] = Idle]

\* Sessions that have been made.
Used == {t \in Token : promised[t] # 0 \/ \E r \in Request : req[r].token = t}

Revoking(r) == req[r].targets # {} \/ req[r].pc \in {"revoke list", "revoke redis", "revoke cache"}

----------------------------------------------------------------------------
(* Redis: redisReady and redisFailed.                                      *)

\* A call answers, or fails and starts the cooldown.  The first call of a
\* function asks redisReady, which skips Redis while the cooldown lasts (that it
\* is over is noticed here); the calls that follow do not ask again.
RedisAnswers == UNCHANGED <<redisDown, fails, exposed>>
Fails == fails < MaxFails /\ fails' = fails + 1
CallFails == Fails /\ exposed' = exposed \cup Used
RedisFails == CallFails /\ redisDown' = TRUE
ReadyAnswers == redisDown' = FALSE /\ UNCHANGED <<fails, exposed>>
Skipped == redisDown /\ UNCHANGED <<redisDown, fails>> /\ exposed' = exposed \cup Used

\* A statement of SQL fails.  The caller drops the error, so a session that was to
\* be written or read may be refused from here on.
SQLFailsFor(t) == Fails /\ raced' = raced \cup {t}

----------------------------------------------------------------------------
(* A request begins.                                                       *)

Begins(r) == ~Active(r) /\ begun < MaxRequests /\ begun' = begun + 1

\* handleAccountLogin, for a session of its own.
BeginLogin(r, t) ==
    /\ Begins(r) /\ "login" \in Ops
    /\ t \notin Used
    /\ req' = [req EXCEPT ![r] = [Idle EXCEPT !.pc = "login", !.op = "login", !.token = t]]
    /\ exposed' = IF \E q \in Request : Revoking(q) THEN exposed \cup {t} ELSE exposed
    /\ UNCHANGED <<tiers, caching, account, now, promised, revoking, revoked, raced>>

\* A request with the token of a session: authenticate.
BeginWith(r, o, t) ==
    /\ Begins(r) /\ o \in Ops \cap {"use", "logout", "password"}
    /\ promised[t] # 0
    /\ req' = [req EXCEPT ![r] =
           [Idle EXCEPT !.pc = "cache", !.op = o, !.token = t,
                        !.barred = t \in revoked, !.due = promised[t]]]
    /\ exposed' = IF \E q \in Request : t \in req[q].targets THEN exposed \cup {t} ELSE exposed
    /\ UNCHANGED <<tiers, caching, account, now, promised, revoking, revoked, raced>>

\* An administrator resets the password, or deletes the account.
BeginAdmin(r) ==
    /\ Begins(r) /\ "admin" \in Ops
    /\ account
    /\ account' \in BOOLEAN
    /\ req' = [req EXCEPT ![r] = [Idle EXCEPT !.pc = "revoke", !.op = "admin"]]
    /\ UNCHANGED <<tiers, caching, now, history>>

----------------------------------------------------------------------------
(* lookupSession and the renewal in authenticate.                          *)

FaultAuthenticateExtendsExpiry(r, e) ==
    IF e <= now THEN Goto(r, "refused")
    ELSE IF e < now + TTL THEN GotoHolding(r, "put", e + TTL)
    ELSE Goto(r, "authenticated")

\* authenticate goes on with a session that expires at e: in its second half it
\* gets a whole TTL again.
Authenticate(r, e) ==
    IF e <= now THEN Goto(r, "refused")
    ELSE IF e < now + TTL THEN GotoHolding(r, "put", now + TTL)
    ELSE Goto(r, "authenticated")

\* cachedSession: what is older than accountSessCacheTTL (nobody looked at it
\* meanwhile, so it may be any entry) or has expired is not used.
LookCache(r) ==
    LET t == req[r].token
    IN  /\ At(r, "cache")
        /\ \/ cache[t] > now /\ Authenticate(r, cache[t]) /\ UNCHANGED cache
           \/ cache' = [cache EXCEPT ![t] = 0] /\ Goto(r, "redis")
        /\ UNCHANGED <<sql, redis, caching, account, now, begun, history>>

FaultLookRedisTrustsExpired(r) ==
    LET e == redis[req[r].token]
    IN  /\ At(r, "redis")
        /\ \/ ReadyAnswers /\ e # 0 /\ GotoHolding(r, "cache hit", e)
           \/ ReadyAnswers /\ e = 0 /\ Goto(r, "sql")
           \/ RedisFails /\ Goto(r, "sql")
           \/ Skipped /\ Goto(r, "sql")
        /\ UNCHANGED <<tiers, usess, account, now, begun, promised, revoking, revoked, raced>>

LookRedis(r) ==
    LET e == redis[req[r].token]
    IN  /\ At(r, "redis")
        /\ \/ ReadyAnswers /\ e > now /\ GotoHolding(r, "cache hit", e)
           \/ ReadyAnswers /\ e <= now /\ Goto(r, "sql")
           \/ RedisFails /\ Goto(r, "sql")
           \/ Skipped /\ Goto(r, "sql")
        /\ UNCHANGED <<tiers, usess, account, now, begun, promised, revoking, revoked, raced>>

CacheHit(r) ==
    /\ At(r, "cache hit")
    /\ cache' = [cache EXCEPT ![req[r].token] = req[r].exp]
    /\ Authenticate(r, req[r].exp)
    /\ UNCHANGED <<sql, redis, caching, account, now, begun, history>>

LookSQL(r) ==
    LET e == sql[req[r].token]
    IN  /\ At(r, "sql")
        /\ \/ /\ IF e = 0 THEN Goto(r, "refused")
                 ELSE IF e <= now THEN Goto(r, "expired")
                 ELSE GotoHolding(r, "fill cache", e)
              /\ UNCHANGED <<fails, raced>>
           \/ SQLFailsFor(req[r].token) /\ Goto(r, "refused")
        /\ UNCHANGED <<tiers, usess, redisDown, account, now, begun,
                       promised, revoking, revoked, exposed>>

\* The row is deleted by its token, whatever it says by then, or the statement
\* fails and it stays.
DropExpired(r) ==
    /\ At(r, "expired")
    /\ \/ sql' = [sql EXCEPT ![req[r].token] = 0] /\ UNCHANGED fails
       \/ Fails /\ UNCHANGED sql
    /\ Goto(r, "refused")
    /\ UNCHANGED <<redis, cache, usess, redisDown, account, now, begun, history>>

FillCache(r) ==
    /\ At(r, "fill cache")
    /\ cache' = [cache EXCEPT ![req[r].token] = req[r].exp]
    /\ Goto(r, "fill redis")
    /\ UNCHANGED <<sql, redis, caching, account, now, begun, history>>

\* redisSetSession does not add the session to the index.
FillRedis(r) ==
    /\ At(r, "fill redis")
    /\ \/ /\ ReadyAnswers
          /\ redis' = IF req[r].exp > now THEN [redis EXCEPT ![req[r].token] = req[r].exp] ELSE redis
       \/ (Skipped \/ RedisFails) /\ UNCHANGED redis
    /\ Authenticate(r, req[r].exp)
    /\ UNCHANGED <<sql, cache, usess, account, now, begun, promised, revoking, revoked, raced>>

\* 403, or the answer of the endpoint.
Answer(r) ==
    /\ At(r, "refused") \/ (At(r, "authenticated") /\ req[r].op = "use")
    /\ Answered(r)
    /\ UNCHANGED <<tiers, caching, account, now, begun, history>>

----------------------------------------------------------------------------
(* Login and putSession.                                                   *)

\* purgeExpiredSessions and checkPassword; if the purge fails nothing is purged,
\* if a query fails the login is refused.
CheckPassword(r) ==
    /\ At(r, "login")
    /\ \/ sql' = [t \in Token |-> IF sql[t] <= now THEN 0 ELSE sql[t]] /\ UNCHANGED fails
       \/ Fails /\ UNCHANGED sql
    /\ \/ account /\ GotoHolding(r, "put", now + TTL)
       \/ (~account \/ fails' # fails) /\ Answered(r)
    /\ UNCHANGED <<redis, cache, usess, redisDown, account, now, begun, history>>

\* If the statement fails the faster tiers are filled all the same.
PutSQL(r) ==
    /\ At(r, "put")
    /\ \/ sql' = [sql EXCEPT ![req[r].token] = req[r].exp] /\ UNCHANGED <<fails, raced>>
       \/ SQLFailsFor(req[r].token) /\ UNCHANGED sql
    /\ Goto(r, "put redis")
    /\ UNCHANGED <<redis, cache, usess, redisDown, account, now, begun,
                   promised, revoking, revoked, exposed>>

PutRedis(r) ==
    /\ At(r, "put redis")
    /\ \/ /\ ReadyAnswers
          /\ redis' = [redis EXCEPT ![req[r].token] = req[r].exp]
          /\ Goto(r, "put index")
       \/ (Skipped \/ RedisFails) /\ Goto(r, "put cache") /\ UNCHANGED redis
    /\ UNCHANGED <<sql, cache, usess, account, now, begun, promised, revoking, revoked, raced>>

\* SADD of the session to the index of the account.
FaultPutIndexForgotten(r) ==
    /\ At(r, "put index")
    /\ Goto(r, "put cache")
    /\ UNCHANGED <<tiers, caching, account, now, begun, history>>

PutIndex(r) ==
    /\ At(r, "put index")
    /\ \/ RedisAnswers /\ usess' = usess \cup {req[r].token}
       \/ RedisFails /\ UNCHANGED usess
    /\ Goto(r, "put cache")
    /\ UNCHANGED <<tiers, account, now, begun, promised, revoking, revoked, raced>>

PutCache(r) ==
    LET t == req[r].token
    IN  /\ At(r, "put cache")
        /\ cache' = [cache EXCEPT ![t] = req[r].exp]
        /\ promised' = [promised EXCEPT ![t] = IF @ > req[r].exp THEN @ ELSE req[r].exp]
        /\ IF req[r].op = "login" THEN Answered(r) ELSE Goto(r, "authenticated")
        /\ UNCHANGED <<sql, redis, caching, account, now, begun, revoking, revoked, exposed, raced>>

----------------------------------------------------------------------------
(* delSession, of handleAccountLogout.                                     *)

\* From now on the sessions of S are not to be served; a request that holds one
\* of them may put it back.  Their rows are deleted, or the statement fails, which
\* nobody is told, and they stay in the table.
TakeOut(r, S) ==
    LET targets == {t \in S : promised[t] # 0}
        held == {t \in S : \E q \in Request \ {r} : req[q].token = t \/ t \in req[q].targets}
    IN  /\ revoking' = revoking \cup (S \cap Used)
        /\ \/ /\ sql' = [t \in Token |-> IF t \in S THEN 0 ELSE sql[t]]
              /\ exposed' = exposed \cup held
              /\ UNCHANGED fails
           \/ Fails /\ exposed' = exposed \cup held \cup targets /\ UNCHANGED sql
        /\ req' = [req EXCEPT ![r].pc = IF req[r].op = "logout" THEN "delete redis" ELSE "revoke list",
                              ![r].targets = targets]

DeleteSQL(r) ==
    /\ At(r, "authenticated") /\ req[r].op = "logout"
    /\ TakeOut(r, {req[r].token})
    /\ UNCHANGED <<redis, cache, usess, redisDown, account, now, begun, promised, revoked, raced>>

\* The answer: the sessions are revoked.
Revoked(r) == revoked' = revoked \cup req[r].targets /\ Answered(r)

\* If Redis fails delSession returns, and the cache keeps the session.
DeleteRedis(r) ==
    /\ At(r, "delete redis")
    /\ \/ /\ ReadyAnswers
          /\ redis' = [redis EXCEPT ![req[r].token] = 0]
          /\ Goto(r, "delete index") /\ UNCHANGED revoked
       \/ Skipped /\ Goto(r, "delete cache") /\ UNCHANGED <<redis, revoked>>
       \/ RedisFails /\ Revoked(r) /\ UNCHANGED redis
    /\ UNCHANGED <<sql, cache, usess, account, now, begun, promised, revoking, raced>>

\* redisSessionOwner asks for the session that was just deleted: the member
\* stays in the index, unless the session is back.
DeleteIndex(r) ==
    LET t == req[r].token
    IN  /\ At(r, "delete index")
        /\ usess' = IF redis[t] > now THEN usess \ {t} ELSE usess
        /\ Goto(r, "delete cache")
        /\ UNCHANGED <<tiers, redisDown, fails, account, now, begun, history>>

\* invalidateSession
DeleteCache(r) ==
    /\ At(r, "delete cache")
    /\ cache' = [cache EXCEPT ![req[r].token] = 0]
    /\ Revoked(r)
    /\ UNCHANGED <<sql, redis, caching, account, now, begun, promised, revoking, exposed, raced>>

----------------------------------------------------------------------------
(* revokeUserSessions, of handleAccountPassword and deleteAccount.         *)

\* A change of one's own password keeps the session it is made with.
Kept(r) == IF req[r].op = "password" THEN {req[r].token} ELSE {}

\* putPassword, of handleAccountPassword: it fails for an account that is gone,
\* and nothing is revoked then.
PutPassword(r) ==
    /\ At(r, "authenticated") /\ req[r].op = "password"
    /\ \/ account /\ Goto(r, "revoke") /\ UNCHANGED fails
       \/ ~account /\ Answered(r) /\ UNCHANGED fails
       \/ Fails /\ Answered(r)
    /\ UNCHANGED <<tiers, usess, redisDown, account, now, begun, history>>

RevokeSQL(r) ==
    /\ At(r, "revoke")
    /\ TakeOut(r, Token \ Kept(r))
    /\ UNCHANGED <<redis, cache, usess, redisDown, account, now, begun, promised, revoked, raced>>

\* SMEMBERS of the index; an error is not reported to redisFailed.
RevokeList(r) ==
    /\ At(r, "revoke list")
    /\ \/ ReadyAnswers /\ req' = [req EXCEPT ![r].pc = "revoke redis", ![r].todo = usess \ Kept(r)]
       \/ CallFails /\ redisDown' = FALSE /\ Goto(r, "revoke redis")
       \/ Skipped /\ Goto(r, "revoke cache")
    /\ UNCHANGED <<tiers, usess, account, now, begun, promised, revoking, revoked, raced>>

\* DEL of one member; a failure ends the loop.
RevokeRedis(r, t) ==
    /\ At(r, "revoke redis") /\ t \in req[r].todo
    /\ \/ /\ RedisAnswers
          /\ redis' = [redis EXCEPT ![t] = 0]
          /\ req' = [req EXCEPT ![r].todo = @ \ {t}]
       \/ RedisFails /\ req' = [req EXCEPT ![r].todo = {}] /\ UNCHANGED redis
    /\ UNCHANGED <<sql, cache, usess, account, now, begun, promised, revoking, revoked, raced>>

\* The index is reset.
RevokeIndex(r) ==
    /\ At(r, "revoke redis") /\ req[r].todo = {}
    /\ \/ RedisAnswers /\ usess' = Kept(r)
       \/ RedisFails /\ UNCHANGED usess
    /\ Goto(r, "revoke cache")
    /\ UNCHANGED <<tiers, account, now, begun, promised, revoking, revoked, raced>>

RevokeCache(r) ==
    /\ At(r, "revoke cache")
    /\ cache' = [t \in Token |-> IF t \in Kept(r) THEN cache[t] ELSE 0]
    /\ Revoked(r)
    /\ UNCHANGED <<sql, redis, caching, account, now, begun, promised, revoking, exposed, raced>>

----------------------------------------------------------------------------
(* Time.                                                                   *)

Renewing == {"put", "put redis", "put index", "put cache"}
Expires(r) ==
    req[r].token # Nobody /\ now + 1 \in {req[r].exp, promised[req[r].token]}

\* No request lasts 15 days: the clock moves at most once while it runs.
Tick ==
    /\ now < MaxTime
    /\ \A r \in Request : ~req[r].ticked
    /\ now' = now + 1
    /\ req' = [r \in Request |-> IF Active(r) THEN [req[r] EXCEPT !.ticked = TRUE] ELSE Idle]
    /\ raced' = raced \cup
           {req[r].token : r \in {q \in Request : req[q].pc \in Renewing \/ Expires(q)}}
    /\ UNCHANGED <<tiers, caching, account, begun, promised, revoking, revoked, exposed>>

Next ==
    \/ \E r \in Request :
           \/ \E t \in Token : BeginLogin(r, t) \/ RevokeRedis(r, t)
           \/ \E t \in Token, o \in {"use", "logout", "password"} : BeginWith(r, o, t)
           \/ BeginAdmin(r)
           \/ LookCache(r) \/ LookRedis(r) \/ CacheHit(r) \/ LookSQL(r) \/ DropExpired(r)
           \/ FillCache(r) \/ FillRedis(r) \/ Answer(r)
           \/ CheckPassword(r)
           \/ PutSQL(r) \/ PutRedis(r) \/ PutIndex(r) \/ PutCache(r)
           \/ DeleteSQL(r) \/ DeleteRedis(r) \/ DeleteIndex(r) \/ DeleteCache(r)
           \/ PutPassword(r) \/ RevokeSQL(r) \/ RevokeList(r) \/ RevokeIndex(r) \/ RevokeCache(r)
    \/ Tick

Spec == Init /\ [][Next]_vars

----------------------------------------------------------------------------
(* Properties.                                                             *)

\* Once a logout, a change of the password or a deletion of the account has been
\* answered, a request that begins with one of the sessions it took out is
\* refused ("must be invalid at once", revokeUserSessions).  The windows: Redis
\* failed or was not asked since the session was made, the statement that was to
\* delete its row failed, or a request that held the session, its login included,
\* ran while it was taken out.
RevokedIsRefused ==
    \A r \in Request :
        At(r, "authenticated") /\ req[r].barred => req[r].token \in exposed

\* A session that nobody takes out is served until it expires, whatever Redis and
\* the caches say (authenticate): a tier that is behind never outweighs the
\* table.  The windows: a request had taken the session from a tier, or was renewing
\* it, when what it held expired or the clock moved; a statement that was to write
\* or to read its row failed.
LiveIsServed ==
    \A r \in Request :
        At(r, "refused") /\ req[r].due > now
            => req[r].token \in revoking \cup raced

----------------------------------------------------------------------------
(* What the design document says and the code does otherwise.              *)

\* docs/accounts-design.md:154 says that a change of the password does not take out
\* the sessions there are, which live until they expire; handleAccountPassword does
\* take them out.  Said of behaviours with no logout and no administrator.
PasswordKeepsSessions ==
    \A r \in Request :
        At(r, "refused") /\ req[r].due > now => req[r].token \in raced
============================================================================
