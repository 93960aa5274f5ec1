----------------------- MODULE AccountSessionsProofs -----------------------
(***************************************************************************)
(* Proofs about AccountSessions: the types, that a session which a logout, *)
(* a change of the password or a deletion has taken out is refused, and    *)
(* that a session which nobody takes out is served until it expires.       *)
(*                                                                         *)
(* Both properties speak of one session at a time and of windows that the  *)
(* model marks in exposed and raced, so the inductive invariant is stated  *)
(* per session, outside its window:                                        *)
(*                                                                         *)
(*   Claimed(t), Gone(t)   while a revocation takes t out nobody else holds*)
(*       it, and the tiers it has passed have t no more; as long as nobody *)
(*       takes t out the index of Redis lists it, so that a revocation of  *)
(*       all sessions finds it;                                            *)
(*   Live(t)   no tier promises more than the table, except while a renewal*)
(*       of t is under way, and the table keeps what was promised.         *)
(*                                                                         *)
(* The proof goes in three layers.  Every action is first reduced to its   *)
(* Step, what it does to the fields one by one (NextSteps); then each part *)
(* of the invariant is shown to be kept by every Step; the theorems put    *)
(* the parts together.                                                     *)
(***************************************************************************)
EXTENDS AccountSessions, TLAPS

----------------------------------------------------------------------------
(* The types, in parts that the proofs need one at a time.                 *)

TiersTypeOK ==
    /\ sql \in [Token -> Expiry] /\ redis \in [Token -> Expiry] /\ cache \in [Token -> Expiry]
    /\ promised \in [Token -> Expiry]
FlagsTypeOK == usess \subseteq Token /\ redisDown \in BOOLEAN /\ account \in BOOLEAN
CountTypeOK == now \in 0..MaxTime /\ begun \in 0..MaxRequests /\ fails \in 0..MaxFails
SetsTypeOK ==
    revoking \subseteq Token /\ revoked \subseteq Token /\ exposed \subseteq Token
    /\ raced \subseteq Token

\* A request, and what its place says of its operation.
Record ==
    [pc : Label, op : Ops \cup {"use"}, token : Token \cup {Nobody}, exp : Expiry,
     todo : SUBSET Token, targets : SUBSET Token,
     barred : BOOLEAN, due : Expiry, ticked : BOOLEAN]
Lookup == {"cache", "redis", "cache hit", "sql", "expired", "fill cache", "fill redis"}
Deleting == {"delete redis", "delete index", "delete cache"}
RevokingAll == {"revoke list", "revoke redis", "revoke cache"}
Holding == {"cache hit", "fill cache", "fill redis"}

\* Where a request is says what it does: only an administrator's has no session,
\* only a logout deletes, only a change of the password or an administrator
\* revokes.
Sound(q) ==
    /\ q.pc = "idle" => q = Idle
    /\ q.pc # "idle" => (q.token = Nobody <=> q.op = "admin")
    /\ q.pc = "login" => q.op = "login"
    /\ q.pc \in Lookup \cup {"authenticated", "refused"}
          => q.op \in {"use", "logout", "password"}
    /\ q.pc \in Renewing => q.op \in {"login", "use", "logout", "password"}
    /\ q.pc \in Deleting => q.op = "logout"
    /\ q.pc = "revoke" => q.op \in {"password", "admin"}
    /\ q.pc \in RevokingAll => q.op \in {"password", "admin"}
ReqInv == req \in [Request -> Record] /\ \A r \in Request : Sound(req[r])

----------------------------------------------------------------------------
(* What the actions do, field by field.                                    *)

\* The other requests stay as they are; r goes on with the same session, or with
\* the same work.
Others(r) == \A q \in Request \ {r} : req'[q] = req[q]
SameSession(r) ==
    /\ req'[r].op = req[r].op /\ req'[r].token = req[r].token
    /\ req'[r].barred = req[r].barred /\ req'[r].due = req[r].due
    /\ req'[r].ticked = req[r].ticked
SameWork(r) == req'[r].todo = req[r].todo /\ req'[r].targets = req[r].targets

\* r starts an operation; it moves to l and holds e; it is idle again.
Began(r, l, o, t, b, d) ==
    /\ Others(r)
    /\ req'[r].pc = l /\ req'[r].op = o /\ req'[r].token = t /\ req'[r].exp = 0
    /\ req'[r].todo = {} /\ req'[r].targets = {} /\ req'[r].barred = b /\ req'[r].due = d
Moved(r, l, e) ==
    /\ Others(r) /\ SameSession(r) /\ SameWork(r)
    /\ req'[r].pc = l /\ req'[r].exp = e

\* r is at l, and serves a session, stores one, logs one out, or revokes the
\* others.
Serving(r, l) == At(r, l) /\ req[r].op \in {"use", "logout", "password"}
                 /\ req[r].token \in Token
Putting(r, l) == At(r, l) /\ req[r].op \in {"login", "use", "logout", "password"}
                 /\ req[r].token \in Token
LoggingOut(r, l) == At(r, l) /\ req[r].op = "logout" /\ req[r].token \in Token
RevokingOthers(r, l) == At(r, l) /\ req[r].op \in {"password", "admin"}
Left(r) == Began(r, "idle", "use", Nobody, FALSE, 0)

\* Redis failed or was not asked: every session that is used is exposed.
Missed == exposed' = exposed \cup Used

\* A statement of SQL that was to write or to read r's session failed.
Races(r) == raced' = raced \cup {req[r].token}

\* r takes the sessions of S out, as TakeOut says; those that another request holds,
\* and all of them if their rows stay, are exposed.
HeldByOthers(r, S) ==
    {t \in S : \E q \in Request \ {r} : req[q].token = t \/ t \in req[q].targets}
Taken(r, S) ==
    /\ Others(r) /\ SameSession(r) /\ req'[r].exp = req[r].exp /\ req'[r].todo = req[r].todo
    /\ req'[r].targets = {t \in S : promised[t] # 0}
    /\ revoking' = revoking \cup (S \cap Used)
    /\ \/ /\ sql' = [t \in Token |-> IF t \in S THEN 0 ELSE sql[t]]
          /\ exposed' = exposed \cup HeldByOthers(r, S)
       \/ /\ exposed' = exposed \cup HeldByOthers(r, S) \cup {t \in S : promised[t] # 0}
          /\ UNCHANGED sql
Todo(r, ts) ==
    /\ Others(r) /\ SameSession(r) /\ req'[r].exp = req[r].exp
       /\ req'[r].targets = req[r].targets
    /\ req'[r].pc = "revoke redis" /\ req'[r].todo = ts

\* r has passed authenticate with a session that expires at e.
Passed(r, e) ==
    \/ e <= now /\ Moved(r, "refused", req[r].exp)
    \/ e > now /\ e < now + TTL /\ Moved(r, "put", now + TTL)
    \/ e >= now + TTL /\ Moved(r, "authenticated", req[r].exp)

\* The clock changes nothing of a request but ticked.
Ticked(q) ==
    /\ req'[q].pc = req[q].pc /\ req'[q].op = req[q].op /\ req'[q].token = req[q].token
    /\ req'[q].exp = req[q].exp /\ req'[q].todo = req[q].todo
    /\ req'[q].targets = req[q].targets /\ req'[q].barred = req[q].barred
    /\ req'[q].due = req[q].due

\* The Step of an action: its guards and effects in these terms, without the
\* caching state, the account and the counters.
BeginLoginStep(r, t) ==
    /\ req[r].pc = "idle" /\ t \notin Used
    /\ Began(r, "login", "login", t, FALSE, 0)
    /\ exposed' = IF \E q \in Request : Revoking(q) THEN exposed \cup {t} ELSE exposed
    /\ UNCHANGED <<sql, redis, cache, usess, now, promised, revoking, revoked, raced>>

BeginWithStep(r, o, t) ==
    /\ req[r].pc = "idle" /\ promised[t] # 0
    /\ Began(r, "cache", o, t, t \in revoked, promised[t])
    /\ exposed' = IF \E q \in Request : t \in req[q].targets THEN exposed \cup {t} ELSE exposed
    /\ UNCHANGED <<sql, redis, cache, usess, now, promised, revoking, revoked, raced>>

BeginAdminStep(r) ==
    /\ req[r].pc = "idle"
    /\ Began(r, "revoke", "admin", Nobody, FALSE, 0)
    /\ UNCHANGED <<sql, redis, cache, usess, now, promised, revoking, revoked, exposed, raced>>

TickStep ==
    /\ \A q \in Request : Ticked(q)
    /\ now' = now + 1
    /\ raced' = raced \cup
           {req[r].token : r \in {q \in Request : req[q].pc \in Renewing \/ Expires(q)}}
    /\ UNCHANGED <<sql, redis, cache, usess, promised, revoking, revoked, exposed>>

LookCacheStep(r) ==
    /\ Serving(r, "cache")
    /\ UNCHANGED <<sql, redis, usess, now, promised, revoking, revoked, exposed, raced>>
    /\ \/ cache[req[r].token] > now /\ Passed(r, cache[req[r].token]) /\ UNCHANGED cache
       \/ cache' = [cache EXCEPT ![req[r].token] = 0] /\ Moved(r, "redis", req[r].exp)

LookRedisStep(r) ==
    /\ Serving(r, "redis")
    /\ UNCHANGED <<sql, redis, cache, usess, now, promised, revoking, revoked, raced>>
    /\ \/ redis[req[r].token] > now /\ Moved(r, "cache hit", redis[req[r].token])
          /\ UNCHANGED exposed
       \/ redis[req[r].token] <= now /\ Moved(r, "sql", req[r].exp) /\ UNCHANGED exposed
       \/ Moved(r, "sql", req[r].exp) /\ Missed

CacheHitStep(r) ==
    /\ Serving(r, "cache hit")
    /\ UNCHANGED <<sql, redis, usess, now, promised, revoking, revoked, exposed, raced>>
    /\ cache' = [cache EXCEPT ![req[r].token] = req[r].exp] /\ Passed(r, req[r].exp)

LookSQLStep(r) ==
    /\ Serving(r, "sql")
    /\ UNCHANGED <<sql, redis, cache, usess, now, promised, revoking, revoked, exposed>>
    /\ \/ sql[req[r].token] = 0 /\ Moved(r, "refused", req[r].exp) /\ UNCHANGED raced
       \/ /\ sql[req[r].token] # 0 /\ sql[req[r].token] <= now
          /\ Moved(r, "expired", req[r].exp) /\ UNCHANGED raced
       \/ /\ ~(sql[req[r].token] <= now)
          /\ Moved(r, "fill cache", sql[req[r].token]) /\ UNCHANGED raced
       \/ Moved(r, "refused", req[r].exp) /\ Races(r)

DropExpiredStep(r) ==
    /\ Serving(r, "expired")
    /\ UNCHANGED <<redis, cache, usess, now, promised, revoking, revoked, exposed, raced>>
    /\ sql' \in {sql, [sql EXCEPT ![req[r].token] = 0]} /\ Moved(r, "refused", req[r].exp)

FillCacheStep(r) ==
    /\ Serving(r, "fill cache")
    /\ UNCHANGED <<sql, redis, usess, now, promised, revoking, revoked, exposed, raced>>
    /\ cache' = [cache EXCEPT ![req[r].token] = req[r].exp] /\ Moved(r, "fill redis",
       req[r].exp)

FillRedisStep(r) ==
    /\ Serving(r, "fill redis")
    /\ UNCHANGED <<sql, cache, usess, now, promised, revoking, revoked, raced>>
    /\ Passed(r, req[r].exp)
    /\ \/ redis' = [redis EXCEPT ![req[r].token] = req[r].exp] /\ UNCHANGED exposed
       \/ UNCHANGED redis /\ exposed' \in {exposed, exposed \cup Used}

AnswerStep(r) ==
    /\ req[r].pc \in {"refused", "authenticated"}
    /\ UNCHANGED <<sql, redis, cache, usess, now, promised, revoking, revoked, exposed, raced>>
    /\ Left(r)

CheckPasswordStep(r) ==
    /\ At(r, "login") /\ req[r].op = "login" /\ req[r].token \in Token
    /\ UNCHANGED <<redis, cache, usess, now, promised, revoking, revoked, exposed, raced>>
    /\ sql' \in {sql, [t \in Token |-> IF sql[t] <= now THEN 0 ELSE sql[t]]}
    /\ Moved(r, "put", now + TTL) \/ Left(r)

PutSQLStep(r) ==
    /\ Putting(r, "put")
    /\ UNCHANGED <<redis, cache, usess, now, promised, revoking, revoked, exposed>>
    /\ Moved(r, "put redis", req[r].exp)
    /\ \/ sql' = [sql EXCEPT ![req[r].token] = req[r].exp] /\ UNCHANGED raced
       \/ UNCHANGED sql /\ Races(r)

PutRedisStep(r) ==
    /\ Putting(r, "put redis")
    /\ UNCHANGED <<sql, cache, usess, now, promised, revoking, revoked, raced>>
    /\ \/ redis' = [redis EXCEPT ![req[r].token] = req[r].exp] /\ Moved(r, "put index",
          req[r].exp) /\ UNCHANGED exposed
       \/ UNCHANGED redis /\ Moved(r, "put cache", req[r].exp) /\ Missed

PutIndexStep(r) ==
    /\ Putting(r, "put index")
    /\ UNCHANGED <<sql, redis, cache, now, promised, revoking, revoked, raced>>
    /\ Moved(r, "put cache", req[r].exp)
    /\ \/ usess' = usess \cup {req[r].token} /\ UNCHANGED exposed
       \/ UNCHANGED usess /\ Missed

PutCacheStep(r) ==
    /\ Putting(r, "put cache")
    /\ UNCHANGED <<sql, redis, usess, now, revoking, revoked, exposed, raced>>
    /\ cache' = [cache EXCEPT ![req[r].token] = req[r].exp]
    /\ promised' = [promised EXCEPT ![req[r].token] = IF promised[req[r].token] > req[r].exp
       THEN promised[req[r].token] ELSE req[r].exp]
    /\ \/ req[r].op = "login" /\ Left(r)
       \/ req[r].op # "login" /\ Moved(r, "authenticated", req[r].exp)

DeleteSQLStep(r) ==
    /\ LoggingOut(r, "authenticated")
    /\ UNCHANGED <<redis, cache, usess, now, promised, revoked, raced>>
    /\ Taken(r, {req[r].token}) /\ req'[r].pc = "delete redis"

DeleteRedisStep(r) ==
    /\ LoggingOut(r, "delete redis")
    /\ UNCHANGED <<sql, cache, usess, now, promised, revoking, raced>>
    /\ \/ redis' = [redis EXCEPT ![req[r].token] = 0] /\ Moved(r, "delete index", req[r].exp)
          /\ UNCHANGED <<revoked, exposed>>
       \/ Moved(r, "delete cache", req[r].exp) /\ Missed /\ UNCHANGED <<redis, revoked>>
       \/ Left(r) /\ Missed /\ revoked' = revoked \cup req[r].targets /\ UNCHANGED redis

DeleteIndexStep(r) ==
    /\ LoggingOut(r, "delete index")
    /\ UNCHANGED <<sql, redis, cache, now, promised, revoking, revoked, exposed, raced>>
    /\ Moved(r, "delete cache", req[r].exp) /\ usess' \in {usess, usess \ {req[r].token}}

DeleteCacheStep(r) ==
    /\ LoggingOut(r, "delete cache")
    /\ UNCHANGED <<sql, redis, usess, now, promised, revoking, exposed, raced>>
    /\ cache' = [cache EXCEPT ![req[r].token] = 0] /\ Left(r)
       /\ revoked' = revoked \cup req[r].targets

PutPasswordStep(r) ==
    /\ At(r, "authenticated") /\ req[r].op = "password"
    /\ Moved(r, "revoke", req[r].exp) \/ Left(r)
    /\ UNCHANGED <<sql, redis, cache, usess, now, promised, revoking, revoked, exposed, raced>>

RevokeSQLStep(r) ==
    /\ RevokingOthers(r, "revoke")
    /\ UNCHANGED <<redis, cache, usess, now, promised, revoked, raced>>
    /\ Taken(r, Token \ Kept(r)) /\ req'[r].pc = "revoke list"

RevokeListStep(r) ==
    /\ RevokingOthers(r, "revoke list")
    /\ UNCHANGED <<sql, redis, cache, usess, now, promised, revoking, revoked, raced>>
    /\ \/ Todo(r, usess \ Kept(r)) /\ UNCHANGED exposed
       \/ Moved(r, "revoke redis", req[r].exp) /\ Missed
       \/ Moved(r, "revoke cache", req[r].exp) /\ Missed

RevokeRedisStep(r, t) ==
    /\ RevokingOthers(r, "revoke redis") /\ t \in req[r].todo
    /\ UNCHANGED <<sql, cache, usess, now, promised, revoking, revoked, raced>>
    /\ \/ redis' = [redis EXCEPT ![t] = 0] /\ Todo(r, req[r].todo \ {t}) /\ UNCHANGED exposed
       \/ Todo(r, {}) /\ Missed /\ UNCHANGED redis

RevokeIndexStep(r) ==
    /\ RevokingOthers(r, "revoke redis") /\ req[r].todo = {}
    /\ UNCHANGED <<sql, redis, cache, now, promised, revoking, revoked, raced>>
    /\ Moved(r, "revoke cache", req[r].exp)
    /\ \/ usess' = Kept(r) /\ UNCHANGED exposed
       \/ UNCHANGED usess /\ Missed

RevokeCacheStep(r) ==
    /\ RevokingOthers(r, "revoke cache")
    /\ UNCHANGED <<sql, redis, usess, now, promised, revoking, exposed, raced>>
    /\ cache' = [t \in Token |-> IF t \in Kept(r) THEN cache[t] ELSE 0]
    /\ Left(r) /\ revoked' = revoked \cup req[r].targets

----------------------------------------------------------------------------
(* Each action does its Step.                                              *)

\* Goto changes the place of the request and nothing else of it.
LEMMA GotoEffect ==
    ASSUME ReqInv, NEW r \in Request, NEW l, Goto(r, l)
    PROVE  Moved(r, l, req[r].exp)
BY DEF Moved, ReqInv, Record, Goto, Others, SameSession, SameWork

\* GotoHolding also sets the expiry that the request holds.
LEMMA HoldingEffect ==
    ASSUME ReqInv, NEW r \in Request, NEW l, NEW e, GotoHolding(r, l, e)
    PROVE  Moved(r, l, e)
BY DEF Moved, ReqInv, Record, GotoHolding, Others, SameSession, SameWork

\* The fields of an idle request.
LEMMA IdleFields ==
    /\ Idle.pc = "idle" /\ Idle.op = "use" /\ Idle.token = Nobody /\ Idle.exp = 0
    /\ Idle.todo = {} /\ Idle.targets = {} /\ Idle.barred = FALSE /\ Idle.due = 0
    /\ Idle.ticked = FALSE
BY DEF Idle

\* A request that is answered is idle.
LEMMA AnsweredEffect ==
    ASSUME ReqInv, NEW r \in Request, Answered(r)
    PROVE  Began(r, "idle", "use", Nobody, FALSE, 0)
BY IdleFields DEF ReqInv, Record, Answered, Others, Began

\* Goto keeps the requests sound if the operation may be at the new place.
LEMMA GotoKeeps ==
    ASSUME ReqInv, NEW r \in Request, NEW l \in Label, l # "idle", Goto(r, l),
           l \in Lookup \cup {"authenticated", "refused"}
           => req[r].op \in {"use", "logout", "password"},
           l = "login" => req[r].op = "login",
           l \in Renewing => req[r].op \in {"login", "use", "logout", "password"},
           l \in Deleting => req[r].op = "logout",
           l = "revoke" => req[r].op \in {"password", "admin"},
           l \in RevokingAll => req[r].op \in {"password", "admin"},
           ~At(r, "idle")
    PROVE  ReqInv'
<1>1. PICK n : n = [req[r] EXCEPT !.pc = l]
  OBVIOUS
<1>2. /\ n.pc = l /\ n.op = req[r].op /\ n.token = req[r].token
      /\ n \in Record
  BY <1>1 DEF ReqInv, Record
<1>3. Sound(n)
  BY <1>2 DEF ReqInv, Sound, At
<1>4. req' = [req EXCEPT ![r] = n]
  BY <1>1 DEF Goto
<1> QED
  BY <1>2, <1>3, <1>4 DEF ReqInv

\* So does GotoHolding, from a lookup or the login.
LEMMA HoldingKeeps ==
    ASSUME ReqInv, NEW r \in Request, NEW l \in Holding \cup {"put"}, NEW e \in Expiry,
           GotoHolding(r, l, e),
           req[r].pc \in Lookup \/ (l = "put" /\ At(r, "login"))
    PROVE  ReqInv'
<1>1. PICK n : n = [req[r] EXCEPT !.pc = l, !.exp = e]
  OBVIOUS
<1>2. l \in Label
  BY DEF Label, Holding
<1>2a. /\ n.pc = l /\ n.op = req[r].op /\ n.token = req[r].token
      /\ n \in Record
  BY <1>1, <1>2 DEF ReqInv, Record
<1>3. Sound(n)
  BY <1>2a DEF ReqInv, At, Sound, Holding, Lookup, Renewing, Deleting, RevokingAll
<1>4. req' = [req EXCEPT ![r] = n]
  BY <1>1 DEF GotoHolding
<1> QED
  BY <1>2a, <1>3, <1>4 DEF ReqInv

\* An answer keeps the requests sound.
LEMMA AnsweredKeeps ==
    ASSUME ReqInv, NEW r \in Request, Answered(r)
    PROVE  ReqInv'
<1>1. Idle \in Record /\ Sound(Idle)
  BY SessionsAssumption, IdleFields
  DEF Idle, Record, Sound, Label, Expiry, TTL, Lookup, Renewing, Deleting, RevokingAll
<1> QED
  BY <1>1 DEF ReqInv, Answered

\* Expiries are naturals, and a TTL from now is one.
LEMMA ExpiryFacts ==
    /\ 0 \in Expiry /\ Expiry \subseteq Nat
    /\ now \in 0..MaxTime => now + TTL \in Expiry
BY SessionsAssumption DEF Expiry, TTL

\* The types of a request's fields; only an administrator's has no session.
LEMMA TokenInv ==
    ASSUME ReqInv, NEW r \in Request
    PROVE  /\ req[r].token \in Token \cup {Nobody} /\ req[r].exp \in Expiry
              /\ req[r].due \in Expiry
           /\ req[r].pc # "idle" /\ req[r].op # "admin" => req[r].token \in Token
           /\ req[r].todo \subseteq Token /\ req[r].targets \subseteq Token
BY DEF ReqInv, Record, Sound

\* ReqInv of one request, place by place.
LEMMA PcInv ==
    ASSUME ReqInv, NEW r \in Request
    PROVE  /\ req[r].pc = "login" => req[r].op = "login"
           /\ req[r].pc \in Lookup \cup {"authenticated", "refused"}
              => req[r].op \in {"use", "logout", "password"}
           /\ req[r].pc \in Renewing => req[r].op \in {"login", "use", "logout", "password"}
           /\ req[r].pc \in Deleting => req[r].op = "logout"
           /\ req[r].pc = "revoke" => req[r].op \in {"password", "admin"}
           /\ req[r].pc \in RevokingAll => req[r].op \in {"password", "admin"}
           /\ req[r].pc \in Label
BY DEF ReqInv, Record, Sound

\* The requests that begin.
NewLogin(t) == [Idle EXCEPT !.pc = "login", !.op = "login", !.token = t]
NewRequest(o, t) ==
    [Idle EXCEPT !.pc = "cache", !.op = o, !.token = t, !.barred = t \in revoked,
    !.due = promised[t]]
NewAdmin == [Idle EXCEPT !.pc = "revoke", !.op = "admin"]

\* A request may be replaced by a sound record.
LEMMA ReplaceKeeps ==
    ASSUME ReqInv, NEW r \in Request, NEW n \in Record, Sound(n), req' = [req EXCEPT ![r] = n]
    PROVE  ReqInv' /\ Others(r) /\ req'[r] = n
BY DEF ReqInv, Others

\* A login begins with a session of its own.
LEMMA BeginLoginEffect ==
    ASSUME ReqInv, NEW r \in Request, NEW t \in Token, BeginLogin(r, t)
    PROVE  ReqInv' /\ Began(r, "login", "login", t, FALSE, 0)
<1>1. NewLogin(t) \in Record
  BY SessionsAssumption, ExpiryFacts DEF NewLogin, Idle, Record, Label, BeginLogin
<1>2. /\ NewLogin(t).pc = "login" /\ NewLogin(t).op = "login" /\ NewLogin(t).token = t
         /\ NewLogin(t).exp = 0 /\ NewLogin(t).todo = {}
      /\ NewLogin(t).targets = {} /\ NewLogin(t).barred = FALSE /\ NewLogin(t).due = 0
         /\ NewLogin(t).ticked = FALSE
  BY DEF NewLogin, Idle
<1>3. Sound(NewLogin(t))
  BY SessionsAssumption, <1>2 DEF Sound, Lookup, Renewing, Deleting, RevokingAll
<1> QED
  BY <1>1, <1>2, <1>3, ReplaceKeeps DEF BeginLogin, NewLogin, Began

\* A request begins with the session of its token, and notes whether it was
\* revoked and what it was promised.
LEMMA BeginWithEffect ==
    ASSUME ReqInv, TiersTypeOK, NEW r \in Request, NEW t \in Token,
           NEW o \in {"use", "logout", "password"}, BeginWith(r, o, t)
    PROVE  ReqInv' /\ Began(r, "cache", o, t, t \in revoked, promised[t])
<1> DEFINE b == t \in revoked
<1>0. b \in BOOLEAN /\ promised[t] \in Expiry
  BY DEF TiersTypeOK
<1> HIDE DEF b
<1>1. [Idle EXCEPT !.pc = "cache", !.op = o, !.token = t, !.barred = b,
      !.due = promised[t]] \in Record
  BY <1>0, SessionsAssumption, ExpiryFacts DEF Idle, Record, Label, BeginWith
<1>1a. NewRequest(o, t) \in Record
  BY <1>1 DEF NewRequest, b
<1>2. /\ NewRequest(o, t).pc = "cache" /\ NewRequest(o, t).op = o /\ NewRequest(o, t).token = t
         /\ NewRequest(o, t).exp = 0 /\ NewRequest(o, t).todo = {}
      /\ NewRequest(o, t).targets = {} /\ NewRequest(o, t).barred = (t \in revoked)
         /\ NewRequest(o, t).due = promised[t] /\ NewRequest(o, t).ticked = FALSE
  BY DEF NewRequest, Idle
<1>3. Sound(NewRequest(o, t))
  BY SessionsAssumption, <1>2 DEF Sound, Lookup, Renewing, Deleting, RevokingAll
<1> QED
  BY <1>1a, <1>2, <1>3, ReplaceKeeps DEF BeginWith, NewRequest, Began

\* The fields of an administrator's request.
LEMMA NewAdminFields ==
    LET n == NewAdmin
    IN  /\ n.pc = "revoke" /\ n.op = "admin" /\ n.token = Nobody /\ n.exp = 0 /\ n.todo = {}
        /\ n.targets = {} /\ n.barred = FALSE /\ n.due = 0 /\ n.ticked = FALSE
BY DEF NewAdmin, Idle

\* An administrator's request begins.
LEMMA BeginAdminEffect ==
    ASSUME ReqInv, NEW r \in Request, BeginAdmin(r)
    PROVE  ReqInv' /\ Began(r, "revoke", "admin", Nobody, FALSE, 0)
<1>1. NewAdmin \in Record
  BY SessionsAssumption, ExpiryFacts DEF NewAdmin, Idle, Record, Label, BeginAdmin
<1>2. Sound(NewAdmin)
  BY NewAdminFields DEF Sound, Lookup, Renewing, Deleting, RevokingAll
<1> QED
  BY <1>1, <1>2, NewAdminFields, ReplaceKeeps DEF BeginAdmin, NewAdmin, Began

\* TakeOut gives the request its targets and sends it on by its operation.
LEMMA TakeOutEffect ==
    ASSUME ReqInv, NEW r \in Request, NEW S \in SUBSET Token, TakeOut(r, S), ~At(r, "idle"),
           req[r].op \in {"logout", "password", "admin"}
    PROVE  /\ ReqInv' /\ Others(r) /\ SameSession(r)
           /\ req'[r].exp = req[r].exp /\ req'[r].todo = req[r].todo
           /\ req'[r].targets = {t \in S : promised[t] # 0}
           /\ req'[r].pc = IF req[r].op = "logout" THEN "delete redis" ELSE "revoke list"
<1> DEFINE l == IF req[r].op = "logout" THEN "delete redis" ELSE "revoke list"
           ts == {t \in S : promised[t] # 0}
           n == [req[r] EXCEPT !.pc = l, !.targets = ts]
<1>1. l \in Label /\ ts \in SUBSET Token
  BY DEF Label
<1>2. req[r] \in Record
  BY DEF ReqInv
<1> HIDE DEF l, ts
<1>3. /\ n \in Record /\ n.pc = l /\ n.targets = ts /\ n.op = req[r].op
         /\ n.token = req[r].token
      /\ n.exp = req[r].exp /\ n.todo = req[r].todo /\ n.barred = req[r].barred
      /\ n.due = req[r].due /\ n.ticked = req[r].ticked
  BY <1>1, <1>2 DEF Record
<1>4. req' = [req EXCEPT ![r] = n]
  BY <1>2 DEF TakeOut, l, ts
<1> HIDE DEF n
<1>5. Sound(n)
  BY <1>3 DEF ReqInv, At, Sound, l, Lookup, Renewing, Deleting, RevokingAll
<1> QED
  BY <1>3, <1>4, <1>5, ReplaceKeeps DEF SameSession, l, ts

\* A revocation goes on with ts left to delete.
LEMMA TodoEffect ==
    ASSUME ReqInv, NEW r \in Request, NEW l \in RevokingAll, NEW ts \in SUBSET Token,
           req' = [req EXCEPT ![r].pc = l, ![r].todo = ts], req[r].pc \in RevokingAll
    PROVE  /\ ReqInv' /\ Others(r) /\ SameSession(r)
           /\ req'[r].exp = req[r].exp /\ req'[r].targets = req[r].targets
           /\ req'[r].todo = ts /\ req'[r].pc = l
<1> DEFINE n == [req[r] EXCEPT !.pc = l, !.todo = ts]
<1>1. l \in Label
  BY DEF Label, RevokingAll
<1>2. req[r] \in Record
  BY DEF ReqInv
<1>3. /\ n \in Record /\ n.pc = l /\ n.todo = ts /\ n.op = req[r].op /\ n.token = req[r].token
      /\ n.exp = req[r].exp /\ n.targets = req[r].targets /\ n.barred = req[r].barred
      /\ n.due = req[r].due /\ n.ticked = req[r].ticked
  BY <1>1, <1>2 DEF Record
<1>4. req' = [req EXCEPT ![r] = n]
  BY <1>2
<1> HIDE DEF n
<1>5. Sound(n)
  BY <1>3 DEF ReqInv, Sound, Lookup, Renewing, Deleting, RevokingAll
<1> QED
  BY <1>3, <1>4, <1>5, ReplaceKeeps DEF SameSession

\* A tick changes nothing of a request but ticked.
LEMMA TickEffect ==
    ASSUME ReqInv, Tick
    PROVE  /\ ReqInv'
           /\ \A q \in Request : Ticked(q)
<1> DEFINE n(q) == IF Active(q) THEN [req[q] EXCEPT !.ticked = TRUE] ELSE Idle
<1>1. req' = [q \in Request |-> n(q)]
  BY DEF Tick
<1>2. ASSUME NEW q \in Request
      PROVE  /\ n(q) \in Record /\ Sound(n(q))
             /\ n(q).pc = req[q].pc /\ n(q).op = req[q].op /\ n(q).token = req[q].token
             /\ n(q).exp = req[q].exp /\ n(q).todo = req[q].todo
             /\ n(q).targets = req[q].targets /\ n(q).barred = req[q].barred
             /\ n(q).due = req[q].due
  <2>1. CASE Active(q)
    <3>1. /\ n(q) \in Record
          /\ n(q).pc = req[q].pc /\ n(q).op = req[q].op /\ n(q).token = req[q].token
          /\ n(q).exp = req[q].exp /\ n(q).todo = req[q].todo
          /\ n(q).targets = req[q].targets /\ n(q).barred = req[q].barred
          /\ n(q).due = req[q].due
      BY <2>1 DEF ReqInv, Record
    <3>2. Sound(n(q))
      BY <2>1, <3>1 DEF ReqInv, Sound, Active
    <3> QED
      BY <3>1, <3>2
  <2>2. CASE ~Active(q)
    BY <2>2 DEF ReqInv, Sound, Active
  <2> QED
    BY <2>1, <2>2
<1> QED
  BY <1>1, <1>2 DEF ReqInv, Ticked

\* The clock and the tiers hold naturals.
LEMMA ClockFacts ==
    ASSUME CountTypeOK, TiersTypeOK
    PROVE  /\ now \in Nat /\ TTL \in Nat
           /\ \A t \in Token : sql[t] \in Nat /\ redis[t] \in Nat /\ cache[t] \in Nat
              /\ promised[t] \in Nat
<1>1. now \in Nat /\ TTL \in Nat
  BY SessionsAssumption DEF CountTypeOK, TTL
<1>2. ASSUME NEW t \in Token
      PROVE  sql[t] \in Expiry /\ redis[t] \in Expiry /\ cache[t] \in Expiry
             /\ promised[t] \in Expiry
  BY DEF TiersTypeOK
<1> QED
  BY <1>1, <1>2, ExpiryFacts

\* authenticate refuses, renews or goes on (Authenticate).
LEMMA AuthenticateEffect ==
    ASSUME ReqInv, NEW r \in Request, NEW e \in Nat, now \in Nat, Authenticate(r, e)
    PROVE  Passed(r, e)
<1>1. CASE e <= now
  BY <1>1, GotoEffect DEF Authenticate, Passed
<1>2. CASE e > now /\ e < now + TTL
  BY <1>2, HoldingEffect DEF Authenticate, Passed
<1>3. CASE e > now /\ e >= now + TTL
  BY <1>3, GotoEffect DEF Authenticate, Passed, TTL
<1> QED
  BY <1>1, <1>2, <1>3 DEF TTL

\* LookCache does its Step.
LEMMA LookCacheEffect ==
    ASSUME ReqInv, CountTypeOK, TiersTypeOK, NEW r \in Request, LookCache(r)
    PROVE  LookCacheStep(r)
<1>1. Serving(r, "cache")
  BY TokenInv, PcInv DEF LookCache, Serving, Lookup, At
<1>2. cache[req[r].token] \in Nat /\ now \in Nat
  BY <1>1, TokenInv, ExpiryFacts, ClockFacts DEF Serving
<1> QED
  BY <1>1, <1>2, AuthenticateEffect, GotoEffect
  DEF LookCacheStep, LookCache, Serving, At, caching, history

\* LookRedis does its Step.
LEMMA LookRedisEffect ==
    ASSUME ReqInv, NEW r \in Request, LookRedis(r)
    PROVE  LookRedisStep(r)
BY TokenInv, PcInv, GotoEffect, HoldingEffect
DEF LookRedisStep, LookRedis, ReadyAnswers, RedisFails, CallFails, Skipped, Missed, Serving,
    Lookup, At, tiers

\* CacheHit does its Step.
LEMMA CacheHitEffect ==
    ASSUME ReqInv, CountTypeOK, TiersTypeOK, NEW r \in Request, CacheHit(r)
    PROVE  CacheHitStep(r)
<1>1. Serving(r, "cache hit")
  BY TokenInv, PcInv DEF CacheHit, Serving, Lookup, At
<1>2. req[r].exp \in Nat /\ now \in Nat
  BY <1>1, TokenInv, ExpiryFacts, ClockFacts DEF Serving
<1> QED
  BY <1>1, <1>2, AuthenticateEffect, GotoEffect
  DEF CacheHitStep, CacheHit, Serving, At, caching, history

\* LookSQL does its Step.
LEMMA LookSQLEffect ==
    ASSUME ReqInv, NEW r \in Request, LookSQL(r)
    PROVE  LookSQLStep(r)
BY TokenInv, PcInv, GotoEffect, HoldingEffect
DEF LookSQLStep, LookSQL, SQLFailsFor, Races, Serving, Lookup, At, tiers

\* DropExpired does its Step.
LEMMA DropExpiredEffect ==
    ASSUME ReqInv, NEW r \in Request, DropExpired(r)
    PROVE  DropExpiredStep(r)
BY TokenInv, PcInv, GotoEffect
DEF DropExpiredStep, DropExpired, Serving, Lookup, At, history

\* FillCache does its Step.
LEMMA FillCacheEffect ==
    ASSUME ReqInv, NEW r \in Request, FillCache(r)
    PROVE  FillCacheStep(r)
BY TokenInv, PcInv, GotoEffect
DEF FillCacheStep, FillCache, Serving, Lookup, At, caching, history

\* FillRedis does its Step.
LEMMA FillRedisEffect ==
    ASSUME ReqInv, CountTypeOK, TiersTypeOK, NEW r \in Request, FillRedis(r)
    PROVE  FillRedisStep(r)
<1>1. Serving(r, "fill redis")
  BY TokenInv, PcInv DEF FillRedis, Serving, Lookup, At
<1>2. req[r].exp \in Nat /\ now \in Nat
  BY <1>1, TokenInv, ExpiryFacts, ClockFacts DEF Serving
<1> QED
  BY <1>1, <1>2, AuthenticateEffect, GotoEffect
  DEF FillRedisStep, FillRedis, ReadyAnswers, RedisFails, CallFails, Skipped, Serving, At

\* Answer does its Step.
LEMMA AnswerEffect ==
    ASSUME ReqInv, NEW r \in Request, Answer(r)
    PROVE  AnswerStep(r)
BY AnsweredEffect DEF AnswerStep, Answer, Left, At, tiers, caching, history

\* CheckPassword does its Step.
LEMMA CheckPasswordEffect ==
    ASSUME ReqInv, NEW r \in Request, CheckPassword(r)
    PROVE  CheckPasswordStep(r)
BY TokenInv, PcInv, HoldingEffect, AnsweredEffect
DEF CheckPasswordStep, CheckPassword, Left, At, history

\* PutSQL does its Step.
LEMMA PutSQLEffect ==
    ASSUME ReqInv, NEW r \in Request, PutSQL(r)
    PROVE  PutSQLStep(r)
BY TokenInv, PcInv, GotoEffect
DEF PutSQLStep, PutSQL, SQLFailsFor, Races, Putting, Renewing, At

\* PutRedis does its Step.
LEMMA PutRedisEffect ==
    ASSUME ReqInv, NEW r \in Request, PutRedis(r)
    PROVE  PutRedisStep(r)
BY TokenInv, PcInv, GotoEffect
DEF PutRedisStep, PutRedis, ReadyAnswers, RedisFails, CallFails, Skipped, Missed, Putting,
    Renewing, At

\* PutIndex does its Step.
LEMMA PutIndexEffect ==
    ASSUME ReqInv, NEW r \in Request, PutIndex(r)
    PROVE  PutIndexStep(r)
BY TokenInv, PcInv, GotoEffect
DEF PutIndexStep, PutIndex, RedisAnswers, RedisFails, CallFails, Missed, Putting, Renewing, At,
    tiers

\* PutCache does its Step.
LEMMA PutCacheEffect ==
    ASSUME ReqInv, TiersTypeOK, NEW r \in Request, PutCache(r)
    PROVE  PutCacheStep(r)
BY TokenInv, PcInv, GotoEffect, AnsweredEffect
DEF PutCacheStep, PutCache, TiersTypeOK, Left, Putting, Renewing, At, caching

\* DeleteSQL does its Step.
LEMMA DeleteSQLEffect ==
    ASSUME ReqInv, NEW r \in Request, DeleteSQL(r)
    PROVE  DeleteSQLStep(r)
<1>1. LoggingOut(r, "authenticated") /\ TakeOut(r, {req[r].token})
  BY TokenInv DEF DeleteSQL, LoggingOut, At
<1>2. {req[r].token} \in SUBSET Token /\ ~At(r, "idle")
  BY <1>1 DEF LoggingOut, At
<1>3. Taken(r, {req[r].token}) /\ req'[r].pc = "delete redis"
  <2> DEFINE S == {req[r].token}
  <2>1. S \in SUBSET Token /\ TakeOut(r, S)
    BY <1>1, <1>2
  <2> HIDE DEF S
  <2> QED
    BY <1>1, <1>2, <2>1, TakeOutEffect DEF TakeOut, Taken, HeldByOthers, LoggingOut, S
<1> QED
  BY <1>1, <1>3 DEF DeleteSQLStep, DeleteSQL

\* DeleteRedis does its Step.
LEMMA DeleteRedisEffect ==
    ASSUME ReqInv, NEW r \in Request, DeleteRedis(r)
    PROVE  DeleteRedisStep(r)
BY TokenInv, PcInv, GotoEffect, AnsweredEffect
DEF DeleteRedisStep, DeleteRedis, Revoked, ReadyAnswers, RedisFails, CallFails, Skipped,
    Missed, Left, LoggingOut, Deleting, At

\* DeleteIndex does its Step.
LEMMA DeleteIndexEffect ==
    ASSUME ReqInv, NEW r \in Request, DeleteIndex(r)
    PROVE  DeleteIndexStep(r)
BY TokenInv, PcInv, GotoEffect
DEF DeleteIndexStep, DeleteIndex, LoggingOut, Deleting, At, tiers, history

\* DeleteCache does its Step.
LEMMA DeleteCacheEffect ==
    ASSUME ReqInv, NEW r \in Request, DeleteCache(r)
    PROVE  DeleteCacheStep(r)
BY TokenInv, PcInv, AnsweredEffect
DEF DeleteCacheStep, DeleteCache, Revoked, Left, LoggingOut, Deleting, At, caching

\* PutPassword does its Step.
LEMMA PutPasswordEffect ==
    ASSUME ReqInv, NEW r \in Request, PutPassword(r)
    PROVE  PutPasswordStep(r)
BY GotoEffect, AnsweredEffect DEF PutPasswordStep, PutPassword, Left, At, tiers, history

\* RevokeSQL does its Step.
LEMMA RevokeSQLEffect ==
    ASSUME ReqInv, NEW r \in Request, RevokeSQL(r)
    PROVE  RevokeSQLStep(r)
<1>1. /\ RevokingOthers(r, "revoke")
      /\ TakeOut(r, Token \ Kept(r))
  BY PcInv DEF RevokeSQL, RevokingOthers, At
<1>3. Taken(r, Token \ Kept(r)) /\ req'[r].pc = "revoke list"
  <2> DEFINE S == Token \ Kept(r)
  <2>1. S \in SUBSET Token /\ TakeOut(r, S) /\ ~At(r, "idle")
        /\ req[r].op \in {"password", "admin"}
    BY <1>1 DEF RevokingOthers, At
  <2> HIDE DEF S
  <2> QED
    BY <2>1, TakeOutEffect DEF TakeOut, Taken, HeldByOthers, S
<1> QED
  BY <1>1, <1>3 DEF RevokeSQLStep, RevokeSQL

\* RevokeList does its Step.
LEMMA RevokeListEffect ==
    ASSUME ReqInv, CountTypeOK, FlagsTypeOK, NEW r \in Request, RevokeList(r)
    PROVE  RevokeListStep(r)
<1>1. RevokingOthers(r, "revoke list")
  BY PcInv DEF RevokeList, RevokingOthers, RevokingAll, At
<1>2. CASE ReadyAnswers /\ req' = [req EXCEPT ![r].pc = "revoke redis",
           ![r].todo = usess \ Kept(r)]
  <2>1. Todo(r, usess \ Kept(r))
    <3> DEFINE ts == usess \ Kept(r)
    <3>1. ts \in SUBSET Token /\ "revoke redis" \in RevokingAll /\ req[r].pc \in RevokingAll
      BY <1>1 DEF FlagsTypeOK, RevokingOthers, RevokingAll, At
    <3>2. req' = [req EXCEPT ![r].pc = "revoke redis", ![r].todo = ts]
      BY <1>2
    <3> HIDE DEF ts
    <3>3. Todo(r, ts)
      BY <3>1, <3>2, TodoEffect DEF Todo
    <3> QED
      BY <3>3 DEF ts
  <2> QED
    BY <1>1, <1>2, <2>1 DEF RevokeListStep, RevokeList, ReadyAnswers, tiers
<1>3. CASE CallFails /\ redisDown' = FALSE /\ Goto(r, "revoke redis")
  BY <1>1, <1>3, GotoEffect DEF RevokeListStep, RevokeList, CallFails, Missed, tiers
<1>4. CASE Skipped /\ Goto(r, "revoke cache")
  BY <1>1, <1>4, GotoEffect DEF RevokeListStep, RevokeList, Skipped, Missed, tiers
<1> QED
  BY <1>2, <1>3, <1>4 DEF RevokeListStep, RevokeList

\* RevokeRedis does its Step.
LEMMA RevokeRedisEffect ==
    ASSUME ReqInv, NEW r \in Request, NEW t \in Token, RevokeRedis(r, t)
    PROVE  RevokeRedisStep(r, t)
<1>1. RevokingOthers(r, "revoke redis") /\ t \in req[r].todo
  BY PcInv DEF RevokeRedis, RevokingOthers, RevokingAll, At
<1>2. req[r].todo \in SUBSET Token
  BY TokenInv
<1>3. PICK ts : /\ req' = [req EXCEPT ![r].todo = ts]
                /\ \/ redis' = [redis EXCEPT ![t] = 0] /\ ts = req[r].todo \ {t}
                      /\ UNCHANGED exposed
                   \/ ts = {} /\ Missed /\ UNCHANGED redis
  BY DEF RevokeRedis, RedisAnswers, RedisFails, CallFails, Missed
<1>4. req' = [req EXCEPT ![r].pc = "revoke redis", ![r].todo = ts] /\ ts \in SUBSET Token
  BY <1>1, <1>2, <1>3 DEF ReqInv, Record, RevokingOthers, At
<1>5. Todo(r, ts)
  BY <1>1, <1>4, TodoEffect DEF Todo, RevokingOthers, RevokingAll, At
<1> QED
  BY <1>1, <1>3, <1>5 DEF RevokeRedisStep, RevokeRedis

\* RevokeIndex does its Step.
LEMMA RevokeIndexEffect ==
    ASSUME ReqInv, NEW r \in Request, RevokeIndex(r)
    PROVE  RevokeIndexStep(r)
BY PcInv, GotoEffect
DEF RevokeIndexStep, RevokeIndex, RedisAnswers, RedisFails, CallFails, Missed, RevokingOthers,
    RevokingAll, At, tiers

\* RevokeCache does its Step.
LEMMA RevokeCacheEffect ==
    ASSUME ReqInv, NEW r \in Request, RevokeCache(r)
    PROVE  RevokeCacheStep(r)
BY PcInv, AnsweredEffect
DEF RevokeCacheStep, RevokeCache, Revoked, Left, RevokingOthers, RevokingAll, At, caching

----------------------------------------------------------------------------
(* The types are kept.                                                     *)

\* Every action writes only expiries to the tiers.
LEMMA TiersTypeKept ==
    ASSUME ReqInv, TiersTypeOK, CountTypeOK, Next
    PROVE  TiersTypeOK'
<1>1. ASSUME NEW r \in Request, NEW t \in Token, BeginLogin(r, t) PROVE TiersTypeOK'
  BY <1>1 DEF BeginLogin, TiersTypeOK, tiers
<1>2. ASSUME NEW r \in Request, NEW t \in Token, NEW o \in {"use", "logout", "password"},
             BeginWith(r, o, t)
      PROVE  TiersTypeOK'
  BY <1>2 DEF BeginWith, TiersTypeOK, tiers
<1>3. ASSUME NEW r \in Request,
             BeginAdmin(r) \/ LookRedis(r) \/ LookSQL(r) \/ Answer(r) \/ PutIndex(r)
             \/ DeleteIndex(r)
             \/ PutPassword(r) \/ RevokeList(r) \/ RevokeIndex(r)
      PROVE  TiersTypeOK'
  BY <1>3
  DEF BeginAdmin, LookRedis, LookSQL, Answer, PutIndex, DeleteIndex, PutPassword, RevokeList,
      RevokeIndex, TiersTypeOK, tiers, history
<1>4. ASSUME Tick PROVE TiersTypeOK'
  BY <1>4 DEF Tick, TiersTypeOK, tiers
<1>5. ASSUME NEW r \in Request, LookCache(r) PROVE TiersTypeOK'
  BY <1>5, ExpiryFacts, TokenInv DEF LookCache, TiersTypeOK, CountTypeOK, history
<1>6. ASSUME NEW r \in Request, CacheHit(r) PROVE TiersTypeOK'
  BY <1>6, ExpiryFacts, TokenInv DEF CacheHit, TiersTypeOK, CountTypeOK, history
<1>7. ASSUME NEW r \in Request, DropExpired(r) PROVE TiersTypeOK'
  BY <1>7, ExpiryFacts, TokenInv DEF DropExpired, TiersTypeOK, CountTypeOK, history
<1>8. ASSUME NEW r \in Request, FillCache(r) PROVE TiersTypeOK'
  BY <1>8, ExpiryFacts, TokenInv DEF FillCache, TiersTypeOK, CountTypeOK, history
<1>9. ASSUME NEW r \in Request, FillRedis(r) PROVE TiersTypeOK'
  BY <1>9, ExpiryFacts, TokenInv DEF FillRedis, TiersTypeOK, CountTypeOK
<1>10. ASSUME NEW r \in Request, CheckPassword(r) PROVE TiersTypeOK'
  BY <1>10, ExpiryFacts, TokenInv DEF CheckPassword, TiersTypeOK, CountTypeOK, history
<1>11. ASSUME NEW r \in Request, PutSQL(r) PROVE TiersTypeOK'
  BY <1>11, ExpiryFacts, TokenInv DEF PutSQL, TiersTypeOK, CountTypeOK, history
<1>12. ASSUME NEW r \in Request, PutRedis(r) PROVE TiersTypeOK'
  BY <1>12, ExpiryFacts, TokenInv DEF PutRedis, TiersTypeOK, CountTypeOK
<1>13. ASSUME NEW r \in Request, PutCache(r) PROVE TiersTypeOK'
  BY <1>13, ExpiryFacts, TokenInv DEF PutCache, TiersTypeOK, CountTypeOK
<1>14. ASSUME NEW r \in Request, DeleteSQL(r) PROVE TiersTypeOK'
  <2>1. sql' = sql \/ sql' = [t \in Token |-> IF t \in {req[r].token} THEN 0 ELSE sql[t]]
    BY <1>14 DEF DeleteSQL, TakeOut
  <2>2. UNCHANGED <<redis, cache, promised>>
    BY <1>14 DEF DeleteSQL
  <2> QED
    BY <2>1, <2>2, ExpiryFacts DEF TiersTypeOK
<1>15. ASSUME NEW r \in Request, DeleteRedis(r) PROVE TiersTypeOK'
  <2>1. redis' \in {redis, [redis EXCEPT ![req[r].token] = 0]}
    BY <1>15 DEF DeleteRedis
  <2>2. UNCHANGED <<sql, cache, promised>>
    BY <1>15 DEF DeleteRedis
  <2> QED
    BY <2>1, <2>2, ExpiryFacts DEF TiersTypeOK
<1>16. ASSUME NEW r \in Request, DeleteCache(r) PROVE TiersTypeOK'
  BY <1>16, ExpiryFacts, TokenInv DEF DeleteCache, TiersTypeOK, CountTypeOK
<1>17. ASSUME NEW r \in Request, RevokeSQL(r) PROVE TiersTypeOK'
  <2>1. sql' = sql \/ sql' = [t \in Token |-> IF t \in Token \ Kept(r) THEN 0 ELSE sql[t]]
    BY <1>17 DEF RevokeSQL, TakeOut
  <2>2. UNCHANGED <<redis, cache, promised>>
    BY <1>17 DEF RevokeSQL
  <2> QED
    BY <2>1, <2>2, ExpiryFacts DEF TiersTypeOK
<1>18. ASSUME NEW r \in Request, NEW t \in Token, RevokeRedis(r, t) PROVE TiersTypeOK'
  BY <1>18, ExpiryFacts, TokenInv, ZenonT(60) DEF RevokeRedis, TiersTypeOK, CountTypeOK
<1>19. ASSUME NEW r \in Request, RevokeCache(r) PROVE TiersTypeOK'
  BY <1>19, ExpiryFacts, TokenInv DEF RevokeCache, TiersTypeOK, CountTypeOK
<1> QED
  BY <1>1, <1>2, <1>3, <1>4, <1>5, <1>6, <1>7, <1>8, <1>9, <1>10, <1>11, <1>12, <1>13, <1>14,
     <1>15, <1>16, <1>17, <1>18, <1>19, Zenon
  DEF Next

\* What a call of Redis or a statement of SQL does to the counters.
RedisStep ==
    /\ redisDown \in BOOLEAN => redisDown' \in BOOLEAN
    /\ fails' = fails \/ (fails < MaxFails /\ fails' = fails + 1)
    /\ UNCHANGED <<now, begun, account>>

\* It keeps them in their bounds.
LEMMA RedisStepKeeps ==
    ASSUME CountTypeOK, RedisStep
    PROVE  CountTypeOK'
BY SessionsAssumption DEF CountTypeOK, RedisStep

\* The actions that call Redis, or whose statement of SQL may fail, do a RedisStep.
LEMMA RedisSteps ==
    ASSUME NEW r \in Request,
           \/ LookRedis(r) \/ FillRedis(r) \/ PutRedis(r) \/ PutIndex(r) \/ DeleteRedis(r)
           \/ RevokeList(r) \/ (\E t \in Token : RevokeRedis(r, t)) \/ RevokeIndex(r)
           \/ LookSQL(r) \/ DropExpired(r) \/ CheckPassword(r) \/ PutSQL(r) \/ DeleteSQL(r)
           \/ PutPassword(r) \/ RevokeSQL(r)
    PROVE  RedisStep
<1> USE DEF RedisStep, RedisAnswers, Fails, SQLFailsFor, CallFails, RedisFails, ReadyAnswers, Skipped
<1>1. CASE LookRedis(r)
  BY <1>1 DEF LookRedis
<1>2. CASE FillRedis(r)
  BY <1>2 DEF FillRedis
<1>3. CASE PutRedis(r)
  BY <1>3 DEF PutRedis
<1>4. CASE PutIndex(r)
  BY <1>4 DEF PutIndex
<1>5. CASE DeleteRedis(r)
  BY <1>5 DEF DeleteRedis
<1>6. CASE RevokeList(r)
  BY <1>6 DEF RevokeList
<1>7. ASSUME NEW t \in Token, RevokeRedis(r, t) PROVE RedisStep
  BY <1>7 DEF RevokeRedis
<1>8. CASE RevokeIndex(r)
  BY <1>8 DEF RevokeIndex
<1>9. CASE LookSQL(r) \/ DropExpired(r) \/ CheckPassword(r) \/ PutSQL(r) \/ PutPassword(r)
  BY <1>9 DEF LookSQL, DropExpired, CheckPassword, PutSQL, PutPassword
<1>10. CASE DeleteSQL(r) \/ RevokeSQL(r)
  BY <1>10 DEF DeleteSQL, RevokeSQL, TakeOut
<1> QED
  BY <1>1, <1>2, <1>3, <1>4, <1>5, <1>6, <1>7, <1>8, <1>9, <1>10

\* The clock and the counters stay in their bounds.
LEMMA CountTypeKept ==
    ASSUME CountTypeOK, Next
    PROVE  CountTypeOK'
<1>1. ASSUME NEW r \in Request, NEW t \in Token, BeginLogin(r, t) PROVE CountTypeOK'
  BY <1>1, SessionsAssumption DEF BeginLogin, Begins, CountTypeOK, caching
<1>2. ASSUME NEW r \in Request, NEW t \in Token, NEW o \in {"use", "logout", "password"},
             BeginWith(r, o, t)
      PROVE  CountTypeOK'
  BY <1>2, SessionsAssumption DEF BeginWith, Begins, CountTypeOK, caching
<1>3. ASSUME NEW r \in Request, BeginAdmin(r) PROVE CountTypeOK'
  BY <1>3, SessionsAssumption DEF BeginAdmin, Begins, CountTypeOK, caching
<1>4. ASSUME NEW r \in Request,
             LookCache(r) \/ CacheHit(r) \/ FillCache(r) \/ Answer(r) \/ PutCache(r)
             \/ DeleteIndex(r) \/ DeleteCache(r) \/ RevokeCache(r)
      PROVE  CountTypeOK'
  BY <1>4
  DEF LookCache, CacheHit, FillCache, Answer, PutCache, DeleteIndex, DeleteCache, RevokeCache,
      CountTypeOK, caching
<1>5. ASSUME NEW r \in Request,
             LookRedis(r) \/ FillRedis(r) \/ PutRedis(r) \/ PutIndex(r) \/ DeleteRedis(r)
             \/ RevokeList(r) \/ RevokeIndex(r) \/ LookSQL(r) \/ DropExpired(r)
             \/ CheckPassword(r) \/ PutSQL(r) \/ DeleteSQL(r) \/ PutPassword(r) \/ RevokeSQL(r)
      PROVE  CountTypeOK'
  BY <1>5, RedisSteps, RedisStepKeeps
<1>6. ASSUME NEW r \in Request, NEW t \in Token, RevokeRedis(r, t) PROVE CountTypeOK'
  BY <1>6, RedisSteps, RedisStepKeeps
<1>7. ASSUME Tick PROVE CountTypeOK'
  BY <1>7, SessionsAssumption DEF Tick, CountTypeOK, caching
<1> QED
  BY <1>1, <1>2, <1>3, <1>4, <1>5, <1>6, <1>7, Zenon DEF Next

\* The index lists sessions only; the flags are booleans.
LEMMA FlagsTypeKept ==
    ASSUME ReqInv, FlagsTypeOK, Next
    PROVE  FlagsTypeOK'
<1>1. ASSUME NEW r \in Request, NEW t \in Token, BeginLogin(r, t) PROVE FlagsTypeOK'
  BY <1>1 DEF BeginLogin, FlagsTypeOK, caching
<1>2. ASSUME NEW r \in Request, NEW t \in Token, NEW o \in {"use", "logout", "password"},
             BeginWith(r, o, t)
      PROVE  FlagsTypeOK'
  BY <1>2 DEF BeginWith, FlagsTypeOK, caching
<1>3. ASSUME NEW r \in Request, BeginAdmin(r) PROVE FlagsTypeOK'
  BY <1>3 DEF BeginAdmin, FlagsTypeOK, caching
<1>4. ASSUME NEW r \in Request,
             LookCache(r) \/ CacheHit(r) \/ LookSQL(r) \/ DropExpired(r) \/ FillCache(r)
             \/ Answer(r)
             \/ CheckPassword(r) \/ PutSQL(r) \/ PutCache(r) \/ DeleteSQL(r) \/ DeleteCache(r)
             \/ PutPassword(r) \/ RevokeSQL(r) \/ RevokeCache(r)
      PROVE  FlagsTypeOK'
  BY <1>4
  DEF LookCache, CacheHit, LookSQL, DropExpired, FillCache, Answer, CheckPassword, PutSQL,
      PutCache, DeleteSQL, DeleteCache, PutPassword, RevokeSQL, RevokeCache, FlagsTypeOK,
      caching
<1>5. ASSUME NEW r \in Request, DeleteIndex(r) PROVE FlagsTypeOK'
  BY <1>5 DEF DeleteIndex, FlagsTypeOK
<1>6. ASSUME NEW r \in Request,
             LookRedis(r) \/ FillRedis(r) \/ PutRedis(r) \/ DeleteRedis(r) \/ RevokeList(r)
      PROVE  FlagsTypeOK'
  BY <1>6, RedisSteps
  DEF LookRedis, FillRedis, PutRedis, DeleteRedis, RevokeList, RedisStep, FlagsTypeOK
<1>7. ASSUME NEW r \in Request, PutIndex(r) PROVE FlagsTypeOK'
  <2>1. usess' \subseteq usess \cup {req[r].token} /\ req[r].token \in Token
    BY <1>7, PutIndexEffect DEF PutIndexStep, Putting
  <2> QED
    BY <1>7, <2>1, RedisSteps DEF RedisStep, FlagsTypeOK
<1>8. ASSUME NEW r \in Request, RevokeIndex(r) PROVE FlagsTypeOK'
  <2>1. usess' \subseteq usess \cup Kept(r) /\ Kept(r) \subseteq Token
    BY <1>8, RevokeIndexEffect, TokenInv DEF RevokeIndexStep, RevokingOthers, Kept, At
  <2> QED
    BY <1>8, <2>1, RedisSteps DEF RedisStep, FlagsTypeOK
<1>9. ASSUME NEW r \in Request, NEW t \in Token, RevokeRedis(r, t) PROVE FlagsTypeOK'
  BY <1>9, RedisSteps DEF RevokeRedis, RedisStep, FlagsTypeOK
<1>10. ASSUME Tick PROVE FlagsTypeOK'
  BY <1>10 DEF Tick, FlagsTypeOK, caching
<1> QED
  BY <1>1, <1>2, <1>3, <1>4, <1>5, <1>6, <1>7, <1>8, <1>9, <1>10, Zenon DEF Next

\* Used sessions are sessions.
LEMMA UsedTokens ==
    ASSUME ReqInv
    PROVE  Used \subseteq Token
BY DEF Used

\* So are targets.
LEMMA TargetTokens ==
    ASSUME ReqInv, NEW r \in Request
    PROVE  req[r].targets \subseteq Token
BY TokenInv

\* The history sets hold sessions only.
LEMMA SetsTypeKept ==
    ASSUME ReqInv, SetsTypeOK, Next
    PROVE  SetsTypeOK'
<1>1. ASSUME NEW r \in Request, NEW t \in Token, BeginLogin(r, t) PROVE SetsTypeOK'
  BY <1>1 DEF BeginLogin, SetsTypeOK
<1>2. ASSUME NEW r \in Request, NEW t \in Token, NEW o \in {"use", "logout", "password"},
             BeginWith(r, o, t)
      PROVE  SetsTypeOK'
  BY <1>2 DEF BeginWith, SetsTypeOK
<1>3. ASSUME NEW r \in Request,
             Answer(r) \/ CheckPassword(r) \/ PutCache(r) \/ CacheHit(r) \/ LookCache(r)
             \/ DropExpired(r) \/ FillCache(r) \/ DeleteIndex(r) \/ PutPassword(r)
             \/ BeginAdmin(r)
      PROVE  SetsTypeOK'
  BY <1>3
  DEF Answer, CheckPassword, PutCache, CacheHit, LookCache, DropExpired, FillCache,
      DeleteIndex, PutPassword, BeginAdmin, SetsTypeOK, history
<1>3a. ASSUME NEW r \in Request, LookSQL(r) \/ PutSQL(r) PROVE SetsTypeOK'
  <2>1. req[r].token \in Token
    BY <1>3a, TokenInv, PcInv DEF LookSQL, PutSQL, Lookup, Renewing, At
  <2>2. raced' \in {raced, raced \cup {req[r].token}}
        /\ UNCHANGED <<revoking, revoked, exposed>>
    BY <1>3a DEF LookSQL, PutSQL, SQLFailsFor
  <2> QED
    BY <2>1, <2>2 DEF SetsTypeOK
<1>4. ASSUME NEW r \in Request, LookRedis(r) PROVE SetsTypeOK'
  BY <1>4, UsedTokens DEF LookRedis, SetsTypeOK, CallFails, RedisFails, ReadyAnswers, Skipped
<1>5. ASSUME NEW r \in Request, FillRedis(r) PROVE SetsTypeOK'
  BY <1>5, UsedTokens DEF FillRedis, SetsTypeOK, CallFails, RedisFails, ReadyAnswers, Skipped
<1>6. ASSUME NEW r \in Request, PutRedis(r) PROVE SetsTypeOK'
  BY <1>6, UsedTokens DEF PutRedis, SetsTypeOK, CallFails, RedisFails, ReadyAnswers, Skipped
<1>7. ASSUME NEW r \in Request, PutIndex(r) PROVE SetsTypeOK'
  BY <1>7, UsedTokens DEF PutIndex, SetsTypeOK, RedisAnswers, CallFails, RedisFails
<1>8. ASSUME NEW r \in Request, RevokeList(r) PROVE SetsTypeOK'
  BY <1>8, UsedTokens DEF RevokeList, SetsTypeOK, CallFails, ReadyAnswers, Skipped
<1>9. ASSUME NEW r \in Request, RevokeIndex(r) PROVE SetsTypeOK'
  BY <1>9, UsedTokens DEF RevokeIndex, SetsTypeOK, RedisAnswers, CallFails, RedisFails
<1>10. ASSUME NEW r \in Request, NEW t \in Token, RevokeRedis(r, t) PROVE SetsTypeOK'
  BY <1>10, UsedTokens DEF RevokeRedis, SetsTypeOK, RedisAnswers, CallFails, RedisFails
<1>11. ASSUME NEW r \in Request, DeleteRedis(r) PROVE SetsTypeOK'
  BY <1>11, UsedTokens, TargetTokens
  DEF DeleteRedis, Revoked, SetsTypeOK, CallFails, RedisFails, ReadyAnswers, Skipped
<1>12. ASSUME NEW r \in Request,
             DeleteCache(r) \/ RevokeCache(r)
      PROVE  SetsTypeOK'
  BY <1>12, TargetTokens DEF DeleteCache, RevokeCache, Revoked, SetsTypeOK
<1>13. ASSUME NEW r \in Request, DeleteSQL(r) PROVE SetsTypeOK'
  BY <1>13, UsedTokens, TokenInv DEF DeleteSQL, TakeOut, SetsTypeOK, At
<1>14. ASSUME NEW r \in Request, RevokeSQL(r) PROVE SetsTypeOK'
  BY <1>14, UsedTokens DEF RevokeSQL, TakeOut, SetsTypeOK
<1>15. ASSUME Tick PROVE SetsTypeOK'
  <2>1. raced' \subseteq
           raced \cup
               {req[r].token : r \in {q \in Request : req[q].pc \in Renewing \/ Expires(q)}}
    BY <1>15 DEF Tick
  <2>2. ASSUME NEW q \in Request, req[q].pc \in Renewing \/ Expires(q)
        PROVE  req[q].token \in Token
    BY <2>2, TokenInv, PcInv DEF Expires, Renewing
  <2> QED
    BY <1>15, <2>1, <2>2 DEF Tick, SetsTypeOK
<1> QED
  BY <1>1, <1>2, <1>3, <1>3a, <1>4, <1>5, <1>6, <1>7, <1>8, <1>9, <1>10, <1>11, <1>12, <1>13, <1>14,
     <1>15, Zenon
  DEF Next

\* Every action leaves every request sound.
LEMMA ReqKept ==
    ASSUME ReqInv, TiersTypeOK, CountTypeOK, FlagsTypeOK, Next
    PROVE  ReqInv'
<1>1. ASSUME NEW r \in Request, NEW t \in Token, BeginLogin(r, t) PROVE ReqInv'
  BY <1>1, BeginLoginEffect
<1>2. ASSUME NEW r \in Request, NEW t \in Token, NEW o \in {"use", "logout", "password"},
             BeginWith(r, o, t)
      PROVE  ReqInv'
  BY <1>2, BeginWithEffect
<1>3. ASSUME NEW r \in Request, BeginAdmin(r) PROVE ReqInv'
  BY <1>3, BeginAdminEffect
<1>4. ASSUME NEW r \in Request, LookCache(r) PROVE ReqInv'
  BY <1>4, ExpiryFacts, PcInv, TokenInv, GotoKeeps, HoldingKeeps, AnsweredKeeps
  DEF LookCache, Authenticate, TiersTypeOK, CountTypeOK, Lookup, Deleting, RevokingAll,
      Renewing, Label, Holding, At
<1>5. ASSUME NEW r \in Request, LookRedis(r) PROVE ReqInv'
  BY <1>5, ExpiryFacts, PcInv, TokenInv, GotoKeeps, HoldingKeeps, AnsweredKeeps
  DEF LookRedis, TiersTypeOK, CountTypeOK, Lookup, Deleting, RevokingAll, Renewing, Label,
      Holding, At
<1>6. ASSUME NEW r \in Request, CacheHit(r) PROVE ReqInv'
  BY <1>6, ExpiryFacts, PcInv, TokenInv, GotoKeeps, HoldingKeeps, AnsweredKeeps
  DEF CacheHit, Authenticate, TiersTypeOK, CountTypeOK, Lookup, Deleting, RevokingAll,
      Renewing, Label, Holding, At
<1>7. ASSUME NEW r \in Request, LookSQL(r) PROVE ReqInv'
  BY <1>7, ExpiryFacts, PcInv, TokenInv, GotoKeeps, HoldingKeeps, AnsweredKeeps
  DEF LookSQL, TiersTypeOK, CountTypeOK, Lookup, Deleting, RevokingAll, Renewing, Label,
      Holding, At
<1>8. ASSUME NEW r \in Request, DropExpired(r) PROVE ReqInv'
  BY <1>8, ExpiryFacts, PcInv, TokenInv, GotoKeeps, HoldingKeeps, AnsweredKeeps
  DEF DropExpired, TiersTypeOK, CountTypeOK, Lookup, Deleting, RevokingAll, Renewing, Label,
      Holding, At
<1>9. ASSUME NEW r \in Request, FillCache(r) PROVE ReqInv'
  BY <1>9, ExpiryFacts, PcInv, TokenInv, GotoKeeps, HoldingKeeps, AnsweredKeeps
  DEF FillCache, TiersTypeOK, CountTypeOK, Lookup, Deleting, RevokingAll, Renewing, Label,
      Holding, At
<1>10. ASSUME NEW r \in Request, FillRedis(r) PROVE ReqInv'
  BY <1>10, ExpiryFacts, PcInv, TokenInv, GotoKeeps, HoldingKeeps, AnsweredKeeps
  DEF FillRedis, Authenticate, TiersTypeOK, CountTypeOK, Lookup, Deleting, RevokingAll,
      Renewing, Label, Holding, At
<1>11. ASSUME NEW r \in Request, Answer(r) PROVE ReqInv'
  BY <1>11, ExpiryFacts, PcInv, TokenInv, GotoKeeps, HoldingKeeps, AnsweredKeeps
  DEF Answer, TiersTypeOK, CountTypeOK, Lookup, Deleting, RevokingAll, Renewing, Label,
      Holding, At
<1>12. ASSUME NEW r \in Request, CheckPassword(r) PROVE ReqInv'
  BY <1>12, ExpiryFacts, PcInv, TokenInv, GotoKeeps, HoldingKeeps, AnsweredKeeps
  DEF CheckPassword, TiersTypeOK, CountTypeOK, Lookup, Deleting, RevokingAll, Renewing, Label,
      Holding, At
<1>13. ASSUME NEW r \in Request, PutSQL(r) PROVE ReqInv'
  BY <1>13, ExpiryFacts, PcInv, TokenInv, GotoKeeps, HoldingKeeps, AnsweredKeeps
  DEF PutSQL, TiersTypeOK, CountTypeOK, Lookup, Deleting, RevokingAll, Renewing, Label,
      Holding, At
<1>14. ASSUME NEW r \in Request, PutRedis(r) PROVE ReqInv'
  BY <1>14, ExpiryFacts, PcInv, TokenInv, GotoKeeps, HoldingKeeps, AnsweredKeeps
  DEF PutRedis, TiersTypeOK, CountTypeOK, Lookup, Deleting, RevokingAll, Renewing, Label,
      Holding, At
<1>15. ASSUME NEW r \in Request, PutIndex(r) PROVE ReqInv'
  BY <1>15, ExpiryFacts, PcInv, TokenInv, GotoKeeps, HoldingKeeps, AnsweredKeeps
  DEF PutIndex, TiersTypeOK, CountTypeOK, Lookup, Deleting, RevokingAll, Renewing, Label,
      Holding, At
<1>16. ASSUME NEW r \in Request, PutCache(r) PROVE ReqInv'
  BY <1>16, ExpiryFacts, PcInv, TokenInv, GotoKeeps, HoldingKeeps, AnsweredKeeps
  DEF PutCache, TiersTypeOK, CountTypeOK, Lookup, Deleting, RevokingAll, Renewing, Label,
      Holding, At
<1>17. ASSUME NEW r \in Request, DeleteRedis(r) PROVE ReqInv'
  BY <1>17, ExpiryFacts, PcInv, TokenInv, GotoKeeps, HoldingKeeps, AnsweredKeeps
  DEF DeleteRedis, Revoked, TiersTypeOK, CountTypeOK, Lookup, Deleting, RevokingAll, Renewing,
      Label, Holding, At
<1>18. ASSUME NEW r \in Request, DeleteIndex(r) PROVE ReqInv'
  BY <1>18, ExpiryFacts, PcInv, TokenInv, GotoKeeps, HoldingKeeps, AnsweredKeeps
  DEF DeleteIndex, TiersTypeOK, CountTypeOK, Lookup, Deleting, RevokingAll, Renewing, Label,
      Holding, At
<1>19. ASSUME NEW r \in Request, DeleteCache(r) PROVE ReqInv'
  BY <1>19, ExpiryFacts, PcInv, TokenInv, GotoKeeps, HoldingKeeps, AnsweredKeeps
  DEF DeleteCache, Revoked, TiersTypeOK, CountTypeOK, Lookup, Deleting, RevokingAll, Renewing,
      Label, Holding, At
<1>20. ASSUME NEW r \in Request, PutPassword(r) PROVE ReqInv'
  BY <1>20, ExpiryFacts, PcInv, TokenInv, GotoKeeps, HoldingKeeps, AnsweredKeeps
  DEF PutPassword, TiersTypeOK, CountTypeOK, Lookup, Deleting, RevokingAll, Renewing, Label,
      Holding, At
<1>21. ASSUME NEW r \in Request, RevokeIndex(r) PROVE ReqInv'
  BY <1>21, ExpiryFacts, PcInv, TokenInv, GotoKeeps, HoldingKeeps, AnsweredKeeps
  DEF RevokeIndex, TiersTypeOK, CountTypeOK, Lookup, Deleting, RevokingAll, Renewing, Label,
      Holding, At
<1>22. ASSUME NEW r \in Request, RevokeCache(r) PROVE ReqInv'
  BY <1>22, ExpiryFacts, PcInv, TokenInv, GotoKeeps, HoldingKeeps, AnsweredKeeps
  DEF RevokeCache, Revoked, TiersTypeOK, CountTypeOK, Lookup, Deleting, RevokingAll, Renewing,
      Label, Holding, At
<1>23. ASSUME NEW r \in Request, DeleteSQL(r) PROVE ReqInv'
  <2>1. {req[r].token} \in SUBSET Token /\ TakeOut(r, {req[r].token}) /\ ~At(r, "idle")
        /\ req[r].op = "logout"
    BY <1>23, TokenInv DEF DeleteSQL, At
  <2> QED
    BY <2>1, TakeOutEffect
<1>24. ASSUME NEW r \in Request, RevokeSQL(r) PROVE ReqInv'
  <2>1. Token \ Kept(r) \in SUBSET Token /\ TakeOut(r, Token \ Kept(r)) /\ ~At(r, "idle")
        /\ req[r].op \in {"password", "admin"}
    BY <1>24, PcInv DEF RevokeSQL, At
  <2> QED
    BY <2>1, TakeOutEffect
<1>25. ASSUME NEW r \in Request, RevokeList(r) PROVE ReqInv'
  <2>1. req[r].pc = "revoke list" /\ req[r].op \in {"password", "admin"}
    BY <1>25, PcInv DEF RevokeList, RevokingAll, At
  <2>2. CASE Goto(r, "revoke redis") \/ Goto(r, "revoke cache")
    BY <2>1, <2>2, GotoKeeps DEF Lookup, Deleting, RevokingAll, Renewing, Label, At
  <2>3. CASE req' = [req EXCEPT ![r].pc = "revoke redis", ![r].todo = usess \ Kept(r)]
    <3> DEFINE ts == usess \ Kept(r)
    <3>1. ts \in SUBSET Token /\ "revoke redis" \in RevokingAll /\ req[r].pc \in RevokingAll
      BY <2>1 DEF FlagsTypeOK, RevokingAll
    <3>2. req' = [req EXCEPT ![r].pc = "revoke redis", ![r].todo = ts]
      BY <2>3
    <3> HIDE DEF ts
    <3> QED
      BY <3>1, <3>2, TodoEffect
  <2> QED
    BY <1>25, <2>2, <2>3 DEF RevokeList
<1>26. ASSUME NEW r \in Request, NEW t \in Token, RevokeRedis(r, t) PROVE ReqInv'
  <2>1. req[r].pc = "revoke redis" /\ req[r].todo \subseteq Token
    BY <1>26, TokenInv DEF RevokeRedis, At
  <2>2. PICK ts \in {{}, req[r].todo \ {t}} : req' = [req EXCEPT ![r].todo = ts]
    BY <1>26 DEF RevokeRedis
  <2>3. req' = [req EXCEPT ![r].pc = "revoke redis", ![r].todo = ts] /\ ts \in SUBSET Token
    BY <2>1, <2>2 DEF ReqInv, Record
  <2> QED
    BY <2>1, <2>3, TodoEffect DEF RevokingAll
<1>27. ASSUME Tick PROVE ReqInv'
  BY <1>27, TickEffect
<1> QED
  BY <1>1, <1>2, <1>3, <1>4, <1>5, <1>6, <1>7, <1>8, <1>9, <1>10, <1>11, <1>12, <1>13, <1>14,
     <1>15, <1>16, <1>17, <1>18, <1>19, <1>20, <1>21, <1>22, <1>23, <1>24, <1>25, <1>26, <1>27,
     Zenon
  DEF Next

----------------------------------------------------------------------------
(* Who holds which session.                                                *)

\* No request takes or leaves a session.
SameClaims ==
    \A q \in Request :
        /\ req'[q].op = req[q].op /\ req'[q].token = req[q].token
           /\ req'[q].targets = req[q].targets
        /\ req'[q].barred = req[q].barred /\ req'[q].due = req[q].due

\* A request that moves holds what it held.
LEMMA MovedClaims ==
    ASSUME NEW r \in Request, NEW l, NEW e, Moved(r, l, e)
    PROVE  SameClaims
BY DEF SameClaims, Moved, Others, SameSession, SameWork

\* So does a revocation that goes on.
LEMMA TodoClaims ==
    ASSUME NEW r \in Request, NEW ts, Todo(r, ts)
    PROVE  SameClaims
BY DEF SameClaims, Todo, Others, SameSession

\* So does a request that passes authenticate.
LEMMA PassedClaims ==
    ASSUME NEW r \in Request, NEW e, Passed(r, e)
    PROVE  SameClaims
BY MovedClaims DEF Passed

\* The type invariant, with what the places of the requests say.
TypeInv == TiersTypeOK /\ FlagsTypeOK /\ CountTypeOK /\ SetsTypeOK /\ ReqInv

\* The actions that begin nothing, end nothing and take nothing out leave the
\* claims, and the promises and revocations, as they are.
LEMMA SameClaimsSteps ==
    ASSUME TypeInv,
           \/ \E r \in Request :
                 \/ LookCache(r) \/ LookRedis(r) \/ CacheHit(r) \/ LookSQL(r) \/ DropExpired(r)
                 \/ FillCache(r) \/ FillRedis(r) \/ PutSQL(r) \/ PutRedis(r) \/ PutIndex(r)
                 \/ DeleteIndex(r) \/ RevokeList(r) \/ RevokeIndex(r)
                 \/ \E t \in Token : RevokeRedis(r, t)
           \/ Tick
    PROVE  SameClaims /\ UNCHANGED <<promised, revoked, revoking>>
<1> DEFINE Goal == SameClaims /\ UNCHANGED <<promised, revoked, revoking>>
<1>1. ASSUME NEW r \in Request, LookCache(r) PROVE Goal
  BY <1>1, LookCacheEffect, MovedClaims, PassedClaims, TodoClaims DEF LookCacheStep, TypeInv
<1>2. ASSUME NEW r \in Request, LookRedis(r) PROVE Goal
  BY <1>2, LookRedisEffect, MovedClaims, PassedClaims, TodoClaims DEF LookRedisStep, TypeInv
<1>3. ASSUME NEW r \in Request, CacheHit(r) PROVE Goal
  BY <1>3, CacheHitEffect, MovedClaims, PassedClaims, TodoClaims DEF CacheHitStep, TypeInv
<1>4. ASSUME NEW r \in Request, LookSQL(r) PROVE Goal
  BY <1>4, LookSQLEffect, MovedClaims, PassedClaims, TodoClaims DEF LookSQLStep, TypeInv
<1>5. ASSUME NEW r \in Request, DropExpired(r) PROVE Goal
  BY <1>5, DropExpiredEffect, MovedClaims, PassedClaims, TodoClaims DEF DropExpiredStep, TypeInv
<1>6. ASSUME NEW r \in Request, FillCache(r) PROVE Goal
  BY <1>6, FillCacheEffect, MovedClaims, PassedClaims, TodoClaims DEF FillCacheStep, TypeInv
<1>7. ASSUME NEW r \in Request, FillRedis(r) PROVE Goal
  BY <1>7, FillRedisEffect, MovedClaims, PassedClaims, TodoClaims DEF FillRedisStep, TypeInv
<1>8. ASSUME NEW r \in Request, PutSQL(r) PROVE Goal
  BY <1>8, PutSQLEffect, MovedClaims, PassedClaims, TodoClaims DEF PutSQLStep, TypeInv
<1>9. ASSUME NEW r \in Request, PutRedis(r) PROVE Goal
  BY <1>9, PutRedisEffect, MovedClaims, PassedClaims, TodoClaims DEF PutRedisStep, TypeInv
<1>10. ASSUME NEW r \in Request, PutIndex(r) PROVE Goal
  BY <1>10, PutIndexEffect, MovedClaims, PassedClaims, TodoClaims DEF PutIndexStep, TypeInv
<1>11. ASSUME NEW r \in Request, DeleteIndex(r) PROVE Goal
  BY <1>11, DeleteIndexEffect, MovedClaims, PassedClaims, TodoClaims
  DEF DeleteIndexStep, TypeInv
<1>12. ASSUME NEW r \in Request, RevokeList(r) PROVE Goal
  BY <1>12, RevokeListEffect, MovedClaims, PassedClaims, TodoClaims DEF RevokeListStep, TypeInv
<1>13. ASSUME NEW r \in Request, RevokeIndex(r) PROVE Goal
  BY <1>13, RevokeIndexEffect, MovedClaims, PassedClaims, TodoClaims
  DEF RevokeIndexStep, TypeInv
<1>14. ASSUME NEW r \in Request, NEW t \in Token, RevokeRedis(r, t) PROVE Goal
  BY <1>14, RevokeRedisEffect, TodoClaims DEF RevokeRedisStep, TypeInv
<1>15. ASSUME Tick PROVE Goal
  BY <1>15, TickEffect DEF TypeInv, Tick, Ticked, SameClaims
<1> HIDE DEF Goal
<1>16. Goal
  BY <1>1, <1>2, <1>3, <1>4, <1>5, <1>6, <1>7, <1>8, <1>9, <1>10, <1>11, <1>12, <1>13, <1>14,
     <1>15, Zenon
<1> QED
  BY <1>16 DEF Goal

\* A session that a request holds has been made; a login's has not yet, and is
\* its own; what is taken out or revoked had been made; a request was promised at
\* most what the session is promised now; a barred request holds a revoked
\* session.
HeldMade ==
    \A r \in Request : req[r].token # Nobody /\ req[r].op # "login"
    => promised[req[r].token] # 0
LoginAlone ==
    \A r \in Request : req[r].op = "login" =>
        /\ req[r].token \in Token /\ promised[req[r].token] = 0
        /\ \A q \in Request \ {r} : req[q].token # req[r].token
TargetsMade == \A r \in Request : \A t \in req[r].targets : promised[t] # 0
RevokedMade == \A t \in revoked : promised[t] # 0
DueInv == \A r \in Request : req[r].token # Nobody => req[r].due <= promised[req[r].token]
BarredRevoked == \A r \in Request : req[r].barred => req[r].token \in revoked

OwnersInv == HeldMade /\ LoginAlone /\ TargetsMade /\ RevokedMade /\ DueInv /\ BarredRevoked

\* OwnersInv is kept when no claim changes.
LEMMA OwnersSame ==
    ASSUME OwnersInv, SameClaims, UNCHANGED <<promised, revoked>>
    PROVE  OwnersInv'
<1>1. (HeldMade /\ TargetsMade /\ RevokedMade /\ DueInv /\ BarredRevoked)'
  BY DEF OwnersInv, SameClaims, HeldMade, TargetsMade, RevokedMade, DueInv, BarredRevoked
<1>2. LoginAlone'
  BY DEF OwnersInv, SameClaims, LoginAlone
<1> QED
  BY <1>1, <1>2 DEF OwnersInv

\* OwnersInv is kept when a request is answered.
LEMMA OwnersLeft ==
    ASSUME OwnersInv, NEW r \in Request, Left(r), UNCHANGED promised,
           revoked' \in {revoked, revoked \cup req[r].targets}
    PROVE  OwnersInv'
<1>1. (HeldMade /\ TargetsMade)'
  BY DEF OwnersInv, HeldMade, TargetsMade, Left, Began, Others
<1>2. LoginAlone'
  <2>1. ASSUME NEW q \in Request, req'[q].op = "login"
        PROVE  /\ req'[q].token \in Token /\ promised'[req'[q].token] = 0
               /\ \A s \in Request \ {q} : req'[s].token # req'[q].token
    <3>1. q # r /\ req'[q] = req[q]
      BY <2>1 DEF Left, Began, Others
    <3>2. \A s \in Request \ {q} : req[s].token # req[q].token
      BY <2>1, <3>1 DEF OwnersInv, LoginAlone
    <3>3. req'[r].token = Nobody /\ \A s \in Request \ {q, r} : req'[s] = req[s]
      BY DEF Left, Began, Others
    <3> QED
      BY <2>1, <3>1, <3>2, <3>3, SessionsAssumption DEF OwnersInv, LoginAlone
  <2> QED
    BY <2>1 DEF LoginAlone
<1>3. (RevokedMade /\ DueInv /\ BarredRevoked)'
  BY DEF OwnersInv, TargetsMade, RevokedMade, DueInv, BarredRevoked, Left, Began, Others
<1> QED
  BY <1>1, <1>2, <1>3 DEF OwnersInv

\* OwnersInv is kept when sessions are taken out.
LEMMA OwnersTaken ==
    ASSUME ReqInv, OwnersInv, NEW r \in Request, NEW S \in SUBSET Token, Taken(r, S),
           UNCHANGED <<promised, revoked>>
    PROVE  OwnersInv'
<1>1. (HeldMade /\ RevokedMade /\ DueInv /\ BarredRevoked)'
  BY DEF OwnersInv, HeldMade, RevokedMade, DueInv, BarredRevoked, Taken, Others, SameSession
<1>2. TargetsMade'
  BY DEF OwnersInv, TargetsMade, Taken, Others
<1>3. LoginAlone'
  <2>1. \A q \in Request : req'[q].op = req[q].op /\ req'[q].token = req[q].token
    BY DEF Taken, Others, SameSession
  <2> QED
    BY <2>1 DEF OwnersInv, LoginAlone
<1> QED
  BY <1>1, <1>2, <1>3 DEF OwnersInv

\* OwnersInv is kept by every action.
LEMMA OwnersKept ==
    ASSUME TypeInv, OwnersInv, Next
    PROVE  OwnersInv'
<1>1. ASSUME NEW r \in Request, NEW t \in Token, BeginLogin(r, t) PROVE OwnersInv'
  <2>1. /\ Began(r, "login", "login", t, FALSE, 0) /\ UNCHANGED <<promised, revoked>>
        /\ promised[t] = 0 /\ \A q \in Request : req[q].token # t
    BY <1>1, BeginLoginEffect DEF TypeInv, BeginLogin, Used
  <2>2. (HeldMade /\ TargetsMade /\ RevokedMade /\ BarredRevoked)'
    BY <2>1 DEF OwnersInv, HeldMade, TargetsMade, RevokedMade, BarredRevoked, Began, Others
  <2>3. DueInv'
    BY <2>1 DEF OwnersInv, DueInv, Began, Others
  <2>4. LoginAlone'
    BY <2>1 DEF OwnersInv, LoginAlone, Began, Others
  <2> QED
    BY <2>2, <2>3, <2>4 DEF OwnersInv
<1>2. ASSUME NEW r \in Request, NEW t \in Token, NEW o \in {"use", "logout", "password"},
             BeginWith(r, o, t)
      PROVE  OwnersInv'
  <2>1. /\ Began(r, "cache", o, t, t \in revoked, promised[t])
           /\ UNCHANGED <<promised, revoked>>
        /\ promised[t] # 0
    BY <1>2, BeginWithEffect DEF TypeInv, BeginWith
  <2>2. (HeldMade /\ TargetsMade /\ RevokedMade)'
    BY <2>1 DEF OwnersInv, HeldMade, TargetsMade, RevokedMade, Began, Others
  <2>3. BarredRevoked'
    BY <2>1 DEF OwnersInv, BarredRevoked, Began, Others
  <2>5. DueInv'
    <3>1. promised[t] \in Nat
      BY ClockFacts DEF TypeInv
    <3> QED
      BY <2>1, <3>1 DEF OwnersInv, DueInv, Began, Others
  <2>4. LoginAlone'
    BY <2>1 DEF OwnersInv, LoginAlone, Began, Others
  <2> QED
    BY <2>2, <2>3, <2>4, <2>5 DEF OwnersInv
<1>3. ASSUME NEW r \in Request, BeginAdmin(r) PROVE OwnersInv'
  <2>1. Began(r, "revoke", "admin", Nobody, FALSE, 0) /\ UNCHANGED <<promised, revoked>>
    BY <1>3, BeginAdminEffect DEF TypeInv, BeginAdmin, history
  <2>2. (HeldMade /\ TargetsMade /\ RevokedMade /\ BarredRevoked /\ DueInv)'
    BY <2>1
    DEF OwnersInv, HeldMade, TargetsMade, RevokedMade, BarredRevoked, DueInv, Began, Others
  <2>3. LoginAlone'
    BY <2>1, SessionsAssumption DEF OwnersInv, LoginAlone, Began, Others
  <2> QED
    BY <2>2, <2>3 DEF OwnersInv
<1>4. ASSUME NEW r \in Request,
             LookCache(r) \/ LookRedis(r) \/ CacheHit(r) \/ LookSQL(r) \/ DropExpired(r)
             \/ FillCache(r) \/ FillRedis(r) \/ PutSQL(r) \/ PutRedis(r) \/ PutIndex(r)
                \/ DeleteIndex(r)
             \/ RevokeList(r) \/ RevokeIndex(r)
      PROVE  OwnersInv'
  BY <1>4, SameClaimsSteps, OwnersSame
<1>5. ASSUME NEW r \in Request, NEW t \in Token, RevokeRedis(r, t) PROVE OwnersInv'
  BY <1>5, SameClaimsSteps, OwnersSame
<1>6. ASSUME Tick PROVE OwnersInv'
  BY <1>6, SameClaimsSteps, OwnersSame
<1>7. ASSUME NEW r \in Request, Answer(r) PROVE OwnersInv'
  BY <1>7, AnswerEffect, OwnersLeft DEF AnswerStep, TypeInv
<1>8. ASSUME NEW r \in Request, PutPassword(r) PROVE OwnersInv'
  <2>1. PutPasswordStep(r)
    BY <1>8, PutPasswordEffect DEF TypeInv
  <2>2. CASE Left(r)
    BY <2>1, <2>2, OwnersLeft DEF PutPasswordStep
  <2>3. CASE Moved(r, "revoke", req[r].exp)
    BY <2>1, <2>3, MovedClaims, OwnersSame DEF PutPasswordStep
  <2> QED
    BY <2>1, <2>2, <2>3 DEF PutPasswordStep
<1>9. ASSUME NEW r \in Request,
             DeleteCache(r) \/ RevokeCache(r)
      PROVE  OwnersInv'
  BY <1>9, DeleteCacheEffect, RevokeCacheEffect, OwnersLeft
  DEF DeleteCacheStep, RevokeCacheStep, TypeInv
<1>10. ASSUME NEW r \in Request, DeleteRedis(r) PROVE OwnersInv'
  BY <1>10, DeleteRedisEffect, OwnersLeft, MovedClaims, OwnersSame DEF DeleteRedisStep, TypeInv
<1>11. ASSUME NEW r \in Request, CheckPassword(r) PROVE OwnersInv'
  BY <1>11, CheckPasswordEffect, OwnersLeft, MovedClaims, OwnersSame
  DEF CheckPasswordStep, TypeInv
<1>12. ASSUME NEW r \in Request, DeleteSQL(r) PROVE OwnersInv'
  <2> DEFINE S == {req[r].token}
  <2>1. S \in SUBSET Token /\ Taken(r, S) /\ UNCHANGED <<promised, revoked>>
    BY <1>12, DeleteSQLEffect DEF DeleteSQLStep, TypeInv, LoggingOut
  <2> HIDE DEF S
  <2> QED
    BY <2>1, OwnersTaken DEF TypeInv
<1>13. ASSUME NEW r \in Request, RevokeSQL(r) PROVE OwnersInv'
  <2> DEFINE S == Token \ Kept(r)
  <2>1. S \in SUBSET Token /\ Taken(r, S) /\ UNCHANGED <<promised, revoked>>
    BY <1>13, RevokeSQLEffect DEF RevokeSQLStep, TypeInv
  <2> HIDE DEF S
  <2> QED
    BY <2>1, OwnersTaken DEF TypeInv
<1>14. ASSUME NEW r \in Request, PutCache(r) PROVE OwnersInv'
  <2>1. /\ Putting(r, "put cache") /\ UNCHANGED revoked
        /\ promised' = [promised EXCEPT ![req[r].token] =
               IF promised[req[r].token] > req[r].exp THEN promised[req[r].token] ELSE req[r].exp]
        /\ (req[r].op = "login" /\ Left(r)) \/ (req[r].op # "login" /\ Moved(r,
           "authenticated", req[r].exp))
    BY <1>14, PutCacheEffect DEF PutCacheStep, TypeInv
  <2>2. \A t \in Token : promised'[t] \in Nat /\ promised[t] <= promised'[t]
        /\ (t # req[r].token => promised'[t] = promised[t])
    <3>1. req[r].exp \in Nat /\ req[r].token \in Token /\ promised \in [Token -> Expiry]
      BY <2>1, TokenInv, ExpiryFacts DEF TypeInv, Putting, TiersTypeOK
    <3>2. \A t \in Token : promised[t] \in Nat
      BY ClockFacts DEF TypeInv
    <3> DEFINE e == IF promised[req[r].token] > req[r].exp THEN promised[req[r].token]
    ELSE req[r].exp
    <3>3. e \in Nat /\ promised[req[r].token] <= e
      BY <3>1, <3>2
    <3>4. promised' = [promised EXCEPT ![req[r].token] = e]
      BY <2>1
    <3> HIDE DEF e
    <3> QED
      BY <3>1, <3>2, <3>3, <3>4
  <2>3. \A q \in Request : /\ req[q].token \in Token \cup {Nobody} /\ req[q].due \in Nat
                           /\ req[q].targets \subseteq Token
    BY TokenInv, ExpiryFacts DEF TypeInv
  <2>4. \A t \in Token : promised[t] \in Nat
    BY ClockFacts DEF TypeInv
  <2>5. revoked \subseteq Token
    BY DEF TypeInv, SetsTypeOK
  <2>6. CASE req[r].op = "login" /\ Left(r)
    <3>1. \A q \in Request : q # r => req'[q] = req[q]
      BY <2>6 DEF Left, Began, Others
    <3>2. req'[r].token = Nobody /\ req'[r].targets = {} /\ req'[r].barred = FALSE
      BY <2>6 DEF Left, Began
    <3>4. HeldMade'
      BY <2>2, <2>3, <2>4, <3>1, <3>2 DEF OwnersInv, HeldMade
    <3>5. TargetsMade'
      BY <2>2, <2>3, <2>4, <3>1, <3>2 DEF OwnersInv, TargetsMade
    <3>6. RevokedMade'
      <4>1. revoked' = revoked
        BY <2>1
      <4>2. \A t \in revoked : promised'[t] # 0
        BY <2>2, <2>4, <2>5 DEF OwnersInv, RevokedMade
      <4> QED
        BY <4>1, <4>2 DEF RevokedMade
    <3>7. BarredRevoked'
      BY <2>1, <3>1, <3>2 DEF OwnersInv, BarredRevoked
    <3>8. DueInv'
      BY <2>2, <2>3, <2>4, <3>1, <3>2 DEF OwnersInv, DueInv
    <3>3. LoginAlone'
      <4>1. ASSUME NEW q \in Request, req'[q].op = "login"
            PROVE  /\ req'[q].token \in Token /\ promised'[req'[q].token] = 0
                   /\ \A s \in Request \ {q} : req'[s].token # req'[q].token
        <5>1. q # r /\ req'[q] = req[q]
          BY <2>6, <4>1 DEF Left, Began, Others
        <5>2. /\ \A s \in Request \ {q} : req[s].token # req[q].token
              /\ req[q].token \in Token /\ promised[req[q].token] = 0
          BY <4>1, <5>1 DEF OwnersInv, LoginAlone
        <5>3. req'[r].token = Nobody /\ \A s \in Request \ {q, r} : req'[s] = req[s]
          BY <2>6 DEF Left, Began, Others
        <5> QED
          BY <5>1, <5>2, <5>3, <2>2, SessionsAssumption
      <4> QED
        BY <4>1 DEF LoginAlone
    <3> QED
      BY <3>3, <3>4, <3>5, <3>6, <3>7, <3>8 DEF OwnersInv
  <2>7. CASE req[r].op # "login" /\ Moved(r, "authenticated", req[r].exp)
    <3>1. SameClaims
      BY <2>7, MovedClaims
    <3>2. HeldMade'
      BY <3>1, <2>2, <2>3, <2>4 DEF OwnersInv, HeldMade, SameClaims
    <3>5. TargetsMade'
      BY <3>1, <2>2, <2>3, <2>4 DEF OwnersInv, TargetsMade, SameClaims
    <3>6. RevokedMade'
      <4>1. revoked' = revoked
        BY <2>1
      <4>2. \A t \in revoked : promised'[t] # 0
        BY <2>2, <2>4, <2>5 DEF OwnersInv, RevokedMade
      <4> QED
        BY <4>1, <4>2 DEF RevokedMade
    <3>7. BarredRevoked'
      BY <2>1, <3>1 DEF OwnersInv, BarredRevoked, SameClaims
    <3>3. DueInv'
      BY <3>1, <2>2, <2>3, <2>4 DEF OwnersInv, DueInv, SameClaims
    <3>4. LoginAlone'
      <4>1. ASSUME NEW q \in Request, req[q].op = "login" PROVE req[q].token # req[r].token
        BY <2>1, <2>7, <4>1 DEF OwnersInv, LoginAlone, Putting
      <4> QED
        BY <3>1, <4>1, <2>2 DEF OwnersInv, LoginAlone, SameClaims
    <3> QED
      BY <3>2, <3>3, <3>4, <3>5, <3>6, <3>7 DEF OwnersInv
  <2> QED
    BY <2>1, <2>6, <2>7
<1> QED
  BY <1>1, <1>2, <1>3, <1>4, <1>5, <1>6, <1>7, <1>8, <1>9, <1>10, <1>11, <1>12, <1>13, <1>14,
     Zenon
  DEF Next

----------------------------------------------------------------------------
(* Every step is one of the Steps.                                         *)

\* A step of the system, as one of the Steps.
Step ==
    \/ \E r \in Request :
           \/ \E t \in Token : BeginLoginStep(r, t) \/ RevokeRedisStep(r, t)
           \/ \E t \in Token, o \in {"use", "logout", "password"} : BeginWithStep(r, o, t)
           \/ BeginAdminStep(r)
           \/ LookCacheStep(r) \/ LookRedisStep(r) \/ CacheHitStep(r) \/ LookSQLStep(r)
           \/ DropExpiredStep(r) \/ FillCacheStep(r) \/ FillRedisStep(r) \/ AnswerStep(r)
           \/ CheckPasswordStep(r) \/ PutSQLStep(r) \/ PutRedisStep(r) \/ PutIndexStep(r)
           \/ PutCacheStep(r) \/ DeleteSQLStep(r) \/ DeleteRedisStep(r)
           \/ DeleteIndexStep(r) \/ DeleteCacheStep(r) \/ PutPasswordStep(r)
           \/ RevokeSQLStep(r) \/ RevokeListStep(r) \/ RevokeIndexStep(r)
           \/ RevokeCacheStep(r)
    \/ TickStep

\* Every action of Next does its Step.
LEMMA NextSteps ==
    ASSUME TypeInv, Next
    PROVE  Step
<1>1. ASSUME NEW r \in Request, NEW t \in Token, BeginLogin(r, t) PROVE BeginLoginStep(r, t)
  BY <1>1, BeginLoginEffect
  DEF TypeInv, BeginLogin, Begins, Active, BeginLoginStep, tiers, caching
<1>2. ASSUME NEW r \in Request, NEW t \in Token, NEW o \in {"use", "logout", "password"},
             BeginWith(r, o, t)
      PROVE  BeginWithStep(r, o, t)
  BY <1>2, BeginWithEffect DEF TypeInv, BeginWith, Begins, Active, BeginWithStep, tiers, caching
<1>3. ASSUME NEW r \in Request, BeginAdmin(r) PROVE BeginAdminStep(r)
  BY <1>3, BeginAdminEffect
  DEF TypeInv, BeginAdmin, Begins, Active, BeginAdminStep, tiers, caching, history
<1>4. ASSUME NEW r \in Request, LookCache(r) PROVE LookCacheStep(r)
  BY <1>4, LookCacheEffect DEF TypeInv
<1>5. ASSUME NEW r \in Request, LookRedis(r) PROVE LookRedisStep(r)
  BY <1>5, LookRedisEffect DEF TypeInv
<1>6. ASSUME NEW r \in Request, CacheHit(r) PROVE CacheHitStep(r)
  BY <1>6, CacheHitEffect DEF TypeInv
<1>7. ASSUME NEW r \in Request, LookSQL(r) PROVE LookSQLStep(r)
  BY <1>7, LookSQLEffect DEF TypeInv
<1>8. ASSUME NEW r \in Request, DropExpired(r) PROVE DropExpiredStep(r)
  BY <1>8, DropExpiredEffect DEF TypeInv
<1>9. ASSUME NEW r \in Request, FillCache(r) PROVE FillCacheStep(r)
  BY <1>9, FillCacheEffect DEF TypeInv
<1>10. ASSUME NEW r \in Request, FillRedis(r) PROVE FillRedisStep(r)
  BY <1>10, FillRedisEffect DEF TypeInv
<1>11. ASSUME NEW r \in Request, Answer(r) PROVE AnswerStep(r)
  BY <1>11, AnswerEffect DEF TypeInv
<1>12. ASSUME NEW r \in Request, CheckPassword(r) PROVE CheckPasswordStep(r)
  BY <1>12, CheckPasswordEffect DEF TypeInv
<1>13. ASSUME NEW r \in Request, PutSQL(r) PROVE PutSQLStep(r)
  BY <1>13, PutSQLEffect DEF TypeInv
<1>14. ASSUME NEW r \in Request, PutRedis(r) PROVE PutRedisStep(r)
  BY <1>14, PutRedisEffect DEF TypeInv
<1>15. ASSUME NEW r \in Request, PutIndex(r) PROVE PutIndexStep(r)
  BY <1>15, PutIndexEffect DEF TypeInv
<1>16. ASSUME NEW r \in Request, PutCache(r) PROVE PutCacheStep(r)
  BY <1>16, PutCacheEffect DEF TypeInv
<1>17. ASSUME NEW r \in Request, DeleteSQL(r) PROVE DeleteSQLStep(r)
  BY <1>17, DeleteSQLEffect DEF TypeInv
<1>18. ASSUME NEW r \in Request, DeleteRedis(r) PROVE DeleteRedisStep(r)
  BY <1>18, DeleteRedisEffect DEF TypeInv
<1>19. ASSUME NEW r \in Request, DeleteIndex(r) PROVE DeleteIndexStep(r)
  BY <1>19, DeleteIndexEffect DEF TypeInv
<1>20. ASSUME NEW r \in Request, DeleteCache(r) PROVE DeleteCacheStep(r)
  BY <1>20, DeleteCacheEffect DEF TypeInv
<1>21. ASSUME NEW r \in Request, PutPassword(r) PROVE PutPasswordStep(r)
  BY <1>21, PutPasswordEffect DEF TypeInv
<1>22. ASSUME NEW r \in Request, RevokeSQL(r) PROVE RevokeSQLStep(r)
  BY <1>22, RevokeSQLEffect DEF TypeInv
<1>23. ASSUME NEW r \in Request, RevokeList(r) PROVE RevokeListStep(r)
  BY <1>23, RevokeListEffect DEF TypeInv
<1>24. ASSUME NEW r \in Request, NEW t \in Token, RevokeRedis(r, t) PROVE RevokeRedisStep(r, t)
  BY <1>24, RevokeRedisEffect DEF TypeInv
<1>25. ASSUME NEW r \in Request, RevokeIndex(r) PROVE RevokeIndexStep(r)
  BY <1>25, RevokeIndexEffect DEF TypeInv
<1>26. ASSUME NEW r \in Request, RevokeCache(r) PROVE RevokeCacheStep(r)
  BY <1>26, RevokeCacheEffect DEF TypeInv
<1>27. ASSUME Tick PROVE TickStep
  BY <1>27, TickEffect DEF TypeInv, Tick, TickStep, tiers, caching
<1> QED
  BY <1>1, <1>2, <1>3, <1>4, <1>5, <1>6, <1>7, <1>8, <1>9, <1>10, <1>11, <1>12, <1>13, <1>14,
     <1>15, <1>16, <1>17, <1>18, <1>19, <1>20, <1>21, <1>22, <1>23, <1>24, <1>25, <1>26, <1>27,
     Zenon
  DEF Next, Step

----------------------------------------------------------------------------
(* The sessions that are taken out.                                        *)

\* Only logouts and revocations have targets; a logout its own session, a change
\* of the password never its own.
TargetsWhere ==
    \A r \in Request :
        /\ req[r].targets # {} => req[r].pc \in Deleting \cup RevokingAll
        /\ req[r].targets \subseteq revoking
        /\ req[r].pc \in Deleting => req[r].targets = {req[r].token}
        /\ req[r].pc \in RevokingAll => req[r].targets \cap Kept(r) = {}

\* A session whose revocation has been answered is in no tier.
RevokedGone(t) == t \in revoked => sql[t] = 0 /\ redis[t] = 0 /\ cache[t] = 0

\* Whoever holds such a session has only missed it so far, or is refused.
RevokedRefused(t) ==
    t \in revoked =>
        \A r \in Request : req[r].token = t
        => req[r].pc \in {"cache", "redis", "sql", "refused"}

\* A session that is to be taken out has been, or is somebody's target.
RevokingTaken(t) == t \in revoking => t \in revoked \/ \E r \in Request : t \in req[r].targets

\* While a request takes t out, no other holds it or takes it out.
TakenAlone(t) ==
    \A r \in Request : t \in req[r].targets =>
        \A q \in Request \ {r} : req[q].token # t /\ t \notin req[q].targets

\* No login runs for t while all sessions are revoked.
LoginsBefore(t) ==
    \A r, q \in Request : req[r].pc \in RevokingAll /\ req[q].op = "login" => req[q].token # t

\* A revocation takes t out unless it keeps it.
AllTaken(t) ==
    \A r \in Request :
        req[r].pc \in RevokingAll /\ t \notin Kept(r) /\ promised[t] # 0 => t \in req[r].targets

\* What a revocation has passed, t is gone from: the table at once; Redis unless
\* the revocation will still delete it, from its list or, before it has read it,
\* from the index.
TakenGone(t) ==
    \A r \in Request : t \in req[r].targets =>
        /\ sql[t] = 0
        /\ req[r].pc \in {"delete index", "delete cache", "revoke cache"} => redis[t] = 0
        /\ req[r].pc = "revoke redis" => redis[t] = 0 \/ t \in req[r].todo
        /\ req[r].pc = "revoke list" => redis[t] = 0 \/ t \in usess

\* A login that is about to fill the cache has added t to the index, and as long
\* as nobody takes t out the index keeps it.
LoginIndexed(t) ==
    \A r \in Request : req[r].pc = "put cache" /\ req[r].op = "login" /\ req[r].token = t
    => t \in usess
Indexed(t) == t \notin revoking /\ promised[t] # 0 => t \in usess

\* What holds of the requests for t, and of the tiers for t, outside the windows.
Claimed(t) == RevokedRefused(t) /\ RevokingTaken(t) /\ TakenAlone(t) /\ LoginsBefore(t)
              /\ AllTaken(t)
Gone(t) == RevokedGone(t) /\ TakenGone(t) /\ LoginIndexed(t) /\ Indexed(t)

\* No request begins to revoke; no request gets hold of a revoked t.
NoNewRevoker == \A q \in Request : req'[q].pc \in RevokingAll => req[q].pc \in RevokingAll
StaysOut(t) ==
    t \in revoked =>
        \A q \in Request : req[q].token = t
        => req'[q].pc \in {"cache", "redis", "sql", "refused"}

\* Claimed(t) is kept when no claim changes, nobody begins to revoke and t stays
\* out.
LEMMA ClaimedSame ==
    ASSUME NEW t \in Token, Claimed(t), SameClaims, UNCHANGED <<revoked, revoking>>,
           NoNewRevoker, StaysOut(t),
           promised[t] = 0 => promised'[t] = 0
    PROVE  Claimed(t)'
<1>1. RevokedRefused(t)'
  BY DEF Claimed, SameClaims, RevokedRefused, StaysOut
<1>2. RevokingTaken(t)'
  BY DEF Claimed, SameClaims, RevokingTaken
<1>3. TakenAlone(t)'
  BY DEF Claimed, SameClaims, TakenAlone
<1>4. LoginsBefore(t)'
  BY DEF Claimed, SameClaims, LoginsBefore, NoNewRevoker
<1>5. AllTaken(t)'
  BY DEF Claimed, SameClaims, AllTaken, NoNewRevoker, Kept
<1> QED
  BY <1>1, <1>2, <1>3, <1>4, <1>5 DEF Claimed

\* Claimed(t) is kept when a request is answered; its targets are revoked then.
LEMMA ClaimedLeft ==
    ASSUME NEW t \in Token, NEW r \in Request, Claimed(t), TargetsWhere, OwnersInv, Left(r),
           UNCHANGED revoking,
           revoked' \in {revoked, revoked \cup req[r].targets},
           req[r].pc \in Deleting \cup RevokingAll => revoked' = revoked \cup req[r].targets,
           req[r].op # "login" => promised'[t] = promised[t], req[r].op = "login"
           /\ req[r].token # t => promised'[t] = promised[t]
    PROVE  Claimed(t)'
<1>0. /\ \A q \in Request : q # r => req'[q] = req[q]
      /\ req'[r].pc = "idle" /\ req'[r].op = "use" /\ req'[r].token = Nobody
         /\ req'[r].targets = {}
  BY DEF Left, Began, Others
<1>1. RevokedRefused(t)'
  <2>1. CASE t \in revoked
    BY <1>0, <2>1, SessionsAssumption DEF Claimed, RevokedRefused
  <2>2. CASE t \in req[r].targets
    BY <1>0, <2>2, SessionsAssumption DEF Claimed, TakenAlone, RevokedRefused
  <2> QED
    BY <2>1, <2>2 DEF RevokedRefused
<1>2. RevokingTaken(t)'
  BY <1>0 DEF Claimed, RevokingTaken, TargetsWhere
<1>3. TakenAlone(t)'
  <2>1. ASSUME NEW p \in Request, t \in req'[p].targets, NEW q \in Request \ {p}
        PROVE  req'[q].token # t /\ t \notin req'[q].targets
    BY <1>0, <2>1, SessionsAssumption DEF Claimed, TakenAlone
  <2> QED
    BY <2>1 DEF TakenAlone
<1>4. LoginsBefore(t)'
  BY <1>0 DEF Claimed, LoginsBefore, RevokingAll
<1>5. AllTaken(t)'
  BY <1>0 DEF Claimed, AllTaken, LoginsBefore, RevokingAll, Kept
<1> QED
  BY <1>1, <1>2, <1>3, <1>4, <1>5 DEF Claimed

\* A call of Redis that fails or is skipped exposes every session in use: nothing
\* is to be shown of those, and the others are held by nobody.
LEMMA CleanMissed ==
    ASSUME NEW t \in Token, t \notin exposed', Missed, TypeInv, OwnersInv, Claimed(t), Gone(t),
           UNCHANGED <<promised, revoking>>,
           \/ SameClaims /\ UNCHANGED revoked
           \/ \E r \in Request : Left(r) /\ revoked' \in {revoked, revoked \cup req[r].targets}
    PROVE  Claimed(t)' /\ Gone(t)'
<1>1. promised[t] = 0 /\ \A q \in Request : req[q].token # t
  BY DEF Missed, Used
<1>2. t \notin revoked /\ \A q \in Request : t \notin req[q].targets
  BY <1>1 DEF OwnersInv, RevokedMade, TargetsMade
<1>3. t \notin revoking
  BY <1>2 DEF Claimed, RevokingTaken
<1>4. \A q \in Request : req'[q].token # t /\ t \notin req'[q].targets
  BY <1>1, <1>2, SessionsAssumption DEF SameClaims, Left, Began, Others
<1>5. t \notin revoked' /\ t \notin revoking' /\ promised'[t] = 0
  BY <1>1, <1>2, <1>3
<1>6. Claimed(t)'
  BY <1>4, <1>5 DEF Claimed, RevokedRefused, RevokingTaken, TakenAlone, LoginsBefore, AllTaken
<1>7. Gone(t)'
  BY <1>4, <1>5 DEF Gone, RevokedGone, TakenGone, LoginIndexed, Indexed
<1> QED
  BY <1>6, <1>7

\* TargetsWhere is kept by a request that moves with its claims.
LEMMA WhereSame ==
    ASSUME TargetsWhere, SameClaims, revoking \subseteq revoking', NEW r \in Request,
           \A q \in Request \ {r} : req'[q].pc = req[q].pc,
           req'[r].pc \in Deleting <=> req[r].pc \in Deleting,
           req'[r].pc \in RevokingAll <=> req[r].pc \in RevokingAll
    PROVE  TargetsWhere'
BY DEF TargetsWhere, SameClaims, Kept

\* TargetsWhere is kept when a request is answered.
LEMMA WhereLeft ==
    ASSUME TargetsWhere, UNCHANGED revoking, NEW r \in Request, Left(r)
    PROVE  TargetsWhere'
BY DEF TargetsWhere, Left, Began, Others, Kept, Deleting, RevokingAll

\* TargetsWhere is kept by every step.
LEMMA WhereKept ==
    ASSUME TypeInv, OwnersInv, TargetsWhere, Step
    PROVE  TargetsWhere'
<1>1. ASSUME NEW r \in Request, LookCacheStep(r) PROVE TargetsWhere'
  <2>1. SameClaims /\ UNCHANGED revoking
    BY <1>1, MovedClaims, PassedClaims, TodoClaims DEF LookCacheStep
  <2>2. /\ \A q \in Request \ {r} : req'[q].pc = req[q].pc
        /\ req'[r].pc \in Deleting <=> req[r].pc \in Deleting
        /\ req'[r].pc \in RevokingAll <=> req[r].pc \in RevokingAll
    BY <1>1
    DEF LookCacheStep, Deleting, RevokingAll, Serving, Moved, Others, SameSession, SameWork,
        Passed, At
  <2> QED
    BY <2>1, <2>2, WhereSame
<1>2. ASSUME NEW r \in Request, LookRedisStep(r) PROVE TargetsWhere'
  <2>1. SameClaims /\ UNCHANGED revoking
    BY <1>2, MovedClaims, PassedClaims, TodoClaims DEF LookRedisStep
  <2>2. /\ \A q \in Request \ {r} : req'[q].pc = req[q].pc
        /\ req'[r].pc \in Deleting <=> req[r].pc \in Deleting
        /\ req'[r].pc \in RevokingAll <=> req[r].pc \in RevokingAll
    BY <1>2
    DEF LookRedisStep, Deleting, RevokingAll, Serving, Moved, Others, SameSession, SameWork, At
  <2> QED
    BY <2>1, <2>2, WhereSame
<1>3. ASSUME NEW r \in Request, CacheHitStep(r) PROVE TargetsWhere'
  <2>1. SameClaims /\ UNCHANGED revoking
    BY <1>3, MovedClaims, PassedClaims, TodoClaims DEF CacheHitStep
  <2>2. /\ \A q \in Request \ {r} : req'[q].pc = req[q].pc
        /\ req'[r].pc \in Deleting <=> req[r].pc \in Deleting
        /\ req'[r].pc \in RevokingAll <=> req[r].pc \in RevokingAll
    BY <1>3
    DEF CacheHitStep, Deleting, RevokingAll, Serving, Moved, Others, SameSession, SameWork,
        Passed, At
  <2> QED
    BY <2>1, <2>2, WhereSame
<1>4. ASSUME NEW r \in Request, LookSQLStep(r) PROVE TargetsWhere'
  <2>1. SameClaims /\ UNCHANGED revoking
    BY <1>4, MovedClaims, PassedClaims, TodoClaims DEF LookSQLStep
  <2>2. /\ \A q \in Request \ {r} : req'[q].pc = req[q].pc
        /\ req'[r].pc \in Deleting <=> req[r].pc \in Deleting
        /\ req'[r].pc \in RevokingAll <=> req[r].pc \in RevokingAll
    BY <1>4
    DEF LookSQLStep, Deleting, RevokingAll, Serving, Moved, Others, SameSession, SameWork, At
  <2> QED
    BY <2>1, <2>2, WhereSame
<1>5. ASSUME NEW r \in Request, DropExpiredStep(r) PROVE TargetsWhere'
  <2>1. SameClaims /\ UNCHANGED revoking
    BY <1>5, MovedClaims, PassedClaims, TodoClaims DEF DropExpiredStep
  <2>2. /\ \A q \in Request \ {r} : req'[q].pc = req[q].pc
        /\ req'[r].pc \in Deleting <=> req[r].pc \in Deleting
        /\ req'[r].pc \in RevokingAll <=> req[r].pc \in RevokingAll
    BY <1>5
    DEF DropExpiredStep, Deleting, RevokingAll, Serving, Moved, Others, SameSession, SameWork,
        At
  <2> QED
    BY <2>1, <2>2, WhereSame
<1>6. ASSUME NEW r \in Request, FillCacheStep(r) PROVE TargetsWhere'
  <2>1. SameClaims /\ UNCHANGED revoking
    BY <1>6, MovedClaims, PassedClaims, TodoClaims DEF FillCacheStep
  <2>2. /\ \A q \in Request \ {r} : req'[q].pc = req[q].pc
        /\ req'[r].pc \in Deleting <=> req[r].pc \in Deleting
        /\ req'[r].pc \in RevokingAll <=> req[r].pc \in RevokingAll
    BY <1>6
    DEF FillCacheStep, Deleting, RevokingAll, Serving, Moved, Others, SameSession, SameWork, At
  <2> QED
    BY <2>1, <2>2, WhereSame
<1>7. ASSUME NEW r \in Request, FillRedisStep(r) PROVE TargetsWhere'
  <2>1. SameClaims /\ UNCHANGED revoking
    BY <1>7, MovedClaims, PassedClaims, TodoClaims DEF FillRedisStep
  <2>2. /\ \A q \in Request \ {r} : req'[q].pc = req[q].pc
        /\ req'[r].pc \in Deleting <=> req[r].pc \in Deleting
        /\ req'[r].pc \in RevokingAll <=> req[r].pc \in RevokingAll
    BY <1>7
    DEF FillRedisStep, Deleting, RevokingAll, Serving, Moved, Others, SameSession, SameWork,
        Passed, At
  <2> QED
    BY <2>1, <2>2, WhereSame
<1>8. ASSUME NEW r \in Request, PutSQLStep(r) PROVE TargetsWhere'
  <2>1. SameClaims /\ UNCHANGED revoking
    BY <1>8, MovedClaims, PassedClaims, TodoClaims DEF PutSQLStep
  <2>2. /\ \A q \in Request \ {r} : req'[q].pc = req[q].pc
        /\ req'[r].pc \in Deleting <=> req[r].pc \in Deleting
        /\ req'[r].pc \in RevokingAll <=> req[r].pc \in RevokingAll
    BY <1>8
    DEF PutSQLStep, Deleting, RevokingAll, Putting, Moved, Others, SameSession, SameWork, At
  <2> QED
    BY <2>1, <2>2, WhereSame
<1>9. ASSUME NEW r \in Request, PutRedisStep(r) PROVE TargetsWhere'
  <2>1. SameClaims /\ UNCHANGED revoking
    BY <1>9, MovedClaims, PassedClaims, TodoClaims DEF PutRedisStep
  <2>2. /\ \A q \in Request \ {r} : req'[q].pc = req[q].pc
        /\ req'[r].pc \in Deleting <=> req[r].pc \in Deleting
        /\ req'[r].pc \in RevokingAll <=> req[r].pc \in RevokingAll
    BY <1>9
    DEF PutRedisStep, Deleting, RevokingAll, Putting, Moved, Others, SameSession, SameWork, At
  <2> QED
    BY <2>1, <2>2, WhereSame
<1>10. ASSUME NEW r \in Request, PutIndexStep(r) PROVE TargetsWhere'
  <2>1. SameClaims /\ UNCHANGED revoking
    BY <1>10, MovedClaims, PassedClaims, TodoClaims DEF PutIndexStep
  <2>2. /\ \A q \in Request \ {r} : req'[q].pc = req[q].pc
        /\ req'[r].pc \in Deleting <=> req[r].pc \in Deleting
        /\ req'[r].pc \in RevokingAll <=> req[r].pc \in RevokingAll
    BY <1>10
    DEF PutIndexStep, Deleting, RevokingAll, Putting, Moved, Others, SameSession, SameWork, At
  <2> QED
    BY <2>1, <2>2, WhereSame
<1>11. ASSUME NEW r \in Request, DeleteIndexStep(r) PROVE TargetsWhere'
  <2>1. SameClaims /\ UNCHANGED revoking
    BY <1>11, MovedClaims, PassedClaims, TodoClaims DEF DeleteIndexStep
  <2>2. /\ \A q \in Request \ {r} : req'[q].pc = req[q].pc
        /\ req'[r].pc \in Deleting <=> req[r].pc \in Deleting
        /\ req'[r].pc \in RevokingAll <=> req[r].pc \in RevokingAll
    BY <1>11
    DEF DeleteIndexStep, Deleting, RevokingAll, LoggingOut, Moved, Others, SameSession,
        SameWork, At
  <2> QED
    BY <2>1, <2>2, WhereSame
<1>12. ASSUME NEW r \in Request, RevokeListStep(r) PROVE TargetsWhere'
  <2>1. SameClaims /\ UNCHANGED revoking
    BY <1>12, MovedClaims, PassedClaims, TodoClaims DEF RevokeListStep
  <2>2. /\ \A q \in Request \ {r} : req'[q].pc = req[q].pc
        /\ req'[r].pc \in Deleting <=> req[r].pc \in Deleting
        /\ req'[r].pc \in RevokingAll <=> req[r].pc \in RevokingAll
    BY <1>12
    DEF RevokeListStep, Deleting, RevokingAll, RevokingOthers, Moved, Others, SameSession,
        SameWork, Todo, At
  <2> QED
    BY <2>1, <2>2, WhereSame
<1>13. ASSUME NEW r \in Request, NEW t \in Token, RevokeRedisStep(r, t) PROVE TargetsWhere'
  <2>1. SameClaims /\ UNCHANGED revoking
    BY <1>13, MovedClaims, PassedClaims, TodoClaims DEF RevokeRedisStep
  <2>2. /\ \A q \in Request \ {r} : req'[q].pc = req[q].pc
        /\ req'[r].pc \in Deleting <=> req[r].pc \in Deleting
        /\ req'[r].pc \in RevokingAll <=> req[r].pc \in RevokingAll
    BY <1>13
    DEF RevokeRedisStep, Deleting, RevokingAll, RevokingOthers, Others, SameSession, Todo, At
  <2> QED
    BY <2>1, <2>2, WhereSame
<1>14. ASSUME NEW r \in Request, RevokeIndexStep(r) PROVE TargetsWhere'
  <2>1. SameClaims /\ UNCHANGED revoking
    BY <1>14, MovedClaims, PassedClaims, TodoClaims DEF RevokeIndexStep
  <2>2. /\ \A q \in Request \ {r} : req'[q].pc = req[q].pc
        /\ req'[r].pc \in Deleting <=> req[r].pc \in Deleting
        /\ req'[r].pc \in RevokingAll <=> req[r].pc \in RevokingAll
    BY <1>14
    DEF RevokeIndexStep, Deleting, RevokingAll, RevokingOthers, Moved, Others, SameSession,
        SameWork, At
  <2> QED
    BY <2>1, <2>2, WhereSame
<1>15. ASSUME NEW r \in Request,
             \/ AnswerStep(r) \/ PutPasswordStep(r) \/ DeleteCacheStep(r)
             \/ RevokeCacheStep(r)
      PROVE  TargetsWhere'
  <2>1. CASE Left(r)
    BY <1>15, <2>1, WhereLeft DEF AnswerStep, PutPasswordStep, DeleteCacheStep, RevokeCacheStep
  <2>2. CASE PutPasswordStep(r) /\ Moved(r, "revoke", req[r].exp)
    <3>1. SameClaims /\ UNCHANGED revoking
      BY <2>2, MovedClaims DEF PutPasswordStep
    <3>2. /\ \A q \in Request \ {r} : req'[q].pc = req[q].pc
          /\ req'[r].pc \in Deleting <=> req[r].pc \in Deleting
          /\ req'[r].pc \in RevokingAll <=> req[r].pc \in RevokingAll
      BY <2>2 DEF PutPasswordStep, Moved, Others, Deleting, RevokingAll, At
    <3> QED
      BY <3>1, <3>2, WhereSame
  <2> QED
    BY <1>15, <2>1, <2>2 DEF AnswerStep, PutPasswordStep, DeleteCacheStep, RevokeCacheStep
<1>16. ASSUME NEW r \in Request, NEW t \in Token, BeginLoginStep(r, t) PROVE TargetsWhere'
  BY <1>16 DEF BeginLoginStep, TargetsWhere, Began, Others, Kept, Deleting, RevokingAll
<1>17. ASSUME NEW r \in Request, NEW t \in Token, NEW o \in {"use", "logout", "password"},
              BeginWithStep(r, o, t)
      PROVE  TargetsWhere'
  BY <1>17, ZenonT(60) DEF BeginWithStep, TargetsWhere, Began, Others, Kept, Deleting, RevokingAll
<1>18. ASSUME NEW r \in Request, BeginAdminStep(r) PROVE TargetsWhere'
  BY <1>18 DEF BeginAdminStep, TargetsWhere, Began, Others, Kept, Deleting, RevokingAll
<1>19. ASSUME NEW r \in Request, CheckPasswordStep(r) PROVE TargetsWhere'
  <2>1. CASE Left(r)
    BY <1>19, <2>1, WhereLeft DEF CheckPasswordStep
  <2>2. CASE Moved(r, "put", now + TTL)
    <3>1. SameClaims /\ UNCHANGED revoking
      BY <1>19, <2>2, MovedClaims DEF CheckPasswordStep
    <3>2. /\ \A q \in Request \ {r} : req'[q].pc = req[q].pc
          /\ req'[r].pc \in Deleting <=> req[r].pc \in Deleting
          /\ req'[r].pc \in RevokingAll <=> req[r].pc \in RevokingAll
      BY <1>19, <2>2 DEF CheckPasswordStep, Deleting, RevokingAll, Moved, Others, At
    <3> QED
      BY <3>1, <3>2, WhereSame
  <2> QED
    BY <1>19, <2>1, <2>2 DEF CheckPasswordStep
<1>20. ASSUME NEW r \in Request, PutCacheStep(r) PROVE TargetsWhere'
  <2>1. CASE Left(r)
    BY <1>20, <2>1, WhereLeft DEF PutCacheStep
  <2>2. CASE Moved(r, "authenticated", req[r].exp)
    <3>1. SameClaims /\ UNCHANGED revoking
      BY <1>20, <2>2, MovedClaims DEF PutCacheStep
    <3>2. /\ \A q \in Request \ {r} : req'[q].pc = req[q].pc
          /\ req'[r].pc \in Deleting <=> req[r].pc \in Deleting
          /\ req'[r].pc \in RevokingAll <=> req[r].pc \in RevokingAll
      BY <1>20, <2>2 DEF PutCacheStep, Putting, Deleting, RevokingAll, Moved, Others, At
    <3> QED
      BY <3>1, <3>2, WhereSame
  <2> QED
    BY <1>20, <2>1, <2>2 DEF PutCacheStep
<1>21. ASSUME NEW r \in Request, DeleteRedisStep(r) PROVE TargetsWhere'
  <2>1. CASE Left(r)
    BY <1>21, <2>1, WhereLeft DEF DeleteRedisStep
  <2>2. ASSUME NEW l \in Deleting, Moved(r, l, req[r].exp) PROVE TargetsWhere'
    <3>1. SameClaims /\ UNCHANGED revoking
      BY <1>21, <2>2, MovedClaims DEF DeleteRedisStep
    <3>2. /\ \A q \in Request \ {r} : req'[q].pc = req[q].pc
          /\ req'[r].pc \in Deleting <=> req[r].pc \in Deleting
          /\ req'[r].pc \in RevokingAll <=> req[r].pc \in RevokingAll
      BY <1>21, <2>2 DEF DeleteRedisStep, LoggingOut, Deleting, RevokingAll, Moved, Others, At
    <3> QED
      BY <3>1, <3>2, WhereSame
  <2> QED
    BY <1>21, <2>1, <2>2 DEF DeleteRedisStep, Deleting
<1>22. ASSUME NEW r \in Request, DeleteSQLStep(r) PROVE TargetsWhere'
  <2>1. promised[req[r].token] # 0 /\ req[r].token \in Used
    BY <1>22, SessionsAssumption DEF OwnersInv, HeldMade, Used, DeleteSQLStep, LoggingOut
  <2>2. /\ Others(r) /\ req'[r].token = req[r].token /\ req'[r].op = "logout"
        /\ req'[r].pc = "delete redis" /\ req'[r].targets = {req[r].token}
        /\ revoking' = revoking \cup {req[r].token}
    BY <1>22, <2>1 DEF DeleteSQLStep, LoggingOut, Taken, SameSession
  <2> QED
    BY <2>2 DEF TargetsWhere, Others, Kept, Deleting, RevokingAll
<1>23. ASSUME NEW r \in Request, RevokeSQLStep(r) PROVE TargetsWhere'
  <2>1. /\ Others(r) /\ req'[r].token = req[r].token /\ req'[r].op = req[r].op
        /\ req'[r].pc = "revoke list"
           /\ req'[r].targets = {t \in Token \ Kept(r) : promised[t] # 0}
        /\ revoking' = revoking \cup ((Token \ Kept(r)) \cap Used)
    BY <1>23 DEF RevokeSQLStep, Taken, SameSession
  <2>2. req'[r].targets \subseteq revoking' /\ revoking \subseteq revoking'
        /\ req'[r].targets \cap Kept(r)' = {}
    BY <2>1 DEF Kept, Used
  <2> QED
    BY <2>1, <2>2 DEF TargetsWhere, Others, Kept, Deleting, RevokingAll
<1>24. ASSUME TickStep PROVE TargetsWhere'
  BY <1>24 DEF TickStep, Ticked, TargetsWhere, Kept
<1> QED
  BY <1>1, <1>2, <1>3, <1>4, <1>5, <1>6, <1>7, <1>8, <1>9, <1>10, <1>11, <1>12, <1>13, <1>14,
     <1>15, <1>16, <1>17, <1>18, <1>19, <1>20, <1>21, <1>22, <1>23, <1>24, Zenon
  DEF Step

\* What the steps below need of the types and of TargetsWhere, for one session.
Context(t) ==
    /\ sql \in [Token -> Nat] /\ redis \in [Token -> Nat] /\ cache \in [Token -> Nat]
    /\ promised \in [Token -> Nat] /\ now \in Nat
    /\ t # Nobody

TakenWhere(t) ==
    \A r \in Request :
        /\ t \in req[r].targets => req[r].pc \in Deleting \cup RevokingAll /\ t \in revoking
        /\ req[r].pc \in Deleting => req[r].targets = {req[r].token}
        /\ t \in req[r].targets /\ req[r].pc \in RevokingAll => t \notin Kept(r)

\* The invariants give the context of every session.
LEMMA Contexts ==
    ASSUME TypeInv, TargetsWhere, NEW t \in Token
    PROVE  Context(t) /\ TakenWhere(t)
<1>1. Context(t)
  BY SessionsAssumption, ExpiryFacts, ClockFacts DEF TypeInv, TiersTypeOK, Context
<1>2. TakenWhere(t)
  BY DEF TargetsWhere, TakenWhere
<1> QED
  BY <1>1, <1>2

\* A session that is exposed stays so.
LEMMA ExposedGrows ==
    ASSUME Step
    PROVE  exposed \subseteq exposed'
<1>1. ASSUME NEW r \in Request,
             \/ BeginAdminStep(r) \/ LookCacheStep(r) \/ LookRedisStep(r) \/ CacheHitStep(r)
             \/ LookSQLStep(r) \/ DropExpiredStep(r) \/ FillCacheStep(r) \/ FillRedisStep(r)
      PROVE  exposed \subseteq exposed'
  BY <1>1
  DEF BeginAdminStep, LookCacheStep, LookRedisStep, CacheHitStep, LookSQLStep, DropExpiredStep,
      FillCacheStep, FillRedisStep, Missed
<1>2. ASSUME NEW r \in Request,
             \/ AnswerStep(r) \/ CheckPasswordStep(r) \/ PutSQLStep(r) \/ PutRedisStep(r)
             \/ PutIndexStep(r) \/ PutCacheStep(r) \/ DeleteSQLStep(r) \/ DeleteRedisStep(r)
      PROVE  exposed \subseteq exposed'
  BY <1>2
  DEF AnswerStep, CheckPasswordStep, PutSQLStep, PutRedisStep, PutIndexStep, PutCacheStep,
      DeleteSQLStep, DeleteRedisStep, Missed, Taken
<1>3. ASSUME NEW r \in Request,
             \/ DeleteIndexStep(r) \/ DeleteCacheStep(r) \/ PutPasswordStep(r)
             \/ RevokeSQLStep(r) \/ RevokeListStep(r) \/ RevokeIndexStep(r)
             \/ RevokeCacheStep(r)
      PROVE  exposed \subseteq exposed'
  BY <1>3
  DEF DeleteIndexStep, DeleteCacheStep, PutPasswordStep, RevokeSQLStep, RevokeListStep,
      RevokeIndexStep, RevokeCacheStep, Missed, Taken
<1>4. ASSUME NEW r \in Request, NEW u \in Token, BeginLoginStep(r, u)
      PROVE  exposed \subseteq exposed'
  BY <1>4 DEF BeginLoginStep
<1>5. ASSUME NEW r \in Request, NEW u \in Token, NEW o \in {"use", "logout", "password"},
             BeginWithStep(r, o, u)
      PROVE  exposed \subseteq exposed'
  BY <1>5 DEF BeginWithStep
<1>6. ASSUME NEW r \in Request, NEW u \in Token, RevokeRedisStep(r, u)
      PROVE  exposed \subseteq exposed'
  BY <1>6 DEF RevokeRedisStep, Missed
<1>7. ASSUME TickStep PROVE exposed \subseteq exposed'
  BY <1>7 DEF TickStep
<1> QED
  BY <1>1, <1>2, <1>3, <1>4, <1>5, <1>6, <1>7, Zenon DEF Step

\* A request that begins with another session leaves t alone; one that begins
\* with t finds it neither taken out nor, if it is the login of t, anybody
\* revoking, or else t is exposed.
LEMMA CleanBegan ==
    ASSUME NEW t \in Token, NEW r \in Request, NEW l \in {"login", "cache", "revoke"},
           NEW o, NEW u \in Token \cup {Nobody}, NEW b, NEW d,
           TypeInv, Claimed(t), Gone(t),
           req[r].pc = "idle", Began(r, l, o, u, b, d),
           UNCHANGED <<sql, redis, cache, usess, promised, revoking, revoked>>,
           u = t => \A q \in Request : t \notin req[q].targets,
           u = t => l = "cache" \/ t \notin revoked,
           u = t /\ o = "login" => \A q \in Request : req[q].pc \notin RevokingAll
    PROVE  (Claimed(t) /\ Gone(t))'
<1>1. /\ RevokedRefused(t) /\ RevokingTaken(t) /\ TakenAlone(t) /\ LoginsBefore(t)
         /\ AllTaken(t)
      /\ RevokedGone(t) /\ TakenGone(t) /\ LoginIndexed(t) /\ Indexed(t) /\ t # Nobody
  BY SessionsAssumption DEF Claimed, Gone
<1>2. req[r].targets = {}
  BY DEF TypeInv, ReqInv, Sound, Idle
<1>3. /\ \A q \in Request : q # r => req'[q] = req[q]
      /\ req'[r].pc = l /\ req'[r].op = o /\ req'[r].token = u /\ req'[r].targets = {}
  BY DEF Began, Others
<1>4. RevokedRefused(t)'
  BY <1>1, <1>3 DEF RevokedRefused
<1>5. RevokingTaken(t)'
  BY <1>1, <1>2, <1>3 DEF RevokingTaken
<1>6. TakenAlone(t)'
  BY <1>1, <1>2, <1>3 DEF TakenAlone
<1>7. LoginsBefore(t)'
  BY <1>1, <1>3 DEF LoginsBefore, RevokingAll
<1>8. AllTaken(t)'
  BY <1>1, <1>3 DEF AllTaken, RevokingAll, Kept
<1>9. RevokedGone(t)'
  BY <1>1 DEF RevokedGone
<1>10. TakenGone(t)'
  BY <1>1, <1>3 DEF TakenGone
<1>11. LoginIndexed(t)' /\ Indexed(t)'
  BY <1>1, <1>3 DEF LoginIndexed, Indexed
<1> QED
  BY <1>4, <1>5, <1>6, <1>7, <1>8, <1>9, <1>10, <1>11 DEF Claimed, Gone

\* When t is taken out nobody else holds it, or else it is exposed; Redis has it
\* not, or the index lists it.
LEMMA CleanTaken ==
    ASSUME NEW t \in Token, NEW r \in Request, NEW S \in SUBSET Token, t \notin exposed',
           TypeInv, OwnersInv, TargetsWhere, Claimed(t), Gone(t), Taken(r, S),
           req[r].pc \in {"authenticated", "revoke"}, req[r].op # "login",
           \/ req'[r].pc = "delete redis" /\ S = {req[r].token}
           \/ req'[r].pc = "revoke list" /\ S = Token \ Kept(r),
           UNCHANGED <<redis, cache, usess, promised, revoked>>
    PROVE  (Claimed(t) /\ Gone(t))'
<1>1. /\ RevokedRefused(t) /\ RevokingTaken(t) /\ TakenAlone(t) /\ LoginsBefore(t)
         /\ AllTaken(t)
      /\ RevokedGone(t) /\ TakenGone(t) /\ LoginIndexed(t) /\ Indexed(t)
  BY DEF Claimed, Gone
<1>2. req[r].targets = {}
  BY DEF TargetsWhere, Deleting, RevokingAll
<1>3. /\ \A q \in Request : q # r => req'[q] = req[q]
      /\ req'[r].op = req[r].op /\ req'[r].token = req[r].token
      /\ req'[r].targets = {x \in S : promised[x] # 0}
      /\ revoking' = revoking \cup (S \cap Used)
  BY DEF Taken, Others, SameSession
<1>4. t \in S => \A q \in Request \ {r} : req[q].token # t /\ t \notin req[q].targets
  BY DEF Taken, HeldByOthers
<1>4a. sql'[t] = IF t \in S /\ promised[t] # 0 THEN 0 ELSE IF t \in S THEN sql'[t] ELSE sql[t]
  BY DEF Taken
<1>4b. sql'[t] \in {0, sql[t]}
  BY DEF Taken, TypeInv, TiersTypeOK
<1>5. t \in revoked => req[r].token # t
  BY <1>1 DEF RevokedRefused
<1>6. RevokedRefused(t)'
  BY <1>1, <1>3, <1>5 DEF RevokedRefused
<1>7. RevokingTaken(t)'
  <2>1. CASE t \in revoking
    BY <1>1, <1>2, <1>3, <2>1 DEF RevokingTaken
  <2>2. CASE t \in S /\ t \in Used
    <3>1. promised[t] # 0 \/ req[r].token = t
      BY <1>4, <2>2 DEF Used
    <3>2. promised[t] # 0
      BY <3>1, SessionsAssumption DEF OwnersInv, HeldMade
    <3> QED
      BY <1>3, <2>2, <3>2 DEF RevokingTaken
  <2> QED
    BY <1>3, <2>1, <2>2 DEF RevokingTaken
<1>8. TakenAlone(t)'
  <2>1. ASSUME NEW p \in Request, t \in req'[p].targets, NEW q \in Request \ {p}
        PROVE  req'[q].token # t /\ t \notin req'[q].targets
    <3>1. CASE p = r
      BY <1>3, <1>4, <2>1, <3>1
    <3>2. CASE p # r
      <4>1. t \in req[p].targets /\ t \notin S
        BY <1>3, <1>4, <2>1, <3>2
      <4>2. \A x \in Request \ {p} : req[x].token # t /\ t \notin req[x].targets
        BY <1>1, <4>1 DEF TakenAlone
      <4> QED
        BY <1>3, <2>1, <4>1, <4>2
    <3> QED
      BY <3>1, <3>2
  <2> QED
    BY <2>1 DEF TakenAlone
<1>9. LoginsBefore(t)'
  <2>1. ASSUME NEW q \in Request, req[q].op = "login", req[q].token = t
        PROVE  (t \in S /\ q # r) \/ req'[r].pc = "delete redis"
    BY <2>1 DEF OwnersInv, LoginAlone, Kept
  <2> QED
    BY <1>1, <1>3, <1>4, <2>1 DEF LoginsBefore, RevokingAll
<1>10. AllTaken(t)'
  BY <1>1, <1>3 DEF AllTaken, RevokingAll, Kept
<1>11. RevokedGone(t)'
  BY <1>1, <1>4b DEF RevokedGone
<1>12. t \in S /\ promised[t] # 0 => redis[t] = 0 \/ t \in usess
  BY <1>1, <1>2, <1>4 DEF RevokingTaken, RevokedGone, Indexed
<1>13. TakenGone(t)'
  BY <1>1, <1>3, <1>4, <1>4a, <1>12 DEF TakenGone
<1>14. LoginIndexed(t)' /\ Indexed(t)'
  BY <1>1, <1>3 DEF LoginIndexed, Indexed
<1> QED
  BY <1>6, <1>7, <1>8, <1>9, <1>10, <1>11, <1>13, <1>14 DEF Claimed, Gone

\* Every step keeps what holds of t outside the windows.
LEMMA CleanKept ==
    ASSUME TypeInv, OwnersInv, TargetsWhere,
           NEW t \in Token, t \notin exposed', Claimed(t), Gone(t), Step
    PROVE  (Claimed(t) /\ Gone(t))'
<1>a. /\ Context(t) /\ TakenWhere(t)
      /\ RevokedRefused(t) /\ RevokingTaken(t) /\ TakenAlone(t) /\ LoginsBefore(t)
         /\ AllTaken(t)
      /\ RevokedGone(t) /\ TakenGone(t) /\ LoginIndexed(t) /\ Indexed(t)
  BY Contexts DEF Claimed, Gone
<1>1. ASSUME NEW r \in Request, LookCacheStep(r) PROVE (Claimed(t) /\ Gone(t))'
  <2>0. SameClaims /\ UNCHANGED <<promised, revoked, revoking>>
    BY <1>1, MovedClaims, PassedClaims DEF LookCacheStep
  <2>1. NoNewRevoker
    BY <1>1
    DEF LookCacheStep, NoNewRevoker, RevokingAll, Serving, Moved, Others, SameSession,
        SameWork, Passed, At
  <2>2. StaysOut(t)
    BY <1>1, <1>a
    DEF LookCacheStep, Context, StaysOut, RevokedGone, RevokedRefused, Serving, Moved, Others,
        SameSession, SameWork, Passed, At
  <2>3. Claimed(t)'
    BY <2>0, <2>1, <2>2, ClaimedSame
  <2>4. RevokedGone(t)'
    BY <1>1, <1>a
    DEF LookCacheStep, Context, RevokedGone, TakenGone, RevokedRefused, Serving, Moved, Others,
        SameSession, SameWork, Passed, At
  <2>5. TakenGone(t)'
    BY <1>1, <1>a, ZenonT(60)
    DEF LookCacheStep, Context, TakenWhere, TakenGone, TakenAlone, Deleting, RevokingAll, Kept,
        Serving, Moved, Others, SameSession, SameWork, Passed, At
  <2>6. LoginIndexed(t)'
    BY <1>1, <1>a, ZenonT(60)
    DEF LookCacheStep, Context, LoginIndexed, LoginsBefore, RevokingAll, Serving, Moved,
        Others, SameSession, SameWork, Passed, At
  <2>7. Indexed(t)'
    BY <1>1, <1>a
    DEF LookCacheStep, Context, Indexed, LoginIndexed, AllTaken, TakenWhere, Deleting,
        RevokingAll, Kept, Serving, Moved, Others, SameSession, SameWork, Passed, At
  <2> QED
    BY <2>3, <2>4, <2>5, <2>6, <2>7 DEF Gone
<1>2. ASSUME NEW r \in Request, CacheHitStep(r) PROVE (Claimed(t) /\ Gone(t))'
  <2>0. SameClaims /\ UNCHANGED <<promised, revoked, revoking>>
    BY <1>2, MovedClaims, PassedClaims DEF CacheHitStep
  <2>1. NoNewRevoker
    BY <1>2
    DEF CacheHitStep, NoNewRevoker, RevokingAll, Serving, Moved, Others, SameSession, SameWork,
        Passed, At
  <2>2. StaysOut(t)
    BY <1>2, <1>a
    DEF CacheHitStep, Context, StaysOut, RevokedGone, RevokedRefused, Serving, Moved, Others,
        SameSession, SameWork, Passed, At
  <2>3. Claimed(t)'
    BY <2>0, <2>1, <2>2, ClaimedSame
  <2>4. RevokedGone(t)'
    BY <1>2, <1>a
    DEF CacheHitStep, Context, RevokedGone, TakenGone, RevokedRefused, Serving, Moved, Others,
        SameSession, SameWork, Passed, At
  <2>5. TakenGone(t)'
    BY <1>2, <1>a, ZenonT(60)
    DEF CacheHitStep, Context, TakenWhere, TakenGone, TakenAlone, Deleting, RevokingAll, Kept,
        Serving, Moved, Others, SameSession, SameWork, Passed, At
  <2>6. LoginIndexed(t)'
    BY <1>2, <1>a
    DEF CacheHitStep, Context, LoginIndexed, LoginsBefore, RevokingAll, Serving, Moved, Others,
        SameSession, SameWork, Passed, At
  <2>7. Indexed(t)'
    BY <1>2, <1>a
    DEF CacheHitStep, Context, Indexed, LoginIndexed, AllTaken, TakenWhere, Deleting,
        RevokingAll, Kept, Serving, Moved, Others, SameSession, SameWork, Passed, At
  <2> QED
    BY <2>3, <2>4, <2>5, <2>6, <2>7 DEF Gone
<1>3. ASSUME NEW r \in Request, LookSQLStep(r) PROVE (Claimed(t) /\ Gone(t))'
  <2>0. SameClaims /\ UNCHANGED <<promised, revoked, revoking>>
    BY <1>3, MovedClaims, PassedClaims DEF LookSQLStep
  <2>1. NoNewRevoker
    BY <1>3
    DEF LookSQLStep, NoNewRevoker, RevokingAll, Serving, Moved, Others, SameSession, SameWork,
        At
  <2>2. StaysOut(t)
    <3>1. CASE t \in revoked /\ req[r].token = t
      <4>1. sql[t] = 0 /\ sql[t] <= now
        BY <1>a, <3>1 DEF Context, RevokedGone
      <4>2. Moved(r, "refused", req[r].exp)
        BY <1>3, <3>1, <4>1 DEF LookSQLStep
      <4> QED
        BY <1>a, <4>2 DEF StaysOut, RevokedRefused, Moved, Others
    <3>2. CASE t \notin revoked
      BY <3>2 DEF StaysOut
    <3>3. CASE t \in revoked /\ req[r].token # t
      <4>1. Others(r)
        BY <1>3 DEF LookSQLStep, Moved
      <4> QED
        BY <1>a, <3>3, <4>1 DEF StaysOut, RevokedRefused, Others
    <3> QED
      BY <3>1, <3>2, <3>3
  <2>3. Claimed(t)'
    BY <2>0, <2>1, <2>2, ClaimedSame
  <2>4. RevokedGone(t)'
    BY <1>3, <1>a
    DEF LookSQLStep, Context, RevokedGone, TakenGone, RevokedRefused, Serving, Moved, Others,
        SameSession, SameWork, At
  <2>5. TakenGone(t)'
    BY <1>3, <1>a, ZenonT(60)
    DEF LookSQLStep, Context, TakenWhere, TakenGone, TakenAlone, Deleting, RevokingAll, Kept,
        Serving, Moved, Others, SameSession, SameWork, At
  <2>6. LoginIndexed(t)'
    BY <1>3, <1>a
    DEF LookSQLStep, Context, LoginIndexed, LoginsBefore, RevokingAll, Serving, Moved, Others,
        SameSession, SameWork, At
  <2>7. Indexed(t)'
    BY <1>3, <1>a
    DEF LookSQLStep, Context, Indexed, LoginIndexed, AllTaken, TakenWhere, Deleting,
        RevokingAll, Kept, Serving, Moved, Others, SameSession, SameWork, At
  <2> QED
    BY <2>3, <2>4, <2>5, <2>6, <2>7 DEF Gone
<1>4. ASSUME NEW r \in Request, DropExpiredStep(r) PROVE (Claimed(t) /\ Gone(t))'
  <2>0. SameClaims /\ UNCHANGED <<promised, revoked, revoking>>
    BY <1>4, MovedClaims, PassedClaims DEF DropExpiredStep
  <2>1. NoNewRevoker
    BY <1>4
    DEF DropExpiredStep, NoNewRevoker, RevokingAll, Serving, Moved, Others, SameSession,
        SameWork, At
  <2>2. StaysOut(t)
    BY <1>4, <1>a
    DEF DropExpiredStep, Context, StaysOut, RevokedGone, RevokedRefused, Serving, Moved,
        Others, SameSession, SameWork, At
  <2>3. Claimed(t)'
    BY <2>0, <2>1, <2>2, ClaimedSame
  <2>4. RevokedGone(t)'
    BY <1>4, <1>a
    DEF DropExpiredStep, Context, RevokedGone, TakenGone, RevokedRefused, Serving, Moved,
        Others, SameSession, SameWork, At
  <2>5. TakenGone(t)'
    BY <1>4, <1>a, ZenonT(60)
    DEF DropExpiredStep, Context, TakenWhere, TakenGone, TakenAlone, Deleting, RevokingAll,
        Kept, Serving, Moved, Others, SameSession, SameWork, At
  <2>6. LoginIndexed(t)'
    BY <1>4, <1>a, ZenonT(60)
    DEF DropExpiredStep, Context, LoginIndexed, LoginsBefore, RevokingAll, Serving, Moved,
        Others, SameSession, SameWork, At
  <2>7. Indexed(t)'
    BY <1>4, <1>a
    DEF DropExpiredStep, Context, Indexed, LoginIndexed, AllTaken, TakenWhere, Deleting,
        RevokingAll, Kept, Serving, Moved, Others, SameSession, SameWork, At
  <2> QED
    BY <2>3, <2>4, <2>5, <2>6, <2>7 DEF Gone
<1>5. ASSUME NEW r \in Request, FillCacheStep(r) PROVE (Claimed(t) /\ Gone(t))'
  <2>0. SameClaims /\ UNCHANGED <<promised, revoked, revoking>>
    BY <1>5, MovedClaims, PassedClaims DEF FillCacheStep
  <2>1. NoNewRevoker
    BY <1>5
    DEF FillCacheStep, NoNewRevoker, RevokingAll, Serving, Moved, Others, SameSession,
        SameWork, At
  <2>2. StaysOut(t)
    BY <1>5, <1>a
    DEF FillCacheStep, Context, StaysOut, RevokedGone, RevokedRefused, Serving, Moved, Others,
        SameSession, SameWork, At
  <2>3. Claimed(t)'
    BY <2>0, <2>1, <2>2, ClaimedSame
  <2>4. RevokedGone(t)'
    BY <1>5, <1>a
    DEF FillCacheStep, Context, RevokedGone, TakenGone, RevokedRefused, Serving, Moved, Others,
        SameSession, SameWork, At
  <2>5. TakenGone(t)'
    BY <1>5, <1>a, ZenonT(60)
    DEF FillCacheStep, Context, TakenWhere, TakenGone, TakenAlone, Deleting, RevokingAll, Kept,
        Serving, Moved, Others, SameSession, SameWork, At
  <2>6. LoginIndexed(t)'
    BY <1>5, <1>a, ZenonT(60)
    DEF FillCacheStep, Context, LoginIndexed, LoginsBefore, RevokingAll, Serving, Moved,
        Others, SameSession, SameWork, At
  <2>7. Indexed(t)'
    BY <1>5, <1>a
    DEF FillCacheStep, Context, Indexed, LoginIndexed, AllTaken, TakenWhere, Deleting,
        RevokingAll, Kept, Serving, Moved, Others, SameSession, SameWork, At
  <2> QED
    BY <2>3, <2>4, <2>5, <2>6, <2>7 DEF Gone
<1>6. ASSUME NEW r \in Request, PutSQLStep(r) PROVE (Claimed(t) /\ Gone(t))'
  <2>0. SameClaims /\ UNCHANGED <<promised, revoked, revoking>>
    BY <1>6, MovedClaims, PassedClaims DEF PutSQLStep
  <2>1. NoNewRevoker
    BY <1>6
    DEF PutSQLStep, NoNewRevoker, RevokingAll, Putting, Moved, Others, SameSession, SameWork,
        At
  <2>2. StaysOut(t)
    BY <1>6, <1>a
    DEF PutSQLStep, Context, StaysOut, RevokedGone, RevokedRefused, Putting, Moved, Others,
        SameSession, SameWork, At
  <2>3. Claimed(t)'
    BY <2>0, <2>1, <2>2, ClaimedSame
  <2>4. RevokedGone(t)'
    BY <1>6, <1>a
    DEF PutSQLStep, Context, RevokedGone, TakenGone, RevokedRefused, Putting, Moved, Others,
        SameSession, SameWork, At
  <2>5. TakenGone(t)'
    BY <1>6, <1>a, ZenonT(60)
    DEF PutSQLStep, Context, TakenWhere, TakenGone, TakenAlone, Deleting, RevokingAll, Kept,
        Putting, Moved, Others, SameSession, SameWork, At
  <2>6. LoginIndexed(t)'
    BY <1>6, <1>a
    DEF PutSQLStep, Context, LoginIndexed, LoginsBefore, RevokingAll, Putting, Moved, Others,
        SameSession, SameWork, At
  <2>7. Indexed(t)'
    BY <1>6, <1>a
    DEF PutSQLStep, Context, Indexed, LoginIndexed, AllTaken, TakenWhere, Deleting,
        RevokingAll, Kept, Putting, Moved, Others, SameSession, SameWork, At
  <2> QED
    BY <2>3, <2>4, <2>5, <2>6, <2>7 DEF Gone
<1>7. ASSUME NEW r \in Request, DeleteIndexStep(r) PROVE (Claimed(t) /\ Gone(t))'
  <2>0. SameClaims /\ UNCHANGED <<promised, revoked, revoking>>
    BY <1>7, MovedClaims, PassedClaims DEF DeleteIndexStep
  <2>1. NoNewRevoker
    BY <1>7
    DEF DeleteIndexStep, NoNewRevoker, RevokingAll, LoggingOut, Moved, Others, SameSession,
        SameWork, At
  <2>2. StaysOut(t)
    BY <1>7, <1>a
    DEF DeleteIndexStep, Context, StaysOut, RevokedGone, RevokedRefused, LoggingOut, Moved,
        Others, SameSession, SameWork, At
  <2>3. Claimed(t)'
    BY <2>0, <2>1, <2>2, ClaimedSame
  <2>4. RevokedGone(t)'
    BY <1>7, <1>a
    DEF DeleteIndexStep, Context, RevokedGone, TakenGone, RevokedRefused, LoggingOut, Moved,
        Others, SameSession, SameWork, At
  <2>5. TakenGone(t)'
    BY <1>7, <1>a, ZenonT(60)
    DEF DeleteIndexStep, Context, TakenWhere, TakenGone, TakenAlone, Deleting, RevokingAll,
        Kept, LoggingOut, Moved, Others, SameSession, SameWork, At
  <2>6. LoginIndexed(t)'
    <3>1. ASSUME NEW q \in Request, req[q].op = "login", req[q].token = t PROVE req[r].token # t
      BY <1>7, <3>1, <1>a
      DEF OwnersInv, HeldMade, LoginAlone, DeleteIndexStep, LoggingOut, Context
    <3>2. /\ Others(r) /\ req'[r].pc = "delete cache"
          /\ usess' \in {usess, usess \ {req[r].token}}
      BY <1>7 DEF DeleteIndexStep, Moved
    <3> QED
      BY <1>a, <3>1, <3>2 DEF LoginIndexed, Others
  <2>7. Indexed(t)'
    BY <1>7, <1>a
    DEF DeleteIndexStep, Context, Indexed, LoginIndexed, AllTaken, TakenWhere, Deleting,
        RevokingAll, Kept, LoggingOut, Moved, Others, SameSession, SameWork, At
  <2> QED
    BY <2>3, <2>4, <2>5, <2>6, <2>7 DEF Gone
<1>8. ASSUME NEW r \in Request, LookRedisStep(r) PROVE (Claimed(t) /\ Gone(t))'
  <2>0. SameClaims /\ UNCHANGED <<promised, revoked, revoking>>
    BY <1>8, MovedClaims, PassedClaims, TodoClaims DEF LookRedisStep
  <2>1. CASE Missed
    BY <2>0, <2>1, CleanMissed
  <2>2. CASE ~Missed
    <3>1. NoNewRevoker
      BY <1>8, <2>2
      DEF LookRedisStep, NoNewRevoker, RevokingAll, Serving, Moved, Others, SameSession,
          SameWork, At
    <3>2. StaysOut(t)
      <4>1. CASE t \in revoked /\ req[r].token = t
        <5>1. ~(redis[t] > now)
          BY <1>a, <4>1 DEF Context, RevokedGone
        <5>2. Moved(r, "sql", req[r].exp)
          BY <1>8, <4>1, <5>1 DEF LookRedisStep
        <5> QED
          BY <1>a, <5>2 DEF StaysOut, RevokedRefused, Moved, Others
      <4>2. CASE t \notin revoked
        BY <4>2 DEF StaysOut
      <4>3. CASE t \in revoked /\ req[r].token # t
        <5>1. Others(r)
          BY <1>8 DEF LookRedisStep, Moved
        <5> QED
          BY <1>a, <4>3, <5>1 DEF StaysOut, RevokedRefused, Others
      <4> QED
        BY <4>1, <4>2, <4>3
    <3>3. Claimed(t)'
      BY <2>0, <3>1, <3>2, ClaimedSame
    <3>4. RevokedGone(t)'
      BY <1>8, <2>2, <1>a
      DEF LookRedisStep, Context, RevokedGone, TakenGone, RevokedRefused, Serving, Moved,
          Others, SameSession, SameWork, At
    <3>5. TakenGone(t)'
      BY <1>8, <2>2, <1>a, ZenonT(60)
      DEF LookRedisStep, Context, TakenWhere, TakenGone, TakenAlone, Deleting, RevokingAll,
          Kept, Serving, Moved, Others, SameSession, SameWork, At
    <3>6. LoginIndexed(t)'
      BY <1>8, <2>2, <1>a
      DEF LookRedisStep, Context, LoginIndexed, LoginsBefore, RevokingAll, Serving, Moved,
          Others, SameSession, SameWork, At
    <3>7. Indexed(t)'
      BY <1>8, <2>2, <1>a
      DEF LookRedisStep, Context, Indexed, LoginIndexed, AllTaken, TakenWhere, Deleting,
          RevokingAll, Kept, Serving, Moved, Others, SameSession, SameWork, At
    <3> QED
      BY <3>3, <3>4, <3>5, <3>6, <3>7 DEF Gone
  <2> QED
    BY <2>1, <2>2
<1>9. ASSUME NEW r \in Request, FillRedisStep(r) PROVE (Claimed(t) /\ Gone(t))'
  <2>0. SameClaims /\ UNCHANGED <<promised, revoked, revoking>>
    BY <1>9, MovedClaims, PassedClaims, TodoClaims DEF FillRedisStep
  <2>1. CASE Missed
    BY <2>0, <2>1, CleanMissed
  <2>2. CASE ~Missed
    <3>1. NoNewRevoker
      BY <1>9, <2>2
      DEF FillRedisStep, NoNewRevoker, RevokingAll, Serving, Moved, Others, SameSession,
          SameWork, Passed, At
    <3>2. StaysOut(t)
      BY <1>9, <2>2, <1>a
      DEF FillRedisStep, Context, StaysOut, RevokedGone, RevokedRefused, Serving, Moved,
          Others, SameSession, SameWork, Passed, At
    <3>3. Claimed(t)'
      BY <2>0, <3>1, <3>2, ClaimedSame
    <3>4. RevokedGone(t)'
      BY <1>9, <2>2, <1>a, ZenonT(60)
      DEF FillRedisStep, Context, RevokedGone, TakenGone, RevokedRefused, Serving, Moved,
          Others, SameSession, SameWork, Passed, At
    <3>5. TakenGone(t)'
      BY <1>9, <2>2, <1>a, ZenonT(60)
      DEF FillRedisStep, Context, TakenWhere, TakenGone, TakenAlone, Deleting, RevokingAll,
          Kept, Serving, Moved, Others, SameSession, SameWork, Passed, At
    <3>6. LoginIndexed(t)'
      BY <1>9, <2>2, <1>a
      DEF FillRedisStep, Context, LoginIndexed, LoginsBefore, RevokingAll, Serving, Moved,
          Others, SameSession, SameWork, Passed, At
    <3>7. Indexed(t)'
      BY <1>9, <2>2, <1>a
      DEF FillRedisStep, Context, Indexed, LoginIndexed, AllTaken, TakenWhere, Deleting,
          RevokingAll, Kept, Serving, Moved, Others, SameSession, SameWork, Passed, At
    <3> QED
      BY <3>3, <3>4, <3>5, <3>6, <3>7 DEF Gone
  <2> QED
    BY <2>1, <2>2
<1>10. ASSUME NEW r \in Request, PutRedisStep(r) PROVE (Claimed(t) /\ Gone(t))'
  <2>0. SameClaims /\ UNCHANGED <<promised, revoked, revoking>>
    BY <1>10, MovedClaims, PassedClaims, TodoClaims DEF PutRedisStep
  <2>1. CASE Missed
    BY <2>0, <2>1, CleanMissed
  <2>2. CASE ~Missed
    <3>1. NoNewRevoker
      BY <1>10, <2>2
      DEF PutRedisStep, NoNewRevoker, RevokingAll, Putting, Moved, Others, SameSession,
          SameWork, At
    <3>2. StaysOut(t)
      BY <1>10, <2>2, <1>a
      DEF PutRedisStep, Context, StaysOut, RevokedGone, RevokedRefused, Putting, Moved, Others,
          SameSession, SameWork, At
    <3>3. Claimed(t)'
      BY <2>0, <3>1, <3>2, ClaimedSame
    <3>4. RevokedGone(t)'
      BY <1>10, <2>2, <1>a
      DEF PutRedisStep, Context, RevokedGone, TakenGone, RevokedRefused, Putting, Moved,
          Others, SameSession, SameWork, At
    <3>5. TakenGone(t)'
      BY <1>10, <2>2, <1>a, ZenonT(60)
      DEF PutRedisStep, Context, TakenWhere, TakenGone, TakenAlone, Deleting, RevokingAll,
          Kept, Putting, Moved, Others, SameSession, SameWork, At
    <3>6. LoginIndexed(t)'
      BY <1>10, <2>2, <1>a, ZenonT(60)
      DEF PutRedisStep, Context, LoginIndexed, LoginsBefore, RevokingAll, Putting, Moved,
          Others, SameSession, SameWork, At
    <3>7. Indexed(t)'
      BY <1>10, <2>2, <1>a
      DEF PutRedisStep, Context, Indexed, LoginIndexed, AllTaken, TakenWhere, Deleting,
          RevokingAll, Kept, Putting, Moved, Others, SameSession, SameWork, At
    <3> QED
      BY <3>3, <3>4, <3>5, <3>6, <3>7 DEF Gone
  <2> QED
    BY <2>1, <2>2
<1>11. ASSUME NEW r \in Request, PutIndexStep(r) PROVE (Claimed(t) /\ Gone(t))'
  <2>0. SameClaims /\ UNCHANGED <<promised, revoked, revoking>>
    BY <1>11, MovedClaims, PassedClaims, TodoClaims DEF PutIndexStep
  <2>1. CASE Missed
    BY <2>0, <2>1, CleanMissed
  <2>2. CASE ~Missed
    <3>1. NoNewRevoker
      BY <1>11, <2>2
      DEF PutIndexStep, NoNewRevoker, RevokingAll, Putting, Moved, Others, SameSession,
          SameWork, At
    <3>2. StaysOut(t)
      BY <1>11, <2>2, <1>a
      DEF PutIndexStep, Context, StaysOut, RevokedGone, RevokedRefused, Putting, Moved, Others,
          SameSession, SameWork, At
    <3>3. Claimed(t)'
      BY <2>0, <3>1, <3>2, ClaimedSame
    <3>4. RevokedGone(t)'
      BY <1>11, <2>2, <1>a
      DEF PutIndexStep, Context, RevokedGone, TakenGone, RevokedRefused, Putting, Moved,
          Others, SameSession, SameWork, At
    <3>5. TakenGone(t)'
      BY <1>11, <2>2, <1>a, ZenonT(60)
      DEF PutIndexStep, Context, TakenWhere, TakenGone, TakenAlone, Deleting, RevokingAll,
          Kept, Putting, Moved, Others, SameSession, SameWork, At
    <3>6. LoginIndexed(t)'
      BY <1>11, <2>2, <1>a, ZenonT(60)
      DEF PutIndexStep, Context, LoginIndexed, LoginsBefore, RevokingAll, Putting, Moved,
          Others, SameSession, SameWork, At
    <3>7. Indexed(t)'
      BY <1>11, <2>2, <1>a
      DEF PutIndexStep, Context, Indexed, LoginIndexed, AllTaken, TakenWhere, Deleting,
          RevokingAll, Kept, Putting, Moved, Others, SameSession, SameWork, At
    <3> QED
      BY <3>3, <3>4, <3>5, <3>6, <3>7 DEF Gone
  <2> QED
    BY <2>1, <2>2
<1>12. ASSUME NEW r \in Request, RevokeListStep(r) PROVE (Claimed(t) /\ Gone(t))'
  <2>0. SameClaims /\ UNCHANGED <<promised, revoked, revoking>>
    BY <1>12, MovedClaims, PassedClaims, TodoClaims DEF RevokeListStep
  <2>1. CASE Missed
    BY <2>0, <2>1, CleanMissed
  <2>2. CASE ~Missed
    <3>1. NoNewRevoker
      BY <1>12, <2>2
      DEF RevokeListStep, NoNewRevoker, RevokingAll, RevokingOthers, Moved, Others,
          SameSession, SameWork, Todo, At
    <3>2. StaysOut(t)
      BY <1>12, <2>2, <1>a
      DEF RevokeListStep, Context, StaysOut, RevokedGone, RevokedRefused, RevokingOthers,
          Moved, Others, SameSession, SameWork, Todo, At
    <3>3. Claimed(t)'
      BY <2>0, <3>1, <3>2, ClaimedSame
    <3>4. RevokedGone(t)'
      BY <1>12, <2>2, <1>a
      DEF RevokeListStep, Context, RevokedGone, TakenGone, RevokedRefused, RevokingOthers,
          Moved, Others, SameSession, SameWork, Todo, At
    <3>5. TakenGone(t)'
      BY <1>12, <2>2, <1>a, ZenonT(60)
      DEF RevokeListStep, Context, TakenWhere, TakenGone, TakenAlone, Deleting, RevokingAll,
          Kept, RevokingOthers, Moved, Others, SameSession, SameWork, Todo, At
    <3>6. LoginIndexed(t)'
      BY <1>12, <2>2, <1>a
      DEF RevokeListStep, Context, LoginIndexed, LoginsBefore, RevokingAll, RevokingOthers,
          Moved, Others, SameSession, SameWork, Todo, At
    <3>7. Indexed(t)'
      BY <1>12, <2>2, <1>a
      DEF RevokeListStep, Context, Indexed, LoginIndexed, AllTaken, TakenWhere, Deleting,
          RevokingAll, Kept, RevokingOthers, Moved, Others, SameSession, SameWork, Todo, At
    <3> QED
      BY <3>3, <3>4, <3>5, <3>6, <3>7 DEF Gone
  <2> QED
    BY <2>1, <2>2
<1>13. ASSUME NEW r \in Request, NEW u \in Token, RevokeRedisStep(r, u)
      PROVE  (Claimed(t) /\ Gone(t))'
  <2>0. SameClaims /\ UNCHANGED <<promised, revoked, revoking>>
    BY <1>13, MovedClaims, PassedClaims, TodoClaims DEF RevokeRedisStep
  <2>1. CASE Missed
    BY <2>0, <2>1, CleanMissed
  <2>2. CASE ~Missed
    <3>1. NoNewRevoker
      BY <1>13, <2>2
      DEF RevokeRedisStep, NoNewRevoker, RevokingAll, RevokingOthers, Others, SameSession,
          Todo, At
    <3>2. StaysOut(t)
      BY <1>13, <2>2, <1>a
      DEF RevokeRedisStep, Context, StaysOut, RevokedGone, RevokedRefused, RevokingOthers,
          Others, SameSession, Todo, At
    <3>3. Claimed(t)'
      BY <2>0, <3>1, <3>2, ClaimedSame
    <3>4. RevokedGone(t)'
      BY <1>13, <2>2, <1>a
      DEF RevokeRedisStep, Context, RevokedGone, TakenGone, RevokedRefused, RevokingOthers,
          Others, SameSession, Todo, At
    <3>5. TakenGone(t)'
      BY <1>13, <2>2, <1>a, ZenonT(60)
      DEF RevokeRedisStep, Context, TakenWhere, TakenGone, TakenAlone, Deleting, RevokingAll,
          Kept, RevokingOthers, Others, SameSession, Todo, At
    <3>6. LoginIndexed(t)'
      BY <1>13, <2>2, <1>a
      DEF RevokeRedisStep, Context, LoginIndexed, LoginsBefore, RevokingAll, RevokingOthers,
          Others, SameSession, Todo, At
    <3>7. Indexed(t)'
      BY <1>13, <2>2, <1>a
      DEF RevokeRedisStep, Context, Indexed, LoginIndexed, AllTaken, TakenWhere, Deleting,
          RevokingAll, Kept, RevokingOthers, Others, SameSession, Todo, At
    <3> QED
      BY <3>3, <3>4, <3>5, <3>6, <3>7 DEF Gone
  <2> QED
    BY <2>1, <2>2
<1>14. ASSUME NEW r \in Request, RevokeIndexStep(r) PROVE (Claimed(t) /\ Gone(t))'
  <2>0. SameClaims /\ UNCHANGED <<promised, revoked, revoking>>
    BY <1>14, MovedClaims, PassedClaims, TodoClaims DEF RevokeIndexStep
  <2>1. CASE Missed
    BY <2>0, <2>1, CleanMissed
  <2>2. CASE ~Missed
    <3>1. NoNewRevoker
      BY <1>14, <2>2
      DEF RevokeIndexStep, NoNewRevoker, RevokingAll, RevokingOthers, Moved, Others,
          SameSession, SameWork, At
    <3>2. StaysOut(t)
      BY <1>14, <2>2, <1>a
      DEF RevokeIndexStep, Context, StaysOut, RevokedGone, RevokedRefused, RevokingOthers,
          Moved, Others, SameSession, SameWork, At
    <3>3. Claimed(t)'
      BY <2>0, <3>1, <3>2, ClaimedSame
    <3>4. RevokedGone(t)'
      BY <1>14, <2>2, <1>a
      DEF RevokeIndexStep, Context, RevokedGone, TakenGone, RevokedRefused, RevokingOthers,
          Moved, Others, SameSession, SameWork, At
    <3>5. TakenGone(t)'
      <4>1. /\ req[r].pc = "revoke redis" /\ req[r].todo = {} /\ usess' \in {usess, Kept(r)}
            /\ Others(r) /\ req'[r].pc = "revoke cache" /\ req'[r].targets = req[r].targets
            /\ UNCHANGED <<sql, redis>>
        BY <1>14 DEF RevokeIndexStep, RevokingOthers, Moved, SameWork, At
      <4>2. ASSUME NEW q \in Request \ {r}, t \in req[q].targets
            PROVE  t \in usess => t \in usess'
        <5>1. promised[t] # 0 /\ req[r].token # t /\ t \notin req[r].targets
          BY <1>a, <4>2 DEF OwnersInv, TargetsMade, TakenAlone
        <5>2. t \in Kept(r)
          BY <1>a, <4>1, <5>1 DEF AllTaken, RevokingAll
        <5> QED
          BY <5>1, <5>2 DEF Kept
      <4>3. redis[t] = 0 \/ t \notin req[r].targets
        BY <1>a, <4>1 DEF TakenGone
      <4> QED
        BY <1>a, <4>1, <4>2, <4>3 DEF TakenGone, Others
    <3>6. LoginIndexed(t)'
      BY <1>14, <2>2, <1>a
      DEF RevokeIndexStep, Context, LoginIndexed, LoginsBefore, RevokingAll, RevokingOthers,
          Moved, Others, SameSession, SameWork, At
    <3>7. Indexed(t)'
      BY <1>14, <2>2, <1>a
      DEF RevokeIndexStep, Context, Indexed, LoginIndexed, AllTaken, TakenWhere, Deleting,
          RevokingAll, Kept, RevokingOthers, Moved, Others, SameSession, SameWork, At
    <3> QED
      BY <3>3, <3>4, <3>5, <3>6, <3>7 DEF Gone
  <2> QED
    BY <2>1, <2>2
<1>15. ASSUME TickStep PROVE (Claimed(t) /\ Gone(t))'
  <2>0. SameClaims /\ UNCHANGED <<promised, revoked, revoking>>
    BY <1>15 DEF TickStep, Ticked, SameClaims
  <2>1. NoNewRevoker
    BY <1>15 DEF TickStep, Ticked, NoNewRevoker, RevokingAll
  <2>2. StaysOut(t)
    BY <1>15, <1>a DEF TickStep, Ticked, Context, StaysOut, RevokedGone, RevokedRefused
  <2>3. Claimed(t)'
    BY <2>0, <2>1, <2>2, ClaimedSame
  <2>4. RevokedGone(t)'
    BY <1>15, <1>a DEF TickStep, Ticked, Context, RevokedGone, TakenGone, RevokedRefused
  <2>5. TakenGone(t)'
    BY <1>15, <1>a
    DEF TickStep, Ticked, Context, TakenWhere, TakenGone, TakenAlone, Deleting, RevokingAll,
        Kept
  <2>6. LoginIndexed(t)'
    BY <1>15, <1>a DEF TickStep, Ticked, Context, LoginIndexed, LoginsBefore, RevokingAll
  <2>7. Indexed(t)'
    BY <1>15, <1>a
    DEF TickStep, Ticked, Context, Indexed, LoginIndexed, AllTaken, TakenWhere, Deleting,
        RevokingAll, Kept
  <2> QED
    BY <2>3, <2>4, <2>5, <2>6, <2>7 DEF Gone
<1>16. ASSUME NEW r \in Request, AnswerStep(r) PROVE (Claimed(t) /\ Gone(t))'
  <2>1. Claimed(t)'
    BY <1>16, ClaimedLeft DEF AnswerStep, Deleting, RevokingAll
  <2>2. RevokedGone(t)'
    BY <1>16, <1>a
    DEF AnswerStep, Context, RevokedGone, TakenGone, RevokedRefused, Left, Began, Others
  <2>3. TakenGone(t)'
    BY <1>16, <1>a
    DEF AnswerStep, Context, TakenWhere, TakenGone, TakenAlone, Deleting, RevokingAll, Kept,
        Left, Began, Others
  <2>4. LoginIndexed(t)'
    BY <1>16, <1>a
    DEF AnswerStep, Context, LoginIndexed, LoginsBefore, RevokingAll, Left, Began, Others
  <2>5. Indexed(t)'
    BY <1>16, <1>a
    DEF AnswerStep, Context, Indexed, LoginIndexed, AllTaken, TakenWhere, Deleting,
        RevokingAll, Kept, Left, Began, Others
  <2> QED
    BY <2>1, <2>2, <2>3, <2>4, <2>5 DEF Gone
<1>17. ASSUME NEW r \in Request, PutPasswordStep(r) PROVE (Claimed(t) /\ Gone(t))'
  <2>1. CASE Left(r)
    <3>1. Claimed(t)'
      BY <1>17, <2>1, ClaimedLeft DEF PutPasswordStep, Deleting, RevokingAll, At
    <3>2. RevokedGone(t)'
      BY <1>17, <1>a, <2>1
      DEF PutPasswordStep, Context, RevokedGone, TakenGone, RevokedRefused, Left, Began,
          Others, At
    <3>3. TakenGone(t)'
      BY <1>17, <1>a, <2>1
      DEF PutPasswordStep, Context, TakenWhere, TakenGone, TakenAlone, Deleting, RevokingAll,
          Kept, Left, Began, Others, At
    <3>4. LoginIndexed(t)'
      BY <1>17, <1>a, <2>1
      DEF PutPasswordStep, Context, LoginIndexed, LoginsBefore, RevokingAll, Left, Began,
          Others, At
    <3>5. Indexed(t)'
      BY <1>17, <1>a, <2>1
      DEF PutPasswordStep, Context, Indexed, LoginIndexed, AllTaken, TakenWhere, Deleting,
          RevokingAll, Kept, Left, Began, Others, At
    <3> QED
      BY <3>1, <3>2, <3>3, <3>4, <3>5 DEF Gone
  <2>2. CASE Moved(r, "revoke", req[r].exp)
    <3>0. SameClaims /\ UNCHANGED <<promised, revoked, revoking>>
      BY <1>17, <2>2, MovedClaims DEF PutPasswordStep
    <3>1. NoNewRevoker
      BY <2>2 DEF NoNewRevoker, RevokingAll, Moved, Others
    <3>2. StaysOut(t)
      <4>1. t \in revoked => req[r].token # t
        BY <1>17, <1>a DEF PutPasswordStep, RevokedRefused, At
      <4> QED
        BY <1>a, <2>2, <4>1 DEF StaysOut, RevokedRefused, Moved, Others
    <3>3. Claimed(t)'
      BY <3>0, <3>1, <3>2, ClaimedSame
    <3>4. RevokedGone(t)'
      BY <1>17, <1>a, <2>2 DEF PutPasswordStep, RevokedGone
    <3>5. TakenGone(t)'
      BY <1>17, <1>a, <2>2, ZenonT(60)
      DEF PutPasswordStep, TakenWhere, TakenGone, TakenAlone, Deleting, RevokingAll, Kept,
          Moved, Others, SameSession, SameWork, At
    <3>6. LoginIndexed(t)'
      BY <1>17, <1>a, <2>2
      DEF PutPasswordStep, LoginIndexed, LoginsBefore, RevokingAll, Moved, Others,
          SameSession, SameWork, At
    <3>7. Indexed(t)'
      BY <1>17, <1>a, <2>2
      DEF PutPasswordStep, Indexed, LoginIndexed, AllTaken, TakenWhere, Deleting, RevokingAll,
          Kept, Moved, Others, SameSession, SameWork, At
    <3> QED
      BY <3>3, <3>4, <3>5, <3>6, <3>7 DEF Gone
  <2> QED
    BY <1>17, <2>1, <2>2 DEF PutPasswordStep
<1>18. ASSUME NEW r \in Request, DeleteCacheStep(r) PROVE (Claimed(t) /\ Gone(t))'
  <2>1. Claimed(t)'
    BY <1>18, ClaimedLeft DEF DeleteCacheStep, LoggingOut, Deleting, RevokingAll, At
  <2>2. RevokedGone(t)'
        BY <1>18, <1>a
        DEF TakenWhere, Deleting, DeleteCacheStep, Context, RevokedGone, TakenGone,
            RevokedRefused, LoggingOut, Left, Began, Others, At
  <2>3. TakenGone(t)'
    BY <1>18, <1>a
    DEF DeleteCacheStep, Context, TakenWhere, TakenGone, TakenAlone, Deleting, RevokingAll,
        Kept, LoggingOut, Left, Began, Others, At
  <2>4. LoginIndexed(t)'
    BY <1>18, <1>a
    DEF DeleteCacheStep, Context, LoginIndexed, LoginsBefore, RevokingAll, LoggingOut, Left,
        Began, Others, At
  <2>5. Indexed(t)'
    BY <1>18, <1>a
    DEF DeleteCacheStep, Context, Indexed, LoginIndexed, AllTaken, TakenWhere, Deleting,
        RevokingAll, Kept, LoggingOut, Left, Began, Others, At
  <2> QED
    BY <2>1, <2>2, <2>3, <2>4, <2>5 DEF Gone
<1>19. ASSUME NEW r \in Request, RevokeCacheStep(r) PROVE (Claimed(t) /\ Gone(t))'
  <2>1. Claimed(t)'
    BY <1>19, ClaimedLeft DEF RevokeCacheStep, RevokingOthers, Deleting, RevokingAll, At
  <2>2. RevokedGone(t)'
        BY <1>19, <1>a
        DEF TakenWhere, RevokingAll, RevokeCacheStep, Context, RevokedGone, TakenGone,
            RevokedRefused, RevokingOthers, Left, Began, Others, At
  <2>3. TakenGone(t)'
    BY <1>19, <1>a
    DEF RevokeCacheStep, Context, TakenWhere, TakenGone, TakenAlone, Deleting, RevokingAll,
        Kept, RevokingOthers, Left, Began, Others, At
  <2>4. LoginIndexed(t)'
    BY <1>19, <1>a
    DEF RevokeCacheStep, Context, LoginIndexed, LoginsBefore, RevokingAll, RevokingOthers,
        Left, Began, Others, At
  <2>5. Indexed(t)'
    BY <1>19, <1>a
    DEF RevokeCacheStep, Context, Indexed, LoginIndexed, AllTaken, TakenWhere, Deleting,
        RevokingAll, Kept, RevokingOthers, Left, Began, Others, At
  <2> QED
    BY <2>1, <2>2, <2>3, <2>4, <2>5 DEF Gone
<1>20. ASSUME NEW r \in Request, CheckPasswordStep(r) PROVE (Claimed(t) /\ Gone(t))'
  <2>1. CASE Left(r)
    <3>1. Claimed(t)'
      BY <1>20, <2>1, ClaimedLeft DEF CheckPasswordStep, Deleting, RevokingAll, At
    <3>2. RevokedGone(t)'
      BY <1>20, <2>1, <1>a
      DEF CheckPasswordStep, Context, RevokedGone, TakenGone, RevokedRefused, Left, Began,
          Others, At
    <3>3. TakenGone(t)'
      BY <1>20, <2>1, <1>a
      DEF CheckPasswordStep, Context, TakenWhere, TakenGone, TakenAlone, Deleting, RevokingAll,
          Kept, Left, Began, Others, At
    <3>4. LoginIndexed(t)'
      BY <1>20, <2>1, <1>a
      DEF CheckPasswordStep, Context, LoginIndexed, LoginsBefore, RevokingAll, Left, Began,
          Others, At
    <3>5. Indexed(t)'
      BY <1>20, <2>1, <1>a
      DEF CheckPasswordStep, Context, Indexed, LoginIndexed, AllTaken, TakenWhere, Deleting,
          RevokingAll, Kept, Left, Began, Others, At
    <3> QED
      BY <3>1, <3>2, <3>3, <3>4, <3>5 DEF Gone
  <2>2. CASE Moved(r, "put", now + TTL)
    <3>0. SameClaims /\ UNCHANGED <<promised, revoked, revoking>>
      BY <1>20, <2>2, MovedClaims DEF CheckPasswordStep
    <3>1. NoNewRevoker
      BY <1>20, <2>2
      DEF CheckPasswordStep, NoNewRevoker, RevokingAll, Moved, Others, SameSession, SameWork,
          At
    <3>2. StaysOut(t)
      BY <1>20, <2>2, <1>a
      DEF CheckPasswordStep, Context, StaysOut, RevokedGone, RevokedRefused, Moved, Others,
          SameSession, SameWork, At
    <3>3. Claimed(t)'
      BY <3>0, <3>1, <3>2, ClaimedSame
    <3>4. RevokedGone(t)'
      BY <1>20, <2>2, <1>a
      DEF CheckPasswordStep, Context, RevokedGone, TakenGone, RevokedRefused, Moved, Others,
          SameSession, SameWork, At
    <3>5. TakenGone(t)'
      BY <1>20, <2>2, <1>a, ZenonT(60)
      DEF CheckPasswordStep, Context, TakenWhere, TakenGone, TakenAlone, Deleting, RevokingAll,
          Kept, Moved, Others, SameSession, SameWork, At
    <3>6. LoginIndexed(t)'
      BY <1>20, <2>2, <1>a
      DEF CheckPasswordStep, Context, LoginIndexed, LoginsBefore, RevokingAll, Moved, Others,
          SameSession, SameWork, At
    <3>7. Indexed(t)'
      BY <1>20, <2>2, <1>a
      DEF CheckPasswordStep, Context, Indexed, LoginIndexed, AllTaken, TakenWhere, Deleting,
          RevokingAll, Kept, Moved, Others, SameSession, SameWork, At
    <3> QED
      BY <3>3, <3>4, <3>5, <3>6, <3>7 DEF Gone
  <2> QED
    BY <1>20, <2>1, <2>2 DEF CheckPasswordStep
<1>21. ASSUME NEW r \in Request, PutCacheStep(r) PROVE (Claimed(t) /\ Gone(t))'
  <2>1. CASE req[r].op = "login" /\ Left(r)
    <3>1. Claimed(t)'
      BY <1>21, <2>1, <1>a, ClaimedLeft
      DEF PutCacheStep, Context, Putting, Deleting, RevokingAll, At
    <3>2. RevokedGone(t)'
      BY <1>21, <2>1, <1>a
      DEF PutCacheStep, Putting, Context, RevokedGone, TakenGone, RevokedRefused, Left, Began,
          Others, At
    <3>3. TakenGone(t)'
      BY <1>21, <2>1, <1>a
      DEF PutCacheStep, Putting, Context, TakenWhere, TakenGone, TakenAlone, Deleting,
          RevokingAll, Kept, Left, Began, Others, At
    <3>4. LoginIndexed(t)'
      BY <1>21, <2>1, <1>a
      DEF PutCacheStep, Putting, Context, LoginIndexed, LoginsBefore, RevokingAll, Left, Began,
          Others, At
    <3>5. Indexed(t)'
      BY <1>21, <2>1, <1>a
      DEF PutCacheStep, Putting, Context, Indexed, LoginIndexed, AllTaken, TakenWhere,
          Deleting, RevokingAll, Kept, Left, Began, Others, At
    <3> QED
      BY <3>1, <3>2, <3>3, <3>4, <3>5 DEF Gone
  <2>2. CASE req[r].op # "login" /\ Moved(r, "authenticated", req[r].exp)
    <3>0. SameClaims /\ UNCHANGED <<revoked, revoking>>
      BY <1>21, <2>2, MovedClaims DEF PutCacheStep
    <3>8. promised[t] = 0 => promised'[t] = 0
      BY <1>21, <2>2, <1>a, SessionsAssumption
      DEF OwnersInv, HeldMade, PutCacheStep, Putting, Context
    <3>1. NoNewRevoker
      BY <1>21, <2>2
      DEF PutCacheStep, NoNewRevoker, RevokingAll, Putting, Moved, Others, SameSession,
          SameWork, At
    <3>2. StaysOut(t)
      BY <1>21, <2>2, <1>a
      DEF PutCacheStep, Context, StaysOut, RevokedGone, RevokedRefused, Putting, Moved, Others,
          SameSession, SameWork, At
    <3>3. Claimed(t)'
      BY <3>0, <3>8, <3>1, <3>2, ClaimedSame
    <3>4. RevokedGone(t)'
      BY <1>21, <2>2, <1>a
      DEF PutCacheStep, Context, RevokedGone, TakenGone, RevokedRefused, Putting, Moved,
          Others, SameSession, SameWork, At
    <3>5. TakenGone(t)'
      BY <1>21, <2>2, <1>a, ZenonT(60)
      DEF PutCacheStep, Context, TakenWhere, TakenGone, TakenAlone, Deleting, RevokingAll,
          Kept, Putting, Moved, Others, SameSession, SameWork, At
    <3>6. LoginIndexed(t)'
      BY <1>21, <2>2, <1>a, ZenonT(60)
      DEF PutCacheStep, Context, LoginIndexed, LoginsBefore, RevokingAll, Putting, Moved,
          Others, SameSession, SameWork, At
    <3>7. Indexed(t)'
      BY <3>8, <1>21, <2>2, <1>a
      DEF PutCacheStep, Context, Indexed, LoginIndexed, AllTaken, TakenWhere, Deleting,
          RevokingAll, Kept, Putting, Moved, Others, SameSession, SameWork, At
    <3> QED
      BY <3>3, <3>4, <3>5, <3>6, <3>7 DEF Gone
  <2> QED
    BY <1>21, <2>1, <2>2 DEF PutCacheStep
<1>22. ASSUME NEW r \in Request, DeleteRedisStep(r) PROVE (Claimed(t) /\ Gone(t))'
  <2>1. CASE Missed
    BY <1>22, <2>1, MovedClaims, CleanMissed DEF DeleteRedisStep
  <2>2. CASE ~Missed
    <3>0. SameClaims /\ UNCHANGED <<promised, revoked, revoking>>
      BY <1>22, <2>2, MovedClaims DEF DeleteRedisStep
    <3>1. NoNewRevoker
      BY <1>22, <2>2
      DEF DeleteRedisStep, NoNewRevoker, RevokingAll, LoggingOut, Moved, Others, SameSession,
          SameWork, At
    <3>2. StaysOut(t)
      BY <1>22, <2>2, <1>a
      DEF DeleteRedisStep, Context, StaysOut, RevokedGone, RevokedRefused, LoggingOut, Moved,
          Others, SameSession, SameWork, At
    <3>3. Claimed(t)'
      BY <3>0, <3>1, <3>2, ClaimedSame
    <3>4. RevokedGone(t)'
      BY <1>22, <2>2, <1>a
      DEF DeleteRedisStep, Context, RevokedGone, TakenGone, RevokedRefused, LoggingOut, Moved,
          Others, SameSession, SameWork, At
    <3>5. TakenGone(t)'
      BY <1>22, <2>2, <1>a, ZenonT(60)
      DEF DeleteRedisStep, Context, TakenWhere, TakenGone, TakenAlone, Deleting, RevokingAll,
          Kept, LoggingOut, Moved, Others, SameSession, SameWork, At
    <3>6. LoginIndexed(t)'
      BY <1>22, <2>2, <1>a, ZenonT(60)
      DEF DeleteRedisStep, Context, LoginIndexed, LoginsBefore, RevokingAll, LoggingOut, Moved,
          Others, SameSession, SameWork, At
    <3>7. Indexed(t)'
      BY <1>22, <2>2, <1>a
      DEF DeleteRedisStep, Context, Indexed, LoginIndexed, AllTaken, TakenWhere, Deleting,
          RevokingAll, Kept, LoggingOut, Moved, Others, SameSession, SameWork, At
    <3> QED
      BY <3>3, <3>4, <3>5, <3>6, <3>7 DEF Gone
  <2> QED
    BY <2>1, <2>2
<1>23. ASSUME NEW r \in Request, NEW u \in Token, BeginLoginStep(r, u)
      PROVE  (Claimed(t) /\ Gone(t))'
  <2>1. u = t => promised[t] = 0 /\ \A q \in Request : t \notin req[q].targets
        /\ req[q].pc \notin RevokingAll
    BY <1>23 DEF BeginLoginStep, Used, Revoking, RevokingAll
  <2>2. u = t => t \notin revoked
    BY <2>1 DEF OwnersInv, RevokedMade
  <2>3. u # Nobody
    BY SessionsAssumption
  <2> QED
    BY <1>23, <2>1, <2>2, <2>3, CleanBegan DEF BeginLoginStep
<1>24. ASSUME NEW r \in Request, NEW u \in Token, NEW o \in {"use", "logout", "password"},
              BeginWithStep(r, o, u)
      PROVE  (Claimed(t) /\ Gone(t))'
  <2>1. u = t => \A q \in Request : t \notin req[q].targets
    BY <1>24 DEF BeginWithStep
  <2>2. u # Nobody /\ o # "login"
    BY SessionsAssumption
  <2> QED
    BY <1>24, <2>1, <2>2, CleanBegan DEF BeginWithStep
<1>25. ASSUME NEW r \in Request, BeginAdminStep(r) PROVE (Claimed(t) /\ Gone(t))'
  <2>1. t # Nobody
    BY SessionsAssumption
  <2>2. Began(r, "revoke", "admin", Nobody, FALSE, 0) /\ req[r].pc = "idle"
    BY <1>25 DEF BeginAdminStep
  <2>3. UNCHANGED <<sql, redis, cache, usess, promised, revoking, revoked>>
    BY <1>25 DEF BeginAdminStep
  <2> QED
    BY <2>1, <2>2, <2>3, CleanBegan
<1>26. ASSUME NEW r \in Request, DeleteSQLStep(r) PROVE (Claimed(t) /\ Gone(t))'
  <2>2. req[r].token \in Token /\ req[r].pc = "authenticated" /\ req[r].op # "login"
    BY <1>26 DEF DeleteSQLStep, LoggingOut, At
  <2> QED
    BY <1>26, <2>2, CleanTaken DEF DeleteSQLStep
<1>27. ASSUME NEW r \in Request, RevokeSQLStep(r) PROVE (Claimed(t) /\ Gone(t))'
  <2>2. req[r].pc \in {"authenticated", "revoke"} /\ req[r].op # "login"
    BY <1>27 DEF RevokeSQLStep, RevokingOthers, At
  <2> QED
    BY <1>27, <2>2, CleanTaken DEF RevokeSQLStep
<1> QED
  BY <1>1, <1>2, <1>3, <1>4, <1>5, <1>6, <1>7, <1>8, <1>9, <1>10, <1>11, <1>12, <1>13, <1>14,
     <1>15, <1>16, <1>17, <1>18, <1>19, <1>20, <1>21, <1>22, <1>23, <1>24, <1>25, <1>26, <1>27,
     Zenon
  DEF Step

----------------------------------------------------------------------------
(* No tier is ahead of the clock; what is promised is in the table.        *)

\* No tier, promise or held expiry is more than a TTL ahead.
TierBehind(t) ==
    /\ sql[t] <= now + TTL /\ redis[t] <= now + TTL
    /\ cache[t] <= now + TTL /\ promised[t] <= now + TTL
TiersBehind == \A t \in Token : TierBehind(t)
ExpBehind == \A r \in Request : req[r].exp <= now + TTL

\* What a renewal of t stores is a whole TTL from now, and t was still promised
\* then.
RenewsWhole(t) ==
    \A r \in Request : req[r].token = t /\ req[r].pc \in Renewing => req[r].exp = now + TTL
RenewsLive(t) ==
    \A r \in Request :
        req[r].token = t /\ req[r].pc \in Renewing /\ req[r].op # "login" => promised[t] > now

\* An expiry that a lookup holds has not passed; a row that it found expired was
\* promised no longer.
HoldsLive(t) ==
    \A r \in Request : req[r].token = t /\ req[r].pc \in Holding => req[r].exp > now
DropsOld(t) ==
    \A r \in Request :
        req[r].token = t /\ req[r].pc = "expired" /\ t \notin revoking => promised[t] <= now

\* A renewal has written the table before it writes a cache.
RenewsInTable(t) ==
    \A r \in Request :
        /\ req[r].token = t /\ req[r].pc \in {"put redis", "put index", "put cache"}
        /\ t \notin revoking
        => sql[t] >= req[r].exp

\* No tier and no lookup has more of t than was promised, unless t is being
\* renewed.
Behind(t) ==
    promised[t] # 0 =>
        \/ /\ sql[t] <= promised[t] /\ redis[t] <= promised[t] /\ cache[t] <= promised[t]
           /\ \A r \in Request :
                  req[r].token = t /\ req[r].pc \in Holding => req[r].exp <= promised[t]
        \/ \E r \in Request : req[r].token = t /\ req[r].pc \in Renewing

\* What is promised is in the table, unless t is taken out.
InTable(t) == t \notin revoking /\ promised[t] > now => sql[t] >= promised[t]

\* A request is refused with t only when what it was promised is over.
Served(t) ==
    t \notin revoking =>
        \A r \in Request : req[r].token = t /\ req[r].pc = "refused" => req[r].due <= now

\* What the steps below need of the other invariants, for one session.
LiveContext(t) ==
    /\ Context(t)
    /\ \A r \in Request : req[r].exp \in Nat /\ req[r].exp <= now + TTL
    /\ \A r \in Request : req[r].pc = "expired" => req[r].op # "login"
    /\ sql[t] <= now + TTL /\ redis[t] <= now + TTL /\ cache[t] <= now + TTL
       /\ promised[t] <= now + TTL
    /\ \A r \in Request : req[r].token = t /\ req[r].op # "login" => promised[t] # 0
    /\ \A r \in Request : req[r].token = t /\ req[r].op = "login" => promised[t] = 0
    /\ \A r \in Request : req[r].token = t => req[r].due \in Nat /\ req[r].due <= promised[t]

\* The expiries are naturals.
Amounts ==
    /\ sql \in [Token -> Nat] /\ redis \in [Token -> Nat] /\ cache \in [Token -> Nat]
    /\ promised \in [Token -> Nat] /\ now \in Nat
    /\ \A r \in Request : req[r].exp \in Nat

\* What a step may write to a tier, and into the expiry that a request holds.
\* What a step may write to a tier, and into the expiry that a request holds.
Writes(new, old, t) ==
    new = old \/ new = 0 \/ \E r \in Request : req[r].token = t /\ new = req[r].exp
TierWrites(t) ==
    /\ Writes(sql'[t], sql[t], t) /\ Writes(redis'[t], redis[t], t)
    /\ Writes(cache'[t], cache[t], t) /\ Writes(promised'[t], promised[t], t)
ExpReads(r) ==
    \/ req'[r].exp = req[r].exp \/ req'[r].exp = 0 \/ req'[r].exp = now + TTL
    \/ \E t \in Token : req'[r].exp \in {sql[t], redis[t]}
TiersTyped ==
    /\ sql \in [Token -> Nat] /\ redis \in [Token -> Nat]
    /\ cache \in [Token -> Nat] /\ promised \in [Token -> Nat]

----------------------------------------------------------------------------
(* The expiries.                                                           *)

\* When the clock moves past no window of t, nobody renews t and nobody holds an
\* expiry that passes.
LEMMA TickRaces ==
    ASSUME TickStep, NEW t \in Token, t # Nobody, t \notin raced',
           NEW q \in Request, req[q].token = t
    PROVE  req[q].pc \notin Renewing /\ req[q].exp # now + 1
  BY DEF TickStep, Expires

\* A tier, or a lookup, that has t unexpired shows that t is promised.
LEMMA ServedAhead ==
    ASSUME NEW t \in Token, LiveContext(t), RenewsLive(t), Behind(t),
           NEW r \in Request, req[r].token = t, req[r].op # "login",
           \/ sql[t] > now \/ redis[t] > now \/ cache[t] > now
           \/ req[r].pc \in Holding /\ req[r].exp > now
    PROVE  promised[t] > now
<1>1. promised[t] # 0
  BY DEF LiveContext
<1>2. CASE \E q \in Request : req[q].token = t /\ req[q].pc \in Renewing
  BY <1>1, <1>2 DEF LiveContext, RenewsLive
<1>3. CASE ~ \E q \in Request : req[q].token = t /\ req[q].pc \in Renewing
  BY <1>1, <1>3 DEF Behind, LiveContext, Context
<1> QED
  BY <1>2, <1>3

\* A step writes to a tier what it had, nothing, or what a request for that
\* session holds.
LEMMA TierWritesKept ==
    ASSUME TiersTyped, NEW t \in Token, Step
    PROVE  TierWrites(t)
<1>1. ASSUME NEW r \in Request,
             \/ BeginAdminStep(r) \/ LookCacheStep(r) \/ LookRedisStep(r) \/ CacheHitStep(r)
             \/ LookSQLStep(r) \/ DropExpiredStep(r) \/ FillCacheStep(r) \/ FillRedisStep(r)
      PROVE  TierWrites(t)
  BY <1>1, ZenonT(60)
  DEF BeginAdminStep, LookCacheStep, LookRedisStep, CacheHitStep, LookSQLStep, DropExpiredStep,
      FillCacheStep, FillRedisStep, TierWrites, Writes, TiersTyped, Moved, Others, SameSession,
      Passed, Began, Serving, At
<1>2. ASSUME NEW r \in Request,
             \/ AnswerStep(r) \/ CheckPasswordStep(r) \/ PutSQLStep(r) \/ PutRedisStep(r)
             \/ PutIndexStep(r) \/ PutCacheStep(r) \/ DeleteSQLStep(r) \/ DeleteRedisStep(r)
      PROVE  TierWrites(t)
  BY <1>2, ZenonT(60)
  DEF AnswerStep, CheckPasswordStep, PutSQLStep, PutRedisStep, PutIndexStep, PutCacheStep,
      DeleteSQLStep, DeleteRedisStep, TierWrites, Writes, TiersTyped, Moved, Others,
      SameSession, Taken, Left, Began, Putting, LoggingOut, At
<1>3. ASSUME NEW r \in Request,
             \/ DeleteIndexStep(r) \/ DeleteCacheStep(r) \/ PutPasswordStep(r)
             \/ RevokeSQLStep(r) \/ RevokeListStep(r) \/ RevokeIndexStep(r)
             \/ RevokeCacheStep(r)
      PROVE  TierWrites(t)
  BY <1>3
  DEF DeleteIndexStep, DeleteCacheStep, PutPasswordStep, RevokeSQLStep, RevokeListStep,
      RevokeIndexStep, RevokeCacheStep, TierWrites, Writes, TiersTyped, Moved, Others,
      SameSession, Todo, Taken, Left, Began, LoggingOut, RevokingOthers, At
<1>4. ASSUME NEW r \in Request, NEW u \in Token, BeginLoginStep(r, u) PROVE TierWrites(t)
  BY <1>4 DEF BeginLoginStep, TierWrites, Writes, TiersTyped, Others, Began
<1>5. ASSUME NEW r \in Request, NEW u \in Token, NEW o \in {"use", "logout", "password"},
             BeginWithStep(r, o, u)
      PROVE  TierWrites(t)
  BY <1>5 DEF BeginWithStep, TierWrites, Writes, TiersTyped, Others, Began
<1>6. ASSUME NEW r \in Request, NEW u \in Token, RevokeRedisStep(r, u) PROVE TierWrites(t)
  BY <1>6, ZenonT(60)
  DEF RevokeRedisStep, TierWrites, Writes, TiersTyped, Others, SameSession, Todo,
      RevokingOthers, At
<1>7. ASSUME TickStep PROVE TierWrites(t)
  BY <1>7, SMTT(30) DEF TickStep, TierWrites, Writes, TiersTyped, Ticked
<1> QED
  BY <1>1, <1>2, <1>3, <1>4, <1>5, <1>6, <1>7, ZenonT(60) DEF Step

\* A request holds what it held, nothing, a new TTL, or what a tier had.
LEMMA ExpReadsKept ==
    ASSUME NEW q \in Request, Step
    PROVE  ExpReads(q)
<1>1. ASSUME NEW r \in Request,
             \/ BeginAdminStep(r) \/ LookCacheStep(r) \/ LookRedisStep(r) \/ CacheHitStep(r)
             \/ LookSQLStep(r) \/ DropExpiredStep(r) \/ FillCacheStep(r) \/ FillRedisStep(r)
      PROVE  ExpReads(q)
  BY <1>1
  DEF BeginAdminStep, LookCacheStep, LookRedisStep, CacheHitStep, LookSQLStep, DropExpiredStep,
      FillCacheStep, FillRedisStep, ExpReads, TTL, Moved, Others, SameSession, Passed, Began,
      Serving, At
<1>2. ASSUME NEW r \in Request,
             \/ AnswerStep(r) \/ CheckPasswordStep(r) \/ PutSQLStep(r) \/ PutRedisStep(r)
             \/ PutIndexStep(r) \/ PutCacheStep(r) \/ DeleteSQLStep(r) \/ DeleteRedisStep(r)
      PROVE  ExpReads(q)
  BY <1>2
  DEF AnswerStep, CheckPasswordStep, PutSQLStep, PutRedisStep, PutIndexStep, PutCacheStep,
      DeleteSQLStep, DeleteRedisStep, ExpReads, TTL, Moved, Others, SameSession, Taken, Left,
      Began, Putting, LoggingOut, At
<1>3. ASSUME NEW r \in Request,
             \/ DeleteIndexStep(r) \/ DeleteCacheStep(r) \/ PutPasswordStep(r)
             \/ RevokeSQLStep(r) \/ RevokeListStep(r) \/ RevokeIndexStep(r)
             \/ RevokeCacheStep(r)
      PROVE  ExpReads(q)
  BY <1>3
  DEF DeleteIndexStep, DeleteCacheStep, PutPasswordStep, RevokeSQLStep, RevokeListStep,
      RevokeIndexStep, RevokeCacheStep, ExpReads, TTL, Moved, Others, SameSession, Todo, Taken,
      Left, Began, LoggingOut, RevokingOthers, At
<1>4. ASSUME NEW r \in Request, NEW u \in Token, BeginLoginStep(r, u) PROVE ExpReads(q)
  BY <1>4 DEF BeginLoginStep, ExpReads, TTL, Others, Began
<1>5. ASSUME NEW r \in Request, NEW u \in Token, NEW o \in {"use", "logout", "password"},
             BeginWithStep(r, o, u)
      PROVE  ExpReads(q)
  BY <1>5 DEF BeginWithStep, ExpReads, TTL, Others, Began
<1>6. ASSUME NEW r \in Request, NEW u \in Token, RevokeRedisStep(r, u) PROVE ExpReads(q)
  BY <1>6, ZenonT(60) DEF RevokeRedisStep, ExpReads, TTL, Others, SameSession, Todo, RevokingOthers, At
<1>7. ASSUME TickStep PROVE ExpReads(q)
  BY <1>7, SMTT(30) DEF TickStep, ExpReads, TTL, Ticked
<1> QED
  BY <1>1, <1>2, <1>3, <1>4, <1>5, <1>6, <1>7, ZenonT(60) DEF Step

\* The clock moves by one, or not.
LEMMA ClockMoves ==
    ASSUME TRUE, Step
    PROVE  now' = now \/ now' = now + 1
<1>1. ASSUME NEW r \in Request,
             \/ BeginAdminStep(r) \/ LookCacheStep(r) \/ LookRedisStep(r) \/ CacheHitStep(r)
             \/ LookSQLStep(r) \/ DropExpiredStep(r) \/ FillCacheStep(r) \/ FillRedisStep(r)
             \/ AnswerStep(r) \/ CheckPasswordStep(r) \/ PutSQLStep(r) \/ PutRedisStep(r)
             \/ PutIndexStep(r) \/ PutCacheStep(r) \/ DeleteSQLStep(r) \/ DeleteRedisStep(r)
             \/ DeleteIndexStep(r) \/ DeleteCacheStep(r) \/ PutPasswordStep(r)
             \/ RevokeSQLStep(r) \/ RevokeListStep(r) \/ RevokeIndexStep(r)
             \/ RevokeCacheStep(r)
      PROVE  now' = now \/ now' = now + 1
  BY <1>1
  DEF BeginAdminStep, LookCacheStep, LookRedisStep, CacheHitStep, LookSQLStep, DropExpiredStep,
      FillCacheStep, FillRedisStep, AnswerStep, CheckPasswordStep, PutSQLStep, PutRedisStep,
      PutIndexStep, PutCacheStep, DeleteSQLStep, DeleteRedisStep, DeleteIndexStep,
      DeleteCacheStep, PutPasswordStep, RevokeSQLStep, RevokeListStep, RevokeIndexStep,
      RevokeCacheStep, TTL, Moved, Others, SameSession, Passed, Todo, Taken, Left, Began,
      Serving, Putting, LoggingOut, RevokingOthers, At
<1>2. ASSUME NEW r \in Request, NEW u \in Token, BeginLoginStep(r, u)
      PROVE  now' = now \/ now' = now + 1
  BY <1>2 DEF BeginLoginStep, Others, Began
<1>3. ASSUME NEW r \in Request, NEW u \in Token, NEW o \in {"use", "logout", "password"},
             BeginWithStep(r, o, u)
      PROVE  now' = now \/ now' = now + 1
  BY <1>3 DEF BeginWithStep, Others, Began
<1>4. ASSUME NEW r \in Request, NEW u \in Token, RevokeRedisStep(r, u)
      PROVE  now' = now \/ now' = now + 1
  BY <1>4 DEF RevokeRedisStep, Others, SameSession, Todo, RevokingOthers, At
<1>5. ASSUME TickStep PROVE now' = now \/ now' = now + 1
  BY <1>5 DEF TickStep, Ticked
<1> QED
  BY <1>1, <1>2, <1>3, <1>4, <1>5, ZenonT(60) DEF Step

\* No tier and no request gets more than a TTL ahead of the clock.
LEMMA BehindKept ==
    ASSUME Amounts, TiersBehind, ExpBehind, Step
    PROVE  TiersBehind' /\ ExpBehind'
<1>1. TiersTyped /\ now \in Nat /\ \A r \in Request : req[r].exp \in Nat
  BY DEF Amounts, TiersTyped
<1>2. now + TTL <= now' + TTL /\ now + TTL \in Nat /\ now' + TTL \in Nat
  BY <1>1, ClockMoves DEF TTL
<1>3. ASSUME NEW t \in Token PROVE TierBehind(t)'
  <2>1. ASSUME NEW new, NEW old \in Nat, old <= now + TTL, Writes(new, old, t)
        PROVE  new <= now' + TTL
    BY <1>1, <1>2, <2>1 DEF Writes, ExpBehind
  <2>2. TierWrites(t)
    BY <1>1, TierWritesKept
  <2>3. /\ sql[t] \in Nat /\ redis[t] \in Nat /\ cache[t] \in Nat /\ promised[t] \in Nat
        /\ sql[t] <= now + TTL /\ redis[t] <= now + TTL
        /\ cache[t] <= now + TTL /\ promised[t] <= now + TTL
    BY <1>1 DEF TiersTyped, TiersBehind, TierBehind
  <2> QED
    BY <2>1, <2>2, <2>3 DEF TierWrites, TierBehind
<1>4. ASSUME NEW r \in Request PROVE req'[r].exp <= now' + TTL
  <2>1. ExpReads(r)
    BY ExpReadsKept
  <2>2. \A t \in Token : sql[t] <= now + TTL /\ redis[t] <= now + TTL /\ sql[t] \in Nat
        /\ redis[t] \in Nat
    BY <1>1 DEF TiersTyped, TiersBehind, TierBehind
  <2> QED
    BY <1>1, <1>2, <2>1, <2>2 DEF ExpReads, ExpBehind
<1> QED
  BY <1>3, <1>4 DEF TiersBehind, ExpBehind

\* RenewsWhole is kept: the clock does not move during a renewal outside the
\* windows.
LEMMA RenewsWholeKept ==
    ASSUME NEW t \in Token, t \notin raced', LiveContext(t), RenewsWhole(t), Step
    PROVE  RenewsWhole(t)'
<1>1. ASSUME NEW r \in Request,
             \/ BeginAdminStep(r) \/ LookCacheStep(r) \/ LookRedisStep(r) \/ CacheHitStep(r)
             \/ LookSQLStep(r) \/ DropExpiredStep(r) \/ FillCacheStep(r) \/ FillRedisStep(r)
      PROVE  RenewsWhole(t)'
  BY <1>1, ZenonT(60)
  DEF BeginAdminStep, LookCacheStep, LookRedisStep, CacheHitStep, LookSQLStep, DropExpiredStep,
      FillCacheStep, FillRedisStep, RenewsWhole, Renewing, Moved, Others, SameSession, Passed,
      Began, Serving, At
<1>2. ASSUME NEW r \in Request,
             \/ AnswerStep(r) \/ CheckPasswordStep(r) \/ PutSQLStep(r) \/ PutRedisStep(r)
             \/ PutIndexStep(r) \/ PutCacheStep(r) \/ DeleteSQLStep(r) \/ DeleteRedisStep(r)
      PROVE  RenewsWhole(t)'
  BY <1>2, ZenonT(60)
  DEF AnswerStep, CheckPasswordStep, PutSQLStep, PutRedisStep, PutIndexStep, PutCacheStep,
      DeleteSQLStep, DeleteRedisStep, RenewsWhole, Renewing, Moved, Others, SameSession, Taken,
      Left, Began, Putting, LoggingOut, At
<1>3. ASSUME NEW r \in Request,
             \/ DeleteIndexStep(r) \/ DeleteCacheStep(r) \/ PutPasswordStep(r)
             \/ RevokeSQLStep(r) \/ RevokeListStep(r) \/ RevokeIndexStep(r)
             \/ RevokeCacheStep(r)
      PROVE  RenewsWhole(t)'
  BY <1>3, ZenonT(60)
  DEF DeleteIndexStep, DeleteCacheStep, PutPasswordStep, RevokeSQLStep, RevokeListStep,
      RevokeIndexStep, RevokeCacheStep, RenewsWhole, Renewing, Moved, Others, SameSession,
      Todo, Taken, Left, Began, LoggingOut, RevokingOthers, At
<1>4. ASSUME NEW r \in Request, NEW u \in Token, BeginLoginStep(r, u) PROVE RenewsWhole(t)'
  BY <1>4 DEF BeginLoginStep, RenewsWhole, Renewing, Others, Began
<1>5. ASSUME NEW r \in Request, NEW u \in Token, NEW o \in {"use", "logout", "password"},
             BeginWithStep(r, o, u)
      PROVE  RenewsWhole(t)'
  BY <1>5, ZenonT(60) DEF BeginWithStep, RenewsWhole, Renewing, Others, Began
<1>6. ASSUME NEW r \in Request, NEW u \in Token, RevokeRedisStep(r, u) PROVE RenewsWhole(t)'
  BY <1>6, ZenonT(60)
  DEF RevokeRedisStep, RenewsWhole, Renewing, Others, SameSession, Todo, RevokingOthers, At
<1>7. ASSUME TickStep PROVE RenewsWhole(t)'
  BY <1>7, TickRaces, SMTT(30) DEF TickStep, Ticked, RenewsWhole, LiveContext, Context, Expires
<1> QED
  BY <1>1, <1>2, <1>3, <1>4, <1>5, <1>6, <1>7, ZenonT(60) DEF Step

\* RenewsLive is kept: authenticate renews only what some tier had unexpired.
LEMMA RenewsLiveKept ==
    ASSUME NEW t \in Token, t \notin raced', LiveContext(t), RenewsLive(t), HoldsLive(t),
           Behind(t), Step
    PROVE  RenewsLive(t)'
<1>1. ASSUME NEW r \in Request,
             \/ BeginAdminStep(r) \/ LookRedisStep(r) \/ LookSQLStep(r) \/ DropExpiredStep(r)
             \/ FillCacheStep(r) \/ AnswerStep(r) \/ CheckPasswordStep(r)
      PROVE  RenewsLive(t)'
  BY <1>1, ZenonT(60)
  DEF BeginAdminStep, LookRedisStep, LookSQLStep, DropExpiredStep, FillCacheStep, AnswerStep,
      CheckPasswordStep, RenewsLive, Renewing, Moved, Others, SameSession, Left, Began,
      Serving, At
<1>2. ASSUME NEW r \in Request,
             \/ PutSQLStep(r) \/ PutRedisStep(r) \/ PutIndexStep(r) \/ DeleteSQLStep(r)
             \/ DeleteRedisStep(r) \/ DeleteIndexStep(r) \/ DeleteCacheStep(r)
      PROVE  RenewsLive(t)'
  BY <1>2, ZenonT(60)
  DEF PutSQLStep, PutRedisStep, PutIndexStep, DeleteSQLStep, DeleteRedisStep, DeleteIndexStep,
      DeleteCacheStep, RenewsLive, Renewing, Moved, Others, SameSession, Taken, Left, Began,
      Putting, LoggingOut, At
<1>3. ASSUME NEW r \in Request,
             \/ PutPasswordStep(r) \/ RevokeSQLStep(r) \/ RevokeListStep(r)
             \/ RevokeIndexStep(r) \/ RevokeCacheStep(r)
      PROVE  RenewsLive(t)'
  BY <1>3, ZenonT(60)
  DEF PutPasswordStep, RevokeSQLStep, RevokeListStep, RevokeIndexStep, RevokeCacheStep,
      RenewsLive, Renewing, Moved, Others, SameSession, Todo, Taken, Left, Began,
      RevokingOthers, At
<1>4. ASSUME NEW r \in Request, NEW u \in Token, BeginLoginStep(r, u) PROVE RenewsLive(t)'
  BY <1>4 DEF BeginLoginStep, RenewsLive, Renewing, Others, Began
<1>5. ASSUME NEW r \in Request, NEW u \in Token, NEW o \in {"use", "logout", "password"},
             BeginWithStep(r, o, u)
      PROVE  RenewsLive(t)'
  BY <1>5, ZenonT(60) DEF BeginWithStep, RenewsLive, Renewing, Others, Began
<1>6. ASSUME NEW r \in Request, NEW u \in Token, RevokeRedisStep(r, u) PROVE RenewsLive(t)'
  BY <1>6
  DEF RevokeRedisStep, RenewsLive, Renewing, Others, SameSession, Todo, RevokingOthers, At
<1>7. ASSUME NEW r \in Request, LookCacheStep(r) PROVE RenewsLive(t)'
  <2>1. req[r].token = t /\ req'[r].pc = "put" => cache[t] > now
    BY <1>7 DEF LookCacheStep, Moved
  <2>2. req[r].token = t /\ req'[r].pc = "put" => promised[t] > now
    BY <1>7, <2>1, ServedAhead DEF LookCacheStep, Serving
  <2>3. Others(r) /\ SameSession(r) /\ UNCHANGED <<now, promised>>
        /\ req'[r].pc \in {"redis", "refused", "put", "authenticated"}
    BY <1>7 DEF LookCacheStep, Passed, Moved
  <2> QED
    BY <2>2, <2>3, ZenonT(60) DEF RenewsLive, Others, SameSession, Renewing
<1>8. ASSUME NEW r \in Request, CacheHitStep(r) PROVE RenewsLive(t)'
  <2>1. req[r].token = t => promised[t] > now
    BY <1>8, ServedAhead DEF CacheHitStep, HoldsLive, Holding, Serving, At
  <2> QED
    BY <1>8, <2>1, ZenonT(60)
    DEF CacheHitStep, Serving, At, RenewsLive, Moved, Others, SameSession, Passed, Renewing
<1>9. ASSUME NEW r \in Request, FillRedisStep(r) PROVE RenewsLive(t)'
  <2>1. req[r].token = t => promised[t] > now
    BY <1>9, ServedAhead DEF FillRedisStep, HoldsLive, Holding, Serving, At
  <2> QED
    BY <1>9, <2>1, ZenonT(60)
    DEF FillRedisStep, Serving, At, RenewsLive, Moved, Others, SameSession, Passed, Renewing
<1>10. ASSUME NEW r \in Request, PutCacheStep(r) PROVE RenewsLive(t)'
  <2>1. \/ promised'[t] = promised[t]
        \/ ~(promised[t] > req[r].exp) /\ promised'[t] = req[r].exp
    BY <1>10 DEF PutCacheStep, Putting, LiveContext, Context
  <2>2. promised[t] > now => promised'[t] > now
    BY <2>1 DEF LiveContext, Context
  <2>3. \/ Others(r) /\ SameSession(r) /\ UNCHANGED now /\ req'[r].pc = "authenticated"
        \/ Left(r) /\ UNCHANGED now
    BY <1>10 DEF PutCacheStep, Moved
  <2> QED
    BY <2>2, <2>3 DEF RenewsLive, Left, Began, Others, SameSession, Renewing
<1>11. ASSUME TickStep PROVE RenewsLive(t)'
  BY <1>11, TickRaces, SMTT(30) DEF TickStep, Ticked, RenewsLive, LiveContext, Context
<1> QED
  BY <1>1, <1>2, <1>3, <1>4, <1>5, <1>6, <1>7, <1>8, <1>9, <1>10, <1>11, Zenon DEF Step

\* HoldsLive is kept: lookups take only what has not expired, and the clock
\* passes no held expiry outside the windows.
LEMMA HoldsLiveKept ==
    ASSUME NEW t \in Token, t \notin raced', LiveContext(t), HoldsLive(t), Step
    PROVE  HoldsLive(t)'
<1>1. ASSUME NEW r \in Request,
             \/ BeginAdminStep(r) \/ LookCacheStep(r) \/ LookRedisStep(r) \/ CacheHitStep(r)
             \/ DropExpiredStep(r) \/ FillCacheStep(r) \/ FillRedisStep(r) \/ AnswerStep(r)
      PROVE  HoldsLive(t)'
  BY <1>1, ZenonT(60)
  DEF BeginAdminStep, LookCacheStep, LookRedisStep, CacheHitStep, DropExpiredStep,
      FillCacheStep, FillRedisStep, AnswerStep, HoldsLive, Holding, Moved, Others, SameSession,
      Passed, Left, Began, Serving, At
<1>2. ASSUME NEW r \in Request,
             \/ CheckPasswordStep(r) \/ PutSQLStep(r) \/ PutRedisStep(r) \/ PutIndexStep(r)
             \/ PutCacheStep(r) \/ DeleteSQLStep(r) \/ DeleteRedisStep(r)
             \/ DeleteIndexStep(r)
      PROVE  HoldsLive(t)'
  BY <1>2
  DEF CheckPasswordStep, PutSQLStep, PutRedisStep, PutIndexStep, PutCacheStep, DeleteSQLStep,
      DeleteRedisStep, DeleteIndexStep, HoldsLive, Holding, Moved, Others, SameSession, Taken,
      Left, Began, Putting, LoggingOut, At
<1>3. ASSUME NEW r \in Request,
             \/ DeleteCacheStep(r) \/ PutPasswordStep(r) \/ RevokeSQLStep(r)
             \/ RevokeListStep(r) \/ RevokeIndexStep(r) \/ RevokeCacheStep(r)
      PROVE  HoldsLive(t)'
  BY <1>3
  DEF DeleteCacheStep, PutPasswordStep, RevokeSQLStep, RevokeListStep, RevokeIndexStep,
      RevokeCacheStep, HoldsLive, Holding, Moved, Others, SameSession, Todo, Taken, Left,
      Began, LoggingOut, RevokingOthers, At
<1>4. ASSUME NEW r \in Request, NEW u \in Token, BeginLoginStep(r, u) PROVE HoldsLive(t)'
  BY <1>4 DEF BeginLoginStep, HoldsLive, Holding, Others, Began
<1>5. ASSUME NEW r \in Request, NEW u \in Token, NEW o \in {"use", "logout", "password"},
             BeginWithStep(r, o, u)
      PROVE  HoldsLive(t)'
  BY <1>5 DEF BeginWithStep, HoldsLive, Holding, Others, Began
<1>6. ASSUME NEW r \in Request, NEW u \in Token, RevokeRedisStep(r, u) PROVE HoldsLive(t)'
  BY <1>6 DEF RevokeRedisStep, HoldsLive, Holding, Others, SameSession, Todo, RevokingOthers, At
<1>7. ASSUME NEW r \in Request, LookSQLStep(r) PROVE HoldsLive(t)'
  <2>1. req[r].token = t /\ req'[r].pc \in Holding => ~(sql[t] <= now) /\ req'[r].exp = sql[t]
    <3>1. req'[r].pc \in Holding => Moved(r, "fill cache", sql[req[r].token])
                                    /\ ~(sql[req[r].token] <= now)
      BY <1>7 DEF LookSQLStep, Moved, Holding
    <3> QED
      BY <3>1 DEF Moved
  <2>2. req[r].token = t /\ req'[r].pc \in Holding => req'[r].exp > now
    BY <2>1 DEF LiveContext, Context
  <2>3. Others(r) /\ SameSession(r) /\ UNCHANGED now
    BY <1>7 DEF LookSQLStep, Moved
  <2> QED
    BY <2>2, <2>3 DEF HoldsLive, Others, SameSession
<1>8. ASSUME TickStep PROVE HoldsLive(t)'
  BY <1>8, TickRaces, SMTT(30) DEF TickStep, Ticked, HoldsLive, LiveContext, Context
<1> QED
  BY <1>1, <1>2, <1>3, <1>4, <1>5, <1>6, <1>7, <1>8, Zenon DEF Step

\* DropsOld is kept: the table had what was promised, and who renews t was
\* promised more.
LEMMA DropsOldKept ==
    ASSUME NEW t \in Token, t \notin raced', LiveContext(t), DropsOld(t), RenewsLive(t),
           InTable(t), Step
    PROVE  DropsOld(t)'
<1>1. ASSUME NEW r \in Request,
             \/ BeginAdminStep(r) \/ LookCacheStep(r) \/ LookRedisStep(r) \/ CacheHitStep(r)
             \/ DropExpiredStep(r) \/ FillCacheStep(r) \/ FillRedisStep(r)
      PROVE  DropsOld(t)'
  BY <1>1
  DEF BeginAdminStep, LookCacheStep, LookRedisStep, CacheHitStep, DropExpiredStep,
      FillCacheStep, FillRedisStep, DropsOld, Moved, Others, SameSession, Passed, Began,
      Serving, At
<1>2. ASSUME NEW r \in Request,
             \/ AnswerStep(r) \/ CheckPasswordStep(r) \/ PutSQLStep(r) \/ PutRedisStep(r)
             \/ PutIndexStep(r) \/ DeleteSQLStep(r) \/ DeleteRedisStep(r)
      PROVE  DropsOld(t)'
  BY <1>2
  DEF AnswerStep, CheckPasswordStep, PutSQLStep, PutRedisStep, PutIndexStep, DeleteSQLStep,
      DeleteRedisStep, DropsOld, Moved, Others, SameSession, Taken, Left, Began, Putting,
      LoggingOut, At
<1>3. ASSUME NEW r \in Request,
             \/ DeleteIndexStep(r) \/ DeleteCacheStep(r) \/ PutPasswordStep(r)
             \/ RevokeSQLStep(r) \/ RevokeListStep(r) \/ RevokeIndexStep(r)
             \/ RevokeCacheStep(r)
      PROVE  DropsOld(t)'
  BY <1>3
  DEF DeleteIndexStep, DeleteCacheStep, PutPasswordStep, RevokeSQLStep, RevokeListStep,
      RevokeIndexStep, RevokeCacheStep, DropsOld, Moved, Others, SameSession, Todo, Taken,
      Left, Began, LoggingOut, RevokingOthers, At
<1>4. ASSUME NEW r \in Request, NEW u \in Token, BeginLoginStep(r, u) PROVE DropsOld(t)'
  BY <1>4 DEF BeginLoginStep, DropsOld, Others, Began
<1>5. ASSUME NEW r \in Request, NEW u \in Token, NEW o \in {"use", "logout", "password"},
             BeginWithStep(r, o, u)
      PROVE  DropsOld(t)'
  BY <1>5 DEF BeginWithStep, DropsOld, Others, Began
<1>6. ASSUME NEW r \in Request, NEW u \in Token, RevokeRedisStep(r, u) PROVE DropsOld(t)'
  BY <1>6 DEF RevokeRedisStep, DropsOld, Others, SameSession, Todo, RevokingOthers, At
<1>7. ASSUME NEW r \in Request, LookSQLStep(r) PROVE DropsOld(t)'
  <2>1. req[r].token = t /\ req'[r].pc = "expired" => sql[t] <= now
    BY <1>7 DEF LookSQLStep, Moved
  <2>2. req[r].token = t /\ req'[r].pc = "expired" /\ t \notin revoking => promised[t] <= now
    BY <2>1 DEF InTable, LiveContext, Context
  <2>3. Others(r) /\ SameSession(r) /\ UNCHANGED <<now, promised, revoking>>
    BY <1>7 DEF LookSQLStep, Moved
  <2> QED
    BY <2>2, <2>3 DEF DropsOld, Others, SameSession
<1>8. ASSUME NEW r \in Request, PutCacheStep(r) PROVE DropsOld(t)'
  <2>1. CASE req[r].token = t
    <3>1. ASSUME NEW q \in Request, req[q].token = t, req[q].pc = "expired" PROVE t \in revoking
      <4>1. promised[t] # 0
        BY <3>1 DEF LiveContext
      <4>2. promised[t] > now
        BY <1>8, <2>1, <4>1 DEF LiveContext, RenewsLive, PutCacheStep, Putting, At, Renewing
      <4> QED
        BY <3>1, <4>2 DEF DropsOld, LiveContext, Context
    <3>2. UNCHANGED revoking /\ \A q \in Request : req'[q].pc = "expired" => req'[q] = req[q]
      BY <1>8 DEF PutCacheStep, Left, Began, Moved, Others
    <3> QED
      BY <3>1, <3>2 DEF DropsOld
  <2>2. CASE req[r].token # t
    <3>1. promised'[t] = promised[t] /\ UNCHANGED <<now, revoking>>
      BY <1>8, <2>2 DEF PutCacheStep, LiveContext, Context
    <3>2. \A q \in Request : req'[q].pc = "expired" => req'[q] = req[q]
      BY <1>8 DEF PutCacheStep, Left, Began, Moved, Others
    <3> QED
      BY <3>1, <3>2 DEF DropsOld
  <2> QED
    BY <2>1, <2>2
<1>9. ASSUME TickStep PROVE DropsOld(t)'
  BY <1>9, TickRaces, SMTT(30) DEF TickStep, Ticked, LiveContext, Context, DropsOld
<1> QED
  BY <1>1, <1>2, <1>3, <1>4, <1>5, <1>6, <1>7, <1>8, <1>9, Zenon DEF Step

\* RenewsInTable is kept: only an expired row or one that is taken out is
\* deleted.
LEMMA RenewsInTableKept ==
    ASSUME NEW t \in Token, t \notin raced', LiveContext(t), RenewsWhole(t), RenewsLive(t),
           DropsOld(t), RenewsInTable(t), Step
    PROVE  RenewsInTable(t)'
<1>1. ASSUME NEW r \in Request,
             \/ BeginAdminStep(r) \/ LookCacheStep(r) \/ LookRedisStep(r) \/ CacheHitStep(r)
             \/ LookSQLStep(r) \/ FillCacheStep(r)
      PROVE  RenewsInTable(t)'
  BY <1>1
  DEF BeginAdminStep, LookCacheStep, LookRedisStep, CacheHitStep, LookSQLStep, FillCacheStep,
      RenewsInTable, Moved, Others, SameSession, Passed, Began, Serving, At
<1>2. ASSUME NEW r \in Request,
             \/ FillRedisStep(r) \/ AnswerStep(r) \/ PutRedisStep(r) \/ PutIndexStep(r)
             \/ PutCacheStep(r) \/ DeleteRedisStep(r)
      PROVE  RenewsInTable(t)'
  BY <1>2
  DEF FillRedisStep, AnswerStep, PutRedisStep, PutIndexStep, PutCacheStep, DeleteRedisStep,
      RenewsInTable, Moved, Others, SameSession, Passed, Left, Began, Serving, Putting,
      LoggingOut, At
<1>3. ASSUME NEW r \in Request,
             \/ DeleteIndexStep(r) \/ DeleteCacheStep(r) \/ PutPasswordStep(r)
             \/ RevokeListStep(r) \/ RevokeIndexStep(r) \/ RevokeCacheStep(r)
      PROVE  RenewsInTable(t)'
  BY <1>3
  DEF DeleteIndexStep, DeleteCacheStep, PutPasswordStep, RevokeListStep, RevokeIndexStep,
      RevokeCacheStep, RenewsInTable, Moved, Others, SameSession, Todo, Left, Began,
      LoggingOut, RevokingOthers, At
<1>4. ASSUME NEW r \in Request, NEW u \in Token, BeginLoginStep(r, u) PROVE RenewsInTable(t)'
  BY <1>4 DEF BeginLoginStep, RenewsInTable, Others, Began
<1>5. ASSUME NEW r \in Request, NEW u \in Token, NEW o \in {"use", "logout", "password"},
             BeginWithStep(r, o, u)
      PROVE  RenewsInTable(t)'
  BY <1>5 DEF BeginWithStep, RenewsInTable, Others, Began
<1>6. ASSUME NEW r \in Request, NEW u \in Token, RevokeRedisStep(r, u) PROVE RenewsInTable(t)'
  BY <1>6 DEF RevokeRedisStep, RenewsInTable, Others, SameSession, Todo, RevokingOthers, At
<1>7. ASSUME NEW r \in Request, DropExpiredStep(r) PROVE RenewsInTable(t)'
  <2>1. ASSUME t \notin revoking, NEW q \in Request, req[q].token = t, req[q].pc \in Renewing
        PROVE  req[r].token # t
    <3>1. SUFFICES ASSUME req[r].token = t PROVE FALSE
      OBVIOUS
    <3>2. promised[t] # 0 /\ promised[t] <= now
      BY <1>7, <2>1, <3>1 DEF DropsOld, LiveContext, DropExpiredStep, Serving, At
    <3> QED
      BY <2>1, <3>2 DEF RenewsLive, LiveContext, Context
  <2>2. req[r].token # t => sql'[t] = sql[t]
    BY <1>7 DEF DropExpiredStep, LiveContext, Context
  <2>3. UNCHANGED revoking
        /\ \A q \in Request : req'[q].pc \in {"put redis", "put index", "put cache"}
           => req'[q] = req[q]
    BY <1>7 DEF DropExpiredStep, Moved, Others
  <2> QED
    BY <2>1, <2>2, <2>3 DEF RenewsInTable, Renewing
<1>8. ASSUME NEW r \in Request, CheckPasswordStep(r) PROVE RenewsInTable(t)'
  <2>1. sql[t] > now => sql'[t] = sql[t]
    BY <1>8 DEF CheckPasswordStep, LiveContext, Context
  <2>2. now + TTL > now
    BY DEF LiveContext, Context, TTL
  <2>3. \A q \in Request : req[q].token = t
        /\ req[q].pc \in {"put redis", "put index", "put cache"} /\ t \notin revoking
            => sql'[t] >= req[q].exp
    <3>1. SUFFICES ASSUME NEW q \in Request, req[q].token = t, t \notin revoking,
                          req[q].pc \in {"put redis", "put index", "put cache"}
                   PROVE  sql'[t] >= req[q].exp
      OBVIOUS
    <3>2. req[q].exp = now + TTL /\ sql[t] >= req[q].exp
      BY <3>1 DEF RenewsWhole, RenewsInTable, Renewing
    <3>3. sql[t] > now
      BY <2>2, <3>2 DEF LiveContext, Context, TTL
    <3> QED
      BY <2>1, <3>2, <3>3
  <2>4. UNCHANGED revoking
        /\ \A q \in Request : req'[q].pc \in {"put redis", "put index", "put cache"}
           => req'[q] = req[q]
    BY <1>8 DEF CheckPasswordStep, Left, Began, Moved, Others
  <2> QED
    BY <2>3, <2>4 DEF RenewsInTable
<1>9. ASSUME NEW r \in Request, PutSQLStep(r) PROVE RenewsInTable(t)'
  <2>1. CASE req[r].token = t
    <3>1. sql'[t] = now + TTL
      BY <1>9, <2>1 DEF PutSQLStep, Races, RenewsWhole, Renewing, Putting, At, LiveContext, Context
    <3>2. \A q \in Request : req'[q].token = t
          /\ req'[q].pc \in {"put redis", "put index", "put cache"} => req'[q].exp = now + TTL
      BY <1>9, ZenonT(60) DEF PutSQLStep, RenewsWhole, Renewing, Putting, At, Moved, Others, SameSession
    <3>3. now + TTL >= now + TTL
      BY DEF TTL, LiveContext, Context
    <3> QED
      BY <3>1, <3>2, <3>3 DEF RenewsInTable
  <2>2. CASE req[r].token # t
    <3>1. sql'[t] = sql[t] /\ UNCHANGED revoking
      BY <1>9, <2>2 DEF PutSQLStep, LiveContext, Context
    <3>2. \A q \in Request : req'[q].token = t => req'[q] = req[q]
      BY <1>9, <2>2 DEF PutSQLStep, Moved, Others, SameSession
    <3> QED
      BY <3>1, <3>2 DEF RenewsInTable
  <2> QED
    BY <2>1, <2>2
<1>10. ASSUME NEW r \in Request, DeleteSQLStep(r) PROVE RenewsInTable(t)'
  <2>1. t \notin revoking' => (t \notin Used \/ sql'[t] = sql[t]) /\ t \notin revoking
    BY <1>10 DEF DeleteSQLStep, Taken, LoggingOut, LiveContext, Context
  <2>2. \A q \in Request : req'[q].token = req[q].token /\ req'[q].exp = req[q].exp
                            /\ (req'[q].pc \in {"put redis", "put index", "put cache"}
                               => req'[q].pc = req[q].pc)
    BY <1>10 DEF DeleteSQLStep, Taken, Others, SameSession
  <2>3. t \notin Used => \A q \in Request : req[q].token # t
    BY DEF Used
  <2> QED
    BY <2>1, <2>2, <2>3 DEF RenewsInTable
<1>11. ASSUME NEW r \in Request, RevokeSQLStep(r) PROVE RenewsInTable(t)'
  <2>1. t \notin revoking' => (t \notin Used \/ sql'[t] = sql[t]) /\ t \notin revoking
    BY <1>11 DEF RevokeSQLStep, Taken, Kept, LiveContext, Context
  <2>2. \A q \in Request : req'[q].token = req[q].token /\ req'[q].exp = req[q].exp
                            /\ (req'[q].pc \in {"put redis", "put index", "put cache"}
                               => req'[q].pc = req[q].pc)
    BY <1>11 DEF RevokeSQLStep, Taken, Others, SameSession
  <2>3. t \notin Used => \A q \in Request : req[q].token # t
    BY DEF Used
  <2> QED
    BY <2>1, <2>2, <2>3 DEF RenewsInTable
<1>12. ASSUME TickStep PROVE RenewsInTable(t)'
  BY <1>12, TickRaces DEF TickStep, Ticked, LiveContext, Context, RenewsInTable, Renewing
<1> QED
  BY <1>1, <1>2, <1>3, <1>4, <1>5, <1>6, <1>7, <1>8, <1>9, <1>10, <1>11, <1>12, Zenon DEF Step

\* InTable is kept: PutCache promises what PutSQL has written.
LEMMA InTableKept ==
    ASSUME NEW t \in Token, t \notin raced', LiveContext(t), RenewsWhole(t), DropsOld(t),
           RenewsInTable(t), InTable(t), Step
    PROVE  InTable(t)'
<1>1. ASSUME NEW r \in Request,
             \/ BeginAdminStep(r) \/ LookCacheStep(r) \/ LookRedisStep(r) \/ CacheHitStep(r)
             \/ LookSQLStep(r) \/ FillCacheStep(r)
      PROVE  InTable(t)'
  BY <1>1
  DEF BeginAdminStep, LookCacheStep, LookRedisStep, CacheHitStep, LookSQLStep, FillCacheStep,
      InTable, Moved, Others, SameSession, Passed, Began, Serving, At
<1>2. ASSUME NEW r \in Request,
             \/ FillRedisStep(r) \/ AnswerStep(r) \/ PutRedisStep(r) \/ PutIndexStep(r)
             \/ DeleteRedisStep(r) \/ DeleteIndexStep(r)
      PROVE  InTable(t)'
  BY <1>2
  DEF FillRedisStep, AnswerStep, PutRedisStep, PutIndexStep, DeleteRedisStep, DeleteIndexStep,
      InTable, Moved, Others, SameSession, Passed, Left, Began, Serving, Putting, LoggingOut,
      At
<1>3. ASSUME NEW r \in Request,
             \/ DeleteCacheStep(r) \/ PutPasswordStep(r) \/ RevokeListStep(r)
             \/ RevokeIndexStep(r) \/ RevokeCacheStep(r)
      PROVE  InTable(t)'
  BY <1>3
  DEF DeleteCacheStep, PutPasswordStep, RevokeListStep, RevokeIndexStep, RevokeCacheStep,
      InTable, Moved, Others, SameSession, Todo, Left, Began, LoggingOut, RevokingOthers, At
<1>4. ASSUME NEW r \in Request, NEW u \in Token, BeginLoginStep(r, u) PROVE InTable(t)'
  BY <1>4 DEF BeginLoginStep, InTable, Others, Began
<1>5. ASSUME NEW r \in Request, NEW u \in Token, NEW o \in {"use", "logout", "password"},
             BeginWithStep(r, o, u)
      PROVE  InTable(t)'
  BY <1>5 DEF BeginWithStep, InTable, Others, Began
<1>6. ASSUME NEW r \in Request, NEW u \in Token, RevokeRedisStep(r, u) PROVE InTable(t)'
  BY <1>6 DEF RevokeRedisStep, InTable, Others, SameSession, Todo, RevokingOthers, At
<1>7. ASSUME NEW r \in Request, DropExpiredStep(r) PROVE InTable(t)'
  BY <1>7 DEF DropExpiredStep, Serving, At, DropsOld, InTable, LiveContext, Context
<1>8. ASSUME NEW r \in Request, CheckPasswordStep(r) PROVE InTable(t)'
  BY <1>8 DEF CheckPasswordStep, InTable, LiveContext, Context
<1>9. ASSUME NEW r \in Request, PutSQLStep(r) PROVE InTable(t)'
  BY <1>9 DEF PutSQLStep, Putting, At, RenewsWhole, Renewing, InTable, LiveContext, Context
<1>10. ASSUME NEW r \in Request, PutCacheStep(r) PROVE InTable(t)'
  BY <1>10 DEF PutCacheStep, Putting, At, RenewsInTable, InTable, LiveContext, Context
<1>11. ASSUME NEW r \in Request, DeleteSQLStep(r) PROVE InTable(t)'
  <2>1. t \notin revoking' => (t \notin Used \/ sql'[t] = sql[t]) /\ t \notin revoking
    BY <1>11 DEF DeleteSQLStep, Taken, LoggingOut, LiveContext, Context
  <2>2. promised[t] > now => t \in Used
    BY DEF Used, LiveContext, Context
  <2> QED
    BY <1>11, <2>1, <2>2 DEF DeleteSQLStep, InTable
<1>12. ASSUME NEW r \in Request, RevokeSQLStep(r) PROVE InTable(t)'
  <2>1. t \notin revoking' => (t \notin Used \/ sql'[t] = sql[t]) /\ t \notin revoking
    BY <1>12 DEF RevokeSQLStep, Taken, Kept, LiveContext, Context
  <2>2. promised[t] > now => t \in Used
    BY DEF Used, LiveContext, Context
  <2> QED
    BY <1>12, <2>1, <2>2 DEF RevokeSQLStep, InTable
<1>13. ASSUME TickStep PROVE InTable(t)'
  BY <1>13 DEF TickStep, InTable, LiveContext, Context
<1> QED
  BY <1>1, <1>2, <1>3, <1>4, <1>5, <1>6, <1>7, <1>8, <1>9, <1>10, <1>11, <1>12, <1>13, Zenon
  DEF Step

\* Served is kept: only a lookup that finds nothing, or an expired row, refuses.
LEMMA ServedKept ==
    ASSUME NEW t \in Token, t \notin raced', LiveContext(t), HoldsLive(t), DropsOld(t),
           InTable(t), Served(t), Step
    PROVE  Served(t)'
<1>1. ASSUME NEW r \in Request,
             \/ BeginAdminStep(r) \/ LookRedisStep(r) \/ FillCacheStep(r) \/ AnswerStep(r)
             \/ CheckPasswordStep(r) \/ PutSQLStep(r)
      PROVE  Served(t)'
  BY <1>1
  DEF BeginAdminStep, LookRedisStep, FillCacheStep, AnswerStep, CheckPasswordStep, PutSQLStep,
      Served, Moved, Others, SameSession, Left, Began, Serving, Putting, At
<1>2. ASSUME NEW r \in Request,
             \/ PutRedisStep(r) \/ PutIndexStep(r) \/ PutCacheStep(r) \/ DeleteSQLStep(r)
             \/ DeleteRedisStep(r) \/ DeleteIndexStep(r)
      PROVE  Served(t)'
  BY <1>2
  DEF PutRedisStep, PutIndexStep, PutCacheStep, DeleteSQLStep, DeleteRedisStep,
      DeleteIndexStep, Served, Moved, Others, SameSession, Taken, Left, Began, Putting,
      LoggingOut, At
<1>3. ASSUME NEW r \in Request,
             \/ DeleteCacheStep(r) \/ PutPasswordStep(r) \/ RevokeSQLStep(r)
             \/ RevokeListStep(r) \/ RevokeIndexStep(r) \/ RevokeCacheStep(r)
      PROVE  Served(t)'
  BY <1>3
  DEF DeleteCacheStep, PutPasswordStep, RevokeSQLStep, RevokeListStep, RevokeIndexStep,
      RevokeCacheStep, Served, Moved, Others, SameSession, Todo, Taken, Left, Began,
      LoggingOut, RevokingOthers, At
<1>4. ASSUME NEW r \in Request, NEW u \in Token, BeginLoginStep(r, u) PROVE Served(t)'
  BY <1>4 DEF BeginLoginStep, Served, Others, Began
<1>5. ASSUME NEW r \in Request, NEW u \in Token, NEW o \in {"use", "logout", "password"},
             BeginWithStep(r, o, u)
      PROVE  Served(t)'
  BY <1>5 DEF BeginWithStep, Served, Others, Began
<1>6. ASSUME NEW r \in Request, NEW u \in Token, RevokeRedisStep(r, u) PROVE Served(t)'
  BY <1>6 DEF RevokeRedisStep, Served, Others, SameSession, Todo, RevokingOthers, At
<1>7. ASSUME NEW r \in Request, LookCacheStep(r) PROVE Served(t)'
  <2>1. req[r].token = t /\ req'[r].pc = "refused" => cache[t] <= now /\ cache[t] > now
    BY <1>7 DEF LookCacheStep, Serving, At, HoldsLive, Holding, Passed, Moved
  <2>2. req[r].token = t => req'[r].pc # "refused"
    BY <2>1 DEF LiveContext, Context
  <2>3. Others(r) /\ SameSession(r) /\ UNCHANGED <<now, revoking>>
    BY <1>7 DEF LookCacheStep, Passed, Moved
  <2> QED
    BY <2>2, <2>3 DEF Served, Others, SameSession
<1>8. ASSUME NEW r \in Request, CacheHitStep(r) PROVE Served(t)'
  <2>1. req[r].token = t /\ req'[r].pc = "refused" => req[r].exp <= now /\ req[r].exp > now
    BY <1>8 DEF CacheHitStep, Serving, At, HoldsLive, Holding, Passed, Moved
  <2>2. req[r].token = t => req'[r].pc # "refused"
    BY <2>1 DEF LiveContext, Context
  <2>3. Others(r) /\ SameSession(r) /\ UNCHANGED <<now, revoking>>
    BY <1>8 DEF CacheHitStep, Passed, Moved
  <2> QED
    BY <2>2, <2>3 DEF Served, Others, SameSession
<1>9. ASSUME NEW r \in Request, LookSQLStep(r) PROVE Served(t)'
  <2>1. req[r].token = t /\ req'[r].pc = "refused" => sql[t] = 0
    BY <1>9 DEF LookSQLStep, Races, Moved
  <2>2. req[r].token = t /\ req'[r].pc = "refused" /\ t \notin revoking => req[r].due <= now
    BY <2>1 DEF InTable, LiveContext, Context
  <2>3. Others(r) /\ SameSession(r) /\ UNCHANGED <<now, revoking>>
    BY <1>9 DEF LookSQLStep, Moved
  <2> QED
    BY <2>2, <2>3 DEF Served, Others, SameSession
<1>10. ASSUME NEW r \in Request, DropExpiredStep(r) PROVE Served(t)'
  <2>1. req[r].token = t /\ t \notin revoking => req[r].due <= now
    BY <1>10 DEF DropExpiredStep, Serving, At, DropsOld, LiveContext, Context
  <2>2. Others(r) /\ SameSession(r) /\ UNCHANGED <<now, revoking>>
    BY <1>10 DEF DropExpiredStep, Moved
  <2> QED
    BY <2>1, <2>2 DEF Served, Others, SameSession
<1>11. ASSUME NEW r \in Request, FillRedisStep(r) PROVE Served(t)'
  <2>1. req[r].token = t /\ req'[r].pc = "refused" => req[r].exp <= now /\ req[r].exp > now
    BY <1>11 DEF FillRedisStep, Serving, At, HoldsLive, Holding, Passed, Moved
  <2>2. req[r].token = t => req'[r].pc # "refused"
    BY <2>1 DEF LiveContext, Context
  <2>3. Others(r) /\ SameSession(r) /\ UNCHANGED <<now, revoking>>
    BY <1>11 DEF FillRedisStep, Passed, Moved
  <2> QED
    BY <2>2, <2>3 DEF Served, Others, SameSession
<1>12. ASSUME TickStep PROVE Served(t)'
  BY <1>12, TickRaces DEF TickStep, Ticked, LiveContext, Context, Served
<1> QED
  BY <1>1, <1>2, <1>3, <1>4, <1>5, <1>6, <1>7, <1>8, <1>9, <1>10, <1>11, <1>12, ZenonT(60) DEF Step

\* Behind is kept when the tiers lose t or keep it, and lookups and renewals of t
\* go on.
LEMMA BehindShrinks ==
    ASSUME NEW t \in Token, LiveContext(t), Behind(t), promised'[t] = promised[t],
           sql'[t] \in {sql[t], 0}, redis'[t] \in {redis[t], 0}, cache'[t] \in {cache[t], 0},
           \A q \in Request : req'[q].token = t /\ req'[q].pc \in Holding
               => req[q].token = t /\ req[q].pc \in Holding /\ req'[q].exp = req[q].exp,
           \A q \in Request : req[q].token = t /\ req[q].pc \in Renewing
               => req'[q].token = t /\ req'[q].pc \in Renewing
    PROVE  Behind(t)'
  BY DEF Behind, LiveContext, Context

\* Behind is kept: PutCache ends a renewal by promising a whole TTL, which no
\* tier exceeds.
LEMMA BehindIsKept ==
    ASSUME NEW t \in Token, t \notin raced', LiveContext(t), RenewsWhole(t), HoldsLive(t),
           Behind(t), Step
    PROVE  Behind(t)'
<1>1. ASSUME NEW r \in Request,
             \/ BeginAdminStep(r) \/ AnswerStep(r)
      PROVE  Behind(t)'
  BY <1>1
  DEF BeginAdminStep, AnswerStep, Behind, Renewing, Holding, LiveContext, Context, Others,
      Left, Began
<1>2. ASSUME NEW r \in Request,
             \/ DeleteIndexStep(r) \/ PutPasswordStep(r)
      PROVE  Behind(t)'
  BY <1>2
  DEF DeleteIndexStep, PutPasswordStep, Behind, Renewing, Holding, LiveContext, Context,
      Moved, Others, SameSession, Left, Began, LoggingOut, At
<1>3. ASSUME NEW r \in Request,
             \/ RevokeListStep(r) \/ RevokeIndexStep(r)
      PROVE  Behind(t)'
  BY <1>3
  DEF RevokeListStep, RevokeIndexStep, Behind, Renewing, Holding, LiveContext, Context, Moved,
      Others, SameSession, Todo, RevokingOthers, At
<1>4. ASSUME NEW r \in Request, NEW u \in Token, BeginLoginStep(r, u) PROVE Behind(t)'
  BY <1>4 DEF BeginLoginStep, Behind, Renewing, Holding, LiveContext, Context, Others, Began
<1>5. ASSUME NEW r \in Request, NEW u \in Token, NEW o \in {"use", "logout", "password"},
             BeginWithStep(r, o, u)
      PROVE  Behind(t)'
  BY <1>5 DEF BeginWithStep, Behind, Renewing, Holding, LiveContext, Context, Others, Began
<1>6. ASSUME NEW r \in Request, LookCacheStep(r) PROVE Behind(t)'
  <2>1. promised'[t] = promised[t] /\ sql'[t] \in {sql[t], 0} /\ redis'[t] \in {redis[t], 0}
        /\ cache'[t] \in {cache[t], 0}
    BY <1>6 DEF LookCacheStep, Serving, LiveContext, Context
  <2>2. \A q \in Request : req'[q].token = t /\ req'[q].pc \in Holding
            => req[q].token = t /\ req[q].pc \in Holding /\ req'[q].exp = req[q].exp
    BY <1>6 DEF LookCacheStep, Holding, Moved, Others, SameSession, Passed, Serving, At
  <2>3. \A q \in Request : req[q].token = t /\ req[q].pc \in Renewing => req'[q].token = t
        /\ req'[q].pc \in Renewing
    BY <1>6 DEF LookCacheStep, Renewing, Moved, Others, SameSession, Passed, Serving, At
  <2> QED
    BY <2>1, <2>2, <2>3, BehindShrinks
<1>7. ASSUME NEW r \in Request, LookRedisStep(r) PROVE Behind(t)'
  BY <1>7, ZenonT(60)
  DEF LookRedisStep, Behind, Renewing, Holding, LiveContext, Context, Moved, Others,
      SameSession, Serving, At
<1>8. ASSUME NEW r \in Request, CacheHitStep(r) PROVE Behind(t)'
  BY <1>8
  DEF CacheHitStep, Behind, Renewing, Holding, LiveContext, Context, Moved, Others,
      SameSession, Passed, Serving, At
<1>9. ASSUME NEW r \in Request, LookSQLStep(r) PROVE Behind(t)'
  BY <1>9, ZenonT(60)
  DEF LookSQLStep, Behind, Renewing, Holding, LiveContext, Context, Moved, Others, SameSession,
      Serving, At
<1>10. ASSUME NEW r \in Request, DropExpiredStep(r) PROVE Behind(t)'
  <2>1. promised'[t] = promised[t] /\ sql'[t] \in {sql[t], 0} /\ redis'[t] \in {redis[t], 0}
        /\ cache'[t] \in {cache[t], 0}
    BY <1>10 DEF DropExpiredStep, Serving, LiveContext, Context
  <2>2. \A q \in Request : req'[q].token = t /\ req'[q].pc \in Holding
            => req[q].token = t /\ req[q].pc \in Holding /\ req'[q].exp = req[q].exp
    BY <1>10 DEF DropExpiredStep, Holding, Moved, Others, SameSession, Serving, At
  <2>3. \A q \in Request : req[q].token = t /\ req[q].pc \in Renewing => req'[q].token = t
        /\ req'[q].pc \in Renewing
    BY <1>10 DEF DropExpiredStep, Renewing, Moved, Others, SameSession, Serving, At
  <2> QED
    BY <2>1, <2>2, <2>3, BehindShrinks
<1>11. ASSUME NEW r \in Request, FillCacheStep(r) PROVE Behind(t)'
  BY <1>11, ZenonT(60)
  DEF FillCacheStep, Behind, Renewing, Holding, LiveContext, Context, Moved, Others,
      SameSession, Serving, At
<1>12. ASSUME NEW r \in Request, FillRedisStep(r) PROVE Behind(t)'
  BY <1>12
  DEF FillRedisStep, Behind, Renewing, Holding, LiveContext, Context, Moved, Others,
      SameSession, Passed, Serving, At
<1>13. ASSUME NEW r \in Request, CheckPasswordStep(r) PROVE Behind(t)'
  <2>1. promised'[t] = promised[t] /\ sql'[t] \in {sql[t], 0} /\ redis'[t] \in {redis[t], 0}
        /\ cache'[t] \in {cache[t], 0}
    BY <1>13 DEF CheckPasswordStep, LiveContext, Context
  <2>2. \A q \in Request : req'[q].token = t /\ req'[q].pc \in Holding
            => req[q].token = t /\ req[q].pc \in Holding /\ req'[q].exp = req[q].exp
    BY <1>13 DEF CheckPasswordStep, Holding, Moved, Others, SameSession, Left, Began, At
  <2>3. \A q \in Request : req[q].token = t /\ req[q].pc \in Renewing => req'[q].token = t
        /\ req'[q].pc \in Renewing
    BY <1>13 DEF CheckPasswordStep, Renewing, Moved, Others, SameSession, Left, Began, At
  <2> QED
    BY <2>1, <2>2, <2>3, BehindShrinks
<1>14. ASSUME NEW r \in Request, PutSQLStep(r) PROVE Behind(t)'
  <2>1. CASE req[r].token = t
    BY <1>14, <2>1 DEF PutSQLStep, Moved, SameSession, Behind, Renewing
  <2>2. CASE req[r].token # t
    BY <1>14, <2>2
    DEF PutSQLStep, Moved, SameSession, Others, Behind, Renewing, LiveContext, Context
  <2> QED
    BY <2>1, <2>2
<1>15. ASSUME NEW r \in Request, PutRedisStep(r) PROVE Behind(t)'
  BY <1>15, ZenonT(60)
  DEF PutRedisStep, Behind, Renewing, Holding, LiveContext, Context, Moved, Others,
      SameSession, Putting, At
<1>16. ASSUME NEW r \in Request, PutIndexStep(r) PROVE Behind(t)'
  <2>1. promised'[t] = promised[t] /\ sql'[t] = sql[t] /\ redis'[t] = redis[t] /\ cache'[t] = cache[t]
    BY <1>16 DEF PutIndexStep
  <2>2. \A q \in Request : req'[q].token = t /\ req'[q].pc \in Holding
            => req[q].token = t /\ req[q].pc \in Holding /\ req'[q].exp = req[q].exp
    BY <1>16 DEF PutIndexStep, Holding, Moved, Others, SameSession, Putting, At
  <2>3. \A q \in Request : req[q].token = t /\ req[q].pc \in Renewing => req'[q].token = t
        /\ req'[q].pc \in Renewing
    BY <1>16 DEF PutIndexStep, Renewing, Moved, Others, SameSession, Putting, At
  <2> QED
    BY <2>1, <2>2, <2>3, BehindShrinks
<1>17. ASSUME NEW r \in Request, PutCacheStep(r) PROVE Behind(t)'
  <2>1. CASE req[r].token = t
    <3>0. \/ promised'[t] = promised[t] /\ promised[t] > req[r].exp
          \/ promised'[t] = req[r].exp
      BY <1>17, <2>1 DEF PutCacheStep, Putting, LiveContext, Context
    <3>4. req[r].exp = now + TTL
      BY <1>17, <2>1 DEF PutCacheStep, Putting, At, RenewsWhole, Renewing
    <3>1. promised'[t] = now + TTL
      BY <3>0, <3>4 DEF LiveContext, Context, TTL
    <3>2. sql'[t] <= now + TTL /\ redis'[t] <= now + TTL /\ cache'[t] <= now + TTL
      BY <1>17 DEF PutCacheStep, Putting, LiveContext, Context
    <3>3. \A q \in Request : req'[q].pc \in Holding => req'[q].exp <= now + TTL
      BY <1>17 DEF PutCacheStep, Left, Began, Moved, Others, Holding, LiveContext
    <3> QED
      BY <3>1, <3>2, <3>3 DEF Behind
  <2>2. CASE req[r].token # t
    <3>1. promised'[t] = promised[t] /\ cache'[t] = cache[t] /\ UNCHANGED <<sql, redis>>
      BY <1>17, <2>2 DEF PutCacheStep, LiveContext, Context
    <3>2. \A q \in Request : (req'[q].token = t \/ req[q].token = t) => req'[q] = req[q]
      BY <1>17, <2>2
      DEF PutCacheStep, Left, Began, Moved, Others, SameSession, LiveContext, Context
    <3> QED
      BY <3>1, <3>2 DEF Behind
  <2> QED
    BY <2>1, <2>2
<1>18. ASSUME NEW r \in Request, DeleteSQLStep(r) PROVE Behind(t)'
  <2>1. promised'[t] = promised[t] /\ sql'[t] \in {sql[t], 0} /\ redis'[t] \in {redis[t], 0}
        /\ cache'[t] \in {cache[t], 0}
    BY <1>18 DEF DeleteSQLStep, Taken, LoggingOut, LiveContext, Context
  <2>2. \A q \in Request : req'[q].token = t /\ req'[q].pc \in Holding
            => req[q].token = t /\ req[q].pc \in Holding /\ req'[q].exp = req[q].exp
    BY <1>18 DEF DeleteSQLStep, Holding, Others, SameSession, Taken, LoggingOut, At
  <2>3. \A q \in Request : req[q].token = t /\ req[q].pc \in Renewing => req'[q].token = t
        /\ req'[q].pc \in Renewing
    BY <1>18 DEF DeleteSQLStep, Renewing, Others, SameSession, Taken, LoggingOut, At
  <2> QED
    BY <2>1, <2>2, <2>3, BehindShrinks
<1>19. ASSUME NEW r \in Request, DeleteRedisStep(r) PROVE Behind(t)'
  <2>1. promised'[t] = promised[t] /\ sql'[t] \in {sql[t], 0} /\ redis'[t] \in {redis[t], 0}
        /\ cache'[t] \in {cache[t], 0}
    BY <1>19 DEF DeleteRedisStep, LoggingOut, LiveContext, Context
  <2>2. \A q \in Request : req'[q].token = t /\ req'[q].pc \in Holding
            => req[q].token = t /\ req[q].pc \in Holding /\ req'[q].exp = req[q].exp
    BY <1>19
    DEF DeleteRedisStep, Holding, Moved, Others, SameSession, Left, Began, LoggingOut, At
  <2>3. \A q \in Request : req[q].token = t /\ req[q].pc \in Renewing => req'[q].token = t
        /\ req'[q].pc \in Renewing
    BY <1>19
    DEF DeleteRedisStep, Renewing, Moved, Others, SameSession, Left, Began, LoggingOut, At
  <2> QED
    BY <2>1, <2>2, <2>3, BehindShrinks
<1>20. ASSUME NEW r \in Request, DeleteCacheStep(r) PROVE Behind(t)'
  <2>1. promised'[t] = promised[t] /\ sql'[t] \in {sql[t], 0} /\ redis'[t] \in {redis[t], 0}
        /\ cache'[t] \in {cache[t], 0}
    BY <1>20 DEF DeleteCacheStep, LoggingOut, LiveContext, Context
  <2>2. \A q \in Request : req'[q].token = t /\ req'[q].pc \in Holding
            => req[q].token = t /\ req[q].pc \in Holding /\ req'[q].exp = req[q].exp
    BY <1>20 DEF DeleteCacheStep, Holding, Others, Left, Began, LoggingOut, At
  <2>3. \A q \in Request : req[q].token = t /\ req[q].pc \in Renewing => req'[q].token = t
        /\ req'[q].pc \in Renewing
    BY <1>20 DEF DeleteCacheStep, Renewing, Others, Left, Began, LoggingOut, At
  <2> QED
    BY <2>1, <2>2, <2>3, BehindShrinks
<1>21. ASSUME NEW r \in Request, RevokeSQLStep(r) PROVE Behind(t)'
  <2>1. promised'[t] = promised[t] /\ sql'[t] \in {sql[t], 0} /\ redis'[t] \in {redis[t], 0}
        /\ cache'[t] \in {cache[t], 0}
    BY <1>21 DEF RevokeSQLStep, Taken, Kept, LiveContext, Context
  <2>2. \A q \in Request : req'[q].token = t /\ req'[q].pc \in Holding
            => req[q].token = t /\ req[q].pc \in Holding /\ req'[q].exp = req[q].exp
    BY <1>21 DEF RevokeSQLStep, Holding, Others, SameSession, Taken, RevokingOthers, At
  <2>3. \A q \in Request : req[q].token = t /\ req[q].pc \in Renewing => req'[q].token = t
        /\ req'[q].pc \in Renewing
    BY <1>21 DEF RevokeSQLStep, Renewing, Others, SameSession, Taken, RevokingOthers, At
  <2> QED
    BY <2>1, <2>2, <2>3, BehindShrinks
<1>22. ASSUME NEW r \in Request, NEW u \in Token, RevokeRedisStep(r, u) PROVE Behind(t)'
  <2>1. promised'[t] = promised[t] /\ sql'[t] \in {sql[t], 0} /\ redis'[t] \in {redis[t], 0}
        /\ cache'[t] \in {cache[t], 0}
    BY <1>22 DEF RevokeRedisStep, LiveContext, Context
  <2>2. \A q \in Request : req'[q].token = t /\ req'[q].pc \in Holding
            => req[q].token = t /\ req[q].pc \in Holding /\ req'[q].exp = req[q].exp
    BY <1>22 DEF RevokeRedisStep, Holding, Others, SameSession, Todo, RevokingOthers, At
  <2>3. \A q \in Request : req[q].token = t /\ req[q].pc \in Renewing => req'[q].token = t
        /\ req'[q].pc \in Renewing
    BY <1>22 DEF RevokeRedisStep, Renewing, Others, SameSession, Todo, RevokingOthers, At
  <2> QED
    BY <2>1, <2>2, <2>3, BehindShrinks
<1>23. ASSUME NEW r \in Request, RevokeCacheStep(r) PROVE Behind(t)'
  <2>1. promised'[t] = promised[t] /\ sql'[t] \in {sql[t], 0} /\ redis'[t] \in {redis[t], 0}
        /\ cache'[t] \in {cache[t], 0}
    BY <1>23 DEF RevokeCacheStep, Kept, LiveContext, Context
  <2>2. \A q \in Request : req'[q].token = t /\ req'[q].pc \in Holding
            => req[q].token = t /\ req[q].pc \in Holding /\ req'[q].exp = req[q].exp
    BY <1>23 DEF RevokeCacheStep, Holding, Others, Left, Began, RevokingOthers, At
  <2>3. \A q \in Request : req[q].token = t /\ req[q].pc \in Renewing => req'[q].token = t
        /\ req'[q].pc \in Renewing
    BY <1>23 DEF RevokeCacheStep, Renewing, Others, Left, Began, RevokingOthers, At
  <2> QED
    BY <2>1, <2>2, <2>3, BehindShrinks
<1>24. ASSUME TickStep PROVE Behind(t)'
  BY <1>24, TickRaces DEF TickStep, Ticked, LiveContext, Context, Behind
<1> QED
  BY <1>1, <1>2, <1>3, <1>4, <1>5, <1>6, <1>7, <1>8, <1>9, <1>10, <1>11, <1>12, <1>13, <1>14,
     <1>15, <1>16, <1>17, <1>18, <1>19, <1>20, <1>21, <1>22, <1>23, <1>24, Zenon
  DEF Step

----------------------------------------------------------------------------
(* The invariant, and the theorems.                                        *)

\* What holds of a session outside the windows of LiveIsServed.
Live(t) ==
    /\ RenewsWhole(t) /\ RenewsLive(t) /\ HoldsLive(t) /\ DropsOld(t)
    /\ RenewsInTable(t) /\ Behind(t) /\ InTable(t) /\ Served(t)

\* The parts of the invariant that speak of single sessions, outside their
\* windows.
RevokedInv == \A t \in Token : t \notin exposed => Claimed(t) /\ Gone(t)
LiveInv == \A t \in Token : t \notin raced => Live(t)

\* The inductive invariant.
SessionsInv ==
    TypeInv /\ OwnersInv /\ TargetsWhere /\ RevokedInv /\ TiersBehind /\ ExpBehind /\ LiveInv

\* The types give the amounts.
LEMMA AmountFacts ==
    ASSUME TypeInv
    PROVE  Amounts
<1>1. now \in Nat /\ \A e \in Expiry : e \in Nat
  BY ClockFacts, ExpiryFacts DEF TypeInv
<1>2. \A r \in Request : req[r].exp \in Expiry
  BY DEF TypeInv, ReqInv, Record
<1>3. TiersTyped
  BY <1>1 DEF TypeInv, TiersTypeOK, TiersTyped
<1> QED
  BY <1>1, <1>2, <1>3 DEF Amounts, TiersTyped

\* The invariants give the context of every session.
LEMMA LiveContexts ==
    ASSUME TypeInv, OwnersInv, TargetsWhere, TiersBehind, ExpBehind, NEW t \in Token
    PROVE  LiveContext(t)
<1>1. Context(t) /\ Amounts
  BY Contexts, AmountFacts
<1>2. \A r \in Request : req[r].pc = "expired" => req[r].op # "login"
  BY DEF TypeInv, ReqInv, Sound, Lookup
<1>3. ASSUME NEW r \in Request, req[r].token = t
      PROVE  /\ req[r].op # "login" => promised[t] # 0
             /\ req[r].op = "login" => promised[t] = 0
             /\ req[r].due <= promised[t]
  BY <1>1, <1>3 DEF Context, OwnersInv, HeldMade, LoginAlone, DueInv
<1>4. ASSUME NEW r \in Request PROVE req[r].due \in Nat
  <2>1. req[r].due \in Expiry
    BY SMTT(30) DEF TypeInv, ReqInv, Record
  <2> QED
    BY <2>1, ExpiryFacts
<1> QED
  BY <1>1, <1>2, <1>3, <1>4 DEF LiveContext, Amounts, ExpBehind, TiersBehind, TierBehind

\* A session that has met a window of LiveIsServed stays marked.
LEMMA RacedGrows ==
    ASSUME Step
    PROVE  raced \subseteq raced'
<1>1. ASSUME NEW r \in Request,
             \/ BeginAdminStep(r) \/ LookCacheStep(r) \/ LookRedisStep(r) \/ CacheHitStep(r)
             \/ LookSQLStep(r) \/ DropExpiredStep(r) \/ FillCacheStep(r) \/ FillRedisStep(r)
             \/ AnswerStep(r) \/ CheckPasswordStep(r) \/ PutSQLStep(r) \/ PutRedisStep(r)
             \/ PutIndexStep(r) \/ PutCacheStep(r) \/ DeleteSQLStep(r) \/ DeleteRedisStep(r)
             \/ DeleteIndexStep(r) \/ DeleteCacheStep(r) \/ PutPasswordStep(r)
             \/ RevokeSQLStep(r) \/ RevokeListStep(r) \/ RevokeIndexStep(r)
             \/ RevokeCacheStep(r)
      PROVE  raced \subseteq raced'
  BY <1>1
  DEF BeginAdminStep, LookCacheStep, LookRedisStep, CacheHitStep, LookSQLStep, DropExpiredStep,
      FillCacheStep, FillRedisStep, AnswerStep, CheckPasswordStep, PutSQLStep, PutRedisStep,
      PutIndexStep, PutCacheStep, DeleteSQLStep, DeleteRedisStep, DeleteIndexStep,
      DeleteCacheStep, PutPasswordStep, RevokeSQLStep, RevokeListStep, RevokeIndexStep,
      RevokeCacheStep, Races
<1>2. ASSUME NEW r \in Request, NEW u \in Token, BeginLoginStep(r, u)
      PROVE  raced \subseteq raced'
  BY <1>2 DEF BeginLoginStep
<1>3. ASSUME NEW r \in Request, NEW u \in Token, NEW o \in {"use", "logout", "password"},
             BeginWithStep(r, o, u)
      PROVE  raced \subseteq raced'
  BY <1>3 DEF BeginWithStep
<1>4. ASSUME NEW r \in Request, NEW u \in Token, RevokeRedisStep(r, u)
      PROVE  raced \subseteq raced'
  BY <1>4 DEF RevokeRedisStep
<1>5. ASSUME TickStep PROVE raced \subseteq raced'
  BY <1>5 DEF TickStep
<1> QED
  BY <1>1, <1>2, <1>3, <1>4, <1>5, Zenon DEF Step

\* Every step keeps what holds of t outside the windows of LiveIsServed.
LEMMA LiveKept ==
    ASSUME NEW t \in Token, t \notin raced', LiveContext(t), Live(t), Step
    PROVE  Live(t)'
  BY RenewsWholeKept, RenewsLiveKept, HoldsLiveKept, DropsOldKept, RenewsInTableKept,
     BehindIsKept, InTableKept, ServedKept
  DEF Live

\* The invariant holds when the sessions of Old have been made and nothing runs.
LEMMA InvInit ==
    ASSUME Init
    PROVE  SessionsInv
<1>1. /\ sql \in [Token -> {0, TTL}] /\ redis = sql /\ cache = sql /\ promised = sql
      /\ \A r \in Request : req[r] = Idle
      /\ \A t \in Token : sql[t] # 0 <=> t \in Old
      /\ usess = Old /\ now = 0 /\ fails = 0 /\ begun = 0 /\ redisDown = FALSE /\ account = TRUE
      /\ revoking = {} /\ revoked = {} /\ exposed = {} /\ raced = {}
      /\ req = [r \in Request |-> Idle]
  BY DEF Init, TTL
<1>2. {0, TTL} \subseteq Expiry /\ 0 \in Expiry
  BY SessionsAssumption DEF Expiry, TTL
<1>3. /\ Idle.pc = "idle" /\ Idle.op = "use" /\ Idle.token = Nobody /\ Idle.exp = 0
      /\ Idle.todo = {} /\ Idle.targets = {} /\ Idle.barred = FALSE /\ Idle.due = 0
  BY DEF Idle
<1>4. TypeInv
  <2>1. TiersTypeOK /\ SetsTypeOK
    BY <1>1, <1>2 DEF TiersTypeOK, SetsTypeOK
  <2>2. FlagsTypeOK
    BY <1>1, SessionsAssumption, Zenon DEF FlagsTypeOK
  <2>5. CountTypeOK
    BY <1>1, SessionsAssumption, SMT DEF CountTypeOK
  <2>3. Idle \in Record
    BY <1>2 DEF Idle, Record, Label
  <2>4. ReqInv
    BY <1>1, <1>3, <2>3 DEF ReqInv, Sound, Lookup, Deleting, RevokingAll, Renewing
  <2> QED
    BY <2>1, <2>2, <2>4, <2>5 DEF TypeInv
<1>5. OwnersInv
  BY <1>1, <1>3
  DEF OwnersInv, HeldMade, LoginAlone, TargetsMade, RevokedMade, DueInv, BarredRevoked
<1>6. TargetsWhere
  BY <1>1, <1>3 DEF TargetsWhere, Deleting, RevokingAll
<1>7. RevokedInv
  BY <1>1, <1>3, SessionsAssumption
  DEF RevokedInv, Claimed, Gone, RevokedRefused, RevokingTaken, TakenAlone, LoginsBefore,
      AllTaken, RevokedGone, TakenGone, LoginIndexed, Indexed, RevokingAll
<1>8. TiersBehind /\ ExpBehind
  BY <1>1, <1>3 DEF TiersBehind, TierBehind, ExpBehind, TTL
<1>9. LiveInv
  <2>1. SUFFICES ASSUME NEW t \in Token PROVE Live(t)
    BY DEF LiveInv
  <2>2. \A r \in Request : req[r].token # t
    BY <1>1, <1>3, SessionsAssumption
  <2>3. /\ sql[t] \in Nat /\ promised[t] = sql[t] /\ redis[t] = sql[t] /\ cache[t] = sql[t]
        /\ sql[t] <= sql[t] /\ sql[t] >= sql[t]
    BY <1>1 DEF TTL
  <2>4. Behind(t) /\ InTable(t)
    BY <2>2, <2>3 DEF Behind, InTable
  <2> QED
    BY <2>2, <2>4 DEF Live, RenewsWhole, RenewsLive, HoldsLive, DropsOld, RenewsInTable, Served
<1> QED
  BY <1>4, <1>5, <1>6, <1>7, <1>8, <1>9 DEF SessionsInv

\* Every action keeps the invariant.
LEMMA InvNext ==
    ASSUME SessionsInv, Next
    PROVE  SessionsInv'
<1>1. TypeInv /\ OwnersInv /\ TargetsWhere /\ RevokedInv /\ TiersBehind /\ ExpBehind /\ LiveInv
  BY DEF SessionsInv
<1>2. Step
  BY <1>1, NextSteps
<1>3. TypeInv'
  BY <1>1, TiersTypeKept, FlagsTypeKept, CountTypeKept, SetsTypeKept, ReqKept DEF TypeInv
<1>4. OwnersInv' /\ TargetsWhere'
  BY <1>1, <1>2, OwnersKept, WhereKept
<1>5. RevokedInv'
  <2>1. ASSUME NEW t \in Token, t \notin exposed' PROVE (Claimed(t) /\ Gone(t))'
    <3>1. Claimed(t) /\ Gone(t)
      BY <1>1, <1>2, <2>1, ExposedGrows DEF RevokedInv
    <3> QED
      BY <1>1, <1>2, <2>1, <3>1, CleanKept
  <2> QED
    BY <2>1 DEF RevokedInv
<1>6. TiersBehind' /\ ExpBehind'
  BY <1>1, <1>2, AmountFacts, BehindKept
<1>7. LiveInv'
  <2>1. ASSUME NEW t \in Token, t \notin raced' PROVE Live(t)'
    <3>1. Live(t)
      BY <1>1, <1>2, <2>1, RacedGrows DEF LiveInv
    <3>2. LiveContext(t)
      BY <1>1, LiveContexts
    <3> QED
      BY <1>2, <2>1, <3>1, <3>2, LiveKept
  <2> QED
    BY <2>1 DEF LiveInv
<1> QED
  BY <1>3, <1>4, <1>5, <1>6, <1>7 DEF SessionsInv

\* So does a step that changes nothing.
LEMMA InvStutter ==
    ASSUME SessionsInv, UNCHANGED vars
    PROVE  SessionsInv'
<1>1. /\ UNCHANGED <<sql, redis, cache, usess, redisDown, fails, account, now, begun, req>>
      /\ UNCHANGED <<promised, revoking, revoked, exposed, raced>>
  BY DEF vars, tiers, caching, history
<1>2. TypeInv'
  BY <1>1 DEF SessionsInv, TypeInv, TiersTypeOK, FlagsTypeOK, CountTypeOK, SetsTypeOK, ReqInv
<1>3. OwnersInv' /\ TargetsWhere'
  BY <1>1
  DEF SessionsInv, OwnersInv, HeldMade, LoginAlone, TargetsMade, RevokedMade, DueInv,
      BarredRevoked, TargetsWhere, Kept
<1>4. RevokedInv'
  <2>1. ASSUME NEW t \in Token, Claimed(t) PROVE Claimed(t)'
    BY <1>1, <2>1
    DEF Claimed, RevokedRefused, RevokingTaken, TakenAlone, LoginsBefore, AllTaken, Kept
  <2>2. ASSUME NEW t \in Token, Gone(t) PROVE Gone(t)'
    BY <1>1, <2>2 DEF Gone, RevokedGone, TakenGone, LoginIndexed, Indexed
  <2> QED
    BY <1>1, <2>1, <2>2 DEF SessionsInv, RevokedInv
<1>5. TiersBehind' /\ ExpBehind'
  BY <1>1 DEF SessionsInv, TiersBehind, TierBehind, ExpBehind
<1>6. LiveInv'
  BY <1>1, ZenonT(60)
  DEF SessionsInv, LiveInv, Live, RenewsWhole, RenewsLive, HoldsLive, DropsOld, RenewsInTable,
      Behind, InTable, Served
<1> QED
  BY <1>2, <1>3, <1>4, <1>5, <1>6 DEF SessionsInv

\* The invariant holds in every reachable state, for every number of sessions and
\* requests.
LEMMA SessionsInvariant == Spec => []SessionsInv
<1>1. Init => SessionsInv
  BY InvInit
<1>2. SessionsInv /\ [Next]_vars => SessionsInv'
  BY InvNext, InvStutter
<1> QED
  BY <1>1, <1>2, PTL DEF Spec

\* Type correctness: every variable keeps its type, and no tier is ever given
\* more than a TTL from the last tick.
THEOREM SessionsTypeCorrect == Spec => []TypeOK
<1>1. SessionsInv => TypeOK
  BY
  DEF SessionsInv, TypeInv, TiersTypeOK, FlagsTypeOK, CountTypeOK, SetsTypeOK, ReqInv, Record,
      TypeOK
<1> QED
  BY <1>1, SessionsInvariant, PTL

\* A request that begins after the revocation of its session was answered is
\* never authenticated with it (authenticate, delSession, revokeUserSessions),
\* outside the windows that exposed marks.
THEOREM RevokedIsRefusedHolds == Spec => []RevokedIsRefused
<1>1. SessionsInv => RevokedIsRefused
  <2>1. SUFFICES ASSUME SessionsInv, NEW r \in Request, At(r, "authenticated"), req[r].barred,
                        req[r].token \notin exposed
                 PROVE  FALSE
    BY DEF RevokedIsRefused
  <2>2. req[r].token \in revoked /\ req[r].token \in Token
    BY <2>1 DEF SessionsInv, OwnersInv, BarredRevoked, TypeInv, SetsTypeOK
  <2>3. RevokedRefused(req[r].token)
    BY <2>1, <2>2 DEF SessionsInv, RevokedInv, Claimed
  <2> QED
    BY <2>1, <2>2, <2>3 DEF RevokedRefused, At
<1> QED
  BY <1>1, SessionsInvariant, PTL

\* A session that nobody takes out is refused only when what it was promised is
\* over (authenticate, lookupSession, putSession), outside the windows that raced
\* marks.
THEOREM LiveIsServedHolds == Spec => []LiveIsServed
<1>1. SessionsInv => LiveIsServed
  <2>1. SUFFICES ASSUME SessionsInv, NEW r \in Request, At(r, "refused"),
                        req[r].token \notin revoking \cup raced
                 PROVE  ~(req[r].due > now)
    BY DEF LiveIsServed
  <2>2. req[r].token \in Token
    BY <2>1 DEF SessionsInv, TypeInv, ReqInv, Sound, Record, Lookup, At
  <2>3. Served(req[r].token)
    BY <2>1, <2>2 DEF SessionsInv, LiveInv, Live
  <2>4. req[r].due <= now
    BY <2>1, <2>3 DEF Served, At
  <2>5. LiveContext(req[r].token)
    BY <2>1, <2>2, LiveContexts DEF SessionsInv
  <2> QED
    BY <2>4, <2>5 DEF LiveContext, Context
<1> QED
  BY <1>1, SessionsInvariant, PTL
====
