----------------------------- MODULE HostProofs -----------------------------
(***************************************************************************)
(* Proofs about the parts of the node that answer for its host: the        *)
(* mutexes (LockOrder), the FRP tunnels (FrpTunnels) and the containers    *)
(* (JailSessions, JailConfig, ContainerArchives, ContainerJobs and their   *)
(* composition in MCContainers).                                           *)
(*                                                                         *)
(* For any number of goroutines the operations but the directory listing   *)
(* never wait for each other in a circle, and none unlocks what it does    *)
(* not hold.  listDir is left out because it takes vaultState.mu for       *)
(* reading twice (vault_store.go, readFile under the listing's RLock),     *)
(* which a writer in between turns into a deadlock.                        *)
(*                                                                         *)
(* Every mutex has a rank.  A program that takes mutexes only above the    *)
(* ranks of those it holds, and gives them back, is shown to do so call by *)
(* call (Runs); that each goroutine has such a program before it is the    *)
(* invariant, and whoever is waited for and waits itself then waits at a   *)
(* greater height.                                                         *)
(*                                                                         *)
(* For any number of tunnels, requests and processes no frpc is lost, none *)
(* survives the shutdown, and the status and the list on disk are true.  A *)
(* request that is alone at its tunnel knows what is there, and its steps  *)
(* leave the other tunnels alone (FrpElsewhere); the tunnels that two      *)
(* requests were at together are the window of the code.                   *)
(*                                                                         *)
(* The containers have one invariant each.  JailSessionsInv says which     *)
(* record a session has by where it is and in which start of the jail its  *)
(* command runs.  ConfigInv says of a request that is alone at a file what *)
(* the file is between its read and its write.  ArchivesInv keeps apart    *)
(* the inodes that requests write to and the numbers they ask with.        *)
(* JobsInv keeps a log the end of what was printed, with a slot for every  *)
(* command that runs.  Each part is left alone by the others, so that what *)
(* holds of them holds of their composition.                               *)
(***************************************************************************)
EXTENDS MCContainers, FrpTunnels, FiniteSetTheorems, SequenceTheorems, TLAPS

----------------------------------------------------------------------------
(* Ranks, and programs that respect them.                                  *)

\* The calls of the mutexes' methods.
Calls == [call : {"lock", "wait", "unlock", "rlock", "runlock"}, on : Mutex]

\* How a goroutine stands to a mutex: as a writer it first waits for the readers
\* of a RWMutex.
State == {"free", "waits", "writes", "reads"}

\* The order in which the code takes the mutexes; inst.mu and v.mu are never held
\* together.
Rank(m) ==
    CASE m = "saveMu" -> 1
      [] m = "d.mu" -> 2
      [] m = "inst.mu" -> 3
      [] m = "v.mu" -> 3
      [] m = "s.mu" -> 4

\* What a goroutine holds before and after an operation.
NothingHeld == [m \in Mutex |-> "free"]

\* All that is held has a lower rank than m.
Below(held, m) == \A k \in Mutex : held[k] # "free" => Rank(k) < Rank(m)

\* A goroutine that holds this may make the call: it takes a mutex above all
\* those it holds, and unlocks what it has locked.
Legal(held, c) ==
    /\ c.call \in {"lock", "rlock"} => held[c.on] = "free" /\ Below(held, c.on)
    /\ c.call = "wait" =>
         /\ held[c.on] = "waits"
         /\ \A k \in Mutex \ {c.on} : held[k] # "free" => Rank(k) < Rank(c.on)
    /\ c.call = "unlock" => held[c.on] = "writes"
    /\ c.call = "runlock" => held[c.on] = "reads"

\* What the call makes of the mutex it is on,
Becomes(c) ==
    CASE c.call = "lock" -> (IF c.on \in RWMutex THEN "waits" ELSE "writes")
      [] c.call = "wait" -> "writes"
      [] c.call = "rlock" -> "reads"
      [] OTHER -> "free"

\* and of all that is held.
After(held, c) == [held EXCEPT ![c.on] = Becomes(c)]

\* The calls of s are legal one after the other and lead from holding from to
\* holding to.
Runs(s, from, to) ==
    /\ s \in Seq(Calls)
    /\ \E h \in [0..Len(s) -> [Mutex -> State]] :
        /\ h[0] = from /\ h[Len(s)] = to
        /\ \A i \in 1..Len(s) : Legal(h[i - 1], s[i]) /\ h[i] = After(h[i - 1], s[i])

\* s is legal for whoever holds only mutexes of a rank below r, and gives back
\* all it takes.
Good(s, r) ==
    /\ s \in Seq(Calls)
    /\ \A held \in [Mutex -> State] :
        (\A k \in Mutex : held[k] # "free" => Rank(k) < r) => Runs(s, held, held)

----------------------------------------------------------------------------
(* Programs put together.                                                  *)

\* The ranks are numbers from 1 to 4.
LEMMA RankFacts ==
    /\ \A m \in Mutex : Rank(m) \in 1..4
    /\ Rank("saveMu") = 1 /\ Rank("d.mu") = 2 /\ Rank("inst.mu") = 3 /\ Rank("v.mu") = 3
       /\ Rank("s.mu") = 4
    /\ {"saveMu", "d.mu", "inst.mu", "v.mu", "s.mu"} = Mutex
BY DEF Rank, Mutex

\* A call leaves the mutexes in a known state.
LEMMA AfterTyped ==
    ASSUME NEW held \in [Mutex -> State], NEW c \in Calls
    PROVE  After(held, c) \in [Mutex -> State]
BY DEF After, Becomes, State, Calls

\* What is held after a call, mutex by mutex.
LEMMA AfterPointwise ==
    ASSUME NEW f \in [Mutex -> State], NEW g \in [Mutex -> State], NEW c \in Calls,
           g[c.on] = Becomes(c), \A k \in Mutex \ {c.on} : g[k] = f[k]
    PROVE  g = After(f, c)
BY DEF After, Calls

\* No call changes nothing.
LEMMA EmptyRuns ==
    ASSUME NEW held \in [Mutex -> State]
    PROVE  Runs(<<>>, held, held)
<1> DEFINE s == <<>>
           h == [i \in 0..0 |-> held]
<1>1. s \in Seq(Calls) /\ Len(s) = 0 /\ 1..0 = {}
  OBVIOUS
<1>2. h \in [0..0 -> [Mutex -> State]] /\ h[0] = held
  OBVIOUS
<1> HIDE DEF h, s
<1>3. Runs(s, held, held)
  BY <1>1, <1>2 DEF Runs
<1> QED
  BY <1>3 DEF s

\* One legal call.
LEMMA OneRuns ==
    ASSUME NEW held \in [Mutex -> State], NEW c \in Calls, Legal(held, c)
    PROVE  Runs(<<c>>, held, After(held, c))
<1> DEFINE h == [i \in 0..1 |-> IF i = 0 THEN held ELSE After(held, c)]
<1>1. h \in [0..Len(<<c>>) -> [Mutex -> State]] /\ Len(<<c>>) = 1 /\ <<c>>[1] = c
  BY AfterTyped
<1>2. h[0] = held /\ h[1] = After(held, c)
  OBVIOUS
<1> HIDE DEF h
<1>3. \A i \in 1..1 : i = 1 /\ i - 1 = 0
  OBVIOUS
<1> QED
  BY <1>1, <1>2, <1>3 DEF Runs

\* One program after the other.
LEMMA ConcatRuns ==
    ASSUME NEW s, NEW t, NEW a, NEW b, NEW c, Runs(s, a, b), Runs(t, b, c)
    PROVE  Runs(s \o t, a, c)
<1>1. PICK h \in [0..Len(s) -> [Mutex -> State]] :
        /\ h[0] = a /\ h[Len(s)] = b
        /\ \A i \in 1..Len(s) : Legal(h[i - 1], s[i]) /\ h[i] = After(h[i - 1], s[i])
  BY DEF Runs
<1>2. PICK g \in [0..Len(t) -> [Mutex -> State]] :
        /\ g[0] = b /\ g[Len(t)] = c
        /\ \A i \in 1..Len(t) : Legal(g[i - 1], t[i]) /\ g[i] = After(g[i - 1], t[i])
  BY DEF Runs
<1>3. /\ s \in Seq(Calls) /\ t \in Seq(Calls) /\ s \o t \in Seq(Calls)
      /\ Len(s) \in Nat /\ Len(t) \in Nat /\ Len(s \o t) = Len(s) + Len(t)
      /\ \A i \in 1..Len(s) : (s \o t)[i] = s[i]
      /\ \A i \in Len(s) + 1..Len(s) + Len(t) : (s \o t)[i] = t[i - Len(s)]
  BY DEF Runs
<1> DEFINE k == [i \in 0..Len(s) + Len(t) |-> IF i <= Len(s) THEN h[i] ELSE g[i - Len(s)]]
<1>4. k \in [0..Len(s) + Len(t) -> [Mutex -> State]]
  BY <1>3
<1>5. /\ \A i \in 0..Len(s) : k[i] = h[i]
      /\ \A i \in 0..Len(t) : k[Len(s) + i] = g[i]
  <2>1. \A i \in 0..Len(s) : k[i] = h[i]
    BY <1>3
  <2>2. ASSUME NEW i \in 0..Len(t) PROVE k[Len(s) + i] = g[i]
    <3>1. CASE i = 0
      BY <3>1, <1>1, <1>2, <1>3
    <3>2. CASE i # 0
      BY <3>2, <1>3
    <3> QED
      BY <3>1, <3>2
  <2> QED
    BY <2>1, <2>2
<1> HIDE DEF k
<1>6. k[0] = a /\ k[Len(s) + Len(t)] = c
  BY <1>1, <1>2, <1>3, <1>5
<1>7. ASSUME NEW i \in 1..Len(s) + Len(t)
      PROVE  Legal(k[i - 1], (s \o t)[i]) /\ k[i] = After(k[i - 1], (s \o t)[i])
  <2>1. CASE i <= Len(s)
    <3>1. i \in 1..Len(s) /\ i - 1 \in 0..Len(s) /\ i \in 0..Len(s)
      BY <2>1, <1>3
    <3>2. k[i - 1] = h[i - 1] /\ k[i] = h[i] /\ (s \o t)[i] = s[i]
      BY <3>1, <1>3, <1>5
    <3> QED
      BY <3>1, <3>2, <1>1
  <2>2. CASE i > Len(s)
    <3> DEFINE j == i - Len(s)
    <3>1. j \in 1..Len(t) /\ j - 1 \in 0..Len(t) /\ j \in 0..Len(t) /\ i = Len(s) + j
          /\ i - 1 = Len(s) + (j - 1)
          /\ i \in Len(s) + 1..Len(s) + Len(t)
      BY <2>2, <1>3
    <3>2. (s \o t)[i] = t[j]
      BY <3>1, <1>3
    <3> HIDE DEF j
    <3>3. k[i - 1] = g[j - 1] /\ k[i] = g[j]
      BY <3>1, <1>5
    <3> QED
      BY <3>1, <3>2, <3>3, <1>2
  <2> QED
    BY <2>1, <2>2, <1>3
<1> QED
  BY <1>3, <1>4, <1>6, <1>7 DEF Runs

\* The first call of a program is legal, and the rest is what comes after it.
LEMMA RestRuns ==
    ASSUME NEW s, NEW a, NEW b, s # <<>>, Runs(s, a, b)
    PROVE  Head(s) \in Calls /\ Legal(a, Head(s)) /\ Runs(Tail(s), After(a, Head(s)), b)
<1>1. PICK h \in [0..Len(s) -> [Mutex -> State]] :
        /\ h[0] = a /\ h[Len(s)] = b
        /\ \A i \in 1..Len(s) : Legal(h[i - 1], s[i]) /\ h[i] = After(h[i - 1], s[i])
  BY DEF Runs
<1>2. /\ s \in Seq(Calls) /\ Len(s) \in Nat /\ Len(s) > 0 /\ Head(s) = s[1] /\ s[1] \in Calls
      /\ Tail(s) \in Seq(Calls) /\ Len(Tail(s)) = Len(s) - 1
      /\ \A i \in 1..Len(s) - 1 : Tail(s)[i] = s[i + 1]
  BY DEF Runs
<1>3. Legal(a, s[1]) /\ h[1] = After(a, s[1])
  <2>1. 1 \in 1..Len(s) /\ 1 - 1 = 0
    BY <1>2
  <2> QED
    BY <1>1, <2>1
<1> DEFINE g == [i \in 0..Len(s) - 1 |-> h[i + 1]]
<1>4. g \in [0..Len(s) - 1 -> [Mutex -> State]]
  BY <1>2
<1>5. \A i \in 0..Len(s) - 1 : g[i] = h[i + 1]
  OBVIOUS
<1> HIDE DEF g
<1>6. g[0] = h[1] /\ g[Len(s) - 1] = b
  BY <1>1, <1>2, <1>5
<1>7. ASSUME NEW i \in 1..Len(s) - 1
      PROVE  Legal(g[i - 1], Tail(s)[i]) /\ g[i] = After(g[i - 1], Tail(s)[i])
  <2>1. i \in 0..Len(s) - 1 /\ i - 1 \in 0..Len(s) - 1 /\ (i - 1) + 1 = i
        /\ i + 1 \in 1..Len(s) /\ (i + 1) - 1 = i
    BY <1>2
  <2>2. g[i - 1] = h[i] /\ g[i] = h[i + 1] /\ Tail(s)[i] = s[i + 1]
    BY <1>2, <1>5, <2>1
  <2> QED
    BY <1>1, <2>1, <2>2
<1>8. Runs(Tail(s), After(a, s[1]), b)
  BY <1>2, <1>3, <1>4, <1>6, <1>7 DEF Runs
<1> QED
  BY <1>2, <1>3, <1>8

\* At its end a program has come to where it leads.
LEMMA EndRuns ==
    ASSUME NEW a, NEW b, Runs(<<>>, a, b)
    PROVE  a = b
BY DEF Runs

----------------------------------------------------------------------------
(* What the operations are made of.                                        *)

\* Nothing to do is good.
LEMMA GoodEmpty ==
    ASSUME NEW r PROVE Good(<<>>, r)
BY EmptyRuns DEF Good

\* Good programs follow each other.
LEMMA GoodConcat ==
    ASSUME NEW s, NEW t, NEW r, Good(s, r), Good(t, r)
    PROVE  Good(s \o t, r)
<1>1. s \o t \in Seq(Calls)
  BY DEF Good
<1>2. ASSUME NEW held \in [Mutex -> State], \A k \in Mutex : held[k] # "free" => Rank(k) < r
      PROVE  Runs(s \o t, held, held)
  <2>1. Runs(s, held, held) /\ Runs(t, held, held)
    BY <1>2 DEF Good
  <2> QED
    BY <2>1, ConcatRuns
<1> QED
  BY <1>1, <1>2 DEF Good

\* A program that is good above much is good above less.
LEMMA GoodLower ==
    ASSUME NEW s, NEW q \in Nat, NEW r \in Nat, Good(s, r), q <= r
    PROVE  Good(s, q)
<1>1. ASSUME NEW held \in [Mutex -> State], \A k \in Mutex : held[k] # "free" => Rank(k) < q
      PROVE  Runs(s, held, held)
  <2>1. \A k \in Mutex : held[k] # "free" => Rank(k) < r
    BY <1>1, RankFacts
  <2> QED
    BY <2>1 DEF Good
<1> QED
  BY <1>1 DEF Good

\* A critical section of a mutex is good if its body is good above that mutex,
LEMMA GoodLocked ==
    ASSUME NEW m \in Mutex, NEW body, Good(body, Rank(m) + 1)
    PROVE  Good(Locked(m, body), Rank(m))
<1> DEFINE lock == [call |-> "lock", on |-> m]
           wait == [call |-> "wait", on |-> m]
           unlock == [call |-> "unlock", on |-> m]
<1>1. lock \in Calls /\ wait \in Calls /\ unlock \in Calls /\ body \in Seq(Calls)
  BY DEF Calls, Good
<1>2. Locked(m, body) \in Seq(Calls)
  BY <1>1 DEF Locked, Lock, Unlock
<1>3. ASSUME NEW held \in [Mutex -> State], \A k \in Mutex : held[k] # "free"
             => Rank(k) < Rank(m)
      PROVE  Runs(Locked(m, body), held, held)
  <2> DEFINE writing == [held EXCEPT ![m] = "writes"]
             waiting == [held EXCEPT ![m] = "waits"]
  <2>1. Rank(m) \in Nat /\ held[m] = "free" /\ Below(held, m)
    BY <1>3, RankFacts DEF Below, State
  <2>2. writing \in [Mutex -> State] /\ waiting \in [Mutex -> State]
    BY DEF State
  <2>3. Runs(Lock(m), held, writing)
    <3>1. CASE m \in RWMutex
      <4>1. Legal(held, lock) /\ After(held, lock) = waiting
        BY <2>1, <3>1 DEF Legal, After, Becomes
      <4>2. Legal(waiting, wait) /\ After(waiting, wait) = writing
        BY <2>1, <1>3 DEF Legal, After, Becomes
      <4>3. Runs(<<lock>>, held, waiting)
        BY <1>1, <4>1, OneRuns
      <4>4. Runs(<<wait>>, waiting, writing)
        BY <1>1, <2>2, <4>2, OneRuns, ZenonT(60)
      <4> QED
        BY <3>1, <4>3, <4>4, ConcatRuns DEF Lock
    <3>2. CASE m \notin RWMutex
      <4>1. Legal(held, lock) /\ After(held, lock) = writing
        BY <2>1, <3>2 DEF Legal, After, Becomes
      <4>2. Runs(<<lock>>, held, writing) /\ Runs(<<>>, writing, writing)
        BY <1>1, <2>2, <4>1, OneRuns, EmptyRuns, ZenonT(60)
      <4> QED
        BY <3>2, <4>2, ConcatRuns DEF Lock
    <3> QED
      BY <3>1, <3>2
  <2>4. Runs(body, writing, writing)
    <3>1. \A k \in Mutex : writing[k] # "free" => Rank(k) < Rank(m) + 1
      BY <1>3, <2>1, RankFacts
    <3> QED
      BY <2>2, <3>1 DEF Good
  <2>5. Runs(Unlock(m), writing, held)
    <3>1. Legal(writing, unlock) /\ After(writing, unlock) = held
      BY <2>1 DEF Legal, After, Becomes
    <3> QED
      BY <1>1, <2>2, <3>1, OneRuns DEF Unlock
  <2> QED
    BY <2>3, <2>4, <2>5, ConcatRuns DEF Locked
<1> QED
  BY <1>2, <1>3 DEF Good

\* and so is one of a reader.
LEMMA GoodRLocked ==
    ASSUME NEW m \in Mutex, NEW body, Good(body, Rank(m) + 1)
    PROVE  Good(RLocked(m, body), Rank(m))
<1> DEFINE rlock == [call |-> "rlock", on |-> m]
           runlock == [call |-> "runlock", on |-> m]
<1>1. rlock \in Calls /\ runlock \in Calls /\ body \in Seq(Calls)
  BY DEF Calls, Good
<1>2. RLocked(m, body) \in Seq(Calls)
  BY <1>1 DEF RLocked, RLock, RUnlock
<1>3. ASSUME NEW held \in [Mutex -> State], \A k \in Mutex : held[k] # "free"
             => Rank(k) < Rank(m)
      PROVE  Runs(RLocked(m, body), held, held)
  <2> DEFINE reading == [held EXCEPT ![m] = "reads"]
  <2>1. Rank(m) \in Nat /\ held[m] = "free" /\ Below(held, m)
    BY <1>3, RankFacts DEF Below, State
  <2>2. reading \in [Mutex -> State]
    BY DEF State
  <2>3. Runs(RLock(m), held, reading)
    <3>1. Legal(held, rlock) /\ After(held, rlock) = reading
      BY <2>1 DEF Legal, After, Becomes
    <3> QED
      BY <1>1, <3>1, OneRuns DEF RLock
  <2>4. Runs(body, reading, reading)
    <3>1. \A k \in Mutex : reading[k] # "free" => Rank(k) < Rank(m) + 1
      BY <1>3, <2>1, RankFacts
    <3> QED
      BY <2>2, <3>1 DEF Good
  <2>5. Runs(RUnlock(m), reading, held)
    <3>1. Legal(reading, runlock) /\ After(reading, runlock) = held
      BY <2>1 DEF Legal, After, Becomes
    <3> QED
      BY <1>1, <2>2, <3>1, OneRuns DEF RUnlock
  <2> QED
    BY <2>3, <2>4, <2>5, ConcatRuns DEF RLocked
<1> QED
  BY <1>2, <1>3 DEF Good

\* Empty critical sections.
LEMMA GoodSections ==
    ASSUME NEW m \in Mutex
    PROVE  Good(Section(m), Rank(m)) /\ Good(RSection(m), Rank(m))
BY GoodEmpty, GoodLocked, GoodRLocked DEF Section, RSection

\* The sections the operations are made of, at the ranks they are used at.
LEMMA GoodInner ==
    /\ Good(Section("s.mu"), 4) /\ Good(RSection("s.mu"), 4)
    /\ Good(Section("v.mu"), 3) /\ Good(RSection("v.mu"), 3) /\ Good(Section("inst.mu"), 3)
    /\ Good(Section("s.mu"), 3) /\ Good(RSection("s.mu"), 3)
    /\ Good(Section("d.mu"), 2)
BY GoodSections, GoodLower, RankFacts

\* readFile, writeFile and flush take vaultState.mu and vaultStore.mu in this
\* order.
LEMMA GoodFiles == Good(readFile, 3) /\ Good(writeFile, 3) /\ Good(flush, 3)
<1>1. Good(readFile, 3)
  BY GoodInner, GoodRLocked, RankFacts DEF readFile
<1>2. Good(writeFile, 3)
  <2>1. Good(Section("s.mu") \o Section("s.mu"), 3 + 1)
    BY GoodInner, GoodConcat
  <2> QED
    BY <2>1, GoodRLocked, RankFacts DEF writeFile
<1> QED
  BY <1>1, <1>2, GoodInner DEF flush

\* vaultGate takes vaultState.mu only.
LEMMA GoodGates == Good(vaultGate, 3) /\ Good(vaultGateRenew, 3)
BY GoodInner, GoodConcat DEF vaultGate, vaultGateRenew

\* Save takes saveMu, Daemon.mu and Instance.mu, and the vault's two below
\* saveMu.
LEMMA GoodSave == Good(Save, 1)
<1>1. Good(Locked("d.mu", Section("inst.mu")), 2)
  BY GoodInner, GoodLocked, RankFacts
<1>2. Good(RSection("v.mu"), 2) /\ Good(writeFile, 2) /\ Good(flush, 2)
  BY GoodInner, GoodFiles, GoodLower
<1>3. Good(Locked("d.mu", Section("inst.mu")) \o RSection("v.mu") \o writeFile \o flush, 1 + 1)
  BY <1>1, <1>2, GoodConcat
<1> QED
  BY <1>3, GoodLocked, RankFacts DEF Save

\* handleVaultLock and the janitor hold vaultState.mu around vaultStore.mu.
LEMMA GoodVaultLock == Good(handleVaultLock, 3)
<1>1. Good(flush \o Section("s.mu"), 3 + 1)
  BY GoodInner, GoodConcat DEF flush
<1> QED
  BY <1>1, GoodLocked, RankFacts DEF handleVaultLock

\* The unlock holds Daemon.mu around vaultState.mu.
LEMMA GoodVaultUnlock == Good(handleVaultUnlock, 2)
<1>1. Good(hasPendingFileTrees, 2)
  BY GoodInner, GoodLocked, RankFacts DEF hasPendingFileTrees
<1>2. /\ Good(Section("v.mu"), 2) /\ Good(Section("s.mu"), 2) /\ Good(RSection("s.mu"), 2)
      /\ Good(readFile, 2) /\ Good(Section("d.mu"), 2)
  BY GoodInner, GoodFiles, GoodLower
<1> QED
  BY <1>1, <1>2, GoodConcat DEF handleVaultUnlock

\* startInstance saves while it holds nothing.
LEMMA GoodStart == Good(startInstance, 1)
<1>1. Good(Section("inst.mu"), 1)
  BY GoodInner, GoodLower
<1> QED
  BY <1>1, GoodSave, GoodConcat DEF startInstance

\* All operations but the listing respect the ranks.
LEMMA GoodPrograms ==
    ASSUME NEW op \in {"read", "renew", "start", "save", "lock", "unlock", "count"}
    PROVE  Good(Program(op), 1)
<1>1. Good(vaultGate, 1) /\ Good(vaultGateRenew, 1) /\ Good(readFile, 1)
  BY GoodGates, GoodFiles, GoodLower
<1>2. Good(handleVaultLock, 1) /\ Good(handleVaultUnlock, 1)
  BY GoodVaultLock, GoodVaultUnlock, GoodLower
<1>3. Good(CountRunning, 1)
  <2>1. Good(CountRunning, 2)
    BY GoodInner, GoodLocked, RankFacts DEF CountRunning
  <2> QED
    BY <2>1, GoodLower
<1>4. /\ Good(vaultGate \o readFile, 1) /\ Good(vaultGateRenew \o readFile, 1)
      /\ Good(vaultGate \o startInstance, 1)
  BY <1>1, GoodStart, GoodConcat
<1> QED
  BY <1>2, <1>3, <1>4, GoodSave DEF Program

----------------------------------------------------------------------------
(* The inductive invariant.                                                *)

\* How p stands to each mutex, as the mutexes say.
HeldBy(p) ==
    [m \in Mutex |->
        IF writer[m].by = p THEN (IF writer[m].state = "holds" THEN "writes" ELSE "waits")
        ELSE IF readers[m][p] > 0 THEN "reads"
        ELSE "free"]

\* Nobody reads a mutex twice, or reads and writes it.
ReadersInv ==
    \A m \in Mutex, p \in Proc :
        readers[m][p] \in {0, 1} /\ (writer[m].by = p => readers[m][p] = 0)

\* What is left of every goroutine's operation is legal for what it holds, and
\* gives it all back.
LocksInv == LocksTypeOK /\ ReadersInv /\ \A p \in Proc : Runs(prog[p], HeldBy(p), NothingHeld)

\* HeldBy is a state of every mutex.
LEMMA HeldTyped == \A p \in Proc : HeldBy(p) \in [Mutex -> State]
BY DEF HeldBy, State

\* What p holds in the next state, mutex by mutex.
LEMMA HeldAfter ==
    ASSUME NEW p \in Proc, NEW c \in Calls, HeldBy(p)'[c.on] = Becomes(c),
           \A k \in Mutex \ {c.on} : HeldBy(p)'[k] = HeldBy(p)[k]
    PROVE  HeldBy(p)' = After(HeldBy(p), c)
<1>1. HeldBy(p)' \in [Mutex -> State]
  BY DEF HeldBy, State
<1> QED
  BY <1>1, HeldTyped, AfterPointwise

\* What HeldBy says of the mutexes' variables.
LEMMA HeldSays ==
    ASSUME LocksInv, NEW p \in Proc, NEW m \in Mutex
    PROVE  /\ HeldBy(p)[m] = "writes" <=> writer[m] = [by |-> p, state |-> "holds"]
           /\ HeldBy(p)[m] = "waits" <=> writer[m] = [by |-> p, state |-> "waits"]
           /\ HeldBy(p)[m] = "reads" <=> readers[m][p] = 1
           /\ HeldBy(p)[m] = "free" <=> writer[m].by # p /\ readers[m][p] = 0
<1>1. writer[m] = Free \/ writer[m] \in [by : Proc, state : {"waits", "holds"}]
  BY DEF LocksInv, LocksTypeOK
<1>2. readers[m][p] \in {0, 1} /\ (writer[m].by = p => readers[m][p] = 0)
  BY DEF LocksInv, ReadersInv
<1>3. Free.by # p
  BY LocksAssumption DEF Free
<1> QED
  BY <1>1, <1>2, <1>3 DEF HeldBy, Free

\* At first nobody holds anything.
LEMMA InitHolds == LocksInit => LocksInv
<1> SUFFICES ASSUME LocksInit PROVE LocksInv
  OBVIOUS
<1>1. LocksTypeOK
  BY DEF LocksInit, LocksTypeOK
<1>2. ReadersInv
  BY LocksAssumption DEF LocksInit, ReadersInv, Free
<1>3. ASSUME NEW p \in Proc PROVE Runs(prog[p], HeldBy(p), NothingHeld)
  <2>1. prog[p] = <<>> /\ HeldBy(p) = NothingHeld
    BY LocksAssumption DEF LocksInit, Free, HeldBy, NothingHeld
  <2> QED
    BY <2>1, HeldTyped, EmptyRuns
<1> QED
  BY <1>1, <1>2, <1>3 DEF LocksInv

\* The call p is at is legal, and the rest follows it.
LEMMA CallSays ==
    ASSUME LocksInv, NEW p \in Proc, NEW c, NEW m \in Mutex, Call(p, c, m)
    PROVE  /\ prog[p] # <<>> /\ Head(prog[p]) = [call |-> c, on |-> m]
           /\ [call |-> c, on |-> m] \in Calls
           /\ Legal(HeldBy(p), [call |-> c, on |-> m])
           /\ Tail(prog[p]) \in Seq(Calls)
           /\ Runs(Tail(prog[p]), After(HeldBy(p), [call |-> c, on |-> m]), NothingHeld)
<1>1. prog[p] # <<>> /\ Head(prog[p]) = [call |-> c, on |-> m] /\ Runs(prog[p], HeldBy(p),
      NothingHeld)
  BY DEF Call, LocksInv
<1>2. Head(prog[p]) \in Calls /\ Legal(HeldBy(p), Head(prog[p])) /\ Runs(Tail(prog[p]),
      After(HeldBy(p), Head(prog[p])), NothingHeld)
  BY <1>1, RestRuns
<1> QED
  BY <1>1, <1>2 DEF Runs

\* A call that changes what its goroutine holds, and nobody else, keeps the
\* programs legal.
LEMMA OneAdvances ==
    ASSUME LocksInv, NEW p \in Proc, NEW c, NEW m \in Mutex, Call(p, c, m), Advance(p),
           HeldBy(p)' = After(HeldBy(p), [call |-> c, on |-> m]),
           \A q \in Proc \ {p} : HeldBy(q)' = HeldBy(q)
    PROVE  /\ \A q \in Proc : Runs(prog'[q], HeldBy(q)', NothingHeld)
           /\ prog' \in [Proc -> Seq(Calls)]
<1>1. prog' = [prog EXCEPT ![p] = Tail(prog[p])]
  BY DEF Advance
<1>2. ASSUME NEW q \in Proc PROVE Runs(prog'[q], HeldBy(q)', NothingHeld)
  <2>1. CASE q = p
    <3>1. Runs(Tail(prog[p]), HeldBy(p)', NothingHeld)
      BY CallSays
    <3>2. prog'[p] = Tail(prog[p])
      BY <1>1 DEF LocksInv, LocksTypeOK
    <3> QED
      BY <2>1, <3>1, <3>2
  <2>2. CASE q # p
    BY <1>1, <2>2 DEF LocksInv
  <2> QED
    BY <2>1, <2>2
<1>3. prog' \in [Proc -> Seq(Calls)]
  BY <1>1, CallSays DEF LocksInv, LocksTypeOK, Calls
<1> QED
  BY <1>2, <1>3

----------------------------------------------------------------------------
(* The invariant, call by call.                                            *)

\* A goroutine begins an operation holding nothing.
LEMMA BeginKeeps ==
    ASSUME "list" \notin Ops, LocksInv, NEW p \in Proc, Begin(p)
    PROVE  LocksInv'
<1>1. PICK op \in Ops : prog' = [prog EXCEPT ![p] = Program(op)]
  BY DEF Begin
<1>2. op \in {"read", "renew", "start", "save", "lock", "unlock", "count"}
  BY LocksAssumption
<1>3. Good(Program(op), 1)
  BY <1>2, GoodPrograms
<1>4. prog[p] = <<>> /\ writer' = writer /\ readers' = readers
      /\ \A q \in Proc : HeldBy(q)' = HeldBy(q)
  BY DEF Begin, HeldBy
<1>5. HeldBy(p) = NothingHeld
  BY <1>4, EndRuns DEF LocksInv
<1>6. Program(op) \in Seq(Calls) /\ Runs(Program(op), NothingHeld, NothingHeld)
  <2>1. NothingHeld \in [Mutex -> State] /\ \A k \in Mutex : NothingHeld[k] = "free"
    BY DEF NothingHeld, State
  <2> QED
    BY <1>3, <2>1 DEF Good
<1>7. prog' \in [Proc -> Seq(Calls)] /\ \A q \in Proc : q # p => prog'[q] = prog[q]
  BY <1>1, <1>6 DEF LocksInv, LocksTypeOK, Calls
<1>8. prog'[p] = Program(op)
  BY <1>1 DEF LocksInv, LocksTypeOK
<1>9. LocksTypeOK' /\ ReadersInv'
  BY <1>4, <1>7 DEF LocksInv, LocksTypeOK, ReadersInv, Calls
<1>10. ASSUME NEW q \in Proc PROVE Runs(prog'[q], HeldBy(q)', NothingHeld)
  <2>1. CASE q = p
    BY <2>1, <1>4, <1>5, <1>6, <1>8
  <2>2. CASE q # p
    BY <2>2, <1>4, <1>7 DEF LocksInv
  <2> QED
    BY <2>1, <2>2
<1> QED
  BY <1>9, <1>10 DEF LocksInv

\* Lock: the mutex is p's, or will be once its readers are out.
LEMMA AnnounceKeeps ==
    ASSUME LocksInv, NEW p \in Proc, NEW m \in Mutex, LockAnnounce(p, m)
    PROVE  LocksInv'
<1> DEFINE c == [call |-> "lock", on |-> m]
           w == [by |-> p, state |-> IF m \in RWMutex THEN "waits" ELSE "holds"]
<1>1. /\ Call(p, "lock", m) /\ Advance(p) /\ readers' = readers
      /\ writer[m] = Free /\ writer' = [writer EXCEPT ![m] = w]
  BY DEF LockAnnounce
<1>2. Legal(HeldBy(p), c)
  BY <1>1, CallSays
<1>3. writer' \in [Mutex -> {Free} \cup [by : Proc, state : {"waits", "holds"}]]
      /\ writer'[m] = w /\ \A k \in Mutex : k # m => writer'[k] = writer[k]
  BY <1>1 DEF LocksInv, LocksTypeOK
<1>4. readers[m][p] = 0
  BY <1>2, HeldSays DEF Legal
<1>5. HeldBy(p)' = After(HeldBy(p), c)
  BY <1>1, <1>3 DEF HeldBy, After, Becomes
<1>6. ASSUME NEW q \in Proc \ {p} PROVE HeldBy(q)' = HeldBy(q)
  <2>1. Free.by # q
    BY LocksAssumption DEF Free
  <2> QED
    BY <1>1, <1>3, <2>1 DEF HeldBy
<1>7. /\ \A q \in Proc : Runs(prog'[q], HeldBy(q)', NothingHeld)
      /\ prog' \in [Proc -> Seq(Calls)]
  BY <1>1, <1>5, <1>6, OneAdvances
<1>8. ReadersInv'
  BY <1>1, <1>3, <1>4 DEF LocksInv, ReadersInv
<1> QED
  BY <1>1, <1>3, <1>7, <1>8 DEF LocksInv, LocksTypeOK, Calls

\* Lock of a RWMutex, the readers being out.
LEMMA TakeKeeps ==
    ASSUME LocksInv, NEW p \in Proc, NEW m \in Mutex, LockTake(p, m)
    PROVE  LocksInv'
<1> DEFINE c == [call |-> "wait", on |-> m]
<1>1. /\ Call(p, "wait", m) /\ Advance(p) /\ readers' = readers
      /\ writer' = [writer EXCEPT ![m].state = "holds"]
  BY DEF LockTake
<1>2. Legal(HeldBy(p), c)
  BY <1>1, CallSays
<1>3. writer[m] = [by |-> p, state |-> "waits"]
  BY <1>2, HeldSays DEF Legal
<1>4. writer' \in [Mutex -> {Free} \cup [by : Proc, state : {"waits", "holds"}]]
      /\ writer'[m] = [by |-> p, state |-> "holds"]
      /\ \A k \in Mutex : k # m => writer'[k] = writer[k]
  BY <1>1, <1>3 DEF LocksInv, LocksTypeOK
<1>5. HeldBy(p)' = After(HeldBy(p), c)
  <2>1. c \in Calls /\ c.on = m /\ Becomes(c) = "writes"
    BY <1>1, CallSays DEF Becomes
  <2>2. HeldBy(p)'[m] = "writes"
    BY <1>4 DEF HeldBy
  <2>3. \A k \in Mutex \ {m} : HeldBy(p)'[k] = HeldBy(p)[k]
    BY <1>1, <1>4 DEF HeldBy
  <2> QED
    BY <2>1, <2>2, <2>3, HeldAfter
<1>6. ASSUME NEW q \in Proc \ {p} PROVE HeldBy(q)' = HeldBy(q)
  BY <1>1, <1>3, <1>4 DEF HeldBy
<1>7. /\ \A q \in Proc : Runs(prog'[q], HeldBy(q)', NothingHeld)
      /\ prog' \in [Proc -> Seq(Calls)]
  BY <1>1, <1>5, <1>6, OneAdvances
<1>8. ReadersInv'
  BY <1>1, <1>3, <1>4 DEF LocksInv, ReadersInv
<1> QED
  BY <1>1, <1>4, <1>7, <1>8 DEF LocksInv, LocksTypeOK, Calls

\* RLock.
LEMMA ReadKeeps ==
    ASSUME LocksInv, NEW p \in Proc, NEW m \in Mutex, ReadLock(p, m)
    PROVE  LocksInv'
<1> DEFINE c == [call |-> "rlock", on |-> m]
<1>1. /\ Call(p, "rlock", m) /\ Advance(p) /\ writer' = writer /\ writer[m] = Free
      /\ readers' = [readers EXCEPT ![m][p] = readers[m][p] + 1]
  BY DEF ReadLock
<1>2. Legal(HeldBy(p), c)
  BY <1>1, CallSays
<1>3. readers[m][p] = 0
  BY <1>2, HeldSays DEF Legal
<1>4. /\ readers' \in [Mutex -> [Proc -> Nat]] /\ readers'[m][p] = 1
      /\ \A k \in Mutex, q \in Proc : k # m \/ q # p => readers'[k][q] = readers[k][q]
  BY <1>1, <1>3 DEF LocksInv, LocksTypeOK
<1>5. HeldBy(p)' = After(HeldBy(p), c)
  <2>1. writer[m].by # p
    BY <1>1, LocksAssumption DEF Free
  <2>2. c \in Calls /\ c.on = m /\ Becomes(c) = "reads"
    BY <1>1, CallSays DEF Becomes
  <2>3. HeldBy(p)'[m] = "reads"
    BY <1>1, <1>4, <2>1 DEF HeldBy
  <2>4. \A k \in Mutex \ {m} : HeldBy(p)'[k] = HeldBy(p)[k]
    BY <1>1, <1>4 DEF HeldBy
  <2> QED
    BY <2>2, <2>3, <2>4, HeldAfter
<1>6. ASSUME NEW q \in Proc \ {p} PROVE HeldBy(q)' = HeldBy(q)
  BY <1>1, <1>4 DEF HeldBy
<1>7. /\ \A q \in Proc : Runs(prog'[q], HeldBy(q)', NothingHeld)
      /\ prog' \in [Proc -> Seq(Calls)]
  BY <1>1, <1>5, <1>6, OneAdvances
<1>8. ReadersInv'
  BY <1>1, <1>4, LocksAssumption DEF LocksInv, ReadersInv, Free
<1> QED
  BY <1>1, <1>4, <1>7, <1>8 DEF LocksInv, LocksTypeOK, Calls

\* RUnlock.
LEMMA ReadUnlockKeeps ==
    ASSUME LocksInv, NEW p \in Proc, NEW m \in Mutex, ReadUnlock(p, m)
    PROVE  LocksInv'
<1> DEFINE c == [call |-> "runlock", on |-> m]
<1>1. /\ Call(p, "runlock", m) /\ Advance(p) /\ writer' = writer
      /\ readers' = [readers EXCEPT ![m][p] = readers[m][p] - 1]
  BY DEF ReadUnlock
<1>2. Legal(HeldBy(p), c)
  BY <1>1, CallSays
<1>3. readers[m][p] = 1
  BY <1>2, HeldSays DEF Legal
<1>4. /\ readers' \in [Mutex -> [Proc -> Nat]] /\ readers'[m][p] = 0
      /\ \A k \in Mutex, q \in Proc : k # m \/ q # p => readers'[k][q] = readers[k][q]
  BY <1>1, <1>3 DEF LocksInv, LocksTypeOK
<1>5. HeldBy(p)' = After(HeldBy(p), c)
  <2>1. writer[m].by # p
    BY <1>3 DEF LocksInv, ReadersInv
  <2>2. c \in Calls /\ c.on = m /\ Becomes(c) = "free"
    BY <1>1, CallSays DEF Becomes
  <2>3. HeldBy(p)'[m] = "free"
    BY <1>1, <1>4, <2>1 DEF HeldBy
  <2>4. \A k \in Mutex \ {m} : HeldBy(p)'[k] = HeldBy(p)[k]
    BY <1>1, <1>4 DEF HeldBy
  <2> QED
    BY <2>2, <2>3, <2>4, HeldAfter
<1>6. ASSUME NEW q \in Proc \ {p} PROVE HeldBy(q)' = HeldBy(q)
  BY <1>1, <1>4 DEF HeldBy
<1>7. /\ \A q \in Proc : Runs(prog'[q], HeldBy(q)', NothingHeld)
      /\ prog' \in [Proc -> Seq(Calls)]
  BY <1>1, <1>5, <1>6, OneAdvances
<1>8. ReadersInv'
  BY <1>1, <1>4 DEF LocksInv, ReadersInv
<1> QED
  BY <1>1, <1>4, <1>7, <1>8 DEF LocksInv, LocksTypeOK, Calls

\* Unlock, which lets all waiting readers in: each of them makes its RLock in the
\* same step.
LEMMA UnlockKeeps ==
    ASSUME LocksInv, NEW p \in Proc, NEW m \in Mutex, UnlockAll(p, m)
    PROVE  LocksInv'
<1> DEFINE waiting == {q \in Proc : Call(q, "rlock", m)}
<1>1. /\ Call(p, "unlock", m) /\ writer' = [writer EXCEPT ![m] = Free]
      /\ readers' = [readers EXCEPT ![m] =
             [q \in Proc |-> IF q \in waiting THEN readers[m][q] + 1 ELSE readers[m][q]]]
      /\ prog' = [q \in Proc |-> IF q \in waiting \cup {p} THEN Tail(prog[q]) ELSE prog[q]]
  BY DEF UnlockAll
<1>2. writer[m] = [by |-> p, state |-> "holds"] /\ p \notin waiting
  <2>1. /\ Legal(HeldBy(p), [call |-> "unlock", on |-> m])
        /\ Head(prog[p]) = [call |-> "unlock", on |-> m]
    BY <1>1, CallSays
  <2>2. writer[m] = [by |-> p, state |-> "holds"]
    BY <2>1, HeldSays DEF Legal
  <2>3. ~ Call(p, "rlock", m)
    BY <2>1 DEF Call
  <2> QED
    BY <2>2, <2>3
<1>3. \A q \in waiting : readers[m][q] = 0
  <2> SUFFICES ASSUME NEW q \in Proc, Call(q, "rlock", m) PROVE readers[m][q] = 0
    OBVIOUS
  <2>1. Legal(HeldBy(q), [call |-> "rlock", on |-> m])
    BY CallSays
  <2> QED
    BY <2>1, HeldSays DEF Legal
<1>4. /\ readers' \in [Mutex -> [Proc -> Nat]] /\ \A q \in waiting : readers'[m][q] = 1
      /\ \A k \in Mutex, q \in Proc : k # m \/ q \notin waiting
         => readers'[k][q] = readers[k][q]
  BY <1>1, <1>3 DEF LocksInv, LocksTypeOK
<1>5. /\ writer' \in [Mutex -> {Free} \cup [by : Proc, state : {"waits", "holds"}]]
      /\ writer'[m] = Free /\ \A k \in Mutex : k # m => writer'[k] = writer[k]
  BY <1>1 DEF LocksInv, LocksTypeOK
<1>6. \A q \in Proc : Free.by # q
  BY LocksAssumption DEF Free
<1>7. readers[m][p] = 0
  BY <1>2 DEF LocksInv, ReadersInv
<1> HIDE DEF waiting
<1>8. HeldBy(p)' = After(HeldBy(p), [call |-> "unlock", on |-> m])
  <2> DEFINE c == [call |-> "unlock", on |-> m]
  <2>1. c \in Calls /\ c.on = m /\ Becomes(c) = "free"
    BY <1>1, CallSays DEF Becomes
  <2>2. readers'[m][p] = 0 /\ \A k \in Mutex \ {m} : readers'[k][p] = readers[k][p]
    BY <1>2, <1>4, <1>7
  <2>3. HeldBy(p)'[m] = "free"
    BY <1>5, <1>6, <2>2 DEF HeldBy
  <2>4. \A k \in Mutex \ {m} : HeldBy(p)'[k] = HeldBy(p)[k]
    BY <1>5, <2>2 DEF HeldBy
  <2> HIDE DEF c
  <2>5. HeldBy(p)' = After(HeldBy(p), c)
    BY <2>1, <2>3, <2>4, HeldAfter
  <2> QED
    BY <2>5 DEF c
<1>9. ASSUME NEW q \in waiting, q \in Proc
      PROVE  HeldBy(q)' = After(HeldBy(q), [call |-> "rlock", on |-> m])
  <2> DEFINE c == [call |-> "rlock", on |-> m]
  <2>1. c \in Calls /\ c.on = m /\ Becomes(c) = "reads"
    BY <1>9, CallSays DEF Becomes, waiting
  <2>2. readers'[m][q] = 1 /\ \A k \in Mutex \ {m} : readers'[k][q] = readers[k][q]
    BY <1>4, <1>9
  <2>3. HeldBy(q)'[m] = "reads"
    BY <1>5, <1>6, <1>9, <2>2 DEF HeldBy
  <2>4. \A k \in Mutex \ {m} : HeldBy(q)'[k] = HeldBy(q)[k]
    BY <1>5, <2>2 DEF HeldBy
  <2> HIDE DEF c
  <2>5. HeldBy(q)' = After(HeldBy(q), c)
    BY <1>9, <2>1, <2>3, <2>4, HeldAfter
  <2> QED
    BY <2>5 DEF c
<1>10. ASSUME NEW q \in Proc, q \notin waiting, q # p PROVE HeldBy(q)' = HeldBy(q)
  BY <1>2, <1>4, <1>5, <1>6, <1>10 DEF HeldBy
<1>11. ASSUME NEW q \in Proc PROVE Runs(prog'[q], HeldBy(q)', NothingHeld)
  <2>1. CASE q = p
    <3>1. prog'[q] = Tail(prog[p])
      BY <1>1, <2>1
    <3> QED
      BY <1>1, <1>8, <2>1, <3>1, CallSays
  <2>2. CASE q \in waiting
    <3>1. prog'[q] = Tail(prog[q]) /\ Call(q, "rlock", m)
      BY <1>1, <2>2 DEF waiting
    <3> QED
      BY <1>9, <2>2, <3>1, CallSays
  <2>3. CASE q # p /\ q \notin waiting
    BY <1>1, <1>10, <2>3 DEF LocksInv
  <2> QED
    BY <2>1, <2>2, <2>3
<1>12. prog' \in [Proc -> Seq(Calls)]
  <2>1. \A q \in Proc : prog'[q] \in Seq(Calls)
    BY <1>11 DEF Runs
  <2> QED
    BY <1>1, <2>1
<1>13. ReadersInv'
  BY <1>2, <1>3, <1>4, <1>5, <1>6 DEF LocksInv, ReadersInv
<1> QED
  BY <1>4, <1>5, <1>11, <1>12, <1>13 DEF LocksInv, LocksTypeOK, Calls

----------------------------------------------------------------------------
(* The invariant holds, and the types.                                     *)

\* Every step keeps the invariant.
LEMMA LocksStep == ASSUME "list" \notin Ops PROVE LocksInv /\ [LocksNext]_lockVars => LocksInv'
<1> SUFFICES ASSUME LocksInv, [LocksNext]_lockVars PROVE LocksInv'
  OBVIOUS
<1>1. CASE LocksNext
  <2>1. PICK p \in Proc : Begin(p) \/ Step(p)
    BY <1>1 DEF LocksNext
  <2>2. CASE Begin(p)
    BY <2>2, BeginKeeps
  <2>3. CASE Step(p)
    <3>1. PICK m \in Mutex :
            LockAnnounce(p, m) \/ LockTake(p, m) \/ UnlockAll(p, m) \/ ReadLock(p, m)
            \/ ReadUnlock(p, m)
      BY <2>3 DEF Step
    <3> QED
      BY <3>1, AnnounceKeeps, TakeKeeps, UnlockKeeps, ReadKeeps, ReadUnlockKeeps
  <2> QED
    BY <2>1, <2>2, <2>3
<1>2. CASE UNCHANGED lockVars
  <2>1. prog' = prog /\ readers' = readers /\ writer' = writer
        /\ \A p \in Proc : HeldBy(p)' = HeldBy(p)
    BY <1>2 DEF lockVars, HeldBy
  <2>2. LocksTypeOK' /\ ReadersInv'
    BY <2>1 DEF LocksInv, LocksTypeOK, ReadersInv
  <2>3. \A p \in Proc : Runs(prog'[p], HeldBy(p)', NothingHeld)
    BY <2>1 DEF LocksInv
  <2> QED
    BY <2>2, <2>3 DEF LocksInv
<1> QED
  BY <1>1, <1>2

\* The invariant holds throughout.
THEOREM LocksInvariant == ASSUME "list" \notin Ops PROVE LocksSpec => []LocksInv
<1>1. LocksInit => LocksInv
  BY InitHolds
<1>2. LocksInv /\ [LocksNext]_lockVars => LocksInv'
  BY LocksStep
<1> QED
  BY <1>1, <1>2, PTL DEF LocksSpec

\* LocksTypeOK for any goroutines: a reader count is never negative, which is
\* where RUnlock of a mutex that is not held panics (sync.RWMutex).
THEOREM LocksTypeCorrect == ASSUME "list" \notin Ops PROVE LocksSpec => []LocksTypeOK
<1>1. LocksInv => LocksTypeOK
  BY DEF LocksInv
<1> QED
  BY <1>1, LocksInvariant, PTL

----------------------------------------------------------------------------
(* Whoever waits at the greatest height waits for no one who waits.        *)

\* p is at a call that may have to wait, for m.
Waits(p, m) == Call(p, "lock", m) \/ Call(p, "rlock", m) \/ Call(p, "wait", m)

\* How high p waits: at a Lock or RLock of m at twice its rank, for the readers
\* of m just above.
Height(p) ==
    IF prog[p] = <<>> THEN 0
    ELSE LET c == Head(prog[p])
         IN  CASE c.call \in {"lock", "rlock"} -> 2 * Rank(c.on)
               [] c.call = "wait" -> 2 * Rank(c.on) + 1
               [] OTHER -> 0

\* Heights are at most 9.
LEMMA HeightBound ==
    ASSUME LocksInv, NEW p \in Proc
    PROVE  Height(p) \in 0..9
<1>1. CASE prog[p] # <<>>
  <2> DEFINE c == Head(prog[p])
  <2>1. c \in Calls
    BY <1>1, RestRuns DEF LocksInv
  <2>2. Rank(c.on) \in 1..4
    BY <2>1, RankFacts DEF Calls
  <2> HIDE DEF c
  <2>3. (2 * Rank(c.on)) \in 0..9 /\ (2 * Rank(c.on) + 1) \in 0..9
    BY <2>2
  <2>4. Height(p) \in {0, 2 * Rank(c.on), 2 * Rank(c.on) + 1}
    BY <1>1 DEF Height, c
  <2> QED
    BY <2>3, <2>4
<1>2. CASE prog[p] = <<>>
  BY <1>2 DEF Height
<1> QED
  BY <1>1, <1>2

\* The height of a goroutine at a call.
LEMMA HeightOf ==
    ASSUME NEW p \in Proc, NEW m \in Mutex
    PROVE  /\ Call(p, "lock", m) \/ Call(p, "rlock", m) => Height(p) = 2 * Rank(m)
           /\ Call(p, "wait", m) => Height(p) = 2 * Rank(m) + 1
BY DEF Call, Height

\* Whoever waits while it holds k waits above k; or it is the writer that waits
\* for k's readers.
LEMMA HeldIsLower ==
    ASSUME LocksInv, NEW p \in Proc, NEW m \in Mutex, NEW k \in Mutex,
           HeldBy(p)[k] # "free", Waits(p, m)
    PROVE  \/ Height(p) >= 2 * Rank(k) + 2
           \/ Call(p, "wait", k) /\ m = k /\ Height(p) = 2 * Rank(k) + 1
              /\ HeldBy(p)[k] = "waits"
<1>1. Rank(m) \in 1..4 /\ Rank(k) \in 1..4
  BY RankFacts
<1>2. CASE Call(p, "lock", m)
  <2>1. Legal(HeldBy(p), [call |-> "lock", on |-> m])
    BY <1>2, CallSays
  <2>2. Rank(k) < Rank(m)
    BY <2>1 DEF Legal, Below
  <2> QED
    BY <1>1, <1>2, <2>2, HeightOf
<1>3. CASE Call(p, "rlock", m)
  <2>1. Legal(HeldBy(p), [call |-> "rlock", on |-> m])
    BY <1>3, CallSays
  <2>2. Rank(k) < Rank(m)
    BY <2>1 DEF Legal, Below
  <2> QED
    BY <1>1, <1>3, <2>2, HeightOf
<1>4. CASE Call(p, "wait", m)
  <2>1. Legal(HeldBy(p), [call |-> "wait", on |-> m])
    BY <1>4, CallSays
  <2>2. k # m => Rank(k) < Rank(m)
    BY <2>1 DEF Legal
  <2>3. k = m => HeldBy(p)[k] = "waits"
    BY <2>1 DEF Legal
  <2> QED
    BY <1>1, <1>4, <2>2, <2>3, HeightOf
<1> QED
  BY <1>2, <1>3, <1>4 DEF Waits

\* Whoever is waited for holds the mutex, or has announced itself at it.
LEMMA WaitsForHeld ==
    ASSUME LocksInv, NEW p \in Proc, NEW q \in WaitsFor(p)
    PROVE  /\ q \in Proc
           /\ \E m \in Mutex :
                 \/ (Call(p, "lock", m) \/ Call(p, "rlock", m)) /\ HeldBy(q)[m] # "free"
                 \/ Call(p, "wait", m) /\ HeldBy(q)[m] = "reads"
<1>1. PICK m \in Mutex :
        \/ (Call(p, "lock", m) \/ Call(p, "rlock", m)) /\ q \in {writer[m].by} \ {"nobody"}
        \/ Call(p, "wait", m) /\ q \in {r \in Proc : readers[m][r] > 0}
  BY DEF WaitsFor
<1>2. CASE (Call(p, "lock", m) \/ Call(p, "rlock", m)) /\ q \in {writer[m].by} \ {"nobody"}
  <2>1. writer[m] = Free \/ writer[m] \in [by : Proc, state : {"waits", "holds"}]
    BY DEF LocksInv, LocksTypeOK
  <2>2. q \in Proc /\ writer[m].by = q
    BY <1>2, <2>1 DEF Free
  <2>3. HeldBy(q)[m] # "free"
    BY <2>2, HeldSays
  <2> QED
    BY <1>2, <2>2, <2>3
<1>3. CASE Call(p, "wait", m) /\ q \in {r \in Proc : readers[m][r] > 0}
  <2>1. q \in Proc /\ readers[m][q] = 1
    BY <1>3 DEF LocksInv, ReadersInv
  <2>2. HeldBy(q)[m] = "reads"
    BY <2>1, HeldSays
  <2> QED
    BY <1>3, <2>1, <2>2
<1> QED
  BY <1>1, <1>2, <1>3

\* Whoever waits for somebody is at a call that may have to wait.
LEMMA WaiterWaits ==
    ASSUME NEW p \in Proc, WaitsFor(p) # {}
    PROVE  \E m \in Mutex : Waits(p, m)
BY DEF WaitsFor, Waits

\* p waits lower than whomever it waits for, if that one waits.
LEMMA WaitingRises ==
    ASSUME LocksInv, NEW p \in Proc, NEW q \in WaitsFor(p), WaitsFor(q) # {}
    PROVE  Height(p) < Height(q)
<1>1. q \in Proc
  BY WaitsForHeld
<1>2. PICK k \in Mutex : Waits(q, k)
  BY <1>1, WaiterWaits
<1>3. Height(p) \in 0..9 /\ Height(q) \in 0..9
  BY <1>1, HeightBound
<1>4. PICK m \in Mutex :
        \/ (Call(p, "lock", m) \/ Call(p, "rlock", m)) /\ HeldBy(q)[m] # "free"
        \/ Call(p, "wait", m) /\ HeldBy(q)[m] = "reads"
  BY WaitsForHeld
<1>5. Rank(m) \in 1..4
  BY RankFacts
<1>6. CASE (Call(p, "lock", m) \/ Call(p, "rlock", m)) /\ HeldBy(q)[m] # "free"
  <2>1. Height(p) = 2 * Rank(m)
    BY <1>6, HeightOf
  <2>2. Height(q) >= 2 * Rank(m) + 2 \/ Height(q) = 2 * Rank(m) + 1
    BY <1>1, <1>2, <1>6, HeldIsLower
  <2> QED
    BY <1>3, <1>5, <2>1, <2>2
<1>7. CASE Call(p, "wait", m) /\ HeldBy(q)[m] = "reads"
  <2>1. Height(p) = 2 * Rank(m) + 1
    BY <1>7, HeightOf
  <2>2. Height(q) >= 2 * Rank(m) + 2
    BY <1>1, <1>2, <1>7, HeldIsLower
  <2> QED
    BY <1>3, <1>5, <2>1, <2>2
<1> QED
  BY <1>4, <1>6, <1>7

\* In a circle the heights would rise for ever.
LEMMA NoCircle == LocksInv => NoCircularWait
<1> SUFFICES ASSUME LocksInv, NEW S \in SUBSET Proc, S # {},
\A p \in S : WaitsFor(p) \cap S # {}
             PROVE  FALSE
  BY DEF NoCircularWait
<1>1. \A p \in S : Height(p) \in 0..9
  BY HeightBound
<1>2. \A p \in S : \E q \in S : Height(p) < Height(q)
  <2> SUFFICES ASSUME NEW p \in S PROVE \E q \in S : Height(p) < Height(q)
    OBVIOUS
  <2>1. PICK q \in S : q \in WaitsFor(p)
    OBVIOUS
  <2>2. WaitsFor(q) # {}
    OBVIOUS
  <2> QED
    BY <2>1, <2>2, WaitingRises
<1>3. ASSUME NEW n \in 0..9, \A p \in S : Height(p) < n + 1
      PROVE  \A p \in S : Height(p) < n
  <2> SUFFICES ASSUME NEW p \in S PROVE Height(p) < n
    OBVIOUS
  <2>1. PICK q \in S : Height(p) < Height(q)
    BY <1>2
  <2>2. Height(p) \in 0..9 /\ Height(q) \in 0..9 /\ Height(q) < n + 1
    BY <1>1, <1>3
  <2> QED
    BY <2>1, <2>2
<1> DEFINE Low(n) == \A p \in S : Height(p) < n
<1>4. \A n \in 0..9 : Low(n + 1) => Low(n)
  BY <1>3
<1>5. Low(9 + 1)
  BY <1>1
<1>6. ~ Low(0)
  BY <1>1
<1> HIDE DEF Low
<1>7. Low(9) /\ Low(8) /\ Low(7)
  <2>1. 9 = 8 + 1 /\ 8 = 7 + 1 /\ {7, 8, 9} \subseteq 0..9
    OBVIOUS
  <2> QED
    BY <1>4, <1>5, <2>1
<1>8. Low(6) /\ Low(5) /\ Low(4)
  <2>1. 7 = 6 + 1 /\ 6 = 5 + 1 /\ 5 = 4 + 1 /\ {4, 5, 6} \subseteq 0..9
    OBVIOUS
  <2> QED
    BY <1>4, <1>7, <2>1
<1>9. Low(3) /\ Low(2) /\ Low(1)
  <2>1. 4 = 3 + 1 /\ 3 = 2 + 1 /\ 2 = 1 + 1 /\ {1, 2, 3} \subseteq 0..9
    OBVIOUS
  <2> QED
    BY <1>4, <1>8, <2>1
<1>10. Low(0)
  BY <1>4, <1>9
<1> QED
  BY <1>6, <1>10

\* NoCircularWait for any goroutines: handlers, the janitor, Save and the
\* instance operations never deadlock on the node's mutexes, as long as no
\* listing of an encrypted directory runs.
THEOREM NoCircularWaitHolds == ASSUME "list" \notin Ops PROVE LocksSpec => []NoCircularWait
<1>1. LocksInv => NoCircularWait
  BY NoCircle
<1> QED
  BY <1>1, LocksInvariant, PTL

-----------------------------------------------------------------------------
(* The tunnels: the inductive invariant.                                    *)

\* Where a start is before its process is known, and a stop when it has one.
BeforeProcess == {"enter", "write", "spawn", "publish"}
Stopping == {"kill", "giveback", "settle"}

\* The places of each operation.
FrpPlaceFits(op, pc) ==
    \/ op = "create" /\ pc \in {"save"} \cup BeforeProcess
    \/ op = "start" /\ pc \in {"look"} \cup BeforeProcess
    \/ op = "stop" /\ pc \in {"idle", "take"} \cup Stopping
    \/ op = "delete" /\ pc \in {"take", "remove", "save"} \cup Stopping
    \/ op = "halt" /\ pc \in {"take"} \cup Stopping

\* A request is at a tunnel that was made; it holds a process of this tunnel, from the
\* spawn on or from the take on.
FrpRequestFits(q) ==
    /\ FrpPlaceFits(freq[q].op, freq[q].pc)
    /\ freq[q].pc = "idle" => freq[q] = FrpFree
    /\ freq[q].pc # "idle" => T(q) \in everMade
    /\ freq[q].holds # 0 => freq[q].holds \in 1..lastFrpc /\ serves[freq[q].holds] = T(q)
    /\ freq[q].pc \in Stopping \cup {"publish"} => freq[q].holds # 0
    /\ freq[q].pc = "giveback" => frpFails # 0
    /\ freq[q].holds # 0 =>
         \/ freq[q].pc \in Stopping \cup {"publish"}
         \/ freq[q].op = "delete" /\ freq[q].pc \in {"remove", "save"}
FrpRequestInv == \A q \in FrpRequest : FrpRequestFits(q)

\* It is alone there, unless the tunnel is touched.
FrpAloneInv ==
    \A q, o \in FrpRequest : q # o /\ T(o) = T(q) => T(q) \in touched \cup {NoTunnel}

\* A tunnel is listed as long as it is not deleted, and a change of the list is saved
\* or will be.
FrpListedInv ==
    /\ tunnels \subseteq everMade /\ saved \subseteq everMade
    /\ \A q \in FrpRequest :
         IF freq[q].op = "delete" THEN T(q) \notin tunnels
         ELSE T(q) \in tunnels \cup touched \cup {NoTunnel}
    /\ frpFails = 0 /\ saved # tunnels =>
         \E q \in FrpRequest : freq[q].op = "delete" \/ freq[q].pc = "save"

\* Processes are numbered, and a tunnel has one of its own.
FrpProcessInv ==
    /\ frpc \subseteq 1..lastFrpc
    /\ \A p \in 1..lastFrpc : serves[p] \in everMade
    /\ \A t \in Tunnel : tunnelProc[t] # 0 =>
          t \in everMade /\ tunnelProc[t] \in 1..lastFrpc /\ serves[tunnelProc[t]] = t
    /\ \A t \in Tunnel \ everMade : status[t] = "stopped"

\* The phases of the node.
FrpGateInv ==
    /\ gate \in {"open", "sealed"} => \A q \in FrpRequest : freq[q].op # "halt"
    /\ gate \in {"stopping", "over"} =>
         /\ guarded = {} /\ toStop \subseteq tunnels
         /\ \A q \in FrpRequest : freq[q].pc = "idle" \/ freq[q].op = "halt"
    /\ gate = "over" => toStop = {} /\ Idle

\* What a request that is alone at its tunnel knows of the process there.
FrpAloneKnows(q) ==
    /\ freq[q].pc \in BeforeProcess \/ freq[q].op = "create" => tunnelProc[T(q)] \notin frpc
    /\ freq[q].pc \in Stopping => tunnelProc[T(q)] = 0
    /\ freq[q].pc = "settle" => freq[q].holds \notin frpc
    /\ freq[q].pc \in {"kill", "giveback"} =>
         freq[q].op = "delete" \/ status[T(q)] = "running" \/ freq[q].holds \in loose
    /\ freq[q].op = "delete" /\ freq[q].pc \in {"giveback", "remove", "save"} =>
         tunnelProc[T(q)] \notin frpc \ loose /\ freq[q].holds \notin frpc \ loose
FrpPlaceInv == \A q \in FrpRequest : T(q) \notin touched \cup {NoTunnel} => FrpAloneKnows(q)

\* What a shutdown has not come to.
Unstopped(t) == t \in toStop \/ \E q \in FrpRequest : T(q) = t /\ freq[q].pc = "take"

\* The status of a listed tunnel that nobody is stopping.
FrpStatusFits(t) ==
    (\A q \in FrpRequest : T(q) = t => freq[q].pc \notin Stopping) =>
        IF status[t] = "running"
        THEN tunnelProc[t] \in guarded \cup loose \/ (gate = "stopping" /\ Unstopped(t))
        ELSE tunnelProc[t] \notin frpc \ loose
FrpStatusInv == \A t \in tunnels \ touched : FrpStatusFits(t)

\* What a shutdown has come to does not run.
FrpStoppedInv ==
    gate \in {"stopping", "over"} /\ frpFails = 0 =>
        \A t \in tunnels \ touched : Unstopped(t) \/ tunnelProc[t] \notin frpc

\* A process and whose it is.
FrpcKnown(p) ==
    serves[p] \notin touched =>
        \/ tunnelProc[serves[p]] = p
           /\ (serves[p] \in tunnels \/ \E q \in FrpRequest : T(q) = serves[p])
        \/ \E q \in FrpRequest : T(q) = serves[p] /\ freq[q].holds = p
FrpKnownInv == \A p \in frpc \ loose : FrpcKnown(p)

\* The invariant of the tunnels.
FrpInv ==
    /\ FrpTypeOK /\ FrpRequestInv /\ FrpAloneInv /\ FrpListedInv /\ FrpProcessInv
    /\ FrpGateInv /\ FrpPlaceInv /\ FrpStatusInv /\ FrpStoppedInv /\ FrpKnownInv

\* What the code keeps follows from it.
LEMMA FrpInvHolds == FrpInv => FrpTypeOK /\ FrpHolds
<1> SUFFICES ASSUME FrpInv PROVE FrpTypeOK /\ FrpHolds
  OBVIOUS
<1> USE DEF FrpInv
<1>1. FrpTypeOK
  OBVIOUS
<1>2. EveryFrpcIsKnown
  <2> SUFFICES ASSUME NEW p \in frpc \ loose, serves[p] \notin touched
               PROVE  \/ tunnelProc[serves[p]] = p /\ (serves[p] \in tunnels \/ At_(serves[p]) # {})
                      \/ \E q \in At_(serves[p]) : freq[q].holds = p
    BY DEF EveryFrpcIsKnown
  <2>1. FrpcKnown(p)
    BY DEF FrpKnownInv
  <2> QED BY <2>1 DEF FrpcKnown, At_
<1>3. NoneAfterShutdown
  <2> SUFFICES ASSUME gate = "over", frpFails = 0, NEW p \in frpc \ loose, serves[p] \notin touched
               PROVE  FALSE
    BY DEF NoneAfterShutdown
  <2>1. \A q \in FrpRequest : T(q) = NoTunnel /\ freq[q].pc = "idle"
    BY DEF FrpGateInv, Idle, FrpAt, FrpRequestInv, FrpRequestFits, FrpFree, T
  <2>2. serves[p] \in everMade /\ everMade \subseteq Tunnel /\ NoTunnel \notin Tunnel
    BY FrpAssumption DEF FrpProcessInv, FrpTypeOK, NoTunnel
  <2>3. tunnelProc[serves[p]] = p /\ serves[p] \in tunnels
    BY <2>1, <2>2 DEF FrpKnownInv, FrpcKnown
  <2>4. ~Unstopped(serves[p])
    BY <2>1 DEF Unstopped, FrpGateInv
  <2> QED BY <2>3, <2>4 DEF FrpStoppedInv
<1>4. StatusIsTrue
  <2> SUFFICES ASSUME NEW t \in tunnels \ touched, At_(t) = {}
               PROVE  IF status[t] = "running"
                      THEN tunnelProc[t] \in frpc \cup guarded \cup loose \/ gate = "stopping"
                      ELSE tunnelProc[t] \notin frpc \/ tunnelProc[t] \in loose
    BY DEF StatusIsTrue
  <2>1. FrpStatusFits(t)
    BY DEF FrpStatusInv
  <2> QED BY <2>1 DEF FrpStatusFits, At_
<1>5. ListIsSaved
  <2> SUFFICES ASSUME frpFails = 0, \A q \in FrpRequest : ~FrpAt(q, "save") /\ freq[q].op # "delete"
               PROVE  saved = tunnels
    BY DEF ListIsSaved
  <2> QED BY DEF FrpListedInv, FrpAt
<1> QED BY <1>1, <1>2, <1>3, <1>4, <1>5 DEF FrpHolds

\* The first state has nothing.
LEMMA FrpBegins == FrpInit => FrpInv
<1> SUFFICES ASSUME FrpInit PROVE FrpInv
  OBVIOUS
<1> USE DEF FrpInit
<1>1. FrpTypeOK
  BY FrpAssumption DEF FrpTypeOK, FrpFree, NoTunnel, Frpc
<1>2. FrpRequestInv
  BY DEF FrpRequestInv, FrpRequestFits, FrpPlaceFits, FrpFree, T, NoTunnel, Stopping
<1>3. \A q \in FrpRequest : T(q) = NoTunnel /\ freq[q].op = "stop" /\ freq[q].pc = "idle"
  BY DEF FrpFree, T
<1>4. FrpAloneInv /\ FrpPlaceInv
  BY <1>3 DEF FrpAloneInv, FrpPlaceInv
<1>5. FrpListedInv
  BY <1>3 DEF FrpListedInv
<1>6. FrpProcessInv
  BY DEF FrpProcessInv
<1>7. FrpGateInv
  BY <1>3 DEF FrpGateInv
<1>8. FrpStatusInv /\ FrpStoppedInv /\ FrpKnownInv
  BY DEF FrpStatusInv, FrpStoppedInv, FrpKnownInv
<1> QED BY <1>1, <1>2, <1>4, <1>5, <1>6, <1>7, <1>8 DEF FrpInv

-----------------------------------------------------------------------------
(* One request takes a step.                                                *)

\* What a request does and how far it is.
FrpJob == [op : {"create", "start", "stop", "delete", "halt"},
           pc : {"idle", "save", "look", "enter", "write", "spawn", "publish",
                 "take", "kill", "giveback", "settle", "remove"},
           of : Tunnel \cup {NoTunnel}, holds : 0..MaxFrpc]

\* What the types say of a request.
LEMMA FrpSays ==
    ASSUME FrpTypeOK, NEW q \in FrpRequest
    PROVE  /\ freq \in [FrpRequest -> FrpJob] /\ freq[q] \in FrpJob
           /\ freq[q].of \in Tunnel \cup {NoTunnel} /\ freq[q].holds \in 0..MaxFrpc
           /\ NoTunnel \notin Tunnel
BY FrpAssumption DEF FrpTypeOK, FrpJob, NoTunnel

\* A step of q is at its own tunnel, and may be its last.
FrpSteps(q) ==
    /\ freq' \in [FrpRequest -> FrpJob]
    /\ \A o \in FrpRequest \ {q} : freq'[o] = freq[o]
    /\ freq[q].pc # "idle"
    /\ \/ freq'[q] = FrpFree
       \/ freq'[q].op = freq[q].op /\ freq'[q].of = freq[q].of /\ freq'[q].pc # "idle"
    /\ tunnels' = tunnels /\ everMade' = everMade /\ touched' = touched
    /\ gate' = gate /\ toStop' = toStop

\* Such a step leaves the other tunnels and their processes alone.
FrpElsewhere(q) ==
    /\ \A t \in Tunnel \ {T(q)} : tunnelProc'[t] = tunnelProc[t] /\ status'[t] = status[t]
    /\ lastFrpc <= lastFrpc'
    /\ \A p \in 1..lastFrpc : serves'[p] = serves[p]
    /\ \A p \in frpc' \ frpc : p # 0 /\ p \notin 1..lastFrpc /\ serves'[p] = T(q)
    /\ loose \subseteq loose' /\ guarded \subseteq guarded'
    /\ frpFails' = 0 => frpFails = 0

\* q is at a tunnel, and alone there unless that is touched.
LEMMA FrpAlone ==
    ASSUME FrpInv, NEW q \in FrpRequest, freq[q].pc # "idle"
    PROVE  /\ T(q) \in Tunnel /\ T(q) \in everMade /\ T(q) # NoTunnel
           /\ T(q) \notin touched => \A o \in FrpRequest \ {q} : T(o) # T(q)
<1>1. T(q) \in everMade
  BY DEF FrpInv, FrpRequestInv, FrpRequestFits
<1>2. everMade \subseteq Tunnel /\ NoTunnel \notin Tunnel
  BY FrpSays DEF FrpInv, FrpTypeOK
<1>3. T(q) \notin touched => \A o \in FrpRequest \ {q} : T(o) # T(q)
  BY <1>1, <1>2 DEF FrpInv, FrpAloneInv
<1> QED BY <1>1, <1>2, <1>3

\* The others stay where they are.
LEMMA FrpOthersFit ==
    ASSUME FrpInv, NEW q \in FrpRequest, FrpSteps(q), FrpElsewhere(q), NEW o \in FrpRequest \ {q},
           lastFrpc' \in Nat
    PROVE  FrpRequestFits(o)'
<1>1. freq'[o] = freq[o] /\ everMade' = everMade
  BY DEF FrpSteps
<1>2. FrpRequestFits(o) /\ lastFrpc \in Nat
  BY DEF FrpInv, FrpRequestInv, FrpTypeOK
<1>3. freq[o].holds \in 1..lastFrpc =>
          freq[o].holds \in 1..lastFrpc' /\ serves'[freq[o].holds] = serves[freq[o].holds]
  BY <1>2 DEF FrpElsewhere
<1>4. frpFails' = 0 => frpFails = 0
  BY DEF FrpElsewhere
<1> QED BY <1>1, <1>2, <1>3, <1>4 DEF FrpRequestFits, T

\* Two requests are at one tunnel only when it is touched, after the step as before.
LEMMA FrpAloneKept ==
    ASSUME FrpInv, NEW q \in FrpRequest, FrpSteps(q)
    PROVE  FrpAloneInv'
<1>1. freq'[q].of \in {freq[q].of, NoTunnel}
  BY DEF FrpSteps, FrpFree
<1>2. \A o \in FrpRequest \ {q} : freq'[o].of = freq[o].of
  BY DEF FrpSteps
<1>3. touched' = touched
  BY DEF FrpSteps
<1>4. \A i, o \in FrpRequest : i # o /\ freq[o].of = freq[i].of => freq[i].of \in touched \cup {NoTunnel}
  BY DEF FrpInv, FrpAloneInv, T
<1>5. \A i, o \in FrpRequest : i # o /\ freq'[o].of = freq'[i].of => freq'[i].of \in touched \cup {NoTunnel}
  BY <1>1, <1>2, <1>4
<1> QED BY <1>3, <1>5 DEF FrpAloneInv, T

\* What they know holds still.
LEMMA FrpOthersKnow ==
    ASSUME FrpInv, NEW q \in FrpRequest, FrpSteps(q), FrpElsewhere(q), NEW o \in FrpRequest \ {q},
           T(o)' \notin touched' \cup {NoTunnel}
    PROVE  FrpAloneKnows(o)'
<1>1. freq'[o] = freq[o] /\ touched' = touched
  BY DEF FrpSteps
<1>2. T(o) \notin touched /\ T(o) # NoTunnel /\ T(o)' = T(o)
  BY <1>1 DEF T
<1>3. T(o) \in Tunnel /\ T(o) # T(q)
  BY <1>2, FrpSays DEF FrpInv, FrpAloneInv, T
<1>4. tunnelProc'[T(o)] = tunnelProc[T(o)] /\ status'[T(o)] = status[T(o)]
  BY <1>3 DEF FrpElsewhere
<1>5. FrpAloneKnows(o)
  BY <1>2 DEF FrpInv, FrpPlaceInv
<1>6. tunnelProc[T(o)] \in 0..lastFrpc /\ (tunnelProc[T(o)] # 0 => tunnelProc[T(o)] \in 1..lastFrpc)
  BY <1>3 DEF FrpInv, FrpProcessInv, FrpTypeOK
<1>7. \A p \in 1..lastFrpc : p \in frpc' => p \in frpc
  BY DEF FrpElsewhere
<1>8. 0 \notin frpc' /\ 0 \notin frpc
  <2>1. 0 \notin frpc
    BY DEF FrpInv, FrpTypeOK, Frpc
  <2> QED BY <2>1 DEF FrpElsewhere
<1>9. tunnelProc[T(o)] \in frpc' => tunnelProc[T(o)] \in frpc
  BY <1>6, <1>7, <1>8
<1>10. freq[o].holds \in frpc' => freq[o].holds \in frpc
  <2>1. freq[o].holds # 0 => freq[o].holds \in 1..lastFrpc
    BY DEF FrpInv, FrpRequestInv, FrpRequestFits
  <2> QED BY <2>1, <1>7, <1>8
<1>11. loose \subseteq loose'
  BY DEF FrpElsewhere
<1> QED BY <1>1, <1>2, <1>4, <1>5, <1>9, <1>10, <1>11 DEF FrpAloneKnows, T

\* So does what is said of the other tunnels.
LEMMA FrpOthersStand ==
    ASSUME FrpInv, NEW q \in FrpRequest, FrpSteps(q), FrpElsewhere(q),
           NEW t \in tunnels \ touched, t # T(q)
    PROVE  /\ FrpStatusFits(t)'
           /\ gate' \in {"stopping", "over"} /\ frpFails' = 0 =>
                 Unstopped(t)' \/ tunnelProc'[t] \notin frpc'
<1>1. t \in Tunnel /\ tunnelProc'[t] = tunnelProc[t] /\ status'[t] = status[t]
  <2>1. t \in Tunnel
    BY DEF FrpInv, FrpTypeOK
  <2> QED BY <2>1 DEF FrpElsewhere
<1>2. \A o \in FrpRequest : (freq'[o].of = t <=> freq[o].of = t) /\ (freq[o].of = t => freq'[o] = freq[o])
  <2>1. NoTunnel # t
    BY <1>1, FrpSays DEF FrpInv
  <2>2. freq[q].of # t /\ freq'[q].of # t
    BY <2>1 DEF FrpSteps, FrpFree, T
  <2> QED BY <2>2 DEF FrpSteps
<1>3. Unstopped(t)' <=> Unstopped(t)
  BY <1>2 DEF Unstopped, T, FrpSteps
<1>4. tunnelProc[t] \in frpc' => tunnelProc[t] \in frpc
  <2>1. tunnelProc[t] # 0 => tunnelProc[t] \in 1..lastFrpc
    BY <1>1 DEF FrpInv, FrpProcessInv
  <2>2. 0 \notin frpc'
    <3>1. 0 \notin frpc
      BY DEF FrpInv, FrpTypeOK, Frpc
    <3> QED BY <3>1 DEF FrpElsewhere
  <2> QED BY <2>1, <2>2 DEF FrpElsewhere
<1>5. loose \subseteq loose' /\ guarded \subseteq guarded' /\ (frpFails' = 0 => frpFails = 0) /\ gate' = gate
  BY DEF FrpElsewhere, FrpSteps
<1>6. FrpStatusFits(t)
  BY DEF FrpInv, FrpStatusInv
<1>7. FrpStatusFits(t)'
  BY <1>1, <1>2, <1>3, <1>4, <1>5, <1>6 DEF FrpStatusFits, T
<1>8. gate \in {"stopping", "over"} /\ frpFails = 0 => Unstopped(t) \/ tunnelProc[t] \notin frpc
  BY DEF FrpInv, FrpStoppedInv
<1> QED BY <1>1, <1>3, <1>4, <1>5, <1>7, <1>8

\* And their processes are known.
LEMMA FrpOthersKnown ==
    ASSUME FrpInv, NEW q \in FrpRequest, FrpSteps(q), FrpElsewhere(q),
           NEW p \in frpc' \ loose', serves'[p] # T(q)
    PROVE  FrpcKnown(p)'
<1>1. p \in frpc \ loose /\ p \in 1..lastFrpc
  <2>1. p \in frpc /\ p \notin loose
    BY DEF FrpElsewhere
  <2> QED BY <2>1 DEF FrpInv, FrpProcessInv
<1>2. serves'[p] = serves[p] /\ serves[p] \in Tunnel
  <2>1. serves[p] \in everMade
    BY <1>1 DEF FrpInv, FrpProcessInv
  <2> QED BY <1>1, <2>1 DEF FrpElsewhere, FrpInv, FrpTypeOK
<1>3. tunnelProc'[serves[p]] = tunnelProc[serves[p]]
  BY <1>2 DEF FrpElsewhere
<1>4. FrpcKnown(p)
  BY <1>1 DEF FrpInv, FrpKnownInv
<1>5. \A o \in FrpRequest : T(o) = serves[p] => freq'[o] = freq[o]
  BY <1>2 DEF FrpSteps
<1> QED BY <1>2, <1>3, <1>4, <1>5 DEF FrpcKnown, T, FrpSteps

\* When a step shows what is said of its own request and tunnel, the invariant is kept,
\* but for the types, the list, the processes and the gate.
LEMMA FrpStepKeeps ==
    ASSUME FrpInv, NEW q \in FrpRequest, FrpSteps(q), FrpElsewhere(q), lastFrpc' \in Nat,
           FrpRequestFits(q)', NEW h, h = T(q),
           h \notin touched =>
             /\ freq'[q].pc # "idle" => FrpAloneKnows(q)'
             /\ h \in tunnels => FrpStatusFits(h)'
             /\ h \in tunnels /\ gate \in {"stopping", "over"} /\ frpFails' = 0 =>
                  Unstopped(h)' \/ tunnelProc'[h] \notin frpc'
             /\ \A p \in frpc' \ loose' : serves'[p] = h => FrpcKnown(p)'
    PROVE  FrpRequestInv' /\ FrpAloneInv' /\ FrpPlaceInv' /\ FrpStatusInv' /\ FrpStoppedInv' /\ FrpKnownInv'
<1>0. touched' = touched /\ tunnels' = tunnels /\ gate' = gate
  BY DEF FrpSteps
<1>1. FrpRequestInv'
  <2> SUFFICES ASSUME NEW o \in FrpRequest PROVE FrpRequestFits(o)'
    BY DEF FrpRequestInv
  <2> QED BY FrpOthersFit
<1>2. FrpAloneInv'
  BY FrpAloneKept
<1>3. FrpPlaceInv'
  <2> SUFFICES ASSUME NEW o \in FrpRequest, T(o)' \notin touched' \cup {NoTunnel}
               PROVE  FrpAloneKnows(o)'
    BY DEF FrpPlaceInv
  <2>1. CASE o # q
    BY <2>1, FrpOthersKnow
  <2>2. CASE o = q
    <3>1. freq'[q] # FrpFree
      BY <2>2 DEF FrpFree, T
    <3>2. freq'[q].pc # "idle" /\ T(q)' = h
      BY <3>1 DEF FrpSteps, T
    <3> QED BY <2>2, <3>2, <1>0
  <2> QED BY <2>1, <2>2
<1>4. FrpStatusInv'
  <2> SUFFICES ASSUME NEW t \in tunnels \ touched PROVE FrpStatusFits(t)'
    BY <1>0 DEF FrpStatusInv
  <2>1. CASE t # h
    BY <2>1, FrpOthersStand
  <2>2. CASE t = h
    BY <2>2
  <2> QED BY <2>1, <2>2
<1>5. FrpStoppedInv'
  <2> SUFFICES ASSUME gate \in {"stopping", "over"}, frpFails' = 0, NEW t \in tunnels \ touched
               PROVE  Unstopped(t)' \/ tunnelProc'[t] \notin frpc'
    BY <1>0 DEF FrpStoppedInv
  <2>1. CASE t # h
    BY <2>1, FrpOthersStand, <1>0
  <2>2. CASE t = h
    BY <2>2
  <2> QED BY <2>1, <2>2
<1>6. FrpKnownInv'
  <2> SUFFICES ASSUME NEW p \in frpc' \ loose' PROVE FrpcKnown(p)'
    BY DEF FrpKnownInv
  <2>1. CASE serves'[p] # h
    BY <2>1, FrpOthersKnown
  <2>2. CASE serves'[p] = h
    <3>1. CASE h \in touched
      BY <2>2, <3>1, <1>0 DEF FrpcKnown
    <3> QED BY <2>2, <3>1
  <2> QED BY <2>1, <2>2
<1> QED BY <1>1, <1>2, <1>3, <1>4, <1>5, <1>6

\* The list is as it was, and whoever will save it is there still.
LEMMA FrpListKept ==
    ASSUME FrpInv, NEW q \in FrpRequest, FrpSteps(q), saved' = saved, freq[q].pc # "save",
           frpFails' = 0 => frpFails = 0, freq'[q] = FrpFree => freq[q].op # "delete"
    PROVE  FrpListedInv'
<1>1. tunnels' = tunnels /\ everMade' = everMade /\ touched' = touched
  BY DEF FrpSteps
<1>2. \A o \in FrpRequest :
        IF freq'[o].op = "delete" THEN freq'[o].of \notin tunnels
        ELSE freq'[o].of \in tunnels \cup touched \cup {NoTunnel}
  BY DEF FrpSteps, FrpInv, FrpListedInv, FrpFree, T
<1>3. \A o \in FrpRequest : freq[o].op = "delete" \/ freq[o].pc = "save"
        => freq'[o].op = "delete" \/ freq'[o].pc = "save"
  BY DEF FrpSteps
<1> QED BY <1>1, <1>2, <1>3 DEF FrpInv, FrpListedInv, T

\* Nothing of the node changes, and only a start has its process waited for.
LEMMA FrpGateKept ==
    ASSUME FrpInv, NEW q \in FrpRequest, FrpSteps(q),
           guarded' = guarded \/ freq[q].op \in {"create", "start"}
    PROVE  FrpGateInv'
<1>1. gate' = gate /\ toStop' = toStop
  BY DEF FrpSteps
<1>2. gate # "over"
  BY DEF FrpSteps, FrpInv, FrpGateInv, Idle, FrpAt
<1>3. CASE gate \in {"open", "sealed"}
  <2>1. \A o \in FrpRequest : freq'[o].op # "halt"
    BY <1>3 DEF FrpSteps, FrpInv, FrpGateInv, FrpFree
  <2> QED BY <1>1, <1>2, <1>3, <2>1 DEF FrpGateInv
<1>4. CASE gate = "stopping"
  <2>1. guarded = {} /\ toStop \subseteq tunnels
        /\ \A o \in FrpRequest : freq[o].pc = "idle" \/ freq[o].op = "halt"
    BY <1>4 DEF FrpInv, FrpGateInv
  <2>2. guarded' = {}
    BY <2>1 DEF FrpSteps
  <2>3. \A o \in FrpRequest : freq'[o].pc = "idle" \/ freq'[o].op = "halt"
    BY <2>1 DEF FrpSteps, FrpFree
  <2> QED BY <1>1, <1>4, <2>1, <2>2, <2>3 DEF FrpGateInv, FrpSteps
<1> QED BY <1>2, <1>3, <1>4 DEF FrpInv, FrpTypeOK

\* No process begins, and what is put into the tunnel of q is its own.
LEMMA FrpProcessesKept ==
    ASSUME FrpInv, NEW q \in FrpRequest, FrpSteps(q), frpc' \subseteq frpc,
           serves' = serves, lastFrpc' = lastFrpc,
           \A t \in Tunnel \ {T(q)} : tunnelProc'[t] = tunnelProc[t] /\ status'[t] = status[t],
           tunnelProc'[T(q)] \in {tunnelProc[T(q)], 0, freq[q].holds}
    PROVE  FrpProcessInv'
<1>1. everMade' = everMade
  BY DEF FrpSteps
<1>2. T(q) \in everMade /\ T(q) \in Tunnel
  BY FrpAlone DEF FrpSteps
<1>3. freq[q].holds # 0 => freq[q].holds \in 1..lastFrpc /\ serves[freq[q].holds] = T(q)
  BY DEF FrpInv, FrpRequestInv, FrpRequestFits
<1>4. FrpProcessInv
  BY DEF FrpInv
<1>5. \A t \in Tunnel : tunnelProc'[t] # 0 =>
          t \in everMade /\ tunnelProc'[t] \in 1..lastFrpc /\ serves[tunnelProc'[t]] = t
  <2> SUFFICES ASSUME NEW t \in Tunnel, tunnelProc'[t] # 0
               PROVE  t \in everMade /\ tunnelProc'[t] \in 1..lastFrpc /\ serves[tunnelProc'[t]] = t
    OBVIOUS
  <2>1. CASE t = T(q)
    BY <2>1, <1>2, <1>3, <1>4 DEF FrpProcessInv
  <2>2. CASE t # T(q)
    BY <2>2, <1>4 DEF FrpProcessInv
  <2> QED BY <2>1, <2>2
<1>6. \A t \in Tunnel \ everMade : status'[t] = "stopped"
  BY <1>2, <1>4 DEF FrpProcessInv
<1> QED BY <1>1, <1>4, <1>5, <1>6 DEF FrpProcessInv

\* Where a request that touches no process goes.
FrpGoesOn(q) ==
    \/ freq'[q].pc = "enter" /\ freq[q].pc = "look" /\ tunnelProc[T(q)] \notin frpc
    \/ freq'[q].pc = "save" /\ freq[q].pc = "remove"
    \/ freq'[q].pc = "enter" /\ freq[q].pc = "save" /\ freq[q].op = "create"
    \/ freq'[q].pc = "write" /\ freq[q].pc = "enter"
    \/ freq'[q].pc = "spawn" /\ freq[q].pc = "write"

\* A step that leaves the processes alone keeps the invariant.
LEMMA FrpQuietKeeps ==
    ASSUME FrpInv, NEW q \in FrpRequest, FrpSteps(q),
           freq[q].pc \in {"look", "remove", "save", "enter", "write", "spawn"},
           freq'[q] = FrpFree \/ (freq'[q].holds = freq[q].holds /\ FrpGoesOn(q)),
           freq'[q] = FrpFree => freq[q].pc # "remove",
           tunnelProc' = tunnelProc, status' = status, frpc' = frpc, serves' = serves, lastFrpc' = lastFrpc,
           guarded' = guarded, loose' = loose, config' \subseteq Tunnel,
           frpOps' = frpOps, frpFails' \in 0..MaxFrpFails, frpFails' = 0 => frpFails = 0,
           saved' = saved \/ saved' = tunnels,
           freq[q].pc = "save" => saved' = tunnels \/ frpFails' # 0, freq[q].pc # "save" => saved' = saved
    PROVE  FrpInv'
<1> USE DEF FrpInv
<1>1. FrpTypeOK'
  BY DEF FrpTypeOK, FrpSteps, FrpJob
<1>2. FrpElsewhere(q) /\ lastFrpc' \in Nat
  BY DEF FrpElsewhere, FrpTypeOK
<1>3. FrpRequestFits(q)
  BY DEF FrpRequestInv
<1>0. PICK h : h = T(q)
  OBVIOUS
<1>4. h \in Tunnel /\ h \in everMade /\ h # NoTunnel
      /\ (h \notin touched => \A o \in FrpRequest \ {q} : T(o) # h)
  BY <1>0, FrpAlone DEF FrpSteps
<1>5. FrpRequestFits(q)'
  <2>1. CASE freq'[q] = FrpFree
    BY <2>1 DEF FrpRequestFits, FrpFree, FrpPlaceFits, Stopping
  <2>2. CASE freq'[q] # FrpFree
    <3>1. freq'[q].op = freq[q].op /\ freq'[q].of = freq[q].of /\ freq'[q].holds = freq[q].holds /\ FrpGoesOn(q)
      BY <2>2 DEF FrpSteps
    <3>2. FrpPlaceFits(freq'[q].op, freq'[q].pc)
      BY <1>3, <3>1 DEF FrpGoesOn, FrpRequestFits, FrpPlaceFits, BeforeProcess, Stopping
    <3>3. freq'[q].pc \notin Stopping \cup {"publish", "idle"}
      BY <3>1 DEF FrpGoesOn, Stopping
    <3>4. freq[q].holds # 0 => freq[q].op = "delete" /\ freq'[q].pc = "save"
      BY <1>3, <3>1 DEF FrpGoesOn, FrpRequestFits, Stopping, FrpPlaceFits, BeforeProcess
    <3>5. everMade' = everMade
      BY DEF FrpSteps
    <3> QED BY <1>3, <3>1, <3>2, <3>3, <3>4, <3>5 DEF FrpRequestFits, T, Stopping, FrpSteps
  <2> QED BY <2>1, <2>2
<1>6. ASSUME h \notin touched
      PROVE  /\ freq'[q].pc # "idle" => FrpAloneKnows(q)'
             /\ h \in tunnels => FrpStatusFits(h)'
             /\ h \in tunnels /\ gate \in {"stopping", "over"} /\ frpFails' = 0 =>
                  Unstopped(h)' \/ tunnelProc'[h] \notin frpc'
             /\ \A p \in frpc' \ loose' : serves'[p] = h => FrpcKnown(p)'
  <2>1. FrpAloneKnows(q)
    BY <1>0, <1>4, <1>6 DEF FrpPlaceInv
  <2>2. freq'[q].pc # "idle" => FrpAloneKnows(q)'
    <3> SUFFICES ASSUME freq'[q].pc # "idle" PROVE FrpAloneKnows(q)'
      OBVIOUS
    <3>1. freq'[q].op = freq[q].op /\ freq'[q].of = freq[q].of /\ freq'[q].holds = freq[q].holds /\ FrpGoesOn(q)
      BY DEF FrpSteps, FrpFree
    <3> QED BY <1>0, <2>1, <3>1, <1>3 DEF FrpAloneKnows, FrpGoesOn, T, BeforeProcess, Stopping,
           FrpRequestFits, FrpPlaceFits
  <2>3. h \in tunnels => FrpStatusFits(h)'
    <3> SUFFICES ASSUME h \in tunnels PROVE FrpStatusFits(h)'
      OBVIOUS
    <3>1. FrpStatusFits(h)
      BY <1>6 DEF FrpStatusInv
    <3>2. \A o \in FrpRequest : T(o) = h => freq[o].pc \notin Stopping /\ freq[o].pc # "take"
      BY <1>0, <1>4, <1>6 DEF Stopping
    <3>3. toStop' = toStop /\ gate' = gate
      BY DEF FrpSteps
    <3> QED BY <3>1, <3>2, <3>3 DEF FrpStatusFits, Unstopped, T
  <2>4. gate \notin {"stopping", "over"}
    <3>1. freq[q].op # "halt" /\ freq[q].pc # "idle"
      BY <1>3 DEF FrpRequestFits, FrpPlaceFits, Stopping
    <3> QED BY <3>1 DEF FrpGateInv
  <2>5. \A p \in frpc' \ loose' : serves'[p] = h => FrpcKnown(p)'
    <3> SUFFICES ASSUME NEW p \in frpc \ loose, serves[p] = h PROVE FrpcKnown(p)'
      OBVIOUS
    <3>1. FrpcKnown(p)
      BY DEF FrpKnownInv
    <3>2. freq[q].holds # p
      <4>1. p # 0
        BY DEF FrpTypeOK, Frpc
      <4>2. CASE freq[q].holds # 0
        <5>1. freq[q].op = "delete" /\ freq[q].pc \in {"remove", "save"}
          BY <4>2, <1>3 DEF FrpRequestFits, Stopping
        <5> QED BY <1>0, <5>1, <2>1 DEF FrpAloneKnows
      <4> QED BY <4>1, <4>2
    <3>3. tunnelProc[h] = p
      BY <1>0, <3>1, <3>2, <1>4, <1>6 DEF FrpcKnown
    <3>4. h \in tunnels
      <4>1. freq[q].op # "delete"
        <5> SUFFICES ASSUME freq[q].op = "delete" PROVE FALSE
          OBVIOUS
        <5>1. freq[q].pc \in {"remove", "save"}
          BY <1>3 DEF FrpRequestFits, FrpPlaceFits, Stopping
        <5> QED BY <1>0, <5>1, <2>1, <3>3 DEF FrpAloneKnows
      <4> QED BY <1>0, <4>1, <1>4, <1>6 DEF FrpListedInv
    <3> QED BY <3>3, <3>4 DEF FrpcKnown, FrpSteps
  <2> QED BY <2>2, <2>3, <2>4, <2>5
<1>7. FrpRequestInv' /\ FrpAloneInv' /\ FrpPlaceInv' /\ FrpStatusInv' /\ FrpStoppedInv' /\ FrpKnownInv'
  BY <1>0, <1>2, <1>5, <1>6, FrpStepKeeps
<1>8. FrpListedInv'
  <2>1. CASE freq[q].pc # "save"
    <3>1. freq'[q] = FrpFree => freq[q].op # "delete"
      BY <2>1, <1>3 DEF FrpRequestFits, FrpPlaceFits, Stopping
    <3> QED BY <2>1, <3>1, FrpListKept
  <2>2. CASE freq[q].pc = "save"
    <3>1. tunnels' = tunnels /\ everMade' = everMade /\ touched' = touched
      BY DEF FrpSteps
    <3>2. \A o \in FrpRequest :
            IF freq'[o].op = "delete" THEN freq'[o].of \notin tunnels
            ELSE freq'[o].of \in tunnels \cup touched \cup {NoTunnel}
      BY DEF FrpSteps, FrpListedInv, FrpFree, T
    <3>3. saved' \subseteq everMade
      BY DEF FrpListedInv
    <3> QED BY <2>2, <3>1, <3>2, <3>3 DEF FrpListedInv, T
  <2> QED BY <2>1, <2>2
<1>9. FrpGateInv'
  BY FrpGateKept
<1>10. FrpProcessInv'
  BY FrpProcessesKept
<1> QED BY <1>1, <1>7, <1>8, <1>9, <1>10

\* What FrpGoes and FrpEnds do.
LEMMA FrpGoesSays ==
    ASSUME FrpTypeOK, NEW q \in FrpRequest, NEW pc, FrpGoes(q, pc),
           pc \in {"save", "enter", "write", "spawn", "giveback", "settle", "remove"}
    PROVE  /\ freq' \in [FrpRequest -> FrpJob]
           /\ \A o \in FrpRequest \ {q} : freq'[o] = freq[o]
           /\ freq'[q].op = freq[q].op /\ freq'[q].of = freq[q].of /\ freq'[q].holds = freq[q].holds
           /\ freq'[q].pc = pc
<1>1. freq \in [FrpRequest -> FrpJob] /\ freq[q] \in FrpJob
  BY FrpSays
<1>2. [freq[q] EXCEPT !.pc = pc] \in FrpJob
  BY <1>1 DEF FrpJob
<1>3. freq' = [freq EXCEPT ![q] = [freq[q] EXCEPT !.pc = pc]]
  BY DEF FrpGoes
<1>4. [freq[q] EXCEPT !.pc = pc].pc = pc
  BY <1>1 DEF FrpJob
<1> QED BY <1>1, <1>2, <1>3, <1>4

\* An answer frees the request.
LEMMA FrpEndsSays ==
    ASSUME FrpTypeOK, NEW q \in FrpRequest, FrpEnds(q)
    PROVE  /\ freq' \in [FrpRequest -> FrpJob]
           /\ \A o \in FrpRequest \ {q} : freq'[o] = freq[o]
           /\ freq'[q] = FrpFree
<1>1. freq \in [FrpRequest -> FrpJob]
  BY FrpSays
<1>2. FrpFree \in FrpJob
  BY FrpAssumption DEF FrpFree, FrpJob, NoTunnel
<1> QED BY <1>1, <1>2 DEF FrpEnds

\* frpLaunch looks at the process that is there.
LEMMA LookKeeps == ASSUME FrpInv, NEW q \in FrpRequest, LookAtTunnel(q) PROVE FrpInv'
<1>0. FrpTypeOK /\ freq[q].pc = "look"
  BY DEF FrpInv, LookAtTunnel, FrpAt
<1>1. FrpEnds(q) \/ (FrpGoes(q, "enter") /\ tunnelProc[T(q)] \notin frpc)
  BY DEF LookAtTunnel
<1>2. FrpSteps(q) /\ (freq'[q] = FrpFree \/ (freq'[q].holds = freq[q].holds /\ FrpGoesOn(q)))
  <2>1. tunnels' = tunnels /\ everMade' = everMade /\ touched' = touched /\ gate' = gate /\ toStop' = toStop
    BY DEF LookAtTunnel, tunnelVars, frpNode, frpCounts
  <2>2. CASE FrpEnds(q)
    BY <1>0, <2>1, <2>2, FrpEndsSays DEF FrpSteps
  <2>3. CASE FrpGoes(q, "enter") /\ tunnelProc[T(q)] \notin frpc
    <3>1. /\ freq' \in [FrpRequest -> FrpJob]
          /\ \A o \in FrpRequest \ {q} : freq'[o] = freq[o]
          /\ freq'[q].op = freq[q].op /\ freq'[q].of = freq[q].of /\ freq'[q].holds = freq[q].holds
          /\ freq'[q].pc = "enter"
      BY <1>0, <2>3, FrpGoesSays
    <3> QED BY <1>0, <2>1, <2>3, <3>1 DEF FrpSteps, FrpGoesOn
  <2> QED BY <1>1, <2>2, <2>3
<1>3. /\ tunnelProc' = tunnelProc /\ status' = status /\ frpc' = frpc /\ serves' = serves
      /\ lastFrpc' = lastFrpc
      /\ guarded' = guarded /\ loose' = loose /\ config' \subseteq Tunnel /\ frpOps' = frpOps
      /\ frpFails' = frpFails /\ frpFails \in 0..MaxFrpFails /\ saved' = saved
  BY <1>0 DEF LookAtTunnel, tunnelVars, frpcVars, frpCounts, FrpTypeOK
<1> QED BY <1>0, <1>2, <1>3, FrpQuietKeeps

\* A deletion removes the .toml.
LEMMA RemoveKeeps == ASSUME FrpInv, NEW q \in FrpRequest, RemoveConfig(q) PROVE FrpInv'
<1>0. FrpTypeOK /\ freq[q].pc = "remove" /\ FrpGoes(q, "save")
  BY DEF FrpInv, RemoveConfig, FrpAt
<1>1. /\ freq' \in [FrpRequest -> FrpJob]
      /\ \A o \in FrpRequest \ {q} : freq'[o] = freq[o]
      /\ freq'[q].op = freq[q].op /\ freq'[q].of = freq[q].of /\ freq'[q].holds = freq[q].holds
      /\ freq'[q].pc = "save"
  BY <1>0, FrpGoesSays
<1>2. FrpSteps(q) /\ freq'[q] # FrpFree /\ FrpGoesOn(q)
  BY <1>0, <1>1 DEF FrpSteps, FrpGoesOn, FrpFree, RemoveConfig, frpNode, frpCounts
<1>3. /\ tunnelProc' = tunnelProc /\ status' = status /\ frpc' = frpc /\ serves' = serves
      /\ lastFrpc' = lastFrpc
      /\ guarded' = guarded /\ loose' = loose /\ config' \subseteq Tunnel /\ frpOps' = frpOps
      /\ frpFails' = frpFails /\ frpFails \in 0..MaxFrpFails /\ saved' = saved
  BY <1>0 DEF RemoveConfig, frpcVars, frpCounts, FrpTypeOK
<1> QED BY <1>0, <1>1, <1>2, <1>3, FrpQuietKeeps

\* frpSave writes tunnels.json, or fails.
LEMMA SaveKeeps == ASSUME FrpInv, NEW q \in FrpRequest, SaveTunnels(q) PROVE FrpInv'
<1>0. FrpTypeOK /\ freq[q].pc = "save"
  BY DEF FrpInv, SaveTunnels, FrpAt
<1>1. \/ FrpGoes(q, "enter") /\ freq[q].op = "create" /\ saved' = tunnels /\ frpFails' = frpFails
      \/ FrpEnds(q) /\ saved' = tunnels /\ frpFails' = frpFails
      \/ FrpEnds(q) /\ saved' = saved /\ frpFails < MaxFrpFails /\ frpFails' = frpFails + 1
  BY DEF SaveTunnels, FrpFail, WrittenList
<1>2. FrpSteps(q) /\ (freq'[q] = FrpFree \/ (freq'[q].holds = freq[q].holds /\ FrpGoesOn(q)))
  <2>1. tunnels' = tunnels /\ everMade' = everMade /\ touched' = touched /\ gate' = gate /\ toStop' = toStop
    BY DEF SaveTunnels, frpNode
  <2>2. CASE FrpEnds(q)
    BY <1>0, <2>1, <2>2, FrpEndsSays DEF FrpSteps
  <2>3. CASE FrpGoes(q, "enter") /\ freq[q].op = "create"
    <3>1. /\ freq' \in [FrpRequest -> FrpJob]
          /\ \A o \in FrpRequest \ {q} : freq'[o] = freq[o]
          /\ freq'[q].op = freq[q].op /\ freq'[q].of = freq[q].of /\ freq'[q].holds = freq[q].holds
          /\ freq'[q].pc = "enter"
      BY <1>0, <2>3, FrpGoesSays
    <3> QED BY <1>0, <2>1, <2>3, <3>1 DEF FrpSteps, FrpGoesOn
  <2> QED BY <1>1, <2>2, <2>3
<1>3. /\ tunnelProc' = tunnelProc /\ status' = status /\ frpc' = frpc /\ serves' = serves
      /\ lastFrpc' = lastFrpc
      /\ guarded' = guarded /\ loose' = loose /\ config' \subseteq Tunnel /\ frpOps' = frpOps
  BY <1>0 DEF SaveTunnels, frpcVars, FrpTypeOK
<1>4. frpFails' \in 0..MaxFrpFails /\ (frpFails' = 0 => frpFails = 0)
  BY <1>0, <1>1, FrpAssumption DEF FrpTypeOK
<1>5. (saved' = saved \/ saved' = tunnels) /\ (saved' = tunnels \/ frpFails' # 0)
  BY <1>0, <1>1, FrpAssumption DEF FrpTypeOK
<1> QED BY <1>0, <1>2, <1>3, <1>4, <1>5, FrpQuietKeeps

\* The gate lets a start in, or the shutdown has sealed it.
LEMMA EnterKeeps == ASSUME FrpInv, NEW q \in FrpRequest, EnterGate(q) PROVE FrpInv'
<1>0. FrpTypeOK /\ freq[q].pc = "enter"
  BY DEF FrpInv, EnterGate, FrpAt
<1>1. FrpEnds(q) \/ FrpGoes(q, "write")
  BY DEF EnterGate
<1>2. FrpSteps(q) /\ (freq'[q] = FrpFree \/ (freq'[q].holds = freq[q].holds /\ FrpGoesOn(q)))
  <2>1. tunnels' = tunnels /\ everMade' = everMade /\ touched' = touched /\ gate' = gate /\ toStop' = toStop
    BY DEF EnterGate, tunnelVars, frpNode, frpCounts
  <2>2. CASE FrpEnds(q)
    BY <1>0, <2>1, <2>2, FrpEndsSays DEF FrpSteps
  <2>3. CASE FrpGoes(q, "write")
    <3>1. /\ freq' \in [FrpRequest -> FrpJob]
          /\ \A o \in FrpRequest \ {q} : freq'[o] = freq[o]
          /\ freq'[q].op = freq[q].op /\ freq'[q].of = freq[q].of /\ freq'[q].holds = freq[q].holds
          /\ freq'[q].pc = "write"
      BY <1>0, <2>3, FrpGoesSays
    <3> QED BY <1>0, <2>1, <2>3, <3>1 DEF FrpSteps, FrpGoesOn
  <2> QED BY <1>1, <2>2, <2>3
<1>3. /\ tunnelProc' = tunnelProc /\ status' = status /\ frpc' = frpc /\ serves' = serves
      /\ lastFrpc' = lastFrpc
      /\ guarded' = guarded /\ loose' = loose /\ config' \subseteq Tunnel /\ frpOps' = frpOps
      /\ frpFails' = frpFails /\ frpFails \in 0..MaxFrpFails /\ saved' = saved
  BY <1>0 DEF EnterGate, tunnelVars, frpcVars, frpCounts, FrpTypeOK
<1> QED BY <1>0, <1>2, <1>3, FrpQuietKeeps

\* The .toml of a start is written, or cannot be.
LEMMA WriteConfigKeeps == ASSUME FrpInv, NEW q \in FrpRequest, WriteConfig(q) PROVE FrpInv'
<1>0. FrpTypeOK /\ freq[q].pc = "write"
  BY DEF FrpInv, WriteConfig, FrpAt
<1>1. FrpEnds(q) \/ FrpGoes(q, "spawn")
  BY DEF WriteConfig
<1>2. FrpSteps(q) /\ (freq'[q] = FrpFree \/ (freq'[q].holds = freq[q].holds /\ FrpGoesOn(q)))
  <2>1. tunnels' = tunnels /\ everMade' = everMade /\ touched' = touched /\ gate' = gate /\ toStop' = toStop
    BY DEF WriteConfig, frpNode, frpCounts
  <2>2. CASE FrpEnds(q)
    BY <1>0, <2>1, <2>2, FrpEndsSays DEF FrpSteps
  <2>3. CASE FrpGoes(q, "spawn")
    <3>1. /\ freq' \in [FrpRequest -> FrpJob]
          /\ \A o \in FrpRequest \ {q} : freq'[o] = freq[o]
          /\ freq'[q].op = freq[q].op /\ freq'[q].of = freq[q].of /\ freq'[q].holds = freq[q].holds
          /\ freq'[q].pc = "spawn"
      BY <1>0, <2>3, FrpGoesSays
    <3> QED BY <1>0, <2>1, <2>3, <3>1 DEF FrpSteps, FrpGoesOn
  <2> QED BY <1>1, <2>2, <2>3
<1>3. config' \subseteq Tunnel
  <2>1. config \subseteq Tunnel /\ T(q) \in Tunnel
    BY <1>0, FrpAlone DEF FrpTypeOK
  <2> QED BY <2>1 DEF WriteConfig
<1>4. /\ tunnelProc' = tunnelProc /\ status' = status /\ frpc' = frpc /\ serves' = serves
      /\ lastFrpc' = lastFrpc
      /\ guarded' = guarded /\ loose' = loose /\ frpOps' = frpOps
      /\ frpFails' = frpFails /\ frpFails \in 0..MaxFrpFails /\ saved' = saved
  BY <1>0 DEF WriteConfig, frpcVars, frpCounts, FrpTypeOK
<1> QED BY <1>0, <1>2, <1>3, <1>4, FrpQuietKeeps

\* The steps that touch a process.  What a request knows of its own when it is alone.
LEMMA FrpMine ==
    ASSUME FrpInv, NEW q \in FrpRequest, freq[q].pc # "idle", NEW h, h = T(q)
    PROVE  /\ FrpTypeOK /\ FrpRequestFits(q)
           /\ h \in Tunnel /\ h \in everMade /\ h # NoTunnel
           /\ tunnelProc[h] # 0 => tunnelProc[h] \in 1..lastFrpc /\ serves[tunnelProc[h]] = h
           /\ freq[q].op = "delete" => h \notin tunnels
           /\ h \notin touched =>
                /\ \A o \in FrpRequest \ {q} : T(o) # h
                /\ FrpAloneKnows(q)
                /\ freq[q].op # "delete" => h \in tunnels
                /\ h \in tunnels => FrpStatusFits(h)
                /\ \A p \in frpc \ loose : serves[p] = h =>
                     \/ tunnelProc[h] = p /\ (h \in tunnels \/ T(q) = h)
                     \/ freq[q].holds = p
<1> USE DEF FrpInv
<1>1. h \in Tunnel /\ h \in everMade /\ h # NoTunnel
      /\ (h \notin touched => \A o \in FrpRequest \ {q} : T(o) # h)
  BY FrpAlone
<1>2. FrpRequestFits(q)
  BY DEF FrpRequestInv
<1>3. tunnelProc[h] # 0 => tunnelProc[h] \in 1..lastFrpc /\ serves[tunnelProc[h]] = h
  BY <1>1 DEF FrpProcessInv
<1>4. (freq[q].op = "delete" => h \notin tunnels)
      /\ (h \notin touched /\ freq[q].op # "delete" => h \in tunnels)
  BY <1>1 DEF FrpListedInv
<1>5. h \notin touched => FrpAloneKnows(q) /\ (h \in tunnels => FrpStatusFits(h))
  BY <1>1 DEF FrpPlaceInv, FrpStatusInv
<1>6. ASSUME h \notin touched, NEW p \in frpc \ loose, serves[p] = h
      PROVE  (tunnelProc[h] = p /\ (h \in tunnels \/ T(q) = h)) \/ freq[q].holds = p
  <2>1. FrpcKnown(p)
    BY DEF FrpKnownInv
  <2> QED BY <1>1, <1>6, <2>1 DEF FrpcKnown
<1> QED BY <1>1, <1>2, <1>3, <1>4, <1>5, <1>6

\* A start runs frpc: the process is known to the request until it is published.
LEMMA SpawnKeeps == ASSUME FrpInv, NEW q \in FrpRequest, SpawnFrpc(q) PROVE FrpInv'
<1>0. FrpTypeOK /\ freq[q].pc = "spawn" /\ lastFrpc < MaxFrpc
  BY DEF FrpInv, SpawnFrpc, FrpAt
<1>1. /\ tunnels' = tunnels /\ everMade' = everMade /\ touched' = touched /\ gate' = gate /\ toStop' = toStop
      /\ tunnelProc' = tunnelProc /\ status' = status /\ guarded' = guarded /\ loose' = loose
      /\ config' = config /\ frpOps' = frpOps /\ frpFails' = frpFails /\ saved' = saved
  BY DEF SpawnFrpc, tunnelVars, frpNode, frpCounts
<1>2. CASE FrpEnds(q) /\ frpc' = frpc /\ serves' = serves /\ lastFrpc' = lastFrpc
  <2>1. FrpSteps(q) /\ freq'[q] = FrpFree
    BY <1>0, <1>1, <1>2, FrpEndsSays DEF FrpSteps
  <2>2. config \subseteq Tunnel /\ frpFails \in 0..MaxFrpFails
    BY <1>0 DEF FrpTypeOK
  <2> QED BY <1>0, <1>1, <1>2, <2>1, <2>2, FrpQuietKeeps
<1>3. CASE ~(FrpEnds(q) /\ frpc' = frpc /\ serves' = serves /\ lastFrpc' = lastFrpc)
  <2>0. PICK h, n : h = T(q) /\ n = lastFrpc + 1
    OBVIOUS
  <2>1. /\ lastFrpc' = n /\ frpc' = frpc \cup {n} /\ serves' = [serves EXCEPT ![n] = h]
        /\ freq' = [freq EXCEPT ![q].pc = "publish", ![q].holds = n]
    BY <1>3, <2>0 DEF SpawnFrpc
  <2>2. /\ FrpRequestFits(q) /\ h \in Tunnel /\ h \in everMade /\ h # NoTunnel
        /\ tunnelProc[h] # 0 => tunnelProc[h] \in 1..lastFrpc
        /\ h \notin touched =>
             /\ \A o \in FrpRequest \ {q} : T(o) # h
             /\ FrpAloneKnows(q)
             /\ h \in tunnels => FrpStatusFits(h)
             /\ \A p \in frpc \ loose : serves[p] = h => tunnelProc[h] = p \/ freq[q].holds = p
    BY <1>0, <2>0, FrpMine
  <2>3. lastFrpc \in Nat /\ n \in Frpc /\ n \in 1..MaxFrpc /\ n \in Nat /\ n # 0 /\ n \notin 1..lastFrpc
        /\ 1..n = (1..lastFrpc) \cup {n}
    BY <1>0, <2>0, FrpAssumption DEF FrpTypeOK, Frpc
  <2>4. /\ freq' \in [FrpRequest -> FrpJob]
        /\ \A o \in FrpRequest \ {q} : freq'[o] = freq[o]
        /\ freq'[q].op = freq[q].op /\ freq'[q].of = freq[q].of /\ freq'[q].holds = n
        /\ freq'[q].pc = "publish"
    <3>1. freq \in [FrpRequest -> FrpJob] /\ freq[q] \in FrpJob
      BY <1>0, FrpSays
    <3>2. [[freq[q] EXCEPT !.pc = "publish"] EXCEPT !.holds = n] \in FrpJob
      <4>1. [freq[q] EXCEPT !.pc = "publish"] \in FrpJob
        BY <3>1 DEF FrpJob
      <4>2. n \in 0..MaxFrpc
        BY <2>3
      <4> QED BY <4>1, <4>2 DEF FrpJob
    <3>3. freq' = [freq EXCEPT ![q] = [[freq[q] EXCEPT !.pc = "publish"] EXCEPT !.holds = n]]
      BY <2>1, <3>1
    <3>4. [[freq[q] EXCEPT !.pc = "publish"] EXCEPT !.holds = n].holds = n
          /\ [[freq[q] EXCEPT !.pc = "publish"] EXCEPT !.holds = n].pc = "publish"
          /\ [[freq[q] EXCEPT !.pc = "publish"] EXCEPT !.holds = n].op = freq[q].op
          /\ [[freq[q] EXCEPT !.pc = "publish"] EXCEPT !.holds = n].of = freq[q].of
      BY <3>1 DEF FrpJob
    <3> QED BY <3>1, <3>2, <3>3, <3>4
  <2>5. FrpSteps(q)
    BY <1>0, <1>1, <2>4 DEF FrpSteps
  <2>6. serves'[n] = h /\ \A p \in 1..lastFrpc : serves'[p] = serves[p]
    BY <1>0, <2>1, <2>3 DEF FrpTypeOK, Frpc
  <2>7. frpc \subseteq 1..lastFrpc
    BY DEF FrpInv, FrpProcessInv
  <2>8. FrpElsewhere(q)
    BY <1>1, <2>0, <2>1, <2>3, <2>6, <2>7 DEF FrpElsewhere
  <2>9. FrpTypeOK'
    <3>1. serves' \in [Frpc -> Tunnel \cup {NoTunnel}]
      BY <1>0, <2>1, <2>2 DEF FrpTypeOK
    <3>2. frpc' \subseteq Frpc /\ lastFrpc' \in 0..MaxFrpc
      BY <1>0, <2>1, <2>3 DEF FrpTypeOK
    <3> QED BY <1>0, <1>1, <2>4, <3>1, <3>2 DEF FrpTypeOK, FrpJob
  <2>10. FrpRequestFits(q)'
    <3>1. FrpPlaceFits(freq'[q].op, "publish")
      BY <1>0, <2>2, <2>4 DEF FrpRequestFits, FrpPlaceFits, BeforeProcess, Stopping
    <3>2. freq'[q].of = h
      BY <2>0, <2>4 DEF T
    <3>3. n \in 1..n
      BY <2>3
    <3> QED BY <1>1, <2>1, <2>2, <2>3, <2>4, <2>6, <3>1, <3>2, <3>3 DEF FrpRequestFits, T
  <2>11. ASSUME h \notin touched
         PROVE  /\ FrpAloneKnows(q)'
                /\ h \in tunnels => FrpStatusFits(h)'
                /\ gate \notin {"stopping", "over"}
                /\ \A p \in frpc' \ loose' : serves'[p] = h => FrpcKnown(p)'
    <3>1. freq[q].op \in {"create", "start"}
      BY <1>0, <2>2 DEF FrpRequestFits, FrpPlaceFits, Stopping
    <3>2. tunnelProc[h] \notin frpc /\ tunnelProc[h] # n
      <4>1. tunnelProc[h] \notin frpc
        BY <1>0, <2>0, <2>2, <2>11 DEF FrpAloneKnows, BeforeProcess
      <4> QED BY <2>2, <2>3, <4>1
    <3>3. FrpAloneKnows(q)'
      BY <1>1, <2>0, <2>1, <2>4, <3>1, <3>2 DEF FrpAloneKnows, T, Stopping
    <3>4. h \in tunnels => FrpStatusFits(h)'
      <4> SUFFICES ASSUME h \in tunnels PROVE FrpStatusFits(h)'
        OBVIOUS
      <4>1. FrpStatusFits(h)
        BY <2>2, <2>11
      <4>2. \A o \in FrpRequest : T(o) = h => freq[o].pc \notin Stopping /\ freq[o].pc # "take"
        BY <1>0, <2>2, <2>11 DEF Stopping
      <4> QED BY <1>1, <2>1, <3>2, <4>1, <4>2 DEF FrpStatusFits, Unstopped, T
    <3>5. gate \notin {"stopping", "over"}
      BY <1>0, <3>1 DEF FrpInv, FrpGateInv
    <3>6. ASSUME NEW p \in frpc' \ loose', serves'[p] = h PROVE FrpcKnown(p)'
      <4>1. CASE p = n
        BY <2>0, <2>4, <2>6, <4>1 DEF FrpcKnown, T
      <4>2. CASE p # n
        <5>1. p \in frpc \ loose /\ serves[p] = h /\ p # 0
          BY <1>1, <2>1, <2>6, <2>7, <3>6, <4>2
        <5>2. freq[q].holds = 0
          BY <1>0, <2>2 DEF FrpRequestFits, Stopping
        <5> QED BY <5>1, <5>2, <2>2, <2>11, <3>2
      <4> QED BY <4>1, <4>2
    <3> QED BY <3>3, <3>4, <3>5, <3>6
  <2>12. FrpRequestInv' /\ FrpAloneInv' /\ FrpPlaceInv' /\ FrpStatusInv' /\ FrpStoppedInv' /\ FrpKnownInv'
    BY <2>0, <2>1, <2>3, <2>5, <2>8, <2>10, <2>11, FrpStepKeeps
  <2>13. FrpListedInv'
    <3>1. freq'[q] # FrpFree
      BY <2>4 DEF FrpFree
    <3> QED BY <1>0, <1>1, <2>5, <3>1, FrpListKept
  <2>14. FrpGateInv'
    BY <1>1, <2>5, FrpGateKept
  <2>15. FrpProcessInv'
    <3>1. FrpProcessInv
      BY DEF FrpInv
    <3>2. \A t \in Tunnel : tunnelProc[t] # 0 =>
            t \in everMade /\ tunnelProc[t] \in 1..n /\ serves'[tunnelProc[t]] = t
      BY <2>3, <2>6, <3>1 DEF FrpProcessInv
    <3>3. \A p \in 1..n : serves'[p] \in everMade
      BY <2>2, <2>3, <2>6, <3>1 DEF FrpProcessInv
    <3>4. frpc' \subseteq 1..n
      BY <2>1, <2>3, <2>7
    <3> QED BY <1>1, <2>1, <3>1, <3>2, <3>3, <3>4 DEF FrpProcessInv
  <2> QED BY <2>9, <2>12, <2>13, <2>14, <2>15 DEF FrpInv
<1> QED BY <1>2, <1>3 DEF SpawnFrpc

\* The process goes into the tunnel, which is running from then on.
LEMMA PublishKeeps == ASSUME FrpInv, NEW q \in FrpRequest, PublishFrpc(q) PROVE FrpInv'
<1>0. FrpTypeOK /\ freq[q].pc = "publish" /\ FrpEnds(q)
  BY DEF FrpInv, PublishFrpc, FrpAt
<1>1. /\ tunnels' = tunnels /\ everMade' = everMade /\ touched' = touched /\ gate' = gate /\ toStop' = toStop
      /\ frpc' = frpc /\ serves' = serves /\ lastFrpc' = lastFrpc /\ loose' = loose
      /\ config' = config /\ frpOps' = frpOps /\ frpFails' = frpFails /\ saved' = saved
  BY DEF PublishFrpc, frpNode, frpCounts
<1>2. PICK h, n : h = T(q) /\ n = freq[q].holds
  OBVIOUS
<1>3. /\ tunnelProc' = [tunnelProc EXCEPT ![h] = n] /\ status' = [status EXCEPT ![h] = "running"]
      /\ guarded' = guarded \cup {n}
  BY <1>2 DEF PublishFrpc
<1>4. /\ FrpRequestFits(q) /\ h \in Tunnel /\ h \in everMade /\ h # NoTunnel
      /\ h \notin touched =>
           /\ \A o \in FrpRequest \ {q} : T(o) # h
           /\ FrpAloneKnows(q)
           /\ freq[q].op # "delete" => h \in tunnels
           /\ \A p \in frpc \ loose : serves[p] = h => tunnelProc[h] = p \/ freq[q].holds = p
  BY <1>0, <1>2, FrpMine
<1>5. n \in 1..lastFrpc /\ n \in Frpc /\ lastFrpc \in Nat /\ freq[q].op \in {"create", "start"}
  <2>1. n \in 1..lastFrpc /\ freq[q].op \in {"create", "start"}
    BY <1>0, <1>2, <1>4 DEF FrpRequestFits, FrpPlaceFits, Stopping
  <2>2. lastFrpc \in 0..MaxFrpc
    BY <1>0 DEF FrpTypeOK
  <2> QED BY <2>1, <2>2, FrpAssumption DEF Frpc
<1>6. FrpSteps(q) /\ freq'[q] = FrpFree /\ freq' \in [FrpRequest -> FrpJob]
  BY <1>0, <1>1, FrpEndsSays DEF FrpSteps
<1>7. /\ tunnelProc'[h] = n /\ status'[h] = "running"
      /\ \A t \in Tunnel \ {h} : tunnelProc'[t] = tunnelProc[t] /\ status'[t] = status[t]
  BY <1>0, <1>3, <1>4 DEF FrpTypeOK
<1>8. FrpElsewhere(q)
  BY <1>1, <1>2, <1>3, <1>5, <1>7 DEF FrpElsewhere
<1>9. FrpTypeOK'
  <2>1. tunnelProc' \in [Tunnel -> 0..MaxFrpc] /\ status' \in [Tunnel -> {"stopped", "running", "failed"}]
    <3>1. n \in 0..MaxFrpc
      BY <1>5, FrpAssumption DEF Frpc
    <3> QED BY <1>0, <1>3, <3>1 DEF FrpTypeOK
  <2> QED BY <1>0, <1>1, <1>3, <1>5, <1>6, <2>1 DEF FrpTypeOK, FrpJob
<1>10. FrpRequestFits(q)'
  BY <1>6 DEF FrpRequestFits, FrpFree, FrpPlaceFits, Stopping
<1>11. gate \notin {"stopping", "over"}
  BY <1>0, <1>5 DEF FrpInv, FrpGateInv
<1>12. h \in tunnels => FrpStatusFits(h)'
  BY <1>3, <1>7 DEF FrpStatusFits
<1>13. ASSUME h \notin touched, NEW p \in frpc \ loose, serves[p] = h PROVE FrpcKnown(p)'
  <2>1. tunnelProc[h] \notin frpc
    BY <1>0, <1>2, <1>4, <1>13 DEF FrpAloneKnows, BeforeProcess
  <2>2. p = n /\ h \in tunnels
    BY <1>2, <1>4, <1>5, <1>13, <2>1
  <2> QED BY <1>1, <1>7, <1>13, <2>2 DEF FrpcKnown
<1>14. FrpRequestInv' /\ FrpAloneInv' /\ FrpPlaceInv' /\ FrpStatusInv' /\ FrpStoppedInv' /\ FrpKnownInv'
  <2>1. freq'[q].pc = "idle" /\ lastFrpc' \in Nat
    BY <1>1, <1>5, <1>6 DEF FrpFree
  <2>2. h \notin touched => \A p \in frpc' \ loose' : serves'[p] = h => FrpcKnown(p)'
    BY <1>1, <1>13
  <2> QED BY <1>2, <1>6, <1>8, <1>10, <1>11, <1>12, <2>1, <2>2, FrpStepKeeps
<1>15. FrpListedInv'
  <2>1. freq[q].op # "delete"
    BY <1>5
  <2> QED BY <1>0, <1>1, <1>6, <2>1, FrpListKept
<1>16. FrpGateInv'
  BY <1>5, <1>6, FrpGateKept
<1>17. FrpProcessInv'
  BY <1>1, <1>2, <1>6, <1>7, FrpProcessesKept
<1> QED BY <1>9, <1>14, <1>15, <1>16, <1>17 DEF FrpInv

\* A stop kills the process that it took, or fails to.
LEMMA KillFrpcKeeps == ASSUME FrpInv, NEW q \in FrpRequest, KillFrpc(q) PROVE FrpInv'
<1>0. FrpTypeOK /\ freq[q].pc = "kill"
  BY DEF FrpInv, KillFrpc, FrpAt
<1>1. /\ tunnels' = tunnels /\ everMade' = everMade /\ touched' = touched /\ gate' = gate /\ toStop' = toStop
      /\ serves' = serves /\ lastFrpc' = lastFrpc /\ tunnelProc' = tunnelProc /\ status' = status
      /\ guarded' = guarded /\ config' = config /\ frpOps' = frpOps /\ saved' = saved
  BY DEF KillFrpc, tunnelVars, frpNode
<1>2. PICK h, n : h = T(q) /\ n = freq[q].holds
  OBVIOUS
<1>3. /\ FrpRequestFits(q) /\ h \in Tunnel /\ h \in everMade /\ h # NoTunnel
      /\ freq[q].op = "delete" => h \notin tunnels
      /\ h \notin touched =>
           /\ \A o \in FrpRequest \ {q} : T(o) # h
           /\ FrpAloneKnows(q)
           /\ \A p \in frpc \ loose : serves[p] = h => tunnelProc[h] = p \/ freq[q].holds = p
  BY <1>0, <1>2, FrpMine
<1>4. PICK pc \in {"settle", "giveback"} : FrpGoes(q, pc) /\
        \/ pc = "settle" /\ frpc' = frpc \ {n} /\ frpFails' = frpFails /\ loose' = loose
        \/ /\ pc = "giveback" /\ frpc' = frpc /\ frpFails < MaxFrpFails /\ frpFails' = frpFails + 1
           /\ loose' = IF freq[q].op = "delete" THEN loose \cup {n} ELSE loose
  BY <1>2 DEF KillFrpc, FrpFail
<1>5. /\ freq' \in [FrpRequest -> FrpJob]
      /\ \A o \in FrpRequest \ {q} : freq'[o] = freq[o]
      /\ freq'[q].op = freq[q].op /\ freq'[q].of = h /\ freq'[q].holds = n
      /\ freq'[q].pc = pc
  BY <1>0, <1>2, <1>4, FrpGoesSays DEF T
<1>6. n \in Frpc /\ n # 0 /\ lastFrpc \in Nat /\ frpFails \in 0..MaxFrpFails /\ 0 \notin frpc
  <2>1. n # 0 /\ n \in 1..lastFrpc
    BY <1>0, <1>2, <1>3 DEF FrpRequestFits, Stopping
  <2> QED BY <1>0, <2>1, FrpAssumption DEF FrpTypeOK, Frpc
<1>7. frpFails' \in 0..MaxFrpFails /\ (frpFails' = 0 => frpFails = 0) /\ (pc = "giveback" => frpFails' # 0)
  BY <1>4, <1>6, FrpAssumption
<1>8. frpc' \subseteq frpc /\ loose \subseteq loose' /\ loose' \subseteq Frpc
  BY <1>0, <1>4, <1>6 DEF FrpTypeOK
<1>9. FrpSteps(q)
  BY <1>0, <1>1, <1>2, <1>5 DEF FrpSteps, T
<1>10. FrpElsewhere(q)
  BY <1>1, <1>6, <1>7, <1>8 DEF FrpElsewhere
<1>11. FrpTypeOK'
  BY <1>0, <1>1, <1>5, <1>7, <1>8 DEF FrpTypeOK, FrpJob
<1>12. FrpRequestFits(q)'
  <2>1. FrpPlaceFits(freq'[q].op, pc)
    BY <1>0, <1>3, <1>4, <1>5 DEF FrpRequestFits, FrpPlaceFits, BeforeProcess, Stopping
  <2> QED BY <1>0, <1>1, <1>2, <1>3, <1>4, <1>5, <1>6, <1>7, <2>1 DEF FrpRequestFits, T, Stopping
<1>13. ASSUME h \notin touched
       PROVE  /\ FrpAloneKnows(q)'
              /\ FrpStatusFits(h)'
              /\ tunnelProc'[h] \notin frpc'
              /\ \A p \in frpc' \ loose' : serves'[p] = h => FrpcKnown(p)'
  <2>1. FrpAloneKnows(q) /\ tunnelProc[h] = 0
    BY <1>0, <1>2, <1>3, <1>13 DEF FrpAloneKnows, Stopping
  <2>2. tunnelProc'[h] \notin frpc'
    BY <1>1, <1>6, <1>8, <2>1
  <2>3. FrpAloneKnows(q)'
    <3>1. pc = "settle" => n \notin frpc'
      BY <1>4
    <3>2. pc = "giveback" => freq[q].op = "delete" \/ status[h] = "running" \/ n \in loose'
      BY <1>0, <1>2, <1>8, <2>1 DEF FrpAloneKnows
    <3>3. pc = "giveback" /\ freq[q].op = "delete" => n \in loose'
      BY <1>4
    <3>4. T(q)' = h
      BY <1>5 DEF T
    <3>5. pc \in Stopping /\ pc \notin BeforeProcess /\ freq[q].op # "create"
      BY <1>0, <1>3, <1>4 DEF Stopping, BeforeProcess, FrpRequestFits, FrpPlaceFits
    <3> QED BY <1>1, <1>4, <1>5, <2>1, <2>2, <3>1, <3>2, <3>3, <3>4, <3>5 DEF FrpAloneKnows
  <2>4. FrpStatusFits(h)'
    BY <1>5, <1>4 DEF FrpStatusFits, T, Stopping
  <2>5. ASSUME NEW p \in frpc' \ loose', serves'[p] = h PROVE FrpcKnown(p)'
    <3>1. p \in frpc \ loose /\ serves[p] = h
      BY <1>1, <1>8, <2>5
    <3>2. freq[q].holds = p
      BY <1>3, <1>13, <1>6, <2>1, <3>1
    <3> QED BY <1>2, <1>5, <2>5, <3>2 DEF FrpcKnown, T
  <2> QED BY <2>2, <2>3, <2>4, <2>5
<1>14. FrpRequestInv' /\ FrpAloneInv' /\ FrpPlaceInv' /\ FrpStatusInv' /\ FrpStoppedInv' /\ FrpKnownInv'
  BY <1>1, <1>2, <1>6, <1>9, <1>10, <1>12, <1>13, FrpStepKeeps
<1>15. FrpListedInv'
  <2>1. freq'[q] # FrpFree
    BY <1>4, <1>5 DEF FrpFree
  <2> QED BY <1>0, <1>1, <1>7, <1>9, <2>1, FrpListKept
<1>16. FrpGateInv'
  BY <1>1, <1>9, FrpGateKept
<1>17. FrpProcessInv'
  BY <1>1, <1>8, <1>9, FrpProcessesKept
<1> QED BY <1>11, <1>14, <1>15, <1>16, <1>17 DEF FrpInv

\* A stop is over: a deletion goes on, another request is done.
LEMMA FrpAfterStop ==
    ASSUME FrpInv, NEW q \in FrpRequest, AfterStop(q), freq[q].pc \in {"take"} \cup Stopping,
           tunnels' = tunnels, everMade' = everMade, touched' = touched, gate' = gate, toStop' = toStop,
           serves' = serves, lastFrpc' = lastFrpc, frpFails' = frpFails
    PROVE  /\ FrpSteps(q) /\ FrpRequestFits(q)'
           /\ \/ freq[q].op # "delete" /\ freq'[q] = FrpFree
              \/ /\ freq[q].op = "delete" /\ freq'[q].op = "delete" /\ freq'[q].pc = "remove"
                 /\ freq'[q].of = freq[q].of /\ freq'[q].holds = freq[q].holds
<1>1. FrpTypeOK /\ FrpRequestFits(q)
  BY DEF FrpInv, FrpRequestInv
<1>2. CASE freq[q].op = "delete"
  <2>1. FrpGoes(q, "remove")
    BY <1>2 DEF AfterStop
  <2>2. /\ freq' \in [FrpRequest -> FrpJob]
        /\ \A o \in FrpRequest \ {q} : freq'[o] = freq[o]
        /\ freq'[q].op = freq[q].op /\ freq'[q].of = freq[q].of /\ freq'[q].holds = freq[q].holds
        /\ freq'[q].pc = "remove"
    BY <1>1, <2>1, FrpGoesSays
  <2>3. FrpSteps(q)
    BY <2>2 DEF FrpSteps, Stopping
  <2>4. FrpRequestFits(q)'
    BY <1>1, <1>2, <2>2 DEF FrpRequestFits, FrpPlaceFits, Stopping, T
  <2> QED BY <1>2, <2>2, <2>3, <2>4
<1>3. CASE freq[q].op # "delete"
  <2>1. /\ freq' \in [FrpRequest -> FrpJob]
        /\ \A o \in FrpRequest \ {q} : freq'[o] = freq[o]
        /\ freq'[q] = FrpFree
    BY <1>1, <1>3, FrpEndsSays DEF AfterStop
  <2>2. FrpSteps(q)
    BY <2>1 DEF FrpSteps, Stopping
  <2>3. FrpRequestFits(q)'
    BY <2>1 DEF FrpRequestFits, FrpFree, FrpPlaceFits, Stopping
  <2> QED BY <1>3, <2>1, <2>2, <2>3
<1> QED BY <1>2, <1>3

\* A stop that killed its process reports the tunnel as stopped.
LEMMA SettleKeeps == ASSUME FrpInv, NEW q \in FrpRequest, SettleStopped(q) PROVE FrpInv'
<1>0. FrpTypeOK /\ freq[q].pc = "settle" /\ AfterStop(q)
  BY DEF FrpInv, SettleStopped, FrpAt
<1>1. /\ tunnels' = tunnels /\ everMade' = everMade /\ touched' = touched /\ gate' = gate /\ toStop' = toStop
      /\ frpc' = frpc /\ serves' = serves /\ lastFrpc' = lastFrpc /\ loose' = loose /\ guarded' = guarded
      /\ tunnelProc' = tunnelProc
      /\ config' = config /\ frpOps' = frpOps /\ frpFails' = frpFails /\ saved' = saved
  BY DEF SettleStopped, frpcVars, frpNode, frpCounts
<1>2. PICK h : h = T(q)
  OBVIOUS
<1>3. status' = [status EXCEPT ![h] = "stopped"]
  BY <1>2 DEF SettleStopped
<1>4. /\ FrpRequestFits(q) /\ h \in Tunnel /\ h \in everMade /\ h # NoTunnel
      /\ h \notin touched =>
           /\ FrpAloneKnows(q)
           /\ \A p \in frpc \ loose : serves[p] = h => tunnelProc[h] = p \/ freq[q].holds = p
  BY <1>0, <1>2, FrpMine
<1>5. /\ FrpSteps(q) /\ FrpRequestFits(q)'
      /\ \/ freq[q].op # "delete" /\ freq'[q] = FrpFree
         \/ /\ freq[q].op = "delete" /\ freq'[q].op = "delete" /\ freq'[q].pc = "remove"
            /\ freq'[q].of = freq[q].of /\ freq'[q].holds = freq[q].holds
  BY <1>0, <1>1, FrpAfterStop DEF Stopping
<1>6. status'[h] = "stopped" /\ (\A t \in Tunnel \ {h} : status'[t] = status[t])
      /\ status' \in [Tunnel -> {"stopped", "running", "failed"}]
  BY <1>0, <1>3, <1>4 DEF FrpTypeOK
<1>7. 0 \notin frpc /\ lastFrpc \in Nat
  BY <1>0, FrpAssumption DEF FrpTypeOK, Frpc
<1>8. FrpElsewhere(q)
  BY <1>1, <1>2, <1>6, <1>7 DEF FrpElsewhere
<1>9. FrpTypeOK'
  BY <1>0, <1>1, <1>5, <1>6 DEF FrpTypeOK, FrpJob, FrpSteps
<1>10. ASSUME h \notin touched
       PROVE  /\ freq'[q].pc # "idle" => FrpAloneKnows(q)'
              /\ FrpStatusFits(h)'
              /\ tunnelProc'[h] \notin frpc'
              /\ \A p \in frpc' \ loose' : serves'[p] = h => FrpcKnown(p)'
  <2>1. tunnelProc[h] = 0 /\ freq[q].holds \notin frpc
    BY <1>0, <1>2, <1>4, <1>10 DEF FrpAloneKnows, Stopping
  <2>2. freq'[q].pc # "idle" => FrpAloneKnows(q)'
    <3> SUFFICES ASSUME freq'[q].pc # "idle" PROVE FrpAloneKnows(q)'
      OBVIOUS
    <3>1. freq'[q].op = "delete" /\ freq'[q].pc = "remove"
          /\ freq'[q].of = freq[q].of /\ freq'[q].holds = freq[q].holds
      BY <1>5 DEF FrpFree
    <3> QED BY <1>1, <1>2, <1>7, <2>1, <3>1 DEF FrpAloneKnows, T, BeforeProcess, Stopping
  <2>3. FrpStatusFits(h)'
    BY <1>1, <1>6, <1>7, <2>1 DEF FrpStatusFits
  <2>4. \A p \in frpc \ loose : serves[p] # h
    BY <1>4, <1>7, <1>10, <2>1
  <2> QED BY <1>1, <1>7, <2>1, <2>2, <2>3, <2>4
<1>11. FrpRequestInv' /\ FrpAloneInv' /\ FrpPlaceInv' /\ FrpStatusInv' /\ FrpStoppedInv' /\ FrpKnownInv'
  BY <1>1, <1>2, <1>5, <1>7, <1>8, <1>10, FrpStepKeeps
<1>12. FrpListedInv'
  BY <1>0, <1>1, <1>5, FrpListKept DEF FrpFree
<1>13. FrpGateInv'
  BY <1>1, <1>5, FrpGateKept
<1>14. FrpProcessInv'
  BY <1>1, <1>2, <1>5, <1>6, FrpProcessesKept
<1> QED BY <1>9, <1>11, <1>12, <1>13, <1>14 DEF FrpInv

\* A stop that failed puts its process back, unless there is another.
LEMMA GiveBackKeeps == ASSUME FrpInv, NEW q \in FrpRequest, GiveFrpcBack(q) PROVE FrpInv'
<1>0. FrpTypeOK /\ freq[q].pc = "giveback" /\ AfterStop(q)
  BY DEF FrpInv, GiveFrpcBack, GiveBack, FrpAt
<1>1. /\ tunnels' = tunnels /\ everMade' = everMade /\ touched' = touched /\ gate' = gate /\ toStop' = toStop
      /\ frpc' = frpc /\ serves' = serves /\ lastFrpc' = lastFrpc /\ guarded' = guarded
      /\ status' = status
      /\ config' = config /\ frpOps' = frpOps /\ frpFails' = frpFails /\ saved' = saved
  BY DEF GiveFrpcBack, frpcVars, frpNode
<1>2. PICK h, n : h = T(q) /\ n = freq[q].holds
  OBVIOUS
<1>3. /\ tunnelProc' = [tunnelProc EXCEPT ![h] = n]
      /\ loose' = IF n \in guarded THEN loose ELSE loose \cup {n}
  BY <1>2 DEF GiveFrpcBack, GiveBack
<1>4. /\ FrpRequestFits(q) /\ h \in Tunnel /\ h \in everMade /\ h # NoTunnel
      /\ freq[q].op = "delete" => h \notin tunnels
      /\ h \notin touched =>
           /\ FrpAloneKnows(q)
           /\ freq[q].op # "delete" => h \in tunnels
           /\ \A p \in frpc \ loose : serves[p] = h => tunnelProc[h] = p \/ freq[q].holds = p
  BY <1>0, <1>2, FrpMine
<1>5. /\ FrpSteps(q) /\ FrpRequestFits(q)'
      /\ \/ freq[q].op # "delete" /\ freq'[q] = FrpFree
         \/ /\ freq[q].op = "delete" /\ freq'[q].op = "delete" /\ freq'[q].pc = "remove"
            /\ freq'[q].of = freq[q].of /\ freq'[q].holds = freq[q].holds
  BY <1>0, <1>1, FrpAfterStop DEF Stopping
<1>6. n # 0 /\ n \in 1..lastFrpc /\ n \in Frpc /\ n \in 0..MaxFrpc /\ frpFails # 0 /\ lastFrpc \in Nat
      /\ 0 \notin frpc
  <2>1. n # 0 /\ n \in 1..lastFrpc /\ frpFails # 0
    BY <1>0, <1>2, <1>4 DEF FrpRequestFits, Stopping
  <2> QED BY <1>0, <2>1, FrpAssumption DEF FrpTypeOK, Frpc
<1>7. tunnelProc'[h] = n /\ (\A t \in Tunnel \ {h} : tunnelProc'[t] = tunnelProc[t])
      /\ tunnelProc' \in [Tunnel -> 0..MaxFrpc]
  BY <1>0, <1>3, <1>4, <1>6 DEF FrpTypeOK
<1>8. loose \subseteq loose' /\ loose' \subseteq Frpc
  BY <1>0, <1>3, <1>6 DEF FrpTypeOK
<1>9. FrpElsewhere(q)
  BY <1>1, <1>2, <1>6, <1>7, <1>8 DEF FrpElsewhere
<1>10. FrpTypeOK'
  BY <1>0, <1>1, <1>5, <1>7, <1>8 DEF FrpTypeOK, FrpJob, FrpSteps
<1>11. ASSUME h \notin touched
       PROVE  /\ freq'[q].pc # "idle" => FrpAloneKnows(q)'
              /\ h \in tunnels => FrpStatusFits(h)'
              /\ \A p \in frpc' \ loose' : serves'[p] = h => FrpcKnown(p)'
  <2>1. FrpAloneKnows(q) /\ tunnelProc[h] = 0
    BY <1>0, <1>2, <1>4, <1>11 DEF FrpAloneKnows, Stopping
  <2>2. freq'[q].pc # "idle" => FrpAloneKnows(q)'
    <3> SUFFICES ASSUME freq'[q].pc # "idle" PROVE FrpAloneKnows(q)'
      OBVIOUS
    <3>1. freq[q].op = "delete" /\ freq'[q].op = "delete" /\ freq'[q].pc = "remove"
          /\ freq'[q].of = freq[q].of /\ freq'[q].holds = freq[q].holds
      BY <1>5 DEF FrpFree
    <3>2. n \notin frpc \ loose
      BY <1>0, <1>2, <2>1, <3>1 DEF FrpAloneKnows
    <3> QED BY <1>1, <1>2, <1>7, <1>8, <3>1, <3>2 DEF FrpAloneKnows, T, BeforeProcess, Stopping
  <2>3. h \in tunnels => FrpStatusFits(h)'
    <3> SUFFICES ASSUME h \in tunnels PROVE FrpStatusFits(h)'
      OBVIOUS
    <3>1. status[h] = "running" \/ n \in loose
      BY <1>0, <1>2, <1>4, <2>1 DEF FrpAloneKnows
    <3>2. n \in guarded \cup loose'
      BY <1>3
    <3> QED BY <1>1, <1>7, <1>8, <3>1, <3>2 DEF FrpStatusFits
  <2>4. ASSUME NEW p \in frpc' \ loose', serves'[p] = h PROVE FrpcKnown(p)'
    <3>1. p = n /\ h = serves'[p] /\ tunnelProc'[h] = p
      BY <1>1, <1>2, <1>4, <1>6, <1>7, <1>8, <1>11, <2>1, <2>4
    <3>2. h \in tunnels' \/ freq'[q].of = h
      BY <1>1, <1>2, <1>4, <1>5, <1>11 DEF T
    <3> QED BY <3>1, <3>2 DEF FrpcKnown, T
  <2> QED BY <2>2, <2>3, <2>4
<1>12. FrpRequestInv' /\ FrpAloneInv' /\ FrpPlaceInv' /\ FrpStatusInv' /\ FrpStoppedInv' /\ FrpKnownInv'
  BY <1>1, <1>2, <1>5, <1>6, <1>9, <1>11, FrpStepKeeps
<1>13. FrpListedInv'
  BY <1>0, <1>1, <1>5, FrpListKept DEF FrpFree
<1>14. FrpGateInv'
  BY <1>1, <1>5, FrpGateKept
<1>15. FrpProcessInv'
  BY <1>1, <1>2, <1>5, <1>7, FrpProcessesKept
<1> QED BY <1>10, <1>12, <1>13, <1>14, <1>15 DEF FrpInv

\* A stop takes the process out of the tunnel, or finds none.
LEMMA TakeFrpcKeeps == ASSUME FrpInv, NEW q \in FrpRequest, TakeFrpc(q) PROVE FrpInv'
<1>0. FrpTypeOK /\ freq[q].pc = "take"
  BY DEF FrpInv, TakeFrpc, FrpAt
<1>1. /\ tunnels' = tunnels /\ everMade' = everMade /\ touched' = touched /\ gate' = gate /\ toStop' = toStop
      /\ frpc' = frpc /\ serves' = serves /\ lastFrpc' = lastFrpc /\ loose' = loose /\ guarded' = guarded
      /\ config' = config /\ frpOps' = frpOps /\ frpFails' = frpFails /\ saved' = saved
  BY DEF TakeFrpc, frpcVars, frpNode, frpCounts
<1>2. PICK h, n : h = T(q) /\ n = tunnelProc[h]
  OBVIOUS
<1>3. /\ tunnelProc' = [tunnelProc EXCEPT ![h] = 0]
      /\ \/ n \in frpc /\ status' = status /\ freq' = [freq EXCEPT ![q].pc = "kill", ![q].holds = n]
         \/ n \notin frpc /\ status' = [status EXCEPT ![h] = "stopped"] /\ AfterStop(q)
  BY <1>2 DEF TakeFrpc
<1>4. /\ FrpRequestFits(q) /\ h \in Tunnel /\ h \in everMade /\ h # NoTunnel
      /\ n # 0 => n \in 1..lastFrpc /\ serves[n] = h
      /\ freq[q].op = "delete" => h \notin tunnels
      /\ h \notin touched =>
           /\ \A o \in FrpRequest \ {q} : T(o) # h
           /\ FrpAloneKnows(q)
           /\ freq[q].op # "delete" => h \in tunnels
           /\ h \in tunnels => FrpStatusFits(h)
           /\ \A p \in frpc \ loose : serves[p] = h => tunnelProc[h] = p \/ freq[q].holds = p
  BY <1>0, <1>2, FrpMine
<1>5. freq[q].holds = 0 /\ freq[q].op \in {"stop", "delete", "halt"}
  BY <1>0, <1>4 DEF FrpRequestFits, FrpPlaceFits, Stopping, BeforeProcess
<1>6. 0 \notin frpc /\ lastFrpc \in Nat /\ n \in 0..MaxFrpc
  BY <1>0, <1>2, <1>4, FrpAssumption DEF FrpTypeOK, Frpc
<1>7. tunnelProc'[h] = 0 /\ (\A t \in Tunnel \ {h} : tunnelProc'[t] = tunnelProc[t])
      /\ tunnelProc' \in [Tunnel -> 0..MaxFrpc]
  BY <1>0, <1>3, <1>4, FrpAssumption DEF FrpTypeOK
<1>8. (\A t \in Tunnel \ {h} : status'[t] = status[t])
      /\ status' \in [Tunnel -> {"stopped", "running", "failed"}]
  BY <1>0, <1>3, <1>4 DEF FrpTypeOK
<1>9. FrpElsewhere(q)
  BY <1>1, <1>2, <1>6, <1>7, <1>8 DEF FrpElsewhere
<1>10. CASE n \in frpc
  <2>1. status' = status /\ freq' = [freq EXCEPT ![q].pc = "kill", ![q].holds = n]
    BY <1>3, <1>10
  <2>2. /\ freq' \in [FrpRequest -> FrpJob]
        /\ \A o \in FrpRequest \ {q} : freq'[o] = freq[o]
        /\ freq'[q].op = freq[q].op /\ freq'[q].of = freq[q].of /\ freq'[q].holds = n
        /\ freq'[q].pc = "kill"
    <3>1. freq \in [FrpRequest -> FrpJob] /\ freq[q] \in FrpJob
      BY <1>0, FrpSays
    <3>2. [[freq[q] EXCEPT !.pc = "kill"] EXCEPT !.holds = n] \in FrpJob
      <4>1. [freq[q] EXCEPT !.pc = "kill"] \in FrpJob
        BY <3>1 DEF FrpJob
      <4> QED BY <4>1, <1>6 DEF FrpJob
    <3>3. freq' = [freq EXCEPT ![q] = [[freq[q] EXCEPT !.pc = "kill"] EXCEPT !.holds = n]]
      BY <2>1, <3>1
    <3>4. [[freq[q] EXCEPT !.pc = "kill"] EXCEPT !.holds = n].holds = n
          /\ [[freq[q] EXCEPT !.pc = "kill"] EXCEPT !.holds = n].pc = "kill"
          /\ [[freq[q] EXCEPT !.pc = "kill"] EXCEPT !.holds = n].op = freq[q].op
          /\ [[freq[q] EXCEPT !.pc = "kill"] EXCEPT !.holds = n].of = freq[q].of
      BY <3>1 DEF FrpJob
    <3> QED BY <3>1, <3>2, <3>3, <3>4
  <2>3. FrpSteps(q)
    BY <1>0, <1>1, <2>2 DEF FrpSteps
  <2>4. FrpTypeOK'
    BY <1>0, <1>1, <1>7, <1>8, <2>2 DEF FrpTypeOK, FrpJob
  <2>5. n # 0 /\ freq'[q].of = h
    BY <1>2, <1>6, <1>10, <2>2 DEF T
  <2>6. FrpRequestFits(q)'
    <3>1. FrpPlaceFits(freq'[q].op, "kill")
      BY <1>5, <2>2 DEF FrpPlaceFits, Stopping
    <3> QED BY <1>1, <1>4, <2>2, <2>5, <3>1 DEF FrpRequestFits, T, Stopping
  <2>7. ASSUME h \notin touched
        PROVE  /\ FrpAloneKnows(q)'
               /\ FrpStatusFits(h)'
               /\ tunnelProc'[h] \notin frpc'
               /\ \A p \in frpc' \ loose' : serves'[p] = h => FrpcKnown(p)'
    <3>1. freq[q].op = "delete" \/ status[h] = "running" \/ n \in loose
      <4> SUFFICES ASSUME freq[q].op # "delete", status[h] # "running" PROVE n \in loose
        OBVIOUS
      <4>1. FrpStatusFits(h)
        BY <1>4, <2>7
      <4>2. \A o \in FrpRequest : T(o) = h => freq[o].pc \notin Stopping
        BY <1>0, <1>4, <2>7 DEF Stopping
      <4>3. n \notin frpc \ loose
        BY <1>2, <4>1, <4>2 DEF FrpStatusFits
      <4> QED BY <1>10, <4>3
    <3>2. FrpAloneKnows(q)'
      BY <1>1, <1>5, <1>7, <2>1, <2>2, <2>5, <3>1 DEF FrpAloneKnows, T, BeforeProcess, Stopping
    <3>3. FrpStatusFits(h)'
      BY <2>2, <2>5 DEF FrpStatusFits, T, Stopping
    <3>4. ASSUME NEW p \in frpc' \ loose', serves'[p] = h PROVE FrpcKnown(p)'
      <4>1. p = n
        BY <1>1, <1>2, <1>4, <1>5, <1>6, <2>7, <3>4
      <4> QED BY <2>2, <2>5, <3>4, <4>1 DEF FrpcKnown, T
    <3> QED BY <1>1, <1>6, <1>7, <3>2, <3>3, <3>4
  <2>8. FrpRequestInv' /\ FrpAloneInv' /\ FrpPlaceInv' /\ FrpStatusInv' /\ FrpStoppedInv' /\ FrpKnownInv'
    BY <1>1, <1>2, <1>6, <1>9, <2>3, <2>6, <2>7, FrpStepKeeps
  <2>9. FrpListedInv'
    <3>1. freq'[q] # FrpFree
      BY <2>2 DEF FrpFree
    <3> QED BY <1>0, <1>1, <2>3, <3>1, FrpListKept
  <2>10. FrpGateInv'
    BY <1>1, <2>3, FrpGateKept
  <2>11. FrpProcessInv'
    BY <1>1, <1>2, <1>7, <1>8, <2>3, FrpProcessesKept
  <2> QED BY <2>4, <2>8, <2>9, <2>10, <2>11 DEF FrpInv
<1>11. CASE n \notin frpc
  <2>1. status' = [status EXCEPT ![h] = "stopped"] /\ AfterStop(q)
    BY <1>3, <1>11
  <2>2. /\ FrpSteps(q) /\ FrpRequestFits(q)'
        /\ \/ freq[q].op # "delete" /\ freq'[q] = FrpFree
           \/ /\ freq[q].op = "delete" /\ freq'[q].op = "delete" /\ freq'[q].pc = "remove"
              /\ freq'[q].of = freq[q].of /\ freq'[q].holds = freq[q].holds
    BY <1>0, <1>1, <2>1, FrpAfterStop
  <2>3. status'[h] = "stopped"
    BY <1>0, <1>4, <2>1 DEF FrpTypeOK
  <2>4. FrpTypeOK'
    BY <1>0, <1>1, <1>7, <1>8, <2>2 DEF FrpTypeOK, FrpJob, FrpSteps
  <2>5. ASSUME h \notin touched
        PROVE  /\ freq'[q].pc # "idle" => FrpAloneKnows(q)'
               /\ FrpStatusFits(h)'
               /\ tunnelProc'[h] \notin frpc'
               /\ \A p \in frpc' \ loose' : serves'[p] = h => FrpcKnown(p)'
    <3>1. freq'[q].pc # "idle" => FrpAloneKnows(q)'
      <4> SUFFICES ASSUME freq'[q].pc # "idle" PROVE FrpAloneKnows(q)'
        OBVIOUS
      <4>1. freq'[q].op = "delete" /\ freq'[q].pc = "remove"
            /\ freq'[q].of = freq[q].of /\ freq'[q].holds = 0
        BY <1>5, <2>2 DEF FrpFree
      <4> QED BY <1>1, <1>2, <1>6, <1>7, <4>1 DEF FrpAloneKnows, T, BeforeProcess, Stopping
    <3>2. FrpStatusFits(h)'
      BY <1>1, <1>6, <1>7, <2>3 DEF FrpStatusFits
    <3>3. \A p \in frpc \ loose : serves[p] # h
      BY <1>2, <1>4, <1>5, <1>6, <1>11, <2>5
    <3> QED BY <1>1, <1>6, <1>7, <3>1, <3>2, <3>3
  <2>6. FrpRequestInv' /\ FrpAloneInv' /\ FrpPlaceInv' /\ FrpStatusInv' /\ FrpStoppedInv' /\ FrpKnownInv'
    BY <1>1, <1>2, <1>6, <1>9, <2>2, <2>5, FrpStepKeeps
  <2>7. FrpListedInv'
    BY <1>0, <1>1, <2>2, FrpListKept DEF FrpFree
  <2>8. FrpGateInv'
    BY <1>1, <2>2, FrpGateKept
  <2>9. FrpProcessInv'
    BY <1>1, <1>2, <1>7, <1>8, <2>2, FrpProcessesKept
  <2> QED BY <2>4, <2>6, <2>7, <2>8, <2>9 DEF FrpInv
<1> QED BY <1>10, <1>11

-----------------------------------------------------------------------------
(* A request begins, at t.                                                  *)

\* A request that begins has its tunnel to itself, or the tunnel is touched.
LEMMA FrpBegunKeeps ==
    ASSUME FrpInv, NEW q \in FrpRequest, NEW t \in Tunnel, freq[q].pc = "idle",
           freq' \in [FrpRequest -> FrpJob], \A o \in FrpRequest \ {q} : freq'[o] = freq[o],
           freq'[q].of = t, freq'[q].holds = 0, freq'[q].pc \in {"save", "look", "take"},
           FrpPlaceFits(freq'[q].op, freq'[q].pc),
           freq'[q].op = "create" => t \notin everMade,
           freq'[q].op = "delete" => freq'[q].pc = "take",
           freq'[q].op = "halt" <=> gate = "stopping", gate \in {"open", "stopping"},
           everMade' = everMade \cup {t},
           tunnels \ {t} \subseteq tunnels', tunnels' \subseteq tunnels \cup {t},
           freq'[q].op = "delete" <=> t \notin tunnels',
           freq'[q].op # "create" => t \in tunnels \/ freq'[q].op = "halt",
           tunnels' = tunnels \/ freq'[q].op = "delete" \/ freq'[q].pc = "save",
           touched \subseteq touched', touched' \subseteq Tunnel,
           t \notin touched' => \A o \in FrpRequest : T(o) # t,
           toStop \ {t} \subseteq toStop', toStop' \subseteq toStop, toStop' = toStop \/ freq'[q].pc = "take",
           gate' = gate, tunnelProc' = tunnelProc, status' = status, frpc' = frpc, serves' = serves,
           lastFrpc' = lastFrpc, guarded' = guarded, loose' = loose, frpFails' = frpFails,
           frpOps' \in 0..MaxFrpOps, saved' = saved, config' = config
    PROVE  FrpInv'
<1> USE DEF FrpInv
<1>1. FrpTypeOK'
  BY DEF FrpTypeOK, FrpJob
<1>2. freq[q] = FrpFree /\ T(q) = NoTunnel /\ t # NoTunnel /\ 0 \notin frpc
  BY FrpAssumption DEF FrpRequestInv, FrpRequestFits, FrpFree, T, NoTunnel, FrpTypeOK, Frpc
<1>3. FrpRequestInv'
  <2> SUFFICES ASSUME NEW o \in FrpRequest PROVE FrpRequestFits(o)'
    BY DEF FrpRequestInv
  <2>1. CASE o = q
    BY <2>1 DEF FrpRequestFits, T, Stopping
  <2>2. CASE o # q
    BY <2>2 DEF FrpRequestInv, FrpRequestFits, T
  <2> QED BY <2>1, <2>2
<1>4. FrpAloneInv'
  <2> SUFFICES ASSUME NEW i \in FrpRequest, NEW o \in FrpRequest, i # o, T(o)' = T(i)'
               PROVE  T(i)' \in touched' \cup {NoTunnel}
    BY DEF FrpAloneInv
  <2>1. CASE i = q \/ o = q
    BY <2>1 DEF T
  <2>2. CASE i # q /\ o # q
    BY <2>2 DEF T, FrpAloneInv
  <2> QED BY <2>1, <2>2
<1>5. FrpListedInv'
  <2>1. tunnels' \subseteq everMade' /\ saved' \subseteq everMade'
    BY DEF FrpListedInv
  <2>2. ASSUME NEW o \in FrpRequest
        PROVE  IF freq'[o].op = "delete" THEN T(o)' \notin tunnels'
               ELSE T(o)' \in tunnels' \cup touched' \cup {NoTunnel}
    <3>1. CASE o = q
      BY <3>1 DEF T
    <3>2. CASE o # q
      <4>1. T(o)' = T(o) /\ freq'[o].op = freq[o].op
        BY <3>2 DEF T
      <4>2. T(o) = t => t \in touched'
        OBVIOUS
      <4>3. freq[o].op = "delete" => T(o) \notin tunnels /\ (T(o) \in everMade \/ T(o) = NoTunnel)
        BY <2>2 DEF FrpListedInv, FrpRequestInv, FrpRequestFits, FrpFree, T
      <4>4. freq[o].op = "delete" => T(o) \notin tunnels'
        <5> SUFFICES ASSUME freq[o].op = "delete", T(o) \in tunnels' PROVE FALSE
          OBVIOUS
        <5>1. T(o) = t /\ t \in everMade /\ t \notin tunnels
          BY <1>2, <4>3
        <5>2. freq'[q].op = "halt"
          BY <5>1
        <5>3. freq[o].pc = "idle" \/ freq[o].op = "halt"
          BY <5>2 DEF FrpGateInv
        <5> QED BY <1>2, <5>1, <5>3 DEF FrpRequestInv, FrpRequestFits, FrpFree, T
      <4> QED BY <3>2, <4>1, <4>2, <4>4 DEF FrpListedInv
    <3> QED BY <3>1, <3>2
  <2>3. frpFails' = 0 /\ saved' # tunnels' =>
           \E o \in FrpRequest : freq'[o].op = "delete" \/ freq'[o].pc = "save"
    <3>1. CASE tunnels' # tunnels
      BY <3>1
    <3>2. CASE tunnels' = tunnels
      <4>1. \A o \in FrpRequest : freq[o].op = "delete" \/ freq[o].pc = "save" => o # q
        BY <1>2 DEF FrpFree
      <4> QED BY <3>2, <4>1 DEF FrpListedInv
    <3> QED BY <3>1, <3>2
  <2> QED BY <2>1, <2>2, <2>3 DEF FrpListedInv
<1>6. FrpProcessInv'
  BY DEF FrpProcessInv
<1>7. FrpGateInv'
  <2>1. CASE gate = "open"
    BY <2>1 DEF FrpGateInv
  <2>2. CASE gate = "stopping"
    BY <2>2 DEF FrpGateInv
  <2> QED BY <2>1, <2>2
<1>8. FrpPlaceInv'
  <2> SUFFICES ASSUME NEW o \in FrpRequest, T(o)' \notin touched' \cup {NoTunnel}
               PROVE  FrpAloneKnows(o)'
    BY DEF FrpPlaceInv
  <2>1. CASE o = q
    <3>1. freq'[q].op = "create" => tunnelProc[t] \notin frpc
      BY <1>2 DEF FrpProcessInv
    <3>2. freq'[q].pc \notin BeforeProcess \cup Stopping /\ (freq'[q].op = "delete" => freq'[q].pc = "take")
      BY DEF BeforeProcess, Stopping, FrpPlaceFits
    <3> QED BY <2>1, <3>1, <3>2 DEF FrpAloneKnows, T
  <2>2. CASE o # q
    <3>1. freq'[o] = freq[o] /\ T(o) \notin touched \cup {NoTunnel}
      BY <2>2 DEF T
    <3>2. FrpAloneKnows(o)
      BY <3>1 DEF FrpPlaceInv
    <3> QED BY <3>1, <3>2 DEF FrpAloneKnows, T
  <2> QED BY <2>1, <2>2
<1>9. ASSUME NEW s \in Tunnel, s # t PROVE Unstopped(s)' <=> Unstopped(s)
  <2>1. \A o \in FrpRequest : freq[o].of = s \/ freq'[o].of = s => o # q
    BY <1>2, <1>9, FrpAssumption DEF T, NoTunnel
  <2> QED BY <1>9, <2>1 DEF Unstopped, T
<1>10. freq'[q].pc = "take" => Unstopped(t)'
  BY DEF Unstopped, T
<1>11. FrpStatusInv'
  <2> SUFFICES ASSUME NEW s \in tunnels', s \notin touched' PROVE FrpStatusFits(s)'
    BY DEF FrpStatusInv
  <2>1. CASE s # t
    <3>1. s \in tunnels \ touched /\ s \in Tunnel
      BY <2>1, <1>1 DEF FrpTypeOK
    <3>2. FrpStatusFits(s)
      BY <3>1 DEF FrpStatusInv
    <3>3. \A o \in FrpRequest : freq[o].of = s => freq'[o].of = s /\ freq'[o].pc = freq[o].pc
      BY <1>2, <3>1, FrpAssumption DEF T, NoTunnel
    <3> QED BY <1>9, <2>1, <3>1, <3>2, <3>3 DEF FrpStatusFits, T
  <2>2. CASE s = t /\ t \in tunnels
    <3>1. FrpStatusFits(t)
      BY <2>2 DEF FrpStatusInv
    <3>2. \A o \in FrpRequest : T(o) # t
      BY <2>2
    <3>3. Unstopped(t) => Unstopped(t)'
      BY <1>10, <3>2 DEF Unstopped
    <3> QED BY <2>2, <3>1, <3>2, <3>3 DEF FrpStatusFits
  <2>3. CASE s = t /\ t \notin tunnels
    <3>1. freq'[q].op # "delete" /\ (freq'[q].op = "halt" => tunnels' = tunnels)
      BY <2>3 DEF FrpPlaceFits, Stopping
    <3>2. freq'[q].op = "create"
      BY <2>3, <3>1
    <3>3. status[t] = "stopped" /\ tunnelProc[t] = 0
      BY <3>2 DEF FrpProcessInv
    <3> QED BY <1>2, <2>3, <3>3 DEF FrpStatusFits
  <2> QED BY <2>1, <2>2, <2>3
<1>12. FrpStoppedInv'
  <2> SUFFICES ASSUME gate = "stopping", frpFails = 0, NEW s \in tunnels', s \notin touched'
               PROVE  Unstopped(s)' \/ tunnelProc[s] \notin frpc
    BY DEF FrpStoppedInv
  <2>1. CASE s = t
    <3>1. freq'[q].pc = "take"
      BY DEF FrpPlaceFits, Stopping
    <3> QED BY <1>10, <2>1, <3>1
  <2>2. CASE s # t
    <3>1. s \in tunnels \ touched /\ s \in Tunnel
      BY <2>2, <1>1 DEF FrpTypeOK
    <3> QED BY <1>9, <2>2, <3>1 DEF FrpStoppedInv
  <2> QED BY <2>1, <2>2
<1>13. FrpKnownInv'
  <2> SUFFICES ASSUME NEW p \in frpc \ loose, serves[p] \notin touched'
               PROVE  FrpcKnown(p)'
    BY DEF FrpKnownInv, FrpcKnown
  <2>1. FrpcKnown(p) /\ serves[p] \notin touched
    BY DEF FrpKnownInv
  <2>2. \A o \in FrpRequest : T(o) = serves[p] => o # q
    <3>1. p \in 1..lastFrpc
      BY DEF FrpProcessInv
    <3>2. serves[p] \in Tunnel
      BY <3>1 DEF FrpProcessInv, FrpTypeOK
    <3> QED BY <1>2, <3>2, FrpAssumption DEF NoTunnel
  <2> QED BY <2>1, <2>2 DEF FrpcKnown, T
<1> QED BY <1>1, <1>3, <1>4, <1>5, <1>6, <1>7, <1>8, <1>11, <1>12, <1>13

\* What the request is then.
FrpFirst(op, pc, t) == [FrpFree EXCEPT !.op = op, !.pc = pc, !.of = t]

\* A request begins without a process.
LEMMA FrpFirstIs ==
    ASSUME NEW t \in Tunnel, NEW op \in {"create", "start", "stop", "delete", "halt"},
           NEW pc \in {"save", "look", "take"}
    PROVE  /\ FrpFirst(op, pc, t) \in FrpJob /\ FrpFirst(op, pc, t).op = op
           /\ FrpFirst(op, pc, t).pc = pc /\ FrpFirst(op, pc, t).of = t /\ FrpFirst(op, pc, t).holds = 0
<1> DEFINE job == [op |-> op, pc |-> pc, of |-> t, holds |-> 0]
<1>1. FrpFirst(op, pc, t) = job
  <2>1. [FrpFree EXCEPT !.op = op] = [op |-> op, pc |-> "idle", of |-> NoTunnel, holds |-> 0]
    BY DEF FrpFree
  <2>2. [[op |-> op, pc |-> "idle", of |-> NoTunnel, holds |-> 0] EXCEPT !.pc = pc]
          = [op |-> op, pc |-> pc, of |-> NoTunnel, holds |-> 0]
    OBVIOUS
  <2>3. [[op |-> op, pc |-> pc, of |-> NoTunnel, holds |-> 0] EXCEPT !.of = t] = job
    OBVIOUS
  <2>4. FrpFirst(op, pc, t) = [[[FrpFree EXCEPT !.op = op] EXCEPT !.pc = pc] EXCEPT !.of = t]
    BY DEF FrpFree, FrpFirst
  <2> QED BY <2>1, <2>2, <2>3, <2>4
<1>2. job \in FrpJob /\ job.op = op /\ job.pc = pc /\ job.of = t /\ job.holds = 0
  BY FrpAssumption DEF FrpJob
<1> QED BY <1>1, <1>2

\* What BeginFrp leaves and does.
LEMMA BeginFrpSays ==
    ASSUME FrpInv, NEW q \in FrpRequest, NEW t \in Tunnel, NEW op, NEW pc,
           op \in {"create", "start", "stop", "delete"}, pc \in {"save", "look", "take"},
           BeginFrp(q, op, t, pc)
    PROVE  /\ freq' \in [FrpRequest -> FrpJob] /\ \A o \in FrpRequest \ {q} : freq'[o] = freq[o]
           /\ freq'[q].op = op /\ freq'[q].pc = pc /\ freq'[q].of = t /\ freq'[q].holds = 0
           /\ gate = "open" /\ freq[q].pc = "idle" /\ frpOps' \in 0..MaxFrpOps
           /\ touched \subseteq touched' /\ touched' \subseteq Tunnel
           /\ t \notin touched' => \A o \in FrpRequest : T(o) # t
           /\ frpc' = frpc /\ serves' = serves /\ lastFrpc' = lastFrpc /\ guarded' = guarded
           /\ gate' = gate /\ toStop' = toStop /\ frpFails' = frpFails /\ loose' = loose
<1>1. FrpTypeOK
  BY DEF FrpInv
<1>2. freq' = [freq EXCEPT ![q] = FrpFirst(op, pc, t)]
  BY DEF BeginFrp, FrpFirst
<1>3. /\ freq' \in [FrpRequest -> FrpJob] /\ \A o \in FrpRequest \ {q} : freq'[o] = freq[o]
      /\ freq'[q].op = op /\ freq'[q].pc = pc /\ freq'[q].of = t /\ freq'[q].holds = 0
  <2>1. PICK job : job = FrpFirst(op, pc, t)
    OBVIOUS
  <2>2. op \in {"create", "start", "stop", "delete", "halt"}
    OBVIOUS
  <2>3. job \in FrpJob /\ job.op = op /\ job.pc = pc /\ job.of = t /\ job.holds = 0
    BY <2>1, <2>2, FrpFirstIs
  <2>4. freq \in [FrpRequest -> FrpJob] /\ freq' = [freq EXCEPT ![q] = job]
    BY <1>1, <1>2, <2>1, FrpSays
  <2>5. freq' \in [FrpRequest -> FrpJob] /\ freq'[q] = job /\ \A o \in FrpRequest \ {q} : freq'[o] = freq[o]
    BY <2>3, <2>4
  <2> QED BY <2>3, <2>5
<1>4. frpOps' \in 0..MaxFrpOps
  BY <1>1, FrpAssumption DEF FrpTypeOK, BeginFrp
<1>5. /\ touched \subseteq touched' /\ touched' \subseteq Tunnel
      /\ t \notin touched' => \A o \in FrpRequest : T(o) # t
  BY <1>1 DEF FrpTypeOK, BeginFrp
<1> QED BY <1>3, <1>4, <1>5 DEF BeginFrp, frpcVars, frpNode, FrpAt

\* A tunnel is created and listed,
LEMMA CreateTunnelKeeps ==
    ASSUME FrpInv, NEW q \in FrpRequest, NEW t \in Tunnel, CreateTunnel(q, t) PROVE FrpInv'
<1>1. BeginFrp(q, "create", t, "save") /\ t \notin everMade /\ tunnels' = tunnels \cup {t}
      /\ everMade' = everMade \cup {t} /\ saved' = saved /\ tunnelProc' = tunnelProc /\ status' = status
      /\ config' = config
  BY DEF CreateTunnel
<1>2. /\ freq' \in [FrpRequest -> FrpJob] /\ \A o \in FrpRequest \ {q} : freq'[o] = freq[o]
      /\ freq'[q].op = "create" /\ freq'[q].pc = "save" /\ freq'[q].of = t /\ freq'[q].holds = 0
      /\ gate = "open" /\ freq[q].pc = "idle" /\ frpOps' \in 0..MaxFrpOps
      /\ touched \subseteq touched' /\ touched' \subseteq Tunnel
      /\ t \notin touched' => \A o \in FrpRequest : T(o) # t
      /\ frpc' = frpc /\ serves' = serves /\ lastFrpc' = lastFrpc /\ guarded' = guarded
      /\ gate' = gate /\ toStop' = toStop /\ frpFails' = frpFails /\ loose' = loose
  BY <1>1, BeginFrpSays
<1>3. FrpPlaceFits("create", "save")
  BY DEF FrpPlaceFits
<1> QED BY <1>1, <1>2, <1>3, FrpBegunKeeps

\* found by a start or a stop,
LEMMA FindTunnelKeeps ==
    ASSUME FrpInv, NEW q \in FrpRequest, NEW t \in Tunnel, FindTunnel(q, t) PROVE FrpInv'
<1>1. /\ t \in tunnels /\ tunnels' = tunnels /\ everMade' = everMade /\ saved' = saved
      /\ tunnelProc' = tunnelProc /\ status' = status /\ config' = config
  BY DEF FindTunnel, tunnelVars
<1>2. PICK op \in {"start", "stop"}, pc \in {"look", "take"} :
        BeginFrp(q, op, t, pc) /\ FrpPlaceFits(op, pc)
  BY DEF FindTunnel, FrpPlaceFits
<1>3. /\ freq' \in [FrpRequest -> FrpJob] /\ \A o \in FrpRequest \ {q} : freq'[o] = freq[o]
      /\ freq'[q].op = op /\ freq'[q].pc = pc /\ freq'[q].of = t /\ freq'[q].holds = 0
      /\ gate = "open" /\ freq[q].pc = "idle" /\ frpOps' \in 0..MaxFrpOps
      /\ touched \subseteq touched' /\ touched' \subseteq Tunnel
      /\ t \notin touched' => \A o \in FrpRequest : T(o) # t
      /\ frpc' = frpc /\ serves' = serves /\ lastFrpc' = lastFrpc /\ guarded' = guarded
      /\ gate' = gate /\ toStop' = toStop /\ frpFails' = frpFails /\ loose' = loose
  BY <1>2, BeginFrpSays
<1>4. t \in everMade
  BY <1>1 DEF FrpInv, FrpListedInv
<1>5. everMade' = everMade \cup {t}
  BY <1>1, <1>4
<1> QED BY <1>1, <1>2, <1>3, <1>5, FrpBegunKeeps

\* or taken from the list by a deletion.
LEMMA UnlistTunnelKeeps ==
    ASSUME FrpInv, NEW q \in FrpRequest, NEW t \in Tunnel, UnlistTunnel(q, t) PROVE FrpInv'
<1>1. /\ BeginFrp(q, "delete", t, "take") /\ t \in tunnels /\ tunnels' = tunnels \ {t}
      /\ everMade' = everMade /\ saved' = saved
      /\ tunnelProc' = tunnelProc /\ status' = status /\ config' = config
  BY DEF UnlistTunnel
<1>2. /\ freq' \in [FrpRequest -> FrpJob] /\ \A o \in FrpRequest \ {q} : freq'[o] = freq[o]
      /\ freq'[q].op = "delete" /\ freq'[q].pc = "take" /\ freq'[q].of = t /\ freq'[q].holds = 0
      /\ gate = "open" /\ freq[q].pc = "idle" /\ frpOps' \in 0..MaxFrpOps
      /\ touched \subseteq touched' /\ touched' \subseteq Tunnel
      /\ t \notin touched' => \A o \in FrpRequest : T(o) # t
      /\ frpc' = frpc /\ serves' = serves /\ lastFrpc' = lastFrpc /\ guarded' = guarded
      /\ gate' = gate /\ toStop' = toStop /\ frpFails' = frpFails /\ loose' = loose
  BY <1>1, BeginFrpSays
<1>3. FrpPlaceFits("delete", "take")
  BY DEF FrpPlaceFits
<1>4. t \in everMade
  BY <1>1 DEF FrpInv, FrpListedInv
<1>5. everMade' = everMade \cup {t}
  BY <1>1, <1>4
<1> QED BY <1>1, <1>2, <1>3, <1>5, FrpBegunKeeps

\* frpStopAll comes to the next tunnel.
LEMMA StopNextKeeps ==
    ASSUME FrpInv, NEW q \in FrpRequest, NEW t \in Tunnel, StopNext(q, t) PROVE FrpInv'
<1>0. FrpTypeOK
  BY DEF FrpInv
<1>1. /\ gate = "stopping" /\ Idle /\ t \in toStop /\ toStop' = toStop \ {t}
      /\ freq' = [freq EXCEPT ![q] = FrpFirst("halt", "take", t)]
      /\ tunnels' = tunnels /\ everMade' = everMade /\ saved' = saved
      /\ tunnelProc' = tunnelProc /\ status' = status /\ config' = config
      /\ frpc' = frpc /\ serves' = serves /\ lastFrpc' = lastFrpc /\ guarded' = guarded
      /\ gate' = gate /\ frpFails' = frpFails /\ loose' = loose /\ touched' = touched /\ frpOps' = frpOps
  BY DEF StopNext, FrpFirst, tunnelVars, frpcVars, frpCounts
<1>2. /\ freq' \in [FrpRequest -> FrpJob] /\ \A o \in FrpRequest \ {q} : freq'[o] = freq[o]
      /\ freq'[q].op = "halt" /\ freq'[q].pc = "take" /\ freq'[q].of = t /\ freq'[q].holds = 0
  <2>1. PICK job : job = FrpFirst("halt", "take", t)
    OBVIOUS
  <2>2. "halt" \in {"create", "start", "stop", "delete", "halt"} /\ "take" \in {"save", "look", "take"}
    OBVIOUS
  <2>3. job \in FrpJob /\ job.op = "halt" /\ job.pc = "take" /\ job.of = t /\ job.holds = 0
    BY <2>1, <2>2, FrpFirstIs
  <2>4. freq \in [FrpRequest -> FrpJob] /\ freq' = [freq EXCEPT ![q] = job]
    BY <1>0, <1>1, <2>1, FrpSays
  <2>5. freq' \in [FrpRequest -> FrpJob] /\ freq'[q] = job /\ \A o \in FrpRequest \ {q} : freq'[o] = freq[o]
    BY <2>3, <2>4
  <2> QED BY <2>3, <2>5
<1>3. FrpPlaceFits("halt", "take")
  BY DEF FrpPlaceFits
<1>4. t \in tunnels /\ t \in everMade
  BY <1>1 DEF FrpInv, FrpGateInv, FrpListedInv
<1>5. everMade' = everMade \cup {t}
  BY <1>1, <1>4
<1>6. freq[q].pc = "idle" /\ \A o \in FrpRequest : T(o) # t
  <2>1. \A o \in FrpRequest : freq[o].pc = "idle"
    BY <1>1 DEF Idle, FrpAt
  <2>2. \A o \in FrpRequest : T(o) = NoTunnel
    BY <2>1 DEF FrpInv, FrpRequestInv, FrpRequestFits, FrpFree, T
  <2> QED BY <2>1, <2>2, FrpAssumption DEF NoTunnel
<1>7. touched \subseteq Tunnel /\ frpOps \in 0..MaxFrpOps
  BY <1>0 DEF FrpTypeOK
<1> QED BY <1>1, <1>2, <1>3, <1>4, <1>5, <1>6, <1>7, FrpBegunKeeps

-----------------------------------------------------------------------------
(* A process ends by itself, and the node stops and starts.                 *)

\* A process ends.
LEMMA FrpcExitsKeeps == ASSUME FrpInv, NEW p \in Frpc, FrpcExits(p) PROVE FrpInv'
<1> USE DEF FrpInv
<1>1. /\ tunnels' = tunnels /\ everMade' = everMade /\ saved' = saved
      /\ tunnelProc' = tunnelProc /\ status' = status /\ config' = config
      /\ frpc' = frpc \ {p} /\ serves' = serves /\ lastFrpc' = lastFrpc /\ guarded' = guarded
      /\ gate' = gate /\ toStop' = toStop /\ freq' = freq
      /\ frpFails' = frpFails /\ loose' = loose /\ touched' = touched /\ frpOps' = frpOps
  BY DEF FrpcExits, tunnelVars, frpNode, frpCounts
<1>2. FrpTypeOK'
  BY <1>1 DEF FrpTypeOK
<1>3. FrpRequestInv' /\ FrpAloneInv' /\ FrpListedInv'
  BY <1>1 DEF FrpRequestInv, FrpRequestFits, FrpAloneInv, FrpListedInv, T
<1>4. FrpProcessInv' /\ FrpGateInv'
  BY <1>1 DEF FrpProcessInv, FrpGateInv, Idle, FrpAt
<1>5. FrpPlaceInv'
  BY <1>1 DEF FrpPlaceInv, FrpAloneKnows, T
<1>6. FrpStatusInv' /\ FrpStoppedInv'
  BY <1>1 DEF FrpStatusInv, FrpStatusFits, FrpStoppedInv, Unstopped, T
<1>7. FrpKnownInv'
  BY <1>1 DEF FrpKnownInv, FrpcKnown, T
<1> QED BY <1>2, <1>3, <1>4, <1>5, <1>6, <1>7

\* Its goroutine marks the tunnel as failed, if the process is still its own.
LEMMA NoticeExitKeeps == ASSUME FrpInv, NEW p \in Frpc, NoticeExit(p) PROVE FrpInv'
<1> USE DEF FrpInv
<1>1. /\ tunnels' = tunnels /\ everMade' = everMade /\ saved' = saved
      /\ tunnelProc' = tunnelProc /\ config' = config
      /\ frpc' = frpc /\ serves' = serves /\ lastFrpc' = lastFrpc /\ guarded' = guarded \ {p}
      /\ gate' = gate /\ toStop' = toStop /\ freq' = freq
      /\ frpFails' = frpFails /\ loose' = loose /\ touched' = touched /\ frpOps' = frpOps
      /\ p \notin frpc /\ gate \in {"open", "sealed"}
  BY DEF NoticeExit, frpNode, frpCounts
<1>2. \A t \in Tunnel : status'[t] = IF tunnelProc[t] = p THEN "failed" ELSE status[t]
  <2>1. \A t \in Tunnel : tunnelProc[t] = p => serves[p] = t
    BY DEF FrpProcessInv, Frpc
  <2>2. status' = IF tunnelProc[serves[p]] = p THEN [status EXCEPT ![serves[p]] = "failed"] ELSE status
    BY DEF NoticeExit, IsOwn
  <2> QED BY <2>1, <2>2 DEF FrpTypeOK
<1>3. FrpTypeOK'
  <2>1. status' \in [Tunnel -> {"stopped", "running", "failed"}]
    BY DEF NoticeExit, FrpTypeOK
  <2> QED BY <1>1, <2>1 DEF FrpTypeOK
<1>4. FrpRequestInv' /\ FrpAloneInv' /\ FrpListedInv'
  BY <1>1 DEF FrpRequestInv, FrpRequestFits, FrpAloneInv, FrpListedInv, T
<1>5. FrpProcessInv' /\ FrpGateInv'
  <2>1. \A t \in Tunnel \ everMade : status'[t] = "stopped"
    BY <1>2 DEF FrpProcessInv, Frpc
  <2> QED BY <1>1, <2>1 DEF FrpProcessInv, FrpGateInv
<1>6. FrpPlaceInv'
  <2> SUFFICES ASSUME NEW q \in FrpRequest, T(q) \notin touched \cup {NoTunnel}
               PROVE  FrpAloneKnows(q)'
    BY <1>1 DEF FrpPlaceInv, T
  <2>1. FrpAloneKnows(q) /\ T(q) \in Tunnel
    BY FrpSays DEF FrpPlaceInv, T
  <2>2. freq[q].pc \in {"kill", "giveback"} => status'[T(q)] = status[T(q)]
    BY <1>2, <2>1 DEF FrpAloneKnows, Stopping, Frpc
  <2> QED BY <1>1, <2>1, <2>2 DEF FrpAloneKnows, T
<1>7. FrpStatusInv'
  <2> SUFFICES ASSUME NEW t \in tunnels \ touched PROVE FrpStatusFits(t)'
    BY <1>1 DEF FrpStatusInv
  <2>1. FrpStatusFits(t) /\ t \in Tunnel
    BY DEF FrpStatusInv, FrpTypeOK
  <2>2. CASE tunnelProc[t] = p
    BY <1>1, <1>2, <2>1, <2>2 DEF FrpStatusFits
  <2>3. CASE tunnelProc[t] # p
    <3>1. status'[t] = status[t] /\ (tunnelProc[t] \in guarded => tunnelProc[t] \in guarded')
      BY <1>1, <1>2, <2>1, <2>3
    <3> QED BY <1>1, <2>1, <3>1 DEF FrpStatusFits, Unstopped, T
  <2> QED BY <2>2, <2>3
<1>8. FrpStoppedInv'
  BY <1>1 DEF FrpStoppedInv
<1>9. FrpKnownInv'
  BY <1>1 DEF FrpKnownInv, FrpcKnown, T
<1> QED BY <1>3, <1>4, <1>5, <1>6, <1>7, <1>8, <1>9

\* The gate is sealed, and frpStopAll begins and ends when nobody is inside.
LEMMA FrpNodeKeeps == ASSUME FrpInv, SealGate \/ BeginStopAll \/ EndStopAll PROVE FrpInv'
<1> USE DEF FrpInv
<1>1. /\ tunnels' = tunnels /\ everMade' = everMade /\ saved' = saved
      /\ tunnelProc' = tunnelProc /\ status' = status /\ config' = config
      /\ frpc' = frpc /\ serves' = serves /\ lastFrpc' = lastFrpc /\ freq' = freq
      /\ frpFails' = frpFails /\ loose' = loose /\ touched' = touched /\ frpOps' = frpOps
  BY DEF SealGate, BeginStopAll, EndStopAll, tunnelVars, frpcVars, frpCounts
<1>2. FrpTypeOK'
  BY <1>1 DEF FrpTypeOK, SealGate, BeginStopAll, EndStopAll, frpcVars
<1>3. FrpRequestInv' /\ FrpAloneInv' /\ FrpListedInv'
  BY <1>1 DEF FrpRequestInv, FrpRequestFits, FrpAloneInv, FrpListedInv, T
<1>4. FrpProcessInv' /\ FrpPlaceInv' /\ FrpKnownInv'
  BY <1>1 DEF FrpProcessInv, FrpPlaceInv, FrpAloneKnows, FrpKnownInv, FrpcKnown, T
<1>5. CASE SealGate
  <2>1. gate = "open" /\ gate' = "sealed" /\ toStop' = toStop /\ guarded' = guarded
    BY <1>5 DEF SealGate, frpcVars
  <2>2. FrpGateInv' /\ FrpStoppedInv'
    BY <1>1, <2>1 DEF FrpGateInv, FrpStoppedInv
  <2>3. FrpStatusInv'
    BY <1>1, <2>1 DEF FrpStatusInv, FrpStatusFits, T
  <2> QED BY <1>2, <1>3, <1>4, <2>2, <2>3
<1>6. CASE BeginStopAll
  <2>1. gate = "sealed" /\ Idle /\ gate' = "stopping" /\ toStop' = tunnels /\ guarded' = {}
    BY <1>6 DEF BeginStopAll
  <2>2. \A t \in tunnels : Unstopped(t)'
    BY <2>1 DEF Unstopped
  <2>3. FrpGateInv' /\ FrpStoppedInv'
    BY <1>1, <2>1, <2>2 DEF FrpGateInv, FrpStoppedInv, Idle, FrpAt
  <2>4. FrpStatusInv'
    BY <1>1, <2>1, <2>2 DEF FrpStatusInv, FrpStatusFits, T
  <2> QED BY <1>2, <1>3, <1>4, <2>3, <2>4
<1>7. CASE EndStopAll
  <2>1. gate = "stopping" /\ Idle /\ gate' = "over" /\ toStop = {} /\ toStop' = {} /\ guarded' = guarded
    BY <1>7 DEF EndStopAll, frpcVars
  <2>2. \A t \in tunnels : ~Unstopped(t) /\ (~Unstopped(t))'
    BY <1>1, <2>1 DEF Unstopped, Idle, FrpAt, T
  <2>3. FrpGateInv' /\ FrpStoppedInv'
    BY <1>1, <2>1, <2>2 DEF FrpGateInv, FrpStoppedInv, Idle, FrpAt
  <2>4. FrpStatusInv'
    BY <1>1, <2>1, <2>2 DEF FrpStatusInv, FrpStatusFits, T
  <2> QED BY <1>2, <1>3, <1>4, <2>3, <2>4
<1> QED BY <1>5, <1>6, <1>7

\* After a crash the list is read again, and the processes that run are loose.
LEMMA ReloadKeeps == ASSUME FrpInv, Reload PROVE FrpInv'
<1> USE DEF FrpInv
<1>1. /\ frpFails' \in 0..MaxFrpFails /\ gate' = "open" /\ toStop' = {}
      /\ freq' = [q \in FrpRequest |-> FrpFree]
      /\ tunnels' \in {saved, {}} /\ (frpFails' = 0 => tunnels' = saved)
      /\ guarded' = {} /\ loose' = loose \cup frpc
      /\ tunnelProc' = [t \in Tunnel |-> 0] /\ status' = [t \in Tunnel |-> "stopped"]
      /\ saved' = saved /\ everMade' = everMade /\ config' = config /\ frpc' = frpc /\ serves' = serves
      /\ lastFrpc' = lastFrpc /\ frpOps' = frpOps /\ touched' = touched
  BY FrpAssumption DEF Reload, FrpFail, FrpTypeOK
<1>2. \A q \in FrpRequest : freq'[q] = FrpFree /\ freq'[q].op = "stop" /\ freq'[q].pc = "idle"
                            /\ freq'[q].of = NoTunnel /\ freq'[q].holds = 0
  BY <1>1 DEF FrpFree
<1>3. FrpTypeOK'
  <2>1. freq' \in [FrpRequest -> FrpJob]
    BY <1>1, FrpAssumption DEF FrpFree, FrpJob, NoTunnel
  <2>2. tunnelProc' \in [Tunnel -> 0..MaxFrpc] /\ status' \in [Tunnel -> {"stopped", "running", "failed"}]
    BY <1>1, FrpAssumption
  <2> QED BY <1>1, <2>1, <2>2 DEF FrpTypeOK, FrpJob
<1>4. FrpRequestInv'
  BY <1>2 DEF FrpRequestInv, FrpRequestFits, FrpPlaceFits, Stopping
<1>5. FrpAloneInv' /\ FrpPlaceInv'
  BY <1>2 DEF FrpAloneInv, FrpPlaceInv, T
<1>6. FrpListedInv'
  BY <1>1, <1>2 DEF FrpListedInv, T
<1>7. FrpProcessInv'
  BY <1>1 DEF FrpProcessInv
<1>8. FrpGateInv' /\ FrpStoppedInv'
  BY <1>1, <1>2 DEF FrpGateInv, FrpStoppedInv
<1>9. FrpStatusInv'
  <2>1. 0 \notin frpc /\ saved \subseteq Tunnel
    BY DEF FrpTypeOK, Frpc
  <2> QED BY <1>1, <2>1 DEF FrpStatusInv, FrpStatusFits
<1>10. FrpKnownInv'
  BY <1>1 DEF FrpKnownInv
<1> QED BY <1>3, <1>4, <1>5, <1>6, <1>7, <1>8, <1>9, <1>10

\* Every step of the tunnels keeps the invariant.
LEMMA FrpStays == ASSUME FrpInv, [FrpNext]_frpVars PROVE FrpInv'
<1>1. CASE UNCHANGED frpVars
  BY <1>1 DEF frpVars, tunnelVars, frpcVars, frpNode, frpCounts, FrpInv, FrpTypeOK, FrpRequestInv,
     FrpRequestFits, FrpAloneInv, FrpListedInv, FrpProcessInv, FrpGateInv, Idle, FrpAt, FrpPlaceInv,
     FrpAloneKnows, FrpStatusInv, FrpStatusFits, FrpStoppedInv, Unstopped, FrpKnownInv, FrpcKnown, T
<1>2. CASE SealGate \/ BeginStopAll \/ EndStopAll \/ Reload
  BY <1>2, FrpNodeKeeps, ReloadKeeps
<1>3. CASE \E p \in Frpc : FrpcExits(p) \/ NoticeExit(p)
  BY <1>3, FrpcExitsKeeps, NoticeExitKeeps
<1>4. ASSUME NEW q \in FrpRequest, NEW t \in Tunnel,
             CreateTunnel(q, t) \/ FindTunnel(q, t) \/ UnlistTunnel(q, t) \/ StopNext(q, t)
      PROVE  FrpInv'
  BY <1>4, CreateTunnelKeeps, FindTunnelKeeps, UnlistTunnelKeeps, StopNextKeeps
<1>5. ASSUME NEW q \in FrpRequest,
             \/ LookAtTunnel(q) \/ RemoveConfig(q) \/ SaveTunnels(q) \/ EnterGate(q) \/ WriteConfig(q)
      PROVE  FrpInv'
  BY <1>5, LookKeeps, RemoveKeeps, SaveKeeps, EnterKeeps, WriteConfigKeeps
<1>6. ASSUME NEW q \in FrpRequest,
             \/ SpawnFrpc(q) \/ PublishFrpc(q) \/ TakeFrpc(q)
             \/ KillFrpc(q) \/ GiveFrpcBack(q) \/ SettleStopped(q)
      PROVE  FrpInv'
  BY <1>6, SpawnKeeps, PublishKeeps, TakeFrpcKeeps, KillFrpcKeeps, GiveBackKeeps, SettleKeeps
<1> QED BY <1>1, <1>2, <1>3, <1>4, <1>5, <1>6 DEF FrpNext

\* Every process of a tunnel is known, a shutdown leaves none, the status is true and the
\* list is saved, outside the windows (frp.go), for any number of tunnels and requests.
THEOREM TunnelsSafe == FrpSpec => [](FrpTypeOK /\ FrpHolds)
<1>1. FrpInit => FrpInv
  BY FrpBegins
<1>2. FrpInv /\ [FrpNext]_frpVars => FrpInv'
  BY FrpStays
<1>3. FrpInv => FrpTypeOK /\ FrpHolds
  BY FrpInvHolds
<1> QED BY <1>1, <1>2, <1>3, PTL DEF FrpSpec

----------------------------------------------------------------------------
(* The sessions in a jail.                                                 *)

\* Where the record that recovery is at can be.
Recoveries == [at : JSession \cup {"none"}, phase : {"none", "terminated", "watch", "clear"}, seen : 0..MaxJid]

\* The memory of the node is there.
Remembers == mode \in {"up", "draining"}

\* A start of the node forgets where every session was.
PlacesFitMode ==
    /\ ~Remembers => \A s \in JSession : run[s] \in {"none", "failed", "gone"}
    /\ table \subseteq {s \in JSession : run[s] \in Running \cup Ending \cup {"closed"}}
    /\ mode # "recovering" => recovery = NoRecovery

\* Which record there is of a session, by where it is; of one of an earlier start any,
\* until the node serves.
RecordFits(s) ==
    /\ run[s] \in {"none", "failed", "jid", "counted", "started", "unrecorded"} => disk[s] = "none"
    /\ run[s] \in {"torn", "tmp"} => disk[s] = run[s]
    /\ run[s] \in Running \cup Ending => disk[s] = "file"
    /\ run[s] = "closed" /\ s \in keeps => disk[s] = "file"
    /\ run[s] = "gone" /\ Remembers => disk[s] = "none"

\* A command is in the jail that runs, and in the one of the record unless the session
\* is in a window.
CommandFits(s) ==
    /\ cmdIn[s] \in {0, jid}
    /\ s \notin strays => cmdIn[s] \in {0, named[s]}

\* The kernel id that a session was started with has been used.
NamedFits(s) ==
    /\ named[s] <= lastJid
    /\ run[s] \notin {"none", "failed"} => named[s] # 0

\* Which processes of a session there may be.
ProcessesFit(s) ==
    /\ s \in entering => s \in cli
    /\ run[s] \in {"none", "jid", "counted", "failed"} => ~Alive(s)
    /\ run[s] \in {"killed", "closed"} \cup Ending /\ s \notin keeps => ~Alive(s)
    /\ run[s] = "gone" /\ disk[s] = "none" /\ s \notin strays => ~Alive(s)

\* The jail of a watched session that is over has been stopped.
WatchFits(s) ==
    /\ run[s] \in {"stopped", "closed"} /\ s \in watched \ keeps => jid # named[s]
    /\ run[s] = "gone" /\ disk[s] = "none" /\ s \in watched \ (strays \cup spared) => jid # named[s]

\* How far recovery is with the record of a session.
RecoveryFits ==
    recovery.phase # "none" =>
        LET s == recovery.at
        IN  /\ s \in JSession /\ run[s] = "gone" /\ disk[s] \in {"tmp", "file"}
            /\ s \notin cli
            /\ recovery.phase \in {"watch", "clear"} /\ s \notin strays => cmdIn[s] = 0
            /\ recovery.phase = "watch" => recovery.seen = named[s]
            /\ recovery.phase = "clear" /\ s \in watched \ (strays \cup spared) => jid # named[s]

SessionFits(s) ==
    RecordFits(s) /\ CommandFits(s) /\ NamedFits(s) /\ ProcessesFit(s) /\ WatchFits(s)

JailSessionsInv ==
    /\ JailSessionsTypeOK /\ recovery \in Recoveries /\ jid <= lastJid
    /\ PlacesFitMode /\ RecoveryFits
    /\ \A s \in JSession : SessionFits(s)

\* The jail is started: it gets a kernel id that no session was started with.
LEMMA StartJailKeeps == ASSUME JailSessionsInv, StartJail PROVE JailSessionsInv'
<1> USE DEF JailSessionsInv, JailSessionsTypeOK, StartJail, Starting, Running, Ending,
            jailVars, groupVars, tableVars, recordVars, nodeVars, jailHistory
<1>1. JailSessionsTypeOK' /\ recovery' \in Recoveries /\ (jid <= lastJid)'
  BY JailAssumption DEF Recoveries
<1>2. PlacesFitMode'
  BY DEF PlacesFitMode, Remembers, NoRecovery
<1>3. RecoveryFits'
  BY DEF Recoveries, NoRecovery, Remembers, PlacesFitMode, RecoveryFits,
         SessionFits, RecordFits, CommandFits, NamedFits, ProcessesFit, Alive
<1>4. ASSUME NEW o \in JSession PROVE SessionFits(o)'
  BY DEF PlacesFitMode, Remembers, RecoveryFits,
         SessionFits, RecordFits, CommandFits, NamedFits, ProcessesFit, WatchFits, Alive
<1> QED
  BY <1>1, <1>2, <1>3, <1>4

\* The jail is stopped, and every command in it ends.
LEMMA StopJailKeeps == ASSUME JailSessionsInv, StopJail PROVE JailSessionsInv'
<1> USE DEF JailSessionsInv, JailSessionsTypeOK, StopJail, JailStops, Starting, Running, Ending,
            jailVars, groupVars, tableVars, recordVars, nodeVars, jailHistory
<1>1. JailSessionsTypeOK' /\ recovery' \in Recoveries /\ (jid <= lastJid)'
  BY JailAssumption DEF Recoveries
<1>2. PlacesFitMode'
  BY DEF PlacesFitMode, Remembers, NoRecovery
<1>3. RecoveryFits'
  BY DEF Recoveries, NoRecovery, Remembers, PlacesFitMode, RecoveryFits,
         SessionFits, RecordFits, CommandFits, NamedFits, ProcessesFit, Alive
<1>4. ASSUME NEW o \in JSession PROVE SessionFits(o)'
  BY DEF PlacesFitMode, Remembers, RecoveryFits,
         SessionFits, RecordFits, CommandFits, NamedFits, ProcessesFit, WatchFits, Alive
<1> QED
  BY <1>1, <1>2, <1>3, <1>4

\* A command in the jail ends.
LEMMA CommandExitsKeeps == ASSUME JailSessionsInv, NEW s \in JSession, CommandExits(s) PROVE JailSessionsInv'
<1> USE DEF JailSessionsInv, JailSessionsTypeOK, CommandExits, Starting, Running, Ending,
            jailVars, groupVars, tableVars, recordVars, nodeVars, jailHistory
<1>1. JailSessionsTypeOK' /\ recovery' \in Recoveries /\ (jid <= lastJid)'
  BY JailAssumption DEF Recoveries
<1>2. PlacesFitMode'
  BY DEF PlacesFitMode, Remembers, NoRecovery
<1>3. RecoveryFits'
  BY DEF Recoveries, NoRecovery, Remembers, PlacesFitMode, RecoveryFits,
         SessionFits, RecordFits, CommandFits, NamedFits, ProcessesFit, Alive
<1>4. ASSUME NEW o \in JSession PROVE SessionFits(o)'
  BY DEF PlacesFitMode, Remembers, RecoveryFits,
         SessionFits, RecordFits, CommandFits, NamedFits, ProcessesFit, WatchFits, Alive
<1> QED
  BY <1>1, <1>2, <1>3, <1>4

\* A bastille command line ends.
LEMMA CliExitsKeeps == ASSUME JailSessionsInv, NEW s \in JSession, CliExits(s) PROVE JailSessionsInv'
<1> USE DEF JailSessionsInv, JailSessionsTypeOK, CliExits, Starting, Running, Ending,
            jailVars, groupVars, tableVars, recordVars, nodeVars, jailHistory
<1>1. JailSessionsTypeOK' /\ recovery' \in Recoveries /\ (jid <= lastJid)'
  BY JailAssumption DEF Recoveries
<1>2. PlacesFitMode'
  BY DEF PlacesFitMode, Remembers, NoRecovery
<1>3. RecoveryFits'
  BY DEF Recoveries, NoRecovery, Remembers, PlacesFitMode, RecoveryFits,
         SessionFits, RecordFits, CommandFits, NamedFits, ProcessesFit, Alive
<1>4. ASSUME NEW o \in JSession PROVE SessionFits(o)'
  BY DEF PlacesFitMode, Remembers, RecoveryFits,
         SessionFits, RecordFits, CommandFits, NamedFits, ProcessesFit, WatchFits, Alive
<1> QED
  BY <1>1, <1>2, <1>3, <1>4

\* bastilleRunStart reads the kernel id of the jail.
LEMMA ReadJidKeeps ==
    ASSUME JailSessionsInv, NEW s \in JSession, NEW watch \in BOOLEAN, ReadJid(s, watch)
    PROVE  JailSessionsInv'
<1> USE DEF JailSessionsInv, JailSessionsTypeOK, ReadJid, At, Goes, Starting, Running, Ending,
            jailVars, groupVars, tableVars, recordVars, nodeVars, jailHistory
<1>1. JailSessionsTypeOK' /\ recovery' \in Recoveries /\ (jid <= lastJid)'
  BY JailAssumption DEF Recoveries
<1>2. PlacesFitMode'
  BY DEF PlacesFitMode, Remembers, NoRecovery
<1>3. RecoveryFits'
  BY DEF Recoveries, NoRecovery, Remembers, PlacesFitMode, RecoveryFits,
         SessionFits, RecordFits, CommandFits, NamedFits, ProcessesFit, Alive
<1>4. ASSUME NEW o \in JSession PROVE SessionFits(o)'
  BY DEF PlacesFitMode, Remembers, RecoveryFits,
         SessionFits, RecordFits, CommandFits, NamedFits, ProcessesFit, WatchFits, Alive
<1> QED
  BY <1>1, <1>2, <1>3, <1>4

\* sessionStore.create counts the sessions that run; it sweeps only what is over.
LEMMA CountSessionsKeeps ==
    ASSUME JailSessionsInv, NEW s \in JSession, CountSessions(s) PROVE JailSessionsInv'
<1> USE DEF JailSessionsInv, JailSessionsTypeOK, CountSessions, At, Goes, Starting, Running, Ending,
            jailVars, groupVars, tableVars, recordVars, nodeVars, jailHistory
<1>1. JailSessionsTypeOK' /\ recovery' \in Recoveries /\ (jid <= lastJid)'
  BY JailAssumption DEF Recoveries
<1>2. PlacesFitMode'
  BY DEF PlacesFitMode, Remembers, NoRecovery
<1>3. RecoveryFits'
  BY DEF Recoveries, NoRecovery, Remembers, PlacesFitMode, RecoveryFits,
         SessionFits, RecordFits, CommandFits, NamedFits, ProcessesFit, Alive
<1>4. ASSUME NEW o \in JSession PROVE SessionFits(o)'
  BY DEF PlacesFitMode, Remembers, RecoveryFits,
         SessionFits, RecordFits, CommandFits, NamedFits, ProcessesFit, WatchFits, Alive
<1> QED
  BY <1>1, <1>2, <1>3, <1>4

\* cmd.Start: a command that gets into another jail than the one read is a window.
LEMMA StartCliKeeps == ASSUME JailSessionsInv, NEW s \in JSession, StartCli(s) PROVE JailSessionsInv'
<1> USE DEF JailSessionsInv, JailSessionsTypeOK, StartCli, At, Goes, Starting, Running, Ending,
            jailVars, groupVars, tableVars, recordVars, nodeVars, jailHistory
<1>1. JailSessionsTypeOK' /\ recovery' \in Recoveries /\ (jid <= lastJid)'
  BY JailAssumption DEF Recoveries
<1>2. PlacesFitMode'
  BY DEF PlacesFitMode, Remembers, NoRecovery
<1>3. RecoveryFits'
  BY DEF Recoveries, NoRecovery, Remembers, PlacesFitMode, RecoveryFits,
         SessionFits, RecordFits, CommandFits, NamedFits, ProcessesFit, Alive
<1>4. ASSUME NEW o \in JSession PROVE SessionFits(o)'
  BY DEF PlacesFitMode, Remembers, RecoveryFits,
         SessionFits, RecordFits, CommandFits, NamedFits, ProcessesFit, WatchFits, Alive
<1> QED
  BY <1>1, <1>2, <1>3, <1>4

\* The command line enters the jail that runs, which is the window if it is another.
LEMMA EnterJailKeeps == ASSUME JailSessionsInv, NEW s \in JSession, EnterJail(s) PROVE JailSessionsInv'
<1> USE DEF JailSessionsInv, JailSessionsTypeOK, EnterJail, At, Goes, Starting, Running, Ending,
            jailVars, groupVars, tableVars, recordVars, nodeVars, jailHistory
<1>1. JailSessionsTypeOK' /\ recovery' \in Recoveries /\ (jid <= lastJid)'
  BY JailAssumption DEF Recoveries
<1>2. PlacesFitMode'
  BY DEF PlacesFitMode, Remembers, NoRecovery
<1>3. RecoveryFits'
  BY DEF Recoveries, NoRecovery, Remembers, PlacesFitMode, RecoveryFits,
         SessionFits, RecordFits, CommandFits, NamedFits, ProcessesFit, Alive
<1>4. ASSUME NEW o \in JSession PROVE SessionFits(o)'
  BY DEF PlacesFitMode, Remembers, RecoveryFits,
         SessionFits, RecordFits, CommandFits, NamedFits, ProcessesFit, WatchFits, Alive
<1> QED
  BY <1>1, <1>2, <1>3, <1>4

\* recordCommandProcess, up to the rename.
LEMMA WriteRecordKeeps == ASSUME JailSessionsInv, NEW s \in JSession, WriteRecord(s) PROVE JailSessionsInv'
<1> USE DEF JailSessionsInv, JailSessionsTypeOK, WriteRecord, At, Goes, Starting, Running, Ending,
            jailVars, groupVars, tableVars, recordVars, nodeVars, jailHistory
<1>1. JailSessionsTypeOK' /\ recovery' \in Recoveries /\ (jid <= lastJid)'
  BY JailAssumption DEF Recoveries
<1>2. PlacesFitMode'
  BY DEF PlacesFitMode, Remembers, NoRecovery
<1>3. RecoveryFits'
  BY DEF Recoveries, NoRecovery, Remembers, PlacesFitMode, RecoveryFits,
         SessionFits, RecordFits, CommandFits, NamedFits, ProcessesFit, Alive
<1>4. ASSUME NEW o \in JSession PROVE SessionFits(o)'
  BY DEF PlacesFitMode, Remembers, RecoveryFits,
         SessionFits, RecordFits, CommandFits, NamedFits, ProcessesFit, WatchFits, Alive
<1> QED
  BY <1>1, <1>2, <1>3, <1>4

\* What cannot be recorded is killed.
LEMMA KillUnrecordedKeeps ==
    ASSUME JailSessionsInv, NEW s \in JSession, KillUnrecorded(s) PROVE JailSessionsInv'
<1> USE DEF JailSessionsInv, JailSessionsTypeOK, KillUnrecorded, At, Goes, GroupDies, Starting, Running,
            Ending,
            jailVars, groupVars, tableVars, recordVars, nodeVars, jailHistory
<1>1. JailSessionsTypeOK' /\ recovery' \in Recoveries /\ (jid <= lastJid)'
  BY JailAssumption DEF Recoveries
<1>2. PlacesFitMode'
  BY DEF PlacesFitMode, Remembers, NoRecovery
<1>3. RecoveryFits'
  BY DEF Recoveries, NoRecovery, Remembers, PlacesFitMode, RecoveryFits,
         SessionFits, RecordFits, CommandFits, NamedFits, ProcessesFit, Alive
<1>4. ASSUME NEW o \in JSession PROVE SessionFits(o)'
  BY DEF PlacesFitMode, Remembers, RecoveryFits,
         SessionFits, RecordFits, CommandFits, NamedFits, ProcessesFit, WatchFits, Alive
<1> QED
  BY <1>1, <1>2, <1>3, <1>4

\* The record is renamed into its place and the session registered.
LEMMA RegisterSessionKeeps ==
    ASSUME JailSessionsInv, NEW s \in JSession, RegisterSession(s) PROVE JailSessionsInv'
<1> USE DEF JailSessionsInv, JailSessionsTypeOK, RegisterSession, At, Goes, Starting, Running, Ending,
            jailVars, groupVars, tableVars, recordVars, nodeVars, jailHistory
<1>1. JailSessionsTypeOK' /\ recovery' \in Recoveries /\ (jid <= lastJid)'
  BY JailAssumption DEF Recoveries
<1>2. PlacesFitMode'
  BY DEF PlacesFitMode, Remembers, NoRecovery
<1>3. RecoveryFits'
  BY DEF Recoveries, NoRecovery, Remembers, PlacesFitMode, RecoveryFits,
         SessionFits, RecordFits, CommandFits, NamedFits, ProcessesFit, Alive
<1>4. ASSUME NEW o \in JSession PROVE SessionFits(o)'
  BY DEF PlacesFitMode, Remembers, RecoveryFits,
         SessionFits, RecordFits, CommandFits, NamedFits, ProcessesFit, WatchFits, Alive
<1> QED
  BY <1>1, <1>2, <1>3, <1>4

\* cmd.Wait returns.
LEMMA ReapCliKeeps == ASSUME JailSessionsInv, NEW s \in JSession, ReapCli(s) PROVE JailSessionsInv'
<1> USE DEF JailSessionsInv, JailSessionsTypeOK, ReapCli, At, Goes, Starting, Running, Ending,
            jailVars, groupVars, tableVars, recordVars, nodeVars, jailHistory
<1>1. JailSessionsTypeOK' /\ recovery' \in Recoveries /\ (jid <= lastJid)'
  BY JailAssumption DEF Recoveries
<1>2. PlacesFitMode'
  BY DEF PlacesFitMode, Remembers, NoRecovery
<1>3. RecoveryFits'
  BY DEF Recoveries, NoRecovery, Remembers, PlacesFitMode, RecoveryFits,
         SessionFits, RecordFits, CommandFits, NamedFits, ProcessesFit, Alive
<1>4. ASSUME NEW o \in JSession PROVE SessionFits(o)'
  BY DEF PlacesFitMode, Remembers, RecoveryFits,
         SessionFits, RecordFits, CommandFits, NamedFits, ProcessesFit, WatchFits, Alive
<1> QED
  BY <1>1, <1>2, <1>3, <1>4

\* The group is killed, or the session keeps its record.
LEMMA KillGroupKeeps == ASSUME JailSessionsInv, NEW s \in JSession, KillGroup(s) PROVE JailSessionsInv'
<1> USE DEF JailSessionsInv, JailSessionsTypeOK, KillGroup, At, Goes, GroupDies, Fails, Starting, Running,
            Ending,
            jailVars, groupVars, tableVars, recordVars, nodeVars, jailHistory
<1>1. JailSessionsTypeOK' /\ recovery' \in Recoveries /\ (jid <= lastJid)'
  BY JailAssumption DEF Recoveries
<1>2. PlacesFitMode'
  BY DEF PlacesFitMode, Remembers, NoRecovery
<1>3. RecoveryFits'
  BY DEF Recoveries, NoRecovery, Remembers, PlacesFitMode, RecoveryFits,
         SessionFits, RecordFits, CommandFits, NamedFits, ProcessesFit, Alive
<1>4. ASSUME NEW o \in JSession PROVE SessionFits(o)'
  BY DEF PlacesFitMode, Remembers, RecoveryFits,
         SessionFits, RecordFits, CommandFits, NamedFits, ProcessesFit, WatchFits, Alive
<1> QED
  BY <1>1, <1>2, <1>3, <1>4

\* The session is marked as over.
LEMMA MarkEndedKeeps == ASSUME JailSessionsInv, NEW s \in JSession, MarkEnded(s) PROVE JailSessionsInv'
<1> USE DEF JailSessionsInv, JailSessionsTypeOK, MarkEnded, At, Goes, Starting, Running, Ending,
            jailVars, groupVars, tableVars, recordVars, nodeVars, jailHistory
<1>1. JailSessionsTypeOK' /\ recovery' \in Recoveries /\ (jid <= lastJid)'
  BY JailAssumption DEF Recoveries
<1>2. PlacesFitMode'
  BY DEF PlacesFitMode, Remembers, NoRecovery
<1>3. RecoveryFits'
  BY DEF Recoveries, NoRecovery, Remembers, PlacesFitMode, RecoveryFits,
         SessionFits, RecordFits, CommandFits, NamedFits, ProcessesFit, Alive
<1>4. ASSUME NEW o \in JSession PROVE SessionFits(o)'
  BY DEF PlacesFitMode, Remembers, RecoveryFits,
         SessionFits, RecordFits, CommandFits, NamedFits, ProcessesFit, WatchFits, Alive
<1> QED
  BY <1>1, <1>2, <1>3, <1>4

\* The watchdog stops the jail, or the session keeps its record.
LEMMA StopWatchedJailKeeps ==
    ASSUME JailSessionsInv, NEW s \in JSession, StopWatchedJail(s) PROVE JailSessionsInv'
<1> USE DEF JailSessionsInv, JailSessionsTypeOK, StopWatchedJail, At, Goes, JailStops, Fails, Starting,
            Running, Ending,
            jailVars, groupVars, tableVars, recordVars, nodeVars, jailHistory
<1>1. JailSessionsTypeOK' /\ recovery' \in Recoveries /\ (jid <= lastJid)'
  BY JailAssumption DEF Recoveries
<1>2. PlacesFitMode'
  BY DEF PlacesFitMode, Remembers, NoRecovery
<1>3. RecoveryFits'
  BY DEF Recoveries, NoRecovery, Remembers, PlacesFitMode, RecoveryFits,
         SessionFits, RecordFits, CommandFits, NamedFits, ProcessesFit, Alive
<1>4. ASSUME NEW o \in JSession PROVE SessionFits(o)'
  BY DEF PlacesFitMode, Remembers, RecoveryFits,
         SessionFits, RecordFits, CommandFits, NamedFits, ProcessesFit, WatchFits, Alive
<1> QED
  BY <1>1, <1>2, <1>3, <1>4

\* forgetProcess: nothing is left of a session that it takes the record of.
LEMMA ForgetSessionKeeps ==
    ASSUME JailSessionsInv, NEW s \in JSession, ForgetSession(s) PROVE JailSessionsInv'
<1> USE DEF JailSessionsInv, JailSessionsTypeOK, ForgetSession, At, Goes, Starting, Running, Ending,
            jailVars, groupVars, tableVars, recordVars, nodeVars, jailHistory
<1>1. JailSessionsTypeOK' /\ recovery' \in Recoveries /\ (jid <= lastJid)'
  BY JailAssumption DEF Recoveries
<1>2. PlacesFitMode'
  BY DEF PlacesFitMode, Remembers, NoRecovery
<1>3. RecoveryFits'
  BY DEF Recoveries, NoRecovery, Remembers, PlacesFitMode, RecoveryFits,
         SessionFits, RecordFits, CommandFits, NamedFits, ProcessesFit, Alive
<1>4. ASSUME NEW o \in JSession PROVE SessionFits(o)'
  BY DEF PlacesFitMode, Remembers, RecoveryFits,
         SessionFits, RecordFits, CommandFits, NamedFits, ProcessesFit, WatchFits, Alive
<1> QED
  BY <1>1, <1>2, <1>3, <1>4

\* A stop or a delete kills the group.
LEMMA KillSessionKeeps == ASSUME JailSessionsInv, NEW s \in JSession, KillSession(s) PROVE JailSessionsInv'
<1> USE DEF JailSessionsInv, JailSessionsTypeOK, KillSession, GroupDies, IsRunning, Starting, Running, Ending,
            jailVars, groupVars, tableVars, recordVars, nodeVars, jailHistory
<1>1. JailSessionsTypeOK' /\ recovery' \in Recoveries /\ (jid <= lastJid)'
  BY JailAssumption DEF Recoveries
<1>2. PlacesFitMode'
  BY DEF PlacesFitMode, Remembers, NoRecovery
<1>3. RecoveryFits'
  BY DEF Recoveries, NoRecovery, Remembers, PlacesFitMode, RecoveryFits,
         SessionFits, RecordFits, CommandFits, NamedFits, ProcessesFit, Alive
<1>4. ASSUME NEW o \in JSession PROVE SessionFits(o)'
  BY DEF PlacesFitMode, Remembers, RecoveryFits,
         SessionFits, RecordFits, CommandFits, NamedFits, ProcessesFit, WatchFits, Alive
<1> QED
  BY <1>1, <1>2, <1>3, <1>4

\* bastilleRunDelete takes only a session that is over out of the table.
LEMMA DeleteSessionKeeps ==
    ASSUME JailSessionsInv, NEW s \in JSession, DeleteSession(s) PROVE JailSessionsInv'
<1> USE DEF JailSessionsInv, JailSessionsTypeOK, DeleteSession, At, IsRunning, Starting, Running, Ending,
            jailVars, groupVars, tableVars, recordVars, nodeVars, jailHistory
<1>1. JailSessionsTypeOK' /\ recovery' \in Recoveries /\ (jid <= lastJid)'
  BY JailAssumption DEF Recoveries
<1>2. PlacesFitMode'
  BY DEF PlacesFitMode, Remembers, NoRecovery
<1>3. RecoveryFits'
  BY DEF Recoveries, NoRecovery, Remembers, PlacesFitMode, RecoveryFits,
         SessionFits, RecordFits, CommandFits, NamedFits, ProcessesFit, Alive
<1>4. ASSUME NEW o \in JSession PROVE SessionFits(o)'
  BY DEF PlacesFitMode, Remembers, RecoveryFits,
         SessionFits, RecordFits, CommandFits, NamedFits, ProcessesFit, WatchFits, Alive
<1> QED
  BY <1>1, <1>2, <1>3, <1>4

\* The shutdown waits for the starts.
LEMMA BeginDrainKeeps == ASSUME JailSessionsInv, BeginDrain PROVE JailSessionsInv'
<1> USE DEF JailSessionsInv, JailSessionsTypeOK, BeginDrain, IsRunning, Starting, Running, Ending,
            jailVars, groupVars, tableVars, recordVars, nodeVars, jailHistory
<1>1. JailSessionsTypeOK' /\ recovery' \in Recoveries /\ (jid <= lastJid)'
  BY JailAssumption DEF Recoveries
<1>2. PlacesFitMode'
  BY DEF PlacesFitMode, Remembers, NoRecovery
<1>3. RecoveryFits'
  BY DEF Recoveries, NoRecovery, Remembers, PlacesFitMode, RecoveryFits,
         SessionFits, RecordFits, CommandFits, NamedFits, ProcessesFit, Alive
<1>4. ASSUME NEW o \in JSession PROVE SessionFits(o)'
  BY DEF PlacesFitMode, Remembers, RecoveryFits,
         SessionFits, RecordFits, CommandFits, NamedFits, ProcessesFit, WatchFits, Alive
<1> QED
  BY <1>1, <1>2, <1>3, <1>4

\* The node goes at any point: what lives is named by its record or in a window.
LEMMA NodeGoesKeeps == ASSUME JailSessionsInv, NodeGoes PROVE JailSessionsInv'
<1> USE DEF JailSessionsInv, JailSessionsTypeOK, NodeGoes, At, Starting, Running, Ending,
            jailVars, groupVars, tableVars, recordVars, nodeVars, jailHistory
<1>1. JailSessionsTypeOK' /\ recovery' \in Recoveries /\ (jid <= lastJid)'
  BY JailAssumption DEF Recoveries, NoRecovery
<1>2. PlacesFitMode'
  BY DEF PlacesFitMode, Remembers, NoRecovery
<1>3. RecoveryFits'
  BY DEF Recoveries, NoRecovery, Remembers, PlacesFitMode, RecoveryFits,
         SessionFits, RecordFits, CommandFits, NamedFits, ProcessesFit, Alive
<1>4. ASSUME NEW o \in JSession PROVE SessionFits(o)'
  BY DEF PlacesFitMode, Remembers, RecoveryFits,
         SessionFits, RecordFits, CommandFits, NamedFits, ProcessesFit, WatchFits, Alive
<1> QED
  BY <1>1, <1>2, <1>3, <1>4

\* The next start of the node.
LEMMA BootKeeps == ASSUME JailSessionsInv, Boot PROVE JailSessionsInv'
<1> USE DEF JailSessionsInv, JailSessionsTypeOK, Boot, Starting, Running, Ending,
            jailVars, groupVars, tableVars, recordVars, nodeVars, jailHistory
<1>1. JailSessionsTypeOK' /\ recovery' \in Recoveries /\ (jid <= lastJid)'
  BY JailAssumption DEF Recoveries
<1>2. PlacesFitMode'
  BY DEF PlacesFitMode, Remembers, NoRecovery
<1>3. RecoveryFits'
  BY DEF Recoveries, NoRecovery, Remembers, PlacesFitMode, RecoveryFits,
         SessionFits, RecordFits, CommandFits, NamedFits, ProcessesFit, Alive
<1>4. ASSUME NEW o \in JSession PROVE SessionFits(o)'
  BY DEF PlacesFitMode, Remembers, RecoveryFits,
         SessionFits, RecordFits, CommandFits, NamedFits, ProcessesFit, WatchFits, Alive
<1> QED
  BY <1>1, <1>2, <1>3, <1>4

\* TerminateRecordedProcess.
LEMMA RecoverTerminateKeeps ==
    ASSUME JailSessionsInv, NEW s \in JSession, RecoverTerminate(s) PROVE JailSessionsInv'
<1> USE DEF JailSessionsInv, JailSessionsTypeOK, RecoverTerminate, Refuse, GroupDies, Starting, Running,
            Ending,
            jailVars, groupVars, tableVars, recordVars, nodeVars, jailHistory
<1>1. JailSessionsTypeOK' /\ recovery' \in Recoveries /\ (jid <= lastJid)'
  BY JailAssumption DEF Recoveries, NoRecovery
<1>2. PlacesFitMode'
  BY DEF PlacesFitMode, Remembers, NoRecovery
<1>3. RecoveryFits'
  BY DEF Recoveries, NoRecovery, Remembers, PlacesFitMode, RecoveryFits,
         SessionFits, RecordFits, CommandFits, NamedFits, ProcessesFit, Alive
<1>4. ASSUME NEW o \in JSession PROVE SessionFits(o)'
  BY DEF PlacesFitMode, Remembers, RecoveryFits,
         SessionFits, RecordFits, CommandFits, NamedFits, ProcessesFit, WatchFits, Alive
<1> QED
  BY <1>1, <1>2, <1>3, <1>4

\* recoverBastilleRecord: a command that it does not find in the jail is not in any.
LEMMA RecoverInJailKeeps ==
    ASSUME JailSessionsInv, NEW s \in JSession, RecoverInJail(s) PROVE JailSessionsInv'
<1> USE DEF JailSessionsInv, JailSessionsTypeOK, RecoverInJail, GroupDies, Starting, Running, Ending,
            jailVars, groupVars, tableVars, recordVars, nodeVars, jailHistory
<1>0. recovery' \in Recoveries /\ recovery'.at = s /\ recovery'.phase \in {"clear", "watch"}
      /\ (recovery'.phase = "watch" => recovery'.seen = named[s])
      /\ (recovery'.phase = "clear" /\ s \in watched => jid # named[s])
  <2>1. CASE jid # named[s]
    BY <2>1 DEF Recoveries
  <2>2. CASE jid = named[s]
    <3>1. PICK p \in {"clear", "watch"} : p = IF s \in watched THEN "watch" ELSE "clear"
      OBVIOUS
    <3>2. recovery' = [recovery EXCEPT !.phase = p, !.seen = jid]
      BY <2>2, <3>1
    <3>3. p = "clear" => s \notin watched
      BY <3>1
    <3> QED
      BY <2>2, <3>2, <3>3 DEF Recoveries
  <2> QED
    BY <2>1, <2>2
<1>1. JailSessionsTypeOK' /\ recovery' \in Recoveries /\ (jid <= lastJid)'
  BY <1>0, JailAssumption DEF Recoveries
<1>2. PlacesFitMode'
  BY <1>0 DEF PlacesFitMode, Remembers, NoRecovery
<1>3. RecoveryFits'
  BY <1>0 DEF NoRecovery, Remembers, PlacesFitMode, RecoveryFits,
         SessionFits, RecordFits, CommandFits, NamedFits, ProcessesFit, Alive
<1>4. ASSUME NEW o \in JSession PROVE SessionFits(o)'
  BY DEF PlacesFitMode, Remembers, RecoveryFits,
         SessionFits, RecordFits, CommandFits, NamedFits, ProcessesFit, WatchFits, Alive
<1> QED
  BY <1>1, <1>2, <1>3, <1>4

\* Recovery stops the jail of a watched session, or refuses the start.
LEMMA RecoverWatchedKeeps ==
    ASSUME JailSessionsInv, NEW s \in JSession, RecoverWatched(s) PROVE JailSessionsInv'
<1> USE DEF JailSessionsInv, JailSessionsTypeOK, RecoverWatched, JailStops, Fails, Refuse, Starting,
            Running, Ending,
            jailVars, groupVars, tableVars, recordVars, nodeVars, jailHistory
<1>1. JailSessionsTypeOK' /\ recovery' \in Recoveries /\ (jid <= lastJid)'
  BY JailAssumption DEF Recoveries, NoRecovery
<1>2. PlacesFitMode'
  BY DEF PlacesFitMode, Remembers, NoRecovery
<1>3. RecoveryFits'
  BY DEF Recoveries, NoRecovery, Remembers, PlacesFitMode, RecoveryFits,
         SessionFits, RecordFits, CommandFits, NamedFits, ProcessesFit, Alive
<1>4. ASSUME NEW o \in JSession PROVE SessionFits(o)'
  BY DEF PlacesFitMode, Remembers, RecoveryFits,
         SessionFits, RecordFits, CommandFits, NamedFits, ProcessesFit, WatchFits, Alive
<1> QED
  BY <1>1, <1>2, <1>3, <1>4

\* The record is removed when the session is dead and its jail stopped.
LEMMA ClearRecordKeeps == ASSUME JailSessionsInv, NEW s \in JSession, ClearRecord(s) PROVE JailSessionsInv'
<1> USE DEF JailSessionsInv, JailSessionsTypeOK, ClearRecord, Starting, Running, Ending,
            jailVars, groupVars, tableVars, recordVars, nodeVars, jailHistory
<1>1. JailSessionsTypeOK' /\ recovery' \in Recoveries /\ (jid <= lastJid)'
  BY JailAssumption DEF Recoveries, NoRecovery
<1>2. PlacesFitMode'
  BY DEF PlacesFitMode, Remembers, NoRecovery
<1>3. RecoveryFits'
  BY DEF Recoveries, NoRecovery, Remembers, PlacesFitMode, RecoveryFits,
         SessionFits, RecordFits, CommandFits, NamedFits, ProcessesFit, Alive
<1>4. ASSUME NEW o \in JSession PROVE SessionFits(o)'
  BY DEF PlacesFitMode, Remembers, RecoveryFits,
         SessionFits, RecordFits, CommandFits, NamedFits, ProcessesFit, WatchFits, Alive
<1> QED
  BY <1>1, <1>2, <1>3, <1>4

\* The node serves when no record is left.
LEMMA ServeKeeps == ASSUME JailSessionsInv, Serve PROVE JailSessionsInv'
<1> USE DEF JailSessionsInv, JailSessionsTypeOK, Serve, Starting, Running, Ending,
            jailVars, groupVars, tableVars, recordVars, nodeVars, jailHistory
<1>1. JailSessionsTypeOK' /\ recovery' \in Recoveries /\ (jid <= lastJid)'
  BY JailAssumption DEF Recoveries, NoRecovery
<1>2. PlacesFitMode'
  BY DEF PlacesFitMode, Remembers, NoRecovery
<1>3. RecoveryFits'
  BY DEF Recoveries, NoRecovery, Remembers, PlacesFitMode, RecoveryFits,
         SessionFits, RecordFits, CommandFits, NamedFits, ProcessesFit, Alive
<1>4. ASSUME NEW o \in JSession PROVE SessionFits(o)'
  BY DEF PlacesFitMode, Remembers, RecoveryFits,
         SessionFits, RecordFits, CommandFits, NamedFits, ProcessesFit, WatchFits, Alive
<1> QED
  BY <1>1, <1>2, <1>3, <1>4

\* The configuration the node starts with for the first time.
LEMMA JailSessionsBegin == JailSessionsInit => JailSessionsInv
BY JailAssumption
   DEF JailSessionsInit, JailSessionsInv, JailSessionsTypeOK, Recoveries, NoRecovery, PlacesFitMode,
       Remembers,
       RecoveryFits, SessionFits, RecordFits, CommandFits, NamedFits, ProcessesFit, WatchFits, Alive,
       Starting, Running, Ending

\* Every step of the sessions, of recovery and of the jail.
LEMMA JailSessionsStay == JailSessionsInv /\ [JailSessionsNext]_jailSessionVars => JailSessionsInv'
<1> SUFFICES ASSUME JailSessionsInv, [JailSessionsNext]_jailSessionVars PROVE JailSessionsInv'
  OBVIOUS
<1>1. CASE UNCHANGED jailSessionVars
  BY <1>1 DEF jailSessionVars, jailVars, groupVars, tableVars, recordVars, nodeVars, jailHistory,
              JailSessionsInv, JailSessionsTypeOK, Recoveries, PlacesFitMode, Remembers, RecoveryFits,
              SessionFits, RecordFits, CommandFits, NamedFits, ProcessesFit, WatchFits, Alive
<1>2. CASE StartJail \/ StopJail \/ BeginDrain \/ Boot \/ Serve
  BY <1>2, StartJailKeeps, StopJailKeeps, BeginDrainKeeps, BootKeeps, ServeKeeps
<1>3. CASE EndDrain \/ Crash
  BY <1>3, NodeGoesKeeps DEF EndDrain, Crash
<1>4. ASSUME NEW s \in JSession, NEW watch \in BOOLEAN, ReadJid(s, watch) PROVE JailSessionsInv'
  BY <1>4, ReadJidKeeps
<1>5. ASSUME NEW s \in JSession,
             CommandExits(s) \/ CliExits(s) \/ CountSessions(s) \/ StartCli(s) \/ EnterJail(s)
               \/ WriteRecord(s) \/ KillUnrecorded(s) \/ RegisterSession(s)
      PROVE  JailSessionsInv'
  BY <1>5, CommandExitsKeeps, CliExitsKeeps, CountSessionsKeeps, StartCliKeeps, EnterJailKeeps,
     WriteRecordKeeps, KillUnrecordedKeeps, RegisterSessionKeeps
<1>6. ASSUME NEW s \in JSession,
             ReapCli(s) \/ KillGroup(s) \/ MarkEnded(s) \/ StopWatchedJail(s) \/ ForgetSession(s)
               \/ KillSession(s) \/ DeleteSession(s)
      PROVE  JailSessionsInv'
  BY <1>6, ReapCliKeeps, KillGroupKeeps, MarkEndedKeeps, StopWatchedJailKeeps, ForgetSessionKeeps,
     KillSessionKeeps, DeleteSessionKeeps
<1>7. ASSUME NEW s \in JSession,
             RecoverTerminate(s) \/ RecoverInJail(s) \/ RecoverWatched(s) \/ ClearRecord(s)
      PROVE  JailSessionsInv'
  BY <1>7, RecoverTerminateKeeps, RecoverInJailKeeps, RecoverWatchedKeeps, ClearRecordKeeps
<1> QED
  BY <1>1, <1>2, <1>3, <1>4, <1>5, <1>6, <1>7 DEF JailSessionsNext

\* What the invariant says of the sessions: none is a stray, what has ended is dead, the
\* jail of a watched session stops, and recovery keeps to its jail.
LEMMA JailSessionsInvHolds == JailSessionsInv => JailSessionsTypeOK /\ JailSessionsHold
<1> SUFFICES ASSUME JailSessionsInv PROVE JailSessionsTypeOK /\ JailSessionsHold
  OBVIOUS
<1> USE DEF JailSessionsInv, JailSessionsTypeOK, SessionFits, Starting, Running, Ending
<1>1. NoStrays
  BY DEF NoStrays, RecordFits, ProcessesFit, Remembers
<1>2. EndedIsDead
  BY DEF EndedIsDead, IsRunning, PlacesFitMode, ProcessesFit
<1>3. WatchedJailStops
  BY DEF WatchedJailStops, WatchFits, RecordFits
<1>4. RecoveryKeepsToItsJail
  BY DEF RecoveryKeepsToItsJail, RecoveryFits
<1> QED
  BY <1>1, <1>2, <1>3, <1>4 DEF JailSessionsHold

----------------------------------------------------------------------------
(* The configuration of a jail.                                            *)

\* The requests that work on a file.
WorkOn(file) == {q \in ConfigRequest : creq[q].pc # "idle" /\ file \in FilesOf(creq[q].op)}

\* What the operations are about, and where they can be.
RequestFits(q) ==
    creq[q].pc # "idle" =>
        /\ creq[q].op \in {"mount", "unmount", "create"} => \E e \in Entries : creq[q].of = {e}
        /\ creq[q].op \in {"forward", "unforward"} => creq[q].of \subseteq Rule \ Foreign
        /\ creq[q].op \in {"set", "unset"} => creq[q].of \subseteq Setting
        /\ creq[q].pc = "replay" => creq[q].op = "unforward"

\* What a request has read is of its file.
HeldFits(q) ==
    creq[q].pc # "idle" =>
        /\ creq[q].op \in {"mount", "unmount"} => creq[q].held \subseteq Entries
        /\ creq[q].op \in {"forward", "unforward"} => creq[q].held \subseteq Rule
        /\ creq[q].op \in {"create", "set", "unset"} => creq[q].held \subseteq Setting

\* Two requests work on the same file only if the file is in the window.
AloneAtFile ==
    \A file \in {"fstab", "rules", "conf"} \ clashed :
        \A q, o \in WorkOn(file) : q = o

\* A jail that is not there has no configuration, and none was promised.
NothingWithoutJail ==
    ~present => fstab = {} /\ rules = {} /\ conf = {} /\ wanted = NoneWanted

\* fstab while the request works on it alone: what it has added or not yet taken out
\* is all there is besides the promises.
FstabFits(q) ==
    LET of == creq[q].of
        pc == creq[q].pc
        line == AtPoint(About(q)[1])
    IN  CASE creq[q].op = "mount" /\ pc = "write" ->
               fstab = wanted.fstab /\ creq[q].held = fstab /\ of \cap fstab = {}
          [] creq[q].op = "mount" /\ pc \in {"mkdir", "undo"} ->
               fstab = wanted.fstab \cup of /\ of \cap wanted.fstab = {}
          [] creq[q].op = "mount" /\ pc = "clear" ->
               fstab = wanted.fstab \cup of /\ creq[q].held = wanted.fstab
          [] creq[q].op = "unmount" ->
               /\ wanted.fstab = fstab \ line
               /\ pc = "clear" => creq[q].held = wanted.fstab
               /\ pc = "unset" => fstab = wanted.fstab
          [] OTHER -> fstab = wanted.fstab

\* The rules while the request works on them alone: what the listing has read is
\* promised as well as what is there.
RulesFit(q) ==
    creq[q].op = "unforward" =>
        /\ wanted.rules \cap creq[q].of = {}
        /\ creq[q].pc = "clear" => wanted.rules \subseteq creq[q].held

\* What is written back of jail.conf holds what was promised.
ConfFits(q) ==
    creq[q].op \in {"create", "unset"} =>
        /\ creq[q].op = "unset" => wanted.conf \cap creq[q].of = {}
        /\ creq[q].pc = "write" => wanted.conf \subseteq creq[q].held

FstabInv ==
    "fstab" \notin clashed \cup torn =>
        /\ \A q \in WorkOn("fstab") : FstabFits(q)
        /\ WorkOn("fstab") = {} => fstab = wanted.fstab
RulesInv ==
    "rules" \notin clashed \cup torn =>
        /\ \A q \in WorkOn("rules") : RulesFit(q)
        /\ \A r \in wanted.rules \ rules :
               \E q \in WorkOn("rules") : creq[q].pc = "replay" /\ r \in creq[q].held
ConfInv ==
    "conf" \notin clashed \cup torn =>
        /\ \A q \in WorkOn("conf") : ConfFits(q)
        /\ wanted.conf \subseteq conf

ConfigInv ==
    /\ ConfigTypeOK /\ wanted.rules \cap Foreign = {}
    /\ \A q \in ConfigRequest : RequestFits(q) /\ HeldFits(q)
    /\ AloneAtFile /\ NothingWithoutJail
    /\ FstabInv /\ RulesInv /\ ConfInv

\* Where a request is and what it holds.
ConfigPlaces ==
    {"idle", "begun", "mkdir", "mount", "rmdir", "undo", "read", "write", "clear", "replay", "unset"}
Requests ==
    [pc : ConfigPlaces, op : Op, of : SUBSET Subject, held : SUBSET Subject, failed : BOOLEAN]

\* A step leaves the windows open.
KeepsWindows ==
    clashed' = clashed /\ torn \subseteq torn' /\ torn' \subseteq {"fstab", "rules", "conf"}

\* A step of a request goes on with what it is about or answers it, and leaves the other
\* requests alone.
ConfigSteps(q) ==
    /\ creq[q].pc # "idle"
    /\ creq' \in [ConfigRequest -> Requests] /\ KeepsWindows
    /\ \A o \in ConfigRequest \ {q} : creq'[o] = creq[o]
    /\ creq'[q].pc # "idle" => creq'[q].op = creq[q].op /\ creq'[q].of = creq[q].of

\* A request goes on.
LEMMA NextSteps ==
    ASSUME creq \in [ConfigRequest -> Requests], NEW q \in ConfigRequest, creq[q].pc # "idle",
           KeepsWindows,
           NEW pc \in ConfigPlaces, Next_(q, pc)
    PROVE  /\ ConfigSteps(q) /\ creq'[q].pc = pc /\ creq'[q].op = creq[q].op /\ creq'[q].of = creq[q].of
           /\ creq'[q].held = creq[q].held
BY DEF Next_, ConfigSteps, Requests

\* A request goes on with what it has read of a file.
LEMMA HoldingSteps ==
    ASSUME creq \in [ConfigRequest -> Requests], NEW q \in ConfigRequest, creq[q].pc # "idle",
           KeepsWindows,
           NEW pc \in ConfigPlaces, NEW held \in SUBSET Subject, Holding(q, pc, held)
    PROVE  /\ ConfigSteps(q) /\ creq'[q].pc = pc /\ creq'[q].op = creq[q].op /\ creq'[q].of = creq[q].of
           /\ creq'[q].held = held
<1>1. PICK r \in Requests : r = [creq[q] EXCEPT !.pc = pc, !.held = held]
  BY DEF Requests
<1>2. r.pc = pc /\ r.op = creq[q].op /\ r.of = creq[q].of /\ r.held = held
  BY <1>1 DEF Requests
<1>3. creq' = [creq EXCEPT ![q] = r]
  BY <1>1 DEF Holding
<1> QED
  BY <1>2, <1>3 DEF ConfigSteps

\* A request is answered.
LEMMA AnswersSteps ==
    ASSUME creq \in [ConfigRequest -> Requests], NEW q \in ConfigRequest, creq[q].pc # "idle",
           KeepsWindows,
           Answers(q)
    PROVE  ConfigSteps(q) /\ creq'[q].pc = "idle"
BY DEF Answers, ConfigSteps, Requests, Nothing, ConfigPlaces, Op

\* A step keeps what is said of the requests.
LEMMA StepFits ==
    ASSUME ConfigInv, NEW q \in ConfigRequest, ConfigSteps(q),
           creq'[q].pc = "replay" => creq[q].op = "unforward",
           creq'[q].pc # "idle" => HeldFits(q)'
    PROVE  /\ \A o \in ConfigRequest : RequestFits(o)' /\ HeldFits(o)'
           /\ \A file \in {"fstab", "rules", "conf"} : WorkOn(file)' \subseteq WorkOn(file)
           /\ AloneAtFile'
<1>1. ASSUME NEW o \in ConfigRequest PROVE RequestFits(o)' /\ HeldFits(o)'
  BY DEF ConfigInv, RequestFits, HeldFits, ConfigSteps
<1>2. ASSUME NEW file \in {"fstab", "rules", "conf"} PROVE WorkOn(file)' \subseteq WorkOn(file)
  <2>1. ASSUME NEW o \in WorkOn(file)' PROVE o \in WorkOn(file)
    <3>1. o \in ConfigRequest /\ creq'[o].pc # "idle" /\ file \in FilesOf(creq'[o].op)
      BY DEF WorkOn
    <3>2. creq[o].pc # "idle" /\ creq[o].op = creq'[o].op
      BY <3>1 DEF ConfigSteps
    <3> QED
      BY <3>1, <3>2 DEF WorkOn
  <2> QED
    BY <2>1
<1>3. AloneAtFile'
  BY <1>2 DEF ConfigInv, AloneAtFile, ConfigSteps, KeepsWindows
<1> QED
  BY <1>1, <1>2, <1>3

\* fstab, when a request of it steps: what holds of the request is enough.
LEMMA FstabStep ==
    ASSUME ConfigInv, NEW q \in ConfigRequest, ConfigSteps(q),
           WorkOn("fstab")' \subseteq WorkOn("fstab"),
           q \notin WorkOn("fstab") => fstab' = fstab /\ wanted'.fstab = wanted.fstab,
           q \in WorkOn("fstab") /\ FstabFits(q) =>
               \/ "fstab" \in torn'
               \/ IF creq'[q].pc = "idle" THEN fstab' = wanted'.fstab ELSE FstabFits(q)'
    PROVE  FstabInv'
<1> SUFFICES ASSUME "fstab" \notin clashed \cup torn, "fstab" \notin torn'
             PROVE  /\ \A o \in WorkOn("fstab")' : FstabFits(o)'
                    /\ WorkOn("fstab")' = {} => fstab' = wanted'.fstab
  BY DEF FstabInv, ConfigSteps, KeepsWindows
<1>1. CASE q \notin WorkOn("fstab")
  <2>1. ASSUME NEW o \in WorkOn("fstab")' PROVE FstabFits(o)'
    <3>1. o \in WorkOn("fstab") /\ o # q /\ o \in ConfigRequest
      BY <1>1 DEF WorkOn
    <3>2. FstabFits(o)
      BY <3>1 DEF ConfigInv, FstabInv
    <3>3. creq'[o] = creq[o]
      BY <3>1 DEF ConfigSteps
    <3>4. About(o)' = About(o)
      BY <3>3 DEF About
    <3> QED
      BY <1>1, <3>2, <3>3, <3>4 DEF FstabFits
  <2>2. ASSUME WorkOn("fstab")' = {} PROVE WorkOn("fstab") = {}
    <3>1. ASSUME NEW o \in WorkOn("fstab") PROVE o \in WorkOn("fstab")'
      <4>1. o # q /\ o \in ConfigRequest
        BY <1>1 DEF WorkOn
      <4>2. creq'[o] = creq[o]
        BY <4>1 DEF ConfigSteps
      <4> QED
        BY <4>2 DEF WorkOn
    <3> QED
      BY <3>1, <2>2
  <2> QED
    BY <1>1, <2>1, <2>2 DEF ConfigInv, FstabInv
<1>2. CASE q \in WorkOn("fstab")
  <2>1. WorkOn("fstab")' \subseteq {q} /\ FstabFits(q)
    BY <1>2 DEF ConfigInv, AloneAtFile, FstabInv
  <2>2. q \in WorkOn("fstab")' <=> creq'[q].pc # "idle"
    BY <1>2 DEF WorkOn, ConfigSteps
  <2> QED
    BY <1>2, <2>1, <2>2
<1> QED
  BY <1>1, <1>2

\* The entry that a request of fstab is about.
LEMMA AboutIs ==
    ASSUME NEW q \in ConfigRequest, RequestFits(q), creq[q].pc # "idle",
           creq[q].op \in {"mount", "unmount", "create"}
    PROVE  About(q) \in Entries /\ creq[q].of = {About(q)} /\ About(q)[1] \in Point
BY DEF RequestFits, About, Entries

\* What the answers have promised.
Promises == [fstab : SUBSET Entries, rules : SUBSET Rule, conf : SUBSET Setting]

\* An answer that promises lines of fstab, or takes a promise of them back ...
LEMMA FstabPromise ==
    ASSUME wanted \in Promises, NEW what \in SUBSET Entries, Promise("fstab", what)
    PROVE  /\ wanted' \in Promises
           /\ wanted'.fstab = what /\ wanted'.rules = wanted.rules /\ wanted'.conf = wanted.conf
BY DEF Promises, Promise

\* ... rules of the jail ...
LEMMA RulesPromise ==
    ASSUME wanted \in Promises, NEW what \in SUBSET Rule, Promise("rules", what)
    PROVE  /\ wanted' \in Promises
           /\ wanted'.rules = what /\ wanted'.fstab = wanted.fstab /\ wanted'.conf = wanted.conf
BY DEF Promises, Promise

\* ... settings of jail.conf.
LEMMA ConfPromise ==
    ASSUME wanted \in Promises, NEW what \in SUBSET Setting, Promise("conf", what)
    PROVE  /\ wanted' \in Promises
           /\ wanted'.conf = what /\ wanted'.fstab = wanted.fstab /\ wanted'.rules = wanted.rules
BY DEF Promises, Promise

\* A jail without configuration was promised none.
LEMMA NothingPromised == NoneWanted \in Promises
BY DEF Promises, NoneWanted

\* The rules, when a request of them steps.
LEMMA RulesStep ==
    ASSUME ConfigInv, NEW q \in ConfigRequest, ConfigSteps(q),
           WorkOn("rules")' \subseteq WorkOn("rules"),
           q \notin WorkOn("rules") => rules' = rules /\ wanted'.rules = wanted.rules,
           q \in WorkOn("rules") /\ RulesFit(q)
             /\ (\A r \in wanted.rules \ rules : creq[q].pc = "replay" /\ r \in creq[q].held) =>
               \/ "rules" \in torn'
               \/ /\ creq'[q].pc # "idle" => RulesFit(q)'
                  /\ \A r \in wanted'.rules \ rules' : creq'[q].pc = "replay" /\ r \in creq'[q].held
    PROVE  RulesInv'
<1> SUFFICES ASSUME "rules" \notin clashed \cup torn, "rules" \notin torn'
             PROVE  /\ \A o \in WorkOn("rules")' : RulesFit(o)'
                    /\ \A r \in wanted'.rules \ rules' :
                           \E o \in WorkOn("rules")' : creq'[o].pc = "replay" /\ r \in creq'[o].held
  BY DEF RulesInv, ConfigSteps, KeepsWindows
<1>0. WorkOn("rules") \subseteq ConfigRequest
  BY DEF WorkOn
<1>1. CASE q \notin WorkOn("rules")
  <2>1. ASSUME NEW o \in WorkOn("rules") PROVE creq'[o] = creq[o] /\ o \in WorkOn("rules")'
    <3>1. o # q /\ o \in ConfigRequest
      BY <1>0, <1>1
    <3>2. creq'[o] = creq[o]
      BY <3>1 DEF ConfigSteps
    <3> QED
      BY <3>2 DEF WorkOn
  <2> QED
    BY <1>1, <2>1 DEF ConfigInv, RulesInv, RulesFit
<1>2. CASE q \in WorkOn("rules")
  <2>1. WorkOn("rules") = {q} /\ RulesFit(q)
    BY <1>2 DEF ConfigInv, AloneAtFile, RulesInv
  <2>2. \A r \in wanted.rules \ rules : creq[q].pc = "replay" /\ r \in creq[q].held
    BY <2>1 DEF ConfigInv, RulesInv
  <2>3. q \in WorkOn("rules")' <=> creq'[q].pc # "idle"
    BY <1>2 DEF WorkOn, ConfigSteps
  <2> QED
    BY <1>2, <2>1, <2>2, <2>3
<1> QED
  BY <1>1, <1>2

\* jail.conf, when a request of it steps.
LEMMA ConfStep ==
    ASSUME ConfigInv, NEW q \in ConfigRequest, ConfigSteps(q),
           WorkOn("conf")' \subseteq WorkOn("conf"),
           q \notin WorkOn("conf") => conf' = conf /\ wanted'.conf = wanted.conf,
           q \in WorkOn("conf") /\ ConfFits(q) /\ wanted.conf \subseteq conf =>
               \/ "conf" \in torn'
               \/ wanted'.conf \subseteq conf' /\ (creq'[q].pc # "idle" => ConfFits(q)')
    PROVE  ConfInv'
<1> SUFFICES ASSUME "conf" \notin clashed \cup torn, "conf" \notin torn'
             PROVE  (\A o \in WorkOn("conf")' : ConfFits(o)') /\ wanted'.conf \subseteq conf'
  BY DEF ConfInv, ConfigSteps, KeepsWindows
<1>1. CASE q \notin WorkOn("conf")
  <2>1. ASSUME NEW o \in WorkOn("conf")' PROVE o \in WorkOn("conf") /\ creq'[o] = creq[o]
    <3>1. o # q /\ o \in ConfigRequest
      BY <1>1 DEF WorkOn
    <3> QED
      BY <3>1 DEF ConfigSteps
  <2> QED
    BY <1>1, <2>1 DEF ConfigInv, ConfInv, ConfFits
<1>2. CASE q \in WorkOn("conf")
  <2>1. WorkOn("conf")' \subseteq {q} /\ ConfFits(q) /\ wanted.conf \subseteq conf
    BY <1>2 DEF ConfigInv, AloneAtFile, ConfInv
  <2>2. q \in WorkOn("conf")' => creq'[q].pc # "idle"
    BY DEF WorkOn
  <2> QED
    BY <1>2, <2>1, <2>2
<1> QED
  BY <1>1, <1>2

\* What a step of one request has to show of each file: either that the request has nothing to
\* do with it, or what it does when it is alone there.
FstabStepFits(q) ==
    IF "fstab" \in FilesOf(creq[q].op)
    THEN FstabFits(q) =>
           \/ "fstab" \in torn'
           \/ IF creq'[q].pc = "idle" THEN fstab' = wanted'.fstab ELSE FstabFits(q)'
    ELSE fstab' = fstab /\ wanted'.fstab = wanted.fstab
RulesStepFits(q) ==
    IF "rules" \in FilesOf(creq[q].op)
    THEN RulesFit(q) /\ (\A r \in wanted.rules \ rules : creq[q].pc = "replay" /\ r \in creq[q].held) =>
           \/ "rules" \in torn'
           \/ /\ creq'[q].pc # "idle" => RulesFit(q)'
              /\ \A r \in wanted'.rules \ rules' : creq'[q].pc = "replay" /\ r \in creq'[q].held
    ELSE rules' = rules /\ wanted'.rules = wanted.rules
ConfStepFits(q) ==
    IF "conf" \in FilesOf(creq[q].op)
    THEN ConfFits(q) /\ wanted.conf \subseteq conf =>
           \/ "conf" \in torn'
           \/ wanted'.conf \subseteq conf' /\ (creq'[q].pc # "idle" => ConfFits(q)')
    ELSE conf' = conf /\ wanted'.conf = wanted.conf

\* What a step of one request has to show.
StepIsFit(q) ==
    /\ ConfigTypeOK' /\ wanted'.rules \cap Foreign = {} /\ NothingWithoutJail'
    /\ ConfigSteps(q) /\ (creq'[q].pc = "replay" => creq[q].op = "unforward")
    /\ creq'[q].pc # "idle" => HeldFits(q)'
    /\ FstabStepFits(q) /\ RulesStepFits(q) /\ ConfStepFits(q)

\* A step that has shown it keeps the invariant.
LEMMA FitStepKeeps ==
    ASSUME ConfigInv, NEW q \in ConfigRequest, StepIsFit(q) PROVE ConfigInv'
<1> USE DEF StepIsFit, FstabStepFits, RulesStepFits, ConfStepFits
<1>1. ASSUME NEW file \in {"fstab", "rules", "conf"}
      PROVE  q \in WorkOn(file) <=> file \in FilesOf(creq[q].op)
  BY DEF WorkOn, ConfigSteps
<1>2. /\ \A o \in ConfigRequest : RequestFits(o)' /\ HeldFits(o)'
      /\ \A file \in {"fstab", "rules", "conf"} : WorkOn(file)' \subseteq WorkOn(file)
      /\ AloneAtFile'
  BY StepFits
<1>3. FstabInv'
  BY <1>1, <1>2, FstabStep
<1>4. RulesInv'
  BY <1>1, <1>2, RulesStep
<1>5. ConfInv'
  BY <1>1, <1>2, ConfStep
<1> QED
  BY <1>2, <1>3, <1>4, <1>5 DEF ConfigInv

\* What is known of a request that is under way.
KnownOf(q) ==
    /\ creq \in [ConfigRequest -> Requests] /\ creq[q].of \subseteq Subject /\ wanted \in Promises
    /\ fstab \subseteq Entries /\ rules \subseteq Rule /\ conf \subseteq Setting
    /\ torn \subseteq {"fstab", "rules", "conf"}
    /\ wanted.fstab \subseteq Entries /\ wanted.rules \subseteq Rule /\ wanted.conf \subseteq Setting
    /\ RequestFits(q) /\ HeldFits(q) /\ wanted.rules \cap Foreign = {} /\ NothingWithoutJail

\* The invariant says it of every request.
LEMMA RequestIsKnown == ASSUME ConfigInv, NEW q \in ConfigRequest PROVE KnownOf(q)
BY DEF KnownOf, ConfigInv, ConfigTypeOK, Requests, ConfigPlaces, Promises

\* Nothing was promised of a jail that is gone.
LEMMA JailIsGoneFits ==
    ASSUME ConfigInv, NEW q \in ConfigRequest, JailIsGone(q) PROVE StepIsFit(q)
<1> USE DEF KnownOf
<1>1. KnownOf(q) /\ creq[q].pc # "idle" /\ KeepsWindows /\ ~present
  BY RequestIsKnown DEF JailIsGone, Doing, KeepsWindows, configHistory
<1>2. /\ (creq'[q].of = creq[q].of => About(q)' = About(q))
      /\ creq[q].op \in {"forward", "unforward"} => creq[q].of \subseteq Rule
      /\ creq[q].op \in {"set", "unset"} => creq[q].of \subseteq Setting
  BY <1>1, AboutIs DEF About, RequestFits
<1>3. ConfigSteps(q)
  BY <1>1, <1>2, NextSteps, HoldingSteps, AnswersSteps DEF JailIsGone, ConfigPlaces, Subject, Requests
<1>4. /\ wanted' \in Promises
      /\ fstab' \subseteq Entries /\ rules' \subseteq Rule /\ conf' \subseteq Setting
      /\ mounted' \subseteq Entries /\ points' \subseteq Point
      /\ {present, jailUp}' \subseteq BOOLEAN /\ (configOps \in 0..MaxConfigOps)'
  BY <1>1, <1>2 DEF ConfigInv, ConfigTypeOK, Requests, HeldFits, configHistory, JailIsGone, Doing, configState
<1>5. /\ fstab' = fstab /\ rules' = rules /\ conf' = conf /\ wanted' = wanted /\ present' = present
      /\ creq'[q].pc = "idle"
  BY <1>1, <1>2, NextSteps, HoldingSteps, AnswersSteps
     DEF JailIsGone, Doing, ConfigPlaces, Subject, configState, configHistory
<1>6. ConfigTypeOK'
  BY <1>1, <1>3, <1>4 DEF ConfigInv, ConfigTypeOK, ConfigSteps, Requests, ConfigPlaces, Promises, JailIsGone, KeepsWindows, configHistory
<1>7. wanted'.rules \cap Foreign = {} /\ NothingWithoutJail'
  BY <1>1, <1>2, <1>5 DEF NothingWithoutJail, NoneWanted, RequestFits
<1>8. FstabStepFits(q)
  BY <1>1, <1>2, <1>3, <1>5 DEF FstabStepFits, FilesOf, FstabFits, NothingWithoutJail, NoneWanted
<1>9. RulesStepFits(q)
  BY <1>1, <1>2, <1>3, <1>5 DEF RulesStepFits, FilesOf, RulesFit, RequestFits, NothingWithoutJail, NoneWanted
<1>10. ConfStepFits(q)
  BY <1>1, <1>2, <1>3, <1>5 DEF ConfStepFits, FilesOf, ConfFits, RequestFits, NothingWithoutJail, NoneWanted
<1>11. creq'[q].pc # "idle" => HeldFits(q)'
  BY <1>1, <1>5 DEF HeldFits
<1> QED
  BY <1>1, <1>3, <1>5, <1>6, <1>7, <1>8, <1>9, <1>10, <1>11 DEF StepIsFit, RequestFits, ConfigSteps

\* A destroyed jail takes its configuration with it.
LEMMA DestroyJailFits ==
    ASSUME ConfigInv, NEW q \in ConfigRequest, DestroyJail(q) PROVE StepIsFit(q)
<1> USE DEF KnownOf
<1>1. KnownOf(q) /\ creq[q].pc # "idle" /\ KeepsWindows /\ creq[q].op = "destroy" /\ present
  BY RequestIsKnown DEF DestroyJail, Doing, KeepsWindows
<1>2. /\ (creq'[q].of = creq[q].of => About(q)' = About(q))
      /\ creq[q].op \in {"forward", "unforward"} => creq[q].of \subseteq Rule
      /\ creq[q].op \in {"set", "unset"} => creq[q].of \subseteq Setting
  BY <1>1, AboutIs DEF About, RequestFits
<1>3. ConfigSteps(q)
  BY <1>1, <1>2, NextSteps, HoldingSteps, AnswersSteps DEF DestroyJail, ConfigPlaces, Subject, Requests
<1>4. /\ wanted' \in Promises
      /\ fstab' \subseteq Entries /\ rules' \subseteq Rule /\ conf' \subseteq Setting
      /\ mounted' \subseteq Entries /\ points' \subseteq Point
      /\ {present, jailUp}' \subseteq BOOLEAN /\ (configOps \in 0..MaxConfigOps)'
  BY <1>1, <1>2, NothingPromised
     DEF ConfigInv, ConfigTypeOK, Requests, HeldFits, DestroyJail, Doing, configState
<1>5. \/ /\ creq'[q].pc = "idle"
         /\ ~present' /\ fstab' = {} /\ rules' = {} /\ conf' = {} /\ wanted' = NoneWanted
      \/ /\ creq'[q].pc = "idle"
         /\ present' /\ fstab' = fstab /\ rules' = rules /\ conf' = conf /\ wanted' = wanted
  BY <1>1, <1>2, NextSteps, HoldingSteps, AnswersSteps, NothingPromised
     DEF DestroyJail, Doing, ConfigPlaces, Subject, configState
<1>6. ConfigTypeOK'
  BY <1>1, <1>3, <1>4 DEF ConfigInv, ConfigTypeOK, ConfigSteps, Requests, ConfigPlaces, Promises, DestroyJail, KeepsWindows
<1>7. wanted'.rules \cap Foreign = {} /\ NothingWithoutJail'
  BY <1>1, <1>2, <1>5 DEF NothingWithoutJail, NoneWanted, RequestFits
<1>8. FstabStepFits(q)
  <2>1. FstabFits(q) => fstab = wanted.fstab
    BY <1>1 DEF FstabFits
  <2> QED
    BY <1>1, <1>5, <2>1 DEF FstabStepFits, FilesOf, NoneWanted
<1>9. RulesStepFits(q)
  BY <1>1, <1>2, <1>3, <1>5 DEF RulesStepFits, FilesOf, RulesFit, RequestFits, NothingWithoutJail, NoneWanted
<1>10. ConfStepFits(q)
  BY <1>1, <1>2, <1>3, <1>5 DEF ConfStepFits, FilesOf, ConfFits, RequestFits, NothingWithoutJail, NoneWanted
<1>11. creq'[q].pc # "idle" => HeldFits(q)'
  BY <1>1, <1>5 DEF HeldFits
<1> QED
  BY <1>1, <1>3, <1>5, <1>6, <1>7, <1>8, <1>9, <1>10, <1>11 DEF StepIsFit, RequestFits, ConfigSteps

\* The jail is created without a configuration.
LEMMA CreateJailFits ==
    ASSUME ConfigInv, NEW q \in ConfigRequest, CreateJail(q) PROVE StepIsFit(q)
<1> USE DEF KnownOf
<1>1. KnownOf(q) /\ creq[q].pc # "idle" /\ KeepsWindows /\ creq[q].op = "create" /\ ~present
  BY RequestIsKnown DEF CreateJail, Doing, KeepsWindows, configHistory
<1>2. /\ (creq'[q].of = creq[q].of => About(q)' = About(q))
      /\ About(q) \in Entries /\ creq[q].of = {About(q)} /\ About(q)[1] \in Point
  BY <1>1, AboutIs DEF About, RequestFits
<1>3. ConfigSteps(q)
  BY <1>1, <1>2, NextSteps, HoldingSteps, AnswersSteps DEF CreateJail, ConfigPlaces, Subject, Requests
<1>4. /\ wanted' \in Promises
      /\ fstab' \subseteq Entries /\ rules' \subseteq Rule /\ conf' \subseteq Setting
      /\ mounted' \subseteq Entries /\ points' \subseteq Point
      /\ {present, jailUp}' \subseteq BOOLEAN /\ (configOps \in 0..MaxConfigOps)'
  BY <1>1, <1>2 DEF ConfigInv, ConfigTypeOK, Requests, HeldFits, configHistory, CreateJail, Doing, configState
<1>5. /\ fstab' = fstab /\ rules' = rules /\ conf' = conf /\ wanted' = wanted /\ present'
      /\ creq'[q].pc = "mkdir" /\ creq'[q].op = creq[q].op /\ creq'[q].of = creq[q].of
      /\ creq'[q].held = creq[q].held
  BY <1>1, <1>2, NextSteps, HoldingSteps, AnswersSteps
     DEF CreateJail, Doing, ConfigPlaces, Subject, configState, configHistory
<1>6. ConfigTypeOK'
  BY <1>1, <1>3, <1>4 DEF ConfigInv, ConfigTypeOK, ConfigSteps, Requests, ConfigPlaces, Promises, CreateJail, KeepsWindows, configHistory
<1>7. wanted'.rules \cap Foreign = {} /\ NothingWithoutJail'
  BY <1>1, <1>2, <1>5 DEF NothingWithoutJail, NoneWanted, RequestFits
<1>8. FstabStepFits(q)
  BY <1>1, <1>2, <1>3, <1>5 DEF FstabStepFits, FilesOf, FstabFits
<1>9. RulesStepFits(q)
  BY <1>1, <1>2, <1>3, <1>5 DEF RulesStepFits, FilesOf, RulesFit, RequestFits
<1>10. ConfStepFits(q)
  BY <1>1, <1>2, <1>3, <1>5 DEF ConfStepFits, FilesOf, ConfFits, RequestFits
<1>11. creq'[q].pc # "idle" => HeldFits(q)'
  BY <1>1, <1>5 DEF HeldFits
<1> QED
  BY <1>1, <1>3, <1>5, <1>6, <1>7, <1>8, <1>9, <1>10, <1>11 DEF StepIsFit, RequestFits, ConfigSteps

\* The volume of a new jail is mounted and promised, or a warning is given.
LEMMA CreateMountsVolumeFits ==
    ASSUME ConfigInv, NEW q \in ConfigRequest, CreateMountsVolume(q) PROVE StepIsFit(q)
<1> USE DEF KnownOf
<1>1. KnownOf(q) /\ creq[q].pc # "idle" /\ KeepsWindows /\ creq[q].op = "create" /\ present
  BY RequestIsKnown DEF CreateMountsVolume, Doing, KeepsWindows
<1>2. /\ (creq'[q].of = creq[q].of => About(q)' = About(q))
      /\ About(q) \in Entries /\ creq[q].of = {About(q)} /\ About(q)[1] \in Point
  BY <1>1, AboutIs DEF About, RequestFits
<1>3. ConfigSteps(q)
  BY <1>1, <1>2, NextSteps, HoldingSteps, AnswersSteps DEF CreateMountsVolume, ConfigPlaces, Subject, Requests
<1>4. /\ wanted' \in Promises
      /\ fstab' \subseteq Entries /\ rules' \subseteq Rule /\ conf' \subseteq Setting
      /\ mounted' \subseteq Entries /\ points' \subseteq Point
      /\ {present, jailUp}' \subseteq BOOLEAN /\ (configOps \in 0..MaxConfigOps)'
  BY <1>1, <1>2, FstabPromise
     DEF ConfigInv, ConfigTypeOK, Requests, HeldFits, CreateMountsVolume, Doing, configState
<1>5. /\ rules' = rules /\ wanted'.rules = wanted.rules
      /\ conf' = conf /\ wanted'.conf = wanted.conf /\ present' = present
      /\ \/ /\ creq'[q].pc = "read" /\ creq'[q].op = creq[q].op
            /\ creq'[q].of = creq[q].of /\ creq'[q].held = creq[q].held
            /\ fstab' = fstab \cup creq[q].of
            /\ wanted'.fstab = wanted.fstab \cup creq[q].of
         \/ /\ creq'[q].pc = "read" /\ creq'[q].op = creq[q].op /\ creq'[q].of = creq[q].of
            /\ creq'[q].held = creq[q].held
            /\ fstab' = fstab
            /\ wanted'.fstab = wanted.fstab
  BY <1>1, <1>2, NextSteps, HoldingSteps, AnswersSteps, FstabPromise
     DEF CreateMountsVolume, Doing, ConfigPlaces, Subject, configState
<1>6. ConfigTypeOK'
  BY <1>1, <1>3, <1>4
     DEF ConfigInv, ConfigTypeOK, ConfigSteps, Requests, ConfigPlaces, Promises, CreateMountsVolume, KeepsWindows
<1>7. wanted'.rules \cap Foreign = {} /\ NothingWithoutJail'
  BY <1>1, <1>2, <1>5 DEF NothingWithoutJail, NoneWanted, RequestFits
<1>8. FstabStepFits(q)
  <2>1. FstabFits(q) <=> fstab = wanted.fstab
    BY <1>1 DEF FstabFits
  <2>2. FstabFits(q)' <=> fstab' = wanted'.fstab
    BY <1>1, <1>5 DEF FstabFits
  <2> QED
    BY <1>1, <1>5, <2>1, <2>2 DEF FstabStepFits, FilesOf
<1>9. RulesStepFits(q)
  BY <1>1, <1>2, <1>3, <1>5 DEF RulesStepFits, FilesOf, RulesFit, RequestFits
<1>10. ConfStepFits(q)
  BY <1>1, <1>2, <1>3, <1>5 DEF ConfStepFits, FilesOf, ConfFits, RequestFits
<1>11. creq'[q].pc # "idle" => HeldFits(q)'
  BY <1>1, <1>5 DEF HeldFits
<1> QED
  BY <1>1, <1>3, <1>5, <1>6, <1>7, <1>8, <1>9, <1>10, <1>11 DEF StepIsFit, RequestFits, ConfigSteps

\* bastilleSetWorkdir reads jail.conf ...
LEMMA CreateReadsConfFits ==
    ASSUME ConfigInv, NEW q \in ConfigRequest, CreateReadsConf(q) PROVE StepIsFit(q)
<1> USE DEF KnownOf
<1>1. KnownOf(q) /\ creq[q].pc # "idle" /\ KeepsWindows /\ creq[q].op = "create" /\ present
  BY RequestIsKnown DEF CreateReadsConf, Doing, KeepsWindows, configHistory
<1>2. /\ (creq'[q].of = creq[q].of => About(q)' = About(q))
      /\ About(q) \in Entries /\ creq[q].of = {About(q)} /\ About(q)[1] \in Point
  BY <1>1, AboutIs DEF About, RequestFits
<1>3. ConfigSteps(q)
  BY <1>1, <1>2, NextSteps, HoldingSteps, AnswersSteps DEF CreateReadsConf, ConfigPlaces, Subject, Requests
<1>4. /\ wanted' \in Promises
      /\ fstab' \subseteq Entries /\ rules' \subseteq Rule /\ conf' \subseteq Setting
      /\ mounted' \subseteq Entries /\ points' \subseteq Point
      /\ {present, jailUp}' \subseteq BOOLEAN /\ (configOps \in 0..MaxConfigOps)'
  BY <1>1, <1>2 DEF ConfigInv, ConfigTypeOK, Requests, HeldFits, configHistory, CreateReadsConf, Doing, configState
<1>5. /\ fstab' = fstab /\ rules' = rules /\ conf' = conf /\ wanted' = wanted /\ present' = present
      /\ creq'[q].pc = "write" /\ creq'[q].op = creq[q].op /\ creq'[q].of = creq[q].of /\ creq'[q].held = conf
  BY <1>1, <1>2, NextSteps, HoldingSteps, AnswersSteps
     DEF CreateReadsConf, Doing, ConfigPlaces, Subject, configState, configHistory
<1>6. ConfigTypeOK'
  BY <1>1, <1>3, <1>4
     DEF ConfigInv, ConfigTypeOK, ConfigSteps, Requests, ConfigPlaces, Promises, CreateReadsConf, KeepsWindows, configHistory
<1>7. wanted'.rules \cap Foreign = {} /\ NothingWithoutJail'
  BY <1>1, <1>2, <1>5 DEF NothingWithoutJail, NoneWanted, RequestFits
<1>8. FstabStepFits(q)
  BY <1>1, <1>2, <1>3, <1>5 DEF FstabStepFits, FilesOf, FstabFits
<1>9. RulesStepFits(q)
  BY <1>1, <1>2, <1>3, <1>5 DEF RulesStepFits, FilesOf, RulesFit, RequestFits
<1>10. ConfStepFits(q)
  BY <1>1, <1>2, <1>3, <1>5 DEF ConfStepFits, FilesOf, ConfFits, RequestFits
<1>11. creq'[q].pc # "idle" => HeldFits(q)'
  BY <1>1, <1>5 DEF HeldFits
<1> QED
  BY <1>1, <1>3, <1>5, <1>6, <1>7, <1>8, <1>9, <1>10, <1>11 DEF StepIsFit, RequestFits, ConfigSteps

\* ... and writes back what it has read.
LEMMA CreateWritesConfFits ==
    ASSUME ConfigInv, NEW q \in ConfigRequest, CreateWritesConf(q) PROVE StepIsFit(q)
<1> USE DEF KnownOf
<1>1. KnownOf(q) /\ creq[q].pc # "idle" /\ KeepsWindows /\ creq[q].op = "create" /\ present
  BY RequestIsKnown DEF CreateWritesConf, Doing, KeepsWindows, configHistory, Tears
<1>2. /\ (creq'[q].of = creq[q].of => About(q)' = About(q))
      /\ About(q) \in Entries /\ creq[q].of = {About(q)} /\ About(q)[1] \in Point
  BY <1>1, AboutIs DEF About, RequestFits
<1>3. ConfigSteps(q)
  BY <1>1, <1>2, NextSteps, HoldingSteps, AnswersSteps DEF CreateWritesConf, ConfigPlaces, Subject, Requests
<1>4. /\ wanted' \in Promises
      /\ fstab' \subseteq Entries /\ rules' \subseteq Rule /\ conf' \subseteq Setting
      /\ mounted' \subseteq Entries /\ points' \subseteq Point
      /\ {present, jailUp}' \subseteq BOOLEAN /\ (configOps \in 0..MaxConfigOps)'
  BY <1>1, <1>2 DEF ConfigInv, ConfigTypeOK, Requests, HeldFits, configHistory, HalfWritten, CreateWritesConf, Doing, configState
<1>5. /\ fstab' = fstab /\ rules' = rules /\ wanted' = wanted /\ present' = present
      /\ creq'[q].pc = "idle"
      /\ creq[q].pc = "write" /\ (conf' \in {creq[q].held, conf} \/ "conf" \in torn')
  BY <1>1, <1>2, NextSteps, HoldingSteps, AnswersSteps
     DEF CreateWritesConf, Doing, ConfigPlaces, Subject, configState, configHistory, HalfWritten, Tears
<1>6. ConfigTypeOK'
  BY <1>1, <1>3, <1>4
     DEF ConfigInv, ConfigTypeOK, ConfigSteps, Requests, ConfigPlaces, Promises, CreateWritesConf,
         KeepsWindows, configHistory
<1>7. wanted'.rules \cap Foreign = {} /\ NothingWithoutJail'
  BY <1>1, <1>2, <1>5 DEF NothingWithoutJail, NoneWanted, RequestFits
<1>8. FstabStepFits(q)
  BY <1>1, <1>2, <1>3, <1>5 DEF FstabStepFits, FilesOf, FstabFits
<1>9. RulesStepFits(q)
  BY <1>1, <1>2, <1>3, <1>5 DEF RulesStepFits, FilesOf, RulesFit, RequestFits
<1>10. ConfStepFits(q)
  BY <1>1, <1>2, <1>3, <1>5 DEF ConfStepFits, FilesOf, ConfFits, RequestFits
<1>11. creq'[q].pc # "idle" => HeldFits(q)'
  BY <1>1, <1>5 DEF HeldFits
<1> QED
  BY <1>1, <1>3, <1>5, <1>6, <1>7, <1>8, <1>9, <1>10, <1>11 DEF StepIsFit, RequestFits, ConfigSteps

\* The mount point of a nullfs mount is made.
LEMMA MakePointFits ==
    ASSUME ConfigInv, NEW q \in ConfigRequest, MakePoint(q) PROVE StepIsFit(q)
<1> USE DEF KnownOf
<1>1. KnownOf(q) /\ creq[q].pc # "idle" /\ KeepsWindows /\ creq[q].op = "mount" /\ present
  BY RequestIsKnown DEF MakePoint, Doing, KeepsWindows, configHistory
<1>2. /\ (creq'[q].of = creq[q].of => About(q)' = About(q))
      /\ About(q) \in Entries /\ creq[q].of = {About(q)} /\ About(q)[1] \in Point
  BY <1>1, AboutIs DEF About, RequestFits
<1>3. ConfigSteps(q)
  BY <1>1, <1>2, NextSteps, HoldingSteps, AnswersSteps DEF MakePoint, ConfigPlaces, Subject, Requests
<1>4. /\ wanted' \in Promises
      /\ fstab' \subseteq Entries /\ rules' \subseteq Rule /\ conf' \subseteq Setting
      /\ mounted' \subseteq Entries /\ points' \subseteq Point
      /\ {present, jailUp}' \subseteq BOOLEAN /\ (configOps \in 0..MaxConfigOps)'
  BY <1>1, <1>2 DEF ConfigInv, ConfigTypeOK, Requests, HeldFits, configHistory, MakePoint, Doing, configState
<1>5. /\ fstab' = fstab /\ rules' = rules /\ conf' = conf /\ wanted' = wanted /\ present' = present
      /\ creq[q].pc = "begun"
      /\ \/ creq'[q].pc = "idle"
         \/ /\ creq'[q].pc = "mount" /\ creq'[q].op = creq[q].op /\ creq'[q].of = creq[q].of
            /\ creq'[q].held = creq[q].held
  BY <1>1, <1>2, NextSteps, HoldingSteps, AnswersSteps
     DEF MakePoint, Doing, ConfigPlaces, Subject, configState, configHistory
<1>6. ConfigTypeOK'
  BY <1>1, <1>3, <1>4 DEF ConfigInv, ConfigTypeOK, ConfigSteps, Requests, ConfigPlaces, Promises, MakePoint, KeepsWindows, configHistory
<1>7. wanted'.rules \cap Foreign = {} /\ NothingWithoutJail'
  BY <1>1, <1>2, <1>5 DEF NothingWithoutJail, NoneWanted, RequestFits
<1>8. FstabStepFits(q)
  BY <1>1, <1>2, <1>3, <1>5 DEF FstabStepFits, FilesOf, FstabFits
<1>9. RulesStepFits(q)
  BY <1>1, <1>5 DEF RulesStepFits, FilesOf
<1>10. ConfStepFits(q)
  BY <1>1, <1>5 DEF ConfStepFits, FilesOf
<1>11. creq'[q].pc # "idle" => HeldFits(q)'
  BY <1>1, <1>5 DEF HeldFits
<1> QED
  BY <1>1, <1>3, <1>5, <1>6, <1>7, <1>8, <1>9, <1>10, <1>11 DEF StepIsFit, RequestFits, ConfigSteps

\* bastille mount adds the line or fails.
LEMMA MountNullFits ==
    ASSUME ConfigInv, NEW q \in ConfigRequest, MountNull(q) PROVE StepIsFit(q)
<1> USE DEF KnownOf
<1>1. KnownOf(q) /\ creq[q].pc # "idle" /\ KeepsWindows /\ creq[q].op = "mount" /\ present
  BY RequestIsKnown DEF MountNull, Doing, KeepsWindows
<1>2. /\ (creq'[q].of = creq[q].of => About(q)' = About(q))
      /\ About(q) \in Entries /\ creq[q].of = {About(q)} /\ About(q)[1] \in Point
  BY <1>1, AboutIs DEF About, RequestFits
<1>3. ConfigSteps(q)
  BY <1>1, <1>2, NextSteps, HoldingSteps, AnswersSteps DEF MountNull, ConfigPlaces, Subject, Requests
<1>4. /\ wanted' \in Promises
      /\ fstab' \subseteq Entries /\ rules' \subseteq Rule /\ conf' \subseteq Setting
      /\ mounted' \subseteq Entries /\ points' \subseteq Point
      /\ {present, jailUp}' \subseteq BOOLEAN /\ (configOps \in 0..MaxConfigOps)'
  BY <1>1, <1>2, FstabPromise DEF ConfigInv, ConfigTypeOK, Requests, HeldFits, MountNull, Doing, configState
<1>5. /\ rules' = rules /\ wanted'.rules = wanted.rules
      /\ conf' = conf /\ wanted'.conf = wanted.conf /\ present' = present
      /\ \/ /\ creq[q].pc = "mount"
            /\ creq'[q].pc = "idle"
            /\ fstab' = fstab \cup creq[q].of
            /\ wanted'.fstab = wanted.fstab \cup creq[q].of
         \/ /\ creq[q].pc = "mount"
            /\ creq'[q].pc = "rmdir" /\ creq'[q].op = creq[q].op /\ creq'[q].of = creq[q].of
            /\ creq'[q].held = creq[q].held
            /\ fstab' = fstab
            /\ wanted'.fstab = wanted.fstab
  BY <1>1, <1>2, NextSteps, HoldingSteps, AnswersSteps, FstabPromise
     DEF MountNull, Doing, ConfigPlaces, Subject, configState
<1>6. ConfigTypeOK'
  BY <1>1, <1>3, <1>4 DEF ConfigInv, ConfigTypeOK, ConfigSteps, Requests, ConfigPlaces, Promises, MountNull, KeepsWindows
<1>7. wanted'.rules \cap Foreign = {} /\ NothingWithoutJail'
  BY <1>1, <1>2, <1>5 DEF NothingWithoutJail, NoneWanted, RequestFits
<1>8. FstabStepFits(q)
  BY <1>1, <1>2, <1>3, <1>5 DEF FstabStepFits, FilesOf, FstabFits
<1>9. RulesStepFits(q)
  BY <1>1, <1>5 DEF RulesStepFits, FilesOf
<1>10. ConfStepFits(q)
  BY <1>1, <1>5 DEF ConfStepFits, FilesOf
<1>11. creq'[q].pc # "idle" => HeldFits(q)'
  BY <1>1, <1>5 DEF HeldFits
<1> QED
  BY <1>1, <1>3, <1>5, <1>6, <1>7, <1>8, <1>9, <1>10, <1>11 DEF StepIsFit, RequestFits, ConfigSteps

\* A mount that has failed removes the mount point.
LEMMA RemovePointFits ==
    ASSUME ConfigInv, NEW q \in ConfigRequest, RemovePoint(q) PROVE StepIsFit(q)
<1> USE DEF KnownOf
<1>1. KnownOf(q) /\ creq[q].pc # "idle" /\ KeepsWindows /\ creq[q].op = "mount" /\ present
  BY RequestIsKnown DEF RemovePoint, Doing, KeepsWindows, configHistory
<1>2. /\ (creq'[q].of = creq[q].of => About(q)' = About(q))
      /\ About(q) \in Entries /\ creq[q].of = {About(q)} /\ About(q)[1] \in Point
  BY <1>1, AboutIs DEF About, RequestFits
<1>3. ConfigSteps(q)
  BY <1>1, <1>2, NextSteps, HoldingSteps, AnswersSteps DEF RemovePoint, ConfigPlaces, Subject, Requests
<1>4. /\ wanted' \in Promises
      /\ fstab' \subseteq Entries /\ rules' \subseteq Rule /\ conf' \subseteq Setting
      /\ mounted' \subseteq Entries /\ points' \subseteq Point
      /\ {present, jailUp}' \subseteq BOOLEAN /\ (configOps \in 0..MaxConfigOps)'
  BY <1>1, <1>2 DEF ConfigInv, ConfigTypeOK, Requests, HeldFits, configHistory, RemovePoint, Doing, configState
<1>5. /\ fstab' = fstab /\ rules' = rules /\ conf' = conf /\ wanted' = wanted /\ present' = present
      /\ creq[q].pc = "rmdir"
      /\ creq'[q].pc = "idle"
  BY <1>1, <1>2, NextSteps, HoldingSteps, AnswersSteps
     DEF RemovePoint, Doing, ConfigPlaces, Subject, configState, configHistory
<1>6. ConfigTypeOK'
  BY <1>1, <1>3, <1>4 DEF ConfigInv, ConfigTypeOK, ConfigSteps, Requests, ConfigPlaces, Promises, RemovePoint, KeepsWindows, configHistory
<1>7. wanted'.rules \cap Foreign = {} /\ NothingWithoutJail'
  BY <1>1, <1>2, <1>5 DEF NothingWithoutJail, NoneWanted, RequestFits
<1>8. FstabStepFits(q)
  BY <1>1, <1>2, <1>3, <1>5 DEF FstabStepFits, FilesOf, FstabFits
<1>9. RulesStepFits(q)
  BY <1>1, <1>5 DEF RulesStepFits, FilesOf
<1>10. ConfStepFits(q)
  BY <1>1, <1>5 DEF ConfStepFits, FilesOf
<1>11. creq'[q].pc # "idle" => HeldFits(q)'
  BY <1>1, <1>5 DEF HeldFits
<1> QED
  BY <1>1, <1>3, <1>5, <1>6, <1>7, <1>8, <1>9, <1>10, <1>11 DEF StepIsFit, RequestFits, ConfigSteps

\* A procfs mount reads fstab.
LEMMA ReadFstabFits ==
    ASSUME ConfigInv, NEW q \in ConfigRequest, ReadFstab(q) PROVE StepIsFit(q)
<1> USE DEF KnownOf
<1>1. KnownOf(q) /\ creq[q].pc # "idle" /\ KeepsWindows /\ creq[q].op = "mount" /\ present
  BY RequestIsKnown DEF ReadFstab, Doing, KeepsWindows, configHistory
<1>2. /\ (creq'[q].of = creq[q].of => About(q)' = About(q))
      /\ About(q) \in Entries /\ creq[q].of = {About(q)} /\ About(q)[1] \in Point
  BY <1>1, AboutIs DEF About, RequestFits
<1>3. ConfigSteps(q)
  BY <1>1, <1>2, NextSteps, HoldingSteps, AnswersSteps DEF ReadFstab, ConfigPlaces, Subject, Requests
<1>4. /\ wanted' \in Promises
      /\ fstab' \subseteq Entries /\ rules' \subseteq Rule /\ conf' \subseteq Setting
      /\ mounted' \subseteq Entries /\ points' \subseteq Point
      /\ {present, jailUp}' \subseteq BOOLEAN /\ (configOps \in 0..MaxConfigOps)'
  BY <1>1, <1>2 DEF ConfigInv, ConfigTypeOK, Requests, HeldFits, configHistory, ReadFstab, Doing, configState
<1>5. /\ fstab' = fstab /\ rules' = rules /\ conf' = conf /\ wanted' = wanted /\ present' = present
      /\ \/ /\ creq[q].pc = "begun"
            /\ creq'[q].pc = "idle"
         \/ /\ creq[q].pc = "begun"
            /\ creq'[q].pc = "write" /\ creq'[q].op = creq[q].op /\ creq'[q].of = creq[q].of
            /\ creq'[q].held = fstab
            /\ ~(creq[q].of \subseteq fstab)
  BY <1>1, <1>2, NextSteps, HoldingSteps, AnswersSteps
     DEF ReadFstab, Doing, ConfigPlaces, Subject, configState, configHistory
<1>6. ConfigTypeOK'
  BY <1>1, <1>3, <1>4 DEF ConfigInv, ConfigTypeOK, ConfigSteps, Requests, ConfigPlaces, Promises, ReadFstab, KeepsWindows, configHistory
<1>7. wanted'.rules \cap Foreign = {} /\ NothingWithoutJail'
  BY <1>1, <1>2, <1>5 DEF NothingWithoutJail, NoneWanted, RequestFits
<1>8. FstabStepFits(q)
  BY <1>1, <1>2, <1>3, <1>5 DEF FstabStepFits, FilesOf, FstabFits
<1>9. RulesStepFits(q)
  BY <1>1, <1>5 DEF RulesStepFits, FilesOf
<1>10. ConfStepFits(q)
  BY <1>1, <1>5 DEF ConfStepFits, FilesOf
<1>11. creq'[q].pc # "idle" => HeldFits(q)'
  BY <1>1, <1>5 DEF HeldFits
<1> QED
  BY <1>1, <1>3, <1>5, <1>6, <1>7, <1>8, <1>9, <1>10, <1>11 DEF StepIsFit, RequestFits, ConfigSteps

\* fstab is written back with one line more.
LEMMA WriteFstabFits ==
    ASSUME ConfigInv, NEW q \in ConfigRequest, WriteFstab(q) PROVE StepIsFit(q)
<1> USE DEF KnownOf
<1>1. KnownOf(q) /\ creq[q].pc # "idle" /\ KeepsWindows /\ creq[q].op = "mount" /\ present
  BY RequestIsKnown DEF WriteFstab, Doing, KeepsWindows, configHistory, Tears
<1>2. /\ (creq'[q].of = creq[q].of => About(q)' = About(q))
      /\ About(q) \in Entries /\ creq[q].of = {About(q)} /\ About(q)[1] \in Point
  BY <1>1, AboutIs DEF About, RequestFits
<1>3. ConfigSteps(q)
  BY <1>1, <1>2, NextSteps, HoldingSteps, AnswersSteps DEF WriteFstab, ConfigPlaces, Subject, Requests
<1>4. /\ wanted' \in Promises
      /\ fstab' \subseteq Entries /\ rules' \subseteq Rule /\ conf' \subseteq Setting
      /\ mounted' \subseteq Entries /\ points' \subseteq Point
      /\ {present, jailUp}' \subseteq BOOLEAN /\ (configOps \in 0..MaxConfigOps)'
  BY <1>1, <1>2 DEF ConfigInv, ConfigTypeOK, Requests, HeldFits, configHistory, HalfWritten, WriteFstab, Doing, configState
<1>5. /\ rules' = rules /\ conf' = conf /\ wanted' = wanted /\ present' = present
      /\ creq[q].pc = "write"
      /\ \/ /\ creq'[q].pc = "mkdir" /\ creq'[q].op = creq[q].op /\ creq'[q].of = creq[q].of
            /\ creq'[q].held = creq[q].held
            /\ fstab' = creq[q].held \cup creq[q].of
         \/ creq'[q].pc = "idle" /\ (fstab' = fstab \/ "fstab" \in torn')
  BY <1>1, <1>2, NextSteps, HoldingSteps, AnswersSteps
     DEF WriteFstab, Doing, ConfigPlaces, Subject, configState, configHistory, HalfWritten, Tears
<1>6. ConfigTypeOK'
  BY <1>1, <1>3, <1>4 DEF ConfigInv, ConfigTypeOK, ConfigSteps, Requests, ConfigPlaces, Promises, WriteFstab,
         KeepsWindows, configHistory
<1>7. wanted'.rules \cap Foreign = {} /\ NothingWithoutJail'
  BY <1>1, <1>2, <1>5 DEF NothingWithoutJail, NoneWanted, RequestFits
<1>8. FstabStepFits(q)
  BY <1>1, <1>2, <1>3, <1>5 DEF FstabStepFits, FilesOf, FstabFits
<1>9. RulesStepFits(q)
  BY <1>1, <1>5 DEF RulesStepFits, FilesOf
<1>10. ConfStepFits(q)
  BY <1>1, <1>5 DEF ConfStepFits, FilesOf
<1>11. creq'[q].pc # "idle" => HeldFits(q)'
  BY <1>1, <1>5 DEF HeldFits
<1> QED
  BY <1>1, <1>3, <1>5, <1>6, <1>7, <1>8, <1>9, <1>10, <1>11 DEF StepIsFit, RequestFits, ConfigSteps

\* The mount succeeds and is promised, or is to be undone.
LEMMA MountProcFits ==
    ASSUME ConfigInv, NEW q \in ConfigRequest, MountProc(q) PROVE StepIsFit(q)
<1> USE DEF KnownOf
<1>1. KnownOf(q) /\ creq[q].pc # "idle" /\ KeepsWindows /\ creq[q].op = "mount" /\ present
  BY RequestIsKnown DEF MountProc, Doing, KeepsWindows
<1>2. /\ (creq'[q].of = creq[q].of => About(q)' = About(q))
      /\ About(q) \in Entries /\ creq[q].of = {About(q)} /\ About(q)[1] \in Point
  BY <1>1, AboutIs DEF About, RequestFits
<1>3. ConfigSteps(q)
  BY <1>1, <1>2, NextSteps, HoldingSteps, AnswersSteps DEF MountProc, ConfigPlaces, Subject, Requests
<1>4. /\ wanted' \in Promises
      /\ fstab' \subseteq Entries /\ rules' \subseteq Rule /\ conf' \subseteq Setting
      /\ mounted' \subseteq Entries /\ points' \subseteq Point
      /\ {present, jailUp}' \subseteq BOOLEAN /\ (configOps \in 0..MaxConfigOps)'
  BY <1>1, <1>2, FstabPromise DEF ConfigInv, ConfigTypeOK, Requests, HeldFits, MountProc, Doing, configState
<1>5. /\ fstab' = fstab /\ rules' = rules /\ wanted'.rules = wanted.rules
      /\ conf' = conf /\ wanted'.conf = wanted.conf /\ present' = present
      /\ \/ /\ creq[q].pc = "mkdir"
            /\ creq'[q].pc = "idle"
            /\ wanted'.fstab = wanted.fstab \cup creq[q].of
         \/ /\ creq[q].pc = "mkdir"
            /\ creq'[q].pc = "undo" /\ creq'[q].op = creq[q].op /\ creq'[q].of = creq[q].of
            /\ creq'[q].held = creq[q].held
            /\ wanted'.fstab = wanted.fstab
  BY <1>1, <1>2, NextSteps, HoldingSteps, AnswersSteps, FstabPromise
     DEF MountProc, Doing, ConfigPlaces, Subject, configState
<1>6. ConfigTypeOK'
  BY <1>1, <1>3, <1>4 DEF ConfigInv, ConfigTypeOK, ConfigSteps, Requests, ConfigPlaces, Promises, MountProc, KeepsWindows
<1>7. wanted'.rules \cap Foreign = {} /\ NothingWithoutJail'
  BY <1>1, <1>2, <1>5 DEF NothingWithoutJail, NoneWanted, RequestFits
<1>8. FstabStepFits(q)
  BY <1>1, <1>2, <1>3, <1>5 DEF FstabStepFits, FilesOf, FstabFits
<1>9. RulesStepFits(q)
  BY <1>1, <1>5 DEF RulesStepFits, FilesOf
<1>10. ConfStepFits(q)
  BY <1>1, <1>5 DEF ConfStepFits, FilesOf
<1>11. creq'[q].pc # "idle" => HeldFits(q)'
  BY <1>1, <1>5 DEF HeldFits
<1> QED
  BY <1>1, <1>3, <1>5, <1>6, <1>7, <1>8, <1>9, <1>10, <1>11 DEF StepIsFit, RequestFits, ConfigSteps

\* bastilleFstabRemove reads fstab without the lines ...
LEMMA ReadForRemovalFits ==
    ASSUME ConfigInv, NEW q \in ConfigRequest, ReadForRemoval(q) PROVE StepIsFit(q)
<1> USE DEF KnownOf
<1>1. KnownOf(q) /\ creq[q].pc # "idle" /\ KeepsWindows /\ creq[q].op \in {"mount", "unmount"} /\ present
  BY RequestIsKnown DEF ReadForRemoval, Doing, KeepsWindows, configHistory, Tears
<1>2. /\ (creq'[q].of = creq[q].of => About(q)' = About(q))
      /\ About(q) \in Entries /\ creq[q].of = {About(q)} /\ About(q)[1] \in Point
  BY <1>1, AboutIs DEF About, RequestFits
<1>3. ConfigSteps(q)
  BY <1>1, <1>2, NextSteps, HoldingSteps, AnswersSteps DEF ReadForRemoval, ConfigPlaces, Subject, Requests
<1>4. /\ wanted' \in Promises
      /\ fstab' \subseteq Entries /\ rules' \subseteq Rule /\ conf' \subseteq Setting
      /\ mounted' \subseteq Entries /\ points' \subseteq Point
      /\ {present, jailUp}' \subseteq BOOLEAN /\ (configOps \in 0..MaxConfigOps)'
  BY <1>1, <1>2 DEF ConfigInv, ConfigTypeOK, Requests, HeldFits, configHistory, HalfWritten, ReadForRemoval, Doing, configState
<1>5. /\ fstab' = fstab /\ rules' = rules /\ conf' = conf /\ wanted' = wanted /\ present' = present
      /\ \/ /\ creq[q].op = "mount" /\ creq[q].pc = "undo"
            /\ creq'[q].pc \in {"clear", "unset"}
            /\ (creq'[q].pc = "unset" <=> fstab \cap creq[q].of = {})
            /\ creq'[q].op = creq[q].op /\ creq'[q].of = creq[q].of /\ creq'[q].held = fstab \ creq[q].of
         \/ /\ "fstab" \in torn' /\ creq'[q].pc = "unset" /\ creq'[q].held = {}
            /\ creq'[q].op = creq[q].op /\ creq'[q].of = creq[q].of
         \/ /\ creq[q].op = "unmount"
            /\ creq'[q].pc \in {"clear", "unset"}
            /\ (creq'[q].pc = "unset" => fstab \cap AtPoint(About(q)[1]) = {})
            /\ creq'[q].op = creq[q].op /\ creq'[q].of = creq[q].of
            /\ creq'[q].held = fstab \ AtPoint(About(q)[1])
  BY <1>1, <1>2, NextSteps, HoldingSteps, AnswersSteps
     DEF ReadForRemoval, Doing, ConfigPlaces, Subject, configState, configHistory, HalfWritten, Tears, RemovedLines
<1>6. ConfigTypeOK'
  BY <1>1, <1>3, <1>4
     DEF ConfigInv, ConfigTypeOK, ConfigSteps, Requests, ConfigPlaces, Promises, ReadForRemoval,
         KeepsWindows, configHistory
<1>7. wanted'.rules \cap Foreign = {} /\ NothingWithoutJail'
  BY <1>1, <1>2, <1>5 DEF NothingWithoutJail, NoneWanted, RequestFits
<1>8. FstabStepFits(q)
  BY <1>1, <1>2, <1>3, <1>5 DEF FstabStepFits, FilesOf, FstabFits
<1>9. RulesStepFits(q)
  BY <1>1, <1>5 DEF RulesStepFits, FilesOf
<1>10. ConfStepFits(q)
  BY <1>1, <1>5 DEF ConfStepFits, FilesOf
<1>11. creq'[q].pc # "idle" => HeldFits(q)'
  BY <1>1, <1>5 DEF HeldFits, AtPoint
<1> QED
  BY <1>1, <1>3, <1>5, <1>6, <1>7, <1>8, <1>9, <1>10, <1>11 DEF StepIsFit, RequestFits, ConfigSteps

\* ... and writes it back.
LEMMA RemoveLinesFits ==
    ASSUME ConfigInv, NEW q \in ConfigRequest, RemoveLines(q) PROVE StepIsFit(q)
<1> USE DEF KnownOf
<1>1. KnownOf(q) /\ creq[q].pc # "idle" /\ KeepsWindows /\ creq[q].op \in {"mount", "unmount"} /\ present
  BY RequestIsKnown DEF RemoveLines, Doing, KeepsWindows, configHistory, Tears
<1>2. /\ (creq'[q].of = creq[q].of => About(q)' = About(q))
      /\ About(q) \in Entries /\ creq[q].of = {About(q)} /\ About(q)[1] \in Point
  BY <1>1, AboutIs DEF About, RequestFits
<1>3. ConfigSteps(q)
  BY <1>1, <1>2, NextSteps, HoldingSteps, AnswersSteps DEF RemoveLines, ConfigPlaces, Subject, Requests
<1>4. /\ wanted' \in Promises
      /\ fstab' \subseteq Entries /\ rules' \subseteq Rule /\ conf' \subseteq Setting
      /\ mounted' \subseteq Entries /\ points' \subseteq Point
      /\ {present, jailUp}' \subseteq BOOLEAN /\ (configOps \in 0..MaxConfigOps)'
  BY <1>1, <1>2 DEF ConfigInv, ConfigTypeOK, Requests, HeldFits, configHistory, HalfWritten, RemoveLines, Doing, configState
<1>5. /\ rules' = rules /\ conf' = conf /\ wanted' = wanted /\ present' = present
      /\ \/ /\ creq[q].pc = "clear"
            /\ creq'[q].pc = "idle"
            /\ fstab' = creq[q].held \/ "fstab" \in torn'
         \/ /\ creq[q].pc = "unset"
            /\ creq'[q].pc = "idle"
            /\ fstab' = fstab
  BY <1>1, <1>2, NextSteps, HoldingSteps, AnswersSteps
     DEF RemoveLines, Doing, ConfigPlaces, Subject, configState, configHistory, HalfWritten, Tears
<1>6. ConfigTypeOK'
  BY <1>1, <1>3, <1>4 DEF ConfigInv, ConfigTypeOK, ConfigSteps, Requests, ConfigPlaces, Promises, RemoveLines,
         KeepsWindows, configHistory
<1>7. wanted'.rules \cap Foreign = {} /\ NothingWithoutJail'
  BY <1>1, <1>2, <1>5 DEF NothingWithoutJail, NoneWanted, RequestFits
<1>8. FstabStepFits(q)
  BY <1>1, <1>2, <1>3, <1>5 DEF FstabStepFits, FilesOf, FstabFits
<1>9. RulesStepFits(q)
  BY <1>1, <1>5 DEF RulesStepFits, FilesOf
<1>10. ConfStepFits(q)
  BY <1>1, <1>5 DEF ConfStepFits, FilesOf
<1>11. creq'[q].pc # "idle" => HeldFits(q)'
  BY <1>1, <1>5 DEF HeldFits
<1> QED
  BY <1>1, <1>3, <1>5, <1>6, <1>7, <1>8, <1>9, <1>10, <1>11 DEF StepIsFit, RequestFits, ConfigSteps

\* bastille umount takes at most lines of the mount point out.
LEMMA UnmountFits ==
    ASSUME ConfigInv, NEW q \in ConfigRequest, Unmount(q) PROVE StepIsFit(q)
<1> USE DEF KnownOf
<1>1. KnownOf(q) /\ creq[q].pc # "idle" /\ KeepsWindows /\ creq[q].op = "unmount" /\ present
  BY RequestIsKnown DEF Unmount, Doing, KeepsWindows, configHistory
<1>2. /\ (creq'[q].of = creq[q].of => About(q)' = About(q))
      /\ About(q) \in Entries /\ creq[q].of = {About(q)} /\ About(q)[1] \in Point
  BY <1>1, AboutIs DEF About, RequestFits
<1>3. ConfigSteps(q)
  BY <1>1, <1>2, NextSteps, HoldingSteps, AnswersSteps
     DEF Unmount, ConfigPlaces, Subject, Requests, ConfigSteps
<1>4. /\ wanted' \in Promises
      /\ fstab' \subseteq Entries /\ rules' \subseteq Rule /\ conf' \subseteq Setting
      /\ mounted' \subseteq Entries /\ points' \subseteq Point
      /\ {present, jailUp}' \subseteq BOOLEAN /\ (configOps \in 0..MaxConfigOps)'
  BY <1>1, <1>2 DEF ConfigInv, ConfigTypeOK, Requests, HeldFits, configHistory, Unmount, Doing, configState
<1>5. /\ rules' = rules /\ conf' = conf /\ wanted' = wanted /\ present' = present
      /\ creq[q].pc = "begun"
      /\ creq'[q].pc = "read" /\ creq'[q].op = creq[q].op /\ creq'[q].of = creq[q].of
      /\ creq'[q].held = creq[q].held
      /\ fstab' \subseteq fstab /\ fstab' \ AtPoint(About(q)[1]) = fstab \ AtPoint(About(q)[1])
  BY <1>1, <1>2, NextSteps, HoldingSteps, AnswersSteps
     DEF Unmount, Doing, ConfigPlaces, Subject, configState, configHistory, Requests, AtPoint
<1>6. ConfigTypeOK'
  BY <1>1, <1>3, <1>4 DEF ConfigInv, ConfigTypeOK, ConfigSteps, Requests, ConfigPlaces, Promises, Unmount, KeepsWindows, configHistory
<1>7. wanted'.rules \cap Foreign = {} /\ NothingWithoutJail'
  BY <1>1, <1>2, <1>5 DEF NothingWithoutJail, NoneWanted, RequestFits
<1>8. FstabStepFits(q)
  BY <1>1, <1>2, <1>3, <1>5 DEF FstabStepFits, FilesOf, FstabFits
<1>9. RulesStepFits(q)
  BY <1>1, <1>5 DEF RulesStepFits, FilesOf
<1>10. ConfStepFits(q)
  BY <1>1, <1>5 DEF ConfStepFits, FilesOf
<1>11. creq'[q].pc # "idle" => HeldFits(q)'
  BY <1>1, <1>5 DEF HeldFits
<1> QED
  BY <1>1, <1>3, <1>5, <1>6, <1>7, <1>8, <1>9, <1>10, <1>11 DEF StepIsFit, RequestFits, ConfigSteps

\* bastilleRdrAdd
LEMMA AddRuleFits ==
    ASSUME ConfigInv, NEW q \in ConfigRequest, AddRule(q) PROVE StepIsFit(q)
<1> USE DEF KnownOf
<1>1. KnownOf(q) /\ creq[q].pc # "idle" /\ KeepsWindows /\ creq[q].op = "forward" /\ present
  BY RequestIsKnown DEF AddRule, Doing, KeepsWindows
<1>2. /\ (creq'[q].of = creq[q].of => About(q)' = About(q))
      /\ creq[q].op \in {"forward", "unforward"} => creq[q].of \subseteq Rule
      /\ creq[q].op \in {"set", "unset"} => creq[q].of \subseteq Setting
  BY <1>1, AboutIs DEF About, RequestFits
<1>3. ConfigSteps(q)
  BY <1>1, <1>2, NextSteps, HoldingSteps, AnswersSteps DEF AddRule, ConfigPlaces, Subject, Requests
<1>4. /\ wanted' \in Promises
      /\ fstab' \subseteq Entries /\ rules' \subseteq Rule /\ conf' \subseteq Setting
      /\ mounted' \subseteq Entries /\ points' \subseteq Point
      /\ {present, jailUp}' \subseteq BOOLEAN /\ (configOps \in 0..MaxConfigOps)'
  BY <1>1, <1>2, RulesPromise DEF ConfigInv, ConfigTypeOK, Requests, HeldFits, AddRule, Doing, configState
<1>5. /\ fstab' = fstab /\ wanted'.fstab = wanted.fstab
      /\ conf' = conf /\ wanted'.conf = wanted.conf /\ present' = present
      /\ \/ /\ creq'[q].pc = "idle"
            /\ rules' = rules \cup creq[q].of
            /\ wanted'.rules = wanted.rules \cup creq[q].of
         \/ /\ creq'[q].pc = "idle"
            /\ rules' = rules
            /\ wanted'.rules = wanted.rules
  BY <1>1, <1>2, NextSteps, HoldingSteps, AnswersSteps, RulesPromise
     DEF AddRule, Doing, ConfigPlaces, Subject, configState
<1>6. ConfigTypeOK'
  BY <1>1, <1>3, <1>4 DEF ConfigInv, ConfigTypeOK, ConfigSteps, Requests, ConfigPlaces, Promises, AddRule, KeepsWindows
<1>7. wanted'.rules \cap Foreign = {} /\ NothingWithoutJail'
  BY <1>1, <1>2, <1>5 DEF NothingWithoutJail, NoneWanted, RequestFits
<1>8. FstabStepFits(q)
  BY <1>1, <1>5 DEF FstabStepFits, FilesOf
<1>9. RulesStepFits(q)
  BY <1>1, <1>2, <1>3, <1>5 DEF RulesStepFits, FilesOf, RulesFit, RequestFits
<1>10. ConfStepFits(q)
  BY <1>1, <1>5 DEF ConfStepFits, FilesOf
<1>11. creq'[q].pc # "idle" => HeldFits(q)'
  BY <1>1, <1>5 DEF HeldFits
<1> QED
  BY <1>1, <1>3, <1>5, <1>6, <1>7, <1>8, <1>9, <1>10, <1>11 DEF StepIsFit, RequestFits, ConfigSteps

\* bastilleRdrDelete lists the rules: every promised one can be read ...
LEMMA ListRulesFits ==
    ASSUME ConfigInv, NEW q \in ConfigRequest, ListRules(q) PROVE StepIsFit(q)
<1> USE DEF KnownOf
<1>1. KnownOf(q) /\ creq[q].pc # "idle" /\ KeepsWindows /\ creq[q].op = "unforward" /\ present
  BY RequestIsKnown DEF ListRules, Doing, KeepsWindows, configHistory
<1>2. /\ (creq'[q].of = creq[q].of => About(q)' = About(q))
      /\ creq[q].op \in {"forward", "unforward"} => creq[q].of \subseteq Rule
      /\ creq[q].op \in {"set", "unset"} => creq[q].of \subseteq Setting
  BY <1>1, AboutIs DEF About, RequestFits
<1>3. ConfigSteps(q)
  BY <1>1, <1>2, NextSteps, HoldingSteps, AnswersSteps DEF ListRules, ConfigPlaces, Subject, Requests
<1>4. /\ wanted' \in Promises
      /\ fstab' \subseteq Entries /\ rules' \subseteq Rule /\ conf' \subseteq Setting
      /\ mounted' \subseteq Entries /\ points' \subseteq Point
      /\ {present, jailUp}' \subseteq BOOLEAN /\ (configOps \in 0..MaxConfigOps)'
  BY <1>1, <1>2 DEF ConfigInv, ConfigTypeOK, Requests, HeldFits, configHistory, ListRules, Doing, configState
<1>5. /\ fstab' = fstab /\ rules' = rules /\ conf' = conf /\ wanted' = wanted /\ present' = present
      /\ \/ /\ creq[q].pc = "begun"
            /\ creq'[q].pc = "idle"
         \/ /\ creq[q].pc = "begun"
            /\ creq'[q].pc = "clear" /\ creq'[q].op = creq[q].op /\ creq'[q].of = creq[q].of
            /\ creq'[q].held = rules \ Foreign
  BY <1>1, <1>2, NextSteps, HoldingSteps, AnswersSteps
     DEF ListRules, Doing, ConfigPlaces, Subject, configState, configHistory
<1>6. ConfigTypeOK'
  BY <1>1, <1>3, <1>4 DEF ConfigInv, ConfigTypeOK, ConfigSteps, Requests, ConfigPlaces, Promises, ListRules, KeepsWindows, configHistory
<1>7. wanted'.rules \cap Foreign = {} /\ NothingWithoutJail'
  BY <1>1, <1>2, <1>5 DEF NothingWithoutJail, NoneWanted, RequestFits
<1>8. FstabStepFits(q)
  BY <1>1, <1>5 DEF FstabStepFits, FilesOf
<1>9. RulesStepFits(q)
  BY <1>1, <1>2, <1>3, <1>5 DEF RulesStepFits, FilesOf, RulesFit, RequestFits
<1>10. ConfStepFits(q)
  BY <1>1, <1>5 DEF ConfStepFits, FilesOf
<1>11. creq'[q].pc # "idle" => HeldFits(q)'
  BY <1>1, <1>5 DEF HeldFits
<1> QED
  BY <1>1, <1>3, <1>5, <1>6, <1>7, <1>8, <1>9, <1>10, <1>11 DEF StepIsFit, RequestFits, ConfigSteps

\* ... clears them ...
LEMMA ClearRulesFits ==
    ASSUME ConfigInv, NEW q \in ConfigRequest, ClearRules(q) PROVE StepIsFit(q)
<1> USE DEF KnownOf
<1>1. KnownOf(q) /\ creq[q].pc # "idle" /\ KeepsWindows /\ creq[q].op = "unforward" /\ present
  BY RequestIsKnown DEF ClearRules, Doing, KeepsWindows, configHistory
<1>2. /\ (creq'[q].of = creq[q].of => About(q)' = About(q))
      /\ creq[q].op \in {"forward", "unforward"} => creq[q].of \subseteq Rule
      /\ creq[q].op \in {"set", "unset"} => creq[q].of \subseteq Setting
  BY <1>1, AboutIs DEF About, RequestFits
<1>3. ConfigSteps(q)
  BY <1>1, <1>2, NextSteps, HoldingSteps, AnswersSteps DEF ClearRules, ConfigPlaces, Subject, Requests
<1>4. /\ wanted' \in Promises
      /\ fstab' \subseteq Entries /\ rules' \subseteq Rule /\ conf' \subseteq Setting
      /\ mounted' \subseteq Entries /\ points' \subseteq Point
      /\ {present, jailUp}' \subseteq BOOLEAN /\ (configOps \in 0..MaxConfigOps)'
  BY <1>1, <1>2 DEF ConfigInv, ConfigTypeOK, Requests, HeldFits, configHistory, ClearRules, Doing, configState
<1>5. /\ fstab' = fstab /\ conf' = conf /\ wanted' = wanted /\ present' = present
      /\ \/ /\ creq[q].pc = "clear"
            /\ creq'[q].pc = "replay" /\ creq'[q].op = creq[q].op /\ creq'[q].of = creq[q].of
            /\ creq'[q].held = creq[q].held
            /\ rules' = {}
         \/ /\ creq[q].pc = "clear"
            /\ creq'[q].pc = "idle"
            /\ rules' = rules
  BY <1>1, <1>2, NextSteps, HoldingSteps, AnswersSteps
     DEF ClearRules, Doing, ConfigPlaces, Subject, configState, configHistory
<1>6. ConfigTypeOK'
  BY <1>1, <1>3, <1>4 DEF ConfigInv, ConfigTypeOK, ConfigSteps, Requests, ConfigPlaces, Promises, ClearRules, KeepsWindows, configHistory
<1>7. wanted'.rules \cap Foreign = {} /\ NothingWithoutJail'
  BY <1>1, <1>2, <1>5 DEF NothingWithoutJail, NoneWanted, RequestFits
<1>8. FstabStepFits(q)
  BY <1>1, <1>5 DEF FstabStepFits, FilesOf
<1>9. RulesStepFits(q)
  BY <1>1, <1>2, <1>3, <1>5 DEF RulesStepFits, FilesOf, RulesFit, RequestFits
<1>10. ConfStepFits(q)
  BY <1>1, <1>5 DEF ConfStepFits, FilesOf
<1>11. creq'[q].pc # "idle" => HeldFits(q)'
  BY <1>1, <1>5 DEF HeldFits
<1> QED
  BY <1>1, <1>3, <1>5, <1>6, <1>7, <1>8, <1>9, <1>10, <1>11 DEF StepIsFit, RequestFits, ConfigSteps

\* ... and adds the others again.
LEMMA ReplayRuleFits ==
    ASSUME ConfigInv, NEW q \in ConfigRequest, ReplayRule(q) PROVE StepIsFit(q)
<1> USE DEF KnownOf
<1>1. KnownOf(q) /\ creq[q].pc # "idle" /\ KeepsWindows /\ creq[q].op = "unforward" /\ present
  BY RequestIsKnown DEF ReplayRule, Doing, KeepsWindows
<1>2. /\ (creq'[q].of = creq[q].of => About(q)' = About(q))
      /\ creq[q].op \in {"forward", "unforward"} => creq[q].of \subseteq Rule
      /\ creq[q].op \in {"set", "unset"} => creq[q].of \subseteq Setting
  BY <1>1, AboutIs DEF About, RequestFits
<1>3. ConfigSteps(q)
  BY <1>1, <1>2, NextSteps, HoldingSteps, AnswersSteps DEF ReplayRule, ConfigPlaces, Subject, Requests
<1>4. /\ wanted' \in Promises
      /\ fstab' \subseteq Entries /\ rules' \subseteq Rule /\ conf' \subseteq Setting
      /\ mounted' \subseteq Entries /\ points' \subseteq Point
      /\ {present, jailUp}' \subseteq BOOLEAN /\ (configOps \in 0..MaxConfigOps)'
  <2>1. wanted' \in Promises
    <3>1. wanted.rules \ (creq[q].held \ creq[q].of) \in SUBSET Rule
      BY <1>1
    <3> QED
      BY <1>1, <3>1, RulesPromise DEF ReplayRule
  <2>2. creq[q].held \subseteq Rule
    BY <1>1 DEF HeldFits
  <2>3. /\ fstab' = fstab /\ conf' = conf /\ mounted' = mounted /\ points' = points
        /\ present' = present /\ jailUp' = jailUp /\ configOps' = configOps
    BY DEF ReplayRule
  <2>4. rules' \subseteq Rule
    BY <1>1, <2>2 DEF ReplayRule
  <2> QED
    BY <1>1, <2>1, <2>3, <2>4 DEF ConfigInv, ConfigTypeOK
<1>5. /\ fstab' = fstab /\ wanted'.fstab = wanted.fstab
      /\ conf' = conf /\ wanted'.conf = wanted.conf /\ present' = present
      /\ \/ /\ creq[q].pc = "replay"
            /\ creq'[q].pc = "idle"
            /\ creq[q].held \subseteq creq[q].of /\ rules' = rules
            /\ wanted'.rules = wanted.rules
         \/ /\ creq[q].pc = "replay"
            /\ creq'[q].pc = "replay" /\ creq'[q].op = creq[q].op /\ creq'[q].of = creq[q].of
            /\ (\E r \in creq[q].held : rules' = rules \cup {r} /\ creq'[q].held = creq[q].held \ {r})
            /\ wanted'.rules = wanted.rules
         \/ /\ creq[q].pc = "replay"
            /\ creq'[q].pc = "idle"
            /\ rules' = rules
            /\ wanted'.rules = wanted.rules \ (creq[q].held \ creq[q].of)
  <2> DEFINE left == creq[q].held \ creq[q].of
  <2>1. CASE left = {}
    BY <1>1, <2>1, AnswersSteps DEF ReplayRule, Doing
  <2>2. ASSUME NEW r \in left, rules' = rules \cup {r}, wanted' = wanted,
               Holding(q, "replay", creq[q].held \ {r})
        PROVE  creq'[q].pc = "replay" /\ creq'[q].op = creq[q].op /\ creq'[q].of = creq[q].of
               /\ creq'[q].held = creq[q].held \ {r}
    <3>1. creq[q].held \ {r} \in SUBSET Subject
      BY <1>1 DEF Requests
    <3> QED
      BY <1>1, <2>2, <3>1, HoldingSteps DEF ConfigPlaces
  <2>3. ASSUME Answers(q), Promise("rules", wanted.rules \ left), rules' = rules
        PROVE  /\ creq'[q].pc = "idle" /\ wanted'.rules = wanted.rules \ left
               /\ wanted'.fstab = wanted.fstab /\ wanted'.conf = wanted.conf
    <3>1. wanted.rules \ left \in SUBSET Rule
      BY <1>1
    <3> QED
      BY <1>1, <2>3, <3>1, AnswersSteps, RulesPromise
  <2>4. creq[q].pc = "replay" /\ fstab' = fstab /\ conf' = conf /\ present' = present
    BY DEF ReplayRule, Doing
  <2>5. \/ left = {}
        \/ \E r \in left :
             rules' = rules \cup {r} /\ wanted' = wanted /\ Holding(q, "replay", creq[q].held \ {r})
        \/ Answers(q) /\ Promise("rules", wanted.rules \ left) /\ rules' = rules
    BY DEF ReplayRule
  <2> QED
    BY <2>1, <2>2, <2>3, <2>4, <2>5 DEF ReplayRule
<1>6. ConfigTypeOK'
  BY <1>1, <1>3, <1>4 DEF ConfigInv, ConfigTypeOK, ConfigSteps, Requests, ConfigPlaces, Promises, ReplayRule, KeepsWindows
<1>7. wanted'.rules \cap Foreign = {} /\ NothingWithoutJail'
  BY <1>1, <1>2, <1>5 DEF NothingWithoutJail, NoneWanted, RequestFits
<1>8. FstabStepFits(q)
  BY <1>1, <1>5 DEF FstabStepFits, FilesOf
<1>9. RulesStepFits(q)
  BY <1>1, <1>2, <1>3, <1>5 DEF RulesStepFits, FilesOf, RulesFit, RequestFits
<1>10. ConfStepFits(q)
  BY <1>1, <1>5 DEF ConfStepFits, FilesOf
<1>11. creq'[q].pc # "idle" => HeldFits(q)'
  BY <1>1, <1>5 DEF HeldFits
<1> QED
  BY <1>1, <1>3, <1>5, <1>6, <1>7, <1>8, <1>9, <1>10, <1>11 DEF StepIsFit, RequestFits, ConfigSteps

\* bastilleConfigSet
LEMMA SetSettingFits ==
    ASSUME ConfigInv, NEW q \in ConfigRequest, SetSetting(q) PROVE StepIsFit(q)
<1> USE DEF KnownOf
<1>1. KnownOf(q) /\ creq[q].pc # "idle" /\ KeepsWindows /\ creq[q].op = "set" /\ present
  BY RequestIsKnown DEF SetSetting, Doing, KeepsWindows
<1>2. /\ (creq'[q].of = creq[q].of => About(q)' = About(q))
      /\ creq[q].op \in {"forward", "unforward"} => creq[q].of \subseteq Rule
      /\ creq[q].op \in {"set", "unset"} => creq[q].of \subseteq Setting
  BY <1>1, AboutIs DEF About, RequestFits
<1>3. ConfigSteps(q)
  BY <1>1, <1>2, NextSteps, HoldingSteps, AnswersSteps DEF SetSetting, ConfigPlaces, Subject, Requests
<1>4. /\ wanted' \in Promises
      /\ fstab' \subseteq Entries /\ rules' \subseteq Rule /\ conf' \subseteq Setting
      /\ mounted' \subseteq Entries /\ points' \subseteq Point
      /\ {present, jailUp}' \subseteq BOOLEAN /\ (configOps \in 0..MaxConfigOps)'
  BY <1>1, <1>2, ConfPromise DEF ConfigInv, ConfigTypeOK, Requests, HeldFits, SetSetting, Doing, configState
<1>5. /\ fstab' = fstab /\ wanted'.fstab = wanted.fstab
      /\ rules' = rules /\ wanted'.rules = wanted.rules /\ present' = present
      /\ \/ /\ creq'[q].pc = "idle"
            /\ conf' = conf \cup creq[q].of
            /\ wanted'.conf = wanted.conf \cup creq[q].of
         \/ /\ creq'[q].pc = "idle"
            /\ conf' = conf
            /\ wanted'.conf = wanted.conf
  BY <1>1, <1>2, NextSteps, HoldingSteps, AnswersSteps, ConfPromise
     DEF SetSetting, Doing, ConfigPlaces, Subject, configState
<1>6. ConfigTypeOK'
  BY <1>1, <1>3, <1>4 DEF ConfigInv, ConfigTypeOK, ConfigSteps, Requests, ConfigPlaces, Promises, SetSetting, KeepsWindows
<1>7. wanted'.rules \cap Foreign = {} /\ NothingWithoutJail'
  BY <1>1, <1>2, <1>5 DEF NothingWithoutJail, NoneWanted, RequestFits
<1>8. FstabStepFits(q)
  BY <1>1, <1>5 DEF FstabStepFits, FilesOf
<1>9. RulesStepFits(q)
  BY <1>1, <1>5 DEF RulesStepFits, FilesOf
<1>10. ConfStepFits(q)
  BY <1>1, <1>2, <1>3, <1>5 DEF ConfStepFits, FilesOf, ConfFits, RequestFits
<1>11. creq'[q].pc # "idle" => HeldFits(q)'
  BY <1>1, <1>5 DEF HeldFits
<1> QED
  BY <1>1, <1>3, <1>5, <1>6, <1>7, <1>8, <1>9, <1>10, <1>11 DEF StepIsFit, RequestFits, ConfigSteps

\* bastilleConfigUnset reads jail.conf ...
LEMMA ReadSettingsFits ==
    ASSUME ConfigInv, NEW q \in ConfigRequest, ReadSettings(q) PROVE StepIsFit(q)
<1> USE DEF KnownOf
<1>1. KnownOf(q) /\ creq[q].pc # "idle" /\ KeepsWindows /\ creq[q].op = "unset" /\ present
  BY RequestIsKnown DEF ReadSettings, Doing, KeepsWindows, configHistory
<1>2. /\ (creq'[q].of = creq[q].of => About(q)' = About(q))
      /\ creq[q].op \in {"forward", "unforward"} => creq[q].of \subseteq Rule
      /\ creq[q].op \in {"set", "unset"} => creq[q].of \subseteq Setting
  BY <1>1, AboutIs DEF About, RequestFits
<1>3. ConfigSteps(q)
  BY <1>1, <1>2, NextSteps, HoldingSteps, AnswersSteps DEF ReadSettings, ConfigPlaces, Subject, Requests
<1>4. /\ wanted' \in Promises
      /\ fstab' \subseteq Entries /\ rules' \subseteq Rule /\ conf' \subseteq Setting
      /\ mounted' \subseteq Entries /\ points' \subseteq Point
      /\ {present, jailUp}' \subseteq BOOLEAN /\ (configOps \in 0..MaxConfigOps)'
  BY <1>1, <1>2 DEF ConfigInv, ConfigTypeOK, Requests, HeldFits, configHistory, ReadSettings, Doing, configState
<1>5. /\ fstab' = fstab /\ rules' = rules /\ conf' = conf /\ wanted' = wanted /\ present' = present
      /\ \/ creq'[q].pc = "idle"
         \/ /\ creq'[q].pc = "write" /\ creq'[q].op = creq[q].op /\ creq'[q].of = creq[q].of
            /\ creq'[q].held = conf
  BY <1>1, <1>2, NextSteps, HoldingSteps, AnswersSteps
     DEF ReadSettings, Doing, ConfigPlaces, Subject, configState, configHistory
<1>6. ConfigTypeOK'
  BY <1>1, <1>3, <1>4 DEF ConfigInv, ConfigTypeOK, ConfigSteps, Requests, ConfigPlaces, Promises, ReadSettings, KeepsWindows, configHistory
<1>7. wanted'.rules \cap Foreign = {} /\ NothingWithoutJail'
  BY <1>1, <1>2, <1>5 DEF NothingWithoutJail, NoneWanted, RequestFits
<1>8. FstabStepFits(q)
  BY <1>1, <1>5 DEF FstabStepFits, FilesOf
<1>9. RulesStepFits(q)
  BY <1>1, <1>5 DEF RulesStepFits, FilesOf
<1>10. ConfStepFits(q)
  BY <1>1, <1>2, <1>3, <1>5 DEF ConfStepFits, FilesOf, ConfFits, RequestFits
<1>11. creq'[q].pc # "idle" => HeldFits(q)'
  BY <1>1, <1>5 DEF HeldFits
<1> QED
  BY <1>1, <1>3, <1>5, <1>6, <1>7, <1>8, <1>9, <1>10, <1>11 DEF StepIsFit, RequestFits, ConfigSteps

\* ... and writes it back without the key.
LEMMA UnsetSettingFits ==
    ASSUME ConfigInv, NEW q \in ConfigRequest, UnsetSetting(q) PROVE StepIsFit(q)
<1> USE DEF KnownOf
<1>1. KnownOf(q) /\ creq[q].pc # "idle" /\ KeepsWindows /\ creq[q].op = "unset" /\ present
  BY RequestIsKnown DEF UnsetSetting, Doing, KeepsWindows, configHistory, Tears
<1>2. /\ (creq'[q].of = creq[q].of => About(q)' = About(q))
      /\ creq[q].op \in {"forward", "unforward"} => creq[q].of \subseteq Rule
      /\ creq[q].op \in {"set", "unset"} => creq[q].of \subseteq Setting
  BY <1>1, AboutIs DEF About, RequestFits
<1>3. ConfigSteps(q)
  BY <1>1, <1>2, NextSteps, HoldingSteps, AnswersSteps DEF UnsetSetting, ConfigPlaces, Subject, Requests
<1>4. /\ wanted' \in Promises
      /\ fstab' \subseteq Entries /\ rules' \subseteq Rule /\ conf' \subseteq Setting
      /\ mounted' \subseteq Entries /\ points' \subseteq Point
      /\ {present, jailUp}' \subseteq BOOLEAN /\ (configOps \in 0..MaxConfigOps)'
  BY <1>1, <1>2 DEF ConfigInv, ConfigTypeOK, Requests, HeldFits, configHistory, HalfWritten, UnsetSetting, Doing, configState
<1>5. /\ fstab' = fstab /\ rules' = rules /\ wanted' = wanted /\ present' = present
      /\ creq[q].pc = "write"
      /\ creq'[q].pc = "idle"
      /\ (conf' \in {creq[q].held \ creq[q].of, conf} \/ "conf" \in torn')
  BY <1>1, <1>2, NextSteps, HoldingSteps, AnswersSteps
     DEF UnsetSetting, Doing, ConfigPlaces, Subject, configState, configHistory, HalfWritten, Tears
<1>6. ConfigTypeOK'
  BY <1>1, <1>3, <1>4 DEF ConfigInv, ConfigTypeOK, ConfigSteps, Requests, ConfigPlaces, Promises, UnsetSetting,
         KeepsWindows, configHistory
<1>7. wanted'.rules \cap Foreign = {} /\ NothingWithoutJail'
  BY <1>1, <1>2, <1>5 DEF NothingWithoutJail, NoneWanted, RequestFits
<1>8. FstabStepFits(q)
  BY <1>1, <1>5 DEF FstabStepFits, FilesOf
<1>9. RulesStepFits(q)
  BY <1>1, <1>5 DEF RulesStepFits, FilesOf
<1>10. ConfStepFits(q)
  BY <1>1, <1>2, <1>3, <1>5 DEF ConfStepFits, FilesOf, ConfFits, RequestFits
<1>11. creq'[q].pc # "idle" => HeldFits(q)'
  BY <1>1, <1>5 DEF HeldFits
<1> QED
  BY <1>1, <1>3, <1>5, <1>6, <1>7, <1>8, <1>9, <1>10, <1>11 DEF StepIsFit, RequestFits, ConfigSteps

\* What a request may be about when it begins.
MayBegin(op, of) ==
    /\ op \in Op /\ of \subseteq Subject
    /\ op \in {"mount", "unmount", "create"} => \E e \in Entries : of = {e}
    /\ op \in {"forward", "unforward"} => of \subseteq Rule \ Foreign
    /\ op \in {"set", "unset"} => of \subseteq Setting

\* A request begins; with another one at the same file the file gets into the window.
LEMMA BeginConfigKeeps ==
    ASSUME ConfigInv, NEW q \in ConfigRequest, NEW op, NEW of, MayBegin(op, of), BeginConfig(q, op, of)
    PROVE  ConfigInv'
<1>1. /\ creq \in [ConfigRequest -> Requests] /\ wanted \in Promises /\ creq[q].pc = "idle"
      /\ UNCHANGED <<present, jailUp, fstab, mounted, points, rules, conf, torn>>
  BY DEF ConfigInv, ConfigTypeOK, Requests, ConfigPlaces, Promises, BeginConfig, configState
<1>2. /\ creq' \in [ConfigRequest -> Requests] /\ \A o \in ConfigRequest \ {q} : creq'[o] = creq[o]
      /\ creq'[q].pc = "begun" /\ creq'[q].op = op /\ creq'[q].of = of /\ creq'[q].held = {}
  <2>1. PICK r \in Requests : r = [Nothing EXCEPT !.pc = "begun", !.op = op, !.of = of]
    BY DEF MayBegin, Nothing, Requests, ConfigPlaces
  <2>2. r.pc = "begun" /\ r.op = op /\ r.of = of /\ r.held = {}
    BY <2>1 DEF Nothing
  <2>3. creq' = [creq EXCEPT ![q] = r]
    BY <2>1 DEF BeginConfig
  <2> QED
    BY <1>1, <2>2, <2>3
<1>3. /\ wanted' \in Promises
      /\ wanted'.fstab =
           IF op = "unmount" THEN wanted.fstab \ UNION {AtPoint(e[1]) : e \in of} ELSE wanted.fstab
      /\ wanted'.rules = IF op = "unforward" THEN wanted.rules \ of ELSE wanted.rules
      /\ wanted'.conf = IF op = "unset" THEN wanted.conf \ of ELSE wanted.conf
  <2>1. CASE op = "unmount"
    BY <1>1, <2>1 DEF BeginConfig, Promises
  <2>2. CASE op = "unforward"
    BY <1>1, <2>2 DEF BeginConfig, Promises
  <2>3. CASE op = "unset"
    BY <1>1, <2>3 DEF BeginConfig, Promises
  <2>4. CASE op \notin {"unmount", "unforward", "unset"}
    BY <1>1, <2>4 DEF BeginConfig, Promises
  <2> QED
    BY <2>1, <2>2, <2>3, <2>4
<1>4. /\ clashed \subseteq clashed' /\ clashed' \subseteq {"fstab", "rules", "conf"}
      /\ \A o \in ConfigRequest : creq[o].pc # "idle" => FilesOf(op) \cap FilesOf(creq[o].op) \subseteq clashed'
  BY DEF ConfigInv, ConfigTypeOK, BeginConfig, FilesOf
<1>5. ConfigTypeOK'
  BY <1>1, <1>2, <1>3, <1>4, ConfigAssumption
     DEF ConfigInv, ConfigTypeOK, Requests, ConfigPlaces, Promises, BeginConfig
<1>6. wanted'.rules \cap Foreign = {} /\ NothingWithoutJail'
  BY <1>1, <1>3 DEF ConfigInv, NothingWithoutJail, BeginConfig
<1>7. ASSUME NEW o \in ConfigRequest PROVE RequestFits(o)' /\ HeldFits(o)'
  BY <1>2 DEF ConfigInv, RequestFits, HeldFits, MayBegin
<1>8. ASSUME NEW file \in {"fstab", "rules", "conf"} \ clashed'
      PROVE  WorkOn(file)' = IF file \in FilesOf(op) THEN {q} ELSE WorkOn(file)
  <2>1. ASSUME NEW o \in ConfigRequest \ {q} PROVE o \in WorkOn(file)' <=> o \in WorkOn(file)
    BY <1>2, <2>1 DEF WorkOn
  <2>2. q \notin WorkOn(file) /\ (q \in WorkOn(file)' <=> file \in FilesOf(op))
    BY <1>1, <1>2 DEF WorkOn
  <2>3. file \in FilesOf(op) => \A o \in ConfigRequest : o \notin WorkOn(file)
    BY <1>4, <1>8 DEF WorkOn
  <2>4. WorkOn(file) \subseteq ConfigRequest /\ WorkOn(file)' \subseteq ConfigRequest
    BY DEF WorkOn
  <2> QED
    BY <2>1, <2>2, <2>3, <2>4
<1>9. ASSUME NEW file \in {"fstab", "rules", "conf"} \ clashed', file \in FilesOf(op)
      PROVE  WorkOn(file) = {}
  <2>1. ASSUME NEW o \in WorkOn(file) PROVE FALSE
    BY <1>4, <1>9, <2>1 DEF WorkOn
  <2> QED
    BY <2>1
<1>10. AloneAtFile'
  BY <1>4, <1>8 DEF ConfigInv, AloneAtFile
<1>11. ASSUME NEW o \in ConfigRequest \ {q} PROVE About(o)' = About(o) /\ creq'[o] = creq[o]
  BY <1>2 DEF About
<1>12. FstabInv'
  <2> SUFFICES ASSUME "fstab" \notin clashed', "fstab" \notin torn
               PROVE  /\ \A o \in WorkOn("fstab")' : FstabFits(o)'
                      /\ WorkOn("fstab")' = {} => fstab' = wanted'.fstab
    BY <1>1 DEF FstabInv
  <2>1. CASE "fstab" \in FilesOf(op)
    <3>1. fstab = wanted.fstab /\ WorkOn("fstab")' = {q}
      BY <1>4, <1>8, <1>9, <2>1 DEF ConfigInv, FstabInv
    <3>2. CASE op = "unmount"
      <4>1. PICK e \in Entries : of = {e}
        BY <3>2 DEF MayBegin
      <4>2. About(q)' = e /\ wanted'.fstab = fstab \ AtPoint(e[1])
        BY <1>2, <1>3, <3>1, <3>2, <4>1 DEF About
      <4> QED
        BY <1>1, <1>2, <3>1, <3>2, <4>2 DEF FstabFits
    <3>3. CASE op # "unmount"
      BY <1>1, <1>2, <1>3, <3>1, <3>3 DEF FstabFits
    <3> QED
      BY <3>2, <3>3
  <2>2. CASE "fstab" \notin FilesOf(op)
    <3>1. wanted'.fstab = wanted.fstab /\ fstab' = fstab /\ WorkOn("fstab")' = WorkOn("fstab")
      BY <1>1, <1>3, <1>8, <2>2 DEF FilesOf
    <3>2. ASSUME NEW o \in WorkOn("fstab") PROVE FstabFits(o)'
      <4>1. o \in ConfigRequest \ {q} /\ FstabFits(o)
        BY <1>1, <1>4 DEF ConfigInv, FstabInv, WorkOn
      <4> QED
        BY <1>11, <3>1, <4>1 DEF FstabFits
    <3> QED
      BY <1>4, <3>1, <3>2 DEF ConfigInv, FstabInv
  <2> QED
    BY <2>1, <2>2
<1>13. RulesInv'
  <2> SUFFICES ASSUME "rules" \notin clashed', "rules" \notin torn
               PROVE  /\ \A o \in WorkOn("rules")' : RulesFit(o)'
                      /\ \A r \in wanted'.rules \ rules' :
                             \E o \in WorkOn("rules")' : creq'[o].pc = "replay" /\ r \in creq'[o].held
    BY <1>1 DEF RulesInv
  <2>1. CASE "rules" \in FilesOf(op)
    <3>1. wanted.rules \subseteq rules /\ WorkOn("rules")' = {q}
      BY <1>4, <1>8, <1>9, <2>1 DEF ConfigInv, RulesInv
    <3> QED
      BY <1>1, <1>2, <1>3, <3>1 DEF RulesFit
  <2>2. CASE "rules" \notin FilesOf(op)
    <3>1. wanted'.rules = wanted.rules /\ rules' = rules /\ WorkOn("rules")' = WorkOn("rules")
      BY <1>1, <1>3, <1>8, <2>2 DEF FilesOf
    <3>2. \A o \in WorkOn("rules") : o \in ConfigRequest \ {q}
      BY <1>1 DEF WorkOn
    <3> QED
      BY <1>4, <1>11, <3>1, <3>2 DEF ConfigInv, RulesInv, RulesFit
  <2> QED
    BY <2>1, <2>2
<1>14. ConfInv'
  <2> SUFFICES ASSUME "conf" \notin clashed', "conf" \notin torn
               PROVE  (\A o \in WorkOn("conf")' : ConfFits(o)') /\ wanted'.conf \subseteq conf'
    BY <1>1 DEF ConfInv
  <2>1. CASE "conf" \in FilesOf(op)
    <3>1. wanted.conf \subseteq conf /\ WorkOn("conf")' = {q}
      BY <1>4, <1>8, <2>1 DEF ConfigInv, ConfInv
    <3> QED
      BY <1>1, <1>2, <1>3, <3>1 DEF ConfFits
  <2>2. CASE "conf" \notin FilesOf(op)
    <3>1. wanted'.conf = wanted.conf /\ conf' = conf /\ WorkOn("conf")' = WorkOn("conf")
      BY <1>1, <1>3, <1>8, <2>2 DEF FilesOf
    <3>2. \A o \in WorkOn("conf") : o \in ConfigRequest \ {q}
      BY <1>1 DEF WorkOn
    <3> QED
      BY <1>4, <1>11, <3>1, <3>2 DEF ConfigInv, ConfInv, ConfFits
  <2> QED
    BY <2>1, <2>2
<1> QED
  BY <1>5, <1>6, <1>7, <1>10, <1>12, <1>13, <1>14 DEF ConfigInv

\* What keeps the files, the promises and the requests keeps what is said of them.
LEMMA SameConfigKeeps ==
    ASSUME ConfigInv, UNCHANGED <<present, fstab, rules, conf, creq, wanted, clashed, torn>>, ConfigTypeOK'
    PROVE  ConfigInv'
<1>1. /\ \A q \in ConfigRequest : About(q)' = About(q)
      /\ \A file \in {"fstab", "rules", "conf"} : WorkOn(file)' = WorkOn(file)
  BY DEF About, WorkOn
<1>2. FstabInv'
  <2>1. ASSUME NEW q \in WorkOn("fstab"), FstabFits(q) PROVE FstabFits(q)'
    <3>1. About(q)' = About(q)
      BY DEF About
    <3> QED
      BY <2>1, <3>1 DEF FstabFits
  <2> QED
    BY <1>1, <2>1 DEF ConfigInv, FstabInv
<1> QED
  BY <1>1, <1>2 DEF ConfigInv, RequestFits, HeldFits, AloneAtFile, NothingWithoutJail,
                    RulesInv, RulesFit, ConfInv, ConfFits

\* The first state: nothing is configured but the rules that cannot be read.
LEMMA ConfigBegins == ConfigInit => ConfigInv
<1> SUFFICES ASSUME ConfigInit PROVE ConfigInv
  OBVIOUS
<1>1. \A file \in {"fstab", "rules", "conf"} : WorkOn(file) = {}
  BY DEF ConfigInit, WorkOn, Nothing
<1>2. ConfigTypeOK
  <2>1. Nothing \in Requests /\ NoneWanted \in Promises
    BY DEF Nothing, Requests, ConfigPlaces, Op, NoneWanted, Promises
  <2> QED
    BY <2>1, ConfigAssumption DEF ConfigInit, ConfigTypeOK, Requests, ConfigPlaces, Promises
<1> QED
  BY <1>1, <1>2 DEF ConfigInit, ConfigInv, RequestFits, HeldFits, Nothing, AloneAtFile, NothingWithoutJail,
                    FstabInv, RulesInv, ConfInv, NoneWanted

\* The node stops: what it leaves half done is in the window, and the rest is what the
\* answers have said.
LEMMA ConfigCrashKeeps == ASSUME ConfigInv, ConfigCrash PROVE ConfigInv'
<1>1. /\ creq \in [ConfigRequest -> Requests]
      /\ UNCHANGED <<present, jailUp, fstab, mounted, points, rules, conf, configOps, wanted, clashed>>
      /\ torn \subseteq torn'
      /\ \A q \in ConfigRequest : creq[q].pc # "idle" => HalfDone(q) \subseteq torn'
  BY DEF ConfigInv, ConfigTypeOK, Requests, ConfigPlaces, ConfigCrash, configState
<1>2. creq' \in [ConfigRequest -> Requests] /\ \A q \in ConfigRequest : creq'[q].pc = "idle"
  BY DEF ConfigCrash, Nothing, Requests, ConfigPlaces, Op
<1>3. torn' \subseteq {"fstab", "rules", "conf"}
  BY DEF ConfigInv, ConfigTypeOK, ConfigCrash, HalfDone
<1>4. ConfigTypeOK'
  BY <1>1, <1>2, <1>3 DEF ConfigInv, ConfigTypeOK, Requests, ConfigPlaces
<1>5. \A file \in {"fstab", "rules", "conf"} : WorkOn(file)' = {}
  BY <1>2 DEF WorkOn
<1>6. FstabInv'
  <2> SUFFICES ASSUME "fstab" \notin clashed, "fstab" \notin torn' PROVE fstab = wanted.fstab
    BY <1>1, <1>5 DEF FstabInv
  <2>1. CASE WorkOn("fstab") = {}
    BY <1>1, <2>1 DEF ConfigInv, FstabInv
  <2>2. ASSUME NEW q \in WorkOn("fstab") PROVE fstab = wanted.fstab
    <3>1. FstabFits(q) /\ q \in ConfigRequest /\ "fstab" \notin HalfDone(q) /\ creq[q].pc # "idle"
      BY <1>1 DEF ConfigInv, FstabInv, WorkOn
    <3>2. CASE creq[q].op = "mount"
      BY <3>1, <3>2 DEF FstabFits, HalfDone
    <3>3. CASE creq[q].op # "mount"
      BY <3>1, <3>3 DEF FstabFits, HalfDone
    <3> QED
      BY <3>2, <3>3
  <2> QED
    BY <2>1, <2>2
<1>7. RulesInv'
  <2> SUFFICES ASSUME "rules" \notin clashed, "rules" \notin torn' PROVE wanted.rules \subseteq rules
    BY <1>1, <1>5 DEF RulesInv
  <2>1. ASSUME NEW q \in WorkOn("rules"), creq[q].pc = "replay" PROVE FALSE
    <3>1. q \in ConfigRequest /\ RequestFits(q) /\ creq[q].pc # "idle"
      BY DEF ConfigInv, WorkOn
    <3> QED
      BY <1>1, <2>1, <3>1 DEF RequestFits, HalfDone
  <2> QED
    BY <1>1, <2>1 DEF ConfigInv, RulesInv
<1>8. ConfInv'
  BY <1>1, <1>5 DEF ConfigInv, ConfInv
<1> QED
  BY <1>1, <1>2, <1>4, <1>5, <1>6, <1>7, <1>8
     DEF ConfigInv, RequestFits, HeldFits, AloneAtFile, NothingWithoutJail

\* Every step of the jail and of the requests.
LEMMA ConfigStays == ConfigInv /\ [ConfigNext]_configVars => ConfigInv'
<1> SUFFICES ASSUME ConfigInv, [ConfigNext]_configVars PROVE ConfigInv'
  OBVIOUS
<1>1. CASE UNCHANGED configVars
  BY <1>1, SameConfigKeeps DEF configVars, configState, configHistory, ConfigInv, ConfigTypeOK
<1>2. CASE StartConfigured \/ StopConfigured
  <2>1. ConfigTypeOK' /\ UNCHANGED <<present, fstab, rules, conf, creq, wanted, clashed, torn>>
    BY <1>2 DEF StartConfigured, StopConfigured, configHistory, ConfigInv, ConfigTypeOK
  <2> QED
    BY <2>1, SameConfigKeeps
<1>3. ASSUME NEW q \in ConfigRequest, NEW op, NEW of, BeginConfig(q, op, of),
             \/ op = "mount" /\ \E e \in Entries : of = {e}
             \/ op \in {"unmount", "create"} /\ \E p \in Point : of = {Entry(p, "nullfs")}
             \/ op \in {"forward", "unforward"} /\ \E r \in Rule \ Foreign : of = {r}
             \/ op \in {"set", "unset"} /\ \E k \in Setting : of = {k}
             \/ op = "destroy" /\ of = {}
      PROVE  ConfigInv'
  <2>1. CASE op \in {"mount", "unmount", "create"}
    <3>1. PICK e \in Entries : of = {e}
      BY <1>3, <2>1 DEF Entries, Entry
    <3> QED
      BY <1>3, <2>1, <3>1, BeginConfigKeeps DEF MayBegin, Op, Subject
  <2>2. CASE op \in {"forward", "unforward"}
    BY <1>3, <2>2, ConfigAssumption, BeginConfigKeeps DEF MayBegin, Op, Subject
  <2>3. CASE op \in {"set", "unset"}
    BY <1>3, <2>3, BeginConfigKeeps DEF MayBegin, Op, Subject
  <2>4. CASE op = "destroy"
    BY <1>3, <2>4, BeginConfigKeeps DEF MayBegin, Op, Subject
  <2> QED
    BY <1>3, <2>1, <2>2, <2>3, <2>4
<1>4. ASSUME NEW q \in ConfigRequest,
             \/ JailIsGone(q) \/ DestroyJail(q) \/ CreateJail(q) \/ CreateMountsVolume(q)
             \/ CreateReadsConf(q) \/ CreateWritesConf(q)
      PROVE  ConfigInv'
  BY <1>4, FitStepKeeps, JailIsGoneFits, DestroyJailFits, CreateJailFits, CreateMountsVolumeFits,
     CreateReadsConfFits, CreateWritesConfFits
<1>5. ASSUME NEW q \in ConfigRequest,
             \/ MakePoint(q) \/ MountNull(q) \/ RemovePoint(q) \/ ReadFstab(q) \/ WriteFstab(q)
             \/ MountProc(q) \/ ReadForRemoval(q) \/ RemoveLines(q) \/ Unmount(q)
      PROVE  ConfigInv'
  BY <1>5, FitStepKeeps, MakePointFits, MountNullFits, RemovePointFits, ReadFstabFits, WriteFstabFits,
     MountProcFits, ReadForRemovalFits, RemoveLinesFits, UnmountFits
<1>6. ASSUME NEW q \in ConfigRequest,
             \/ AddRule(q) \/ ListRules(q) \/ ClearRules(q) \/ ReplayRule(q)
             \/ SetSetting(q) \/ ReadSettings(q) \/ UnsetSetting(q)
      PROVE  ConfigInv'
  BY <1>6, FitStepKeeps, AddRuleFits, ListRulesFits, ClearRulesFits, ReplayRuleFits,
     SetSettingFits, ReadSettingsFits, UnsetSettingFits
<1>7. CASE ConfigCrash
  BY <1>7, ConfigCrashKeeps
<1> QED
  BY <1>1, <1>2, <1>3, <1>4, <1>5, <1>6, <1>7 DEF ConfigNext

\* What the invariant says of the answers: they are kept but in the windows.
LEMMA ConfigInvHolds == ConfigInv => ConfigTypeOK /\ JailConfigHolds
<1> SUFFICES ASSUME ConfigInv PROVE JailConfigHolds
  BY DEF ConfigInv
<1>1. FstabKeepsPromises
  <2> SUFFICES ASSUME "fstab" \notin clashed \cup torn
               PROVE  /\ wanted.fstab \subseteq fstab
                      /\ fstab \subseteq wanted.fstab \cup Under("mount")
                                         \cup UNION {AtPoint(e[1]) : e \in Under("unmount")}
    BY DEF FstabKeepsPromises
  <2>1. CASE WorkOn("fstab") = {}
    BY <2>1 DEF ConfigInv, FstabInv
  <2>2. ASSUME NEW q \in WorkOn("fstab")
        PROVE  /\ wanted.fstab \subseteq fstab
               /\ fstab \subseteq wanted.fstab \cup Under("mount")
                                  \cup UNION {AtPoint(e[1]) : e \in Under("unmount")}
    <3>1. FstabFits(q) /\ RequestFits(q) /\ q \in ConfigRequest /\ creq[q].pc # "idle"
      BY DEF ConfigInv, FstabInv, WorkOn
    <3>2. CASE creq[q].op = "mount"
      <4>1. creq[q].of \subseteq Under("mount")
        BY <3>1, <3>2 DEF Under
      <4> QED
        BY <3>1, <3>2, <4>1 DEF FstabFits
    <3>3. CASE creq[q].op = "unmount"
      <4>1. About(q) \in Under("unmount")
        BY <3>1, <3>3, AboutIs DEF Under
      <4>2. AtPoint(About(q)[1]) \subseteq UNION {AtPoint(e[1]) : e \in Under("unmount")}
        BY <4>1
      <4>3. wanted.fstab = fstab \ AtPoint(About(q)[1])
        BY <3>1, <3>3 DEF FstabFits
      <4> QED
        BY <4>2, <4>3
    <3>4. CASE creq[q].op \notin {"mount", "unmount"}
      BY <3>1, <3>4 DEF FstabFits
    <3> QED
      BY <3>2, <3>3, <3>4
  <2> QED
    BY <2>1, <2>2
<1>2. RulesKeepPromises
  BY DEF RulesKeepPromises, ConfigInv, RulesInv, WorkOn
<1>3. ConfKeepsPromises
  BY DEF ConfKeepsPromises, ConfigInv, ConfInv
<1> QED
  BY <1>1, <1>2, <1>3 DEF JailConfigHolds

----------------------------------------------------------------------------
(* The archives.                                                           *)

\* Where a request is and what it has found out.
ZipPlaces == {"idle", "begun", "write", "close", "rename", "drop", "read", "look", "answered"}
ZipRequests ==
    [op : ZipOp, pc : ZipPlaces, nr : 0..MaxZipOps, of : ZipName \cup Jail \cup {"none"}, ends : 0..MaxEndings,
     inode : 0..MaxZipOps, before : SUBSET Jail, result : Jail \cup {"none", "ok", "error"}]
Exports == [jail : Jail, by : ZipRequest \cup {"none", "orphan"}]

\* ArchivesTypeOK, with the fields of the requests together; commands are left behind
\* only in the window.
ArchivesTyped ==
    /\ files \in [Named -> 0..MaxZipOps]
    /\ writers \in [Inode -> SUBSET Inode] /\ finished \subseteq Inode
    /\ zreq \in [ZipRequest -> ZipRequests] /\ exports \in Seq(Exports)
    /\ jails \subseteq Jail /\ orphans \subseteq Jail /\ zipOps \in 0..MaxZipOps
    /\ good \subseteq Asked /\ crossed \subseteq ZipName \cup {"jails"}
    /\ "jails" \notin crossed => orphans = {}

\* A request that is under way, and one that has an archive open.
Active(q) == zreq[q].pc \notin {"idle", "answered"}
HasOpen(q) == zreq[q].op \in {"zip", "upload"} /\ zreq[q].pc \in {"write", "close", "rename", "drop"}

\* What the operations are about, and where they can be.
ZipRequestFits(q) ==
    /\ IF zreq[q].pc = "idle" THEN zreq[q].nr = 0 ELSE zreq[q].nr \in 1..zipOps
    /\ zreq[q].pc # "idle" /\ zreq[q].op \in {"zip", "upload", "restore"} => Of(q) \in ZipName
    /\ zreq[q].pc # "idle" /\ zreq[q].op \in {"export", "import", "clone"} => Of(q) \in Jail
    /\ HasOpen(q) => zreq[q].inode \in 1..zipOps

\* Two requests are under way at the same place only if it is in the window.
AloneAtPlace ==
    \A q, o \in ZipRequest :
        q # o /\ Active(q) /\ Active(o) =>
            Places(zreq[q].op, Of(q)) \cap Places(zreq[o].op, Of(o)) \subseteq crossed

\* An inode has one name, and who has it open works on that name; the number of a
\* request that has not opened its file is not in use.
InodesAreApart ==
    /\ \A f \in Named : files[f] <= zipOps
    /\ \A f, g \in Named : files[f] # 0 /\ files[f] = files[g] => f = g
    /\ \A f \in Named, q \in ZipRequest : HasOpen(q) /\ files[f] = zreq[q].inode => f[1] = Of(q)
    /\ \A q, o \in ZipRequest : HasOpen(q) /\ HasOpen(o) /\ zreq[q].inode = zreq[o].inode => Of(q) = Of(o)
NumbersAreFresh ==
    /\ \A q, o \in ZipRequest : zreq[q].pc # "idle" /\ zreq[q].nr = zreq[o].nr => q = o
    /\ \A q \in ZipRequest : zreq[q].pc = "begun" =>
         /\ \A f \in Named : files[f] # zreq[q].nr
         /\ \A o \in ZipRequest : HasOpen(o) => zreq[o].inode # zreq[q].nr

\* The archive that a request alone at its name is making.
ArchiveFits(q) ==
    LET i == zreq[q].inode
    IN  HasOpen(q) /\ Of(q) \notin crossed =>
          /\ WrittenName(q) \notin good
          /\ zreq[q].pc \in {"write", "close", "rename"} => files[WrittenName(q)] = i
          /\ zreq[q].pc = "write" => writers[i] = {}
          /\ zreq[q].pc \in {"close", "rename"} => writers[i] = {zreq[q].nr}
          /\ zreq[q].pc = "rename" => i \in finished

\* What was answered of the name, with any endings.
GoodAtName(q) == \A f \in good : f[1] = Of(q) /\ f[1] \notin crossed => files[f] # 0 /\ Whole(files[f])

\* What an export alone has written, and what an import alone has found.
OpenExports == {i \in 1..Len(exports) : exports[i].by # "none"}
ExportFits(q) ==
    /\ ZipAt(q, "export", "write") => \E i \in OpenExports : exports[i].by = q
    /\ ZipAt(q, "export", "look") => \E i \in 1..Len(exports) : exports[i].by = "none"
    /\ "jails" \notin crossed =>
         /\ ZipAt(q, "export", "look") => OpenExports = {} /\ exports[Len(exports)].jail = Of(q)
         /\ ZipAt(q, "import", "write") => jails \subseteq zreq[q].before
         /\ ZipAt(q, "import", "look") => jails \subseteq zreq[q].before \cup {Of(q)}
OpenExportsFit ==
    "jails" \notin crossed =>
        \A i \in OpenExports :
            /\ exports[i].by \in ZipRequest
            /\ ZipAt(exports[i].by, "export", "write") /\ exports[i].jail = Of(exports[i].by)
            /\ \A j \in OpenExports : exports[i].by = exports[j].by => i = j

ArchivesInv ==
    /\ ArchivesTyped /\ \A q \in ZipRequest : ZipRequestFits(q)
    /\ AloneAtPlace /\ InodesAreApart /\ NumbersAreFresh
    /\ \A q \in ZipRequest : ArchiveFits(q)
    /\ GoodArchivesStay
    /\ \A q \in ZipRequest : ExportFits(q)
    /\ OpenExportsFit /\ AnswersAreOwn

\* A step of a request goes on or answers, and leaves the other requests alone.
ZipSteps(q) ==
    /\ zreq[q].pc # "idle" /\ zreq' \in [ZipRequest -> ZipRequests]
    /\ zipOps' = zipOps /\ crossed' = crossed
    /\ \A o \in ZipRequest \ {q} : zreq'[o] = zreq[o]
    /\ zreq'[q].pc # "begun" /\ (Active(q)' => Active(q))
    /\ zreq'[q].pc # "idle" =>
         /\ zreq'[q].op = zreq[q].op /\ zreq'[q].of = zreq[q].of /\ zreq'[q].ends = zreq[q].ends
         /\ zreq'[q].nr = zreq[q].nr
    /\ zreq'[q].pc = "idle" => zreq'[q].nr = 0
    /\ HasOpen(q)' => zreq'[q].inode \in 1..zipOps

\* The names of a request are among those there are, and have the same name without endings.
LEMMA NamesFit ==
    ASSUME NEW q \in ZipRequest, zreq[q] \in ZipRequests, Of(q) \in ZipName
    PROVE  /\ DstOf(q) \in Asked /\ DstOf(q) \in Named /\ TmpOf(q) \in Named /\ WrittenName(q) \in Named
           /\ DstOf(q)[1] = Of(q) /\ TmpOf(q)[1] = Of(q) /\ WrittenName(q)[1] = Of(q) /\ DstOf(q) # TmpOf(q)
           /\ Replaced(q) = WrittenName(q)
<1>1. zreq[q].ends \in 0..MaxEndings /\ MaxEndings \in Nat
  BY ArchivesAssumption DEF ZipRequests
<1>2. zreq[q].ends \in 0..(MaxEndings + 1) /\ zreq[q].ends + 1 \in 0..(MaxEndings + 1)
  BY <1>1
<1> QED
  BY <1>1, <1>2 DEF Asked, Named, DstOf, TmpOf, WrittenName, Replaced

\* What a request can ask for is a name.
LEMMA AskedIsNamed == \A f \in Asked : f \in Named /\ f[1] \in ZipName
<1>1. 0..MaxEndings \subseteq 0..(MaxEndings + 1)
  BY ArchivesAssumption
<1> QED
  BY <1>1 DEF Asked, Named

\* A request of the archives is one of a name, the others are of the jails.
LEMMA ZipStepFits ==
    ASSUME ArchivesInv, NEW q \in ZipRequest, ZipSteps(q)
    PROVE  (\A o \in ZipRequest : ZipRequestFits(o)') /\ AloneAtPlace'
<1>1. ASSUME NEW o \in ZipRequest PROVE ZipRequestFits(o)'
  BY DEF ArchivesInv, ZipRequestFits, ZipSteps, Of, HasOpen
<1>2. ASSUME NEW o \in ZipRequest, Active(o)'
      PROVE  Active(o) /\ Places(zreq[o].op, Of(o))' = Places(zreq[o].op, Of(o))
  BY <1>2 DEF ZipSteps, Active, Of, Places
<1>3. AloneAtPlace'
  BY <1>2 DEF ArchivesInv, AloneAtPlace, ZipSteps
<1> QED
  BY <1>1, <1>3

\* Requests that write no archive.
LEMMA FilesElsewhere ==
    ASSUME ArchivesInv, NEW q \in ZipRequest, ZipSteps(q), UNCHANGED <<files, writers, finished, good>>,
           ~HasOpen(q)'
    PROVE  InodesAreApart' /\ NumbersAreFresh' /\ (\A o \in ZipRequest : ArchiveFits(o)') /\ GoodArchivesStay'
<1>1. \A o \in ZipRequest : HasOpen(o)' => o # q /\ HasOpen(o) /\ Of(o)' = Of(o) /\ zreq'[o] = zreq[o]
  BY DEF ZipSteps, HasOpen, Of
<1>2. InodesAreApart'
  BY <1>1 DEF ArchivesInv, InodesAreApart, ZipSteps
<1>3. NumbersAreFresh'
  <2>1. ASSUME NEW o \in ZipRequest, zreq'[o].pc # "idle"
        PROVE  zreq[o].pc # "idle" /\ zreq'[o].nr = zreq[o].nr /\ zreq[o].nr \in 1..zipOps
               /\ (zreq'[o].pc = "begun" => zreq[o].pc = "begun")
    BY <2>1 DEF ArchivesInv, ZipSteps, ZipRequestFits
  <2>2. ASSUME NEW o \in ZipRequest PROVE zreq'[o].nr = zreq[o].nr \/ zreq'[o].nr = 0
    BY DEF ZipSteps
  <2> QED
    BY <1>1, <2>1, <2>2 DEF ArchivesInv, NumbersAreFresh
<1>4. ASSUME NEW o \in ZipRequest PROVE ArchiveFits(o)'
  <2>1. SUFFICES ASSUME HasOpen(o)' PROVE ArchiveFits(o)'
    BY DEF ArchiveFits
  <2>2. o # q /\ HasOpen(o) /\ Of(o)' = Of(o) /\ zreq'[o] = zreq[o] /\ WrittenName(o)' = WrittenName(o)
    BY <1>1, <2>1 DEF WrittenName, DstOf, TmpOf
  <2> QED
    BY <2>2 DEF ArchivesInv, ArchiveFits, ZipSteps
<1>5. GoodArchivesStay'
  BY DEF ArchivesInv, GoodArchivesStay, Whole, ZipSteps
<1> QED
  BY <1>2, <1>3, <1>4, <1>5

\* Requests that have nothing to do with the jails.
LEMMA JailsElsewhere ==
    ASSUME ArchivesInv, NEW q \in ZipRequest, ZipSteps(q), UNCHANGED <<exports, jails>>,
           zreq[q].op \in {"zip", "upload", "restore"} \/ (zreq[q].pc = "answered" /\ zreq'[q].pc = "idle")
    PROVE  (\A o \in ZipRequest : ExportFits(o)') /\ OpenExportsFit' /\ AnswersAreOwn'
<1>1. ASSUME NEW o \in ZipRequest, NEW op \in {"export", "import"}, NEW pc \in {"write", "look", "answered"},
             ZipAt(o, op, pc)'
      PROVE  ZipAt(o, op, pc) /\ zreq'[o] = zreq[o]
  BY <1>1 DEF ZipSteps, ZipAt
<1>2. ASSUME NEW o \in ZipRequest PROVE ExportFits(o)'
  BY <1>1 DEF ArchivesInv, ExportFits, OpenExports, ZipSteps, Of
<1>3. OpenExportsFit'
  <2>1. ASSUME NEW o \in ZipRequest, ZipAt(o, "export", "write")
        PROVE  ZipAt(o, "export", "write")' /\ Of(o)' = Of(o)
    BY <2>1 DEF ZipSteps, ZipAt, Of
  <2> QED
    BY <2>1 DEF ArchivesInv, OpenExportsFit, OpenExports, ZipSteps
<1>4. AnswersAreOwn'
  BY <1>1 DEF ArchivesInv, AnswersAreOwn, ZipSteps, Of, ZipAt
<1> QED
  BY <1>2, <1>3, <1>4

\* What the ways a request goes on do to it.
LEMMA AnswerSteps ==
    ASSUME zreq \in [ZipRequest -> ZipRequests], NEW q \in ZipRequest, Active(q),
           zipOps' = zipOps, crossed' = crossed,
           NEW result \in Jail \cup {"none", "ok", "error"}, Answer(q, result)
    PROVE  /\ ZipSteps(q) /\ zreq'[q].pc = "answered" /\ zreq'[q].op = zreq[q].op /\ Of(q)' = Of(q)
           /\ zreq'[q].result = result /\ ~HasOpen(q)' /\ zreq'[q].ends = zreq[q].ends
<1>1. PICK r \in ZipRequests : r = [zreq[q] EXCEPT !.pc = "answered", !.result = result]
  BY DEF ZipRequests, ZipPlaces
<1>2. /\ r.pc = "answered" /\ r.result = result /\ r.op = zreq[q].op /\ r.of = zreq[q].of /\ r.ends = zreq[q].ends /\ r.nr = zreq[q].nr
  BY <1>1 DEF ZipRequests
<1>3. zreq' = [zreq EXCEPT ![q] = r]
  BY <1>1 DEF Answer
<1> QED
  BY <1>2, <1>3 DEF ZipSteps, Active, HasOpen, Of

\* A request goes on.
LEMMA GoesSteps ==
    ASSUME zreq \in [ZipRequest -> ZipRequests], NEW q \in ZipRequest, Active(q),
           zipOps' = zipOps, crossed' = crossed, ZipRequestFits(q),
           NEW pc \in {"write", "close", "rename", "drop", "look"}, ZipGoes(q, pc),
           zreq[q].op \in {"zip", "upload"} => HasOpen(q)
    PROVE  /\ ZipSteps(q) /\ zreq'[q].pc = pc /\ zreq'[q].op = zreq[q].op /\ Of(q)' = Of(q)
           /\ zreq'[q].inode = zreq[q].inode /\ zreq'[q].nr = zreq[q].nr /\ zreq'[q].before = zreq[q].before
           /\ zreq'[q].ends = zreq[q].ends
<1>1. PICK r \in ZipRequests : r = [zreq[q] EXCEPT !.pc = pc]
  BY DEF ZipRequests, ZipPlaces
<1>2. /\ r.pc = pc /\ r.op = zreq[q].op /\ r.of = zreq[q].of /\ r.ends = zreq[q].ends /\ r.nr = zreq[q].nr
      /\ r.inode = zreq[q].inode /\ r.before = zreq[q].before
  BY <1>1 DEF ZipRequests
<1>3. zreq' = [zreq EXCEPT ![q] = r]
  BY <1>1 DEF ZipGoes
<1> QED
  BY <1>2, <1>3 DEF ZipSteps, Active, HasOpen, Of, ZipRequestFits

\* A request that works on the files of its name, and on one inode that only they and
\* those at the same name know, leaves the other names as they are.
LEMMA FilesAtName ==
    ASSUME ArchivesInv, NEW q \in ZipRequest, ZipSteps(q), zreq[q].op \in {"zip", "upload"}, Active(q),
           Of(q)' = Of(q),
           NEW i \in Inode,
           \A f \in Named : f[1] # Of(q) => files'[f] = files[f] /\ files[f] # i,
           \A o \in ZipRequest \ {q} : HasOpen(o) /\ zreq[o].inode = i => Of(o) = Of(q),
           \A k \in Inode \ {i} : writers'[k] = writers[k] /\ (k \in finished' <=> k \in finished),
           \A f \in Named : f[1] # Of(q) => (f \in good' <=> f \in good),
           good' \subseteq Asked,
           ArchiveFits(q)', GoodAtName(q)'
    PROVE  (\A o \in ZipRequest : ArchiveFits(o)') /\ GoodArchivesStay'
<1>1. ASSUME NEW o \in ZipRequest \ {q}, HasOpen(o)', Of(o)' \notin crossed' PROVE ArchiveFits(o)'
  <2>1. /\ zreq'[o] = zreq[o] /\ Of(o)' = Of(o) /\ HasOpen(o) /\ WrittenName(o)' = WrittenName(o)
        /\ Of(o) \notin crossed /\ zreq[o].op \in {"zip", "upload"} /\ Active(o)
    BY <1>1 DEF ZipSteps, Of, HasOpen, WrittenName, DstOf, TmpOf, Active
  <2>2. Of(o) # Of(q)
    BY <2>1 DEF ArchivesInv, AloneAtPlace, Places
  <2>3. /\ Of(o) \in ZipName /\ zreq[o].inode \in 1..zipOps /\ zreq[o].inode # i
        /\ WrittenName(o) \in Named /\ WrittenName(o)[1] # Of(q)
    <3>1. Of(o) \in ZipName /\ zreq[o].inode \in 1..zipOps /\ zreq[o].inode # i /\ zreq[o] \in ZipRequests
      BY <2>1, <2>2 DEF ArchivesInv, ArchivesTyped, ZipRequestFits, Active
    <3> QED
      BY <2>2, <3>1, NamesFit
  <2>4. zreq[o].inode \in Inode \ {i}
    BY <2>3, ArchivesAssumption DEF ArchivesInv, ArchivesTyped, Inode
  <2>5. ArchiveFits(o)
    BY DEF ArchivesInv
  <2> QED
    BY <2>1, <2>2, <2>3, <2>4, <2>5 DEF ArchiveFits
<1>2. ASSUME NEW f \in good', f[1] \notin crossed', f[1] # Of(q)
      PROVE  files'[f] # 0 /\ Whole(files[f])'
  <2>1. f \in good /\ f[1] \notin crossed /\ f \in Named
    BY <1>2, AskedIsNamed DEF ZipSteps
  <2>2. files[f] # 0 /\ Whole(files[f])
    BY <2>1 DEF ArchivesInv, GoodArchivesStay
  <2>3. files'[f] = files[f] /\ files[f] # i
    BY <1>2, <2>1
  <2>4. files[f] \in Inode \ {i}
    BY <2>1, <2>2, <2>3 DEF ArchivesInv, ArchivesTyped, Inode
  <2> QED
    BY <2>2, <2>3, <2>4 DEF Whole
<1>3. GoodArchivesStay'
  BY <1>2 DEF GoodArchivesStay, GoodAtName, ZipSteps, Of
<1> QED
  BY <1>1, <1>3 DEF ArchiveFits

\* A request of the archives steps: the parts that are about the files remain to be shown.
LEMMA ZipStepKeeps ==
    ASSUME ArchivesInv, NEW q \in ZipRequest, ZipSteps(q), ArchivesTyped',
           zreq[q].op \in {"zip", "upload", "restore"} \/ (zreq[q].pc = "answered" /\ zreq'[q].pc = "idle"),
           UNCHANGED <<exports, jails>>,
           InodesAreApart', NumbersAreFresh', \A o \in ZipRequest : ArchiveFits(o)', GoodArchivesStay'
    PROVE  ArchivesInv'
BY ZipStepFits, JailsElsewhere DEF ArchivesInv

\* A request of the jails steps.
LEMMA JailStepKeeps ==
    ASSUME ArchivesInv, NEW q \in ZipRequest, ZipSteps(q), ArchivesTyped',
           zreq[q].op \notin {"zip", "upload"}, UNCHANGED <<files, writers, finished, good>>,
           \A o \in ZipRequest : ExportFits(o)', OpenExportsFit', AnswersAreOwn'
    PROVE  ArchivesInv'
<1>1. ~HasOpen(q)'
  BY DEF ZipSteps, HasOpen
<1> QED
  BY <1>1, ZipStepFits, FilesElsewhere DEF ArchivesInv

\* The file is opened: an inode that is there is truncated, or a new one is made.
LEMMA OpenArchiveKeeps == ASSUME ArchivesInv, NEW q \in ZipRequest, OpenArchive(q) PROVE ArchivesInv'
<1> DEFINE file == WrittenName(q)
           i == IF files[file] # 0 THEN files[file] ELSE zreq[q].nr
<1>1. /\ zreq[q].op \in {"zip", "upload"} /\ zreq[q].pc = "begun" /\ Active(q) /\ ~HasOpen(q)
      /\ Of(q) \in ZipName /\ zreq[q].nr \in 1..zipOps /\ zreq \in [ZipRequest -> ZipRequests]
      /\ file \in Named /\ file[1] = Of(q)
  <2>1. /\ zreq[q].op \in {"zip", "upload"} /\ zreq[q].pc = "begun" /\ Active(q) /\ ~HasOpen(q)
        /\ Of(q) \in ZipName /\ zreq[q].nr \in 1..zipOps /\ zreq \in [ZipRequest -> ZipRequests]
    BY DEF OpenArchive, Active, HasOpen, ArchivesInv, ArchivesTyped, ZipRequestFits
  <2> QED
    BY <2>1, NamesFit
<1>2. CASE Answer(q, "error") /\ UNCHANGED <<zipFiles, good>>
  <2>1. ZipSteps(q) /\ ~HasOpen(q)'
    BY <1>1, <1>2, AnswerSteps DEF OpenArchive
  <2>2. ArchivesTyped'
    BY <1>2, <2>1 DEF ArchivesInv, ArchivesTyped, ZipSteps, OpenArchive, zipFiles, jailFiles
  <2> QED
    BY <1>1, <1>2, <2>1, <2>2, FilesElsewhere, ZipStepKeeps DEF OpenArchive, zipFiles, jailFiles
<1>3. CASE OpenToWrite(q, file) /\ good' = good \ {Replaced(q)}
  <2>0. good' = good \ {file}
    BY <1>1, <1>3, NamesFit
  <2>1. /\ i \in 1..zipOps /\ i \in Inode
        /\ files' = [files EXCEPT ![file] = i] /\ writers' = [writers EXCEPT ![i] = {}]
        /\ finished' = finished \ {i}
        /\ zreq' = [zreq EXCEPT ![q].pc = "write", ![q].inode = i]
    <3>1. files[file] \in 0..MaxZipOps /\ files[file] <= zipOps /\ zipOps \in 0..MaxZipOps
      BY <1>1 DEF ArchivesInv, ArchivesTyped, InodesAreApart
    <3>2. i \in 1..zipOps /\ i \in Inode
      BY <1>1, <3>1, ArchivesAssumption DEF Inode
    <3> QED
      BY <1>3, <3>2 DEF OpenToWrite
  <2>2. /\ ZipSteps(q) /\ HasOpen(q)' /\ zreq'[q].inode = i /\ zreq'[q].pc = "write"
        /\ zreq'[q].op = zreq[q].op
        /\ Of(q)' = Of(q) /\ WrittenName(q)' = file
    <3>1. PICK r \in ZipRequests : r = [zreq[q] EXCEPT !.pc = "write", !.inode = i]
      BY <1>1, <2>1 DEF ZipRequests, ZipPlaces, ArchivesInv, ArchivesTyped
    <3>2. r.pc = "write" /\ r.inode = i /\ r.op = zreq[q].op /\ r.of = zreq[q].of /\ r.ends = zreq[q].ends /\ r.nr = zreq[q].nr
      BY <1>1, <3>1 DEF ZipRequests
    <3>3. zreq' = [zreq EXCEPT ![q] = r]
      BY <2>1, <3>1
    <3> QED
      BY <1>1, <2>1, <3>2, <3>3 DEF ZipSteps, OpenArchive, HasOpen, Active, Of, WrittenName, DstOf, TmpOf
  <2>3. ArchivesTyped'
    BY <1>1, <2>0, <2>1, <2>2 DEF ArchivesInv, ArchivesTyped, ZipSteps, OpenArchive, jailFiles, Inode
  <2>4. \A o \in ZipRequest \ {q} : zreq'[o] = zreq[o] /\ (HasOpen(o)' <=> HasOpen(o)) /\ Of(o)' = Of(o)
    BY <2>2 DEF ZipSteps, HasOpen, Of
  <2>5. /\ \A f \in Named : files[f] = i => f = file
        /\ \A o \in ZipRequest \ {q} : HasOpen(o) /\ zreq[o].inode = i => Of(o) = Of(q)
    BY <1>1 DEF ArchivesInv, InodesAreApart, NumbersAreFresh
  <2>6. InodesAreApart'
    BY <1>1, <2>1, <2>2, <2>4, <2>5 DEF ArchivesInv, ArchivesTyped, InodesAreApart, ZipSteps
  <2>7. NumbersAreFresh'
    BY <1>1, <2>1, <2>2, <2>4 DEF ArchivesInv, ArchivesTyped, NumbersAreFresh, ZipSteps
  <2>8. ArchiveFits(q)'
    BY <1>1, <2>0, <2>1, <2>2 DEF ArchivesInv, ArchivesTyped, ArchiveFits
  <2>9. GoodAtName(q)'
    <3> HIDE DEF i
    <3> SUFFICES ASSUME NEW f \in good', f[1] \notin crossed' PROVE files'[f] # 0 /\ Whole(files[f])'
      BY DEF GoodAtName
    <3>1. f \in good /\ f[1] \notin crossed /\ f # file /\ f \in Named
      BY <2>0, <2>2, AskedIsNamed DEF ArchivesInv, ArchivesTyped, ZipSteps
    <3>2. files[f] # 0 /\ Whole(files[f])
      BY <3>1 DEF ArchivesInv, GoodArchivesStay
    <3>3. files'[f] = files[f] /\ files[f] # i
      BY <2>1, <2>5, <3>1 DEF ArchivesInv, ArchivesTyped
    <3>4. files[f] \in Inode
      BY <3>1, <3>2, ArchivesAssumption DEF ArchivesInv, ArchivesTyped, Inode
    <3> QED
      BY <2>1, <2>2, <3>2, <3>3, <3>4 DEF Whole, ArchivesInv, ArchivesTyped
  <2>10. (\A o \in ZipRequest : ArchiveFits(o)') /\ GoodArchivesStay'
    <3>1. \A f \in Named : f[1] # Of(q) => files'[f] = files[f] /\ files[f] # i
      BY <1>1, <2>1, <2>5 DEF ArchivesInv, ArchivesTyped
    <3>2. \A k \in Inode \ {i} : writers'[k] = writers[k] /\ (k \in finished' <=> k \in finished)
      BY <2>1 DEF ArchivesInv, ArchivesTyped
    <3>3. good' \subseteq Asked /\ \A f \in Named : f[1] # Of(q) => (f \in good' <=> f \in good)
      BY <1>1, <2>0 DEF ArchivesInv, ArchivesTyped
    <3> HIDE DEF i
    <3> QED
      BY <1>1, <2>1, <2>2, <2>5, <2>8, <2>9, <3>1, <3>2, <3>3, FilesAtName
  <2> QED
    BY <1>1, <2>2, <2>3, <2>6, <2>7, <2>10, ZipStepKeeps DEF OpenArchive, jailFiles
<1> QED
  BY <1>2, <1>3 DEF OpenArchive

\* What is known of a request that has its archive open.
LEMMA OpenSays ==
    ASSUME ArchivesInv, NEW q \in ZipRequest, HasOpen(q)
    PROVE  /\ zreq \in [ZipRequest -> ZipRequests] /\ ZipRequestFits(q) /\ Active(q) /\ Of(q) \in ZipName
           /\ zreq[q].inode \in 1..zipOps /\ zreq[q].inode \in Inode /\ zreq[q].nr \in Inode
           /\ WrittenName(q) \in Named /\ WrittenName(q)[1] = Of(q)
           /\ DstOf(q) \in Asked /\ DstOf(q) \in Named /\ DstOf(q)[1] = Of(q)
           /\ TmpOf(q) \in Named /\ TmpOf(q)[1] = Of(q) /\ DstOf(q) # TmpOf(q)
           /\ \A f \in Named : f[1] # Of(q) => files[f] # zreq[q].inode
           /\ \A o \in ZipRequest \ {q} : HasOpen(o) /\ zreq[o].inode = zreq[q].inode => Of(o) = Of(q)
<1>1. zreq \in [ZipRequest -> ZipRequests] /\ ZipRequestFits(q) /\ Active(q) /\ zreq[q].pc # "idle"
  BY DEF ArchivesInv, ArchivesTyped, HasOpen, Active
<1>2. Of(q) \in ZipName /\ zreq[q].inode \in 1..zipOps /\ zreq[q].nr \in 1..zipOps
  BY <1>1 DEF ZipRequestFits, HasOpen
<1>3. zreq[q].inode \in Inode /\ zreq[q].nr \in Inode
  BY <1>2, ArchivesAssumption DEF ArchivesInv, ArchivesTyped, Inode
<1>4. zreq[q] \in ZipRequests
  BY <1>1
<1> QED
  BY <1>1, <1>2, <1>3, <1>4, NamesFit DEF ArchivesInv, InodesAreApart

\* Steps that open nothing keep the inodes apart when what has a name had it before.
LEMMA InodesStayApart ==
    ASSUME ArchivesInv, NEW q \in ZipRequest, ZipSteps(q), Of(q)' = Of(q),
           HasOpen(q)' => HasOpen(q) /\ zreq'[q].inode = zreq[q].inode,
           files' \in [Named -> 0..MaxZipOps],
           \/ files' = files
           \/ \E f \in Named : files' = [files EXCEPT ![f] = 0]
           \/ \E d, t \in Named :
                d[1] = t[1] /\ d # t /\ files' = [files EXCEPT ![d] = files[t], ![t] = 0]
    PROVE  InodesAreApart' /\ NumbersAreFresh'
<1>1. ASSUME NEW o \in ZipRequest, HasOpen(o)'
      PROVE  HasOpen(o) /\ zreq'[o].inode = zreq[o].inode /\ Of(o)' = Of(o)
  BY <1>1 DEF ZipSteps, HasOpen, Of
<1>2. \A f \in Named :
        files'[f] # 0 =>
          \E g \in Named : g[1] = f[1] /\ files[g] = files'[f]
  <2>1. CASE files' = files \/ \E h \in Named : files' = [files EXCEPT ![h] = 0]
    BY <2>1 DEF ArchivesInv, ArchivesTyped
  <2>2. ASSUME NEW d \in Named, NEW t \in Named, NEW f \in Named, d[1] = t[1], d # t,
               files' = [files EXCEPT ![d] = files[t], ![t] = 0]
        PROVE  files'[f] # 0 => \E g \in Named : g[1] = f[1] /\ files[g] = files'[f]
    <3>1. files \in [Named -> 0..MaxZipOps]
      BY DEF ArchivesInv, ArchivesTyped
    <3>2. CASE f = d
      BY <2>2, <3>1, <3>2
    <3>3. CASE f # d
      BY <2>2, <3>1, <3>3
    <3> QED
      BY <3>2, <3>3
  <2> QED
    BY <2>1, <2>2
<1>3. \A f, g \in Named : files'[f] # 0 /\ files'[f] = files'[g] => f = g
  <2>1. CASE files' = files
    BY <2>1 DEF ArchivesInv, InodesAreApart
  <2>2. CASE \E h \in Named : files' = [files EXCEPT ![h] = 0]
    BY <2>2 DEF ArchivesInv, ArchivesTyped, InodesAreApart
  <2>3. ASSUME NEW d \in Named, NEW t \in Named, d # t,
               files' = [files EXCEPT ![d] = files[t], ![t] = 0]
        PROVE  \A f, g \in Named : files'[f] # 0 /\ files'[f] = files'[g] => f = g
    BY <2>3 DEF ArchivesInv, ArchivesTyped, InodesAreApart
  <2> QED
    BY <2>1, <2>2, <2>3
<1>4. zipOps \in Nat /\ \A f \in Named : files'[f] <= zipOps
  <2>1. zipOps \in Nat /\ \A f \in Named : files[f] <= zipOps
    BY ArchivesAssumption DEF ArchivesInv, ArchivesTyped, InodesAreApart
  <2>2. \A f \in Named : files'[f] # 0 => files'[f] <= zipOps
    BY <1>2, <2>1
  <2> QED
    BY <2>1, <2>2
<1>5. InodesAreApart'
  <2>1. \A f \in Named, o \in ZipRequest : HasOpen(o)' /\ files'[f] = zreq'[o].inode => f[1] = Of(o)'
    <3> SUFFICES ASSUME NEW f \in Named, NEW o \in ZipRequest, HasOpen(o)', files'[f] = zreq'[o].inode
                 PROVE  f[1] = Of(o)'
      OBVIOUS
    <3>1. files'[f] # 0
      BY <1>1 DEF ArchivesInv, ZipRequestFits
    <3>2. PICK g \in Named : g[1] = f[1] /\ files[g] = files'[f]
      BY <1>2, <3>1
    <3> QED
      BY <1>1, <3>2 DEF ArchivesInv, InodesAreApart
  <2>2. \A p, o \in ZipRequest :
          HasOpen(p)' /\ HasOpen(o)' /\ zreq'[p].inode = zreq'[o].inode => Of(p)' = Of(o)'
    BY <1>1 DEF ArchivesInv, InodesAreApart
  <2> QED
    BY <1>3, <1>4, <2>1, <2>2 DEF InodesAreApart, ZipSteps
<1>6. NumbersAreFresh'
  <2>1. ASSUME NEW o \in ZipRequest, zreq'[o].pc # "idle"
        PROVE  zreq[o].pc # "idle" /\ zreq'[o].nr = zreq[o].nr /\ zreq[o].nr \in 1..zipOps
               /\ (zreq'[o].pc = "begun" => zreq[o].pc = "begun")
    BY <2>1 DEF ArchivesInv, ZipSteps, ZipRequestFits
  <2>2. ASSUME NEW o \in ZipRequest PROVE zreq'[o].nr = zreq[o].nr \/ zreq'[o].nr = 0
    BY DEF ZipSteps
  <2>3. \A f \in Named, o \in ZipRequest : zreq'[o].pc = "begun" => files'[f] # zreq'[o].nr
    BY <1>2, <2>1 DEF ArchivesInv, NumbersAreFresh
  <2>4. \A p, o \in ZipRequest : zreq'[p].pc # "idle" /\ zreq'[p].nr = zreq'[o].nr => p = o
    BY <2>1, <2>2 DEF ArchivesInv, NumbersAreFresh
  <2> QED
    BY <1>1, <2>1, <2>3, <2>4 DEF ArchivesInv, NumbersAreFresh
<1> QED
  BY <1>5, <1>6

\* The rest of a step with an archive that is open.
LEMMA OpenStepKeeps ==
    ASSUME ArchivesInv, NEW q \in ZipRequest, HasOpen(q), ZipSteps(q), Of(q)' = Of(q), ArchivesTyped',
           UNCHANGED <<exports, jails>>, InodesAreApart', NumbersAreFresh',
           \A f \in Named : f[1] # Of(q) => files'[f] = files[f],
           \A k \in Inode \ {zreq[q].inode} : writers'[k] = writers[k] /\ (k \in finished' <=> k \in finished),
           \A f \in Named : f[1] # Of(q) => (f \in good' <=> f \in good),
           ArchiveFits(q)', GoodAtName(q)'
    PROVE  ArchivesInv'
<1>1. /\ zreq[q].op \in {"zip", "upload"} /\ Active(q) /\ zreq[q].inode \in Inode /\ good' \subseteq Asked
      /\ \A f \in Named : f[1] # Of(q) => files'[f] = files[f] /\ files[f] # zreq[q].inode
      /\ \A o \in ZipRequest \ {q} : HasOpen(o) /\ zreq[o].inode = zreq[q].inode => Of(o) = Of(q)
  BY OpenSays DEF HasOpen, ArchivesTyped
<1>2. (\A o \in ZipRequest : ArchiveFits(o)') /\ GoodArchivesStay'
  BY <1>1, FilesAtName
<1> QED
  BY <1>1, <1>2, ZipStepKeeps

\* The file that the request has open is not an archive that was answered.
LEMMA GoodElsewhere ==
    ASSUME ArchivesInv, NEW q \in ZipRequest, HasOpen(q), NEW f \in good, f[1] = Of(q), f[1] \notin crossed
    PROVE  /\ f # WrittenName(q) /\ f \in Named
           /\ files[f] # 0 /\ Whole(files[f]) /\ files[f] \in Inode
           /\ zreq[q].pc \in {"write", "close", "rename"} => files[f] # zreq[q].inode
<1>1. f # WrittenName(q)
  BY DEF ArchivesInv, ArchiveFits
<1>2. files[f] # 0 /\ Whole(files[f])
  BY DEF ArchivesInv, GoodArchivesStay
<1>3. f \in Named /\ files[f] \in Inode
  BY <1>2, AskedIsNamed, ArchivesAssumption DEF ArchivesInv, ArchivesTyped, Inode
<1>4. ASSUME zreq[q].pc \in {"write", "close", "rename"} PROVE files[f] # zreq[q].inode
  <2>1. files[WrittenName(q)] = zreq[q].inode /\ WrittenName(q) \in Named
    BY <1>4, OpenSays DEF ArchivesInv, ArchiveFits
  <2> QED
    BY <1>1, <1>2, <1>3, <2>1 DEF ArchivesInv, InodesAreApart
<1> QED
  BY <1>1, <1>2, <1>3, <1>4

\* Some of the content is copied.
LEMMA CopyContentKeeps == ASSUME ArchivesInv, NEW q \in ZipRequest, CopyContent(q) PROVE ArchivesInv'
<1> DEFINE i == zreq[q].inode
<1>1. HasOpen(q) /\ zreq[q].pc = "write"
  BY DEF CopyContent, HasOpen
<1>2. /\ ZipSteps(q) /\ zreq'[q].pc = "close" /\ zreq'[q].op = zreq[q].op /\ Of(q)' = Of(q)
      /\ zreq'[q].inode = i /\ zreq'[q].nr = zreq[q].nr /\ HasOpen(q)' /\ WrittenName(q)' = WrittenName(q)
  BY <1>1, OpenSays, GoesSteps DEF CopyContent, HasOpen, WrittenName, DstOf, TmpOf, zipHistory
<1>3. /\ writers' = [writers EXCEPT ![i] = @ \cup {zreq[q].nr}]
      /\ UNCHANGED <<files, finished, good, exports, jails, orphans, zipOps, crossed>>
  BY DEF CopyContent, jailFiles, zipHistory
<1>4. ArchivesTyped'
  BY <1>1, <1>2, <1>3, OpenSays DEF ArchivesInv, ArchivesTyped, ZipSteps
<1>5. InodesAreApart' /\ NumbersAreFresh'
  BY <1>1, <1>2, <1>3, <1>4, InodesStayApart DEF ArchivesTyped
<1>6. ArchiveFits(q)'
  BY <1>1, <1>2, <1>3, OpenSays DEF ArchivesInv, ArchivesTyped, ArchiveFits
<1>7. GoodAtName(q)'
  <2> SUFFICES ASSUME NEW f \in good, f[1] = Of(q), f[1] \notin crossed PROVE files'[f] # 0 /\ Whole(files[f])'
    BY <1>2, <1>3 DEF GoodAtName
  <2>1. files[f] # 0 /\ Whole(files[f]) /\ files[f] \in Inode /\ files[f] # i
    BY <1>1, GoodElsewhere
  <2> QED
    BY <1>3, <2>1 DEF ArchivesInv, ArchivesTyped, Whole
<1>8. \A k \in Inode \ {i} : writers'[k] = writers[k]
  BY <1>3, OpenSays DEF ArchivesInv, ArchivesTyped
<1> QED
  BY <1>1, <1>2, <1>3, <1>4, <1>5, <1>6, <1>7, <1>8, OpenStepKeeps

\* The rest is copied and the file closed: it is whole if nobody else has written to it.
LEMMA FillArchiveKeeps == ASSUME ArchivesInv, NEW q \in ZipRequest, FillArchive(q) PROVE ArchivesInv'
<1> DEFINE i == zreq[q].inode
<1>1. HasOpen(q) /\ zreq[q].pc = "close" /\ i \in Inode /\ zreq[q].op \in {"zip", "upload"}
  BY OpenSays DEF FillArchive, HasOpen
<1>2. /\ writers' = [writers EXCEPT ![i] = @ \cup {zreq[q].nr}]
      /\ UNCHANGED <<files, exports, jails, orphans, zipOps, crossed>>
  BY DEF FillArchive, jailFiles
<1>3. /\ ZipSteps(q) /\ Of(q)' = Of(q) /\ zreq'[q].op = zreq[q].op /\ zreq'[q].ends = zreq[q].ends
      /\ \/ /\ finished' = finished \cup {i} /\ zreq[q].op = "zip" /\ good' = good
            /\ zreq'[q].pc = "rename" /\ zreq'[q].inode = i /\ zreq'[q].nr = zreq[q].nr
         \/ /\ finished' = finished \cup {i} /\ zreq[q].op = "upload" /\ good' = good \cup {DstOf(q)}
            /\ ~HasOpen(q)'
         \/ /\ finished' = finished \ {i} /\ good' = good
            /\ zreq'[q].pc = "drop" /\ zreq'[q].inode = i /\ zreq'[q].nr = zreq[q].nr
  <2>1. CASE finished' = finished \cup {i} /\ zreq[q].op = "zip" /\ ZipGoes(q, "rename") /\ good' = good
    BY <1>1, <1>2, <2>1, OpenSays, GoesSteps
  <2>2. CASE /\ finished' = finished \cup {i} /\ zreq[q].op = "upload"
             /\ Answer(q, "ok") /\ good' = good \cup {DstOf(q)}
    BY <1>1, <1>2, <2>2, OpenSays, AnswerSteps
  <2>3. CASE ZipGoes(q, "drop") /\ finished' = finished \ {i} /\ good' = good
    BY <1>1, <1>2, <2>3, OpenSays, GoesSteps
  <2> QED
    BY <1>1, <2>1, <2>2, <2>3 DEF FillArchive
<1>4. ArchivesTyped'
  BY <1>1, <1>2, <1>3, OpenSays DEF ArchivesInv, ArchivesTyped, ZipSteps
<1>5. InodesAreApart' /\ NumbersAreFresh'
  <2>1. HasOpen(q)' => zreq'[q].inode = i
    BY <1>3
  <2> QED
    BY <1>1, <1>2, <1>3, <1>4, <2>1, InodesStayApart DEF ArchivesTyped
<1>6. Of(q) \notin crossed =>
        files[WrittenName(q)] = i /\ writers'[i] = {zreq[q].nr} /\ WrittenName(q) \notin good
  BY <1>1, <1>2 DEF ArchivesInv, ArchivesTyped, ArchiveFits
<1>7. ArchiveFits(q)'
  <2>1. WrittenName(q)' = WrittenName(q)
    BY <1>3 DEF WrittenName, DstOf, TmpOf
  <2>2. HasOpen(q)' => good' = good
    BY <1>3
  <2> QED
    BY <1>1, <1>2, <1>3, <1>6, <2>1, <2>2, OpenSays DEF ArchivesInv, ArchivesTyped, ArchiveFits
<1>8. GoodAtName(q)'
  <2> SUFFICES ASSUME NEW f \in good', f[1] = Of(q), f[1] \notin crossed
               PROVE  files'[f] # 0 /\ Whole(files[f])'
    BY <1>2, <1>3 DEF GoodAtName
  <2>1. CASE f \notin good
    <3>1. /\ f = DstOf(q) /\ zreq[q].op = "upload" /\ finished' = finished \cup {i}
          /\ f = WrittenName(q)
      BY <1>3, <2>1 DEF WrittenName
    <3>2. Cardinality({zreq[q].nr}) = 1
      BY FS_Singleton
    <3>3. i # 0
      BY <1>1 DEF Inode
    <3> QED
      BY <1>2, <1>6, <3>1, <3>2, <3>3 DEF Whole
  <2>2. CASE f \in good
    <3>1. files[f] # 0 /\ Whole(files[f]) /\ files[f] \in Inode /\ files[f] # i
      BY <1>1, <2>2, GoodElsewhere
    <3> QED
      BY <1>2, <1>3, <3>1 DEF Whole, ArchivesInv, ArchivesTyped
  <2> QED
    BY <2>1, <2>2
<1>9. /\ \A k \in Inode \ {i} : writers'[k] = writers[k] /\ (k \in finished' <=> k \in finished)
      /\ \A f \in Named : f[1] # Of(q) => (f \in good' <=> f \in good)
  BY <1>2, <1>3, OpenSays, <1>1 DEF ArchivesInv, ArchivesTyped
<1> QED
  BY <1>1, <1>2, <1>3, <1>4, <1>5, <1>7, <1>8, <1>9, OpenStepKeeps

\* The temporary file gets the name: it is the one that the request has filled.
LEMMA RenameArchiveKeeps == ASSUME ArchivesInv, NEW q \in ZipRequest, RenameArchive(q) PROVE ArchivesInv'
<1> DEFINE i == zreq[q].inode
           d == DstOf(q)
           m == TmpOf(q)
<1>1. HasOpen(q) /\ zreq[q].pc = "rename" /\ zreq[q].op = "zip" /\ i \in Inode /\ WrittenName(q) = m
  BY OpenSays DEF RenameArchive, ZipAt, HasOpen, WrittenName
<1>2. /\ d \in Asked /\ d \in Named /\ m \in Named /\ d[1] = Of(q) /\ m[1] = Of(q) /\ d # m /\ i # 0
  BY <1>1, OpenSays DEF Inode
<1>3. UNCHANGED <<writers, finished, exports, jails, orphans, zipOps, crossed>>
  BY DEF RenameArchive, jailFiles
<1>4. /\ ZipSteps(q) /\ Of(q)' = Of(q) /\ zreq'[q].op = "zip" /\ zreq'[q].ends = zreq[q].ends
      /\ \/ /\ files' = [files EXCEPT ![d] = files[m], ![m] = 0]
            /\ good' = good \cup {d} /\ ~HasOpen(q)'
         \/ files' = files /\ good' = good /\ zreq'[q].pc = "drop" /\ zreq'[q].inode = i
  <2>1. CASE /\ files' = [files EXCEPT ![d] = files[m], ![m] = 0]
             /\ Answer(q, "ok") /\ good' = good \cup {d}
    BY <1>1, <1>3, <2>1, OpenSays, AnswerSteps
  <2>2. CASE ZipGoes(q, "drop") /\ UNCHANGED <<files, good>>
    BY <1>1, <1>3, <2>2, OpenSays, GoesSteps
  <2> QED
    BY <2>1, <2>2 DEF RenameArchive
<1>5. ArchivesTyped'
  <2>0. 0 \in 0..MaxZipOps /\ files \in [Named -> 0..MaxZipOps]
    BY ArchivesAssumption DEF ArchivesInv, ArchivesTyped
  <2>1. files' \in [Named -> 0..MaxZipOps]
    <3> HIDE DEF d, m, i
    <3> QED
      BY <1>2, <1>4, <2>0
  <2>2. good' \subseteq Asked
    BY <1>2, <1>4 DEF ArchivesInv, ArchivesTyped
  <2> QED
    BY <1>3, <1>4, <2>1, <2>2 DEF ArchivesInv, ArchivesTyped, ZipSteps
<1>6. InodesAreApart' /\ NumbersAreFresh'
  <2>1. HasOpen(q)' => zreq'[q].inode = i
    BY <1>4
  <2> QED
    BY <1>1, <1>2, <1>4, <1>5, <2>1, InodesStayApart DEF ArchivesTyped
<1>7. ArchiveFits(q)'
  <2>1. HasOpen(q)' => /\ good' = good /\ zreq'[q].pc = "drop"
                        /\ WrittenName(q)' = WrittenName(q) /\ crossed' = crossed
    BY <1>1, <1>3, <1>4 DEF WrittenName, TmpOf
  <2> QED
    BY <1>1, <1>4, <2>1 DEF ArchivesInv, ArchiveFits
<1>8. GoodAtName(q)'
  <2> SUFFICES ASSUME NEW f \in good', f[1] = Of(q), f[1] \notin crossed
               PROVE  files'[f] # 0 /\ Whole(files[f])'
    BY <1>3, <1>4 DEF GoodAtName
  <2>1. CASE files' = files /\ good' = good
    BY <1>1, <1>3, <2>1, GoodElsewhere DEF Whole
  <2>2. CASE files' = [files EXCEPT ![d] = files[m], ![m] = 0] /\ good' = good \cup {d}
    <3>1. files[m] = i /\ writers[i] = {zreq[q].nr} /\ i \in finished /\ files \in [Named -> 0..MaxZipOps]
      BY <1>1 DEF ArchivesInv, ArchivesTyped, ArchiveFits
    <3>2. CASE f = d
      <4>1. files'[f] = i
        BY <1>2, <2>2, <3>1, <3>2
      <4>2. Cardinality({zreq[q].nr}) = 1
        BY FS_Singleton
      <4> QED
        BY <1>2, <1>3, <3>1, <4>1, <4>2 DEF Whole
    <3>3. CASE f # d
      <4>1. f # m /\ files[f] # 0 /\ Whole(files[f])
        BY <1>1, <2>2, <3>3, GoodElsewhere
      <4>2. f \in Named
        BY <1>1, <2>2, <3>3, GoodElsewhere
      <4>3. files'[f] = files[f]
        BY <1>2, <2>2, <3>1, <3>3, <4>1, <4>2
      <4> QED
        BY <1>3, <4>1, <4>3 DEF Whole
    <3> QED
      BY <3>2, <3>3
  <2> QED
    BY <1>4, <2>1, <2>2
<1>9. /\ \A f \in Named : f[1] # Of(q) => files'[f] = files[f]
      /\ \A f \in Named : f[1] # Of(q) => (f \in good' <=> f \in good)
  BY <1>2, <1>4 DEF ArchivesInv, ArchivesTyped
<1> HIDE DEF d, m, i
<1> QED
  BY <1>1, <1>3, <1>4, <1>5, <1>6, <1>7, <1>8, <1>9, OpenStepKeeps DEF i

\* What failed is removed, which an archive that was answered is not.
LEMMA DropArchiveKeeps == ASSUME ArchivesInv, NEW q \in ZipRequest, DropArchive(q) PROVE ArchivesInv'
<1>1. HasOpen(q) /\ zreq[q].pc = "drop"
  BY DEF DropArchive, HasOpen
<1>2. /\ files' = [files EXCEPT ![WrittenName(q)] = 0]
      /\ UNCHANGED <<writers, finished, exports, jails, orphans, zipOps, good, crossed>>
  BY DEF DropArchive, jailFiles, zipHistory
<1>3. ZipSteps(q) /\ Of(q)' = Of(q) /\ ~HasOpen(q)'
  BY <1>1, <1>2, OpenSays, AnswerSteps DEF DropArchive
<1>4. ArchivesTyped'
  <2>1. 0 \in 0..MaxZipOps
    BY ArchivesAssumption
  <2> QED
    BY <1>1, <1>2, <1>3, <2>1, OpenSays DEF ArchivesInv, ArchivesTyped, ZipSteps
<1>5. InodesAreApart' /\ NumbersAreFresh'
  BY <1>1, <1>2, <1>3, <1>4, OpenSays, InodesStayApart DEF ArchivesTyped
<1>6. ArchiveFits(q)'
  BY <1>3 DEF ArchiveFits
<1>7. GoodAtName(q)'
  <2> SUFFICES ASSUME NEW f \in good, f[1] = Of(q), f[1] \notin crossed PROVE files'[f] # 0 /\ Whole(files[f])'
    BY <1>2, <1>3 DEF GoodAtName
  <2>1. files[f] # 0 /\ Whole(files[f]) /\ f \in Named /\ f # WrittenName(q)
    BY <1>1, GoodElsewhere
  <2>2. files'[f] = files[f]
    BY <1>1, <1>2, <2>1, OpenSays DEF ArchivesInv, ArchivesTyped
  <2> QED
    BY <1>2, <2>1, <2>2 DEF Whole
<1>8. \A f \in Named : f[1] # Of(q) => files'[f] = files[f]
  BY <1>1, <1>2, OpenSays DEF ArchivesInv, ArchivesTyped
<1> QED
  BY <1>1, <1>2, <1>3, <1>4, <1>5, <1>6, <1>7, <1>8, OpenStepKeeps

\* Requests that only read, and answers that are given.
LEMMA OpenToReadKeeps == ASSUME ArchivesInv, NEW q \in ZipRequest, OpenToRead(q) PROVE ArchivesInv'
<1>1. /\ zreq[q].op = "restore" /\ Active(q) /\ zreq[q].pc = "begun" /\ zreq \in [ZipRequest -> ZipRequests]
      /\ ZipRequestFits(q) /\ DstOf(q) \in Named
      /\ UNCHANGED <<files, writers, finished, exports, jails, orphans, zipOps, good, crossed>>
  <2>1. /\ zreq[q].op = "restore" /\ Active(q) /\ zreq[q].pc = "begun" /\ zreq \in [ZipRequest -> ZipRequests]
        /\ ZipRequestFits(q) /\ Of(q) \in ZipName
    BY DEF OpenToRead, ZipAt, Active, ArchivesInv, ArchivesTyped, ZipRequestFits
  <2> QED
    BY <2>1, NamesFit DEF OpenToRead, zipFiles, jailFiles, zipHistory
<1>2. ZipSteps(q) /\ ~HasOpen(q)'
  <2>1. CASE Answer(q, "error")
    BY <1>1, <2>1, AnswerSteps
  <2>2. CASE zreq' = [zreq EXCEPT ![q].pc = "read", ![q].inode = files[DstOf(q)]]
    <3>1. files[DstOf(q)] \in 0..MaxZipOps
      BY <1>1 DEF ArchivesInv, ArchivesTyped
    <3>2. PICK r \in ZipRequests : r = [zreq[q] EXCEPT !.pc = "read", !.inode = files[DstOf(q)]]
      BY <1>1, <3>1 DEF ZipRequests, ZipPlaces
    <3>3. r.pc = "read" /\ r.op = zreq[q].op /\ r.of = zreq[q].of /\ r.ends = zreq[q].ends /\ r.nr = zreq[q].nr
      BY <1>1, <3>2 DEF ZipRequests
    <3>4. zreq' = [zreq EXCEPT ![q] = r]
      BY <2>2, <3>2
    <3> QED
      BY <1>1, <3>3, <3>4 DEF ZipSteps, HasOpen, Active
  <2> QED
    BY <2>1, <2>2 DEF OpenToRead
<1>3. ArchivesTyped'
  BY <1>1, <1>2 DEF ArchivesInv, ArchivesTyped, ZipSteps
<1> QED
  BY <1>1, <1>2, <1>3, FilesElsewhere, ZipStepKeeps

\* A restore ends; an archive that is not whole fails it.
LEMMA RestoreKeeps == ASSUME ArchivesInv, NEW q \in ZipRequest, Restore(q) PROVE ArchivesInv'
<1>1. /\ zreq[q].op = "restore" /\ Active(q) /\ zreq \in [ZipRequest -> ZipRequests]
      /\ UNCHANGED <<files, writers, finished, exports, jails, orphans, zipOps, good, crossed>>
  BY DEF Restore, ZipAt, Active, ArchivesInv, ArchivesTyped, zipFiles, jailFiles, zipHistory
<1>2. ZipSteps(q) /\ ~HasOpen(q)'
  BY <1>1, AnswerSteps DEF Restore
<1>3. ArchivesTyped'
  BY <1>1, <1>2 DEF ArchivesInv, ArchivesTyped, ZipSteps
<1> QED
  BY <1>1, <1>2, <1>3, FilesElsewhere, ZipStepKeeps

\* A request that is free again.
LEMMA FreeIsRequest == ArchivesInv => ZipFree \in ZipRequests
<1>1. ASSUME ArchivesInv PROVE 0 \in 0..MaxZipOps /\ 0 \in 0..MaxEndings
  BY ArchivesAssumption
<1> QED
  BY <1>1 DEF ZipFree, ZipRequests, ZipPlaces, ZipOp

\* The answer is taken and the request is over.
LEMMA EndZipKeeps == ASSUME ArchivesInv, NEW q \in ZipRequest, EndZip(q) PROVE ArchivesInv'
<1>1. /\ zreq[q].pc = "answered" /\ zreq \in [ZipRequest -> ZipRequests]
      /\ zreq' = [zreq EXCEPT ![q] = ZipFree]
      /\ UNCHANGED <<files, writers, finished, exports, jails, orphans, zipOps, good, crossed>>
  BY DEF EndZip, ArchivesInv, ArchivesTyped, zipFiles, jailFiles, zipHistory
<1>2. ZipSteps(q) /\ ~HasOpen(q)' /\ zreq'[q].pc = "idle"
  BY <1>1, FreeIsRequest DEF ZipSteps, HasOpen, Active, ZipFree
<1>3. ArchivesTyped'
  BY <1>1, <1>2 DEF ArchivesInv, ArchivesTyped, ZipSteps
<1> QED
  BY <1>1, <1>2, <1>3, FilesElsewhere, ZipStepKeeps

\* A request begins: its number is new, and where another is under way there is the window.
LEMMA BeginZipKeeps ==
    ASSUME ArchivesInv, NEW q \in ZipRequest, NEW op \in ZipOp, NEW of \in ZipName \cup Jail,
           NEW ends \in 0..MaxEndings,
           op \in {"zip", "upload", "restore"} => of \in ZipName,
           op \in {"export", "import", "clone"} => of \in Jail,
           BeginZip(q, op, of, ends)
    PROVE  ArchivesInv'
<1> DEFINE met == UNION {Places(op, of) \cap Places(zreq[o].op, Of(o)) :
                          o \in {o \in ZipRequest : zreq[o].pc \notin {"idle", "answered"}}}
<1>1. /\ zreq[q].pc = "idle" /\ zipOps \in Nat /\ zipOps < MaxZipOps /\ zipOps' = zipOps + 1
      /\ zreq \in [ZipRequest -> ZipRequests] /\ crossed' = crossed \cup met
      /\ UNCHANGED <<files, writers, finished, exports, jails, orphans, good>>
  BY DEF BeginZip, ArchivesInv, ArchivesTyped, zipFiles, jailFiles
<1>2. zipOps + 1 \in 0..MaxZipOps /\ zipOps + 1 \in 1..zipOps'
  BY <1>1, ArchivesAssumption
<1>3. PICK r \in ZipRequests :
        r = [ZipFree EXCEPT !.op = op, !.pc = "begun", !.nr = zipOps + 1, !.of = of, !.ends = ends]
  BY <1>2, FreeIsRequest DEF ZipRequests, ZipPlaces
<1>4. r.pc = "begun" /\ r.op = op /\ r.of = of /\ r.nr = zipOps + 1
  BY <1>3, FreeIsRequest DEF ZipRequests, ZipFree
<1>5. zreq' = [zreq EXCEPT ![q] = r] /\ zreq' \in [ZipRequest -> ZipRequests]
  BY <1>1, <1>3 DEF BeginZip
<1>6. /\ zreq'[q].pc = "begun" /\ zreq'[q].op = op /\ Of(q)' = of /\ zreq'[q].nr = zipOps + 1 /\ ~HasOpen(q)'
      /\ \A o \in ZipRequest \ {q} : zreq'[o] = zreq[o] /\ (HasOpen(o)' <=> HasOpen(o)) /\ Of(o)' = Of(o)
  BY <1>1, <1>4, <1>5 DEF HasOpen, Of
<1>7. met \subseteq ZipName \cup {"jails"}
  BY DEF Places
<1>8. ArchivesTyped'
  BY <1>1, <1>2, <1>5, <1>7 DEF ArchivesInv, ArchivesTyped
<1>9. ASSUME NEW o \in ZipRequest PROVE ZipRequestFits(o)'
  <2>1. CASE o = q
    BY <1>2, <1>6, <2>1 DEF ZipRequestFits, Of
  <2>2. CASE o # q
    BY <1>1, <1>2, <1>6, <2>2 DEF ArchivesInv, ZipRequestFits
  <2> QED
    BY <2>1, <2>2
<1>10. AloneAtPlace'
  <2>1. ASSUME NEW o \in ZipRequest \ {q}, Active(o)'
        PROVE  Places(op, of) \cap Places(zreq[o].op, Of(o)) \subseteq crossed'
    BY <1>1, <1>6, <2>1 DEF Active
  <2>2. ASSUME NEW p \in ZipRequest \ {q}, NEW o \in ZipRequest \ {q}, p # o, Active(p)', Active(o)'
        PROVE  Places(zreq[p].op, Of(p)) \cap Places(zreq[o].op, Of(o)) \subseteq crossed'
    BY <1>1, <1>6, <2>2 DEF ArchivesInv, AloneAtPlace, Active
  <2> HIDE DEF met
  <2> QED
    BY <1>6, <2>1, <2>2 DEF AloneAtPlace, Active, Of, Places
<1>11. InodesAreApart'
  BY <1>1, <1>6 DEF ArchivesInv, ArchivesTyped, InodesAreApart
<1>12. NumbersAreFresh'
  <2>1. ASSUME NEW o \in ZipRequest \ {q}
        PROVE  zreq[o].nr \in Nat /\ (zreq[o].pc # "idle" => zreq[o].nr \in 1..zipOps)
               /\ (HasOpen(o) => zreq[o].inode \in 1..zipOps)
    BY <1>1 DEF ArchivesInv, ZipRequestFits, ZipRequests
  <2>2. \A o \in ZipRequest \ {q} : zreq[o].pc # "idle" => zreq[o].nr # zipOps + 1
    BY <1>1, <2>1
  <2>3. \A f \in Named : files[f] # zipOps + 1
    BY <1>1 DEF ArchivesInv, ArchivesTyped, InodesAreApart
  <2>4. \A o \in ZipRequest \ {q} : HasOpen(o) => zreq[o].inode # zipOps + 1
    BY <1>1, <2>1
  <2>5. \A o \in ZipRequest \ {q} : zreq[o].nr # zipOps + 1
    <3>1. \A o \in ZipRequest \ {q} : zreq[o].pc = "idle" => zreq[o].nr = 0
      BY DEF ArchivesInv, ZipRequestFits
    <3> QED
      BY <1>1, <2>2, <3>1
  <2> QED
    BY <1>1, <1>6, <2>1, <2>2, <2>3, <2>4, <2>5 DEF ArchivesInv, NumbersAreFresh
<1>13. ASSUME NEW o \in ZipRequest PROVE ArchiveFits(o)'
  BY <1>1, <1>6 DEF ArchivesInv, ArchiveFits, WrittenName, DstOf, TmpOf, Of, HasOpen
<1>14. GoodArchivesStay'
  BY <1>1 DEF ArchivesInv, GoodArchivesStay, Whole
<1>15. ASSUME NEW o \in ZipRequest PROVE ExportFits(o)'
  BY <1>1, <1>6 DEF ArchivesInv, ExportFits, OpenExports, ZipAt
<1>16. OpenExportsFit'
  <2>1. \A o \in ZipRequest : ZipAt(o, "export", "write") => ZipAt(o, "export", "write")' /\ Of(o)' = Of(o)
    BY <1>1, <1>6 DEF ZipAt
  <2>2. "jails" \notin crossed => \A i \in OpenExports : exports[i].by \in ZipRequest
    BY DEF ArchivesInv, OpenExportsFit
  <2>3. OpenExports' = OpenExports
    BY <1>1 DEF OpenExports
  <2> HIDE DEF met
  <2> QED
    BY <1>1, <2>1, <2>2, <2>3 DEF ArchivesInv, OpenExportsFit
<1>17. AnswersAreOwn'
  BY <1>1, <1>6 DEF ArchivesInv, AnswersAreOwn
<1> QED
  BY <1>8, <1>9, <1>10, <1>11, <1>12, <1>13, <1>14, <1>15, <1>16, <1>17 DEF ArchivesInv

----------------------------------------------------------------------------
(* The jails and their exports.                                            *)

\* Outside the window a request of the jails is the only one.
LEMMA AloneAtJails ==
    ASSUME ArchivesInv, NEW q \in ZipRequest, zreq[q].op \in {"export", "import", "clone"}, Active(q),
           "jails" \notin crossed, NEW o \in ZipRequest \ {q}, Active(o)
    PROVE  zreq[o].op \in {"zip", "upload", "restore"}
<1>1. zreq[o] \in ZipRequests
  BY DEF ArchivesInv, ArchivesTyped
<1> QED
  BY <1>1 DEF ArchivesInv, AloneAtPlace, Places, ZipRequests, ZipOp

\* What is known of a request of the jails.
LEMMA JailSays ==
    ASSUME ArchivesInv, NEW q \in ZipRequest, zreq[q].op \in {"export", "import", "clone"}, Active(q)
    PROVE  zreq \in [ZipRequest -> ZipRequests] /\ ZipRequestFits(q) /\ Of(q) \in Jail /\ zreq[q].pc # "idle"
BY DEF ArchivesInv, ArchivesTyped, ZipRequestFits, Active

\* Of the others only answers are at the jails, outside the window.
LEMMA OthersAtJails ==
    ASSUME ArchivesInv, NEW q \in ZipRequest, zreq[q].op \in {"export", "import", "clone"}, Active(q),
           ZipSteps(q),
           NEW o \in ZipRequest \ {q}
    PROVE  /\ zreq'[o] = zreq[o] /\ Of(o)' = Of(o)
           /\ "jails" \notin crossed' =>
                /\ ~ZipAt(o, "export", "write")' /\ ~ZipAt(o, "export", "look")'
                /\ ~ZipAt(o, "import", "write")' /\ ~ZipAt(o, "import", "look")'
BY AloneAtJails DEF ZipSteps, ZipAt, Of, Active

\* A request that ends with an answer, or goes on, without changing an export.
LEMMA ExportsStay ==
    ASSUME ArchivesInv, NEW q \in ZipRequest, zreq[q].op \in {"import", "clone", "export"}, Active(q),
           ZipSteps(q),
           exports' = exports, zreq'[q].op = zreq[q].op, Of(q)' = Of(q),
           ~ZipAt(q, "export", "write"), ~ZipAt(q, "export", "write")', ~ZipAt(q, "export", "look")',
           "jails" \notin crossed =>
             /\ ZipAt(q, "import", "write")' => jails' \subseteq zreq'[q].before
             /\ ZipAt(q, "import", "look")' => jails' \subseteq zreq'[q].before \cup {Of(q)}
             /\ zreq'[q].pc = "answered" /\ zreq[q].op \in {"export", "import"} =>
                  zreq'[q].result \in {Of(q), "error"}
    PROVE  (\A o \in ZipRequest : ExportFits(o)') /\ OpenExportsFit' /\ AnswersAreOwn'
<1>1. OpenExports' = OpenExports /\ crossed' = crossed
  BY DEF OpenExports, ZipSteps
<1>2. ASSUME NEW o \in ZipRequest PROVE ExportFits(o)'
  <2>1. CASE o = q
    BY <1>1, <2>1 DEF ExportFits
  <2>2. CASE o # q
    <3>1. zreq'[o] = zreq[o]
      BY <2>2 DEF ZipSteps
    <3>2. ExportFits(o)
      BY DEF ArchivesInv
    <3> QED
      BY <1>1, <2>2, <3>1, <3>2, OthersAtJails DEF ExportFits, ZipAt
  <2> QED
    BY <2>1, <2>2
<1>3. OpenExportsFit'
  <2>2. "jails" \notin crossed => \A i \in OpenExports : exports[i].by \in ZipRequest
    BY DEF ArchivesInv, OpenExportsFit
  <2>3. \A o \in ZipRequest : ZipAt(o, "export", "write") => ZipAt(o, "export", "write")' /\ Of(o)' = Of(o)
    BY DEF ZipSteps, ZipAt, Of
  <2> QED
    BY <1>1, <2>2, <2>3 DEF ArchivesInv, OpenExportsFit
<1>4. AnswersAreOwn'
  <2> SUFFICES ASSUME "jails" \notin crossed, NEW o \in ZipRequest, zreq'[o].pc = "answered",
                      zreq'[o].op \in {"export", "import"}
               PROVE  zreq'[o].result \in {Of(o)', "error"}
    BY <1>1 DEF AnswersAreOwn
  <2>1. CASE o # q
    BY <2>1 DEF ArchivesInv, AnswersAreOwn, ZipSteps, Of
  <2> QED
    BY <2>1
<1> QED
  BY <1>2, <1>3, <1>4

\* The newest export that is there is answered: its own, outside the window.
LEMMA LookForExportKeeps == ASSUME ArchivesInv, NEW q \in ZipRequest, LookForExport(q) PROVE ArchivesInv'
<1>1. /\ ZipAt(q, "export", "look") /\ zreq[q].op = "export" /\ Active(q)
      /\ UNCHANGED <<files, writers, finished, exports, jails, orphans, zipOps, good, crossed>>
  BY DEF LookForExport, ZipAt, Active, zipFiles, jailFiles, zipHistory
<1>2. /\ \A i \in 1..Len(exports) : exports[i] \in Exports
      /\ ExportFits(q) /\ Len(exports) \in Nat
  BY DEF ArchivesInv, ArchivesTyped
<1>3. PICK i \in 1..Len(exports) :
        Answer(q, exports[i].jail) /\ ("jails" \notin crossed => exports[i].jail = Of(q))
  <2>1. PICK i \in NewestExport : Answer(q, exports[i].jail)
    BY DEF LookForExport
  <2>2. PICK k \in 1..Len(exports) : exports[k].by = "none"
    BY <1>1, <1>2 DEF ExportFits
  <2>3. CASE OpenExports = {}
    BY <1>1, <1>2, <2>1, <2>2, <2>3 DEF NewestExport, OpenExports, ExportFits
  <2>4. CASE OpenExports # {}
    BY <1>1, <1>2, <2>1, <2>4 DEF NewestExport, OpenExports, ExportFits
  <2> QED
    BY <2>3, <2>4
<1>4. exports[i].jail \in Jail
  BY <1>2 DEF Exports
<1>5. /\ ZipSteps(q) /\ zreq'[q].pc = "answered" /\ zreq'[q].op = zreq[q].op /\ Of(q)' = Of(q)
      /\ zreq'[q].result = exports[i].jail
  BY <1>1, <1>3, <1>4, JailSays, AnswerSteps
<1>6. ArchivesTyped'
  BY <1>1, <1>5 DEF ArchivesInv, ArchivesTyped, ZipSteps
<1>7. (\A o \in ZipRequest : ExportFits(o)') /\ OpenExportsFit' /\ AnswersAreOwn'
  BY <1>1, <1>3, <1>5, ExportsStay DEF ZipAt
<1> QED
  BY <1>1, <1>5, <1>6, <1>7, JailStepKeeps

\* An import notes the jails there are before it.
LEMMA ListJailsKeeps == ASSUME ArchivesInv, NEW q \in ZipRequest, ListJails(q) PROVE ArchivesInv'
<1>1. /\ zreq[q].op = "import" /\ zreq[q].pc = "begun" /\ Active(q) /\ zreq \in [ZipRequest -> ZipRequests]
      /\ UNCHANGED <<files, writers, finished, exports, jails, orphans, zipOps, good, crossed>> /\ jails \subseteq Jail
  BY DEF ListJails, ZipAt, Active, zipFiles, jailFiles, zipHistory, ArchivesInv, ArchivesTyped
<1>2. PICK r \in ZipRequests : r = [zreq[q] EXCEPT !.pc = "write", !.before = jails]
  BY <1>1 DEF ZipRequests, ZipPlaces
<1>3. r.pc = "write" /\ r.before = jails /\ r.op = zreq[q].op /\ r.of = zreq[q].of /\ r.ends = zreq[q].ends /\ r.nr = zreq[q].nr
  BY <1>1, <1>2 DEF ZipRequests
<1>4. zreq' = [zreq EXCEPT ![q] = r]
  BY <1>2 DEF ListJails
<1>5. /\ ZipSteps(q) /\ zreq'[q].pc = "write" /\ zreq'[q].op = zreq[q].op /\ Of(q)' = Of(q)
      /\ zreq'[q].before = jails
  BY <1>1, <1>3, <1>4 DEF ZipSteps, Active, HasOpen, Of
<1>6. ArchivesTyped'
  BY <1>1, <1>5 DEF ArchivesInv, ArchivesTyped, ZipSteps
<1>7. (\A o \in ZipRequest : ExportFits(o)') /\ OpenExportsFit' /\ AnswersAreOwn'
  BY <1>1, <1>5, ExportsStay DEF ZipAt
<1> QED
  BY <1>1, <1>5, <1>6, <1>7, JailStepKeeps

\* bastille import makes the jail, or fails.
LEMMA ImportJailKeeps == ASSUME ArchivesInv, NEW q \in ZipRequest, ImportJail(q) PROVE ArchivesInv'
<1>1. /\ zreq[q].op = "import" /\ zreq[q].pc = "write" /\ Active(q) /\ ExportFits(q)
      /\ UNCHANGED <<files, writers, finished, exports, orphans, zipOps, good, crossed>>
      /\ "jails" \notin crossed => jails \subseteq zreq[q].before
  BY DEF ImportJail, ZipAt, Active, zipFiles, zipHistory, ArchivesInv, ExportFits
<1>2. zreq \in [ZipRequest -> ZipRequests] /\ ZipRequestFits(q) /\ Of(q) \in Jail
  BY <1>1, JailSays
<1>3. CASE jails' = jails \cup {Of(q)} /\ ZipGoes(q, "look")
  <2>1. /\ ZipSteps(q) /\ zreq'[q].pc = "look" /\ zreq'[q].op = zreq[q].op /\ Of(q)' = Of(q)
        /\ zreq'[q].before = zreq[q].before
    BY <1>1, <1>2, <1>3, GoesSteps
  <2>2. ArchivesTyped'
    BY <1>1, <1>2, <1>3, <2>1 DEF ArchivesInv, ArchivesTyped, ZipSteps
  <2>3. (\A o \in ZipRequest : ExportFits(o)') /\ OpenExportsFit' /\ AnswersAreOwn'
    BY <1>1, <1>3, <2>1, ExportsStay DEF ZipAt
  <2> QED
    BY <1>1, <2>1, <2>2, <2>3, JailStepKeeps
<1>4. CASE Answer(q, "error") /\ UNCHANGED jails
  <2>1. /\ ZipSteps(q) /\ zreq'[q].pc = "answered" /\ zreq'[q].op = zreq[q].op /\ Of(q)' = Of(q)
        /\ zreq'[q].result = "error"
    BY <1>1, <1>2, <1>4, AnswerSteps
  <2>2. ArchivesTyped'
    BY <1>1, <1>4, <2>1 DEF ArchivesInv, ArchivesTyped, ZipSteps
  <2>3. (\A o \in ZipRequest : ExportFits(o)') /\ OpenExportsFit' /\ AnswersAreOwn'
    BY <1>1, <1>4, <2>1, ExportsStay DEF ZipAt
  <2> QED
    BY <1>1, <2>1, <2>2, <2>3, JailStepKeeps
<1> QED
  BY <1>3, <1>4 DEF ImportJail

\* A jail that was not there before is answered: its own, outside the window.
LEMMA LookForJailKeeps == ASSUME ArchivesInv, NEW q \in ZipRequest, LookForJail(q) PROVE ArchivesInv'
<1>1. /\ zreq[q].op = "import" /\ zreq[q].pc = "look" /\ Active(q) /\ jails \subseteq Jail
      /\ UNCHANGED <<files, writers, finished, exports, jails, orphans, zipOps, good, crossed>>
      /\ "jails" \notin crossed => jails \subseteq zreq[q].before \cup {Of(q)}
  BY DEF LookForJail, ZipAt, Active, zipFiles, jailFiles, zipHistory, ArchivesInv, ArchivesTyped, ExportFits
<1>2. PICK j \in NewJails(q) : Answer(q, j)
  BY DEF LookForJail
<1>3. j \in Jail /\ ("jails" \notin crossed => j = Of(q))
  BY <1>1 DEF NewJails
<1>4. /\ ZipSteps(q) /\ zreq'[q].pc = "answered" /\ zreq'[q].op = zreq[q].op /\ Of(q)' = Of(q)
      /\ zreq'[q].result = j
  BY <1>1, <1>2, <1>3, JailSays, AnswerSteps
<1>5. ArchivesTyped'
  BY <1>1, <1>4 DEF ArchivesInv, ArchivesTyped, ZipSteps
<1>6. (\A o \in ZipRequest : ExportFits(o)') /\ OpenExportsFit' /\ AnswersAreOwn'
  BY <1>1, <1>3, <1>4, ExportsStay DEF ZipAt
<1> QED
  BY <1>1, <1>4, <1>5, <1>6, JailStepKeeps

\* bastille clone makes a jail, or fails.
LEMMA CloneJailKeeps == ASSUME ArchivesInv, NEW q \in ZipRequest, CloneJail(q) PROVE ArchivesInv'
<1>1. /\ zreq[q].op = "clone" /\ zreq[q].pc = "begun" /\ Active(q)
      /\ UNCHANGED <<files, writers, finished, exports, orphans, zipOps, good, crossed>>
  BY DEF CloneJail, ZipAt, Active, zipFiles, zipHistory
<1>2. zreq \in [ZipRequest -> ZipRequests] /\ Of(q) \in Jail
  BY <1>1, JailSays
<1>3. ZipSteps(q) /\ zreq'[q].pc = "answered" /\ zreq'[q].op = zreq[q].op /\ Of(q)' = Of(q)
  BY <1>1, <1>2, AnswerSteps DEF CloneJail
<1>4. ArchivesTyped'
  BY <1>1, <1>2, <1>3 DEF ArchivesInv, ArchivesTyped, ZipSteps, CloneJail
<1>5. (\A o \in ZipRequest : ExportFits(o)') /\ OpenExportsFit' /\ AnswersAreOwn'
  BY <1>1, <1>3, ExportsStay DEF ZipAt
<1> QED
  BY <1>1, <1>3, <1>4, <1>5, JailStepKeeps

\* A function on 1..n is a sequence.
LEMMA TupleIsSeq ==
    ASSUME NEW S, NEW n \in Nat, NEW s \in [1..n -> S] PROVE s \in Seq(S) /\ Len(s) = n
<1>1. s \in Seq(S)
  BY SeqDef
<1>2. DOMAIN s = 1..n /\ DOMAIN s = 1..Len(s) /\ Len(s) \in Nat
  BY <1>1, LenProperties
<1> QED
  BY <1>1, <1>2

\* What is known of an export at work.
LEMMA ExportSays ==
    ASSUME ArchivesInv
    PROVE  /\ exports \in Seq(Exports) /\ Len(exports) \in Nat
           /\ \A i \in 1..Len(exports) : exports[i] \in Exports
           /\ "jails" \notin crossed => \A i \in OpenExports : exports[i].by \in ZipRequest
           /\ \A q \in ZipRequest :
                zreq[q].op \in {"export", "import", "clone"} /\ Active(q) /\ "jails" \notin crossed =>
                  \A i \in OpenExports : exports[i].by = q
<1>1. /\ exports \in Seq(Exports) /\ Len(exports) \in Nat /\ \A i \in 1..Len(exports) : exports[i] \in Exports
  BY DEF ArchivesInv, ArchivesTyped
<1>2. "jails" \notin crossed => \A i \in OpenExports : exports[i].by \in ZipRequest
  BY DEF ArchivesInv, OpenExportsFit
<1>3. ASSUME NEW q \in ZipRequest, zreq[q].op \in {"export", "import", "clone"}, Active(q),
             "jails" \notin crossed, NEW i \in OpenExports
      PROVE  exports[i].by = q
  <2>1. ZipAt(exports[i].by, "export", "write")
    BY <1>3 DEF ArchivesInv, OpenExportsFit
  <2> QED
    BY <1>2, <1>3, <2>1, AloneAtJails DEF ZipAt, Active
<1> QED
  BY <1>1, <1>2, <1>3

\* bastille export makes its file, which is the newest.
LEMMA ExportJailKeeps == ASSUME ArchivesInv, NEW q \in ZipRequest, ExportJail(q) PROVE ArchivesInv'
<1> DEFINE n == Len(exports)
           e == [jail |-> Of(q), by |-> q]
<1>1. /\ zreq[q].op = "export" /\ zreq[q].pc = "begun" /\ Active(q) /\ ZipGoes(q, "write")
      /\ exports' = Append(exports, e)
      /\ UNCHANGED <<files, writers, finished, jails, orphans, zipOps, good, crossed>>
  BY DEF ExportJail, ZipAt, Active, zipFiles, zipHistory
<1>2. zreq \in [ZipRequest -> ZipRequests] /\ ZipRequestFits(q) /\ e \in Exports
  BY <1>1, JailSays DEF Exports
<1>3. ZipSteps(q) /\ zreq'[q].pc = "write" /\ zreq'[q].op = zreq[q].op /\ Of(q)' = Of(q)
  BY <1>1, <1>2, GoesSteps
<1>4. /\ exports' \in Seq(Exports) /\ Len(exports') = n + 1 /\ n \in Nat
      /\ exports'[n + 1] = e /\ \A i \in 1..n : exports'[i] = exports[i]
  <2> HIDE DEF e
  <2>1. exports \in Seq(Exports)
    BY DEF ArchivesInv, ArchivesTyped
  <2> QED
    BY <1>1, <1>2, <2>1, AppendProperties
<1>5. ArchivesTyped'
  BY <1>1, <1>3, <1>4 DEF ArchivesInv, ArchivesTyped, ZipSteps
<1>6. e.by = q /\ e.jail = Of(q) /\ q # "none"
  BY ArchivesAssumption
<1>7. OpenExports' = OpenExports \cup {n + 1}
  <2> HIDE DEF e
  <2>1. 1..(n + 1) = (1..n) \cup {n + 1}
    BY <1>4
  <2> QED
    BY <1>4, <1>6, <2>1 DEF OpenExports
<1> HIDE DEF e
<1>8. ASSUME NEW o \in ZipRequest PROVE ExportFits(o)'
  <2>1. CASE o = q
    <3>1. \E i \in OpenExports' : exports'[i].by = q
      BY <1>4, <1>6, <1>7
    <3> QED
      BY <1>1, <1>3, <2>1, <3>1 DEF ExportFits, ZipAt
  <2>2. CASE o # q
    <3>1. zreq'[o] = zreq[o] /\ ExportFits(o)
      BY <1>3, <2>2 DEF ZipSteps, ArchivesInv
    <3>2. ZipAt(o, "export", "write")' => \E i \in OpenExports' : exports'[i].by = o
      BY <1>4, <1>7, <3>1 DEF ExportFits, ZipAt, OpenExports
    <3>3. ZipAt(o, "export", "look")' => \E i \in 1..Len(exports') : exports'[i].by = "none"
      BY <1>4, <3>1 DEF ExportFits, ZipAt
    <3> QED
      BY <1>1, <1>3, <2>2, <3>2, <3>3, OthersAtJails DEF ExportFits
  <2> QED
    BY <2>1, <2>2
<1>9. OpenExportsFit'
  <2> SUFFICES ASSUME "jails" \notin crossed PROVE OpenExportsFit'
    BY <1>1 DEF OpenExportsFit
  <2>1. OpenExports = {}
    <3>1. \A i \in OpenExports : exports[i].by = q
      BY <1>1, ExportSays
    <3>2. \A i \in OpenExports : ZipAt(exports[i].by, "export", "write")
      BY DEF ArchivesInv, OpenExportsFit
    <3> QED
      BY <1>1, <3>1, <3>2 DEF ZipAt
  <2> QED
    BY <1>1, <1>3, <1>4, <1>6, <1>7, <2>1 DEF OpenExportsFit, ZipAt
<1>10. AnswersAreOwn'
  BY <1>1, <1>3 DEF ArchivesInv, AnswersAreOwn, ZipSteps, Of
<1> QED
  BY <1>1, <1>3, <1>5, <1>8, <1>9, <1>10, JailStepKeeps

\* An export ends: its entry is closed, at the end or where it was, or gone; those of the
\* others are where they can be found.
LEMMA ExportLeaves ==
    ASSUME ArchivesInv, NEW q \in ZipRequest, ZipAt(q, "export", "write"), ZipSteps(q),
           zreq'[q].op = zreq[q].op, Of(q)' = Of(q), zreq'[q].pc \in {"look", "answered"},
           NEW own \in 1..Len(exports), exports[own].by = q, jails' = jails,
           \A k \in 1..Len(exports) : k # own => \E i \in 1..Len(exports') : exports'[i] = exports[k],
           \A i \in 1..Len(exports') :
             exports'[i].by # "none" => \E k \in 1..Len(exports) : k # own /\ exports'[i] = exports[k],
           zreq'[q].pc = "answered" => zreq'[q].result = "error",
           zreq'[q].pc = "look" =>
             /\ Len(exports') \in 1..Len(exports')
             /\ exports'[Len(exports')] = [jail |-> exports[own].jail, by |-> "none"]
    PROVE  (\A o \in ZipRequest : ExportFits(o)') /\ OpenExportsFit' /\ AnswersAreOwn'
<1>1. zreq[q].op = "export" /\ zreq[q].pc = "write" /\ Active(q) /\ crossed' = crossed /\ q # "none"
  BY ArchivesAssumption DEF ZipAt, Active, ZipSteps
<1>2. ASSUME "jails" \notin crossed PROVE OpenExports' = {} /\ exports[own].jail = Of(q)
  <2>1. own \in OpenExports /\ \A k \in OpenExports : exports[k].by = q /\ k = own
    BY <1>1, <1>2, ExportSays DEF OpenExports, ArchivesInv, OpenExportsFit
  <2>2. exports[own].jail = Of(q)
    BY <1>2, <2>1 DEF ArchivesInv, OpenExportsFit
  <2> QED
    BY <2>1, <2>2 DEF OpenExports
<1>3. ASSUME NEW o \in ZipRequest PROVE ExportFits(o)'
  <2>1. CASE o = q
    <3>1. zreq'[q].pc = "look" => \E i \in 1..Len(exports') : exports'[i].by = "none"
      OBVIOUS
    <3>2. ASSUME zreq'[q].pc = "look", "jails" \notin crossed
          PROVE  OpenExports' = {} /\ exports'[Len(exports')].jail = Of(q)
      BY <1>2, <3>2
    <3> QED
      BY <1>1, <2>1, <3>1, <3>2 DEF ExportFits, ZipAt
  <2>2. CASE o # q
    <3>1. zreq'[o] = zreq[o] /\ ExportFits(o)
      BY <2>2 DEF ZipSteps, ArchivesInv
    <3>2. ASSUME ZipAt(o, "export", "write") PROVE \E i \in OpenExports' : exports'[i].by = o
      <4>1. PICK k \in OpenExports : exports[k].by = o
        BY <3>1, <3>2 DEF ExportFits
      <4>2. k \in 1..Len(exports) /\ k # own /\ exports[k].by # "none"
        BY <2>2, <4>1 DEF OpenExports
      <4>3. PICK i \in 1..Len(exports') : exports'[i] = exports[k]
        BY <4>2
      <4> QED
        BY <4>1, <4>2, <4>3 DEF OpenExports
    <3>3. ASSUME ZipAt(o, "export", "look") PROVE \E i \in 1..Len(exports') : exports'[i].by = "none"
      <4>1. PICK k \in 1..Len(exports) : exports[k].by = "none"
        BY <3>1, <3>3 DEF ExportFits
      <4> QED
        BY <1>1, <4>1
    <3> QED
      BY <1>1, <2>2, <3>1, <3>2, <3>3, OthersAtJails DEF ExportFits, ZipAt
  <2> QED
    BY <2>1, <2>2
<1>4. OpenExportsFit'
  BY <1>1, <1>2 DEF OpenExportsFit
<1>5. AnswersAreOwn'
  <2> SUFFICES ASSUME "jails" \notin crossed, NEW o \in ZipRequest, zreq'[o].pc = "answered",
                      zreq'[o].op \in {"export", "import"}
               PROVE  zreq'[o].result \in {Of(o)', "error"}
    BY <1>1 DEF AnswersAreOwn
  <2>1. CASE o # q
    BY <2>1 DEF ArchivesInv, AnswersAreOwn, ZipSteps, Of
  <2> QED
    BY <2>1
<1> QED
  BY <1>3, <1>4, <1>5

\* bastille export is done with its file, or fails and may leave it.
LEMMA ExportEndsKeeps == ASSUME ArchivesInv, NEW q \in ZipRequest, ExportEnds(q) PROVE ArchivesInv'
<1> DEFINE n == Len(exports)
           own == CHOOSE i \in 1..Len(exports) : exports[i].by = q
           closed == [exports[own] EXCEPT !.by = "none"]
           without == [i \in 1..(n - 1) |-> exports[IF i < own THEN i ELSE i + 1]]
<1>1. /\ ZipAt(q, "export", "write") /\ zreq[q].op = "export" /\ Active(q)
      /\ UNCHANGED <<files, writers, finished, jails, orphans, zipOps, good, crossed>>
  BY DEF ExportEnds, ZipAt, Active, zipFiles, zipHistory
<1>2. zreq \in [ZipRequest -> ZipRequests] /\ ZipRequestFits(q)
  BY <1>1, JailSays
<1>3. own \in 1..n /\ exports[own].by = q /\ n \in Nat
  <2>1. \E i \in 1..n : exports[i].by = q
    BY <1>1 DEF ArchivesInv, ExportFits, OpenExports
  <2> QED
    BY <2>1, ExportSays
<1>4. closed \in Exports /\ closed = [jail |-> exports[own].jail, by |-> "none"] /\ closed.by = "none"
  <2> HIDE DEF own
  <2>1. exports[own] \in Exports
    BY <1>3, ExportSays
  <2> QED
    BY <2>1 DEF Exports
<1>5. /\ \/ exports' = Append(without, closed) /\ ZipGoes(q, "look")
         \/ exports' \in {without, [exports EXCEPT ![own].by = "none"]} /\ Answer(q, "error")
  BY DEF ExportEnds
<1>6. /\ ZipSteps(q) /\ zreq'[q].pc \in {"look", "answered"} /\ zreq'[q].op = zreq[q].op /\ Of(q)' = Of(q)
      /\ zreq'[q].pc = "look" => exports' = Append(without, closed)
      /\ zreq'[q].pc = "answered" => zreq'[q].result = "error"
  <2>1. CASE exports' = Append(without, closed) /\ ZipGoes(q, "look")
    <3> HIDE DEF closed, without
    <3> QED
      BY <1>1, <1>2, <2>1, GoesSteps
  <2>2. CASE Answer(q, "error")
    <3> HIDE DEF closed, without
    <3> QED
      BY <1>1, <1>2, <2>2, AnswerSteps
  <2> QED
    BY <1>5, <2>1, <2>2
<1> HIDE DEF own
<1>7. /\ without \in Seq(Exports) /\ Len(without) = n - 1 /\ n - 1 \in Nat
      /\ \A i \in 1..(n - 1) : \E k \in 1..n : k # own /\ without[i] = exports[k]
      /\ \A k \in 1..n : k # own => \E i \in 1..(n - 1) : without[i] = exports[k]
  <2>1. \A i \in 1..n : exports[i] \in Exports
    BY ExportSays
  <2>2. n - 1 \in Nat /\ \A i \in 1..(n - 1) : (IF i < own THEN i ELSE i + 1) \in (1..n) \ {own}
    BY <1>3
  <2>3. without \in [1..(n - 1) -> Exports]
    BY <2>1, <2>2
  <2>4. without \in Seq(Exports) /\ Len(without) = n - 1
    <3> HIDE DEF without
    <3> QED
      BY <2>2, <2>3, TupleIsSeq
  <2>5. ASSUME NEW k \in 1..n, k # own PROVE \E i \in 1..(n - 1) : without[i] = exports[k]
    <3>1. CASE k < own
      <4>1. k \in 1..(n - 1) /\ without[k] = exports[k]
        BY <1>3, <2>5, <3>1
      <4> QED
        BY <4>1
    <3>2. CASE k > own
      <4>1. k - 1 \in 1..(n - 1) /\ ~(k - 1 < own) /\ (k - 1) + 1 = k
        BY <1>3, <2>5, <3>2
      <4>2. without[k - 1] = exports[k]
        BY <4>1
      <4> QED
        BY <4>1, <4>2
    <3> QED
      BY <1>3, <2>5, <3>1, <3>2
  <2> QED
    BY <2>2, <2>4, <2>5
<1>8. /\ exports' \in Seq(Exports)
      /\ \A k \in 1..n : k # own => \E i \in 1..Len(exports') : exports'[i] = exports[k]
      /\ \A i \in 1..Len(exports') :
           exports'[i].by # "none" => \E k \in 1..n : k # own /\ exports'[i] = exports[k]
      /\ exports' = Append(without, closed) =>
           Len(exports') \in 1..Len(exports') /\ exports'[Len(exports')] = closed
  <2> HIDE DEF without, closed
  <2>1. CASE exports' = Append(without, closed)
    <3>1. /\ exports' \in Seq(Exports) /\ Len(exports') = n /\ exports'[n] = closed
          /\ \A i \in 1..(n - 1) : exports'[i] = without[i]
      BY <1>3, <1>4, <1>7, <2>1, AppendProperties
    <3>2. 1..n = (1..(n - 1)) \cup {n}
      BY <1>3
    <3>3. ASSUME NEW k \in 1..n, k # own PROVE \E i \in 1..Len(exports') : exports'[i] = exports[k]
      <4>1. PICK i \in 1..(n - 1) : without[i] = exports[k]
        BY <1>7, <3>3
      <4> QED
        BY <3>1, <3>2, <4>1
    <3>4. ASSUME NEW i \in 1..Len(exports'), exports'[i].by # "none"
          PROVE  \E k \in 1..n : k # own /\ exports'[i] = exports[k]
      <4>1. i \in 1..(n - 1)
        BY <1>4, <3>1, <3>2, <3>4
      <4> QED
        BY <1>7, <3>1, <4>1
    <3>5. n \in 1..n
      BY <1>3
    <3> QED
      BY <3>1, <3>3, <3>4, <3>5
  <2>2. CASE exports' = without /\ exports' # Append(without, closed)
    BY <1>7, <2>2
  <2>3. CASE exports' = [exports EXCEPT ![own].by = "none"] /\ exports' # Append(without, closed)
    <3>1. exports' = [exports EXCEPT ![own] = closed]
      BY <2>3 DEF closed
    <3>2. exports \in Seq(Exports)
      BY ExportSays
    <3>3. /\ exports' \in Seq(Exports) /\ Len(exports') = n
          /\ \A i \in 1..n : exports'[i] = IF i = own THEN closed ELSE exports[i]
      BY <1>3, <1>4, <3>1, <3>2, ExceptSeq
    <3> QED
      BY <1>3, <1>4, <2>3, <3>3
  <2> QED
    BY <1>5, <2>1, <2>2, <2>3
<1>9. ArchivesTyped'
  BY <1>1, <1>6, <1>8 DEF ArchivesInv, ArchivesTyped, ZipSteps
<1>10. (\A o \in ZipRequest : ExportFits(o)') /\ OpenExportsFit' /\ AnswersAreOwn'
  <2> HIDE DEF without, closed
  <2> QED
    BY <1>1, <1>3, <1>4, <1>6, <1>8, ExportLeaves
<1> QED
  BY <1>1, <1>6, <1>9, <1>10, JailStepKeeps

\* The node stops: no request is left, and a command that was at work goes on, in the window.
LEMMA ZipCrashKeeps == ASSUME ArchivesInv, ZipCrash PROVE ArchivesInv'
<1> DEFINE left == [i \in 1..Len(exports) |->
                      [exports[i] EXCEPT !.by = IF exports[i].by = "none" THEN "none" ELSE "orphan"]]
<1>1. /\ zreq' = [q \in ZipRequest |-> ZipFree] /\ ZipFree \in ZipRequests
      /\ UNCHANGED <<files, writers, finished, jails, zipOps, good>> /\ exports' = left
      /\ crossed \subseteq crossed' /\ crossed' \subseteq crossed \cup {"jails"}
      /\ (\E q \in ZipRequest : ZipAt(q, "export", "write")) => "jails" \in crossed'
  BY FreeIsRequest DEF ZipCrash, CommandRuns, zipFiles
<1>2. \A q \in ZipRequest : zreq'[q].pc = "idle" /\ zreq'[q].nr = 0
  BY <1>1 DEF ZipFree
<1>3. exports' \in Seq(Exports) /\ Len(exports') = Len(exports)
  <2>1. \A i \in 1..Len(exports) : exports[i] \in Exports /\ Len(exports) \in Nat
    BY ExportSays
  <2>2. \A i \in 1..Len(exports) :
          [exports[i] EXCEPT !.by = IF exports[i].by = "none" THEN "none" ELSE "orphan"] \in Exports
    BY <2>1 DEF Exports
  <2>3. left \in [1..Len(exports) -> Exports] /\ Len(exports) \in Nat
    BY <2>2, ExportSays
  <2> HIDE DEF left
  <2> QED
    BY <1>1, <2>3, TupleIsSeq
<1>4. orphans' \subseteq Jail /\ ("jails" \notin crossed' => orphans' = {})
  <2>1. ASSUME NEW q \in ZipRequest, CommandRuns(q), zreq[q].op # "export" PROVE Of(q) \in Jail
    BY <2>1 DEF CommandRuns, ZipAt, ArchivesInv, ZipRequestFits
  <2>2. "jails" \notin crossed' => orphans = {} /\ \A q \in ZipRequest : ~CommandRuns(q)
    BY <1>1 DEF ZipCrash, ArchivesInv, ArchivesTyped
  <2> QED
    BY <2>1, <2>2 DEF ZipCrash, ArchivesInv, ArchivesTyped
<1>5. ArchivesTyped'
  BY <1>1, <1>3, <1>4 DEF ArchivesInv, ArchivesTyped
<1>6. /\ \A q \in ZipRequest : ZipRequestFits(q)' /\ ArchiveFits(q)' /\ ExportFits(q)'
      /\ AloneAtPlace' /\ NumbersAreFresh' /\ AnswersAreOwn'
  BY <1>2 DEF ZipRequestFits, ArchiveFits, ExportFits, AloneAtPlace, NumbersAreFresh, AnswersAreOwn,
              HasOpen, Active, ZipAt
<1>7. InodesAreApart'
  BY <1>1, <1>2 DEF ArchivesInv, InodesAreApart, HasOpen
<1>8. GoodArchivesStay'
  BY <1>1 DEF ArchivesInv, GoodArchivesStay, Whole
<1>9. OpenExportsFit'
  <2> SUFFICES ASSUME "jails" \notin crossed' PROVE OpenExports' = {}
    BY DEF OpenExportsFit
  <2>1. OpenExports = {}
    BY <1>1 DEF ArchivesInv, OpenExportsFit
  <2>2. \A i \in 1..Len(exports) : exports[i].by = "none" /\ exports[i] \in Exports
    BY <2>1, ExportSays DEF OpenExports
  <2>3. \A i \in 1..Len(exports) : exports'[i].by = "none"
    BY <1>1, <2>2 DEF Exports
  <2> HIDE DEF left
  <2> QED
    BY <1>3, <2>3 DEF OpenExports
<1> QED
  BY <1>5, <1>6, <1>7, <1>8, <1>9 DEF ArchivesInv

\* A command that was left ends: there is one only in the window.
LEMMA OrphanEndsKeeps == ASSUME ArchivesInv, OrphanEnds PROVE ArchivesInv'
<1>1. /\ UNCHANGED <<files, writers, finished, zreq, zipOps, good, crossed>>
  BY DEF OrphanEnds, zipFiles, zipHistory
<1>2. "jails" \in crossed
  <2>1. CASE orphans # {}
    BY <2>1 DEF ArchivesInv, ArchivesTyped
  <2>2. ASSUME NEW i \in 1..Len(exports), exports[i].by = "orphan" PROVE "jails" \in crossed
    BY <2>2, ExportSays, ArchivesAssumption DEF OpenExports
  <2> QED
    BY <2>1, <2>2 DEF OrphanEnds
<1>3. /\ exports' \in Seq(Exports) /\ Len(exports') = Len(exports)
      /\ \A i \in 1..Len(exports) :
           exports'[i].by = exports[i].by \/ (exports[i].by = "orphan" /\ exports'[i].by = "none")
  <2>1. CASE exports' = exports
    BY <2>1, ExportSays
  <2>2. ASSUME NEW i \in 1..Len(exports), exports[i].by = "orphan", exports' = [exports EXCEPT ![i].by = "none"]
        PROVE  <1>3
    <3> DEFINE closed == [exports[i] EXCEPT !.by = "none"]
    <3>1. closed \in Exports /\ closed.by = "none" /\ exports \in Seq(Exports)
      BY ExportSays DEF Exports
    <3>2. exports' = [exports EXCEPT ![i] = closed]
      BY <2>2
    <3> HIDE DEF closed
    <3>3. /\ exports' \in Seq(Exports) /\ Len(exports') = Len(exports)
          /\ \A k \in 1..Len(exports) : exports'[k] = IF k = i THEN closed ELSE exports[k]
      BY <3>1, <3>2, ExceptSeq
    <3> QED
      BY <2>2, <3>1, <3>3
  <2> QED
    BY <2>1, <2>2 DEF OrphanEnds
<1>4. ArchivesTyped'
  <2>1. jails' \subseteq Jail /\ orphans' \subseteq Jail
    BY DEF OrphanEnds, ArchivesInv, ArchivesTyped
  <2> QED
    BY <1>1, <1>2, <1>3, <2>1 DEF ArchivesInv, ArchivesTyped
<1>5. (\A q \in ZipRequest : ZipRequestFits(q)' /\ ArchiveFits(q)') /\ AloneAtPlace' /\ InodesAreApart'
      /\ NumbersAreFresh' /\ GoodArchivesStay'
  <2>1. (\A q \in ZipRequest : ZipRequestFits(q)') /\ AloneAtPlace'
    BY <1>1 DEF ArchivesInv, ZipRequestFits, AloneAtPlace, Active, HasOpen, Of
  <2>2. ASSUME NEW q \in ZipRequest PROVE ArchiveFits(q)'
    BY <1>1 DEF ArchivesInv, ArchiveFits, HasOpen, Of, WrittenName, DstOf, TmpOf
  <2>3. InodesAreApart' /\ NumbersAreFresh' /\ GoodArchivesStay'
    BY <1>1 DEF ArchivesInv, InodesAreApart, NumbersAreFresh, GoodArchivesStay, HasOpen, Of, Whole
  <2> QED
    BY <2>1, <2>2, <2>3
<1>6. ASSUME NEW q \in ZipRequest PROVE ExportFits(q)'
  <2>1. ExportFits(q) /\ ZipRequest \cap {"none", "orphan"} = {}
    BY ArchivesAssumption DEF ArchivesInv
  <2>2. ZipAt(q, "export", "write")' => \E i \in OpenExports' : exports'[i].by = q
    BY <1>1, <1>3, <2>1 DEF ExportFits, OpenExports, ZipAt
  <2>3. ZipAt(q, "export", "look")' => \E i \in 1..Len(exports') : exports'[i].by = "none"
    BY <1>1, <1>3, <2>1 DEF ExportFits, ZipAt
  <2> QED
    BY <1>1, <1>2, <2>2, <2>3 DEF ExportFits
<1>7. OpenExportsFit' /\ AnswersAreOwn'
  BY <1>1, <1>2 DEF OpenExportsFit, AnswersAreOwn
<1> QED
  BY <1>4, <1>5, <1>6, <1>7 DEF ArchivesInv

----------------------------------------------------------------------------
(* The archives together.                                                  *)

\* Initially nothing is there and nothing runs.
LEMMA ArchivesBegin == ASSUME ArchivesInit PROVE ArchivesInv
<1>0. 0 \in 0..MaxZipOps /\ 0 \in 0..MaxEndings
  BY ArchivesAssumption
<1>1. ZipFree \in ZipRequests
  BY <1>0 DEF ZipFree, ZipRequests, ZipPlaces, ZipOp
<1>2. \A q \in ZipRequest : zreq[q].pc = "idle" /\ zreq[q].nr = 0
  BY DEF ArchivesInit, ZipFree
<1>3. exports \in Seq(Exports) /\ Len(exports) = 0
  BY DEF ArchivesInit
<1>4. ArchivesTyped
  BY <1>0, <1>1, <1>3 DEF ArchivesInit, ArchivesTyped, Named, Asked, Inode
<1>5. \A q \in ZipRequest : ZipRequestFits(q) /\ ArchiveFits(q) /\ ExportFits(q) /\ ~HasOpen(q)
  BY <1>2 DEF ZipRequestFits, ArchiveFits, ExportFits, HasOpen, Active, ZipAt
<1>6. AloneAtPlace /\ NumbersAreFresh /\ AnswersAreOwn
  BY <1>2 DEF AloneAtPlace, NumbersAreFresh, AnswersAreOwn, Active
<1>7. InodesAreApart
  BY <1>5 DEF ArchivesInit, InodesAreApart, Named
<1>8. GoodArchivesStay /\ OpenExportsFit
  BY <1>3 DEF ArchivesInit, GoodArchivesStay, OpenExportsFit, OpenExports
<1> QED
  BY <1>4, <1>5, <1>6, <1>7, <1>8 DEF ArchivesInv

\* Every action of the archives keeps the invariant, and so does a step of another part.
LEMMA ArchivesStay == ASSUME ArchivesInv, [ArchivesNext]_archiveVars PROVE ArchivesInv'
<1>1. ASSUME NEW q \in ZipRequest, NEW op \in {"zip", "upload", "restore"}, NEW f \in Asked,
             BeginZip(q, op, f[1], f[2])
      PROVE  ArchivesInv'
  <2>1. op \in ZipOp /\ f[1] \in ZipName /\ f[2] \in 0..MaxEndings /\ op \notin {"export", "import", "clone"}
    BY DEF ZipOp, Asked
  <2> QED
    BY <1>1, <2>1, BeginZipKeeps
<1>2. ASSUME NEW q \in ZipRequest, NEW op \in {"export", "import", "clone"}, NEW j \in Jail, BeginZip(q, op, j, 0)
      PROVE  ArchivesInv'
  <2>1. op \in ZipOp /\ j \in ZipName \cup Jail /\ 0 \in 0..MaxEndings /\ op \notin {"zip", "upload", "restore"}
    BY ArchivesAssumption DEF ZipOp
  <2> QED
    BY <1>2, <2>1, BeginZipKeeps
<1>3. ASSUME NEW q \in ZipRequest,
             \/ EndZip(q) \/ OpenArchive(q) \/ CopyContent(q) \/ FillArchive(q) \/ RenameArchive(q)
             \/ DropArchive(q) \/ OpenToRead(q) \/ Restore(q)
      PROVE  ArchivesInv'
  BY <1>3, EndZipKeeps, OpenArchiveKeeps, CopyContentKeeps, FillArchiveKeeps, RenameArchiveKeeps,
     DropArchiveKeeps,
     OpenToReadKeeps, RestoreKeeps
<1>4. ASSUME NEW q \in ZipRequest,
             \/ ExportJail(q) \/ ExportEnds(q) \/ LookForExport(q) \/ ListJails(q) \/ ImportJail(q)
             \/ LookForJail(q) \/ CloneJail(q)
      PROVE  ArchivesInv'
  BY <1>4, ExportJailKeeps, ExportEndsKeeps, LookForExportKeeps, ListJailsKeeps, ImportJailKeeps,
     LookForJailKeeps,
     CloneJailKeeps
<1>5. ASSUME UNCHANGED archiveVars PROVE ArchivesInv'
  <2>1. UNCHANGED <<files, writers, finished, zreq, exports, jails, orphans, zipOps, good, crossed>>
    BY <1>5 DEF archiveVars, zipFiles, jailFiles, zipHistory
  <2>2. ArchivesTyped' /\ (\A q \in ZipRequest : ZipRequestFits(q)') /\ AloneAtPlace'
    BY <2>1 DEF ArchivesInv, ArchivesTyped, ZipRequestFits, AloneAtPlace, Active, HasOpen, Of
  <2>3. InodesAreApart' /\ NumbersAreFresh' /\ (\A q \in ZipRequest : ArchiveFits(q)') /\ GoodArchivesStay'
    <3>1. ASSUME NEW q \in ZipRequest PROVE ArchiveFits(q)'
      BY <2>1 DEF ArchivesInv, ArchiveFits, HasOpen, Of, WrittenName, DstOf, TmpOf
    <3> QED
      BY <2>1, <3>1 DEF ArchivesInv, InodesAreApart, NumbersAreFresh, GoodArchivesStay, HasOpen, Of, Whole
  <2>4. (\A q \in ZipRequest : ExportFits(q)') /\ OpenExportsFit' /\ AnswersAreOwn'
    <3>1. OpenExports' = OpenExports
      BY <2>1 DEF OpenExports
    <3> QED
      BY <2>1, <3>1 DEF ArchivesInv, ExportFits, OpenExportsFit, AnswersAreOwn, Of, ZipAt
  <2> QED
    BY <2>2, <2>3, <2>4 DEF ArchivesInv
<1> QED
  BY <1>1, <1>2, <1>3, <1>4, <1>5, ZipCrashKeeps, OrphanEndsKeeps DEF ArchivesNext

\* What the invariant says of the archives.
LEMMA ArchivesInvHolds == ArchivesInv => ArchivesTypeOK /\ ArchivesHold
<1> SUFFICES ASSUME ArchivesInv PROVE ArchivesTypeOK /\ ArchivesHold
  OBVIOUS
<1>1. ArchivesTyped
  BY DEF ArchivesInv
<1>2. ASSUME NEW q \in ZipRequest
      PROVE  /\ zreq[q].op \in ZipOp /\ zreq[q].of \in ZipName \cup Jail \cup {"none"}
             /\ zreq[q].pc \in ZipPlaces /\ zreq[q].ends \in 0..MaxEndings
             /\ {zreq[q].nr, zreq[q].inode} \subseteq 0..MaxZipOps /\ zreq[q].before \subseteq Jail
             /\ zreq[q].result \in Jail \cup {"none", "ok", "error"}
  <2>1. zreq[q] \in ZipRequests
    BY <1>1 DEF ArchivesTyped
  <2> QED
    BY <2>1 DEF ZipRequests
<1>3. \A i \in 1..Len(exports) : exports[i].jail \in Jail /\ exports[i].by \in ZipRequest \cup {"none", "orphan"}
  BY ExportSays DEF Exports
<1>4. ArchivesTypeOK
  BY <1>1, <1>2, <1>3 DEF ArchivesTypeOK, ArchivesTyped, ZipPlaces
<1> QED
  BY <1>4 DEF ArchivesInv, ArchivesHold

----------------------------------------------------------------------------
(* The jobs: the inductive invariant.                                      *)

\* How much of the output is kept, and what of it.
Kept(p) == IF p < MaxLogKept THEN p ELSE MaxLogKept
TailOf(p) == [i \in 1..Kept(p) |-> p - Kept(p) + i]
Line == 0..MaxLines

\* Where a job and its status can be.
JobPlaces == {"none", "directory", "stuck", "queued", "running", "succeeded", "broken", "over"}
JobStatuses == {"none", "building", "done", "failed"}

\* A job that is not in the table has done nothing, and its status says how far one is.
JobFits(j) ==
    /\ j \notin jobs => jobAt[j] = "none" /\ jobStatus[j] = "none" /\ printed[j] = 0
    /\ j \in jobs => jobAt[j] # "none" /\ (jobAt[j] # "over" <=> jobStatus[j] = "building")
    /\ jobLog[j] = IF jobStatus[j] = "failed" THEN Append(TailOf(printed[j]), 0) ELSE TailOf(printed[j])

\* The invariant of the jobs.
JobsInv ==
    /\ jobs \subseteq Job /\ carried \subseteq jobs
    /\ jobStatus \in [Job -> JobStatuses]
    /\ jobAt \in [Job -> JobPlaces]
    /\ jobLog \in [Job -> Seq(Line)] /\ printed \in [Job -> 0..MaxLines] /\ refusedIdle \in BOOLEAN
    /\ IsFiniteSet(jobs) /\ Cardinality(jobs) <= MaxJobs
    /\ \A j \in Job : JobFits(j)

\* How much is kept of an output.
LEMMA KeptSays ==
    ASSUME NEW p \in 0..MaxLines
    PROVE  /\ Kept(p) \in Nat /\ Kept(p) <= MaxLogKept /\ Kept(p) <= p /\ p \in Nat
           /\ \A i \in 1..Kept(p) : p - Kept(p) + i \in Line
<1>1. MaxLines \in Nat /\ p \in Nat /\ p <= MaxLines /\ MaxLogKept \in Nat
  BY JobsAssumption
<1>2. Kept(p) \in Nat /\ Kept(p) <= MaxLogKept /\ Kept(p) <= p
  BY <1>1 DEF Kept
<1>3. ASSUME NEW k \in Nat, k <= p, NEW i \in 1..k PROVE p - k + i \in Line
  BY <1>1, <1>3 DEF Line
<1> QED
  BY <1>1, <1>2, <1>3

\* What is kept of an output is lines of it.
LEMMA TailSays ==
    ASSUME NEW p \in 0..MaxLines
    PROVE  /\ TailOf(p) \in Seq(Line) /\ Len(TailOf(p)) = Kept(p)
           /\ \A i \in 1..Kept(p) : TailOf(p)[i] = p - Kept(p) + i
<1>1. TailOf(p) \in [1..Kept(p) -> Line]
  BY KeptSays DEF TailOf
<1>2. TailOf(p) \in Seq(Line) /\ Len(TailOf(p)) = Kept(p)
  BY <1>1, KeptSays, TupleIsSeq
<1>3. \A i \in 1..Kept(p) : TailOf(p)[i] = p - Kept(p) + i
  BY DEF TailOf
<1> QED
  BY <1>2, <1>3

\* With the line of a failure, a log is at most one line longer.
LEMMA LogSays ==
    ASSUME NEW p \in 0..MaxLines, NEW log, log \in {TailOf(p), Append(TailOf(p), 0)}
    PROVE  log \in Seq(Line) /\ Len(log) <= MaxLogKept + 1
<1>1. /\ TailOf(p) \in Seq(Line) /\ Len(TailOf(p)) = Kept(p) /\ Kept(p) \in Nat /\ Kept(p) <= MaxLogKept
      /\ MaxLogKept \in Nat
  BY TailSays, KeptSays, JobsAssumption
<1>2. 0 \in Line
  BY JobsAssumption DEF Line
<1>3. Append(TailOf(p), 0) \in Seq(Line) /\ Len(Append(TailOf(p), 0)) = Kept(p) + 1
  BY <1>1, <1>2, AppendProperties
<1>4. Kept(p) <= MaxLogKept + 1 /\ Kept(p) + 1 <= MaxLogKept + 1
  BY <1>1
<1>5. CASE log = TailOf(p)
  BY <1>1, <1>4, <1>5
<1>6. CASE log = Append(TailOf(p), 0)
  BY <1>3, <1>4, <1>6
<1> QED
  BY <1>5, <1>6

\* More output moves the end on.
LEMMA NewestIsTail ==
    ASSUME NEW p \in 0..MaxLines, NEW e \in Nat, p + e <= MaxLines, NEW more, more = [i \in 1..e |-> p + i]
    PROVE  Newest(TailOf(p) \o more) = TailOf(p + e)
<1> DEFINE k == Kept(p)
           s == TailOf(p) \o more
<1>1. /\ MaxLines \in Nat /\ MaxLogKept \in Nat /\ p \in Nat /\ p + e \in 0..MaxLines
      /\ k \in Nat /\ k <= p /\ k <= MaxLogKept /\ (k < MaxLogKept => k = p)
  BY JobsAssumption, KeptSays DEF Kept
<1>2. more \in Seq(Line) /\ Len(more) = e
  <2>1. \A i \in 1..e : p + i \in Line
    BY <1>1 DEF Line
  <2>2. more \in [1..e -> Line]
    BY <2>1
  <2> QED
    BY <2>2, TupleIsSeq
<1>3. /\ TailOf(p) \in Seq(Line) /\ Len(TailOf(p)) = k /\ \A i \in 1..k : TailOf(p)[i] = p - k + i
  BY TailSays
<1> HIDE DEF k
<1>4. /\ s \in Seq(Line) /\ Len(s) = k + e
      /\ \A i \in 1..(k + e) : s[i] = IF i <= k THEN TailOf(p)[i] ELSE more[i - k]
  <2>1. PICK t : t = TailOf(p)
    OBVIOUS
  <2>2. /\ t \o more \in Seq(Line) /\ Len(t \o more) = Len(t) + Len(more)
        /\ \A i \in 1..(Len(t) + Len(more)) : (t \o more)[i] = IF i <= Len(t) THEN t[i] ELSE more[i - Len(t)]
    BY <1>2, <1>3, <2>1, ConcatProperties
  <2> QED
    BY <1>2, <1>3, <2>1, <2>2
<1> HIDE DEF s
<1>5. ASSUME NEW i \in 1..(k + e) PROVE s[i] = p - k + i /\ s[i] \in Line
  <2>1. CASE i <= k
    BY <1>1, <1>3, <1>4, <2>1, ElementOfSeq
  <2>2. CASE i > k
    <3>1. i - k \in 1..e /\ p + (i - k) = p - k + i
      BY <1>1, <2>2
    <3>2. more[i - k] = p + (i - k)
      BY <3>1
    <3> QED
      BY <1>1, <1>4, <2>2, <3>1, <3>2, ElementOfSeq
  <2> QED
    BY <1>1, <2>1, <2>2
<1>6. PICK m \in Nat : m = IF k + e > MaxLogKept THEN k + e - MaxLogKept + 1 ELSE 1
  <2>1. k + e > MaxLogKept => k + e - MaxLogKept + 1 \in Nat
    BY <1>1
  <2> QED
    BY <2>1
<1>7. /\ Newest(s) = SubSeq(s, m, k + e) /\ m \in Int /\ k + e \in Int /\ m >= 1
      /\ Kept(p + e) = k + e - m + 1
      /\ Kept(p + e) \in Nat /\ m <= k + e + 1
  BY <1>1, <1>4, <1>6 DEF Newest, Kept
<1>8. \A i \in m..(k + e) : s[i] \in Line
  BY <1>1, <1>5, <1>7
<1>9. /\ Newest(s) \in Seq(Line) /\ Len(Newest(s)) = Kept(p + e)
      /\ \A i \in 1..Kept(p + e) : Newest(s)[i] = s[m + i - 1]
  <2> DEFINE n == k + e
  <2>1. n \in Int /\ Newest(s) = SubSeq(s, m, n)
    BY <1>7
  <2>2. Kept(p + e) = n - m + 1
    BY <1>1, <1>7
  <2>3. n = k + e
    OBVIOUS
  <2> HIDE DEF n
  <2>4. /\ SubSeq(s, m, n) \in Seq(Line)
        /\ Len(SubSeq(s, m, n)) = IF m <= n THEN n - m + 1 ELSE 0
        /\ \A i \in 1..(n - m + 1) : SubSeq(s, m, n)[i] = s[m + i - 1]
    BY <1>7, <1>8, <2>1, <2>3, SubSeqProperties
  <2>5. (IF m <= n THEN n - m + 1 ELSE 0) = n - m + 1
    BY <1>7, <2>1, <2>3
  <2> QED
    BY <2>1, <2>4, <2>2, <2>5
<1>10. ASSUME NEW i \in 1..Kept(p + e) PROVE Newest(s)[i] = p + e - Kept(p + e) + i
  <2>1. m + i - 1 \in 1..(k + e)
    BY <1>1, <1>7
  <2>2. s[m + i - 1] = p - k + (m + i - 1)
    BY <1>5, <2>1
  <2> QED
    BY <1>1, <1>7, <1>9, <2>2
<1>11. /\ TailOf(p + e) \in Seq(Line) /\ Len(TailOf(p + e)) = Kept(p + e)
       /\ \A i \in 1..Kept(p + e) : TailOf(p + e)[i] = p + e - Kept(p + e) + i
  BY <1>1, TailSays
<1>12. Newest(s) = TailOf(p + e)
  BY <1>9, <1>10, <1>11, SeqEqual
<1> QED
  BY <1>12 DEF s

----------------------------------------------------------------------------
(* Every action of the jobs keeps it.                                      *)

\* A step of one job of the table.
LEMMA JobStepKeeps ==
    ASSUME JobsInv, NEW j \in Job, jobs' = jobs, carried' \subseteq jobs, refusedIdle' = refusedIdle,
           jobStatus' \in [Job -> JobStatuses],
           jobAt' \in [Job -> JobPlaces],
           jobLog' \in [Job -> Seq(Line)], printed' \in [Job -> 0..MaxLines],
           \A o \in Job \ {j} :
             jobStatus'[o] = jobStatus[o] /\ jobAt'[o] = jobAt[o] 
             /\ jobLog'[o] = jobLog[o] /\ printed'[o] = printed[o],
           JobFits(j)'
    PROVE  JobsInv'
<1>1. ASSUME NEW o \in Job PROVE JobFits(o)'
  <2>1. CASE o = j
    BY <2>1
  <2>2. CASE o # j
    BY <2>2 DEF JobsInv, JobFits
  <2> QED
    BY <2>1, <2>2
<1> QED
  BY <1>1 DEF JobsInv

\* A job that is somewhere is in the table.
LEMMA JobSays ==
    ASSUME JobsInv, NEW j \in Job
    PROVE  /\ JobFits(j) /\ (jobAt[j] # "none" => j \in jobs)
           /\ jobStatus \in [Job -> JobStatuses]
           /\ jobAt \in [Job -> JobPlaces]
           /\ jobLog \in [Job -> Seq(Line)] /\ printed \in [Job -> 0..MaxLines] /\ carried \subseteq jobs
           /\ printed[j] \in 0..MaxLines
BY DEF JobsInv, JobFits

\* The steps that only move a job on.
LEMMA JobGoesKeeps ==
    ASSUME JobsInv, NEW j \in Job, jobAt[j] \notin {"none", "over"},
           NEW at \in {"queued", "stuck", "running", "broken", "succeeded"}, JobGoes(j, at),
           UNCHANGED <<jobs, jobStatus, jobLog, carried, printed, refusedIdle>>
    PROVE  JobsInv'
<1>1. jobAt' = [jobAt EXCEPT ![j] = at]
  BY DEF JobGoes
<1>2. JobFits(j)'
  BY <1>1, JobSays DEF JobFits
<1> QED
  BY <1>1, <1>2, JobSays, JobStepKeeps DEF JobPlaces

\* jobStore.create takes one of the slots that are left.
LEMMA CreateJobKeeps ==
    ASSUME JobsInv, NEW j \in Job, NEW first \in {"directory", "queued"}, CreateJob(j, first) PROVE JobsInv'
<1>1. /\ j \notin jobs /\ jobs' = jobs \cup {j} /\ Cardinality(jobs) < MaxJobs
      /\ jobStatus' = [jobStatus EXCEPT ![j] = "building"] /\ jobAt' = [jobAt EXCEPT ![j] = first]
      /\ jobLog' = jobLog /\ carried' = carried /\ printed' = printed /\ refusedIdle' = refusedIdle
  BY DEF CreateJob, HasSlot, JobGoes
<1>2. IsFiniteSet(jobs') /\ Cardinality(jobs') <= MaxJobs
  <2>1. IsFiniteSet(jobs) /\ Cardinality(jobs) \in Nat
    BY FS_CardinalityType DEF JobsInv
  <2>2. IsFiniteSet(jobs') /\ Cardinality(jobs') = Cardinality(jobs) + 1
    BY <1>1, <2>1, FS_AddElement
  <2>3. MaxJobs \in Nat
    BY JobsAssumption
  <2> QED
    BY <1>1, <2>1, <2>2, <2>3
<1>3. ASSUME NEW o \in Job PROVE JobFits(o)'
  BY <1>1, JobSays DEF JobFits
<1>4. /\ jobs' \subseteq Job /\ carried' \subseteq jobs'
      /\ jobStatus' \in [Job -> JobStatuses]
      /\ jobAt' \in [Job -> JobPlaces]
  BY <1>1 DEF JobsInv, JobPlaces, JobStatuses
<1> QED
  BY <1>1, <1>2, <1>3, <1>4 DEF JobsInv

\* logCollector.Write keeps the newest lines.
LEMMA CollectOutputKeeps ==
    ASSUME JobsInv, NEW j \in Job, NEW ended \in 0..2, NEW begun \in BOOLEAN, CollectOutput(j, ended, begun)
    PROVE  JobsInv'
<1>1. /\ jobAt[j] = "running" /\ printed[j] + ended <= MaxLines
      /\ printed' = [printed EXCEPT ![j] = printed[j] + ended]
      /\ jobLog' = [jobLog EXCEPT ![j] = Newest(jobLog[j] \o EndedLines(j, ended))]
      /\ UNCHANGED <<jobs, jobStatus, jobAt, refusedIdle>>
  BY DEF CollectOutput
<1>2. PICK p \in 0..MaxLines : p = printed[j]
  BY JobSays
<1>3. p \in Nat /\ ended \in Nat /\ p + ended \in 0..MaxLines
  BY <1>1, <1>2, JobsAssumption
<1>4. j \in jobs /\ jobStatus[j] = "building" /\ jobLog[j] = TailOf(p)
  BY <1>1, <1>2, JobSays DEF JobFits
<1>5. Newest(jobLog[j] \o EndedLines(j, ended)) = TailOf(p + ended)
  <2>1. EndedLines(j, ended) = [i \in 1..ended |-> p + i]
    BY <1>2 DEF EndedLines
  <2> QED
    BY <1>1, <1>2, <1>3, <1>4, <2>1, NewestIsTail
<1>6. TailOf(p + ended) \in Seq(Line)
  BY <1>3, TailSays
<1>7. /\ printed' \in [Job -> 0..MaxLines] /\ jobLog' \in [Job -> Seq(Line)]
      /\ printed'[j] = p + ended /\ jobLog'[j] = TailOf(p + ended)
  BY <1>1, <1>2, <1>3, <1>5, <1>6, JobSays
<1>8. JobFits(j)'
  BY <1>1, <1>4, <1>7, JobSays DEF JobFits
<1>9. carried' \subseteq jobs
  BY <1>4, JobSays DEF CollectOutput
<1> QED
  BY <1>1, <1>7, <1>8, <1>9, JobSays, JobStepKeeps

\* A job that is over has a status, and a line more when it has failed.
LEMMA EndJobKeeps == ASSUME JobsInv, NEW j \in Job, EndJob(j) PROVE JobsInv'
<1> DEFINE ended == IF jobAt[j] = "broken" THEN "failed" ELSE "done"
           lines == IF jobAt[j] = "broken" THEN Append(jobLog[j], 0) ELSE jobLog[j]
<1>1. /\ jobAt[j] \in {"succeeded", "broken"} /\ jobAt' = [jobAt EXCEPT ![j] = "over"]
      /\ jobStatus' = [jobStatus EXCEPT ![j] = ended] /\ jobLog' = [jobLog EXCEPT ![j] = lines]
      /\ UNCHANGED <<jobs, carried, printed, refusedIdle>>
  BY DEF EndJob, JobGoes
<1>2. j \in jobs /\ jobStatus[j] = "building" /\ jobLog[j] = TailOf(printed[j])
  BY <1>1, JobSays DEF JobFits
<1>3. /\ ended \in {"failed", "done"}
      /\ lines = IF ended = "failed" THEN Append(TailOf(printed[j]), 0) ELSE TailOf(printed[j])
  BY <1>2
<1> HIDE DEF ended, lines
<1>4. lines \in Seq(Line)
  <2>1. lines \in {TailOf(printed[j]), Append(TailOf(printed[j]), 0)}
    BY <1>3
  <2>2. PICK p \in 0..MaxLines : p = printed[j]
    BY JobSays
  <2> QED
    BY <2>1, <2>2, LogSays
<1>5. /\ jobLog' \in [Job -> Seq(Line)] /\ jobLog'[j] = lines /\ jobStatus'[j] = ended /\ jobAt'[j] = "over"
      /\ jobStatus' \in [Job -> JobStatuses]
      /\ jobAt' \in [Job -> JobPlaces]
  BY <1>1, <1>3, <1>4, JobSays DEF JobPlaces, JobStatuses
<1>6. JobFits(j)'
  BY <1>1, <1>2, <1>3, <1>5 DEF JobFits
<1> QED
  BY <1>1, <1>5, <1>6, JobSays, JobStepKeeps

\* Initially no job is in the table.
LEMMA JobsBegin == ASSUME JobsInit PROVE JobsInv
<1>1. 0 \in 0..MaxLines /\ MaxLogKept \in Nat \ {0} /\ MaxJobs \in Nat
  BY JobsAssumption
<1>2. Kept(0) = 0
  BY <1>1 DEF Kept
<1>3. TailOf(0) = <<>>
  <2>1. TailOf(0) \in Seq(Line) /\ Len(TailOf(0)) = 0
    BY <1>1, <1>2, TailSays
  <2>2. <<>> \in Seq(Line) /\ Len(<<>>) = 0
    BY EmptySeq
  <2>3. PICK empty \in Seq(Line) : empty = <<>> /\ Len(empty) = 0
    BY <2>2
  <2>4. TailOf(0) = empty
    BY <2>1, <2>3, SeqEqual
  <2> QED
    BY <2>3, <2>4
<1>4. <<>> \in Seq(Line)
  BY EmptySeq
<1>5. IsFiniteSet(jobs) /\ Cardinality(jobs) <= MaxJobs
  BY <1>1, FS_EmptySet DEF JobsInit
<1>6. \A j \in Job : JobFits(j)
  BY <1>3 DEF JobsInit, JobFits
<1> QED
  BY <1>1, <1>4, <1>5, <1>6 DEF JobsInit, JobsInv, JobPlaces, JobStatuses

\* Every action of the jobs keeps the invariant, and so does a step of another part.
LEMMA JobsStay == ASSUME JobsInv, [JobsNext]_jobVars PROVE JobsInv'
<1>1. CASE RefuseJob
  <2>1. UNCHANGED <<jobs, jobStatus, jobLog, jobAt, carried, printed>> /\ refusedIdle' \in BOOLEAN
    BY <1>1 DEF RefuseJob, JobsInv
  <2> QED
    BY <2>1 DEF JobsInv, JobFits
<1>2. ASSUME NEW j \in Job, MakeBuildDir(j) \/ RunCommand(j) \/ ExitCommand(j) PROVE JobsInv'
  BY <1>2, JobGoesKeeps DEF MakeBuildDir, RunCommand, ExitCommand
<1>3. CASE UNCHANGED jobVars
  BY <1>3 DEF jobVars, JobsInv, JobFits
<1> QED
  BY <1>1, <1>2, <1>3, CreateJobKeeps, CollectOutputKeeps, EndJobKeeps DEF JobsNext

\* What the invariant says of the jobs.
LEMMA JobsInvHolds == JobsInv => JobsTypeOK /\ JobsHold
<1> SUFFICES ASSUME JobsInv PROVE JobsTypeOK /\ JobsHold
  OBVIOUS
<1>1. ASSUME NEW j \in Job PROVE jobLog[j] \in Seq(0..MaxLines) /\ Len(jobLog[j]) <= MaxLogKept + 1
  <2>1. PICK p \in 0..MaxLines : p = printed[j]
    BY JobSays
  <2>2. jobLog[j] \in {TailOf(p), Append(TailOf(p), 0)}
    BY <2>1, JobSays DEF JobFits
  <2> QED
    BY <2>2, LogSays DEF Line
<1>2. JobsTypeOK
  BY <1>1 DEF JobsInv, JobsTypeOK, JobPlaces, JobStatuses
<1>3. LogIsTheTail
  BY DEF JobsInv, JobFits, LogIsTheTail, TailOf, Kept
<1>4. JobsAreBounded
  <2> DEFINE running == {j \in Job : jobAt[j] \in {"queued", "running"}}
  <2>1. running \subseteq jobs
    BY JobSays
  <2>2. IsFiniteSet(jobs) /\ Cardinality(jobs) <= MaxJobs /\ Cardinality(jobs) \in Nat /\ MaxJobs \in Nat
    BY FS_CardinalityType, JobsAssumption DEF JobsInv
  <2>3. Cardinality(running) \in Nat /\ Cardinality(running) <= Cardinality(jobs)
    BY <2>1, <2>2, FS_Subset, FS_CardinalityType
  <2> QED
    BY <2>2, <2>3 DEF JobsAreBounded
<1> QED
  BY <1>2, <1>3, <1>4 DEF JobsHold

----------------------------------------------------------------------------
(* The parts by themselves.                                                *)

\* Sessions in a jail, for any sessions and starts of the node: none is a stray, what has
\* ended is dead, the jail of a watched session is stopped with it and recovery touches no
\* other jail (bastilleRunStart, watch and recoverBastille).
THEOREM JailSessionsSafe == JailSessionsSpec => [](JailSessionsTypeOK /\ JailSessionsHold)
<1>1. JailSessionsInit => JailSessionsInv
  BY JailSessionsBegin
<1>2. JailSessionsInv /\ [JailSessionsNext]_jailSessionVars => JailSessionsInv'
  BY JailSessionsStay
<1>3. JailSessionsInv => JailSessionsTypeOK /\ JailSessionsHold
  BY JailSessionsInvHolds
<1> QED
  BY <1>1, <1>2, <1>3, PTL DEF JailSessionsSpec

\* The configuration of a jail, for any mounts, rules and settings: what was answered is in
\* fstab, in the rules and in jail.conf, but for a file that two requests were at.
THEOREM JailConfigSafe == ConfigSpec => [](ConfigTypeOK /\ JailConfigHolds)
<1>1. ConfigInit => ConfigInv
  BY ConfigBegins
<1>2. ConfigInv /\ [ConfigNext]_configVars => ConfigInv'
  BY ConfigStays
<1>3. ConfigInv => ConfigTypeOK /\ JailConfigHolds
  BY ConfigInvHolds
<1> QED
  BY <1>1, <1>2, <1>3, PTL DEF ConfigSpec

\* The archives, for any names and requests: one that was answered stays whole through every
\* failure and crash until an upload replaces it (zipPathTo), and an export or import answers
\* its own (bastilleExport, bastilleImport), but for what two requests were at.
THEOREM ArchivesSafe == ArchivesSpec => [](ArchivesTypeOK /\ ArchivesHold)
<1>1. ArchivesInit => ArchivesInv
  BY ArchivesBegin
<1>2. ArchivesInv /\ [ArchivesNext]_archiveVars => ArchivesInv'
  BY ArchivesStay
<1>3. ArchivesInv => ArchivesTypeOK /\ ArchivesHold
  BY ArchivesInvHolds
<1> QED
  BY <1>1, <1>2, <1>3, PTL DEF ArchivesSpec

\* The long jobs, for any outputs and chunks: a log is the end of the output, line by line
\* (logCollector), and no more commands run than maxJobs.
THEOREM JobsSafe == JobsSpec => [](JobsTypeOK /\ JobsHold)
<1>1. JobsInit => JobsInv
  BY JobsBegin
<1>2. JobsInv /\ [JobsNext]_jobVars => JobsInv'
  BY JobsStay
<1>3. JobsInv => JobsTypeOK /\ JobsHold
  BY JobsInvHolds
<1> QED
  BY <1>1, <1>2, <1>3, PTL DEF JobsSpec

----------------------------------------------------------------------------
(* The parts together, as the runs explore them.                           *)

HostInv == JailSessionsInv /\ ConfigInv /\ JobsInv /\ ArchivesInv

\* Every part is left alone by the others.
LEMMA HostInvariant == Spec => []HostInv
<1>1. Init => HostInv
  BY JailSessionsBegin, ConfigBegins, JobsBegin, ArchivesBegin DEF Init, HostInv
<1>2. ASSUME HostInv, [Next]_vars PROVE HostInv'
  <2>1. [JailSessionsNext]_jailSessionVars /\ [ConfigNext]_configVars
    BY <1>2 DEF Next, vars
  <2>2. [JobsNext]_jobVars /\ [ArchivesNext]_archiveVars
    BY <1>2 DEF Next, vars
  <2> QED
    BY <1>2, <2>1, <2>2, JailSessionsStay, ConfigStays, JobsStay, ArchivesStay DEF HostInv
<1> QED
  BY <1>1, <1>2, PTL DEF Spec

\* What jails are there, who may reach them and what is configured for them: the sessions and
\* the configuration together.
THEOREM JailsAreSafe == Spec => []JailsHold
<1>1. HostInv => JailsHold
  BY JailSessionsInvHolds, ConfigInvHolds DEF HostInv, JailsHold
<1> QED
  BY <1>1, HostInvariant, PTL

\* The long jobs and the archives together.
THEOREM ContainerWorkIsSafe == Spec => []ContainerWorkHolds
<1>1. HostInv => ContainerWorkHolds
  BY JobsInvHolds, ArchivesInvHolds DEF HostInv, ContainerWorkHolds
<1> QED
  BY <1>1, HostInvariant, PTL

\* The types of every part, the counts of readers of the mutexes among them, without the
\* listing that takes a mutex twice.
THEOREM HostTypeCorrect == ASSUME "list" \notin Ops PROVE Spec => []TypeOK
<1>1. Init => LocksInv
  BY InitHolds DEF Init
<1>2. ASSUME LocksInv, [Next]_vars PROVE LocksInv'
  <2>1. [LocksNext]_lockVars
    BY <1>2 DEF Next, vars
  <2> QED
    BY <1>2, <2>1, LocksStep
<1>3. HostInv /\ LocksInv => TypeOK
  BY JailSessionsInvHolds, ConfigInvHolds, JobsInvHolds, ArchivesInvHolds DEF HostInv, LocksInv, TypeOK
<1> QED
  BY <1>1, <1>2, <1>3, HostInvariant, PTL DEF Spec
=============================================================================
