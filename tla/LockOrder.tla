----------------------------- MODULE LockOrder -----------------------------
(***************************************************************************)
(* The mutexes of the node that are taken while another one is held:       *)
(* Daemon.saveMu, Daemon.mu, Instance.mu, vaultState.mu (a RWMutex) and    *)
(* vaultStore.mu (a RWMutex).  An operation is the sequence of its Lock,   *)
(* RLock and Unlock calls on its longest path; goroutines run operations   *)
(* again and again.                                                        *)
(***************************************************************************)
EXTENDS Naturals, Sequences, FiniteSets

CONSTANTS
    Proc,   \* goroutines
    Ops     \* the operations they run

ASSUME LocksAssumption ==
    /\ "nobody" \notin Proc
    /\ Ops \subseteq {"list", "read", "renew", "start", "save", "lock", "unlock", "count"}

VARIABLES
    prog,    \* per goroutine: what is left of its operation
    readers, \* per mutex and goroutine: how often it is held for reading
    writer   \* per mutex: the goroutine that has called Lock first, and
             \* whether it waits for the readers or holds the mutex
lockVars == <<prog, readers, writer>>

Mutex == {"saveMu", "d.mu", "inst.mu", "v.mu", "s.mu"}
RWMutex == {"v.mu", "s.mu"}
Free == [by |-> "nobody", state |-> "free"]

\* A RWMutex is locked in two steps, the second of which waits for the readers.
Lock(m) ==
    <<[call |-> "lock", on |-> m]>>
        \o IF m \in RWMutex THEN <<[call |-> "wait", on |-> m]>> ELSE <<>>
Unlock(m) == <<[call |-> "unlock", on |-> m]>>
RLock(m) == <<[call |-> "rlock", on |-> m]>>
RUnlock(m) == <<[call |-> "runlock", on |-> m]>>

\* A critical section around body.
Locked(m, body) == Lock(m) \o body \o Unlock(m)
RLocked(m, body) == RLock(m) \o body \o RUnlock(m)
Section(m) == Locked(m, <<>>)
RSection(m) == RLocked(m, <<>>)

----------------------------------------------------------------------------
(* The operations.                                                         *)

\* vaultGate: two looks under RLock; every so often the session is renewed.
vaultGate == RSection("v.mu") \o RSection("v.mu")
vaultGateRenew == vaultGate \o Section("v.mu")

FaultReadFileUnlocksTwice == RLocked("v.mu", RSection("s.mu")) \o RUnlock("v.mu")

readFile == RLocked("v.mu", RSection("s.mu"))

\* The entry, then pendingDel.
writeFile == RLocked("v.mu", Section("s.mu") \o Section("s.mu"))

flush == Section("s.mu")

\* Every file's checksum is read under the RLock of the listing.
listDir == RLocked("v.mu", RSection("s.mu") \o readFile)

\* Save: the snapshot, vaultActive, the object, the index.
Save ==
    Locked("saveMu",
        Locked("d.mu", Section("inst.mu")) \o RSection("v.mu") \o writeFile \o flush)

\* handleVaultLock and the janitor: flush and zeroKeys under v.mu.
FaultLockTakesStoreFirst == Locked("s.mu", Section("v.mu"))

handleVaultLock == Locked("v.mu", flush \o Section("s.mu"))

\* hasPendingFileTrees looks at the vault under Daemon.mu.
hasPendingFileTrees == Locked("d.mu", RSection("v.mu"))

\* Phase 1; load and sweepOrphans; migrateInstancesJSON; loadInstancesVault;
\* startMigration; the end of postUnlockInit.
handleVaultUnlock ==
    Section("v.mu") \o Section("s.mu") \o RSection("s.mu")
        \o Section("v.mu") \o readFile \o Section("d.mu")
        \o Section("v.mu") \o hasPendingFileTrees \o Section("v.mu")

\* startInstance: claim, publish, Save, release.
startInstance == Section("inst.mu") \o Section("inst.mu") \o Save \o Section("inst.mu")

\* CountRunning looks at every instance under Daemon.mu.
CountRunning == Locked("d.mu", Section("inst.mu"))

Program(op) ==
    CASE op = "list"   -> vaultGate \o listDir
      [] op = "read"   -> vaultGate \o readFile
      [] op = "renew"  -> vaultGateRenew \o readFile
      [] op = "start"  -> vaultGate \o startInstance
      [] op = "save"   -> Save
      [] op = "lock"   -> handleVaultLock
      [] op = "unlock" -> handleVaultUnlock
      [] op = "count"  -> CountRunning

----------------------------------------------------------------------------
(* sync.Mutex and sync.RWMutex.                                            *)

LocksInit ==
    /\ prog = [p \in Proc |-> <<>>]
    /\ readers = [m \in Mutex |-> [p \in Proc |-> 0]]
    /\ writer = [m \in Mutex |-> Free]

Begin(p) ==
    /\ prog[p] = <<>>
    /\ \E op \in Ops : prog' = [prog EXCEPT ![p] = Program(op)]
    /\ UNCHANGED <<readers, writer>>

Call(p, c, m) == prog[p] # <<>> /\ Head(prog[p]) = [call |-> c, on |-> m]
Advance(p) == prog' = [prog EXCEPT ![p] = Tail(@)]

\* Lock: a Mutex is taken, a RWMutex announces a writer that keeps new readers
\* out,
LockAnnounce(p, m) ==
    /\ Call(p, "lock", m)
    /\ writer[m] = Free
    /\ writer' = [writer EXCEPT ![m] =
           [by |-> p, state |-> IF m \in RWMutex THEN "waits" ELSE "holds"]]
    /\ Advance(p)
    /\ UNCHANGED readers

\* ... and waits for those that are in.
LockTake(p, m) ==
    /\ Call(p, "wait", m)
    /\ \A q \in Proc : readers[m][q] = 0
    /\ writer' = [writer EXCEPT ![m].state = "holds"]
    /\ Advance(p)
    /\ UNCHANGED readers

\* Unlock: every reader that waits gets in before the next writer.
UnlockAll(p, m) ==
    LET waiting == {q \in Proc : Call(q, "rlock", m)}
    IN  /\ Call(p, "unlock", m)
        /\ writer' = [writer EXCEPT ![m] = Free]
        /\ readers' = [readers EXCEPT ![m] =
               [q \in Proc |-> IF q \in waiting THEN @[q] + 1 ELSE @[q]]]
        /\ prog' = [q \in Proc |-> IF q \in waiting \cup {p} THEN Tail(prog[q]) ELSE prog[q]]

ReadLock(p, m) ==
    /\ Call(p, "rlock", m)
    /\ writer[m] = Free
    /\ readers' = [readers EXCEPT ![m][p] = @ + 1]
    /\ Advance(p)
    /\ UNCHANGED writer

ReadUnlock(p, m) ==
    /\ Call(p, "runlock", m)
    /\ readers' = [readers EXCEPT ![m][p] = @ - 1]
    /\ Advance(p)
    /\ UNCHANGED writer

Step(p) ==
    \E m \in Mutex :
        LockAnnounce(p, m) \/ LockTake(p, m) \/ UnlockAll(p, m)
            \/ ReadLock(p, m) \/ ReadUnlock(p, m)

LocksNext == \E p \in Proc : Begin(p) \/ Step(p)

LocksSpec == LocksInit /\ [][LocksNext]_lockVars

----------------------------------------------------------------------------

\* The type of every variable: no goroutine unlocks what it does not hold, which
\* would make a reader count negative (sync panics).
LocksTypeOK ==
    /\ prog \in [Proc -> Seq([call : {"lock", "wait", "unlock", "rlock", "runlock"}, on : Mutex])]
    /\ readers \in [Mutex -> [Proc -> Nat]]
    /\ writer \in [Mutex -> {Free} \cup [by : Proc, state : {"waits", "holds"}]]

\* Whom p waits for: a writer that holds the mutex or has announced itself,
\* or, as a writer, the readers.
WaitsFor(p) ==
    UNION {IF Call(p, "lock", m) \/ Call(p, "rlock", m) THEN {writer[m].by} \ {"nobody"}
           ELSE IF Call(p, "wait", m) THEN {q \in Proc : readers[m][q] > 0}
           ELSE {} : m \in Mutex}

\* No goroutines wait for each other in a circle, p for itself included: the
\* mutexes are always taken in the order saveMu, Daemon.mu, Instance.mu, and
\* saveMu, Daemon.mu, vaultState.mu, vaultStore.mu, and none is taken twice.
NoCircularWait ==
    \A S \in SUBSET Proc : S # {} => \E p \in S : WaitsFor(p) \cap S = {}
============================================================================
