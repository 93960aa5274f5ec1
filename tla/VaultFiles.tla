----------------------------- MODULE VaultFiles -----------------------------
(***************************************************************************)
(* The files of one instance with vaultFiles: they rest encrypted in the   *)
(* vault, are decrypted into the working directory before a start          *)
(* (vaultMaterialize) and encrypted and deleted there after a stop, by the *)
(* next start or by the next unlock (vaultRecycle, encryptBack).  The file *)
(* API works on the directory while the instance runs and on the vault     *)
(* while it is stopped (vaultFilesMode).  From vault.go, vault_store.go,   *)
(* instance.go and files.go, with locks, unlocks and crashes.              *)
(*                                                                         *)
(* A file is the number of the write that made it, with its time stamp in  *)
(* seconds.  The store is its index, in memory and in the index file.      *)
(***************************************************************************)
EXTENDS Naturals

CONSTANTS
    File,       \* files of the tree
    Ops,        \* what requests and the environment do
    MaxWrites,  \* bound: writes in one behaviour
    MaxUnlocks, \* bound: unlocks
    MaxTime     \* bound: seconds that pass

ASSUME FilesConfigAssumption ==
    /\ Ops \subseteq {"stop", "kill", "exit", "edit", "lock", "crash", "shutdown", "fail"}
    /\ MaxWrites \in Nat \ {0} /\ MaxUnlocks \in Nat /\ MaxTime \in Nat

VARIABLES
    plain,      \* the working directory
    enc,        \* vaultStore.index
    encFile,    \* the index file
    key,        \* vaultState.masterKey and vaultStore.indexDEK are set
    loading,    \* vaultState.loading
    status,     \* Instance.Status
    busy,       \* Instance.Busy
    proc,       \* the process runs
    managed,    \* Instance.Proc names it
    pc,         \* per actor: the next step
    todo,       \* per actor: files a loop has still to handle
    walked,     \* per actor: files encryptBack found
    mode,       \* why Op encrypts the tree: before a start, after a stop
    now, made, unlocks,
    latest,     \* history: per file the last write, of the process or the API
    exposed     \* history: the windows of the code that were hit

store == <<enc, encFile>>
instance == <<status, busy, proc, managed>>
locals == <<todo, walked, mode>>
counters == <<now, made, unlocks>>
history == <<latest, exposed>>
vars == <<plain, enc, encFile, key, loading, status, busy, proc, managed, pc,
          todo, walked, mode, now, made, unlocks, latest, exposed>>

Op == "op"              \* startInstance, stopInstance, stopAll
Unlocker == "unlock"    \* handleVaultUnlock
Client == "file"        \* a file API handler
Actor == {Op, Unlocker, Client}

Missing == [v |-> 0, t |-> 0]
Entry == [v : 0..MaxWrites, t : 0..MaxTime]
Label == {"idle", "dirty", "walk", "encrypt", "materialize",
          "load", "reload", "ready", "rollback", "editVault", "editTree", "stopping", "stopped", "kept"}
Window == {"crash", "double", "running", "second", "reset", "overtaken"}

\* The files a tree holds; plainTreeDirty is that there is one.
Present(tree) == {f \in File : tree[f].v # 0}

\* The type of every variable: a file is stamped with a second of the clock, and
\* an actor is at one of the labels.
TypeOK ==
    /\ {plain, enc, encFile} \subseteq [File -> Entry]
    /\ {key, loading, busy, proc, managed} \subseteq BOOLEAN
    /\ status \in {"stopped", "starting", "running", "stopping"}
    /\ pc \in [Actor -> Label]
    /\ todo \in [Actor -> SUBSET File] /\ walked \in [Actor -> SUBSET File]
    /\ mode \in {"start", "stop", "shutdown"}
    /\ now \in 0..MaxTime /\ made \in 0..MaxWrites /\ unlocks \in 0..MaxUnlocks
    /\ latest \in [File -> 0..MaxWrites]
    /\ exposed \subseteq Window

\* A node that has booted: every file was written once, is in the vault and was
\* never decrypted.
Init ==
    /\ plain = [f \in File |-> Missing]
    /\ enc = [f \in File |-> Missing] /\ encFile = [f \in File |-> [v |-> 1, t |-> 0]]
    /\ key = FALSE /\ loading = FALSE
    /\ status = "stopped" /\ busy = FALSE /\ proc = FALSE /\ managed = FALSE
    /\ pc = [a \in Actor |-> "idle"]
    /\ todo = [a \in Actor |-> {}] /\ walked = [a \in Actor |-> {}]
    /\ mode = "start"
    /\ now = 0 /\ made = 1 /\ unlocks = 0
    /\ latest = [f \in File |-> 1] /\ exposed = {}

Goto(a, l) == pc' = [pc EXCEPT ![a] = l]

\* vaultGate
Open == key /\ ~loading

\* stopAll has begun: no requests, no workers.
Leaving == mode = "shutdown" /\ pc[Op] # "idle"

\* A write of f: the number it gets and the second it is stamped with.
NewWrite(f) ==
    /\ made < MaxWrites
    /\ made' = made + 1
    /\ latest' = [latest EXCEPT ![f] = made + 1]

Stamped(v) == [v |-> v, t |-> now]

----------------------------------------------------------------------------
(* encryptBack, as vaultMaterialize, vaultRecycle and postUnlockInit run it *)

\* The tree is walked.
BackWalk(a) ==
    /\ pc[a] = "walk"
    /\ todo' = [todo EXCEPT ![a] = Present(plain)]
    /\ walked' = [walked EXCEPT ![a] = Present(plain)]
    /\ Goto(a, "encrypt")
    /\ UNCHANGED <<plain, store, key, loading, instance, mode, counters, history>>

\* One file: it is skipped if the entry has its second (and its size).  What the
\* vault has is replaced.
BackEncrypt(a, f) ==
    /\ pc[a] = "encrypt" /\ f \in todo[a]
    /\ todo' = [todo EXCEPT ![a] = @ \ {f}]
    /\ \/ key /\ plain[f].v # 0 /\ enc' = [enc EXCEPT ![f] = Stamped(plain[f].v)]
       \/ plain[f].v # 0 /\ enc[f].v # 0 /\ enc[f].t = plain[f].t /\ UNCHANGED enc
       \/ plain[f].v = 0 /\ UNCHANGED enc
    /\ UNCHANGED <<plain, encFile, key, loading, instance, pc, walked, mode, counters, history>>

\* The files that were found are deleted.
FaultWipeBeforeEncrypt(a) ==
    /\ pc[a] = "encrypt" /\ walked[a] # {}
    /\ plain' = [f \in File |-> IF f \in walked[a] THEN Missing ELSE plain[f]]
    /\ walked' = [walked EXCEPT ![a] = {}]
    /\ todo' = [todo EXCEPT ![a] = IF a = Op /\ mode = "start" THEN Present(enc) ELSE {}]
    /\ Goto(a, IF a = Unlocker THEN "ready" ELSE IF mode = "start" THEN "materialize" ELSE "stopped")
    /\ UNCHANGED <<store, key, loading, instance, mode, counters, history>>

FaultWipeForgotten(a) ==
    /\ pc[a] = "encrypt" /\ todo[a] = {}
    /\ walked' = [walked EXCEPT ![a] = {}]
    /\ todo' = [todo EXCEPT ![a] = IF a = Op /\ mode = "start" THEN Present(enc) ELSE {}]
    /\ Goto(a, IF a = Unlocker THEN "ready" ELSE IF mode = "start" THEN "materialize" ELSE "stopped")
    /\ UNCHANGED <<plain, store, key, loading, instance, mode, counters, history>>

BackWipe(a) ==
    /\ pc[a] = "encrypt" /\ todo[a] = {}
    /\ plain' = [f \in File |-> IF f \in walked[a] THEN Missing ELSE plain[f]]
    /\ walked' = [walked EXCEPT ![a] = {}]
    /\ todo' = [todo EXCEPT ![a] = IF a = Op /\ mode = "start" THEN Present(enc) ELSE {}]
    /\ Goto(a, IF a = Unlocker THEN "ready" ELSE IF mode = "start" THEN "materialize" ELSE "stopped")
    /\ UNCHANGED <<store, key, loading, instance, mode, counters, history>>

\* The vault was locked meanwhile, a file cannot be read or an object not be
\* written: the plaintext stays.
BackFails(a) ==
    /\ pc[a] = "encrypt" /\ todo[a] # {}
    /\ ~key \/ "fail" \in Ops
    /\ todo' = [todo EXCEPT ![a] = {}] /\ walked' = [walked EXCEPT ![a] = {}]
    /\ IF a = Unlocker THEN Goto(a, "rollback") /\ UNCHANGED <<status, busy>>
       ELSE IF mode = "start" THEN Goto(a, "idle") /\ status' = "stopped" /\ busy' = FALSE
       ELSE Goto(a, "kept") /\ UNCHANGED <<status, busy>>
    /\ UNCHANGED <<plain, store, key, loading, proc, managed, mode, counters, history>>

EncryptBack(a) ==
    BackWalk(a) \/ (\E f \in File : BackEncrypt(a, f)) \/ BackWipe(a) \/ BackFails(a)

----------------------------------------------------------------------------
(* Starting and stopping.                                                  *)

\* startInstance claims the instance: for a request that vaultGate has let in, or
\* for autoRestart, which asks for the key alone and comes while an unlock loads as
\* well.  vaultMaterialize asks for the key again.
StartClaim ==
    /\ pc[Op] = "idle" /\ key
    /\ ~busy /\ ~(managed /\ proc)
    /\ busy' = TRUE /\ status' = "starting" /\ mode' = "start"
    /\ exposed' = IF loading THEN exposed \cup {"overtaken"} ELSE exposed
    /\ Goto(Op, "dirty")
    /\ UNCHANGED <<plain, store, key, loading, proc, managed, todo, walked, counters, latest>>

\* Plaintext that is still there is encrypted first.
FaultStartIgnoresResidue ==
    /\ pc[Op] = "dirty"
    /\ IF key THEN Goto(Op, "materialize") /\ UNCHANGED <<status, busy>>
       ELSE Goto(Op, "idle") /\ status' = "stopped" /\ busy' = FALSE
    /\ todo' = [todo EXCEPT ![Op] = IF key THEN Present(enc) ELSE {}]
    /\ UNCHANGED <<plain, store, key, loading, proc, managed, walked, mode, counters, history>>

StartDirty ==
    /\ pc[Op] = "dirty"
    /\ IF ~key THEN Goto(Op, "idle") /\ status' = "stopped" /\ busy' = FALSE
       ELSE /\ Goto(Op, IF Present(plain) = {} THEN "materialize" ELSE "walk")
            /\ UNCHANGED <<status, busy>>
    /\ todo' = [todo EXCEPT ![Op] = IF key /\ Present(plain) = {} THEN Present(enc) ELSE {}]
    /\ UNCHANGED <<plain, store, key, loading, proc, managed, walked, mode, counters, history>>

\* materialize: file by file, as long as there is a key.
Materialize(f) ==
    /\ pc[Op] = "materialize" /\ f \in todo[Op]
    /\ \/ /\ key
          /\ plain' = [plain EXCEPT ![f] = IF enc[f].v = 0 THEN @ ELSE Stamped(enc[f].v)]
          /\ todo' = [todo EXCEPT ![Op] = @ \ {f}]
          /\ UNCHANGED <<pc, status, busy>>
       \/ /\ ~key
          /\ todo' = [todo EXCEPT ![Op] = {}]
          /\ Goto(Op, "idle") /\ status' = "stopped" /\ busy' = FALSE
          /\ UNCHANGED plain
    /\ UNCHANGED <<store, key, loading, proc, managed, walked, mode, counters, history>>

\* The process runs in the tree; the claim is released.
StartSpawn ==
    /\ pc[Op] = "materialize" /\ todo[Op] = {}
    /\ proc' = TRUE /\ managed' = TRUE /\ status' = "running" /\ busy' = FALSE
    /\ Goto(Op, "idle")
    /\ UNCHANGED <<plain, store, key, loading, locals, counters, history>>

\* stopInstance, or stopAll of a shutdown that has waited for the requests and
\* stopped the workers, takes the process,
Stop(m) ==
    /\ pc[Op] = "idle" /\ m \in Ops
    /\ IF m = "stop" THEN Open /\ ~busy ELSE pc[Unlocker] = "idle" /\ pc[Client] = "idle"
    /\ managed /\ proc
    /\ managed' = FALSE /\ mode' = m
    /\ IF m = "stop" THEN busy' = TRUE /\ status' = "stopping" ELSE UNCHANGED <<busy, status>>
    /\ Goto(Op, "stopping")
    /\ UNCHANGED <<plain, store, key, loading, proc, todo, walked, counters, history>>

\* ... waits for its end and sets the status; vaultRecycle follows, if there is
\* a key, and otherwise the plaintext is kept.
StopEnded ==
    /\ pc[Op] = "stopping"
    /\ proc' = FALSE /\ status' = "stopped"
    /\ Goto(Op, IF key THEN "walk" ELSE "kept")
    /\ UNCHANGED <<plain, store, key, loading, busy, managed, locals, counters, history>>

StopRelease ==
    /\ pc[Op] \in {"stopped", "kept"} /\ mode = "stop"
    /\ busy' = FALSE
    /\ Goto(Op, "idle")
    /\ UNCHANGED <<plain, store, key, loading, status, proc, managed, locals, counters, history>>

\* handleInstanceKill, or the process exits: the plaintext stays.
Kill ==
    /\ \/ "kill" \in Ops /\ Open
       \/ "exit" \in Ops
    /\ managed /\ proc
    /\ proc' = FALSE /\ managed' = FALSE /\ status' = "stopped"
    /\ UNCHANGED <<plain, store, key, loading, busy, pc, locals, counters, history>>

\* The process writes a file.
ProcessWrite(f) ==
    /\ proc
    /\ NewWrite(f)
    /\ plain' = [plain EXCEPT ![f] = Stamped(made + 1)]
    /\ exposed' = exposed \cup (IF enc[f].t = now THEN {"second"} ELSE {})
    /\ UNCHANGED <<store, key, loading, instance, pc, locals, now, unlocks>>

----------------------------------------------------------------------------
(* The file API.                                                           *)

\* vaultFilesMode: the directory while it runs or starts, the vault while it
\* is stopped; refused while it stops.
EditBegin ==
    /\ pc[Client] = "idle" /\ "edit" \in Ops
    /\ Open /\ ~Leaving
    /\ status # "stopping"
    /\ Goto(Client, IF status = "stopped" THEN "editVault" ELSE "editTree")
    /\ UNCHANGED <<plain, store, key, loading, instance, locals, counters, history>>

FaultEditStampsMillis(f) ==
    /\ pc[Client] = "editVault" /\ key
    /\ NewWrite(f)
    /\ enc' = [enc EXCEPT ![f] = [v |-> made + 1, t |-> 1000 * now]]
    /\ exposed' = IF Present(plain) # {} \/ pc[Op] # "idle" THEN exposed \cup {"double"} ELSE exposed
    /\ Goto(Client, "idle")
    /\ UNCHANGED <<plain, encFile, key, loading, instance, locals, now, unlocks>>

\* writeFile in the vault; "double" if the tree has plaintext too, or Op is at it.
EditVault(f) ==
    /\ pc[Client] = "editVault" /\ key
    /\ NewWrite(f)
    /\ enc' = [enc EXCEPT ![f] = Stamped(made + 1)]
    /\ exposed' = IF Present(plain) # {} \/ pc[Op] # "idle" THEN exposed \cup {"double"} ELSE exposed
    /\ Goto(Client, "idle")
    /\ UNCHANGED <<plain, encFile, key, loading, instance, locals, now, unlocks>>

\* A file of the tree; "double" if the instance is not running.
EditTree(f) ==
    /\ pc[Client] = "editTree"
    /\ NewWrite(f)
    /\ plain' = [plain EXCEPT ![f] = Stamped(made + 1)]
    /\ exposed' = exposed \cup (IF ~proc \/ pc[Op] # "idle" THEN {"double"} ELSE {})
                         \cup (IF enc[f].t = now THEN {"second"} ELSE {})
    /\ Goto(Client, "idle")
    /\ UNCHANGED <<store, key, loading, instance, locals, now, unlocks>>

EditFails ==
    /\ pc[Client] \in {"editVault", "editTree"}
    /\ Goto(Client, "idle")
    /\ UNCHANGED <<plain, store, key, loading, instance, locals, counters, history>>

----------------------------------------------------------------------------
(* The vault.                                                              *)

\* flushLoop
Flush ==
    /\ key /\ enc # encFile /\ pc[Unlocker] # "load" /\ ~Leaving
    /\ encFile' = enc
    /\ UNCHANGED <<plain, enc, key, loading, instance, pc, locals, counters, history>>

\* The last flush before the keys are dropped; an error is only logged.
WritesIndex ==
    \/ encFile' = enc /\ UNCHANGED exposed
    \/ "fail" \in Ops /\ enc # encFile /\ UNCHANGED encFile /\ exposed' = exposed \cup {"crash"}

\* handleVaultLock, the janitor: flush and drop the keys.  The process runs on.  An
\* unlock that is under way is not waited for: whoever has a session of an earlier
\* one may lock.
Lock ==
    /\ "lock" \in Ops /\ key /\ pc[Unlocker] # "load" /\ ~Leaving
    /\ WritesIndex
    /\ key' = FALSE /\ loading' = FALSE
    /\ UNCHANGED <<plain, enc, instance, pc, locals, counters, latest>>

\* handleVaultUnlock, whether the vault is locked or open.  What is under way goes
\* on with instances that will not be in the list ("overtaken").
Unlock ==
    /\ pc[Unlocker] = "idle" /\ ~Leaving
    /\ unlocks < MaxUnlocks
    /\ unlocks' = unlocks + 1
    /\ key' = TRUE /\ loading' = TRUE
    /\ exposed' = IF pc[Op] = "idle" /\ pc[Client] = "idle" THEN exposed
                  ELSE exposed \cup {"overtaken"}
    /\ Goto(Unlocker, IF key THEN "reload" ELSE "load")
    /\ UNCHANGED <<plain, store, instance, locals, now, made, latest>>

\* postUnlockInit: the index is what its file says, also if the one in memory is
\* ahead ("reset"), and the list is replaced by new objects, stopped and without a
\* process; residue in the tree is then encrypted, if there is any.  Without the
\* key, after a lock, the list cannot be read.
UnlockLoad ==
    /\ pc[Unlocker] \in {"load", "reload"}
    /\ enc' = encFile
    /\ exposed' = exposed
          \cup (IF proc THEN {"running"} ELSE {})
          \cup (IF pc[Unlocker] = "reload" /\ enc # encFile THEN {"reset"} ELSE {})
    /\ IF key
       THEN /\ status' = "stopped" /\ busy' = FALSE /\ managed' = FALSE
            /\ Goto(Unlocker, IF Present(plain) = {} THEN "ready" ELSE "walk")
       ELSE Goto(Unlocker, "rollback") /\ UNCHANGED <<status, busy, managed>>
    /\ UNCHANGED <<plain, encFile, key, loading, proc, locals, counters, latest>>

UnlockReady ==
    /\ pc[Unlocker] = "ready"
    /\ loading' = FALSE
    /\ Goto(Unlocker, "idle")
    /\ UNCHANGED <<plain, store, key, instance, locals, counters, history>>

UnlockRollback ==
    /\ pc[Unlocker] = "rollback"
    /\ key' = FALSE /\ loading' = FALSE
    /\ Goto(Unlocker, "idle")
    /\ UNCHANGED <<plain, store, instance, locals, counters, history>>

\* The node boots after a crash (its processes are ended) or a shutdown, which
\* flushes last of all.
Boot ==
    /\ enc' = [f \in File |-> Missing]
    /\ key' = FALSE /\ loading' = FALSE
    /\ status' = "stopped" /\ busy' = FALSE /\ proc' = FALSE /\ managed' = FALSE
    /\ pc' = [a \in Actor |-> "idle"]
    /\ todo' = [a \in Actor |-> {}] /\ walked' = [a \in Actor |-> {}]
    /\ mode' = "start"
    /\ UNCHANGED <<plain, counters, latest>>

\* "crash": the index in memory is ahead of its file.
Crash ==
    /\ "crash" \in Ops
    /\ Boot /\ UNCHANGED encFile
    /\ exposed' = IF key /\ enc # encFile /\ pc[Unlocker] # "load"
                  THEN exposed \cup {"crash"} ELSE exposed

ShutdownEnd ==
    /\ pc[Op] \in {"stopped", "kept"} /\ mode = "shutdown"
    /\ Boot
    /\ IF key THEN WritesIndex ELSE UNCHANGED <<encFile, exposed>>

Second ==
    /\ now < MaxTime
    /\ now' = now + 1
    /\ UNCHANGED <<plain, store, key, loading, instance, pc, locals, made, unlocks, history>>

Next ==
    \/ StartClaim \/ StartDirty \/ StartSpawn \/ (\E f \in File : Materialize(f))
    \/ (\E m \in {"stop", "shutdown"} : Stop(m)) \/ StopEnded \/ StopRelease \/ Kill
    \/ EncryptBack(Op) \/ EncryptBack(Unlocker)
    \/ EditBegin \/ EditFails
    \/ \E f \in File : ProcessWrite(f) \/ EditVault(f) \/ EditTree(f)
    \/ Flush \/ Lock \/ Unlock \/ UnlockLoad \/ UnlockReady \/ UnlockRollback
    \/ Crash \/ ShutdownEnd \/ Second

Spec == Init /\ [][Next]_vars

----------------------------------------------------------------------------
(* Properties.  The windows in exposed: "crash", a crash, or a failing      *)
(* flush at a lock or at the end, while the index file is behind; "double", *)
(* an edit of one side while the other side has the tree too; "running", an *)
(* unlock while the process runs; "second", a write in the second in which  *)
(* the object of the file was written; "reset", an unlock of an open vault  *)
(* while the index file is behind; "overtaken", an unlock during a start, a *)
(* stop or an edit, or a restart by the watcher during an unlock.           *)

\* What the vault has of f.
Vaulted(f) == IF key /\ pc[Unlocker] # "load" THEN enc[f].v ELSE encFile[f].v

Recoverable == \A f \in File : latest[f] \in {plain[f].v, Vaulted(f)}
TreeIsCurrent == \A f \in File : plain[f].v = latest[f]

\* The last write of every file, of the process or of the API, is in the tree or
\* in the vault (encryptBack encrypts before it deletes; a residue is encrypted
\* before the next start decrypts over it).
LatestRecoverable == exposed = {} => Recoverable

\* A process that runs sees the last write of every file (vaultMaterialize).
RunsOnLatest == exposed = {} /\ proc => TreeIsCurrent

LatestIsKept == LatestRecoverable /\ RunsOnLatest

\* A stop that was not cut short by a lock or an error leaves no plaintext
\* (vaultRecycle).
StopLeavesNoPlaintext ==
    exposed = {} /\ pc[Op] = "stopped" => Present(plain) = {}

----------------------------------------------------------------------------
(* What the code means to keep and does not, each formula named with the    *)
(* window that breaks it.                                                   *)

\* The tree is in plaintext only while the instance runs, starts or stops, or
\* after it ended without a stop: what the API edits in the vault is never
\* replaced by older plaintext (vaultFilesMode against encryptBack).  Broken by
\* the residue of a kill or crash ("double").
EditNotOverwritten == exposed \subseteq {"double"} => Recoverable

\* A lock and an unlock leave a running instance its files.  Broken by
\* postUnlockInit, which takes the tree of every instance for residue ("running").
RunningKeepsTree == exposed \subseteq {"running"} /\ proc => TreeIsCurrent

\* A crash after a stop loses no file content: the objects are there (encryptBack
\* against the delayed write of the index).  Broken before the next flush
\* ("crash").
RecycleSurvivesCrash == exposed \subseteq {"crash"} => Recoverable

\* An unlock of an open vault leaves its files alone.  Broken before the next flush:
\* the index goes back to its file, and sweepOrphans deletes the rest ("reset").
UnlockAgainKeepsFiles == exposed \subseteq {"reset"} => Recoverable

\* encryptBack skips only files that have not changed.  Broken by a change of the
\* same size in the second of the entry ("second").
ChangedIsEncrypted == exposed \subseteq {"second"} => Recoverable
============================================================================
