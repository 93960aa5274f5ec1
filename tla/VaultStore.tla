----------------------------- MODULE VaultStore -----------------------------
(***************************************************************************)
(* The encrypted store of vault_store.go (ciphertext objects, the index    *)
(* that names them, its delayed write to disk, the sweep of orphans) with  *)
(* the locking and unlocking of vault.go and vault_handlers.go that load   *)
(* and drop its keys, and crashes of the node at any moment.               *)
(*                                                                         *)
(* One action is one critical section of vaultStore.mu or vaultState.mu,   *)
(* or one step on the disk.  An object is its id: objects are written once *)
(* under a fresh random id and never changed by the operations modelled,   *)
(* so the id stands for the content.                                       *)
(***************************************************************************)
EXTENDS Naturals, Sequences

CONSTANTS
    Path,       \* the logical paths, as sequences of names
    Client,     \* file API handlers that may run at the same time
    Savers,     \* goroutines in Daemon.Save (writeFile, then flush)
    SysPath,    \* the path Daemon.Save writes (systemInstancesPath)
    Unlocker,   \* unlock handlers that may run at the same time
    Ops,        \* what clients do
    Faults,     \* "crash": the node may crash; "flush": an index write may fail;
                \* "load": the index file may be unreadable
    MaxObjs     \* bound: objects created in one behaviour

ASSUME PathAssumption ==
    SysPath \in Path /\ \A p \in Path : p \in Seq(STRING) /\ p # <<>>

ASSUME StoreConfigAssumption ==
    /\ Ops \subseteq {"write", "remove", "move", "mkdir"}
    /\ Faults \subseteq {"crash", "flush", "load"}
    /\ MaxObjs \in Nat

ASSUME ActorAssumption ==
    /\ Savers \cap Client = {} /\ Savers \cap Unlocker = {}
    /\ Client \cap Unlocker = {}

VARIABLES
    objs,       \* the objects in the objects directory
    disk,       \* the index file: an entry for every path
    made,       \* how many ids have been drawn
    index,      \* vaultStore.index
    dirty,      \* vaultStore.dirty
    pendingDel, \* vaultStore.pendingDel
    dek,        \* vaultStore.indexDEK is set
    master,     \* the unlock whose key slice is vaultState.masterKey, or Nobody
    zeroed,     \* unlocks whose key slice has been zeroed
    loading,    \* vaultState.loading
    sessions,   \* unlocks whose session is in vaultState.sessions
    pc,         \* per actor: the next critical section or disk step
    at,         \* per writer: the path being written
    held,       \* per actor: the object ids a local variable holds
    read,       \* per unlock: the index decoded from the file
    touched,    \* history: paths changed in memory since the last flush
    exposed     \* history: the windows of the code that were hit, see below

disks == <<objs, disk, made>>
memory == <<index, dirty, pendingDel, dek>>
keys == <<master, zeroed, loading, sessions>>
locals == <<at, held, read>>
history == <<touched, exposed>>
vars == <<objs, disk, made, index, dirty, pendingDel, dek, master, zeroed,
          loading, sessions, pc, at, held, read, touched, exposed>>

Obj == 1..MaxObjs
Missing == 0            \* no entry
Dir == MaxObjs + 1      \* an entry with Size = -1
Nobody == "nobody"
Entry == Obj \cup {Missing, Dir}
Writer == Client \cup Savers
Actor == Writer \cup Unlocker
Empty == [p \in Path |-> Missing]

\* The objects an index names.
Refs(ix) == {ix[p] : p \in Path} \cap Obj

\* strings.HasPrefix(q, p + "/")
Below(p, q) == Len(q) > Len(p) /\ SubSeq(q, 1, Len(p)) = p

\* logicalParent
Parent(p) == SubSeq(p, 1, Len(p) - 1)

WriteLabel == {"go", "swap", "pend", "unlink", "flush"}
LoadLabel == {"unwrap", "reset", "readFile", "install", "list", "sweep", "ready", "rollback", "zero"}

\* The type of every variable: what waits to be deleted are objects, never a
\* directory (writeFile asks for IsDir).
TypeOK ==
    /\ objs \subseteq Obj /\ made \in 0..MaxObjs
    /\ disk \in [Path -> Entry] /\ index \in [Path -> Entry]
    /\ dirty \in BOOLEAN /\ dek \in BOOLEAN /\ loading \in BOOLEAN
    /\ pendingDel \subseteq Obj
    /\ master \in Unlocker \cup {Nobody}
    /\ zeroed \subseteq Unlocker /\ sessions \subseteq Unlocker
    /\ pc \in [Actor -> {"idle"} \cup WriteLabel \cup LoadLabel]
    /\ at \in [Writer -> Path]
    /\ held \in [Actor -> SUBSET Obj]
    /\ read \in [Unlocker -> [Path -> Entry]]
    /\ touched \subseteq Path
    /\ exposed \subseteq {"remove", "reload", "overlap"}

Init ==
    /\ objs = {} /\ disk = Empty /\ made = 0
    /\ index = Empty /\ dirty = FALSE /\ pendingDel = {} /\ dek = FALSE
    /\ master = Nobody /\ zeroed = {} /\ loading = FALSE /\ sessions = {}
    /\ pc = [a \in Actor |-> "idle"]
    /\ at = [w \in Writer |-> SysPath]
    /\ held = [a \in Actor |-> {}]
    /\ read = [u \in Unlocker |-> Empty]
    /\ touched = {} /\ exposed = {}

----------------------------------------------------------------------------
(* Locks.                                                                  *)

\* Goroutines that hold vaultState.mu for reading; Lock waits for them.
NoReader == \A w \in Writer : pc[w] \notin {"swap", "pend", "unlink"}

\* Unlocks between the reset of the index and the end of the sweep, or of the rollback.
Loaders == {u \in Unlocker : pc[u] \in {"readFile", "install", "list", "sweep", "rollback", "zero"}}

\* An index operation while an unlock is loading is exposed to the load.
Expose == exposed' = IF Loaders = {} THEN exposed ELSE exposed \cup {"reload"}

Goto(a, l) == pc' = [pc EXCEPT ![a] = l]

----------------------------------------------------------------------------
(* The file API.                                                           *)

\* vaultGate lets a request through; or Save finds vaultActive.
Enter(w) ==
    /\ pc[w] = "idle"
    /\ master # Nobody
    /\ w \in Client => ~loading /\ sessions # {} /\ Ops # {}
    /\ Goto(w, "go")
    /\ UNCHANGED <<disks, memory, keys, locals, history>>

\* An early return: no master key under v.mu.RLock, a path that is missing
\* (remove, move) or is there already (mkdir), or newObject failed.
Refused(w) ==
    /\ pc[w] = "go"
    /\ Goto(w, "idle")
    /\ UNCHANGED <<disks, memory, keys, locals, history>>

\* writeFile: newObject, under v.mu.RLock (copy is a readFile before it, and
\* touch of a new path is a writeFile of nothing).
WriteObject(w, p) ==
    /\ pc[w] = "go"
    /\ IF w \in Savers THEN p = SysPath ELSE p # SysPath /\ "write" \in Ops
    /\ master # Nobody
    /\ made < MaxObjs
    /\ made' = made + 1
    /\ objs' = objs \cup {made + 1}
    /\ at' = [at EXCEPT ![w] = p]
    /\ held' = [held EXCEPT ![w] = {made + 1}]
    /\ Goto(w, "swap")
    /\ Expose
    /\ UNCHANGED <<disk, memory, keys, read, touched>>

\* The index entry is exchanged and a missing parent entry is made.
FaultWriteSwapPendsDirectory(w) ==
    /\ pc[w] = "swap"
    /\ index' = [index EXCEPT ![at[w]] = CHOOSE o \in held[w] : TRUE]
    /\ touched' = touched \cup {at[w]}
    /\ dirty' = TRUE
    /\ held' = [held EXCEPT ![w] = {index[at[w]]} \ {Missing}]
    /\ Goto(w, "pend")
    /\ Expose
    /\ UNCHANGED <<disks, pendingDel, dek, keys, at, read>>

WriteSwap(w) ==
    LET p == at[w]
        old == index[p]
        mkParent == old \in {Missing, Dir} /\ Parent(p) \in Path /\ index[Parent(p)] = Missing
        new == [index EXCEPT ![p] = CHOOSE o \in held[w] : TRUE]
    IN  /\ pc[w] = "swap"
        /\ index' = IF mkParent THEN [new EXCEPT ![Parent(p)] = Dir] ELSE new
        /\ touched' = touched \cup {p} \cup (IF mkParent THEN {Parent(p)} ELSE {})
        /\ dirty' = TRUE
        /\ held' = [held EXCEPT ![w] = {old} \cap Obj]
        /\ Goto(w, "pend")
        /\ Expose
        /\ UNCHANGED <<disks, pendingDel, dek, keys, at, read>>

\* The old object waits for the next flush; v.mu.RUnlock.
FaultWritePendDeletesNow(w) ==
    /\ pc[w] = "pend"
    /\ objs' = objs \ held[w]
    /\ held' = [held EXCEPT ![w] = {}] /\ at' = [at EXCEPT ![w] = SysPath]
    /\ Goto(w, IF w \in Savers THEN "flush" ELSE "idle")
    /\ UNCHANGED <<disk, made, memory, keys, read, history>>

WritePend(w) ==
    /\ pc[w] = "pend"
    /\ pendingDel' = pendingDel \cup held[w]
    /\ held' = [held EXCEPT ![w] = {}] /\ at' = [at EXCEPT ![w] = SysPath]
    /\ Goto(w, IF w \in Savers THEN "flush" ELSE "idle")
    /\ UNCHANGED <<disks, index, dirty, dek, keys, read, history>>

\* remove: the entries go under s.mu, a directory with all that is below it.
RemoveEntries(w, p) ==
    LET gone == {p} \cup (IF index[p] = Dir THEN {q \in Path : Below(p, q)} ELSE {})
    IN  /\ pc[w] = "go"
        /\ w \in Client /\ "remove" \in Ops /\ p # SysPath
        /\ master # Nobody
        /\ index[p] # Missing
        /\ index' = [q \in Path |-> IF q \in gone THEN Missing ELSE index[q]]
        /\ dirty' = TRUE
        /\ touched' = touched \cup gone
        /\ held' = [held EXCEPT ![w] = {index[q] : q \in gone} \cap Obj]
        /\ Goto(w, "unlink")
        /\ Expose
        /\ UNCHANGED <<disks, pendingDel, dek, keys, at, read>>

\* ... and the objects at once, outside s.mu.
RemoveObjects(w) ==
    /\ pc[w] = "unlink"
    /\ objs' = objs \ held[w]
    /\ exposed' = IF held[w] \cap Refs(disk) = {} THEN exposed
                  ELSE exposed \cup {"remove"}
    /\ held' = [held EXCEPT ![w] = {}]
    /\ Goto(w, "idle")
    /\ UNCHANGED <<disk, made, memory, keys, at, read, touched>>

\* move: index entries only; it takes neither v.mu nor a look at the key.
\* What dst named is left to the sweep.
Rebase(src, dst, q) == dst \o SubSeq(q, Len(src) + 1, Len(q))

\* What goes: the entry of src, and those below it if it is a directory.
Live(src) ==
    {q \in {src} \cup (IF index[src] = Dir THEN {q \in Path : Below(src, q)} ELSE {}) : index[q] # Missing}
Lands(src, dst) == {Rebase(src, dst, q) : q \in Live(src)}

FaultMovedKeepsSource(src, dst) == [index EXCEPT ![dst] = index[src]]

Moved(src, dst) ==
    [q \in Path |->
        IF q \in Live(src) THEN Missing
        ELSE IF q \in Lands(src, dst)
             THEN index[CHOOSE r \in Live(src) : Rebase(src, dst, r) = q]
             ELSE index[q]]

\* A directory goes to a place where its own entries are: below itself, or up, from
\* where one below it has its name.
MovesWithin(src, dst) == src # dst /\ (Lands(src, dst) \ {src}) \cap Live(src) # {}

\* The entries go one by one, in the order of their names.  One that lands where another
\* has yet to go takes its place: that other is lost, and the first goes on in its turn.
\* The order is left open: each place that is written holds one of the entries or, if
\* what it had is gone again, none, and no entry is in two places.
Carried(src, dst) ==
    LET lands == Lands(src, dst) \ {src}
        placed == {from \in UNION {[ps -> Live(src)] : ps \in SUBSET lands} :
                     /\ lands \ Live(src) \subseteq DOMAIN from
                     /\ dst \in DOMAIN from /\ from[dst] = src
                     /\ \A q, r \in DOMAIN from : from[q] = from[r] => q = r}
    IN  {[q \in Path |-> IF q \in DOMAIN from THEN index[from[q]]
                         ELSE IF q \in Live(src) THEN Missing ELSE index[q]] : from \in placed}

Move(w, src, dst) ==
    /\ pc[w] = "go"
    /\ w \in Client /\ "move" \in Ops /\ src # SysPath /\ dst # SysPath
    /\ index[src] # Missing
    /\ Lands(src, dst) \subseteq Path   \* bound: the paths there are
    /\ index' \in IF MovesWithin(src, dst) THEN Carried(src, dst) ELSE {Moved(src, dst)}
    /\ dirty' = TRUE
    /\ touched' = touched \cup {q \in Path : index'[q] # index[q]}
    /\ Goto(w, "idle")
    /\ Expose
    /\ UNCHANGED <<disks, pendingDel, dek, keys, locals>>

\* mkdir, without a look at the key either.
Mkdir(w, p) ==
    /\ pc[w] = "go"
    /\ w \in Client /\ "mkdir" \in Ops /\ p # SysPath
    /\ index[p] = Missing
    /\ index' = [index EXCEPT ![p] = Dir]
    /\ dirty' = TRUE
    /\ touched' = touched \cup {p}
    /\ Goto(w, "idle")
    /\ Expose
    /\ UNCHANGED <<disks, pendingDel, dek, keys, locals>>

----------------------------------------------------------------------------
(* flush, as flushLoop, Save, handleVaultBackup and the shutdown call it:   *)
(* one critical section of s.mu.                                           *)

\* Nothing to do, or the index is renamed into place and then the old objects
\* go; or the write fails and everything stays as it was.
Flushed ==
    /\ dirty /\ dek
    /\ disk' = index
    /\ dirty' = FALSE
    /\ objs' = objs \ pendingDel
    /\ pendingDel' = {}
    /\ touched' = {}
    /\ UNCHANGED <<made, index, dek>>

NotFlushed ==
    /\ ~dirty \/ ~dek \/ "flush" \in Faults
    /\ UNCHANGED <<disks, memory, touched>>

FlushLoop ==
    /\ Flushed
    /\ UNCHANGED <<keys, pc, locals, exposed>>

SaveFlush(w) ==
    /\ pc[w] = "flush"
    /\ Flushed \/ NotFlushed
    /\ Goto(w, "idle")
    /\ UNCHANGED <<keys, locals, exposed>>

----------------------------------------------------------------------------
(* Locking.                                                                *)

ZeroKeys == dek' = FALSE /\ dirty' = FALSE

DropMaster ==
    /\ master' = Nobody
    /\ zeroed' = zeroed \cup ({master} \ {Nobody})

\* handleVaultLock and the janitor: flush (an error is only logged), zeroKeys,
\* and the master key is zeroed.
FlushAndDropKeys ==
    /\ ZeroKeys /\ DropMaster
    /\ \/ /\ dirty /\ dek
          /\ disk' = index
          /\ objs' = objs \ pendingDel
          /\ pendingDel' = {}
          /\ touched' = {}
       \/ /\ ~dirty \/ ~dek \/ "flush" \in Faults
          /\ UNCHANGED <<disk, objs, pendingDel, touched>>
    /\ UNCHANGED <<made, index>>

\* A client whose unlock was answered asks for the lock.
Lock ==
    /\ NoReader
    /\ \E u \in sessions : pc[u] = "idle"
    /\ master # Nobody
    /\ FlushAndDropKeys
    /\ sessions' = {}
    /\ loading' = FALSE
    /\ UNCHANGED <<pc, locals, exposed>>

\* janitor: every session has expired; the session of an unlock in progress
\* is fresh.
Expire ==
    /\ NoReader
    /\ sessions # {} /\ \A u \in sessions : pc[u] = "idle"
    /\ sessions' = {}
    /\ IF master # Nobody THEN FlushAndDropKeys
       ELSE UNCHANGED <<disks, memory, master, zeroed, touched>>
    /\ UNCHANGED <<loading, pc, locals, exposed>>

----------------------------------------------------------------------------
(* Unlocking: handleVaultUnlock with postUnlockInit and vaultStore.load.   *)

\* Phase 1, under v.mu: the session and the master key.
Unlock(u) ==
    /\ pc[u] = "idle"
    /\ NoReader
    /\ master' = u
    /\ zeroed' = zeroed \ {u}
    /\ loading' = TRUE
    /\ sessions' = sessions \cup {u}
    /\ Goto(u, "unwrap")
    /\ UNCHANGED <<disks, memory, locals, history>>

\* load: the wrapped indexDEK is opened with this unlock's own key slice.
LoadUnwrap(u) ==
    /\ pc[u] = "unwrap"
    /\ Goto(u, IF u \in zeroed THEN "rollback" ELSE "reset")
    /\ UNCHANGED <<disks, memory, keys, locals, history>>

\* load: indexDEK, an empty index, not dirty.  v.mu is not held.  pendingDel
\* survives.
LoadReset(u) ==
    /\ pc[u] = "reset"
    /\ dek' = TRUE /\ index' = Empty /\ dirty' = FALSE
    /\ exposed' = exposed
          \cup (IF touched # {} \/ pendingDel \cap Refs(disk) # {} \/ ~NoReader
                THEN {"reload"} ELSE {})
          \cup (IF Loaders # {} THEN {"overlap"} ELSE {})
    /\ touched' = {}
    /\ Goto(u, "readFile")
    /\ UNCHANGED <<disks, pendingDel, keys, locals>>

LoadRead(u) ==
    /\ pc[u] = "readFile"
    /\ \/ read' = [read EXCEPT ![u] = disk] /\ Goto(u, "install")
       \/ "load" \in Faults /\ Goto(u, "rollback") /\ UNCHANGED read
    /\ UNCHANGED <<disks, memory, keys, at, held, history>>

FaultLoadInstallForgets(u) ==
    /\ pc[u] = "install"
    /\ dirty' = FALSE
    /\ read' = [read EXCEPT ![u] = Empty]
    /\ Goto(u, "list")
    /\ UNCHANGED <<disks, index, pendingDel, dek, keys, at, held, history>>

LoadInstall(u) ==
    /\ pc[u] = "install"
    /\ index' = read[u] /\ dirty' = FALSE
    /\ read' = [read EXCEPT ![u] = Empty]
    /\ Goto(u, "list")
    /\ UNCHANGED <<disks, pendingDel, dek, keys, at, held, history>>

\* sweepOrphans: the directory is listed,
SweepList(u) ==
    /\ pc[u] = "list"
    /\ held' = [held EXCEPT ![u] = objs]
    /\ Goto(u, "sweep")
    /\ UNCHANGED <<disks, memory, keys, at, read, history>>

\* ... then the index is read and what it does not name is deleted.
FaultSweepIgnoresIndex(u) ==
    /\ pc[u] = "sweep"
    /\ objs' = objs \ held[u]
    /\ held' = [held EXCEPT ![u] = {}]
    /\ Goto(u, "ready")
    /\ UNCHANGED <<disk, made, memory, keys, at, read, history>>

SweepDelete(u) ==
    /\ pc[u] = "sweep"
    /\ objs' = objs \ (held[u] \ Refs(index))
    /\ held' = [held EXCEPT ![u] = {}]
    /\ Goto(u, "ready")
    /\ UNCHANGED <<disk, made, memory, keys, at, read, history>>

\* The end of postUnlockInit; what it does between is in InstanceList.
UnlockReady(u) ==
    /\ pc[u] = "ready"
    /\ NoReader
    /\ loading' = FALSE
    /\ Goto(u, "idle")
    /\ UNCHANGED <<disks, memory, master, zeroed, sessions, locals, history>>

\* postUnlockInit failed: this session and whatever master key there is go under v.mu,
UnlockRollback(u) ==
    /\ pc[u] = "rollback"
    /\ NoReader
    /\ sessions' = sessions \ {u}
    /\ DropMaster
    /\ loading' = FALSE
    /\ Goto(u, "zero")
    /\ UNCHANGED <<disks, memory, locals, history>>

\* ... and zeroKeys follows when it is released, without a flush and whatever key there
\* is by then.
RollbackZeroKeys(u) ==
    /\ pc[u] = "zero"
    /\ ZeroKeys
    /\ Goto(u, "idle")
    /\ UNCHANGED <<disks, index, pendingDel, keys, locals, history>>

----------------------------------------------------------------------------
(* A crash loses the memory; inside a flush it may come after the rename    *)
(* and after any part of the deletions.                                    *)

Reboot ==
    /\ index' = Empty /\ dirty' = FALSE /\ pendingDel' = {} /\ dek' = FALSE
    /\ master' = Nobody /\ zeroed' = {} /\ loading' = FALSE /\ sessions' = {}
    /\ pc' = [a \in Actor |-> "idle"]
    /\ at' = [w \in Writer |-> SysPath]
    /\ held' = [a \in Actor |-> {}]
    /\ read' = [u \in Unlocker |-> Empty]
    /\ touched' = {}
    /\ UNCHANGED <<made, exposed>>

Crash ==
    /\ "crash" \in Faults
    /\ Reboot
    /\ UNCHANGED <<objs, disk>>

CrashInFlush ==
    /\ "crash" \in Faults
    /\ dirty /\ dek
    /\ Reboot
    /\ disk' = index
    /\ \E s \in SUBSET pendingDel : objs' = objs \ s

----------------------------------------------------------------------------
WriterStep(w) ==
    \/ Refused(w)
    \/ \E p \in Path : WriteObject(w, p) \/ RemoveEntries(w, p) \/ Mkdir(w, p)
    \/ \E p, q \in Path : Move(w, p, q)
    \/ WriteSwap(w) \/ WritePend(w) \/ RemoveObjects(w) \/ SaveFlush(w)

UnlockStep(u) ==
    \/ LoadUnwrap(u) \/ LoadReset(u) \/ LoadRead(u) \/ LoadInstall(u)
    \/ SweepList(u) \/ SweepDelete(u) \/ UnlockReady(u)
    \/ UnlockRollback(u) \/ RollbackZeroKeys(u)

Next ==
    \/ \E w \in Writer : Enter(w) \/ WriterStep(w)
    \/ FlushLoop
    \/ Lock \/ Expire
    \/ \E u \in Unlocker : Unlock(u) \/ UnlockStep(u)
    \/ Crash \/ CrashInFlush

Spec == Init /\ [][Next]_vars

----------------------------------------------------------------------------
(* Three windows of the code void what follows, and exposed says which of    *)
(* them a behaviour has met:                                                 *)
(*   "remove"   remove deleted an object the index file still names;         *)
(*   "reload"   an unlock reset the index over changes that were not flushed *)
(*              or over deletions that were pending, or an index operation   *)
(*              ran while an unlock was loading;                             *)
(*   "overlap"  two unlocks were loading at the same time.                   *)
(* At the end of the module are formulas that these windows break.            *)

\* The objects that the index file names are on the disk ("a crash loses at
\* most a second of index changes, the data objects are still on the disk").
DiskIndexIntact == Refs(disk) \subseteq objs

\* At every moment, so after every crash, the objects that the index file names
\* are on the disk: an overwrite never costs the version that was flushed.
CrashKeepsFlushed == exposed = {} => DiskIndexIntact

\* The objects that the index in memory names are on the disk, and none of them
\* waits to be deleted by the next flush.
OpenIndexIntact ==
    exposed = {} => Refs(index) \subseteq objs \ pendingDel

\* No two paths name the same object, in memory or on the disk: copy draws a
\* new object and move leaves no alias (decision D14), so that deleting one
\* path's object never takes another path's content.
NoAlias ==
    \A p, q \in Path : p # q =>
        /\ index[p] \in Obj => index[p] # index[q]
        /\ disk[p] \in Obj => disk[p] # disk[q]

\* A flush changes the index file only at paths on which an operation was made
\* since the last one: no path disappears from the file by itself.
FlushKeepsOthers ==
    [][exposed = {} => \A p \in Path : disk'[p] # disk[p] => p \in touched]_vars

----------------------------------------------------------------------------
(* What the code means to keep and does not, each formula named with the    *)
(* window that breaks it.                                                   *)

\* Unlocks that overlap keep what the index file names.  Broken by the sweep of
\* one unlock that runs with the index another one has just reset.
OverlappingUnlocksIntact == exposed \subseteq {"overlap"} => DiskIndexIntact

\* A move keeps every file: an object that the index names is still named
\* afterwards, unless the destination was overwritten.  Broken by a move of a file
\* onto itself, which deletes the entry it has just set, and by one of a directory to
\* where its own entries are.
MoveKeepsFiles ==
    [][\A w \in Client, p, q \in Path :
          Move(w, p, q) =>
              Refs(index) \ (IF p = q THEN {} ELSE {index[q]}) \subseteq Refs(index')]_vars
============================================================================
