-------------------------- MODULE VaultStoreProofs --------------------------
(***************************************************************************)
(* Proofs about VaultStore, for any set of paths, any number of clients,   *)
(* savers and unlocks, and any operations and faults.                      *)
(***************************************************************************)
EXTENDS VaultStore, SequenceTheorems, TLAPS

----------------------------------------------------------------------------
(* The inductive invariant.                                                *)

\* Ids that have been drawn.
Made == 1..made

\* Writers between the moment their object or their entry is made and the moment
\* they give up v.mu.
Reading == {"swap", "pend", "unlink"}

\* Unlocks between the reset of the index and the end of the sweep.
Reloading == {"readFile", "install", "list", "sweep"}

\* No object is named twice.
Distinct(ix) == \A p, q \in Path : p # q /\ ix[p] \in Obj => ix[p] # ix[q]

\* What is named by an index, or waits to be deleted.
Named ==
    Refs(index) \cup Refs(disk) \cup pendingDel \cup UNION {Refs(read[u]) : u \in Unlocker}

\* Every object that is somewhere has been drawn.
MadeInv ==
    /\ objs \subseteq Made /\ Named \subseteq Made
    /\ \A a \in Actor : held[a] \subseteq Made

\* A new object that writeFile has still to put into the index is named nowhere,
\* and no other writer has it.
FreshInv ==
    \A w \in Writer : pc[w] = "swap" =>
        /\ \E o \in Obj : held[w] = {o}
        /\ held[w] \cap Named = {}
        /\ \A v \in Writer : v # w /\ pc[v] \in Reading => held[w] \cap held[v] = {}

DistinctInv ==
    Distinct(index) /\ Distinct(disk) /\ \A u \in Unlocker : Distinct(read[u])

\* Outside the windows, the objects of the index file, of the index and of writers
\* that are about to name them are on the disk, and what waits to be deleted is
\* named by none of them ...
ObjectsInv ==
    /\ Refs(disk) \subseteq objs
    /\ Refs(index) \subseteq objs \ pendingDel
    /\ \A w \in Writer : pc[w] = "swap" => held[w] \subseteq objs
    /\ \A w \in Writer : pc[w] \in {"pend", "unlink"} => held[w] \cap Refs(index) = {}

\* ... an unlock that loads is alone, with nothing to flush, and what it has read
\* and installed is the index file ...
LoadInv ==
    \A u \in Unlocker :
        /\ pc[u] \in Reloading => NoReader /\ ~dirty /\ \A v \in Unlocker \ {u} : pc[v] \notin Reloading
        /\ pc[u] \in {"readFile", "install"} => pendingDel \cap Refs(disk) = {}
        /\ pc[u] = "install" => read[u] = disk
        /\ pc[u] \in {"list", "sweep"} => index = disk

\* ... and the index differs from its file only where it was touched, but while
\* an unlock has reset it and nothing can be flushed.
SyncInv ==
    dek /\ (dirty \/ \A u \in Unlocker : pc[u] \notin {"readFile", "install", "rollback", "zero"})
        => \A p \in Path : index[p] # disk[p] => p \in touched

\* What holds whatever windows a behaviour has met, and what holds outside them.
NamesInv == TypeOK /\ MadeInv /\ FreshInv /\ DistinctInv
WindowInv == exposed = {} => ObjectsInv /\ LoadInv /\ SyncInv

StoreInv == NamesInv /\ WindowInv

----------------------------------------------------------------------------
(* Names and entries.                                                      *)

\* Writers and unlocks are different goroutines, and an entry that names an object
\* is neither missing nor a directory.
LEMMA StoreFacts ==
    /\ Writer \cap Unlocker = {}
    /\ Writer \subseteq Actor /\ Unlocker \subseteq Actor
    /\ Client \subseteq Writer /\ Savers \subseteq Writer
    /\ SysPath \in Path
    /\ Missing \notin Obj /\ Dir \notin Obj /\ Obj \subseteq Entry
    /\ Missing \in Entry /\ Dir \in Entry
    /\ Empty \in [Path -> Entry]
    /\ \A p \in Path : Empty[p] = Missing
  BY ActorAssumption, PathAssumption, StoreConfigAssumption
  DEF Writer, Actor, Missing, Dir, Obj, Entry, Empty

\* An index without entries names nothing.
LEMMA EmptyFacts == Refs(Empty) = {} /\ Distinct(Empty)
  BY StoreFacts DEF Refs, Distinct

\* A move takes entries away or puts them elsewhere: it makes none, so that no object
\* comes to be named twice.
LEMMA MovedFacts ==
    ASSUME index \in [Path -> Entry], NEW src \in Path, NEW dst \in Path
    PROVE  /\ Moved(src, dst) \in [Path -> Entry]
           /\ Refs(Moved(src, dst)) \subseteq Refs(index)
           /\ Distinct(index) => Distinct(Moved(src, dst))
  <1> DEFINE from(q) == CHOOSE r \in Live(src) : Rebase(src, dst, r) = q
  <1>1. Live(src) \subseteq Path
    BY DEF Live
  <1>2. Moved(src, dst) = [q \in Path |-> IF q \in Live(src) THEN Missing
                                          ELSE IF q \in Lands(src, dst) THEN index[from(q)]
                                          ELSE index[q]]
    BY DEF Moved
  <1>3. \A q \in Lands(src, dst) : from(q) \in Live(src) /\ Rebase(src, dst, from(q)) = q
    BY DEF Lands
  <1> HIDE DEF from
  <1>4. \A q \in Path : \/ Moved(src, dst)[q] = Missing
                        \/ /\ from(q) \in Live(src) /\ Rebase(src, dst, from(q)) = q
                           /\ Moved(src, dst)[q] = index[from(q)]
                        \/ q \notin Live(src) /\ Moved(src, dst)[q] = index[q]
    BY <1>2, <1>3
  <1>5. Moved(src, dst) \in [Path -> Entry]
    BY <1>1, <1>2, <1>3, StoreFacts
  <1>6. Refs(Moved(src, dst)) \subseteq Refs(index)
    BY <1>1, <1>4, StoreFacts DEF Refs
  <1>7. Distinct(index) => Distinct(Moved(src, dst))
    BY <1>1, <1>4, StoreFacts DEF Distinct
  <1> QED
    BY <1>5, <1>6, <1>7

\* Neither does a move of a directory to where its own entries are, in whatever order
\* they go: no entry ends in two places.
LEMMA CarriedFacts ==
    ASSUME index \in [Path -> Entry], NEW src \in Path, NEW dst \in Path,
           Lands(src, dst) \subseteq Path, NEW ix \in Carried(src, dst)
    PROVE  /\ ix \in [Path -> Entry] /\ Refs(ix) \subseteq Refs(index)
           /\ Distinct(index) => Distinct(ix)
  <1> DEFINE lands == Lands(src, dst) \ {src}
  <1>1. PICK from \in UNION {[ps -> Live(src)] : ps \in SUBSET lands} :
          /\ \A q, r \in DOMAIN from : from[q] = from[r] => q = r
          /\ ix = [q \in Path |-> IF q \in DOMAIN from THEN index[from[q]]
                                  ELSE IF q \in Live(src) THEN Missing ELSE index[q]]
    BY Zenon DEF Carried
  <1>2. Live(src) \subseteq Path /\ \A q \in DOMAIN from : from[q] \in Live(src)
    BY <1>1 DEF Live
  <1>3. \A q \in Path : \/ ix[q] = Missing
                        \/ q \in DOMAIN from /\ from[q] \in Live(src) /\ ix[q] = index[from[q]]
                        \/ q \notin Live(src) /\ ix[q] = index[q]
    BY <1>1, <1>2
  <1>4. ix \in [Path -> Entry]
    BY <1>1, <1>2, StoreFacts
  <1>5. Refs(ix) \subseteq Refs(index)
    BY <1>2, <1>3, StoreFacts DEF Refs
  <1>6. Distinct(index) => Distinct(ix)
    <2> SUFFICES ASSUME Distinct(index) PROVE Distinct(ix)
      OBVIOUS
    <2>1. \A q, r \in DOMAIN from : q # r => from[q] # from[r]
      BY <1>1
    <2> QED
      BY <1>2, <1>3, <2>1, StoreFacts DEF Distinct
  <1> QED
    BY <1>4, <1>5, <1>6

\* Both, as Move takes them.
LEMMA MoveFacts ==
    ASSUME TypeOK, NEW w \in Writer, NEW src \in Path, NEW dst \in Path, Move(w, src, dst)
    PROVE  /\ index' \in [Path -> Entry] /\ Refs(index') \subseteq Refs(index)
           /\ Distinct(index) => Distinct(index')
  <1>1. index \in [Path -> Entry] /\ Lands(src, dst) \subseteq Path
    BY DEF TypeOK, Move
  <1>2. index' \in Carried(src, dst) \/ index' = Moved(src, dst)
    BY DEF Move
  <1> QED
    BY <1>1, <1>2, MovedFacts, CarriedFacts

\* The object that a writer has made is the one it puts into the index.
LEMMA HeldFacts ==
    ASSUME FreshInv, NEW w \in Writer, pc[w] = "swap"
    PROVE  /\ held[w] = {CHOOSE o \in held[w] : TRUE}
           /\ (CHOOSE o \in held[w] : TRUE) \in Obj
  <1>1. PICK o \in Obj : held[w] = {o}
    BY DEF FreshInv
  <1>2. (CHOOSE x \in held[w] : TRUE) = o
    BY <1>1
  <1> QED
    BY <1>1, <1>2

----------------------------------------------------------------------------
(* Type correctness.                                                       *)

\* A node that has just started has an empty store and no key.
LEMMA TypeInit == Init => TypeOK
  <1> SUFFICES ASSUME Init PROVE TypeOK
    OBVIOUS
  <1>1. /\ objs \subseteq Obj /\ made \in 0..MaxObjs /\ pendingDel \subseteq Obj
        /\ disk \in [Path -> Entry] /\ index \in [Path -> Entry]
    BY StoreFacts, StoreConfigAssumption DEF Init
  <1>2. /\ dirty \in BOOLEAN /\ dek \in BOOLEAN /\ loading \in BOOLEAN
        /\ master \in Unlocker \cup {Nobody}
        /\ zeroed \subseteq Unlocker /\ sessions \subseteq Unlocker
        /\ touched \subseteq Path /\ exposed \subseteq {"remove", "reload", "overlap"}
    BY DEF Init
  <1>3. /\ pc \in [Actor -> {"idle"} \cup WriteLabel \cup LoadLabel]
        /\ at \in [Writer -> Path] /\ held \in [Actor -> SUBSET Obj]
        /\ read \in [Unlocker -> [Path -> Entry]]
    BY StoreFacts DEF Init
  <1> QED
    BY <1>1, <1>2, <1>3 DEF TypeOK

\* No critical section of the file API takes a variable out of its type: the object
\* that goes into the index is the one its writer has made,
LEMMA TypeWriter ==
    ASSUME TypeOK, FreshInv, NEW w \in Writer, Enter(w) \/ WriterStep(w)
    PROVE  TypeOK'
  <1> USE StoreFacts DEF TypeOK, Goto, Expose, WriteLabel
  <1>1. CASE Enter(w)
    BY <1>1 DEF Enter, disks, memory, keys, locals, history
  <1>2. CASE Refused(w)
    BY <1>2 DEF Refused, disks, memory, keys, locals, history
  <1>3. ASSUME NEW p \in Path, WriteObject(w, p) PROVE TypeOK'
    BY <1>3, StoreConfigAssumption DEF WriteObject, memory, keys, Obj
  <1>4. ASSUME NEW p \in Path, RemoveEntries(w, p) PROVE TypeOK'
    BY <1>4 DEF RemoveEntries, disks, keys
  <1>5. ASSUME NEW p \in Path, Mkdir(w, p) PROVE TypeOK'
    BY <1>5 DEF Mkdir, disks, keys, locals
  <1>6. ASSUME NEW p \in Path, NEW q \in Path, Move(w, p, q) PROVE TypeOK'
    BY <1>6, MoveFacts DEF Move, disks, keys, locals
  <1>7. CASE WriteSwap(w)
    <2>1. (CHOOSE o \in held[w] : TRUE) \in Entry
      BY <1>7, HeldFacts DEF WriteSwap
    <2> DEFINE new == [index EXCEPT ![at[w]] = CHOOSE o \in held[w] : TRUE]
    <2>2. index' \in [Path -> Entry] /\ touched' \subseteq Path
      <3>1. \/ index' = new /\ touched' = touched \cup {at[w]}
            \/ /\ Parent(at[w]) \in Path
               /\ index' = [new EXCEPT ![Parent(at[w])] = Dir]
               /\ touched' = touched \cup {at[w]} \cup {Parent(at[w])}
        BY <1>7, Zenon DEF WriteSwap
      <3>2. new \in [Path -> Entry] /\ at[w] \in Path
        BY <2>1
      <3> HIDE DEF new
      <3> QED
        BY <3>1, <3>2
    <2>3. held' \in [Actor -> SUBSET Obj]
      BY <1>7 DEF WriteSwap
    <2>4. exposed' \subseteq {"remove", "reload", "overlap"}
      BY <1>7 DEF WriteSwap
    <2>5. pc' \in [Actor -> {"idle"} \cup WriteLabel \cup LoadLabel] /\ dirty' \in BOOLEAN
      BY <1>7 DEF WriteSwap
    <2>6. UNCHANGED <<objs, disk, made, pendingDel, dek, master, zeroed, loading, sessions, at, read>>
      BY <1>7 DEF WriteSwap, disks, keys
    <2> QED
      BY <2>2, <2>3, <2>4, <2>5, <2>6
  <1>8. CASE WritePend(w)
    BY <1>8 DEF WritePend, disks, keys, history
  <1>9. CASE RemoveObjects(w)
    BY <1>9 DEF RemoveObjects, memory, keys
  <1>10. CASE SaveFlush(w)
    BY <1>10 DEF SaveFlush, Flushed, NotFlushed, disks, memory, keys, locals
  <1> QED
    BY <1>1, <1>2, <1>3, <1>4, <1>5, <1>6, <1>7, <1>8, <1>9, <1>10 DEF WriterStep

\* ... of an unlock,
LEMMA TypeUnlocker ==
    ASSUME TypeOK, NEW u \in Unlocker, Unlock(u) \/ UnlockStep(u)
    PROVE  TypeOK'
  <1> USE StoreFacts DEF TypeOK, Goto, LoadLabel, ZeroKeys, DropMaster
  <1>1. CASE Unlock(u)
    BY <1>1 DEF Unlock, disks, memory, locals, history
  <1>2. CASE LoadUnwrap(u)
    BY <1>2 DEF LoadUnwrap, disks, memory, keys, locals, history
  <1>3. CASE LoadReset(u)
    BY <1>3 DEF LoadReset, disks, keys, locals
  <1>4. CASE LoadRead(u)
    BY <1>4 DEF LoadRead, disks, memory, keys, history
  <1>5. CASE LoadInstall(u)
    BY <1>5 DEF LoadInstall, disks, keys, history
  <1>6. CASE SweepList(u)
    BY <1>6 DEF SweepList, disks, memory, keys, history
  <1>7. CASE SweepDelete(u)
    BY <1>7 DEF SweepDelete, memory, keys, history
  <1>8. CASE UnlockReady(u)
    BY <1>8 DEF UnlockReady, disks, memory, locals, history
  <1>9. CASE UnlockRollback(u)
    BY <1>9 DEF UnlockRollback, disks, memory, locals, history
  <1>10. CASE RollbackZeroKeys(u)
    BY <1>10 DEF RollbackZeroKeys, disks, keys, locals, history
  <1> QED
    BY <1>1, <1>2, <1>3, <1>4, <1>5, <1>6, <1>7, <1>8, <1>9, <1>10 DEF UnlockStep

\* ... or of a lock, and neither does a flush or a crash.
LEMMA TypeOthers ==
    ASSUME TypeOK, FlushLoop \/ Lock \/ Expire \/ Crash \/ CrashInFlush
    PROVE  TypeOK'
  <1> USE StoreFacts DEF TypeOK, ZeroKeys, DropMaster
  <1>1. CASE FlushLoop
    BY <1>1 DEF FlushLoop, Flushed, keys, locals
  <1>2. ASSUME FlushAndDropKeys PROVE /\ objs' \subseteq Obj /\ pendingDel' \subseteq Obj
                                      /\ disk' \in [Path -> Entry] /\ index' = index
                                      /\ dirty' \in BOOLEAN /\ dek' \in BOOLEAN /\ touched' \subseteq Path
                                      /\ made' = made /\ zeroed' \subseteq Unlocker /\ master' = Nobody
    BY <1>2 DEF FlushAndDropKeys
  <1>3. CASE Lock
    BY <1>2, <1>3 DEF Lock, locals
  <1>4. CASE Expire
    BY <1>2, <1>4 DEF Expire, disks, memory, locals
  <1>5. CASE Crash
    BY <1>5 DEF Crash, Reboot
  <1>6. CASE CrashInFlush
    BY <1>6 DEF CrashInFlush, Reboot
  <1> QED
    BY <1>1, <1>3, <1>4, <1>5, <1>6

----------------------------------------------------------------------------
(* Objects that are named, and those that are not yet.                     *)

\* A step that draws no object and names none, and leaves the objects that writers
\* have to them, or gives them some that are named.
LEMMA NothingNew ==
    ASSUME TypeOK, MadeInv, FreshInv,
           made' = made, objs' \subseteq objs, Named' \subseteq Named,
           \A u \in Unlocker : held'[u] \subseteq Made,
           \A w \in Writer : \/ held'[w] = held[w] /\ pc'[w] = pc[w]
                             \/ held'[w] \subseteq Made /\ pc'[w] \notin Reading
                             \/ held'[w] \subseteq Named /\ pc'[w] # "swap"
    PROVE  MadeInv' /\ FreshInv'
  <1>1. MadeInv'
    BY DEF MadeInv, Made, Actor
  <1>2. FreshInv'
    <2> SUFFICES ASSUME NEW w \in Writer, pc'[w] = "swap"
                 PROVE  /\ \E o \in Obj : held'[w] = {o}
                        /\ held'[w] \cap Named' = {}
                        /\ \A v \in Writer : v # w /\ pc'[v] \in Reading => held'[w] \cap held'[v] = {}
      BY DEF FreshInv
    <2>1. held'[w] = held[w] /\ pc[w] = "swap"
      BY DEF Reading
    <2>2. \A v \in Writer : pc'[v] \in Reading =>
             (held'[v] = held[v] /\ pc[v] \in Reading) \/ held'[v] \subseteq Named
      OBVIOUS
    <2>3. /\ \E o \in Obj : held[w] = {o}
          /\ held[w] \cap Named = {}
          /\ \A v \in Writer : v # w /\ pc[v] \in Reading => held[w] \cap held[v] = {}
      BY <2>1 DEF FreshInv
    <2> QED
      BY <2>1, <2>2, <2>3
  <1> QED
    BY <1>1, <1>2

\* The object writeFile makes is a new one.
LEMMA WriteObjectFresh ==
    ASSUME TypeOK, MadeInv, FreshInv, NEW w \in Writer, NEW p \in Path, WriteObject(w, p)
    PROVE  MadeInv' /\ FreshInv'
  <1>1. /\ made' = made + 1 /\ objs' = objs \cup {made + 1} /\ made + 1 \in Obj /\ made \in Nat
        /\ held' = [held EXCEPT ![w] = {made + 1}] /\ pc' = [pc EXCEPT ![w] = "swap"]
        /\ UNCHANGED <<disk, index, pendingDel, read>>
    BY StoreConfigAssumption DEF WriteObject, Goto, memory, TypeOK, Obj
  <1>2. Named' = Named
    BY <1>1 DEF Named, Refs
  <1>3. Made' = Made \cup {made + 1} /\ made + 1 \notin Made
    BY <1>1 DEF Made
  <1>4. MadeInv'
    BY <1>1, <1>2, <1>3, StoreFacts DEF MadeInv, TypeOK
  <1>5. FreshInv'
    <2>1. /\ held'[w] = {made + 1} /\ pc'[w] = "swap"
          /\ \A v \in Writer \ {w} : held'[v] = held[v] /\ pc'[v] = pc[v]
      BY <1>1, StoreFacts DEF TypeOK
    <2>2. \A v \in Writer : made + 1 \notin held[v]
      BY <1>3, StoreFacts DEF MadeInv
    <2>3. made + 1 \notin Named
      BY <1>3 DEF MadeInv
    <2> QED
      BY <1>1, <1>2, <2>1, <2>2, <2>3 DEF FreshInv
  <1> QED
    BY <1>4, <1>5

\* A path is not its own parent.
LEMMA ParentFacts == \A p \in Path : Parent(p) # p
  <1> SUFFICES ASSUME NEW p \in Path PROVE Parent(p) # p
    OBVIOUS
  <1>1. p \in Seq(STRING) /\ Len(p) \in Nat /\ Len(p) > 0
    BY PathAssumption
  <1>2. \A i \in 1..Len(p) - 1 : p[i] \in STRING
    BY <1>1
  <1>3. Len(Parent(p)) = IF 1 <= Len(p) - 1 THEN (Len(p) - 1) - 1 + 1 ELSE 0
    BY <1>1, <1>2, SubSeqProperties DEF Parent
  <1> QED
    BY <1>1, <1>3

\* What the exchange of an index entry does: the new object is named at the path,
\* the old one is held, and nothing else names another object than before.
LEMMA SwapFacts ==
    ASSUME TypeOK, FreshInv, NEW w \in Writer, WriteSwap(w)
    PROVE  \E o \in Obj :
             /\ held[w] = {o} /\ pc[w] = "swap" /\ at[w] \in Path /\ index'[at[w]] = o
             /\ \A q \in Path \ {at[w]} :
                   index'[q] = index[q] \/ (index[q] = Missing /\ index'[q] = Dir)
             /\ held' = [held EXCEPT ![w] = {index[at[w]]} \cap Obj]
             /\ pc' = [pc EXCEPT ![w] = "pend"]
             /\ touched \subseteq touched' /\ \A q \in Path : index'[q] # index[q] => q \in touched'
             /\ UNCHANGED <<objs, disk, made, pendingDel, read>>
  <1> DEFINE o == CHOOSE x \in held[w] : TRUE
             new == [index EXCEPT ![at[w]] = o]
  <1>1. pc[w] = "swap"
    BY DEF WriteSwap
  <1>2. held[w] = {o} /\ o \in Obj
    BY <1>1, HeldFacts
  <1>3. at[w] \in Path /\ Parent(at[w]) # at[w]
    BY ParentFacts DEF TypeOK
  <1>4. \/ index' = new /\ touched' = touched \cup {at[w]}
        \/ /\ Parent(at[w]) \in Path /\ index[Parent(at[w])] = Missing
           /\ index' = [new EXCEPT ![Parent(at[w])] = Dir]
           /\ touched' = touched \cup {at[w]} \cup {Parent(at[w])}
    BY Zenon DEF WriteSwap
  <1>5. /\ held' = [held EXCEPT ![w] = {index[at[w]]} \cap Obj]
        /\ pc' = [pc EXCEPT ![w] = "pend"]
        /\ UNCHANGED <<objs, disk, made, pendingDel, read>>
    BY DEF WriteSwap, Goto, disks
  <1>6. /\ new[at[w]] = o /\ \A q \in Path \ {at[w]} : new[q] = index[q]
        /\ DOMAIN new = Path
    BY <1>3 DEF TypeOK
  <1> HIDE DEF new, o
  <1>7. /\ index'[at[w]] = o
        /\ \A q \in Path \ {at[w]} :
              index'[q] = index[q] \/ (index[q] = Missing /\ index'[q] = Dir)
        /\ touched \subseteq touched' /\ \A q \in Path : index'[q] # index[q] => q \in touched'
    <2>1. CASE index' = new /\ touched' = touched \cup {at[w]}
      BY <2>1, <1>6
    <2>2. CASE /\ Parent(at[w]) \in Path /\ index[Parent(at[w])] = Missing
               /\ index' = [new EXCEPT ![Parent(at[w])] = Dir]
               /\ touched' = touched \cup {at[w]} \cup {Parent(at[w])}
      <3>1. /\ index'[Parent(at[w])] = Dir
            /\ \A q \in Path \ {Parent(at[w])} : index'[q] = new[q]
        BY <2>2, <1>6
      <3> QED
        BY <2>2, <3>1, <1>3, <1>6
    <2> QED
      BY <1>4, <2>1, <2>2
  <1> QED
    BY <1>1, <1>2, <1>3, <1>5, <1>7

\* The object put into the index was named nowhere before, so that it is named once.
LEMMA WriteSwapFresh ==
    ASSUME TypeOK, MadeInv, FreshInv, DistinctInv, NEW w \in Writer, WriteSwap(w)
    PROVE  MadeInv' /\ FreshInv' /\ DistinctInv'
  <1>1. PICK o \in Obj :
             /\ held[w] = {o} /\ pc[w] = "swap" /\ at[w] \in Path /\ index'[at[w]] = o
             /\ \A q \in Path \ {at[w]} :
                   index'[q] = index[q] \/ (index[q] = Missing /\ index'[q] = Dir)
             /\ held' = [held EXCEPT ![w] = {index[at[w]]} \cap Obj]
             /\ pc' = [pc EXCEPT ![w] = "pend"]
             /\ UNCHANGED <<objs, disk, made, pendingDel, read>>
    BY SwapFacts
  <1>2. /\ o \notin Named /\ o \in Made
        /\ \A v \in Writer \ {w} : pc[v] \in Reading => o \notin held[v]
    BY <1>1, StoreFacts DEF FreshInv, MadeInv
  <1>3. Refs(index') \subseteq Refs(index) \cup {o}
    BY <1>1, StoreFacts DEF Refs
  <1>4. Named' \subseteq Named \cup {o}
    BY <1>1, <1>3 DEF Named
  <1>5. /\ held'[w] = {index[at[w]]} \cap Obj /\ pc'[w] = "pend"
        /\ \A v \in Writer \ {w} : held'[v] = held[v] /\ pc'[v] = pc[v]
        /\ \A a \in Actor \ {w} : held'[a] = held[a]
    BY <1>1, StoreFacts DEF TypeOK
  <1>6. held'[w] \subseteq Refs(index) /\ Refs(index) \subseteq Named
    BY <1>1, <1>5 DEF Refs, Named
  <1>7. MadeInv'
    BY <1>1, <1>2, <1>4, <1>5, <1>6, StoreFacts DEF MadeInv, Made
  <1>8. FreshInv'
    <2> SUFFICES ASSUME NEW x \in Writer, pc'[x] = "swap"
                 PROVE  /\ \E y \in Obj : held'[x] = {y}
                        /\ held'[x] \cap Named' = {}
                        /\ \A v \in Writer : v # x /\ pc'[v] \in Reading => held'[x] \cap held'[v] = {}
      BY DEF FreshInv
    <2>1. x # w /\ pc[x] = "swap" /\ held'[x] = held[x]
      BY <1>5
    <2>2. /\ \E y \in Obj : held[x] = {y}
          /\ held[x] \cap Named = {}
          /\ \A v \in Writer : v # x /\ pc[v] \in Reading => held[x] \cap held[v] = {}
      BY <2>1 DEF FreshInv
    <2>3. o \notin held[x]
      BY <1>2, <2>1 DEF Reading
    <2>4. ASSUME NEW v \in Writer, v # x, pc'[v] \in Reading PROVE held'[x] \cap held'[v] = {}
      BY <1>5, <1>6, <2>1, <2>2, <2>4
    <2> QED
      BY <1>4, <2>1, <2>2, <2>3, <2>4
  <1>9. DistinctInv'
    <2>1. \A q \in Path : index[q] \in Obj => index[q] # o
      BY <1>2 DEF Named, Refs
    <2>2. Distinct(index')
      BY <1>1, <2>1, StoreFacts DEF Distinct, DistinctInv
    <2> QED
      BY <1>1, <2>2 DEF DistinctInv
  <1> QED
    BY <1>7, <1>8, <1>9

\* The object that waits for the next flush was in the index: no writer is about to
\* name it.
LEMMA WritePendFresh ==
    ASSUME TypeOK, MadeInv, FreshInv, NEW w \in Writer, WritePend(w)
    PROVE  MadeInv' /\ FreshInv'
  <1>1. /\ pc[w] = "pend" /\ pendingDel' = pendingDel \cup held[w]
        /\ held' = [held EXCEPT ![w] = {}]
        /\ \E l \in {"flush", "idle"} : pc' = [pc EXCEPT ![w] = l]
        /\ UNCHANGED <<objs, disk, made, index, read>>
    BY DEF WritePend, Goto, disks
  <1>2. /\ held'[w] = {} /\ pc'[w] \in {"flush", "idle"}
        /\ \A v \in Writer \ {w} : held'[v] = held[v] /\ pc'[v] = pc[v]
        /\ \A a \in Actor \ {w} : held'[a] = held[a]
    BY <1>1, StoreFacts DEF TypeOK
  <1>3. Named' = Named \cup held[w]
    BY <1>1 DEF Named
  <1>4. MadeInv'
    BY <1>1, <1>2, <1>3, StoreFacts DEF MadeInv, Made
  <1>5. FreshInv'
    <2> SUFFICES ASSUME NEW x \in Writer, pc'[x] = "swap"
                 PROVE  /\ \E y \in Obj : held'[x] = {y}
                        /\ held'[x] \cap Named' = {}
                        /\ \A v \in Writer : v # x /\ pc'[v] \in Reading => held'[x] \cap held'[v] = {}
      BY DEF FreshInv
    <2>1. x # w /\ pc[x] = "swap" /\ held'[x] = held[x]
      BY <1>2
    <2>2. /\ \E y \in Obj : held[x] = {y}
          /\ held[x] \cap Named = {}
          /\ \A v \in Writer : v # x /\ pc[v] \in Reading => held[x] \cap held[v] = {}
      BY <2>1 DEF FreshInv
    <2>3. held[x] \cap held[w] = {}
      BY <1>1, <2>1, <2>2 DEF Reading
    <2> QED
      BY <1>2, <1>3, <2>1, <2>2, <2>3
  <1> QED
    BY <1>4, <1>5

\* What a removal holds was in the index and is so no more.
LEMMA RemoveFacts ==
    ASSUME TypeOK, NEW w \in Writer, NEW p \in Path, RemoveEntries(w, p)
    PROVE  /\ \A q \in Path : index'[q] = index[q] \/ (index'[q] = Missing /\ q \in touched')
           /\ held' = [held EXCEPT ![w] = held'[w]] /\ held'[w] \subseteq Refs(index)
           /\ Distinct(index) => held'[w] \cap Refs(index') = {}
           /\ pc' = [pc EXCEPT ![w] = "unlink"]
           /\ touched \subseteq touched'
           /\ UNCHANGED <<objs, disk, made, pendingDel, read>>
  <1> DEFINE gone == {p} \cup (IF index[p] = Dir THEN {q \in Path : Below(p, q)} ELSE {})
             out == {index[q] : q \in gone} \cap Obj
  <1>1. gone \subseteq Path
    OBVIOUS
  <1>2. /\ index' = [q \in Path |-> IF q \in gone THEN Missing ELSE index[q]]
        /\ touched' = touched \cup gone
        /\ held' = [held EXCEPT ![w] = out]
        /\ pc' = [pc EXCEPT ![w] = "unlink"]
        /\ UNCHANGED <<objs, disk, made, pendingDel, read>>
    BY DEF RemoveEntries, Goto, disks
  <1> HIDE DEF gone
  <1>3. held'[w] = out
    BY <1>2, StoreFacts DEF TypeOK
  <1>4. \A q \in Path : index'[q] = index[q] \/ (index'[q] = Missing /\ q \in touched')
    BY <1>2
  <1>5. held'[w] \subseteq Refs(index)
    BY <1>1, <1>3 DEF Refs
  <1>6. Distinct(index) => held'[w] \cap Refs(index') = {}
    BY <1>1, <1>2, <1>3, StoreFacts DEF Refs, Distinct
  <1> QED
    BY <1>2, <1>3, <1>4, <1>5, <1>6

\* Every critical section of the file API keeps what names the objects,
LEMMA WriterFresh ==
    ASSUME TypeOK, MadeInv, FreshInv, DistinctInv, NEW w \in Writer, Enter(w) \/ WriterStep(w)
    PROVE  MadeInv' /\ FreshInv'
  <1> USE StoreFacts
  <1> DEFINE Quiet ==
          /\ made' = made /\ objs' \subseteq objs /\ Named' \subseteq Named
          /\ \A a \in Actor \ {w} : held'[a] = held[a] /\ pc'[a] = pc[a]
          /\ \/ held'[w] = held[w] /\ pc'[w] \notin Reading
             \/ held'[w] = {} /\ pc'[w] \notin Reading
             \/ held'[w] \subseteq Named /\ pc'[w] # "swap"
  <1>0. Quiet => MadeInv' /\ FreshInv'
    <2> SUFFICES ASSUME Quiet PROVE MadeInv' /\ FreshInv'
      OBVIOUS
    <2>1. \A u \in Unlocker : held'[u] \subseteq Made
      BY DEF MadeInv
    <2>2. \A v \in Writer : \/ held'[v] = held[v] /\ pc'[v] = pc[v]
                            \/ held'[v] \subseteq Made /\ pc'[v] \notin Reading
                            \/ held'[v] \subseteq Named /\ pc'[v] # "swap"
      BY DEF MadeInv
    <2> QED
      BY <2>1, <2>2, NothingNew
  <1>1. CASE Enter(w) \/ Refused(w)
    BY <1>0, <1>1 DEF Enter, Refused, Goto, disks, memory, locals, Named, Reading, TypeOK
  <1>2. ASSUME NEW p \in Path, Mkdir(w, p) PROVE Quiet
    <2>1. Refs(index') \subseteq Refs(index)
      BY <1>2 DEF Mkdir, Refs, TypeOK
    <2> QED
      BY <1>2, <2>1, ZenonT(60) DEF Mkdir, Goto, disks, locals, Named, Reading, TypeOK
  <1>3. ASSUME NEW p \in Path, NEW q \in Path, Move(w, p, q) PROVE Quiet
    <2>1. Refs(index') \subseteq Refs(index)
      BY <1>3, MoveFacts
    <2> QED
      BY <1>3, <2>1 DEF Move, Goto, disks, locals, Named, Reading, TypeOK
  <1>4. ASSUME NEW p \in Path, RemoveEntries(w, p) PROVE Quiet
    <2>1. /\ held'[w] \subseteq Refs(index) /\ held' = [held EXCEPT ![w] = held'[w]]
          /\ pc' = [pc EXCEPT ![w] = "unlink"]
          /\ \A q \in Path : index'[q] = index[q] \/ index'[q] = Missing
          /\ UNCHANGED <<objs, disk, made, pendingDel, read>>
      BY <1>4, RemoveFacts
    <2>2. Refs(index') \subseteq Refs(index)
      BY <2>1 DEF Refs
    <2>3. \A a \in Actor \ {w} : held'[a] = held[a] /\ pc'[a] = pc[a]
      BY <2>1 DEF TypeOK
    <2>4. pc'[w] = "unlink"
      BY <2>1 DEF TypeOK
    <2> QED
      BY <2>1, <2>2, <2>3, <2>4 DEF Named
  <1>5. CASE RemoveObjects(w)
    BY <1>0, <1>5 DEF RemoveObjects, Goto, memory, Named, Reading, TypeOK
  <1>6. CASE SaveFlush(w)
    BY <1>0, <1>6 DEF SaveFlush, Flushed, NotFlushed, Goto, disks, memory, locals, Named, Reading, TypeOK
  <1>7. ASSUME NEW p \in Path, WriteObject(w, p) PROVE MadeInv' /\ FreshInv'
    BY <1>7, WriteObjectFresh
  <1>8. CASE WriteSwap(w)
    BY <1>8, WriteSwapFresh
  <1>9. CASE WritePend(w)
    BY <1>9, WritePendFresh
  <1> QED
    BY <1>0, <1>1, <1>2, <1>3, <1>4, <1>5, <1>6, <1>7, <1>8, <1>9, Zenon DEF WriterStep

\* ... and so does every step of an unlock,
LEMMA UnlockerFresh ==
    ASSUME TypeOK, MadeInv, FreshInv, NEW u \in Unlocker, Unlock(u) \/ UnlockStep(u)
    PROVE  MadeInv' /\ FreshInv'
  <1> USE StoreFacts
  <1>1. \A w \in Writer : held'[w] = held[w] /\ pc'[w] = pc[w]
    <2>1. \A w \in Writer : w # u
      OBVIOUS
    <2>2. /\ \E l : pc' = [pc EXCEPT ![u] = l]
          /\ \E h : held' = [held EXCEPT ![u] = h] \/ held' = held
      BY DEF UnlockStep, Unlock, LoadUnwrap, LoadReset, LoadRead, LoadInstall, SweepList, SweepDelete,
           UnlockReady, UnlockRollback, RollbackZeroKeys, Goto, locals
    <2> QED
      BY <2>1, <2>2 DEF TypeOK
  <1>2. \A v \in Unlocker : held'[v] \subseteq held[v] \cup objs
    BY DEF UnlockStep, Unlock, LoadUnwrap, LoadReset, LoadRead, LoadInstall, SweepList, SweepDelete,
         UnlockReady, UnlockRollback, RollbackZeroKeys, Goto, locals, TypeOK
  <1>3. made' = made /\ objs' \subseteq objs
    BY DEF UnlockStep, Unlock, LoadUnwrap, LoadReset, LoadRead, LoadInstall, SweepList, SweepDelete,
         UnlockReady, UnlockRollback, RollbackZeroKeys, disks
  <1>4. Named' \subseteq Named
    <2>1. disk' = disk /\ pendingDel' = pendingDel
      BY DEF UnlockStep, Unlock, LoadUnwrap, LoadReset, LoadRead, LoadInstall, SweepList, SweepDelete,
           UnlockReady, UnlockRollback, RollbackZeroKeys, disks, memory
    <2>2. index' \in {index, Empty, read[u]}
      BY DEF UnlockStep, Unlock, LoadUnwrap, LoadReset, LoadRead, LoadInstall, SweepList, SweepDelete,
           UnlockReady, UnlockRollback, RollbackZeroKeys, memory
    <2>3. \A v \in Unlocker : read'[v] \in {read[v], disk, Empty}
      BY DEF UnlockStep, Unlock, LoadUnwrap, LoadReset, LoadRead, LoadInstall, SweepList, SweepDelete,
           UnlockReady, UnlockRollback, RollbackZeroKeys, locals, TypeOK
    <2>4. Refs(Empty) = {}
      BY EmptyFacts
    <2> QED
      BY <2>1, <2>2, <2>3, <2>4 DEF Named
  <1>5. \A v \in Unlocker : held'[v] \subseteq Made
    BY <1>2 DEF MadeInv
  <1> QED
    BY <1>1, <1>3, <1>4, <1>5, NothingNew

\* ... every flush, lock and crash.
LEMMA OthersFresh ==
    ASSUME TypeOK, MadeInv, FreshInv, FlushLoop \/ Lock \/ Expire \/ Crash \/ CrashInFlush
    PROVE  MadeInv' /\ FreshInv'
  <1> USE StoreFacts
  <1>1. made' = made /\ objs' \subseteq objs /\ pendingDel' \subseteq pendingDel
    BY DEF FlushLoop, Lock, Expire, Crash, CrashInFlush, Flushed, FlushAndDropKeys, Reboot, disks, memory
  <1>2. disk' \in {disk, index} /\ index' \in {index, Empty}
    BY DEF FlushLoop, Lock, Expire, Crash, CrashInFlush, Flushed, FlushAndDropKeys, Reboot, disks, memory
  <1>3. \/ pc' = pc /\ held' = held /\ read' = read
        \/ /\ \A a \in Actor : pc'[a] = "idle" /\ held'[a] = {}
           /\ \A u \in Unlocker : read'[u] = Empty
    BY DEF FlushLoop, Lock, Expire, Crash, CrashInFlush, Reboot, locals
  <1>4. Named' \subseteq Named
    BY <1>1, <1>2, <1>3, EmptyFacts DEF Named
  <1>5. \A u \in Unlocker : held'[u] \subseteq Made
    BY <1>3 DEF MadeInv
  <1>6. \A w \in Writer : \/ held'[w] = held[w] /\ pc'[w] = pc[w]
                          \/ held'[w] \subseteq Made /\ pc'[w] \notin Reading
    BY <1>3 DEF Reading
  <1> QED
    BY <1>1, <1>4, <1>5, <1>6, NothingNew

\* No step makes two paths name one object: a copy draws a new one, a move leaves no
\* alias, and what is loaded or flushed is an index as a whole.
LEMMA DistinctKept ==
    ASSUME TypeOK, MadeInv, FreshInv, DistinctInv, Next
    PROVE  DistinctInv'
  <1> USE StoreFacts
  <1>1. ASSUME Distinct(index'), disk' = disk \/ disk' = index,
               \A u \in Unlocker : read'[u] = read[u] \/ read'[u] = disk \/ read'[u] = Empty
        PROVE  DistinctInv'
    BY <1>1, EmptyFacts DEF DistinctInv
  <1>2. Distinct(index) /\ Distinct(Empty)
    BY EmptyFacts DEF DistinctInv
  <1>3. ASSUME NEW w \in Writer, Enter(w) \/ WriterStep(w) PROVE DistinctInv'
    <2>1. CASE WriteSwap(w)
      BY <2>1, WriteSwapFresh
    <2>2. ASSUME NEW p \in Path, RemoveEntries(w, p) PROVE DistinctInv'
      <3>1. /\ \A q \in Path : index'[q] = index[q] \/ index'[q] = Missing
            /\ UNCHANGED <<disk, read>>
        BY <2>2, RemoveFacts
      <3>2. Distinct(index')
        BY <1>2, <3>1 DEF Distinct
      <3> QED
        BY <1>1, <3>1, <3>2
    <2>3. ASSUME NEW p \in Path, Mkdir(w, p) PROVE DistinctInv'
      <3>1. Distinct(index')
        BY <1>2, <2>3 DEF Mkdir, Distinct, TypeOK
      <3> QED
        BY <1>1, <2>3, <3>1 DEF Mkdir, disks, locals
    <2>4. ASSUME NEW p \in Path, NEW q \in Path, Move(w, p, q) PROVE DistinctInv'
      <3>1. Distinct(index')
        BY <1>2, <2>4, MoveFacts
      <3> QED
        BY <1>1, <2>4, <3>1 DEF Move, disks, locals
    <2>5. ASSUME \/ Enter(w) \/ Refused(w) \/ WritePend(w) \/ RemoveObjects(w) \/ SaveFlush(w)
                 \/ \E p \in Path : WriteObject(w, p)
          PROVE  DistinctInv'
      <3>1. index' = index /\ read' = read /\ (disk' = disk \/ disk' = index)
        BY <2>5 DEF Enter, Refused, WritePend, RemoveObjects, SaveFlush, WriteObject, Flushed,
             NotFlushed, disks, memory, locals
      <3> QED
        BY <1>1, <1>2, <3>1
    <2> QED
      BY <1>3, <2>1, <2>2, <2>3, <2>4, <2>5, Zenon DEF WriterStep
  <1>4. ASSUME NEW u \in Unlocker, Unlock(u) \/ UnlockStep(u) PROVE DistinctInv'
    <2>1. /\ index' \in {index, Empty, read[u]} /\ disk' = disk
          /\ \A v \in Unlocker : read'[v] = read[v] \/ read'[v] = disk \/ read'[v] = Empty
      BY <1>4 DEF UnlockStep, Unlock, LoadUnwrap, LoadReset, LoadRead, LoadInstall, SweepList,
           SweepDelete, UnlockReady, UnlockRollback, RollbackZeroKeys, disks, memory, locals, TypeOK
    <2>2. Distinct(index')
      BY <1>2, <2>1 DEF DistinctInv
    <2> QED
      BY <1>1, <2>1, <2>2
  <1>5. ASSUME FlushLoop \/ Lock \/ Expire \/ Crash \/ CrashInFlush PROVE DistinctInv'
    <2>1. /\ index' \in {index, Empty} /\ (disk' = disk \/ disk' = index)
          /\ read' = read \/ \A v \in Unlocker : read'[v] = Empty
      BY <1>5 DEF FlushLoop, Lock, Expire, Crash, CrashInFlush, Flushed, FlushAndDropKeys, Reboot,
           disks, memory, locals
    <2> QED
      BY <1>1, <1>2, <2>1
  <1> QED
    BY <1>3, <1>4, <1>5, Zenon DEF Next

\* A node that has just started holds no object and names none.
LEMMA FreshInit == Init => MadeInv /\ FreshInv /\ DistinctInv
  <1> SUFFICES ASSUME Init PROVE MadeInv /\ FreshInv /\ DistinctInv
    OBVIOUS
  <1>1. Named = {}
    BY EmptyFacts DEF Init, Named
  <1>2. MadeInv
    BY <1>1 DEF Init, MadeInv
  <1>3. FreshInv
    BY StoreFacts DEF Init, FreshInv
  <1>4. DistinctInv
    BY EmptyFacts DEF Init, DistinctInv
  <1> QED
    BY <1>2, <1>3, <1>4

\* NamesInv is inductive.
LEMMA NamesInvInductive ==
    /\ Init => NamesInv
    /\ NamesInv /\ [Next]_vars => NamesInv'
  <1>1. Init => NamesInv
    BY TypeInit, FreshInit DEF NamesInv
  <1>2. ASSUME NamesInv, Next PROVE NamesInv'
    <2>1. TypeOK'
      BY <1>2, TypeWriter, TypeUnlocker, TypeOthers, Zenon DEF NamesInv, Next
    <2>2. MadeInv' /\ FreshInv'
      BY <1>2, WriterFresh, UnlockerFresh, OthersFresh, Zenon DEF NamesInv, Next
    <2> QED
      BY <1>2, <2>1, <2>2, DistinctKept DEF NamesInv
  <1>3. ASSUME NamesInv, UNCHANGED vars PROVE NamesInv'
    BY <1>3 DEF NamesInv, TypeOK, MadeInv, FreshInv, DistinctInv, Named, vars, NoReader,
         Refs, Distinct, Made, Reading
  <1> QED
    BY <1>1, <1>2, <1>3

\* Every variable of the vault store keeps to its type.
THEOREM StoreTypeCorrect == Spec => []TypeOK
  <1>1. NamesInv => TypeOK
    BY DEF NamesInv
  <1> QED
    BY NamesInvInductive, <1>1, PTL DEF Spec

\* Whatever writes, moves, removals, locks, unlocks and crashes come in whatever
\* order, no two paths ever name one object, in memory or in the index file.
THEOREM NoAliasHolds == Spec => []NoAlias
  <1>1. NamesInv => NoAlias
    BY DEF NamesInv, DistinctInv, Distinct, NoAlias
  <1> QED
    BY NamesInvInductive, <1>1, PTL DEF Spec

----------------------------------------------------------------------------
(* Outside the windows.                                                    *)

\* A behaviour that has met a window stays one that has.
LEMMA ExposedStays ==
    ASSUME TypeOK, Next, exposed' = {}
    PROVE  exposed = {}
  <1>1. ASSUME NEW w \in Writer, Enter(w) \/ WriterStep(w) PROVE exposed \subseteq exposed'
    BY <1>1 DEF WriterStep, Enter, Refused, WriteObject, RemoveEntries, Mkdir, Move, WriteSwap, WritePend,
         RemoveObjects, SaveFlush, Expose, history
  <1>2. ASSUME NEW u \in Unlocker, Unlock(u) \/ UnlockStep(u) PROVE exposed \subseteq exposed'
    BY <1>2 DEF UnlockStep, Unlock, LoadUnwrap, LoadReset, LoadRead, LoadInstall, SweepList,
         SweepDelete, UnlockReady, UnlockRollback, RollbackZeroKeys, history
  <1>3. ASSUME FlushLoop \/ Lock \/ Expire \/ Crash \/ CrashInFlush PROVE exposed \subseteq exposed'
    BY <1>3 DEF FlushLoop, Lock, Expire, Crash, CrashInFlush, Reboot
  <1>4. exposed \subseteq exposed'
    BY <1>1, <1>2, <1>3, Zenon DEF Next
  <1> QED
    BY <1>4

\* An operation on the index while no unlock is loading: what it changes is touched.
LEMMA OpKeepsSync ==
    ASSUME LoadInv, SyncInv, Loaders = {},
           \A u \in Unlocker : pc'[u] = pc[u],
           dek' = dek, disk' = disk, touched \subseteq touched',
           \A p \in Path : index'[p] # index[p] => p \in touched'
    PROVE  LoadInv' /\ SyncInv'
  <1>1. \A u \in Unlocker : pc'[u] \notin Reloading \cup {"rollback", "zero"}
    BY DEF Loaders, Reloading
  <1>2. LoadInv'
    BY <1>1 DEF LoadInv, Reloading
  <1>3. dek => \A p \in Path : index[p] # disk[p] => p \in touched
    BY DEF SyncInv, Loaders
  <1>4. SyncInv'
    BY <1>3 DEF SyncInv
  <1> QED
    BY <1>2, <1>4

\* The operations of the file API keep the objects that the indexes name.
LEMMA OpsInWindow ==
    ASSUME NamesInv, ObjectsInv, LoadInv, SyncInv, exposed = {}, exposed' = {},
           NEW w \in Writer,
           \/ WriteSwap(w)
           \/ \E p \in Path : WriteObject(w, p) \/ RemoveEntries(w, p) \/ Mkdir(w, p)
           \/ \E p, q \in Path : Move(w, p, q)
    PROVE  ObjectsInv' /\ LoadInv' /\ SyncInv'
  <1> USE StoreFacts DEF NamesInv
  <1>0. w \in Actor /\ w \notin Unlocker
    OBVIOUS
  <1>1. Loaders = {}
    BY DEF WriteSwap, WriteObject, RemoveEntries, Mkdir, Move, Expose
  <1>2. dek' = dek /\ disk' = disk /\ touched \subseteq touched' /\ \E l : pc' = [pc EXCEPT ![w] = l]
    BY Zenon DEF WriteSwap, WriteObject, RemoveEntries, Mkdir, Move, Goto, disks, memory
  <1>3. \A u \in Unlocker : pc'[u] = pc[u]
    BY <1>0, <1>2 DEF TypeOK
  <1>4. ASSUME \A p \in Path : index'[p] # index[p] => p \in touched'
        PROVE  LoadInv' /\ SyncInv'
    BY <1>1, <1>2, <1>3, <1>4, OpKeepsSync
  <1>5. \A v \in Writer \ {w} : pc'[v] = pc[v]
    BY <1>2 DEF TypeOK
  <1>6. CASE WriteSwap(w)
    <2>1. PICK o \in Obj :
             /\ held[w] = {o} /\ pc[w] = "swap" /\ at[w] \in Path /\ index'[at[w]] = o
             /\ \A q \in Path \ {at[w]} :
                   index'[q] = index[q] \/ (index[q] = Missing /\ index'[q] = Dir)
             /\ held' = [held EXCEPT ![w] = {index[at[w]]} \cap Obj]
             /\ pc' = [pc EXCEPT ![w] = "pend"]
             /\ touched \subseteq touched' /\ \A q \in Path : index'[q] # index[q] => q \in touched'
             /\ UNCHANGED <<objs, disk, made, pendingDel, read>>
      BY <1>6, SwapFacts
    <2>2. /\ o \in objs /\ o \notin Named
          /\ \A v \in Writer \ {w} : pc[v] \in Reading => o \notin held[v]
      BY <2>1 DEF FreshInv, ObjectsInv
    <2>3. Refs(index') \subseteq Refs(index) \cup {o}
      BY <2>1 DEF Refs
    <2>4. /\ pc'[w] = "pend" /\ held'[w] = {index[at[w]]} \cap Obj
          /\ \A v \in Writer \ {w} : held'[v] = held[v]
      BY <1>0, <2>1 DEF TypeOK
    <2>5. Refs(index') \subseteq objs' \ pendingDel'
      BY <2>1, <2>2, <2>3 DEF ObjectsInv, Named
    <2>6. held'[w] \cap Refs(index') = {}
      <3>1. \A q \in Path \ {at[w]} : index[q] \in Obj => index[q] # index[at[w]]
        BY <2>1 DEF DistinctInv, Distinct
      <3>2. index[at[w]] \in Obj => index[at[w]] # o
        BY <2>1, <2>2 DEF Named, Refs
      <3> QED
        BY <2>1, <2>4, <3>1, <3>2 DEF Refs
    <2>7. ASSUME NEW v \in Writer \ {w}, pc[v] \in {"pend", "unlink"}
          PROVE  held[v] \cap Refs(index') = {}
      BY <2>2, <2>3, <2>7 DEF ObjectsInv, Reading
    <2>8. ObjectsInv'
      BY <1>5, <2>1, <2>4, <2>5, <2>6, <2>7 DEF ObjectsInv
    <2> QED
      BY <1>4, <2>1, <2>8
  <1>7. ASSUME NEW p \in Path, RemoveEntries(w, p) PROVE ObjectsInv' /\ LoadInv' /\ SyncInv'
    <2>1. /\ \A q \in Path : index'[q] = index[q] \/ (index'[q] = Missing /\ q \in touched')
          /\ held' = [held EXCEPT ![w] = held'[w]]
          /\ held'[w] \cap Refs(index') = {}
          /\ pc' = [pc EXCEPT ![w] = "unlink"]
          /\ UNCHANGED <<objs, disk, made, pendingDel, read>>
      BY <1>7, RemoveFacts DEF DistinctInv
    <2>2. Refs(index') \subseteq Refs(index)
      BY <2>1 DEF Refs
    <2>3. pc'[w] = "unlink" /\ \A v \in Writer \ {w} : held'[v] = held[v]
      BY <1>0, <2>1 DEF TypeOK
    <2>4. ObjectsInv'
      BY <1>5, <2>1, <2>2, <2>3 DEF ObjectsInv
    <2> QED
      BY <1>4, <2>1, <2>4
  <1>8. ASSUME Refs(index') \subseteq Refs(index), UNCHANGED <<objs, disk, pendingDel, held>>,
               pc'[w] = "idle"
        PROVE  ObjectsInv'
    BY <1>5, <1>8 DEF ObjectsInv
  <1>9. ASSUME NEW p \in Path, Mkdir(w, p) PROVE ObjectsInv' /\ LoadInv' /\ SyncInv'
    <2>1. Refs(index') \subseteq Refs(index) /\ \A q \in Path : index'[q] # index[q] => q \in touched'
      BY <1>9 DEF Mkdir, Refs, TypeOK
    <2>2. UNCHANGED <<objs, disk, pendingDel, held>> /\ pc'[w] = "idle"
      BY <1>0, <1>9 DEF Mkdir, Goto, disks, locals, TypeOK
    <2> QED
      BY <1>4, <1>8, <2>1, <2>2
  <1>10. ASSUME NEW p \in Path, NEW q \in Path, Move(w, p, q)
         PROVE  ObjectsInv' /\ LoadInv' /\ SyncInv'
    <2>1. Refs(index') \subseteq Refs(index) /\ \A r \in Path : index'[r] # index[r] => r \in touched'
      BY <1>10, MoveFacts DEF Move
    <2>2. UNCHANGED <<objs, disk, pendingDel, held>> /\ pc'[w] = "idle"
      BY <1>0, <1>10 DEF Move, Goto, disks, locals, TypeOK
    <2> QED
      BY <1>4, <1>8, <2>1, <2>2
  <1>11. ASSUME NEW p \in Path, WriteObject(w, p) PROVE ObjectsInv' /\ LoadInv' /\ SyncInv'
    <2>1. /\ objs' = objs \cup {made + 1} /\ held' = [held EXCEPT ![w] = {made + 1}]
          /\ UNCHANGED <<disk, index, pendingDel>>
          /\ pc' = [pc EXCEPT ![w] = "swap"]
      BY <1>11 DEF WriteObject, Goto, memory
    <2>2. /\ held'[w] = {made + 1} /\ pc'[w] = "swap"
          /\ \A v \in Writer \ {w} : held'[v] = held[v]
      BY <1>0, <2>1 DEF TypeOK
    <2>3. ObjectsInv'
      BY <1>5, <2>1, <2>2 DEF ObjectsInv
    <2> QED
      BY <1>4, <2>1, <2>3
  <1> QED
    BY <1>6, <1>7, <1>9, <1>10, <1>11

\* A step that neither drops an object that is named, nor changes what an index
\* names, nor moves an unlock.
LEMMA StillInWindow ==
    ASSUME NamesInv, ObjectsInv, LoadInv, SyncInv, NEW w \in Writer,
           \A a \in Actor \ {w} : pc'[a] = pc[a] /\ held'[a] = held[a],
           pc'[w] \notin Reading,
           UNCHANGED <<disk, index, read, dirty, dek, touched>>,
           Refs(index) \subseteq objs' \ pendingDel', Refs(disk) \subseteq objs',
           \A v \in Writer \ {w} : pc[v] = "swap" => held[v] \subseteq objs',
           pendingDel' = pendingDel \/ ~NoReader
    PROVE  ObjectsInv' /\ LoadInv' /\ SyncInv'
  <1>1. \A u \in Unlocker : pc'[u] = pc[u]
    BY StoreFacts
  <1>2. ObjectsInv'
    BY StoreFacts DEF ObjectsInv, Reading
  <1>3. NoReader => NoReader'
    BY StoreFacts DEF NoReader, Reading
  <1>4. ASSUME NEW u \in Unlocker, pc[u] \in Reloading
        PROVE  NoReader' /\ ~dirty' /\ pendingDel' = pendingDel
    BY <1>3, <1>4 DEF LoadInv
  <1>5. LoadInv'
    BY <1>1, <1>4 DEF LoadInv, Reloading
  <1>6. SyncInv'
    BY <1>1 DEF SyncInv
  <1> QED
    BY <1>2, <1>5, <1>6

\* The other steps of the file API keep them too.
LEMMA WriterInWindow ==
    ASSUME NamesInv, ObjectsInv, LoadInv, SyncInv, exposed = {}, exposed' = {},
           NEW w \in Writer, Enter(w) \/ WriterStep(w)
    PROVE  ObjectsInv' /\ LoadInv' /\ SyncInv'
  <1> USE StoreFacts DEF NamesInv
  <1>1. CASE Enter(w) \/ Refused(w)
    <2>1. /\ \A a \in Actor \ {w} : pc'[a] = pc[a] /\ held'[a] = held[a]
          /\ pc'[w] \notin Reading
      BY <1>1 DEF Enter, Refused, Goto, locals, Reading, TypeOK
    <2>2. UNCHANGED <<objs, disk, index, read, dirty, dek, touched, pendingDel>>
      BY <1>1 DEF Enter, Refused, disks, memory, locals, history
    <2> QED
      BY <2>1, <2>2, StillInWindow DEF ObjectsInv
  <1>2. CASE WritePend(w)
    <2>1. /\ pc[w] = "pend" /\ pendingDel' = pendingDel \cup held[w]
          /\ UNCHANGED <<objs, disk, index, read, dirty, dek, touched>>
      BY <1>2 DEF WritePend, disks, history
    <2>2. /\ \A a \in Actor \ {w} : pc'[a] = pc[a] /\ held'[a] = held[a]
          /\ pc'[w] \notin Reading
      BY <1>2 DEF WritePend, Goto, Reading, TypeOK
    <2>3. ~NoReader
      BY <2>1 DEF NoReader
    <2> QED
      BY <2>1, <2>2, <2>3, StillInWindow DEF ObjectsInv
  <1>3. CASE RemoveObjects(w)
    <2>1. /\ pc[w] = "unlink" /\ objs' = objs \ held[w] /\ held[w] \cap Refs(disk) = {}
          /\ UNCHANGED <<disk, index, read, dirty, dek, touched, pendingDel>>
      BY <1>3 DEF RemoveObjects, memory
    <2>2. /\ \A a \in Actor \ {w} : pc'[a] = pc[a] /\ held'[a] = held[a]
          /\ pc'[w] \notin Reading
      BY <1>3 DEF RemoveObjects, Goto, Reading, TypeOK
    <2>3. \A v \in Writer \ {w} : pc[v] = "swap" => held[v] \cap held[w] = {}
      BY <2>1 DEF FreshInv, Reading
    <2> QED
      BY <2>1, <2>2, <2>3, StillInWindow DEF ObjectsInv
  <1>4. CASE SaveFlush(w)
    <2>1. /\ \A a \in Actor \ {w} : pc'[a] = pc[a] /\ held'[a] = held[a]
          /\ pc'[w] = "idle" /\ held' = held /\ read' = read
      BY <1>4 DEF SaveFlush, Goto, locals, TypeOK
    <2>2. CASE Flushed
      <3>1. \A u \in Unlocker : pc'[u] \notin Reloading
        BY <2>1, <2>2 DEF Flushed, LoadInv
      <3>2. LoadInv' /\ SyncInv'
        BY <2>2, <3>1 DEF Flushed, LoadInv, SyncInv, Reloading
      <3>3. \A v \in Writer : pc[v] = "swap" => held[v] \cap pendingDel = {}
        BY DEF FreshInv, Named
      <3>4. ObjectsInv'
        BY <2>1, <2>2, <3>3 DEF Flushed, ObjectsInv
      <3> QED
        BY <3>2, <3>4
    <2>3. CASE NotFlushed
      BY <2>1, <2>3, StillInWindow DEF NotFlushed, disks, memory, ObjectsInv, Reading
    <2> QED
      BY <1>4, <2>2, <2>3 DEF SaveFlush
  <1> QED
    BY <1>1, <1>2, <1>3, <1>4, OpsInWindow, Zenon DEF WriterStep

\* The steps of an unlock keep them: what it installs is the file, which nobody has
\* written since, and what it sweeps is named by neither.
LEMMA UnlockerInWindow ==
    ASSUME NamesInv, ObjectsInv, LoadInv, SyncInv, exposed = {}, exposed' = {},
           NEW u \in Unlocker, Unlock(u) \/ UnlockStep(u)
    PROVE  ObjectsInv' /\ LoadInv' /\ SyncInv'
  <1> USE StoreFacts DEF NamesInv
  <1>1. /\ \A w \in Writer : w # u /\ held'[w] = held[w] /\ pc'[w] = pc[w]
        /\ \A v \in Unlocker \ {u} : pc'[v] = pc[v] /\ read'[v] = read[v]
    <2>1. /\ \E l : pc' = [pc EXCEPT ![u] = l]
          /\ \E h : held' = [held EXCEPT ![u] = h] \/ held' = held
          /\ \E r : read' = [read EXCEPT ![u] = r] \/ read' = read
      BY DEF UnlockStep, Unlock, LoadUnwrap, LoadReset, LoadRead, LoadInstall, SweepList, SweepDelete,
           UnlockReady, UnlockRollback, RollbackZeroKeys, Goto, locals
    <2> QED
      BY <2>1 DEF TypeOK
  <1>2. NoReader' <=> NoReader
    BY <1>1 DEF NoReader
  <1>3. ASSUME UNCHANGED <<objs, disk, index, pendingDel>> PROVE ObjectsInv'
    BY <1>1, <1>3 DEF ObjectsInv
  \* The other unlocks see what they saw.
  <1>5. ASSUME UNCHANGED <<disk, index, pendingDel>>, dirty' = dirty \/ dirty' = FALSE,
               pc'[u] \notin Reloading
        PROVE  LoadInv'
    BY <1>1, <1>2, <1>5 DEF LoadInv, Reloading
  <1>6. CASE Unlock(u)
    <2>1. /\ UNCHANGED <<objs, disk, index, pendingDel, dirty, dek, touched>>
          /\ pc[u] = "idle" /\ pc'[u] = "unwrap"
      BY <1>6 DEF Unlock, Goto, disks, memory, history, TypeOK
    <2>2. SyncInv'
      BY <1>1, <2>1 DEF SyncInv
    <2> QED
      BY <1>3, <1>5, <2>1, <2>2 DEF Reloading
  <1>7. CASE LoadUnwrap(u)
    <2>1. /\ UNCHANGED <<objs, disk, index, pendingDel, dirty, dek, touched>>
          /\ pc[u] = "unwrap" /\ pc'[u] \in {"rollback", "reset"}
      BY <1>7 DEF LoadUnwrap, Goto, disks, memory, history, TypeOK
    <2>2. SyncInv'
      BY <1>1, <2>1 DEF SyncInv
    <2> QED
      BY <1>3, <1>5, <2>1, <2>2 DEF Reloading
  <1>8. CASE LoadReset(u)
    <2>1. /\ UNCHANGED <<objs, disk, pendingDel>> /\ index' = Empty /\ dirty' = FALSE
          /\ touched' = {} /\ pc'[u] = "readFile"
      BY <1>8 DEF LoadReset, Goto, disks, TypeOK
    <2>2. NoReader /\ Loaders = {} /\ pendingDel \cap Refs(disk) = {}
      BY <1>8 DEF LoadReset
    <2>3. ObjectsInv'
      <3>1. \A w \in Writer : pc'[w] \notin {"swap", "pend", "unlink"}
        BY <1>1, <2>2 DEF NoReader
      <3> QED
        BY <2>1, <3>1, EmptyFacts DEF ObjectsInv
    <2>4. LoadInv'
      <3>1. \A v \in Unlocker \ {u} : pc'[v] \notin Reloading
        BY <1>1, <2>2 DEF Loaders, Reloading
      <3> QED
        BY <1>2, <2>1, <2>2, <3>1 DEF LoadInv, Reloading
    <2>5. SyncInv'
      BY <2>1 DEF SyncInv
    <2> QED
      BY <2>3, <2>4, <2>5
  <1>9. CASE LoadRead(u)
    <2>1. /\ UNCHANGED <<objs, disk, index, pendingDel, dirty, dek, touched>> /\ pc[u] = "readFile"
          /\ (pc'[u] = "install" /\ read'[u] = disk) \/ pc'[u] = "rollback"
      BY <1>9 DEF LoadRead, Goto, disks, memory, history, TypeOK
    <2>2. ~dirty /\ NoReader /\ \A v \in Unlocker \ {u} : pc[v] \notin Reloading
      BY <2>1 DEF LoadInv, Reloading
    <2>3. SyncInv'
      BY <2>1, <2>2 DEF SyncInv
    <2>4. LoadInv'
      BY <1>1, <1>2, <2>1, <2>2 DEF LoadInv, Reloading
    <2> QED
      BY <1>3, <2>1, <2>3, <2>4
  <1>10. CASE LoadInstall(u)
    <2>1. /\ UNCHANGED <<objs, disk, pendingDel>> /\ index' = read[u] /\ dirty' = FALSE
          /\ pc[u] = "install" /\ pc'[u] = "list"
      BY <1>10 DEF LoadInstall, Goto, disks, TypeOK
    <2>2. /\ NoReader /\ read[u] = disk /\ pendingDel \cap Refs(disk) = {}
          /\ \A v \in Unlocker \ {u} : pc[v] \notin Reloading
      BY <2>1 DEF LoadInv, Reloading
    <2>3. ObjectsInv'
      <3>1. \A w \in Writer : pc'[w] \notin {"swap", "pend", "unlink"}
        BY <1>1, <2>2 DEF NoReader
      <3> QED
        BY <2>1, <2>2, <3>1 DEF ObjectsInv
    <2>4. LoadInv'
      BY <1>1, <1>2, <2>1, <2>2 DEF LoadInv, Reloading
    <2>5. SyncInv'
      BY <2>1, <2>2 DEF SyncInv
    <2> QED
      BY <2>3, <2>4, <2>5
  <1>11. CASE SweepList(u)
    <2>1. /\ UNCHANGED <<objs, disk, index, pendingDel, dirty, dek, touched>>
          /\ pc[u] = "list" /\ pc'[u] = "sweep"
      BY <1>11 DEF SweepList, Goto, disks, memory, history, TypeOK
    <2>2. /\ ~dirty /\ NoReader /\ index = disk
          /\ \A v \in Unlocker \ {u} : pc[v] \notin Reloading
      BY <2>1 DEF LoadInv, Reloading
    <2>3. LoadInv' /\ SyncInv'
      BY <1>1, <1>2, <2>1, <2>2 DEF LoadInv, SyncInv, Reloading
    <2> QED
      BY <1>3, <2>1, <2>3
  <1>12. CASE SweepDelete(u)
    <2>1. /\ UNCHANGED <<disk, index, pendingDel, dirty, dek, touched>>
          /\ pc[u] = "sweep" /\ pc'[u] = "ready" /\ objs' = objs \ (held[u] \ Refs(index))
      BY <1>12 DEF SweepDelete, Goto, memory, history, TypeOK
    <2>2. NoReader /\ index = disk
      BY <2>1 DEF LoadInv, Reloading
    <2>3. ObjectsInv'
      <3>1. \A w \in Writer : pc'[w] \notin {"swap", "pend", "unlink"}
        BY <1>1, <2>2 DEF NoReader
      <3> QED
        BY <2>1, <2>2, <3>1 DEF ObjectsInv
    <2>4. SyncInv'
      BY <2>1, <2>2 DEF SyncInv
    <2> QED
      BY <1>5, <2>1, <2>3, <2>4 DEF Reloading
  <1>13. CASE UnlockReady(u)
    <2>1. /\ UNCHANGED <<objs, disk, index, pendingDel, dirty, dek, touched>>
          /\ pc[u] = "ready" /\ pc'[u] = "idle"
      BY <1>13 DEF UnlockReady, Goto, disks, memory, history, TypeOK
    <2>2. SyncInv'
      BY <1>1, <2>1 DEF SyncInv
    <2> QED
      BY <1>3, <1>5, <2>1, <2>2 DEF Reloading
  <1>14. CASE UnlockRollback(u)
    <2>1. /\ UNCHANGED <<objs, disk, index, pendingDel, dirty, dek, touched>>
          /\ pc[u] = "rollback" /\ pc'[u] = "zero"
      BY <1>14 DEF UnlockRollback, Goto, disks, memory, history, TypeOK
    <2>2. SyncInv'
      BY <1>1, <2>1 DEF SyncInv
    <2> QED
      BY <1>3, <1>5, <2>1, <2>2 DEF Reloading
  <1>15. CASE RollbackZeroKeys(u)
    <2>1. /\ UNCHANGED <<objs, disk, index, pendingDel>> /\ dirty' = FALSE /\ dek' = FALSE
          /\ pc'[u] = "idle"
      BY <1>15 DEF RollbackZeroKeys, ZeroKeys, Goto, disks, TypeOK
    <2>2. SyncInv'
      BY <2>1 DEF SyncInv
    <2> QED
      BY <1>3, <1>5, <2>1, <2>2 DEF Reloading
  <1> QED
    BY <1>6, <1>7, <1>8, <1>9, <1>10, <1>11, <1>12, <1>13, <1>14, <1>15 DEF UnlockStep

\* A flush writes an index all of whose objects are on the disk, and a lock or a
\* crash leaves nothing to be flushed.
LEMMA OthersInWindow ==
    ASSUME NamesInv, ObjectsInv, LoadInv, SyncInv, exposed = {}, exposed' = {},
           FlushLoop \/ Lock \/ Expire \/ Crash \/ CrashInFlush
    PROVE  ObjectsInv' /\ LoadInv' /\ SyncInv'
  <1> USE StoreFacts DEF NamesInv
  \* The index is renamed into place and the old objects go, or nothing is written.
  <1>1. ASSUME UNCHANGED <<index, pc, held, read>>, dirty' = FALSE,
               \/ /\ dirty /\ disk' = index /\ objs' = objs \ pendingDel /\ pendingDel' = {}
               \/ UNCHANGED <<disk, objs, pendingDel>>,
               ~dek' \/ disk' = index
        PROVE  ObjectsInv' /\ LoadInv' /\ SyncInv'
    <2>1. SyncInv'
      BY <1>1 DEF SyncInv
    <2>2. NoReader' <=> NoReader
      BY <1>1 DEF NoReader
    <2>3. CASE dirty /\ disk' = index /\ objs' = objs \ pendingDel /\ pendingDel' = {}
      <3>1. \A u \in Unlocker : pc'[u] \notin Reloading
        BY <1>1, <2>3 DEF LoadInv
      <3>2. LoadInv'
        BY <3>1 DEF LoadInv, Reloading
      <3>3. \A v \in Writer : pc[v] = "swap" => held[v] \cap pendingDel = {}
        BY DEF FreshInv, Named
      <3>4. ObjectsInv'
        BY <1>1, <2>3, <3>3 DEF ObjectsInv
      <3> QED
        BY <2>1, <3>2, <3>4
    <2>4. CASE UNCHANGED <<disk, objs, pendingDel>>
      BY <1>1, <2>1, <2>2, <2>4 DEF ObjectsInv, LoadInv
    <2> QED
      BY <1>1, <2>3, <2>4
  <1>2. CASE FlushLoop
    BY <1>1, <1>2 DEF FlushLoop, Flushed, locals
  <1>3. ASSUME FlushAndDropKeys, UNCHANGED <<pc, locals>> PROVE ObjectsInv' /\ LoadInv' /\ SyncInv'
    BY <1>1, <1>3 DEF FlushAndDropKeys, ZeroKeys, DropMaster, locals
  <1>4. CASE Lock
    BY <1>3, <1>4 DEF Lock
  <1>5. CASE Expire
    <2>1. CASE master # Nobody
      BY <1>3, <1>5, <2>1 DEF Expire
    <2>2. CASE master = Nobody
      BY <1>5, <2>2 DEF Expire, disks, memory, locals, ObjectsInv, LoadInv, SyncInv, NoReader
    <2> QED
      BY <2>1, <2>2
  \* Nobody is on the way after a crash.
  <1>6. ASSUME Reboot, Refs(disk') \subseteq objs' PROVE ObjectsInv' /\ LoadInv' /\ SyncInv'
    <2>1. \A a \in Actor : pc'[a] = "idle"
      BY <1>6 DEF Reboot
    <2> QED
      BY <1>6, <2>1, EmptyFacts DEF Reboot, ObjectsInv, LoadInv, SyncInv, Reloading
  <1>7. CASE Crash
    BY <1>6, <1>7 DEF Crash, ObjectsInv
  <1>8. CASE CrashInFlush
    BY <1>6, <1>8 DEF CrashInFlush, ObjectsInv
  <1> QED
    BY <1>2, <1>4, <1>5, <1>7, <1>8

\* Outside the windows, every step keeps what they would break.
LEMMA WindowInvInductive ==
    /\ Init => WindowInv
    /\ NamesInv /\ WindowInv /\ [Next]_vars => WindowInv'
  <1>1. ASSUME Init PROVE WindowInv
    <2>1. ObjectsInv
      BY <1>1, EmptyFacts, StoreFacts DEF Init, ObjectsInv
    <2>2. LoadInv /\ SyncInv
      BY <1>1, StoreFacts DEF Init, LoadInv, SyncInv, Reloading
    <2> QED
      BY <2>1, <2>2 DEF WindowInv
  <1>2. ASSUME NamesInv, WindowInv, Next, exposed' = {} PROVE ObjectsInv' /\ LoadInv' /\ SyncInv'
    <2>1. exposed = {}
      BY <1>2, ExposedStays DEF NamesInv
    <2>2. ObjectsInv /\ LoadInv /\ SyncInv
      BY <1>2, <2>1 DEF WindowInv
    <2> QED
      BY <1>2, <2>1, <2>2, WriterInWindow, UnlockerInWindow, OthersInWindow, Zenon DEF Next
  <1>3. ASSUME WindowInv, UNCHANGED vars PROVE WindowInv'
    BY <1>3 DEF WindowInv, ObjectsInv, LoadInv, SyncInv, vars, NoReader, Refs, Reloading
  <1> QED
    BY <1>1, <1>2, <1>3 DEF WindowInv

\* StoreInv holds of every state.
LEMMA StoreInvHolds == Spec => []StoreInv
  <1>1. Init => StoreInv
    BY NamesInvInductive, WindowInvInductive DEF StoreInv
  <1>2. StoreInv /\ [Next]_vars => StoreInv'
    BY NamesInvInductive, WindowInvInductive DEF StoreInv
  <1> QED
    BY <1>1, <1>2, PTL DEF Spec

\* At every moment, so after every crash, the objects that the index file names are on
\* the disk, unless one of the windows was met: an overwrite never costs the version
\* that was flushed.
THEOREM CrashKeepsFlushedHolds == Spec => []CrashKeepsFlushed
  <1>1. StoreInv => CrashKeepsFlushed
    BY DEF StoreInv, WindowInv, ObjectsInv, CrashKeepsFlushed, DiskIndexIntact
  <1> QED
    BY StoreInvHolds, <1>1, PTL

\* The objects of the index in memory are on the disk and are not about to be deleted.
THEOREM OpenIndexIntactHolds == Spec => []OpenIndexIntact
  <1>1. StoreInv => OpenIndexIntact
    BY DEF StoreInv, WindowInv, ObjectsInv, OpenIndexIntact
  <1> QED
    BY StoreInvHolds, <1>1, PTL

\* Only a flush writes the index file, and what it writes is the index.
LEMMA FlushWritesIndex ==
    ASSUME TypeOK, Next, disk' # disk
    PROVE  disk' = index /\ dirty /\ dek
  <1>1. ASSUME NEW w \in Writer, Enter(w) \/ WriterStep(w), ~SaveFlush(w) PROVE disk' = disk
    BY <1>1 DEF WriterStep, Enter, Refused, WriteObject, RemoveEntries, Mkdir, Move, WriteSwap, WritePend,
         RemoveObjects, disks
  <1>2. ASSUME NEW w \in Writer, SaveFlush(w) PROVE disk' = index /\ dirty /\ dek
    BY <1>2 DEF SaveFlush, Flushed, NotFlushed, disks
  <1>3. ASSUME NEW u \in Unlocker, Unlock(u) \/ UnlockStep(u) PROVE disk' = disk
    BY <1>3 DEF UnlockStep, Unlock, LoadUnwrap, LoadReset, LoadRead, LoadInstall, SweepList,
         SweepDelete, UnlockReady, UnlockRollback, RollbackZeroKeys, disks
  <1>4. ASSUME FlushLoop \/ Lock \/ Expire \/ Crash \/ CrashInFlush
        PROVE  disk' = index /\ dirty /\ dek
    BY <1>4 DEF FlushLoop, Lock, Expire, Crash, CrashInFlush, Flushed, FlushAndDropKeys, Reboot, disks
  <1> QED
    BY <1>1, <1>2, <1>3, <1>4, Zenon DEF Next

\* A flush changes the index file only where an operation has changed the index since
\* the last one, unless one of the windows was met: no path disappears by itself.
THEOREM FlushKeepsOthersHolds == Spec => FlushKeepsOthers
  <1> DEFINE Kept == exposed = {} => \A p \in Path : disk'[p] # disk[p] => p \in touched
  <1>1. StoreInv /\ [Next]_vars => [Kept]_vars
    <2> SUFFICES ASSUME StoreInv, Next, exposed = {}, NEW p \in Path, disk'[p] # disk[p]
                 PROVE  p \in touched
      OBVIOUS
    <2>1. disk' = index /\ dirty /\ dek
      BY FlushWritesIndex DEF StoreInv, NamesInv
    <2> QED
      BY <2>1 DEF StoreInv, WindowInv, SyncInv
  <1> QED
    BY StoreInvHolds, <1>1, PTL DEF Spec, FlushKeepsOthers
=============================================================================
