------------------------- MODULE InstanceListProofs -------------------------
(***************************************************************************)
(* Proofs about InstanceList, for any number of handlers, of changes and   *)
(* of unlocks, and any kinds of requests and faults.                       *)
(***************************************************************************)
EXTENDS InstanceList, TLAPS

----------------------------------------------------------------------------
(* The inductive invariant: the part that holds in every window.           *)

\* What a file or a local variable can hold, and where an actor can be.
List == (SUBSET Change) \cup {NoFile}
HandlerLabel == {"idle", "snapshot", "marking"} \cup Kinds \cup SaveLabel

DiskTypeOK == plain \in List /\ indexFile \in List /\ doneFile \in BOOLEAN

ListTypeOK ==
    /\ list \in SUBSET Change /\ dirty \in BOOLEAN
    /\ phase \in {"up", "draining", "flushing", "stopping", "vault", "down"}

\* Objects have a process only if requests can start one, and the unlock counts the
\* generation it is yet to make.
ObjectsTypeOK ==
    /\ gen \in Nat \ {0} /\ unlocks \in 0..MaxUnlocks
    /\ gen <= unlocks + 1
    /\ pc[Unlocker] \notin {"idle", "ready"} => gen <= unlocks
    /\ procs \in SUBSET (1..gen)
    /\ procs # {} => "start" \in Kinds
    /\ obj \in [Handler -> 1..gen]

VaultTypeOK ==
    /\ enc \in List
    /\ encDirty \in BOOLEAN /\ dek \in BOOLEAN /\ key \in BOOLEAN
    /\ loading \in BOOLEAN /\ done \in BOOLEAN /\ prior \in BOOLEAN

PcTypeOK ==
    /\ pc = [a \in Actor |-> pc[a]]
    /\ \A h \in Handler : pc[h] \in HandlerLabel
    /\ pc[SaveLoop] \in {"idle", "cas", "snapshot"} \cup SaveLabel
    /\ pc[Main] \in {"idle", "snapshot"} \cup SaveLabel
    /\ pc[Unlocker] \in {"idle"} \cup LoadLabel

\* Only the unlock can hold the absence of a file.
LocalsTypeOK ==
    /\ snap \in [Actor -> List]
    /\ \A a \in Saver : snap[a] \in SUBSET Change
    /\ made \in 0..MaxChanges
    /\ acked \in SUBSET Change /\ saved \in SUBSET Change
    /\ exposed \in SUBSET {"reload", "migrate", "clear"}

TypeInv ==
    DiskTypeOK /\ ListTypeOK /\ ObjectsTypeOK /\ VaultTypeOK /\ PcTypeOK /\ LocalsTypeOK

\* saveMu; a shutdown has waited for everything else; an unlock that has not ended
\* and was not locked is loading, and has the key of the index once it has begun;
\* from the first load on the migration is done.
ControlInv ==
    /\ \A a, b \in Saver : pc[a] \in SaveLabel /\ pc[b] \in SaveLabel => a = b
    /\ phase \notin {"up", "draining"} => \A a \in Actor \ {Main} : pc[a] = "idle"
    /\ phase \notin {"flushing", "stopping"} => pc[Main] = "idle"
    /\ pc[Unlocker] # "idle" /\ key => loading
    /\ key => dek \/ pc[Unlocker] \in {"unwrap", "reset"}
    /\ encDirty => enc # NoFile
    /\ gen # 1 \/ pc[Unlocker] \in {"unlink", "reload", "ready"} => done
    /\ pc[Unlocker] = "ready" => gen # 1

\* Until the first load since the boot nobody has changed anything: the gate is
\* closed, and no process runs that a watcher could start again.
ClosedInv ==
    gen = 1 =>
        /\ acked = {} /\ procs = {} /\ ~dirty /\ ~prior /\ phase # "flushing"
        /\ pc[SaveLoop] = "idle" /\ \A h \in Handler : pc[h] = "idle"
        /\ key => loading /\ pc[Unlocker] # "idle"
        /\ pc[Unlocker] \notin {"idle", "rollback"} => key
        /\ pc[Unlocker] \in {"idle", "unwrap", "reset"} => ~dek

----------------------------------------------------------------------------
(* ... and the part that holds outside the windows.                        *)

\* What the index names, on the disk or in memory, and what was saved.
Written == saved \cup Content(indexFile) \cup Content(enc)

\* Before the migration the list is what instances.json holds, and the index lacks
\* it or has the same, of a migration that a crash interrupted.
PlainInv ==
    /\ doneFile = done
    /\ ~done =>
        /\ plain # NoFile /\ list = plain /\ saved \subseteq plain
        /\ indexFile \in {NoFile, plain} /\ enc \in {NoFile, plain}

\* The unlock meets nobody who writes, and carries over a list that lacks nothing.
LoadInv ==
    LET at == pc[Unlocker]
    IN  /\ Loading /\ at # "reset" =>
               /\ \A h \in Handler : pc[h] \in {"idle", "start"}
               /\ pc[SaveLoop] \notin {"flush", "plain"}
        /\ at \in {"readIndex", "install"} \/ (at = "migrate" /\ done) => ~encDirty
        /\ at \in {"readIndex", "install"} /\ done => list \subseteq Content(indexFile)
        /\ at = "install" => snap[Unlocker] = indexFile
        /\ at = "migrate" /\ done => enc = indexFile /\ list \subseteq Content(enc)
        /\ at = "mark" => ~done /\ enc = plain
        /\ at \in {"unlink", "reload"} => list \cup Written \subseteq Content(enc)
        /\ at = "unwrap" => key \/ ~dek
        /\ at = "rollback" /\ done => ~dek

\* What was saved is in the index file, or the flush of the migration is still to
\* come; an index in memory that waits for its flush takes nothing back; and the
\* list lacks nothing of either.
IndexInv ==
    /\ dek /\ ~encDirty /\ pc[Unlocker] \notin {"readIndex", "install"} => enc = indexFile
    /\ dek /\ encDirty /\ done => Written \subseteq Content(enc)
    /\ done => saved \subseteq Content(indexFile) \/ (indexFile = NoFile /\ dek /\ encDirty)
    /\ gen # 1 => Written \subseteq list

\* A Save on its way writes a list that takes nothing back, and what it wrote is
\* what it flushes; the clear is for a list that is not migrated; the shutdown's
\* Save, while nobody else runs, has the list itself.
SaveInv ==
    /\ \A a \in Saver : pc[a] \in SaveLabel =>
           /\ snap[a] \subseteq list
           /\ gen # 1 => Written \subseteq snap[a]
           /\ pc[a] = "flush" => enc = snap[a]
           /\ pc[a] = "plain" => ~done
    /\ pc[Main] \in SaveLabel => snap[Main] = list
    /\ pc[Main] \in {"write", "flush"} => Active
    /\ pc[Main] = "locked" => ~Active

\* An answered change, or one that is about to be, is in the list ...
ChangesInv ==
    /\ acked \subseteq list
    /\ \A h \in Handler : pc[h] = "marking" => snap[h] \subseteq list

\* ... and the last save of an unlocked shutdown has written it.
DownInv ==
    phase \in {"vault", "down"} /\ "write" \notin Faults /\ Active
        => indexFile = list /\ ~encDirty

Outside ==
    /\ PlainInv /\ LoadInv /\ IndexInv /\ SaveInv /\ ChangesInv /\ DownInv
    /\ DirtyCoversChanges

WindowInv == exposed = {} => Outside

ListInv == TypeInv /\ ControlInv /\ ClosedInv /\ WindowInv

----------------------------------------------------------------------------
(* Types.                                                                  *)

\* The actors are distinct, and only the unlock is no saver.
LEMMA Actors ==
    /\ Handler \subseteq Saver /\ Saver \subseteq Actor
    /\ SaveLoop \in Saver /\ Main \in Saver /\ Unlocker \in Actor
    /\ Saver = Actor \ {Unlocker}
    /\ SaveLoop # Main /\ Unlocker \notin Saver
    /\ SaveLoop \notin Handler /\ Main \notin Handler
    /\ \A a \in Saver : a \in Handler \/ a = SaveLoop \/ a = Main
    /\ Kinds \subseteq {"edit", "update", "start", "stop", "restart"}
BY ListConfigAssumption DEF SaveLoop, Main, Unlocker, Actor, Saver

\* A list is a set of changes; a file may also be missing, and then holds none.
LEMMA Lists ==
    /\ NoFile \in List /\ {} \in List /\ SUBSET Change \subseteq List
    /\ NoFile \notin SUBSET Change
    /\ \A f \in List : Content(f) \in SUBSET Change
    /\ \A f \in List : f # NoFile => f \in SUBSET Change
    /\ \A f \in SUBSET Change : Content(f) = f
    /\ Content(NoFile) = {}
    /\ Base \in Change
    /\ \A n \in 0..MaxChanges : n < MaxChanges => n + 1 \in Change
<1>1. MaxChanges \in Nat
    BY ListConfigAssumption
<1>2. MaxChanges + 1 \notin Change
    BY <1>1 DEF Change, Base
<1>3. NoFile \notin SUBSET Change
    BY <1>2 DEF NoFile
<1>4. Base \in Change /\ \A n \in 0..MaxChanges : n < MaxChanges => n + 1 \in Change
    BY <1>1 DEF Change, Base
<1>5. Content(NoFile) = {} /\ \A f \in SUBSET Change : Content(f) = f
    BY <1>3 DEF Content
<1>6. NoFile \in List /\ {} \in List /\ SUBSET Change \subseteq List
    BY DEF List
<1>7. \A f \in List : f # NoFile => f \in SUBSET Change
    BY DEF List
<1>8. \A f \in List : Content(f) \in SUBSET Change
    BY <1>5, <1>7, Zenon DEF Content
<1> QED
    BY <1>3, <1>4, <1>5, <1>6, <1>7, <1>8, Zenon

\* Goto moves one actor.
LEMMA GotoFacts ==
    ASSUME pc = [a \in Actor |-> pc[a]], NEW a \in Actor, NEW l, Goto(a, l)
    PROVE  /\ pc' = [b \in Actor |-> pc'[b]] /\ pc'[a] = l
           /\ \A b \in Actor : b # a => pc'[b] = pc[b]
BY DEF Goto

\* A handler, a saver and the unlock stay at labels of their own.
LEMMA HandlerGoto ==
    ASSUME PcTypeOK, NEW h \in Handler, NEW l \in HandlerLabel, Goto(h, l)
    PROVE  PcTypeOK'
<1>1. /\ pc' = [b \in Actor |-> pc'[b]] /\ pc'[h] = l
      /\ \A b \in Actor : b # h => pc'[b] = pc[b]
    BY GotoFacts, Actors DEF PcTypeOK
<1> QED
    BY <1>1, Actors DEF PcTypeOK

LEMMA SaverGoto ==
    ASSUME PcTypeOK, NEW a \in Saver, NEW l \in {"idle", "snapshot"} \cup SaveLabel, Goto(a, l)
    PROVE  PcTypeOK'
<1>1. /\ pc' = [b \in Actor |-> pc'[b]] /\ pc'[a] = l
      /\ \A b \in Actor : b # a => pc'[b] = pc[b]
    BY GotoFacts, Actors DEF PcTypeOK
<1> QED
    BY <1>1, Actors DEF PcTypeOK, HandlerLabel

LEMMA UnlockerGoto ==
    ASSUME PcTypeOK, NEW l \in {"idle"} \cup LoadLabel, Goto(Unlocker, l)
    PROVE  PcTypeOK'
<1>1. /\ pc' = [b \in Actor |-> pc'[b]] /\ pc'[Unlocker] = l
      /\ \A b \in Actor : b # Unlocker => pc'[b] = pc[b]
    BY GotoFacts, Actors DEF PcTypeOK
<1> QED
    BY <1>1, Actors DEF PcTypeOK

\* Every step leaves every actor at a label of its own.
LEMMA PcTypeKept == ASSUME TypeInv, Next PROVE PcTypeOK'
<1> USE DEF TypeInv, HandlerLabel, Locked, Active
<1>1. ASSUME NEW h \in Handler, Request(h) PROVE PcTypeOK'
    BY <1>1, HandlerGoto DEF Request, Enter, Restart, Edit, Refuse, MarkDirty, Start, Stop,
       ObjectsTypeOK, PcTypeOK, memory, locals, history
<1>2. ASSUME NEW a \in Saver, Save(a) PROVE PcTypeOK'
    BY <1>2, SaverGoto DEF Save, SaveSnapshot, SaveActive, SaveWrite, SaveFlush, SaveLocked,
       SavePlain, SaveLabel, Return
<1>3. CASE UnlockStep
    BY <1>3, UnlockerGoto DEF UnlockStep, LoadUnwrap, LoadReset, LoadRead, LoadInstall, Migrate,
       MigrateMark, MigrateUnlink, ReloadList, UnlockReady, UnlockRollback, LoadLabel
<1>4. CASE Tick
    <2>1. /\ pc' = [b \in Actor |-> pc'[b]] /\ pc'[SaveLoop] = "cas"
          /\ \A b \in Actor : b # SaveLoop => pc'[b] = pc[b]
        BY <1>4, GotoFacts, Actors DEF Tick, PcTypeOK
    <2> QED
        BY <2>1, Actors DEF PcTypeOK
<1>5. CASE CompareAndSwap
    BY <1>5, SaverGoto, Actors DEF CompareAndSwap
<1>6. CASE Unlock
    BY <1>6, UnlockerGoto DEF Unlock, LoadLabel
<1>7. CASE FlushLoop \/ Lock \/ Shutdown \/ ShutdownVault
    BY <1>7 DEF PcTypeOK, FlushLoop, Lock, Shutdown, ShutdownVault
<1>8. CASE ShutdownFlush \/ ShutdownStopAll
    BY <1>8, SaverGoto, Actors DEF ShutdownFlush, ShutdownStopAll, PcTypeOK
<1>9. CASE Crash
    BY <1>9, Actors DEF Crash, PcTypeOK, SaveLabel, LoadLabel
<1> QED
    BY <1>1, <1>2, <1>3, <1>4, <1>5, <1>6, <1>7, <1>8, <1>9, Zenon DEF Next, ShutdownStep

\* Every step keeps the types; nothing else is needed for that.
LEMMA TypeKept == ASSUME TypeInv, Next PROVE TypeInv'
<1> USE Actors, Lists, PcTypeKept
<1> USE DEF TypeInv, SaveLabel, LoadLabel, Goto, disks, memory, vault, locals, history,
            Changed, Expose, Strand, Return
<1>1. ASSUME NEW h \in Handler, Request(h) PROVE TypeInv'
    <2>1. DiskTypeOK' /\ VaultTypeOK'
        BY <1>1 DEF DiskTypeOK, VaultTypeOK, Request, Enter, Restart, Edit, Refuse, MarkDirty, Start,
           Stop
    <2>2. ObjectsTypeOK'
        BY <1>1 DEF ObjectsTypeOK, PcTypeOK, HandlerLabel, Request, Enter, Restart, Edit, Refuse,
           MarkDirty, Start, Stop
    <2>3. CASE Edit(h)
        <3>1. made + 1 \in Change /\ {made + 1} \in SUBSET Change /\ {made + 1} \in List
            BY <2>3 DEF Edit, LocalsTypeOK
        <3>2. ListTypeOK'
            BY <2>3, <3>1 DEF ListTypeOK, Edit
        <3>3. LocalsTypeOK'
            BY <2>3, <3>1, ListConfigAssumption DEF LocalsTypeOK, Edit
        <3> QED
            BY <2>1, <2>2, <3>2, <3>3
    <2>4. CASE Start(h)
        <3>1. made < MaxChanges => made + 1 \in Change
            BY DEF LocalsTypeOK
        <3>2. ListTypeOK'
            BY <2>4, <3>1 DEF ListTypeOK, Start
        <3>3. LocalsTypeOK'
            <4>1. made' \in 0..MaxChanges
                BY <2>4, ListConfigAssumption DEF LocalsTypeOK, Start
            <4> QED
                BY <2>4, <4>1 DEF LocalsTypeOK, Start
        <3> QED
            BY <2>1, <2>2, <3>2, <3>3
    <2>5. CASE MarkDirty(h)
        BY <2>1, <2>2, <2>5 DEF ListTypeOK, LocalsTypeOK, MarkDirty
    <2>6. ASSUME ~Edit(h), ~Start(h), ~MarkDirty(h) PROVE ListTypeOK' /\ LocalsTypeOK'
        BY <1>1, <2>6 DEF ListTypeOK, LocalsTypeOK, Request, Enter, Restart, Refuse, Stop
    <2> QED
        BY <2>1, <2>2, <2>3, <2>4, <2>5, <2>6
<1>2. ASSUME NEW a \in Saver, Save(a) PROVE TypeInv'
    <2> USE <1>2 DEF Save, SaveSnapshot, SaveActive, SaveWrite, SaveFlush, SaveLocked, SavePlain
    <2>1. DiskTypeOK'
        BY DEF DiskTypeOK, VaultTypeOK, LocalsTypeOK
    <2>2. ListTypeOK'
        BY DEF ListTypeOK
    <2>5. ObjectsTypeOK'
        BY DEF ObjectsTypeOK, PcTypeOK
    <2>3. VaultTypeOK'
        BY ZenonT(60) DEF VaultTypeOK, LocalsTypeOK
    <2>4. LocalsTypeOK'
        <3>1. snap' \in [Actor -> List] /\ \A b \in Saver : snap'[b] \in SUBSET Change
            BY DEF LocalsTypeOK, ListTypeOK
        <3> QED
            BY <3>1 DEF LocalsTypeOK
    <2> QED
        BY <2>1, <2>2, <2>3, <2>4, <2>5
<1>3. ASSUME UnlockStep PROVE TypeInv'
    <2> USE <1>3 DEF UnlockStep, LoadUnwrap, LoadReset, LoadRead, LoadInstall, Migrate, MigrateMark,
            MigrateUnlink, ReloadList, UnlockReady, UnlockRollback
    <2>1. DiskTypeOK'
        BY DEF DiskTypeOK
    <2>2. ListTypeOK'
        BY DEF ListTypeOK, VaultTypeOK
    <2>3. ObjectsTypeOK'
        BY DEF ObjectsTypeOK, PcTypeOK
    <2>4. VaultTypeOK'
        <3>1. enc' \in List
            BY DEF VaultTypeOK, LocalsTypeOK, DiskTypeOK
        <3> QED
            BY <3>1, ZenonT(60) DEF VaultTypeOK
    <2>5. LocalsTypeOK'
        <3>1. snap' \in [Actor -> List] /\ \A a \in Saver : snap'[a] \in SUBSET Change
            BY DEF LocalsTypeOK, DiskTypeOK
        <3> QED
            BY <3>1 DEF LocalsTypeOK
    <2> QED
        BY <2>1, <2>2, <2>3, <2>4, <2>5
<1>4. ASSUME Tick \/ CompareAndSwap \/ FlushLoop \/ Lock \/ Unlock PROVE TypeInv'
    <2> USE <1>4 DEF Tick, CompareAndSwap, FlushLoop, Lock, Unlock
    <2>1. DiskTypeOK' /\ ListTypeOK'
        BY ZenonT(60) DEF DiskTypeOK, ListTypeOK, VaultTypeOK
    <2>2. LocalsTypeOK'
        BY DEF LocalsTypeOK
    <2>3. VaultTypeOK'
        BY DEF VaultTypeOK
    <2>4. ObjectsTypeOK'
        <3>1. CASE Unlock
            <4>1. unlocks' \in 0..MaxUnlocks /\ unlocks' = unlocks + 1 /\ UNCHANGED <<gen, procs, obj>>
                BY <3>1, ListConfigAssumption DEF ObjectsTypeOK
            <4> QED
                BY <4>1 DEF ObjectsTypeOK
        <3>2. ASSUME ~Unlock PROVE ObjectsTypeOK'
            <4>1. pc'[Unlocker] = pc[Unlocker] /\ UNCHANGED <<gen, procs, obj, unlocks>>
                BY <3>2 DEF PcTypeOK
            <4> QED
                BY <4>1 DEF ObjectsTypeOK
        <3> QED
            BY <3>1, <3>2
    <2> QED
        BY <2>1, <2>2, <2>3, <2>4
<1>5. ASSUME Shutdown \/ ShutdownStep \/ Crash PROVE TypeInv'
    <2> USE <1>5 DEF Shutdown, ShutdownStep, ShutdownFlush, ShutdownStopAll, ShutdownVault, Crash
    <2>1. DiskTypeOK' /\ ListTypeOK'
        BY ZenonT(60) DEF DiskTypeOK, ListTypeOK, VaultTypeOK
    <2>2. ObjectsTypeOK'
        BY DEF ObjectsTypeOK, PcTypeOK
    <2>3. VaultTypeOK'
        BY ZenonT(60) DEF VaultTypeOK, DiskTypeOK
    <2>4. LocalsTypeOK'
        BY ZenonT(60) DEF LocalsTypeOK
    <2> QED
        BY <2>1, <2>2, <2>3, <2>4
<1> QED
    BY <1>1, <1>2, <1>3, <1>4, <1>5, Zenon DEF Next

\* ... and so does a step of something else.
LEMMA UnchangedType == ASSUME TypeInv, UNCHANGED vars PROVE TypeInv'
BY DEF vars, TypeInv, DiskTypeOK, ListTypeOK, ObjectsTypeOK, VaultTypeOK, PcTypeOK, LocalsTypeOK

\* They hold at first,
LEMMA InitType == Init => TypeInv
<1> SUFFICES ASSUME Init PROVE TypeInv
    OBVIOUS
<1>1. PcTypeOK
    BY Actors DEF Init, PcTypeOK, HandlerLabel
<1>2. DiskTypeOK /\ ListTypeOK /\ VaultTypeOK
    BY Lists DEF Init, DiskTypeOK, ListTypeOK, VaultTypeOK
<1>3. ObjectsTypeOK
    BY Actors, ListConfigAssumption DEF Init, ObjectsTypeOK
<1>4. LocalsTypeOK
    BY Actors, Lists, ListConfigAssumption DEF Init, LocalsTypeOK
<1> QED
    BY <1>1, <1>2, <1>3, <1>4 DEF TypeInv

\* ... and they are the type invariant of InstanceList.
LEMMA TypeInvIsType == TypeInv => TypeOK
<1> SUFFICES ASSUME TypeInv PROVE TypeOK
    OBVIOUS
<1>1. {plain, indexFile, enc} \subseteq (SUBSET Change) \cup {NoFile} /\ list \subseteq Change
    BY DEF TypeInv, DiskTypeOK, VaultTypeOK, ListTypeOK, List
<1>2. {dirty, encDirty, dek, key, loading, done, doneFile, prior} \subseteq BOOLEAN
    BY DEF TypeInv, DiskTypeOK, VaultTypeOK, ListTypeOK
<1>3. gen \in 1..unlocks + 1 /\ procs \subseteq 1..gen /\ obj \in [Handler -> 1..gen]
    BY DEF TypeInv, ObjectsTypeOK
<1>4. phase \in {Phase[i] : i \in DOMAIN Phase}
    <2>1. Phase[1] = "up" /\ Phase[2] = "draining" /\ Phase[3] = "flushing" /\ Phase[4] = "stopping"
          /\ Phase[5] = "vault" /\ Phase[6] = "down" /\ DOMAIN Phase = 1..6
        BY DEF Phase
    <2>2. \E i \in 1..6 : phase = Phase[i]
        BY <2>1 DEF TypeInv, ListTypeOK
    <2> QED
        BY <2>1, <2>2
<1>5. /\ \A h \in Handler : pc[h] \in {"idle", "snapshot", "marking"} \cup Kinds \cup SaveLabel
      /\ pc[SaveLoop] \in {"idle", "cas", "snapshot"} \cup SaveLabel
      /\ pc[Main] \in {"idle", "snapshot"} \cup SaveLabel
      /\ pc[Unlocker] \in {"idle"} \cup LoadLabel
    BY DEF TypeInv, PcTypeOK, HandlerLabel
<1>6. /\ snap \in [Actor -> (SUBSET Change) \cup {NoFile}]
      /\ made \in 0..MaxChanges /\ unlocks \in 0..MaxUnlocks
      /\ acked \subseteq Change /\ saved \subseteq Change
      /\ exposed \subseteq {"reload", "migrate", "clear"}
    BY DEF TypeInv, LocalsTypeOK, ObjectsTypeOK, List
<1> QED
    BY <1>1, <1>2, <1>3, <1>4, <1>5, <1>6 DEF TypeOK

----------------------------------------------------------------------------
(* The parts that hold in every window.                                    *)

\* saveMu, the drain of the shutdown and vaultState.loading order the steps.
LEMMA ControlKept ==
    ASSUME TypeInv, ControlInv, ClosedInv, Next
    PROVE  ControlInv'
<1> USE Actors, Lists
<1> USE DEF TypeInv, DiskTypeOK, ListTypeOK, ObjectsTypeOK, VaultTypeOK, PcTypeOK, LocalsTypeOK,
            SaveLabel, LoadLabel, Goto, disks, memory, vault, locals, history, Locked, Active,
            ControlInv, ClosedInv
<1>1. ASSUME NEW h \in Handler, Request(h) PROVE ControlInv'
    <2>1. CASE Edit(h)
        BY <2>1 DEF Edit
    <2>2. CASE Start(h)
        BY <2>2 DEF Start
    <2> QED
        BY <1>1, <2>1, <2>2 DEF Request, Enter, Restart, Refuse, MarkDirty, Stop
<1>2. ASSUME NEW a \in Saver, Save(a) PROVE ControlInv'
    BY <1>2 DEF Save, SaveSnapshot, SaveActive, SaveWrite, SaveFlush, SaveLocked, SavePlain, Return
<1>3. CASE UnlockStep
    BY <1>3 DEF UnlockStep, LoadUnwrap, LoadReset, LoadRead, LoadInstall, Migrate, MigrateMark,
       MigrateUnlink, ReloadList, UnlockReady, UnlockRollback
<1>4. CASE Tick \/ CompareAndSwap \/ FlushLoop \/ Lock \/ Unlock
    BY <1>4 DEF Tick, CompareAndSwap, FlushLoop, Lock, Unlock
<1>5. CASE Shutdown \/ ShutdownStep \/ Crash
    BY <1>5 DEF Shutdown, ShutdownStep, ShutdownFlush, ShutdownStopAll, ShutdownVault, Crash
<1> QED
    BY <1>1, <1>2, <1>3, <1>4, <1>5, Zenon DEF Next

\* Nothing changes the list before the first load after a boot (vaultGate).
LEMMA ClosedKept ==
    ASSUME TypeInv, ControlInv, ClosedInv, Next
    PROVE  ClosedInv'
<1> USE Actors, Lists
<1> USE DEF TypeInv, DiskTypeOK, ListTypeOK, ObjectsTypeOK, VaultTypeOK, PcTypeOK, LocalsTypeOK,
            SaveLabel, LoadLabel, Goto, disks, memory, vault, locals, history, Locked, Active,
            ControlInv, ClosedInv
<1>1. ASSUME NEW h \in Handler, Request(h) PROVE ClosedInv'
    BY <1>1 DEF Request, Enter, Restart, Edit, Refuse, MarkDirty, Start, Stop
<1>2. ASSUME NEW a \in Saver, Save(a) PROVE ClosedInv'
    BY <1>2 DEF Save, SaveSnapshot, SaveActive, SaveWrite, SaveFlush, SaveLocked, SavePlain, Return
<1>3. CASE UnlockStep
    BY <1>3 DEF UnlockStep, LoadUnwrap, LoadReset, LoadRead, LoadInstall, Migrate, MigrateMark,
       MigrateUnlink, ReloadList, UnlockReady, UnlockRollback
<1>4. CASE Tick \/ CompareAndSwap \/ FlushLoop \/ Lock \/ Unlock
    <2>1. CASE Tick
        BY <2>1 DEF Tick
    <2>2. CASE CompareAndSwap
        BY <2>2 DEF CompareAndSwap
    <2>3. CASE Unlock
        BY <2>3 DEF Unlock
    <2> QED
        BY <1>4, <2>1, <2>2, <2>3 DEF FlushLoop, Lock
<1>5. CASE Shutdown \/ ShutdownStep \/ Crash
    BY <1>5 DEF Shutdown, ShutdownStep, ShutdownFlush, ShutdownStopAll, ShutdownVault, Crash
<1> QED
    BY <1>1, <1>2, <1>3, <1>4, <1>5, Zenon DEF Next

----------------------------------------------------------------------------
(* ... and the parts that hold outside the windows.                        *)

\* A Save that writes or flushes comes after a load, and its list has all that the
\* index has.
LEMMA WriterLoaded ==
    ASSUME TypeInv, ControlInv, ClosedInv, SaveInv
    PROVE  \A a \in Saver : pc[a] \in {"write", "flush"} =>
               /\ gen # 1 /\ done
               /\ Written \subseteq snap[a] /\ snap[a] \subseteq list
               /\ Content(snap[a]) = snap[a] /\ snap[a] # NoFile
<1> SUFFICES ASSUME NEW a \in Saver, pc[a] \in {"write", "flush"}
    PROVE  /\ gen # 1 /\ done
           /\ Written \subseteq snap[a] /\ snap[a] \subseteq list
           /\ Content(snap[a]) = snap[a] /\ snap[a] # NoFile
    OBVIOUS
<1>1. gen # 1
    BY Actors DEF ControlInv, ClosedInv, SaveInv, Active, SaveLabel
<1>2. snap[a] \in SUBSET Change
    BY DEF TypeInv, LocalsTypeOK
<1>3. done /\ Written \subseteq snap[a] /\ snap[a] \subseteq list
    BY <1>1 DEF ControlInv, SaveInv, SaveLabel
<1> QED
    BY <1>1, <1>2, <1>3, Lists

\* How a Save ends: with an error the flag is set again by those that had reset it,
\* and with none it was saved.
LEMMA ReturnFacts ==
    ASSUME TypeInv, NEW a \in Saver, NEW ok \in BOOLEAN, Return(a, ok)
    PROVE  /\ pc'[a] = "idle" /\ \A b \in Actor : b # a => pc'[b] = pc[b] /\ snap'[b] = snap[b]
           /\ saved' = IF ok THEN saved \cup snap[a] ELSE saved
           /\ dirty => dirty'
           /\ ~ok /\ (a = SaveLoop \/ (a = Main /\ phase = "flushing")) => dirty'
           /\ a # Main => phase' = phase
BY Actors DEF Return, Goto, TypeInv, PcTypeOK, LocalsTypeOK

\* A Save that writes its list into the index in memory, or fails to ...
LEMMA WriteKeepsIndex ==
    ASSUME TypeInv, ControlInv, ClosedInv, Outside, NEW a \in Saver, SaveWrite(a)
    PROVE  IndexInv'
<1>1. /\ gen # 1 /\ done
      /\ Written \subseteq snap[a] /\ snap[a] \subseteq list
      /\ Content(snap[a]) = snap[a] /\ snap[a] # NoFile
    BY WriterLoaded DEF Outside, SaveWrite
<1>2. IndexInv
    BY DEF Outside
<1>3. CASE /\ key /\ enc' = snap[a] /\ encDirty' = TRUE /\ Goto(a, "flush")
           /\ UNCHANGED <<memory, snap, saved>>
    <2>1. UNCHANGED <<indexFile, dek, done, gen, list>>
        BY <1>3 DEF SaveWrite, memory, disks
    <2>2. Written' \subseteq snap[a]
        BY <1>1, <1>3, <2>1 DEF Written
    <2> QED
        BY <1>1, <1>2, <1>3, <2>1, <2>2 DEF IndexInv
<1>4. CASE Return(a, ~Ok) /\ UNCHANGED <<list, gen, procs, enc, encDirty, exposed>>
    <2>1. saved' = saved /\ pc'[Unlocker] = pc[Unlocker]
        BY <1>4, ReturnFacts, Actors DEF Ok
    <2>2. UNCHANGED <<indexFile, dek, done>>
        BY DEF SaveWrite, disks
    <2> QED
        BY <1>2, <1>4, <2>1, <2>2 DEF IndexInv, Written
<1> QED
    BY <1>3, <1>4 DEF SaveWrite

\* ... and one that flushes the index.
LEMMA FlushKeepsIndex ==
    ASSUME TypeInv, ControlInv, ClosedInv, Outside, NEW a \in Saver, SaveFlush(a)
    PROVE  IndexInv'
<1>1. /\ gen # 1 /\ done
      /\ Written \subseteq snap[a] /\ snap[a] \subseteq list
      /\ Content(snap[a]) = snap[a] /\ snap[a] # NoFile
    BY WriterLoaded DEF Outside, SaveFlush
<1>2. IndexInv /\ enc = snap[a]
    BY DEF Outside, SaveInv, SaveLabel, SaveFlush
<1>3. UNCHANGED <<enc, dek, done, gen, list>>
    BY DEF SaveFlush
<1>4. CASE dek /\ indexFile' = (IF encDirty THEN enc ELSE indexFile) /\ encDirty' = FALSE /\ Return(a, Ok)
    <2>1. saved' = saved \cup snap[a] /\ pc'[Unlocker] = pc[Unlocker]
        BY <1>4, ReturnFacts, Actors DEF Ok
    <2>2. pc[Unlocker] \notin {"readIndex", "install"}
        <3>1. a \in Handler \/ a = SaveLoop \/ a = Main
            BY Actors
        <3>2. CASE a = Main
            BY <3>2, Actors DEF SaveFlush, ControlInv
        <3>3. CASE a # Main
            BY <3>1, <3>3 DEF SaveFlush, Outside, LoadInv, Loading
        <3> QED
            BY <3>2, <3>3
    <2>3. indexFile' = enc
        BY <1>2, <1>4, <2>2 DEF IndexInv, TypeInv, VaultTypeOK
    <2>4. Written' \subseteq snap[a]
        BY <1>1, <1>2, <1>3, <2>1, <2>3 DEF Written
    <2>5. saved' \subseteq Content(indexFile')
        BY <1>1, <1>2, <2>1, <2>3 DEF Written
    <2> QED
        BY <1>1, <1>2, <1>3, <1>4, <2>3, <2>4, <2>5 DEF IndexInv
<1>5. CASE Return(a, ~Ok) /\ UNCHANGED <<indexFile, encDirty, exposed>>
    <2>1. saved' = saved /\ pc'[Unlocker] = pc[Unlocker]
        BY <1>5, ReturnFacts, Actors DEF Ok
    <2> QED
        BY <1>2, <1>3, <1>5, <2>1 DEF IndexInv, Written
<1> QED
    BY <1>4, <1>5 DEF SaveFlush

\* A Save that fails leaves the changes it took up flagged.
LEMMA FailureKeepsFlag ==
    ASSUME TypeInv, DirtyCoversChanges, exposed = {}, NEW a \in Saver, pc[a] \in SaveLabel,
           Return(a, ~Ok), UNCHANGED <<acked, plain, indexFile, doneFile>>
    PROVE  DirtyCoversChanges'
<1>1. /\ \A b \in Actor : b # a => pc'[b] = pc[b] /\ snap'[b] = snap[b]
      /\ dirty => dirty'
      /\ a = SaveLoop \/ (a = Main /\ phase = "flushing") => dirty'
      /\ a # Main => phase' = phase
    BY ReturnFacts DEF Ok
<1> SUFFICES ASSUME NEW c \in acked
    PROVE  \/ c \in Content(Stored)' \/ dirty' \/ SavePending(SaveLoop, c)'
           \/ phase' = "flushing" /\ SavePending(Main, c)'
    BY DEF DirtyCoversChanges
<1>2. Content(Stored)' = Content(Stored)
    BY DEF Content, Stored
<1>3. CASE dirty \/ c \in Content(Stored)
    BY <1>1, <1>2, <1>3
<1>4. CASE SavePending(SaveLoop, c)
    BY <1>1, <1>4, Actors DEF SavePending
<1>5. CASE phase = "flushing" /\ SavePending(Main, c)
    BY <1>1, <1>5, Actors DEF SavePending
<1> QED
    BY <1>3, <1>4, <1>5 DEF DirtyCoversChanges

\* A Save, whatever its step, leaves no answered change uncovered.
LEMMA SaveKeepsFlag ==
    ASSUME TypeInv, ControlInv, ClosedInv, exposed = {}, exposed' = {}, Outside,
           NEW a \in Saver, Save(a)
    PROVE  DirtyCoversChanges'
<1>1. DirtyCoversChanges /\ PlainInv /\ SaveInv /\ ChangesInv
    BY DEF Outside
<1>2. acked' = acked
    BY DEF Save, SaveSnapshot, SaveActive, SaveWrite, SaveFlush, SaveLocked, SavePlain, history
<1>3. ASSUME NEW l, Goto(a, l), l \in SaveLabel \ {"plain"}, UNCHANGED <<disks, phase, dirty>>,
             pc[a] = "snapshot" => snap'[a] = list, pc[a] # "snapshot" => snap'[a] = snap[a],
             \A b \in Saver : b # a => snap'[b] = snap[b]
      PROVE  DirtyCoversChanges'
    <2>1. pc'[a] = l /\ \A b \in Actor : b # a => pc'[b] = pc[b]
        BY <1>3, GotoFacts, Actors DEF TypeInv, PcTypeOK
    <2>2. Content(Stored)' = Content(Stored)
        BY <1>3 DEF Content, Stored, disks
    <2>3. ASSUME NEW b \in Saver, NEW c \in acked, SavePending(b, c) PROVE SavePending(b, c)'
        BY <1>1, <1>3, <2>1, <2>3, Actors DEF SavePending, ChangesInv, SaveLabel
    <2> QED
        BY <1>1, <1>2, <1>3, <2>2, <2>3, Actors DEF DirtyCoversChanges
<1>4. CASE SaveSnapshot(a)
    BY <1>3, <1>4, Actors DEF SaveSnapshot, memory, SaveLabel, TypeInv, LocalsTypeOK
<1>5. CASE SaveActive(a)
    BY <1>3, <1>5, Actors DEF SaveActive, memory, locals, SaveLabel
<1>6. CASE SaveWrite(a)
    BY <1>1, <1>2, <1>3, <1>6, FailureKeepsFlag, Actors DEF SaveWrite, memory, disks, SaveLabel
<1>7. CASE SaveFlush(a)
    <2>1. CASE Return(a, ~Ok) /\ UNCHANGED <<indexFile, encDirty, exposed>>
        BY <1>1, <1>2, <1>7, <2>1, FailureKeepsFlag DEF SaveFlush, SaveLabel
    <2>2. CASE dek /\ indexFile' = (IF encDirty THEN enc ELSE indexFile) /\ encDirty' = FALSE
               /\ Return(a, Ok)
        <3>1. /\ done /\ Written \subseteq snap[a] /\ Content(snap[a]) = snap[a]
            BY <1>7, <1>1, WriterLoaded DEF SaveFlush
        <3>2. doneFile' /\ doneFile /\ saved' = saved \cup snap[a]
            BY <1>1, <1>7, <2>2, <3>1, ReturnFacts DEF PlainInv, SaveFlush, Ok
        <3>3. IndexInv'
            BY <1>7, FlushKeepsIndex
        <3>4. snap[a] \subseteq Content(Stored)'
            BY <1>7, <2>2, <3>1, <3>2, <3>3 DEF IndexInv, Stored, Content, SaveFlush
        <3>5. Content(Stored) \subseteq Content(Stored)'
            BY <3>1, <3>2, <3>4 DEF Stored, Written
        <3>6. /\ dirty => dirty'
              /\ a # Main => phase' = phase
              /\ \A b \in Actor : b # a => pc'[b] = pc[b] /\ snap'[b] = snap[b]
            BY <2>2, ReturnFacts DEF Ok
        <3>7. ASSUME NEW b \in Saver, NEW c \in acked, SavePending(b, c)
              PROVE  (SavePending(b, c)' /\ b # a) \/ c \in Content(Stored)'
            BY <1>7, <3>4, <3>6, <3>7, Actors DEF SavePending, SaveFlush
        <3> QED
            BY <1>1, <1>2, <3>5, <3>6, <3>7, Actors DEF DirtyCoversChanges
    <2> QED
        BY <1>7, <2>1, <2>2 DEF SaveFlush
<1>8. CASE SaveLocked(a) \/ SavePlain(a)
    <2>1. CASE Return(a, ~Ok) /\ UNCHANGED plain
        BY <1>1, <1>2, <1>8, <2>1, FailureKeepsFlag DEF SaveLocked, SavePlain, disks, SaveLabel
    <2>2. CASE ~done
        BY <1>2, <2>2 DEF ControlInv, ClosedInv, DirtyCoversChanges
    <2> QED
        BY <1>1, <1>8, <2>1, <2>2 DEF SaveLocked, SavePlain, SaveInv, SaveLabel, Active, Locked, disks
<1> QED
    BY <1>4, <1>5, <1>6, <1>7, <1>8 DEF Save

\* markDirty changes nothing that the unlock looks at.
LEMMA MarkKeepsLoad ==
    ASSUME TypeInv, Outside, NEW h \in Handler, MarkDirty(h)
    PROVE  LoadInv'
<1>1. UNCHANGED <<plain, indexFile, enc, encDirty, dek, key, done, list, saved>>
    BY DEF MarkDirty, disks, vault
<1>2. /\ pc'[Unlocker] = pc[Unlocker] /\ snap'[Unlocker] = snap[Unlocker]
      /\ pc'[SaveLoop] = pc[SaveLoop] /\ \A g \in Handler : pc'[g] = pc[g] \/ pc'[g] = "idle"
    BY Actors DEF MarkDirty, Goto, TypeInv, PcTypeOK, LocalsTypeOK
<1>3. LoadInv
    BY DEF Outside
<1>4. Content(indexFile)' = Content(indexFile) /\ Content(enc)' = Content(enc)
    BY <1>1 DEF Content
<1>5. Written' = Written
    BY <1>1, <1>4 DEF Written
<1>6. (Loading /\ pc[Unlocker] # "reset")' =>
          /\ \A g \in Handler : pc'[g] \in {"idle", "start"}
          /\ pc'[SaveLoop] \notin {"flush", "plain"}
    BY <1>2, <1>3 DEF LoadInv, Loading
<1> QED
    BY <1>1, <1>2, <1>3, <1>4, <1>5, <1>6 DEF LoadInv

\* instances.json stays the list until vault.json says that it is migrated.
LEMMA PlainKept ==
    ASSUME TypeInv, TypeInv', ControlInv, ControlInv', ClosedInv, ClosedInv',
           exposed = {}, exposed' = {}, Outside, Next
    PROVE  PlainInv'
<1> USE Actors, Lists
<1> USE DEF TypeInv, DiskTypeOK, ListTypeOK, ObjectsTypeOK, VaultTypeOK, PcTypeOK, LocalsTypeOK,
            SaveLabel, LoadLabel, Goto, disks, memory, vault, locals, history, Locked, Active,
            ControlInv, ClosedInv, Outside, Expose, Strand, Loading, Written, Content, Changed,
            PlainInv, LoadInv, IndexInv, SaveInv, ChangesInv, DownInv, DirtyCoversChanges,
            SavePending, Stored
<1>1. ASSUME NEW h \in Handler, Request(h) PROVE PlainInv'
    BY <1>1 DEF Request, Enter, Restart, Edit, Refuse, MarkDirty, Start, Stop
<1>2. ASSUME NEW a \in Saver, Save(a) PROVE PlainInv'
    <2>1. CASE SavePlain(a)
        <3>1. pc[a] = "plain" /\ ~done /\ a = Main
            BY <2>1, ZenonT(60) DEF SavePlain
        <3>2. plain' = plain
            BY <2>1, <3>1 DEF SavePlain
        <3>3. saved' \subseteq plain'
            BY <2>1, <3>1, <3>2 DEF SavePlain, Return
        <3> QED
            BY <2>1, <3>1, <3>2, <3>3 DEF SavePlain, Return
    <2>2. CASE SaveFlush(a)
        BY <2>2 DEF SaveFlush, Return
    <2> QED
        BY <1>2, <2>1, <2>2 DEF Save, SaveSnapshot, SaveActive, SaveWrite, SaveLocked, Return
<1>3. CASE UnlockStep
    BY <1>3 DEF UnlockStep, LoadUnwrap, LoadReset, LoadRead, LoadInstall, Migrate, MigrateMark,
       MigrateUnlink, ReloadList, UnlockReady, UnlockRollback
<1>4. CASE Tick \/ CompareAndSwap \/ FlushLoop \/ Lock \/ Unlock
    BY <1>4 DEF Tick, CompareAndSwap, FlushLoop, Lock, Unlock
<1>5. CASE Shutdown \/ ShutdownStep \/ Crash
    BY <1>5 DEF Shutdown, ShutdownStep, ShutdownFlush, ShutdownStopAll, ShutdownVault, Crash
<1> QED
    BY <1>1, <1>2, <1>3, <1>4, <1>5, Zenon DEF Next

\* A load loses nothing of the list.
LEMMA LoadKept ==
    ASSUME TypeInv, TypeInv', ControlInv, ControlInv', ClosedInv, ClosedInv',
           exposed = {}, exposed' = {}, Outside, Next
    PROVE  LoadInv'
<1> USE Actors, Lists
<1> USE DEF TypeInv, DiskTypeOK, ListTypeOK, ObjectsTypeOK, VaultTypeOK, PcTypeOK, LocalsTypeOK,
            SaveLabel, LoadLabel, Goto, disks, memory, vault, locals, history, Locked, Active,
            ControlInv, ClosedInv, Outside, Expose, Strand, Loading, Written, Content, Changed,
            PlainInv, LoadInv, IndexInv, SaveInv, ChangesInv, DownInv, DirtyCoversChanges,
            SavePending, Stored
<1>1. ASSUME NEW h \in Handler, Request(h) PROVE LoadInv'
    <2>1. CASE Edit(h)
        BY <2>1, SMTT(30) DEF Edit
    <2>2. CASE Start(h)
        BY <2>2 DEF Start
    <2>3. CASE Stop(h)
        BY <2>3 DEF Stop
    <2>4. CASE MarkDirty(h)
        BY <2>4, MarkKeepsLoad
    <2> QED
        BY <1>1, <2>1, <2>2, <2>3, <2>4, SMTT(30) DEF Request, Enter, Restart, Refuse
<1>2. ASSUME NEW a \in Saver, Save(a) PROVE LoadInv'
    BY <1>2 DEF Save, SaveSnapshot, SaveActive, SaveWrite, SaveFlush, SaveLocked, SavePlain, Return
<1>3. CASE UnlockStep
    BY <1>3 DEF UnlockStep, LoadUnwrap, LoadReset, LoadRead, LoadInstall, Migrate, MigrateMark,
       MigrateUnlink, ReloadList, UnlockReady, UnlockRollback
<1>4. CASE Tick \/ CompareAndSwap \/ FlushLoop \/ Lock \/ Unlock
    BY <1>4 DEF Tick, CompareAndSwap, FlushLoop, Lock, Unlock
<1>5. CASE Shutdown \/ ShutdownStep \/ Crash
    BY <1>5 DEF Shutdown, ShutdownStep, ShutdownFlush, ShutdownStopAll, ShutdownVault, Crash
<1> QED
    BY <1>1, <1>2, <1>3, <1>4, <1>5, Zenon DEF Next

\* The index, in memory and on the disk, loses nothing that was saved.
LEMMA IndexKept ==
    ASSUME TypeInv, TypeInv', ControlInv, ControlInv', ClosedInv, ClosedInv',
           exposed = {}, exposed' = {}, Outside, Next
    PROVE  IndexInv'
<1> USE Actors, Lists
<1> USE DEF TypeInv, DiskTypeOK, ListTypeOK, ObjectsTypeOK, VaultTypeOK, PcTypeOK, LocalsTypeOK,
            SaveLabel, LoadLabel, Goto, disks, memory, vault, locals, history, Locked, Active,
            ControlInv, ClosedInv, Outside, Expose, Strand, Loading, Written, Content, Changed,
            PlainInv, LoadInv, IndexInv, SaveInv, ChangesInv, DownInv, DirtyCoversChanges,
            SavePending, Stored
<1>1. ASSUME NEW h \in Handler, Request(h) PROVE IndexInv'
    <2>1. CASE Edit(h)
        BY <2>1 DEF Edit
    <2>2. CASE Start(h)
        BY <2>2 DEF Start
    <2> QED
        BY <1>1, <2>1, <2>2 DEF Request, Enter, Restart, Refuse, MarkDirty, Stop
<1>2. ASSUME NEW a \in Saver, Save(a) PROVE IndexInv'
    <2>1. CASE SaveWrite(a) \/ SaveFlush(a)
        BY <2>1, WriteKeepsIndex, FlushKeepsIndex
    <2>2. CASE SaveLocked(a)
        BY <2>2 DEF SaveLocked, Return, Ok
    <2> QED
        BY <1>2, <2>1, <2>2 DEF Save, SaveSnapshot, SaveActive, SavePlain, Return
<1>3. CASE UnlockStep
    <2>1. CASE LoadReset
        BY <2>1 DEF LoadReset
    <2>2. CASE LoadInstall
        BY <2>2 DEF LoadInstall
    <2>3. CASE Migrate
        BY <2>3 DEF Migrate
    <2>4. CASE MigrateMark
        BY <2>4 DEF MigrateMark
    <2>5. CASE ReloadList
        BY <2>5 DEF ReloadList
    <2>6. CASE UnlockRollback
        BY <2>6 DEF UnlockRollback
    <2> QED
        BY <1>3, <2>1, <2>2, <2>3, <2>4, <2>5, <2>6 DEF UnlockStep, LoadUnwrap, LoadRead, MigrateUnlink, UnlockReady
<1>4. CASE Tick \/ CompareAndSwap \/ FlushLoop \/ Lock \/ Unlock
    BY <1>4 DEF Tick, CompareAndSwap, FlushLoop, Lock, Unlock
<1>5. CASE Shutdown \/ ShutdownStep \/ Crash
    BY <1>5 DEF Shutdown, ShutdownStep, ShutdownFlush, ShutdownStopAll, ShutdownVault, Crash
<1> QED
    BY <1>1, <1>2, <1>3, <1>4, <1>5, Zenon DEF Next

\* A Save on its way stays ahead of the index.
LEMMA SaveKept ==
    ASSUME TypeInv, TypeInv', ControlInv, ControlInv', ClosedInv, ClosedInv',
           exposed = {}, exposed' = {}, Outside, Next
    PROVE  SaveInv'
<1> USE Actors, Lists
<1> USE DEF TypeInv, DiskTypeOK, ListTypeOK, ObjectsTypeOK, VaultTypeOK, PcTypeOK, LocalsTypeOK,
            SaveLabel, LoadLabel, Goto, disks, memory, vault, locals, history, Locked, Active,
            ControlInv, ClosedInv, Outside, Expose, Strand, Loading, Written, Content, Changed,
            PlainInv, LoadInv, IndexInv, SaveInv, ChangesInv, DownInv, DirtyCoversChanges,
            SavePending, Stored
<1>1. ASSUME NEW h \in Handler, Request(h) PROVE SaveInv'
    <2>1. CASE Edit(h)
        BY <2>1 DEF Edit
    <2>2. CASE MarkDirty(h)
        BY <2>2 DEF MarkDirty
    <2>3. CASE Start(h)
        BY <2>3 DEF Start
    <2> QED
        BY <1>1, <2>1, <2>2, <2>3 DEF Request, Enter, Restart, Refuse, Stop
<1>2. ASSUME NEW a \in Saver, Save(a) PROVE SaveInv'
    BY <1>2 DEF Save, SaveSnapshot, SaveActive, SaveWrite, SaveFlush, SaveLocked, SavePlain, Return
<1>3. CASE UnlockStep
    BY <1>3 DEF UnlockStep, LoadUnwrap, LoadReset, LoadRead, LoadInstall, Migrate, MigrateMark,
       MigrateUnlink, ReloadList, UnlockReady, UnlockRollback
<1>4. CASE Tick \/ CompareAndSwap \/ FlushLoop \/ Lock \/ Unlock
    BY <1>4 DEF Tick, CompareAndSwap, FlushLoop, Lock, Unlock
<1>5. CASE Shutdown \/ ShutdownStep \/ Crash
    BY <1>5 DEF Shutdown, ShutdownStep, ShutdownFlush, ShutdownStopAll, ShutdownVault, Crash
<1> QED
    BY <1>1, <1>2, <1>3, <1>4, <1>5, Zenon DEF Next

\* A change that is marked was in the list.
LEMMA MarkKeepsChanges ==
    ASSUME TypeInv, ChangesInv, NEW h \in Handler, MarkDirty(h)
    PROVE  ChangesInv'
<1>1. /\ acked' = acked \cup snap[h] /\ list' = list /\ pc[h] = "marking"
      /\ snap' = [snap EXCEPT ![h] = {}] /\ pc' = [pc EXCEPT ![h] = "idle"]
    BY DEF MarkDirty, Goto
<1>2. \A g \in Handler : pc'[g] = "marking" => g # h /\ pc[g] = "marking" /\ snap'[g] = snap[g]
    BY <1>1, Actors DEF TypeInv, PcTypeOK, LocalsTypeOK
<1> QED
    BY <1>1, <1>2 DEF ChangesInv

\* The list keeps every change.
LEMMA ChangesKept ==
    ASSUME TypeInv, TypeInv', ControlInv, ControlInv', ClosedInv, ClosedInv',
           exposed = {}, exposed' = {}, Outside, Next
    PROVE  ChangesInv'
<1> USE Actors, Lists
<1> USE DEF TypeInv, DiskTypeOK, ListTypeOK, ObjectsTypeOK, VaultTypeOK, PcTypeOK, LocalsTypeOK,
            SaveLabel, LoadLabel, Goto, disks, memory, vault, locals, history, Locked, Active,
            ControlInv, ClosedInv, Outside, Expose, Strand, Loading, Written, Content, Changed,
            PlainInv, LoadInv, IndexInv, SaveInv, ChangesInv, DownInv, DirtyCoversChanges,
            SavePending, Stored
<1>1. ASSUME NEW h \in Handler, Request(h) PROVE ChangesInv'
    <2>1. CASE Edit(h)
        BY <2>1, SMTT(30) DEF Edit
    <2>2. CASE MarkDirty(h)
        BY <2>2, MarkKeepsChanges
    <2>3. CASE Start(h)
        BY <2>3 DEF Start
    <2> QED
        BY <1>1, <2>1, <2>2, <2>3 DEF Request, Enter, Restart, Refuse, Stop
<1>2. ASSUME NEW a \in Saver, Save(a) PROVE ChangesInv'
    BY <1>2 DEF Save, SaveSnapshot, SaveActive, SaveWrite, SaveFlush, SaveLocked, SavePlain, Return
<1>3. CASE UnlockStep
    BY <1>3, SMTT(30) DEF UnlockStep, LoadUnwrap, LoadReset, LoadRead, LoadInstall, Migrate, MigrateMark,
       MigrateUnlink, ReloadList, UnlockReady, UnlockRollback
<1>4. CASE Tick \/ CompareAndSwap \/ FlushLoop \/ Lock \/ Unlock
    <2>1. CASE Tick
        BY <2>1 DEF Tick
    <2>2. CASE CompareAndSwap
        BY <2>2, SMTT(30) DEF CompareAndSwap
    <2>3. CASE Lock
        BY <2>3 DEF Lock
    <2> QED
        BY <1>4, <2>1, <2>2, <2>3 DEF FlushLoop, Unlock
<1>5. CASE Shutdown \/ ShutdownStep \/ Crash
    BY <1>5 DEF Shutdown, ShutdownStep, ShutdownFlush, ShutdownStopAll, ShutdownVault, Crash
<1> QED
    BY <1>1, <1>2, <1>3, <1>4, <1>5, Zenon DEF Next

\* The last Save of a shutdown is not undone.
LEMMA DownKept ==
    ASSUME TypeInv, TypeInv', ControlInv, ControlInv', ClosedInv, ClosedInv',
           exposed = {}, exposed' = {}, Outside, Next
    PROVE  DownInv'
<1> USE Actors, Lists
<1> USE DEF TypeInv, DiskTypeOK, ListTypeOK, ObjectsTypeOK, VaultTypeOK, PcTypeOK, LocalsTypeOK,
            SaveLabel, LoadLabel, Goto, disks, memory, vault, locals, history, Locked, Active,
            ControlInv, ClosedInv, Outside, Expose, Strand, Loading, Written, Content, Changed,
            PlainInv, LoadInv, IndexInv, SaveInv, ChangesInv, DownInv, DirtyCoversChanges,
            SavePending, Stored
<1>1. ASSUME NEW h \in Handler, Request(h) PROVE DownInv'
    BY <1>1 DEF Request, Enter, Restart, Edit, Refuse, MarkDirty, Start, Stop
<1>2. ASSUME NEW a \in Saver, Save(a) PROVE DownInv'
    <2>1. CASE SaveWrite(a)
        BY <2>1 DEF SaveWrite, Return
    <2>2. CASE SaveFlush(a)
        BY <2>2 DEF SaveFlush, Return
    <2>3. CASE SaveLocked(a)
        BY <2>3 DEF SaveLocked, Return
    <2>4. CASE SavePlain(a)
        BY <2>4 DEF SavePlain, Return
    <2> QED
        BY <1>2, <2>1, <2>2, <2>3, <2>4 DEF Save, SaveSnapshot, SaveActive
<1>3. CASE UnlockStep
    BY <1>3, ZenonT(60) DEF UnlockStep, LoadUnwrap, LoadReset, LoadRead, LoadInstall, Migrate, MigrateMark,
       MigrateUnlink, ReloadList, UnlockReady, UnlockRollback
<1>4. CASE Tick \/ CompareAndSwap \/ FlushLoop \/ Lock \/ Unlock
    BY <1>4 DEF Tick, CompareAndSwap, FlushLoop, Lock, Unlock
<1>5. CASE Shutdown \/ ShutdownStep \/ Crash
    <2>1. CASE ShutdownFlush
        BY <2>1 DEF ShutdownFlush
    <2>2. CASE ShutdownVault
        BY <2>2 DEF ShutdownVault
    <2>3. CASE Crash
        BY <2>3 DEF Crash
    <2> QED
        BY <1>5, <2>1, <2>2, <2>3 DEF Shutdown, ShutdownStep, ShutdownStopAll
<1> QED
    BY <1>1, <1>2, <1>3, <1>4, <1>5, Zenon DEF Next

\* Every step leaves the answered changes covered.
LEMMA DirtyKept ==
    ASSUME TypeInv, TypeInv', ControlInv, ControlInv', ClosedInv, ClosedInv',
           exposed = {}, exposed' = {}, Outside, Next
    PROVE  DirtyCoversChanges'
<1> USE Actors, Lists
<1> USE DEF TypeInv, DiskTypeOK, ListTypeOK, ObjectsTypeOK, VaultTypeOK, PcTypeOK, LocalsTypeOK,
            SaveLabel, LoadLabel, Goto, disks, memory, vault, locals, history, Locked, Active,
            ControlInv, ClosedInv, Outside, Expose, Strand, Loading, Written, Content, Changed,
            PlainInv, LoadInv, IndexInv, SaveInv, ChangesInv, DownInv, DirtyCoversChanges,
            SavePending, Stored
<1>1. ASSUME NEW h \in Handler, Request(h) PROVE DirtyCoversChanges'
    BY <1>1 DEF Request, Enter, Restart, Edit, Refuse, MarkDirty, Start, Stop
<1>2. ASSUME NEW a \in Saver, Save(a) PROVE DirtyCoversChanges'
    BY <1>2, SaveKeepsFlag
<1>3. CASE UnlockStep
    BY <1>3 DEF UnlockStep, LoadUnwrap, LoadReset, LoadRead, LoadInstall, Migrate, MigrateMark,
       MigrateUnlink, ReloadList, UnlockReady, UnlockRollback
<1>4. CASE Tick \/ CompareAndSwap \/ FlushLoop \/ Lock \/ Unlock
    BY <1>4 DEF Tick, CompareAndSwap, FlushLoop, Lock, Unlock
<1>5. CASE Shutdown \/ ShutdownStep \/ Crash
    BY <1>5 DEF Shutdown, ShutdownStep, ShutdownFlush, ShutdownStopAll, ShutdownVault, Crash
<1> QED
    BY <1>1, <1>2, <1>3, <1>4, <1>5, Zenon DEF Next

----------------------------------------------------------------------------
(* The theorems.                                                           *)

\* The invariant holds at first
LEMMA InitInv == Init => ListInv
<1> SUFFICES ASSUME Init PROVE ListInv
    OBVIOUS
<1>1. TypeInv
    BY InitType
<1>2. ControlInv /\ ClosedInv
    BY Actors, Lists DEF Init, ControlInv, ClosedInv, SaveLabel
<1>3. Outside
    <2>1. PlainInv
        BY Lists DEF Init, PlainInv
    <2>2. LoadInv
        BY Actors DEF Init, LoadInv, Loading
    <2>3. IndexInv /\ SaveInv
        BY Actors, Lists DEF Init, IndexInv, SaveInv, SaveLabel, Written
    <2>4. ChangesInv /\ DownInv /\ DirtyCoversChanges
        BY Actors DEF Init, ChangesInv, DownInv, DirtyCoversChanges
    <2> QED
        BY <2>1, <2>2, <2>3, <2>4 DEF Outside
<1> QED
    BY <1>1, <1>2, <1>3 DEF ListInv, WindowInv

\* A window stays on the record.
LEMMA ExposedStays == Next => exposed \subseteq exposed'
BY Zenon DEF Next, Request, Save, UnlockStep, ShutdownStep, Enter, Restart, Edit, Refuse, MarkDirty,
   Start, Stop, Tick, CompareAndSwap, SaveSnapshot, SaveActive, SaveWrite, SaveFlush, SaveLocked, SavePlain,
   FlushLoop, Lock, Unlock, LoadUnwrap, LoadReset, LoadRead, LoadInstall, Migrate, MigrateMark,
   MigrateUnlink, ReloadList, UnlockReady, UnlockRollback, Shutdown, ShutdownFlush,
   ShutdownStopAll, ShutdownVault, Crash, history, Expose, Strand

\* ... and every step keeps it.
LEMMA NextInv == ListInv /\ [Next]_vars => ListInv'
<1> SUFFICES ASSUME ListInv, [Next]_vars PROVE ListInv'
    OBVIOUS
<1>1. CASE Next
    <2>1. TypeInv /\ ControlInv /\ ClosedInv /\ WindowInv
        BY DEF ListInv
    <2>2. TypeInv' /\ ControlInv' /\ ClosedInv'
        BY <1>1, <2>1, TypeKept, ControlKept, ClosedKept
    <2>3. ASSUME exposed' = {} PROVE Outside'
        <3>1. exposed = {}
            BY <1>1, <2>3, ExposedStays
        <3>2. Outside
            BY <2>1, <3>1 DEF WindowInv
        <3>3. PlainInv' /\ LoadInv' /\ IndexInv' /\ SaveInv'
            BY <1>1, <2>1, <2>2, <2>3, <3>1, <3>2, PlainKept, LoadKept, IndexKept, SaveKept
        <3>4. ChangesInv' /\ DownInv' /\ DirtyCoversChanges'
            BY <1>1, <2>1, <2>2, <2>3, <3>1, <3>2, ChangesKept, DownKept, DirtyKept
        <3> QED
            BY <3>3, <3>4 DEF Outside
    <2> QED
        BY <2>2, <2>3 DEF ListInv, WindowInv
<1>2. CASE UNCHANGED vars
    <2>1. TypeInv'
        BY <1>2, UnchangedType DEF ListInv
    <2>2. ControlInv' /\ ClosedInv'
        BY <1>2 DEF vars, ListInv, ControlInv, ClosedInv
    <2>3. ASSUME exposed' = {} PROVE Outside'
        <3>1. Outside
            BY <1>2, <2>3 DEF vars, ListInv, WindowInv
        <3>2. PlainInv' /\ LoadInv' /\ IndexInv' /\ SaveInv'
            BY <1>2, <3>1 DEF vars, Outside, PlainInv, LoadInv, Loading, IndexInv, SaveInv, Written,
               Content, Active
        <3>3. ChangesInv' /\ DownInv' /\ DirtyCoversChanges'
            BY <1>2, <3>1 DEF vars, Outside, ChangesInv, DownInv, DirtyCoversChanges, SavePending,
               Stored, Content, Active
        <3> QED
            BY <3>2, <3>3 DEF Outside
    <2> QED
        BY <2>1, <2>2, <2>3 DEF ListInv, WindowInv
<1> QED
    BY <1>1, <1>2

\* The inductive invariant holds.
THEOREM ListInvariant == Spec => []ListInv
BY InitInv, NextInv, PTL DEF Spec

\* Every variable keeps its type: the generation an actor holds is one an unlock has
\* made, and saves and loads stay at labels of their own.
THEOREM ListTypeCorrect == Spec => []TypeOK
<1>1. ListInv => TypeOK
    BY TypeInvIsType DEF ListInv
<1> QED
    BY <1>1, ListInvariant, PTL

\* Daemon.dirty, or the save in progress, covers every answered change that is not on
\* the disk (markDirty, FlushDirty).
THEOREM DirtyCoversChangesHolds == Spec => []DirtyCoversChanges
<1>1. ListInv => DirtyCoversChanges
    BY DEF ListInv, WindowInv, Outside, DirtyCoversChanges
<1> QED
    BY <1>1, ListInvariant, PTL

\* Nothing takes back what a Save has written (saveMu, migrateInstancesJSON).
THEOREM SavedStaysSavedHolds == Spec => []SavedStaysSaved
<1>1. ASSUME ListInv PROVE SavedStaysSaved
    <2> SUFFICES ASSUME exposed = {}
        PROVE saved \subseteq Content(Stored) \cup (IF encDirty THEN Content(enc) ELSE {})
        BY DEF SavedStaysSaved
    <2>1. PlainInv /\ IndexInv
        BY <1>1 DEF ListInv, WindowInv, Outside
    <2>2. CASE ~done
        BY <2>1, <2>2 DEF PlainInv, Stored, Content
    <2>3. CASE done /\ saved \subseteq Content(indexFile)
        BY <2>1, <2>3 DEF PlainInv, Stored
    <2>4. CASE done /\ dek /\ encDirty
        BY <2>1, <2>4 DEF IndexInv, Written
    <2> QED
        BY <2>1, <2>2, <2>3, <2>4 DEF IndexInv
<1> QED
    BY <1>1, ListInvariant, PTL

\* No answered change is missing in the list when no load is in progress
\* (loadInstancesVault).
THEOREM UnlockKeepsChangesHolds == Spec => []UnlockKeepsChanges
<1>1. ListInv => UnlockKeepsChanges
    BY DEF ListInv, WindowInv, Outside, ChangesInv, UnlockKeepsChanges
<1> QED
    BY <1>1, ListInvariant, PTL

\* After a graceful shutdown of an unlocked vault the disk holds the list (FlushDirty,
\* stopAll, the last flush).
THEOREM ShutdownSavesHolds == Spec => []ShutdownSaves
<1>1. ASSUME ListInv PROVE ShutdownSaves
    <2> SUFFICES ASSUME phase = "down", exposed = {}, "write" \notin Faults, ~Locked
        PROVE Content(Stored) = list
        BY DEF ShutdownSaves
    <2>1. PlainInv /\ DownInv /\ list \in SUBSET Change
        BY <1>1 DEF ListInv, WindowInv, Outside, TypeInv, ListTypeOK
    <2>2. Content(list) = list
        BY <2>1, Lists
    <2>3. CASE done
        BY <2>1, <2>2, <2>3 DEF PlainInv, DownInv, Stored, Active, Locked
    <2>4. CASE ~done
        BY <2>1, <2>2, <2>4 DEF PlainInv, Stored
    <2> QED
        BY <2>3, <2>4
<1> QED
    BY <1>1, ListInvariant, PTL
=============================================================================
