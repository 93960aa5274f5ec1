-------------------------- MODULE VaultFilesProofs --------------------------
(***************************************************************************)
(* Proofs about VaultFiles: the types, that the last write of every file   *)
(* is kept, and that a stop leaves no plaintext, for any set of files; and *)
(* about FileMigration: that the migration loses no file on its way.       *)
(*                                                                         *)
(* The properties speak of behaviours that have hit none of the windows of *)
(* the code, which stay in exposed for good.  The invariant is therefore   *)
(* in two parts: who can be at what (ControlInv), which holds always, and  *)
(* how the tree, the index in force and the loops over them go together    *)
(* (Outside), which holds as long as exposed is empty.  The invariant of   *)
(* the migration is cut along its windows in the same way.                 *)
(***************************************************************************)
EXTENDS MCVaultFiles, WellFoundedInduction, TLAPS

----------------------------------------------------------------------------
(* The inductive invariant.                                                *)

\* Who can be at what, windows or not: vaultGate is shut while an unlock is under
\* way, unless it is locked; a file has been written once at least.
ControlInv ==
    /\ pc[Unlocker] \in {"idle", "load", "reload", "walk", "encrypt", "ready", "rollback"}
    /\ pc[Op] \in {"idle", "dirty", "walk", "encrypt", "materialize", "stopping", "stopped", "kept"}
    /\ pc[Client] \in {"idle", "editVault", "editTree"}
    /\ loading => pc[Unlocker] # "idle"
    /\ pc[Unlocker] # "idle" /\ key => loading
    /\ \A f \in File : latest[f] # 0

\* The index in memory is in force, and not the one of the index file, from the
\* end of load to the lock.
InMemory == key /\ pc[Unlocker] # "load"

\* The index in force, as in Vaulted.
Index == IF InMemory THEN enc ELSE encFile

\* A file that is not in the tree has its last write in the index e,
Kept(e) == \A f \in File : plain[f].v = 0 => e[f].v = latest[f]

\* and one that is in the tree has its entry's time only if it is what the entry
\* has: encryptBack, which skips by the time, skips nothing that has changed.
ToldApart(e) == \A f \in File :
    plain[f].v # 0 /\ e[f].v # 0 /\ e[f].t = plain[f].t => e[f].v = plain[f].v

\* A process runs only under its instance's name or while it is being stopped,
\* and never where a tree is encrypted or decrypted; nobody else is at the files
\* while an unlock is; a lock that comes while a process, an operation or an unlock
\* is under way has written the index it goes on with.
ProcInv ==
    /\ proc => managed \/ pc[Op] = "stopping"
    /\ proc => pc[Op] \in {"idle", "stopping"} /\ pc[Unlocker] \in {"idle", "load", "reload"}
    /\ pc[Unlocker] # "idle" => pc[Op] = "idle" /\ pc[Client] = "idle"
    /\ proc \/ pc[Op] # "idle" \/ pc[Unlocker] \notin {"idle", "load", "rollback"} =>
            InMemory \/ enc = encFile

\* What is in the tree is the last write of each file, and the index has those of
\* the others; a running process has all files in the tree.  Materialize has yet
\* to write just what is missing.
TreeInv ==
    /\ \A f \in File : plain[f].v # 0 => plain[f].v = latest[f]
    /\ Kept(Index) /\ ToldApart(Index)
    /\ proc => Present(plain) = File
    /\ pc[Op] = "stopped" => Present(plain) = {}
    /\ pc[Op] = "materialize" => todo[Op] = File \ Present(plain)

\* While encryptBack runs it has found the tree as it is, and what it is through
\* with is in the index.  An unlock may still fall back on the index file.
BackInv ==
    /\ \A a \in {Op, Unlocker} : pc[a] = "encrypt" =>
        /\ walked[a] = Present(plain) /\ todo[a] \subseteq walked[a]
        /\ \A f \in walked[a] \ todo[a] : enc[f].v = plain[f].v
    /\ pc[Unlocker] \in {"walk", "encrypt", "rollback"} => Kept(encFile) /\ ToldApart(encFile)

\* What holds outside the windows.
Outside == ProcInv /\ TreeInv /\ BackInv

\* The inductive invariant.
FilesInv == ControlInv /\ (exposed = {} => Outside)

----------------------------------------------------------------------------
(* The initial state, and types.                                           *)

\* A node that has booted.
LEMMA InitHolds == Init => TypeOK /\ FilesInv
<1> SUFFICES ASSUME Init PROVE TypeOK /\ FilesInv
  OBVIOUS
<1>1. TypeOK
  <2>1. Missing \in Entry /\ [v |-> 1, t |-> 0] \in Entry
    BY FilesConfigAssumption DEF Missing, Entry
  <2>2. /\ plain \in [File -> Entry] /\ enc \in [File -> Entry] /\ encFile \in [File -> Entry]
        /\ latest \in [File -> 0..MaxWrites]
    BY <2>1, FilesConfigAssumption DEF Init
  <2>3. /\ pc \in [Actor -> Label]
        /\ todo \in [Actor -> SUBSET File] /\ walked \in [Actor -> SUBSET File]
    BY DEF Init, Label
  <2>4. /\ now \in 0..MaxTime /\ made \in 0..MaxWrites /\ unlocks \in 0..MaxUnlocks
        /\ exposed \subseteq Window
    BY FilesConfigAssumption DEF Init
  <2> QED
    BY <2>2, <2>3, <2>4 DEF Init, TypeOK
<1>2. ControlInv
  BY DEF Init, ControlInv, Actor
<1>3. Outside
  <2>1. /\ \A f \in File : plain[f].v = 0 /\ encFile[f].v = latest[f]
        /\ \A a \in Actor : pc[a] = "idle"
        /\ ~key /\ ~proc /\ Op \in Actor /\ Unlocker \in Actor
    BY DEF Init, Missing, Actor
  <2> QED
    BY <2>1 DEF Outside, ProcInv, TreeInv, BackInv, InMemory, Index, Kept, ToldApart
<1> QED
  BY <1>1, <1>2, <1>3 DEF FilesInv

\* A crash and the end of a shutdown leave the types of what a boot finds.
LEMMA BootTyped ==
    ASSUME TypeOK, Boot, encFile' \in [File -> Entry], exposed' \subseteq Window
    PROVE  TypeOK'
<1>1. Missing \in Entry
  BY FilesConfigAssumption DEF Missing, Entry
<1>2. enc' \in [File -> Entry] /\ encFile' \in [File -> Entry]
  BY <1>1 DEF Boot
<1>3. /\ pc' \in [Actor -> Label]
      /\ todo' \in [Actor -> SUBSET File] /\ walked' \in [Actor -> SUBSET File]
  BY DEF Boot, Label
<1> QED
  BY <1>2, <1>3 DEF Boot, TypeOK, counters

\* Every step keeps the types.
LEMMA TypeStep ==
    ASSUME TypeOK, Next
    PROVE  TypeOK'
<1>1. ASSUME StartClaim PROVE TypeOK'
  BY <1>1 DEF StartClaim, Goto, store, counters, history, TypeOK, Entry, Label, Window
<1>2. ASSUME StartDirty PROVE TypeOK'
  BY <1>2 DEF StartDirty, Goto, store, counters, history, TypeOK, Entry, Label, Window, Present
<1>3. ASSUME StartSpawn PROVE TypeOK'
  BY <1>3 DEF StartSpawn, Goto, store, locals, counters, history, TypeOK, Entry, Label, Window
<1>4. ASSUME NEW f \in File, Materialize(f) PROVE TypeOK'
  <2>1. Stamped(enc[f].v) \in Entry
    BY DEF Stamped, TypeOK, Entry
  <2>2. plain' \in [File -> Entry]
    BY <1>4, <2>1 DEF Materialize, TypeOK
  <2>3. /\ pc' \in [Actor -> Label] /\ todo' \in [Actor -> SUBSET File]
        /\ status' \in {"stopped", "starting", "running", "stopping"} /\ busy' \in BOOLEAN
    <3>1. CASE key
      BY <1>4, <3>1 DEF Materialize, TypeOK
    <3>2. CASE ~key
      BY <1>4, <3>2 DEF Materialize, TypeOK, Goto, Label
    <3> QED
      BY <3>1, <3>2
  <2> QED
    BY <1>4, <2>2, <2>3 DEF Materialize, TypeOK, store, counters, history
<1>5. ASSUME NEW m \in {"stop", "shutdown"}, Stop(m) PROVE TypeOK'
  BY <1>5 DEF Stop, Goto, store, counters, history, TypeOK, Entry, Label, Window
<1>6. ASSUME StopEnded PROVE TypeOK'
  BY <1>6 DEF StopEnded, Goto, store, locals, counters, history, TypeOK, Entry, Label, Window
<1>7. ASSUME StopRelease PROVE TypeOK'
  BY <1>7 DEF StopRelease, Goto, store, locals, counters, history, TypeOK, Entry, Label, Window
<1>8. ASSUME Kill PROVE TypeOK'
  BY <1>8 DEF Kill, store, locals, counters, history, TypeOK
<1>9. ASSUME NEW a \in {Op, Unlocker}, BackWalk(a) PROVE TypeOK'
  BY <1>9
  DEF BackWalk, Goto, store, instance, counters, history, TypeOK, Entry, Label, Window, Present
<1>10. ASSUME NEW a \in {Op, Unlocker}, NEW f \in File, BackEncrypt(a, f) PROVE TypeOK'
  <2>1. Stamped(plain[f].v) \in Entry
    BY DEF Stamped, TypeOK, Entry
  <2>2. enc' \in [File -> Entry] /\ todo' \in [Actor -> SUBSET File]
    BY <1>10, <2>1 DEF BackEncrypt, TypeOK
  <2> QED
    BY <1>10, <2>2 DEF BackEncrypt, TypeOK, instance, counters, history
<1>11. ASSUME NEW a \in {Op, Unlocker}, BackWipe(a) PROVE TypeOK'
  BY <1>11, FilesConfigAssumption
  DEF BackWipe, Goto, Actor, store, instance, counters, history, TypeOK, Entry, Missing, Label,
      Window, Present
<1>12. ASSUME NEW a \in {Op, Unlocker}, BackFails(a) PROVE TypeOK'
  BY <1>12 DEF BackFails, Goto, store, counters, history, TypeOK, Entry, Label, Window
<1>13. ASSUME EditBegin PROVE TypeOK'
  BY <1>13
  DEF EditBegin, Goto, store, instance, locals, counters, history, TypeOK, Entry, Label, Window
<1>14. ASSUME EditFails PROVE TypeOK'
  BY <1>14
  DEF EditFails, Goto, store, instance, locals, counters, history, TypeOK, Entry, Label, Window
<1>15. ASSUME NEW f \in File, ProcessWrite(f) PROVE TypeOK'
  BY <1>15, FilesConfigAssumption
  DEF ProcessWrite, Stamped, NewWrite, store, instance, locals, TypeOK, Entry, Label, Window
<1>16. ASSUME NEW f \in File, EditVault(f) PROVE TypeOK'
  BY <1>16, FilesConfigAssumption
  DEF EditVault, Goto, Actor, Stamped, NewWrite, instance, locals, TypeOK, Entry, Label, Window
<1>17. ASSUME NEW f \in File, EditTree(f) PROVE TypeOK'
  BY <1>17, FilesConfigAssumption
  DEF EditTree, Goto, Actor, Stamped, NewWrite, store, instance, locals, TypeOK, Entry, Label,
      Window
<1>18. ASSUME Flush PROVE TypeOK'
  BY <1>18 DEF Flush, instance, locals, counters, history, TypeOK
<1>19. ASSUME Lock PROVE TypeOK'
  BY <1>19 DEF Lock, WritesIndex, instance, locals, counters, TypeOK, Window
<1>20. ASSUME Unlock PROVE TypeOK'
  BY <1>20, FilesConfigAssumption
  DEF Unlock, Goto, Actor, store, instance, locals, history, TypeOK, Entry, Label, Window
<1>21. ASSUME UnlockLoad PROVE TypeOK'
  BY <1>21 DEF UnlockLoad, Goto, locals, counters, TypeOK, Entry, Label, Window
<1>22. ASSUME UnlockReady PROVE TypeOK'
  BY <1>22
  DEF UnlockReady, Goto, store, instance, locals, counters, history, TypeOK, Entry, Label,
      Window
<1>23. ASSUME UnlockRollback PROVE TypeOK'
  BY <1>23
  DEF UnlockRollback, Goto, store, instance, locals, counters, history, TypeOK, Entry, Label,
      Window
<1>24. ASSUME Crash PROVE TypeOK'
  <2>1. encFile' \in [File -> Entry] /\ exposed' \subseteq Window
    BY <1>24 DEF Crash, TypeOK, Window
  <2> QED
    BY <1>24, <2>1, BootTyped DEF Crash
<1>25. ASSUME ShutdownEnd PROVE TypeOK'
  <2>1. encFile' \in [File -> Entry] /\ exposed' \subseteq Window
    BY <1>25 DEF ShutdownEnd, WritesIndex, TypeOK, Window
  <2> QED
    BY <1>25, <2>1, BootTyped DEF ShutdownEnd
<1>26. ASSUME Second PROVE TypeOK'
  BY <1>26, FilesConfigAssumption DEF Second, store, instance, locals, history, TypeOK
<1> QED
  BY <1>1, <1>2, <1>3, <1>4, <1>5, <1>6, <1>7, <1>8, <1>9, <1>10, <1>11, <1>12, <1>13, <1>14,
     <1>15, <1>16, <1>17, <1>18, <1>19, <1>20, <1>21, <1>22, <1>23, <1>24, <1>25, <1>26, Zenon
  DEF Next, EncryptBack

----------------------------------------------------------------------------
(* The invariant.                                                          *)

\* Every step keeps the actors apart.
LEMMA ControlStep ==
    ASSUME TypeOK, ControlInv, Next
    PROVE  ControlInv'
<1>1. ASSUME StartClaim PROVE ControlInv'
  BY <1>1 DEF StartClaim, Goto, Op, Unlocker, Client, Open, history, ControlInv
<1>2. ASSUME StartDirty PROVE ControlInv'
  BY <1>2 DEF StartDirty, Goto, Actor, history, TypeOK, ControlInv
<1>3. ASSUME StartSpawn PROVE ControlInv'
  BY <1>3 DEF StartSpawn, Goto, history, ControlInv
<1>4. ASSUME NEW f \in File, Materialize(f) PROVE ControlInv'
  BY <1>4 DEF Materialize, Goto, Actor, history, TypeOK, ControlInv
<1>5. ASSUME NEW m \in {"stop", "shutdown"}, Stop(m) PROVE ControlInv'
  BY <1>5 DEF Stop, Goto, Op, Unlocker, Client, Open, history, ControlInv
<1>6. ASSUME StopEnded PROVE ControlInv'
  BY <1>6 DEF StopEnded, Goto, history, ControlInv
<1>7. ASSUME StopRelease PROVE ControlInv'
  BY <1>7 DEF StopRelease, Goto, history, ControlInv
<1>8. ASSUME Kill PROVE ControlInv'
  BY <1>8 DEF Kill, history, ControlInv
<1>9. ASSUME NEW a \in {Op, Unlocker}, BackWalk(a) PROVE ControlInv'
  BY <1>9 DEF BackWalk, Goto, history, ControlInv
<1>10. ASSUME NEW a \in {Op, Unlocker}, NEW f \in File, BackEncrypt(a, f) PROVE ControlInv'
  BY <1>10 DEF BackEncrypt, history, ControlInv
<1>11. ASSUME NEW a \in {Op, Unlocker}, BackWipe(a) PROVE ControlInv'
  BY <1>11 DEF BackWipe, Goto, Op, Unlocker, Client, Actor, history, TypeOK, ControlInv
<1>12. ASSUME NEW a \in {Op, Unlocker}, BackFails(a) PROVE ControlInv'
  BY <1>12 DEF BackFails, Goto, Op, Unlocker, Client, Actor, history, TypeOK, ControlInv
<1>13. ASSUME EditBegin PROVE ControlInv'
  BY <1>13 DEF EditBegin, Goto, Op, Unlocker, Client, Open, Leaving, history, ControlInv
<1>14. ASSUME EditFails PROVE ControlInv'
  BY <1>14 DEF EditFails, Goto, history, ControlInv
<1>15. ASSUME NEW f \in File, ProcessWrite(f) PROVE ControlInv'
  BY <1>15 DEF ProcessWrite, NewWrite, TypeOK, ControlInv
<1>16. ASSUME NEW f \in File, EditVault(f) PROVE ControlInv'
  BY <1>16 DEF EditVault, Goto, NewWrite, TypeOK, ControlInv
<1>17. ASSUME NEW f \in File, EditTree(f) PROVE ControlInv'
  BY <1>17 DEF EditTree, Goto, NewWrite, TypeOK, ControlInv
<1>18. ASSUME Flush PROVE ControlInv'
  BY <1>18 DEF Flush, history, ControlInv
<1>19. ASSUME Lock PROVE ControlInv'
  BY <1>19 DEF Lock, ControlInv
<1>20. ASSUME Unlock PROVE ControlInv'
  BY <1>20 DEF Unlock, Goto, Op, Unlocker, Client, Actor, history, TypeOK, ControlInv
<1>21. ASSUME UnlockLoad PROVE ControlInv'
  BY <1>21 DEF UnlockLoad, Goto, Op, Unlocker, Client, Actor, TypeOK, ControlInv
<1>22. ASSUME UnlockReady PROVE ControlInv'
  BY <1>22 DEF UnlockReady, Goto, Actor, history, TypeOK, ControlInv
<1>23. ASSUME UnlockRollback PROVE ControlInv'
  BY <1>23 DEF UnlockRollback, Goto, Actor, history, TypeOK, ControlInv
<1>24. ASSUME Crash PROVE ControlInv'
  BY <1>24 DEF Crash, Boot, Actor, ControlInv
<1>25. ASSUME ShutdownEnd PROVE ControlInv'
  BY <1>25 DEF ShutdownEnd, Boot, Actor, ControlInv
<1>26. ASSUME Second PROVE ControlInv'
  BY <1>26 DEF Second, history, ControlInv
<1> QED
  BY <1>1, <1>2, <1>3, <1>4, <1>5, <1>6, <1>7, <1>8, <1>9, <1>10, <1>11, <1>12, <1>13, <1>14,
     <1>15, <1>16, <1>17, <1>18, <1>19, <1>20, <1>21, <1>22, <1>23, <1>24, <1>25, <1>26, Zenon
  DEF Next, EncryptBack

\* A step that hits none of the windows keeps the tree and the index in step.
LEMMA OutsideStep ==
    ASSUME TypeOK, TypeOK', ControlInv, ControlInv', Outside, exposed = {}, exposed' = {}, Next
    PROVE  ProcInv' /\ TreeInv' /\ BackInv'
<1>1. ASSUME StartClaim PROVE ProcInv' /\ TreeInv' /\ BackInv'
  <2>1. ProcInv'
    BY <1>1 DEF StartClaim, Open, ControlInv, Outside, ProcInv, InMemory
  <2>2. TreeInv'
    BY <1>1
    DEF StartClaim, Goto, store, history, Outside, TreeInv, InMemory, Index, Kept, ToldApart
  <2>3. BackInv'
    BY <1>1 DEF StartClaim, Goto, store, history, Outside, BackInv, Kept, ToldApart
  <2> QED
    BY <2>1, <2>2, <2>3
<1>2. ASSUME StartDirty PROVE ProcInv' /\ TreeInv' /\ BackInv'
  <2>1. ProcInv'
    BY <1>2 DEF StartDirty, Goto, Op, Unlocker, Client, Actor, store, TypeOK,
        ControlInv, Outside, ProcInv, InMemory
  <2>2. TreeInv'
    BY <1>2
    DEF StartDirty, Goto, store, history, TypeOK, ControlInv, Present, Outside, ProcInv, TreeInv,
        InMemory, Index, Kept, ToldApart
  <2>3. BackInv'
    BY <1>2 DEF StartDirty, Goto, Op, Unlocker, Client, Actor, TypeOK, ControlInv, Outside, ProcInv, BackInv
  <2> QED
    BY <2>1, <2>2, <2>3
<1>3. ASSUME StartSpawn PROVE ProcInv' /\ TreeInv' /\ BackInv'
  <2>1. ProcInv'
    BY <1>3 DEF StartSpawn, Goto, store, TypeOK, ControlInv, Outside, ProcInv, InMemory
  <2>2. TreeInv'
    BY <1>3
    DEF StartSpawn, Goto, store, locals, history, Present, Outside, TreeInv, InMemory, Index,
        Kept, ToldApart
  <2>3. BackInv'
    BY <1>3 DEF StartSpawn, Goto, store, locals, history, Outside, BackInv, Kept, ToldApart
  <2> QED
    BY <2>1, <2>2, <2>3
<1>4. ASSUME NEW f \in File, Materialize(f) PROVE ProcInv' /\ TreeInv' /\ BackInv'
  <2>1. ProcInv'
    BY <1>4 DEF Materialize, Goto, Op, Unlocker, Client, Actor, store, TypeOK, Outside, ProcInv, InMemory
  <2>2. TreeInv'
    <3>1. \A g \in File : plain'[g].v # 0 => plain'[g].v = latest'[g]
      BY <1>4, FilesConfigAssumption
      DEF Materialize, Stamped, history, TypeOK, ControlInv, Present, Outside, ProcInv, TreeInv,
          InMemory, Index, Kept
    <3>2. Kept(Index)'
      BY <1>4
      DEF Materialize, Stamped, store, history, TypeOK, Outside, ProcInv, TreeInv, InMemory, Index, Kept
    <3>3. ToldApart(Index)'
      <4>1. Index' = Index /\ Index = enc
        BY <1>4 DEF Materialize, Outside, ProcInv, InMemory, Index, store
      <4>2. plain' \in [File -> Entry] /\ \A g \in File : plain'[g] = plain[g] \/ (g = f
            /\ plain'[g] = Stamped(enc[f].v))
        BY <1>4 DEF Materialize, TypeOK
      <4>3. ToldApart(enc)
        BY <4>1 DEF Outside, TreeInv
      <4>4. ASSUME NEW g \in File, g # f, plain'[g].v # 0, enc[g].v # 0, enc[g].t = plain'[g].t
            PROVE  enc[g].v = plain'[g].v
        <5>1. plain'[g] = plain[g]
          BY <4>2, <4>4
        <5> QED
          BY <5>1, <4>3, <4>4 DEF ToldApart
      <4>5. ASSUME plain'[f].v # 0, enc[f].v # 0, enc[f].t = plain'[f].t
            PROVE  enc[f].v = plain'[f].v
        <5>1. plain'[f] = plain[f] \/ plain'[f].v = enc[f].v
          BY <4>2 DEF Stamped
        <5> QED
          BY <5>1, <4>3, <4>5 DEF ToldApart
      <4> QED
        BY <4>1, <4>4, <4>5 DEF ToldApart
    <3>4. proc' => Present(plain)' = File
      BY <1>4 DEF Materialize, Outside, ProcInv
    <3>5. pc'[Op] = "stopped" => Present(plain)' = {}
      BY <1>4 DEF Materialize, Goto, Op, Unlocker, Client, Actor, TypeOK, Outside
    <3>6. pc'[Op] = "materialize" => todo'[Op] = File \ Present(plain)'
      BY <1>4
      DEF Materialize, Goto, Actor, Stamped, TypeOK, ControlInv, Present, Outside, ProcInv, TreeInv,
          InMemory, Index, Kept
    <3> QED
      BY <3>1, <3>2, <3>3, <3>4, <3>5, <3>6 DEF TreeInv
  <2>3. BackInv'
    BY <1>4 DEF Materialize, Goto, Op, Unlocker, Client, Actor, TypeOK, ControlInv, Outside, ProcInv, BackInv
  <2> QED
    BY <2>1, <2>2, <2>3
<1>5. ASSUME NEW m \in {"stop", "shutdown"}, Stop(m) PROVE ProcInv' /\ TreeInv' /\ BackInv'
  <2>1. ProcInv'
    BY <1>5 DEF Stop, Goto, Op, Unlocker, Client, Actor, store, TypeOK, Open, ControlInv,
        Outside, ProcInv, InMemory
  <2>2. TreeInv'
    BY <1>5 DEF Stop, Goto, store, history, Outside, TreeInv, InMemory, Index, Kept, ToldApart
  <2>3. BackInv'
    BY <1>5 DEF Stop, Goto, store, history, Outside, BackInv, Kept, ToldApart
  <2> QED
    BY <2>1, <2>2, <2>3
<1>6. ASSUME StopEnded PROVE ProcInv' /\ TreeInv' /\ BackInv'
  <2>1. ProcInv'
    BY <1>6 DEF StopEnded, Goto, store, Outside, ProcInv, InMemory
  <2>2. TreeInv'
    BY <1>6
    DEF StopEnded, Goto, store, history, Outside, TreeInv, InMemory, Index, Kept, ToldApart
  <2>3. BackInv'
    BY <1>6
    DEF StopEnded, Goto, Op, Unlocker, Client, store, locals, history, Outside, BackInv, Kept,
        ToldApart
  <2> QED
    BY <2>1, <2>2, <2>3
<1>7. ASSUME StopRelease PROVE ProcInv' /\ TreeInv' /\ BackInv'
  <2>1. ProcInv'
    BY <1>7 DEF StopRelease, Goto, TypeOK, Outside, ProcInv
  <2>2. TreeInv'
    BY <1>7
    DEF StopRelease, Goto, store, history, Outside, TreeInv, InMemory, Index, Kept, ToldApart
  <2>3. BackInv'
    BY <1>7 DEF StopRelease, Goto, store, locals, history, Outside, BackInv, Kept, ToldApart
  <2> QED
    BY <2>1, <2>2, <2>3
<1>8. ASSUME Kill PROVE ProcInv' /\ TreeInv' /\ BackInv'
  <2>1. ProcInv'
    BY <1>8 DEF Kill, store, Outside, ProcInv, InMemory
  <2>2. TreeInv'
    BY <1>8 DEF Kill, store, locals, history, Outside, TreeInv, InMemory, Index, Kept, ToldApart
  <2>3. BackInv'
    BY <1>8 DEF Kill, store, locals, history, Outside, BackInv, Kept, ToldApart
  <2> QED
    BY <2>1, <2>2, <2>3
<1>9. ASSUME NEW a \in {Op, Unlocker}, BackWalk(a) PROVE ProcInv' /\ TreeInv' /\ BackInv'
  <2>1. ProcInv'
    BY <1>9 DEF BackWalk, Goto, store, instance, Outside, ProcInv, InMemory
  <2>2. TreeInv'
    BY <1>9
    DEF BackWalk, Goto, store, instance, history, Outside, TreeInv, InMemory, Index, Kept,
        ToldApart
  <2>3. BackInv'
    BY <1>9 DEF BackWalk, Goto, store, history, TypeOK, Outside, BackInv, Kept, ToldApart
  <2> QED
    BY <2>1, <2>2, <2>3
<1>10. ASSUME NEW a \in {Op, Unlocker}, NEW f \in File, BackEncrypt(a, f)
       PROVE  ProcInv' /\ TreeInv' /\ BackInv'
  <2>1. ProcInv'
    BY <1>10 DEF BackEncrypt, instance, ControlInv, Outside, ProcInv, InMemory
  <2>2. TreeInv'
    <3>1. \A g \in File : plain'[g].v # 0 => plain'[g].v = latest'[g]
      BY <1>10 DEF BackEncrypt, history, Outside, TreeInv
    <3>2. Kept(Index)'
      BY <1>10 DEF BackEncrypt, history, TypeOK, Outside, ProcInv, TreeInv, InMemory, Index, Kept
    <3>3. ToldApart(Index)'
      <4>1. InMemory' = InMemory /\ plain' = plain /\ encFile' = encFile
        BY <1>10 DEF BackEncrypt, InMemory
      <4>2. enc' = enc \/ (key /\ enc' = [enc EXCEPT ![f] = Stamped(plain[f].v)])
        BY <1>10 DEF BackEncrypt
      <4>3. \A g \in File : enc'[g] = enc[g] \/ enc'[g].v = plain[g].v
        BY <4>2 DEF Stamped, TypeOK
      <4>4. ToldApart(Index)
        BY DEF Outside, TreeInv
      <4> QED
        BY <4>1, <4>3, <4>4 DEF ToldApart, Index
    <3>4. proc' => Present(plain)' = File
      BY <1>10 DEF BackEncrypt, instance, Outside, ProcInv
    <3>5. pc'[Op] = "stopped" => Present(plain)' = {}
      BY <1>10 DEF BackEncrypt, ControlInv, Outside, ProcInv
    <3>6. pc'[Op] = "materialize" => todo'[Op] = File \ Present(plain)'
      BY <1>10 DEF BackEncrypt, ControlInv, Outside, ProcInv
    <3> QED
      BY <3>1, <3>2, <3>3, <3>4, <3>5, <3>6 DEF TreeInv
  <2>3. BackInv'
    BY <1>10
    DEF BackEncrypt, Stamped, history, TypeOK, ControlInv, Present, Outside, ProcInv, TreeInv,
        BackInv, InMemory, Index, Kept, ToldApart
  <2> QED
    BY <2>1, <2>2, <2>3
<1>11. ASSUME NEW a \in {Op, Unlocker}, BackWipe(a) PROVE ProcInv' /\ TreeInv' /\ BackInv'
  <2>1. ProcInv'
    BY <1>11 DEF BackWipe, Goto, store, instance, Outside, ProcInv, InMemory
  <2>2. TreeInv'
    <3>1. /\ pc[a] = "encrypt" /\ a \in Actor /\ walked[a] = Present(plain) /\ todo[a] = {}
          /\ \A f \in walked[a] : enc[f].v = plain[f].v
      BY <1>11 DEF BackWipe, Actor, Outside, BackInv
    <3>2. \A f \in File : plain'[f].v = 0
      BY <1>11, <3>1 DEF BackWipe, Present, Missing
    <3>3. /\ pc'[a] # "encrypt" /\ ~proc /\ ~proc' /\ InMemory' = InMemory /\ Index' = Index /\ Index = enc
          /\ latest' = latest /\ enc' = enc
      BY <1>11, <3>1
      DEF BackWipe, Goto, Op, Unlocker, Client, Actor, store, instance, history, TypeOK, ControlInv, Outside,
          ProcInv, InMemory, Index
    <3>4. \A f \in File : enc[f].v = latest[f]
      BY <3>1, <3>3 DEF Outside, TreeInv, Kept, Present
    <3>5. pc'[Op] = "materialize" => todo'[Op] = Present(enc)
      BY <1>11, <3>1 DEF BackWipe, Goto, Op, Unlocker, Client, Actor, TypeOK, ControlInv, Outside, ProcInv
    <3>6. Present(enc) = File /\ Present(plain)' = {}
      BY <3>2, <3>4 DEF Present, ControlInv
    <3> QED
      BY <3>2, <3>3, <3>4, <3>5, <3>6 DEF TreeInv, Kept, ToldApart
  <2>3. BackInv'
    BY <1>11 DEF BackWipe, Goto, TypeOK, ControlInv, Outside, ProcInv, BackInv
  <2> QED
    BY <2>1, <2>2, <2>3
<1>12. ASSUME NEW a \in {Op, Unlocker}, BackFails(a) PROVE ProcInv' /\ TreeInv' /\ BackInv'
  <2>1. ProcInv'
    BY <1>12 DEF BackFails, Goto, Op, Unlocker, Client, Actor, store, TypeOK, ControlInv,
        Outside, ProcInv, InMemory
  <2>2. TreeInv'
    BY <1>12
    DEF BackFails, Goto, Op, Unlocker, Client, Actor, store, history, TypeOK, ControlInv,
        Outside, ProcInv, TreeInv, BackInv, InMemory, Index,
        Kept, ToldApart
  <2>3. BackInv'
    BY <1>12
    DEF BackFails, Goto, Op, Unlocker, Client, Actor, store, history, TypeOK, ControlInv,
        Outside, ProcInv, TreeInv, BackInv, InMemory, Index, Kept, ToldApart
  <2> QED
    BY <2>1, <2>2, <2>3
<1>13. ASSUME EditBegin PROVE ProcInv' /\ TreeInv' /\ BackInv'
  <2>1. ProcInv'
    BY <1>13
    DEF EditBegin, Goto, Op, Unlocker, Client, Actor, Open, ControlInv, TypeOK, store, instance,
        Outside, ProcInv, InMemory
  <2>2. TreeInv'
    BY <1>13
    DEF EditBegin, Goto, store, instance, locals, history, Outside, TreeInv, InMemory, Index,
        Kept, ToldApart
  <2>3. BackInv'
    BY <1>13 DEF EditBegin, Goto, store, locals, history, Outside, BackInv, Kept, ToldApart
  <2> QED
    BY <2>1, <2>2, <2>3
<1>14. ASSUME EditFails PROVE ProcInv' /\ TreeInv' /\ BackInv'
  <2>1. ProcInv'
    BY <1>14 DEF EditFails, Goto, store, instance, Outside, ProcInv, InMemory
  <2>2. TreeInv'
    BY <1>14
    DEF EditFails, Goto, store, instance, locals, history, Outside, TreeInv, InMemory, Index,
        Kept, ToldApart
  <2>3. BackInv'
    BY <1>14 DEF EditFails, Goto, store, locals, history, Outside, BackInv, Kept, ToldApart
  <2> QED
    BY <2>1, <2>2, <2>3
<1>15. ASSUME NEW f \in File, ProcessWrite(f) PROVE ProcInv' /\ TreeInv' /\ BackInv'
  <2>1. ProcInv'
    BY <1>15 DEF ProcessWrite, store, instance, Outside, ProcInv, InMemory
  <2>2. TreeInv'
    <3>1. \A g \in File : plain'[g].v # 0 => plain'[g].v = latest'[g]
      BY <1>15 DEF ProcessWrite, Stamped, NewWrite, TypeOK, Outside, TreeInv
    <3>2. Kept(Index)'
      BY <1>15
      DEF ProcessWrite, Stamped, NewWrite, store, TypeOK, Outside, TreeInv, InMemory, Index,
          Kept
    <3>3. ToldApart(Index)'
      <4>1. Index' = Index /\ Index = enc
        BY <1>15 DEF ProcessWrite, Outside, ProcInv, InMemory, Index, store
      <4>2. plain' = [plain EXCEPT ![f] = Stamped(made + 1)]
        BY <1>15 DEF ProcessWrite
      <4>3. ToldApart(enc)
        BY <4>1 DEF Outside, TreeInv
      <4>4. ASSUME NEW g \in File, g # f, plain'[g].v # 0, enc[g].v # 0, enc[g].t = plain'[g].t
            PROVE  enc[g].v = plain'[g].v
        <5>1. plain'[g] = plain[g]
          BY <4>2, <4>4
        <5> QED
          BY <5>1, <4>3, <4>4 DEF ToldApart
      <4>5. enc[f].t # now
        BY <1>15 DEF ProcessWrite
      <4>6. plain'[f].t = now
        BY <4>2 DEF TypeOK, Stamped
      <4> QED
        BY <4>1, <4>4, <4>5, <4>6 DEF ToldApart
    <3>4. proc' => Present(plain)' = File
      BY <1>15 DEF ProcessWrite, Stamped, TypeOK, Present, Outside, TreeInv
    <3>5. pc'[Op] = "stopped" => Present(plain)' = {}
      BY <1>15 DEF ProcessWrite, Outside, ProcInv
    <3>6. pc'[Op] = "materialize" => todo'[Op] = File \ Present(plain)'
      BY <1>15 DEF ProcessWrite, Outside, ProcInv
    <3> QED
      BY <3>1, <3>2, <3>3, <3>4, <3>5, <3>6 DEF TreeInv
  <2>3. BackInv'
    BY <1>15 DEF ProcessWrite, Outside, ProcInv, BackInv
  <2> QED
    BY <2>1, <2>2, <2>3
<1>16. ASSUME NEW f \in File, EditVault(f) PROVE ProcInv' /\ TreeInv' /\ BackInv'
  <2>1. ProcInv'
    BY <1>16 DEF EditVault, Goto, instance, ControlInv, Outside, ProcInv, InMemory
  <2>2. TreeInv'
    <3>1. \A g \in File : plain'[g].v # 0 => plain'[g].v = latest'[g]
      BY <1>16 DEF EditVault, Present, Outside
    <3>2. Kept(Index)'
      BY <1>16
      DEF EditVault, Stamped, NewWrite, TypeOK, ControlInv, Outside, ProcInv, TreeInv, InMemory, Index,
          Kept
    <3>3. ToldApart(Index)'
      BY <1>16 DEF EditVault, Present, Outside, ToldApart
    <3>4. proc' => Present(plain)' = File
      BY <1>16 DEF EditVault, instance, Outside, TreeInv
    <3>5. pc'[Op] = "stopped" => Present(plain)' = {}
      BY <1>16 DEF EditVault, Outside
    <3>6. pc'[Op] = "materialize" => todo'[Op] = File \ Present(plain)'
      BY <1>16 DEF EditVault, Goto, locals, Outside, TreeInv
    <3> QED
      BY <3>1, <3>2, <3>3, <3>4, <3>5, <3>6 DEF TreeInv
  <2>3. BackInv'
    BY <1>16 DEF EditVault, Goto, Actor, ControlInv, Outside, ProcInv, BackInv
  <2> QED
    BY <2>1, <2>2, <2>3
<1>17. ASSUME NEW f \in File, EditTree(f) PROVE ProcInv' /\ TreeInv' /\ BackInv'
  <2>1. ProcInv'
    BY <1>17 DEF EditTree, Goto, store, instance, Outside, ProcInv, InMemory
  <2>2. TreeInv'
    <3>1. \A g \in File : plain'[g].v # 0 => plain'[g].v = latest'[g]
      BY <1>17 DEF EditTree, Stamped, NewWrite, TypeOK, Outside, TreeInv
    <3>2. Kept(Index)'
      BY <1>17
      DEF EditTree, Goto, Stamped, NewWrite, store, TypeOK, Outside, TreeInv, InMemory, Index,
          Kept
    <3>3. ToldApart(Index)'
      <4>1. Index' = Index /\ Index = enc
        BY <1>17 DEF EditTree, Goto, Outside, ProcInv, InMemory, Index, store
      <4>2. plain' = [plain EXCEPT ![f] = Stamped(made + 1)]
        BY <1>17 DEF EditTree
      <4>3. ToldApart(enc)
        BY <4>1 DEF Outside, TreeInv
      <4>4. ASSUME NEW g \in File, g # f, plain'[g].v # 0, enc[g].v # 0, enc[g].t = plain'[g].t
            PROVE  enc[g].v = plain'[g].v
        <5>1. plain'[g] = plain[g]
          BY <4>2, <4>4
        <5> QED
          BY <5>1, <4>3, <4>4 DEF ToldApart
      <4>5. enc[f].t # now
        BY <1>17 DEF EditTree
      <4>6. plain'[f].t = now
        BY <4>2 DEF TypeOK, Stamped
      <4> QED
        BY <4>1, <4>4, <4>5, <4>6 DEF ToldApart
    <3>4. proc' => Present(plain)' = File
      BY <1>17 DEF EditTree, Stamped, instance, TypeOK, Present, Outside, TreeInv
    <3>5. pc'[Op] = "stopped" => Present(plain)' = {}
      BY <1>17 DEF EditTree, Goto, Actor, Outside
    <3>6. pc'[Op] = "materialize" => todo'[Op] = File \ Present(plain)'
      BY <1>17 DEF EditTree, Goto, Actor, Outside
    <3> QED
      BY <3>1, <3>2, <3>3, <3>4, <3>5, <3>6 DEF TreeInv
  <2>3. BackInv'
    BY <1>17 DEF EditTree, Goto, Actor, ControlInv, Outside, ProcInv, BackInv
  <2> QED
    BY <2>1, <2>2, <2>3
<1>18. ASSUME Flush PROVE ProcInv' /\ TreeInv' /\ BackInv'
  <2>1. ProcInv'
    BY <1>18 DEF Flush, instance, Outside, ProcInv
  <2>2. TreeInv'
    BY <1>18
    DEF Flush, instance, locals, history, Outside, TreeInv, InMemory, Index, Kept, ToldApart
  <2>3. BackInv'
    BY <1>18
    DEF Flush, locals, history, Outside, TreeInv, BackInv, InMemory, Index, Kept, ToldApart
  <2> QED
    BY <2>1, <2>2, <2>3
<1>19. ASSUME Lock PROVE ProcInv' /\ TreeInv' /\ BackInv'
  <2>1. ProcInv'
    BY <1>19 DEF Lock, WritesIndex, instance, Outside, ProcInv, InMemory
  <2>2. TreeInv'
    BY <1>19
    DEF Lock, WritesIndex, instance, locals, Outside, TreeInv, InMemory, Index, Kept, ToldApart
  <2>3. BackInv'
    BY <1>19 DEF Lock, WritesIndex, locals, Outside, ProcInv, TreeInv, BackInv, InMemory, Index,
       Kept, ToldApart
  <2> QED
    BY <2>1, <2>2, <2>3
<1>20. ASSUME Unlock PROVE ProcInv' /\ TreeInv' /\ BackInv'
  <2>1. ProcInv'
    BY <1>20 DEF Unlock, Goto, Op, Unlocker, Client, store, instance, Outside, ProcInv, InMemory
  <2>2. TreeInv'
    BY <1>20
    DEF Unlock, Goto, store, instance, locals, history, TypeOK, Outside, TreeInv, InMemory,
        Index, Kept, ToldApart
  <2>3. BackInv'
    BY <1>20 DEF Unlock, Goto, store, locals, TypeOK, Outside, BackInv
  <2> QED
    BY <2>1, <2>2, <2>3
<1>21. ASSUME UnlockLoad PROVE ProcInv' /\ TreeInv' /\ BackInv'
  <2>1. ProcInv'
    BY <1>21
    DEF UnlockLoad, Goto, Op, Unlocker, Client, Actor, TypeOK, ControlInv, Outside, ProcInv, InMemory
  <2>2. TreeInv'
    BY <1>21
    DEF UnlockLoad, Goto, Op, Unlocker, Client, Actor, TypeOK, ControlInv, locals, Outside, ProcInv,
        TreeInv, InMemory, Index, Kept, ToldApart
  <2>3. BackInv'
    <3>1. /\ Index = encFile /\ encFile' = encFile /\ plain' = plain /\ latest' = latest
          /\ pc[Op] = "idle"
      BY <1>21 DEF UnlockLoad, Outside, ProcInv, InMemory, Index
    <3>2. pc'[Op] = "idle" /\ pc'[Unlocker] \in {"ready", "walk", "rollback"}
      BY <1>21, <3>1 DEF UnlockLoad, Goto, Op, Unlocker, Client, Actor, TypeOK
    <3>3. Kept(encFile)' /\ ToldApart(encFile)'
      BY <3>1 DEF Outside, TreeInv, Kept, ToldApart
    <3> QED
      BY <3>2, <3>3 DEF BackInv
  <2> QED
    BY <2>1, <2>2, <2>3
<1>22. ASSUME UnlockReady PROVE ProcInv' /\ TreeInv' /\ BackInv'
  <2>1. ProcInv'
    BY <1>22 DEF UnlockReady, Goto, store, instance, Outside, ProcInv, InMemory
  <2>2. TreeInv'
    BY <1>22
    DEF UnlockReady, Goto, store, instance, locals, history, Outside, TreeInv, InMemory, Index,
        Kept, ToldApart
  <2>3. BackInv'
    BY <1>22 DEF UnlockReady, Goto, store, locals, Outside, BackInv
  <2> QED
    BY <2>1, <2>2, <2>3
<1>23. ASSUME UnlockRollback PROVE ProcInv' /\ TreeInv' /\ BackInv'
  <2>1. ProcInv'
    BY <1>23 DEF UnlockRollback, Goto, instance, ControlInv, Outside, ProcInv
  <2>2. TreeInv'
    BY <1>23
    DEF UnlockRollback, Goto, store, instance, locals, history, Outside, TreeInv, BackInv,
        InMemory, Index, Kept, ToldApart
  <2>3. BackInv'
    BY <1>23 DEF UnlockRollback, Goto, store, locals, TypeOK, Outside, BackInv
  <2> QED
    BY <2>1, <2>2, <2>3
<1>24. ASSUME Crash PROVE ProcInv' /\ TreeInv' /\ BackInv'
  <2>1. ProcInv'
    BY <1>24 DEF Crash, Boot, Actor, Outside, ProcInv
  <2>2. TreeInv'
    <3>1. \A g \in File : plain'[g].v # 0 => plain'[g].v = latest'[g]
      BY <1>24 DEF Crash, Boot, Outside, TreeInv
    <3>2. Kept(Index)'
      BY <1>24 DEF Crash, Boot, Outside, TreeInv, InMemory, Index, Kept
    <3>3. ToldApart(Index)'
      <4>1. Index' = encFile /\ plain' = plain
        BY <1>24 DEF Crash, Boot, Index, InMemory
      <4>2. Index = encFile
        BY <1>24 DEF Crash, Index, InMemory
      <4> QED
        BY <4>1, <4>2 DEF Outside, TreeInv, ToldApart
    <3>4. proc' => Present(plain)' = File
      BY <1>24 DEF Crash, Boot, Outside
    <3>5. pc'[Op] = "stopped" => Present(plain)' = {}
      BY <1>24 DEF Crash, Boot, Actor, Outside
    <3>6. pc'[Op] = "materialize" => todo'[Op] = File \ Present(plain)'
      BY <1>24 DEF Crash, Boot, Actor, Outside
    <3> QED
      BY <3>1, <3>2, <3>3, <3>4, <3>5, <3>6 DEF TreeInv
  <2>3. BackInv'
    BY <1>24 DEF Crash, Boot, Actor, Outside, BackInv
  <2> QED
    BY <2>1, <2>2, <2>3
<1>25. ASSUME ShutdownEnd PROVE ProcInv' /\ TreeInv' /\ BackInv'
  <2>1. ProcInv'
    BY <1>25 DEF ShutdownEnd, Boot, Actor, Outside, ProcInv
  <2>2. TreeInv'
    BY <1>25
    DEF ShutdownEnd, WritesIndex, Boot, Actor, ControlInv, Outside, ProcInv, TreeInv, InMemory, Index, Kept,
        ToldApart
  <2>3. BackInv'
    BY <1>25 DEF ShutdownEnd, Boot, Actor, Outside, BackInv
  <2> QED
    BY <2>1, <2>2, <2>3
<1>26. ASSUME Second PROVE ProcInv' /\ TreeInv' /\ BackInv'
  <2>1. ProcInv'
    BY <1>26 DEF Second, store, instance, Outside, ProcInv, InMemory
  <2>2. TreeInv'
    BY <1>26
    DEF Second, store, instance, locals, history, Outside, TreeInv, InMemory, Index, Kept,
        ToldApart
  <2>3. BackInv'
    BY <1>26 DEF Second, store, locals, history, Outside, BackInv, Kept, ToldApart
  <2> QED
    BY <2>1, <2>2, <2>3
<1> QED
  BY <1>1, <1>2, <1>3, <1>4, <1>5, <1>6, <1>7, <1>8, <1>9, <1>10, <1>11, <1>12, <1>13, <1>14,
     <1>15, <1>16, <1>17, <1>18, <1>19, <1>20, <1>21, <1>22, <1>23, <1>24, <1>25, <1>26, Zenon
  DEF Next, EncryptBack

\* A window that was hit stays so.
LEMMA ExposedStays ==
    ASSUME Next
    PROVE  exposed \subseteq exposed'
<1>1. ASSUME StartClaim PROVE exposed \subseteq exposed'
  BY <1>1 DEF StartClaim
<1>2. ASSUME StartDirty PROVE exposed \subseteq exposed'
  BY <1>2 DEF StartDirty, history
<1>3. ASSUME StartSpawn PROVE exposed \subseteq exposed'
  BY <1>3 DEF StartSpawn, history
<1>4. ASSUME NEW f \in File, Materialize(f) PROVE exposed \subseteq exposed'
  BY <1>4 DEF Materialize, history
<1>5. ASSUME NEW m \in {"stop", "shutdown"}, Stop(m) PROVE exposed \subseteq exposed'
  BY <1>5 DEF Stop, history
<1>6. ASSUME StopEnded PROVE exposed \subseteq exposed'
  BY <1>6 DEF StopEnded, history
<1>7. ASSUME StopRelease PROVE exposed \subseteq exposed'
  BY <1>7 DEF StopRelease, history
<1>8. ASSUME Kill PROVE exposed \subseteq exposed'
  BY <1>8 DEF Kill, history
<1>9. ASSUME NEW a \in {Op, Unlocker}, BackWalk(a) PROVE exposed \subseteq exposed'
  BY <1>9 DEF BackWalk, history
<1>10. ASSUME NEW a \in {Op, Unlocker}, NEW f \in File, BackEncrypt(a, f)
       PROVE  exposed \subseteq exposed'
  BY <1>10 DEF BackEncrypt, history
<1>11. ASSUME NEW a \in {Op, Unlocker}, BackWipe(a) PROVE exposed \subseteq exposed'
  BY <1>11 DEF BackWipe, history
<1>12. ASSUME NEW a \in {Op, Unlocker}, BackFails(a) PROVE exposed \subseteq exposed'
  BY <1>12 DEF BackFails, history
<1>13. ASSUME EditBegin PROVE exposed \subseteq exposed'
  BY <1>13 DEF EditBegin, history
<1>14. ASSUME EditFails PROVE exposed \subseteq exposed'
  BY <1>14 DEF EditFails, history
<1>15. ASSUME NEW f \in File, ProcessWrite(f) PROVE exposed \subseteq exposed'
  BY <1>15 DEF ProcessWrite
<1>16. ASSUME NEW f \in File, EditVault(f) PROVE exposed \subseteq exposed'
  BY <1>16 DEF EditVault
<1>17. ASSUME NEW f \in File, EditTree(f) PROVE exposed \subseteq exposed'
  BY <1>17 DEF EditTree
<1>18. ASSUME Flush PROVE exposed \subseteq exposed'
  BY <1>18 DEF Flush, history
<1>19. ASSUME Lock PROVE exposed \subseteq exposed'
  BY <1>19 DEF Lock, WritesIndex
<1>20. ASSUME Unlock PROVE exposed \subseteq exposed'
  BY <1>20 DEF Unlock
<1>21. ASSUME UnlockLoad PROVE exposed \subseteq exposed'
  BY <1>21 DEF UnlockLoad
<1>22. ASSUME UnlockReady PROVE exposed \subseteq exposed'
  BY <1>22 DEF UnlockReady, history
<1>23. ASSUME UnlockRollback PROVE exposed \subseteq exposed'
  BY <1>23 DEF UnlockRollback, history
<1>24. ASSUME Crash PROVE exposed \subseteq exposed'
  BY <1>24 DEF Crash, Boot
<1>25. ASSUME ShutdownEnd PROVE exposed \subseteq exposed'
  BY <1>25 DEF ShutdownEnd, WritesIndex, Boot
<1>26. ASSUME Second PROVE exposed \subseteq exposed'
  BY <1>26 DEF Second, history
<1> QED
  BY <1>1, <1>2, <1>3, <1>4, <1>5, <1>6, <1>7, <1>8, <1>9, <1>10, <1>11, <1>12, <1>13, <1>14,
     <1>15, <1>16, <1>17, <1>18, <1>19, <1>20, <1>21, <1>22, <1>23, <1>24, <1>25, <1>26, Zenon
  DEF Next, EncryptBack

\* A step that changes nothing.
LEMMA StutterKeeps ==
    ASSUME UNCHANGED vars, TypeOK, FilesInv
    PROVE  TypeOK' /\ FilesInv'
<1>1. TypeOK'
  BY DEF vars, TypeOK
<1>2. ControlInv'
  BY DEF vars, FilesInv, ControlInv
<1>3. ASSUME exposed' = {} PROVE Outside'
  <2>1. Outside
    BY <1>3 DEF vars, FilesInv
  <2> QED
    BY <2>1 DEF vars, Outside, ProcInv, TreeInv, BackInv, InMemory, Index, Kept, ToldApart
<1> QED
  BY <1>1, <1>2, <1>3 DEF FilesInv

----------------------------------------------------------------------------
(* Theorems.                                                               *)

\* The invariant holds throughout.
LEMMA FilesInvariant == Spec => [](TypeOK /\ FilesInv)
<1>1. Init => TypeOK /\ FilesInv
  BY InitHolds
<1>2. TypeOK /\ FilesInv /\ [Next]_vars => TypeOK' /\ FilesInv'
  <2> SUFFICES ASSUME TypeOK, FilesInv, [Next]_vars PROVE TypeOK' /\ FilesInv'
    OBVIOUS
  <2>1. CASE Next
    <3>1. TypeOK'
      BY <2>1, TypeStep
    <3>2. ControlInv'
      BY <2>1, ControlStep DEF FilesInv
    <3>3. ASSUME exposed' = {} PROVE Outside'
      <4>1. exposed = {}
        BY <2>1, <3>3, ExposedStays
      <4>2. ControlInv /\ Outside
        BY <4>1 DEF FilesInv
      <4>3. ProcInv' /\ TreeInv' /\ BackInv'
        BY <2>1, <3>1, <3>2, <3>3, <4>1, <4>2, OutsideStep
      <4> QED
        BY <4>3 DEF Outside
    <3> QED
      BY <3>1, <3>2, <3>3 DEF FilesInv
  <2>2. CASE UNCHANGED vars
    BY <2>2, StutterKeeps
  <2> QED
    BY <2>1, <2>2
<1> QED
  BY <1>1, <1>2, PTL DEF Spec

\* Types: files are stamped with a second of the clock and a write that was made,
\* actors are at one of their labels.
THEOREM FilesTypeCorrect == Spec => []TypeOK
<1>1. Spec => [](TypeOK /\ FilesInv)
  BY FilesInvariant
<1> QED
  BY <1>1, PTL

\* Outside its windows encryptBack, vaultMaterialize and the file API keep the
\* last write of every file in the tree or in the vault, and a process that runs
\* finds it in the tree, for any number of files, writes and unlocks.
THEOREM LatestIsKeptHolds == Spec => []LatestIsKept
<1>1. TypeOK /\ FilesInv => LatestIsKept
  <2> SUFFICES ASSUME TypeOK, FilesInv, exposed = {} PROVE Recoverable /\ (proc
  => TreeIsCurrent)
    BY DEF LatestIsKept, LatestRecoverable, RunsOnLatest
  <2>1. Recoverable
    BY DEF Recoverable, Vaulted, FilesInv, Outside, TreeInv, Kept, Index, InMemory
  <2>2. proc => TreeIsCurrent
    BY DEF TreeIsCurrent, FilesInv, Outside, TreeInv, Present
  <2> QED
    BY <2>1, <2>2
<1>2. Spec => [](TypeOK /\ FilesInv)
  BY FilesInvariant
<1> QED
  BY <1>1, <1>2, PTL

\* A stop whose vaultRecycle has not been cut short leaves no file in the working
\* directory.
THEOREM StopLeavesNoPlaintextHolds == Spec => []StopLeavesNoPlaintext
<1>1. TypeOK /\ FilesInv => StopLeavesNoPlaintext
  BY DEF FilesInv, Outside, TreeInv, StopLeavesNoPlaintext
<1>2. Spec => [](TypeOK /\ FilesInv)
  BY FilesInvariant
<1> QED
  BY <1>1, <1>2, PTL

----------------------------------------------------------------------------
(* The migration: its inductive invariant.                                 *)

\* The index that an unlocked node reads, or that the next unlock will.
InForce == IF unlocked THEN index ELSE indexFile

\* The types: of the files,
FilesTyped ==
    /\ tree \in [Moved -> 0..MaxVersions] /\ index \in [Moved -> 0..MaxVersions]
    /\ indexFile \in [Moved -> 0..MaxVersions] /\ newest \in [Moved -> 0..MaxVersions]
    /\ claimed \in [Moved -> 0..MaxVersions] /\ versions \in 0..MaxVersions

\* and of who is where.
PlacesTyped ==
    /\ unlocked \in BOOLEAN /\ shared \in BOOLEAN /\ filesDone \in BOOLEAN
    /\ runs \in BOOLEAN /\ entered \in BOOLEAN /\ wiped \in BOOLEAN
    /\ step \in {"off", "walk", "file", "flush", "save", "wipe", "mark", "last"}
    /\ found \subseteq Moved /\ at \in 1..(FileCount + 1)
    /\ startPath \in 0..FileCount /\ path \in 0..FileCount /\ cursor \in 0..FileCount
    /\ vaultJson \in [cursor : 0..FileCount, done : BOOLEAN]
    /\ opens \in 0..MaxOpens /\ moveFails \in 0..MaxMoveFails
    /\ hit \subseteq {"crash", "cursor", "running", "saved", "reset", "unwritten"}

\* Writes are numbered as they are made: what the tree has is no older than what the
\* index has, and that no older than the index file.
Growing ==
    \A f \in Moved :
        /\ tree[f] # 0 => tree[f] >= index[f] /\ tree[f] >= indexFile[f]
        /\ unlocked => index[f] >= indexFile[f]
        /\ tree[f] <= versions /\ index[f] <= versions /\ indexFile[f] <= versions

\* Nothing else has been at the tree while the migration was, no cursor has skipped
\* a change, and no lock or unlock has lost the index.
Calm == hit \cap {"cursor", "running", "reset", "unwritten"} = {}

\* So the tree is the migration's alone, and what is locked meanwhile is on the
\* disk.
AloneInv == step # "off" => ~runs /\ ~entered /\ (~unlocked => index = indexFile)

\* The files the migration has come past are in the index as they are in the tree,
\* and from FlushBatch to SaveCursor in the index file.
PassedInv ==
    /\ step \in {"file", "flush", "save"} =>
         InTree \subseteq found /\ \A f \in InTree : f < at => tree[f] = InForce[f]
    /\ step \in {"flush", "save"} => path < at
    /\ step = "save" => \A f \in Moved : f <= path => index[f] = indexFile[f]

\* FilesAreSomewhere, and what the tree has is the last write; as long as nothing
\* was deleted since the index was written, the index file will do for a crash.
SomewhereInv ==
    /\ \A f \in Moved :
        /\ newest[f] # 0 /\ newest[f] \in {tree[f], InForce[f]}
        /\ tree[f] # 0 => tree[f] = newest[f]
    /\ ~wiped => \A f \in Moved : newest[f] \in {tree[f], indexFile[f]}

\* CursorIsFlushed.
ClaimedInv == \A f \in Moved : indexFile[f] >= claimed[f]

\* Each part holds outside the windows it speaks of.
MoveInv ==
    /\ FilesTyped /\ PlacesTyped /\ Growing
    /\ Calm => AloneInv /\ PassedInv
    /\ hit \subseteq {"saved"} => SomewhereInv
    /\ hit \subseteq {"crash"} => ClaimedInv

----------------------------------------------------------------------------
(* The least of a set of files.                                            *)

\* The order of the numbers is well founded.
LEMMA LeastExists ==
    ASSUME NEW T \in SUBSET Nat, T # {}
    PROVE  \E x \in T : \A y \in T : x <= y
<1> DEFINE Less == {ss \in Nat \X Nat : ss[1] < ss[2]}
<1>1. IsWellFoundedOn(Less, Nat)
  BY NatLessThanWellFounded DEF OpToRel
<1>2. PICK x \in T : \A y \in T : ~ (<<y, x>> \in Less)
  <2> HIDE DEF Less
  <2> QED BY <1>1, WFMin
<1>3. \A y \in T : <<y, x>> \in Nat \X Nat
  OBVIOUS
<1>4. \A y \in T : ~ (y < x)
  BY <1>2, <1>3
<1> QED
  BY <1>4

\* Min is the least of a set of files.
LEMMA LeastIs ==
    ASSUME NEW T \in SUBSET Nat, T # {}
    PROVE  Min(T) \in T /\ \A y \in T : Min(T) <= y
BY LeastExists DEF Min

\* The file the loop of the migration is at: the first in found that it has not come
\* to.
LEMMA RestLeast ==
    ASSUME PlacesTyped, Rest # {}
    PROVE  /\ Min(Rest) \in Moved /\ Min(Rest) \in found /\ Min(Rest) >= at
           /\ \A f \in found : f >= at => f >= Min(Rest)
<1>1. Moved \subseteq Nat
  BY DEF Moved
<1>2. found \subseteq Moved
  BY DEF PlacesTyped
<1>3. Rest \subseteq Nat
  BY <1>1, <1>2 DEF Rest
<1>4. Min(Rest) \in Rest /\ \A f \in Rest : Min(Rest) <= f
  BY <1>3, LeastIs
<1>5. Min(Rest) \in Moved /\ Min(Rest) \in found /\ Min(Rest) >= at
  BY <1>2, <1>4 DEF Rest
<1>6. ASSUME NEW f \in found, f >= at PROVE f >= Min(Rest)
  <2>1. f \in Rest /\ f \in Nat /\ Min(Rest) \in Nat
    BY <1>1, <1>2, <1>5, <1>6 DEF Rest
  <2> QED
    BY <1>4, <2>1
<1> QED
  BY <1>5, <1>6

\* Going one past it passes no other file.
LEMMA AtPasses ==
    ASSUME PlacesTyped, Rest # {}, NEW f \in found, f < Min(Rest) + 1
    PROVE  f < at \/ f = Min(Rest)
<1>1. f \in Nat /\ Min(Rest) \in Nat /\ at \in Nat
  BY RestLeast DEF PlacesTyped, Moved
<1>2. f >= at => f >= Min(Rest)
  BY RestLeast
<1> QED
  BY <1>1, <1>2

----------------------------------------------------------------------------
(* The types.                                                              *)

\* Every action keeps the types of the files
LEMMA FilesTypesKept ==
    ASSUME FilesTyped, PlacesTyped, MoveNext
    PROVE  FilesTyped'
<1>1. CASE BeginMove
  BY <1>1 DEF BeginMove, moveDisk, moveMemory, moveWorld, FilesTyped
<1>2. CASE GiveUpMove
  BY <1>2 DEF GiveUpMove, moveDisk, moveMemory, moveWorld, moveHistory, FilesTyped
<1>3. CASE WalkTree
  BY <1>3 DEF WalkTree, moveDisk, moveWorld, moveHistory, FilesTyped
<1>4. CASE SkipFile
  BY <1>4 DEF SkipFile, moveDisk, moveMemory, moveWorld, FilesTyped
<1>5. CASE MoveFile
  BY <1>5 DEF MoveFile, moveDisk, moveWorld, moveHistory, FilesTyped
<1>6. CASE FlushBatch
  BY <1>6 DEF FlushBatch, moveMemory, moveWorld, FilesTyped
<1>7. CASE SaveCursor
  BY <1>7 DEF SaveCursor, moveWorld, FilesTyped, Claims
<1>8. CASE WipeTree
  BY <1>8, MoveAssumption DEF WipeTree, moveMemory, moveWorld, FilesTyped, Empty
<1>9. CASE MarkMoved
  BY <1>9 DEF MarkMoved, moveWorld, moveHistory, FilesTyped
<1>10. CASE LastFlush
  BY <1>10 DEF LastFlush, moveMemory, moveWorld, FilesTyped
<1>11. CASE SaveOther
  BY <1>11 DEF SaveOther, moveMemory, moveWorld, FilesTyped, Claims
<1>12. CASE FlushTick
  BY <1>12 DEF FlushTick, moveMemory, moveWorld, FilesTyped
<1>13. CASE LockVault
  BY <1>13 DEF LockVault, moveWorld, FilesTyped
<1>14. CASE UnlockVault
  BY <1>14, MoveAssumption DEF UnlockVault, FilesTyped, Encrypted, Empty
<1>15. CASE EnterStart
  BY <1>15 DEF EnterStart, moveDisk, moveMemory, moveHistory, FilesTyped
<1>16. CASE RefuseRequest
  BY <1>16 DEF RefuseRequest, moveDisk, moveMemory, moveWorld, moveHistory, FilesTyped, moveVars
<1>17. CASE StartInTree
  BY <1>17 DEF StartInTree, moveHistory, FilesTyped, Encrypted
<1>18. CASE StopAndRecycle
  BY <1>18, MoveAssumption DEF StopAndRecycle, FilesTyped, Encrypted, Empty
<1>19. CASE EndInTree
  BY <1>19 DEF EndInTree, moveDisk, moveMemory, moveHistory, FilesTyped
<1>20. CASE \E f \in Moved : WriteInTree(f)
  BY <1>20, MoveAssumption DEF WriteInTree, moveMemory, FilesTyped
<1>21. CASE CrashMove
  BY <1>21, MoveAssumption DEF CrashMove, moveDisk, FilesTyped, Empty
<1> QED
  BY <1>1, <1>2, <1>3, <1>4, <1>5, <1>6, <1>7, <1>8, <1>9, <1>10, <1>11, <1>12, <1>13, <1>14,
     <1>15, <1>16, <1>17, <1>18, <1>19, <1>20, <1>21, Zenon
  DEF MoveNext

\* A failure is counted within its bound.
LEMMA FailsTyped ==
    ASSUME PlacesTyped, MoveFails \/ moveFails' = moveFails
    PROVE  moveFails' \in 0..MaxMoveFails
BY MoveAssumption DEF PlacesTyped, MoveFails

\* and of the rest.
LEMMA PlacesTypesKept ==
    ASSUME PlacesTyped, MoveNext
    PROVE  PlacesTyped'
<1>1. CASE BeginMove
  BY <1>1 DEF BeginMove, moveDisk, moveMemory, moveWorld, PlacesTyped, Meet
<1>2. CASE GiveUpMove
  BY <1>2, MoveAssumption
  DEF GiveUpMove, moveDisk, moveMemory, moveWorld, moveHistory, PlacesTyped, MoveFails
<1>3. CASE WalkTree
  BY <1>3, MoveAssumption DEF WalkTree, moveDisk, moveWorld, moveHistory, PlacesTyped, InTree
<1>4. CASE SkipFile
  BY <1>4, MoveAssumption, RestLeast
  DEF SkipFile, moveDisk, moveMemory, moveWorld, PlacesTyped, Moved
<1>5. CASE MoveFile
  BY <1>5, MoveAssumption, RestLeast
  DEF MoveFile, moveDisk, moveWorld, moveHistory, PlacesTyped, Moved
<1>6. CASE FlushBatch
  BY <1>6 DEF FlushBatch, moveMemory, moveWorld, PlacesTyped
<1>7. CASE SaveCursor
  <2>1. moveFails' \in 0..MaxMoveFails
    <3>1. MoveFails \/ moveFails' = moveFails
      BY <1>7 DEF SaveCursor
    <3> QED
      BY <3>1, FailsTyped
  <2>2. vaultJson' \in [cursor : 0..FileCount, done : BOOLEAN]
    BY <1>7 DEF SaveCursor, PlacesTyped
  <2> QED
    BY <1>7, <2>1, <2>2 DEF SaveCursor, moveWorld, PlacesTyped
<1>8. CASE WipeTree
  <2>1. moveFails' \in 0..MaxMoveFails
    <3>1. MoveFails \/ moveFails' = moveFails
      BY <1>8 DEF WipeTree
    <3> QED
      BY <3>1, FailsTyped
  <2>2. vaultJson' \in [cursor : 0..FileCount, done : BOOLEAN]
    BY <1>8 DEF WipeTree, PlacesTyped
  <2> QED
    BY <1>8, <2>1, <2>2 DEF WipeTree, moveMemory, moveWorld, PlacesTyped
<1>9. CASE MarkMoved
  <2>1. moveFails' \in 0..MaxMoveFails
    <3>1. MoveFails \/ moveFails' = moveFails
      BY <1>9 DEF MarkMoved
    <3> QED
      BY <3>1, FailsTyped
  <2>2. 0 \in 0..FileCount
    BY MoveAssumption
  <2>3. vaultJson' \in [cursor : 0..FileCount, done : BOOLEAN]
    <3>1. vaultJson' = [cursor |-> 0, done |-> TRUE] \/ vaultJson' = vaultJson
      BY <1>9 DEF MarkMoved
    <3>2. [cursor |-> 0, done |-> TRUE] \in [cursor : 0..FileCount, done : BOOLEAN]
      BY <2>2
    <3> QED
      BY <3>1, <3>2 DEF PlacesTyped
  <2> QED
    BY <1>9, <2>1, <2>2, <2>3 DEF MarkMoved, moveWorld, moveHistory, PlacesTyped
<1>10. CASE LastFlush
  <2>1. moveFails' \in 0..MaxMoveFails
    <3>1. MoveFails \/ moveFails' = moveFails
      BY <1>10 DEF LastFlush
    <3> QED
      BY <3>1, FailsTyped
  <2>2. vaultJson' \in [cursor : 0..FileCount, done : BOOLEAN]
    BY <1>10 DEF LastFlush, PlacesTyped
  <2> QED
    BY <1>10, <2>1, <2>2 DEF LastFlush, moveMemory, moveWorld, PlacesTyped
<1>11. CASE SaveOther
  BY <1>11 DEF SaveOther, moveLocals, moveMemory, moveWorld, PlacesTyped
<1>12. CASE FlushTick
  BY <1>12 DEF FlushTick, moveLocals, moveMemory, moveWorld, PlacesTyped
<1>13. CASE LockVault
  BY <1>13, FailsTyped DEF LockVault, moveLocals, moveWorld, PlacesTyped
<1>14. CASE UnlockVault
  BY <1>14, MoveAssumption DEF UnlockVault, PlacesTyped
<1>15. CASE EnterStart
  BY <1>15 DEF EnterStart, moveDisk, moveLocals, moveMemory, moveHistory, PlacesTyped
<1>16. CASE RefuseRequest
  BY <1>16
  DEF RefuseRequest, moveDisk, moveLocals, moveMemory, moveWorld, moveHistory, PlacesTyped,
      moveVars
<1>17. CASE StartInTree
  BY <1>17 DEF StartInTree, moveLocals, moveHistory, PlacesTyped
<1>18. CASE StopAndRecycle
  BY <1>18 DEF StopAndRecycle, moveLocals, PlacesTyped
<1>19. CASE EndInTree
  BY <1>19 DEF EndInTree, moveDisk, moveLocals, moveMemory, moveHistory, PlacesTyped
<1>20. CASE \E f \in Moved : WriteInTree(f)
  BY <1>20 DEF WriteInTree, moveLocals, moveMemory, PlacesTyped
<1>21. CASE CrashMove
  <2>1. vaultJson.cursor \in 0..FileCount /\ vaultJson.done \in BOOLEAN
    BY DEF PlacesTyped
  <2>2. 1 \in 1..(FileCount + 1) /\ 0 \in 0..FileCount
    BY MoveAssumption
  <2> QED
    BY <1>21, <2>1, <2>2 DEF CrashMove, moveDisk, PlacesTyped
<1> QED
  BY <1>1, <1>2, <1>3, <1>4, <1>5, <1>6, <1>7, <1>8, <1>9, <1>10, <1>11, <1>12, <1>13, <1>14,
     <1>15, <1>16, <1>17, <1>18, <1>19, <1>20, <1>21, Zenon
  DEF MoveNext

----------------------------------------------------------------------------
(* The migration: the invariant, action by action.                         *)

\* A window that was hit stays hit.
LEMMA HitGrows ==
    ASSUME MoveNext
    PROVE  hit \subseteq hit'
<1>1. CASE BeginMove
  BY <1>1 DEF BeginMove, Meet
<1>2. CASE GiveUpMove
  BY <1>2 DEF GiveUpMove, moveHistory
<1>3. CASE WalkTree
  BY <1>3 DEF WalkTree, moveHistory
<1>4. CASE SkipFile
  BY <1>4 DEF SkipFile
<1>5. CASE MoveFile
  BY <1>5 DEF MoveFile, moveHistory
<1>6. CASE FlushBatch
  BY <1>6 DEF FlushBatch
<1>7. CASE SaveCursor
  BY <1>7 DEF SaveCursor
<1>8. CASE WipeTree
  BY <1>8 DEF WipeTree
<1>9. CASE MarkMoved
  BY <1>9 DEF MarkMoved, moveHistory
<1>10. CASE LastFlush
  BY <1>10 DEF LastFlush
<1>11. CASE SaveOther
  BY <1>11 DEF SaveOther
<1>12. CASE FlushTick
  BY <1>12 DEF FlushTick
<1>13. CASE LockVault
  BY <1>13 DEF LockVault
<1>14. CASE UnlockVault
  BY <1>14 DEF UnlockVault, Meet
<1>15. CASE EnterStart
  BY <1>15 DEF EnterStart, moveHistory
<1>16. CASE RefuseRequest
  BY <1>16 DEF RefuseRequest, moveHistory, moveVars
<1>17. CASE StartInTree
  BY <1>17 DEF StartInTree, moveHistory
<1>18. CASE StopAndRecycle
  BY <1>18 DEF StopAndRecycle
<1>19. CASE EndInTree
  BY <1>19 DEF EndInTree, moveHistory
<1>20. CASE \E f \in Moved : WriteInTree(f)
  BY <1>20 DEF WriteInTree
<1>21. CASE CrashMove
  BY <1>21 DEF CrashMove
<1> QED
  BY <1>1, <1>2, <1>3, <1>4, <1>5, <1>6, <1>7, <1>8, <1>9, <1>10, <1>11, <1>12, <1>13, <1>14,
     <1>15, <1>16, <1>17, <1>18, <1>19, <1>20, <1>21, Zenon
  DEF MoveNext

\* The loop, its flushes and what a lock and an unlock in between do leave nothing
\* behind that is not in the index.
LEMMA PassedKept ==
    ASSUME FilesTyped, PlacesTyped, AloneInv, PassedInv, Calm', MoveNext
    PROVE  PassedInv'
<1>1. CASE BeginMove
  BY <1>1 DEF BeginMove, PassedInv
<1>2. CASE GiveUpMove
  BY <1>2 DEF GiveUpMove, PassedInv
<1>3. CASE WalkTree
  BY <1>3 DEF WalkTree, moveDisk, PassedInv, InTree, Moved
<1>4. CASE SkipFile
  <2> DEFINE g == Min(Rest)
  <2>1. /\ step = "file" /\ step' = "file" /\ tree' = tree /\ found' = found /\ at' = g + 1
        /\ InForce' = InForce /\ Rest # {} /\ (tree[g] \in {0, index[g]} \/ "cursor" \in hit')
    BY <1>4 DEF SkipFile, moveDisk, moveMemory, InForce
  <2>2. tree[g] \in {0, InForce[g]}
    BY <2>1 DEF Calm, AloneInv, InForce
  <2>3. InTree \subseteq found /\ \A f \in InTree : f < at => tree[f] = InForce[f]
    BY <2>1 DEF PassedInv
  <2>4. ASSUME NEW f \in InTree, f < g + 1 PROVE tree[f] = InForce[f]
    BY <2>1, <2>2, <2>3, <2>4, AtPasses DEF InTree
  <2> QED
    BY <2>1, <2>3, <2>4 DEF PassedInv, InTree
<1>5. CASE MoveFile
  <2> DEFINE g == Min(Rest)
  <2>1. /\ step = "file" /\ tree' = tree /\ found' = found /\ unlocked' = unlocked
        /\ Rest # {} /\ indexFile' = indexFile
    BY <1>5 DEF MoveFile, moveDisk
  <2>2. InTree \subseteq found /\ \A f \in InTree : f < at => tree[f] = InForce[f]
    BY <2>1 DEF PassedInv
  <2>3. CASE ~unlocked
    BY <1>5, <2>3 DEF MoveFile, PassedInv
  <2>4. CASE unlocked
    <3>1. /\ at' = g + 1 /\ step' \in {"file", "flush"} /\ (step' = "flush" => path' = g)
          /\ index' = IF tree[g] \in {0, index[g]} THEN index ELSE [index EXCEPT ![g] = tree[g]]
      BY <1>5, <2>1, <2>4 DEF MoveFile, IsKnown
    <3>2. ASSUME NEW f \in InTree, f < g + 1 PROVE tree[f] = index'[f]
      <4>1. f = g \/ (f < at /\ f # g)
        BY <2>1, <2>2, <3>2, AtPasses
      <4>2. g \in Moved /\ DOMAIN index = Moved
        BY <2>1, RestLeast DEF FilesTyped
      <4>3. CASE f = g
        BY <3>1, <4>2, <4>3 DEF InTree
      <4>4. CASE f < at /\ f # g
        BY <2>2, <2>4, <3>1, <4>4 DEF InForce
      <4> QED
        BY <4>1, <4>3, <4>4
    <3>3. g < g + 1
      BY <2>1, RestLeast DEF Moved
    <3> HIDE DEF g
    <3> QED
      BY <2>1, <2>2, <2>4, <3>1, <3>2, <3>3 DEF PassedInv, InForce, InTree
  <2> QED
    BY <2>3, <2>4
<1>6. CASE FlushBatch
  BY <1>6 DEF FlushBatch, moveMemory, PassedInv, InForce, InTree
<1>7. CASE SaveCursor
  BY <1>7 DEF SaveCursor, PassedInv, InForce, InTree
<1>8. CASE WipeTree
  BY <1>8 DEF WipeTree, PassedInv
<1>9. CASE MarkMoved
  BY <1>9 DEF MarkMoved, PassedInv
<1>10. CASE LastFlush
  BY <1>10 DEF LastFlush, PassedInv
<1>11. CASE SaveOther
  BY <1>11 DEF SaveOther, moveLocals, moveMemory, PassedInv, InForce, InTree
<1>12. CASE FlushTick
  BY <1>12 DEF FlushTick, moveLocals, moveMemory, PassedInv, InForce, InTree
<1>13. CASE LockVault
  BY <1>13 DEF LockVault, moveLocals, PassedInv, InForce, InTree, Calm
<1>14. CASE UnlockVault
  <2>1. /\ InForce = indexFile /\ tree' = Empty /\ index' = Encrypted(indexFile) /\ indexFile' = indexFile
        /\ path' = path /\ at' = at /\ (step' = step \/ step' = "walk")
    BY <1>14 DEF UnlockVault, Calm, InForce
  <2>2. InTree' = {}
    BY <2>1 DEF InTree, Empty
  <2>3. step \in {"flush", "save"} => path < at
    BY DEF PassedInv
  <2>4. ASSUME step = "save", NEW f \in Moved, f <= path PROVE index'[f] = indexFile[f]
    <3>1. f < at
      BY <2>3, <2>4 DEF PlacesTyped, Moved
    <3>2. tree[f] # 0 => tree[f] = indexFile[f]
      BY <2>1, <2>4, <3>1 DEF PassedInv, InTree, InForce
    <3> QED
      BY <2>1, <3>2 DEF Encrypted
  <2> QED
    BY <2>1, <2>2, <2>3, <2>4 DEF PassedInv
<1>15. CASE EnterStart
  BY <1>15 DEF EnterStart, moveDisk, moveLocals, moveMemory, PassedInv, InForce, InTree, Calm
<1>16. CASE RefuseRequest
  BY <1>16
  DEF RefuseRequest, moveDisk, moveLocals, moveMemory, PassedInv, InForce, InTree, moveVars
<1>17. CASE StartInTree
  BY <1>17 DEF StartInTree, moveLocals, AloneInv, PassedInv
<1>18. CASE StopAndRecycle
  BY <1>18 DEF StopAndRecycle, moveLocals, PassedInv
<1>19. CASE EndInTree
  BY <1>19 DEF EndInTree, moveLocals, AloneInv, PassedInv
<1>20. CASE \E f \in Moved : WriteInTree(f)
  BY <1>20 DEF WriteInTree, moveLocals, AloneInv, PassedInv
<1>21. CASE CrashMove
  BY <1>21 DEF CrashMove, PassedInv
<1> QED
  BY <1>1, <1>2, <1>3, <1>4, <1>5, <1>6, <1>7, <1>8, <1>9, <1>10, <1>11, <1>12, <1>13, <1>14,
     <1>15, <1>16, <1>17, <1>18, <1>19, <1>20, <1>21, Zenon
  DEF MoveNext

\* No step loses a last write: removePlainTree deletes what has been passed, and an
\* unlock or a stop what it has encrypted.
LEMMA SomewhereKept ==
    ASSUME FilesTyped, PlacesTyped, AloneInv, PassedInv, SomewhereInv, hit' \subseteq {"saved"}, MoveNext
    PROVE  SomewhereInv'
<1>1. CASE BeginMove
  BY <1>1 DEF BeginMove, moveDisk, moveMemory, InForce, SomewhereInv
<1>2. CASE GiveUpMove
  BY <1>2 DEF GiveUpMove, moveDisk, moveMemory, moveHistory, InForce, SomewhereInv
<1>3. CASE WalkTree
  BY <1>3 DEF WalkTree, moveDisk, moveHistory, InForce, SomewhereInv
<1>4. CASE SkipFile
  BY <1>4 DEF SkipFile, moveDisk, moveMemory, InForce, SomewhereInv
<1>5. CASE MoveFile
  BY <1>5 DEF MoveFile, moveDisk, moveHistory, FilesTyped, InForce, SomewhereInv, IsKnown
<1>6. CASE FlushBatch
  BY <1>6 DEF FlushBatch, moveMemory, InForce, SomewhereInv
<1>7. CASE SaveCursor
  BY <1>7 DEF SaveCursor, InForce, SomewhereInv
<1>8. CASE WipeTree
  <2>1. /\ step = "file" /\ Rest = {} /\ wiped' = (wiped \/ InTree # {})
        /\ index' = index /\ indexFile' = indexFile /\ unlocked' = unlocked /\ newest' = newest
        /\ tree' = Empty \/ \E f \in InTree : tree' = [Empty EXCEPT ![f] = tree[f]]
    BY <1>8 DEF WipeTree, moveMemory
  <2>2. \A f \in InTree : tree[f] = InForce[f]
    <3>1. InTree \subseteq found /\ \A f \in InTree : f < at => tree[f] = InForce[f]
      BY <2>1 DEF PassedInv
    <3>2. \A f \in found : ~ (f >= at)
      BY <2>1 DEF Rest
    <3>3. \A f \in found : f < at
      <4>1. found \subseteq 1..FileCount /\ at \in Nat
        BY DEF PlacesTyped, Moved
      <4> QED
        BY <3>2, <4>1
    <3> QED
      BY <3>1, <3>3
  <2>3. \A f \in Moved : tree'[f] \in {0, tree[f]}
    BY <2>1 DEF Empty
  <2>4. InTree = {} => \A f \in Moved : tree'[f] = tree[f]
    BY <2>3 DEF InTree
  <2>5. \A f \in Moved : newest[f] = InForce[f]
    BY <2>2 DEF SomewhereInv, InTree
  <2>6. InForce' = InForce
    BY <2>1 DEF InForce
  <2>7. ~wiped' => ~wiped /\ InTree = {}
    BY <2>1
  <2>8. \A f \in Moved : newest'[f] # 0 /\ newest'[f] = InForce'[f] /\ (tree'[f] # 0 => tree'[f] = newest'[f])
    BY <2>1, <2>3, <2>5, <2>6 DEF SomewhereInv
  <2>9. ~wiped' => \A f \in Moved : newest'[f] \in {tree'[f], indexFile'[f]}
    BY <2>1, <2>4, <2>7 DEF SomewhereInv
  <2> QED
    BY <2>8, <2>9 DEF SomewhereInv
<1>9. CASE MarkMoved
  BY <1>9 DEF MarkMoved, moveHistory, InForce, SomewhereInv
<1>10. CASE LastFlush
  BY <1>10 DEF LastFlush, moveMemory, InForce, SomewhereInv
<1>11. CASE SaveOther
  BY <1>11 DEF SaveOther, moveMemory, InForce, SomewhereInv
<1>12. CASE FlushTick
  BY <1>12 DEF FlushTick, moveMemory, InForce, SomewhereInv
<1>13. CASE LockVault
  BY <1>13 DEF LockVault, InForce, SomewhereInv
<1>14. CASE UnlockVault
  BY <1>14 DEF UnlockVault, InForce, InTree, SomewhereInv, Encrypted, Empty
<1>15. CASE EnterStart
  BY <1>15 DEF EnterStart, moveDisk, moveMemory, moveHistory, InForce, SomewhereInv
<1>16. CASE RefuseRequest
  BY <1>16 DEF RefuseRequest, moveDisk, moveMemory, moveHistory, InForce, SomewhereInv, moveVars
<1>17. CASE StartInTree
  BY <1>17 DEF StartInTree, moveHistory, InForce, SomewhereInv, Encrypted
<1>18. CASE StopAndRecycle
  BY <1>18 DEF StopAndRecycle, InForce, SomewhereInv, Encrypted, Empty
<1>19. CASE EndInTree
  BY <1>19 DEF EndInTree, moveDisk, moveMemory, moveHistory, InForce, SomewhereInv
<1>20. CASE \E f \in Moved : WriteInTree(f)
  BY <1>20 DEF WriteInTree, moveMemory, FilesTyped, InForce, SomewhereInv
<1>21. CASE CrashMove
  BY <1>21 DEF CrashMove, moveDisk, InForce, SomewhereInv
<1> QED
  BY <1>1, <1>2, <1>3, <1>4, <1>5, <1>6, <1>7, <1>8, <1>9, <1>10, <1>11, <1>12, <1>13, <1>14,
     <1>15, <1>16, <1>17, <1>18, <1>19, <1>20, <1>21, Zenon
  DEF MoveNext

\* Every save of a cursor has the index file before it, and the index file only
\* grows.
LEMMA ClaimedKept ==
    ASSUME FilesTyped, PlacesTyped, Growing, PassedInv, ClaimedInv, hit' \subseteq {"crash"}, MoveNext
    PROVE  ClaimedInv'
<1>1. CASE BeginMove
  BY <1>1 DEF BeginMove, moveDisk, ClaimedInv
<1>2. CASE GiveUpMove
  BY <1>2 DEF GiveUpMove, moveDisk, moveHistory, ClaimedInv
<1>3. CASE WalkTree
  BY <1>3 DEF WalkTree, moveDisk, moveHistory, ClaimedInv
<1>4. CASE SkipFile
  BY <1>4 DEF SkipFile, moveDisk, ClaimedInv
<1>5. CASE MoveFile
  BY <1>5 DEF MoveFile, moveDisk, moveHistory, ClaimedInv
<1>6. CASE FlushBatch
  BY <1>6 DEF FlushBatch, FilesTyped, Growing, ClaimedInv
<1>7. CASE SaveCursor
  BY <1>7 DEF SaveCursor, FilesTyped, PassedInv, ClaimedInv, Claims
<1>8. CASE WipeTree
  BY <1>8 DEF WipeTree, ClaimedInv
<1>9. CASE MarkMoved
  BY <1>9 DEF MarkMoved, moveHistory, ClaimedInv
<1>10. CASE LastFlush
  BY <1>10 DEF LastFlush, FilesTyped, Growing, ClaimedInv
<1>11. CASE SaveOther
  <2>1. indexFile' = indexFile /\ Claims(cursor) /\ \A f \in 1..cursor : index[f] = indexFile[f]
    BY <1>11 DEF SaveOther
  <2>2. ASSUME NEW f \in Moved PROVE indexFile'[f] >= claimed'[f]
    <3>1. f <= cursor => f \in 1..cursor
      BY DEF Moved
    <3>2. claimed'[f] = IF f <= cursor /\ index[f] > claimed[f] THEN index[f] ELSE claimed[f]
      BY <2>1 DEF Claims
    <3>3. indexFile[f] \in Nat /\ indexFile[f] >= claimed[f]
      BY DEF FilesTyped, ClaimedInv
    <3> QED
      BY <2>1, <3>1, <3>2, <3>3
  <2> QED
    BY <2>2 DEF ClaimedInv
<1>12. CASE FlushTick
  BY <1>12 DEF FlushTick, FilesTyped, Growing, ClaimedInv
<1>13. CASE LockVault
  BY <1>13 DEF LockVault, FilesTyped, Growing, ClaimedInv
<1>14. CASE UnlockVault
  BY <1>14 DEF UnlockVault, ClaimedInv
<1>15. CASE EnterStart
  BY <1>15 DEF EnterStart, moveDisk, moveHistory, ClaimedInv
<1>16. CASE RefuseRequest
  BY <1>16 DEF RefuseRequest, moveDisk, moveHistory, ClaimedInv, moveVars
<1>17. CASE StartInTree
  BY <1>17 DEF StartInTree, moveHistory, ClaimedInv
<1>18. CASE StopAndRecycle
  BY <1>18 DEF StopAndRecycle, ClaimedInv
<1>19. CASE EndInTree
  BY <1>19 DEF EndInTree, moveDisk, moveHistory, ClaimedInv
<1>20. CASE \E f \in Moved : WriteInTree(f)
  BY <1>20 DEF WriteInTree, ClaimedInv
<1>21. CASE CrashMove
  BY <1>21 DEF CrashMove, moveDisk, ClaimedInv
<1> QED
  BY <1>1, <1>2, <1>3, <1>4, <1>5, <1>6, <1>7, <1>8, <1>9, <1>10, <1>11, <1>12, <1>13, <1>14,
     <1>15, <1>16, <1>17, <1>18, <1>19, <1>20, <1>21, Zenon
  DEF MoveNext

\* Every step copies from the tree to the index and from there to its file.
LEMMA GrowingKept ==
    ASSUME FilesTyped, PlacesTyped, Growing, MoveNext
    PROVE  Growing'
<1>1. CASE BeginMove
  BY <1>1 DEF BeginMove, moveDisk, moveMemory, moveWorld, Growing
<1>2. CASE GiveUpMove
  BY <1>2 DEF GiveUpMove, moveDisk, moveMemory, moveWorld, Growing
<1>3. CASE WalkTree
  BY <1>3 DEF WalkTree, moveDisk, moveWorld, Growing
<1>4. CASE SkipFile
  BY <1>4 DEF SkipFile, moveDisk, moveMemory, moveWorld, Growing
<1>5. CASE MoveFile
  BY <1>5 DEF MoveFile, moveDisk, moveWorld, FilesTyped, Growing, IsKnown
<1>6. CASE FlushBatch
  BY <1>6 DEF FlushBatch, moveMemory, moveWorld, FilesTyped, Growing
<1>7. CASE SaveCursor
  BY <1>7 DEF SaveCursor, moveWorld, Growing
<1>8. CASE WipeTree
  BY <1>8 DEF WipeTree, moveMemory, moveWorld, FilesTyped, Growing, Empty
<1>9. CASE MarkMoved
  BY <1>9 DEF MarkMoved, moveWorld, Growing
<1>10. CASE LastFlush
  BY <1>10 DEF LastFlush, moveMemory, moveWorld, FilesTyped, Growing
<1>11. CASE SaveOther
  BY <1>11 DEF SaveOther, moveMemory, moveWorld, Growing
<1>12. CASE FlushTick
  BY <1>12 DEF FlushTick, moveMemory, moveWorld, FilesTyped, Growing
<1>13. CASE LockVault
  BY <1>13 DEF LockVault, moveWorld, Growing
<1>14. CASE UnlockVault
  BY <1>14 DEF UnlockVault, FilesTyped, Growing, Encrypted, Empty
<1>15. CASE EnterStart
  BY <1>15 DEF EnterStart, moveDisk, moveMemory, Growing
<1>16. CASE RefuseRequest
  BY <1>16 DEF RefuseRequest, moveDisk, moveMemory, moveWorld, Growing, moveVars
<1>17. CASE StartInTree
  BY <1>17 DEF StartInTree, FilesTyped, Growing, Encrypted
<1>18. CASE StopAndRecycle
  BY <1>18 DEF StopAndRecycle, FilesTyped, Growing, Encrypted, Empty
<1>19. CASE EndInTree
  BY <1>19 DEF EndInTree, moveDisk, moveMemory, Growing
<1>20. CASE \E f \in Moved : WriteInTree(f)
  BY <1>20 DEF WriteInTree, moveMemory, FilesTyped, Growing
<1>21. CASE CrashMove
  BY <1>21 DEF CrashMove, moveDisk, FilesTyped, Growing, Empty
<1> QED
  BY <1>1, <1>2, <1>3, <1>4, <1>5, <1>6, <1>7, <1>8, <1>9, <1>10, <1>11, <1>12, <1>13, <1>14,
     <1>15, <1>16, <1>17, <1>18, <1>19, <1>20, <1>21, Zenon
  DEF MoveNext

\* Nobody starts a process while the migration is under way.
LEMMA AloneKept ==
    ASSUME AloneInv, Calm', MoveNext
    PROVE  AloneInv'
<1>1. CASE BeginMove
  BY <1>1 DEF BeginMove, moveMemory, moveWorld, AloneInv, Calm, Meet
<1>2. CASE GiveUpMove
  BY <1>2 DEF GiveUpMove, AloneInv
<1>3. CASE WalkTree
  BY <1>3 DEF WalkTree, moveDisk, moveWorld, AloneInv
<1>4. CASE SkipFile
  BY <1>4 DEF SkipFile, moveDisk, moveMemory, moveWorld, AloneInv
<1>5. CASE MoveFile
  BY <1>5 DEF MoveFile, moveWorld, AloneInv
<1>6. CASE FlushBatch
  BY <1>6 DEF FlushBatch, moveMemory, moveWorld, AloneInv
<1>7. CASE SaveCursor
  BY <1>7 DEF SaveCursor, moveWorld, AloneInv
<1>8. CASE WipeTree
  BY <1>8 DEF WipeTree, moveMemory, moveWorld, AloneInv
<1>9. CASE MarkMoved
  BY <1>9 DEF MarkMoved, moveWorld, AloneInv
<1>10. CASE LastFlush
  BY <1>10 DEF LastFlush, AloneInv
<1>11. CASE SaveOther
  BY <1>11 DEF SaveOther, moveLocals, moveMemory, moveWorld, AloneInv
<1>12. CASE FlushTick
  BY <1>12 DEF FlushTick, moveLocals, moveMemory, moveWorld, AloneInv
<1>13. CASE LockVault
  BY <1>13 DEF LockVault, moveLocals, moveWorld, AloneInv, Calm
<1>14. CASE UnlockVault
  BY <1>14 DEF UnlockVault, AloneInv, Calm
<1>15. CASE EnterStart
  BY <1>15 DEF EnterStart, moveLocals, AloneInv, Calm
<1>16. CASE RefuseRequest
  BY <1>16 DEF RefuseRequest, moveDisk, moveLocals, moveMemory, moveWorld, AloneInv, moveVars
<1>17. CASE StartInTree
  BY <1>17 DEF StartInTree, moveLocals, AloneInv
<1>18. CASE StopAndRecycle
  BY <1>18 DEF StopAndRecycle, moveLocals, AloneInv
<1>19. CASE EndInTree
  BY <1>19 DEF EndInTree, moveLocals, AloneInv
<1>20. CASE \E f \in Moved : WriteInTree(f)
  BY <1>20 DEF WriteInTree, moveLocals, AloneInv
<1>21. CASE CrashMove
  BY <1>21 DEF CrashMove, AloneInv
<1> QED
  BY <1>1, <1>2, <1>3, <1>4, <1>5, <1>6, <1>7, <1>8, <1>9, <1>10, <1>11, <1>12, <1>13, <1>14,
     <1>15, <1>16, <1>17, <1>18, <1>19, <1>20, <1>21, Zenon
  DEF MoveNext

----------------------------------------------------------------------------
(* The invariant holds, and the properties.                                *)

\* A plain tree and a vault that has not been opened.
LEMMA MigrationInit == MoveInit => MoveInv
<1> SUFFICES ASSUME MoveInit PROVE MoveInv
  OBVIOUS
<1>1. FilesTyped
  BY MoveAssumption DEF MoveInit, FilesTyped, Empty
<1>2. PlacesTyped
  <2>1. 0 \in 0..FileCount /\ 1 \in 1..(FileCount + 1) /\ 0 \in 0..MaxOpens /\ 0 \in 0..MaxMoveFails
    BY MoveAssumption
  <2> QED
    BY <2>1 DEF MoveInit, PlacesTyped
<1>3. Growing
  BY DEF MoveInit, Growing, Empty
<1>4. AloneInv /\ PassedInv
  BY DEF MoveInit, AloneInv, PassedInv
<1>5. SomewhereInv
  BY DEF MoveInit, SomewhereInv
<1>6. ClaimedInv
  BY DEF MoveInit, ClaimedInv, Empty
<1> QED
  BY <1>1, <1>2, <1>3, <1>4, <1>5, <1>6 DEF MoveInv

\* Every step of the migration, of the vault and of the instance.
LEMMA MigrationStep == MoveInv /\ [MoveNext]_moveVars => MoveInv'
<1> SUFFICES ASSUME MoveInv, [MoveNext]_moveVars PROVE MoveInv'
  OBVIOUS
<1>1. CASE MoveNext
  <2>1. FilesTyped' /\ PlacesTyped' /\ Growing'
    BY <1>1, FilesTypesKept, PlacesTypesKept, GrowingKept DEF MoveInv
  <2>2. hit \subseteq hit'
    BY <1>1, HitGrows
  <2>3. ASSUME Calm' PROVE Calm /\ AloneInv /\ PassedInv /\ AloneInv' /\ PassedInv'
    <3>1. Calm
      BY <2>2, <2>3 DEF Calm
    <3> QED
      BY <1>1, <2>3, <3>1, AloneKept, PassedKept DEF MoveInv
  <2>4. ASSUME hit' \subseteq {"saved"} PROVE SomewhereInv'
    <3>1. Calm' /\ hit \subseteq {"saved"}
      BY <2>2, <2>4 DEF Calm
    <3> QED
      BY <1>1, <2>3, <2>4, <3>1, SomewhereKept DEF MoveInv
  <2>5. ASSUME hit' \subseteq {"crash"} PROVE ClaimedInv'
    <3>1. Calm' /\ hit \subseteq {"crash"}
      BY <2>2, <2>5 DEF Calm
    <3> QED
      BY <1>1, <2>3, <2>5, <3>1, ClaimedKept DEF MoveInv
  <2> QED
    BY <2>1, <2>3, <2>4, <2>5 DEF MoveInv
<1>2. CASE UNCHANGED moveVars
  BY <1>2
  DEF moveVars, moveDisk, moveLocals, moveMemory, moveWorld, moveHistory, MoveInv, FilesTyped,
      PlacesTyped, Growing, Calm, AloneInv, PassedInv, SomewhereInv, ClaimedInv, InForce,
      InTree
<1> QED
  BY <1>1, <1>2

\* The invariant holds in every reachable state, for any number of files and any
\* size of batch.
THEOREM MigrationInvariant == MoveSpec => []MoveInv
<1> QED
  BY MigrationInit, MigrationStep, PTL DEF MoveSpec

\* Every reachable state of the migration has the types its module declares.
THEOREM MigrationTypeCorrect == MoveSpec => []MoveTypeOK
<1>1. MoveInv => MoveTypeOK
  <2> SUFFICES ASSUME FilesTyped, PlacesTyped PROVE MoveTypeOK
    BY DEF MoveInv
  <2>1. {tree, index, indexFile, newest, claimed} \subseteq [Moved -> 0..MaxVersions]
    BY DEF FilesTyped
  <2>2. {unlocked, shared, filesDone, runs, entered, wiped} \subseteq BOOLEAN
    BY DEF PlacesTyped
  <2>3. {at, startPath, path, cursor} \subseteq 0..(FileCount + 1)
    BY MoveAssumption DEF PlacesTyped
  <2>4. /\ step \in {"off", "walk", "file", "flush", "save", "wipe", "mark", "last"}
        /\ found \subseteq Moved /\ vaultJson \in [cursor : 0..FileCount, done : BOOLEAN]
        /\ opens \in 0..MaxOpens /\ moveFails \in 0..MaxMoveFails
        /\ hit \subseteq {"crash", "cursor", "running", "saved", "reset", "unwritten"}
    BY DEF PlacesTyped
  <2>5. versions \in 0..MaxVersions
    BY DEF FilesTyped
  <2> QED
    BY <2>1, <2>2, <2>3, <2>4, <2>5, Zenon DEF MoveTypeOK
<1> QED
  BY <1>1, MigrationInvariant, PTL

\* MigrationHolds: whatever fails, is locked or crashes outside the windows,
\* migrateOneInstance and removePlainTree keep the last write of every file in the
\* tree or in the vault, and a cursor in vault.json is behind only what the index
\* file has.
THEOREM MigrationSafe == MoveSpec => []MigrationHolds
<1>1. MoveInv => FilesAreSomewhere
  BY DEF MoveInv, SomewhereInv, InForce, FilesAreSomewhere
<1>2. MoveInv => CursorIsFlushed
  BY DEF MoveInv, ClaimedInv, CursorIsFlushed
<1>3. MoveInv => MigrationHolds
  BY <1>1, <1>2 DEF MigrationHolds
<1> QED
  BY <1>3, MigrationInvariant, PTL

----------------------------------------------------------------------------
(* The two together, as MCVaultFiles runs them.                            *)

\* A step of MCVaultFiles is one of the instance or one of the migration, and
\* leaves the other alone: its behaviours are behaviours of both.
LEMMA TreesAreBoth == TreesSpec => Spec /\ MoveSpec
<1>1. TreesSpec => Spec
  <2>1. TreesInit => Init
    BY DEF TreesInit
  <2>2. [TreesNext]_treesVars => [Next]_vars
    BY DEF TreesNext, treesVars
  <2> QED
    BY <2>1, <2>2, PTL DEF TreesSpec, Spec
<1>2. TreesSpec => MoveSpec
  <2>1. TreesInit => MoveInit
    BY DEF TreesInit
  <2>2. [TreesNext]_treesVars => [MoveNext]_moveVars
    BY DEF TreesNext, treesVars
  <2> QED
    BY <2>1, <2>2, PTL DEF TreesSpec, MoveSpec
<1> QED
  BY <1>1, <1>2

\* Every reachable state of the tree and of the migration has the types declared.
THEOREM TreesTypeCorrect == TreesSpec => []TreesTypeOK
<1>1. TypeOK /\ MoveTypeOK => TreesTypeOK
  BY DEF TreesTypeOK
<1> QED
  BY <1>1, TreesAreBoth, FilesTypeCorrect, MigrationTypeCorrect, PTL

\* TreesHold: the last write of every file outlives start, stop, edits, crashes
\* and the migration outside the windows VaultFiles and FileMigration name.
THEOREM TreesAreKept == TreesSpec => []TreesHold
<1>1. LatestIsKept /\ MigrationHolds => TreesHold
  BY DEF TreesHold
<1> QED
  BY <1>1, TreesAreBoth, LatestIsKeptHolds, MigrationSafe, PTL

\* StopLeavesNoPlaintext: in the behaviours of MCVaultFiles too, a handler that
\* answered has left no plaintext of a stopped instance.
THEOREM TreesLeaveNoPlaintext == TreesSpec => []StopLeavesNoPlaintext
  BY TreesAreBoth, StopLeavesNoPlaintextHolds, PTL
=============================================================================
