-------------------------- MODULE InstanceBackups --------------------------
(***************************************************************************)
(* Backups of one instance, with what may go on at the same time: starts,  *)
(* stops and the removal of the instance.  A backup is a zip of the files, *)
(* named by the second it was made in; a restore stops the instance and    *)
(* unzips over the files.  Neither asks whether the other runs, and only   *)
(* starts and stops ask for Busy.                                          *)
(*                                                                         *)
(* Kill and the automatic restart are left to InstanceLifecycle.  The      *)
(* files are two; each holds a number that grows with every write.         *)
(***************************************************************************)
EXTENDS Naturals, FiniteSets

CONSTANTS
    Second,        \* the names that backups can have
    BackupRequest, \* requests and tasks that run at the same time
    MaxBackupOps,  \* bound of the requests that are begun
    MaxEdits       \* bound of the writes to the files

ASSUME BackupAssumption == Second \subseteq Nat /\ {MaxBackupOps, MaxEdits} \subseteq Nat

VARIABLES
    listed,    \* the instance is in Instances
    busy,
    stopped,   \* Instance.Status is StatusStopped
    running,   \* process ids that are alive
    proc,      \* Instance.Proc, 0 for none
    lastProc,
    data,      \* the two files of the instance
    edits,
    zips,      \* second -> the backup of that name
    second,    \* the time
    breq,      \* per request: what it does, where it is, what it holds
    backupOps,
    finished,  \* history: names of backups whose task is done
    doubled,   \* history: names in a window of DoneIsWhole
    slipped    \* history: a start that came between two steps that mean to exclude it

instance == <<listed, busy, stopped, running, proc, lastProc>>
backupDisk == <<data, zips>>
backupHistory == <<finished, doubled, slipped>>
backupVars == <<instance, backupDisk, edits, second, breq, backupOps, backupHistory>>

DataFile == {1, 2}
\* A backup file: the copies of the files it has so far, and whether its directory,
\* which is written last, is complete.
NoZip == [there |-> FALSE, has |-> {}, copy |-> [f \in DataFile |-> 0], ended |-> FALSE]
BackupFree == [op |-> "start", pc |-> "idle", proc |-> 0, zip |-> 0, todo |-> {},
               kept |-> NoZip.copy, unzipped |-> {}]

BackupsTypeOK ==
    /\ {listed, busy, stopped} \subseteq BOOLEAN
    /\ proc \in 0..lastProc /\ running \subseteq 1..lastProc /\ lastProc \in 0..MaxBackupOps
    /\ data \in [DataFile -> 0..MaxEdits] /\ edits \in 0..MaxEdits
    /\ second \in Second
    /\ \A s \in Second : zips[s].copy \in [DataFile -> 0..MaxEdits] /\ zips[s].has \subseteq DataFile
                              /\ {zips[s].there, zips[s].ended} \subseteq BOOLEAN
    /\ \A q \in BackupRequest :
        /\ breq[q].op \in {"start", "stop", "remove", "backup", "restore"}
        /\ breq[q].pc \in {"idle", "begun", "launch", "publish", "release", "again", "kill", "kept", "unlist",
                           "delete", "copy", "claim", "open", "unzip", "done", "failed"}
        /\ {breq[q].todo, breq[q].unzipped} \subseteq SUBSET DataFile /\ breq[q].zip \in {0} \cup Second
    /\ backupOps \in 0..MaxBackupOps /\ {finished, doubled} \subseteq SUBSET Second
    /\ slipped \subseteq {"remove", "restore"}

BackupsInit ==
    /\ listed = TRUE /\ busy = FALSE /\ stopped = TRUE /\ running = {} /\ proc = 0 /\ lastProc = 0
    /\ data = [f \in DataFile |-> 0] /\ edits = 0
    /\ zips = [s \in Second |-> NoZip] /\ second \in Second
    /\ breq = [q \in BackupRequest |-> BackupFree] /\ backupOps = 0
    /\ finished = {} /\ doubled = {} /\ slipped = {}

BackupAt(q, op, pc) == breq[q].op = op /\ breq[q].pc = pc
BackupGoes(q, pc) == breq' = [breq EXCEPT ![q].pc = pc]
Doing(op, pcs) == \E q \in BackupRequest : breq[q].op = op /\ breq[q].pc \in pcs

\* Busy is this request's, unless another has cleared it or set it over; a start that
\* has published has it no more.
HasClaim(q) ==
    \/ breq[q].pc \in {"launch", "publish", "release", "kill", "open", "unzip"} /\ breq[q].op # "remove"
    \/ breq[q].pc = "again" /\ (breq[q].op = "start" => breq[q].proc = 0)
Alive == proc # 0 /\ proc \in running

\* A request finds the instance and keeps the pointer, whether it stays in the list
\* or not.
BeginBackupOp(q, op) ==
    /\ listed /\ breq[q].pc \in {"idle", "done", "failed"} /\ backupOps < MaxBackupOps
    /\ backupOps' = backupOps + 1
    /\ breq' = [breq EXCEPT ![q] = [BackupFree EXCEPT !.op = op, !.pc = "begun"]]
    /\ UNCHANGED <<instance, backupDisk, edits, second, backupHistory>>

NextSecond ==
    /\ second' \in Second /\ second' > second
    /\ UNCHANGED <<instance, backupDisk, edits, breq, backupOps, backupHistory>>

\* The server writes its files, and may exit; the watcher of the process that is
\* published sets the status.
WriteData(f) ==
    /\ running # {} /\ edits < MaxEdits
    /\ edits' = edits + 1 /\ data' = [data EXCEPT ![f] = edits + 1]
    /\ UNCHANGED <<instance, zips, second, breq, backupOps, backupHistory>>
ProcessExits(p) ==
    /\ p \in running /\ running' = running \ {p}
    /\ UNCHANGED <<listed, busy, stopped, proc, lastProc, backupDisk, edits, second, breq, backupOps, backupHistory>>
WatchExit ==
    /\ proc # 0 /\ proc \notin running /\ stopped' = TRUE
    /\ UNCHANGED <<listed, busy, running, proc, lastProc, backupDisk, edits, second, breq, backupOps, backupHistory>>

----------------------------------------------------------------------------
(* startInstance and stopInstance, as far as they matter here.             *)

\* A start that takes Busy while a removal or a restore is under way is in a window
\* of theirs.
ClaimStart(q) ==
    /\ BackupAt(q, "start", "begun")
    /\ IF busy \/ Alive
       THEN BackupGoes(q, "failed") /\ UNCHANGED <<busy, stopped, slipped>>
       ELSE /\ BackupGoes(q, "launch") /\ busy' = TRUE /\ stopped' = FALSE
            /\ slipped' = slipped \cup {w \in {"restore"} : Doing(w, {"claim"})}
    /\ UNCHANGED <<listed, running, proc, lastProc, backupDisk, edits, second, backupOps, finished, doubled>>
Launch(q) ==
    /\ BackupAt(q, "start", "launch")
    /\ \/ /\ lastProc' = lastProc + 1 /\ running' = running \cup {lastProc + 1}
          /\ breq' = [breq EXCEPT ![q].pc = "publish", ![q].proc = lastProc + 1]
          /\ UNCHANGED stopped
       \/ BackupGoes(q, "again") /\ stopped' = TRUE /\ UNCHANGED <<lastProc, running>>
    /\ slipped' = slipped \cup {w \in {"remove"} : ~listed \/ Doing(w, {"kill", "unlist"})}
    /\ UNCHANGED <<listed, busy, proc, backupDisk, edits, second, backupOps, finished, doubled>>
Publish(q) ==
    /\ BackupAt(q, "start", "publish") /\ BackupGoes(q, "release")
    /\ proc' = breq[q].proc /\ stopped' = FALSE
    /\ UNCHANGED <<listed, busy, running, lastProc, backupDisk, edits, second, backupOps, backupHistory>>

\* Busy is cleared, whoever has it; a start does it twice, before its watcher is
\* attached and by its deferred call, which is a window if somebody else has taken
\* Busy in between.
ReleaseBusy(q) ==
    /\ breq[q].pc \in {"release", "again"} /\ busy' = FALSE
    /\ BackupGoes(q, CASE BackupAt(q, "start", "release") -> "again"
                      [] BackupAt(q, "restore", "release") -> "claim"
                      [] BackupAt(q, "restore", "again") -> "failed"
                      [] OTHER -> "done")
    /\ slipped' = slipped \cup
         {w \in {"restore"} : /\ BackupAt(q, "start", "again")
                              /\ \E o \in BackupRequest \ {q} : HasClaim(o)}
    /\ UNCHANGED <<listed, stopped, running, proc, lastProc, backupDisk, edits, second, backupOps, finished, doubled>>

\* stopInstance, called by a stop and by a restore: the reference is taken away, then
\* the process is stopped.  A restore goes on if nothing runs.
ClaimStop(q) ==
    /\ breq[q].op \in {"stop", "restore"} /\ breq[q].pc = "begun"
    /\ \/ busy /\ BackupGoes(q, "failed") /\ UNCHANGED <<busy, stopped, proc>>
       \/ /\ ~busy /\ ~Alive /\ UNCHANGED <<busy, stopped, proc>>
          /\ BackupGoes(q, IF breq[q].op = "restore" THEN "claim" ELSE "failed")
       \/ /\ ~busy /\ Alive /\ busy' = TRUE /\ stopped' = FALSE /\ proc' = 0
          /\ breq' = [breq EXCEPT ![q].pc = "kill", ![q].proc = proc]
    /\ UNCHANGED <<listed, running, lastProc, backupDisk, edits, second, backupOps, backupHistory>>
StopProcess(q) ==
    /\ breq[q].op \in {"stop", "restore"} /\ breq[q].pc = "kill"
    /\ \/ running' = running \ {breq[q].proc} /\ stopped' = TRUE /\ BackupGoes(q, "release") /\ UNCHANGED proc
       \/ /\ breq[q].proc \in running /\ UNCHANGED running
          /\ proc' = breq[q].proc /\ stopped' = FALSE /\ BackupGoes(q, "again")
    /\ UNCHANGED <<listed, busy, lastProc, backupDisk, edits, second, backupOps, backupHistory>>

----------------------------------------------------------------------------
(* Remove                                                                  *)

FaultHasProcessIfBusy(q) == proc # 0 /\ ~stopped /\ busy

\* Proc and Status decide whether there is a process to kill.
HasProcess(q) == proc # 0 /\ ~stopped

\* They are read in the lock, and Busy is not: a start, a stop or a restore may be
\* under way, which is the window.
ReadProc(q) ==
    /\ BackupAt(q, "remove", "begun")
    /\ breq' = [breq EXCEPT ![q].pc = IF HasProcess(q) THEN "kill" ELSE "unlist", ![q].proc = proc]
    /\ slipped' = slipped \cup {w \in {"remove"} : \E o \in BackupRequest :
                                   breq[o].pc \in {"launch", "publish", "kill"} /\ breq[o].op # "remove"}
    /\ UNCHANGED <<instance, backupDisk, edits, second, backupOps, finished, doubled>>
KillRemoved(q) ==
    /\ BackupAt(q, "remove", "kill")
    /\ \/ BackupGoes(q, "unlist") /\ running' = running \ {breq[q].proc}
       \/ BackupGoes(q, "failed") /\ UNCHANGED running
    /\ UNCHANGED <<listed, busy, stopped, proc, lastProc, backupDisk, edits, second, backupOps, backupHistory>>
Unlist(q) ==
    /\ BackupAt(q, "remove", "unlist") /\ listed' = FALSE /\ BackupGoes(q, "delete")
    /\ UNCHANGED <<busy, stopped, running, proc, lastProc, backupDisk, edits, second, backupOps, backupHistory>>

\* The files go with the instance if the request says so, and a restore that is under
\* way is in its window; the backups stay.
DeleteData(q) ==
    /\ BackupAt(q, "remove", "delete") /\ BackupGoes(q, "done")
    /\ data' \in {data, [f \in DataFile |-> 0]}
    /\ slipped' = slipped \cup {w \in {"restore"} : Doing(w, {"unzip"})}
    /\ UNCHANGED <<instance, zips, edits, second, backupOps, finished, doubled>>

----------------------------------------------------------------------------
(* runSnapshot                                                             *)

\* The files are listed, without those that cannot be looked at, and the backup file is
\* made, over one of the same second: both are windows.
OpenBackup(q) ==
    /\ BackupAt(q, "backup", "begun")
    /\ \/ \E found \in SUBSET DataFile :
          /\ breq' = [breq EXCEPT ![q].pc = "copy", ![q].zip = second, ![q].todo = found]
          /\ zips' = [zips EXCEPT ![second] = [NoZip EXCEPT !.there = TRUE]]
          /\ doubled' = IF zips[second].there \/ found # DataFile THEN doubled \cup {second} ELSE doubled
       \/ BackupGoes(q, "failed") /\ UNCHANGED <<zips, doubled>>
    /\ UNCHANGED <<instance, data, edits, second, backupOps, finished, slipped>>
CopyData(q, f) ==
    /\ BackupAt(q, "backup", "copy") /\ f \in breq[q].todo
    /\ zips' = IF zips[breq[q].zip].there
                THEN [zips EXCEPT ![breq[q].zip].copy[f] = data[f], ![breq[q].zip].has = @ \cup {f}] ELSE zips
    /\ breq' = [breq EXCEPT ![q].todo = @ \ {f}]
    /\ UNCHANGED <<instance, data, edits, second, backupOps, backupHistory>>

FaultSkipsUnreadable(q) == TRUE

\* Every file has been copied.
AllCopied(q) == breq[q].todo = {}

\* createSnapshotZip returns, early when a file cannot be copied: its deferred calls
\* write the directory of the zip in any case.  Their errors are ignored: a directory
\* that cannot be written is in the window.
CloseBackup(q) ==
    /\ BackupAt(q, "backup", "copy")
    /\ LET s == breq[q].zip
       IN  /\ \/ zips' = [zips EXCEPT ![s].ended = zips[s].there] /\ UNCHANGED doubled
              \/ doubled' = doubled \cup {s} /\ UNCHANGED zips
           /\ IF AllCopied(q)
              THEN BackupGoes(q, "done") /\ finished' = finished \cup {s}
              ELSE BackupGoes(q, "failed") /\ UNCHANGED finished
    /\ UNCHANGED <<instance, data, edits, second, backupOps, slipped>>

\* handleBackupsDelete; a backup that is being made goes on without a name.
DeleteBackup(s) ==
    /\ zips[s].there /\ zips' = [zips EXCEPT ![s] = NoZip]
    /\ doubled' = IF \E q \in BackupRequest : BackupAt(q, "backup", "copy") /\ breq[q].zip = s
                  THEN doubled \cup {s} ELSE doubled
    /\ finished' = finished \ {s}
    /\ UNCHANGED <<instance, data, edits, second, breq, backupOps, slipped>>

----------------------------------------------------------------------------
(* handleInstanceRestore, after the stop.                                  *)

FaultRestoreDoesNotClaim == UNCHANGED busy

SetBusy == busy' = TRUE

\* Busy is set, whether it is set already or not: what holds it is in the window.
ClaimRestore(q) ==
    /\ BackupAt(q, "restore", "claim") /\ BackupGoes(q, "open") /\ SetBusy
    /\ slipped' = slipped \cup {w \in {"restore"} : busy}
    /\ UNCHANGED <<listed, stopped, running, proc, lastProc, backupDisk, edits, second, backupOps, finished, doubled>>

\* unzip: the file is opened and stays open; one without its directory cannot be.
OpenRestore(q, s) ==
    /\ BackupAt(q, "restore", "open")
    /\ IF zips[s].there /\ zips[s].ended
       THEN breq' = [breq EXCEPT ![q].pc = "unzip", ![q].kept = zips[s].copy,
                                 ![q].todo = zips[s].has]
       ELSE BackupGoes(q, "again")
    /\ UNCHANGED <<instance, backupDisk, edits, second, backupOps, backupHistory>>
Unzip(q, f) ==
    /\ BackupAt(q, "restore", "unzip") /\ f \in breq[q].todo
    /\ \/ data' = [data EXCEPT ![f] = breq[q].kept[f]] /\ breq' = [breq EXCEPT ![q].todo = @ \ {f}, ![q].unzipped = @ \cup {f}]
       \/ BackupGoes(q, "again") /\ UNCHANGED data
    /\ UNCHANGED <<instance, zips, edits, second, backupOps, backupHistory>>
EndRestore(q) ==
    /\ BackupAt(q, "restore", "unzip") /\ breq[q].todo = {}
    /\ BackupGoes(q, "done") /\ busy' = FALSE /\ stopped' = TRUE
    /\ UNCHANGED <<listed, running, proc, lastProc, backupDisk, edits, second, backupOps, backupHistory>>

BackupsNext ==
    \/ NextSecond \/ WatchExit
    \/ \E f \in DataFile : WriteData(f)
    \/ \E p \in running : ProcessExits(p)
    \/ \E s \in Second : DeleteBackup(s)
    \/ \E q \in BackupRequest :
        \/ \E op \in {"start", "stop", "remove", "backup", "restore"} : BeginBackupOp(q, op)
        \/ ClaimStart(q) \/ Launch(q) \/ Publish(q) \/ ReleaseBusy(q)
        \/ ClaimStop(q) \/ StopProcess(q)
        \/ ReadProc(q) \/ KillRemoved(q) \/ Unlist(q) \/ DeleteData(q)
        \/ OpenBackup(q) \/ CloseBackup(q)
        \/ ClaimRestore(q) \/ EndRestore(q)
        \/ \E s \in Second : OpenRestore(q, s)
        \/ \E f \in DataFile : CopyData(q, f) \/ Unzip(q, f)

BackupsSpec == BackupsInit /\ [][BackupsNext]_backupVars

----------------------------------------------------------------------------
(* Properties                                                              *)

\* The instance does not run while its files are restored, and what has been unzipped
\* is there when the restore ends.  The windows: a start between the stop of the
\* restore and its claim, a claim over another's, and the second release of a start
\* that clears the Busy of a stop, a start or a restore.
RestoreIsAlone ==
    "restore" \in slipped \/ \A q \in BackupRequest :
        BackupAt(q, "restore", "unzip") =>
            /\ running = {}
            /\ \A f \in breq[q].unzipped : data[f] = breq[q].kept[f]

\* A backup whose task is done can be restored and has every file.  The windows: a
\* file that could not be looked at, which is left out silently (snapshotFiles), two
\* backups in one second, a directory that could not be written, and a deletion while
\* it was made.
DoneIsWhole ==
    \A s \in finished \ doubled : zips[s].there /\ zips[s].ended /\ zips[s].has = DataFile

\* An instance that is not listed any more has no process: nobody could stop it.  The
\* windows are the steps of a start, a stop or a restore that Remove does not wait for.
RemovedIsDead == ~listed /\ slipped = {} => running = {}

BackupsHold == RestoreIsAlone /\ DoneIsWhole /\ RemovedIsDead

----------------------------------------------------------------------------
(* What the code means to keep and does not: the comment of the claim says *)
(* that it keeps the instance from being started during the restore.       *)

NoStartDuringRestore == Doing("restore", {"unzip"}) => running = {}
=============================================================================
