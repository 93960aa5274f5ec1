----------------------------- MODULE MCServices -----------------------------
(***************************************************************************)
(* The services around the instances, each explored by itself: the recycle *)
(* bin, the backups, the FRP tunnels, the tasks, the transfer tickets, the *)
(* installations, the downloads of cores, the transfers between nodes and  *)
(* the logs.                                                               *)
(***************************************************************************)
EXTENDS Trash, InstanceBackups, FrpTunnels, TaskTable, TransferTickets, JdkInstalls, CoreDownloads,
        ClusterPulls, FileLogger, TLC

CONSTANTS a, b, c, u, v

VARIABLE part

\* Requests, tasks and paths are interchangeable.
Symmetry == Permutations({a, b})

vars == <<part, trashVars, backupVars, frpVars, taskVars, transferVars,
          installVars, coreVars, pullVars, logVars>>

TypeOK ==
    /\ part = "trash" => TrashTypeOK
    /\ part = "backups" => BackupsTypeOK
    /\ part = "tunnels" => FrpTypeOK
    /\ part = "tasks" => TasksTypeOK
    /\ part = "tickets" => TransfersTypeOK
    /\ part = "jdk" => InstallsTypeOK
    /\ part = "core" => CoresTypeOK
    /\ part = "pulls" => PullsTypeOK
    /\ part = "log" => LogTypeOK

Init ==
    /\ part \in {"trash", "backups", "tunnels", "tasks", "tickets", "jdk", "core", "pulls", "log"}
    /\ TrashInit /\ BackupsInit /\ FrpInit /\ TasksInit /\ TransfersInit /\ InstallsInit
    /\ CoresInit /\ PullsInit /\ LogInit
    \* The parts that do not run begin in one way.
    /\ part # "core" => dest = "absent" /\ \A d \in CoreDownload : ~coreTask[d].sha
    /\ part # "log" => ~archiving
    /\ part # "backups" => second = 1

Next ==
    /\ UNCHANGED part
    /\ \/ /\ part = "trash" /\ TrashNext
          /\ UNCHANGED <<backupVars, frpVars, taskVars, transferVars, installVars, coreVars, pullVars, logVars>>
       \/ /\ part = "backups" /\ BackupsNext
          /\ UNCHANGED <<trashVars, frpVars, taskVars, transferVars, installVars, coreVars, pullVars, logVars>>
       \/ /\ part = "tunnels" /\ FrpNext
          /\ UNCHANGED <<trashVars, backupVars, taskVars, transferVars, installVars, coreVars, pullVars, logVars>>
       \/ /\ part = "tasks" /\ TasksNext
          /\ UNCHANGED <<trashVars, backupVars, frpVars, transferVars, installVars, coreVars, pullVars, logVars>>
       \/ /\ part = "tickets" /\ TransfersNext
          /\ UNCHANGED <<trashVars, backupVars, frpVars, taskVars, installVars, coreVars, pullVars, logVars>>
       \/ /\ part = "jdk" /\ InstallsNext
          /\ UNCHANGED <<trashVars, backupVars, frpVars, taskVars, transferVars, coreVars, pullVars, logVars>>
       \/ /\ part = "core" /\ CoresNext
          /\ UNCHANGED <<trashVars, backupVars, frpVars, taskVars, transferVars, installVars, pullVars, logVars>>
       \/ /\ part = "pulls" /\ PullsNext
          /\ UNCHANGED <<trashVars, backupVars, frpVars, taskVars, transferVars, installVars, coreVars, logVars>>
       \/ /\ part = "log" /\ LogNext
          /\ UNCHANGED <<trashVars, backupVars, frpVars, taskVars, transferVars, installVars, coreVars, pullVars>>

Spec == Init /\ [][Next]_vars

\* Nothing is claimed of pulls that have met another writer, have failed or were lost.
SomePullIsAlone == \E p \in Pull \ mixed : transfer[p].status \notin {"failed", "lost"}

\* The files that the services keep are what their lists and archives say.
FilesHold == TrashHolds /\ BackupsHold /\ TransfersHold

\* The tasks, and the work that is done in them: a task says what was done, and what
\* a task has put in place is whole.
WorkHolds == TasksHold /\ InstallsHold /\ CoresHold /\ PullsHold
=============================================================================
