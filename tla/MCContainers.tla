---------------------------- MODULE MCContainers ----------------------------
(***************************************************************************)
(* Parts of the host's interface, each explored by itself: the sessions in *)
(* a jail, the configuration of a jail, the long jobs and the archives of  *)
(* the containers; and the mutexes that the goroutines of the node share.  *)
(***************************************************************************)
EXTENDS JailSessions, JailConfig, ContainerJobs, ContainerArchives, LockOrder, TLC

CONSTANTS x1, x2, j1, j2, j3, p1, p2

VARIABLE part

\* Requests and sessions are interchangeable.
Symmetry == Permutations({x1, x2})

vars == <<part, jailSessionVars, configVars, jobVars, archiveVars, lockVars>>

TypeOK ==
    /\ part = "sessions" => JailSessionsTypeOK
    /\ part = "config" => ConfigTypeOK
    /\ part = "jobs" => JobsTypeOK
    /\ part = "archives" => ArchivesTypeOK
    /\ part = "locks" => LocksTypeOK

Init ==
    /\ part \in {"sessions", "config", "jobs", "archives", "locks"}
    /\ JailSessionsInit /\ ConfigInit /\ JobsInit /\ ArchivesInit /\ LocksInit

Next ==
    /\ UNCHANGED part
    /\ \/ /\ part = "sessions" /\ JailSessionsNext
          /\ UNCHANGED <<configVars, jobVars, archiveVars, lockVars>>
       \/ /\ part = "config" /\ ConfigNext
          /\ UNCHANGED <<jailSessionVars, jobVars, archiveVars, lockVars>>
       \/ /\ part = "jobs" /\ JobsNext
          /\ UNCHANGED <<jailSessionVars, configVars, archiveVars, lockVars>>
       \/ /\ part = "archives" /\ ArchivesNext
          /\ UNCHANGED <<jailSessionVars, configVars, jobVars, lockVars>>
       \/ /\ part = "locks" /\ LocksNext
          /\ UNCHANGED <<jailSessionVars, configVars, jobVars, archiveVars>>

Spec == Init /\ [][Next]_vars

\* What jails are there, who may reach them and what is configured for them.
JailsHold == JailSessionsHold /\ JailConfigHolds

\* The jobs and the archives they write.
ContainerWorkHolds == JobsHold /\ ArchivesHold
=============================================================================
