--------------------------- MODULE ContainerJobs ---------------------------
(***************************************************************************)
(* The long jobs of the container interface (an image build, a release to  *)
(* be fetched, a template to be applied): each is a command whose output   *)
(* is collected by lines while a client asks for status and log.  A job is *)
(* never taken out of the table again.                                     *)
(*                                                                         *)
(* The lines of a command are the numbers 1, 2, ...; 0 stands for the line *)
(* the node adds itself when the command has failed.                       *)
(***************************************************************************)
EXTENDS Naturals, FiniteSets, Sequences

CONSTANTS
    Job,        \* job ids: newUUID never gives the same twice
    MaxJobs,    \* maxJobs
    MaxLogKept, \* jobLogMaxLines
    MaxLines    \* bound of the lines a command writes

ASSUME JobsAssumption == {MaxJobs, MaxLogKept} \subseteq Nat \ {0} /\ MaxLines \in Nat

VARIABLES
    jobs,      \* jobStore.jobs: the ids in the table
    jobStatus, \* longJob.status
    jobLog,    \* longJob.log
    jobAt,     \* where the job is
    carried,   \* jobs whose logCollector.carry holds the beginning of a line
    printed,   \* per job, the lines that the command has ended
    refusedIdle \* history: a job was refused while fewer than the maximum ran

jobVars == <<jobs, jobStatus, jobLog, jobAt, carried, printed, refusedIdle>>

JobsTypeOK ==
    /\ jobs \subseteq Job /\ carried \subseteq jobs
    /\ jobStatus \in [Job -> {"none", "building", "done", "failed"}]
    /\ jobAt \in [Job -> {"none", "directory", "stuck", "queued", "running", "succeeded", "broken", "over"}]
    /\ \A j \in Job : jobLog[j] \in Seq(0..MaxLines) /\ Len(jobLog[j]) <= MaxLogKept + 1
    /\ printed \in [Job -> 0..MaxLines] /\ refusedIdle \in BOOLEAN

JobsInit ==
    /\ jobs = {} /\ carried = {} /\ refusedIdle = FALSE
    /\ jobStatus = [j \in Job |-> "none"] /\ jobAt = [j \in Job |-> "none"]
    /\ jobLog = [j \in Job |-> <<>>] /\ printed = [j \in Job |-> 0]

JobGoes(j, at) == jobAt' = [jobAt EXCEPT ![j] = at]
Busy == {j \in jobs : jobStatus[j] = "building"}

FaultOneTooMany(j) == jobs' = jobs \cup {j} /\ Cardinality(jobs) <= MaxJobs

\* jobStore.create: every job there ever was counts.
HasSlot(j) == jobs' = jobs \cup {j} /\ Cardinality(jobs) < MaxJobs

\* dockerBuildStart makes a directory for the job first; the others run at once.
CreateJob(j, first) ==
    /\ j \notin jobs /\ HasSlot(j)
    /\ jobStatus' = [jobStatus EXCEPT ![j] = "building"] /\ JobGoes(j, first)
    /\ UNCHANGED <<jobLog, carried, printed, refusedIdle>>
RefuseJob ==
    /\ jobs # Job /\ Cardinality(jobs) >= MaxJobs
    /\ refusedIdle' = (refusedIdle \/ Cardinality(Busy) < MaxJobs)
    /\ UNCHANGED <<jobs, jobStatus, jobLog, jobAt, carried, printed>>

\* The directory and the Dockerfile; when one fails the request is answered with an
\* error and nobody ends the job.
MakeBuildDir(j) ==
    /\ jobAt[j] = "directory" /\ (JobGoes(j, "queued") \/ JobGoes(j, "stuck"))
    /\ UNCHANGED <<jobs, jobStatus, jobLog, carried, printed, refusedIdle>>

\* cmd.Run starts the command, or fails to.
RunCommand(j) ==
    /\ jobAt[j] = "queued" /\ (JobGoes(j, "running") \/ JobGoes(j, "broken"))
    /\ UNCHANGED <<jobs, jobStatus, jobLog, carried, printed, refusedIdle>>

FaultNeverTrims(log) == log

FaultKeepsOldest(log) == SubSeq(log, 1, IF Len(log) < MaxLogKept THEN Len(log) ELSE MaxLogKept)

Newest(log) == SubSeq(log, IF Len(log) > MaxLogKept THEN Len(log) - MaxLogKept + 1 ELSE 1, Len(log))

FaultDropsCarry(j, ended) ==
    LET from == IF j \in carried THEN 1 ELSE 0
    IN  [i \in 1..(ended - from) |-> printed[j] + from + i]

\* The lines a chunk of output ends: the first of them may have been begun by an
\* earlier chunk.
EndedLines(j, ended) == [i \in 1..ended |-> printed[j] + i]

\* logCollector.Write: a chunk ends some lines and may begin another.  An empty line
\* is not collected.
CollectOutput(j, ended, begun) ==
    /\ jobAt[j] = "running" /\ printed[j] + ended <= MaxLines
    /\ printed' = [printed EXCEPT ![j] = @ + ended]
    /\ carried' = IF begun \/ (ended = 0 /\ j \in carried) THEN carried \cup {j} ELSE carried \ {j}
    /\ jobLog' = [jobLog EXCEPT ![j] = Newest(@ \o EndedLines(j, ended))]
    /\ UNCHANGED <<jobs, jobStatus, jobAt, refusedIdle>>

ExitCommand(j) ==
    /\ jobAt[j] = "running" /\ (JobGoes(j, "succeeded") \/ JobGoes(j, "broken"))
    /\ UNCHANGED <<jobs, jobStatus, jobLog, carried, printed, refusedIdle>>

\* The end of runLongJob and of bastilleApply.  What the collector still carries is
\* never collected.
EndJob(j) ==
    /\ jobAt[j] \in {"succeeded", "broken"} /\ JobGoes(j, "over")
    /\ jobStatus' = [jobStatus EXCEPT ![j] = IF jobAt[j] = "broken" THEN "failed" ELSE "done"]
    /\ jobLog' = [jobLog EXCEPT ![j] = IF jobAt[j] = "broken" THEN Append(@, 0) ELSE @]
    /\ UNCHANGED <<jobs, carried, printed, refusedIdle>>

JobsNext ==
    \/ RefuseJob
    \/ \E j \in Job :
        \/ \E first \in {"directory", "queued"} : CreateJob(j, first)
        \/ MakeBuildDir(j) \/ RunCommand(j) \/ ExitCommand(j) \/ EndJob(j)
        \/ \E ended \in 0..2, begun \in BOOLEAN : CollectOutput(j, ended, begun)

JobsSpec == JobsInit /\ [][JobsNext]_jobVars

----------------------------------------------------------------------------
(* Properties                                                              *)

\* What a client reads is the end of the output: no line is missing between two
\* that it sees, none is cut where two chunks met, and the last is the newest that
\* has been ended; the line of a failure comes after all of them.
LogIsTheTail ==
    \A j \in jobs :
        LET kept == IF printed[j] < MaxLogKept THEN printed[j] ELSE MaxLogKept
            tail == [i \in 1..kept |-> printed[j] - kept + i]
        IN  jobLog[j] = IF jobStatus[j] = "failed" THEN Append(tail, 0) ELSE tail

\* The commands that run at the same time are within maxJobs.
JobsAreBounded == Cardinality({j \in Job : jobAt[j] \in {"queued", "running"}}) <= MaxJobs

JobsHold == LogIsTheTail /\ JobsAreBounded

----------------------------------------------------------------------------
(* What the code means to keep and does not.  maxJobs is called the        *)
(* maximum of the jobs that run at the same time and a refusal says to try *)
(* again later, but a job that is over keeps its slot; and a job whose     *)
(* directory cannot be made is building for ever.                          *)

RefusedOnlyWhenBusy == ~refusedIdle
NobodyIsStuck == \A j \in jobs : jobAt[j] # "stuck"
=============================================================================
