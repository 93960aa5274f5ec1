--------------------------- MODULE CoreDownloads ----------------------------
(***************************************************************************)
(* The tasks that download the program of a server to a file of its        *)
(* instance: each writes a temporary file beside the destination, checks   *)
(* its sum when the request gave one, and renames it.  Only the name of    *)
(* the temporary file keeps two downloads to one destination apart.        *)
(***************************************************************************)
EXTENDS Naturals, FiniteSets

CONSTANTS
    CoreDownload,   \* the tasks, all to one file
    MaxCoreFails    \* bound of the removals that fail, and of the crashes

ASSUME CoreAssumption == MaxCoreFails \in Nat

VARIABLES
    coreTask,   \* per download: status, how far it is, whether it has a sum to compare
    partFile,       \* download -> what is in <dest>.part-<taskID>
    dest,       \* what is in the file of the core
    coreFails

coreVars == <<coreTask, partFile, dest, coreFails>>

Content == {"absent", "partial", "whole", "other"} \* "other": complete, but not what was asked for

CoresTypeOK ==
    /\ coreTask \in [CoreDownload -> [status : {"none", "running", "done", "error", "lost"},
                                      pc : {"ask", "write", "check", "place", "clean", "end"}, sha : BOOLEAN]]
    /\ partFile \in [CoreDownload -> Content] /\ dest \in Content /\ coreFails \in 0..MaxCoreFails

CoresInit ==
    /\ \E sha \in [CoreDownload -> BOOLEAN] :
         coreTask = [c \in CoreDownload |-> [status |-> "none", pc |-> "ask", sha |-> sha[c]]]
    /\ partFile = [c \in CoreDownload |-> "absent"] /\ dest \in {"absent", "whole"} /\ coreFails = 0

CoreFail == coreFails < MaxCoreFails /\ coreFails' = coreFails + 1

----------------------------------------------------------------------------
(* runDownloadCore                                                         *)

CoreAt(c, pc) == coreTask[c].status \in {"running", "error", "done"} /\ coreTask[c].pc = pc
CoreGoes(c, pc) == coreTask' = [coreTask EXCEPT ![c].pc = pc]
CoreEnds(c, status, pc) == coreTask' = [coreTask EXCEPT ![c].status = status, ![c].pc = pc]

FaultFixedPart(c) == CHOOSE d \in CoreDownload : TRUE

\* The name of the temporary file has the id of the task in it.
PartOf(c) == c

\* handleDownloadCore
StartCore(c) ==
    /\ coreTask[c].status = "none"
    /\ coreTask' = [coreTask EXCEPT ![c].status = "running"]
    /\ UNCHANGED <<partFile, dest, coreFails>>

AskForCore(c) ==
    /\ CoreAt(c, "ask")
    /\ \/ CoreGoes(c, "write") /\ partFile' = [partFile EXCEPT ![PartOf(c)] = "partial"]
       \/ CoreEnds(c, "error", "end") /\ UNCHANGED partFile
    /\ UNCHANGED <<dest, coreFails>>

\* The body ends, cleanly for all the client can tell, or breaks off, or is over the
\* limit; it is synced to the disk before it is checked.
WriteCore(c) ==
    /\ CoreAt(c, "write")
    /\ \/ /\ \E got \in {"whole", "other"} : partFile' = [partFile EXCEPT ![PartOf(c)] = got]
          /\ CoreGoes(c, "check")
       \/ CoreEnds(c, "error", "clean") /\ UNCHANGED partFile
    /\ UNCHANGED <<dest, coreFails>>

FaultTrustsBody(c) == TRUE

\* The sum was taken of what was read, and only when the request has one to compare.
SumFits(c) == partFile[PartOf(c)] = "whole" \/ ~coreTask[c].sha

CheckCore(c) ==
    /\ CoreAt(c, "check")
    /\ IF SumFits(c) THEN CoreGoes(c, "place") ELSE CoreEnds(c, "error", "clean")
    /\ UNCHANGED <<partFile, dest, coreFails>>

PlaceCore(c) ==
    /\ CoreAt(c, "place")
    /\ \/ /\ partFile[PartOf(c)] # "absent"
          /\ dest' = partFile[PartOf(c)] /\ partFile' = [partFile EXCEPT ![PartOf(c)] = "absent"]
          /\ CoreEnds(c, "done", "end")
       \/ CoreEnds(c, "error", "clean") /\ UNCHANGED <<partFile, dest>>
    /\ UNCHANGED <<coreFails>>

\* The deferred removal, of a download that has failed.
CleanCore(c) ==
    /\ CoreAt(c, "clean") /\ CoreGoes(c, "end")
    /\ \/ partFile' = [partFile EXCEPT ![PartOf(c)] = "absent"] /\ UNCHANGED coreFails
       \/ CoreFail /\ UNCHANGED partFile
    /\ UNCHANGED <<dest>>

\* The tasks are only in memory; no start looks for what they have left.
LoseCores ==
    /\ CoreFail
    /\ coreTask' = [c \in CoreDownload |-> IF coreTask[c].status = "none" THEN coreTask[c]
                                           ELSE [coreTask[c] EXCEPT !.status = "lost"]]
    /\ UNCHANGED <<partFile, dest>>

CoresNext ==
    \/ LoseCores
    \/ \E c \in CoreDownload :
        \/ StartCore(c) \/ AskForCore(c) \/ WriteCore(c) \/ CheckCore(c) \/ PlaceCore(c) \/ CleanCore(c)

CoresSpec == CoresInit /\ [][CoresNext]_coreVars

----------------------------------------------------------------------------
(* Properties                                                              *)

\* The file of a core is complete at every moment (the .part file and its rename,
\* core_download.go:192); with a sum in every request it is the one asked for.
CoreIsWhole ==
    /\ dest # "partial"
    /\ (\A c \in CoreDownload : coreTask[c].sha) => dest # "other"

\* A download that has ended leaves nothing under its temporary name.
EndsLeaveNoPart ==
    coreFails = 0 => \A c \in CoreDownload : CoreAt(c, "end") => partFile[c] = "absent"

CoresHold == CoreIsWhole /\ EndsLeaveNoPart
=============================================================================
