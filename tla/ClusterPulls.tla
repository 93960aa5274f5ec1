---------------------------- MODULE ClusterPulls ----------------------------
(***************************************************************************)
(* The transfer between two nodes: a task of this node asks a peer for a   *)
(* snapshot of an instance, asks until it is done, gets a ticket for the   *)
(* archive, downloads it to a temporary file and extracts it, file after   *)
(* file, into the mirror.  The peer edits the instance, may fail and may   *)
(* restart, and then knows the task no more.  Requests of this node delete *)
(* in the mirror meanwhile, or upload into it.                             *)
(***************************************************************************)
EXTENDS Naturals, FiniteSets

CONSTANTS
    Pull,           \* the tasks, all of one instance and to one directory
    Entry,          \* the files of the instance
    MaxVersion,     \* bound of the peer's edits
    MaxPolls,       \* the deadline of the snapshot, in polls
    MaxMirrorOps,   \* bound of the requests that delete in the mirror or upload into it
    MaxPullFails    \* bound of the restarts of the peer and of this node

ASSUME PullAssumption ==
    /\ MaxVersion \in Nat /\ MaxPolls \in Nat /\ MaxMirrorOps \in Nat /\ MaxPullFails \in Nat
    /\ "none" \notin Pull

VARIABLES
    version,    \* at the peer: how often the instance was edited
    snapshot,   \* at the peer: per pull, the task of the snapshot and the version it took
    transfer,   \* d.transfers: per pull, its status and how far it is
    tmpZip,     \* pull -> what is in .transfer/<jobID>.zip
    left,       \* pull -> the files that its archive has and that are not extracted
    mirror,     \* file -> whose it is, of which version, and whether it is whole
    mirrorOps, pullFails,
    deleter,    \* the files that a deletion has not come to
    uploading,  \* the files that uploads write
    asked,      \* history: the version there was when the pull began
    mixed       \* history: pulls that another one, a deletion or an upload met in the directory

peerVars == <<version, snapshot>>
pullVars == <<peerVars, transfer, tmpZip, left, mirror, mirrorOps, pullFails, deleter, uploading, asked, mixed>>

NoPull == "none"
Gone == [by |-> NoPull, version |-> 0, whole |-> FALSE]
UploadedFile == [Gone EXCEPT !.whole = TRUE]

PullsTypeOK ==
    /\ version \in 0..MaxVersion /\ asked \in [Pull -> 0..MaxVersion] /\ mixed \subseteq Pull
    /\ snapshot \in [Pull -> [status : {"none", "running", "done", "failed"}, version : 0..MaxVersion]]
    /\ transfer \in [Pull -> [status : {"none", "running", "done", "failed", "lost"},
                              pc : {"ask", "poll", "ticket", "fetch", "unzip", "end"}, polls : 0..MaxPolls]]
    /\ tmpZip \in [Pull -> [state : {"absent", "partial", "whole"}, version : 0..MaxVersion]] /\ left \in [Pull -> SUBSET Entry]
    /\ mirror \in [Entry -> [by : Pull \cup {NoPull}, version : 0..MaxVersion, whole : BOOLEAN]]
    /\ mirrorOps \in 0..MaxMirrorOps /\ pullFails \in 0..MaxPullFails
    /\ {deleter, uploading} \subseteq SUBSET Entry

PullsInit ==
    /\ version = 0 /\ asked = [p \in Pull |-> 0] /\ mixed = {}
    /\ snapshot = [p \in Pull |-> [status |-> "none", version |-> 0]]
    /\ transfer = [p \in Pull |-> [status |-> "none", pc |-> "ask", polls |-> 0]]
    /\ tmpZip = [p \in Pull |-> [state |-> "absent", version |-> 0]] /\ left = [p \in Pull |-> {}]
    /\ mirror = [e \in Entry |-> Gone]
    /\ mirrorOps = 0 /\ pullFails = 0 /\ deleter = {} /\ uploading = {}

PullAt(p, pc) == transfer[p].status = "running" /\ transfer[p].pc = pc
PullGoes(p, pc) == transfer' = [transfer EXCEPT ![p].pc = pc]
PullEnds(p, status) == transfer' = [transfer EXCEPT ![p].status = status, ![p].pc = "end"]
PullFail == pullFails < MaxPullFails /\ pullFails' = pullFails + 1
Extracting == {p \in Pull : PullAt(p, "unzip")}

----------------------------------------------------------------------------
(* The peer                                                                *)

EditSource ==
    /\ version < MaxVersion /\ version' = version + 1
    /\ UNCHANGED <<snapshot, transfer, tmpZip, left, mirror, mirrorOps, pullFails, deleter, uploading, asked, mixed>>
\* runSnapshot of the peer; it may as well fail, or take for ever.
PeerSnapshots(p) ==
    /\ snapshot[p].status = "running"
    /\ \E status \in {"done", "failed"} :
         snapshot' = [snapshot EXCEPT ![p] = [status |-> status, version |-> version]]
    /\ UNCHANGED <<version, transfer, tmpZip, left, mirror, mirrorOps, pullFails, deleter, uploading, asked, mixed>>
\* Its tasks and tickets are gone.
PeerRestarts ==
    /\ PullFail /\ snapshot' = [p \in Pull |-> [status |-> "none", version |-> 0]]
    /\ UNCHANGED <<version, transfer, tmpZip, left, mirror, mirrorOps, deleter, uploading, asked, mixed>>

----------------------------------------------------------------------------
(* runTransfer                                                             *)

\* handleClusterTransfer
StartPull(p) ==
    /\ transfer[p].status = "none"
    /\ transfer' = [transfer EXCEPT ![p].status = "running"] /\ asked' = [asked EXCEPT ![p] = version]
    /\ UNCHANGED <<peerVars, tmpZip, left, mirror, mirrorOps, pullFails, deleter, uploading, mixed>>

\* A request that is refused or not answered ends the pull, here and below.
AskSnapshot(p) ==
    /\ PullAt(p, "ask")
    /\ \/ /\ snapshot' = [snapshot EXCEPT ![p].status = "running"] /\ PullGoes(p, "poll")
       \/ PullEnds(p, "failed") /\ UNCHANGED snapshot
    /\ UNCHANGED <<version, tmpZip, left, mirror, mirrorOps, pullFails, deleter, uploading, asked, mixed>>

FaultNoDeadline(p) == FALSE

IsOverdue(p) == transfer[p].polls = MaxPolls

\* "done" and "failed" are final; a task that the peer does not know is an error; a
\* running one is asked for again in a second, up to the deadline.
PollSnapshot(p) ==
    /\ PullAt(p, "poll")
    /\ \/ snapshot[p].status = "done" /\ PullGoes(p, "ticket")
       \/ PullEnds(p, "failed")
       \/ /\ snapshot[p].status = "running" /\ ~IsOverdue(p)
          /\ transfer' = [transfer EXCEPT ![p].polls = (@ + 1) % (MaxPolls + 1)]
    /\ UNCHANGED <<peerVars, tmpZip, left, mirror, mirrorOps, pullFails, deleter, uploading, asked, mixed>>
AskTicket(p) ==
    /\ PullAt(p, "ticket")
    /\ \/ snapshot[p].status = "done" /\ PullGoes(p, "fetch")
       \/ PullEnds(p, "failed")
    /\ UNCHANGED <<peerVars, tmpZip, left, mirror, mirrorOps, pullFails, deleter, uploading, asked, mixed>>

Reached == {p \in Pull : PullAt(p, "unzip") \/ transfer[p].status = "done"}
Meets(ps) ==
    mixed' = mixed \cup Reached \cup IF Extracting # {} \/ deleter # {} \/ uploading # {} THEN ps ELSE {}

\* A body that breaks off ends the pull, and what was written stays; one that is over
\* the limit is removed.
FetchZip(p) ==
    /\ PullAt(p, "fetch")
    /\ \/ /\ snapshot[p].status = "done"
          /\ tmpZip' = [tmpZip EXCEPT ![p] = [state |-> "whole", version |-> snapshot[p].version]]
          /\ left' = [left EXCEPT ![p] = Entry] /\ PullGoes(p, "unzip") /\ Meets({p})
       \/ /\ \E rest \in {"absent", "partial"} : tmpZip' = [tmpZip EXCEPT ![p].state = rest]
          /\ PullEnds(p, "failed") /\ UNCHANGED <<left, mixed>>
    /\ UNCHANGED <<peerVars, mirror, mirrorOps, pullFails, deleter, uploading, asked>>

FaultSkipsBadFile(p, e) == left' = [left EXCEPT ![p] = @ \ {e}] /\ UNCHANGED transfer

AfterBadFile(p, e) == PullEnds(p, "failed") /\ UNCHANGED left

\* One file of unzip: os.Create empties what is there, then it is written; what was
\* extracted before a failure stays.
ExtractNext(p, e) ==
    /\ PullAt(p, "unzip") /\ e \in left[p]
    /\ \E whole \in BOOLEAN :
         /\ mirror' = [mirror EXCEPT ![e] = [by |-> p, version |-> tmpZip[p].version, whole |-> whole]]
         /\ IF whole THEN left' = [left EXCEPT ![p] = @ \ {e}] /\ UNCHANGED transfer
            ELSE AfterBadFile(p, e)
    /\ UNCHANGED <<peerVars, tmpZip, mirrorOps, pullFails, deleter, uploading, asked, mixed>>

\* Nobody is told that the archive could not be removed.
FinishPull(p) ==
    /\ PullAt(p, "unzip") /\ left[p] = {} /\ PullEnds(p, "done")
    /\ tmpZip' \in {tmpZip, [tmpZip EXCEPT ![p].state = "absent"]}
    /\ UNCHANGED <<peerVars, left, mirror, mirrorOps, pullFails, deleter, uploading, asked, mixed>>

----------------------------------------------------------------------------
(* This node                                                               *)

\* handleClusterDelete of the directory: os.RemoveAll
StartDelete ==
    /\ deleter = {} /\ mirrorOps < MaxMirrorOps /\ mirrorOps' = mirrorOps + 1
    /\ deleter' = Entry /\ Meets({})
    /\ UNCHANGED <<peerVars, transfer, tmpZip, left, mirror, pullFails, uploading, asked>>
DeleteNext(e) ==
    /\ e \in deleter /\ deleter' = deleter \ {e} /\ mirror' = [mirror EXCEPT ![e] = Gone]
    /\ UNCHANGED <<peerVars, transfer, tmpZip, left, mirrorOps, pullFails, uploading, asked, mixed>>

\* An upload with a ticket of handleClusterUpload: os.Create empties the file, then it is
\* written, to its end or not.
StartMirrorUpload(e) ==
    /\ e \notin uploading /\ mirrorOps < MaxMirrorOps /\ mirrorOps' = mirrorOps + 1
    /\ uploading' = uploading \cup {e} /\ mirror' = [mirror EXCEPT ![e] = Gone] /\ Meets({})
    /\ UNCHANGED <<peerVars, transfer, tmpZip, left, pullFails, deleter, asked>>
EndMirrorUpload(e) ==
    /\ e \in uploading /\ uploading' = uploading \ {e}
    /\ \E file \in {Gone, UploadedFile} : mirror' = [mirror EXCEPT ![e] = file]
    /\ UNCHANGED <<peerVars, transfer, tmpZip, left, mirrorOps, pullFails, deleter, asked, mixed>>

\* The transfers are only in memory, and no start looks for their files.
LoseTransfers ==
    /\ PullFail /\ deleter' = {} /\ uploading' = {}
    /\ transfer' = [p \in Pull |-> IF transfer[p].status = "running"
                                   THEN [transfer[p] EXCEPT !.status = "lost"] ELSE transfer[p]]
    /\ UNCHANGED <<peerVars, tmpZip, left, mirror, mirrorOps, asked, mixed>>

PullStep(p) ==
    \/ AskSnapshot(p) \/ PollSnapshot(p) \/ AskTicket(p) \/ FetchZip(p) \/ FinishPull(p)
    \/ \E e \in Entry : ExtractNext(p, e)

PullsNext ==
    \/ EditSource \/ PeerRestarts \/ StartDelete \/ LoseTransfers
    \/ \E e \in Entry : DeleteNext(e) \/ StartMirrorUpload(e) \/ EndMirrorUpload(e)
    \/ \E p \in Pull : PeerSnapshots(p) \/ StartPull(p) \/ PullStep(p)

\* A request has a timeout (the client's, or the deadline of the polls): each step of a
\* pull is taken some time.  The peer promises nothing.
PullsFairness == \A p \in Pull : WF_pullVars(PullStep(p))
PullsSpec == PullsInit /\ [][PullsNext]_pullVars /\ PullsFairness

----------------------------------------------------------------------------
(* Properties                                                              *)

\* A pull that says it is done has its files in the mirror, all of them whole and of
\* one snapshot, which is not older than the request, if no other pull, no deletion and
\* no upload met it there.
PullIsWhole ==
    \A p \in Pull \ mixed : transfer[p].status = "done" =>
        \E v \in asked[p]..MaxVersion : \A e \in Entry : mirror[e] = [by |-> p, version |-> v, whole |-> TRUE]

PullsHold == PullIsWhole

\* Every pull ends, whatever the peer does (pollDeadline, cluster.go:719).
PullsEnd == \A p \in Pull : transfer[p].status = "running" ~> transfer[p].status # "running"

----------------------------------------------------------------------------
(* What a reader would expect and the code does not keep: a failed pull    *)
(* leaves its archive, as a done one does that could not remove it, and    *)
(* the files it has extracted among the old ones.                          *)

EndedLeavesNoZip == \A p \in Pull : transfer[p].status \in {"done", "failed"} => tmpZip[p].state = "absent"
FailedLeavesMirror == \A e \in Entry : mirror[e] = Gone \/ mirror[e].whole
=============================================================================
