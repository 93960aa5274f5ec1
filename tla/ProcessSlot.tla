---------------------------- MODULE ProcessSlot ----------------------------
(***************************************************************************)
(* What the node promises of the processes of one instance, without saying *)
(* how: a slot that holds at most one running process, the record file     *)
(* that names the process for the next start of the node, and a drain      *)
(* after which nothing is spawned any more.  InstanceLifecycle implements  *)
(* it.  The promise of a single process is void once the slot is broken,   *)
(* which is where the implementation's Busy flag fails to exclude two      *)
(* operations.                                                             *)
(***************************************************************************)
CONSTANTS Proc, None

VARIABLES
    running,    \* the processes that run
    used,       \* the processes ever spawned
    recorded,   \* the process the record file names, or None
    drained,    \* no start is in progress and none will be admitted
    broken      \* the exclusion has failed at some time

slotVars == <<running, used, recorded, drained, broken>>

SlotInit ==
    /\ running = {} /\ used = {} /\ recorded = None
    /\ drained = FALSE /\ broken = FALSE

\* A fresh process starts, in an empty slot unless the slot is broken.
Spawn(p) ==
    /\ ~drained
    /\ p \notin used
    /\ broken \/ running = {}
    /\ running' = running \cup {p}
    /\ used' = used \cup {p}
    /\ UNCHANGED <<recorded, drained, broken>>

Exit(p) ==
    /\ p \in running
    /\ running' = running \ {p}
    /\ UNCHANGED <<used, recorded, drained, broken>>

\* The record file is replaced as a whole.
Record(p) ==
    /\ p \in used
    /\ recorded' = p
    /\ UNCHANGED <<running, used, drained, broken>>

\* The record file goes away only when its process does not run.
Forget ==
    /\ recorded \notin running
    /\ recorded' = None
    /\ UNCHANGED <<running, used, drained, broken>>

Drain ==
    /\ drained' = TRUE
    /\ UNCHANGED <<running, used, recorded, broken>>

Break ==
    /\ broken' = TRUE
    /\ UNCHANGED <<running, used, recorded, drained>>

SlotNext ==
    \/ \E p \in Proc : Spawn(p) \/ Exit(p) \/ Record(p)
    \/ Forget \/ Drain \/ Break

SlotSpec == SlotInit /\ [][SlotNext]_slotVars
============================================================================
