------------------------------ MODULE TaskTable ------------------------------
(***************************************************************************)
(* The table of background tasks (taskStore): backups, restores and        *)
(* installations put a task into it, their goroutine reports to the task,  *)
(* clients ask by its id.  A full table drops tasks when another is made,  *)
(* a loop drops those that ended and are old; the goroutine of a dropped   *)
(* task goes on and reports to an object that nobody finds any more.       *)
(***************************************************************************)
EXTENDS Naturals, FiniteSets, SequencesExt

CONSTANTS
    Task,       \* task ids
    MaxTasks,   \* maxTasks
    TaskTTL,    \* taskTTL, in ticks
    MaxTaskTime \* bound of the clock

ASSUME TaskAssumption == MaxTasks \in Nat \ {0} /\ TaskTTL \in Nat /\ MaxTaskTime \in Nat

VARIABLES
    tasks,     \* taskStore.tasks: the ids in the table
    order,     \* taskStore.order
    report,    \* task.status of every task there ever was
    madeAt,    \* task.createdAt
    endedAt,   \* history
    taskNow,
    evicted,   \* history: tasks that a full table has dropped
    sweptRunning, \* history: tasks that the loop has dropped before they ended
    newerKept     \* history: a full table has kept an old task that had ended, and dropped another

taskVars == <<tasks, order, report, madeAt, endedAt, taskNow, evicted, sweptRunning, newerKept>>

Reports == {"none", "running", "done", "failed"}

TasksTypeOK ==
    /\ {tasks, evicted, sweptRunning} \subseteq SUBSET Task /\ newerKept \in BOOLEAN
    /\ order \in Seq(Task) /\ report \in [Task -> Reports]
    /\ {madeAt, endedAt} \subseteq [Task -> 0..MaxTaskTime] /\ taskNow \in 0..MaxTaskTime

TasksInit ==
    /\ tasks = {} /\ order = <<>> /\ evicted = {} /\ sweptRunning = {} /\ newerKept = FALSE
    /\ report = [i \in Task |-> "none"] /\ taskNow = 0
    /\ madeAt = [i \in Task |-> 0] /\ endedAt = [i \in Task |-> 0]

Ended(i) == report[i] \in {"done", "failed"}

FaultExpiresRunning(i) == taskNow - madeAt[i] > TaskTTL

\* Counted from the creation of the task, not from its end.
Expired(i) == Ended(i) /\ taskNow - madeAt[i] > TaskTTL

\* The places of order at which a full table looks first: the oldest task that has
\* expired, or an id that the table does not have.
FirstToGo ==
    LET gone == {k \in 1..Len(order) : order[k] \notin tasks \/ Expired(order[k])}
    IN  {k \in gone : \A l \in gone : k <= l}

\* What goes to make room, as places of order: the first to go, or else, or if the
\* table is full all the same, the oldest.
Victims ==
    IF Cardinality(tasks) < MaxTasks THEN {}
    ELSE FirstToGo \cup (IF \E k \in FirstToGo : order[k] \in tasks THEN {}
                         ELSE {k \in 1..Len(order) : k \notin FirstToGo
                                 /\ \A l \in 1..Len(order) : l \notin FirstToGo => k <= l})

FaultLeavesId(places) == order

\* order without what goes.
OrderWithout(places) ==
    LET stay == {k \in 1..Len(order) : k \notin places}
    IN  [n \in 1..Cardinality(stay) |->
            order[CHOOSE k \in stay : Cardinality({l \in stay : l < k}) = n - 1]]

\* taskStore.create
CreateTask(i) ==
    /\ report[i] = "none"
    /\ LET dropped == {order[k] : k \in Victims}
       IN  /\ tasks' = (tasks \ dropped) \cup {i}
           /\ order' = Append(OrderWithout(Victims), i)
           /\ evicted' = evicted \cup {o \in dropped : ~Expired(o)}
           /\ newerKept' = (newerKept \/ \E o \in dropped : ~Expired(o) /\ \E k \in tasks \ dropped : Expired(k))
    /\ report' = [report EXCEPT ![i] = "running"]
    /\ madeAt' = [madeAt EXCEPT ![i] = taskNow]
    /\ UNCHANGED <<endedAt, taskNow, sweptRunning>>

\* task.set and task.setError, by the goroutine of the task.
EndTask(i) ==
    /\ report[i] = "running"
    /\ \E r \in {"done", "failed"} : report' = [report EXCEPT ![i] = r]
    /\ endedAt' = [endedAt EXCEPT ![i] = taskNow]
    /\ UNCHANGED <<tasks, order, madeAt, taskNow, evicted, sweptRunning, newerKept>>

\* cleanupOnce
CleanupTasks ==
    /\ \E i \in tasks : Expired(i)
    /\ LET old == {i \in tasks : Expired(i)}
       IN  /\ tasks' = tasks \ old
           /\ order' = OrderWithout({k \in DOMAIN order : order[k] \notin tasks \ old})
           /\ sweptRunning' = sweptRunning \cup {i \in old : ~Ended(i)}
    /\ UNCHANGED <<report, madeAt, endedAt, taskNow, evicted, newerKept>>

TaskTick ==
    /\ taskNow < MaxTaskTime /\ taskNow' = taskNow + 1
    /\ UNCHANGED <<tasks, order, report, madeAt, endedAt, evicted, sweptRunning, newerKept>>

TasksNext ==
    \/ CleanupTasks \/ TaskTick
    \/ \E i \in Task : CreateTask(i) \/ EndTask(i)

TasksSpec == TasksInit /\ [][TasksNext]_taskVars

----------------------------------------------------------------------------
(* Properties                                                              *)

\* order lists what the table holds, once each and the oldest first: an id that is
\* only in one of them stops the node (a nil task) or is never dropped.
OrderIsTheTable ==
    /\ ToSet(order) = tasks /\ IsInjective(order)
    /\ \A k, l \in DOMAIN order : k < l => madeAt[order[k]] <= madeAt[order[l]]

\* A client that knows the id of a task finds it while it runs, and after its end
\* until the time of a task has passed since it was made, but for the tasks that a
\* full table has dropped.
RunningTasksAreFound == \A i \in Task \ evicted : report[i] = "running" => i \in tasks
EndedTasksAreFound ==
    \A i \in Task \ evicted : Ended(i) /\ taskNow - madeAt[i] <= TaskTTL => i \in tasks

\* The table stays within its maximum, and drops a task that is of use only when it
\* has none that is not.
TableIsBounded == Cardinality(tasks) <= MaxTasks /\ ~newerKept

TasksHold == OrderIsTheTable /\ RunningTasksAreFound /\ EndedTasksAreFound /\ TableIsBounded

----------------------------------------------------------------------------
(* What the code means to keep and does not.  taskTTL is called how long a *)
(* task is kept after it has ended; one that has run for longer than that  *)
(* is dropped as soon as it ends.                                          *)

ResultsStayForTTL ==
    \A i \in Task \ evicted : Ended(i) /\ taskNow - endedAt[i] <= TaskTTL => i \in tasks
=============================================================================
