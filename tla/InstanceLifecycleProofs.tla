---------------------- MODULE InstanceLifecycleProofs ----------------------
(***************************************************************************)
(* Proofs about InstanceLifecycle, for any number of requests, any set of  *)
(* operations and failures, and any bound on the processes; and, after     *)
(* them, about the log a process writes to (FileLogger), for any number of *)
(* files, any size, any queue and any number of failures.                  *)
(***************************************************************************)
EXTENDS InstanceLifecycle, FileLogger, TLAPS

----------------------------------------------------------------------------
(* Names of goroutines, process generations and labels.                    *)

\* The main goroutine is none of the others, NoProc is no generation, and the
\* watchers are goroutines.
LEMMA ThreadFacts ==
    /\ Main \notin Thread
    /\ Main \notin Pid \cup {NoProc}
    /\ NoProc \notin Pid
    /\ NoProc \notin Thread
    /\ Pid \subseteq Thread
    /\ Request \subseteq Thread
    /\ Boot \in Thread
    /\ Boot \notin Pid /\ Boot \notin Request
    /\ \A p \in Pid : p \notin Request
  BY MaxProcsAssumption, ThreadsAssumption DEF Thread, Pid, NoProc

----------------------------------------------------------------------------
(* Type correctness.                                                       *)

\* The initial state is well typed: NewInstance and a node that has just booted.
LEMMA TypeInit == Init => TypeOK
  BY ThreadFacts, ZenonT(60) DEF Init, TypeOK, Status, Label, StartLabel, MainLabel

\* No critical section of startInstance takes a variable out of its type.
LEMMA TypeStart ==
    ASSUME TypeOK, NEW t \in Thread, Start(t)
    PROVE  TypeOK'
  <1> USE ThreadFacts DEF TypeOK, inst, history, Goto, GotoWith, Finish, ClearBusy,
          Status, Label, StartLabel, WatchLabel
  <1>1. CASE StartEnter(t)
    BY <1>1 DEF StartEnter
  <1>2. CASE StartClaim(t)
    <2>1. CASE UNCHANGED inst
      BY <1>2, <2>1 DEF StartClaim
    <2>2. CASE /\ busy' = TRUE /\ status' = "starting"
               /\ Goto(t, "spawn") /\ UNCHANGED <<proc, listed, gate>>
      BY <1>2, <2>2 DEF StartClaim
    <2> QED
      BY <1>2, <2>1, <2>2, Zenon DEF StartClaim
  <1>3. CASE StartSpawn(t)
    BY <1>3 DEF StartSpawn
  <1>4. CASE StartRecord(t)
    BY <1>4 DEF StartRecord, IsRunning
  <1>5. CASE StartKillNew(t)
    BY <1>5 DEF StartKillNew
  <1>6. CASE StartPublish(t)
    BY <1>6 DEF StartPublish
  <1>7. CASE StartRunning(t)
    BY <1>7 DEF StartRunning
  <1>8. CASE StartRelease(t)
    BY <1>8 DEF StartRelease
  <1>9. CASE StartWatch(t)
    BY <1>9 DEF StartWatch
  <1>10. CASE StartReturn(t)
    BY <1>10 DEF StartReturn
  <1> QED
    BY <1>1, <1>2, <1>3, <1>4, <1>5, <1>6, <1>7, <1>8, <1>9, <1>10 DEF Start

\* Nor does one of stopInstance,
LEMMA TypeStop ==
    ASSUME TypeOK, NEW t \in Thread, Stop(t)
    PROVE  TypeOK'
  <1> USE ThreadFacts DEF TypeOK, inst, history, Goto, GotoWith, GotoNoRestart, Finish,
          StartOrFinish, ClearBusy, Forgotten, IsRunning, Status, Label, StartLabel, StopLabel
  <1>1. CASE StopDetach(t)
    <2>1. CASE UNCHANGED <<inst, intent>>
      BY <1>1, <2>1 DEF StopDetach
    <2>2. CASE /\ busy' = TRUE /\ status' = "stopping" /\ proc' = NoProc
               /\ proc \in Pid /\ intent' = intent \cup {proc}
               /\ GotoWith(t, "stopping", proc) /\ UNCHANGED listed
      BY <1>1, <2>2 DEF StopDetach
    <2> QED
      BY <1>1, <2>1, <2>2, Zenon DEF StopDetach
  <1>2. CASE StopWait(t)
    BY <1>2 DEF StopWait
  <1>3. CASE StopReattach(t)
    BY <1>3 DEF StopReattach
  <1>4. CASE StopForget(t)
    BY <1>4 DEF StopForget
  <1>5. CASE StopStopped(t)
    BY <1>5 DEF StopStopped
  <1>6. CASE StopRelease(t)
    BY <1>6 DEF StopRelease
  <1> QED
    BY <1>1, <1>2, <1>3, <1>4, <1>5, <1>6 DEF Stop

\* ... of handleInstanceKill,
LEMMA TypeKill ==
    ASSUME TypeOK, NEW t \in Thread, Kill(t)
    PROVE  TypeOK'
  <1> USE ThreadFacts DEF TypeOK, inst, history, Goto, GotoWith, GotoNoRestart, Finish,
          StartOrFinish, ClearBusy, Forgotten, IsRunning, Status, Label, KillLabel
  <1>1. CASE KillStatus(t)
    BY <1>1 DEF KillStatus
  <1>2. CASE KillDetach(t)
    BY <1>2 DEF KillDetach
  <1>3. CASE KillWait(t)
    BY <1>3 DEF KillWait
  <1>4. CASE KillRestore(t)
    BY <1>4 DEF KillRestore
  <1>5. CASE KillRestored(t)
    BY <1>5 DEF KillRestored
  <1>6. CASE KillForget(t)
    BY <1>6 DEF KillForget
  <1>7. CASE KillDone(t)
    BY <1>7 DEF KillDone
  <1> QED
    BY <1>1, <1>2, <1>3, <1>4, <1>5, <1>6, <1>7 DEF Kill

\* ... of Daemon.Remove,
LEMMA TypeRemove ==
    ASSUME TypeOK, NEW t \in Thread, Remove(t)
    PROVE  TypeOK'
  <1> USE ThreadFacts DEF TypeOK, inst, history, Goto, GotoWith, GotoNoRestart, Finish,
          StartOrFinish, ClearBusy, Forgotten, IsRunning, Status, Label, RemoveLabel
  <1>1. CASE RemoveRead(t)
    BY <1>1 DEF RemoveRead
  <1>2. CASE RemoveKill(t)
    BY <1>2 DEF RemoveKill
  <1>3. CASE RemoveForget(t)
    BY <1>3 DEF RemoveForget
  <1>4. CASE RemoveUnlist(t)
    BY <1>4 DEF RemoveUnlist
  <1> QED
    BY <1>1, <1>2, <1>3, <1>4 DEF Remove

\* ... of the exit watcher,
LEMMA TypeWatch ==
    ASSUME TypeOK, NEW t \in Thread, Watch(t)
    PROVE  TypeOK'
  <1> USE ThreadFacts DEF TypeOK, inst, history, Goto, GotoWith, GotoNoRestart, Finish,
          StartOrFinish, ClearBusy, Forgotten, IsRunning, Status, Label, StartLabel, WatchLabel
  <1>1. CASE WatchWait(t)
    BY <1>1 DEF WatchWait
  <1>2. CASE WatchForget(t)
    BY <1>2 DEF WatchForget
  <1>3. CASE WatchCheck(t)
    BY <1>3 DEF WatchCheck
  <1> QED
    BY <1>1, <1>2, <1>3 DEF Watch

\* ... or of nodeRuntime.shutdown with stopAll.
LEMMA TypeShutdown ==
    ASSUME TypeOK, ShutdownSealHTTP \/ ShutdownStep
    PROVE  TypeOK'
  <1> USE ThreadFacts DEF TypeOK, inst, history, Goto, GotoWith, Forgotten, IsRunning,
          Status, MainLabel
  <1>1. CASE ShutdownSealHTTP
    BY <1>1 DEF ShutdownSealHTTP
  <1>2. CASE ShutdownSealStarts
    BY <1>2 DEF ShutdownSealStarts
  <1>3. CASE ShutdownDrain
    BY <1>3 DEF ShutdownDrain
  <1>4. CASE StopAllDetach
    BY <1>4 DEF StopAllDetach
  <1>5. CASE StopAllWait
    <2>1. CASE shutdownErr' = shutdownErr
      BY <1>5, <2>1 DEF StopAllWait
    <2>2. CASE shutdownErr' = TRUE /\ Goto(Main, "allStatus")
      BY <1>5, <2>2 DEF StopAllWait
    <2> QED
      BY <1>5, <2>1, <2>2, Zenon DEF StopAllWait
  <1>6. CASE StopAllForget
    BY <1>6 DEF StopAllForget
  <1>7. CASE StopAllStatus
    BY <1>7 DEF StopAllStatus
  <1>8. CASE ShutdownWaitWatchers
    BY <1>8 DEF ShutdownWaitWatchers
  <1> QED
    BY <1>1, <1>2, <1>3, <1>4, <1>5, <1>6, <1>7, <1>8 DEF ShutdownStep

\* Every step keeps the types.
LEMMA TypeStep ==
    ASSUME TypeOK, [Next]_vars
    PROVE  TypeOK'
  <1>1. CASE \E r \in Request, o \in Ops : Begin(r, o)
    <2>1. PICK r \in Request, o \in Ops : Begin(r, o)
      BY <1>1
    <2>2. FirstLabel[o] \in Label
      BY ConfigAssumption DEF FirstLabel, Label, StartLabel, StopLabel, KillLabel, RemoveLabel
    <2> QED
      BY <2>1, <2>2, ThreadFacts DEF Begin, TypeOK, inst, history
  <1>2. CASE \E t \in Thread : Step(t)
    BY <1>2, TypeStart, TypeStop, TypeKill, TypeRemove, TypeWatch DEF Step
  <1>3. CASE \E p \in Pid : Exit(p)
    BY <1>3 DEF Exit, TypeOK, inst, threads, history
  <1>4. CASE ShutdownSealHTTP \/ ShutdownStep
    BY <1>4, TypeShutdown
  <1>5. CASE UNCHANGED vars
    BY <1>5 DEF TypeOK, vars
  <1> QED
    BY <1>1, <1>2, <1>3, <1>4, <1>5 DEF Next, Terminated

\* Every variable keeps its type.
THEOREM TypeCorrect == Spec => []TypeOK
  <1>1. Init => TypeOK
    BY TypeInit
  <1>2. TypeOK /\ [Next]_vars => TypeOK'
    BY TypeStep
  <1> QED
    BY <1>1, <1>2, PTL DEF Spec

----------------------------------------------------------------------------
(* The gate of startInstance and the drain.                                *)

\* A goroutine past "enter" in startInstance is counted by processStarts.
\* Watchers and the boot goroutine only ever watch and start.  So once both
\* gates are drained, nobody is inside an operation.
GateInv ==
    /\ \A t \in Thread : pc[t] \in StartLabel \ {"enter"} => t \in gate
    /\ \A t \in Thread \ Request : pc[t] \in {"idle"} \cup StartLabel \cup WatchLabel
    /\ \A r \in Request : pc[r] \notin WatchLabel
    /\ restarting \subseteq Request
    /\ Drained => gate = {} /\ \A r \in Request : pc[r] = "idle"

\* At boot nobody is inside a gate.
LEMMA GateInit == Init => GateInv
  BY ThreadFacts DEF Init, GateInv, StartLabel, WatchLabel, Drained

\* Every step keeps the gate of startInstance and what its drain promises.
LEMMA GateStep ==
    ASSUME TypeOK, GateInv, [Next]_vars
    PROVE  GateInv'
  <1> USE ThreadFacts DEF TypeOK, GateInv, Drained, StartLabel, WatchLabel,
          inst, history, Goto, GotoWith, GotoNoRestart, Finish,
          StartOrFinish
  <1>1. ASSUME NEW r \in Request, NEW o \in Ops, Begin(r, o)
        PROVE  GateInv'
    <2>1. FirstLabel[o] \in {"enter", "detach", "killStatus", "rmRead"}
      BY ConfigAssumption DEF FirstLabel
    <2> QED
      BY <1>1, <2>1 DEF Begin, HTTPOpen
  <1>2. ASSUME NEW t \in Thread, Start(t)
        PROVE  GateInv'
    <2>1. CASE StartEnter(t)
      BY <2>1 DEF StartEnter, StartsOpen
    <2>2. CASE StartClaim(t)
      BY <2>2 DEF StartClaim
    <2>3. CASE StartSpawn(t)
      BY <2>3 DEF StartSpawn
    <2>4. CASE StartRecord(t)
      BY <2>4 DEF StartRecord
    <2>5. CASE StartKillNew(t)
      BY <2>5 DEF StartKillNew
    <2>6. CASE StartPublish(t)
      BY <2>6 DEF StartPublish
    <2>7. CASE StartRunning(t)
      BY <2>7 DEF StartRunning
    <2>8. CASE StartRelease(t)
      BY <2>8 DEF StartRelease
    <2>9. CASE StartWatch(t)
      BY <2>9 DEF StartWatch
    <2>10. CASE StartReturn(t)
      BY <2>10 DEF StartReturn
    <2> QED
      BY <1>2, <2>1, <2>2, <2>3, <2>4, <2>5, <2>6, <2>7, <2>8, <2>9, <2>10 DEF Start
  <1>3. ASSUME NEW t \in Thread, Stop(t)
        PROVE  GateInv'
    <2>1. CASE StopDetach(t)
      BY <2>1 DEF StopDetach
    <2>2. CASE StopWait(t)
      BY <2>2 DEF StopWait
    <2>3. CASE StopReattach(t)
      BY <2>3 DEF StopReattach
    <2>4. CASE StopForget(t)
      BY <2>4 DEF StopForget
    <2>5. CASE StopStopped(t)
      BY <2>5 DEF StopStopped
    <2>6. CASE StopRelease(t)
      BY <2>6 DEF StopRelease
    <2> QED
      BY <1>3, <2>1, <2>2, <2>3, <2>4, <2>5, <2>6 DEF Stop
  <1>4. ASSUME NEW t \in Thread, Kill(t)
        PROVE  GateInv'
    <2>1. CASE KillStatus(t)
      BY <2>1 DEF KillStatus
    <2>2. CASE KillDetach(t)
      BY <2>2 DEF KillDetach
    <2>3. CASE KillWait(t)
      BY <2>3 DEF KillWait
    <2>4. CASE KillRestore(t)
      BY <2>4 DEF KillRestore
    <2>5. CASE KillRestored(t)
      BY <2>5 DEF KillRestored
    <2>6. CASE KillForget(t)
      BY <2>6 DEF KillForget
    <2>7. CASE KillDone(t)
      BY <2>7 DEF KillDone
    <2> QED
      BY <1>4, <2>1, <2>2, <2>3, <2>4, <2>5, <2>6, <2>7 DEF Kill
  <1>5. ASSUME NEW t \in Thread, Remove(t)
        PROVE  GateInv'
    <2>1. CASE RemoveRead(t)
      BY <2>1 DEF RemoveRead
    <2>2. CASE RemoveKill(t)
      BY <2>2 DEF RemoveKill
    <2>3. CASE RemoveForget(t)
      BY <2>3 DEF RemoveForget
    <2>4. CASE RemoveUnlist(t)
      BY <2>4 DEF RemoveUnlist
    <2> QED
      BY <1>5, <2>1, <2>2, <2>3, <2>4 DEF Remove
  <1>6. ASSUME NEW p \in Pid, Watch(p)
        PROVE  GateInv'
    <2>1. CASE WatchWait(p)
      BY <2>1 DEF WatchWait
    <2>2. CASE WatchForget(p)
      BY <2>2 DEF WatchForget
    <2>3. CASE WatchCheck(p)
      BY <2>3 DEF WatchCheck
    <2> QED
      BY <1>6, <2>1, <2>2, <2>3 DEF Watch
  <1>7. ASSUME NEW p \in Pid, Exit(p)
        PROVE  GateInv'
    BY <1>7 DEF Exit, threads
  <1>8. CASE ShutdownSealHTTP \/ ShutdownStep
    <2>1. CASE ShutdownSealHTTP
      BY <2>1 DEF ShutdownSealHTTP
    <2>2. CASE ShutdownSealStarts
      BY <2>2 DEF ShutdownSealStarts
    <2>3. CASE ShutdownDrain
      BY <2>3 DEF ShutdownDrain
    <2>4. CASE StopAllDetach
      BY <2>4 DEF StopAllDetach
    <2>5. CASE StopAllWait
      BY <2>5 DEF StopAllWait
    <2>6. CASE StopAllForget
      BY <2>6 DEF StopAllForget
    <2>7. CASE StopAllStatus
      BY <2>7 DEF StopAllStatus
    <2>8. CASE ShutdownWaitWatchers
      BY <2>8 DEF ShutdownWaitWatchers
    <2> QED
      BY <1>8, <2>1, <2>2, <2>3, <2>4, <2>5, <2>6, <2>7, <2>8 DEF ShutdownStep
  <1>9. CASE UNCHANGED vars
    BY <1>9 DEF vars
  <1> QED
    BY <1>1, <1>2, <1>3, <1>4, <1>5, <1>6, <1>7, <1>8, <1>9 DEF Next, Step, Terminated

----------------------------------------------------------------------------
(* Where the processes are.                                                *)

\* startInstance has the process and has not published it.
Fresh == {"record", "killnew", "publish"}

\* The goroutine's local variable is the only reference to its process.
Owning == Fresh \cup {"stopping", "reattach"}

\* The goroutine's local variable names a process.
Carrying == Owning \cup {"running", "release", "watch", "stopForget", "killing",
                         "killRestore", "killForget", "rmKill", "rmForget"}

\* Main's stopAll has detached the instance.
AfterStopAll == {"allStopping", "allForget", "allStatus", "waitWatchers", "down"}

\* Every reference names a process that has been started; watchers belong to
\* started processes; the record is deleted by goroutines that have seen the
\* process end.
RefInv ==
    /\ proc # NoProc => pstate[proc] # "none"
    /\ record # NoProc => pstate[record] # "none"
    /\ \A t \in Thread \cup {Main} : mine[t] # NoProc => pstate[mine[t]] # "none"
    /\ \A t \in Thread : pc[t] \in Carrying => mine[t] # NoProc
    /\ pc[Main] \in {"allStopping", "allForget"} => mine[Main] # NoProc
    /\ \A p \in Pid : pc[p] # "idle" => pstate[p] # "none"
    /\ \A t \in Thread : pc[t] \in {"stopForget", "killForget", "rmForget"}
                            => pstate[mine[t]] = "done"
    /\ \A p \in Pid : pc[p] = "wForget" => pstate[p] = "done"
    /\ pc[Main] = "allForget" => pstate[mine[Main]] = "done"

\* At boot nothing refers to a process.
LEMMA RefInit == Init => RefInv
  BY ThreadFacts DEF Init, RefInv, Carrying, Owning, Fresh

\* Every step keeps references, watchers and pending record deletions sound.
LEMMA RefStep ==
    ASSUME TypeOK, GateInv, RefInv, [Next]_vars
    PROVE  RefInv'
  <1> USE ThreadFacts DEF TypeOK, RefInv, Carrying, Owning, Fresh, IsRunning, Forgotten,
          inst, history, Goto, GotoWith, GotoNoRestart, Finish,
          StartOrFinish
  <1>1. ASSUME NEW r \in Request, NEW o \in Ops, Begin(r, o)
        PROVE  RefInv'
    <2>1. FirstLabel[o] \in {"enter", "detach", "killStatus", "rmRead"}
      BY ConfigAssumption DEF FirstLabel
    <2> QED
      BY <1>1, <2>1 DEF Begin
  <1>2. ASSUME NEW t \in Thread, Start(t)
        PROVE  RefInv'
    <2>1. CASE StartEnter(t)
      BY <2>1 DEF StartEnter
    <2>2. CASE StartClaim(t)
      BY <2>2 DEF StartClaim
    <2>3. CASE StartSpawn(t)
      BY <2>3 DEF StartSpawn
    <2>4. CASE StartRecord(t)
      BY <2>4 DEF StartRecord
    <2>5. CASE StartKillNew(t)
      BY <2>5 DEF StartKillNew
    <2>6. CASE StartPublish(t)
      BY <2>6 DEF StartPublish
    <2>7. CASE StartRunning(t)
      BY <2>7 DEF StartRunning
    <2>8. CASE StartRelease(t)
      BY <2>8 DEF StartRelease
    <2>9. CASE StartWatch(t)
      BY <2>9 DEF StartWatch
    <2>10. CASE StartReturn(t)
      BY <2>10 DEF StartReturn
    <2> QED
      BY <1>2, <2>1, <2>2, <2>3, <2>4, <2>5, <2>6, <2>7, <2>8, <2>9, <2>10 DEF Start
  <1>3. ASSUME NEW t \in Thread, Stop(t)
        PROVE  RefInv'
    <2>1. CASE StopDetach(t)
      BY <2>1 DEF StopDetach
    <2>2. CASE StopWait(t)
      BY <2>2 DEF StopWait
    <2>3. CASE StopReattach(t)
      BY <2>3 DEF StopReattach
    <2>4. CASE StopForget(t)
      BY <2>4 DEF StopForget
    <2>5. CASE StopStopped(t)
      BY <2>5 DEF StopStopped
    <2>6. CASE StopRelease(t)
      BY <2>6 DEF StopRelease
    <2> QED
      BY <1>3, <2>1, <2>2, <2>3, <2>4, <2>5, <2>6 DEF Stop
  <1>4. ASSUME NEW t \in Thread, Kill(t)
        PROVE  RefInv'
    <2>1. CASE KillStatus(t)
      BY <2>1 DEF KillStatus
    <2>2. CASE KillDetach(t)
      BY <2>2 DEF KillDetach
    <2>3. CASE KillWait(t)
      BY <2>3 DEF KillWait
    <2>4. CASE KillRestore(t)
      BY <2>4 DEF KillRestore
    <2>5. CASE KillRestored(t)
      BY <2>5 DEF KillRestored
    <2>6. CASE KillForget(t)
      BY <2>6 DEF KillForget
    <2>7. CASE KillDone(t)
      BY <2>7 DEF KillDone
    <2> QED
      BY <1>4, <2>1, <2>2, <2>3, <2>4, <2>5, <2>6, <2>7 DEF Kill
  <1>5. ASSUME NEW t \in Thread, Remove(t)
        PROVE  RefInv'
    <2>1. CASE RemoveRead(t)
      BY <2>1 DEF RemoveRead
    <2>2. CASE RemoveKill(t)
      BY <2>2 DEF RemoveKill
    <2>3. CASE RemoveForget(t)
      BY <2>3 DEF RemoveForget
    <2>4. CASE RemoveUnlist(t)
      BY <2>4 DEF RemoveUnlist
    <2> QED
      BY <1>5, <2>1, <2>2, <2>3, <2>4 DEF Remove
  <1>6. ASSUME NEW p \in Pid, Watch(p)
        PROVE  RefInv'
    <2>1. CASE WatchWait(p)
      BY <2>1 DEF WatchWait
    <2>2. CASE WatchForget(p)
      BY <2>2 DEF WatchForget
    <2>3. CASE WatchCheck(p)
      BY <2>3 DEF WatchCheck
    <2> QED
      BY <1>6, <2>1, <2>2, <2>3 DEF Watch
  <1>7. ASSUME NEW p \in Pid, Exit(p)
        PROVE  RefInv'
    BY <1>7 DEF Exit, threads
  <1>8. CASE ShutdownSealHTTP \/ ShutdownStep
    <2>1. CASE ShutdownSealHTTP
      BY <2>1 DEF ShutdownSealHTTP
    <2>2. CASE ShutdownSealStarts
      BY <2>2 DEF ShutdownSealStarts
    <2>3. CASE ShutdownDrain
      BY <2>3 DEF ShutdownDrain
    <2>4. CASE StopAllDetach
      BY <2>4 DEF StopAllDetach
    <2>5. CASE StopAllWait
      BY <2>5 DEF StopAllWait
    <2>6. CASE StopAllForget
      BY <2>6 DEF StopAllForget
    <2>7. CASE StopAllStatus
      BY <2>7 DEF StopAllStatus
    <2>8. CASE ShutdownWaitWatchers
      BY <2>8 DEF ShutdownWaitWatchers
    <2> QED
      BY <1>8, <2>1, <2>2, <2>3, <2>4, <2>5, <2>6, <2>7, <2>8 DEF ShutdownStep
  <1>9. CASE UNCHANGED vars
    BY <1>9 DEF vars
  <1> QED
    BY <1>1, <1>2, <1>3, <1>4, <1>5, <1>6, <1>7, <1>8, <1>9 DEF Next, Step, Terminated

----------------------------------------------------------------------------
(* What stopAll leaves behind.                                             *)

\* Before stopAll, Main holds no process.  Afterwards it holds the one it took
\* from the instance, which by then has none, and has either seen it end or
\* reported an error.
MainInv ==
    /\ pc[Main] \notin AfterStopAll => mine[Main] = NoProc
    /\ pc[Main] \in AfterStopAll =>
          /\ mine[Main] # NoProc => proc = NoProc
          /\ listed => proc = NoProc
          /\ pc[Main] # "allStopping" /\ ~shutdownErr => ~IsRunning(mine[Main])

\* At boot the main goroutine holds no process.
LEMMA MainInit == Init => MainInv
  BY ThreadFacts DEF Init, MainInv, AfterStopAll

\* Every step keeps what stopAll relies on: what it detached stays detached.
LEMMA MainStep ==
    ASSUME TypeOK, GateInv, RefInv, MainInv, [Next]_vars
    PROVE  MainInv'
  <1> USE ThreadFacts DEF TypeOK, GateInv, RefInv, MainInv, AfterStopAll, IsRunning,
          Drained, StartLabel, WatchLabel, inst, history, Goto, GotoWith, GotoNoRestart, Finish,
          StartOrFinish
  <1>1. ASSUME NEW r \in Request, NEW o \in Ops, Begin(r, o)
        PROVE  MainInv'
    <2>1. FirstLabel[o] \in {"enter", "detach", "killStatus", "rmRead"}
      BY ConfigAssumption DEF FirstLabel
    <2> QED
      BY <1>1, <2>1 DEF Begin
  <1>2. ASSUME NEW t \in Thread, Start(t)
        PROVE  MainInv'
    <2>1. CASE StartEnter(t)
      BY <2>1 DEF StartEnter
    <2>2. CASE StartClaim(t)
      BY <2>2 DEF StartClaim
    <2>3. CASE StartSpawn(t)
      BY <2>3 DEF StartSpawn
    <2>4. CASE StartRecord(t)
      BY <2>4 DEF StartRecord
    <2>5. CASE StartKillNew(t)
      BY <2>5 DEF StartKillNew
    <2>6. CASE StartPublish(t)
      BY <2>6 DEF StartPublish
    <2>7. CASE StartRunning(t)
      BY <2>7 DEF StartRunning
    <2>8. CASE StartRelease(t)
      BY <2>8 DEF StartRelease
    <2>9. CASE StartWatch(t)
      BY <2>9 DEF StartWatch
    <2>10. CASE StartReturn(t)
      BY <2>10 DEF StartReturn
    <2> QED
      BY <1>2, <2>1, <2>2, <2>3, <2>4, <2>5, <2>6, <2>7, <2>8, <2>9, <2>10 DEF Start
  <1>3. ASSUME NEW t \in Thread, Stop(t)
        PROVE  MainInv'
    <2>1. CASE StopDetach(t)
      BY <2>1 DEF StopDetach
    <2>2. CASE StopWait(t)
      BY <2>2 DEF StopWait
    <2>3. CASE StopReattach(t)
      BY <2>3 DEF StopReattach
    <2>4. CASE StopForget(t)
      BY <2>4 DEF StopForget
    <2>5. CASE StopStopped(t)
      BY <2>5 DEF StopStopped
    <2>6. CASE StopRelease(t)
      BY <2>6 DEF StopRelease
    <2> QED
      BY <1>3, <2>1, <2>2, <2>3, <2>4, <2>5, <2>6 DEF Stop
  <1>4. ASSUME NEW t \in Thread, Kill(t)
        PROVE  MainInv'
    <2>1. CASE KillStatus(t)
      BY <2>1 DEF KillStatus
    <2>2. CASE KillDetach(t)
      BY <2>2 DEF KillDetach
    <2>3. CASE KillWait(t)
      BY <2>3 DEF KillWait
    <2>4. CASE KillRestore(t)
      BY <2>4 DEF KillRestore
    <2>5. CASE KillRestored(t)
      BY <2>5 DEF KillRestored
    <2>6. CASE KillForget(t)
      BY <2>6 DEF KillForget
    <2>7. CASE KillDone(t)
      BY <2>7 DEF KillDone
    <2> QED
      BY <1>4, <2>1, <2>2, <2>3, <2>4, <2>5, <2>6, <2>7 DEF Kill
  <1>5. ASSUME NEW t \in Thread, Remove(t)
        PROVE  MainInv'
    <2>1. CASE RemoveRead(t)
      BY <2>1 DEF RemoveRead
    <2>2. CASE RemoveKill(t)
      BY <2>2 DEF RemoveKill
    <2>3. CASE RemoveForget(t)
      BY <2>3 DEF RemoveForget
    <2>4. CASE RemoveUnlist(t)
      BY <2>4 DEF RemoveUnlist
    <2> QED
      BY <1>5, <2>1, <2>2, <2>3, <2>4 DEF Remove
  <1>6. ASSUME NEW p \in Pid, Watch(p)
        PROVE  MainInv'
    <2>1. CASE WatchWait(p)
      BY <2>1 DEF WatchWait
    <2>2. CASE WatchForget(p)
      BY <2>2 DEF WatchForget
    <2>3. CASE WatchCheck(p)
      BY <2>3 DEF WatchCheck
    <2> QED
      BY <1>6, <2>1, <2>2, <2>3 DEF Watch
  <1>7. ASSUME NEW p \in Pid, Exit(p)
        PROVE  MainInv'
    BY <1>7 DEF Exit, threads
  <1>8. CASE ShutdownSealHTTP \/ ShutdownStep
    <2>1. CASE ShutdownSealHTTP
      BY <2>1 DEF ShutdownSealHTTP
    <2>2. CASE ShutdownSealStarts
      BY <2>2 DEF ShutdownSealStarts
    <2>3. CASE ShutdownDrain
      BY <2>3 DEF ShutdownDrain
    <2>4. CASE StopAllDetach
      BY <2>4 DEF StopAllDetach
    <2>5. CASE StopAllWait
      BY <2>5 DEF StopAllWait
    <2>6. CASE StopAllForget
      BY <2>6 DEF StopAllForget
    <2>7. CASE StopAllStatus
      BY <2>7 DEF StopAllStatus
    <2>8. CASE ShutdownWaitWatchers
      BY <2>8 DEF ShutdownWaitWatchers
    <2> QED
      BY <1>8, <2>1, <2>2, <2>3, <2>4, <2>5, <2>6, <2>7, <2>8 DEF ShutdownStep
  <1>9. CASE UNCHANGED vars
    BY <1>9 DEF vars
  <1> QED
    BY <1>1, <1>2, <1>3, <1>4, <1>5, <1>6, <1>7, <1>8, <1>9 DEF Next, Step, Terminated

----------------------------------------------------------------------------
(* A start under way and its watcher.                                      *)

\* startInstance has the process and has not yet attached the watcher.
Attaching == Fresh \cup {"running", "release", "watch"}

\* Nobody else is attaching a watcher to the same process, and that watcher
\* does not run yet.
AttachInv ==
    /\ \A t \in Thread : pc[t] \in Attaching => pc[mine[t]] = "idle"
    /\ \A t, u \in Thread :
          pc[t] \in Attaching /\ pc[u] \in Attaching /\ mine[t] = mine[u] => t = u

\* At boot no watcher is being attached.
LEMMA AttachInit == Init => AttachInv
  BY ThreadFacts DEF Init, AttachInv, Attaching, Fresh

\* Every step keeps one start at most between a process and its watcher.
LEMMA AttachStep ==
    ASSUME TypeOK, GateInv, RefInv, AttachInv, [Next]_vars
    PROVE  AttachInv'
  <1> USE ThreadFacts DEF TypeOK, GateInv, RefInv, AttachInv, Attaching, Fresh, Owning, Carrying,
          StartLabel, WatchLabel, inst, history, Goto, GotoWith, GotoNoRestart, Finish,
          StartOrFinish
  <1>1. ASSUME NEW r \in Request, NEW o \in Ops, Begin(r, o)
        PROVE  AttachInv'
    <2>1. FirstLabel[o] \in {"enter", "detach", "killStatus", "rmRead"}
      BY ConfigAssumption DEF FirstLabel
    <2> QED
      BY <1>1, <2>1 DEF Begin
  <1>2. ASSUME NEW t \in Thread, Start(t)
        PROVE  AttachInv'
    <2>1. CASE StartEnter(t)
      BY <2>1 DEF StartEnter
    <2>2. CASE StartClaim(t)
      BY <2>2 DEF StartClaim
    <2>3. CASE StartSpawn(t)
      BY <2>3 DEF StartSpawn
    <2>4. CASE StartRecord(t)
      BY <2>4 DEF StartRecord
    <2>5. CASE StartKillNew(t)
      BY <2>5 DEF StartKillNew
    <2>6. CASE StartPublish(t)
      BY <2>6 DEF StartPublish
    <2>7. CASE StartRunning(t)
      BY <2>7 DEF StartRunning
    <2>8. CASE StartRelease(t)
      BY <2>8 DEF StartRelease
    <2>9. CASE StartWatch(t)
      BY <2>9 DEF StartWatch
    <2>10. CASE StartReturn(t)
      BY <2>10 DEF StartReturn
    <2> QED
      BY <1>2, <2>1, <2>2, <2>3, <2>4, <2>5, <2>6, <2>7, <2>8, <2>9, <2>10 DEF Start
  <1>3. ASSUME NEW t \in Thread, Stop(t)
        PROVE  AttachInv'
    <2>1. CASE StopDetach(t)
      BY <2>1 DEF StopDetach
    <2>2. CASE StopWait(t)
      BY <2>2 DEF StopWait
    <2>3. CASE StopReattach(t)
      BY <2>3 DEF StopReattach
    <2>4. CASE StopForget(t)
      BY <2>4 DEF StopForget
    <2>5. CASE StopStopped(t)
      BY <2>5 DEF StopStopped
    <2>6. CASE StopRelease(t)
      BY <2>6 DEF StopRelease
    <2> QED
      BY <1>3, <2>1, <2>2, <2>3, <2>4, <2>5, <2>6 DEF Stop
  <1>4. ASSUME NEW t \in Thread, Kill(t)
        PROVE  AttachInv'
    <2>1. CASE KillStatus(t)
      BY <2>1 DEF KillStatus
    <2>2. CASE KillDetach(t)
      BY <2>2 DEF KillDetach
    <2>3. CASE KillWait(t)
      BY <2>3 DEF KillWait
    <2>4. CASE KillRestore(t)
      BY <2>4 DEF KillRestore
    <2>5. CASE KillRestored(t)
      BY <2>5 DEF KillRestored
    <2>6. CASE KillForget(t)
      BY <2>6 DEF KillForget
    <2>7. CASE KillDone(t)
      BY <2>7 DEF KillDone
    <2> QED
      BY <1>4, <2>1, <2>2, <2>3, <2>4, <2>5, <2>6, <2>7 DEF Kill
  <1>5. ASSUME NEW t \in Thread, Remove(t)
        PROVE  AttachInv'
    <2>1. CASE RemoveRead(t)
      BY <2>1 DEF RemoveRead
    <2>2. CASE RemoveKill(t)
      BY <2>2 DEF RemoveKill
    <2>3. CASE RemoveForget(t)
      BY <2>3 DEF RemoveForget
    <2>4. CASE RemoveUnlist(t)
      BY <2>4 DEF RemoveUnlist
    <2> QED
      BY <1>5, <2>1, <2>2, <2>3, <2>4 DEF Remove
  <1>6. ASSUME NEW p \in Pid, Watch(p)
        PROVE  AttachInv'
    <2>1. CASE WatchWait(p)
      BY <2>1 DEF WatchWait
    <2>2. CASE WatchForget(p)
      BY <2>2 DEF WatchForget
    <2>3. CASE WatchCheck(p)
      BY <2>3 DEF WatchCheck
    <2> QED
      BY <1>6, <2>1, <2>2, <2>3 DEF Watch
  <1>7. ASSUME NEW p \in Pid, Exit(p)
        PROVE  AttachInv'
    BY <1>7 DEF Exit, threads
  <1>8. CASE ShutdownSealHTTP \/ ShutdownStep
    <2>1. CASE ShutdownSealHTTP
      BY <2>1 DEF ShutdownSealHTTP
    <2>2. CASE ShutdownSealStarts
      BY <2>2 DEF ShutdownSealStarts
    <2>3. CASE ShutdownDrain
      BY <2>3 DEF ShutdownDrain
    <2>4. CASE StopAllDetach
      BY <2>4 DEF StopAllDetach
    <2>5. CASE StopAllWait
      BY <2>5 DEF StopAllWait
    <2>6. CASE StopAllForget
      BY <2>6 DEF StopAllForget
    <2>7. CASE StopAllStatus
      BY <2>7 DEF StopAllStatus
    <2>8. CASE ShutdownWaitWatchers
      BY <2>8 DEF ShutdownWaitWatchers
    <2> QED
      BY <1>8, <2>1, <2>2, <2>3, <2>4, <2>5, <2>6, <2>7, <2>8 DEF ShutdownStep
  <1>9. CASE UNCHANGED vars
    BY <1>9 DEF vars
  <1> QED
    BY <1>1, <1>2, <1>3, <1>4, <1>5, <1>6, <1>7, <1>8, <1>9 DEF Next, Step, Terminated

----------------------------------------------------------------------------
(* Mutual exclusion, as long as it has not been bypassed.                  *)

\* Without a bypass: a goroutine inside its Busy section finds Busy set and is
\* alone there; nobody is killing; while a goroutine owns a process, Proc names
\* none that runs; and every running process has an owner: Proc, one goroutine,
\* or stopAll.
ExclInv ==
    ~bypass =>
        /\ \A t \in Thread : pc[t] \in Holding => busy
        /\ \A t, u \in Thread : pc[t] \in Holding /\ pc[u] \in Holding => t = u
        /\ \A t \in Thread : pc[t] \notin {"killing", "killRestore"}
        /\ \A t \in Thread : pc[t] \in Owning \cup {"spawn"} => ~IsRunning(proc)
        /\ \A p \in Running :
              \/ proc = p
              \/ \E t \in Thread : pc[t] \in Owning /\ mine[t] = p
              \/ pc[Main] \in AfterStopAll /\ mine[Main] = p

\* At boot nobody is inside a Busy section and nothing runs.
LEMMA ExclInit == Init => ExclInv
  BY ThreadFacts DEF Init, ExclInv, Holding, Owning, Fresh, Running, IsRunning, AfterStopAll

\* Every step keeps the mutual exclusion of Busy or is recorded as a bypass.
LEMMA ExclStep ==
    ASSUME TypeOK, GateInv, RefInv, MainInv, AttachInv, ExclInv, [Next]_vars
    PROVE  ExclInv'
  <1> USE ThreadFacts DEF TypeOK, GateInv, RefInv, ExclInv, AfterStopAll, IsRunning, Running,
          Holding, Owning, Fresh, Carrying, ClearBusy, Drained, StartLabel, WatchLabel,
          inst, history, Goto, GotoWith, GotoNoRestart, Finish,
          StartOrFinish
  <1>1. ASSUME NEW r \in Request, NEW o \in Ops, Begin(r, o)
        PROVE  ExclInv'
    <2>1. FirstLabel[o] \in {"enter", "detach", "killStatus", "rmRead"}
      BY ConfigAssumption DEF FirstLabel
    <2> QED
      BY <1>1, <2>1 DEF Begin
  <1>2. ASSUME NEW t \in Thread, Start(t)
        PROVE  ExclInv'
    <2>1. CASE StartEnter(t)
      BY <2>1 DEF StartEnter
    <2>2. CASE StartClaim(t)
      BY <2>2 DEF StartClaim
    <2>3. CASE StartSpawn(t)
      BY <2>3 DEF StartSpawn
    <2>4. CASE StartRecord(t)
      BY <2>4 DEF StartRecord
    <2>5. CASE StartKillNew(t)
      BY <2>5 DEF StartKillNew
    <2>6. CASE StartPublish(t)
      BY <2>6 DEF StartPublish
    <2>7. CASE StartRunning(t)
      BY <2>7 DEF StartRunning
    <2>8. CASE StartRelease(t)
      BY <2>8 DEF StartRelease
    <2>9. CASE StartWatch(t)
      BY <2>9 DEF StartWatch, AttachInv, Attaching
    <2>10. CASE StartReturn(t)
      BY <2>10 DEF StartReturn
    <2> QED
      BY <1>2, <2>1, <2>2, <2>3, <2>4, <2>5, <2>6, <2>7, <2>8, <2>9, <2>10 DEF Start
  <1>3. ASSUME NEW t \in Thread, Stop(t)
        PROVE  ExclInv'
    <2>1. CASE StopDetach(t)
      BY <2>1 DEF StopDetach
    <2>2. CASE StopWait(t)
      BY <2>2 DEF StopWait
    <2>3. CASE StopReattach(t)
      BY <2>3 DEF StopReattach
    <2>4. CASE StopForget(t)
      BY <2>4 DEF StopForget
    <2>5. CASE StopStopped(t)
      BY <2>5 DEF StopStopped
    <2>6. CASE StopRelease(t)
      BY <2>6 DEF StopRelease
    <2> QED
      BY <1>3, <2>1, <2>2, <2>3, <2>4, <2>5, <2>6 DEF Stop
  <1>4. ASSUME NEW t \in Thread, Kill(t)
        PROVE  ExclInv'
    <2>1. CASE KillStatus(t)
      BY <2>1 DEF KillStatus
    <2>2. CASE KillDetach(t)
      <3>1. CASE IsRunning(proc)
        BY <2>2, <3>1 DEF KillDetach
      <3>2. CASE ~IsRunning(proc)
        <4>1. bypass' = bypass
          BY <2>2, <3>2 DEF KillDetach
        <4> QED
          BY <2>2, <3>2, <4>1 DEF KillDetach
      <3> QED
        BY <3>1, <3>2
    <2>3. CASE KillWait(t)
      BY <2>3 DEF KillWait
    <2>4. CASE KillRestore(t)
      BY <2>4 DEF KillRestore
    <2>5. CASE KillRestored(t)
      BY <2>5 DEF KillRestored
    <2>6. CASE KillForget(t)
      BY <2>6 DEF KillForget
    <2>7. CASE KillDone(t)
      BY <2>7 DEF KillDone
    <2> QED
      BY <1>4, <2>1, <2>2, <2>3, <2>4, <2>5, <2>6, <2>7 DEF Kill
  <1>5. ASSUME NEW t \in Thread, Remove(t)
        PROVE  ExclInv'
    <2>1. CASE RemoveRead(t)
      BY <2>1 DEF RemoveRead
    <2>2. CASE RemoveKill(t)
      BY <2>2 DEF RemoveKill
    <2>3. CASE RemoveForget(t)
      BY <2>3 DEF RemoveForget
    <2>4. CASE RemoveUnlist(t)
      BY <2>4 DEF RemoveUnlist
    <2> QED
      BY <1>5, <2>1, <2>2, <2>3, <2>4 DEF Remove
  <1>6. ASSUME NEW p \in Pid, Watch(p)
        PROVE  ExclInv'
    <2>1. CASE WatchWait(p)
      BY <2>1 DEF WatchWait
    <2>2. CASE WatchForget(p)
      BY <2>2 DEF WatchForget
    <2>3. CASE WatchCheck(p)
      BY <2>3 DEF WatchCheck
    <2> QED
      BY <1>6, <2>1, <2>2, <2>3 DEF Watch
  <1>7. ASSUME NEW p \in Pid, Exit(p)
        PROVE  ExclInv'
    BY <1>7 DEF Exit, threads
  <1>8. CASE ShutdownSealHTTP \/ ShutdownStep
    <2>1. CASE ShutdownSealHTTP
      BY <2>1 DEF ShutdownSealHTTP
    <2>2. CASE ShutdownSealStarts
      BY <2>2 DEF ShutdownSealStarts
    <2>3. CASE ShutdownDrain
      BY <2>3 DEF ShutdownDrain
    <2>4. CASE StopAllDetach
      BY <2>4 DEF StopAllDetach, MainInv
    <2>5. CASE StopAllWait
      BY <2>5 DEF StopAllWait
    <2>6. CASE StopAllForget
      BY <2>6 DEF StopAllForget
    <2>7. CASE StopAllStatus
      BY <2>7 DEF StopAllStatus
    <2>8. CASE ShutdownWaitWatchers
      BY <2>8 DEF ShutdownWaitWatchers
    <2> QED
      BY <1>8, <2>1, <2>2, <2>3, <2>4, <2>5, <2>6, <2>7, <2>8 DEF ShutdownStep
  <1>9. CASE UNCHANGED vars
    BY <1>9 DEF vars
  <1> QED
    BY <1>1, <1>2, <1>3, <1>4, <1>5, <1>6, <1>7, <1>8, <1>9 DEF Next, Step, Terminated

----------------------------------------------------------------------------
(* Intentional stops.                                                      *)

\* Proc never names a process that was detached on purpose and not given back,
\* and a process that is not published yet is nobody else's.
IntentInv ==
    /\ proc \notin intent
    /\ \A p \in intent : pstate[p] # "none"
    /\ \A t \in Thread : pc[t] \in Fresh =>
          /\ mine[t] \notin intent
          /\ mine[t] # proc
          /\ \A u \in Thread \cup {Main} : mine[u] = mine[t] => u = t

\* At boot nothing was detached on purpose.
LEMMA IntentInit == Init => IntentInv
  BY ThreadFacts DEF Init, IntentInv, Fresh

\* Every step keeps a process that was stopped on purpose away from Proc.
LEMMA IntentStep ==
    ASSUME TypeOK, GateInv, RefInv, MainInv, IntentInv, [Next]_vars
    PROVE  IntentInv'
  <1> USE ThreadFacts DEF TypeOK, GateInv, RefInv, IntentInv, Fresh, Owning, Carrying, IsRunning,
          StartLabel, WatchLabel, inst, history, Goto, GotoWith, GotoNoRestart, Finish,
          StartOrFinish
  <1>1. ASSUME NEW r \in Request, NEW o \in Ops, Begin(r, o)
        PROVE  IntentInv'
    <2>1. FirstLabel[o] \in {"enter", "detach", "killStatus", "rmRead"}
      BY ConfigAssumption DEF FirstLabel
    <2> QED
      BY <1>1, <2>1 DEF Begin
  <1>2. ASSUME NEW t \in Thread, Start(t)
        PROVE  IntentInv'
    <2>1. CASE StartEnter(t)
      BY <2>1 DEF StartEnter
    <2>2. CASE StartClaim(t)
      BY <2>2 DEF StartClaim
    <2>3. CASE StartSpawn(t)
      BY <2>3 DEF StartSpawn
    <2>4. CASE StartRecord(t)
      BY <2>4 DEF StartRecord
    <2>5. CASE StartKillNew(t)
      BY <2>5 DEF StartKillNew
    <2>6. CASE StartPublish(t)
      BY <2>6 DEF StartPublish
    <2>7. CASE StartRunning(t)
      BY <2>7 DEF StartRunning
    <2>8. CASE StartRelease(t)
      BY <2>8 DEF StartRelease
    <2>9. CASE StartWatch(t)
      BY <2>9 DEF StartWatch
    <2>10. CASE StartReturn(t)
      BY <2>10 DEF StartReturn
    <2> QED
      BY <1>2, <2>1, <2>2, <2>3, <2>4, <2>5, <2>6, <2>7, <2>8, <2>9, <2>10 DEF Start
  <1>3. ASSUME NEW t \in Thread, Stop(t)
        PROVE  IntentInv'
    <2>1. CASE StopDetach(t)
      BY <2>1 DEF StopDetach
    <2>2. CASE StopWait(t)
      BY <2>2 DEF StopWait
    <2>3. CASE StopReattach(t)
      BY <2>3 DEF StopReattach
    <2>4. CASE StopForget(t)
      BY <2>4 DEF StopForget
    <2>5. CASE StopStopped(t)
      BY <2>5 DEF StopStopped
    <2>6. CASE StopRelease(t)
      BY <2>6 DEF StopRelease
    <2> QED
      BY <1>3, <2>1, <2>2, <2>3, <2>4, <2>5, <2>6 DEF Stop
  <1>4. ASSUME NEW t \in Thread, Kill(t)
        PROVE  IntentInv'
    <2>1. CASE KillStatus(t)
      BY <2>1 DEF KillStatus
    <2>2. CASE KillDetach(t)
      BY <2>2 DEF KillDetach
    <2>3. CASE KillWait(t)
      BY <2>3 DEF KillWait
    <2>4. CASE KillRestore(t)
      BY <2>4 DEF KillRestore
    <2>5. CASE KillRestored(t)
      BY <2>5 DEF KillRestored
    <2>6. CASE KillForget(t)
      BY <2>6 DEF KillForget
    <2>7. CASE KillDone(t)
      BY <2>7 DEF KillDone
    <2> QED
      BY <1>4, <2>1, <2>2, <2>3, <2>4, <2>5, <2>6, <2>7 DEF Kill
  <1>5. ASSUME NEW t \in Thread, Remove(t)
        PROVE  IntentInv'
    <2>1. CASE RemoveRead(t)
      BY <2>1 DEF RemoveRead
    <2>2. CASE RemoveKill(t)
      BY <2>2 DEF RemoveKill
    <2>3. CASE RemoveForget(t)
      BY <2>3 DEF RemoveForget
    <2>4. CASE RemoveUnlist(t)
      BY <2>4 DEF RemoveUnlist
    <2> QED
      BY <1>5, <2>1, <2>2, <2>3, <2>4 DEF Remove
  <1>6. ASSUME NEW p \in Pid, Watch(p)
        PROVE  IntentInv'
    <2>1. CASE WatchWait(p)
      BY <2>1 DEF WatchWait
    <2>2. CASE WatchForget(p)
      BY <2>2 DEF WatchForget
    <2>3. CASE WatchCheck(p)
      BY <2>3 DEF WatchCheck
    <2> QED
      BY <1>6, <2>1, <2>2, <2>3 DEF Watch
  <1>7. ASSUME NEW p \in Pid, Exit(p)
        PROVE  IntentInv'
    BY <1>7 DEF Exit, threads
  <1>8. CASE ShutdownSealHTTP \/ ShutdownStep
    <2>1. CASE ShutdownSealHTTP
      BY <2>1 DEF ShutdownSealHTTP
    <2>2. CASE ShutdownSealStarts
      BY <2>2 DEF ShutdownSealStarts
    <2>3. CASE ShutdownDrain
      BY <2>3 DEF ShutdownDrain
    <2>4. CASE StopAllDetach
      BY <2>4 DEF StopAllDetach, Drained
    <2>5. CASE StopAllWait
      BY <2>5 DEF StopAllWait
    <2>6. CASE StopAllForget
      BY <2>6 DEF StopAllForget
    <2>7. CASE StopAllStatus
      BY <2>7 DEF StopAllStatus
    <2>8. CASE ShutdownWaitWatchers
      BY <2>8 DEF ShutdownWaitWatchers
    <2> QED
      BY <1>8, <2>1, <2>2, <2>3, <2>4, <2>5, <2>6, <2>7, <2>8 DEF ShutdownStep
  <1>9. CASE UNCHANGED vars
    BY <1>9 DEF vars
  <1> QED
    BY <1>1, <1>2, <1>3, <1>4, <1>5, <1>6, <1>7, <1>8, <1>9 DEF Next, Step, Terminated

----------------------------------------------------------------------------
(* Watchers.                                                               *)

Watched(p) ==
    \/ Cancelled
    \/ pc[p] = "wait"
    \/ \E t \in Thread : mine[t] = p /\ pc[t] \in {"running", "release", "watch"}

\* The process Proc names is watched while it runs, and so is a process that a
\* stop or a kill holds and may give back.
WatchInv ==
    /\ IsRunning(proc) => Watched(proc)
    /\ \A t \in Thread : pc[t] \in {"stopping", "reattach", "killing", "killRestore"}
                            /\ IsRunning(mine[t]) => Watched(mine[t])

\* At boot nothing runs that could lack a watcher.
LEMMA WatchInit == Init => WatchInv
  BY ThreadFacts DEF Init, WatchInv, IsRunning

\* Every step keeps the watcher of a running process that Proc names or may name again.
LEMMA WatchStep ==
    ASSUME TypeOK, GateInv, RefInv, AttachInv, WatchInv, [Next]_vars
    PROVE  WatchInv'
  <1> USE ThreadFacts DEF TypeOK, GateInv, RefInv, WatchInv, Watched, Cancelled, Owning, Carrying,
          IsRunning, StartLabel, WatchLabel, inst, history, Goto, GotoWith, GotoNoRestart, Finish,
          StartOrFinish
  <1>1. ASSUME NEW r \in Request, NEW o \in Ops, Begin(r, o)
        PROVE  WatchInv'
    <2>1. FirstLabel[o] \in {"enter", "detach", "killStatus", "rmRead"}
      BY ConfigAssumption DEF FirstLabel
    <2> QED
      BY <1>1, <2>1 DEF Begin
  <1>2. ASSUME NEW t \in Thread, Start(t)
        PROVE  WatchInv'
    <2>1. CASE StartEnter(t)
      BY <2>1 DEF StartEnter
    <2>2. CASE StartClaim(t)
      BY <2>2 DEF StartClaim
    <2>3. CASE StartSpawn(t)
      BY <2>3 DEF StartSpawn, Fresh
    <2>4. CASE StartRecord(t)
      BY <2>4 DEF StartRecord
    <2>5. CASE StartKillNew(t)
      BY <2>5 DEF StartKillNew
    <2>6. CASE StartPublish(t)
      BY <2>6 DEF StartPublish
    <2>7. CASE StartRunning(t)
      BY <2>7 DEF StartRunning
    <2>8. CASE StartRelease(t)
      BY <2>8 DEF StartRelease
    <2>9. CASE StartWatch(t)
      BY <2>9 DEF StartWatch, AttachInv, Attaching, Fresh
    <2>10. CASE StartReturn(t)
      BY <2>10 DEF StartReturn
    <2> QED
      BY <1>2, <2>1, <2>2, <2>3, <2>4, <2>5, <2>6, <2>7, <2>8, <2>9, <2>10 DEF Start
  <1>3. ASSUME NEW t \in Thread, Stop(t)
        PROVE  WatchInv'
    <2>1. CASE StopDetach(t)
      BY <2>1 DEF StopDetach
    <2>2. CASE StopWait(t)
      BY <2>2 DEF StopWait
    <2>3. CASE StopReattach(t)
      BY <2>3 DEF StopReattach
    <2>4. CASE StopForget(t)
      BY <2>4 DEF StopForget
    <2>5. CASE StopStopped(t)
      BY <2>5 DEF StopStopped
    <2>6. CASE StopRelease(t)
      BY <2>6 DEF StopRelease
    <2> QED
      BY <1>3, <2>1, <2>2, <2>3, <2>4, <2>5, <2>6 DEF Stop
  <1>4. ASSUME NEW t \in Thread, Kill(t)
        PROVE  WatchInv'
    <2>1. CASE KillStatus(t)
      BY <2>1 DEF KillStatus
    <2>2. CASE KillDetach(t)
      BY <2>2 DEF KillDetach
    <2>3. CASE KillWait(t)
      BY <2>3 DEF KillWait
    <2>4. CASE KillRestore(t)
      BY <2>4 DEF KillRestore
    <2>5. CASE KillRestored(t)
      BY <2>5 DEF KillRestored
    <2>6. CASE KillForget(t)
      BY <2>6 DEF KillForget
    <2>7. CASE KillDone(t)
      BY <2>7 DEF KillDone
    <2> QED
      BY <1>4, <2>1, <2>2, <2>3, <2>4, <2>5, <2>6, <2>7 DEF Kill
  <1>5. ASSUME NEW t \in Thread, Remove(t)
        PROVE  WatchInv'
    <2>1. CASE RemoveRead(t)
      BY <2>1 DEF RemoveRead
    <2>2. CASE RemoveKill(t)
      BY <2>2 DEF RemoveKill
    <2>3. CASE RemoveForget(t)
      BY <2>3 DEF RemoveForget
    <2>4. CASE RemoveUnlist(t)
      BY <2>4 DEF RemoveUnlist
    <2> QED
      BY <1>5, <2>1, <2>2, <2>3, <2>4 DEF Remove
  <1>6. ASSUME NEW p \in Pid, Watch(p)
        PROVE  WatchInv'
    <2>1. CASE WatchWait(p)
      BY <2>1 DEF WatchWait
    <2>2. CASE WatchForget(p)
      BY <2>2 DEF WatchForget
    <2>3. CASE WatchCheck(p)
      BY <2>3 DEF WatchCheck
    <2> QED
      BY <1>6, <2>1, <2>2, <2>3 DEF Watch
  <1>7. ASSUME NEW p \in Pid, Exit(p)
        PROVE  WatchInv'
    BY <1>7 DEF Exit, threads
  <1>8. CASE ShutdownSealHTTP \/ ShutdownStep
    <2>1. CASE ShutdownSealHTTP
      BY <2>1 DEF ShutdownSealHTTP
    <2>2. CASE ShutdownSealStarts
      BY <2>2 DEF ShutdownSealStarts
    <2>3. CASE ShutdownDrain
      BY <2>3 DEF ShutdownDrain
    <2>4. CASE StopAllDetach
      BY <2>4 DEF StopAllDetach
    <2>5. CASE StopAllWait
      BY <2>5 DEF StopAllWait
    <2>6. CASE StopAllForget
      BY <2>6 DEF StopAllForget
    <2>7. CASE StopAllStatus
      BY <2>7 DEF StopAllStatus
    <2>8. CASE ShutdownWaitWatchers
      BY <2>8 DEF ShutdownWaitWatchers
    <2> QED
      BY <1>8, <2>1, <2>2, <2>3, <2>4, <2>5, <2>6, <2>7, <2>8 DEF ShutdownStep
  <1>9. CASE UNCHANGED vars
    BY <1>9 DEF vars
  <1> QED
    BY <1>1, <1>2, <1>3, <1>4, <1>5, <1>6, <1>7, <1>8, <1>9 DEF Next, Step, Terminated

----------------------------------------------------------------------------
(* The inductive invariant and what follows from it.                       *)

IInv == /\ TypeOK /\ GateInv /\ RefInv /\ MainInv
        /\ AttachInv /\ ExclInv /\ IntentInv /\ WatchInv

\* The conjunction of the named parts is an invariant of the lifecycle.
LEMMA IInvInductive == Spec => []IInv
  <1>1. Init => IInv
    BY TypeInit, GateInit, RefInit, MainInit, AttachInit, ExclInit, IntentInit,
       WatchInit DEF IInv
  <1>2. IInv /\ [Next]_vars => IInv'
    BY TypeStep, GateStep, RefStep, MainStep, AttachStep, ExclStep, IntentStep,
       WatchStep DEF IInv
  <1> QED
    BY <1>1, <1>2, PTL DEF Spec

\* Under the invariant two running processes have one owner, or Busy was bypassed.
LEMMA ExclusiveSlot == IInv => OneProcessUnlessBypassed
  BY ThreadFacts DEF IInv, TypeOK, GateInv, MainInv, ExclInv, OneProcessUnlessBypassed,
     OneProcess, Running, IsRunning, Owning, Fresh, Holding, AfterStopAll, Drained,
     StartLabel, WatchLabel, NoProc

\* At most one process of the instance runs unless Busy has been bypassed: for
\* any number of concurrent requests, crashes at any time, failing stops, kills
\* and record files.
THEOREM OneProcessTheorem == Spec => []OneProcessUnlessBypassed
  BY IInvInductive, ExclusiveSlot, PTL

\* Under the invariant a clean shutdown has collected every owner of a process.
LEMMA NothingLeft == IInv => NoOrphanAfterShutdown
  BY ThreadFacts DEF IInv, TypeOK, GateInv, MainInv, ExclInv, NoOrphanAfterShutdown,
     Running, IsRunning, Owning, Fresh, AfterStopAll, Drained, StartLabel, WatchLabel,
     NoProc

\* A shutdown without an error leaves no process of a listed instance running,
\* unless Busy has been bypassed.
THEOREM NoOrphanTheorem == Spec => []NoOrphanAfterShutdown
  BY IInvInductive, NothingLeft, PTL

\* Under the invariant a published running process is watched.
LEMMA WatchedIsPublished == IInv => PublishedIsWatched
  BY DEF IInv, WatchInv, Watched, PublishedIsWatched

\* A running process that Proc names always has its exit watcher, or gets it
\* from the start that is still under way, until shutdown cancels the watchers.
THEOREM WatchedTheorem == Spec => []PublishedIsWatched
  BY IInvInductive, WatchedIsPublished, PTL

----------------------------------------------------------------------------
(* Action properties.                                                      *)

\* A process that stop, kill or stopAll took away on purpose is not restarted
\* by its watcher.
THEOREM StoppedNotRestartedTheorem == Spec => StoppedNotRestarted
  <1>1. IInv /\ [Next]_vars =>
            [\A p \in intent : ~(pc[p] = "wCheck" /\ pc'[p] = "enter")]_vars
    <2> SUFFICES ASSUME IInv, Next, NEW p \in intent, pc[p] = "wCheck", pc'[p] = "enter"
                 PROVE  FALSE
      OBVIOUS
    <2> USE ThreadFacts DEF IInv, TypeOK, IntentInv, Goto, GotoWith, GotoNoRestart,
            Finish, StartOrFinish
    <2>1. ASSUME NEW r \in Request, NEW o \in Ops, Begin(r, o)
          PROVE  FALSE
      BY <2>1 DEF Begin
    <2>2. ASSUME NEW t \in Thread, Start(t)
          PROVE  FALSE
      BY <2>2 DEF Start, StartEnter, StartClaim, StartSpawn, StartRecord, StartKillNew,
         StartPublish, StartRunning, StartRelease, StartWatch, StartReturn
    <2>3. ASSUME NEW t \in Thread, Stop(t)
          PROVE  FALSE
      BY <2>3 DEF Stop, StopDetach, StopWait, StopReattach, StopForget, StopStopped,
         StopRelease
    <2>4. ASSUME NEW t \in Thread, Kill(t)
          PROVE  FALSE
      BY <2>4 DEF Kill, KillStatus, KillDetach, KillWait, KillRestore, KillRestored,
         KillForget, KillDone
    <2>5. ASSUME NEW t \in Thread, Remove(t)
          PROVE  FALSE
      BY <2>5 DEF Remove, RemoveRead, RemoveKill, RemoveForget, RemoveUnlist
    <2>6. ASSUME NEW q \in Pid, Watch(q)
          PROVE  FALSE
      BY <2>6 DEF Watch, WatchWait, WatchForget, WatchCheck
    <2>7. ASSUME NEW q \in Pid, Exit(q)
          PROVE  FALSE
      BY <2>7 DEF Exit, threads
    <2>8. CASE ShutdownSealHTTP \/ ShutdownStep
      BY <2>8 DEF ShutdownStep, ShutdownSealHTTP, ShutdownSealStarts, ShutdownDrain,
         StopAllDetach, StopAllWait, StopAllForget, StopAllStatus, ShutdownWaitWatchers
    <2>9. CASE Terminated
      BY <2>9 DEF Terminated, vars
    <2> QED
      BY <2>1, <2>2, <2>3, <2>4, <2>5, <2>6, <2>7, <2>8, <2>9 DEF Next, Step
  <1> QED
    BY <1>1, IInvInductive, PTL DEF Spec, StoppedNotRestarted

----------------------------------------------------------------------------
(* Refinement of ProcessSlot.                                              *)

\* The initial states of the lifecycle are those of the empty slot.
LEMMA SlotInitially == Init => Slot!SlotInit
  BY ThreadFacts DEF Init, Slot!SlotInit, Running, IsRunning, Drained

\* A step of a goroutine that leaves the processes, the record and the history
\* alone is invisible.
LEMMA SlotStutter ==
    ASSUME UNCHANGED <<pstate, record, bypass>>, pc'[Main] = pc[Main]
    PROVE  UNCHANGED Slot!slotVars
  BY DEF Slot!slotVars, Running, IsRunning, Drained

\* A step that only changes the record: it now names a started process, or it
\* is gone and the process it named does not run.
LEMMA SlotRecord ==
    ASSUME TypeOK, UNCHANGED <<pstate, bypass>>, pc'[Main] = pc[Main],
           \/ record' \in Pid /\ pstate[record'] # "none"
           \/ record' = NoProc /\ ~IsRunning(record)
    PROVE  Slot!SlotNext
  <1>1. Running' = Running /\ {p \in Pid : pstate[p] # "none"}' = {p \in Pid : pstate[p] # "none"}
        /\ Drained' = Drained /\ bypass' = bypass
    BY DEF Running, IsRunning, Drained
  <1>2. CASE record' \in Pid /\ pstate[record'] # "none"
    <2>1. Slot!Record(record')
      BY <1>1, <1>2 DEF Slot!Record
    <2> QED
      BY <1>2, <2>1 DEF Slot!SlotNext
  <1>3. CASE record' = NoProc /\ ~IsRunning(record)
    <2>1. Slot!Forget
      BY <1>1, <1>3 DEF Slot!Forget, Running
    <2> QED
      BY <2>1 DEF Slot!SlotNext
  <1> QED
    BY <1>2, <1>3

\* A step that only changes the history has broken the slot, if it did anything.
LEMMA SlotBreak ==
    ASSUME TypeOK, TypeOK', UNCHANGED <<pstate, record>>, pc'[Main] = pc[Main],
           bypass => bypass'
    PROVE  [Slot!SlotNext]_(Slot!slotVars)
  <1>1. CASE bypass' = bypass
    BY <1>1, SlotStutter
  <1>2. CASE bypass' # bypass
    <2>1. bypass' = TRUE
      BY <1>2 DEF TypeOK
    <2>2. Running' = Running /\ {p \in Pid : pstate[p] # "none"}' = {p \in Pid : pstate[p] # "none"}
          /\ Drained' = Drained /\ record' = record
      BY DEF Running, IsRunning, Drained
    <2>3. Slot!Break
      BY <2>1, <2>2 DEF Slot!Break
    <2> QED
      BY <2>3 DEF Slot!SlotNext
  <1> QED
    BY <1>1, <1>2

\* Every step of the lifecycle is a step of the slot or invisible to it.
LEMMA SlotSimulation ==
    ASSUME IInv, IInv', [Next]_vars
    PROVE  [Slot!SlotNext]_(Slot!slotVars)
  <1> USE ThreadFacts DEF IInv, TypeOK, inst, history, Goto, GotoWith, GotoNoRestart,
          Finish, StartOrFinish
  <1> DEFINE Seen == [Slot!SlotNext]_(Slot!slotVars)
  <1>0. TypeOK /\ TypeOK'
    BY DEF IInv
  <1>1. ASSUME NEW r \in Request, NEW o \in Ops, Begin(r, o)
        PROVE  Seen
    BY <1>1, SlotStutter DEF Begin
  <1>2. ASSUME NEW t \in Thread, Start(t)
        PROVE  Seen
    <2>1. CASE StartEnter(t)
      BY <2>1, SlotStutter DEF StartEnter
    <2>2. CASE StartClaim(t)
      BY <2>2, SlotStutter DEF StartClaim
    <2>3. CASE StartSpawn(t)
      <3>1. CASE UNCHANGED pstate
        BY <2>3, <3>1, SlotStutter DEF StartSpawn
      <3>2. CASE ~UNCHANGED pstate
        <4>1. PICK p \in Pid : /\ pstate[p] = "none"
                               /\ pstate' = [pstate EXCEPT ![p] = "running"]
          BY <2>3, <3>2 DEF StartSpawn
        <4>2. UNCHANGED <<record, bypass>> /\ pc'[Main] = pc[Main] /\ pc[t] = "spawn"
          BY <2>3 DEF StartSpawn
        <4>3. ~Drained /\ Drained' = Drained
          BY <4>2 DEF GateInv, Drained, StartLabel
        <4>4. bypass \/ Running = {}
          BY <4>2, <4>3 DEF ExclInv, Running, IsRunning, Owning, Fresh, Holding,
             AfterStopAll, Drained
        <4>5. Running' = Running \cup {p}
          BY <4>1 DEF Running, IsRunning
        <4>6. {q \in Pid : pstate[q] # "none"}' = {q \in Pid : pstate[q] # "none"} \cup {p}
          BY <4>1
        <4>7. Slot!Spawn(p)
          BY <4>1, <4>2, <4>3, <4>4, <4>5, <4>6 DEF Slot!Spawn
        <4> QED
          BY <4>7 DEF Slot!SlotNext
      <3> QED
        BY <3>1, <3>2
    <2>4. CASE StartRecord(t)
      <3>1. CASE record' = record
        BY <2>4, <3>1, SlotStutter DEF StartRecord
      <3>2. CASE record' # record
        <4>1. record' = mine[t] /\ pc[t] = "record" /\ pc'[Main] = pc[Main]
              /\ UNCHANGED <<pstate, bypass>>
          BY <2>4, <3>2 DEF StartRecord
        <4>2. record' \in Pid /\ pstate[record'] # "none"
          BY <4>1 DEF RefInv, Carrying, Owning, Fresh
        <4> QED
          BY <1>0, <4>1, <4>2, SlotRecord
      <3> QED
        BY <3>1, <3>2
    <2>5. CASE StartKillNew(t)
      <3>1. UNCHANGED <<pstate, record>> /\ pc'[Main] = pc[Main] /\ (bypass => bypass')
        BY <2>5 DEF StartKillNew, ClearBusy
      <3> QED
        BY <1>0, <3>1, SlotBreak
    <2>6. CASE StartPublish(t)
      BY <2>6, SlotStutter DEF StartPublish
    <2>7. CASE StartRunning(t)
      BY <2>7, SlotStutter DEF StartRunning
    <2>8. CASE StartRelease(t)
      <3>1. UNCHANGED <<pstate, record>> /\ pc'[Main] = pc[Main] /\ (bypass => bypass')
        BY <2>8 DEF StartRelease, ClearBusy
      <3> QED
        BY <1>0, <3>1, SlotBreak
    <2>9. CASE StartWatch(t)
      BY <2>9, SlotStutter DEF StartWatch
    <2>10. CASE StartReturn(t)
      <3>1. UNCHANGED <<pstate, record>> /\ pc'[Main] = pc[Main] /\ (bypass => bypass')
        BY <2>10 DEF StartReturn, ClearBusy
      <3> QED
        BY <1>0, <3>1, SlotBreak
    <2> QED
      BY <1>2, <2>1, <2>2, <2>3, <2>4, <2>5, <2>6, <2>7, <2>8, <2>9, <2>10 DEF Start
  <1>3. ASSUME NEW t \in Thread, Stop(t)
        PROVE  Seen
    <2>1. CASE StopDetach(t)
      BY <2>1, SlotStutter DEF StopDetach
    <2>2. CASE StopWait(t)
      BY <2>2, SlotStutter DEF StopWait
    <2>3. CASE StopReattach(t)
      BY <2>3, SlotStutter DEF StopReattach
    <2>4. CASE StopForget(t)
      <3>1. CASE record' = record
        BY <2>4, <3>1, SlotStutter DEF StopForget
      <3>2. CASE record' # record
        <4>1. /\ record' = NoProc /\ record = mine[t] /\ pc[t] = "stopForget"
              /\ UNCHANGED <<pstate, bypass>> /\ pc'[Main] = pc[Main]
          BY <2>4, <3>2 DEF StopForget, Forgotten
        <4>2. ~IsRunning(record)
          BY <4>1 DEF RefInv, IsRunning
        <4> QED
          BY <1>0, <4>1, <4>2, SlotRecord
      <3> QED
        BY <3>1, <3>2
    <2>5. CASE StopStopped(t)
      BY <2>5, SlotStutter DEF StopStopped
    <2>6. CASE StopRelease(t)
      <3>1. UNCHANGED <<pstate, record>> /\ pc'[Main] = pc[Main] /\ (bypass => bypass')
        BY <2>6 DEF StopRelease, ClearBusy
      <3> QED
        BY <1>0, <3>1, SlotBreak
    <2> QED
      BY <1>3, <2>1, <2>2, <2>3, <2>4, <2>5, <2>6 DEF Stop
  <1>4. ASSUME NEW t \in Thread, Kill(t)
        PROVE  Seen
    <2>1. CASE KillStatus(t)
      BY <2>1, SlotStutter DEF KillStatus
    <2>2. CASE KillDetach(t)
      <3>1. UNCHANGED <<pstate, record>> /\ pc'[Main] = pc[Main] /\ (bypass => bypass')
        BY <2>2 DEF KillDetach, ClearBusy
      <3> QED
        BY <1>0, <3>1, SlotBreak
    <2>3. CASE KillWait(t)
      BY <2>3, SlotStutter DEF KillWait
    <2>4. CASE KillRestore(t)
      BY <2>4, SlotStutter DEF KillRestore
    <2>5. CASE KillRestored(t)
      BY <2>5, SlotStutter DEF KillRestored
    <2>6. CASE KillForget(t)
      <3>1. CASE record' = record
        BY <2>6, <3>1, SlotStutter DEF KillForget
      <3>2. CASE record' # record
        <4>1. /\ record' = NoProc /\ record = mine[t] /\ pc[t] = "killForget"
              /\ UNCHANGED <<pstate, bypass>> /\ pc'[Main] = pc[Main]
          BY <2>6, <3>2 DEF KillForget, Forgotten
        <4>2. ~IsRunning(record)
          BY <4>1 DEF RefInv, IsRunning
        <4> QED
          BY <1>0, <4>1, <4>2, SlotRecord
      <3> QED
        BY <3>1, <3>2
    <2>7. CASE KillDone(t)
      BY <2>7, SlotStutter DEF KillDone
    <2> QED
      BY <1>4, <2>1, <2>2, <2>3, <2>4, <2>5, <2>6, <2>7 DEF Kill
  <1>5. ASSUME NEW t \in Thread, Remove(t)
        PROVE  Seen
    <2>1. CASE RemoveRead(t)
      BY <2>1, SlotStutter DEF RemoveRead
    <2>2. CASE RemoveKill(t)
      BY <2>2, SlotStutter DEF RemoveKill
    <2>3. CASE RemoveForget(t)
      <3>1. CASE record' = record
        BY <2>3, <3>1, SlotStutter DEF RemoveForget
      <3>2. CASE record' # record
        <4>1. /\ record' = NoProc /\ record = mine[t] /\ pc[t] = "rmForget"
              /\ UNCHANGED <<pstate, bypass>> /\ pc'[Main] = pc[Main]
          BY <2>3, <3>2 DEF RemoveForget, Forgotten
        <4>2. ~IsRunning(record)
          BY <4>1 DEF RefInv, IsRunning
        <4> QED
          BY <1>0, <4>1, <4>2, SlotRecord
      <3> QED
        BY <3>1, <3>2
    <2>4. CASE RemoveUnlist(t)
      BY <2>4, SlotStutter DEF RemoveUnlist
    <2> QED
      BY <1>5, <2>1, <2>2, <2>3, <2>4 DEF Remove
  <1>6. ASSUME NEW p \in Pid, Watch(p)
        PROVE  Seen
    <2>1. CASE WatchWait(p)
      BY <2>1, SlotStutter DEF WatchWait
    <2>2. CASE WatchForget(p)
      <3>1. CASE record' = record
        BY <2>2, <3>1, SlotStutter DEF WatchForget
      <3>2. CASE record' # record
        <4>1. /\ record' = NoProc /\ record = p /\ pc[p] = "wForget"
              /\ UNCHANGED <<pstate, bypass>> /\ pc'[Main] = pc[Main]
          BY <2>2, <3>2 DEF WatchForget, Forgotten
        <4>2. ~IsRunning(record)
          BY <4>1 DEF RefInv, IsRunning
        <4> QED
          BY <1>0, <4>1, <4>2, SlotRecord
      <3> QED
        BY <3>1, <3>2
    <2>3. CASE WatchCheck(p)
      BY <2>3, SlotStutter DEF WatchCheck
    <2> QED
      BY <1>6, <2>1, <2>2, <2>3 DEF Watch
  <1>7. ASSUME NEW p \in Pid, Exit(p)
        PROVE  Seen
    <2>1. UNCHANGED <<record, bypass, pc>> /\ pstate[p] = "running"
          /\ pstate' = [pstate EXCEPT ![p] = "done"]
      BY <1>7 DEF Exit, threads
    <2>2. p \in Running /\ Running' = Running \ {p}
      BY <2>1 DEF Running, IsRunning
    <2>3. {q \in Pid : pstate[q] # "none"}' = {q \in Pid : pstate[q] # "none"}
      BY <2>1
    <2>4. Slot!Exit(p)
      BY <2>1, <2>2, <2>3 DEF Slot!Exit, Drained
    <2> QED
      BY <2>4 DEF Slot!SlotNext
  <1>8. CASE ShutdownSealHTTP \/ ShutdownStep
    <2>0. ASSUME UNCHANGED <<pstate, record, bypass>>, Drained' = Drained
          PROVE  Seen
      BY <2>0 DEF Slot!slotVars, Running, IsRunning
    <2>1. CASE ShutdownSealHTTP
      BY <2>1, <2>0 DEF ShutdownSealHTTP, Drained
    <2>2. CASE ShutdownSealStarts
      BY <2>2, <2>0 DEF ShutdownSealStarts, Drained
    <2>3. CASE ShutdownDrain
      <3>1. UNCHANGED <<pstate, record, bypass>> /\ Drained' = TRUE
        BY <2>3 DEF ShutdownDrain, Drained
      <3>2. Slot!Drain
        BY <3>1 DEF Slot!Drain, Running, IsRunning
      <3> QED
        BY <3>2 DEF Slot!SlotNext
    <2>4. CASE StopAllDetach
      BY <2>4, <2>0 DEF StopAllDetach, Drained
    <2>5. CASE StopAllWait
      BY <2>5, <2>0 DEF StopAllWait, Drained
    <2>6. CASE StopAllForget
      <3>1. CASE record' = record
        BY <2>6, <3>1, <2>0 DEF StopAllForget, Drained
      <3>2. CASE record' # record
        <4>1. /\ record' = NoProc /\ record = mine[Main] /\ pc[Main] = "allForget"
              /\ UNCHANGED <<pstate, bypass>> /\ Drained' = Drained
          BY <2>6, <3>2 DEF StopAllForget, Forgotten, Drained
        <4>2. record \notin Running
          BY <4>1 DEF RefInv, Running, IsRunning
        <4>3. Slot!Forget
          BY <4>1, <4>2 DEF Slot!Forget, Running, IsRunning
        <4> QED
          BY <4>3 DEF Slot!SlotNext
      <3> QED
        BY <3>1, <3>2
    <2>7. CASE StopAllStatus
      BY <2>7, <2>0 DEF StopAllStatus, Drained
    <2>8. CASE ShutdownWaitWatchers
      BY <2>8, <2>0 DEF ShutdownWaitWatchers, Drained
    <2> QED
      BY <1>8, <2>1, <2>2, <2>3, <2>4, <2>5, <2>6, <2>7, <2>8 DEF ShutdownStep
  <1>9. CASE UNCHANGED vars
    BY <1>9, SlotStutter DEF vars
  <1> QED
    BY <1>1, <1>2, <1>3, <1>4, <1>5, <1>6, <1>7, <1>8, <1>9 DEF Next, Step, Terminated

\* The lifecycle implements the slot: every spawn finds the slot empty unless
\* it is broken, none happens after the drain, and the record file outlives the
\* process it names.
THEOREM Refinement == Spec => ImplementsSlot
  <1>1. Init => Slot!SlotInit
    BY SlotInitially
  <1>2. IInv /\ IInv' /\ [Next]_vars => [Slot!SlotNext]_(Slot!slotVars)
    BY SlotSimulation
  <1> QED
    BY <1>1, <1>2, IInvInductive, PTL DEF Spec, ImplementsSlot, Slot!SlotSpec

\* The record file is deleted only after its process has ended.
THEOREM ForgetOnlyDeadTheorem == Spec => ForgetOnlyDead
  <1>1. IInv /\ IInv' /\ [Next]_vars =>
            [record' = NoProc => record = NoProc \/ ~IsRunning(record)]_vars
    <2> SUFFICES ASSUME IInv, IInv', [Next]_vars, record' = NoProc, IsRunning(record)
                 PROVE  FALSE
      BY DEF IInv, TypeOK
    <2>1. record \in Running /\ record # NoProc
      BY ThreadFacts DEF Running, IsRunning
    <2>2. [Slot!SlotNext]_(Slot!slotVars)
      BY SlotSimulation
    <2> QED
      BY <2>1, <2>2, ThreadFacts DEF Slot!SlotNext, Slot!slotVars, Slot!Spawn, Slot!Exit,
         Slot!Record, Slot!Forget, Slot!Drain, Slot!Break
  <1> QED
    BY <1>1, IInvInductive, PTL DEF Spec, ForgetOnlyDead

\* No process is spawned once processStarts has been drained.
THEOREM NoSpawnAfterDrainTheorem == Spec => NoSpawnAfterDrain
  <1>1. IInv /\ IInv' /\ [Next]_vars =>
            [Drained => \A p \in Pid : pstate[p] = "none" => pstate'[p] = "none"]_vars
    <2> SUFFICES ASSUME IInv, IInv', [Next]_vars, Drained,
                        NEW p \in Pid, pstate[p] = "none", pstate'[p] # "none"
                 PROVE  FALSE
      OBVIOUS
    <2>1. p \notin {q \in Pid : pstate[q] # "none"} /\ p \in {q \in Pid : pstate[q] # "none"}'
      OBVIOUS
    <2>2. [Slot!SlotNext]_(Slot!slotVars)
      BY SlotSimulation
    <2> QED
      BY <2>1, <2>2 DEF Slot!SlotNext, Slot!slotVars, Slot!Spawn, Slot!Exit,
         Slot!Record, Slot!Forget, Slot!Drain, Slot!Break
  <1> QED
    BY <1>1, IInvInductive, PTL DEF Spec, NoSpawnAfterDrain

----------------------------------------------------------------------------
(* The log of the process: lines in sequences.                             *)

\* No lines.
LEMMA NoLines == <<>> \in Seq(Line) /\ Lines(<<>>) = {} /\ Rising(<<>>) /\ Len(<<>>) = 0
  BY DEF Lines, Rising

\* What is in a sequence of lines are lines.
LEMMA LinesAreLines == ASSUME NEW s \in Seq(Line) PROVE Lines(s) \subseteq Line /\ Len(s) \in Nat
  BY DEF Lines

\* A line by itself,
LEMMA OneLine ==
    ASSUME NEW x \in Line
    PROVE  <<x>> \in Seq(Line) /\ Lines(<<x>>) = {x} /\ Rising(<<x>>) /\ Len(<<x>>) = 1
<1>1. <<x>> \in Seq(Line) /\ Len(<<x>>) = 1 /\ DOMAIN <<x>> = {1} /\ <<x>>[1] = x
  OBVIOUS
<1> QED
  BY <1>1 DEF Lines, Rising

\* at the end of others,
LEMMA LineAtEnd ==
    ASSUME NEW s \in Seq(Line), NEW x \in Line
    PROVE  /\ Append(s, x) \in Seq(Line) /\ Len(Append(s, x)) = Len(s) + 1
           /\ Lines(Append(s, x)) = Lines(s) \cup {x}
           /\ Rising(s) /\ Before(Lines(s), {x}) => Rising(Append(s, x))
<1> DEFINE t == Append(s, x)
<1>1. /\ t \in Seq(Line) /\ Len(t) = Len(s) + 1 /\ Len(s) \in Nat
      /\ DOMAIN s = 1..Len(s) /\ DOMAIN t = 1..(Len(s) + 1)
      /\ \A i \in 1..Len(s) : t[i] = s[i]
      /\ t[Len(s) + 1] = x
  OBVIOUS
<1> HIDE DEF t
<1>2. Lines(t) = Lines(s) \cup {x}
  BY <1>1 DEF Lines
<1>3. ASSUME Rising(s), Before(Lines(s), {x}) PROVE Rising(t)
  <2> SUFFICES ASSUME NEW i \in DOMAIN t, NEW j \in DOMAIN t, i < j PROVE t[i] < t[j]
    BY DEF Rising
  <2>1. i \in 1..Len(s)
    BY <1>1
  <2>2. s[i] \in Lines(s)
    BY <1>1, <2>1 DEF Lines
  <2>3. CASE j = Len(s) + 1
    BY <1>1, <1>3, <2>1, <2>2, <2>3 DEF Before
  <2>4. CASE j \in 1..Len(s)
    BY <1>1, <1>3, <2>1, <2>4 DEF Rising
  <2> QED
    BY <1>1, <2>3, <2>4
<1> QED
  BY <1>1, <1>2, <1>3 DEF t

\* and taken from the front of others.
LEMMA LineAtFront ==
    ASSUME NEW s \in Seq(Line), s # <<>>
    PROVE  /\ Head(s) \in Line /\ Tail(s) \in Seq(Line) /\ Len(s) >= 1 /\ Len(Tail(s)) = Len(s) - 1
           /\ Lines(s) = {Head(s)} \cup Lines(Tail(s))
           /\ Rising(s) => Rising(Tail(s)) /\ Before({Head(s)}, Lines(Tail(s)))
<1> DEFINE t == Tail(s)
           x == Head(s)
<1>1. /\ t \in Seq(Line) /\ Len(t) = Len(s) - 1 /\ Len(s) \in Nat /\ Len(s) >= 1
      /\ DOMAIN s = 1..Len(s) /\ DOMAIN t = 1..(Len(s) - 1)
      /\ \A i \in 1..(Len(s) - 1) : t[i] = s[i + 1]
      /\ x = s[1] /\ x \in Line
  OBVIOUS
<1> HIDE DEF t, x
<1>2. Lines(s) = {x} \cup Lines(t)
  <2>1. ASSUME NEW l \in Lines(s) PROVE l \in {x} \cup Lines(t)
    <3>1. PICK i \in 1..Len(s) : l = s[i]
      BY <1>1 DEF Lines
    <3>2. CASE i = 1
      BY <1>1, <3>1, <3>2
    <3>3. CASE i # 1
      <4>1. i - 1 \in 1..(Len(s) - 1) /\ (i - 1) + 1 = i
        BY <1>1, <3>3
      <4>2. t[i - 1] = l
        BY <1>1, <3>1, <4>1
      <4> QED
        BY <1>1, <4>1, <4>2 DEF Lines
    <3> QED
      BY <3>2, <3>3
  <2>2. x \in Lines(s)
    BY <1>1 DEF Lines
  <2>3. ASSUME NEW l \in Lines(t) PROVE l \in Lines(s)
    <3>1. PICK i \in 1..(Len(s) - 1) : l = t[i]
      BY <1>1 DEF Lines
    <3>2. i + 1 \in 1..Len(s) /\ l = s[i + 1]
      BY <1>1, <3>1
    <3> QED
      BY <1>1, <3>2 DEF Lines
  <2> QED
    BY <2>1, <2>2, <2>3
<1>3. ASSUME Rising(s) PROVE Rising(t) /\ Before({x}, Lines(t))
  <2>1. ASSUME NEW i \in DOMAIN t, NEW j \in DOMAIN t, i < j PROVE t[i] < t[j]
    <3>1. i + 1 \in DOMAIN s /\ j + 1 \in DOMAIN s /\ i + 1 < j + 1
      BY <1>1, <2>1
    <3>2. s[i + 1] < s[j + 1]
      BY <1>3, <3>1 DEF Rising
    <3> QED
      BY <1>1, <2>1, <3>2
  <2>2. ASSUME NEW l \in Lines(t) PROVE x < l
    <3>1. PICK i \in 1..(Len(s) - 1) : l = t[i]
      BY <1>1 DEF Lines
    <3>2. 1 \in DOMAIN s /\ i + 1 \in DOMAIN s /\ 1 < i + 1
      BY <1>1, <3>1
    <3>3. s[1] < s[i + 1]
      BY <1>3, <3>2 DEF Rising
    <3> QED
      BY <1>1, <3>1, <3>3
  <2> QED
    BY <2>1, <2>2 DEF Rising, Before
<1> QED
  BY <1>1, <1>2, <1>3 DEF t, x

\* Lines before others.
LEMMA LinesJoined ==
    ASSUME NEW s \in Seq(Line), NEW t \in Seq(Line)
    PROVE  /\ s \o t \in Seq(Line) /\ Len(s \o t) = Len(s) + Len(t)
           /\ Lines(s \o t) = Lines(s) \cup Lines(t)
           /\ Rising(s) /\ Rising(t) /\ Before(Lines(s), Lines(t)) => Rising(s \o t)
<1> DEFINE r == s \o t
           m == Len(s)
           n == Len(t)
<1>1. /\ r \in Seq(Line) /\ m \in Nat /\ n \in Nat /\ Len(r) = m + n
      /\ DOMAIN s = 1..m /\ DOMAIN t = 1..n /\ DOMAIN r = 1..(m + n)
      /\ \A i \in 1..m : r[i] = s[i]
      /\ \A i \in 1..n : r[m + i] = t[i]
  OBVIOUS
<1> HIDE DEF r, m, n
<1>2. ASSUME NEW i \in 1..(m + n), i \notin 1..m PROVE i - m \in 1..n /\ r[i] = t[i - m]
  <2>1. i - m \in 1..n /\ m + (i - m) = i
    BY <1>1, <1>2
  <2> QED
    BY <1>1, <2>1
<1>3. Lines(r) = Lines(s) \cup Lines(t)
  <2>1. ASSUME NEW l \in Lines(r) PROVE l \in Lines(s) \cup Lines(t)
    <3>1. PICK i \in 1..(m + n) : l = r[i]
      BY <1>1 DEF Lines
    <3>2. CASE i \in 1..m
      BY <1>1, <3>1, <3>2 DEF Lines
    <3>3. CASE i \notin 1..m
      BY <1>1, <1>2, <3>1, <3>3 DEF Lines
    <3> QED
      BY <3>2, <3>3
  <2>2. ASSUME NEW l \in Lines(s) PROVE l \in Lines(r)
    <3>1. PICK i \in 1..m : l = s[i]
      BY <1>1 DEF Lines
    <3>2. i \in 1..(m + n) /\ l = r[i]
      BY <1>1, <3>1
    <3> QED
      BY <1>1, <3>2 DEF Lines
  <2>3. ASSUME NEW l \in Lines(t) PROVE l \in Lines(r)
    <3>1. PICK i \in 1..n : l = t[i]
      BY <1>1 DEF Lines
    <3>2. m + i \in 1..(m + n) /\ l = r[m + i]
      BY <1>1, <3>1
    <3> QED
      BY <1>1, <3>2 DEF Lines
  <2> QED
    BY <2>1, <2>2, <2>3
<1>4. ASSUME Rising(s), Rising(t), Before(Lines(s), Lines(t)) PROVE Rising(r)
  <2> SUFFICES ASSUME NEW i \in 1..(m + n), NEW j \in 1..(m + n), i < j PROVE r[i] < r[j]
    BY <1>1 DEF Rising
  <2>1. CASE j \in 1..m
    <3>1. i \in 1..m
      BY <1>1, <2>1
    <3> QED
      BY <1>1, <1>4, <2>1, <3>1 DEF Rising
  <2>2. CASE i \in 1..m /\ j \notin 1..m
    <3>1. s[i] \in Lines(s) /\ t[j - m] \in Lines(t)
      BY <1>1, <1>2, <2>2 DEF Lines
    <3> QED
      BY <1>1, <1>2, <1>4, <2>2, <3>1 DEF Before
  <2>3. CASE i \notin 1..m /\ j \notin 1..m
    <3>1. i - m \in 1..n /\ j - m \in 1..n /\ i - m < j - m
      BY <1>1, <1>2, <2>3
    <3>2. t[i - m] < t[j - m]
      BY <1>1, <1>4, <3>1 DEF Rising
    <3> QED
      BY <1>2, <2>3, <3>2
  <2> QED
    BY <2>1, <2>2, <2>3
<1> QED
  BY <1>1, <1>3, <1>4 DEF r, m, n

\* The greater of two numbers.
LEMMA MaxOfTwo ==
    ASSUME NEW x \in Nat, NEW y \in Nat
    PROVE  Max({x, y}) = IF x >= y THEN x ELSE y
<1> DEFINE m == IF x >= y THEN x ELSE y
<1>1. m \in {x, y} /\ \A z \in {x, y} : m >= z
  OBVIOUS
<1>2. \A o \in {x, y} : (\A z \in {x, y} : o >= z) => o = m
  OBVIOUS
<1> QED
  BY <1>1, <1>2 DEF Max

----------------------------------------------------------------------------
(* The log: the inductive invariant.                                       *)

\* What is not in an old file yet.
Recent == Lines(current) \cup Lines(buf) \cup Lines(queue) \cup Lines(pipe)

\* LogTypeOK, with every sequence one of lines and the numbers in their order.
LogTyped ==
    /\ archiving \in BOOLEAN /\ published \in BOOLEAN /\ cold \in BOOLEAN /\ stopAsked \in BOOLEAN
    /\ reopened \in BOOLEAN /\ spoilt \in BOOLEAN /\ torn \in BOOLEAN
    /\ child \in {"off", "runs", "exited", "reaped", "closing"} /\ copier \in {"none", "copy", "ended"}
    /\ lastLine \in 0..MaxLines /\ copied \in 0..lastLine /\ cleared \in 0..copied
    /\ pipe \in Seq(Line) /\ Len(pipe) <= PipeSize /\ queue \in Seq(Line) /\ Len(queue) <= QueueSize
    /\ buf \in Seq(Line) /\ current \in Seq(Line) /\ rotated \in [1..Keep -> Seq(Line)]
    /\ file \in {"none", "open", "orphan"} /\ size \in 0..MaxSize
    /\ cons \in {"run", "clearing", "stopping", "done"}
    /\ accounted \subseteq Line /\ archived \subseteq Line
    /\ clearer \in [pc : {"idle", "asking", "waiting", "removing"}, upTo : 0..MaxLines]
    /\ clearer.upTo <= copied
    /\ clears \in 0..MaxClears /\ logFails \in 0..MaxLogFails

\* Where the process and the goroutine of the logger can be: the logger is not stopped
\* before its process was waited for, and leaves nothing behind when it is done.
LogPlaces ==
    /\ child \in {"runs", "exited", "reaped"} => ~stopAsked /\ cons \in {"run", "clearing"}
    /\ child \in {"reaped", "closing"} => pipe = <<>>
    /\ child = "off" => cons = "done" /\ pipe = <<>>
    /\ cons = "done" => child \in {"off", "closing"} /\ queue = <<>> /\ file = "none"
    /\ file = "none" => buf = <<>>

\* Every piece of the output is in order and before the next.
LogOrder ==
    /\ \A i \in 1..Keep : Rising(rotated[i]) /\ Before(Lines(rotated[i]), Recent)
    /\ \A i, k \in 1..Keep : i < k => Before(Lines(rotated[k]), Lines(rotated[i]))
    /\ Rising(current) /\ Rising(buf) /\ Rising(queue) /\ Rising(pipe)
    /\ Before(Lines(current), Lines(buf) \cup Lines(queue) \cup Lines(pipe))
    /\ Before(Lines(buf), Lines(queue) \cup Lines(pipe))
    /\ Before(Lines(queue), Lines(pipe))
    /\ Everywhere \subseteq 1..lastLine

\* No line of the output is lost, and what the audit log has rotated twice is in its
\* archive, or could not be saved there.
LogKept ==
    /\ 1..lastLine \subseteq Everywhere \cup archived \cup accounted
    /\ archiving => \A i \in 2..Keep : Lines(rotated[i]) \subseteq archived \cup accounted

\* What is in the pipe is younger than what was copied, and what was written after a
\* request to remove the files is younger than what it is to remove.
LogCleared ==
    /\ \A l \in Lines(pipe) : l > copied
    /\ ~spoilt => \A l \in Everywhere : l > cleared
    /\ ~spoilt /\ clearer.pc = "removing" =>
         \A l \in Lines(buf) \cup Lines(queue) \cup Lines(pipe) : l > clearer.upTo

\* The size counts what this logger has written, and the file held nothing before.
LogSized ==
    ~reopened => /\ Len(current) + Len(buf) <= MaxSize
                 /\ file # "none" => Len(current) + Len(buf) <= size

LogInv == LogTyped /\ LogPlaces /\ LogOrder /\ LogKept /\ LogCleared /\ LogSized

\* The bounds are numbers, and there is a file to rotate to.
LEMMA LogBounds ==
    /\ Keep \in Nat /\ Keep >= 1 /\ MaxSize \in Nat /\ MaxSize >= 1 /\ MaxLines \in Nat
    /\ PipeSize \in Nat /\ QueueSize \in Nat /\ MaxClears \in Nat /\ MaxLogFails \in Nat
  BY LogAssumption

\* The lines of the pieces are lines.
LEMMA PiecesAre ==
    ASSUME LogTyped
    PROVE  /\ Lines(pipe) \subseteq Line /\ Lines(queue) \subseteq Line /\ Lines(buf) \subseteq Line
           /\ Lines(current) \subseteq Line /\ Recent \subseteq Line
           /\ \A i \in 1..Keep : rotated[i] \in Seq(Line) /\ Lines(rotated[i]) \subseteq Line
           /\ OldLines \subseteq Line /\ Everywhere \subseteq Line
           /\ Line = 1..MaxLines
           /\ Len(current) \in Nat /\ Len(buf) \in Nat /\ Len(queue) \in Nat /\ Len(pipe) \in Nat
<1>1. /\ Lines(pipe) \subseteq Line /\ Lines(queue) \subseteq Line /\ Lines(buf) \subseteq Line
      /\ Lines(current) \subseteq Line
      /\ \A i \in 1..Keep : rotated[i] \in Seq(Line) /\ Lines(rotated[i]) \subseteq Line
      /\ Len(current) \in Nat /\ Len(buf) \in Nat /\ Len(queue) \in Nat /\ Len(pipe) \in Nat
  BY LinesAreLines DEF LogTyped
<1>2. OldLines \subseteq Line
  BY <1>1 DEF OldLines
<1> QED
  BY <1>1, <1>2 DEF Recent, Everywhere, Line

\* What an old file has is old.
LEMMA OldSays == \A l : l \in OldLines <=> \E i \in 1..Keep : l \in Lines(rotated[i])
  BY DEF OldLines

\* The same after a step.
LEMMA OldSaysAfter == \A l : l \in OldLines' <=> \E i \in 1..Keep : l \in Lines(rotated'[i])
  BY DEF OldLines

\* An empty log.
LEMMA LogBegins == LogInit => LogInv
<1> SUFFICES ASSUME LogInit PROVE LogInv
  OBVIOUS
<1> USE NoLines, LogBounds DEF LogInit
<1>1. rotated \in [1..Keep -> Seq(Line)] /\ \A i \in 1..Keep : rotated[i] = <<>> /\ Lines(rotated[i]) = {}
  OBVIOUS
<1>2. /\ Lines(current) = {} /\ Lines(buf) = {} /\ Lines(queue) = {} /\ Lines(pipe) = {} /\ OldLines = {}
      /\ Recent = {} /\ Everywhere = {}
  <2>1. Lines(current) = {} /\ Lines(buf) = {} /\ Lines(queue) = {} /\ Lines(pipe) = {}
    OBVIOUS
  <2>2. OldLines = {}
    BY <1>1, OldSays
  <2> QED
    BY <2>1, <2>2 DEF Recent, Everywhere
<1>3. LogTyped
  <2>1. clearer \in [pc : {"idle", "asking", "waiting", "removing"}, upTo : 0..MaxLines] /\ clearer.upTo = 0
    OBVIOUS
  <2>2. /\ pipe \in Seq(Line) /\ queue \in Seq(Line) /\ buf \in Seq(Line) /\ current \in Seq(Line)
        /\ Len(pipe) <= PipeSize /\ Len(queue) <= QueueSize
    OBVIOUS
  <2>3. lastLine \in 0..MaxLines /\ copied \in 0..lastLine /\ cleared \in 0..copied /\ size \in 0..MaxSize
        /\ clears \in 0..MaxClears /\ logFails \in 0..MaxLogFails /\ clearer.upTo <= copied
    BY <2>1
  <2>4. /\ archiving \in BOOLEAN /\ published \in BOOLEAN /\ cold \in BOOLEAN /\ stopAsked \in BOOLEAN
        /\ reopened \in BOOLEAN /\ spoilt \in BOOLEAN /\ torn \in BOOLEAN
        /\ accounted \subseteq Line /\ archived \subseteq Line
    OBVIOUS
  <2> QED
    BY <1>1, <2>1, <2>2, <2>3, <2>4, Zenon DEF LogTyped
<1>4. LogPlaces
  BY DEF LogPlaces
<1>5. LogOrder
  BY <1>1, <1>2 DEF LogOrder, Before
<1>6. LogKept
  BY <1>1, <1>2 DEF LogKept
<1>7. LogCleared
  BY <1>2 DEF LogCleared
<1>8. LogSized
  BY DEF LogSized
<1> QED
  BY <1>3, <1>4, <1>5, <1>6, <1>7, <1>8 DEF LogInv

\* The invariant says what the log promises.
LEMMA LogInvHolds == LogInv => LogTypeOK /\ LogHolds
<1> SUFFICES ASSUME LogInv PROVE LogTypeOK /\ LogHolds
  OBVIOUS
<1>1. LogTyped /\ LogPlaces /\ LogOrder /\ LogKept /\ LogCleared /\ LogSized
  BY DEF LogInv
<1>2. LogTypeOK
  BY <1>1, PiecesAre, LogBounds DEF LogTyped, LogTypeOK
<1>3. LinesInOrder
  <2> DEFINE At(p) == LinesAt(p)
  <2>1. /\ \A p \in 1..Keep : At(p) = rotated[Keep + 1 - p] /\ Keep + 1 - p \in 1..Keep
        /\ At(Keep + 1) = current /\ At(Keep + 2) = buf /\ At(Keep + 3) = queue /\ At(Keep + 4) = pipe
    <3>1. \A p \in 1..Keep : At(p) = rotated[Keep + 1 - p] /\ Keep + 1 - p \in 1..Keep
      BY LogBounds DEF LinesAt
    <3>2. At(Keep + 1) = current
      BY LogBounds DEF LinesAt
    <3>3. At(Keep + 2) = buf
      BY LogBounds DEF LinesAt
    <3>4. At(Keep + 3) = queue
      BY LogBounds DEF LinesAt
    <3>5. At(Keep + 4) = pipe
      BY LogBounds DEF LinesAt
    <3> QED
      BY <3>1, <3>2, <3>3, <3>4, <3>5
  <2>2. \A p \in Place : p \in 1..Keep \/ p \in {Keep + 1, Keep + 2, Keep + 3, Keep + 4}
    BY LogBounds DEF Place
  <2> HIDE DEF At
  <2>3. ASSUME NEW p \in Place PROVE Rising(At(p))
    BY <1>1, <2>1, <2>2 DEF LogOrder
  <2>4. ASSUME NEW p \in Place, NEW o \in Place, p < o PROVE Before(Lines(At(p)), Lines(At(o)))
    <3>1. CASE p \in 1..Keep /\ o \in 1..Keep
      <4>1. Keep + 1 - o < Keep + 1 - p
        BY <2>4, <3>1, LogBounds
      <4> QED
        BY <1>1, <2>1, <3>1, <4>1 DEF LogOrder
    <3>2. CASE p \in 1..Keep /\ o \notin 1..Keep
      <4>1. Lines(At(o)) \subseteq Recent
        BY <2>1, <2>2, <3>2 DEF Recent
      <4>2. Before(Lines(At(p)), Recent)
        BY <1>1, <2>1, <3>2 DEF LogOrder
      <4> QED
        BY <4>1, <4>2 DEF Before
    <3>3. CASE p \notin 1..Keep
      <4>1. p \in {Keep + 1, Keep + 2, Keep + 3} /\ o \in {Keep + 2, Keep + 3, Keep + 4}
        BY <2>2, <2>4, <3>3, LogBounds
      <4>2. CASE p = Keep + 1
        <5>1. Lines(At(o)) \subseteq Lines(buf) \cup Lines(queue) \cup Lines(pipe)
          BY <2>1, <4>1
        <5> QED
          BY <1>1, <2>1, <4>2, <5>1 DEF LogOrder, Before
      <4>3. CASE p = Keep + 2
        <5>0. o \in {Keep + 3, Keep + 4}
          BY <2>4, <4>1, <4>3, LogBounds
        <5>1. Lines(At(o)) \subseteq Lines(queue) \cup Lines(pipe)
          BY <2>1, <5>0
        <5> QED
          BY <1>1, <2>1, <4>3, <5>1 DEF LogOrder, Before
      <4>4. CASE p = Keep + 3
        <5>0. o = Keep + 4
          BY <2>4, <4>1, <4>4, LogBounds
        <5> QED
          BY <1>1, <2>1, <4>4, <5>0 DEF LogOrder
      <4> QED
        BY <4>1, <4>2, <4>3, <4>4
    <3> QED
      BY <2>2, <3>1, <3>2, <3>3
  <2> QED
    BY <2>3, <2>4 DEF LinesInOrder, At
<1>4. NoLineIsLost
  BY <1>1, LogBounds DEF LogTyped, LogKept, NoLineIsLost
<1> QED
  BY <1>1, <1>2, <1>3, <1>4 DEF LogHolds, ClearedIsGone, LogCleared, SizeIsBounded, LogSized

----------------------------------------------------------------------------
(* The log: what a step does to the order of the lines.                    *)

\* Lines are in the old files or younger.
LEMMA EverywhereIs == Everywhere = OldLines \cup Recent
  BY DEF Everywhere, Recent

\* The same after a step.
LEMMA EverywhereIsThen == Everywhere' = OldLines' \cup Recent'
  BY DEF Everywhere, Recent

\* The young pieces are in order and each before the next.
RecentInOrder ==
    /\ Rising(current) /\ Rising(buf) /\ Rising(queue) /\ Rising(pipe)
    /\ Before(Lines(current), Lines(buf) \cup Lines(queue) \cup Lines(pipe))
    /\ Before(Lines(buf), Lines(queue) \cup Lines(pipe))
    /\ Before(Lines(queue), Lines(pipe))

\* Lines that go on to the next piece, or are dropped and accounted for, leave the old
\* files alone.
LEMMA LinesMoveOn ==
    ASSUME LogInv, rotated' = rotated, lastLine' = lastLine, archived \subseteq archived',
           archiving' = archiving, Recent' \subseteq Recent, Recent \subseteq Recent' \cup accounted', accounted \subseteq accounted',
           RecentInOrder'
    PROVE  LogOrder' /\ LogKept' /\ Everywhere' \subseteq Everywhere
<1>1. LogOrder /\ LogKept
  BY DEF LogInv
<1>2. OldLines' = OldLines
  BY DEF OldLines
<1>3. Everywhere' \subseteq Everywhere /\ Everywhere \subseteq Everywhere' \cup accounted'
  BY <1>2, EverywhereIs, EverywhereIsThen
<1>4. \A i \in 1..Keep : Rising(rotated'[i]) /\ Before(Lines(rotated'[i]), Recent')
  BY <1>1 DEF LogOrder, Before
<1>5. \A i, k \in 1..Keep : i < k => Before(Lines(rotated'[k]), Lines(rotated'[i]))
  BY <1>1 DEF LogOrder
<1>6. LogOrder'
  BY <1>1, <1>3, <1>4, <1>5 DEF LogOrder, RecentInOrder
<1>7. LogKept'
  BY <1>1, <1>3 DEF LogKept
<1> QED
  BY <1>3, <1>6, <1>7

\* Nor do lines that are removed with the old files, but for those of which it fails.
LEMMA OldFilesGo ==
    ASSUME LogInv, NEW left \in SUBSET (0..Keep),
           rotated' = [i \in 1..Keep |-> IF i \in left THEN rotated[i] ELSE <<>>],
           lastLine' = lastLine, archived' = archived, archiving' = archiving,
           accounted \cup OldLinesBut(left) \subseteq accounted',
           Recent' \subseteq Recent, Recent \subseteq Recent' \cup accounted', RecentInOrder'
    PROVE  /\ LogOrder' /\ LogKept' /\ Everywhere' \subseteq Everywhere
           /\ rotated' \in [1..Keep -> Seq(Line)] /\ (left = {} => Everywhere' = Recent')
<1>1. LogOrder /\ LogKept /\ LogTyped
  BY DEF LogInv
<1>2. /\ \A i \in (1..Keep) \ left : rotated'[i] = <<>> /\ Lines(rotated'[i]) = {} /\ Rising(rotated'[i])
      /\ \A i \in (1..Keep) \cap left : rotated'[i] = rotated[i]
  BY NoLines
<1>3. rotated' \in [1..Keep -> Seq(Line)]
  BY <1>1, NoLines DEF LogTyped
<1>4. \A l \in OldLines' : l \in OldLines
  BY <1>2, OldSays, OldSaysAfter
<1>5. Everywhere' \subseteq Everywhere
  BY <1>4, EverywhereIs, EverywhereIsThen
<1>6. \A l \in OldLines : l \in OldLines' \/ l \in accounted'
  <2> SUFFICES ASSUME NEW l \in OldLines PROVE l \in OldLines' \/ l \in accounted'
    OBVIOUS
  <2>1. PICK i \in 1..Keep : l \in Lines(rotated[i])
    BY OldSays
  <2>2. CASE i \in left
    BY <1>2, <2>1, <2>2, OldSaysAfter
  <2>3. CASE i \notin left
    BY <2>1, <2>3 DEF OldLinesBut
  <2> QED
    BY <2>2, <2>3
<1>7. Everywhere \subseteq Everywhere' \cup accounted'
  BY <1>6, EverywhereIs, EverywhereIsThen
<1>8. LogOrder'
  <2>1. ASSUME NEW i \in 1..Keep PROVE Rising(rotated'[i]) /\ Before(Lines(rotated'[i]), Recent')
    <3>1. CASE i \in left
      BY <1>1, <1>2, <3>1 DEF LogOrder, Before
    <3>2. CASE i \notin left
      BY <1>2, <3>2 DEF Before
    <3> QED
      BY <3>1, <3>2
  <2>2. ASSUME NEW i \in 1..Keep, NEW k \in 1..Keep, i < k PROVE Before(Lines(rotated'[k]), Lines(rotated'[i]))
    <3>1. CASE i \in left /\ k \in left
      BY <1>1, <1>2, <2>2, <3>1 DEF LogOrder
    <3>2. CASE i \notin left \/ k \notin left
      BY <1>2, <3>2 DEF Before
    <3> QED
      BY <3>1, <3>2
  <2>3. Everywhere' \subseteq 1..lastLine'
    BY <1>1, <1>5 DEF LogOrder
  <2> QED
    BY <2>1, <2>2, <2>3 DEF LogOrder, RecentInOrder
<1>9. LogKept'
  <2>1. \A i \in 2..Keep : i \in 1..Keep
    BY LogBounds
  <2>2. 1..lastLine' \subseteq Everywhere' \cup archived' \cup accounted'
    BY <1>1, <1>7 DEF LogKept
  <2>3. archiving' => \A i \in 2..Keep : Lines(rotated'[i]) \subseteq archived' \cup accounted'
    BY <1>1, <1>2, <2>1 DEF LogKept
  <2> QED
    BY <2>2, <2>3 DEF LogKept
<1>10. ASSUME left = {} PROVE Everywhere' = Recent'
  BY <1>2, <1>10, OldSaysAfter, EverywhereIsThen
<1> QED
  BY <1>3, <1>5, <1>8, <1>9, <1>10

\* A step that leaves all lines where they are.
LEMMA LinesStay ==
    ASSUME LogInv, UNCHANGED <<pipe, lastLine, queue, buf, diskVars, accounted, archiving>>
    PROVE  LogOrder' /\ LogKept' /\ Everywhere' = Everywhere
<1> USE DEF diskVars
<1>1. Recent' = Recent
  BY DEF Recent
<1>2. RecentInOrder'
  BY DEF LogInv, LogOrder, RecentInOrder
<1>3. OldLines' = OldLines
  BY DEF OldLines
<1>4. Everywhere' = Everywhere
  BY <1>1, <1>3, EverywhereIs, EverywhereIsThen
<1>5. Recent' \subseteq Recent /\ Recent \subseteq Recent' \cup accounted' /\ accounted \subseteq accounted'
  BY <1>1
<1> QED
  BY <1>2, <1>4, <1>5, LinesMoveOn

\* What reaches the file of what is in the buffer.
LEMMA FlushSays ==
    ASSUME LogInv
    PROVE  /\ Flushed \in Seq(Line) /\ Rising(Flushed) /\ Len(Flushed) <= Len(current) + Len(buf)
           /\ Lines(Flushed) \subseteq Lines(current) \cup Lines(buf)
           /\ Lines(current) \cup Lines(buf) = Lines(Flushed) \cup Astray
           /\ Astray \subseteq Lines(buf) /\ Len(Flushed) \in Nat
<1>1. /\ current \in Seq(Line) /\ buf \in Seq(Line) /\ file \in {"none", "open", "orphan"}
      /\ Rising(current) /\ Rising(buf) /\ Before(Lines(current), Lines(buf)) /\ (file = "none" => buf = <<>>)
  BY DEF LogInv, LogTyped, LogOrder, LogPlaces, Before
<1>2. Len(current) \in Nat /\ Len(buf) \in Nat
  BY <1>1, LinesAreLines
<1>3. CASE file = "open"
  <2>1. Flushed = current \o buf /\ Astray = {}
    BY <1>3 DEF Flushed, Astray
  <2> QED
    BY <1>1, <1>2, <2>1, LinesJoined
<1>4. CASE file = "orphan"
  <2>1. Flushed = current /\ Astray = Lines(buf)
    BY <1>4 DEF Flushed, Astray
  <2> QED
    BY <1>1, <1>2, <2>1
<1>5. CASE file = "none"
  <2>1. Flushed = current /\ Astray = {} /\ Lines(buf) = {}
    BY <1>1, <1>5, NoLines DEF Flushed, Astray
  <2> QED
    BY <1>1, <1>2, <2>1
<1> QED
  BY <1>1, <1>3, <1>4, <1>5

----------------------------------------------------------------------------
(* The log: every action keeps the invariant.                              *)

\* The invariant, part by part.
LEMMA LogParts ==
    ASSUME LogInv
    PROVE  LogTyped /\ LogPlaces /\ LogOrder /\ LogKept /\ LogCleared /\ LogSized /\ RecentInOrder
  BY DEF LogInv, LogOrder, RecentInOrder

\* What begins, ends, waits or is asked leaves the lines where they are: the process and
\* the goroutine beside it (startProcess), the time after a failure, and the requests.
LEMMA QuietLog ==
    ASSUME LogInv,
           \/ StartWriter \/ PublishWriter \/ WriterExits \/ CopierEnds \/ CloseLogger \/ CloseReturns
           \/ CoolDown \/ TakeClear \/ TakeStop \/ AskClear \/ GiveUpClear
    PROVE  LogInv'
<1> DEFINE Alike == UNCHANGED <<pipe, lastLine, queue, buf, diskVars, accounted, archiving, copied, cleared>>
           Rest == LogTyped' /\ LogPlaces' /\ LogCleared' /\ LogSized'
<1>1. LogTyped /\ LogPlaces /\ LogCleared /\ LogSized
  BY LogParts
<1>2. ASSUME Alike, Rest PROVE LogInv'
  BY <1>2, LinesStay DEF LogInv
<1>3. ASSUME Alike PROVE Everywhere' = Everywhere
  BY <1>3, LinesStay
<1> USE DEF outputVars, loggerVars, diskVars, clearVars, logHistory
<1>4. ASSUME Alike, UNCHANGED <<spoilt, clearer>> PROVE LogCleared'
  BY <1>1, <1>3, <1>4 DEF LogCleared
<1>5. ASSUME Alike, UNCHANGED <<reopened, file, size>> PROVE LogSized'
  BY <1>1, <1>5 DEF LogSized
<1>6. CASE StartWriter
  <2>1. Alike /\ UNCHANGED <<spoilt, clearer>>
    BY <1>6 DEF StartWriter
  <2>2. LogTyped'
    <3>1. /\ cold' \in BOOLEAN /\ stopAsked' \in BOOLEAN
          /\ UNCHANGED <<archiving, published, reopened, spoilt, torn>>
      BY <1>6, Zenon DEF StartWriter
    <3>2. /\ child' = "runs" /\ copier' = "copy" /\ cons' = "run" /\ size' = 0
          /\ UNCHANGED <<lastLine, copied, cleared, pipe, queue, buf, current, rotated, file, accounted,
                 archived, clearer, clears, logFails>>
      BY <1>6 DEF StartWriter
    <3> QED
      BY <1>1, <3>1, <3>2, LogBounds DEF LogTyped
  <2>3. LogPlaces' /\ LogSized'
    BY <1>1, <1>6 DEF StartWriter, LogPlaces, LogSized
  <2> QED
    BY <1>2, <1>4, <2>1, <2>2, <2>3
<1>7. CASE PublishWriter
  <2>1. Alike /\ UNCHANGED <<spoilt, clearer, reopened, file, size>>
    BY <1>7 DEF PublishWriter
  <2>2. LogTyped' /\ LogPlaces'
    BY <1>1, <1>7 DEF PublishWriter, LogTyped, LogPlaces
  <2> QED
    BY <1>2, <1>4, <1>5, <2>1, <2>2
<1>8. CASE WriterExits
  <2>1. Alike /\ UNCHANGED <<spoilt, clearer, reopened, file, size>>
    BY <1>8 DEF WriterExits
  <2>2. LogTyped' /\ LogPlaces'
    BY <1>1, <1>8 DEF WriterExits, LogTyped, LogPlaces
  <2> QED
    BY <1>2, <1>4, <1>5, <2>1, <2>2
<1>9. CASE CopierEnds
  <2>1. Alike /\ UNCHANGED <<spoilt, clearer, reopened, file, size>>
    BY <1>9 DEF CopierEnds
  <2>2. LogTyped' /\ LogPlaces'
    BY <1>1, <1>9 DEF CopierEnds, LogTyped, LogPlaces
  <2> QED
    BY <1>2, <1>4, <1>5, <2>1, <2>2
<1>10. CASE CloseLogger
  <2>1. Alike /\ UNCHANGED <<spoilt, clearer, reopened, file, size>>
    BY <1>10 DEF CloseLogger
  <2>2. LogTyped' /\ LogPlaces'
    BY <1>1, <1>10 DEF CloseLogger, LogTyped, LogPlaces
  <2> QED
    BY <1>2, <1>4, <1>5, <2>1, <2>2
<1>11. CASE CloseReturns
  <2>1. Alike /\ UNCHANGED <<spoilt, clearer, reopened, file, size>>
    BY <1>11 DEF CloseReturns
  <2>2. LogTyped' /\ LogPlaces'
    BY <1>1, <1>11 DEF CloseReturns, LogTyped, LogPlaces
  <2> QED
    BY <1>2, <1>4, <1>5, <2>1, <2>2
<1>12. CASE CoolDown
  <2>1. Alike /\ UNCHANGED <<spoilt, clearer, reopened, file, size>>
    BY <1>12 DEF CoolDown
  <2>2. LogTyped'
    <3>1. cold' \in BOOLEAN
      BY <1>12, Zenon DEF CoolDown
    <3>2. UNCHANGED <<archiving, published, reopened, spoilt, torn, stopAsked, child, copier, cons, size,
              lastLine, copied, cleared, pipe, queue, buf, current, rotated, file, accounted, archived, clearer,
                      clears, logFails>>
      BY <1>12, Zenon DEF CoolDown
    <3> QED
      BY <1>1, <3>1, <3>2 DEF LogTyped
  <2>3. LogPlaces'
    BY <1>1, <1>12 DEF CoolDown, LogPlaces
  <2> QED
    BY <1>2, <1>4, <1>5, <2>1, <2>2, <2>3
<1>13. CASE TakeClear
  <2>1. Alike /\ UNCHANGED <<spoilt, reopened, file, size>>
    BY <1>13 DEF TakeClear
  <2>2. clearer'.pc = "waiting" /\ clearer'.upTo = clearer.upTo
        /\ clearer' \in [pc : {"idle", "asking", "waiting", "removing"}, upTo : 0..MaxLines]
    BY <1>1, <1>13 DEF TakeClear, LogTyped
  <2>3. LogTyped'
    BY <1>1, <1>13, <2>2 DEF TakeClear, LogTyped
  <2>4. LogPlaces'
    BY <1>1, <1>13 DEF TakeClear, LogPlaces
  <2>5. LogCleared'
    BY <1>1, <1>3, <2>1, <2>2 DEF LogCleared
  <2> QED
    BY <1>2, <1>5, <2>1, <2>3, <2>4, <2>5
<1>14. CASE TakeStop
  <2>1. Alike /\ UNCHANGED <<spoilt, clearer, reopened, file, size>>
    BY <1>14 DEF TakeStop
  <2>2. LogTyped' /\ LogPlaces'
    BY <1>1, <1>14 DEF TakeStop, LogTyped, LogPlaces
  <2> QED
    BY <1>2, <1>4, <1>5, <2>1, <2>2
<1>15. CASE AskClear
  <2>1. Alike /\ UNCHANGED <<reopened, file, size>>
    BY <1>15 DEF AskClear
  <2>2. /\ clearer' = [pc |-> IF published THEN "asking" ELSE "removing", upTo |-> copied]
        /\ clearer' \in [pc : {"idle", "asking", "waiting", "removing"}, upTo : 0..MaxLines]
        /\ clearer'.upTo = copied /\ clearer'.pc = IF published THEN "asking" ELSE "removing"
    <3>1. copied \in 0..MaxLines
      BY <1>1, LogBounds DEF LogTyped
    <3> QED
      BY <1>15, <3>1 DEF AskClear
  <2>3. LogTyped'
    BY <1>1, <1>15, <2>2, LogBounds DEF AskClear, LogTyped
  <2>4. LogPlaces'
    BY <1>1, <1>15 DEF AskClear, LogPlaces
  <2>5. LogCleared'
    <3>1. ~spoilt' => ~spoilt /\ (published \/ child = "off")
      BY <1>1, <1>15 DEF AskClear, LogTyped
    <3>2. child = "off" => Lines(buf) = {} /\ Lines(queue) = {} /\ Lines(pipe) = {}
      BY <1>1, NoLines DEF LogPlaces
    <3> QED
      BY <1>1, <1>3, <2>1, <2>2, <3>1, <3>2 DEF LogCleared
  <2> QED
    BY <1>2, <1>5, <2>1, <2>3, <2>4, <2>5
<1>16. CASE GiveUpClear
  <2>1. Alike /\ UNCHANGED <<spoilt, reopened, file, size>>
    BY <1>16 DEF GiveUpClear
  <2>2. clearer' = [pc |-> "idle", upTo |-> 0] /\ clearer'.upTo = 0 /\ clearer'.pc = "idle"
        /\ clearer' \in [pc : {"idle", "asking", "waiting", "removing"}, upTo : 0..MaxLines]
    BY <1>16, LogBounds DEF GiveUpClear
  <2>3. LogTyped'
    BY <1>1, <1>16, <2>2, LogBounds DEF GiveUpClear, LogTyped
  <2>4. LogPlaces'
    BY <1>1, <1>16 DEF GiveUpClear, LogPlaces
  <2>5. LogCleared'
    BY <1>1, <1>3, <2>1, <2>2 DEF LogCleared
  <2> QED
    BY <1>2, <1>5, <2>1, <2>3, <2>4, <2>5
<1> QED
  BY <1>6, <1>7, <1>8, <1>9, <1>10, <1>11, <1>12, <1>13, <1>14, <1>15, <1>16

\* The process writes a line: it is younger than all.
LEMMA EmitLineKeeps == ASSUME LogInv, EmitLine PROVE LogInv'
<1> DEFINE new == lastLine + 1
<1> USE DEF outputVars, loggerVars, diskVars, clearVars, logHistory, EmitLine
<1>1. LogTyped /\ LogPlaces /\ LogOrder /\ LogKept /\ LogCleared /\ LogSized /\ RecentInOrder
  BY LogParts
<1>2. new \in Line /\ lastLine \in Nat /\ new > lastLine /\ lastLine' = new /\ pipe' = Append(pipe, new)
  BY <1>1, LogBounds DEF LogTyped, Line
<1>3. Lines(pipe) \subseteq 1..lastLine /\ Everywhere \subseteq 1..lastLine /\ Recent \subseteq 1..lastLine
  BY <1>1 DEF LogOrder, Everywhere, Recent
<1>4. Before(Everywhere, {new}) /\ Before(Lines(pipe), {new})
  BY <1>2, <1>3 DEF Before
<1>5. /\ pipe' \in Seq(Line) /\ Len(pipe') = Len(pipe) + 1
      /\ Lines(pipe') = Lines(pipe) \cup {new} /\ Rising(pipe')
  BY <1>1, <1>2, <1>4, LineAtEnd DEF LogTyped, RecentInOrder
<1> HIDE DEF new
<1>6. Recent' = Recent \cup {new} /\ OldLines' = OldLines /\ Everywhere' = Everywhere \cup {new}
  <2>1. Recent' = Recent \cup {new}
    BY <1>5 DEF Recent
  <2>2. OldLines' = OldLines
    BY DEF OldLines
  <2> QED
    BY <2>1, <2>2, EverywhereIs, EverywhereIsThen
<1>7. LogTyped'
  BY <1>1, <1>2, <1>5, LogBounds, PiecesAre DEF LogTyped
<1>8. LogPlaces'
  BY <1>1 DEF LogPlaces
<1>9. LogOrder'
  <2>1. \A i \in 1..Keep : Before(Lines(rotated[i]), Recent')
    <3> SUFFICES ASSUME NEW i \in 1..Keep, NEW l \in Lines(rotated[i]), NEW o \in Recent' PROVE l < o
      BY DEF Before
    <3>1. l \in Everywhere
      BY OldSays, EverywhereIs
    <3> QED
      BY <1>1, <1>4, <1>6, <3>1 DEF LogOrder, Before
  <2>2. /\ Before(Lines(current), Lines(buf) \cup Lines(queue) \cup Lines(pipe'))
        /\ Before(Lines(buf), Lines(queue) \cup Lines(pipe'))
        /\ Before(Lines(queue), Lines(pipe'))
    BY <1>1, <1>4, <1>5 DEF RecentInOrder, Before, Everywhere
  <2>3. Everywhere' \subseteq 1..lastLine'
    BY <1>2, <1>3, <1>6
  <2> QED
    BY <1>1, <1>5, <2>1, <2>2, <2>3 DEF LogOrder
<1>10. LogKept'
  <2>1. 1..lastLine' = 1..lastLine \cup {new}
    BY <1>2 DEF new
  <2> QED
    BY <1>1, <1>6, <2>1 DEF LogKept
<1>11. LogCleared'
  <2>1. new > copied /\ new > cleared /\ new > clearer.upTo
    <3>1. copied \in Nat /\ cleared \in Nat /\ clearer.upTo \in Nat /\ copied <= lastLine /\ cleared <= copied
          /\ clearer.upTo <= copied
      BY <1>1, <1>2 DEF LogTyped
    <3> QED
      BY <1>2, <3>1
  <2> QED
    BY <1>1, <1>5, <1>6, <2>1 DEF LogCleared
<1>12. LogSized'
  BY <1>1 DEF LogSized
<1> QED
  BY <1>7, <1>8, <1>9, <1>10, <1>11, <1>12 DEF LogInv

\* A line is copied into the queue, or dropped when that is full (Write).
LEMMA CopyLineKeeps == ASSUME LogInv, CopyLine PROVE LogInv'
<1> USE DEF outputVars, loggerVars, diskVars, clearVars, logHistory
<1> DEFINE new == Head(pipe)
<1>1. LogTyped /\ LogPlaces /\ LogOrder /\ LogKept /\ LogCleared /\ LogSized /\ RecentInOrder
  BY LogParts
<1>2. /\ new \in Line /\ pipe' = Tail(pipe) /\ pipe' \in Seq(Line) /\ Len(pipe') = Len(pipe) - 1
      /\ Lines(pipe) = {new} \cup Lines(pipe') /\ Rising(pipe') /\ Before({new}, Lines(pipe')) /\ copied' = new
  BY <1>1, LineAtFront DEF CopyLine, LogTyped, RecentInOrder
<1> HIDE DEF new
<1>3. Before(Lines(queue), {new}) /\ new > copied /\ new <= lastLine /\ new \in Nat /\ lastLine \in Nat
  <2>1. new \in Lines(pipe) /\ new \in Everywhere
    BY <1>2 DEF Everywhere
  <2>2. Before(Lines(queue), {new})
    BY <1>1, <2>1 DEF RecentInOrder, Before
  <2>3. new > copied
    BY <1>1, <2>1 DEF LogCleared
  <2>4. new \in 1..lastLine /\ lastLine \in Nat
    BY <1>1, <2>1, LogBounds DEF LogOrder, LogTyped
  <2> QED
    BY <2>2, <2>3, <2>4
<1>4. /\ queue' \in Seq(Line) /\ Len(queue') <= QueueSize /\ Rising(queue')
      /\ accounted \subseteq accounted' /\ accounted' \subseteq accounted \cup {new}
      /\ Lines(queue) \subseteq Lines(queue') /\ Lines(queue') \subseteq Lines(queue) \cup {new}
      /\ new \in Lines(queue') \cup accounted'
  <2>1. CASE Len(queue) < QueueSize
    <3>1. queue' = Append(queue, new) /\ accounted' = accounted
      BY <2>1 DEF CopyLine, new
    <3> QED
      <4>1. queue \in Seq(Line) /\ Len(queue) \in Nat /\ Rising(queue)
        BY <1>1, PiecesAre DEF LogTyped, RecentInOrder
      <4>2. /\ queue' \in Seq(Line) /\ Len(queue') = Len(queue) + 1 /\ Rising(queue')
            /\ Lines(queue') = Lines(queue) \cup {new}
        BY <1>2, <1>3, <3>1, <4>1, LineAtEnd
      <4>3. Len(queue') <= QueueSize
        BY <2>1, <4>1, <4>2, LogBounds
      <4> QED
        BY <3>1, <4>2, <4>3
  <2>2. CASE ~(Len(queue) < QueueSize)
    <3>1. queue' = queue /\ accounted' = accounted \cup {new}
      BY <2>2 DEF CopyLine, new
    <3> QED
      BY <1>1, <3>1 DEF LogTyped, RecentInOrder
  <2> QED
    BY <2>1, <2>2
<1>5. UNCHANGED <<rotated, lastLine, archived, archiving, current, buf, file, size, cold, cons, stopAsked,
          child, copier, published, clearer, clears, logFails, torn, cleared, reopened, spoilt>>
  BY DEF CopyLine
<1>6. Recent' \subseteq Recent /\ Recent \subseteq Recent' \cup accounted'
  BY <1>2, <1>4, <1>5 DEF Recent
<1>7. RecentInOrder'
  BY <1>1, <1>2, <1>3, <1>4, <1>5 DEF RecentInOrder, Before
<1>8. LogOrder' /\ LogKept' /\ Everywhere' \subseteq Everywhere
  BY <1>4, <1>5, <1>6, <1>7, LinesMoveOn
<1>9. LogTyped'
  <2>1. copied' \in 0..lastLine /\ cleared \in 0..copied' /\ clearer.upTo <= copied'
    BY <1>1, <1>2, <1>3 DEF LogTyped
  <2>2. Len(pipe') <= PipeSize /\ accounted' \subseteq Line
    BY <1>1, <1>2, <1>4, LogBounds, PiecesAre DEF LogTyped
  <2> QED
    BY <1>1, <1>2, <1>4, <1>5, <2>1, <2>2 DEF LogTyped
<1>10. LogPlaces'
  <2>1. child \in {"runs", "exited"}
    BY <1>1 DEF LogPlaces, LogTyped, CopyLine
  <2> QED
    BY <1>1, <1>5, <2>1 DEF LogPlaces
<1>11. LogCleared'
  <2>1. \A l \in Lines(pipe') : l > copied'
    BY <1>2, <1>3, <1>9, PiecesAre, LinesAreLines, LogBounds DEF Before, Line
  <2>2. Lines(buf') \cup Lines(queue') \cup Lines(pipe') \subseteq Lines(buf) \cup Lines(queue) \cup Lines(pipe)
    BY <1>2, <1>4, <1>5
  <2> QED
    BY <1>1, <1>5, <1>8, <2>1, <2>2 DEF LogCleared
<1>12. LogSized'
  BY <1>1, <1>5 DEF LogSized
<1> QED
  BY <1>8, <1>9, <1>10, <1>11, <1>12 DEF LogInv

\* Wait closes the pipe: what is in it is lost, and accounted for.
LEMMA WaitReturnsKeeps == ASSUME LogInv, WaitReturns PROVE LogInv'
<1> USE DEF outputVars, loggerVars, diskVars, clearVars, logHistory
<1>1. LogTyped /\ LogPlaces /\ LogOrder /\ LogKept /\ LogCleared /\ LogSized /\ RecentInOrder
  BY LogParts
<1>2. /\ UNCHANGED <<rotated, lastLine, archived, archiving, queue, current, buf, file, size, cold, cons,
             stopAsked, copied, copier, published, clearer, clears, logFails, cleared, reopened, spoilt>>
      /\ pipe' = <<>> /\ accounted' = accounted \cup Lines(pipe) /\ child = "exited" /\ child' = "reaped"
  BY DEF WaitReturns
<1>3. Lines(pipe') = {} /\ pipe' \in Seq(Line) /\ Rising(pipe') /\ Len(pipe') = 0
  BY <1>2, NoLines
<1>4. Recent' \subseteq Recent /\ Recent \subseteq Recent' \cup accounted' /\ accounted \subseteq accounted'
  BY <1>2, <1>3 DEF Recent
<1>5. RecentInOrder'
  BY <1>1, <1>2, <1>3 DEF RecentInOrder, Before
<1>6. LogOrder' /\ LogKept' /\ Everywhere' \subseteq Everywhere
  BY <1>2, <1>4, <1>5, LinesMoveOn
<1>7. LogTyped'
  <2>1. torn' \in BOOLEAN
    BY Zenon DEF WaitReturns
  <2>2. accounted' \subseteq Line /\ Len(pipe') <= PipeSize
    BY <1>1, <1>2, <1>3, PiecesAre, LogBounds DEF LogTyped
  <2> QED
    BY <1>1, <1>2, <1>3, <2>1, <2>2 DEF LogTyped
<1>8. LogPlaces'
  BY <1>1, <1>2 DEF LogPlaces
<1>9. LogCleared'
  BY <1>1, <1>2, <1>3, <1>6 DEF LogCleared
<1>10. LogSized'
  BY <1>1, <1>2 DEF LogSized
<1> QED
  BY <1>6, <1>7, <1>8, <1>9, <1>10 DEF LogInv

\* A line is taken from the queue: it is older than what is left there.
LEMMA TakenLine ==
    ASSUME LogInv, TakesLine
    PROVE  /\ Head(queue) \in Line /\ queue' \in Seq(Line) /\ Len(queue') <= QueueSize
           /\ Lines(queue) = {Head(queue)} \cup Lines(queue') /\ Rising(queue')
           /\ Before({Head(queue)}, Lines(queue')) /\ Before(Lines(buf) \cup Lines(current), {Head(queue)})
           /\ cons # "done" /\ Lines(queue') \subseteq Lines(queue)
<1>1. LogTyped /\ RecentInOrder
  BY LogParts
<1>2. queue # <<>> /\ queue' = Tail(queue) /\ cons # "done" /\ queue \in Seq(Line) /\ Len(queue) <= QueueSize
  BY <1>1 DEF TakesLine, LogTyped
<1>3. /\ Head(queue) \in Line /\ queue' \in Seq(Line) /\ Len(queue') = Len(queue) - 1 /\ Len(queue) \in Nat
      /\ Lines(queue) = {Head(queue)} \cup Lines(queue') /\ Rising(queue')
      /\ Before({Head(queue)}, Lines(queue'))
  BY <1>1, <1>2, LineAtFront, LinesAreLines DEF RecentInOrder
<1>4. Before(Lines(buf) \cup Lines(current), {Head(queue)})
  BY <1>1, <1>3 DEF RecentInOrder, Before
<1>5. Len(queue') <= QueueSize
  BY <1>2, <1>3, LogBounds
<1> QED
  BY <1>2, <1>3, <1>4, <1>5

\* A line is dropped: in the time after a failure, or with the buffer of a file that
\* cannot be opened or written (writeAll).
LEMMA DropLineKeeps == ASSUME LogInv, DropLine PROVE LogInv'
<1> USE DEF outputVars, loggerVars, diskVars, clearVars, logHistory
<1> DEFINE h == Head(queue)
<1>1. LogTyped /\ LogPlaces /\ LogOrder /\ LogKept /\ LogCleared /\ LogSized /\ RecentInOrder
  BY LogParts
<1>2. TakesLine
      /\ UNCHANGED <<archiving, child, published, pipe, lastLine, copier, copied, size, cons, stopAsked,
                               current, rotated, archived, clearer, clears, torn, cleared, reopened, spoilt>>
  BY DEF DropLine
<1>3. /\ h \in Line /\ queue' \in Seq(Line) /\ Len(queue') <= QueueSize
      /\ Lines(queue) = {h} \cup Lines(queue') /\ Rising(queue') /\ cons # "done"
  BY <1>2, TakenLine
<1> HIDE DEF h
<1>4. /\ buf' \in Seq(Line) /\ Rising(buf') /\ Lines(buf') \subseteq Lines(buf) /\ Len(buf') <= Len(buf)
      /\ Lines(buf) \cup {h} \subseteq Lines(buf') \cup accounted'
      /\ accounted \subseteq accounted' /\ accounted' \subseteq Line
      /\ file' = "none" /\ buf' = <<>> /\ logFails' \in 0..MaxLogFails /\ cold' \in BOOLEAN
  <2>1. CASE file = "none" /\ cold /\ UNCHANGED <<buf, file, cold, logFails>> /\ accounted' = accounted \cup {h}
    <3>1. cold' \in BOOLEAN
      BY <1>1, <2>1, Zenon DEF LogTyped
    <3> QED
      BY <1>1, <1>3, <2>1, <3>1 DEF LogTyped, LogPlaces, RecentInOrder
  <2>2. CASE /\ LogFail /\ cold' = TRUE /\ file' = "none" /\ buf' = <<>>
             /\ accounted' = accounted \cup Lines(buf) \cup {h}
    <3>1. cold' \in BOOLEAN
      BY <2>2, Zenon
    <3>2. logFails' \in 0..MaxLogFails
      BY <1>1, <2>2, LogBounds DEF LogTyped, LogFail
    <3> QED
      BY <1>1, <1>3, <2>2, <3>1, <3>2, NoLines, PiecesAre DEF LogTyped
  <2> QED
    BY <2>1, <2>2, Zenon DEF DropLine, h
<1>5. Recent' \subseteq Recent /\ Recent \subseteq Recent' \cup accounted'
  BY <1>2, <1>3, <1>4 DEF Recent
<1>6. RecentInOrder'
  BY <1>1, <1>2, <1>3, <1>4 DEF RecentInOrder, Before
<1>7. LogOrder' /\ LogKept' /\ Everywhere' \subseteq Everywhere
  BY <1>2, <1>4, <1>5, <1>6, LinesMoveOn
<1>8. LogTyped'
  BY <1>1, <1>2, <1>3, <1>4 DEF LogTyped
<1>9. LogPlaces'
  BY <1>1, <1>2, <1>3, <1>4 DEF LogPlaces
<1>10. LogCleared'
  <2>1. Lines(buf') \cup Lines(queue') \cup Lines(pipe') \subseteq Lines(buf) \cup Lines(queue) \cup Lines(pipe)
    BY <1>2, <1>3, <1>4
  <2> QED
    BY <1>1, <1>2, <1>7, <2>1 DEF LogCleared
<1>11. LogSized'
  BY <1>1, <1>2, <1>4, PiecesAre, LinesAreLines, LogBounds DEF LogSized, LogTyped
<1> QED
  BY <1>7, <1>8, <1>9, <1>10, <1>11 DEF LogInv

\* A line goes to the end of the buffer, which may reach the file before it (writeAll).
LEMMA AppendLineKeeps == ASSUME LogInv, AppendLine PROVE LogInv'
<1> USE DEF outputVars, loggerVars, diskVars, clearVars, logHistory
<1> DEFINE h == Head(queue)
<1>1. LogTyped /\ LogPlaces /\ LogOrder /\ LogKept /\ LogCleared /\ LogSized /\ RecentInOrder
  BY LogParts
<1>2. /\ TakesLine /\ UNCHANGED <<archiving, child, published, pipe, lastLine, copier, copied, cons, stopAsked,
                                  rotated, archived, clearer, clears, torn, cleared, spoilt, logFails>>
      /\ cold' = FALSE
  BY DEF AppendLine
<1>3. /\ h \in Line /\ queue' \in Seq(Line) /\ Len(queue') <= QueueSize
      /\ Lines(queue) = {h} \cup Lines(queue') /\ Rising(queue') /\ cons # "done"
      /\ Before({h}, Lines(queue')) /\ Before(Lines(buf) \cup Lines(current), {h})
  BY <1>2, TakenLine
<1>0. Len(current) \in Nat /\ Len(buf) \in Nat /\ size \in Nat /\ size <= MaxSize /\ buf \in Seq(Line)
      /\ current \in Seq(Line) /\ MaxSize \in Nat /\ MaxSize >= 1
  BY <1>1, PiecesAre, LogBounds DEF LogTyped
<1> HIDE DEF h
<1>4. /\ buf' \in Seq(Line) /\ Rising(buf') /\ Lines(buf') \subseteq Lines(buf) \cup {h}
      /\ current' \in Seq(Line) /\ Rising(current') /\ Lines(current') \subseteq Lines(current) \cup Lines(buf)
      /\ Before(Lines(current'), Lines(buf'))
      /\ Lines(current) \cup Lines(buf) \cup {h} \subseteq Lines(current') \cup Lines(buf') \cup accounted'
      /\ accounted \subseteq accounted' /\ accounted' \subseteq Line
      /\ file' \in {"open", "orphan"} /\ size' \in 0..MaxSize /\ reopened' \in BOOLEAN
      /\ LogSized'
  <2>1. CASE /\ file = "none" /\ file' = "open" /\ size' = 1 /\ buf' = <<h>>
             /\ reopened' = (reopened \/ current # <<>>) /\ UNCHANGED <<current, accounted>>
    <3>1. buf = <<>> /\ Lines(buf) = {}
      BY <1>1, <2>1, NoLines DEF LogPlaces
    <3>2. buf' \in Seq(Line) /\ Lines(buf') = {h} /\ Rising(buf') /\ Len(buf') = 1
      BY <1>3, <2>1, OneLine
    <3>3. reopened' \in BOOLEAN
      BY <2>1, Zenon
    <3>4. Before(Lines(current), Lines(buf'))
      BY <1>3, <3>2 DEF Before
    <3>5. LogSized'
      <4> SUFFICES ASSUME ~reopened'
                   PROVE Len(current') + Len(buf') <= MaxSize /\ Len(current') + Len(buf') <= size'
        BY DEF LogSized
      <4>1. current' = <<>>
        BY <2>1
      <4> QED
        BY <1>0, <2>1, <3>2, <4>1, NoLines
    <3>6. size' \in 0..MaxSize
      BY <1>0, <2>1
    <3> QED
      BY <1>0, <1>1, <2>1, <3>1, <3>2, <3>3, <3>4, <3>5, <3>6 DEF LogTyped, RecentInOrder
  <2>2. CASE /\ file # "none" /\ ~MustRotate /\ size' = size + 1 /\ UNCHANGED <<file, reopened>>
             /\ buf' = Append(buf, h) /\ UNCHANGED <<current, accounted>>
    <3>1. Before(Lines(buf), {h}) /\ Rising(buf)
      BY <1>1, <1>3 DEF Before, RecentInOrder
    <3>2. buf' \in Seq(Line) /\ Lines(buf') = Lines(buf) \cup {h} /\ Rising(buf') /\ Len(buf') = Len(buf) + 1
      BY <1>0, <1>3, <2>2, <3>1, LineAtEnd
    <3>3. reopened' \in BOOLEAN
      BY <1>1, <2>2, Zenon DEF LogTyped
    <3>4. Before(Lines(current), Lines(buf'))
      BY <1>1, <1>3, <3>2 DEF Before, RecentInOrder
    <3>5. size' \in 0..MaxSize /\ size' <= MaxSize
      BY <1>0, <2>2 DEF MustRotate
    <3>6. LogSized'
      BY <1>0, <1>1, <2>2, <3>2, <3>5 DEF LogSized
    <3>7. file' \in {"open", "orphan"}
      BY <1>1, <2>2 DEF LogTyped
    <3> QED
      BY <1>0, <1>1, <2>2, <3>2, <3>3, <3>4, <3>5, <3>6, <3>7 DEF LogTyped, RecentInOrder
  <2>3. CASE /\ file # "none" /\ ~MustRotate /\ size' = size + 1 /\ UNCHANGED <<file, reopened>>
             /\ current' = Flushed /\ buf' = <<h>> /\ accounted' = accounted \cup Astray
    <3>1. /\ current' \in Seq(Line) /\ Rising(current') /\ Len(current') <= Len(current) + Len(buf)
          /\ Lines(current') \subseteq Lines(current) \cup Lines(buf)
          /\ Lines(current) \cup Lines(buf) = Lines(current') \cup Astray
          /\ Astray \subseteq Lines(buf) /\ Len(current') \in Nat
      BY <2>3, FlushSays
    <3>2. buf' \in Seq(Line) /\ Lines(buf') = {h} /\ Rising(buf') /\ Len(buf') = 1
      BY <1>3, <2>3, OneLine
    <3>3. reopened' \in BOOLEAN
      BY <1>1, <2>3, Zenon DEF LogTyped
    <3>4. Before(Lines(current'), Lines(buf'))
      BY <1>3, <3>1, <3>2 DEF Before
    <3>5. size' \in 0..MaxSize /\ size' <= MaxSize
      BY <1>0, <2>3 DEF MustRotate
    <3>6. LogSized'
      BY <1>0, <1>1, <2>3, <3>1, <3>2, <3>5 DEF LogSized
    <3>7. file' \in {"open", "orphan"}
      BY <1>1, <2>3 DEF LogTyped
    <3>8. accounted' \subseteq Line
      BY <1>1, <2>3, <3>1, PiecesAre DEF LogTyped
    <3> QED
      BY <2>3, <3>1, <3>2, <3>3, <3>4, <3>5, <3>6, <3>7, <3>8
  <2> QED
    BY <2>1, <2>2, <2>3, Zenon DEF AppendLine, h
<1>5. Recent' \subseteq Recent /\ Recent \subseteq Recent' \cup accounted'
  BY <1>2, <1>3, <1>4 DEF Recent
<1>6. RecentInOrder'
  <2>1. Before(Lines(current') \cup Lines(buf'), Lines(queue') \cup Lines(pipe'))
    <3>1. Lines(current') \cup Lines(buf') \subseteq Lines(current) \cup Lines(buf) \cup {h}
      BY <1>4
    <3>2. Before(Lines(current) \cup Lines(buf), Lines(queue') \cup Lines(pipe'))
      BY <1>1, <1>2, <1>3 DEF RecentInOrder, Before
    <3>3. Before({h}, Lines(queue') \cup Lines(pipe'))
      BY <1>1, <1>2, <1>3 DEF RecentInOrder, Before
    <3> QED
      BY <3>1, <3>2, <3>3 DEF Before
  <2>2. Rising(pipe') /\ Before(Lines(queue'), Lines(pipe'))
    BY <1>1, <1>2, <1>3 DEF RecentInOrder, Before
  <2>3. Before(Lines(current'), Lines(buf') \cup Lines(queue') \cup Lines(pipe'))
    BY <1>4, <2>1 DEF Before
  <2>4. Before(Lines(buf'), Lines(queue') \cup Lines(pipe'))
    BY <2>1 DEF Before
  <2> QED
    BY <1>3, <1>4, <2>2, <2>3, <2>4 DEF RecentInOrder
<1>7. LogOrder' /\ LogKept' /\ Everywhere' \subseteq Everywhere
  BY <1>2, <1>4, <1>5, <1>6, LinesMoveOn
<1>8. LogTyped'
  <2>1. cold' \in BOOLEAN
    BY <1>2, Zenon
  <2> QED
    BY <1>1, <1>2, <1>3, <1>4, <2>1 DEF LogTyped
<1>9. LogPlaces'
  BY <1>1, <1>2, <1>3, <1>4 DEF LogPlaces
<1>10. LogCleared'
  <2>1. Lines(buf') \cup Lines(queue') \cup Lines(pipe') \subseteq Lines(buf) \cup Lines(queue) \cup Lines(pipe)
    BY <1>2, <1>3, <1>4
  <2> QED
    BY <1>1, <1>2, <1>7, <2>1 DEF LogCleared
<1> QED
  BY <1>4, <1>7, <1>8, <1>9, <1>10 DEF LogInv

\* A full file becomes the first of the old ones, which move on; the last of them goes
\* (rotate), and the audit log has saved it when it was the first (archiveRotated).  Each of
\* this may fail, and a file that could not be moved is appended to.
LEMMA RotateFileKeeps == ASSUME LogInv, RotateFile PROVE LogInv'
<1> USE DEF outputVars, loggerVars, diskVars, clearVars, logHistory
<1> DEFINE h == Head(queue)
           old(flushed) == IF flushed THEN Flushed ELSE current
           first(flushed, fate) == IF fate = "renamed" THEN old(flushed) ELSE <<>>
<1>1. LogTyped /\ LogPlaces /\ LogOrder /\ LogKept /\ LogCleared /\ LogSized /\ RecentInOrder
  BY LogParts
<1>2. /\ TakesLine /\ UNCHANGED <<archiving, child, published, pipe, lastLine, copier, copied, cons, stopAsked,
                                  clearer, clears, torn, cleared, spoilt>>
      /\ file # "none"
  BY DEF RotateFile
<1>3. /\ h \in Line /\ queue' \in Seq(Line) /\ Len(queue') <= QueueSize
      /\ Lines(queue) = {h} \cup Lines(queue') /\ Rising(queue') /\ cons # "done"
      /\ Before({h}, Lines(queue')) /\ Before(Lines(buf) \cup Lines(current), {h})
  BY <1>2, TakenLine
<1>4. PICK flushed \in BOOLEAN, kept \in BOOLEAN, moved \in BOOLEAN, opened \in BOOLEAN,
           fate \in {"renamed", "removed", "stays"} :
        /\ IF flushed /\ kept /\ moved /\ opened /\ fate = "renamed" THEN UNCHANGED logFails ELSE LogFail
        /\ fate = "renamed" => moved
        /\ rotated' = [i \in 1..Keep |-> IF ~moved THEN rotated[i]
                                         ELSE IF i > 1 THEN rotated[i - 1] ELSE first(flushed, fate)]
        /\ current' = (IF fate = "stays" THEN old(flushed) ELSE <<>>)
        /\ reopened' = (fate = "stays" /\ old(flushed) # <<>>)
        /\ archived' = archived \cup (IF kept THEN Archived ELSE {})
        /\ accounted' = accounted
             \cup (IF archiving THEN IF kept THEN {} ELSE Lines(rotated[1])
                   ELSE IF moved THEN Lines(rotated[Keep]) ELSE {})
             \cup (IF flushed THEN Astray ELSE Lines(buf))
             \cup (IF fate = "removed" THEN Lines(old(flushed)) ELSE {})
             \cup (IF opened THEN {} ELSE {h})
        /\ buf' = (IF opened THEN <<h>> ELSE <<>>)
        /\ file' = (IF opened THEN "open" ELSE "none")
        /\ size' = (IF opened THEN 1 ELSE size)
        /\ cold' = ~opened
  BY Zenon DEF RotateFile, h, old, first
<1>5. Keep \in Nat /\ Keep >= 1 /\ MaxSize \in Nat /\ MaxSize >= 1 /\ size \in 0..MaxSize
  BY <1>1, LogBounds DEF LogTyped
<1> HIDE DEF h
<1>6. /\ old(flushed) \in Seq(Line) /\ Rising(old(flushed)) /\ Len(old(flushed)) \in Nat
      /\ Lines(old(flushed)) \subseteq Lines(current) \cup Lines(buf)
      /\ Lines(current) \cup Lines(buf) \subseteq Lines(old(flushed)) \cup accounted'
      /\ accounted \subseteq accounted'
  <2>1. CASE flushed
    <3>1. old(flushed) = Flushed /\ Astray \subseteq accounted'
      BY <1>4, <2>1
    <3> QED
      BY <1>4, <3>1, FlushSays
  <2>2. CASE ~flushed
    <3>1. old(flushed) = current /\ Lines(buf) \subseteq accounted'
      BY <1>4, <2>2
    <3> QED
      BY <1>1, <1>4, <3>1, PiecesAre DEF RecentInOrder, LogTyped
  <2> QED
    BY <2>1, <2>2
<1>7. accounted' \subseteq Line
  <2>1. Keep \in 1..Keep /\ 1 \in 1..Keep
    BY <1>5
  <2>2. /\ Lines(rotated[Keep]) \subseteq Line /\ Lines(rotated[1]) \subseteq Line /\ Astray \subseteq Line
        /\ Lines(buf) \subseteq Line /\ Lines(old(flushed)) \subseteq Line /\ accounted \subseteq Line
    BY <1>1, <1>6, <2>1, PiecesAre, FlushSays DEF LogTyped
  <2> HIDE DEF old, first
  <2> QED
    BY <1>3, <1>4, <2>2
<1> HIDE DEF old
<1>8. /\ buf' \in Seq(Line) /\ Rising(buf') /\ Lines(buf') \subseteq {h} /\ Len(buf') <= 1 /\ Len(buf') \in Nat
      /\ opened \/ buf' = <<>>
      /\ h \in Lines(buf') \cup accounted'
  BY <1>3, <1>4, OneLine, NoLines
<1>9. /\ current' \in Seq(Line) /\ Rising(current') /\ Lines(current') \subseteq Lines(current) \cup Lines(buf)
      /\ reopened' \/ Len(current') = 0
  <2>1. CASE fate = "stays"
    <3>1. current' = old(flushed) /\ (reopened' \/ current' = <<>>)
      BY <1>4, <2>1, Zenon
    <3> QED
      BY <1>6, <3>1, NoLines
  <2>2. CASE fate # "stays"
    BY <1>4, <2>2, NoLines
  <2> QED
    BY <2>1, <2>2
<1>10. /\ first(flushed, fate) \in Seq(Line) /\ Rising(first(flushed, fate))
       /\ Lines(first(flushed, fate)) \subseteq Lines(current) \cup Lines(buf)
       /\ Lines(first(flushed, fate)) = {} \/ Lines(current') = {}
       /\ Lines(current) \cup Lines(buf) \subseteq
            Lines(first(flushed, fate)) \cup Lines(current') \cup accounted'
  <2>1. CASE fate = "stays"
    BY <1>4, <1>6, <2>1, NoLines
  <2>2. CASE fate = "renamed"
    BY <1>4, <1>6, <2>2, NoLines
  <2>3. CASE fate = "removed"
    <3>1. Lines(old(flushed)) \subseteq accounted'
      BY <1>4, <2>3
    <3> QED
      BY <1>4, <1>6, <2>3, <3>1, NoLines
  <2> QED
    BY <2>1, <2>2, <2>3
<1> HIDE DEF first
<1>11. /\ Recent' \subseteq Recent
       /\ Recent' \subseteq Lines(current') \cup {h} \cup Lines(queue') \cup Lines(pipe)
  BY <1>2, <1>3, <1>8, <1>9 DEF Recent
<1>12. RecentInOrder'
  <2>1. Before(Lines(queue'), Lines(pipe')) /\ Rising(pipe')
    BY <1>1, <1>2, <1>3 DEF RecentInOrder, Before
  <2>2. Before({h}, Lines(queue') \cup Lines(pipe'))
    BY <1>1, <1>2, <1>3 DEF RecentInOrder, Before
  <2>3. Before(Lines(buf'), Lines(queue') \cup Lines(pipe'))
    BY <1>8, <2>2 DEF Before
  <2>4. Before(Lines(current) \cup Lines(buf), Lines(queue) \cup Lines(pipe))
    BY <1>1 DEF RecentInOrder, Before
  <2>5. Before(Lines(current'), Lines(buf') \cup Lines(queue') \cup Lines(pipe'))
    BY <1>2, <1>3, <1>8, <1>9, <2>4 DEF Before
  <2> QED
    BY <1>3, <1>8, <1>9, <2>1, <2>3, <2>5 DEF RecentInOrder
<1>13. \A i \in 1..Keep : i = 1 \/ i \in 2..Keep
  BY <1>5
<1>14. archived \subseteq archived'
  BY <1>4
<1>15. archiving => Lines(rotated[1]) \subseteq archived' \cup accounted'
  <2>1. CASE kept
    BY <1>4, <2>1 DEF Archived
  <2>2. CASE ~kept
    BY <1>4, <2>2
  <2> QED
    BY <2>1, <2>2
<1>16. ASSUME ~moved
       PROVE  LogOrder' /\ LogKept' /\ Everywhere' \subseteq Everywhere /\ rotated' \in [1..Keep -> Seq(Line)]
  <2>1. rotated' = rotated /\ Lines(first(flushed, fate)) = {}
    <3>1. rotated' = [i \in 1..Keep |-> rotated[i]] /\ rotated \in [1..Keep -> Seq(Line)]
      BY <1>1, <1>4, <1>16 DEF LogTyped
    <3>2. fate # "renamed"
      BY <1>4, <1>16
    <3> QED
      BY <3>1, <3>2, NoLines DEF first
  <2>2. Recent \subseteq Recent' \cup accounted'
    BY <1>2, <1>3, <1>8, <1>10, <2>1 DEF Recent
  <2>3. LogOrder' /\ LogKept' /\ Everywhere' \subseteq Everywhere
    BY <1>2, <1>6, <1>11, <1>12, <1>14, <2>1, <2>2, LinesMoveOn
  <2> QED
    BY <1>1, <2>1, <2>3 DEF LogTyped
<1>17. ASSUME moved
       PROVE  LogOrder' /\ LogKept' /\ Everywhere' \subseteq Everywhere /\ rotated' \in [1..Keep -> Seq(Line)]
  <2>1. rotated' \in [1..Keep -> Seq(Line)] /\ rotated'[1] = first(flushed, fate)
        /\ \A i \in 2..Keep : rotated'[i] = rotated[i - 1] /\ i - 1 \in 1..Keep /\ i \in 1..Keep
    <3>0. rotated' = [i \in 1..Keep |-> IF i > 1 THEN rotated[i - 1] ELSE first(flushed, fate)]
      BY <1>4, <1>17
    <3>1. \A i \in 1..Keep : i > 1 => i - 1 \in 1..Keep /\ rotated[i - 1] \in Seq(Line)
      BY <1>1, <1>5 DEF LogTyped
    <3>2. rotated' \in [1..Keep -> Seq(Line)]
      BY <1>10, <3>0, <3>1
    <3>3. 1 \in 1..Keep /\ rotated'[1] = first(flushed, fate)
      BY <1>5, <3>0
    <3>4. \A i \in 2..Keep : rotated'[i] = rotated[i - 1] /\ i - 1 \in 1..Keep /\ i \in 1..Keep
      BY <1>5, <3>0
    <3> QED
      BY <3>2, <3>3, <3>4
  <2>2. Before(Lines(rotated'[1]), Recent')
    <3>1. CASE Lines(first(flushed, fate)) = {}
      BY <2>1, <3>1 DEF Before
    <3>2. CASE Lines(current') = {}
      <4>1. Before(Lines(current) \cup Lines(buf), Lines(queue) \cup Lines(pipe))
        BY <1>1 DEF RecentInOrder, Before
      <4>2. Recent' \subseteq {h} \cup Lines(queue') \cup Lines(pipe)
        BY <1>11, <3>2
      <4> QED
        BY <1>3, <1>10, <2>1, <4>1, <4>2 DEF Before
    <3> QED
      BY <1>10, <3>1, <3>2
  <2>3. Everywhere' \subseteq Everywhere
    <3>1. ASSUME NEW l \in OldLines' PROVE l \in Everywhere
      <4>1. PICK i \in 1..Keep : l \in Lines(rotated'[i])
        BY OldSaysAfter
      <4>2. CASE i = 1
        BY <1>10, <2>1, <4>1, <4>2 DEF Everywhere
      <4>3. CASE i \in 2..Keep
        BY <2>1, <4>1, <4>3, OldSays, EverywhereIs
      <4> QED
        BY <1>13, <4>2, <4>3
    <3> QED
      BY <1>11, <3>1, EverywhereIs, EverywhereIsThen
  <2>4. LogOrder'
    <3>1. ASSUME NEW i \in 1..Keep PROVE Rising(rotated'[i]) /\ Before(Lines(rotated'[i]), Recent')
      <4>1. CASE i = 1
        BY <1>10, <2>1, <2>2, <4>1
      <4>2. CASE i \in 2..Keep
        BY <1>1, <1>11, <2>1, <4>2 DEF LogOrder, Before
      <4> QED
        BY <1>13, <4>1, <4>2
    <3>2. ASSUME NEW i \in 1..Keep, NEW k \in 1..Keep, i < k
          PROVE  Before(Lines(rotated'[k]), Lines(rotated'[i]))
      <4>1. k \in 2..Keep /\ rotated'[k] = rotated[k - 1] /\ k - 1 \in 1..Keep
        BY <1>5, <2>1, <3>2
      <4>2. CASE i = 1
        <5>1. Lines(rotated'[1]) \subseteq Recent
          BY <1>10, <2>1 DEF Recent
        <5>2. Before(Lines(rotated[k - 1]), Recent)
          BY <1>1, <4>1 DEF LogOrder
        <5> QED
          BY <4>1, <4>2, <5>1, <5>2 DEF Before
      <4>3. CASE i \in 2..Keep
        <5>1. rotated'[i] = rotated[i - 1] /\ i - 1 \in 1..Keep /\ i - 1 < k - 1
          BY <2>1, <3>2, <4>3
        <5> QED
          BY <1>1, <4>1, <5>1 DEF LogOrder
      <4> QED
        BY <1>13, <4>2, <4>3
    <3>3. Everywhere' \subseteq 1..lastLine'
      BY <1>1, <1>2, <2>3 DEF LogOrder
    <3> QED
      BY <1>12, <3>1, <3>2, <3>3 DEF LogOrder, RecentInOrder
  <2>5. LogKept'
    <3>1. Lines(rotated[Keep]) \subseteq archived' \cup accounted'
      <4>1. CASE archiving
        BY <1>1, <1>5, <1>6, <1>13, <1>14, <1>15, <4>1 DEF LogKept
      <4>2. CASE ~archiving
        BY <1>4, <1>17, <4>2
      <4> QED
        BY <4>1, <4>2
    <3>2. ASSUME NEW l \in OldLines PROVE l \in Everywhere' \cup archived' \cup accounted'
      <4>1. PICK i \in 1..Keep : l \in Lines(rotated[i])
        BY OldSays
      <4>2. CASE i = Keep
        BY <3>1, <4>1, <4>2
      <4>3. CASE i # Keep
        <5>1. i + 1 \in 2..Keep /\ (i + 1) - 1 = i
          BY <1>5, <4>3
        <5>2. rotated'[i + 1] = rotated[i] /\ i + 1 \in 1..Keep
          BY <2>1, <5>1
        <5> QED
          BY <4>1, <5>2, OldSaysAfter, EverywhereIsThen
      <4> QED
        BY <4>2, <4>3
    <3>3. Recent \subseteq Everywhere' \cup accounted'
      <4>1. Lines(first(flushed, fate)) \subseteq OldLines'
        <5>1. 1 \in 1..Keep
          BY <1>5
        <5> QED
          BY <2>1, <5>1, OldSaysAfter
      <4>2. Lines(current) \cup Lines(buf) \subseteq Everywhere' \cup accounted'
        BY <1>10, <4>1 DEF Everywhere
      <4>3. Lines(queue) \cup Lines(pipe) \subseteq Everywhere' \cup accounted'
        BY <1>2, <1>3, <1>8 DEF Everywhere
      <4> QED
        BY <4>2, <4>3 DEF Recent
    <3>4. 1..lastLine' \subseteq Everywhere' \cup archived' \cup accounted'
      <4>1. 1..lastLine \subseteq OldLines \cup Recent \cup archived \cup accounted
        BY <1>1, EverywhereIs DEF LogKept
      <4> QED
        BY <1>2, <1>6, <1>14, <3>2, <3>3, <4>1
    <3>5. ASSUME archiving', NEW i \in 2..Keep PROVE Lines(rotated'[i]) \subseteq archived' \cup accounted'
      <4>1. rotated'[i] = rotated[i - 1] /\ (i - 1 = 1 \/ i - 1 \in 2..Keep) /\ archiving
        BY <1>2, <1>5, <2>1, <3>5
      <4> QED
        BY <1>1, <1>6, <1>14, <1>15, <4>1 DEF LogKept
    <3> QED
      BY <3>4, <3>5 DEF LogKept
  <2> QED
    BY <2>1, <2>3, <2>4, <2>5
<1>18. LogOrder' /\ LogKept' /\ Everywhere' \subseteq Everywhere /\ rotated' \in [1..Keep -> Seq(Line)]
  BY <1>16, <1>17
<1>19. LogTyped'
  <2>1. cold' \in BOOLEAN /\ reopened' \in BOOLEAN
    BY <1>4, Zenon
  <2>2. logFails' \in 0..MaxLogFails
    BY <1>1, <1>4, LogBounds DEF LogTyped, LogFail
  <2>3. size' \in 0..MaxSize /\ file' \in {"none", "open", "orphan"}
    BY <1>4, <1>5
  <2>4. archived' \subseteq Line
    <3>1. 1 \in 1..Keep
      BY <1>5
    <3> QED
      BY <1>1, <1>4, <3>1, PiecesAre DEF Archived, LogTyped
  <2> QED
    BY <1>1, <1>2, <1>3, <1>7, <1>8, <1>9, <1>18, <2>1, <2>2, <2>3, <2>4 DEF LogTyped
<1>20. LogPlaces'
  BY <1>1, <1>2, <1>3, <1>4, <1>8 DEF LogPlaces
<1>21. LogCleared'
  <2>1. Lines(buf') \cup Lines(queue') \cup Lines(pipe') \subseteq Lines(buf) \cup Lines(queue) \cup Lines(pipe)
        \/ clearer.pc # "removing"
    BY <1>2, <1>3, <1>8
  <2> QED
    BY <1>1, <1>2, <1>18, <2>1 DEF LogCleared
<1>22. LogSized'
  <2>1. ASSUME ~reopened' PROVE Len(current') + Len(buf') <= MaxSize
    BY <1>5, <1>8, <1>9, <2>1
  <2>2. ASSUME ~reopened' PROVE file' # "none" => Len(current') + Len(buf') <= size'
    <3>1. file' # "none" => size' = 1
      BY <1>4
    <3> QED
      BY <1>8, <1>9, <2>2, <3>1
  <2> QED
    BY <2>1, <2>2 DEF LogSized
<1> QED
  BY <1>18, <1>19, <1>20, <1>21, <1>22 DEF LogInv

\* A clear removes every file, and answers; or it fails at the current one, which is told, or
\* at an old one, which is not (doClear).
LEMMA FilesCleared ==
    ASSUME LogInv, NEW promise \in Nat, promise <= copied, NEW hasty \in BOOLEAN, ClearFiles(promise, hasty),
           UNCHANGED <<archiving, lastLine, queue, pipe, archived>>
    PROVE  /\ LogOrder' /\ LogKept' /\ LogSized' /\ Everywhere' \subseteq Everywhere
           /\ buf' = <<>> /\ Lines(buf') = {} /\ buf' \in Seq(Line) /\ current' \in Seq(Line)
           /\ rotated' \in [1..Keep -> Seq(Line)] /\ file' = "none" /\ size' \in 0..MaxSize
           /\ accounted' \subseteq Line /\ reopened' \in BOOLEAN /\ logFails' \in 0..MaxLogFails
           /\ cleared' \in 0..copied /\ spoilt' \in BOOLEAN /\ (spoilt \/ hasty => spoilt')
           /\ \/ cleared' = cleared
              \/ spoilt'
              \/ Everywhere' = Lines(queue) \cup Lines(pipe)
<1>1. LogTyped /\ LogPlaces /\ LogOrder /\ LogKept /\ LogCleared /\ LogSized /\ RecentInOrder
  BY LogParts
<1>2. PICK left \in SUBSET (0..Keep), flushed \in BOOLEAN :
        /\ RemovesAllBut(left) /\ buf' = <<>> /\ file' = "none" /\ size' = 0
        /\ IF 0 \in left
           THEN /\ current' = (IF flushed THEN Flushed ELSE current)
                /\ accounted' = accounted \cup OldLinesBut(left) \cup (IF flushed THEN Astray ELSE Lines(buf))
                /\ spoilt' = (spoilt \/ hasty) /\ UNCHANGED <<cleared, reopened>>
           ELSE /\ current' = <<>> /\ reopened' = FALSE
                /\ accounted' = accounted \cup OldLinesBut(left) \cup Lines(current) \cup Lines(buf)
                /\ spoilt' = (spoilt \/ hasty \/ left # {}) /\ cleared' = Max({promise, cleared})
  BY DEF ClearFiles
<1>3. rotated' = [i \in 1..Keep |-> IF i \in left THEN rotated[i] ELSE <<>>] /\ logFails' \in 0..MaxLogFails
  <2>1. CASE left = {}
    BY <1>1, <1>2, <2>1 DEF RemovesAllBut, LogTyped
  <2>2. CASE left # {}
    <3>1. /\ logFails < MaxLogFails /\ logFails' = logFails + 1
          /\ rotated' = [i \in 1..Keep |-> IF i \in left THEN rotated[i] ELSE <<>>]
      BY <1>2, <2>2 DEF RemovesAllBut, LogFail
    <3> QED
      BY <1>1, <3>1, LogBounds DEF LogTyped
  <2> QED
    BY <2>1, <2>2
<1>4. /\ Lines(buf') = {} /\ buf' \in Seq(Line) /\ Rising(buf') /\ Len(buf') = 0 /\ size' \in 0..MaxSize
      /\ OldLinesBut(left) \subseteq Line
  <2>1. OldLinesBut(left) \subseteq Line
    BY <1>1, PiecesAre DEF OldLinesBut
  <2> QED
    BY <1>2, <2>1, NoLines, LogBounds
<1>5. copied \in Nat /\ cleared \in Nat /\ cleared <= copied /\ Len(current) \in Nat /\ Len(buf) \in Nat
  BY <1>1, PiecesAre, LogBounds DEF LogTyped
<1>6. CASE 0 \notin left
  <2>0. /\ current' = <<>> /\ reopened' = FALSE /\ cleared' = Max({promise, cleared})
        /\ accounted' = accounted \cup OldLinesBut(left) \cup Lines(current) \cup Lines(buf)
        /\ spoilt' = (spoilt \/ hasty \/ left # {})
    BY <1>2, <1>6
  <2>1. Lines(current') = {} /\ current' \in Seq(Line) /\ Rising(current') /\ Len(current') = 0
    BY <2>0, NoLines
  <2>2. Recent' \subseteq Recent /\ Recent \subseteq Recent' \cup accounted'
    BY <1>4, <2>0, <2>1 DEF Recent
  <2>3. RecentInOrder'
    BY <1>1, <1>4, <2>1 DEF RecentInOrder, Before
  <2>4. /\ LogOrder' /\ LogKept' /\ Everywhere' \subseteq Everywhere /\ rotated' \in [1..Keep -> Seq(Line)]
        /\ (left = {} => Everywhere' = Recent')
    BY <1>3, <2>0, <2>2, <2>3, OldFilesGo
  <2>5. spoilt' \in BOOLEAN /\ reopened' \in BOOLEAN
    BY <1>1, <2>0, Zenon DEF LogTyped
  <2>6. left # {} => spoilt'
    BY <2>0, Zenon
  <2>7. spoilt \/ hasty => spoilt'
    BY <2>0, Zenon
  <2>8. spoilt' \/ Everywhere' = Lines(queue) \cup Lines(pipe)
    BY <1>4, <2>1, <2>4, <2>6 DEF Recent
  <2>9. cleared' \in 0..copied
    BY <1>5, <2>0, MaxOfTwo
  <2>10. LogSized'
    BY <1>2, <1>4, <2>1, LogBounds DEF LogSized
  <2>11. accounted' \subseteq Line
    BY <1>1, <1>4, <2>0, PiecesAre DEF LogTyped
  <2> QED
    BY <1>2, <1>3, <1>4, <2>1, <2>4, <2>5, <2>7, <2>8, <2>9, <2>10, <2>11
<1>7. CASE 0 \in left
  <2>0. /\ current' = (IF flushed THEN Flushed ELSE current) /\ UNCHANGED <<cleared, reopened>>
        /\ accounted' = accounted \cup OldLinesBut(left) \cup (IF flushed THEN Astray ELSE Lines(buf))
        /\ spoilt' = (spoilt \/ hasty)
    BY <1>2, <1>7
  <2>1. /\ current' \in Seq(Line) /\ Rising(current') /\ Len(current') <= Len(current) + Len(buf)
        /\ Len(current') \in Nat
        /\ Lines(current') \subseteq Lines(current) \cup Lines(buf)
        /\ Lines(current) \cup Lines(buf) \subseteq Lines(current') \cup accounted'
        /\ accounted' \subseteq Line
    <3>1. CASE flushed
      <4>1. current' = Flushed /\ accounted' = accounted \cup OldLinesBut(left) \cup Astray
        BY <2>0, <3>1
      <4> QED
        BY <1>1, <1>4, <4>1, FlushSays, PiecesAre DEF LogTyped
    <3>2. CASE ~flushed
      <4>1. current' = current /\ accounted' = accounted \cup OldLinesBut(left) \cup Lines(buf)
        BY <2>0, <3>2
      <4> QED
        BY <1>1, <1>4, <1>5, <4>1, PiecesAre DEF LogTyped, RecentInOrder
    <3> QED
      BY <3>1, <3>2
  <2>2. Recent' \subseteq Recent /\ Recent \subseteq Recent' \cup accounted'
    BY <1>4, <2>1 DEF Recent
  <2>3. RecentInOrder'
    BY <1>1, <1>4, <2>1 DEF RecentInOrder, Before
  <2>4. LogOrder' /\ LogKept' /\ Everywhere' \subseteq Everywhere /\ rotated' \in [1..Keep -> Seq(Line)]
    BY <1>3, <2>0, <2>2, <2>3, OldFilesGo
  <2>5. cleared' \in 0..copied /\ cleared' = cleared
    BY <1>5, <2>0
  <2>6. LogSized'
    BY <1>1, <1>2, <1>4, <1>5, <2>0, <2>1, LogBounds DEF LogSized
  <2>7. reopened' \in BOOLEAN /\ spoilt' \in BOOLEAN
    BY <1>1, <2>0, Zenon DEF LogTyped
  <2>8. spoilt \/ hasty => spoilt'
    BY <2>0, Zenon
  <2> QED
    BY <1>2, <1>3, <1>4, <2>1, <2>4, <2>5, <2>6, <2>7, <2>8
<1> QED
  BY <1>6, <1>7

\* The goroutine clears when it has written what was in the queue (clearWithDrain).
LEMMA FinishClearKeeps == ASSUME LogInv, FinishClear PROVE LogInv'
<1> USE DEF outputVars, loggerVars, diskVars, clearVars, logHistory
<1> DEFINE promise == IF clearer.pc = "waiting" THEN clearer.upTo ELSE 0
<1>1. LogTyped /\ LogPlaces /\ LogCleared
  BY LogParts
<1>2. /\ ClearFiles(promise, FALSE) /\ queue = <<>> /\ cons = "clearing" /\ cons' = "run"
      /\ clearer' = (IF clearer.pc = "waiting" THEN [pc |-> "idle", upTo |-> 0] ELSE clearer)
      /\ UNCHANGED <<archiving, child, published, pipe, lastLine, copier, copied, stopAsked, queue, cold,
             archived, clears, torn>>
  BY DEF FinishClear, IsDrained
<1>3. promise \in Nat /\ promise <= copied /\ copied \in Nat /\ cleared \in Nat
  BY <1>1, LogBounds DEF LogTyped
<1> HIDE DEF promise
<1>4. /\ LogOrder' /\ LogKept' /\ LogSized' /\ Everywhere' \subseteq Everywhere
      /\ buf' = <<>> /\ Lines(buf') = {} /\ buf' \in Seq(Line) /\ current' \in Seq(Line)
      /\ rotated' \in [1..Keep -> Seq(Line)] /\ file' = "none" /\ size' \in 0..MaxSize
      /\ accounted' \subseteq Line /\ reopened' \in BOOLEAN /\ logFails' \in 0..MaxLogFails
      /\ cleared' \in 0..copied /\ spoilt' \in BOOLEAN /\ (spoilt => spoilt')
      /\ (cleared' = cleared \/ spoilt' \/ Everywhere' = Lines(queue) \cup Lines(pipe))
  BY <1>2, <1>3, FilesCleared
<1>5. /\ clearer' \in [pc : {"idle", "asking", "waiting", "removing"}, upTo : 0..MaxLines]
      /\ clearer'.upTo <= copied /\ (clearer'.pc = "removing" => clearer' = clearer)
  BY <1>1, <1>2, <1>3, LogBounds DEF LogTyped
<1>6. LogTyped'
  BY <1>1, <1>2, <1>4, <1>5 DEF LogTyped
<1>7. LogPlaces'
  BY <1>1, <1>2, <1>4 DEF LogPlaces
<1>8. LogCleared'
  <2>1. \A l \in Everywhere' : ~spoilt' => l > cleared'
    <3>1. Lines(queue) = {}
      BY <1>2, NoLines
    <3>2. CASE cleared' = cleared
      BY <1>1, <1>4, <3>2 DEF LogCleared
    <3>3. CASE Everywhere' = Lines(queue) \cup Lines(pipe)
      <4> SUFFICES ASSUME NEW l \in Lines(pipe) PROVE l > cleared'
        BY <3>1, <3>3
      <4>1. l > copied /\ cleared' <= copied /\ cleared' \in Nat /\ l \in Nat
        BY <1>1, <1>3, <1>4, PiecesAre, LogBounds DEF LogCleared
      <4> QED
        BY <1>3, <4>1
    <3>4. CASE spoilt'
      BY <3>4
    <3> QED
      BY <1>4, <3>2, <3>3, <3>4
  <2> QED
    BY <1>1, <1>2, <1>4, <1>5, <2>1 DEF LogCleared
<1> QED
  BY <1>4, <1>6, <1>7, <1>8 DEF LogInv

\* A clear that comes while the logger stops is not drained for: the window.
LEMMA ClearWhileStoppingKeeps == ASSUME LogInv, ClearWhileStopping PROVE LogInv'
<1> USE DEF outputVars, loggerVars, diskVars, clearVars, logHistory
<1>1. LogTyped /\ LogPlaces /\ LogCleared
  BY LogParts
<1>2. /\ ClearFiles(clearer.upTo, TRUE) /\ cons = "stopping"
      /\ clearer' = [pc |-> "idle", upTo |-> 0]
      /\ UNCHANGED <<archiving, child, published, pipe, lastLine, copier, copied, stopAsked, queue, cold,
             archived, clears, torn, cons>>
  BY DEF ClearWhileStopping
<1>3. clearer.upTo \in Nat /\ clearer.upTo <= copied /\ copied \in Nat
  BY <1>1, LogBounds DEF LogTyped
<1>4. /\ LogOrder' /\ LogKept' /\ LogSized'
      /\ buf' = <<>> /\ Lines(buf') = {} /\ buf' \in Seq(Line) /\ current' \in Seq(Line)
      /\ rotated' \in [1..Keep -> Seq(Line)] /\ file' = "none" /\ size' \in 0..MaxSize
      /\ accounted' \subseteq Line /\ reopened' \in BOOLEAN /\ logFails' \in 0..MaxLogFails
      /\ cleared' \in 0..copied /\ spoilt' \in BOOLEAN /\ spoilt'
  BY <1>2, <1>3, FilesCleared
<1>5. /\ clearer' \in [pc : {"idle", "asking", "waiting", "removing"}, upTo : 0..MaxLines]
      /\ clearer'.upTo <= copied
  BY <1>2, <1>3, LogBounds
<1>6. LogTyped'
  BY <1>1, <1>2, <1>4, <1>5 DEF LogTyped
<1>7. LogPlaces'
  BY <1>1, <1>2, <1>4 DEF LogPlaces
<1>8. LogCleared'
  BY <1>1, <1>2, <1>4 DEF LogCleared
<1> QED
  BY <1>4, <1>6, <1>7, <1>8 DEF LogInv

\* The logger that stops writes out its buffer (flushClose).
LEMMA FinishStopKeeps == ASSUME LogInv, FinishStop PROVE LogInv'
<1> USE DEF outputVars, loggerVars, diskVars, clearVars, logHistory
<1>1. LogTyped /\ LogPlaces /\ LogOrder /\ LogKept /\ LogCleared /\ LogSized /\ RecentInOrder
  BY LogParts
<1>2. /\ cons = "stopping" /\ queue = <<>> /\ queue' = <<>> /\ cons' = "done"
      /\ buf' = <<>> /\ file' = "none"
      /\ UNCHANGED <<archiving, child, published, pipe, lastLine, copier, copied, size, cold, stopAsked,
             rotated, archived, clearer, clears, torn, cleared, reopened, spoilt>>
      /\ \/ current' = Flushed /\ accounted' = accounted \cup Astray /\ UNCHANGED logFails
         \/ LogFail /\ accounted' = accounted \cup Lines(buf) /\ UNCHANGED current
  BY DEF FinishStop, MayFinish
<1>3. /\ current' \in Seq(Line) /\ Rising(current') /\ Len(current') <= Len(current) + Len(buf)
      /\ Len(current') \in Nat
      /\ Lines(current') \subseteq Lines(current) \cup Lines(buf)
      /\ Lines(current) \cup Lines(buf) \subseteq Lines(current') \cup accounted'
      /\ accounted \subseteq accounted' /\ accounted' \subseteq accounted \cup Lines(buf)
      /\ logFails' \in 0..MaxLogFails
  <2>1. CASE current' = Flushed /\ accounted' = accounted \cup Astray /\ UNCHANGED logFails
    BY <1>1, <2>1, FlushSays DEF LogTyped
  <2>2. CASE LogFail /\ accounted' = accounted \cup Lines(buf) /\ UNCHANGED current
    BY <1>1, <2>2, PiecesAre, LogBounds DEF LogTyped, LogFail, RecentInOrder
  <2> QED
    BY <1>2, <2>1, <2>2
<1>4. Lines(buf') = {} /\ buf' \in Seq(Line) /\ Rising(buf') /\ Len(buf') = 0
  BY <1>2, NoLines
<1>5. Recent' \subseteq Recent /\ Recent \subseteq Recent' \cup accounted'
  BY <1>2, <1>3, <1>4 DEF Recent
<1>6. RecentInOrder'
  BY <1>1, <1>2, <1>3, <1>4 DEF RecentInOrder, Before
<1>7. LogOrder' /\ LogKept' /\ Everywhere' \subseteq Everywhere
  BY <1>2, <1>5, <1>6, LinesMoveOn
<1>8. LogTyped'
  <2>1. accounted' \subseteq Line
    BY <1>1, <1>2, <1>3, PiecesAre DEF LogTyped
  <2> QED
    BY <1>1, <1>2, <1>3, <1>4, <2>1 DEF LogTyped
<1>9. LogPlaces'
  <2>1. child \in {"off", "closing"}
    BY <1>1, <1>2 DEF LogPlaces, LogTyped
  <2> QED
    BY <1>1, <1>2, <2>1 DEF LogPlaces
<1>10. LogCleared'
  BY <1>1, <1>2, <1>4, <1>7 DEF LogCleared
<1>11. LogSized'
  BY <1>1, <1>2, <1>3, <1>4, PiecesAre, LogBounds DEF LogSized
<1> QED
  BY <1>7, <1>8, <1>9, <1>10, <1>11 DEF LogInv

\* A request removes the files itself: what a logger has open goes on without a name
\* (handleInstanceLogsClear).
LEMMA RemoveFilesKeeps == ASSUME LogInv, RemoveFiles PROVE LogInv'
<1> USE DEF outputVars, loggerVars, diskVars, clearVars, logHistory
<1>1. LogTyped /\ LogPlaces /\ LogOrder /\ LogKept /\ LogCleared /\ LogSized /\ RecentInOrder
  BY LogParts
<1>2. /\ clearer.pc = "removing" /\ clearer' = [pc |-> "idle", upTo |-> 0]
      /\ cleared' = Max({clearer.upTo, cleared})
      /\ UNCHANGED <<archiving, child, published, pipe, lastLine, copier, copied, queue, buf, size, cold, cons,
                     stopAsked, archived, clears, torn, reopened>>
  BY DEF RemoveFiles
<1>3. clearer.upTo \in Nat /\ clearer.upTo <= copied /\ copied \in Nat /\ cleared \in Nat /\ cleared <= copied
  BY <1>1, LogBounds DEF LogTyped
<1>4. PICK left \in SUBSET (0..Keep) :
        /\ RemovesAllBut(left) /\ spoilt' = (spoilt \/ left # {})
        /\ IF 0 \in left
           THEN accounted' = accounted \cup OldLinesBut(left) /\ UNCHANGED <<current, file>>
           ELSE /\ accounted' = accounted \cup OldLinesBut(left) \cup Lines(current)
                /\ current' = <<>> /\ file' = IF file = "open" THEN "orphan" ELSE file
  BY DEF RemoveFiles
<1>5. /\ rotated' = [i \in 1..Keep |-> IF i \in left THEN rotated[i] ELSE <<>>] /\ logFails' \in 0..MaxLogFails
      /\ OldLinesBut(left) \subseteq Line
  <2>1. OldLinesBut(left) \subseteq Line
    BY <1>1, PiecesAre DEF OldLinesBut
  <2>2. CASE left = {}
    BY <1>1, <1>4, <2>1, <2>2 DEF RemovesAllBut, LogTyped
  <2>3. CASE left # {}
    <3>1. /\ logFails < MaxLogFails /\ logFails' = logFails + 1
          /\ rotated' = [i \in 1..Keep |-> IF i \in left THEN rotated[i] ELSE <<>>]
      BY <1>4, <2>3 DEF RemovesAllBut, LogFail
    <3> QED
      BY <1>1, <2>1, <3>1, LogBounds DEF LogTyped
  <2> QED
    BY <2>2, <2>3
<1>6. /\ current' \in Seq(Line) /\ Rising(current') /\ Len(current') <= Len(current)
      /\ Lines(current') \subseteq Lines(current) /\ Lines(current) \subseteq Lines(current') \cup accounted'
      /\ accounted' \subseteq Line /\ accounted \cup OldLinesBut(left) \subseteq accounted'
      /\ file' \in {"none", "open", "orphan"} /\ (file' = "none" <=> file = "none")
      /\ Len(current') \in Nat /\ (left = {} => Lines(current') = {})
  <2>1. CASE 0 \in left
    BY <1>1, <1>4, <1>5, <2>1, PiecesAre DEF LogTyped, RecentInOrder
  <2>2. CASE 0 \notin left
    BY <1>1, <1>4, <1>5, <2>2, NoLines, PiecesAre DEF LogTyped
  <2> QED
    BY <2>1, <2>2
<1>7. Recent' \subseteq Recent /\ Recent \subseteq Recent' \cup accounted' /\ RecentInOrder'
  <2>1. Recent' \subseteq Recent /\ Recent \subseteq Recent' \cup accounted'
    BY <1>2, <1>6 DEF Recent
  <2> QED
    BY <1>1, <1>2, <1>6, <2>1 DEF RecentInOrder, Before
<1>8. /\ LogOrder' /\ LogKept' /\ Everywhere' \subseteq Everywhere /\ rotated' \in [1..Keep -> Seq(Line)]
      /\ (left = {} => Everywhere' = Lines(buf) \cup Lines(queue) \cup Lines(pipe))
  <2>1. /\ LogOrder' /\ LogKept' /\ Everywhere' \subseteq Everywhere /\ rotated' \in [1..Keep -> Seq(Line)]
        /\ (left = {} => Everywhere' = Recent')
    BY <1>2, <1>5, <1>6, <1>7, OldFilesGo
  <2> QED
    BY <1>2, <1>6, <2>1 DEF Recent
<1>9. cleared' \in 0..copied /\ (cleared' = cleared \/ cleared' = clearer.upTo)
  BY <1>2, <1>3, MaxOfTwo
<1>10. LogTyped'
  <2>1. /\ clearer' \in [pc : {"idle", "asking", "waiting", "removing"}, upTo : 0..MaxLines]
        /\ clearer'.upTo <= copied
    BY <1>2, <1>3, LogBounds
  <2>2. spoilt' \in BOOLEAN
    BY <1>1, <1>4, Zenon DEF LogTyped
  <2>3. accounted' \subseteq Line /\ file' \in {"none", "open", "orphan"} /\ current' \in Seq(Line)
    BY <1>6
  <2>4. logFails' \in 0..MaxLogFails /\ rotated' \in [1..Keep -> Seq(Line)] /\ cleared' \in 0..copied
    BY <1>5, <1>8, <1>9
  <2> QED
    BY <1>1, <1>2, <2>1, <2>2, <2>3, <2>4 DEF LogTyped
<1>11. LogPlaces'
  BY <1>1, <1>2, <1>6 DEF LogPlaces
<1>12. LogCleared'
  <2>1. ASSUME ~spoilt', NEW l \in Everywhere' PROVE l > cleared'
    <3>1. ~spoilt /\ left = {}
      BY <1>4, <2>1, Zenon
    <3> QED
      BY <1>1, <1>2, <1>8, <1>9, <2>1, <3>1 DEF LogCleared
  <2> QED
    BY <1>1, <1>2, <2>1 DEF LogCleared
<1>13. LogSized'
  <2>1. Len(current) \in Nat /\ Len(buf) \in Nat /\ MaxSize \in Nat /\ size \in Nat
    BY <1>1, PiecesAre, LogBounds DEF LogTyped
  <2> QED
    BY <1>1, <1>2, <1>6, <2>1 DEF LogSized
<1> QED
  BY <1>8, <1>10, <1>11, <1>12, <1>13 DEF LogInv

\* A crash loses what is in memory, and accounts for it.
LEMMA CrashLoggerKeeps == ASSUME LogInv, CrashLogger PROVE LogInv'
<1> USE DEF outputVars, loggerVars, diskVars, clearVars, logHistory
<1>1. LogTyped /\ LogPlaces /\ LogOrder /\ LogKept /\ LogCleared /\ LogSized /\ RecentInOrder
  BY LogParts
<1>2. /\ accounted' = accounted \cup Lines(pipe) \cup Lines(queue) \cup Lines(buf)
      /\ child' = "off" /\ published' = FALSE /\ pipe' = <<>> /\ copier' = "none"
      /\ queue' = <<>> /\ buf' = <<>> /\ file' = "none" /\ cons' = "done" /\ stopAsked' = TRUE
      /\ clearer' = [pc |-> "idle", upTo |-> 0] /\ LogFail
      /\ UNCHANGED <<archiving, lastLine, copied, size, cold, current, rotated, archived, clears, torn, cleared,
                     reopened, spoilt>>
  BY DEF CrashLogger
<1>3. /\ pipe' \in Seq(Line) /\ Lines(pipe') = {} /\ Rising(pipe') /\ Len(pipe') = 0
      /\ queue' \in Seq(Line) /\ Lines(queue') = {} /\ Rising(queue') /\ Len(queue') = 0
      /\ buf' \in Seq(Line) /\ Lines(buf') = {} /\ Rising(buf') /\ Len(buf') = 0
  BY <1>2, NoLines
<1>4. Recent' \subseteq Recent /\ Recent \subseteq Recent' \cup accounted'
  BY <1>2, <1>3 DEF Recent
<1>5. RecentInOrder'
  BY <1>1, <1>2, <1>3 DEF RecentInOrder, Before
<1>6. LogOrder' /\ LogKept' /\ Everywhere' \subseteq Everywhere
  BY <1>2, <1>4, <1>5, LinesMoveOn
<1>7. LogTyped'
  <2>1. published' \in BOOLEAN /\ stopAsked' \in BOOLEAN
    BY <1>2, Zenon
  <2>2. /\ clearer' \in [pc : {"idle", "asking", "waiting", "removing"}, upTo : 0..MaxLines]
        /\ clearer'.upTo <= copied
    BY <1>1, <1>2, LogBounds DEF LogTyped
  <2>3. accounted' \subseteq Line /\ logFails' \in 0..MaxLogFails
    BY <1>1, <1>2, PiecesAre, LogBounds DEF LogTyped, LogFail
  <2>4. Len(pipe') <= PipeSize /\ Len(queue') <= QueueSize
    BY <1>3, LogBounds
  <2> QED
    BY <1>1, <1>2, <1>3, <2>1, <2>2, <2>3, <2>4 DEF LogTyped
<1>8. LogPlaces'
  BY <1>1, <1>2 DEF LogPlaces
<1>9. LogCleared'
  BY <1>1, <1>2, <1>3, <1>6 DEF LogCleared
<1>10. LogSized'
  BY <1>1, <1>2, <1>3, PiecesAre, LogBounds DEF LogSized
<1> QED
  BY <1>6, <1>7, <1>8, <1>9, <1>10 DEF LogInv

\* Every step of the log keeps the invariant.
LEMMA LogStays == LogInv /\ [LogNext]_logVars => LogInv'
<1> SUFFICES ASSUME LogInv, [LogNext]_logVars PROVE LogInv'
  OBVIOUS
<1>1. CASE LogNext
  BY <1>1, QuietLog, EmitLineKeeps, CopyLineKeeps, WaitReturnsKeeps, DropLineKeeps, AppendLineKeeps,
     RotateFileKeeps, FinishClearKeeps, ClearWhileStoppingKeeps, FinishStopKeeps, RemoveFilesKeeps,
     CrashLoggerKeeps, Zenon DEF LogNext
<1>2. CASE UNCHANGED logVars
  <2>1. UNCHANGED <<archiving, child, published, pipe, lastLine, copier, copied, queue, buf, file, size,
            cold, cons,
                    stopAsked, current, rotated, archived, clearer, clears, logFails, accounted, torn, cleared,
                    reopened, spoilt>>
    BY <1>2 DEF logVars, outputVars, loggerVars, diskVars, clearVars, logHistory
  <2>2. LogTyped /\ LogPlaces /\ LogOrder /\ LogKept /\ LogCleared /\ LogSized
    BY LogParts
  <2>3. LogOrder' /\ LogKept' /\ Everywhere' = Everywhere
    BY <2>1, LinesStay DEF diskVars
  <2>4. LogTyped'
    BY <2>1, <2>2 DEF LogTyped
  <2>5. LogPlaces' /\ LogCleared' /\ LogSized'
    BY <2>1, <2>2, <2>3 DEF LogPlaces, LogCleared, LogSized
  <2> QED
    BY <2>3, <2>4, <2>5 DEF LogInv
<1> QED
  BY <1>1, <1>2

\* The log of a process, and the audit log, for any sizes of queue, pipe and files: from the
\* oldest file to the pipe the lines are in order, none twice; a line that was written is
\* there unless it was dropped, cleared, rotated away or lost with a failure; what a clear has
\* answered for stays away, outside of its window; and a file that the logger has made is
\* within its limit (fileLogger.run, writeAll, rotate, doClear and the copier of startProcess).
THEOREM LogSafe == LogSpec => [](LogTypeOK /\ LogHolds)
<1>1. LogInit => LogInv
  BY LogBegins
<1>2. LogInv /\ [LogNext]_logVars => LogInv'
  BY LogStays
<1>3. LogInv => LogTypeOK /\ LogHolds
  BY LogInvHolds
<1> QED
  BY <1>1, <1>2, <1>3, PTL DEF LogSpec

============================================================================
