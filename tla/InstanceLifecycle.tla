------------------------- MODULE InstanceLifecycle -------------------------
(***************************************************************************)
(* The life of one managed instance of an IriX node: the Instance object   *)
(* (Status, Proc, Busy) of daemon.go, the operations of instance.go that   *)
(* start, stop, restart, kill and delete it, the exit watcher that every   *)
(* started process gets, the record file process_records.go keeps for it,  *)
(* and the graceful shutdown of app_runtime.go.                            *)
(*                                                                         *)
(* Each operation is split where the code releases Instance.mu (or another *)
(* lock): one action is one critical section or one blocking call.  A      *)
(* process generation is a number in 1..MaxProcs; a Process object is      *)
(* never reused, so "Proc == proc" in the code is equality of generations. *)
(***************************************************************************)
EXTENDS Naturals

CONSTANTS
    Request,    \* the HTTP handlers that may be running at the same time
    Boot,       \* the goroutine autoStartInstances starts for the instance
    Main,       \* the goroutine that runs nodeRuntime.run and shutdown
    Ops,        \* the operations clients ask for
    Faults,     \* the calls the environment may make fail
    AutoStart,  \* the configuration's EventTask.AutoStart
    MaxProcs    \* bound: how many processes are spawned in one behaviour

ASSUME MaxProcsAssumption == MaxProcs \in Nat \ {0}

ASSUME ThreadsAssumption ==
    /\ Boot # Main
    /\ Boot \notin Request /\ Main \notin Request
    /\ \A p \in 0..MaxProcs : p \notin Request /\ p # Boot /\ p # Main

ASSUME ConfigAssumption ==
    /\ Ops \subseteq {"start", "stop", "restart", "kill", "remove"}
    /\ Faults \subseteq {"record", "forget", "kill"}
    /\ AutoStart \in BOOLEAN

VARIABLES
    status,     \* Instance.Status
    proc,       \* Instance.Proc: a generation, or NoProc for nil
    busy,       \* Instance.Busy
    listed,     \* the instance is in Daemon.Instances
    pstate,     \* per generation: not started, running, or done is closed
    record,     \* the generation named by the record file, or NoProc
    pc,         \* per goroutine: the next critical section or blocking call
    mine,       \* per goroutine: the local variable proc
    restarting, \* goroutines of the restart handler that are still to start
    gate,       \* goroutines inside the processStarts gate
    shutdownErr,\* stopAll met an error
    intent,     \* history: generations detached on purpose and not given back
    bypass      \* history: Busy failed to exclude two operations, see below

inst == <<status, proc, busy, listed>>
threads == <<pc, mine, restarting, gate>>
history == <<intent, bypass>>
vars == <<status, proc, busy, listed, pstate, record, pc, mine, restarting,
          gate, shutdownErr, intent, bypass>>

NoProc == 0
Pid == 1..MaxProcs

\* The exit watcher of generation p is a goroutine of its own, named p.
Thread == Request \cup {Boot} \cup Pid

Status == {"stopped", "stopping", "starting", "running"}

StartLabel == {"enter", "claim", "spawn", "record", "killnew",
               "publish", "running", "release", "watch", "unbusy"}
StopLabel == {"detach", "stopping", "reattach", "stopForget", "stopped",
              "stopRelease"}
KillLabel == {"killStatus", "killDetach", "killing", "killRestore",
              "killRestored", "killForget", "killDone"}
RemoveLabel == {"rmRead", "rmKill", "rmForget", "rmUnlist"}
WatchLabel == {"wait", "wForget", "wCheck"}
Label == {"idle"} \cup StartLabel \cup StopLabel \cup KillLabel
             \cup RemoveLabel \cup WatchLabel

MainLabel == {"up", "sealStarts", "drain", "stopAll",
              "allStopping", "allForget", "allStatus",
              "waitWatchers", "down"}

\* A goroutine that has set Busy and has not yet cleared it on its own account.
Holding == {"spawn", "record", "killnew", "publish", "running", "release",
            "stopping", "reattach", "stopForget", "stopped", "stopRelease"}

\* The type of every variable: a generation has not been spawned, runs or is done,
\* and what Proc and the record file name is a generation.
TypeOK ==
    /\ status \in Status
    /\ proc \in Pid \cup {NoProc}
    /\ busy \in BOOLEAN
    /\ listed \in BOOLEAN
    /\ pstate \in [Pid -> {"none", "running", "done"}]
    /\ record \in Pid \cup {NoProc}
    /\ pc \in [Thread \cup {Main} -> Label \cup MainLabel]
    /\ pc[Main] \in MainLabel
    /\ \A t \in Thread : pc[t] \in Label
    /\ mine \in [Thread \cup {Main} -> Pid \cup {NoProc}]
    /\ restarting \subseteq Thread
    /\ gate \subseteq Thread
    /\ shutdownErr \in BOOLEAN
    /\ intent \subseteq Pid
    /\ bypass \in BOOLEAN

Init ==
    /\ status = "stopped" /\ proc = NoProc /\ busy = FALSE /\ listed = TRUE
    /\ pstate = [p \in Pid |-> "none"]
    /\ record = NoProc
    /\ pc = [t \in Thread \cup {Main} |->
                IF t = Main THEN "up"
                ELSE IF t = Boot /\ AutoStart THEN "enter" ELSE "idle"]
    /\ mine = [t \in Thread \cup {Main} |-> NoProc]
    /\ restarting = {} /\ gate = {} /\ shutdownErr = FALSE
    /\ intent = {} /\ bypass = FALSE

----------------------------------------------------------------------------
(* What the operations read of a process, of the gates and of the workers. *)

\* Process.IsRunning: the done channel is still open.
IsRunning(p) == p \in Pid /\ pstate[p] = "running"

\* httpRequests and processStarts refuse new entries once they are sealed.
HTTPOpen == pc[Main] = "up"
StartsOpen == pc[Main] \in {"up", "sealStarts"}

\* processStarts.wait() has returned.
Drained == pc[Main] \notin {"up", "sealStarts", "drain"}

\* workers.ctx has been cancelled by backgroundWorkers.stop.
Cancelled == pc[Main] \in {"stopAll", "allStopping", "allForget", "allStatus",
                           "waitWatchers", "down"}

\* Control moves on; a local variable lives as long as the call that set it.
Goto(t, l) ==
    /\ pc' = [pc EXCEPT ![t] = l]
    /\ UNCHANGED <<mine, restarting>>

GotoWith(t, l, p) ==
    /\ pc' = [pc EXCEPT ![t] = l]
    /\ mine' = [mine EXCEPT ![t] = p]
    /\ UNCHANGED restarting

\* The stop of a restart returned an error: the restart will not start.
GotoNoRestart(t, l) ==
    /\ pc' = [pc EXCEPT ![t] = l]
    /\ restarting' = restarting \ {t}
    /\ UNCHANGED mine

\* The goroutine returns: a handler answers, a watcher ends.
Finish(t) ==
    /\ pc' = [pc EXCEPT ![t] = "idle"]
    /\ mine' = [mine EXCEPT ![t] = NoProc]
    /\ restarting' = restarting \ {t}

\* The stop returned without an error: handleInstanceRestart goes on to start.
StartOrFinish(t) ==
    /\ pc' = [pc EXCEPT ![t] = IF t \in restarting THEN "enter" ELSE "idle"]
    /\ mine' = [mine EXCEPT ![t] = NoProc]
    /\ restarting' = restarting \ {t}

\* Busy = false.  It is a bypass of the mutual exclusion when another
\* goroutine is inside its own Busy section at that moment.
ClearBusy(t) ==
    /\ busy' = FALSE
    /\ bypass' = (bypass \/ \E u \in Thread \ {t} : pc[u] \in Holding)

\* forgetProcess removes the record file only when it names the same
\* generation.  A process that was never recorded has an empty
\* Process.record, and the file never names it.
Forgotten(p) == IF record = p THEN NoProc ELSE record

----------------------------------------------------------------------------
(* A process exits when it likes; the goroutine of startProcess that waits  *)
(* for it then drains the output, for three seconds at most, and closes     *)
(* done.  Nothing in this module can tell an exited process from a running  *)
(* one before that, so the exit and the close are one step.                 *)

FaultExitLeavesZombie(p) ==
    /\ pstate[p] = "running"
    /\ pstate' = [pstate EXCEPT ![p] = "zombie"]
    /\ UNCHANGED <<inst, record, threads, shutdownErr, history>>

Exit(p) ==
    /\ pstate[p] = "running"
    /\ pstate' = [pstate EXCEPT ![p] = "done"]
    /\ UNCHANGED <<inst, record, threads, shutdownErr, history>>

----------------------------------------------------------------------------
(* startInstance, run by a request, by Boot or by a watcher (autoRestart). *)

\* processStarts.enter()
StartEnter(t) ==
    /\ pc[t] = "enter"
    /\ \/ /\ StartsOpen
          /\ gate' = gate \cup {t}
          /\ Goto(t, "claim")
       \/ /\ ~StartsOpen
          /\ Finish(t)
          /\ UNCHANGED gate
    /\ UNCHANGED <<inst, pstate, record, shutdownErr, history>>

\* Busy and "already running" refuse, and the deferred leave() follows;
\* otherwise Busy and StatusStarting.
FaultStartClaimIgnoresBusy(t) ==
    /\ pc[t] = "claim"
    /\ \/ /\ IsRunning(proc)
          /\ gate' = gate \ {t}
          /\ Finish(t)
          /\ UNCHANGED inst
       \/ /\ ~IsRunning(proc)
          /\ busy' = TRUE
          /\ status' = "starting"
          /\ Goto(t, "spawn")
          /\ UNCHANGED <<proc, listed, gate>>
    /\ UNCHANGED <<pstate, record, shutdownErr, history>>

StartClaim(t) ==
    /\ pc[t] = "claim"
    /\ \/ /\ busy \/ IsRunning(proc)
          /\ gate' = gate \ {t}
          /\ Finish(t)
          /\ UNCHANGED inst
       \/ /\ ~busy /\ ~IsRunning(proc)
          /\ busy' = TRUE
          /\ status' = "starting"
          /\ Goto(t, "spawn")
          /\ UNCHANGED <<proc, listed, gate>>
    /\ UNCHANGED <<pstate, record, shutdownErr, history>>

\* vaultMaterialize and startProcess; when either fails, StatusStopped.
StartSpawn(t) ==
    /\ pc[t] = "spawn"
    /\ \/ \E p \in Pid :
             /\ pstate[p] = "none"
             /\ \A q \in 1..(p - 1) : pstate[q] # "none"
             /\ pstate' = [pstate EXCEPT ![p] = "running"]
             /\ GotoWith(t, "record", p)
             /\ UNCHANGED status
       \/ /\ status' = "stopped"
          /\ Goto(t, "unbusy")
          /\ UNCHANGED pstate
    /\ UNCHANGED <<proc, busy, listed, record, gate, shutdownErr, history>>

\* recordProcess: the file is replaced by a rename; on a platform without
\* process identities nothing is written; a failure is fatal only while the
\* process still runs.
StartRecord(t) ==
    /\ pc[t] = "record"
    /\ \/ /\ record' = mine[t]
          /\ Goto(t, "publish")
       \/ /\ Goto(t, "publish")        \* no identities, or failed and exited
          /\ UNCHANGED record
       \/ /\ "record" \in Faults
          /\ IsRunning(mine[t])
          /\ Goto(t, "killnew")
          /\ UNCHANGED record
    /\ UNCHANGED <<inst, pstate, gate, shutdownErr, history>>

\* _ = proc.Kill() returns once done is closed, or with an error nobody
\* reads; then StatusStopped.
StartKillNew(t) ==
    /\ pc[t] = "killnew"
    /\ IsRunning(mine[t]) => "kill" \in Faults
    /\ bypass' = (bypass \/ IsRunning(mine[t]))
    /\ status' = "stopped"
    /\ Goto(t, "unbusy")
    /\ UNCHANGED <<proc, busy, listed, pstate, record, gate, shutdownErr, intent>>

StartPublish(t) ==
    /\ pc[t] = "publish"
    /\ proc' = mine[t]
    /\ Goto(t, "running")
    /\ UNCHANGED <<status, busy, listed, pstate, record, gate,
                   shutdownErr, history>>

\* SetStatus(StatusRunning), then Save.
StartRunning(t) ==
    /\ pc[t] = "running"
    /\ status' = "running"
    /\ Goto(t, "release")
    /\ UNCHANGED <<proc, busy, listed, pstate, record, gate,
                   shutdownErr, history>>

\* The explicit Busy = false before the watcher is started.
StartRelease(t) ==
    /\ pc[t] = "release"
    /\ ClearBusy(t)
    /\ Goto(t, "watch")
    /\ UNCHANGED <<status, proc, listed, pstate, record, gate,
                   shutdownErr, intent>>

\* processWatchers.Add(1); go func() {...}
FaultStartWatchForgotten(t) ==
    /\ pc[t] = "watch"
    /\ Goto(t, "unbusy")
    /\ UNCHANGED <<inst, pstate, record, gate, shutdownErr, history>>

StartWatch(t) ==
    /\ pc[t] = "watch"
    /\ pc' = [pc EXCEPT ![mine[t]] = "wait", ![t] = "unbusy"]
    /\ UNCHANGED <<inst, pstate, record, mine, restarting, gate, shutdownErr, history>>

\* The deferred calls of every return after the claim: Busy = false, then
\* processStarts.leave().
StartReturn(t) ==
    /\ pc[t] = "unbusy"
    /\ ClearBusy(t)
    /\ gate' = gate \ {t}
    /\ Finish(t)
    /\ UNCHANGED <<status, proc, listed, pstate, record, shutdownErr, intent>>

Start(t) ==
    \/ StartEnter(t) \/ StartClaim(t) \/ StartSpawn(t) \/ StartRecord(t)
    \/ StartKillNew(t) \/ StartPublish(t) \/ StartRunning(t)
    \/ StartRelease(t) \/ StartWatch(t) \/ StartReturn(t)

----------------------------------------------------------------------------
(* stopInstance, run by the stop and restart handlers.                     *)

\* Busy refuses, so does "not running" (restart goes on to start); otherwise
\* Busy, StatusStopping, and Proc = nil before the wait.
FaultStopKeepsProc(t) ==
    /\ pc[t] = "detach"
    /\ \/ /\ busy
          /\ Finish(t)
          /\ UNCHANGED <<inst, intent>>
       \/ /\ ~busy /\ ~IsRunning(proc)
          /\ StartOrFinish(t)
          /\ UNCHANGED <<inst, intent>>
       \/ /\ ~busy /\ IsRunning(proc)
          /\ busy' = TRUE
          /\ status' = "stopping"
          /\ intent' = intent \cup {proc}
          /\ GotoWith(t, "stopping", proc)
          /\ UNCHANGED <<proc, listed>>
    /\ UNCHANGED <<pstate, record, gate, shutdownErr, bypass>>

StopDetach(t) ==
    /\ pc[t] = "detach"
    /\ \/ /\ busy
          /\ Finish(t)
          /\ UNCHANGED <<inst, intent>>
       \/ /\ ~busy /\ ~IsRunning(proc)
          /\ StartOrFinish(t)
          /\ UNCHANGED <<inst, intent>>
       \/ /\ ~busy /\ IsRunning(proc)
          /\ busy' = TRUE
          /\ status' = "stopping"
          /\ proc' = NoProc
          /\ intent' = intent \cup {proc}
          /\ GotoWith(t, "stopping", proc)
          /\ UNCHANGED listed
    /\ UNCHANGED <<pstate, record, gate, shutdownErr, bypass>>

\* proc.Stop returns nil once done is closed; after the timeout Kill may fail
\* too.  The code then asks IsRunning again: the process may have exited since.
\* Either way the error ends a restart.
FaultStopWaitsForever(t) ==
    /\ pc[t] = "stopping"
    /\ ~IsRunning(mine[t])
    /\ Goto(t, "stopForget")
    /\ UNCHANGED <<inst, pstate, record, gate, shutdownErr, history>>

StopWait(t) ==
    /\ pc[t] = "stopping"
    /\ \/ /\ ~IsRunning(mine[t])
          /\ \/ Goto(t, "stopForget")
             \/ "kill" \in Faults /\ GotoNoRestart(t, "stopped")
       \/ /\ "kill" \in Faults
          /\ IsRunning(mine[t])
          /\ GotoNoRestart(t, "reattach")
    /\ UNCHANGED <<inst, pstate, record, gate, shutdownErr, history>>

StopReattach(t) ==
    /\ pc[t] = "reattach"
    /\ proc' = mine[t]
    /\ status' = "running"
    /\ intent' = intent \ {mine[t]}
    /\ Goto(t, "stopRelease")
    /\ UNCHANGED <<busy, listed, pstate, record, gate, shutdownErr,
                   bypass>>

\* forgetProcessFor; a file error is returned, and ends a restart.
StopForget(t) ==
    /\ pc[t] = "stopForget"
    /\ \/ /\ record' = Forgotten(mine[t])
          /\ Goto(t, "stopped")
       \/ /\ "forget" \in Faults
          /\ GotoNoRestart(t, "stopped")
          /\ UNCHANGED record
    /\ UNCHANGED <<inst, pstate, gate, shutdownErr, history>>

\* SetStatus(StatusStopped), Save, vaultRecycle.
StopStopped(t) ==
    /\ pc[t] = "stopped"
    /\ status' = "stopped"
    /\ Goto(t, "stopRelease")
    /\ UNCHANGED <<proc, busy, listed, pstate, record, gate,
                   shutdownErr, history>>

\* The deferred Busy = false; handleInstanceRestart then starts.
FaultStopKeepsBusy(t) ==
    /\ pc[t] = "stopRelease"
    /\ StartOrFinish(t)
    /\ UNCHANGED <<inst, pstate, record, gate, shutdownErr, history>>

StopRelease(t) ==
    /\ pc[t] = "stopRelease"
    /\ ClearBusy(t)
    /\ StartOrFinish(t)
    /\ UNCHANGED <<status, proc, listed, pstate, record, gate,
                   shutdownErr, intent>>

Stop(t) ==
    \/ StopDetach(t) \/ StopWait(t) \/ StopReattach(t) \/ StopForget(t)
    \/ StopStopped(t) \/ StopRelease(t)

----------------------------------------------------------------------------
(* handleInstanceKill: it neither reads nor sets Busy.                     *)

KillStatus(t) ==
    /\ pc[t] = "killStatus"
    /\ status' = "stopping"
    /\ Goto(t, "killDetach")
    /\ UNCHANGED <<proc, busy, listed, pstate, record, gate,
                   shutdownErr, history>>

\* Proc = nil before Kill, so that the watcher does not restart the instance.
\* Taking a running process away outside Busy is a bypass of the exclusion.
KillDetach(t) ==
    /\ pc[t] = "killDetach"
    /\ proc' = NoProc
    /\ intent' = IF proc = NoProc THEN intent ELSE intent \cup {proc}
    /\ bypass' = (bypass \/ IsRunning(proc))
    /\ GotoWith(t, IF IsRunning(proc) THEN "killing" ELSE "killDone", proc)
    /\ UNCHANGED <<status, busy, listed, pstate, record, gate, shutdownErr>>

\* IsRunning may have become false; otherwise Kill returns nil once done is
\* closed, or an error.
KillWait(t) ==
    /\ pc[t] = "killing"
    /\ \/ /\ ~IsRunning(mine[t])
          /\ Goto(t, "killForget") \/ Goto(t, "killDone")
       \/ /\ "kill" \in Faults
          /\ IsRunning(mine[t])
          /\ Goto(t, "killRestore")
    /\ UNCHANGED <<inst, pstate, record, gate, shutdownErr, history>>

\* Kill failed: the reference is given back unless Proc was set meanwhile.
KillRestore(t) ==
    /\ pc[t] = "killRestore"
    /\ \/ /\ proc = NoProc
          /\ proc' = mine[t]
          /\ intent' = intent \ {mine[t]}
       \/ /\ proc # NoProc
          /\ UNCHANGED <<proc, intent>>
    /\ Goto(t, "killRestored")
    /\ UNCHANGED <<status, busy, listed, pstate, record, gate,
                   shutdownErr, bypass>>

KillRestored(t) ==
    /\ pc[t] = "killRestored"
    /\ status' = "running"
    /\ Finish(t)
    /\ UNCHANGED <<proc, busy, listed, pstate, record, gate,
                   shutdownErr, history>>

\* A file error returns at once and leaves the status at StatusStopping.
KillForget(t) ==
    /\ pc[t] = "killForget"
    /\ \/ /\ record' = Forgotten(mine[t])
          /\ Goto(t, "killDone")
       \/ /\ "forget" \in Faults
          /\ Finish(t)
          /\ UNCHANGED record
    /\ UNCHANGED <<inst, pstate, gate, shutdownErr, history>>

KillDone(t) ==
    /\ pc[t] = "killDone"
    /\ status' = "stopped"
    /\ Finish(t)
    /\ UNCHANGED <<proc, busy, listed, pstate, record, gate,
                   shutdownErr, history>>

Kill(t) ==
    \/ KillStatus(t) \/ KillDetach(t) \/ KillWait(t) \/ KillRestore(t)
    \/ KillRestored(t) \/ KillForget(t) \/ KillDone(t)

----------------------------------------------------------------------------
(* Daemon.Remove for one uuid of handleInstanceDelete: the process, when   *)
(* there is one, is killed without being detached from Instance.Proc.      *)

RemoveRead(t) ==
    /\ pc[t] = "rmRead"
    /\ GotoWith(t, IF proc # NoProc /\ status # "stopped"
                      THEN "rmKill" ELSE "rmUnlist", proc)
    /\ UNCHANGED <<inst, pstate, record, gate, shutdownErr, history>>

\* An error of Kill returns it; the instance stays listed.
RemoveKill(t) ==
    /\ pc[t] = "rmKill"
    /\ \/ ~IsRunning(mine[t]) /\ Goto(t, "rmForget")
       \/ "kill" \in Faults /\ IsRunning(mine[t]) /\ Finish(t)
    /\ UNCHANGED <<inst, pstate, record, gate, shutdownErr, history>>

RemoveForget(t) ==
    /\ pc[t] = "rmForget"
    /\ \/ /\ record' = Forgotten(mine[t])
          /\ Goto(t, "rmUnlist")
       \/ /\ "forget" \in Faults
          /\ Finish(t)
          /\ UNCHANGED record
    /\ UNCHANGED <<inst, pstate, gate, shutdownErr, history>>

\* The instance leaves d.Instances; files and vault objects follow.
RemoveUnlist(t) ==
    /\ pc[t] = "rmUnlist"
    /\ listed' = FALSE
    /\ Finish(t)
    /\ UNCHANGED <<status, proc, busy, pstate, record, gate,
                   shutdownErr, history>>

Remove(t) == RemoveRead(t) \/ RemoveKill(t) \/ RemoveForget(t) \/ RemoveUnlist(t)

----------------------------------------------------------------------------
(* The exit watcher of generation p.                                       *)

\* select on proc.done and workers.ctx.Done().
FaultWatchIgnoresCancel(p) ==
    /\ pc[p] = "wait"
    /\ ~IsRunning(p)
    /\ Goto(p, "wForget")
    /\ UNCHANGED <<inst, pstate, record, gate, shutdownErr, history>>

WatchWait(p) ==
    /\ pc[p] = "wait"
    /\ \/ /\ ~IsRunning(p)
          /\ Goto(p, "wForget")
       \/ /\ Cancelled
          /\ Finish(p)
    /\ UNCHANGED <<inst, pstate, record, gate, shutdownErr, history>>

\* A file error is only logged.
FaultWatchForgetsAnyGeneration(p) ==
    /\ pc[p] = "wForget"
    /\ record' \in {NoProc, record}
    /\ Goto(p, "wCheck")
    /\ UNCHANGED <<inst, pstate, gate, shutdownErr, history>>

WatchForget(p) ==
    /\ pc[p] = "wForget"
    /\ \/ record' = Forgotten(p)
       \/ "forget" \in Faults /\ UNCHANGED record
    /\ Goto(p, "wCheck")
    /\ UNCHANGED <<inst, pstate, gate, shutdownErr, history>>

\* An exit nobody asked for: the status becomes StatusStopped and, if
\* EventTask.AutoRestart is set and autoRestart lets it through (the vault is
\* not locked, the ten-second window is not used up), the watcher starts the
\* instance again.
WatchCheck(p) ==
    /\ pc[p] = "wCheck"
    /\ \/ /\ proc = p
          /\ status' = "stopped"
          /\ Goto(p, "enter") \/ Finish(p)
       \/ /\ proc # p
          /\ Finish(p)
          /\ UNCHANGED status
    /\ UNCHANGED <<proc, busy, listed, pstate, record, gate,
                   shutdownErr, history>>

Watch(p) == WatchWait(p) \/ WatchForget(p) \/ WatchCheck(p)

----------------------------------------------------------------------------
(* nodeRuntime.shutdown, as far as it concerns the instance.               *)

\* httpRequests.seal(): run has been told to stop.
ShutdownSealHTTP ==
    /\ pc[Main] = "up"
    /\ Goto(Main, "sealStarts")
    /\ UNCHANGED <<inst, pstate, record, gate, shutdownErr, history>>

\* processStarts.seal(); then server.Shutdown and listener.Close.
ShutdownSealStarts ==
    /\ pc[Main] = "sealStarts"
    /\ Goto(Main, "drain")
    /\ UNCHANGED <<inst, pstate, record, gate, shutdownErr, history>>

\* httpRequests.wait(), processStarts.wait(), StopAutoSave, workers.stop (it
\* cancels the watchers' context) and FlushDirty.
FaultShutdownSkipsStarts ==
    /\ pc[Main] = "drain"
    /\ \A r \in Request : pc[r] = "idle"
    /\ Goto(Main, "stopAll")
    /\ UNCHANGED <<inst, pstate, record, gate, shutdownErr, history>>

ShutdownDrain ==
    /\ pc[Main] = "drain"
    /\ \A r \in Request : pc[r] = "idle"
    /\ gate = {}
    /\ Goto(Main, "stopAll")
    /\ UNCHANGED <<inst, pstate, record, gate, shutdownErr, history>>

\* stopAll: every listed instance is detached, running ones are stopped.
StopAllDetach ==
    /\ pc[Main] = "stopAll"
    /\ \/ /\ listed
          /\ proc' = NoProc
          /\ intent' = IF proc = NoProc THEN intent ELSE intent \cup {proc}
          /\ GotoWith(Main, IF IsRunning(proc) THEN "allStopping" ELSE "waitWatchers", proc)
       \/ /\ ~listed
          /\ Goto(Main, "waitWatchers")
          /\ UNCHANGED <<proc, intent>>
    /\ UNCHANGED <<status, busy, listed, pstate, record, gate, shutdownErr,
                   bypass>>

StopAllWait ==
    /\ pc[Main] = "allStopping"
    /\ \/ /\ ~IsRunning(mine[Main])
          /\ Goto(Main, "allForget")
          /\ UNCHANGED shutdownErr
       \/ /\ "kill" \in Faults
          /\ IsRunning(mine[Main])
          /\ Goto(Main, "allStatus")
          /\ shutdownErr' = TRUE
    /\ UNCHANGED <<inst, pstate, record, gate, history>>

StopAllForget ==
    /\ pc[Main] = "allForget"
    /\ \/ /\ record' = Forgotten(mine[Main])
          /\ UNCHANGED shutdownErr
       \/ /\ "forget" \in Faults
          /\ shutdownErr' = TRUE
          /\ UNCHANGED record
    /\ Goto(Main, "allStatus")
    /\ UNCHANGED <<inst, pstate, gate, history>>

\* SetStatus(StatusStopped) after a success and after a failure alike.
StopAllStatus ==
    /\ pc[Main] = "allStatus"
    /\ status' = "stopped"
    /\ Goto(Main, "waitWatchers")
    /\ UNCHANGED <<proc, busy, listed, pstate, record, gate,
                   shutdownErr, history>>

\* processWatchers.Wait(), then the accounts and the vault are closed.
ShutdownWaitWatchers ==
    /\ pc[Main] = "waitWatchers"
    /\ \A p \in Pid : pc[p] = "idle"
    /\ Goto(Main, "down")
    /\ UNCHANGED <<inst, pstate, record, gate, shutdownErr, history>>

ShutdownStep ==
    \/ ShutdownSealStarts \/ ShutdownDrain \/ StopAllDetach \/ StopAllWait
    \/ StopAllForget \/ StopAllStatus \/ ShutdownWaitWatchers

----------------------------------------------------------------------------
(* A request enters through trackRequests and finds the instance.          *)

FirstLabel == [start |-> "enter", stop |-> "detach", restart |-> "detach",
               kill |-> "killStatus", remove |-> "rmRead"]

Begin(r, o) ==
    /\ pc[r] = "idle"
    /\ HTTPOpen
    /\ listed
    /\ restarting' = IF o = "restart" THEN restarting \cup {r} ELSE restarting
    /\ pc' = [pc EXCEPT ![r] = FirstLabel[o]]
    /\ UNCHANGED <<inst, pstate, record, mine, gate, shutdownErr, history>>

Step(t) == Start(t) \/ Stop(t) \/ Kill(t) \/ Remove(t) \/ (t \in Pid /\ Watch(t))

\* The process has ended: nothing is left to do.
Terminated ==
    /\ pc[Main] = "down"
    /\ \A t \in Thread : pc[t] = "idle"
    /\ \A p \in Pid : ~IsRunning(p)
    /\ UNCHANGED vars

Next ==
    \/ \E r \in Request, o \in Ops : Begin(r, o)
    \/ \E t \in Thread : Step(t)
    \/ \E p \in Pid : Exit(p)
    \/ ShutdownSealHTTP
    \/ ShutdownStep
    \/ Terminated

Spec == Init /\ [][Next]_vars

\* Goroutines that can run are run, and with "kill" in Faults blocking calls
\* end (Stop and Kill have timeouts).  Nothing makes a client send a request, a
\* process exit, or an operator stop the node.
Fairness ==
    /\ \A t \in Thread : WF_vars(Step(t))
    /\ WF_vars(ShutdownStep)

FairSpec == Spec /\ Fairness
----------------------------------------------------------------------------
(* Safety.                                                                 *)

\* A record file is deleted only when the generation it names has been reaped.
\* forgetProcess compares the whole record, and each caller (stop, kill, remove,
\* stopAll, the watcher) comes after done: a process that still runs keeps the
\* file that lets the next start of the node find it.
ForgetOnlyDead ==
    [][record' = NoProc => record = NoProc \/ ~IsRunning(record)]_vars

\* No process is spawned once processStarts has been drained: what stopAll
\* finds is all there is, whatever watchers and boot goroutines still try.
NoSpawnAfterDrain ==
    [][Drained
          => \A p \in Pid : pstate[p] = "none" => pstate'[p] = "none"]_vars

\* A process that stop, kill or stopAll took away on purpose and did not give
\* back is never taken for a crash: its watcher does not reach autoRestart.
StoppedNotRestarted ==
    [][\A p \in intent : ~(pc[p] = "wCheck" /\ pc'[p] = "enter")]_vars

\* While the node is up, a running process that Proc names has its watcher, or
\* the startInstance that published it is about to attach one; a failed stop
\* or kill that gives Proc back relies on it.
PublishedIsWatched ==
    IsRunning(proc) =>
        \/ Cancelled
        \/ pc[proc] = "wait"
        \/ \E t \in Thread : mine[t] = proc /\ pc[t] \in {"running", "release", "watch"}

Running == {p \in Pid : IsRunning(p)}

\* At most one process of the instance runs.  (qa_security_test.go says so of
\* concurrent starts; the run that checks this formula shows how it fails.)
OneProcess == \A p, q \in Running : p = q

\* Two processes of one instance run only after Busy failed to exclude two
\* operations: a Busy = false that ended somebody else's section, a kill
\* handler that detached a running process, or a start that could not kill the
\* process it failed to record.  Restarts, failed stops that give Proc back,
\* crashes at any moment and concurrent removes do not break it.
OneProcessUnlessBypassed == ~bypass => OneProcess

\* A shutdown that reported no error leaves no process of a listed instance
\* behind, unless Busy was bypassed.
NoOrphanAfterShutdown ==
    pc[Main] = "down" /\ listed /\ ~shutdownErr /\ ~bypass => Running = {}

----------------------------------------------------------------------------
(* What the code means to keep and does not, each formula named with the    *)
(* window that breaks it.                                                   *)

\* Two operations are never inside their Busy sections together ("startInstance
\* ... with busy mutual exclusion").  Broken: the deferred Busy = false of a
\* finished start ends the section of whoever has claimed Busy since.
BusyExclusion ==
    \A t, u \in Thread : pc[t] \in Holding /\ pc[u] \in Holding => t = u

\* No goroutine is in the middle of an operation.
Quiet == \A t \in Thread : pc[t] = "idle" \/ (t \in Pid /\ pc[t] = "wait" /\ IsRunning(t))

\* Once every goroutine has finished, the status says whether Proc runs.
\* Broken by a kill that overlaps a start.
StatusAgrees ==
    pc[Main] = "up" /\ Quiet =>
        (status = "running" <=> IsRunning(proc)) /\ status \in {"stopped", "running"}

\* An instance that has been deleted has no process once every goroutine has
\* finished (deleting kills the process first).  Broken by a delete that overlaps
\* a start: it finds no Proc yet.
DeletedHasNoProcess == ~listed /\ Quiet => Running = {}

----------------------------------------------------------------------------
(* Liveness, under FairSpec.                                               *)

\* Every request is answered: no operation waits for ever for a process, for
\* another operation or for the gate.
RequestsAnswered == \A r \in Request : pc[r] # "idle" ~> pc[r] = "idle"

\* Busy never sticks: the instance can always be operated again.
BusyReleased == busy ~> ~busy

\* A shutdown that has begun comes to its end.
ShutdownCompletes == pc[Main] = "sealStarts" ~> pc[Main] = "down"

----------------------------------------------------------------------------
(* Refinement.                                                             *)

Slot == INSTANCE ProcessSlot WITH
            Proc <- Pid, None <- NoProc,
            running <- Running,
            used <- {p \in Pid : pstate[p] # "none"},
            recorded <- record,
            drained <- Drained,
            broken <- bypass

\* The operations, the watchers and the shutdown together implement the slot:
\* every spawn finds it empty and undrained, and the record outlives the process.
ImplementsSlot == Slot!SlotSpec

============================================================================
