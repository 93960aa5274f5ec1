----------------------------- MODULE FrpTunnels -----------------------------
(***************************************************************************)
(* The FRP tunnels: a list that is kept in tunnels.json, for each tunnel   *)
(* the frpc process that serves it, and a goroutine that waits for every   *)
(* process.  Requests create, start, stop and delete tunnels; a lock keeps *)
(* the fields of a tunnel together, but a start and a stop work outside it *)
(* on the process.                                                         *)
(***************************************************************************)
EXTENDS Naturals, FiniteSets

CONSTANTS
    Tunnel,       \* ids of tunnels: never used twice
    FrpRequest,   \* requests that run at the same time
    MaxFrpOps,    \* bound of the requests
    MaxFrpc,      \* bound of the processes
    MaxFrpFails   \* bound of the kills, the saves and the reads of the list that fail, and of the crashes

ASSUME FrpAssumption ==
    MaxFrpOps \in Nat /\ MaxFrpc \in Nat /\ MaxFrpFails \in Nat /\ "none" \notin Tunnel

VARIABLES
    tunnels,    \* d.frpTunnels
    saved,      \* what tunnels.json lists
    everMade,   \* the ids that were given
    tunnelProc, \* frpTunnel.proc, 0 for none
    status,     \* frpTunnel.Status
    config,     \* tunnels that have their .toml
    frpc,       \* the processes that run
    serves,     \* process -> its tunnel
    lastFrpc,
    guarded,    \* the processes whose goroutine has not ended
    gate,       \* of the node: open, then sealed by the shutdown, stopping, over
    toStop,     \* the tunnels that frpStopAll has not come to
    freq,       \* per request: what it does and how far it is
    frpOps, frpFails,
    touched,    \* history: tunnels that two requests were at, at the same time
    loose       \* history: processes that a failed kill or a crash has left

tunnelVars == <<tunnels, saved, everMade, tunnelProc, status, config>>
frpcVars == <<frpc, serves, lastFrpc, guarded>>
frpNode == <<gate, toStop>>
frpCounts == <<frpOps, frpFails, touched, loose>>
frpVars == <<tunnelVars, frpcVars, frpNode, freq, frpCounts>>

NoTunnel == "none"
FrpFree == [op |-> "stop", pc |-> "idle", of |-> NoTunnel, holds |-> 0]
Frpc == 1..MaxFrpc

FrpTypeOK ==
    /\ {tunnels, saved, everMade, config, toStop, touched} \subseteq SUBSET Tunnel
    /\ tunnelProc \in [Tunnel -> 0..MaxFrpc] /\ status \in [Tunnel -> {"stopped", "running", "failed"}]
    /\ {frpc, guarded, loose} \subseteq SUBSET Frpc /\ serves \in [Frpc -> Tunnel \cup {NoTunnel}]
    /\ lastFrpc \in 0..MaxFrpc /\ gate \in {"open", "sealed", "stopping", "over"}
    /\ freq \in [FrpRequest -> [op : {"create", "start", "stop", "delete", "halt"},
                                pc : {"idle", "save", "look", "enter", "write", "spawn", "publish",
                                      "take", "kill", "giveback", "settle", "remove"},
                                of : Tunnel \cup {NoTunnel}, holds : 0..MaxFrpc]]
    /\ frpOps \in 0..MaxFrpOps /\ frpFails \in 0..MaxFrpFails

FrpInit ==
    /\ tunnels = {} /\ saved = {} /\ everMade = {} /\ config = {} /\ toStop = {} /\ touched = {} /\ loose = {}
    /\ tunnelProc = [t \in Tunnel |-> 0] /\ status = [t \in Tunnel |-> "stopped"]
    /\ frpc = {} /\ guarded = {} /\ serves = [p \in Frpc |-> NoTunnel] /\ lastFrpc = 0
    /\ gate = "open" /\ freq = [q \in FrpRequest |-> FrpFree]
    /\ frpOps = 0 /\ frpFails = 0

T(q) == freq[q].of
FrpAt(q, pc) == freq[q].pc = pc
FrpGoes(q, pc) == freq' = [freq EXCEPT ![q].pc = pc]
FrpEnds(q) == freq' = [freq EXCEPT ![q] = FrpFree]
FrpFail == frpFails < MaxFrpFails /\ frpFails' = frpFails + 1
Idle == \A q \in FrpRequest : FrpAt(q, "idle")

\* A request comes in, unless the node has begun to shut down.
BeginFrp(q, op, t, first) ==
    /\ gate = "open" /\ FrpAt(q, "idle") /\ frpOps < MaxFrpOps
    /\ frpOps' = frpOps + 1
    /\ freq' = [freq EXCEPT ![q] = [FrpFree EXCEPT !.op = op, !.pc = first, !.of = t]]
    /\ touched' = IF \E o \in FrpRequest : T(o) = t THEN touched \cup {t} ELSE touched
    /\ UNCHANGED <<frpcVars, frpNode, frpFails, loose>>

----------------------------------------------------------------------------
(* The handlers.                                                           *)

\* handleFRPCreate: the tunnel is in the list before it is saved.
CreateTunnel(q, t) ==
    /\ t \notin everMade /\ BeginFrp(q, "create", t, "save")
    /\ tunnels' = tunnels \cup {t} /\ everMade' = everMade \cup {t}
    /\ UNCHANGED <<saved, tunnelProc, status, config>>

\* findFRPTunnel, for a start and for a stop.
FindTunnel(q, t) ==
    /\ t \in tunnels
    /\ \/ BeginFrp(q, "start", t, "look")
       \/ BeginFrp(q, "stop", t, "take")
    /\ UNCHANGED tunnelVars

\* handleFRPStart refuses a tunnel whose process runs.
LookAtTunnel(q) ==
    /\ FrpAt(q, "look")
    /\ IF tunnelProc[T(q)] \in frpc THEN FrpEnds(q) ELSE FrpGoes(q, "enter")
    /\ UNCHANGED <<tunnelVars, frpcVars, frpNode, frpCounts>>

\* handleFRPDelete takes the tunnel out of the list; then it stops it, removes its
\* file and saves the list, whatever fails.
UnlistTunnel(q, t) ==
    /\ t \in tunnels /\ BeginFrp(q, "delete", t, "take")
    /\ tunnels' = tunnels \ {t}
    /\ UNCHANGED <<saved, everMade, tunnelProc, status, config>>
RemoveConfig(q) ==
    /\ FrpAt(q, "remove")
    /\ config' \in {config \ {T(q)}, config} /\ FrpGoes(q, "save")
    /\ UNCHANGED <<tunnels, saved, everMade, tunnelProc, status, frpcVars, frpNode, frpCounts>>

FaultSavesOwnChange(q) == IF freq[q].op = "create" THEN saved \cup {T(q)} ELSE saved \ {T(q)}

\* frpSave writes the list as it is now, under the lock.
WrittenList(q) == tunnels

SaveTunnels(q) ==
    /\ FrpAt(q, "save")
    /\ \/ /\ saved' = WrittenList(q)
          /\ IF freq[q].op = "create" THEN FrpGoes(q, "enter") ELSE FrpEnds(q)
          /\ UNCHANGED frpFails
       \/ FrpFail /\ FrpEnds(q) /\ UNCHANGED saved
    /\ UNCHANGED <<tunnels, everMade, tunnelProc, status, config, frpcVars, frpNode, frpOps, touched, loose>>

----------------------------------------------------------------------------
(* frpStart                                                                *)

\* processStarts.enter
MayStart(q) == gate = "open"

EnterGate(q) ==
    /\ FrpAt(q, "enter")
    /\ IF MayStart(q) THEN FrpGoes(q, "write") ELSE FrpEnds(q)
    /\ UNCHANGED <<tunnelVars, frpcVars, frpNode, frpCounts>>
WriteConfig(q) ==
    /\ FrpAt(q, "write")
    /\ \/ config' = config \cup {T(q)} /\ FrpGoes(q, "spawn")
       \/ config' \in {config, config \cup {T(q)}} /\ FrpEnds(q)
    /\ UNCHANGED <<tunnels, saved, everMade, tunnelProc, status, frpcVars, frpNode, frpCounts>>
SpawnFrpc(q) ==
    /\ FrpAt(q, "spawn") /\ lastFrpc < MaxFrpc
    /\ \/ /\ lastFrpc' = lastFrpc + 1 /\ frpc' = frpc \cup {lastFrpc + 1}
          /\ serves' = [serves EXCEPT ![lastFrpc + 1] = T(q)]
          /\ freq' = [freq EXCEPT ![q].pc = "publish", ![q].holds = lastFrpc + 1]
       \/ FrpEnds(q) /\ UNCHANGED <<frpc, serves, lastFrpc>>
    /\ UNCHANGED <<tunnelVars, guarded, frpNode, frpCounts>>

\* The process is put into the tunnel, over one that another start has put there;
\* the goroutine begins to wait for it.
PublishFrpc(q) ==
    /\ FrpAt(q, "publish")
    /\ tunnelProc' = [tunnelProc EXCEPT ![T(q)] = freq[q].holds]
    /\ status' = [status EXCEPT ![T(q)] = "running"]
    /\ guarded' = guarded \cup {freq[q].holds} /\ FrpEnds(q)
    /\ UNCHANGED <<tunnels, saved, everMade, config, frpc, serves, lastFrpc, frpNode, frpCounts>>

FrpcExits(p) ==
    /\ p \in frpc /\ frpc' = frpc \ {p}
    /\ UNCHANGED <<tunnelVars, serves, lastFrpc, guarded, frpNode, freq, frpCounts>>

FaultFailsAny(p) == TRUE

\* Only the process of the tunnel says that it has failed.
IsOwn(p) == tunnelProc[serves[p]] = p

\* The goroutine, when the process has ended; workers.stop ends it without.
NoticeExit(p) ==
    /\ p \in guarded \ frpc /\ gate \in {"open", "sealed"}
    /\ guarded' = guarded \ {p}
    /\ status' = IF IsOwn(p) THEN [status EXCEPT ![serves[p]] = "failed"] ELSE status
    /\ UNCHANGED <<tunnels, saved, everMade, tunnelProc, config, frpc, serves, lastFrpc, frpNode, freq, frpCounts>>

----------------------------------------------------------------------------
(* frpStop                                                                 *)

\* A stop ends with the request, a deletion goes on, a shutdown takes the next.
AfterStop(q) == IF freq[q].op = "delete" THEN FrpGoes(q, "remove") ELSE FrpEnds(q)

\* The process is taken out of the tunnel; one that runs is killed outside the lock.
TakeFrpc(q) ==
    /\ FrpAt(q, "take")
    /\ tunnelProc' = [tunnelProc EXCEPT ![T(q)] = 0]
    /\ IF tunnelProc[T(q)] \in frpc
       THEN /\ freq' = [freq EXCEPT ![q].pc = "kill", ![q].holds = tunnelProc[T(q)]]
            /\ UNCHANGED status
       ELSE status' = [status EXCEPT ![T(q)] = "stopped"] /\ AfterStop(q)
    /\ UNCHANGED <<tunnels, saved, everMade, config, frpcVars, frpNode, frpCounts>>

KillFrpc(q) ==
    /\ FrpAt(q, "kill")
    /\ \/ frpc' = frpc \ {freq[q].holds} /\ FrpGoes(q, "settle") /\ UNCHANGED <<frpFails, loose>>
       \/ /\ FrpFail /\ FrpGoes(q, "giveback") /\ UNCHANGED frpc
          /\ loose' = IF freq[q].op = "delete" THEN loose \cup {freq[q].holds} ELSE loose
    /\ UNCHANGED <<tunnelVars, serves, lastFrpc, guarded, frpNode, frpOps, touched>>

FaultForgetsAlive(q) == FrpAt(q, "giveback") /\ AfterStop(q) /\ UNCHANGED tunnelProc

\* One that could not be killed stays the tunnel's; when it has ended by now nobody
\* says so any more.
GiveBack(q) ==
    /\ FrpAt(q, "giveback") /\ AfterStop(q)
    /\ tunnelProc' = [tunnelProc EXCEPT ![T(q)] = freq[q].holds]

GiveFrpcBack(q) ==
    /\ GiveBack(q)
    /\ loose' = IF freq[q].holds \in guarded THEN loose ELSE loose \cup {freq[q].holds}
    /\ UNCHANGED <<tunnels, saved, everMade, status, config, frpcVars, frpNode, frpOps, frpFails, touched>>

SettleStopped(q) ==
    /\ FrpAt(q, "settle") /\ AfterStop(q)
    /\ status' = [status EXCEPT ![T(q)] = "stopped"]
    /\ UNCHANGED <<tunnels, saved, everMade, tunnelProc, config, frpcVars, frpNode, frpCounts>>

----------------------------------------------------------------------------
(* The node stops, crashes and starts.                                     *)

\* nodeRuntime.shutdown: no request and no start any more; those that are there end,
\* the goroutines stop to wait, and the tunnels of the list are stopped in turn.
SealGate ==
    /\ gate = "open" /\ gate' = "sealed"
    /\ UNCHANGED <<tunnelVars, frpcVars, toStop, freq, frpCounts>>
BeginStopAll ==
    /\ gate = "sealed" /\ Idle
    /\ gate' = "stopping" /\ toStop' = tunnels /\ guarded' = {}
    /\ UNCHANGED <<tunnelVars, frpc, serves, lastFrpc, freq, frpCounts>>
StopNext(q, t) ==
    /\ gate = "stopping" /\ Idle /\ t \in toStop
    /\ toStop' = toStop \ {t}
    /\ freq' = [freq EXCEPT ![q] = [FrpFree EXCEPT !.op = "halt", !.pc = "take", !.of = t]]
    /\ UNCHANGED <<tunnelVars, frpcVars, gate, frpCounts>>
EndStopAll ==
    /\ gate = "stopping" /\ toStop = {} /\ Idle
    /\ gate' = "over"
    /\ UNCHANGED <<tunnelVars, frpcVars, toStop, freq, frpCounts>>

\* The next start, after a shutdown or a crash, reads the list (frpLoad); one that it
\* cannot read is empty, and the next save writes that.  No process of a tunnel is
\* recorded, so that those that a crash has left are nobody's.
Reload ==
    /\ \/ gate = "over" /\ tunnels' = saved /\ UNCHANGED frpFails
       \/ gate = "over" /\ FrpFail /\ tunnels' = {}
       \/ ~Idle /\ FrpFail /\ tunnels' \in {saved, {}}
    /\ gate' = "open" /\ toStop' = {} /\ freq' = [q \in FrpRequest |-> FrpFree]
    /\ guarded' = {} /\ loose' = loose \cup frpc
    /\ tunnelProc' = [t \in Tunnel |-> 0] /\ status' = [t \in Tunnel |-> "stopped"]
    /\ UNCHANGED <<saved, everMade, config, frpc, serves, lastFrpc, frpOps, touched>>

FrpNext ==
    \/ SealGate \/ BeginStopAll \/ EndStopAll \/ Reload
    \/ \E p \in Frpc : FrpcExits(p) \/ NoticeExit(p)
    \/ \E q \in FrpRequest :
        \/ \E t \in Tunnel : CreateTunnel(q, t) \/ FindTunnel(q, t) \/ UnlistTunnel(q, t) \/ StopNext(q, t)
        \/ LookAtTunnel(q) \/ RemoveConfig(q) \/ SaveTunnels(q)
        \/ EnterGate(q) \/ WriteConfig(q) \/ SpawnFrpc(q) \/ PublishFrpc(q)
        \/ TakeFrpc(q) \/ KillFrpc(q) \/ GiveFrpcBack(q) \/ SettleStopped(q)

FrpSpec == FrpInit /\ [][FrpNext]_frpVars

----------------------------------------------------------------------------
(* Properties                                                              *)

At_(t) == {q \in FrpRequest : T(q) = t}

\* A frpc that runs is its tunnel's, and the tunnel is listed, or a request holds
\* it; after a shutdown none runs.  The windows: two requests at the tunnel at the
\* same time, a deletion that cannot kill, a crash.
EveryFrpcIsKnown ==
    \A p \in frpc \ loose :
        LET t == serves[p]
        IN  t \notin touched =>
              \/ tunnelProc[t] = p /\ (t \in tunnels \/ At_(t) # {})
              \/ \E q \in At_(t) : freq[q].holds = p
NoneAfterShutdown == gate = "over" /\ frpFails = 0 => \A p \in frpc \ loose : serves[p] \in touched

\* A tunnel that nobody is at is shown as running exactly if its process runs or has
\* just ended; one that has failed has no process.
StatusIsTrue ==
    \A t \in tunnels \ touched :
        At_(t) = {} => IF status[t] = "running" THEN tunnelProc[t] \in frpc \cup guarded \cup loose \/ gate = "stopping"
                       ELSE tunnelProc[t] \notin frpc \/ tunnelProc[t] \in loose

\* What a restart will find is the list, once every request that has changed it has
\* saved it, in whatever order they did, unless a save or the read of the list has
\* failed or the node has crashed.
ListIsSaved ==
    frpFails = 0 /\ (\A q \in FrpRequest : ~FrpAt(q, "save") /\ freq[q].op # "delete") => saved = tunnels

FrpHolds == EveryFrpcIsKnown /\ NoneAfterShutdown /\ StatusIsTrue /\ ListIsSaved

----------------------------------------------------------------------------
(* What the code means to keep and does not.  A start is refused when the  *)
(* tunnel runs already, but two starts that look at the same time both go  *)
(* on, and the process of the first is lost; a start that found its tunnel *)
(* before a deletion starts it after.                                      *)

OneFrpcPerTunnel ==
    \A p1, p2 \in frpc \ loose : serves[p1] = serves[p2] => p1 = p2
DeletedStayStopped ==
    \A p \in frpc \ loose : serves[p] \in tunnels \/ At_(serves[p]) # {}
=============================================================================
