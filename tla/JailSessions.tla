--------------------------- MODULE JailSessions ---------------------------
(***************************************************************************)
(* Long tasks that the node runs inside one jail.  A session is a process  *)
(* group: the bastille command line, whose exit the node waits for, and    *)
(* the command in the jail, which may outlive it.  A record on disk names  *)
(* the group and the jail's kernel id, for the next start of the node; a   *)
(* watched session stops the jail when it has ended.                       *)
(*                                                                         *)
(* The jail is restarted by anybody at any time, each time with a new      *)
(* kernel id; a jail that is not there is one that does not run.           *)
(***************************************************************************)
EXTENDS Naturals, FiniteSets

CONSTANTS
    JSession,     \* session ids: never used twice, not even after a restart
    MaxJSessions, \* maxBastilleSessions
    MaxJid,       \* bound of the kernel ids
    MaxBoots,     \* bound of the starts of the node
    MaxCliFails   \* bound of the kills and the stops that fail

ASSUME JailAssumption ==
    {MaxJid, MaxBoots} \subseteq Nat \ {0} /\ MaxCliFails \in Nat

VARIABLES
    jid,      \* the kernel id of the jail, 0 while it does not run
    lastJid,
    cli,      \* sessions whose command line runs
    cmdIn,    \* session -> the kernel id its command runs in, 0 if it does not run
    entering, \* sessions whose command line has not entered the jail yet
    run,      \* session -> where its start or its end is
    table,    \* bastilleSessions.sessions
    watched,
    keeps,    \* sessions that have not been cleaned up: the record is kept
    deleting, \* sessions a delete waits for
    disk,     \* session -> its record file
    named,    \* session -> the kernel id it was started with
    mode,     \* of the node
    victims,  \* the sessions that a shutdown stops
    recovery, \* the record that recovery is at
    boots, cliFails,
    strays,   \* history: sessions in a window of NoStrays
    spared    \* history: watched sessions in a window of WatchedJailStops

jailVars == <<jid, lastJid>>
groupVars == <<cli, cmdIn, entering>>
tableVars == <<run, table, watched, keeps, deleting>>
recordVars == <<disk, named>>
nodeVars == <<mode, victims, recovery, boots>>
jailHistory == <<cliFails, strays, spared>>
jailSessionVars == <<jailVars, groupVars, tableVars, recordVars, nodeVars, jailHistory>>

Starting == {"jid", "counted", "started", "torn", "tmp", "unrecorded"}
Running == {"waiting", "exited", "killed"}
Ending == {"ended", "stopped"}
NoRecovery == [at |-> "none", phase |-> "none", seen |-> 0]

JailSessionsTypeOK ==
    /\ jid \in 0..MaxJid /\ lastJid \in 1..MaxJid
    /\ {cli, entering, table, watched, keeps, deleting, victims, strays, spared} \subseteq SUBSET JSession
    /\ {cmdIn, named} \subseteq [JSession -> 0..MaxJid]
    /\ run \in [JSession -> {"none", "failed", "closed", "gone"} \cup Starting \cup Running \cup Ending]
    /\ disk \in [JSession -> {"none", "torn", "tmp", "file"}]
    /\ mode \in {"up", "draining", "down", "recovering", "refused"}
    /\ recovery.at \in JSession \cup {"none"} /\ recovery.seen \in 0..MaxJid
    /\ recovery.phase \in {"none", "terminated", "watch", "clear"}
    /\ boots \in 1..MaxBoots /\ cliFails \in 0..MaxCliFails

JailSessionsInit ==
    /\ jid = 1 /\ lastJid = 1
    /\ cli = {} /\ entering = {} /\ cmdIn = [s \in JSession |-> 0]
    /\ run = [s \in JSession |-> "none"] /\ table = {} /\ watched = {} /\ keeps = {}
    /\ deleting = {} /\ disk = [s \in JSession |-> "none"] /\ named = [s \in JSession |-> 0]
    /\ mode = "up" /\ victims = {} /\ recovery = NoRecovery /\ boots = 1
    /\ cliFails = 0 /\ strays = {} /\ spared = {}

Alive(s) == s \in cli \/ cmdIn[s] # 0
IsRunning(s) == s \in table /\ run[s] \in Running
At(s, l) == run[s] = l
Goes(s, l) == run' = [run EXCEPT ![s] = l]
GroupDies(s) == /\ cli' = cli \ {s} /\ entering' = entering \ {s}
                /\ cmdIn' = [cmdIn EXCEPT ![s] = 0]
Fails == cliFails < MaxCliFails /\ cliFails' = cliFails + 1

----------------------------------------------------------------------------
(* The jail and the processes.                                             *)

JailStops ==
    /\ jid' = 0
    /\ cmdIn' = [s \in JSession |-> IF cmdIn[s] = jid THEN 0 ELSE cmdIn[s]]

\* bastilleAction: start, stop; a restart is both.
StartJail ==
    /\ jid = 0 /\ lastJid < MaxJid
    /\ jid' = lastJid + 1 /\ lastJid' = lastJid + 1
    /\ UNCHANGED <<groupVars, tableVars, recordVars, nodeVars, jailHistory>>
StopJail ==
    /\ jid # 0 /\ JailStops
    /\ UNCHANGED <<lastJid, cli, entering, tableVars, recordVars, nodeVars, jailHistory>>

\* Either process ends by itself or by the SIGTERM of a stop.
CommandExits(s) ==
    /\ cmdIn[s] # 0 /\ cmdIn' = [cmdIn EXCEPT ![s] = 0]
    /\ UNCHANGED <<jailVars, cli, entering, tableVars, recordVars, nodeVars, jailHistory>>
CliExits(s) ==
    /\ s \in cli /\ cli' = cli \ {s} /\ entering' = entering \ {s}
    /\ UNCHANGED <<jailVars, cmdIn, tableVars, recordVars, nodeVars, jailHistory>>

----------------------------------------------------------------------------
(* bastilleRunStart                                                        *)

\* The jail is there and runs; its kernel id goes into the record.
ReadJid(s, watch) ==
    /\ mode = "up" /\ At(s, "none") /\ jid # 0
    /\ Goes(s, "jid") /\ named' = [named EXCEPT ![s] = jid]
    /\ watched' = IF watch THEN watched \cup {s} ELSE watched
    /\ UNCHANGED <<jailVars, groupVars, table, keeps, deleting, disk, nodeVars, jailHistory>>

\* sessionStore.create: old sessions are swept, and there are not too many that
\* run.  The new one is not in the table yet.
CountSessions(s) ==
    /\ At(s, "jid")
    /\ \E old \in SUBSET {o \in table : run[o] \in Ending \cup {"closed"}} : table' = table \ old
    /\ Goes(s, IF Cardinality({o \in table : IsRunning(o)}) < MaxJSessions THEN "counted" ELSE "failed")
    /\ UNCHANGED <<jailVars, groupVars, watched, keeps, deleting, recordVars, nodeVars, jailHistory>>

\* cmd.Start, if it can.
StartCli(s) ==
    /\ At(s, "counted")
    /\ \/ Goes(s, "started") /\ cli' = cli \cup {s} /\ entering' = entering \cup {s}
       \/ Goes(s, "failed") /\ UNCHANGED <<cli, entering>>
    /\ UNCHANGED <<jailVars, cmdIn, table, watched, keeps, deleting, recordVars, nodeVars, jailHistory>>

\* The command line enters the jail as it is by then (jexec), whatever the node does
\* meanwhile.  A jail with another id than the one that was read is a window of
\* NoStrays.
EnterJail(s) ==
    /\ s \in entering /\ jid # 0
    /\ entering' = entering \ {s} /\ cmdIn' = [cmdIn EXCEPT ![s] = jid]
    /\ strays' = IF jid = named[s] THEN strays ELSE strays \cup {s}
    /\ UNCHANGED <<jailVars, cli, tableVars, recordVars, nodeVars, cliFails, spared>>

\* recordCommandProcess: a temporary file is made, written and renamed; when one
\* of them fails it is removed and the group is killed.
WriteRecord(s) ==
    \E step \in {<<"started", "torn">>, <<"torn", "tmp">>} :
        /\ At(s, step[1])
        /\ \/ Goes(s, step[2]) /\ disk' = [disk EXCEPT ![s] = step[2]]
           \/ Goes(s, "unrecorded") /\ disk' = [disk EXCEPT ![s] = "none"]
        /\ UNCHANGED <<jailVars, groupVars, table, watched, keeps, deleting, named, nodeVars, jailHistory>>

KillUnrecorded(s) ==
    /\ At(s, "unrecorded")
    /\ Goes(s, "failed") /\ GroupDies(s)
    /\ UNCHANGED <<jailVars, table, watched, keeps, deleting, recordVars, nodeVars, jailHistory>>

\* The record is in place; the session is registered and watched over.
RegisterSession(s) ==
    /\ At(s, "tmp")
    /\ Goes(s, "waiting") /\ table' = table \cup {s}
    /\ disk' = [disk EXCEPT ![s] = "file"]
    /\ UNCHANGED <<jailVars, groupVars, watched, keeps, deleting, named, nodeVars, jailHistory>>

----------------------------------------------------------------------------
(* The goroutine that ends a session.                                      *)

\* cmd.Wait returns.
ReapCli(s) ==
    /\ At(s, "waiting") /\ s \notin cli
    /\ Goes(s, "exited")
    /\ UNCHANGED <<jailVars, groupVars, table, watched, keeps, deleting, recordVars, nodeVars, jailHistory>>

FaultKeepsGroup(s) ==
    /\ At(s, "exited") /\ Goes(s, "killed")
    /\ UNCHANGED <<jailVars, groupVars, table, watched, keeps, deleting, recordVars, nodeVars, jailHistory>>

\* What is left of the group in the jail is killed.
KillGroup(s) ==
    /\ At(s, "exited") /\ Goes(s, "killed")
    /\ \/ GroupDies(s) /\ UNCHANGED <<keeps, cliFails>>
       \/ Alive(s) /\ Fails /\ keeps' = keeps \cup {s} /\ UNCHANGED groupVars
    /\ UNCHANGED <<jailVars, table, watched, deleting, recordVars, nodeVars, strays, spared>>

\* running = false, with the exit code.
MarkEnded(s) ==
    /\ At(s, "killed") /\ Goes(s, "ended")
    /\ UNCHANGED <<jailVars, groupVars, table, watched, keeps, deleting, recordVars, nodeVars, jailHistory>>

FaultWatchForgetsFailure(s) ==
    /\ At(s, "ended") /\ Goes(s, "stopped")
    /\ \/ s \notin watched /\ UNCHANGED <<jid, cmdIn, cliFails>>
       \/ s \in watched /\ JailStops /\ UNCHANGED cliFails
       \/ s \in watched /\ Fails /\ UNCHANGED <<jid, cmdIn>>
    /\ UNCHANGED <<lastJid, cli, entering, table, watched, keeps, deleting, recordVars, nodeVars, strays, spared>>

\* The watchdog stops the jail of that name, whichever runs now.
StopWatchedJail(s) ==
    /\ At(s, "ended") /\ Goes(s, "stopped")
    /\ \/ s \notin watched /\ UNCHANGED <<jid, cmdIn, keeps, cliFails>>
       \/ s \in watched /\ JailStops /\ UNCHANGED <<keeps, cliFails>>
       \/ s \in watched /\ Fails /\ keeps' = keeps \cup {s} /\ UNCHANGED <<jid, cmdIn>>
    /\ UNCHANGED <<lastJid, cli, entering, table, watched, deleting, recordVars, nodeVars, strays, spared>>

\* forgetProcess, unless the group or the jail is left; then done is closed.
ForgetSession(s) ==
    /\ At(s, "stopped") /\ Goes(s, "closed")
    /\ disk' = IF s \in keeps THEN disk ELSE [disk EXCEPT ![s] = "none"]
    /\ UNCHANGED <<jailVars, groupVars, table, watched, keeps, deleting, named, nodeVars, jailHistory>>

----------------------------------------------------------------------------
(* Requests about a session.                                               *)

\* bastilleRunStop, when SIGTERM has not helped in time, and bastilleRunDelete.
KillSession(s) ==
    /\ mode = "up" \/ (mode = "draining" /\ s \in victims)
    /\ IsRunning(s) /\ GroupDies(s)
    /\ deleting' \in {deleting} \cup (IF mode = "up" THEN {deleting \cup {s}} ELSE {})
    /\ UNCHANGED <<jailVars, run, table, watched, keeps, recordVars, nodeVars, jailHistory>>

\* bastilleRunDelete: the session has ended, or done was closed in time.
DeleteSession(s) ==
    /\ mode \in {"up", "draining"} /\ s \in table
    /\ \/ s \in deleting /\ At(s, "closed")
       \/ mode = "up" /\ s \notin deleting /\ ~IsRunning(s)
    /\ table' = table \ {s} /\ deleting' = deleting \ {s}
    /\ UNCHANGED <<jailVars, groupVars, run, watched, keeps, recordVars, nodeVars, jailHistory>>

----------------------------------------------------------------------------
(* The node stops, crashes and recovers.                                   *)

\* shutdown waits for the requests, a delete at most some seconds, and stops the
\* sessions that run (bastilleStopAll).
BeginDrain ==
    /\ mode = "up" /\ \A s \in JSession : run[s] \notin Starting
    /\ mode' = "draining" /\ victims' = {s \in table : IsRunning(s)} /\ deleting' = {}
    /\ UNCHANGED <<jailVars, groupVars, run, table, watched, keeps, recordVars, recovery, boots, jailHistory>>

\* The memory of the node is gone, and what no record names is in a window.
NodeGoes ==
    /\ mode' = "down" /\ table' = {} /\ deleting' = {} /\ victims' = {}
    /\ recovery' = NoRecovery
    /\ run' = [s \in JSession |-> CASE At(s, "none") -> "none"
                                      [] run[s] \in {"jid", "counted", "failed"} -> "failed"
                                      [] OTHER -> "gone"]
    /\ strays' = strays \cup {s \in JSession : run[s] \in {"started", "unrecorded"}}
    /\ UNCHANGED <<jailVars, groupVars, watched, keeps, recordVars, boots, cliFails, spared>>

\* bastilleStopAll returns when every session it stops has ended; it may also give
\* up, which Crash allows for.
EndDrain ==
    /\ mode = "draining" /\ \A s \in victims : At(s, "closed")
    /\ NodeGoes

Crash == mode \in {"up", "draining", "recovering"} /\ boots < MaxBoots /\ NodeGoes

\* recoverOrphanProcesses, again after each refusal.
Boot ==
    /\ mode \in {"down", "refused"} /\ boots < MaxBoots
    /\ mode' = "recovering" /\ boots' = boots + 1
    /\ UNCHANGED <<jailVars, groupVars, tableVars, recordVars, victims, recovery, jailHistory>>

Refuse == mode' = "refused" /\ recovery' = NoRecovery

\* A record that was cut short refuses the start.  TerminateRecordedProcess kills
\* the group if its leader still runs; the id of a leader that is gone, with its
\* group, may be another process': then only the record goes.
RecoverTerminate(s) ==
    /\ mode = "recovering" /\ recovery = NoRecovery /\ disk[s] # "none"
    /\ \/ disk[s] = "torn" /\ Refuse /\ UNCHANGED <<groupVars, spared>>
       \/ /\ disk[s] # "torn"
          /\ recovery' = [at |-> s, phase |-> "terminated", seen |-> 0]
          /\ IF s \in cli THEN GroupDies(s) ELSE UNCHANGED groupVars
          /\ UNCHANGED <<mode, spared>>
       \/ /\ disk[s] # "torn" /\ ~Alive(s)
          /\ recovery' = [at |-> s, phase |-> "clear", seen |-> 0]
          /\ spared' = spared \cup {s}
          /\ UNCHANGED <<mode, groupVars>>
    /\ UNCHANGED <<jailVars, tableVars, recordVars, victims, boots, cliFails, strays>>

FaultRecoverAnyJail(s) ==
    /\ mode = "recovering" /\ recovery.at = s /\ recovery.phase = "terminated"
    /\ IF jid = 0
       THEN recovery' = [recovery EXCEPT !.phase = "clear"] /\ UNCHANGED groupVars
       ELSE /\ recovery' = [recovery EXCEPT !.phase = IF s \in watched THEN "watch" ELSE "clear", !.seen = jid]
            /\ GroupDies(s)
    /\ UNCHANGED <<jailVars, tableVars, recordVars, mode, victims, boots, jailHistory>>

\* recoverBastilleRecord: only in the very jail of the record.
RecoverInJail(s) ==
    /\ mode = "recovering" /\ recovery.at = s /\ recovery.phase = "terminated"
    /\ IF jid # named[s]
       THEN recovery' = [recovery EXCEPT !.phase = "clear"] /\ UNCHANGED groupVars
       ELSE /\ recovery' = [recovery EXCEPT !.phase = IF s \in watched THEN "watch" ELSE "clear", !.seen = jid]
            /\ GroupDies(s)
    /\ UNCHANGED <<jailVars, tableVars, recordVars, mode, victims, boots, jailHistory>>

RecoverWatched(s) ==
    /\ mode = "recovering" /\ recovery.at = s /\ recovery.phase = "watch"
    /\ \/ JailStops /\ recovery' = [recovery EXCEPT !.phase = "clear"] /\ UNCHANGED <<mode, cliFails>>
       \/ Fails /\ Refuse /\ UNCHANGED <<jid, cmdIn>>
    /\ UNCHANGED <<lastJid, cli, entering, tableVars, recordVars, victims, boots, strays, spared>>

ClearRecord(s) ==
    /\ mode = "recovering" /\ recovery.at = s /\ recovery.phase = "clear"
    /\ disk' = [disk EXCEPT ![s] = "none"] /\ recovery' = NoRecovery
    /\ UNCHANGED <<jailVars, groupVars, tableVars, named, mode, victims, boots, jailHistory>>

Serve ==
    /\ mode = "recovering" /\ recovery = NoRecovery /\ \A s \in JSession : disk[s] = "none"
    /\ mode' = "up"
    /\ UNCHANGED <<jailVars, groupVars, tableVars, recordVars, victims, recovery, boots, jailHistory>>

JailSessionsNext ==
    \/ StartJail \/ StopJail \/ BeginDrain \/ EndDrain \/ Crash \/ Boot \/ Serve
    \/ \E s \in JSession :
        \/ \E watch \in BOOLEAN : ReadJid(s, watch)
        \/ CommandExits(s) \/ CliExits(s) \/ CountSessions(s) \/ StartCli(s) \/ EnterJail(s)
        \/ WriteRecord(s) \/ KillUnrecorded(s) \/ RegisterSession(s)
        \/ ReapCli(s) \/ KillGroup(s) \/ MarkEnded(s) \/ StopWatchedJail(s) \/ ForgetSession(s)
        \/ KillSession(s) \/ DeleteSession(s)
        \/ RecoverTerminate(s) \/ RecoverInJail(s) \/ RecoverWatched(s) \/ ClearRecord(s)

JailSessionsSpec == JailSessionsInit /\ [][JailSessionsNext]_jailSessionVars

----------------------------------------------------------------------------
(* Properties                                                              *)

\* Every process of a session is named by a record from before the session is
\* registered until it is dead, so that the next start of the node finds it; a
\* node that serves has none of an earlier one.  The windows are a crash between
\* the start of the process and its record, and a jail that was restarted between
\* the reading of its id and the start of the process.
NoStrays ==
    \A s \in JSession \ strays :
        Alive(s) => /\ disk[s] # "none" \/ run[s] \in {"started", "unrecorded"}
                    /\ mode = "up" => run[s] \notin {"gone", "failed"}

\* A session that is not running any more has left nothing in the jail, unless the
\* kill failed.
EndedIsDead == \A s \in table \ keeps : ~IsRunning(s) => ~Alive(s)

\* The jail of a watched session is stopped before the record is forgotten, by the
\* watchdog or by a later start of the node.  The window is the process id that
\* was used again when recovery came.
WatchedJailStops ==
    \A s \in watched \ (strays \cup spared) :
        run[s] \in {"closed", "gone"} => jid # named[s] \/ disk[s] # "none"

\* What recovery stops is the jail it has found to be the one of the record.
RecoveryKeepsToItsJail == recovery.phase = "watch" => recovery.seen = named[recovery.at]

\* The sessions of the jail.
JailSessionsHold ==
    NoStrays /\ EndedIsDead /\ WatchedJailStops /\ RecoveryKeepsToItsJail

----------------------------------------------------------------------------
(* maxBastilleSessions is called the maximum of the sessions that run at   *)
(* the same time, and a watched session is meant to stop its own jail.     *)

SessionsWithinMaximum == Cardinality({s \in table : IsRunning(s)}) <= MaxJSessions
=============================================================================
