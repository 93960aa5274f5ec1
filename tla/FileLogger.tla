----------------------------- MODULE FileLogger -----------------------------
(***************************************************************************)
(* A log that is written in the background: Write puts a line into a       *)
(* bounded queue and never waits; one goroutine takes the lines, writes    *)
(* them through a buffer and rotates the file.  The log of an instance has *)
(* a goroutine before it that copies the output of the process, and        *)
(* requests that clear it; the audit log has a directory that keeps what a *)
(* rotation would overwrite.  The logger of the next start appends to the  *)
(* files of the last.  Few of the disk's failures are told to anybody: a   *)
(* buffer is written, or is not, as a whole.                               *)
(***************************************************************************)
EXTENDS Naturals, Sequences, FiniteSetsExt

CONSTANTS
    MaxLines,     \* bound of the lines, which are numbered
    PipeSize,     \* lines that the pipe of the process holds
    QueueSize,    \* fileLogger.ch
    MaxSize,      \* fileLogger.maxSize, in lines
    Keep,         \* fileLogger.keep: newFileLogger, which both logs of the node come from, gives 1
    MaxClears, MaxLogFails   \* bounds of the clears, and of the disk's failures and the crashes

ASSUME LogAssumption ==
    {Keep, MaxSize} \subseteq Nat \ {0} /\ {MaxLines, PipeSize, QueueSize, MaxClears, MaxLogFails} \subseteq Nat

VARIABLES
    archiving,  \* archiveDir is set: the audit log
    child,       \* who writes: off, runs, exited, reaped by Wait, closing its logger
    published,  \* inst.Proc has it
    pipe, lastLine, copier, copied, \* the output, its last line, the copying goroutine and how far it is
    queue, buf,
    file,       \* fileLogger.file: none, open, or open with its name gone
    size,       \* fileLogger.size
    cold,       \* the time after a failure in which lines are dropped
    cons,       \* the goroutine: run, clearing, stopping, done
    stopAsked,  \* fileLogger.stop is closed
    current, rotated, archived, \* the lines of <path>, of <path>.1 and so on, of the archive
    clearer,    \* the request that clears: how far, and what it is to clear
    clears, logFails,
    accounted,  \* history: the lines that were dropped, cleared, rotated away or lost with a failure
    torn,       \* history: output was still in the pipe when Wait returned
    cleared,    \* history: the last line that a clear has answered for
    reopened,   \* history: the file was not empty when it was opened
    spoilt      \* history: a clear came to a logger that stops, or that no request sees, or left a file

outputVars == <<child, published, pipe, lastLine, copier, copied>>
loggerVars == <<queue, buf, file, size, cold, cons, stopAsked>>
diskVars == <<current, rotated, archived>>
clearVars == <<clearer, clears>>
logHistory == <<accounted, torn, cleared, reopened, spoilt>>
logVars == <<archiving, outputVars, loggerVars, diskVars, clearVars, logFails, logHistory>>

Line == 1..MaxLines
Lines(s) == {s[i] : i \in DOMAIN s}
OldLines == UNION {Lines(rotated[i]) : i \in 1..Keep}

LogTypeOK ==
    /\ {archiving, published, cold, stopAsked, reopened, spoilt, torn} \subseteq BOOLEAN
    /\ child \in {"off", "runs", "exited", "reaped", "closing"} /\ copier \in {"none", "copy", "ended"}
    /\ {lastLine, copied, cleared} \subseteq 0..MaxLines
    /\ {pipe, queue} \subseteq Seq(Line) /\ Len(pipe) <= PipeSize /\ Len(queue) <= QueueSize
    /\ file \in {"none", "open", "orphan"} /\ size \in 0..MaxSize
    /\ cons \in {"run", "clearing", "stopping", "done"}
    /\ {accounted, archived, Lines(current), Lines(buf), OldLines} \subseteq SUBSET Line
    /\ clearer \in [pc : {"idle", "asking", "waiting", "removing"}, upTo : 0..MaxLines]
    /\ clears \in 0..MaxClears /\ logFails \in 0..MaxLogFails

LogInit ==
    /\ archiving \in BOOLEAN /\ child = "off" /\ published = FALSE
    /\ pipe = <<>> /\ lastLine = 0 /\ copier = "none" /\ copied = 0
    /\ queue = <<>> /\ buf = <<>> /\ file = "none" /\ size = 0 /\ cold = FALSE
    /\ cons = "done" /\ stopAsked = TRUE
    /\ current = <<>> /\ rotated = [i \in 1..Keep |-> <<>>] /\ archived = {}
    /\ clearer = [pc |-> "idle", upTo |-> 0] /\ clears = 0 /\ logFails = 0
    /\ accounted = {} /\ torn = FALSE /\ cleared = 0 /\ reopened = FALSE /\ spoilt = FALSE

LogFail == logFails < MaxLogFails /\ logFails' = logFails + 1

----------------------------------------------------------------------------
(* The process and the goroutine that copies its output (startProcess)     *)

StartWriter ==
    /\ child = "off" /\ lastLine < MaxLines
    /\ child' = "runs" /\ copier' = "copy" /\ cons' = "run" /\ stopAsked' = FALSE /\ size' = 0 /\ cold' = FALSE
    /\ UNCHANGED <<archiving, published, pipe, lastLine, copied, queue, buf, file, diskVars, clearVars,
                   logFails, logHistory>>

\* startInstance publishes the process after its start; a stop takes it away before
\* its end.
PublishWriter ==
    /\ child = "runs" /\ ~archiving /\ published' = ~published
    /\ UNCHANGED <<archiving, child, pipe, lastLine, copier, copied, loggerVars, diskVars, clearVars,
                   logFails, logHistory>>

EmitLine ==
    /\ child = "runs" /\ lastLine < MaxLines /\ Len(pipe) < PipeSize
    /\ lastLine' = lastLine + 1 /\ pipe' = Append(pipe, lastLine + 1)
    /\ UNCHANGED <<archiving, child, published, copier, copied, loggerVars, diskVars, clearVars,
                   logFails, logHistory>>

\* fileLogger.Write
CopyLine ==
    /\ copier = "copy" /\ pipe # <<>>
    /\ pipe' = Tail(pipe) /\ copied' = Head(pipe)
    /\ IF Len(queue) < QueueSize
       THEN queue' = Append(queue, Head(pipe)) /\ UNCHANGED accounted
       ELSE accounted' = accounted \cup {Head(pipe)} /\ UNCHANGED queue
    /\ UNCHANGED <<archiving, child, published, lastLine, copier, buf, file, size, cold, cons, stopAsked,
                   diskVars, clearVars, logFails, torn, cleared, reopened, spoilt>>

WriterExits ==
    /\ child = "runs" /\ child' = "exited"
    /\ UNCHANGED <<archiving, published, pipe, lastLine, copier, copied, loggerVars, diskVars, clearVars,
                   logFails, logHistory>>

\* cmd.Wait closes the reading end of the pipe, whatever is left in it.
WaitReturns ==
    /\ child = "exited" /\ child' = "reaped"
    /\ archiving => pipe = <<>>
    /\ pipe' = <<>> /\ torn' = (torn \/ pipe # <<>>) /\ accounted' = accounted \cup Lines(pipe)
    /\ UNCHANGED <<archiving, published, lastLine, copier, copied, loggerVars, diskVars, clearVars,
                   logFails, cleared, reopened, spoilt>>
CopierEnds ==
    /\ copier = "copy" /\ pipe = <<>> /\ child \in {"exited", "reaped", "closing"}
    /\ copier' = "ended"
    /\ UNCHANGED <<archiving, child, published, pipe, lastLine, copied, loggerVars, diskVars, clearVars,
                   logFails, logHistory>>

\* fileLogger.Close, when the copier has ended or after three seconds
CloseLogger ==
    /\ child = "reaped" /\ child' = "closing" /\ stopAsked' = TRUE
    /\ UNCHANGED <<archiving, published, pipe, lastLine, copier, copied, queue, buf, file, size, cold, cons,
                   diskVars, clearVars, logFails, logHistory>>
CloseReturns ==
    /\ child = "closing" /\ cons = "done" /\ copier = "ended"
    /\ child' = "off" /\ published' = FALSE /\ copier' = "none"
    /\ UNCHANGED <<archiving, pipe, lastLine, copied, loggerVars, diskVars, clearVars, logFails, logHistory>>

----------------------------------------------------------------------------
(* The goroutine of the logger                                             *)

\* The lines of the file, and where the buffer goes when it is written out.
Flushed == IF file = "open" THEN current \o buf ELSE current
Astray == IF file = "orphan" THEN Lines(buf) ELSE {}

TakesLine == cons \in {"run", "clearing", "stopping"} /\ queue # <<>> /\ queue' = Tail(queue)

\* writeAll, of a line that is dropped: in the time after a failure, or because the
\* file cannot be opened or written, which loses its buffer.
DropLine ==
    /\ TakesLine
    /\ \/ /\ file = "none" /\ cold /\ UNCHANGED <<buf, file, cold, logFails>>
          /\ accounted' = accounted \cup {Head(queue)}
       \/ /\ LogFail /\ cold' = TRUE /\ file' = "none" /\ buf' = <<>>
          /\ accounted' = accounted \cup Lines(buf) \cup {Head(queue)}
    /\ UNCHANGED <<archiving, outputVars, size, cons, stopAsked, diskVars, clearVars, torn, cleared, reopened, spoilt>>

FaultNeverRotates == FALSE

\* The size is counted from the opening, so that the lines of an earlier logger do
\* not count.
MustRotate == size = MaxSize

\* The buffer reaches the file when it is full, which may be now.
AppendLine ==
    /\ TakesLine /\ cold' = FALSE /\ UNCHANGED logFails
    /\ IF file = "none"
       THEN /\ ~cold /\ file' = "open" /\ size' = 1 /\ buf' = <<Head(queue)>>
            /\ reopened' = (reopened \/ current # <<>>)
            /\ UNCHANGED <<current, accounted>>
       ELSE /\ ~MustRotate /\ size' = size + 1 /\ UNCHANGED <<file, reopened>>
            /\ \/ buf' = Append(buf, Head(queue)) /\ UNCHANGED <<current, accounted>>
               \/ /\ current' = Flushed /\ buf' = <<Head(queue)>>
                  /\ accounted' = accounted \cup Astray
    /\ UNCHANGED <<archiving, outputVars, cons, stopAsked, rotated, archived, clearVars, torn, cleared, spoilt>>

FaultArchivesNothing == {}

\* archiveRotated saves the file that the rotation is about to overwrite.
Archived == IF archiving THEN Lines(rotated[1]) ELSE {}

\* rotate, when the file is full: .1 moves to .2 and so on, the file to .1, or is removed
\* when it cannot be renamed; a new one is opened.  What fails of this is not told, but
\* for the opening, and a file that stays is appended to.
RotateFile ==
    /\ TakesLine /\ file # "none" /\ MustRotate
    /\ \E flushed, kept, moved, opened \in BOOLEAN, fate \in {"renamed", "removed", "stays"} :
         LET old == IF flushed THEN Flushed ELSE current
             overwritten == IF archiving THEN IF kept THEN {} ELSE Lines(rotated[1])
                            ELSE IF moved THEN Lines(rotated[Keep]) ELSE {}
         IN
         /\ IF flushed /\ kept /\ moved /\ opened /\ fate = "renamed" THEN UNCHANGED logFails ELSE LogFail
         /\ fate = "renamed" => moved
         /\ rotated' = [i \in 1..Keep |-> IF ~moved THEN rotated[i]
                                          ELSE IF i > 1 THEN rotated[i - 1]
                                          ELSE IF fate = "renamed" THEN old ELSE <<>>]
         /\ current' = IF fate = "stays" THEN old ELSE <<>>
         /\ reopened' = (fate = "stays" /\ old # <<>>)
         /\ archived' = archived \cup IF kept THEN Archived ELSE {}
         /\ accounted' = accounted \cup overwritten
                           \cup (IF flushed THEN Astray ELSE Lines(buf))
                           \cup (IF fate = "removed" THEN Lines(old) ELSE {})
                           \cup (IF opened THEN {} ELSE {Head(queue)})
         /\ buf' = IF opened THEN <<Head(queue)>> ELSE <<>>
         /\ file' = IF opened THEN "open" ELSE "none"
         /\ size' = IF opened THEN 1 ELSE size
         /\ cold' = ~opened
    /\ UNCHANGED <<archiving, outputVars, cons, stopAsked, clearVars, torn, cleared, spoilt>>

CoolDown ==
    /\ cold /\ cold' = FALSE
    /\ UNCHANGED <<archiving, outputVars, queue, buf, file, size, cons, stopAsked, diskVars, clearVars,
                   logFails, logHistory>>

\* The files are removed, but for those of which it fails: 0 stands for the file, i for .i.
RemovesAllBut(left) ==
    /\ IF left = {} THEN UNCHANGED logFails ELSE LogFail
    /\ rotated' = [i \in 1..Keep |-> IF i \in left THEN rotated[i] ELSE <<>>]
OldLinesBut(left) == UNION {Lines(rotated[i]) : i \in (1..Keep) \ left}

\* doClear: the promise is given to a request that still waits.  Only of the file it is told
\* that it could not be removed.
ClearFiles(promise, hasty) ==
    \E left \in SUBSET (0..Keep), flushed \in BOOLEAN :
        /\ RemovesAllBut(left) /\ buf' = <<>> /\ file' = "none" /\ size' = 0
        /\ IF 0 \in left
           THEN /\ current' = IF flushed THEN Flushed ELSE current
                /\ accounted' = accounted \cup OldLinesBut(left) \cup (IF flushed THEN Astray ELSE Lines(buf))
                /\ spoilt' = (spoilt \/ hasty) /\ UNCHANGED <<cleared, reopened>>
           ELSE /\ current' = <<>> /\ reopened' = FALSE
                /\ accounted' = accounted \cup OldLinesBut(left) \cup Lines(current) \cup Lines(buf)
                /\ spoilt' = (spoilt \/ hasty \/ left # {}) /\ cleared' = Max({promise, cleared})

FaultClearsAtOnce == TRUE

\* clearWithDrain: what was in the queue before is written first.
IsDrained == queue = <<>>

TakeClear ==
    /\ cons = "run" /\ clearer.pc = "asking"
    /\ cons' = "clearing" /\ clearer' = [clearer EXCEPT !.pc = "waiting"]
    /\ UNCHANGED <<archiving, outputVars, queue, buf, file, size, cold, stopAsked, diskVars, clears,
                   logFails, logHistory>>
FinishClear ==
    /\ cons = "clearing" /\ IsDrained
    /\ ClearFiles(IF clearer.pc = "waiting" THEN clearer.upTo ELSE 0, FALSE)
    /\ cons' = "run" /\ clearer' = IF clearer.pc = "waiting" THEN [pc |-> "idle", upTo |-> 0] ELSE clearer
    /\ UNCHANGED <<archiving, outputVars, queue, cold, stopAsked, archived, clears, torn>>

TakeStop ==
    /\ cons = "run" /\ stopAsked /\ cons' = "stopping"
    /\ UNCHANGED <<archiving, outputVars, queue, buf, file, size, cold, stopAsked, diskVars, clearVars,
                   logFails, logHistory>>
\* A clear that comes while it stops is not drained for.
ClearWhileStopping ==
    /\ cons = "stopping" /\ clearer.pc = "asking" /\ ClearFiles(clearer.upTo, TRUE)
    /\ clearer' = [pc |-> "idle", upTo |-> 0]
    /\ UNCHANGED <<archiving, outputVars, queue, cold, cons, stopAsked, archived, clears, torn>>

FaultStopsAtOnce == TRUE

MayFinish == queue = <<>>

\* flushClose, which tells nobody that the buffer could not be written.
FinishStop ==
    /\ cons = "stopping" /\ MayFinish
    /\ cons' = "done" /\ buf' = <<>> /\ file' = "none" /\ queue' = <<>>
    /\ \/ current' = Flushed /\ accounted' = accounted \cup Astray /\ UNCHANGED logFails
       \/ LogFail /\ accounted' = accounted \cup Lines(buf) /\ UNCHANGED current
    /\ UNCHANGED <<archiving, outputVars, size, cold, stopAsked, rotated, archived, clearVars,
                   torn, cleared, reopened, spoilt>>

----------------------------------------------------------------------------
(* The requests that clear (handleInstanceLogsClear, fileLogger.Clear)     *)

\* With a process its logger clears, without one the request removes the files: what
\* was written by now is to go.
AskClear ==
    /\ ~archiving /\ clearer.pc = "idle" /\ clears < MaxClears /\ clears' = clears + 1
    /\ clearer' = [pc |-> IF published THEN "asking" ELSE "removing", upTo |-> copied]
    /\ spoilt' = (spoilt \/ (~published /\ child # "off"))
    /\ UNCHANGED <<archiving, outputVars, loggerVars, diskVars, logFails, accounted, torn, cleared, reopened>>
\* A logger that is closed refuses; one that is slow is not waited for.
GiveUpClear ==
    /\ clearer.pc = "waiting" \/ (clearer.pc = "asking" /\ stopAsked)
    /\ clearer' = [pc |-> "idle", upTo |-> 0]
    /\ UNCHANGED <<archiving, outputVars, loggerVars, diskVars, clears, logFails, logHistory>>
\* A logger that has the file open goes on with it, without a name.  It answers OK
\* whatever could not be removed.
RemoveFiles ==
    /\ clearer.pc = "removing" /\ clearer' = [pc |-> "idle", upTo |-> 0]
    /\ cleared' = Max({clearer.upTo, cleared})
    /\ \E left \in SUBSET (0..Keep) :
        /\ RemovesAllBut(left) /\ spoilt' = (spoilt \/ left # {})
        /\ IF 0 \in left
           THEN accounted' = accounted \cup OldLinesBut(left) /\ UNCHANGED <<current, file>>
           ELSE /\ accounted' = accounted \cup OldLinesBut(left) \cup Lines(current)
                /\ current' = <<>> /\ file' = IF file = "open" THEN "orphan" ELSE file
    /\ UNCHANGED <<archiving, outputVars, queue, buf, size, cold, cons, stopAsked, archived, clears,
                   torn, reopened>>

----------------------------------------------------------------------------
\* The node dies with what is in memory.
CrashLogger ==
    /\ LogFail /\ child # "off"
    /\ accounted' = accounted \cup Lines(pipe) \cup Lines(queue) \cup Lines(buf)
    /\ child' = "off" /\ published' = FALSE /\ pipe' = <<>> /\ copier' = "none"
    /\ queue' = <<>> /\ buf' = <<>> /\ file' = "none" /\ cons' = "done" /\ stopAsked' = TRUE
    /\ clearer' = [pc |-> "idle", upTo |-> 0]
    /\ UNCHANGED <<archiving, lastLine, copied, size, cold, diskVars, clears, torn, cleared, reopened, spoilt>>

LogNext ==
    \/ StartWriter \/ PublishWriter \/ EmitLine \/ CopyLine \/ WriterExits \/ WaitReturns \/ CopierEnds
    \/ CloseLogger \/ CloseReturns
    \/ DropLine \/ AppendLine \/ RotateFile \/ CoolDown
    \/ TakeClear \/ FinishClear \/ TakeStop \/ ClearWhileStopping \/ FinishStop
    \/ AskClear \/ GiveUpClear \/ RemoveFiles \/ CrashLogger

LogSpec == LogInit /\ [][LogNext]_logVars

----------------------------------------------------------------------------
(* Properties                                                              *)

\* Where lines are, from the oldest file to the pipe.
Place == 1..(Keep + 4)
LinesAt(p) ==
    CASE p \in 1..Keep -> rotated[Keep + 1 - p]
      [] p = Keep + 1 -> current
      [] p = Keep + 2 -> buf
      [] p = Keep + 3 -> queue
      [] p = Keep + 4 -> pipe
Everywhere == OldLines \cup Lines(current) \cup Lines(buf) \cup Lines(queue) \cup Lines(pipe)

\* The lines of s are in the order of the output, and all of S come before those of T.
Rising(s) == \A i, j \in DOMAIN s : i < j => s[i] < s[j]
Before(S, T) == \A x \in S, y \in T : x < y

\* From the oldest file to the pipe the lines are in the order of the output, none
\* twice, through rotations, failures and restarts.
LinesInOrder ==
    /\ \A p \in Place : Rising(LinesAt(p))
    /\ \A p, o \in Place : p < o => Before(Lines(LinesAt(p)), Lines(LinesAt(o)))

\* A line that was written is on its way, in a file or in the archive, or is one that
\* was dropped, cleared, rotated away or lost with a failure: without one closing loses
\* none, and the audit log keeps what it rotates away.
NoLineIsLost == 1..copied \subseteq Everywhere \cup archived \cup accounted

\* What a clear has answered for does not come back (logger.go:326: the lines of
\* before the call are cleared with the rest), but in the window spoilt.
ClearedIsGone == ~spoilt => \A l \in Everywhere : l > cleared

\* The file does not grow over its limit, if this logger has created it.
SizeIsBounded == ~reopened => Len(current) + Len(buf) <= MaxSize

LogHolds == LinesInOrder /\ NoLineIsLost /\ ClearedIsGone /\ SizeIsBounded

----------------------------------------------------------------------------
(* What the code means to keep and does not.  Wait is called while the     *)
(* output is still copied and takes the rest of it away; the file is not   *)
(* measured when it is opened again; a clear that a closing logger answers *)
(* leaves the lines of its queue, and one that could not remove a file     *)
(* says that it has.                                                       *)

OutputReachesLog == ~torn
FileIsBounded == Len(current) + Len(buf) <= MaxSize
AnsweredClearIsKept == \A l \in Everywhere : l > cleared

\* The files are .1 to .5 (instance_logs.go:3, logConfig in daemon.go): with the queue
\* never full, nothing cleared and nothing failing, the last five files of lines are there.
FiveFilesAreKept ==
    logFails = 0 /\ clears = 0 /\ ~torn /\ QueueSize >= MaxLines =>
        \A l \in 1..copied : copied - l < 5 * MaxSize => l \in Everywhere
=============================================================================
