------------------------- MODULE ContainerArchives -------------------------
(***************************************************************************)
(* Archives of the container interface.  A directory of the host is zipped *)
(* into the archive directory, by a temporary file and a rename; archives  *)
(* are uploaded straight to their name, downloaded and unzipped again.  A  *)
(* jail is exported to a file whose name bastille chooses, and imported    *)
(* under a name that the node finds out.  Nothing is locked.               *)
(*                                                                         *)
(* A name may itself end in .tmp, and is then the temporary name of        *)
(* another: a file is named by what is left without these endings, and by  *)
(* how many of them there are.                                             *)
(*                                                                         *)
(* A file is its inode: names point to inodes, an open file stays the      *)
(* inode whatever happens to the name.  The content of an inode is the     *)
(* requests, by their numbers, that have written to it since it was last   *)
(* truncated.                                                              *)
(***************************************************************************)
EXTENDS Naturals, FiniteSets, Sequences

CONSTANTS
    ZipName,       \* names of archives, without .tmp at their end
    MaxEndings,    \* bound of the times a name that is asked for ends in .tmp
    ZipRequest,    \* requests that run at the same time
    Jail,          \* jails that are exported, and those that are imported
    MaxZipOps      \* bound of the requests that are begun

ASSUME ArchivesAssumption ==
    MaxZipOps \in Nat /\ MaxEndings \in Nat /\ ZipRequest \cap {"none", "orphan"} = {}

VARIABLES
    files,     \* <<name, how many times .tmp>> -> an inode, 0 if there is no such file
    writers,   \* inode -> the requests that have written to it
    finished,  \* inodes that are complete as their last writer left them
    zreq,      \* per request: what it does and how far it is
    exports,   \* the .txz files of bastille, the newest last
    jails,     \* the jails there are
    orphans,   \* the jails that commands of a process that has gone may still make
    zipOps,
    good,      \* history: files whose archive was answered and not taken back
    crossed    \* history: names, or jails, that two requests were at, at the same time

zipFiles == <<files, writers, finished>>
jailFiles == <<exports, jails, orphans>>
zipHistory == <<zipOps, good, crossed>>
archiveVars == <<zipFiles, zreq, jailFiles, zipHistory>>

ZipOp == {"zip", "upload", "restore", "export", "import", "clone"}
Inode == 1..MaxZipOps   \* a new inode has the number of the request that makes it
ZipFree == [op |-> "zip", pc |-> "idle", nr |-> 0, of |-> "none", ends |-> 0, inode |-> 0,
            before |-> {}, result |-> "none"]
Asked == ZipName \X (0..MaxEndings)             \* the names that a request can give
Named == ZipName \X (0..(MaxEndings + 1))       \* and those with .tmp put to them

ArchivesTypeOK ==
    /\ files \in [Named -> 0..MaxZipOps]
    /\ writers \in [Inode -> SUBSET Inode] /\ finished \subseteq Inode
    /\ \A q \in ZipRequest :
        /\ zreq[q].op \in ZipOp /\ zreq[q].of \in ZipName \cup Jail \cup {"none"}
        /\ zreq[q].ends \in 0..MaxEndings
        /\ zreq[q].pc \in {"idle", "begun", "write", "close", "rename", "drop", "read", "look", "answered"}
        /\ {zreq[q].nr, zreq[q].inode} \subseteq 0..MaxZipOps /\ zreq[q].before \subseteq Jail
        /\ zreq[q].result \in Jail \cup {"none", "ok", "error"}
    /\ \A i \in 1..Len(exports) :
         exports[i].jail \in Jail /\ exports[i].by \in ZipRequest \cup {"none", "orphan"}
    /\ jails \subseteq Jail /\ orphans \subseteq Jail /\ zipOps \in 0..MaxZipOps
    /\ good \subseteq Asked /\ crossed \subseteq ZipName \cup {"jails"}

ArchivesInit ==
    /\ files = [f \in Named |-> 0]
    /\ writers = [i \in Inode |-> {}] /\ finished = {}
    /\ zreq = [q \in ZipRequest |-> ZipFree]
    /\ exports = <<>> /\ jails = {} /\ orphans = {} /\ zipOps = 0 /\ good = {} /\ crossed = {}

Of(q) == zreq[q].of
DstOf(q) == <<Of(q), zreq[q].ends>>
TmpOf(q) == <<Of(q), zreq[q].ends + 1>>
ZipAt(q, op, pc) == zreq[q].op = op /\ zreq[q].pc = pc
ZipGoes(q, pc) == zreq' = [zreq EXCEPT ![q].pc = pc]
Answer(q, result) == zreq' = [zreq EXCEPT ![q].pc = "answered", ![q].result = result]
Whole(i) == i \in finished /\ Cardinality(writers[i]) = 1

\* What a request changes: a name, which stands for its temporary names as well, or
\* the jails and their exports.
Places(op, of) ==
    CASE op = "restore" -> {} [] op \in {"zip", "upload"} -> {of} [] OTHER -> {"jails"}

BeginZip(q, op, of, ends) ==
    /\ zreq[q].pc = "idle" /\ zipOps < MaxZipOps
    /\ zipOps' = zipOps + 1
    /\ zreq' = [zreq EXCEPT ![q] =
                    [ZipFree EXCEPT !.op = op, !.pc = "begun", !.nr = zipOps + 1, !.of = of, !.ends = ends]]
    /\ crossed' = crossed \cup UNION {Places(op, of) \cap Places(zreq[o].op, Of(o)) :
                                     o \in {o \in ZipRequest : zreq[o].pc \notin {"idle", "answered"}}}
    /\ UNCHANGED <<zipFiles, jailFiles, good>>
EndZip(q) ==
    /\ zreq[q].pc = "answered" /\ zreq' = [zreq EXCEPT ![q] = ZipFree]
    /\ UNCHANGED <<zipFiles, jailFiles, zipHistory>>

----------------------------------------------------------------------------
(* zipPathTo and the upload.                                               *)

\* os.Create: the file of that name is truncated, or a new one is made; a file that
\* others still write to is theirs as well.
OpenToWrite(q, file) ==
    LET i == IF files[file] # 0 THEN files[file] ELSE zreq[q].nr
    IN  /\ files' = [files EXCEPT ![file] = i]
        /\ writers' = [writers EXCEPT ![i] = {}]
        /\ finished' = finished \ {i}
        /\ zreq' = [zreq EXCEPT ![q].pc = "write", ![q].inode = i]

FaultZipInPlace(q) == DstOf(q)

\* The name that is written to: zipPathTo writes to the name with .tmp, the upload
\* to the name itself.
WrittenName(q) == IF zreq[q].op = "zip" THEN TmpOf(q) ELSE DstOf(q)

\* What a request replaces from its start on: an upload the archive of its name, a
\* zip an archive that has the name of its temporary file.
Replaced(q) == IF zreq[q].op = "zip" THEN TmpOf(q) ELSE DstOf(q)

OpenArchive(q) ==
    /\ zreq[q].op \in {"zip", "upload"} /\ zreq[q].pc = "begun"
    /\ \/ OpenToWrite(q, WrittenName(q)) /\ good' = good \ {Replaced(q)}
       \/ Answer(q, "error") /\ UNCHANGED <<zipFiles, good>>
    /\ UNCHANGED <<jailFiles, zipOps, crossed>>

\* Some of the content is copied ...
CopyContent(q) ==
    /\ zreq[q].op \in {"zip", "upload"} /\ zreq[q].pc = "write"
    /\ ZipGoes(q, "close")
    /\ writers' = [writers EXCEPT ![zreq[q].inode] = @ \cup {zreq[q].nr}]
    /\ UNCHANGED <<files, finished, jailFiles, zipHistory>>

\* ... and the rest, and the file is closed; it fails with the disk, with the source
\* or with the connection.
FillArchive(q) ==
    /\ zreq[q].op \in {"zip", "upload"} /\ zreq[q].pc = "close"
    /\ writers' = [writers EXCEPT ![zreq[q].inode] = @ \cup {zreq[q].nr}]
    /\ \/ /\ finished' = finished \cup {zreq[q].inode}
          /\ IF zreq[q].op = "zip" THEN ZipGoes(q, "rename") /\ UNCHANGED good
             ELSE Answer(q, "ok") /\ good' = good \cup {DstOf(q)}
       \/ ZipGoes(q, "drop") /\ finished' = finished \ {zreq[q].inode} /\ UNCHANGED good
    /\ UNCHANGED <<files, jailFiles, zipOps, crossed>>

\* os.Rename takes whatever has the temporary name by now, and fails if nothing has.
RenameArchive(q) ==
    /\ ZipAt(q, "zip", "rename")
    /\ \/ /\ files[TmpOf(q)] # 0
          /\ files' = [files EXCEPT ![DstOf(q)] = files[TmpOf(q)], ![TmpOf(q)] = 0]
          /\ Answer(q, "ok") /\ good' = good \cup {DstOf(q)}
       \/ ZipGoes(q, "drop") /\ UNCHANGED <<files, good>>
    /\ UNCHANGED <<writers, finished, jailFiles, zipOps, crossed>>

\* What failed is removed, by its name.
DropArchive(q) ==
    /\ zreq[q].op \in {"zip", "upload"} /\ zreq[q].pc = "drop"
    /\ files' = [files EXCEPT ![WrittenName(q)] = 0] /\ Answer(q, "error")
    /\ UNCHANGED <<writers, finished, jailFiles, zipHistory>>

\* The node may stop at any time; the files are left as they are, and the bastille
\* commands that were running go on.
CommandRuns(q) == ZipAt(q, "export", "write") \/ ZipAt(q, "import", "write") \/ ZipAt(q, "clone", "begun")
ZipCrash ==
    /\ \E q \in ZipRequest : CommandRuns(q) \/ zreq[q].pc \notin {"idle", "begun", "answered"}
    /\ zreq' = [q \in ZipRequest |-> ZipFree]
    /\ crossed' = crossed \cup {p \in {"jails"} : \E q \in ZipRequest : CommandRuns(q)}
    /\ orphans' = orphans \cup {Of(q) : q \in {q \in ZipRequest : CommandRuns(q) /\ zreq[q].op # "export"}}
    /\ exports' = [i \in 1..Len(exports) |->
                      [exports[i] EXCEPT !.by = IF exports[i].by = "none" THEN "none" ELSE "orphan"]]
    /\ UNCHANGED <<zipFiles, jails, zipOps, good>>

----------------------------------------------------------------------------
(* Download and restore.                                                   *)

\* zip.OpenReader reads the directory at the end of the file, which an archive that
\* is not whole does not have or has of another; the file stays open.
OpenToRead(q) ==
    /\ ZipAt(q, "restore", "begun")
    /\ LET i == files[DstOf(q)]
       IN  \/ /\ i # 0 /\ Whole(i)
              /\ zreq' = [zreq EXCEPT ![q].pc = "read", ![q].inode = i]
           \/ Answer(q, "error")
    /\ UNCHANGED <<zipFiles, jailFiles, zipHistory>>

\* The sums of the entries are checked as they are read, and each is written over
\* what is there; one that fails ends it, with the earlier ones restored.
Restore(q) ==
    /\ ZipAt(q, "restore", "read")
    /\ \/ Whole(zreq[q].inode) /\ Answer(q, "ok")
       \/ Answer(q, "error")
    /\ UNCHANGED <<zipFiles, jailFiles, zipHistory>>

----------------------------------------------------------------------------
(* bastilleExport and bastilleImport.                                      *)

\* bastille export makes a file and fills it; when it fails the file may stay.
ExportJail(q) ==
    /\ ZipAt(q, "export", "begun")
    /\ exports' = Append(exports, [jail |-> Of(q), by |-> q])
    /\ ZipGoes(q, "write")
    /\ UNCHANGED <<zipFiles, jails, orphans, zipHistory>>
ExportEnds(q) ==
    /\ ZipAt(q, "export", "write")
    /\ LET own == CHOOSE i \in 1..Len(exports) : exports[i].by = q
           without == [i \in 1..(Len(exports) - 1) |-> exports[IF i < own THEN i ELSE i + 1]]
       IN  \/ /\ exports' = Append(without, [exports[own] EXCEPT !.by = "none"])
              /\ ZipGoes(q, "look")
           \/ exports' \in {without, [exports EXCEPT ![own].by = "none"]} /\ Answer(q, "error")
    /\ UNCHANGED <<zipFiles, jails, orphans, zipHistory>>

\* A command that a crash has left ends, with its jail made or not, or its export
\* closed.
OrphanEnds ==
    /\ \/ \E j \in orphans :
             orphans' = orphans \ {j} /\ jails' \in {jails, jails \cup {j}} /\ UNCHANGED exports
       \/ \E i \in 1..Len(exports) :
             /\ exports[i].by = "orphan" /\ exports' = [exports EXCEPT ![i].by = "none"]
             /\ UNCHANGED <<jails, orphans>>
    /\ UNCHANGED <<zipFiles, zreq, zipHistory>>

FaultTakesOldest == {1}

\* The newest file: one that is being written is newer than all that are done.
NewestExport ==
    LET open == {i \in 1..Len(exports) : exports[i].by # "none"}
    IN  IF open = {} THEN {Len(exports)} ELSE open

LookForExport(q) ==
    /\ ZipAt(q, "export", "look")
    /\ \E i \in NewestExport : Answer(q, exports[i].jail)
    /\ UNCHANGED <<zipFiles, jailFiles, zipHistory>>

\* The names of the jails before; then bastille import makes one, or fails; then
\* one of the names that are new.
ListJails(q) ==
    /\ ZipAt(q, "import", "begun")
    /\ zreq' = [zreq EXCEPT ![q].pc = "write", ![q].before = jails]
    /\ UNCHANGED <<zipFiles, jailFiles, zipHistory>>
ImportJail(q) ==
    /\ ZipAt(q, "import", "write")
    /\ \/ Of(q) \notin jails /\ jails' = jails \cup {Of(q)} /\ ZipGoes(q, "look")
       \/ Answer(q, "error") /\ UNCHANGED jails
    /\ UNCHANGED <<zipFiles, exports, orphans, zipHistory>>

FaultAnyJail(q) == jails

NewJails(q) == jails \ zreq[q].before
LookForJail(q) ==
    /\ ZipAt(q, "import", "look")
    /\ \E j \in NewJails(q) : Answer(q, j)
    /\ UNCHANGED <<zipFiles, jailFiles, zipHistory>>

\* bastilleClone makes a jail as well.
CloneJail(q) ==
    /\ ZipAt(q, "clone", "begun")
    /\ \/ Of(q) \notin jails /\ jails' = jails \cup {Of(q)} /\ Answer(q, "ok")
       \/ Answer(q, "error") /\ UNCHANGED jails
    /\ UNCHANGED <<zipFiles, exports, orphans, zipHistory>>

ArchivesNext ==
    \/ ZipCrash \/ OrphanEnds
    \/ \E q \in ZipRequest :
        \/ \E op \in {"zip", "upload", "restore"}, f \in Asked : BeginZip(q, op, f[1], f[2])
        \/ \E op \in {"export", "import", "clone"}, j \in Jail : BeginZip(q, op, j, 0)
        \/ EndZip(q) \/ OpenArchive(q) \/ CopyContent(q) \/ FillArchive(q) \/ RenameArchive(q) \/ DropArchive(q)
        \/ OpenToRead(q) \/ Restore(q)
        \/ ExportJail(q) \/ ExportEnds(q) \/ LookForExport(q)
        \/ ListJails(q) \/ ImportJail(q) \/ LookForJail(q) \/ CloneJail(q)

ArchivesSpec == ArchivesInit /\ [][ArchivesNext]_archiveVars

----------------------------------------------------------------------------
(* Properties                                                              *)

\* An archive that was answered is there, whole and of one request, until an upload
\* begins to replace it, or a zip whose temporary name it has, whatever fails and
\* wherever the node stops.  The window is a second request of the same name, with or
\* without .tmp, at the same time: both write to one temporary file.
GoodArchivesStay ==
    \A f \in good : f[1] \notin crossed => files[f] # 0 /\ Whole(files[f])

\* An export answers the file of its own jail and an import the jail it has made,
\* unless two of them, or clones, ran at the same time, or the node stopped while a
\* command of bastille ran.
AnswersAreOwn ==
    \/ "jails" \in crossed
    \/ \A q \in ZipRequest :
         zreq[q].pc = "answered" /\ zreq[q].op \in {"export", "import"} => zreq[q].result \in {Of(q), "error"}

ArchivesHold == GoodArchivesStay /\ AnswersAreOwn

----------------------------------------------------------------------------
(* What the code means to keep and does not.  zipPathTo writes a temporary *)
(* file and renames it so that the name is never a torn archive.           *)

ZippedIsWhole == \A f \in good : files[f] # 0 => Whole(files[f])

\* An archive stays until one of its own name replaces it: zipping a name removes the
\* archive whose name is that with .tmp.
AnsweredStays ==
    [][\A f \in good \ good' : \E q \in ZipRequest : zreq[q].op = "upload" /\ f = DstOf(q)]_archiveVars
=============================================================================
