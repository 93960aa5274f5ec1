---------------------------- MODULE JailConfig ----------------------------
(***************************************************************************)
(* The configuration of one jail: its fstab with the mounts it stands for, *)
(* its port forwards and its jail.conf.  The node keeps none of it: every  *)
(* request reads it, from the files or by the bastille command, and writes *)
(* back the whole.  No lock keeps two requests apart, no file is replaced  *)
(* as a whole (os.WriteFile truncates it first), and two writes of one     *)
(* request are not undone when the node stops between them.                *)
(*                                                                         *)
(* The bastille and mount commands are external: they do what the node     *)
(* asks or fail.  An entry of fstab is a mount point and a file system;    *)
(* bastille writes the host's path of a nullfs mount, the node writes the  *)
(* jail's path of a procfs mount.                                          *)
(***************************************************************************)
EXTENDS Naturals, FiniteSets

CONSTANTS
    Point,          \* paths in the jail
    Rule,           \* port forwards
    Foreign,        \* rules that parseRdrLine cannot read
    Setting,        \* keys of jail.conf
    ConfigRequest,  \* requests that run at the same time
    MaxConfigOps    \* bound of the requests that are begun

ASSUME ConfigAssumption == Foreign \subseteq Rule /\ MaxConfigOps \in Nat

VARIABLES
    present,  \* the jail is there
    jailUp,
    fstab, mounted,
    points,   \* the mount points that are there, as empty directories
    rules, conf,
    creq,     \* per request: where it is and what it holds
    configOps,
    wanted,   \* history: what the answers have promised of each file
    clashed,  \* history: the files two requests have worked on at the same time
    torn      \* history: the files that a failed read or write, or a crash, left half done

configState == <<present, jailUp, fstab, mounted, points, rules, conf>>
configHistory == <<wanted, clashed, torn>>
configVars == <<configState, creq, configOps, configHistory>>

Entry(p, fs) == <<p, fs>>
Entries == Point \X {"nullfs", "procfs"}
AtPoint(p) == {e \in Entries : e[1] = p}

\* What a request is about: an entry, a rule or a key.
Subject == Entries \cup Rule \cup Setting
Op == {"mount", "unmount", "forward", "unforward", "set", "unset", "create", "destroy"}
FilesOf(op) ==
    CASE op \in {"mount", "unmount"} -> {"fstab"}
      [] op \in {"forward", "unforward"} -> {"rules"}
      [] op \in {"set", "unset"} -> {"conf"}
      [] OTHER -> {"fstab", "rules", "conf"}
Nothing == [pc |-> "idle", op |-> "destroy", of |-> {}, held |-> {}, failed |-> FALSE]
NoneWanted == [fstab |-> {}, rules |-> {}, conf |-> {}]

ConfigTypeOK ==
    /\ {present, jailUp} \subseteq BOOLEAN
    /\ fstab \subseteq Entries /\ mounted \subseteq Entries /\ points \subseteq Point
    /\ rules \subseteq Rule /\ conf \subseteq Setting
    /\ creq \in [ConfigRequest -> [pc : {"idle", "begun", "mkdir", "mount", "rmdir", "undo",
                                         "read", "write", "clear", "replay", "unset"},
                                   op : Op, of : SUBSET Subject, held : SUBSET Subject, failed : BOOLEAN]]
    /\ configOps \in 0..MaxConfigOps
    /\ wanted \in [fstab : SUBSET Entries, rules : SUBSET Rule, conf : SUBSET Setting]
    /\ {clashed, torn} \subseteq SUBSET {"fstab", "rules", "conf"}

ConfigInit ==
    /\ present = TRUE /\ jailUp = TRUE
    /\ fstab = {} /\ mounted = {} /\ points = {} /\ conf = {}
    /\ rules = Foreign
    /\ creq = [q \in ConfigRequest |-> Nothing] /\ configOps = 0
    /\ wanted = NoneWanted /\ clashed = {} /\ torn = {}

Doing(q, op, pc) == creq[q].op = op /\ creq[q].pc = pc /\ present
About(q) == CHOOSE x \in creq[q].of : TRUE
Next_(q, pc) == creq' = [creq EXCEPT ![q].pc = pc]
Holding(q, pc, held) == creq' = [creq EXCEPT ![q].pc = pc, ![q].held = held]
Answers(q) == creq' = [creq EXCEPT ![q] = Nothing]
Promise(file, what) == wanted' = [wanted EXCEPT ![file] = what]
Tears(file) == torn' = torn \cup {file}

\* os.WriteFile fails before it has truncated the file, or after it: then some of
\* what it was to write is there.
HalfWritten(what) == SUBSET what

\* A request begins; what it is to take away is not promised any more.
BeginConfig(q, op, of) ==
    /\ creq[q].pc = "idle" /\ configOps < MaxConfigOps /\ (op = "create" <=> ~present)
    /\ creq' = [creq EXCEPT ![q] = [Nothing EXCEPT !.pc = "begun", !.op = op, !.of = of]]
    /\ configOps' = configOps + 1
    /\ clashed' = clashed \cup UNION {FilesOf(op) \cap FilesOf(creq[o].op) :
                                      o \in {o \in ConfigRequest : creq[o].pc # "idle"}}
    /\ wanted' = CASE op = "unmount" -> [wanted EXCEPT !.fstab = @ \ UNION {AtPoint(e[1]) : e \in of}]
                   [] op = "unforward" -> [wanted EXCEPT !.rules = @ \ of]
                   [] op = "unset" -> [wanted EXCEPT !.conf = @ \ of]
                   [] OTHER -> wanted
    /\ UNCHANGED <<configState, torn>>

\* Every step of a request fails when the jail has been destroyed: the command does
\* not know it, and its files cannot be read or written.
JailIsGone(q) ==
    /\ ~present /\ creq[q].pc # "idle" /\ creq[q].op # "create"
    /\ Answers(q) /\ UNCHANGED <<configState, configOps, configHistory>>

\* What a request leaves half done between two of its steps: a line of fstab that is
\* not mounted yet or is to go again, and the forwards that are cleared.
HalfDone(q) ==
    CASE creq[q].op = "unmount" -> {"fstab"}
      [] creq[q].op = "mount" /\ creq[q].pc \in {"mkdir", "undo", "clear", "unset"} -> {"fstab"}
      [] creq[q].op = "unforward" /\ creq[q].pc = "replay" -> {"rules"}
      [] OTHER -> {}

\* The node stops, and nobody takes up what its requests were at.
ConfigCrash ==
    /\ \E q \in ConfigRequest : creq[q].pc # "idle"
    /\ creq' = [q \in ConfigRequest |-> Nothing]
    /\ torn' = torn \cup UNION {HalfDone(q) : q \in {q \in ConfigRequest : creq[q].pc # "idle"}}
    /\ UNCHANGED <<configState, configOps, wanted, clashed>>

----------------------------------------------------------------------------
(* bastilleAction: the jail itself.                                        *)

\* Starting mounts what fstab lists, if every mount point is there.
StartConfigured ==
    /\ present /\ ~jailUp /\ \A e \in fstab : e[1] \in points
    /\ jailUp' = TRUE /\ mounted' = mounted \cup fstab
    /\ UNCHANGED <<present, fstab, points, rules, conf, creq, configOps, configHistory>>
StopConfigured ==
    /\ jailUp /\ jailUp' = FALSE /\ mounted' = mounted \ fstab
    /\ UNCHANGED <<present, fstab, points, rules, conf, creq, configOps, configHistory>>

DestroyJail(q) ==
    /\ Doing(q, "destroy", "begun") /\ Answers(q)
    /\ \/ /\ present' = FALSE /\ jailUp' = FALSE /\ fstab' = {} /\ mounted' = {}
          /\ points' = {} /\ rules' = {} /\ conf' = {} /\ wanted' = NoneWanted
       \/ UNCHANGED <<configState, wanted>>
    /\ UNCHANGED <<configOps, clashed, torn>>

\* bastilleCreate: the jail, then its volume and its exec.start; what fails of
\* these is a warning.
CreateJail(q) ==
    /\ creq[q].op = "create" /\ creq[q].pc = "begun" /\ ~present
    /\ present' = TRUE /\ Next_(q, "mkdir")
    /\ UNCHANGED <<jailUp, fstab, mounted, points, rules, conf, configOps, configHistory>>
CreateMountsVolume(q) ==
    /\ Doing(q, "create", "mkdir") /\ Next_(q, "read")
    /\ \/ /\ fstab' = fstab \cup creq[q].of
          /\ points' = points \cup {e[1] : e \in creq[q].of}
          /\ Promise("fstab", wanted.fstab \cup creq[q].of)
       \/ UNCHANGED <<fstab, points, wanted>>
    /\ UNCHANGED <<present, jailUp, mounted, rules, conf, configOps, clashed, torn>>

\* bastilleSetWorkdir reads jail.conf and writes it back with exec.start in place
\* (the settings themselves stay as they were read).
CreateReadsConf(q) ==
    /\ Doing(q, "create", "read") /\ Holding(q, "write", conf)
    /\ UNCHANGED <<configState, configOps, configHistory>>
CreateWritesConf(q) ==
    /\ Doing(q, "create", "write") /\ Answers(q)
    /\ \/ conf' \in {creq[q].held, conf} /\ UNCHANGED torn
       \/ conf' \in HalfWritten(creq[q].held) /\ Tears("conf")
    /\ UNCHANGED <<present, jailUp, fstab, mounted, points, rules, configOps, wanted, clashed>>

----------------------------------------------------------------------------
(* bastilleMountAdd                                                        *)

IsNull(q) == \A e \in creq[q].of : e[2] = "nullfs"

\* nullfs: no entry of fstab is refused, since those that bastille has written do
\* not look like the path of the request; the mount point is made, if the file can be
\* read and the directory of the host is there.
MakePoint(q) ==
    /\ Doing(q, "mount", "begun") /\ IsNull(q)
    /\ \/ Next_(q, "mount") /\ points' = points \cup {About(q)[1]}
       \/ Answers(q) /\ UNCHANGED points
    /\ UNCHANGED <<present, jailUp, fstab, mounted, rules, conf, configOps, configHistory>>

\* bastille mount refuses an entry that is there; it may fail.
MountNull(q) ==
    /\ Doing(q, "mount", "mount") /\ IsNull(q)
    /\ \/ /\ creq[q].of \cap fstab = {} /\ Answers(q)
          /\ fstab' = fstab \cup creq[q].of
          /\ mounted' = IF jailUp THEN mounted \cup creq[q].of ELSE mounted
          /\ Promise("fstab", wanted.fstab \cup creq[q].of)
       \/ Next_(q, "rmdir") /\ UNCHANGED <<fstab, mounted, wanted>>
    /\ UNCHANGED <<present, jailUp, points, rules, conf, configOps, clashed, torn>>

\* A mount point that is empty goes again, whoever made it; one that is mounted on
\* cannot be removed.
RemovePoint(q) ==
    /\ Doing(q, "mount", "rmdir") /\ Answers(q)
    /\ points' = IF AtPoint(About(q)[1]) \cap mounted = {} THEN points \ {About(q)[1]} ELSE points
    /\ UNCHANGED <<present, jailUp, fstab, mounted, rules, conf, configOps, configHistory>>

\* procfs and devfs: an entry that is there refuses it, as a file that cannot be read
\* does; otherwise the file is written back with one more.
ReadFstab(q) ==
    /\ Doing(q, "mount", "begun") /\ ~IsNull(q)
    /\ \/ ~(creq[q].of \subseteq fstab) /\ Holding(q, "write", fstab)
       \/ Answers(q)
    /\ UNCHANGED <<configState, configOps, configHistory>>
WriteFstab(q) ==
    /\ Doing(q, "mount", "write")
    /\ \/ Next_(q, "mkdir") /\ fstab' = creq[q].held \cup creq[q].of /\ UNCHANGED torn
       \/ Answers(q) /\ UNCHANGED <<fstab, torn>>
       \/ Answers(q) /\ fstab' \in HalfWritten(creq[q].held \cup creq[q].of) /\ Tears("fstab")
    /\ UNCHANGED <<present, jailUp, mounted, points, rules, conf, configOps, wanted, clashed>>
MountProc(q) ==
    /\ Doing(q, "mount", "mkdir")
    /\ \/ /\ Answers(q)
          /\ points' = points \cup {About(q)[1]} /\ mounted' = mounted \cup creq[q].of
          /\ Promise("fstab", wanted.fstab \cup creq[q].of)
       \/ /\ Next_(q, "undo") /\ UNCHANGED <<mounted, wanted>>
          /\ points' \in {points, points \cup {About(q)[1]}}
    /\ UNCHANGED <<present, jailUp, fstab, rules, conf, configOps, clashed, torn>>

FaultRemovedAnyType(q) == AtPoint(About(q)[1])

\* The lines that bastilleFstabRemove leaves out: those of the mount point in
\* either form, of one file system only when an entry is taken back.
RemovedLines(q) == IF creq[q].op = "mount" THEN creq[q].of ELSE AtPoint(About(q)[1])

\* bastilleFstabRemove reads the file; one that mustReadFstab cannot read has no line
\* for it, so that what is there stays ...
ReadForRemoval(q) ==
    /\ Doing(q, "mount", "undo") \/ Doing(q, "unmount", "read")
    /\ \/ /\ Holding(q, IF fstab \cap RemovedLines(q) = {} THEN "unset" ELSE "clear", fstab \ RemovedLines(q))
          /\ UNCHANGED torn
       \/ Holding(q, "unset", {}) /\ Tears("fstab")
    /\ UNCHANGED <<configState, configOps, wanted, clashed>>

\* ... and writes it back, whether that succeeds or not; with no line to leave out
\* it does not.  A removal whose umount has failed is answered with an error only if
\* a line was there.
RemoveLines(q) ==
    /\ Doing(q, "mount", "clear") \/ Doing(q, "mount", "unset")
       \/ Doing(q, "unmount", "clear") \/ Doing(q, "unmount", "unset")
    /\ Answers(q)
    /\ \/ fstab' = (IF creq[q].pc = "clear" THEN creq[q].held ELSE fstab) /\ UNCHANGED torn
       \/ creq[q].pc = "clear" /\ UNCHANGED fstab /\ Tears("fstab")
       \/ creq[q].pc = "clear" /\ fstab' \in HalfWritten(creq[q].held) /\ Tears("fstab")
    /\ UNCHANGED <<present, jailUp, mounted, points, rules, conf, configOps, wanted, clashed>>

\* bastilleMountRemove: bastille umount takes the mount and its line out, or fails,
\* as it does when there is no mount.
Unmount(q) ==
    /\ Doing(q, "unmount", "begun")
    /\ \E gone \in {e \in mounted : e[1] = About(q)[1]} :
           /\ mounted' = mounted \ {gone} /\ Next_(q, "read")
           /\ fstab' \in {fstab, fstab \ {gone}}
       \/ /\ creq' = [creq EXCEPT ![q].pc = "read", ![q].failed = TRUE]
          /\ UNCHANGED <<mounted, fstab>>
    /\ UNCHANGED <<present, jailUp, points, rules, conf, configOps, configHistory>>

----------------------------------------------------------------------------
(* Port forwards.                                                          *)

\* bastilleRdrAdd
AddRule(q) ==
    /\ Doing(q, "forward", "begun") /\ Answers(q)
    /\ \/ rules' = rules \cup creq[q].of /\ Promise("rules", wanted.rules \cup creq[q].of)
       \/ UNCHANGED <<rules, wanted>>
    /\ UNCHANGED <<present, jailUp, fstab, mounted, points, conf, configOps, clashed, torn>>

\* bastilleRdrDelete: there is no command for one rule.  The rules are listed, as
\* far as they can be read ...
ListRules(q) ==
    /\ Doing(q, "unforward", "begun")
    /\ Holding(q, "clear", rules \ Foreign) \/ Answers(q)
    /\ UNCHANGED <<configState, configOps, configHistory>>

\* ... all of them are cleared ...
ClearRules(q) ==
    /\ Doing(q, "unforward", "clear")
    /\ \/ Next_(q, "replay") /\ rules' = {}
       \/ Answers(q) /\ UNCHANGED rules
    /\ UNCHANGED <<present, jailUp, fstab, mounted, points, conf, configOps, configHistory>>

FaultReplaysAllButLast(q) ==
    /\ Doing(q, "unforward", "replay")
    /\ LET left == creq[q].held \ creq[q].of
       IN  IF Cardinality(left) <= 1
           THEN Answers(q) /\ UNCHANGED <<rules, wanted>>
           ELSE \E r \in left :
                  /\ rules' = rules \cup {r} /\ UNCHANGED wanted
                  /\ Holding(q, "replay", creq[q].held \ {r})
    /\ UNCHANGED <<present, jailUp, fstab, mounted, points, conf, configOps, clashed, torn>>

\* ... and the others are added again, one by one: the first that fails ends it,
\* and those that were left are not promised any more.
ReplayRule(q) ==
    /\ Doing(q, "unforward", "replay")
    /\ LET left == creq[q].held \ creq[q].of
       IN  IF left = {}
           THEN Answers(q) /\ UNCHANGED <<rules, wanted>>
           ELSE \E r \in left :
                \/ /\ rules' = rules \cup {r} /\ UNCHANGED wanted
                   /\ Holding(q, "replay", creq[q].held \ {r})
                \/ /\ Answers(q) /\ Promise("rules", wanted.rules \ left) /\ UNCHANGED rules
    /\ UNCHANGED <<present, jailUp, fstab, mounted, points, conf, configOps, clashed, torn>>

----------------------------------------------------------------------------
(* jail.conf                                                               *)

\* bastilleConfigSet is one command, bastilleConfigUnset rewrites the file.
SetSetting(q) ==
    /\ Doing(q, "set", "begun") /\ Answers(q)
    /\ \/ conf' = conf \cup creq[q].of /\ Promise("conf", wanted.conf \cup creq[q].of)
       \/ UNCHANGED <<conf, wanted>>
    /\ UNCHANGED <<present, jailUp, fstab, mounted, points, rules, configOps, clashed, torn>>
ReadSettings(q) ==
    /\ Doing(q, "unset", "begun")
    /\ Holding(q, "write", conf) \/ Answers(q)
    /\ UNCHANGED <<configState, configOps, configHistory>>
FaultUnsetPrefix(q) ==
    /\ Doing(q, "unset", "write") /\ Answers(q) /\ conf' = {}
    /\ UNCHANGED <<present, jailUp, fstab, mounted, points, rules, configOps, configHistory>>

UnsetSetting(q) ==
    /\ Doing(q, "unset", "write") /\ Answers(q)
    /\ \/ conf' \in {creq[q].held \ creq[q].of, conf} /\ UNCHANGED torn
       \/ conf' \in HalfWritten(creq[q].held \ creq[q].of) /\ Tears("conf")
    /\ UNCHANGED <<present, jailUp, fstab, mounted, points, rules, configOps, wanted, clashed>>

ConfigNext ==
    \/ StartConfigured \/ StopConfigured \/ ConfigCrash
    \/ \E q \in ConfigRequest :
        \/ \E e \in Entries : BeginConfig(q, "mount", {e})
        \/ \E p \in Point :
             \/ BeginConfig(q, "unmount", {Entry(p, "nullfs")})
             \/ BeginConfig(q, "create", {Entry(p, "nullfs")})
        \/ \E r \in Rule \ Foreign : BeginConfig(q, "forward", {r}) \/ BeginConfig(q, "unforward", {r})
        \/ \E k \in Setting : BeginConfig(q, "set", {k}) \/ BeginConfig(q, "unset", {k})
        \/ BeginConfig(q, "destroy", {})
        \/ JailIsGone(q) \/ DestroyJail(q) \/ CreateJail(q) \/ CreateMountsVolume(q)
        \/ CreateReadsConf(q) \/ CreateWritesConf(q)
        \/ MakePoint(q) \/ MountNull(q) \/ RemovePoint(q)
        \/ ReadFstab(q) \/ WriteFstab(q) \/ MountProc(q)
        \/ ReadForRemoval(q) \/ RemoveLines(q) \/ Unmount(q)
        \/ AddRule(q) \/ ListRules(q) \/ ClearRules(q) \/ ReplayRule(q)
        \/ SetSetting(q) \/ ReadSettings(q) \/ UnsetSetting(q)

ConfigSpec == ConfigInit /\ [][ConfigNext]_configVars

----------------------------------------------------------------------------
(* Properties                                                              *)

Under(op) == UNION {creq[q].of : q \in {q \in ConfigRequest : creq[q].pc # "idle" /\ creq[q].op = op}}

\* What was mounted and answered stays in fstab until it is removed, and nothing
\* else gets there: a mount that fails takes back its own line and no other.
FstabKeepsPromises ==
    \/ "fstab" \in clashed \cup torn
    \/ /\ wanted.fstab \subseteq fstab
       /\ fstab \subseteq wanted.fstab \cup Under("mount")
                          \cup UNION {AtPoint(e[1]) : e \in Under("unmount")}

\* The deletion of a forward leaves the others as they were, when every command it
\* needs succeeds.
RulesKeepPromises ==
    \/ "rules" \in clashed \cup torn
    \/ wanted.rules \subseteq rules
         \cup UNION {creq[q].held : q \in {q \in ConfigRequest : creq[q].pc = "replay"}}

\* The removal of a key leaves the others as they were.
ConfKeepsPromises == "conf" \in clashed \cup torn \/ wanted.conf \subseteq conf

\* The configuration of a jail is what the answers have said, unless two requests
\* have worked on the same file at the same time, which the code does not exclude,
\* or the file could not be read or written, or the node stopped on the way.
JailConfigHolds == FstabKeepsPromises /\ RulesKeepPromises /\ ConfKeepsPromises

----------------------------------------------------------------------------
(* What the code means to keep and does not.  bastilleMountRemove says that *)
(* a umount that fails is reported; the second try finds no line in fstab   *)
(* any more and answers that all is well, with the mount still there.  And  *)
(* the mount point that a refused mount removes may be another's.           *)

RemovalIsHonest ==
    \A q \in ConfigRequest :
        Doing(q, "unmount", "unset") => AtPoint(About(q)[1]) \cap mounted = {}
MountPointsStay == \A e \in fstab : e[1] \in points
=============================================================================
