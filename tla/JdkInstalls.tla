---------------------------- MODULE JdkInstalls -----------------------------
(***************************************************************************)
(* The tasks that install a JDK: each downloads an archive, extracts it    *)
(* under a temporary name and moves it to the directory of its version,    *)
(* over the one that is there.  The installations take turns; the requests *)
(* that uninstall do not wait for them.                                    *)
(***************************************************************************)
EXTENDS Naturals, FiniteSets

CONSTANTS
    JdkInstall,      \* the tasks that install one version of the JDK
    MaxUninstalls,   \* bound of the requests that uninstall
    MaxInstallFails  \* bound of the removals that fail, and of the crashes

ASSUME InstallAssumption == MaxUninstalls \in Nat /\ MaxInstallFails \in Nat /\ "none" \notin JdkInstall

VARIABLES
    jdkInstallMu, \* the task that installs, or NoInstall
    jdkTask,      \* per installation: status, as the task shows it, and how far it is
    jdkTmp,       \* installation -> what is under .install-<taskID>
    target,       \* whose JDK is in jdk-<major>, NoInstall for none
    jdkFiles,     \* the files of it that are there
    uninstall,    \* the request that uninstalls: how far, and whose JDK it removes
    uninstalls, installFails,
    disturbed,    \* history: the JDKs that an uninstall, or a later installation, was at
    uninstalled   \* history: the JDKs whose removal was answered with success

jdkVars == <<jdkInstallMu, jdkTask, jdkTmp, target, jdkFiles>>
uninstallVars == <<uninstall, uninstalls>>
installHistory == <<disturbed, uninstalled>>
installVars == <<jdkVars, uninstallVars, installFails, installHistory>>

NoInstall == "none"
JdkFile == {"java", "lib"}

InstallsTypeOK ==
    /\ jdkInstallMu \in JdkInstall \cup {NoInstall} /\ target \in JdkInstall \cup {NoInstall}
    /\ jdkTask \in [JdkInstall -> [status : {"none", "pending", "running", "done", "error", "lost"},
                                   pc : {"wait", "query", "fetch", "extract", "clear", "place", "verify",
                                         "clean", "unlock", "end"},
                                   opened : JdkInstall \cup {NoInstall}]]
    /\ jdkTmp \in [JdkInstall -> SUBSET {"dir", "archive", "root", "mess"}] /\ jdkFiles \subseteq JdkFile
    /\ uninstall \in [pc : {"idle", "open", "remove"}, of : JdkInstall \cup {NoInstall}]
    /\ uninstalls \in 0..MaxUninstalls /\ installFails \in 0..MaxInstallFails
    /\ disturbed \subseteq JdkInstall /\ uninstalled \subseteq JdkInstall

InstallsInit ==
    /\ jdkInstallMu = NoInstall /\ target = NoInstall /\ jdkFiles = {}
    /\ jdkTask = [j \in JdkInstall |-> [status |-> "none", pc |-> "wait", opened |-> NoInstall]]
    /\ jdkTmp = [j \in JdkInstall |-> {}]
    /\ uninstall = [pc |-> "idle", of |-> NoInstall] /\ uninstalls = 0 /\ installFails = 0
    /\ disturbed = {} /\ uninstalled = {}

InstallFail == installFails < MaxInstallFails /\ installFails' = installFails + 1

----------------------------------------------------------------------------
(* runInstallJDK                                                           *)

JdkAt(j, pc) == jdkTask[j].status \in {"pending", "running", "done", "error"} /\ jdkTask[j].pc = pc
JdkGoes(j, pc) == jdkTask' = [jdkTask EXCEPT ![j].pc = pc]
JdkEnds(j, status, pc) == jdkTask' = [jdkTask EXCEPT ![j].status = status, ![j].pc = pc]

\* handleInstallJava
StartInstall(j) ==
    /\ jdkTask[j].status = "none"
    /\ jdkTask' = [jdkTask EXCEPT ![j].status = "pending"]
    /\ UNCHANGED <<jdkInstallMu, jdkTmp, target, jdkFiles, uninstallVars, installFails, installHistory>>

FaultNoTurns(j) == TRUE

MayInstall(j) == jdkInstallMu = NoInstall

LockInstall(j) ==
    /\ JdkAt(j, "wait") /\ MayInstall(j)
    /\ jdkInstallMu' = j /\ JdkEnds(j, "running", "query")
    /\ UNCHANGED <<jdkTmp, target, jdkFiles, uninstallVars, installFails, installHistory>>

\* Up to the temporary directory a failure has nothing to remove.
QueryRelease(j) ==
    /\ JdkAt(j, "query")
    /\ \/ JdkGoes(j, "fetch") /\ jdkTmp' = [jdkTmp EXCEPT ![j] = {"dir"}]
       \/ JdkEnds(j, "error", "unlock") /\ UNCHANGED jdkTmp
    /\ UNCHANGED <<jdkInstallMu, target, jdkFiles, uninstallVars, installFails, installHistory>>

\* downloadFile: over the limit, cut or out of time it leaves what was written.
FetchArchive(j) ==
    /\ JdkAt(j, "fetch")
    /\ \E whole \in BOOLEAN :
         /\ jdkTmp' = [jdkTmp EXCEPT ![j] = @ \cup {IF whole THEN "archive" ELSE "mess"}]
         /\ IF whole THEN JdkGoes(j, "extract") ELSE JdkEnds(j, "error", "clean")
    /\ UNCHANGED <<jdkInstallMu, target, jdkFiles, uninstallVars, installFails, installHistory>>

\* extractJDKArchive, and the archive must have one directory as its root.
ExtractArchive(j) ==
    /\ JdkAt(j, "extract")
    /\ \E fine \in BOOLEAN :
         /\ jdkTmp' = [jdkTmp EXCEPT ![j] = @ \cup {IF fine THEN "root" ELSE "mess"}]
         /\ IF fine
            THEN jdkTask' = [jdkTask EXCEPT ![j].pc = "clear", ![j].opened = target]
            ELSE JdkEnds(j, "error", "clean")
    /\ UNCHANGED <<jdkInstallMu, target, jdkFiles, uninstallVars, installFails, installHistory>>

\* os.RemoveAll of the directory that was opened takes one file after the other; its
\* last one takes the directory with it.
RemoveOne(of) ==
    /\ target = of /\ of # NoInstall
    /\ \E f \in jdkFiles :
         /\ jdkFiles' = jdkFiles \ {f}
         /\ target' = IF jdkFiles = {f} THEN NoInstall ELSE target

ClearTarget(j) ==
    /\ JdkAt(j, "clear")
    /\ \/ /\ RemoveOne(jdkTask[j].opened) /\ UNCHANGED <<jdkTask, installFails>>
          /\ disturbed' = IF jdkTask[jdkTask[j].opened].pc = "end"
                          THEN disturbed \cup {jdkTask[j].opened} ELSE disturbed
       \/ /\ target = NoInstall /\ JdkGoes(j, "place")
          /\ UNCHANGED <<target, jdkFiles, installFails, disturbed>>
       \/ /\ target # NoInstall /\ target # jdkTask[j].opened /\ JdkEnds(j, "error", "clean")
          /\ UNCHANGED <<target, jdkFiles, installFails, disturbed>>
       \/ /\ InstallFail /\ JdkEnds(j, "error", "clean")
          /\ UNCHANGED <<target, jdkFiles, disturbed>>
    /\ UNCHANGED <<jdkInstallMu, jdkTmp, uninstallVars, uninstalled>>

\* os.Rename does not replace a directory that has files.
PlaceJdk(j) ==
    /\ JdkAt(j, "place")
    /\ \/ /\ target = NoInstall /\ target' = j /\ jdkFiles' \in {JdkFile, JdkFile \ {"java"}}
          /\ jdkTmp' = [jdkTmp EXCEPT ![j] = @ \ {"root"}] /\ JdkGoes(j, "verify")
       \/ JdkEnds(j, "error", "clean") /\ UNCHANGED <<target, jdkFiles, jdkTmp>>
    /\ UNCHANGED <<jdkInstallMu, uninstallVars, installFails, installHistory>>

VerifyJava(j) ==
    /\ JdkAt(j, "verify")
    /\ JdkEnds(j, IF "java" \in jdkFiles THEN "done" ELSE "error", "clean")
    /\ UNCHANGED <<jdkInstallMu, jdkTmp, target, jdkFiles, uninstallVars, installFails, installHistory>>

\* The deferred calls, last first: the temporary directory, then the lock.
CleanInstall(j) ==
    /\ JdkAt(j, "clean") /\ JdkGoes(j, "unlock")
    /\ \/ jdkTmp' = [jdkTmp EXCEPT ![j] = {}] /\ UNCHANGED installFails
       \/ InstallFail /\ UNCHANGED jdkTmp
    /\ UNCHANGED <<jdkInstallMu, target, jdkFiles, uninstallVars, installHistory>>
UnlockInstall(j) ==
    /\ JdkAt(j, "unlock") /\ JdkGoes(j, "end") /\ jdkInstallMu' = NoInstall
    /\ UNCHANGED <<jdkTmp, target, jdkFiles, uninstallVars, installFails, installHistory>>

----------------------------------------------------------------------------
(* handleUninstallJava                                                     *)

FindJdk ==
    /\ uninstall.pc = "idle" /\ uninstalls < MaxUninstalls /\ target # NoInstall
    /\ uninstalls' = uninstalls + 1 /\ uninstall' = [uninstall EXCEPT !.pc = "open"]
    /\ UNCHANGED <<jdkVars, installFails, installHistory>>
OpenJdk ==
    /\ uninstall.pc = "open" /\ uninstall' = [pc |-> "remove", of |-> target]
    /\ disturbed' = disturbed \cup ({target} \ {NoInstall})
    /\ UNCHANGED <<jdkVars, uninstalls, installFails, uninstalled>>
RemoveJdk ==
    /\ uninstall.pc = "remove" /\ RemoveOne(uninstall.of)
    /\ UNCHANGED <<jdkInstallMu, jdkTask, jdkTmp, uninstallVars, installFails, installHistory>>

FaultAnswersSuccess == {uninstall.of} \ {NoInstall}

\* It succeeds when the directory is gone: another one in its place is an error.
RemovedJdk == IF target = NoInstall THEN {uninstall.of} \ {NoInstall} ELSE {}

EndUninstall ==
    /\ uninstall.pc = "remove"
    /\ \/ target \notin {uninstall.of} \ {NoInstall} /\ UNCHANGED installFails
       \/ target = uninstall.of /\ target # NoInstall /\ InstallFail
    /\ uninstalled' = uninstalled \cup RemovedJdk
    /\ uninstall' = [pc |-> "idle", of |-> NoInstall]
    /\ UNCHANGED <<jdkVars, uninstalls, disturbed>>

----------------------------------------------------------------------------
\* The tasks are only in memory: a stop of the node is a crash for them, and no start
\* looks for what they have left.
LoseInstalls ==
    /\ InstallFail
    /\ jdkTask' = [j \in JdkInstall |-> IF jdkTask[j].status = "none" THEN jdkTask[j]
                                        ELSE [jdkTask[j] EXCEPT !.status = "lost"]]
    /\ jdkInstallMu' = NoInstall /\ uninstall' = [pc |-> "idle", of |-> NoInstall]
    /\ UNCHANGED <<jdkTmp, target, jdkFiles, uninstalls, installHistory>>

InstallsNext ==
    \/ FindJdk \/ OpenJdk \/ RemoveJdk \/ EndUninstall \/ LoseInstalls
    \/ \E j \in JdkInstall :
        \/ StartInstall(j) \/ LockInstall(j) \/ QueryRelease(j) \/ FetchArchive(j) \/ ExtractArchive(j)
        \/ ClearTarget(j) \/ PlaceJdk(j) \/ VerifyJava(j) \/ CleanInstall(j) \/ UnlockInstall(j)

InstallsSpec == InstallsInit /\ [][InstallsNext]_installVars

----------------------------------------------------------------------------
(* Properties                                                              *)

\* An installation that says it is done has its own JDK in place, with all its files,
\* until an uninstallation or an installation that came after it takes it away
\* (jdkInstallMu, jdk_install.go:33).
DoneIsInPlace ==
    \A j \in JdkInstall \ disturbed :
        jdkTask[j].status = "done" => target = j /\ jdkFiles = JdkFile

\* What was uninstalled does not stay, however an installation came between.
UninstalledIsGone == target \notin uninstalled

\* A task that has ended has left nothing under its temporary name.
EndsLeaveNoTemp ==
    installFails = 0 => \A j \in JdkInstall : JdkAt(j, "unlock") \/ JdkAt(j, "end") => jdkTmp[j] = {}

InstallsHold == DoneIsInPlace /\ UninstalledIsGone /\ EndsLeaveNoTemp

----------------------------------------------------------------------------
(* What a reader would expect and the code does not keep: the JDK that was *)
(* there is removed before the new one is in its place and looked at, so   *)
(* that an installation that fails then leaves none.                       *)

FailureKeepsOldJdk ==
    \A j \in JdkInstall :
        jdkTask[j].status = "error" /\ JdkAt(j, "clean") => jdkTask[j].opened \in {NoInstall, target}
=============================================================================
