---------------------------- MODULE InstanceList ----------------------------
(***************************************************************************)
(* How the list of instances reaches the disk: requests change it in       *)
(* memory and mark it dirty, Daemon.Save writes it as instances.json or as *)
(* an object of the vault, an unlock migrates the file into the vault and  *)
(* then replaces the list by the stored one, a shutdown saves it once more *)
(* and a crash loses the memory (daemon.go, instance.go, vault.go,         *)
(* vault_migrate.go, app_runtime.go).  The vault is enabled and            *)
(* initialised; at first its migration is still to be done.                *)
(*                                                                         *)
(* A list is the set of the changes made to it.  The store of VaultStore   *)
(* is reduced to the entry of systemInstancesPath in the index, in memory  *)
(* and in the index file.                                                  *)
(***************************************************************************)
EXTENDS Naturals

CONSTANTS
    Handler,     \* request handlers and watchers that may run at the same time
    Kinds,       \* what they do
    Faults,      \* "crash"; "write": a write to the disk may fail
    MaxChanges,  \* bound: changes made in one behaviour
    MaxUnlocks   \* bound: unlocks in one behaviour

SaveLoop == "saveLoop"
Main == "shutdown"
Unlocker == "unlock"

ASSUME ListConfigAssumption ==
    /\ Kinds \subseteq {"edit", "update", "start", "stop", "restart"}
    /\ Faults \subseteq {"crash", "write"}
    /\ MaxChanges \in Nat /\ MaxUnlocks \in Nat
    /\ Handler \cap {SaveLoop, Main, Unlocker} = {}

VARIABLES
    plain,      \* the list in instances.json, or NoFile
    indexFile,  \* the list the index file names, or NoFile
    doneFile,   \* migration.InstancesDone in vault.json
    list,       \* Daemon.Instances
    gen,        \* how often Daemon.Instances was replaced by new objects
    procs,      \* the generations of objects that hold a running process
    dirty,      \* Daemon.dirty
    phase,      \* of nodeRuntime.shutdown
    enc,        \* the list the index in memory names, or NoFile
    encDirty,   \* vaultStore.dirty
    dek,        \* vaultStore.indexDEK is set
    key,        \* vaultState.masterKey is set
    loading,    \* vaultState.loading
    done,       \* migration.InstancesDone in memory
    prior,      \* a session older than the unlock in progress exists
    pc,         \* per actor: the next critical section or disk step
    obj,        \* per handler: the generation of the object it holds
    snap,       \* per actor: the list a local variable holds
    made,       \* how many changes were made
    unlocks,    \* how many unlocks began
    acked,      \* history: changes whose request was answered since the boot
    saved,      \* history: changes in a list some Save has written
    exposed     \* history: the windows of the code that were hit

disks == <<plain, indexFile, doneFile>>
memory == <<list, gen, procs, dirty, phase>>
vault == <<enc, encDirty, dek, key, loading, done, prior>>
locals == <<obj, snap>>
history == <<made, unlocks, acked, saved, exposed>>
vars == <<plain, indexFile, doneFile, list, gen, procs, dirty, phase, enc,
          encDirty, dek, key, loading, done, prior, pc, obj, snap, made,
          unlocks, acked, saved, exposed>>

NoFile == {MaxChanges + 1}  \* no list has this change
Base == 0                   \* what the list held before the behaviour
Change == Base..MaxChanges
Saver == Handler \cup {SaveLoop, Main}
Actor == Saver \cup {Unlocker}
SaveLabel == {"active", "write", "flush", "locked", "plain"}
LoadLabel == {"unwrap", "reset", "readIndex", "install", "migrate", "mark",
              "unlink", "reload", "ready", "rollback"}
Phase == <<"up", "draining", "flushing", "stopping", "vault", "down">>

\* The type of every variable: nobody holds an object of a list that an unlock is
\* yet to build, and saves and loads are at their own labels.
TypeOK ==
    /\ {plain, indexFile, enc} \subseteq (SUBSET Change) \cup {NoFile}
    /\ list \subseteq Change
    /\ {dirty, encDirty, dek, key, loading, done, doneFile, prior} \subseteq BOOLEAN
    /\ gen \in 1..unlocks + 1
    /\ procs \subseteq 1..gen
    /\ phase \in {Phase[i] : i \in DOMAIN Phase}
    /\ \A h \in Handler : pc[h] \in {"idle", "snapshot", "marking"} \cup Kinds \cup SaveLabel
    /\ pc[SaveLoop] \in {"idle", "cas", "snapshot"} \cup SaveLabel
    /\ pc[Main] \in {"idle", "snapshot"} \cup SaveLabel
    /\ pc[Unlocker] \in {"idle"} \cup LoadLabel
    /\ obj \in [Handler -> 1..gen]
    /\ snap \in [Actor -> (SUBSET Change) \cup {NoFile}]
    /\ made \in 0..MaxChanges /\ unlocks \in 0..MaxUnlocks
    /\ acked \subseteq Change /\ saved \subseteq Change
    /\ exposed \subseteq {"reload", "migrate", "clear"}

\* The list the next boot and unlock will find.
Stored == IF doneFile THEN indexFile ELSE plain

\* What a file that may be missing holds.
Content(f) == IF f = NoFile THEN {} ELSE f

\* vaultActive and vaultLocked
Active == done /\ key
Locked == done /\ ~key

Init ==
    /\ plain = {Base} /\ indexFile = NoFile /\ doneFile = FALSE
    /\ list = {Base} /\ gen = 1 /\ procs = {} /\ dirty = FALSE /\ phase = "up"
    /\ enc = NoFile /\ encDirty = FALSE /\ dek = FALSE
    /\ key = FALSE /\ loading = FALSE /\ done = FALSE /\ prior = FALSE
    /\ pc = [a \in Actor |-> "idle"]
    /\ obj = [h \in Handler |-> 1]
    /\ snap = [a \in Actor |-> {}]
    /\ made = 0 /\ unlocks = 0
    /\ acked = {} /\ saved = {} /\ exposed = {}

Goto(a, l) == pc' = [pc EXCEPT ![a] = l]

\* A step that meets the unlock's reload of the index and of the list: a Save
\* or a change while it runs.
Loading == pc[Unlocker] \in {"reset", "readIndex", "install", "migrate", "mark", "unlink", "reload"}

Expose == exposed' = IF Loading THEN exposed \cup {"reload"} ELSE exposed

\* The index in memory is dropped, and the index file does not name the list
\* that vault.json says is migrated.
Strand(file) ==
    exposed' = IF doneFile /\ file = NoFile THEN exposed \cup {"migrate"} ELSE exposed

----------------------------------------------------------------------------
(* Requests.                                                               *)

\* vaultGate lets a request through; it looks its instance up.
Enter(h, k) ==
    /\ pc[h] = "idle" /\ phase = "up"
    /\ k \in Kinds \ {"restart"}
    /\ key /\ ~loading
    /\ obj' = [obj EXCEPT ![h] = gen]
    /\ Goto(h, k)
    /\ UNCHANGED <<disks, memory, vault, snap, history>>

\* A process exits and its watcher starts the same object again: autoRestart
\* asks for the key, not for the end of the load.
Restart(h, g) ==
    /\ pc[h] = "idle" /\ phase = "up"
    /\ "restart" \in Kinds
    /\ g \in procs
    /\ procs' = procs \ {g}
    /\ obj' = [obj EXCEPT ![h] = g]
    /\ IF key THEN Goto(h, "start") ELSE UNCHANGED pc
    /\ UNCHANGED <<disks, list, gen, dirty, phase, vault, snap, history>>

\* A change to an object is seen in the list if the list still holds it.
Changed(h) == IF obj[h] = gen THEN list \cup {made + 1} ELSE list

\* Add and Remove change the list itself, UpdateInstance an object; then the
\* handler has the flag to set.
Edit(h) ==
    /\ pc[h] \in {"edit", "update"}
    /\ made < MaxChanges
    /\ made' = made + 1
    /\ list' = IF pc[h] = "edit" THEN list \cup {made + 1} ELSE Changed(h)
    /\ snap' = [snap EXCEPT ![h] = {made + 1}]
    /\ exposed' = IF Loading \/ (pc[h] = "update" /\ obj[h] # gen)
                  THEN exposed \cup {"reload"} ELSE exposed
    /\ Goto(h, "marking")
    /\ UNCHANGED <<disks, gen, procs, dirty, phase, vault, obj, unlocks, acked, saved>>

\* A body that is not valid, or an instance that is not there.
Refuse(h) ==
    /\ pc[h] \in {"edit", "update"}
    /\ Goto(h, "idle")
    /\ UNCHANGED <<disks, memory, vault, locals, history>>

\* markDirty, and the answer.
FaultMarkForgotten(h) ==
    /\ pc[h] = "marking"
    /\ acked' = acked \cup snap[h]
    /\ snap' = [snap EXCEPT ![h] = {}]
    /\ Goto(h, "idle")
    /\ UNCHANGED <<disks, memory, vault, obj, made, unlocks, saved, exposed>>

MarkDirty(h) ==
    /\ pc[h] = "marking"
    /\ dirty' = TRUE
    /\ acked' = acked \cup snap[h]
    /\ snap' = [snap EXCEPT ![h] = {}]
    /\ Goto(h, "idle")
    /\ UNCHANGED <<disks, list, gen, procs, phase, vault, obj, made, unlocks, saved, exposed>>

\* startInstance publishes the process and counts the start in the object;
\* Save follows.  An object that has a process refuses; or the start fails.
Start(h) ==
    /\ pc[h] = "start"
    /\ \/ /\ obj[h] \notin procs /\ made < MaxChanges
          /\ procs' = procs \cup {obj[h]}
          /\ made' = made + 1
          /\ list' = Changed(h)
          /\ Goto(h, "snapshot")
          /\ Expose
       \/ /\ Goto(h, "idle")
          /\ UNCHANGED <<procs, made, list, exposed>>
    /\ UNCHANGED <<disks, gen, dirty, phase, vault, locals, unlocks, acked, saved>>

\* stopInstance: the process is gone; Save follows.
Stop(h) ==
    /\ pc[h] = "stop"
    /\ procs' = procs \ {obj[h]}
    /\ Goto(h, IF obj[h] \in procs THEN "snapshot" ELSE "idle")
    /\ UNCHANGED <<disks, list, gen, dirty, phase, vault, locals, history>>

----------------------------------------------------------------------------
(* FlushDirty and Save.                                                    *)

\* A tick of saveLoop that finds something to do; shutdown stops the loop.
\* FlushDirty returns while the vault is locked.
Tick ==
    /\ pc[SaveLoop] = "idle" /\ phase \in {"up", "draining"}
    /\ dirty /\ ~Locked
    /\ Goto(SaveLoop, "cas")
    /\ UNCHANGED <<disks, memory, vault, locals, history>>

\* dirty.CompareAndSwap(true, false)
CompareAndSwap ==
    /\ pc[SaveLoop] = "cas"
    /\ dirty' = FALSE
    /\ Goto(SaveLoop, IF dirty THEN "snapshot" ELSE "idle")
    /\ UNCHANGED <<disks, list, gen, procs, phase, vault, locals, history>>

\* What follows Save: FlushDirty sets the flag again after an error, a handler
\* ignores the error, the shutdown goes on with its next step.
Ok == TRUE
Return(a, ok) ==
    /\ Goto(a, "idle")
    /\ snap' = [snap EXCEPT ![a] = {}]
    /\ saved' = IF ok THEN saved \cup snap[a] ELSE saved
    /\ dirty' = (dirty \/ (~ok /\ (a = SaveLoop \/ (a = Main /\ phase = "flushing"))))
    /\ phase' = IF a # Main THEN phase
                ELSE IF phase = "flushing" THEN "stopping" ELSE "vault"

\* saveMu is taken and the list copied under Daemon.mu.
FaultSnapshotUnserialised(a) ==
    /\ pc[a] = "snapshot"
    /\ snap' = [snap EXCEPT ![a] = list]
    /\ Goto(a, "active")
    /\ UNCHANGED <<disks, memory, vault, obj, history>>

SaveSnapshot(a) ==
    /\ pc[a] = "snapshot"
    /\ \A b \in Saver : pc[b] \notin SaveLabel
    /\ snap' = [snap EXCEPT ![a] = list]
    /\ Goto(a, "active")
    /\ UNCHANGED <<disks, memory, vault, obj, history>>

SaveActive(a) ==
    /\ pc[a] = "active"
    /\ Goto(a, IF Active THEN "write" ELSE "locked")
    /\ UNCHANGED <<disks, memory, vault, locals, history>>

\* vaultStore.writeFile, refused without a key
SaveWrite(a) ==
    /\ pc[a] = "write"
    /\ \/ /\ key
          /\ enc' = snap[a] /\ encDirty' = TRUE
          /\ Goto(a, "flush")
          /\ Expose
          /\ UNCHANGED <<memory, snap, saved>>
       \/ /\ ~key \/ "write" \in Faults
          /\ Return(a, ~Ok)
          /\ UNCHANGED <<list, gen, procs, enc, encDirty, exposed>>
    /\ UNCHANGED <<disks, dek, key, loading, done, prior, obj, made, unlocks, acked>>

\* vaultStore.flush: an error without indexDEK
SaveFlush(a) ==
    /\ pc[a] = "flush"
    /\ \/ /\ dek
          /\ indexFile' = IF encDirty THEN enc ELSE indexFile
          /\ encDirty' = FALSE
          /\ Return(a, Ok)
          /\ Expose
       \/ /\ ~dek \/ "write" \in Faults
          /\ Return(a, ~Ok)
          /\ UNCHANGED <<indexFile, encDirty, exposed>>
    /\ UNCHANGED <<plain, doneFile, list, gen, procs, enc, dek, key, loading, done, prior,
                   obj, made, unlocks, acked>>

\* errVaultLockedPlaintext
SaveLocked(a) ==
    /\ pc[a] = "locked"
    /\ \/ Locked /\ Return(a, ~Ok)
       \/ ~Locked /\ Goto(a, "plain") /\ UNCHANGED <<snap, saved, dirty, phase>>
    /\ exposed' = IF Active THEN exposed \cup {"clear"} ELSE exposed
    /\ UNCHANGED <<disks, list, gen, procs, vault, obj, made, unlocks, acked>>

\* The temporary file is written, synced and renamed.
SavePlain(a) ==
    /\ pc[a] = "plain"
    /\ \/ plain' = snap[a] /\ Return(a, Ok)
       \/ "write" \in Faults /\ Return(a, ~Ok) /\ UNCHANGED plain
    /\ UNCHANGED <<indexFile, doneFile, list, gen, procs, vault, obj, made, unlocks, acked, exposed>>

\* vaultStore.flushLoop, whose errors are only logged
FlushLoop ==
    /\ encDirty /\ dek
    /\ phase \in {"up", "draining"}
    /\ indexFile' = enc
    /\ encDirty' = FALSE
    /\ UNCHANGED <<plain, doneFile, memory, enc, dek, key, loading, done, prior,
                   pc, locals, history>>
----------------------------------------------------------------------------
(* Locking and unlocking.                                                  *)

\* handleVaultLock, or the janitor when the last session has expired: flush,
\* then the keys go.  Daemon.dirty and the list stay.
Lock ==
    /\ key
    /\ phase \in {"up", "draining"}
    /\ pc[Unlocker] = "idle" \/ prior
    /\ \/ indexFile' = IF encDirty /\ dek THEN enc ELSE indexFile
       \/ "write" \in Faults /\ UNCHANGED indexFile
    /\ dek' = FALSE /\ encDirty' = FALSE /\ key' = FALSE /\ loading' = FALSE
    /\ prior' = FALSE
    /\ Strand(indexFile')
    /\ UNCHANGED <<plain, doneFile, memory, enc, done, pc, locals, made, unlocks, acked, saved>>

\* handleVaultUnlock, phase 1; a second unlock is served like the first.
Unlock ==
    /\ pc[Unlocker] = "idle" /\ phase = "up"
    /\ unlocks < MaxUnlocks
    /\ unlocks' = unlocks + 1
    /\ key' = TRUE /\ loading' = TRUE /\ prior' = key
    /\ Goto(Unlocker, "unwrap")
    /\ UNCHANGED <<disks, memory, enc, encDirty, dek, done, locals, made, acked, saved, exposed>>

\* vaultStore.load: the key slice of this unlock is zeroed by a lock.
LoadUnwrap ==
    /\ pc[Unlocker] = "unwrap"
    /\ Goto(Unlocker, IF key THEN "reset" ELSE "rollback")
    /\ UNCHANGED <<disks, memory, vault, locals, history>>

\* Changes that are in memory only, a Save on its way, or a handler that holds
\* an object of the old list meet the reload.
LoadReset ==
    /\ pc[Unlocker] = "reset"
    /\ dek' = TRUE /\ enc' = NoFile /\ encDirty' = FALSE
    /\ exposed' = IF \/ done /\ ~(list \subseteq Content(indexFile))
                     \/ \E a \in Saver : pc[a] # "idle"
                  THEN exposed \cup {"reload"} ELSE exposed
    /\ Goto(Unlocker, "readIndex")
    /\ UNCHANGED <<disks, memory, key, loading, done, prior, locals, made, unlocks, acked, saved>>

LoadRead ==
    /\ pc[Unlocker] = "readIndex"
    /\ snap' = [snap EXCEPT ![Unlocker] = indexFile]
    /\ Goto(Unlocker, "install")
    /\ UNCHANGED <<disks, memory, vault, obj, history>>

FaultInstallForgotten ==
    /\ pc[Unlocker] = "install"
    /\ snap' = [snap EXCEPT ![Unlocker] = {}]
    /\ Goto(Unlocker, "migrate")
    /\ UNCHANGED <<disks, memory, vault, obj, history>>

LoadInstall ==
    /\ pc[Unlocker] = "install"
    /\ enc' = snap[Unlocker] /\ encDirty' = FALSE
    /\ snap' = [snap EXCEPT ![Unlocker] = {}]
    /\ Goto(Unlocker, "migrate")
    /\ UNCHANGED <<disks, memory, dek, key, loading, done, prior, obj, history>>

\* migrateInstancesJSON: instances.json becomes an object unless there is one.
Migrate ==
    /\ pc[Unlocker] = "migrate"
    /\ \/ /\ done \/ enc # NoFile \/ plain = NoFile
          /\ Goto(Unlocker, IF done THEN "reload" ELSE "mark")
          /\ UNCHANGED <<enc, encDirty>>
       \/ /\ ~done /\ enc = NoFile /\ plain # NoFile
          /\ key
          /\ enc' = plain /\ encDirty' = TRUE
          /\ Goto(Unlocker, "mark")
       \/ /\ ~done /\ enc = NoFile /\ plain # NoFile
          /\ ~key \/ "write" \in Faults
          /\ Goto(Unlocker, "rollback")
          /\ UNCHANGED <<enc, encDirty>>
    /\ UNCHANGED <<disks, memory, dek, key, loading, done, prior, locals, history>>

\* markInstancesDone: the mark in memory stays when vault.json is not written.
MigrateMark ==
    /\ pc[Unlocker] = "mark"
    /\ done' = TRUE
    /\ \/ doneFile' = TRUE /\ Goto(Unlocker, "unlink")
       \/ "write" \in Faults /\ Goto(Unlocker, "rollback") /\ UNCHANGED doneFile
    /\ exposed' = IF doneFile' THEN exposed ELSE exposed \cup {"migrate"}
    /\ UNCHANGED <<plain, indexFile, memory, enc, encDirty, dek, key, loading, prior, locals,
                   made, unlocks, acked, saved>>

\* instances.json is deleted; an error is only logged.
MigrateUnlink ==
    /\ pc[Unlocker] = "unlink"
    /\ \/ plain' = NoFile
       \/ "write" \in Faults /\ UNCHANGED plain
    /\ Goto(Unlocker, "reload")
    /\ UNCHANGED <<indexFile, doneFile, memory, vault, locals, history>>

\* loadInstancesVault: new objects without processes; no object, or no key to
\* read it with, is an empty list.
FaultReloadRetries ==
    /\ pc[Unlocker] = "reload"
    /\ list' = IF key THEN Content(enc) ELSE {}
    /\ gen' = gen + 1
    /\ Goto(Unlocker, IF key THEN "ready" ELSE "reload")
    /\ UNCHANGED <<disks, procs, dirty, phase, vault, locals, history>>

ReloadList ==
    /\ pc[Unlocker] = "reload"
    /\ list' = IF key THEN Content(enc) ELSE {}
    /\ gen' = gen + 1
    /\ exposed' = IF ~key THEN exposed \cup {"reload"} ELSE exposed
    /\ Goto(Unlocker, "ready")
    /\ UNCHANGED <<disks, procs, dirty, phase, vault, locals, made, unlocks, acked, saved>>

UnlockReady ==
    /\ pc[Unlocker] = "ready"
    /\ loading' = FALSE
    /\ Goto(Unlocker, "idle")
    /\ UNCHANGED <<disks, memory, enc, encDirty, dek, key, done, prior, locals, history>>

\* postUnlockInit failed: the keys go without a flush.
UnlockRollback ==
    /\ pc[Unlocker] = "rollback"
    /\ key' = FALSE /\ loading' = FALSE /\ dek' = FALSE /\ encDirty' = FALSE
    /\ prior' = FALSE
    /\ Goto(Unlocker, "idle")
    /\ UNCHANGED <<disks, memory, enc, done, locals, history>>

----------------------------------------------------------------------------
(* Shutdown and crash.                                                     *)

\* The gates are sealed.
Shutdown ==
    /\ phase = "up"
    /\ phase' = "draining"
    /\ UNCHANGED <<disks, list, gen, procs, dirty, vault, pc, locals, history>>

\* Requests (an unlock is one) and starts have returned, then saveLoop and the
\* other workers; FlushDirty follows.
FaultFlushBeforeDrain ==
    /\ phase = "draining"
    /\ pc[SaveLoop] = "idle"
    /\ IF dirty /\ ~Locked
       THEN phase' = "flushing" /\ dirty' = FALSE /\ Goto(Main, "snapshot")
       ELSE phase' = "stopping" /\ UNCHANGED <<dirty, pc>>
    /\ UNCHANGED <<disks, list, gen, procs, vault, locals, history>>

ShutdownFlush ==
    /\ phase = "draining"
    /\ \A a \in Actor : pc[a] = "idle"
    /\ IF dirty /\ ~Locked
       THEN phase' = "flushing" /\ dirty' = FALSE /\ Goto(Main, "snapshot")
       ELSE phase' = "stopping" /\ UNCHANGED <<dirty, pc>>
    /\ UNCHANGED <<disks, list, gen, procs, vault, locals, history>>

\* stopAll stops the processes of the objects in the list and saves.
ShutdownStopAll ==
    /\ phase = "stopping" /\ pc[Main] = "idle"
    /\ procs' = procs \ {gen}
    /\ Goto(Main, "snapshot")
    /\ UNCHANGED <<disks, list, gen, dirty, phase, vault, locals, history>>

\* The last flush of an unlocked vault.
ShutdownVault ==
    /\ phase = "vault"
    /\ phase' = "down"
    /\ \/ indexFile' = IF key /\ dek /\ encDirty THEN enc ELSE indexFile
       \/ "write" \in Faults /\ UNCHANGED indexFile
    /\ UNCHANGED <<plain, doneFile, list, gen, procs, dirty, vault, pc, locals, history>>

\* The node dies, or has shut down, and boots: recoverOrphanProcesses ends its processes, Load
\* reads instances.json unless the list is in the vault.
Crash ==
    /\ "crash" \in Faults \/ phase = "down"
    /\ list' = IF doneFile THEN {} ELSE Content(plain)
    /\ gen' = 1 /\ procs' = {} /\ dirty' = FALSE /\ phase' = "up"
    /\ enc' = NoFile /\ encDirty' = FALSE /\ dek' = FALSE
    /\ key' = FALSE /\ loading' = FALSE /\ done' = doneFile /\ prior' = FALSE
    /\ pc' = [a \in Actor |-> "idle"]
    /\ obj' = [h \in Handler |-> 1]
    /\ snap' = [a \in Actor |-> {}]
    /\ acked' = {}
    /\ Strand(indexFile)
    /\ UNCHANGED <<disks, made, unlocks, saved>>

Request(h) ==
    \/ \E k \in Kinds : Enter(h, k)
    \/ \E g \in 1..MaxUnlocks + 1 : Restart(h, g)
    \/ Edit(h) \/ Refuse(h) \/ MarkDirty(h) \/ Start(h) \/ Stop(h)

Save(a) ==
    SaveSnapshot(a) \/ SaveActive(a) \/ SaveWrite(a) \/ SaveFlush(a)
        \/ SaveLocked(a) \/ SavePlain(a)

UnlockStep ==
    LoadUnwrap \/ LoadReset \/ LoadRead \/ LoadInstall \/ Migrate \/ MigrateMark
        \/ MigrateUnlink \/ ReloadList \/ UnlockReady \/ UnlockRollback

ShutdownStep == ShutdownFlush \/ ShutdownStopAll \/ ShutdownVault

Next ==
    \/ \E h \in Handler : Request(h)
    \/ Tick \/ CompareAndSwap
    \/ \E a \in Saver : Save(a)
    \/ FlushLoop \/ Lock \/ Unlock \/ UnlockStep
    \/ Shutdown \/ ShutdownStep \/ Crash

Spec == Init /\ [][Next]_vars

\* The runtime runs every goroutine, the ticker of saveLoop fires, a handler
\* returns; requests, locks and crashes need not come.
Fairness ==
    /\ \A h \in Handler : WF_vars(Edit(h) \/ Refuse(h) \/ MarkDirty(h) \/ Start(h) \/ Stop(h))
    /\ WF_vars(Tick) /\ WF_vars(CompareAndSwap)
    /\ \A a \in Saver : WF_vars(Save(a))
    /\ WF_vars(UnlockStep)
    /\ WF_vars(ShutdownStep)

FairSpec == Spec /\ Fairness

----------------------------------------------------------------------------
(* Properties.  "reload" in exposed: an unlock replaced the index and the   *)
(* list while one of them held changes the index file lacked, or while a   *)
(* Save or a change was on its way.  "migrate": the node crashed, or was    *)
(* locked with a failing flush, after vault.json said the list was migrated *)
(* and before the index file named it; or vault.json could not be written. *)
(* "clear": the vault was unlocked between the two checks of Save.         *)

\* The save in progress whose error sets the flag again will write c.
SavePending(a, c) == pc[a] = "snapshot" \/ (pc[a] \in SaveLabel /\ c \in snap[a])

\* Daemon.dirty covers every answered change: one that is not on the disk is
\* still flagged or is being written by a FlushDirty that flags it again if it
\* fails (markDirty, FlushDirty, Save), however changes, saves that bypass the
\* flag, locks, failures and crashes interleave.
DirtyCoversChanges ==
    exposed = {} => \A c \in acked :
        \/ c \in Content(Stored)
        \/ dirty
        \/ SavePending(SaveLoop, c)
        \/ phase = "flushing" /\ SavePending(Main, c)

\* What one Save has written no later Save, migration or crash takes back
\* (saveMu; the order object, mark, unlink of the migration).
SavedStaysSaved ==
    exposed = {} => saved \subseteq Content(Stored) \cup (IF encDirty THEN Content(enc) ELSE {})

\* An unlock that meets no unsaved change shows the list as it was: no answered
\* change is missing once the load is over (loadInstancesVault after
\* migrateInstancesJSON).
UnlockKeepsChanges ==
    exposed = {} /\ pc[Unlocker] = "idle" => acked \subseteq list

\* After a graceful shutdown the disk holds the list, whatever requests were in
\* flight when it began, unless the vault is locked (FlushDirty, stopAll, the
\* last flush).
ShutdownSaves ==
    phase = "down" /\ exposed = {} /\ "write" \notin Faults /\ ~Locked
        => Content(Stored) = list

\* An answered change reaches the disk if the vault is not locked first and
\* the node does not crash (saveLoop, or the shutdown).
ChangeReachesDisk ==
    \A c \in 1..MaxChanges :
        c \in acked ~> c \in Content(Stored) \/ Locked \/ exposed # {} \/ c \notin acked

----------------------------------------------------------------------------
(* What the code means to keep and does not, each formula named with the    *)
(* window that breaks it.                                                   *)

\* Save never writes the list in the clear once it is migrated (the checks of
\* vaultActive and vaultLocked in Save).  Broken by an unlock between the two
\* checks ("clear").
NoPlaintextAfterMigration ==
    [][doneFile /\ plain = NoFile => plain' = NoFile]_vars

\* A change that waits for a save while the vault is locked is saved after the
\* unlock: the list still has it when the unlock is over (FlushDirty keeps the
\* flag while vaultLocked).  Broken by the unlock itself, which replaces the list
\* before saveLoop runs ("reload").
ChangeSurvivesLock ==
    key /\ pc[Unlocker] = "idle" => acked \subseteq list

\* A migration that a crash interrupted is completed by the next unlock: the
\* instances are there (migrateInstancesJSON).  Broken by a crash after
\* instances.json is deleted and before the index is flushed ("migrate").
MigrationKeepsList ==
    key /\ pc[Unlocker] = "idle" => Base \in list

\* A running process belongs to an object of the list, so that the node can
\* stop it.  Broken by every unlock after a lock that met a running process:
\* loadInstancesVault makes new objects without Proc.
RunningIsManaged == pc[Unlocker] = "idle" => procs \subseteq {gen}

\* A shutdown of a locked vault has nothing left to write (stopAll).  Broken by a
\* change that was still dirty when the vault was locked.
LockedHasNothingToSave ==
    phase = "down" /\ Locked => acked \subseteq Content(indexFile)
============================================================================
