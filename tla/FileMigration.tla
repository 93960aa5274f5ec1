--------------------------- MODULE FileMigration ---------------------------
(***************************************************************************)
(* The migration of an instance's files into the vault (vault_migrate.go): *)
(* a goroutine walks the tree, encrypts file after file in the order of    *)
(* their names, writes the index and a cursor to the disk once in a batch, *)
(* then deletes the tree, marks the instance and writes the index again.   *)
(* It starts with every unlock, or by a request when it has failed, and    *)
(* goes on from the cursor.                                                *)
(*                                                                         *)
(* What VaultFiles shows in its steps is one step here: an unlock, a start *)
(* and a stop, each of which encrypts a tree that is there.  A file is the *)
(* number of the write that made it.                                       *)
(***************************************************************************)
EXTENDS Naturals, FiniteSets, FiniteSetsExt

CONSTANTS
    FileCount,    \* the files, 1..FileCount in the order of their names
    BatchSize,    \* indexFlushBatch
    MaxVersions,  \* bound of the writes
    MaxOpens,     \* bound of the unlocks
    MaxMoveFails  \* bound of the reads, removals and saves that fail

ASSUME MoveAssumption ==
    /\ {FileCount, MaxOpens, MaxMoveFails} \subseteq Nat
    /\ {BatchSize, MaxVersions} \subseteq Nat \ {0}

VARIABLES
    tree,       \* the working directory: file -> its write, 0 if it is not there
    index,      \* vaultStore.index
    indexFile,
    unlocked,   \* vaultState.masterKey is set
    step,       \* of the goroutine, "off" if vaultState.migrating is FALSE
    found,      \* its local variables: files,
    at,         \*   the first file that it has not come to,
    startPath,  \*   startPath, 0 for none,
    path,       \*   and cursor.Path
    cursor,     \* vaultState.migration.Cursor.Path, 0 for no cursor
    shared,     \* vaultState.migration.Cursor is the goroutine's local object
    filesDone,  \* vaultState.migration.FilesDone
    vaultJson,  \* what vault.json says of the two
    runs,       \* the process of the instance
    entered,    \* a start has passed vaultGate
    versions, opens, moveFails,
    newest,     \* history: file -> its last write
    claimed,    \* history: file -> what the index had of it when a cursor behind it was saved
    wiped,      \* history: a tree was deleted, and the index not written since
    hit         \* history: the windows that were hit

moveDisk == <<tree, indexFile, vaultJson>>
moveLocals == <<step, found, at, startPath, path>>
moveMemory == <<index, unlocked, cursor, shared, filesDone>>
moveWorld == <<runs, entered, versions, opens>>
moveHistory == <<newest, claimed, wiped, hit>>
moveVars == <<moveDisk, moveLocals, moveMemory, moveWorld, moveFails, moveHistory>>

Moved == 1..FileCount
Empty == [f \in Moved |-> 0]
InTree == {f \in Moved : tree[f] # 0}

MoveTypeOK ==
    /\ {tree, index, indexFile, newest, claimed} \subseteq [Moved -> 0..MaxVersions]
    /\ {unlocked, shared, filesDone, runs, entered, wiped} \subseteq BOOLEAN
    /\ step \in {"off", "walk", "file", "flush", "save", "wipe", "mark", "last"}
    /\ found \subseteq Moved /\ {at, startPath, path, cursor} \subseteq 0..(FileCount + 1)
    /\ vaultJson \in [cursor : 0..FileCount, done : BOOLEAN]
    /\ versions \in 0..MaxVersions /\ opens \in 0..MaxOpens /\ moveFails \in 0..MaxMoveFails
    /\ hit \subseteq {"crash", "cursor", "running", "saved", "reset", "unwritten"}

\* A node with a plain tree, whose vault was made and not yet opened.
MoveInit ==
    /\ tree = [f \in Moved |-> 1] /\ index = Empty /\ indexFile = Empty /\ unlocked = FALSE
    /\ step = "off" /\ found = {} /\ at = 1 /\ startPath = 0 /\ path = 0
    /\ cursor = 0 /\ shared = FALSE /\ filesDone = FALSE
    /\ vaultJson = [cursor |-> 0, done |-> FALSE]
    /\ runs = FALSE /\ entered = FALSE /\ versions = 1 /\ opens = 0 /\ moveFails = 0
    /\ newest = [f \in Moved |-> 1] /\ claimed = Empty /\ wiped = FALSE /\ hit = {}

MoveFails == moveFails < MaxMoveFails /\ moveFails' = moveFails + 1

\* The process, or a start, is at the tree as well.
Meet == hit' = IF runs \/ entered THEN hit \cup {"running"} ELSE hit

\* encryptBack of whatever is in the tree.
Encrypted(from) == [f \in Moved |-> IF tree[f] # 0 THEN tree[f] ELSE from[f]]

----------------------------------------------------------------------------
(* The goroutine                                                           *)

\* handleVaultMigrate, if a migration has failed before.
BeginMove ==
    /\ unlocked /\ step = "off" /\ ~filesDone
    /\ step' = "walk" /\ Meet
    /\ UNCHANGED <<moveDisk, found, at, startPath, path, moveMemory, moveWorld, moveFails, newest, claimed, wiped>>

\* Any step may fail and ends the goroutine; another try follows only on request, or
\* on the next unlock.
GiveUpMove ==
    /\ step \in {"walk", "file"} /\ MoveFails /\ step' = "off"
    /\ UNCHANGED <<moveDisk, found, at, startPath, path, moveMemory, moveWorld, moveHistory>>

\* The files are listed, and the cursor of a try that failed is taken up.
WalkTree ==
    /\ step = "walk"
    /\ found' = InTree /\ at' = 1 /\ startPath' = cursor /\ path' = cursor /\ shared' = (cursor # 0)
    /\ step' = "file"
    /\ UNCHANGED <<moveDisk, index, unlocked, cursor, filesDone, moveWorld, moveFails, moveHistory>>

Rest == {f \in found : f >= at}

\* A file before the cursor is not looked at.
SkipFile ==
    /\ step = "file" /\ Rest # {} /\ Min(Rest) < startPath
    /\ at' = Min(Rest) + 1
    /\ hit' = IF tree[Min(Rest)] \in {0, index[Min(Rest)]} THEN hit ELSE hit \cup {"cursor"}
    /\ UNCHANGED <<moveDisk, step, found, startPath, path, moveMemory, moveWorld, moveFails, newest, claimed, wiped>>

FaultKnowsByName(f) == tree[f] = 0 \/ index[f] # 0

\* A file that has gone, or whose entry has its size and time.
IsKnown(f) == tree[f] \in {0, index[f]}

\* Any other is encrypted, while the vault is open; the last of a batch is followed
\* by the index and the cursor.
MoveFile ==
    LET f == Min(Rest)
        ends == Cardinality({g \in found : g <= f}) % BatchSize = 0
    IN  /\ step = "file" /\ Rest # {} /\ f >= startPath
        /\ IF ~unlocked
           THEN step' = "off" /\ UNCHANGED <<at, startPath, path, index, cursor>>
           ELSE /\ at' = f + 1 /\ startPath' = 0
                /\ IF IsKnown(f) THEN UNCHANGED <<step, path, index, cursor>>
                   ELSE /\ index' = [index EXCEPT ![f] = tree[f]] /\ path' = f
                        /\ cursor' = IF shared THEN f ELSE cursor
                        /\ step' = IF ends THEN "flush" ELSE "file"
        /\ UNCHANGED <<moveDisk, found, unlocked, shared, filesDone, moveWorld, moveFails, moveHistory>>

FaultForgetsFlush ==
    /\ step = "flush" /\ step' = "save"
    /\ UNCHANGED <<moveDisk, wiped, found, at, startPath, path, moveMemory, moveWorld, moveFails, newest, claimed, hit>>

\* Without the key there is no index to write.
FlushBatch ==
    /\ step = "flush"
    /\ IF unlocked THEN step' = "save" /\ indexFile' = index /\ wiped' = FALSE
       ELSE step' = "off" /\ UNCHANGED <<indexFile, wiped>>
    /\ UNCHANGED <<tree, vaultJson, found, at, startPath, path, moveMemory, moveWorld, moveFails, newest, claimed, hit>>

\* vaultState.save: by the goroutine or by any handler.
Claims(p) == claimed' = [f \in Moved |-> IF f <= p /\ index[f] > claimed[f] THEN index[f] ELSE claimed[f]]
SaveCursor ==
    /\ step = "save" /\ cursor' = path /\ shared' = TRUE
    /\ \/ /\ step' = "file" /\ vaultJson' = [cursor |-> path, done |-> filesDone]
          /\ Claims(path) /\ UNCHANGED moveFails
       \/ MoveFails /\ step' = "off" /\ UNCHANGED <<vaultJson, claimed>>
    /\ UNCHANGED <<tree, indexFile, found, at, startPath, path, index, unlocked, filesDone, moveWorld, newest, wiped, hit>>

\* removePlainTree walks again and deletes what it can, whatever it is.
WipeTree ==
    /\ step = "file" /\ Rest = {} /\ step' = "mark" /\ wiped' = (wiped \/ InTree # {})
    /\ \/ tree' = Empty /\ UNCHANGED moveFails
       \/ MoveFails /\ \E f \in InTree : tree' = [Empty EXCEPT ![f] = tree[f]]
    /\ UNCHANGED <<indexFile, vaultJson, found, at, startPath, path, moveMemory, moveWorld, newest, claimed, hit>>

MarkMoved ==
    /\ step = "mark" /\ filesDone' = TRUE /\ cursor' = 0 /\ shared' = FALSE
    /\ \/ step' = "last" /\ vaultJson' = [cursor |-> 0, done |-> TRUE] /\ UNCHANGED moveFails
       \/ MoveFails /\ step' = "off" /\ UNCHANGED vaultJson
    /\ UNCHANGED <<tree, indexFile, found, at, startPath, path, index, unlocked, moveWorld, moveHistory>>

LastFlush ==
    /\ step = "last" /\ step' = "off"
    /\ \/ unlocked /\ indexFile' = index /\ wiped' = FALSE /\ UNCHANGED moveFails
       \/ ~unlocked /\ UNCHANGED <<indexFile, wiped, moveFails>>
       \/ MoveFails /\ UNCHANGED <<indexFile, wiped>>
    /\ UNCHANGED <<tree, vaultJson, found, at, startPath, path, moveMemory, moveWorld, newest, claimed, hit>>

----------------------------------------------------------------------------
(* The vault                                                               *)

\* A handler changes a user and saves: the cursor goes with it as it is by now.
SaveOther ==
    /\ unlocked /\ vaultJson # [cursor |-> cursor, done |-> filesDone]
    /\ vaultJson' = [cursor |-> cursor, done |-> filesDone] /\ Claims(cursor)
    /\ hit' = IF \E f \in 1..cursor : index[f] # indexFile[f] THEN hit \cup {"saved"} ELSE hit
    /\ UNCHANGED <<tree, indexFile, moveLocals, moveMemory, moveWorld, moveFails, newest, wiped>>

FlushTick ==
    /\ unlocked /\ index # indexFile /\ indexFile' = index /\ wiped' = FALSE
    /\ UNCHANGED <<tree, vaultJson, moveLocals, moveMemory, moveWorld, moveFails, newest, claimed, hit>>

\* Locking writes the index first; an error is only logged ("unwritten").
LockVault ==
    /\ unlocked /\ unlocked' = FALSE
    /\ \/ indexFile' = index /\ wiped' = FALSE /\ UNCHANGED <<moveFails, hit>>
       \/ /\ MoveFails /\ index # indexFile
          /\ hit' = (IF wiped \/ step # "off" THEN hit \cup {"unwritten"} ELSE hit)
          /\ UNCHANGED <<indexFile, wiped>>
    /\ UNCHANGED <<tree, vaultJson, moveLocals, index, cursor, shared, filesDone, moveWorld, newest, claimed>>

\* postUnlockInit loads the index, which an unlock of an open vault sets back to its
\* file ("reset"), encrypts and deletes a tree that is there, and starts the
\* migration, if it is not under way.
UnlockVault ==
    /\ opens < MaxOpens /\ opens' = opens + 1 /\ unlocked' = TRUE
    /\ index' = Encrypted(indexFile) /\ tree' = Empty /\ wiped' = (wiped \/ InTree # {})
    /\ hit' = hit \cup (IF runs \/ entered THEN {"running"} ELSE {})
                 \cup (IF unlocked /\ index # indexFile THEN {"reset"} ELSE {})
    /\ step' = IF step = "off" /\ ~filesDone THEN "walk" ELSE step
    /\ UNCHANGED <<indexFile, vaultJson, found, at, startPath, path, cursor, shared, filesDone,
                   runs, entered, versions, moveFails, newest, claimed>>

----------------------------------------------------------------------------
(* The instance                                                            *)

\* vaultGate refuses while the migration is under way, and neither what has passed
\* nor autoRestart, which asks for the key alone ("running").
EnterStart ==
    /\ unlocked /\ ~runs /\ ~entered /\ entered' = TRUE
    /\ hit' = IF step = "off" THEN hit ELSE hit \cup {"running"}
    /\ UNCHANGED <<moveDisk, moveLocals, moveMemory, runs, versions, opens, moveFails, newest, claimed, wiped>>
\* A locked vault refuses every request.
RefuseRequest == ~unlocked /\ UNCHANGED moveVars
\* vaultMaterialize: what is in the tree is encrypted first.
StartInTree ==
    /\ entered /\ entered' = FALSE
    /\ IF unlocked THEN index' = Encrypted(index) /\ tree' = Encrypted(index) /\ runs' = TRUE
       ELSE UNCHANGED <<index, tree, runs>>
    /\ UNCHANGED <<indexFile, vaultJson, moveLocals, unlocked, cursor, shared, filesDone, versions, opens,
                   moveFails, moveHistory>>
\* vaultRecycle, which a stop runs while the vault is open.
StopAndRecycle ==
    /\ runs /\ unlocked /\ step = "off" /\ runs' = FALSE
    /\ index' = Encrypted(index) /\ tree' = Empty /\ wiped' = TRUE
    /\ UNCHANGED <<indexFile, vaultJson, moveLocals, unlocked, cursor, shared, filesDone, entered, versions, opens,
                   moveFails, newest, claimed, hit>>
\* A kill, or an exit, leaves the tree.
EndInTree ==
    /\ runs /\ runs' = FALSE
    /\ UNCHANGED <<moveDisk, moveLocals, moveMemory, entered, versions, opens, moveFails, moveHistory>>
WriteInTree(f) ==
    /\ runs /\ versions < MaxVersions /\ versions' = versions + 1
    /\ tree' = [tree EXCEPT ![f] = versions + 1] /\ newest' = [newest EXCEPT ![f] = versions + 1]
    /\ UNCHANGED <<indexFile, vaultJson, moveLocals, moveMemory, runs, entered, opens, moveFails,
                   claimed, wiped, hit>>

\* The node dies, and its processes.
CrashMove ==
    /\ opens < MaxOpens /\ unlocked
    /\ unlocked' = FALSE /\ index' = Empty /\ step' = "off" /\ runs' = FALSE /\ entered' = FALSE
    /\ found' = {} /\ at' = 1 /\ startPath' = 0 /\ path' = 0
    /\ cursor' = vaultJson.cursor /\ shared' = FALSE /\ filesDone' = vaultJson.done
    /\ hit' = IF wiped THEN hit \cup {"crash"} ELSE hit
    /\ UNCHANGED <<moveDisk, versions, opens, moveFails, newest, claimed, wiped>>

MoveNext ==
    \/ BeginMove \/ GiveUpMove \/ WalkTree \/ SkipFile \/ MoveFile \/ FlushBatch \/ SaveCursor
    \/ WipeTree \/ MarkMoved \/ LastFlush
    \/ SaveOther \/ FlushTick \/ LockVault \/ UnlockVault
    \/ EnterStart \/ RefuseRequest \/ StartInTree \/ StopAndRecycle \/ EndInTree \/ (\E f \in Moved : WriteInTree(f))
    \/ CrashMove

MoveSpec == MoveInit /\ [][MoveNext]_moveVars

----------------------------------------------------------------------------
(* Properties.  The windows: "crash", after a tree was deleted and before  *)
(* the index is written; "unwritten", a lock that cannot write the index   *)
(* then, or while the migration is under way; "reset", an unlock of an     *)
(* open vault while the index file is behind; "cursor", a file before the  *)
(* cursor has changed since an earlier try; "running", the process is at   *)
(* the tree; "saved", a handler has saved the cursor before the index.     *)

\* The last write of every file is in the tree or in the vault, through tries that
\* fail anywhere, locks in between and crashes (migrateOneInstance compares what it
\* skips with the index, encrypts the rest, and only then deletes).
FilesAreSomewhere ==
    hit \subseteq {"saved"} =>
        \A f \in Moved : newest[f] \in {tree[f], IF unlocked THEN index[f] ELSE indexFile[f]}

\* A cursor is saved after the index: what lies before it is in the index file.
CursorIsFlushed == hit \subseteq {"crash"} => \A f \in Moved : indexFile[f] >= claimed[f]

MigrationHolds == FilesAreSomewhere /\ CursorIsFlushed

----------------------------------------------------------------------------
(* What the code means to keep and does not: the head of vault_migrate.go  *)
(* has the index written before the plain files are deleted, and calls a   *)
(* try that is taken up again idempotent.                                  *)

WipeSurvivesCrash == hit \subseteq {"crash"} =>
    \A f \in Moved : newest[f] \in {tree[f], IF unlocked THEN index[f] ELSE indexFile[f]}
RetryIsIdempotent == hit \subseteq {"cursor"} =>
    \A f \in Moved : newest[f] \in {tree[f], IF unlocked THEN index[f] ELSE indexFile[f]}
=============================================================================
