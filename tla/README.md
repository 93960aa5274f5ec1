# IriX node: TLA+ specifications

IriX node (`src/`) is a daemon written in Go that runs game servers and other
programs as *instances* on one machine and offers an HTTP API to a panel. It
starts and stops their processes, keeps their list and their files on disk,
in the clear or in an encrypted *vault*, and checks accounts and sessions.

The modules here model the parts of it in which several goroutines, a crash or
a failing call decide whether the result is right. TLC checks them on small
instances; for most of them TLAPS proves what matters most for every number of
clients, files, sessions and processes (section 4).

Paths below are relative to `src/cmd/irix-node/` unless they begin with `src/`.

## 1. Inventory

### The system

One process. `main.go` reads the configuration and builds a `nodeRuntime`
(`app_runtime.go`), which listens, starts the background goroutines and serves
requests. Every request passes through middleware (panic recovery, CORS, audit,
authentication, permissions, the vault gate) into a handler, which runs in its
own goroutine and works on the shared `Daemon` (`daemon.go`).

Goroutines that live longer than a request: one exit watcher for each started
process, the autostart goroutine of the boot, `saveLoop` (list), `flushLoop` and
the expiry janitor (vault), the load tuner, cleaners of tasks, tickets and
sessions, the log writers, and the tasks that requests leave behind (backup,
download, transfer).

Mutexes: `Daemon.saveMu`, `Daemon.mu`, `Instance.mu`, `vaultState.mu`,
`vaultStore.mu` nest; every other one is held alone.

### Components

| Component | Source | State | Operations | Talks to | What makes it hard | What makes it right |
| --- | --- | --- | --- | --- | --- | --- |
| instance lifecycle | `instance.go`, `daemon.go`, `process.go`, `process_records.go`, `daemon_lifecycle.go`, `app_runtime.go` | `Status`, `Proc`, `Busy` of an instance, its process, its record file, the gates of requests and starts | start, stop, restart, kill, delete, exit watcher with auto-restart, autostart, recovery of orphans, shutdown | the list (saves), the vault (materialise, recycle) | operations overlap wherever the lock is released; the process exits at any time; Kill fails | one process at a time; every published process watched; a stop is not taken for a crash; a shutdown leaves nothing |
| instance list | `daemon.go`, `vault_migrate.go`, `vault.go`, `app_runtime.go` | `Instances`, `dirty`, `instances.json`, its vault object | edits, `markDirty`, `saveLoop`, `Save`, migration, reload at unlock, save at shutdown | vault store, lifecycle | flag and snapshot, two savers, an unlock that replaces the list, crashes | an answered change reaches the disk; a saved one stays |
| vault store | `vault_store.go`, `vault.go`, `vault_handlers.go` | objects on disk, index in memory and on disk, deferred deletions, keys, sessions | read, write, remove, move, mkdir, flush, load, sweep, lock, expiry, unlock | list, files, file API | the index on disk is behind the one in memory; deletions before or after it; crashes | what the index names exists; an object has one name |
| materialised files | `vault.go`, `vault_store.go`, `instance.go`, `files.go` | the working directory and the vault, as two copies of a tree | materialise, recycle, residue after a crash, edits on either side | lifecycle, vault store | which side is current; partial failures; time stamps in seconds | the last write is never lost; the process sees it; no plaintext after a stop |
| accounts and sessions | `accounts.go`, `accounts_handlers.go` | sessions in SQL, Redis and memory; accounts | login, lookup, renewal, logout, password, reset, delete | every handler | three tiers without a transaction; Redis fails | what was revoked is refused; what was not is served |
| endpoint permissions | `accounts.go`, `perm_catalog.go` | permission rows, same tiers | read, partial and full change | middleware | stale read written back | a change is not undone |
| login limiter | `accounts.go` | counters and locks per key | allow, fail, success, eviction | login | eviction at the limit | a locked key stays locked |
| vault accounts and unlock protocol | `vault_handlers.go`, `vault.go` | users, challenges, recovery, limiter | setup, two-step unlock, users, rekey, recovery | vault store | challenge used once; users changed while unlocking | only who proves all factors unlocks |
| file migration into the vault | `vault_migrate.go` | one tree in two places, marks | encrypt all, verify, delete; and back | vault store, files | crash at each step | no file in neither place |
| file API | `files.go` | files of an instance | list, read, write, copy, move, delete, zip | vault files, tickets | path checks, mode of an encrypted instance | nothing outside the directory |
| recycle bin | `trash.go` | `.irix-trash` and its metadata file | trash, list, restore, empty | file API | files move one by one before the list is saved; the instance and the file API work on the same tree | what is in the bin can be restored |
| backup | `backup.go` | archives, tasks | snapshot, restore, list, delete | lifecycle, tasks | stop then unpack, partial unpack | no restore over a running process |
| tasks and tickets | `jobs.go`, `download.go` | maps with expiry and a maximum | create, update, get, cleanup | downloads, backups, installs | eviction of what is in use | a valid ticket works until it expires |
| FRP tunnels | `frp.go` | tunnels, their processes, `tunnels.json` | create, start, stop, delete, exit | processes | check then start without a lock; late exit callbacks | one process per tunnel |
| cluster | `cluster.go` | mirrors, transfers, peers | file operations in the mirror, transfer from a peer | remote nodes, tickets | remote failure, late answers | a finished transfer is complete |
| containers | `container*.go` | jobs, sessions in jails and their records; fstab, forwards and `jail.conf` of a jail; archives | create, run, mount, forward, build, zip, export, import; recovery of sessions at start | `docker`, `bastille`, tasks | state of the host, which nobody locks and others change; commands that fail half-way; restarts | what runs is known; a change of one entry leaves the others; an answered archive is whole |
| console and web socket | `console_ws.go`, `websocket.go` | one connection | attach, input, output | lifecycle (stdin, log buffer) | slow clients | a slow client blocks nobody |
| logging and audit | `logger.go`, `audit.go` | bounded queues, rotated files | write, rotate, clear, close | everything | close against write, full queues | writers never block |
| import, logs, metrics, statistics | `instance_import.go`, `instance_logs.go`, `instance_metrics.go`, `instance_stats.go`, `overview.go` | samples | queries | lifecycle, system | – | – |
| installs | `jdk_install.go`, `core_download.go`, `runtime.go` | directories of JDKs, files of instances | download, verify, extract, rename, remove | tasks | failures at each step, two at a time | no half file under the final name |
| plugins | `plugins.go` | – | a query of the jars | – | – | – |
| load tuner | `loadtuner.go` | idle/normal/busy | sample, switch | Go runtime | – | switches after repeated samples only |
| start-up and middleware | `main.go`, `config.go`, `auth.go`, `cors.go`, `httpidle.go`, `recover.go`, `embedded.go` | configuration | – | everything | – | – |
| platform | `src/internal/platform`, `src/internal/sysinfo` | – | system calls | everything | – | – |
| cryptography | `src/internal/vaultcrypto` | – | seal, derive, TOTP | vault | – | – |

`PROJECT.json` lists the same components with what is modelled of each, and
under `hazards` every place in the code a test would hardly reach, with the
properties that watch it.

## 2. Modules

| Module | Models | Composes |
| --- | --- | --- |
| `InstanceLifecycle` | one instance, its processes, watchers, autostart and the shutdown | refines `ProcessSlot` |
| `ProcessSlot` | what the node promises of the processes of an instance (abstract) | – |
| `InstanceLifecycleProofs` | the theorems about `InstanceLifecycle` and `FileLogger` | extends both |
| `VaultStore` | objects, index, flush, load, lock, unlock, crash | – |
| `VaultStoreProofs` | the theorems about `VaultStore` | extends it |
| `InstanceList` | the list, its saves, the migration, unlock and shutdown | the list's entry of the store |
| `InstanceListProofs` | the theorems about `InstanceList` | extends it |
| `VaultFiles` | the two copies of an instance's files | the index of the store, the operations of the lifecycle that touch files |
| `VaultFilesProofs` | the theorems about `VaultFiles` and `FileMigration`, and about the two together | extends `MCVaultFiles` |
| `LockOrder` | the nesting of the five mutexes in every operation that nests them | operations of daemon, list and vault |
| `HostProofs` | the theorems about `LockOrder`, `FrpTunnels`, `JailSessions`, `JailConfig`, `ContainerArchives`, `ContainerJobs` and their composition | extends `MCContainers` and `FrpTunnels` |
| `AccountSessions` | the sessions of one account over three tiers | – |
| `AccountSessionsProofs` | the theorems about `AccountSessions` | extends it |
| `FileMigration` | the first encryption of an instance's tree | the vault and the instance, each operation one step |
| `AccountPermissions` | the endpoint permissions of one account over three tiers | – |
| `LoginLimiter` | the table of failed logins and its locks | – |
| `VaultAccounts` | users, sessions, tokens and keys of the vault | – |
| `CredentialsProofs` | the theorems about the three modules above and their composition | extends `MCCredentials` |
| `JailSessions` | long tasks in a jail, their records, recovery and watchdog | – |
| `JailConfig` | fstab, forwards and `jail.conf` of one jail | – |
| `ContainerJobs` | builds and other long jobs, with their logs | – |
| `ContainerArchives` | archives, exports, imports and clones | – |
| `Trash` | the recycle bin of one instance | – |
| `InstanceBackups` | backup and restore of one instance | starts, stops and the removal of the instance |
| `FrpTunnels` | tunnels, their processes and `tunnels.json` | – |
| `TaskTable` | the table of background tasks | – |
| `TransferTickets` | tickets and uploads | the sealing of an instance's files |
| `JdkInstalls`, `CoreDownloads` | installation of JDKs, download of server programs | – |
| `ClusterPulls` | the transfer from another node | – |
| `FileLogger` | one log: queue, rotation, clear, close | the pipe of the process that writes to it |
| `ServicesProofs` | the theorems about `Trash`, `InstanceBackups`, `TransferTickets`, `TaskTable`, `JdkInstalls`, `CoreDownloads`, `ClusterPulls` and their part of `MCServices` | extends `MCServices` |
| `MC…` | constants, symmetry and bounds for TLC | see below |

`MCVaultFiles`, `MCCredentials`, `MCContainers`, `MCServices` and `MCListLive`
each bring several modules into one run. Where these share no state, the
composition has every behaviour of one beside every behaviour of the other and
nothing new: a variable `part` picks the module at the start, and the behaviour
follows it alone. `MCListLive` states the fairness of both of its parts.

Conventions. One action is one critical section, one blocking call or one step
on the disk: the places where another goroutine can come between. `pc` says what
an actor does next; labels are named for the code at that point. Data is what
the properties tell apart: a process is its generation, an object its id, a
list the set of changes made to it, a file the number of the write that made
it, a session its expiry. Every bound is a constant named `Max…`; every failure
that the environment may inject is named in `Faults` or `Ops`. A definition
whose name begins with `Fault` is a plausible mistake in the code, used to show
that a property notices it; nothing in the specifications uses it.

**Named windows.** Several guarantees of the code hold except in a short time
window that the code leaves open. A history variable (`bypass`, `exposed`,
`raced`, `hit`, ...) records that a behaviour hit one, the property says
what holds otherwise, and the last section of each module states the stronger
claim that the window breaks. That way the exact price of each window is part
of the specification, and a change that closes one can be checked by deleting
it. The variable never guards an action, so it leaves the behaviours alone.

### InstanceLifecycle and ProcessSlot

| State | Code |
| --- | --- |
| `status`, `proc`, `busy` | `Instance.Status`, `.Proc`, `.Busy` (daemon.go) |
| `pstate[p]` | the process of generation p: not spawned, running, `done` closed |
| `record` | the file of `process_records.go` |
| `gate`, labels of `Main` | `processStarts`, `httpRequests` (daemon_lifecycle.go), `nodeRuntime.shutdown` |
| `pc`, `mine`, `restarting` | where a goroutine is, its local `proc`, the tail of a restart |

`Start…` is `startInstance`, `Stop…` is `stopInstance`, `Kill…`
`handleInstanceKill`, `Remove…` `Daemon.Remove`, `Watch…` `attachExitWatcher`
with `autoRestart`, `Shutdown…`/`StopAll…` `nodeRuntime.shutdown`. A process may
exit at every step. Whether an exit within ten seconds of a start is restarted
is a free choice. `bypass` becomes true when `Busy = false` ends somebody
else's section (the deferred clear of `startInstance`, line 733, after the
explicit one at 774), when a kill, which ignores `Busy`, detaches a process that
runs, and when a process that could not be recorded cannot be killed either.

Not kept by the code: `BusyExclusion` (the deferred clear), `StatusAgrees` (a
kill that overlaps a start), `DeletedHasNoProcess` (a delete that overlaps a
start).

`recoverOrphanProcesses` runs alone at the next boot; it trusts the record file,
and `ForgetOnlyDead` is what makes that file trustworthy.

### VaultStore

`objs` and `disk` are the directory of objects and the index file; `index`,
`dirty`, `pendingDel`, `dek` are fields of `vaultStore`; `master`, `loading`,
`sessions` of `vaultState`. `master` names the unlock whose key slice is
installed and `zeroed` the slices a lock has cleared, because a second unlock
shares the store with the first one. A write seals an object under a fresh id,
exchanges the entry, and defers the deletion of the old object to the next
flush; remove deletes its objects at once; move rewrites every entry under the
source, one of a directory into its own subtree included (`Carried`); load resets
the index, reads the file and installs it; the sweep compares the directory with
the index. An unlock that fails takes back the session and the master key under
one lock and the keys of the store under another (`UnlockRollback`,
`RollbackZeroKeys`). A crash keeps `objs` and `disk`.

Windows: `"remove"` (an object deleted while the index file names it),
`"reload"` (an index operation while an unlock loads), `"overlap"` (two unlocks
at once). Not kept: `DiskIndexIntact`, `OverlappingUnlocksIntact`,
`MoveKeepsFiles`.

### InstanceList

The list is the set of changes made to it, so that "saved" is inclusion. `Save`
is followed from the snapshot through its two looks at the vault
(`vaultActive`, `vaultLocked`) to the file or to the object and the index. An
unlock migrates `instances.json` if `vault.json` does not say it did, and then
replaces the list by new objects. Handlers that found an object before keep it.

Windows: `"reload"`, `"migrate"`, `"clear"`, described above the properties.
Not kept: `NoPlaintextAfterMigration`, `ChangeSurvivesLock`,
`MigrationKeepsList`, `RunningIsManaged`, `LockedHasNothingToSave`.

### VaultFiles

A file is the number of the write that made it, with its time stamp, once in the
working directory (`plain`) and once in the index (`enc`, `encFile`). A start
first encrypts a residue, then decrypts; a stop encrypts and deletes file by
file, and `"fail"` makes one file fail in the middle. The edits of the file API
choose their side by the status they read first. An unlock of a vault that is open
is served as any other: it resets the index to its file and sweeps. A request to
start is held back by the gate of the vault while it loads; a restart by the
watcher is not, because `autoRestart` looks at `unlockedSafe` alone.

Windows: `"crash"`, `"double"`, `"running"`, `"second"`, `"reset"` (an unlock of an
open vault while the index file is behind), `"overtaken"` (an unlock during a start,
a stop or an edit, or a restart by the watcher during an unlock). Not kept:
`EditNotOverwritten`, `RunningKeepsTree`, `RecycleSurvivesCrash`,
`UnlockAgainKeepsFiles`, `ChangedIsEncrypted`.

### LockOrder

An operation is the sequence of its `Lock`, `RLock` and `Unlock` calls on its
longest path. A `RWMutex` is locked in two steps, as in Go: the writer announces
itself, which stops new readers, and waits for the old ones. `NoCircularWait`
says that no set of goroutines waits in a circle. `listDir`, which reads a
lock it already holds for reading, does, and is kept out of the run (section 3).

### AccountSessions

`sql`, `redis`, `cache` hold an expiry for each session, `usess` is the index of
sessions that Redis keeps for the account. `authenticate` asks cache, Redis and
SQL in that order and fills what it missed; in the last half of its life a
session is renewed. A revocation deletes the rows, reads the index, and deletes
tier by tier; the password is written before that, in a step of its own. After a
failure Redis is left alone until it is tried again. A statement of SQL may fail:
the code does not look at the result of an INSERT or a DELETE, and takes a query
that fails for a session that is not there.

Windows: `exposed` (Redis failed or was skipped since the session was made, the
DELETE of its row failed, or a request held the session while it was taken out)
and `raced` (the clock moved while a request held a session that expires, or a
statement that was to write or read its row failed). What the code leaves there:
the backfill of Redis does not enter the session into the index, so a later
revocation does not find it; `delSession` returns early when Redis fails, and
the process cache keeps the session; a row that was not deleted serves a session
after its logout was answered. Not kept by the code, though a document says it:
`PasswordKeepsSessions`.

### FileMigration

`tree`, `index`, `indexFile` are the plain directory and the two indexes;
`cursor`, `shared`, `filesDone`, `vaultJson` the migration record in memory and
on disk (`shared`: the record in memory is the goroutine's own object, so that a
handler that saves `vault.json` saves the cursor as it is by now). The goroutine
is `step` with its locals: `WalkTree`, `SkipFile`, `MoveFile`, `FlushBatch`,
`SaveCursor`, `WipeTree`, `MarkMoved`, `LastFlush` are the stations of
`migrateOneInstance`. An unlock, a start and a stop encrypt whatever is in the
tree, as in `VaultFiles`, in one step. A second unlock, which may come while the
migration is under way, puts the index back to its file behind the cursor.

Windows: `"crash"` (a tree is deleted and the index not written), `"unwritten"` (a
lock that cannot write the index then), `"reset"` (an unlock of an open vault while
the index file is behind), `"cursor"` (a
file before the cursor has changed), `"running"` (a process or a start that had
passed the gate is at the tree), `"saved"` (a handler saves the cursor before
the index is written). `CursorIsFlushed` excepts all of them but `"crash"`: where
the tree and the index have parted, a lock and an unlock between two batches can
seal what the saved cursor has passed in another form. Not kept:
`WipeSurvivesCrash`, `RetryIsIdempotent`.

### AccountPermissions and LoginLimiter

The permissions are a set of endpoints in the row, in Redis and in the cache,
the copies with the ticks they still live. `permReq` is where a request is in
`loadPermissions`, `setPermissions` and what it has loaded. A change loads,
changes the copy and writes the whole column. The history says what the column
would be if each change had touched its endpoints only (`intended`) and how long
ago each set was the column (`age`), so that staleness has a bound even where
loads and changes overlap. A query that fails caches an account with no
permissions, which the next partial change writes back. Windows: a load and a write
at the same time, a Redis that keeps what it was told to delete, a load whose query
fails. Not kept: `TighteningIsImmediate`, `ChangesTouchOnlyTheirs`.

The limiter is the table itself: key -> age of the window, failures, rest of the
lock. Asking, counting and clearing are three critical sections, so that logins
that have asked before a lock still count. Windows: `crossed`. Not kept:
`TableWithinMaxKeys`, `LocksLastThroughout`.

### VaultAccounts

Each handler is one step under `vaultState.mu`, but an unlock, which releases it
to load the store (`phase2`). Keys are the unlock they came from; users of one
name and passwords are told apart by numbers. A write of `vault.json` may fail,
a restart forgets all but that file. A session carries the number of the password
it was opened with (`pw`). A change of the password that the user asks for ends the
older ones; one that an unlock forces leaves them, so `PasswordsEndSessions` is
about the former (`since`). TOTP is verified locked or unlocked. `leaked`, `lapsed`, `stuck`, `unsaved` are
the windows: a lock while an unlock loads, a token that outlives its user, an
unlock that could not save a forced change, an answer that says a save failed.
Not kept: `LocksLeaveNoKeys`, `TokensFollowUsers`, `SessionsFindItUnlocked`,
`AnyChangeEndsSessions`.

### Containers

`JailSessions`: a session is the command line whose exit the node waits for and
the command in the jail, which enters the jail some time after the command line has
begun, and may outlive it; `disk` is its record, `named` the
kernel id of the jail it was started in. A crash may come between every two
steps of a start; the next start recovers each record. Not kept:
`SessionsWithinMaximum`.

`JailConfig`: requests read, change and write back a file each, or run a
command for an entry. Every read and write may fail, with what the code makes of it:
a dropped error, a file half written, a list that counts as empty; and the node may
stop at each step. Windows: `clashed` (two requests at one file at the same time,
which nothing excludes) and `torn` (a file that could not be read or written, or at
which the node stopped half-way). A command of `bastille` that fails, by contrast, must
leave what was promised. Not kept: `RemovalIsHonest`,
`MountPointsStay`.

`ContainerJobs`: a job's lines arrive in chunks and are kept up to a maximum; the
last line of a failure is the node's own. Not kept: `RefusedOnlyWhenBusy`,
`NobodyIsStuck`.

`ContainerArchives`: names point to inodes, and an inode's content is the set of
requests that have written to it, so that a torn or mixed archive is told from a
whole one. A name with `.tmp` may be asked for like any other, and an export, an
import or a clone that the node has left behind goes on by itself (`OrphanEnds`, at
most `MaxEndings`). Not kept: `ZippedIsWhole`, `AnsweredStays`.

### The services

`Trash`: `tree`, `bin`, `list`; a request holds `trashMu` from the reading of the
list to its writing and moves its targets one by one, and each may fail. A list that
cannot be read counts as empty (`BeginUnread`). Windows: an early return, a removal
that fails, a deletion inside the bin, a list that could not be read. Not kept:
`BinIsListed`.

`InstanceBackups`: archives are named by the second; a restore stops the
instance, claims it and unzips file by file. Windows: `slipped` (a start
between the stop of the restore and its claim, a claim over another's, and the
second release of a start while another request has `Busy`, which it takes away),
`doubled` (two backups in one second, a directory that cannot be written, a file
that could not be looked at and is left out). Not kept: `NoStartDuringRestore`.

`FrpTunnels`: a tunnel's fields under their lock, its process outside of it; the
list is written as it is when it is written, whoever asks, and counts as empty if it
cannot be read at a start. Windows: two requests
at one tunnel, a deletion that cannot kill, a crash. Not kept:
`OneFrpcPerTunnel`, `DeletedStayStopped`.

`TaskTable` and `TransferTickets`: maps with a time, a maximum and a cleaner. A
task goes on when its entry is gone, and reports to nobody. A request looks at the
mode of the files, makes the directory and issues the ticket in separate steps
(`AdmitTicket`, `IssueTicket`), so that the files may be sealed in between; writers
that need no ticket (downloads of cores, restores) are `PutOther`. Not kept:
`ResultsStayForTTL`, `SealedHasNoPlain`.

`JdkInstalls` and `CoreDownloads`: one action per step that may fail and before
which the node may crash; installations take turns, removals do not wait for
them. Not kept: `FailureKeepsOldJdk`.

`ClusterPulls`: a pull is a snapshot at the peer, polls, a ticket, a download and
an extraction; the peer may be slow for ever, which the deadline ends. Deletions and
uploads work in the same mirror; a pull that met one, or another pull, is in the
window `mixed`. The archive may stay behind after a pull that is done. Not kept:
`EndedLeavesNoZip`, `FailedLeavesMirror`.

`FileLogger`: a line is its number. It goes through the pipe of the process, the
queue, the buffer, the file and the rotated files; `accounted` are lines the
logger may lose: dropped at a full queue, cleared, rotated away, or lost with a
write, a flush or an archive that failed and of which nobody is told. There is no
rotation by time: every logger is made by `newFileLogger`, with an interval of
zero. Window of `ClearedIsGone`: `spoilt` (a clear that comes to a logger that
stops, or that no request sees, or that cannot remove a file and answers OK). Not
kept: `OutputReachesLog`, `FileIsBounded`, `AnsweredClearIsKept`,
`FiveFilesAreKept`.

## 3. Runs

TLC explores every instance below to the end. A bound is a constant of the `.cfg`.

| Run | Question | Bounds, and why they are enough |
| --- | --- | --- |
| `lifecycle_safety` | Do overlapping restarts, kills, exits and the shutdown keep one process, its watcher, its record, and implement the slot? | 2 requests, 2 processes, `restart` and `kill` (a restart contains a stop and a start), Kill may fail. Two actors meet in every pair of critical sections; two generations are enough to confuse an old one with a new one. Start, stop, remove, autostart and the faults of the record are in `lifecycle_live`; the proofs cover every mix. |
| `lifecycle_live` | Is every request answered, `Busy` released, the shutdown ended? | 1 request with every operation, autostart, every fault, 1 process: an operation waits for a process, for the gate or for the watcher, and each is there. |
| `lifecycle_one_process` | (fails) Is there one process only? | 2 requests that start, 3 processes: in the counterexample the deferred release of the first start clears the claim of a later one. |
| `vault_writes` | Does the index name only what exists, through crashes and failing flushes? | 1 client, 1 saver, 1 unlock, 2 files and the list, 3 objects: a path is replaced while another is saved and flushed. |
| `vault_moves` | Do moves ever give an object two names or a flush an entry nobody touched? | a directory, a file in it and a second name for either: move onto itself, onto an existing entry, of a directory, into its own subtree. At most two entries in the index and three with its file (`FewEntries`). |
| `list_saves` | Is every answered change flagged, on its way or on disk, and does a save stay saved? | 1 handler with every kind but the update of an instance (which `list_live` has), 2 changes, 2 unlocks (the first migrates, the second loads), crashes and failing writes. |
| `list_live` | Does a change reach the disk, does a shutdown save it? Does a transfer end? | 2 handlers with every kind of request, 1 change, 2 unlocks, no fault. 1 pull, 2 files, a peer that fails or restarts once. `CHECK_DEADLOCK FALSE`: a transfer ends. |
| `files_tree` | Is the last write of each file kept, seen by the process, and gone from the tree after a stop? Does the migration lose none? | 2 files (one fails, one does not), 4 writes, 2 unlocks, 2 seconds; followed up to the first step past which the properties say nothing more (`InScope`). Migration: 3 files in batches of 2 (a batch that ends and a rest), 2 writes of the process, 3 unlocks with crashes between them or of an open vault, 2 failures (a try that fails twice meets its own cursor). `TreesHold` is `LatestIsKept` of the first part and `MigrationHolds` of the second. |
| `sessions` | Is a revoked session refused and a live one served? | 2 requests at a time, 3 in all, one old session and one new, 1 failure of Redis or of a statement of SQL, 2 half lives; followed until every session has hit the window of `RevokedIsRefused` (`NotAllExposed`; what `LiveIsServed` promises beyond is proved). `CHECK_DEADLOCK FALSE`, because the behaviour ends with the last request. |
| `credentials` | Are permissions current, changes kept? Does a lock of the limiter hold, its table stay small? Do sessions, keys and users of the vault agree? | Permissions: 2 endpoints (a partial change leaves one), 2 requests at a time and 3 in all (a load, a change, a change from the stale load), 1 failure of Redis or of a query. Limiter: 2 logins, 3 users of 1 address, a table of 2 keys, limits of 2 and 3 (the eviction meets both kinds of key). Vault: 2 users, 2 tokens, 3 numbers (two users and a changed password), one failing save. |
| `containers` | Are sessions, records and jails consistent through restarts? Do changes of a configuration leave the rest? Are logs and archives whole? Can operations wait in a circle? | 2 sessions, 2 kernel ids, 2 starts of the node, one failing command; 2 requests at a time and 3 in all on fstab, 3 forwards (one foreign) and 2 keys; 3 jobs over 2 slots, 4 lines of which 2 are kept; 2 requests on one archive name, with and without `.tmp`, and 2 jails, 3 in all, 1 of them left behind by the node; 3 goroutines over 5 mutexes, every operation but the listing (two that wait for one another and a writer between). |
| `services` | Do the bin, the backups, tunnels, tasks, tickets, installations, downloads, transfers and logs keep what they answer? | 2 of each actor, so that each meets another of its kind at each step; 3 operations in all where a third is needed to see what two have left; one failure or crash of each kind; tables of 1 or 2, so that they are full; 3 lines through a queue of 2 and a file of 1 with one rotated file (the second rotation drops or archives a line). Pulls are followed until each has met another writer or has failed (`SomePullIsAlone`), past which `PullIsWhole` says nothing. |

`CHECK_DEADLOCK FALSE` in the last three: their requests are bounded, and when
the last is answered nothing is left to do; for the mutexes `NoCircularWait`
says which waiting is wrong.

Every property of a passing run comes with a mistake in the code that it
notices (`mutants` in `PROJECT.json`): dropped guards, swapped steps, a missing
reset, an identity compared by less than it is.

### Fairness

`lifecycle_live`: weak fairness of each goroutine's next step and of the
shutdown, because the Go scheduler runs what can run, and `Stop` and `Kill` have
timeouts, which is what `"kill"` in `Faults` stands for. Nothing makes a client
send a request, a process exit or an operator stop the node.

`list_live`: weak fairness of each handler, of `saveLoop` and its ticker, of
saves, of an unlock that has begun and of the shutdown. Nothing makes anybody
lock or unlock the vault, or change the list. For the transfer: of the
goroutine of each pull (`PullsFairness`), whose requests have timeouts; nothing
makes the peer answer or finish its snapshot.

### Disagreements of code and text

`lifecycle_one_process` shows the first; the others were met while modelling,
and the last section of the module states the claim the code or the text does not
keep. `findings` in `PROJECT.json` quotes the lines.

1. `OneProcess`: `instance.go:733` and `774` clear `Busy` twice; two processes of
   one instance can run, though the tests promise mutual exclusion of starts.
2. `MigrationKeepsList`, `WipeSurvivesCrash`: the list and the trees are deleted in
   the clear before the index that names their encrypted form is written; a
   crash in between loses them.
3. `RetryIsIdempotent`: a retry of the migration skips what lies before its cursor
   unseen and deletes it.
4. `NoCircularWait` with `listDir`: `readFile` under the read lock of
   `vaultState.mu` deadlocks with a waiting writer.
5. Containers: the second removal of a mount that cannot be unmounted answers that
   all is well (`RemovalIsHonest`); job slots are never given back
   (`RefusedOnlyWhenBusy`), a build that could not begin is building for ever
   (`NobodyIsStuck`); two archives of one name share a temporary file
   (`ZippedIsWhole`); sessions started together pass their maximum
   (`SessionsWithinMaximum`); the session log is opened write-only, so that its
   tail is never kept.
6. Backups: a start fits between the stop of a restore and its claim
   (`NoStartDuringRestore`); errors of closing an archive are dropped.
7. Recycle bin: an early return and a removal that fails leave files in the bin that
   no list names (`BinIsListed`).
8. Tasks and tickets: the result of a long task is dropped when it ends
   (`ResultsStayForTTL`); an old ticket writes plain files into a sealed instance
   (`SealedHasNoPlain`).
9. Logs: `cmd.Wait` closes the pipe while the output is copied (`OutputReachesLog`);
   a clear that meets the end of the logger, and a file that is opened with
   content, are not what the comments say (`AnsweredClearIsKept`,
   `FileIsBounded`).
10. Installations: the client's timeout of 30 s, or 2 minutes, covers the whole body
    and undercuts that of the download; the old JDK is removed before the new one is
    in place (`FailureKeepsOldJdk`).
11. Transfers that fail leave their archive (`EndedLeavesNoZip`).
12. Two starts of one tunnel lose the process of the first (`OneFrpcPerTunnel`).
13. `src/docs/accounts-design.md:154` says that a change of the password leaves the
    sessions there are; `accounts_handlers.go:349` revokes them
    (`PasswordKeepsSessions`).
14. `instance_logs.go:3` and `daemon.go:324` speak of five rotated files and of a
    rotation after seven days; `process.go:369` makes a logger that keeps one file
    and never rotates by time (`FiveFilesAreKept`).

## 4. Proofs

Eight modules `…Proofs` hold theorems. Each is proved for every value of the
constants: any number of requests, files, objects, sessions or processes, any
operations and failures of those modelled, any bound.

| Module | Theorem | Property |
| --- | --- | --- |
| `InstanceLifecycleProofs` | `TypeCorrect` | `TypeOK` |
| | `OneProcessTheorem` | `OneProcessUnlessBypassed` |
| | `NoOrphanTheorem` | `NoOrphanAfterShutdown` |
| | `WatchedTheorem` | `PublishedIsWatched` |
| | `StoppedNotRestartedTheorem` | `StoppedNotRestarted` |
| | `ForgetOnlyDeadTheorem` | `ForgetOnlyDead` |
| | `NoSpawnAfterDrainTheorem` | `NoSpawnAfterDrain` |
| | `Refinement` | `ImplementsSlot`: every step is a step of `ProcessSlot` or a stutter |
| | `LogSafe` | `LogTypeOK`, `LogHolds`, of `FileLogger` |
| `VaultStoreProofs` | `StoreTypeCorrect` | `TypeOK` |
| | `NoAliasHolds` | `NoAlias` |
| | `CrashKeepsFlushedHolds` | `CrashKeepsFlushed` |
| | `OpenIndexIntactHolds` | `OpenIndexIntact` |
| | `FlushKeepsOthersHolds` | `FlushKeepsOthers`, an action property |
| `InstanceListProofs` | `ListTypeCorrect` | `TypeOK` |
| | `DirtyCoversChangesHolds` | `DirtyCoversChanges` |
| | `SavedStaysSavedHolds` | `SavedStaysSaved` |
| | `UnlockKeepsChangesHolds` | `UnlockKeepsChanges` |
| | `ShutdownSavesHolds` | `ShutdownSaves` |
| `VaultFilesProofs` | `FilesTypeCorrect` | `TypeOK` |
| | `LatestIsKeptHolds` | `LatestIsKept` |
| | `StopLeavesNoPlaintextHolds` | `StopLeavesNoPlaintext` |
| | `MigrationTypeCorrect`, `MigrationSafe` | `MoveTypeOK`, `MigrationHolds` |
| | `TreesTypeCorrect`, `TreesAreKept`, `TreesLeaveNoPlaintext` | `TreesTypeOK`, `TreesHold`, `StopLeavesNoPlaintext`, of the composition in `MCVaultFiles` |
| `HostProofs` | `LocksTypeCorrect` | `LocksTypeOK` |
| | `NoCircularWaitHolds` | `NoCircularWait` |
| | `TunnelsSafe` | `FrpTypeOK`, `FrpHolds` |
| | `JailSessionsSafe` | `JailSessionsTypeOK`, `JailSessionsHold` |
| | `JailConfigSafe` | `ConfigTypeOK`, `JailConfigHolds` |
| | `ArchivesSafe` | `ArchivesTypeOK`, `ArchivesHold` |
| | `JobsSafe` | `JobsTypeOK`, `JobsHold` |
| | `JailsAreSafe`, `ContainerWorkIsSafe`, `HostTypeCorrect` | `JailsHold`, `ContainerWorkHolds`, `TypeOK`, of the composition in `MCContainers` |
| `AccountSessionsProofs` | `SessionsTypeCorrect` | `TypeOK` |
| | `RevokedIsRefusedHolds` | `RevokedIsRefused` |
| | `LiveIsServedHolds` | `LiveIsServed` |
| `CredentialsProofs` | `VaultTypeCorrect` | `VaultTypeOK` |
| | `VaultAccountsSafe` | `VaultAccountsHold` |
| | `LimiterSafe` | `LimiterTypeOK`, `LimiterHolds` |
| | `CredentialsTypeCorrect`, `PermissionsAreSafe` | `TypeOK`, `PermissionsHold`, of the composition in `MCCredentials` |
| `ServicesProofs` | `TrashSafe` | `TrashTypeOK`, `TrashHolds` |
| | `BackupsSafe` | `BackupsHold` |
| | `TransfersSafe` | `TransfersTypeOK`, `TransfersHold` |
| | `TasksSafe` | `TasksTypeOK`, `TasksHold` |
| | `InstallsSafe` | `InstallsTypeOK`, `InstallsHold` |
| | `CoresSafe` | `CoresTypeOK`, `CoresHold` |
| | `PullsSafe` | `PullsTypeOK`, `PullsHold` |
| | `FilesAreKept`, `WorkIsDone` | `FilesHold`, `WorkHolds`, of the composition in `MCServices` |

### Assumptions

Each module names what it assumes of its constants, and TLC evaluates it on every
run. Nothing is assumed but that bounds are natural numbers (`MaxWrites`,
`MaxVersions`, `BatchSize`, `MaxTickets` and the limits and the window of the
limiter at least 1, its table at least 2, as the constants in the code are; the
lifecycle may spawn a process), that finitely many logins run at the same time,
that there is an endpoint, that goroutines and names that play
different roles are different, and that operations and faults are among those
modelled: `MaxProcsAssumption`, `ThreadsAssumption`, `PathAssumption`,
`StoreConfigAssumption`, `ActorAssumption`, `ListConfigAssumption`,
`FilesConfigAssumption`, `MoveAssumption`, `LocksAssumption`,
`SessionsAssumption`, `VaultAssumption`, `LimiterAssumption`, `PermAssumption`, `TrashAssumption`, `BackupAssumption`,
`TicketAssumption`, `TaskAssumption`, `CoreAssumption`, `InstallAssumption`,
`PullAssumption`, `LogAssumption` (one rotated file and one line to a file at least), `FrpAssumption`, `JailAssumption`, `ConfigAssumption`,
`ArchivesAssumption`, `JobsAssumption`. One hypothesis is more than that: the theorems of
`HostProofs` about mutexes, and the types of the composition they are part of, are about
operations without the directory listing (`"list" \notin Ops`), which does deadlock
(section 3, 4).

### The arguments

None of the invariants is inductive. Where a property excepts a window, the
strengthening has a part that holds always (types, who can be where) and a part
that holds outside of the window, because past it the code promises nothing.

**Lifecycle.** `IInv` is the conjunction of

- `TypeOK`;
- `GateInv`: who is past the gate is counted by it, so that once it is drained
  nobody is inside an operation;
- `RefInv`: what `proc`, `record` or a local variable names was spawned, and a
  record is deleted only after the process was seen to end;
- `MainInv`: what `stopAll` holds, the instance holds no longer;
- `AttachInv`: a process is attached to one watcher, by one goroutine;
- `ExclInv`: unless bypassed, one goroutine is inside the Busy section, and every
  running process has an owner: `proc`, that goroutine, or `stopAll`;
- `IntentInv`: `proc` never names a process that was taken away on purpose and
  not given back;
- `WatchInv`: a running process that `proc` names, or that a stop or a kill may
  give back, is watched.

Each part has a lemma for the initial states and one for the step, with a case
for each operation; the later parts use the earlier ones. The refinement adds one
case per action (`SlotSimulation`).

**Store.** `StoreInv`: ids are drawn once, an object has one name (`NamesInv`, in
every behaviour); outside the windows, what the index or the index file names
exists, a deletion is deferred until no file names the object, and an index that
is clean is the one on disk (`WindowInv`). What a move does to two names of one
entry comes from facts about prefixes of paths.

**List.** `ListInv`: one saver at a time has a snapshot, and a shutdown has waited
for everything else (`ControlInv`); before the first load nobody has changed
anything (`ClosedInv`); outside the windows a change that was answered is on the
disk, in a snapshot on its way there, or the list is flagged (`WindowInv`).

**Files.** `FilesInv`: while an unlock runs the gate is shut (`ControlInv`);
outside the windows the tree, the index in force and what a loop over the files
has left fit together (`Outside`). `MoveInv`, of the migration, holds that nobody
else is at the tree while it runs (`Calm`, `AloneInv`), that what its loop has
passed is in the index as in the tree (`PassedInv`), that the last write is
somewhere (`SomewhereInv`) and the index file is ahead of every saved cursor
(`ClaimedInv`), each outside the windows it needs. That the loop takes the files
in order, each once, rests on the well-founded order of the numbers.

**Mutexes.** Each mutex has a rank. `Runs` says of what is left of an operation
that it takes mutexes only above those it holds and ends with none; the lemmas
`Good…` show it for each operation from those it calls. `LocksInv`: every
goroutine has such a rest before it. Whoever waits for a holder waits at a lower
rank than the holder, if that waits too; so there is no circle.

**Sessions.** `SessionsInv` speaks of one session at a time. While a revocation
takes it out and no window was hit, nobody else holds it and the tiers that were
passed have it no more (`Claimed`, `Gone`); and no tier promises more than the
table unless its renewal is under way (`Live`). Each action is first reduced to
what it does to the fields (`NextSteps`), then each part is shown for such a step.

**Vault accounts.** `VaultInv`: what an unlock on its way owes to the keys
(`KeysInv`), users in memory and in `vault.json` (`UsersInv`), sessions of users
there that are not older than the last change of the password that ends sessions
(`SessionsInv`).

**Limiter.** `LimiterInv` counts the logins under way with the failures of a key:
what locks it within its window leaves no more failures to come than there are other
logins (`CountFits`, with a case for a lock that ends with the window and one for a
window that is past). A lock ends before its entry is stale (`LockAgeInv`), so that
a purge drops none. The size of the table, two keys at a time, is a matter of
cardinalities (`RoomIsMade`).

**Permissions.** `PermInv` gives every place of a load the age that what it holds may
have (`PermAgeFits`): what was read from the row is as old as the request, what came
from Redis up to three ticks older, what came from the cache five; a copy grows older
as its time runs down (`PermAgeInv`). That holds in every behaviour. Outside the windows
a copy is the column unless a write is still to take it out, and while one is to take
out Redis' copy no load is past the cache (`PermCurrent`). Steps that leave the row
alone go through one lemma (`PermStepKeeps`), writes of the row through another
(`RowBecomesKeeps`).

**Services.** The bin: while a request holds `trashMu`, its copy of the list says
what is in the bin, else the list on disk does (`BinInv`); no rename is over
another file (`Kept`). Backups: one request has `Busy`, it is set while one has
it, and what runs is `Proc` or in the hand of a request (`OneClaim`,
`KnownProcs`), from which follow what a restore unzips and what a removal has
killed. Transfers: what is thrown out of a full table is past (`LifeInv`), and an
upload that nobody met has its name for itself (`CopyInv`); the size of the table
is a matter of cardinalities.

**Tasks.** `OrderWithout` numbers what stays of a list by rank: the rank grows with
the place, and `1..n` has no more ranks than places that stay, so each is taken
once (`RankGrows`, `RankCovers`, `OrderWithoutSays`). From that, an eviction or a
cleaning leaves the order injective and the oldest first (`WithoutListed`), and the
new task, which is the youngest, goes to its end. A full table loses at least one
place, of one that is past its time if there is any (`VictimsSay`, with the least
place of a set of places).

**Installations.** `InstallsInv`: who is between the lock and the unlock has
`jdkInstallMu` (`TurnsInv`); what is at the target, or was taken from there, was put
there by a task that is past that step (`PlacedInv`); and between the move and the
look at `java` an undisturbed installation finds its own JDK there, short of nothing
else (`VerifyInv`).

**Downloads.** `PartsInv`: what a download has under its temporary name follows
from where it is; past the look at a sum it is the file asked for.

**Pulls.** `PullsInv`: a snapshot is not older than the request, nor is the archive
made of it (`SnapshotInv`); a pull that nobody met is alone in the directory
(`AloneInv`), and what it has extracted is there, of its archive (`ExtractedInv`).

**Log.** `LogInv`: the pieces of the output, from the oldest file to the pipe, are each
in order and lie one before the other (`LogOrder`, said place by place, so that no list
has to be folded); every line is in one of them, archived or accounted for
(`LogKept`), where a rotation moves the places by one; outside the window what is
younger than a clear is all there is (`LogCleared`); the file is no longer than
its count, which starts at zero (`LogSized`). Where the logger and its process can
be (`LogPlaces`) says that nothing is left in the queue of a logger that is done.

**Tunnels.** `FrpInv` speaks of tunnels at which no two requests were together: a
request there is alone (`FrpAloneInv`) and knows what has become of the process
(`FrpPlaceInv`); the status fits the process once nobody is stopping it
(`FrpStatusInv`), what the shutdown has not come to is in its list
(`FrpStoppedInv`), and a process is its tunnel's or in the hands of the request
there (`FrpKnownInv`). A step of a request is at its own tunnel and leaves the
others and their processes alone (`FrpElsewhere`), so that `FrpStepKeeps` asks of
each step only what holds at its tunnel.

**Sessions in a jail.** `JailSessionsInv` says of each session which record there is
of it by where it is (`RecordFits`), that its command can only be in the jail that
runs or that the record names (`CommandFits`, `NamedFits`), what of it is alive
(`ProcessesFit`) and how far the jail of a watched one is stopped (`WatchFits`); of an
earlier start only the record is left, and recovery looks at one record at a time
(`PlacesFitMode`, `RecoveryFits`). A jail that starts gets a number above all those that
were named, so that no record names it by chance.

**Configuration of a jail.** `ConfigInv`: two requests are at one file only if it is in
the window (`AloneAtFile`); a request that is alone knows by its place what the file is
(`FstabFits`, `RulesFit`, `ConfFits`), and a file that nobody works on is what was
answered. `fstab` needs the equation and not an inclusion, because a mount that fails
takes out its own line; of the rules, what a deletion still has to put back is in the
list it has read. One lemma for each file says that a step elsewhere leaves it alone.

**Archives.** `ArchivesInv`: an inode has one name, and whoever has it open works on
that name (`InodesAreApart`); a request that has not opened its file has a number that
nobody uses (`NumbersAreFresh`); what a request alone at its name has written is whole
once it is closed (`ArchiveFits`); an open export is of the one request that exports,
and since it began no jail but its own has come (`ExportFits`, `OpenExportsFit`).

**Jobs.** `JobsInv`: a log is the last lines of what was printed (`TailOf`), which the
collector's cut keeps (the tail of a tail, line by line), and a job that is not in the
table has printed nothing; the commands that run are jobs in the table, whose size is a
matter of cardinalities.

### What the proofs have changed

`CleanupTasks` states what it leaves of the order with `OrderWithout`, as
`CreateTask` does, and `LogIsTheTail` of the jobs what a log is without picking the lines
out of it, since `SelectSeq` is recursive in its library; `LinesInOrder` of the log
speaks of each of its places instead of folding them. Three statements
held at the bounds of their run and not beyond, which the step that could not be
proved showed:

- `CursorIsFlushed` of the migration: a file skipped as changed, then a lock and an
  unlock between the flush and the saving of the cursor, leave the index file
  behind the cursor. It now excepts the windows in which tree and index part.
- `RestoreIsAlone` and `RemovedIsDead` of the backups: the second release of a
  start (`instance.go:733`) can take away the claim of a stop, a start or a restore
  that came in between, for which the run has one request too few. It is a window
  (`slipped`) now, and the same flaw as in `OneProcess` (section 3, 1).

### Only model-checked

Liveness (`lifecycle_live`, `list_live`): fairness and `ENABLED` are out of the
prover's reach. The type
invariant of `MCServices`, for `BackupsTypeOK`, whose bound on the
processes is a count of the requests that were begun; that of `MCContainers` with the
directory listing, where the count of readers rests on the order of the mutexes. What a
definition computes by recursion over its data is not proved either; no module that is
proved about contains one.

## 5. Plan

Done: the lifecycle; the vault store, the list and their liveness; files and their
migration; mutexes; sessions, permissions, the limiter and the accounts of the
vault; containers; the services; and the theorems above.

Models that could still be written: the handlers of the containers that pass one
command on, the challenges and attempt limits of the vault, the file API over
both places of an encrypted instance, the console's attachment to an instance
that restarts. An abstract register that the list and the permissions implement
would make their promise shorter to read.

## 6. Not modelled, and why

Formats, encodings and cryptography (taken as perfect boxes), path checks, HTTP
and web socket framing, and the outputs of other programs: they are functions of
their input. The file API, imports, metrics and statistics, the plugins' query
and the remaining container handlers mostly pass a request to the operating
system or to one command and keep nothing. The load tuner is three states in one
goroutine, start-up is one sequential pass. Time between two steps is not
modelled except where the code compares times (files and backups in seconds,
sessions in half lives, copies and locks in ticks). Two nodes that share a data
directory are outside the design. `PROJECT.json` gives the reason for each
component that is left out.

## 7. Running the checks

    tlasany M.tla
    tlc -workers 2 -config LifecycleSafety.cfg MCLifecycle.tla
    tlapm InstanceLifecycleProofs.tla      # and each other …Proofs.tla

`PROJECT.json` names the module of each configuration. The longest runs take three
to four minutes on two cores.
