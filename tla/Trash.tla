------------------------------- MODULE Trash -------------------------------
(***************************************************************************)
(* The recycle bin of one instance: files move into a directory of the     *)
(* instance under a fresh id, and a list beside it says where each came    *)
(* from.  A request holds trashMu from the reading of the list to its      *)
(* writing and moves its files one by one in between; an early return      *)
(* leaves the list unwritten.  The server and the file interface use the   *)
(* same tree and know nothing of trashMu.                                  *)
(***************************************************************************)
EXTENDS Naturals, FiniteSets

CONSTANTS
    TrashPath,      \* paths of the instance's files
    MaxFiles,       \* bound of the files that are ever made
    MaxTrashed,     \* bound of the ids that are given
    MaxTrashFails   \* bound of the reads of the list, the removals and the saves that fail

ASSUME TrashAssumption == {MaxFiles, MaxTrashed, MaxTrashFails} \subseteq Nat

VARIABLES
    tree,       \* path -> the file there, 0 if there is none
    bin,        \* id -> the file in .irix-trash, 0 if there is none
    list,       \* {data}/trash/<uuid>.json: entries with an id and a path
    treq,       \* the request that holds trashMu
    made,       \* files made so far
    lastId, trashFails,
    purged,     \* history: files somebody has deleted for good
    raced,      \* history: files that a restore has replaced
    unlisted,   \* history: ids in a window of ListIsTrue
    emptied     \* history: the ids of requests to empty the bin

trashDisk == <<tree, bin, list>>
trashVars == <<trashDisk, treq, made, lastId, trashFails, purged, raced, unlisted, emptied>>

Id == 1..MaxTrashed
File == 1..MaxFiles
TrashEntry == [id : Id, path : TrashPath]
NoTrashRequest == [op |-> "none", todo |-> {}, held |-> {}, id |-> 0, dest |-> "none", over |-> 0]

TrashTypeOK ==
    /\ tree \in [TrashPath -> 0..MaxFiles] /\ bin \in [Id -> 0..MaxFiles]
    /\ list \subseteq TrashEntry /\ treq.held \subseteq TrashEntry
    /\ treq.op \in {"none", "trash", "restore", "empty"}
    /\ treq.dest \in TrashPath \cup {"none"} /\ treq.todo \subseteq TrashPath \cup Id
    /\ treq.id \in 0..MaxTrashed /\ treq.over \in 0..MaxFiles
    /\ made \in 0..MaxFiles /\ lastId \in 0..MaxTrashed /\ trashFails \in 0..MaxTrashFails
    /\ {purged, raced} \subseteq SUBSET File /\ {unlisted, emptied} \subseteq SUBSET Id

TrashInit ==
    /\ tree = [p \in TrashPath |-> 0] /\ bin = [i \in Id |-> 0] /\ list = {}
    /\ treq = NoTrashRequest /\ made = 0 /\ lastId = 0 /\ trashFails = 0
    /\ purged = {} /\ raced = {} /\ unlisted = {} /\ emptied = {}

IdsOf(entries) == {e.id : e \in entries}
TrashFails == trashFails < MaxTrashFails /\ trashFails' = trashFails + 1

\* A file is made, or deleted, by the server or the file interface; they reach the
\* directory of the bin as well.
MakeFile(p) ==
    /\ tree[p] = 0 /\ made < MaxFiles
    /\ made' = made + 1 /\ tree' = [tree EXCEPT ![p] = made + 1]
    /\ UNCHANGED <<bin, list, treq, lastId, trashFails, purged, raced, unlisted, emptied>>
DeleteFile(p) ==
    /\ tree[p] # 0 /\ tree' = [tree EXCEPT ![p] = 0] /\ purged' = purged \cup {tree[p]}
    /\ UNCHANGED <<bin, list, treq, made, lastId, trashFails, raced, unlisted, emptied>>
DeleteInBin(i) ==
    /\ bin[i] # 0 /\ bin' = [bin EXCEPT ![i] = 0] /\ purged' = purged \cup {bin[i]}
    /\ unlisted' = unlisted \cup {i}
    /\ UNCHANGED <<tree, list, treq, made, lastId, trashFails, raced, emptied>>

\* A request takes trashMu and reads the list ...
BeginTrash(op, todo) ==
    /\ treq.op = "none" /\ treq' = [NoTrashRequest EXCEPT !.op = op, !.todo = todo, !.held = list]
    /\ emptied' = IF op = "empty" THEN emptied \cup todo ELSE emptied
    /\ UNCHANGED <<trashDisk, made, lastId, trashFails, purged, raced, unlisted>>

\* ... which loadTrash takes for empty when it cannot read or parse it: emptying the bin
\* has then nothing to do, and what the request saves loses the entries that were there.
BeginUnread(op, todo) ==
    /\ treq.op = "none" /\ TrashFails /\ unlisted' = unlisted \cup IdsOf(list)
    /\ treq' = [NoTrashRequest EXCEPT !.op = op, !.todo = IF op = "empty" THEN {} ELSE todo]
    /\ UNCHANGED <<trashDisk, made, lastId, purged, raced, emptied>>

\* An early return, or a crash: what was moved so far and is not in the list, or is
\* there no more, is in the window.
Unsaved == unlisted' = unlisted \cup IdsOf((treq.held \ list) \cup (list \ treq.held))
GiveUpTrash ==
    /\ treq.op # "none" /\ Unsaved /\ treq' = NoTrashRequest
    /\ UNCHANGED <<trashDisk, made, lastId, trashFails, purged, raced, emptied>>

\* saveTrash: a temporary file and a rename.
SaveTrash ==
    /\ treq.op # "none" /\ treq.todo = {} /\ treq' = NoTrashRequest
    /\ \/ list' = treq.held /\ UNCHANGED <<unlisted, trashFails>>
       \/ TrashFails /\ Unsaved /\ UNCHANGED list
    /\ UNCHANGED <<tree, bin, made, lastId, purged, raced, emptied>>

\* handleFileTrash: one of the targets.  One that is not there ends the request.
TrashOne(p) ==
    /\ treq.op = "trash" /\ p \in treq.todo /\ tree[p] # 0 /\ lastId < MaxTrashed
    /\ lastId' = lastId + 1
    /\ bin' = [bin EXCEPT ![lastId + 1] = tree[p]] /\ tree' = [tree EXCEPT ![p] = 0]
    /\ treq' = [treq EXCEPT !.todo = @ \ {p}, !.held = @ \cup {[id |-> lastId + 1, path |-> p]}]
    /\ UNCHANGED <<list, made, trashFails, purged, raced, unlisted, emptied>>

FaultRestoresOver(e) == {e.path}

\* Where an entry goes: to its path if nothing is there, else beside it, to a name
\* that is free.
RestoreTo(e) == IF tree[e.path] = 0 THEN {e.path} ELSE {p \in TrashPath : tree[p] = 0}

\* handleTrashRestore: the content is there and the destination is chosen ...
ChooseDest(e) ==
    /\ treq.op = "restore" /\ treq.id = 0 /\ e \in treq.held /\ e.id \in treq.todo /\ bin[e.id] # 0
    /\ \E p \in RestoreTo(e) : treq' = [treq EXCEPT !.id = e.id, !.dest = p, !.over = tree[p]]
    /\ UNCHANGED <<trashDisk, made, lastId, trashFails, purged, raced, unlisted, emptied>>

FaultKeepsRestored(i) == treq.held

Without(i) == {e \in treq.held : e.id # i}

\* ... and it is renamed, over what has come there since.
RestoreOne ==
    /\ treq.op = "restore" /\ treq.id # 0 /\ bin[treq.id] # 0
    /\ tree' = [tree EXCEPT ![treq.dest] = bin[treq.id]] /\ bin' = [bin EXCEPT ![treq.id] = 0]
    /\ raced' = raced \cup ({tree[treq.dest]} \ {0, treq.over})
    /\ treq' = [NoTrashRequest EXCEPT !.op = "restore", !.todo = treq.todo \ {treq.id}, !.held = Without(treq.id)]
    /\ UNCHANGED <<list, made, lastId, trashFails, purged, unlisted, emptied>>

FaultEmptiesAll(i) == TRUE

\* The entries that handleTrashEmpty does not keep.
ToEmpty(i) == i \in treq.todo

\* handleTrashEmpty: the content is removed, or cannot be, which nobody is told; the
\* entry goes in either case.
EmptyOne(e) ==
    /\ treq.op = "empty" /\ e \in treq.held /\ ToEmpty(e.id)
    /\ \/ bin' = [bin EXCEPT ![e.id] = 0] /\ UNCHANGED <<unlisted, trashFails>>
       \/ TrashFails /\ unlisted' = unlisted \cup {e.id} /\ UNCHANGED bin
    /\ purged' = purged \cup {f \in {bin[e.id]} \ {0} : e.id \in emptied}
    /\ treq' = [treq EXCEPT !.todo = @ \ {e.id}, !.held = Without(e.id)]
    /\ UNCHANGED <<tree, list, made, lastId, raced, emptied>>

TrashNext ==
    \/ GiveUpTrash \/ SaveTrash \/ RestoreOne
    \/ \E p \in TrashPath : MakeFile(p) \/ DeleteFile(p) \/ TrashOne(p)
    \/ \E i \in Id : DeleteInBin(i)
    \/ \E todo \in (SUBSET TrashPath) \ {{}} : BeginTrash("trash", todo) \/ BeginUnread("trash", todo)
    \/ \E todo \in SUBSET IdsOf(list) \ {{}}, op \in {"restore", "empty"} :
         BeginTrash(op, todo) \/ BeginUnread(op, todo)
    \/ \E e \in treq.held : ChooseDest(e) \/ EmptyOne(e)

TrashSpec == TrashInit /\ [][TrashNext]_trashVars

----------------------------------------------------------------------------
(* Properties                                                              *)

Present == {tree[p] : p \in TrashPath} \cup {bin[i] : i \in Id}

\* No file disappears unless somebody deletes it for good: a restore does not go over
\* another file.  The window is a file that is made between the look at the
\* destination and the rename.
NoFileIsLost == 1..made \subseteq Present \cup purged \cup raced

\* Between two requests the list is what the bin holds, so that everything in it can
\* be found and nothing is offered that is not there.  The windows are a request that
\* returns or crashes half-way, a removal that fails, a deletion inside the bin, and the
\* entries of a list that could not be read.
ListIsTrue ==
    treq.op = "none" =>
        {i \in Id : bin[i] # 0} \ unlisted = IdsOf(list) \ unlisted

TrashHolds == NoFileIsLost /\ ListIsTrue

----------------------------------------------------------------------------
(* What the code means to keep and does not: a request that ends at its    *)
(* second target leaves the first one in the bin and in no list, and one   *)
(* that cannot read the list saves one without the entries that it had.    *)

BinIsListed == treq.op = "none" => \A i \in Id : bin[i] # 0 => i \in IdsOf(list)
=============================================================================
