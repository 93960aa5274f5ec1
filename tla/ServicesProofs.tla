--------------------------- MODULE ServicesProofs ---------------------------
(***************************************************************************)
(* Proofs about the services: the recycle bin (Trash), the backups         *)
(* (InstanceBackups), the transfers (TransferTickets), the table of tasks  *)
(* (TaskTable), the installations of a JDK (JdkInstalls), the downloads of *)
(* a server (CoreDownloads) and the transfers between nodes (ClusterPulls),*)
(* for any number of requests, files, tickets and tasks; and that the run  *)
(* of MCServices has what they promise.                                    *)
(***************************************************************************)
EXTENDS MCServices, FiniteSetTheorems, TLAPS

-----------------------------------------------------------------------------
(* The recycle bin: its inductive invariant.                                *)

\* The types: of the files in the tree and in the bin,
TreeTyped ==
    /\ tree \in [TrashPath -> 0..MaxFiles] /\ bin \in [Id -> 0..MaxFiles]
    /\ made \in 0..MaxFiles /\ lastId \in 0..MaxTrashed

\* of the list on disk and what is remembered of the past,
HistoryTyped ==
    /\ trashFails \in 0..MaxTrashFails /\ list \subseteq TrashEntry
    /\ purged \subseteq File /\ raced \subseteq File /\ unlisted \subseteq Id /\ emptied \subseteq Id

\* and of the request that holds trashMu.
RequestTyped ==
    treq \in [op : {"none", "trash", "restore", "empty"}, todo : SUBSET (TrashPath \cup Id),
              held : SUBSET TrashEntry, id : 0..MaxTrashed, dest : TrashPath \cup {"none"}, over : 0..MaxFiles]

\* All of them.
TrashTyped == TreeTyped /\ HistoryTyped /\ RequestTyped

\* The ids under which a file lies in .irix-trash.
InBin == {i \in Id : bin[i] # 0}

\* What a request has still to do are paths or ids, as its kind says; an id it has taken
\* has a path to go to, where nothing is put over yet.
RequestInv ==
    /\ treq.op = "trash" => treq.todo \subseteq TrashPath
    /\ treq.op \in {"restore", "empty"} => treq.todo \subseteq Id
    /\ treq.op = "empty" => treq.todo \subseteq emptied
    /\ treq.id # 0 => treq.dest \in TrashPath /\ treq.over = 0

\* ListIsTrue, made inductive: ids are given in order; while nobody holds trashMu the
\* list on disk says what is in the bin, and while a request holds it, its copy of the
\* list does.
BinInv ==
    /\ \A i \in InBin : i <= lastId
    /\ treq.op = "none" => InBin \ unlisted = IdsOf(list) \ unlisted
    /\ treq.op # "none" => InBin \ unlisted = IdsOf(treq.held) \ unlisted

\* The invariant of the recycle bin.
TrashInv == TrashTyped /\ RequestInv /\ BinInv /\ NoFileIsLost

\* A request that begins without the list.
UnreadBegins(op, todo) ==
    /\ BeginUnread(op, todo)
    /\ \/ op = "trash" /\ todo \subseteq TrashPath
       \/ op \in {"restore", "empty"} /\ todo \subseteq IdsOf(list)

\* As TrashNext lets it.
LEMMA UnreadSays ==
    ASSUME NEW op \in {"trash", "restore", "empty"}, NEW todo, BeginUnread(op, todo),
           todo \subseteq IF op = "trash" THEN TrashPath ELSE IdsOf(list)
    PROVE  UnreadBegins(op, todo)
<1>1. CASE op = "trash"
  BY <1>1 DEF UnreadBegins
<1>2. CASE op # "trash"
  BY <1>2 DEF UnreadBegins
<1> QED
  BY <1>1, <1>2

\* A file that was made is in the tree or in the bin, unless somebody has deleted it or
\* a restore has replaced it.
Kept(f) == (\E p \in TrashPath : tree[p] = f) \/ (\E i \in Id : bin[i] = f) \/ f \in purged \/ f \in raced

\* NoFileIsLost speaks of every file that was made.
LEMMA KeptSays == NoFileIsLost <=> \A f \in 1..made : Kept(f)
BY DEF NoFileIsLost, Kept, Present

\* The fields of the request.
LEMMA RequestSays ==
    ASSUME RequestTyped
    PROVE  /\ treq.op \in {"none", "trash", "restore", "empty"} /\ treq.todo \subseteq TrashPath \cup Id
           /\ treq.held \subseteq TrashEntry /\ treq.id \in 0..MaxTrashed
           /\ treq.dest \in TrashPath \cup {"none"} /\ treq.over \in 0..MaxFiles
           /\ treq = [op |-> treq.op, todo |-> treq.todo, held |-> treq.held, id |-> treq.id, dest |-> treq.dest, over |-> treq.over]
           /\ IdsOf(treq.held) \subseteq Id
BY DEF RequestTyped, IdsOf, TrashEntry

-----------------------------------------------------------------------------
(* The recycle bin: the types, then the invariant, action by action.        *)

\* Every action keeps the types of the tree and the bin,
LEMMA TreeTypesKept ==
    ASSUME TreeTyped, RequestTyped, TrashNext
    PROVE  TreeTyped'
<1>1. CASE GiveUpTrash
  BY <1>1 DEF GiveUpTrash, trashDisk, TreeTyped
<1>2. CASE SaveTrash
  BY <1>2 DEF SaveTrash, TreeTyped
<1>3. CASE RestoreOne
  <2>1. treq.id \in Id /\ bin[treq.id] \in 0..MaxFiles
    BY <1>3, TrashAssumption, RequestSays DEF RestoreOne, Id, TreeTyped
  <2>2. tree' = [tree EXCEPT ![treq.dest] = bin[treq.id]] /\ bin' = [bin EXCEPT ![treq.id] = 0]
        /\ made' = made /\ lastId' = lastId
    BY <1>3 DEF RestoreOne
  <2>3. 0 \in 0..MaxFiles
    BY TrashAssumption
  <2> QED
    BY <2>1, <2>2, <2>3 DEF TreeTyped
<1>4. ASSUME NEW p \in TrashPath, MakeFile(p) PROVE TreeTyped'
  BY <1>4, TrashAssumption DEF MakeFile, TreeTyped
<1>5. ASSUME NEW p \in TrashPath, DeleteFile(p) PROVE TreeTyped'
  BY <1>5, TrashAssumption DEF DeleteFile, TreeTyped
<1>6. ASSUME NEW p \in TrashPath, TrashOne(p) PROVE TreeTyped'
  BY <1>6, TrashAssumption DEF TrashOne, TreeTyped, Id
<1>7. ASSUME NEW i \in Id, DeleteInBin(i) PROVE TreeTyped'
  BY <1>7, TrashAssumption DEF DeleteInBin, TreeTyped
<1>8. ASSUME NEW todo \in (SUBSET TrashPath) \ {{}}, BeginTrash("trash", todo) PROVE TreeTyped'
  BY <1>8 DEF BeginTrash, trashDisk, TreeTyped
<1>9. ASSUME NEW todo \in SUBSET IdsOf(list) \ {{}}, NEW op \in {"restore", "empty"}, BeginTrash(op, todo) PROVE TreeTyped'
  BY <1>9 DEF BeginTrash, trashDisk, TreeTyped
<1>10. ASSUME NEW e \in treq.held, ChooseDest(e) PROVE TreeTyped'
  BY <1>10 DEF ChooseDest, trashDisk, TreeTyped
<1>11. ASSUME NEW e \in treq.held, EmptyOne(e) PROVE TreeTyped'
  <2>1. /\ bin' = bin \/ bin' = [bin EXCEPT ![e.id] = 0]
        /\ tree' = tree /\ made' = made /\ lastId' = lastId
    BY <1>11 DEF EmptyOne
  <2>2. 0 \in 0..MaxFiles
    BY TrashAssumption
  <2> QED
    BY <2>1, <2>2 DEF TreeTyped
<1>12. ASSUME NEW op, NEW todo, UnreadBegins(op, todo) PROVE TreeTyped'
  BY <1>12 DEF UnreadBegins, BeginUnread, trashDisk, TreeTyped
<1>13. ASSUME NEW todo \in (SUBSET TrashPath) \ {{}}, BeginUnread("trash", todo) PROVE TreeTyped'
  BY <1>12, <1>13, UnreadSays
<1>14. ASSUME NEW todo \in SUBSET IdsOf(list) \ {{}}, NEW op \in {"restore", "empty"}, BeginUnread(op, todo)
       PROVE  TreeTyped'
  BY <1>12, <1>14, UnreadSays
<1> QED
  BY <1>1, <1>2, <1>3, <1>4, <1>5, <1>6, <1>7, <1>8, <1>9, <1>10, <1>11, <1>12, <1>13, <1>14 DEF TrashNext

\* of the list and the history,
LEMMA HistoryTypesKept ==
    ASSUME TreeTyped, HistoryTyped, RequestTyped, RequestInv, TrashNext
    PROVE  HistoryTyped'
<1>1. CASE GiveUpTrash
  BY <1>1, TrashAssumption, RequestSays
  DEF GiveUpTrash, trashDisk, TreeTyped, HistoryTyped, Id, File, IdsOf, TrashEntry, Unsaved,
      NoTrashRequest, IdsOf
<1>2. CASE SaveTrash
  BY <1>2, TrashAssumption, RequestSays, SMTT(30)
  DEF SaveTrash, trashDisk, TreeTyped, HistoryTyped, Id, File, IdsOf, TrashEntry, TrashFails,
      Unsaved, NoTrashRequest, IdsOf
<1>3. CASE RestoreOne
  <2>1. /\ trashFails' = trashFails /\ list' = list /\ purged' = purged /\ unlisted' = unlisted /\ emptied' = emptied
        /\ raced' = raced \cup ({tree[treq.dest]} \ {0, treq.over}) /\ treq.id # 0
    BY <1>3 DEF RestoreOne
  <2>2. treq.dest \in TrashPath
    BY <2>1 DEF RequestInv
  <2>3. tree[treq.dest] \in 0..MaxFiles
    BY <2>2 DEF TreeTyped
  <2>4. ({tree[treq.dest]} \ {0, treq.over}) \subseteq File
    BY <2>3 DEF File
  <2> QED
    BY <2>1, <2>4 DEF HistoryTyped
<1>4. ASSUME NEW p \in TrashPath, MakeFile(p) PROVE HistoryTyped'
  BY <1>4 DEF MakeFile, HistoryTyped
<1>5. ASSUME NEW p \in TrashPath, DeleteFile(p) PROVE HistoryTyped'
  BY <1>5, TrashAssumption, RequestSays, SMTT(30)
  DEF DeleteFile, trashDisk, TreeTyped, HistoryTyped, Id, File, IdsOf, TrashEntry
<1>6. ASSUME NEW p \in TrashPath, TrashOne(p) PROVE HistoryTyped'
  BY <1>6 DEF TrashOne, HistoryTyped
<1>7. ASSUME NEW i \in Id, DeleteInBin(i) PROVE HistoryTyped'
  BY <1>7, TrashAssumption, RequestSays, SMTT(30)
  DEF DeleteInBin, trashDisk, TreeTyped, HistoryTyped, Id, File, IdsOf, TrashEntry
<1>8. ASSUME NEW todo \in (SUBSET TrashPath) \ {{}}, BeginTrash("trash", todo) PROVE HistoryTyped'
  BY <1>8 DEF BeginTrash, trashDisk, HistoryTyped
<1>9. ASSUME NEW todo \in SUBSET IdsOf(list) \ {{}}, NEW op \in {"restore", "empty"}, BeginTrash(op, todo) PROVE HistoryTyped'
  BY <1>9 DEF BeginTrash, trashDisk, HistoryTyped, IdsOf, TrashEntry
<1>10. ASSUME NEW e \in treq.held, ChooseDest(e) PROVE HistoryTyped'
  BY <1>10 DEF ChooseDest, trashDisk, HistoryTyped
<1>11. ASSUME NEW e \in treq.held, EmptyOne(e) PROVE HistoryTyped'
  <2>1. e.id \in Id /\ bin[e.id] \in 0..MaxFiles
    BY RequestSays DEF TrashEntry, TreeTyped
  <2>2. /\ list' = list /\ raced' = raced /\ emptied' = emptied
        /\ purged' = purged \cup {f \in {bin[e.id]} \ {0} : e.id \in emptied}
        /\ unlisted' = unlisted \/ unlisted' = unlisted \cup {e.id}
    BY <1>11 DEF EmptyOne
  <2>3. trashFails' = trashFails \/ TrashFails
    BY <1>11 DEF EmptyOne
  <2>4. trashFails' \in 0..MaxTrashFails
    BY <2>3, TrashAssumption DEF HistoryTyped, TrashFails
  <2>5. {f \in {bin[e.id]} \ {0} : e.id \in emptied} \subseteq File
    BY <2>1 DEF File
  <2> QED
    BY <2>1, <2>2, <2>4, <2>5 DEF HistoryTyped
<1>12. ASSUME NEW op, NEW todo, UnreadBegins(op, todo) PROVE HistoryTyped'
  <2>1. list' = list /\ purged' = purged /\ raced' = raced /\ emptied' = emptied
        /\ unlisted' = unlisted \cup IdsOf(list) /\ TrashFails
    BY <1>12 DEF UnreadBegins, BeginUnread, trashDisk
  <2>2. trashFails' \in 0..MaxTrashFails
    BY <2>1, TrashAssumption DEF TrashFails, HistoryTyped
  <2> QED
    BY <2>1, <2>2 DEF HistoryTyped, IdsOf, TrashEntry
<1>13. ASSUME NEW todo \in (SUBSET TrashPath) \ {{}}, BeginUnread("trash", todo) PROVE HistoryTyped'
  BY <1>12, <1>13, UnreadSays
<1>14. ASSUME NEW todo \in SUBSET IdsOf(list) \ {{}}, NEW op \in {"restore", "empty"}, BeginUnread(op, todo)
       PROVE  HistoryTyped'
  BY <1>12, <1>14, UnreadSays
<1> QED
  BY <1>1, <1>2, <1>3, <1>4, <1>5, <1>6, <1>7, <1>8, <1>9, <1>10, <1>11, <1>12, <1>13, <1>14 DEF TrashNext

\* and of the request.
LEMMA RequestTypesKept ==
    ASSUME TreeTyped, HistoryTyped, RequestTyped, TrashNext
    PROVE  RequestTyped'
<1>1. CASE GiveUpTrash
  BY <1>1, TrashAssumption DEF GiveUpTrash, RequestTyped, NoTrashRequest
<1>2. CASE SaveTrash
  BY <1>2, TrashAssumption DEF SaveTrash, RequestTyped, NoTrashRequest
<1>3. CASE RestoreOne
  <2>1. treq' = [op |-> "restore", todo |-> treq.todo \ {treq.id}, held |-> Without(treq.id), id |-> 0, dest |-> "none", over |-> 0]
    BY <1>3 DEF RestoreOne, NoTrashRequest
  <2>2. 0 \in 0..MaxTrashed /\ 0 \in 0..MaxFiles
    BY TrashAssumption
  <2>3. Without(treq.id) \subseteq treq.held
    BY DEF Without
  <2> QED
    BY <2>1, <2>2, <2>3 DEF RequestTyped
<1>4. ASSUME NEW p \in TrashPath, MakeFile(p) PROVE RequestTyped'
  BY <1>4 DEF MakeFile, RequestTyped
<1>5. ASSUME NEW p \in TrashPath, DeleteFile(p) PROVE RequestTyped'
  BY <1>5 DEF DeleteFile, RequestTyped
<1>6. ASSUME NEW p \in TrashPath, TrashOne(p) PROVE RequestTyped'
  <2>1. treq' = [op |-> treq.op, todo |-> treq.todo \ {p}, held |-> treq.held \cup {[id |-> lastId + 1, path |-> p]}, id |-> treq.id, dest |-> treq.dest, over |-> treq.over]
    BY <1>6, RequestSays DEF TrashOne
  <2>2. [id |-> lastId + 1, path |-> p] \in TrashEntry
    <3>1. lastId + 1 \in Id
      BY <1>6, TrashAssumption DEF TrashOne, TreeTyped, Id
    <3> QED
      BY <3>1 DEF TrashEntry
  <2> QED
    BY <2>1, <2>2 DEF RequestTyped
<1>7. ASSUME NEW i \in Id, DeleteInBin(i) PROVE RequestTyped'
  BY <1>7 DEF DeleteInBin, RequestTyped
<1>8. ASSUME NEW todo \in (SUBSET TrashPath) \ {{}}, BeginTrash("trash", todo) PROVE RequestTyped'
  <2>1. treq' = [op |-> "trash", todo |-> todo, held |-> list, id |-> 0, dest |-> "none", over |-> 0]
    BY <1>8 DEF BeginTrash, NoTrashRequest
  <2>2. 0 \in 0..MaxTrashed /\ 0 \in 0..MaxFiles
    BY TrashAssumption
  <2>3. list \subseteq TrashEntry
    BY DEF HistoryTyped
  <2> QED
    BY <2>1, <2>2, <2>3 DEF RequestTyped
<1>9. ASSUME NEW todo \in SUBSET IdsOf(list) \ {{}}, NEW op \in {"restore", "empty"}, BeginTrash(op, todo) PROVE RequestTyped'
  <2>1. treq' = [op |-> op, todo |-> todo, held |-> list, id |-> 0, dest |-> "none", over |-> 0]
    BY <1>9 DEF BeginTrash, NoTrashRequest
  <2>2. 0 \in 0..MaxTrashed /\ 0 \in 0..MaxFiles
    BY TrashAssumption
  <2>3. list \subseteq TrashEntry /\ todo \subseteq Id
    BY DEF HistoryTyped, IdsOf, TrashEntry
  <2> QED
    BY <2>1, <2>2, <2>3 DEF RequestTyped
<1>10. ASSUME NEW e \in treq.held, ChooseDest(e) PROVE RequestTyped'
  <2>1. PICK p \in RestoreTo(e) : treq' = [treq EXCEPT !.id = e.id, !.dest = p, !.over = tree[p]]
    BY <1>10 DEF ChooseDest
  <2>2. treq' = [op |-> treq.op, todo |-> treq.todo, held |-> treq.held, id |-> e.id, dest |-> p, over |-> tree[p]]
    BY <2>1, RequestSays
  <2>3. p \in TrashPath /\ e.id \in 0..MaxTrashed
    BY RequestSays, TrashAssumption DEF RestoreTo, TrashEntry, Id
  <2>4. tree[p] \in 0..MaxFiles
    BY <2>3 DEF TreeTyped
  <2> QED
    BY <2>2, <2>3, <2>4 DEF RequestTyped
<1>11. ASSUME NEW e \in treq.held, EmptyOne(e) PROVE RequestTyped'
  BY <1>11 DEF EmptyOne, RequestTyped, Without
<1>12. ASSUME NEW op, NEW todo, UnreadBegins(op, todo) PROVE RequestTyped'
  <2>1. treq' = [op |-> op, todo |-> IF op = "empty" THEN {} ELSE todo, held |-> {}, id |-> 0, dest |-> "none", over |-> 0]
    BY <1>12 DEF UnreadBegins, BeginUnread, NoTrashRequest
  <2>2. op \in {"trash", "restore", "empty"} /\ todo \subseteq TrashPath \cup Id
    BY <1>12 DEF UnreadBegins, HistoryTyped, IdsOf, TrashEntry
  <2> QED
    BY <2>1, <2>2, TrashAssumption DEF RequestTyped
<1>13. ASSUME NEW todo \in (SUBSET TrashPath) \ {{}}, BeginUnread("trash", todo) PROVE RequestTyped'
  BY <1>12, <1>13, UnreadSays
<1>14. ASSUME NEW todo \in SUBSET IdsOf(list) \ {{}}, NEW op \in {"restore", "empty"}, BeginUnread(op, todo)
       PROVE  RequestTyped'
  BY <1>12, <1>14, UnreadSays
<1> QED
  BY <1>1, <1>2, <1>3, <1>4, <1>5, <1>6, <1>7, <1>8, <1>9, <1>10, <1>11, <1>12, <1>13, <1>14 DEF TrashNext

\* A request goes on with what it was begun for: each step takes one target out of its
\* list.
LEMMA RequestKept ==
    ASSUME TrashTyped, RequestInv, TrashNext
    PROVE  RequestInv'
<1>1. CASE GiveUpTrash
  BY <1>1 DEF GiveUpTrash, RequestInv, NoTrashRequest
<1>2. CASE SaveTrash
  BY <1>2 DEF SaveTrash, RequestInv, NoTrashRequest
<1>3. CASE RestoreOne
  BY <1>3 DEF RestoreOne, RequestInv, NoTrashRequest
<1>4. ASSUME NEW p \in TrashPath, MakeFile(p) PROVE RequestInv'
  BY <1>4 DEF MakeFile, RequestInv
<1>5. ASSUME NEW p \in TrashPath, DeleteFile(p) PROVE RequestInv'
  BY <1>5 DEF DeleteFile, RequestInv
<1>6. ASSUME NEW p \in TrashPath, TrashOne(p) PROVE RequestInv'
  BY <1>6 DEF TrashOne, RequestInv
<1>7. ASSUME NEW i \in Id, DeleteInBin(i) PROVE RequestInv'
  BY <1>7 DEF DeleteInBin, RequestInv
<1>8. ASSUME NEW todo \in (SUBSET TrashPath) \ {{}}, BeginTrash("trash", todo) PROVE RequestInv'
  BY <1>8 DEF BeginTrash, RequestInv, NoTrashRequest
<1>9. ASSUME NEW todo \in SUBSET IdsOf(list) \ {{}}, NEW op \in {"restore", "empty"}, BeginTrash(op, todo) PROVE RequestInv'
  <2>1. /\ treq'.op = op /\ treq'.todo = todo /\ treq'.id = 0
        /\ emptied' = IF op = "empty" THEN emptied \cup todo ELSE emptied
    BY <1>9 DEF BeginTrash, NoTrashRequest
  <2>2. todo \subseteq Id
    BY DEF TrashTyped, HistoryTyped, IdsOf, TrashEntry
  <2> QED
    BY <2>1, <2>2 DEF RequestInv
<1>10. ASSUME NEW e \in treq.held, ChooseDest(e) PROVE RequestInv'
  <2>1. PICK p \in RestoreTo(e) : treq' = [treq EXCEPT !.id = e.id, !.dest = p, !.over = tree[p]]
    BY <1>10 DEF ChooseDest
  <2>2. p \in TrashPath /\ tree[p] = 0
    BY <2>1, RequestSays DEF RestoreTo, TrashTyped, TrashEntry
  <2>3. treq'.op = treq.op /\ treq'.todo = treq.todo /\ treq'.dest = p /\ treq'.over = 0 /\ emptied' = emptied
    BY <1>10, <2>1, <2>2, RequestSays DEF ChooseDest, TrashTyped
  <2> QED
    BY <2>2, <2>3 DEF RequestInv
<1>11. ASSUME NEW e \in treq.held, EmptyOne(e) PROVE RequestInv'
  BY <1>11 DEF EmptyOne, RequestInv
<1>12. ASSUME NEW op, NEW todo, UnreadBegins(op, todo) PROVE RequestInv'
  <2>1. treq'.op = op /\ treq'.todo = (IF op = "empty" THEN {} ELSE todo) /\ treq'.id = 0
    BY <1>12 DEF UnreadBegins, BeginUnread, NoTrashRequest
  <2>2. op = "restore" => todo \subseteq Id
    BY <1>12 DEF UnreadBegins, TrashTyped, HistoryTyped, IdsOf, TrashEntry
  <2> QED
    BY <1>12, <2>1, <2>2 DEF UnreadBegins, RequestInv
<1>13. ASSUME NEW todo \in (SUBSET TrashPath) \ {{}}, BeginUnread("trash", todo) PROVE RequestInv'
  BY <1>12, <1>13, UnreadSays
<1>14. ASSUME NEW todo \in SUBSET IdsOf(list) \ {{}}, NEW op \in {"restore", "empty"}, BeginUnread(op, todo)
       PROVE  RequestInv'
  BY <1>12, <1>14, UnreadSays
<1> QED
  BY <1>1, <1>2, <1>3, <1>4, <1>5, <1>6, <1>7, <1>8, <1>9, <1>10, <1>11, <1>12, <1>13, <1>14 DEF TrashNext

\* Each move into or out of the bin comes with its change of the list that the request
\* holds; a step that leaves one without the other is a window, and is in unlisted.
LEMMA BinKept ==
    ASSUME TreeTyped, RequestTyped, RequestInv, BinInv, TrashNext
    PROVE  BinInv'
<1>1. CASE GiveUpTrash
  BY <1>1 DEF GiveUpTrash, trashDisk, BinInv, InBin, IdsOf, Unsaved, NoTrashRequest, IdsOf
<1>2. CASE SaveTrash
  BY <1>2 DEF SaveTrash, BinInv, InBin, IdsOf, Unsaved, NoTrashRequest, IdsOf
<1>3. CASE RestoreOne
  BY <1>3 DEF RestoreOne, TreeTyped, BinInv, InBin, IdsOf, Without
<1>4. ASSUME NEW p \in TrashPath, MakeFile(p) PROVE BinInv'
  BY <1>4 DEF MakeFile, BinInv, InBin
<1>5. ASSUME NEW p \in TrashPath, DeleteFile(p) PROVE BinInv'
  BY <1>5 DEF DeleteFile, BinInv, InBin
<1>6. ASSUME NEW p \in TrashPath, TrashOne(p) PROVE BinInv'
  <2> DEFINE n == lastId + 1
  <2>1. /\ tree[p] # 0 /\ bin' = [bin EXCEPT ![n] = tree[p]] /\ lastId' = n /\ unlisted' = unlisted
        /\ treq.op = "trash" /\ treq'.op = "trash" /\ treq'.held = treq.held \cup {[id |-> n, path |-> p]}
    BY <1>6 DEF TrashOne
  <2>2. n \in Id /\ \A i \in InBin : i <= n
    BY <1>6, TrashAssumption DEF TrashOne, TreeTyped, Id, BinInv, InBin
  <2>3. n <= n
    BY <2>2 DEF Id
  <2> HIDE DEF n
  <2>4. InBin' = InBin \cup {n}
    BY <2>1, <2>2 DEF InBin, TreeTyped
  <2> DEFINE entry == [id |-> n, path |-> p]
  <2>e. entry.id = n
    OBVIOUS
  <2>h. treq'.held = treq.held \cup {entry}
    BY <2>1
  <2> HIDE DEF entry
  <2>5. IdsOf(treq'.held) = IdsOf(treq.held) \cup {n}
    BY <2>e, <2>h DEF IdsOf
  <2> QED
    BY <2>1, <2>2, <2>3, <2>4, <2>5 DEF BinInv
<1>7. ASSUME NEW i \in Id, DeleteInBin(i) PROVE BinInv'
  BY <1>7 DEF DeleteInBin, BinInv, InBin
<1>8. ASSUME NEW todo \in (SUBSET TrashPath) \ {{}}, BeginTrash("trash", todo) PROVE BinInv'
  BY <1>8 DEF BeginTrash, trashDisk, BinInv, InBin
<1>9. ASSUME NEW todo \in SUBSET IdsOf(list) \ {{}}, NEW op \in {"restore", "empty"}, BeginTrash(op, todo) PROVE BinInv'
  BY <1>9 DEF BeginTrash, trashDisk, BinInv, InBin
<1>10. ASSUME NEW e \in treq.held, ChooseDest(e) PROVE BinInv'
  BY <1>10 DEF ChooseDest, trashDisk, BinInv, InBin
<1>11. ASSUME NEW e \in treq.held, EmptyOne(e) PROVE BinInv'
  <2>1. e.id \in Id
    BY RequestSays DEF TrashEntry
  <2>2. /\ treq.op = "empty" /\ treq'.op = "empty" /\ treq'.held = Without(e.id) /\ lastId' = lastId
        /\ \/ bin' = [bin EXCEPT ![e.id] = 0] /\ unlisted' = unlisted
           \/ bin' = bin /\ unlisted' = unlisted \cup {e.id}
    BY <1>11 DEF EmptyOne
  <2>3. InBin' \subseteq InBin /\ InBin' \ unlisted' = (InBin \ unlisted) \ {e.id}
    BY <2>1, <2>2 DEF InBin, TreeTyped
  <2>4. IdsOf(treq'.held) = IdsOf(treq.held) \ {e.id}
    BY <2>2 DEF IdsOf, Without
  <2>5. unlisted \subseteq unlisted' /\ unlisted' \subseteq unlisted \cup {e.id}
    BY <2>2
  <2>6. IdsOf(treq'.held) \ unlisted' = (IdsOf(treq.held) \ unlisted) \ {e.id}
    BY <2>4, <2>5
  <2> QED
    BY <2>2, <2>3, <2>6 DEF BinInv
<1>12. ASSUME NEW op, NEW todo, UnreadBegins(op, todo) PROVE BinInv'
  <2>1. /\ treq.op = "none" /\ treq'.op = op /\ treq'.held = {} /\ bin' = bin /\ lastId' = lastId
        /\ unlisted' = unlisted \cup IdsOf(list)
    BY <1>12 DEF UnreadBegins, BeginUnread, trashDisk, NoTrashRequest
  <2>2. IdsOf(treq'.held) = {}
    BY <2>1 DEF IdsOf
  <2> QED
    BY <1>12, <2>1, <2>2 DEF UnreadBegins, BinInv, InBin
<1>13. ASSUME NEW todo \in (SUBSET TrashPath) \ {{}}, BeginUnread("trash", todo) PROVE BinInv'
  BY <1>12, <1>13, UnreadSays
<1>14. ASSUME NEW todo \in SUBSET IdsOf(list) \ {{}}, NEW op \in {"restore", "empty"}, BeginUnread(op, todo)
       PROVE  BinInv'
  BY <1>12, <1>14, UnreadSays
<1> QED
  BY <1>1, <1>2, <1>3, <1>4, <1>5, <1>6, <1>7, <1>8, <1>9, <1>10, <1>11, <1>12, <1>13, <1>14 DEF TrashNext

\* Every step moves a file to where nothing is, or says whom it was taken from: no
\* rename of the bin is over another file.
LEMMA FilesKept ==
    ASSUME TreeTyped, RequestTyped, RequestInv, BinInv, \A f \in 1..made : Kept(f), TrashNext
    PROVE  \A f \in 1..made' : Kept(f)'
<1>1. CASE GiveUpTrash
  BY <1>1 DEF GiveUpTrash, trashDisk, Kept
<1>2. CASE SaveTrash
  BY <1>2 DEF SaveTrash, Kept
<1>3. CASE RestoreOne
  BY <1>3 DEF RestoreOne, TreeTyped, RequestInv, Kept
<1>4. ASSUME NEW p \in TrashPath, MakeFile(p) PROVE \A f \in 1..made' : Kept(f)'
  <2> SUFFICES ASSUME NEW f \in 1..made' PROVE Kept(f)'
    OBVIOUS
  <2>1. /\ tree[p] = 0 /\ made' = made + 1 /\ tree' = [tree EXCEPT ![p] = made + 1]
        /\ bin' = bin /\ purged' = purged /\ raced' = raced
    BY <1>4 DEF MakeFile
  <2>2. f \in 1..made \/ f = made + 1
    BY <2>1 DEF TreeTyped
  <2>3. f # 0 /\ tree'[p] = made + 1 /\ \A o \in TrashPath : tree[o] = f => o # p /\ tree'[o] = f
    BY <2>1 DEF TreeTyped
  <2> QED
    BY <2>1, <2>2, <2>3 DEF Kept
<1>5. ASSUME NEW p \in TrashPath, DeleteFile(p) PROVE \A f \in 1..made' : Kept(f)'
  BY <1>5 DEF DeleteFile, Kept
<1>6. ASSUME NEW p \in TrashPath, TrashOne(p) PROVE \A f \in 1..made' : Kept(f)'
  <2> SUFFICES ASSUME NEW f \in 1..made' PROVE Kept(f)'
    OBVIOUS
  <2> DEFINE n == lastId + 1
  <2>1. /\ made' = made /\ tree' = [tree EXCEPT ![p] = 0] /\ bin' = [bin EXCEPT ![n] = tree[p]]
        /\ purged' = purged /\ raced' = raced
    BY <1>6 DEF TrashOne
  <2>2. n \in Id /\ \A i \in Id : bin[i] # 0 => i # n
    BY <1>6, TrashAssumption DEF TrashOne, TreeTyped, Id, BinInv, InBin
  <2> HIDE DEF n
  <2>3. f # 0 /\ f \in 1..made
    BY <2>1
  <2>4. bin'[n] = tree[p] /\ (\A i \in Id : bin[i] = f => bin'[i] = f) /\ \A o \in TrashPath : o # p => tree'[o] = tree[o]
    BY <2>1, <2>2, <2>3 DEF TreeTyped
  <2> QED
    BY <2>1, <2>2, <2>3, <2>4 DEF Kept
<1>7. ASSUME NEW i \in Id, DeleteInBin(i) PROVE \A f \in 1..made' : Kept(f)'
  BY <1>7 DEF DeleteInBin, Kept
<1>8. ASSUME NEW todo \in (SUBSET TrashPath) \ {{}}, BeginTrash("trash", todo) PROVE \A f \in 1..made' : Kept(f)'
  BY <1>8 DEF BeginTrash, trashDisk, Kept
<1>9. ASSUME NEW todo \in SUBSET IdsOf(list) \ {{}}, NEW op \in {"restore", "empty"}, BeginTrash(op, todo) PROVE \A f \in 1..made' : Kept(f)'
  BY <1>9 DEF BeginTrash, trashDisk, Kept
<1>10. ASSUME NEW e \in treq.held, ChooseDest(e) PROVE \A f \in 1..made' : Kept(f)'
  BY <1>10 DEF ChooseDest, trashDisk, Kept
<1>11. ASSUME NEW e \in treq.held, EmptyOne(e) PROVE \A f \in 1..made' : Kept(f)'
  BY <1>11 DEF EmptyOne, TreeTyped, RequestInv, Kept, ToEmpty
<1>12. ASSUME NEW op, NEW todo, UnreadBegins(op, todo) PROVE \A f \in 1..made' : Kept(f)'
  BY <1>12 DEF UnreadBegins, BeginUnread, trashDisk, Kept
<1>13. ASSUME NEW todo \in (SUBSET TrashPath) \ {{}}, BeginUnread("trash", todo) PROVE \A f \in 1..made' : Kept(f)'
  BY <1>12, <1>13, UnreadSays
<1>14. ASSUME NEW todo \in SUBSET IdsOf(list) \ {{}}, NEW op \in {"restore", "empty"}, BeginUnread(op, todo)
       PROVE  \A f \in 1..made' : Kept(f)'
  BY <1>12, <1>14, UnreadSays
<1> QED
  BY <1>1, <1>2, <1>3, <1>4, <1>5, <1>6, <1>7, <1>8, <1>9, <1>10, <1>11, <1>12, <1>13, <1>14 DEF TrashNext

-----------------------------------------------------------------------------
(* The recycle bin: the invariant holds, and the properties.                *)

\* An instance without files, and an empty bin.
LEMMA TrashInitHolds == TrashInit => TrashInv
<1> SUFFICES ASSUME TrashInit PROVE TrashInv
  OBVIOUS
<1>1. 0 \in 0..MaxFiles /\ 0 \in 0..MaxTrashed /\ 0 \in 0..MaxTrashFails
  BY TrashAssumption
<1>2. TreeTyped
  BY <1>1 DEF TrashInit, TreeTyped
<1>3. HistoryTyped
  BY <1>1 DEF TrashInit, HistoryTyped
<1>4. RequestTyped
  BY <1>1 DEF TrashInit, RequestTyped, NoTrashRequest
<1>5. RequestInv
  BY DEF TrashInit, RequestInv, NoTrashRequest
<1>6. BinInv
  BY DEF TrashInit, BinInv, InBin, IdsOf, NoTrashRequest
<1>7. made = 0
  BY DEF TrashInit
<1>8. NoFileIsLost
  BY <1>7 DEF NoFileIsLost
<1> QED
  BY <1>2, <1>3, <1>4, <1>5, <1>6, <1>8 DEF TrashInv, TrashTyped

\* Every step of a request, of the server and of the file interface.
LEMMA TrashStep == TrashInv /\ [TrashNext]_trashVars => TrashInv'
<1> SUFFICES ASSUME TrashInv, [TrashNext]_trashVars PROVE TrashInv'
  OBVIOUS
<1>1. CASE TrashNext
  <2>1. TreeTyped /\ HistoryTyped /\ RequestTyped /\ RequestInv /\ BinInv /\ NoFileIsLost
    BY DEF TrashInv, TrashTyped
  <2>2. TreeTyped' /\ HistoryTyped' /\ RequestTyped'
    BY <1>1, <2>1, TreeTypesKept, HistoryTypesKept, RequestTypesKept
  <2>6. RequestInv'
    BY <1>1, <2>1, RequestKept DEF TrashTyped
  <2>7. BinInv'
    BY <1>1, <2>1, BinKept
  <2>3. \A f \in 1..made : Kept(f)
    BY <2>1, KeptSays
  <2>4. \A f \in 1..made' : Kept(f)'
    BY <1>1, <2>1, <2>3, FilesKept
  <2>5. NoFileIsLost'
    BY <2>4 DEF NoFileIsLost, Kept, Present
  <2> QED
    BY <2>2, <2>5, <2>6, <2>7 DEF TrashInv, TrashTyped
<1>2. CASE UNCHANGED trashVars
  <2>1. UNCHANGED <<tree, bin, list, treq, made, lastId, trashFails, purged, raced, unlisted, emptied>>
    BY <1>2 DEF trashVars, trashDisk
  <2>2. TrashTyped'
    BY <2>1 DEF TrashInv, TrashTyped, TreeTyped, HistoryTyped, RequestTyped
  <2>3. RequestInv' /\ BinInv' /\ NoFileIsLost'
    BY <2>1 DEF TrashInv, RequestInv, BinInv, InBin, NoFileIsLost, Present, IdsOf
  <2> QED
    BY <2>2, <2>3 DEF TrashInv
<1> QED
  BY <1>1, <1>2

\* The invariant gives the types and both promises of the bin.
LEMMA TrashInvHolds == TrashInv => TrashTypeOK /\ TrashHolds
<1> SUFFICES ASSUME TrashInv PROVE TrashTypeOK /\ TrashHolds
  OBVIOUS
<1>1. TrashTypeOK
  BY RequestSays DEF TrashInv, TrashTyped, TreeTyped, HistoryTyped, TrashTypeOK
<1>2. ListIsTrue
  BY DEF TrashInv, BinInv, InBin, ListIsTrue
<1> QED
  BY <1>1, <1>2 DEF TrashInv, TrashHolds

\* TrashHolds: no file is lost by a request of the bin, whichever of its moves fails,
\* and what is in the bin is in the list, for any number of paths, files and failures.
THEOREM TrashSafe == TrashSpec => [](TrashTypeOK /\ TrashHolds)
<1> QED
  BY TrashInvHolds, TrashInitHolds, TrashStep, PTL DEF TrashSpec

-----------------------------------------------------------------------------
(* The backups: types.                                                      *)

\* What a request asks for, and where it is.
BackupKind == {"start", "stop", "remove", "backup", "restore"}
BackupLabel == {"idle", "begun", "launch", "publish", "release", "again", "kill", "kept", "unlist",
          "delete", "copy", "claim", "open", "unzip", "done", "failed"}
DataContents == [DataFile -> 0..MaxEdits]

\* A request, and a backup, with all they hold.
BackupReq == [op : BackupKind, pc : BackupLabel, proc : Nat, zip : {0} \cup Second, todo : SUBSET DataFile,
        kept : DataContents, unzipped : SUBSET DataFile]
BackupZip == [there : BOOLEAN, has : SUBSET DataFile, copy : DataContents, ended : BOOLEAN]

\* The types: of the requests,
ReqTyped == breq \in [BackupRequest -> BackupReq]

\* of the backups and the files,
ZipsTyped ==
    /\ zips \in [Second -> BackupZip] /\ second \in Second /\ data \in DataContents /\ edits \in 0..MaxEdits
    /\ finished \subseteq Second

\* and of the processes, which are numbered as they are made.
ProcsTyped == lastProc \in Nat /\ proc \in 0..lastProc /\ running \subseteq 1..lastProc

\* The request becomes this one, and the others stay.
ReqBecomes(q, o, l, p, z, t, k, done) ==
    /\ breq' \in [BackupRequest -> BackupReq] /\ \A r \in BackupRequest \ {q} : breq'[r] = breq[r]
    /\ breq'[q].op = o /\ breq'[q].pc = l /\ breq'[q].proc = p /\ breq'[q].zip = z
    /\ breq'[q].todo = t /\ breq'[q].kept = k /\ breq'[q].unzipped = done

\* It only goes on to l.
ReqMoves(q, l) ==
    ReqBecomes(q, breq[q].op, l, breq[q].proc, breq[q].zip, breq[q].todo, breq[q].kept, breq[q].unzipped)

-----------------------------------------------------------------------------
(* The backups: what a request becomes.                                     *)

\* The fields of a request.
LEMMA ReqSays ==
    ASSUME ReqTyped, NEW q \in BackupRequest
    PROVE  /\ breq[q] \in BackupReq
           /\ breq[q].op \in BackupKind /\ breq[q].pc \in BackupLabel /\ breq[q].proc \in Nat /\ breq[q].zip \in {0} \cup Second
           /\ breq[q].todo \subseteq DataFile /\ breq[q].kept \in DataContents /\ breq[q].unzipped \subseteq DataFile
BY DEF ReqTyped, BackupReq

\* A request that is replaced as a whole,
LEMMA ReqBecoming ==
    ASSUME ReqTyped, NEW q \in BackupRequest, NEW o \in BackupKind, NEW l \in BackupLabel, NEW p \in Nat, NEW z \in {0} \cup Second,
           NEW t \in SUBSET DataFile, NEW k \in DataContents, NEW done \in SUBSET DataFile,
           breq' = [breq EXCEPT ![q] = [op |-> o, pc |-> l, proc |-> p, zip |-> z, todo |-> t, kept |-> k, unzipped |-> done]]
    PROVE  ReqBecomes(q, o, l, p, z, t, k, done)
<1> DEFINE new == [op |-> o, pc |-> l, proc |-> p, zip |-> z, todo |-> t, kept |-> k, unzipped |-> done]
<1>1. new \in BackupReq /\ new.op = o /\ new.pc = l /\ new.proc = p /\ new.zip = z /\ new.todo = t /\ new.kept = k /\ new.unzipped = done
  BY DEF BackupReq
<1>2. breq' = [breq EXCEPT ![q] = new]
  OBVIOUS
<1> HIDE DEF new
<1> QED
  BY <1>1, <1>2 DEF ReqTyped, ReqBecomes

\* one that goes on,
LEMMA ReqMoving ==
    ASSUME ReqTyped, NEW q \in BackupRequest, NEW l \in BackupLabel, BackupGoes(q, l)
    PROVE  ReqMoves(q, l)
<1>1. ASSUME NEW r \in BackupReq
      PROVE  [r EXCEPT !.pc = l] = [op |-> r.op, pc |-> l, proc |-> r.proc, zip |-> r.zip, todo |-> r.todo, kept |-> r.kept, unzipped |-> r.unzipped]
  BY DEF BackupReq
<1>2. breq' = [breq EXCEPT ![q] = [breq[q] EXCEPT !.pc = l]]
  BY DEF BackupGoes, ReqTyped
<1>3. breq' = [breq EXCEPT ![q] = [op |-> breq[q].op, pc |-> l, proc |-> breq[q].proc, zip |-> breq[q].zip, todo |-> breq[q].todo,
                                   kept |-> breq[q].kept, unzipped |-> breq[q].unzipped]]
  BY <1>1, <1>2, ReqSays
<1> QED
  BY <1>3, ReqSays, ReqBecoming DEF ReqMoves

\* that goes on with a process,
LEMMA ReqMovingWith ==
    ASSUME ReqTyped, NEW q \in BackupRequest, NEW l \in BackupLabel, NEW p \in Nat, breq' = [breq EXCEPT ![q].pc = l, ![q].proc = p]
    PROVE  ReqBecomes(q, breq[q].op, l, p, breq[q].zip, breq[q].todo, breq[q].kept, breq[q].unzipped)
<1>1. ASSUME NEW r \in BackupReq
      PROVE  [r EXCEPT !.pc = l, !.proc = p] = [op |-> r.op, pc |-> l, proc |-> p, zip |-> r.zip, todo |-> r.todo, kept |-> r.kept, unzipped |-> r.unzipped]
  <2> DEFINE r1 == [op |-> r.op, pc |-> l, proc |-> r.proc, zip |-> r.zip, todo |-> r.todo, kept |-> r.kept, unzipped |-> r.unzipped]
  <2>1. [r EXCEPT !.pc = l] = r1
    BY DEF BackupReq
  <2> DEFINE r2 == [op |-> r.op, pc |-> l, proc |-> p, zip |-> r.zip, todo |-> r.todo, kept |-> r.kept, unzipped |-> r.unzipped]
  <2>2. [r1 EXCEPT !.proc = p] = r2
    BY DEF BackupReq
  <2>3. [r EXCEPT !.pc = l, !.proc = p] = [[r EXCEPT !.pc = l] EXCEPT !.proc = p]
    OBVIOUS
  <2> QED
    BY <2>1, <2>2, <2>3
<1>2. breq' = [breq EXCEPT ![q] = [breq[q] EXCEPT !.pc = l, !.proc = p]]
  BY DEF ReqTyped
<1>3. breq' = [breq EXCEPT ![q] = [op |-> breq[q].op, pc |-> l, proc |-> p, zip |-> breq[q].zip, todo |-> breq[q].todo,
                                   kept |-> breq[q].kept, unzipped |-> breq[q].unzipped]]
  BY <1>1, <1>2, ReqSays
<1> QED
  BY <1>3, ReqSays, ReqBecoming

\* that begins,
LEMMA ReqBeginning ==
    ASSUME ReqTyped, NEW q \in BackupRequest, NEW op \in BackupKind, BeginBackupOp(q, op)
    PROVE  ReqBecomes(q, op, "begun", 0, 0, {}, NoZip.copy, {})
<1>1. NoZip.copy \in DataContents
  BY BackupAssumption DEF NoZip, DataContents
<1>2. [BackupFree EXCEPT !.op = op, !.pc = "begun"]
       = [op |-> op, pc |-> "begun", proc |-> 0, zip |-> 0, todo |-> {}, kept |-> NoZip.copy, unzipped |-> {}]
  <2> DEFINE r1 == [op |-> op, pc |-> "idle", proc |-> 0, zip |-> 0, todo |-> {}, kept |-> NoZip.copy, unzipped |-> {}]
  <2>1. [BackupFree EXCEPT !.op = op] = r1
    BY DEF BackupFree
  <2> DEFINE r2 == [op |-> op, pc |-> "begun", proc |-> 0, zip |-> 0, todo |-> {}, kept |-> NoZip.copy, unzipped |-> {}]
  <2>2. [r1 EXCEPT !.pc = "begun"] = r2
    BY SMTT(30) DEF BackupFree
  <2>3. [BackupFree EXCEPT !.op = op, !.pc = "begun"] = [[BackupFree EXCEPT !.op = op] EXCEPT !.pc = "begun"]
    OBVIOUS
  <2> QED
    BY <2>1, <2>2, <2>3
<1>3. breq' = [breq EXCEPT ![q] = [op |-> op, pc |-> "begun", proc |-> 0, zip |-> 0, todo |-> {}, kept |-> NoZip.copy, unzipped |-> {}]]
  BY <1>2 DEF BeginBackupOp
<1> QED
  BY <1>1, <1>3, ReqBecoming DEF BackupLabel

\* that has opened a backup to write it,
LEMMA ReqOpening ==
    ASSUME ReqTyped, NEW q \in BackupRequest, NEW s \in Second, NEW found \in SUBSET DataFile,
           breq' = [breq EXCEPT ![q].pc = "copy", ![q].zip = s, ![q].todo = found]
    PROVE  ReqBecomes(q, breq[q].op, "copy", breq[q].proc, s, found, breq[q].kept, breq[q].unzipped)
<1>1. ASSUME NEW r \in BackupReq
      PROVE  [r EXCEPT !.pc = "copy", !.zip = s, !.todo = found]
              = [op |-> r.op, pc |-> "copy", proc |-> r.proc, zip |-> s, todo |-> found, kept |-> r.kept, unzipped |-> r.unzipped]
  <2> DEFINE r1 == [op |-> r.op, pc |-> "copy", proc |-> r.proc, zip |-> r.zip, todo |-> r.todo, kept |-> r.kept, unzipped |-> r.unzipped]
  <2>1. [r EXCEPT !.pc = "copy"] = r1
    BY DEF BackupReq
  <2> DEFINE r2 == [op |-> r.op, pc |-> "copy", proc |-> r.proc, zip |-> s, todo |-> r.todo, kept |-> r.kept, unzipped |-> r.unzipped]
  <2>2. [r1 EXCEPT !.zip = s] = r2
    BY DEF BackupReq
  <2> DEFINE r3 == [op |-> r.op, pc |-> "copy", proc |-> r.proc, zip |-> s, todo |-> found, kept |-> r.kept, unzipped |-> r.unzipped]
  <2>3. [r2 EXCEPT !.todo = found] = r3
    BY DEF BackupReq
  <2>4. [r EXCEPT !.pc = "copy", !.zip = s, !.todo = found] = [[[r EXCEPT !.pc = "copy"] EXCEPT !.zip = s] EXCEPT !.todo = found]
    OBVIOUS
  <2> QED
    BY <2>1, <2>2, <2>3, <2>4
<1>2. breq' = [breq EXCEPT ![q] = [breq[q] EXCEPT !.pc = "copy", !.zip = s, !.todo = found]]
  BY DEF ReqTyped
<1>3. breq' = [breq EXCEPT ![q] = [op |-> breq[q].op, pc |-> "copy", proc |-> breq[q].proc, zip |-> s, todo |-> found,
                                   kept |-> breq[q].kept, unzipped |-> breq[q].unzipped]]
  BY <1>1, <1>2, ReqSays
<1> QED
  BY <1>3, ReqSays, ReqBecoming DEF BackupLabel

\* that has opened one to restore it,
LEMMA ReqUnpacking ==
    ASSUME ReqTyped, NEW q \in BackupRequest, NEW k \in DataContents, NEW t \in SUBSET DataFile,
           breq' = [breq EXCEPT ![q].pc = "unzip", ![q].kept = k, ![q].todo = t]
    PROVE  ReqBecomes(q, breq[q].op, "unzip", breq[q].proc, breq[q].zip, t, k, breq[q].unzipped)
<1>1. ASSUME NEW r \in BackupReq
      PROVE  [r EXCEPT !.pc = "unzip", !.kept = k, !.todo = t]
              = [op |-> r.op, pc |-> "unzip", proc |-> r.proc, zip |-> r.zip, todo |-> t, kept |-> k, unzipped |-> r.unzipped]
  <2> DEFINE r1 == [op |-> r.op, pc |-> "unzip", proc |-> r.proc, zip |-> r.zip, todo |-> r.todo, kept |-> r.kept, unzipped |-> r.unzipped]
  <2>1. [r EXCEPT !.pc = "unzip"] = r1
    BY DEF BackupReq
  <2> DEFINE r2 == [op |-> r.op, pc |-> "unzip", proc |-> r.proc, zip |-> r.zip, todo |-> r.todo, kept |-> k, unzipped |-> r.unzipped]
  <2>2. [r1 EXCEPT !.kept = k] = r2
    BY DEF BackupReq
  <2> DEFINE r3 == [op |-> r.op, pc |-> "unzip", proc |-> r.proc, zip |-> r.zip, todo |-> t, kept |-> k, unzipped |-> r.unzipped]
  <2>3. [r2 EXCEPT !.todo = t] = r3
    BY DEF BackupReq
  <2>4. [r EXCEPT !.pc = "unzip", !.kept = k, !.todo = t] = [[[r EXCEPT !.pc = "unzip"] EXCEPT !.kept = k] EXCEPT !.todo = t]
    OBVIOUS
  <2> QED
    BY <2>1, <2>2, <2>3, <2>4
<1>2. breq' = [breq EXCEPT ![q] = [breq[q] EXCEPT !.pc = "unzip", !.kept = k, !.todo = t]]
  BY DEF ReqTyped
<1>3. breq' = [breq EXCEPT ![q] = [op |-> breq[q].op, pc |-> "unzip", proc |-> breq[q].proc, zip |-> breq[q].zip, todo |-> t,
                                   kept |-> k, unzipped |-> breq[q].unzipped]]
  BY <1>1, <1>2, ReqSays
<1> QED
  BY <1>3, ReqSays, ReqBecoming DEF BackupLabel

\* and one that has done a file.
LEMMA ReqTodoShrinks ==
    ASSUME ReqTyped, NEW q \in BackupRequest, NEW f \in DataFile, NEW done \in SUBSET DataFile,
           \/ breq' = [breq EXCEPT ![q].todo = @ \ {f}] /\ done = breq[q].unzipped
           \/ breq' = [breq EXCEPT ![q].todo = @ \ {f}, ![q].unzipped = @ \cup {f}] /\ done = breq[q].unzipped \cup {f}
    PROVE  ReqBecomes(q, breq[q].op, breq[q].pc, breq[q].proc, breq[q].zip, breq[q].todo \ {f}, breq[q].kept, done)
<1>1. ASSUME NEW r \in BackupReq
      PROVE  /\ [r EXCEPT !.todo = @ \ {f}]
                 = [op |-> r.op, pc |-> r.pc, proc |-> r.proc, zip |-> r.zip, todo |-> r.todo \ {f}, kept |-> r.kept, unzipped |-> r.unzipped]
             /\ [r EXCEPT !.todo = @ \ {f}, !.unzipped = @ \cup {f}]
                 = [op |-> r.op, pc |-> r.pc, proc |-> r.proc, zip |-> r.zip, todo |-> r.todo \ {f}, kept |-> r.kept, unzipped |-> r.unzipped \cup {f}]
  <2> DEFINE r1 == [r EXCEPT !.todo = @ \ {f}]
  <2>1. r1 = [op |-> r.op, pc |-> r.pc, proc |-> r.proc, zip |-> r.zip, todo |-> r.todo \ {f}, kept |-> r.kept, unzipped |-> r.unzipped]
    BY DEF BackupReq
  <2>2. /\ r1 \in BackupReq /\ r1.op = r.op /\ r1.pc = r.pc /\ r1.proc = r.proc /\ r1.zip = r.zip
        /\ r1.todo = r.todo \ {f} /\ r1.kept = r.kept /\ r1.unzipped = r.unzipped
    BY DEF BackupReq
  <2>3. ASSUME NEW z \in BackupReq, NEW d \in SUBSET DataFile
        PROVE  [z EXCEPT !.unzipped = d] = [op |-> z.op, pc |-> z.pc, proc |-> z.proc, zip |-> z.zip, todo |-> z.todo, kept |-> z.kept, unzipped |-> d]
    BY DEF BackupReq
  <2>4. [r EXCEPT !.todo = @ \ {f}, !.unzipped = @ \cup {f}] = [r1 EXCEPT !.unzipped = r1.unzipped \cup {f}]
    OBVIOUS
  <2>5. r1.unzipped \cup {f} \in SUBSET DataFile
    BY <2>2 DEF BackupReq
  <2> HIDE DEF r1
  <2>6. [r EXCEPT !.todo = @ \ {f}, !.unzipped = @ \cup {f}]
         = [op |-> r1.op, pc |-> r1.pc, proc |-> r1.proc, zip |-> r1.zip, todo |-> r1.todo, kept |-> r1.kept, unzipped |-> r1.unzipped \cup {f}]
    BY <2>2, <2>3, <2>4, <2>5
  <2>7. [r EXCEPT !.todo = @ \ {f}, !.unzipped = @ \cup {f}]
         = [op |-> r.op, pc |-> r.pc, proc |-> r.proc, zip |-> r.zip, todo |-> r.todo \ {f}, kept |-> r.kept, unzipped |-> r.unzipped \cup {f}]
    BY <2>2, <2>6
  <2> QED
    BY <2>1, <2>7 DEF r1
<1>2. \/ breq' = [breq EXCEPT ![q] = [breq[q] EXCEPT !.todo = @ \ {f}]] /\ done = breq[q].unzipped
      \/ breq' = [breq EXCEPT ![q] = [breq[q] EXCEPT !.todo = @ \ {f}, !.unzipped = @ \cup {f}]] /\ done = breq[q].unzipped \cup {f}
  BY DEF ReqTyped
<1>3. breq' = [breq EXCEPT ![q] = [op |-> breq[q].op, pc |-> breq[q].pc, proc |-> breq[q].proc, zip |-> breq[q].zip,
                                   todo |-> breq[q].todo \ {f}, kept |-> breq[q].kept, unzipped |-> done]]
  BY <1>1, <1>2, ReqSays
<1> QED
  BY <1>3, ReqSays, ReqBecoming

-----------------------------------------------------------------------------
(* The backups: their inductive invariant.                                  *)

\* A request is where its kind may be, and a start that has published knows its process.
ShapeOf(q) ==
    /\ breq[q].op = "start" => breq[q].pc \in {"idle", "begun", "launch", "publish", "release", "again", "done", "failed"}
    /\ breq[q].op = "stop" => breq[q].pc \in {"idle", "begun", "kill", "release", "again", "done", "failed"}
    /\ breq[q].op = "remove" => breq[q].pc \in {"idle", "begun", "kill", "unlist", "delete", "done", "failed"}
    /\ breq[q].op = "backup" => breq[q].pc \in {"idle", "begun", "copy", "done", "failed"}
    /\ breq[q].op = "restore" => breq[q].pc \in {"idle", "begun", "kill", "release", "claim", "open", "unzip", "again", "done", "failed"}
    /\ breq[q].op = "start" /\ breq[q].pc \in {"publish", "release"} => breq[q].proc # 0
    /\ breq[q].pc \in {"begun", "kill", "release", "claim", "open"} => breq[q].unzipped = {}
    /\ breq[q].pc = "launch" => breq[q].unzipped = {}
    /\ breq[q].pc = "publish" => breq[q].unzipped = {}

\* So is every request.
ShapeInv == \A q \in BackupRequest : ShapeOf(q)

\* A request knows no process that is not there yet.
ProcOf(q) == breq[q].proc <= lastProc

\* Requests that hold a process that Proc may not name.
Carries(q) == breq[q].pc \in {"publish", "kill"} /\ breq[q].op # "remove"

\* Requests during which nothing runs.
Halted(q) == breq[q].pc \in {"launch", "claim", "open", "unzip"} \/ (breq[q].pc = "release" /\ breq[q].op # "start")

\* At most one request has Busy, Busy is set while one has it, and a restore that is
\* about to claim it meets no start that is about to launch.
OneClaim ==
    /\ \A q, o \in BackupRequest : HasClaim(q) /\ HasClaim(o) => q = o
    /\ \A q \in BackupRequest : HasClaim(q) => busy
    /\ \A q, o \in BackupRequest : breq[q].pc = "claim" => breq[o].pc # "launch"

\* What runs is Proc, or a request holds it; nothing runs while a request relies on
\* that.
KnownProcs ==
    /\ \A p \in running : p = proc \/ \E q \in BackupRequest : Carries(q) /\ breq[q].proc = p
    /\ \A q \in BackupRequest : Halted(q) => running = {}
    /\ stopped => proc \notin running
    /\ \A q \in BackupRequest : breq[q].pc = "kill" /\ breq[q].op # "remove" => proc = 0
    /\ \A q \in BackupRequest : breq[q].pc = "publish" => running \subseteq {breq[q].proc}

\* Both hold outside the window of RestoreIsAlone.
ClaimInv == "restore" \notin slipped => OneClaim /\ KnownProcs

\* What a restore has unzipped is as it unzipped it.
UnzippedAt(q) == breq[q].pc = "unzip" => \A f \in breq[q].unzipped : data[f] = breq[q].kept[f]
UnzipInv == "restore" \notin slipped => \A q \in BackupRequest : UnzippedAt(q)

\* A removal has killed what it read, and nothing was started since.
RemovedAt(q) ==
    breq[q].op = "remove" =>
        /\ breq[q].pc = "kill" => running \subseteq {breq[q].proc}
        /\ breq[q].pc \in {"unlist", "delete"} => running = {}
        /\ breq[q].pc = "delete" => ~listed
Removed == (\A q \in BackupRequest : RemovedAt(q)) /\ (~listed => running = {})

\* So it is outside the windows of RemovedIsDead.
RemoveInv == slipped = {} => Removed

\* What a backup under way has not copied yet, it has still to copy.
CopyOf(q) ==
    breq[q].op = "backup" /\ breq[q].pc = "copy" =>
        /\ breq[q].zip \in Second
        /\ breq[q].zip \notin doubled => zips[breq[q].zip].there /\ DataFile \subseteq breq[q].todo \cup zips[breq[q].zip].has

\* A backup whose task is done has every file and its directory.
WholeAt(s) == s \in finished /\ s \notin doubled => zips[s].there /\ zips[s].ended /\ zips[s].has = DataFile
ZipInv ==
    /\ \A q \in BackupRequest : CopyOf(q)
    /\ \A s \in Second : WholeAt(s)

-----------------------------------------------------------------------------
(* The backups: what each action does to the requests.                      *)

\* startInstance, claim: refused, or Busy is set.
LEMMA ClaimStartSays ==
    ASSUME ReqTyped, NEW q \in BackupRequest, ClaimStart(q)
    PROVE  /\ breq[q].op = "start" /\ breq[q].pc = "begun"
           /\ \/ ReqMoves(q, "failed") /\ UNCHANGED <<busy, stopped, slipped>>
              \/ /\ ~busy /\ ~Alive /\ ReqMoves(q, "launch") /\ busy' = TRUE /\ stopped' = FALSE
                 /\ slipped' = slipped \cup {w \in {"restore"} : Doing(w, {"claim"})}
           /\ UNCHANGED <<listed, running, proc, lastProc, backupDisk, edits, second, backupOps, finished, doubled>>
BY ReqMoving DEF BackupLabel, BackupAt, ClaimStart

\* startInstance, launch: a new process, or none.
LEMMA LaunchSays ==
    ASSUME ReqTyped, NEW q \in BackupRequest, Launch(q), ProcsTyped
    PROVE  /\ breq[q].op = "start" /\ breq[q].pc = "launch"
           /\ \/ /\ lastProc' = lastProc + 1 /\ running' = running \cup {lastProc + 1} /\ stopped' = stopped
                 /\ ReqBecomes(q, "start", "publish", lastProc + 1, breq[q].zip, breq[q].todo, breq[q].kept, breq[q].unzipped)
              \/ ReqMoves(q, "again") /\ stopped' = TRUE /\ UNCHANGED <<lastProc, running>>
           /\ slipped' = slipped \cup {w \in {"remove"} : ~listed \/ Doing(w, {"kill", "unlist"})}
           /\ UNCHANGED <<listed, busy, proc, backupDisk, edits, second, backupOps, finished, doubled>>
<1>1. breq[q].op = "start" /\ breq[q].pc = "launch" /\ lastProc + 1 \in Nat
  BY DEF BackupAt, Launch, ProcsTyped
<1>2. CASE BackupGoes(q, "again") /\ stopped' = TRUE /\ UNCHANGED <<lastProc, running>>
  <2>1. ReqMoves(q, "again")
    BY <1>2, ReqMoving DEF BackupLabel
  <2> QED
    BY <1>1, <1>2, <2>1, ZenonT(60) DEF Launch
<1>3. CASE breq' = [breq EXCEPT ![q].pc = "publish", ![q].proc = lastProc + 1]
  <2>1. ReqBecomes(q, breq[q].op, "publish", lastProc + 1, breq[q].zip, breq[q].todo, breq[q].kept, breq[q].unzipped)
    BY <1>1, <1>3, ReqMovingWith DEF BackupLabel
  <2>2. CASE lastProc' = lastProc + 1
    BY <1>1, <1>2, <2>1, <2>2 DEF Launch
  <2>3. CASE lastProc' # lastProc + 1
    BY <1>2, <2>3 DEF Launch
  <2> QED
    BY <2>2, <2>3
<1> QED
  BY <1>2, <1>3 DEF Launch

\* startInstance, publish: Proc is the new process.
LEMMA PublishSays ==
    ASSUME ReqTyped, NEW q \in BackupRequest, Publish(q)
    PROVE  /\ breq[q].op = "start" /\ breq[q].pc = "publish" /\ ReqMoves(q, "release")
           /\ proc' = breq[q].proc /\ stopped' = FALSE
           /\ UNCHANGED <<listed, busy, running, lastProc, backupDisk, edits, second, backupOps, backupHistory>>
BY ReqMoving DEF BackupLabel, BackupAt, Publish

\* Busy is cleared: once by a stop, twice by a start.
LEMMA ReleaseSays ==
    ASSUME ReqTyped, NEW q \in BackupRequest, ReleaseBusy(q), ShapeInv
    PROVE  /\ breq[q].pc \in {"release", "again"} /\ busy' = FALSE
           /\ \/ breq[q].op = "start" /\ breq[q].pc = "release" /\ ReqMoves(q, "again")
              \/ breq[q].op = "restore" /\ breq[q].pc = "release" /\ ReqMoves(q, "claim")
              \/ breq[q].op = "restore" /\ breq[q].pc = "again" /\ ReqMoves(q, "failed")
              \/ breq[q].op = "start" /\ breq[q].pc = "again" /\ ReqMoves(q, "done")
              \/ breq[q].op = "stop" /\ ReqMoves(q, "done")
           /\ slipped' = slipped \cup
                {w \in {"restore"} : breq[q].op = "start" /\ breq[q].pc = "again" /\ \E o \in BackupRequest \ {q} : HasClaim(o)}
           /\ UNCHANGED <<listed, stopped, running, proc, lastProc, backupDisk, edits, second, backupOps, finished, doubled>>
BY ReqMoving, ReqSays DEF BackupKind, BackupLabel, BackupAt, ReleaseBusy, ShapeInv, ShapeOf

\* stopInstance, claim: refused, nothing to stop, or the process is taken out of Proc.
LEMMA ClaimStopSays ==
    ASSUME ReqTyped, NEW q \in BackupRequest, ClaimStop(q), ProcsTyped
    PROVE  /\ breq[q].op \in {"stop", "restore"} /\ breq[q].pc = "begun"
           /\ \/ ReqMoves(q, "failed") /\ UNCHANGED <<busy, stopped, proc>>
              \/ breq[q].op = "restore" /\ ~busy /\ ~Alive /\ ReqMoves(q, "claim") /\ UNCHANGED <<busy, stopped, proc>>
              \/ /\ ~busy /\ Alive /\ busy' = TRUE /\ stopped' = FALSE /\ proc' = 0
                 /\ ReqBecomes(q, breq[q].op, "kill", proc, breq[q].zip, breq[q].todo, breq[q].kept, breq[q].unzipped)
           /\ UNCHANGED <<listed, running, lastProc, backupDisk, edits, second, backupOps, backupHistory>>
<1>1. breq[q].op \in {"stop", "restore"} /\ breq[q].pc = "begun" /\ proc \in Nat
  BY DEF ClaimStop, ProcsTyped
<1>2. CASE BackupGoes(q, "failed") /\ UNCHANGED <<busy, stopped, proc>>
  <2>1. ReqMoves(q, "failed")
    BY <1>2, ReqMoving DEF BackupLabel
  <2> QED
    BY <1>1, <1>2, <2>1 DEF ClaimStop
<1>3. CASE breq[q].op = "restore" /\ ~busy /\ ~Alive /\ BackupGoes(q, "claim") /\ UNCHANGED <<busy, stopped, proc>>
  <2>1. ReqMoves(q, "claim")
    BY <1>3, ReqMoving DEF BackupLabel
  <2> QED
    BY <1>1, <1>3, <2>1 DEF ClaimStop
<1>4. CASE /\ ~busy /\ Alive /\ busy' = TRUE /\ stopped' = FALSE /\ proc' = 0
           /\ breq' = [breq EXCEPT ![q].pc = "kill", ![q].proc = proc]
  <2>1. ReqBecomes(q, breq[q].op, "kill", proc, breq[q].zip, breq[q].todo, breq[q].kept, breq[q].unzipped)
    BY <1>1, <1>4, ReqMovingWith DEF BackupLabel
  <2> QED
    BY <1>1, <1>4, <2>1 DEF ClaimStop
<1> QED
  BY <1>2, <1>3, <1>4 DEF ClaimStop

\* stopInstance, kill: the process is dead, or is put back.
LEMMA StopProcessSays ==
    ASSUME ReqTyped, NEW q \in BackupRequest, StopProcess(q)
    PROVE  /\ breq[q].op \in {"stop", "restore"} /\ breq[q].pc = "kill"
           /\ \/ running' = running \ {breq[q].proc} /\ stopped' = TRUE /\ ReqMoves(q, "release") /\ UNCHANGED proc
              \/ /\ breq[q].proc \in running /\ UNCHANGED running
                 /\ proc' = breq[q].proc /\ stopped' = FALSE /\ ReqMoves(q, "again")
           /\ UNCHANGED <<listed, busy, lastProc, backupDisk, edits, second, backupOps, backupHistory>>
BY ReqMoving DEF BackupLabel, BackupAt, StopProcess

\* Remove reads Proc.
LEMMA ReadProcSays ==
    ASSUME ReqTyped, NEW q \in BackupRequest, ReadProc(q), ProcsTyped
    PROVE  /\ breq[q].op = "remove" /\ breq[q].pc = "begun"
           /\ ReqBecomes(q, "remove", IF HasProcess(q) THEN "kill" ELSE "unlist", proc, breq[q].zip, breq[q].todo, breq[q].kept, breq[q].unzipped)
           /\ slipped' = slipped \cup {w \in {"remove"} : \E o \in BackupRequest :
                                          breq[o].pc \in {"launch", "publish", "kill"} /\ breq[o].op # "remove"}
           /\ UNCHANGED <<instance, backupDisk, edits, second, backupOps, finished, doubled>>
<1> DEFINE l == IF HasProcess(q) THEN "kill" ELSE "unlist"
<1>1. breq[q].op = "remove" /\ breq[q].pc = "begun" /\ l \in BackupLabel /\ proc \in Nat
  BY DEF BackupAt, ReadProc, ProcsTyped, BackupLabel
<1>2. breq' = [breq EXCEPT ![q].pc = l, ![q].proc = proc]
  BY DEF ReadProc
<1> HIDE DEF l
<1>3. ReqBecomes(q, breq[q].op, l, proc, breq[q].zip, breq[q].todo, breq[q].kept, breq[q].unzipped)
  BY <1>1, <1>2, ReqMovingWith
<1> QED
  BY <1>1, <1>3 DEF ReadProc, l

\* Remove kills what it has read, or gives up.
LEMMA KillRemovedSays ==
    ASSUME ReqTyped, NEW q \in BackupRequest, KillRemoved(q)
    PROVE  /\ breq[q].op = "remove" /\ breq[q].pc = "kill"
           /\ \/ ReqMoves(q, "unlist") /\ running' = running \ {breq[q].proc}
              \/ ReqMoves(q, "failed") /\ running' = running
           /\ UNCHANGED <<listed, busy, stopped, proc, lastProc, backupDisk, edits, second, backupOps, backupHistory>>
BY ReqMoving DEF BackupLabel, BackupAt, KillRemoved

\* Remove takes the instance out of the list.
LEMMA UnlistSays ==
    ASSUME ReqTyped, NEW q \in BackupRequest, Unlist(q)
    PROVE  /\ breq[q].op = "remove" /\ breq[q].pc = "unlist" /\ listed' = FALSE /\ ReqMoves(q, "delete")
           /\ UNCHANGED <<busy, stopped, running, proc, lastProc, backupDisk, edits, second, backupOps, backupHistory>>
BY ReqMoving, SMTT(30) DEF BackupLabel, BackupAt, Unlist

\* Remove deletes the files, as far as it can.
LEMMA DeleteDataSays ==
    ASSUME ReqTyped, NEW q \in BackupRequest, DeleteData(q)
    PROVE  /\ breq[q].op = "remove" /\ breq[q].pc = "delete" /\ ReqMoves(q, "done")
           /\ data' \in {data, [f \in DataFile |-> 0]}
           /\ slipped' = slipped \cup {w \in {"restore"} : Doing(w, {"unzip"})}
           /\ UNCHANGED <<instance, zips, edits, second, backupOps, finished, doubled>>
BY ReqMoving, SMTT(30) DEF BackupLabel, BackupAt, DeleteData

\* A backup creates the file of its second, over another of the same second.
LEMMA OpenBackupSays ==
    ASSUME ReqTyped, NEW q \in BackupRequest, OpenBackup(q), ZipsTyped
    PROVE  /\ breq[q].op = "backup" /\ breq[q].pc = "begun"
           /\ \/ \E found \in SUBSET DataFile :
                 /\ ReqBecomes(q, "backup", "copy", breq[q].proc, second, found, breq[q].kept, breq[q].unzipped)
                 /\ zips' = [zips EXCEPT ![second] = [NoZip EXCEPT !.there = TRUE]]
                 /\ doubled' = IF zips[second].there \/ found # DataFile THEN doubled \cup {second} ELSE doubled
              \/ ReqMoves(q, "failed") /\ UNCHANGED <<zips, doubled>>
           /\ UNCHANGED <<instance, data, edits, second, backupOps, finished, slipped>>
<1>1. breq[q].op = "backup" /\ breq[q].pc = "begun" /\ second \in Second
  BY DEF OpenBackup, BackupAt, ZipsTyped
<1>2. UNCHANGED <<instance, data, edits, second, backupOps, finished, slipped>>
  BY DEF OpenBackup
<1>3. CASE BackupGoes(q, "failed") /\ UNCHANGED <<zips, doubled>>
  BY <1>1, <1>2, <1>3, ReqMoving, ZenonT(60) DEF BackupLabel
<1>4. ASSUME NEW found \in SUBSET DataFile,
             breq' = [breq EXCEPT ![q].pc = "copy", ![q].zip = second, ![q].todo = found]
      PROVE  ReqBecomes(q, "backup", "copy", breq[q].proc, second, found, breq[q].kept, breq[q].unzipped)
  BY <1>1, <1>4, ReqOpening
<1> QED
  BY <1>1, <1>2, <1>3, <1>4, Zenon DEF OpenBackup

\* A backup copies one file.
LEMMA CopyDataSays ==
    ASSUME ReqTyped, NEW q \in BackupRequest, NEW f \in DataFile, CopyData(q, f)
    PROVE  /\ breq[q].op = "backup" /\ breq[q].pc = "copy" /\ f \in breq[q].todo
           /\ ReqBecomes(q, "backup", "copy", breq[q].proc, breq[q].zip, breq[q].todo \ {f}, breq[q].kept, breq[q].unzipped)
           /\ zips' = IF zips[breq[q].zip].there
                       THEN [zips EXCEPT ![breq[q].zip].copy[f] = data[f], ![breq[q].zip].has = @ \cup {f}] ELSE zips
           /\ UNCHANGED <<instance, data, edits, second, backupOps, backupHistory>>
BY ReqTodoShrinks, ReqSays DEF BackupAt, CopyData

\* A backup writes the directory of the zip, and its task is done or failed.
LEMMA CloseBackupSays ==
    ASSUME ReqTyped, NEW q \in BackupRequest, CloseBackup(q)
    PROVE  /\ breq[q].op = "backup" /\ breq[q].pc = "copy"
           /\ \/ zips' = [zips EXCEPT ![breq[q].zip].ended = zips[breq[q].zip].there] /\ UNCHANGED doubled
              \/ doubled' = doubled \cup {breq[q].zip} /\ UNCHANGED zips
           /\ \/ breq[q].todo = {} /\ ReqMoves(q, "done") /\ finished' = finished \cup {breq[q].zip}
              \/ ReqMoves(q, "failed") /\ UNCHANGED finished
           /\ UNCHANGED <<instance, data, edits, second, backupOps, slipped>>
BY ReqMoving DEF BackupLabel, BackupAt, CloseBackup, AllCopied

\* A restore sets Busy without asking.
LEMMA ClaimRestoreSays ==
    ASSUME ReqTyped, NEW q \in BackupRequest, ClaimRestore(q)
    PROVE  /\ breq[q].op = "restore" /\ breq[q].pc = "claim" /\ ReqMoves(q, "open") /\ busy' = TRUE
           /\ slipped' = slipped \cup {w \in {"restore"} : busy}
           /\ UNCHANGED <<listed, stopped, running, proc, lastProc, backupDisk, edits, second, backupOps, finished, doubled>>
BY ReqMoving DEF BackupLabel, BackupAt, ClaimRestore, SetBusy

\* A restore opens a whole backup, or fails.
LEMMA OpenRestoreSays ==
    ASSUME ReqTyped, NEW q \in BackupRequest, NEW s \in Second, ZipsTyped, OpenRestore(q, s)
    PROVE  /\ breq[q].op = "restore" /\ breq[q].pc = "open"
           /\ \/ /\ zips[s].there /\ zips[s].ended
                 /\ ReqBecomes(q, "restore", "unzip", breq[q].proc, breq[q].zip, zips[s].has, zips[s].copy, breq[q].unzipped)
              \/ ReqMoves(q, "again")
           /\ UNCHANGED <<instance, backupDisk, edits, second, backupOps, backupHistory>>
<1>1. breq[q].op = "restore" /\ breq[q].pc = "open"
  BY DEF BackupAt, OpenRestore
<1>2. CASE zips[s].there /\ zips[s].ended
  <2>1. zips[s].copy \in DataContents /\ zips[s].has \in SUBSET DataFile
    BY SMTT(30) DEF ZipsTyped, BackupZip
  <2>2. ReqBecomes(q, breq[q].op, "unzip", breq[q].proc, breq[q].zip, zips[s].has, zips[s].copy, breq[q].unzipped)
    BY <1>2, <2>1, ReqUnpacking DEF OpenRestore
  <2> QED
    BY <1>1, <1>2, <2>2, SMTT(30) DEF OpenRestore
<1>3. CASE ~(zips[s].there /\ zips[s].ended)
  <2>1. ReqMoves(q, "again")
    BY <1>3, ReqMoving DEF BackupLabel, OpenRestore
  <2> QED
    BY <1>1, <2>1 DEF OpenRestore
<1> QED
  BY <1>2, <1>3

\* A restore unzips one file, or fails.
LEMMA UnzipSays ==
    ASSUME ReqTyped, NEW q \in BackupRequest, NEW f \in DataFile, Unzip(q, f)
    PROVE  /\ breq[q].op = "restore" /\ breq[q].pc = "unzip"
           /\ \/ /\ data' = [data EXCEPT ![f] = breq[q].kept[f]]
                 /\ ReqBecomes(q, "restore", "unzip", breq[q].proc, breq[q].zip, breq[q].todo \ {f}, breq[q].kept, breq[q].unzipped \cup {f})
              \/ ReqMoves(q, "again") /\ UNCHANGED data
           /\ UNCHANGED <<instance, zips, edits, second, backupOps, backupHistory>>
<1>1. breq[q].op = "restore" /\ breq[q].pc = "unzip"
  BY DEF BackupAt, Unzip
<1>2. CASE BackupGoes(q, "again") /\ UNCHANGED data
  <2>1. ReqMoves(q, "again")
    BY <1>2, ReqMoving DEF BackupLabel
  <2> QED
    BY <1>1, <1>2, <2>1 DEF Unzip
<1>3. CASE /\ data' = [data EXCEPT ![f] = breq[q].kept[f]]
           /\ breq' = [breq EXCEPT ![q].todo = @ \ {f}, ![q].unzipped = @ \cup {f}]
  <2>1. breq[q].unzipped \cup {f} \in SUBSET DataFile
    BY ReqSays
  <2>2. ReqBecomes(q, breq[q].op, breq[q].pc, breq[q].proc, breq[q].zip, breq[q].todo \ {f}, breq[q].kept, breq[q].unzipped \cup {f})
    BY <1>3, <2>1, ReqTodoShrinks
  <2> QED
    BY <1>1, <1>3, <2>2 DEF Unzip
<1> QED
  BY <1>2, <1>3 DEF Unzip

\* A restore is done.
LEMMA EndRestoreSays ==
    ASSUME ReqTyped, NEW q \in BackupRequest, EndRestore(q)
    PROVE  /\ breq[q].op = "restore" /\ breq[q].pc = "unzip" /\ ReqMoves(q, "done") /\ busy' = FALSE /\ stopped' = TRUE
           /\ UNCHANGED <<listed, running, proc, lastProc, backupDisk, edits, second, backupOps, backupHistory>>
BY ReqMoving DEF BackupLabel, BackupAt, EndRestore

-----------------------------------------------------------------------------
(* The backups: the types, action by action.                                *)

\* Every action keeps the types of the requests
LEMMA ReqTypesKept ==
    ASSUME ReqTyped, ProcsTyped, ZipsTyped, ShapeInv, BackupsNext
    PROVE  ReqTyped'
<1>1. CASE NextSecond
  BY <1>1 DEF NextSecond, ReqTyped
<1>2. CASE WatchExit
  BY <1>2 DEF WatchExit, ReqTyped
<1>3. ASSUME NEW f \in DataFile, WriteData(f) PROVE ReqTyped'
  BY <1>3 DEF WriteData, ReqTyped
<1>4. ASSUME NEW p \in running, ProcessExits(p) PROVE ReqTyped'
  BY <1>4 DEF ProcessExits, ReqTyped
<1>5. ASSUME NEW s \in Second, DeleteBackup(s) PROVE ReqTyped'
  BY <1>5 DEF DeleteBackup, ReqTyped
<1>6. ASSUME NEW q \in BackupRequest, NEW op \in BackupKind, BeginBackupOp(q, op) PROVE ReqTyped'
  BY <1>6, ReqBeginning DEF ReqTyped, ReqBecomes, ReqMoves, BeginBackupOp
<1>7. ASSUME NEW q \in BackupRequest, ClaimStart(q) PROVE ReqTyped'
  BY <1>7, ClaimStartSays DEF ReqTyped, ReqBecomes, ReqMoves
<1>8. ASSUME NEW q \in BackupRequest, Launch(q) PROVE ReqTyped'
  BY <1>8, LaunchSays DEF ReqTyped, ReqBecomes, ReqMoves
<1>9. ASSUME NEW q \in BackupRequest, Publish(q) PROVE ReqTyped'
  BY <1>9, PublishSays DEF ReqTyped, ReqBecomes, ReqMoves
<1>10. ASSUME NEW q \in BackupRequest, ReleaseBusy(q) PROVE ReqTyped'
  BY <1>10, ReleaseSays DEF ReqTyped, ReqBecomes, ReqMoves
<1>11. ASSUME NEW q \in BackupRequest, ClaimStop(q) PROVE ReqTyped'
  BY <1>11, ClaimStopSays DEF ReqTyped, ReqBecomes, ReqMoves
<1>12. ASSUME NEW q \in BackupRequest, StopProcess(q) PROVE ReqTyped'
  BY <1>12, StopProcessSays DEF ReqTyped, ReqBecomes, ReqMoves
<1>13. ASSUME NEW q \in BackupRequest, ReadProc(q) PROVE ReqTyped'
  BY <1>13, ReadProcSays DEF ReqTyped, ReqBecomes, ReqMoves
<1>14. ASSUME NEW q \in BackupRequest, KillRemoved(q) PROVE ReqTyped'
  BY <1>14, KillRemovedSays DEF ReqTyped, ReqBecomes, ReqMoves
<1>15. ASSUME NEW q \in BackupRequest, Unlist(q) PROVE ReqTyped'
  BY <1>15, UnlistSays DEF ReqTyped, ReqBecomes, ReqMoves
<1>16. ASSUME NEW q \in BackupRequest, DeleteData(q) PROVE ReqTyped'
  BY <1>16, DeleteDataSays DEF ReqTyped, ReqBecomes, ReqMoves
<1>17. ASSUME NEW q \in BackupRequest, OpenBackup(q) PROVE ReqTyped'
  BY <1>17, OpenBackupSays DEF ReqTyped, ReqBecomes, ReqMoves
<1>18. ASSUME NEW q \in BackupRequest, CloseBackup(q) PROVE ReqTyped'
  BY <1>18, CloseBackupSays DEF ReqTyped, ReqBecomes, ReqMoves
<1>19. ASSUME NEW q \in BackupRequest, ClaimRestore(q) PROVE ReqTyped'
  BY <1>19, ClaimRestoreSays DEF ReqTyped, ReqBecomes, ReqMoves
<1>20. ASSUME NEW q \in BackupRequest, EndRestore(q) PROVE ReqTyped'
  BY <1>20, EndRestoreSays DEF ReqTyped, ReqBecomes, ReqMoves
<1>21. ASSUME NEW q \in BackupRequest, NEW s \in Second, OpenRestore(q, s) PROVE ReqTyped'
  BY <1>21, OpenRestoreSays DEF ReqTyped, ReqBecomes, ReqMoves
<1>22. ASSUME NEW q \in BackupRequest, NEW f \in DataFile, CopyData(q, f) PROVE ReqTyped'
  BY <1>22, CopyDataSays DEF ReqTyped, ReqBecomes, ReqMoves
<1>23. ASSUME NEW q \in BackupRequest, NEW f \in DataFile, Unzip(q, f) PROVE ReqTyped'
  BY <1>23, UnzipSays DEF ReqTyped, ReqBecomes, ReqMoves
<1> QED
  BY <1>1, <1>2, <1>3, <1>4, <1>5, <1>6, <1>7, <1>8, <1>9, <1>10, <1>11, <1>12, <1>13, <1>14,
     <1>15, <1>16, <1>17, <1>18, <1>19, <1>20, <1>21, <1>22, <1>23, Zenon
  DEF BackupsNext, BackupKind

\* and their shape.
LEMMA ShapeKept ==
    ASSUME ReqTyped, ProcsTyped, ZipsTyped, ShapeInv, BackupsNext
    PROVE  ShapeInv'
<1>1. CASE NextSecond
  BY <1>1 DEF NextSecond, ShapeInv, ShapeOf
<1>2. CASE WatchExit
  BY <1>2 DEF WatchExit, ShapeInv, ShapeOf
<1>3. ASSUME NEW f \in DataFile, WriteData(f) PROVE ShapeInv'
  BY <1>3 DEF WriteData, ShapeInv, ShapeOf
<1>4. ASSUME NEW p \in running, ProcessExits(p) PROVE ShapeInv'
  BY <1>4 DEF ProcessExits, ShapeInv, ShapeOf
<1>5. ASSUME NEW s \in Second, DeleteBackup(s) PROVE ShapeInv'
  BY <1>5 DEF DeleteBackup, ShapeInv, ShapeOf
<1>6. ASSUME NEW q \in BackupRequest, NEW op \in BackupKind, BeginBackupOp(q, op) PROVE ShapeInv'
  <2>1. \A r \in BackupRequest \ {q} : breq'[r] = breq[r]
    BY <1>6, ReqBeginning DEF ReqBecomes, ReqMoves
  <2>2. ShapeOf(q)'
    BY <1>6, ReqBeginning DEF ShapeInv, ShapeOf, ReqBecomes, ReqMoves, BeginBackupOp
  <2> QED
    BY <2>1, <2>2 DEF ShapeInv, ShapeOf
<1>7. ASSUME NEW q \in BackupRequest, ClaimStart(q) PROVE ShapeInv'
  <2>1. \A r \in BackupRequest \ {q} : breq'[r] = breq[r]
    BY <1>7, ClaimStartSays DEF ReqBecomes, ReqMoves
  <2>2. ShapeOf(q)'
    BY <1>7, ClaimStartSays DEF ShapeInv, ShapeOf, ReqBecomes, ReqMoves
  <2> QED
    BY <2>1, <2>2 DEF ShapeInv, ShapeOf
<1>8. ASSUME NEW q \in BackupRequest, Launch(q) PROVE ShapeInv'
  <2>1. (\A r \in BackupRequest \ {q} : breq'[r] = breq[r]) /\ breq[q].op = "start" /\ breq[q].pc = "launch"
        /\ breq'[q].op = "start" /\ breq'[q].unzipped = breq[q].unzipped
        /\ (breq'[q].pc = "again" \/ (breq'[q].pc = "publish" /\ breq'[q].proc = lastProc + 1))
    <3>1. breq[q].op = "start" /\ breq[q].pc = "launch"
      BY <1>8, LaunchSays
    <3>4. ReqBecomes(q, "start", "publish", lastProc + 1, breq[q].zip, breq[q].todo, breq[q].kept, breq[q].unzipped) \/ ReqMoves(q, "again")
      BY <1>8, LaunchSays
    <3>2. CASE ReqBecomes(q, "start", "publish", lastProc + 1, breq[q].zip, breq[q].todo, breq[q].kept, breq[q].unzipped)
      BY <3>1, <3>2 DEF ReqBecomes
    <3>3. CASE ReqMoves(q, "again")
      <4>1. (\A r \in BackupRequest \ {q} : breq'[r] = breq[r]) /\ breq'[q].op = breq[q].op /\ breq'[q].pc = "again"
            /\ breq'[q].unzipped = breq[q].unzipped
        BY <3>3 DEF ReqBecomes, ReqMoves
      <4> QED
        BY <3>1, <4>1
    <3> QED
      BY <3>2, <3>3, <3>4
  <2>2. lastProc + 1 # 0
    BY DEF ProcsTyped
  <2>3. ShapeOf(q)'
    BY <2>1, <2>2 DEF ShapeInv, ShapeOf
  <2> QED
    BY <2>1, <2>3 DEF ShapeInv, ShapeOf
<1>9. ASSUME NEW q \in BackupRequest, Publish(q) PROVE ShapeInv'
  <2>1. \A r \in BackupRequest \ {q} : breq'[r] = breq[r]
    BY <1>9, PublishSays DEF ReqBecomes, ReqMoves
  <2>2. ShapeOf(q)'
    BY <1>9, PublishSays, ZenonT(60) DEF ShapeInv, ShapeOf, ReqBecomes, ReqMoves
  <2> QED
    BY <2>1, <2>2 DEF ShapeInv, ShapeOf
<1>10. ASSUME NEW q \in BackupRequest, ReleaseBusy(q) PROVE ShapeInv'
  <2>1. \A r \in BackupRequest \ {q} : breq'[r] = breq[r]
    BY <1>10, ReleaseSays DEF ReqBecomes, ReqMoves
  <2>2. ShapeOf(q)'
    BY <1>10, ReleaseSays DEF ShapeInv, ShapeOf, ReqBecomes, ReqMoves
  <2> QED
    BY <2>1, <2>2 DEF ShapeInv, ShapeOf
<1>11. ASSUME NEW q \in BackupRequest, ClaimStop(q) PROVE ShapeInv'
  <2>1. \A r \in BackupRequest \ {q} : breq'[r] = breq[r]
    BY <1>11, ClaimStopSays DEF ReqBecomes, ReqMoves
  <2>2. ShapeOf(q)'
    BY <1>11, ClaimStopSays DEF ShapeInv, ShapeOf, ReqBecomes, ReqMoves
  <2> QED
    BY <2>1, <2>2 DEF ShapeInv, ShapeOf
<1>12. ASSUME NEW q \in BackupRequest, StopProcess(q) PROVE ShapeInv'
  <2>1. \A r \in BackupRequest \ {q} : breq'[r] = breq[r]
    BY <1>12, StopProcessSays DEF ReqBecomes, ReqMoves
  <2>2. ShapeOf(q)'
    BY <1>12, StopProcessSays DEF ShapeInv, ShapeOf, ReqBecomes, ReqMoves
  <2> QED
    BY <2>1, <2>2 DEF ShapeInv, ShapeOf
<1>13. ASSUME NEW q \in BackupRequest, ReadProc(q) PROVE ShapeInv'
  <2>1. \A r \in BackupRequest \ {q} : breq'[r] = breq[r]
    BY <1>13, ReadProcSays DEF ReqBecomes, ReqMoves
  <2>2. ShapeOf(q)'
    BY <1>13, ReadProcSays DEF ShapeInv, ShapeOf, ReqBecomes, ReqMoves
  <2> QED
    BY <2>1, <2>2 DEF ShapeInv, ShapeOf
<1>14. ASSUME NEW q \in BackupRequest, KillRemoved(q) PROVE ShapeInv'
  <2>1. \A r \in BackupRequest \ {q} : breq'[r] = breq[r]
    BY <1>14, KillRemovedSays DEF ReqBecomes, ReqMoves
  <2>2. ShapeOf(q)'
    BY <1>14, KillRemovedSays DEF ShapeInv, ShapeOf, ReqBecomes, ReqMoves
  <2> QED
    BY <2>1, <2>2 DEF ShapeInv, ShapeOf
<1>15. ASSUME NEW q \in BackupRequest, Unlist(q) PROVE ShapeInv'
  <2>1. \A r \in BackupRequest \ {q} : breq'[r] = breq[r]
    BY <1>15, UnlistSays DEF ReqBecomes, ReqMoves
  <2>2. ShapeOf(q)'
    BY <1>15, UnlistSays DEF ShapeInv, ShapeOf, ReqBecomes, ReqMoves
  <2> QED
    BY <2>1, <2>2 DEF ShapeInv, ShapeOf
<1>16. ASSUME NEW q \in BackupRequest, DeleteData(q) PROVE ShapeInv'
  <2>1. \A r \in BackupRequest \ {q} : breq'[r] = breq[r]
    BY <1>16, DeleteDataSays DEF ReqBecomes, ReqMoves
  <2>2. ShapeOf(q)'
    BY <1>16, DeleteDataSays DEF ShapeInv, ShapeOf, ReqBecomes, ReqMoves
  <2> QED
    BY <2>1, <2>2 DEF ShapeInv, ShapeOf
<1>17. ASSUME NEW q \in BackupRequest, OpenBackup(q) PROVE ShapeInv'
  <2>1. \A r \in BackupRequest \ {q} : breq'[r] = breq[r]
    BY <1>17, OpenBackupSays DEF ReqBecomes, ReqMoves
  <2>2. ShapeOf(q)'
    BY <1>17, OpenBackupSays DEF ShapeInv, ShapeOf, ReqBecomes, ReqMoves
  <2> QED
    BY <2>1, <2>2 DEF ShapeInv, ShapeOf
<1>18. ASSUME NEW q \in BackupRequest, CloseBackup(q) PROVE ShapeInv'
  <2>1. \A r \in BackupRequest \ {q} : breq'[r] = breq[r]
    BY <1>18, CloseBackupSays DEF ReqBecomes, ReqMoves
  <2>2. ShapeOf(q)'
    BY <1>18, CloseBackupSays DEF ShapeInv, ShapeOf, ReqBecomes, ReqMoves
  <2> QED
    BY <2>1, <2>2 DEF ShapeInv, ShapeOf
<1>19. ASSUME NEW q \in BackupRequest, ClaimRestore(q) PROVE ShapeInv'
  <2>1. \A r \in BackupRequest \ {q} : breq'[r] = breq[r]
    BY <1>19, ClaimRestoreSays DEF ReqBecomes, ReqMoves
  <2>2. ShapeOf(q)'
    BY <1>19, ClaimRestoreSays DEF ShapeInv, ShapeOf, ReqBecomes, ReqMoves
  <2> QED
    BY <2>1, <2>2 DEF ShapeInv, ShapeOf
<1>20. ASSUME NEW q \in BackupRequest, EndRestore(q) PROVE ShapeInv'
  <2>1. \A r \in BackupRequest \ {q} : breq'[r] = breq[r]
    BY <1>20, EndRestoreSays DEF ReqBecomes, ReqMoves
  <2>2. ShapeOf(q)'
    BY <1>20, EndRestoreSays DEF ShapeInv, ShapeOf, ReqBecomes, ReqMoves
  <2> QED
    BY <2>1, <2>2 DEF ShapeInv, ShapeOf
<1>21. ASSUME NEW q \in BackupRequest, NEW s \in Second, OpenRestore(q, s) PROVE ShapeInv'
  <2>1. \A r \in BackupRequest \ {q} : breq'[r] = breq[r]
    BY <1>21, OpenRestoreSays DEF ReqBecomes, ReqMoves
  <2>2. ShapeOf(q)'
    BY <1>21, OpenRestoreSays DEF ShapeInv, ShapeOf, ReqBecomes, ReqMoves
  <2> QED
    BY <2>1, <2>2 DEF ShapeInv, ShapeOf
<1>22. ASSUME NEW q \in BackupRequest, NEW f \in DataFile, CopyData(q, f) PROVE ShapeInv'
  <2>1. \A r \in BackupRequest \ {q} : breq'[r] = breq[r]
    BY <1>22, CopyDataSays DEF ReqBecomes, ReqMoves
  <2>2. ShapeOf(q)'
    BY <1>22, CopyDataSays DEF ShapeInv, ShapeOf, ReqBecomes, ReqMoves
  <2> QED
    BY <2>1, <2>2 DEF ShapeInv, ShapeOf
<1>23. ASSUME NEW q \in BackupRequest, NEW f \in DataFile, Unzip(q, f) PROVE ShapeInv'
  <2>1. \A r \in BackupRequest \ {q} : breq'[r] = breq[r]
    BY <1>23, UnzipSays DEF ReqBecomes, ReqMoves
  <2>2. ShapeOf(q)'
    BY <1>23, UnzipSays DEF ShapeInv, ShapeOf, ReqBecomes, ReqMoves
  <2> QED
    BY <2>1, <2>2 DEF ShapeInv, ShapeOf
<1> QED
  BY <1>1, <1>2, <1>3, <1>4, <1>5, <1>6, <1>7, <1>8, <1>9, <1>10, <1>11, <1>12, <1>13, <1>14,
     <1>15, <1>16, <1>17, <1>18, <1>19, <1>20, <1>21, <1>22, <1>23, Zenon
  DEF BackupsNext, BackupKind

\* What a step may do to the processes.
ProcsGo(q) ==
    /\ \A r \in BackupRequest \ {q} : breq'[r] = breq[r]
    /\ \/ lastProc' = lastProc /\ running' \subseteq running /\ proc' \in {0, proc, breq[q].proc}
          /\ breq'[q].proc \in {0, proc, breq[q].proc}
       \/ lastProc' = lastProc + 1 /\ running' \subseteq running \cup {lastProc + 1} /\ proc' = proc
          /\ breq'[q].proc = lastProc + 1

\* Such a step knows no process that is not there yet.
LEMMA ProcsMove ==
    ASSUME ReqTyped, ProcsTyped, \A r \in BackupRequest : ProcOf(r), NEW q \in BackupRequest, ProcsGo(q)
    PROVE  ProcsTyped' /\ \A r \in BackupRequest : ProcOf(r)'
<1>1. lastProc \in Nat /\ proc \in 0..lastProc /\ running \subseteq 1..lastProc /\ breq[q].proc \in 0..lastProc
      /\ \A r \in BackupRequest : breq[r].proc \in 0..lastProc
  BY ReqSays DEF ProcsTyped, ProcOf
<1>2. lastProc' \in Nat /\ lastProc <= lastProc' /\ proc' \in 0..lastProc' /\ breq'[q].proc \in 0..lastProc'
  BY <1>1 DEF ProcsGo
<1>3. ASSUME NEW p \in running' PROVE p \in 1..lastProc'
  <2>1. p \in 1..lastProc \/ (lastProc' = lastProc + 1 /\ p = lastProc + 1)
    BY <1>1, <1>3 DEF ProcsGo
  <2> QED
    BY <1>1, <1>2, <2>1
<1>4. \A r \in BackupRequest : breq'[r].proc <= lastProc'
  BY <1>1, <1>2 DEF ProcsGo
<1> QED
  BY <1>2, <1>3, <1>4 DEF ProcsTyped, ProcOf

\* Every action takes such a step.
LEMMA ProcTypesKept ==
    ASSUME ReqTyped, ProcsTyped, ZipsTyped, ShapeInv, \A q \in BackupRequest : ProcOf(q), BackupsNext
    PROVE  ProcsTyped' /\ \A r \in BackupRequest : ProcOf(r)'
<1>0. ReqTyped /\ ProcsTyped /\ \A r \in BackupRequest : ProcOf(r)
  OBVIOUS
<1>1. CASE NextSecond
  BY <1>1 DEF NextSecond, ProcsTyped, ProcOf, instance
<1>2. CASE WatchExit
  BY <1>2 DEF WatchExit, ProcsTyped, ProcOf, instance
<1>3. ASSUME NEW f \in DataFile, WriteData(f) PROVE ProcsTyped' /\ \A r \in BackupRequest : ProcOf(r)'
  BY <1>3 DEF WriteData, ProcsTyped, ProcOf, instance
<1>4. ASSUME NEW p \in running, ProcessExits(p) PROVE ProcsTyped' /\ \A r \in BackupRequest : ProcOf(r)'
  BY <1>4 DEF ProcessExits, ProcsTyped, ProcOf, instance
<1>5. ASSUME NEW s \in Second, DeleteBackup(s) PROVE ProcsTyped' /\ \A r \in BackupRequest : ProcOf(r)'
  BY <1>5 DEF DeleteBackup, ProcsTyped, ProcOf, instance
<1>6. ASSUME NEW q \in BackupRequest, NEW op \in BackupKind, BeginBackupOp(q, op) PROVE ProcsTyped' /\ \A r \in BackupRequest : ProcOf(r)'
  <2>1. ProcsGo(q)
    BY <1>6, ReqBeginning DEF ProcsGo, ReqBecomes, ReqMoves, instance, BeginBackupOp
  <2> QED
    BY <1>0, <2>1, ProcsMove
<1>7. ASSUME NEW q \in BackupRequest, ClaimStart(q) PROVE ProcsTyped' /\ \A r \in BackupRequest : ProcOf(r)'
  <2>1. ProcsGo(q)
    BY <1>7, ClaimStartSays DEF ProcsGo, ReqBecomes, ReqMoves, instance
  <2> QED
    BY <1>0, <2>1, ProcsMove
<1>8. ASSUME NEW q \in BackupRequest, Launch(q) PROVE ProcsTyped' /\ \A r \in BackupRequest : ProcOf(r)'
  <2>1. ProcsGo(q)
    BY <1>8, LaunchSays DEF ProcsGo, ReqBecomes, ReqMoves, instance
  <2> QED
    BY <1>0, <2>1, ProcsMove
<1>9. ASSUME NEW q \in BackupRequest, Publish(q) PROVE ProcsTyped' /\ \A r \in BackupRequest : ProcOf(r)'
  <2>1. ProcsGo(q)
    BY <1>9, PublishSays DEF ProcsGo, ReqBecomes, ReqMoves, instance
  <2> QED
    BY <1>0, <2>1, ProcsMove
<1>10. ASSUME NEW q \in BackupRequest, ReleaseBusy(q) PROVE ProcsTyped' /\ \A r \in BackupRequest : ProcOf(r)'
  <2>1. ProcsGo(q)
    BY <1>10, ReleaseSays DEF ProcsGo, ReqBecomes, ReqMoves, instance
  <2> QED
    BY <1>0, <2>1, ProcsMove
<1>11. ASSUME NEW q \in BackupRequest, ClaimStop(q) PROVE ProcsTyped' /\ \A r \in BackupRequest : ProcOf(r)'
  <2>1. ProcsGo(q)
    BY <1>11, ClaimStopSays DEF ProcsGo, ReqBecomes, ReqMoves, instance
  <2> QED
    BY <1>0, <2>1, ProcsMove
<1>12. ASSUME NEW q \in BackupRequest, StopProcess(q) PROVE ProcsTyped' /\ \A r \in BackupRequest : ProcOf(r)'
  <2>1. ProcsGo(q)
    BY <1>12, StopProcessSays DEF ProcsGo, ReqBecomes, ReqMoves, instance
  <2> QED
    BY <1>0, <2>1, ProcsMove
<1>13. ASSUME NEW q \in BackupRequest, ReadProc(q) PROVE ProcsTyped' /\ \A r \in BackupRequest : ProcOf(r)'
  <2>1. ProcsGo(q)
    BY <1>13, ReadProcSays DEF ProcsGo, ReqBecomes, ReqMoves, instance
  <2> QED
    BY <1>0, <2>1, ProcsMove
<1>14. ASSUME NEW q \in BackupRequest, KillRemoved(q) PROVE ProcsTyped' /\ \A r \in BackupRequest : ProcOf(r)'
  <2>1. ProcsGo(q)
    BY <1>14, KillRemovedSays DEF ProcsGo, ReqBecomes, ReqMoves, instance
  <2> QED
    BY <1>0, <2>1, ProcsMove
<1>15. ASSUME NEW q \in BackupRequest, Unlist(q) PROVE ProcsTyped' /\ \A r \in BackupRequest : ProcOf(r)'
  <2>1. ProcsGo(q)
    BY <1>15, UnlistSays DEF ProcsGo, ReqBecomes, ReqMoves, instance
  <2> QED
    BY <1>0, <2>1, ProcsMove
<1>16. ASSUME NEW q \in BackupRequest, DeleteData(q) PROVE ProcsTyped' /\ \A r \in BackupRequest : ProcOf(r)'
  <2>1. ProcsGo(q)
    BY <1>16, DeleteDataSays DEF ProcsGo, ReqBecomes, ReqMoves, instance
  <2> QED
    BY <1>0, <2>1, ProcsMove
<1>17. ASSUME NEW q \in BackupRequest, OpenBackup(q) PROVE ProcsTyped' /\ \A r \in BackupRequest : ProcOf(r)'
  <2>1. ProcsGo(q)
    BY <1>17, OpenBackupSays DEF ProcsGo, ReqBecomes, ReqMoves, instance
  <2> QED
    BY <1>0, <2>1, ProcsMove
<1>18. ASSUME NEW q \in BackupRequest, CloseBackup(q) PROVE ProcsTyped' /\ \A r \in BackupRequest : ProcOf(r)'
  <2>1. ProcsGo(q)
    BY <1>18, CloseBackupSays DEF ProcsGo, ReqBecomes, ReqMoves, instance
  <2> QED
    BY <1>0, <2>1, ProcsMove
<1>19. ASSUME NEW q \in BackupRequest, ClaimRestore(q) PROVE ProcsTyped' /\ \A r \in BackupRequest : ProcOf(r)'
  <2>1. ProcsGo(q)
    BY <1>19, ClaimRestoreSays DEF ProcsGo, ReqBecomes, ReqMoves, instance
  <2> QED
    BY <1>0, <2>1, ProcsMove
<1>20. ASSUME NEW q \in BackupRequest, EndRestore(q) PROVE ProcsTyped' /\ \A r \in BackupRequest : ProcOf(r)'
  <2>1. ProcsGo(q)
    BY <1>20, EndRestoreSays DEF ProcsGo, ReqBecomes, ReqMoves, instance
  <2> QED
    BY <1>0, <2>1, ProcsMove
<1>21. ASSUME NEW q \in BackupRequest, NEW s \in Second, OpenRestore(q, s) PROVE ProcsTyped' /\ \A r \in BackupRequest : ProcOf(r)'
  <2>1. ProcsGo(q)
    BY <1>21, OpenRestoreSays DEF ProcsGo, ReqBecomes, ReqMoves, instance
  <2> QED
    BY <1>0, <2>1, ProcsMove
<1>22. ASSUME NEW q \in BackupRequest, NEW f \in DataFile, CopyData(q, f) PROVE ProcsTyped' /\ \A r \in BackupRequest : ProcOf(r)'
  <2>1. ProcsGo(q)
    BY <1>22, CopyDataSays DEF ProcsGo, ReqBecomes, ReqMoves, instance
  <2> QED
    BY <1>0, <2>1, ProcsMove
<1>23. ASSUME NEW q \in BackupRequest, NEW f \in DataFile, Unzip(q, f) PROVE ProcsTyped' /\ \A r \in BackupRequest : ProcOf(r)'
  <2>1. ProcsGo(q)
    BY <1>23, UnzipSays DEF ProcsGo, ReqBecomes, ReqMoves, instance
  <2> QED
    BY <1>0, <2>1, ProcsMove
<1> QED
  BY <1>1, <1>2, <1>3, <1>4, <1>5, <1>6, <1>7, <1>8, <1>9, <1>10, <1>11, <1>12, <1>13, <1>14,
     <1>15, <1>16, <1>17, <1>18, <1>19, <1>20, <1>21, <1>22, <1>23, Zenon
  DEF BackupsNext, BackupKind

\* A backup that is created,
LEMMA ZipOpens ==
    ASSUME ZipsTyped, NEW s \in Second, zips' = [zips EXCEPT ![s] = [NoZip EXCEPT !.there = TRUE]]
    PROVE  /\ zips' \in [Second -> BackupZip] /\ zips'[s].there /\ \A o \in Second \ {s} : zips'[o] = zips[o]
<1> DEFINE new == [NoZip EXCEPT !.there = TRUE]
<1>1. NoZip.copy \in DataContents
  BY BackupAssumption DEF NoZip, DataContents
<1>2. new \in BackupZip /\ new.there
  BY <1>1 DEF NoZip, BackupZip
<1> HIDE DEF new
<1>3. zips' = [zips EXCEPT ![s] = new]
  BY DEF new
<1> QED
  BY <1>2, <1>3 DEF ZipsTyped

\* copied to,
LEMMA ZipCopies ==
    ASSUME ZipsTyped, NEW s \in Second, NEW f \in DataFile,
           zips' = [zips EXCEPT ![s].copy[f] = data[f], ![s].has = @ \cup {f}]
    PROVE  /\ zips' \in [Second -> BackupZip] /\ \A o \in Second \ {s} : zips'[o] = zips[o]
           /\ zips'[s].there = zips[s].there /\ zips'[s].ended = zips[s].ended /\ zips'[s].has = zips[s].has \cup {f}
<1> DEFINE old == zips[s]
           newCopy == [old.copy EXCEPT ![f] = data[f]]
           mid == [there |-> old.there, has |-> old.has, copy |-> newCopy, ended |-> old.ended]
           new == [there |-> old.there, has |-> old.has \cup {f}, copy |-> newCopy, ended |-> old.ended]
           between == [zips EXCEPT ![s].copy[f] = data[f]]
<1>1. old \in BackupZip /\ data[f] \in 0..MaxEdits
  BY DEF ZipsTyped, DataContents
<1>2. newCopy \in DataContents
  BY <1>1 DEF BackupZip, DataContents
<1>3. between = [zips EXCEPT ![s] = [old EXCEPT !.copy = newCopy]]
  BY DEF ZipsTyped
<1>4. [old EXCEPT !.copy = newCopy] = mid
  <2>1. ASSUME NEW z \in BackupZip, NEW k
        PROVE [z EXCEPT !.copy = k] = [there |-> z.there, has |-> z.has, copy |-> k, ended |-> z.ended]
    BY DEF BackupZip
  <2> QED
    BY <1>1, <2>1
<1>5. zips' = [between EXCEPT ![s].has = @ \cup {f}]
  OBVIOUS
<1>6. new \in BackupZip /\ new.there = old.there /\ new.ended = old.ended /\ new.has = old.has \cup {f}
  BY <1>1, <1>2 DEF BackupZip
<1> HIDE DEF newCopy
<1>7. [mid EXCEPT !.has = @ \cup {f}] = new
  OBVIOUS
<1> HIDE DEF mid, new, between
<1>8. between[s] = mid /\ \A o \in Second \ {s} : between[o] = zips[o]
  BY <1>3, <1>4 DEF ZipsTyped
<1>9. DOMAIN between = Second
  BY <1>3 DEF ZipsTyped
<1>10. zips' = [between EXCEPT ![s] = [mid EXCEPT !.has = @ \cup {f}]]
  BY <1>5, <1>8, <1>9
<1>11. zips' = [between EXCEPT ![s] = new]
  BY <1>7, <1>10
<1>12. zips'[s] = new /\ \A o \in Second \ {s} : zips'[o] = zips[o]
  BY <1>8, <1>9, <1>11
<1>13. zips' \in [Second -> BackupZip]
  <2>1. between \in [Second -> BackupZip]
    <3>1. mid \in BackupZip
      BY <1>1, <1>2 DEF mid, BackupZip
    <3> QED
      BY <1>3, <1>4, <3>1 DEF ZipsTyped
  <2> QED
    BY <1>6, <1>11, <2>1
<1> QED
  BY <1>6, <1>12, <1>13

\* and closed.
LEMMA ZipEnds ==
    ASSUME ZipsTyped, NEW s \in Second, zips' = [zips EXCEPT ![s].ended = zips[s].there]
    PROVE  /\ zips' \in [Second -> BackupZip] /\ \A o \in Second \ {s} : zips'[o] = zips[o]
           /\ zips'[s].there = zips[s].there /\ zips'[s].ended = zips[s].there /\ zips'[s].has = zips[s].has
<1> DEFINE old == zips[s]
           new == [there |-> old.there, has |-> old.has, copy |-> old.copy, ended |-> old.there]
<1>1. old \in BackupZip
  BY DEF ZipsTyped
<1>2. new \in BackupZip /\ new.there = old.there /\ new.ended = old.there /\ new.has = old.has
  BY <1>1 DEF BackupZip
<1>3. [old EXCEPT !.ended = old.there] = new
  BY <1>1 DEF BackupZip
<1>4. zips' = [zips EXCEPT ![s] = new]
  BY <1>3 DEF ZipsTyped
<1> HIDE DEF new
<1> QED
  BY <1>2, <1>4 DEF ZipsTyped

\* A step that does not touch the backups keeps what is said of them.
LEMMA QuietZips ==
    ASSUME ZipsTyped, ZipInv, NEW q \in BackupRequest, UNCHANGED <<zips, data, edits, second, finished, doubled>>,
           \A r \in BackupRequest \ {q} : breq'[r] = breq[r], breq'[q].pc # "copy"
    PROVE  ZipsTyped' /\ ZipInv'
BY DEF ZipsTyped, ZipInv, CopyOf, WholeAt

\* A backup that is not written by two has what its task has copied.
LEMMA ZipsKept ==
    ASSUME ReqTyped, ProcsTyped, ZipsTyped, ShapeInv, ZipInv, BackupsNext
    PROVE  ZipsTyped' /\ ZipInv'
<1>1. CASE NextSecond
  BY <1>1 DEF NextSecond, backupDisk, backupHistory, ZipsTyped, ZipInv, CopyOf, WholeAt
<1>2. CASE WatchExit
  BY <1>2 DEF WatchExit, backupDisk, backupHistory, ZipsTyped, ZipInv, CopyOf, WholeAt
<1>3. ASSUME NEW f \in DataFile, WriteData(f) PROVE ZipsTyped' /\ ZipInv'
  <2>1. edits' \in 0..MaxEdits
    BY <1>3, BackupAssumption DEF WriteData, ZipsTyped
  <2>2. data' \in DataContents
    BY <1>3, <2>1 DEF WriteData, ZipsTyped, DataContents
  <2> QED
    BY <1>3, <2>1, <2>2 DEF WriteData, backupHistory, ZipsTyped, ZipInv, CopyOf, WholeAt
<1>4. ASSUME NEW p \in running, ProcessExits(p) PROVE ZipsTyped' /\ ZipInv'
  BY <1>4 DEF ProcessExits, backupDisk, backupHistory, ZipsTyped, ZipInv, CopyOf, WholeAt
<1>5. ASSUME NEW s \in Second, DeleteBackup(s) PROVE ZipsTyped' /\ ZipInv'
  <2>1. NoZip \in BackupZip
    BY BackupAssumption DEF NoZip, BackupZip, DataContents
  <2>2. /\ zips' = [zips EXCEPT ![s] = NoZip] /\ finished' = finished \ {s} /\ breq' = breq /\ doubled \subseteq doubled'
        /\ (\E q \in BackupRequest : BackupAt(q, "backup", "copy") /\ breq[q].zip = s) => s \in doubled'
        /\ UNCHANGED <<data, edits, second>>
    BY <1>5 DEF DeleteBackup
  <2>3. zips' \in [Second -> BackupZip] /\ \A o \in Second \ {s} : zips'[o] = zips[o]
    BY <2>1, <2>2 DEF ZipsTyped
  <2>4. ZipsTyped'
    BY <2>2, <2>3 DEF ZipsTyped
  <2>5. ASSUME NEW q \in BackupRequest PROVE CopyOf(q)'
    BY <2>2, <2>3 DEF ZipInv, CopyOf, BackupAt
  <2>6. ASSUME NEW o \in Second PROVE WholeAt(o)'
    BY <2>2, <2>3 DEF ZipInv, WholeAt
  <2> QED
    BY <2>4, <2>5, <2>6 DEF ZipInv
<1>6. ASSUME NEW q \in BackupRequest, NEW op \in BackupKind, BeginBackupOp(q, op) PROVE ZipsTyped' /\ ZipInv'
  <2>1. /\ UNCHANGED <<zips, data, edits, second, finished, doubled>> /\ \A r \in BackupRequest \ {q} : breq'[r] = breq[r]
        /\ breq'[q].pc # "copy"
    BY <1>6, ReqBeginning DEF backupDisk, backupHistory, ReqBecomes, ReqMoves, BeginBackupOp
  <2> QED
    BY <2>1, QuietZips
<1>7. ASSUME NEW q \in BackupRequest, ClaimStart(q) PROVE ZipsTyped' /\ ZipInv'
  <2>1. /\ UNCHANGED <<zips, data, edits, second, finished, doubled>> /\ \A r \in BackupRequest \ {q} : breq'[r] = breq[r]
        /\ breq'[q].pc # "copy"
    BY <1>7, ClaimStartSays DEF backupDisk, backupHistory, ReqBecomes, ReqMoves
  <2> QED
    BY <2>1, QuietZips
<1>8. ASSUME NEW q \in BackupRequest, Launch(q) PROVE ZipsTyped' /\ ZipInv'
  <2>1. /\ UNCHANGED <<zips, data, edits, second, finished, doubled>> /\ \A r \in BackupRequest \ {q} : breq'[r] = breq[r]
        /\ breq'[q].pc # "copy"
    BY <1>8, LaunchSays DEF backupDisk, backupHistory, ReqBecomes, ReqMoves
  <2> QED
    BY <2>1, QuietZips
<1>9. ASSUME NEW q \in BackupRequest, Publish(q) PROVE ZipsTyped' /\ ZipInv'
  <2>1. /\ UNCHANGED <<zips, data, edits, second, finished, doubled>> /\ \A r \in BackupRequest \ {q} : breq'[r] = breq[r]
        /\ breq'[q].pc # "copy"
    BY <1>9, PublishSays DEF backupDisk, backupHistory, ReqBecomes, ReqMoves
  <2> QED
    BY <2>1, QuietZips
<1>10. ASSUME NEW q \in BackupRequest, ReleaseBusy(q) PROVE ZipsTyped' /\ ZipInv'
  <2>1. /\ UNCHANGED <<zips, data, edits, second, finished, doubled>> /\ \A r \in BackupRequest \ {q} : breq'[r] = breq[r]
        /\ breq'[q].pc # "copy"
    BY <1>10, ReleaseSays DEF backupDisk, backupHistory, ReqBecomes, ReqMoves
  <2> QED
    BY <2>1, QuietZips
<1>11. ASSUME NEW q \in BackupRequest, ClaimStop(q) PROVE ZipsTyped' /\ ZipInv'
  <2>1. /\ UNCHANGED <<zips, data, edits, second, finished, doubled>> /\ \A r \in BackupRequest \ {q} : breq'[r] = breq[r]
        /\ breq'[q].pc # "copy"
    BY <1>11, ClaimStopSays DEF backupDisk, backupHistory, ReqBecomes, ReqMoves
  <2> QED
    BY <2>1, QuietZips
<1>12. ASSUME NEW q \in BackupRequest, StopProcess(q) PROVE ZipsTyped' /\ ZipInv'
  <2>1. /\ UNCHANGED <<zips, data, edits, second, finished, doubled>> /\ \A r \in BackupRequest \ {q} : breq'[r] = breq[r]
        /\ breq'[q].pc # "copy"
    BY <1>12, StopProcessSays DEF backupDisk, backupHistory, ReqBecomes, ReqMoves
  <2> QED
    BY <2>1, QuietZips
<1>13. ASSUME NEW q \in BackupRequest, ReadProc(q) PROVE ZipsTyped' /\ ZipInv'
  <2>1. /\ UNCHANGED <<zips, data, edits, second, finished, doubled>> /\ \A r \in BackupRequest \ {q} : breq'[r] = breq[r]
        /\ breq'[q].pc # "copy"
    BY <1>13, ReadProcSays DEF backupDisk, backupHistory, ReqBecomes, ReqMoves
  <2> QED
    BY <2>1, QuietZips
<1>14. ASSUME NEW q \in BackupRequest, KillRemoved(q) PROVE ZipsTyped' /\ ZipInv'
  <2>1. /\ UNCHANGED <<zips, data, edits, second, finished, doubled>> /\ \A r \in BackupRequest \ {q} : breq'[r] = breq[r]
        /\ breq'[q].pc # "copy"
    BY <1>14, KillRemovedSays DEF backupDisk, backupHistory, ReqBecomes, ReqMoves
  <2> QED
    BY <2>1, QuietZips
<1>15. ASSUME NEW q \in BackupRequest, Unlist(q) PROVE ZipsTyped' /\ ZipInv'
  <2>1. /\ UNCHANGED <<zips, data, edits, second, finished, doubled>> /\ \A r \in BackupRequest \ {q} : breq'[r] = breq[r]
        /\ breq'[q].pc # "copy"
    BY <1>15, UnlistSays DEF backupDisk, backupHistory, ReqBecomes, ReqMoves
  <2> QED
    BY <2>1, QuietZips
<1>16. ASSUME NEW q \in BackupRequest, DeleteData(q) PROVE ZipsTyped' /\ ZipInv'
  <2>1. /\ UNCHANGED <<zips, edits, second, finished, doubled>> /\ \A r \in BackupRequest \ {q} : breq'[r] = breq[r]
        /\ breq'[q].pc # "copy"
    BY <1>16, DeleteDataSays DEF backupDisk, backupHistory, ReqBecomes, ReqMoves
  <2>2. data' \in DataContents
    BY <1>16, DeleteDataSays, ReqSays, BackupAssumption DEF DataContents, ZipsTyped
  <2> QED
    BY <2>1, <2>2 DEF ZipsTyped, ZipInv, CopyOf, WholeAt
<1>17. ASSUME NEW q \in BackupRequest, OpenBackup(q) PROVE ZipsTyped' /\ ZipInv'
  <2>1. CASE ReqMoves(q, "failed") /\ UNCHANGED <<zips, doubled>>
    <3>1. /\ UNCHANGED <<zips, data, edits, second, finished, doubled>> /\ \A r \in BackupRequest \ {q} : breq'[r] = breq[r]
          /\ breq'[q].pc # "copy"
      BY <1>17, <2>1, OpenBackupSays DEF ReqBecomes, ReqMoves
    <3> QED
      BY <3>1, QuietZips
  <2>2. CASE ~(ReqMoves(q, "failed") /\ UNCHANGED <<zips, doubled>>)
    <3>0. UNCHANGED <<data, edits, second, finished>>
      BY <1>17, OpenBackupSays
    <3>1. PICK found \in SUBSET DataFile :
          /\ ReqBecomes(q, "backup", "copy", breq[q].proc, second, found, breq[q].kept, breq[q].unzipped)
          /\ zips' = [zips EXCEPT ![second] = [NoZip EXCEPT !.there = TRUE]]
          /\ doubled' = IF zips[second].there \/ found # DataFile THEN doubled \cup {second} ELSE doubled
      BY <1>17, <2>2, OpenBackupSays
    <3>2. second \in Second
      BY DEF ZipsTyped
    <3>3. /\ zips' \in [Second -> BackupZip] /\ zips'[second].there /\ \A o \in Second \ {second} : zips'[o] = zips[o]
      BY <3>1, <3>2, ZipOpens
    <3>4. ZipsTyped'
      BY <3>0, <3>1, <3>3 DEF ZipsTyped
    <3>5. (\A r \in BackupRequest \ {q} : breq'[r] = breq[r]) /\ breq'[q].zip = second /\ breq'[q].todo = found
      BY <3>1 DEF ReqBecomes
    <3>6. CopyOf(q)'
      BY <3>1, <3>2, <3>3, <3>5 DEF CopyOf
    <3>7. ASSUME NEW r \in BackupRequest \ {q} PROVE CopyOf(r)'
      BY <3>1, <3>2, <3>3, <3>5 DEF ZipInv, CopyOf
    <3>8. ASSUME NEW o \in Second PROVE WholeAt(o)'
      BY <3>0, <3>1, <3>2, <3>3 DEF ZipInv, WholeAt
    <3> QED
      BY <3>4, <3>6, <3>7, <3>8 DEF ZipInv
  <2> QED
    BY <2>1, <2>2
<1>18. ASSUME NEW q \in BackupRequest, CloseBackup(q) PROVE ZipsTyped' /\ ZipInv'
  <2>1. /\ breq[q].op = "backup" /\ breq[q].pc = "copy"
        /\ \/ zips' = [zips EXCEPT ![breq[q].zip].ended = zips[breq[q].zip].there] /\ doubled' = doubled
           \/ doubled' = doubled \cup {breq[q].zip} /\ zips' = zips
        /\ finished' = finished \/ (breq[q].todo = {} /\ finished' = finished \cup {breq[q].zip})
        /\ UNCHANGED <<data, edits, second>>
    BY <1>18, CloseBackupSays
  <2> DEFINE z == breq[q].zip
  <2>2. z \in Second /\ CopyOf(q)
    BY <2>1 DEF ZipInv, CopyOf
  <2>3. /\ zips' \in [Second -> BackupZip] /\ \A o \in Second \ {z} : zips'[o] = zips[o]
        /\ zips'[z].there = zips[z].there /\ zips'[z].has = zips[z].has
        /\ z \notin doubled' => zips'[z].ended = zips[z].there
    <3>1. CASE zips' = [zips EXCEPT ![z].ended = zips[z].there]
      BY <2>1, <2>2, <3>1, ZipEnds
    <3>2. CASE zips' # [zips EXCEPT ![z].ended = zips[z].there]
      BY <2>1, <2>2, <3>2 DEF ZipsTyped
    <3> QED
      BY <3>1, <3>2, SMTT(30)
  <2>4. ZipsTyped'
    BY <2>1, <2>2, <2>3 DEF ZipsTyped
  <2>5. (\A r \in BackupRequest \ {q} : breq'[r] = breq[r]) /\ breq'[q].pc # "copy"
    BY <1>18, CloseBackupSays DEF ReqBecomes, ReqMoves
  <2>6. z \notin doubled => zips[z].there /\ DataFile \subseteq breq[q].todo \cup zips[z].has
    BY <2>1, <2>2 DEF CopyOf
  <2> HIDE DEF z
  <2>7. doubled \subseteq doubled'
    BY <2>1
  <2>8. ASSUME NEW r \in BackupRequest PROVE CopyOf(r)'
    BY <2>2, <2>3, <2>5, <2>7 DEF ZipInv, CopyOf
  <2>9. ASSUME NEW o \in Second PROVE WholeAt(o)'
    <3>1. zips[z].has \subseteq DataFile
      BY <2>2 DEF BackupZip, ZipsTyped
    <3> QED
      BY <2>1, <2>2, <2>3, <2>6, <2>7, <3>1, ZenonT(60) DEF ZipInv, WholeAt, z
  <2> QED
    BY <2>4, <2>8, <2>9 DEF ZipInv
<1>19. ASSUME NEW q \in BackupRequest, ClaimRestore(q) PROVE ZipsTyped' /\ ZipInv'
  <2>1. /\ UNCHANGED <<zips, data, edits, second, finished, doubled>> /\ \A r \in BackupRequest \ {q} : breq'[r] = breq[r]
        /\ breq'[q].pc # "copy"
    BY <1>19, ClaimRestoreSays DEF backupDisk, backupHistory, ReqBecomes, ReqMoves
  <2> QED
    BY <2>1, QuietZips
<1>20. ASSUME NEW q \in BackupRequest, EndRestore(q) PROVE ZipsTyped' /\ ZipInv'
  <2>1. /\ UNCHANGED <<zips, data, edits, second, finished, doubled>> /\ \A r \in BackupRequest \ {q} : breq'[r] = breq[r]
        /\ breq'[q].pc # "copy"
    BY <1>20, EndRestoreSays DEF backupDisk, backupHistory, ReqBecomes, ReqMoves
  <2> QED
    BY <2>1, QuietZips
<1>21. ASSUME NEW q \in BackupRequest, NEW s \in Second, OpenRestore(q, s) PROVE ZipsTyped' /\ ZipInv'
  <2>1. /\ UNCHANGED <<zips, data, edits, second, finished, doubled>> /\ \A r \in BackupRequest \ {q} : breq'[r] = breq[r]
        /\ breq'[q].pc # "copy"
    BY <1>21, OpenRestoreSays DEF backupDisk, backupHistory, ReqBecomes, ReqMoves
  <2> QED
    BY <2>1, QuietZips
<1>22. ASSUME NEW q \in BackupRequest, NEW f \in DataFile, CopyData(q, f) PROVE ZipsTyped' /\ ZipInv'
  <2>1. /\ breq[q].op = "backup" /\ breq[q].pc = "copy"
        /\ ReqBecomes(q, "backup", "copy", breq[q].proc, breq[q].zip, breq[q].todo \ {f}, breq[q].kept, breq[q].unzipped)
        /\ zips' = IF zips[breq[q].zip].there
                    THEN [zips EXCEPT ![breq[q].zip].copy[f] = data[f], ![breq[q].zip].has = @ \cup {f}] ELSE zips
        /\ UNCHANGED <<data, edits, second, finished, doubled>>
    <3>1. UNCHANGED <<data, edits, second, finished, doubled>>
      BY <1>22, CopyDataSays DEF backupHistory
    <3> QED
      BY <1>22, <3>1, CopyDataSays
  <2> DEFINE z == breq[q].zip
  <2>2. z \in Second /\ CopyOf(q)
    BY <2>1 DEF ZipInv, CopyOf
  <2>3. /\ zips' \in [Second -> BackupZip] /\ \A o \in Second \ {z} : zips'[o] = zips[o]
        /\ zips'[z].there = zips[z].there /\ zips'[z].ended = zips[z].ended /\ zips[z].has \subseteq zips'[z].has
        /\ zips[z].there => f \in zips'[z].has
    <3>1. CASE zips[z].there
      <4>1. zips' = [zips EXCEPT ![z].copy[f] = data[f], ![z].has = @ \cup {f}]
        BY <2>1, <3>1
      <4> HIDE DEF z
      <4> QED
        BY <2>2, <4>1, ZipCopies, ZenonT(60)
    <3>2. CASE ~zips[z].there
      BY <2>1, <2>2, <3>2, SMTT(30) DEF ZipsTyped
    <3> QED
      BY <3>1, <3>2
  <2>4. ZipsTyped'
    BY <2>1, <2>3 DEF ZipsTyped
  <2>5. (\A r \in BackupRequest \ {q} : breq'[r] = breq[r]) /\ breq'[q].zip = z /\ breq'[q].todo = breq[q].todo \ {f}
    BY <2>1 DEF ReqBecomes
  <2>6. z \notin doubled => zips[z].there /\ DataFile \subseteq breq[q].todo \cup zips[z].has
    BY <2>1, <2>2, SMTT(30) DEF CopyOf
  <2> HIDE DEF z
  <2>7. CopyOf(q)'
    BY <2>1, <2>2, <2>3, <2>5, <2>6 DEF CopyOf
  <2>8. ASSUME NEW r \in BackupRequest \ {q} PROVE CopyOf(r)'
    <3>1. CopyOf(r) /\ breq'[r] = breq[r] /\ doubled' = doubled
      BY <2>1, <2>5 DEF ZipInv
    <3>2. \A o \in Second : zips[o].there = zips'[o].there /\ zips[o].has \subseteq zips'[o].has
      BY <2>3, SMTT(30)
    <3> QED
      BY <3>1, <3>2 DEF CopyOf
  <2>9. ASSUME NEW o \in Second PROVE WholeAt(o)'
    <3>1. zips'[o].has \subseteq DataFile
      BY <2>3 DEF BackupZip
    <3> QED
      BY <2>1, <2>2, <2>3, <3>1 DEF ZipInv, WholeAt
  <2> QED
    BY <2>4, <2>7, <2>8, <2>9, SMTT(30) DEF ZipInv
<1>23. ASSUME NEW q \in BackupRequest, NEW f \in DataFile, Unzip(q, f) PROVE ZipsTyped' /\ ZipInv'
  <2>1. /\ UNCHANGED <<zips, edits, second, finished, doubled>>
        /\ \/ /\ data' = [data EXCEPT ![f] = breq[q].kept[f]]
              /\ ReqBecomes(q, "restore", "unzip", breq[q].proc, breq[q].zip, breq[q].todo \ {f}, breq[q].kept, breq[q].unzipped \cup {f})
           \/ ReqMoves(q, "again") /\ UNCHANGED data
    BY <1>23, UnzipSays DEF backupHistory
  <2>2. (\A r \in BackupRequest \ {q} : breq'[r] = breq[r]) /\ breq'[q].pc # "copy"
    <3>1. CASE ReqMoves(q, "again")
      BY <3>1 DEF ReqBecomes, ReqMoves
    <3>2. CASE ReqBecomes(q, "restore", "unzip", breq[q].proc, breq[q].zip, breq[q].todo \ {f}, breq[q].kept, breq[q].unzipped \cup {f})
      BY <3>2 DEF ReqBecomes
    <3> QED
      BY <2>1, <3>1, <3>2
  <2>3. data' \in DataContents
    BY <2>1, ReqSays DEF DataContents, ZipsTyped
  <2> QED
    BY <2>1, <2>2, <2>3 DEF ZipsTyped, ZipInv, CopyOf, WholeAt
<1> QED
  BY <1>1, <1>2, <1>3, <1>4, <1>5, <1>6, <1>7, <1>8, <1>9, <1>10, <1>11, <1>12, <1>13, <1>14,
     <1>15, <1>16, <1>17, <1>18, <1>19, <1>20, <1>21, <1>22, <1>23, Zenon
  DEF BackupsNext, BackupKind

-----------------------------------------------------------------------------
(* The backups: claims and processes.                                       *)

\* A window that was hit stays hit.
LEMMA SlippedGrows ==
    ASSUME ReqTyped, BackupsNext
    PROVE  slipped \subseteq slipped'
<1>1. CASE NextSecond
  BY <1>1 DEF NextSecond, backupHistory
<1>2. CASE WatchExit
  BY <1>2 DEF WatchExit, backupHistory
<1>3. ASSUME NEW f \in DataFile, WriteData(f) PROVE slipped \subseteq slipped'
  BY <1>3 DEF WriteData, backupHistory
<1>4. ASSUME NEW p \in running, ProcessExits(p) PROVE slipped \subseteq slipped'
  BY <1>4 DEF ProcessExits, backupHistory
<1>5. ASSUME NEW s \in Second, DeleteBackup(s) PROVE slipped \subseteq slipped'
  BY <1>5 DEF DeleteBackup, backupHistory
<1>6. ASSUME NEW q \in BackupRequest, NEW op \in BackupKind, BeginBackupOp(q, op) PROVE slipped \subseteq slipped'
  BY <1>6 DEF BeginBackupOp, backupHistory
<1>7. ASSUME NEW q \in BackupRequest, ClaimStart(q) PROVE slipped \subseteq slipped'
  BY <1>7 DEF ClaimStart, backupHistory
<1>8. ASSUME NEW q \in BackupRequest, Launch(q) PROVE slipped \subseteq slipped'
  BY <1>8 DEF Launch, backupHistory
<1>9. ASSUME NEW q \in BackupRequest, Publish(q) PROVE slipped \subseteq slipped'
  BY <1>9 DEF Publish, backupHistory
<1>10. ASSUME NEW q \in BackupRequest, ReleaseBusy(q) PROVE slipped \subseteq slipped'
  BY <1>10 DEF ReleaseBusy, backupHistory
<1>11. ASSUME NEW q \in BackupRequest, ClaimStop(q) PROVE slipped \subseteq slipped'
  BY <1>11 DEF ClaimStop, backupHistory
<1>12. ASSUME NEW q \in BackupRequest, StopProcess(q) PROVE slipped \subseteq slipped'
  BY <1>12 DEF StopProcess, backupHistory
<1>13. ASSUME NEW q \in BackupRequest, ReadProc(q) PROVE slipped \subseteq slipped'
  BY <1>13 DEF ReadProc, backupHistory
<1>14. ASSUME NEW q \in BackupRequest, KillRemoved(q) PROVE slipped \subseteq slipped'
  BY <1>14 DEF KillRemoved, backupHistory
<1>15. ASSUME NEW q \in BackupRequest, Unlist(q) PROVE slipped \subseteq slipped'
  BY <1>15 DEF Unlist, backupHistory
<1>16. ASSUME NEW q \in BackupRequest, DeleteData(q) PROVE slipped \subseteq slipped'
  BY <1>16 DEF DeleteData, backupHistory
<1>17. ASSUME NEW q \in BackupRequest, OpenBackup(q) PROVE slipped \subseteq slipped'
  BY <1>17 DEF OpenBackup, backupHistory
<1>18. ASSUME NEW q \in BackupRequest, CloseBackup(q) PROVE slipped \subseteq slipped'
  BY <1>18 DEF CloseBackup, backupHistory
<1>19. ASSUME NEW q \in BackupRequest, ClaimRestore(q) PROVE slipped \subseteq slipped'
  BY <1>19 DEF ClaimRestore, backupHistory
<1>20. ASSUME NEW q \in BackupRequest, EndRestore(q) PROVE slipped \subseteq slipped'
  BY <1>20 DEF EndRestore, backupHistory
<1>21. ASSUME NEW q \in BackupRequest, NEW s \in Second, OpenRestore(q, s) PROVE slipped \subseteq slipped'
  BY <1>21 DEF OpenRestore, backupHistory
<1>22. ASSUME NEW q \in BackupRequest, NEW f \in DataFile, CopyData(q, f) PROVE slipped \subseteq slipped'
  BY <1>22 DEF CopyData, backupHistory
<1>23. ASSUME NEW q \in BackupRequest, NEW f \in DataFile, Unzip(q, f) PROVE slipped \subseteq slipped'
  BY <1>23 DEF Unzip, backupHistory
<1> QED
  BY <1>1, <1>2, <1>3, <1>4, <1>5, <1>6, <1>7, <1>8, <1>9, <1>10, <1>11, <1>12, <1>13, <1>14,
     <1>15, <1>16, <1>17, <1>18, <1>19, <1>20, <1>21, <1>22, <1>23, Zenon
  DEF BackupsNext, BackupKind

\* An exit of a process, and a write to the files, leave the claims alone.
LEMMA QuietProcs ==
    ASSUME OneClaim, KnownProcs, breq' = breq, busy' = busy, proc' = proc, running' \subseteq running,
           stopped' => stopped \/ proc \notin running
    PROVE  OneClaim' /\ KnownProcs'
<1>1. OneClaim'
  BY DEF OneClaim, HasClaim
<1>2. KnownProcs'
  BY DEF KnownProcs, Carries, Halted
<1> QED
  BY <1>1, <1>2

\* So does a request that has nothing to do with Busy.
LEMMA QuietClaim ==
    ASSUME OneClaim, KnownProcs, NEW q \in BackupRequest, \A r \in BackupRequest \ {q} : breq'[r] = breq[r],
           breq[q].op = "remove" \/ breq[q].pc \in {"idle", "begun", "copy", "done", "failed"},
           breq'[q].op = "remove" \/ breq'[q].pc \in {"idle", "begun", "copy", "done", "failed"},
           breq'[q].op = "remove" => breq'[q].pc \in {"begun", "kill", "unlist", "delete", "done", "failed"},
           breq[q].op = "remove" => breq[q].pc \in {"idle", "begun", "kill", "unlist", "delete", "done", "failed"},
           busy' = busy, proc' = proc, stopped' = stopped, running' \subseteq running
    PROVE  OneClaim' /\ KnownProcs'
<1>1. ~HasClaim(q) /\ ~HasClaim(q)' /\ breq'[q].pc \notin {"claim", "launch", "publish"} /\ breq[q].pc \notin {"claim", "launch", "publish"}
  BY DEF HasClaim
<1>2. \A r \in BackupRequest \ {q} : HasClaim(r)' <=> HasClaim(r)
  BY DEF HasClaim
<1>3. OneClaim'
  <2>1. \A r \in BackupRequest : HasClaim(r)' => HasClaim(r)
    BY <1>1, <1>2
  <2>2. \A r, o \in BackupRequest : breq'[r].pc = "claim" => breq'[o].pc # "launch"
    BY <1>1 DEF OneClaim
  <2> QED
    BY <2>1, <2>2 DEF OneClaim
<1>4. ~Carries(q) /\ ~Carries(q)' /\ ~Halted(q)'
  BY DEF Carries, Halted
<1>5. \A r \in BackupRequest \ {q} : (Carries(r)' <=> Carries(r)) /\ (Halted(r)' <=> Halted(r))
  BY DEF Carries, Halted
<1>6. KnownProcs'
  <2>1. \A p \in running' : p = proc' \/ \E r \in BackupRequest : Carries(r)' /\ breq'[r].proc = p
    <3> SUFFICES ASSUME NEW p \in running', p # proc' PROVE \E r \in BackupRequest : Carries(r)' /\ breq'[r].proc = p
      OBVIOUS
    <3>1. PICK r \in BackupRequest : Carries(r) /\ breq[r].proc = p
      BY DEF KnownProcs
    <3> QED
      BY <1>4, <1>5, <3>1
  <2>2. \A r \in BackupRequest : Halted(r)' => running' = {}
    BY <1>4, <1>5 DEF KnownProcs
  <2>3. \A r \in BackupRequest : (breq'[r].pc = "kill" /\ breq'[r].op # "remove") => proc' = 0
    BY DEF KnownProcs
  <2>4. \A r \in BackupRequest : breq'[r].pc = "publish" => running' \subseteq {breq'[r].proc}
    BY <1>1 DEF KnownProcs
  <2>5. stopped' => proc' \notin running'
    BY DEF KnownProcs
  <2> QED
    BY <2>1, <2>2, <2>3, <2>4, <2>5, Zenon DEF KnownProcs
<1> QED
  BY <1>3, <1>6

\* Outside the window of RestoreIsAlone, each claim finds Busy clear and each release
\* ends the releaser's own claim; so processes come and go in one claim.
LEMMA ClaimKept ==
    ASSUME ReqTyped, ProcsTyped, ZipsTyped, ShapeInv, OneClaim, KnownProcs, "restore" \notin slipped', BackupsNext
    PROVE  OneClaim' /\ KnownProcs'
<1>1. CASE NextSecond
  <2>1. breq' = breq /\ busy' = busy /\ proc' = proc /\ running' = running /\ stopped' = stopped
    BY <1>1 DEF NextSecond, instance
  <2> QED
    BY <2>1, QuietProcs
<1>2. CASE WatchExit
  <2>1. breq' = breq /\ busy' = busy /\ proc' = proc /\ running' \subseteq running
        /\ (stopped' => stopped \/ proc \notin running)
    BY <1>2 DEF WatchExit
  <2> QED
    BY <2>1, QuietProcs
<1>3. ASSUME NEW f \in DataFile, WriteData(f) PROVE OneClaim' /\ KnownProcs'
  <2>1. breq' = breq /\ busy' = busy /\ proc' = proc /\ running' = running /\ stopped' = stopped
    BY <1>3 DEF WriteData, instance
  <2> QED
    BY <2>1, QuietProcs
<1>4. ASSUME NEW p \in running, ProcessExits(p) PROVE OneClaim' /\ KnownProcs'
  <2>1. breq' = breq /\ busy' = busy /\ proc' = proc /\ running' \subseteq running
        /\ (stopped' => stopped \/ proc \notin running)
    BY <1>4 DEF ProcessExits
  <2> QED
    BY <2>1, QuietProcs
<1>5. ASSUME NEW s \in Second, DeleteBackup(s) PROVE OneClaim' /\ KnownProcs'
  <2>1. breq' = breq /\ busy' = busy /\ proc' = proc /\ running' = running /\ stopped' = stopped
    BY <1>5 DEF DeleteBackup, instance
  <2> QED
    BY <2>1, QuietProcs
<1>6. ASSUME NEW q \in BackupRequest, NEW op \in BackupKind, BeginBackupOp(q, op) PROVE OneClaim' /\ KnownProcs'
  <2>1. /\ \A r \in BackupRequest \ {q} : breq'[r] = breq[r]
        /\ breq[q].op = "remove" \/ breq[q].pc \in {"idle", "begun", "copy", "done", "failed"}
        /\ breq'[q].op = "remove" \/ breq'[q].pc \in {"idle", "begun", "copy", "done", "failed"}
        /\ breq'[q].op = "remove" => breq'[q].pc \in {"begun", "kill", "unlist", "delete", "done", "failed"}
        /\ busy' = busy /\ proc' = proc /\ stopped' = stopped /\ running' \subseteq running
    BY <1>6, ReqBeginning DEF ReqBecomes, ReqMoves, instance, BeginBackupOp
  <2>2. breq[q].op = "remove" => breq[q].pc \in {"idle", "begun", "kill", "unlist", "delete", "done", "failed"}
    BY DEF ShapeInv, ShapeOf
  <2> QED
    BY <2>1, <2>2, QuietClaim, Zenon
<1>7. ASSUME NEW q \in BackupRequest, ClaimStart(q) PROVE OneClaim' /\ KnownProcs'
  <2>1. CASE ReqMoves(q, "failed") /\ UNCHANGED <<busy, stopped, slipped>>
    <3>1. /\ \A r \in BackupRequest \ {q} : breq'[r] = breq[r]
          /\ breq[q].pc = "begun" /\ breq'[q].pc = "failed" /\ breq'[q].op = breq[q].op
          /\ busy' = busy /\ proc' = proc /\ stopped' = stopped /\ running' \subseteq running
      BY <1>7, <2>1, ClaimStartSays DEF ReqBecomes, ReqMoves
    <3> QED
      BY <3>1, QuietClaim
  <2>2. CASE ~(ReqMoves(q, "failed") /\ UNCHANGED <<busy, stopped, slipped>>)
    <3>1. /\ ~busy /\ ~Alive /\ ReqMoves(q, "launch") /\ busy' = TRUE /\ stopped' = FALSE
          /\ slipped' = slipped \cup {w \in {"restore"} : Doing(w, {"claim"})}
          /\ UNCHANGED <<running, proc>> /\ breq[q].op = "start"
      BY <1>7, <2>2, ClaimStartSays
    <3>2. \A r \in BackupRequest : ~HasClaim(r)
      BY <3>1 DEF OneClaim
    <3>3. running \subseteq {proc}
      BY <3>2 DEF KnownProcs, Carries, HasClaim
    <3>4. running = {}
      <4>1. 0 \notin running
        BY DEF ProcsTyped
      <4> QED
        BY <3>1, <3>3, <4>1 DEF Alive
    <3>5. \A r \in BackupRequest : breq[r].pc # "claim"
      <4>1. ~Doing("restore", {"claim"})
        BY <3>1
      <4> QED
        BY <4>1, ReqSays DEF Doing, ShapeInv, ShapeOf, BackupKind
    <3>6. (\A r \in BackupRequest \ {q} : breq'[r] = breq[r]) /\ breq'[q].pc = "launch" /\ breq'[q].op = "start"
      BY <3>1 DEF ReqBecomes, ReqMoves
    <3>7. \A r \in BackupRequest \ {q} : ~HasClaim(r)'
      BY <3>2, <3>6 DEF HasClaim
    <3>8. OneClaim'
      BY <3>1, <3>5, <3>6, <3>7 DEF OneClaim
    <3>9. KnownProcs'
      BY <3>1, <3>2, <3>4, <3>6 DEF KnownProcs, HasClaim
    <3> QED
      BY <3>8, <3>9
  <2> QED
    BY <2>1, <2>2
<1>8. ASSUME NEW q \in BackupRequest, Launch(q) PROVE OneClaim' /\ KnownProcs'
  <2>1. breq[q].op = "start" /\ breq[q].pc = "launch" /\ busy' = busy /\ proc' = proc
    BY <1>8, LaunchSays
  <2>2. \A r \in BackupRequest \ {q} : ~HasClaim(r)
    <3>1. HasClaim(q)
      BY <2>1 DEF HasClaim
    <3> QED
      BY <3>1 DEF OneClaim
  <2>3. running = {} /\ proc # lastProc + 1 /\ busy
    <3>1. Halted(q) /\ HasClaim(q)
      BY <2>1 DEF Halted, HasClaim
    <3> QED
      BY <3>1 DEF KnownProcs, OneClaim, ProcsTyped
  <2>4. \A r \in BackupRequest : breq[r].pc # "claim"
    BY <2>1 DEF OneClaim
  <2>5. CASE ReqMoves(q, "again") /\ stopped' = TRUE /\ UNCHANGED <<lastProc, running>>
    <3>1. (\A r \in BackupRequest \ {q} : breq'[r] = breq[r]) /\ breq'[q].pc = "again" /\ breq'[q].op = "start" /\ running' = {}
      BY <2>1, <2>3, <2>5 DEF ReqBecomes, ReqMoves
    <3>2. \A r \in BackupRequest \ {q} : ~HasClaim(r)'
      BY <2>2, <3>1 DEF HasClaim
    <3>3. \A r \in BackupRequest : breq'[r].pc # "claim"
      BY <2>4, <3>1
    <3>4. OneClaim'
      BY <2>1, <2>3, <3>2, <3>3 DEF OneClaim
    <3>5. KnownProcs'
      BY <3>1, <3>2 DEF KnownProcs, HasClaim
    <3> QED
      BY <3>4, <3>5
  <2>6. CASE ~(ReqMoves(q, "again") /\ stopped' = TRUE /\ UNCHANGED <<lastProc, running>>)
    <3>1. /\ running' = running \cup {lastProc + 1} /\ stopped' = stopped
          /\ ReqBecomes(q, "start", "publish", lastProc + 1, breq[q].zip, breq[q].todo, breq[q].kept, breq[q].unzipped)
      BY <1>8, <2>6, LaunchSays
    <3>2. (\A r \in BackupRequest \ {q} : breq'[r] = breq[r]) /\ breq'[q].pc = "publish" /\ breq'[q].op = "start"
          /\ breq'[q].proc = lastProc + 1 /\ running' = {lastProc + 1}
      BY <2>3, <3>1 DEF ReqBecomes
    <3>3. \A r \in BackupRequest \ {q} : ~HasClaim(r)'
      BY <2>2, <3>2 DEF HasClaim
    <3>4. \A r \in BackupRequest : breq'[r].pc # "claim"
      BY <2>4, <3>2
    <3>5. OneClaim'
      BY <2>1, <2>3, <3>3, <3>4 DEF OneClaim
    <3>6. \A r \in BackupRequest : ~Halted(r)'
      <4>1. \A r \in BackupRequest : Halted(r)' => breq'[r].pc = "claim" \/ (r # q /\ (HasClaim(r)' \/ breq'[r].op = "remove"))
        BY <3>2 DEF Halted, HasClaim
      <4>2. \A r \in BackupRequest : breq'[r].op = "remove" => ~Halted(r)'
        BY <3>2 DEF ShapeInv, ShapeOf, Halted
      <4> QED
        BY <3>3, <3>4, <4>1, <4>2
    <3>7. \A r \in BackupRequest \ {q} : breq'[r].pc # "publish" /\ (breq'[r].pc = "kill" => breq'[r].op = "remove")
      <4>1. \A r \in BackupRequest \ {q} : breq[r].op = "remove" => breq[r].pc # "publish"
        BY DEF ShapeInv, ShapeOf
      <4> QED
        BY <3>2, <3>3, <4>1 DEF HasClaim
    <3>8. Carries(q)'
      BY <3>2 DEF Carries
    <3>9. KnownProcs'
      BY <2>1, <2>3, <3>2, <3>6, <3>7, <3>8 DEF KnownProcs
    <3> QED
      BY <3>5, <3>9
  <2> QED
    BY <2>5, <2>6
<1>9. ASSUME NEW q \in BackupRequest, Publish(q) PROVE OneClaim' /\ KnownProcs'
  <2>1. /\ \A r \in BackupRequest \ {q} : breq'[r] = breq[r]
        /\ breq[q].op = "start" /\ breq[q].pc = "publish" /\ breq'[q].op = "start" /\ breq'[q].pc = "release"
        /\ proc' = breq[q].proc /\ stopped' = FALSE /\ busy' = busy /\ running' = running
    BY <1>9, PublishSays DEF ReqBecomes, ReqMoves
  <2>2. \A r \in BackupRequest \ {q} : ~HasClaim(r)
    <3>1. HasClaim(q)
      BY <2>1 DEF HasClaim
    <3> QED
      BY <3>1 DEF OneClaim
  <2>3. \A r \in BackupRequest \ {q} : ~HasClaim(r)'
    BY <2>1, <2>2 DEF HasClaim
  <2>4. busy /\ running \subseteq {breq[q].proc}
    BY <2>1 DEF OneClaim, KnownProcs, HasClaim
  <2>5. OneClaim'
    <3>1. \A r, o \in BackupRequest : breq'[r].pc = "claim" => breq'[o].pc # "launch"
      BY <2>1 DEF OneClaim
    <3> QED
      BY <2>1, <2>3, <2>4, <3>1 DEF OneClaim
  <2>6. \A r \in BackupRequest : Halted(r)' => running' = {}
    BY <2>1 DEF KnownProcs, Halted
  <2>7. \A r \in BackupRequest : breq'[r].pc # "publish" /\ (breq'[r].pc = "kill" => breq'[r].op = "remove")
    <3>1. \A r \in BackupRequest : breq[r].op = "remove" => breq[r].pc # "publish"
      BY DEF ShapeInv, ShapeOf
    <3> QED
      BY <2>1, <2>3, <3>1 DEF HasClaim
  <2>8. KnownProcs'
    BY <2>1, <2>4, <2>6, <2>7 DEF KnownProcs
  <2> QED
    BY <2>5, <2>8
<1>10. ASSUME NEW q \in BackupRequest, ReleaseBusy(q) PROVE OneClaim' /\ KnownProcs'
  <2>1. /\ \A r \in BackupRequest \ {q} : breq'[r] = breq[r]
        /\ breq[q].pc \in {"release", "again"} /\ breq'[q].op = breq[q].op
        /\ running' = running /\ proc' = proc /\ stopped' = stopped
        /\ \/ breq[q].op = "start" /\ breq[q].pc = "release" /\ breq'[q].pc = "again" /\ breq'[q].proc = breq[q].proc
           \/ breq[q].op = "restore" /\ breq[q].pc = "release" /\ breq'[q].pc = "claim"
           \/ breq'[q].pc \in {"done", "failed"}
    <3>1. UNCHANGED <<stopped, running, proc>> /\ breq[q].pc \in {"release", "again"}
      BY <1>10, ReleaseSays
    <3>2. \E l \in BackupLabel : ReqMoves(q, l)
          /\ \/ breq[q].op = "start" /\ breq[q].pc = "release" /\ l = "again"
             \/ breq[q].op = "restore" /\ breq[q].pc = "release" /\ l = "claim"
             \/ l \in {"done", "failed"}
      BY <1>10, ReleaseSays DEF BackupLabel
    <3> QED
      BY <3>1, <3>2 DEF ReqBecomes, ReqMoves
  <2>2. \A r \in BackupRequest \ {q} : ~HasClaim(r)
    <3>1. CASE HasClaim(q)
      <4>1. CASE \E o \in BackupRequest \ {q} : HasClaim(o)
        BY <3>1, <4>1 DEF OneClaim
      <4> QED
        BY <4>1
    <3>2. CASE ~HasClaim(q)
      <4>1. breq[q].op = "start" /\ breq[q].pc = "again"
        BY <2>1, <3>2, <1>10, ReleaseSays DEF HasClaim
      <4> QED
        BY <4>1, <1>10, ReleaseSays
    <3> QED
      BY <3>1, <3>2
  <2>3. \A r \in BackupRequest : ~HasClaim(r)'
    <3>1. \A r \in BackupRequest \ {q} : ~HasClaim(r)'
      BY <2>1, <2>2 DEF HasClaim
    <3>2. ~HasClaim(q)'
      BY <2>1 DEF HasClaim, ShapeInv, ShapeOf
    <3> QED
      BY <3>1, <3>2
  <2>4. \A r \in BackupRequest : breq'[r].pc # "launch"
    <3>1. \A r \in BackupRequest \ {q} : breq[r].pc # "launch"
      BY <2>2 DEF HasClaim, ShapeInv, ShapeOf
    <3> QED
      BY <2>1, <3>1
  <2>5. OneClaim'
    BY <2>3, <2>4 DEF OneClaim
  <2>6. \A r \in BackupRequest : Halted(r)' => Halted(r)
    BY <2>1 DEF Halted
  <2>7. \A r \in BackupRequest : Carries(r) => Carries(r)' /\ breq'[r].proc = breq[r].proc
    BY <2>1 DEF Carries
  <2>8. \A r \in BackupRequest : breq'[r].pc \in {"kill", "publish"} => breq'[r] = breq[r]
    BY <2>1
  <2>9. KnownProcs'
    BY <2>1, <2>6, <2>7, <2>8 DEF KnownProcs
  <2> QED
    BY <2>5, <2>9
<1>11. ASSUME NEW q \in BackupRequest, ClaimStop(q) PROVE OneClaim' /\ KnownProcs'
  <2>1. CASE ReqMoves(q, "failed") /\ UNCHANGED <<busy, stopped, proc>>
    <3>1. /\ \A r \in BackupRequest \ {q} : breq'[r] = breq[r]
          /\ breq[q].pc = "begun" /\ breq'[q].pc = "failed" /\ breq'[q].op = breq[q].op
          /\ busy' = busy /\ proc' = proc /\ stopped' = stopped /\ running' \subseteq running
      BY <1>11, <2>1, ClaimStopSays DEF ReqBecomes, ReqMoves
    <3> QED
      BY <3>1, QuietClaim
  <2>2. CASE breq[q].op = "restore" /\ ~busy /\ ~Alive /\ ReqMoves(q, "claim") /\ UNCHANGED <<busy, stopped, proc>>
    <3>1. ~busy /\ running' = running /\ proc' = proc /\ stopped' = stopped /\ busy' = busy
      BY <1>11, <2>2, ClaimStopSays
    <3>2. \A r \in BackupRequest : ~HasClaim(r)
      BY <3>1 DEF OneClaim
    <3>3. running \subseteq {proc}
      BY <3>2 DEF KnownProcs, Carries, HasClaim
    <3>4. running = {}
      <4>1. 0 \notin running
        BY DEF ProcsTyped
      <4> QED
        BY <2>2, <3>3, <4>1 DEF Alive
    <3>5. (\A r \in BackupRequest \ {q} : breq'[r] = breq[r]) /\ breq'[q].pc = "claim" /\ breq'[q].op = "restore"
      BY <2>2 DEF ReqBecomes, ReqMoves
    <3>6. \A r \in BackupRequest : ~HasClaim(r)' /\ breq'[r].pc \notin {"launch", "publish"} /\ (breq'[r].pc = "kill" => breq'[r].op = "remove")
      BY <3>2, <3>5 DEF HasClaim, ShapeInv, ShapeOf
    <3>7. OneClaim' /\ KnownProcs'
      BY <3>1, <3>4, <3>6 DEF OneClaim, KnownProcs
    <3> QED
      BY <3>7
  <2>3. CASE /\ ~busy /\ Alive /\ busy' = TRUE /\ stopped' = FALSE /\ proc' = 0
             /\ ReqBecomes(q, breq[q].op, "kill", proc, breq[q].zip, breq[q].todo, breq[q].kept, breq[q].unzipped)
    <3>1. ~busy /\ running' = running /\ breq[q].op \in {"stop", "restore"} /\ breq[q].pc = "begun"
      BY <1>11, <2>3, ClaimStopSays
    <3>2. \A r \in BackupRequest : ~HasClaim(r)
      BY <3>1 DEF OneClaim
    <3>3. running \subseteq {proc}
      BY <3>2 DEF KnownProcs, Carries, HasClaim
    <3>4. (\A r \in BackupRequest \ {q} : breq'[r] = breq[r]) /\ breq'[q].pc = "kill" /\ breq'[q].op \in {"stop", "restore"} /\ breq'[q].proc = proc
      BY <2>3, <3>1 DEF ReqBecomes
    <3>5. \A r \in BackupRequest \ {q} : ~HasClaim(r)'
      BY <3>2, <3>4 DEF HasClaim
    <3>6. \A r, o \in BackupRequest : breq'[r].pc = "claim" => breq'[o].pc # "launch"
      BY <3>4 DEF OneClaim
    <3>7. OneClaim'
      BY <2>3, <3>5, <3>6 DEF OneClaim
    <3>8. (\A r \in BackupRequest : Halted(r)' => running' = {}) /\ Carries(q)'
      BY <3>1, <3>4 DEF KnownProcs, Halted, Carries
    <3>9. \A r \in BackupRequest : breq'[r].pc # "publish"
      BY <3>2, <3>4 DEF HasClaim, ShapeInv, ShapeOf
    <3>10. KnownProcs'
      BY <2>3, <3>1, <3>3, <3>4, <3>8, <3>9 DEF KnownProcs
    <3> QED
      BY <3>7, <3>10
  <2> QED
    BY <1>11, <2>1, <2>2, <2>3, ClaimStopSays
<1>12. ASSUME NEW q \in BackupRequest, StopProcess(q) PROVE OneClaim' /\ KnownProcs'
  <2>1. breq[q].op \in {"stop", "restore"} /\ breq[q].pc = "kill" /\ busy' = busy
    BY <1>12, StopProcessSays
  <2>2. \A r \in BackupRequest \ {q} : ~HasClaim(r)
    <3>1. HasClaim(q)
      BY <2>1 DEF HasClaim
    <3> QED
      BY <3>1 DEF OneClaim
  <2>3. proc = 0 /\ busy /\ running \subseteq {breq[q].proc}
    <3>1. proc = 0 /\ busy
      BY <2>1 DEF KnownProcs, OneClaim, HasClaim
    <3>2. \A p \in running : p # 0
      BY DEF ProcsTyped
    <3>3. \A r \in BackupRequest \ {q} : ~Carries(r)
      BY <2>2 DEF Carries, HasClaim
    <3> QED
      BY <3>1, <3>2, <3>3 DEF KnownProcs
  <2>4. \A r \in BackupRequest \ {q} : breq[r].pc \notin {"launch", "publish"} /\ (breq[r].pc = "kill" => breq[r].op = "remove")
    BY <2>2 DEF HasClaim, ShapeInv, ShapeOf
  <2>5. CASE running' = running \ {breq[q].proc} /\ stopped' = TRUE /\ ReqMoves(q, "release") /\ UNCHANGED proc
    <3>1. (\A r \in BackupRequest \ {q} : breq'[r] = breq[r]) /\ breq'[q].pc = "release" /\ breq'[q].op = breq[q].op
      BY <2>5 DEF ReqBecomes, ReqMoves
    <3>2. running' = {}
      BY <2>3, <2>5
    <3>3. \A r \in BackupRequest : breq'[r].pc \notin {"launch", "publish"} /\ (breq'[r].pc = "kill" => breq'[r].op = "remove")
      BY <2>4, <3>1
    <3>4. \A r \in BackupRequest \ {q} : ~HasClaim(r)'
      BY <2>2, <3>1 DEF HasClaim
    <3>5. OneClaim'
      BY <2>1, <2>3, <3>3, <3>4 DEF OneClaim
    <3>6. KnownProcs'
      BY <3>2, <3>3 DEF KnownProcs
    <3> QED
      BY <3>5, <3>6
  <2>6. CASE ~(running' = running \ {breq[q].proc} /\ stopped' = TRUE /\ ReqMoves(q, "release") /\ UNCHANGED proc)
    <3>1. breq[q].proc \in running /\ running' = running /\ proc' = breq[q].proc /\ stopped' = FALSE /\ ReqMoves(q, "again")
      BY <1>12, <2>6, StopProcessSays
    <3>2. (\A r \in BackupRequest \ {q} : breq'[r] = breq[r]) /\ breq'[q].pc = "again" /\ breq'[q].op = breq[q].op
      BY <3>1 DEF ReqBecomes, ReqMoves
    <3>3. \A r \in BackupRequest : breq'[r].pc \notin {"launch", "publish"} /\ (breq'[r].pc = "kill" => breq'[r].op = "remove")
      BY <2>4, <3>2
    <3>4. \A r \in BackupRequest \ {q} : ~HasClaim(r)'
      BY <2>2, <3>2 DEF HasClaim
    <3>5. OneClaim'
      BY <2>1, <2>3, <3>3, <3>4 DEF OneClaim
    <3>6. \A r \in BackupRequest : Halted(r)' => running' = {}
      BY <3>1, <3>2 DEF KnownProcs, Halted
    <3>7. KnownProcs'
      BY <2>3, <3>1, <3>3, <3>6 DEF KnownProcs
    <3> QED
      BY <3>5, <3>7
  <2> QED
    BY <2>5, <2>6
<1>13. ASSUME NEW q \in BackupRequest, ReadProc(q) PROVE OneClaim' /\ KnownProcs'
  <2>1. /\ \A r \in BackupRequest \ {q} : breq'[r] = breq[r]
        /\ breq[q].op = "remove" \/ breq[q].pc \in {"idle", "begun", "copy", "done", "failed"}
        /\ breq'[q].op = "remove" \/ breq'[q].pc \in {"idle", "begun", "copy", "done", "failed"}
        /\ breq'[q].op = "remove" => breq'[q].pc \in {"begun", "kill", "unlist", "delete", "done", "failed"}
        /\ busy' = busy /\ proc' = proc /\ stopped' = stopped /\ running' \subseteq running
    BY <1>13, ReadProcSays DEF ReqBecomes, ReqMoves, instance
  <2>2. breq[q].op = "remove" => breq[q].pc \in {"idle", "begun", "kill", "unlist", "delete", "done", "failed"}
    BY DEF ShapeInv, ShapeOf
  <2> QED
    BY <2>1, <2>2, QuietClaim, Zenon
<1>14. ASSUME NEW q \in BackupRequest, KillRemoved(q) PROVE OneClaim' /\ KnownProcs'
  <2>1. /\ \A r \in BackupRequest \ {q} : breq'[r] = breq[r]
        /\ breq[q].op = "remove" \/ breq[q].pc \in {"idle", "begun", "copy", "done", "failed"}
        /\ breq'[q].op = "remove" \/ breq'[q].pc \in {"idle", "begun", "copy", "done", "failed"}
        /\ breq'[q].op = "remove" => breq'[q].pc \in {"begun", "kill", "unlist", "delete", "done", "failed"}
        /\ busy' = busy /\ proc' = proc /\ stopped' = stopped /\ running' \subseteq running
    BY <1>14, KillRemovedSays DEF ReqBecomes, ReqMoves, instance
  <2>2. breq[q].op = "remove" => breq[q].pc \in {"idle", "begun", "kill", "unlist", "delete", "done", "failed"}
    BY DEF ShapeInv, ShapeOf
  <2> QED
    BY <2>1, <2>2, QuietClaim, Zenon
<1>15. ASSUME NEW q \in BackupRequest, Unlist(q) PROVE OneClaim' /\ KnownProcs'
  <2>1. /\ \A r \in BackupRequest \ {q} : breq'[r] = breq[r]
        /\ breq[q].op = "remove" \/ breq[q].pc \in {"idle", "begun", "copy", "done", "failed"}
        /\ breq'[q].op = "remove" \/ breq'[q].pc \in {"idle", "begun", "copy", "done", "failed"}
        /\ breq'[q].op = "remove" => breq'[q].pc \in {"begun", "kill", "unlist", "delete", "done", "failed"}
        /\ busy' = busy /\ proc' = proc /\ stopped' = stopped /\ running' \subseteq running
    BY <1>15, UnlistSays DEF ReqBecomes, ReqMoves, instance
  <2>2. breq[q].op = "remove" => breq[q].pc \in {"idle", "begun", "kill", "unlist", "delete", "done", "failed"}
    BY DEF ShapeInv, ShapeOf
  <2> QED
    BY <2>1, <2>2, QuietClaim, Zenon
<1>16. ASSUME NEW q \in BackupRequest, DeleteData(q) PROVE OneClaim' /\ KnownProcs'
  <2>1. /\ \A r \in BackupRequest \ {q} : breq'[r] = breq[r]
        /\ breq[q].op = "remove" \/ breq[q].pc \in {"idle", "begun", "copy", "done", "failed"}
        /\ breq'[q].op = "remove" \/ breq'[q].pc \in {"idle", "begun", "copy", "done", "failed"}
        /\ breq'[q].op = "remove" => breq'[q].pc \in {"begun", "kill", "unlist", "delete", "done", "failed"}
        /\ busy' = busy /\ proc' = proc /\ stopped' = stopped /\ running' \subseteq running
    BY <1>16, DeleteDataSays DEF ReqBecomes, ReqMoves, instance
  <2>2. breq[q].op = "remove" => breq[q].pc \in {"idle", "begun", "kill", "unlist", "delete", "done", "failed"}
    BY DEF ShapeInv, ShapeOf
  <2> QED
    BY <2>1, <2>2, QuietClaim, Zenon
<1>17. ASSUME NEW q \in BackupRequest, OpenBackup(q) PROVE OneClaim' /\ KnownProcs'
  <2>1. /\ \A r \in BackupRequest \ {q} : breq'[r] = breq[r]
        /\ breq[q].op = "remove" \/ breq[q].pc \in {"idle", "begun", "copy", "done", "failed"}
        /\ breq'[q].op = "remove" \/ breq'[q].pc \in {"idle", "begun", "copy", "done", "failed"}
        /\ breq'[q].op = "remove" => breq'[q].pc \in {"begun", "kill", "unlist", "delete", "done", "failed"}
        /\ busy' = busy /\ proc' = proc /\ stopped' = stopped /\ running' \subseteq running
    BY <1>17, OpenBackupSays DEF ReqBecomes, ReqMoves, instance
  <2>2. breq[q].op = "remove" => breq[q].pc \in {"idle", "begun", "kill", "unlist", "delete", "done", "failed"}
    BY DEF ShapeInv, ShapeOf
  <2> QED
    BY <2>1, <2>2, QuietClaim, Zenon
<1>18. ASSUME NEW q \in BackupRequest, CloseBackup(q) PROVE OneClaim' /\ KnownProcs'
  <2>1. /\ \A r \in BackupRequest \ {q} : breq'[r] = breq[r]
        /\ breq[q].op = "remove" \/ breq[q].pc \in {"idle", "begun", "copy", "done", "failed"}
        /\ breq'[q].op = "remove" \/ breq'[q].pc \in {"idle", "begun", "copy", "done", "failed"}
        /\ breq'[q].op = "remove" => breq'[q].pc \in {"begun", "kill", "unlist", "delete", "done", "failed"}
        /\ busy' = busy /\ proc' = proc /\ stopped' = stopped /\ running' \subseteq running
    BY <1>18, CloseBackupSays DEF ReqBecomes, ReqMoves, instance
  <2>2. breq[q].op = "remove" => breq[q].pc \in {"idle", "begun", "kill", "unlist", "delete", "done", "failed"}
    BY DEF ShapeInv, ShapeOf
  <2> QED
    BY <2>1, <2>2, QuietClaim, Zenon
<1>19. ASSUME NEW q \in BackupRequest, ClaimRestore(q) PROVE OneClaim' /\ KnownProcs'
  <2>1. /\ \A r \in BackupRequest \ {q} : breq'[r] = breq[r]
        /\ breq[q].op = "restore" /\ breq[q].pc = "claim" /\ breq'[q].op = "restore" /\ breq'[q].pc = "open"
        /\ busy' = TRUE /\ slipped' = slipped \cup {w \in {"restore"} : busy}
        /\ stopped' = stopped /\ running' = running /\ proc' = proc
    BY <1>19, ClaimRestoreSays DEF ReqBecomes, ReqMoves
  <2>2. \A r \in BackupRequest : ~HasClaim(r)
    BY <2>1 DEF OneClaim
  <2>3. \A r \in BackupRequest \ {q} : ~HasClaim(r)'
    BY <2>1, <2>2 DEF HasClaim
  <2>4. \A r, o \in BackupRequest : breq'[r].pc = "claim" => breq'[o].pc # "launch"
    BY <2>1 DEF OneClaim
  <2>5. OneClaim'
    BY <2>1, <2>3, <2>4 DEF OneClaim
  <2>6. running = {}
    BY <2>1 DEF KnownProcs, Halted
  <2>7. \A r \in BackupRequest : (breq'[r].pc = "kill" => breq'[r].op = "remove")
    BY <2>1, <2>2 DEF HasClaim
  <2>8. KnownProcs'
    BY <2>1, <2>6, <2>7 DEF KnownProcs
  <2> QED
    BY <2>5, <2>8
<1>20. ASSUME NEW q \in BackupRequest, EndRestore(q) PROVE OneClaim' /\ KnownProcs'
  <2>1. /\ \A r \in BackupRequest \ {q} : breq'[r] = breq[r]
        /\ breq[q].op = "restore" /\ breq[q].pc = "unzip" /\ breq'[q].op = "restore" /\ breq'[q].pc = "done"
        /\ busy' = FALSE /\ stopped' = TRUE /\ running' = running /\ proc' = proc
    BY <1>20, EndRestoreSays DEF ReqBecomes, ReqMoves
  <2>2. \A r \in BackupRequest \ {q} : ~HasClaim(r)
    <3>1. HasClaim(q)
      BY <2>1 DEF HasClaim
    <3> QED
      BY <3>1 DEF OneClaim
  <2>3. \A r \in BackupRequest : ~HasClaim(r)'
    BY <2>1, <2>2 DEF HasClaim
  <2>4. \A r, o \in BackupRequest : breq'[r].pc = "claim" => breq'[o].pc # "launch"
    BY <2>1 DEF OneClaim
  <2>5. OneClaim'
    BY <2>3, <2>4 DEF OneClaim
  <2>6. running = {}
    BY <2>1 DEF KnownProcs, Halted
  <2>7. \A r \in BackupRequest : breq'[r].pc = "kill" => breq'[r].op = "remove"
    BY <2>3 DEF HasClaim
  <2>8. KnownProcs'
    BY <2>1, <2>6, <2>7 DEF KnownProcs
  <2> QED
    BY <2>5, <2>8
<1>21. ASSUME NEW q \in BackupRequest, NEW s \in Second, OpenRestore(q, s) PROVE OneClaim' /\ KnownProcs'
  <2>1. /\ \A r \in BackupRequest \ {q} : breq'[r] = breq[r]
        /\ breq[q].op = "restore" /\ breq[q].pc \in {"open", "unzip"} /\ breq'[q].op = "restore" /\ breq'[q].pc \in {"unzip", "again"}
    BY <1>21, OpenRestoreSays DEF ReqBecomes, ReqMoves
  <2>2. stopped' = stopped /\ running' = running /\ proc' = proc /\ busy' = busy
    BY <1>21, OpenRestoreSays DEF instance
  <2>3. \A r \in BackupRequest \ {q} : ~HasClaim(r)
    <3>1. HasClaim(q)
      BY <2>1 DEF HasClaim
    <3> QED
      BY <3>1 DEF OneClaim
  <2>4. \A r \in BackupRequest \ {q} : ~HasClaim(r)'
    BY <2>1, <2>3 DEF HasClaim
  <2>5. \A r, o \in BackupRequest : breq'[r].pc = "claim" => breq'[o].pc # "launch"
    BY <2>1 DEF OneClaim
  <2>6. busy /\ running = {}
    BY <2>1 DEF OneClaim, KnownProcs, HasClaim, Halted
  <2>7. OneClaim'
    BY <2>2, <2>4, <2>5, <2>6 DEF OneClaim
  <2>8. \A r \in BackupRequest : breq'[r].pc = "kill" => breq'[r].op = "remove"
    BY <2>1, <2>4 DEF HasClaim
  <2>9. KnownProcs'
    BY <2>2, <2>6, <2>8 DEF KnownProcs
  <2> QED
    BY <2>7, <2>9
<1>22. ASSUME NEW q \in BackupRequest, NEW f \in DataFile, CopyData(q, f) PROVE OneClaim' /\ KnownProcs'
  <2>1. /\ \A r \in BackupRequest \ {q} : breq'[r] = breq[r]
        /\ breq[q].op = "remove" \/ breq[q].pc \in {"idle", "begun", "copy", "done", "failed"}
        /\ breq'[q].op = "remove" \/ breq'[q].pc \in {"idle", "begun", "copy", "done", "failed"}
        /\ breq'[q].op = "remove" => breq'[q].pc \in {"begun", "kill", "unlist", "delete", "done", "failed"}
        /\ busy' = busy /\ proc' = proc /\ stopped' = stopped /\ running' \subseteq running
    BY <1>22, CopyDataSays DEF ReqBecomes, ReqMoves, instance
  <2>2. breq[q].op = "remove" => breq[q].pc \in {"idle", "begun", "kill", "unlist", "delete", "done", "failed"}
    BY DEF ShapeInv, ShapeOf
  <2> QED
    BY <2>1, <2>2, QuietClaim, Zenon
<1>23. ASSUME NEW q \in BackupRequest, NEW f \in DataFile, Unzip(q, f) PROVE OneClaim' /\ KnownProcs'
  <2>1. /\ \A r \in BackupRequest \ {q} : breq'[r] = breq[r]
        /\ breq[q].op = "restore" /\ breq[q].pc \in {"open", "unzip"} /\ breq'[q].op = "restore" /\ breq'[q].pc \in {"unzip", "again"}
    BY <1>23, UnzipSays DEF ReqBecomes, ReqMoves
  <2>2. stopped' = stopped /\ running' = running /\ proc' = proc /\ busy' = busy
    BY <1>23, UnzipSays DEF instance
  <2>3. \A r \in BackupRequest \ {q} : ~HasClaim(r)
    <3>1. HasClaim(q)
      BY <2>1 DEF HasClaim
    <3> QED
      BY <3>1 DEF OneClaim
  <2>4. \A r \in BackupRequest \ {q} : ~HasClaim(r)'
    BY <2>1, <2>3 DEF HasClaim
  <2>5. \A r, o \in BackupRequest : breq'[r].pc = "claim" => breq'[o].pc # "launch"
    BY <2>1 DEF OneClaim
  <2>6. busy /\ running = {}
    BY <2>1 DEF OneClaim, KnownProcs, HasClaim, Halted
  <2>7. OneClaim'
    BY <2>2, <2>4, <2>5, <2>6 DEF OneClaim
  <2>8. \A r \in BackupRequest : breq'[r].pc = "kill" => breq'[r].op = "remove"
    BY <2>1, <2>4 DEF HasClaim
  <2>9. KnownProcs'
    BY <2>2, <2>6, <2>8 DEF KnownProcs
  <2> QED
    BY <2>7, <2>9
<1> QED
  BY <1>1, <1>2, <1>3, <1>4, <1>5, <1>6, <1>7, <1>8, <1>9, <1>10, <1>11, <1>12, <1>13, <1>14,
     <1>15, <1>16, <1>17, <1>18, <1>19, <1>20, <1>21, <1>22, <1>23, Zenon
  DEF BackupsNext, BackupKind

-----------------------------------------------------------------------------
(* The backups: the files of a restore, and the removal.                    *)

\* A step that does not write the files keeps what was unzipped.
LEMMA QuietData ==
    ASSUME \A r \in BackupRequest : UnzippedAt(r), NEW q \in BackupRequest, \A r \in BackupRequest \ {q} : breq'[r] = breq[r],
           breq'[q].pc # "unzip", data' = data
    PROVE  \A r \in BackupRequest : UnzippedAt(r)'
BY DEF UnzippedAt

\* Nobody else writes the files while a restore unzips: nothing runs, and no second
\* restore is unzipping.
LEMMA UnzippedKept ==
    ASSUME ReqTyped, ProcsTyped, ZipsTyped, ShapeInv, OneClaim, KnownProcs, \A r \in BackupRequest : UnzippedAt(r), "restore" \notin slipped', BackupsNext
    PROVE  \A r \in BackupRequest : UnzippedAt(r)'
<1>1. CASE NextSecond
  BY <1>1 DEF NextSecond, backupDisk, UnzippedAt
<1>2. CASE WatchExit
  BY <1>2 DEF WatchExit, backupDisk, UnzippedAt
<1>3. ASSUME NEW f \in DataFile, WriteData(f) PROVE \A r \in BackupRequest : UnzippedAt(r)'
  <2>1. breq' = breq /\ \A r \in BackupRequest : breq[r].pc # "unzip"
    BY <1>3 DEF WriteData, KnownProcs, Halted
  <2> QED
    BY <2>1 DEF UnzippedAt
<1>4. ASSUME NEW p \in running, ProcessExits(p) PROVE \A r \in BackupRequest : UnzippedAt(r)'
  BY <1>4 DEF ProcessExits, backupDisk, UnzippedAt
<1>5. ASSUME NEW s \in Second, DeleteBackup(s) PROVE \A r \in BackupRequest : UnzippedAt(r)'
  BY <1>5 DEF DeleteBackup, backupDisk, UnzippedAt
<1>6. ASSUME NEW q \in BackupRequest, NEW op \in BackupKind, BeginBackupOp(q, op) PROVE \A r \in BackupRequest : UnzippedAt(r)'
  <2>1. (\A r \in BackupRequest \ {q} : breq'[r] = breq[r]) /\ breq'[q].pc # "unzip" /\ data' = data
    BY <1>6, ReqBeginning DEF ReqBecomes, ReqMoves, backupDisk, BeginBackupOp
  <2> QED
    BY <2>1, QuietData
<1>7. ASSUME NEW q \in BackupRequest, ClaimStart(q) PROVE \A r \in BackupRequest : UnzippedAt(r)'
  <2>1. (\A r \in BackupRequest \ {q} : breq'[r] = breq[r]) /\ breq'[q].pc # "unzip" /\ data' = data
    BY <1>7, ClaimStartSays DEF ReqBecomes, ReqMoves, backupDisk
  <2> QED
    BY <2>1, QuietData
<1>8. ASSUME NEW q \in BackupRequest, Launch(q) PROVE \A r \in BackupRequest : UnzippedAt(r)'
  <2>1. (\A r \in BackupRequest \ {q} : breq'[r] = breq[r]) /\ breq'[q].pc # "unzip" /\ data' = data
    BY <1>8, LaunchSays DEF ReqBecomes, ReqMoves, backupDisk
  <2> QED
    BY <2>1, QuietData
<1>9. ASSUME NEW q \in BackupRequest, Publish(q) PROVE \A r \in BackupRequest : UnzippedAt(r)'
  <2>1. (\A r \in BackupRequest \ {q} : breq'[r] = breq[r]) /\ breq'[q].pc # "unzip" /\ data' = data
    BY <1>9, PublishSays DEF ReqBecomes, ReqMoves, backupDisk
  <2> QED
    BY <2>1, QuietData
<1>10. ASSUME NEW q \in BackupRequest, ReleaseBusy(q) PROVE \A r \in BackupRequest : UnzippedAt(r)'
  <2>1. (\A r \in BackupRequest \ {q} : breq'[r] = breq[r]) /\ breq'[q].pc # "unzip" /\ data' = data
    BY <1>10, ReleaseSays DEF ReqBecomes, ReqMoves, backupDisk
  <2> QED
    BY <2>1, QuietData
<1>11. ASSUME NEW q \in BackupRequest, ClaimStop(q) PROVE \A r \in BackupRequest : UnzippedAt(r)'
  <2>1. (\A r \in BackupRequest \ {q} : breq'[r] = breq[r]) /\ breq'[q].pc # "unzip" /\ data' = data
    BY <1>11, ClaimStopSays DEF ReqBecomes, ReqMoves, backupDisk
  <2> QED
    BY <2>1, QuietData
<1>12. ASSUME NEW q \in BackupRequest, StopProcess(q) PROVE \A r \in BackupRequest : UnzippedAt(r)'
  <2>1. (\A r \in BackupRequest \ {q} : breq'[r] = breq[r]) /\ breq'[q].pc # "unzip" /\ data' = data
    BY <1>12, StopProcessSays DEF ReqBecomes, ReqMoves, backupDisk
  <2> QED
    BY <2>1, QuietData
<1>13. ASSUME NEW q \in BackupRequest, ReadProc(q) PROVE \A r \in BackupRequest : UnzippedAt(r)'
  <2>1. (\A r \in BackupRequest \ {q} : breq'[r] = breq[r]) /\ breq'[q].pc # "unzip" /\ data' = data
    BY <1>13, ReadProcSays DEF ReqBecomes, ReqMoves, backupDisk
  <2> QED
    BY <2>1, QuietData
<1>14. ASSUME NEW q \in BackupRequest, KillRemoved(q) PROVE \A r \in BackupRequest : UnzippedAt(r)'
  <2>1. (\A r \in BackupRequest \ {q} : breq'[r] = breq[r]) /\ breq'[q].pc # "unzip" /\ data' = data
    BY <1>14, KillRemovedSays DEF ReqBecomes, ReqMoves, backupDisk
  <2> QED
    BY <2>1, QuietData
<1>15. ASSUME NEW q \in BackupRequest, Unlist(q) PROVE \A r \in BackupRequest : UnzippedAt(r)'
  <2>1. (\A r \in BackupRequest \ {q} : breq'[r] = breq[r]) /\ breq'[q].pc # "unzip" /\ data' = data
    BY <1>15, UnlistSays DEF ReqBecomes, ReqMoves, backupDisk
  <2> QED
    BY <2>1, QuietData
<1>16. ASSUME NEW q \in BackupRequest, DeleteData(q) PROVE \A r \in BackupRequest : UnzippedAt(r)'
  <2>1. /\ \A r \in BackupRequest \ {q} : breq'[r] = breq[r]
        /\ breq'[q].pc = "done" /\ slipped' = slipped \cup {w \in {"restore"} : Doing(w, {"unzip"})}
    BY <1>16, DeleteDataSays DEF ReqBecomes, ReqMoves
  <2>2. \A r \in BackupRequest : breq[r].pc # "unzip"
    BY <2>1, ReqSays DEF Doing, ShapeInv, ShapeOf, BackupKind
  <2> QED
    BY <2>1, <2>2 DEF UnzippedAt
<1>17. ASSUME NEW q \in BackupRequest, OpenBackup(q) PROVE \A r \in BackupRequest : UnzippedAt(r)'
  <2>1. (\A r \in BackupRequest \ {q} : breq'[r] = breq[r]) /\ breq'[q].pc # "unzip" /\ data' = data
    BY <1>17, OpenBackupSays DEF ReqBecomes, ReqMoves, backupDisk
  <2> QED
    BY <2>1, QuietData
<1>18. ASSUME NEW q \in BackupRequest, CloseBackup(q) PROVE \A r \in BackupRequest : UnzippedAt(r)'
  <2>1. (\A r \in BackupRequest \ {q} : breq'[r] = breq[r]) /\ breq'[q].pc # "unzip" /\ data' = data
    BY <1>18, CloseBackupSays DEF ReqBecomes, ReqMoves, backupDisk
  <2> QED
    BY <2>1, QuietData
<1>19. ASSUME NEW q \in BackupRequest, ClaimRestore(q) PROVE \A r \in BackupRequest : UnzippedAt(r)'
  <2>1. (\A r \in BackupRequest \ {q} : breq'[r] = breq[r]) /\ breq'[q].pc # "unzip" /\ data' = data
    BY <1>19, ClaimRestoreSays DEF ReqBecomes, ReqMoves, backupDisk
  <2> QED
    BY <2>1, QuietData
<1>20. ASSUME NEW q \in BackupRequest, EndRestore(q) PROVE \A r \in BackupRequest : UnzippedAt(r)'
  <2>1. (\A r \in BackupRequest \ {q} : breq'[r] = breq[r]) /\ breq'[q].pc # "unzip" /\ data' = data
    BY <1>20, EndRestoreSays DEF ReqBecomes, ReqMoves, backupDisk
  <2> QED
    BY <2>1, QuietData
<1>21. ASSUME NEW q \in BackupRequest, NEW s \in Second, OpenRestore(q, s) PROVE \A r \in BackupRequest : UnzippedAt(r)'
  <2>1. (\A r \in BackupRequest \ {q} : breq'[r] = breq[r]) /\ breq'[q].unzipped = breq[q].unzipped /\ breq[q].pc = "open"
    BY <1>21, OpenRestoreSays DEF ReqBecomes, ReqMoves
  <2>2. data' = data
    BY <1>21, OpenRestoreSays DEF backupDisk
  <2>3. breq[q].unzipped = {}
    BY <2>1 DEF ShapeInv, ShapeOf
  <2> QED
    BY <2>1, <2>2, <2>3 DEF UnzippedAt
<1>22. ASSUME NEW q \in BackupRequest, NEW f \in DataFile, CopyData(q, f) PROVE \A r \in BackupRequest : UnzippedAt(r)'
  <2>1. (\A r \in BackupRequest \ {q} : breq'[r] = breq[r]) /\ breq'[q].pc # "unzip" /\ data' = data
    BY <1>22, CopyDataSays DEF ReqBecomes, ReqMoves, backupDisk
  <2> QED
    BY <2>1, QuietData
<1>23. ASSUME NEW q \in BackupRequest, NEW f \in DataFile, Unzip(q, f) PROVE \A r \in BackupRequest : UnzippedAt(r)'
  <2>1. CASE ReqMoves(q, "again") /\ UNCHANGED data
    <3>1. (\A r \in BackupRequest \ {q} : breq'[r] = breq[r]) /\ breq'[q].pc # "unzip" /\ data' = data
      BY <2>1 DEF ReqBecomes, ReqMoves
    <3> QED
      BY <3>1, QuietData
  <2>2. CASE ~(ReqMoves(q, "again") /\ UNCHANGED data)
    <3>1. /\ data' = [data EXCEPT ![f] = breq[q].kept[f]] /\ breq[q].pc = "unzip" /\ breq[q].op = "restore"
          /\ ReqBecomes(q, "restore", "unzip", breq[q].proc, breq[q].zip, breq[q].todo \ {f}, breq[q].kept, breq[q].unzipped \cup {f})
      BY <1>23, <2>2, UnzipSays
    <3>2. (\A r \in BackupRequest \ {q} : breq'[r] = breq[r]) /\ breq'[q].kept = breq[q].kept /\ breq'[q].unzipped = breq[q].unzipped \cup {f}
      BY <3>1 DEF ReqBecomes
    <3>3. \A r \in BackupRequest \ {q} : breq'[r].pc # "unzip"
      <4>1. HasClaim(q)
        BY <3>1 DEF HasClaim
      <4>2. \A r \in BackupRequest \ {q} : ~HasClaim(r)
        BY <4>1 DEF OneClaim
      <4> QED
        BY <3>2, <4>2 DEF HasClaim, ShapeInv, ShapeOf
    <3>4. data \in DataContents /\ breq[q].unzipped \subseteq DataFile
      BY ReqSays DEF ZipsTyped
    <3>5. \A g \in breq[q].unzipped : data[g] = breq[q].kept[g]
      BY <3>1 DEF UnzippedAt
    <3>6. UnzippedAt(q)'
      BY <3>1, <3>2, <3>4, <3>5 DEF UnzippedAt, DataContents
    <3> QED
      BY <3>3, <3>6 DEF UnzippedAt
  <2> QED
    BY <2>1, <2>2
<1> QED
  BY <1>1, <1>2, <1>3, <1>4, <1>5, <1>6, <1>7, <1>8, <1>9, <1>10, <1>11, <1>12, <1>13, <1>14,
     <1>15, <1>16, <1>17, <1>18, <1>19, <1>20, <1>21, <1>22, <1>23, Zenon
  DEF BackupsNext, BackupKind

\* A step that starts nothing leaves the removals alone.
LEMMA QuietRemovals ==
    ASSUME Removed, NEW q \in BackupRequest, \A r \in BackupRequest \ {q} : breq'[r] = breq[r],
           breq'[q].op = "remove" => breq'[q].pc \in {"begun", "done", "failed"}, running' \subseteq running, listed' = listed
    PROVE  Removed'
<1>1. \A r \in BackupRequest \ {q} : RemovedAt(r)'
  BY DEF Removed, RemovedAt
<1>2. RemovedAt(q)'
  BY DEF RemovedAt
<1> QED
  BY <1>1, <1>2 DEF Removed

\* A start between the reading of Proc and the removal from the list is a window;
\* outside it the removal has killed what there was.
LEMMA RemovedKept ==
    ASSUME ReqTyped, ProcsTyped, ZipsTyped, ShapeInv, KnownProcs, Removed, slipped' = {}, BackupsNext
    PROVE  Removed'
<1>1. CASE NextSecond
  <2>1. breq' = breq /\ running' \subseteq running /\ listed' = listed
    BY <1>1 DEF NextSecond, instance
  <2> QED
    BY <2>1 DEF Removed, RemovedAt
<1>2. CASE WatchExit
  <2>1. breq' = breq /\ running' \subseteq running /\ listed' = listed
    BY <1>2 DEF WatchExit, instance
  <2> QED
    BY <2>1 DEF Removed, RemovedAt
<1>3. ASSUME NEW f \in DataFile, WriteData(f) PROVE Removed'
  <2>1. breq' = breq /\ running' \subseteq running /\ listed' = listed
    BY <1>3 DEF WriteData, instance
  <2> QED
    BY <2>1 DEF Removed, RemovedAt
<1>4. ASSUME NEW p \in running, ProcessExits(p) PROVE Removed'
  <2>1. breq' = breq /\ running' \subseteq running /\ listed' = listed
    BY <1>4 DEF ProcessExits, instance
  <2> QED
    BY <2>1 DEF Removed, RemovedAt
<1>5. ASSUME NEW s \in Second, DeleteBackup(s) PROVE Removed'
  <2>1. breq' = breq /\ running' \subseteq running /\ listed' = listed
    BY <1>5 DEF DeleteBackup, instance
  <2> QED
    BY <2>1 DEF Removed, RemovedAt
<1>6. ASSUME NEW q \in BackupRequest, NEW op \in BackupKind, BeginBackupOp(q, op) PROVE Removed'
  <2>1. /\ \A r \in BackupRequest \ {q} : breq'[r] = breq[r]
        /\ breq'[q].op = "remove" => breq'[q].pc \in {"begun", "done", "failed"}
        /\ running' \subseteq running /\ listed' = listed
    BY <1>6, ReqBeginning DEF ReqBecomes, ReqMoves, instance, BeginBackupOp
  <2> QED
    BY <2>1, QuietRemovals
<1>7. ASSUME NEW q \in BackupRequest, ClaimStart(q) PROVE Removed'
  <2>1. /\ \A r \in BackupRequest \ {q} : breq'[r] = breq[r]
        /\ breq'[q].op = "remove" => breq'[q].pc \in {"begun", "done", "failed"}
        /\ running' \subseteq running /\ listed' = listed
    BY <1>7, ClaimStartSays DEF ReqBecomes, ReqMoves, instance
  <2> QED
    BY <2>1, QuietRemovals
<1>8. ASSUME NEW q \in BackupRequest, Launch(q) PROVE Removed'
  <2>1. CASE ReqMoves(q, "again") /\ stopped' = TRUE /\ UNCHANGED <<lastProc, running>>
    <3>1. breq[q].op = "start" /\ listed' = listed
      BY <1>8, LaunchSays
    <3>2. (\A r \in BackupRequest \ {q} : breq'[r] = breq[r]) /\ breq'[q].op = "start"
      BY <2>1, <3>1 DEF ReqBecomes, ReqMoves
    <3> QED
      BY <2>1, <3>1, <3>2, QuietRemovals
  <2>2. CASE ~(ReqMoves(q, "again") /\ stopped' = TRUE /\ UNCHANGED <<lastProc, running>>)
    <3>1. /\ ReqBecomes(q, "start", "publish", lastProc + 1, breq[q].zip, breq[q].todo, breq[q].kept, breq[q].unzipped)
          /\ slipped' = slipped \cup {w \in {"remove"} : ~listed \/ Doing(w, {"kill", "unlist"})} /\ listed' = listed
      BY <1>8, <2>2, LaunchSays
    <3>2. listed /\ ~Doing("remove", {"kill", "unlist"})
      BY <3>1
    <3>3. \A r \in BackupRequest : breq[r].op = "remove" => breq[r].pc \notin {"kill", "unlist", "delete"}
      BY <3>2 DEF Doing, Removed, RemovedAt
    <3>4. (\A r \in BackupRequest \ {q} : breq'[r] = breq[r]) /\ breq'[q].op = "start"
      BY <3>1 DEF ReqBecomes
    <3> QED
      BY <3>1, <3>2, <3>3, <3>4 DEF Removed, RemovedAt
  <2> QED
    BY <2>1, <2>2
<1>9. ASSUME NEW q \in BackupRequest, Publish(q) PROVE Removed'
  <2>1. /\ \A r \in BackupRequest \ {q} : breq'[r] = breq[r]
        /\ breq'[q].op = "remove" => breq'[q].pc \in {"begun", "done", "failed"}
        /\ running' \subseteq running /\ listed' = listed
    BY <1>9, PublishSays DEF ReqBecomes, ReqMoves, instance
  <2> QED
    BY <2>1, QuietRemovals
<1>10. ASSUME NEW q \in BackupRequest, ReleaseBusy(q) PROVE Removed'
  <2>1. /\ \A r \in BackupRequest \ {q} : breq'[r] = breq[r]
        /\ breq'[q].op = "remove" => breq'[q].pc \in {"begun", "done", "failed"}
        /\ running' \subseteq running /\ listed' = listed
    BY <1>10, ReleaseSays DEF ReqBecomes, ReqMoves, instance
  <2> QED
    BY <2>1, QuietRemovals
<1>11. ASSUME NEW q \in BackupRequest, ClaimStop(q) PROVE Removed'
  <2>1. /\ \A r \in BackupRequest \ {q} : breq'[r] = breq[r]
        /\ breq'[q].op = "remove" => breq'[q].pc \in {"begun", "done", "failed"}
        /\ running' \subseteq running /\ listed' = listed
    BY <1>11, ClaimStopSays DEF ReqBecomes, ReqMoves, instance
  <2> QED
    BY <2>1, QuietRemovals
<1>12. ASSUME NEW q \in BackupRequest, StopProcess(q) PROVE Removed'
  <2>1. /\ \A r \in BackupRequest \ {q} : breq'[r] = breq[r]
        /\ breq'[q].op = "remove" => breq'[q].pc \in {"begun", "done", "failed"}
        /\ running' \subseteq running /\ listed' = listed
    BY <1>12, StopProcessSays DEF ReqBecomes, ReqMoves, instance
  <2> QED
    BY <2>1, QuietRemovals
<1>13. ASSUME NEW q \in BackupRequest, ReadProc(q) PROVE Removed'
  <2>1. /\ ReqBecomes(q, "remove", IF HasProcess(q) THEN "kill" ELSE "unlist", proc, breq[q].zip, breq[q].todo, breq[q].kept, breq[q].unzipped)
        /\ slipped' = slipped \cup {w \in {"remove"} : \E o \in BackupRequest :
                                        breq[o].pc \in {"launch", "publish", "kill"} /\ breq[o].op # "remove"}
    BY <1>13, ReadProcSays
  <2>2. running' = running /\ listed' = listed
    BY <1>13, ReadProcSays DEF instance
  <2>3. (\A r \in BackupRequest \ {q} : breq'[r] = breq[r]) /\ breq'[q].proc = proc
        /\ breq'[q].pc = IF HasProcess(q) THEN "kill" ELSE "unlist"
    BY <2>1 DEF ReqBecomes
  <2>4. running \subseteq {proc}
    <3>1. \A o \in BackupRequest : ~Carries(o)
      BY <2>1 DEF Carries
    <3> QED
      BY <3>1 DEF KnownProcs
  <2>5. CASE HasProcess(q)
    BY <2>2, <2>3, <2>4, <2>5 DEF Removed, RemovedAt
  <2>6. CASE ~HasProcess(q)
    <3>1. running = {}
      <4>1. 0 \notin running
        BY DEF ProcsTyped
      <4> QED
        BY <2>4, <2>6, <4>1 DEF HasProcess, KnownProcs
    <3> QED
      BY <2>2, <2>3, <2>6, <3>1 DEF Removed, RemovedAt
  <2> QED
    BY <2>5, <2>6
<1>14. ASSUME NEW q \in BackupRequest, KillRemoved(q) PROVE Removed'
  <2>1. CASE ReqMoves(q, "failed") /\ running' = running
    <3>1. listed' = listed /\ (\A r \in BackupRequest \ {q} : breq'[r] = breq[r]) /\ breq'[q].pc = "failed"
      BY <1>14, <2>1, KillRemovedSays DEF ReqBecomes, ReqMoves
    <3> QED
      BY <2>1, <3>1, QuietRemovals
  <2>2. CASE ~(ReqMoves(q, "failed") /\ running' = running)
    <3>1. breq[q].op = "remove" /\ breq[q].pc = "kill" /\ ReqMoves(q, "unlist") /\ running' = running \ {breq[q].proc} /\ listed' = listed
      BY <1>14, <2>2, KillRemovedSays
    <3>2. running' = {}
      BY <3>1 DEF Removed, RemovedAt
    <3>3. (\A r \in BackupRequest \ {q} : breq'[r] = breq[r]) /\ breq'[q].pc = "unlist"
      BY <3>1 DEF ReqBecomes, ReqMoves
    <3> QED
      BY <3>1, <3>2, <3>3 DEF Removed, RemovedAt
  <2> QED
    BY <2>1, <2>2
<1>15. ASSUME NEW q \in BackupRequest, Unlist(q) PROVE Removed'
  <2>1. /\ \A r \in BackupRequest \ {q} : breq'[r] = breq[r]
        /\ breq[q].op = "remove" /\ breq[q].pc = "unlist" /\ breq'[q].pc = "delete" /\ listed' = FALSE /\ running' = running
    BY <1>15, UnlistSays DEF ReqBecomes, ReqMoves
  <2>2. running = {}
    BY <2>1 DEF Removed, RemovedAt
  <2> QED
    BY <2>1, <2>2 DEF Removed, RemovedAt
<1>16. ASSUME NEW q \in BackupRequest, DeleteData(q) PROVE Removed'
  <2>1. /\ \A r \in BackupRequest \ {q} : breq'[r] = breq[r]
        /\ breq'[q].op = "remove" => breq'[q].pc \in {"begun", "done", "failed"}
        /\ running' \subseteq running /\ listed' = listed
    BY <1>16, DeleteDataSays DEF ReqBecomes, ReqMoves, instance
  <2> QED
    BY <2>1, QuietRemovals
<1>17. ASSUME NEW q \in BackupRequest, OpenBackup(q) PROVE Removed'
  <2>1. /\ \A r \in BackupRequest \ {q} : breq'[r] = breq[r]
        /\ breq'[q].op = "remove" => breq'[q].pc \in {"begun", "done", "failed"}
        /\ running' \subseteq running /\ listed' = listed
    BY <1>17, OpenBackupSays DEF ReqBecomes, ReqMoves, instance
  <2> QED
    BY <2>1, QuietRemovals
<1>18. ASSUME NEW q \in BackupRequest, CloseBackup(q) PROVE Removed'
  <2>1. /\ \A r \in BackupRequest \ {q} : breq'[r] = breq[r]
        /\ breq'[q].op = "remove" => breq'[q].pc \in {"begun", "done", "failed"}
        /\ running' \subseteq running /\ listed' = listed
    BY <1>18, CloseBackupSays DEF ReqBecomes, ReqMoves, instance
  <2> QED
    BY <2>1, QuietRemovals
<1>19. ASSUME NEW q \in BackupRequest, ClaimRestore(q) PROVE Removed'
  <2>1. /\ \A r \in BackupRequest \ {q} : breq'[r] = breq[r]
        /\ breq'[q].op = "remove" => breq'[q].pc \in {"begun", "done", "failed"}
        /\ running' \subseteq running /\ listed' = listed
    BY <1>19, ClaimRestoreSays DEF ReqBecomes, ReqMoves, instance
  <2> QED
    BY <2>1, QuietRemovals
<1>20. ASSUME NEW q \in BackupRequest, EndRestore(q) PROVE Removed'
  <2>1. /\ \A r \in BackupRequest \ {q} : breq'[r] = breq[r]
        /\ breq'[q].op = "remove" => breq'[q].pc \in {"begun", "done", "failed"}
        /\ running' \subseteq running /\ listed' = listed
    BY <1>20, EndRestoreSays DEF ReqBecomes, ReqMoves, instance
  <2> QED
    BY <2>1, QuietRemovals
<1>21. ASSUME NEW q \in BackupRequest, NEW s \in Second, OpenRestore(q, s) PROVE Removed'
  <2>1. /\ \A r \in BackupRequest \ {q} : breq'[r] = breq[r]
        /\ breq'[q].op = "remove" => breq'[q].pc \in {"begun", "done", "failed"}
        /\ running' \subseteq running /\ listed' = listed
    BY <1>21, OpenRestoreSays DEF ReqBecomes, ReqMoves, instance
  <2> QED
    BY <2>1, QuietRemovals
<1>22. ASSUME NEW q \in BackupRequest, NEW f \in DataFile, CopyData(q, f) PROVE Removed'
  <2>1. /\ \A r \in BackupRequest \ {q} : breq'[r] = breq[r]
        /\ breq'[q].op = "remove" => breq'[q].pc \in {"begun", "done", "failed"}
        /\ running' \subseteq running /\ listed' = listed
    BY <1>22, CopyDataSays DEF ReqBecomes, ReqMoves, instance
  <2> QED
    BY <2>1, QuietRemovals
<1>23. ASSUME NEW q \in BackupRequest, NEW f \in DataFile, Unzip(q, f) PROVE Removed'
  <2>1. /\ \A r \in BackupRequest \ {q} : breq'[r] = breq[r]
        /\ breq'[q].op = "remove" => breq'[q].pc \in {"begun", "done", "failed"}
        /\ running' \subseteq running /\ listed' = listed
    BY <1>23, UnzipSays DEF ReqBecomes, ReqMoves, instance
  <2> QED
    BY <2>1, QuietRemovals
<1> QED
  BY <1>1, <1>2, <1>3, <1>4, <1>5, <1>6, <1>7, <1>8, <1>9, <1>10, <1>11, <1>12, <1>13, <1>14,
     <1>15, <1>16, <1>17, <1>18, <1>19, <1>20, <1>21, <1>22, <1>23, Zenon
  DEF BackupsNext, BackupKind

-----------------------------------------------------------------------------
(* The backups: the invariant holds, and the properties.                    *)

\* The invariant of the backups: what is said of the claims, the files and the removal
\* holds outside the windows.
BackupsInv ==
    /\ ReqTyped /\ ProcsTyped /\ ZipsTyped /\ ShapeInv /\ ZipInv
    /\ \A q \in BackupRequest : ProcOf(q)
    /\ ClaimInv /\ UnzipInv /\ RemoveInv

\* An instance that is stopped and has no backups.
LEMMA BackupsInitHolds == BackupsInit => BackupsInv
<1> SUFFICES ASSUME BackupsInit PROVE BackupsInv
  OBVIOUS
<1>1. NoZip.copy \in DataContents /\ [f \in DataFile |-> 0] \in DataContents /\ 0 \in 0..MaxEdits
  BY BackupAssumption DEF NoZip, DataContents
<1>2. NoZip \in BackupZip
  BY <1>1 DEF NoZip, BackupZip
<1>3. BackupFree \in BackupReq /\ BackupFree.op = "start" /\ BackupFree.pc = "idle" /\ BackupFree.proc = 0
  BY <1>1 DEF BackupFree, BackupReq, BackupKind, BackupLabel
<1>4. \A q \in BackupRequest : breq[q] = BackupFree
  BY DEF BackupsInit
<1>5. ReqTyped
  BY <1>3 DEF BackupsInit, ReqTyped
<1>6. ProcsTyped /\ (\A q \in BackupRequest : ProcOf(q)) /\ running = {} /\ listed
  BY <1>3, <1>4 DEF BackupsInit, ProcsTyped, ProcOf
<1>7. ZipsTyped /\ finished = {}
  BY <1>1, <1>2 DEF BackupsInit, ZipsTyped
<1>8. ShapeInv
  BY <1>3, <1>4 DEF ShapeInv, ShapeOf
<1>9. ZipInv
  BY <1>3, <1>4, <1>7 DEF ZipInv, CopyOf, WholeAt
<1>10. OneClaim /\ KnownProcs
  BY <1>3, <1>4, <1>6 DEF OneClaim, KnownProcs, HasClaim, Halted, Carries
<1>11. (\A q \in BackupRequest : UnzippedAt(q)) /\ Removed
  BY <1>3, <1>4, <1>6 DEF UnzippedAt, Removed, RemovedAt
<1> QED
  BY <1>5, <1>6, <1>7, <1>8, <1>9, <1>10, <1>11 DEF BackupsInv, ClaimInv, UnzipInv, RemoveInv

\* Every step of a request, of the server and of the clock.
LEMMA BackupsStep == BackupsInv /\ [BackupsNext]_backupVars => BackupsInv'
<1> SUFFICES ASSUME BackupsInv, [BackupsNext]_backupVars PROVE BackupsInv'
  OBVIOUS
<1>1. CASE BackupsNext
  <2>1. ReqTyped /\ ProcsTyped /\ ZipsTyped /\ ShapeInv /\ ZipInv /\ \A q \in BackupRequest : ProcOf(q)
    BY DEF BackupsInv
  <2>2. ReqTyped' /\ ShapeInv' /\ ZipsTyped' /\ ZipInv'
    BY <1>1, <2>1, ReqTypesKept, ShapeKept, ZipsKept
  <2>3. ProcsTyped' /\ \A q \in BackupRequest : ProcOf(q)'
    BY <1>1, <2>1, ProcTypesKept
  <2>4. slipped \subseteq slipped'
    BY <1>1, <2>1, SlippedGrows
  <2>5. ASSUME "restore" \notin slipped'
        PROVE  OneClaim /\ KnownProcs /\ OneClaim' /\ KnownProcs' /\ \A q \in BackupRequest : UnzippedAt(q)'
    <3>1. OneClaim /\ KnownProcs /\ \A q \in BackupRequest : UnzippedAt(q)
      BY <2>4, <2>5 DEF BackupsInv, ClaimInv, UnzipInv
    <3> QED
      BY <1>1, <2>1, <2>5, <3>1, ClaimKept, UnzippedKept
  <2>6. ASSUME slipped' = {} PROVE Removed'
    <3>1. Removed /\ KnownProcs
      BY <2>4, <2>5, <2>6 DEF BackupsInv, RemoveInv
    <3> QED
      BY <1>1, <2>1, <2>6, <3>1, RemovedKept
  <2> QED
    BY <2>2, <2>3, <2>5, <2>6 DEF BackupsInv, ClaimInv, UnzipInv, RemoveInv
<1>2. CASE UNCHANGED backupVars
  <2>1. UNCHANGED <<listed, busy, stopped, running, proc, lastProc, data, zips, edits, second, breq, finished, doubled, slipped>>
    BY <1>2 DEF backupVars, instance, backupDisk, backupHistory
  <2>2. ReqTyped' /\ ProcsTyped' /\ ZipsTyped' /\ ShapeInv' /\ ZipInv' /\ \A q \in BackupRequest : ProcOf(q)'
    BY <2>1
    DEF BackupsInv, ReqTyped, ProcsTyped, ZipsTyped, ShapeInv, ShapeOf, ZipInv, CopyOf,
        WholeAt, ProcOf
  <2>3. ClaimInv' /\ UnzipInv' /\ RemoveInv'
    BY <2>1
    DEF BackupsInv, ClaimInv, OneClaim, KnownProcs, HasClaim, Carries, Halted, UnzipInv,
        UnzippedAt, RemoveInv, Removed, RemovedAt
  <2> QED
    BY <2>2, <2>3 DEF BackupsInv
<1> QED
  BY <1>1, <1>2

\* The invariant gives the three promises of the module.
LEMMA BackupsInvHolds == BackupsInv => BackupsHold
<1> SUFFICES ASSUME BackupsInv PROVE BackupsHold
  OBVIOUS
<1>1. RestoreIsAlone
  <2> SUFFICES ASSUME "restore" \notin slipped, NEW q \in BackupRequest, BackupAt(q, "restore", "unzip")
               PROVE  running = {} /\ \A f \in breq[q].unzipped : data[f] = breq[q].kept[f]
    BY DEF RestoreIsAlone
  <2>1. KnownProcs /\ UnzippedAt(q) /\ breq[q].pc = "unzip"
    BY DEF BackupsInv, ClaimInv, UnzipInv, BackupAt
  <2> QED
    BY <2>1 DEF KnownProcs, Halted, UnzippedAt
<1>2. DoneIsWhole
  <2>1. finished \subseteq Second /\ \A s \in Second : WholeAt(s)
    BY DEF BackupsInv, ZipsTyped, ZipInv
  <2> QED
    BY <2>1 DEF WholeAt, DoneIsWhole
<1>3. RemovedIsDead
  BY DEF BackupsInv, RemoveInv, Removed, RemovedIsDead
<1> QED
  BY <1>1, <1>2, <1>3 DEF BackupsHold

\* BackupsHold: outside the windows no process runs while a restore unzips, what a
\* restore has unzipped stays, a backup that is done is whole, and what was removed is
\* dead; for any number of requests, seconds and writes.
THEOREM BackupsSafe == BackupsSpec => []BackupsHold
<1> QED
  BY BackupsInitHolds, BackupsStep, BackupsInvHolds, PTL DEF BackupsSpec

-----------------------------------------------------------------------------
(* The transfers: their inductive invariant.                                *)

\* The types: of the tickets,
TicketsTyped ==
    /\ issued \subseteq Ticket /\ IsFiniteSet(issued) /\ ticketNow \in 0..MaxTicketTime
    /\ ticket \in [Ticket -> [kind : {"none", "download", "upload"}, until : 0..(MaxTicketTime + TicketLife)]]
    /\ admitted \in [Ticket -> {"none", "download", "upload"}]

\* of the files,
PlainTyped ==
    /\ {plain, sealed} \subseteq [PlainName -> PlainFile] /\ isOpen \in BOOLEAN
    /\ {uploaded, met} \subseteq SUBSET PlainName

\* A transfer with all it holds,
Uploading == [pc : {"idle", "form", "copy", "close"}, by : Ticket \cup {"none"},
              name : PlainName \cup {"none"}, nr : 0..MaxUploads, lost : BOOLEAN]

\* of the transfers,
UploadsTyped == upload \in [Transfer -> Uploading] /\ uploads \in 0..MaxUploads

\* and of the history.
LeaksTyped == {outlived, leaked} \subseteq SUBSET Ticket

\* An upload under way has a name, a number and a ticket.
Named ==
    \A x \in Transfer : upload[x].pc # "idle" =>
        upload[x].name \in PlainName /\ upload[x].nr \in 1..MaxUploads /\ upload[x].by \in Ticket

\* All of them.
TransfersTyped == TicketsTyped /\ PlainTyped /\ UploadsTyped /\ LeaksTyped /\ Named

\* TicketsStayGood: a ticket that is good is in the table.
LifeInv == \A k \in Ticket : ticket[k] # NotIssued /\ ~IsPast(k) => k \in issued

\* While the files are sealed, the only good tickets, and the only requests that still
\* give one, are those of before; and only with them an upload gets that far.
SealedInv ==
    ~isOpen =>
        /\ \A k \in Ticket : ticket[k] # NotIssued /\ ~IsPast(k) => k \in outlived
        /\ \A k \in Ticket : admitted[k] # "none" => k \in outlived
        /\ \A x \in Transfer : upload[x].pc = "form" => upload[x].by \in outlived

\* What an upload has left of its file so far.
Partial(x) == [by |-> IF upload[x].pc = "copy" THEN {0} ELSE {0, upload[x].nr}, whole |-> FALSE]

\* As long as nobody else has met it, an upload has its name for itself, and the file is
\* what it has copied.
CopyInv ==
    \A x \in Transfer : upload[x].pc # "idle" /\ upload[x].name \notin met =>
        /\ ~upload[x].lost
        /\ \A y \in Transfer : upload[y].pc # "idle" /\ upload[y].name = upload[x].name => y = x
        /\ upload[x].pc # "form" => upload[x].name \notin uploaded /\ plain[upload[x].name] = Partial(x)

\* The invariant of the transfers.
TransfersInv == TransfersTyped /\ LifeInv /\ Cardinality(issued) <= MaxTickets /\ SealedInv /\ LeaksAreOldTickets
                /\ CopyInv /\ UploadedStays

\* A transfer goes on to p and keeps the rest.
MovesTo(x, p) ==
    /\ upload'[x].pc = p /\ upload'[x].by = upload[x].by /\ upload'[x].name = upload[x].name
    /\ upload'[x].nr = upload[x].nr /\ upload'[x].lost = upload[x].lost

-----------------------------------------------------------------------------
(* The transfers: the types, action by action.                              *)

\* The fields of a transfer
LEMMA UploadSays ==
    ASSUME UploadsTyped, NEW x \in Transfer
    PROVE  /\ upload[x].pc \in {"idle", "form", "copy", "close"} /\ upload[x].by \in Ticket \cup {"none"}
           /\ upload[x].name \in PlainName \cup {"none"} /\ upload[x].nr \in 0..MaxUploads /\ upload[x].lost \in BOOLEAN
           /\ upload[x] = [pc |-> upload[x].pc, by |-> upload[x].by, name |-> upload[x].name, nr |-> upload[x].nr, lost |-> upload[x].lost]
BY DEF UploadsTyped, Uploading

\* and of a ticket.
LEMMA TicketSays ==
    ASSUME TicketsTyped, NEW k \in Ticket
    PROVE  ticket[k].kind \in {"none", "download", "upload"} /\ ticket[k].until \in 0..(MaxTicketTime + TicketLife) /\ ticketNow \in Nat
BY TicketAssumption DEF TicketsTyped

\* vaultFilesMode: a request that is let through changes nothing yet.
LEMMA TicketAdmitted ==
    ASSUME TicketsTyped, NEW k \in Ticket, NEW kind \in {"download", "upload"}, AdmitTicket(k, kind)
    PROVE  TicketsTyped' /\ isOpen /\ UNCHANGED <<issued, ticket, ticketNow, plainVars, upload, uploads, transferHistory>>
BY DEF AdmitTicket, MayIssue, TicketsTyped

\* create: the table is no fuller than maxTickets, and nothing good was thrown away,
\* whether there is a new ticket or not.
LEMMA TicketIssued ==
    ASSUME TicketsTyped, Cardinality(issued) <= MaxTickets, NEW k \in Ticket, IssueTicket(k)
    PROVE  /\ TicketsTyped'
           /\ ticketNow' = ticketNow /\ admitted[k] # "none"
           /\ \A l \in Ticket \ {k} : ticket'[l] = ticket[l] /\ admitted'[l] = admitted[l]
           /\ admitted'[k] = "none" /\ (ticket'[k] = ticket[k] \/ k \in issued')
           /\ \A l \in issued : ~IsPast(l) => l \in issued'
           /\ Cardinality(issued') <= MaxTickets
           /\ UNCHANGED <<plainVars, upload, uploads, transferHistory>>
<1> DEFINE room == IF Cardinality(issued) >= MaxTickets THEN issued \ Reclaimed ELSE issued
           new == [kind |-> admitted[k], until |-> ticketNow + TicketLife]
<1>1. /\ admitted[k] # "none" /\ admitted' = [admitted EXCEPT ![k] = "none"] /\ ticketNow' = ticketNow
      /\ room \subseteq issued /\ UNCHANGED <<plainVars, upload, uploads, transferHistory>>
      /\ \/ Cardinality(room) < MaxTickets /\ issued' = room \cup {k} /\ ticket' = [ticket EXCEPT ![k] = new]
         \/ issued' = room /\ ticket' = ticket
         \/ issued' = issued /\ ticket' = ticket
  BY DEF IssueTicket
<1>2. \A l \in issued : ~IsPast(l) => l \in room
  BY DEF Reclaimed
<1>3. /\ ticketNow + TicketLife \in 0..(MaxTicketTime + TicketLife)
      /\ admitted[k] \in {"none", "download", "upload"}
  BY TicketAssumption DEF TicketsTyped
<1>4. new \in [kind : {"none", "download", "upload"}, until : 0..(MaxTicketTime + TicketLife)]
  BY <1>3
<1> HIDE DEF room, new
<1>5. /\ admitted' \in [Ticket -> {"none", "download", "upload"}] /\ admitted'[k] = "none"
      /\ \A l \in Ticket \ {k} : admitted'[l] = admitted[l]
  BY <1>1 DEF TicketsTyped
<1>6. IsFiniteSet(room) /\ Cardinality(room) <= Cardinality(issued)
  BY <1>1, FS_Subset DEF TicketsTyped
<1>7. Cardinality(room) \in Nat /\ Cardinality(issued) \in Nat
  BY <1>6, FS_CardinalityType DEF TicketsTyped
<1>8. CASE Cardinality(room) < MaxTickets /\ issued' = room \cup {k} /\ ticket' = [ticket EXCEPT ![k] = new]
  <2>1. IsFiniteSet(issued') /\ Cardinality(issued') = (IF k \in room THEN Cardinality(room) ELSE Cardinality(room) + 1)
    BY <1>6, <1>8, FS_AddElement
  <2>2. Cardinality(issued') <= MaxTickets
    BY <1>7, <1>8, <2>1, TicketAssumption
  <2>3. /\ ticket' \in [Ticket -> [kind : {"none", "download", "upload"}, until : 0..(MaxTicketTime + TicketLife)]]
        /\ \A l \in Ticket \ {k} : ticket'[l] = ticket[l]
    BY <1>4, <1>8 DEF TicketsTyped
  <2>4. TicketsTyped'
    BY <1>1, <1>5, <1>8, <2>1, <2>3 DEF TicketsTyped
  <2> QED
    BY <1>1, <1>2, <1>5, <1>8, <2>2, <2>3, <2>4
<1>9. CASE issued' = room /\ ticket' = ticket
  <2>1. TicketsTyped'
    BY <1>1, <1>5, <1>6, <1>9 DEF TicketsTyped
  <2>2. Cardinality(issued') <= MaxTickets
    BY <1>6, <1>7, <1>9, TicketAssumption
  <2> QED
    BY <1>1, <1>2, <1>5, <1>9, <2>1, <2>2
<1>10. CASE issued' = issued /\ ticket' = ticket
  <2>1. TicketsTyped'
    BY <1>1, <1>5, <1>10 DEF TicketsTyped
  <2> QED
    BY <1>1, <1>5, <1>10, <2>1
<1> QED
  BY <1>1, <1>8, <1>9, <1>10

\* cleanupLoop, and the clock: what is thrown away is past, and stays so.
LEMMA TicketsCleaned ==
    ASSUME TicketsTyped, Cardinality(issued) <= MaxTickets, CleanupTickets
    PROVE  TicketsTyped' /\ ticket' = ticket /\ ticketNow' = ticketNow /\ (\A k \in issued : ~IsPast(k) => k \in issued')
           /\ Cardinality(issued') <= MaxTickets
<1>1. issued' = issued \ Reclaimed /\ ticket' = ticket /\ ticketNow' = ticketNow /\ admitted' = admitted
  BY DEF CleanupTickets
<1>2. IsFiniteSet(issued') /\ Cardinality(issued') <= Cardinality(issued)
  BY <1>1, FS_Subset DEF TicketsTyped
<1>3. Cardinality(issued') \in Nat /\ Cardinality(issued) \in Nat
  BY <1>2, FS_CardinalityType DEF TicketsTyped
<1>4. TicketsTyped'
  BY <1>1, <1>2 DEF TicketsTyped
<1>5. Cardinality(issued') <= MaxTickets
  BY <1>2, <1>3, TicketAssumption
<1>6. \A k \in issued : ~IsPast(k) => k \in issued'
  BY <1>1 DEF Reclaimed
<1> QED
  BY <1>1, <1>4, <1>5, <1>6

\* No other action touches the table.
LEMMA TicketsKept ==
    ASSUME TicketsTyped, LifeInv, Cardinality(issued) <= MaxTickets, TransfersNext
    PROVE  TicketsTyped' /\ LifeInv' /\ Cardinality(issued)' <= MaxTickets
<1>1. CASE CleanupTickets
  BY <1>1, TicketsCleaned DEF LifeInv, IsPast
<1>2. CASE TicketTick
  <2>1. issued' = issued /\ ticket' = ticket /\ admitted' = admitted /\ ticketNow' = ticketNow + 1 /\ ticketNow < MaxTicketTime
    BY <1>2 DEF TicketTick
  <2>2. \A k \in Ticket : IsPast(k) => IsPast(k)'
    BY <2>1, TicketSays DEF IsPast
  <2>3. TicketsTyped'
    BY <2>1, TicketAssumption DEF TicketsTyped
  <2> QED
    BY <2>1, <2>2, <2>3 DEF LifeInv
<1>3. ASSUME NEW k \in Ticket, IssueTicket(k) PROVE TicketsTyped' /\ LifeInv' /\ Cardinality(issued)' <= MaxTickets
  <2>1. /\ TicketsTyped' /\ ticketNow' = ticketNow /\ Cardinality(issued') <= MaxTickets
        /\ \A l \in Ticket \ {k} : ticket'[l] = ticket[l]
        /\ ticket'[k] = ticket[k] \/ k \in issued'
        /\ \A l \in issued : ~IsPast(l) => l \in issued'
    BY <1>3, TicketIssued
  <2>2. ASSUME NEW l \in Ticket, ticket'[l] # NotIssued, ~IsPast(l)' PROVE l \in issued'
    <3>1. CASE ticket'[l] = ticket[l]
      BY <2>1, <2>2, <3>1 DEF LifeInv, IsPast
    <3> QED
      BY <2>1, <3>1
  <2> QED
    BY <2>1, <2>2 DEF LifeInv
<1>8. ASSUME NEW k \in Ticket, NEW kind \in {"download", "upload"}, AdmitTicket(k, kind)
      PROVE  TicketsTyped' /\ LifeInv' /\ Cardinality(issued)' <= MaxTickets
  BY <1>8, TicketAdmitted DEF LifeInv, IsPast
<1>9. ASSUME NEW n \in PlainName, PutOther(n) PROVE UNCHANGED ticketVars
  BY <1>9 DEF PutOther
<1>4. CASE UNCHANGED ticketVars
  BY <1>4 DEF ticketVars, TicketsTyped, LifeInv, IsPast
<1>5. ASSUME NEW x \in Transfer, CreateUploaded(x) \/ CopyUploaded(x) \/ FailUpload(x) PROVE UNCHANGED ticketVars
  BY <1>5 DEF CreateUploaded, CopyUploaded, FailUpload
<1>6. ASSUME NEW x \in Transfer, NEW k \in Ticket, NEW n \in PlainName, BeginUpload(x, k, n) PROVE UNCHANGED ticketVars
  BY <1>6 DEF BeginUpload
<1>7. SealFiles \/ OpenFiles => UNCHANGED ticketVars
  BY DEF SealFiles, OpenFiles
<1> QED
  BY <1>1, <1>2, <1>3, <1>4, <1>5, <1>6, <1>7, <1>8, <1>9 DEF TransfersNext

\* An upload that begins,
LEMMA UploadBegins ==
    ASSUME TransfersTyped, NEW x \in Transfer, NEW k \in Ticket, NEW n \in PlainName, BeginUpload(x, k, n)
    PROVE  /\ upload[x].pc = "idle" /\ k \in issued /\ ~IsPast(k) /\ ticket[k] # NotIssued
           /\ uploads' \in 1..MaxUploads
           /\ upload'[x] = [pc |-> "form", by |-> k, name |-> n, nr |-> uploads', lost |-> FALSE]
           /\ \A y \in Transfer \ {x} : upload'[y] = upload[y]
           /\ met' = (IF \E y \in Transfer : upload[y].name = n THEN met \cup {n} ELSE met)
           /\ UNCHANGED <<ticketVars, plainVars, uploaded, outlived, leaked>>
           /\ upload' \in [Transfer -> Uploading]
<1>1. uploads' = uploads + 1 /\ uploads' \in 1..MaxUploads /\ upload[x].pc = "idle" /\ k \in issued /\ ~IsPast(k)
      /\ ticket[k].kind = "upload" /\ UNCHANGED <<ticketVars, plainVars, uploaded, outlived, leaked>>
  BY TicketAssumption DEF BeginUpload, TransfersTyped, UploadsTyped
<1>2. ticket[k] # NotIssued
  BY <1>1 DEF NotIssued
<1> DEFINE new == [pc |-> "form", by |-> k, name |-> n, nr |-> uploads', lost |-> FALSE]
<1>3. upload' = [upload EXCEPT ![x] = new]
  BY <1>1 DEF BeginUpload
<1>4. new \in Uploading
  BY <1>1, TicketAssumption DEF Uploading
<1> HIDE DEF new
<1>5. upload' \in [Transfer -> Uploading] /\ upload'[x] = new /\ \A y \in Transfer \ {x} : upload'[y] = upload[y]
  BY <1>3, <1>4 DEF TransfersTyped, UploadsTyped
<1>6. met' = (IF \E y \in Transfer : upload[y].name = n THEN met \cup {n} ELSE met)
  <2>1. UploadsTo(n) = {} <=> ~\E y \in Transfer : upload[y].name = n
    BY DEF UploadsTo
  <2> QED
    BY <2>1 DEF BeginUpload
<1> QED
  BY <1>1, <1>2, <1>5, <1>6 DEF new

\* ends,
LEMMA UploadEnds ==
    ASSUME UploadsTyped, NEW x \in Transfer, EndUpload(x)
    PROVE  /\ upload'[x].pc = "idle" /\ \A y \in Transfer \ {x} : upload'[y] = upload[y]
           /\ upload' \in [Transfer -> Uploading]
<1>1. NoUpload \in Uploading /\ NoUpload.pc = "idle"
  BY TicketAssumption DEF NoUpload, Uploading
<1> QED
  BY <1>1 DEF EndUpload, UploadsTyped

\* goes on,
LEMMA UploadGoes ==
    ASSUME UploadsTyped, NEW x \in Transfer, NEW p \in {"form", "copy", "close"}, upload' = [upload EXCEPT ![x].pc = p]
    PROVE  /\ MovesTo(x, p)
           /\ \A y \in Transfer \ {x} : upload'[y] = upload[y]
           /\ upload' \in [Transfer -> Uploading]
<1> DEFINE new == [pc |-> p, by |-> upload[x].by, name |-> upload[x].name, nr |-> upload[x].nr, lost |-> upload[x].lost]
<1>1. new \in Uploading
  BY UploadSays DEF Uploading
<1>a. [upload[x] EXCEPT !.pc = p] = new
  <2>1. ASSUME NEW r \in Uploading PROVE [r EXCEPT !.pc = p] = [pc |-> p, by |-> r.by, name |-> r.name, nr |-> r.nr, lost |-> r.lost]
    BY DEF Uploading
  <2> QED
    BY <2>1 DEF UploadsTyped
<1>2. upload' = [upload EXCEPT ![x] = new]
  BY <1>a DEF UploadsTyped
<1> HIDE DEF new
<1>3. upload'[x] = new /\ (\A y \in Transfer \ {x} : upload'[y] = upload[y]) /\ upload' \in [Transfer -> Uploading]
  BY <1>1, <1>2 DEF UploadsTyped
<1>4. MovesTo(x, p)
  BY <1>3 DEF new, MovesTo
<1> QED
  BY <1>3, <1>4

\* and all that lose their file when it is deleted.
LEMMA UploadLost ==
    ASSUME UploadsTyped, upload' = [x \in Transfer |-> [upload[x] EXCEPT !.lost = upload[x].pc \in {"copy", "close"}]]
    PROVE  /\ upload' \in [Transfer -> Uploading]
           /\ \A x \in Transfer : upload'[x].pc = upload[x].pc /\ upload'[x].by = upload[x].by
                                  /\ upload'[x].name = upload[x].name /\ upload'[x].nr = upload[x].nr
<1> SUFFICES ASSUME NEW x \in Transfer
             PROVE  /\ upload'[x] \in Uploading /\ upload'[x].pc = upload[x].pc /\ upload'[x].by = upload[x].by
                    /\ upload'[x].name = upload[x].name /\ upload'[x].nr = upload[x].nr
  OBVIOUS
<1> DEFINE l == upload[x].pc \in {"copy", "close"}
<1>1. upload'[x] = [upload[x] EXCEPT !.lost = l] /\ l \in BOOLEAN
  OBVIOUS
<1> HIDE DEF l
<1>2. upload'[x] = [pc |-> upload[x].pc, by |-> upload[x].by, name |-> upload[x].name, nr |-> upload[x].nr, lost |-> l]
  BY <1>1, UploadSays
<1> QED
  BY <1>1, <1>2, UploadSays DEF Uploading

\* A file that another puts there: what writes to the old one goes on, or has lost it.
LEMMA OtherPut ==
    ASSUME TransfersTyped, NEW n \in PlainName, PutOther(n)
    PROVE  /\ uploads' \in 1..MaxUploads /\ uploaded' = uploaded \ {n}
           /\ plain' = [plain EXCEPT ![n] = [by |-> {0, uploads'}, whole |-> TRUE]]
           /\ met' = IF UploadsTo(n) = {} THEN met ELSE met \cup {n}
           /\ upload' \in [Transfer -> Uploading]
           /\ \A x \in Transfer : /\ upload'[x].pc = upload[x].pc /\ upload'[x].by = upload[x].by
                                  /\ upload'[x].name = upload[x].name /\ upload'[x].nr = upload[x].nr
                                  /\ upload[x].name # n => upload'[x] = upload[x]
           /\ UNCHANGED <<ticketVars, sealed, isOpen, outlived, leaked>>
<1>1. /\ uploads' = uploads + 1 /\ uploads' \in 1..MaxUploads /\ uploaded' = uploaded \ {n}
      /\ met' = IF UploadsTo(n) = {} THEN met ELSE met \cup {n}
      /\ UNCHANGED <<ticketVars, sealed, isOpen, outlived, leaked>>
  BY TicketAssumption DEF PutOther, TransfersTyped, UploadsTyped
<1>2. plain' = [plain EXCEPT ![n] = [by |-> {0, uploads'}, whole |-> TRUE]]
  BY <1>1 DEF PutOther
<1>3. ASSUME NEW x \in Transfer
      PROVE  /\ upload'[x] \in Uploading
             /\ upload'[x].pc = upload[x].pc /\ upload'[x].by = upload[x].by
             /\ upload'[x].name = upload[x].name /\ upload'[x].nr = upload[x].nr
             /\ upload[x].name # n => upload'[x] = upload[x]
  <2>1. upload[x] \in Uploading /\ UploadsTyped
    BY DEF TransfersTyped, UploadsTyped
  <2>2. CASE upload'[x] = upload[x]
    BY <2>1, <2>2
  <2>3. CASE upload'[x] # upload[x]
    <3>1. upload[x].name = n /\ upload'[x] = [upload[x] EXCEPT !.lost = TRUE]
      BY <2>3 DEF PutOther
    <3>2. upload'[x] = [pc |-> upload[x].pc, by |-> upload[x].by, name |-> upload[x].name, nr |-> upload[x].nr, lost |-> TRUE]
      BY <2>1, <3>1, UploadSays
    <3> QED
      BY <2>1, <3>1, <3>2, UploadSays DEF Uploading
  <2> QED
    BY <2>2, <2>3
<1>4. DOMAIN upload' = Transfer /\ upload' = [x \in Transfer |-> upload'[x]]
  BY DEF PutOther, TransfersTyped, UploadsTyped
<1>5. upload' \in [Transfer -> Uploading]
  BY <1>3, <1>4
<1> QED
  BY <1>1, <1>2, <1>3, <1>5

\* Every action keeps the types of the transfers.
LEMMA UploadsTypesKept ==
    ASSUME TransfersTyped, TransfersNext
    PROVE  UploadsTyped' /\ Named'
<1>0. UploadsTyped /\ Named
  BY DEF TransfersTyped
<1>1. CASE UNCHANGED <<upload, uploads>>
  BY <1>0, <1>1 DEF UploadsTyped, Named
<1>2. ASSUME NEW x \in Transfer, NEW k \in Ticket, NEW n \in PlainName, BeginUpload(x, k, n) PROVE UploadsTyped' /\ Named'
  <2>1. /\ uploads' \in 1..MaxUploads /\ upload' \in [Transfer -> Uploading]
        /\ upload'[x] = [pc |-> "form", by |-> k, name |-> n, nr |-> uploads', lost |-> FALSE]
        /\ \A y \in Transfer \ {x} : upload'[y] = upload[y]
    BY <1>2, UploadBegins
  <2>2. uploads' \in 0..MaxUploads
    BY <2>1, TicketAssumption
  <2>3. upload'[x].name \in PlainName /\ upload'[x].nr \in 1..MaxUploads /\ upload'[x].by \in Ticket
    BY <2>1
  <2> QED
    BY <1>0, <2>1, <2>2, <2>3 DEF UploadsTyped, Named
<1>3. ASSUME NEW x \in Transfer, EndUpload(x), uploads' = uploads PROVE UploadsTyped' /\ Named'
  BY <1>0, <1>3, UploadEnds DEF UploadsTyped, Named
<1>4. ASSUME NEW x \in Transfer, NEW p \in {"form", "copy", "close"}, upload[x].pc # "idle", upload' = [upload EXCEPT ![x].pc = p], uploads' = uploads
      PROVE  UploadsTyped' /\ Named'
  <2>1. /\ MovesTo(x, p)
        /\ (\A y \in Transfer \ {x} : upload'[y] = upload[y]) /\ upload' \in [Transfer -> Uploading]
    BY <1>0, <1>4, UploadGoes
  <2>2. upload'[x].name = upload[x].name /\ upload'[x].nr = upload[x].nr /\ upload'[x].by = upload[x].by
    BY <2>1 DEF MovesTo
  <2> QED
    BY <1>0, <1>4, <2>1, <2>2 DEF UploadsTyped, Named
<1>5. CASE SealFiles \/ OpenFiles
  BY <1>0, <1>5, UploadLost DEF SealFiles, OpenFiles, UploadsTyped, Named
<1>6. ASSUME NEW x \in Transfer, CreateUploaded(x) PROVE UploadsTyped' /\ Named'
  BY <1>6, <1>3, <1>4 DEF CreateUploaded
<1>7. ASSUME NEW x \in Transfer, CopyUploaded(x) PROVE UploadsTyped' /\ Named'
  BY <1>7, <1>3, <1>4 DEF CopyUploaded
<1>8. ASSUME NEW x \in Transfer, FailUpload(x) PROVE UploadsTyped' /\ Named'
  BY <1>8, <1>3 DEF FailUpload
<1>9. CleanupTickets \/ TicketTick => UNCHANGED <<upload, uploads>>
  BY DEF CleanupTickets, TicketTick
<1>10. ASSUME NEW k \in Ticket PROVE (\E kind \in {"download", "upload"} : AdmitTicket(k, kind)) \/ IssueTicket(k) => UNCHANGED <<upload, uploads>>
  BY DEF AdmitTicket, IssueTicket
<1>11. ASSUME NEW n \in PlainName, PutOther(n) PROVE UploadsTyped' /\ Named'
  <2>1. uploads' \in 0..MaxUploads
    BY <1>11, OtherPut, TicketAssumption
  <2> QED
    BY <1>0, <1>11, <2>1, OtherPut DEF UploadsTyped, Named
<1> QED
  BY <1>1, <1>2, <1>5, <1>6, <1>7, <1>8, <1>9, <1>10, <1>11 DEF TransfersNext

\* A file that is created,
LEMMA FileCreated ==
    ASSUME TransfersTyped, NEW x \in Transfer, CreateUploaded(x)
    PROVE  /\ upload[x].pc = "form" /\ UNCHANGED <<ticketVars, sealed, isOpen, uploads, met, outlived>>
           /\ \A y \in Transfer \ {x} : upload'[y] = upload[y]
           /\ \/ /\ MovesTo(x, "copy")
                 /\ plain' = [plain EXCEPT ![upload[x].name] = [by |-> {0}, whole |-> FALSE]]
                 /\ uploaded' = uploaded \ {upload[x].name}
                 /\ leaked' = IF isOpen THEN leaked ELSE leaked \cup {upload[x].by}
              \/ upload'[x].pc = "idle" /\ UNCHANGED <<plain, uploaded, leaked>>
<1>1. UploadsTyped
  BY DEF TransfersTyped
<1>2. CASE EndUpload(x) /\ UNCHANGED <<plain, uploaded, leaked>>
  BY <1>1, <1>2, UploadEnds DEF CreateUploaded
<1>3. CASE ~(EndUpload(x) /\ UNCHANGED <<plain, uploaded, leaked>>)
  <2>1. upload' = [upload EXCEPT ![x].pc = "copy"]
    BY <1>3 DEF CreateUploaded
  <2>2. (\A y \in Transfer \ {x} : upload'[y] = upload[y])
        /\ MovesTo(x, "copy")
    BY <1>1, <2>1, UploadGoes
  <2> QED
    BY <1>3, <2>2 DEF CreateUploaded
<1> QED
  BY <1>2, <1>3

\* and copied to.
LEMMA FileCopied ==
    ASSUME TransfersTyped, NEW x \in Transfer, CopyUploaded(x)
    PROVE  /\ upload[x].pc \in {"copy", "close"} /\ UNCHANGED <<ticketVars, sealed, isOpen, uploads, met, outlived, leaked>>
           /\ \A y \in Transfer \ {x} : upload'[y] = upload[y]
           /\ plain' = IF upload[x].lost THEN plain
                       ELSE [plain EXCEPT ![upload[x].name] = [by |-> plain[upload[x].name].by \cup {upload[x].nr}, whole |-> upload[x].pc = "close"]]
           /\ \/ /\ upload[x].pc = "copy" /\ uploaded' = uploaded
                 /\ MovesTo(x, "close")
              \/ upload[x].pc = "close" /\ upload'[x].pc = "idle" /\ uploaded' = uploaded \cup {upload[x].name}
<1>1. UploadsTyped
  BY DEF TransfersTyped
<1>2. CASE upload[x].pc = "close"
  <2>1. EndUpload(x)
    BY <1>2 DEF CopyUploaded
  <2>2. upload'[x].pc = "idle" /\ \A y \in Transfer \ {x} : upload'[y] = upload[y]
    BY <1>1, <2>1, UploadEnds
  <2> QED
    BY <1>2, <2>2 DEF CopyUploaded
<1>3. CASE upload[x].pc = "copy"
  <2>1. upload' = [upload EXCEPT ![x].pc = "close"]
    BY <1>3 DEF CopyUploaded, CopiedWhole
  <2>2. (\A y \in Transfer \ {x} : upload'[y] = upload[y])
        /\ MovesTo(x, "close")
    BY <1>1, <2>1, UploadGoes
  <2> QED
    BY <1>3, <2>2 DEF CopyUploaded, CopiedWhole
<1> QED
  BY <1>2, <1>3 DEF CopyUploaded

\* Every action keeps the types of the files and of the history.
LEMMA PlainTypesKept ==
    ASSUME TransfersTyped, TransfersNext
    PROVE  PlainTyped' /\ LeaksTyped'
<1>0. PlainTyped /\ LeaksTyped /\ Named /\ UploadsTyped
  BY DEF TransfersTyped
<1>1. CASE UNCHANGED <<plainVars, transferHistory>>
  BY <1>0, <1>1 DEF PlainTyped, LeaksTyped, plainVars, transferHistory
<1>2. ASSUME NEW x \in Transfer, NEW k \in Ticket, NEW n \in PlainName, BeginUpload(x, k, n) PROVE PlainTyped' /\ LeaksTyped'
  BY <1>0, <1>2 DEF BeginUpload, PlainTyped, LeaksTyped, plainVars
<1>3. ASSUME NEW x \in Transfer, CreateUploaded(x) PROVE PlainTyped' /\ LeaksTyped'
  <2>1. upload[x].name \in PlainName /\ upload[x].by \in Ticket
    BY <1>0, <1>3 DEF CreateUploaded, Named
  <2>2. [by |-> {0}, whole |-> FALSE] \in PlainFile
    BY TicketAssumption DEF PlainFile
  <2>3. /\ UNCHANGED <<sealed, isOpen, met, outlived>>
        /\ \/ /\ plain' = [plain EXCEPT ![upload[x].name] = [by |-> {0}, whole |-> FALSE]]
              /\ uploaded' = uploaded \ {upload[x].name}
              /\ leaked' = IF isOpen THEN leaked ELSE leaked \cup {upload[x].by}
           \/ UNCHANGED <<plain, uploaded, leaked>>
    BY <1>3, FileCreated
  <2> DEFINE new == [by |-> {0}, whole |-> FALSE]
  <2>4. new \in PlainFile
    BY <2>2
  <2>5. plain' = [plain EXCEPT ![upload[x].name] = new] \/ plain' = plain
    BY <2>3
  <2> HIDE DEF new
  <2>6. plain' \in [PlainName -> PlainFile]
    BY <1>0, <2>1, <2>4, <2>5 DEF PlainTyped
  <2>7. uploaded' \subseteq uploaded /\ leaked' \subseteq leaked \cup {upload[x].by}
    BY <2>3
  <2> QED
    BY <1>0, <2>1, <2>3, <2>6, <2>7 DEF PlainTyped, LeaksTyped
<1>4. ASSUME NEW x \in Transfer, CopyUploaded(x) PROVE PlainTyped' /\ LeaksTyped'
  <2>1. upload[x].name \in PlainName /\ upload[x].nr \in 0..MaxUploads
    BY <1>0, <1>4, UploadSays DEF CopyUploaded, Named
  <2> DEFINE more == [by |-> plain[upload[x].name].by \cup {upload[x].nr}, whole |-> upload[x].pc = "close"]
  <2>2. more \in PlainFile
    BY <1>0, <2>1 DEF PlainTyped, PlainFile
  <2>3. plain' = (IF upload[x].lost THEN plain ELSE [plain EXCEPT ![upload[x].name] = more]) /\ sealed' = sealed /\ isOpen' = isOpen
        /\ met' = met /\ uploaded' \in {uploaded, uploaded \cup {upload[x].name}} /\ outlived' = outlived /\ leaked' = leaked
    BY <1>4, FileCopied
  <2> HIDE DEF more
  <2> QED
    BY <1>0, <2>1, <2>2, <2>3 DEF PlainTyped, LeaksTyped
<1>5. ASSUME NEW x \in Transfer, FailUpload(x) PROVE PlainTyped' /\ LeaksTyped'
  BY <1>1, <1>5 DEF FailUpload
<1>6. NoFile \in PlainFile
  BY DEF NoFile, PlainFile
<1>7. CASE SealFiles
  <2>1. {upload[x].by : x \in {x \in Transfer : upload[x].pc = "form"}} \subseteq Ticket
    BY <1>0 DEF Named
  <2> QED
    BY <1>0, <1>6, <1>7, <2>1 DEF SealFiles, PlainTyped, LeaksTyped, UnderWay
<1>8. CASE OpenFiles
  <2>1. plain' \in [PlainName -> PlainFile]
    BY <1>0, <1>8 DEF OpenFiles, PlainTyped
  <2> QED
    BY <1>0, <1>8, <2>1 DEF OpenFiles, PlainTyped, LeaksTyped, UnderWay
<1>9. CleanupTickets \/ TicketTick => UNCHANGED <<plainVars, transferHistory>>
  BY DEF CleanupTickets, TicketTick
<1>10. ASSUME NEW k \in Ticket
       PROVE  (\E kind \in {"download", "upload"} : AdmitTicket(k, kind)) \/ IssueTicket(k) => UNCHANGED <<plainVars, transferHistory>>
  BY DEF AdmitTicket, IssueTicket
<1>11. ASSUME NEW n \in PlainName, PutOther(n) PROVE PlainTyped' /\ LeaksTyped'
  <2> DEFINE new == [by |-> {0, uploads'}, whole |-> TRUE]
  <2>1. new \in PlainFile
    BY <1>11, OtherPut, TicketAssumption DEF PlainFile
  <2>2. /\ plain' = [plain EXCEPT ![n] = new] /\ uploaded' \subseteq uploaded /\ met' \subseteq met \cup {n}
        /\ UNCHANGED <<sealed, isOpen, outlived, leaked>>
    BY <1>11, OtherPut
  <2> HIDE DEF new
  <2> QED
    BY <1>0, <2>1, <2>2 DEF PlainTyped, LeaksTyped
<1> QED
  BY <1>1, <1>2, <1>3, <1>4, <1>5, <1>7, <1>8, <1>9, <1>10, <1>11 DEF TransfersNext

-----------------------------------------------------------------------------
(* The transfers: the invariant, action by action.                          *)

\* A ticket is given only while the files are there; each step of an upload has the
\* ticket of the one before.
LEMMA SealedKept ==
    ASSUME TransfersTyped, LifeInv, Cardinality(issued) <= MaxTickets, SealedInv, LeaksAreOldTickets, TransfersNext
    PROVE  SealedInv' /\ LeaksAreOldTickets'
<1>0. UploadsTyped /\ TicketsTyped /\ Named
  BY DEF TransfersTyped
<1>1. CASE CleanupTickets
  BY <1>1 DEF CleanupTickets, SealedInv, LeaksAreOldTickets, IsPast, plainVars, transferHistory
<1>2. CASE TicketTick
  <2>1. \A k \in Ticket : IsPast(k) => IsPast(k)'
    BY <1>0, <1>2, TicketSays DEF TicketTick, IsPast
  <2> QED
    BY <1>2, <2>1 DEF TicketTick, SealedInv, LeaksAreOldTickets, plainVars, transferHistory
<1>3. ASSUME NEW k \in Ticket, IssueTicket(k) PROVE SealedInv' /\ LeaksAreOldTickets'
  <2>1. /\ ticketNow' = ticketNow /\ admitted[k] # "none" /\ admitted'[k] = "none"
        /\ \A l \in Ticket \ {k} : ticket'[l] = ticket[l] /\ admitted'[l] = admitted[l]
        /\ isOpen' = isOpen /\ upload' = upload /\ outlived' = outlived /\ leaked' = leaked
    BY <1>0, <1>3, TicketIssued DEF plainVars, transferHistory
  <2> QED
    BY <2>1 DEF SealedInv, LeaksAreOldTickets, IsPast
<1>10. ASSUME NEW k \in Ticket, NEW kind \in {"download", "upload"}, AdmitTicket(k, kind) PROVE SealedInv' /\ LeaksAreOldTickets'
  BY <1>10 DEF AdmitTicket, MayIssue, SealedInv, LeaksAreOldTickets, plainVars, transferHistory
<1>11. ASSUME NEW n \in PlainName, PutOther(n) PROVE SealedInv' /\ LeaksAreOldTickets'
  BY <1>11, OtherPut DEF SealedInv, LeaksAreOldTickets, IsPast, ticketVars
<1>4. ASSUME NEW x \in Transfer, NEW k \in Ticket, NEW n \in PlainName, BeginUpload(x, k, n) PROVE SealedInv' /\ LeaksAreOldTickets'
  <2>1. /\ ~IsPast(k) /\ ticket[k] # NotIssued /\ upload'[x] = [pc |-> "form", by |-> k, name |-> n, nr |-> uploads', lost |-> FALSE]
        /\ \A y \in Transfer \ {x} : upload'[y] = upload[y]
        /\ UNCHANGED <<ticketVars, plainVars, uploaded, outlived, leaked>>
    BY <1>4, UploadBegins
  <2>2. upload'[x].by = k
    BY <2>1
  <2> QED
    BY <2>1, <2>2 DEF SealedInv, LeaksAreOldTickets, IsPast, ticketVars, plainVars
<1>5. ASSUME NEW x \in Transfer, CreateUploaded(x) PROVE SealedInv' /\ LeaksAreOldTickets'
  <2>1. /\ upload[x].pc = "form" /\ UNCHANGED <<ticketVars, isOpen, outlived>> /\ \A y \in Transfer \ {x} : upload'[y] = upload[y]
        /\ leaked' \in {leaked, IF isOpen THEN leaked ELSE leaked \cup {upload[x].by}}
    BY <1>5, FileCreated DEF MovesTo
  <2>2. upload'[x].pc # "form"
    BY <1>5, FileCreated DEF MovesTo
  <2> QED
    BY <2>1, <2>2 DEF SealedInv, LeaksAreOldTickets, IsPast, ticketVars
<1>6. ASSUME NEW x \in Transfer, CopyUploaded(x) PROVE SealedInv' /\ LeaksAreOldTickets'
  <2>1. /\ UNCHANGED <<ticketVars, isOpen, outlived, leaked>> /\ \A y \in Transfer \ {x} : upload'[y] = upload[y]
    BY <1>6, FileCopied
  <2>2. upload'[x].pc # "form"
    BY <1>6, FileCopied DEF MovesTo
  <2> QED
    BY <2>1, <2>2 DEF SealedInv, LeaksAreOldTickets, IsPast, ticketVars
<1>7. ASSUME NEW x \in Transfer, FailUpload(x) PROVE SealedInv' /\ LeaksAreOldTickets'
  BY <1>0, <1>7, UploadEnds
  DEF FailUpload, SealedInv, LeaksAreOldTickets, IsPast, ticketVars, plainVars, transferHistory
<1>8. CASE SealFiles
  <2>1. \A x \in Transfer : upload'[x].pc = upload[x].pc /\ upload'[x].by = upload[x].by
    BY <1>0, <1>8, UploadLost DEF SealFiles
  <2>2. ticket' = ticket /\ ticketNow' = ticketNow /\ leaked' = leaked /\ outlived \subseteq outlived'
        /\ (\A k \in Ticket : admitted'[k] # "none" => k \in outlived')
        /\ (\A k \in Ticket : ticket[k] # NotIssued /\ ~IsPast(k) => k \in outlived')
        /\ \A x \in Transfer : upload[x].pc = "form" => upload[x].by \in outlived'
    BY <1>8 DEF SealFiles, ticketVars
  <2> QED
    BY <2>1, <2>2 DEF SealedInv, LeaksAreOldTickets, IsPast
<1>9. CASE OpenFiles
  BY <1>9 DEF OpenFiles, SealedInv, LeaksAreOldTickets
<1> QED
  BY <1>1, <1>2, <1>3, <1>4, <1>5, <1>6, <1>7, <1>8, <1>9, <1>10, <1>11 DEF TransfersNext

\* An upload begins at a name that another has is a meeting, and so are a start and a
\* stop: without them the file is one upload's.
LEMMA CopyKept ==
    ASSUME TransfersTyped, CopyInv, UploadedStays, TransfersNext
    PROVE  CopyInv'
<1>0. UploadsTyped /\ PlainTyped /\ Named
  BY DEF TransfersTyped
<1>1. CASE UNCHANGED <<upload, plainVars, transferHistory>>
  BY <1>1 DEF CopyInv, plainVars, transferHistory, Partial
<1>2. ASSUME NEW x \in Transfer, NEW k \in Ticket, NEW n \in PlainName, BeginUpload(x, k, n) PROVE CopyInv'
  <2>1. /\ upload[x].pc = "idle" /\ upload'[x] = [pc |-> "form", by |-> k, name |-> n, nr |-> uploads', lost |-> FALSE]
        /\ \A y \in Transfer \ {x} : upload'[y] = upload[y]
        /\ met' = (IF \E y \in Transfer : upload[y].name = n THEN met \cup {n} ELSE met)
        /\ plain' = plain /\ uploaded' = uploaded
    BY <1>2, UploadBegins DEF plainVars
  <2>2. upload'[x].pc = "form" /\ upload'[x].name = n /\ ~upload'[x].lost
    BY <2>1
  <2>3. \A y \in Transfer \ {x} : n \notin met' => upload'[y].name # n
    BY <2>1
  <2>4. met \subseteq met'
    BY <2>1
  <2> QED
    BY <2>1, <2>2, <2>3, <2>4 DEF CopyInv, Partial
<1>3. ASSUME NEW x \in Transfer, CreateUploaded(x) PROVE CopyInv'
  <2> DEFINE n == upload[x].name
  <2>1. /\ upload[x].pc = "form" /\ met' = met /\ \A y \in Transfer \ {x} : upload'[y] = upload[y]
    BY <1>3, FileCreated
  <2>2. CASE upload'[x].pc = "idle" /\ UNCHANGED <<plain, uploaded, leaked>>
    BY <2>1, <2>2 DEF CopyInv, Partial
  <2>3. CASE ~(upload'[x].pc = "idle" /\ UNCHANGED <<plain, uploaded, leaked>>)
    <3>1. /\ MovesTo(x, "copy")
          /\ plain' = [plain EXCEPT ![n] = [by |-> {0}, whole |-> FALSE]]
          /\ uploaded' = uploaded \ {n}
      BY <1>3, <2>3, FileCreated
    <3>2. upload'[x].pc = "copy" /\ upload'[x].name = n /\ upload'[x].lost = upload[x].lost
      BY <3>1 DEF MovesTo
    <3>3. n \in PlainName
      BY <1>0, <2>1 DEF Named
    <3>4. plain'[n] = [by |-> {0}, whole |-> FALSE] /\ \A o \in PlainName : o # n => plain'[o] = plain[o]
      BY <1>0, <3>1, <3>3 DEF PlainTyped
    <3> HIDE DEF n
    <3>5. ASSUME NEW y \in Transfer, upload'[y].pc # "idle", upload'[y].name \notin met'
          PROVE  /\ ~upload'[y].lost
                 /\ \A z \in Transfer : upload'[z].pc # "idle" /\ upload'[z].name = upload'[y].name => z = y
                 /\ upload'[y].pc # "form" => upload'[y].name \notin uploaded' /\ plain'[upload'[y].name] = Partial(y)'
      <4>1. CASE y = x
        BY <2>1, <3>1, <3>2, <3>4, <3>5, <4>1, ZenonT(60) DEF CopyInv, Partial, n
      <4>2. CASE y # x
        <5>1. upload'[y] = upload[y] /\ upload[y].name \in PlainName /\ upload[y].name # n /\ Partial(y)' = Partial(y)
          BY <1>0, <2>1, <3>2, <3>5, <4>2 DEF CopyInv, Named, Partial, n
        <5> QED
          BY <2>1, <3>1, <3>2, <3>4, <3>5, <4>2, <5>1 DEF CopyInv, n
      <4> QED
        BY <4>1, <4>2
    <3> QED
      BY <3>5 DEF CopyInv
  <2> QED
    BY <2>2, <2>3
<1>4. ASSUME NEW x \in Transfer, CopyUploaded(x) PROVE CopyInv'
  <2> DEFINE n == upload[x].name
  <2>1. /\ upload[x].pc \in {"copy", "close"} /\ met' = met /\ \A y \in Transfer \ {x} : upload'[y] = upload[y]
        /\ plain' = IF upload[x].lost THEN plain
                    ELSE [plain EXCEPT ![n] = [by |-> plain[n].by \cup {upload[x].nr}, whole |-> upload[x].pc = "close"]]
    BY <1>4, FileCopied
  <2>2. n \in PlainName
    BY <1>0, <2>1 DEF Named
  <2>3. \A o \in PlainName : o # n => plain'[o] = plain[o]
    BY <1>0, <2>1, <2>2 DEF PlainTyped
  <2>4. ASSUME NEW y \in Transfer \ {x}, upload'[y].pc # "idle", upload'[y].name \notin met'
        PROVE  /\ ~upload'[y].lost
               /\ \A z \in Transfer : upload'[z].pc # "idle" /\ upload'[z].name = upload'[y].name => z = y
               /\ upload'[y].pc # "form" => upload'[y].name \notin uploaded' /\ plain'[upload'[y].name] = Partial(y)'
    <3>1. upload'[y] = upload[y] /\ upload[y].name \in PlainName /\ upload[y].name # n /\ Partial(y)' = Partial(y)
      BY <1>0, <2>1, <2>4 DEF CopyInv, Named, Partial
    <3>2. uploaded' \subseteq uploaded \cup {n} /\ (upload'[x].pc = "idle" \/ upload'[x].name = n)
      BY <1>4, FileCopied DEF MovesTo
    <3> HIDE DEF n
    <3> QED
      BY <2>1, <2>3, <2>4, <3>1, <3>2 DEF CopyInv
  <2>5. CASE upload[x].pc = "close"
    <3>1. upload'[x].pc = "idle"
      BY <1>4, <2>5, FileCopied
    <3> QED
      BY <2>4, <3>1 DEF CopyInv
  <2>6. CASE upload[x].pc = "copy"
    <3>1. /\ uploaded' = uploaded
          /\ MovesTo(x, "close")
      BY <1>4, <2>6, FileCopied
    <3>2. upload'[x].pc = "close" /\ upload'[x].name = n /\ upload'[x].lost = upload[x].lost /\ upload'[x].nr = upload[x].nr
      BY <3>1 DEF MovesTo
    <3>3. ASSUME n \notin met
          PROVE  /\ ~upload[x].lost /\ (\A z \in Transfer : upload[z].pc # "idle" /\ upload[z].name = n => z = x)
                 /\ n \notin uploaded /\ plain[n].by = {0}
      <4>1. upload[x].pc # "idle" /\ upload[x].pc # "form"
        BY <2>6
      <4>2. /\ ~upload[x].lost /\ (\A z \in Transfer : upload[z].pc # "idle" /\ upload[z].name = n => z = x)
            /\ n \notin uploaded /\ plain[n] = Partial(x)
        BY <3>3, <4>1 DEF CopyInv
      <4>3. Partial(x).by = {0}
        BY <2>6 DEF Partial
      <4> QED
        BY <4>2, <4>3
    <3>4. ASSUME n \notin met PROVE plain'[n] = [by |-> {0} \cup {upload[x].nr}, whole |-> FALSE]
      BY <1>0, <2>1, <2>2, <2>6, <3>3, <3>4 DEF PlainTyped
    <3>5. {0} \cup {upload[x].nr} = {0, upload[x].nr}
      OBVIOUS
    <3>6. n \notin met => plain'[n] = Partial(x)'
      BY <3>2, <3>4, <3>5 DEF Partial
    <3> HIDE DEF n
    <3>7. n \notin met => ~upload'[x].lost /\ n \notin uploaded'
           /\ (\A z \in Transfer : upload'[z].pc # "idle" /\ upload'[z].name = n => z = x)
      BY <2>1, <3>1, <3>2, <3>3
    <3> QED
      BY <2>1, <2>4, <3>2, <3>6, <3>7 DEF CopyInv
  <2> QED
    BY <2>1, <2>5, <2>6
<1>5. ASSUME NEW x \in Transfer, FailUpload(x) PROVE CopyInv'
  BY <1>0, <1>5, UploadEnds DEF FailUpload, CopyInv, plainVars, transferHistory, Partial
<1>6. CASE SealFiles \/ OpenFiles
  <2>1. (\A x \in Transfer : upload'[x].pc = upload[x].pc /\ upload'[x].name = upload[x].name) /\ UnderWay \subseteq met'
    BY <1>0, <1>6, UploadLost DEF SealFiles, OpenFiles
  <2>2. \A x \in Transfer : upload[x].pc # "idle" => upload[x].name \in UnderWay
    BY <1>0 DEF UnderWay, UploadsTo, Named
  <2> QED
    BY <2>1, <2>2 DEF CopyInv
<1>7. CleanupTickets \/ TicketTick => UNCHANGED <<upload, plainVars, transferHistory>>
  BY DEF CleanupTickets, TicketTick
<1>8. ASSUME NEW k \in Ticket
      PROVE  (\E kind \in {"download", "upload"} : AdmitTicket(k, kind)) \/ IssueTicket(k)
                 => UNCHANGED <<upload, plainVars, transferHistory>>
  BY DEF AdmitTicket, IssueTicket
<1>9. ASSUME NEW n \in PlainName, PutOther(n) PROVE CopyInv'
  <2>1. ASSUME NEW y \in Transfer, upload'[y].pc # "idle", upload'[y].name \notin met'
        PROVE  upload[y].name # n /\ upload'[y] = upload[y] /\ upload[y].name \in PlainName
    <3>1. upload[y].pc # "idle" /\ upload[y].name \notin met' /\ upload[y].name \in PlainName
      BY <1>0, <1>9, <2>1, OtherPut DEF Named
    <3>2. upload[y].name # n
      BY <1>9, <3>1, OtherPut DEF UploadsTo
    <3> QED
      BY <1>9, <3>1, <3>2, OtherPut
  <2>2. /\ \A o \in PlainName \ {n} : plain'[o] = plain[o]
        /\ uploaded' \subseteq uploaded /\ met \subseteq met'
        /\ \A z \in Transfer : upload'[z].pc = upload[z].pc /\ upload'[z].name = upload[z].name
    BY <1>0, <1>9, OtherPut DEF PlainTyped
  <2> SUFFICES ASSUME NEW y \in Transfer, upload'[y].pc # "idle", upload'[y].name \notin met'
               PROVE  /\ ~upload'[y].lost
                      /\ \A z \in Transfer : upload'[z].pc # "idle" /\ upload'[z].name = upload'[y].name => z = y
                      /\ upload'[y].pc # "form" => upload'[y].name \notin uploaded' /\ plain'[upload'[y].name] = Partial(y)'
    BY DEF CopyInv
  <2>3. Partial(y)' = Partial(y)
    BY <2>1 DEF Partial
  <2> QED
    BY <2>1, <2>2, <2>3 DEF CopyInv
<1> QED
  BY <1>1, <1>2, <1>3, <1>4, <1>5, <1>6, <1>7, <1>8, <1>9 DEF TransfersNext

\* What a client would get of a name: the plain file, or what is sealed of it.
Shown(n) == IF isOpen \/ plain[n] # NoFile THEN plain[n] ELSE sealed[n]

\* A file that one upload has written to its end.
WholeFile(f) == f.whole /\ \E nr \in 1..MaxUploads : f.by = {0, nr}

\* UploadedStays in these words.
LEMMA StaysSays == UploadedStays <=> \A n \in uploaded \ met : WholeFile(Shown(n))
BY DEF UploadedStays, WholeFile, Shown

\* A stop seals what is plain, a start unseals what is sealed, and an upload that is
\* answered has written its file to the end.
LEMMA StaysKept ==
    ASSUME TransfersTyped, CopyInv, \A n \in uploaded \ met : WholeFile(Shown(n)), TransfersNext
    PROVE  \A n \in uploaded' \ met' : WholeFile(Shown(n))'
<1>0. UploadsTyped /\ PlainTyped /\ Named
  BY DEF TransfersTyped
<1>1. CASE UNCHANGED <<plainVars, transferHistory>>
  BY <1>1 DEF plainVars, transferHistory, Shown, WholeFile
<1>2. ASSUME NEW x \in Transfer, NEW k \in Ticket, NEW n \in PlainName, BeginUpload(x, k, n) PROVE \A o \in uploaded' \ met' : WholeFile(Shown(o))'
  <2>1. met \subseteq met' /\ uploaded' = uploaded /\ UNCHANGED plainVars
    BY <1>2, UploadBegins
  <2> QED
    BY <2>1 DEF plainVars, Shown, WholeFile
<1>3. ASSUME NEW x \in Transfer, CreateUploaded(x) PROVE \A n \in uploaded' \ met' : WholeFile(Shown(n))'
  <2>1. upload[x].name \in PlainName
    BY <1>0, <1>3 DEF CreateUploaded, Named
  <2>2. /\ UNCHANGED <<sealed, isOpen, met>>
        /\ \/ /\ plain' = [plain EXCEPT ![upload[x].name] = [by |-> {0}, whole |-> FALSE]]
              /\ uploaded' = uploaded \ {upload[x].name}
           \/ UNCHANGED <<plain, uploaded, leaked>>
    BY <1>3, FileCreated
  <2>3. \A n \in uploaded' : n \in uploaded /\ plain'[n] = plain[n]
    BY <1>0, <2>1, <2>2 DEF PlainTyped
  <2> QED
    BY <2>2, <2>3 DEF Shown, WholeFile
<1>4. ASSUME NEW x \in Transfer, CopyUploaded(x) PROVE \A n \in uploaded' \ met' : WholeFile(Shown(n))'
  <2> SUFFICES ASSUME NEW n \in uploaded' \ met' PROVE WholeFile(Shown(n))'
    OBVIOUS
  <2>1. /\ upload[x].pc \in {"copy", "close"} /\ UNCHANGED <<sealed, isOpen, met>>
        /\ plain' = IF upload[x].lost THEN plain
                    ELSE [plain EXCEPT ![upload[x].name] = [by |-> plain[upload[x].name].by \cup {upload[x].nr}, whole |-> upload[x].pc = "close"]]
    BY <1>4, FileCopied
  <2>0. uploaded' = uploaded \/ uploaded' = uploaded \cup {upload[x].name}
    BY <1>4, FileCopied
  <2>2. upload[x].name \in PlainName /\ upload[x].nr \in 1..MaxUploads
    BY <1>0, <2>1, SMTT(30) DEF Named
  <2>3. CASE n # upload[x].name
    <3>1. n \in uploaded
      BY <2>0, <2>3
    <3>2. plain'[n] = plain[n]
      BY <1>0, <2>1, <2>2, <2>3 DEF PlainTyped
    <3> QED
      BY <2>1, <3>1, <3>2 DEF Shown, WholeFile
  <2>4. CASE n = upload[x].name
    <3>1. /\ upload[x].pc # "idle" /\ upload[x].pc # "form" /\ upload[x].name \notin met
      BY <2>1, <2>4
    <3>2. ~upload[x].lost /\ n \notin uploaded /\ plain[n] = Partial(x)
      BY <2>4, <3>1 DEF CopyInv
    <3>3. upload[x].pc = "close"
      BY <1>4, <2>4, <3>2, FileCopied
    <3>4. plain[n].by = {0, upload[x].nr}
      BY <3>2, <3>3 DEF Partial
    <3> DEFINE new == [by |-> {0, upload[x].nr}, whole |-> TRUE]
    <3>5. plain' = [plain EXCEPT ![n] = new]
      <4>1. {0, upload[x].nr} \cup {upload[x].nr} = {0, upload[x].nr} /\ (upload[x].pc = "close") = TRUE
        BY <3>3
      <4> QED
        BY <2>1, <2>4, <3>2, <3>4, <4>1
    <3>6. new # NoFile /\ WholeFile(new)
      BY <2>2 DEF NoFile, WholeFile
    <3> HIDE DEF new
    <3>7. plain'[n] = new
      BY <1>0, <2>2, <2>4, <3>5 DEF PlainTyped
    <3>8. Shown(n)' = new
      BY <3>6, <3>7 DEF Shown
    <3> QED
      BY <3>6, <3>8 DEF WholeFile
  <2> QED
    BY <2>3, <2>4
<1>5. ASSUME NEW x \in Transfer, FailUpload(x) PROVE \A n \in uploaded' \ met' : WholeFile(Shown(n))'
  BY <1>1, <1>5 DEF FailUpload
<1>6. CASE SealFiles
  <2>1. /\ isOpen /\ isOpen' = FALSE /\ sealed' = plain /\ plain' = [n \in PlainName |-> NoFile]
        /\ uploaded' = uploaded /\ met \subseteq met'
    BY <1>6 DEF SealFiles
  <2>2. \A n \in uploaded' \ met' : n \in PlainName /\ plain'[n] = NoFile
    BY <1>0, <2>1 DEF PlainTyped
  <2>3. \A n \in uploaded' \ met' : Shown(n)' = Shown(n)
    BY <2>1, <2>2 DEF Shown
  <2> QED
    BY <2>1, <2>3 DEF WholeFile
<1>7. CASE OpenFiles
  <2> SUFFICES ASSUME NEW n \in uploaded' \ met' PROVE WholeFile(Shown(n))'
    OBVIOUS
  <2>1. /\ ~isOpen /\ isOpen' = TRUE /\ sealed' = sealed /\ uploaded' = uploaded
        /\ plain' = [o \in PlainName |-> IF sealed[o] # NoFile THEN sealed[o] ELSE plain[o]]
        /\ met' = met \cup UnderWay \cup {o \in PlainName : plain[o] # NoFile}
    BY <1>7 DEF OpenFiles
  <2>2. n \in PlainName /\ n \in uploaded \ met /\ plain[n] = NoFile
    BY <1>0, <2>1 DEF PlainTyped
  <2>3. Shown(n) = sealed[n] /\ WholeFile(sealed[n])
    BY <2>1, <2>2 DEF Shown
  <2>4. ~WholeFile(NoFile)
    BY DEF NoFile, WholeFile
  <2>5. plain'[n] = sealed[n]
    BY <2>1, <2>2, <2>3, <2>4
  <2> QED
    BY <2>1, <2>3, <2>5 DEF Shown, WholeFile
<1>9. CleanupTickets \/ TicketTick => UNCHANGED <<plainVars, transferHistory>>
  BY DEF CleanupTickets, TicketTick
<1>10. ASSUME NEW k \in Ticket
       PROVE  (\E kind \in {"download", "upload"} : AdmitTicket(k, kind)) \/ IssueTicket(k) => UNCHANGED <<plainVars, transferHistory>>
  BY DEF AdmitTicket, IssueTicket
<1>11. ASSUME NEW n \in PlainName, PutOther(n) PROVE \A o \in uploaded' \ met' : WholeFile(Shown(o))'
  <2>1. /\ uploaded' = uploaded \ {n} /\ met \subseteq met' /\ UNCHANGED <<sealed, isOpen>>
        /\ \A o \in PlainName \ {n} : plain'[o] = plain[o]
    BY <1>0, <1>11, OtherPut DEF PlainTyped
  <2>2. \A o \in uploaded' \ met' : Shown(o)' = Shown(o) /\ o \in uploaded \ met
    BY <1>0, <2>1 DEF Shown, PlainTyped
  <2> QED
    BY <2>2 DEF WholeFile
<1> QED
  BY <1>1, <1>2, <1>3, <1>4, <1>5, <1>6, <1>7, <1>9, <1>10, <1>11 DEF TransfersNext

-----------------------------------------------------------------------------
(* The transfers: the invariant holds, and the properties.                  *)

\* No ticket, no file, no upload.
LEMMA TransfersInitHolds == TransfersInit => TransfersInv
<1> SUFFICES ASSUME TransfersInit PROVE TransfersInv
  OBVIOUS
<1>1. 0 \in 0..MaxTicketTime /\ 0 \in 0..(MaxTicketTime + TicketLife) /\ 0 \in 0..MaxUploads
  BY TicketAssumption
<1>2. NotIssued \in [kind : {"none", "download", "upload"}, until : 0..(MaxTicketTime + TicketLife)]
  BY <1>1 DEF NotIssued
<1>3. IsFiniteSet(issued) /\ Cardinality(issued) = 0 /\ issued = {}
  BY FS_EmptySet DEF TransfersInit
<1>4. TicketsTyped
  BY <1>1, <1>2, <1>3 DEF TransfersInit, TicketsTyped
<1>5. NoFile \in PlainFile
  BY DEF NoFile, PlainFile
<1>6. PlainTyped
  BY <1>5 DEF TransfersInit, PlainTyped
<1>7. NoUpload \in Uploading /\ NoUpload.pc = "idle"
  BY <1>1 DEF NoUpload, Uploading
<1>8. UploadsTyped /\ \A x \in Transfer : upload[x].pc = "idle"
  BY <1>1, <1>7 DEF TransfersInit, UploadsTyped
<1>9. TransfersTyped
  BY <1>4, <1>6, <1>8 DEF TransfersTyped, LeaksTyped, Named, TransfersInit
<1>10. LifeInv /\ SealedInv /\ LeaksAreOldTickets /\ CopyInv /\ UploadedStays
  BY <1>8 DEF TransfersInit, LifeInv, SealedInv, LeaksAreOldTickets, CopyInv, UploadedStays
<1> QED
  BY <1>3, <1>9, <1>10, TicketAssumption DEF TransfersInv

\* Every step of a request, of an upload, of the instance and of the clock.
LEMMA TransfersStep == TransfersInv /\ [TransfersNext]_transferVars => TransfersInv'
<1> SUFFICES ASSUME TransfersInv, [TransfersNext]_transferVars PROVE TransfersInv'
  OBVIOUS
<1>0. /\ TransfersTyped /\ LifeInv /\ Cardinality(issued) <= MaxTickets /\ SealedInv /\ LeaksAreOldTickets /\ CopyInv
      /\ UploadedStays /\ TicketsTyped
  BY DEF TransfersInv, TransfersTyped
<1>1. CASE TransfersNext
  <2>1. TicketsTyped' /\ LifeInv' /\ Cardinality(issued)' <= MaxTickets
    BY <1>0, <1>1, TicketsKept
  <2>2. PlainTyped' /\ LeaksTyped' /\ UploadsTyped' /\ Named'
    BY <1>0, <1>1, PlainTypesKept, UploadsTypesKept
  <2>3. SealedInv' /\ LeaksAreOldTickets'
    BY <1>0, <1>1, SealedKept
  <2>4. CopyInv'
    BY <1>0, <1>1, CopyKept
  <2>5. \A n \in uploaded \ met : WholeFile(Shown(n))
    BY <1>0, StaysSays
  <2>6. \A n \in uploaded' \ met' : WholeFile(Shown(n))'
    BY <1>0, <1>1, <2>5, StaysKept
  <2>7. UploadedStays'
    BY <2>6 DEF UploadedStays, WholeFile, Shown
  <2> QED
    BY <2>1, <2>2, <2>3, <2>4, <2>7 DEF TransfersInv, TransfersTyped
<1>2. CASE UNCHANGED transferVars
  BY <1>0, <1>2
  DEF TransfersInv, TransfersTyped, TicketsTyped, PlainTyped, UploadsTyped, LeaksTyped, Named,
      LifeInv, IsPast, SealedInv, LeaksAreOldTickets, CopyInv, Partial, UploadedStays,
      transferVars, ticketVars, plainVars, transferHistory
<1> QED
  BY <1>1, <1>2

\* The invariant gives the types and the promises of the module.
LEMMA TransfersInvHolds == TransfersInv => TransfersTypeOK /\ TransfersHold
<1>1. TransfersInv => TransfersTypeOK
  BY
  DEF TransfersInv, TransfersTyped, TicketsTyped, PlainTyped, UploadsTyped, Uploading,
      LeaksTyped, TransfersTypeOK
<1>2. TransfersInv => TransfersHold
  BY DEF TransfersInv, LifeInv, TicketsStayGood, TransfersHold
<1> QED
  BY <1>1, <1>2

\* TransfersHold: a ticket is good until its time is over, whatever the table has to
\* make room for; of the tickets, only those from before the sealing, or whose request had looked before
\* it, write plain files while the files are sealed; an upload that was answered as good is whole, unless somebody met it at
\* its name; for any number of tickets, names and transfers.
THEOREM TransfersSafe == TransfersSpec => [](TransfersTypeOK /\ TransfersHold)
<1> QED
  BY TransfersInvHolds, TransfersInitHolds, TransfersStep, PTL DEF TransfersSpec

-----------------------------------------------------------------------------
(* Places in a list.                                                        *)

\* How many of S are below k.
Rank(S, k) == Cardinality({l \in S : l < k})

\* A larger member has a larger rank.
LEMMA RankGrows ==
    ASSUME NEW S \in SUBSET Nat, IsFiniteSet(S), NEW k \in S, NEW m \in S, k < m
    PROVE  Rank(S, k) < Rank(S, m) /\ Rank(S, k) \in Nat /\ Rank(S, m) \in Nat
<1> DEFINE K == {l \in S : l < k}
           M == {l \in S : l < m}
<1>1. IsFiniteSet(M) /\ IsFiniteSet(K)
  BY FS_Subset
<1>2. K \in SUBSET M /\ k \in M /\ k \notin K
  <2>1. \A l \in S : l \in Nat
    OBVIOUS
  <2>2. k \in Nat /\ m \in Nat /\ ~(k < k)
    BY <2>1
  <2>3. \A l \in S : l < k => l < m
    BY <2>1, <2>2
  <2> QED
    BY <2>2, <2>3
<1>3. Cardinality(K) <= Cardinality(M) /\ Cardinality(K) # Cardinality(M)
  BY <1>1, <1>2, FS_Subset
<1>4. Cardinality(K) \in Nat /\ Cardinality(M) \in Nat
  BY <1>1, FS_CardinalityType
<1> HIDE DEF K, M
<1>5. Cardinality(K) < Cardinality(M)
  BY <1>3, <1>4
<1> QED
  BY <1>4, <1>5 DEF Rank, K, M

\* The ranks are the numbers below the number of members.
LEMMA RankBelow ==
    ASSUME NEW S \in SUBSET Nat, IsFiniteSet(S), NEW k \in S
    PROVE  Rank(S, k) \in 0..Cardinality(S) - 1
<1> DEFINE K == {l \in S : l < k}
<1>1. IsFiniteSet(K) /\ K \in SUBSET S /\ k \notin K
  BY FS_Subset
<1>2. Cardinality(K) <= Cardinality(S) /\ Cardinality(K) # Cardinality(S)
  BY <1>1, FS_Subset
<1>3. Cardinality(K) \in Nat /\ Cardinality(S) \in Nat
  BY <1>1, FS_CardinalityType
<1> HIDE DEF K
<1>4. Cardinality(K) \in 0..Cardinality(S) - 1
  BY <1>2, <1>3
<1> QED
  BY <1>4 DEF Rank, K

\* Each of these numbers is the rank of one member.
LEMMA RankCovers ==
    ASSUME NEW S \in SUBSET Nat, IsFiniteSet(S), NEW n \in 0..Cardinality(S) - 1
    PROVE  \E k \in S : Rank(S, k) = n
<1> DEFINE ranks == 0..Cardinality(S) - 1
           rank == [k \in S |-> Rank(S, k)]
<1>1. Cardinality(S) \in Nat
  BY FS_CardinalityType
<1>2. IsFiniteSet(ranks) /\ Cardinality(ranks) = Cardinality(S)
  BY <1>1, FS_Interval
<1>3. rank \in [S -> ranks]
  BY RankBelow
<1>4. ASSUME NEW k \in S, NEW m \in S, rank[k] = rank[m] PROVE k = m
  <2>1. Rank(S, k) = Rank(S, m)
    BY <1>4
  <2>2. k < m \/ m < k \/ k = m
    OBVIOUS
  <2> QED
    BY <2>1, <2>2, RankGrows
<1>5. rank \in Injection(S, ranks)
  BY <1>3, <1>4 DEF Injection, IsInjective
<1>6. rank \in Surjection(S, ranks)
  BY <1>2, <1>5, FS_Injection
<1>7. \E k \in S : rank[k] = n
  BY <1>6 DEF Surjection
<1> QED
  BY <1>7

\* Some numbers have a least one.
LEMMA LeastPlace ==
    ASSUME NEW S \in SUBSET Nat, IsFiniteSet(S), S # {}
    PROVE  \E k \in S : \A l \in S : k <= l
<1>1. Cardinality(S) \in Nat /\ Cardinality(S) # 0
  BY FS_CardinalityType, FS_EmptySet
<1>2. 0 \in 0..Cardinality(S) - 1
  BY <1>1
<1>3. PICK k \in S : Rank(S, k) = 0
  BY <1>2, RankCovers
<1>4. IsFiniteSet({l \in S : l < k})
  BY FS_Subset
<1>5. {l \in S : l < k} = {}
  BY <1>3, <1>4, FS_EmptySet DEF Rank
<1> QED
  BY <1>5

-----------------------------------------------------------------------------
(* The table of tasks.                                                      *)

\* The places that stay.
Staying(places) == {k \in 1..Len(order) : k \notin places}

\* OrderWithout keeps the other places, and their order.
LEMMA OrderWithoutSays ==
    ASSUME order \in Seq(Task), NEW places
    PROVE  /\ OrderWithout(places) \in Seq(Task)
           /\ \E place \in [1..Len(OrderWithout(places)) -> Staying(places)] :
                 /\ \A n \in 1..Len(OrderWithout(places)) : OrderWithout(places)[n] = order[place[n]]
                 /\ \A m, n \in 1..Len(OrderWithout(places)) : m < n => place[m] < place[n]
                 /\ \A k \in Staying(places) : \E n \in 1..Len(OrderWithout(places)) : place[n] = k
<1> DEFINE stay == Staying(places)
           count == Cardinality(stay)
           place == [n \in 1..count |-> CHOOSE k \in stay : Rank(stay, k) = n - 1]
<1>1. Len(order) \in Nat /\ \A k \in 1..Len(order) : order[k] \in Task
  OBVIOUS
<1>2. stay \in SUBSET Nat /\ stay \subseteq 1..Len(order)
  BY <1>1 DEF Staying
<1>3. IsFiniteSet(stay) /\ count \in Nat
  <2>1. IsFiniteSet(1..Len(order))
    BY <1>1, FS_Interval
  <2>2. IsFiniteSet(stay)
    BY <1>2, <2>1, FS_Subset
  <2> QED
    BY <2>2, FS_CardinalityType
<1> HIDE DEF stay
<1>4. ASSUME NEW n \in 1..count PROVE place[n] \in stay /\ Rank(stay, place[n]) = n - 1
  <2>1. n - 1 \in 0..count - 1
    BY <1>3
  <2>2. \E k \in stay : Rank(stay, k) = n - 1
    BY <1>2, <1>3, <2>1, RankCovers
  <2> QED
    BY <2>2
<1>5. ASSUME NEW m \in 1..count, NEW n \in 1..count, m < n PROVE place[m] < place[n]
  <2>1. /\ place[m] \in stay /\ Rank(stay, place[m]) = m - 1
        /\ place[n] \in stay /\ Rank(stay, place[n]) = n - 1
    BY <1>4
  <2>2. place[n] < place[m] => Rank(stay, place[n]) < Rank(stay, place[m])
    BY <1>2, <1>3, <2>1, RankGrows
  <2>3. place[m] \in Nat /\ place[n] \in Nat
    BY <1>2, <2>1
  <2> HIDE DEF place
  <2>4. place[m] # place[n]
    BY <1>3, <1>5, <2>1
  <2>5. ~(place[n] < place[m])
    BY <1>3, <1>5, <2>1, <2>2
  <2> QED
    BY <2>3, <2>4, <2>5
<1>6. ASSUME NEW k \in stay PROVE \E n \in 1..count : place[n] = k
  <2>1. Rank(stay, k) \in 0..count - 1
    BY <1>2, <1>3, RankBelow
  <2>2. Rank(stay, k) + 1 \in 1..count
    BY <1>3, <2>1
  <2>3. PICK n : n = Rank(stay, k) + 1
    OBVIOUS
  <2>4. n \in 1..count /\ Rank(stay, k) = n - 1
    BY <2>1, <2>2, <2>3
  <2>5. place[n] \in stay /\ Rank(stay, place[n]) = Rank(stay, k)
    BY <1>4, <2>4
  <2>6. place[n] \in Nat /\ k \in Nat
    BY <1>2, <2>5
  <2>7. /\ place[n] < k => Rank(stay, place[n]) < Rank(stay, k)
        /\ k < place[n] => Rank(stay, k) < Rank(stay, place[n])
    BY <1>2, <1>3, <2>5, RankGrows
  <2> HIDE DEF place
  <2>8. place[n] = k
    BY <2>1, <2>5, <2>6, <2>7
  <2> QED
    BY <2>4, <2>8
<1>7. OrderWithout(places) = [n \in 1..count |-> order[place[n]]]
  BY DEF OrderWithout, stay, Staying, Rank
<1>8. \A n \in 1..count : order[place[n]] \in Task
  BY <1>1, <1>2, <1>4
<1> HIDE DEF place, count
<1>9. OrderWithout(places) \in Seq(Task) /\ Len(OrderWithout(places)) = count
  BY <1>3, <1>7, <1>8
<1>10. place \in [1..count -> stay]
  BY <1>4 DEF place
<1>11. \A n \in 1..count : OrderWithout(places)[n] = order[place[n]]
  BY <1>7
<1> QED
  BY <1>5, <1>6, <1>9, <1>10, <1>11 DEF stay

\* The tasks of a list, the oldest first and each of them once.
Listed(seq, ids, times) ==
    /\ ToSet(seq) = ids /\ IsInjective(seq)
    /\ \A k, l \in DOMAIN seq : k < l => times[seq[k]] <= times[seq[l]]

\* What is left of such a list is one of the tasks that are left.
LEMMA WithoutListed ==
    ASSUME order \in Seq(Task), Listed(order, tasks, madeAt), NEW places
    PROVE  /\ OrderWithout(places) \in Seq(Task)
           /\ Listed(OrderWithout(places), tasks \ {order[k] : k \in places \cap DOMAIN order}, madeAt)
<1> DEFINE rest == OrderWithout(places)
<1>1. PICK place \in [1..Len(rest) -> Staying(places)] :
         /\ \A n \in 1..Len(rest) : rest[n] = order[place[n]]
         /\ \A m, n \in 1..Len(rest) : m < n => place[m] < place[n]
         /\ \A k \in Staying(places) : \E n \in 1..Len(rest) : place[n] = k
  BY OrderWithoutSays
<1>2. rest \in Seq(Task)
  BY OrderWithoutSays
<1> HIDE DEF rest
<1>3. DOMAIN rest = 1..Len(rest) /\ DOMAIN order = 1..Len(order) /\ Len(rest) \in Nat
  BY <1>2
<1>4. \A n \in 1..Len(rest) : place[n] \in DOMAIN order /\ place[n] \notin places /\ place[n] \in Int
  BY <1>1, <1>3 DEF Staying
<1>5. \A k, l \in DOMAIN order : order[k] = order[l] => k = l
  BY DEF Listed, IsInjective
<1>6. tasks = {order[k] : k \in DOMAIN order}
  BY DEF Listed, ToSet
<1>7. ToSet(rest) = tasks \ {order[k] : k \in places \cap DOMAIN order}
  <2>1. ASSUME NEW n \in 1..Len(rest)
        PROVE  rest[n] \in tasks \ {order[k] : k \in places \cap DOMAIN order}
    BY <1>1, <1>4, <1>5, <1>6
  <2>2. ASSUME NEW i \in tasks \ {order[k] : k \in places \cap DOMAIN order}
        PROVE  \E n \in 1..Len(rest) : rest[n] = i
    <3>1. PICK k \in DOMAIN order : i = order[k]
      BY <1>6
    <3>2. k \in Staying(places)
      BY <1>3, <3>1, <2>2 DEF Staying
    <3> QED
      BY <1>1, <3>1, <3>2
  <2> QED
    BY <1>3, <2>1, <2>2 DEF ToSet
<1>8. ASSUME NEW m \in 1..Len(rest), NEW n \in 1..Len(rest), rest[m] = rest[n] PROVE m = n
  <2>1. place[m] = place[n]
    BY <1>1, <1>4, <1>5, <1>8
  <2>2. ~(place[m] < place[n]) /\ ~(place[n] < place[m])
    BY <1>4, <2>1
  <2>3. ~(m < n) /\ ~(n < m)
    BY <1>1, <2>2
  <2> QED
    BY <1>3, <2>3
<1>9. ASSUME NEW m \in 1..Len(rest), NEW n \in 1..Len(rest), m < n
      PROVE  madeAt[rest[m]] <= madeAt[rest[n]]
  <2>1. place[m] < place[n] /\ place[m] \in DOMAIN order /\ place[n] \in DOMAIN order
    BY <1>1, <1>4, <1>9
  <2>2. madeAt[order[place[m]]] <= madeAt[order[place[n]]]
    BY <2>1 DEF Listed
  <2> QED
    BY <1>1, <2>2
<1> QED
  BY <1>2, <1>3, <1>7, <1>8, <1>9 DEF Listed, IsInjective, rest

\* A task that is put at the end, and is not older than the others, is listed.
LEMMA AppendListed ==
    ASSUME NEW seq \in Seq(Task), NEW ids, NEW times \in [Task -> Nat], NEW i \in Task, NEW time \in Nat,
           Listed(seq, ids, times), i \notin ids, \A j \in Task : times[j] <= time
    PROVE  /\ Append(seq, i) \in Seq(Task)
           /\ Listed(Append(seq, i), ids \cup {i}, [times EXCEPT ![i] = time])
<1> DEFINE more == Append(seq, i)
           later == [times EXCEPT ![i] = time]
<1>1. /\ more \in Seq(Task) /\ Len(seq) \in Nat /\ DOMAIN seq = 1..Len(seq)
      /\ DOMAIN more = 1..Len(seq) + 1
      /\ more[Len(seq) + 1] = i /\ \A n \in 1..Len(seq) : more[n] = seq[n]
  OBVIOUS
<1>2. /\ ids = {seq[n] : n \in 1..Len(seq)}
      /\ \A m, n \in 1..Len(seq) : seq[m] = seq[n] => m = n
      /\ \A m, n \in 1..Len(seq) : m < n => times[seq[m]] <= times[seq[n]]
  BY <1>1 DEF Listed, ToSet, IsInjective
<1>3. \A n \in 1..Len(seq) : seq[n] # i /\ seq[n] \in Task
  BY <1>1, <1>2
<1>4. later[i] = time /\ \A j \in Task \ {i} : later[j] = times[j]
  OBVIOUS
<1> HIDE DEF more, later
<1>5. 1..Len(seq) + 1 = 1..Len(seq) \cup {Len(seq) + 1}
  BY <1>1
<1>6. ToSet(more) = ids \cup {i}
  <2>1. ToSet(more) = {more[n] : n \in 1..Len(seq) + 1}
    BY <1>1 DEF ToSet
  <2>2. \A n \in 1..Len(seq) + 1 : more[n] \in ids \cup {i}
    BY <1>1, <1>2, <1>5
  <2>3. \A j \in ids \cup {i} : \E n \in 1..Len(seq) + 1 : more[n] = j
    BY <1>1, <1>2, <1>5
  <2> QED
    BY <2>1, <2>2, <2>3
<1>7. \A m, n \in 1..Len(seq) + 1 : more[m] = more[n] => m = n
  BY <1>1, <1>2, <1>3, <1>5
<1>8. ASSUME NEW m \in 1..Len(seq) + 1, NEW n \in 1..Len(seq) + 1, m < n
      PROVE  later[more[m]] <= later[more[n]]
  <2>1. m \in 1..Len(seq) /\ more[m] = seq[m] /\ later[seq[m]] = times[seq[m]]
    BY <1>1, <1>3, <1>4, <1>8
  <2>2. CASE n = Len(seq) + 1
    BY <1>1, <1>3, <1>4, <2>1, <2>2
  <2>3. CASE n \in 1..Len(seq)
    BY <1>1, <1>2, <1>3, <1>4, <1>8, <2>1, <2>3
  <2> QED
    BY <1>5, <2>2, <2>3
<1> QED
  BY <1>1, <1>6, <1>7, <1>8 DEF Listed, IsInjective, more, later

-----------------------------------------------------------------------------
\* The invariant of the table.
TableInv ==
    /\ IsFiniteSet(tasks)
    /\ \A i \in tasks : report[i] # "none"
    /\ \A i \in Task : madeAt[i] <= taskNow

TasksInv == TasksTypeOK /\ TableInv /\ TasksHold

\* OrderIsTheTable is Listed.
LEMMA OrderListed == OrderIsTheTable <=> Listed(order, tasks, madeAt)
BY DEF OrderIsTheTable, Listed

LEMMA TasksBegin == TasksInit => TasksInv
<1> SUFFICES ASSUME TasksInit PROVE TasksInv
  OBVIOUS
<1> USE DEF TasksInit
<1>1. 0 \in 0..MaxTaskTime /\ <<>> \in Seq(Task)
  BY TaskAssumption
<1>2. TasksTypeOK
  BY <1>1 DEF TasksTypeOK, Reports
<1>3. TableInv
  BY FS_EmptySet DEF TableInv
<1>4. OrderIsTheTable
  BY DEF OrderIsTheTable, ToSet, IsInjective
<1>5. RunningTasksAreFound /\ EndedTasksAreFound
  BY DEF RunningTasksAreFound, EndedTasksAreFound, Ended
<1>6. TableIsBounded
  BY FS_EmptySet, TaskAssumption DEF TableIsBounded
<1> QED
  BY <1>2, <1>3, <1>4, <1>5, <1>6 DEF TasksInv, TasksHold

\* What goes to make room: nothing, if the table is not full; else something, which is of
\* no use any more if there is such a task.
LEMMA VictimsSay ==
    ASSUME TasksInv
    PROVE  /\ Victims \subseteq DOMAIN order
           /\ Cardinality(tasks) >= MaxTasks => Victims # {}
           /\ \A k \in Victims, j \in tasks : Expired(j) => Expired(order[k])
<1> DEFINE places == 1..Len(order)
           gone == {k \in places : order[k] \notin tasks \/ Expired(order[k])}
<1>1. Len(order) \in Nat /\ DOMAIN order = places /\ places \in SUBSET Nat /\ IsFiniteSet(places)
  BY FS_Interval DEF TasksInv, TasksTypeOK
<1>2. tasks = {order[k] : k \in places}
  BY <1>1 DEF TasksInv, TasksHold, OrderIsTheTable, ToSet
<1>3. gone = {k \in places : Expired(order[k])}
  BY <1>2
<1>4. FirstToGo = {k \in gone : \A l \in gone : k <= l}
  BY DEF FirstToGo
<1>5. gone \in SUBSET Nat /\ IsFiniteSet(gone)
  BY <1>1, FS_Subset
<1>6. \A k \in FirstToGo : k \in places /\ Expired(order[k]) /\ order[k] \in tasks
  BY <1>2, <1>3, <1>4
<1>7. gone # {} => FirstToGo # {}
  BY <1>4, <1>5, LeastPlace
<1> HIDE DEF gone
<1>8. CASE Cardinality(tasks) < MaxTasks
  <2>1. Victims = {} /\ Cardinality(tasks) \in Nat
    BY <1>8, FS_CardinalityType DEF Victims, TasksInv, TableInv
  <2> QED
    BY <1>8, <2>1, TaskAssumption
<1>9. CASE ~(Cardinality(tasks) < MaxTasks) /\ gone # {}
  <2>1. Victims = FirstToGo
    BY <1>6, <1>7, <1>9 DEF Victims
  <2> QED
    BY <1>1, <1>6, <1>7, <1>9, <2>1
<1>10. CASE ~(Cardinality(tasks) < MaxTasks) /\ gone = {}
  <2>1. FirstToGo = {}
    BY <1>4, <1>10
  <2>2. Victims = {k \in places : \A l \in places : k <= l}
    BY <1>10, <2>1 DEF Victims
  <2>3. places # {}
    <3>1. Cardinality({}) = 0
      BY FS_EmptySet
    <3>2. tasks # {}
      BY <1>10, <3>1, TaskAssumption
    <3> QED
      BY <1>2, <3>2
  <2>4. \E k \in places : \A l \in places : k <= l
    BY <1>1, <2>3, LeastPlace
  <2>5. \A j \in tasks : ~Expired(j)
    BY <1>2, <1>3, <1>10
  <2> QED
    BY <1>1, <2>2, <2>4, <2>5
<1> QED
  BY <1>8, <1>9, <1>10

\* A new task.
LEMMA CreateTaskKeeps ==
    ASSUME TasksInv, NEW i \in Task, CreateTask(i)
    PROVE  TasksInv'
<1> DEFINE dropped == {order[k] : k \in Victims}
<1>1. /\ report[i] = "none" /\ tasks' = (tasks \ dropped) \cup {i}
      /\ order' = Append(OrderWithout(Victims), i)
      /\ evicted' = evicted \cup {o \in dropped : ~Expired(o)}
      /\ newerKept' = (newerKept \/ \E o \in dropped : ~Expired(o) /\ \E k \in tasks \ dropped : Expired(k))
      /\ report' = [report EXCEPT ![i] = "running"]
      /\ madeAt' = [madeAt EXCEPT ![i] = taskNow]
      /\ UNCHANGED <<endedAt, taskNow, sweptRunning>>
  BY DEF CreateTask
<1>2. /\ tasks \subseteq Task /\ evicted \subseteq Task /\ order \in Seq(Task) /\ report \in [Task -> Reports]
      /\ madeAt \in [Task -> 0..MaxTaskTime] /\ taskNow \in 0..MaxTaskTime /\ newerKept \in BOOLEAN
  BY DEF TasksInv, TasksTypeOK
<1>3. i \notin tasks
  BY <1>1 DEF TasksInv, TableInv
<1>4. Victims \subseteq DOMAIN order
  BY VictimsSay
<1>5. dropped = {order[k] : k \in Victims \cap DOMAIN order}
  BY <1>4
<1>6. tasks = {order[k] : k \in DOMAIN order}
  BY DEF TasksInv, TasksHold, OrderIsTheTable, ToSet
<1>7. dropped \subseteq tasks
  BY <1>5, <1>6
<1>8. /\ OrderWithout(Victims) \in Seq(Task)
      /\ Listed(OrderWithout(Victims), tasks \ dropped, madeAt)
  <2>1. Listed(order, tasks, madeAt)
    BY OrderListed DEF TasksInv, TasksHold
  <2> QED
    BY <1>2, <1>5, <2>1, WithoutListed
<1> HIDE DEF dropped
<1>9. order' \in Seq(Task) /\ Listed(order', tasks', madeAt')
  <2>1. madeAt \in [Task -> Nat] /\ taskNow \in Nat /\ \A j \in Task : madeAt[j] <= taskNow
    BY <1>2, TaskAssumption DEF TasksInv, TableInv
  <2> QED
    BY <1>1, <1>3, <1>8, <2>1, AppendListed
<1>10. TasksTypeOK'
  <2>1. tasks' \subseteq Task /\ evicted' \subseteq Task
    BY <1>1, <1>2, <1>7
  <2>2. report' \in [Task -> Reports] /\ madeAt' \in [Task -> 0..MaxTaskTime] /\ newerKept' \in BOOLEAN
    BY <1>1, <1>2 DEF Reports
  <2> QED
    BY <1>1, <1>9, <2>1, <2>2 DEF TasksInv, TasksTypeOK
<1>11. IsFiniteSet(tasks) /\ IsFiniteSet(tasks \ dropped) /\ IsFiniteSet(tasks')
  <2>1. IsFiniteSet(tasks)
    BY DEF TasksInv, TableInv
  <2>2. IsFiniteSet(tasks \ dropped)
    BY <2>1, FS_Subset
  <2> QED
    BY <1>1, <2>1, <2>2, FS_AddElement
<1>12. TableInv'
  <2>1. \A j \in tasks' : report'[j] # "none"
    BY <1>1, <1>2 DEF TasksInv, TableInv
  <2>2. \A j \in Task : madeAt'[j] <= taskNow'
    BY <1>1, <1>2, TaskAssumption DEF TasksInv, TableInv
  <2> QED
    BY <1>11, <2>1, <2>2 DEF TableInv
<1>13. /\ evicted \subseteq evicted' /\ \A o \in dropped : Expired(o) \/ o \in evicted'
  BY <1>1
<1>14. RunningTasksAreFound'
  <2>1. SUFFICES ASSUME NEW j \in Task \ evicted', report'[j] = "running", j # i PROVE j \in tasks'
    BY <1>1 DEF RunningTasksAreFound
  <2>2. report[j] = "running"
    BY <1>1, <1>2, <2>1
  <2>3. j \in tasks
    BY <1>13, <2>1, <2>2 DEF TasksInv, TasksHold, RunningTasksAreFound
  <2>4. ~Expired(j)
    BY <2>2 DEF Expired, Ended
  <2> QED
    BY <1>1, <1>13, <2>1, <2>3, <2>4
<1>15. EndedTasksAreFound'
  <2>1. SUFFICES ASSUME NEW j \in Task \ evicted', Ended(j)', taskNow' - madeAt'[j] <= TaskTTL, j # i
                 PROVE  j \in tasks'
    BY <1>1 DEF EndedTasksAreFound
  <2>2. Ended(j) /\ taskNow - madeAt[j] <= TaskTTL
    BY <1>1, <1>2, <2>1 DEF Ended
  <2>3. j \in tasks
    BY <1>13, <2>1, <2>2 DEF TasksInv, TasksHold, EndedTasksAreFound
  <2>4. madeAt[j] \in Int /\ taskNow \in Int /\ TaskTTL \in Int
    BY <1>2, <2>1, TaskAssumption
  <2>5. ~Expired(j)
    BY <2>2, <2>4 DEF Expired
  <2> QED
    BY <1>1, <1>13, <2>1, <2>3, <2>5
<1>16. newerKept' = FALSE
  <2>1. newerKept = FALSE
    BY <1>2 DEF TasksInv, TasksHold, TableIsBounded
  <2>2. \A o \in dropped, k \in tasks : Expired(k) => Expired(o)
    BY VictimsSay DEF dropped
  <2> QED
    BY <1>1, <2>1, <2>2
<1>17. Cardinality(tasks') <= MaxTasks
  <2>1. i \notin tasks \ dropped
    BY <1>3
  <2>2. Cardinality(tasks') = Cardinality(tasks \ dropped) + 1
    BY <1>1, <1>11, <2>1, FS_AddElement
  <2>3. Cardinality(tasks) \in Nat /\ Cardinality(tasks \ dropped) \in Nat
    BY <1>11, FS_CardinalityType
  <2>4. /\ Cardinality(tasks \ dropped) <= Cardinality(tasks)
        /\ Cardinality(tasks \ dropped) = Cardinality(tasks) => tasks \ dropped = tasks
    BY <1>11, FS_Subset
  <2>5. Cardinality(tasks) <= MaxTasks
    BY DEF TasksInv, TasksHold, TableIsBounded
  <2>6. CASE Cardinality(tasks) < MaxTasks
    BY <2>2, <2>3, <2>4, <2>6, TaskAssumption
  <2>7. CASE ~(Cardinality(tasks) < MaxTasks)
    <3>1. Cardinality(tasks) >= MaxTasks
      BY <2>3, <2>7, TaskAssumption
    <3>2. dropped # {}
      BY <3>1, VictimsSay DEF dropped
    <3>3. tasks \ dropped # tasks
      BY <1>7, <3>2
    <3> QED
      BY <2>2, <2>3, <2>4, <2>5, <3>3, TaskAssumption
  <2> QED
    BY <2>6, <2>7
<1>18. OrderIsTheTable'
  BY <1>9 DEF OrderIsTheTable, Listed
<1> QED
  BY <1>10, <1>12, <1>14, <1>15, <1>16, <1>17, <1>18 DEF TasksInv, TasksHold, TableIsBounded

\* A task ends.
LEMMA EndTaskKeeps ==
    ASSUME TasksInv, NEW i \in Task, EndTask(i)
    PROVE  TasksInv'
<1>1. /\ report[i] = "running" /\ UNCHANGED <<tasks, order, madeAt, taskNow, evicted, sweptRunning, newerKept>>
      /\ endedAt' = [endedAt EXCEPT ![i] = taskNow]
  BY DEF EndTask
<1>2. PICK r \in {"done", "failed"} : report' = [report EXCEPT ![i] = r]
  BY DEF EndTask
<1>3. report \in [Task -> Reports] /\ endedAt \in [Task -> 0..MaxTaskTime] /\ taskNow \in 0..MaxTaskTime
  BY DEF TasksInv, TasksTypeOK
<1>4. /\ report' \in [Task -> Reports] /\ endedAt' \in [Task -> 0..MaxTaskTime]
      /\ report'[i] = r /\ \A j \in Task \ {i} : report'[j] = report[j]
  BY <1>1, <1>2, <1>3 DEF Reports
<1>5. TasksTypeOK'
  BY <1>1, <1>4 DEF TasksInv, TasksTypeOK
<1>6. tasks \subseteq Task
  BY DEF TasksInv, TasksTypeOK
<1>7. TableInv'
  BY <1>1, <1>4, <1>6 DEF TasksInv, TableInv
<1>8. i \notin evicted => i \in tasks
  BY <1>1 DEF TasksInv, TasksHold, RunningTasksAreFound
<1>9. RunningTasksAreFound'
  BY <1>1, <1>4 DEF TasksInv, TasksHold, RunningTasksAreFound
<1>10. EndedTasksAreFound'
  BY <1>1, <1>4, <1>8 DEF TasksInv, TasksHold, EndedTasksAreFound, Ended
<1>11. OrderIsTheTable' /\ TableIsBounded'
  BY <1>1 DEF TasksInv, TasksHold, OrderIsTheTable, TableIsBounded
<1> QED
  BY <1>5, <1>7, <1>9, <1>10, <1>11 DEF TasksInv, TasksHold

\* The loop drops the tasks that have expired.
LEMMA CleanupKeeps == ASSUME TasksInv, CleanupTasks PROVE TasksInv'
<1> DEFINE old == {i \in tasks : Expired(i)}
           places == {k \in DOMAIN order : order[k] \notin tasks \ old}
<1>1. /\ tasks' = tasks \ old /\ order' = OrderWithout(places)
      /\ sweptRunning' = sweptRunning \cup {i \in old : ~Ended(i)}
      /\ UNCHANGED <<report, madeAt, endedAt, taskNow, evicted, newerKept>>
  BY DEF CleanupTasks
<1>2. /\ tasks \subseteq Task /\ sweptRunning \subseteq Task /\ order \in Seq(Task)
      /\ madeAt \in [Task -> 0..MaxTaskTime] /\ taskNow \in 0..MaxTaskTime
  BY DEF TasksInv, TasksTypeOK
<1>3. tasks = {order[k] : k \in DOMAIN order}
  BY DEF TasksInv, TasksHold, OrderIsTheTable, ToSet
<1>4. tasks \ {order[k] : k \in places \cap DOMAIN order} = tasks \ old
  BY <1>3
<1>5. Listed(order, tasks, madeAt)
  BY OrderListed DEF TasksInv, TasksHold
<1> HIDE DEF places
<1>6. order' \in Seq(Task) /\ Listed(order', tasks', madeAt')
  BY <1>1, <1>2, <1>4, <1>5, WithoutListed
<1>7. TasksTypeOK'
  <2>1. tasks' \subseteq Task /\ sweptRunning' \subseteq Task
    BY <1>1, <1>2
  <2> QED
    BY <1>1, <1>6, <2>1 DEF TasksInv, TasksTypeOK
<1>8. IsFiniteSet(tasks') /\ Cardinality(tasks') <= Cardinality(tasks) /\ Cardinality(tasks) \in Nat
      /\ Cardinality(tasks') \in Nat
  <2>1. IsFiniteSet(tasks)
    BY DEF TasksInv, TableInv
  <2>2. tasks' \in SUBSET tasks
    BY <1>1
  <2>3. IsFiniteSet(tasks') /\ Cardinality(tasks') <= Cardinality(tasks)
    BY <2>1, <2>2, FS_Subset
  <2> QED
    BY <2>1, <2>3, FS_CardinalityType
<1>9. TableInv'
  BY <1>1, <1>8 DEF TasksInv, TableInv
<1>10. \A j \in tasks : j \in tasks' \/ Expired(j)
  BY <1>1
<1>11. RunningTasksAreFound'
  <2>1. SUFFICES ASSUME NEW j \in Task \ evicted, report[j] = "running" PROVE j \in tasks'
    BY <1>1 DEF RunningTasksAreFound
  <2>2. j \in tasks
    BY <2>1 DEF TasksInv, TasksHold, RunningTasksAreFound
  <2> QED
    BY <1>10, <2>1, <2>2 DEF Expired, Ended
<1>12. EndedTasksAreFound'
  <2>1. SUFFICES ASSUME NEW j \in Task \ evicted, Ended(j), taskNow - madeAt[j] <= TaskTTL PROVE j \in tasks'
    BY <1>1 DEF EndedTasksAreFound, Ended
  <2>2. j \in tasks
    BY <2>1 DEF TasksInv, TasksHold, EndedTasksAreFound
  <2>3. madeAt[j] \in Int /\ taskNow \in Int /\ TaskTTL \in Int
    BY <1>2, <2>1, TaskAssumption
  <2>4. ~Expired(j)
    BY <2>1, <2>3 DEF Expired
  <2> QED
    BY <1>10, <2>2, <2>4
<1>13. TableIsBounded'
  BY <1>1, <1>8, TaskAssumption DEF TasksInv, TasksHold, TableIsBounded
<1>14. OrderIsTheTable'
  BY <1>6 DEF OrderIsTheTable, Listed
<1> QED
  BY <1>7, <1>9, <1>11, <1>12, <1>13, <1>14 DEF TasksInv, TasksHold

\* Time goes on.
LEMMA TaskTickKeeps == ASSUME TasksInv, TaskTick PROVE TasksInv'
<1>1. /\ taskNow < MaxTaskTime /\ taskNow' = taskNow + 1
      /\ UNCHANGED <<tasks, order, report, madeAt, endedAt, evicted, sweptRunning, newerKept>>
  BY DEF TaskTick
<1>2. taskNow \in 0..MaxTaskTime /\ madeAt \in [Task -> 0..MaxTaskTime]
  BY DEF TasksInv, TasksTypeOK
<1>3. taskNow' \in 0..MaxTaskTime
  BY <1>1, <1>2, TaskAssumption
<1>4. TasksTypeOK'
  BY <1>1, <1>3 DEF TasksInv, TasksTypeOK
<1>5. TableInv'
  BY <1>1, <1>2, TaskAssumption DEF TasksInv, TableInv
<1>6. RunningTasksAreFound' /\ OrderIsTheTable' /\ TableIsBounded'
  BY <1>1 DEF TasksInv, TasksHold, RunningTasksAreFound, OrderIsTheTable, TableIsBounded
<1>7. EndedTasksAreFound'
  <2>0. SUFFICES ASSUME NEW j \in Task \ evicted', Ended(j)', taskNow' - madeAt'[j] <= TaskTTL
                 PROVE  j \in tasks'
    BY DEF EndedTasksAreFound
  <2>1. j \in Task \ evicted /\ Ended(j) /\ taskNow + 1 - madeAt[j] <= TaskTTL /\ tasks' = tasks
    BY <1>1, <1>2, <2>0, TaskAssumption DEF Ended
  <2>2. madeAt[j] \in Int /\ taskNow \in Int /\ TaskTTL \in Int
    BY <1>2, <2>1, TaskAssumption
  <2>3. taskNow - madeAt[j] <= TaskTTL
    BY <2>1, <2>2
  <2> QED
    BY <2>1, <2>3 DEF TasksInv, TasksHold, EndedTasksAreFound
<1> QED
  BY <1>4, <1>5, <1>6, <1>7 DEF TasksInv, TasksHold

\* Every step keeps the invariant.
LEMMA TasksKept == ASSUME TasksInv, [TasksNext]_taskVars PROVE TasksInv'
<1>1. CASE UNCHANGED taskVars
  BY <1>1
  DEF taskVars, TasksInv, TasksTypeOK, TableInv, TasksHold, OrderIsTheTable, RunningTasksAreFound,
      EndedTasksAreFound, TableIsBounded, Ended
<1>2. CASE CleanupTasks
  BY <1>2, CleanupKeeps
<1>3. CASE TaskTick
  BY <1>3, TaskTickKeeps
<1>4. ASSUME NEW i \in Task, CreateTask(i) PROVE TasksInv'
  BY <1>4, CreateTaskKeeps
<1>5. ASSUME NEW i \in Task, EndTask(i) PROVE TasksInv'
  BY <1>5, EndTaskKeeps
<1> QED
  BY <1>1, <1>2, <1>3, <1>4, <1>5, Zenon DEF TasksNext

\* The list of the tasks is the table, the oldest first; the tasks that run and those that
\* ended a short time ago are found, but for those that a full table has dropped; the table
\* is bounded and drops what is of use last (taskStore).
THEOREM TasksSafe == TasksSpec => [](TasksTypeOK /\ TasksHold)
<1>1. TasksInv => TasksTypeOK /\ TasksHold
  BY DEF TasksInv
<1> QED
  BY <1>1, TasksBegin, TasksKept, PTL DEF TasksSpec

-----------------------------------------------------------------------------
(* The installations of a JDK.                                              *)

\* A task that the node has not lost, and the places at which its JDK may be in place.
LiveInstall(j) == jdkTask[j].status \in {"pending", "running", "done", "error"}
WasPlaced == {"verify", "clean", "unlock", "end"}

\* The types of a task,
InstallTaskTyped ==
    jdkTask \in [JdkInstall -> [status : {"none", "pending", "running", "done", "error", "lost"},
                                pc : {"wait", "query", "fetch", "extract", "clear", "place", "verify",
                                      "clean", "unlock", "end"},
                                opened : JdkInstall \cup {NoInstall}]]

\* of the files, and of the rest.
InstallFilesTyped ==
    /\ target \in JdkInstall \cup {NoInstall} /\ jdkFiles \subseteq JdkFile
    /\ jdkTmp \in [JdkInstall -> SUBSET {"dir", "archive", "root", "mess"}]
InstallRestTyped ==
    /\ jdkInstallMu \in JdkInstall \cup {NoInstall}
    /\ uninstall \in [pc : {"idle", "open", "remove"}, of : JdkInstall \cup {NoInstall}]
    /\ uninstalls \in 0..MaxUninstalls /\ installFails \in 0..MaxInstallFails
    /\ disturbed \subseteq JdkInstall /\ uninstalled \subseteq JdkInstall

\* All of them.
InstallsTyped == InstallTaskTyped /\ InstallFilesTyped /\ InstallRestTyped

\* One task at a time is between the lock and its release, and how far a task is says
\* what it has made.
TurnsInv ==
    \A j \in JdkInstall :
        /\ jdkTask[j].status = "none" => jdkTask[j].pc = "wait"
        /\ jdkTask[j].status = "done" => jdkTask[j].pc \in {"clean", "unlock", "end"}
        /\ LiveInstall(j) /\ jdkTask[j].pc \notin {"wait", "end"} => jdkInstallMu = j
        /\ jdkTask[j].pc \in {"wait", "query"} => jdkTmp[j] = {}

\* What is in place, or was opened there, or is gone from there, was put there by its
\* task; what an uninstallation has opened counts as disturbed.
PlacedInv ==
    /\ \A j \in JdkInstall :
         target = j \/ uninstall.of = j \/ j \in uninstalled => jdkTask[j].pc \in WasPlaced
    /\ uninstall.of \in disturbed \cup {NoInstall}

\* Between the move of a JDK and the look at it nobody else is there.
VerifyInv ==
    \A j \in JdkInstall \ disturbed :
        JdkAt(j, "verify") => target = j /\ jdkFiles \in {JdkFile, JdkFile \ {"java"}}

\* The invariant of the installations.
InstallsInv == InstallsTyped /\ TurnsInv /\ PlacedInv /\ VerifyInv /\ InstallsHold

\* A step of runInstallJDK for j.
InstallStep(j) ==
    \/ StartInstall(j) \/ LockInstall(j) \/ QueryRelease(j) \/ FetchArchive(j) \/ ExtractArchive(j)
    \/ ClearTarget(j) \/ PlaceJdk(j) \/ VerifyJava(j) \/ CleanInstall(j) \/ UnlockInstall(j)

\* Where such a step takes the task, and what it leaves alone.
JdkMoves(j, st, pc) == jdkTask'[j].status = st /\ jdkTask'[j].pc = pc
SameTarget == target' = target /\ jdkFiles' = jdkFiles /\ disturbed' = disturbed

\* It changes this task and its temporary files only, and nothing of an uninstallation.
LEMMA InstallStepSays ==
    ASSUME InstallsTyped, NEW j \in JdkInstall, InstallStep(j)
    PROVE  /\ InstallTaskTyped'
           /\ \A k \in JdkInstall \ {j} : jdkTask'[k] = jdkTask[k] /\ jdkTmp'[k] = jdkTmp[k]
           /\ uninstall' = uninstall /\ uninstalled' = uninstalled /\ uninstalls' = uninstalls
<1>1. /\ InstallTaskTyped'
      /\ \A k \in JdkInstall \ {j} : jdkTask'[k] = jdkTask[k]
  <2>1. CASE StartInstall(j)
    BY <2>1 DEF StartInstall, InstallsTyped, InstallTaskTyped
  <2>2. CASE LockInstall(j)
    BY <2>2 DEF LockInstall, JdkEnds, InstallsTyped, InstallTaskTyped
  <2>3. CASE QueryRelease(j)
    BY <2>3 DEF QueryRelease, JdkGoes, JdkEnds, InstallsTyped, InstallTaskTyped
  <2>4. CASE FetchArchive(j)
    BY <2>4 DEF FetchArchive, JdkGoes, JdkEnds, InstallsTyped, InstallTaskTyped
  <2>5. CASE ExtractArchive(j)
    BY <2>5 DEF ExtractArchive, JdkEnds, InstallsTyped, InstallTaskTyped, InstallFilesTyped
  <2>6. CASE ClearTarget(j)
    BY <2>6 DEF ClearTarget, JdkGoes, JdkEnds, InstallsTyped, InstallTaskTyped
  <2>7. CASE PlaceJdk(j)
    BY <2>7 DEF PlaceJdk, JdkGoes, JdkEnds, InstallsTyped, InstallTaskTyped
  <2>8. CASE VerifyJava(j)
    <3>1. PICK st \in {"done", "error"} : JdkEnds(j, st, "clean")
      BY <2>8 DEF VerifyJava
    <3>2. InstallTaskTyped
      BY DEF InstallsTyped
    <3> QED
      BY <3>1, <3>2 DEF JdkEnds, InstallTaskTyped
  <2>9. CASE CleanInstall(j)
    BY <2>9 DEF CleanInstall, JdkGoes, InstallsTyped, InstallTaskTyped
  <2>10. CASE UnlockInstall(j)
    BY <2>10 DEF UnlockInstall, JdkGoes, InstallsTyped, InstallTaskTyped
  <2> QED
    BY <2>1, <2>2, <2>3, <2>4, <2>5, <2>6, <2>7, <2>8, <2>9, <2>10 DEF InstallStep
<1>2. \A k \in JdkInstall \ {j} : jdkTmp'[k] = jdkTmp[k]
  BY DEF InstallStep, StartInstall, LockInstall, QueryRelease, FetchArchive, ExtractArchive, ClearTarget,
         PlaceJdk, VerifyJava, CleanInstall, UnlockInstall, InstallsTyped, InstallFilesTyped
<1>3. uninstall' = uninstall /\ uninstalled' = uninstalled /\ uninstalls' = uninstalls
  BY DEF InstallStep, StartInstall, LockInstall, QueryRelease, FetchArchive, ExtractArchive, ClearTarget,
         PlaceJdk, VerifyJava, CleanInstall, UnlockInstall, uninstallVars, installHistory
<1> QED
  BY <1>1, <1>2, <1>3

\* Where each step begins and leads, one line for each way it may go.
LEMMA InstallMoves ==
    ASSUME InstallsTyped, NEW j \in JdkInstall, InstallStep(j)
    PROVE  \/ /\ jdkTask[j].status = "none" /\ JdkMoves(j, "pending", jdkTask[j].pc)
              /\ SameTarget /\ jdkInstallMu' = jdkInstallMu /\ jdkTmp' = jdkTmp /\ installFails' = installFails
           \/ /\ JdkAt(j, "wait") /\ JdkMoves(j, "running", "query") /\ jdkInstallMu = NoInstall
              /\ SameTarget /\ jdkInstallMu' = j /\ jdkTmp' = jdkTmp /\ installFails' = installFails
           \/ /\ JdkAt(j, "query") /\ JdkMoves(j, "error", "unlock")
              /\ SameTarget /\ jdkInstallMu' = jdkInstallMu /\ jdkTmp' = jdkTmp /\ installFails' = installFails
           \/ /\ \/ JdkAt(j, "query") /\ JdkMoves(j, jdkTask[j].status, "fetch")
                 \/ JdkAt(j, "fetch") /\ JdkMoves(j, jdkTask[j].status, "extract")
                 \/ JdkAt(j, "extract") /\ JdkMoves(j, jdkTask[j].status, "clear")
                 \/ /\ jdkTask[j].pc \in {"fetch", "extract", "clear", "place"} /\ LiveInstall(j)
                    /\ JdkMoves(j, "error", "clean")
                 \/ JdkAt(j, "clear") /\ JdkMoves(j, jdkTask[j].status, "place")
              /\ SameTarget /\ jdkInstallMu' = jdkInstallMu /\ installFails' \in {installFails, installFails + 1}
           \/ /\ JdkAt(j, "clear") /\ JdkMoves(j, jdkTask[j].status, "clear") /\ RemoveOne(jdkTask[j].opened)
              /\ disturbed' = IF jdkTask[jdkTask[j].opened].pc = "end"
                              THEN disturbed \cup {jdkTask[j].opened} ELSE disturbed
              /\ jdkInstallMu' = jdkInstallMu /\ installFails' = installFails
           \/ /\ JdkAt(j, "place") /\ JdkMoves(j, jdkTask[j].status, "verify")
              /\ target = NoInstall /\ target' = j /\ jdkFiles' \in {JdkFile, JdkFile \ {"java"}}
              /\ disturbed' = disturbed /\ jdkInstallMu' = jdkInstallMu /\ installFails' = installFails
           \/ /\ JdkAt(j, "verify") /\ JdkMoves(j, IF "java" \in jdkFiles THEN "done" ELSE "error", "clean")
              /\ SameTarget /\ jdkInstallMu' = jdkInstallMu /\ installFails' = installFails
           \/ /\ JdkAt(j, "clean") /\ JdkMoves(j, jdkTask[j].status, "unlock") /\ SameTarget
              /\ jdkInstallMu' = jdkInstallMu
              /\ \/ jdkTmp'[j] = {} /\ installFails' = installFails
                 \/ installFails' = installFails + 1
           \/ /\ JdkAt(j, "unlock") /\ JdkMoves(j, jdkTask[j].status, "end") /\ SameTarget
              /\ jdkInstallMu' = NoInstall /\ jdkTmp' = jdkTmp /\ installFails' = installFails
<1>0. jdkTask \in [JdkInstall -> [status : {"none", "pending", "running", "done", "error", "lost"},
                                  pc : {"wait", "query", "fetch", "extract", "clear", "place", "verify",
                                        "clean", "unlock", "end"},
                                  opened : JdkInstall \cup {NoInstall}]]
      /\ jdkTmp \in [JdkInstall -> SUBSET {"dir", "archive", "root", "mess"}]
  BY DEF InstallsTyped, InstallTaskTyped, InstallFilesTyped
<1>1. CASE StartInstall(j)
  BY <1>0, <1>1 DEF StartInstall, JdkMoves, SameTarget, installHistory
<1>2. CASE LockInstall(j)
  BY <1>0, <1>2 DEF LockInstall, MayInstall, JdkEnds, JdkMoves, SameTarget, installHistory
<1>3. CASE QueryRelease(j)
  BY <1>0, <1>3 DEF QueryRelease, JdkGoes, JdkEnds, JdkMoves, SameTarget, installHistory
<1>4. CASE FetchArchive(j)
  BY <1>0, <1>4 DEF FetchArchive, JdkGoes, JdkEnds, JdkAt, JdkMoves, SameTarget, installHistory, LiveInstall
<1>5. CASE ExtractArchive(j)
  BY <1>0, <1>5 DEF ExtractArchive, JdkEnds, JdkAt, JdkMoves, SameTarget, installHistory, LiveInstall
<1>6. CASE ClearTarget(j)
  <2>1. CASE RemoveOne(jdkTask[j].opened) /\ UNCHANGED <<jdkTask, installFails>>
             /\ disturbed' = IF jdkTask[jdkTask[j].opened].pc = "end"
                             THEN disturbed \cup {jdkTask[j].opened} ELSE disturbed
    BY <1>6, <2>1 DEF ClearTarget, JdkAt, JdkMoves
  <2>2. CASE SameTarget /\ JdkGoes(j, "place") /\ installFails' = installFails
    BY <1>0, <1>6, <2>2 DEF ClearTarget, JdkGoes, JdkAt, JdkMoves
  <2>3. CASE SameTarget /\ JdkEnds(j, "error", "clean") /\ installFails' \in {installFails, installFails + 1}
    BY <1>0, <1>6, <2>3 DEF ClearTarget, JdkEnds, JdkAt, JdkMoves, LiveInstall
  <2> QED
    BY <1>6, <2>1, <2>2, <2>3 DEF ClearTarget, SameTarget, InstallFail
<1>7. CASE PlaceJdk(j)
  <2>1. CASE SameTarget /\ JdkEnds(j, "error", "clean")
    BY <1>0, <1>7, <2>1 DEF PlaceJdk, JdkEnds, JdkAt, JdkMoves, LiveInstall
  <2>2. CASE target = NoInstall /\ target' = j /\ jdkFiles' \in {JdkFile, JdkFile \ {"java"}} /\ JdkGoes(j, "verify")
    BY <1>0, <1>7, <2>2 DEF PlaceJdk, JdkGoes, JdkMoves, installHistory
  <2> QED
    BY <1>7, <2>1, <2>2 DEF PlaceJdk, SameTarget, installHistory
<1>8. CASE VerifyJava(j)
  BY <1>0, <1>8 DEF VerifyJava, JdkEnds, JdkMoves, SameTarget, installHistory
<1>9. CASE CleanInstall(j)
  BY <1>0, <1>9 DEF CleanInstall, JdkGoes, JdkMoves, SameTarget, installHistory, InstallFail
<1>10. CASE UnlockInstall(j)
  BY <1>0, <1>10 DEF UnlockInstall, JdkGoes, JdkMoves, SameTarget, installHistory
<1> QED
  BY <1>1, <1>2, <1>3, <1>4, <1>5, <1>6, <1>7, <1>8, <1>9, <1>10 DEF InstallStep

\* The lock passes from one to the next.
LEMMA InstallMuMoves ==
    ASSUME InstallsInv, NEW j \in JdkInstall, InstallStep(j)
    PROVE  \/ jdkInstallMu' = jdkInstallMu
           \/ jdkInstallMu = NoInstall /\ jdkInstallMu' = j
           \/ jdkInstallMu = j /\ jdkInstallMu' = NoInstall /\ jdkTask'[j].pc = "end"
<1>1. InstallsTyped
  BY DEF InstallsInv
<1>2. JdkAt(j, "unlock") => jdkInstallMu = j
  BY DEF InstallsInv, TurnsInv, JdkAt, LiveInstall
<1> QED
  BY <1>1, <1>2, InstallMoves DEF JdkMoves

\* TurnsInv is kept: by the task that moves,
LEMMA OwnTurnKept ==
    ASSUME InstallsInv, NEW j \in JdkInstall, InstallStep(j)
    PROVE  /\ jdkTask'[j].status # "none"
           /\ jdkTask'[j].status = "done" => jdkTask'[j].pc \in {"clean", "unlock", "end"}
           /\ LiveInstall(j)' /\ jdkTask'[j].pc \notin {"wait", "end"} => jdkInstallMu' = j
           /\ jdkTask'[j].pc \in {"wait", "query"} => jdkTmp'[j] = {}
<1>1. InstallsTyped
  BY DEF InstallsInv
<1>2. /\ jdkTask[j].status = "none" => jdkTask[j].pc = "wait"
      /\ jdkTask[j].status = "done" => jdkTask[j].pc \in {"clean", "unlock", "end"}
      /\ LiveInstall(j) /\ jdkTask[j].pc \notin {"wait", "end"} => jdkInstallMu = j
      /\ jdkTask[j].pc \in {"wait", "query"} => jdkTmp[j] = {}
  BY DEF InstallsInv, TurnsInv
<1> QED
  BY <1>1, <1>2, InstallMoves DEF JdkMoves, JdkAt, LiveInstall

\* and for the others.
LEMMA TurnsKept ==
    ASSUME InstallsInv, NEW j \in JdkInstall, InstallStep(j)
    PROVE  TurnsInv'
<1>1. \A k \in JdkInstall \ {j} : jdkTask'[k] = jdkTask[k] /\ jdkTmp'[k] = jdkTmp[k]
  BY InstallStepSays DEF InstallsInv
<1>2. \A k \in JdkInstall \ {j} :
         LiveInstall(k) /\ jdkTask[k].pc \notin {"wait", "end"} => jdkInstallMu' = k
  <2>1. \A k \in JdkInstall : LiveInstall(k) /\ jdkTask[k].pc \notin {"wait", "end"} => jdkInstallMu = k
    BY DEF InstallsInv, TurnsInv
  <2>2. NoInstall \notin JdkInstall
    BY InstallAssumption DEF NoInstall
  <2> QED
    BY <2>1, <2>2, InstallMuMoves
<1>3. \A k \in JdkInstall \ {j} :
        /\ jdkTask'[k].status = "none" => jdkTask'[k].pc = "wait"
        /\ jdkTask'[k].status = "done" => jdkTask'[k].pc \in {"clean", "unlock", "end"}
        /\ LiveInstall(k)' /\ jdkTask'[k].pc \notin {"wait", "end"} => jdkInstallMu' = k
        /\ jdkTask'[k].pc \in {"wait", "query"} => jdkTmp'[k] = {}
  BY <1>1, <1>2 DEF InstallsInv, TurnsInv, LiveInstall
<1> QED
  BY <1>3, OwnTurnKept DEF TurnsInv

\* What is in place: either a step leaves it, or it removes a file of it, of which the
\* task has ended, or it puts its own where there is none.
LEMMA TargetMoves ==
    ASSUME InstallsInv, NEW j \in JdkInstall, InstallStep(j)
    PROVE  \/ SameTarget
           \/ /\ target \in JdkInstall /\ target' \in {target, NoInstall}
              /\ target \in disturbed' \/ jdkTask[target].status = "lost"
              /\ target # j /\ disturbed \subseteq disturbed' /\ JdkAt(j, "clear") /\ jdkTask'[j].pc = "clear"
           \/ /\ target = NoInstall /\ target' = j /\ jdkFiles' \in {JdkFile, JdkFile \ {"java"}}
              /\ disturbed' = disturbed /\ JdkAt(j, "place") /\ jdkTask'[j].pc = "verify"
<1>0. InstallsTyped
  BY DEF InstallsInv
<1>1. CASE JdkAt(j, "clear") /\ JdkMoves(j, jdkTask[j].status, "clear") /\ RemoveOne(jdkTask[j].opened)
           /\ disturbed' = IF jdkTask[jdkTask[j].opened].pc = "end"
                           THEN disturbed \cup {jdkTask[j].opened} ELSE disturbed
  <2>1. /\ target = jdkTask[j].opened /\ target # NoInstall /\ target \in JdkInstall
        /\ target' \in {target, NoInstall}
    BY <1>0, <1>1 DEF RemoveOne, InstallsTyped, InstallFilesTyped
  <2>2. jdkTask[target].pc \in WasPlaced /\ jdkTask[j].pc = "clear"
    BY <1>1, <2>1 DEF InstallsInv, PlacedInv, JdkAt
  <2>3. target # j
    BY <2>2 DEF WasPlaced
  <2>4. jdkInstallMu = j
    BY <1>1 DEF InstallsInv, TurnsInv, JdkAt, LiveInstall
  <2>5. LiveInstall(target) => jdkTask[target].pc \in {"wait", "end"}
    BY <2>1, <2>3, <2>4 DEF InstallsInv, TurnsInv
  <2>6. jdkTask[target].status \in {"none", "pending", "running", "done", "error", "lost"}
        /\ (jdkTask[target].status = "none" => jdkTask[target].pc = "wait")
    BY <1>0, <2>1 DEF InstallsTyped, InstallTaskTyped, InstallsInv, TurnsInv
  <2>7. jdkTask[target].status = "lost" \/ jdkTask[target].pc = "end"
    BY <2>2, <2>5, <2>6 DEF WasPlaced, LiveInstall
  <2>8. target \in disturbed' \/ jdkTask[target].status = "lost"
    BY <1>1, <2>1, <2>7
  <2> QED
    BY <1>1, <2>1, <2>3, <2>8 DEF JdkMoves
<1>2. CASE JdkAt(j, "place") /\ JdkMoves(j, jdkTask[j].status, "verify")
           /\ target = NoInstall /\ target' = j /\ jdkFiles' \in {JdkFile, JdkFile \ {"java"}}
           /\ disturbed' = disturbed
  BY <1>2 DEF JdkMoves
<1> QED
  BY <1>0, <1>1, <1>2, InstallMoves

\* A task whose JDK was put in place stays beyond that.
LEMMA PlacedStays ==
    ASSUME InstallsInv, NEW j \in JdkInstall, InstallStep(j), jdkTask[j].pc \in WasPlaced
    PROVE  jdkTask'[j].pc \in WasPlaced
<1>1. InstallsTyped /\ (jdkTask[j].status = "none" => jdkTask[j].pc = "wait")
  BY DEF InstallsInv, TurnsInv
<1> QED
  BY <1>1, InstallMoves DEF JdkMoves, JdkAt, WasPlaced

\* PlacedInv is kept by an installation.
LEMMA PlacedKept ==
    ASSUME InstallsInv, NEW j \in JdkInstall, InstallStep(j)
    PROVE  PlacedInv'
<1>1. /\ \A k \in JdkInstall \ {j} : jdkTask'[k] = jdkTask[k]
      /\ uninstall' = uninstall /\ uninstalled' = uninstalled
  BY InstallStepSays DEF InstallsInv
<1>2. \A k \in JdkInstall : target = k \/ uninstall.of = k \/ k \in uninstalled => jdkTask[k].pc \in WasPlaced
  BY DEF InstallsInv, PlacedInv
<1>3. \A k \in JdkInstall : jdkTask[k].pc \in WasPlaced => jdkTask'[k].pc \in WasPlaced
  BY <1>1, PlacedStays
<1>4. \A k \in JdkInstall : target' = k => jdkTask'[k].pc \in WasPlaced
  <2>1. NoInstall \notin JdkInstall
    BY InstallAssumption DEF NoInstall
  <2>2. target' = target \/ target' = NoInstall \/ (target' = j /\ jdkTask'[j].pc = "verify")
    BY TargetMoves DEF SameTarget
  <2> QED
    BY <1>2, <1>3, <2>1, <2>2 DEF WasPlaced
<1>5. disturbed \subseteq disturbed'
  BY TargetMoves DEF SameTarget
<1>6. uninstall.of \in disturbed' \cup {NoInstall}
  BY <1>5 DEF InstallsInv, PlacedInv
<1> QED
  BY <1>1, <1>2, <1>3, <1>4, <1>6 DEF PlacedInv

\* VerifyInv and DoneIsInPlace are kept by an installation: what is taken away is not
\* the JDK of a task that is done.
LEMMA InPlaceKept ==
    ASSUME InstallsInv, NEW j \in JdkInstall, InstallStep(j)
    PROVE  VerifyInv' /\ DoneIsInPlace'
<1>0. InstallsTyped /\ NoInstall \notin JdkInstall
  BY InstallAssumption DEF NoInstall, InstallsInv
<1>1. \A k \in JdkInstall \ {j} : jdkTask'[k] = jdkTask[k]
  BY <1>0, InstallStepSays
<1>2. disturbed \subseteq disturbed'
  BY TargetMoves DEF SameTarget
<1>3. \A k \in JdkInstall \ disturbed : JdkAt(k, "verify") => target = k /\ jdkFiles \in {JdkFile, JdkFile \ {"java"}}
  BY DEF InstallsInv, VerifyInv
<1>4. \A k \in JdkInstall \ disturbed : jdkTask[k].status = "done" => target = k /\ jdkFiles = JdkFile
  BY DEF InstallsInv, InstallsHold, DoneIsInPlace
<1>5. \A k \in JdkInstall \ disturbed' :
         /\ jdkTask[k].status = "done" => target' = k /\ jdkFiles' = JdkFile
         /\ JdkAt(k, "verify") => target' = k /\ jdkFiles' \in {JdkFile, JdkFile \ {"java"}}
  BY <1>0, <1>2, <1>3, <1>4, TargetMoves DEF SameTarget, JdkAt
<1>6. \A k \in JdkInstall \ ({j} \cup disturbed') :
         /\ jdkTask'[k].status = "done" => target' = k /\ jdkFiles' = JdkFile
         /\ JdkAt(k, "verify")' => target' = k /\ jdkFiles' \in {JdkFile, JdkFile \ {"java"}}
  BY <1>1, <1>5 DEF JdkAt
<1>7. jdkTask'[j].pc = "verify" => target' = j /\ jdkFiles' \in {JdkFile, JdkFile \ {"java"}}
  <2>1. jdkTask[j].status = "none" => jdkTask[j].pc = "wait"
    BY DEF InstallsInv, TurnsInv
  <2> QED
    BY <1>0, <2>1, InstallMoves DEF JdkMoves
<1>8. j \notin disturbed' /\ jdkTask'[j].status = "done" => target' = j /\ jdkFiles' = JdkFile
  <2>1. CASE jdkTask[j].status = "done"
    BY <1>5, <2>1
  <2>2. CASE jdkTask[j].status # "done"
    <3>1. jdkTask'[j].status = "done" => JdkAt(j, "verify") /\ SameTarget /\ "java" \in jdkFiles
      BY <1>0, <2>2, InstallMoves DEF JdkMoves
    <3>2. "java" \in jdkFiles /\ jdkFiles \in {JdkFile, JdkFile \ {"java"}} => jdkFiles = JdkFile
      OBVIOUS
    <3> QED
      BY <1>2, <1>3, <3>1, <3>2 DEF SameTarget
  <2> QED
    BY <2>1, <2>2
<1>9. VerifyInv'
  BY <1>6, <1>7 DEF VerifyInv, JdkAt
<1>10. DoneIsInPlace'
  BY <1>6, <1>8 DEF DoneIsInPlace
<1> QED
  BY <1>9, <1>10

\* The other properties and the rest of the types are kept by an installation.
LEMMA InstallRestKept ==
    ASSUME InstallsInv, NEW j \in JdkInstall, InstallStep(j)
    PROVE  InstallFilesTyped' /\ InstallRestTyped' /\ UninstalledIsGone' /\ EndsLeaveNoTemp'
<1>0. InstallsTyped /\ NoInstall \notin JdkInstall
  BY InstallAssumption DEF NoInstall, InstallsInv
<1>1. /\ \A k \in JdkInstall \ {j} : jdkTask'[k] = jdkTask[k] /\ jdkTmp'[k] = jdkTmp[k]
      /\ uninstall' = uninstall /\ uninstalled' = uninstalled /\ uninstalls' = uninstalls
  BY <1>0, InstallStepSays
<1>2. InstallFilesTyped'
  <2>1. target' \in JdkInstall \cup {NoInstall}
    BY <1>0, TargetMoves DEF SameTarget, InstallsTyped, InstallFilesTyped
  <2>2. jdkFiles' \subseteq JdkFile
    BY <1>0 DEF InstallStep, StartInstall, LockInstall, QueryRelease, FetchArchive, ExtractArchive, ClearTarget,
           PlaceJdk, VerifyJava, CleanInstall, UnlockInstall, RemoveOne, InstallsTyped, InstallFilesTyped
  <2>3. jdkTmp' \in [JdkInstall -> SUBSET {"dir", "archive", "root", "mess"}]
    BY <1>0 DEF InstallStep, StartInstall, LockInstall, QueryRelease, FetchArchive, ExtractArchive, ClearTarget,
           PlaceJdk, VerifyJava, CleanInstall, UnlockInstall, InstallsTyped, InstallFilesTyped
  <2> QED
    BY <2>1, <2>2, <2>3 DEF InstallFilesTyped
<1>3. InstallRestTyped'
  <2>1. jdkInstallMu' \in JdkInstall \cup {NoInstall}
    BY <1>0, InstallMuMoves DEF InstallsTyped, InstallRestTyped
  <2>2. installFails' \in 0..MaxInstallFails
    <3>1. installFails' = installFails \/ InstallFail
      BY DEF InstallStep, StartInstall, LockInstall, QueryRelease, FetchArchive, ExtractArchive, ClearTarget,
             PlaceJdk, VerifyJava, CleanInstall, UnlockInstall
    <3> QED
      BY <1>0, <3>1, InstallAssumption DEF InstallFail, InstallsTyped, InstallRestTyped
  <2>3. disturbed' \subseteq JdkInstall
    <3>1. disturbed' = disturbed \/ (disturbed' \subseteq disturbed \cup {target} /\ target \in JdkInstall)
      BY <1>0 DEF InstallStep, StartInstall, LockInstall, QueryRelease, FetchArchive, ExtractArchive, ClearTarget,
             PlaceJdk, VerifyJava, CleanInstall, UnlockInstall, installHistory, RemoveOne, InstallsTyped,
             InstallFilesTyped
    <3> QED
      BY <1>0, <3>1 DEF InstallsTyped, InstallRestTyped
  <2> QED
    BY <1>0, <1>1, <2>1, <2>2, <2>3 DEF InstallsTyped, InstallRestTyped
<1>4. UninstalledIsGone'
  <2>1. target \notin uninstalled /\ uninstalled \subseteq JdkInstall
    BY <1>0 DEF InstallsInv, InstallsHold, UninstalledIsGone, InstallsTyped, InstallRestTyped
  <2>2. JdkAt(j, "place") => j \notin uninstalled
    BY DEF InstallsInv, PlacedInv, JdkAt, WasPlaced
  <2>3. target' \in {target, NoInstall} \/ (target' = j /\ JdkAt(j, "place"))
    BY TargetMoves DEF SameTarget
  <2> QED
    BY <1>0, <1>1, <2>1, <2>2, <2>3 DEF UninstalledIsGone
<1>5. EndsLeaveNoTemp'
  <2>0. installFails \in Nat
    BY <1>0, InstallAssumption DEF InstallsTyped, InstallRestTyped
  <2>1. /\ installFails = 0 => \A k \in JdkInstall : JdkAt(k, "unlock") \/ JdkAt(k, "end") => jdkTmp[k] = {}
        /\ jdkTask[j].pc \in {"wait", "query"} => jdkTmp[j] = {}
        /\ jdkTask[j].status = "none" => jdkTask[j].pc = "wait"
    BY DEF InstallsInv, InstallsHold, EndsLeaveNoTemp, TurnsInv
  <2>2. installFails' = 0 => installFails = 0
    BY <1>0, <2>0, InstallMoves
  <2>3. installFails' = 0 /\ jdkTask'[j].pc \in {"unlock", "end"} => jdkTmp'[j] = {}
    BY <1>0, <2>0, <2>1, InstallMoves DEF JdkMoves, JdkAt
  <2> QED
    BY <1>1, <2>1, <2>2, <2>3 DEF EndsLeaveNoTemp, JdkAt
<1> QED
  BY <1>2, <1>3, <1>4, <1>5

\* An installation keeps the invariant.
LEMMA InstallKeeps ==
    ASSUME InstallsInv, NEW j \in JdkInstall, InstallStep(j)
    PROVE  InstallsInv'
<1>1. InstallTaskTyped'
  BY InstallStepSays DEF InstallsInv
<1> QED
  BY <1>1, TurnsKept, PlacedKept, InPlaceKept, InstallRestKept DEF InstallsInv, InstallsTyped, InstallsHold

\* So does an uninstallation, which removes what it has opened and marked,
LEMMA UninstallKeeps ==
    ASSUME InstallsInv, FindJdk \/ OpenJdk \/ RemoveJdk \/ EndUninstall
    PROVE  InstallsInv'
<1>0. InstallsTyped /\ NoInstall \notin JdkInstall
  BY InstallAssumption DEF NoInstall, InstallsInv
<1>1. jdkTask' = jdkTask /\ jdkTmp' = jdkTmp /\ jdkInstallMu' = jdkInstallMu
  BY DEF FindJdk, OpenJdk, RemoveJdk, EndUninstall, jdkVars
<1>2. /\ target' \in {target, NoInstall} /\ disturbed \subseteq disturbed' /\ disturbed' \subseteq JdkInstall
      /\ jdkFiles' \subseteq JdkFile
      /\ (target' = target /\ jdkFiles' = jdkFiles) \/ target \in disturbed'
  <2>1. CASE FindJdk \/ EndUninstall
    BY <1>0, <2>1 DEF FindJdk, EndUninstall, jdkVars, installHistory, InstallsTyped, InstallFilesTyped, InstallRestTyped
  <2>2. CASE OpenJdk
    BY <1>0, <2>2 DEF OpenJdk, jdkVars, InstallsTyped, InstallFilesTyped, InstallRestTyped
  <2>3. CASE RemoveJdk
    <3>1. target = uninstall.of /\ target # NoInstall /\ target' \in {target, NoInstall} /\ jdkFiles' \subseteq jdkFiles
          /\ disturbed' = disturbed
      BY <2>3 DEF RemoveJdk, RemoveOne, installHistory
    <3> QED
      BY <1>0, <3>1 DEF InstallsTyped, InstallFilesTyped, InstallRestTyped, InstallsInv, PlacedInv
  <2> QED
    BY <2>1, <2>2, <2>3
<1>3. /\ uninstall'.of \in {uninstall.of, target, NoInstall}
      /\ uninstall'.of \in disturbed' \cup {NoInstall}
      /\ uninstall' \in [pc : {"idle", "open", "remove"}, of : JdkInstall \cup {NoInstall}]
  <2>0. uninstall \in [pc : {"idle", "open", "remove"}, of : JdkInstall \cup {NoInstall}]
        /\ uninstall.of \in disturbed \cup {NoInstall} /\ target \in JdkInstall \cup {NoInstall}
    BY <1>0 DEF InstallsTyped, InstallRestTyped, InstallFilesTyped, InstallsInv, PlacedInv
  <2>1. CASE FindJdk
    BY <1>2, <2>0, <2>1 DEF FindJdk
  <2>2. CASE OpenJdk
    BY <1>2, <2>0, <2>2 DEF OpenJdk
  <2>3. CASE RemoveJdk
    BY <1>2, <2>0, <2>3 DEF RemoveJdk, uninstallVars
  <2>4. CASE EndUninstall
    BY <1>2, <2>0, <2>4 DEF EndUninstall
  <2> QED
    BY <2>1, <2>2, <2>3, <2>4
<1>4. /\ uninstalled' = uninstalled \/ (target = NoInstall /\ target' = NoInstall /\ uninstalled' = uninstalled \cup ({uninstall.of} \ {NoInstall}))
      /\ uninstalls' \in 0..MaxUninstalls /\ installFails' \in {installFails, installFails + 1}
      /\ installFails' \in 0..MaxInstallFails
  <2>1. uninstalls \in 0..MaxUninstalls /\ installFails \in 0..MaxInstallFails
    BY <1>0 DEF InstallsTyped, InstallRestTyped
  <2>2. CASE FindJdk
    BY <2>1, <2>2, InstallAssumption DEF FindJdk, installHistory
  <2>3. CASE OpenJdk
    BY <2>1, <2>3 DEF OpenJdk
  <2>4. CASE RemoveJdk
    BY <2>1, <2>4 DEF RemoveJdk, uninstallVars, installHistory
  <2>5. CASE EndUninstall
    BY <2>1, <2>5, InstallAssumption DEF EndUninstall, RemovedJdk, InstallFail, jdkVars
  <2> QED
    BY <2>2, <2>3, <2>4, <2>5
<1>5. InstallsTyped'
  BY <1>0, <1>1, <1>2, <1>3, <1>4 DEF InstallsTyped, InstallTaskTyped, InstallFilesTyped, InstallRestTyped
<1>6. TurnsInv'
  BY <1>1 DEF InstallsInv, TurnsInv, LiveInstall
<1>7. PlacedInv'
  BY <1>0, <1>1, <1>2, <1>3, <1>4 DEF InstallsInv, PlacedInv
<1>8. VerifyInv'
  BY <1>1, <1>2 DEF InstallsInv, VerifyInv, JdkAt
<1>9. DoneIsInPlace'
  BY <1>1, <1>2 DEF InstallsInv, InstallsHold, DoneIsInPlace
<1>10. UninstalledIsGone'
  BY <1>0, <1>2, <1>4 DEF InstallsInv, InstallsHold, UninstalledIsGone, InstallsTyped, InstallRestTyped
<1>11. EndsLeaveNoTemp'
  <2>1. installFails \in Nat
    BY <1>0, InstallAssumption DEF InstallsTyped, InstallRestTyped
  <2> QED
    BY <1>1, <1>4, <2>1 DEF InstallsInv, InstallsHold, EndsLeaveNoTemp, JdkAt
<1> QED
  BY <1>5, <1>6, <1>7, <1>8, <1>9, <1>10, <1>11 DEF InstallsInv, InstallsHold

\* and a crash, which leaves the files and loses the tasks.
LEMMA LoseInstallsKeeps ==
    ASSUME InstallsInv, LoseInstalls
    PROVE  InstallsInv'
<1>0. InstallsTyped /\ NoInstall \notin JdkInstall
  BY InstallAssumption DEF NoInstall, InstallsInv
<1>1. /\ InstallTaskTyped'
      /\ \A j \in JdkInstall : /\ jdkTask'[j].pc = jdkTask[j].pc
                               /\ jdkTask'[j].status \in {"none", "lost"}
                               /\ jdkTask'[j].status = "none" => jdkTask[j].status = "none"
  BY <1>0 DEF LoseInstalls, InstallsTyped, InstallTaskTyped
<1>2. /\ jdkInstallMu' = NoInstall /\ uninstall' = [pc |-> "idle", of |-> NoInstall]
      /\ jdkTmp' = jdkTmp /\ target' = target /\ jdkFiles' = jdkFiles /\ uninstalls' = uninstalls
      /\ disturbed' = disturbed /\ uninstalled' = uninstalled
      /\ installFails' = installFails + 1 /\ installFails' \in 0..MaxInstallFails /\ installFails \in Nat
  BY <1>0, InstallAssumption DEF LoseInstalls, InstallFail, installHistory, InstallsTyped, InstallRestTyped
<1>3. InstallsTyped'
  <2>1. uninstall' \in [pc : {"idle", "open", "remove"}, of : JdkInstall \cup {NoInstall}]
    BY <1>2
  <2> QED
    BY <1>0, <1>1, <1>2, <2>1 DEF InstallsTyped, InstallFilesTyped, InstallRestTyped
<1>4. TurnsInv'
  BY <1>1, <1>2 DEF InstallsInv, TurnsInv, LiveInstall
<1>5. PlacedInv'
  BY <1>0, <1>1, <1>2 DEF InstallsInv, PlacedInv
<1>6. VerifyInv'
  BY <1>1 DEF VerifyInv, JdkAt
<1>7. InstallsHold'
  BY <1>1, <1>2 DEF InstallsInv, InstallsHold, DoneIsInPlace, UninstalledIsGone, EndsLeaveNoTemp
<1> QED
  BY <1>3, <1>4, <1>5, <1>6, <1>7 DEF InstallsInv

\* The installations begin so,
LEMMA InstallsBegin == InstallsInit => InstallsInv
<1> SUFFICES ASSUME InstallsInit PROVE InstallsInv
  OBVIOUS
<1>1. /\ \A j \in JdkInstall : jdkTask[j].status = "none" /\ jdkTask[j].pc = "wait" /\ jdkTmp[j] = {}
      /\ InstallTaskTyped
  BY DEF InstallsInit, InstallTaskTyped
<1>2. target = NoInstall /\ uninstall.of = NoInstall /\ uninstalled = {} /\ NoInstall \notin JdkInstall
  BY InstallAssumption DEF InstallsInit, NoInstall
<1>3. InstallsTyped
  BY <1>1, InstallAssumption DEF InstallsInit, InstallsTyped, InstallFilesTyped, InstallRestTyped
<1>4. TurnsInv /\ PlacedInv /\ VerifyInv
  BY <1>1, <1>2 DEF TurnsInv, PlacedInv, VerifyInv, LiveInstall, JdkAt
<1>5. InstallsHold
  BY <1>1, <1>2 DEF InstallsHold, DoneIsInPlace, UninstalledIsGone, EndsLeaveNoTemp
<1> QED
  BY <1>3, <1>4, <1>5 DEF InstallsInv

\* and every step of them keeps it so.
LEMMA InstallsStay == ASSUME InstallsInv, [InstallsNext]_installVars PROVE InstallsInv'
<1>1. CASE LoseInstalls
  BY <1>1, LoseInstallsKeeps
<1>2. CASE FindJdk \/ OpenJdk \/ RemoveJdk \/ EndUninstall
  BY <1>2, UninstallKeeps
<1>3. ASSUME NEW j \in JdkInstall, InstallStep(j) PROVE InstallsInv'
  BY <1>3, InstallKeeps
<1>4. CASE UNCHANGED installVars
  BY <1>4 DEF installVars, jdkVars, uninstallVars, installHistory, InstallsInv, InstallsTyped, InstallTaskTyped,
       InstallFilesTyped, InstallRestTyped, TurnsInv, PlacedInv, VerifyInv, LiveInstall, JdkAt, InstallsHold,
       DoneIsInPlace, UninstalledIsGone, EndsLeaveNoTemp
<1> QED
  BY <1>1, <1>2, <1>3, <1>4, Zenon DEF InstallsNext, InstallStep

\* InstallsHold, and the types: what is done is in place and what was uninstalled is
\* gone, however many installations and uninstallations meet.
THEOREM InstallsSafe == InstallsSpec => [](InstallsTypeOK /\ InstallsHold)
<1>1. InstallsInv => InstallsTypeOK /\ InstallsHold
  BY DEF InstallsInv, InstallsTyped, InstallTaskTyped, InstallFilesTyped, InstallRestTyped, InstallsTypeOK
<1> QED
  BY <1>1, InstallsBegin, InstallsStay, PTL DEF InstallsSpec

-----------------------------------------------------------------------------
(* The downloads of server programs.                                        *)

\* The types: of a task,
CoreTaskTyped ==
    coreTask \in [CoreDownload -> [status : {"none", "running", "done", "error", "lost"},
                                   pc : {"ask", "write", "check", "place", "clean", "end"}, sha : BOOLEAN]]

\* and of the files.
CoreFilesTyped == partFile \in [CoreDownload -> Content] /\ dest \in Content /\ coreFails \in 0..MaxCoreFails

\* What is in the temporary file of a task, as far as it is.
PartsInv ==
    \A i \in CoreDownload :
        /\ coreTask[i].status = "none" => coreTask[i].pc = "ask"
        /\ coreTask[i].pc = "ask" => partFile[i] = "absent"
        /\ coreTask[i].pc \in {"check", "place"} => partFile[i] \in {"whole", "other"}
        /\ coreTask[i].pc = "place" /\ coreTask[i].sha => partFile[i] = "whole"

\* The invariant of the downloads.
CoresInv == CoreTaskTyped /\ CoreFilesTyped /\ PartsInv /\ CoresHold

\* A step of a task changes its own status and place, and no sum.
LEMMA CoreGoesSays ==
    ASSUME CoreTaskTyped, NEW i \in CoreDownload,
           NEW st \in {"none", "running", "done", "error", "lost"},
           NEW pc \in {"ask", "write", "check", "place", "clean", "end"},
           coreTask' = [coreTask EXCEPT ![i].status = st, ![i].pc = pc]
    PROVE  /\ CoreTaskTyped'
           /\ coreTask'[i].status = st /\ coreTask'[i].pc = pc /\ coreTask'[i].sha = coreTask[i].sha
           /\ \A d \in CoreDownload \ {i} : coreTask'[d] = coreTask[d]
BY DEF CoreTaskTyped

\* CoreGoes is such a step, which leaves the status.
LEMMA CoreGoesIs ==
    ASSUME CoreTaskTyped, NEW i \in CoreDownload, NEW pc, CoreGoes(i, pc)
    PROVE  coreTask' = [coreTask EXCEPT ![i].status = coreTask[i].status, ![i].pc = pc]
BY DEF CoreGoes, CoreTaskTyped

\* Each action moves one task, or loses them all.
LEMMA CoreStep ==
    ASSUME CoresInv, NEW i \in CoreDownload,
           StartCore(i) \/ AskForCore(i) \/ WriteCore(i) \/ CheckCore(i) \/ PlaceCore(i) \/ CleanCore(i)
    PROVE  /\ CoreTaskTyped'
           /\ coreTask'[i].sha = coreTask[i].sha
           /\ \A d \in CoreDownload \ {i} : coreTask'[d] = coreTask[d] /\ partFile'[d] = partFile[d]
           /\ CoreFilesTyped'
<1>1. /\ coreTask[i].status \in {"none", "running", "done", "error", "lost"}
      /\ coreTask[i].pc \in {"ask", "write", "check", "place", "clean", "end"}
  BY DEF CoresInv, CoreTaskTyped
<1>2. \E st \in {"none", "running", "done", "error", "lost"}, pc \in {"ask", "write", "check", "place", "clean", "end"} :
         coreTask' = [coreTask EXCEPT ![i].status = st, ![i].pc = pc]
  <2>1. ASSUME NEW pc \in {"ask", "write", "check", "place", "clean", "end"}, CoreGoes(i, pc)
        PROVE  coreTask' = [coreTask EXCEPT ![i].status = coreTask[i].status, ![i].pc = pc]
    BY <2>1, CoreGoesIs DEF CoresInv
  <2>2. CASE StartCore(i)
    <3>1. coreTask' = [coreTask EXCEPT ![i].status = "running", ![i].pc = coreTask[i].pc]
      <4>1. coreTask' = [coreTask EXCEPT ![i].status = "running"] /\ CoreTaskTyped
        BY <2>2 DEF StartCore, CoresInv
      <4> QED
        BY <4>1 DEF CoreTaskTyped
    <3> QED
      BY <1>1, <3>1
  <2>3. CASE AskForCore(i)
    BY <1>1, <2>1, <2>3 DEF AskForCore, CoreEnds
  <2>4. CASE WriteCore(i)
    BY <1>1, <2>1, <2>4 DEF WriteCore, CoreEnds
  <2>5. CASE CheckCore(i)
    BY <1>1, <2>1, <2>5 DEF CheckCore, CoreEnds
  <2>6. CASE PlaceCore(i)
    BY <1>1, <2>1, <2>6 DEF PlaceCore, CoreEnds
  <2>7. CASE CleanCore(i)
    BY <1>1, <2>1, <2>7 DEF CleanCore
  <2> QED
    BY <2>2, <2>3, <2>4, <2>5, <2>6, <2>7
<1>3. /\ CoreTaskTyped' /\ coreTask'[i].sha = coreTask[i].sha
      /\ \A d \in CoreDownload \ {i} : coreTask'[d] = coreTask[d]
  <2>1. PICK st \in {"none", "running", "done", "error", "lost"},
             pc \in {"ask", "write", "check", "place", "clean", "end"} :
           coreTask' = [coreTask EXCEPT ![i].status = st, ![i].pc = pc]
    BY <1>2
  <2>2. CoreTaskTyped
    BY DEF CoresInv
  <2> QED
    BY <2>1, <2>2, CoreGoesSays
<1>4. \E was \in Content : partFile' = [partFile EXCEPT ![i] = was]
  <2>1. partFile \in [CoreDownload -> Content] /\ partFile = [partFile EXCEPT ![i] = partFile[i]]
    BY DEF CoresInv, CoreFilesTyped
  <2> QED
    BY <2>1 DEF StartCore, AskForCore, WriteCore, CheckCore, PlaceCore, CleanCore, PartOf, Content
<1>5. dest' \in Content /\ coreFails' \in 0..MaxCoreFails
  <2>1. dest' \in {dest, partFile[i]}
    BY DEF StartCore, AskForCore, WriteCore, CheckCore, PlaceCore, CleanCore, PartOf
  <2>2. coreFails' = coreFails \/ CoreFail
    BY DEF StartCore, AskForCore, WriteCore, CheckCore, PlaceCore, CleanCore
  <2> QED
    BY <2>1, <2>2, CoreAssumption DEF CoresInv, CoreFilesTyped, CoreFail
<1> QED
  BY <1>3, <1>4, <1>5 DEF CoresInv, CoreFilesTyped

\* A step of a task keeps what its temporary file is said to have.
LEMMA PartsKept ==
    ASSUME CoresInv, NEW i \in CoreDownload,
           StartCore(i) \/ AskForCore(i) \/ WriteCore(i) \/ CheckCore(i) \/ PlaceCore(i) \/ CleanCore(i)
    PROVE  PartsInv'
<1> DEFINE Part(d) == /\ coreTask[d].status = "none" => coreTask[d].pc = "ask"
                      /\ coreTask[d].pc = "ask" => partFile[d] = "absent"
                      /\ coreTask[d].pc \in {"check", "place"} => partFile[d] \in {"whole", "other"}
                      /\ coreTask[d].pc = "place" /\ coreTask[d].sha => partFile[d] = "whole"
<1>1. \A d \in CoreDownload : Part(d)
  BY DEF CoresInv, PartsInv
<1>2. \A d \in CoreDownload \ {i} : Part(d)'
  BY <1>1, CoreStep
<1>3. coreTask \in [CoreDownload -> [status : {"none", "running", "done", "error", "lost"},
                                     pc : {"ask", "write", "check", "place", "clean", "end"}, sha : BOOLEAN]]
      /\ partFile \in [CoreDownload -> Content] /\ coreTask'[i].sha = coreTask[i].sha
  BY CoreStep DEF CoresInv, CoreTaskTyped, CoreFilesTyped
<1>4. Part(i)'
  <2>0. coreTask'[i].status # "none"
    BY <1>3 DEF StartCore, AskForCore, WriteCore, CheckCore, PlaceCore, CleanCore, CoreGoes, CoreEnds, CoreAt
  <2>1. CASE StartCore(i)
    <3>1. coreTask'[i].pc = coreTask[i].pc /\ partFile' = partFile
      BY <1>3, <2>1 DEF StartCore
    <3> QED
      BY <1>1, <1>3, <2>0, <2>1, <3>1 DEF StartCore
  <2>2. CASE AskForCore(i)
    <3>1. coreTask'[i].pc \in {"write", "end"}
      BY <1>3, <2>2 DEF AskForCore, CoreGoes, CoreEnds
    <3> QED
      BY <2>0, <3>1
  <2>3. CASE WriteCore(i)
    <3>1. \/ coreTask'[i].pc = "check" /\ partFile'[i] \in {"whole", "other"}
          \/ coreTask'[i].pc = "clean"
      BY <1>3, <2>3 DEF WriteCore, CoreGoes, CoreEnds, PartOf
    <3> QED
      BY <2>0, <3>1
  <2>4. CASE CheckCore(i)
    <3>1. \/ coreTask'[i].pc = "place" /\ (partFile[i] = "whole" \/ ~coreTask[i].sha)
          \/ coreTask'[i].pc = "clean"
      BY <1>3, <2>4 DEF CheckCore, CoreGoes, CoreEnds, PartOf, SumFits
    <3>2. partFile'[i] = partFile[i] /\ coreTask[i].pc = "check"
      BY <2>4 DEF CheckCore, CoreAt
    <3> QED
      BY <1>1, <1>3, <2>0, <3>1, <3>2
  <2>5. CASE PlaceCore(i)
    <3>1. coreTask'[i].pc \in {"clean", "end"}
      BY <1>3, <2>5 DEF PlaceCore, CoreGoes, CoreEnds
    <3> QED
      BY <2>0, <3>1
  <2>6. CASE CleanCore(i)
    <3>1. coreTask'[i].pc = "end"
      BY <1>3, <2>6 DEF CleanCore, CoreGoes
    <3> QED
      BY <2>0, <3>1
  <2> QED
    BY <2>1, <2>2, <2>3, <2>4, <2>5, <2>6
<1>5. \A d \in CoreDownload : Part(d)'
  BY <1>2, <1>4
<1> QED
  BY <1>5 DEF PartsInv

\* What is put in the place of the file is complete, and with a sum what was asked for.
LEMMA CoresKept ==
    ASSUME CoresInv, NEW i \in CoreDownload,
           StartCore(i) \/ AskForCore(i) \/ WriteCore(i) \/ CheckCore(i) \/ PlaceCore(i) \/ CleanCore(i)
    PROVE  CoresHold'
<1>1. coreTask \in [CoreDownload -> [status : {"none", "running", "done", "error", "lost"},
                                     pc : {"ask", "write", "check", "place", "clean", "end"}, sha : BOOLEAN]]
      /\ partFile \in [CoreDownload -> Content]
  BY DEF CoresInv, CoreTaskTyped, CoreFilesTyped
<1>2. /\ coreTask'[i].sha = coreTask[i].sha
      /\ \A d \in CoreDownload \ {i} : coreTask'[d] = coreTask[d] /\ partFile'[d] = partFile[d]
  BY CoreStep
<1>3. (\A d \in CoreDownload : coreTask'[d].sha) => \A d \in CoreDownload : coreTask[d].sha
  BY <1>2
<1>4. \/ dest' = dest
      \/ /\ dest' = partFile[i] /\ coreTask[i].pc = "place"
  <2>1. CASE StartCore(i)
    BY <1>1, <2>1 DEF StartCore
  <2>2. CASE AskForCore(i)
    BY <1>1, <2>2 DEF AskForCore, CoreGoes, CoreEnds
  <2>3. CASE WriteCore(i)
    BY <1>1, <2>3 DEF WriteCore, CoreGoes, CoreEnds
  <2>4. CASE CheckCore(i)
    BY <1>1, <2>4 DEF CheckCore, CoreGoes, CoreEnds
  <2>5. CASE PlaceCore(i)
    BY <1>1, <2>5 DEF PlaceCore, CoreGoes, CoreEnds, PartOf, CoreAt
  <2>6. CASE CleanCore(i)
    BY <1>1, <2>6 DEF CleanCore, CoreGoes
  <2> QED
    BY <2>1, <2>2, <2>3, <2>4, <2>5, <2>6
<1>5. coreTask[i].pc = "place" => partFile[i] \in {"whole", "other"} /\ (coreTask[i].sha => partFile[i] = "whole")
  BY DEF CoresInv, PartsInv
<1>6. CoreIsWhole'
  BY <1>3, <1>4, <1>5 DEF CoresInv, CoresHold, CoreIsWhole
<1>7. EndsLeaveNoPart'
  <2>1. coreFails' = 0 => coreFails = 0 /\ (coreTask'[i].pc = "end" => partFile'[i] = "absent" \/ ~CoreAt(i, "end")' )
    <3>0. coreFails \in Nat
      BY CoreAssumption DEF CoresInv, CoreFilesTyped
    <3>1. CASE StartCore(i)
      <4>1. coreTask'[i].pc = coreTask[i].pc /\ partFile' = partFile /\ coreFails' = coreFails
        BY <1>1, <3>1 DEF StartCore
      <4>2. coreTask[i].pc = "ask"
        BY <3>1 DEF StartCore, CoresInv, PartsInv
      <4> QED
        BY <4>1, <4>2
    <3>2. CASE AskForCore(i)
      BY <1>1, <3>2 DEF AskForCore, CoreGoes, CoreEnds, CoreAt, CoresInv, PartsInv
    <3>3. CASE WriteCore(i)
      BY <1>1, <3>3 DEF WriteCore, CoreGoes, CoreEnds
    <3>4. CASE CheckCore(i)
      BY <1>1, <3>4 DEF CheckCore, CoreGoes, CoreEnds
    <3>5. CASE PlaceCore(i)
      BY <1>1, <3>5 DEF PlaceCore, CoreGoes, CoreEnds, PartOf
    <3>6. CASE CleanCore(i)
      BY <1>1, <3>0, <3>6 DEF CleanCore, CoreGoes, PartOf, CoreFail
    <3> QED
      BY <3>1, <3>2, <3>3, <3>4, <3>5, <3>6
  <2> QED
    BY <1>2, <2>1 DEF CoresInv, CoresHold, EndsLeaveNoPart, CoreAt
<1> QED
  BY <1>6, <1>7 DEF CoresHold

\* A crash loses the tasks and leaves the files.
LEMMA LoseCoresKeeps ==
    ASSUME CoresInv, LoseCores
    PROVE  CoresInv'
<1>1. /\ \A i \in CoreDownload : /\ coreTask'[i].pc = coreTask[i].pc /\ coreTask'[i].sha = coreTask[i].sha
                                 /\ coreTask'[i].status = "lost" \/ coreTask'[i] = coreTask[i]
                                 /\ coreTask'[i].status \in {"none", "lost"}
      /\ CoreTaskTyped'
  BY DEF LoseCores, CoresInv, CoreTaskTyped
<1>2. /\ partFile' = partFile /\ dest' = dest /\ coreFails' = coreFails + 1 /\ coreFails' \in 0..MaxCoreFails
      /\ coreFails \in Nat
  BY CoreAssumption DEF LoseCores, CoreFail, CoresInv, CoreFilesTyped
<1>3. CoreFilesTyped' /\ PartsInv'
  BY <1>1, <1>2 DEF CoresInv, CoreFilesTyped, PartsInv
<1>4. CoresHold'
  BY <1>1, <1>2 DEF CoresInv, CoresHold, CoreIsWhole, EndsLeaveNoPart
<1> QED
  BY <1>1, <1>3, <1>4 DEF CoresInv

\* The downloads begin so,
LEMMA CoresBegin == CoresInit => CoresInv
<1> SUFFICES ASSUME CoresInit PROVE CoresInv
  OBVIOUS
<1>1. /\ CoreTaskTyped
      /\ \A i \in CoreDownload : coreTask[i].status = "none" /\ coreTask[i].pc = "ask" /\ partFile[i] = "absent"
      /\ dest \in {"absent", "whole"} /\ coreFails = 0
  BY DEF CoresInit, CoreTaskTyped
<1>2. CoreFilesTyped /\ PartsInv
  BY <1>1, CoreAssumption DEF CoresInit, CoreFilesTyped, PartsInv, Content
<1>3. CoresHold
  BY <1>1 DEF CoresHold, CoreIsWhole, EndsLeaveNoPart
<1> QED
  BY <1>1, <1>2, <1>3 DEF CoresInv

\* and every step of them keeps it so.
LEMMA CoresStay == ASSUME CoresInv, [CoresNext]_coreVars PROVE CoresInv'
<1>1. CASE LoseCores
  BY <1>1, LoseCoresKeeps
<1>2. ASSUME NEW i \in CoreDownload,
             StartCore(i) \/ AskForCore(i) \/ WriteCore(i) \/ CheckCore(i) \/ PlaceCore(i) \/ CleanCore(i)
      PROVE  CoresInv'
  <2>1. CoreTaskTyped' /\ CoreFilesTyped'
    BY <1>2, CoreStep
  <2>2. PartsInv' /\ CoresHold'
    BY <1>2, PartsKept, CoresKept
  <2> QED
    BY <2>1, <2>2 DEF CoresInv
<1>3. CASE UNCHANGED coreVars
  BY <1>3 DEF coreVars, CoresInv, CoreTaskTyped, CoreFilesTyped, PartsInv, CoresHold, CoreIsWhole,
              EndsLeaveNoPart, CoreAt
<1> QED
  BY <1>1, <1>2, <1>3, Zenon DEF CoresNext

\* CoresHold, and the types: a core is complete at every moment, whichever downloads
\* fail, are lost or run at the same time.
THEOREM CoresSafe == CoresSpec => [](CoresTypeOK /\ CoresHold)
<1>1. CoresInv => CoresTypeOK /\ CoresHold
  BY DEF CoresInv, CoreTaskTyped, CoreFilesTyped, CoresTypeOK
<1> QED
  BY <1>1, CoresBegin, CoresStay, PTL DEF CoresSpec

-----------------------------------------------------------------------------
(* The transfers between nodes.                                             *)

PullRecord == [status : {"none", "running", "done", "failed", "lost"},
               pc : {"ask", "poll", "ticket", "fetch", "unzip", "end"}, polls : 0..MaxPolls]
PullZip == [state : {"absent", "partial", "whole"}, version : 0..MaxVersion]
Taken == [status : {"none", "running", "done", "failed"}, version : 0..MaxVersion]
Mirrored == [by : Pull \cup {NoPull}, version : 0..MaxVersion, whole : BOOLEAN]

\* A pull that extracts, or has, its files.
Engaged(p) == PullAt(p, "unzip") \/ transfer[p].status = "done"

\* Before a pull asks, the peer has nothing for it; a snapshot is not older than the
\* request, nor is the archive of it.
SnapshotInv ==
    \A p \in Pull :
        /\ transfer[p].status = "none" => transfer[p].pc = "ask"
        /\ transfer[p].pc = "ask" => snapshot[p].status = "none"
        /\ asked[p] <= version
        /\ snapshot[p].status = "done" => asked[p] <= snapshot[p].version
        /\ PullAt(p, "unzip") => asked[p] <= tmpZip[p].version

\* A pull that nobody met in the directory is alone there: no other pull extracts, and
\* nothing is being deleted or uploaded.
AloneInv ==
    \A p \in Pull \ mixed : Engaged(p) => deleter = {} /\ uploading = {} /\ Extracting \subseteq {p}

\* What such a pull has extracted is in the mirror.
ExtractedInv ==
    \A p \in Pull \ mixed : PullAt(p, "unzip") =>
        \A e \in Entry \ left[p] : mirror[e] = [by |-> p, version |-> tmpZip[p].version, whole |-> TRUE]

\* The invariant of the transfers.
PullsInv == PullsTypeOK /\ SnapshotInv /\ AloneInv /\ ExtractedInv /\ PullsHold

\* What the types say of one pull.
LEMMA PullSays ==
    ASSUME PullsTypeOK, NEW p \in Pull
    PROVE  /\ transfer[p] \in PullRecord /\ tmpZip[p] \in PullZip /\ snapshot[p] \in Taken
           /\ asked[p] \in 0..MaxVersion /\ left[p] \in SUBSET Entry
BY DEF PullsTypeOK, PullRecord, PullZip, Taken

\* A pull that goes on, and one that ends, moves alone and keeps its type.
LEMMA PullMoves ==
    ASSUME PullsTypeOK, NEW p \in Pull,
           NEW st \in {"running", "done", "failed"},
           NEW pc \in {"ask", "poll", "ticket", "fetch", "unzip", "end"}, NEW polls \in 0..MaxPolls,
           transfer' = [transfer EXCEPT ![p] = [status |-> st, pc |-> pc, polls |-> polls]]
    PROVE  /\ transfer' \in [Pull -> PullRecord]
           /\ transfer'[p].status = st /\ transfer'[p].pc = pc
           /\ \A q \in Pull \ {p} : transfer'[q] = transfer[q]
<1>1. transfer \in [Pull -> PullRecord]
  BY DEF PullsTypeOK, PullRecord
<1>2. [status |-> st, pc |-> pc, polls |-> polls] \in PullRecord
  BY DEF PullRecord
<1> QED
  BY <1>1, <1>2

\* PullGoes and PullEnds are such moves.
LEMMA GoesMoves ==
    ASSUME PullsTypeOK, NEW p \in Pull, transfer[p].status = "running",
           NEW pc \in {"ask", "poll", "ticket", "fetch", "unzip", "end"}, PullGoes(p, pc)
    PROVE  /\ transfer' \in [Pull -> PullRecord]
           /\ transfer'[p].status = "running" /\ transfer'[p].pc = pc
           /\ \A q \in Pull \ {p} : transfer'[q] = transfer[q]
<1>1. transfer[p] \in PullRecord /\ transfer \in [Pull -> PullRecord]
  BY DEF PullsTypeOK, PullRecord
<1>2. [transfer[p] EXCEPT !.pc = pc] \in PullRecord
  BY <1>1 DEF PullRecord
<1>3. [transfer[p] EXCEPT !.pc = pc].status = "running" /\ [transfer[p] EXCEPT !.pc = pc].pc = pc
  BY <1>1 DEF PullRecord
<1>4. transfer' = [transfer EXCEPT ![p] = [transfer[p] EXCEPT !.pc = pc]]
  BY <1>1 DEF PullGoes
<1> QED
  BY <1>1, <1>2, <1>3, <1>4

LEMMA EndsMoves ==
    ASSUME PullsTypeOK, NEW p \in Pull, NEW st \in {"done", "failed"}, PullEnds(p, st)
    PROVE  /\ transfer' \in [Pull -> PullRecord]
           /\ transfer'[p].status = st /\ transfer'[p].pc = "end"
           /\ \A q \in Pull \ {p} : transfer'[q] = transfer[q]
<1>1. transfer[p] \in PullRecord /\ transfer \in [Pull -> PullRecord]
  BY DEF PullsTypeOK, PullRecord
<1>2. [transfer[p] EXCEPT !.status = st, !.pc = "end"] \in PullRecord
  BY <1>1 DEF PullRecord
<1>3. /\ [transfer[p] EXCEPT !.status = st, !.pc = "end"].status = st
      /\ [transfer[p] EXCEPT !.status = st, !.pc = "end"].pc = "end"
  BY <1>1 DEF PullRecord
<1>4. transfer' = [transfer EXCEPT ![p] = [transfer[p] EXCEPT !.status = st, !.pc = "end"]]
  BY <1>1 DEF PullEnds
<1> QED
  BY <1>1, <1>2, <1>3, <1>4

\* A pull that is engaged before and after, with the same files extracted, in a directory
\* that nobody has come into, keeps what is said of it.
SamePull(q) ==
    /\ transfer'[q] = transfer[q] /\ tmpZip'[q] = tmpZip[q] /\ left'[q] = left[q]
    /\ asked'[q] = asked[q]

----------------------------------------------------------------------------
\* The initial state.
LEMMA PullsBegin == PullsInit => PullsInv
<1> SUFFICES ASSUME PullsInit PROVE PullsInv
  OBVIOUS
<1> USE DEF PullsInit
<1>0. 0 \in 0..MaxVersion /\ 0 \in 0..MaxPolls /\ 0 \in 0..MaxMirrorOps /\ 0 \in 0..MaxPullFails
  BY PullAssumption
<1>1. PullsTypeOK
  BY <1>0 DEF PullsTypeOK, Gone
<1>2. \A p \in Pull : transfer[p] = [status |-> "none", pc |-> "ask", polls |-> 0]
                      /\ snapshot[p] = [status |-> "none", version |-> 0] /\ asked[p] = 0
  OBVIOUS
<1>3. \A p \in Pull : ~Engaged(p) /\ ~PullAt(p, "unzip")
  BY <1>2 DEF Engaged, PullAt
<1>4. SnapshotInv
  BY <1>2, <1>3 DEF SnapshotInv
<1>5. AloneInv /\ ExtractedInv
  BY <1>3 DEF AloneInv, ExtractedInv
<1>6. PullsHold
  BY <1>2 DEF PullsHold, PullIsWhole
<1> QED
  BY <1>1, <1>4, <1>5, <1>6 DEF PullsInv

\* The parts of the invariant that are not about the types stay when nothing of them
\* changes but the version of the peer, which only grows.
SameDirectory ==
    /\ transfer' = transfer /\ tmpZip' = tmpZip /\ left' = left /\ mirror' = mirror
    /\ asked' = asked /\ mixed' = mixed /\ deleter' = deleter /\ uploading' = uploading

LEMMA DirectoryStays ==
    ASSUME PullsInv, SameDirectory
    PROVE  AloneInv' /\ ExtractedInv' /\ PullsHold'
BY DEF PullsInv, SameDirectory, AloneInv, ExtractedInv, PullsHold, PullIsWhole,
       Engaged, Extracting, PullAt

\* A step of one pull that neither begins nor ends an extraction, nor reports the end
\* of one, leaves the directory as it is.
LEMMA OtherStepsStay ==
    ASSUME PullsInv, NEW p \in Pull, transfer[p].status # "done", transfer[p].pc # "unzip",
           transfer'[p].status # "done", transfer'[p].pc # "unzip",
           \A q \in Pull \ {p} : SamePull(q),
           mirror' = mirror, mixed' = mixed, deleter' = deleter, uploading' = uploading
    PROVE  AloneInv' /\ ExtractedInv' /\ PullsHold'
<1>1. \A q \in Pull : Engaged(q)' => q # p /\ Engaged(q)
  BY DEF Engaged, PullAt, SamePull
<1>2. \A q \in Pull : PullAt(q, "unzip")' => q # p /\ PullAt(q, "unzip")
  BY DEF PullAt, SamePull
<1>3. \A q \in Pull : transfer'[q].status = "done" => q # p /\ transfer[q].status = "done"
  BY DEF SamePull
<1>4. Extracting' \subseteq Extracting
  BY <1>2 DEF Extracting
<1>5. AloneInv'
  BY <1>1, <1>4 DEF PullsInv, AloneInv
<1>6. ExtractedInv'
  BY <1>2 DEF PullsInv, ExtractedInv, SamePull
<1>7. PullIsWhole'
  BY <1>3 DEF PullsInv, PullsHold, PullIsWhole, SamePull
<1> QED
  BY <1>5, <1>6, <1>7 DEF PullsHold

\* The edits and the restarts of the peer.
LEMMA EditSourceKeeps == ASSUME PullsInv, EditSource PROVE PullsInv'
<1>1. version \in 0..MaxVersion /\ version + 1 \in 0..MaxVersion
  BY PullAssumption DEF PullsInv, PullsTypeOK, EditSource
<1>2. SameDirectory /\ snapshot' = snapshot /\ version' = version + 1
      /\ mirrorOps' = mirrorOps /\ pullFails' = pullFails
  BY DEF EditSource, SameDirectory
<1>3. PullsTypeOK'
  BY <1>1, <1>2 DEF PullsInv, PullsTypeOK, SameDirectory
<1>4. \A p \in Pull : asked[p] \in 0..MaxVersion
  BY DEF PullsInv, PullsTypeOK
<1>5. SnapshotInv'
  BY <1>1, <1>2, <1>4 DEF PullsInv, SnapshotInv, SameDirectory, PullAt
<1> QED
  BY <1>2, <1>3, <1>5, DirectoryStays DEF PullsInv

LEMMA PeerRestartsKeeps == ASSUME PullsInv, PeerRestarts PROVE PullsInv'
<1>1. SameDirectory /\ version' = version /\ mirrorOps' = mirrorOps
      /\ snapshot' = [p \in Pull |-> [status |-> "none", version |-> 0]]
  BY DEF PeerRestarts, SameDirectory
<1>2. pullFails' \in 0..MaxPullFails
  BY PullAssumption DEF PullsInv, PullsTypeOK, PeerRestarts, PullFail
<1>3. 0 \in 0..MaxVersion
  BY PullAssumption
<1>4. PullsTypeOK'
  BY <1>1, <1>2, <1>3 DEF PullsInv, PullsTypeOK, SameDirectory
<1>5. \A p \in Pull : snapshot'[p].status = "none"
  BY <1>1
<1>6. SnapshotInv'
  BY <1>1, <1>5 DEF PullsInv, SnapshotInv, SameDirectory, PullAt
<1> QED
  BY <1>1, <1>4, <1>6, DirectoryStays DEF PullsInv

LEMMA PeerSnapshotsKeeps ==
    ASSUME PullsInv, NEW p \in Pull, PeerSnapshots(p)
    PROVE  PullsInv'
<1>1. SameDirectory /\ version' = version /\ mirrorOps' = mirrorOps /\ pullFails' = pullFails
  BY DEF PeerSnapshots, SameDirectory
<1>2. PICK st \in {"done", "failed"} :
         snapshot' = [snapshot EXCEPT ![p] = [status |-> st, version |-> version]]
  BY DEF PeerSnapshots
<1>3. snapshot \in [Pull -> Taken] /\ [status |-> st, version |-> version] \in Taken
  BY DEF PullsInv, PullsTypeOK, Taken
<1>4. /\ snapshot' \in [Pull -> Taken]
      /\ snapshot'[p].status # "none" /\ snapshot'[p].version = version
      /\ \A q \in Pull \ {p} : snapshot'[q] = snapshot[q]
  BY <1>2, <1>3
<1>5. PullsTypeOK'
  BY <1>1, <1>4 DEF PullsInv, PullsTypeOK, SameDirectory, Taken
<1>6. transfer[p].pc # "ask"
  BY DEF PullsInv, SnapshotInv, PeerSnapshots
<1>7. SnapshotInv'
  BY <1>1, <1>4, <1>6 DEF PullsInv, SnapshotInv, SameDirectory, PullAt
<1> QED
  BY <1>1, <1>5, <1>7, DirectoryStays DEF PullsInv

\* The start of a pull.
LEMMA StartPullKeeps ==
    ASSUME PullsInv, NEW p \in Pull, StartPull(p)
    PROVE  PullsInv'
<1>1. /\ UNCHANGED <<version, snapshot, tmpZip, left, mirror, mirrorOps, pullFails, deleter, uploading, mixed>>
      /\ transfer[p].status = "none" /\ transfer' = [transfer EXCEPT ![p].status = "running"]
      /\ asked' = [asked EXCEPT ![p] = version]
  BY DEF StartPull, peerVars
<1>2. transfer \in [Pull -> PullRecord] /\ transfer[p] \in PullRecord
  BY DEF PullsInv, PullsTypeOK, PullRecord
<1>3. transfer[p].pc = "ask" /\ snapshot[p].status = "none"
  BY <1>1 DEF PullsInv, SnapshotInv
<1>4. /\ [transfer[p] EXCEPT !.status = "running"] \in PullRecord
      /\ [transfer[p] EXCEPT !.status = "running"].status = "running"
      /\ [transfer[p] EXCEPT !.status = "running"].pc = "ask"
  BY <1>2, <1>3 DEF PullRecord
<1>5. transfer' = [transfer EXCEPT ![p] = [transfer[p] EXCEPT !.status = "running"]]
  BY <1>1, <1>2
<1>6. /\ transfer' \in [Pull -> PullRecord]
      /\ transfer'[p].status = "running" /\ transfer'[p].pc = "ask"
      /\ \A q \in Pull \ {p} : transfer'[q] = transfer[q]
  BY <1>2, <1>4, <1>5
<1>7. /\ asked \in [Pull -> 0..MaxVersion] /\ version \in 0..MaxVersion
      /\ asked' \in [Pull -> 0..MaxVersion]
      /\ asked'[p] = version /\ \A q \in Pull \ {p} : asked'[q] = asked[q]
  BY <1>1 DEF PullsInv, PullsTypeOK
<1>8. PullsTypeOK'
  BY <1>1, <1>6, <1>7 DEF PullsInv, PullsTypeOK, PullRecord
<1>9. \A q \in Pull \ {p} : SamePull(q)
  BY <1>1, <1>6, <1>7 DEF SamePull
<1>10. SnapshotInv'
  <2> SUFFICES ASSUME NEW q \in Pull
               PROVE  /\ transfer'[q].status = "none" => transfer'[q].pc = "ask"
                      /\ transfer'[q].pc = "ask" => snapshot'[q].status = "none"
                      /\ asked'[q] <= version'
                      /\ snapshot'[q].status = "done" => asked'[q] <= snapshot'[q].version
                      /\ PullAt(q, "unzip")' => asked'[q] <= tmpZip'[q].version
    BY DEF SnapshotInv
  <2>1. CASE q = p
    BY <1>1, <1>3, <1>6, <1>7, <2>1 DEF PullAt
  <2>2. CASE q # p
    <3>1. SamePull(q) /\ snapshot' = snapshot /\ version' = version
      BY <1>1, <1>9, <2>2
    <3> QED
      BY <3>1 DEF PullsInv, SnapshotInv, SamePull, PullAt
  <2> QED
    BY <2>1, <2>2
<1>11. transfer[p].status # "done" /\ transfer[p].pc # "unzip" /\ transfer'[p].status # "done"
       /\ transfer'[p].pc # "unzip" /\ mirror' = mirror /\ mixed' = mixed /\ deleter' = deleter /\ uploading' = uploading
  BY <1>1, <1>3, <1>6
<1> QED
  BY <1>8, <1>9, <1>10, <1>11, OtherStepsStay DEF PullsInv

\* The requests to the peer: they change the place of the pull, and the first of them
\* the task at the peer.
LEMMA RequestKeeps ==
    ASSUME PullsInv, NEW p \in Pull, AskSnapshot(p) \/ PollSnapshot(p) \/ AskTicket(p)
    PROVE  PullsInv'
<1>1. /\ UNCHANGED <<version, tmpZip, left, mirror, mirrorOps, pullFails, deleter, uploading, asked, mixed>>
      /\ transfer[p].status = "running" /\ transfer[p].pc \in {"ask", "poll", "ticket"}
      /\ \/ snapshot' = snapshot
         \/ snapshot' = [snapshot EXCEPT ![p].status = "running"]
  BY DEF AskSnapshot, PollSnapshot, AskTicket, peerVars, PullAt
<1>2. /\ transfer' \in [Pull -> PullRecord]
      /\ transfer'[p].status \in {"running", "failed"} /\ transfer'[p].pc \in {"poll", "ticket", "fetch", "end"}
      /\ \A q \in Pull \ {p} : transfer'[q] = transfer[q]
  <2>1. ASSUME NEW pc \in {"poll", "ticket", "fetch"}, PullGoes(p, pc)
        PROVE  /\ transfer' \in [Pull -> PullRecord]
               /\ transfer'[p].status = "running" /\ transfer'[p].pc = pc
               /\ \A q \in Pull \ {p} : transfer'[q] = transfer[q]
    BY <1>1, <2>1, GoesMoves DEF PullsInv
  <2>2. ASSUME PullEnds(p, "failed")
        PROVE  /\ transfer' \in [Pull -> PullRecord]
               /\ transfer'[p].status = "failed" /\ transfer'[p].pc = "end"
               /\ \A q \in Pull \ {p} : transfer'[q] = transfer[q]
    BY <2>2, EndsMoves DEF PullsInv
  <2>3. CASE AskSnapshot(p)
    <3>1. PullGoes(p, "poll") \/ PullEnds(p, "failed")
      BY <2>3 DEF AskSnapshot
    <3> QED
      BY <3>1, <2>1, <2>2
  <2>4. CASE AskTicket(p)
    <3>1. PullGoes(p, "fetch") \/ PullEnds(p, "failed")
      BY <2>4 DEF AskTicket
    <3> QED
      BY <3>1, <2>1, <2>2
  <2>5. CASE PollSnapshot(p)
    <3>1. \/ PullGoes(p, "ticket") \/ PullEnds(p, "failed")
          \/ transfer[p].pc = "poll" /\ transfer' = [transfer EXCEPT ![p].polls = (@ + 1) % (MaxPolls + 1)]
      BY <2>5 DEF PollSnapshot, PullAt
    <3>2. CASE transfer[p].pc = "poll" /\ transfer' = [transfer EXCEPT ![p].polls = (@ + 1) % (MaxPolls + 1)]
      <4>1. transfer[p] \in PullRecord /\ transfer \in [Pull -> PullRecord]
        BY DEF PullsInv, PullsTypeOK, PullRecord
      <4>2. PICK n : n = (transfer[p].polls + 1) % (MaxPolls + 1)
        OBVIOUS
      <4>3. n \in 0..MaxPolls
        BY <4>1, <4>2, PullAssumption DEF PullRecord
      <4>4. /\ [transfer[p] EXCEPT !.polls = n] \in PullRecord
            /\ [transfer[p] EXCEPT !.polls = n].status = transfer[p].status
            /\ [transfer[p] EXCEPT !.polls = n].pc = transfer[p].pc
        BY <4>1, <4>3 DEF PullRecord
      <4>5. transfer' = [transfer EXCEPT ![p] = [transfer[p] EXCEPT !.polls = n]]
        BY <3>2, <4>1, <4>2
      <4> QED
        BY <1>1, <3>2, <4>1, <4>4, <4>5
    <3> QED
      BY <2>1, <2>2, <3>1, <3>2
  <2> QED
    BY <2>3, <2>4, <2>5
<1>3. /\ snapshot'[p].status # "done" \/ snapshot' = snapshot
      /\ snapshot' \in [Pull -> Taken]
      /\ \A q \in Pull \ {p} : snapshot'[q] = snapshot[q]
  <2>1. snapshot \in [Pull -> Taken] /\ snapshot[p] \in Taken
    BY DEF PullsInv, PullsTypeOK, Taken
  <2>2. /\ [snapshot[p] EXCEPT !.status = "running"] \in Taken
        /\ [snapshot[p] EXCEPT !.status = "running"].status = "running"
    BY <2>1 DEF Taken
  <2>3. snapshot' = snapshot \/ snapshot' = [snapshot EXCEPT ![p] = [snapshot[p] EXCEPT !.status = "running"]]
    BY <1>1, <2>1
  <2> QED
    BY <2>1, <2>2, <2>3
<1>4. PullsTypeOK'
  BY <1>1, <1>2, <1>3 DEF PullsInv, PullsTypeOK, PullRecord, Taken
<1>5. \A q \in Pull \ {p} : SamePull(q)
  BY <1>1, <1>2 DEF SamePull
<1>6. SnapshotInv'
  <2> SUFFICES ASSUME NEW q \in Pull
               PROVE  /\ transfer'[q].status = "none" => transfer'[q].pc = "ask"
                      /\ transfer'[q].pc = "ask" => snapshot'[q].status = "none"
                      /\ asked'[q] <= version'
                      /\ snapshot'[q].status = "done" => asked'[q] <= snapshot'[q].version
                      /\ PullAt(q, "unzip")' => asked'[q] <= tmpZip'[q].version
    BY DEF SnapshotInv
  <2>1. CASE q = p
    BY <1>1, <1>2, <1>3, <2>1 DEF PullAt, PullsInv, SnapshotInv
  <2>2. CASE q # p
    <3>1. SamePull(q) /\ snapshot'[q] = snapshot[q] /\ version' = version
      BY <1>1, <1>3, <1>5, <2>2
    <3> QED
      BY <3>1 DEF PullsInv, SnapshotInv, SamePull, PullAt
  <2> QED
    BY <2>1, <2>2
<1>7. transfer[p].status # "done" /\ transfer[p].pc # "unzip" /\ transfer'[p].status # "done"
      /\ transfer'[p].pc # "unzip" /\ mirror' = mirror /\ mixed' = mixed /\ deleter' = deleter /\ uploading' = uploading
  BY <1>1, <1>2
<1> QED
  BY <1>4, <1>5, <1>6, <1>7, OtherStepsStay DEF PullsInv

\* The download of the archive: the whole of it,
LEMMA FetchWholeKeeps ==
    ASSUME PullsInv, NEW p \in Pull, PullAt(p, "fetch"), snapshot[p].status = "done",
           tmpZip' = [tmpZip EXCEPT ![p] = [state |-> "whole", version |-> snapshot[p].version]],
           left' = [left EXCEPT ![p] = Entry], PullGoes(p, "unzip"), Meets({p}),
           UNCHANGED <<version, snapshot, mirror, mirrorOps, pullFails, deleter, uploading, asked>>
    PROVE  PullsInv'
<1>1. /\ transfer' \in [Pull -> PullRecord]
      /\ transfer'[p].status = "running" /\ transfer'[p].pc = "unzip"
      /\ \A q \in Pull \ {p} : transfer'[q] = transfer[q]
  BY GoesMoves DEF PullsInv, PullAt
<1>2. snapshot[p] \in Taken /\ tmpZip \in [Pull -> PullZip]
      /\ [state |-> "whole", version |-> snapshot[p].version] \in PullZip
  BY DEF PullsInv, PullsTypeOK, Taken, PullZip
<1>3. /\ tmpZip' \in [Pull -> PullZip]
      /\ tmpZip'[p].version = snapshot[p].version /\ \A q \in Pull \ {p} : tmpZip'[q] = tmpZip[q]
  BY <1>2
<1>4. /\ left' \in [Pull -> SUBSET Entry]
      /\ left'[p] = Entry /\ \A q \in Pull \ {p} : left'[q] = left[q]
  BY DEF PullsInv, PullsTypeOK
<1>5. mixed' = mixed \cup Reached \cup IF Extracting # {} \/ deleter # {} \/ uploading # {} THEN {p} ELSE {}
  BY DEF Meets
<1>6. mixed' \subseteq Pull
  BY <1>5 DEF PullsInv, PullsTypeOK, Reached
<1>7. PullsTypeOK'
  BY <1>1, <1>3, <1>4, <1>6 DEF PullsInv, PullsTypeOK, PullRecord, PullZip
<1>8. \A q \in Pull \ {p} : SamePull(q)
  BY <1>1, <1>3, <1>4 DEF SamePull
<1>9. SnapshotInv'
  <2> SUFFICES ASSUME NEW q \in Pull
               PROVE  /\ transfer'[q].status = "none" => transfer'[q].pc = "ask"
                      /\ transfer'[q].pc = "ask" => snapshot'[q].status = "none"
                      /\ asked'[q] <= version'
                      /\ snapshot'[q].status = "done" => asked'[q] <= snapshot'[q].version
                      /\ PullAt(q, "unzip")' => asked'[q] <= tmpZip'[q].version
    BY DEF SnapshotInv
  <2>1. CASE q = p
    BY <1>1, <1>3, <2>1 DEF PullAt, PullsInv, SnapshotInv
  <2>2. CASE q # p
    <3>1. SamePull(q) /\ snapshot'[q] = snapshot[q] /\ version' = version
      BY <1>8, <2>2
    <3> QED
      BY <3>1 DEF PullsInv, SnapshotInv, SamePull, PullAt
  <2> QED
    BY <2>1, <2>2
<1>10. \A q \in Pull \ mixed' : Engaged(q)' => q = p
  <2>1. SUFFICES ASSUME NEW q \in Pull, q # p, Engaged(q)' PROVE q \in mixed'
    OBVIOUS
  <2>2. Engaged(q)
    BY <1>1, <2>1 DEF Engaged, PullAt
  <2> QED
    BY <1>5, <2>2 DEF Reached, Engaged
<1>11. p \notin mixed' => Extracting = {} /\ deleter = {} /\ uploading = {}
  BY <1>5
<1>12. Extracting' \subseteq Extracting \cup {p}
  BY <1>1 DEF Extracting, PullAt
<1>13. AloneInv'
  BY <1>10, <1>11, <1>12 DEF AloneInv
<1>14. ExtractedInv'
  <2>1. \A q \in Pull \ mixed' : PullAt(q, "unzip")' => q = p
    BY <1>10 DEF Engaged
  <2> QED
    BY <2>1, <1>4 DEF ExtractedInv
<1>15. \A q \in Pull : transfer'[q].status = "done" => q # p /\ transfer[q].status = "done"
  BY <1>1
<1>16. PullIsWhole'
  <2>1. \A q \in Pull \ mixed' : transfer'[q].status # "done"
    BY <1>10, <1>15 DEF Engaged
  <2> QED
    BY <2>1 DEF PullIsWhole
<1> QED
  BY <1>7, <1>9, <1>13, <1>14, <1>16 DEF PullsInv, PullsHold

\* or a part of it.
LEMMA FetchZipKeeps ==
    ASSUME PullsInv, NEW p \in Pull, FetchZip(p)
    PROVE  PullsInv'
<1>1. PullAt(p, "fetch") /\ UNCHANGED <<version, snapshot, mirror, mirrorOps, pullFails, deleter, uploading, asked>>
  BY DEF FetchZip, peerVars
<1>2. CASE /\ snapshot[p].status = "done"
           /\ tmpZip' = [tmpZip EXCEPT ![p] = [state |-> "whole", version |-> snapshot[p].version]]
           /\ left' = [left EXCEPT ![p] = Entry] /\ PullGoes(p, "unzip") /\ Meets({p})
  BY <1>1, <1>2, FetchWholeKeeps
<1>3. CASE /\ \E rest \in {"absent", "partial"} : tmpZip' = [tmpZip EXCEPT ![p].state = rest]
           /\ PullEnds(p, "failed") /\ UNCHANGED <<left, mixed>>
  <2>1. /\ transfer' \in [Pull -> PullRecord]
        /\ transfer'[p].status = "failed" /\ transfer'[p].pc = "end"
        /\ \A q \in Pull \ {p} : transfer'[q] = transfer[q]
    BY <1>3, EndsMoves DEF PullsInv
  <2>2. PICK rest \in {"absent", "partial"} : tmpZip' = [tmpZip EXCEPT ![p].state = rest]
    BY <1>3
  <2>3. tmpZip \in [Pull -> PullZip] /\ tmpZip[p] \in PullZip
    BY DEF PullsInv, PullsTypeOK, PullZip
  <2>4. [tmpZip[p] EXCEPT !.state = rest] \in PullZip
    BY <2>3 DEF PullZip
  <2>5. tmpZip' = [tmpZip EXCEPT ![p] = [tmpZip[p] EXCEPT !.state = rest]]
    BY <2>2, <2>3
  <2>6. tmpZip' \in [Pull -> PullZip] /\ \A q \in Pull \ {p} : tmpZip'[q] = tmpZip[q]
    BY <2>3, <2>4, <2>5
  <2>7. PullsTypeOK'
    BY <1>1, <1>3, <2>1, <2>6 DEF PullsInv, PullsTypeOK, PullRecord, PullZip
  <2>8. \A q \in Pull \ {p} : SamePull(q)
    BY <1>1, <1>3, <2>1, <2>6 DEF SamePull
  <2>9. SnapshotInv'
    <3> SUFFICES ASSUME NEW q \in Pull
                 PROVE  /\ transfer'[q].status = "none" => transfer'[q].pc = "ask"
                        /\ transfer'[q].pc = "ask" => snapshot'[q].status = "none"
                        /\ asked'[q] <= version'
                        /\ snapshot'[q].status = "done" => asked'[q] <= snapshot'[q].version
                        /\ PullAt(q, "unzip")' => asked'[q] <= tmpZip'[q].version
      BY DEF SnapshotInv
    <3>1. CASE q = p
      BY <1>1, <2>1, <3>1 DEF PullAt, PullsInv, SnapshotInv
    <3>2. CASE q # p
      <4>1. SamePull(q) /\ snapshot'[q] = snapshot[q] /\ version' = version
        BY <1>1, <2>8, <3>2
      <4> QED
        BY <4>1 DEF PullsInv, SnapshotInv, SamePull, PullAt
    <3> QED
      BY <3>1, <3>2
  <2>10. transfer[p].status # "done" /\ transfer[p].pc # "unzip" /\ transfer'[p].status # "done"
         /\ transfer'[p].pc # "unzip" /\ mirror' = mirror /\ mixed' = mixed /\ deleter' = deleter /\ uploading' = uploading
    BY <1>1, <1>3, <2>1 DEF PullAt
  <2> QED
    BY <2>7, <2>8, <2>9, <2>10, OtherStepsStay DEF PullsInv
<1> QED
  BY <1>2, <1>3 DEF FetchZip

\* While a pull extracts, nobody else whom nobody met is in the directory.
LEMMA ExtractsAlone ==
    ASSUME PullsInv, NEW p \in Pull, PullAt(p, "unzip")
    PROVE  \A q \in Pull \ mixed : Engaged(q) => q = p
<1>1. p \in Extracting
  BY DEF Extracting
<1> QED
  BY <1>1 DEF PullsInv, AloneInv

\* A file that is extracted; without success the pull ends.
LEMMA ExtractNextKeeps ==
    ASSUME PullsInv, NEW p \in Pull, NEW e \in Entry, ExtractNext(p, e)
    PROVE  PullsInv'
<1>1. /\ UNCHANGED <<version, snapshot, tmpZip, mirrorOps, pullFails, deleter, uploading, asked, mixed>>
      /\ PullAt(p, "unzip") /\ e \in left[p]
  BY DEF ExtractNext, peerVars
<1>2. PICK whole \in BOOLEAN :
         /\ mirror' = [mirror EXCEPT ![e] = [by |-> p, version |-> tmpZip[p].version, whole |-> whole]]
         /\ IF whole THEN left' = [left EXCEPT ![p] = @ \ {e}] /\ UNCHANGED transfer
            ELSE PullEnds(p, "failed") /\ UNCHANGED left
  BY DEF ExtractNext, AfterBadFile
<1>3. tmpZip[p] \in PullZip /\ left[p] \in SUBSET Entry
  BY PullSays DEF PullsInv
<1>4. [by |-> p, version |-> tmpZip[p].version, whole |-> whole] \in Mirrored
  BY <1>3 DEF Mirrored, PullZip
<1>5. mirror \in [Entry -> Mirrored]
  BY DEF PullsInv, PullsTypeOK, Mirrored
<1>6. /\ mirror' \in [Entry -> Mirrored]
      /\ mirror'[e] = [by |-> p, version |-> tmpZip[p].version, whole |-> whole]
      /\ \A f \in Entry \ {e} : mirror'[f] = mirror[f]
  BY <1>2, <1>4, <1>5
<1>7. /\ transfer' \in [Pull -> PullRecord] /\ left' \in [Pull -> SUBSET Entry]
      /\ \A q \in Pull \ {p} : transfer'[q] = transfer[q] /\ left'[q] = left[q]
      /\ whole => transfer' = transfer /\ left'[p] = left[p] \ {e}
      /\ ~whole => transfer'[p].status = "failed" /\ transfer'[p].pc = "end"
  <2>1. left \in [Pull -> SUBSET Entry] /\ transfer \in [Pull -> PullRecord]
    BY DEF PullsInv, PullsTypeOK, PullRecord
  <2>2. CASE whole
    BY <1>2, <1>3, <2>1, <2>2
  <2>3. CASE ~whole
    <3>1. PullEnds(p, "failed") /\ left' = left
      BY <1>2, <2>3
    <3> QED
      BY <2>1, <2>3, <3>1, EndsMoves DEF PullsInv
  <2> QED
    BY <2>2, <2>3
<1>8. PullsTypeOK'
  BY <1>1, <1>6, <1>7 DEF PullsInv, PullsTypeOK, PullRecord, Mirrored
<1>9. \A q \in Pull \ {p} : SamePull(q)
  BY <1>1, <1>7 DEF SamePull
<1>10. \A q \in Pull : PullAt(q, "unzip")' => PullAt(q, "unzip")
  BY <1>7 DEF PullAt
<1>11. \A q \in Pull : transfer'[q].status = "done" => transfer[q].status = "done"
  BY <1>7
<1>12. \A q \in Pull \ mixed' : Engaged(q)' => q = p
  BY <1>1, <1>10, <1>11, ExtractsAlone DEF Engaged
<1>13. SnapshotInv'
  <2> SUFFICES ASSUME NEW q \in Pull
               PROVE  /\ transfer'[q].status = "none" => transfer'[q].pc = "ask"
                      /\ transfer'[q].pc = "ask" => snapshot'[q].status = "none"
                      /\ asked'[q] <= version'
                      /\ snapshot'[q].status = "done" => asked'[q] <= snapshot'[q].version
                      /\ PullAt(q, "unzip")' => asked'[q] <= tmpZip'[q].version
    BY DEF SnapshotInv
  <2>1. transfer'[q] = transfer[q] \/ (transfer'[q].status = "failed" /\ transfer'[q].pc = "end")
    BY <1>7
  <2> QED
    BY <1>1, <1>10, <2>1 DEF PullsInv, SnapshotInv
<1>14. AloneInv'
  <2>1. Extracting' \subseteq Extracting
    BY <1>10 DEF Extracting
  <2>2. \A q \in Pull : Engaged(q)' => Engaged(q)
    BY <1>10, <1>11 DEF Engaged
  <2> QED
    BY <1>1, <2>1, <2>2 DEF PullsInv, AloneInv
<1>15. ExtractedInv'
  <2>1. SUFFICES ASSUME p \in Pull \ mixed, PullAt(p, "unzip")', NEW f \in Entry \ left'[p]
                 PROVE  mirror'[f] = [by |-> p, version |-> tmpZip'[p].version, whole |-> TRUE]
    BY <1>1, <1>12 DEF ExtractedInv, Engaged
  <2>2. whole = TRUE /\ left'[p] = left[p] \ {e}
    BY <1>7, <2>1 DEF PullAt
  <2>3. CASE f = e
    BY <1>1, <1>6, <2>2, <2>3
  <2>4. CASE f # e
    <3>1. mirror[f] = [by |-> p, version |-> tmpZip[p].version, whole |-> TRUE]
      BY <1>1, <2>1, <2>2, <2>4 DEF PullsInv, ExtractedInv
    <3> QED
      BY <1>1, <1>6, <2>4, <3>1
  <2> QED
    BY <2>3, <2>4
<1>16. PullIsWhole'
  <2>1. SUFFICES ASSUME NEW q \in Pull \ mixed', transfer'[q].status = "done" PROVE FALSE
    BY DEF PullIsWhole
  <2>2. q = p
    BY <1>12, <2>1 DEF Engaged
  <2> QED
    BY <1>1, <1>11, <2>1, <2>2 DEF PullAt
<1> QED
  BY <1>8, <1>13, <1>14, <1>15, <1>16 DEF PullsInv, PullsHold

\* The end of a pull: all of its files are extracted.
LEMMA FinishPullKeeps ==
    ASSUME PullsInv, NEW p \in Pull, FinishPull(p)
    PROVE  PullsInv'
<1>1. /\ UNCHANGED <<version, snapshot, left, mirror, mirrorOps, pullFails, deleter, uploading, asked, mixed>>
      /\ PullAt(p, "unzip") /\ left[p] = {} /\ PullEnds(p, "done")
      /\ tmpZip' = tmpZip \/ tmpZip' = [tmpZip EXCEPT ![p].state = "absent"]
  BY DEF FinishPull, peerVars
<1>2. /\ transfer' \in [Pull -> PullRecord]
      /\ transfer'[p].status = "done" /\ transfer'[p].pc = "end"
      /\ \A q \in Pull \ {p} : transfer'[q] = transfer[q]
  BY <1>1, EndsMoves DEF PullsInv
<1>3. tmpZip \in [Pull -> PullZip] /\ tmpZip[p] \in PullZip
  BY DEF PullsInv, PullsTypeOK, PullZip
<1>4. [tmpZip[p] EXCEPT !.state = "absent"] \in PullZip
  BY <1>3 DEF PullZip
<1>5. tmpZip' = tmpZip \/ tmpZip' = [tmpZip EXCEPT ![p] = [tmpZip[p] EXCEPT !.state = "absent"]]
  BY <1>1, <1>3
<1>6. tmpZip' \in [Pull -> PullZip] /\ \A q \in Pull \ {p} : tmpZip'[q] = tmpZip[q]
  BY <1>3, <1>4, <1>5
<1>7. PullsTypeOK'
  BY <1>1, <1>2, <1>6 DEF PullsInv, PullsTypeOK, PullRecord, PullZip
<1>8. \A q \in Pull \ {p} : SamePull(q)
  BY <1>1, <1>2, <1>6 DEF SamePull
<1>9. \A q \in Pull : PullAt(q, "unzip")' => q # p /\ PullAt(q, "unzip")
  BY <1>2 DEF PullAt
<1>10. \A q \in Pull : Engaged(q)' => Engaged(q)
  BY <1>1, <1>2 DEF Engaged, PullAt
<1>11. SnapshotInv'
  <2> SUFFICES ASSUME NEW q \in Pull
               PROVE  /\ transfer'[q].status = "none" => transfer'[q].pc = "ask"
                      /\ transfer'[q].pc = "ask" => snapshot'[q].status = "none"
                      /\ asked'[q] <= version'
                      /\ snapshot'[q].status = "done" => asked'[q] <= snapshot'[q].version
                      /\ PullAt(q, "unzip")' => asked'[q] <= tmpZip'[q].version
    BY DEF SnapshotInv
  <2>1. CASE q = p
    BY <1>1, <1>2, <2>1 DEF PullAt, PullsInv, SnapshotInv
  <2>2. CASE q # p
    <3>1. SamePull(q) /\ snapshot'[q] = snapshot[q] /\ version' = version
      BY <1>1, <1>8, <2>2
    <3> QED
      BY <3>1 DEF PullsInv, SnapshotInv, SamePull, PullAt
  <2> QED
    BY <2>1, <2>2
<1>12. AloneInv'
  <2>1. Extracting' \subseteq Extracting
    BY <1>9 DEF Extracting
  <2> QED
    BY <1>1, <1>10, <2>1 DEF PullsInv, AloneInv
<1>13. ExtractedInv'
  BY <1>1, <1>8, <1>9 DEF PullsInv, ExtractedInv, SamePull
<1>14. PullIsWhole'
  <2>1. SUFFICES ASSUME NEW q \in Pull \ mixed', transfer'[q].status = "done"
                 PROVE  \E w \in asked'[q]..MaxVersion :
                           \A e \in Entry : mirror'[e] = [by |-> q, version |-> w, whole |-> TRUE]
    BY DEF PullIsWhole
  <2>2. q = p
    <3>1. Engaged(q)
      BY <1>10, <2>1 DEF Engaged
    <3> QED
      BY <1>1, <2>1, <3>1, ExtractsAlone
  <2>3. asked[p] <= tmpZip[p].version /\ tmpZip[p].version \in 0..MaxVersion /\ asked[p] \in 0..MaxVersion
    BY <1>1, PullSays DEF PullsInv, SnapshotInv, PullZip
  <2>4. tmpZip[p].version \in asked[p]..MaxVersion
    BY <2>3, PullAssumption
  <2>5. \A e \in Entry : mirror[e] = [by |-> p, version |-> tmpZip[p].version, whole |-> TRUE]
    BY <1>1, <2>1, <2>2 DEF PullsInv, ExtractedInv
  <2> QED
    BY <1>1, <2>2, <2>4, <2>5
<1> QED
  BY <1>7, <1>11, <1>12, <1>13, <1>14 DEF PullsInv, PullsHold

----------------------------------------------------------------------------
\* A deletion meets every pull that is engaged.
LEMMA StartDeleteKeeps == ASSUME PullsInv, StartDelete PROVE PullsInv'
<1>1. /\ UNCHANGED <<version, snapshot, transfer, tmpZip, left, mirror, pullFails, uploading, asked>>
      /\ deleter = {} /\ mirrorOps < MaxMirrorOps /\ mirrorOps' = mirrorOps + 1 /\ deleter' = Entry
      /\ mixed' = mixed \cup Reached
  BY DEF StartDelete, peerVars, Meets
<1>2. mirrorOps' \in 0..MaxMirrorOps /\ mixed' \subseteq Pull
  BY <1>1, PullAssumption DEF PullsInv, PullsTypeOK, Reached
<1>3. PullsTypeOK'
  BY <1>1, <1>2 DEF PullsInv, PullsTypeOK
<1>4. \A q \in Pull \ mixed' : ~Engaged(q)'
  BY <1>1 DEF Reached, Engaged, PullAt
<1>5. SnapshotInv'
  BY <1>1 DEF PullsInv, SnapshotInv, PullAt
<1>6. AloneInv' /\ ExtractedInv' /\ PullIsWhole'
  BY <1>4 DEF AloneInv, ExtractedInv, PullIsWhole, Engaged
<1> QED
  BY <1>3, <1>5, <1>6 DEF PullsInv, PullsHold

LEMMA DeleteNextKeeps ==
    ASSUME PullsInv, NEW e \in Entry, DeleteNext(e)
    PROVE  PullsInv'
<1>1. /\ UNCHANGED <<version, snapshot, transfer, tmpZip, left, mirrorOps, pullFails, uploading, asked, mixed>>
      /\ e \in deleter /\ deleter' = deleter \ {e} /\ mirror' = [mirror EXCEPT ![e] = Gone]
  BY DEF DeleteNext, peerVars
<1>2. Gone \in Mirrored
  <2>1. 0 \in 0..MaxVersion
    BY PullAssumption
  <2> QED
    BY <2>1 DEF Gone, Mirrored
<1>3. mirror' \in [Entry -> Mirrored]
  BY <1>1, <1>2 DEF PullsInv, PullsTypeOK, Mirrored
<1>4. PullsTypeOK'
  BY <1>1, <1>3 DEF PullsInv, PullsTypeOK, Mirrored
<1>5. \A q \in Pull \ mixed' : ~Engaged(q)'
  BY <1>1 DEF PullsInv, AloneInv, Engaged, PullAt
<1>6. SnapshotInv'
  BY <1>1 DEF PullsInv, SnapshotInv, PullAt
<1>7. AloneInv' /\ ExtractedInv' /\ PullIsWhole'
  BY <1>5 DEF AloneInv, ExtractedInv, PullIsWhole, Engaged
<1> QED
  BY <1>4, <1>6, <1>7 DEF PullsInv, PullsHold

\* An upload meets them too,
LEMMA StartMirrorUploadKeeps ==
    ASSUME PullsInv, NEW e \in Entry, StartMirrorUpload(e)
    PROVE  PullsInv'
<1>1. /\ UNCHANGED <<version, snapshot, transfer, tmpZip, left, pullFails, deleter, asked>>
      /\ mirrorOps < MaxMirrorOps /\ mirrorOps' = mirrorOps + 1 /\ uploading' = uploading \cup {e}
      /\ mirror' = [mirror EXCEPT ![e] = Gone] /\ mixed' = mixed \cup Reached
  BY DEF StartMirrorUpload, peerVars, Meets
<1>2. mirrorOps' \in 0..MaxMirrorOps /\ mixed' \subseteq Pull
  BY <1>1, PullAssumption DEF PullsInv, PullsTypeOK, Reached
<1>3. Gone \in Mirrored
  <2>1. 0 \in 0..MaxVersion
    BY PullAssumption
  <2> QED
    BY <2>1 DEF Gone, Mirrored
<1>4. mirror' \in [Entry -> Mirrored]
  BY <1>1, <1>3 DEF PullsInv, PullsTypeOK, Mirrored
<1>5. PullsTypeOK'
  BY <1>1, <1>2, <1>4 DEF PullsInv, PullsTypeOK, Mirrored
<1>6. \A q \in Pull \ mixed' : ~Engaged(q)'
  BY <1>1 DEF Reached, Engaged, PullAt
<1>7. SnapshotInv'
  BY <1>1 DEF PullsInv, SnapshotInv, PullAt
<1>8. AloneInv' /\ ExtractedInv' /\ PullIsWhole'
  BY <1>6 DEF AloneInv, ExtractedInv, PullIsWhole, Engaged
<1> QED
  BY <1>5, <1>7, <1>8 DEF PullsInv, PullsHold

\* and until it has ended nobody unmet is there.
LEMMA EndMirrorUploadKeeps ==
    ASSUME PullsInv, NEW e \in Entry, EndMirrorUpload(e)
    PROVE  PullsInv'
<1>1. /\ UNCHANGED <<version, snapshot, transfer, tmpZip, left, mirrorOps, pullFails, deleter, asked, mixed>>
      /\ e \in uploading /\ uploading' = uploading \ {e}
  BY DEF EndMirrorUpload, peerVars
<1>2. PICK got \in {Gone, UploadedFile} : mirror' = [mirror EXCEPT ![e] = got]
  BY DEF EndMirrorUpload
<1>3. got \in Mirrored
  <2>1. 0 \in 0..MaxVersion
    BY PullAssumption
  <2>2. Gone \in Mirrored
    BY <2>1 DEF Gone, Mirrored
  <2>3. UploadedFile = [Gone EXCEPT !.whole = TRUE]
    BY DEF UploadedFile
  <2>4. UploadedFile \in Mirrored
    BY <2>2, <2>3 DEF Mirrored
  <2> QED
    BY <1>2, <2>2, <2>4
<1>4. mirror' \in [Entry -> Mirrored]
  BY <1>2, <1>3 DEF PullsInv, PullsTypeOK, Mirrored
<1>5. PullsTypeOK'
  BY <1>1, <1>4 DEF PullsInv, PullsTypeOK, Mirrored
<1>6. \A q \in Pull \ mixed' : ~Engaged(q)'
  BY <1>1 DEF PullsInv, AloneInv, Engaged, PullAt
<1>7. SnapshotInv'
  BY <1>1 DEF PullsInv, SnapshotInv, PullAt
<1>8. AloneInv' /\ ExtractedInv' /\ PullIsWhole'
  BY <1>6 DEF AloneInv, ExtractedInv, PullIsWhole, Engaged
<1> QED
  BY <1>5, <1>7, <1>8 DEF PullsInv, PullsHold

\* A restart of this node: what ran is lost, what was done stays.
LEMMA LoseTransfersKeeps == ASSUME PullsInv, LoseTransfers PROVE PullsInv'
<1>1. /\ UNCHANGED <<version, snapshot, tmpZip, left, mirror, mirrorOps, asked, mixed>>
      /\ deleter' = {} /\ uploading' = {}
      /\ transfer' = [p \in Pull |-> IF transfer[p].status = "running"
                                     THEN [transfer[p] EXCEPT !.status = "lost"] ELSE transfer[p]]
  BY DEF LoseTransfers, peerVars
<1>2. pullFails' \in 0..MaxPullFails
  BY PullAssumption DEF PullsInv, PullsTypeOK, LoseTransfers, PullFail
<1>3. \A p \in Pull : transfer[p] \in PullRecord
  BY PullSays DEF PullsInv
<1>4. \A p \in Pull : /\ [transfer[p] EXCEPT !.status = "lost"] \in PullRecord
                      /\ [transfer[p] EXCEPT !.status = "lost"].status = "lost"
                      /\ [transfer[p] EXCEPT !.status = "lost"].pc = transfer[p].pc
  BY <1>3 DEF PullRecord
<1>5. \A p \in Pull : /\ transfer'[p] \in PullRecord /\ transfer'[p].pc = transfer[p].pc
                      /\ \/ transfer'[p].status = "lost"
                         \/ transfer[p].status # "running" /\ transfer'[p] = transfer[p]
  BY <1>1, <1>3, <1>4
<1>6. transfer' \in [Pull -> PullRecord]
  BY <1>1, <1>5
<1>7. PullsTypeOK'
  BY <1>1, <1>2, <1>6 DEF PullsInv, PullsTypeOK, PullRecord
<1>8. \A p \in Pull : ~PullAt(p, "unzip")'
  BY <1>5 DEF PullAt
<1>9. \A p \in Pull : transfer'[p].status = "done" => transfer[p].status = "done"
  BY <1>5
<1>10. SnapshotInv'
  <2> SUFFICES ASSUME NEW q \in Pull
               PROVE  /\ transfer'[q].status = "none" => transfer'[q].pc = "ask"
                      /\ transfer'[q].pc = "ask" => snapshot'[q].status = "none"
                      /\ asked'[q] <= version'
                      /\ snapshot'[q].status = "done" => asked'[q] <= snapshot'[q].version
                      /\ PullAt(q, "unzip")' => asked'[q] <= tmpZip'[q].version
    BY DEF SnapshotInv
  <2> QED
    BY <1>1, <1>5, <1>8 DEF PullsInv, SnapshotInv
<1>11. AloneInv' /\ ExtractedInv'
  BY <1>1, <1>8 DEF AloneInv, ExtractedInv, Extracting
<1>12. PullsHold'
  BY <1>1, <1>9 DEF PullsInv, PullsHold, PullIsWhole
<1> QED
  BY <1>7, <1>10, <1>11, <1>12 DEF PullsInv

\* Every step keeps the invariant.
LEMMA PullsKept == ASSUME PullsInv, [PullsNext]_pullVars PROVE PullsInv'
<1>1. CASE UNCHANGED pullVars
  <2>1. SameDirectory /\ UNCHANGED <<version, snapshot, mirrorOps, pullFails>>
    BY <1>1 DEF pullVars, peerVars, SameDirectory
  <2> QED
    BY <2>1, DirectoryStays
    DEF PullsInv, PullsTypeOK, SnapshotInv, SameDirectory, PullAt
<1>2. CASE EditSource
  BY <1>2, EditSourceKeeps
<1>3. CASE PeerRestarts
  BY <1>3, PeerRestartsKeeps
<1>4. CASE StartDelete
  BY <1>4, StartDeleteKeeps
<1>5. CASE LoseTransfers
  BY <1>5, LoseTransfersKeeps
<1>6. ASSUME NEW e \in Entry, DeleteNext(e) PROVE PullsInv'
  BY <1>6, DeleteNextKeeps
<1>13. ASSUME NEW e \in Entry, StartMirrorUpload(e) \/ EndMirrorUpload(e) PROVE PullsInv'
  BY <1>13, StartMirrorUploadKeeps, EndMirrorUploadKeeps
<1>7. ASSUME NEW p \in Pull, PeerSnapshots(p) PROVE PullsInv'
  BY <1>7, PeerSnapshotsKeeps
<1>8. ASSUME NEW p \in Pull, StartPull(p) PROVE PullsInv'
  BY <1>8, StartPullKeeps
<1>9. ASSUME NEW p \in Pull, AskSnapshot(p) \/ PollSnapshot(p) \/ AskTicket(p) PROVE PullsInv'
  BY <1>9, RequestKeeps
<1>10. ASSUME NEW p \in Pull, FetchZip(p) PROVE PullsInv'
  BY <1>10, FetchZipKeeps
<1>11. ASSUME NEW p \in Pull, FinishPull(p) PROVE PullsInv'
  BY <1>11, FinishPullKeeps
<1>12. ASSUME NEW p \in Pull, NEW e \in Entry, ExtractNext(p, e) PROVE PullsInv'
  BY <1>12, ExtractNextKeeps
<1> QED
  BY <1>1, <1>2, <1>3, <1>4, <1>5, <1>6, <1>7, <1>8, <1>9, <1>10, <1>11, <1>12, <1>13, Zenon
     DEF PullsNext, PullStep

\* A pull that says it is done has the whole of one snapshot in the mirror, unless another
\* pull, a deletion or an upload met it there (runTransfer).
THEOREM PullsSafe == PullsSpec => [](PullsTypeOK /\ PullsHold)
<1>1. PullsInv => PullsTypeOK /\ PullsHold
  BY DEF PullsInv
<1> QED
  BY <1>1, PullsBegin, PullsKept, PTL DEF PullsSpec

-----------------------------------------------------------------------------
(* The services together, as MCServices runs them.                          *)

\* The services begin as each of them does.
LEMMA ServicesInit ==
    Init => /\ TrashInv /\ BackupsInv /\ TransfersInv
            /\ TasksInv /\ InstallsInv /\ CoresInv /\ PullsInv
BY TrashInitHolds, BackupsInitHolds, TransfersInitHolds, TasksBegin, InstallsBegin, CoresBegin,
   PullsBegin
DEF Init

\* A step of the services is a step of one of them and leaves the others alone.
LEMMA ServicesStep ==
    ASSUME [Next]_vars
    PROVE  /\ [TrashNext]_trashVars /\ [BackupsNext]_backupVars /\ [TransfersNext]_transferVars
           /\ [TasksNext]_taskVars /\ [InstallsNext]_installVars /\ [CoresNext]_coreVars
           /\ [PullsNext]_pullVars
<1>1. CASE UNCHANGED vars
  BY <1>1 DEF vars
<1>2. CASE Next
  BY <1>2 DEF Next
<1> QED
  BY <1>1, <1>2

\* FilesHold: what the recycle bin, the backups and the uploads answered for is in the bin,
\* in the archives and in the directory of the instance.
THEOREM FilesAreKept == Spec => []FilesHold
<1> DEFINE SInv == TrashInv /\ BackupsInv /\ TransfersInv
<1>1. Init => SInv
  BY ServicesInit
<1>2. SInv /\ [Next]_vars => SInv'
  BY ServicesStep, TrashStep, BackupsStep, TransfersStep
<1>3. SInv => FilesHold
  BY TrashInvHolds, BackupsInvHolds, TransfersInvHolds DEF FilesHold
<1> QED
  BY <1>1, <1>2, <1>3, PTL DEF Spec

\* WorkHolds: the table of tasks is in order and bounded and finds what runs, a JDK that is
\* reported as installed is in place, a server program is whole at every moment, and a
\* transfer that is reported as done is one whole snapshot, but for what others did there.
THEOREM WorkIsDone == Spec => []WorkHolds
<1> DEFINE WInv == TasksInv /\ InstallsInv /\ CoresInv /\ PullsInv
<1>1. Init => WInv
  BY ServicesInit
<1>2. WInv /\ [Next]_vars => WInv'
  <2>1. TasksInv /\ [Next]_vars => TasksInv'
    BY ServicesStep, TasksKept
  <2>2. InstallsInv /\ [Next]_vars => InstallsInv'
    BY ServicesStep, InstallsStay
  <2>3. CoresInv /\ [Next]_vars => CoresInv'
    BY ServicesStep, CoresStay
  <2>4. PullsInv /\ [Next]_vars => PullsInv'
    BY ServicesStep, PullsKept
  <2> QED
    BY <2>1, <2>2, <2>3, <2>4
<1>3. WInv => WorkHolds
  BY DEF WorkHolds, TasksInv, InstallsInv, CoresInv, PullsInv
<1> QED
  BY <1>1, <1>2, <1>3, PTL DEF Spec
=============================================================================
