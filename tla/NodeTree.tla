------------------------------- MODULE NodeTree -------------------------------
(***************************************************************************)
(* The node table (internal/biz/node.go, internal/data/node.go): folders   *)
(* and files with a parent id and a materialised path of ancestor ids, the *)
(* trash, restore, permanent delete and copies of subtrees.                *)
(*                                                                         *)
(* One account owns every node and holds every permission.  An operation   *)
(* that is one write transaction (WithTx holds writeMu) is one action; the *)
(* three that read before their transaction, EmptyTrash, purge_trash and   *)
(* CopyNodes, are two.  A batch is the sequence of its single operations:  *)
(* refused as a whole it changes nothing.                                  *)
(***************************************************************************)
EXTENDS Integers, Sequences, FiniteSets, FiniteSetsExt, SequencesExt

CONSTANTS
    MaxId,     \* ids are 1..MaxId in the order NewID hands them out
    Names,     \* names
    Lower,     \* strings.ToLower on them
    CaseFold,  \* storage.case_insensitive_names
    MaxDepth,  \* storage.max_path_depth
    PageSize,  \* the limit of a ListNodes that names none (50)
    Ops        \* the operations a run lets happen

ASSUME TreeConstants ==
    /\ MaxId \in Nat
    /\ Names # {}
    /\ Lower \in [Names -> Names]
    /\ \A n \in Names : Lower[Lower[n]] = Lower[n]
    /\ CaseFold \in BOOLEAN
    /\ MaxDepth \in Nat
    /\ PageSize \in Nat
    /\ Ops \subseteq {"rename", "move", "editTrashed", "trashAgain", "mixedTrash", "restore",
                      "copy", "staleTarget", "empty", "purgeTrash"}

VARIABLES
    row,  \* the nodes table
    call  \* the call between its read and its transaction

vars == <<row, call>>

-----------------------------------------------------------------------------
Ids  == 1..MaxId
Root == 0  \* uuid.Nil

\* lower: the column name_lower; old: trashed before the retention window.
Node == [status : {"active", "trashed"}, kind : {"file", "folder"}, name : Names, lower : Names,
         parent : Ids \cup {Root}, path : Seq(Ids), depth : Nat,
         orig : Ids \cup {Root}, old : BOOLEAN]
NoNode == [status |-> "none"]

Rows    == { i \in Ids : row[i].status # "none" }
Active  == { i \in Ids : row[i].status = "active" }
Trashed == { i \in Ids : row[i].status = "trashed" }
Folders == { i \in Rows : row[i].kind = "folder" }

\* What an operation knows of a destination folder.
Place     == [id : Ids \cup {Root}, path : Seq(Ids), depth : Nat \cup {-1}]
RootPlace == [id |-> Root, path |-> <<>>, depth |-> -1]
PlaceOf(p) == IF p = Root THEN RootPlace ELSE [id |-> p, path |-> row[p].path, depth |-> row[p].depth]

CallState == [pc : {"idle", "purge", "copy"}, ids : SUBSET Ids, place : Place]
IdleCall  == [pc |-> "idle", ids |-> {}, place |-> RootPlace]

Init ==
    /\ row = [i \in Ids |-> NoNode]
    /\ call = IdleCall

\* PathHasPrefix: the subtree as every statement on it selects it.
Under(path) == { i \in Rows : IsPrefix(path, row[i].path) }
Subtree(i)  == Under(row[i].path)

ChildPath(place, i) == Append(place.path, i)

\* The first page of a list, ordered by id.
Page(S) == { i \in S : Cardinality({ j \in S : j < i }) < PageSize }

\* loadWritableParent and parentLocation.
Writable(p) == p = Root \/ (p \in Active /\ row[p].kind = "folder")

FitsUnder(place) == place.depth + 1 < MaxDepth

\* NewID: ids ascend, and no row and no call ever saw the new one.
NextId ==
    LET known == UNION { {i, row[i].parent, row[i].orig} \cup ToSet(row[i].path) : i \in Rows }
        seen  == {Root} \cup known \cup call.ids \cup {call.place.id} \cup ToSet(call.place.path)
    IN  1 + Max(seen)

-----------------------------------------------------------------------------
(* Names.                                                                  *)

\* foldName: folders, renames and moves store it; uploads, copies and RenameNode always
\* store the lowercase, and every lookup asks for the lowercase.
Fold(name) == IF CaseFold THEN Lower[name] ELSE name

\* NextAvailableName under p.
FreeNames(p) == { n \in Names : \A i \in Active : row[i].parent = p => row[i].lower # Lower[n] }

\* Mutant: the entries of the trash are asked, not the live ones.
Resolved_trash(p, name, self) ==
    IF \E i \in Trashed \ {self} : row[i].parent = p /\ row[i].lower = Lower[name] THEN FreeNames(p) ELSE {name}

\* resolveName: the names the policy may give; with policy FAIL a taken name is refused.
Resolved(p, name, self) ==
    IF \E i \in Active \ {self} : row[i].parent = p /\ row[i].lower = Lower[name] THEN FreeNames(p) ELSE {name}

-----------------------------------------------------------------------------
(* Creating, renaming, moving.                                             *)

\* CreateFolder, and commitNode for a file.
Create(p, kind, name) ==
    LET i == NextId IN
    /\ Writable(p)
    /\ FitsUnder(PlaceOf(p))
    /\ i \in Ids
    /\ \E given \in Resolved(p, name, Root) :
          row' = [row EXCEPT ![i] =
                    [status |-> "active", kind |-> kind, name |-> given,
                     lower |-> IF kind = "file" THEN Lower[given] ELSE Fold(given), parent |-> p,
                     path |-> ChildPath(PlaceOf(p), i), depth |-> PlaceOf(p).depth + 1,
                     orig |-> Root, old |-> FALSE]]
    /\ UNCHANGED call

\* Mutant: the depth difference the wrong way round.
Relocated_deltaSign(rows, i, place) ==
    LET delta == rows[i].depth - (place.depth + 1)
    IN  [j \in Ids |-> IF j = i THEN [rows[j] EXCEPT !.parent = place.id, !.path = ChildPath(place, i), !.depth = @ + delta]
                       ELSE rows[j]]

\* RelocateSubtree: every path with the old prefix, every depth by the same difference.
Relocated(rows, i, place) ==
    LET old == rows[i].path
        delta == place.depth + 1 - rows[i].depth
        moved(j) == [rows[j] EXCEPT !.path = ChildPath(place, i) \o SubSeq(@, Len(old) + 1, Len(@)),
                                    !.depth = @ + delta]
    IN  [j \in Ids |-> IF j = i THEN [moved(i) EXCEPT !.parent = place.id]
                       ELSE IF j \in Subtree(i) THEN moved(j)
                       ELSE rows[j]]

\* UpdateNode with a name only.
Rename(i, name) ==
    /\ "rename" \in Ops
    /\ i \in Active \/ (i \in Trashed /\ "editTrashed" \in Ops)
    /\ name # row[i].name
    /\ \E given \in Resolved(row[i].parent, name, i) :
          row' = [row EXCEPT ![i].name = given, ![i].lower = Fold(given)]
    /\ UNCHANGED call

\* Mutant: the destination is not compared with the node's own subtree.
MoveNode_anywhere(i, p, name) ==
    /\ "move" \in Ops
    /\ i \in Active /\ p # i /\ p # row[i].parent /\ Writable(p) /\ FitsUnder(PlaceOf(p))
    /\ \E given \in Resolved(p, row[i].name, i) :
          row' = [Relocated(row, i, PlaceOf(p)) EXCEPT ![i].name = given]
    /\ UNCHANGED call

\* relocate, then RenameNode when MoveNodes is given a new name.
MoveNode(i, p, name) ==
    /\ "move" \in Ops
    /\ i \in Active \/ (i \in Trashed /\ "editTrashed" \in Ops)
    /\ p # i /\ p # row[i].parent
    /\ Writable(p)
    /\ ~(i \in Folders /\ IsPrefix(row[i].path, PlaceOf(p).path))
    /\ FitsUnder(PlaceOf(p))
    /\ \E first \in Resolved(p, row[i].name, i) :
          LET moved == Relocated(row, i, PlaceOf(p)) IN
          \/ row' = [moved EXCEPT ![i].name = first,
                                  ![i].lower = IF first = row[i].name THEN @ ELSE Fold(first)]
          \/ \E given \in Resolved(p, name, i) :
                row' = [moved EXCEPT ![i].name = given, ![i].lower = Lower[given]]
    /\ UNCHANGED call

-----------------------------------------------------------------------------
(* The trash.                                                              *)

\* Mutant: every row keeps its own parent as the original one.
TrashedFrom_own(rows, i) ==
    [j \in Ids |-> IF j \in Subtree(i)
                   THEN [rows[j] EXCEPT !.status = "trashed", !.orig = rows[j].parent, !.old = FALSE]
                   ELSE rows[j]]

\* SetSubtreeStatus: the parent of the deleted node becomes everybody's original parent.
TrashedFrom(rows, i) ==
    [j \in Ids |-> IF j \in Subtree(i)
                   THEN [rows[j] EXCEPT !.status = "trashed", !.orig = rows[i].parent, !.old = FALSE]
                   ELSE rows[j]]

\* Mutant: only the node itself and its children turn.
TrashNode_shallow(i) ==
    /\ i \in Active
    /\ row' = [j \in Ids |-> IF j = i \/ (j \in Rows /\ row[j].parent = i)
                             THEN [row[j] EXCEPT !.status = "trashed", !.orig = row[i].parent, !.old = FALSE]
                             ELSE row[j]]
    /\ UNCHANGED call

\* DeleteNodes looks neither at the node's own status nor below it.
TrashNode(i) ==
    /\ i \in Active \/ (i \in Trashed /\ "trashAgain" \in Ops)
    /\ "mixedTrash" \in Ops \/ Subtree(i) \cap Trashed = {}
    /\ row' = TrashedFrom(row, i)
    /\ UNCHANGED call

\* TrashAllForOwner (DeleteUser with trash_nodes): every active top level entry.
TrashAll ==
    LET tops == { i \in Active : row[i].parent = Root }
        all  == UNION { Subtree(i) : i \in tops }
    IN  /\ tops # {}
        /\ "mixedTrash" \in Ops \/ all \cap Trashed = {}
        /\ row' = [j \in Ids |-> IF j \in all
                                 THEN [row[j] EXCEPT !.status = "trashed", !.orig = Root, !.old = FALSE]
                                 ELSE row[j]]
        /\ UNCHANGED call

\* RestoreNodes: to the folder asked for, else the original one, else the root; only the
\* name of the top is resolved, and the whole subtree turns active.
RestoreNode(i, asked) ==
    LET target == IF asked # Root THEN asked ELSE row[i].orig
        p == IF target \in Rows THEN target ELSE Root
        moved == Relocated(row, i, PlaceOf(p))
    IN  /\ "restore" \in Ops
        /\ i \in Trashed
        /\ Writable(p)
        /\ FitsUnder(PlaceOf(p))
        /\ \E given \in Resolved(p, row[i].name, i) :
              row' = [j \in Ids |->
                        IF j \in Subtree(i)
                        THEN [moved[j] EXCEPT !.status = "active", !.orig = Root, !.old = FALSE,
                                              !.name = IF j = i THEN given ELSE @,
                                              !.lower = IF j = i /\ given # row[i].name THEN Lower[given] ELSE @]
                        ELSE row[j]]
        /\ UNCHANGED call

\* Time passes: what is in the trash now is beyond the retention window.
Age ==
    /\ {"empty", "purgeTrash"} \cap Ops # {}
    /\ \E i \in Trashed : ~row[i].old
    /\ row' = [i \in Ids |-> IF i \in Trashed THEN [row[i] EXCEPT !.old = TRUE] ELSE row[i]]
    /\ UNCHANGED call

-----------------------------------------------------------------------------
(* Permanent delete.                                                       *)

\* What PurgeNodes removes for the ids in S, in ascending order: a page of each subtree;
\* an id that an earlier one took along is not found and refuses the batch.
RemovedBefore(S) ==
    LET gone[n \in 0..MaxId] ==
            IF n = 0 THEN {}
            ELSE gone[n - 1] \cup (IF n \in S THEN Page(Subtree(n) \ gone[n - 1]) ELSE {})
    IN  gone

Purgeable(S) ==
    /\ S \subseteq Trashed
    /\ \A i \in S : i \notin RemovedBefore(S)[i - 1]

PurgeNodes(S) ==
    IF Purgeable(S)
    THEN row' = [i \in Ids |-> IF i \in RemovedBefore(S)[MaxId] THEN NoNode ELSE row[i]]
    ELSE UNCHANGED row

\* PurgeNodes of one node, as DeleteNodes(permanent) and the API call it.
PurgeNode(i) ==
    /\ i \in Trashed
    /\ PurgeNodes({i})
    /\ UNCHANGED call

\* The trash list: the top of every deleted subtree.
TrashRoots == { i \in Trashed : row[i].parent = row[i].orig }
Expired    == { i \in Trashed : row[i].old }

\* EmptyTrash lists before its transaction; trashed_before may narrow the list.
ListTrash ==
    /\ "empty" \in Ops
    /\ call.pc = "idle"
    /\ \E S \in {Page(TrashRoots), Page(TrashRoots) \cap Expired} :
          S # {} /\ call' = [IdleCall EXCEPT !.pc = "purge", !.ids = S]
    /\ UNCHANGED row

\* purge_trash lists every expired entry, tops or not.
ListExpired ==
    /\ "purgeTrash" \in Ops
    /\ call.pc = "idle"
    /\ Expired # {}
    /\ call' = [IdleCall EXCEPT !.pc = "purge", !.ids = Expired]
    /\ UNCHANGED row

PurgeListed ==
    /\ call.pc = "purge"
    /\ PurgeNodes(call.ids)
    /\ call' = IdleCall

-----------------------------------------------------------------------------
(* CopyNodes.                                                              *)

\* The target is loaded before the transaction.  Bound: an id is left for a copy.
LoadTarget(p) ==
    /\ "copy" \in Ops
    /\ call.pc = "idle"
    /\ NextId \in Ids
    /\ Writable(p)
    /\ call' = [IdleCall EXCEPT !.pc = "copy", !.place = PlaceOf(p)]
    /\ UNCHANGED row

\* What copyTree visits: the first page of the active children, level by level.
Visited(i) ==
    LET listed == UNION { Page({ j \in Active : row[j].parent = k }) : k \in Rows }
    IN  { j \in Subtree(i) : j = i \/ \A k \in ToSet(row[j].path) \ ToSet(row[i].path) : k \in listed }

\* Mutant: the copies of the descendants keep the paths of their sources.
CopyNode_sourcePaths(i, name) ==
    LET place == call.place
        copy(j) == NextId + Cardinality({ k \in Visited(i) : k < j })
    IN  /\ call.pc = "copy" /\ i \in Active /\ i \notin ToSet(place.path)
        /\ Writable(place.id) /\ place = PlaceOf(place.id)
        /\ NextId + Cardinality(Visited(i)) - 1 <= MaxId
        /\ row' = [n \in Ids |->
                     IF \E j \in Visited(i) : copy(j) = n
                     THEN LET j == CHOOSE k \in Visited(i) : copy(k) = n
                          IN  [row[j] EXCEPT !.parent = IF j = i THEN place.id ELSE copy(row[j].parent),
                                             !.path = IF j = i THEN ChildPath(place, n) ELSE @]
                     ELSE row[n]]
        /\ call' = IdleCall

\* The names copyTree gives: that of the top is resolved in the target folder, those of
\* the others among the copies before them in theirs.
CopyNames(i, nodes, place, name) ==
    { given \in [nodes -> Names] :
        /\ given[i] \in Resolved(place.id, name, Root)
        /\ \A j \in nodes \ {i} :
              LET before == { k \in nodes \ {i} : k < j /\ row[k].parent = row[j].parent }
                  taken  == { Lower[given[k]] : k \in before }
              IN  IF Lower[row[j].name] \in taken THEN Lower[given[j]] \notin taken
                  ELSE given[j] = row[j].name }

\* copyTree, whole or not at all, under the node's name or one of NewNames; a holder of
\* trash_manage may copy out of the trash.  A copy into itself recurses until MaxDepth
\* refuses it.  The copies get ascending ids in the order of their sources.
CopyNode(i, name) ==
    LET place == call.place
        nodes == Visited(i)
        next == NextId
        copy(j) == next + Cardinality({ k \in nodes : k < j })
        below(j) == SubSeq(row[j].path, Len(row[i].path) + 1, Len(row[j].path))
        copied(j, given) ==
            [row[j] EXCEPT !.status = "active", !.name = given, !.lower = Lower[given],
                !.orig = Root, !.old = FALSE,
                !.parent = IF j = i THEN place.id ELSE copy(row[j].parent),
                !.path = ChildPath(place, copy(i)) \o [n \in DOMAIN below(j) |-> copy(below(j)[n])],
                !.depth = place.depth + 1 + Len(below(j))]
    IN  /\ call.pc = "copy"
        /\ i \in Rows
        /\ "staleTarget" \in Ops \/ (Writable(place.id) /\ place = PlaceOf(place.id))
        /\ i \notin ToSet(place.path)
        /\ next + Cardinality(nodes) - 1 <= MaxId
        /\ \A j \in nodes : place.depth + 1 + Len(below(j)) < MaxDepth
        /\ \E given \in CopyNames(i, nodes, place, name) :
              row' = [n \in Ids |->
                        IF \E j \in nodes : copy(j) = n
                        THEN LET j == CHOOSE k \in nodes : copy(k) = n IN copied(j, given[j])
                        ELSE row[n]]
        /\ call' = IdleCall

\* The call is refused or cut short: the transaction leaves nothing.
CallEnds ==
    /\ call.pc # "idle"
    /\ call' = IdleCall
    /\ UNCHANGED row

-----------------------------------------------------------------------------
Next ==
    \/ \E p \in Ids \cup {Root}, name \in Names :
          \/ \E kind \in {"file", "folder"} : Create(p, kind, name)
          \/ \E i \in Ids : MoveNode(i, p, name)
    \/ \E i \in Ids, name \in Names : Rename(i, name) \/ CopyNode(i, name)
    \/ \E i \in Ids : TrashNode(i) \/ PurgeNode(i)
    \/ \E i \in Ids, p \in Ids \cup {Root} : RestoreNode(i, p)
    \/ \E p \in Ids \cup {Root} : LoadTarget(p)
    \/ TrashAll \/ Age \/ ListTrash \/ ListExpired \/ PurgeListed \/ CallEnds

Spec == Init /\ [][Next]_vars

-----------------------------------------------------------------------------
(* Properties.                                                             *)

\* Every variable stays in its domain.
TypeOK ==
    /\ row \in [Ids -> Node \cup {NoNode}]
    /\ call \in CallState

\* PurgeNodes and copyTree read one page of PageSize entries, and CopyNodes writes below
\* the folder it loaded before its transaction: a larger subtree leaves rows below a parent
\* that is gone, a stale target puts copies into the trash or under an old path.
WholePages   == PageSize >= MaxId
FreshTargets == "staleTarget" \notin Ops

\* The parent links and the materialised paths describe one tree: a row's parent is there
\* and its path and depth extend the parent's, whatever is moved, restored, copied and
\* purged (ChildPath, RelocateSubtree, copyTree, PurgeNodes), as long as every subtree fits
\* a page and a copy's target has not changed since it was loaded.
PathsFollowParents ==
    WholePages /\ FreshTargets => \A i \in Rows :
        LET p == row[i].parent IN
        /\ p \in Rows \cup {Root}
        /\ row[i].path = ChildPath(PlaceOf(p), i)
        /\ row[i].depth = PlaceOf(p).depth + 1

\* Nothing live hides inside the trash: the parent of an active node is an active folder
\* or the root (loadWritableParent, SetSubtreeStatus, RestoreNodes), on the same conditions.
ActiveUnderActive ==
    WholePages /\ FreshTargets => \A i \in Active : Writable(row[i].parent)

\* Every stored name is the lowercase: case_insensitive_names is on, or nobody uses
\* capitals.  Otherwise foldName stores a folder's name as it is, where no lookup, asking
\* for the lowercase, finds it.
FoldsAlike == CaseFold \/ \A n \in Names : Lower[n] = n

\* No folder is trashed over entries that were trashed before it, whose names RestoreNodes
\* does not resolve, and nothing in the trash is renamed or moved.
OrderlyTrash == {"mixedTrash", "editTrashed"} \cap Ops = {}

\* Live siblings have different names (docs/architecture.md 5.3, resolveName), on these
\* conditions and those of PathsFollowParents.
NamesUnique ==
    WholePages /\ FreshTargets /\ FoldsAlike /\ OrderlyTrash =>
        \A i \in Active, j \in Active :
            row[i].parent = row[j].parent /\ Lower[row[i].name] = Lower[row[j].name] => i = j

\* Nothing in the trash is deleted or edited a second time.
TrashLeftAlone == {"trashAgain", "editTrashed"} \cap Ops = {}

\* Every entry of the trash is under exactly one entry of the trash list, so the list shows
\* everything once and EmptyTrash finds it (TrashRoots, SetSubtreeStatus), as long as the
\* trash is left alone, and on the conditions of PathsFollowParents.
TrashListed ==
    WholePages /\ FreshTargets /\ TrashLeftAlone =>
        \A i \in Trashed : Cardinality({ r \in TrashRoots : i \in Subtree(r) }) = 1

\* The trash purge_trash lists can be purged in its one transaction.
ExpiredTrashPurgeable == Purgeable(Expired)

\* The table implements Forest: selecting rows by path prefix is acting on subtrees.
Tree == INSTANCE Forest WITH
    Gone <- -1,
    parent <- [i \in Ids |-> IF row[i].status = "none" THEN -1 ELSE row[i].parent],
    trashed <- Trashed

\* No operation reaches outside the subtree it was asked for, puts anything under the
\* trash, makes a cycle or removes a live node (docs/architecture.md 5.2): while WholePages
\* and FreshTargets hold.
PathsImplementTree == Tree!Spec
=============================================================================
