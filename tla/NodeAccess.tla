------------------------------ MODULE NodeAccess ------------------------------
(***************************************************************************)
(* Who may do what to a node: visibility, access entries, folder passwords *)
(* and ownership folded over the chain of ancestors (internal/biz/         *)
(* access.go EvaluateNodeAccess), the reads that collect that chain row by *)
(* row outside a transaction (internal/biz/node.go Chain, Evaluate,        *)
(* EvaluateNodes), and the transactions that change it under the reader:   *)
(* CreateFolder, UpdateNode, SetNodeAcl, MoveNodes and PurgeNodes.         *)
(*                                                                         *)
(* An entry is the set of callers it matches, its effect, its permissions  *)
(* and its inherit mark.  Names, kinds, status and file content are left   *)
(* to NodeTree and FileContent.                                            *)
(***************************************************************************)
EXTENDS Integers, Sequences, FiniteSets, FiniteSetsExt, SequencesExt

CONSTANTS
    Nodes,         \* folders; an id is never used twice
    Root,          \* uuid.Nil, the parent of the top level
    Accounts,      \* signed-in callers
    Anonymous,     \* the caller without credentials
    Admins,        \* accounts whose role is admin
    AccountPerms,  \* Caller.Perms of every account
    NodeScope,     \* PermNodeScope
    Settings,      \* visibility (1 private, 2 internal, 3 public) and password: those a run uses
    Entries,       \* the access entries a run uses
    MaxDepth,      \* storage.max_path_depth
    PageSize,      \* the limit of a ListNodes that names none (50)
    Readers,       \* the callers whose reads a run follows
    Writers,       \* the accounts whose changes a run follows
    Ops            \* the changes a run lets happen

ReadOnly == {"view", "download"}

ASSUME AccessConstants ==
    /\ IsFiniteSet(Nodes)
    /\ Root \notin Nodes
    /\ Anonymous \notin Accounts
    /\ Admins \subseteq Accounts
    /\ ReadOnly \subseteq NodeScope
    /\ Settings \subseteq [visibility : 1..3, password : BOOLEAN]
    /\ MaxDepth \in Nat \ {0}
    /\ PageSize \in Nat
    /\ Readers \subseteq Accounts \cup {Anonymous}
    /\ Writers \subseteq Accounts
    /\ Ops \subseteq {"update", "acl", "recursiveAcl", "move", "purge"}

Callers == Accounts \cup {Anonymous}

VARIABLES
    row,    \* the nodes table
    acl,    \* the node_acls table
    read    \* the Evaluate in flight

vars == <<row, acl, read>>

-----------------------------------------------------------------------------
Node   == [parent : Nodes \cup {Root}, owner : Accounts, visibility : 1..3, password : BOOLEAN]
NoNode == [parent |-> Root]

Rows == { n \in Nodes : row[n] # NoNode }

\* NodeAccess: what the caller may do, and whether a password is still asked for.
Access   == [perms : SUBSET NodeScope, locked : BOOLEAN]
NoAccess == [perms |-> {}, locked |-> FALSE]

\* A row as the reader has loaded it, with its id.
Snapshot(n) == [id |-> n, node |-> row[n]]

\* Evaluate: open is the folder the caller's unlock token names, chain what has been loaded,
\* from the top down to the node.  The rest is bookkeeping: the accesses the rules gave
\* since the node was loaded, and whether the tables changed.
IdleRead == [pc |-> "idle"]
ReadState ==
    [pc : {"walk", "acl"}, caller : Callers, open : Nodes \cup {Root},
     chain : Seq([id : Nodes, node : Node]), seen : SUBSET Access, changed : BOOLEAN]
    \cup [pc : {"done"}, node : Nodes, answer : Access, seen : SUBSET Access, changed : BOOLEAN]

Init ==
    /\ row = [n \in Nodes |-> NoNode]
    /\ acl = [n \in Nodes |-> {}]
    /\ read = IdleRead

\* An anonymous caller has the rights of a guest.
Ceiling(c) == IF c = Anonymous THEN ReadOnly ELSE AccountPerms[c] \cap NodeScope

\* aclMatches
AclMatches(e, c) == e.perms # {} /\ c \in e.callers

-----------------------------------------------------------------------------
(* EvaluateNodeAccess on what a read has loaded.                           *)

\* effectiveVisibility: the most restrictive of the chain wins.
EffectiveVisibility(chain) == Min({ x.node.visibility : x \in ToSet(chain) })

\* What the visibility grants.
Granted(c, visibility) ==
    IF visibility = 3 \/ (visibility = 2 /\ c # Anonymous) THEN ReadOnly ELSE {}

\* What the entries of an effect add up to; entries[n] are those loaded for n.
Collected(c, effect, chain, entries) ==
    LET self == Last(chain).id
        applies(n, e) == AclMatches(e, c) /\ e.effect = effect /\ (n = self \/ effect = "deny" \/ e.inherit)
    IN  UNION { UNION { e.perms : e \in { f \in entries[x.id] : applies(x.id, f) } } : x \in ToSet(chain) }

\* Mutant: a denial reaches down only when it is marked inheritable.
EvaluateNodeAccess_ownDeny(c, open, chain, entries) ==
    LET node == Last(chain).node
        locked == \E x \in ToSet(chain) : x.node.password /\ x.id # open
        denied == UNION { e.perms : e \in { f \in entries[Last(chain).id] : AclMatches(f, c) /\ f.effect = "deny" } }
        perms == ((Granted(c, EffectiveVisibility(chain)) \cup Collected(c, "allow", chain, entries)) \ denied)
                 \cap Ceiling(c)
    IN  IF c \in Admins \/ c = node.owner
        THEN [perms |-> Ceiling(c), locked |-> FALSE]
        ELSE [perms |-> IF locked THEN perms \cap {"view"} ELSE perms, locked |-> locked]

\* Administrator, password lock, owner, visibility and entries, ceiling, lock convergence.
EvaluateNodeAccess(c, open, chain, entries) ==
    LET node == Last(chain).node
        locked == \E x \in ToSet(chain) : x.node.password /\ x.id # open
        allowed == Granted(c, EffectiveVisibility(chain)) \cup Collected(c, "allow", chain, entries)
        perms == (allowed \ Collected(c, "deny", chain, entries)) \cap Ceiling(c)
    IN  IF c \in Admins \/ c = node.owner
        THEN [perms |-> Ceiling(c), locked |-> FALSE]
        ELSE [perms |-> IF locked THEN perms \cap {"view"} ELSE perms, locked |-> locked]

-----------------------------------------------------------------------------
(* The rules, of the whole tree at one moment (docs/permissions.md 4).     *)

\* The node and everything above it.
Line(rows, n) ==
    LET up[i \in 0..Cardinality(Nodes)] ==
            IF i = 0 THEN {n}
            ELSE LET below == up[i - 1] IN below \cup ({ rows[m].parent : m \in below } \ {Root})
    IN  up[Cardinality(Nodes)]

\* A deny reaches the whole subtree, an allow only when it is marked inheritable.
Says(entries, line, n, c, effect, p) ==
    \E m \in line : \E e \in entries[m] :
        /\ e.effect = effect /\ p \in e.perms /\ c \in e.callers
        /\ m = n \/ effect = "deny" \/ e.inherit

\* The part of it that is there: a parent that is gone ends a line like the root does.
Standing(rows, n) == { m \in Line(rows, n) : rows[m] # NoNode }

\* What c may do to n, holding the token of the folder open.
Rules(rows, entries, c, open, n) ==
    LET line == Standing(rows, n)
        locked == \E m \in line \ {open} : rows[m].password
        readable == \A m \in line : rows[m].visibility >= IF c = Anonymous THEN 3 ELSE 2
        may(p) == /\ Says(entries, line, n, c, "allow", p) \/ (readable /\ p \in ReadOnly)
                  /\ ~Says(entries, line, n, c, "deny", p)
                  /\ locked => p = "view"
    IN  IF rows[n] = NoNode THEN NoAccess
        ELSE IF c \in Admins \cup {rows[n].owner} THEN [perms |-> Ceiling(c), locked |-> FALSE]
        ELSE [perms |-> { p \in Ceiling(c) : may(p) }, locked |-> locked]

-----------------------------------------------------------------------------
(* Reading: FindNodeByID, then Chain, one query at a time.                 *)

\* A caller may hold the token of any folder; only those on the way to n matter.
Load(c, n, open) ==
    /\ read.pc = "idle"
    /\ n \in Rows
    /\ open \in Line(row, n) \cup {Root}
    /\ read' = [pc |-> "walk", caller |-> c, open |-> open, chain |-> <<Snapshot(n)>>,
                seen |-> {Rules(row, acl, c, open, n)}, changed |-> FALSE]
    /\ UNCHANGED <<row, acl>>

\* One turn of the loop in Chain: the parent named by the row loaded last; a parent that is
\* gone ends the loop like the root does.
Walk ==
    LET parent == Head(read.chain).node.parent IN
    /\ read.pc = "walk"
    /\ read' = IF parent \in Rows /\ Len(read.chain) <= MaxDepth
               THEN [read EXCEPT !.chain = <<Snapshot(parent)>> \o @]
               ELSE [read EXCEPT !.pc = "acl"]
    /\ UNCHANGED <<row, acl>>

\* ListAclForNodes of the whole chain in one query, then the evaluation.
ReadAcl ==
    /\ read.pc = "acl"
    /\ read' = [pc |-> "done", node |-> Last(read.chain).id, seen |-> read.seen, changed |-> read.changed,
                answer |-> EvaluateNodeAccess(read.caller, read.open, read.chain, acl)]
    /\ UNCHANGED <<row, acl>>

Answered ==
    /\ read.pc = "done"
    /\ read' = IdleRead
    /\ UNCHANGED <<row, acl>>

-----------------------------------------------------------------------------
(* Changes.  Each is one write transaction, which reads the chain it judges by itself. *)

\* The chain Chain loads when nothing changes meanwhile.
ChainOf(n) ==
    LET line[i \in 1..MaxDepth + 1] ==
            IF i = 1 THEN <<Snapshot(n)>>
            ELSE LET below == line[i - 1]
                     parent == Head(below).node.parent
                 IN  IF parent \in Rows THEN <<Snapshot(parent)>> \o below ELSE below
    IN  line[MaxDepth + 1]

\* Mutant: the listed folder is not one of the ancestors.
ListAccess_noParent(c, open, n) ==
    LET up == IF row[n].parent = Root THEN <<>> ELSE Front(ChainOf(row[n].parent))
    IN  EvaluateNodeAccess(c, open, Append(up, Snapshot(n)), [m \in Nodes |-> IF m = n THEN acl[m] ELSE {}])

\* EvaluateNodes for an entry of a listing: the chain of the listed folder, but only the
\* entries of the children themselves.
ListAccess(c, open, n) ==
    LET up == IF row[n].parent = Root THEN <<>> ELSE ChainOf(row[n].parent)
    IN  EvaluateNodeAccess(c, open, Append(up, Snapshot(n)), [m \in Nodes |-> IF m = n THEN acl[m] ELSE {}])

\* Bookkeeping of the read in flight.
Observed ==
    read' = IF read.pc = "idle" THEN read
            ELSE [read EXCEPT !.seen = @ \cup {Rules(row', acl', read.caller, read.open, Last(read.chain).id)},
                              !.changed = TRUE]

\* NewID repeats no id that a row or the read in flight knows.
Known ==
    Rows \cup IF read.pc = "idle" THEN {} ELSE UNION { {x.id, x.node.parent} : x \in ToSet(read.chain) }

Depth(n) == Cardinality(Line(row, n)) - 1

DepthUnder(p) == IF p = Root THEN 0 ELSE Depth(p) + 1

\* Not locked, and the permission held.
May(c, n, permission) ==
    LET chain == ChainOf(n) IN
    \E open \in { x.id : x \in ToSet(chain) } \cup {Root} :
        LET access == EvaluateNodeAccess(c, open, chain, acl) IN ~access.locked /\ permission \in access.perms

\* loadWritableParent
Writable(c, p) == p \in Rows \cup {Root} /\ (p # Root => May(c, p, "upload"))

CreateFolder(c, n, p, set) ==
    /\ "upload" \in AccountPerms[c]
    /\ n \notin Known
    /\ Writable(c, p)
    /\ DepthUnder(p) < MaxDepth
    /\ row' = [row EXCEPT ![n] = [parent |-> p, owner |-> c, visibility |-> set.visibility, password |-> set.password]]
    /\ UNCHANGED acl
    /\ Observed

\* UpdateNode of the access settings.
UpdateNode(c, n, set) ==
    /\ "update" \in Ops
    /\ n \in Rows
    /\ May(c, n, "acl_manage")
    /\ row' = [row EXCEPT ![n].visibility = set.visibility, ![n].password = set.password]
    /\ row' # row
    /\ UNCHANGED acl
    /\ Observed

Below(n) == { m \in Rows : n \in Line(row, m) }

\* SetNodeAcl with at most one entry.  The recursive form writes it to the other folders of
\* the one page it lists: some of those below, for only what is active is listed and status
\* is left out.  A locked folder leaves no acl_manage.
SetNodeAcl(c, n, entries, page) ==
    /\ "acl" \in Ops
    /\ page # {} => "recursiveAcl" \in Ops
    /\ n \in Rows
    /\ page \subseteq Below(n) \ {n} /\ Cardinality(page) <= PageSize
    /\ \A e \in entries : e.perms \subseteq Ceiling(c)
    /\ May(c, n, "acl_manage")
    /\ acl' = [m \in Nodes |-> IF m \in page \cup {n} THEN entries ELSE acl[m]]
    /\ acl' # acl
    /\ UNCHANGED row
    /\ Observed

\* MoveNodes of one node: the depth limit is compared with the moved node only.
MoveNode(c, n, p) ==
    /\ "move" \in Ops
    /\ n \in Rows
    /\ p # row[n].parent
    /\ p \in Rows => n \notin Line(row, p)
    /\ DepthUnder(p) < MaxDepth
    /\ May(c, n, "edit")
    /\ Writable(c, p)
    /\ row' = [row EXCEPT ![n].parent = p]
    /\ UNCHANGED acl
    /\ Observed

\* A page of the subtree in the order of the listing, which this model leaves out: the whole
\* of it when it fits.
Page(S) == { page \in SUBSET S : Cardinality(page) <= PageSize /\ (Cardinality(page) < PageSize => page = S) }

\* Mutant: the entries stay.
PurgeNode_keepsAcl(c, n, page) ==
    /\ "purge" \in Ops /\ n \in Rows /\ May(c, n, "trash_manage")
    /\ page \in Page(Below(n))
    /\ row' = [m \in Nodes |-> IF m \in page THEN NoNode ELSE row[m]]
    /\ UNCHANGED acl
    /\ Observed

\* PurgeNodes takes the one page of the subtree it lists, and the entries of those nodes; the
\* rest of a larger subtree is left below folders that are gone.  (By its path such a rest
\* still belongs to the folders above; Below, which goes by the parents, loses sight of it.)
PurgeNode(c, n, page) ==
    /\ "purge" \in Ops
    /\ n \in Rows
    /\ May(c, n, "trash_manage")
    /\ page \in Page(Below(n))
    /\ row' = [m \in Nodes |-> IF m \in page THEN NoNode ELSE row[m]]
    /\ acl' = [m \in Nodes |-> IF m \in page THEN {} ELSE acl[m]]
    /\ Observed

-----------------------------------------------------------------------------
\* Bound: at most one change lands in a read; one after the answer comes after the call.
Change(c) ==
    /\ read.pc # "done"
    /\ read.pc # "idle" => ~read.changed
    /\ \E n \in Nodes :
        \/ \E set \in Settings :
              UpdateNode(c, n, set) \/ \E p \in Nodes \cup {Root} : CreateFolder(c, n, p, set)
        \/ \E page \in SUBSET Nodes :
              \/ SetNodeAcl(c, n, {}, page)
              \/ \E e \in Entries : SetNodeAcl(c, n, {e}, page)
              \/ PurgeNode(c, n, page)
        \/ \E p \in Nodes \cup {Root} : MoveNode(c, n, p)

Next ==
    \/ \E c \in Writers : Change(c)
    \/ \E c \in Readers, n \in Nodes, open \in Nodes \cup {Root} : Load(c, n, open)
    \/ Walk \/ ReadAcl \/ Answered

Spec == Init /\ [][Next]_vars

-----------------------------------------------------------------------------
(* Properties.                                                             *)

\* PurgeNodes and the recursive SetNodeAcl list one page, 50 rows when nobody sets a limit.
\* A subtree that fits is whole; of a larger one a purge leaves folders below a parent that
\* is gone.
WholePages == PageSize >= Cardinality(Nodes)

\* Every variable stays in its domain, and no entry refers to a node that is gone
\* (DeleteAclForNodes); while every subtree fits a page, no row does either (PurgeNodes).
TypeOK ==
    /\ row \in [Nodes -> Node \cup {NoNode}]
    /\ acl \in [Nodes -> SUBSET Entries]
    /\ \A n \in Nodes \ Rows : acl[n] = {}
    /\ WholePages => \A n \in Rows : row[n].parent \in Rows \cup {Root}
    /\ read \in ReadState \cup {IdleRead}

\* Although Chain reads the tables one row at a time and no transaction holds them, the
\* access Evaluate returns for a node that is still there is one the rules gave at some
\* moment of the call, as long as at most one change lands in it and every purged subtree
\* fits a page (RequireAccess, GetNode).
AnswersAreTrue ==
    WholePages /\ read.pc = "done" /\ read.node \in Rows => read.answer \in read.seen

\* A folder listing shows a child with the access the rules give it, whatever the token of
\* the caller, as long as no folder above the child has entries of its own and every purged
\* subtree fits a page (ListNodes, EvaluateNodes; with such entries the listing ignores them).
ListingExact ==
    WholePages => \A n \in Rows :
        (\A m \in Line(row, n) \ {n} : acl[m] = {}) =>
            \A c \in Accounts, open \in Line(row, n) \cup {Root} :
                ListAccess(c, open, n) = Rules(row, acl, c, open, n)
=============================================================================
