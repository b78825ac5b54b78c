-------------------------------- MODULE Forest --------------------------------
(***************************************************************************)
(* What the node tree promises: nodes form a forest under the root, every  *)
(* operation on a node takes its whole subtree along, nothing is put under *)
(* a trashed folder, and only trashed nodes are ever removed.  There are   *)
(* no paths here: a subtree is what the parent links reach.                *)
(***************************************************************************)
EXTENDS Integers, FiniteSets

CONSTANTS
    Ids,   \* node ids
    Root,  \* parent of the top level entries
    Gone   \* parent of an id that names no node

VARIABLES
    parent,  \* parent of every id
    trashed  \* ids in the trash

vars == <<parent, trashed>>

Init ==
    /\ parent = [i \in Ids |-> Gone]
    /\ trashed = {}

Present == { i \in Ids : parent[i] # Gone }
Active  == Present \ trashed

\* Whole subtrees: who is under a member is a member.
Closed(S) == \A j \in Present : parent[j] \in S => j \in S

\* The subtree of i: i, and exactly those whose parent is in it.
IsSubtree(S, i) == i \in S /\ \A j \in Present \ {i} : j \in S <=> parent[j] \in S

\* The nodes of S hang together below i: no part of S with i in it is closed but S.
Connected(S, i, up) ==
    \A T \in SUBSET S : i \in T /\ (\A j \in S : up[j] \in T => j \in T) => T = S

\* New active nodes, one or a subtree of them, under the root or an active folder.
Grow ==
    /\ UNCHANGED trashed
    /\ \E S \in SUBSET (Ids \ Present) : \E i \in S :
          /\ \A j \in Ids \ S : parent'[j] = parent[j]
          /\ parent'[i] \in {Root} \cup Active
          /\ \A j \in S \ {i} : parent'[j] \in S
          /\ Connected(S, i, parent')

\* A subtree goes somewhere else, and not into itself.
Move ==
    /\ UNCHANGED trashed
    /\ \E i \in Present, p \in {Root} \cup Active :
          /\ parent' = [parent EXCEPT ![i] = p]
          /\ \E S \in SUBSET Present : IsSubtree(S, i) /\ p \notin S

Trash ==
    /\ UNCHANGED parent
    /\ \E S \in SUBSET Present : Closed(S) /\ trashed' = trashed \cup S

\* A subtree comes back.
Restore ==
    \E i \in trashed, p \in {Root} \cup Active, S \in SUBSET Present :
        /\ trashed' = trashed \ S
        /\ IsSubtree(S, i)
        /\ parent' = [parent EXCEPT ![i] = p]

\* Subtrees of the trash are removed for good.
Purge ==
    \E S \in SUBSET trashed :
        /\ trashed' = trashed \ S
        /\ Closed(S)
        /\ parent' = [i \in Ids |-> IF i \in S THEN Gone ELSE parent[i]]

Next == Grow \/ Move \/ Trash \/ Restore \/ Purge

Spec == Init /\ [][Next]_vars
=============================================================================
