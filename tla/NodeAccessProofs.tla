---------------------------- MODULE NodeAccessProofs ----------------------------
(***************************************************************************)
(* Proofs about NodeAccess for any folders, accounts, entries, settings    *)
(* and depth limit: the domains; the line of a folder is the least set     *)
(* with it that holds the parents of its members; EvaluateNodeAccess on a  *)
(* whole chain gives what the rules give; the answer of a read in flight   *)
(* is the one of a moment of the call, and a listing agrees with the       *)
(* rules.                                                                  *)
(***************************************************************************)
EXTENDS NodeAccess, MaxTheorems, FiniteSetTheorems, TLAPS

-----------------------------------------------------------------------------
(* The line of a node: the least set with the node in it that holds the      *)
(* parent of each of its members.                                            *)

Table == [Nodes -> Node \cup {NoNode}]

Closed(rows, S) == \A m \in S : rows[m].parent \in S \cup {Root}

\* The node and the i generations above it, for every i, as Line builds them.
Generations(rows, n, N, u) ==
    u = [i \in 0..N |-> IF i = 0 THEN {n}
                        ELSE u[i - 1] \cup ({ rows[m].parent : m \in u[i - 1] } \ {Root})]

\* A row and the place of a row that is gone name a parent that is a node, or Root.
LEMMA ParentType ==
    ASSUME NEW rows \in Table, NEW n \in Nodes
    PROVE  rows[n].parent \in Nodes \cup {Root}
<1>1. rows[n] \in Node \/ rows[n] = NoNode
  BY DEF Table
<1> QED BY <1>1 DEF Node, NoNode

\* There are generations up to any number.
LEMMA GenerationsExist ==
    ASSUME NEW rows, NEW n, NEW N \in Nat
    PROVE  \E u : Generations(rows, n, N, u)
<1> DEFINE S == { i \in Nat : \E u : Generations(rows, n, i, u) }
<1>1. 0 \in S
  <2>1. Generations(rows, n, 0, [i \in 0..0 |-> {n}])
    BY DEF Generations
  <2> QED BY <2>1
<1>2. ASSUME NEW i \in 0..(N - 1), i \in S
      PROVE  i + 1 \in S
  <2>1. PICK u : Generations(rows, n, i, u)
    BY <1>2
  <2> DEFINE step(X) == X \cup ({ rows[m].parent : m \in X } \ {Root})
             v == [j \in 0..(i + 1) |-> IF j = i + 1 THEN step(u[i]) ELSE u[j]]
  <2>2. u[0] = {n} /\ \A j \in 1..i : u[j] = step(u[j - 1])
    BY <2>1 DEF Generations
  <2>3. ASSUME NEW j \in 0..(i + 1)
        PROVE  v[j] = IF j = 0 THEN {n} ELSE step(v[j - 1])
    <3> HIDE DEF step
    <3>1. CASE j = 0
      BY <2>2, <3>1
    <3>2. CASE j = i + 1
      BY <3>2
    <3>3. CASE j \in 1..i
      BY <2>2, <3>3
    <3> QED BY <3>1, <3>2, <3>3
  <2>4. v = [j \in 0..(i + 1) |-> v[j]]
    OBVIOUS
  <2> HIDE DEF v
  <2>5. v = [j \in 0..(i + 1) |-> IF j = 0 THEN {n} ELSE step(v[j - 1])]
    BY <2>3, <2>4, Zenon
  <2>6. Generations(rows, n, i + 1, v)
    BY <2>5 DEF Generations
  <2> QED BY <2>6
<1> HIDE DEF S
<1>3. 0..N \subseteq S
  BY <1>1, <1>2, CountingUp
<1> QED BY <1>3 DEF S

\* Line is the last generation.
LEMMA LineIsLast ==
    ASSUME NEW rows, NEW n
    PROVE  \E u : /\ Generations(rows, n, Cardinality(Nodes), u)
                  /\ Line(rows, n) = u[Cardinality(Nodes)]
<1> DEFINE u == CHOOSE u : u = [i \in 0..Cardinality(Nodes) |->
                    IF i = 0 THEN {n} ELSE u[i - 1] \cup ({ rows[m].parent : m \in u[i - 1] } \ {Root})]
<1>1. Line(rows, n) = u[Cardinality(Nodes)]
  BY DEF Line
<1>2. Cardinality(Nodes) \in Nat
  BY AccessConstants, FS_CardinalityType
<1>3. Generations(rows, n, Cardinality(Nodes), u)
  <2>1. \E v : Generations(rows, n, Cardinality(Nodes), v)
    BY <1>2, GenerationsExist
  <2> QED BY <2>1 DEF Generations
<1> HIDE DEF u
<1> QED BY <1>1, <1>3

\* The line of a node is the least closed set with the node in it: as many generations as
\* there are nodes are enough, for each adds a node or none will.
LEMMA LineLeast ==
    ASSUME NEW rows \in Table, NEW n \in Nodes
    PROVE  /\ Line(rows, n) \subseteq Nodes
           /\ n \in Line(rows, n)
           /\ Closed(rows, Line(rows, n))
           /\ \A S : n \in S /\ Closed(rows, S) => Line(rows, n) \subseteq S
<1> DEFINE N == Cardinality(Nodes)
<1>1. N \in Nat /\ IsFiniteSet(Nodes)
  BY AccessConstants, FS_CardinalityType
<1>2. PICK u : Generations(rows, n, N, u) /\ Line(rows, n) = u[N]
  BY LineIsLast
<1> DEFINE step(X) == X \cup ({ rows[m].parent : m \in X } \ {Root})
<1>3. u[0] = {n} /\ \A i \in 0..(N - 1) : u[i + 1] = step(u[i])
  <2>1. u[0] = {n} /\ \A i \in 1..N : u[i] = step(u[i - 1])
    BY <1>1, <1>2 DEF Generations
  <2>2. \A i \in 0..(N - 1) : i + 1 \in 1..N /\ (i + 1) - 1 = i
    BY <1>1
  <2> HIDE DEF step
  <2> QED BY <2>1, <2>2
<1> HIDE DEF N
<1>4. ASSUME NEW S, n \in S, Closed(rows, S)
      PROVE  u[N] \subseteq S
  <2> DEFINE T == { i \in 0..N : u[i] \subseteq S }
  <2>1. 0 \in T
    BY <1>1, <1>3, <1>4
  <2>2. ASSUME NEW i \in 0..(N - 1), i \in T
        PROVE  i + 1 \in T
    <3>1. u[i + 1] \subseteq S
      BY <1>3, <1>4, <2>2 DEF Closed
    <3> QED BY <1>1, <3>1
  <2> HIDE DEF T
  <2>3. 0..N \subseteq T
    BY <1>1, <2>1, <2>2, CountingUp
  <2> QED BY <1>1, <2>3 DEF T
<1>5. \A i \in 0..N : n \in u[i] /\ u[i] \subseteq Nodes
  <2> DEFINE T == { i \in 0..N : n \in u[i] /\ u[i] \subseteq Nodes }
  <2>1. 0 \in T
    BY <1>1, <1>3
  <2>2. ASSUME NEW i \in 0..(N - 1), i \in T
        PROVE  i + 1 \in T
    <3>1. \A m \in Nodes : rows[m].parent \in Nodes \cup {Root}
      BY ParentType
    <3>2. n \in u[i + 1] /\ u[i + 1] \subseteq Nodes
      BY <1>3, <2>2, <3>1
    <3> QED BY <1>1, <3>2
  <2> HIDE DEF T
  <2>3. 0..N \subseteq T
    BY <1>1, <2>1, <2>2, CountingUp
  <2> QED BY <2>3 DEF T
<1>6. \A i \in 0..N : Closed(rows, u[i]) \/ Cardinality(u[i]) >= i + 1
  <2> DEFINE T == { i \in 0..N : Closed(rows, u[i]) \/ Cardinality(u[i]) >= i + 1 }
  <2>0. \A i \in 0..N : IsFiniteSet(u[i]) /\ Cardinality(u[i]) \in Nat
    BY <1>1, <1>5, FS_Subset, FS_CardinalityType
  <2>1. 0 \in T
    BY <1>1, <1>3, FS_Singleton
  <2>2. ASSUME NEW i \in 0..(N - 1), i \in T
        PROVE  i + 1 \in T
    <3>0. i \in 0..N /\ i + 1 \in 0..N
      BY <1>1
    <3>1. CASE Closed(rows, u[i])
      <4>1. u[i + 1] = u[i]
        <5>1. u[i + 1] = step(u[i])
          BY <1>3
        <5>2. { rows[m].parent : m \in u[i] } \ {Root} \subseteq u[i]
          BY <3>1 DEF Closed
        <5> QED BY <5>1, <5>2
      <4> QED BY <3>0, <3>1, <4>1
    <3>2. CASE ~Closed(rows, u[i])
      <4>1. u[i] \subseteq u[i + 1] /\ u[i] # u[i + 1]
        <5>1. PICK m \in u[i] : rows[m].parent \notin u[i] \cup {Root}
          BY <3>2 DEF Closed
        <5>2. u[i + 1] = step(u[i])
          BY <1>3
        <5>3. rows[m].parent \in u[i + 1] /\ u[i] \subseteq u[i + 1]
          BY <5>1, <5>2
        <5> QED BY <5>1, <5>3
      <4>2. Cardinality(u[i]) < Cardinality(u[i + 1])
        <5>1. u[i] \in SUBSET u[i + 1] /\ IsFiniteSet(u[i + 1])
          BY <2>0, <3>0, <4>1
        <5>2. Cardinality(u[i]) <= Cardinality(u[i + 1]) /\ Cardinality(u[i]) # Cardinality(u[i + 1])
          BY <4>1, <5>1, FS_Subset
        <5> QED BY <2>0, <3>0, <5>2
      <4>3. Cardinality(u[i]) >= i + 1
        BY <2>2, <3>2
      <4> QED BY <2>0, <3>0, <4>2, <4>3
    <3> QED BY <3>1, <3>2
  <2> HIDE DEF T
  <2>3. 0..N \subseteq T
    BY <1>1, <2>1, <2>2, CountingUp
  <2> QED BY <2>3 DEF T
<1>7. Closed(rows, u[N])
  <2>1. N \in 0..N /\ u[N] \subseteq Nodes
    BY <1>1, <1>5
  <2>2. Cardinality(u[N]) <= N
    BY <1>1, <2>1, FS_Subset DEF N
  <2>3. Cardinality(u[N]) \in Nat
    BY <1>1, <2>1, FS_Subset, FS_CardinalityType
  <2> QED BY <1>1, <1>6, <2>1, <2>2, <2>3
<1>8. n \in u[N] /\ u[N] \subseteq Nodes
  BY <1>1, <1>5
<1> QED BY <1>2, <1>4, <1>7, <1>8

\* The line of a node holds the line of everything above it.
LEMMA LineNests ==
    ASSUME NEW rows \in Table, NEW n \in Nodes, NEW m \in Line(rows, n)
    PROVE  m \in Nodes /\ Line(rows, m) \subseteq Line(rows, n)
<1>1. m \in Nodes /\ Closed(rows, Line(rows, n))
  BY LineLeast
<1> QED BY <1>1, LineLeast

\* The line of a node is the node and the line of its parent.
LEMMA LineUp ==
    ASSUME NEW rows \in Table, NEW n \in Nodes
    PROVE  Line(rows, n) = {n} \cup (IF rows[n].parent = Root THEN {} ELSE Line(rows, rows[n].parent))
<1> DEFINE p == rows[n].parent
           up == IF p = Root THEN {} ELSE Line(rows, p)
<1>1. p \in Nodes \cup {Root}
  BY ParentType
<1>2. n \in Line(rows, n) /\ Closed(rows, Line(rows, n))
  BY LineLeast
<1>3. {n} \cup up \subseteq Line(rows, n)
  <2>1. CASE p = Root
    BY <1>2, <2>1
  <2>2. CASE p # Root
    <3>1. p \in Line(rows, n)
      BY <1>2, <2>2 DEF Closed
    <3>2. Line(rows, p) \subseteq Line(rows, n)
      BY <3>1, LineNests
    <3> QED BY <1>2, <3>2
  <2> QED BY <2>1, <2>2
<1>4. Closed(rows, {n} \cup up)
  <2>1. CASE p = Root
    BY <2>1 DEF Closed
  <2>2. CASE p # Root
    <3>1. p \in Line(rows, p) /\ Closed(rows, Line(rows, p))
      BY <1>1, <2>2, LineLeast
    <3> QED BY <2>2, <3>1 DEF Closed
  <2> QED BY <2>1, <2>2
<1>5. Line(rows, n) \subseteq {n} \cup up
  <2> HIDE DEF up
  <2> QED BY <1>4, LineLeast
<1> QED BY <1>3, <1>5

\* A table with the same parents on a line has the same line.
LEMMA LineSame ==
    ASSUME NEW rows \in Table, NEW other \in Table, NEW n \in Nodes,
           \A m \in Line(rows, n) : other[m].parent = rows[m].parent
    PROVE  Line(other, n) = Line(rows, n)
<1>1. n \in Line(rows, n) /\ Closed(rows, Line(rows, n)) /\ n \in Line(other, n) /\ Closed(other, Line(other, n))
  BY LineLeast
<1>2. Closed(other, Line(rows, n))
  BY <1>1 DEF Closed
<1>3. Line(other, n) \subseteq Line(rows, n)
  BY <1>1, <1>2, LineLeast
<1>4. Closed(rows, Line(other, n))
  BY <1>1, <1>3 DEF Closed
<1>5. Line(rows, n) \subseteq Line(other, n)
  BY <1>1, <1>4, LineLeast
<1> QED BY <1>3, <1>5

-----------------------------------------------------------------------------
(* The tree: a row is below rows, and no node is above itself.               *)

Present(rows) == { n \in Nodes : rows[n] # NoNode }

Tree(rows) ==
    /\ rows \in Table
    /\ \A n \in Present(rows) : rows[n].parent \in Present(rows) \cup {Root}
    /\ \A n \in Nodes : rows[n].parent # Root => n \notin Line(rows, rows[n].parent)

\* No line is longer than the chain a reader collects.
Shallow(rows) == \A n \in Present(rows) : Cardinality(Line(rows, n)) <= MaxDepth + 1

\* MoveNodes compares the depth of the moved node only with the limit, so without moves a
\* chain is whole, and with moves as long as there are no more folders than it can hold.
WholeChains == "move" \notin Ops \/ Cardinality(Nodes) <= MaxDepth + 1

\* No row is the place of a row that is gone.
LEMMA NodeIsNode == NoNode \notin Node
<1> SUFFICES ASSUME NoNode \in Node PROVE FALSE
  OBVIOUS
<1>1. DOMAIN NoNode = {"parent", "owner", "visibility", "password"}
  BY DEF Node
<1>2. DOMAIN NoNode = {"parent"}
  BY DEF NoNode
<1> QED BY <1>1, <1>2

\* The folders above a row are rows.
LEMMA LinePresent ==
    ASSUME NEW rows, Tree(rows), NEW n \in Present(rows)
    PROVE  Line(rows, n) \subseteq Present(rows)
<1>1. Closed(rows, Present(rows)) /\ rows \in Table /\ n \in Nodes
  BY DEF Tree, Closed, Present
<1> QED BY <1>1, LineLeast

\* So the line of a row is there as a whole.
LEMMA LineStands ==
    ASSUME NEW rows, Tree(rows), NEW n \in Present(rows)
    PROVE  Standing(rows, n) = Line(rows, n)
<1>1. Line(rows, n) \subseteq Present(rows)
  BY LinePresent
<1> QED BY <1>1 DEF Standing, Present

\* CreateFolder: a new leaf.
LEMMA TreeGrows ==
    ASSUME NEW rows, Tree(rows), NEW n \in Nodes, n \notin Present(rows),
           NEW w \in Node, w.parent \in Present(rows) \cup {Root}
    PROVE  /\ Tree([rows EXCEPT ![n] = w])
           /\ \A m \in Present(rows) : Line([rows EXCEPT ![n] = w], m) = Line(rows, m)
<1> DEFINE new == [rows EXCEPT ![n] = w]
<1>1. /\ rows \in Table /\ new \in Table /\ new[n] = w
      /\ \A m \in Nodes \ {n} : new[m] = rows[m]
  BY DEF Tree, Table
<1> HIDE DEF new
<1>2. Present(new) = Present(rows) \cup {n}
  BY <1>1, NodeIsNode DEF Present
<1>3. ASSUME NEW m \in Present(rows) PROVE Line(new, m) = Line(rows, m)
  <2>1. Line(rows, m) \subseteq Present(rows) /\ m \in Nodes
    BY <1>3, LinePresent DEF Present
  <2>2. \A x \in Line(rows, m) : new[x].parent = rows[x].parent
    BY <1>1, <2>1 DEF Present
  <2> QED BY <1>1, <2>1, <2>2, LineSame
<1>4. \A m \in Present(new) : new[m].parent \in Present(new) \cup {Root}
  BY <1>1, <1>2 DEF Tree, Present
<1>5. ASSUME NEW m \in Nodes, new[m].parent # Root
      PROVE  m \notin Line(new, new[m].parent)
  <2>1. CASE m \in Present(new)
    <3>1. new[m].parent \in Present(rows)
      BY <1>1, <1>2, <1>5, <2>1 DEF Tree, Present
    <3>2. Line(new, new[m].parent) = Line(rows, new[m].parent) /\ Line(rows, new[m].parent) \subseteq Present(rows)
      BY <1>3, <3>1, LinePresent
    <3>3. CASE m = n
      BY <3>2, <3>3
    <3>4. CASE m # n
      BY <1>1, <1>5, <3>2, <3>4 DEF Tree
    <3> QED BY <3>3, <3>4
  <2>2. CASE m \notin Present(new)
    BY <1>5, <2>2 DEF Present, NoNode
  <2> QED BY <2>1, <2>2
<1> QED BY <1>1, <1>3, <1>4, <1>5 DEF Tree, new

\* UpdateNode: other settings, the same parents.
LEMMA TreeKeeps ==
    ASSUME NEW rows, Tree(rows), NEW other \in Table, Present(other) = Present(rows),
           \A m \in Nodes : other[m].parent = rows[m].parent
    PROVE  Tree(other) /\ \A m \in Nodes : Line(other, m) = Line(rows, m)
<1>1. rows \in Table
  BY DEF Tree
<1>2. ASSUME NEW m \in Nodes PROVE Line(other, m) = Line(rows, m)
  <2>1. Line(rows, m) \subseteq Nodes
    BY <1>1, LineLeast
  <2> QED BY <1>1, <2>1, LineSame
<1>3. ASSUME NEW m \in Nodes, other[m].parent # Root
      PROVE  m \notin Line(other, other[m].parent)
  <2>1. other[m].parent \in Nodes /\ other[m].parent = rows[m].parent
    BY <1>3, ParentType
  <2> QED BY <1>2, <1>3, <2>1 DEF Tree
<1> QED BY <1>2, <1>3 DEF Tree, Present

\* MoveNodes: a node goes below one that is not in its subtree.
LEMMA TreeMoves ==
    ASSUME NEW rows, Tree(rows), NEW n \in Present(rows), NEW p \in Present(rows) \cup {Root},
           p # Root => n \notin Line(rows, p)
    PROVE  Tree([rows EXCEPT ![n].parent = p])
<1> DEFINE new == [rows EXCEPT ![n].parent = p]
<1>1. rows \in Table /\ n \in Nodes /\ rows[n] \in Node /\ p \in Nodes \cup {Root}
  BY DEF Tree, Table, Present
<1>2. /\ new \in Table /\ new[n].parent = p /\ new[n] \in Node
      /\ \A m \in Nodes \ {n} : new[m] = rows[m]
  <2>1. [rows[n] EXCEPT !.parent = p] \in Node /\ [rows[n] EXCEPT !.parent = p].parent = p
    BY <1>1 DEF Node
  <2> QED BY <1>1, <2>1 DEF Table
<1> HIDE DEF new
<1>3. Present(new) = Present(rows)
  BY <1>1, <1>2, NodeIsNode DEF Present
<1>4. ASSUME NEW m \in Nodes, n \notin Line(rows, m)
      PROVE  Line(new, m) = Line(rows, m)
  <2>1. Line(rows, m) \subseteq Nodes
    BY <1>1, LineLeast
  <2>2. \A x \in Line(rows, m) : new[x].parent = rows[x].parent
    BY <1>2, <1>4, <2>1
  <2> QED BY <1>1, <1>2, <2>2, LineSame
<1>5. ASSUME NEW m \in Nodes, new[m].parent # Root
      PROVE  m \notin Line(new, new[m].parent)
  <2>1. CASE m = n
    <3>1. new[m].parent = p /\ p \in Nodes /\ p # Root /\ n \notin Line(rows, p)
      BY <1>1, <1>2, <1>5, <2>1
    <3>2. Line(new, p) = Line(rows, p)
      BY <1>4, <3>1
    <3> QED BY <2>1, <3>1, <3>2
  <2>2. CASE m # n
    <3> DEFINE q == rows[m].parent
    <3>1. new[m].parent = q /\ q \in Nodes /\ q # Root
      BY <1>1, <1>2, <1>5, <2>2, ParentType
    <3>2. m \notin Line(rows, q)
      BY <3>1 DEF Tree
    <3>3. CASE n \notin Line(rows, q)
      BY <1>4, <3>1, <3>2, <3>3
    <3>4. CASE n \in Line(rows, q)
      <4> DEFINE up == IF p = Root THEN {} ELSE Line(rows, p)
      <4>1. q \in Line(rows, q) /\ Closed(rows, Line(rows, q)) /\ Line(rows, q) \subseteq Nodes
        BY <1>1, <3>1, LineLeast
      <4>2. Closed(rows, up) /\ up \subseteq Nodes /\ n \notin up /\ p \in up \cup {Root}
        <5>1. CASE p = Root
          BY <5>1 DEF Closed
        <5>2. CASE p # Root
          BY <1>1, <5>2, LineLeast
        <5> QED BY <5>1, <5>2
      <4>3. Closed(new, Line(rows, q) \cup up)
        <5> HIDE DEF up
        <5>1. \A x \in Line(rows, q) \cup up : x = n \/ new[x].parent = rows[x].parent
          BY <1>2, <4>1, <4>2
        <5> QED BY <1>2, <4>1, <4>2, <5>1 DEF Closed
      <4>4. Line(new, q) \subseteq Line(rows, q) \cup up
        <5> HIDE DEF up, q
        <5> QED BY <1>2, <3>1, <4>1, <4>3, LineLeast
      <4>5. m \notin up
        <5> SUFFICES ASSUME p # Root, m \in Line(rows, p) PROVE FALSE
          OBVIOUS
        <5>1. Line(rows, m) \subseteq Line(rows, p)
          BY <1>1, LineNests
        <5>2. Line(rows, m) = {m} \cup Line(rows, q)
          BY <1>1, <3>1, LineUp
        <5> QED BY <3>4, <5>1, <5>2
      <4> QED BY <3>1, <3>2, <4>4, <4>5
    <3> QED BY <3>3, <3>4
  <2> QED BY <2>1, <2>2
<1>6. \A m \in Present(new) : new[m].parent \in Present(new) \cup {Root}
  BY <1>1, <1>2, <1>3 DEF Tree, Present
<1> QED BY <1>2, <1>5, <1>6 DEF Tree, new

\* PurgeNodes: a whole subtree goes, and no line of what stays was in it.
LEMMA TreeShrinks ==
    ASSUME NEW rows, Tree(rows), NEW n \in Nodes, NEW new,
           new = [m \in Nodes |-> IF m \in Present(rows) /\ n \in Line(rows, m) THEN NoNode ELSE rows[m]]
    PROVE  /\ Tree(new)
           /\ Present(new) \subseteq Present(rows)
           /\ \A m \in Present(new) : Line(new, m) = Line(rows, m) /\ \A x \in Line(rows, m) : new[x] = rows[x]
<1>1. /\ rows \in Table /\ new \in Table
      /\ Present(new) = { m \in Present(rows) : n \notin Line(rows, m) }
  BY DEF Tree, Table, Present
<1>2. ASSUME NEW m \in Present(new)
      PROVE  Line(new, m) = Line(rows, m) /\ \A x \in Line(rows, m) : new[x] = rows[x]
  <2>1. m \in Present(rows) /\ m \in Nodes /\ n \notin Line(rows, m)
    BY <1>1 DEF Present
  <2>2. ASSUME NEW x \in Line(rows, m) PROVE x \in Nodes /\ new[x] = rows[x]
    <3>1. x \in Nodes /\ Line(rows, x) \subseteq Line(rows, m)
      BY <1>1, <2>1, LineNests
    <3> QED BY <2>1, <3>1
  <2>3. Line(new, m) = Line(rows, m)
    BY <1>1, <2>1, <2>2, LineSame
  <2> QED BY <2>2, <2>3
<1>3. ASSUME NEW m \in Present(new) PROVE new[m].parent \in Present(new) \cup {Root} /\ new[m] = rows[m]
  <2>1. m \in Present(rows) /\ m \in Nodes /\ n \notin Line(rows, m) /\ new[m] = rows[m]
    BY <1>1 DEF Present
  <2>2. CASE rows[m].parent # Root
    <3>1. rows[m].parent \in Present(rows)
      BY <2>1, <2>2 DEF Tree
    <3>2. Line(rows, m) = {m} \cup Line(rows, rows[m].parent)
      BY <1>1, <2>1, <2>2, LineUp
    <3> QED BY <1>1, <2>1, <3>1, <3>2
  <2> QED BY <2>1, <2>2
<1>4. ASSUME NEW m \in Nodes, new[m].parent # Root
      PROVE  m \notin Line(new, new[m].parent)
  <2>1. m \in Present(new)
    BY <1>4 DEF Present, NoNode
  <2>2. new[m].parent \in Present(new) /\ new[m] = rows[m]
    BY <1>3, <1>4, <2>1
  <2>3. Line(new, new[m].parent) = Line(rows, new[m].parent)
    BY <1>2, <2>2
  <2> QED BY <1>4, <2>2, <2>3 DEF Tree
<1> QED BY <1>1, <1>2, <1>3, <1>4 DEF Tree

-----------------------------------------------------------------------------
(* A chain a reader has collected.                                           *)

Snapshots == [id : Nodes, node : Node]

Ids(chain) == { x.id : x \in ToSet(chain) }

\* Each element of the chain is a row of the table and the parent of the next one.
ChainIn(rows, chain) ==
    /\ chain \in Seq(Snapshots) /\ chain # <<>>
    /\ \A i \in 1..Len(chain) : chain[i].node = rows[chain[i].id]
    /\ \A i \in 1..(Len(chain) - 1) : chain[i].id = chain[i + 1].node.parent

\* What is above the chain.
Above(rows, chain) ==
    IF Head(chain).node.parent = Root THEN {} ELSE Line(rows, Head(chain).node.parent)

\* The ids of a chain by their places in it, its head and its last.
LEMMA ChainPlaces ==
    ASSUME NEW chain \in Seq(Snapshots), chain # <<>>
    PROVE  /\ Len(chain) \in Nat \ {0}
           /\ \A i \in 1..Len(chain) : chain[i] \in Snapshots /\ chain[i].id \in Nodes /\ chain[i].node \in Node
           /\ Head(chain) = chain[1] /\ Last(chain) = chain[Len(chain)]
           /\ ToSet(chain) = { chain[i] : i \in 1..Len(chain) }
           /\ Ids(chain) = { chain[i].id : i \in 1..Len(chain) }
<1>1. Len(chain) \in Nat \ {0} /\ DOMAIN chain = 1..Len(chain) /\ Head(chain) = chain[1]
  OBVIOUS
<1>2. \A i \in 1..Len(chain) : chain[i] \in Snapshots
  OBVIOUS
<1>3. \A x \in Snapshots : x.id \in Nodes /\ x.node \in Node
  BY DEF Snapshots
<1>4. ToSet(chain) = { chain[i] : i \in 1..Len(chain) }
  BY <1>1 DEF ToSet
<1>5. Ids(chain) = { chain[i].id : i \in 1..Len(chain) }
  BY <1>4 DEF Ids
<1> QED BY <1>1, <1>2, <1>3, <1>4, <1>5 DEF Last

\* The line of the last element is the chain and what is above it; nothing is in both, and
\* nothing is in the chain twice.
LEMMA ChainIsLine ==
    ASSUME NEW rows, Tree(rows), NEW chain, ChainIn(rows, chain)
    PROVE  /\ Line(rows, Last(chain).id) = Ids(chain) \cup Above(rows, chain)
           /\ Ids(chain) \cap Above(rows, chain) = {}
           /\ Above(rows, chain) # {} => Cardinality(Line(rows, Last(chain).id)) >= Len(chain) + 1
<1> DEFINE L == Len(chain)
           id(i) == chain[i].id
           up(i) == rows[chain[i].id].parent
<1>1. /\ rows \in Table /\ chain \in Seq(Snapshots) /\ chain # <<>>
      /\ L \in Nat \ {0}
      /\ \A i \in 1..L : id(i) \in Nodes /\ chain[i].node = rows[id(i)]
      /\ \A i \in 1..(L - 1) : id(i) = up(i + 1) /\ id(i) # Root
      /\ Head(chain) = chain[1] /\ Last(chain) = chain[L]
      /\ Ids(chain) = { id(i) : i \in 1..L }
      /\ Head(chain).node.parent = up(1)
  <2>1. rows \in Table /\ chain \in Seq(Snapshots) /\ chain # <<>>
    BY DEF Tree, ChainIn
  <2>2. /\ L \in Nat \ {0} /\ \A i \in 1..L : id(i) \in Nodes
        /\ Head(chain) = chain[1] /\ Last(chain) = chain[L]
        /\ Ids(chain) = { id(i) : i \in 1..L }
    BY <2>1, ChainPlaces
  <2>3. \A i \in 1..L : chain[i].node = rows[id(i)]
    BY DEF ChainIn
  <2>4. \A i \in 1..(L - 1) : i \in 1..L /\ i + 1 \in 1..L
    BY <2>2
  <2>5. \A i \in 1..(L - 1) : id(i) = up(i + 1) /\ id(i) # Root
    BY <2>2, <2>3, <2>4, AccessConstants DEF ChainIn
  <2>6. 1 \in 1..L
    BY <2>2
  <2> QED BY <2>1, <2>2, <2>3, <2>5, <2>6
<1> DEFINE line(i) == Line(rows, id(i))
           above(i) == IF up(i) = Root THEN {} ELSE Line(rows, up(i))
           A == Above(rows, chain)
<1>2. A = above(1)
  BY <1>1 DEF Above
<1>3. \A i \in 1..L : line(i) = {id(i)} \cup above(i) /\ id(i) \notin above(i)
  BY <1>1, LineUp DEF Tree
<1>4. \A i \in 1..(L - 1) : above(i + 1) = line(i)
  BY <1>1
<1> HIDE DEF line, above, A, L, id, up
<1>5. \A j \in 1..L : /\ line(j) = { id(i) : i \in 1..j } \cup A
                      /\ \A i \in 1..j : id(i) \notin A
                      /\ \A i \in 1..j, k \in 1..j : id(i) = id(k) => i = k
  <2> DEFINE S == { j \in 0..(L - 1) :
                      /\ line(j + 1) = { id(i) : i \in 1..(j + 1) } \cup A
                      /\ \A i \in 1..(j + 1) : id(i) \notin A
                      /\ \A i \in 1..(j + 1), k \in 1..(j + 1) : id(i) = id(k) => i = k }
  <2>1. 0 \in S
    <3>1. 0 + 1 = 1 /\ 1..1 = {1} /\ 0 \in 0..(L - 1) /\ 1 \in 1..L
      BY <1>1
    <3>2. line(1) = {id(1)} \cup A /\ id(1) \notin A
      BY <1>2, <1>3, <3>1
    <3> QED BY <3>1, <3>2
  <2>2. ASSUME NEW j \in 0..((L - 1) - 1), j \in S
        PROVE  j + 1 \in S
    <3>1. j + 1 \in 0..(L - 1) /\ j + 1 \in 1..(L - 1) /\ (j + 1) + 1 \in 1..L
      BY <1>1
    <3>2. line((j + 1) + 1) = {id((j + 1) + 1)} \cup line(j + 1) /\ id((j + 1) + 1) \notin line(j + 1)
      BY <1>3, <1>4, <3>1
    <3>3. /\ line(j + 1) = { id(i) : i \in 1..(j + 1) } \cup A
          /\ \A i \in 1..(j + 1) : id(i) \notin A
          /\ \A i \in 1..(j + 1), k \in 1..(j + 1) : id(i) = id(k) => i = k
      BY <2>2
    <3>4. 1..((j + 1) + 1) = (1..(j + 1)) \cup {(j + 1) + 1}
      BY <3>1
    <3> DEFINE n == (j + 1) + 1
               m == j + 1
    <3> HIDE DEF n, m
    <3>5. line(n) = { id(i) : i \in 1..n } \cup A
      BY <3>2, <3>3, <3>4 DEF n, m
    <3>6. \A i \in 1..n : id(i) \notin A
      BY <3>2, <3>3, <3>4 DEF n, m
    <3>7. \A i \in 1..n, k \in 1..n : id(i) = id(k) => i = k
      <4>1. \A i \in 1..m : id(i) # id(n)
        BY <3>2, <3>3 DEF n, m
      <4>2. 1..n = (1..m) \cup {n}
        BY <3>4 DEF n, m
      <4>3. \A i \in 1..m, k \in 1..m : id(i) = id(k) => i = k
        BY <3>3 DEF m
      <4> QED BY <4>1, <4>2, <4>3
    <3> QED BY <3>1, <3>5, <3>6, <3>7 DEF n
  <2> HIDE DEF S
  <2>3. 0..(L - 1) \subseteq S
    <3>1. L - 1 \in Nat
      BY <1>1
    <3> QED BY <2>1, <2>2, <3>1, CountingUp
  <2>4. \A j \in 1..L : j - 1 \in S /\ (j - 1) + 1 = j
    BY <1>1, <2>3
  <2> QED BY <2>4 DEF S
<1>6. L \in 1..L
  BY <1>1
<1>7. Line(rows, Last(chain).id) = Ids(chain) \cup A
  BY <1>1, <1>5, <1>6 DEF line, L, id
<1>8. Ids(chain) \cap A = {}
  BY <1>1, <1>5, <1>6
<1>9. ASSUME A # {} PROVE Cardinality(Line(rows, Last(chain).id)) >= L + 1
  <2> DEFINE T == Line(rows, Last(chain).id)
  <2>1. IsFiniteSet(T) /\ Cardinality(T) \in Nat
    <3>1. Last(chain).id \in Nodes
      BY <1>1, <1>6 DEF id, L
    <3>2. T \subseteq Nodes /\ IsFiniteSet(Nodes)
      BY <1>1, <3>1, LineLeast, AccessConstants
    <3> QED BY <3>2, FS_Subset, FS_CardinalityType
  <2>2. PICK a \in A : TRUE
    BY <1>9
  <2> DEFINE f == [i \in 0..L |-> IF i = 0 THEN a ELSE id(i)]
  <2>3. f \in Injection(0..L, T)
    <3>1. \A i \in 1..L : id(i) \in T /\ id(i) # a
      BY <1>1, <1>5, <1>6, <1>7, <2>2
    <3>2. a \in T
      BY <1>7, <2>2
    <3> HIDE DEF T
    <3>3. \A i \in 0..L : f[i] \in T
      BY <1>1, <3>1, <3>2
    <3>4. \A i \in 0..L, k \in 0..L : f[i] = f[k] => i = k
      BY <1>1, <1>5, <1>6, <3>1
    <3> QED BY <3>3, <3>4 DEF Injection, IsInjective
  <2> HIDE DEF f, T
  <2>4. Cardinality(0..L) <= Cardinality(T)
    BY <2>1, <2>3, FS_Injection
  <2>5. Cardinality(0..L) = L + 1
    BY <1>1, FS_Interval
  <2> QED BY <2>4, <2>5 DEF T
<1> QED BY <1>7, <1>8, <1>9 DEF A, L

\* FindNodeByID: the chain of one row.
LEMMA ChainStarts ==
    ASSUME NEW rows, Tree(rows), NEW n \in Present(rows)
    PROVE  LET chain == <<[id |-> n, node |-> rows[n]]>>
           IN  /\ ChainIn(rows, chain) /\ Len(chain) = 1
               /\ Last(chain) = [id |-> n, node |-> rows[n]] /\ Head(chain) = [id |-> n, node |-> rows[n]]
<1> DEFINE x == [id |-> n, node |-> rows[n]]
           chain == <<x>>
<1>1. x \in Snapshots /\ x.id = n /\ x.node = rows[n]
  BY DEF Tree, Table, Present, Snapshots
<1> HIDE DEF x
<1>2. chain \in Seq(Snapshots) /\ chain # <<>> /\ Len(chain) = 1 /\ chain[1] = x
  BY <1>1
<1>3. ChainIn(rows, chain)
  BY <1>1, <1>2 DEF ChainIn
<1>4. Last(chain) = x /\ Head(chain) = x
  BY <1>2 DEF Last
<1> QED BY <1>2, <1>3, <1>4 DEF x

\* One turn of the loop of Chain: the row of the parent goes in front.
LEMMA ChainGrows ==
    ASSUME NEW rows, Tree(rows), NEW chain, ChainIn(rows, chain),
           NEW p \in Present(rows), p = Head(chain).node.parent
    PROVE  LET longer == <<[id |-> p, node |-> rows[p]]>> \o chain
           IN  /\ ChainIn(rows, longer) /\ Len(longer) = Len(chain) + 1
               /\ Last(longer) = Last(chain) /\ Head(longer).node = rows[p]
               /\ Above(rows, longer) \subseteq Above(rows, chain)
<1> DEFINE x == [id |-> p, node |-> rows[p]]
           longer == <<x>> \o chain
           L == Len(chain)
<1>1. x \in Snapshots /\ x.id = p /\ x.node = rows[p] /\ p \in Nodes
  BY DEF Tree, Table, Present, Snapshots
<1>2. /\ chain \in Seq(Snapshots) /\ chain # <<>> /\ L \in Nat \ {0} /\ Head(chain) = chain[1] /\ Last(chain) = chain[L]
      /\ \A i \in 1..L : chain[i].node = rows[chain[i].id]
      /\ \A i \in 1..(L - 1) : chain[i].id = chain[i + 1].node.parent
  BY ChainPlaces DEF ChainIn
<1> HIDE DEF x
<1>3. /\ longer \in Seq(Snapshots) /\ longer # <<>> /\ Len(longer) = L + 1 /\ longer[1] = x
      /\ \A i \in 2..(L + 1) : longer[i] = chain[i - 1]
  BY <1>1, <1>2
<1> HIDE DEF longer, L
<1>4. \A i \in 1..(L + 1) : longer[i].node = rows[longer[i].id]
  <2>1. ASSUME NEW i \in 2..(L + 1) PROVE longer[i].node = rows[longer[i].id]
    <3>1. i - 1 \in 1..L
      BY <1>2
    <3> QED BY <1>2, <1>3, <3>1
  <2>2. longer[1].node = rows[longer[1].id]
    BY <1>1, <1>3
  <2> QED BY <1>2, <2>1, <2>2
<1>5. \A i \in 1..L : longer[i].id = longer[i + 1].node.parent
  <2>1. ASSUME NEW i \in 2..L PROVE longer[i].id = longer[i + 1].node.parent
    <3>1. i - 1 \in 1..(L - 1) /\ i \in 2..(L + 1) /\ i + 1 \in 2..(L + 1) /\ (i + 1) - 1 = (i - 1) + 1
      BY <1>2
    <3> QED BY <1>2, <1>3, <3>1
  <2>2. longer[1].id = longer[1 + 1].node.parent
    <3>1. 2 \in 2..(L + 1) /\ 2 - 1 = 1 /\ 1 + 1 = 2
      BY <1>2
    <3>2. longer[2] = chain[1]
      BY <1>3, <3>1
    <3> QED BY <1>1, <1>2, <1>3, <3>1, <3>2
  <2> QED BY <1>2, <2>1, <2>2
<1>6. ChainIn(rows, longer)
  BY <1>2, <1>3, <1>4, <1>5 DEF ChainIn
<1>7. Last(longer) = Last(chain) /\ Head(longer) = x
  <2>1. L + 1 \in 2..(L + 1) /\ (L + 1) - 1 = L
    BY <1>2
  <2>2. longer[L + 1] = chain[L]
    BY <1>3, <2>1
  <2> QED BY <1>2, <1>3, <1>6, <2>2, ChainPlaces
<1>8. Above(rows, longer) \subseteq Above(rows, chain)
  <2>1. p # Root /\ rows \in Table
    BY <1>1, AccessConstants DEF Tree
  <2>2. Line(rows, p) = {p} \cup (IF rows[p].parent = Root THEN {} ELSE Line(rows, rows[p].parent))
    BY <1>1, <2>1, LineUp
  <2> QED BY <1>1, <1>7, <2>1, <2>2 DEF Above
<1> QED BY <1>1, <1>3, <1>6, <1>7, <1>8 DEF longer, L, x

\* Nothing is above a chain exactly when it has reached the top.
LEMMA AboveTop ==
    ASSUME NEW rows, Tree(rows), NEW chain, ChainIn(rows, chain)
    PROVE  /\ Above(rows, chain) = {} <=> Head(chain).node.parent = Root
           /\ Head(chain).node.parent # Root =>
                 Head(chain).node.parent \in Present(rows) /\ Head(chain).node.parent \in Above(rows, chain)
<1> DEFINE p == Head(chain).node.parent
<1>1. /\ rows \in Table /\ Head(chain).id \in Nodes /\ Head(chain).node \in Node
      /\ Head(chain).node = rows[Head(chain).id]
  <2>1. chain \in Seq(Snapshots) /\ chain # <<>>
    BY DEF ChainIn
  <2>2. Len(chain) \in Nat \ {0} /\ Head(chain) = chain[1] /\ chain[1].id \in Nodes /\ chain[1].node \in Node
    BY <2>1, ChainPlaces
  <2> QED BY <2>2 DEF Tree, ChainIn
<1>2. Head(chain).id \in Present(rows)
  BY <1>1, NodeIsNode DEF Present
<1>3. p # Root => p \in Present(rows) /\ p \in Line(rows, p)
  <2>1. p \in Present(rows) \cup {Root}
    BY <1>1, <1>2 DEF Tree
  <2> QED BY <1>1, <2>1, LineLeast DEF Present
<1> QED BY <1>3 DEF Above

-----------------------------------------------------------------------------
(* What EvaluateNodeAccess folds over a whole chain is what the rules give.  *)

\* The least visibility of a chain, and when it is at least k.
LEMMA MostRestrictive ==
    ASSUME NEW V, V \subseteq 1..3, V # {}
    PROVE  Min(V) \in 1..3 /\ \A k \in 1..3 : Min(V) >= k <=> \A v \in V : v >= k
<1>1. \E x \in V : \A y \in V : x <= y
  <2>1. V \subseteq Nat
    OBVIOUS
  <2> QED BY <2>1, LeastExists
<1> DEFINE m == Min(V)
<1>2. m \in V /\ \A y \in V : m <= y
  BY <1>1 DEF Min
<1> HIDE DEF m
<1>3. m \in 1..3
  BY <1>2
<1>4. ASSUME NEW k \in 1..3 PROVE m >= k <=> \A y \in V : y >= k
  <2>1. \A y \in V : y \in 1..3
    OBVIOUS
  <2>2. m >= k => \A y \in V : y >= k
    BY <1>2, <1>3, <2>1
  <2>3. (\A y \in V : y >= k) => m >= k
    BY <1>2
  <2> QED BY <2>2, <2>3
<1> QED BY <1>3, <1>4 DEF m

\* The entries of the chain say what the entries of the line say.
LEMMA CollectedSays ==
    ASSUME NEW chain, NEW entries, NEW c, NEW effect, NEW p
    PROVE  p \in Collected(c, effect, chain, entries)
              <=> Says(entries, Ids(chain), Last(chain).id, c, effect, p)
<1> DEFINE n == Last(chain).id
<1>1. p \in Collected(c, effect, chain, entries) <=>
        \E x \in ToSet(chain) : \E e \in entries[x.id] :
            /\ e.perms # {} /\ c \in e.callers /\ e.effect = effect
            /\ x.id = n \/ effect = "deny" \/ e.inherit
            /\ p \in e.perms
  BY DEF Collected, AclMatches
<1>2. Says(entries, Ids(chain), n, c, effect, p) <=>
        \E x \in ToSet(chain) : \E e \in entries[x.id] :
            /\ e.effect = effect /\ p \in e.perms /\ c \in e.callers
            /\ x.id = n \/ effect = "deny" \/ e.inherit
  BY DEF Says, Ids
<1> QED BY <1>1, <1>2

\* EvaluateNodeAccess on the whole chain of a tree gives what the rules give: the fold over
\* rows and entries, with its early returns, is the rules of docs/permissions.md 4.
THEOREM EvaluatesToRules ==
    ASSUME NEW rows, Tree(rows), NEW chain, ChainIn(rows, chain), Above(rows, chain) = {},
           NEW entries, NEW c, NEW open
    PROVE  EvaluateNodeAccess(c, open, chain, entries) = Rules(rows, entries, c, open, Last(chain).id)
<1> DEFINE n == Last(chain).id
           line == Line(rows, n)
           V == { x.node.visibility : x \in ToSet(chain) }
           v == EffectiveVisibility(chain)
           k == IF c = Anonymous THEN 3 ELSE 2
           locked == \E m \in line \ {open} : rows[m].password
           readable == \A m \in line : rows[m].visibility >= k
           allow == Collected(c, "allow", chain, entries)
           deny == Collected(c, "deny", chain, entries)
<1>1. /\ chain \in Seq(Snapshots) /\ chain # <<>>
      /\ \A x \in ToSet(chain) : x.node \in Node /\ x.node = rows[x.id]
      /\ Last(chain) \in ToSet(chain)
  <2>1. chain \in Seq(Snapshots) /\ chain # <<>>
    BY DEF ChainIn
  <2>2. /\ Len(chain) \in Nat \ {0} /\ Last(chain) = chain[Len(chain)]
        /\ ToSet(chain) = { chain[i] : i \in 1..Len(chain) }
        /\ \A i \in 1..Len(chain) : chain[i].node \in Node
    BY <2>1, ChainPlaces
  <2>3. \A i \in 1..Len(chain) : chain[i].node = rows[chain[i].id]
    BY DEF ChainIn
  <2> QED BY <2>1, <2>2, <2>3
<1>2. line = Ids(chain)
  BY ChainIsLine
<1>3. Last(chain).node = rows[n] /\ rows[n] # NoNode
  BY <1>1, NodeIsNode
<1>4. locked <=> \E x \in ToSet(chain) : x.node.password /\ x.id # open
  BY <1>1, <1>2 DEF Ids
<1>5. readable <=> v >= k
  <2>1. V \subseteq 1..3 /\ V # {}
    BY <1>1 DEF Node
  <2>2. Min(V) >= k <=> \A y \in V : y >= k
    <3>1. k \in 1..3
      OBVIOUS
    <3> HIDE DEF V, k
    <3> QED BY <2>1, <3>1, MostRestrictive
  <2>3. v = Min(V)
    BY DEF EffectiveVisibility
  <2>4. readable <=> \A y \in V : y >= k
    <3>1. readable <=> \A x \in ToSet(chain) : rows[x.id].visibility >= k
      BY <1>2 DEF Ids
    <3> QED BY <1>1, <3>1
  <2> QED BY <2>2, <2>3, <2>4
<1>6. Granted(c, v) = IF readable THEN ReadOnly ELSE {}
  <2>1. v \in 1..3
    <3>1. V \subseteq 1..3 /\ V # {}
      BY <1>1 DEF Node
    <3> HIDE DEF V
    <3>2. Min(V) \in 1..3
      BY <3>1, MostRestrictive
    <3> QED BY <3>2 DEF EffectiveVisibility, V
  <2> HIDE DEF readable, v
  <2> QED BY <1>5, <2>1 DEF Granted
<1>7. \A p : /\ p \in allow <=> Says(entries, line, n, c, "allow", p)
             /\ p \in deny <=> Says(entries, line, n, c, "deny", p)
  BY <1>2, CollectedSays
<1> DEFINE may(p) == /\ Says(entries, line, n, c, "allow", p) \/ (readable /\ p \in ReadOnly)
                     /\ ~Says(entries, line, n, c, "deny", p)
                     /\ locked => p = "view"
           perms == ((Granted(c, v) \cup allow) \ deny) \cap Ceiling(c)
<1>8. (IF locked THEN perms \cap {"view"} ELSE perms) = { p \in Ceiling(c) : may(p) }
  <2> HIDE DEF allow, deny, locked, readable, v, line, n
  <2>1. \A p : p \in perms <=> /\ p \in Ceiling(c)
                               /\ Says(entries, line, n, c, "allow", p) \/ (readable /\ p \in ReadOnly)
                               /\ ~Says(entries, line, n, c, "deny", p)
    BY <1>6, <1>7
  <2> HIDE DEF perms
  <2> QED BY <2>1
<1>9. Rules(rows, entries, c, open, n) =
        IF c \in Admins \cup {rows[n].owner} THEN [perms |-> Ceiling(c), locked |-> FALSE]
        ELSE [perms |-> { p \in Ceiling(c) : may(p) }, locked |-> locked]
  <2>1. n \in Present(rows)
    <3>1. n \in Nodes
      <4>1. Len(chain) \in 1..Len(chain) /\ Last(chain) = chain[Len(chain)]
        BY <1>1, ChainPlaces
      <4> QED BY <1>1, <4>1, ChainPlaces
    <3> QED BY <1>3, <3>1 DEF Present
  <2>2. Standing(rows, n) = line
    BY <2>1, LineStands
  <2> HIDE DEF line
  <2> QED BY <1>3, <2>2 DEF Rules
<1>10. EvaluateNodeAccess(c, open, chain, entries) =
         IF c \in Admins \/ c = rows[n].owner THEN [perms |-> Ceiling(c), locked |-> FALSE]
         ELSE [perms |-> IF locked THEN perms \cap {"view"} ELSE perms, locked |-> locked]
  <2> DEFINE lock == \E x \in ToSet(chain) : x.node.password /\ x.id # open
  <2>1. EvaluateNodeAccess(c, open, chain, entries) =
         IF c \in Admins \/ c = Last(chain).node.owner THEN [perms |-> Ceiling(c), locked |-> FALSE]
         ELSE [perms |-> IF lock THEN perms \cap {"view"} ELSE perms, locked |-> lock]
    BY DEF EvaluateNodeAccess
  <2>2. lock = locked
    BY <1>4
  <2> HIDE DEF lock, locked, perms
  <2> QED BY <1>3, <2>1, <2>2
<1> HIDE DEF may, perms, locked
<1> QED BY <1>8, <1>9, <1>10
-----------------------------------------------------------------------------
(* Types.                                                                    *)

LEMMA CeilingType ==
    ASSUME NEW c
    PROVE  Ceiling(c) \subseteq NodeScope
BY AccessConstants DEF Ceiling

LEMMA RulesType ==
    ASSUME NEW rows, NEW entries, NEW c, NEW open, NEW n
    PROVE  Rules(rows, entries, c, open, n) \in Access
<1> DEFINE line == Standing(rows, n)
           locked == \E m \in line \ {open} : rows[m].password
           readable == \A m \in line : rows[m].visibility >= IF c = Anonymous THEN 3 ELSE 2
           may(p) == /\ Says(entries, line, n, c, "allow", p) \/ (readable /\ p \in ReadOnly)
                     /\ ~Says(entries, line, n, c, "deny", p)
                     /\ locked => p = "view"
           perms == { p \in Ceiling(c) : may(p) }
<1>1. Rules(rows, entries, c, open, n) =
        IF rows[n] = NoNode THEN NoAccess
        ELSE IF c \in Admins \cup {rows[n].owner} THEN [perms |-> Ceiling(c), locked |-> FALSE]
        ELSE [perms |-> perms, locked |-> locked]
  BY DEF Rules
<1>2. locked \in BOOLEAN /\ perms \subseteq Ceiling(c)
  OBVIOUS
<1> HIDE DEF locked, perms
<1> QED BY <1>1, <1>2, CeilingType DEF Access, NoAccess

LEMMA EvaluateType ==
    ASSUME NEW c, NEW open, NEW chain, NEW entries
    PROVE  EvaluateNodeAccess(c, open, chain, entries) \in Access
<1> DEFINE locked == \E x \in ToSet(chain) : x.node.password /\ x.id # open
           perms == ((Granted(c, EffectiveVisibility(chain)) \cup Collected(c, "allow", chain, entries))
                        \ Collected(c, "deny", chain, entries)) \cap Ceiling(c)
<1>1. EvaluateNodeAccess(c, open, chain, entries) =
        IF c \in Admins \/ c = Last(chain).node.owner THEN [perms |-> Ceiling(c), locked |-> FALSE]
        ELSE [perms |-> IF locked THEN perms \cap {"view"} ELSE perms, locked |-> locked]
  BY DEF EvaluateNodeAccess
<1>2. locked \in BOOLEAN /\ perms \subseteq Ceiling(c)
  OBVIOUS
<1> HIDE DEF locked, perms
<1> QED BY <1>1, <1>2, CeilingType DEF Access

\* A read that has not answered yet.
Reading ==
    [pc : {"walk", "acl"}, caller : Callers, open : Nodes \cup {Root},
     chain : Seq(Snapshots), seen : SUBSET Access, changed : BOOLEAN]

LEMMA ReadingType ==
    ASSUME NEW rd \in ReadState \cup {IdleRead}
    PROVE  /\ rd.pc \in {"walk", "acl"} <=> rd \in Reading
           /\ rd \notin Reading => rd.pc \in {"idle", "done"}
           /\ rd.pc = "idle" => rd = IdleRead
           /\ rd.pc = "done" => /\ rd.node \in Nodes /\ rd.answer \in Access
                                /\ rd.seen \in SUBSET Access /\ rd.changed \in BOOLEAN
<1>1. \/ rd \in Reading
      \/ rd \in [pc : {"done"}, node : Nodes, answer : Access, seen : SUBSET Access, changed : BOOLEAN]
      \/ rd = IdleRead
  BY DEF ReadState, Reading, Snapshots
<1>2. IdleRead.pc = "idle" /\ \A x \in Reading : x.pc \in {"walk", "acl"}
  BY DEF IdleRead, Reading
<1> QED BY <1>1, <1>2

\* What a change does to the read in flight.
LEMMA Noted ==
    ASSUME TypeOK, Observed, read.pc # "done"
    PROVE  /\ read' \in ReadState \cup {IdleRead}
           /\ read.pc = "idle" => read' = read
           /\ read.pc \in {"walk", "acl"} =>
                 /\ read' \in Reading /\ read'.pc = read.pc /\ read'.changed = TRUE
                 /\ read'.caller = read.caller /\ read'.open = read.open /\ read'.chain = read.chain
                 /\ read'.seen = read.seen \cup {Rules(row', acl', read.caller, read.open, Last(read.chain).id)}
<1>1. CASE read.pc = "idle"
  BY <1>1 DEF Observed, TypeOK
<1>2. CASE read.pc \in {"walk", "acl"}
  <2> DEFINE r == Rules(row', acl', read.caller, read.open, Last(read.chain).id)
  <2>1. read \in Reading
    BY <1>2, ReadingType DEF TypeOK
  <2>2. r \in Access
    BY RulesType
  <2>3. read' = [read EXCEPT !.seen = @ \cup {r}, !.changed = TRUE]
    BY <1>2 DEF Observed
  <2> HIDE DEF r
  <2>4. /\ read' \in Reading /\ read'.pc = read.pc /\ read'.changed = TRUE
        /\ read'.caller = read.caller /\ read'.open = read.open /\ read'.chain = read.chain
        /\ read'.seen = read.seen \cup {r}
    BY <2>1, <2>2, <2>3 DEF Reading
  <2>5. read' \in ReadState
    BY <2>4 DEF Reading, ReadState, Snapshots
  <2> QED BY <1>2, <2>4, <2>5 DEF r
<1>3. read.pc \in {"idle", "walk", "acl"}
  BY ReadingType DEF TypeOK
<1> QED BY <1>1, <1>2, <1>3

-----------------------------------------------------------------------------
(* The changes.                                                              *)

\* What a change can have done to the tables, of use to a reader: nothing to the rows, or
\* another row for one node and nothing to the entries, or nothing to what is above a row
\* that is left.
Touches(rows, entries, new, newEntries) ==
    \/ new = rows
    \/ newEntries = entries /\ \E n \in Nodes : \A m \in Nodes \ {n} : new[m] = rows[m]
    \/ \A m \in Present(new) : m \in Present(rows) /\ \A x \in Line(rows, m) : new[x] = rows[x]

\* The entries are those of rows.
Tidy(rows, entries) ==
    /\ entries \in [Nodes -> SUBSET Entries]
    /\ \A n \in Nodes \ Present(rows) : entries[n] = {}

Safe(rows, entries) == Tree(rows) /\ Tidy(rows, entries)

LEMMA CreateFolderKeeps ==
    ASSUME Safe(row, acl), NEW c \in Accounts, NEW n \in Nodes, NEW p, NEW set \in Settings, CreateFolder(c, n, p, set)
    PROVE  /\ Safe(row', acl') /\ Touches(row, acl, row', acl')
           /\ n \in Nodes \ Present(row) /\ p \in Present(row) \cup {Root} /\ row'[n].parent = p
           /\ Present(row') = Present(row) \cup {n}
           /\ \A m \in Present(row) : Line(row', m) = Line(row, m)
<1> DEFINE w == [parent |-> p, owner |-> c, visibility |-> set.visibility, password |-> set.password]
<1>1. n \notin Present(row) /\ p \in Present(row) \cup {Root} /\ row' = [row EXCEPT ![n] = w] /\ acl' = acl
  BY DEF CreateFolder, Known, Writable, Rows, Present
<1>2. w \in Node /\ w.parent = p
  BY <1>1, AccessConstants DEF Node, Present
<1> HIDE DEF w
<1>3. Tree(row')
  BY <1>1, <1>2, TreeGrows DEF Safe
<1>4. \A m \in Present(row) : Line(row', m) = Line(row, m)
  BY <1>1, <1>2, TreeGrows DEF Safe
<1>5. row'[n] = w /\ \A m \in Nodes \ {n} : row'[m] = row[m]
  BY <1>1 DEF Safe, Tree, Table
<1>6. Present(row') = Present(row) \cup {n}
  BY <1>2, <1>5, NodeIsNode DEF Present
<1>7. Tidy(row', acl')
  BY <1>1, <1>6 DEF Safe, Tidy
<1> QED BY <1>1, <1>2, <1>3, <1>4, <1>5, <1>6, <1>7 DEF Safe, Touches

LEMMA UpdateNodeKeeps ==
    ASSUME Safe(row, acl), NEW c, NEW n, NEW set \in Settings, UpdateNode(c, n, set)
    PROVE  /\ Safe(row', acl') /\ Touches(row, acl, row', acl')
           /\ Present(row') = Present(row) /\ \A m \in Nodes : Line(row', m) = Line(row, m)
<1>1. n \in Present(row) /\ acl' = acl /\ row' = [row EXCEPT ![n].visibility = set.visibility, ![n].password = set.password]
  BY DEF UpdateNode, Rows, Present
<1> DEFINE w == [[row[n] EXCEPT !.visibility = set.visibility] EXCEPT !.password = set.password]
<1>2. row \in Table /\ n \in Nodes /\ row[n] \in Node
  BY <1>1 DEF Safe, Tree, Table, Present
<1>3. w \in Node /\ w.parent = row[n].parent
  BY <1>2, AccessConstants DEF Node
<1>4. row' = [row EXCEPT ![n] = w]
  BY <1>1, <1>2, <1>3 DEF Table
<1> HIDE DEF w
<1>5. row' \in Table /\ row'[n] = w /\ \A m \in Nodes \ {n} : row'[m] = row[m]
  BY <1>2, <1>3, <1>4 DEF Table
<1>6. Present(row') = Present(row)
  BY <1>1, <1>3, <1>5, NodeIsNode DEF Present
<1>7. Tree(row') /\ \A m \in Nodes : Line(row', m) = Line(row, m)
  <2>1. \A m \in Nodes : row'[m].parent = row[m].parent
    BY <1>3, <1>5
  <2> QED BY <1>5, <1>6, <2>1, TreeKeeps DEF Safe
<1>8. Tidy(row', acl')
  BY <1>1, <1>6 DEF Safe, Tidy
<1> QED BY <1>1, <1>2, <1>5, <1>6, <1>7, <1>8 DEF Safe, Touches

LEMMA SetNodeAclKeeps ==
    ASSUME Safe(row, acl), NEW c, NEW n, NEW entries \in SUBSET Entries, NEW page,
           SetNodeAcl(c, n, entries, page)
    PROVE  Safe(row', acl') /\ Touches(row, acl, row', acl') /\ row' = row
<1>1. /\ n \in Present(row) /\ row' = row
      /\ acl' = [m \in Nodes |-> IF m \in page \cup {n} THEN entries ELSE acl[m]]
  BY DEF SetNodeAcl, Rows, Present
<1>2. page \subseteq Present(row)
  BY DEF SetNodeAcl, Below, Rows, Present
<1>3. Tidy(row', acl')
  BY <1>1, <1>2 DEF Safe, Tidy
<1> QED BY <1>1, <1>3 DEF Safe, Touches

LEMMA MoveNodeKeeps ==
    ASSUME Safe(row, acl), NEW c, NEW n, NEW p, MoveNode(c, n, p)
    PROVE  Safe(row', acl') /\ Touches(row, acl, row', acl') /\ "move" \in Ops
<1>1. /\ n \in Present(row) /\ p \in Present(row) \cup {Root} /\ (p # Root => n \notin Line(row, p))
      /\ row' = [row EXCEPT ![n].parent = p] /\ acl' = acl /\ "move" \in Ops
  BY DEF MoveNode, Writable, Rows, Present
<1>2. Tree(row')
  BY <1>1, TreeMoves DEF Safe
<1>3. /\ row \in Table /\ n \in Nodes /\ \A m \in Nodes \ {n} : row'[m] = row[m]
      /\ row'[n] # NoNode
  <2>1. row \in Table /\ n \in Nodes /\ row[n] \in Node /\ p \in Nodes \cup {Root}
    BY <1>1 DEF Safe, Tree, Table, Present
  <2>2. [row[n] EXCEPT !.parent = p] \in Node
    BY <2>1 DEF Node
  <2> QED BY <1>1, <2>1, <2>2, NodeIsNode DEF Table
<1>4. Present(row') = Present(row)
  BY <1>1, <1>3 DEF Present
<1>5. Tidy(row', acl')
  BY <1>1, <1>4 DEF Safe, Tidy
<1> QED BY <1>1, <1>2, <1>3, <1>5 DEF Safe, Touches

\* A subtree that fits a page is read as a whole.
LEMMA PageIsWhole ==
    ASSUME WholePages, NEW S \in SUBSET Nodes, NEW page \in Page(S)
    PROVE  page = S
<1>1. page \subseteq S /\ (Cardinality(page) < PageSize => page = S)
  BY DEF Page
<1>2. IsFiniteSet(Nodes) /\ PageSize \in Nat /\ IsFiniteSet(S) /\ Cardinality(Nodes) \in Nat
  BY AccessConstants, FS_Subset, FS_CardinalityType
<1>3. page \in SUBSET S /\ Cardinality(page) \in Nat /\ Cardinality(S) \in Nat /\ Cardinality(S) <= Cardinality(Nodes)
  BY <1>1, <1>2, FS_Subset, FS_CardinalityType
<1>4. CASE Cardinality(page) >= PageSize
  <2>1. Cardinality(page) <= Cardinality(S) /\ (Cardinality(page) = Cardinality(S) => page = S)
    BY <1>2, <1>3, FS_Subset
  <2> QED BY <1>2, <1>3, <1>4, <2>1 DEF WholePages
<1> QED BY <1>1, <1>2, <1>3, <1>4

LEMMA PurgeNodeKeeps ==
    ASSUME WholePages, Safe(row, acl), NEW c, NEW n \in Nodes, NEW page, PurgeNode(c, n, page)
    PROVE  /\ Safe(row', acl') /\ Touches(row, acl, row', acl')
           /\ Present(row') \subseteq Present(row)
           /\ \A m \in Present(row') : Line(row', m) = Line(row, m)
<1>0. page = Below(n)
  <2>1. page \in Page(Below(n)) /\ Below(n) \in SUBSET Nodes
    BY DEF PurgeNode, Below, Rows
  <2> QED BY <2>1, PageIsWhole
<1>1. /\ row' = [m \in Nodes |-> IF m \in Below(n) THEN NoNode ELSE row[m]]
      /\ acl' = [m \in Nodes |-> IF m \in Below(n) THEN {} ELSE acl[m]]
  BY <1>0 DEF PurgeNode
<1>2. Below(n) = { m \in Present(row) : n \in Line(row, m) }
  BY DEF Below, Rows, Present
<1>3. row' = [m \in Nodes |-> IF m \in Present(row) /\ n \in Line(row, m) THEN NoNode ELSE row[m]]
  BY <1>1, <1>2
<1>4. /\ Tree(row') /\ Present(row') \subseteq Present(row)
      /\ \A m \in Present(row') : Line(row', m) = Line(row, m) /\ \A x \in Line(row, m) : row'[x] = row[x]
  BY <1>3, TreeShrinks DEF Safe
<1>5. Tidy(row', acl')
  <2>1. \A m \in Nodes \ Present(row') : m \in Below(n) \/ m \notin Present(row)
    BY <1>1 DEF Present
  <2> QED BY <1>1, <2>1 DEF Safe, Tidy
<1> QED BY <1>4, <1>5 DEF Safe, Touches
-----------------------------------------------------------------------------
(* AccessTypes.                                                              *)

LEMMA SafeIsTyped ==
    ASSUME Safe(row, acl), read \in ReadState \cup {IdleRead}
    PROVE  TypeOK
BY DEF Safe, Tidy, Tree, Table, Rows, Present, TypeOK

\* A change is one of five, and is noted by the read in flight.
LEMMA ChangeKeeps ==
    ASSUME WholePages, Safe(row, acl), NEW c \in Writers, Change(c)
    PROVE  /\ Safe(row', acl') /\ Touches(row, acl, row', acl')
           /\ Observed /\ read.pc # "done" /\ (read.pc # "idle" => ~read.changed)
<1>1. c \in Accounts
  BY AccessConstants
<1>2. read.pc # "done" /\ (read.pc # "idle" => ~read.changed)
  BY DEF Change
<1>3. PICK n \in Nodes :
        \/ \E set \in Settings :
              UpdateNode(c, n, set) \/ \E p \in Nodes \cup {Root} : CreateFolder(c, n, p, set)
        \/ \E page \in SUBSET Nodes :
              \/ SetNodeAcl(c, n, {}, page)
              \/ \E e \in Entries : SetNodeAcl(c, n, {e}, page)
              \/ PurgeNode(c, n, page)
        \/ \E p \in Nodes \cup {Root} : MoveNode(c, n, p)
  BY DEF Change
<1>4. ASSUME NEW set \in Settings, UpdateNode(c, n, set)
      PROVE  Safe(row', acl') /\ Touches(row, acl, row', acl') /\ Observed
  <2>1. Observed
    BY <1>4 DEF UpdateNode
  <2> QED BY <1>4, <2>1, UpdateNodeKeeps
<1>5. ASSUME NEW set \in Settings, NEW p \in Nodes \cup {Root}, CreateFolder(c, n, p, set)
      PROVE  Safe(row', acl') /\ Touches(row, acl, row', acl') /\ Observed
  <2>1. Observed
    BY <1>5 DEF CreateFolder
  <2> QED BY <1>1, <1>5, <2>1, CreateFolderKeeps
<1>6. ASSUME NEW entries \in SUBSET Entries, NEW page, SetNodeAcl(c, n, entries, page)
      PROVE  Safe(row', acl') /\ Touches(row, acl, row', acl') /\ Observed
  <2>1. Observed
    BY <1>6 DEF SetNodeAcl
  <2> QED BY <1>6, <2>1, SetNodeAclKeeps
<1>7. ASSUME NEW p \in Nodes \cup {Root}, MoveNode(c, n, p)
      PROVE  Safe(row', acl') /\ Touches(row, acl, row', acl') /\ Observed
  <2>1. Observed
    BY <1>7 DEF MoveNode
  <2> QED BY <1>7, <2>1, MoveNodeKeeps
<1>8. ASSUME NEW page, PurgeNode(c, n, page)
      PROVE  Safe(row', acl') /\ Touches(row, acl, row', acl') /\ Observed
  <2>1. Observed
    BY <1>8 DEF PurgeNode
  <2> QED BY <1>8, <2>1, PurgeNodeKeeps
<1>9. {} \in SUBSET Entries /\ \A e \in Entries : {e} \in SUBSET Entries
  OBVIOUS
<1> QED BY <1>2, <1>3, <1>4, <1>5, <1>6, <1>7, <1>8, <1>9

\* A read holds a chain of at least the node until it answers.
Loaded(rd) ==
    /\ rd \in ReadState \cup {IdleRead}
    /\ rd.pc \in {"walk", "acl"} => rd.chain # <<>>

\* The reader's own steps leave the tables and stay in the types.
LEMMA ReaderTyped ==
    ASSUME Safe(row, acl), Loaded(read),
           \/ \E c \in Readers, n \in Nodes, open \in Nodes \cup {Root} : Load(c, n, open)
           \/ Walk \/ ReadAcl \/ Answered
    PROVE  Loaded(read') /\ UNCHANGED <<row, acl>>
<1>1. ASSUME NEW c \in Readers, NEW n \in Nodes, NEW open \in Nodes \cup {Root}, Load(c, n, open)
      PROVE  Loaded(read') /\ UNCHANGED <<row, acl>>
  <2>1. n \in Present(row)
    BY <1>1 DEF Load, Rows, Present
  <2>2. Snapshot(n) \in Snapshots
    BY <2>1 DEF Safe, Tree, Table, Present, Snapshot, Snapshots
  <2>3. <<Snapshot(n)>> \in Seq(Snapshots)
    BY <2>2
  <2>4. {Rules(row, acl, c, open, n)} \in SUBSET Access
    BY RulesType
  <2>5. c \in Callers
    BY AccessConstants DEF Callers
  <2>6. read' \in Reading /\ read'.chain # <<>>
    BY <1>1, <2>3, <2>4, <2>5 DEF Load, Reading
  <2> QED BY <1>1, <2>6 DEF Load, Reading, ReadState, Snapshots, Loaded
<1>2. ASSUME Walk
      PROVE  Loaded(read') /\ UNCHANGED <<row, acl>>
  <2> DEFINE p == Head(read.chain).node.parent
  <2>1. read \in Reading /\ read.chain # <<>> /\ UNCHANGED <<row, acl>>
    BY <1>2, ReadingType DEF Walk, Loaded
  <2>2. CASE read' = [read EXCEPT !.pc = "acl"]
    BY <2>1, <2>2 DEF Reading, ReadState, Snapshots, Loaded
  <2>3. CASE p \in Rows /\ read' = [read EXCEPT !.chain = <<Snapshot(p)>> \o @]
    <3>1. Snapshot(p) \in Snapshots
      BY <2>3 DEF Safe, Tree, Table, Rows, Snapshot, Snapshots
    <3> HIDE DEF p
    <3>2. <<Snapshot(p)>> \o read.chain \in Seq(Snapshots) /\ <<Snapshot(p)>> \o read.chain # <<>>
      BY <2>1, <3>1 DEF Reading
    <3> QED BY <2>1, <2>3, <3>2 DEF Reading, ReadState, Snapshots, Loaded
  <2> QED BY <1>2, <2>1, <2>2, <2>3 DEF Walk
<1>3. ASSUME ReadAcl
      PROVE  Loaded(read') /\ UNCHANGED <<row, acl>>
  <2> DEFINE a == EvaluateNodeAccess(read.caller, read.open, read.chain, acl)
  <2>1. read \in Reading /\ read.chain # <<>>
    BY <1>3, ReadingType DEF ReadAcl, Loaded
  <2>2. a \in Access
    BY EvaluateType
  <2>3. /\ read' = [pc |-> "done", node |-> Last(read.chain).id, seen |-> read.seen,
                    changed |-> read.changed, answer |-> a]
        /\ UNCHANGED <<row, acl>>
    BY <1>3 DEF ReadAcl
  <2>4. Last(read.chain).id \in Nodes
    <3>1. read.chain \in Seq(Snapshots)
      BY <2>1 DEF Reading
    <3>2. Len(read.chain) \in 1..Len(read.chain)
      BY <2>1, <3>1
    <3> QED BY <2>1, <3>1, <3>2, ChainPlaces
  <2> HIDE DEF a
  <2>5. read' \in ReadState /\ read'.pc = "done"
    BY <2>1, <2>2, <2>3, <2>4 DEF Reading, ReadState
  <2> QED BY <2>3, <2>5 DEF Loaded
<1>4. ASSUME Answered
      PROVE  Loaded(read') /\ UNCHANGED <<row, acl>>
  BY <1>4 DEF Answered, IdleRead, Loaded
<1> QED BY <1>1, <1>2, <1>3, <1>4

\* A change leaves the chain of the read in flight.
LEMMA ChangeTyped ==
    ASSUME Safe(row, acl), Loaded(read), Observed, read.pc # "done"
    PROVE  Loaded(read')
<1>1. TypeOK
  BY SafeIsTyped DEF Loaded
<1>2. read' \in ReadState \cup {IdleRead}
  BY <1>1, Noted
<1>3. CASE read.pc = "idle"
  BY <1>1, <1>3, Noted DEF Loaded
<1>4. CASE read.pc \in {"walk", "acl"}
  BY <1>1, <1>2, <1>4, Noted DEF Loaded
<1>5. read.pc \in {"idle", "walk", "acl"}
  BY ReadingType DEF Loaded
<1> QED BY <1>3, <1>4, <1>5

\* No folder is above itself, no entry belongs to a node that is gone, and a read in flight
\* has loaded at least the node it was asked for.
AccessInv == Safe(row, acl) /\ Loaded(read)

LEMMA AccessInitially == Init => AccessInv
<1> SUFFICES ASSUME Init PROVE AccessInv
  OBVIOUS
<1>1. row \in Table /\ Present(row) = {}
  BY DEF Init, Table, Present
<1>2. \A n \in Nodes : row[n].parent = Root
  BY DEF Init, NoNode
<1>3. Tree(row) /\ Tidy(row, acl)
  BY <1>1, <1>2 DEF Init, Tree, Tidy
<1>4. Loaded(read)
  BY DEF Init, IdleRead, Loaded
<1> QED BY <1>3, <1>4 DEF AccessInv, Safe

LEMMA AccessKept ==
    ASSUME WholePages
    PROVE  AccessInv /\ [Next]_vars => AccessInv'
<1> SUFFICES ASSUME AccessInv, [Next]_vars PROVE Safe(row', acl') /\ Loaded(read')
  BY DEF AccessInv
<1>1. Safe(row, acl) /\ Loaded(read)
  BY DEF AccessInv
<1>2. ASSUME NEW c \in Writers, Change(c) PROVE Safe(row', acl') /\ Loaded(read')
  BY <1>1, <1>2, ChangeKeeps, ChangeTyped
<1>3. ASSUME \/ \E c \in Readers, n \in Nodes, open \in Nodes \cup {Root} : Load(c, n, open)
             \/ Walk \/ ReadAcl \/ Answered
      PROVE  Safe(row', acl') /\ Loaded(read')
  BY <1>1, <1>3, ReaderTyped
<1>4. CASE UNCHANGED vars
  BY <1>1, <1>4 DEF vars
<1> QED BY <1>2, <1>3, <1>4 DEF Next

\* Nothing leaves its domain, and no row and no entry refers to a node that is gone, whatever
\* changes land in a read (PurgeNodes, DeleteAclForNodes, MoveNodes, CreateFolder), as long
\* as every subtree fits the page that PurgeNodes lists.
THEOREM AccessTypes ==
    ASSUME WholePages
    PROVE  Spec => []TypeOK
<1>1. AccessInv => TypeOK
  BY SafeIsTyped DEF AccessInv, Loaded
<1> QED BY <1>1, AccessInitially, AccessKept, PTL DEF Spec
-----------------------------------------------------------------------------
(* AnswersHold: the chain a reader collects is whole in the tree of one      *)
(* moment.                                                                   *)

\* A row is created in the limit; what else the changes do leaves a line as long as it was,
\* except a move, and then the number of folders keeps it short.
LEMMA ChangeShallow ==
    ASSUME WholePages, WholeChains, Safe(row, acl), Shallow(row), NEW c \in Writers, Change(c)
    PROVE  Shallow(row')
<1>0. Safe(row', acl') /\ row' \in Table /\ row \in Table
  BY ChangeKeeps DEF Safe, Tree
<1>1. CASE Cardinality(Nodes) <= MaxDepth + 1
  <2>1. ASSUME NEW n \in Present(row') PROVE Cardinality(Line(row', n)) <= MaxDepth + 1
    <3>1. n \in Nodes /\ Line(row', n) \subseteq Nodes /\ IsFiniteSet(Nodes)
      <4>1. n \in Nodes
        BY DEF Present
      <4> QED BY <1>0, <4>1, LineLeast, AccessConstants
    <3>2. /\ Cardinality(Line(row', n)) <= Cardinality(Nodes)
          /\ Cardinality(Line(row', n)) \in Nat /\ Cardinality(Nodes) \in Nat
      BY <3>1, FS_Subset, FS_CardinalityType
    <3> QED BY <1>1, <3>2, AccessConstants
  <2> QED BY <2>1 DEF Shallow
<1>2. CASE "move" \notin Ops
  <2>1. PICK n \in Nodes :
          \/ \E set \in Settings :
                UpdateNode(c, n, set) \/ \E p \in Nodes \cup {Root} : CreateFolder(c, n, p, set)
          \/ \E page \in SUBSET Nodes : \/ \E entries \in SUBSET Entries : SetNodeAcl(c, n, entries, page)
                                         \/ PurgeNode(c, n, page)
    <3>1. \A m, p : ~MoveNode(c, m, p)
      BY <1>2 DEF MoveNode
    <3>2. {} \in SUBSET Entries /\ \A e \in Entries : {e} \in SUBSET Entries
      OBVIOUS
    <3> QED BY <3>1, <3>2 DEF Change
  <2>2. ASSUME NEW set \in Settings, UpdateNode(c, n, set) PROVE Shallow(row')
    BY <2>2, UpdateNodeKeeps DEF Shallow, Present
  <2>3. ASSUME NEW set \in Settings, NEW p \in Nodes \cup {Root}, CreateFolder(c, n, p, set) PROVE Shallow(row')
    <3>0. c \in Accounts
      BY AccessConstants
    <3>1. /\ n \in Nodes \ Present(row) /\ p \in Present(row) \cup {Root} /\ row'[n].parent = p
          /\ Present(row') = Present(row) \cup {n}
          /\ \A m \in Present(row) : Line(row', m) = Line(row, m)
      BY <2>3, <3>0, CreateFolderKeeps
    <3>2. DepthUnder(p) < MaxDepth
      BY <2>3 DEF CreateFolder
    <3>3. Line(row', n) = {n} \cup (IF p = Root THEN {} ELSE Line(row', p))
      BY <1>0, <3>1, LineUp
    <3>4. Cardinality(Line(row', n)) <= MaxDepth + 1
      <4>1. CASE p = Root
        <5>1. Cardinality(Line(row', n)) = 1
          BY <3>3, <4>1, FS_Singleton
        <5> QED BY <5>1, AccessConstants
      <4>2. CASE p # Root
        <5>1. Line(row', p) = Line(row, p) /\ p \in Nodes
          BY <3>1, <4>2 DEF Present
        <5>2. IsFiniteSet(Line(row, p)) /\ Cardinality(Line(row, p)) \in Nat
          BY <1>0, <5>1, LineLeast, AccessConstants, FS_Subset, FS_CardinalityType
        <5>3. Cardinality(Line(row, p)) < MaxDepth
          BY <3>2, <4>2, <5>2, AccessConstants DEF DepthUnder, Depth
        <5>4. Line(row', n) = Line(row, p) \cup {n}
          BY <3>3, <4>2, <5>1
        <5>5. Cardinality(Line(row, p) \cup {n}) \in {Cardinality(Line(row, p)), Cardinality(Line(row, p)) + 1}
          BY <5>2, FS_AddElement
        <5> QED BY <5>2, <5>3, <5>4, <5>5, AccessConstants
      <4> QED BY <4>1, <4>2
    <3> QED BY <3>1, <3>4 DEF Shallow
  <2>4. ASSUME NEW entries \in SUBSET Entries, NEW page, SetNodeAcl(c, n, entries, page)
        PROVE  Shallow(row')
    BY <2>4, SetNodeAclKeeps
  <2>5. ASSUME NEW page, PurgeNode(c, n, page) PROVE Shallow(row')
    BY <2>5, PurgeNodeKeeps DEF Shallow
  <2> QED BY <2>1, <2>2, <2>3, <2>4, <2>5
<1> QED BY <1>1, <1>2 DEF WholeChains

\* rows is the tree of one moment in which what the read has loaded is the lower part of a
\* line, what it has yet to load is what the table holds now, and whose rules, with the
\* entries of now, are among those seen.
Follows(rows, table, entries, rd) ==
    /\ Tree(rows) /\ Shallow(rows) /\ ChainIn(rows, rd.chain)
    /\ \A m \in Above(rows, rd.chain) : table[m] = rows[m]
    /\ Rules(rows, entries, rd.caller, rd.open, Last(rd.chain).id) \in rd.seen
    /\ rd.pc = "acl" => Above(rows, rd.chain) = {}

\* That tree is the table itself until a change lands in the read, and there is one as long
\* as the node is there.
Truthful(table, entries, rd) ==
    /\ rd.pc \in {"walk", "acl"} =>
          /\ ~rd.changed => Follows(table, table, entries, rd)
          /\ Last(rd.chain).id \in Present(table) => \E rows : Follows(rows, table, entries, rd)
    /\ rd.pc = "done" => (rd.node \in Present(table) => rd.answer \in rd.seen)

\* The rows of a chain that a change leaves are a chain of the tree after it.
LEMMA ChainKept ==
    ASSUME NEW rows, Tree(rows), NEW new, Tree(new), NEW chain, ChainIn(rows, chain),
           \A m \in Ids(chain) : new[m] = rows[m]
    PROVE  ChainIn(new, chain) /\ (Above(rows, chain) = {} => Above(new, chain) = {})
<1>1. chain \in Seq(Snapshots) /\ chain # <<>>
  BY DEF ChainIn
<1>2. \A i \in 1..Len(chain) : chain[i].id \in Ids(chain)
  BY <1>1, ChainPlaces
<1>3. ChainIn(new, chain)
  BY <1>2 DEF ChainIn
<1> QED BY <1>3, AboveTop

\* FindNodeByID.
LEMMA LoadFollows ==
    ASSUME Safe(row, acl), Shallow(row), NEW c, NEW n \in Nodes, NEW open, Load(c, n, open)
    PROVE  Truthful(row, acl, read')
<1> DEFINE x == [id |-> n, node |-> row[n]]
<1>1. n \in Present(row) /\ Tree(row)
  BY DEF Load, Rows, Present, Safe
<1>2. ChainIn(row, <<x>>) /\ Last(<<x>>) = x
  BY <1>1, ChainStarts
<1>3. /\ read'.pc = "walk" /\ read'.caller = c /\ read'.open = open /\ read'.chain = <<x>>
      /\ read'.seen = {Rules(row, acl, c, open, n)} /\ x.id = n
  BY DEF Load, Snapshot
<1> HIDE DEF x
<1>4. Follows(row, row, acl, read')
  BY <1>1, <1>2, <1>3 DEF Follows
<1> QED BY <1>3, <1>4 DEF Truthful

\* A turn of the loop leaves the node in its place.
LEMMA WalkKeepsNode ==
    ASSUME Safe(row, acl), Loaded(read), Walk
    PROVE  Last(read'.chain) = Last(read.chain)
<1> DEFINE chain == read.chain
           p == Head(chain).node.parent
           x == Snapshot(p)
           L == Len(chain)
<1>1. read \in Reading /\ chain \in Seq(Snapshots) /\ chain # <<>> /\ L \in Nat \ {0}
  BY ReadingType DEF Walk, Loaded, Reading
<1>2. CASE read' = [read EXCEPT !.pc = "acl"]
  BY <1>1, <1>2 DEF Reading
<1>3. CASE p \in Rows /\ read' = [read EXCEPT !.chain = <<x>> \o @]
  <2>1. x \in Snapshots
    BY <1>3 DEF Safe, Tree, Table, Rows, Snapshot, Snapshots
  <2>2. read'.chain = <<x>> \o chain
    BY <1>1, <1>3 DEF Reading
  <2> HIDE DEF x, p
  <2>3. Len(<<x>> \o chain) = L + 1 /\ (<<x>> \o chain)[L + 1] = chain[L]
    BY <1>1, <2>1
  <2> QED BY <1>1, <2>2, <2>3 DEF Last
<1> QED BY <1>2, <1>3 DEF Walk

\* A turn of the loop in Chain, in the tree it follows: the next row above, or the end, and
\* only at the top.
LEMMA WalkFollows ==
    ASSUME NEW rows, Follows(rows, row, acl, read), read \in Reading, Walk
    PROVE  Follows(rows, row, acl, read') /\ Last(read'.chain) = Last(read.chain)
<1> DEFINE chain == read.chain
           p == Head(chain).node.parent
           longer == <<Snapshot(p)>> \o chain
<1>1. /\ Tree(rows) /\ Shallow(rows) /\ ChainIn(rows, chain)
      /\ \A m \in Above(rows, chain) : row[m] = rows[m]
      /\ Rules(rows, acl, read.caller, read.open, Last(chain).id) \in read.seen
  BY DEF Follows
<1>2. /\ Above(rows, chain) = {} <=> p = Root
      /\ p # Root => p \in Present(rows) /\ p \in Above(rows, chain)
  BY <1>1, AboveTop
<1>3. Root \notin Rows
  BY AccessConstants DEF Rows
<1>4. p # Root => p \in Rows /\ row[p] = rows[p]
  BY <1>1, <1>2 DEF Present, Rows
<1>5. CASE p \in Rows /\ Len(chain) <= MaxDepth
  <2>1. read' = [read EXCEPT !.chain = longer]
    BY <1>5 DEF Walk
  <2>2. /\ read'.chain = longer /\ read'.caller = read.caller /\ read'.open = read.open
        /\ read'.seen = read.seen /\ read'.pc = "walk"
    BY <2>1 DEF Reading, Walk
  <2>3. p # Root /\ p \in Present(rows) /\ Snapshot(p) = [id |-> p, node |-> rows[p]]
    BY <1>2, <1>3, <1>4, <1>5 DEF Snapshot
  <2>4. ChainIn(rows, longer) /\ Last(longer) = Last(chain) /\ Above(rows, longer) \subseteq Above(rows, chain)
    BY <1>1, <2>3, ChainGrows
  <2> HIDE DEF longer, p
  <2> QED BY <1>1, <2>2, <2>4 DEF Follows
<1>6. CASE ~(p \in Rows /\ Len(chain) <= MaxDepth)
  <2>1. read' = [read EXCEPT !.pc = "acl"]
    BY <1>6 DEF Walk
  <2>2. /\ read'.chain = chain /\ read'.caller = read.caller /\ read'.open = read.open
        /\ read'.seen = read.seen /\ read'.pc = "acl"
    BY <2>1 DEF Reading
  <2>3. Above(rows, chain) = {}
    <3> SUFFICES ASSUME Above(rows, chain) # {}, Len(chain) > MaxDepth PROVE FALSE
      <4>1. chain \in Seq(Snapshots) /\ Len(chain) \in Nat
        BY DEF Reading
      <4> QED BY <1>2, <1>4, <1>6, <4>1, AccessConstants
    <3>1. Cardinality(Line(rows, Last(chain).id)) >= Len(chain) + 1
      BY <1>1, ChainIsLine
    <3>2. Last(chain).id \in Present(rows)
      <4>1. chain \in Seq(Snapshots) /\ chain # <<>>
        BY <1>1 DEF ChainIn
      <4>2. Len(chain) \in 1..Len(chain) /\ Last(chain) = chain[Len(chain)]
        BY <4>1, ChainPlaces
      <4>3. Last(chain).id \in Nodes /\ Last(chain).node \in Node
        BY <4>1, <4>2, ChainPlaces
      <4>4. Last(chain).node = rows[Last(chain).id]
        BY <1>1, <4>2 DEF ChainIn
      <4> QED BY <4>3, <4>4, NodeIsNode DEF Present
    <3>3. Cardinality(Line(rows, Last(chain).id)) <= MaxDepth + 1
      BY <1>1, <3>2 DEF Shallow
    <3>4. Len(chain) \in Nat
      BY DEF Reading
    <3>5. Cardinality(Line(rows, Last(chain).id)) \in Nat
      <4>1. Line(rows, Last(chain).id) \subseteq Nodes
        BY <1>1, <3>2, LineLeast DEF Tree, Present
      <4> QED BY <4>1, AccessConstants, FS_Subset, FS_CardinalityType
    <3> QED BY <3>1, <3>3, <3>4, <3>5, AccessConstants
  <2> QED BY <1>1, <2>2, <2>3 DEF Follows
<1> QED BY <1>5, <1>6

\* ListAclForNodes and the evaluation.
LEMMA ReadAclTruthful ==
    ASSUME Truthful(row, acl, read), ReadAcl
    PROVE  Truthful(row, acl, read')
<1>1. /\ read'.pc = "done" /\ read'.node = Last(read.chain).id /\ read'.seen = read.seen
      /\ read'.answer = EvaluateNodeAccess(read.caller, read.open, read.chain, acl)
      /\ read.pc = "acl"
  BY DEF ReadAcl
<1>2. ASSUME Last(read.chain).id \in Present(row)
      PROVE  read'.answer \in read'.seen
  <2>1. PICK rows : Follows(rows, row, acl, read)
    BY <1>1, <1>2 DEF Truthful
  <2>2. Tree(rows) /\ ChainIn(rows, read.chain) /\ Above(rows, read.chain) = {}
    BY <1>1, <2>1 DEF Follows
  <2>3. read'.answer = Rules(rows, acl, read.caller, read.open, Last(read.chain).id)
    BY <1>1, <2>2, EvaluatesToRules
  <2> QED BY <1>1, <2>1, <2>3 DEF Follows
<1> QED BY <1>1, <1>2 DEF Truthful

\* A change: a row of the chain that changes leaves the tree before it, any other the tree
\* after it.
LEMMA ChangeTruthful ==
    ASSUME Safe(row, acl), Safe(row', acl'), Shallow(row), Shallow(row'), Loaded(read),
           Truthful(row, acl, read), Touches(row, acl, row', acl'), Observed,
           read.pc # "done", read.pc # "idle" => ~read.changed
    PROVE  Truthful(row', acl', read')
<1>1. TypeOK /\ Tree(row) /\ Tree(row')
  BY SafeIsTyped DEF Loaded, Safe
<1>2. CASE read.pc = "idle"
  <2>1. read' = read
    BY <1>1, <1>2, Noted
  <2> QED BY <1>2, <2>1 DEF Truthful
<1>3. CASE read.pc \in {"walk", "acl"}
  <2> DEFINE chain == read.chain
             n == Last(chain).id
  <2>1. /\ read'.pc = read.pc /\ read'.changed = TRUE
        /\ read'.caller = read.caller /\ read'.open = read.open /\ read'.chain = chain
        /\ read'.seen = read.seen \cup {Rules(row', acl', read.caller, read.open, n)}
    BY <1>1, <1>3, Noted
  <2>2. Follows(row, row, acl, read)
    BY <1>3 DEF Truthful
  <2>3. ChainIn(row, chain) /\ (read.pc = "acl" => Above(row, chain) = {})
    BY <2>2 DEF Follows
  <2>4. ASSUME \A m \in Ids(chain) : row'[m] = row[m]
        PROVE  Follows(row', row', acl', read')
    <3>1. ChainIn(row', chain) /\ (Above(row, chain) = {} => Above(row', chain) = {})
      BY <1>1, <2>3, <2>4, ChainKept
    <3> QED BY <1>1, <2>1, <2>3, <3>1 DEF Follows
  <2>5. ASSUME n \in Present(row')
        PROVE  \E rows : Follows(rows, row', acl', read')
    <3>1. CASE row' = row
      BY <2>4, <3>1
    <3>2. ASSUME acl' = acl, NEW x \in Nodes, \A m \in Nodes \ {x} : row'[m] = row[m]
          PROVE  \E rows : Follows(rows, row', acl', read')
      <4>1. Ids(chain) \cap Above(row, chain) = {} /\ Line(row, n) = Ids(chain) \cup Above(row, chain)
        BY <1>1, <2>3, ChainIsLine
      <4>2. Ids(chain) \cup Above(row, chain) \subseteq Nodes
        <5>1. chain \in Seq(Snapshots) /\ chain # <<>>
          BY <2>3 DEF ChainIn
        <5>2. n \in Nodes /\ row \in Table
          <6>1. Len(chain) \in 1..Len(chain) /\ Last(chain) = chain[Len(chain)]
            BY <5>1, ChainPlaces
          <6> QED BY <1>1, <5>1, <6>1, ChainPlaces DEF Tree
        <5> QED BY <4>1, <5>2, LineLeast
      <4>3. CASE x \notin Ids(chain)
        <5>1. \A m \in Ids(chain) : row'[m] = row[m]
          BY <3>2, <4>2, <4>3
        <5> QED BY <2>4, <5>1
      <4>4. CASE x \in Ids(chain)
        <5>1. \A m \in Above(row, chain) : row'[m] = row[m]
          BY <3>2, <4>1, <4>2, <4>4
        <5>2. Follows(row, row', acl', read')
          BY <2>1, <2>2, <3>2, <5>1 DEF Follows
        <5> QED BY <5>2
      <4> QED BY <4>3, <4>4
    <3>3. CASE \A m \in Present(row') : m \in Present(row) /\ \A x \in Line(row, m) : row'[x] = row[x]
      <4>1. Ids(chain) \subseteq Line(row, n)
        BY <1>1, <2>3, ChainIsLine
      <4>2. \A m \in Ids(chain) : row'[m] = row[m]
        BY <2>5, <3>3, <4>1
      <4> QED BY <2>4, <4>2
    <3> QED BY <3>1, <3>2, <3>3 DEF Touches
  <2> QED BY <1>3, <2>1, <2>5 DEF Truthful
<1>4. read.pc \in {"idle", "walk", "acl"}
  BY ReadingType DEF Loaded
<1> QED BY <1>2, <1>3, <1>4

\* Every line is short enough to be read whole, and the read in flight is truthful.
ReaderInv == AccessInv /\ Shallow(row) /\ Truthful(row, acl, read)

LEMMA ReaderInitially == Init => ReaderInv
<1> SUFFICES ASSUME Init PROVE ReaderInv
  OBVIOUS
<1>1. AccessInv
  BY AccessInitially
<1>2. Present(row) = {}
  BY DEF Init, Present
<1>3. read.pc = "idle"
  BY DEF Init, IdleRead
<1> QED BY <1>1, <1>2, <1>3 DEF ReaderInv, Shallow, Truthful

LEMMA ReaderKept ==
    ASSUME WholePages, WholeChains
    PROVE  ReaderInv /\ [Next]_vars => ReaderInv'
<1> SUFFICES ASSUME ReaderInv, [Next]_vars PROVE AccessInv' /\ Shallow(row') /\ Truthful(row', acl', read')
  BY DEF ReaderInv
<1>1. AccessInv' /\ Safe(row, acl) /\ Loaded(read) /\ Shallow(row) /\ Truthful(row, acl, read)
  BY AccessKept DEF ReaderInv, AccessInv
<1>2. ASSUME NEW c \in Writers, Change(c) PROVE Shallow(row') /\ Truthful(row', acl', read')
  <2>1. Shallow(row')
    BY <1>1, <1>2, ChangeShallow
  <2>2. /\ Safe(row', acl') /\ Touches(row, acl, row', acl')
        /\ Observed /\ read.pc # "done" /\ (read.pc # "idle" => ~read.changed)
    BY <1>1, <1>2, ChangeKeeps
  <2> QED BY <1>1, <2>1, <2>2, ChangeTruthful
<1>3. ASSUME NEW c \in Readers, NEW n \in Nodes, NEW open \in Nodes \cup {Root}, Load(c, n, open)
      PROVE  Shallow(row') /\ Truthful(row', acl', read')
  <2>1. row' = row /\ acl' = acl
    BY <1>3 DEF Load
  <2> QED BY <1>1, <1>3, <2>1, LoadFollows
<1>4. CASE Walk
  <2>1. read \in Reading /\ row' = row /\ acl' = acl
    BY <1>1, <1>4, ReadingType DEF Walk, Loaded
  <2>2. read'.pc \in {"walk", "acl"} /\ read'.changed = read.changed /\ read.pc = "walk"
    BY <1>4, <2>1 DEF Walk, Reading
  <2>3. \A rows : Follows(rows, row, acl, read) => Follows(rows, row, acl, read') /\ Last(read'.chain) = Last(read.chain)
    BY <1>4, <2>1, WalkFollows
  <2>4. Last(read'.chain).id \in Present(row) => \E rows : Follows(rows, row, acl, read')
    <3>1. CASE \E rows : Follows(rows, row, acl, read)
      BY <2>3, <3>1
    <3>2. CASE ~\E rows : Follows(rows, row, acl, read)
      <4>1. Last(read.chain).id \notin Present(row)
        BY <1>1, <2>2, <3>2 DEF Truthful
      <4> QED BY <1>1, <1>4, <2>1, <4>1, WalkKeepsNode
    <3> QED BY <3>1, <3>2
  <2> QED BY <1>1, <2>1, <2>2, <2>3, <2>4 DEF Truthful
<1>5. CASE ReadAcl
  <2>1. row' = row /\ acl' = acl
    BY <1>5 DEF ReadAcl
  <2> QED BY <1>1, <1>5, <2>1, ReadAclTruthful
<1>6. CASE Answered
  <2>1. row' = row /\ acl' = acl /\ read'.pc = "idle"
    BY <1>6 DEF Answered, IdleRead
  <2> QED BY <1>1, <2>1 DEF Truthful
<1>7. CASE UNCHANGED vars
  BY <1>1, <1>7 DEF vars
<1> QED BY <1>1, <1>2, <1>3, <1>4, <1>5, <1>6, <1>7 DEF Next

\* The answer of a read in which at most one change lands is what the rules gave at one
\* moment of the call, although Chain reads the rows one query at a time (RequireAccess,
\* GetNode), as long as every purged subtree fits a page.
THEOREM AnswersHold ==
    ASSUME WholePages, WholeChains
    PROVE  Spec => []AnswersAreTrue
<1>1. ReaderInv => AnswersAreTrue
  BY DEF ReaderInv, Truthful, AnswersAreTrue, Rows, Present
<1> QED BY <1>1, ReaderInitially, ReaderKept, PTL DEF Spec
-----------------------------------------------------------------------------
(* ListingsAgree: the chain of the listed folder and the child are a chain.  *)

\* What ChainOf has collected after each turn of the loop.
Turns(n, N, u) ==
    u = [i \in 1..N |->
            IF i = 1 THEN <<Snapshot(n)>>
            ELSE LET parent == Head(u[i - 1]).node.parent
                 IN  IF parent \in Rows THEN <<Snapshot(parent)>> \o u[i - 1] ELSE u[i - 1]]

LEMMA TurnsExist ==
    ASSUME NEW n, NEW N \in Nat
    PROVE  \E u : Turns(n, N + 1, u)
<1> DEFINE S == { i \in Nat : \E u : Turns(n, i + 1, u) }
           step(x) == IF Head(x).node.parent \in Rows THEN <<Snapshot(Head(x).node.parent)>> \o x ELSE x
<1>1. 0 \in S
  <2> DEFINE u == [i \in 1..1 |-> <<Snapshot(n)>>]
  <2>1. u = [i \in 1..1 |-> IF i = 1 THEN <<Snapshot(n)>> ELSE step(u[i - 1])]
    <3>1. \A i \in 1..1 : i = 1
      OBVIOUS
    <3> HIDE DEF step
    <3> QED BY <3>1, Zenon
  <2> HIDE DEF u
  <2>2. Turns(n, 1, u)
    BY <2>1 DEF Turns
  <2> QED BY <2>2
<1>2. ASSUME NEW i \in 0..(N - 1), i \in S
      PROVE  i + 1 \in S
  <2>1. PICK u : Turns(n, i + 1, u)
    BY <1>2
  <2> DEFINE v == [j \in 1..((i + 1) + 1) |-> IF j = (i + 1) + 1 THEN step(u[i + 1]) ELSE u[j]]
  <2>2. u[1] = <<Snapshot(n)>> /\ \A j \in 2..(i + 1) : u[j] = step(u[j - 1])
    <3>1. u = [j \in 1..(i + 1) |-> IF j = 1 THEN <<Snapshot(n)>> ELSE step(u[j - 1])]
      BY <2>1, Zenon DEF Turns
    <3> HIDE DEF step
    <3> QED BY <3>1
  <2>3. ASSUME NEW j \in 1..((i + 1) + 1)
        PROVE  v[j] = IF j = 1 THEN <<Snapshot(n)>> ELSE step(v[j - 1])
    <3> HIDE DEF step
    <3>1. CASE j = 1
      BY <2>2, <3>1
    <3>2. CASE j = (i + 1) + 1
      BY <3>2
    <3>3. CASE j \in 2..(i + 1)
      BY <2>2, <3>3
    <3> QED BY <3>1, <3>2, <3>3
  <2>4. v = [j \in 1..((i + 1) + 1) |-> v[j]]
    OBVIOUS
  <2> HIDE DEF v
  <2>5. v = [j \in 1..((i + 1) + 1) |-> IF j = 1 THEN <<Snapshot(n)>> ELSE step(v[j - 1])]
    BY <2>3, <2>4, Zenon
  <2>6. Turns(n, (i + 1) + 1, v)
    BY <2>5 DEF Turns
  <2> QED BY <2>6
<1> HIDE DEF S
<1>3. 0..N \subseteq S
  BY <1>1, <1>2, CountingUp
<1> QED BY <1>3 DEF S

\* ChainOf is what the last turn leaves.
LEMMA ChainOfIsLast ==
    ASSUME NEW n
    PROVE  \E u : Turns(n, MaxDepth + 1, u) /\ ChainOf(n) = u[MaxDepth + 1]
<1> DEFINE u == CHOOSE u : u = [i \in 1..MaxDepth + 1 |->
                    IF i = 1 THEN <<Snapshot(n)>>
                    ELSE LET parent == Head(u[i - 1]).node.parent
                         IN  IF parent \in Rows THEN <<Snapshot(parent)>> \o u[i - 1] ELSE u[i - 1]]
<1>1. ChainOf(n) = u[MaxDepth + 1]
  BY DEF ChainOf
<1>2. Turns(n, MaxDepth + 1, u)
  <2>1. \E v : Turns(n, MaxDepth + 1, v)
    BY TurnsExist, AccessConstants
  <2> QED BY <2>1 DEF Turns
<1> HIDE DEF u
<1> QED BY <1>1, <1>2

\* No line is longer than the loop turns, so Chain reaches the top.
LEMMA ChainOfIsWhole ==
    ASSUME Tree(row), Shallow(row), NEW n \in Present(row)
    PROVE  ChainIn(row, ChainOf(n)) /\ Last(ChainOf(n)) = Snapshot(n) /\ Above(row, ChainOf(n)) = {}
<1> DEFINE N == MaxDepth + 1
           step(x) == IF Head(x).node.parent \in Rows THEN <<Snapshot(Head(x).node.parent)>> \o x ELSE x
<1>0. MaxDepth \in Nat /\ n \in Nodes /\ row \in Table
  BY AccessConstants DEF Present, Tree
<1>1. PICK u : Turns(n, N, u) /\ ChainOf(n) = u[N]
  BY ChainOfIsLast
<1>2. u[1] = <<Snapshot(n)>> /\ \A i \in 0..(MaxDepth - 1) : u[(i + 1) + 1] = step(u[i + 1])
  <2>1. u[1] = <<Snapshot(n)>> /\ \A i \in 2..N : u[i] = step(u[i - 1])
    <3>1. u = [i \in 1..N |-> IF i = 1 THEN <<Snapshot(n)>> ELSE step(u[i - 1])]
      BY <1>1, Zenon DEF Turns
    <3> HIDE DEF step
    <3> QED BY <1>0, <3>1
  <2>2. ASSUME NEW i \in 0..(MaxDepth - 1)
        PROVE  u[(i + 1) + 1] = step(u[i + 1])
    <3>1. (i + 1) + 1 \in 2..N /\ ((i + 1) + 1) - 1 = i + 1
      BY <1>0
    <3> DEFINE k == (i + 1) + 1
    <3>2. u[k] = step(u[k - 1])
      <4> HIDE DEF step, k
      <4> QED BY <2>1, <3>1 DEF k
    <3> HIDE DEF step
    <3> QED BY <3>1, <3>2
  <2> QED BY <2>1, <2>2
<1> DEFINE good(i) == /\ ChainIn(row, u[i]) /\ Last(u[i]) = Snapshot(n)
                      /\ Above(row, u[i]) = {} \/ Len(u[i]) = i
           S == { i \in 0..MaxDepth : good(i + 1) }
<1>3. 0 \in S
  <2>1. ChainIn(row, <<Snapshot(n)>>) /\ Len(<<Snapshot(n)>>) = 1 /\ Last(<<Snapshot(n)>>) = Snapshot(n)
    BY ChainStarts DEF Snapshot
  <2> QED BY <1>0, <1>2, <2>1
<1>4. ASSUME NEW i \in 0..(MaxDepth - 1), i \in S
      PROVE  i + 1 \in S
  <2> DEFINE x == u[i + 1]
             p == Head(x).node.parent
  <2>1. good(i + 1) /\ u[(i + 1) + 1] = step(x)
    BY <1>2, <1>4
  <2>2. ChainIn(row, x) /\ Last(x) = Snapshot(n) /\ (Above(row, x) = {} \/ Len(x) = i + 1)
    BY <2>1
  <2>3. /\ Above(row, x) = {} <=> p = Root
        /\ p # Root <=> p \in Rows
    <3>1. /\ Above(row, x) = {} <=> p = Root
          /\ p # Root => p \in Present(row)
      BY <2>2, AboveTop
    <3>2. Root \notin Rows /\ Rows = Present(row)
      BY AccessConstants DEF Rows, Present
    <3> QED BY <3>1, <3>2
  <2>4. CASE p = Root
    <3>1. u[(i + 1) + 1] = x
      BY <2>1, <2>3, <2>4
    <3> QED BY <1>0, <2>2, <2>3, <2>4, <3>1
  <2>5. CASE p # Root
    <3>0. p \in Present(row)
      BY <2>3, <2>5 DEF Rows, Present
    <3>1. u[(i + 1) + 1] = <<Snapshot(p)>> \o x
      BY <2>1, <2>3, <2>5
    <3>2. Snapshot(p) = [id |-> p, node |-> row[p]]
      BY DEF Snapshot
    <3>3. ChainIn(row, <<Snapshot(p)>> \o x) /\ Len(<<Snapshot(p)>> \o x) = Len(x) + 1 /\ Last(<<Snapshot(p)>> \o x) = Last(x)
      BY <2>2, <2>3, <2>5, <3>0, <3>2, ChainGrows
    <3>4. Len(x) + 1 = (i + 1) + 1
      BY <2>2, <2>3, <2>5
    <3>5. good((i + 1) + 1)
      BY <2>2, <3>1, <3>3, <3>4
    <3> QED BY <1>0, <3>5
  <2> QED BY <2>4, <2>5
<1>5. good(N)
  <2> HIDE DEF S, good
  <2>1. 0..MaxDepth \subseteq S
    BY <1>0, <1>3, <1>4, CountingUp
  <2>2. MaxDepth \in 0..MaxDepth
    BY <1>0
  <2> QED BY <2>1, <2>2 DEF S
<1>6. ASSUME Above(row, u[N]) # {} PROVE FALSE
  <2>1. ChainIn(row, u[N]) /\ Last(u[N]).id = n /\ Len(u[N]) = N
    BY <1>5, <1>6 DEF Snapshot
  <2>2. Cardinality(Line(row, n)) >= N + 1
    BY <1>6, <2>1, ChainIsLine
  <2>3. Cardinality(Line(row, n)) <= N
    BY DEF Shallow
  <2>4. Cardinality(Line(row, n)) \in Nat
    <3>1. Line(row, n) \subseteq Nodes
      BY <1>0, LineLeast
    <3> QED BY <3>1, AccessConstants, FS_Subset, FS_CardinalityType
  <2> QED BY <1>0, <2>2, <2>3, <2>4
<1> QED BY <1>1, <1>5, <1>6

\* EvaluateNodes: a child below the chain of the folder.
LEMMA ChainExtends ==
    ASSUME NEW rows, Tree(rows), NEW chain, ChainIn(rows, chain), NEW n \in Present(rows),
           rows[n].parent = Last(chain).id
    PROVE  LET longer == Append(chain, [id |-> n, node |-> rows[n]])
           IN  /\ ChainIn(rows, longer) /\ Last(longer) = [id |-> n, node |-> rows[n]]
               /\ Above(rows, longer) = Above(rows, chain)
<1> DEFINE x == [id |-> n, node |-> rows[n]]
           L == Len(chain)
           longer == Append(chain, x)
<1>1. x \in Snapshots /\ x.id = n /\ x.node = rows[n]
  BY DEF Tree, Table, Present, Snapshots
<1>2. /\ chain \in Seq(Snapshots) /\ chain # <<>> /\ L \in Nat \ {0} /\ Head(chain) = chain[1] /\ Last(chain) = chain[L]
      /\ \A i \in 1..L : chain[i].node = rows[chain[i].id]
      /\ \A i \in 1..(L - 1) : chain[i].id = chain[i + 1].node.parent
  BY ChainPlaces DEF ChainIn
<1>3. x.node.parent = chain[L].id
  BY <1>1, <1>2
<1> HIDE DEF x
<1>4. /\ longer \in Seq(Snapshots) /\ longer # <<>> /\ Len(longer) = L + 1 /\ longer[L + 1] = x
      /\ \A i \in 1..L : longer[i] = chain[i]
  BY <1>1, <1>2
<1> HIDE DEF longer, L
<1>5. \A i \in 1..(L + 1) : longer[i].node = rows[longer[i].id]
  <2>1. \A i \in 1..(L + 1) : i \in 1..L \/ i = L + 1
    BY <1>2
  <2> QED BY <1>1, <1>2, <1>4, <2>1
<1>6. \A i \in 1..L : longer[i].id = longer[i + 1].node.parent
  <2>1. \A i \in 1..L : i = L \/ (i \in 1..(L - 1) /\ i + 1 \in 1..L)
    BY <1>2
  <2> QED BY <1>2, <1>3, <1>4, <2>1
<1>7. (L + 1) - 1 = L /\ 1 \in 1..L
  BY <1>2
<1>8. ChainIn(rows, longer)
  BY <1>4, <1>5, <1>6, <1>7 DEF ChainIn
<1>9. Last(longer) = x /\ Head(longer) = Head(chain)
  BY <1>2, <1>4, <1>7, ChainPlaces
<1> QED BY <1>8, <1>9 DEF longer, x, Above

\* Only the entries of the line matter.
LEMMA RulesSame ==
    ASSUME NEW rows, NEW entries, NEW others, NEW c, NEW open, NEW n,
           \A m \in Line(rows, n) : entries[m] = others[m]
    PROVE  Rules(rows, entries, c, open, n) = Rules(rows, others, c, open, n)
<1> DEFINE line == Standing(rows, n)
<1>1. \A effect, p : Says(entries, line, n, c, effect, p) <=> Says(others, line, n, c, effect, p)
  BY DEF Says, Standing
<1> DEFINE locked == \E m \in line \ {open} : rows[m].password
           readable == \A m \in line : rows[m].visibility >= IF c = Anonymous THEN 3 ELSE 2
           may(e, p) == /\ Says(e, line, n, c, "allow", p) \/ (readable /\ p \in ReadOnly)
                        /\ ~Says(e, line, n, c, "deny", p)
                        /\ locked => p = "view"
<1>2. \A p : may(entries, p) <=> may(others, p)
  <2> HIDE DEF locked, readable, line
  <2> QED BY <1>1
<1> HIDE DEF may
<1>3. { p \in Ceiling(c) : may(entries, p) } = { p \in Ceiling(c) : may(others, p) }
  BY <1>2
<1>4. ASSUME NEW e
      PROVE  Rules(rows, e, c, open, n) =
               IF rows[n] = NoNode THEN NoAccess
               ELSE IF c \in Admins \cup {rows[n].owner} THEN [perms |-> Ceiling(c), locked |-> FALSE]
               ELSE [perms |-> { p \in Ceiling(c) : may(e, p) }, locked |-> locked]
  BY DEF Rules, may
<1> HIDE DEF locked
<1> QED BY <1>3, <1>4

\* A folder listing shows a child with the access the rules give it, as long as no folder
\* above it has entries of its own (ListNodes, EvaluateNodes), in every state.
THEOREM ListingsAgree ==
    ASSUME WholePages, WholeChains
    PROVE  Spec => []ListingExact
<1>1. ASSUME ReaderInv PROVE ListingExact
  <2> SUFFICES ASSUME NEW n \in Present(row), \A m \in Line(row, n) \ {n} : acl[m] = {}, NEW c, NEW open
               PROVE  ListAccess(c, open, n) = Rules(row, acl, c, open, n)
    BY DEF ListingExact, Rows, Present
  <2> DEFINE p == row[n].parent
             up == IF p = Root THEN <<>> ELSE ChainOf(p)
             chain == Append(up, Snapshot(n))
             own == [m \in Nodes |-> IF m = n THEN acl[m] ELSE {}]
  <2>1. Tree(row) /\ Shallow(row) /\ n \in Nodes /\ row \in Table /\ p \in Present(row) \cup {Root}
    BY <1>1 DEF ReaderInv, AccessInv, Safe, Tree, Present
  <2>2. Snapshot(n) = [id |-> n, node |-> row[n]]
    BY DEF Snapshot
  <2>3. ChainIn(row, chain) /\ Last(chain) = Snapshot(n) /\ Above(row, chain) = {}
    <3>1. CASE p = Root
      <4>1. chain = <<Snapshot(n)>>
        BY <3>1
      <4>2. ChainIn(row, <<Snapshot(n)>>) /\ Last(<<Snapshot(n)>>) = Snapshot(n) /\ Head(<<Snapshot(n)>>) = Snapshot(n)
        BY <2>1, <2>2, ChainStarts
      <4>3. Above(row, <<Snapshot(n)>>) = {}
        BY <2>2, <3>1, <4>2 DEF Above
      <4> QED BY <4>1, <4>2, <4>3
    <3>2. CASE p # Root
      <4>1. ChainIn(row, ChainOf(p)) /\ Last(ChainOf(p)).id = p /\ Above(row, ChainOf(p)) = {}
        BY <2>1, <3>2, ChainOfIsWhole DEF Snapshot
      <4>2. chain = Append(ChainOf(p), [id |-> n, node |-> row[n]])
        BY <2>2, <3>2
      <4> QED BY <2>1, <2>2, <4>1, <4>2, ChainExtends
    <3> QED BY <3>1, <3>2
  <2>4. ListAccess(c, open, n) = EvaluateNodeAccess(c, open, chain, own)
    BY DEF ListAccess
  <2> HIDE DEF chain, own, p
  <2>5. ListAccess(c, open, n) = Rules(row, own, c, open, n)
    BY <2>1, <2>2, <2>3, <2>4, EvaluatesToRules
  <2>6. \A m \in Line(row, n) : own[m] = acl[m]
    <3>1. Line(row, n) \subseteq Nodes
      BY <2>1, LineLeast
    <3> QED BY <3>1 DEF own
  <2> QED BY <2>5, <2>6, RulesSame
<1> QED BY <1>1, ReaderInitially, ReaderKept, PTL DEF Spec
================================================================================
