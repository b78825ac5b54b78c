---------------------------- MODULE NodeTreeProofs ----------------------------
(***************************************************************************)
(* Proofs about NodeTree for any number of ids, any names and any depth    *)
(* limit: the paths and the parent links describe one tree, nothing live   *)
(* is below the trash, the table implements Forest, live siblings have     *)
(* different names, and the trash list covers the trash, each while the    *)
(* conditions hold that its property names.                                *)
(***************************************************************************)
EXTENDS NodeTree, MaxTheorems, FiniteSetTheorems, SequenceTheorems, TLAPS

-----------------------------------------------------------------------------
(* The inductive invariant.                                                *)

Kept(rows) == { i \in Ids : rows[i].status # "none" }

TypedRows(rows) == rows \in [Ids -> Node \cup {NoNode}]

\* The path of j ends in j, and what comes before j in it is there, a folder, and has the
\* same path so far.
Lineage(rows, j) ==
    LET t == rows[j].path IN
    /\ Len(t) >= 1 /\ t[Len(t)] = j
    /\ rows[j].depth = Len(t) - 1
    /\ rows[j].parent = IF Len(t) = 1 THEN Root ELSE t[Len(t) - 1]
    /\ \A n \in 1..Len(t) :
          /\ t[n] \in Kept(rows)
          /\ n < Len(t) => rows[t[n]].kind = "folder"
          /\ Len(rows[t[n]].path) = n
          /\ \A m \in 1..n : rows[t[n]].path[m] = t[m]

Tidy(rows) == TypedRows(rows) /\ \A j \in Kept(rows) : Lineage(rows, j)

\* Everything above an active node is active.
Live(rows) ==
    \A j \in Kept(rows) : rows[j].status = "active" =>
        \A n \in 1..Len(rows[j].path) : rows[rows[j].path[n]].status = "active"

IInv == Tidy(row) /\ Live(row) /\ call \in CallState

\* It holds as long as a page takes every subtree and the targets of copies are fresh.
SoundTree == WholePages /\ FreshTargets => IInv

-----------------------------------------------------------------------------
(* Rows, paths and places.                                                 *)

\* A row is a node exactly if it is there, and its path is a sequence of ids.
LEMMA RowType ==
    ASSUME NEW rows, TypedRows(rows), NEW j \in Ids
    PROVE  /\ j \in Kept(rows) <=> rows[j] \in Node
           /\ j \in Kept(rows) => /\ rows[j].path \in Seq(Ids) /\ Len(rows[j].path) \in Nat
                                  /\ rows[j].status \in {"active", "trashed"}
           /\ j \notin Kept(rows) => rows[j] = NoNode
<1>1. rows[j] \in Node \cup {NoNode}
  BY DEF TypedRows
<1>2. rows[j] \in Node => rows[j].status \in {"active", "trashed"} /\ rows[j].path \in Seq(Ids)
  BY DEF Node
<1>3. NoNode.status = "none"
  BY DEF NoNode
<1>4. j \in Kept(rows) <=> rows[j] \in Node
  BY <1>1, <1>2, <1>3 DEF Kept
<1> QED BY <1>1, <1>2, <1>4, LenProperties

\* Rows that differ in nothing but name, status and trash marks are as tidy.
LEMMA SameShape ==
    ASSUME NEW old, NEW new, Tidy(old), TypedRows(new), Kept(new) = Kept(old),
           \A j \in Kept(old) : /\ new[j].path = old[j].path /\ new[j].depth = old[j].depth
                                /\ new[j].parent = old[j].parent /\ new[j].kind = old[j].kind
    PROVE  Tidy(new)
<1> SUFFICES ASSUME NEW j \in Kept(new) PROVE Lineage(new, j)
  BY DEF Tidy
<1> DEFINE t == old[j].path
<1>1. Lineage(old, j)
  BY DEF Tidy
<1>2. /\ new[j].path = t /\ new[j].depth = old[j].depth /\ new[j].parent = old[j].parent
      /\ Len(t) >= 1 /\ t[Len(t)] = j /\ old[j].depth = Len(t) - 1
      /\ old[j].parent = IF Len(t) = 1 THEN Root ELSE t[Len(t) - 1]
  BY <1>1 DEF Lineage
<1>3. ASSUME NEW n \in 1..Len(t)
      PROVE  /\ t[n] \in Kept(new)
             /\ n < Len(t) => new[t[n]].kind = "folder"
             /\ Len(new[t[n]].path) = n
             /\ \A m \in 1..n : new[t[n]].path[m] = t[m]
  <2>1. /\ t[n] \in Kept(old)
        /\ n < Len(t) => old[t[n]].kind = "folder"
        /\ Len(old[t[n]].path) = n
        /\ \A m \in 1..n : old[t[n]].path[m] = t[m]
    BY <1>1 DEF Lineage
  <2> HIDE DEF t
  <2>2. new[t[n]].path = old[t[n]].path /\ new[t[n]].kind = old[t[n]].kind
    BY <2>1
  <2> QED BY <2>1, <2>2
<1> HIDE DEF t
<1> QED BY <1>2, <1>3 DEF Lineage

\* A row that stays, as everything in its path does, keeps its lineage.
LEMMA SameRows ==
    ASSUME NEW old, NEW new, NEW j, Lineage(old, j), new[j] = old[j],
           \A n \in 1..Len(old[j].path) : /\ old[j].path[n] \in Kept(new)
                                          /\ new[old[j].path[n]] = old[old[j].path[n]]
    PROVE  Lineage(new, j)
<1> DEFINE t == old[j].path
<1>1. /\ new[j] = old[j] /\ Len(t) >= 1 /\ t[Len(t)] = j /\ old[j].depth = Len(t) - 1
      /\ old[j].parent = IF Len(t) = 1 THEN Root ELSE t[Len(t) - 1]
  BY DEF Lineage
<1>2. ASSUME NEW n \in 1..Len(t)
      PROVE  /\ t[n] \in Kept(new)
             /\ n < Len(t) => new[t[n]].kind = "folder"
             /\ Len(new[t[n]].path) = n
             /\ \A m \in 1..n : new[t[n]].path[m] = t[m]
  <2>1. /\ n < Len(t) => old[t[n]].kind = "folder"
        /\ Len(old[t[n]].path) = n
        /\ \A m \in 1..n : old[t[n]].path[m] = t[m]
    BY DEF Lineage
  <2>2. t[n] \in Kept(new) /\ new[t[n]] = old[t[n]]
    OBVIOUS
  <2> HIDE DEF t
  <2> QED BY <2>1, <2>2
<1>3. new[j].path = t
  BY <1>1
<1> HIDE DEF t
<1> QED BY <1>1, <1>2, <1>3 DEF Lineage

\* An element of the path of j is the end of its own path.
LEMMA Above ==
    ASSUME NEW rows, Tidy(rows), NEW j \in Kept(rows), NEW n \in 1..Len(rows[j].path)
    PROVE  LET a == rows[j].path[n] IN
           /\ a \in Kept(rows) /\ a \in Ids
           /\ Len(rows[a].path) = n /\ rows[a].path[n] = a
           /\ \A m \in 1..n : rows[a].path[m] = rows[j].path[m]
           /\ n < Len(rows[j].path) => rows[a].kind = "folder"
           /\ n = Len(rows[j].path) => a = j
<1>1. Lineage(rows, j) /\ rows[j].path[n] \in Kept(rows)
  BY DEF Tidy, Lineage
<1>2. rows[j].path[n] \in Ids
  BY <1>1 DEF Kept
<1>3. Lineage(rows, rows[j].path[n])
  BY <1>1 DEF Tidy
<1> QED BY <1>1, <1>2, <1>3 DEF Lineage

\* A sequence that agrees with the beginning of another is a prefix of it.
LEMMA PrefixFromElements ==
    ASSUME NEW s \in Seq(Ids), NEW t \in Seq(Ids), Len(s) <= Len(t),
           \A m \in 1..Len(s) : s[m] = t[m]
    PROVE  IsPrefix(s, t)
<1>1. Len(s) \in Nat /\ Len(t) \in Nat
  BY LenProperties
<1>2. (\A m \in 1..Len(s) : s[m] \in Ids) /\ (\A m \in 1..Len(s) : t[m] \in Ids)
  BY <1>1, ElementOfSeq
<1>3. /\ \A m \in 1..Len(s) : SubSeq(s, 1, Len(s))[m] = s[m] /\ SubSeq(t, 1, Len(s))[m] = t[m]
      /\ SubSeq(s, 1, Len(s)) \in Seq(Ids) /\ SubSeq(t, 1, Len(s)) \in Seq(Ids)
      /\ Len(SubSeq(s, 1, Len(s))) = Len(s) /\ Len(SubSeq(t, 1, Len(s))) = Len(s)
  BY <1>1, <1>2, SubSeqProperties
<1>4. SubSeq(s, 1, Len(s)) = SubSeq(t, 1, Len(s))
  BY <1>1, <1>3, SeqEqual
<1> QED BY <1>4 DEF IsPrefix

\* A subtree, as every statement selects it by path prefix, is what has the node in its path.
LEMMA SubtreeIs ==
    ASSUME Tidy(row), NEW i \in Rows, NEW j \in Rows
    PROVE  j \in Subtree(i) <=> /\ Len(row[i].path) <= Len(row[j].path)
                                /\ row[j].path[Len(row[i].path)] = i
<1> DEFINE s == row[i].path
           t == row[j].path
<1>1. i \in Kept(row) /\ j \in Kept(row) /\ i \in Ids /\ j \in Ids /\ TypedRows(row)
  BY DEF Rows, Kept, Tidy
<1>2. s \in Seq(Ids) /\ t \in Seq(Ids) /\ Len(s) \in Nat /\ Len(t) \in Nat
  BY <1>1, RowType
<1>3. Lineage(row, i) /\ Len(s) >= 1 /\ s[Len(s)] = i
  BY <1>1 DEF Tidy, Lineage
<1>4. j \in Subtree(i) <=> IsPrefix(s, t)
  BY DEF Subtree, Under
<1>5. ASSUME IsPrefix(s, t) PROVE Len(s) <= Len(t) /\ t[Len(s)] = i
  <2>1. Len(s) <= Len(t) /\ SubSeq(s, 1, Len(s)) = SubSeq(t, 1, Len(s))
    BY <1>5 DEF IsPrefix
  <2>2. (\A m \in 1..Len(s) : s[m] \in Ids) /\ (\A m \in 1..Len(s) : t[m] \in Ids)
    BY <1>2, <2>1, ElementOfSeq
  <2> HIDE DEF s, t
  <2>3. \A m \in 1..Len(s) : SubSeq(s, 1, Len(s))[m] = s[m] /\ SubSeq(t, 1, Len(s))[m] = t[m]
    BY <1>2, <2>2, SubSeqProperties
  <2> QED BY <1>2, <1>3, <2>1, <2>3
<1>6. ASSUME Len(s) <= Len(t), t[Len(s)] = i PROVE IsPrefix(s, t)
  <2>1. Len(s) \in 1..Len(t)
    BY <1>2, <1>3, <1>6
  <2>2. \A m \in 1..Len(s) : s[m] = t[m]
    BY <1>1, <1>6, <2>1, Above
  <2> QED BY <1>2, <1>6, <2>2, PrefixFromElements
<1> QED BY <1>4, <1>5, <1>6

\* What is known of a destination: its path leads to it through folders.
GoodPlace(rows, place) ==
    LET s == place.path IN
    /\ s \in Seq(Ids) /\ place.depth = Len(s) - 1
    /\ place.id = IF Len(s) = 0 THEN Root ELSE s[Len(s)]
    /\ \A n \in 1..Len(s) :
          /\ s[n] \in Kept(rows) /\ rows[s[n]].kind = "folder"
          /\ Len(rows[s[n]].path) = n
          /\ \A m \in 1..n : rows[s[n]].path[m] = s[m]

\* The place of the root or of a folder there is (parentLocation) is one things may be put into.
LEMMA PlaceIsGood ==
    ASSUME Tidy(row), NEW p \in Ids \cup {Root}, p # Root => p \in Rows /\ row[p].kind = "folder"
    PROVE  GoodPlace(row, PlaceOf(p)) /\ PlaceOf(p) \in Place
<1>1. CASE p = Root
  <2>1. PlaceOf(p).path = <<>> /\ PlaceOf(p).depth = -1 /\ PlaceOf(p).id = Root
    BY <1>1 DEF PlaceOf, RootPlace
  <2>2. <<>> \in Seq(Ids) /\ Len(<<>>) = 0
    BY EmptySeq
  <2>3. PlaceOf(p) \in Place
    BY <1>1, <2>2 DEF PlaceOf, RootPlace, Place
  <2> QED BY <2>1, <2>2, <2>3 DEF GoodPlace
<1>2. CASE p # Root
  <2>1. p \in Kept(row) /\ p \in Ids /\ TypedRows(row) /\ Lineage(row, p)
    BY <1>2 DEF Rows, Kept, Tidy
  <2>2. row[p].path \in Seq(Ids) /\ Len(row[p].path) \in Nat
    BY <2>1, RowType
  <2>3. PlaceOf(p).path = row[p].path /\ PlaceOf(p).depth = row[p].depth /\ PlaceOf(p).id = p
    BY <1>2 DEF PlaceOf
  <2>4. row[p].depth = Len(row[p].path) - 1 /\ Len(row[p].path) >= 1 /\ row[p].path[Len(row[p].path)] = p
    BY <2>1 DEF Lineage
  <2>5. ASSUME NEW n \in 1..Len(row[p].path)
        PROVE  /\ row[p].path[n] \in Kept(row) /\ row[row[p].path[n]].kind = "folder"
               /\ Len(row[row[p].path[n]].path) = n
               /\ \A m \in 1..n : row[row[p].path[n]].path[m] = row[p].path[m]
    <3>1. n < Len(row[p].path) \/ n = Len(row[p].path)
      BY <2>2
    <3> QED BY <1>2, <2>1, <3>1, Above
  <2>6. PlaceOf(p) \in Place
    BY <1>2, <2>1, <2>2, <2>4 DEF PlaceOf, Place
  <2> QED BY <2>2, <2>3, <2>4, <2>5, <2>6 DEF GoodPlace
<1> QED BY <1>1, <1>2

\* ChildPath of a place followed by the rest of an old path.
Graft(s, a, q) == Append(s, a) \o q

\* The path u is s, then a, then the d ids of q.
Continues(u, s, a, d, q) ==
    /\ u \in Seq(Ids)
    /\ Len(u) = Len(s) + 1 + d
    /\ \A n \in 1..Len(s) : u[n] = s[n]
    /\ u[Len(s) + 1] = a
    /\ \A k \in 1..d : u[Len(s) + 1 + k] = q[k]

\* What RelocateSubtree assigns continues the place with the old path from the top on.
LEMMA GraftedPath ==
    ASSUME NEW s \in Seq(Ids), NEW i \in Ids, NEW t \in Seq(Ids), NEW l \in 1..Len(t)
    PROVE  Continues(Graft(s, i, SubSeq(t, l + 1, Len(t))), s, i,
                     Len(t) - l, [k \in 1..(Len(t) - l) |-> t[l + k]])
<1> DEFINE a == Append(s, i)
           b == SubSeq(t, l + 1, Len(t))
<1>1. Len(s) \in Nat /\ Len(t) \in Nat /\ l \in Nat
  BY LenProperties
<1>2. /\ a \in Seq(Ids) /\ Len(a) = Len(s) + 1
      /\ \A n \in 1..Len(s) : a[n] = s[n]
      /\ a[Len(s) + 1] = i
  BY AppendProperties
<1>3. /\ b \in Seq(Ids) /\ Len(b) = Len(t) - l
      /\ \A k \in 1..(Len(t) - l) : b[k] = t[l + k]
  <2>1. \A m \in (l + 1)..Len(t) : t[m] \in Ids
    BY <1>1, ElementOfSeq
  <2>2. /\ b \in Seq(Ids)
        /\ Len(b) = IF l + 1 <= Len(t) THEN Len(t) - (l + 1) + 1 ELSE 0
        /\ \A k \in 1..(Len(t) - (l + 1) + 1) : b[k] = t[(l + 1) + k - 1]
    BY <1>1, <2>1, SubSeqProperties
  <2> HIDE DEF b
  <2>3. Len(b) = Len(t) - l
    BY <1>1, <2>2
  <2>4. ASSUME NEW k \in 1..(Len(t) - l) PROVE b[k] = t[l + k]
    <3>1. k \in 1..(Len(t) - (l + 1) + 1) /\ (l + 1) + k - 1 = l + k
      BY <1>1
    <3> QED BY <2>2, <3>1
  <2> QED BY <2>2, <2>3, <2>4
<1> HIDE DEF a, b
<1>4. /\ a \o b \in Seq(Ids) /\ Len(a \o b) = Len(a) + Len(b)
      /\ \A n \in 1..Len(a) + Len(b) : (a \o b)[n] = IF n <= Len(a) THEN a[n] ELSE b[n - Len(a)]
  BY <1>2, <1>3, ConcatProperties
<1>5. \A n \in 1..Len(s) : (a \o b)[n] = s[n]
  BY <1>1, <1>2, <1>3, <1>4
<1>6. (a \o b)[Len(s) + 1] = i
  BY <1>1, <1>2, <1>3, <1>4
<1>7. ASSUME NEW k \in 1..(Len(t) - l) PROVE (a \o b)[Len(s) + 1 + k] = t[l + k]
  <2>1. /\ Len(s) + 1 + k \in 1..Len(a) + Len(b) /\ ~(Len(s) + 1 + k <= Len(a))
        /\ (Len(s) + 1 + k) - Len(a) = k
    BY <1>1, <1>2, <1>3
  <2> QED BY <1>3, <1>4, <2>1
<1> QED BY <1>1, <1>2, <1>3, <1>4, <1>5, <1>6, <1>7 DEF a, b, Graft, Continues

-----------------------------------------------------------------------------
(* Moving a subtree.                                                       *)

\* What RelocateSubtree makes of the row of j, in the subtree of i.
MovedTo(i, place, j, new) ==
    LET s == place.path
        t == row[j].path
        l == Len(row[i].path)
    IN  /\ new.path \in Seq(Ids)
        /\ Len(new.path) = Len(s) + 1 + (Len(t) - l)
        /\ \A n \in 1..Len(s) : new.path[n] = s[n]
        /\ new.path[Len(s) + 1] = i
        /\ \A k \in 1..(Len(t) - l) : new.path[Len(s) + 1 + k] = t[l + k]
        /\ new.depth = Len(new.path) - 1
        /\ new.parent = IF j = i THEN place.id ELSE row[j].parent
        /\ new.kind = row[j].kind /\ new.name = row[j].name /\ new.lower = row[j].lower
        /\ new.status = row[j].status
        /\ new.orig = row[j].orig /\ new.old = row[j].old

\* RelocateSubtree gives every row of the subtree such a path, and changes nothing else in it.
LEMMA MovedRow ==
    ASSUME Tidy(row), NEW i \in Rows, NEW place, GoodPlace(row, place), NEW j \in Subtree(i)
    PROVE  /\ MovedTo(i, place, j, Relocated(row, i, place)[j])
           /\ Relocated(row, i, place)[j] \in Node
<1> DEFINE s == place.path
           t == row[j].path
           l == Len(row[i].path)
           u == Graft(s, i, SubSeq(t, l + 1, Len(t)))
           new == Relocated(row, i, place)[j]
<1>1. j \in Rows /\ j \in Ids /\ i \in Ids /\ i \in Kept(row) /\ j \in Kept(row) /\ TypedRows(row)
  BY DEF Subtree, Under, Rows, Kept, Tidy
<1>2. /\ t \in Seq(Ids) /\ Len(t) \in Nat /\ row[i].path \in Seq(Ids) /\ l \in Nat
      /\ s \in Seq(Ids) /\ Len(s) \in Nat
  BY <1>1, RowType, LenProperties DEF GoodPlace
<1>3. /\ Lineage(row, i) /\ Lineage(row, j) /\ l >= 1 /\ row[i].depth = l - 1
      /\ row[j].depth = Len(t) - 1 /\ place.depth = Len(s) - 1
  BY <1>1 DEF Tidy, Lineage, GoodPlace
<1>4. l <= Len(t) /\ t[l] = i
  BY <1>1, SubtreeIs
<1>5. l \in 1..Len(t)
  BY <1>2, <1>3, <1>4
<1>6. /\ u \in Seq(Ids)
      /\ Len(u) = Len(s) + 1 + (Len(t) - l)
      /\ \A n \in 1..Len(s) : u[n] = s[n]
      /\ u[Len(s) + 1] = i
      /\ \A k \in 1..(Len(t) - l) : u[Len(s) + 1 + k] = t[l + k]
  <2>1. s \in Seq(Ids) /\ i \in Ids /\ t \in Seq(Ids) /\ l \in 1..Len(t)
    BY <1>1, <1>2, <1>5
  <2> HIDE DEF s, t, l
  <2>2. u = Graft(s, i, SubSeq(t, l + 1, Len(t)))
    OBVIOUS
  <2> HIDE DEF u
  <2>3. Continues(u, s, i, Len(t) - l, [k \in 1..(Len(t) - l) |-> t[l + k]])
    BY <2>1, <2>2, GraftedPath
  <2> QED BY <2>3 DEF Continues
<1>7. row[j] \in Node
  BY <1>1, RowType
<1>8. /\ new.path = u
      /\ new.depth = row[j].depth + (place.depth + 1 - row[i].depth)
      /\ new.parent = IF j = i THEN place.id ELSE row[j].parent
      /\ new.kind = row[j].kind /\ new.name = row[j].name /\ new.lower = row[j].lower
      /\ new.status = row[j].status
      /\ new.orig = row[j].orig /\ new.old = row[j].old
      /\ new \in Node
  <2> DEFINE w == ChildPath(place, i) \o SubSeq(row[j].path, Len(row[i].path) + 1, Len(row[j].path))
             d == row[j].depth + (place.depth + 1 - row[i].depth)
             v == [row[j] EXCEPT !.path = w, !.depth = d]
  <2>1. new = IF j = i THEN [v EXCEPT !.parent = place.id] ELSE v
    BY <1>1 DEF Relocated
  <2>2. w = u
    BY DEF ChildPath, Graft
  <2>6. w \in Seq(Ids) /\ d \in Nat /\ place.id \in Ids \cup {Root}
    <3>1. d = Len(u) - 1
      <4> HIDE DEF u, s, t, l
      <4> QED BY <1>2, <1>3, <1>6
    <3>2. Len(u) \in Nat /\ Len(u) >= 1
      <4> HIDE DEF u, s, t, l
      <4> QED BY <1>2, <1>4, <1>6
    <3>3. place.id \in Ids \cup {Root}
      <4>1. place.id = IF Len(s) = 0 THEN Root ELSE s[Len(s)]
        BY DEF GoodPlace
      <4>2. Len(s) # 0 => s[Len(s)] \in Ids
        BY <1>2, ElementOfSeq
      <4> QED BY <4>1, <4>2
    <3> HIDE DEF u, d, w, s, t, l, v, new
    <3> QED BY <1>6, <2>2, <3>1, <3>2, <3>3
  <2> HIDE DEF w, d, u
  <2>7. v \in Node /\ [row[j] EXCEPT !.path = w, !.depth = d, !.parent = place.id] \in Node
    BY <1>7, <2>6 DEF Node
  <2>3. /\ v.path = u /\ v.depth = d /\ v.parent = row[j].parent
        /\ v.kind = row[j].kind /\ v.name = row[j].name /\ v.lower = row[j].lower
        /\ v.status = row[j].status
        /\ v.orig = row[j].orig /\ v.old = row[j].old
    BY <1>7, <2>2 DEF Node
  <2>4. [v EXCEPT !.parent = place.id] = [row[j] EXCEPT !.path = w, !.depth = d, !.parent = place.id]
    BY <1>7 DEF Node
  <2>5. LET x == [row[j] EXCEPT !.path = w, !.depth = d, !.parent = place.id]
        IN  /\ x.path = u /\ x.depth = d /\ x.parent = place.id
            /\ x.kind = row[j].kind /\ x.name = row[j].name /\ x.lower = row[j].lower
            /\ x.status = row[j].status
            /\ x.orig = row[j].orig /\ x.old = row[j].old
    BY <1>7, <2>2 DEF Node
  <2> HIDE DEF v
  <2> QED BY <2>1, <2>3, <2>4, <2>5, <2>7 DEF d
<1>9. new.depth = Len(u) - 1
  <2> HIDE DEF s, t, l, u, new
  <2> QED BY <1>2, <1>3, <1>6, <1>8
<1> QED BY <1>6, <1>8, <1>9 DEF MovedTo

\* Below and outside: a row is outside a subtree exactly if nothing in its path is inside.
LEMMA SubtreeClosed ==
    ASSUME Tidy(row), NEW i \in Rows, NEW j \in Rows, NEW n \in 1..Len(row[j].path)
    PROVE  /\ row[j].path[n] \in Rows
           /\ row[j].path[n] \in Subtree(i) => j \in Subtree(i)
           /\ j \in Subtree(i) /\ n >= Len(row[i].path) => row[j].path[n] \in Subtree(i)
           /\ i \in Subtree(i) /\ Subtree(i) \subseteq Rows
<1> DEFINE a == row[j].path[n]
           l == Len(row[i].path)
<1>1. Kept(row) = Rows /\ TypedRows(row) /\ i \in Ids /\ j \in Ids /\ Subtree(i) \subseteq Rows
  BY DEF Rows, Kept, Tidy, Subtree, Under
<1>2. l \in Nat /\ l >= 1 /\ row[i].path[l] = i /\ Len(row[j].path) \in Nat
  BY <1>1, RowType DEF Tidy, Lineage
<1>3. a \in Rows /\ Len(row[a].path) = n /\ \A m \in 1..n : row[a].path[m] = row[j].path[m]
  BY <1>1, Above
<1>4. i \in Subtree(i)
  BY <1>2, SubtreeIs
<1>5. a \in Subtree(i) <=> l <= n /\ row[a].path[l] = i
  BY <1>3, SubtreeIs
<1>6. j \in Subtree(i) <=> l <= Len(row[j].path) /\ row[j].path[l] = i
  BY SubtreeIs
<1>7. ASSUME l <= n PROVE row[a].path[l] = row[j].path[l] /\ l <= Len(row[j].path)
  <2>1. l \in 1..n /\ n \in 1..Len(row[j].path)
    BY <1>2, <1>7
  <2> HIDE DEF a, l
  <2> QED BY <1>2, <1>3, <2>1
<1>8. n >= l <=> l <= n
  BY <1>2
<1> HIDE DEF a, l
<1>9. ASSUME a \in Subtree(i) PROVE j \in Subtree(i)
  BY <1>5, <1>6, <1>7, <1>9
<1>10. ASSUME j \in Subtree(i), n >= l PROVE a \in Subtree(i)
  BY <1>5, <1>6, <1>7, <1>8, <1>10
<1> QED BY <1>1, <1>3, <1>4, <1>9, <1>10 DEF a, l

\* The parent of a row below the top of a subtree is in the subtree, right before it in its path.
LEMMA ParentInSubtree ==
    ASSUME Tidy(row), NEW i \in Rows, NEW j \in Subtree(i), j # i
    PROVE  LET t == row[j].path IN
           /\ Len(t) - 1 \in Len(row[i].path)..Len(t)
           /\ row[j].parent = t[Len(t) - 1]
           /\ row[j].parent \in Subtree(i)
<1> DEFINE t == row[j].path
           l == Len(row[i].path)
<1>1. j \in Rows /\ Kept(row) = Rows /\ i \in Ids /\ j \in Ids
  BY DEF Subtree, Under, Rows, Kept
<1>2. Lineage(row, i) /\ Lineage(row, j) /\ l <= Len(t) /\ t[l] = i
  BY <1>1, SubtreeIs DEF Tidy
<1>3. Len(t) \in Nat /\ l \in Nat
  BY <1>1, RowType DEF Tidy
<1>4. /\ t[Len(t)] = j /\ l >= 1
      /\ row[j].parent = IF Len(t) = 1 THEN Root ELSE t[Len(t) - 1]
  BY <1>2 DEF Lineage
<1> HIDE DEF t, l
<1>5. l < Len(t)
  BY <1>2, <1>3, <1>4
<1>6. Len(t) - 1 \in l..Len(t) /\ Len(t) - 1 \in 1..Len(t) /\ row[j].parent = t[Len(t) - 1]
  BY <1>3, <1>4, <1>5
<1>7. t[Len(t) - 1] \in Subtree(i)
  BY <1>1, <1>3, <1>6, SubtreeClosed DEF t, l
<1> QED BY <1>6, <1>7 DEF t, l

\* Rows whose paths are the old ones grafted onto the place, with the ids that c gives,
\* have a lineage (RelocateSubtree keeps the ids, copyTree gives new ones).
Grafted(i, place, c, j, r) ==
    LET s == place.path
        t == row[j].path
        l == Len(row[i].path)
    IN  /\ Len(r.path) = Len(s) + 1 + (Len(t) - l)
        /\ \A n \in 1..Len(s) : r.path[n] = s[n]
        /\ r.path[Len(s) + 1] = c[i]
        /\ \A k \in 1..(Len(t) - l) : r.path[Len(s) + 1 + k] = c[t[l + k]]
        /\ r.depth = Len(r.path) - 1
        /\ r.parent = IF j = i THEN place.id ELSE c[row[j].parent]
        /\ r.kind = row[j].kind

\* Rows of a subtree, grafted onto a place under new ids c (a move keeps the ids, a copy does
\* not), have a lineage as long as whatever lies between them and the top is grafted as well.
LEMMA GraftedLineage ==
    ASSUME Tidy(row), NEW i \in Rows, NEW place, GoodPlace(row, place),
           NEW N, N \subseteq Subtree(i),
           \A k \in N : \A n \in Len(row[i].path)..Len(row[k].path) : row[k].path[n] \in N,
           NEW c, NEW new,
           \A n \in 1..Len(place.path) : /\ place.path[n] \in Kept(new)
                                         /\ new[place.path[n]] = row[place.path[n]],
           \A k \in N : c[k] \in Kept(new) /\ Grafted(i, place, c, k, new[c[k]]),
           NEW j \in N
    PROVE  Lineage(new, c[j])
<1> DEFINE s == place.path
           l == Len(row[i].path)
           t == row[j].path
           u == new[c[j]].path
<1>1. /\ Kept(row) = Rows /\ TypedRows(row) /\ i \in Ids /\ Rows \subseteq Ids
      /\ Subtree(i) \subseteq Rows /\ N \subseteq Rows /\ j \in Rows /\ j \in Subtree(i)
  BY DEF Rows, Kept, Tidy, Subtree, Under
<1>2. /\ s \in Seq(Ids) /\ Len(s) \in Nat /\ l \in Nat /\ l >= 1
      /\ t \in Seq(Ids) /\ Len(t) \in Nat
      /\ place.id = IF Len(s) = 0 THEN Root ELSE s[Len(s)]
      /\ \A n \in 1..Len(s) :
            /\ row[s[n]].kind = "folder" /\ Len(row[s[n]].path) = n
            /\ \A m \in 1..n : row[s[n]].path[m] = s[m]
  BY <1>1, RowType, LenProperties DEF GoodPlace, Tidy, Lineage
<1>3. Lineage(row, j) /\ l <= Len(t) /\ t[l] = i
  BY <1>1, SubtreeIs DEF Tidy
<1>4. /\ Len(u) = Len(s) + 1 + (Len(t) - l)
      /\ \A n \in 1..Len(s) : u[n] = s[n]
      /\ u[Len(s) + 1] = c[i]
      /\ \A k \in 1..(Len(t) - l) : u[Len(s) + 1 + k] = c[t[l + k]]
      /\ new[c[j]].depth = Len(u) - 1
      /\ new[c[j]].parent = IF j = i THEN place.id ELSE c[row[j].parent]
  BY DEF Grafted
<1>5. /\ Len(t) >= 1 /\ t[Len(t)] = j
      /\ (j = i <=> Len(t) = l)
  BY <1>3 DEF Lineage
<1>6. j # i => row[j].parent = t[Len(t) - 1]
  BY <1>1, ParentInSubtree
<1>7. \A n \in 1..Len(s) : s[n] \in Kept(new) /\ new[s[n]] = row[s[n]]
  OBVIOUS
<1>8. \A n \in l..Len(t) : t[n] \in N
  OBVIOUS
<1> HIDE DEF s, l, t, u
\* The ids after those of the place.
<1>9. ASSUME NEW k \in 0..(Len(t) - l)
      PROVE  u[Len(s) + 1 + k] = c[t[l + k]] /\ l + k \in l..Len(t) /\ l + k \in 1..Len(t)
  <2>1. l + k \in l..Len(t) /\ l + k \in 1..Len(t)
    BY <1>2, <1>3
  <2>2. CASE k = 0
    BY <1>2, <1>3, <1>4, <2>2
  <2>3. CASE k # 0
    <3>1. k \in 1..(Len(t) - l)
      BY <1>2, <2>3
    <3> QED BY <1>4, <2>1, <3>1
  <2> QED BY <2>1, <2>2, <2>3
\* The end of the path and the parent.
<1>10. Len(u) >= 1 /\ u[Len(u)] = c[j]
  <2>1. Len(t) - l \in 0..(Len(t) - l) /\ l + (Len(t) - l) = Len(t)
    BY <1>2, <1>3
  <2>2. u[Len(s) + 1 + (Len(t) - l)] = c[t[l + (Len(t) - l)]]
    BY <1>9, <2>1
  <2>3. Len(u) >= 1
    BY <1>2, <1>3, <1>4
  <2> QED BY <1>4, <1>5, <2>1, <2>2, <2>3
<1>11. new[c[j]].parent = IF Len(u) = 1 THEN Root ELSE u[Len(u) - 1]
  <2>1. CASE j = i
    <3>1. Len(u) = Len(s) + 1
      <4>1. Len(t) = l
        BY <1>5, <2>1
      <4>2. Len(u) = Len(s) + 1 + (Len(t) - l)
        BY <1>4
      <4> QED BY <1>2, <4>1, <4>2
    <3>3. new[c[j]].parent = place.id
      BY <1>4, <2>1
    <3>2. Len(s) # 0 => u[Len(s)] = s[Len(s)]
      BY <1>2, <1>4
    <3> QED BY <1>2, <3>1, <3>2, <3>3
  <2>2. CASE j # i
    <3>1. Len(t) > l
      BY <1>2, <1>3, <1>5, <2>2
    <3>2. /\ Len(t) - 1 - l \in 0..(Len(t) - l) /\ l + (Len(t) - 1 - l) = Len(t) - 1
          /\ Len(u) > 1 /\ Len(u) - 1 = Len(s) + 1 + (Len(t) - 1 - l)
      BY <1>2, <1>4, <3>1
    <3>3. u[Len(s) + 1 + (Len(t) - 1 - l)] = c[t[l + (Len(t) - 1 - l)]]
      BY <1>9, <3>2
    <3>4. new[c[j]].parent = c[t[Len(t) - 1]]
      BY <1>4, <1>6, <2>2
    <3>5. u[Len(u) - 1] = c[t[Len(t) - 1]]
      BY <3>2, <3>3
    <3>6. Len(u) # 1
      BY <1>2, <1>4, <3>1
    <3> QED BY <3>4, <3>5, <3>6
  <2> QED BY <2>1, <2>2
\* What comes before.
<1>12. ASSUME NEW n \in 1..Len(s)
       PROVE  /\ u[n] \in Kept(new) /\ new[u[n]].kind = "folder"
              /\ Len(new[u[n]].path) = n
              /\ \A m \in 1..n : new[u[n]].path[m] = u[m]
  <2>1. u[n] = s[n] /\ \A m \in 1..n : u[m] = s[m]
    BY <1>2, <1>4
  <2>2. s[n] \in Kept(new) /\ new[s[n]] = row[s[n]]
    BY <1>7
  <2>3. /\ row[s[n]].kind = "folder" /\ Len(row[s[n]].path) = n
        /\ \A m \in 1..n : row[s[n]].path[m] = s[m]
    BY <1>2
  <2> QED BY <2>1, <2>2, <2>3
<1>13. ASSUME NEW k \in 0..(Len(t) - l)
       PROVE  LET n == Len(s) + 1 + k IN
              /\ u[n] \in Kept(new)
              /\ n < Len(u) => new[u[n]].kind = "folder"
              /\ Len(new[u[n]].path) = n
              /\ \A m \in 1..n : new[u[n]].path[m] = u[m]
  <2> DEFINE a == t[l + k]
             w == new[c[a]].path
  <2>1. u[Len(s) + 1 + k] = c[a] /\ l + k \in 1..Len(t) /\ a \in N
    BY <1>8, <1>9
  <2>2. /\ Len(row[a].path) = l + k
        /\ \A m \in 1..(l + k) : row[a].path[m] = t[m]
        /\ l + k < Len(t) => row[a].kind = "folder"
    <3>1. j \in Kept(row) /\ row[j].path = t /\ l + k \in 1..Len(row[j].path)
      BY <1>1, <2>1 DEF t
    <3> QED BY <3>1, Above
  <2>3. Grafted(i, place, c, a, new[c[a]]) /\ c[a] \in Kept(new)
    BY <2>1
  <2> HIDE DEF a
  <2>4. /\ Len(w) = Len(s) + 1 + k
        /\ \A n \in 1..Len(s) : w[n] = s[n]
        /\ w[Len(s) + 1] = c[i]
        /\ \A h \in 1..k : w[Len(s) + 1 + h] = c[row[a].path[l + h]]
        /\ new[c[a]].kind = row[a].kind
    <3>1. (l + k) - l = k
      BY <1>2
    <3>2. /\ Len(w) = Len(s) + 1 + (Len(row[a].path) - l)
          /\ \A n \in 1..Len(s) : w[n] = s[n]
          /\ w[Len(s) + 1] = c[i]
          /\ \A h \in 1..(Len(row[a].path) - l) : w[Len(s) + 1 + h] = c[row[a].path[l + h]]
          /\ new[c[a]].kind = row[a].kind
      BY <2>3 DEF Grafted, s, l
    <3> QED BY <2>2, <3>1, <3>2
  <2> HIDE DEF w
  <2>5. ASSUME NEW m \in 1..(Len(s) + 1 + k) PROVE w[m] = u[m]
    <3>1. CASE m <= Len(s)
      BY <1>2, <1>4, <2>4, <3>1
    <3>2. CASE m = Len(s) + 1
      BY <1>4, <2>4, <3>2
    <3>3. CASE m > Len(s) + 1
      <4> DEFINE h == m - (Len(s) + 1)
      <4>3. h \in Int /\ h >= 1 /\ h <= k /\ m = Len(s) + 1 + h /\ k <= Len(t) - l
        <5>1. /\ Len(s) \in Nat /\ Len(t) \in Nat /\ l \in Nat
              /\ k \in Int /\ m \in Int /\ k <= Len(t) - l /\ m <= Len(s) + 1 + k
          BY <1>2, <1>3
        <5> HIDE DEF s, t, l
        <5> QED BY <3>3, <5>1
      <4> HIDE DEF h
      <4>1. h \in 1..k /\ h \in 1..(Len(t) - l) /\ m = Len(s) + 1 + h /\ l + h \in 1..(l + k)
        BY <1>2, <4>3
      <4>2. w[m] = c[row[a].path[l + h]] /\ u[m] = c[t[l + h]] /\ row[a].path[l + h] = t[l + h]
        BY <1>4, <2>2, <2>4, <4>1
      <4> QED BY <4>2
    <3> QED BY <1>2, <3>1, <3>2, <3>3
  <2>6. Len(s) + 1 + k < Len(u) => l + k < Len(t)
    BY <1>2, <1>3, <1>4
  <2> QED BY <2>1, <2>2, <2>3, <2>4, <2>5, <2>6 DEF w
<1>14. ASSUME NEW n \in 1..Len(u)
       PROVE  /\ u[n] \in Kept(new)
              /\ n < Len(u) => new[u[n]].kind = "folder"
              /\ Len(new[u[n]].path) = n
              /\ \A m \in 1..n : new[u[n]].path[m] = u[m]
  <2>1. CASE n <= Len(s)
    BY <1>2, <1>12, <2>1
  <2>2. CASE n > Len(s)
    <3>1. n - (Len(s) + 1) \in 0..(Len(t) - l) /\ n = Len(s) + 1 + (n - (Len(s) + 1))
      BY <1>2, <1>3, <1>4, <2>2
    <3> QED BY <1>13, <3>1
  <2> QED BY <1>2, <2>1, <2>2
<1> QED BY <1>4, <1>10, <1>11, <1>14 DEF Lineage, u

\* A destination outside the subtree leaves the tree a tree.
LEMMA RelocatedTidy ==
    ASSUME Tidy(row), NEW i \in Rows, NEW place \in Place, GoodPlace(row, place),
           \A n \in 1..Len(place.path) : place.path[n] # i
    PROVE  LET new == Relocated(row, i, place) IN
           /\ Tidy(new)
           /\ Kept(new) = Kept(row)
           /\ \A j \in Ids \ Subtree(i) : new[j] = row[j]
           /\ \A n \in 1..Len(place.path) : place.path[n] \notin Subtree(i)
<1> DEFINE s == place.path
           l == Len(row[i].path)
           new == Relocated(row, i, place)
<1>1. /\ Kept(row) = Rows /\ TypedRows(row) /\ i \in Ids /\ Rows \subseteq Ids
      /\ i \in Subtree(i) /\ Subtree(i) \subseteq Rows
  <2>1. 1 \in 1..Len(row[i].path)
    BY RowType DEF Rows, Kept, Tidy, Lineage
  <2> QED BY <2>1, SubtreeClosed DEF Rows, Kept, Tidy
<1>2. /\ s \in Seq(Ids) /\ Len(s) \in Nat /\ l \in Nat /\ l >= 1
      /\ place.id = IF Len(s) = 0 THEN Root ELSE s[Len(s)]
      /\ \A n \in 1..Len(s) :
            /\ s[n] \in Kept(row) /\ row[s[n]].kind = "folder" /\ Len(row[s[n]].path) = n
            /\ \A m \in 1..n : row[s[n]].path[m] = s[m]
  BY <1>1, RowType, LenProperties DEF GoodPlace, Tidy, Lineage
<1>3. ASSUME NEW n \in 1..Len(s) PROVE s[n] \notin Subtree(i)
  <2>1. /\ s[n] \in Rows /\ Len(row[s[n]].path) = n
        /\ \A m \in 1..n : row[s[n]].path[m] = s[m]
    BY <1>1, <1>2
  <2>2. s[n] \in Subtree(i) <=> l <= n /\ row[s[n]].path[l] = i
    BY <2>1, SubtreeIs
  <2>3. l <= n => l \in 1..n /\ l \in 1..Len(s)
    BY <1>2
  <2> QED BY <2>1, <2>2, <2>3
<1>4. \A j \in Ids \ Subtree(i) : new[j] = row[j]
  BY <1>1 DEF Relocated
<1>5. \A j \in Subtree(i) : MovedTo(i, place, j, new[j]) /\ new[j] \in Node
  BY MovedRow
<1>6. DOMAIN new = Ids /\ new = [j \in Ids |-> new[j]]
  BY DEF Relocated
<1> HIDE DEF new, s, l
<1>7. TypedRows(new) /\ Kept(new) = Kept(row)
  <2>1. \A j \in Subtree(i) : new[j].status # "none" /\ row[j].status # "none" /\ j \in Ids
    BY <1>1, <1>5 DEF Node, Kept
  <2>2. \A j \in Ids : new[j] \in Node \cup {NoNode}
    BY <1>1, <1>4, <1>5 DEF TypedRows
  <2> QED BY <1>1, <1>4, <1>6, <2>1, <2>2 DEF TypedRows, Kept
<1>8. ASSUME NEW j \in Kept(row), j \notin Subtree(i) PROVE Lineage(new, j)
  <2>1. Lineage(row, j) /\ new[j] = row[j]
    BY <1>1, <1>4, <1>8 DEF Tidy
  <2>2. \A n \in 1..Len(row[j].path) : row[j].path[n] \in Rows \ Subtree(i)
    BY <1>1, <1>8, SubtreeClosed
  <2>3. \A n \in 1..Len(row[j].path) : new[row[j].path[n]] = row[row[j].path[n]]
    BY <1>1, <1>4, <2>2
  <2> QED BY <1>7, <2>1, <2>3 DEF Lineage
<1>9. ASSUME NEW j \in Subtree(i) PROVE Lineage(new, j)
  <2> DEFINE c == [k \in Subtree(i) |-> k]
  <2>1. ASSUME NEW k \in Subtree(i), NEW n \in l..Len(row[k].path)
        PROVE  row[k].path[n] \in Subtree(i) /\ c[row[k].path[n]] = row[k].path[n]
    <3>1. n \in 1..Len(row[k].path)
      BY <1>1, <1>2, RowType
    <3>2. row[k].path[n] \in Subtree(i)
      BY <1>1, <1>2, <3>1, SubtreeClosed DEF l
    <3> QED BY <3>2
  <2>2. ASSUME NEW k \in Subtree(i)
        PROVE  c[k] \in Kept(new) /\ Grafted(i, place, c, k, new[c[k]])
    <3>1. MovedTo(i, place, k, new[k]) /\ c[k] = k /\ c[i] = i /\ k \in Kept(new)
      BY <1>1, <1>5, <1>7
    <3>2. \A n \in 1..(Len(row[k].path) - l) : c[row[k].path[l + n]] = row[k].path[l + n]
      <4>1. \A n \in 1..(Len(row[k].path) - l) : l + n \in l..Len(row[k].path)
        BY <1>1, <1>2, RowType
      <4> QED BY <2>1, <4>1
    <3>3. k # i => c[row[k].parent] = row[k].parent
      BY <1>1, ParentInSubtree
    <3> HIDE DEF c
    <3> QED BY <3>1, <3>2, <3>3 DEF MovedTo, Grafted, s, l
  <2>3. \A n \in 1..Len(s) : s[n] \in Kept(new) /\ new[s[n]] = row[s[n]]
    BY <1>1, <1>2, <1>3, <1>4, <1>7
  <2>4. \A k \in Subtree(i) : \A n \in l..Len(row[k].path) : row[k].path[n] \in Subtree(i)
    BY <2>1
  <2>5. c[j] = j
    OBVIOUS
  <2> HIDE DEF c
  <2>6. Lineage(new, c[j])
    BY <2>2, <2>3, <2>4, GraftedLineage DEF s, l
  <2> QED BY <2>5, <2>6
<1> QED BY <1>1, <1>3, <1>4, <1>7, <1>8, <1>9 DEF Tidy, new, s

-----------------------------------------------------------------------------
(* Statements on a whole subtree.                                          *)

\* A set of rows that holds everything below its members.
DownClosed(S) ==
    /\ S \subseteq Rows
    /\ \A j \in Rows : \A n \in 1..Len(row[j].path) : row[j].path[n] \in S => j \in S

\* A subtree contains what is below any of its nodes.
LEMMA SubtreeDown ==
    ASSUME Tidy(row), NEW i \in Rows
    PROVE  DownClosed(Subtree(i)) /\ i \in Subtree(i)
<1>1. Kept(row) = Rows /\ 1 \in 1..Len(row[i].path)
  BY RowType DEF Tidy, Lineage, Kept, Rows
<1> QED BY <1>1, SubtreeClosed DEF DownClosed

\* Trashing such a set (SetSubtreeStatus).
LEMMA SetTrashed ==
    ASSUME Tidy(row), Live(row), NEW S, DownClosed(S), NEW o \in Ids \cup {Root},
           NEW new,
           new = [j \in Ids |-> IF j \in S
                                THEN [row[j] EXCEPT !.status = "trashed", !.orig = o, !.old = FALSE]
                                ELSE row[j]]
    PROVE  Tidy(new) /\ Live(new)
<1>1. Kept(row) = Rows /\ Rows \subseteq Ids /\ S \subseteq Rows /\ TypedRows(row)
  BY DEF Kept, Rows, Tidy, DownClosed
<1>2. \A j \in S : row[j] \in Node
  BY <1>1, RowType
<1>3. \A j \in S : /\ new[j] \in Node /\ new[j].status = "trashed"
                   /\ new[j].path = row[j].path /\ new[j].depth = row[j].depth
                   /\ new[j].parent = row[j].parent /\ new[j].kind = row[j].kind
  BY <1>1, <1>2 DEF Node
<1>4. \A j \in Ids \ S : new[j] = row[j]
  OBVIOUS
<1>5. TypedRows(new)
  <2>1. \A j \in Ids : new[j] \in Node \cup {NoNode}
    BY <1>1, <1>3, <1>4 DEF TypedRows
  <2> QED BY <2>1 DEF TypedRows
<1>6. Kept(new) = Kept(row)
  BY <1>1, <1>2, <1>3, <1>4 DEF Kept, Node
<1>7. Tidy(new)
  <2>1. \A j \in Kept(row) : /\ new[j].path = row[j].path /\ new[j].depth = row[j].depth
                             /\ new[j].parent = row[j].parent /\ new[j].kind = row[j].kind
    BY <1>1, <1>3, <1>4
  <2> QED BY <1>5, <1>6, <2>1, SameShape
<1>8. Live(new)
  <2> SUFFICES ASSUME NEW j \in Kept(new), new[j].status = "active", NEW n \in 1..Len(new[j].path)
               PROVE  new[new[j].path[n]].status = "active"
    BY DEF Live
  <2>1. j \in Rows /\ j \notin S /\ new[j] = row[j]
    BY <1>1, <1>3, <1>4, <1>6
  <2>3. n \in 1..Len(row[j].path) /\ row[j].status = "active"
    BY <2>1
  <2>4. row[j].path[n] \in Ids
    BY <1>1, <2>1, <2>3, Above
  <2>2. row[j].path[n] \in Ids /\ row[j].path[n] \notin S /\ row[row[j].path[n]].status = "active"
    BY <1>1, <2>1, <2>3, <2>4 DEF DownClosed, Live
  <2> QED BY <1>4, <2>1, <2>2
<1> QED BY <1>7, <1>8

\* Removing such a set (HardDelete).
LEMMA SetRemoved ==
    ASSUME Tidy(row), Live(row), NEW S, DownClosed(S), NEW new,
           new = [j \in Ids |-> IF j \in S THEN NoNode ELSE row[j]]
    PROVE  Tidy(new) /\ Live(new)
<1>1. Kept(row) = Rows /\ Rows \subseteq Ids /\ S \subseteq Rows /\ TypedRows(row)
  BY DEF Kept, Rows, Tidy, DownClosed
<1>2. TypedRows(new)
  BY <1>1 DEF TypedRows
<1>3. Kept(new) = Rows \ S /\ \A j \in Rows \ S : new[j] = row[j]
  BY <1>1 DEF Kept, Rows, NoNode
<1>4. \A j \in Rows \ S : \A n \in 1..Len(row[j].path) : row[j].path[n] \in Rows \ S
  BY <1>1, Above DEF DownClosed
<1>5. ASSUME NEW j \in Kept(new) PROVE Lineage(new, j)
  <2>1. Lineage(row, j) /\ j \in Rows \ S /\ new[j] = row[j]
    BY <1>1, <1>3 DEF Tidy
  <2>2. \A n \in 1..Len(row[j].path) : /\ row[j].path[n] \in Kept(new)
                                       /\ new[row[j].path[n]] = row[row[j].path[n]]
    BY <1>3, <1>4, <2>1
  <2> QED BY <2>1, <2>2, SameRows
<1>6. Live(new)
  BY <1>1, <1>3, <1>4 DEF Live
<1> QED BY <1>2, <1>5, <1>6 DEF Tidy

-----------------------------------------------------------------------------
(* Destinations.                                                           *)

\* What a folder that may be written to is known to be (loadWritableParent).
LEMMA WritablePlace ==
    ASSUME Tidy(row), Live(row), NEW p \in Ids \cup {Root}, Writable(p)
    PROVE  /\ GoodPlace(row, PlaceOf(p)) /\ PlaceOf(p) \in Place
           /\ \A n \in 1..Len(PlaceOf(p).path) : row[PlaceOf(p).path[n]].status = "active"
<1>1. p # Root => p \in Rows /\ row[p].kind = "folder" /\ row[p].status = "active"
  BY DEF Writable, Active, Rows
<1>2. GoodPlace(row, PlaceOf(p)) /\ PlaceOf(p) \in Place
  BY <1>1, PlaceIsGood
<1>3. CASE p = Root
  <2>1. Len(PlaceOf(p).path) = 0
    BY <1>3, EmptySeq DEF PlaceOf, RootPlace
  <2> QED BY <1>2, <2>1
<1>4. CASE p # Root
  <2>1. PlaceOf(p).path = row[p].path /\ p \in Kept(row)
    BY <1>1, <1>4 DEF PlaceOf, Kept, Rows
  <2> QED BY <1>1, <1>2, <1>4, <2>1 DEF Live
<1> QED BY <1>3, <1>4

\* Every active row stays below active ones when its subtree moves to a writable place.
LEMMA RelocatedLive ==
    ASSUME Tidy(row), Live(row), NEW i \in Rows, NEW p \in Ids \cup {Root}, Writable(p),
           \A n \in 1..Len(PlaceOf(p).path) : PlaceOf(p).path[n] # i,
           NEW new, \A j \in Subtree(i) : /\ new[j].path = Relocated(row, i, PlaceOf(p))[j].path
                                          /\ new[j].status # "none",
           \A j \in Ids \ Subtree(i) : new[j] = row[j],
           \/ \A j \in Subtree(i) : new[j].status = row[j].status
           \/ \A j \in Subtree(i) : new[j].status = "active"
    PROVE  Live(new)
<1> DEFINE place == PlaceOf(p)
           s == place.path
           l == Len(row[i].path)
<1>1. /\ GoodPlace(row, place) /\ place \in Place
      /\ \A n \in 1..Len(s) : row[s[n]].status = "active"
  BY WritablePlace
<1>2. \A n \in 1..Len(s) : s[n] \notin Subtree(i) /\ s[n] \in Ids
  BY <1>1, RelocatedTidy DEF GoodPlace, Kept
<1>3. s \in Seq(Ids) /\ Len(s) \in Nat
  BY <1>1, LenProperties DEF GoodPlace
<1> HIDE DEF place, s
<1>4. Kept(row) = Rows /\ Rows \subseteq Ids /\ TypedRows(row) /\ l \in Nat
  BY RowType DEF Kept, Rows, Tidy
<1>5. ASSUME NEW j \in Ids, j \in Subtree(i), new[j].status = "active", NEW n \in 1..Len(new[j].path)
      PROVE  new[new[j].path[n]].status = "active"
  <2> DEFINE t == row[j].path
             u == new[j].path
  <2>1. MovedTo(i, place, j, Relocated(row, i, place)[j]) /\ u = Relocated(row, i, place)[j].path
    BY <1>1, <1>5, MovedRow DEF place
  <2>2. /\ Len(u) = Len(s) + 1 + (Len(t) - l)
        /\ \A m \in 1..Len(s) : u[m] = s[m]
        /\ u[Len(s) + 1] = i
        /\ \A k \in 1..(Len(t) - l) : u[Len(s) + 1 + k] = t[l + k]
    BY <2>1 DEF MovedTo, s
  <2>3. j \in Rows /\ Len(t) \in Nat /\ l >= 1 /\ l <= Len(t) /\ t[l] = i
    BY <1>4, <1>5, SubtreeIs, SubtreeClosed, RowType DEF Tidy, Lineage, Subtree, Under
  \* The rest of the path is inside the subtree, and active if j is.
  <2>4. ASSUME NEW m \in l..Len(t) PROVE new[t[m]].status = "active"
    <3>1. m \in 1..Len(t)
      BY <1>4, <2>3
    <3>2. t[m] \in Subtree(i)
      BY <2>3, <3>1, <1>5, SubtreeClosed
    <3>3. CASE \A k \in Subtree(i) : new[k].status = row[k].status
      <4>1. row[j].status = "active"
        BY <1>5, <3>3
      <4> QED BY <1>4, <2>3, <3>1, <3>2, <3>3, <4>1 DEF Live
    <3> QED BY <3>2, <3>3
  <2> HIDE DEF t, u
  <2>5. CASE n <= Len(s)
    <3>1. n \in 1..Len(s)
      BY <1>3, <1>5, <2>5
    <3>2. u[n] = s[n] /\ new[s[n]] = row[s[n]] /\ row[s[n]].status = "active"
      BY <1>1, <1>2, <2>2, <3>1
    <3> QED BY <3>2 DEF u
  <2>6. CASE n = Len(s) + 1
    <3>1. u[n] = t[l] /\ l \in l..Len(t)
      BY <1>4, <2>2, <2>3, <2>6
    <3> QED BY <2>4, <3>1 DEF u
  <2>7. CASE n > Len(s) + 1
    <3> DEFINE k == n - (Len(s) + 1)
    <3>1. k \in 1..(Len(t) - l) /\ n = Len(s) + 1 + k /\ l + k \in l..Len(t)
      BY <1>3, <1>4, <1>5, <2>2, <2>3, <2>7 DEF u
    <3> HIDE DEF k
    <3>2. u[n] = t[l + k]
      BY <2>2, <3>1
    <3> QED BY <2>4, <3>1, <3>2 DEF u
  <2> QED BY <1>3, <1>5, <2>5, <2>6, <2>7
<1>6. ASSUME NEW j \in Ids, j \notin Subtree(i), new[j].status = "active", NEW n \in 1..Len(new[j].path)
      PROVE  new[new[j].path[n]].status = "active"
  <2>1. new[j] = row[j] /\ j \in Rows
    BY <1>4, <1>6 DEF Rows
  <2>2. /\ row[j].path[n] \in Rows /\ row[j].path[n] \notin Subtree(i)
        /\ row[row[j].path[n]].status = "active"
    BY <1>4, <1>6, <2>1, SubtreeClosed DEF Live
  <2> QED BY <1>4, <2>1, <2>2
<1> QED BY <1>5, <1>6 DEF Live, Kept

-----------------------------------------------------------------------------
(* New rows.                                                               *)

\* The folded form of a name is a name.
LEMMA FoldType ==
    ASSUME NEW name \in Names
    PROVE  Lower[name] \in Names /\ Fold(name) \in Names
BY TreeConstants DEF Fold

\* A resolved name is a name.
LEMMA ResolvedType ==
    ASSUME NEW p, NEW name \in Names, NEW self
    PROVE  Resolved(p, name, self) \subseteq Names
BY DEF Resolved, FreeNames

\* An id that is handed out is above every id there is (NewID).
LEMMA NextIdFresh ==
    ASSUME Tidy(row), call \in CallState
    PROVE  NextId \in Nat /\ NextId >= 1 /\ \A i \in Rows : i < NextId
<1> DEFINE known == UNION { {i, row[i].parent, row[i].orig} \cup ToSet(row[i].path) : i \in Rows }
           seen  == {Root} \cup known \cup call.ids \cup {call.place.id} \cup ToSet(call.place.path)
<1>1. MaxId \in Nat /\ Rows \subseteq Ids /\ Kept(row) = Rows /\ TypedRows(row)
  BY TreeConstants DEF Rows, Kept, Tidy
<1>2. ASSUME NEW q \in Seq(Ids) PROVE ToSet(q) \subseteq Ids
  BY <1>2, LenProperties, ElementOfSeq DEF ToSet
<1>3. \A i \in Rows : /\ {i, row[i].parent, row[i].orig} \subseteq Ids \cup {Root}
                      /\ ToSet(row[i].path) \subseteq Ids
  BY <1>1, <1>2, RowType DEF Node
<1>4. known \subseteq Ids \cup {Root}
  BY <1>3
<1>5. call.ids \subseteq Ids /\ call.place.id \in Ids \cup {Root} /\ ToSet(call.place.path) \subseteq Ids
  BY <1>2 DEF CallState, Place
<1>6. seen \subseteq 0..MaxId /\ Root \in seen
  BY <1>1, <1>4, <1>5 DEF Ids, Root
<1>7. \A i \in Rows : i \in seen
  OBVIOUS
<1> HIDE DEF known
<1>8. NextId = 1 + Max(seen)
  BY DEF NextId, known
<1> HIDE DEF seen
<1>9. IsFiniteSet(seen)
  <2>1. IsFiniteSet(0..MaxId)
    BY <1>1, FS_Interval
  <2> QED BY <1>6, <2>1, FS_Subset
<1>10. seen \subseteq Int /\ seen # {}
  BY <1>1, <1>6
<1>11. PICK m \in seen : NextId = 1 + m /\ \A x \in seen : m >= x
  BY <1>8, <1>9, <1>10, MaxExists
<1>12. m \in Nat
  BY <1>1, <1>6, <1>11
<1>13. \A i \in Rows : i \in Nat
  BY <1>1 DEF Ids
<1> QED BY <1>7, <1>11, <1>12, <1>13

\* CreateFolder and the creation of a file put a fresh leaf below a live folder.
LEMMA CreateInv ==
    ASSUME IInv, NEW p \in Ids \cup {Root}, NEW kind \in {"file", "folder"}, NEW name \in Names,
           Create(p, kind, name)
    PROVE  IInv'
<1> DEFINE i == NextId
           place == PlaceOf(p)
           s == place.path
           u == Append(s, i)
<1>1. /\ Tidy(row) /\ Live(row) /\ TypedRows(row) /\ call \in CallState /\ call' = call
      /\ Kept(row) = Rows /\ Rows \subseteq Ids /\ i \in Ids /\ Writable(p)
  BY DEF IInv, Tidy, Create, Kept, Rows
<1>2. i \notin Rows
  BY <1>1, NextIdFresh
<1>3. /\ GoodPlace(row, place) /\ place \in Place
      /\ \A n \in 1..Len(s) : row[s[n]].status = "active"
  BY <1>1, WritablePlace
<1>4. s \in Seq(Ids) /\ Len(s) \in Nat
  BY <1>3, LenProperties DEF GoodPlace
<1>5. PICK given \in Names, low \in Names :
        row' = [row EXCEPT ![i] =
                  [status |-> "active", kind |-> kind, name |-> given, lower |-> low, parent |-> p,
                   path |-> u, depth |-> place.depth + 1, orig |-> Root, old |-> FALSE]]
  BY ResolvedType, FoldType DEF Create, ChildPath
<1>6. /\ u \in Seq(Ids) /\ Len(u) = Len(s) + 1 /\ u[Len(s) + 1] = i
      /\ \A n \in 1..Len(s) : u[n] = s[n]
  BY <1>1, <1>4, AppendProperties
<1>7. /\ place.depth = Len(s) - 1 /\ place.id = p
      /\ place.id = IF Len(s) = 0 THEN Root ELSE s[Len(s)]
      /\ \A n \in 1..Len(s) :
            /\ s[n] \in Kept(row) /\ row[s[n]].kind = "folder" /\ Len(row[s[n]].path) = n
            /\ \A m \in 1..n : row[s[n]].path[m] = s[m]
  BY <1>3 DEF GoodPlace, PlaceOf, RootPlace
<1> HIDE DEF i, place, s, u
<1>8. /\ row'[i].status = "active" /\ row'[i].kind = kind /\ row'[i].path = u /\ row'[i].parent = p
      /\ row'[i].depth = place.depth + 1
      /\ \A j \in Ids \ {i} : row'[j] = row[j]
  BY <1>1, <1>5 DEF TypedRows
<1>9. TypedRows(row') /\ Kept(row') = Kept(row) \cup {i}
  <2>1. [status |-> "active", kind |-> kind, name |-> given, lower |-> low, parent |-> p,
         path |-> u, depth |-> place.depth + 1, orig |-> Root, old |-> FALSE] \in Node
    BY <1>4, <1>6, <1>7 DEF Node
  <2>2. TypedRows(row')
    BY <1>1, <1>5, <2>1 DEF TypedRows
  <2> QED BY <1>1, <1>8, <2>2 DEF Kept
<1>10. ASSUME NEW j \in Rows
       PROVE  /\ row'[j] = row[j]
              /\ \A n \in 1..Len(row[j].path) : /\ row[j].path[n] \in Rows
                                                /\ row'[row[j].path[n]] = row[row[j].path[n]]
  BY <1>1, <1>2, <1>8, Above
<1>11. ASSUME NEW j \in Rows PROVE Lineage(row', j)
  <2>1. Lineage(row, j)
    BY <1>1 DEF Tidy
  <2> QED BY <1>1, <1>9, <1>10, <2>1, SameRows
<1>12. Lineage(row', i)
  <2>1. \A n \in 1..Len(s) : s[n] \in Rows /\ row'[s[n]] = row[s[n]]
    BY <1>1, <1>2, <1>7, <1>8
  <2>2. ASSUME NEW n \in 1..Len(u)
        PROVE  /\ u[n] \in Kept(row')
               /\ n < Len(u) => row'[u[n]].kind = "folder"
               /\ Len(row'[u[n]].path) = n
               /\ \A m \in 1..n : row'[u[n]].path[m] = u[m]
    <3>1. CASE n = Len(u)
      BY <1>4, <1>6, <1>8, <1>9, <3>1
    <3>2. CASE n # Len(u)
      BY <1>1, <1>4, <1>6, <1>7, <1>9, <2>1, <3>2
    <3> QED BY <3>1, <3>2
  <2>3. /\ Len(u) >= 1 /\ u[Len(u)] = i /\ row'[i].depth = Len(u) - 1
        /\ row'[i].parent = IF Len(u) = 1 THEN Root ELSE u[Len(u) - 1]
    <3>1. Len(u) >= 1 /\ u[Len(u)] = i /\ row'[i].depth = Len(u) - 1
      BY <1>4, <1>6, <1>7, <1>8
    <3>2. Len(s) # 0 => u[Len(s)] = s[Len(s)]
      BY <1>4, <1>6
    <3>3. Len(u) - 1 = Len(s) /\ (Len(u) = 1 <=> Len(s) = 0)
      BY <1>4, <1>6
    <3>4. row'[i].parent = IF Len(s) = 0 THEN Root ELSE s[Len(s)]
      BY <1>7, <1>8
    <3> QED BY <3>1, <3>2, <3>3, <3>4
  <2> QED BY <1>8, <2>2, <2>3 DEF Lineage
<1>13. Live(row')
  <2> SUFFICES ASSUME NEW j \in Kept(row'), row'[j].status = "active", NEW n \in 1..Len(row'[j].path)
               PROVE  row'[row'[j].path[n]].status = "active"
    BY DEF Live
  <2>1. CASE j = i
    <3>1. CASE n = Len(s) + 1
      BY <1>6, <1>8, <2>1, <3>1
    <3>2. CASE n # Len(s) + 1
      <4>1. n \in 1..Len(s)
        BY <1>4, <1>6, <1>8, <2>1, <3>2
      <4>2. row'[j].path[n] = s[n] /\ s[n] \in Rows /\ row[s[n]].status = "active"
        BY <1>1, <1>3, <1>6, <1>7, <1>8, <2>1, <4>1 DEF s, place
      <4> QED BY <1>10, <4>2
    <3> QED BY <3>1, <3>2
  <2>2. CASE j # i
    <3>1. j \in Rows
      BY <1>1, <1>9, <2>2
    <3>2. row'[j] = row[j] /\ row[j].path[n] \in Rows /\ row'[row[j].path[n]] = row[row[j].path[n]]
      BY <1>10, <3>1
    <3> QED BY <1>1, <3>1, <3>2 DEF Live
  <2> QED BY <2>1, <2>2
<1> QED BY <1>1, <1>9, <1>11, <1>12, <1>13 DEF IInv, Tidy

-----------------------------------------------------------------------------
(* The steps on rows that are there.                                       *)

\* UpdateNode changes a name only.
LEMMA RenameInv ==
    ASSUME IInv, NEW i \in Ids, NEW name \in Names, Rename(i, name)
    PROVE  IInv'
<1>1. /\ Tidy(row) /\ Live(row) /\ TypedRows(row) /\ i \in Rows /\ Kept(row) = Rows
      /\ call \in CallState /\ call' = call
  BY DEF IInv, Tidy, Rename, Rows, Active, Trashed, Kept
<1>2. PICK given \in Names, low \in Names : row' = [row EXCEPT ![i].name = given, ![i].lower = low]
  BY ResolvedType, FoldType DEF Rename
<1>3. row[i] \in Node
  BY <1>1, RowType
<1>4. /\ row'[i] = [row[i] EXCEPT !.name = given, !.lower = low]
      /\ \A j \in Ids : j # i => row'[j] = row[j]
  BY <1>1, <1>2 DEF TypedRows
<1>5. /\ row'[i] \in Node /\ row'[i].path = row[i].path /\ row'[i].depth = row[i].depth
      /\ row'[i].parent = row[i].parent /\ row'[i].kind = row[i].kind /\ row'[i].status = row[i].status
  BY <1>3, <1>4 DEF Node
<1>6. TypedRows(row')
  <2>1. \A j \in Ids : row'[j] \in Node \cup {NoNode}
    BY <1>1, <1>4, <1>5 DEF TypedRows
  <2>2. DOMAIN row' = Ids /\ row' = [j \in DOMAIN row' |-> row'[j]]
    BY <1>1, <1>2 DEF TypedRows
  <2> QED BY <2>1, <2>2 DEF TypedRows
<1>7. Kept(row') = Kept(row) /\ \A j \in Ids : row'[j].status = row[j].status /\ row'[j].path = row[j].path
  BY <1>4, <1>5 DEF Kept
<1>8. Tidy(row')
  <2>1. \A j \in Kept(row) : /\ row'[j].path = row[j].path /\ row'[j].depth = row[j].depth
                             /\ row'[j].parent = row[j].parent /\ row'[j].kind = row[j].kind
    BY <1>4, <1>5 DEF Kept
  <2> QED BY <1>1, <1>6, <1>7, <2>1, SameShape
<1>9. Live(row')
  <2>1. \A j \in Rows : \A n \in 1..Len(row[j].path) : row[j].path[n] \in Ids
    BY <1>1, Above
  <2> QED BY <1>1, <1>7, <2>1 DEF Live, Kept
<1> QED BY <1>1, <1>8, <1>9 DEF IInv

\* A node that is not put below itself goes with its subtree (relocate).
LEMMA MoveInv ==
    ASSUME IInv, NEW i \in Ids, NEW p \in Ids \cup {Root}, NEW name \in Names, MoveNode(i, p, name)
    PROVE  IInv'
<1> DEFINE place == PlaceOf(p)
           s == place.path
           old == Relocated(row, i, place)
<1>1. /\ Tidy(row) /\ Live(row) /\ TypedRows(row) /\ i \in Rows /\ Kept(row) = Rows
      /\ call \in CallState /\ call' = call /\ Writable(p)
      /\ ~(i \in Folders /\ IsPrefix(row[i].path, s))
  BY DEF IInv, Tidy, MoveNode, Rows, Active, Trashed, Kept
<1>2. PICK given \in Names, low \in Names : row' = [old EXCEPT ![i].name = given, ![i].lower = low]
  <2>1. row[i].name \in Names /\ old[i].lower \in Names /\ i \in Ids
    <3>1. GoodPlace(row, place) /\ i \in Subtree(i)
      BY <1>1, WritablePlace, SubtreeDown
    <3>2. old[i] \in Node
      BY <1>1, <3>1, MovedRow
    <3> QED BY <1>1, <3>2, RowType DEF Node
  <2> HIDE DEF place
  <2>2. PICK first \in Resolved(p, row[i].name, i) :
          \/ row' = [old EXCEPT ![i].name = first,
                                ![i].lower = IF first = row[i].name THEN @ ELSE Fold(first)]
          \/ \E given \in Resolved(p, name, i) :
                row' = [old EXCEPT ![i].name = given, ![i].lower = Lower[given]]
    BY DEF MoveNode, place
  <2> HIDE DEF old
  <2>3. first \in Names
    BY <2>1, <2>2, ResolvedType
  <2>4. CASE row' = [old EXCEPT ![i].name = first,
                                ![i].lower = IF first = row[i].name THEN @ ELSE Fold(first)]
    <3> DEFINE low == IF first = row[i].name THEN old[i].lower ELSE Fold(first)
    <3>1. low \in Names
      BY <2>1, <2>3, FoldType
    <3>2. row' = [old EXCEPT ![i].name = first, ![i].lower = low]
      BY <2>4
    <3> HIDE DEF low
    <3> QED BY <2>3, <3>1, <3>2
  <2>5. CASE \E given \in Resolved(p, name, i) :
                row' = [old EXCEPT ![i].name = given, ![i].lower = Lower[given]]
    BY <2>5, ResolvedType, FoldType
  <2> QED BY <2>2, <2>4, <2>5
<1>3. /\ GoodPlace(row, place) /\ place \in Place
      /\ \A n \in 1..Len(s) : row[s[n]].status = "active"
  BY <1>1, WritablePlace
<1>4. ASSUME NEW n \in 1..Len(s), s[n] = i PROVE FALSE
  <2>1. /\ row[i].kind = "folder" /\ Len(row[i].path) = n
        /\ \A m \in 1..n : row[i].path[m] = s[m]
    BY <1>3, <1>4 DEF GoodPlace
  <2>2. i \in Folders
    BY <1>1, <2>1 DEF Folders
  <2>3. s \in Seq(Ids) /\ Len(s) \in Nat /\ row[i].path \in Seq(Ids)
    BY <1>1, <1>3, RowType, LenProperties DEF GoodPlace
  <2> HIDE DEF s
  <2>4. IsPrefix(row[i].path, s)
    BY <2>1, <2>3, PrefixFromElements
  <2> QED BY <1>1, <2>2, <2>4
<1>5. /\ Tidy(old) /\ Kept(old) = Kept(row) /\ \A j \in Ids \ Subtree(i) : old[j] = row[j]
  BY <1>1, <1>3, <1>4, RelocatedTidy
<1>6. \A j \in Subtree(i) : MovedTo(i, place, j, old[j]) /\ old[j] \in Node
  BY <1>1, <1>3, MovedRow
<1>7. i \in Subtree(i) /\ Subtree(i) \subseteq Rows /\ Rows \subseteq Ids
  BY <1>1, SubtreeDown DEF Subtree, Under, Rows
<1> HIDE DEF old, place
<1>8. TypedRows(old)
  BY <1>5 DEF Tidy
<1>9. /\ row'[i] = [old[i] EXCEPT !.name = given, !.lower = low]
      /\ \A j \in Ids : j # i => row'[j] = old[j]
  BY <1>2, <1>8 DEF TypedRows
<1>10. /\ row'[i] \in Node /\ row'[i].path = old[i].path /\ row'[i].depth = old[i].depth
       /\ row'[i].parent = old[i].parent /\ row'[i].kind = old[i].kind /\ row'[i].status = old[i].status
  BY <1>6, <1>7, <1>9 DEF Node
<1>11. TypedRows(row')
  <2>1. \A j \in Ids : row'[j] \in Node \cup {NoNode}
    BY <1>8, <1>9, <1>10 DEF TypedRows
  <2>2. DOMAIN row' = Ids /\ row' = [j \in DOMAIN row' |-> row'[j]]
    BY <1>2, <1>8 DEF TypedRows
  <2> QED BY <2>1, <2>2 DEF TypedRows
<1>12. Kept(row') = Kept(old)
  BY <1>9, <1>10 DEF Kept
<1>13. Tidy(row')
  <2>1. \A j \in Kept(old) : /\ row'[j].path = old[j].path /\ row'[j].depth = old[j].depth
                             /\ row'[j].parent = old[j].parent /\ row'[j].kind = old[j].kind
    BY <1>9, <1>10 DEF Kept
  <2> QED BY <1>5, <1>11, <1>12, <2>1, SameShape
<1>14. Live(row')
  <2>1. ASSUME NEW j \in Subtree(i)
        PROVE  row'[j].path = old[j].path /\ row'[j].status = row[j].status /\ row'[j].status # "none"
    <3>1. row'[j].path = old[j].path /\ row'[j].status = old[j].status
      BY <1>7, <1>9, <1>10
    <3>2. old[j].status = row[j].status /\ row[j].status # "none"
      BY <1>1, <1>6, <1>7 DEF MovedTo, Rows
    <3> QED BY <3>1, <3>2
  <2>2. \A j \in Ids \ Subtree(i) : row'[j] = row[j]
    BY <1>5, <1>7, <1>9
  <2> QED BY <1>1, <1>4, <2>1, <2>2, RelocatedLive DEF old, place
<1> QED BY <1>1, <1>13, <1>14 DEF IInv

\* The subtree of a trashed node turns active below an active folder or the root, which
\* cannot be below that node (RestoreNodes).
LEMMA RestoreInv ==
    ASSUME IInv, NEW i \in Ids, NEW asked \in Ids \cup {Root}, RestoreNode(i, asked)
    PROVE  IInv'
<1> DEFINE target == IF asked # Root THEN asked ELSE row[i].orig
           p == IF target \in Rows THEN target ELSE Root
           place == PlaceOf(p)
           s == place.path
           old == Relocated(row, i, place)
<1>1. /\ Tidy(row) /\ Live(row) /\ TypedRows(row) /\ i \in Rows /\ row[i].status = "trashed"
      /\ Kept(row) = Rows /\ Rows \subseteq Ids
      /\ call \in CallState /\ call' = call /\ Writable(p)
  BY DEF IInv, Tidy, RestoreNode, Rows, Trashed, Kept
<1>2. PICK given \in Names :
         row' = [j \in Ids |->
                   IF j \in Subtree(i)
                   THEN [old[j] EXCEPT !.status = "active", !.orig = Root, !.old = FALSE,
                                       !.name = IF j = i THEN given ELSE @,
                                       !.lower = IF j = i /\ given # row[i].name THEN Lower[given] ELSE @]
                   ELSE row[j]]
  <2>1. Resolved(p, row[i].name, i) \subseteq Names
    BY <1>1, RowType, ResolvedType DEF Node
  <2> QED BY <2>1 DEF RestoreNode
<1>3. p \in Ids \cup {Root}
  BY <1>1
<1> HIDE DEF p
<1>4. /\ GoodPlace(row, place) /\ place \in Place
      /\ \A n \in 1..Len(s) : row[s[n]].status = "active"
  BY <1>1, <1>3, WritablePlace
<1>5. \A n \in 1..Len(s) : s[n] # i
  BY <1>1, <1>4
<1>6. /\ Tidy(old) /\ Kept(old) = Kept(row) /\ \A j \in Ids \ Subtree(i) : old[j] = row[j]
  BY <1>1, <1>4, <1>5, RelocatedTidy
<1>7. \A j \in Subtree(i) : MovedTo(i, place, j, old[j]) /\ old[j] \in Node
  BY <1>1, <1>4, MovedRow
<1>8. Subtree(i) \subseteq Rows
  BY DEF Subtree, Under
<1> HIDE DEF old, place
<1>9. ASSUME NEW j \in Subtree(i)
      PROVE  /\ row'[j] \in Node /\ row'[j].path = old[j].path /\ row'[j].depth = old[j].depth
             /\ row'[j].parent = old[j].parent /\ row'[j].kind = old[j].kind
             /\ row'[j].status = "active"
  <2>1. PICK name \in Names, low \in Names :
           row'[j] = [old[j] EXCEPT !.status = "active", !.orig = Root, !.old = FALSE, !.name = name, !.lower = low]
    <3>1. old[j].name \in Names /\ old[j].lower \in Names /\ Lower[given] \in Names /\ j \in Ids
      BY <1>1, <1>7, <1>8, FoldType DEF Node
    <3> QED BY <1>2, <3>1
  <2> QED BY <1>7, <2>1 DEF Node
<1>10. \A j \in Ids \ Subtree(i) : row'[j] = row[j] /\ row'[j] = old[j]
  BY <1>2, <1>6
<1>11. TypedRows(row')
  <2>1. \A j \in Ids : row'[j] \in Node \cup {NoNode}
    BY <1>1, <1>9, <1>10 DEF TypedRows
  <2>2. row' = [j \in Ids |-> row'[j]]
    BY <1>2
  <2> QED BY <2>1, <2>2 DEF TypedRows
<1>12. Kept(row') = Kept(old)
  <2>1. \A j \in Subtree(i) : old[j].status # "none"
    BY <1>7 DEF Node
  <2> QED BY <1>9, <1>10, <2>1 DEF Kept
<1>13. Tidy(row')
  <2>1. \A j \in Kept(old) : /\ row'[j].path = old[j].path /\ row'[j].depth = old[j].depth
                             /\ row'[j].parent = old[j].parent /\ row'[j].kind = old[j].kind
    BY <1>9, <1>10 DEF Kept
  <2> QED BY <1>6, <1>11, <1>12, <2>1, SameShape
<1>14. Live(row')
  <2>1. \A j \in Subtree(i) : row'[j].path = old[j].path /\ row'[j].status # "none"
    BY <1>9
  <2> QED BY <1>1, <1>3, <1>5, <1>9, <1>10, <2>1, RelocatedLive DEF old, place
<1> QED BY <1>1, <1>13, <1>14 DEF IInv

\* DeleteNodes trashes a whole subtree.
LEMMA TrashInv ==
    ASSUME IInv, NEW i \in Ids, TrashNode(i)
    PROVE  IInv'
<1>1. Tidy(row) /\ Live(row) /\ i \in Rows /\ call \in CallState /\ call' = call /\ row[i] \in Node
  BY RowType DEF IInv, Tidy, TrashNode, Rows, Active, Trashed, Kept
<1>2. DownClosed(Subtree(i))
  BY <1>1, SubtreeDown
<1>3. row[i].parent \in Ids \cup {Root}
  BY <1>1 DEF Node
<1>4. row' = [j \in Ids |-> IF j \in Subtree(i)
                            THEN [row[j] EXCEPT !.status = "trashed", !.orig = row[i].parent, !.old = FALSE]
                            ELSE row[j]]
  BY DEF TrashNode, TrashedFrom
<1>5. Tidy(row') /\ Live(row')
  BY <1>1, <1>2, <1>3, <1>4, SetTrashed
<1> QED BY <1>1, <1>5 DEF IInv

\* TrashAllForOwner trashes whatever is live.
LEMMA TrashAllInv ==
    ASSUME IInv, TrashAll
    PROVE  IInv'
<1> DEFINE tops == { i \in Active : row[i].parent = Root }
           all  == UNION { Subtree(i) : i \in tops }
<1>1. Tidy(row) /\ Live(row) /\ call \in CallState /\ call' = call /\ Root \in Ids \cup {Root}
  BY DEF IInv, TrashAll
<1>2. \A i \in tops : DownClosed(Subtree(i))
  BY <1>1, SubtreeDown DEF Active, Rows
<1>3. DownClosed(all)
  BY <1>2 DEF DownClosed
<1>4. row' = [j \in Ids |-> IF j \in all
                            THEN [row[j] EXCEPT !.status = "trashed", !.orig = Root, !.old = FALSE]
                            ELSE row[j]]
  BY DEF TrashAll
<1> HIDE DEF all
<1>5. Tidy(row') /\ Live(row')
  BY <1>1, <1>3, <1>4, SetTrashed
<1> QED BY <1>1, <1>5 DEF IInv

\* Time that passes marks trashed rows as old.
LEMMA AgeInv ==
    ASSUME IInv, Age
    PROVE  IInv'
<1>1. /\ Tidy(row) /\ Live(row) /\ TypedRows(row) /\ call \in CallState /\ call' = call
      /\ row' = [i \in Ids |-> IF i \in Trashed THEN [row[i] EXCEPT !.old = TRUE] ELSE row[i]]
  BY DEF IInv, Tidy, Age
<1>2. \A j \in Trashed : j \in Ids /\ row[j] \in Node
  BY <1>1, RowType DEF Trashed, Kept
<1>3. \A j \in Ids : /\ row'[j].path = row[j].path /\ row'[j].depth = row[j].depth
                     /\ row'[j].parent = row[j].parent /\ row'[j].kind = row[j].kind
                     /\ row'[j].status = row[j].status /\ row'[j] \in Node \cup {NoNode}
  <2> SUFFICES ASSUME NEW j \in Ids
               PROVE  /\ row'[j].path = row[j].path /\ row'[j].depth = row[j].depth
                      /\ row'[j].parent = row[j].parent /\ row'[j].kind = row[j].kind
                      /\ row'[j].status = row[j].status /\ row'[j] \in Node \cup {NoNode}
    OBVIOUS
  <2>1. CASE j \in Trashed
    <3>1. row'[j] = [row[j] EXCEPT !.old = TRUE] /\ row[j] \in Node
      BY <1>1, <1>2, <2>1
    <3> QED BY <3>1 DEF Node
  <2>2. CASE j \notin Trashed
    BY <1>1, <2>2 DEF TypedRows
  <2> QED BY <2>1, <2>2
<1>4. TypedRows(row') /\ Kept(row') = Kept(row)
  BY <1>1, <1>3 DEF TypedRows, Kept
<1>5. Tidy(row')
  BY <1>1, <1>3, <1>4, SameShape DEF Kept
<1>6. Live(row')
  <2>1. \A j \in Kept(row) : \A n \in 1..Len(row[j].path) : row[j].path[n] \in Ids
    BY <1>1, Above
  <2> QED BY <1>1, <1>3, <1>4, <2>1 DEF Live, Kept
<1> QED BY <1>1, <1>5, <1>6 DEF IInv

-----------------------------------------------------------------------------
(* Permanent delete.                                                       *)

\* A page that holds every row leaves nothing out (PurgeNodes, ListDescendants).
LEMMA PageIsAll ==
    ASSUME WholePages, NEW X, X \subseteq Ids
    PROVE  Page(X) = X
<1> SUFFICES ASSUME NEW i \in X PROVE Cardinality({ j \in X : j < i }) < PageSize
  BY DEF Page
<1> DEFINE Y == { j \in X : j < i }
<1>1. MaxId \in Nat /\ PageSize \in Nat /\ PageSize >= MaxId /\ i \in 1..MaxId
  BY TreeConstants DEF WholePages, Ids
<1>2. Y \subseteq (1..MaxId) \ {i}
  <2> SUFFICES ASSUME NEW j \in X, j < i PROVE j \in 1..MaxId /\ j # i
    OBVIOUS
  <2>1. j \in 1..MaxId
    BY DEF Ids
  <2> QED BY <1>1, <2>1
<1>3. IsFiniteSet(1..MaxId) /\ Cardinality(1..MaxId) = MaxId
  BY <1>1, FS_Interval
<1>4. /\ IsFiniteSet((1..MaxId) \ {i})
      /\ Cardinality((1..MaxId) \ {i}) = MaxId - 1
  BY <1>1, <1>3, FS_RemoveElement
<1> HIDE DEF Y
<1>5. IsFiniteSet(Y) /\ Cardinality(Y) <= MaxId - 1
  BY <1>2, <1>4, FS_Subset
<1>6. Cardinality(Y) \in Nat
  BY <1>5, FS_CardinalityType
<1>7. Cardinality(Y) < PageSize
  BY <1>1, <1>5, <1>6
<1> QED BY <1>7 DEF Y

\* What a batch removes is, page by page, the union of the subtrees it names.
LEMMA RemovedIsSubtrees ==
    ASSUME WholePages, NEW S, S \subseteq Rows, NEW n \in 0..MaxId
    PROVE  RemovedBefore(S)[n] = UNION { Subtree(m) : m \in S \cap (1..n) }
<1> DEFINE Step(g) == [k \in 0..MaxId |->
                         IF k = 0 THEN {}
                         ELSE g[k - 1] \cup (IF k \in S THEN Page(Subtree(k) \ g[k - 1]) ELSE {})]
           W == [k \in 0..MaxId |-> UNION { Subtree(m) : m \in S \cap (1..k) }]
           R == RemovedBefore(S)
<1>1. MaxId \in Nat /\ Rows \subseteq Ids
  BY TreeConstants DEF Rows
<1>2. \A k \in Rows : Subtree(k) \subseteq Ids
  BY <1>1 DEF Subtree, Under
<1>3. W = Step(W)
  <2>1. ASSUME NEW k \in 0..MaxId, k # 0
        PROVE  W[k] = W[k - 1] \cup (IF k \in S THEN Page(Subtree(k) \ W[k - 1]) ELSE {})
    <3>1. k - 1 \in 0..MaxId /\ 1..k = (1..(k - 1)) \cup {k}
      BY <1>1, <2>1
    <3>2. CASE k \in S
      <4>1. Page(Subtree(k) \ W[k - 1]) = Subtree(k) \ W[k - 1]
        <5>1. Subtree(k) \ W[k - 1] \subseteq Ids
          BY <1>2, <3>2
        <5> HIDE DEF W
        <5> QED BY <5>1, PageIsAll
      <4>2. S \cap (1..k) = (S \cap (1..(k - 1))) \cup {k}
        BY <3>1, <3>2
      <4>3. W[k] = UNION { Subtree(m) : m \in S \cap (1..k) } /\ W[k - 1] = UNION { Subtree(m) : m \in S \cap (1..(k - 1)) }
        BY <3>1
      <4>4. W[k] = W[k - 1] \cup Subtree(k)
        <5> HIDE DEF W
        <5> QED BY <4>2, <4>3
      <4> HIDE DEF W
      <4> QED BY <3>2, <4>1, <4>4
    <3>3. CASE k \notin S
      <4>1. S \cap (1..k) = S \cap (1..(k - 1))
        BY <3>1, <3>3
      <4>2. W[k] = W[k - 1]
        BY <3>1, <4>1
      <4> HIDE DEF W
      <4> QED BY <3>3, <4>2
    <3> QED BY <3>2, <3>3
  <2>2. W[0] = {}
    BY <1>1
  <2>3. W = [k \in 0..MaxId |-> W[k]]
    OBVIOUS
  <2> HIDE DEF W
  <2>4. \A k \in 0..MaxId : W[k] = Step(W)[k]
    BY <2>1, <2>2
  <2> QED BY <2>3, <2>4
<1>4. R = CHOOSE g : g = Step(g)
  BY DEF RemovedBefore
<1>5. R = Step(R)
  <2> HIDE DEF Step, W, R
  <2> QED BY <1>3, <1>4
\* The greatest number up to which the two agree is the last one.
<1> DEFINE D == { k \in 0..MaxId : \A m \in 0..k : R[m] = W[m] }
<1>6. W[0] = {} /\ R[0] = {}
  <2>1. W[0] = Step(W)[0] /\ R[0] = Step(R)[0]
    BY <1>3, <1>5
  <2> HIDE DEF W, R
  <2> QED BY <1>1, <2>1
<1> HIDE DEF W, R
<1>7. IsFiniteSet(D) /\ D \subseteq Int /\ D # {}
  <2>1. 0 \in D
    BY <1>1, <1>6
  <2>2. D \subseteq 0..MaxId
    OBVIOUS
  <2>3. IsFiniteSet(0..MaxId)
    BY <1>1, FS_Interval
  <2> HIDE DEF D
  <2>4. IsFiniteSet(D)
    BY <2>2, <2>3, FS_Subset
  <2>5. 0..MaxId \subseteq Int
    BY <1>1
  <2> QED BY <2>1, <2>2, <2>4, <2>5
<1>8. PICK d \in D : \A k \in D : d >= k
  BY <1>7, MaxExists
<1>9. CASE d = MaxId
  <2>1. n \in 0..d
    BY <1>9
  <2>2. R[n] = W[n]
    BY <1>8, <2>1
  <2>3. W[n] = UNION { Subtree(m) : m \in S \cap (1..n) }
    BY DEF W
  <2> QED BY <2>2, <2>3 DEF R
<1>10. CASE d # MaxId
  <2>1. d + 1 \in 0..MaxId /\ d + 1 # 0 /\ (d + 1) - 1 = d /\ d \in 0..MaxId /\ R[d] = W[d]
    BY <1>1, <1>8, <1>10
  <2>2. Step(R)[d + 1] = Step(W)[d + 1]
    BY <2>1
  <2>3. R[d + 1] = W[d + 1]
    <3> HIDE DEF Step
    <3> QED BY <1>3, <1>5, <2>2
  <2>4. d + 1 \in D
    <3>1. ASSUME NEW m \in 0..(d + 1) PROVE R[m] = W[m]
      BY <1>1, <1>8, <2>1, <2>3
    <3> QED BY <2>1, <3>1
  <2> QED BY <1>1, <1>8, <2>1, <2>4
<1> QED BY <1>9, <1>10

\* A batch of PurgeNodes removes whole subtrees.
LEMMA PurgeNodesTidy ==
    ASSUME WholePages, Tidy(row), Live(row), NEW S, S \subseteq Trashed, PurgeNodes(S)
    PROVE  Tidy(row') /\ Live(row')
<1> DEFINE gone == RemovedBefore(S)[MaxId]
<1>1. S \subseteq Rows /\ MaxId \in 0..MaxId
  BY TreeConstants DEF Trashed, Rows
<1>2. gone = UNION { Subtree(m) : m \in S \cap (1..MaxId) }
  BY <1>1, RemovedIsSubtrees
<1>3. DownClosed(gone)
  <2>1. \A m \in S : DownClosed(Subtree(m))
    BY <1>1, SubtreeDown
  <2> HIDE DEF gone
  <2> QED BY <1>2, <2>1 DEF DownClosed
<1> HIDE DEF gone
<1>4. CASE row' = [i \in Ids |-> IF i \in gone THEN NoNode ELSE row[i]]
  BY <1>3, <1>4, SetRemoved
<1>5. CASE UNCHANGED row
  BY <1>5
<1> QED BY <1>4, <1>5 DEF PurgeNodes, gone

\* A permanent delete of one node removes its subtree.
LEMMA PurgeInv ==
    ASSUME IInv, WholePages, (\E i \in Ids : PurgeNode(i)) \/ PurgeListed
    PROVE  IInv'
<1>1. Tidy(row) /\ Live(row) /\ call \in CallState /\ IdleCall \in CallState
  BY EmptySeq DEF IInv, IdleCall, CallState, RootPlace, Place
<1>2. CASE \E i \in Ids : PurgeNode(i)
  <2>1. PICK i \in Ids : PurgeNode(i)
    BY <1>2
  <2>2. {i} \subseteq Trashed /\ PurgeNodes({i}) /\ call' = call
    BY <2>1 DEF PurgeNode
  <2> QED BY <1>1, <2>2, PurgeNodesTidy DEF IInv
<1>3. CASE PurgeListed
  <2>1. PurgeNodes(call.ids) /\ call' = IdleCall
    BY <1>3 DEF PurgeListed
  <2>2. CASE call.ids \subseteq Trashed
    BY <1>1, <2>1, <2>2, PurgeNodesTidy DEF IInv
  <2>3. CASE ~(call.ids \subseteq Trashed)
    BY <1>1, <2>1, <2>3 DEF IInv, PurgeNodes, Purgeable
  <2> QED BY <2>2, <2>3
<1> QED BY <1>2, <1>3

-----------------------------------------------------------------------------
(* Copies.                                                                 *)

\* The id of the copy of j when the nodes of N are copied: ascending, from the next one on.
CopyId(N, j) == NextId + Cardinality({ k \in N : k < j })

\* Different nodes get different new ids, as many as there are nodes.
LEMMA CopyIdsNew ==
    ASSUME Tidy(row), call \in CallState, NEW N, N \subseteq Rows,
           NextId + Cardinality(N) - 1 <= MaxId
    PROVE  /\ \A j \in N : CopyId(N, j) \in Ids \ Rows
           /\ \A j \in N, k \in N : CopyId(N, j) = CopyId(N, k) => j = k
<1> DEFINE Less(j) == { k \in N : k < j }
<1>1. MaxId \in Nat /\ N \subseteq Ids /\ Ids = 1..MaxId /\ Rows \subseteq Ids
  BY TreeConstants DEF Rows, Ids
<1>2. IsFiniteSet(N) /\ Cardinality(N) \in Nat
  <2>1. IsFiniteSet(1..MaxId)
    BY <1>1, FS_Interval
  <2>2. IsFiniteSet(N)
    BY <1>1, <2>1, FS_Subset
  <2> QED BY <2>2, FS_CardinalityType
<1>3. NextId \in Nat /\ NextId >= 1 /\ \A i \in Rows : i < NextId
  BY NextIdFresh
<1>4. ASSUME NEW j \in N PROVE IsFiniteSet(Less(j)) /\ Cardinality(Less(j)) \in Nat
  <2>1. Less(j) \subseteq N
    OBVIOUS
  <2> HIDE DEF Less
  <2>2. IsFiniteSet(Less(j))
    BY <1>2, <2>1, FS_Subset
  <2> QED BY <2>2, FS_CardinalityType
<1>5. ASSUME NEW j \in N, NEW B, Less(j) \cup {j} \subseteq B, B \subseteq N
      PROVE  Cardinality(Less(j)) < Cardinality(B)
  <2>1. j \notin Less(j) /\ Less(j) \subseteq B /\ j \in B
    BY <1>1, <1>5
  <2> HIDE DEF Less
  <2>2. IsFiniteSet(B)
    BY <1>2, <1>5, FS_Subset
  <2>3. Cardinality(B) \in Nat
    BY <2>2, FS_CardinalityType
  <2>4. Cardinality(Less(j)) <= Cardinality(B) /\ Cardinality(Less(j)) # Cardinality(B)
    BY <2>1, <2>2, FS_Subset
  <2> QED BY <1>4, <2>3, <2>4
<1>6. ASSUME NEW j \in N, NEW k \in N, j < k PROVE Cardinality(Less(j)) < Cardinality(Less(k))
  <2>1. Less(j) \cup {j} \subseteq Less(k)
    <3>1. \A x \in N : x < j => x < k
      BY <1>1, <1>6
    <3> QED BY <1>6, <3>1
  <2>2. Less(k) \subseteq N
    OBVIOUS
  <2> HIDE DEF Less
  <2> QED BY <1>5, <2>1, <2>2
<1>7. ASSUME NEW j \in N PROVE Cardinality(Less(j)) < Cardinality(N)
  <2>1. Less(j) \cup {j} \subseteq N
    OBVIOUS
  <2> HIDE DEF Less
  <2> QED BY <1>5, <2>1
<1>8. \A j \in N : CopyId(N, j) = NextId + Cardinality(Less(j))
  BY DEF CopyId
<1> HIDE DEF Less
<1>9. ASSUME NEW j \in N PROVE CopyId(N, j) \in Ids \ Rows
  <2>1. CopyId(N, j) \in Nat /\ CopyId(N, j) >= NextId /\ CopyId(N, j) <= MaxId
    BY <1>1, <1>2, <1>3, <1>4, <1>7, <1>8
  <2>2. CopyId(N, j) \notin Rows
    BY <1>1, <1>3, <2>1
  <2> QED BY <1>1, <1>3, <2>1, <2>2
<1>10. ASSUME NEW j \in N, NEW k \in N, CopyId(N, j) = CopyId(N, k) PROVE j = k
  <2>1. Cardinality(Less(j)) = Cardinality(Less(k))
    BY <1>3, <1>4, <1>8, <1>10
  <2>2. ~(j < k) /\ ~(k < j)
    BY <1>4, <1>6, <2>1
  <2> QED BY <1>1, <2>2
<1> QED BY <1>9, <1>10

\* A path that continues one with the ids of another (copyTree).
LEMMA ContinuedPath ==
    ASSUME NEW s \in Seq(Ids), NEW a \in Ids, NEW d \in Nat, NEW q \in [1..d -> Ids]
    PROVE  Continues(Graft(s, a, q), s, a, d, q)
<1> DEFINE b == Append(s, a)
<1>1. q \in Seq(Ids) /\ Len(s) \in Nat
  BY SeqDef, LenProperties
<1>2. Len(q) = d
  <2>1. DOMAIN q = 1..d /\ DOMAIN q = 1..Len(q) /\ Len(q) \in Nat
    BY <1>1, LenProperties
  <2> QED BY <2>1
<1>3. /\ b \in Seq(Ids) /\ Len(b) = Len(s) + 1 /\ b[Len(s) + 1] = a
      /\ \A n \in 1..Len(s) : b[n] = s[n]
  BY <1>1, AppendProperties
<1> HIDE DEF b
<1>4. /\ b \o q \in Seq(Ids) /\ Len(b \o q) = Len(b) + Len(q)
      /\ \A n \in 1..Len(b) + Len(q) : (b \o q)[n] = IF n <= Len(b) THEN b[n] ELSE q[n - Len(b)]
  BY <1>1, <1>3, ConcatProperties
<1>5. \A n \in 1..Len(s) : (b \o q)[n] = s[n]
  BY <1>1, <1>2, <1>3, <1>4
<1>6. (b \o q)[Len(s) + 1] = a
  BY <1>1, <1>2, <1>3, <1>4
<1>7. ASSUME NEW k \in 1..d PROVE (b \o q)[Len(s) + 1 + k] = q[k]
  <2>1. /\ Len(s) + 1 + k \in 1..Len(b) + Len(q) /\ ~(Len(s) + 1 + k <= Len(b))
        /\ (Len(s) + 1 + k) - Len(b) = k
    BY <1>1, <1>2, <1>3
  <2> QED BY <1>4, <2>1
<1> QED BY <1>2, <1>3, <1>4, <1>5, <1>6, <1>7 DEF b, Graft, Continues

\* What a copy visits: the top and active nodes, each with everything between it and the top.
LEMMA VisitedClosed ==
    ASSUME Tidy(row), NEW i \in Rows
    PROVE  /\ i \in Visited(i) /\ Visited(i) \subseteq Subtree(i) /\ Visited(i) \ {i} \subseteq Active
           /\ \A j \in Visited(i) : \A n \in Len(row[i].path)..Len(row[j].path) :
                 row[j].path[n] \in Visited(i)
<1> DEFINE l == Len(row[i].path)
           listed == UNION { Page({ j \in Active : row[j].parent = k }) : k \in Rows }
<1>1. Kept(row) = Rows /\ Rows \subseteq Ids /\ Subtree(i) \subseteq Rows /\ TypedRows(row)
  BY DEF Rows, Kept, Subtree, Under, Tidy
<1>2. i \in Subtree(i) /\ listed \subseteq Active
  BY <1>1, SubtreeDown DEF Page
<1> HIDE DEF listed
<1>3. Visited(i) = { j \in Subtree(i) : j = i \/ \A k \in ToSet(row[j].path) \ ToSet(row[i].path) : k \in listed }
  BY DEF Visited, listed
<1>4. \A j \in Rows : row[j].path \in Seq(Ids) /\ Len(row[j].path) \in Nat /\ DOMAIN row[j].path = 1..Len(row[j].path)
  BY <1>1, RowType, LenProperties
<1>5. ASSUME NEW j \in Visited(i), j # i PROVE j \in Active
  <2>1. j \in Subtree(i) /\ j \in Rows /\ j \in Ids
    BY <1>1, <1>3
  <2>2. Lineage(row, j) /\ Lineage(row, i) /\ l <= Len(row[j].path)
    BY <1>1, <2>1, SubtreeIs DEF Tidy
  <2>3. j \in ToSet(row[j].path)
    BY <1>4, <2>1, <2>2 DEF ToSet, Lineage
  <2>4. ASSUME j \in ToSet(row[i].path) PROVE FALSE
    <3>1. PICK m \in 1..l : row[i].path[m] = j
      BY <1>1, <1>4, <2>4 DEF ToSet
    <3>2. Len(row[j].path) = m
      BY <1>1, <3>1, Above
    <3>3. m = l
      BY <1>1, <1>4, <2>2, <3>1, <3>2
    <3> QED BY <1>5, <2>2, <3>1, <3>3 DEF Lineage
  <2> QED BY <1>2, <1>3, <1>5, <2>3, <2>4
<1>6. ASSUME NEW j \in Visited(i), NEW n \in l..Len(row[j].path)
      PROVE  row[j].path[n] \in Visited(i)
  <2> DEFINE a == row[j].path[n]
  <2>1. j \in Subtree(i) /\ j \in Rows
    BY <1>1, <1>3
  <2>2. l >= 1 /\ l \in Nat /\ Len(row[j].path) \in Nat /\ row[i].path[l] = i
    BY <1>1, <1>4, <2>1 DEF Tidy, Lineage
  <2>3. n \in 1..Len(row[j].path)
    BY <2>2
  <2>4. a \in Subtree(i) /\ a \in Rows
    BY <1>1, <2>1, <2>3, SubtreeClosed
  <2>5. Len(row[a].path) = n /\ \A m \in 1..n : row[a].path[m] = row[j].path[m]
    BY <1>1, <2>1, <2>3, Above
  <2> HIDE DEF a
  <2>6. CASE j = i
    <3>1. n = l
      BY <2>2, <2>6
    <3> QED BY <1>2, <1>3, <2>2, <2>6, <3>1
  <2>7. CASE j # i
    <3>1. ToSet(row[a].path) \subseteq ToSet(row[j].path)
      <4>1. \A m \in 1..n : m \in 1..Len(row[j].path)
        BY <2>2, <2>3
      <4> QED BY <1>4, <2>1, <2>4, <2>5, <4>1 DEF ToSet
    <3> QED BY <1>3, <2>4, <2>7, <3>1 DEF a
  <2> QED BY <2>6, <2>7
<1> QED BY <1>1, <1>2, <1>3, <1>5, <1>6

\* The row of the copy of j, when c gives the new ids.
BelowTop(i, j) == SubSeq(row[j].path, Len(row[i].path) + 1, Len(row[j].path))
CopyOf(i, place, c, j, name) ==
    [row[j] EXCEPT !.status = "active", !.name = name, !.lower = Lower[name], !.orig = Root, !.old = FALSE,
        !.parent = IF j = i THEN place.id ELSE c[row[j].parent],
        !.path = ChildPath(place, c[i]) \o [n \in DOMAIN BelowTop(i, j) |-> c[BelowTop(i, j)[n]]],
        !.depth = place.depth + 1 + Len(BelowTop(i, j))]

\* What the path of a node has after the top of its subtree.
LEMMA BelowTopIs ==
    ASSUME Tidy(row), NEW i \in Rows, NEW j \in Subtree(i)
    PROVE  LET b == BelowTop(i, j)
               l == Len(row[i].path)
               d == Len(row[j].path) - l
           IN  b \in Seq(Ids) /\ Len(b) = d /\ DOMAIN b = 1..d /\ \A k \in 1..d : b[k] = row[j].path[l + k]
<1> DEFINE l == Len(row[i].path)
           t == row[j].path
           b == BelowTop(i, j)
           d == Len(t) - l
<1>1. Kept(row) = Rows /\ TypedRows(row) /\ j \in Rows /\ Rows \subseteq Ids
  BY DEF Rows, Kept, Tidy, Subtree, Under
<1>2. t \in Seq(Ids) /\ Len(t) \in Nat /\ l \in Nat /\ l >= 1 /\ l <= Len(t)
  BY <1>1, RowType, SubtreeIs DEF Tidy, Lineage
<1> HIDE DEF t, l
<1>3. \A m \in (l + 1)..Len(t) : t[m] \in Ids
  <2>1. \A m \in (l + 1)..Len(t) : m \in 1..Len(t)
    BY <1>2
  <2> QED BY <1>2, <2>1, ElementOfSeq
<1>4. b = SubSeq(t, l + 1, Len(t))
  BY DEF BelowTop, t, l
<1> HIDE DEF b, d
<1>5. l + 1 \in Int /\ Len(t) \in Int
  BY <1>2
<1>6. /\ b \in Seq(Ids)
      /\ Len(b) = IF l + 1 <= Len(t) THEN Len(t) - (l + 1) + 1 ELSE 0
      /\ \A k \in 1..(Len(t) - (l + 1) + 1) : b[k] = t[(l + 1) + k - 1]
  <2> DEFINE m == l + 1
             n == Len(t)
  <2>1. m \in Int /\ n \in Int /\ b = SubSeq(t, m, n) /\ \A k \in m..n : t[k] \in Ids
    BY <1>3, <1>4, <1>5
  <2> HIDE DEF m, n
  <2>2. /\ SubSeq(t, m, n) \in Seq(Ids)
        /\ Len(SubSeq(t, m, n)) = IF m <= n THEN n - m + 1 ELSE 0
        /\ \A k \in 1..n - m + 1 : SubSeq(t, m, n)[k] = t[m + k - 1]
    BY <2>1, SubSeqProperties
  <2> QED BY <2>1, <2>2 DEF m, n
<1>7. Len(b) = d
  <2>1. Len(b) = IF l + 1 <= Len(t) THEN Len(t) - (l + 1) + 1 ELSE 0
    BY <1>6
  <2>2. (IF l + 1 <= Len(t) THEN Len(t) - (l + 1) + 1 ELSE 0) = Len(t) - l
    BY <1>2
  <2> QED BY <2>1, <2>2 DEF d
<1>8. ASSUME NEW k \in 1..d PROVE b[k] = t[l + k]
  <2>1. k \in 1..(Len(t) - (l + 1) + 1) /\ (l + 1) + k - 1 = l + k
    BY <1>2 DEF d
  <2> QED BY <1>6, <2>1
<1>9. DOMAIN b = 1..d
  BY <1>6, <1>7, LenProperties
<1> QED BY <1>6, <1>7, <1>8, <1>9 DEF b, d, t, l

\* It is grafted onto the place.
LEMMA CopiedRow ==
    ASSUME Tidy(row), NEW i \in Rows, NEW place, GoodPlace(row, place),
           NEW N, N \subseteq Subtree(i), i \in N,
           NEW c, \A k \in N : c[k] \in Ids,
           NEW j \in N,
           \A n \in Len(row[i].path)..Len(row[j].path) : row[j].path[n] \in N,
           NEW name \in Names
    PROVE  /\ Grafted(i, place, c, j, CopyOf(i, place, c, j, name))
           /\ CopyOf(i, place, c, j, name) \in Node
           /\ CopyOf(i, place, c, j, name).status = "active"
<1> DEFINE s == place.path
           l == Len(row[i].path)
           t == row[j].path
           b == BelowTop(i, j)
           d == Len(t) - l
           q == [n \in DOMAIN b |-> c[b[n]]]
           u == Graft(s, c[i], q)
           new == CopyOf(i, place, c, j, name)
           parent == IF j = i THEN place.id ELSE c[row[j].parent]
           depth == place.depth + 1 + Len(b)
<1>1. Kept(row) = Rows /\ TypedRows(row) /\ i \in Ids /\ j \in Rows /\ j \in Ids /\ j \in Subtree(i)
  BY DEF Rows, Kept, Tidy, Subtree, Under
<1>2. /\ s \in Seq(Ids) /\ Len(s) \in Nat /\ place.depth = Len(s) - 1
      /\ place.id = IF Len(s) = 0 THEN Root ELSE s[Len(s)]
      /\ t \in Seq(Ids) /\ Len(t) \in Nat /\ l \in Nat /\ l >= 1
  BY <1>1, RowType, LenProperties DEF GoodPlace, Tidy, Lineage
<1>3. l <= Len(t) /\ d \in Nat
  BY <1>1, <1>2, SubtreeIs
<1>4. row[j] \in Node
  BY <1>1, RowType
<1>5. b \in Seq(Ids) /\ Len(b) = d /\ DOMAIN b = 1..d /\ \A k \in 1..d : b[k] = t[l + k]
  BY <1>1, BelowTopIs
<1>6. q = [k \in 1..d |-> c[b[k]]]
  <2> HIDE DEF b, d
  <2> QED BY <1>5
<1>7. \A k \in 1..d : t[l + k] \in N /\ l + k \in l..Len(t)
  <2>1. ASSUME NEW k \in 1..d PROVE l + k \in l..Len(t)
    <3> HIDE DEF t, l
    <3> QED BY <1>2, <1>3
  <2> QED BY <2>1
<1>8. j # i => row[j].parent \in N /\ c[row[j].parent] \in Ids
  BY <1>1, ParentInSubtree
<1>9. c[i] \in Ids
  OBVIOUS
<1> HIDE DEF s, l, t, b, d, q
<1>10. q \in [1..d -> Ids] /\ \A k \in 1..d : q[k] = c[t[l + k]]
  BY <1>5, <1>6, <1>7
<1>11. /\ u \in Seq(Ids) /\ Len(u) = Len(s) + 1 + d
       /\ \A n \in 1..Len(s) : u[n] = s[n]
       /\ u[Len(s) + 1] = c[i]
       /\ \A k \in 1..d : u[Len(s) + 1 + k] = q[k]
  <2>1. s \in Seq(Ids) /\ c[i] \in Ids /\ d \in Nat /\ q \in [1..d -> Ids]
    BY <1>2, <1>3, <1>9, <1>10
  <2> HIDE DEF u
  <2>2. u = Graft(s, c[i], q)
    BY DEF u
  <2>3. Continues(u, s, c[i], d, q)
    BY <2>1, <2>2, ContinuedPath
  <2> QED BY <2>3 DEF Continues
<1>12. parent \in Ids \cup {Root}
  <2>1. place.id \in Ids \cup {Root}
    BY <1>2, ElementOfSeq
  <2> QED BY <1>8, <2>1
<1>13. depth = Len(u) - 1 /\ depth \in Nat
  <2> HIDE DEF u
  <2> QED BY <1>2, <1>3, <1>5, <1>11
<1>14. new = [row[j] EXCEPT !.status = "active", !.name = name, !.lower = Lower[name], !.orig = Root,
                            !.old = FALSE, !.parent = parent, !.path = u, !.depth = depth]
  BY DEF CopyOf, ChildPath, Graft, s, b, q
<1> HIDE DEF u, parent, depth, new
<1>15. /\ new \in Node /\ new.path = u /\ new.depth = depth /\ new.parent = parent
       /\ new.kind = row[j].kind /\ new.status = "active"
  BY <1>4, <1>11, <1>12, <1>13, <1>14, FoldType DEF Node
<1>16. Grafted(i, place, c, j, new)
  BY <1>10, <1>11, <1>13, <1>15 DEF Grafted, parent, s, t, l, d
<1> QED BY <1>15, <1>16 DEF new

\* Every node of N has its copy under the id c gives, and no other row changes.
CopiesTo(i, N, c, given) ==
    /\ \A j \in N : row'[c[j]] = CopyOf(i, call.place, c, j, given[j])
    /\ \A n \in Ids : (\A j \in N : c[j] # n) => row'[n] = row[n]
    /\ row' = [n \in Ids |-> row'[n]]

\* copyTree copies what it visits under fresh ids.
LEMMA CopiedRows ==
    ASSUME Tidy(row), call \in CallState, NEW i \in Ids, NEW name \in Names, CopyNode(i, name)
    PROVE  LET N == Visited(i)
               c == [j \in N |-> CopyId(N, j)]
           IN  /\ \A j \in N : c[j] \in Ids \ Rows
               /\ \A j \in N, k \in N : c[j] = c[k] => j = k
               /\ \E given \in CopyNames(i, N, call.place, name) : CopiesTo(i, N, c, given)
<1> DEFINE place == call.place
           N == Visited(i)
           l == Len(row[i].path)
           c == [j \in N |-> CopyId(N, j)]
           copied(j, given) ==
               [row[j] EXCEPT !.status = "active", !.name = given, !.lower = Lower[given],
                   !.orig = Root, !.old = FALSE,
                   !.parent = IF j = i THEN place.id ELSE CopyId(N, row[j].parent),
                   !.path = ChildPath(place, CopyId(N, i))
                              \o [n \in DOMAIN BelowTop(i, j) |-> CopyId(N, BelowTop(i, j)[n])],
                   !.depth = place.depth + 1 + Len(BelowTop(i, j))]
<1>1. /\ TypedRows(row) /\ i \in Rows /\ NextId + Cardinality(N) - 1 <= MaxId
      /\ Kept(row) = Rows /\ Rows \subseteq Ids
  BY DEF Tidy, CopyNode, Kept, Rows
<1>2. /\ i \in Rows /\ i \in N /\ N \subseteq Subtree(i) /\ N \subseteq Rows
      /\ \A j \in N : \A n \in l..Len(row[j].path) : row[j].path[n] \in N
  BY <1>1, VisitedClosed DEF Subtree, Under
<1>3. /\ \A j \in N : CopyId(N, j) \in Ids \ Rows
      /\ \A j \in N, k \in N : CopyId(N, j) = CopyId(N, k) => j = k
  BY <1>1, <1>2, CopyIdsNew
<1>4. PICK given \in CopyNames(i, N, place, name) :
        row' = [n \in Ids |->
                  IF \E j \in N : CopyId(N, j) = n
                  THEN LET j == CHOOSE k \in N : CopyId(N, k) = n
                       IN  copied(j, given[j])
                  ELSE row[n]]
  BY DEF CopyNode, CopyId, BelowTop
<1>5. /\ \A j \in N : c[j] = CopyId(N, j) /\ c[j] \in Ids \ Rows
      /\ \A j \in N, k \in N : c[j] = c[k] => j = k
  BY <1>3
\* The definition of CopyNode in terms of the function c.
<1>6. ASSUME NEW j \in N, NEW new PROVE copied(j, new) = CopyOf(i, place, c, j, new)
  <2> DEFINE b == BelowTop(i, j)
  <2>1. \A n \in DOMAIN b : b[n] \in N
    <3> DEFINE t == row[j].path
               d == Len(t) - l
    <3>1. DOMAIN b = 1..d /\ \A k \in 1..d : b[k] = t[l + k]
      BY <1>1, <1>2, BelowTopIs
    <3>2. l \in Nat /\ Len(t) \in Nat
      BY <1>1, <1>2, RowType
    <3>3. \A k \in 1..d : l + k \in l..Len(t)
      <4> HIDE DEF l, t
      <4> QED BY <3>2
    <3> HIDE DEF b, d
    <3> QED BY <1>2, <3>1, <3>3
  <2>2. [n \in DOMAIN b |-> CopyId(N, b[n])] = [n \in DOMAIN b |-> c[b[n]]]
    <3> HIDE DEF b, N, c
    <3> QED BY <1>5, <2>1
  <2>3. j # i => row[j].parent \in N
    <3>1. j # i => /\ row[j].parent = row[j].path[Len(row[j].path) - 1]
                   /\ Len(row[j].path) - 1 \in l..Len(row[j].path)
      BY <1>1, <1>2, ParentInSubtree
    <3> QED BY <1>2, <3>1
  <2>4. /\ CopyId(N, i) = c[i]
        /\ (IF j = i THEN place.id ELSE CopyId(N, row[j].parent)) = (IF j = i THEN place.id ELSE c[row[j].parent])
    BY <1>2, <1>5, <2>3
  <2> HIDE DEF c, N, place
  <2> QED BY <2>2, <2>4 DEF CopyOf
<1> HIDE DEF copied
<1>7. ASSUME NEW j \in N
      PROVE  row'[c[j]] = CopyOf(i, place, c, j, given[j])
  <2>1. (CHOOSE k \in N : CopyId(N, k) = c[j]) = j
    BY <1>3, <1>5
  <2>2. row'[c[j]] = copied(j, given[j])
    <3>1. c[j] \in Ids /\ \E k \in N : CopyId(N, k) = c[j]
      BY <1>5
    <3> HIDE DEF c, N
    <3> QED BY <1>4, <2>1, <3>1
  <2> HIDE DEF c, N, place
  <2> QED BY <1>6, <2>2
<1>8. \A n \in Ids : (\A j \in N : c[j] # n) => row'[n] = row[n]
  <2> HIDE DEF c, N
  <2> QED BY <1>4, <1>5
<1>9. row' = [n \in Ids |-> row'[n]]
  BY <1>4
<1>10. CopiesTo(i, N, c, given)
  <2> HIDE DEF c, N
  <2> QED BY <1>7, <1>8, <1>9 DEF CopiesTo
<1> QED BY <1>5, <1>10

\* copyTree grafts the rows it visits onto the target.
LEMMA CopyInv ==
    ASSUME IInv, FreshTargets, NEW i \in Ids, NEW name \in Names, CopyNode(i, name)
    PROVE  IInv'
<1> DEFINE place == call.place
           s == place.path
           N == Visited(i)
           l == Len(row[i].path)
           c == [j \in N |-> CopyId(N, j)]
<1>1. /\ Tidy(row) /\ Live(row) /\ TypedRows(row) /\ call \in CallState
      /\ i \in Rows /\ Writable(place.id) /\ place = PlaceOf(place.id)
      /\ Kept(row) = Rows /\ Rows \subseteq Ids /\ call' = IdleCall
  BY DEF IInv, Tidy, FreshTargets, CopyNode, Kept, Rows
<1>2. place.id \in Ids \cup {Root} /\ IdleCall \in CallState
  BY <1>1, EmptySeq DEF CallState, Place, IdleCall, RootPlace
<1>3. /\ GoodPlace(row, place)
      /\ \A n \in 1..Len(s) : row[s[n]].status = "active"
  BY <1>1, <1>2, WritablePlace
<1>4. /\ i \in N /\ N \subseteq Subtree(i) /\ N \subseteq Rows
      /\ \A j \in N : \A n \in l..Len(row[j].path) : row[j].path[n] \in N
  BY <1>1, VisitedClosed DEF Subtree, Under
<1>5. PICK given \in CopyNames(i, N, place, name) : CopiesTo(i, N, c, given)
  BY <1>1, CopiedRows
<1>6. \A j \in N : c[j] \in Ids \ Rows
  BY <1>1, CopiedRows
<1>7. \A j \in N : row[j] \in Node /\ given[j] \in Names
  BY <1>1, <1>4, <1>5, RowType DEF CopyNames
<1> HIDE DEF c, N
<1>9. ASSUME NEW j \in N
       PROVE  /\ Grafted(i, place, c, j, row'[c[j]]) /\ row'[c[j]] \in Node
              /\ row'[c[j]].status = "active"
  <2>1. PICK new \in Names : row'[c[j]] = CopyOf(i, place, c, j, new)
    BY <1>5, <1>7 DEF CopiesTo
  <2>2. \A k \in N : c[k] \in Ids
    BY <1>6
  <2> HIDE DEF place
  <2> QED BY <1>1, <1>3, <1>4, <1>7, <2>1, <2>2, CopiedRow DEF l
<1>10. \A n \in Ids : (\A j \in N : c[j] # n) => row'[n] = row[n]
  BY <1>5 DEF CopiesTo
<1>11. row' = [n \in Ids |-> row'[n]]
  BY <1>5 DEF CopiesTo
<1>12. \A n \in Rows : row'[n] = row[n]
  BY <1>1, <1>6, <1>10
<1>13. TypedRows(row')
  <2>1. \A n \in Ids : row'[n] \in Node \cup {NoNode}
    BY <1>1, <1>9, <1>10 DEF TypedRows
  <2> QED BY <1>11, <2>1 DEF TypedRows
<1>14. Kept(row') = Rows \cup { c[j] : j \in N }
  <2>1. \A j \in N : c[j] \in Kept(row')
    BY <1>6, <1>9 DEF Kept, Node
  <2>2. \A n \in Kept(row') : n \in Rows \/ \E j \in N : c[j] = n
    BY <1>1, <1>10 DEF Kept
  <2>3. Rows \subseteq Kept(row')
    BY <1>1, <1>12 DEF Kept
  <2> QED BY <2>1, <2>2, <2>3
<1>15. ASSUME NEW n \in 1..Len(s) PROVE s[n] \in Rows /\ row'[s[n]] = row[s[n]]
  BY <1>1, <1>3, <1>12 DEF GoodPlace
<1>16. ASSUME NEW j \in Rows PROVE Lineage(row', j)
  <2>1. Lineage(row, j) /\ row'[j] = row[j]
    BY <1>1, <1>12 DEF Tidy
  <2>2. \A n \in 1..Len(row[j].path) : row[j].path[n] \in Rows
    BY <1>1, Above
  <2> QED BY <1>12, <1>14, <2>1, <2>2, SameRows
<1>17. ASSUME NEW j \in N PROVE Lineage(row', c[j])
  <2>1. \A k \in N : c[k] \in Kept(row') /\ Grafted(i, place, c, k, row'[c[k]])
    BY <1>9, <1>14
  <2>2. \A n \in 1..Len(place.path) : /\ place.path[n] \in Kept(row')
                                      /\ row'[place.path[n]] = row[place.path[n]]
    BY <1>14, <1>15
  <2> HIDE DEF place
  <2> QED BY <1>1, <1>3, <1>4, <2>1, <2>2, GraftedLineage DEF l
<1>18. Live(row')
  <2>1. ASSUME NEW j \in Rows, row[j].status = "active", NEW n \in 1..Len(row[j].path)
        PROVE  row[j].path[n] \in Rows /\ row'[row[j].path[n]].status = "active"
    BY <1>1, <1>12, <2>1, Above DEF Live
  <2>2. ASSUME NEW j \in N, NEW n \in 1..Len(row'[c[j]].path)
        PROVE  row'[row'[c[j]].path[n]].status = "active"
    <3> DEFINE t == row[j].path
               u == row'[c[j]].path
    <3>1. /\ Len(u) = Len(s) + 1 + (Len(t) - l)
          /\ \A m \in 1..Len(s) : u[m] = s[m]
          /\ u[Len(s) + 1] = c[i]
          /\ \A k \in 1..(Len(t) - l) : u[Len(s) + 1 + k] = c[t[l + k]]
      BY <1>9 DEF Grafted
    <3>2. Len(s) \in Nat /\ Len(t) \in Nat /\ l \in Nat
      BY <1>1, <1>3, <1>4, RowType, LenProperties DEF GoodPlace
    <3>3. \A m \in l..Len(t) : t[m] \in N
      BY <1>4
    <3>4. \A m \in 1..Len(s) : s[m] \in Rows /\ row'[s[m]].status = "active"
      BY <1>3, <1>15
    <3> HIDE DEF t, u, s, l
    <3>5. CASE n <= Len(s)
      <4>1. n \in 1..Len(s)
        BY <2>2, <3>2, <3>5
      <4> QED BY <3>1, <3>4, <4>1 DEF u
    <3>6. CASE n = Len(s) + 1
      BY <1>4, <1>9, <3>1, <3>6 DEF u
    <3>7. CASE n > Len(s) + 1
      <4> DEFINE k == n - (Len(s) + 1)
      <4>1. n \in 1..Len(u)
        BY <2>2 DEF u
      <4>2. k \in 1..(Len(t) - l) /\ n = Len(s) + 1 + k /\ l + k \in l..Len(t)
        BY <3>1, <3>2, <3>7, <4>1
      <4> HIDE DEF k
      <4>3. u[n] = c[t[l + k]] /\ t[l + k] \in N
        BY <3>1, <3>3, <4>2
      <4> QED BY <1>9, <4>3 DEF u
    <3>8. n \in Int
      BY <2>2
    <3> QED BY <3>2, <3>5, <3>6, <3>7, <3>8
  <2> SUFFICES ASSUME NEW m \in Kept(row'), row'[m].status = "active", NEW n \in 1..Len(row'[m].path)
               PROVE  row'[row'[m].path[n]].status = "active"
    BY DEF Live
  <2>3. CASE m \in Rows
    BY <1>12, <2>1, <2>3
  <2>4. CASE \E j \in N : m = c[j]
    BY <2>2, <2>4
  <2> QED BY <1>14, <2>3, <2>4
<1>19. Tidy(row')
  BY <1>13, <1>14, <1>16, <1>17 DEF Tidy
<1> QED BY <1>1, <1>2, <1>18, <1>19 DEF IInv

-----------------------------------------------------------------------------
(* Every step.                                                             *)

\* Calls that only read (EmptyTrash and purge_trash list, CopyNodes loads its target) or end.
LEMMA ReadInv ==
    ASSUME IInv, ListTrash \/ ListExpired \/ CallEnds \/ \E p \in Ids \cup {Root} : LoadTarget(p)
    PROVE  IInv'
<1>1. Tidy(row) /\ Live(row) /\ call \in CallState /\ row' = row
  BY DEF IInv, ListTrash, ListExpired, CallEnds, LoadTarget
<1>2. IdleCall \in CallState
  BY EmptySeq DEF IdleCall, CallState, RootPlace, Place
<1>3. ASSUME NEW S, S \subseteq Ids PROVE [IdleCall EXCEPT !.pc = "purge", !.ids = S] \in CallState
  BY <1>2, <1>3 DEF IdleCall, CallState
<1>4. CASE ListTrash
  <2>1. Page(TrashRoots) \subseteq Ids
    BY DEF Page, TrashRoots, Trashed
  <2> QED BY <1>1, <1>3, <1>4, <2>1 DEF ListTrash, IInv
<1>5. CASE ListExpired
  <2>1. Expired \subseteq Ids
    BY DEF Expired, Trashed
  <2> QED BY <1>1, <1>3, <1>5, <2>1 DEF ListExpired, IInv
<1>6. CASE CallEnds
  BY <1>1, <1>2, <1>6 DEF CallEnds, IInv
<1>7. CASE \E p \in Ids \cup {Root} : LoadTarget(p)
  <2>1. PICK p \in Ids \cup {Root} : LoadTarget(p)
    BY <1>7
  <2>2. PlaceOf(p) \in Place
    BY <1>1, <2>1, WritablePlace DEF LoadTarget
  <2>3. [IdleCall EXCEPT !.pc = "copy", !.place = PlaceOf(p)] \in CallState
    BY <1>2, <2>2 DEF IdleCall, CallState
  <2> QED BY <1>1, <2>1, <2>3 DEF LoadTarget, IInv
<1> QED BY <1>4, <1>5, <1>6, <1>7

\* The table starts empty.
LEMMA InitInv == Init => IInv
<1> SUFFICES ASSUME Init PROVE IInv
  OBVIOUS
<1>1. TypedRows(row) /\ Kept(row) = {}
  BY DEF Init, TypedRows, Kept, NoNode
<1>2. call \in CallState
  BY EmptySeq DEF Init, IdleCall, CallState, RootPlace, Place
<1> QED BY <1>1, <1>2 DEF IInv, Tidy, Live

\* Every step keeps the invariant.
LEMMA NextInv ==
    ASSUME WholePages, FreshTargets
    PROVE  IInv /\ [Next]_vars => IInv'
<1> SUFFICES ASSUME IInv, [Next]_vars PROVE IInv'
  OBVIOUS
<1>1. CASE UNCHANGED vars
  BY <1>1 DEF vars, IInv
<1>2. ASSUME NEW p \in Ids \cup {Root}, NEW name \in Names, NEW kind \in {"file", "folder"},
             Create(p, kind, name)
      PROVE  IInv'
  BY <1>2, CreateInv
<1>3. ASSUME NEW p \in Ids \cup {Root}, NEW name \in Names, NEW i \in Ids, MoveNode(i, p, name)
      PROVE  IInv'
  BY <1>3, MoveInv
<1>4. ASSUME NEW name \in Names, NEW i \in Ids, Rename(i, name)
      PROVE  IInv'
  BY <1>4, RenameInv
<1>5. ASSUME NEW i \in Ids, TrashNode(i) \/ PurgeNode(i) \/ \E name \in Names : CopyNode(i, name)
      PROVE  IInv'
  BY <1>5, TrashInv, PurgeInv, CopyInv
<1>6. ASSUME NEW i \in Ids, NEW p \in Ids \cup {Root}, RestoreNode(i, p)
      PROVE  IInv'
  BY <1>6, RestoreInv
<1>7. CASE TrashAll \/ Age \/ PurgeListed
  BY <1>7, TrashAllInv, AgeInv, PurgeInv
<1>8. CASE ListTrash \/ ListExpired \/ CallEnds \/ \E p \in Ids \cup {Root} : LoadTarget(p)
  BY <1>8, ReadInv
<1> QED BY <1>1, <1>2, <1>3, <1>4, <1>5, <1>6, <1>7, <1>8 DEF Next

\* The inductive invariant of the tree.
THEOREM TreeInvariance == Spec => []SoundTree
<1>1. Init => SoundTree
  BY InitInv DEF SoundTree
<1>2. SoundTree /\ [Next]_vars => SoundTree'
  BY NextInv DEF SoundTree
<1> QED BY <1>1, <1>2, PTL DEF Spec

\* The table and the calls keep their types, whatever is moved, restored and copied.
THEOREM TreeTypes ==
    ASSUME WholePages, FreshTargets
    PROVE  Spec => []TypeOK
<1>1. SoundTree => TypeOK
  BY DEF SoundTree, IInv, Tidy, TypedRows, TypeOK
<1> QED BY <1>1, TreeInvariance, PTL

\* The parent of a row is the root or the folder right before it in its path.
LEMMA ParentIs ==
    ASSUME Tidy(row), NEW i \in Rows
    PROVE  LET t == row[i].path
               p == row[i].parent
           IN  /\ t \in Seq(Ids) /\ Len(t) \in Nat /\ Len(t) >= 1 /\ t[Len(t)] = i
               /\ row[i].depth = Len(t) - 1
               /\ \/ Len(t) = 1 /\ p = Root
                  \/ /\ Len(t) > 1 /\ p \in Rows /\ p \in Ids /\ row[p].kind = "folder"
                     /\ Len(t) - 1 \in 1..Len(t) /\ p = t[Len(t) - 1]
                     /\ Len(row[p].path) = Len(t) - 1 /\ row[p].path \in Seq(Ids)
                     /\ row[p].depth = Len(t) - 2
                     /\ \A m \in 1..(Len(t) - 1) : row[p].path[m] = t[m]
<1> DEFINE t == row[i].path
           p == row[i].parent
<1>1. i \in Ids /\ Kept(row) = Rows /\ TypedRows(row) /\ Rows \subseteq Ids
  BY DEF Rows, Kept, Tidy
<1>2. /\ t \in Seq(Ids) /\ Len(t) \in Nat /\ Len(t) >= 1 /\ t[Len(t)] = i
      /\ row[i].depth = Len(t) - 1
      /\ p = IF Len(t) = 1 THEN Root ELSE t[Len(t) - 1]
  BY <1>1, RowType DEF Tidy, Lineage
<1> HIDE DEF t, p
<1>3. ASSUME Len(t) > 1
      PROVE  /\ Len(t) - 1 \in 1..Len(t) /\ p = t[Len(t) - 1]
             /\ p \in Rows /\ row[p].kind = "folder"
             /\ Len(row[p].path) = Len(t) - 1
             /\ \A m \in 1..(Len(t) - 1) : row[p].path[m] = t[m]
  <2>1. Len(t) - 1 \in 1..Len(t) /\ Len(t) - 1 < Len(t) /\ p = t[Len(t) - 1]
    BY <1>2, <1>3
  <2>2. i \in Kept(row) /\ Len(t) - 1 \in 1..Len(row[i].path)
    BY <1>1, <2>1 DEF t
  <2> DEFINE q == row[i].path[Len(t) - 1]
  <2>3. /\ q \in Kept(row) /\ row[q].kind = "folder" /\ Len(row[q].path) = Len(t) - 1
        /\ \A m \in 1..(Len(t) - 1) : row[q].path[m] = row[i].path[m]
    BY <2>1, <2>2 DEF Tidy, Lineage, t
  <2>4. q = p
    BY <2>1 DEF t
  <2> HIDE DEF q
  <2>5. row[i].path = t
    BY DEF t
  <2> QED BY <1>1, <2>1, <2>3, <2>4, <2>5
<1>4. ASSUME Len(t) > 1 PROVE p \in Ids /\ row[p].path \in Seq(Ids) /\ row[p].depth = Len(t) - 2
  <2>1. p \in Ids /\ row[p].path \in Seq(Ids) /\ row[p].depth = Len(row[p].path) - 1
    BY <1>1, <1>3, <1>4, RowType DEF Tidy, Lineage
  <2> QED BY <1>2, <1>3, <1>4, <2>1
<1>5. CASE Len(t) = 1
  BY <1>2, <1>5 DEF t, p
<1>6. CASE Len(t) > 1
  BY <1>2, <1>3, <1>4, <1>6 DEF t, p
<1>7. Len(t) = 1 \/ Len(t) > 1
  <2>1. Len(t) \in Nat /\ Len(t) >= 1
    BY <1>2
  <2> QED BY <2>1
<1> QED BY <1>5, <1>6, <1>7 DEF t, p

\* Parent links and materialised paths describe one tree (ChildPath, RelocateSubtree,
\* copyTree, PurgeNodes).
THEOREM PathsAreParents == Spec => []PathsFollowParents
<1>1. IInv => PathsFollowParents
  <2> SUFFICES ASSUME IInv, NEW i \in Rows
               PROVE  LET p == row[i].parent IN
                      /\ p \in Rows \cup {Root}
                      /\ row[i].path = ChildPath(PlaceOf(p), i)
                      /\ row[i].depth = PlaceOf(p).depth + 1
    BY DEF PathsFollowParents
  <2> DEFINE t == row[i].path
             p == row[i].parent
             s == PlaceOf(p).path
             u == Append(s, i)
  <2>1. Tidy(row) /\ i \in Ids
    BY DEF IInv, Rows
  <2>2. /\ t \in Seq(Ids) /\ Len(t) \in Nat /\ Len(t) >= 1 /\ t[Len(t)] = i
        /\ row[i].depth = Len(t) - 1
    BY <2>1, ParentIs
  <2>3. /\ p \in Rows \cup {Root} /\ s \in Seq(Ids) /\ Len(s) = Len(t) - 1
        /\ PlaceOf(p).depth = Len(t) - 2
        /\ \A m \in 1..(Len(t) - 1) : s[m] = t[m]
    <3>1. CASE Len(t) = 1 /\ p = Root
      <4>1. s = <<>> /\ PlaceOf(p).depth = -1
        BY <3>1 DEF PlaceOf, RootPlace
      <4>2. s \in Seq(Ids) /\ Len(s) = 0
        BY <4>1, EmptySeq
      <4> HIDE DEF s, t, p
      <4> QED BY <3>1, <4>1, <4>2
    <3>2. CASE ~(Len(t) = 1 /\ p = Root)
      <4>1. /\ p \in Rows /\ p \in Ids /\ row[p].path \in Seq(Ids)
            /\ Len(row[p].path) = Len(t) - 1 /\ row[p].depth = Len(t) - 2
            /\ \A m \in 1..(Len(t) - 1) : row[p].path[m] = t[m]
        BY <2>1, <3>2, ParentIs
      <4>2. s = row[p].path /\ PlaceOf(p).depth = row[p].depth
        <5>1. p # Root
          BY <4>1 DEF Ids, Root
        <5> QED BY <5>1 DEF PlaceOf
      <4> HIDE DEF s, t, p
      <4> QED BY <4>1, <4>2
    <3> QED BY <3>1, <3>2
  <2> HIDE DEF t, p, s
  <2>4. /\ u \in Seq(Ids) /\ Len(u) = Len(s) + 1 /\ u[Len(s) + 1] = i
        /\ \A m \in 1..Len(s) : u[m] = s[m]
    BY <2>1, <2>3, AppendProperties
  <2> HIDE DEF u
  <2>5. t = u
    <3>1. Len(t) = Len(u)
      BY <2>2, <2>3, <2>4
    <3>2. \A m \in 1..Len(t) : t[m] = u[m]
      BY <2>2, <2>3, <2>4
    <3> QED BY <2>2, <2>4, <3>1, <3>2, SeqEqual
  <2>6. row[i].depth = PlaceOf(p).depth + 1
    BY <2>2, <2>3
  <2> QED BY <2>3, <2>5, <2>6 DEF ChildPath, t, p, s, u
<1>2. SoundTree => PathsFollowParents
  BY <1>1 DEF SoundTree, PathsFollowParents
<1> QED BY <1>2, TreeInvariance, PTL

\* Nothing live is below the trash (loadWritableParent, SetSubtreeStatus, RestoreNodes).
THEOREM NothingLiveInTrash == Spec => []ActiveUnderActive
<1>1. IInv => ActiveUnderActive
  <2> SUFFICES ASSUME IInv, NEW i \in Active PROVE Writable(row[i].parent)
    BY DEF ActiveUnderActive
  <2>1. i \in Rows /\ row[i].status = "active" /\ Kept(row) = Rows /\ Tidy(row) /\ Live(row)
    BY DEF Active, Rows, Kept, IInv
  <2>2. CASE row[i].parent = Root
    BY <2>2 DEF Writable
  <2>3. CASE row[i].parent # Root
    <3> DEFINE n == Len(row[i].path) - 1
    <3>1. /\ row[i].parent \in Ids /\ row[row[i].parent].kind = "folder"
          /\ n \in 1..Len(row[i].path) /\ row[i].parent = row[i].path[n]
      BY <2>1, <2>3, ParentIs
    <3> HIDE DEF n
    <3>2. row[row[i].parent].status = "active"
      BY <2>1, <3>1 DEF Live
    <3> QED BY <3>1, <3>2 DEF Writable, Active
  <2> QED BY <2>2, <2>3
<1>2. SoundTree => ActiveUnderActive
  BY <1>1 DEF SoundTree, ActiveUnderActive
<1> QED BY <1>2, TreeInvariance, PTL

-----------------------------------------------------------------------------
(* Subtrees by parents.                                                    *)

\* Who is under a member of a set of whole subtrees is a member.
LEMMA ParentInside ==
    ASSUME Tidy(row), NEW S, DownClosed(S), NEW j \in Rows, row[j].parent \in S
    PROVE  j \in S
<1> DEFINE t == row[j].path
<1>1. S \subseteq Rows /\ \A n \in 1..Len(t) : t[n] \in S => j \in S
  BY DEF DownClosed
<1>2. Root \notin Rows
  BY DEF Rows, Ids, Root
<1>3. \/ Len(t) = 1 /\ row[j].parent = Root
      \/ Len(t) - 1 \in 1..Len(t) /\ row[j].parent = t[Len(t) - 1]
  BY ParentIs
<1> HIDE DEF t
<1> QED BY <1>1, <1>2, <1>3

\* A subtree is its top and exactly the rows whose parent is in it.
LEMMA SubtreeByParents ==
    ASSUME Tidy(row), NEW i \in Rows
    PROVE  /\ i \in Subtree(i) /\ Subtree(i) \subseteq Rows
           /\ row[i].parent \notin Subtree(i)
           /\ \A j \in Rows \ {i} : j \in Subtree(i) <=> row[j].parent \in Subtree(i)
<1>1. DownClosed(Subtree(i)) /\ i \in Subtree(i) /\ Subtree(i) \subseteq Rows
  BY SubtreeDown DEF DownClosed
<1>2. \A j \in Rows : row[j].parent \in Subtree(i) => j \in Subtree(i)
  BY <1>1, ParentInside
<1>3. \A j \in Subtree(i) : j # i => row[j].parent \in Subtree(i)
  BY ParentInSubtree
<1>4. row[i].parent \notin Subtree(i)
  <2> DEFINE p == row[i].parent
             l == Len(row[i].path)
  <2>1. ASSUME p \in Subtree(i) PROVE FALSE
    <3>1. p \in Rows /\ p # Root
      BY <1>1, <2>1 DEF Rows, Ids, Root
    <3>2. l \in Nat /\ Len(row[p].path) = l - 1
      BY <3>1, ParentIs
    <3>3. l <= Len(row[p].path)
      BY <2>1, <3>1, SubtreeIs
    <3> HIDE DEF l, p
    <3> QED BY <3>2, <3>3
  <2> QED BY <2>1
<1> QED BY <1>1, <1>2, <1>3, <1>4

\* In the trash, everything below is trash; above a live row, everything is live.
LEMMA TrashBelow ==
    ASSUME Tidy(row), Live(row), NEW i \in Rows
    PROVE  /\ row[i].parent \in Rows \cup {Root}
           /\ row[i].parent \in Trashed => i \in Trashed
           /\ i \in Trashed => Subtree(i) \subseteq Trashed
<1>1. Rows = Active \cup Trashed /\ Kept(row) = Rows /\ Rows \subseteq Ids /\ TypedRows(row)
  BY RowType DEF Rows, Active, Trashed, Kept, Tidy
<1>2. ASSUME NEW j \in Rows, NEW n \in 1..Len(row[j].path), row[j].path[n] \in Trashed
      PROVE  j \in Trashed
  BY <1>1, <1>2 DEF Live, Active, Trashed
<1>3. row[i].parent \in Rows \cup {Root} /\ (row[i].parent \in Trashed => i \in Trashed)
  <2> DEFINE t == row[i].path
  <2>1. \/ row[i].parent = Root
        \/ row[i].parent \in Rows /\ Len(t) - 1 \in 1..Len(t) /\ row[i].parent = t[Len(t) - 1]
    BY ParentIs
  <2>2. Root \notin Trashed
    BY DEF Trashed, Ids, Root
  <2>3. \A n \in 1..Len(t) : t[n] \in Trashed => i \in Trashed
    BY <1>2
  <2> HIDE DEF t
  <2> QED BY <2>1, <2>2, <2>3
<1>4. ASSUME i \in Trashed, NEW j \in Subtree(i) PROVE j \in Trashed
  <2>1. j \in Rows
    BY DEF Subtree, Under
  <2> DEFINE n == Len(row[i].path)
  <2>2. n <= Len(row[j].path) /\ row[j].path[n] = i
    BY <1>4, <2>1, SubtreeIs
  <2>3. n \in Nat /\ n >= 1 /\ Len(row[j].path) \in Nat
    BY <2>1, ParentIs
  <2> HIDE DEF n
  <2>4. n \in 1..Len(row[j].path)
    BY <2>2, <2>3
  <2> QED BY <1>2, <1>4, <2>1, <2>2, <2>4
<1> QED BY <1>3, <1>4

-----------------------------------------------------------------------------
(* What each operation does to statuses, parents, names and the trash      *)
(* marks.                                                                  *)

\* Every row is listed under the lowercase of its name.
Folded == \A i \in Rows : row[i].lower = Lower[row[i].name]

\* No live entry below p but self is listed under low.
NameFree(p, low, self) == \A k \in Active \ {self} : row[k].parent = p => row[k].lower # low

\* resolveName gives a name whose lowercase is free.
LEMMA ResolvedIsFree ==
    ASSUME NEW p, NEW wanted, NEW self, NEW name \in Resolved(p, wanted, self)
    PROVE  NameFree(p, Lower[name], self)
<1>1. CASE \E i \in Active \ {self} : row[i].parent = p /\ row[i].lower = Lower[wanted]
  <2>1. name \in FreeNames(p)
    BY <1>1 DEF Resolved
  <2> QED BY <2>1 DEF FreeNames, NameFree
<1>2. CASE ~\E i \in Active \ {self} : row[i].parent = p /\ row[i].lower = Lower[wanted]
  <2>1. name = wanted
    BY <1>2 DEF Resolved
  <2> QED BY <1>2, <2>1 DEF NameFree
<1> QED BY <1>1, <1>2

\* What foldName stores then.
LEMMA FoldIsLower ==
    ASSUME FoldsAlike, NEW name \in Names
    PROVE  Fold(name) = Lower[name]
BY DEF FoldsAlike, Fold

\* The row i is found under its name, which nothing live below p has but self.
Filed(i, p, self) ==
    FoldsAlike /\ Folded =>
        row'[i].lower = Lower[row'[i].name] /\ NameFree(p, row'[i].lower, self)

\* The facts about a destination that matter for the parents.
LEMMA DestinationIs ==
    ASSUME NEW p \in Ids \cup {Root}, Writable(p)
    PROVE  p \in {Root} \cup Active /\ p \notin Trashed
BY DEF Writable, Active, Trashed, Ids, Root

\* The rows of ids in new are active ones under new ids; no other row changes.
Adds(new) ==
    /\ new \subseteq Ids \ Rows
    /\ Rows' = Rows \cup new
    /\ \A j \in new : row'[j].status = "active"
    /\ \A j \in Ids \ new : row'[j] = row[j]

\* CreateFolder and commitNode add one row.
LEMMA CreateEffect ==
    ASSUME IInv, NEW p \in Ids \cup {Root}, NEW kind \in {"file", "folder"}, NEW name \in Names,
           Create(p, kind, name)
    PROVE  /\ Writable(p)
           /\ Adds({NextId})
           /\ row'[NextId].parent = p
           /\ Filed(NextId, p, Root)
<1> DEFINE i == NextId
<1>1. /\ Tidy(row) /\ TypedRows(row) /\ call \in CallState /\ i \in Ids /\ Writable(p)
  BY DEF IInv, Tidy, Create
<1>2. i \notin Rows
  BY <1>1, NextIdFresh
<1>3. PICK given \in Resolved(p, name, Root) :
        row' = [row EXCEPT ![i] =
                  [status |-> "active", kind |-> kind, name |-> given,
                   lower |-> IF kind = "file" THEN Lower[given] ELSE Fold(given), parent |-> p,
                   path |-> ChildPath(PlaceOf(p), i), depth |-> PlaceOf(p).depth + 1,
                   orig |-> Root, old |-> FALSE]]
  BY DEF Create
<1> HIDE DEF i
<1>4. /\ row'[i].status = "active" /\ row'[i].parent = p /\ row'[i].name = given
      /\ row'[i].lower = IF kind = "file" THEN Lower[given] ELSE Fold(given)
      /\ \A j \in Ids \ {i} : row'[j] = row[j]
  BY <1>1, <1>3 DEF TypedRows
<1>5. Rows' = Rows \cup {i}
  BY <1>1, <1>4 DEF Rows
<1>6. given \in Names
  BY ResolvedType
<1>7. FoldsAlike => row'[i].lower = Lower[given]
  BY <1>4, <1>6, FoldIsLower
<1>8. Filed(i, p, Root)
  BY <1>4, <1>7, ResolvedIsFree DEF Filed
<1> QED BY <1>1, <1>2, <1>4, <1>5, <1>8 DEF Adds, i

\* UpdateNode changes one name.
LEMMA RenameEffect ==
    ASSUME IInv, NEW i \in Ids, NEW name \in Names, Rename(i, name)
    PROVE  /\ i \in Rows
           /\ i \in Active \/ "editTrashed" \in Ops
           /\ Filed(i, row[i].parent, i)
           /\ \A j \in Ids : /\ row'[j].status = row[j].status /\ row'[j].parent = row[j].parent
                             /\ row'[j].orig = row[j].orig
           /\ \A j \in Ids \ {i} : row'[j].name = row[j].name /\ row'[j].lower = row[j].lower
<1>1. TypedRows(row) /\ i \in Rows /\ Rows = Kept(row)
  BY DEF IInv, Tidy, Rename, Active, Trashed, Rows, Kept
<1>2. PICK given \in Resolved(row[i].parent, name, i) :
        row' = [row EXCEPT ![i].name = given, ![i].lower = Fold(given)]
  BY DEF Rename
<1>3. row[i] \in Node
  BY <1>1, RowType
<1>4. /\ row'[i] = [row[i] EXCEPT !.name = given, !.lower = Fold(given)]
      /\ \A j \in Ids \ {i} : row'[j] = row[j]
  BY <1>1, <1>2 DEF TypedRows
<1>5. /\ row'[i].name = given /\ row'[i].lower = Fold(given)
      /\ row'[i].status = row[i].status /\ row'[i].parent = row[i].parent
      /\ row'[i].orig = row[i].orig
  BY <1>3, <1>4 DEF Node
<1>6. FoldsAlike => Fold(given) = Lower[given]
  BY ResolvedType, FoldIsLower
<1>7. Filed(i, row[i].parent, i)
  BY <1>5, <1>6, ResolvedIsFree DEF Filed
<1> QED BY <1>1, <1>4, <1>5, <1>7 DEF Rename

\* A destination that is not below i (relocate refuses the others) is outside its subtree.
LEMMA OutsideSubtree ==
    ASSUME Tidy(row), Live(row), NEW i \in Rows, NEW p \in Ids \cup {Root}, Writable(p),
           i \in Folders => ~IsPrefix(row[i].path, PlaceOf(p).path)
    PROVE  /\ \A n \in 1..Len(PlaceOf(p).path) : PlaceOf(p).path[n] # i
           /\ p \notin Subtree(i)
<1> DEFINE s == PlaceOf(p).path
<1>1. GoodPlace(row, PlaceOf(p)) /\ PlaceOf(p) \in Place
  BY WritablePlace
<1>2. s \in Seq(Ids) /\ Len(s) \in Nat /\ PlaceOf(p).id = IF Len(s) = 0 THEN Root ELSE s[Len(s)]
  BY <1>1, LenProperties DEF GoodPlace
<1>3. Kept(row) = Rows /\ TypedRows(row) /\ i \in Ids /\ Subtree(i) \subseteq Rows
  BY DEF Rows, Kept, Tidy, Subtree, Under
<1>4. ASSUME NEW n \in 1..Len(s), s[n] = i PROVE FALSE
  <2>1. /\ row[i].kind = "folder" /\ Len(row[i].path) = n
        /\ \A m \in 1..n : row[i].path[m] = s[m]
    BY <1>1, <1>4 DEF GoodPlace
  <2>2. i \in Folders
    BY <2>1 DEF Folders
  <2>3. row[i].path \in Seq(Ids)
    BY <1>3, RowType
  <2> HIDE DEF s
  <2>4. IsPrefix(row[i].path, s)
    BY <1>2, <2>1, <2>3, PrefixFromElements
  <2> QED BY <2>2, <2>4 DEF s
<1>5. \A n \in 1..Len(s) : s[n] \notin Subtree(i)
  BY <1>1, <1>4, RelocatedTidy
<1>6. PlaceOf(p).id = p
  BY DEF PlaceOf, RootPlace
<1>7. Root \notin Subtree(i)
  BY <1>3 DEF Rows, Ids, Root
<1> HIDE DEF s
<1>8. p \notin Subtree(i)
  BY <1>2, <1>5, <1>6, <1>7
<1> QED BY <1>4, <1>8 DEF s

\* MoveNodes gives one node another parent, outside its subtree, and perhaps another name.
LEMMA MoveEffect ==
    ASSUME IInv, NEW i \in Ids, NEW p \in Ids \cup {Root}, NEW name \in Names, MoveNode(i, p, name)
    PROVE  /\ i \in Rows /\ Writable(p) /\ p \notin Subtree(i)
           /\ i \in Active \/ "editTrashed" \in Ops
           /\ Filed(i, p, i)
           /\ row'[i].parent = p
           /\ \A j \in Ids : row'[j].status = row[j].status /\ (j \in Rows => row'[j].orig = row[j].orig)
           /\ \A j \in Rows \ {i} : /\ row'[j].parent = row[j].parent
                                    /\ row'[j].name = row[j].name /\ row'[j].lower = row[j].lower
<1> DEFINE place == PlaceOf(p)
           old == Relocated(row, i, place)
<1>1. /\ Tidy(row) /\ Live(row) /\ TypedRows(row) /\ i \in Rows /\ Kept(row) = Rows /\ Rows \subseteq Ids
      /\ Writable(p) /\ (i \in Folders => ~IsPrefix(row[i].path, place.path))
      /\ i \in Active \/ "editTrashed" \in Ops
  BY DEF IInv, Tidy, MoveNode, Rows, Active, Trashed, Kept
<1>2. /\ \A n \in 1..Len(place.path) : place.path[n] # i
      /\ p \notin Subtree(i)
  BY <1>1, OutsideSubtree
<1>3. GoodPlace(row, place) /\ place \in Place /\ place.id = p
  BY <1>1, WritablePlace DEF PlaceOf, RootPlace
<1>4. /\ TypedRows(old) /\ \A j \in Ids \ Subtree(i) : old[j] = row[j]
  BY <1>1, <1>2, <1>3, RelocatedTidy DEF Tidy
<1>5. \A j \in Subtree(i) : MovedTo(i, place, j, old[j]) /\ old[j] \in Node
  BY <1>1, <1>3, MovedRow
<1>6. i \in Subtree(i) /\ Subtree(i) \subseteq Rows
  BY <1>1, SubtreeByParents
<1>7. \A j \in Subtree(i) : /\ old[j].status = row[j].status /\ old[j].orig = row[j].orig
                            /\ old[j].name = row[j].name /\ old[j].lower = row[j].lower
                            /\ old[j].parent = IF j = i THEN p ELSE row[j].parent
  <2> HIDE DEF old, place
  <2> QED BY <1>3, <1>5 DEF MovedTo
<1>8. PICK given, low :
         /\ FoldsAlike /\ Folded => low = Lower[given] /\ NameFree(p, low, i)
         /\ row' = [old EXCEPT ![i].name = given, ![i].lower = low]
  <2>1. PICK first \in Resolved(p, row[i].name, i) :
          \/ row' = [old EXCEPT ![i].name = first,
                                ![i].lower = IF first = row[i].name THEN @ ELSE Fold(first)]
          \/ \E given \in Resolved(p, name, i) :
                row' = [old EXCEPT ![i].name = given, ![i].lower = Lower[given]]
    BY DEF MoveNode
  <2>2. first \in Names
    <3>1. row[i].name \in Names
      BY <1>1, RowType DEF Node
    <3> QED BY <3>1, ResolvedType
  <2>3. old[i].lower = row[i].lower
    BY <1>6, <1>7
  <2> HIDE DEF old
  <2>4. CASE row' = [old EXCEPT ![i].name = first,
                                ![i].lower = IF first = row[i].name THEN @ ELSE Fold(first)]
    <3> DEFINE low == IF first = row[i].name THEN old[i].lower ELSE Fold(first)
    <3>1. FoldsAlike /\ Folded => low = Lower[first]
      BY <1>1, <2>2, <2>3, FoldIsLower DEF Folded
    <3>2. row' = [old EXCEPT ![i].name = first, ![i].lower = low]
      BY <2>4
    <3> HIDE DEF low
    <3>3. NameFree(p, Lower[first], i)
      BY <2>1, ResolvedIsFree
    <3> QED BY <3>1, <3>2, <3>3
  <2>5. CASE \E given \in Resolved(p, name, i) :
                row' = [old EXCEPT ![i].name = given, ![i].lower = Lower[given]]
    BY <2>5, ResolvedIsFree
  <2> QED BY <2>1, <2>4, <2>5
<1> HIDE DEF old, place
<1>9. /\ row'[i] = [old[i] EXCEPT !.name = given, !.lower = low] /\ old[i] \in Node
      /\ \A j \in Ids \ {i} : row'[j] = old[j]
  BY <1>4, <1>5, <1>6, <1>8 DEF TypedRows
<1>10. /\ row'[i].name = given /\ row'[i].lower = low
       /\ row'[i].status = old[i].status /\ row'[i].parent = old[i].parent
       /\ row'[i].orig = old[i].orig
  BY <1>9 DEF Node
<1>11. \A j \in Ids : row'[j].status = row[j].status /\ (j \in Rows => row'[j].orig = row[j].orig)
  BY <1>4, <1>6, <1>7, <1>9, <1>10
<1>12. \A j \in Rows \ {i} : /\ row'[j].parent = row[j].parent
                              /\ row'[j].name = row[j].name /\ row'[j].lower = row[j].lower
  BY <1>1, <1>4, <1>7, <1>9
<1>13. Filed(i, p, i)
  BY <1>8, <1>10 DEF Filed
<1> QED BY <1>1, <1>2, <1>6, <1>7, <1>10, <1>11, <1>12, <1>13

\* RestoreNodes brings a subtree of the trash back, its top below a folder outside it.
LEMMA RestoreEffect ==
    ASSUME IInv, NEW i \in Ids, NEW asked \in Ids \cup {Root}, RestoreNode(i, asked)
    PROVE  \E p \in Ids \cup {Root} :
              /\ i \in Trashed /\ i \in Rows /\ Subtree(i) \subseteq Trashed /\ Rows' = Rows
              /\ Writable(p) /\ p \notin Subtree(i)
              /\ row'[i].parent = p /\ Filed(i, p, i)
              /\ \A j \in Subtree(i) : row'[j].status = "active"
              /\ \A j \in Subtree(i) \ {i} : /\ row'[j].parent = row[j].parent
                                            /\ row'[j].name = row[j].name /\ row'[j].lower = row[j].lower
              /\ \A j \in Ids \ Subtree(i) : row'[j] = row[j]
<1> DEFINE target == IF asked # Root THEN asked ELSE row[i].orig
           p == IF target \in Rows THEN target ELSE Root
           place == PlaceOf(p)
           old == Relocated(row, i, place)
<1>1. /\ Tidy(row) /\ Live(row) /\ TypedRows(row) /\ i \in Rows /\ i \in Trashed
      /\ Kept(row) = Rows /\ Rows \subseteq Ids /\ Writable(p)
  BY DEF IInv, Tidy, RestoreNode, Rows, Trashed, Kept
<1>2. p \in Ids \cup {Root}
  BY <1>1
<1>3. PICK given \in Resolved(p, row[i].name, i) :
         row' = [j \in Ids |->
                   IF j \in Subtree(i)
                   THEN [old[j] EXCEPT !.status = "active", !.orig = Root, !.old = FALSE,
                                       !.name = IF j = i THEN given ELSE @,
                                       !.lower = IF j = i /\ given # row[i].name THEN Lower[given] ELSE @]
                   ELSE row[j]]
  BY DEF RestoreNode
<1> HIDE DEF p
<1>4. NameFree(p, Lower[given], i)
  BY ResolvedIsFree
<1>5. Subtree(i) \subseteq Trashed /\ i \in Subtree(i) /\ Subtree(i) \subseteq Rows
  BY <1>1, TrashBelow, SubtreeByParents
<1>6. p \notin Subtree(i) /\ p \in {Root} \cup Active
  <2>1. Root \notin Rows /\ Active \cap Trashed = {}
    BY DEF Rows, Ids, Root, Active, Trashed
  <2> QED BY <1>1, <1>2, <1>5, <2>1, DestinationIs
<1>7. GoodPlace(row, place) /\ place.id = p
  BY <1>1, <1>2, WritablePlace DEF PlaceOf, RootPlace
<1>8. \A j \in Subtree(i) : MovedTo(i, place, j, old[j]) /\ old[j] \in Node
  BY <1>1, <1>7, MovedRow
<1> HIDE DEF old, place
<1>9. ASSUME NEW j \in Subtree(i)
      PROVE  /\ row'[j].status = "active"
             /\ row'[j].parent = IF j = i THEN p ELSE row[j].parent
             /\ row'[j].name = IF j = i THEN given ELSE row[j].name
             /\ row'[j].lower = IF j = i /\ given # row[i].name THEN Lower[given] ELSE row[j].lower
  <2>1. row'[j] = [old[j] EXCEPT !.status = "active", !.orig = Root, !.old = FALSE,
                                 !.name = IF j = i THEN given ELSE @,
                                 !.lower = IF j = i /\ given # row[i].name THEN Lower[given] ELSE @]
    BY <1>1, <1>3, <1>5
  <2>2. /\ row'[j].status = "active" /\ row'[j].parent = old[j].parent
        /\ row'[j].name = IF j = i THEN given ELSE old[j].name
        /\ row'[j].lower = IF j = i /\ given # row[i].name THEN Lower[given] ELSE old[j].lower
    BY <1>8, <2>1 DEF Node
  <2> QED BY <1>7, <1>8, <2>2 DEF MovedTo
<1>10. \A j \in Ids \ Subtree(i) : row'[j] = row[j]
  BY <1>3
<1>11. Rows' = Rows
  BY <1>1, <1>5, <1>9, <1>10 DEF Rows
<1>12. Filed(i, p, i)
  <2>1. Folded => row[i].lower = Lower[row[i].name]
    BY <1>1 DEF Folded
  <2>2. /\ row'[i].name = given
        /\ row'[i].lower = IF given # row[i].name THEN Lower[given] ELSE row[i].lower
    BY <1>5, <1>9
  <2> QED BY <1>4, <2>1, <2>2 DEF Filed
<1> QED BY <1>1, <1>2, <1>5, <1>6, <1>9, <1>10, <1>11, <1>12

\* The rows of S go to the trash with the original parent o; nothing else changes.
Turned(S, o) ==
    /\ Rows' = Rows /\ Trashed' = Trashed \cup S
    /\ \A j \in S : /\ row'[j].status = "trashed" /\ row'[j].orig = o
                    /\ row'[j].parent = row[j].parent
                    /\ row'[j].name = row[j].name /\ row'[j].lower = row[j].lower
    /\ \A j \in Ids \ S : row'[j] = row[j]

\* S holds whole subtrees, and their tops were under o.
Turns(S, o) ==
    /\ DownClosed(S) /\ Turned(S, o)
    /\ \A j \in S : row[j].parent \in S \cup {o}
    /\ o \notin S
    /\ o \notin Trashed \/ "trashAgain" \in Ops
    /\ S \cap Trashed = {} \/ "mixedTrash" \in Ops

\* What such a statement assigns.
LEMMA TurnedRows ==
    ASSUME Tidy(row), NEW S, DownClosed(S), NEW o,
           row' = [j \in Ids |-> IF j \in S
                                 THEN [row[j] EXCEPT !.status = "trashed", !.orig = o, !.old = FALSE]
                                 ELSE row[j]]
    PROVE  Turned(S, o)
<1>1. S \subseteq Rows /\ Rows \subseteq Ids /\ Kept(row) = Rows /\ TypedRows(row)
  BY DEF DownClosed, Rows, Kept, Tidy
<1>2. \A j \in S : row[j] \in Node
  BY <1>1, RowType
<1>3. \A j \in S : /\ row'[j].status = "trashed" /\ row'[j].orig = o
                   /\ row'[j].parent = row[j].parent
                   /\ row'[j].name = row[j].name /\ row'[j].lower = row[j].lower
  BY <1>1, <1>2 DEF Node
<1>4. \A j \in Ids \ S : row'[j] = row[j]
  OBVIOUS
<1>5. Rows' = Rows
  BY <1>1, <1>3, <1>4 DEF Rows
<1>6. Trashed' = Trashed \cup S
  BY <1>1, <1>3, <1>4 DEF Trashed
<1> QED BY <1>3, <1>4, <1>5, <1>6 DEF Turned

\* DeleteNodes, for one node.
LEMMA TrashEffect ==
    ASSUME IInv, NEW i \in Ids, TrashNode(i)
    PROVE  Turns(Subtree(i), row[i].parent)
<1>1. Tidy(row) /\ Live(row) /\ i \in Rows /\ (i \in Active \/ "trashAgain" \in Ops)
  BY DEF IInv, TrashNode, Rows, Active, Trashed
<1>2. DownClosed(Subtree(i))
  BY <1>1, SubtreeDown
<1>3. row' = [j \in Ids |-> IF j \in Subtree(i)
                            THEN [row[j] EXCEPT !.status = "trashed", !.orig = row[i].parent, !.old = FALSE]
                            ELSE row[j]]
  BY DEF TrashNode, TrashedFrom
<1>4. /\ \A j \in Subtree(i) : row[j].parent \in Subtree(i) \cup {row[i].parent}
      /\ row[i].parent \notin Subtree(i)
  BY <1>1, SubtreeByParents
<1>5. row[i].parent \notin Trashed \/ "trashAgain" \in Ops
  BY <1>1, TrashBelow DEF Active, Trashed
<1>6. Subtree(i) \cap Trashed = {} \/ "mixedTrash" \in Ops
  BY DEF TrashNode
<1>7. Turned(Subtree(i), row[i].parent)
  BY <1>1, <1>2, <1>3, TurnedRows
<1> QED BY <1>2, <1>4, <1>5, <1>6, <1>7 DEF Turns

\* TrashAllForOwner.
LEMMA TrashAllEffect ==
    ASSUME IInv, TrashAll
    PROVE  \E S : Turns(S, Root)
<1> DEFINE tops == { i \in Active : row[i].parent = Root }
           all  == UNION { Subtree(i) : i \in tops }
<1>1. Tidy(row) /\ Live(row)
  BY DEF IInv
<1>2. \A i \in tops : i \in Rows /\ DownClosed(Subtree(i))
  BY <1>1, SubtreeDown DEF Active, Rows
<1>3. DownClosed(all)
  BY <1>2 DEF DownClosed
<1>4. row' = [j \in Ids |-> IF j \in all
                            THEN [row[j] EXCEPT !.status = "trashed", !.orig = Root, !.old = FALSE]
                            ELSE row[j]]
  BY DEF TrashAll
<1>5. \A j \in all : row[j].parent \in all \cup {Root}
  <2> SUFFICES ASSUME NEW i \in tops, NEW j \in Subtree(i) PROVE row[j].parent \in Subtree(i) \cup {Root}
    OBVIOUS
  <2> QED BY <1>1, <1>2, SubtreeByParents
<1>6. Root \notin all /\ Root \notin Trashed
  <2>1. all \subseteq Ids
    BY <1>3 DEF DownClosed, Rows
  <2> HIDE DEF all
  <2> QED BY <2>1 DEF Trashed, Ids, Root
<1>7. all \cap Trashed = {} \/ "mixedTrash" \in Ops
  BY DEF TrashAll
<1> HIDE DEF all
<1>8. Turned(all, Root)
  BY <1>1, <1>3, <1>4, TurnedRows
<1> QED BY <1>3, <1>5, <1>6, <1>7, <1>8 DEF Turns

\* Time that passes.
LEMMA AgeEffect ==
    ASSUME IInv, Age
    PROVE  \A j \in Ids : /\ row'[j].status = row[j].status /\ row'[j].parent = row[j].parent
                          /\ row'[j].orig = row[j].orig
                          /\ row'[j].name = row[j].name /\ row'[j].lower = row[j].lower
<1> SUFFICES ASSUME NEW j \in Ids
             PROVE  /\ row'[j].status = row[j].status /\ row'[j].parent = row[j].parent
                    /\ row'[j].orig = row[j].orig
                    /\ row'[j].name = row[j].name /\ row'[j].lower = row[j].lower
  OBVIOUS
<1>1. row'[j] = IF j \in Trashed THEN [row[j] EXCEPT !.old = TRUE] ELSE row[j]
  BY DEF Age
<1>2. j \in Trashed => row[j] \in Node
  BY RowType DEF IInv, Tidy, Trashed, Kept
<1> QED BY <1>1, <1>2 DEF Node

\* Whole subtrees of the trash are removed.
Removes(S) ==
    /\ DownClosed(S) /\ S \subseteq Trashed
    /\ row' = [j \in Ids |-> IF j \in S THEN NoNode ELSE row[j]]

\* PurgeNodes removes such a set, an empty one when it refuses the batch.
LEMMA PurgeNodesEffect ==
    ASSUME IInv, WholePages, NEW S, PurgeNodes(S)
    PROVE  \E T : Removes(T)
<1> DEFINE gone == RemovedBefore(S)[MaxId]
<1>1. Tidy(row) /\ Live(row) /\ row = [j \in Ids |-> row[j]]
  BY DEF IInv, Tidy, TypedRows
<1>2. CASE Purgeable(S)
  <2>1. S \subseteq Trashed /\ S \subseteq Rows /\ MaxId \in 0..MaxId
    BY <1>2, TreeConstants DEF Purgeable, Trashed, Rows
  <2>2. gone = UNION { Subtree(m) : m \in S \cap (1..MaxId) }
    BY <2>1, RemovedIsSubtrees
  <2>3. \A m \in S : DownClosed(Subtree(m)) /\ Subtree(m) \subseteq Trashed
    BY <1>1, <2>1, SubtreeDown, TrashBelow
  <2>4. row' = [j \in Ids |-> IF j \in gone THEN NoNode ELSE row[j]]
    BY <1>2 DEF PurgeNodes
  <2> HIDE DEF gone
  <2>5. DownClosed(gone) /\ gone \subseteq Trashed
    BY <2>2, <2>3 DEF DownClosed
  <2> QED BY <2>4, <2>5 DEF Removes
<1>3. CASE ~Purgeable(S)
  <2>1. row' = row
    BY <1>3 DEF PurgeNodes
  <2>2. Removes({})
    BY <1>1, <2>1 DEF Removes, DownClosed
  <2> QED BY <2>2
<1> QED BY <1>2, <1>3

\* What is left after it.
LEMMA RemovedRows ==
    ASSUME NEW S, Removes(S)
    PROVE  /\ Rows' = Rows \ S /\ Trashed' = Trashed \ S
           /\ \A j \in Ids \ S : row'[j] = row[j]
BY DEF Removes, Rows, Trashed, NoNode

\* Copies below the top that share a folder are listed differently.
CopiesDiffer(i, N, given) ==
    \A j \in N \ {i}, k \in N \ {i} :
        row[j].parent = row[k].parent /\ Lower[given[j]] = Lower[given[k]] => j = k

\* copyTree resolves the name of each copy among the copies before it in its folder.
LEMMA CopiedNamesDiffer ==
    ASSUME NEW i, NEW N, N \subseteq Ids, NEW place, NEW name, NEW given, given \in CopyNames(i, N, place, name)
    PROVE  CopiesDiffer(i, N, given)
<1> SUFFICES ASSUME NEW j \in N \ {i}, NEW k \in N \ {i}, row[j].parent = row[k].parent,
                    Lower[given[j]] = Lower[given[k]]
             PROVE  j = k
  BY DEF CopiesDiffer
<1>1. ASSUME NEW x \in N \ {i}, NEW y \in N \ {i}, y < x, row[y].parent = row[x].parent
      PROVE  Lower[given[x]] # Lower[given[y]]
  <2> DEFINE before == { z \in N \ {i} : z < x /\ row[z].parent = row[x].parent }
             taken  == { Lower[given[z]] : z \in before }
  <2>1. Lower[given[y]] \in taken
    BY <1>1
  <2>2. IF Lower[row[x].name] \in taken THEN Lower[given[x]] \notin taken
        ELSE given[x] = row[x].name
    BY DEF CopyNames
  <2> HIDE DEF taken
  <2> QED BY <2>1, <2>2
<1>2. j \in Int /\ k \in Int
  BY DEF Ids
<1>3. ~(j < k) /\ ~(k < j)
  BY <1>1
<1> QED BY <1>2, <1>3

\* copyTree adds a subtree, the copies of their parents above its nodes.
LEMMA CopyEffect ==
    ASSUME IInv, FreshTargets, NEW i \in Ids, NEW name \in Names, CopyNode(i, name)
    PROVE  LET N == Visited(i)
               c == [j \in N |-> CopyId(N, j)]
               top == c[i]
           IN  /\ i \in N /\ N \subseteq Rows
               /\ call.place.id \in Ids \cup {Root} /\ Writable(call.place.id)
               /\ \A j \in N, k \in N : c[j] = c[k] => j = k
               /\ Adds({ c[j] : j \in N })
               /\ row'[top].parent = call.place.id /\ NameFree(call.place.id, row'[top].lower, Root)
               /\ \A j \in N : row'[c[j]].lower = Lower[row'[c[j]].name]
               /\ \A j \in N \ {i} : row[j].parent \in N /\ row'[c[j]].parent = c[row[j].parent]
               /\ \A j \in N \ {i}, k \in N \ {i} :
                     row[j].parent = row[k].parent /\ row'[c[j]].lower = row'[c[k]].lower => j = k
<1> DEFINE N == Visited(i)
           c == [j \in N |-> CopyId(N, j)]
           place == call.place
           new == { c[j] : j \in N }
<1>1. /\ Tidy(row) /\ TypedRows(row) /\ call \in CallState /\ i \in Rows
      /\ Writable(place.id) /\ Kept(row) = Rows /\ Rows \subseteq Ids
  BY DEF IInv, Tidy, FreshTargets, CopyNode, Kept, Rows
<1>2. place.id \in Ids \cup {Root}
  BY <1>1 DEF CallState, Place
<1>3. /\ i \in N /\ N \subseteq Subtree(i) /\ N \subseteq Rows
      /\ \A j \in N : \A n \in Len(row[i].path)..Len(row[j].path) : row[j].path[n] \in N
  BY <1>1, VisitedClosed DEF Subtree, Under
<1>4. \A j \in N \ {i} : row[j].parent \in N
  <2>1. \A j \in N \ {i} : /\ row[j].parent = row[j].path[Len(row[j].path) - 1]
                           /\ Len(row[j].path) - 1 \in Len(row[i].path)..Len(row[j].path)
    BY <1>1, <1>3, ParentInSubtree
  <2> QED BY <1>3, <2>1
<1>5. /\ \A j \in N : c[j] \in Ids \ Rows
      /\ \A j \in N, k \in N : c[j] = c[k] => j = k
  BY <1>1, CopiedRows
<1>6. PICK given \in CopyNames(i, N, place, name) : CopiesTo(i, N, c, given)
  BY <1>1, CopiedRows
<1>7. NameFree(place.id, Lower[given[i]], Root)
  <2>1. given[i] \in Resolved(place.id, name, Root)
    BY DEF CopyNames
  <2> QED BY <2>1, ResolvedIsFree
<1>8. \A j \in N : row[j] \in Node
  BY <1>1, <1>3, RowType
<1> HIDE DEF N, c, place
<1>9. ASSUME NEW j \in N
      PROVE  /\ row'[c[j]].status = "active"
             /\ row'[c[j]].parent = IF j = i THEN place.id ELSE c[row[j].parent]
             /\ row'[c[j]].name = given[j] /\ row'[c[j]].lower = Lower[given[j]]
  <2>1. row'[c[j]] = CopyOf(i, place, c, j, given[j])
    BY <1>6 DEF CopiesTo, place
  <2> QED BY <1>8, <2>1 DEF CopyOf, Node
<1>10. Adds(new)
  <2>1. new \subseteq Ids \ Rows
    BY <1>5
  <2>2. \A j \in new : row'[j].status = "active"
    BY <1>9
  <2>3. \A j \in Ids \ new : row'[j] = row[j]
    BY <1>6 DEF CopiesTo
  <2> HIDE DEF new
  <2>4. Rows' = Rows \cup new
    BY <2>1, <2>2, <2>3 DEF Rows
  <2> QED BY <2>1, <2>2, <2>3, <2>4 DEF Adds
<1>11. /\ row'[c[i]].parent = place.id /\ NameFree(place.id, row'[c[i]].lower, Root)
       /\ \A j \in N : row'[c[j]].lower = Lower[row'[c[j]].name]
       /\ \A j \in N \ {i} : row'[c[j]].parent = c[row[j].parent]
  BY <1>3, <1>7, <1>9
<1>12. \A j \in N \ {i}, k \in N \ {i} :
          row[j].parent = row[k].parent /\ row'[c[j]].lower = row'[c[k]].lower => j = k
  <2>1. N \subseteq Ids /\ given \in CopyNames(i, N, place, name)
    BY <1>1, <1>3, <1>6
  <2>2. CopiesDiffer(i, N, given)
    BY <2>1, CopiedNamesDiffer
  <2> QED BY <1>9, <2>2 DEF CopiesDiffer
<1> HIDE DEF new
<1> QED BY <1>1, <1>2, <1>3, <1>4, <1>5, <1>10, <1>11, <1>12 DEF N, c, place, new

-----------------------------------------------------------------------------
(* The table implements Forest.                                            *)

\* The parents that Forest sees.
Links(rows) == [i \in Ids |-> IF rows[i].status = "none" THEN -1 ELSE rows[i].parent]

\* In Forest's terms a row is there if its parent is an id or the root.
LEMMA LinksAre ==
    ASSUME NEW rows, TypedRows(rows)
    PROVE  /\ \A i \in Kept(rows) : Links(rows)[i] = rows[i].parent /\ rows[i].parent # -1
           /\ \A i \in Ids \ Kept(rows) : Links(rows)[i] = -1
<1>1. \A i \in Kept(rows) : i \in Ids /\ rows[i].parent \in Ids \cup {Root}
  BY RowType DEF Kept, Node
<1> QED BY <1>1 DEF Links, Kept, Ids, Root

LEMMA ForestSets ==
    ASSUME IInv
    PROVE  /\ Tree!Present = Rows /\ Tree!Active = Active
           /\ \A i \in Rows : Links(row)[i] = row[i].parent
<1>1. TypedRows(row) /\ Kept(row) = Rows /\ Rows \subseteq Ids
  BY DEF IInv, Tidy, Kept, Rows
<1>2. \A i \in Ids : i \in Rows <=> Links(row)[i] # -1
  BY <1>1, LinksAre
<1>3. Tree!Present = { i \in Ids : Links(row)[i] # -1 }
  BY DEF Tree!Present, Links
<1>4. Tree!Present = Rows
  BY <1>1, <1>2, <1>3
<1>5. Rows \ Trashed = Active
  BY <1>1, RowType DEF Rows, Trashed, Active
<1> QED BY <1>1, <1>4, <1>5, LinksAre DEF Tree!Active

\* New active rows that hang together below a live place are a step of Forest.
LEMMA GrowStep ==
    ASSUME IInv, NEW S, Adds(S), NEW i \in S, row'[i].parent \in {Root} \cup Active,
           \A j \in S \ {i} : row'[j].parent \in S,
           \A T \in SUBSET S : i \in T /\ (\A j \in S : row'[j].parent \in T => j \in T) => T = S
    PROVE  Tree!Grow
<1>1. /\ S \subseteq Ids \ Rows /\ \A j \in S : row'[j].status = "active"
      /\ \A j \in Ids \ S : row'[j] = row[j]
  BY DEF Adds
<1>2. Trashed' = Trashed
  BY <1>1 DEF Trashed, Rows
<1>3. S \in SUBSET (Ids \ Tree!Present) /\ {Root} \cup Tree!Active = {Root} \cup Active
  BY <1>1, ForestSets
<1>4. /\ \A j \in Ids \ S : Links(row')[j] = Links(row)[j]
      /\ \A j \in S : Links(row')[j] = row'[j].parent
  BY <1>1 DEF Links
<1>5. Tree!Connected(S, i, Links(row'))
  BY <1>4 DEF Tree!Connected
<1>6. /\ \A j \in Ids \ S : Links(row')[j] = Links(row)[j]
      /\ Links(row')[i] \in {Root} \cup Tree!Active
      /\ \A j \in S \ {i} : Links(row')[j] \in S
      /\ Tree!Connected(S, i, Links(row'))
  BY <1>3, <1>4, <1>5
<1> QED BY <1>2, <1>3, <1>6 DEF Tree!Grow, Links

LEMMA CreateStep ==
    ASSUME IInv, NEW p \in Ids \cup {Root}, NEW kind \in {"file", "folder"}, NEW name \in Names,
           Create(p, kind, name)
    PROVE  Tree!Grow
<1> DEFINE i == NextId
<1>1. Writable(p) /\ Adds({i}) /\ row'[i].parent = p
  BY CreateEffect
<1>2. p \in {Root} \cup Active
  BY <1>1, DestinationIs
<1> HIDE DEF i
<1>3. \A T \in SUBSET {i} : i \in T => T = {i}
  OBVIOUS
<1> QED BY <1>1, <1>2, <1>3, GrowStep

LEMMA CopyStep ==
    ASSUME IInv, FreshTargets, NEW i \in Ids, NEW name \in Names, CopyNode(i, name)
    PROVE  Tree!Grow
<1> DEFINE N == Visited(i)
           c == [j \in N |-> CopyId(N, j)]
           S == { c[j] : j \in N }
           p == call.place.id
<1>1. /\ i \in N /\ N \subseteq Rows /\ p \in Ids \cup {Root} /\ Writable(p)
      /\ \A j \in N, k \in N : c[j] = c[k] => j = k
      /\ Adds(S) /\ row'[c[i]].parent = p
      /\ \A j \in N \ {i} : row[j].parent \in N /\ row'[c[j]].parent = c[row[j].parent]
  BY CopyEffect
<1>2. p \in {Root} \cup Active
  BY <1>1, DestinationIs
<1>3. Tidy(row) /\ Kept(row) = Rows
  BY DEF IInv, Kept, Rows
<1> HIDE DEF N, c, p
<1>4. \A j \in S \ {c[i]} : row'[j].parent \in S
  BY <1>1
\* A copy that is left out and has the shortest path has a parent that is left out.
<1>5. ASSUME NEW T \in SUBSET S, c[i] \in T, \A j \in S : row'[j].parent \in T => j \in T
      PROVE  T = S
  <2> DEFINE left == { j \in N : c[j] \notin T }
             D == { Len(row[j].path) : j \in left }
  <2>1. SUFFICES ASSUME left # {} PROVE FALSE
    OBVIOUS
  <2>2. \A j \in N : Len(row[j].path) \in Nat
    BY <1>1, <1>3, ParentIs
  <2>3. D \subseteq Nat /\ D # {}
    BY <2>1, <2>2
  <2> HIDE DEF D
  <2>4. PICK d \in D : \A k \in D : d <= k
    BY <2>3, LeastExists
  <2>5. PICK j \in left : Len(row[j].path) = d
    BY DEF D
  <2>6. j \in N \ {i} /\ j \in Rows /\ c[j] \in S
    BY <1>1, <1>5
  <2>7. row[j].parent \in N /\ row'[c[j]].parent = c[row[j].parent]
    BY <1>1, <2>6
  <2>8. row[j].parent \in left
    BY <1>5, <2>5, <2>6, <2>7
  <2>9. Len(row[row[j].parent].path) = d - 1
    <3>1. row[j].parent # Root
      BY <1>1, <2>7 DEF Rows, Ids, Root
    <3> QED BY <1>3, <2>5, <2>6, <3>1, ParentIs
  <2>10. d \in Nat /\ d - 1 \in D
    BY <2>3, <2>8, <2>9 DEF D
  <2> QED BY <2>4, <2>10
<1> HIDE DEF S
<1>6. c[i] \in S
  BY <1>1 DEF S
<1>7. row'[c[i]].parent \in {Root} \cup Active
  BY <1>1, <1>2
<1> QED BY <1>1, <1>4, <1>5, <1>6, <1>7, GrowStep

\* The subtree that a path prefix selects is Forest's.
LEMMA SubtreeInForest ==
    ASSUME IInv, NEW i \in Rows
    PROVE  Subtree(i) \in SUBSET Tree!Present /\ Tree!IsSubtree(Subtree(i), i)
<1>1. /\ i \in Subtree(i) /\ Subtree(i) \subseteq Rows
      /\ \A j \in Rows \ {i} : j \in Subtree(i) <=> row[j].parent \in Subtree(i)
  BY SubtreeByParents DEF IInv
<1>2. \A j \in Rows \ {i} : j \in Subtree(i) <=> Links(row)[j] \in Subtree(i)
  BY <1>1, ForestSets
<1> QED BY <1>1, <1>2, ForestSets DEF Tree!IsSubtree, Links

\* So is a set of whole subtrees.
LEMMA DownClosedInForest ==
    ASSUME IInv, NEW S, DownClosed(S)
    PROVE  S \in SUBSET Tree!Present /\ Tree!Closed(S)
<1>1. S \subseteq Rows /\ \A j \in Rows : row[j].parent \in S => j \in S
  BY ParentInside DEF IInv, DownClosed
<1>2. \A j \in Rows : Links(row)[j] \in S => j \in S
  BY <1>1, ForestSets
<1> QED BY <1>1, <1>2, ForestSets DEF Tree!Closed, Links

LEMMA MoveStep ==
    ASSUME IInv, NEW i \in Ids, NEW p \in Ids \cup {Root}, NEW name \in Names, MoveNode(i, p, name)
    PROVE  Tree!Move
<1>1. /\ i \in Rows /\ Writable(p) /\ p \notin Subtree(i) /\ row'[i].parent = p
      /\ \A j \in Ids : row'[j].status = row[j].status
      /\ \A j \in Rows \ {i} : row'[j].parent = row[j].parent
  BY MoveEffect
<1>2. Trashed' = Trashed
  BY <1>1 DEF Trashed
<1>3. p \in {Root} \cup Tree!Active /\ i \in Tree!Present
  BY <1>1, DestinationIs, ForestSets
<1>4. Links(row') = [Links(row) EXCEPT ![i] = p]
  BY <1>1 DEF Links, Rows
<1>5. Subtree(i) \in SUBSET Tree!Present /\ Tree!IsSubtree(Subtree(i), i)
  BY <1>1, SubtreeInForest
<1> QED BY <1>1, <1>2, <1>3, <1>4, <1>5 DEF Tree!Move, Links

LEMMA RestoreStep ==
    ASSUME IInv, NEW i \in Ids, NEW asked \in Ids \cup {Root}, RestoreNode(i, asked)
    PROVE  Tree!Restore
<1>1. PICK p \in Ids \cup {Root} :
         /\ i \in Trashed /\ i \in Rows /\ Subtree(i) \subseteq Trashed
         /\ Writable(p) /\ row'[i].parent = p
         /\ \A j \in Subtree(i) : row'[j].status = "active"
         /\ \A j \in Subtree(i) \ {i} : row'[j].parent = row[j].parent
         /\ \A j \in Ids \ Subtree(i) : row'[j] = row[j]
  BY RestoreEffect
<1>2. i \in Subtree(i)
  BY <1>1, SubtreeByParents DEF IInv
<1>3. Trashed' = Trashed \ Subtree(i)
  BY <1>1 DEF Trashed
<1>4. Links(row') = [Links(row) EXCEPT ![i] = p]
  BY <1>1, <1>2 DEF Links, Trashed
<1>5. p \in {Root} \cup Tree!Active
  BY <1>1, DestinationIs, ForestSets
<1>6. Subtree(i) \in SUBSET Tree!Present /\ Tree!IsSubtree(Subtree(i), i)
  BY <1>1, SubtreeInForest
<1> QED BY <1>1, <1>3, <1>4, <1>5, <1>6 DEF Tree!Restore, Links

LEMMA TrashStep ==
    ASSUME IInv, (\E i \in Ids : TrashNode(i)) \/ TrashAll
    PROVE  Tree!Trash
<1>1. PICK S, o : Turns(S, o)
  BY TrashEffect, TrashAllEffect
<1>2. DownClosed(S) /\ Turned(S, o) /\ S \subseteq Rows
  BY <1>1 DEF Turns, DownClosed
<1>3. Trashed' = Trashed \cup S
  BY <1>2 DEF Turned
<1>4. Links(row') = Links(row)
  <2>1. \A j \in Ids : /\ row'[j].status = "none" <=> row[j].status = "none"
                       /\ row'[j].parent = row[j].parent
    BY <1>2 DEF Turned, Rows
  <2> QED BY <2>1 DEF Links
<1>5. S \in SUBSET Tree!Present /\ Tree!Closed(S)
  BY <1>2, DownClosedInForest
<1> QED BY <1>3, <1>4, <1>5 DEF Tree!Trash, Links

LEMMA PurgeStep ==
    ASSUME IInv, WholePages, (\E i \in Ids : PurgeNode(i)) \/ PurgeListed
    PROVE  Tree!Purge
<1>1. PICK S : Removes(S)
  BY PurgeNodesEffect DEF PurgeNode, PurgeListed
<1>2. DownClosed(S) /\ S \subseteq Trashed /\ Trashed' = Trashed \ S
  BY <1>1, RemovedRows DEF Removes
<1>3. Links(row') = [j \in Ids |-> IF j \in S THEN -1 ELSE Links(row)[j]]
  BY <1>1 DEF Removes, Links, NoNode
<1>4. Tree!Closed(S)
  BY <1>2, DownClosedInForest
<1> QED BY <1>2, <1>3, <1>4 DEF Tree!Purge, Links

\* Renaming, ageing and reading leave the forest alone.
LEMMA SameForest ==
    ASSUME \A j \in Ids : row'[j].status = row[j].status /\ row'[j].parent = row[j].parent
    PROVE  UNCHANGED Tree!vars
BY DEF Tree!vars, Trashed

\* Every step of the table is a step of Forest, or none.
LEMMA NextStep ==
    ASSUME WholePages, FreshTargets, IInv, [Next]_vars
    PROVE  [Tree!Next]_(Tree!vars)
<1>1. CASE UNCHANGED vars
  BY <1>1, SameForest DEF vars
<1>2. ASSUME NEW p \in Ids \cup {Root}, NEW name \in Names, NEW kind \in {"file", "folder"},
             Create(p, kind, name)
      PROVE  Tree!Next
  BY <1>2, CreateStep DEF Tree!Next
<1>3. ASSUME NEW p \in Ids \cup {Root}, NEW name \in Names, NEW i \in Ids, MoveNode(i, p, name)
      PROVE  Tree!Next
  BY <1>3, MoveStep DEF Tree!Next
<1>4. ASSUME NEW name \in Names, NEW i \in Ids, Rename(i, name)
      PROVE  UNCHANGED Tree!vars
  BY <1>4, RenameEffect, SameForest
<1>5. ASSUME NEW i \in Ids, TrashNode(i) \/ PurgeNode(i) \/ \E name \in Names : CopyNode(i, name)
      PROVE  Tree!Next
  BY <1>5, TrashStep, PurgeStep, CopyStep DEF Tree!Next
<1>6. ASSUME NEW i \in Ids, NEW p \in Ids \cup {Root}, RestoreNode(i, p)
      PROVE  Tree!Next
  BY <1>6, RestoreStep DEF Tree!Next
<1>7. CASE TrashAll \/ PurgeListed
  BY <1>7, TrashStep, PurgeStep DEF Tree!Next
<1>8. CASE Age
  BY <1>8, AgeEffect, SameForest
<1>9. CASE ListTrash \/ ListExpired \/ CallEnds \/ \E p \in Ids \cup {Root} : LoadTarget(p)
  <2>1. row' = row
    BY <1>9 DEF ListTrash, ListExpired, CallEnds, LoadTarget
  <2> QED BY <2>1, SameForest
<1> QED BY <1>1, <1>2, <1>3, <1>4, <1>5, <1>6, <1>7, <1>8, <1>9 DEF Next

LEMMA InitStep == Init => Tree!Init
BY DEF Init, Tree!Init, NoNode, Trashed

\* Selecting rows by path prefix is acting on subtrees: no operation reaches outside the
\* subtree it was asked for, makes a cycle, puts anything under the trash or removes a live
\* node (docs/architecture.md 5.2, RelocateSubtree, SetSubtreeStatus, copyTree, PurgeNodes).
THEOREM TableImplementsForest ==
    ASSUME WholePages, FreshTargets
    PROVE  Spec => PathsImplementTree
<1>1. SoundTree /\ [Next]_vars => [Tree!Next]_(Tree!vars)
  BY NextStep DEF SoundTree
<1> QED BY <1>1, InitStep, TreeInvariance, PTL DEF Spec, PathsImplementTree, Tree!Spec

-----------------------------------------------------------------------------
(* Live siblings have different names.                                     *)

\* Entries that would be siblings when a trashed folder comes back differ as well.
Together(i, j) == (i \in Active /\ j \in Active) \/ row[i].parent \in Trashed
SiblingsDiffer ==
    \A i \in Rows, j \in Rows :
        row[i].parent = row[j].parent /\ row[i].lower = row[j].lower /\ Together(i, j) => i = j

\* New rows below a live place, the top under a free name.
LEMMA AddedDiffer ==
    ASSUME IInv, SiblingsDiffer, NEW S, Adds(S), NEW i \in S, NEW p \in {Root} \cup Active,
           row'[i].parent = p, NameFree(p, row'[i].lower, Root),
           \A j \in S \ {i} : row'[j].parent \in S,
           \A j \in S \ {i}, k \in S \ {i} :
              row'[j].parent = row'[k].parent /\ row'[j].lower = row'[k].lower => j = k
    PROVE  SiblingsDiffer'
<1>1. /\ S \subseteq Ids \ Rows /\ Rows' = Rows \cup S /\ \A j \in S : row'[j].status = "active"
      /\ \A j \in Ids \ S : row'[j] = row[j]
  BY DEF Adds
<1>2. Rows \subseteq Ids /\ Root \notin Ids /\ Active \subseteq Rows /\ Trashed \subseteq Rows
  BY DEF Rows, Active, Trashed, Ids, Root
<1>3. Trashed' = Trashed /\ Active' = Active \cup S
  BY <1>1, <1>2 DEF Trashed, Active
<1>4. \A j \in Rows : row'[j] = row[j] /\ row'[j].parent \in Rows \cup {Root}
  BY <1>1, <1>2, TrashBelow DEF IInv
<1>5. p \notin S /\ p \notin Trashed
  BY <1>1, <1>2 DEF Active, Trashed, Root
<1> SUFFICES ASSUME NEW j \in Rows', NEW k \in Rows', row'[j].parent = row'[k].parent,
                    row'[j].lower = row'[k].lower, Together(j, k)'
             PROVE  j = k
  BY DEF SiblingsDiffer
<1>6. CASE j \in Rows /\ k \in Rows
  <2>1. Together(j, k)
    BY <1>1, <1>3, <1>4, <1>6 DEF Together
  <2> QED BY <1>4, <1>6, <2>1 DEF SiblingsDiffer
<1>7. ASSUME NEW h \in Rows, row'[h].parent = p, row'[h].lower = row'[i].lower, h \in Active
      PROVE  FALSE
  BY <1>2, <1>4, <1>7 DEF NameFree
<1>8. CASE j = i /\ k \in Rows
  BY <1>1, <1>2, <1>3, <1>5, <1>7, <1>8 DEF Together
<1>9. CASE k = i /\ j \in Rows
  BY <1>1, <1>2, <1>3, <1>5, <1>7, <1>9 DEF Together
<1>10. CASE j = i /\ k = i
  BY <1>10
<1>11. CASE j \in S \ {i} \/ k \in S \ {i}
  BY <1>1, <1>2, <1>4, <1>5, <1>11
<1> QED BY <1>1, <1>6, <1>8, <1>9, <1>10, <1>11

LEMMA CreateDiffers ==
    ASSUME IInv, FoldsAlike, Folded, SiblingsDiffer, NEW p \in Ids \cup {Root},
           NEW kind \in {"file", "folder"}, NEW name \in Names, Create(p, kind, name)
    PROVE  SiblingsDiffer'
<1>1. Writable(p) /\ Adds({NextId}) /\ row'[NextId].parent = p /\ NameFree(p, row'[NextId].lower, Root)
  BY CreateEffect DEF Filed
<1>2. p \in {Root} \cup Active
  BY <1>1, DestinationIs
<1> QED BY <1>1, <1>2, AddedDiffer

LEMMA CopyDiffers ==
    ASSUME IInv, SiblingsDiffer, FreshTargets, NEW i \in Ids, NEW name \in Names, CopyNode(i, name)
    PROVE  SiblingsDiffer'
<1> DEFINE N == Visited(i)
           c == [j \in N |-> CopyId(N, j)]
           S == { c[j] : j \in N }
           p == call.place.id
<1>1. /\ i \in N /\ p \in Ids \cup {Root} /\ Writable(p)
      /\ \A j \in N, k \in N : c[j] = c[k] => j = k
      /\ Adds(S)
      /\ row'[c[i]].parent = p /\ NameFree(p, row'[c[i]].lower, Root)
      /\ \A j \in N \ {i} : row[j].parent \in N /\ row'[c[j]].parent = c[row[j].parent]
      /\ \A j \in N \ {i}, k \in N \ {i} :
            row[j].parent = row[k].parent /\ row'[c[j]].lower = row'[c[k]].lower => j = k
  BY CopyEffect
<1>2. p \in {Root} \cup Active
  BY <1>1, DestinationIs
<1> HIDE DEF N, c, p
<1>3. c[i] \in S /\ \A j \in S \ {c[i]} : row'[j].parent \in S
  BY <1>1
<1>4. ASSUME NEW j \in N \ {i}, NEW k \in N \ {i}, row'[c[j]].parent = row'[c[k]].parent,
             row'[c[j]].lower = row'[c[k]].lower
      PROVE  c[j] = c[k]
  BY <1>1, <1>4
<1>5. \A j \in S \ {c[i]}, k \in S \ {c[i]} :
         row'[j].parent = row'[k].parent /\ row'[j].lower = row'[k].lower => j = k
  BY <1>4
<1> HIDE DEF S
<1> QED BY <1>1, <1>2, <1>3, <1>5, AddedDiffer

\* One live entry gets another name, or another parent as well.
LEMMA OneRenamedDiffers ==
    ASSUME IInv, SiblingsDiffer, NEW i \in Active, NEW p \in {Root} \cup Active,
           row'[i].parent = p, NameFree(p, row'[i].lower, i),
           \A j \in Ids : row'[j].status = row[j].status,
           \A j \in Rows \ {i} : row'[j].parent = row[j].parent /\ row'[j].lower = row[j].lower
    PROVE  SiblingsDiffer'
<1>1. Rows' = Rows /\ Active' = Active /\ Trashed' = Trashed
  BY DEF Rows, Active, Trashed
<1>2. p \notin Trashed /\ Active \subseteq Rows
  BY DEF Active, Trashed, Rows, Ids, Root
<1> SUFFICES ASSUME NEW j \in Rows, NEW k \in Rows, row'[j].parent = row'[k].parent,
                    row'[j].lower = row'[k].lower, Together(j, k)'
             PROVE  j = k
  BY <1>1 DEF SiblingsDiffer
<1>3. ASSUME NEW h \in Active \ {i}, row'[h].parent = p, row'[h].lower = row'[i].lower PROVE FALSE
  BY <1>2, <1>3 DEF NameFree
<1>4. CASE j # i /\ k # i
  <2>1. Together(j, k)
    BY <1>1, <1>4 DEF Together
  <2> QED BY <1>4, <2>1 DEF SiblingsDiffer
<1>5. CASE j = i \/ k = i
  BY <1>1, <1>2, <1>3, <1>5 DEF Together
<1> QED BY <1>4, <1>5

LEMMA RenameDiffers ==
    ASSUME IInv, FoldsAlike, Folded, SiblingsDiffer, OrderlyTrash, NEW i \in Ids, NEW name \in Names,
           Rename(i, name)
    PROVE  SiblingsDiffer'
<1>1. /\ i \in Rows /\ i \in Active /\ NameFree(row[i].parent, row'[i].lower, i)
      /\ \A j \in Ids : row'[j].status = row[j].status /\ row'[j].parent = row[j].parent
      /\ \A j \in Ids \ {i} : row'[j].lower = row[j].lower
  BY RenameEffect DEF OrderlyTrash, Filed
<1>2. row[i].parent \in {Root} \cup Active
  <2>1. row[i].parent \in Rows \cup {Root} /\ row[i].parent \notin Trashed
    BY <1>1, TrashBelow DEF IInv, Active, Trashed
  <2>2. Rows = Active \cup Trashed
    BY RowType DEF IInv, Tidy, Rows, Active, Trashed, Kept
  <2> QED BY <2>1, <2>2
<1>3. \A j \in Rows : j \in Ids
  BY DEF Rows
<1> QED BY <1>1, <1>2, <1>3, OneRenamedDiffers

LEMMA MoveDiffers ==
    ASSUME IInv, FoldsAlike, Folded, SiblingsDiffer, OrderlyTrash, NEW i \in Ids, NEW p \in Ids \cup {Root},
           NEW name \in Names, MoveNode(i, p, name)
    PROVE  SiblingsDiffer'
<1>1. /\ i \in Active /\ Writable(p) /\ NameFree(p, row'[i].lower, i) /\ row'[i].parent = p
      /\ \A j \in Ids : row'[j].status = row[j].status
      /\ \A j \in Rows \ {i} : row'[j].parent = row[j].parent /\ row'[j].lower = row[j].lower
  BY MoveEffect DEF OrderlyTrash, Filed
<1>2. p \in {Root} \cup Active
  BY <1>1, DestinationIs
<1> QED BY <1>1, <1>2, OneRenamedDiffers

\* The entries below a folder of the trash differ already, and its own name is free.
LEMMA RestoreDiffers ==
    ASSUME IInv, FoldsAlike, Folded, SiblingsDiffer, NEW i \in Ids, NEW asked \in Ids \cup {Root},
           RestoreNode(i, asked)
    PROVE  SiblingsDiffer'
<1> DEFINE S == Subtree(i)
<1>1. PICK p \in Ids \cup {Root} :
         /\ i \in Trashed /\ i \in Rows /\ S \subseteq Trashed /\ Rows' = Rows
         /\ Writable(p) /\ p \notin S /\ row'[i].parent = p /\ NameFree(p, row'[i].lower, i)
         /\ \A j \in S : row'[j].status = "active"
         /\ \A j \in S \ {i} : row'[j].parent = row[j].parent /\ row'[j].lower = row[j].lower
         /\ \A j \in Ids \ S : row'[j] = row[j]
  BY RestoreEffect DEF Filed
<1>2. /\ i \in S /\ S \subseteq Rows
      /\ \A j \in Rows \ {i} : j \in S <=> row[j].parent \in S
  BY <1>1, SubtreeByParents DEF IInv
<1>3. p \notin Trashed /\ Rows \subseteq Ids /\ Active \subseteq Rows \ S
  BY <1>1, DestinationIs DEF Rows, Active, Trashed
<1> HIDE DEF S
<1>4. Trashed' = Trashed \ S /\ Active' = Active \cup S
  BY <1>1, <1>2, <1>3 DEF Trashed, Active
<1> SUFFICES ASSUME NEW j \in Rows, NEW k \in Rows, row'[j].parent = row'[k].parent,
                    row'[j].lower = row'[k].lower, Together(j, k)'
             PROVE  j = k
  BY <1>1 DEF SiblingsDiffer
<1>5. CASE j \in S \ {i} /\ k \in S \ {i}
  <2>1. Together(j, k)
    BY <1>1, <1>2, <1>5 DEF Together
  <2> QED BY <1>1, <1>2, <1>5, <2>1 DEF SiblingsDiffer
<1>6. CASE j \notin S /\ k \notin S
  <2>1. row'[j] = row[j] /\ row'[k] = row[k]
    BY <1>1, <1>3, <1>6
  <2>2. Together(j, k)
    BY <1>4, <1>6, <2>1 DEF Together
  <2> QED BY <2>1, <2>2 DEF SiblingsDiffer
<1>7. ASSUME NEW h \in Rows \ S, row'[h].parent = p, row'[h].lower = row'[i].lower,
             h \in Active' \/ p \in Trashed'
      PROVE  FALSE
  BY <1>1, <1>2, <1>3, <1>4, <1>7 DEF NameFree
<1>8. CASE (j \in S /\ k \notin S) \/ (j \notin S /\ k \in S)
  <2>1. \A h \in Rows \ S : row'[h].parent = row[h].parent /\ row[h].parent \notin S
    BY <1>1, <1>2, <1>3
  <2>2. \A h \in S \ {i} : row'[h].parent \in S
    BY <1>1, <1>2
  <2> QED BY <1>1, <1>2, <1>7, <1>8, <2>1, <2>2 DEF Together
<1>9. CASE j \in S /\ k \in S /\ (j = i \/ k = i)
  <2>1. \A h \in S \ {i} : row'[h].parent \in S
    BY <1>1, <1>2
  <2> QED BY <1>1, <1>9, <2>1
<1> QED BY <1>5, <1>6, <1>8, <1>9

\* What goes to the trash together was live, and so had different names.
LEMMA TrashDiffers ==
    ASSUME IInv, SiblingsDiffer, OrderlyTrash, (\E i \in Ids : TrashNode(i)) \/ TrashAll
    PROVE  SiblingsDiffer'
<1>1. PICK S, o : Turns(S, o)
  BY TrashEffect, TrashAllEffect
<1>2. DownClosed(S) /\ Turned(S, o) /\ S \subseteq Rows /\ S \cap Trashed = {}
  BY <1>1 DEF Turns, DownClosed, OrderlyTrash
<1>3. /\ Rows' = Rows /\ Trashed' = Trashed \cup S
      /\ \A j \in Rows : /\ row'[j].parent = row[j].parent /\ row'[j].lower = row[j].lower
                         /\ row'[j].status = "active" => row[j].status = "active"
  <2>1. Rows \subseteq Ids
    BY DEF Rows
  <2> QED BY <1>2, <2>1 DEF Turned
<1>4. Rows = Active \cup Trashed
  BY RowType DEF IInv, Tidy, Rows, Active, Trashed, Kept
<1>5. \A j \in Rows : row[j].parent \in S => j \in S
  BY <1>2, ParentInside DEF IInv
<1> SUFFICES ASSUME NEW j \in Rows, NEW k \in Rows, row'[j].parent = row'[k].parent,
                    row'[j].lower = row'[k].lower, Together(j, k)'
             PROVE  j = k
  BY <1>3 DEF SiblingsDiffer
<1>6. Together(j, k)
  BY <1>2, <1>3, <1>4, <1>5 DEF Together, Active
<1> QED BY <1>3, <1>6 DEF SiblingsDiffer

\* Nothing changes but that rows are gone, or nothing that matters here.
LEMMA FewerDiffer ==
    ASSUME SiblingsDiffer, Rows' \subseteq Rows,
           \A j \in Rows' : /\ row'[j].status = row[j].status /\ row'[j].parent = row[j].parent
                            /\ row'[j].lower = row[j].lower,
           Trashed' \subseteq Trashed
    PROVE  SiblingsDiffer'
<1> SUFFICES ASSUME NEW j \in Rows', NEW k \in Rows', row'[j].parent = row'[k].parent,
                    row'[j].lower = row'[k].lower, Together(j, k)'
             PROVE  j = k
  BY DEF SiblingsDiffer
<1>1. Together(j, k)
  BY DEF Together, Active
<1> QED BY <1>1 DEF SiblingsDiffer

\* Every row that a step adds or renames is found under its name, and no other changes.
LEMMA NextFolded ==
    ASSUME WholePages, FreshTargets, FoldsAlike, IInv, Folded, [Next]_vars
    PROVE  Folded'
<1>1. Rows \subseteq Ids
  BY DEF Rows
<1>2. ASSUME Rows' \subseteq Rows, \A j \in Rows' : row'[j].name = row[j].name /\ row'[j].lower = row[j].lower
      PROVE  Folded'
  BY <1>2 DEF Folded
<1>3. ASSUME row' = row PROVE Folded'
  BY <1>2, <1>3 DEF Rows
<1>4. CASE UNCHANGED vars
  BY <1>3, <1>4 DEF vars
<1>5. ASSUME NEW S, Adds(S), \A j \in S : row'[j].lower = Lower[row'[j].name]
      PROVE  Folded'
  BY <1>1, <1>5 DEF Adds, Folded
<1>6. ASSUME NEW i \in Rows, NEW p, NEW q, Filed(i, p, q), Rows' = Rows,
             \A j \in Rows \ {i} : row'[j].name = row[j].name /\ row'[j].lower = row[j].lower
      PROVE  Folded'
  BY <1>6 DEF Filed, Folded
<1>7. ASSUME NEW p \in Ids \cup {Root}, NEW name \in Names, NEW kind \in {"file", "folder"},
             Create(p, kind, name)
      PROVE  Folded'
  <2>1. Adds({NextId}) /\ row'[NextId].lower = Lower[row'[NextId].name]
    BY <1>7, CreateEffect DEF Filed
  <2> QED BY <1>5, <2>1
<1>8. ASSUME NEW p \in Ids \cup {Root}, NEW name \in Names, NEW i \in Ids, MoveNode(i, p, name)
      PROVE  Folded'
  <2>1. /\ i \in Rows /\ Filed(i, p, i) /\ \A j \in Ids : row'[j].status = row[j].status
        /\ \A j \in Rows \ {i} : row'[j].name = row[j].name /\ row'[j].lower = row[j].lower
    BY <1>8, MoveEffect
  <2>2. Rows' = Rows
    BY <2>1 DEF Rows
  <2> QED BY <1>6, <2>1, <2>2
<1>9. ASSUME NEW name \in Names, NEW i \in Ids, Rename(i, name)
      PROVE  Folded'
  <2>1. /\ i \in Rows /\ Filed(i, row[i].parent, i) /\ \A j \in Ids : row'[j].status = row[j].status
        /\ \A j \in Ids \ {i} : row'[j].name = row[j].name /\ row'[j].lower = row[j].lower
    BY <1>9, RenameEffect
  <2>2. Rows' = Rows
    BY <2>1 DEF Rows
  <2> QED BY <1>1, <1>6, <2>1, <2>2
<1>10. CASE (\E i \in Ids : TrashNode(i)) \/ TrashAll
  <2>1. PICK S, o : Turns(S, o)
    BY <1>10, TrashEffect, TrashAllEffect
  <2>2. Rows' = Rows /\ \A j \in Rows : row'[j].name = row[j].name /\ row'[j].lower = row[j].lower
    BY <1>1, <2>1 DEF Turns, Turned
  <2> QED BY <1>2, <2>2
<1>11. ASSUME NEW i \in Ids, NEW name \in Names, CopyNode(i, name) PROVE Folded'
  <2> DEFINE N == Visited(i)
             c == [j \in N |-> CopyId(N, j)]
             S == { c[j] : j \in N }
  <2>1. Adds(S) /\ \A j \in N : row'[c[j]].lower = Lower[row'[c[j]].name]
    BY <1>11, CopyEffect
  <2>2. \A k \in S : row'[k].lower = Lower[row'[k].name]
    BY <2>1
  <2> HIDE DEF S
  <2> QED BY <1>5, <2>1, <2>2
<1>12. ASSUME NEW i \in Ids, NEW asked \in Ids \cup {Root}, RestoreNode(i, asked)
       PROVE  Folded'
  <2>1. PICK p \in Ids \cup {Root} :
           /\ i \in Rows /\ Rows' = Rows /\ Filed(i, p, i)
           /\ \A j \in Subtree(i) \ {i} : row'[j].name = row[j].name /\ row'[j].lower = row[j].lower
           /\ \A j \in Ids \ Subtree(i) : row'[j] = row[j]
    BY <1>12, RestoreEffect
  <2> QED BY <1>1, <1>6, <2>1
<1>13. CASE Age
  <2>1. Rows' = Rows
    BY <1>13, AgeEffect DEF Rows
  <2> QED BY <1>1, <1>2, <1>13, <2>1, AgeEffect
<1>14. CASE (\E i \in Ids : PurgeNode(i)) \/ PurgeListed
  <2>1. PICK S : Removes(S)
    BY <1>14, PurgeNodesEffect DEF PurgeNode, PurgeListed
  <2>2. Rows' = Rows \ S /\ \A j \in Ids \ S : row'[j] = row[j]
    BY <2>1, RemovedRows
  <2> QED BY <1>1, <1>2, <2>2
<1>15. CASE ListTrash \/ ListExpired \/ CallEnds \/ \E p \in Ids \cup {Root} : LoadTarget(p)
  BY <1>3, <1>15 DEF ListTrash, ListExpired, CallEnds, LoadTarget
<1> QED BY <1>4, <1>7, <1>8, <1>9, <1>10, <1>11, <1>12, <1>13, <1>14, <1>15 DEF Next

LEMMA NextDiffers ==
    ASSUME WholePages, FreshTargets, FoldsAlike, OrderlyTrash, IInv, Folded, SiblingsDiffer, [Next]_vars
    PROVE  SiblingsDiffer'
<1>2. ASSUME row' = row PROVE SiblingsDiffer'
  BY <1>2, FewerDiffer DEF Rows, Trashed
<1>3. CASE UNCHANGED vars
  BY <1>2, <1>3 DEF vars
<1>4. ASSUME NEW p \in Ids \cup {Root}, NEW name \in Names, NEW kind \in {"file", "folder"},
             Create(p, kind, name)
      PROVE  SiblingsDiffer'
  BY <1>4, CreateDiffers
<1>5. ASSUME NEW p \in Ids \cup {Root}, NEW name \in Names, NEW i \in Ids, MoveNode(i, p, name)
      PROVE  SiblingsDiffer'
  BY <1>5, MoveDiffers
<1>6. ASSUME NEW name \in Names, NEW i \in Ids, Rename(i, name)
      PROVE  SiblingsDiffer'
  BY <1>6, RenameDiffers
<1>7. ASSUME NEW i \in Ids, TrashNode(i) \/ \E name \in Names : CopyNode(i, name)
      PROVE  SiblingsDiffer'
  BY <1>7, TrashDiffers, CopyDiffers
<1>8. ASSUME NEW i \in Ids, NEW p \in Ids \cup {Root}, RestoreNode(i, p)
      PROVE  SiblingsDiffer'
  BY <1>8, RestoreDiffers
<1>9. CASE TrashAll
  BY <1>9, TrashDiffers
<1>10. CASE Age
  BY <1>10, AgeEffect, FewerDiffer DEF Rows, Trashed
<1>11. CASE (\E i \in Ids : PurgeNode(i)) \/ PurgeListed
  <2>1. PICK S : Removes(S)
    BY <1>11, PurgeNodesEffect DEF PurgeNode, PurgeListed
  <2>2. Rows' = Rows \ S /\ Trashed' = Trashed \ S /\ \A j \in Ids \ S : row'[j] = row[j]
    BY <2>1, RemovedRows
  <2>3. \A j \in Rows' : row'[j] = row[j]
    BY <2>2 DEF Rows
  <2> QED BY <2>2, <2>3, FewerDiffer
<1>12. CASE ListTrash \/ ListExpired \/ CallEnds \/ \E p \in Ids \cup {Root} : LoadTarget(p)
  BY <1>2, <1>12 DEF ListTrash, ListExpired, CallEnds, LoadTarget
<1> QED BY <1>3, <1>4, <1>5, <1>6, <1>7, <1>8, <1>9, <1>10, <1>11, <1>12 DEF Next

\* The conditions of NamesUnique, and what it rests on.
NamesHold ==
    WholePages /\ FreshTargets /\ FoldsAlike /\ OrderlyTrash => IInv /\ Folded /\ SiblingsDiffer

\* Live siblings have different names (resolveName, docs/architecture.md 5.3), whatever is
\* created, renamed, moved, trashed, restored and copied, as long as every stored name is
\* the lowercase (FoldsAlike), no folder is trashed over entries that were trashed before
\* it, no entry of the trash is edited, a subtree fits a page and a copy's target is fresh.
THEOREM SiblingNames == Spec => []NamesUnique
<1>1. Init => NamesHold
  BY InitInv DEF Init, NamesHold, Folded, SiblingsDiffer, Rows, NoNode
<1>2. NamesHold /\ [Next]_vars => NamesHold'
  <2> SUFFICES ASSUME NamesHold, [Next]_vars, WholePages, FreshTargets, FoldsAlike, OrderlyTrash
               PROVE  IInv' /\ Folded' /\ SiblingsDiffer'
    BY DEF NamesHold
  <2>1. IInv /\ Folded /\ SiblingsDiffer
    BY DEF NamesHold
  <2> QED BY <2>1, NextInv, NextFolded, NextDiffers
<1>3. NamesHold => NamesUnique
  <2> SUFFICES ASSUME NamesHold, WholePages, FreshTargets, FoldsAlike, OrderlyTrash,
                      NEW i \in Active, NEW j \in Active, row[i].parent = row[j].parent,
                      Lower[row[i].name] = Lower[row[j].name]
               PROVE  i = j
    BY DEF NamesUnique
  <2>1. i \in Rows /\ j \in Rows /\ Folded /\ SiblingsDiffer
    BY DEF NamesHold, Active, Rows
  <2>2. row[i].lower = row[j].lower
    BY <2>1 DEF Folded
  <2> QED BY <2>1, <2>2 DEF SiblingsDiffer, Together
<1> QED BY <1>1, <1>2, <1>3, PTL DEF Spec

-----------------------------------------------------------------------------
(* The trash list covers the trash.                                        *)

\* What was trashed together has the same original parent, and the top was under it.
Grouped ==
    \A i \in Trashed :
        row[i].orig = IF row[i].parent \in Trashed THEN row[row[i].parent].orig ELSE row[i].parent

\* Statements that leave some entries of the trash, with their parents, as they are.
LEMMA SameGroups ==
    ASSUME Grouped, Trashed' \subseteq Trashed,
           \A i \in Trashed' : /\ row'[i].orig = row[i].orig /\ row'[i].parent = row[i].parent
                               /\ row[i].parent \in Trashed => row[i].parent \in Trashed'
    PROVE  Grouped'
BY DEF Grouped

LEMMA TrashGroups ==
    ASSUME IInv, Grouped, TrashLeftAlone, (\E i \in Ids : TrashNode(i)) \/ TrashAll
    PROVE  Grouped'
<1>1. PICK S, o : Turns(S, o)
  BY TrashEffect, TrashAllEffect
<1>2. /\ DownClosed(S) /\ Turned(S, o) /\ S \subseteq Rows
      /\ \A j \in S : row[j].parent \in S \cup {o}
      /\ o \notin S /\ o \notin Trashed
  BY <1>1 DEF Turns, DownClosed, TrashLeftAlone
<1>3. /\ Trashed' = Trashed \cup S
      /\ \A j \in S : row'[j].orig = o /\ row'[j].parent = row[j].parent
      /\ \A j \in Trashed \ S : row'[j] = row[j]
  <2>1. Trashed \subseteq Ids
    BY DEF Trashed
  <2> QED BY <1>2, <2>1 DEF Turned
<1>4. \A j \in Trashed \ S : row[j].parent \notin S
  <2>1. Trashed \subseteq Rows
    BY DEF Trashed, Rows
  <2> QED BY <1>2, <2>1, ParentInside DEF IInv
<1> SUFFICES ASSUME NEW i \in Trashed'
             PROVE  row'[i].orig = IF row'[i].parent \in Trashed' THEN row'[row'[i].parent].orig
                                                                   ELSE row'[i].parent
  BY DEF Grouped
<1>5. CASE i \in S
  BY <1>2, <1>3, <1>5
<1>6. CASE i \notin S
  BY <1>3, <1>4, <1>6 DEF Grouped
<1> QED BY <1>5, <1>6

LEMMA NextGroups ==
    ASSUME WholePages, FreshTargets, TrashLeftAlone, IInv, Grouped, [Next]_vars
    PROVE  Grouped'
<1>2. /\ Trashed \subseteq Rows /\ Rows \subseteq Ids /\ Active \cap Trashed = {}
  BY DEF Trashed, Active, Rows
<1>3. ASSUME \A j \in Ids : row'[j].status = row[j].status,
             \A j \in Trashed : row'[j].orig = row[j].orig /\ row'[j].parent = row[j].parent
      PROVE  Grouped'
  <2>1. Trashed' = Trashed
    BY <1>3 DEF Trashed
  <2> QED BY <1>3, <2>1, SameGroups
<1>4. ASSUME row' = row PROVE Grouped'
  BY <1>3, <1>4
<1>5. ASSUME NEW S, Adds(S) PROVE Grouped'
  <2>1. Trashed' = Trashed /\ \A j \in Trashed : row'[j] = row[j]
    BY <1>2, <1>5 DEF Adds, Trashed
  <2> QED BY <2>1, SameGroups
<1>6. CASE UNCHANGED vars
  BY <1>4, <1>6 DEF vars
<1>7. ASSUME NEW p \in Ids \cup {Root}, NEW name \in Names, NEW kind \in {"file", "folder"},
             Create(p, kind, name)
      PROVE  Grouped'
  BY <1>5, <1>7, CreateEffect
<1>8. ASSUME NEW p \in Ids \cup {Root}, NEW name \in Names, NEW i \in Ids, MoveNode(i, p, name)
      PROVE  Grouped'
  <2>1. /\ i \in Active
        /\ \A j \in Ids : row'[j].status = row[j].status /\ (j \in Rows => row'[j].orig = row[j].orig)
        /\ \A j \in Rows \ {i} : row'[j].parent = row[j].parent
    BY <1>8, MoveEffect DEF TrashLeftAlone
  <2> QED BY <1>2, <1>3, <2>1
<1>9. ASSUME NEW name \in Names, NEW i \in Ids, Rename(i, name)
      PROVE  Grouped'
  BY <1>2, <1>3, <1>9, RenameEffect
<1>10. CASE (\E i \in Ids : TrashNode(i)) \/ TrashAll
  BY <1>10, TrashGroups
<1>11. ASSUME NEW i \in Ids, NEW name \in Names, CopyNode(i, name) PROVE Grouped'
  BY <1>5, <1>11, CopyEffect
<1>12. ASSUME NEW i \in Ids, NEW asked \in Ids \cup {Root}, RestoreNode(i, asked)
       PROVE  Grouped'
  <2> DEFINE S == Subtree(i)
  <2>1. /\ i \in Rows /\ \A j \in S : row'[j].status = "active"
        /\ \A j \in Ids \ S : row'[j] = row[j]
    BY <1>12, RestoreEffect
  <2>2. \A j \in Rows : row[j].parent \in S => j \in S
    BY <2>1, SubtreeByParents DEF IInv
  <2> HIDE DEF S
  <2>3. Trashed' = Trashed \ S
    BY <1>2, <2>1 DEF Trashed
  <2> QED BY <1>2, <2>1, <2>2, <2>3, SameGroups
<1>13. CASE Age
  BY <1>2, <1>3, <1>13, AgeEffect
<1>14. CASE (\E i \in Ids : PurgeNode(i)) \/ PurgeListed
  <2>1. PICK S : Removes(S)
    BY <1>14, PurgeNodesEffect DEF PurgeNode, PurgeListed
  <2>2. Trashed' = Trashed \ S /\ \A j \in Ids \ S : row'[j] = row[j]
    BY <2>1, RemovedRows
  <2>3. \A j \in Rows : row[j].parent \in S => j \in S
    BY <2>1, ParentInside DEF IInv, Removes
  <2> QED BY <1>2, <2>2, <2>3, SameGroups
<1>15. CASE ListTrash \/ ListExpired \/ CallEnds \/ \E p \in Ids \cup {Root} : LoadTarget(p)
  BY <1>4, <1>15 DEF ListTrash, ListExpired, CallEnds, LoadTarget
<1> QED BY <1>6, <1>7, <1>8, <1>9, <1>10, <1>11, <1>12, <1>13, <1>14, <1>15 DEF Next

\* In a tidy table, the groups of the trash have one top above each entry.
LEMMA OneTop ==
    ASSUME IInv, Grouped, NEW i \in Trashed
    PROVE  \E top : { r \in TrashRoots : i \in Subtree(r) } = {top}
<1> DEFINE t == row[i].path
           D == { n \in 1..Len(t) : t[n] \in Trashed }
<1>1. /\ Tidy(row) /\ Live(row) /\ Trashed \subseteq Rows /\ i \in Rows /\ Root \notin Rows
      /\ Kept(row) = Rows
  BY DEF IInv, Trashed, Rows, Kept, Ids, Root
<1>2. Len(t) \in Nat /\ Len(t) >= 1 /\ t[Len(t)] = i
  BY <1>1, ParentIs
<1>3. ASSUME NEW n \in 1..Len(t)
      PROVE  t[n] \in Rows /\ Len(row[t[n]].path) = n /\ \A m \in 1..n : row[t[n]].path[m] = t[m]
  BY <1>1, Above
<1>4. \A r \in Rows : i \in Subtree(r) <=> Len(row[r].path) \in 1..Len(t) /\ t[Len(row[r].path)] = r
  <2> SUFFICES ASSUME NEW r \in Rows
               PROVE  i \in Subtree(r) <=> Len(row[r].path) \in 1..Len(t) /\ t[Len(row[r].path)] = r
    OBVIOUS
  <2>1. i \in Subtree(r) <=> Len(row[r].path) <= Len(t) /\ t[Len(row[r].path)] = r
    BY <1>1, SubtreeIs
  <2>2. Len(row[r].path) \in Nat /\ Len(row[r].path) >= 1
    BY <1>1, ParentIs
  <2> HIDE DEF t
  <2> QED BY <1>2, <2>1, <2>2
\* The parent of an element of the path is the element before it.
<1>5. ASSUME NEW n \in 1..Len(t)
      PROVE  row[t[n]].parent = IF n = 1 THEN Root ELSE t[n - 1]
  <2>1. t[n] \in Rows /\ Len(row[t[n]].path) = n /\ \A m \in 1..n : row[t[n]].path[m] = t[m]
    BY <1>3
  <2> DEFINE a == t[n]
  <2>2. \/ Len(row[a].path) = 1 /\ row[a].parent = Root
        \/ Len(row[a].path) > 1 /\ row[a].parent = row[a].path[Len(row[a].path) - 1]
    BY <1>1, <2>1, ParentIs
  <2> HIDE DEF a, t
  <2>3. n > 1 => n - 1 \in 1..n
    BY <1>2
  <2> QED BY <2>1, <2>2, <2>3 DEF a
\* From the first trashed element on, everything is trash, with one original parent.
<1>6. D \subseteq Nat /\ Len(t) \in D
  BY <1>2
<1>7. PICK k \in D : \A n \in D : k <= n
  <2> HIDE DEF D
  <2> QED BY <1>6, LeastExists
<1>8. \A n \in k..Len(t) : n \in 1..Len(t) /\ t[n] \in Trashed
  <2>1. k \in 1..Len(t) /\ t[k] \in Trashed
    BY <1>7
  <2> SUFFICES ASSUME NEW n \in k..Len(t) PROVE n \in 1..Len(t) /\ t[n] \in Trashed
    OBVIOUS
  <2> HIDE DEF t
  <2>2. n \in 1..Len(t) /\ k \in 1..n
    BY <1>2, <2>1
  <2>3. t[n] \in Rows /\ row[t[n]].path[k] = t[k] /\ k \in 1..Len(row[t[n]].path)
    BY <1>3, <2>2 DEF t
  <2>4. t[n] \notin Active
    BY <1>1, <2>1, <2>3 DEF Live, Active, Trashed
  <2> QED BY <1>1, <2>2, <2>3, <2>4, RowType DEF Tidy, Rows, Active, Trashed, Kept
<1> DEFINE o == row[t[k]].orig
<1>9. k \in 1..Len(t) /\ k \in Nat /\ t[k] \in Trashed
  BY <1>7
<1>10. o = row[t[k]].parent /\ row[t[k]].parent \notin Trashed
  <2>1. row[t[k]].parent \notin Trashed
    <3>1. CASE k = 1
      BY <1>1, <1>5, <1>9, <3>1
    <3>2. CASE k # 1
      <4>1. k - 1 \in 1..Len(t) /\ ~(k <= k - 1)
        BY <1>2, <1>9, <3>2
      <4>2. t[k - 1] \notin Trashed
        BY <1>7, <4>1
      <4> QED BY <1>5, <1>9, <3>2, <4>2
    <3> QED BY <3>1, <3>2
  <2> QED BY <1>9, <2>1 DEF Grouped
<1> HIDE DEF t, D
<1>11. \A n \in k..Len(t) : row[t[n]].orig = o
  <2> DEFINE B == { n \in k..Len(t) : row[t[n]].orig # o }
  <2>1. SUFFICES ASSUME B # {} PROVE FALSE
    OBVIOUS
  <2>2. B \subseteq Nat
    BY <1>9
  <2>3. PICK n \in B : \A m \in B : n <= m
    BY <2>1, <2>2, LeastExists
  <2>4. n # k
    OBVIOUS
  <2>5. n \in 1..Len(t) /\ n # 1 /\ n - 1 \in k..Len(t) /\ ~(n <= n - 1)
    BY <1>2, <1>9, <2>3, <2>4
  <2>6. row[t[n]].parent = t[n - 1] /\ t[n - 1] \in Trashed /\ t[n] \in Trashed
    BY <1>5, <1>8, <2>3, <2>5
  <2>7. row[t[n]].orig = row[t[n - 1]].orig
    BY <2>6 DEF Grouped
  <2>8. row[t[n - 1]].orig = o
    BY <2>3, <2>5
  <2> QED BY <2>3, <2>7, <2>8
<1>12. { r \in TrashRoots : i \in Subtree(r) } = {t[k]}
  <2>1. t[k] \in TrashRoots
    BY <1>9, <1>10 DEF TrashRoots
  <2>2. i \in Subtree(t[k])
    BY <1>1, <1>3, <1>4, <1>9 DEF t
  <2>3. ASSUME NEW r \in TrashRoots, i \in Subtree(r) PROVE r = t[k]
    <3> DEFINE n == Len(row[r].path)
    <3>1. r \in Trashed /\ row[r].parent = row[r].orig /\ n \in 1..Len(t) /\ t[n] = r
      BY <1>1, <1>4, <2>3 DEF TrashRoots
    <3> HIDE DEF n
    <3>2. k <= n
      BY <1>7, <3>1 DEF D
    <3>3. n \in k..Len(t) /\ row[r].orig = o
      BY <1>9, <1>11, <3>1, <3>2
    <3>4. ASSUME n # k PROVE FALSE
      <4>1. n # 1 /\ n - 1 \in k..Len(t)
        BY <1>9, <3>1, <3>2, <3>3, <3>4
      <4>2. row[r].parent = t[n - 1] /\ t[n - 1] \in Trashed
        BY <1>5, <1>8, <3>1, <4>1
      <4> QED BY <1>10, <3>1, <3>3, <4>2
    <3> QED BY <3>1, <3>4
  <2> QED BY <2>1, <2>2, <2>3
<1> QED BY <1>12

\* The conditions of TrashListed, and what it rests on.
GroupsHold == WholePages /\ FreshTargets /\ TrashLeftAlone => IInv /\ Grouped

\* Every entry of the trash is under exactly one entry of the trash list (TrashRoots,
\* SetSubtreeStatus), as long as no call moves or deletes what is in the trash already, a
\* subtree fits a page and a copy's target is fresh.
THEOREM TrashListCovers == Spec => []TrashListed
<1>1. Init => GroupsHold
  BY InitInv DEF Init, GroupsHold, Grouped, Trashed, NoNode
<1>2. GroupsHold /\ [Next]_vars => GroupsHold'
  <2> SUFFICES ASSUME GroupsHold, [Next]_vars, WholePages, FreshTargets, TrashLeftAlone
               PROVE  IInv' /\ Grouped'
    BY DEF GroupsHold
  <2>1. IInv /\ Grouped
    BY DEF GroupsHold
  <2> QED BY <2>1, NextInv, NextGroups
<1>3. GroupsHold => TrashListed
  <2> SUFFICES ASSUME GroupsHold, WholePages, FreshTargets, TrashLeftAlone, NEW i \in Trashed
               PROVE  Cardinality({ r \in TrashRoots : i \in Subtree(r) }) = 1
    BY DEF TrashListed
  <2>1. PICK top : { r \in TrashRoots : i \in Subtree(r) } = {top}
    BY OneTop DEF GroupsHold
  <2> QED BY <2>1, FS_Singleton
<1> QED BY <1>1, <1>2, <1>3, PTL DEF Spec

=============================================================================
