---------------------------- MODULE ShareLinkProofs ----------------------------
(***************************************************************************)
(* Proofs about ShareLink for any number of links, visitors and nodes, any *)
(* settings and any clock.                                                 *)
(***************************************************************************)
EXTENDS ShareLink, SequenceTheorems, FiniteSetTheorems, TLAPS

-----------------------------------------------------------------------------
(* The inductive invariant.                                                *)

RowTypes ==
    /\ share \in [Links -> Share \cup {NoShare}]
    /\ \A j \in job : j[1] \in Links /\ j[2] \in Share
    /\ now \in 0..MaxTime
    /\ closed \subseteq Links
    /\ changed \in [Links -> 0..MaxTime]

Paths ==
    /\ node \in [Nodes -> Node]
    /\ \A n \in Nodes : node[n].path # <<>> /\ Last(node[n].path) = n

CallTypes ==
    /\ visit \in [Visitors -> Visit]
    /\ \A v \in Visitors :
          /\ visit[v].pc # "idle" => visit[v].link \in Links
          /\ visit[v].pc \in {"resolved", "rooted"} => visit[v].set \in Settings /\ visit[v].node \in Nodes
    /\ access \subseteq Access

\* A link its owner closed is recorded as revoked or expired.
ClosedRows == \A l \in closed : share[l] \in Share /\ share[l].status \in {"revoked", "expired"}

\* The path a call read for the shared node ends in that node.
Roots ==
    \A v \in Visitors :
        /\ visit[v].pc = "rooted" => visit[v].root # <<>> /\ Last(visit[v].root) = visit[v].node
        /\ visit[v].pc = "granted" => visit[v].inside

\* A call that gave a password gave the one the link has, or had until just now;
\* an access token was issued before now and names a link on record.
Opened ==
    /\ \A v \in Visitors : visit[v].fresh =>
          /\ visit[v].pc \in {"resolved", "rooted"}
          /\ visit[v].password \in Passwords
          /\ visit[v].link \in Recorded =>
                \/ visit[v].password = share[visit[v].link].set.password
                \/ changed[visit[v].link] = now
    /\ \A a \in access : a.link \in Recorded /\ a.expires <= now + AccessTTL
    /\ ForgottenPassword

IInv == RowTypes /\ Paths /\ CallTypes /\ ClosedRows /\ Roots /\ Opened

-----------------------------------------------------------------------------
(* Rows and paths.                                                         *)

LEMMA RecordedRows ==
    ASSUME RowTypes, NEW l \in Links
    PROVE  /\ l \in Recorded <=> share[l] \in Share
           /\ l \in Recorded <=> share[l] # NoShare
BY DEF RowTypes, Recorded, Share, NoShare

\* Copying the front of a path gives a path, and the last element of the path
\* is the element of any longer path that it is a prefix of.
LEMMA PrefixEnds ==
    ASSUME NEW s \in Seq(Nodes), NEW t \in Seq(Nodes), s # <<>>, IsPrefix(s, t)
    PROVE  Len(s) \in 1..Len(t) /\ Last(s) = t[Len(s)]
<1>1. Len(s) \in Nat /\ Len(t) \in Nat /\ Len(s) # 0 /\ Len(s) <= Len(t)
  BY LenProperties, EmptySeq DEF IsPrefix
<1>2. \A i \in 1..Len(s) : s[i] \in Nodes /\ t[i] \in Nodes
  BY <1>1, ElementOfSeq
<1>3. SubSeq(s, 1, Len(s))[Len(s)] = s[Len(s)] /\ SubSeq(t, 1, Len(s))[Len(s)] = t[Len(s)]
  <2>1. \A i \in 1..Len(s) - 1 + 1 : SubSeq(s, 1, Len(s))[i] = s[1 + i - 1]
    BY <1>1, <1>2, SubSeqProperties
  <2>2. \A i \in 1..Len(s) - 1 + 1 : SubSeq(t, 1, Len(s))[i] = t[1 + i - 1]
    BY <1>1, <1>2, SubSeqProperties
  <2>. QED  BY <1>1, <2>1, <2>2
<1>. QED  BY <1>1, <1>3 DEF IsPrefix, Last

\* RelocateSubtree keeps a path a path that ends in its own node.
LEMMA RebasedEnds ==
    ASSUME NEW path \in Seq(Nodes), NEW from \in Seq(Nodes), NEW to \in Seq(Nodes),
           from # <<>>, to # <<>>, path # <<>>, IsPrefix(from, path), Last(to) = Last(from)
    PROVE  /\ Rebased(path, from, to) \in Seq(Nodes)
           /\ Rebased(path, from, to) # <<>>
           /\ Last(Rebased(path, from, to)) = Last(path)
<1>. DEFINE rest == SubSeq(path, Len(from) + 1, Len(path))
<1>1. /\ Len(path) \in Nat /\ Len(from) \in Nat /\ Len(to) \in Nat \ {0}
      /\ Len(from) \in 1..Len(path) /\ Last(from) = path[Len(from)]
  BY LenProperties, EmptySeq, PrefixEnds
<1>2. \A i \in Len(from) + 1..Len(path) : path[i] \in Nodes
  BY <1>1, ElementOfSeq
<1>3. /\ rest \in Seq(Nodes)
      /\ Len(rest) = IF Len(from) + 1 <= Len(path) THEN Len(path) - (Len(from) + 1) + 1 ELSE 0
      /\ \A i \in 1..Len(path) - (Len(from) + 1) + 1 : rest[i] = path[Len(from) + 1 + i - 1]
  BY <1>1, <1>2, SubSeqProperties
<1>. HIDE DEF rest
<1>4. /\ to \o rest \in Seq(Nodes)
      /\ Len(to \o rest) = Len(to) + Len(rest)
      /\ \A i \in 1..Len(to) + Len(rest) : (to \o rest)[i] = IF i <= Len(to) THEN to[i] ELSE rest[i - Len(to)]
  BY <1>3, ConcatProperties
<1>5. Len(rest) = Len(path) - Len(from)
  BY <1>1, <1>3
<1>6. Len(to \o rest) # 0 /\ to \o rest # <<>>
  BY <1>1, <1>4, <1>5, EmptySeq
<1>7. (to \o rest)[Len(to \o rest)] = path[Len(path)]
  <2>1. CASE Len(from) = Len(path)
    BY <1>1, <1>4, <1>5, <2>1 DEF Last
  <2>2. CASE Len(from) < Len(path)
    <3>1. Len(rest) \in 1..Len(path) - (Len(from) + 1) + 1 /\ Len(to) + Len(rest) > Len(to)
      BY <1>1, <1>5, <2>2
    <3>2. rest[Len(rest)] = path[Len(from) + 1 + Len(rest) - 1]
      BY <1>3, <3>1
    <3>3. (to \o rest)[Len(to) + Len(rest)] = rest[Len(to) + Len(rest) - Len(to)]
      BY <1>1, <1>4, <1>5, <3>1
    <3>. QED  BY <1>1, <1>4, <1>5, <3>2, <3>3
  <2>. QED  BY <1>1, <2>1, <2>2
<1>. QED  BY <1>4, <1>6, <1>7 DEF Rebased, Last, rest

LEMMA PathsKept ==
    ASSUME Paths, TreeStep
    PROVE  Paths'
<1>1. ASSUME NEW n \in Nodes, NEW p \in Nodes \cup {None}, Move(n, p)
      PROVE  Paths'
  <2>. DEFINE to == IF p = None THEN <<n>> ELSE Append(node[p].path, n)
  <2>1. \A m \in Nodes : node[m] \in Node /\ node[m].path \in Seq(Nodes)
    BY DEF Paths, Node
  <2>2. to \in Seq(Nodes) /\ to # <<>> /\ Last(to) = n
    <3>1. CASE p = None
      BY <3>1 DEF Last
    <3>2. CASE p # None
      <4>1. p \in Nodes /\ Len(node[p].path) \in Nat
        BY <2>1, <3>2, LenProperties
      <4>2. /\ Append(node[p].path, n) \in Seq(Nodes)
            /\ Append(node[p].path, n) # <<>>
            /\ Len(Append(node[p].path, n)) = Len(node[p].path) + 1
            /\ Append(node[p].path, n)[Len(node[p].path) + 1] = n
        BY <2>1, <4>1, AppendProperties
      <4>. QED  BY <3>2, <4>2 DEF Last
    <3>. QED  BY <3>1, <3>2
  <2>. HIDE DEF to
  <2>3. node' = [m \in Nodes |-> IF m \in Subtree(n)
                   THEN [node[m] EXCEPT !.path = Rebased(@, node[n].path, to)] ELSE node[m]]
    BY <1>1 DEF Move, to
  <2>4. ASSUME NEW m \in Nodes
        PROVE  node'[m] \in Node /\ node'[m].path # <<>> /\ Last(node'[m].path) = m
    <3>1. CASE m \in Subtree(n)
      <4>1. IsPrefix(node[n].path, node[m].path)
        BY <3>1 DEF Subtree
      <4>2. /\ Rebased(node[m].path, node[n].path, to) \in Seq(Nodes)
            /\ Rebased(node[m].path, node[n].path, to) # <<>>
            /\ Last(Rebased(node[m].path, node[n].path, to)) = Last(node[m].path)
        BY <2>1, <2>2, <4>1, RebasedEnds DEF Paths
      <4>3. node'[m] = [node[m] EXCEPT !.path = Rebased(node[m].path, node[n].path, to)]
        BY <2>3, <3>1
      <4>. QED  BY <2>1, <4>2, <4>3 DEF Paths, Node
    <3>2. CASE m \notin Subtree(n)
      BY <2>3, <3>2 DEF Paths
    <3>. QED  BY <3>1, <3>2
  <2>5. node' \in [Nodes -> Node]
    BY <2>3, <2>4
  <2>. QED  BY <2>4, <2>5 DEF Paths
<1>2. ASSUME NEW n \in Nodes, NEW from, NEW to \in {"active", "trashed", "gone"}, SetSubtreeStatus(n, from, to)
      PROVE  Paths'
  BY <1>2 DEF Paths, Node, SetSubtreeStatus
<1>. QED  BY <1>1, <1>2 DEF TreeStep

-----------------------------------------------------------------------------
(* The owner and expire_shares: rows written as a whole.                    *)

LEMMA Written ==
    ASSUME IInv, NEW l \in Links, NEW row \in Share, share[l] \in Share, UpdateShare(l, row)
    PROVE  /\ share' \in [Links -> Share \cup {NoShare}]
           /\ share'[l] = [row EXCEPT !.count = share[l].count]
           /\ share'[l] \in Share /\ share'[l].status = row.status
           /\ \A k \in Links : k # l => share'[k] = share[k] /\ changed'[k] = changed[k]
           /\ changed' \in [Links -> 0..MaxTime]
           /\ \/ share'[l].set.password = share[l].set.password /\ changed'[l] = changed[l]
              \/ changed'[l] = now
           /\ Recorded' = Recorded
<1>1. share' = [share EXCEPT ![l] = [row EXCEPT !.count = share[l].count]]
  BY DEF UpdateShare
<1>2. [row EXCEPT !.count = share[l].count] \in Share
  BY DEF Share
<1>3. /\ share' \in [Links -> Share \cup {NoShare}]
      /\ share'[l] = [row EXCEPT !.count = share[l].count]
      /\ share'[l] \in Share
      /\ \A k \in Links : k # l => share'[k] = share[k]
  BY <1>1, <1>2 DEF IInv, RowTypes
<1>4. share'[l].set = row.set /\ share'[l].status = row.status
  BY <1>3 DEF Share
<1>5. /\ changed' \in [Links -> 0..MaxTime]
      /\ \A k \in Links : k # l => changed'[k] = changed[k]
      /\ changed'[l] = IF row.set.password = share[l].set.password THEN changed[l] ELSE now
  BY DEF UpdateShare, IInv, RowTypes
<1>6. Recorded' = Recorded
  BY <1>3 DEF Recorded, Share, NoShare
<1>. QED  BY <1>3, <1>4, <1>5, <1>6

\* A write that leaves calls and tokens alone keeps what they rest on.
LEMMA OpenedWritten ==
    ASSUME IInv, NEW l \in Links, NEW row \in Share, share[l] \in Share, UpdateShare(l, row),
           UNCHANGED <<visit, access, now>>
    PROVE  Opened'
<1>1. \A k \in Links : \/ share'[k] = share[k] /\ changed'[k] = changed[k]
                       \/ share'[k].set.password = share[k].set.password /\ changed'[k] = changed[k]
                       \/ changed'[k] = now
  BY Written
<1>2. Recorded' = Recorded /\ Recorded \subseteq Links
  BY Written DEF Recorded
<1>3. ASSUME NEW v \in Visitors, visit'[v].fresh
      PROVE  /\ visit'[v].pc \in {"resolved", "rooted"}
             /\ visit'[v].password \in Passwords
             /\ visit'[v].link \in Recorded' =>
                   \/ visit'[v].password = share'[visit'[v].link].set.password
                   \/ changed'[visit'[v].link] = now'
  BY <1>1, <1>2, <1>3 DEF IInv, Opened
<1>4. ASSUME NEW a \in access'
      PROVE  /\ a.link \in Recorded' /\ a.expires <= now' + AccessTTL
             /\ a.password = share'[a.link].set.password \/ a.expires <= changed'[a.link] + AccessTTL
  BY <1>1, <1>2, <1>4 DEF IInv, Opened, ForgottenPassword
<1>. QED  BY <1>3, <1>4 DEF Opened, ForgottenPassword

LEMMA OwnerKeeps ==
    ASSUME IInv, OwnerStep
    PROVE  IInv'
<1>1. ASSUME NEW l \in Links, NEW set \in Settings, NEW token \in Tokens, NEW n \in Nodes, Create(l, token, n, set)
      PROVE  IInv'
  <2>. DEFINE row == [token |-> token, node |-> n, set |-> set, count |-> 0, status |-> "active"]
  <2>1. row \in Share /\ share' = [share EXCEPT ![l] = row] /\ share[l] = NoShare
    BY <1>1, ShareConstants DEF Share, Create, Fresh, Recorded
  <2>. HIDE DEF row
  <2>2. /\ share' \in [Links -> Share \cup {NoShare}] /\ share'[l] \in Share
        /\ \A k \in Links : k # l => share'[k] = share[k] /\ changed'[k] = changed[k]
        /\ changed' \in [Links -> 0..MaxTime]
    BY <1>1, <2>1 DEF IInv, RowTypes, Create
  <2>3. Recorded' = Recorded \cup {l}
    BY <2>2 DEF Recorded, Share, NoShare
  <2>4. RowTypes'
    BY <1>1, <2>2 DEF IInv, RowTypes, Create
  <2>5. Paths' /\ CallTypes' /\ Roots'
    BY <1>1 DEF IInv, Paths, CallTypes, Roots, Create
  <2>6. ClosedRows'
    BY <1>1, <2>2 DEF IInv, ClosedRows, RowTypes, Create
  <2>7. Opened'
    <3>1. ASSUME NEW v \in Visitors, visit'[v].fresh
          PROVE  /\ visit'[v].pc \in {"resolved", "rooted"}
                 /\ visit'[v].password \in Passwords
                 /\ visit'[v].link \in Recorded' =>
                       \/ visit'[v].password = share'[visit'[v].link].set.password
                       \/ changed'[visit'[v].link] = now'
      BY <1>1, <2>2, <2>3, <3>1 DEF IInv, Opened, Create, Fresh, Recorded
    <3>2. ASSUME NEW a \in access'
          PROVE  /\ a.link \in Recorded' /\ a.expires <= now' + AccessTTL
                 /\ a.password = share'[a.link].set.password \/ a.expires <= changed'[a.link] + AccessTTL
      <4>1. a.link \in Recorded /\ a.link # l /\ a.link \in Links
        BY <1>1, <3>2 DEF IInv, Opened, Create, Fresh, Recorded
      <4>. QED  BY <1>1, <2>2, <2>3, <3>2, <4>1 DEF IInv, Opened, ForgottenPassword, Create
    <3>. QED  BY <3>1, <3>2 DEF Opened, ForgottenPassword
  <2>. QED  BY <2>4, <2>5, <2>6, <2>7 DEF IInv
<1>2. ASSUME NEW l \in Links, NEW set \in Settings,
             NEW status \in {"active", "expired", "revoked", "unspecified"}, Update(l, status, set)
      PROVE  IInv'
  <2>. DEFINE row == [share[l] EXCEPT !.status = status, !.set = set]
  <2>1. share[l] \in Share
    BY <1>2, RecordedRows DEF Update, IInv
  <2>2. row \in Share /\ row.status = status /\ UpdateShare(l, row)
    BY <1>2, <2>1 DEF Share, Update
  <2>. HIDE DEF row
  <2>3. RowTypes'
    BY <1>2, <2>1, <2>2, Written DEF IInv, RowTypes, Update
  <2>4. Paths' /\ CallTypes' /\ Roots'
    BY <1>2 DEF IInv, Paths, CallTypes, Roots, Update
  <2>5. ClosedRows'
    <3>1. share'[l] \in Share /\ share'[l].status = status
      BY <2>1, <2>2, Written
    <3>2. \A k \in Links : k # l => share'[k] = share[k]
      BY <2>1, <2>2, Written
    <3>3. CASE status = share[l].status
      BY <1>2, <3>1, <3>2, <3>3 DEF IInv, ClosedRows, RowTypes, Update
    <3>4. CASE status # share[l].status /\ status = "revoked"
      BY <1>2, <3>1, <3>2, <3>4 DEF IInv, ClosedRows, RowTypes, Update
    <3>5. CASE status # share[l].status /\ status # "revoked"
      BY <1>2, <3>1, <3>2, <3>5 DEF IInv, ClosedRows, RowTypes, Update
    <3>. QED  BY <3>3, <3>4, <3>5
  <2>6. Opened'
    BY <1>2, <2>1, <2>2, OpenedWritten DEF Update
  <2>. QED  BY <2>3, <2>4, <2>5, <2>6 DEF IInv
<1>. QED  BY <1>1, <1>2 DEF OwnerStep

LEMMA DeleteKeeps ==
    ASSUME IInv, NEW l \in Links, Delete(l)
    PROVE  IInv'
<1>1. /\ share' \in [Links -> Share \cup {NoShare}]
      /\ \A k \in Links : k # l => share'[k] = share[k]
      /\ Recorded' = Recorded \ {l}
  BY DEF IInv, RowTypes, Delete, Recorded
<1>2. RowTypes'
  BY <1>1 DEF IInv, RowTypes, Delete
<1>3. Paths' /\ CallTypes' /\ Roots'
  BY DEF IInv, Paths, CallTypes, Roots, Delete
<1>4. ClosedRows'
  BY <1>1 DEF IInv, RowTypes, ClosedRows, Delete
<1>5. Opened'
  <2>1. ASSUME NEW v \in Visitors, visit'[v].fresh
        PROVE  /\ visit'[v].pc \in {"resolved", "rooted"}
               /\ visit'[v].password \in Passwords
               /\ visit'[v].link \in Recorded' =>
                     \/ visit'[v].password = share'[visit'[v].link].set.password
                     \/ changed'[visit'[v].link] = now'
    BY <1>1, <2>1 DEF IInv, Opened, Delete, Recorded
  <2>2. ASSUME NEW a \in access'
        PROVE  /\ a.link \in Recorded' /\ a.expires <= now' + AccessTTL
               /\ a.password = share'[a.link].set.password \/ a.expires <= changed'[a.link] + AccessTTL
    <3>1. a \in access /\ a.link # l /\ a.link \in Recorded /\ a.link \in Links
      BY <2>2 DEF IInv, Opened, Delete, Recorded
    <3>. QED  BY <1>1, <3>1 DEF IInv, Opened, ForgottenPassword, Delete
  <2>. QED  BY <2>1, <2>2 DEF Opened, ForgottenPassword
<1>. QED  BY <1>2, <1>3, <1>4, <1>5 DEF IInv

LEMMA ExpireKeeps ==
    ASSUME IInv, ExpireStep
    PROVE  IInv'
<1>1. CASE ListExpired
  <2>1. RowTypes'
    BY <1>1, RecordedRows DEF IInv, RowTypes, ListExpired, Recorded
  <2>. QED  BY <1>1, <2>1 DEF IInv, Paths, CallTypes, Roots, ClosedRows, Opened, ForgottenPassword, Recorded, ListExpired
<1>2. ASSUME NEW j \in job, ExpireListed(j[1], j[2])
      PROVE  IInv'
  <2>. DEFINE row == [j[2] EXCEPT !.status = "expired"]
  <2>1. j[1] \in Links /\ j[2] \in Share /\ share[j[1]] \in Share
    BY <1>2, RecordedRows DEF IInv, RowTypes, ExpireListed
  <2>2. row \in Share /\ row.status = "expired" /\ UpdateShare(j[1], row)
    BY <1>2, <2>1 DEF Share, ExpireListed
  <2>. HIDE DEF row
  <2>3. RowTypes'
    BY <1>2, <2>1, <2>2, Written DEF IInv, RowTypes, ExpireListed
  <2>4. Paths' /\ CallTypes' /\ Roots'
    BY <1>2 DEF IInv, Paths, CallTypes, Roots, ExpireListed
  <2>5. ClosedRows'
    <3>1. share'[j[1]] \in Share /\ share'[j[1]].status = "expired"
      BY <2>1, <2>2, Written
    <3>2. \A k \in Links : k # j[1] => share'[k] = share[k]
      BY <2>1, <2>2, Written
    <3>. QED  BY <1>2, <3>1, <3>2 DEF IInv, ClosedRows, RowTypes, ExpireListed
  <2>6. Opened'
    BY <1>2, <2>1, <2>2, OpenedWritten DEF ExpireListed
  <2>. QED  BY <2>3, <2>4, <2>5, <2>6 DEF IInv
<1>3. CASE ExpireEnds
  BY <1>3 DEF IInv, RowTypes, Paths, CallTypes, Roots, ClosedRows, Opened, ForgottenPassword, Recorded, ExpireEnds
<1>. QED  BY <1>1, <1>2, <1>3 DEF ExpireStep

-----------------------------------------------------------------------------
(* Public calls, the tree and the clock.                                    *)

\* A call that ends, with nothing else changed.
LEMMA NoVisitKeeps ==
    ASSUME CallTypes, Roots, NEW v \in Visitors, visit' = [visit EXCEPT ![v] = NoVisit],
           access' \subseteq Access
    PROVE  CallTypes' /\ Roots' /\ (\A w \in Visitors : visit'[w].fresh => w # v /\ visit'[w] = visit[w])
<1>1. NoVisit \in Visit
  <2>1. <<>> \in Seq(Nodes)
    OBVIOUS
  <2>. QED  BY <2>1 DEF NoVisit, Visit
<1>2. visit' \in [Visitors -> Visit] /\ visit'[v] = NoVisit /\ \A w \in Visitors : w # v => visit'[w] = visit[w]
  BY <1>1 DEF CallTypes
<1>. QED  BY <1>2 DEF CallTypes, Roots, NoVisit

LEMMA ResolveKeeps ==
    ASSUME IInv, NEW v \in Visitors, NEW l \in Links, Resolve(v, l)
    PROVE  IInv'
<1>1. PICK u \in Unlocks(l) :
         visit' = [visit EXCEPT ![v] =
                     [NoVisit EXCEPT !.pc = "resolved", !.link = l, !.node = share[l].node,
                                     !.set = share[l].set, !.fresh = u.fresh, !.password = u.password]]
  BY DEF Resolve
<1>2. share[l] \in Share
  BY RecordedRows DEF IInv, Resolve
<1>3. u \in [fresh : {FALSE}, password : Passwords \cup {None}]
        \cup [fresh : {TRUE}, password : Passwords \cap {share[l].set.password}]
  <2>1. share[l].set.password \in Passwords \cup {None}
    BY <1>2, ShareConstants DEF Share
  <2>2. \A a \in access : a.password \in Passwords
    BY DEF IInv, CallTypes, Access
  <2>3. CASE share[l].set.password = None
    <3>1. u = [fresh |-> FALSE, password |-> None]
      BY <2>3 DEF Unlocks
    <3>. QED  BY <3>1
  <2>4. CASE share[l].set.password # None
    <3>1. \/ \E a \in access : u = [fresh |-> FALSE, password |-> a.password]
          \/ u = [fresh |-> TRUE, password |-> share[l].set.password]
      BY <2>4 DEF Unlocks
    <3>2. CASE u = [fresh |-> TRUE, password |-> share[l].set.password]
      BY <2>1, <2>4, <3>2
    <3>3. CASE \E a \in access : u = [fresh |-> FALSE, password |-> a.password]
      BY <2>2, <3>3
    <3>. QED  BY <3>1, <3>2, <3>3
  <2>. QED  BY <2>3, <2>4
<1>. DEFINE call == [NoVisit EXCEPT !.pc = "resolved", !.link = l, !.node = share[l].node,
                                    !.set = share[l].set, !.fresh = u.fresh, !.password = u.password]
<1>4. /\ call \in Visit /\ call.pc = "resolved" /\ call.link = l /\ call.fresh = u.fresh
      /\ call.password = u.password /\ call.set \in Settings /\ call.node \in Nodes
  <2>1. <<>> \in Seq(Nodes)
    OBVIOUS
  <2>. QED  BY <1>2, <1>3, <2>1 DEF NoVisit, Visit, Share
<1>. HIDE DEF call
<1>5. visit' \in [Visitors -> Visit] /\ visit'[v] = call /\ \A w \in Visitors : w # v => visit'[w] = visit[w]
  BY <1>1, <1>4 DEF IInv, CallTypes, call
<1>6. RowTypes' /\ Paths' /\ ClosedRows'
  BY DEF IInv, RowTypes, Paths, ClosedRows, Resolve
<1>7. CallTypes'
  <2>1. ASSUME NEW w \in Visitors
        PROVE  /\ visit'[w].pc # "idle" => visit'[w].link \in Links
               /\ visit'[w].pc \in {"resolved", "rooted"} => visit'[w].set \in Settings /\ visit'[w].node \in Nodes
    BY <1>4, <1>5 DEF IInv, CallTypes
  <2>. QED  BY <1>5, <2>1 DEF IInv, CallTypes, Resolve
<1>8. Roots'
  BY <1>4, <1>5 DEF IInv, Roots
<1>9. Opened'
  <2>1. ASSUME NEW w \in Visitors, visit'[w].fresh
        PROVE  /\ visit'[w].pc \in {"resolved", "rooted"}
               /\ visit'[w].password \in Passwords
               /\ visit'[w].link \in Recorded' =>
                     \/ visit'[w].password = share'[visit'[w].link].set.password
                     \/ changed'[visit'[w].link] = now'
    <3>1. CASE w = v
      BY <1>3, <1>4, <1>5, <2>1, <3>1 DEF Resolve
    <3>2. CASE w # v
      BY <1>5, <2>1, <3>2 DEF IInv, Opened, Recorded, Resolve
    <3>. QED  BY <3>1, <3>2
  <2>. QED  BY <2>1 DEF IInv, Opened, ForgottenPassword, Recorded, Resolve
<1>. QED  BY <1>6, <1>7, <1>8, <1>9 DEF IInv

LEMMA ReadRootKeeps ==
    ASSUME IInv, NEW v \in Visitors, ReadRoot(v)
    PROVE  IInv'
<1>. DEFINE path == node[visit[v].node].path
<1>1. /\ visit[v] \in Visit /\ visit[v].node \in Nodes /\ visit[v].pc = "resolved"
      /\ path \in Seq(Nodes) /\ path # <<>> /\ Last(path) = visit[v].node
  BY DEF IInv, CallTypes, Paths, Node, ReadRoot
<1>2. visit' = [visit EXCEPT ![v].pc = "rooted", ![v].root = path]
  BY DEF ReadRoot
<1>. HIDE DEF path
<1>3. /\ visit' \in [Visitors -> Visit]
      /\ visit'[v].pc = "rooted" /\ visit'[v].root = path
      /\ visit'[v].link = visit[v].link /\ visit'[v].node = visit[v].node /\ visit'[v].set = visit[v].set
      /\ visit'[v].fresh = visit[v].fresh /\ visit'[v].password = visit[v].password
      /\ \A w \in Visitors : w # v => visit'[w] = visit[w]
  BY <1>1, <1>2 DEF IInv, CallTypes, Visit
<1>4. RowTypes' /\ Paths' /\ ClosedRows'
  BY DEF IInv, RowTypes, Paths, ClosedRows, ReadRoot
<1>5. CallTypes'
  <2>1. ASSUME NEW w \in Visitors
        PROVE  /\ visit'[w].pc # "idle" => visit'[w].link \in Links
               /\ visit'[w].pc \in {"resolved", "rooted"} => visit'[w].set \in Settings /\ visit'[w].node \in Nodes
    BY <1>1, <1>3 DEF IInv, CallTypes
  <2>. QED  BY <1>3, <2>1 DEF IInv, CallTypes, ReadRoot
<1>6. Roots'
  BY <1>1, <1>3 DEF IInv, Roots
<1>7. Opened'
  <2>1. ASSUME NEW w \in Visitors, visit'[w].fresh
        PROVE  /\ visit'[w].pc \in {"resolved", "rooted"}
               /\ visit'[w].password \in Passwords
               /\ visit'[w].link \in Recorded' =>
                     \/ visit'[w].password = share'[visit'[w].link].set.password
                     \/ changed'[visit'[w].link] = now'
    BY <1>3, <2>1 DEF IInv, Opened, Recorded, ReadRoot
  <2>. QED  BY <2>1 DEF IInv, Opened, ForgottenPassword, Recorded, ReadRoot
<1>. QED  BY <1>4, <1>5, <1>6, <1>7 DEF IInv

LEMMA EnterKeeps ==
    ASSUME IInv, NEW v \in Visitors, Enter(v)
    PROVE  IInv'
<1>. DEFINE l == visit[v].link
            given == IF visit[v].set.password # None /\ visit[v].fresh
                     THEN {[link |-> l, expires |-> now + AccessTTL, password |-> visit[v].password]} ELSE {}
<1>1. /\ l \in Recorded /\ l \in Links /\ visit' = [visit EXCEPT ![v] = NoVisit]
      /\ access' \subseteq access \cup given
  BY DEF Enter, Recorded
<1>2. \A a \in given : /\ visit[v].fresh /\ a \in Access /\ a.link = l
                       /\ a.expires = now + AccessTTL /\ a.password = visit[v].password
  BY <1>1, ShareConstants DEF IInv, RowTypes, Opened, Access
<1>. HIDE DEF given
<1>3. CallTypes' /\ Roots' /\ \A w \in Visitors : visit'[w].fresh => w # v /\ visit'[w] = visit[w]
  <2>1. access' \subseteq Access
    BY <1>1, <1>2 DEF IInv, CallTypes
  <2>. QED  BY <1>1, <2>1, NoVisitKeeps DEF IInv
<1>4. RowTypes' /\ Paths' /\ ClosedRows'
  BY DEF IInv, RowTypes, Paths, ClosedRows, Enter
<1>5. Opened'
  <2>1. Recorded' = Recorded /\ UNCHANGED <<share, now, changed>>
    BY DEF Enter, Recorded
  <2>2. ASSUME NEW a \in access'
        PROVE  /\ a.link \in Recorded' /\ a.expires <= now' + AccessTTL
               /\ a.password = share'[a.link].set.password \/ a.expires <= changed'[a.link] + AccessTTL
    <3>1. CASE a \in access
      BY <2>1, <3>1 DEF IInv, Opened, ForgottenPassword
    <3>2. CASE a \in given
      <4>1. visit[v].password = share[l].set.password \/ changed[l] = now
        BY <1>1, <1>2, <3>2 DEF IInv, Opened
      <4>. QED  BY <1>1, <1>2, <2>1, <3>2, <4>1, ShareConstants DEF IInv, RowTypes
    <3>. QED  BY <1>1, <2>2, <3>1, <3>2
  <2>. QED  BY <1>3, <2>1, <2>2 DEF IInv, Opened, ForgottenPassword
<1>. QED  BY <1>3, <1>4, <1>5 DEF IInv

LEMMA ReadNodeKeeps ==
    ASSUME IInv, NEW v \in Visitors, NEW n \in Nodes, ReadNode(v, n)
    PROVE  IInv'
<1>. DEFINE inside == n = visit[v].node \/ (node[n].status = "active" /\ visit[v].node \in ToSet(node[n].path))
            call == [NoVisit EXCEPT !.pc = "granted", !.link = visit[v].link, !.inside = inside]
<1>1. visit[v] \in Visit /\ visit[v].pc = "rooted" /\ visit[v].link \in Links
  BY DEF IInv, CallTypes, ReadNode
<1>2. inside
  <2>1. CASE n = visit[v].node
    BY <2>1
  <2>2. CASE node[n].status = "active" /\ IsPrefix(visit[v].root, node[n].path)
    <3>1. visit[v].root \in Seq(Nodes) /\ node[n].path \in Seq(Nodes) /\ visit[v].root # <<>>
          /\ Last(visit[v].root) = visit[v].node
      BY <1>1 DEF IInv, Roots, Paths, Node, Visit
    <3>2. /\ Len(visit[v].root) \in DOMAIN node[n].path
          /\ node[n].path[Len(visit[v].root)] = visit[v].node
      BY <2>2, <3>1, PrefixEnds, LenProperties
    <3>. QED  BY <2>2, <3>2 DEF ToSet
  <2>. QED  BY <2>1, <2>2 DEF ReadNode, Reachable
<1>3. visit' = [visit EXCEPT ![v] = call]
  BY DEF ReadNode
<1>4. call \in Visit /\ call.pc = "granted" /\ call.link \in Links /\ ~call.fresh /\ call.inside
  <2>1. <<>> \in Seq(Nodes)
    OBVIOUS
  <2>2. inside \in BOOLEAN
    OBVIOUS
  <2>. HIDE DEF inside
  <2>. QED  BY <1>1, <1>2, <2>1, <2>2 DEF NoVisit, Visit
<1>. HIDE DEF call
<1>5. visit' \in [Visitors -> Visit] /\ visit'[v] = call /\ \A w \in Visitors : w # v => visit'[w] = visit[w]
  BY <1>3, <1>4 DEF IInv, CallTypes
<1>6. RowTypes' /\ Paths' /\ ClosedRows'
  BY DEF IInv, RowTypes, Paths, ClosedRows, ReadNode
<1>7. CallTypes' /\ Roots'
  BY <1>4, <1>5 DEF IInv, CallTypes, Roots, ReadNode
<1>8. Opened'
  BY <1>4, <1>5 DEF IInv, Opened, ForgottenPassword, Recorded, ReadNode
<1>. QED  BY <1>6, <1>7, <1>8 DEF IInv

LEMMA MarkDownloadedKeeps ==
    ASSUME IInv, NEW v \in Visitors, MarkDownloaded(v)
    PROVE  IInv'
<1>. DEFINE l == visit[v].link
<1>1. /\ l \in Links /\ share[l] \in Share /\ share[l].count < MaxCount
      /\ share' = [share EXCEPT ![l].count = @ + 1]
      /\ visit' = [visit EXCEPT ![v] = NoVisit] /\ UNCHANGED <<access, job, now, closed, changed>>
  BY RecordedRows DEF IInv, MarkDownloaded, Recorded
<1>. HIDE DEF l
<1>2. /\ share' \in [Links -> Share \cup {NoShare}] /\ share'[l] \in Share
      /\ share'[l].set = share[l].set /\ share'[l].status = share[l].status
      /\ \A k \in Links : k # l => share'[k] = share[k]
  <2>1. [share[l] EXCEPT !.count = @ + 1] \in Share
    BY <1>1, ShareConstants DEF Share
  <2>2. share' = [share EXCEPT ![l] = [share[l] EXCEPT !.count = @ + 1]]
    BY <1>1
  <2>3. share'[l] = [share[l] EXCEPT !.count = @ + 1]
    BY <1>1, <2>2 DEF IInv, RowTypes
  <2>. QED  BY <1>1, <2>1, <2>2, <2>3 DEF IInv, RowTypes, Share
<1>3. Recorded' = Recorded /\ Recorded \subseteq Links
  BY <1>1, <1>2 DEF Recorded, Share, NoShare
<1>4. RowTypes' /\ Paths' /\ ClosedRows'
  BY <1>1, <1>2 DEF IInv, RowTypes, Paths, ClosedRows, MarkDownloaded
<1>5. CallTypes' /\ Roots' /\ \A w \in Visitors : visit'[w].fresh => w # v /\ visit'[w] = visit[w]
  <2>1. access' \subseteq Access
    BY <1>1 DEF IInv, CallTypes
  <2>. QED  BY <1>1, <2>1, NoVisitKeeps DEF IInv
<1>6. \A k \in Links : share'[k].set.password = share[k].set.password
  BY <1>2
<1>7. Opened'
  BY <1>1, <1>3, <1>5, <1>6 DEF IInv, Opened, ForgottenPassword
<1>. QED  BY <1>4, <1>5, <1>7 DEF IInv

LEMMA VisitorKeeps ==
    ASSUME IInv, NEW v \in Visitors, VisitorStep(v)
    PROVE  IInv'
<1>1. CASE GiveUp(v)
  <2>1. CallTypes' /\ Roots' /\ \A w \in Visitors : visit'[w].fresh => w # v /\ visit'[w] = visit[w]
    <3>1. access' \subseteq Access
      BY <1>1 DEF IInv, CallTypes, GiveUp
    <3>. QED  BY <1>1, <3>1, NoVisitKeeps DEF IInv, GiveUp
  <2>2. RowTypes' /\ Paths' /\ ClosedRows'
    BY <1>1 DEF IInv, RowTypes, Paths, ClosedRows, GiveUp
  <2>3. Opened'
    BY <1>1, <2>1 DEF IInv, Opened, ForgottenPassword, Recorded, GiveUp
  <2>. QED  BY <2>1, <2>2, <2>3 DEF IInv
<1>. QED
  BY <1>1, ResolveKeeps, ReadRootKeeps, EnterKeeps, ReadNodeKeeps, MarkDownloadedKeeps DEF VisitorStep

LEMMA TreeKeeps ==
    ASSUME IInv, TreeStep
    PROVE  IInv'
<1>1. Paths'
  BY PathsKept DEF IInv
<1>2. UNCHANGED <<share, visit, access, job, now, served, closed, changed>>
  BY DEF TreeStep, Move, SetSubtreeStatus
<1>. QED
  BY <1>1, <1>2 DEF IInv, RowTypes, CallTypes, ClosedRows, Roots, Opened, ForgottenPassword, Recorded

LEMMA TickKeeps ==
    ASSUME IInv, Tick
    PROVE  IInv'
<1>. USE ShareConstants
<1>1. RowTypes' /\ Paths' /\ ClosedRows'
  BY DEF IInv, RowTypes, Paths, ClosedRows, Tick
<1>2. CallTypes' /\ Roots'
  BY DEF IInv, CallTypes, Roots, Tick
<1>3. Opened'
  <2>1. ASSUME NEW a \in access'
        PROVE  /\ a.link \in Recorded' /\ a.expires <= now' + AccessTTL
               /\ a.password = share'[a.link].set.password \/ a.expires <= changed'[a.link] + AccessTTL
    <3>1. a \in access /\ a.expires \in Nat /\ now \in Nat
      BY <2>1 DEF IInv, RowTypes, CallTypes, Access, Tick
    <3>. QED  BY <3>1 DEF IInv, Opened, ForgottenPassword, Recorded, Tick
  <2>2. \A v \in Visitors : ~visit'[v].fresh
    BY DEF Tick
  <2>. QED  BY <2>1, <2>2 DEF Opened, ForgottenPassword
<1>. QED  BY <1>1, <1>2, <1>3 DEF IInv

-----------------------------------------------------------------------------
(* The theorems.                                                           *)

LEMMA InitInv == Init => IInv
<1>. SUFFICES ASSUME Init PROVE IInv
  OBVIOUS
<1>1. Paths
  <2>1. PICK f \in Nodes :
           node = [n \in Nodes |-> [status |-> "active", path |-> IF n = f THEN <<f>> ELSE <<f, n>>]]
    BY DEF Init
  <2>2. \A n \in Nodes : /\ (IF n = f THEN <<f>> ELSE <<f, n>>) \in Seq(Nodes)
                         /\ (IF n = f THEN <<f>> ELSE <<f, n>>) # <<>>
                         /\ Last(IF n = f THEN <<f>> ELSE <<f, n>>) = n
    BY DEF Last
  <2>. QED  BY <2>1, <2>2 DEF Paths, Node
<1>2. RowTypes /\ ClosedRows
  BY ShareConstants DEF Init, RowTypes, ClosedRows
<1>3. CallTypes /\ Roots
  <2>1. <<>> \in Seq(Nodes)
    OBVIOUS
  <2>. QED  BY <2>1 DEF Init, CallTypes, Roots, NoVisit, Visit
<1>4. Opened
  BY DEF Init, Opened, ForgottenPassword, NoVisit
<1>. QED  BY <1>1, <1>2, <1>3, <1>4 DEF IInv

LEMMA StepInv == IInv /\ [Next]_vars => IInv'
<1>. SUFFICES ASSUME IInv, [Next]_vars PROVE IInv'
  OBVIOUS
<1>1. CASE UNCHANGED vars
  BY <1>1 DEF vars, IInv, RowTypes, Paths, CallTypes, ClosedRows, Roots, Opened, ForgottenPassword, Recorded
<1>. QED
  BY <1>1, OwnerKeeps, DeleteKeeps, VisitorKeeps, TreeKeeps, ExpireKeeps, TickKeeps DEF Next

LEMMA Inductive == Spec => []IInv
BY InitInv, StepInv, PTL DEF Spec

-----------------------------------------------------------------------------
(* The budget.                                                             *)

\* The calls that passed Resolve for a link and are not answered yet.
Pending(calls, l) == { v \in Visitors : calls[v].link = l }

\* What was handed out under a budget was counted, and what is handed out and what
\* is still in flight stay below the budget and the calls served at a time: a call
\* gets in only while the count is below the budget, and a budget that changes
\* meets no more calls than are served at a time.
Budgets ==
    /\ served \in [Links -> Nat]
    /\ \A l \in Recorded :
          /\ served[l] <= share[l].count
          /\ share[l].set.max > 0 =>
                served[l] + Cardinality(Pending(visit, l)) <= share[l].set.max - 1 + Cardinality(Visitors)

LEMMA PendingCount ==
    ASSUME NEW calls, NEW l
    PROVE  /\ IsFiniteSet(Pending(calls, l)) /\ Cardinality(Pending(calls, l)) \in Nat
           /\ Cardinality(Visitors) \in Nat /\ Cardinality(Pending(calls, l)) <= Cardinality(Visitors)
BY ShareConstants, FS_Subset, FS_CardinalityType DEF Pending

LEMMA RowNumbers ==
    ASSUME IInv, NEW l \in Recorded
    PROVE  l \in Links /\ share[l] \in Share /\ share[l].set.max \in Nat /\ share[l].count \in Nat
BY RecordedRows, ShareConstants DEF IInv, Recorded, Share

\* Steps that count no download and let nobody in.
LEMMA BudgetsUntouched ==
    ASSUME IInv, Budgets, UNCHANGED <<share, served>>, \A v \in Visitors : visit'[v].link \in {visit[v].link, None}
    PROVE  Budgets'
<1>1. ASSUME NEW l \in Recorded
      PROVE  Pending(visit', l) \subseteq Pending(visit, l) /\ Cardinality(Pending(visit', l)) <= Cardinality(Pending(visit, l))
                /\ Cardinality(Pending(visit', l)) \in Nat
  <2>1. Pending(visit', l) \subseteq Pending(visit, l)
    BY RowNumbers, ShareConstants DEF Pending
  <2>2. IsFiniteSet(Pending(visit, l))
    BY PendingCount
  <2>. QED  BY <2>1, <2>2, FS_Subset, FS_CardinalityType
<1>2. ASSUME NEW l \in Recorded, share[l].set.max > 0
      PROVE  served[l] + Cardinality(Pending(visit', l)) <= share[l].set.max - 1 + Cardinality(Visitors)
  <2>1. served[l] \in Nat /\ share[l].set.max \in Nat
    BY RowNumbers DEF Budgets
  <2>. QED  BY <1>1, <1>2, <2>1, PendingCount DEF Budgets
<1>. QED  BY <1>2 DEF Budgets, Recorded

\* A row that is written back: a budget that changes is counted from nothing.
LEMMA BudgetsWritten ==
    ASSUME IInv, Budgets, NEW l \in Links, NEW row \in Share, share[l] \in Share, UpdateShare(l, row),
           visit' = visit
    PROVE  Budgets'
<1>1. /\ share'[l] = [row EXCEPT !.count = share[l].count] /\ share'[l] \in Share
      /\ Recorded' = Recorded /\ \A k \in Links : k # l => share'[k] = share[k]
  BY Written
<1>2. share'[l].count = share[l].count /\ share'[l].set = row.set
  BY <1>1 DEF Share
<1>3. /\ served' \in [Links -> Nat]
      /\ served'[l] = IF row.set.max = share[l].set.max THEN served[l] ELSE 0
      /\ \A k \in Links : k # l => served'[k] = served[k]
  BY DEF UpdateShare, Budgets
<1>4. \A k : Pending(visit', k) = Pending(visit, k)
  BY DEF Pending
<1>5. /\ row.set.max \in Nat /\ share[l].count \in Nat /\ l \in Recorded
  BY ShareConstants, RecordedRows DEF Share, IInv
<1>6. served'[l] <= share'[l].count
  BY <1>2, <1>3, <1>5 DEF Budgets
<1>7. share'[l].set.max > 0 =>
         served'[l] + Cardinality(Pending(visit', l)) <= share'[l].set.max - 1 + Cardinality(Visitors)
  <2>1. CASE row.set.max = share[l].set.max
    BY <1>2, <1>3, <1>4, <1>5, <2>1 DEF Budgets
  <2>2. CASE row.set.max # share[l].set.max
    BY <1>2, <1>3, <1>4, <1>5, <2>2, PendingCount
  <2>. QED  BY <2>1, <2>2
<1>8. ASSUME NEW k \in Recorded'
      PROVE  /\ served'[k] <= share'[k].count
             /\ share'[k].set.max > 0 =>
                   served'[k] + Cardinality(Pending(visit', k)) <= share'[k].set.max - 1 + Cardinality(Visitors)
  <2>1. k \in Links /\ k \in Recorded
    BY <1>1 DEF Recorded
  <2>2. CASE k = l
    BY <1>6, <1>7, <2>2
  <2>3. CASE k # l
    BY <1>1, <1>3, <1>4, <2>1, <2>3 DEF Budgets
  <2>. QED  BY <2>2, <2>3
<1>. QED  BY <1>3, <1>8 DEF Budgets

LEMMA BudgetsOfOwner ==
    ASSUME IInv, Budgets, OwnerStep
    PROVE  Budgets'
<1>1. ASSUME NEW l \in Links, NEW set \in Settings, NEW token \in Tokens, NEW n \in Nodes, Create(l, token, n, set)
      PROVE  Budgets'
  <2>1. /\ share'[l] = [token |-> token, node |-> n, set |-> set, count |-> 0, status |-> "active"]
        /\ \A k \in Links : k # l => share'[k] = share[k]
    BY <1>1 DEF Create, IInv, RowTypes
  <2>2. /\ served' \in [Links -> Nat] /\ served'[l] = 0
        /\ \A k \in Links : k # l => served'[k] = served[k]
    BY <1>1 DEF Create, Budgets
  <2>3. \A k : Pending(visit', k) = Pending(visit, k)
    BY <1>1 DEF Create, Pending
  <2>4. Cardinality(Pending(visit, l)) = 0
    <3>1. Pending(visit, l) = {}
      BY <1>1 DEF Create, Fresh, Pending
    <3>. QED  BY <3>1, FS_EmptySet
  <2>5. share'[l].set.max \in Nat /\ share'[l].count = 0
    BY <2>1, ShareConstants
  <2>6. ASSUME NEW k \in Recorded'
        PROVE  /\ served'[k] <= share'[k].count
               /\ share'[k].set.max > 0 =>
                     served'[k] + Cardinality(Pending(visit', k)) <= share'[k].set.max - 1 + Cardinality(Visitors)
    <3>1. CASE k = l
      BY <2>2, <2>3, <2>4, <2>5, <3>1, PendingCount
    <3>2. CASE k # l
      <4>1. k \in Links /\ share'[k] = share[k] /\ k \in Recorded
        BY <2>1, <3>2 DEF Recorded
      <4>. QED  BY <2>2, <2>3, <3>2, <4>1 DEF Budgets
    <3>. QED  BY <3>1, <3>2
  <2>. QED  BY <2>2, <2>6 DEF Budgets
<1>2. ASSUME NEW l \in Links, NEW set \in Settings,
             NEW status \in {"active", "expired", "revoked", "unspecified"}, Update(l, status, set)
      PROVE  Budgets'
  <2>. DEFINE row == [share[l] EXCEPT !.status = status, !.set = set]
  <2>1. share[l] \in Share
    BY <1>2, RecordedRows DEF Update, IInv
  <2>2. row \in Share /\ UpdateShare(l, row) /\ visit' = visit
    BY <1>2, <2>1 DEF Share, Update
  <2>. QED  BY <2>1, <2>2, BudgetsWritten
<1>. QED  BY <1>1, <1>2 DEF OwnerStep

LEMMA BudgetsOfDelete ==
    ASSUME IInv, Budgets, NEW l \in Links, Delete(l)
    PROVE  Budgets'
<1>1. /\ Recorded' = Recorded \ {l} /\ \A k \in Links : k # l => share'[k] = share[k]
      /\ UNCHANGED <<visit, served>>
  BY DEF IInv, RowTypes, Delete, Recorded
<1>2. \A k : Pending(visit', k) = Pending(visit, k)
  BY <1>1 DEF Pending
<1>. QED  BY <1>1, <1>2 DEF Budgets, Recorded

LEMMA BudgetsOfExpire ==
    ASSUME IInv, Budgets, ExpireStep
    PROVE  Budgets'
<1>1. CASE ListExpired \/ ExpireEnds
  BY <1>1, BudgetsUntouched DEF ListExpired, ExpireEnds
<1>2. ASSUME NEW j \in job, ExpireListed(j[1], j[2])
      PROVE  Budgets'
  <2>. DEFINE row == [j[2] EXCEPT !.status = "expired"]
  <2>1. j[1] \in Links /\ j[2] \in Share /\ share[j[1]] \in Share
    BY <1>2, RecordedRows DEF IInv, RowTypes, ExpireListed
  <2>2. row \in Share /\ UpdateShare(j[1], row) /\ visit' = visit
    BY <1>2, <2>1 DEF Share, ExpireListed
  <2>. QED  BY <2>1, <2>2, BudgetsWritten
<1>. QED  BY <1>1, <1>2 DEF ExpireStep

\* Who gets in found the count below the budget.
LEMMA BudgetsOfResolve ==
    ASSUME IInv, Budgets, NEW v \in Visitors, NEW l \in Links, Resolve(v, l)
    PROVE  Budgets'
<1>1. /\ UNCHANGED <<share, served>> /\ l \in Recorded /\ Redeemable(share[l])
      /\ visit'[v].link = l /\ \A w \in Visitors : w # v => visit'[w] = visit[w]
  BY DEF Resolve, IInv, CallTypes, NoVisit
<1>2. \A k \in Links : k # l => Pending(visit', k) \subseteq Pending(visit, k)
  BY <1>1 DEF Pending
<1>3. /\ IsFiniteSet(Pending(visit', l)) /\ Cardinality(Pending(visit', l)) \in Nat
      /\ Cardinality(Pending(visit', l)) <= Cardinality(Visitors)
  BY ShareConstants, FS_Subset, FS_CardinalityType DEF Pending
<1>4. ASSUME NEW k \in Recorded, share[k].set.max > 0
      PROVE  served[k] + Cardinality(Pending(visit', k)) <= share[k].set.max - 1 + Cardinality(Visitors)
  <2>1. served[k] \in Nat /\ share[k].set.max \in Nat /\ share[k].count \in Nat /\ served[k] <= share[k].count
    BY RowNumbers DEF Budgets
  <2>2. CASE k = l
    <3>1. share[k].count < share[k].set.max
      BY <1>1, <1>4, <2>1, <2>2 DEF Redeemable, Exhausted
    <3>. QED  BY <1>3, <2>1, <2>2, <3>1, PendingCount
  <2>3. CASE k # l
    <3>1. Pending(visit', k) \subseteq Pending(visit, k)
      BY <1>2, <2>3, RowNumbers
    <3>2. Cardinality(Pending(visit', k)) \in Nat /\ Cardinality(Pending(visit', k)) <= Cardinality(Pending(visit, k))
      BY <3>1, PendingCount, FS_Subset, FS_CardinalityType
    <3>3. served[k] + Cardinality(Pending(visit, k)) <= share[k].set.max - 1 + Cardinality(Visitors)
      BY <1>4 DEF Budgets
    <3>. QED  BY <2>1, <3>2, <3>3, PendingCount
  <2>. QED  BY <2>2, <2>3
<1>. QED  BY <1>1, <1>4 DEF Budgets, Recorded

\* Who is served is in flight no more.
LEMMA BudgetsOfDownload ==
    ASSUME IInv, Budgets, NEW v \in Visitors, MarkDownloaded(v)
    PROVE  Budgets'
<1>. DEFINE l == visit[v].link
<1>1. /\ l \in Links /\ l \in Recorded /\ share[l] \in Share
      /\ share' = [share EXCEPT ![l].count = @ + 1]
      /\ served' = [served EXCEPT ![l] = IF share[l].set.max = 0 THEN 0 ELSE @ + 1]
      /\ visit' = [visit EXCEPT ![v] = NoVisit] /\ v \in Pending(visit, l)
  BY RecordedRows DEF IInv, MarkDownloaded, Recorded, Pending
<1>. HIDE DEF l
<1>2. /\ share'[l].set = share[l].set /\ share'[l].count = share[l].count + 1
      /\ \A k \in Links : k # l => share'[k] = share[k]
  BY <1>1 DEF IInv, RowTypes, Share
<1>3. /\ served' \in [Links -> Nat]
      /\ served'[l] = IF share[l].set.max = 0 THEN 0 ELSE served[l] + 1
      /\ \A k \in Links : k # l => served'[k] = served[k]
  BY <1>1 DEF Budgets
<1>4. Recorded' = Recorded
  BY <1>1, <1>2 DEF IInv, RowTypes, Recorded, Share, NoShare
<1>5. Pending(visit', l) = Pending(visit, l) \ {v} /\ \A k \in Links : k # l => Pending(visit', k) = Pending(visit, k)
  <2>1. visit'[v].link = None /\ \A w \in Visitors : w # v => visit'[w] = visit[w]
    BY <1>1 DEF IInv, CallTypes, NoVisit
  <2>2. visit[v].link = l
    BY <1>1 DEF Pending
  <2>3. None \notin Links
    BY ShareConstants
  <2>. QED  BY <1>1, <2>1, <2>2, <2>3 DEF Pending
<1>6. Cardinality(Pending(visit', l)) = Cardinality(Pending(visit, l)) - 1
  BY <1>1, <1>5, PendingCount, FS_RemoveElement
<1>7. served[l] \in Nat /\ share[l].set.max \in Nat /\ share[l].count \in Nat
  BY <1>1, RowNumbers DEF Budgets
<1>8. ASSUME NEW k \in Recorded
      PROVE  /\ served'[k] <= share'[k].count
             /\ share'[k].set.max > 0 =>
                   served'[k] + Cardinality(Pending(visit', k)) <= share'[k].set.max - 1 + Cardinality(Visitors)
  <2>1. CASE k = l
    <3>1. /\ served[l] <= share[l].count
          /\ share[l].set.max > 0 =>
                served[l] + Cardinality(Pending(visit, l)) <= share[l].set.max - 1 + Cardinality(Visitors)
      BY <1>1 DEF Budgets
    <3>2. served'[l] <= share'[l].count
      BY <1>2, <1>3, <1>7, <3>1
    <3>3. CASE share[l].set.max > 0
      <4>1. served'[l] + Cardinality(Pending(visit', l)) = served[l] + Cardinality(Pending(visit, l))
        BY <1>3, <1>6, <1>7, <3>3, PendingCount
      <4>. QED  BY <1>2, <2>1, <3>1, <3>2, <3>3, <4>1
    <3>4. CASE ~(share[l].set.max > 0)
      BY <1>2, <2>1, <3>2, <3>4
    <3>. QED  BY <3>3, <3>4
  <2>2. CASE k # l
    BY <1>2, <1>3, <1>5, <2>2, RowNumbers DEF Budgets
  <2>. QED  BY <2>1, <2>2
<1>. QED  BY <1>3, <1>4, <1>8 DEF Budgets

LEMMA BudgetsOfVisitor ==
    ASSUME IInv, Budgets, NEW v \in Visitors, VisitorStep(v)
    PROVE  Budgets'
<1>1. CASE ReadRoot(v) \/ Enter(v) \/ (\E n \in Nodes : ReadNode(v, n)) \/ GiveUp(v)
  <2>1. UNCHANGED <<share, served>>
    BY <1>1 DEF ReadRoot, Enter, ReadNode, GiveUp
  <2>2. \A w \in Visitors : visit'[w].link \in {visit[w].link, None}
    <3>1. CASE Enter(v) \/ GiveUp(v)
      BY <3>1 DEF Enter, GiveUp, NoVisit, IInv, CallTypes
    <3>2. CASE ReadRoot(v)
      BY <3>2 DEF ReadRoot, IInv, CallTypes, Visit
    <3>3. ASSUME NEW n \in Nodes, ReadNode(v, n)
          PROVE  \A w \in Visitors : visit'[w].link \in {visit[w].link, None}
      BY <3>3 DEF ReadNode, NoVisit, IInv, CallTypes
    <3>. QED  BY <1>1, <3>1, <3>2, <3>3
  <2>. QED  BY <2>1, <2>2, BudgetsUntouched
<1>. QED  BY <1>1, BudgetsOfResolve, BudgetsOfDownload DEF VisitorStep

LEMMA BudgetsInductive == Spec => []Budgets
<1>1. Init => Budgets
  BY DEF Init, Budgets, Recorded
<1>2. IInv /\ Budgets /\ [Next]_vars => Budgets'
  <2>. SUFFICES ASSUME IInv, Budgets, [Next]_vars PROVE Budgets'
    OBVIOUS
  <2>1. CASE TreeStep \/ Tick \/ UNCHANGED vars
    <3>1. UNCHANGED <<share, served, visit>>
      BY <2>1 DEF TreeStep, Move, SetSubtreeStatus, Tick, vars
    <3>. QED  BY <3>1, BudgetsUntouched
  <2>. QED
    BY <2>1, BudgetsOfOwner, BudgetsOfDelete, BudgetsOfVisitor, BudgetsOfExpire DEF Next
<1>. QED  BY <1>1, <1>2, Inductive, PTL DEF Spec

-----------------------------------------------------------------------------
\* Whatever the owner, visitors, moves and expire_shares do, rows, calls and
\* access tokens are what the code takes them for, and a path ends in its own
\* node however often RelocateSubtree rewrote it.
THEOREM ShareTypes == Spec => []TypeOK
<1>1. IInv => TypeOK
  BY DEF IInv, RowTypes, Paths, CallTypes, TypeOK
<1>. QED  BY <1>1, Inductive, PTL

\* GetShareDownloadUrl gives a URL only for a node that was live and under the
\* shared node when it was read, for any tree and any number of moves between
\* the two reads of ResolveNode.
THEOREM GrantsStayInside == Spec => []InsideShare
<1>1. IInv => InsideShare
  BY DEF IInv, Roots, InsideShare
<1>. QED  BY <1>1, Inductive, PTL

\* Resolve refuses a link its owner revoked, whatever rows expire_shares and
\* other updates write back, until the owner gives it another status.
THEOREM RevocationLasts == Spec => []RevokedStaysRevoked
<1>1. IInv => RevokedStaysRevoked
  BY DEF IInv, ClosedRows, RevokedStaysRevoked, Redeemable
<1>. QED  BY <1>1, Inductive, PTL

\* An access token issued by AccessShare rests on the password the link has, or
\* ends AccessTTL after the link lost that password at the latest.
THEOREM OldPasswordsFade == Spec => []ForgottenPassword
<1>1. IInv => ForgottenPassword
  BY DEF IInv, Opened
<1>. QED  BY <1>1, Inductive, PTL

\* The budget of a link holds but for the calls in flight (Resolve, MarkDownloaded):
\* for any number of calls at a time, any settings and any rows written back, no
\* more URLs are handed out under a budget than it allows and calls are served at
\* a time, less one.
THEOREM BudgetHolds == Spec => []BudgetHeld
<1>1. IInv /\ Budgets => BudgetHeld
  <2>. SUFFICES ASSUME IInv, Budgets, NEW l \in Recorded, share[l].set.max > 0
                PROVE  served[l] <= share[l].set.max - 1 + Cardinality(Visitors)
    BY DEF BudgetHeld
  <2>1. served[l] \in Nat /\ share[l].set.max \in Nat
    BY RowNumbers DEF Budgets
  <2>. QED  BY <2>1, PendingCount DEF Budgets
<1>. QED  BY <1>1, Inductive, BudgetsInductive, PTL

=============================================================================
