--------------------------- MODULE FileContentProofs ---------------------------
(***************************************************************************)
(* Proofs about FileContent for any number of files, keys and calls, any   *)
(* sizes, quota and number of versions: the safety properties, the bytes   *)
(* that are billed, and that it implements FileStore.                      *)
(***************************************************************************)
EXTENDS FileContent, MaxTheorems, FiniteSetTheorems, TLAPS

-----------------------------------------------------------------------------
(* The inductive invariant.                                                *)

\* Every version has a file, and their numbers differ.
RowTypes ==
    /\ node \in [Nodes -> Node]
    /\ \A n \in Nodes : node[n].status # "none" => node[n].key \in Keys
    /\ version \subseteq Version
    /\ IsFiniteSet(version)
    /\ \A v \in version : node[v.node].status # "none"
    /\ \A v \in version, w \in version : v.node = w.node /\ v.number = w.number => v = w
    /\ restored \subseteq Live

StoreTypes ==
    /\ object \in [Keys -> Sizes \cup {0, Absent}]
    /\ queue \subseteq Keys
    /\ lost \subseteq Keys

CallTypes ==
    /\ req \in [Requests -> RequestState]
    /\ \A r \in Requests : IF req[r].pc = "idle" THEN req[r].key = None ELSE req[r].key \in Keys

\* A maintenance run works off keys that are queued, and has released the one whose row
\* it deletes next.
JobTypes ==
    /\ job = [pc |-> job.pc, todo |-> job.todo, key |-> job.key, sum |-> job.sum]
    /\ job.pc \in {"idle", "purge", "purgeRow", "recount"}
    /\ job.todo \subseteq queue
    /\ job.key \notin job.todo
    /\ job.key \in queue \cup {None}
    /\ job.pc = "purgeRow" => job.key \in queue /\ object[job.key] = Absent

\* The key of content that is being committed or undone is the handler's own.
Writers ==
    \A r \in Requests : req[r].pc \in {"commit", "undo"} =>
        /\ req[r].key \notin queue
        /\ \A n \in Live : node[n].key # req[r].key
        /\ \A v \in version : v.key # req[r].key
        /\ \A s \in Requests \ {r} : req[s].key # req[r].key
        /\ req[r].pc = "commit" => object[req[r].key] = req[r].size

\* Two rows share a key only when a version of their file was restored.
Owned ==
    /\ \A n \in Live, m \in Live : node[n].key = node[m].key => n = m
    /\ \A v \in version, n \in Live : v.key = node[n].key => v.node = n /\ n \in restored
    /\ \A v \in version, w \in version :
          v.key = w.key => v = w \/ (v.node = w.node /\ v.node \in restored)

\* A key to be released belongs to no row, those of restored files aside.
Held ==
    /\ \A n \in Sound : node[n].key \notin queue /\ \A r \in Requests : req[r].key # node[n].key
    /\ \A v \in version : v.node \notin restored =>
          v.key \notin queue /\ \A r \in Requests : req[r].key # v.key

\* Content has the size its row says, if it is there; only a restored file may miss it.
Matches ==
    /\ \A n \in Live : /\ object[node[n].key] \in {Absent, node[n].size}
                       /\ n \notin restored => object[node[n].key] = node[n].size
    /\ \A v \in version : /\ object[v.key] \in {Absent, v.size}
                          /\ v.node \notin restored => object[v.key] = v.size

\* Somebody knows every object.
Accounted ==
    KeepVersions =>
        \A k \in Keys : object[k] # Absent =>
            \/ k \in queue \cup lost
            \/ \E n \in Live : node[n].key = k
            \/ \E v \in version : v.key = k
            \/ \E r \in Requests : req[r].key = k

IInv ==
    /\ RowTypes /\ StoreTypes /\ CallTypes /\ JobTypes
    /\ Writers /\ Owned /\ Held /\ Matches /\ Accounted

-----------------------------------------------------------------------------
(* Numbers of versions.                                                    *)

\* The next version number is above those of the file.
LEMMA NextNumberAbove ==
    ASSUME RowTypes, ContentConstants, NEW n \in Nodes
    PROVE  /\ NextNumber(n) \in Nat \ {0}
           /\ \A v \in version : v.node = n => v.number < NextNumber(n)
<1> DEFINE S == { v.number : v \in VersionsOf(n) }
<1>1. \A v \in version : v.number \in 1..MaxNumber
  BY DEF RowTypes, Version
<1>2. S \subseteq Nat \ {0} /\ \A x \in S : x <= MaxNumber
  BY <1>1 DEF VersionsOf, ContentConstants
<1>3. IsFiniteSet(S)
  <2> HIDE DEF S
  <2> QED BY <1>2, FS_BoundedSetOfNaturals DEF ContentConstants
<1>4. \A v \in version : v.node = n => v.number \in S
  BY DEF VersionsOf
<1>5. NextNumber(n) = IF S = {} THEN 1 ELSE Max(S) + 1
  BY DEF NextNumber
<1> HIDE DEF S
<1>6. CASE S = {}
  BY <1>4, <1>5, <1>6
<1>7. CASE S # {}
  <2>1. Max(S) \in S /\ \A x \in S : Max(S) >= x
    <3>1. S \subseteq Int
      BY <1>2
    <3> QED BY <3>1, <1>3, <1>7, MaxExists
  <2>2. Max(S) \in Nat \ {0} /\ NextNumber(n) = Max(S) + 1
    BY <1>2, <1>5, <1>7, <2>1
  <2>3. \A x \in S : x < NextNumber(n)
    <3>1. \A x \in S : x \in Nat /\ Max(S) >= x
      BY <1>2, <2>1
    <3> QED BY <2>2, <3>1
  <2> QED BY <1>4, <2>2, <2>3
<1> QED BY <1>6, <1>7

\* Of one version more than MaxVersions the oldest one is trimmed.
LEMMA TrimmedEnough ==
    ASSUME NEW S, IsFiniteSet(S), \A v \in S : v.number \in Nat,
           \A v \in S, w \in S : v.number = w.number => v = w,
           MaxVersions \in Nat, Cardinality(S) = MaxVersions + 1
    PROVE  Cardinality(S \ Trimmed(S)) <= MaxVersions
<1> DEFINE N == { 0 - v.number : v \in S }
<1>1. S # {}
  BY FS_EmptySet
<1>2. Max(N) \in N /\ \A x \in N : Max(N) >= x
  <2>1. N \subseteq Int /\ N # {}
    BY <1>1
  <2>2. IsFiniteSet(N)
    <3> DEFINE f == [v \in S |-> 0 - v.number]
    <3>1. f \in Surjection(S, N)
      BY DEF Surjection
    <3> HIDE DEF f, N
    <3> QED BY <3>1, FS_Surjection
  <2> QED BY <2>1, <2>2, MaxExists
<1>3. PICK o \in S : \A w \in S : w # o => w.number > o.number
  <2>1. PICK o \in S : Max(N) = 0 - o.number
    BY <1>2
  <2>2. \A w \in S : 0 - w.number \in N
    OBVIOUS
  <2> HIDE DEF N
  <2>3. \A w \in S : 0 - o.number >= 0 - w.number
    BY <1>2, <2>1, <2>2
  <2> QED BY <2>3
<1>4. Cardinality(S \ {o}) = MaxVersions /\ IsFiniteSet(S \ {o})
  BY FS_RemoveElement
<1>5. { w \in S : w.number > o.number } = S \ {o}
  BY <1>3
<1>6. o \in Trimmed(S)
  <2> DEFINE newer == Cardinality({ w \in S : w.number > o.number })
  <2>1. newer = MaxVersions
    BY <1>4, <1>5, Zenon
  <2>2. newer >= MaxVersions => o \in Trimmed(S)
    BY DEF Trimmed
  <2> HIDE DEF newer
  <2> QED BY <2>1, <2>2
<1>7. S \ Trimmed(S) \subseteq S \ {o}
  BY <1>6
<1> QED BY <1>4, <1>7, FS_Subset

-----------------------------------------------------------------------------
(* Every action keeps the invariant.                                       *)

\* A new key is nobody's.
LEMMA FreshKey ==
    ASSUME IInv, NEW k \in Keys, Fresh(k)
    PROVE  /\ object[k] = Absent /\ k \notin queue /\ k \notin lost
           /\ k # job.key /\ k \notin job.todo
           /\ \A n \in Live : node[n].key # k
           /\ \A v \in version : v.key # k
           /\ \A r \in Requests : req[r].key # k
BY DEF Fresh, Referenced, InFlight

LEMMA CommitRefusedInv ==
    ASSUME IInv, NEW r \in Requests, CommitRefused(r)
    PROVE  IInv'
<1>1. RowTypes'
  BY DEF IInv, CommitRefused, history, RowTypes, Live
<1>2. StoreTypes'
  BY DEF IInv, CommitRefused, history, StoreTypes
<1>3. CallTypes'
  BY DEF IInv, CommitRefused, history, CallTypes, RequestState
<1>4. JobTypes'
  BY DEF IInv, CommitRefused, history, JobTypes
<1>5. Writers'
  BY DEF IInv, CommitRefused, history, Writers, Live
<1>6. Owned'
  BY DEF IInv, CommitRefused, history, Owned, Live
<1>7. Held'
  BY DEF IInv, CommitRefused, history, Held, Sound, Live
<1>8. Matches'
  BY DEF IInv, CommitRefused, history, Matches, Live
<1>9. Accounted'
  BY DEF IInv, CommitRefused, history, Accounted, Live
<1> QED BY <1>1, <1>2, <1>3, <1>4, <1>5, <1>6, <1>7, <1>8, <1>9 DEF IInv

LEMMA EnqueueVersionInv ==
    ASSUME IInv, NEW r \in Requests, EnqueueVersion(r)
    PROVE  IInv'
<1>1. RowTypes'
  BY DEF IInv, EnqueueVersion, Done, IdleRequest, RowTypes, Live
<1>2. StoreTypes'
  BY DEF IInv, EnqueueVersion, Done, IdleRequest, StoreTypes, CallTypes
<1>3. CallTypes'
  BY DEF IInv, EnqueueVersion, Done, IdleRequest, CallTypes, RequestState
<1>4. JobTypes'
  BY DEF IInv, EnqueueVersion, Done, IdleRequest, JobTypes
<1>5. Writers'
  BY ContentConstants DEF IInv, EnqueueVersion, Done, IdleRequest, Writers, Live, CallTypes
<1>6. Owned'
  BY DEF IInv, EnqueueVersion, Done, IdleRequest, Owned, Live
<1>7. Held'
  <2>1. req' = [req EXCEPT ![r] = IdleRequest] /\ req[r].key \in Keys
    BY DEF IInv, EnqueueVersion, Done, CallTypes
  <2>2. \A s \in Requests : req'[s].key \in {req[s].key, None}
    BY <2>1 DEF IInv, CallTypes, IdleRequest
  <2>3. queue' \subseteq queue \cup {req[r].key}
    BY DEF EnqueueVersion
  <2> QED BY <2>2, <2>3, ContentConstants DEF IInv, EnqueueVersion, Held, Sound, Live, RowTypes, Version
<1>8. Matches'
  BY DEF IInv, EnqueueVersion, Done, IdleRequest, Matches, Live
<1>9. Accounted'
  BY DEF IInv, EnqueueVersion, Done, IdleRequest, Accounted, Live
<1> QED BY <1>1, <1>2, <1>3, <1>4, <1>5, <1>6, <1>7, <1>8, <1>9 DEF IInv

LEMMA StartPurgeInv ==
    ASSUME IInv, StartPurge
    PROVE  IInv'
<1>1. RowTypes'
  BY DEF IInv, StartPurge, history, IdleJob, RowTypes, Live
<1>2. StoreTypes'
  BY DEF IInv, StartPurge, history, IdleJob, StoreTypes
<1>3. CallTypes'
  BY DEF IInv, StartPurge, history, IdleJob, CallTypes, RequestState
<1>4. JobTypes'
  BY ContentConstants DEF IInv, StartPurge, history, IdleJob, JobTypes, StoreTypes
<1>5. Writers'
  BY DEF IInv, StartPurge, history, IdleJob, Writers, Live
<1>6. Owned'
  BY DEF IInv, StartPurge, history, IdleJob, Owned, Live
<1>7. Held'
  BY DEF IInv, StartPurge, history, IdleJob, Held, Sound, Live
<1>8. Matches'
  BY DEF IInv, StartPurge, history, IdleJob, Matches, Live
<1>9. Accounted'
  BY DEF IInv, StartPurge, history, IdleJob, Accounted, Live
<1> QED BY <1>1, <1>2, <1>3, <1>4, <1>5, <1>6, <1>7, <1>8, <1>9 DEF IInv

LEMMA PurgeRowInv ==
    ASSUME IInv, PurgeRow
    PROVE  IInv'
<1>1. RowTypes'
  BY DEF IInv, PurgeRow, history, RowTypes, Live
<1>2. StoreTypes'
  BY DEF IInv, PurgeRow, history, StoreTypes
<1>3. CallTypes'
  BY DEF IInv, PurgeRow, history, CallTypes, RequestState
<1>4. JobTypes'
  BY ContentConstants DEF IInv, PurgeRow, history, JobTypes, StoreTypes
<1>5. Writers'
  BY DEF IInv, PurgeRow, history, Writers, Live
<1>6. Owned'
  BY DEF IInv, PurgeRow, history, Owned, Live
<1>7. Held'
  BY DEF IInv, PurgeRow, history, Held, Sound, Live
<1>8. Matches'
  BY DEF IInv, PurgeRow, history, Matches, Live
<1>9. Accounted'
  BY DEF IInv, PurgeRow, history, Accounted, Live, JobTypes
<1> QED BY <1>1, <1>2, <1>3, <1>4, <1>5, <1>6, <1>7, <1>8, <1>9 DEF IInv

LEMMA StartRecountInv ==
    ASSUME IInv, StartRecount
    PROVE  IInv'
<1>1. RowTypes'
  BY DEF IInv, StartRecount, history, IdleJob, RowTypes, Live
<1>2. StoreTypes'
  BY DEF IInv, StartRecount, history, IdleJob, StoreTypes
<1>3. CallTypes'
  BY DEF IInv, StartRecount, history, IdleJob, CallTypes, RequestState
<1>4. JobTypes'
  BY DEF IInv, StartRecount, history, IdleJob, JobTypes
<1>5. Writers'
  BY DEF IInv, StartRecount, history, IdleJob, Writers, Live
<1>6. Owned'
  BY DEF IInv, StartRecount, history, IdleJob, Owned, Live
<1>7. Held'
  BY DEF IInv, StartRecount, history, IdleJob, Held, Sound, Live
<1>8. Matches'
  BY DEF IInv, StartRecount, history, IdleJob, Matches, Live
<1>9. Accounted'
  BY DEF IInv, StartRecount, history, IdleJob, Accounted, Live
<1> QED BY <1>1, <1>2, <1>3, <1>4, <1>5, <1>6, <1>7, <1>8, <1>9 DEF IInv

LEMMA WriteRecountInv ==
    ASSUME IInv, WriteRecount
    PROVE  IInv'
<1>1. RowTypes'
  BY DEF IInv, WriteRecount, IdleJob, RowTypes, Live
<1>2. StoreTypes'
  BY DEF IInv, WriteRecount, IdleJob, StoreTypes
<1>3. CallTypes'
  BY DEF IInv, WriteRecount, IdleJob, CallTypes, RequestState
<1>4. JobTypes'
  BY DEF IInv, WriteRecount, IdleJob, JobTypes
<1>5. Writers'
  BY DEF IInv, WriteRecount, IdleJob, Writers, Live
<1>6. Owned'
  BY DEF IInv, WriteRecount, IdleJob, Owned, Live
<1>7. Held'
  BY DEF IInv, WriteRecount, IdleJob, Held, Sound, Live
<1>8. Matches'
  BY DEF IInv, WriteRecount, IdleJob, Matches, Live
<1>9. Accounted'
  BY DEF IInv, WriteRecount, IdleJob, Accounted, Live
<1> QED BY <1>1, <1>2, <1>3, <1>4, <1>5, <1>6, <1>7, <1>8, <1>9 DEF IInv

LEMMA JobEndsInv ==
    ASSUME IInv, JobEnds
    PROVE  IInv'
<1>1. RowTypes'
  BY DEF IInv, JobEnds, history, IdleJob, RowTypes, Live
<1>2. StoreTypes'
  BY DEF IInv, JobEnds, history, IdleJob, StoreTypes
<1>3. CallTypes'
  BY DEF IInv, JobEnds, history, IdleJob, CallTypes, RequestState
<1>4. JobTypes'
  BY DEF IInv, JobEnds, history, IdleJob, JobTypes
<1>5. Writers'
  BY DEF IInv, JobEnds, history, IdleJob, Writers, Live
<1>6. Owned'
  BY DEF IInv, JobEnds, history, IdleJob, Owned, Live
<1>7. Held'
  BY DEF IInv, JobEnds, history, IdleJob, Held, Sound, Live
<1>8. Matches'
  BY DEF IInv, JobEnds, history, IdleJob, Matches, Live
<1>9. Accounted'
  BY DEF IInv, JobEnds, history, IdleJob, Accounted, Live
<1> QED BY <1>1, <1>2, <1>3, <1>4, <1>5, <1>6, <1>7, <1>8, <1>9 DEF IInv

LEMMA JobAbandonedInv ==
    ASSUME IInv, JobAbandoned
    PROVE  IInv'
<1>1. RowTypes'
  BY DEF IInv, JobAbandoned, history, IdleJob, RowTypes, Live
<1>2. StoreTypes'
  BY DEF IInv, JobAbandoned, history, IdleJob, StoreTypes
<1>3. CallTypes'
  BY DEF IInv, JobAbandoned, history, IdleJob, CallTypes, RequestState
<1>4. JobTypes'
  BY DEF IInv, JobAbandoned, history, IdleJob, JobTypes
<1>5. Writers'
  BY DEF IInv, JobAbandoned, history, IdleJob, Writers, Live
<1>6. Owned'
  BY DEF IInv, JobAbandoned, history, IdleJob, Owned, Live
<1>7. Held'
  BY DEF IInv, JobAbandoned, history, IdleJob, Held, Sound, Live
<1>8. Matches'
  BY DEF IInv, JobAbandoned, history, IdleJob, Matches, Live
<1>9. Accounted'
  BY DEF IInv, JobAbandoned, history, IdleJob, Accounted, Live
<1> QED BY <1>1, <1>2, <1>3, <1>4, <1>5, <1>6, <1>7, <1>8, <1>9 DEF IInv

LEMMA AbandonInv ==
    ASSUME IInv, NEW r \in Requests, Abandon(r)
    PROVE  IInv'
<1>1. RowTypes'
  BY DEF IInv, Abandon, Done, IdleRequest, RowTypes, Live
<1>2. StoreTypes'
  BY DEF IInv, Abandon, Done, IdleRequest, StoreTypes, CallTypes
<1>3. CallTypes'
  BY DEF IInv, Abandon, Done, IdleRequest, CallTypes, RequestState
<1>4. JobTypes'
  BY DEF IInv, Abandon, Done, IdleRequest, JobTypes
<1>5. Writers'
  BY ContentConstants DEF IInv, Abandon, Done, IdleRequest, Writers, Live, CallTypes
<1>6. Owned'
  BY DEF IInv, Abandon, Done, IdleRequest, Owned, Live
<1>7. Held'
  <2>1. req' = [req EXCEPT ![r] = IdleRequest]
    BY DEF Abandon, Done
  <2>2. \A s \in Requests : req'[s].key \in {req[s].key, None}
    BY <2>1 DEF IInv, CallTypes, IdleRequest
  <2> QED BY <2>2, ContentConstants DEF IInv, Abandon, Held, Sound, Live, RowTypes, Version
<1>8. Matches'
  BY DEF IInv, Abandon, Done, IdleRequest, Matches, Live
<1>9. Accounted'
  BY DEF IInv, Abandon, Done, IdleRequest, Accounted, Live
<1> QED BY <1>1, <1>2, <1>3, <1>4, <1>5, <1>6, <1>7, <1>8, <1>9 DEF IInv

LEMMA PurgeKeyInv ==
    ASSUME IInv, NEW k \in Keys, PurgeKey(k)
    PROVE  IInv'
<1>1. RowTypes'
  BY DEF IInv, PurgeKey, history, RowTypes, Live
<1>2. StoreTypes'
  BY DEF IInv, PurgeKey, history, StoreTypes
<1>3. CallTypes'
  BY DEF IInv, PurgeKey, history, CallTypes, RequestState
<1>4. JobTypes'
  <2>1. /\ job' = [pc |-> job'.pc, todo |-> job'.todo, key |-> job'.key, sum |-> job'.sum]
        /\ job'.todo = job.todo \ {k} /\ job'.pc \in {"purge", "purgeRow"}
        /\ job'.pc = "purgeRow" => job'.key = k /\ object' = [object EXCEPT ![k] = Absent]
        /\ job'.pc = "purge" => job'.key = job.key
    BY DEF IInv, PurgeKey, JobTypes
  <2>2. k \in queue /\ queue' = queue
    BY DEF IInv, PurgeKey, JobTypes
  <2>3. object \in [Keys -> Sizes \cup {0, Absent}]
    BY DEF IInv, StoreTypes
  <2>4. job.key \notin job.todo /\ job.key \in queue \cup {None} /\ job.todo \subseteq queue
    BY DEF IInv, JobTypes
  <2>5. CASE job'.pc = "purgeRow"
    <3>1. object'[k] = Absent
      BY <2>1, <2>3, <2>5
    <3> QED BY <2>1, <2>2, <2>4, <2>5, <3>1 DEF JobTypes
  <2>6. CASE job'.pc = "purge"
    BY <2>1, <2>2, <2>4, <2>6 DEF JobTypes
  <2> QED BY <2>1, <2>5, <2>6
<1>5. Writers'
  BY DEF IInv, PurgeKey, history, Writers, Live, JobTypes, StoreTypes, CallTypes
<1>6. Owned'
  BY DEF IInv, PurgeKey, history, Owned, Live
<1>7. Held'
  BY DEF IInv, PurgeKey, history, Held, Sound, Live
<1>8. Matches'
  <2>1. k \in queue
    BY DEF IInv, PurgeKey, JobTypes
  <2>2. \A j \in Keys : object'[j] = object[j] \/ (j = k /\ object'[j] = Absent)
    BY DEF IInv, PurgeKey, StoreTypes
  <2>3. UNCHANGED <<node, version, restored>>
    BY DEF PurgeKey, history
  <2> QED BY <2>1, <2>2, <2>3 DEF IInv, Matches, Held, Sound, Live, RowTypes, Version
<1>9. Accounted'
  BY DEF IInv, PurgeKey, history, Accounted, Live, JobTypes, StoreTypes
<1> QED BY <1>1, <1>2, <1>3, <1>4, <1>5, <1>6, <1>7, <1>8, <1>9 DEF IInv

LEMMA UndoInv ==
    ASSUME IInv, NEW r \in Requests, Undo(r)
    PROVE  IInv'
<1>1. RowTypes'
  BY DEF IInv, Undo, Done, IdleRequest, RowTypes, Live
<1>2. StoreTypes'
  BY DEF IInv, Undo, Done, IdleRequest, StoreTypes, CallTypes
<1>3. CallTypes'
  BY DEF IInv, Undo, Done, IdleRequest, CallTypes, RequestState
<1>4. JobTypes'
  BY DEF IInv, Undo, Done, IdleRequest, JobTypes, Writers, CallTypes, StoreTypes
<1>5. Writers'
  BY ContentConstants DEF IInv, Undo, Done, IdleRequest, Writers, Live, StoreTypes, CallTypes
<1>6. Owned'
  BY DEF IInv, Undo, Done, IdleRequest, Owned, Live
<1>7. Held'
  <2>1. req' = [req EXCEPT ![r] = IdleRequest]
    BY DEF Undo, Done
  <2>2. \A s \in Requests : req'[s].key \in {req[s].key, None}
    BY <2>1 DEF IInv, CallTypes, IdleRequest
  <2> QED BY <2>2, ContentConstants DEF IInv, Undo, Held, Sound, Live, RowTypes, Version
<1>8. Matches'
  <2>1. \A n \in Live : node[n].key # req[r].key
    BY DEF IInv, Undo, Writers
  <2>2. \A v \in version : v.key # req[r].key
    BY DEF IInv, Undo, Writers
  <2>3. \A j \in Keys : j # req[r].key => object'[j] = object[j]
    BY DEF IInv, Undo, StoreTypes
  <2>4. UNCHANGED <<node, version, restored>>
    BY DEF Undo
  <2> QED BY <2>1, <2>2, <2>3, <2>4 DEF IInv, Matches, Live, RowTypes, Version
<1>9. Accounted'
  BY ContentConstants DEF IInv, Undo, Done, IdleRequest, Accounted, Live, StoreTypes, CallTypes
<1> QED BY <1>1, <1>2, <1>3, <1>4, <1>5, <1>6, <1>7, <1>8, <1>9 DEF IInv

LEMMA PutContentInv ==
    ASSUME IInv, NEW r \in Requests, NEW k \in Keys, NEW size \in Sizes, PutContent(r, k, size)
    PROVE  IInv'
<1> USE FreshKey
<1>a. Fresh(k)
  BY DEF PutContent
<1>b. /\ object'[k] = size
      /\ \A j \in Keys : j # k => object'[j] = object[j]
  BY DEF IInv, PutContent, StoreTypes
<1>c. /\ req'[r] = [pc |-> "commit", key |-> k, size |-> size]
      /\ \A s \in Requests \ {r} : req'[s] = req[s]
  BY DEF IInv, PutContent, CallTypes
<1>d. UNCHANGED <<node, version, queue, job, restored, lost>> /\ req[r].pc = "idle"
  BY DEF PutContent, history
<1>1. RowTypes'
  BY DEF IInv, PutContent, history, RowTypes, Live
<1>2. StoreTypes'
  BY DEF IInv, PutContent, history, StoreTypes
<1>3. CallTypes'
  BY DEF IInv, PutContent, history, CallTypes, RequestState
<1>4. JobTypes'
  BY <1>a, <1>b, <1>d DEF IInv, JobTypes, StoreTypes
<1>5. Writers'
  BY <1>a, <1>b, <1>c, <1>d DEF IInv, Writers, Live, CallTypes
<1>6. Owned'
  BY DEF IInv, PutContent, history, Owned, Live
<1>7. Held'
  BY <1>a, <1>c, <1>d DEF IInv, Held, Sound, Live
<1>8. Matches'
  BY <1>a, <1>b, <1>d DEF IInv, Matches, Live, RowTypes, Version
<1>9. Accounted'
  BY <1>a, <1>b, <1>c, <1>d, ContentConstants DEF IInv, Accounted, Live, CallTypes
<1> QED BY <1>1, <1>2, <1>3, <1>4, <1>5, <1>6, <1>7, <1>8, <1>9 DEF IInv

LEMMA TrashNodeInv ==
    ASSUME IInv, NEW n \in Nodes, TrashNode(n)
    PROVE  IInv'
<1>a. /\ node' \in [Nodes -> Node]
      /\ \A m \in Nodes : /\ node'[m].key = node[m].key /\ node'[m].size = node[m].size
                          /\ node'[m].status = "none" <=> node[m].status = "none"
  BY DEF IInv, RowTypes, Node, TrashNode
<1>b. UNCHANGED <<version, object, queue, req, job, restored, lost>>
  BY DEF TrashNode, history
<1>c. Live' = Live
  BY <1>a DEF Live
<1>1. RowTypes'
  BY <1>a, <1>b, <1>c DEF IInv, RowTypes, Version
<1>2. StoreTypes'
  BY <1>a, <1>b, <1>c DEF IInv, StoreTypes
<1>3. CallTypes'
  BY <1>a, <1>b, <1>c DEF IInv, CallTypes
<1>4. JobTypes'
  BY <1>a, <1>b, <1>c DEF IInv, JobTypes
<1>5. Writers'
  BY <1>a, <1>b, <1>c DEF IInv, Writers, Live
<1>6. Owned'
  BY <1>a, <1>b, <1>c DEF IInv, Owned, Live
<1>7. Held'
  BY <1>a, <1>b, <1>c DEF IInv, Held, Sound, Live, RowTypes, Version
<1>8. Matches'
  BY <1>a, <1>b, <1>c DEF IInv, Matches, Live, RowTypes, Version
<1>9. Accounted'
  BY <1>a, <1>b, <1>c DEF IInv, Accounted, Live
<1> QED BY <1>1, <1>2, <1>3, <1>4, <1>5, <1>6, <1>7, <1>8, <1>9 DEF IInv

LEMMA RestoreNodeInv ==
    ASSUME IInv, NEW n \in Nodes, RestoreNode(n)
    PROVE  IInv'
<1>a. /\ node' \in [Nodes -> Node]
      /\ \A m \in Nodes : /\ node'[m].key = node[m].key /\ node'[m].size = node[m].size
                          /\ node'[m].status = "none" <=> node[m].status = "none"
  BY DEF IInv, RowTypes, Node, RestoreNode
<1>b. UNCHANGED <<version, object, queue, req, job, restored, lost>>
  BY DEF RestoreNode, history
<1>c. Live' = Live
  BY <1>a DEF Live
<1>1. RowTypes'
  BY <1>a, <1>b, <1>c DEF IInv, RowTypes, Version
<1>2. StoreTypes'
  BY <1>a, <1>b, <1>c DEF IInv, StoreTypes
<1>3. CallTypes'
  BY <1>a, <1>b, <1>c DEF IInv, CallTypes
<1>4. JobTypes'
  BY <1>a, <1>b, <1>c DEF IInv, JobTypes
<1>5. Writers'
  BY <1>a, <1>b, <1>c DEF IInv, Writers, Live
<1>6. Owned'
  BY <1>a, <1>b, <1>c DEF IInv, Owned, Live
<1>7. Held'
  BY <1>a, <1>b, <1>c DEF IInv, Held, Sound, Live, RowTypes, Version
<1>8. Matches'
  BY <1>a, <1>b, <1>c DEF IInv, Matches, Live, RowTypes, Version
<1>9. Accounted'
  BY <1>a, <1>b, <1>c DEF IInv, Accounted, Live
<1> QED BY <1>1, <1>2, <1>3, <1>4, <1>5, <1>6, <1>7, <1>8, <1>9 DEF IInv

LEMMA CommitCreateInv ==
    ASSUME IInv, NEW r \in Requests, NEW n \in Nodes, CommitCreate(r, n)
    PROVE  IInv'
<1> DEFINE k == req[r].key
<1>a. /\ node' \in [Nodes -> Node]
      /\ node'[n].key = k /\ node'[n].size = req[r].size /\ node'[n].status = "active"
      /\ \A m \in Nodes \ {n} : node'[m] = node[m]
  BY DEF IInv, RowTypes, CallTypes, RequestState, Node, CommitCreate
<1>b. UNCHANGED <<version, object, queue, job, restored, lost>>
  BY DEF CommitCreate, history
<1>c. /\ n \notin Live /\ Live' = Live \cup {n} /\ n \notin restored
      /\ \A v \in version : v.node # n
  BY <1>a DEF Live, IInv, RowTypes, CommitCreate
<1>d. /\ req' \in [Requests -> RequestState] /\ req'[r] = IdleRequest
      /\ \A s \in Requests \ {r} : req'[s] = req[s]
  BY DEF IInv, CallTypes, CommitCreate, Done, IdleRequest, RequestState
<1>e. /\ k \in Keys /\ k \notin queue /\ object[k] = req[r].size /\ req[r].pc = "commit"
      /\ \A m \in Live : node[m].key # k
      /\ \A v \in version : v.key # k
      /\ \A s \in Requests \ {r} : req[s].key # k
  BY DEF IInv, CallTypes, CommitCreate, Writers
<1> HIDE DEF k
<1>1. RowTypes'
  BY <1>a, <1>b, <1>c, <1>e DEF IInv, RowTypes, Live, Version
<1>2. StoreTypes'
  BY <1>b DEF IInv, StoreTypes
<1>3. CallTypes'
  BY <1>d DEF IInv, CallTypes, IdleRequest
<1>4. JobTypes'
  BY <1>b DEF IInv, JobTypes
<1>5. Writers'
  BY <1>a, <1>b, <1>c, <1>d, <1>e, ContentConstants DEF IInv, Writers, CallTypes, IdleRequest, Live, k
<1>6. Owned'
  BY <1>a, <1>b, <1>c, <1>e DEF IInv, Owned, Live
<1>7. Held'
  BY <1>a, <1>b, <1>c, <1>d, <1>e, ContentConstants DEF IInv, Held, Sound, IdleRequest, Live, RowTypes, Version
<1>8. Matches'
  BY <1>a, <1>b, <1>c, <1>e DEF IInv, Matches, Live
<1>9. Accounted'
  BY <1>a, <1>b, <1>c, <1>d, <1>e DEF IInv, Accounted, Live, k
<1> QED BY <1>1, <1>2, <1>3, <1>4, <1>5, <1>6, <1>7, <1>8, <1>9 DEF IInv

LEMMA CopyNodeInv ==
    ASSUME IInv, NEW n \in Nodes, NEW m \in Nodes, NEW k \in Keys, CopyNode(n, m, k)
    PROVE  IInv'
<1>a. Fresh(k) /\ n \in Live /\ object[node[n].key] # Absent
  BY DEF CopyNode
<1>b. /\ node' \in [Nodes -> Node]
      /\ node'[m].key = k /\ node'[m].size = node[n].size /\ node'[m].status = "active"
      /\ \A i \in Nodes \ {m} : node'[i] = node[i]
  BY DEF IInv, RowTypes, Node, CopyNode
<1>c. UNCHANGED <<version, queue, req, job, restored, lost>>
  BY DEF CopyNode, history
<1>d. /\ m \notin Live /\ Live' = Live \cup {m} /\ m \notin restored
      /\ \A v \in version : v.node # m
  BY <1>b DEF Live, IInv, RowTypes, CopyNode
<1>e. /\ object' \in [Keys -> Sizes \cup {0, Absent}]
      /\ object'[k] = node[n].size
      /\ \A j \in Keys \ {k} : object'[j] = object[j]
  BY <1>a DEF IInv, Matches, StoreTypes, CopyNode, Live, RowTypes
<1>f. /\ object[k] = Absent /\ k \notin queue /\ k \notin lost /\ k # job.key /\ k \notin job.todo
      /\ \A i \in Live : node[i].key # k
      /\ \A v \in version : v.key # k
      /\ \A r \in Requests : req[r].key # k
  BY <1>a, FreshKey
<1>1. RowTypes'
  BY <1>b, <1>c, <1>d DEF IInv, RowTypes, Live, Version
<1>2. StoreTypes'
  BY <1>c, <1>e DEF IInv, StoreTypes
<1>3. CallTypes'
  BY <1>c DEF IInv, CallTypes
<1>4. JobTypes'
  BY <1>c, <1>e, <1>f DEF IInv, JobTypes, StoreTypes
<1>5. Writers'
  BY <1>b, <1>c, <1>d, <1>e, <1>f DEF IInv, Writers, CallTypes, Live
<1>6. Owned'
  BY <1>b, <1>c, <1>d, <1>f DEF IInv, Owned, Live
<1>7. Held'
  BY <1>b, <1>c, <1>d, <1>f DEF IInv, Held, Sound, Live
<1>8. Matches'
  BY <1>b, <1>c, <1>d, <1>e, <1>f DEF IInv, Matches, Live, RowTypes, Version
<1>9. Accounted'
  BY <1>b, <1>c, <1>d, <1>e, <1>f DEF IInv, Accounted, Live
<1> QED BY <1>1, <1>2, <1>3, <1>4, <1>5, <1>6, <1>7, <1>8, <1>9 DEF IInv

LEMMA CopyRolledBackInv ==
    ASSUME IInv, NEW n \in Nodes, NEW k \in Keys, CopyRolledBack(n, k)
    PROVE  IInv'
<1>a. Fresh(k) /\ n \in Live /\ object[node[n].key] # Absent
  BY DEF CopyRolledBack
<1>b. UNCHANGED <<node, version, queue, req, job, restored>> /\ lost' = lost \cup {k}
  BY DEF CopyRolledBack
<1>c. /\ object' \in [Keys -> Sizes \cup {0, Absent}]
      /\ \A j \in Keys \ {k} : object'[j] = object[j]
  BY <1>a DEF IInv, StoreTypes, CopyRolledBack, Live, RowTypes
<1>d. /\ object[k] = Absent /\ k \notin queue /\ k \notin lost /\ k # job.key /\ k \notin job.todo
      /\ \A i \in Live : node[i].key # k
      /\ \A v \in version : v.key # k
      /\ \A r \in Requests : req[r].key # k
  BY <1>a, FreshKey
<1>1. RowTypes'
  BY <1>b DEF IInv, RowTypes, Live
<1>2. StoreTypes'
  BY <1>b, <1>c DEF IInv, StoreTypes
<1>3. CallTypes'
  BY <1>b DEF IInv, CallTypes
<1>4. JobTypes'
  BY <1>b, <1>c, <1>d DEF IInv, JobTypes, StoreTypes
<1>5. Writers'
  BY <1>b, <1>c, <1>d DEF IInv, Writers, CallTypes, Live
<1>6. Owned'
  BY <1>b DEF IInv, Owned, Live
<1>7. Held'
  BY <1>b DEF IInv, Held, Sound, Live
<1>8. Matches'
  BY <1>b, <1>c, <1>d DEF IInv, Matches, Live, RowTypes, Version
<1>9. Accounted'
  BY <1>b, <1>c DEF IInv, Accounted, Live
<1> QED BY <1>1, <1>2, <1>3, <1>4, <1>5, <1>6, <1>7, <1>8, <1>9 DEF IInv

LEMMA PurgeNodeInv ==
    ASSUME IInv, NEW n \in Nodes, PurgeNode(n)
    PROVE  IInv'
<1>a. /\ node' \in [Nodes -> Node] /\ node'[n].status = "none"
      /\ \A m \in Nodes \ {n} : node'[m] = node[m]
  BY DEF IInv, RowTypes, Node, NoNode, PurgeNode
<1>b. UNCHANGED <<object, req, job, lost>> /\ restored' = restored \ {n}
  BY DEF PurgeNode
<1>c. n \in Live /\ Live' = Live \ {n}
  BY <1>a DEF Live, PurgeNode
<1>d. version' = { v \in version : v.node # n }
  BY DEF PurgeNode, VersionsOf
<1>e. \A j : j \in queue' <=> \/ j \in queue \/ j = node[n].key
                              \/ \E v \in version : v.node = n /\ v.key = j
  BY DEF PurgeNode, VersionsOf
<1>1. RowTypes'
  <2>1. IsFiniteSet(version')
    BY <1>d, FS_Subset DEF IInv, RowTypes
  <2> QED BY <1>a, <1>b, <1>c, <1>d, <2>1 DEF IInv, RowTypes, Live, Version
<1>2. StoreTypes'
  BY <1>b, <1>c, <1>e DEF IInv, StoreTypes, RowTypes, Live, Version
<1>3. CallTypes'
  BY <1>b DEF IInv, CallTypes
<1>4. JobTypes'
  BY <1>b, <1>e DEF IInv, JobTypes
<1>5. Writers'
  BY <1>a, <1>b, <1>c, <1>d, <1>e DEF IInv, Writers, Live
<1>6. Owned'
  BY <1>a, <1>b, <1>c, <1>d DEF IInv, Owned, Live
<1>7. Held'
  BY <1>a, <1>b, <1>c, <1>d, <1>e DEF IInv, Held, Owned, Sound, Live, RowTypes, Version
<1>8. Matches'
  BY <1>a, <1>b, <1>c, <1>d DEF IInv, Matches, Live
<1>9. Accounted'
  BY <1>a, <1>b, <1>c, <1>d, <1>e DEF IInv, Accounted, Live
<1> QED BY <1>1, <1>2, <1>3, <1>4, <1>5, <1>6, <1>7, <1>8, <1>9 DEF IInv

LEMMA DeleteVersionInv ==
    ASSUME IInv, NEW r \in Requests, NEW v \in version, DeleteVersion(r, v)
    PROVE  IInv'
<1>a. /\ node' \in [Nodes -> Node]
      /\ \A m \in Nodes : /\ node'[m].key = node[m].key /\ node'[m].size = node[m].size
                          /\ node'[m].status = "none" <=> node[m].status = "none"
  BY DEF IInv, RowTypes, Node, Version, DeleteVersion
<1>b. UNCHANGED <<object, queue, job, restored, lost>> /\ req[r].pc = "idle"
  BY DEF DeleteVersion, history
<1>c. Live' = Live /\ version' = version \ {v}
  BY <1>a DEF Live, DeleteVersion
<1>d. /\ req' \in [Requests -> RequestState]
      /\ req'[r].pc = "enqueue" /\ req'[r].key = v.key
      /\ \A s \in Requests \ {r} : req'[s] = req[s]
  BY DEF IInv, RowTypes, Version, CallTypes, DeleteVersion, IdleRequest, RequestState
<1>1. RowTypes'
  <2>1. IsFiniteSet(version')
    BY <1>c, FS_Subset DEF IInv, RowTypes
  <2> QED BY <1>a, <1>b, <1>c, <2>1 DEF IInv, RowTypes, Version
<1>2. StoreTypes'
  BY <1>b DEF IInv, StoreTypes
<1>3. CallTypes'
  BY <1>d DEF IInv, CallTypes, RowTypes, Version
<1>4. JobTypes'
  BY <1>b DEF IInv, JobTypes
<1>5. Writers'
  BY <1>a, <1>b, <1>c, <1>d DEF IInv, Writers, Live
<1>6. Owned'
  BY <1>a, <1>b, <1>c DEF IInv, Owned, Live
<1>7. Held'
  BY <1>a, <1>b, <1>c, <1>d DEF IInv, Held, Owned, Sound, Live, RowTypes, Version
<1>8. Matches'
  BY <1>a, <1>b, <1>c DEF IInv, Matches, Live, RowTypes, Version
<1>9. Accounted'
  BY <1>a, <1>b, <1>c, <1>d, ContentConstants DEF IInv, Accounted, Live, CallTypes
<1> QED BY <1>1, <1>2, <1>3, <1>4, <1>5, <1>6, <1>7, <1>8, <1>9 DEF IInv

LEMMA RestoreVersionInv ==
    ASSUME IInv, NEW v \in version, RestoreVersion(v)
    PROVE  IInv'
<1> DEFINE n == v.node
           old == [node |-> n, number |-> NextNumber(n), key |-> node[n].key, size |-> node[n].size]
<1>a. /\ n \in Nodes /\ n \in Live /\ v.key \in Keys /\ v.size \in Sizes \cup {0}
  BY DEF IInv, RowTypes, Version, RestoreVersion
<1>b. /\ node' \in [Nodes -> Node]
      /\ node'[n].key = v.key /\ node'[n].size = v.size
      /\ \A m \in Nodes : node'[m].status = node[m].status
      /\ \A m \in Nodes \ {n} : node'[m] = node[m]
  BY <1>a DEF IInv, RowTypes, Node, RestoreVersion
<1>c. UNCHANGED <<object, queue, req, job, lost>> /\ restored' = restored \cup {n}
  BY DEF RestoreVersion
<1>d. Live' = Live
  BY <1>b DEF Live
<1>e. version' = version \cup {old} /\ NextNumber(n) <= MaxNumber
  BY DEF RestoreVersion
<1>f. /\ old.node = n /\ old.number = NextNumber(n) /\ old.key = node[n].key /\ old.size = node[n].size
  OBVIOUS
<1>g. /\ NextNumber(n) \in Nat \ {0}
      /\ \A w \in version : w.node = n => w.number < NextNumber(n)
  BY <1>a, ContentConstants, NextNumberAbove DEF IInv
<1>h. old \in Version
  BY <1>a, <1>e, <1>g, ContentConstants DEF Version, IInv, RowTypes, Node, Live
<1> HIDE DEF old, n
<1>1. RowTypes'
  <2>1. IsFiniteSet(version')
    BY <1>e, FS_AddElement DEF IInv, RowTypes
  <2>2. version' \subseteq Version
    BY <1>e, <1>h DEF IInv, RowTypes
  <2>3. \A w \in version', u \in version' : w.node = u.node /\ w.number = u.number => w = u
    <3>1. \A w \in version : w.number \in Nat
      BY ContentConstants DEF IInv, RowTypes, Version
    <3> QED BY <1>e, <1>f, <1>g, <3>1 DEF IInv, RowTypes
  <2>4. \A w \in version' : node'[w.node].status # "none"
    BY <1>a, <1>b, <1>e, <1>f DEF IInv, RowTypes, Live, Version
  <2> QED BY <1>a, <1>b, <1>c, <1>d, <2>1, <2>2, <2>3, <2>4 DEF IInv, RowTypes, Live
<1>2. StoreTypes'
  BY <1>c DEF IInv, StoreTypes
<1>3. CallTypes'
  BY <1>c DEF IInv, CallTypes
<1>4. JobTypes'
  BY <1>c DEF IInv, JobTypes
<1>5. Writers'
  BY <1>a, <1>b, <1>c, <1>d, <1>e, <1>f DEF IInv, Writers, Live
<1>6. Owned'
  BY <1>a, <1>b, <1>c, <1>d, <1>e, <1>f DEF IInv, Owned, Live, RowTypes, Version, n
<1>7. Held'
  BY <1>a, <1>b, <1>c, <1>d, <1>e, <1>f DEF IInv, Held, Sound, Live, RowTypes, Version
<1>8. Matches'
  BY <1>a, <1>b, <1>c, <1>d, <1>e, <1>f DEF IInv, Matches, Live, RowTypes, Version
<1>9. Accounted'
  BY <1>a, <1>b, <1>c, <1>d, <1>e, <1>f DEF IInv, Accounted, Live
<1> QED BY <1>1, <1>2, <1>3, <1>4, <1>5, <1>6, <1>7, <1>8, <1>9 DEF IInv

LEMMA CommitOverwriteInv ==
    ASSUME IInv, NEW r \in Requests, NEW n \in Nodes, CommitOverwrite(r, n)
    PROVE  IInv'
<1> DEFINE k == req[r].key
           old == [node |-> n, number |-> NextNumber(n), key |-> node[n].key, size |-> node[n].size]
           versions == VersionsOf(n) \cup {old}
           over == MaxVersions > 0 /\ node[n].count + 1 > MaxVersions
           dropped == IF over THEN Trimmed(versions) ELSE {}
           count == IF over THEN Cardinality(versions \ dropped) ELSE node[n].count + 1
<1>a. /\ n \in Live /\ node[n].key \in Keys /\ node[n].size \in Sizes \cup {0} /\ node[n].count \in Nat
  BY DEF IInv, RowTypes, Node, CommitOverwrite, Live
<1>b. dropped \subseteq versions
  BY DEF Trimmed
<1>c. count \in Nat
  <2>1. IsFiniteSet(versions)
    <3>1. IsFiniteSet(VersionsOf(n))
      BY FS_Subset DEF VersionsOf, IInv, RowTypes
    <3> QED BY <3>1, FS_AddElement
  <2> HIDE DEF versions
  <2>2. IsFiniteSet(versions \ dropped)
    BY <2>1, FS_Subset
  <2> HIDE DEF dropped, over
  <2> QED BY <1>a, <2>2, FS_CardinalityType
<1>d. /\ UNCHANGED <<object, job, restored, lost>>
      /\ node' = [node EXCEPT ![n].key = k, ![n].size = req[r].size, ![n].count = IF KeepVersions THEN count ELSE @]
      /\ req' = [req EXCEPT ![r] = IdleRequest]
      /\ req[r].pc = "commit"
  BY DEF CommitOverwrite, Done
<1>e. IF KeepVersions
      THEN /\ NextNumber(n) <= MaxNumber
           /\ version' = (version \cup {old}) \ dropped
           /\ queue' = queue \cup { v.key : v \in dropped }
      ELSE UNCHANGED <<version, queue>>
  BY DEF CommitOverwrite
<1>f. \A w \in dropped : w = old \/ (w \in version /\ w.node = n)
  BY <1>b DEF VersionsOf
<1>g. /\ NextNumber(n) \in Nat \ {0}
      /\ \A w \in version : w.node = n => w.number < NextNumber(n)
  BY <1>a, ContentConstants, NextNumberAbove DEF IInv
<1>h. NextNumber(n) <= MaxNumber => old \in Version
  BY <1>a, <1>g, ContentConstants DEF Version
<1>i. /\ old.node = n /\ old.number = NextNumber(n) /\ old.key = node[n].key /\ old.size = node[n].size
  OBVIOUS
<1> HIDE DEF old, versions, over, dropped, count
<1>j. /\ node' \in [Nodes -> Node]
      /\ node'[n].key = k /\ node'[n].size = req[r].size
      /\ \A m \in Nodes : node'[m].status = node[m].status
      /\ \A m \in Nodes \ {n} : node'[m] = node[m]
  <2>1. /\ k \in Keys /\ req[r].size \in Sizes \cup {0}
        /\ node[n] \in Node /\ node \in [Nodes -> Node]
    BY <1>d DEF IInv, RowTypes, CallTypes, RequestState
  <2> HIDE DEF k
  <2> DEFINE c == IF KeepVersions THEN count ELSE node[n].count
             row == [status |-> node[n].status, key |-> k, size |-> req[r].size, count |-> c]
  <2>2. c \in Nat
    BY <1>a, <1>c
  <2>3. node' = [node EXCEPT ![n].key = k, ![n].size = req[r].size, ![n].count = c]
    BY <1>d DEF k
  <2> HIDE DEF c
  <2>4. row \in Node
    BY <1>a, <2>1, <2>2 DEF Node
  <2>5. \A m \in Nodes : node'[m] = IF m = n THEN row ELSE node[m]
    <3>1. node'[n] = [node[n] EXCEPT !.key = k, !.size = req[r].size, !.count = c]
      BY <2>1, <2>3
    <3>2. node'[n] = row
      BY <2>1, <3>1 DEF Node
    <3>3. \A m \in Nodes \ {n} : node'[m] = node[m]
      BY <2>1, <2>3
    <3> QED BY <3>2, <3>3
  <2>6. node' = [m \in Nodes |-> node'[m]]
    BY <2>1, <2>3
  <2>7. row.key = k /\ row.size = req[r].size /\ row.status = node[n].status
    OBVIOUS
  <2> HIDE DEF row
  <2> QED BY <2>1, <2>4, <2>5, <2>6, <2>7
<1>k. Live' = Live
  BY <1>j DEF Live
<1>l. /\ req' \in [Requests -> RequestState] /\ req'[r] = IdleRequest
      /\ \A s \in Requests \ {r} : req'[s] = req[s]
  BY <1>d DEF IInv, CallTypes, IdleRequest, RequestState
<1>m. /\ k \in Keys /\ k \notin queue /\ object[k] = req[r].size
      /\ \A m \in Live : node[m].key # k
      /\ \A v \in version : v.key # k
      /\ \A s \in Requests \ {r} : req[s].key # k
  BY <1>d DEF IInv, CallTypes, Writers
<1>n. /\ \A w \in version' : w = old \/ w \in version
      /\ \A w \in version : w \in version' \/ (KeepVersions /\ w \in dropped)
      /\ KeepVersions => old \in version' \/ old \in dropped
      /\ \A w \in version' : ~KeepVersions \/ w \notin dropped
      /\ \A j \in queue : j \in queue'
      /\ \A j \in queue' : j \in queue \/ \E w \in dropped : KeepVersions /\ j = w.key
      /\ \A w \in dropped : KeepVersions => w.key \in queue'
  BY <1>e
<1>o. \A w \in version' : w = old => KeepVersions
  <2>1. \A w \in version : w.node = n => w # old
    BY <1>g, <1>i DEF IInv, RowTypes
  <2> QED BY <1>e, <1>i, <2>1
<1> HIDE DEF k
<1>1. RowTypes'
  <2>1. IsFiniteSet(version')
    <3>1. IsFiniteSet(version \cup {old})
      BY FS_AddElement DEF IInv, RowTypes
    <3> QED BY <1>e, <3>1, FS_Subset DEF IInv, RowTypes
  <2>2. version' \subseteq Version
    BY <1>e, <1>h, <1>n, <1>o DEF IInv, RowTypes
  <2>3. \A w \in version', u \in version' : w.node = u.node /\ w.number = u.number => w = u
    <3>1. \A w \in version : w.number \in Nat
      BY ContentConstants DEF IInv, RowTypes, Version
    <3> QED BY <1>n, <1>i, <1>g, <3>1 DEF IInv, RowTypes
  <2>4. \A w \in version' : node'[w.node].status # "none"
    BY <1>a, <1>j, <1>n, <1>i DEF IInv, RowTypes, Live, Version
  <2>5. restored' \subseteq Live'
    BY <1>d, <1>k DEF IInv, RowTypes
  <2>6. \A m \in Nodes : node'[m].status # "none" => node'[m].key \in Keys
    BY <1>j, <1>m DEF IInv, RowTypes
  <2> QED BY <1>j, <2>1, <2>2, <2>3, <2>4, <2>5, <2>6 DEF RowTypes
<1>2. StoreTypes'
  <2>1. \A w \in dropped : w.key \in Keys
    BY <1>a, <1>f, <1>i DEF IInv, RowTypes, Version
  <2> QED BY <1>d, <1>n, <2>1 DEF IInv, StoreTypes
<1>3. CallTypes'
  BY <1>l DEF IInv, CallTypes, IdleRequest
<1>4. JobTypes'
  BY <1>d, <1>n DEF IInv, JobTypes
<1>5. Writers'
  BY <1>d, <1>f, <1>i, <1>j, <1>k, <1>l, <1>m, <1>n, <1>a, ContentConstants DEF IInv, Writers, CallTypes, IdleRequest, Live, k
<1>6. Owned'
  BY <1>a, <1>d, <1>i, <1>j, <1>k, <1>m, <1>n DEF IInv, Owned, Live, RowTypes, Version
<1>7. Held'
  <2>1. \A w \in dropped : w.key = node[n].key \/ \E v \in version : v.node = n /\ w = v
    BY <1>f, <1>i
  <2>2. \A s \in Requests : req'[s].key \in {req[s].key, None}
    BY <1>l DEF IdleRequest
  <2>3. \A m \in Sound' : m \in Sound /\ node'[m].key \in Keys
    BY <1>a, <1>d, <1>j, <1>k, <1>m DEF Sound, Live, IInv, RowTypes
  <2>4. \A m \in Sound' : node'[m].key \notin queue' /\ \A s \in Requests : req'[s].key # node'[m].key
    BY <1>a, <1>f, <1>i, <1>j, <1>l, <1>m, <1>n, <2>2, <2>3, ContentConstants DEF IInv, Held, Owned, Sound, Live, IdleRequest
  <2>5. \A w \in version' : w.node \notin restored' =>
           w.key \notin queue' /\ \A s \in Requests : req'[s].key # w.key
    <3> SUFFICES ASSUME NEW w \in version', w.node \notin restored
                 PROVE  w.key \notin queue' /\ \A s \in Requests : req'[s].key # w.key
      BY <1>d
    <3>1. /\ w.key \notin queue /\ w.key \in Keys
          /\ \A s \in Requests : req[s].key # w.key
      BY <1>a, <1>i, <1>n DEF IInv, Held, Sound, RowTypes, Version
    <3>2. \A x \in dropped : KeepVersions => x.key # w.key
      BY <1>a, <1>f, <1>i, <1>n DEF IInv, Owned
    <3> QED BY <1>n, <2>2, <3>1, <3>2, ContentConstants
  <2> QED BY <2>4, <2>5 DEF Held
<1>8. Matches'
  BY <1>a, <1>d, <1>i, <1>j, <1>k, <1>m, <1>n DEF IInv, Matches, Live, RowTypes, Version
<1>9. Accounted'
  <2> SUFFICES ASSUME KeepVersions, NEW j \in Keys, object[j] # Absent
               PROVE  \/ j \in queue' \cup lost'
                      \/ \E m \in Live' : node'[m].key = j
                      \/ \E v \in version' : v.key = j
                      \/ \E s \in Requests : req'[s].key = j
    BY <1>d DEF Accounted
  <2>1. \/ j \in queue \cup lost
        \/ \E m \in Live : node[m].key = j
        \/ \E v \in version : v.key = j
        \/ \E s \in Requests : req[s].key = j
    BY DEF IInv, Accounted
  <2>2. node[n].key = j => \E v \in version \cup {old} : v.key = j
    BY <1>i
  <2>3. (\E v \in version \cup {old} : v.key = j) => j \in queue' \/ \E v \in version' : v.key = j
    BY <1>n
  <2> QED BY <1>a, <1>d, <1>j, <1>k, <1>l, <1>n, <2>1, <2>2, <2>3 DEF k, Live
<1> QED BY <1>1, <1>2, <1>3, <1>4, <1>5, <1>6, <1>7, <1>8, <1>9 DEF IInv

-----------------------------------------------------------------------------
LEMMA InitInv == ASSUME ContentConstants PROVE Init => IInv
<1> SUFFICES ASSUME Init PROVE IInv
  OBVIOUS
<1>1. RowTypes
  BY FS_EmptySet DEF Init, RowTypes, Node, NoNode, Version
<1>2. StoreTypes /\ CallTypes /\ JobTypes
  BY DEF Init, StoreTypes, CallTypes, JobTypes, IdleRequest, RequestState, IdleJob
<1>3. Writers /\ Owned /\ Held /\ Matches /\ Accounted
  BY DEF Init, Writers, Owned, Held, Matches, Accounted, IdleRequest, Live, Sound, NoNode
<1> QED BY <1>1, <1>2, <1>3 DEF IInv

\* A step that leaves every variable alone.
LEMMA StutterInv == IInv /\ UNCHANGED vars => IInv'
BY DEF IInv, RowTypes, StoreTypes, CallTypes, JobTypes, Writers, Owned, Held, Matches, Accounted, Live, Sound, vars

\* A login only moves the counter.
LEMMA LoginInv ==
    ASSUME IInv, NEW l \in Logins, StartLogin(l) \/ WriteAccount(l)
    PROVE  IInv'
<1>1. UNCHANGED <<node, version, object, queue, req, job, restored, lost>>
  BY DEF StartLogin, WriteAccount, history
<1> QED BY <1>1 DEF IInv, RowTypes, StoreTypes, CallTypes, JobTypes, Writers, Owned, Held, Matches, Accounted, Live, Sound

\* Every step keeps the invariant.
LEMMA StepInv == IInv /\ [Next]_vars => IInv'
<1> SUFFICES ASSUME IInv, [Next]_vars PROVE IInv'
  OBVIOUS
<1>1. ASSUME NEW r \in Requests, Call(r) PROVE IInv'
  BY <1>1, PutContentInv, DeleteVersionInv DEF Call
<1>2. ASSUME NEW r \in Requests, Step(r) PROVE IInv'
  BY <1>2, CommitCreateInv, CommitOverwriteInv, CommitRefusedInv, UndoInv, EnqueueVersionInv DEF Step
<1>3. CASE Transaction
  BY <1>3, RestoreVersionInv, TrashNodeInv, RestoreNodeInv, PurgeNodeInv, CopyRolledBackInv, CopyNodeInv DEF Transaction
<1>4. CASE JobStep
  BY <1>4, PurgeKeyInv, PurgeRowInv, WriteRecountInv, JobEndsInv DEF JobStep
<1> QED BY <1>1, <1>2, <1>3, <1>4, AbandonInv, LoginInv, StartPurgeInv, StartRecountInv, JobAbandonedInv, StutterInv DEF Next

\* What the properties say follows from the invariant.
LEMMA Consequences ==
    ASSUME IInv, ContentConstants
    PROVE  KeyOwnedOnce /\ RowsMatchContent /\ NothingLeaked
<1>1. ASSUME NEW n \in Live, NEW m \in Live, n # m PROVE KeysOf(n) \cap KeysOf(m) = {}
  <2> SUFFICES ASSUME NEW k, k \in KeysOf(n), k \in KeysOf(m) PROVE FALSE
    OBVIOUS
  <2>1. k = node[n].key \/ \E v \in version : v.node = n /\ v.key = k
    BY DEF KeysOf, VersionsOf
  <2>2. k = node[m].key \/ \E v \in version : v.node = m /\ v.key = k
    BY DEF KeysOf, VersionsOf
  <2> QED BY <1>1, <2>1, <2>2 DEF IInv, Owned
<1>2. ASSUME NEW n \in Sound PROVE KeysOf(n) \cap (queue \cup InFlight) = {}
  <2> SUFFICES ASSUME NEW k, k \in KeysOf(n), k \in queue \cup InFlight PROVE FALSE
    OBVIOUS
  <2>1. k = node[n].key \/ \E v \in version : v.node = n /\ v.key = k
    BY DEF KeysOf, VersionsOf
  <2>2. k \in Keys /\ k \notin queue /\ \A r \in Requests : req[r].key # k
    BY <2>1 DEF IInv, Held, Sound, Live, RowTypes, Version
  <2>3. k \in {job.key} \cup job.todo
    BY <2>2 DEF InFlight
  <2> QED BY <2>2, <2>3, ContentConstants DEF IInv, JobTypes
<1>3. ASSUME NEW n \in Sound
      PROVE  /\ \A v \in VersionsOf(n) : v.key # node[n].key
             /\ \A v \in VersionsOf(n), w \in VersionsOf(n) : v.key = w.key => v = w
  BY DEF IInv, Owned, Sound, VersionsOf
<1>4. RowsMatchContent
  BY DEF IInv, Matches, RowsMatchContent, Sound, VersionsOf
<1>5. NothingLeaked
  BY DEF IInv, Accounted, NothingLeaked, Referenced, InFlight
<1> QED BY <1>1, <1>2, <1>3, <1>4, <1>5 DEF KeyOwnedOnce

\* The invariant holds in every reachable state.
LEMMA Invariance == Spec => []IInv
<1>1. Init => IInv
  BY InitInv, ContentConstants
<1> QED BY <1>1, StepInv, PTL DEF Spec

\* A key belongs to one node or one version, and what a row refers to is not about to be
\* released, for any number of uploads, overwrites, copies, purges and maintenance runs
\* in flight (files a version of which was restored aside).
THEOREM KeysBelongToOneRow == Spec => []KeyOwnedOnce
<1>1. IInv => KeyOwnedOnce
  BY Consequences, ContentConstants
<1> QED BY <1>1, Invariance, PTL

\* Every row points at existing content of its own size, whatever races, fails or is cut
\* short (the order of commitNode, releaseObjects and purgeDeletions).
THEOREM ContentIsThere == Spec => []RowsMatchContent
<1>1. IInv => RowsMatchContent
  BY Consequences, ContentConstants
<1> QED BY <1>1, Invariance, PTL

\* No object is forgotten by rows, queue and handlers but where a failure says so.
THEOREM NothingForgotten == Spec => []NothingLeaked
<1>1. IInv => NothingLeaked
  BY Consequences, ContentConstants
<1> QED BY <1>1, Invariance, PTL

-----------------------------------------------------------------------------
(* The number of versions.                                                 *)

\* Files whose rows an action leaves alone.
LEMMA SameCount ==
    ASSUME VersionsBounded, NEW n \in Nodes, n \in Sound,
           node'[n].count = node[n].count, VersionsOf(n)' = VersionsOf(n)
    PROVE  /\ node'[n].count = Cardinality(VersionsOf(n)')
           /\ MaxVersions > 0 => Cardinality(VersionsOf(n)') <= MaxVersions
BY DEF VersionsBounded

\* An overwrite adds one version and trims the rest by VersionCount.
LEMMA OverwriteCount ==
    ASSUME IInv, VersionsBounded, ContentConstants,
           NEW r \in Requests, NEW n \in Nodes, CommitOverwrite(r, n)
    PROVE  VersionsBounded'
<1> DEFINE old == [node |-> n, number |-> NextNumber(n), key |-> node[n].key, size |-> node[n].size]
           versions == VersionsOf(n) \cup {old}
           over == MaxVersions > 0 /\ node[n].count + 1 > MaxVersions
           dropped == IF over THEN Trimmed(versions) ELSE {}
           count == IF over THEN Cardinality(versions \ dropped) ELSE node[n].count + 1
<1>1. /\ node' = [node EXCEPT ![n].key = req[r].key, ![n].size = req[r].size,
                              ![n].count = IF KeepVersions THEN count ELSE @]
      /\ IF KeepVersions THEN version' = (version \cup {old}) \ dropped ELSE version' = version
      /\ restored' = restored
  BY DEF CommitOverwrite
<1>2. dropped \subseteq versions /\ old.node = n /\ old.number = NextNumber(n)
  BY DEF Trimmed
<1>3. /\ NextNumber(n) \in Nat \ {0}
      /\ \A w \in version : w.node = n => w.number < NextNumber(n)
  BY NextNumberAbove DEF IInv
<1>4. /\ IsFiniteSet(VersionsOf(n)) /\ old \notin VersionsOf(n)
      /\ \A v \in versions : v.node = n /\ v.number \in Nat
      /\ \A v \in versions, w \in versions : v.number = w.number => v = w
  <2>1. IsFiniteSet(VersionsOf(n))
    BY FS_Subset DEF VersionsOf, IInv, RowTypes
  <2>2. \A v \in VersionsOf(n) : v.node = n /\ v.number \in Nat /\ v.number < NextNumber(n)
    BY <1>3 DEF VersionsOf, IInv, RowTypes, Version
  <2>3. \A v \in VersionsOf(n), w \in VersionsOf(n) : v.number = w.number => v = w
    BY DEF VersionsOf, IInv, RowTypes
  <2> HIDE DEF old
  <2>4. \A v \in versions : v.node = n /\ v.number \in Nat
    BY <1>2, <1>3, <2>2
  <2>5. \A v \in versions, w \in versions : v.number = w.number => v = w
    BY <1>2, <1>3, <2>2, <2>3
  <2>6. old \notin VersionsOf(n)
    BY <1>2, <1>3, <2>2
  <2> QED BY <2>1, <2>4, <2>5, <2>6
<1>5. VersionsOf(n)' = IF KeepVersions THEN versions \ dropped ELSE VersionsOf(n)
  <2> HIDE DEF old, dropped
  <2> QED BY <1>1, <1>2 DEF VersionsOf
<1>6. \A m \in Nodes \ {n} : VersionsOf(m)' = VersionsOf(m)
  <2>1. \A v \in dropped : v.node = n
    BY <1>2, <1>4
  <2> HIDE DEF old, dropped
  <2> QED BY <1>1, <1>2, <2>1 DEF VersionsOf
<1>7. IsFiniteSet(versions) /\ Cardinality(versions) = Cardinality(VersionsOf(n)) + 1
  <2> HIDE DEF old
  <2> QED BY <1>4, FS_AddElement
<1> HIDE DEF old, versions, over, dropped, count
<1>8. /\ node \in [Nodes -> Node] /\ Sound' = Sound
      /\ \A m \in Nodes \ {n} : node'[m].count = node[m].count
      /\ node'[n].count = IF KeepVersions THEN count ELSE node[n].count
  <2>1. /\ node \in [Nodes -> Node] /\ node[n] \in Node
    BY DEF IInv, RowTypes
  <2>2. \A m \in Nodes : node'[m].status = node[m].status
    BY <1>1, <2>1 DEF Node
  <2>3. Sound' = Sound
    BY <1>1, <2>2 DEF Sound, Live
  <2> QED BY <1>1, <2>1, <2>3 DEF Node
<1>9. ASSUME n \in Sound
      PROVE  /\ node'[n].count = Cardinality(VersionsOf(n)')
             /\ MaxVersions > 0 => Cardinality(VersionsOf(n)') <= MaxVersions
  <2>1. /\ node[n].count = Cardinality(VersionsOf(n)) /\ node[n].count \in Nat
        /\ MaxVersions > 0 => Cardinality(VersionsOf(n)) <= MaxVersions
    BY <1>9, <1>8 DEF VersionsBounded, Node
  <2>2. CASE ~KeepVersions
    BY <1>5, <1>8, <2>1, <2>2
  <2>3. CASE KeepVersions /\ over
    <3>1. Cardinality(versions) = MaxVersions + 1 /\ MaxVersions \in Nat
      BY <1>7, <2>1, <2>3, ContentConstants DEF over
    <3>2. Cardinality(versions \ Trimmed(versions)) <= MaxVersions
      BY <1>4, <1>7, <3>1, TrimmedEnough
    <3> QED BY <1>5, <1>8, <2>3, <3>2 DEF dropped, count
  <2>4. CASE KeepVersions /\ ~over
    <3>1. VersionsOf(n)' = versions
      BY <1>5, <2>4 DEF dropped
    <3> QED BY <1>7, <1>8, <2>1, <2>4, <3>1, ContentConstants DEF over, count
  <2> QED BY <2>2, <2>3, <2>4
<1>10. ASSUME NEW m \in Sound, m # n
       PROVE  /\ node'[m].count = Cardinality(VersionsOf(m)')
              /\ MaxVersions > 0 => Cardinality(VersionsOf(m)') <= MaxVersions
  BY <1>6, <1>8, <1>10, SameCount DEF Sound, Live
<1> QED BY <1>8, <1>9, <1>10 DEF VersionsBounded

\* DeleteVersion takes one version and one off the counter.
LEMMA DeleteCount ==
    ASSUME IInv, VersionsBounded, NEW r \in Requests, NEW v \in version, DeleteVersion(r, v)
    PROVE  VersionsBounded'
<1> DEFINE n == v.node
<1>1. /\ node \in [Nodes -> Node] /\ n \in Nodes /\ node[n] \in Node
      /\ version' = version \ {v} /\ restored' = restored
      /\ node' = [node EXCEPT ![n].count = IF @ > 0 THEN @ - 1 ELSE @]
  BY DEF IInv, RowTypes, Version, DeleteVersion, history
<1>2. /\ IsFiniteSet(VersionsOf(n)) /\ v \in VersionsOf(n)
      /\ VersionsOf(n)' = VersionsOf(n) \ {v}
      /\ \A m \in Nodes \ {n} : VersionsOf(m)' = VersionsOf(m)
  <2>1. IsFiniteSet(VersionsOf(n))
    BY FS_Subset DEF VersionsOf, IInv, RowTypes
  <2> QED BY <1>1, <2>1 DEF VersionsOf
<1> HIDE DEF n
<1>3. /\ Sound' = Sound
      /\ \A m \in Nodes \ {n} : node'[m].count = node[m].count
      /\ node'[n].count = IF node[n].count > 0 THEN node[n].count - 1 ELSE node[n].count
  <2>1. \A m \in Nodes : node'[m].status = node[m].status
    BY <1>1 DEF Node
  <2>2. Sound' = Sound
    BY <1>1, <2>1 DEF Sound, Live
  <2> QED BY <1>1, <2>2 DEF Node
<1>4. /\ Cardinality(VersionsOf(n)') = Cardinality(VersionsOf(n)) - 1
      /\ Cardinality(VersionsOf(n)) \in Nat \ {0}
  BY <1>2, FS_RemoveElement, FS_CardinalityType, FS_EmptySet
<1>5. ASSUME n \in Sound
      PROVE  /\ node'[n].count = Cardinality(VersionsOf(n)')
             /\ MaxVersions > 0 => Cardinality(VersionsOf(n)') <= MaxVersions
  <2>1. /\ node[n].count = Cardinality(VersionsOf(n))
        /\ MaxVersions > 0 => Cardinality(VersionsOf(n)) <= MaxVersions
    BY <1>5 DEF VersionsBounded
  <2> QED BY <1>3, <1>4, <2>1, ContentConstants
<1>6. ASSUME NEW m \in Sound, m # n
      PROVE  /\ node'[m].count = Cardinality(VersionsOf(m)')
             /\ MaxVersions > 0 => Cardinality(VersionsOf(m)') <= MaxVersions
  BY <1>2, <1>3, <1>6, SameCount DEF Sound, Live
<1> QED BY <1>3, <1>5, <1>6 DEF VersionsBounded

\* A new file has no version yet.
LEMMA NewFileCount ==
    ASSUME IInv, VersionsBounded, ContentConstants, NEW n \in Nodes, node[n].status = "none",
           node'[n].count = 0, \A m \in Nodes \ {n} : node'[m] = node[m],
           UNCHANGED <<version, restored>>
    PROVE  VersionsBounded'
<1>1. \A m \in Nodes : VersionsOf(m)' = VersionsOf(m)
  BY DEF VersionsOf
<1>2. VersionsOf(n) = {}
  BY DEF VersionsOf, IInv, RowTypes
<1>3. \A m \in Sound' : m = n \/ (m \in Sound /\ node'[m] = node[m])
  BY DEF Sound, Live
<1>4. Cardinality(VersionsOf(n)') = 0
  BY <1>1, <1>2, FS_EmptySet
<1>5. ASSUME NEW m \in Sound', m # n
      PROVE  /\ node'[m].count = Cardinality(VersionsOf(m)')
             /\ MaxVersions > 0 => Cardinality(VersionsOf(m)') <= MaxVersions
  BY <1>1, <1>3, <1>5, SameCount DEF Sound, Live
<1> QED BY <1>4, <1>5, ContentConstants DEF VersionsBounded

\* Every step keeps the number of versions bounded and counted.
LEMMA StepCount == IInv /\ VersionsBounded /\ [Next]_vars => VersionsBounded'
<1> SUFFICES ASSUME IInv, VersionsBounded, [Next]_vars PROVE VersionsBounded'
  OBVIOUS
\* Files that are sound afterwards were so before, and their rows stay.
<1> DEFINE Untouched(m) == m \in Sound /\ node'[m].count = node[m].count /\ VersionsOf(m)' = VersionsOf(m)
<1>a. ASSUME \A m \in Sound' : Untouched(m) PROVE VersionsBounded'
  BY <1>a, SameCount DEF VersionsBounded, Sound, Live
<1>b. node \in [Nodes -> Node]
  BY DEF IInv, RowTypes
<1>c. ASSUME UNCHANGED <<node, version, restored>> PROVE VersionsBounded'
  BY <1>c DEF VersionsBounded, Sound, Live, VersionsOf
<1>1. ASSUME NEW r \in Requests, NEW n \in Nodes, CommitCreate(r, n) PROVE VersionsBounded'
  BY <1>1, <1>b, ContentConstants, NewFileCount DEF CommitCreate, history
<1>2. ASSUME NEW n \in Nodes, NEW m \in Nodes, NEW k \in Keys, CopyNode(n, m, k) PROVE VersionsBounded'
  BY <1>2, <1>b, ContentConstants, NewFileCount DEF CopyNode, history
<1>3. ASSUME NEW n \in Nodes, TrashNode(n) \/ RestoreNode(n) PROVE VersionsBounded'
  <2>1. \A m \in Nodes : node'[m].count = node[m].count /\ (node'[m].status = "none" <=> node[m].status = "none")
    BY <1>3, <1>b DEF TrashNode, RestoreNode, Node
  <2>2. UNCHANGED <<version, restored>>
    BY <1>3 DEF TrashNode, RestoreNode, history
  <2> QED BY <1>a, <2>1, <2>2 DEF Sound, Live, VersionsOf
<1>4. ASSUME NEW n \in Nodes, PurgeNode(n) PROVE VersionsBounded'
  <2>1. \A m \in Sound' : m # n /\ m \in Sound /\ node'[m] = node[m]
    BY <1>4, <1>b DEF PurgeNode, NoNode, Sound, Live
  <2>2. \A m \in Nodes \ {n} : VersionsOf(m)' = VersionsOf(m)
    BY <1>4 DEF PurgeNode, VersionsOf
  <2> QED BY <1>a, <2>1, <2>2 DEF Sound, Live
<1>5. ASSUME NEW v \in version, RestoreVersion(v) PROVE VersionsBounded'
  <2>1. \A m \in Sound' : m # v.node /\ m \in Sound /\ node'[m] = node[m]
    BY <1>5, <1>b DEF RestoreVersion, Sound, Live
  <2>2. \A m \in Nodes \ {v.node} : VersionsOf(m)' = VersionsOf(m)
    BY <1>5 DEF RestoreVersion, VersionsOf
  <2> QED BY <1>a, <2>1, <2>2 DEF Sound, Live
<1>6. ASSUME NEW r \in Requests, Call(r) \/ Step(r) \/ Abandon(r) PROVE VersionsBounded'
  <2>1. ASSUME NEW k \in Keys, NEW size \in Sizes, PutContent(r, k, size) PROVE VersionsBounded'
    BY <2>1, <1>c DEF PutContent, history
  <2>2. ASSUME CommitRefused(r) \/ Undo(r) \/ EnqueueVersion(r) \/ Abandon(r) PROVE VersionsBounded'
    BY <2>2, <1>c DEF CommitRefused, Undo, EnqueueVersion, Abandon, history
  <2> QED BY <1>1, <1>6, <2>1, <2>2, OverwriteCount, DeleteCount, ContentConstants DEF Call, Step
<1>7. CASE Transaction
  <2>1. ASSUME NEW n \in Nodes, NEW k \in Keys, CopyRolledBack(n, k) PROVE VersionsBounded'
    BY <2>1, <1>c DEF CopyRolledBack
  <2> QED BY <1>2, <1>3, <1>4, <1>5, <1>7, <2>1 DEF Transaction
<1>8. CASE JobStep \/ StartPurge \/ StartRecount \/ JobAbandoned \/ UNCHANGED vars
  BY <1>8, <1>c DEF JobStep, PurgeKey, PurgeRow, WriteRecount, JobEnds, StartPurge, StartRecount, JobAbandoned, history, vars
<1>9. ASSUME NEW l \in Logins, StartLogin(l) \/ WriteAccount(l) PROVE VersionsBounded'
  BY <1>9, <1>c DEF StartLogin, WriteAccount, history
<1> QED BY <1>6, <1>7, <1>8, <1>9 DEF Next

\* A file keeps at most MaxVersions versions, and VersionCount counts them.
THEOREM VersionsStayBounded == Spec => []VersionsBounded
<1>1. Init => VersionsBounded
  BY DEF Init, VersionsBounded, Sound, Live, NoNode
<1> QED BY <1>1, StepCount, Invariance, PTL DEF Spec
-----------------------------------------------------------------------------
(* The bytes that are billed.                                              *)

\* While the counter is exact it is the bytes of the files, within the quota, and a
\* version has the size of its file: restoring it moves nothing.
Billing ==
    /\ used \in Nat /\ job.sum \in Nat /\ exact \in BOOLEAN
    /\ IsFiniteSet(Bytes(node, Live))
    /\ exact => /\ used = Cardinality(Bytes(node, Live))
                /\ \A v \in version : v.size = node[v.node].size
                /\ Quota > 0 => used <= Quota

\* A login holds a counter that was billed once.
LoginTypes == login \in [Logins -> Nat \cup {NotRead}]

\* One more file is its size in bytes more.
LEMMA BytesAdded ==
    ASSUME NEW rows, NEW S, NEW n, n \notin S, NEW k \in Nat, rows[n].size = k, IsFiniteSet(Bytes(rows, S))
    PROVE  /\ IsFiniteSet(Bytes(rows, S \cup {n}))
           /\ Cardinality(Bytes(rows, S \cup {n})) = Cardinality(Bytes(rows, S)) + k
<1>. DEFINE own == {n} \X (1..k)  old == Bytes(rows, S)
<1>1. Bytes(rows, S \cup {n}) = old \cup own
  BY DEF Bytes
<1>2. old \cap own = {}
  BY DEF Bytes
<1>3. IsFiniteSet(own) /\ Cardinality(own) = k
  <2>1. IsFiniteSet({n}) /\ Cardinality({n}) = 1
    BY FS_Singleton
  <2>2. IsFiniteSet(1..k) /\ Cardinality(1..k) = k
    BY FS_Interval
  <2>3. IsFiniteSet(own) /\ Cardinality(own) = Cardinality({n}) * Cardinality(1..k)
    BY <2>1, <2>2, FS_Product
  <2>. HIDE DEF own
  <2>. QED  BY <2>1, <2>2, <2>3
<1>4. IsFiniteSet(old) /\ Cardinality(old) \in Nat
  BY FS_CardinalityType
<1>. HIDE DEF own, old
<1>5. /\ IsFiniteSet(old \cup own)
      /\ Cardinality(old \cup own) = Cardinality(old) + Cardinality(own) - Cardinality(old \cap own)
  BY <1>3, <1>4, FS_Union
<1>6. Cardinality(old \cap own) = 0
  BY <1>2, FS_EmptySet
<1>7. IsFiniteSet(old \cup own) /\ Cardinality(old \cup own) = Cardinality(old) + k
  BY <1>3, <1>4, <1>5, <1>6
<1>. QED  BY <1>1, <1>7 DEF old

\* Fewer files, no more bytes.
LEMMA BytesOfFewer ==
    ASSUME NEW rows, NEW S, NEW T, T \subseteq S, IsFiniteSet(Bytes(rows, S))
    PROVE  IsFiniteSet(Bytes(rows, T)) /\ Cardinality(Bytes(rows, T)) \in Nat
<1>1. Bytes(rows, T) \subseteq Bytes(rows, S)
  BY DEF Bytes
<1>. QED  BY <1>1, FS_Subset, FS_CardinalityType

LEMMA SameBytes ==
    ASSUME NEW rows, NEW later, NEW S, \A n \in S : later[n].size = rows[n].size
    PROVE  Bytes(later, S) = Bytes(rows, S)
BY DEF Bytes

SizeIn(rows, S, n) == IF n \in S THEN rows[n].size ELSE 0

\* A step that writes the row of one file.
LEMMA BytesOfOthers ==
    ASSUME NEW n \in Nodes, IsFiniteSet(Bytes(node, Live)),
           Live' \ {n} = Live \ {n}, \A m \in Live \ {n} : node'[m].size = node[m].size,
           n \in Live => node[n].size \in Nat, n \in Live' => node'[n].size \in Nat
    PROVE  /\ IsFiniteSet(Bytes(node', Live'))
           /\ Cardinality(Bytes(node, Live)) \in Nat /\ Cardinality(Bytes(node', Live')) \in Nat
           /\ SizeIn(node, Live, n) \in Nat /\ SizeIn(node, Live, n) <= Cardinality(Bytes(node, Live))
           /\ Cardinality(Bytes(node', Live'))
                 = Cardinality(Bytes(node, Live)) - SizeIn(node, Live, n) + SizeIn(node', Live', n)
<1>. DEFINE others == Live \ {n}
<1>1. /\ IsFiniteSet(Bytes(node, others)) /\ Cardinality(Bytes(node, others)) \in Nat
      /\ Bytes(node', others) = Bytes(node, others)
  <2>1. IsFiniteSet(Bytes(node, others)) /\ Cardinality(Bytes(node, others)) \in Nat
    BY BytesOfFewer
  <2>2. Bytes(node', others) = Bytes(node, others)
    BY SameBytes
  <2>. QED  BY <2>1, <2>2
<1>2. Cardinality(Bytes(node, Live)) = Cardinality(Bytes(node, others)) + SizeIn(node, Live, n)
  <2>1. CASE n \in Live
    <3>1. Live = others \cup {n} /\ n \notin others
      BY <2>1
    <3>. HIDE DEF others
    <3>2. PICK k \in Nat : node[n].size = k
      BY <2>1
    <3>3. Cardinality(Bytes(node, others \cup {n})) = Cardinality(Bytes(node, others)) + k
      BY <1>1, <3>1, <3>2, BytesAdded
    <3>. QED  BY <2>1, <3>1, <3>2, <3>3 DEF SizeIn
  <2>2. CASE n \notin Live
    <3>1. Live = others
      BY <2>2
    <3>. HIDE DEF others
    <3>. QED  BY <1>1, <2>2, <3>1 DEF SizeIn
  <2>. QED  BY <2>1, <2>2
<1>3. /\ IsFiniteSet(Bytes(node', Live'))
      /\ Cardinality(Bytes(node', Live')) = Cardinality(Bytes(node, others)) + SizeIn(node', Live', n)
  <2>1. CASE n \in Live'
    <3>1. Live' = others \cup {n} /\ n \notin others
      BY <2>1
    <3>. HIDE DEF others
    <3>2. PICK k \in Nat : node'[n].size = k
      BY <2>1
    <3>3. IsFiniteSet(Bytes(node', others))
      BY <1>1
    <3>4. /\ IsFiniteSet(Bytes(node', others \cup {n}))
          /\ Cardinality(Bytes(node', others \cup {n})) = Cardinality(Bytes(node', others)) + k
      BY <3>1, <3>2, <3>3, BytesAdded
    <3>. QED  BY <1>1, <2>1, <3>1, <3>2, <3>4 DEF SizeIn
  <2>2. CASE n \notin Live'
    <3>1. Live' = others
      BY <2>2
    <3>. QED  BY <1>1, <2>2, <3>1 DEF SizeIn
  <2>. QED  BY <2>1, <2>2
<1>4. SizeIn(node, Live, n) \in Nat /\ SizeIn(node', Live', n) \in Nat
  BY DEF SizeIn
<1>. HIDE DEF others
<1>. QED  BY <1>1, <1>2, <1>3, <1>4

LEMMA RowSizes ==
    ASSUME IInv
    PROVE  /\ \A n \in Nodes : node[n] \in Node /\ node[n].size \in Sizes \cup {0}
           /\ \A r \in Requests : req[r].size \in Sizes \cup {0}
           /\ \A n \in Nodes : n \notin Live => VersionsOf(n) = {} /\ n \notin restored
BY DEF IInv, RowTypes, CallTypes, Node, RequestState, Live, VersionsOf

LEMMA SizesAreNumbers ==
    ASSUME IInv
    PROVE  /\ \A n \in Nodes : node[n].size \in Nat
           /\ \A r \in Requests : req[r].size \in Nat
<1>1. \A s \in Sizes \cup {0} : s \in Nat
  BY ContentConstants
<1>. QED  BY <1>1, RowSizes

\* Steps that bill nothing: no file comes, goes or changes its size, no version comes.
LEMMA BillingUntouched ==
    ASSUME Billing, Live' = Live, \A n \in Live : node'[n].size = node[n].size,
           \A v \in version' : v \in version /\ v.node \in Live,
           used' = used, exact' = exact, job'.sum \in Nat
    PROVE  Billing'
<1>1. Bytes(node', Live') = Bytes(node, Live)
  BY SameBytes
<1>. QED  BY <1>1 DEF Billing

LEMMA BillingOfCalls ==
    ASSUME IInv, Billing, NEW r \in Requests,
           \/ \E k \in Keys, size \in Sizes : PutContent(r, k, size)
           \/ CommitRefused(r) \/ Undo(r) \/ EnqueueVersion(r) \/ Abandon(r)
           \/ \E v \in version : DeleteVersion(r, v)
    PROVE  Billing'
<1>1. UNCHANGED <<used, job, exact>> /\ version' \subseteq version
  BY DEF PutContent, CommitRefused, Undo, EnqueueVersion, Abandon, DeleteVersion, history
<1>2. \A v \in version : v.node \in Live
  BY DEF IInv, RowTypes, Version, Live
<1>3. Live' = Live /\ \A n \in Live : node'[n].size = node[n].size
  <2>1. CASE node' = node
    BY <2>1 DEF Live
  <2>2. ASSUME NEW v \in version, DeleteVersion(r, v)
        PROVE  Live' = Live /\ \A n \in Live : node'[n].size = node[n].size
    <3>1. node' = [node EXCEPT ![v.node].count = IF @ > 0 THEN @ - 1 ELSE @]
      BY <2>2 DEF DeleteVersion
    <3>. QED  BY <3>1 DEF Live, IInv, RowTypes, Node
  <2>. QED  BY <2>1, <2>2 DEF PutContent, CommitRefused, Undo, EnqueueVersion, Abandon
<1>. QED  BY <1>1, <1>2, <1>3, BillingUntouched DEF Billing

LEMMA BillingOfTrash ==
    ASSUME IInv, Billing, NEW n \in Nodes, TrashNode(n) \/ RestoreNode(n) \/ (\E k \in Keys : CopyRolledBack(n, k))
    PROVE  Billing'
<1>1. UNCHANGED <<used, job, exact, version>>
  BY DEF TrashNode, RestoreNode, CopyRolledBack, history
<1>2. \A v \in version : v.node \in Live
  BY DEF IInv, RowTypes, Version, Live
<1>3. Live' = Live /\ \A m \in Live : node'[m].size = node[m].size
  <2>1. CASE TrashNode(n)
    BY <2>1 DEF TrashNode, Live, IInv, RowTypes, Node
  <2>2. CASE RestoreNode(n)
    BY <2>2 DEF RestoreNode, Live, IInv, RowTypes, Node
  <2>3. CASE node' = node
    BY <2>3 DEF Live
  <2>. QED  BY <2>1, <2>2, <2>3 DEF CopyRolledBack
<1>. QED  BY <1>1, <1>2, <1>3, BillingUntouched DEF Billing

LEMMA BillingOfJobs ==
    ASSUME IInv, Billing,
           \/ StartPurge \/ StartRecount \/ JobAbandoned \/ PurgeRow \/ JobEnds \/ UNCHANGED vars
           \/ \E k \in Keys : PurgeKey(k)
    PROVE  Billing'
<1>1. UNCHANGED <<used, exact, version, node>>
  BY DEF StartPurge, StartRecount, JobAbandoned, PurgeRow, JobEnds, PurgeKey, vars, history
<1>2. \A v \in version : v.node \in Live
  BY DEF IInv, RowTypes, Version, Live
<1>3. job'.sum \in Nat
  <2>1. CASE StartRecount
    <3>1. Active \subseteq Live
      BY DEF Active, Live
    <3>2. SizeOf(Active) \in Nat
      BY <3>1, BytesOfFewer DEF Billing, SizeOf
    <3>. QED  BY <2>1, <3>2 DEF StartRecount, IdleJob
  <2>2. CASE StartPurge \/ JobAbandoned \/ JobEnds
    <3>1. CASE job' = IdleJob
      BY <3>1 DEF IdleJob
    <3>2. CASE job' = [IdleJob EXCEPT !.pc = "purge", !.todo = queue]
      BY <3>2 DEF IdleJob
    <3>. QED  BY <2>2, <3>1, <3>2 DEF StartPurge, JobAbandoned, JobEnds
  <2>3. CASE PurgeRow \/ (\E k \in Keys : PurgeKey(k))
    <3>1. job = [pc |-> job.pc, todo |-> job.todo, key |-> job.key, sum |-> job.sum] /\ job.sum \in Nat
      BY DEF IInv, JobTypes, Billing
    <3>2. CASE PurgeRow
      <4>1. job' = [job EXCEPT !.pc = "purge", !.key = None]
        BY <3>2 DEF PurgeRow
      <4>2. job'.sum = job.sum
        BY <3>1, <4>1
      <4>. QED  BY <3>1, <4>2
    <3>3. ASSUME NEW k \in Keys, PurgeKey(k)
          PROVE  job'.sum \in Nat
      <4>1. \/ job' = [job EXCEPT !.pc = "purgeRow", !.key = k, !.todo = @ \ {k}]
            \/ job' = [job EXCEPT !.todo = @ \ {k}]
        BY <3>3 DEF PurgeKey
      <4>2. job'.sum = job.sum
        BY <3>1, <4>1
      <4>. QED  BY <3>1, <4>2
    <3>. QED  BY <2>3, <3>2, <3>3
  <2>4. CASE UNCHANGED vars
    BY <2>4 DEF vars, Billing
  <2>. QED  BY <2>1, <2>2, <2>3, <2>4
<1>. QED  BY <1>1, <1>2, <1>3, BillingUntouched DEF Live

LEMMA BillingOfRecount ==
    ASSUME Billing, WriteRecount
    PROVE  Billing'
<1>1. /\ used' = job.sum /\ exact' = FALSE /\ job'.sum = 0 /\ node' = node
  BY DEF WriteRecount, IdleJob
<1>2. Live' = Live
  BY <1>1 DEF Live
<1>3. used' \in Nat /\ job'.sum \in Nat /\ exact' = FALSE /\ IsFiniteSet(Bytes(node', Live'))
  BY <1>1, <1>2 DEF Billing
<1>. QED  BY <1>3 DEF Billing

\* A login that writes back what is still billed changes nothing.
LEMMA BillingOfLogin ==
    ASSUME Billing, LoginTypes, NEW l \in Logins, StartLogin(l) \/ WriteAccount(l)
    PROVE  Billing'
<1>1. UNCHANGED <<node, version, job>>
  BY DEF StartLogin, WriteAccount
<1>2. Live' = Live
  BY <1>1 DEF Live
<1>3. CASE StartLogin(l)
  <2>1. UNCHANGED <<used, exact>>
    BY <1>3 DEF StartLogin, history
  <2>. QED  BY <1>1, <1>2, <2>1 DEF Billing
<1>4. CASE WriteAccount(l)
  <2>1. used' = login[l] /\ exact' = (exact /\ login[l] = used) /\ login[l] \in Nat
    BY <1>4 DEF WriteAccount, LoginTypes
  <2>2. exact' \in BOOLEAN /\ (exact' => exact /\ used' = used)
    BY <2>1 DEF Billing
  <2>3. used' \in Nat
    BY <2>1
  <2>. QED  BY <1>1, <1>2, <2>2, <2>3 DEF Billing
<1>. QED  BY <1>3, <1>4

LEMMA LoginStep == Billing /\ LoginTypes /\ [Next]_vars => LoginTypes'
<1>. SUFFICES ASSUME Billing, LoginTypes, [Next]_vars PROVE LoginTypes'
  OBVIOUS
<1>1. ASSUME NEW l \in Logins, StartLogin(l) \/ WriteAccount(l) PROVE LoginTypes'
  <2>1. login' = [login EXCEPT ![l] = used] \/ login' = [login EXCEPT ![l] = NotRead]
    BY <1>1 DEF StartLogin, WriteAccount
  <2>2. used \in Nat
    BY DEF Billing
  <2>. QED  BY <2>1, <2>2 DEF LoginTypes
<1>2. ASSUME UNCHANGED login PROVE LoginTypes'
  BY <1>2 DEF LoginTypes
<1>3. ASSUME NEW r \in Requests, Call(r) \/ Step(r) \/ Abandon(r) PROVE UNCHANGED login
  <2>1. CASE Call(r)
    BY <2>1 DEF Call, PutContent, DeleteVersion
  <2>2. CASE Step(r)
    BY <2>2 DEF Step, CommitCreate, CommitOverwrite, CommitRefused, Undo, EnqueueVersion
  <2>. QED  BY <1>3, <2>1, <2>2 DEF Abandon
<1>4. CASE Transaction
  BY <1>2, <1>4 DEF Transaction, RestoreVersion, TrashNode, RestoreNode, PurgeNode, CopyRolledBack, CopyNode
<1>5. CASE StartPurge \/ StartRecount \/ JobStep \/ JobAbandoned \/ UNCHANGED vars
  BY <1>2, <1>5 DEF StartPurge, StartRecount, JobStep, JobAbandoned, PurgeKey, PurgeRow, WriteRecount, JobEnds, vars
<1>. QED  BY <1>1, <1>2, <1>3, <1>4, <1>5 DEF Next

\* Writing a row bills its size; a version is made of a file's own content.
LEMMA BillingOfCreate ==
    ASSUME IInv, Billing, NEW r \in Requests, NEW n \in Nodes, CommitCreate(r, n)
    PROVE  Billing'
<1>. DEFINE q == req[r]
<1>1. /\ n \notin Live /\ Live' = Live \cup {n} /\ node'[n].size = q.size /\ q.size \in Nat
      /\ \A m \in Nodes \ {n} : node'[m] = node[m]
  BY SizesAreNumbers DEF CommitCreate, Live, IInv, RowTypes
<1>2. /\ used' = used + q.size /\ UNCHANGED <<version, job, exact>> /\ QuotaAllows(q.size)
  BY DEF CommitCreate, history
<1>. HIDE DEF q
<1>3. /\ IsFiniteSet(Bytes(node', Live')) /\ Cardinality(Bytes(node, Live)) \in Nat
      /\ Cardinality(Bytes(node', Live')) = Cardinality(Bytes(node, Live)) + q.size
  <2>1. Live' \ {n} = Live \ {n} /\ \A m \in Live \ {n} : node'[m].size = node[m].size
    BY <1>1 DEF Live
  <2>2. SizeIn(node, Live, n) = 0 /\ SizeIn(node', Live', n) = q.size
    BY <1>1 DEF SizeIn
  <2>3. IsFiniteSet(Bytes(node, Live))
    BY DEF Billing
  <2>4. /\ IsFiniteSet(Bytes(node', Live')) /\ Cardinality(Bytes(node, Live)) \in Nat
        /\ Cardinality(Bytes(node', Live'))
             = Cardinality(Bytes(node, Live)) - SizeIn(node, Live, n) + SizeIn(node', Live', n)
    BY <1>1, <2>1, <2>3, BytesOfOthers
  <2>. QED  BY <1>1, <2>2, <2>4
<1>4. \A v \in version : v.node \in Live /\ v.node # n /\ v.node \in Nodes
  BY <1>1 DEF IInv, RowTypes, Version, Live
<1>5. ASSUME exact', Quota > 0 PROVE used' <= Quota
  BY <1>1, <1>2, <1>5, ContentConstants DEF QuotaAllows, Billing
<1>. QED  BY <1>1, <1>2, <1>3, <1>4, <1>5 DEF Billing

LEMMA BillingOfCopy ==
    ASSUME IInv, Billing, NEW n \in Nodes, NEW m \in Nodes, NEW k \in Keys, CopyNode(n, m, k)
    PROVE  Billing'
<1>. DEFINE size == node[n].size
<1>1. /\ m \notin Live /\ Live' = Live \cup {m} /\ node'[m].size = size /\ size \in Nat
      /\ \A o \in Nodes \ {m} : node'[o] = node[o]
  BY SizesAreNumbers DEF CopyNode, Live, IInv, RowTypes
<1>2. /\ used' = used + size /\ UNCHANGED <<version, job, exact>> /\ QuotaAllows(size)
  BY DEF CopyNode, history
<1>. HIDE DEF size
<1>3. /\ IsFiniteSet(Bytes(node', Live')) /\ Cardinality(Bytes(node, Live)) \in Nat
      /\ Cardinality(Bytes(node', Live')) = Cardinality(Bytes(node, Live)) + size
  <2>1. Live' \ {m} = Live \ {m} /\ \A o \in Live \ {m} : node'[o].size = node[o].size
    BY <1>1 DEF Live
  <2>2. SizeIn(node, Live, m) = 0 /\ SizeIn(node', Live', m) = size
    BY <1>1 DEF SizeIn
  <2>3. IsFiniteSet(Bytes(node, Live))
    BY DEF Billing
  <2>4. /\ IsFiniteSet(Bytes(node', Live')) /\ Cardinality(Bytes(node, Live)) \in Nat
        /\ Cardinality(Bytes(node', Live'))
             = Cardinality(Bytes(node, Live)) - SizeIn(node, Live, m) + SizeIn(node', Live', m)
    BY <1>1, <2>1, <2>3, BytesOfOthers
  <2>. QED  BY <1>1, <2>2, <2>4
<1>4. \A v \in version : v.node \in Live /\ v.node # m /\ v.node \in Nodes
  BY <1>1 DEF IInv, RowTypes, Version, Live
<1>5. ASSUME exact', Quota > 0 PROVE used' <= Quota
  BY <1>1, <1>2, <1>5, ContentConstants DEF QuotaAllows, Billing
<1>. QED  BY <1>1, <1>2, <1>3, <1>4, <1>5 DEF Billing

LEMMA BillingOfOverwrite ==
    ASSUME IInv, Billing, NEW r \in Requests, NEW n \in Nodes, CommitOverwrite(r, n)
    PROVE  Billing'
<1>. DEFINE old == [node |-> n, number |-> NextNumber(n), key |-> node[n].key, size |-> node[n].size]
<1>1. /\ n \in Live /\ Live' = Live /\ node'[n].size = req[r].size
      /\ node[n].size \in Nat /\ req[r].size \in Nat
      /\ \A m \in Nodes \ {n} : node'[m] = node[m]
  <2>1. n \in Live
    BY DEF CommitOverwrite, Live
  <2>2. node'[n].size = req[r].size /\ node'[n].status = node[n].status /\ \A m \in Nodes \ {n} : node'[m] = node[m]
    BY DEF CommitOverwrite, IInv, RowTypes, Node
  <2>. QED  BY <2>1, <2>2, SizesAreNumbers DEF Live
<1>2. /\ used' = used /\ job' = job /\ exact' = (exact /\ req[r].size = node[n].size)
  BY DEF CommitOverwrite
<1>3. version' \subseteq version \cup {old}
  BY DEF CommitOverwrite
<1>4. old.node = n /\ old.size = node[n].size
  OBVIOUS
<1>. HIDE DEF old
<1>5. IsFiniteSet(Bytes(node', Live'))
  <2>1. Live' \ {n} = Live \ {n} /\ \A m \in Live \ {n} : node'[m].size = node[m].size
    BY <1>1 DEF Live
  <2>2. IsFiniteSet(Bytes(node, Live))
    BY DEF Billing
  <2>. QED  BY <1>1, <2>1, <2>2, BytesOfOthers
<1>6. ASSUME exact'
      PROVE  /\ used' = Cardinality(Bytes(node', Live'))
             /\ \A v \in version' : v.size = node'[v.node].size
             /\ Quota > 0 => used' <= Quota
  <2>1. exact /\ \A m \in Nodes : node'[m].size = node[m].size
    BY <1>1, <1>2, <1>6
  <2>2. Bytes(node', Live') = Bytes(node, Live)
    <3>1. \A m \in Live : node'[m].size = node[m].size
      BY <2>1 DEF Live
    <3>2. Bytes(node', Live) = Bytes(node, Live)
      BY <3>1, SameBytes
    <3>. QED  BY <1>1, <3>2
  <2>3. \A v \in version : v.node \in Nodes
    BY DEF IInv, RowTypes, Version
  <2>. QED  BY <1>2, <1>3, <1>4, <2>1, <2>2, <2>3 DEF Billing
<1>7. used' \in Nat /\ job'.sum \in Nat /\ exact' \in BOOLEAN
  BY <1>2 DEF Billing
<1>. QED  BY <1>5, <1>6, <1>7 DEF Billing

LEMMA Clamped ==
    ASSUME NEW b \in Int
    PROVE  Clamp(b) \in Nat /\ (b \in Nat => Clamp(b) = b)
BY DEF Clamp

LEMMA BillingOfRestoreVersion ==
    ASSUME IInv, Billing, NEW v \in version, RestoreVersion(v)
    PROVE  Billing'
<1>. DEFINE n == v.node
            old == [node |-> n, number |-> NextNumber(n), key |-> node[n].key, size |-> node[n].size]
<1>1. /\ n \in Nodes /\ n \in Live /\ Live' = Live /\ node'[n].size = v.size
      /\ node[n].size \in Nat /\ v.size \in Nat
      /\ \A m \in Nodes \ {n} : node'[m] = node[m]
  <2>1. n \in Nodes /\ n \in Live /\ v.size \in Sizes \cup {0}
    BY DEF RestoreVersion, IInv, RowTypes, Version, Live
  <2>2. \A s \in Sizes \cup {0} : s \in Nat
    BY ContentConstants
  <2>3. node'[n].size = v.size /\ node'[n].status = node[n].status /\ \A m \in Nodes \ {n} : node'[m] = node[m]
    BY <2>1 DEF RestoreVersion, IInv, RowTypes, Node
  <2>. QED  BY <2>1, <2>2, <2>3, SizesAreNumbers DEF Live
<1>2. /\ used' = Clamp(used + v.size - node[n].size) /\ job' = job /\ exact' = exact
  BY DEF RestoreVersion
<1>3. version' = version \cup {old}
  BY DEF RestoreVersion
<1>4. old.node = n /\ old.size = node[n].size
  OBVIOUS
<1>. HIDE DEF old
<1>5. IsFiniteSet(Bytes(node', Live'))
  <2>1. Live' \ {n} = Live \ {n} /\ \A m \in Live \ {n} : node'[m].size = node[m].size
    BY <1>1 DEF Live
  <2>2. IsFiniteSet(Bytes(node, Live))
    BY DEF Billing
  <2>. HIDE DEF n
  <2>. QED  BY <1>1, <2>1, <2>2, BytesOfOthers
<1>6. used' \in Nat /\ job'.sum \in Nat /\ exact' \in BOOLEAN
  <2>. HIDE DEF n
  <2>1. used \in Nat /\ job.sum \in Nat /\ exact \in BOOLEAN
    BY DEF Billing
  <2>2. used + v.size - node[n].size \in Int
    BY <1>1, <2>1
  <2>. QED  BY <1>2, <2>1, <2>2, Clamped
\* A version has the size of its file, as long as the counter is exact.
<1>7. ASSUME exact
      PROVE  /\ used' = Cardinality(Bytes(node', Live'))
             /\ \A w \in version' : w.size = node'[w.node].size
             /\ Quota > 0 => used' <= Quota
  <2>1. v.size = node[n].size /\ used \in Nat
    BY <1>7 DEF Billing
  <2>2. \A m \in Nodes : node'[m].size = node[m].size
    BY <1>1, <2>1
  <2>3. used' = used
    <3>. HIDE DEF n
    <3>1. used + v.size - node[n].size = used
      BY <1>1, <2>1
    <3>. QED  BY <1>2, <2>1, <3>1, Clamped
  <2>4. Bytes(node', Live') = Bytes(node, Live)
    <3>1. \A m \in Live : node'[m].size = node[m].size
      BY <2>2 DEF Live
    <3>2. Bytes(node', Live) = Bytes(node, Live)
      BY <3>1, SameBytes
    <3>. QED  BY <1>1, <3>2
  <2>5. \A w \in version : w.node \in Nodes
    BY DEF IInv, RowTypes, Version
  <2>. QED  BY <1>1, <1>3, <1>4, <1>7, <2>2, <2>3, <2>4, <2>5 DEF Billing
<1>. QED  BY <1>2, <1>5, <1>6, <1>7 DEF Billing

LEMMA BillingOfPurge ==
    ASSUME IInv, Billing, NEW n \in Nodes, PurgeNode(n)
    PROVE  Billing'
<1>1. /\ n \in Live /\ Live' = Live \ {n} /\ node[n].size \in Nat
      /\ \A m \in Nodes \ {n} : node'[m] = node[m]
  BY SizesAreNumbers DEF PurgeNode, Live, IInv, RowTypes, NoNode
<1>2. /\ used' = Clamp(used - node[n].size) /\ UNCHANGED <<job, exact>>
      /\ \A v \in version' : v \in version /\ v.node # n
  BY DEF PurgeNode, VersionsOf
<1>3. /\ IsFiniteSet(Bytes(node', Live')) /\ Cardinality(Bytes(node, Live)) \in Nat
      /\ node[n].size <= Cardinality(Bytes(node, Live))
      /\ Cardinality(Bytes(node', Live')) = Cardinality(Bytes(node, Live)) - node[n].size
  <2>1. Live' \ {n} = Live \ {n} /\ \A m \in Live \ {n} : node'[m].size = node[m].size
    BY <1>1 DEF Live
  <2>2. SizeIn(node, Live, n) = node[n].size /\ SizeIn(node', Live', n) = 0 /\ n \notin Live'
    BY <1>1 DEF SizeIn
  <2>3. IsFiniteSet(Bytes(node, Live))
    BY DEF Billing
  <2>4. /\ IsFiniteSet(Bytes(node', Live')) /\ Cardinality(Bytes(node, Live)) \in Nat
        /\ SizeIn(node, Live, n) <= Cardinality(Bytes(node, Live))
        /\ Cardinality(Bytes(node', Live'))
             = Cardinality(Bytes(node, Live)) - SizeIn(node, Live, n) + SizeIn(node', Live', n)
    BY <1>1, <2>1, <2>2, <2>3, BytesOfOthers
  <2>. QED  BY <1>1, <2>2, <2>4
<1>4. used' \in Nat /\ used' <= used /\ (exact => used' = used - node[n].size)
  <2>1. used \in Nat /\ used - node[n].size \in Int
    BY <1>1 DEF Billing
  <2>2. exact => used - node[n].size \in Nat
    BY <1>1, <1>3 DEF Billing
  <2>3. used' <= used
    BY <1>1, <1>2, <2>1 DEF Clamp
  <2>. QED  BY <1>2, <2>1, <2>2, <2>3, Clamped
<1>5. \A v \in version' : v.node \in Nodes \ {n}
  BY <1>2 DEF IInv, RowTypes, Version
<1>6. exact' =>
         /\ used' = Cardinality(Bytes(node', Live'))
         /\ \A v \in version' : v.size = node'[v.node].size
         /\ Quota > 0 => used' <= Quota
  <2>1. used \in Nat
    BY DEF Billing
  <2>. QED  BY <1>1, <1>2, <1>3, <1>4, <1>5, <2>1, ContentConstants DEF Billing
<1>. QED  BY <1>2, <1>3, <1>4, <1>6 DEF Billing

LEMMA BillingStep == IInv /\ Billing /\ LoginTypes /\ [Next]_vars => Billing'
<1>. SUFFICES ASSUME IInv, Billing, LoginTypes, [Next]_vars PROVE Billing'
  OBVIOUS
<1>1. ASSUME NEW r \in Requests, Call(r) \/ Step(r) \/ Abandon(r) PROVE Billing'
  BY <1>1, BillingOfCalls, BillingOfCreate, BillingOfOverwrite DEF Call, Step
<1>2. CASE Transaction
  BY <1>2, BillingOfRestoreVersion, BillingOfTrash, BillingOfPurge, BillingOfCopy DEF Transaction
<1>3. CASE StartPurge \/ StartRecount \/ JobStep \/ JobAbandoned \/ UNCHANGED vars
  BY <1>3, BillingOfJobs, BillingOfRecount DEF JobStep
<1>. QED  BY <1>1, <1>2, <1>3, BillingOfLogin DEF Next

LEMMA BillingInvariance == Spec => [](Billing /\ LoginTypes)
<1>1. Init => Billing
  <2>. SUFFICES ASSUME Init PROVE Billing
    OBVIOUS
  <2>1. Live = {} /\ version = {} /\ used = 0 /\ exact = TRUE /\ job.sum = 0
    BY DEF Init, Live, NoNode, IdleJob
  <2>2. Bytes(node, {}) = {}
    BY DEF Bytes
  <2>. QED  BY <2>1, <2>2, FS_EmptySet, ContentConstants DEF Billing
<1>2. Init => LoginTypes
  BY DEF Init, LoginTypes
<1>. QED  BY <1>1, <1>2, BillingStep, LoginStep, Invariance, PTL DEF Spec

\* Type correctness (commitNode, AddUsage, recountUsage): whatever is written,
\* restored, purged and recounted, the billed bytes never go negative, and rows,
\* calls and runs are what the code takes them for.
THEOREM ContentTypes == Spec => []TypeOK
<1>1. IInv /\ Billing /\ LoginTypes => TypeOK
  <2>. SUFFICES ASSUME IInv, Billing, LoginTypes PROVE TypeOK
    OBVIOUS
  <2>1. job \in JobState
    BY ContentConstants DEF IInv, JobTypes, StoreTypes, Billing, JobState
  <2>. QED
    BY <2>1 DEF IInv, RowTypes, StoreTypes, CallTypes, Billing, LoginTypes, TypeOK, Live
<1>. QED  BY <1>1, Invariance, BillingInvariance, PTL

\* The account is billed the bytes of its files (AddUsage inside each transaction):
\* for any number of files, sizes, calls and logins in flight, as long as no overwrite
\* has changed a size, no recount has run and no login has written a counter back that
\* was billed since it read it.
THEOREM BilledAsStored == Spec => []UsageIsContent
<1>1. Billing => UsageIsContent
  BY DEF Billing, UsageIsContent, SizeOf
<1>. QED  BY <1>1, BillingInvariance, PTL

\* Concurrent uploads and copies stay within the quota (checkQuotaFor under WithTx),
\* on the same condition.
THEOREM QuotaHolds == Spec => []ContentWithinQuota
<1>1. Billing => ContentWithinQuota
  BY DEF Billing, ContentWithinQuota, SizeOf
<1>. QED  BY <1>1, BillingInvariance, PTL

-----------------------------------------------------------------------------
(* FileContent implements FileStore.                                       *)

\* What a file and its versions read, by the sizes in the rows.
Reads == [n \in Nodes |-> IF n \notin Live THEN NoFile ELSE IF n \in restored THEN Unknown ELSE node[n].size]
Retains == [n \in Nodes |-> IF n \in Sound THEN { <<v.number, v.size>> : v \in VersionsOf(n) } ELSE {}]

\* A read finds the size its row has, because content matches the rows (Matches).
ReadsAgree == Content = Reads /\ Kept = Retains

LEMMA ReadByRows == IInv => ReadsAgree
<1> SUFFICES ASSUME IInv PROVE Content = Reads /\ Kept = Retains
  BY DEF ReadsAgree
<1>1. \A n \in Sound : object[node[n].key] = node[n].size
  BY DEF IInv, Matches, Sound
<1>2. \A v \in version : v.node \in Sound => object[v.key] = v.size
  BY DEF IInv, Matches, Sound
<1>3. Content = Reads
  BY <1>1 DEF Content, Reads, Sound
<1>4. \A n \in Sound : { <<v.number, object[v.key]>> : v \in VersionsOf(n) } = { <<v.number, v.size>> : v \in VersionsOf(n) }
  BY <1>2 DEF VersionsOf
<1> QED BY <1>3, <1>4 DEF Kept, Retains

\* The same after a step.
LEMMA ReadByRowsAfter == IInv' => ReadsAgree'
BY ReadByRows, PTL

\* A step that touches the rows of no file but n.
LEMMA OtherFiles ==
    ASSUME NEW n \in Nodes,
           \A m \in Nodes \ {n} : /\ node'[m].status = "none" <=> node[m].status = "none"
                                  /\ node'[m].size = node[m].size
                                  /\ VersionsOf(m)' = VersionsOf(m)
                                  /\ m \in restored' <=> m \in restored
    PROVE  /\ Reads' = [Reads EXCEPT ![n] = Reads'[n]]
           /\ Retains' = [Retains EXCEPT ![n] = Retains'[n]]
<1>1. \A m \in Nodes \ {n} : (m \in Live' <=> m \in Live) /\ (m \in Sound' <=> m \in Sound)
  BY DEF Live, Sound
<1>2. \A m \in Nodes \ {n} : Reads'[m] = Reads[m] /\ Retains'[m] = Retains[m]
  BY <1>1 DEF Reads, Retains
<1>3. Reads' = [m \in Nodes |-> Reads'[m]] /\ Retains' = [m \in Nodes |-> Retains'[m]]
  BY DEF Reads, Retains
<1>4. Reads = [m \in Nodes |-> Reads[m]] /\ Retains = [m \in Nodes |-> Retains[m]]
  BY DEF Reads, Retains
<1> QED BY <1>2, <1>3, <1>4

\* The step changes neither what files read nor what they keep.
SameFiles == UNCHANGED <<Reads, Retains>>

\* The actions of FileStore, on what the rows say.
NewFile(n, c) == Reads[n] = NoFile /\ Reads' = [Reads EXCEPT ![n] = c] /\ Retains' = Retains
Changes(n, c, S) ==
    /\ Reads[n] \in Sizes \cup {0}
    /\ Reads' = [Reads EXCEPT ![n] = c]
    /\ Retains' = [Retains EXCEPT ![n] = Retains'[n]]
    /\ Retains'[n] \subseteq S
Gone(n, c) == Reads' = [Reads EXCEPT ![n] = c] /\ Retains' = [Retains EXCEPT ![n] = {}]

\* Sizes of rows and calls.
\* A file that is created or copied to.
LEMMA Creates ==
    ASSUME IInv, NEW n \in Nodes, NEW c, node[n].status = "none",
           node'[n].status # "none", node'[n].size = c, \A m \in Nodes \ {n} : node'[m] = node[m],
           UNCHANGED <<version, restored>>
    PROVE  NewFile(n, c)
<1>1. n \notin Live /\ n \in Live' /\ n \notin restored' /\ VersionsOf(n)' = {}
  BY RowSizes DEF Live, VersionsOf
<1>2. \A m \in Nodes : VersionsOf(m)' = VersionsOf(m)
  BY DEF VersionsOf
<1>3. /\ Reads' = [Reads EXCEPT ![n] = Reads'[n]]
      /\ Retains' = [Retains EXCEPT ![n] = Retains'[n]]
  BY <1>2, OtherFiles
<1>4. Reads[n] = NoFile /\ Reads'[n] = c
  BY <1>1 DEF Reads
<1>5. Retains[n] = {} /\ Retains'[n] = {}
  BY <1>1 DEF Retains, Sound
<1>6. Retains = [m \in Nodes |-> Retains[m]]
  BY DEF Retains
<1> QED BY <1>3, <1>4, <1>5, <1>6 DEF NewFile

\* An overwrite; of a restored file FileStore says nothing.
LEMMA Overwrites ==
    ASSUME IInv, ContentConstants, NEW r \in Requests, NEW n \in Nodes, CommitOverwrite(r, n)
    PROVE  \/ SameFiles
           \/ \E i \in 1..MaxNumber : Changes(n, req[r].size, Retains[n] \cup {<<i, Reads[n]>>})
<1> DEFINE old == [node |-> n, number |-> NextNumber(n), key |-> node[n].key, size |-> node[n].size]
<1>1. PICK dropped \in SUBSET (VersionsOf(n) \cup {old}) :
         /\ KeepVersions => NextNumber(n) <= MaxNumber /\ version' = (version \cup {old}) \ dropped
         /\ ~KeepVersions => version' = version
  <2> DEFINE over == MaxVersions > 0 /\ node[n].count + 1 > MaxVersions
             dropped == IF over THEN Trimmed(VersionsOf(n) \cup {old}) ELSE {}
  <2>1. dropped \subseteq VersionsOf(n) \cup {old}
    BY DEF Trimmed
  <2>2. /\ KeepVersions => NextNumber(n) <= MaxNumber /\ version' = (version \cup {old}) \ dropped
        /\ ~KeepVersions => version' = version
    BY DEF CommitOverwrite
  <2> HIDE DEF dropped, old
  <2> QED BY <2>1, <2>2
<1>2. /\ node[n].status = "active" /\ restored' = restored
      /\ \A m \in Nodes : node'[m].status = node[m].status
      /\ \A m \in Nodes \ {n} : node'[m].size = node[m].size
      /\ node'[n].size = req[r].size
  BY RowSizes DEF CommitOverwrite, Node, IInv, RowTypes
<1>3. old.node = n /\ old.number = NextNumber(n) /\ old.size = node[n].size
  OBVIOUS
<1> HIDE DEF old
<1>4. \A m \in Nodes \ {n} : VersionsOf(m)' = VersionsOf(m)
  BY <1>1, <1>3 DEF VersionsOf
<1>5. VersionsOf(n)' \subseteq VersionsOf(n) \cup (IF KeepVersions THEN {old} ELSE {})
  BY <1>1 DEF VersionsOf
<1>6. /\ Reads' = [Reads EXCEPT ![n] = Reads'[n]]
      /\ Retains' = [Retains EXCEPT ![n] = Retains'[n]]
  BY <1>2, <1>4, OtherFiles
<1>7. n \in Live /\ n \in Live'
  BY <1>2 DEF Live
<1>8. Reads = [m \in Nodes |-> Reads[m]] /\ Retains = [m \in Nodes |-> Retains[m]]
  BY DEF Reads, Retains
<1>9. CASE n \in restored
  <2>1. Reads'[n] = Reads[n] /\ Retains'[n] = Retains[n]
    BY <1>2, <1>7, <1>9 DEF Reads, Retains, Sound
  <2> QED BY <1>6, <1>8, <2>1 DEF SameFiles
<1>10. CASE n \notin restored
  <2>1. Reads[n] = node[n].size /\ Reads'[n] = req[r].size /\ node[n].size \in Sizes \cup {0}
    BY <1>2, <1>7, <1>10, RowSizes DEF Reads
  <2>2. n \in Sound /\ n \in Sound'
    BY <1>2, <1>7, <1>10 DEF Sound
  <2>3. /\ Retains[n] = { <<v.number, v.size>> : v \in VersionsOf(n) }
        /\ Retains'[n] = { <<v.number, v.size>> : v \in VersionsOf(n)' }
    BY <2>2 DEF Retains
  <2>4. CASE KeepVersions
    <3>1. NextNumber(n) \in 1..MaxNumber
      BY <1>1, <2>4, NextNumberAbove, ContentConstants DEF IInv
    <3>2. Retains'[n] \subseteq Retains[n] \cup {<<NextNumber(n), Reads[n]>>}
      BY <1>3, <1>5, <2>1, <2>3
    <3> QED BY <1>6, <2>1, <3>1, <3>2 DEF Changes
  <2>5. CASE ~KeepVersions
    <3>1. 1 \in 1..MaxNumber
      BY ContentConstants
    <3>2. Retains'[n] \subseteq Retains[n] \cup {<<1, Reads[n]>>}
      BY <1>5, <2>3, <2>5
    <3> QED BY <1>6, <2>1, <3>1, <3>2 DEF Changes
  <2> QED BY <2>4, <2>5
<1> QED BY <1>9, <1>10

\* A deleted version; of a restored file FileStore says nothing.
LEMMA Deletes ==
    ASSUME IInv, NEW r \in Requests, NEW v \in version, DeleteVersion(r, v)
    PROVE  SameFiles \/ Changes(v.node, Reads[v.node], Retains[v.node])
<1> DEFINE n == v.node
<1>1. /\ n \in Live /\ n \in Nodes /\ restored' = restored /\ version' = version \ {v}
      /\ \A m \in Nodes : node'[m].status = node[m].status /\ node'[m].size = node[m].size
  BY RowSizes DEF DeleteVersion, history, Node, IInv, RowTypes, Live
<1>2. /\ \A m \in Nodes \ {n} : VersionsOf(m)' = VersionsOf(m)
      /\ VersionsOf(n)' \subseteq VersionsOf(n)
  BY <1>1 DEF VersionsOf
<1> HIDE DEF n
<1>3. /\ Reads' = [Reads EXCEPT ![n] = Reads'[n]]
      /\ Retains' = [Retains EXCEPT ![n] = Retains'[n]]
  BY <1>1, <1>2, OtherFiles
<1>4. Reads'[n] = Reads[n] /\ Reads = [m \in Nodes |-> Reads[m]] /\ Retains = [m \in Nodes |-> Retains[m]]
  BY <1>1 DEF Reads, Live, Retains
<1>5. CASE n \in restored
  <2>1. Retains'[n] = Retains[n]
    BY <1>1, <1>5 DEF Retains, Sound
  <2> QED BY <1>3, <1>4, <2>1 DEF SameFiles
<1>6. CASE n \notin restored
  <2>1. n \in Sound /\ n \in Sound'
    BY <1>1, <1>6 DEF Sound, Live
  <2>2. Retains'[n] \subseteq Retains[n]
    BY <1>1, <1>2, <2>1 DEF Retains
  <2>3. Reads[n] \in Sizes \cup {0}
    BY <1>1, <1>6, RowSizes DEF Reads
  <2> QED BY <1>3, <1>4, <2>2, <2>3 DEF Changes, n
<1> QED BY <1>5, <1>6

\* Restoring a version forfeits what FileStore promises of the file.
LEMMA Restores ==
    ASSUME IInv, NEW v \in version, RestoreVersion(v)
    PROVE  SameFiles \/ (Reads[v.node] \in Sizes \cup {0} /\ Gone(v.node, Unknown))
<1> DEFINE n == v.node
<1>1. /\ n \in Live /\ n \in Nodes /\ restored' = restored \cup {n}
      /\ \A m \in Nodes : node'[m].status = node[m].status
      /\ \A m \in Nodes \ {n} : node'[m].size = node[m].size
  BY RowSizes DEF RestoreVersion, Node, IInv, RowTypes, Live
<1>2. \A m \in Nodes \ {n} : VersionsOf(m)' = VersionsOf(m)
  BY DEF RestoreVersion, VersionsOf
<1> HIDE DEF n
<1>3. /\ Reads' = [Reads EXCEPT ![n] = Reads'[n]]
      /\ Retains' = [Retains EXCEPT ![n] = Retains'[n]]
  BY <1>1, <1>2, OtherFiles
<1>4. n \in Live' /\ Reads'[n] = Unknown /\ Retains'[n] = {}
  BY <1>1 DEF Reads, Retains, Live, Sound
<1>5. CASE n \in restored
  <2>1. Reads[n] = Unknown /\ Retains[n] = {}
    BY <1>1, <1>5 DEF Reads, Retains, Sound
  <2>2. Reads = [m \in Nodes |-> Reads[m]] /\ Retains = [m \in Nodes |-> Retains[m]]
    BY DEF Reads, Retains
  <2> QED BY <1>3, <1>4, <2>1, <2>2 DEF SameFiles
<1>6. CASE n \notin restored
  <2>1. Reads[n] \in Sizes \cup {0}
    BY <1>1, <1>6, RowSizes DEF Reads
  <2> QED BY <1>3, <1>4, <2>1 DEF Gone, n
<1> QED BY <1>5, <1>6

\* A purged file is gone with its versions.
LEMMA Purges ==
    ASSUME IInv, NEW n \in Nodes, PurgeNode(n)
    PROVE  Gone(n, NoFile)
<1>1. /\ restored' = restored \ {n} /\ \A m \in Nodes \ {n} : node'[m] = node[m]
      /\ node'[n].status = "none"
  BY DEF PurgeNode, NoNode, IInv, RowTypes
<1>2. \A m \in Nodes \ {n} : VersionsOf(m)' = VersionsOf(m)
  BY DEF PurgeNode, VersionsOf
<1>3. /\ Reads' = [Reads EXCEPT ![n] = Reads'[n]]
      /\ Retains' = [Retains EXCEPT ![n] = Retains'[n]]
  BY <1>1, <1>2, OtherFiles
<1>4. Reads'[n] = NoFile /\ Retains'[n] = {}
  BY <1>1 DEF Reads, Retains, Live, Sound
<1> QED BY <1>3, <1>4 DEF Gone

\* Every step of the rows is a step of the store or a stutter.
LEMMA StepReads ==
    ASSUME IInv, [Next]_vars
    PROVE  \/ SameFiles
           \/ \E n \in Nodes :
                \/ \E c \in Sizes \cup {0} :
                      NewFile(n, c) \/ \E i \in 1..MaxNumber : Changes(n, c, Retains[n] \cup {<<i, Reads[n]>>})
                \/ Changes(n, Reads[n], Retains[n])
                \/ Reads[n] \in Sizes \cup {0} /\ Gone(n, Unknown)
                \/ Gone(n, NoFile)
<1> DEFINE Goal == \/ SameFiles
                   \/ \E n \in Nodes :
                        \/ \E c \in Sizes \cup {0} :
                             NewFile(n, c) \/ \E i \in 1..MaxNumber : Changes(n, c, Retains[n] \cup {<<i, Reads[n]>>})
                        \/ Changes(n, Reads[n], Retains[n])
                        \/ Reads[n] \in Sizes \cup {0} /\ Gone(n, Unknown)
                        \/ Gone(n, NoFile)
<1> SUFFICES Goal
  OBVIOUS
<1>a. ASSUME UNCHANGED <<node, version, restored>> PROVE Goal
  BY <1>a DEF SameFiles, Reads, Retains, Live, Sound, VersionsOf
<1>b. node \in [Nodes -> Node]
  BY DEF IInv, RowTypes
<1>c. \A v \in version : v.node \in Nodes
  BY DEF IInv, RowTypes, Version
<1>1. ASSUME NEW r \in Requests, NEW n \in Nodes, CommitCreate(r, n) PROVE Goal
  <2>1. NewFile(n, req[r].size)
    BY <1>1, <1>b, Creates DEF CommitCreate, history
  <2> QED BY <2>1, RowSizes
<1>2. ASSUME NEW n \in Nodes, NEW m \in Nodes, NEW k \in Keys, CopyNode(n, m, k) PROVE Goal
  <2>1. NewFile(m, node[n].size)
    BY <1>2, <1>b, Creates DEF CopyNode, history
  <2> QED BY <2>1, RowSizes
<1>3. ASSUME NEW n \in Nodes, TrashNode(n) \/ RestoreNode(n) PROVE Goal
  <2>1. \A m \in Nodes : node'[m].size = node[m].size /\ (node'[m].status = "none" <=> node[m].status = "none")
    BY <1>3, <1>b DEF TrashNode, RestoreNode, Node
  <2>2. UNCHANGED <<version, restored>>
    BY <1>3 DEF TrashNode, RestoreNode, history
  <2>3. SameFiles
    BY <2>1, <2>2 DEF SameFiles, Reads, Retains, Live, Sound, VersionsOf
  <2> QED BY <2>3
<1>4. ASSUME NEW r \in Requests, NEW n \in Nodes, CommitOverwrite(r, n) PROVE Goal
  BY <1>4, Overwrites, RowSizes, ContentConstants
<1>5. ASSUME NEW r \in Requests, NEW v \in version, DeleteVersion(r, v) PROVE Goal
  BY <1>5, <1>c, Deletes
<1>6. ASSUME NEW v \in version, RestoreVersion(v) PROVE Goal
  BY <1>6, <1>c, Restores
<1>7. ASSUME NEW n \in Nodes, PurgeNode(n) PROVE Goal
  BY <1>7, Purges
<1>8. ASSUME NEW r \in Requests, Call(r) \/ Step(r) \/ Abandon(r) PROVE Goal
  <2>1. ASSUME NEW k \in Keys, NEW size \in Sizes, PutContent(r, k, size) PROVE Goal
    BY <2>1, <1>a DEF PutContent, history
  <2>2. ASSUME CommitRefused(r) \/ Undo(r) \/ EnqueueVersion(r) \/ Abandon(r) PROVE Goal
    BY <2>2, <1>a DEF CommitRefused, Undo, EnqueueVersion, Abandon, history
  <2> HIDE DEF Goal
  <2> QED BY <1>1, <1>4, <1>5, <1>8, <2>1, <2>2 DEF Call, Step
<1>9. CASE Transaction
  <2>1. ASSUME NEW n \in Nodes, NEW k \in Keys, CopyRolledBack(n, k) PROVE Goal
    BY <2>1, <1>a DEF CopyRolledBack
  <2> HIDE DEF Goal
  <2> QED BY <1>2, <1>3, <1>6, <1>7, <1>9, <2>1 DEF Transaction
<1>10. CASE JobStep \/ StartPurge \/ StartRecount \/ JobAbandoned \/ UNCHANGED vars
  <2>1. UNCHANGED <<node, version, restored>>
    BY <1>10 DEF JobStep, PurgeKey, PurgeRow, WriteRecount, JobEnds, StartPurge, StartRecount, JobAbandoned, history, vars
  <2> QED BY <1>a, <2>1
<1>11. ASSUME NEW l \in Logins, StartLogin(l) \/ WriteAccount(l) PROVE Goal
  <2>1. UNCHANGED <<node, version, restored>>
    BY <1>11 DEF StartLogin, WriteAccount, history
  <2> QED BY <1>a, <2>1
<1> HIDE DEF Goal
<1> QED BY <1>8, <1>9, <1>10, <1>11 DEF Next

\* A step of FileContent is a step of FileStore or a stutter.
LEMMA StepImplements == IInv /\ IInv' /\ [Next]_vars => [Files!Next]_<<Content, Kept>>
<1> SUFFICES ASSUME IInv, IInv', [Next]_vars PROVE [Files!Next]_<<Content, Kept>>
  OBVIOUS
<1>1. Content = Reads /\ Kept = Retains /\ Content' = Reads' /\ Kept' = Retains'
  BY ReadByRows, ReadByRowsAfter DEF ReadsAgree
<1>2. ASSUME SameFiles PROVE UNCHANGED <<Content, Kept>>
  BY <1>1, <1>2 DEF SameFiles
<1>3. ASSUME NEW n \in Nodes, NEW c \in Sizes \cup {0}, NewFile(n, c) PROVE Files!Next
  <2>1. Files!Create(n, c)
    BY <1>1, <1>3 DEF NewFile, Files!Create
  <2> QED BY <2>1 DEF Files!Next
<1>4. ASSUME NEW n \in Nodes, NEW c \in Sizes \cup {0}, NEW i \in 1..MaxNumber,
             Changes(n, c, Retains[n] \cup {<<i, Reads[n]>>})
      PROVE  Files!Next
  <2>1. Files!Keeps(n, Kept[n] \cup {<<i, Content[n]>>})
    <3>1. Kept'[n] \cap (Kept[n] \cup {<<i, Content[n]>>}) = Kept'[n]
      BY <1>1, <1>4 DEF Changes
    <3> QED BY <1>1, <1>4, <3>1 DEF Changes, Files!Keeps
  <2>2. Files!Replace(n, c)
    BY <1>1, <1>4, <2>1 DEF Changes, Files!Replace
  <2> QED BY <2>2 DEF Files!Next
<1>5. ASSUME NEW n \in Nodes, Changes(n, Reads[n], Retains[n]) PROVE Files!Next
  <2>1. Files!Keeps(n, Kept[n])
    <3>1. Kept'[n] \cap Kept[n] = Kept'[n]
      BY <1>1, <1>5 DEF Changes
    <3> QED BY <1>1, <1>5, <3>1 DEF Changes, Files!Keeps
  <2>2. UNCHANGED Content
    <3>1. Reads = [Reads EXCEPT ![n] = Reads[n]]
      BY DEF Reads
    <3> QED BY <1>1, <1>5, <3>1 DEF Changes
  <2>3. Files!DropVersions(n)
    BY <1>1, <1>5, <2>1, <2>2 DEF Changes, Files!DropVersions
  <2> QED BY <2>3 DEF Files!Next
<1>6. ASSUME NEW n \in Nodes, Reads[n] \in Sizes \cup {0}, Gone(n, Unknown) PROVE Files!Next
  <2>1. Files!Restore(n)
    BY <1>1, <1>6 DEF Gone, Files!Restore
  <2> QED BY <2>1 DEF Files!Next
<1>7. ASSUME NEW n \in Nodes, Gone(n, NoFile) PROVE Files!Next
  <2>1. Files!Remove(n)
    BY <1>1, <1>7 DEF Gone, Files!Remove
  <2> QED BY <2>1 DEF Files!Next
<1> QED BY <1>2, <1>3, <1>4, <1>5, <1>6, <1>7, StepReads

\* What a file and its versions read changes only when that file is written, copied to,
\* restored or removed: FileContent implements FileStore.
THEOREM FilesImplementStore == Spec => FilesKeepContent
<1>1. Init => Files!Init
  BY DEF Init, NoNode, Files!Init, Content, Kept, Live, Sound
<1>2. QED
  BY <1>1, Invariance, StepImplements, PTL DEF Spec, FilesKeepContent, Files!Spec
=============================================================================
