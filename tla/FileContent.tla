----------------------------- MODULE FileContent -----------------------------
(***************************************************************************)
(* The content of file nodes after the upload: the storage key a node and  *)
(* its retained versions point at, the deletion queue that releases keys,  *)
(* and the bytes billed to the account that owns them (internal/biz/file.go*)
(* commitNode, RestoreVersion, DeleteVersion, CopyNodes; internal/biz/     *)
(* node.go PurgeNodes and releaseObjects; internal/biz/system.go           *)
(* purgeDeletions and recountUsage).                                       *)
(*                                                                         *)
(* One account owns every node.  A database transaction is one action      *)
(* (data.go WithTx holds writeMu); what a handler does to the object store *)
(* or the queue before and after its transaction is an action of its own.  *)
(***************************************************************************)
EXTENDS Integers, FiniteSets, FiniteSetsExt

CONSTANTS
    Nodes,        \* file nodes; an id is free again once nothing refers to it
    Keys,         \* "files/<owner>/<id>" keys; the same
    Requests,     \* slots for handler calls in flight at the same time
    Logins,       \* slots for logins of the account in flight
    None,         \* "no key"
    Sizes,        \* content sizes
    Quota,        \* User.QuotaBytes, 0 for no limit
    KeepVersions, \* upload.keep_versions
    MaxVersions,  \* upload.max_versions, 0 for no limit
    MaxNumber,    \* bound on version numbers
    MaxUsed,      \* bound on the counter a login reads
    Ops           \* the operations and faults a run lets happen

ASSUME ContentConstants ==
    /\ None \notin Keys
    /\ Sizes \subseteq Nat
    /\ Quota \in Nat
    /\ KeepVersions \in BOOLEAN
    /\ MaxVersions \in Nat
    /\ MaxNumber \in Nat \ {0}
    /\ MaxUsed \in Nat
    /\ Ops \subseteq {"overwrite", "restoreVersion", "deleteVersion", "deleteRestored", "copy",
                      "purgeNode", "purge", "recount", "login", "abandon", "fault", "refuse"}

VARIABLES
    node,     \* the file rows of the nodes table
    version,  \* the node_versions table
    object,   \* objects under files/: their size
    queue,    \* the keys named by pending_deletions rows
    used,     \* User.UsedBytes
    req,      \* handler calls in flight
    job,      \* the maintenance run in flight
    login,    \* logins in flight: the counter in the account row they have read
    restored, \* history: the nodes a version of which was restored
    lost,     \* history: keys whose content a failure left to no one
    exact     \* history: no resized overwrite, no recount and no stale row of a login has
              \* gone past the counter

vars == <<node, version, object, queue, used, req, job, login, restored, lost, exact>>

history == <<restored, lost, exact>>

-----------------------------------------------------------------------------
Absent == -1

\* Node: key and size of the current content, VersionCount.
Node   == [status : {"none", "active", "trashed"}, key : Keys \cup {None}, size : Sizes \cup {0}, count : Nat]
NoNode == [status |-> "none", key |-> None, size |-> 0, count |-> 0]

Version == [node : Nodes, number : 1..MaxNumber, key : Keys, size : Sizes \cup {0}]

Live == { n \in Nodes : node[n].status # "none" }

VersionsOf(n) == { v \in version : v.node = n }

\* NextVersionNumber: one more than the highest number still there.
NextNumber(n) ==
    LET numbers == { v.number : v \in VersionsOf(n) }
    IN  IF numbers = {} THEN 1 ELSE Max(numbers) + 1

RequestState == [pc : {"idle", "commit", "undo", "enqueue"}, key : Keys \cup {None}, size : Sizes \cup {0}]
IdleRequest  == [pc |-> "idle", key |-> None, size |-> 0]
JobState == [pc : {"idle", "purge", "purgeRow", "recount"}, todo : SUBSET Keys,
             key : Keys \cup {None}, sum : Nat]
IdleJob  == [pc |-> "idle", todo |-> {}, key |-> None, sum |-> 0]

NotRead == -1

Init ==
    /\ node = [n \in Nodes |-> NoNode]
    /\ version = {}
    /\ object = [k \in Keys |-> Absent]
    /\ queue = {}
    /\ used = 0
    /\ req = [r \in Requests |-> IdleRequest]
    /\ job = IdleJob
    /\ login = [l \in Logins |-> NotRead]
    /\ restored = {}
    /\ lost = {}
    /\ exact = TRUE

Referenced == { node[n].key : n \in Live } \cup { v.key : v \in version }
InFlight   == { req[r].key : r \in Requests } \cup {job.key} \cup job.todo

\* NewID never repeats an id: no row, object, queue entry or handler knows the key.
Fresh(k) == object[k] = Absent /\ k \notin Referenced \cup InFlight \cup queue \cup lost

\* Mutant: the check only asks whether the account is over its quota already.
QuotaAllows_late(extra) == Quota = 0 \/ extra <= 0 \/ used <= Quota

\* checkQuotaFor
QuotaAllows(extra) == Quota = 0 \/ extra <= 0 \/ used + extra <= Quota

\* Mutant: AddUsage lets a counter go below zero.
Clamp_not(bytes) == bytes

\* AddUsage never leaves a negative counter.
Clamp(bytes) == IF bytes < 0 THEN 0 ELSE bytes

-----------------------------------------------------------------------------
(* Writing content: UploadSmallFile, and CompleteUpload from the assembled object on. *)

PutContent(r, k, size) ==
    /\ req[r].pc = "idle"
    /\ Fresh(k)
    /\ object' = [object EXCEPT ![k] = size]
    /\ req' = [req EXCEPT ![r] = [pc |-> "commit", key |-> k, size |-> size]]
    /\ UNCHANGED <<node, version, queue, used, job, login, history>>

Done(r) == req' = [req EXCEPT ![r] = IdleRequest]

\* commitNode under a new name
CommitCreate(r, n) ==
    LET q == req[r] IN
    /\ q.pc = "commit"
    /\ node[n].status = "none"
    /\ QuotaAllows(q.size)
    /\ node' = [node EXCEPT ![n] = [status |-> "active", key |-> q.key, size |-> q.size, count |-> 0]]
    /\ used' = used + q.size
    /\ Done(r)
    /\ UNCHANGED <<version, object, queue, job, login, history>>

\* Mutant: the list is cut one entry late.
Trimmed_late(versions) ==
    { v \in versions : Cardinality({ w \in versions : w.number > v.number }) > MaxVersions }

\* trimVersions drops what is older than the newest MaxVersions entries.
Trimmed(versions) ==
    { v \in versions : Cardinality({ w \in versions : w.number > v.number }) >= MaxVersions }

\* Mutant: the replaced content is queued although a version keeps it.
CommitOverwrite_releases(r, n) ==
    LET q == req[r]
        kept == [node |-> n, number |-> NextNumber(n), key |-> node[n].key, size |-> node[n].size]
    IN  /\ "overwrite" \in Ops /\ KeepVersions
        /\ q.pc = "commit" /\ node[n].status = "active" /\ NextNumber(n) <= MaxNumber
        /\ version' = version \cup {kept}
        /\ queue' = queue \cup {node[n].key}
        /\ node' = [node EXCEPT ![n] = [status |-> "active", key |-> q.key, size |-> q.size, count |-> @.count + 1]]
        /\ Done(r)
        /\ UNCHANGED <<object, used, job, login, history>>

\* commitNode over an existing file: the old content becomes a version, and trimming is
\* decided by VersionCount.  AddUsage(size - existing.Size) runs after existing.Size = size.
CommitOverwrite(r, n) ==
    LET q == req[r]
        old == [node |-> n, number |-> NextNumber(n), key |-> node[n].key, size |-> node[n].size]
        versions == VersionsOf(n) \cup {old}
        over == MaxVersions > 0 /\ node[n].count + 1 > MaxVersions
        dropped == IF over THEN Trimmed(versions) ELSE {}
        count == IF over THEN Cardinality(versions \ dropped) ELSE node[n].count + 1
    IN  /\ "overwrite" \in Ops
        /\ q.pc = "commit"
        /\ node[n].status = "active"
        /\ QuotaAllows(q.size - node[n].size)
        /\ IF KeepVersions
           THEN /\ NextNumber(n) <= MaxNumber
                /\ version' = (version \cup {old}) \ dropped
                /\ queue' = queue \cup { v.key : v \in dropped }
           ELSE UNCHANGED <<version, queue>>
        /\ node' = [node EXCEPT ![n].key = q.key, ![n].size = q.size,
                                ![n].count = IF KeepVersions THEN count ELSE @]
        /\ Done(r)
        /\ exact' = (exact /\ q.size = node[n].size)
        /\ UNCHANGED <<object, used, job, login, restored, lost>>

\* The transaction fails: over quota, or a conflict, a vanished parent, a lost permission.
CommitRefused(r) ==
    /\ req[r].pc = "commit"
    /\ "refuse" \in Ops \/ ~QuotaAllows(req[r].size)
    /\ req' = [req EXCEPT ![r].pc = "undo"]
    /\ UNCHANGED <<node, version, object, queue, used, job, login, history>>

\* RemoveObject, its error dropped.
Undo(r) ==
    /\ req[r].pc = "undo"
    /\ \/ object' = [object EXCEPT ![req[r].key] = Absent] /\ UNCHANGED lost
       \/ "fault" \in Ops /\ UNCHANGED object /\ lost' = lost \cup {req[r].key}
    /\ Done(r)
    /\ UNCHANGED <<node, version, queue, used, job, login, restored, exact>>

-----------------------------------------------------------------------------
(* Versions.                                                               *)

\* The current content becomes a version, the node takes over the key of the restored
\* one, whose row stays; VersionCount and the quota are not looked at.
RestoreVersion(v) ==
    LET n == v.node
        old == [node |-> n, number |-> NextNumber(n), key |-> node[n].key, size |-> node[n].size]
    IN  /\ "restoreVersion" \in Ops
        /\ n \in Live
        /\ NextNumber(n) <= MaxNumber
        /\ version' = version \cup {old}
        /\ node' = [node EXCEPT ![n].key = v.key, ![n].size = v.size]
        /\ used' = Clamp(used + v.size - node[n].size)
        /\ restored' = restored \cup {n}
        /\ UNCHANGED <<object, queue, req, job, login, lost, exact>>

\* Mutant: the key of the current content is released instead of the version's.
DeleteVersion_current(r, v) ==
    /\ "deleteVersion" \in Ops
    /\ req[r].pc = "idle"
    /\ v.node \in Live \ restored
    /\ version' = version \ {v}
    /\ node' = [node EXCEPT ![v.node].count = IF @ > 0 THEN @ - 1 ELSE @]
    /\ req' = [req EXCEPT ![r] = [IdleRequest EXCEPT !.pc = "enqueue", !.key = node[v.node].key]]
    /\ UNCHANGED <<object, queue, used, job, login, history>>

DeleteVersion(r, v) ==
    /\ "deleteVersion" \in Ops
    /\ req[r].pc = "idle"
    /\ v.node \in Live
    /\ "deleteRestored" \in Ops \/ v.node \notin restored
    /\ version' = version \ {v}
    /\ node' = [node EXCEPT ![v.node].count = IF @ > 0 THEN @ - 1 ELSE @]
    /\ req' = [req EXCEPT ![r] = [IdleRequest EXCEPT !.pc = "enqueue", !.key = v.key]]
    /\ UNCHANGED <<object, queue, used, job, login, history>>

\* EnqueueDeletion after the transaction of DeleteVersion.
EnqueueVersion(r) ==
    /\ req[r].pc = "enqueue"
    /\ \/ queue' = queue \cup {req[r].key} /\ UNCHANGED lost
       \/ "fault" \in Ops /\ UNCHANGED queue /\ lost' = lost \cup {req[r].key}
    /\ Done(r)
    /\ UNCHANGED <<node, version, object, used, job, login, restored, exact>>

-----------------------------------------------------------------------------
(* Nodes: copy, trash, permanent delete.                                   *)

\* Mutant: the copy points at the source's object.
CopyNode_shares(n, m, k) ==
    /\ "copy" \in Ops
    /\ n \in Live /\ node[m].status = "none" /\ Fresh(k)
    /\ QuotaAllows(node[n].size)
    /\ node' = [node EXCEPT ![m] = [status |-> "active", key |-> node[n].key, size |-> node[n].size, count |-> 0]]
    /\ used' = used + node[n].size
    /\ UNCHANGED <<version, object, queue, req, job, login, history>>

\* Mutant: only the row is written.
CopyNode_unbilled(n, m, k) ==
    /\ "copy" \in Ops
    /\ n \in Live /\ node[m].status = "none" /\ Fresh(k)
    /\ QuotaAllows(node[n].size)
    /\ object' = [object EXCEPT ![k] = node[n].size]
    /\ node' = [node EXCEPT ![m] = [status |-> "active", key |-> k, size |-> node[n].size, count |-> 0]]
    /\ UNCHANGED <<version, queue, used, req, job, login, history>>

\* copyTree of a file: quota, copyObject, row and usage inside one transaction.
CopyNode(n, m, k) ==
    /\ "copy" \in Ops
    /\ n \in Live
    /\ node[m].status = "none"
    /\ Fresh(k)
    /\ QuotaAllows(node[n].size)
    /\ object[node[n].key] # Absent
    /\ object' = [object EXCEPT ![k] = object[node[n].key]]
    /\ node' = [node EXCEPT ![m] = [status |-> "active", key |-> k, size |-> node[n].size, count |-> 0]]
    /\ used' = used + node[n].size
    /\ UNCHANGED <<version, queue, req, job, login, history>>

\* CopyNodes rolls back when a later node of the request is refused; the objects it
\* has copied by then stay.
CopyRolledBack(n, k) ==
    /\ "copy" \in Ops /\ "refuse" \in Ops
    /\ n \in Live
    /\ Fresh(k)
    /\ QuotaAllows(node[n].size)
    /\ object[node[n].key] # Absent
    /\ object' = [object EXCEPT ![k] = object[node[n].key]]
    /\ lost' = lost \cup {k}
    /\ UNCHANGED <<node, version, queue, used, req, job, login, restored, exact>>

\* DeleteNodes and RestoreNodes only turn the status.
TrashNode(n) ==
    /\ node[n].status = "active"
    /\ node' = [node EXCEPT ![n].status = "trashed"]
    /\ UNCHANGED <<version, object, queue, used, req, job, login, history>>

RestoreNode(n) ==
    /\ node[n].status = "trashed"
    /\ node' = [node EXCEPT ![n].status = "active"]
    /\ UNCHANGED <<version, object, queue, used, req, job, login, history>>

\* Mutant: only the current content is queued.
PurgeNode_forgetsVersions(n) ==
    /\ "purgeNode" \in Ops
    /\ node[n].status = "trashed"
    /\ node' = [node EXCEPT ![n] = NoNode]
    /\ version' = version \ VersionsOf(n)
    /\ queue' = queue \cup {node[n].key}
    /\ used' = Clamp(used - node[n].size)
    /\ restored' = restored \ {n}
    /\ UNCHANGED <<object, req, job, login, lost, exact>>

\* PurgeNodes with releaseObjects, one transaction.
PurgeNode(n) ==
    /\ "purgeNode" \in Ops
    /\ node[n].status = "trashed"
    /\ node' = [node EXCEPT ![n] = NoNode]
    /\ version' = version \ VersionsOf(n)
    /\ queue' = queue \cup {node[n].key} \cup { v.key : v \in VersionsOf(n) }
    /\ used' = Clamp(used - node[n].size)
    /\ restored' = restored \ {n}
    /\ UNCHANGED <<object, req, job, login, lost, exact>>

-----------------------------------------------------------------------------
(* Maintenance: purge_deletions and recount_usage.                         *)

StartPurge ==
    /\ "purge" \in Ops
    /\ job.pc = "idle"
    /\ queue # {}
    /\ job' = [IdleJob EXCEPT !.pc = "purge", !.todo = queue]
    /\ UNCHANGED <<node, version, object, queue, used, req, login, history>>

\* RemovePrefix(item.Key); a failure leaves the row for the next run.
PurgeKey(k) ==
    /\ job.pc = "purge"
    /\ k \in job.todo
    /\ \/ /\ object' = [object EXCEPT ![k] = Absent]
          /\ job' = [job EXCEPT !.pc = "purgeRow", !.key = k, !.todo = @ \ {k}]
       \/ /\ "fault" \in Ops
          /\ job' = [job EXCEPT !.todo = @ \ {k}]
          /\ UNCHANGED object
    /\ UNCHANGED <<node, version, queue, used, req, login, history>>

\* DeletePendingDeletion.  Two rows may name one key: the object is gone by now, so the
\* set of keys may forget them together.
PurgeRow ==
    /\ job.pc = "purgeRow"
    /\ queue' = queue \ {job.key}
    /\ job' = [job EXCEPT !.pc = "purge", !.key = None]
    /\ UNCHANGED <<node, version, object, used, req, login, history>>

\* A byte is a file and a place in its content.
Bytes(rows, nodes) == UNION { {n} \X (1..rows[n].size) : n \in nodes }

SizeOf(nodes) == Cardinality(Bytes(node, nodes))
Active == { n \in Nodes : node[n].status = "active" }

\* RecountAllUsage sums the active files, and writes the counter later.
StartRecount ==
    /\ "recount" \in Ops
    /\ job.pc = "idle"
    /\ job' = [IdleJob EXCEPT !.pc = "recount", !.sum = SizeOf(Active)]
    /\ UNCHANGED <<node, version, object, queue, used, req, login, history>>

WriteRecount ==
    /\ job.pc = "recount"
    /\ used' = job.sum
    /\ job' = IdleJob
    /\ exact' = FALSE
    /\ UNCHANGED <<node, version, object, queue, req, login, restored, lost>>

JobEnds ==
    /\ job.pc = "purge"
    /\ job.todo = {}
    /\ job' = IdleJob
    /\ UNCHANGED <<node, version, object, queue, used, req, login, history>>

\* A call or a run is cut short: client gone, context cancelled, process killed.
Abandon(r) ==
    /\ "abandon" \in Ops
    /\ req[r].pc # "idle"
    /\ Done(r)
    /\ lost' = lost \cup {req[r].key}
    /\ UNCHANGED <<node, version, object, queue, used, job, login, restored, exact>>

JobAbandoned ==
    /\ "abandon" \in Ops
    /\ job.pc # "idle"
    /\ job' = IdleJob
    /\ UNCHANGED <<node, version, object, queue, used, req, login, history>>

-----------------------------------------------------------------------------
(* Login and the account row.  Every other writer of the row reads it in the transaction *)
(* that writes it (UpdateUser, UpdateSelf, TouchLogin, ChangePassword).                  *)

\* Login reads the row, verifies the password and opens the session.  A login that fails
\* or dies is one that never gets to WriteAccount.
StartLogin(l) ==
    /\ "login" \in Ops
    /\ used <= MaxUsed
    /\ login' = [login EXCEPT ![l] = used]
    /\ UNCHANGED <<node, version, object, queue, used, req, job, history>>

\* UpdateUser in a transaction of its own writes the whole row as it was read, the counter
\* with it: what was billed in between is forgotten.
WriteAccount(l) ==
    /\ login[l] # NotRead
    /\ used' = login[l]
    /\ login' = [login EXCEPT ![l] = NotRead]
    /\ exact' = (exact /\ login[l] = used)
    /\ UNCHANGED <<node, version, object, queue, req, job, restored, lost>>

-----------------------------------------------------------------------------
Step(r) ==
    \/ \E n \in Nodes : CommitCreate(r, n) \/ CommitOverwrite(r, n)
    \/ CommitRefused(r) \/ Undo(r) \/ EnqueueVersion(r)

Call(r) ==
    \/ \E k \in Keys, size \in Sizes : PutContent(r, k, size)
    \/ \E v \in version : DeleteVersion(r, v)

\* Calls that are one transaction.
Transaction ==
    \/ \E v \in version : RestoreVersion(v)
    \/ \E n \in Nodes : TrashNode(n) \/ RestoreNode(n) \/ PurgeNode(n)
    \/ \E n \in Nodes, k \in Keys : CopyRolledBack(n, k) \/ \E m \in Nodes : CopyNode(n, m, k)

JobStep ==
    \/ \E k \in Keys : PurgeKey(k)
    \/ PurgeRow \/ WriteRecount \/ JobEnds

Next ==
    \/ \E r \in Requests : Call(r) \/ Step(r) \/ Abandon(r)
    \/ Transaction
    \/ \E l \in Logins : StartLogin(l) \/ WriteAccount(l)
    \/ StartPurge \/ StartRecount \/ JobStep \/ JobAbandoned

Spec == Init /\ [][Next]_vars

-----------------------------------------------------------------------------
(* Properties.                                                             *)

\* Every variable stays in its domain; in particular the billed bytes never go negative
\* (AddUsage clamps them).
TypeOK ==
    /\ node \in [Nodes -> Node]
    /\ version \subseteq Version
    /\ object \in [Keys -> Sizes \cup {0, Absent}]
    /\ queue \subseteq Keys
    /\ used \in Nat
    /\ req \in [Requests -> RequestState]
    /\ job \in JobState
    /\ login \in [Logins -> Nat \cup {NotRead}]
    /\ restored \subseteq Nodes
    /\ lost \subseteq Keys
    /\ exact \in BOOLEAN

\* RestoreVersion makes a node and a version share one key, and nothing holds for the rows
\* of such a node: the properties are about the others.
Sound == Live \ restored

KeysOf(n) == {node[n].key} \cup { v.key : v \in VersionsOf(n) }

\* Every row points at existing content of its own size: live and trashed nodes and every
\* retained version, whatever is overwritten, trimmed, deleted, copied, purged, cut short
\* or failing (docs/architecture.md 4.3).
RowsMatchContent ==
    \A n \in Sound :
        /\ object[node[n].key] = node[n].size
        /\ \A v \in VersionsOf(n) : object[v.key] = v.size

\* The same of every node, restored ones included, as docs/architecture.md 131 has it:
\* "the content a row points at always exists" (RestoreVersion, DeleteVersion).
RowsHaveContent == \A n \in Live : \A k \in KeysOf(n) : object[k] # Absent

\* A key belongs to one node or to one version, and a key that a row refers to is neither
\* queued nor in the hands of a handler that may remove it (docs/architecture.md 6.1).
KeyOwnedOnce ==
    /\ \A n \in Live, m \in Live : n # m => KeysOf(n) \cap KeysOf(m) = {}
    /\ \A n \in Sound :
          /\ KeysOf(n) \cap (queue \cup InFlight) = {}
          /\ \A v \in VersionsOf(n) : v.key # node[n].key
          /\ \A v \in VersionsOf(n), w \in VersionsOf(n) : v.key = w.key => v = w

\* With versions kept, every object is referred to by a row, queued, in the hands of a
\* handler, or was left behind by a failure: a call cut short, a removal or an enqueue that
\* failed, a copy rolled back (commitNode, DeleteVersion, releaseObjects).
NothingLeaked ==
    KeepVersions =>
        \A k \in Keys : object[k] # Absent => k \in Referenced \cup InFlight \cup queue \cup lost

\* The billed bytes are the bytes of the account's nodes, trashed ones included (AddUsage in
\* every transaction), until one of three writers goes past the counter: an overwrite that
\* changes a size, a recount, and a login that writes back a counter billed in between.
UsageIsContent == exact => used = SizeOf(Live)

\* Concurrent uploads and copies never take the account beyond its quota, until the counter
\* is gone past as above: the check is in the transaction that bills (checkQuotaFor under
\* WithTx), not where the upload began.
ContentWithinQuota == exact /\ Quota > 0 => SizeOf(Live) <= Quota

\* A file keeps at most MaxVersions versions, and VersionCount tells how many there are
\* (trimVersions, DeleteVersion).
VersionsBounded ==
    \A n \in Sound :
        /\ node[n].count = Cardinality(VersionsOf(n))
        /\ MaxVersions > 0 => Cardinality(VersionsOf(n)) <= MaxVersions

-----------------------------------------------------------------------------
(* What a reader sees implements FileStore.                                *)

NoFile  == -2
Unknown == -3

\* A read of a file, and of each of its versions, is a read of the object its row names.
Content == [n \in Nodes |->
              IF n \notin Live THEN NoFile ELSE IF n \in restored THEN Unknown ELSE object[node[n].key]]
Kept == [n \in Nodes |->
              IF n \in Sound THEN { <<v.number, object[v.key]>> : v \in VersionsOf(n) } ELSE {}]

Files == INSTANCE FileStore WITH Files <- Nodes, Contents <- Sizes \cup {0}, Numbers <- 1..MaxNumber,
                           content <- Content, kept <- Kept

\* What a file and its versions read changes only when that file is written, copied to,
\* restored or removed: never by maintenance, by a handler of another file, by a refused
\* or abandoned call, or by the release of what an overwrite replaced.
FilesKeepContent == Files!Spec
=============================================================================
