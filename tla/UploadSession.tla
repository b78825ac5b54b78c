---------------------------- MODULE UploadSession ----------------------------
(***************************************************************************)
(* The multipart upload protocol of nagisa: internal/biz/file.go, the      *)
(* repository calls it makes (internal/data/file.go), the staged and final *)
(* objects in the S3 backend (internal/data/storage.go) and the three      *)
(* maintenance tasks that touch staged data (internal/biz/system.go).      *)
(*                                                                         *)
(* Every handler is a small program: a request keeps the row it loaded     *)
(* outside the transaction and writes that snapshot back later.  One       *)
(* action is one atomic step of a handler, that is one transaction, one    *)
(* autocommitted repository call or one call to the object store.  A       *)
(* request may be abandoned between any two steps (client gone, context    *)
(* cancelled, process killed).                                             *)
(***************************************************************************)
EXTENDS Integers, FiniteSets

CONSTANTS
    Uploads,     \* session ids (NewID never repeats one)
    Requests,    \* slots for handler calls in flight at the same time
    Keys,        \* "files/<owner>/<node>" keys, one per assembled object
    None,        \* "no session", "no key" in an idle slot
    Sizes,       \* file sizes a client declares
    Chunks,      \* part sizes left by normalizeChunk
    MinChunk,    \* UploadLimits.MinChunkSize
    MaxParts,    \* UploadLimits.MaxParts
    SessionTTL,  \* UploadLimits.SessionTTL, in ticks
    MaxTime,     \* bound on the clock
    MaxQueued,   \* bound on the queued deletions of one prefix
    Ops          \* the operations and faults a run lets happen

ASSUME UploadConstants ==
    /\ None \notin Uploads \cup Keys
    /\ Sizes \subseteq Nat
    /\ Chunks \subseteq Nat \ {0}
    /\ MinChunk \in Nat \ {0}
    /\ MaxParts \in Nat \ {0}
    /\ SessionTTL \in Nat \ {0}
    /\ MaxTime \in Nat
    /\ MaxQueued \in Nat \ {0}
    /\ Ops \subseteq {"initiate", "chunk", "confirm", "complete", "abort", "presign",
                      "expire", "purge", "gc", "abandon", "fault", "refuse", "mismatch"}

VARIABLES
    now,        \* the clock, compared with a session's expires
    row,        \* the uploads table
    part,       \* the upload_parts table: the recorded size of a part
    staged,     \* objects under uploads/<id>/parts/<n>: their size
    object,     \* objects under files/: their size
    committed,  \* file nodes: [key, upload, size]
    queue,      \* pending_deletions rows that name the prefix of a session
    req,        \* handler calls in flight
    job         \* the maintenance run in flight

vars == <<now, row, part, staged, object, committed, queue, req, job>>

-----------------------------------------------------------------------------
Absent == -1                    \* no part row, no object
PartNo == 1..MaxParts
Open   == {"pending", "inprogress"}
Stored == Open \cup {"expired", "aborted"}
Status == Stored \cup {"unborn", "deleted"}

\* Upload: the columns the protocol reads.  "unborn" and "deleted" stand for no row.
Row == [status : Status, size : Nat, chunk : Nat, total : Nat, expires : Nat]

NoRow == [status |-> "unborn", size |-> 0, chunk |-> 0, total |-> 0, expires |-> 0]

TotalParts(size, chunk) ==
    IF size = 0 THEN 1 ELSE (size + chunk - 1) \div chunk

\* Shape of a session as InitiateUpload computes it: an empty file gets one MinChunk part.
Shapes ==
    { s \in [size : Sizes, chunk : Chunks] :
        /\ s.size = 0 => s.chunk = MinChunk
        /\ TotalParts(s.size, s.chunk) <= MaxParts }

\* assertSessionOpen, on the row as it was loaded.
SessionOpen(w) == w.status \in Open /\ now <= w.expires

\* UploadChunk's maxSize: the last part of a non-empty file is the remainder.
PartLimit(w, n) ==
    IF n = w.total /\ w.size > 0 THEN w.size - (w.total - 1) * w.chunk ELSE w.chunk

PartSizes == UNION { 0..c : c \in Chunks }

-----------------------------------------------------------------------------
\* A handler call: pc names the call it makes next, w is the row it loaded.
ReqPc == {"idle", "put", "mismatch", "stat", "record", "list", "copy", "commit", "undo",
          "dropParts", "sweep", "retire", "abort", "abortSweep"}
ReqState == [pc : ReqPc, u : Uploads \cup {None}, w : Row, n : Nat, size : Nat,
             key : Keys \cup {None}, sum : Nat]
IdleReq  == [pc |-> "idle", u |-> None, w |-> NoRow, n |-> 0, size |-> 0, key |-> None, sum |-> 0]

JobPc == {"idle", "expire", "expireParts", "expireQueue", "purge", "purgeRow", "gcList", "gc"}
JobState == [pc : JobPc, todo : SUBSET (Uploads \X (0..MaxParts)), u : Uploads \cup {None},
             rows : [Uploads -> Row], live : SUBSET Uploads]
NoRows  == [u \in Uploads |-> NoRow]
IdleJob == [pc |-> "idle", todo |-> {}, u |-> None, rows |-> NoRows, live |-> {}]

NoParts == [n \in PartNo |-> Absent]

Init ==
    /\ now = 0
    /\ row = NoRows
    /\ part = [u \in Uploads |-> NoParts]
    /\ staged = [u \in Uploads |-> NoParts]
    /\ object = [k \in Keys |-> Absent]
    /\ committed = {}
    /\ queue = [u \in Uploads |-> 0]
    /\ req = [r \in Requests |-> IdleReq]
    /\ job = IdleJob

Done(r)     == req' = [req EXCEPT ![r] = IdleReq]
Goto(r, pc) == req' = [req EXCEPT ![r].pc = pc]

CommittedKeys == { c.key : c \in committed }

\* EnqueueDeletion(upload.Path), with the bound on what a run piles up.
Enqueue(u) == queue[u] < MaxQueued /\ queue' = [queue EXCEPT ![u] = @ + 1]

\* A failing RemovePrefix: it stops at the first error, with some objects gone already.
RemovedInPart(u) ==
    \E left \in SUBSET PartNo :
        staged' = [staged EXCEPT ![u] = [n \in PartNo |-> IF n \in left THEN @[n] ELSE Absent]]

-----------------------------------------------------------------------------
(* InitiateUpload: one write transaction.                                  *)

\* FindReusableUpload; every session of the model has the same destination.
Reusable(u) == row[u].status \in Open /\ row[u].expires > now

Reshape(u, s, status, expires) ==
    row' = [row EXCEPT ![u] = [status |-> status, size |-> s.size, chunk |-> s.chunk,
                               total |-> TotalParts(s.size, s.chunk), expires |-> expires]]

\* The caller named a session: an aborted or expired one becomes pending again.
InitiateResume(u, s) ==
    /\ "initiate" \in Ops
    /\ row[u].status \in Stored
    /\ now < row[u].expires
    /\ Reshape(u, s, IF row[u].status \in Open THEN row[u].status ELSE "pending", row[u].expires)
    /\ UNCHANGED <<now, part, staged, object, committed, queue, req, job>>

\* A retried InitiateUpload reuses the open session of the destination.
InitiateReuse(u, s) ==
    /\ "initiate" \in Ops
    /\ Reusable(u)
    /\ Reshape(u, s, row[u].status, now + SessionTTL)
    /\ UNCHANGED <<now, part, staged, object, committed, queue, req, job>>

InitiateCreate(u, s) ==
    /\ "initiate" \in Ops
    /\ \A v \in Uploads : ~Reusable(v)
    /\ row[u].status = "unborn"
    /\ Reshape(u, s, "pending", now + SessionTTL)
    /\ UNCHANGED <<now, part, staged, object, committed, queue, req, job>>

-----------------------------------------------------------------------------
(* UploadChunk and ConfirmUploadPart.                                      *)

\* loadOwnedUpload runs outside any transaction; the handler keeps the row it read.
LoadOwned(r, u, pc, n, size) ==
    /\ req[r].pc = "idle"
    /\ row[u].status \in Stored
    /\ req' = [req EXCEPT ![r] = [IdleReq EXCEPT !.pc = pc, !.u = u, !.w = row[u], !.n = n, !.size = size]]
    /\ UNCHANGED <<now, row, part, staged, object, committed, queue, job>>

Load(r, u, pc, n, size) == SessionOpen(row[u]) /\ LoadOwned(r, u, pc, n, size)

StartChunk(r, u, n, size) ==
    /\ "chunk" \in Ops
    /\ n <= row[u].total
    /\ size <= PartLimit(row[u], n)
    /\ Load(r, u, "put", n, size)

StartConfirm(r, u, n) ==
    /\ "confirm" \in Ops
    /\ n <= row[u].total
    /\ Load(r, u, "stat", n, 0)

\* PutObject on the part key; the ETag the client announced may not match.
PutPart(r) ==
    /\ req[r].pc = "put"
    /\ staged' = [staged EXCEPT ![req[r].u][req[r].n] = req[r].size]
    /\ \/ Goto(r, "record")
       \/ "mismatch" \in Ops /\ Goto(r, "mismatch")
    /\ UNCHANGED <<now, row, part, object, committed, queue, job>>

RemoveMismatch(r) ==
    /\ req[r].pc = "mismatch"
    /\ staged' = [staged EXCEPT ![req[r].u][req[r].n] = Absent]
    /\ Done(r)
    /\ UNCHANGED <<now, row, part, object, committed, queue, job>>

\* A zero byte part only counts for an empty file.
StatPart(r) ==
    LET q == req[r]
        size == staged[q.u][q.n]
        accepted == \/ size > 0
                    \/ size = 0 /\ q.w.size = 0 /\ q.w.total = 1 /\ q.n = 1
    IN  /\ q.pc = "stat"
        /\ IF accepted THEN req' = [req EXCEPT ![r].pc = "record", ![r].size = size] ELSE Done(r)
        /\ UNCHANGED <<now, row, part, staged, object, committed, queue, job>>

\* One transaction: PutUploadPart, then refreshProgress writes the loaded row back.
RecordPart(r) ==
    LET q == req[r] IN
    /\ q.pc = "record"
    /\ IF row[q.u].status \in Stored
       THEN /\ part' = [part EXCEPT ![q.u][q.n] = q.size]
            /\ row' = [row EXCEPT ![q.u] = [q.w EXCEPT !.status = "inprogress"]]
       ELSE UNCHANGED <<part, row>>
    /\ Done(r)
    /\ UNCHANGED <<now, staged, object, committed, queue, job>>

\* A client with a presigned URL writes a part object without the server.
ClientPut(u, n, size) ==
    /\ "presign" \in Ops
    /\ row[u].status # "unborn"
    /\ staged' = [staged EXCEPT ![u][n] = size]
    /\ UNCHANGED <<now, row, part, object, committed, queue, req, job>>

-----------------------------------------------------------------------------
(* CompleteUpload.                                                         *)

StartComplete(r, u) ==
    /\ "complete" \in Ops
    /\ Load(r, u, "list", 0, 0)

SumOf(f, n) ==
    LET s[i \in 0..n] == IF i = 0 THEN 0 ELSE s[i - 1] + f[i] IN s[n]

\* Every part 1..total is recorded, none beyond, all but the last are full enough,
\* and the bytes add up to the declared size.
PartsComplete(w, rows) ==
    /\ { n \in PartNo : rows[n] # Absent } = 1 .. w.total
    /\ \A n \in 1 .. (w.total - 1) : rows[n] >= MinChunk
    /\ w.size > 0 => SumOf(rows, w.total) = w.size

\* The node's size: the bytes of the recorded parts, which PartsComplete has compared
\* with the declared size; an empty file has one part.
TotalBytes(w, rows) == IF w.size > 0 THEN w.size ELSE rows[1]

\* Mutant: the key is derived from the session, so two completions mint the same one.
FreshKey_perSession(k) ==
    /\ object[k] = Absent
    /\ k \notin CommittedKeys

FreshKey(k) ==
    /\ object[k] = Absent
    /\ k \notin CommittedKeys
    /\ \A r \in Requests : req[r].key # k

\* ListUploadParts and its checks; then nodeID and finalKey are minted.
ListParts(r) ==
    LET q == req[r] IN
    /\ q.pc = "list"
    /\ IF PartsComplete(q.w, part[q.u])
       THEN \E k \in Keys :
              /\ FreshKey(k)
              /\ req' = [req EXCEPT ![r].pc = "copy", ![r].key = k, ![r].n = 1,
                                    ![r].size = TotalBytes(q.w, part[q.u])]
       ELSE Done(r)
    /\ UNCHANGED <<now, row, part, staged, object, committed, queue, job>>

\* Mutant: the copy does not notice a missing source.
CopyPart_unchecked(r) ==
    LET q == req[r]
        sum == q.sum + staged[q.u][q.n]
    IN  /\ q.pc = "copy"
        /\ IF q.n < q.w.total
           THEN req' = [req EXCEPT ![r].n = q.n + 1, ![r].sum = sum] /\ UNCHANGED object
           ELSE object' = [object EXCEPT ![q.key] = sum] /\ Goto(r, "commit")
        /\ UNCHANGED <<now, row, part, staged, committed, queue, job>>

\* Mutant: a missing source is skipped.
CopyPart_skipping(r) ==
    LET q == req[r]
        sum == IF staged[q.u][q.n] = Absent THEN q.sum ELSE q.sum + staged[q.u][q.n]
    IN  /\ q.pc = "copy"
        /\ IF q.n < q.w.total
           THEN req' = [req EXCEPT ![r].n = q.n + 1, ![r].sum = sum] /\ UNCHANGED object
           ELSE object' = [object EXCEPT ![q.key] = sum] /\ Goto(r, "commit")
        /\ UNCHANGED <<now, row, part, staged, committed, queue, job>>

\* ComposeObject copies one source per call; a missing source aborts the multipart
\* copy, the last one makes the final object visible.  A declared checksum may differ.
CopyPart(r) ==
    LET q == req[r]
        bytes == staged[q.u][q.n]
        sum == q.sum + bytes
    IN  /\ q.pc = "copy"
        /\ \/ bytes = Absent /\ Done(r) /\ UNCHANGED object
           \/ /\ bytes # Absent /\ q.n < q.w.total
              /\ req' = [req EXCEPT ![r].n = q.n + 1, ![r].sum = sum]
              /\ UNCHANGED object
           \/ /\ bytes # Absent /\ q.n >= q.w.total
              /\ object' = [object EXCEPT ![q.key] = sum]
              /\ \/ Goto(r, "commit")
                 \/ "refuse" \in Ops /\ Goto(r, "undo")
        /\ UNCHANGED <<now, row, part, staged, committed, queue, job>>

\* Mutant: a refused transaction returns without removing the assembled object.
CommitNode_noUndo(r) ==
    LET q == req[r] IN
    /\ q.pc = "commit"
    /\ \/ /\ committed' = committed \cup {[key |-> q.key, upload |-> q.u, size |-> q.size]}
          /\ Goto(r, "dropParts")
       \/ /\ "refuse" \in Ops
          /\ Done(r)
          /\ UNCHANGED committed
    /\ UNCHANGED <<now, row, part, staged, object, queue, job>>

\* commitNode: the transaction creates the node, or refuses (parent gone, name
\* conflict, quota, permission).  It does not look at the session row.
CommitNode(r) ==
    LET q == req[r] IN
    /\ q.pc = "commit"
    /\ \/ /\ committed' = committed \cup {[key |-> q.key, upload |-> q.u, size |-> q.size]}
          /\ Goto(r, "dropParts")
       \/ /\ "refuse" \in Ops
          /\ Goto(r, "undo")
          /\ UNCHANGED committed
    /\ UNCHANGED <<now, row, part, staged, object, queue, job>>

\* Mutant: the error path runs on into the cleanup that follows the commit.
UndoCompose_fallsThrough(r) ==
    /\ req[r].pc = "undo"
    /\ object' = [object EXCEPT ![req[r].key] = Absent]
    /\ Goto(r, "dropParts")
    /\ UNCHANGED <<now, row, part, staged, committed, queue, job>>

\* RemoveObject(finalKey); its error is dropped.
UndoCompose(r) ==
    /\ req[r].pc = "undo"
    /\ \/ object' = [object EXCEPT ![req[r].key] = Absent]
       \/ "fault" \in Ops /\ UNCHANGED object
    /\ Done(r)
    /\ UNCHANGED <<now, row, part, staged, committed, queue, job>>

\* Mutant: a failing cleanup takes the error path of the transaction.
DropParts_undo(r) ==
    LET u == req[r].u IN
    /\ req[r].pc = "dropParts"
    /\ \/ part' = [part EXCEPT ![u] = NoParts] /\ Goto(r, "sweep")
       \/ "fault" \in Ops /\ Goto(r, "undo") /\ UNCHANGED part
    /\ UNCHANGED <<now, row, staged, object, committed, queue, job>>

\* DeleteUploadParts; when it fails the prefix is queued, and that error is dropped.
DropParts(r) ==
    LET u == req[r].u IN
    /\ req[r].pc = "dropParts"
    /\ \/ part' = [part EXCEPT ![u] = NoParts] /\ Goto(r, "sweep") /\ UNCHANGED queue
       \/ /\ "fault" \in Ops
          /\ Enqueue(u) \/ UNCHANGED queue
          /\ Goto(r, "retire")
          /\ UNCHANGED part
    /\ UNCHANGED <<now, row, staged, object, committed, job>>

\* RemovePrefix(upload.Path); when it fails the prefix is queued, and when that fails too
\* nothing is.
RemovePrefixOrQueue(u) ==
    \/ staged' = [staged EXCEPT ![u] = NoParts] /\ UNCHANGED queue
    \/ /\ "fault" \in Ops
       /\ RemovedInPart(u)
       /\ Enqueue(u) \/ UNCHANGED queue

SweepStaged(r) ==
    /\ req[r].pc = "sweep"
    /\ RemovePrefixOrQueue(req[r].u)
    /\ Goto(r, "retire")
    /\ UNCHANGED <<now, row, part, object, committed, job>>

\* Mutant: the session row stays after the commit.
RetireSession_kept(r) ==
    /\ req[r].pc = "retire"
    /\ Done(r)
    /\ UNCHANGED <<now, row, part, staged, object, committed, queue, job>>

\* DeleteUpload; a row that is already gone is a success.
RetireSession(r) ==
    /\ req[r].pc = "retire"
    /\ row' = [row EXCEPT ![req[r].u] = [NoRow EXCEPT !.status = "deleted"]]
    /\ Done(r)
    /\ UNCHANGED <<now, part, staged, object, committed, queue, job>>

-----------------------------------------------------------------------------
(* AbortUpload.                                                            *)

\* Any stored session can be aborted, an expired or aborted one again.
StartAbort(r, u) ==
    /\ "abort" \in Ops
    /\ LoadOwned(r, u, "abort", 0, 0)

\* One transaction: the loaded row goes back with status aborted, the part rows go.
AbortSession(r) ==
    LET q == req[r] IN
    /\ q.pc = "abort"
    /\ IF row[q.u].status \in Stored
       THEN /\ row' = [row EXCEPT ![q.u] = [q.w EXCEPT !.status = "aborted"]]
            /\ part' = [part EXCEPT ![q.u] = NoParts]
            /\ Goto(r, "abortSweep")
       ELSE UNCHANGED <<row, part>> /\ Done(r)
    /\ UNCHANGED <<now, staged, object, committed, queue, job>>

AbortSweep(r) ==
    /\ req[r].pc = "abortSweep"
    /\ RemovePrefixOrQueue(req[r].u)
    /\ Done(r)
    /\ UNCHANGED <<now, row, part, object, committed, job>>

\* The caller's context ends (disconnect, timeout) or the process dies.
Abandon(r) ==
    /\ "abandon" \in Ops
    /\ req[r].pc # "idle"
    /\ Done(r)
    /\ UNCHANGED <<now, row, part, staged, object, committed, queue, job>>

-----------------------------------------------------------------------------
(* Maintenance: expire_uploads, purge_deletions and gc_orphans.            *)

StartExpire ==
    /\ "expire" \in Ops
    /\ job.pc = "idle"
    /\ job' = [IdleJob EXCEPT !.pc = "expire", !.rows = row,
                 !.todo = { u \in Uploads : row[u].status \in Open /\ row[u].expires < now } \X {0}]
    /\ UNCHANGED <<now, row, part, staged, object, committed, queue, req>>

\* UpdateUpload with the listed row; a row that vanished ends the run.
ExpireRow(u) ==
    /\ job.pc = "expire"
    /\ <<u, 0>> \in job.todo
    /\ IF row[u].status \in Stored
       THEN /\ row' = [row EXCEPT ![u] = [job.rows[u] EXCEPT !.status = "expired"]]
            /\ job' = [job EXCEPT !.pc = "expireParts", !.u = u, !.todo = @ \ {<<u, 0>>}]
       ELSE job' = IdleJob /\ UNCHANGED row
    /\ UNCHANGED <<now, part, staged, object, committed, queue, req>>

ExpireParts ==
    /\ job.pc = "expireParts"
    /\ part' = [part EXCEPT ![job.u] = NoParts]
    /\ job' = [job EXCEPT !.pc = "expireQueue"]
    /\ UNCHANGED <<now, row, staged, object, committed, queue, req>>

ExpireQueue ==
    /\ job.pc = "expireQueue"
    /\ Enqueue(job.u)
    /\ job' = [job EXCEPT !.pc = "expire", !.u = None]
    /\ UNCHANGED <<now, row, part, staged, object, committed, req>>

\* ListPendingDeletions; a second row of the same prefix waits for the next run, where the
\* code finds the prefix empty and deletes the row in this one.
StartPurge ==
    /\ "purge" \in Ops
    /\ job.pc = "idle"
    /\ job' = [IdleJob EXCEPT !.pc = "purge", !.todo = { u \in Uploads : queue[u] > 0 } \X {0}]
    /\ UNCHANGED <<now, row, part, staged, object, committed, queue, req>>

\* RemovePrefix(item.Key); on an error the row stays for the next run.
PurgePrefix(u) ==
    /\ job.pc = "purge"
    /\ <<u, 0>> \in job.todo
    /\ \/ /\ staged' = [staged EXCEPT ![u] = NoParts]
          /\ job' = [job EXCEPT !.pc = "purgeRow", !.u = u, !.todo = @ \ {<<u, 0>>}]
       \/ /\ "fault" \in Ops
          /\ RemovedInPart(u)
          /\ job' = [job EXCEPT !.todo = @ \ {<<u, 0>>}]
    /\ UNCHANGED <<now, row, part, object, committed, queue, req>>

\* Mutant: the queue row outlives a successful removal.
PurgeRow_kept ==
    /\ job.pc = "purgeRow"
    /\ job' = [job EXCEPT !.pc = "purge", !.u = None]
    /\ UNCHANGED <<now, row, part, staged, object, committed, queue, req>>

PurgeRow ==
    /\ job.pc = "purgeRow"
    /\ queue' = [queue EXCEPT ![job.u] = @ - 1]
    /\ job' = [job EXCEPT !.pc = "purge", !.u = None]
    /\ UNCHANGED <<now, row, part, staged, object, committed, req>>

\* Mutant: every session the system ever knew is spared.
StartGc_sparesAll ==
    /\ "gc" \in Ops
    /\ job.pc = "idle"
    /\ job' = [IdleJob EXCEPT !.pc = "gcList", !.live = { u \in Uploads : row[u].status # "unborn" }]
    /\ UNCHANGED <<now, row, part, staged, object, committed, queue, req>>

\* liveUploadPrefixes: the sessions gc_orphans spares, read before the listing.
StartGc ==
    /\ "gc" \in Ops
    /\ job.pc = "idle"
    /\ job' = [IdleJob EXCEPT !.pc = "gcList",
                 !.live = { u \in Uploads : row[u].status \in Open /\ now <= row[u].expires }]
    /\ UNCHANGED <<now, row, part, staged, object, committed, queue, req>>

\* ListPrefix("uploads/") minus the live prefixes.
GcList ==
    /\ job.pc = "gcList"
    /\ job' = [job EXCEPT !.pc = "gc", !.live = {},
                 !.todo = { x \in (Uploads \ job.live) \X PartNo : staged[x[1]][x[2]] # Absent }]
    /\ UNCHANGED <<now, row, part, staged, object, committed, queue, req>>

GcRemove(u, n) ==
    /\ job.pc = "gc"
    /\ <<u, n>> \in job.todo
    /\ staged' = [staged EXCEPT ![u][n] = Absent]
    /\ job' = [job EXCEPT !.todo = @ \ {<<u, n>>}]
    /\ UNCHANGED <<now, row, part, object, committed, queue, req>>

JobEnds ==
    /\ job.pc \in {"expire", "purge", "gc"}
    /\ job.todo = {}
    /\ job' = IdleJob
    /\ UNCHANGED <<now, row, part, staged, object, committed, queue, req>>

JobAbandoned ==
    /\ "abandon" \in Ops
    /\ job.pc # "idle"
    /\ job' = IdleJob
    /\ UNCHANGED <<now, row, part, staged, object, committed, queue, req>>

Tick ==
    /\ now < MaxTime
    /\ now' = now + 1
    /\ UNCHANGED <<row, part, staged, object, committed, queue, req, job>>

-----------------------------------------------------------------------------
Initiate ==
    \E u \in Uploads, s \in Shapes :
        InitiateResume(u, s) \/ InitiateReuse(u, s) \/ InitiateCreate(u, s)

\* A client calls a handler.
Call(r) ==
    \E u \in Uploads :
        \/ \E n \in PartNo, size \in PartSizes : StartChunk(r, u, n, size)
        \/ \E n \in PartNo : StartConfirm(r, u, n)
        \/ StartComplete(r, u)
        \/ StartAbort(r, u)

\* The next step of a handler in flight.
Step(r) ==
    \/ PutPart(r) \/ RemoveMismatch(r) \/ StatPart(r) \/ RecordPart(r)
    \/ ListParts(r) \/ CopyPart(r) \/ CommitNode(r) \/ UndoCompose(r)
    \/ DropParts(r) \/ SweepStaged(r) \/ RetireSession(r)
    \/ AbortSession(r) \/ AbortSweep(r)

JobStep ==
    \/ \E u \in Uploads : ExpireRow(u) \/ PurgePrefix(u)
    \/ \E u \in Uploads, n \in PartNo : GcRemove(u, n)
    \/ ExpireParts \/ ExpireQueue \/ PurgeRow \/ GcList \/ JobEnds

Next ==
    \/ Initiate
    \/ \E r \in Requests : Call(r) \/ Step(r) \/ Abandon(r)
    \/ \E u \in Uploads, n \in PartNo, size \in PartSizes : ClientPut(u, n, size)
    \/ StartExpire \/ StartPurge \/ StartGc
    \/ JobStep \/ JobAbandoned
    \/ Tick

Spec == Init /\ [][Next]_vars

\* The Go scheduler and the HTTP server run a handler on to its end, and the operator's
\* cron keeps asking for the default tasks (docs/deployment.md 5.2, 5.3): gc_orphans is not
\* one of them.
Fairness ==
    /\ \A r \in Requests : WF_vars(Step(r))
    /\ WF_vars(JobStep)
    /\ SF_vars(StartExpire) /\ SF_vars(StartPurge)

FairSpec == Spec /\ Fairness

-----------------------------------------------------------------------------
(* Properties.                                                             *)

\* Every variable stays in its domain: rows of the uploads and upload_parts tables,
\* object sizes, file nodes, queue lengths, handler and job states.
TypeOK ==
    /\ now \in 0..MaxTime
    /\ row \in [Uploads -> Row]
    /\ part \in [Uploads -> [PartNo -> Nat \cup {Absent}]]
    /\ staged \in [Uploads -> [PartNo -> Nat \cup {Absent}]]
    /\ object \in [Keys -> Nat \cup {Absent}]
    /\ committed \subseteq [key : Keys, upload : Uploads, size : Nat]
    /\ queue \in [Uploads -> Nat]
    /\ req \in [Requests -> ReqState]
    /\ job \in JobState

\* A node of the tree never references content that does not exist, whatever requests
\* race, are abandoned or fail, and whatever the maintenance tasks sweep
\* (CompleteUpload; "rows always point at existing content", docs/architecture.md 4.3).
ContentExists == \A c \in committed : object[c.key] # Absent

\* A final key belongs to one node or to one CompleteUpload in flight (ObjectKey with a
\* fresh node id): the part of the inductive invariant ContentExists rests on.
KeyHeldOnce ==
    /\ \A r \in Requests, s \in Requests :
          req[r].key # None /\ req[r].key = req[s].key => r = s
    /\ \A c \in committed, d \in committed : c.key = d.key => c = d
    /\ \A r \in Requests :
          req[r].pc \in {"copy", "commit", "undo"} => req[r].key \notin CommittedKeys

\* The sessions a node was committed from.
Served == { c.upload : c \in committed }

\* Nothing but the handlers of uploads and completions, and the deletion queue, gives up
\* what a session has: no abort, expiry, gc_orphans or part of the wrong checksum.
Undisturbed == Ops \cap {"abort", "expire", "gc", "mismatch"} = {}

\* A CompleteUpload that is refused, fails, races another one or is cut short anywhere can
\* be called again: until a node is committed from a session its row stays, and so do the
\* bytes of every part the table knows, whatever cleanup of whatever completion fails
\* half way, is queued or is worked off later (CompleteUpload's error paths, purge_deletions).
RetryPossible ==
    \A u \in Uploads \ Served :
        /\ row[u].status # "deleted"
        /\ Undisturbed => \A n \in PartNo : part[u][n] # Absent => staged[u][n] # Absent

\* Content never outlives its row when no call is cut short and the backend does not
\* fail: an assembled object has its node, or the handler that decides about it is
\* still running (CompleteUpload removes the object when the transaction fails).
NoOrphanContent ==
    \A k \in Keys : object[k] # Absent =>
        \/ k \in CommittedKeys
        \/ \E r \in Requests : req[r].key = k /\ req[r].pc \in {"commit", "undo"}

\* One session becomes one node (CompleteUpload).
OneNodePerSession ==
    \A c \in committed, d \in committed : c.upload = d.upload => c = d

\* The size of a node is the size of the object it points at (CompleteUpload takes the
\* size from the part rows and the bytes from the staged objects).
SizeIsContent == \A c \in committed : object[c.key] = c.size

\* What was staged for a session that is gone is eventually released, even when a late
\* UploadChunk writes after the sweep of its completion (CompleteUpload, UploadChunk), as
\* long as somebody keeps asking for gc_orphans: the handler and the deletion queue do not
\* see the late part, and neither the default tasks nor the cron of docs/deployment.md 5.3
\* include the task that does.
DeletedIsSwept ==
    []<><<StartGc>>_vars => \A u \in Uploads : row[u].status = "deleted" ~> staged[u] = NoParts

\* A queued prefix is eventually drained by purge_deletions.
QueueDrains == \A u \in Uploads : queue[u] > 0 ~> queue[u] = 0

\* The protocol implements PublishedContent: a key is visible once its node is committed.
Published == INSTANCE PublishedContent WITH
    Bytes <- Nat, Nothing <- Absent,
    visible <- [k \in Keys |-> IF k \in CommittedKeys THEN object[k] ELSE Absent]

\* Readers see each object appear once, whole, with its node, and never change or vanish
\* (CompleteUpload, AbortUpload and the sweeps together).
PublishesAtomically == Published!Spec
=============================================================================
