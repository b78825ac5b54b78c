# A TLA+ model of nagisa

nagisa is a net disk: a Go server (Kratos) with accounts, a tree of folders and
files, resumable uploads to an S3 backend, a trash, versions, share links, and
maintenance tasks an operator triggers. This directory holds TLA+ modules that
model the parts of it where steps of several actors meet, the TLC
configurations that check them on small instances, and TLAPS proofs about all
seven component modules for every instance. `PROJECT.json` maps every definition to the lines it
models and lists the runs, the mutants that show each property can fail, the
hazards and the theorems. Paths below are relative to the repository; `biz/`,
`data/` and `service/` stand for `internal/biz/` and so on.

    tlc -workers 2 -config UploadMaint.cfg MCUploadSession
    tlapm UploadSessionProofs.tla

## 1. The system

### 1.1 Components

| component | code | state it keeps | operations |
| --- | --- | --- | --- |
| uploads | `biz/file.go` 182-840, `data/file.go`, `data/storage.go` | rows of `uploads` and `upload_parts`; staged objects `uploads/<id>/parts/<n>`; assembled objects | InitiateUpload, UploadChunk, ConfirmUploadPart, CompleteUpload, AbortUpload, writes through presigned URLs |
| file content | `biz/file.go` 660-1180, 1283-1416; `biz/node.go` 980-1080 | storage key, size and version count of file nodes; `node_versions`; `pending_deletions`; used bytes of accounts | UploadSmallFile, overwrite, RestoreVersion, DeleteVersion, CopyNodes, purge |
| node tree | `biz/node.go`, `data/node.go` | `nodes`: parent id, materialised path, depth, name, status, original parent | create, rename, move, copy, trash, restore, purge, EmptyTrash |
| accounts and sessions | `biz/auth.go`, `biz/user.go`, `data/user.go`, `data/seed.go` | `users`, `refresh_sessions` | Login, Refresh, Logout, ChangePassword, RevokeSession, CreateUser, UpdateUser, DeleteUser |
| share links | `biz/share.go`, `data/share.go`, `service/share.go` | `shares`: settings, password, status, counters | Create, Update, Delete, Resolve, unlockShare, ResolveNode, AccessShare, GetShareDownloadUrl |
| maintenance | `biz/system.go` 269-516 | none of its own | expire_uploads, purge_deletions, gc_orphans, expire_shares, recount_usage, purge_trash |
| access control | `biz/access.go`, `biz/model.go`, `biz/node.go` 255-330, 1198-1276 | `node_acls`, visibility, folder passwords | EvaluateNodeAccess, SetNodeAcl, Unlock |
| transactions | `data/data.go` 178-277 | a write mutex | WithTx |
| audit trail | `internal/server/middleware/audit.go`, `data/audit.go` | a bounded channel, a batch, `audit_logs` | record, batch, flush, close |
| settings, statistics | `data/setting.go`, `data/stats.go` | key/value rows | upsert, list |
| transports, services, crypto, frontend | `internal/server`, `service/`, `internal/pkg`, `frontend` | none that outlives a request | conversion, routing, signatures |

### 1.2 How they interact

* A transport builds a `Caller` from the access token (`AuthUsecase.Authenticate`)
  and calls a use case. The caller is a **copy** of the account row: it is not
  read again when the use case decides.
* A use case reads and writes rows through repositories. `TxManager.WithTx`
  holds a mutex for the whole of a writing transaction and rolls back on error
  (`data/data.go` 234-255), so transactions of a process do not interleave. What
  a handler reads **before** `WithTx`, and what it does to the object store
  before and after it, does interleave with everything.
* Content is in the object store, and a row names its key. The two are kept
  together by order, not by a transaction: content is written before the row
  that names it, and released after the last row is gone
  (`docs/architecture.md` 4.3).
* What cannot be released at once becomes a row of `pending_deletions`, drained
  by maintenance. Nothing in the program schedules maintenance: an operator's
  cron does (`docs/deployment.md` 5.2, `docs/architecture.md` 161).
* The tree is selected by path prefix: a statement on a subtree touches every row
  whose path starts with the path of its top. Share links reuse this: a node is
  in a share when its path continues the path of the shared node.

### 1.3 What is hard here

* Handlers that load a row, call the object store and write the row back
  (`UploadChunk`, `ConfirmUploadPart`, `Login`, `expire_shares`).
* Handlers that check before their transaction (`CompleteUpload`, `CopyNodes`,
  `EmptyTrash`, `GetShareDownloadUrl`, every check of the caller's authority).
* Clients that retry, leave in the middle, or write an object late through a
  presigned URL; a process that dies between content and row.
* Maintenance that acts on a list read earlier.
* A reader that collects a chain of rows one query at a time while the tree and
  its access entries change (`Chain`).
* A background worker that shares the write mutex with the calls it records, a
  full buffer, and a shutdown in the middle of it.
* Denormalised data: path and depth next to the parent id, used bytes next to
  the nodes, version count next to the versions, download count next to the
  budget.

### 1.4 What makes each component correct

| component | properties |
| --- | --- |
| uploads | a node never points at missing content; content appears whole, at once, and for good; a completion that fails can be called again; nothing is left behind without a node; staged data is eventually released; a session becomes one node of the right size |
| file content | every row points at its own existing content; nothing is leaked; the bytes billed are the bytes kept, within the quota; the number of versions is bounded |
| node tree | parents and paths describe one tree (while a page takes every subtree); nothing live is below the trash; live siblings have different names; every trashed node is in the trash list once; an operation acts on exactly the subtree it names |
| accounts and sessions | securing an account ends its sessions for good; a login has one usable refresh token and one deadline; nobody reaches the administrator; a deleted account stays deleted |
| share links | the budget holds up to the calls in flight; only live nodes of the share are served; a revoked link stays revoked; a former password stops working |
| access control | what a reader is told is what the rules gave at some moment of its call; a listing agrees with it |
| transactions, audit trail | a transaction is alone; every entry accepted is stored once, in order, before the process ends; nobody waits for ever |

## 2. The modules

    PublishedContent  what an upload promises    FileStore  what files promise    Forest  what the tree promises
          ^ refined by (TLC and TLAPS)                 ^ (TLC and TLAPS)                ^ (TLC and TLAPS)
    UploadSession                                FileContent                      NodeTree
          ^                                            ^                                ^
    UploadSessionProofs                          FileContentProofs                NodeTreeProofs

    AuthSession         ShareLink         AuditTrail         NodeAccess
          ^                   ^                 ^                  ^
    AuthSessionProofs   ShareLinkProofs   AuditTrailProofs   NodeAccessProofs

MaxTheorems holds the lemmas about numbers that four of the proof modules share
(section 5).
Every component module has an `MC...` module that adds the symmetry sets (and
the settings of ShareLink) for TLC. `Ops`, where a module has it, names the operations and faults a
run lets happen; an operation outside it is disabled, nothing else changes.
Operators named `X_word` after an operator `X` are mutants, plausible bugs in
the code of `X`; no specification uses them.

### 2.1 UploadSession

State: `row` (table `uploads`), `part` (`upload_parts`), `staged` and `object`
(sizes of the objects below `uploads/` and `files/`), `committed` (the file
nodes), `queue` (how many `pending_deletions` rows name a session's prefix),
`req` (handler calls in flight), `job` (the maintenance run), `now`.

A handler is a little program. `req[r].pc` names the call it makes next and
`req[r].w` is the row it loaded **outside** its transaction and writes back
later. One action is one atomic step: a transaction, a repository call of its
own, or one call to the object store.

| handler | actions in order |
| --- | --- |
| InitiateUpload (one transaction) | `InitiateResume` / `InitiateReuse` / `InitiateCreate` |
| UploadChunk | `StartChunk`, `PutPart`, (`RemoveMismatch`,) `RecordPart` |
| ConfirmUploadPart | `StartConfirm`, `StatPart`, `RecordPart` |
| a client's presigned PUT | `ClientPut` |
| CompleteUpload | `StartComplete`, `ListParts`, `CopyPart`*, `CommitNode` (`UndoCompose` when refused), `DropParts`, `SweepStaged`, `RetireSession` |
| AbortUpload | `StartAbort`, `AbortSession`, `AbortSweep` |
| expire_uploads | `StartExpire`, then `ExpireRow`, `ExpireParts`, `ExpireQueue` for each row |
| purge_deletions | `StartPurge`, then `PurgePrefix`, `PurgeRow` for each row |
| gc_orphans | `StartGc`, `GcList`, `GcRemove`* |

`Abandon` ends a call between any two steps (the client's context is cancelled,
the process dies), `JobAbandoned` a maintenance run; with `"fault"` a call to
the object store or a repository may fail, with `"refuse"` a transaction is
rolled back, with `"mismatch"` a part arrives with the wrong checksum and is
removed again. A failing removal of a prefix may have removed a part of it, and
the handlers drop the error of an EnqueueDeletion that fails: then nothing is
queued.
PublishedContent is the abstraction: one variable, one action that publishes a
key.

### 2.2 FileContent

State: `node` (key, size, version count, status of the files of an account),
`version` (`node_versions`), `object`, `queue` (keys named by
`pending_deletions`), `used`, calls in flight and the maintenance run. Each
`WithTx` is one action, with everything inside it (`CommitOverwrite` keeps or
releases the old content, trims versions, bills). The put before it (`PutContent`), the
removal after a refusal (`Undo`) and DeleteVersion's enqueue after its
transaction (`EnqueueVersion`) are actions of their own. So are the two halves of a Login,
which reads the account row (`StartLogin`) and later writes all of it back, the
used bytes included (`WriteAccount`); other callers of UpdateUser read the row
in the transaction that writes it. Ids and keys are recycled once
nothing refers to them, so runs are long although the sets are small.

Three histories say where the program itself gives a property up (section 6),
so that the properties can be checked with every operation and fault on:
`restored`, the nodes a version of which was restored (their rows share keys);
`lost`, keys a failure left to nobody; `exact`, no recount, no resized
overwrite and no stale row of a login has moved the counter. FileStore is the abstraction: what a file and
each of its versions read, with no keys, objects or queue. Restoring a version
forfeits the promise for that file.

### 2.3 NodeTree and Forest

State: `row` (the `nodes` table) and `call` (what EmptyTrash, purge_trash or
CopyNodes read before its transaction). Ids are `1..MaxId`, handed out in
ascending order as `NewID` (UUID v7) does. An operation that is one transaction
is one action; a batch is the sequence of its single operations, because the
batch handlers are loops over them in one transaction and a refused batch leaves
nothing. A row keeps its name and what the code stores in `name_lower`: the
lowercase, or where the code calls `foldName` and `case_insensitive_names` is off
the name as it is, while a lookup always asks for the lowercase (`Lower`, `CaseFold`).
A copy starts from any row, the trash included (a holder of `trash_manage` may
read it), under the name the caller chose (NewNames) or the next free one.
Retention is one bit, `old`.
Forest knows parents and the trash only, no paths: it adds nodes under live
places, moves a subtree anywhere but into itself, trashes sets of whole
subtrees, and removes such sets from the trash. The refinement says that
selecting by path prefix is acting on subtrees.

### 2.4 AuthSession

State: `user`, `session`, `call`, `now`, and two history variables: `cut`
(sessions that existed when their account was secured, and those rotated out of
them) and `deleted`. Login is three steps, as in the code: it verifies the row
it read, records the session, and writes **the whole row** back to note the
login time. Every other request works for the copy of its caller's row
(`Authenticate`), however stale that is by the time of its transaction. A role is one more thing that can be
granted. `RevokeOne` is Logout with a refresh token and RevokeSession; Refresh,
the transactions of the managers, and the revocations they make are one action
each. GuestLogin records nothing and has no action.

### 2.5 ShareLink

State: `share`, the `node` table reduced to statuses and paths, `visit` (public
calls between their steps), `access` (access tokens visitors hold), `job` (rows
expire_shares listed), `now`, and the histories `served` (URLs handed out under
the budget a link has), `closed` and `changed` (when the password of a link
became what it is). A public call is `Resolve` (resolve and unlockShare),
`ReadRoot`, then `Enter` (AccessShare, which answers a password with an access
token) or `ReadNode` and `MarkDownloaded` (GetShareDownloadUrl): the link, the
shared node and the node asked for are three reads, and the count comes last.
expire_shares is a list and then one whole-row write for each entry. A token
carries only the link's id; the password an access rests on is history. A call
that gave a password ends before the clock ticks: its token is issued that much
later at most. This is an assumption about how long a call takes, not code.
Create reads the node before its transaction, so a link may be made to a node
that is in the trash or gone by then. Kinds are left out: Download refuses a
folder, the model lets it pass. The share id of a deleted link is never given again, so its
tokens are dropped.

### 2.6 NodeAccess

State: `row` (parent, owner, visibility, password of the folders), `acl`, and
`read`, an Evaluate in flight. `Load`, `Walk`* and `ReadAcl` are FindNodeByID,
the loop of Chain and ListAclForNodes: one query each, outside any transaction,
while CreateFolder, UpdateNode, SetNodeAcl (recursive too), MoveNodes and
PurgeNodes are transactions that check their caller with the chain they read
themselves (`ChainOf`). `EvaluateNodeAccess` is the fold over a chain as the code
writes it; `Rules` is the reference, stated per permission over the ancestors of
the tree at one moment, after `docs/permissions.md` 4. `read.seen` collects what
the rules gave since the node was loaded; no second change lands in one read
(a bound, in `Change`). PurgeNodes takes one page of the subtree, and the
recursive SetNodeAcl writes to some of the folders below, at most a page of them
(status is left out, and only active rows are listed). Names and so the order of
a listing are left out: a page that is too short is any part of the subtree. An
entry is the set of callers it matches with an effect,
permissions and an inherit mark.

### 2.7 AuditTrail

State: where each call and the worker are, `depth` and `left` (calls of WithTx a
handler is inside of and has still to make), `writeMu`, `txn` (who holds the
database's write lock), the channel `entries` and whether it is `closed`, the
worker's `batch`, the `log`, and `main`. `WithTx` joins the transaction its
context carries, or waits (`Lock`, `BeginTx`); `EndTx` commits or rolls back;
`Panic` leaves the mutex by defer but the transaction open until `ContextDone`.
`Return` runs the middleware, which leaves the entry or drops it when the
channel is full; `Receive`, `Drain`, `Insert` are the worker; `Stop`, `Close`,
`Exit` the shutdown of `main` and wireApp's cleanup, with servers whose stop may
time out (`"stopTimeout"`). What a transaction writes is in the other modules.

## 3. What the runs show

Times are with two workers. Every property of a passing run has a mutant
of the code (`PROJECT.json`, "mutants") that violates it under the same
configuration. `CHECK_DEADLOCK FALSE` everywhere: clocks, ids and keys are
bounded and a server with nothing to do is a legal state.

| run | distinct states | properties |
| --- | --- | --- |
| `upload_maintenance` | 527,256 | RetryPossible, ContentExists, PublishesAtomically |
| `upload_sequential` | 425,116 | TypeOK, OneNodePerSession, SizeIsContent |
| `upload_liveness` | 407,068 | NoOrphanContent, DeletedIsSwept, QueueDrains |
| `content` | 617,562 | TypeOK, RowsMatchContent, KeyOwnedOnce, VersionsBounded, NothingLeaked, UsageIsContent, ContentWithinQuota, FilesKeepContent |
| `content_restore_loses` | violated | RowsHaveContent |
| `tree_structure` | 121,336 | TypeOK, ActiveUnderActive, PathsImplementTree |
| `tree_copies` | 411,169 | NamesUnique, TrashListed, PathsFollowParents |
| `tree_purge_trash` | violated | ExpiredTrashPurgeable |
| `auth_sessions` | 592,946 | TypeOK, RevocationHolds, OneTokenPerLogin, RotationKeepsDeadline, DeletedStaysDeleted, BelowAdmin |
| `share_links` | 925,501 | TypeOK, BudgetHeld, InsideShare, RevokedStaysRevoked, ForgottenPassword |
| `node_access` | 211,604 | TypeOK, AnswersAreTrue, ListingExact |
| `audit_trail` | 159,894 | OneWriter, TrailExact, NobodyWaitsForever |

* `upload_maintenance`: two calls race on one session, two completions with an
  object each included, are cut short or refused, the backend fails half way,
  clients write through presigned URLs and purge_deletions works off what the
  failures queued: no node ever points at missing content, every key is
  published at most once and whole, and until a node is committed the session
  keeps its row and the bytes of its parts, so that the completion can be called
  again. Aborts, expiry, gc_orphans and wrong checksums give parts up by design;
  RetryPossible promises the row only when they happen, and they are in
  `upload_sequential` and, but for aborts, in `upload_liveness`.
* `upload_sequential`: one call at a time, with maintenance in between, empty files and
  two-part files: a session becomes at most one node, of the size of its object.
  With concurrent calls neither holds (section 6).
* `upload_liveness`: two calls, refused transactions, no other faults. No assembled
  object is left without a node; under the fairness of section 4 the deletion
  queue drains; and *if gc_orphans is requested again and again*, what was
  staged for a session that is gone is eventually released, late writes
  included. The condition is part of DeletedIsSwept: gc_orphans is neither a
  default task nor in the documented cron, and a chunk that lands after its
  session is gone is released by nothing else (section 6).
* `content`: two uploads, overwrites with trimming, restored and deleted
  versions, copies, trash and purge race with purge_deletions, recounts and a
  login that writes the account row back, are refused, cut short and fail. The rows of every file of which no version was
  restored point at their own existing content; what a file and its versions
  read changes only by an operation on that very file (the refinement of
  FileStore); no object is forgotten but by a failure that `lost` names; the
  bill is the bytes of the nodes and the quota holds up to what `exact` excludes.
* `content_restore_loses`: with RestoreVersion the first of these is not true of
  every node (section 6).
* `tree_structure`: every tree operation but copies, on trashed nodes too, and
  both bulk purges acting on lists read earlier. The refinement of Forest is
  checked here.
* `tree_copies`: copies of subtrees, out of the trash and under chosen names
  too, among renames, moves, deletes and restores, with two names that differ in
  case only and `case_insensitive_names` on: live siblings differ in more than
  case, and the trash list is exact. What these properties need is part of each
  (`WholePages`, `FreshTargets`, `FoldsAlike`, `OrderlyTrash`, `TrashLeftAlone`);
  section 6 says what the code does otherwise. `tree_structure` has no copies.
* `tree_purge_trash`: when purge_trash meets a trashed folder before something
  in it, the content is gone with the folder and the whole run rolls back
  (section 6).
* `auth_sessions`: two requests at a time, two managers below the seeded
  administrator raising, demoting, disabling and deleting each other on stale
  authority while somebody logs in and refreshes.
* `share_links`: two visitors, two nodes, one link with a budget that is deleted and created
  anew with other settings and passwords, every owner operation, moves, trash
  and purges, access tokens that outlive a password, and expire_shares with its
  stale rows.
* `node_access`: one read at a time, by a guest account or an anonymous caller, of
  a tree of three folders, while its owner and a guest with a granted
  `acl_manage` change it. Every subtree fits a page here (`WholePages`, a
  condition the properties state): with a `PageSize` of 1 folders stay behind
  below a parent that is gone, as they do in the code beyond 50 rows. A chain put together from
  several moments still gives an answer that was right at one of them when one
  change lands in the read. Two changes can break this (section 6), so no second
  change lands in one read.
* `audit_trail`: three calls with nested transactions, refusals and panics, a
  channel for one entry and batches of two, and a shutdown that may not wait for
  the calls. TrailExact is InOrderOnce (stored, batched and queued entries are
  the recorded ones, once and in order, less the batches whose insert failed)
  and nothing left in memory at the exit (FlushedAtExit); NobodyWaitsForever says
  that calls end and that a shutdown ends.

### Bounds, and why they are enough

| module | bounds | why |
| --- | --- | --- |
| UploadSession | one session, two calls (one in `upload_sequential`), two keys, parts 1..2 (1 with two calls), sizes 0..2, clock 0..2, at most 1 (`upload_maintenance`: 2, liveness: 4) queued deletions | every hazard is between two calls, or one call and one job, on one session; sessions share nothing but the destination folder. Two keys let two completions both assemble an object; a completion that finds no key unused waits, which NewID never does. Two parts give a full part and a remainder; one tick before, at and after the expiry are reachable |
| FileContent | two nodes, four keys, two calls, one login, sizes 1..2, quota 2, `MaxVersions` 1, version numbers to 2 (`MaxNumber` is a guard of CommitOverwrite and RestoreVersion), a login reads a counter up to 1 (`MaxUsed`) | one more overwrite than versions are kept; a number is free again when the highest version is deleted; two files of size 1 fill the quota, and a counter of 0 or 1 read before them is stale enough to break it; recycled ids and keys make histories long |
| NodeTree | 3-4 ids, 2 names (in `tree_copies` of different case), depth 2-4, page 50 | a folder in a folder with a file in it; a copy of a folder with a child needs 4 ids. A copy's target is loaded only while an id is left |
| AuthSession | three accounts, one of them built in, two sessions, two calls, ranks 0..3, clock 0..1, lifetime 1, one password, one bit besides the role, one account that logs in | two managers can raise each other; a login and its rotation; the proofs lift all of these |
| ShareLink | one link, two visitors, two nodes, budget 1, count to 3, two passwords, one access token held at a time (`MaxAccess`), token lifetime 2, clock 0..1, the three settings of MCShareLink, all with a budget | links share nothing; a link without a budget differs from these only in what BudgetHeld says nothing about, and the proofs cover it; two visitors overshoot the budget; a node moves out of a folder and back; a second token adds nothing to what one opens, and visitors may drop the one they hold. `MaxCount` is a guard of MarkDownloaded |
| NodeAccess | three folders, page 50, depth 2, three accounts (an owner, a guest with rights, an administrator narrowed to reading) and the anonymous caller, two settings, two entries, at most one entry per folder, one read, one change in it | the longest chain is grandparent, parent, child; an entry is inherited or not, allows or denies; the evaluation itself is compared with the rules on every reachable tree by ListingExact and AnswersAreTrue |
| AuditTrail | three calls with two WithTx each, buffer 1, batch 2 | a full channel, a full batch, a batch that is not full, and a nested transaction all occur; one call waits while one holds the mutex and one records |

One maintenance run is in flight at a time (the two models that have one); two
concurrent runs of one task are planned. Symmetry is used in runs without liveness
properties only, on sets no operator distinguishes.

## 4. Fairness

Two runs assume any.

`upload_liveness`: weak fairness of every step of a handler and
of a maintenance run in flight: the Go scheduler runs a goroutine on, and this
run has no abandoned calls and no faults. Strong fairness of the starts of
expire_uploads and purge_deletions: nothing in the program schedules them, but
both are default tasks (`docs/deployment.md` 426) and in the cron the
documentation gives (466), which requests them infinitely often. Of gc_orphans
nothing is assumed, since neither of the two requests it: DeletedIsSwept speaks
of deployments that do, and has that as its hypothesis. Nothing is assumed of
clients: no fairness on starting calls, on chunks or on completing.

`audit_trail`: weak fairness of the steps of a call that has arrived, of the
worker and of the process's exit; strong fairness of `Lock` for each goroutine,
since `sync.Mutex` hands itself to a goroutine that has waited a millisecond.
Nobody has to call, to fail, to panic or to stop the process. That a killed
process loses its channel and its batch needs no model.

## 5. What is proved

Every safety property and every refinement that a passing run checks is a
theorem, for every value of the constants: any number of sessions, files, nodes,
accounts, links, folders, calls and visitors. The assumption on the constants is
the `ASSUME` of the module, which TLC evaluates in every run; a theorem with a
further hypothesis states it, and section 6 says what the code does without it.
Each module has an inductive invariant, one lemma per action (or per way its
tables change), and for each further property the strengthening of it.

The proof system cannot instantiate the library's induction theorems and has no
rule for recursive functions. Where a proof needs either, it goes through
MaxTheorems (76 obligations): a finite set of numbers has a greatest
element (`MaxExists`) and every set of naturals a least one (`LeastExists`), from
the well-foundedness of strict inclusion, and what holds of 0 and passes from a
number to the next holds up to any number (`CountingUp`), by the least
counterexample. A recursive function is then taken as the function its definition
chooses, which exists by counting up (`SumsExist`, `GenerationsExist`,
`TurnsExist`), and equations carry it from there.

### UploadSessionProofs (2775 obligations)

| theorem | statement |
| --- | --- |
| `TypeCorrect` | `Spec => []TypeOK` |
| `UploadsCanBeRetried` | `Spec => []RetryPossible` |
| `ContentAlwaysExists` | `Spec => []ContentExists` |
| `UploadsPublishAtomically` | `Spec => PublishesAtomically`, the refinement |
| `NothingOrphaned` | `Spec => []NoOrphanContent`, if `Ops` has neither `"fault"` nor `"abandon"` |
| `OneNodeEach` | `Spec => []OneNodePerSession`, if there is one call at a time (`OneCall`) and none is abandoned |
| `NodeSizes` | `Spec => []SizeIsContent`, under the same two and without presigned writes |

Assumption: `UploadConstants` (sizes are naturals, chunks positive, at least one
part, `None` is no session or key).

ContentExists is not inductive: `CommitNode` publishes the key a handler holds,
so one must know that the handler has assembled an object (`Assembled`), that no
other handler holds or undoes that key and no node has it (`KeyHeldOnce`), that
a call between steps has a session, a part in range and a key (`RequestBound`),
that a session has at least one part, without which an object would be assembled
from nothing (`RowsHaveParts`), and that a maintenance run only dequeues what is
queued (`JobBound`, needed for `queue` to stay a natural number). `IInv` is
their conjunction. The step proof has one lemma per action. The refinement
shows that every action but CommitNode leaves every visible key alone
(`InvisibleStep`), and that CommitNode publishes exactly one (`PublishingStep`).
UploadsCanBeRetried follows what takes a session's row or parts away: a
completion that has committed, or a maintenance run over a prefix that was
queued by one (`RetryInv`), so that nothing of a session without a node is ever
queued while nothing else gives its parts up.
NothingOrphaned follows the object from the handler that assembles it, which can
only commit it or remove it (`Deciding`), to its node. OneNodeEach needs that a
session that has its node is deleted or about to be retired by the only call
there is (`Retiring`).

SizeIsContent relates three things that change apart: the part rows, whose sum
the node is created with, the staged parts, which are copied one by one, and the
object that grows. Its invariant `SizeInv` says that a staged part has the size
its row records unless it is being written again (`PartsAsRecorded`), that what
CompleteUpload has copied and what it has still to copy add up to the size it
read, as long as no part is gone (`CallSizes`; a part that maintenance takes away
ends the call), and that a file without bytes has one part at most
(`EmptyFiles`). `SumOf` is a recursive function: `SumTail` splits a sum at the part
copied next.

### AuthSessionProofs (568 obligations)

| theorem | statement |
| --- | --- |
| `AuthTypes` | `Spec => []TypeOK` |
| `RevocationIsFinal` | `Spec => []RevocationHolds` |
| `LoginsDoNotMultiply` | `Spec => []OneTokenPerLogin` |
| `AdminStaysOnTop` | `Spec => []BelowAdmin` |
| `DeletionIsFinal` | `Spec => []DeletedStaysDeleted` |
| `RotationNeverExtends` | `Spec => []RotationKeepsDeadline` |

Assumption: `AuthConstants` (built-in accounts are accounts, `UserManage` is a
grant, ranks and lifetimes are positive).

`Usable` depends on the clock, so the properties are proved from stronger ones
that do not: sessions in `cut` are *revoked* (`CutRevoked`), and of two sessions
of a login one is *revoked* (`OneUnrevoked`). BelowAdmin needs that the copies
of account rows that requests carry are below the administrator as well
(`CopiesBelow`): a stale copy is all a decision is based on, and Login writes
one back. RotationKeepsDeadline needs that the first session of a login is never
deleted (`LoginRecorded`). The sessions table changes in three ways only (rows
are revoked, a login adds one, a refresh replaces one), and the lemmas are about
these three rather than about each action.

### ShareLinkProofs (927 obligations)

| theorem | statement |
| --- | --- |
| `ShareTypes` | `Spec => []TypeOK` |
| `GrantsStayInside` | `Spec => []InsideShare` |
| `RevocationLasts` | `Spec => []RevokedStaysRevoked` |
| `OldPasswordsFade` | `Spec => []ForgottenPassword` |
| `BudgetHolds` | `Spec => []BudgetHeld` |

Assumption: `ShareConstants`, which has finitely many visitors: the calls the
server has in flight. TypeOK is not typing alone: every path ends in its
own node, through every move, which needs the path of a node below a moved one
to be longer than the prefix that is replaced. InsideShare needs that the path
read for the shared node ends in that node (`Roots`): a live node whose
path continues it then has the shared node among its ancestors, whatever moved
since. RevokedStaysRevoked needs that a link in `closed` is revoked *or* expired
by the stale rows of expire_shares. ForgottenPassword needs the same of the calls in flight: one that resolved
with a password the link has no longer carries an access no longer than
AccessTTL after the change. BudgetHeld bounds what was served; the call that
breaks a budget is one that passed Resolve long before, so `Budgets` counts
both: what was served under the present budget and the calls that have passed
Resolve and are not answered (`Pending`) stay below the budget plus the calls
served at a time, and what was served is never more than the counter a Resolve
looks at. The stale rows of expire_shares carry neither.

### AuditTrailProofs (665 obligations)

| theorem | statement |
| --- | --- |
| `AuditTypes` | `Spec => []TypeOK` |
| `TransactionsAlone` | `Spec => []OneWriter` |
| `ShutdownFlushes` | a process that has exited has an empty channel and batch |
| `TrailIsExact` | `Spec => []TrailExact` |

Assumption: `AuditConstants`. OneWriter is not inductive: it needs that a
goroutine about to begin holds the mutex, that a call inside a transaction is
nowhere but in its handler, and that a transaction whose call is gone belongs to
an ended call (a panic), which the next writer waits for. TrailExact needs that
whoever has recorded has ended, so that nobody records twice, and that what
failed was recorded (`Ordered`): log, batch and channel in a row are then what was
recorded less what failed, each entry once and in order, while entries wander
from one to the next, and a failed batch is cut out of the middle.

### FileContentProofs (2281 obligations)

| theorem | statement |
| --- | --- |
| `ContentTypes` | `Spec => []TypeOK` |
| `KeysBelongToOneRow` | `Spec => []KeyOwnedOnce` |
| `ContentIsThere` | `Spec => []RowsMatchContent` |
| `NothingForgotten` | `Spec => []NothingLeaked` |
| `VersionsStayBounded` | `Spec => []VersionsBounded` |
| `BilledAsStored` | `Spec => []UsageIsContent` |
| `QuotaHolds` | `Spec => []ContentWithinQuota` |
| `FilesImplementStore` | `Spec => FilesKeepContent`, the refinement |

Assumption: `ContentConstants`. RowsMatchContent is not inductive: a purge run
removes whatever it listed, a refused call whatever it put. `IInv` says who may
hold a key: a handler that commits or undoes is the only one who knows its key
(`Writers`); two rows share a key only if their file had a version restored
(`Owned`); a key that is queued or in a handler's hands belongs to no row of
any other file (`Held`); a run works off keys that are still queued, and has
released the one whose row it deletes next (`JobTypes`). Of restored files only
the weaker half of `Matches` is left: their content has the size of the row
*or is gone*. VersionsBounded needs that version numbers of a file differ, which
rests on `NextNumber` being above all of them. The bill is a number of bytes:
`Bytes` is the set of the bytes of the live files, its cardinality what they are
billed, and adding, resizing and removing a file are facts about cardinalities.
Billing needs, besides the counter, that a version has the size of its file as
long as `exact` holds (`Billing`): a restored version then moves nothing. The
refinement reads
the abstract store from the sizes in the rows (`Reads`, `Retains`), which
RowsMatchContent makes equal to what the objects hold, and then needs no key at all:
every action touches the rows of one file (`OtherFiles`) or of none.

### NodeTreeProofs (3777 obligations)

| theorem | statement |
| --- | --- |
| `TreeInvariance` | `Spec => []SoundTree`: `IInv`, under `WholePages` and `FreshTargets` |
| `TreeTypes` | `Spec => []TypeOK`, under the same two |
| `PathsAreParents` | `Spec => []PathsFollowParents` |
| `NothingLiveInTrash` | `Spec => []ActiveUnderActive` |
| `TableImplementsForest` | `Spec => PathsImplementTree`, the refinement, under the same two |
| `SiblingNames` | `Spec => []NamesUnique` |
| `TrashListCovers` | `Spec => []TrashListed` |

Assumption: `TreeConstants`. The conditions are part of the properties: a page
holds every row of a subtree (`WholePages`); the target of a copy has not moved
since it was loaded (`FreshTargets`); and, for NamesUnique, every stored name is
the lowercase that lookups ask for (`FoldsAlike`) and no folder is trashed over
entries of the trash and no entry of it edited (`OrderlyTrash`); for TrashListed,
nothing in the trash is deleted or edited a second time (`TrashLeftAlone`).

PathsFollowParents speaks of a node and its parent;
a move rewrites every path below one node at once, so the invariant speaks of
whole paths: the path of a node ends in it, and every element of it is there, a
folder, and has the same path up to itself (`Tidy`, made of `Lineage`).
ActiveUnderActive is likewise extended to everything above a node (`Live`). From
`Tidy` follows that selecting by path prefix selects the nodes that have the top
in their path (`SubtreeIs`). A move and a copy then share one lemma,
`GraftedLineage`: rows of a subtree put below another place, under the ids a
function gives them (the same for a move, fresh ones for a copy), have a lineage
there. That a copy's ids are fresh and differ rests on ids handed out in
ascending order (`NextIdFresh`, `CopyIdsNew`); that a batch of permanent deletes
removes whole subtrees, in whatever order they are listed, on
`RemovedIsSubtrees`.

For Forest, each operation is one of four changes of the table: rows are added
below a live place (`Adds`), one top gets another parent, a set of subtrees
changes its status (`Turns`), or a set of trashed subtrees goes (`Removes`);
each of them is an action of Forest. NamesUnique says nothing about the trash,
but a restore brings a whole subtree back: `SiblingsDiffer` keeps the names of
siblings apart in the trash too, when their parent was trashed with them. It
speaks of stored names, and `Folded` says that these are the lowercase; the names
a copy gives to what it copies differ because those of the originals did
(`CopiedNamesDiffer`).
TrashListed likewise needs that what was trashed together has one original parent, and
that the top was under it (`Grouped`).

### NodeAccessProofs (1903 obligations)

| theorem | statement |
| --- | --- |
| `AccessTypes` | `Spec => []TypeOK`, under `WholePages` |
| `EvaluatesToRules` | EvaluateNodeAccess on the whole chain of any tree is `Rules`, for any entries, caller and token |
| `AnswersHold` | `Spec => []AnswersAreTrue`, under `WholePages` and `WholeChains` |
| `ListingsAgree` | `Spec => []ListingExact`, under the same two |

Assumption: `AccessConstants`, which has finitely many folders. `WholePages`
says that there are no more of them than a page lists, so that a purge takes its
whole subtree (`PageIsWhole`). `WholeChains`
says that no folder lies deeper than a reader climbs: no moves, or no more folders than
`MaxDepth + 1`, the length of the longest chain Chain loads. CreateFolder keeps
to the limit, while MoveNodes compares only the depth of the moved folder with
it (section 6).

`Line` is a recursive function; `LineLeast` proves what it is: the least set with
the folder in it that holds the parent of each of its members (each generation
adds a folder or none will, and there are only so many). From then on lines are
compared as least closed sets. The tables stay a tree (`Tree`: no folder is above
itself; `TreeMoves` is the case that could break it). A chain a reader has
collected is a piece of the line of its folder without repetition (`ChainIsLine`), so a loop that
ends has reached the top, and on a whole chain the fold of EvaluateNodeAccess
gives exactly what the rules give (`EvaluatesToRules`). The invariant of a read in flight
(`Truthful`) is that there is a tree of one moment of the call that its chain is a piece of,
whose remaining upper part the table still holds, and whose rules are among those
seen (`Follows`): a change to a folder already read leaves the tree before it, any
other change leaves the tree after it, for which the proof needs that the two
parts of a line are disjoint. With a second change neither tree would do.
ListingsAgree shows that the chain of the listed folder with the child appended is
the child's own chain.

### Only model-checked

Liveness, which the proof system does not cover: DeletedIsSwept, QueueDrains and
NobodyWaitsForever. The two expected violations are TLC's as well.

## 6. Where code and documentation disagree

Shown by a run:

* `content_restore_loses`: RestoreVersion gives the node the key of the version
  and keeps the version (`biz/file.go` 1118). Deleting or trimming the version
  then removes the content the node points at, against `docs/architecture.md`
  131 (the content a row points at always exists) and 220 (a key belongs to one
  node or one version).
* `tree_purge_trash`: purge_trash lists every expired row and purges them in one
  transaction; a folder takes its content along, and when the list has some of
  it further down, that row is not found any more and the run rolls back
  (`biz/system.go` 507), so that nothing is purged, against
  `docs/deployment.md` 435. It depends on the order of the list; EmptyTrash
  avoids this and says why (`biz/node.go` 1166).

Met while modelling, each excluded from a passing run by a gate named here:

* Two concurrent CompleteUpload calls commit two nodes for one session: the
  session is loaded before and deleted after the transaction that creates the
  node, although the comment at `biz/file.go` 572-573 speaks of one transaction.
  (`OneNodePerSession` with two `Requests` and `"complete"` in `Ops` shows it.)
* A chunk written again while its upload completes, or written through its
  presigned URL after its row was recorded, makes the size of the node
  differ from its object (`biz/file.go` 594; SizeIsContent with two `Requests`,
  or with `"presign"` in `Ops`, shows it); UploadChunk writes back an open
  status over an abort (474), or over an expiry whose prefix is queued already;
  a part sent again with the wrong checksum takes the recorded bytes with it
  (466-470).
* gc_orphans may remove parts of a session initiated after its list of live
  sessions (`biz/system.go` 429), although the comment at 393-395 and
  `docs/deployment.md` 430 say that uploads in flight keep theirs. And only
  gc_orphans releases a chunk that lands after its session is gone: neither the
  default tasks (426) nor the documented cron (466) request it.
* Objects left behind: a failing removal after a refused transaction
  (`biz/file.go` 643), a rolled-back CopyNodes (1303), an overwrite with
  `keep_versions` off (735).
* Billing: an overwrite is billed the difference after the size was assigned,
  zero (736, 746); recount_usage ignores trashed files that are still billed
  (`data/user.go` 271); RestoreVersion adds a version that is not counted
  (`biz/file.go` 1104); a login that read the account before an upload or a
  purge was billed writes the old counter back (`biz/auth.go` 181-184,
  `data/user.go` 124), after which the quota check admits content beyond the
  quota until a recount. The quota itself is in the same row.
* Names: with `case_insensitive_names` off, `foldName` stores the name of a new
  folder, and of anything renamed, moved or restored under a new name, as it is
  (`biz/node.go` 1564-1569) and the lookup asks for the lowercase
  (`data/node.go` 101-107), so an equal name with a capital is not found and two
  live entries share it, against `docs/architecture.md` 5.3 (`FoldsAlike`; with
  `CaseFold = FALSE` and the condition dropped, NamesUnique fails).
* Tree (gates `mixedTrash`, `trashAgain`, `editTrashed`, `staleTarget`, small
  `PageSize`): restoring a folder revives entries trashed before it, possibly
  with the name of a live sibling (`biz/node.go` 943); deleting or moving an
  entry that is in the trash already hides it from the trash list; PurgeNodes
  reads one page of 50 rows of a subtree (1013) and leaves the rest as orphans, and so do the chains that NodeAccess
  reads: they end at the gap; a recursive SetNodeAcl reaches one page as well
  (1248);
  CopyNodes copies below a target that was trashed or moved since it was loaded
  (`biz/file.go` 1294); descendants of a moved folder may exceed the depth limit
  (`biz/node.go` 764).
* Login writes back the whole account row it read (`biz/auth.go` 181), which
  undoes a deletion, a disabling, a new password or a changed counter made in
  between, and its session is opened after the revocation that came with them.
  `deleted`, `cut` and `exact` let exactly these cases through, so no property
  catches them: the hazards say so.
* Listings (`biz/node.go` 299) evaluate a child with the chain of the listed
  folder but the access entries of the child only: denials and inherited
  entries above it are ignored, against `docs/permissions.md` 4, steps 5 and 6;
  a recursive listing uses the chain of the folder it started from for every
  depth. ListingExact is about children below folders without entries.
* Chain stops quietly at `maxDepth` rows and at a parent that is gone, and mixes
  moments: with two changes in one read an answer can be one the rules never
  gave (a folder is opened at the top before it is closed below).
* UnlockNode verifies the outermost protected folder whichever one it is asked
  for (`docs/permissions.md` 5 has it walk inwards), and a node token opens a
  folder for its thirty minutes although the folder's password was changed.
* The auditor sits outside the authentication middleware and reads the caller
  from the outer context, so the actor of an entry is never recorded
  (`internal/server/http.go` 39-41); the gRPC server and the raw chunk route have no
  auditor; a call whose handler panics is not audited, and neither is one whose
  reply comes after Close, which panics in turn.
* Logout with a refresh token looks the session up before its transaction: a
  refresh in between leaves the rotated token usable (`biz/auth.go` 310).
* The download budget of a link is exceeded by up to one less than the calls in
  flight (`service/share.go` 288; BudgetHeld states this bound), expire_shares
  overwrites what an owner renewed in between, the password included
  (`biz/system.go` 469), and an access token outlives a change of the link's
  password (ForgottenPassword states for how long).

## 7. What is not modelled

* Names beyond equality and case, MIME types, tags, search, listings but their access,
  statistics, settings: no property here depends on them.
* Several processes on one database: the write mutex is per process, and the
  documentation supports one instance (`docs/deployment.md` 2.2).
* UnlockNode, the views of share links and their listings, GuestLogin and
  UpdateSelf: nothing that a property here tells apart is changed by them.
* Presigned downloads, the S3 protocol, the HMAC over a URL and the other
  cryptographic helpers: pure functions of data, or another program.
* Transports and services: they decode, call one use case and encode. The
  handlers with an order of their own are in ShareLink, the auditor in AuditTrail.
* The frontend: a client. Any order of calls is allowed in the models, so
  what it does towards the server is covered; its own state is not.
* Generated code. The repository has about 88,000 lines of Go outside tests, of
  which about 68,000 are generated (`internal/data/ent`, `api/**/*.pb.go`,
  `internal/conf/conf.pb.go`, `wire_gen.go`). The definitions here stand for
  some 4,000 of the remaining 20,000; the others are conversion, routing,
  listing and storage-protocol code, so most of the repository stays outside
  by its nature.

## 8. Plan

Done: UploadSession with PublishedContent, FileContent with FileStore, NodeTree
with Forest, AuthSession, ShareLink with passwords and access tokens, NodeAccess
and AuditTrail, and proofs of every safety property and every refinement their
passing runs check.

Next, most important first:

1. AnswersHold for what two changes can do: the answer is what the rules gave
   for a chain put together from the moments of the call.
2. An abstract ledger for the bill: what a successful call adds and takes, with
   the two exceptions of `exact` as actions of it.
3. UnlockNode and node tokens as a component of their own, with the walk of
   `docs/permissions.md` 5 as the reference.
4. A second maintenance run in flight, and liveness of the deletion queue with
   content keys in it (FileContent).
