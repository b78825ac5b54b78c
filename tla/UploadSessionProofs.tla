-------------------------- MODULE UploadSessionProofs --------------------------
(* Proofs about UploadSession for every value of its constants.             *)
EXTENDS UploadSession, MaxTheorems, TLAPS

\* A stored session has at least one part, so has the row a request works on.
RowsHaveParts ==
    /\ \A u \in Uploads : row[u].status \in Stored => row[u].total >= 1
    /\ \A r \in Requests : req[r].pc # "idle" => req[r].w.total >= 1
    /\ job.pc \in {"expire", "expireParts", "expireQueue"} =>
          \A u \in Uploads : <<u, 0>> \in job.todo => job.rows[u].total >= 1

\* A request in flight has the session, part and key its next call needs.
RequestBound ==
    \A r \in Requests :
        /\ req[r].pc # "idle" => req[r].u \in Uploads
        /\ req[r].pc \in {"put", "mismatch", "stat", "record", "copy"} => req[r].n \in PartNo
        /\ req[r].pc = "copy" => req[r].w.total <= MaxParts
        /\ req[r].pc \in {"copy", "commit", "undo"} => req[r].key \in Keys

\* A request about to commit has assembled its object.
Assembled == \A r \in Requests : req[r].pc = "commit" => object[req[r].key] # Absent

\* The row a purge is about to delete is still queued: only the run in flight dequeues.
JobBound ==
    /\ job.pc \in {"expireParts", "expireQueue", "purgeRow"} => job.u \in Uploads
    /\ job.pc \in {"purge", "purgeRow"} =>
          \A u \in Uploads : <<u, 0>> \in job.todo => queue[u] >= 1
    /\ job.pc = "purgeRow" => queue[job.u] >= 1 /\ <<job.u, 0>> \notin job.todo

IInv ==
    /\ TypeOK
    /\ RowsHaveParts
    /\ RequestBound
    /\ JobBound
    /\ KeyHeldOnce
    /\ Assembled
    /\ ContentExists

-----------------------------------------------------------------------------
(* Types of the values the handlers build.                                  *)

\* Integer division rounds up to at least one part.
LEMMA TotalPartsPositive ==
    ASSUME NEW size \in Nat, NEW chunk \in Nat \ {0}
    PROVE  TotalParts(size, chunk) \in Nat \ {0}
<1>1. CASE size = 0
  BY <1>1 DEF TotalParts
<1>2. CASE size # 0
  <2> DEFINE q == (size + chunk - 1) \div chunk
  <2>1. q \in Int OBVIOUS
  <2>2. q >= 1 BY <1>2
  <2> QED BY <1>2, <2>1, <2>2 DEF TotalParts
<1> QED BY <1>1, <1>2

\* The row InitiateUpload writes is a row of its type, with at least one part.
LEMMA ShapeType ==
    ASSUME NEW s \in Shapes
    PROVE  s.size \in Nat /\ s.chunk \in Nat \ {0} /\ TotalParts(s.size, s.chunk) \in Nat \ {0}
<1>1. s.size \in Nat /\ s.chunk \in Nat \ {0}
  BY UploadConstants DEF Shapes
<1> QED BY <1>1, TotalPartsPositive

\* Part sizes are natural numbers.
LEMMA PartSizeType == PartSizes \subseteq Nat
BY UploadConstants DEF PartSizes

\* An absent and a deleted session are rows of their type.
LEMMA NoRowType == NoRow \in Row /\ [NoRow EXCEPT !.status = "deleted"] \in Row
BY DEF NoRow, Row, Status, Stored, Open

\* The idle request slot (no handler call) is of its type.
LEMMA IdleReqType == IdleReq \in ReqState
BY NoRowType DEF IdleReq, ReqState, ReqPc

\* The idle maintenance run is of its type.
LEMMA IdleJobType == IdleJob \in JobState
BY NoRowType DEF IdleJob, JobState, JobPc, NoRows

\* A session without parts is a part table of its type.
LEMMA NoPartsType == NoParts \in [PartNo -> Nat \cup {Absent}]
BY DEF NoParts

\* A handler that moves on to its next step stays of its type.
LEMMA GotoType ==
    ASSUME req \in [Requests -> ReqState], NEW r \in Requests, NEW pc \in ReqPc, Goto(r, pc)
    PROVE  req' \in [Requests -> ReqState]
BY DEF Goto, ReqState

\* A handler that ends leaves the request slots of their type.
LEMMA DoneType ==
    ASSUME req \in [Requests -> ReqState], NEW r \in Requests, Done(r)
    PROVE  req' \in [Requests -> ReqState]
BY IdleReqType DEF Done

-----------------------------------------------------------------------------
(* Frames: what a step leaves alone stays invariant.                        *)

Holding == {"copy", "commit", "undo"}

\* A step that changes no object and no node, and gives no request a key, keeps the
\* facts about keys and content.
LEMMA KeysFrame ==
    ASSUME IInv, UNCHANGED <<object, committed>>,
           \A r \in Requests :
              /\ req'[r].key \in {None, req[r].key}
              /\ req'[r].pc \in Holding => req[r].pc \in Holding /\ req'[r].key = req[r].key
              /\ req'[r].pc = "commit" => req[r].pc = "commit"
    PROVE  KeyHeldOnce' /\ Assembled' /\ ContentExists'
<1>1. CommittedKeys' = CommittedKeys
  BY DEF CommittedKeys
<1>2. KeyHeldOnce'
  BY <1>1 DEF IInv, KeyHeldOnce, Holding
<1>3. Assembled'
  BY DEF IInv, Assembled, Holding
<1>4. ContentExists'
  BY DEF IInv, ContentExists
<1> QED BY <1>2, <1>3, <1>4

\* Moving on within a handler that holds no key, or ending it, is such a step.
LEMMA GotoKeys ==
    ASSUME IInv, UNCHANGED <<object, committed>>, NEW r \in Requests, NEW pc \in ReqPc \ Holding,
           Goto(r, pc)
    PROVE  KeyHeldOnce' /\ Assembled' /\ ContentExists'
<1>1. req \in [Requests -> ReqState]
  BY DEF IInv, TypeOK
<1>2. \A s \in Requests : req'[s].key = req[s].key /\ (req'[s].pc = req[s].pc \/ req'[s].pc = pc)
  BY <1>1 DEF Goto, ReqState
<1> QED BY <1>2, KeysFrame DEF Holding

\* A handler that ends gives up its key and leaves the others theirs.
LEMMA DoneKeys ==
    ASSUME IInv, UNCHANGED <<object, committed>>, NEW r \in Requests, Done(r)
    PROVE  KeyHeldOnce' /\ Assembled' /\ ContentExists'
<1>1. req \in [Requests -> ReqState]
  BY DEF IInv, TypeOK
<1>2. \A s \in Requests : req'[s] = req[s] \/ req'[s] = IdleReq
  BY <1>1 DEF Done
<1> QED BY <1>2, KeysFrame DEF Holding, IdleReq

\* A step that leaves the requests alone.
LEMMA IdleKeys ==
    ASSUME IInv, UNCHANGED <<object, committed, req>>
    PROVE  KeyHeldOnce' /\ Assembled' /\ ContentExists' /\ RequestBound'
<1>1. RequestBound'
  BY DEF IInv, RequestBound
<1> QED BY <1>1, KeysFrame

\* The job keeps its bounds when it does not move and the queue does not shrink.
LEMMA JobFrame ==
    ASSUME IInv, UNCHANGED job, queue' \in [Uploads -> Nat],
           \A u \in Uploads : queue'[u] >= queue[u]
    PROVE  JobBound'
<1>1. queue \in [Uploads -> Nat]
  BY DEF IInv, TypeOK
<1> QED BY <1>1 DEF IInv, JobBound

\* Ending a handler, or moving it on without a part or a key, keeps RequestBound.
LEMMA DoneBound ==
    ASSUME IInv, NEW r \in Requests, Done(r)
    PROVE  RequestBound'
<1>1. req \in [Requests -> ReqState]
  BY DEF IInv, TypeOK
<1>2. \A s \in Requests : req'[s] = req[s] \/ req'[s] = IdleReq
  BY <1>1 DEF Done
<1> QED BY <1>2 DEF IInv, RequestBound, IdleReq

\* A handler that moves on without a part or a key keeps RequestBound.
LEMMA GotoBound ==
    ASSUME IInv, NEW r \in Requests, req[r].pc # "idle", NEW pc \in ReqPc, Goto(r, pc),
           pc \in {"put", "mismatch", "stat", "record", "copy"} => req[r].n \in PartNo,
           pc = "copy" => req[r].w.total <= MaxParts,
           pc \in Holding => req[r].key \in Keys
    PROVE  RequestBound'
<1>1. req \in [Requests -> ReqState]
  BY DEF IInv, TypeOK
<1>2. /\ \A s \in Requests \ {r} : req'[s] = req[s]
      /\ req'[r].pc = pc
      /\ req'[r].u = req[r].u /\ req'[r].n = req[r].n
      /\ req'[r].w = req[r].w /\ req'[r].key = req[r].key
  BY <1>1 DEF Goto, ReqState
<1>3. ASSUME NEW s \in Requests \ {r}
      PROVE  /\ req'[s].pc # "idle" => req'[s].u \in Uploads
             /\ req'[s].pc \in {"put", "mismatch", "stat", "record", "copy"} => req'[s].n \in PartNo
             /\ req'[s].pc = "copy" => req'[s].w.total <= MaxParts
             /\ req'[s].pc \in {"copy", "commit", "undo"} => req'[s].key \in Keys
  BY <1>2 DEF IInv, RequestBound
<1>4. req[r].u \in Uploads
  BY DEF IInv, RequestBound
<1> QED BY <1>2, <1>3, <1>4 DEF RequestBound, Holding

\* RowsHaveParts survives a step that leaves rows and job alone and loads no row.
LEMMA DoneRows ==
    ASSUME IInv, NEW r \in Requests, Done(r), UNCHANGED <<row, job>>
    PROVE  RowsHaveParts'
<1>1. req \in [Requests -> ReqState]
  BY DEF IInv, TypeOK
<1>2. \A s \in Requests : req'[s] = req[s] \/ req'[s] = IdleReq
  BY <1>1 DEF Done
<1> QED BY <1>2 DEF IInv, RowsHaveParts, IdleReq

\* A handler that moves on keeps the rows it loaded, so RowsHaveParts survives.
LEMMA GotoRows ==
    ASSUME IInv, NEW r \in Requests, req[r].pc # "idle", NEW pc \in ReqPc, Goto(r, pc),
           UNCHANGED <<row, job>>
    PROVE  RowsHaveParts'
<1>1. req \in [Requests -> ReqState]
  BY DEF IInv, TypeOK
<1>2. \A s \in Requests : req'[s].w = req[s].w /\ (req'[s].pc # "idle" => req[s].pc # "idle")
  BY <1>1 DEF Goto, ReqState
<1> QED BY <1>2 DEF IInv, RowsHaveParts

-----------------------------------------------------------------------------
(* Every step keeps IInv.                                                   *)

\* An empty database and object store satisfy the invariant.
THEOREM InitInv == Init => IInv
<1> SUFFICES ASSUME Init PROVE IInv OBVIOUS
<1>1. TypeOK
  BY UploadConstants, NoRowType, NoPartsType, IdleReqType, IdleJobType DEF Init, TypeOK, NoRows
<1>2. RowsHaveParts /\ RequestBound /\ JobBound
  BY DEF Init, RowsHaveParts, RequestBound, JobBound, NoRows, NoRow, IdleReq, IdleJob, Stored, Open
<1>3. KeyHeldOnce /\ Assembled /\ ContentExists
  BY DEF Init, KeyHeldOnce, Assembled, ContentExists, CommittedKeys, IdleReq
<1> QED BY <1>1, <1>2, <1>3 DEF IInv

\* InitiateUpload writes one row of a valid shape and touches nothing else.
LEMMA InitiateInv ==
    ASSUME IInv, NEW u \in Uploads, NEW s \in Shapes,
           InitiateResume(u, s) \/ InitiateReuse(u, s) \/ InitiateCreate(u, s)
    PROVE  IInv'
<1>1. PICK status \in Status, expires \in Nat : Reshape(u, s, status, expires)
  <2>1. row[u] \in Row /\ now + SessionTTL \in Nat
    BY UploadConstants DEF IInv, TypeOK
  <2>2. row[u].status \in Status /\ row[u].expires \in Nat /\ "pending" \in Status
    BY <2>1 DEF Row, Status, Stored, Open
  <2>3. CASE InitiateResume(u, s)
    BY <2>2, <2>3 DEF InitiateResume
  <2>4. CASE InitiateReuse(u, s) \/ InitiateCreate(u, s)
    BY <2>1, <2>2, <2>4 DEF InitiateReuse, InitiateCreate
  <2> QED BY <2>3, <2>4
<1>2. UNCHANGED <<now, part, staged, object, committed, queue, req, job>>
  BY DEF InitiateResume, InitiateReuse, InitiateCreate
<1>3. TypeOK'
  BY <1>1, <1>2, ShapeType DEF IInv, TypeOK, Reshape, Row
<1>4. RowsHaveParts'
  <2>1. TotalParts(s.size, s.chunk) >= 1
    BY ShapeType
  <2> QED BY <1>1, <1>2, <2>1 DEF IInv, TypeOK, RowsHaveParts, Reshape
<1>5. JobBound'
  BY <1>2 DEF IInv, JobBound
<1> QED BY <1>2, <1>3, <1>4, <1>5, IdleKeys DEF IInv

\* A handler that loads a stored row owns a copy with at least one part.
LEMMA LoadInv ==
    ASSUME IInv, NEW r \in Requests, NEW u \in Uploads, NEW pc \in {"put", "stat", "list", "abort"},
           NEW n \in Nat, NEW size \in Nat,
           pc \in {"put", "stat"} => n \in PartNo,
           LoadOwned(r, u, pc, n, size)
    PROVE  IInv'
<1> USE DEF LoadOwned
<1> DEFINE q == [IdleReq EXCEPT !.pc = pc, !.u = u, !.w = row[u], !.n = n, !.size = size]
<1>1. row[u] \in Row /\ req \in [Requests -> ReqState]
  BY DEF IInv, TypeOK
<1>2. /\ q \in ReqState
      /\ q.pc = pc /\ q.u = u /\ q.w = row[u] /\ q.n = n /\ q.key = None
  BY <1>1 DEF IdleReq, ReqState, ReqPc
<1> HIDE DEF q
<1>3. \A s \in Requests : req'[s] = IF s = r THEN q ELSE req[s]
  BY <1>1 DEF q
<1>4. TypeOK'
  BY <1>1, <1>2 DEF IInv, TypeOK, q
<1>5. RowsHaveParts'
  BY <1>2, <1>3 DEF IInv, RowsHaveParts
<1>6. RequestBound'
  BY <1>2, <1>3 DEF IInv, RequestBound
<1>7. JobBound'
  BY DEF IInv, JobBound
<1>8. KeyHeldOnce' /\ Assembled' /\ ContentExists'
  BY <1>2, <1>3, KeysFrame DEF Holding
<1> QED BY <1>4, <1>5, <1>6, <1>7, <1>8 DEF IInv

\* A call that only starts, by loading a session (UploadChunk, CompleteUpload, AbortUpload), keeps the invariant.
LEMMA CallInv ==
    ASSUME IInv, NEW r \in Requests, Call(r)
    PROVE  IInv'
<1>1. PartNo \subseteq Nat
  BY DEF PartNo
<1>2. PICK u \in Uploads, pc \in {"put", "stat", "list", "abort"}, n \in Nat, size \in Nat :
        (pc \in {"put", "stat"} => n \in PartNo) /\ LoadOwned(r, u, pc, n, size)
  BY <1>1, PartSizeType, Zenon DEF Call, StartChunk, StartConfirm, StartComplete, StartAbort, Load
<1> QED BY <1>2, LoadInv

\* UploadChunk and ConfirmUploadPart: they touch staged objects, part rows and, with the
\* row loaded earlier, the session.
LEMMA PartStepInv ==
    ASSUME IInv, NEW r \in Requests,
           PutPart(r) \/ RemoveMismatch(r) \/ StatPart(r) \/ RecordPart(r)
    PROVE  IInv'
<1>1. /\ req[r] \in ReqState /\ req[r].u \in Uploads /\ req[r].n \in PartNo
      /\ req[r].pc \in {"put", "mismatch", "stat", "record"}
      /\ req[r].w.total >= 1
      /\ req \in [Requests -> ReqState]
      /\ staged \in [Uploads -> [PartNo -> Nat \cup {Absent}]]
  BY DEF IInv, TypeOK, RequestBound, RowsHaveParts, PutPart, RemoveMismatch, StatPart, RecordPart
<1>2. UNCHANGED <<now, object, committed, queue, job>>
  BY DEF PutPart, RemoveMismatch, StatPart, RecordPart
<1>3. JobBound'
  BY <1>2 DEF IInv, JobBound
<1>4. CASE PutPart(r)
  <2>1. PICK pc \in {"record", "mismatch"} : Goto(r, pc)
    BY <1>4 DEF PutPart
  <2>2. pc \in ReqPc \ Holding /\ req[r].pc # "idle"
    BY <1>1 DEF ReqPc, Holding
  <2>3. TypeOK'
    <3>1. req' \in [Requests -> ReqState]
      BY <1>1, <2>1, <2>2, GotoType
    <3>2. staged' \in [Uploads -> [PartNo -> Nat \cup {Absent}]]
      BY <1>1, <1>4 DEF PutPart, ReqState
    <3> QED BY <1>4, <3>1, <3>2 DEF PutPart, IInv, TypeOK
  <2>4. RequestBound' /\ RowsHaveParts'
    BY <1>1, <1>4, <2>1, <2>2, GotoBound, GotoRows DEF PutPart, Holding
  <2> QED BY <1>2, <1>3, <2>1, <2>2, <2>3, <2>4, GotoKeys DEF IInv
<1>5. CASE RemoveMismatch(r)
  <2>1. Done(r) /\ UNCHANGED <<row, job>>
    BY <1>5 DEF RemoveMismatch
  <2>2. TypeOK'
    <3>1. staged' \in [Uploads -> [PartNo -> Nat \cup {Absent}]]
      BY <1>1, <1>5 DEF RemoveMismatch
    <3> QED BY <1>1, <1>5, <2>1, <3>1, DoneType DEF RemoveMismatch, IInv, TypeOK
  <2> QED BY <1>2, <1>3, <2>1, <2>2, DoneKeys, DoneBound, DoneRows DEF IInv
<1>6. CASE StatPart(r)
  <2> DEFINE size == staged[req[r].u][req[r].n]
  <2>0. size \in Nat \cup {Absent} /\ (size > 0 \/ size = 0 => size \in Nat)
    BY <1>1 DEF Absent
  <2>1. UNCHANGED <<row, part, staged, job>>
    BY <1>6 DEF StatPart
  <2>2. CASE Done(r)
    <3>1. TypeOK'
      BY <1>1, <1>2, <2>1, <2>2, DoneType DEF IInv, TypeOK
    <3> QED BY <1>2, <1>3, <2>1, <2>2, <3>1, DoneKeys, DoneBound, DoneRows DEF IInv
  <2>3. CASE size \in Nat /\ req' = [req EXCEPT ![r].pc = "record", ![r].size = size]
    <3>2. /\ req'[r] \in ReqState
          /\ req'[r].pc = "record" /\ req'[r].u = req[r].u /\ req'[r].n = req[r].n
          /\ req'[r].w = req[r].w /\ req'[r].key = req[r].key
          /\ \A s \in Requests \ {r} : req'[s] = req[s]
      BY <1>1, <2>3 DEF ReqState, ReqPc
    <3>3. TypeOK'
      <4>1. req' \in [Requests -> ReqState]
        BY <1>1, <2>3, <3>2
      <4> QED BY <1>2, <2>1, <4>1 DEF IInv, TypeOK
    <3>4. RequestBound' /\ RowsHaveParts'
      BY <1>1, <1>2, <2>1, <3>2 DEF IInv, RequestBound, RowsHaveParts
    <3>5. KeyHeldOnce' /\ Assembled' /\ ContentExists'
      BY <1>2, <3>2, KeysFrame DEF Holding
    <3> QED BY <1>3, <3>3, <3>4, <3>5 DEF IInv
  <2> QED BY <1>6, <2>0, <2>2, <2>3 DEF StatPart
<1>7. CASE RecordPart(r)
  <2>1. Done(r) /\ UNCHANGED <<staged, job>>
    BY <1>7 DEF RecordPart
  <2>2. [req[r].w EXCEPT !.status = "inprogress"] \in Row /\ req[r].size \in Nat
    BY <1>1 DEF ReqState, Row, Status, Stored, Open
  <2>3. row' \in [Uploads -> Row] /\ part' \in [Uploads -> [PartNo -> Nat \cup {Absent}]]
    <3>1. row \in [Uploads -> Row] /\ part \in [Uploads -> [PartNo -> Nat \cup {Absent}]]
      BY DEF IInv, TypeOK
    <3>2. CASE UNCHANGED <<part, row>>
      BY <3>1, <3>2
    <3>3. CASE /\ part' = [part EXCEPT ![req[r].u][req[r].n] = req[r].size]
               /\ row' = [row EXCEPT ![req[r].u] = [req[r].w EXCEPT !.status = "inprogress"]]
      BY <1>1, <2>2, <3>1, <3>3
    <3> QED BY <1>7, <3>2, <3>3 DEF RecordPart
  <2>4. TypeOK'
    BY <1>1, <1>2, <2>1, <2>3, DoneType DEF IInv, TypeOK
  <2>5. \A u \in Uploads : row'[u].status \in Stored => row'[u].total >= 1
    <3>1. [req[r].w EXCEPT !.status = "inprogress"].total = req[r].w.total
      BY <1>1 DEF ReqState, Row
    <3> QED BY <1>1, <1>7, <3>1 DEF RecordPart, IInv, TypeOK, RowsHaveParts
  <2>6. \A s \in Requests : req'[s] = req[s] \/ req'[s] = IdleReq
    BY <1>1, <2>1 DEF Done
  <2>7. RowsHaveParts'
    BY <2>1, <2>5, <2>6 DEF IInv, RowsHaveParts, IdleReq
  <2> QED BY <1>2, <1>3, <2>1, <2>4, <2>7, DoneKeys, DoneBound DEF IInv
<1> QED BY <1>4, <1>5, <1>6, <1>7

\* A client that writes straight to the backend only changes a staged object.
LEMMA ClientPutInv ==
    ASSUME IInv, NEW u \in Uploads, NEW n \in PartNo, NEW size \in PartSizes, ClientPut(u, n, size)
    PROVE  IInv'
<1>1. UNCHANGED <<now, row, part, object, committed, queue, req, job>> /\ size \in Nat
  BY PartSizeType DEF ClientPut
<1>2. TypeOK'
  <2>1. staged' \in [Uploads -> [PartNo -> Nat \cup {Absent}]]
    BY <1>1 DEF ClientPut, IInv, TypeOK
  <2> QED BY <1>1, <2>1 DEF IInv, TypeOK
<1>3. RowsHaveParts' /\ JobBound'
  BY <1>1 DEF IInv, RowsHaveParts, JobBound
<1> QED BY <1>1, <1>2, <1>3, IdleKeys DEF IInv

\* The checks of CompleteUpload make its size a natural number and its parts all present.
LEMMA PartsCompleteBounds ==
    ASSUME NEW w \in Row, w.total >= 1,
           NEW rows \in [PartNo -> Nat \cup {Absent}], PartsComplete(w, rows)
    PROVE  w.total <= MaxParts /\ TotalBytes(w, rows) \in Nat
<1>1. w.total \in Nat /\ w.size \in Nat
  BY DEF Row
<1>2. { n \in PartNo : rows[n] # Absent } = 1 .. w.total
  BY DEF PartsComplete
<1>3. w.total \in PartNo /\ 1 \in PartNo /\ rows[1] # Absent
  BY <1>1, <1>2
<1> QED BY <1>1, <1>3 DEF TotalBytes, PartNo

\* CompleteUpload's check of the listed parts fixes a size and a fresh key.
LEMMA ListPartsInv ==
    ASSUME IInv, NEW r \in Requests, ListParts(r)
    PROVE  IInv'
<1>1. /\ req[r] \in ReqState /\ req[r].u \in Uploads /\ req[r].pc = "list" /\ req[r].w.total >= 1
      /\ req \in [Requests -> ReqState]
      /\ part \in [Uploads -> [PartNo -> Nat \cup {Absent}]]
  BY DEF IInv, TypeOK, RequestBound, RowsHaveParts, ListParts
<1>2. UNCHANGED <<now, row, part, staged, object, committed, queue, job>>
  BY DEF ListParts
<1>3. JobBound'
  BY <1>2 DEF IInv, JobBound
<1>4. CASE Done(r)
  <2>1. TypeOK'
    BY <1>1, <1>2, <1>4, DoneType DEF IInv, TypeOK
  <2> QED BY <1>2, <1>3, <1>4, <2>1, DoneKeys, DoneBound, DoneRows DEF IInv
<1>5. ASSUME PartsComplete(req[r].w, part[req[r].u]), NEW k \in Keys, FreshKey(k),
             req' = [req EXCEPT ![r].pc = "copy", ![r].key = k, ![r].n = 1,
                                ![r].size = TotalBytes(req[r].w, part[req[r].u])]
      PROVE  IInv'
  <2>1. req[r].w \in Row /\ part[req[r].u] \in [PartNo -> Nat \cup {Absent}]
    BY <1>1 DEF ReqState
  <2>2. req[r].w.total <= MaxParts /\ TotalBytes(req[r].w, part[req[r].u]) \in Nat
    BY <1>1, <1>5, <2>1, PartsCompleteBounds
  <2>3. /\ req'[r] \in ReqState
        /\ req'[r].pc = "copy" /\ req'[r].key = k /\ req'[r].n = 1
        /\ req'[r].u = req[r].u /\ req'[r].w = req[r].w
        /\ \A s \in Requests \ {r} : req'[s] = req[s]
    BY <1>1, <1>5, <2>2 DEF ReqState, ReqPc
  <2>4. TypeOK'
    <3>1. req' \in [Requests -> ReqState]
      BY <1>1, <1>5, <2>3
    <3> QED BY <1>2, <3>1 DEF IInv, TypeOK
  <2>5. RowsHaveParts'
    BY <1>1, <1>2, <2>3 DEF IInv, RowsHaveParts
  <2>6. RequestBound'
    <3>1. 1 \in PartNo
      BY UploadConstants DEF PartNo
    <3> QED BY <1>1, <2>2, <2>3, <3>1 DEF IInv, RequestBound
  <2>7. KeyHeldOnce'
    <3>1. CommittedKeys' = CommittedKeys /\ k \notin CommittedKeys /\ \A s \in Requests : req[s].key # k
      BY <1>2, <1>5 DEF CommittedKeys, FreshKey
    <3> QED BY <1>2, <2>3, <3>1 DEF IInv, KeyHeldOnce
  <2>8. Assembled' /\ ContentExists'
    BY <1>2, <2>3 DEF IInv, Assembled, ContentExists
  <2> QED BY <1>3, <2>4, <2>5, <2>6, <2>7, <2>8 DEF IInv
<1> QED BY <1>4, <1>5 DEF ListParts

\* ComposeObject and RemoveObject change only the object of the key the request holds,
\* which no node and no other request refers to.
LEMMA ObjectFrame ==
    ASSUME IInv, UNCHANGED committed, NEW r \in Requests, req[r].pc \in Holding,
           NEW bytes, object' = [object EXCEPT ![req[r].key] = bytes],
           req'[r].key \in {None, req[r].key},
           req'[r].pc \in Holding => req'[r].key = req[r].key,
           req'[r].pc = "commit" => bytes # Absent,
           \A s \in Requests \ {r} : req'[s] = req[s]
    PROVE  KeyHeldOnce' /\ Assembled' /\ ContentExists'
<1>1. /\ req[r].key \in Keys /\ req[r].key # None
      /\ req[r].key \notin CommittedKeys
      /\ object \in [Keys -> Nat \cup {Absent}]
  BY UploadConstants DEF IInv, TypeOK, RequestBound, KeyHeldOnce, Holding
<1>2. CommittedKeys' = CommittedKeys
  BY DEF CommittedKeys
<1>3. KeyHeldOnce'
  BY <1>2 DEF IInv, KeyHeldOnce, Holding
<1>4. Assembled'
  <2>1. \A s \in Requests \ {r} : req[s].key # req[r].key
    BY <1>1 DEF IInv, KeyHeldOnce
  <2> QED BY <1>1, <2>1 DEF IInv, Assembled, Holding
<1>5. ContentExists'
  BY <1>1 DEF IInv, ContentExists, CommittedKeys
<1> QED BY <1>3, <1>4, <1>5

\* ComposeObject copies one staged part into the object only this request knows.
LEMMA CopyPartInv ==
    ASSUME IInv, NEW r \in Requests, CopyPart(r)
    PROVE  IInv'
<1> DEFINE bytes == staged[req[r].u][req[r].n]
           sum == req[r].sum + bytes
<1>1. /\ req[r] \in ReqState /\ req[r].u \in Uploads /\ req[r].pc = "copy"
      /\ req[r].n \in PartNo /\ req[r].w.total <= MaxParts /\ req[r].key \in Keys
      /\ req \in [Requests -> ReqState]
      /\ bytes \in Nat \cup {Absent}
  BY DEF IInv, TypeOK, RequestBound, CopyPart
<1>2. UNCHANGED <<now, row, part, staged, committed, queue, job>>
  BY DEF CopyPart
<1>3. JobBound'
  BY <1>2 DEF IInv, JobBound
<1>4. CASE Done(r) /\ UNCHANGED object
  <2>1. TypeOK'
    BY <1>1, <1>2, <1>4, DoneType DEF IInv, TypeOK
  <2> QED BY <1>2, <1>3, <1>4, <2>1, DoneKeys, DoneBound, DoneRows DEF IInv
<1>5. CASE /\ bytes # Absent /\ req[r].n < req[r].w.total
           /\ req' = [req EXCEPT ![r].n = req[r].n + 1, ![r].sum = sum]
           /\ UNCHANGED object
  <2>1. sum \in Nat /\ req[r].n + 1 \in PartNo /\ req[r].n + 1 \in Nat
    <3>1. req[r].sum \in Nat /\ req[r].w.total \in Nat /\ MaxParts \in Nat
      BY <1>1, UploadConstants DEF ReqState, Row
    <3> QED BY <1>1, <1>5, <3>1 DEF PartNo
  <2> HIDE DEF sum, bytes
  <2>2. /\ req'[r] \in ReqState
        /\ req'[r].pc = "copy" /\ req'[r].n = req[r].n + 1
        /\ req'[r].u = req[r].u /\ req'[r].w = req[r].w /\ req'[r].key = req[r].key
        /\ \A s \in Requests \ {r} : req'[s] = req[s]
    BY <1>1, <1>5, <2>1 DEF ReqState, ReqPc
  <2>3. TypeOK'
    <3>1. req' \in [Requests -> ReqState]
      BY <1>1, <1>5, <2>2
    <3> QED BY <1>2, <1>5, <3>1 DEF IInv, TypeOK
  <2>4. RowsHaveParts' /\ RequestBound'
    BY <1>1, <1>2, <2>1, <2>2 DEF IInv, RowsHaveParts, RequestBound
  <2>5. KeyHeldOnce' /\ Assembled' /\ ContentExists'
    BY <1>1, <1>2, <1>5, <2>2, KeysFrame DEF Holding
  <2> QED BY <1>3, <2>3, <2>4, <2>5 DEF IInv
<1>6. ASSUME bytes # Absent, object' = [object EXCEPT ![req[r].key] = sum],
             NEW pc \in {"commit", "undo"}, Goto(r, pc)
      PROVE  IInv'
  <2>1. sum \in Nat /\ sum # Absent
    <3>1. req[r].sum \in Nat
      BY <1>1 DEF ReqState
    <3> QED BY <1>1, <1>6, <3>1 DEF Absent
  <2> HIDE DEF sum, bytes
  <2>2. pc \in ReqPc /\ pc \in Holding
    BY DEF ReqPc, Holding
  <2>3. TypeOK'
    <3>1. req' \in [Requests -> ReqState]
      BY <1>1, <1>6, <2>2, GotoType
    <3>2. object' \in [Keys -> Nat \cup {Absent}]
      BY <1>1, <1>6, <2>1 DEF IInv, TypeOK
    <3> QED BY <1>2, <3>1, <3>2 DEF IInv, TypeOK
  <2>4. RowsHaveParts' /\ RequestBound'
    BY <1>1, <1>2, <1>6, <2>2, GotoRows, GotoBound
  <2>5. /\ req'[r].key = req[r].key /\ req[r].pc \in Holding
        /\ \A s \in Requests \ {r} : req'[s] = req[s]
    BY <1>1, <1>6 DEF Goto, ReqState, Holding
  <2>6. KeyHeldOnce' /\ Assembled' /\ ContentExists'
    BY <1>2, <1>6, <2>1, <2>5, ObjectFrame
  <2> QED BY <1>3, <2>3, <2>4, <2>6 DEF IInv
<1> QED BY <1>4, <1>5, <1>6 DEF CopyPart

\* commitNode publishes the object the request assembled, or leaves it to the undo.
LEMMA CommitNodeInv ==
    ASSUME IInv, NEW r \in Requests, CommitNode(r)
    PROVE  IInv'
<1> DEFINE c == [key |-> req[r].key, upload |-> req[r].u, size |-> req[r].size]
<1>1. /\ req[r] \in ReqState /\ req[r].u \in Uploads /\ req[r].pc = "commit" /\ req[r].key \in Keys
      /\ req \in [Requests -> ReqState]
  BY DEF IInv, TypeOK, RequestBound, CommitNode
<1>2. UNCHANGED <<now, row, part, staged, object, queue, job>>
  BY DEF CommitNode
<1>3. JobBound'
  BY <1>2 DEF IInv, JobBound
<1>4. CASE Goto(r, "undo") /\ UNCHANGED committed
  <2>1. "undo" \in ReqPc /\ "undo" \in Holding
    BY DEF ReqPc, Holding
  <2>2. TypeOK'
    BY <1>1, <1>2, <1>4, <2>1, GotoType DEF IInv, TypeOK
  <2>3. RowsHaveParts' /\ RequestBound'
    BY <1>1, <1>2, <1>4, <2>1, GotoRows, GotoBound
  <2>4. \A s \in Requests : req'[s].key = req[s].key /\ (req'[s].pc = req[s].pc \/ (s = r /\ req'[s].pc = "undo"))
    BY <1>1, <1>4 DEF Goto, ReqState
  <2>5. KeyHeldOnce' /\ Assembled' /\ ContentExists'
    BY <1>1, <1>2, <1>4, <2>4, KeysFrame DEF Holding
  <2> QED BY <1>3, <2>2, <2>3, <2>5 DEF IInv
<1>5. CASE committed' = committed \cup {c} /\ Goto(r, "dropParts")
  <2>1. "dropParts" \in ReqPc
    BY DEF ReqPc
  <2>2. TypeOK'
    <3>1. req' \in [Requests -> ReqState]
      BY <1>1, <1>5, <2>1, GotoType
    <3>2. c \in [key : Keys, upload : Uploads, size : Nat]
      BY <1>1 DEF ReqState
    <3> QED BY <1>2, <1>5, <3>1, <3>2 DEF IInv, TypeOK
  <2>3. RowsHaveParts' /\ RequestBound'
    BY <1>1, <1>2, <1>5, <2>1, GotoRows, GotoBound
  <2>4. /\ \A s \in Requests : req'[s].key = req[s].key
        /\ \A s \in Requests \ {r} : req'[s] = req[s]
        /\ req'[r].pc = "dropParts"
    BY <1>1, <1>5 DEF Goto, ReqState
  <2>5. CommittedKeys' = CommittedKeys \cup {req[r].key} /\ req[r].key \notin CommittedKeys
    <3>1. c.key = req[r].key /\ committed' = committed \cup {c}
      BY <1>5
    <3> HIDE DEF c
    <3>2. CommittedKeys' = CommittedKeys \cup {req[r].key}
      BY <3>1 DEF CommittedKeys
    <3> QED BY <1>1, <3>2 DEF IInv, KeyHeldOnce
  <2>6. \A s \in Requests \ {r} : req[s].key # req[r].key
    BY <1>1, UploadConstants DEF IInv, KeyHeldOnce
  <2>7. KeyHeldOnce'
    <3>1. \A s, t \in Requests : req'[s].key # None /\ req'[s].key = req'[t].key => s = t
      BY <2>4 DEF IInv, KeyHeldOnce
    <3>2. \A d, e \in committed' : d.key = e.key => d = e
      BY <1>5, <2>5 DEF IInv, KeyHeldOnce, CommittedKeys
    <3>3. \A s \in Requests : req'[s].pc \in Holding => req'[s].key \notin CommittedKeys'
      BY <2>4, <2>5, <2>6 DEF IInv, KeyHeldOnce, Holding
    <3> QED BY <3>1, <3>2, <3>3 DEF KeyHeldOnce, Holding
  <2>8. Assembled'
    BY <1>2, <2>4 DEF IInv, Assembled
  <2>9. ContentExists'
    BY <1>1, <1>2, <1>5 DEF IInv, Assembled, ContentExists
  <2> QED BY <1>3, <2>2, <2>3, <2>7, <2>8, <2>9 DEF IInv
<1> QED BY <1>4, <1>5 DEF CommitNode

\* The undo removes an object no node refers to, or fails and changes nothing.
LEMMA UndoComposeInv ==
    ASSUME IInv, NEW r \in Requests, UndoCompose(r)
    PROVE  IInv'
<1>1. /\ req[r].pc = "undo" /\ req[r].key \in Keys
      /\ req \in [Requests -> ReqState]
      /\ object \in [Keys -> Nat \cup {Absent}]
  BY DEF IInv, TypeOK, RequestBound, UndoCompose
<1>2. UNCHANGED <<now, row, part, staged, committed, queue, job>> /\ Done(r)
  BY DEF UndoCompose
<1>3. JobBound'
  BY <1>2 DEF IInv, JobBound
<1>4. object' \in [Keys -> Nat \cup {Absent}]
  BY <1>1 DEF UndoCompose
<1>5. TypeOK'
  BY <1>1, <1>2, <1>4, DoneType DEF IInv, TypeOK
<1>6. KeyHeldOnce' /\ Assembled' /\ ContentExists'
  <2>1. CASE UNCHANGED object
    BY <1>2, <2>1, DoneKeys
  <2>2. CASE object' = [object EXCEPT ![req[r].key] = Absent]
    <3>1. /\ req'[r].key = None /\ req'[r].pc = "idle"
          /\ \A s \in Requests \ {r} : req'[s] = req[s]
      BY <1>1, <1>2 DEF Done, IdleReq
    <3>2. req[r].pc \in Holding /\ req'[r].pc \notin Holding
      BY <1>1, <3>1 DEF Holding
    <3>3. req'[r].pc # "commit"
      BY <3>1
    <3> QED BY <1>2, <2>2, <3>1, <3>2, <3>3, ObjectFrame
  <2> QED BY <2>1, <2>2 DEF UndoCompose
<1> QED BY <1>2, <1>3, <1>5, <1>6, DoneBound, DoneRows DEF IInv

\* RemovePrefix that fails: no part object is changed but some are gone.
LEMMA RemovedInPartType ==
    ASSUME staged \in [Uploads -> [PartNo -> Nat \cup {Absent}]], NEW u \in Uploads, RemovedInPart(u)
    PROVE  /\ staged' \in [Uploads -> [PartNo -> Nat \cup {Absent}]]
           /\ \A v \in Uploads : v # u => staged'[v] = staged[v]
           /\ \A v \in Uploads, n \in PartNo : staged'[v][n] \in {Absent, staged[v][n]}
<1>1. PICK left \in SUBSET PartNo :
         staged' = [staged EXCEPT ![u] = [n \in PartNo |-> IF n \in left THEN staged[u][n] ELSE Absent]]
  BY DEF RemovedInPart
<1>2. [n \in PartNo |-> IF n \in left THEN staged[u][n] ELSE Absent] \in [PartNo -> Nat \cup {Absent}]
  OBVIOUS
<1> QED BY <1>1, <1>2

\* RemovePrefix or the deletion queue: staged data shrinks or the queue grows.
LEMMA RemovePrefixType ==
    ASSUME IInv, NEW u \in Uploads, RemovePrefixOrQueue(u)
    PROVE  /\ staged' \in [Uploads -> [PartNo -> Nat \cup {Absent}]]
           /\ queue' \in [Uploads -> Nat]
           /\ \A v \in Uploads : queue'[v] >= queue[v]
<1>1. /\ staged \in [Uploads -> [PartNo -> Nat \cup {Absent}]]
      /\ queue \in [Uploads -> Nat]
  BY DEF IInv, TypeOK
<1>2. CASE staged' = [staged EXCEPT ![u] = NoParts] /\ UNCHANGED queue
  BY <1>1, <1>2, NoPartsType
<1>3. CASE RemovedInPart(u) /\ (Enqueue(u) \/ UNCHANGED queue)
  <2>1. staged' \in [Uploads -> [PartNo -> Nat \cup {Absent}]]
    BY <1>1, <1>3, RemovedInPartType
  <2>2. queue' \in [Uploads -> Nat] /\ \A v \in Uploads : queue'[v] >= queue[v]
    BY <1>1, <1>3 DEF Enqueue
  <2> QED BY <2>1, <2>2
<1> QED BY <1>2, <1>3 DEF RemovePrefixOrQueue

\* The cleanup after a commit, and an abort, touch part rows, staged data, the queue and
\* the session row; none of them holds a key.
LEMMA CleanupInv ==
    ASSUME IInv, NEW r \in Requests,
           DropParts(r) \/ SweepStaged(r) \/ RetireSession(r) \/ AbortSession(r) \/ AbortSweep(r)
    PROVE  IInv'
<1>1. /\ req[r] \in ReqState /\ req[r].u \in Uploads /\ req[r].w.total >= 1 /\ req[r].w \in Row
      /\ req[r].pc # "idle"
      /\ req \in [Requests -> ReqState] /\ row \in [Uploads -> Row] /\ queue \in [Uploads -> Nat]
      /\ part \in [Uploads -> [PartNo -> Nat \cup {Absent}]]
      /\ staged \in [Uploads -> [PartNo -> Nat \cup {Absent}]]
  BY DEF IInv, TypeOK, RequestBound, RowsHaveParts, ReqState,
         DropParts, SweepStaged, RetireSession, AbortSession, AbortSweep
<1>2. UNCHANGED <<now, object, committed, job>>
  BY DEF DropParts, SweepStaged, RetireSession, AbortSession, AbortSweep
<1>3. /\ part' \in [Uploads -> [PartNo -> Nat \cup {Absent}]]
      /\ staged' \in [Uploads -> [PartNo -> Nat \cup {Absent}]]
      /\ queue' \in [Uploads -> Nat]
      /\ \A u \in Uploads : queue'[u] >= queue[u]
  <2>1. CASE DropParts(r)
    <3>1. CASE part' = [part EXCEPT ![req[r].u] = NoParts] /\ UNCHANGED queue
      BY <1>1, <2>1, <3>1, NoPartsType DEF DropParts
    <3>2. CASE (Enqueue(req[r].u) \/ UNCHANGED queue) /\ UNCHANGED part
      BY <1>1, <2>1, <3>2 DEF DropParts, Enqueue
    <3> QED BY <2>1, <3>1, <3>2 DEF DropParts
  <2>2. CASE SweepStaged(r) \/ AbortSweep(r)
    BY <1>1, <2>2, RemovePrefixType DEF SweepStaged, AbortSweep
  <2>3. CASE RetireSession(r) \/ AbortSession(r)
    BY <1>1, <2>3, NoPartsType DEF RetireSession, AbortSession
  <2> QED BY <2>1, <2>2, <2>3
<1>4. /\ row' \in [Uploads -> Row]
      /\ \A u \in Uploads : row'[u].status \in Stored => row'[u].total >= 1
  <2>1. CASE UNCHANGED row
    BY <1>1, <2>1 DEF IInv, RowsHaveParts
  <2>2. CASE row' = [row EXCEPT ![req[r].u] = [NoRow EXCEPT !.status = "deleted"]]
    <3>1. [NoRow EXCEPT !.status = "deleted"].status \notin Stored
      BY DEF NoRow, Stored, Open
    <3> QED BY <1>1, <2>2, <3>1, NoRowType DEF IInv, RowsHaveParts
  <2>3. CASE row' = [row EXCEPT ![req[r].u] = [req[r].w EXCEPT !.status = "aborted"]]
    <3>1. /\ [req[r].w EXCEPT !.status = "aborted"] \in Row
          /\ [req[r].w EXCEPT !.status = "aborted"].total = req[r].w.total
      BY <1>1 DEF Row, Status, Stored
    <3> QED BY <1>1, <2>3, <3>1 DEF IInv, RowsHaveParts
  <2> QED BY <2>1, <2>2, <2>3 DEF DropParts, SweepStaged, RetireSession, AbortSession, AbortSweep
<1>5. JobBound'
  BY <1>2, <1>3, JobFrame
<1>6. CASE Done(r)
  <2>1. TypeOK'
    BY <1>1, <1>2, <1>3, <1>4, <1>6, DoneType DEF IInv, TypeOK
  <2>2. RowsHaveParts'
    <3>1. \A s \in Requests : req'[s] = req[s] \/ req'[s] = IdleReq
      BY <1>1, <1>6 DEF Done
    <3> QED BY <1>2, <1>4, <3>1 DEF IInv, RowsHaveParts, IdleReq
  <2> QED BY <1>2, <1>5, <1>6, <2>1, <2>2, DoneKeys, DoneBound DEF IInv
<1>7. CASE \E pc \in {"sweep", "retire", "abortSweep"} : Goto(r, pc)
  <2>1. PICK pc \in {"sweep", "retire", "abortSweep"} : Goto(r, pc)
    BY <1>7
  <2>2. pc \in ReqPc \ Holding
    BY DEF ReqPc, Holding
  <2>3. TypeOK'
    BY <1>1, <1>2, <1>3, <1>4, <2>1, <2>2, GotoType DEF IInv, TypeOK
  <2>4. RowsHaveParts'
    <3>1. \A s \in Requests : req'[s].w = req[s].w /\ (req'[s].pc # "idle" => req[s].pc # "idle")
      BY <1>1, <2>1 DEF Goto, ReqState
    <3> QED BY <1>2, <1>4, <3>1 DEF IInv, RowsHaveParts
  <2>5. RequestBound'
    BY <1>1, <2>1, <2>2, GotoBound DEF Holding
  <2> QED BY <1>2, <1>5, <2>1, <2>2, <2>3, <2>4, <2>5, GotoKeys DEF IInv
<1>8. Done(r) \/ \E pc \in {"sweep", "retire", "abortSweep"} : Goto(r, pc)
  BY DEF DropParts, SweepStaged, RetireSession, AbortSession, AbortSweep
<1> QED BY <1>6, <1>7, <1>8

\* A call that is cut short (client gone, process killed) leaves rows and content as they are.
LEMMA AbandonInv ==
    ASSUME IInv, NEW r \in Requests, Abandon(r)
    PROVE  IInv'
<1>1. Done(r) /\ UNCHANGED <<now, row, part, staged, object, committed, queue, job>>
  BY DEF Abandon
<1>2. TypeOK'
  BY <1>1, DoneType DEF IInv, TypeOK
<1>3. JobBound'
  BY <1>1 DEF IInv, JobBound
<1> QED BY <1>1, <1>2, <1>3, DoneKeys, DoneBound, DoneRows DEF IInv

-----------------------------------------------------------------------------
(* The maintenance tasks.                                                   *)

\* Starting a run: the list is taken from the tables at that moment.
LEMMA JobStartInv ==
    ASSUME IInv, StartExpire \/ StartPurge \/ StartGc \/ GcList \/ JobEnds \/ JobAbandoned
    PROVE  IInv'
<1>1. UNCHANGED <<now, row, part, staged, object, committed, queue, req>>
  BY DEF StartExpire, StartPurge, StartGc, GcList, JobEnds, JobAbandoned
<1>2. row \in [Uploads -> Row] /\ queue \in [Uploads -> Nat] /\ job \in JobState /\ IdleJob \in JobState
  BY IdleJobType DEF IInv, TypeOK
<1>3. job' \in JobState /\ RowsHaveParts' /\ JobBound'
  <2>1. CASE StartExpire
    <3>1. \A u \in Uploads : row[u].status \in Open => row[u].total >= 1
      BY DEF IInv, RowsHaveParts, Stored
    <3>2. /\ job'.pc = "expire" /\ job'.rows = row
          /\ \A u \in Uploads : <<u, 0>> \in job'.todo => row[u].status \in Open
          /\ job' \in JobState
      <4> DEFINE list == { u \in Uploads : row[u].status \in Open /\ row[u].expires < now } \X {0}
      <4>1. /\ list \in SUBSET (Uploads \X (0..MaxParts))
            /\ \A u \in Uploads : <<u, 0>> \in list => row[u].status \in Open
        BY UploadConstants
      <4>2. job' = [IdleJob EXCEPT !.pc = "expire", !.rows = row, !.todo = list]
        BY <2>1 DEF StartExpire
      <4> HIDE DEF list
      <4> QED BY <1>2, <4>1, <4>2 DEF IdleJob, JobState, JobPc
    <3> QED BY <1>1, <3>1, <3>2 DEF IInv, RowsHaveParts, JobBound
  <2>2. CASE StartPurge
    <3>1. /\ job'.pc = "purge"
          /\ \A u \in Uploads : <<u, 0>> \in job'.todo => queue[u] > 0
          /\ job' \in JobState
      <4> DEFINE list == { u \in Uploads : queue[u] > 0 } \X {0}
      <4>1. /\ list \in SUBSET (Uploads \X (0..MaxParts))
            /\ \A u \in Uploads : <<u, 0>> \in list => queue[u] > 0
        BY UploadConstants
      <4>2. job' = [IdleJob EXCEPT !.pc = "purge", !.todo = list]
        BY <2>2 DEF StartPurge
      <4> HIDE DEF list
      <4> QED BY <1>2, <4>1, <4>2 DEF IdleJob, JobState, JobPc
    <3> QED BY <1>1, <1>2, <3>1 DEF IInv, RowsHaveParts, JobBound
  <2>3. CASE StartGc
    <3>1. job'.pc = "gcList" /\ job' \in JobState
      BY <1>2, <2>3 DEF StartGc, IdleJob, JobState, JobPc
    <3> QED BY <1>1, <3>1 DEF IInv, RowsHaveParts, JobBound
  <2>4. CASE GcList
    <3>1. job'.pc = "gc" /\ job' \in JobState
      <4> DEFINE list == { x \in (Uploads \ job.live) \X PartNo : staged[x[1]][x[2]] # Absent }
      <4>1. list \in SUBSET (Uploads \X (0..MaxParts))
        <5>1. PartNo \subseteq 0..MaxParts
          BY UploadConstants DEF PartNo
        <5> QED BY <5>1
      <4>2. job' = [job EXCEPT !.pc = "gc", !.live = {}, !.todo = list]
        BY <2>4 DEF GcList
      <4> HIDE DEF list
      <4> QED BY <1>2, <4>1, <4>2 DEF JobState, JobPc
    <3> QED BY <1>1, <3>1 DEF IInv, RowsHaveParts, JobBound
  <2>5. CASE job' = IdleJob
    <3>1. job'.pc = "idle"
      BY <2>5 DEF IdleJob
    <3> QED BY <1>1, <1>2, <2>5, <3>1 DEF IInv, RowsHaveParts, JobBound
  <2> QED BY <2>1, <2>2, <2>3, <2>4, <2>5 DEF JobEnds, JobAbandoned
<1>4. TypeOK'
  BY <1>1, <1>3 DEF IInv, TypeOK
<1> QED BY <1>1, <1>3, <1>4, IdleKeys DEF IInv

\* expire_uploads writes the listed row back with status expired, drops the part rows and
\* queues the prefix.
LEMMA ExpireInv ==
    ASSUME IInv, ExpireParts \/ ExpireQueue \/ \E u \in Uploads : ExpireRow(u)
    PROVE  IInv'
<1>1. /\ row \in [Uploads -> Row] /\ queue \in [Uploads -> Nat] /\ job \in JobState
      /\ part \in [Uploads -> [PartNo -> Nat \cup {Absent}]]
  BY DEF IInv, TypeOK
<1>2. UNCHANGED <<now, staged, object, committed, req>>
  BY DEF ExpireParts, ExpireQueue, ExpireRow
<1>3. /\ TypeOK' /\ RowsHaveParts' /\ JobBound'
  <2>1. CASE ExpireParts
    <3>1. job.u \in Uploads /\ job.pc = "expireParts"
      BY <2>1 DEF ExpireParts, IInv, JobBound
    <3>2. /\ job' \in JobState /\ job'.pc = "expireQueue" /\ job'.u = job.u
          /\ job'.rows = job.rows /\ job'.todo = job.todo
      BY <1>1, <2>1 DEF ExpireParts, JobState, JobPc
    <3>3. part' \in [Uploads -> [PartNo -> Nat \cup {Absent}]] /\ UNCHANGED <<row, queue>>
      BY <1>1, <2>1, <3>1, NoPartsType DEF ExpireParts
    <3>4. TypeOK'
      BY <1>2, <3>2, <3>3 DEF IInv, TypeOK
    <3> QED BY <1>2, <3>1, <3>2, <3>3, <3>4 DEF IInv, RowsHaveParts, JobBound
  <2>2. CASE ExpireQueue
    <3>1. job.u \in Uploads /\ job.pc = "expireQueue"
      BY <2>2 DEF ExpireQueue, IInv, JobBound
    <3>2. /\ job' \in JobState /\ job'.pc = "expire"
          /\ job'.rows = job.rows /\ job'.todo = job.todo
      BY <1>1, <2>2 DEF ExpireQueue, JobState, JobPc
    <3>3. queue' \in [Uploads -> Nat] /\ UNCHANGED <<row, part>>
      BY <1>1, <2>2, <3>1 DEF ExpireQueue, Enqueue
    <3>4. TypeOK'
      BY <1>2, <3>2, <3>3 DEF IInv, TypeOK
    <3> QED BY <1>2, <3>1, <3>2, <3>3, <3>4 DEF IInv, RowsHaveParts, JobBound
  <2>3. ASSUME NEW u \in Uploads, ExpireRow(u)
        PROVE  TypeOK' /\ RowsHaveParts' /\ JobBound'
    <3>1. UNCHANGED <<part, queue>> /\ job.pc = "expire" /\ job.rows[u].total >= 1
      BY <2>3 DEF ExpireRow, IInv, RowsHaveParts
    <3>2. CASE job' = IdleJob /\ UNCHANGED row
      <4>1. job'.pc = "idle" /\ job' \in JobState
        BY <3>2, IdleJobType DEF IdleJob
      <4>2. TypeOK'
        BY <1>2, <3>1, <3>2, <4>1 DEF IInv, TypeOK
      <4> QED BY <1>2, <3>1, <3>2, <4>1, <4>2 DEF IInv, RowsHaveParts, JobBound
    <3>3. CASE /\ row' = [row EXCEPT ![u] = [job.rows[u] EXCEPT !.status = "expired"]]
               /\ job' = [job EXCEPT !.pc = "expireParts", !.u = u, !.todo = @ \ {<<u, 0>>}]
      <4>1. /\ job' \in JobState /\ job'.pc = "expireParts" /\ job'.u = u
            /\ job'.rows = job.rows /\ job'.todo \subseteq job.todo
        BY <1>1, <3>3 DEF JobState, JobPc
      <4>2. job.rows[u] \in Row
        BY <1>1 DEF JobState
      <4>3. /\ [job.rows[u] EXCEPT !.status = "expired"] \in Row
            /\ [job.rows[u] EXCEPT !.status = "expired"].total = job.rows[u].total
        BY <4>2 DEF Row, Status, Stored
      <4>4. row' \in [Uploads -> Row] /\ \A v \in Uploads : row'[v].status \in Stored => row'[v].total >= 1
        BY <1>1, <3>1, <3>3, <4>3 DEF IInv, RowsHaveParts
      <4>5. TypeOK'
        BY <1>2, <3>1, <4>1, <4>4 DEF IInv, TypeOK
      <4> QED BY <1>2, <3>1, <4>1, <4>4, <4>5 DEF IInv, RowsHaveParts, JobBound
    <3> QED BY <2>3, <3>2, <3>3 DEF ExpireRow
  <2> QED BY <2>1, <2>2, <2>3
<1> QED BY <1>2, <1>3, IdleKeys DEF IInv

\* purge_deletions removes a prefix, then the queue row it listed.
LEMMA PurgeInv ==
    ASSUME IInv, PurgeRow \/ \E u \in Uploads : PurgePrefix(u)
    PROVE  IInv'
<1>1. /\ queue \in [Uploads -> Nat] /\ job \in JobState
      /\ staged \in [Uploads -> [PartNo -> Nat \cup {Absent}]]
  BY DEF IInv, TypeOK
<1>2. UNCHANGED <<now, row, part, object, committed, req>>
  BY DEF PurgeRow, PurgePrefix
<1>3. TypeOK' /\ RowsHaveParts' /\ JobBound'
  <2>1. CASE PurgeRow
    <3>1. job.u \in Uploads /\ queue[job.u] >= 1 /\ <<job.u, 0>> \notin job.todo /\ job.pc = "purgeRow"
      BY <2>1 DEF PurgeRow, IInv, JobBound
    <3>2. /\ queue' \in [Uploads -> Nat]
          /\ \A v \in Uploads : v # job.u => queue'[v] = queue[v]
      BY <1>1, <2>1, <3>1 DEF PurgeRow
    <3>3. job' \in JobState /\ job'.pc = "purge" /\ job'.todo = job.todo /\ UNCHANGED staged
      BY <1>1, <2>1 DEF PurgeRow, JobState, JobPc
    <3>4. TypeOK'
      BY <1>2, <3>2, <3>3 DEF IInv, TypeOK
    <3>5. \A v \in Uploads : <<v, 0>> \in job.todo => queue'[v] >= 1
      BY <3>1, <3>2 DEF IInv, JobBound
    <3> QED BY <1>2, <3>3, <3>4, <3>5 DEF IInv, RowsHaveParts, JobBound
  <2>2. ASSUME NEW u \in Uploads, PurgePrefix(u)
        PROVE  TypeOK' /\ RowsHaveParts' /\ JobBound'
    <3>1. UNCHANGED queue /\ job.pc = "purge" /\ queue[u] >= 1
      BY <2>2 DEF PurgePrefix, IInv, JobBound
    <3>2. staged' \in [Uploads -> [PartNo -> Nat \cup {Absent}]]
      <4>1. CASE staged' = [staged EXCEPT ![u] = NoParts]
        BY <1>1, <4>1, NoPartsType
      <4>2. CASE RemovedInPart(u)
        BY <1>1, <4>2, RemovedInPartType
      <4> QED BY <2>2, <4>1, <4>2 DEF PurgePrefix
    <3>3. /\ job' \in JobState
          /\ job'.todo = job.todo \ {<<u, 0>>}
          /\ job'.pc = "purge" \/ (job'.pc = "purgeRow" /\ job'.u = u)
      <4> DEFINE rest == job.todo \ {<<u, 0>>}
      <4>1. job \in JobState /\ rest \in SUBSET (Uploads \X (0..MaxParts))
        BY <1>1 DEF JobState
      <4>2. CASE job' = [job EXCEPT !.pc = "purgeRow", !.u = u, !.todo = rest]
        BY <4>1, <4>2 DEF JobState, JobPc
      <4>3. CASE job' = [job EXCEPT !.todo = rest]
        BY <3>1, <4>1, <4>3 DEF JobState, JobPc
      <4> QED BY <2>2, <4>2, <4>3 DEF PurgePrefix
    <3>4. TypeOK'
      BY <1>2, <3>1, <3>2, <3>3 DEF IInv, TypeOK
    <3> QED BY <1>2, <3>1, <3>3, <3>4 DEF IInv, RowsHaveParts, JobBound
  <2> QED BY <2>1, <2>2
<1> QED BY <1>2, <1>3, IdleKeys DEF IInv

\* gc_orphans removes one listed part object.
LEMMA GcRemoveInv ==
    ASSUME IInv, NEW u \in Uploads, NEW n \in PartNo, GcRemove(u, n)
    PROVE  IInv'
<1>1. UNCHANGED <<now, row, part, object, committed, queue, req>>
  BY DEF GcRemove
<1>2. job' \in JobState /\ job'.pc = "gc"
  BY DEF GcRemove, IInv, TypeOK, JobState
<1>3. staged' \in [Uploads -> [PartNo -> Nat \cup {Absent}]]
  BY DEF GcRemove, IInv, TypeOK
<1>4. TypeOK'
  BY <1>1, <1>2, <1>3 DEF IInv, TypeOK
<1>5. RowsHaveParts' /\ JobBound'
  BY <1>1, <1>2 DEF IInv, RowsHaveParts, JobBound
<1> QED BY <1>1, <1>4, <1>5, IdleKeys DEF IInv

\* The clock disturbs nothing.
LEMMA TickInv ==
    ASSUME IInv, Tick
    PROVE  IInv'
<1>1. UNCHANGED <<row, part, staged, object, committed, queue, req, job>>
  BY DEF Tick
<1>2. TypeOK'
  BY <1>1, UploadConstants DEF Tick, IInv, TypeOK
<1>3. RowsHaveParts' /\ JobBound'
  BY <1>1 DEF IInv, RowsHaveParts, JobBound
<1> QED BY <1>1, <1>2, <1>3, IdleKeys DEF IInv

-----------------------------------------------------------------------------
(* The theorems.                                                            *)

\* A stuttering step keeps the invariant.
LEMMA StutterInv ==
    ASSUME IInv, UNCHANGED vars
    PROVE  IInv'
<1>1. UNCHANGED <<now, row, part, staged, object, committed, queue, req, job>>
  BY DEF vars
<1>2. TypeOK' /\ RowsHaveParts' /\ JobBound'
  BY <1>1 DEF IInv, TypeOK, RowsHaveParts, JobBound
<1> QED BY <1>1, <1>2, IdleKeys DEF IInv

\* Every step of the protocol keeps the invariant.
LEMMA NextInv == IInv /\ [Next]_vars => IInv'
<1> SUFFICES ASSUME IInv, [Next]_vars PROVE IInv' OBVIOUS
<1>1. CASE Initiate
  BY <1>1, InitiateInv DEF Initiate
<1>2. ASSUME NEW r \in Requests, Call(r) \/ Step(r) \/ Abandon(r)
      PROVE  IInv'
  BY <1>2, CallInv, AbandonInv, PartStepInv, ListPartsInv, CopyPartInv, CommitNodeInv,
     UndoComposeInv, CleanupInv DEF Step
<1>3. ASSUME NEW u \in Uploads, NEW n \in PartNo, NEW size \in PartSizes, ClientPut(u, n, size)
      PROVE  IInv'
  BY <1>3, ClientPutInv
<1>4. CASE StartExpire \/ StartPurge \/ StartGc \/ JobStep \/ JobAbandoned
  BY <1>4, JobStartInv, ExpireInv, PurgeInv, GcRemoveInv DEF JobStep
<1>5. CASE Tick
  BY <1>5, TickInv
<1>6. CASE UNCHANGED vars
  BY <1>6, StutterInv
<1> QED BY <1>1, <1>2, <1>3, <1>4, <1>5, <1>6 DEF Next

\* The inductive invariant holds in every reachable state, whatever requests race, are
\* abandoned or fail and whatever the maintenance tasks sweep.
THEOREM Invariance == Spec => []IInv
BY InitInv, NextInv, PTL DEF Spec

\* The tables, the objects and the handlers keep their types, for any number of sessions,
\* requests, parts and keys.
THEOREM TypeCorrect == Spec => []TypeOK
BY Invariance, PTL DEF IInv

\* No committed node ever points at missing content (CompleteUpload, its undo and the
\* sweeps of internal/biz/system.go).
THEOREM ContentAlwaysExists == Spec => []ContentExists
BY Invariance, PTL DEF IInv

-----------------------------------------------------------------------------
(* The protocol implements PublishedContent.                                *)

VisibleAt(k) == IF k \in CommittedKeys THEN object[k] ELSE Absent

\* A step that adds no node leaves what readers see alone: it changes at most an object
\* that no node refers to.
LEMMA InvisibleStep ==
    ASSUME IInv, UNCHANGED committed,
           UNCHANGED object \/ \E r \in Requests, bytes \in Nat \cup {Absent} :
                                  req[r].pc \in Holding /\ object' = [object EXCEPT ![req[r].key] = bytes]
    PROVE  \A k \in Keys : VisibleAt(k)' = VisibleAt(k)
<1>1. CommittedKeys' = CommittedKeys
  BY DEF CommittedKeys
<1>2. object \in [Keys -> Nat \cup {Absent}]
  BY DEF IInv, TypeOK
<1>3. \A r \in Requests : req[r].pc \in Holding => req[r].key \notin CommittedKeys
  BY DEF IInv, KeyHeldOnce, Holding
<1> QED BY <1>1, <1>2, <1>3 DEF VisibleAt

\* commitNode makes one assembled object visible, whole.
LEMMA PublishingStep ==
    ASSUME IInv, NEW r \in Requests, CommitNode(r), ~UNCHANGED committed
    PROVE  \E k \in Keys :
              /\ VisibleAt(k) = Absent /\ VisibleAt(k)' \in Nat
              /\ \A l \in Keys \ {k} : VisibleAt(l)' = VisibleAt(l)
<1> DEFINE c == [key |-> req[r].key, upload |-> req[r].u, size |-> req[r].size]
<1>1. committed' = committed \cup {c} /\ UNCHANGED object /\ req[r].pc = "commit"
  BY DEF CommitNode
<1>2. c.key = req[r].key /\ req[r].key \in Keys /\ req[r].key \notin CommittedKeys
  BY <1>1 DEF IInv, RequestBound, KeyHeldOnce
<1> HIDE DEF c
<1>3. CommittedKeys' = CommittedKeys \cup {req[r].key}
  BY <1>1, <1>2 DEF CommittedKeys
<1>4. object[req[r].key] \in Nat
  BY <1>1, <1>2 DEF IInv, TypeOK, Assembled
<1>5. PICK k \in Keys : k = req[r].key
  BY <1>2
<1>6. /\ VisibleAt(k) = Absent /\ VisibleAt(k)' \in Nat
      /\ \A l \in Keys \ {k} : VisibleAt(l)' = VisibleAt(l)
  BY <1>1, <1>2, <1>3, <1>4, <1>5 DEF VisibleAt
<1> QED BY <1>6

\* Only the commit adds a node; only the copy and the undo change an object.
LEMMA StepKinds ==
    ASSUME IInv, [Next]_vars
    PROVE  \/ /\ UNCHANGED committed
              /\ UNCHANGED object \/ \E r \in Requests, bytes \in Nat \cup {Absent} :
                    req[r].pc \in Holding /\ object' = [object EXCEPT ![req[r].key] = bytes]
           \/ \E r \in Requests : CommitNode(r) /\ ~UNCHANGED committed
<1>1. CASE Initiate
  BY <1>1 DEF Initiate, InitiateResume, InitiateReuse, InitiateCreate
<1>2. ASSUME NEW r \in Requests, Call(r) \/ Abandon(r)
      PROVE  UNCHANGED <<object, committed>>
  BY <1>2 DEF Call, StartChunk, StartConfirm, StartComplete, StartAbort, Load, LoadOwned, Abandon
<1>3. ASSUME NEW r \in Requests, CopyPart(r)
      PROVE  /\ UNCHANGED committed
             /\ UNCHANGED object \/ \E bytes \in Nat \cup {Absent} :
                   req[r].pc \in Holding /\ object' = [object EXCEPT ![req[r].key] = bytes]
  <2> DEFINE bytes == staged[req[r].u][req[r].n]
             sum == req[r].sum + bytes
  <2>1. /\ req[r] \in ReqState /\ req[r].u \in Uploads /\ req[r].pc = "copy" /\ req[r].n \in PartNo
        /\ bytes \in Nat \cup {Absent}
    BY <1>3 DEF IInv, TypeOK, RequestBound, CopyPart
  <2>2. bytes # Absent => sum \in Nat
    BY <2>1 DEF ReqState
  <2> HIDE DEF bytes
  <2>3. UNCHANGED object \/ (bytes # Absent /\ object' = [object EXCEPT ![req[r].key] = sum])
    BY <1>3 DEF CopyPart, bytes
  <2> QED BY <1>3, <2>1, <2>2, <2>3 DEF CopyPart, Holding
<1>4. ASSUME NEW r \in Requests, UndoCompose(r)
      PROVE  /\ UNCHANGED committed
             /\ UNCHANGED object \/ \E bytes \in Nat \cup {Absent} :
                   req[r].pc \in Holding /\ object' = [object EXCEPT ![req[r].key] = bytes]
  BY <1>4 DEF UndoCompose, Holding
<1>5. ASSUME NEW r \in Requests, Step(r), ~CopyPart(r), ~UndoCompose(r), ~CommitNode(r)
      PROVE  UNCHANGED <<object, committed>>
  BY <1>5 DEF Step, PutPart, RemoveMismatch, StatPart, RecordPart, ListParts, DropParts,
     SweepStaged, RetireSession, AbortSession, AbortSweep
<1>6. ASSUME NEW r \in Requests, CommitNode(r)
      PROVE  UNCHANGED object
  BY <1>6 DEF CommitNode
<1>7. CASE \E u \in Uploads, n \in PartNo, size \in PartSizes : ClientPut(u, n, size)
  BY <1>7 DEF ClientPut
<1>8. CASE StartExpire \/ StartPurge \/ StartGc \/ JobStep \/ JobAbandoned \/ Tick
  BY <1>8 DEF StartExpire, StartPurge, StartGc, JobStep, JobAbandoned, Tick, ExpireRow, PurgePrefix,
     GcRemove, ExpireParts, ExpireQueue, PurgeRow, GcList, JobEnds
<1>9. CASE UNCHANGED vars
  BY <1>9 DEF vars
<1> QED BY <1>1, <1>2, <1>3, <1>4, <1>5, <1>6, <1>7, <1>8, <1>9 DEF Next

\* Every behaviour of the upload protocol is one of PublishedContent: content appears once,
\* whole, together with its node, and is never changed or taken away by any handler,
\* failure or sweep (CompleteUpload against AbortUpload and the maintenance tasks).
THEOREM UploadsPublishAtomically == Spec => PublishesAtomically
<1> DEFINE visible == [k \in Keys |-> IF k \in CommittedKeys THEN object[k] ELSE Absent]
<1>1. Init => Published!Init
  BY DEF Init, Published!Init, CommittedKeys
<1>2. IInv /\ [Next]_vars => [Published!Next]_visible
  <2> SUFFICES ASSUME IInv, [Next]_vars, visible' # visible
               PROVE  Published!Next
    OBVIOUS
  <2>1. ~ \A k \in Keys : VisibleAt(k)' = VisibleAt(k)
    BY DEF VisibleAt
  <2>2. PICK r \in Requests : CommitNode(r) /\ ~UNCHANGED committed
    BY <2>1, StepKinds, InvisibleStep
  <2>3. PICK k \in Keys : /\ VisibleAt(k) = Absent /\ VisibleAt(k)' \in Nat
                          /\ \A l \in Keys \ {k} : VisibleAt(l)' = VisibleAt(l)
    BY <2>2, PublishingStep
  <2>4. Published!Publish(k)
    BY <2>3 DEF Published!Publish, VisibleAt
  <2> QED BY <2>4 DEF Published!Next
<1> QED BY <1>1, <1>2, Invariance, PTL DEF Spec, PublishesAtomically, Published!Spec

-----------------------------------------------------------------------------
(* No object without a node.                                                *)

\* A handler that decides about an assembled object.
Deciding == {"commit", "undo"}

\* A step that assembles and removes nothing and lets every handler decide that had to.
LEMMA OrphanFrame ==
    ASSUME NoOrphanContent, UNCHANGED object, committed \subseteq committed',
           \A s \in Requests : req[s].pc \in Deciding =>
              req'[s].pc \in Deciding /\ req'[s].key = req[s].key
    PROVE  NoOrphanContent'
<1> SUFFICES ASSUME NEW k \in Keys, object[k] # Absent
             PROVE  k \in CommittedKeys' \/ \E s \in Requests : req'[s].key = k /\ req'[s].pc \in Deciding
  BY DEF NoOrphanContent, Deciding
<1>1. CASE k \in CommittedKeys
  BY <1>1 DEF CommittedKeys
<1>2. CASE \E s \in Requests : req[s].key = k /\ req[s].pc \in Deciding
  BY <1>2
<1> QED BY <1>1, <1>2 DEF NoOrphanContent, Deciding

\* A step of a handler that decides nothing, which leaves objects and nodes alone.
LEMMA UndecidedStep ==
    ASSUME IInv, NoOrphanContent, UNCHANGED <<object, committed>>,
           NEW r \in Requests, req[r].pc \notin Deciding,
           \A s \in Requests \ {r} : req'[s] = req[s]
    PROVE  NoOrphanContent'
BY OrphanFrame

\* The last part assembled: the handler goes on to decide about its own object.
LEMMA CopyPartKeeps ==
    ASSUME IInv, NoOrphanContent, NEW r \in Requests, CopyPart(r)
    PROVE  NoOrphanContent'
<1>1. /\ req[r] \in ReqState /\ req[r].pc = "copy" /\ req[r].key \in Keys
      /\ req \in [Requests -> ReqState] /\ object \in [Keys -> Nat \cup {Absent}]
      /\ UNCHANGED committed
  BY DEF IInv, TypeOK, RequestBound, CopyPart
<1>2. \A s \in Requests \ {r} : req'[s] = req[s]
  BY <1>1 DEF CopyPart, Done, Goto
<1>3. CASE UNCHANGED object
  BY <1>1, <1>2, <1>3, UndecidedStep DEF Deciding
<1>4. ASSUME NEW bytes, object' = [object EXCEPT ![req[r].key] = bytes],
             NEW pc \in Deciding, Goto(r, pc)
      PROVE  NoOrphanContent'
  <2>1. req'[r].key = req[r].key /\ req'[r].pc \in Deciding
    BY <1>1, <1>4 DEF Goto, ReqState
  <2>2. \A k \in Keys \ {req[r].key} : object'[k] = object[k]
    BY <1>1, <1>4
  <2>3. CommittedKeys' = CommittedKeys
    BY <1>1 DEF CommittedKeys
  <2>4. \A s \in Requests : req[s].pc \in Deciding => req'[s].key = req[s].key /\ req'[s].pc \in Deciding
    BY <1>2, <2>1
  <2> QED BY <2>1, <2>2, <2>3, <2>4 DEF NoOrphanContent, Deciding
<1> QED BY <1>1, <1>3, <1>4 DEF CopyPart, Deciding

\* The decision: the object gets its node, or goes on to be removed, or is removed.
LEMMA DecisionKeeps ==
    ASSUME IInv, NoOrphanContent, "fault" \notin Ops,
           NEW r \in Requests, CommitNode(r) \/ UndoCompose(r)
    PROVE  NoOrphanContent'
<1>1. /\ req[r] \in ReqState /\ req[r].key \in Keys
      /\ req \in [Requests -> ReqState] /\ object \in [Keys -> Nat \cup {Absent}]
  BY DEF IInv, TypeOK, RequestBound, CommitNode, UndoCompose
<1>2. \A s \in Requests \ {r} : req'[s] = req[s]
  BY <1>1 DEF CommitNode, UndoCompose, Done, Goto
<1>3. CASE CommitNode(r) /\ Goto(r, "undo") /\ UNCHANGED committed
  <2>1. req'[r].key = req[r].key /\ req'[r].pc = "undo"
    BY <1>1, <1>3 DEF Goto, ReqState
  <2>2. UNCHANGED object
    BY <1>3 DEF CommitNode
  <2> QED BY <1>2, <1>3, <2>1, <2>2, OrphanFrame DEF Deciding
<1>4. ASSUME CommitNode(r),
             committed' = committed \cup {[key |-> req[r].key, upload |-> req[r].u, size |-> req[r].size]}
      PROVE  NoOrphanContent'
  <2> DEFINE c == [key |-> req[r].key, upload |-> req[r].u, size |-> req[r].size]
  <2>0. committed' = committed \cup {c} /\ c.key = req[r].key
    BY <1>4
  <2> HIDE DEF c
  <2>1. req[r].key \in CommittedKeys' /\ CommittedKeys \subseteq CommittedKeys'
    BY <2>0 DEF CommittedKeys
  <2>2. UNCHANGED object
    BY <1>4 DEF CommitNode
  <2> QED BY <1>2, <2>1, <2>2 DEF NoOrphanContent
<1>5. CASE UndoCompose(r)
  <2>1. object' = [object EXCEPT ![req[r].key] = Absent] /\ UNCHANGED committed
    BY <1>5 DEF UndoCompose
  <2>2. object'[req[r].key] = Absent /\ \A k \in Keys \ {req[r].key} : object'[k] = object[k]
    BY <1>1, <2>1
  <2>3. CommittedKeys' = CommittedKeys
    BY <2>1 DEF CommittedKeys
  <2> QED BY <1>2, <2>2, <2>3 DEF NoOrphanContent
<1> QED BY <1>3, <1>4, <1>5 DEF CommitNode

\* Every step, when no call is cut short and the backend does not fail.
LEMMA OrphanStep ==
    ASSUME IInv, NoOrphanContent, "fault" \notin Ops, "abandon" \notin Ops, [Next]_vars
    PROVE  NoOrphanContent'
<1>0. req \in [Requests -> ReqState]
  BY DEF IInv, TypeOK
<1>1. ASSUME NEW r \in Requests, Call(r)
      PROVE  NoOrphanContent'
  <2>1. /\ UNCHANGED <<object, committed>> /\ req[r].pc \notin Deciding
        /\ \A s \in Requests \ {r} : req'[s] = req[s]
    BY <1>0, <1>1 DEF Call, StartChunk, StartConfirm, StartComplete, StartAbort, Load, LoadOwned, Deciding
  <2> QED BY <2>1, UndecidedStep
<1>2. ASSUME NEW r \in Requests,
             \/ PutPart(r) \/ RemoveMismatch(r) \/ StatPart(r) \/ RecordPart(r) \/ ListParts(r)
             \/ DropParts(r) \/ SweepStaged(r) \/ RetireSession(r) \/ AbortSession(r) \/ AbortSweep(r)
      PROVE  NoOrphanContent'
  <2>1. UNCHANGED <<object, committed>> /\ req[r].pc \notin Deciding
    BY <1>2 DEF PutPart, RemoveMismatch, StatPart, RecordPart, ListParts, DropParts, SweepStaged,
       RetireSession, AbortSession, AbortSweep, Deciding
  <2>2. \A s \in Requests \ {r} : req'[s] = req[s]
    BY <1>0, <1>2 DEF PutPart, RemoveMismatch, StatPart, RecordPart, ListParts, DropParts, SweepStaged,
       RetireSession, AbortSession, AbortSweep, Goto, Done
  <2> QED BY <2>1, <2>2, UndecidedStep
<1>3. ASSUME NEW r \in Requests, CopyPart(r) \/ CommitNode(r) \/ UndoCompose(r)
      PROVE  NoOrphanContent'
  BY <1>3, CopyPartKeeps, DecisionKeeps
<1>4. ASSUME UNCHANGED <<object, committed, req>>
      PROVE  NoOrphanContent'
  BY <1>4, OrphanFrame
<1>5. CASE \/ Initiate \/ StartExpire \/ StartPurge \/ StartGc \/ JobStep \/ Tick \/ UNCHANGED vars
           \/ \E u \in Uploads, n \in PartNo, size \in PartSizes : ClientPut(u, n, size)
  BY <1>4, <1>5 DEF Initiate, InitiateResume, InitiateReuse, InitiateCreate, StartExpire, StartPurge,
     StartGc, JobStep, Tick, vars, ClientPut, ExpireRow, PurgePrefix, GcRemove, ExpireParts,
     ExpireQueue, PurgeRow, GcList, JobEnds
<1> QED BY <1>1, <1>2, <1>3, <1>5 DEF Next, Step, Abandon, JobAbandoned

\* Without calls cut short and backend failures, an assembled object has its node or a
\* handler that still decides about it (CompleteUpload and its RemoveObject).
THEOREM NothingOrphaned ==
    ASSUME "fault" \notin Ops, "abandon" \notin Ops
    PROVE  Spec => []NoOrphanContent
<1>1. Init => NoOrphanContent
  BY DEF Init, NoOrphanContent
<1>2. IInv /\ NoOrphanContent /\ [Next]_vars => NoOrphanContent'
  BY OrphanStep
<1> QED BY <1>1, <1>2, Invariance, PTL DEF Spec

-----------------------------------------------------------------------------
(* One node per session, one call at a time.                                *)

\* What follows the commit in CompleteUpload.
Ending == {"dropParts", "sweep", "retire"}

OneCall == \A r, s \in Requests : r = s

\* A call works on a session that is still stored; a session that has its node is gone, or
\* the call that gave it the node is about to retire it.
Retiring ==
    /\ \A r \in Requests : req[r].pc # "idle" => row[req[r].u].status \in Stored
    /\ \A c \in committed :
          \/ row[c.upload].status = "deleted"
          \/ \E r \in Requests : req[r].pc \in Ending /\ req[r].u = c.upload

SoleInv == Retiring /\ OneNodePerSession

\* A step that commits nothing, keeps stored rows stored and gone ones gone, and lets a
\* call after its commit go on.
LEMMA SoleFrame ==
    ASSUME IInv, SoleInv, UNCHANGED committed,
           \A u \in Uploads : /\ row[u].status \in Stored => row'[u].status \in Stored
                              /\ row[u].status = "deleted" => row'[u].status = "deleted",
           \A s \in Requests :
              /\ req'[s].pc # "idle" => req'[s].u \in Uploads /\ row[req'[s].u].status \in Stored
              /\ req[s].pc \in Ending => req'[s].pc \in Ending /\ req'[s].u = req[s].u
    PROVE  SoleInv'
<1>1. committed \subseteq [key : Keys, upload : Uploads, size : Nat]
  BY DEF IInv, TypeOK
<1>2. \A s \in Requests : req'[s].pc # "idle" => row'[req'[s].u].status \in Stored
  OBVIOUS
<1>3. \A c \in committed : \/ row'[c.upload].status = "deleted"
                           \/ \E r \in Requests : req'[r].pc \in Ending /\ req'[r].u = c.upload
  BY <1>1 DEF SoleInv, Retiring
<1> QED BY <1>2, <1>3 DEF SoleInv, Retiring, OneNodePerSession

\* InitiateUpload writes a stored row where there was a stored row or none.
LEMMA InitiateSole ==
    ASSUME IInv, SoleInv, NEW u \in Uploads, NEW s \in Shapes,
           InitiateResume(u, s) \/ InitiateReuse(u, s) \/ InitiateCreate(u, s)
    PROVE  SoleInv'
<1>0. PICK status \in Stored : \E expires : Reshape(u, s, status, expires)
  BY DEF InitiateResume, InitiateReuse, InitiateCreate, Reusable, Stored, Open
<1>1. PICK expires : Reshape(u, s, status, expires)
  BY <1>0
<1>2. UNCHANGED <<committed, req>> /\ row[u].status # "deleted" /\ row \in [Uploads -> Row]
  BY DEF InitiateResume, InitiateReuse, InitiateCreate, Reusable, Stored, Open, IInv, TypeOK
<1>3. \A v \in Uploads : row'[v] = row[v] \/ (v = u /\ row'[v].status \in Stored)
  BY <1>1, <1>2 DEF Reshape
<1>4. \A r \in Requests : req[r].pc # "idle" => req[r].u \in Uploads
  BY DEF IInv, RequestBound
<1> QED BY <1>2, <1>3, <1>4, SoleFrame DEF SoleInv, Retiring

\* A call that starts has loaded a stored row.
LEMMA CallSole ==
    ASSUME IInv, SoleInv, NEW r \in Requests, Call(r)
    PROVE  SoleInv'
<1>0. PICK u \in Uploads : \E pc, n, size : LoadOwned(r, u, pc, n, size)
  BY DEF Call, StartChunk, StartConfirm, StartComplete, StartAbort, Load
<1>1. PICK pc, n, size : LoadOwned(r, u, pc, n, size)
  BY <1>0
<1>2. req \in [Requests -> ReqState] /\ \A s \in Requests : req[s].pc # "idle" => req[s].u \in Uploads
  BY DEF IInv, TypeOK, RequestBound
<1>3. /\ req'[r].u = u /\ row[u].status \in Stored /\ req[r].pc = "idle"
      /\ \A s \in Requests \ {r} : req'[s] = req[s]
      /\ UNCHANGED <<row, committed>>
  BY <1>1, <1>2 DEF LoadOwned, IdleReq
<1> QED BY <1>2, <1>3, SoleFrame DEF SoleInv, Retiring, Ending

\* A call in flight goes on with its session, or ends where it has committed nothing.
LEMMA StepSole ==
    ASSUME IInv, SoleInv, NEW r \in Requests,
           Step(r), ~RetireSession(r), CommitNode(r) => UNCHANGED committed
    PROVE  SoleInv'
<1>1. /\ req \in [Requests -> ReqState] /\ row \in [Uploads -> Row] /\ req[r] \in ReqState
      /\ \A s \in Requests : req[s].pc # "idle" => req[s].u \in Uploads
  BY DEF IInv, TypeOK, RequestBound
<1>2. /\ UNCHANGED committed
      /\ \A s \in Requests \ {r} : req'[s] = req[s]
      /\ req[r].pc # "idle"
      /\ req'[r].pc # "idle" => req'[r].u = req[r].u
  <2>1. ASSUME NEW pc \in ReqPc, Goto(r, pc)
        PROVE  (\A s \in Requests \ {r} : req'[s] = req[s]) /\ req'[r].u = req[r].u
    <3>1. req' = [req EXCEPT ![r] = [req[r] EXCEPT !.pc = pc]]
      BY <2>1 DEF Goto
    <3>2. [req[r] EXCEPT !.pc = pc].u = req[r].u
      BY <1>1 DEF ReqState
    <3> QED BY <1>1, <3>1, <3>2
  <2>2. Done(r) => (\A s \in Requests \ {r} : req'[s] = req[s]) /\ req'[r].pc = "idle"
    BY <1>1 DEF Done, IdleReq
  <2>3. CASE StatPart(r)
    BY <1>1, <2>2, <2>3 DEF StatPart, ReqState
  <2>4. CASE ListParts(r)
    <3>1. ASSUME NEW k \in Keys, NEW size,
                 req' = [req EXCEPT ![r].pc = "copy", ![r].key = k, ![r].n = 1, ![r].size = size]
          PROVE  (\A s \in Requests \ {r} : req'[s] = req[s]) /\ req'[r].u = req[r].u
      BY <1>1, <3>1 DEF ReqState
    <3> QED BY <2>2, <2>4, <3>1 DEF ListParts
  <2>5. CASE CopyPart(r)
    <3>1. ASSUME NEW n, NEW sum, req' = [req EXCEPT ![r].n = n, ![r].sum = sum]
          PROVE  (\A s \in Requests \ {r} : req'[s] = req[s]) /\ req'[r].u = req[r].u
      BY <1>1, <3>1 DEF ReqState
    <3>2. UNCHANGED committed /\ req[r].pc # "idle" /\ "commit" \in ReqPc /\ "undo" \in ReqPc
      BY <2>5 DEF CopyPart, ReqPc
    <3>3. \/ Done(r)
          \/ Goto(r, "commit")
          \/ Goto(r, "undo")
          \/ \E n, sum : req' = [req EXCEPT ![r].n = n, ![r].sum = sum]
      BY <2>5, Zenon DEF CopyPart
    <3>4. CASE \E n, sum : req' = [req EXCEPT ![r].n = n, ![r].sum = sum]
      <4>1. (\A s \in Requests \ {r} : req'[s] = req[s]) /\ req'[r].u = req[r].u
        BY <3>1, <3>4, Zenon
      <4> QED BY <3>2, <4>1
    <3>5. CASE Done(r)
      BY <2>2, <3>2, <3>5
    <3>6. CASE Goto(r, "commit") \/ Goto(r, "undo")
      <4>1. (\A s \in Requests \ {r} : req'[s] = req[s]) /\ req'[r].u = req[r].u
        BY <2>1, <3>2, <3>6, Zenon
      <4> QED BY <3>2, <4>1
    <3> QED BY <3>3, <3>4, <3>5, <3>6
  <2>6. CASE ~StatPart(r) /\ ~ListParts(r) /\ ~CopyPart(r)
    BY <2>1, <2>2, <2>6 DEF Step, ReqPc, PutPart, RemoveMismatch, RecordPart, UndoCompose,
       AbortSession, AbortSweep, DropParts, SweepStaged, CommitNode
  <2> QED BY <2>3, <2>4, <2>5, <2>6
<1>3. req[r].pc \in Ending => req'[r].pc \in Ending /\ req'[r].u = req[r].u
  BY <1>1 DEF Step, PutPart, RemoveMismatch, StatPart, RecordPart, ListParts, CopyPart, UndoCompose,
     AbortSession, AbortSweep, DropParts, SweepStaged, CommitNode, Goto, ReqState, Ending
<1>4. \A u \in Uploads : row'[u] = row[u] \/ (row[u].status \in Stored /\ row'[u].status \in Stored)
  <2>1. CASE RecordPart(r) \/ AbortSession(r)
    <3>1. req[r].w \in Row
      BY <1>1 DEF ReqState
    <3>2. [req[r].w EXCEPT !.status = "inprogress"].status \in Stored
      BY <3>1 DEF Row, Stored, Open
    <3>3. [req[r].w EXCEPT !.status = "aborted"].status \in Stored
      BY <3>1 DEF Row, Stored
    <3> QED BY <1>1, <2>1, <3>2, <3>3 DEF RecordPart, AbortSession
  <2>2. CASE ~RecordPart(r) /\ ~AbortSession(r)
    BY <2>2 DEF Step, PutPart, RemoveMismatch, StatPart, ListParts, CopyPart, UndoCompose, AbortSweep,
       DropParts, SweepStaged, CommitNode
  <2> QED BY <2>1, <2>2
<1> QED BY <1>1, <1>2, <1>3, <1>4, SoleFrame DEF SoleInv, Retiring, Stored, Open

\* The commit: this session has no node yet, since it is stored and nobody else ends.
LEMMA CommitSole ==
    ASSUME IInv, SoleInv, OneCall, NEW r \in Requests, CommitNode(r), ~UNCHANGED committed
    PROVE  SoleInv'
<1> DEFINE c == [key |-> req[r].key, upload |-> req[r].u, size |-> req[r].size]
<1>1. /\ committed' = committed \cup {c} /\ c.upload = req[r].u
      /\ UNCHANGED row /\ req[r].pc = "commit" /\ Goto(r, "dropParts")
  BY DEF CommitNode
<1> HIDE DEF c
<1>2. req \in [Requests -> ReqState]
  BY DEF IInv, TypeOK
<1>3. \A s \in Requests : s = r
  BY DEF OneCall
<1>4. row[req[r].u].status \in Stored
  BY <1>1 DEF SoleInv, Retiring
<1>5. \A d \in committed : row[d.upload].status = "deleted"
  BY <1>1, <1>3 DEF SoleInv, Retiring, Ending
<1>6. \A d \in committed : d.upload # req[r].u
  BY <1>4, <1>5 DEF Stored, Open
<1>7. req'[r].pc = "dropParts" /\ req'[r].u = req[r].u
  BY <1>1, <1>2 DEF Goto, ReqState
<1>8. Retiring'
  BY <1>1, <1>3, <1>4, <1>5, <1>7 DEF Retiring, Ending
<1>9. OneNodePerSession'
  BY <1>1, <1>6 DEF SoleInv, OneNodePerSession
<1> QED BY <1>8, <1>9 DEF SoleInv

\* DeleteUpload: the session is gone and the only call is over.
LEMMA RetireSole ==
    ASSUME IInv, SoleInv, OneCall, NEW r \in Requests, RetireSession(r)
    PROVE  SoleInv'
<1>1. /\ req \in [Requests -> ReqState] /\ row \in [Uploads -> Row]
      /\ committed \subseteq [key : Keys, upload : Uploads, size : Nat]
      /\ req[r].u \in Uploads
  BY DEF IInv, TypeOK, RequestBound, RetireSession
<1>2. \A s \in Requests : s = r
  BY DEF OneCall
<1>3. UNCHANGED committed /\ req'[r].pc = "idle"
  BY <1>1 DEF RetireSession, Done, IdleReq
<1>4. [NoRow EXCEPT !.status = "deleted"].status = "deleted"
  BY DEF NoRow
<1>5. \A u \in Uploads : row'[u] = row[u] \/ row'[u].status = "deleted"
  BY <1>1, <1>4 DEF RetireSession
<1>6. row'[req[r].u].status = "deleted"
  BY <1>1, <1>4 DEF RetireSession
<1>7. Retiring'
  BY <1>1, <1>2, <1>3, <1>5, <1>6 DEF SoleInv, Retiring
<1> QED BY <1>3, <1>7 DEF SoleInv, OneNodePerSession

\* The maintenance tasks write only rows that are stored, and they stay so.
LEMMA JobSole ==
    ASSUME IInv, SoleInv,
           \/ StartExpire \/ StartPurge \/ StartGc \/ JobStep \/ JobAbandoned \/ Tick \/ UNCHANGED vars
           \/ \E u \in Uploads, n \in PartNo, size \in PartSizes : ClientPut(u, n, size)
    PROVE  SoleInv'
<1>1. /\ row \in [Uploads -> Row] /\ job \in JobState
      /\ \A s \in Requests : req[s].pc # "idle" => req[s].u \in Uploads
  BY DEF IInv, TypeOK, RequestBound
<1>2. UNCHANGED <<committed, req>>
  BY DEF StartExpire, StartPurge, StartGc, JobStep, JobAbandoned, Tick, vars, ClientPut, ExpireRow,
     PurgePrefix, GcRemove, ExpireParts, ExpireQueue, PurgeRow, GcList, JobEnds
<1>3. \A u \in Uploads : row'[u] = row[u] \/ (row[u].status \in Stored /\ row'[u].status \in Stored)
  <2>1. ASSUME NEW u \in Uploads, ExpireRow(u)
        PROVE  \A v \in Uploads : row'[v] = row[v] \/ (row[v].status \in Stored /\ row'[v].status \in Stored)
    <3>1. job.rows[u] \in Row
      BY <1>1 DEF JobState
    <3>2. [job.rows[u] EXCEPT !.status = "expired"].status \in Stored
      BY <3>1 DEF Row, Stored
    <3> QED BY <1>1, <2>1, <3>2 DEF ExpireRow
  <2>2. CASE ~\E u \in Uploads : ExpireRow(u)
    <3>1. UNCHANGED row
      BY <2>2 DEF StartExpire, StartPurge, StartGc, JobStep, JobAbandoned, Tick, vars, ClientPut,
         PurgePrefix, GcRemove, ExpireParts, ExpireQueue, PurgeRow, GcList, JobEnds
    <3> QED BY <3>1
  <2> QED BY <2>1, <2>2
<1> QED BY <1>1, <1>2, <1>3, SoleFrame DEF SoleInv, Retiring, Stored, Open

\* Every step, when calls come one at a time and are not cut short.
LEMMA SoleStep ==
    ASSUME OneCall, "abandon" \notin Ops, IInv, SoleInv, [Next]_vars
    PROVE  SoleInv'
<1>1. CASE Initiate
  BY <1>1, InitiateSole DEF Initiate
<1>2. ASSUME NEW r \in Requests, Call(r) \/ Step(r) \/ Abandon(r)
      PROVE  SoleInv'
  BY <1>2, CallSole, StepSole, CommitSole, RetireSole DEF Step, Abandon
<1>3. CASE \/ StartExpire \/ StartPurge \/ StartGc \/ JobStep \/ JobAbandoned \/ Tick \/ UNCHANGED vars
           \/ \E u \in Uploads, n \in PartNo, size \in PartSizes : ClientPut(u, n, size)
  BY <1>3, JobSole
<1> QED BY <1>1, <1>2, <1>3 DEF Next

\* When calls come one at a time and are not cut short, one session becomes one node,
\* although the row is deleted after the transaction that creates the node
\* (CompleteUpload against InitiateUpload and expire_uploads).
THEOREM OneNodeEach ==
    ASSUME OneCall, "abandon" \notin Ops
    PROVE  Spec => []OneNodePerSession
<1>1. Init => SoleInv
  BY DEF Init, SoleInv, Retiring, OneNodePerSession, IdleReq
<1>2. IInv /\ SoleInv /\ [Next]_vars => SoleInv'
  BY SoleStep
<1>3. SoleInv => OneNodePerSession
  BY DEF SoleInv
<1> QED BY <1>1, <1>2, <1>3, Invariance, PTL DEF Spec

-----------------------------------------------------------------------------
(* A completion that fails leaves the session to be completed again.        *)

\* Only the call that committed a node of a session cleans up after it, and only such a
\* session is gone.
SessionKept ==
    /\ \A r \in Requests : req[r].pc \in Ending => req[r].u \in Served
    /\ \A u \in Uploads \ Served : row[u].status # "deleted"

\* The calls and the tasks that give parts up on purpose.
CallDropping == {"mismatch", "abort", "abortSweep"}
JobDropping  == {"expire", "expireParts", "expireQueue", "gcList", "gc"}

\* None of them is on its way, nothing of a session without a node is queued for removal,
\* and the bytes of its parts are there before the row of the part is.
BytesKept ==
    /\ \A r \in Requests : req[r].pc \notin CallDropping
    /\ job.pc \notin JobDropping
    /\ \A u \in Uploads \ Served :
          /\ queue[u] = 0
          /\ \A n \in PartNo : part[u][n] # Absent => staged[u][n] # Absent
    /\ \A r \in Requests :
          req[r].pc = "record" /\ req[r].u \notin Served => staged[req[r].u][req[r].n] # Absent

RetryInv == SessionKept /\ (Undisturbed => BytesKept)

\* A step after which no more calls clean up and no more sessions are gone.
LEMMA SessionFrame ==
    ASSUME SessionKept, Served \subseteq Served',
           \A s \in Requests : req'[s].pc \in Ending =>
              \/ req'[s].u \in Served'
              \/ req[s].pc \in Ending /\ req'[s].u = req[s].u,
           \A u \in Uploads : row'[u].status = "deleted" => row[u].status = "deleted" \/ u \in Served
    PROVE  SessionKept'
BY DEF SessionKept

\* A call that starts is at its first call to a repository or to the store.
LEMMA CallPc ==
    ASSUME req \in [Requests -> ReqState], NEW r \in Requests, Call(r)
    PROVE  /\ req'[r].pc \in {"put", "stat", "list", "abort"}
           /\ \A s \in Requests \ {r} : req'[s] = req[s]
           /\ UNCHANGED <<row, part, staged, committed, queue, job>>
           /\ "abort" \notin Ops => req'[r].pc # "abort"
<1>0. PICK u \in Uploads, pc \in {"put", "stat", "list", "abort"} :
         (\E n, size : LoadOwned(r, u, pc, n, size)) /\ (pc = "abort" => "abort" \in Ops)
  BY Zenon DEF Call, StartChunk, StartConfirm, StartComplete, StartAbort, Load
<1>1. PICK n, size : LoadOwned(r, u, pc, n, size)
  BY <1>0
<1> QED BY <1>0, <1>1 DEF LoadOwned, IdleReq

\* The check of the parts ends the call or goes on to the copies.
LEMMA ListPc ==
    ASSUME req \in [Requests -> ReqState], NEW r \in Requests, ListParts(r)
    PROVE  req'[r].pc \in {"idle", "copy"} /\ \A s \in Requests \ {r} : req'[s] = req[s]
<1>1. Done(r) \/ \E k, z : req' = [req EXCEPT ![r].pc = "copy", ![r].key = k, ![r].n = 1, ![r].size = z]
  BY DEF ListParts
<1>2. CASE Done(r)
  BY <1>2 DEF Done, IdleReq
<1>3. ASSUME NEW k, NEW z, req' = [req EXCEPT ![r].pc = "copy", ![r].key = k, ![r].n = 1, ![r].size = z]
      PROVE  req'[r].pc = "copy" /\ \A s \in Requests \ {r} : req'[s] = req[s]
  BY <1>3 DEF ReqState
<1> QED BY <1>1, <1>2, <1>3

\* What every action does to the handlers' cleanup and to the rows.
LEMMA SessionStep ==
    ASSUME IInv, SessionKept, [Next]_vars
    PROVE  SessionKept'
<1>0. /\ req \in [Requests -> ReqState] /\ row \in [Uploads -> Row] /\ job \in JobState
      /\ \A s \in Requests : req[s].pc # "idle" => req[s].u \in Uploads
  BY DEF IInv, TypeOK, RequestBound
<1>1. CASE Initiate
  <2>1. PICK u \in Uploads, s \in Shapes : InitiateResume(u, s) \/ InitiateReuse(u, s) \/ InitiateCreate(u, s)
    BY <1>1 DEF Initiate
  <2>2. UNCHANGED <<req, committed>>
    BY <2>1 DEF InitiateResume, InitiateReuse, InitiateCreate
  <2>3. row[u].status \in Open \/ row'[u].status = "pending"
    BY <1>0, <2>1 DEF InitiateResume, InitiateReuse, InitiateCreate, Reshape, Reusable
  <2>4. row'[u].status \in Open \cup {row[u].status} \/ row'[u].status = "pending"
    BY <1>0, <2>1 DEF InitiateResume, InitiateReuse, InitiateCreate, Reshape
  <2>5. \A v \in Uploads \ {u} : row'[v] = row[v]
    BY <1>0, <2>1 DEF InitiateResume, InitiateReuse, InitiateCreate, Reshape
  <2> QED BY <2>2, <2>3, <2>4, <2>5, SessionFrame DEF Served, Open
<1>2. ASSUME NEW r \in Requests, Call(r) \/ Abandon(r)
      PROVE  SessionKept'
  <2>1. UNCHANGED <<row, committed>>
    BY <1>2 DEF Call, StartChunk, StartConfirm, StartComplete, StartAbort, Load, LoadOwned, Abandon
  <2>2. req'[r].pc \notin Ending /\ \A s \in Requests \ {r} : req'[s] = req[s]
    <3>1. CASE Abandon(r)
      BY <1>0, <3>1 DEF Abandon, Done, IdleReq, Ending
    <3>2. CASE Call(r)
      BY <1>0, <3>2, CallPc DEF Ending
    <3> QED BY <1>2, <3>1, <3>2
  <2> QED BY <2>1, <2>2, SessionFrame DEF Served
<1>3. ASSUME NEW r \in Requests, RecordPart(r) \/ AbortSession(r)
      PROVE  SessionKept'
  <2>1. UNCHANGED committed /\ req[r].pc # "idle" /\ req[r].u \in Uploads /\ req[r].w \in Row
    BY <1>0, <1>3 DEF RecordPart, AbortSession, ReqState
  <2>2. req'[r].pc \notin Ending /\ \A s \in Requests \ {r} : req'[s] = req[s]
    BY <1>0, <1>3 DEF RecordPart, AbortSession, Goto, Done, IdleReq, Ending, ReqState
  <2>3. \A v \in Uploads : row'[v] = row[v] \/ row'[v].status \in {"inprogress", "aborted"}
    BY <1>0, <1>3, <2>1 DEF RecordPart, AbortSession, Row
  <2> QED BY <2>1, <2>2, <2>3, SessionFrame DEF Served
<1>4. ASSUME NEW r \in Requests, CommitNode(r)
      PROVE  SessionKept'
  <2>1. UNCHANGED row /\ \A s \in Requests \ {r} : req'[s] = req[s]
    BY <1>0, <1>4 DEF CommitNode, Goto
  <2>2. CASE Goto(r, "undo") /\ UNCHANGED committed
    <3>1. req'[r].pc = "undo"
      BY <1>0, <2>2 DEF Goto, ReqState
    <3> QED BY <2>1, <2>2, <3>1, SessionFrame DEF Served, Ending
  <2>3. ASSUME Goto(r, "dropParts"),
               committed' = committed \cup {[key |-> req[r].key, upload |-> req[r].u, size |-> req[r].size]}
        PROVE  SessionKept'
    <3> DEFINE c == [key |-> req[r].key, upload |-> req[r].u, size |-> req[r].size]
    <3>0. committed' = committed \cup {c} /\ c.upload = req[r].u
      BY <2>3
    <3> HIDE DEF c
    <3>1. Served \subseteq Served' /\ req[r].u \in Served'
      BY <3>0 DEF Served
    <3>2. req'[r].u = req[r].u
      BY <1>0, <2>3 DEF Goto, ReqState
    <3> QED BY <2>1, <3>1, <3>2, SessionFrame
  <2> QED BY <1>4, <2>2, <2>3 DEF CommitNode
<1>5. ASSUME NEW r \in Requests,
             \/ PutPart(r) \/ RemoveMismatch(r) \/ StatPart(r) \/ ListParts(r) \/ CopyPart(r)
             \/ UndoCompose(r) \/ AbortSweep(r)
      PROVE  SessionKept'
  <2>1. UNCHANGED <<row, committed>>
    BY <1>5 DEF PutPart, RemoveMismatch, StatPart, ListParts, CopyPart, UndoCompose, AbortSweep
  <2>2. req'[r].pc \notin Ending /\ \A s \in Requests \ {r} : req'[s] = req[s]
    <3>1. CASE PutPart(r) \/ RemoveMismatch(r) \/ StatPart(r) \/ UndoCompose(r) \/ AbortSweep(r)
      BY <1>0, <3>1 DEF PutPart, RemoveMismatch, StatPart, UndoCompose, AbortSweep,
         Goto, Done, IdleReq, Ending, ReqState
    <3>2. CASE ListParts(r)
      BY <1>0, <3>2, ListPc DEF Ending
    <3>3. CASE CopyPart(r)
      BY <1>0, <3>3 DEF CopyPart, Goto, Done, IdleReq, Ending, ReqState
    <3> QED BY <1>5, <3>1, <3>2, <3>3
  <2> QED BY <2>1, <2>2, SessionFrame DEF Served
<1>6. ASSUME NEW r \in Requests, DropParts(r) \/ SweepStaged(r) \/ RetireSession(r)
      PROVE  SessionKept'
  <2>1. UNCHANGED committed /\ req[r].pc \in Ending /\ req[r].u \in Uploads /\ req[r].u \in Served
    BY <1>0, <1>6 DEF DropParts, SweepStaged, RetireSession, Ending, SessionKept
  <2>2. (req'[r].pc = "idle" \/ req'[r].u = req[r].u) /\ \A s \in Requests \ {r} : req'[s] = req[s]
    BY <1>0, <1>6 DEF DropParts, SweepStaged, RetireSession, Goto, Done, IdleReq, ReqState
  <2>3. \A v \in Uploads \ {req[r].u} : row'[v] = row[v]
    BY <1>0, <1>6 DEF DropParts, SweepStaged, RetireSession
  <2> QED BY <2>1, <2>2, <2>3, SessionFrame DEF Served, Ending
<1>7. CASE \/ StartExpire \/ StartPurge \/ StartGc \/ JobStep \/ JobAbandoned \/ Tick \/ UNCHANGED vars
           \/ \E u \in Uploads, n \in PartNo, size \in PartSizes : ClientPut(u, n, size)
  <2>1. UNCHANGED <<committed, req>>
    BY <1>7 DEF StartExpire, StartPurge, StartGc, JobStep, JobAbandoned, Tick, vars, ClientPut, ExpireRow,
       PurgePrefix, GcRemove, ExpireParts, ExpireQueue, PurgeRow, GcList, JobEnds
  <2>2. \A v \in Uploads : row'[v] = row[v] \/ row'[v].status = "expired"
    <3>1. ASSUME NEW u \in Uploads, ExpireRow(u)
          PROVE  \A v \in Uploads : row'[v] = row[v] \/ row'[v].status = "expired"
      BY <1>0, <3>1 DEF ExpireRow, JobState, Row
    <3>2. CASE ~\E u \in Uploads : ExpireRow(u)
      <4>1. UNCHANGED row
        BY <1>7, <3>2 DEF StartExpire, StartPurge, StartGc, JobStep, JobAbandoned, Tick, vars, ClientPut,
           PurgePrefix, GcRemove, ExpireParts, ExpireQueue, PurgeRow, GcList, JobEnds
      <4> QED BY <4>1
    <3> QED BY <3>1, <3>2
  <2> QED BY <2>1, <2>2, SessionFrame DEF Served
<1> QED BY <1>1, <1>2, <1>3, <1>4, <1>5, <1>6, <1>7 DEF Next, Step

\* A step that drops nothing of a session without a node, queues nothing of it, and records
\* no part.
LEMMA BytesFrame ==
    ASSUME BytesKept, Served \subseteq Served', job'.pc \notin JobDropping,
           \A u \in Uploads \ Served : queue'[u] = queue[u] /\ part'[u] = part[u],
           \A u \in Uploads, n \in PartNo :
              u \notin Served /\ staged[u][n] # Absent => staged'[u][n] # Absent,
           \A s \in Requests :
              /\ req'[s].pc \notin CallDropping
              /\ req'[s].pc = "record" =>
                    \/ req'[s].u \in Uploads /\ req'[s].n \in PartNo /\ staged'[req'[s].u][req'[s].n] # Absent
                    \/ /\ req[s].pc = "record" /\ req'[s].u = req[s].u /\ req'[s].n = req[s].n
                       /\ req[s].u \in Uploads /\ req[s].n \in PartNo
    PROVE  BytesKept'
BY DEF BytesKept

\* UploadChunk and ConfirmUploadPart: a part is there before it is recorded.
LEMMA PartBytes ==
    ASSUME IInv, BytesKept, Undisturbed, NEW r \in Requests, PutPart(r) \/ StatPart(r) \/ RecordPart(r)
    PROVE  BytesKept'
<1>1. /\ req \in [Requests -> ReqState] /\ req[r] \in ReqState /\ req[r].u \in Uploads /\ req[r].n \in PartNo
      /\ staged \in [Uploads -> [PartNo -> Nat \cup {Absent}]]
      /\ part \in [Uploads -> [PartNo -> Nat \cup {Absent}]]
      /\ \A s \in Requests : req[s].pc = "record" => req[s].u \in Uploads /\ req[s].n \in PartNo
  BY DEF IInv, TypeOK, RequestBound, PutPart, StatPart, RecordPart
<1>2. UNCHANGED <<committed, queue, job>> /\ Served' = Served
  BY DEF PutPart, StatPart, RecordPart, Served
<1>3. CASE PutPart(r)
  <2>1. staged' = [staged EXCEPT ![req[r].u][req[r].n] = req[r].size] /\ Goto(r, "record") /\ UNCHANGED part
    BY <1>3 DEF PutPart, Undisturbed
  <2>2. req[r].size # Absent
    BY <1>1 DEF ReqState, Absent
  <2>3. /\ req'[r].u = req[r].u /\ req'[r].n = req[r].n /\ req'[r].pc = "record"
        /\ \A s \in Requests \ {r} : req'[s] = req[s]
    BY <1>1, <2>1 DEF Goto, ReqState
  <2>4. /\ staged'[req[r].u][req[r].n] # Absent
        /\ \A u \in Uploads, n \in PartNo : staged[u][n] # Absent => staged'[u][n] # Absent
    BY <1>1, <2>1, <2>2
  <2> QED BY <1>1, <1>2, <2>1, <2>3, <2>4, BytesFrame DEF BytesKept, CallDropping
<1>4. CASE StatPart(r)
  <2>1. UNCHANGED <<part, staged>> /\ \A s \in Requests \ {r} : req'[s] = req[s]
    BY <1>1, <1>4 DEF StatPart, Done
  <2>2. \/ req'[r].pc = "idle"
        \/ /\ req'[r].pc = "record" /\ req'[r].u = req[r].u /\ req'[r].n = req[r].n
           /\ staged[req[r].u][req[r].n] # Absent
    BY <1>1, <1>4 DEF StatPart, Done, IdleReq, ReqState, Absent
  <2> QED BY <1>1, <1>2, <2>1, <2>2, BytesFrame DEF BytesKept, CallDropping
<1>5. CASE RecordPart(r)
  <2>1. /\ UNCHANGED staged /\ req[r].pc = "record"
        /\ req'[r].pc = "idle" /\ \A s \in Requests \ {r} : req'[s] = req[s]
    BY <1>1, <1>5 DEF RecordPart, Done, IdleReq
  <2>2. \A u \in Uploads, n \in PartNo : part'[u][n] = part[u][n] \/ (u = req[r].u /\ n = req[r].n)
    BY <1>1, <1>5 DEF RecordPart
  <2>3. \A u \in Uploads \ Served, n \in PartNo : part'[u][n] # Absent => staged[u][n] # Absent
    BY <1>1, <2>1, <2>2 DEF BytesKept
  <2> QED BY <1>1, <1>2, <2>1, <2>3 DEF BytesKept, CallDropping
<1> QED BY <1>3, <1>4, <1>5

\* The cleanup after a commit reaches the session that has its node.
LEMMA CleanupBytes ==
    ASSUME IInv, SessionKept, BytesKept, NEW r \in Requests,
           DropParts(r) \/ SweepStaged(r) \/ RetireSession(r)
    PROVE  BytesKept'
<1>1. /\ req \in [Requests -> ReqState] /\ req[r].u \in Uploads /\ req[r].u \in Served
      /\ staged \in [Uploads -> [PartNo -> Nat \cup {Absent}]]
      /\ part \in [Uploads -> [PartNo -> Nat \cup {Absent}]]
      /\ queue \in [Uploads -> Nat]
      /\ \A s \in Requests : req[s].pc = "record" => req[s].u \in Uploads /\ req[s].n \in PartNo
  BY DEF IInv, TypeOK, RequestBound, DropParts, SweepStaged, RetireSession, SessionKept, Ending
<1>2. UNCHANGED <<committed, job>> /\ Served' = Served
  BY DEF DropParts, SweepStaged, RetireSession, Served
<1>3. \A u \in Uploads \ Served : queue'[u] = queue[u] /\ part'[u] = part[u]
  BY <1>1 DEF DropParts, SweepStaged, RetireSession, RemovePrefixOrQueue, Enqueue
<1>4. \A u \in Uploads \ Served : staged'[u] = staged[u]
  <2>1. CASE RemovedInPart(req[r].u)
    BY <1>1, <2>1, RemovedInPartType
  <2>2. CASE ~RemovedInPart(req[r].u)
    BY <1>1, <2>2 DEF DropParts, SweepStaged, RetireSession, RemovePrefixOrQueue
  <2> QED BY <2>1, <2>2
<1>5. /\ req'[r].pc \in {"idle", "sweep", "retire"}
      /\ \A s \in Requests \ {r} : req'[s] = req[s]
  BY <1>1 DEF DropParts, SweepStaged, RetireSession, Goto, Done, IdleReq, ReqState
<1> QED BY <1>1, <1>2, <1>3, <1>4, <1>5, BytesFrame DEF BytesKept, CallDropping

\* Where a run of purge_deletions goes on.
LEMMA JobPurges ==
    ASSUME IInv
    PROVE  /\ PurgeRow => job'.pc = "purge"
           /\ \A u \in Uploads : PurgePrefix(u) => job'.pc \in {"purge", "purgeRow"}
<1>1. job \in JobState
  BY DEF IInv, TypeOK
<1> QED BY <1>1 DEF PurgeRow, PurgePrefix, JobState

\* purge_deletions works off prefixes of sessions that have their node.
LEMMA PurgeBytes ==
    ASSUME IInv, BytesKept, PurgeRow \/ \E u \in Uploads : PurgePrefix(u)
    PROVE  BytesKept'
<1>1. /\ staged \in [Uploads -> [PartNo -> Nat \cup {Absent}]]
      /\ queue \in [Uploads -> Nat]
      /\ \A s \in Requests : req[s].pc = "record" => req[s].u \in Uploads /\ req[s].n \in PartNo
  BY DEF IInv, TypeOK, RequestBound
<1>2. UNCHANGED <<committed, part, req>> /\ Served' = Served
  BY DEF PurgeRow, PurgePrefix, Served
<1>3. CASE PurgeRow
  <2>1. job.u \in Uploads /\ queue[job.u] >= 1
    BY <1>3 DEF PurgeRow, IInv, JobBound
  <2>2. job.u \in Served
    BY <2>1 DEF BytesKept
  <2>3. UNCHANGED staged /\ job'.pc = "purge" /\ \A u \in Uploads \ Served : queue'[u] = queue[u]
    BY <1>1, <1>3, <2>2, JobPurges DEF PurgeRow
  <2> QED BY <1>1, <1>2, <2>3, BytesFrame DEF BytesKept, JobDropping
<1>4. ASSUME NEW u \in Uploads, PurgePrefix(u)
      PROVE  BytesKept'
  <2>1. queue[u] >= 1
    BY <1>4 DEF PurgePrefix, IInv, JobBound
  <2>2. u \in Served
    BY <2>1 DEF BytesKept
  <2>3. \A v \in Uploads \ {u} : staged'[v] = staged[v]
    <3>1. CASE RemovedInPart(u)
      BY <1>1, <3>1, RemovedInPartType
    <3>2. CASE ~RemovedInPart(u)
      BY <1>1, <1>4, <3>2 DEF PurgePrefix
    <3> QED BY <3>1, <3>2
  <2>4. UNCHANGED queue /\ job'.pc \in {"purge", "purgeRow"}
    BY <1>4, JobPurges DEF PurgePrefix
  <2> QED BY <1>1, <1>2, <2>2, <2>3, <2>4, BytesFrame DEF BytesKept, JobDropping
<1> QED BY <1>3, <1>4

\* Every step, when nothing is aborted, expired, collected or refused for its checksum.
LEMMA BytesStep ==
    ASSUME IInv, SessionKept, BytesKept, Undisturbed, [Next]_vars
    PROVE  BytesKept'
<1>0. /\ req \in [Requests -> ReqState] /\ job \in JobState
      /\ \A s \in Requests : req[s].pc = "record" => req[s].u \in Uploads /\ req[s].n \in PartNo
      /\ staged \in [Uploads -> [PartNo -> Nat \cup {Absent}]]
  BY DEF IInv, TypeOK, RequestBound
<1>1. CASE Initiate
  <2>1. UNCHANGED <<req, committed, part, staged, queue, job>> /\ Served' = Served
    BY <1>1 DEF Initiate, InitiateResume, InitiateReuse, InitiateCreate, Served
  <2> QED BY <1>0, <2>1, BytesFrame DEF BytesKept
<1>2. ASSUME NEW r \in Requests, Call(r) \/ Abandon(r)
      PROVE  BytesKept'
  <2>1. /\ UNCHANGED <<committed, part, staged, queue, job>> /\ Served' = Served
        /\ req'[r].pc \in {"idle", "put", "stat", "list"}
        /\ \A s \in Requests \ {r} : req'[s] = req[s]
    <3>1. CASE Call(r)
      BY <1>0, <3>1, CallPc DEF Undisturbed, Served
    <3>2. CASE Abandon(r)
      BY <1>0, <3>2 DEF Abandon, Done, IdleReq, Served
    <3> QED BY <1>2, <3>1, <3>2
  <2> QED BY <1>0, <2>1, BytesFrame DEF BytesKept, CallDropping
<1>3. ASSUME NEW r \in Requests, PutPart(r) \/ StatPart(r) \/ RecordPart(r)
      PROVE  BytesKept'
  BY <1>3, PartBytes
<1>4. ASSUME NEW r \in Requests, DropParts(r) \/ SweepStaged(r) \/ RetireSession(r)
      PROVE  BytesKept'
  BY <1>4, CleanupBytes
<1>5. ASSUME NEW r \in Requests, RemoveMismatch(r) \/ AbortSession(r) \/ AbortSweep(r)
      PROVE  FALSE
  BY <1>5 DEF BytesKept, CallDropping, RemoveMismatch, AbortSession, AbortSweep
<1>6. ASSUME NEW r \in Requests, ListParts(r) \/ CopyPart(r) \/ CommitNode(r) \/ UndoCompose(r)
      PROVE  BytesKept'
  <2>1. UNCHANGED <<part, staged, queue, job>> /\ Served \subseteq Served'
    BY <1>6 DEF ListParts, CopyPart, CommitNode, UndoCompose, Served
  <2>2. /\ req'[r].pc \in {"idle", "copy", "commit", "undo", "dropParts"}
        /\ \A s \in Requests \ {r} : req'[s] = req[s]
    <3>1. CASE ListParts(r)
      BY <1>0, <3>1, ListPc
    <3>2. CASE CopyPart(r)
      BY <1>0, <3>2 DEF CopyPart, Goto, Done, IdleReq, ReqState
    <3>3. CASE CommitNode(r) \/ UndoCompose(r)
      BY <1>0, <3>3 DEF CommitNode, UndoCompose, Goto, Done, IdleReq, ReqState
    <3> QED BY <1>6, <3>1, <3>2, <3>3
  <2> QED BY <1>0, <2>1, <2>2, BytesFrame DEF BytesKept, CallDropping
<1>7. ASSUME NEW u \in Uploads, NEW n \in PartNo, NEW size \in PartSizes, ClientPut(u, n, size)
      PROVE  BytesKept'
  <2>1. UNCHANGED <<committed, part, queue, req, job>> /\ Served' = Served
    BY <1>7 DEF ClientPut, Served
  <2>2. size # Absent
    BY <1>7, PartSizeType DEF Absent
  <2>3. \A v \in Uploads, m \in PartNo : staged[v][m] # Absent => staged'[v][m] # Absent
    BY <1>0, <1>7, <2>2 DEF ClientPut
  <2> QED BY <1>0, <2>1, <2>3, BytesFrame DEF BytesKept
<1>8. CASE PurgeRow \/ \E u \in Uploads : PurgePrefix(u)
  BY <1>8, PurgeBytes
<1>9. CASE StartPurge \/ JobEnds \/ JobAbandoned \/ Tick \/ UNCHANGED vars
  <2>1. UNCHANGED <<committed, part, staged, queue, req>> /\ Served' = Served
    BY <1>9 DEF StartPurge, JobEnds, JobAbandoned, Tick, vars, Served
  <2>2. job'.pc \in {job.pc, "idle", "purge"}
    <3>1. CASE StartPurge
      BY <3>1 DEF StartPurge, IdleJob
    <3>2. CASE JobEnds \/ JobAbandoned
      BY <3>2 DEF JobEnds, JobAbandoned, IdleJob
    <3>3. CASE Tick \/ UNCHANGED vars
      BY <3>3 DEF Tick, vars
    <3> QED BY <1>9, <3>1, <3>2, <3>3
  <2> QED BY <1>0, <2>1, <2>2, BytesFrame DEF BytesKept, JobDropping
<1>10. ~(StartExpire \/ StartGc \/ ExpireParts \/ ExpireQueue \/ GcList)
  BY DEF Undisturbed, StartExpire, StartGc, ExpireParts, ExpireQueue, GcList, BytesKept, JobDropping
<1>11. ~\E u \in Uploads : ExpireRow(u) \/ \E n \in PartNo : GcRemove(u, n)
  BY DEF ExpireRow, GcRemove, BytesKept, JobDropping
<1> QED BY <1>1, <1>2, <1>3, <1>4, <1>5, <1>6, <1>7, <1>8, <1>9, <1>10, <1>11 DEF Next, Step, JobStep

\* A CompleteUpload that is refused, fails, loses a race or is cut short anywhere can be
\* called again: a session is gone only after a node was committed from it, and until then
\* the bytes of its recorded parts stay, unless the client aborts or sends a wrong checksum
\* or the session expires or is collected (CompleteUpload, purge_deletions).
THEOREM UploadsCanBeRetried == Spec => []RetryPossible
<1>1. Init => RetryInv
  BY DEF Init, RetryInv, SessionKept, BytesKept, Ending, CallDropping, JobDropping, NoRows, NoRow,
     IdleReq, IdleJob, NoParts
<1>2. IInv /\ RetryInv /\ [Next]_vars => RetryInv'
  BY SessionStep, BytesStep DEF RetryInv, Undisturbed
<1>3. RetryInv => RetryPossible
  BY DEF RetryInv, SessionKept, BytesKept, RetryPossible
<1> QED BY <1>1, <1>2, <1>3, Invariance, PTL DEF Spec

-----------------------------------------------------------------------------
(* The bytes of the parts of a session (SumOf).  There is no induction over  *)
(* a recursive definition here: a number of parts for which a fact fails is  *)
(* followed down to the least one.                                           *)

\* s[i] is the sum of the first i values of f.
Sums(f, n, s) == s = [i \in 0..n |-> IF i = 0 THEN 0 ELSE s[i - 1] + f[i]]

\* Partial sums of the same values are the same, whatever the number of parts.
LEMMA SumsAgree ==
    ASSUME NEW f, NEW g, NEW n \in Nat, NEW m \in Nat, NEW s, NEW t, Sums(f, n, s), Sums(g, m, t),
           NEW k \in Nat, k <= n, k <= m, \A i \in 1..k : f[i] = g[i]
    PROVE  s[k] = t[k]
<1> DEFINE Bad == { i \in 0..k : s[i] # t[i] }
<1>1. /\ s[0] = 0 /\ \A i \in 1..n : s[i] = s[i - 1] + f[i]
      /\ t[0] = 0 /\ \A i \in 1..m : t[i] = t[i - 1] + g[i]
  BY DEF Sums
<1>2. CASE Bad = {}
  BY <1>2
<1>3. ASSUME Bad # {} PROVE FALSE
  <2>1. PICK j \in Bad : \A i \in Bad : j <= i
    <3>1. Bad \subseteq Nat
      OBVIOUS
    <3> HIDE DEF Bad
    <3> QED BY <1>3, <3>1, LeastExists
  <2>2. j \in 1..k /\ j - 1 \in 0..k
    BY <1>1
  <2>3. s[j - 1] = t[j - 1]
    BY <2>1, <2>2
  <2>4. s[j] = t[j]
    BY <1>1, <2>2, <2>3
  <2> QED BY <2>4
<1> QED BY <1>2, <1>3

\* There are partial sums for any number of parts.
LEMMA SumsExist ==
    ASSUME NEW f, NEW n \in Nat
    PROVE  \E s : Sums(f, n, s)
<1> DEFINE Bad == { i \in Nat : ~\E s : Sums(f, i, s) }
<1> SUFFICES ASSUME Bad # {} PROVE FALSE
  OBVIOUS
<1>1. PICK j \in Bad : \A i \in Bad : j <= i
  <2>1. Bad \subseteq Nat
    OBVIOUS
  <2> HIDE DEF Bad
  <2> QED BY <2>1, LeastExists
<1>2. CASE j = 0
  <2>1. Sums(f, 0, [i \in 0..0 |-> 0])
    BY DEF Sums
  <2> QED BY <1>2, <2>1
<1>3. CASE j # 0
  <2>1. j - 1 \in Nat /\ j - 1 \notin Bad
    BY <1>1, <1>3
  <2>2. PICK s : Sums(f, j - 1, s)
    BY <2>1
  <2> DEFINE t == [i \in 0..j |-> IF i = j THEN s[j - 1] + f[j] ELSE s[i]]
  <2>3. /\ s[0] = 0
        /\ \A i \in 1..(j - 1) : s[i] = s[i - 1] + f[i]
    BY <2>1, <2>2 DEF Sums
  <2>4. ASSUME NEW i \in 0..j PROVE t[i] = IF i = 0 THEN 0 ELSE t[i - 1] + f[i]
    <3>1. CASE i = 0
      BY <1>3, <2>3, <3>1
    <3>2. CASE i = j
      BY <1>3, <3>2
    <3>3. CASE i \in 1..(j - 1)
      BY <2>3, <3>3
    <3> QED BY <3>1, <3>2, <3>3
  <2>5. t = [i \in 0..j |-> t[i]]
    OBVIOUS
  <2> HIDE DEF t
  <2>6. Sums(f, j, t)
    BY <2>4, <2>5 DEF Sums
  <2> QED BY <2>6
<1> QED BY <1>2, <1>3

\* SumOf is the last of the partial sums.
LEMMA SumIsLast ==
    ASSUME NEW f, NEW n \in Nat, NEW s, Sums(f, n, s)
    PROVE  SumOf(f, n) = s[n]
<1> DEFINE t == CHOOSE t : t = [i \in 0..n |-> IF i = 0 THEN 0 ELSE t[i - 1] + f[i]]
<1>1. SumOf(f, n) = t[n]
  BY DEF SumOf
<1>2. Sums(f, n, t)
  BY DEF Sums
<1> HIDE DEF t
<1> QED BY <1>1, <1>2, SumsAgree

\* The sum over the empty list of parts is zero, one more part adds its size.
LEMMA SumStep ==
    ASSUME NEW f
    PROVE  /\ SumOf(f, 0) = 0
           /\ \A n \in Nat \ {0} : SumOf(f, n) = SumOf(f, n - 1) + f[n]
<1>1. SumOf(f, 0) = 0
  <2>1. PICK s : Sums(f, 0, s)
    BY SumsExist
  <2>2. SumOf(f, 0) = s[0]
    BY <2>1, SumIsLast
  <2>3. s[0] = 0
    BY <2>1 DEF Sums
  <2> QED BY <2>2, <2>3
<1>2. ASSUME NEW n \in Nat \ {0}
      PROVE  SumOf(f, n) = SumOf(f, n - 1) + f[n]
  <2>0. n - 1 \in Nat /\ n - 1 <= n /\ n - 1 <= n - 1
    OBVIOUS
  <2>1. PICK s : Sums(f, n, s)
    BY SumsExist
  <2>2. PICK t : Sums(f, n - 1, t)
    BY <2>0, SumsExist
  <2>3. SumOf(f, n) = s[n] /\ SumOf(f, n - 1) = t[n - 1]
    BY <2>0, <2>1, <2>2, SumIsLast
  <2>4. s[n - 1] = t[n - 1]
    BY <2>0, <2>1, <2>2, SumsAgree
  <2>5. s[n] = s[n - 1] + f[n]
    BY <2>1 DEF Sums
  <2> QED BY <2>3, <2>4, <2>5
<1> QED BY <1>1, <1>2

\* Parts of the same sizes have the same sum.
LEMMA SumSame ==
    ASSUME NEW f, NEW g, NEW n \in Nat, \A i \in 1..n : f[i] = g[i]
    PROVE  SumOf(f, n) = SumOf(g, n)
<1>1. PICK s : Sums(f, n, s)
  BY SumsExist
<1>2. PICK t : Sums(g, n, t)
  BY SumsExist
<1>3. s[n] = t[n]
  BY <1>1, <1>2, SumsAgree
<1> QED BY <1>1, <1>2, <1>3, SumIsLast

\* A sum of integers is an integer.
LEMMA SumType ==
    ASSUME NEW f, NEW n \in Nat, \A i \in 1..n : f[i] \in Int
    PROVE  SumOf(f, n) \in Int
<1> DEFINE Bad == { i \in 0..n : SumOf(f, i) \notin Int }
<1> SUFFICES ASSUME Bad # {} PROVE FALSE
  OBVIOUS
<1>1. PICK j \in Bad : \A i \in Bad : j <= i
  <2>1. Bad \subseteq Nat
    OBVIOUS
  <2> HIDE DEF Bad
  <2> QED BY <2>1, LeastExists
<1>2. j # 0
  BY SumStep
<1>3. j - 1 \in 0..n /\ j - 1 \notin Bad
  BY <1>1, <1>2
<1>4. SumOf(f, j) = SumOf(f, j - 1) + f[j]
  BY <1>2, SumStep
<1> QED BY <1>2, <1>3, <1>4
\* The parts from n to m have the same sum wherever they have the same sizes.
LEMMA SumTail ==
    ASSUME NEW f, NEW g, NEW n \in Nat \ {0}, NEW m \in Nat,
           \A i \in n..m : f[i] = g[i] /\ f[i] \in Int,
           SumOf(f, n - 1) \in Int, SumOf(g, n - 1) \in Int
    PROVE  n <= m => SumOf(f, m) - SumOf(f, n - 1) = SumOf(g, m) - SumOf(g, n - 1)
<1> DEFINE D(i) == /\ SumOf(f, i) \in Int /\ SumOf(g, i) \in Int
                   /\ SumOf(f, i) - SumOf(f, n - 1) = SumOf(g, i) - SumOf(g, n - 1)
           Bad == { i \in (n - 1)..m : ~D(i) }
<1> SUFFICES ASSUME Bad # {} PROVE FALSE
  OBVIOUS
<1>1. PICK j \in Bad : \A i \in Bad : j <= i
  <2>1. Bad \subseteq Nat
    OBVIOUS
  <2> HIDE DEF Bad
  <2> QED BY <2>1, LeastExists
<1>2. D(n - 1)
  OBVIOUS
<1>3. j \in n..m /\ j - 1 \in (n - 1)..m
  BY <1>1, <1>2
<1>4. D(j - 1)
  BY <1>1, <1>3
<1>5. j \in Nat \ {0} /\ f[j] = g[j] /\ f[j] \in Int
  BY <1>3
<1>6. SumOf(f, j) = SumOf(f, j - 1) + f[j] /\ SumOf(g, j) = SumOf(g, j - 1) + g[j]
  BY <1>5, SumStep
<1>7. D(j)
  BY <1>4, <1>5, <1>6
<1> QED BY <1>1, <1>7

-----------------------------------------------------------------------------
(* The size of a node is the size of its object, one call at a time.        *)

\* An empty file has one part at most (InitiateUpload).
OnePartIfEmpty(w) == w.size = 0 => w.total <= 1

EmptyFiles ==
    /\ \A u \in Uploads : OnePartIfEmpty(row[u])
    /\ \A r \in Requests : OnePartIfEmpty(req[r].w)
    /\ \A u \in Uploads : OnePartIfEmpty(job.rows[u])

\* A part has been put and its row is about to follow, or it is about to be removed again.
Rewriting(u, n) ==
    \E r \in Requests : req[r].pc \in {"record", "mismatch"} /\ req[r].u = u /\ req[r].n = n

\* A staged part has the size its row records, unless it is being written again.
PartsAsRecorded ==
    \A u \in Uploads, n \in PartNo :
        part[u][n] # Absent /\ staged[u][n] # Absent =>
            staged[u][n] = part[u][n] \/ Rewriting(u, n)

\* What CompleteUpload has copied and what it has still to copy add up to the size of the
\* node, as long as no part is gone.
CopyAddsUp(q, parts) ==
    /\ q.n \in 1 .. q.w.total
    /\ (\A n \in q.n .. q.w.total : parts[n] # Absent) =>
          q.size - q.sum = SumOf(parts, q.w.total) - SumOf(parts, q.n - 1)

\* The sizes a call in flight carries.
CallSizes ==
    \A r \in Requests :
        /\ req[r].pc = "record" => staged[req[r].u][req[r].n] \in {Absent, req[r].size}
        /\ req[r].pc = "list" => req[r].sum = 0
        /\ req[r].pc = "copy" => CopyAddsUp(req[r], staged[req[r].u])
        /\ req[r].pc = "commit" => object[req[r].key] = req[r].size

SizeInv == EmptyFiles /\ PartsAsRecorded /\ CallSizes /\ SizeIsContent

\* Every row of a step is an old one with another status, or one InitiateUpload computed.
LEMMA EmptyStep ==
    ASSUME IInv, EmptyFiles, [Next]_vars
    PROVE  EmptyFiles'
<1>0. /\ row \in [Uploads -> Row] /\ req \in [Requests -> ReqState] /\ job \in JobState
      /\ \A r \in Requests : req[r] \in ReqState /\ req[r].w \in Row
      /\ \A u \in Uploads : job.rows[u] \in Row
  BY DEF IInv, TypeOK, ReqState, JobState
<1>1. ASSUME NEW w \in Row, OnePartIfEmpty(w), NEW status
      PROVE  OnePartIfEmpty([w EXCEPT !.status = status])
  <2>1. [w EXCEPT !.status = status].size = w.size /\ [w EXCEPT !.status = status].total = w.total
    BY <1>1 DEF Row
  <2> QED BY <1>1, <2>1 DEF OnePartIfEmpty
<1>2. OnePartIfEmpty(NoRow) /\ \A u \in Uploads : OnePartIfEmpty(NoRows[u])
  BY DEF OnePartIfEmpty, NoRow, NoRows
<1>3. \A u \in Uploads : OnePartIfEmpty(row'[u])
  <2>1. ASSUME NEW u \in Uploads, NEW s \in Shapes, NEW status, NEW expires, Reshape(u, s, status, expires)
        PROVE  \A v \in Uploads : OnePartIfEmpty(row'[v])
    <3>1. s.size = 0 => TotalParts(s.size, s.chunk) = 1
      BY DEF TotalParts
    <3>2. \A v \in Uploads \ {u} : row'[v] = row[v]
      BY <1>0, <2>1 DEF Reshape
    <3>3. row'[u].size = s.size /\ row'[u].total = TotalParts(s.size, s.chunk)
      BY <1>0, <2>1 DEF Reshape
    <3> QED BY <3>1, <3>2, <3>3 DEF EmptyFiles, OnePartIfEmpty
  <2>2. CASE Initiate
    BY <2>1, <2>2 DEF Initiate, InitiateResume, InitiateReuse, InitiateCreate
  <2>3. ASSUME NEW u \in Uploads, NEW w \in Row, OnePartIfEmpty(w), NEW status,
               row' = [row EXCEPT ![u] = [w EXCEPT !.status = status]]
        PROVE  \A v \in Uploads : OnePartIfEmpty(row'[v])
    <3>1. OnePartIfEmpty([w EXCEPT !.status = status])
      BY <1>1, <2>3
    <3>2. \A v \in Uploads : row'[v] = row[v] \/ row'[v] = [w EXCEPT !.status = status]
      BY <1>0, <2>3
    <3> QED BY <3>1, <3>2 DEF EmptyFiles
  <2>4. ASSUME NEW r \in Requests, RecordPart(r) \/ AbortSession(r) \/ RetireSession(r)
        PROVE  \A v \in Uploads : OnePartIfEmpty(row'[v])
    <3>1. req[r].u \in Uploads /\ OnePartIfEmpty(req[r].w) /\ req[r].w \in Row
      BY <1>0, <2>4 DEF EmptyFiles, RecordPart, AbortSession, RetireSession, IInv, RequestBound
    <3>2. CASE RecordPart(r)
      BY <2>3, <3>1, <3>2 DEF RecordPart, EmptyFiles
    <3>3. CASE AbortSession(r)
      BY <2>3, <3>1, <3>3 DEF AbortSession, EmptyFiles
    <3>4. CASE RetireSession(r)
      BY <1>2, <2>3, <3>1, <3>4, NoRowType DEF RetireSession
    <3> QED BY <2>4, <3>2, <3>3, <3>4
  <2>5. ASSUME NEW u \in Uploads, ExpireRow(u)
        PROVE  \A v \in Uploads : OnePartIfEmpty(row'[v])
    <3>1. job.rows[u] \in Row /\ OnePartIfEmpty(job.rows[u])
      BY <1>0 DEF EmptyFiles
    <3> QED BY <2>3, <2>5, <3>1 DEF ExpireRow, EmptyFiles
  <2>6. CASE UNCHANGED row
    BY <2>6 DEF EmptyFiles
  <2>7. ASSUME NEW r \in Requests, Call(r) \/ Abandon(r)
        PROVE  UNCHANGED row
    BY <2>7 DEF Call, StartChunk, StartConfirm, StartComplete, StartAbort, Load, LoadOwned, Abandon
  <2>8. ASSUME NEW r \in Requests, Step(r)
        PROVE  RecordPart(r) \/ AbortSession(r) \/ RetireSession(r) \/ UNCHANGED row
    BY <2>8 DEF Step, PutPart, RemoveMismatch, StatPart, ListParts, CopyPart, CommitNode, UndoCompose,
       DropParts, SweepStaged, AbortSweep
  <2>9. ASSUME \/ StartExpire \/ StartPurge \/ StartGc \/ JobStep \/ JobAbandoned \/ Tick \/ UNCHANGED vars
               \/ \E u \in Uploads, n \in PartNo, size \in PartSizes : ClientPut(u, n, size)
        PROVE  UNCHANGED row \/ \E u \in Uploads : ExpireRow(u)
    BY <2>9 DEF StartExpire, StartPurge, StartGc, JobStep, JobAbandoned, Tick, vars, ClientPut,
       PurgePrefix, GcRemove, ExpireParts, ExpireQueue, PurgeRow, GcList, JobEnds
  <2> QED BY <2>2, <2>4, <2>5, <2>6, <2>7, <2>8, <2>9 DEF Next
<1>4. \A r \in Requests : OnePartIfEmpty(req'[r].w)
  <2>1. ASSUME NEW r \in Requests, Call(r)
        PROVE  \A s \in Requests : req'[s].w = req[s].w \/ \E u \in Uploads : req'[s].w = row[u]
    <3>1. PICK u \in Uploads : \E pc, n, size : LoadOwned(r, u, pc, n, size)
      BY <2>1 DEF Call, StartChunk, StartConfirm, StartComplete, StartAbort, Load
    <3>2. PICK pc, n, size : LoadOwned(r, u, pc, n, size)
      BY <3>1
    <3>3. req'[r].w = row[u] /\ \A s \in Requests \ {r} : req'[s] = req[s]
      BY <1>0, <3>2 DEF LoadOwned, IdleReq
    <3> QED BY <3>3
  <2>2. ASSUME NEW r \in Requests, Step(r) \/ Abandon(r)
        PROVE  \A s \in Requests : req'[s].w = req[s].w \/ req'[s].w = NoRow
    <3>1. Done(r) => \A s \in Requests : req'[s].w = req[s].w \/ req'[s].w = NoRow
      BY <1>0 DEF Done, IdleReq
    <3>2. ASSUME NEW pc, Goto(r, pc)
          PROVE  \A s \in Requests : req'[s].w = req[s].w
      BY <1>0, <3>2 DEF Goto, ReqState
    <3>3. CASE StatPart(r)
      BY <1>0, <3>1, <3>3 DEF StatPart, ReqState
    <3>4. CASE ListParts(r)
      <4>1. ASSUME NEW k, NEW size,
                   req' = [req EXCEPT ![r].pc = "copy", ![r].key = k, ![r].n = 1, ![r].size = size]
            PROVE  \A s \in Requests : req'[s].w = req[s].w
        BY <1>0, <4>1 DEF ReqState
      <4> QED BY <3>1, <3>4, <4>1 DEF ListParts
    <3>5. CASE CopyPart(r)
      <4>1. ASSUME NEW n, NEW sum, req' = [req EXCEPT ![r].n = n, ![r].sum = sum]
            PROVE  \A s \in Requests : req'[s].w = req[s].w
        BY <1>0, <4>1 DEF ReqState
      <4>2. Done(r) \/ Goto(r, "commit") \/ Goto(r, "undo")
            \/ \E n, sum : req' = [req EXCEPT ![r].n = n, ![r].sum = sum]
        BY <3>5, Zenon DEF CopyPart
      <4> QED BY <3>1, <3>2, <4>1, <4>2
    <3>6. CASE ~StatPart(r) /\ ~ListParts(r) /\ ~CopyPart(r)
      <4>1. Done(r) \/ \E pc : Goto(r, pc)
        BY <2>2, <3>6, Zenon DEF Step, PutPart, RemoveMismatch, RecordPart, CommitNode, UndoCompose,
           DropParts, SweepStaged, RetireSession, AbortSession, AbortSweep, Abandon
      <4> QED BY <3>1, <3>2, <4>1
    <3> QED BY <3>3, <3>4, <3>5, <3>6
  <2>3. CASE UNCHANGED req
    BY <2>3 DEF EmptyFiles
  <2>4. ASSUME \/ Initiate \/ StartExpire \/ StartPurge \/ StartGc \/ JobStep \/ JobAbandoned \/ Tick
               \/ UNCHANGED vars
               \/ \E u \in Uploads, n \in PartNo, size \in PartSizes : ClientPut(u, n, size)
        PROVE  UNCHANGED req
    BY <2>4 DEF Initiate, InitiateResume, InitiateReuse, InitiateCreate, StartExpire, StartPurge, StartGc,
       JobStep, JobAbandoned, Tick, vars, ClientPut, ExpireRow, PurgePrefix, GcRemove, ExpireParts,
       ExpireQueue, PurgeRow, GcList, JobEnds
  <2>5. \/ \E r \in Requests : Call(r)
        \/ \E r \in Requests : Step(r) \/ Abandon(r)
        \/ UNCHANGED req
    BY <2>4 DEF Next
  <2> QED BY <1>2, <2>1, <2>2, <2>3, <2>5 DEF EmptyFiles
<1>5. \A u \in Uploads : OnePartIfEmpty(job'.rows[u])
  <2>1. job'.rows = job.rows \/ job'.rows = row \/ job'.rows = NoRows
    <3>1. IdleJob.rows = NoRows
      BY DEF IdleJob
    <3>2. CASE StartExpire
      BY <3>2 DEF StartExpire, IdleJob
    <3>3. CASE StartPurge \/ StartGc \/ JobEnds \/ JobAbandoned
      BY <3>1, <3>3 DEF StartPurge, StartGc, JobEnds, JobAbandoned, IdleJob
    <3>4. ASSUME NEW u \in Uploads, ExpireRow(u) \/ PurgePrefix(u)
          PROVE  job'.rows = job.rows \/ job'.rows = NoRows
      BY <1>0, <3>1, <3>4 DEF ExpireRow, PurgePrefix, JobState
    <3>5. ASSUME NEW u \in Uploads, NEW n \in PartNo, GcRemove(u, n)
          PROVE  job'.rows = job.rows
      BY <1>0, <3>5 DEF GcRemove, JobState
    <3>6. CASE ExpireParts \/ ExpireQueue \/ PurgeRow \/ GcList
      BY <1>0, <3>6 DEF ExpireParts, ExpireQueue, PurgeRow, GcList, JobState
    <3>7. ASSUME NEW r \in Requests, Call(r) \/ Step(r) \/ Abandon(r)
          PROVE  UNCHANGED job
      BY <3>7 DEF Call, StartChunk, StartConfirm, StartComplete, StartAbort, Load, LoadOwned, Abandon, Step,
         PutPart, RemoveMismatch, StatPart, RecordPart, ListParts, CopyPart, CommitNode, UndoCompose,
         DropParts, SweepStaged, RetireSession, AbortSession, AbortSweep
    <3>8. CASE \/ Initiate \/ Tick \/ UNCHANGED vars
               \/ \E u \in Uploads, n \in PartNo, size \in PartSizes : ClientPut(u, n, size)
      BY <3>8 DEF Initiate, InitiateResume, InitiateReuse, InitiateCreate, Tick, vars, ClientPut
    <3> QED BY <3>2, <3>3, <3>4, <3>5, <3>6, <3>7, <3>8 DEF Next, JobStep
  <2> QED BY <1>2, <2>1 DEF EmptyFiles
<1> QED BY <1>3, <1>4, <1>5 DEF EmptyFiles

\* A part that goes away while a copy is under way ends the copy; the others are what they were.
LEMMA CopyGoesOn ==
    ASSUME NEW q, q.w.total \in Nat, q.w.total <= MaxParts,
           NEW f \in [PartNo -> Nat \cup {Absent}], NEW g,
           \A n \in PartNo : g[n] \in {Absent, f[n]}, CopyAddsUp(q, f)
    PROVE  CopyAddsUp(q, g)
<1>1. q.n \in 1 .. q.w.total /\ q.n - 1 \in Nat /\ q.n \in Nat \ {0} /\ 1 .. q.w.total \subseteq PartNo
  BY UploadConstants DEF CopyAddsUp, PartNo
<1>2. ASSUME \A n \in q.n .. q.w.total : g[n] # Absent
      PROVE  q.size - q.sum = SumOf(g, q.w.total) - SumOf(g, q.n - 1)
  <2>1. \A n \in q.n .. q.w.total : n \in PartNo
    BY <1>1
  <2>2. \A n \in q.n .. q.w.total : f[n] = g[n] /\ f[n] \in Int /\ f[n] # Absent
    BY <1>2, <2>1 DEF Absent
  <2>3. \A n \in 1 .. (q.n - 1) : f[n] \in Int /\ g[n] \in Int
    <3>1. \A n \in 1 .. (q.n - 1) : n \in PartNo
      BY <1>1
    <3> QED BY <3>1 DEF Absent
  <2>4. SumOf(f, q.n - 1) \in Int /\ SumOf(g, q.n - 1) \in Int
    BY <1>1, <2>3, SumType
  <2>5. SumOf(f, q.w.total) - SumOf(f, q.n - 1) = SumOf(g, q.w.total) - SumOf(g, q.n - 1)
    BY <1>1, <2>2, <2>4, SumTail
  <2> QED BY <2>2, <2>5 DEF CopyAddsUp
<1> QED BY <1>1, <1>2 DEF CopyAddsUp

\* A step that leaves calls, objects and nodes alone and only removes part rows and staged
\* parts (InitiateUpload, expire_uploads, purge_deletions, gc_orphans).
LEMMA SizesFrame ==
    ASSUME IInv, SizeInv, EmptyFiles', UNCHANGED <<req, object, committed>>,
           \A u \in Uploads, n \in PartNo : /\ part'[u][n] \in {Absent, part[u][n]}
                                            /\ staged'[u][n] \in {Absent, staged[u][n]}
    PROVE  SizeInv'
<1>1. PartsAsRecorded'
  <2>1. ASSUME NEW u \in Uploads, NEW n \in PartNo PROVE Rewriting(u, n)' = Rewriting(u, n)
    BY DEF Rewriting
  <2> QED BY <2>1 DEF SizeInv, PartsAsRecorded
<1>2. CallSizes'
  <2> SUFFICES ASSUME NEW r \in Requests
               PROVE  /\ req[r].pc = "record" => staged'[req[r].u][req[r].n] \in {Absent, req[r].size}
                      /\ req[r].pc = "list" => req[r].sum = 0
                      /\ req[r].pc = "copy" => CopyAddsUp(req[r], staged'[req[r].u])
                      /\ req[r].pc = "commit" => object[req[r].key] = req[r].size
    BY DEF CallSizes
  <2>1. CASE req[r].pc = "record"
    BY <2>1 DEF SizeInv, CallSizes, IInv, RequestBound
  <2>2. CASE req[r].pc = "copy"
    <3>1. CopyAddsUp(req[r], staged[req[r].u]) /\ req[r].u \in Uploads /\ req[r].w.total <= MaxParts
      BY <2>2 DEF SizeInv, CallSizes, IInv, RequestBound
    <3>2. req[r] \in ReqState
      BY DEF IInv, TypeOK
    <3>3. /\ req[r].w.total \in Nat
          /\ staged[req[r].u] \in [PartNo -> Nat \cup {Absent}]
          /\ \A n \in PartNo : staged'[req[r].u][n] \in {Absent, staged[req[r].u][n]}
      BY <3>1, <3>2 DEF IInv, TypeOK, ReqState, Row
    <3> QED BY <2>2, <3>1, <3>3, CopyGoesOn
  <2> QED BY <2>1, <2>2 DEF SizeInv, CallSizes
<1>3. SizeIsContent'
  BY DEF SizeInv, SizeIsContent
<1> QED BY <1>1, <1>2, <1>3 DEF SizeInv

\* The only call in flight, when it is not between putting a part and recording it: every
\* staged part agrees with its row.
LEMMA PartsAgree ==
    ASSUME SizeInv, OneCall, NEW r \in Requests, req[r].pc \notin {"record", "mismatch"}
    PROVE  \A u \in Uploads, n \in PartNo :
              part[u][n] # Absent /\ staged[u][n] # Absent => staged[u][n] = part[u][n]
BY DEF SizeInv, PartsAsRecorded, Rewriting, OneCall

\* The only call in flight goes on or ends without content to answer for, and the parts agree.
LEMMA Settled ==
    ASSUME EmptyFiles', SizeIsContent', OneCall, NEW r \in Requests,
           req'[r].pc \notin {"record", "copy", "commit"},
           req'[r].pc = "list" => req'[r].sum = 0,
           \A u \in Uploads, n \in PartNo :
              part'[u][n] # Absent /\ staged'[u][n] # Absent => staged'[u][n] = part'[u][n]
    PROVE  SizeInv'
<1>1. \A s \in Requests : s = r
  BY DEF OneCall
<1>2. CallSizes'
  BY <1>1 DEF CallSizes
<1>3. PartsAsRecorded'
  BY DEF PartsAsRecorded
<1> QED BY <1>2, <1>3 DEF SizeInv

\* UploadChunk and ConfirmUploadPart: the part that is put is the part that is recorded.
LEMMA PartPutSizes ==
    ASSUME IInv, SizeInv, EmptyFiles', SoleInv, OneCall, NEW r \in Requests,
           PutPart(r) \/ RemoveMismatch(r) \/ StatPart(r) \/ RecordPart(r)
    PROVE  SizeInv'
<1>1. /\ req[r] \in ReqState /\ req[r].u \in Uploads /\ req[r].n \in PartNo
      /\ req \in [Requests -> ReqState]
      /\ staged \in [Uploads -> [PartNo -> Nat \cup {Absent}]]
      /\ part \in [Uploads -> [PartNo -> Nat \cup {Absent}]]
  BY DEF IInv, TypeOK, RequestBound, PutPart, RemoveMismatch, StatPart, RecordPart
<1>2. \A s \in Requests : s = r
  BY DEF OneCall
<1>3. SizeIsContent'
  BY DEF SizeInv, SizeIsContent, PutPart, RemoveMismatch, StatPart, RecordPart
<1>4. Done(r) => req'[r].pc = "idle"
  BY <1>1 DEF Done, IdleReq
<1> DEFINE U == req[r].u
           N == req[r].n
<1>5. CASE PutPart(r)
  <2>1. /\ req'[r].pc \in {"record", "mismatch"}
        /\ req'[r].u = U /\ req'[r].n = N /\ req'[r].size = req[r].size
    BY <1>1, <1>5 DEF PutPart, Goto, ReqState
  <2>2. /\ staged'[U][N] = req[r].size /\ UNCHANGED part
        /\ \A u \in Uploads, n \in PartNo : <<u, n>> # <<U, N>> => staged'[u][n] = staged[u][n]
    BY <1>1, <1>5 DEF PutPart
  <2>3. \A u \in Uploads, n \in PartNo : u = U /\ n = N => Rewriting(u, n)'
    BY <2>1 DEF Rewriting
  <2>4. \A u \in Uploads, n \in PartNo :
           part[u][n] # Absent /\ staged[u][n] # Absent => staged[u][n] = part[u][n]
    BY <1>5, PartsAgree DEF PutPart
  <2> HIDE DEF U, N
  <2>5. PartsAsRecorded'
    BY <2>2, <2>3, <2>4 DEF PartsAsRecorded
  <2>6. CallSizes'
    BY <1>2, <2>1, <2>2 DEF CallSizes
  <2> QED BY <1>3, <2>5, <2>6 DEF SizeInv
<1>6. CASE RemoveMismatch(r)
  <2>1. /\ staged'[U][N] = Absent /\ UNCHANGED part /\ req'[r].pc = "idle"
        /\ \A u \in Uploads, n \in PartNo : <<u, n>> # <<U, N>> => staged'[u][n] = staged[u][n]
    BY <1>1, <1>4, <1>6 DEF RemoveMismatch
  <2>2. \A u \in Uploads, n \in PartNo : Rewriting(u, n) => u = U /\ n = N
    BY <1>2 DEF Rewriting
  <2>3. ASSUME NEW u \in Uploads, NEW n \in PartNo, part'[u][n] # Absent, staged'[u][n] # Absent
        PROVE  staged'[u][n] = part'[u][n]
    BY <2>1, <2>2, <2>3 DEF SizeInv, PartsAsRecorded
  <2> QED BY <1>3, <2>1, <2>3, Settled
<1>7. CASE StatPart(r)
  <2>1. \A u \in Uploads, n \in PartNo :
           part'[u][n] # Absent /\ staged'[u][n] # Absent => staged'[u][n] = part'[u][n]
    BY <1>7, PartsAgree DEF StatPart
  <2>2. CASE Done(r)
    BY <1>3, <1>4, <2>1, <2>2, Settled
  <2>3. CASE ~Done(r)
    <3>1. /\ req'[r].pc = "record" /\ req'[r].u = U /\ req'[r].n = N
          /\ req'[r].size = staged[U][N] /\ UNCHANGED staged
      BY <1>1, <1>7, <2>3 DEF StatPart, ReqState
    <3>2. CallSizes'
      BY <1>2, <3>1 DEF CallSizes
    <3>3. PartsAsRecorded'
      BY <2>1 DEF PartsAsRecorded
    <3> QED BY <1>3, <3>2, <3>3 DEF SizeInv
  <2> QED BY <2>2, <2>3
<1>8. CASE RecordPart(r)
  <2>1. row[U].status \in Stored
    BY <1>8 DEF SoleInv, Retiring, RecordPart
  <2>2. /\ part'[U][N] = req[r].size /\ UNCHANGED staged /\ req'[r].pc = "idle"
        /\ \A u \in Uploads, n \in PartNo : <<u, n>> # <<U, N>> => part'[u][n] = part[u][n]
    BY <1>1, <1>4, <1>8, <2>1 DEF RecordPart
  <2>3. staged[U][N] \in {Absent, req[r].size}
    BY <1>8 DEF RecordPart, SizeInv, CallSizes
  <2>4. \A u \in Uploads, n \in PartNo : Rewriting(u, n) => u = U /\ n = N
    BY <1>2 DEF Rewriting
  <2>5. ASSUME NEW u \in Uploads, NEW n \in PartNo, part'[u][n] # Absent, staged'[u][n] # Absent
        PROVE  staged'[u][n] = part'[u][n]
    BY <2>2, <2>3, <2>4, <2>5 DEF SizeInv, PartsAsRecorded
  <2> QED BY <1>3, <2>2, <2>5, Settled
<1> QED BY <1>5, <1>6, <1>7, <1>8

\* CompleteUpload lists the parts: what is staged under them adds up to the size of the node.
LEMMA ListSizes ==
    ASSUME IInv, SizeInv, EmptyFiles', OneCall, NEW r \in Requests, ListParts(r)
    PROVE  SizeInv'
<1> DEFINE q == req[r]
           u == req[r].u
           w == req[r].w
<1>1. /\ req[r] \in ReqState /\ u \in Uploads /\ req \in [Requests -> ReqState]
      /\ staged[u] \in [PartNo -> Nat \cup {Absent}]
      /\ part[u] \in [PartNo -> Nat \cup {Absent}]
      /\ w.total >= 1 /\ w.total \in Nat /\ w.size \in Nat /\ q.sum = 0 /\ (w.size = 0 => w.total <= 1)
  <2>1. req[r] \in ReqState /\ req[r].w \in Row
    BY DEF IInv, TypeOK, ReqState
  <2>2. u \in Uploads /\ w.total >= 1
    BY DEF ListParts, IInv, RequestBound, RowsHaveParts
  <2> QED BY <2>1, <2>2 DEF IInv, TypeOK, Row, ListParts, SizeInv, CallSizes, EmptyFiles, OnePartIfEmpty
<1>2. SizeIsContent' /\ UNCHANGED <<part, staged>>
  BY DEF SizeInv, SizeIsContent, ListParts
<1>3. \A v \in Uploads, n \in PartNo : part[v][n] # Absent /\ staged[v][n] # Absent => staged[v][n] = part[v][n]
  BY PartsAgree DEF ListParts
<1>4. CASE Done(r)
  <2>1. req'[r].pc = "idle"
    BY <1>1, <1>4 DEF Done, IdleReq
  <2> QED BY <1>2, <1>3, <2>1, Settled
<1>5. CASE ~Done(r)
  <2>1. PICK k \in Keys : /\ PartsComplete(w, part[u])
                          /\ req' = [req EXCEPT ![r].pc = "copy", ![r].key = k, ![r].n = 1,
                                                ![r].size = TotalBytes(w, part[u])]
    BY <1>5, Zenon DEF ListParts
  <2>2. /\ req'[r].pc = "copy" /\ req'[r].n = 1 /\ req'[r].sum = 0 /\ req'[r].u = u /\ req'[r].w = w
        /\ req'[r].size = TotalBytes(w, part[u])
    BY <1>1, <2>1 DEF ReqState
  <2>3. 1 .. w.total \subseteq PartNo /\ \A n \in 1 .. w.total : part[u][n] # Absent
    BY <2>1 DEF PartsComplete
  <2>4. ASSUME \A n \in 1 .. w.total : staged[u][n] # Absent
        PROVE  TotalBytes(w, part[u]) = SumOf(staged[u], w.total)
    <3>1. \A n \in 1 .. w.total : staged[u][n] = part[u][n]
      BY <1>1, <1>3, <2>3, <2>4
    <3> DEFINE f == staged[u]
               g == part[u]
    <3> HIDE DEF f, g
    <3>2. SumOf(f, w.total) = SumOf(g, w.total)
      BY <1>1, <3>1, SumSame DEF f, g
    <3>3. CASE w.size > 0
      BY <2>1, <3>2, <3>3 DEF PartsComplete, TotalBytes, f, g
    <3>4. CASE w.size = 0
      <4>1. w.total = 1
        BY <1>1, <3>4
      <4>2. SumOf(f, 1) = SumOf(f, 0) + f[1] /\ SumOf(f, 0) = 0
        <5>1. 1 \in Nat \ {0} /\ 1 - 1 = 0
          OBVIOUS
        <5> QED BY <5>1, SumStep
      <4>3. f[1] \in Int
        BY <1>1, <2>3, <4>1 DEF f, Absent
      <4>4. SumOf(f, 1) = f[1]
        BY <4>2, <4>3
      <4>5. f[1] = part[u][1]
        BY <3>1, <4>1 DEF f
      <4>6. TotalBytes(w, part[u]) = part[u][1]
        BY <3>4 DEF TotalBytes
      <4> QED BY <4>1, <4>4, <4>5, <4>6 DEF f
    <3> QED BY <1>1, <3>3, <3>4
  <2>5. CopyAddsUp(req'[r], staged[u])
    <3>1. SumOf(staged[u], 0) = 0
      BY SumStep
    <3>2. TotalBytes(w, part[u]) \in Int
      BY <1>1, <2>3 DEF TotalBytes
    <3> QED BY <1>1, <2>2, <2>4, <3>1, <3>2 DEF CopyAddsUp
  <2>6. CallSizes'
    BY <1>2, <2>2, <2>5 DEF CallSizes, OneCall
  <2>7. PartsAsRecorded'
    BY <1>2, <1>3 DEF PartsAsRecorded
  <2> QED BY <1>2, <2>6, <2>7 DEF SizeInv
<1> QED BY <1>4, <1>5

\* ComposeObject: the object gets the bytes of every part, which are the size of the node.
LEMMA CopySizes ==
    ASSUME IInv, SizeInv, EmptyFiles', OneCall, NEW r \in Requests, CopyPart(r)
    PROVE  SizeInv'
<1> DEFINE q == req[r]
           bytes == staged[req[r].u][req[r].n]
           total == req[r].w.total
<1>1. /\ req[r] \in ReqState /\ req \in [Requests -> ReqState] /\ req[r].pc = "copy"
      /\ req[r].u \in Uploads /\ req[r].n \in PartNo /\ total <= MaxParts /\ total \in Nat
      /\ req[r].key \in Keys /\ object \in [Keys -> Nat \cup {Absent}]
      /\ staged[req[r].u] \in [PartNo -> Nat \cup {Absent}]
      /\ q.sum \in Nat /\ q.size \in Nat
  <2>1. req[r] \in ReqState /\ req[r].w \in Row /\ req[r].pc = "copy"
    BY DEF IInv, TypeOK, ReqState, CopyPart
  <2> QED BY <2>1 DEF IInv, TypeOK, RequestBound, ReqState, Row
<1>2. UNCHANGED <<part, staged, committed>>
  BY DEF CopyPart
<1>3. \A v \in Uploads, n \in PartNo : part[v][n] # Absent /\ staged[v][n] # Absent => staged[v][n] = part[v][n]
  BY <1>1, PartsAgree
<1>4. \A s \in Requests : s = r
  BY DEF OneCall
<1>5. \A c \in committed : c.key # req[r].key /\ c.key \in Keys
  BY <1>1 DEF IInv, KeyHeldOnce, CommittedKeys, TypeOK
<1>6. SizeIsContent'
  <2>1. UNCHANGED object \/ \E x : object' = [object EXCEPT ![req[r].key] = x]
    BY Zenon DEF CopyPart
  <2>2. \A k \in Keys \ {req[r].key} : object'[k] = object[k]
    BY <1>1, <2>1
  <2> QED BY <1>2, <1>5, <2>2 DEF SizeInv, SizeIsContent
<1>7. CopyAddsUp(q, staged[q.u])
  BY <1>1 DEF SizeInv, CallSizes
<1>8. PartsAsRecorded'
  BY <1>2, <1>3 DEF PartsAsRecorded
<1>9. bytes # Absent => bytes \in Nat
  BY <1>1
<1>10. /\ q.n \in Nat \ {0} /\ q.n <= total
       /\ SumOf(staged[q.u], q.n) = SumOf(staged[q.u], q.n - 1) + bytes
       /\ SumOf(staged[q.u], q.n - 1) \in Int
       /\ SumOf(staged[q.u], total) \in Int
  <2>1. q.n \in 1 .. total /\ q.n \in Nat \ {0} /\ q.n - 1 \in Nat
    BY <1>1, <1>7 DEF CopyAddsUp
  <2>2. \A n \in 1 .. total : n \in PartNo
    BY <1>1, UploadConstants DEF PartNo
  <2>3. \A n \in 1 .. total : staged[q.u][n] \in Int
    BY <1>1, <2>2 DEF Absent
  <2>4. \A n \in 1 .. (q.n - 1) : staged[q.u][n] \in Int
    BY <1>1, <2>1, <2>3
  <2>5. SumOf(staged[q.u], q.n) = SumOf(staged[q.u], q.n - 1) + staged[q.u][q.n]
    BY <2>1, SumStep
  <2> QED BY <1>1, <2>1, <2>3, <2>4, <2>5, SumType
<1>11. CASE Done(r)
  <2>1. req'[r].pc = "idle"
    BY <1>1, <1>11 DEF Done, IdleReq
  <2> QED BY <1>2, <1>3, <1>6, <2>1, Settled
<1>12. ASSUME bytes # Absent, q.n < total, req' = [req EXCEPT ![r].n = q.n + 1, ![r].sum = q.sum + bytes]
       PROVE  SizeInv'
  <2>1. /\ req'[r].pc = "copy" /\ req'[r].n = q.n + 1 /\ req'[r].sum = q.sum + bytes
        /\ req'[r].u = q.u /\ req'[r].w = q.w /\ req'[r].size = q.size
    BY <1>1, <1>12 DEF ReqState
  <2>2. ASSUME \A n \in (q.n + 1) .. total : staged[q.u][n] # Absent
        PROVE  q.size - (q.sum + bytes) = SumOf(staged[q.u], total) - SumOf(staged[q.u], q.n)
    <3>1. \A n \in q.n .. total : staged[q.u][n] # Absent
      BY <1>1, <1>10, <1>12, <2>2
    <3>2. q.size - q.sum = SumOf(staged[q.u], total) - SumOf(staged[q.u], q.n - 1)
      BY <1>7, <3>1 DEF CopyAddsUp
    <3>3. bytes \in Nat
      BY <1>9, <1>12
    <3> DEFINE A == SumOf(staged[q.u], q.n)
               B == SumOf(staged[q.u], q.n - 1)
               C == SumOf(staged[q.u], total)
    <3>4. A = B + bytes /\ B \in Int /\ C \in Int /\ q.size - q.sum = C - B
      BY <1>10, <3>2
    <3> HIDE DEF A, B, C
    <3>5. q.size - (q.sum + bytes) = C - A
      BY <1>1, <3>3, <3>4
    <3> QED BY <3>5 DEF A, C
  <2>3. CopyAddsUp(req'[r], staged'[req'[r].u])
    <3>1. q.n + 1 \in 1 .. total /\ (q.n + 1) - 1 = q.n
      BY <1>1, <1>10, <1>12
    <3> QED BY <1>2, <2>1, <2>2, <3>1 DEF CopyAddsUp
  <2>4. CallSizes'
    BY <1>4, <2>1, <2>3 DEF CallSizes
  <2> QED BY <1>6, <1>8, <2>4 DEF SizeInv
<1>13. ASSUME bytes # Absent, q.n >= total, object' = [object EXCEPT ![q.key] = q.sum + bytes],
              Goto(r, "commit") \/ Goto(r, "undo")
       PROVE  SizeInv'
  <2>1. q.n = total
    BY <1>1, <1>10, <1>13
  <2>2. q.size = q.sum + bytes
    <3>1. \A n \in q.n .. total : staged[q.u][n] # Absent
      BY <1>1, <1>13, <2>1
    <3>2. q.size - q.sum = SumOf(staged[q.u], total) - SumOf(staged[q.u], q.n - 1)
      BY <1>7, <3>1 DEF CopyAddsUp
    <3> DEFINE A == SumOf(staged[q.u], q.n)
               B == SumOf(staged[q.u], q.n - 1)
    <3>3. A = B + bytes /\ B \in Int /\ q.size - q.sum = A - B /\ bytes \in Nat
      BY <1>9, <1>10, <1>13, <2>1, <3>2
    <3> HIDE DEF A, B
    <3> QED BY <1>1, <3>3
  <2>3. /\ req'[r].pc \in {"commit", "undo"} /\ req'[r].key = q.key /\ req'[r].size = q.size
    BY <1>1, <1>13 DEF Goto, ReqState
  <2>4. object'[q.key] = q.size
    BY <1>1, <1>13, <2>2
  <2>5. CallSizes'
    BY <1>4, <2>3, <2>4 DEF CallSizes
  <2> QED BY <1>6, <1>8, <2>5 DEF SizeInv
<1>14. \/ Done(r)
       \/ /\ bytes # Absent /\ q.n < total
          /\ req' = [req EXCEPT ![r].n = q.n + 1, ![r].sum = q.sum + bytes]
       \/ /\ bytes # Absent /\ q.n >= total
          /\ object' = [object EXCEPT ![q.key] = q.sum + bytes]
          /\ Goto(r, "commit") \/ Goto(r, "undo")
  BY Zenon DEF CopyPart
<1> HIDE DEF bytes, total, q
<1> QED BY <1>11, <1>12, <1>13, <1>14

\* The transaction gives the node the size of the object it points at, or the object goes.
LEMMA DecisionSizes ==
    ASSUME IInv, SizeInv, EmptyFiles', OneCall, NEW r \in Requests, CommitNode(r) \/ UndoCompose(r)
    PROVE  SizeInv'
<1>1. /\ req[r] \in ReqState /\ req \in [Requests -> ReqState] /\ req[r].pc \in {"commit", "undo"}
      /\ req[r].key \in Keys /\ object \in [Keys -> Nat \cup {Absent}]
  BY DEF IInv, TypeOK, RequestBound, CommitNode, UndoCompose
<1>2. UNCHANGED <<part, staged>>
  BY DEF CommitNode, UndoCompose
<1>3. \A v \in Uploads, n \in PartNo : part[v][n] # Absent /\ staged[v][n] # Absent => staged[v][n] = part[v][n]
  BY <1>1, PartsAgree
<1>4. req'[r].pc \in {"idle", "undo", "dropParts"}
  BY <1>1 DEF CommitNode, UndoCompose, Goto, Done, IdleReq, ReqState
<1>5. CASE CommitNode(r)
  <2>1. object[req[r].key] = req[r].size /\ UNCHANGED object
    BY <1>5 DEF CommitNode, SizeInv, CallSizes
  <2> DEFINE c == [key |-> req[r].key, upload |-> req[r].u, size |-> req[r].size]
  <2>2. UNCHANGED committed \/ committed' = committed \cup {c}
    BY <1>5, Zenon DEF CommitNode
  <2>3. c.key = req[r].key /\ c.size = req[r].size
    OBVIOUS
  <2> HIDE DEF c
  <2>4. SizeIsContent'
    BY <2>1, <2>2, <2>3 DEF SizeInv, SizeIsContent
  <2> QED BY <1>2, <1>3, <1>4, <2>4, Settled
<1>6. CASE UndoCompose(r)
  <2>1. \A k \in Keys \ {req[r].key} : object'[k] = object[k]
    BY <1>1, <1>6 DEF UndoCompose
  <2>2. \A c \in committed : c.key # req[r].key /\ c.key \in Keys
    BY <1>1 DEF IInv, KeyHeldOnce, CommittedKeys, TypeOK
  <2>3. SizeIsContent'
    BY <1>6, <2>1, <2>2 DEF UndoCompose, SizeInv, SizeIsContent
  <2> QED BY <1>2, <1>3, <1>4, <2>3, Settled
<1> QED BY <1>5, <1>6

\* What follows the commit, and AbortUpload: part rows and staged parts only go away.
LEMMA SweepSizes ==
    ASSUME IInv, SizeInv, EmptyFiles', OneCall, NEW r \in Requests,
           \/ DropParts(r) \/ SweepStaged(r) \/ RetireSession(r)
           \/ AbortSession(r) \/ AbortSweep(r)
    PROVE  SizeInv'
<1>1. /\ req \in [Requests -> ReqState] /\ req[r] \in ReqState /\ req[r].u \in Uploads
      /\ staged \in [Uploads -> [PartNo -> Nat \cup {Absent}]]
      /\ part \in [Uploads -> [PartNo -> Nat \cup {Absent}]]
      /\ req[r].pc \in {"dropParts", "sweep", "retire", "abort", "abortSweep"}
  BY DEF IInv, TypeOK, RequestBound, DropParts, SweepStaged, RetireSession, AbortSession, AbortSweep
<1>2. SizeIsContent'
  BY DEF SizeInv, SizeIsContent, DropParts, SweepStaged, RetireSession, AbortSession, AbortSweep
<1>3. req'[r].pc \in {"idle", "sweep", "retire", "abortSweep"}
  BY <1>1 DEF DropParts, SweepStaged, RetireSession, AbortSession, AbortSweep, Goto, Done, IdleReq, ReqState
<1>4. \A u \in Uploads, n \in PartNo : part'[u][n] \in {Absent, part[u][n]}
  BY <1>1 DEF DropParts, SweepStaged, RetireSession, AbortSession, AbortSweep, NoParts
<1>5. \A u \in Uploads, n \in PartNo : staged'[u][n] \in {Absent, staged[u][n]}
  <2>1. CASE RemovedInPart(req[r].u)
    BY <1>1, <2>1, RemovedInPartType
  <2>2. CASE ~RemovedInPart(req[r].u)
    BY <1>1, <2>2 DEF DropParts, SweepStaged, RetireSession, AbortSession, AbortSweep, RemovePrefixOrQueue, NoParts
  <2> QED BY <2>1, <2>2
<1>6. \A v \in Uploads, n \in PartNo : part[v][n] # Absent /\ staged[v][n] # Absent => staged[v][n] = part[v][n]
  BY <1>1, PartsAgree
<1>7. \A v \in Uploads, n \in PartNo : part'[v][n] # Absent /\ staged'[v][n] # Absent => staged'[v][n] = part'[v][n]
  BY <1>4, <1>5, <1>6
<1> QED BY <1>2, <1>3, <1>7, Settled

\* InitiateUpload and the maintenance tasks touch no call, object or node, and put no part.
LEMMA RestSizes ==
    ASSUME IInv, SizeInv, EmptyFiles',
           \/ Initiate \/ StartExpire \/ StartPurge \/ StartGc \/ JobStep \/ JobAbandoned \/ Tick
           \/ UNCHANGED vars
    PROVE  SizeInv'
<1>1. /\ staged \in [Uploads -> [PartNo -> Nat \cup {Absent}]]
      /\ part \in [Uploads -> [PartNo -> Nat \cup {Absent}]]
      /\ job.pc = "expireParts" => job.u \in Uploads
  BY DEF IInv, TypeOK, JobBound
<1>2. UNCHANGED <<req, object, committed>>
  BY DEF Initiate, InitiateResume, InitiateReuse, InitiateCreate, StartExpire, StartPurge, StartGc,
     JobStep, JobAbandoned, Tick, vars, ExpireRow, PurgePrefix, GcRemove, ExpireParts, ExpireQueue,
     PurgeRow, GcList, JobEnds
<1>3. CASE ExpireParts
  <2>1. \A u \in Uploads, n \in PartNo : part'[u][n] \in {Absent, part[u][n]} /\ staged'[u][n] = staged[u][n]
    BY <1>1, <1>3 DEF ExpireParts, NoParts
  <2> QED BY <1>2, <2>1, SizesFrame
<1>4. ASSUME NEW u \in Uploads, PurgePrefix(u)
      PROVE  SizeInv'
  <2>1. \A v \in Uploads, n \in PartNo : part'[v][n] = part[v][n] /\ staged'[v][n] \in {Absent, staged[v][n]}
    <3>1. CASE RemovedInPart(u)
      BY <1>1, <1>4, <3>1, RemovedInPartType DEF PurgePrefix
    <3>2. CASE ~RemovedInPart(u)
      BY <1>1, <1>4, <3>2 DEF PurgePrefix, NoParts
    <3> QED BY <3>1, <3>2
  <2> QED BY <1>2, <2>1, SizesFrame
<1>5. ASSUME NEW u \in Uploads, NEW m \in PartNo, GcRemove(u, m)
      PROVE  SizeInv'
  <2>1. \A v \in Uploads, n \in PartNo : part'[v][n] = part[v][n] /\ staged'[v][n] \in {Absent, staged[v][n]}
    BY <1>1, <1>5 DEF GcRemove
  <2> QED BY <1>2, <2>1, SizesFrame
<1>6. CASE UNCHANGED <<part, staged>>
  BY <1>2, <1>6, SizesFrame
<1>7. \/ UNCHANGED <<part, staged>>
      \/ ExpireParts
      \/ \E u \in Uploads : PurgePrefix(u)
      \/ \E u \in Uploads, n \in PartNo : GcRemove(u, n)
  BY DEF Initiate, InitiateResume, InitiateReuse, InitiateCreate, StartExpire, StartPurge, StartGc,
     JobStep, JobAbandoned, Tick, vars, ExpireRow, ExpireQueue, PurgeRow, GcList, JobEnds
<1> QED BY <1>3, <1>4, <1>5, <1>6, <1>7

\* A call that starts has put and copied nothing yet.
LEMMA CallSizesInv ==
    ASSUME IInv, SizeInv, EmptyFiles', OneCall, NEW r \in Requests, Call(r)
    PROVE  SizeInv'
<1>0. PICK u \in Uploads, pc \in {"put", "stat", "list", "abort"} : \E n, size : LoadOwned(r, u, pc, n, size)
  BY Zenon DEF Call, StartChunk, StartConfirm, StartComplete, StartAbort, Load
<1>1. PICK n, size : LoadOwned(r, u, pc, n, size)
  BY <1>0
<1>2. req \in [Requests -> ReqState]
  BY DEF IInv, TypeOK
<1>3. /\ req[r].pc = "idle" /\ req'[r].pc \in {"put", "stat", "list", "abort"} /\ req'[r].sum = 0
      /\ UNCHANGED <<part, staged, object, committed>>
  BY <1>1, <1>2 DEF LoadOwned, IdleReq
<1>4. SizeIsContent'
  BY <1>3 DEF SizeInv, SizeIsContent
<1> QED BY <1>3, <1>4, PartsAgree, Settled

\* The size of a node is the size of its object, when calls come one at a time, none is cut
\* short, and no client writes a part behind the server's back through a presigned URL: the
\* size comes from the part rows, the bytes from the staged parts (CompleteUpload), while
\* the maintenance tasks remove either at any moment.
THEOREM NodeSizes ==
    ASSUME OneCall, "abandon" \notin Ops, "presign" \notin Ops
    PROVE  Spec => []SizeIsContent
<1>1. Init => SoleInv /\ SizeInv
  <2> SUFFICES ASSUME Init PROVE SoleInv /\ SizeInv
    OBVIOUS
  <2>1. SoleInv
    BY DEF Init, SoleInv, Retiring, OneNodePerSession, IdleReq
  <2>2. EmptyFiles
    BY DEF Init, EmptyFiles, OnePartIfEmpty, NoRow, NoRows, IdleReq, IdleJob
  <2>3. PartsAsRecorded /\ CallSizes /\ SizeIsContent
    BY DEF Init, PartsAsRecorded, NoParts, CallSizes, IdleReq, SizeIsContent
  <2> QED BY <2>1, <2>2, <2>3 DEF SizeInv
<1>2. IInv /\ SoleInv /\ SizeInv /\ [Next]_vars => SoleInv' /\ SizeInv'
  <2> SUFFICES ASSUME IInv, SoleInv, SizeInv, [Next]_vars PROVE SoleInv' /\ SizeInv'
    OBVIOUS
  <2>1. SoleInv'
    BY SoleStep
  <2>2. EmptyFiles'
    BY EmptyStep DEF SizeInv
  <2>3. ASSUME NEW r \in Requests, Call(r) \/ Step(r) \/ Abandon(r)
        PROVE  SizeInv'
    BY <2>2, <2>3, CallSizesInv, PartPutSizes, ListSizes, CopySizes, DecisionSizes, SweepSizes DEF Step, Abandon
  <2>4. ASSUME \/ Initiate \/ StartExpire \/ StartPurge \/ StartGc \/ JobStep \/ JobAbandoned \/ Tick
               \/ UNCHANGED vars
        PROVE  SizeInv'
    BY <2>2, <2>4, RestSizes
  <2>5. ~\E u \in Uploads, n \in PartNo, size \in PartSizes : ClientPut(u, n, size)
    BY DEF ClientPut
  <2> QED BY <2>1, <2>3, <2>4, <2>5 DEF Next
<1>3. SizeInv => SizeIsContent
  BY DEF SizeInv
<1> QED BY <1>1, <1>2, <1>3, Invariance, PTL DEF Spec
================================================================================
