--------------------------- MODULE AuditTrailProofs ---------------------------
(***************************************************************************)
(* Proofs about AuditTrail for any number of calls, any buffer and batch   *)
(* size and any depth of nested transactions.                              *)
(***************************************************************************)
EXTENDS AuditTrail, SequenceTheorems, TLAPS

-----------------------------------------------------------------------------
(* The inductive invariant.                                                *)

LockTypes ==
    /\ pc \in [Processes -> CallPc \cup WorkerPc]
    /\ \A c \in Calls : pc[c] \in CallPc
    /\ pc[Worker] \in WorkerPc
    /\ depth \in [Calls -> 0..MaxWithTx]
    /\ left \in [Calls -> 0..MaxWithTx]
    /\ \A c \in Calls : depth[c] + left[c] <= MaxWithTx
    /\ writeMu \in Processes \cup {None}
    /\ txn \in Processes \cup {None}

\* Whoever begins or is inside a transaction holds the mutex: nobody else does.
Holds ==
    /\ \A p \in Processes : pc[p] = "begin" => writeMu = p
    /\ \A c \in Calls : pc[c] \in {"waiting", "begin"} => depth[c] = 0 /\ left[c] < MaxWithTx
    /\ \A c \in Calls : depth[c] > 0 => pc[c] = "handler" /\ writeMu = c /\ txn = c
    /\ pc[Worker] = "insert" => writeMu = Worker /\ txn = Worker

LocksInv == LockTypes /\ Holds

TrailTypes ==
    /\ entries \in Seq(Audited) /\ Len(entries) <= AuditorBuffer
    /\ batch \in Seq(Audited) /\ Len(batch) <= BatchSize
    /\ log \in Seq(Audited)
    /\ recorded \in Seq(Audited)
    /\ dropped \cup failed \subseteq Audited
    /\ closed \in BOOLEAN
    /\ main \in {"serving", "closing", "exited"}
    /\ \A c \in Calls : pc[c] = "answered" => c \in Audited

\* The worker waits for entries with an empty batch and stops with an empty,
\* closed channel, and the process waits for that.
Flushing ==
    /\ pc[Worker] \in {"receive", "stopped"} => batch = <<>>
    /\ pc[Worker] = "stopped" => closed /\ entries = <<>>
    /\ main = "exited" => pc[Worker] = "stopped"

TrailInv == TrailTypes /\ Flushing

IInv == LocksInv /\ TrailInv

-----------------------------------------------------------------------------
(* The locks.                                                              *)

LEMMA LocksInit == Init => LocksInv
BY AuditConstants DEF Init, LocksInv, LockTypes, Holds, Processes, CallPc, WorkerPc

LEMMA LocksOfTransactions ==
    ASSUME LocksInv, NEW p \in Processes, Lock(p) \/ BeginTx(p)
    PROVE  LocksInv'
<1>1. CASE Lock(p)
  <2>1. LockTypes'
    BY <1>1, AuditConstants DEF LocksInv, LockTypes, Holds, Lock, Goto, Processes, CallPc, WorkerPc
  <2>2. Holds'
    BY <1>1, AuditConstants DEF LocksInv, LockTypes, Holds, Lock, Goto, Processes
  <2>. QED  BY <2>1, <2>2 DEF LocksInv
<1>2. CASE BeginTx(p)
  <2>1. LockTypes'
    BY <1>2, AuditConstants DEF LocksInv, LockTypes, Holds, BeginTx, Goto, Processes, CallPc, WorkerPc
  <2>2. Holds'
    BY <1>2, AuditConstants DEF LocksInv, LockTypes, Holds, BeginTx, Goto, Processes
  <2>. QED  BY <2>1, <2>2 DEF LocksInv
<1>. QED  BY <1>1, <1>2

LEMMA LocksOfCalls ==
    ASSUME LocksInv, NEW c \in Calls,
           Arrive(c) \/ WithTx(c) \/ EndTx(c) \/ BeginFails(c) \/ Return(c) \/ ContextDone(c) \/ Record(c) \/ Panic(c)
    PROVE  LocksInv'
<1>. USE AuditConstants DEF LocksInv, LockTypes, Holds, Goto, Processes, CallPc, WorkerPc, locks
<1>1. CASE Arrive(c)
  BY <1>1 DEF Arrive
<1>2. CASE WithTx(c)
  BY <1>2 DEF WithTx
<1>3. CASE EndTx(c)
  BY <1>3 DEF EndTx
<1>4. CASE BeginFails(c)
  BY <1>4 DEF BeginFails
<1>5. CASE Return(c)
  BY <1>5 DEF Return
<1>6. CASE ContextDone(c)
  BY <1>6 DEF ContextDone
<1>7. CASE Record(c)
  BY <1>7 DEF Record
<1>8. CASE Panic(c)
  BY <1>8 DEF Panic
<1>. QED  BY <1>1, <1>2, <1>3, <1>4, <1>5, <1>6, <1>7, <1>8

LEMMA LocksOfWorker ==
    ASSUME LocksInv, Receive \/ Drain \/ Insert \/ Stop
    PROVE  LocksInv'
<1>. USE AuditConstants DEF LocksInv, LockTypes, Holds, Goto, Processes, CallPc, WorkerPc, locks
<1>1. CASE Receive
  BY <1>1 DEF Receive
<1>2. CASE Drain
  BY <1>2 DEF Drain
<1>3. CASE Insert
  BY <1>3 DEF Insert, Flushed
<1>4. CASE Stop
  BY <1>4 DEF Stop
<1>. QED  BY <1>1, <1>2, <1>3, <1>4

-----------------------------------------------------------------------------
(* The entries.                                                            *)

LEMMA TrailInit == Init => TrailInv
<1>. SUFFICES ASSUME Init PROVE TrailInv
  OBVIOUS
<1>1. /\ pc[Worker] = "receive"
      /\ \A c \in Calls : pc[c] = "new"
  BY AuditConstants DEF Init, Processes
<1>2. <<>> \in Seq(Audited) /\ Len(<<>>) = 0
  OBVIOUS
<1>3. TrailTypes
  <2>1. closed \in BOOLEAN
    BY DEF Init
  <2>2. dropped \cup failed \subseteq Audited /\ main \in {"serving", "closing", "exited"}
    BY DEF Init
  <2>3. entries = <<>> /\ batch = <<>> /\ log = <<>> /\ recorded = <<>>
    BY DEF Init
  <2>. QED  BY <1>1, <1>2, <2>1, <2>2, <2>3, AuditConstants DEF TrailTypes
<1>4. Flushing
  BY <1>1 DEF Init, Flushing
<1>. QED  BY <1>3, <1>4 DEF TrailInv

\* What leaves the channel, the batch and the worker's place alone keeps the rest.
LEMMA TrailUntouched ==
    ASSUME TrailInv, LocksInv, UNCHANGED trail,
           \A c \in Calls : pc'[c] = "answered" => pc[c] = "answered" \/ c \in Audited,
           pc'[Worker] = pc[Worker] \/ (pc'[Worker] \notin {"receive", "stopped"} /\ pc[Worker] # "stopped")
    PROVE  TrailInv'
BY DEF TrailInv, TrailTypes, Flushing, trail

\* Steps that only move a process or its transaction.
LEMMA TrailOfTransactions ==
    ASSUME TrailInv, LocksInv, NEW p \in Processes, Lock(p) \/ BeginTx(p)
    PROVE  TrailInv'
<1>1. UNCHANGED trail
  BY DEF Lock, BeginTx
<1>2. \A c \in Calls : pc'[c] = "answered" => pc[c] = "answered" \/ c \in Audited
  BY DEF Lock, BeginTx, Goto, LocksInv, LockTypes, Processes
<1>3. pc'[Worker] = pc[Worker] \/ (pc'[Worker] \notin {"receive", "stopped"} /\ pc[Worker] # "stopped")
  <2>0. /\ DOMAIN pc = Processes
        /\ Worker \in Processes
    BY DEF LocksInv, LockTypes, Processes
  <2>1. CASE p = Worker
    <3>1. pc[Worker] = "waiting" \/ pc[Worker] = "begin"
      BY <2>1 DEF Lock, BeginTx
    <3>2. pc'[Worker] = "begin" \/ pc'[Worker] = "insert"
      BY <2>0, <2>1 DEF Lock, BeginTx, Goto
    <3>. QED  BY <3>1, <3>2
  <2>2. CASE p # Worker
    BY <2>0, <2>2 DEF Lock, BeginTx, Goto
  <2>. QED  BY <2>1, <2>2
<1>. QED  BY <1>1, <1>2, <1>3, TrailUntouched

LEMMA TrailOfCalls ==
    ASSUME TrailInv, LocksInv, NEW c \in Calls,
           Arrive(c) \/ WithTx(c) \/ EndTx(c) \/ BeginFails(c) \/ Return(c) \/ ContextDone(c) \/ Panic(c)
    PROVE  TrailInv'
<1>1. UNCHANGED trail
  BY DEF Arrive, WithTx, EndTx, BeginFails, Return, ContextDone, Panic
<1>2. \A d \in Calls : pc'[d] = "answered" => pc[d] = "answered" \/ d \in Audited
  BY AuditConstants DEF Arrive, WithTx, EndTx, BeginFails, Return, ContextDone, Panic, Goto, LocksInv, LockTypes, Processes
<1>3. pc'[Worker] = pc[Worker]
  BY AuditConstants DEF Arrive, WithTx, EndTx, BeginFails, Return, ContextDone, Panic, Goto, LocksInv, LockTypes, Processes
<1>. QED  BY <1>1, <1>2, <1>3, TrailUntouched

LEMMA TrailOfRecord ==
    ASSUME TrailInv, LocksInv, NEW c \in Calls, Record(c)
    PROVE  TrailInv'
<1>1. pc'[Worker] = pc[Worker] /\ c \in Audited
      /\ \A d \in Calls : pc'[d] = "answered" => d \in Audited
  BY AuditConstants DEF Record, Goto, LocksInv, LockTypes, Processes, TrailInv, TrailTypes
<1>2. TrailTypes'
  BY <1>1, AuditConstants DEF Record, TrailInv, TrailTypes
<1>3. Flushing'
  BY <1>1 DEF Record, TrailInv, Flushing
<1>. QED  BY <1>2, <1>3 DEF TrailInv

\* The first entry of the channel moves to the end of the batch.
LEMMA Moving ==
    ASSUME TrailTypes, entries # <<>>
    PROVE  /\ Append(batch, Head(entries)) \in Seq(Audited)
           /\ Len(Append(batch, Head(entries))) = Len(batch) + 1
           /\ Tail(entries) \in Seq(Audited)
           /\ Len(Tail(entries)) <= AuditorBuffer
BY AuditConstants DEF TrailTypes

LEMMA TrailOfWorker ==
    ASSUME TrailInv, LocksInv, Receive \/ Drain \/ Insert \/ Stop
    PROVE  TrailInv'
<1>. USE AuditConstants DEF TrailInv, LocksInv, LockTypes, Goto, Processes, locks
<1>0. \A d \in Calls : pc'[d] = pc[d]
  BY DEF Receive, Drain, Insert, Stop
<1>1. CASE Receive
  <2>1. Len(batch) = 0
    BY <1>1 DEF Receive, Flushing
  <2>2. /\ entries' = Tail(entries) /\ batch' = Append(batch, Head(entries))
        /\ entries # <<>>
        /\ UNCHANGED <<closed, log, main, recorded, dropped, failed>>
    BY <1>1 DEF Receive
  <2>4. /\ entries' \in Seq(Audited) /\ Len(entries') <= AuditorBuffer
        /\ batch' \in Seq(Audited) /\ Len(batch') <= BatchSize
    BY <2>1, <2>2, Moving
  <2>5. TrailTypes'
    BY <1>0, <2>2, <2>4 DEF TrailTypes
  <2>3. Flushing'
    BY <1>1 DEF Receive, Flushing
  <2>. QED  BY <2>3, <2>5
<1>2. CASE Drain
  <2>1. UNCHANGED <<closed, log, main, recorded, dropped, failed>>
    BY <1>2 DEF Drain
  <2>2. /\ entries' \in Seq(Audited) /\ Len(entries') <= AuditorBuffer
        /\ batch' \in Seq(Audited) /\ Len(batch') <= BatchSize
    <3>1. CASE Len(batch) < BatchSize /\ entries # <<>>
      <4>1. entries' = Tail(entries) /\ batch' = Append(batch, Head(entries))
        BY <1>2, <3>1 DEF Drain
      <4>2. Len(batch) \in Nat
        BY DEF TrailTypes
      <4>. QED  BY <3>1, <4>1, <4>2, Moving
    <3>2. CASE ~(Len(batch) < BatchSize /\ entries # <<>>)
      BY <1>2, <3>2 DEF Drain, TrailTypes
    <3>. QED  BY <3>1, <3>2
  <2>3. TrailTypes'
    BY <1>0, <2>1, <2>2 DEF TrailTypes
  <2>4. Flushing'
    BY <1>2 DEF Drain, Flushing
  <2>. QED  BY <2>3, <2>4
<1>3. CASE Insert
  <2>1. log \o batch \in Seq(Audited) /\ ToSet(batch) \subseteq Audited
    BY DEF TrailTypes, ToSet
  <2>2. log' \in Seq(Audited) /\ failed' \subseteq Audited /\ batch' = <<>>
    BY <1>3, <2>1 DEF Insert, Flushed, TrailTypes
  <2>3. <<>> \in Seq(Audited) /\ Len(<<>>) = 0
    OBVIOUS
  <2>4. UNCHANGED <<entries, closed, main, recorded, dropped>>
    BY <1>3 DEF Insert
  <2>5. TrailTypes'
    BY <1>0, <2>2, <2>3, <2>4 DEF TrailTypes
  <2>6. Flushing'
    BY <1>3 DEF Insert, Flushed, Flushing
  <2>. QED  BY <2>5, <2>6
<1>4. CASE Stop
  <2>1. TrailTypes'
    BY <1>0, <1>4 DEF Stop, TrailTypes, trail
  <2>2. Flushing'
    BY <1>4 DEF Stop, Flushing, trail
  <2>. QED  BY <2>1, <2>2
<1>. QED  BY <1>1, <1>2, <1>3, <1>4

LEMMA InvOfProcess ==
    ASSUME IInv, Close \/ Exit
    PROVE  IInv'
<1>1. LocksInv'
  BY DEF IInv, Close, Exit, LocksInv, LockTypes, Holds, locks
<1>2. TrailInv'
  BY DEF IInv, Close, Exit, TrailInv, TrailTypes, Flushing
<1>. QED  BY <1>1, <1>2 DEF IInv

-----------------------------------------------------------------------------
(* The order of the entries.                                               *)

\* Who has recorded has ended, so that nobody records twice.
Ordered ==
    /\ \A m \in DOMAIN recorded : recorded[m] \in Calls /\ pc[recorded[m]] = "ended"
    /\ failed \subseteq ToSet(recorded)
    /\ InOrderOnce

LEMMA OrderedInit == Init => Ordered
<1>. SUFFICES ASSUME Init PROVE Ordered
  OBVIOUS
<1>1. recorded = <<>> /\ failed = {} /\ log = <<>> /\ batch = <<>> /\ entries = <<>>
  BY DEF Init
<1>2. DOMAIN recorded = {} /\ ToSet(recorded) = {}
  BY <1>1 DEF ToSet
<1>3. Kept = <<>>
  BY <1>1 DEF Kept
<1>4. DOMAIN Kept = {} /\ ToSet(Kept) = {}
  BY <1>3 DEF ToSet
<1>. QED  BY <1>1, <1>2, <1>4 DEF Ordered, InOrderOnce

\* An entry on its way from the channel to the batch stays in its place.
LEMMA KeptWhileMoving ==
    ASSUME NEW S, NEW l \in Seq(S), NEW b \in Seq(S), NEW e \in Seq(S), e # <<>>
    PROVE  l \o Append(b, Head(e)) \o Tail(e) = l \o b \o e
<1>1. /\ l \o Append(b, Head(e)) \o Tail(e) \in Seq(S)
      /\ l \o b \o e \in Seq(S)
      /\ Len(l \o Append(b, Head(e)) \o Tail(e)) = Len(l \o b \o e)
  OBVIOUS
<1>2. \A i \in 1..Len(l \o b \o e) : (l \o Append(b, Head(e)) \o Tail(e))[i] = (l \o b \o e)[i]
  OBVIOUS
<1>. QED  BY <1>1, <1>2, SeqEqual

LEMMA AppendedToLast ==
    ASSUME NEW S, NEW l \in Seq(S), NEW e \in Seq(S), NEW x \in S
    PROVE  l \o Append(e, x) = Append(l \o e, x)
<1>1. /\ l \o Append(e, x) \in Seq(S) /\ Append(l \o e, x) \in Seq(S)
      /\ Len(l \o Append(e, x)) = Len(Append(l \o e, x))
  OBVIOUS
<1>2. \A i \in 1..Len(l \o Append(e, x)) : (l \o Append(e, x))[i] = Append(l \o e, x)[i]
  OBVIOUS
<1>. QED  BY <1>1, <1>2, SeqEqual

\* What leaves the trail alone and nobody's end undone keeps the order.
LEMMA OrderedUntouched ==
    ASSUME Ordered, Kept' = Kept, recorded' = recorded, failed' = failed,
           \A c \in Calls : pc[c] = "ended" => pc'[c] = "ended"
    PROVE  Ordered'
BY DEF Ordered, InOrderOnce, ToSet

LEMMA OrderedOfTransactions ==
    ASSUME IInv, Ordered, NEW p \in Processes, Lock(p) \/ BeginTx(p)
    PROVE  Ordered'
<1>1. Kept' = Kept /\ recorded' = recorded /\ failed' = failed
  BY DEF Lock, BeginTx, trail, Kept
<1>2. \A c \in Calls : pc[c] = "ended" => pc'[c] = "ended"
  BY DEF Lock, BeginTx, Goto, IInv, LocksInv, LockTypes, Processes
<1>. QED  BY <1>1, <1>2, OrderedUntouched

LEMMA OrderedOfCalls ==
    ASSUME IInv, Ordered, NEW c \in Calls,
           Arrive(c) \/ WithTx(c) \/ EndTx(c) \/ BeginFails(c) \/ Return(c) \/ ContextDone(c) \/ Panic(c)
    PROVE  Ordered'
<1>1. Kept' = Kept /\ recorded' = recorded /\ failed' = failed
  BY DEF Arrive, WithTx, EndTx, BeginFails, Return, ContextDone, Panic, trail, Kept
<1>2. \A d \in Calls : pc[d] = "ended" => pc'[d] = "ended"
  BY DEF Arrive, WithTx, EndTx, BeginFails, Return, ContextDone, Panic, Goto, IInv, LocksInv, LockTypes, Processes
<1>. QED  BY <1>1, <1>2, OrderedUntouched

\* A new entry is the last of both sequences.
LEMMA OrderedAppended ==
    ASSUME NEW S, recorded \in Seq(S), Kept \in Seq(S), NEW c \in S, InOrderOnce,
           c \notin ToSet(recorded), c \notin failed,
           recorded' = Append(recorded, c), Kept' = Append(Kept, c), failed' = failed
    PROVE  InOrderOnce' /\ ToSet(recorded') = ToSet(recorded) \cup {c}
<1>. DEFINE n == Len(recorded)  k == Len(Kept)
<1>1. /\ n \in Nat /\ DOMAIN recorded = 1..n /\ DOMAIN recorded' = 1..(n + 1)
      /\ \A m \in 1..n : recorded'[m] = recorded[m] /\ recorded[m] \in ToSet(recorded)
      /\ recorded'[n + 1] = c
  BY DEF ToSet
<1>2. /\ k \in Nat /\ DOMAIN Kept = 1..k /\ DOMAIN Kept' = 1..(k + 1)
      /\ \A i \in 1..k : Kept'[i] = Kept[i] /\ Kept[i] \in ToSet(Kept)
      /\ Kept'[k + 1] = c
  BY DEF ToSet
<1>0. 1..(n + 1) = 1..n \cup {n + 1} /\ 1..(k + 1) = 1..k \cup {k + 1}
  BY <1>1, <1>2
<1>. HIDE DEF n, k
<1>3. \A m, o \in DOMAIN recorded' : recorded'[m] = recorded'[o] => m = o
  <2>. SUFFICES ASSUME NEW m \in 1..(n + 1), NEW o \in 1..(n + 1), recorded'[m] = recorded'[o] PROVE m = o
    BY <1>1
  <2>1. CASE m \in 1..n /\ o \in 1..n
    BY <1>1, <2>1 DEF InOrderOnce
  <2>2. CASE m = n + 1 \/ o = n + 1
    BY <1>1, <2>2
  <2>. QED  BY <1>1, <2>1, <2>2
<1>4. ToSet(recorded') = ToSet(recorded) \cup {c}
  BY <1>0, <1>1 DEF ToSet
<1>5. ToSet(Kept') = ToSet(Kept) \cup {c}
  BY <1>0, <1>2 DEF ToSet
<1>6. ToSet(Kept') = ToSet(recorded') \ failed'
  BY <1>4, <1>5 DEF InOrderOnce
<1>7. ASSUME NEW i \in DOMAIN Kept', NEW j \in DOMAIN Kept', i < j
      PROVE  \E m, o \in DOMAIN recorded' : m < o /\ recorded'[m] = Kept'[i] /\ recorded'[o] = Kept'[j]
  <2>1. i \in 1..k
    BY <1>2, <1>7
  <2>2. CASE j \in 1..k
    <3>1. PICK m \in 1..n, o \in 1..n : m < o /\ recorded[m] = Kept[i] /\ recorded[o] = Kept[j]
      BY <1>1, <1>2, <1>7, <2>1, <2>2 DEF InOrderOnce
    <3>2. m \in 1..(n + 1) /\ o \in 1..(n + 1)
      BY <1>1
    <3>. QED  BY <1>1, <1>2, <2>1, <2>2, <3>1, <3>2
  <2>3. CASE j = k + 1
    <3>1. Kept[i] \in ToSet(recorded)
      BY <1>2, <2>1 DEF InOrderOnce
    <3>2. PICK m \in 1..n : recorded[m] = Kept[i]
      BY <1>1, <3>1 DEF ToSet
    <3>3. m \in 1..(n + 1) /\ n + 1 \in 1..(n + 1) /\ m < n + 1
      BY <1>1
    <3>4. recorded'[m] = Kept'[i] /\ recorded'[n + 1] = Kept'[j]
      BY <1>1, <1>2, <2>1, <2>3, <3>2
    <3>5. DOMAIN recorded' = 1..(n + 1)
      BY <1>1
    <3>. QED  BY <3>3, <3>4, <3>5
  <2>. QED  BY <1>2, <2>2, <2>3
<1>. QED  BY <1>3, <1>4, <1>6, <1>7 DEF InOrderOnce

LEMMA OrderedOfRecord ==
    ASSUME IInv, Ordered, NEW c \in Calls, Record(c)
    PROVE  Ordered'
<1>1. /\ c \in Audited /\ pc[c] = "answered" /\ pc'[c] = "ended"
      /\ \A d \in Calls : d # c => pc'[d] = pc[d]
  BY DEF Record, Goto, IInv, LocksInv, LockTypes, TrailInv, TrailTypes, Processes
<1>2. \A d \in Calls : pc[d] = "ended" => pc'[d] = "ended"
  BY <1>1
<1>3. CASE closed \/ Len(entries) = AuditorBuffer
  <2>1. Kept' = Kept /\ recorded' = recorded /\ failed' = failed
    BY <1>3 DEF Record, Kept
  <2>. QED  BY <1>2, <2>1, OrderedUntouched
<1>4. CASE ~closed /\ Len(entries) # AuditorBuffer
  <2>1. /\ entries' = Append(entries, c) /\ recorded' = Append(recorded, c)
        /\ log' = log /\ batch' = batch /\ failed' = failed
    BY <1>4 DEF Record
  <2>2. /\ entries \in Seq(Audited) /\ recorded \in Seq(Audited)
        /\ log \in Seq(Audited) /\ batch \in Seq(Audited)
    BY DEF IInv, TrailInv, TrailTypes
  <2>3. Kept' = Append(Kept, c) /\ Kept \in Seq(Audited)
    <3>1. log \o batch \in Seq(Audited) /\ Kept \in Seq(Audited)
      BY <2>2 DEF Kept
    <3>2. log \o batch \o Append(entries, c) = Append(log \o batch \o entries, c)
      BY <1>1, <2>2, <3>1, AppendedToLast
    <3>. QED  BY <2>1, <3>1, <3>2 DEF Kept
  <2>4. c \notin ToSet(recorded)
    BY <1>1 DEF Ordered, ToSet
  <2>5. InOrderOnce' /\ ToSet(recorded') = ToSet(recorded) \cup {c}
    BY <1>1, <2>1, <2>2, <2>3, <2>4, OrderedAppended DEF Ordered
  <2>6. \A m \in DOMAIN recorded' : recorded'[m] \in Calls /\ pc'[recorded'[m]] = "ended"
    <3>. TAKE m \in DOMAIN recorded'
    <3>1. recorded'[m] \in ToSet(recorded) \cup {c}
      BY <2>5 DEF ToSet
    <3>. QED  BY <1>1, <1>2, <3>1 DEF Ordered, ToSet
  <2>7. failed' \subseteq ToSet(recorded')
    BY <2>1, <2>5 DEF Ordered
  <2>. QED  BY <2>5, <2>6, <2>7 DEF Ordered
<1>. QED  BY <1>3, <1>4

\* A batch whose insert is refused leaves a gap: what is before and behind it keeps
\* its order.
LEMMA OrderedWithoutBatch ==
    ASSUME NEW S, log \in Seq(S), batch \in Seq(S), entries \in Seq(S), recorded \in Seq(S), InOrderOnce,
           recorded' = recorded, failed' = failed \cup ToSet(batch), Kept' = log \o entries
    PROVE  InOrderOnce'
<1>. DEFINE a == Len(log)  b == Len(batch)  e == Len(entries)
            At(i) == IF i <= a THEN i ELSE i + b
<1>1. /\ a \in Nat /\ b \in Nat /\ e \in Nat
      /\ DOMAIN log = 1..a /\ DOMAIN batch = 1..b /\ DOMAIN entries = 1..e
  OBVIOUS
<1>2. /\ DOMAIN Kept = 1..(a + b + e)
      /\ \A i \in 1..(a + b + e) :
             Kept[i] = IF i <= a THEN log[i] ELSE IF i <= a + b THEN batch[i - a] ELSE entries[i - (a + b)]
  BY DEF Kept
<1>3. /\ DOMAIN Kept' = 1..(a + e)
      /\ \A i \in 1..(a + e) : Kept'[i] = IF i <= a THEN log[i] ELSE entries[i - a]
  OBVIOUS
<1>. HIDE DEF a, b, e
<1>4. \A i \in DOMAIN Kept' : At(i) \in DOMAIN Kept /\ Kept'[i] = Kept[At(i)] /\ At(i) \notin (a + 1)..(a + b)
  <2>. SUFFICES ASSUME NEW i \in 1..(a + e)
                PROVE  At(i) \in 1..(a + b + e) /\ Kept'[i] = Kept[At(i)] /\ At(i) \notin (a + 1)..(a + b)
    BY <1>2, <1>3
  <2>1. CASE i <= a
    BY <1>1, <1>2, <1>3, <2>1
  <2>2. CASE i > a
    <3>1. /\ At(i) = i + b /\ i + b \in 1..(a + b + e)
          /\ ~(i + b <= a + b) /\ ~(i + b <= a) /\ (i + b) - (a + b) = i - a
      BY <1>1, <2>2
    <3>2. Kept[i + b] = entries[i - a]
      BY <1>2, <3>1
    <3>. QED  BY <1>1, <1>3, <2>2, <3>1, <3>2
  <2>. QED  BY <1>1, <2>1, <2>2
<1>5. \A i, j \in DOMAIN Kept' : i < j => At(i) < At(j)
  BY <1>1, <1>3
<1>. HIDE DEF At
\* Nothing is twice in what is kept, so no entry of the batch is elsewhere.
<1>6. \A i, j \in DOMAIN Kept : Kept[i] = Kept[j] => i = j
  <2>. SUFFICES ASSUME NEW i \in DOMAIN Kept, NEW j \in DOMAIN Kept, i < j, Kept[i] = Kept[j] PROVE FALSE
    BY <1>1, <1>2
  <2>1. PICK m \in DOMAIN recorded, n \in DOMAIN recorded : m < n /\ recorded[m] = Kept[i] /\ recorded[n] = Kept[j]
    BY DEF InOrderOnce
  <2>2. m = n
    BY <2>1 DEF InOrderOnce
  <2>3. DOMAIN recorded = 1..Len(recorded)
    OBVIOUS
  <2>. QED  BY <2>1, <2>2, <2>3
<1>7. \A i \in (a + 1)..(a + b) : Kept[i] \in ToSet(batch) /\ i \in DOMAIN Kept
  <2>. TAKE i \in (a + 1)..(a + b)
  <2>1. i - a \in 1..b /\ i \in 1..(a + b + e) /\ ~(i <= a) /\ i <= a + b
    BY <1>1
  <2>2. Kept[i] = batch[i - a]
    BY <1>2, <2>1
  <2>. QED  BY <1>1, <1>2, <2>1, <2>2 DEF ToSet
<1>8. \A x \in ToSet(batch) : \E i \in (a + 1)..(a + b) : Kept[i] = x
  <2>. TAKE x \in ToSet(batch)
  <2>1. PICK i \in 1..b : batch[i] = x
    BY <1>1 DEF ToSet
  <2>2. /\ a + i \in (a + 1)..(a + b) /\ a + i \in 1..(a + b + e)
        /\ ~(a + i <= a) /\ a + i <= a + b /\ (a + i) - a = i
    BY <1>1
  <2>. QED  BY <1>2, <2>1, <2>2
<1>9. \A i \in DOMAIN Kept' : Kept'[i] \in ToSet(Kept) \ ToSet(batch)
  <2>. TAKE i \in DOMAIN Kept'
  <2>1. Kept'[i] \in ToSet(Kept)
    BY <1>4 DEF ToSet
  <2>2. ASSUME Kept'[i] \in ToSet(batch) PROVE FALSE
    <3>1. PICK j \in (a + 1)..(a + b) : Kept[j] = Kept'[i]
      BY <1>8, <2>2
    <3>. QED  BY <1>4, <1>6, <1>7, <3>1
  <2>. QED  BY <2>1, <2>2
<1>10. \A i \in DOMAIN Kept : i \in (a + 1)..(a + b) \/ \E j \in DOMAIN Kept' : Kept'[j] = Kept[i]
  <2>. TAKE i \in DOMAIN Kept
  <2>1. CASE i <= a
    BY <1>1, <1>2, <1>3, <2>1
  <2>2. CASE i > a + b
    <3>1. /\ i - b \in 1..(a + e) /\ ~(i - b <= a) /\ (i - b) - a = i - (a + b)
          /\ i \in 1..(a + b + e) /\ ~(i <= a) /\ ~(i <= a + b)
      BY <1>1, <1>2, <2>2
    <3>2. Kept[i] = entries[i - (a + b)]
      BY <1>2, <3>1
    <3>3. Kept'[i - b] = entries[i - (a + b)]
      BY <1>3, <3>1
    <3>. QED  BY <1>3, <3>1, <3>2, <3>3
  <2>. QED  BY <1>1, <1>2, <2>1, <2>2
<1>11. ToSet(Kept') = ToSet(Kept) \ ToSet(batch)
  <2>1. ToSet(Kept') \subseteq ToSet(Kept) \ ToSet(batch)
    BY <1>9 DEF ToSet
  <2>2. ASSUME NEW x \in ToSet(Kept), x \notin ToSet(batch) PROVE x \in ToSet(Kept')
    <3>1. PICK i \in DOMAIN Kept : Kept[i] = x
      BY DEF ToSet
    <3>2. i \notin (a + 1)..(a + b)
      BY <1>7, <2>2, <3>1
    <3>. QED  BY <1>10, <3>1, <3>2 DEF ToSet
  <2>. QED  BY <2>1, <2>2
<1>12. ToSet(Kept') = ToSet(recorded') \ failed'
  BY <1>11 DEF InOrderOnce
<1>13. ASSUME NEW i \in DOMAIN Kept', NEW j \in DOMAIN Kept', i < j
       PROVE  \E m, n \in DOMAIN recorded' : m < n /\ recorded'[m] = Kept'[i] /\ recorded'[n] = Kept'[j]
  <2>1. PICK m \in DOMAIN recorded, n \in DOMAIN recorded : m < n /\ recorded[m] = Kept[At(i)] /\ recorded[n] = Kept[At(j)]
    BY <1>4, <1>5, <1>13 DEF InOrderOnce
  <2>. QED  BY <1>4, <2>1
<1>. QED  BY <1>12, <1>13 DEF InOrderOnce

LEMMA OrderedOfWorker ==
    ASSUME IInv, Ordered, Receive \/ Drain \/ Insert \/ Stop
    PROVE  Ordered'
<1>1. /\ entries \in Seq(Audited) /\ recorded \in Seq(Audited)
      /\ log \in Seq(Audited) /\ batch \in Seq(Audited)
  BY DEF IInv, TrailInv, TrailTypes
<1>2. \A c \in Calls : pc'[c] = pc[c]
  BY AuditConstants DEF Receive, Drain, Insert, Stop, Goto, IInv, LocksInv, LockTypes, Processes
<1>3. CASE batch' = Append(batch, Head(entries)) /\ entries' = Tail(entries) /\ entries # <<>>
           /\ UNCHANGED <<log, recorded, failed>>
  <2>1. Kept' = Kept
    <3>1. log \o Append(batch, Head(entries)) \o Tail(entries) = log \o batch \o entries
      <4>1. \A l, b, e \in Seq(Audited) : e # <<>> => l \o Append(b, Head(e)) \o Tail(e) = l \o b \o e
        BY KeptWhileMoving
      <4>2. entries # <<>>
        BY <1>3
      <4>. QED  BY <1>1, <4>1, <4>2, Zenon
    <3>. QED  BY <1>3, <3>1 DEF Kept
  <2>. QED  BY <1>2, <1>3, <2>1, OrderedUntouched
<1>4. CASE UNCHANGED <<batch, entries, log, recorded, failed>>
  <2>1. Kept' = Kept
    BY <1>4 DEF Kept
  <2>. QED  BY <1>2, <1>4, <2>1, OrderedUntouched
<1>5. CASE Insert
  <2>1. UNCHANGED <<entries, recorded>>
    BY <1>5 DEF Insert
  <2>2. CASE log' = log \o batch /\ batch' = <<>> /\ failed' = failed
    <3>1. log \o batch \in Seq(Audited)
      BY <1>1
    <3>2. Kept' = Kept
      BY <2>1, <2>2, <3>1, ConcatEmptySeq DEF Kept
    <3>. QED  BY <1>2, <2>1, <2>2, <3>2, OrderedUntouched
  <2>3. CASE log' = log /\ batch' = <<>> /\ failed' = failed \cup ToSet(batch)
    <3>1. Kept' = log \o entries
      BY <1>1, <2>1, <2>3, ConcatEmptySeq DEF Kept
    <3>2. InOrderOnce'
      BY <1>1, <2>1, <2>3, <3>1, OrderedWithoutBatch DEF Ordered
    <3>3. ToSet(batch) \subseteq ToSet(recorded)
      <4>1. \A i \in 1..Len(batch) : Len(log) + i \in DOMAIN Kept /\ Kept[Len(log) + i] = batch[i]
        BY <1>1 DEF Kept
      <4>2. DOMAIN batch = 1..Len(batch)
        BY <1>1
      <4>3. ToSet(batch) \subseteq ToSet(Kept)
        BY <4>1, <4>2 DEF ToSet
      <4>. QED  BY <4>3 DEF Ordered, InOrderOnce
    <3>. QED  BY <1>2, <2>1, <2>3, <3>2, <3>3 DEF Ordered
  <2>. QED  BY <1>5, <2>2, <2>3 DEF Insert, Flushed
<1>. QED  BY <1>3, <1>4, <1>5 DEF Receive, Drain, Stop, trail

LEMMA OrderedOfProcess ==
    ASSUME Ordered, (Close \/ Exit) \/ UNCHANGED vars
    PROVE  Ordered'
<1>1. Kept' = Kept /\ recorded' = recorded /\ failed' = failed /\ pc' = pc
  BY DEF Close, Exit, vars, Kept
<1>. QED  BY <1>1, OrderedUntouched

-----------------------------------------------------------------------------
(* Theorems.                                                               *)

LEMMA InductiveInvariant == Spec => []IInv
<1>1. Init => IInv
  BY LocksInit, TrailInit DEF IInv
<1>2. IInv /\ [Next]_vars => IInv'
  <2>. SUFFICES ASSUME IInv, [Next]_vars PROVE IInv'
    OBVIOUS
  <2>1. CASE \E p \in Processes : Lock(p) \/ BeginTx(p)
    BY <2>1, LocksOfTransactions, TrailOfTransactions DEF IInv
  <2>2. CASE \E c \in Calls : Arrive(c) \/ WithTx(c) \/ EndTx(c) \/ BeginFails(c) \/ Return(c) \/ ContextDone(c) \/ Panic(c)
    BY <2>2, LocksOfCalls, TrailOfCalls DEF IInv
  <2>3. CASE \E c \in Calls : Record(c)
    BY <2>3, LocksOfCalls, TrailOfRecord DEF IInv
  <2>4. CASE Receive \/ Drain \/ Insert \/ Stop
    BY <2>4, LocksOfWorker, TrailOfWorker DEF IInv
  <2>5. CASE Close \/ Exit
    BY <2>5, InvOfProcess
  <2>6. CASE UNCHANGED vars
    BY <2>6 DEF vars, IInv, LocksInv, LockTypes, Holds, TrailInv, TrailTypes, Flushing
  <2>7. Worker \in Processes /\ Calls \subseteq Processes
    BY DEF Processes
  <2>. QED  BY <2>1, <2>2, <2>3, <2>4, <2>5, <2>6, <2>7 DEF Next, CallStep, WorkerStep
<1>. QED  BY <1>1, <1>2, PTL DEF Spec

\* Type correctness (Auditor, Data): the channel and the batch never outgrow their
\* bounds, and no handler is deeper in transactions than it made calls of WithTx.
THEOREM AuditTypes == Spec => []TypeOK
<1>1. IInv => TypeOK
  BY DEF IInv, LocksInv, LockTypes, TrailInv, TrailTypes, TypeOK
<1>. QED  BY <1>1, InductiveInvariant, PTL

\* WithTx serialises the writers: whoever is inside a transaction holds the mutex and
\* the database, whatever calls are nested, refused or left by a panic.
THEOREM TransactionsAlone == Spec => []OneWriter
<1>1. IInv => OneWriter
  BY AuditConstants DEF IInv, LocksInv, LockTypes, Holds, OneWriter, Processes
<1>. QED  BY <1>1, InductiveInvariant, PTL

\* Close flushes: when main returns, neither the channel nor the batch has an entry left.
THEOREM ShutdownFlushes == Spec => []FlushedAtExit
<1>1. IInv => FlushedAtExit
  BY DEF IInv, TrailInv, Flushing, FlushedAtExit
<1>. QED  BY <1>1, InductiveInvariant, PTL

\* The trail is exact (Record, run, flush, Close): the table, the batch and the
\* channel hold each accepted entry once, in the order of the answers, and at the
\* exit the table holds all of them, but for the batches whose insert was refused.
THEOREM TrailIsExact == Spec => []TrailExact
<1>1. Init => Ordered
  BY OrderedInit
<1>2. IInv /\ Ordered /\ [Next]_vars => Ordered'
  <2>. SUFFICES ASSUME IInv, Ordered, [Next]_vars PROVE Ordered'
    OBVIOUS
  <2>1. CASE \E p \in Processes : Lock(p) \/ BeginTx(p)
    BY <2>1, OrderedOfTransactions
  <2>2. CASE \E c \in Calls : Arrive(c) \/ WithTx(c) \/ EndTx(c) \/ BeginFails(c) \/ Return(c) \/ ContextDone(c) \/ Panic(c)
    BY <2>2, OrderedOfCalls
  <2>3. CASE \E c \in Calls : Record(c)
    BY <2>3, OrderedOfRecord
  <2>4. CASE Receive \/ Drain \/ Insert \/ Stop
    BY <2>4, OrderedOfWorker
  <2>5. CASE (Close \/ Exit) \/ UNCHANGED vars
    BY <2>5, OrderedOfProcess
  <2>6. Worker \in Processes /\ Calls \subseteq Processes
    BY DEF Processes
  <2>. QED  BY <2>1, <2>2, <2>3, <2>4, <2>5, <2>6 DEF Next, CallStep, WorkerStep
<1>3. IInv /\ Ordered => TrailExact
  BY DEF IInv, TrailInv, Flushing, FlushedAtExit, Ordered, TrailExact
<1>. QED  BY <1>1, <1>2, <1>3, InductiveInvariant, PTL DEF Spec

=============================================================================
