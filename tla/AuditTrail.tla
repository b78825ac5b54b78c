------------------------------ MODULE AuditTrail ------------------------------
(***************************************************************************)
(* The audit trail (internal/server/middleware/audit.go) and the write     *)
(* transactions it shares with the calls it records (WithTx,               *)
(* internal/data/data.go), up to the shutdown of the process               *)
(* (cmd/nagisa/wire_gen.go).                                               *)
(*                                                                         *)
(* A call is handled, opening and joining transactions, and then leaves an *)
(* entry in a bounded channel; one worker coalesces entries into batches   *)
(* and inserts them in a transaction of its own.  What a transaction       *)
(* writes is in the other modules: here it only holds writeMu and the      *)
(* database's write lock.  An entry is the call that left it.              *)
(***************************************************************************)
EXTENDS Naturals, Sequences, FiniteSets, SequencesExt

CONSTANTS
    Calls,          \* requests, each made once
    Audited,        \* those with an entry in auditActions
    Worker,         \* the goroutine of Auditor.run
    None,
    AuditorBuffer,  \* auditorBuffer, 4096 in the program
    BatchSize,      \* entries per insert, 64 in the program
    MaxWithTx,      \* calls of WithTx per handler a run looks at
    Faults          \* of "refuse", "panic", "stopTimeout"

ASSUME AuditConstants ==
    /\ Audited \subseteq Calls
    /\ Worker \notin Calls
    /\ None \notin Calls \cup {Worker}
    /\ AuditorBuffer \in Nat \ {0}
    /\ BatchSize \in Nat \ {0}
    /\ MaxWithTx \in Nat
    /\ Faults \subseteq {"refuse", "panic", "stopTimeout"}

VARIABLES
    pc,        \* where each call and the worker are
    depth,     \* calls of WithTx a handler is inside of
    left,      \* calls of WithTx it has still to make
    writeMu,   \* the mutex of Data
    txn,       \* who holds the database's write lock
    entries,   \* the channel
    closed,    \* the channel was closed
    batch,     \* what the worker has received and not inserted
    log,       \* the audit_logs table
    main,      \* the process
    recorded,  \* history: entries the channel accepted, in that order
    dropped,   \* history: calls whose entry found the channel full
    failed     \* history: entries of batches whose insert failed

vars == <<pc, depth, left, writeMu, txn, entries, closed, batch, log, main, recorded, dropped, failed>>

locks == <<writeMu, txn>>
trail == <<entries, closed, batch, log, main, recorded, dropped, failed>>

-----------------------------------------------------------------------------
Processes == Calls \cup {Worker}

\* waiting: for writeMu; begin: for the database; answered: the handler returned.
CallPc   == {"new", "handler", "waiting", "begin", "answered", "ended"}
WorkerPc == {"receive", "drain", "waiting", "begin", "insert", "stopped"}

Init ==
    /\ pc = [p \in Processes |-> IF p = Worker THEN "receive" ELSE "new"]
    /\ depth = [c \in Calls |-> 0]
    /\ left = [c \in Calls |-> MaxWithTx]
    /\ writeMu = None
    /\ txn = None
    /\ entries = <<>>
    /\ closed = FALSE
    /\ batch = <<>>
    /\ log = <<>>
    /\ main = "serving"
    /\ recorded = <<>>
    /\ dropped = {}
    /\ failed = {}

\* The process runs: goroutines end with main.
Alive == main # "exited"

Goto(p, label) == pc' = [pc EXCEPT ![p] = label]

-----------------------------------------------------------------------------
(* WithTx.                                                                 *)

Lock(p) ==
    /\ Alive
    /\ pc[p] = "waiting"
    /\ writeMu = None
    /\ writeMu' = p
    /\ Goto(p, "begin")
    /\ UNCHANGED <<depth, left, txn>>
    /\ UNCHANGED trail

\* BEGIN IMMEDIATE.
BeginTx(p) ==
    /\ Alive
    /\ pc[p] = "begin"
    /\ txn = None
    /\ txn' = p
    /\ Goto(p, IF p = Worker THEN "insert" ELSE "handler")
    /\ depth' = [c \in Calls |-> IF c = p THEN 1 ELSE depth[c]]
    /\ UNCHANGED <<left, writeMu>>
    /\ UNCHANGED trail

\* Mutant: a nested call opens a transaction of its own.
WithTx_nested(c) ==
    /\ Alive
    /\ pc[c] = "handler"
    /\ left[c] > 0
    /\ left' = [left EXCEPT ![c] = @ - 1]
    /\ Goto(c, "waiting")
    /\ UNCHANGED <<depth, locks, trail>>

\* A handler calls WithTx: a nested call joins the transaction.
WithTx(c) ==
    /\ Alive
    /\ pc[c] = "handler"
    /\ left[c] > 0
    /\ left' = [left EXCEPT ![c] = @ - 1]
    /\ IF depth[c] > 0
       THEN depth' = [depth EXCEPT ![c] = @ + 1] /\ UNCHANGED pc
       ELSE Goto(c, "waiting") /\ UNCHANGED depth
    /\ UNCHANGED <<locks, trail>>

\* The busy timeout passes, or the client's context ends.
BeginFails(c) ==
    /\ Alive
    /\ "refuse" \in Faults
    /\ c \in Calls
    /\ pc[c] = "begin"
    /\ writeMu' = None
    /\ Goto(c, "handler")
    /\ UNCHANGED <<depth, left, txn, trail>>

\* Mutant: a nested call that joined unlocks the mutex as well.
EndTx_unlocks(c) ==
    /\ Alive
    /\ pc[c] = "handler"
    /\ depth[c] > 0
    /\ depth' = [depth EXCEPT ![c] = @ - 1]
    /\ txn' = IF depth[c] = 1 THEN None ELSE txn
    /\ writeMu' = None
    /\ UNCHANGED <<pc, left, trail>>

\* WithTx returns: the outermost one commits or rolls back.
EndTx(c) ==
    /\ Alive
    /\ pc[c] = "handler"
    /\ depth[c] > 0
    /\ depth' = [depth EXCEPT ![c] = @ - 1]
    /\ IF depth[c] = 1 THEN txn' = None /\ writeMu' = None ELSE UNCHANGED locks
    /\ UNCHANGED <<pc, left, trail>>

-----------------------------------------------------------------------------
(* A call.                                                                 *)

Arrive(c) ==
    /\ main = "serving"
    /\ pc[c] = "new"
    /\ Goto(c, "handler")
    /\ UNCHANGED <<depth, left, locks, trail>>

\* The handler returns to the middleware, an error or not.
Return(c) ==
    /\ Alive
    /\ pc[c] = "handler"
    /\ depth[c] = 0
    /\ Goto(c, IF c \in Audited THEN "answered" ELSE "ended")
    /\ UNCHANGED <<depth, left, locks, trail>>

\* The handler panics into the recovery middleware, past the auditor: WithTx
\* unlocks the mutex and leaves its transaction open.
Panic(c) ==
    /\ Alive
    /\ "panic" \in Faults
    /\ pc[c] = "handler"
    /\ writeMu' = IF depth[c] > 0 THEN None ELSE writeMu
    /\ depth' = [depth EXCEPT ![c] = 0]
    /\ Goto(c, "ended")
    /\ UNCHANGED <<left, txn, trail>>

\* database/sql rolls a transaction back when the context of its call is done.
ContextDone(c) ==
    /\ Alive
    /\ pc[c] = "ended"
    /\ txn = c
    /\ txn' = None
    /\ UNCHANGED <<pc, depth, left, writeMu, trail>>

\* Record: never waits.  A send after Close panics, and the entry is lost.
Record(c) ==
    /\ Alive
    /\ pc[c] = "answered"
    /\ Goto(c, "ended")
    /\ LET full == Len(entries) = AuditorBuffer IN
       /\ entries' = IF closed \/ full THEN entries ELSE Append(entries, c)
       /\ recorded' = IF closed \/ full THEN recorded ELSE Append(recorded, c)
       /\ dropped' = IF ~closed /\ full THEN dropped \cup {c} ELSE dropped
    /\ UNCHANGED <<depth, left, locks, closed, batch, log, main, failed>>

-----------------------------------------------------------------------------
(* The worker.                                                             *)

Receive ==
    /\ Alive
    /\ pc[Worker] = "receive"
    /\ entries # <<>>
    /\ batch' = Append(batch, Head(entries))
    /\ entries' = Tail(entries)
    /\ Goto(Worker, "drain")
    /\ UNCHANGED <<depth, left, locks, closed, log, main, recorded, dropped, failed>>

\* Coalesce what is queued already.
Drain ==
    /\ Alive
    /\ pc[Worker] = "drain"
    /\ IF Len(batch) < BatchSize /\ entries # <<>>
       THEN /\ batch' = Append(batch, Head(entries))
            /\ entries' = Tail(entries)
            /\ UNCHANGED pc
       ELSE Goto(Worker, "waiting") /\ UNCHANGED <<batch, entries>>
    /\ UNCHANGED <<depth, left, locks, closed, log, main, recorded, dropped, failed>>

\* Mutant: the batch is not emptied.
Flushed_keepsBatch(ok) ==
    /\ log' = IF ok THEN log \o batch ELSE log
    /\ failed' = IF ok THEN failed ELSE failed \cup ToSet(batch)
    /\ batch' = batch
    /\ writeMu' = None

\* The end of flush: a batch that was refused is gone as well.
Flushed(ok) ==
    /\ log' = IF ok THEN log \o batch ELSE log
    /\ failed' = IF ok THEN failed ELSE failed \cup ToSet(batch)
    /\ batch' = <<>>
    /\ writeMu' = None

\* CreateAuditLogs committed or not, or not even begun.
Insert ==
    /\ Alive
    /\ \/ pc[Worker] = "insert" /\ Flushed(TRUE)
       \/ pc[Worker] \in {"begin", "insert"} /\ "refuse" \in Faults /\ Flushed(FALSE)
    /\ txn' = IF txn = Worker THEN None ELSE txn
    /\ Goto(Worker, "receive")
    /\ UNCHANGED <<depth, left, entries, closed, main, recorded, dropped>>

\* The channel is closed and empty.
Stop ==
    /\ Alive
    /\ pc[Worker] = "receive"
    /\ entries = <<>>
    /\ closed
    /\ Goto(Worker, "stopped")
    /\ UNCHANGED <<depth, left, locks, trail>>

-----------------------------------------------------------------------------
(* The process.                                                            *)

\* app.Run returns, with calls still in flight if the servers gave up waiting
\* for them, and the cleanup starts with Close.
Close ==
    /\ main = "serving"
    /\ "stopTimeout" \in Faults \/ \A c \in Calls : pc[c] \in {"new", "ended"}
    /\ main' = "closing"
    /\ closed' = TRUE
    /\ UNCHANGED <<pc, depth, left, locks, entries, batch, log, recorded, dropped, failed>>

\* Close has seen the worker stop: the database is closed and main returns.
Exit ==
    /\ main = "closing"
    /\ pc[Worker] = "stopped"
    /\ main' = "exited"
    /\ UNCHANGED <<pc, depth, left, locks, entries, closed, batch, log, recorded, dropped, failed>>

CallStep(c) ==
    \/ BeginTx(c) \/ WithTx(c) \/ EndTx(c)
    \/ Return(c) \/ ContextDone(c) \/ Record(c)

WorkerStep == BeginTx(Worker) \/ Receive \/ Drain \/ Insert \/ Stop

Next ==
    \/ \E p \in Processes : Lock(p)
    \/ \E c \in Calls : Arrive(c) \/ CallStep(c) \/ BeginFails(c) \/ Panic(c)
    \/ WorkerStep
    \/ Close \/ Exit

Spec == Init /\ [][Next]_vars

\* Goroutines run, a handler ends, and a mutex does not starve a goroutine that
\* waits for it (sync.Mutex hands over to one that has waited a millisecond).
\* Nobody has to call, to fail or to stop the process.
Fairness ==
    /\ \A c \in Calls : WF_vars(CallStep(c))
    /\ WF_vars(WorkerStep)
    /\ \A p \in Processes : SF_vars(Lock(p))
    /\ WF_vars(Exit)

FairSpec == Spec /\ Fairness

-----------------------------------------------------------------------------
(* Properties.                                                             *)

\* Every variable stays in its domain.
TypeOK ==
    /\ pc \in [Processes -> CallPc \cup WorkerPc]
    /\ \A c \in Calls : pc[c] \in CallPc
    /\ pc[Worker] \in WorkerPc
    /\ depth \in [Calls -> 0..MaxWithTx]
    /\ left \in [Calls -> 0..MaxWithTx]
    /\ writeMu \in Processes \cup {None}
    /\ txn \in Processes \cup {None}
    /\ entries \in Seq(Audited) /\ Len(entries) <= AuditorBuffer
    /\ batch \in Seq(Audited) /\ Len(batch) <= BatchSize
    /\ log \in Seq(Audited)
    /\ recorded \in Seq(Audited)
    /\ dropped \cup failed \subseteq Audited
    /\ closed \in BOOLEAN
    /\ main \in {"serving", "closing", "exited"}

\* A transaction is alone: whoever is inside one holds writeMu and the
\* database, whatever panics or is refused around it (WithTx).
OneWriter ==
    \A p \in Processes :
        (p = Worker /\ pc[p] = "insert") \/ (p \in Calls /\ depth[p] > 0) => writeMu = p /\ txn = p

\* Entries that were accepted and not lost, from the oldest to the newest.
Kept == log \o batch \o entries

\* A call records once.  The table, the batch and the channel together hold what was
\* recorded, without gaps but the batches whose insert failed, and in the order of
\* the answers (Record, run).
InOrderOnce ==
    /\ \A m, n \in DOMAIN recorded : recorded[m] = recorded[n] => m = n
    /\ ToSet(Kept) = ToSet(recorded) \ failed
    /\ \A i, j \in DOMAIN Kept : i < j =>
           \E m, n \in DOMAIN recorded : m < n /\ recorded[m] = Kept[i] /\ recorded[n] = Kept[j]

\* A process that stops in order leaves nothing behind in memory (Close).
FlushedAtExit == main = "exited" => batch \o entries = <<>>

\* The trail is exact: every entry the channel accepted is inserted once, in the
\* order of the answers, before the database is closed, unless its insert failed.
TrailExact == InOrderOnce /\ FlushedAtExit

\* A call that has come in is answered: the audit does not make it wait for ever,
\* full buffer, refused inserts and nested transactions included.
CallsEnd == \A c \in Calls : pc[c] # "new" ~> pc[c] = "ended" \/ ~Alive

\* The shutdown ends: Close waits for a worker that waits for the writers.
ShutdownEnds == main = "closing" ~> ~Alive

\* Nobody waits for ever, on the audit, on a transaction or on the shutdown.
NobodyWaitsForever == CallsEnd /\ ShutdownEnds

=============================================================================
