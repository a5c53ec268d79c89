-------------------------- MODULE StreamToPostgres --------------------------
(***************************************************************************)
(* The data-persistence workers: each reads raw_telemetry as a member of   *)
(* the data_persistence consumer group, buffers rows in its BatchWriter,   *)
(* inserts the buffer into PostgreSQL in one statement and acknowledges    *)
(* the entries afterwards.  deploy/k3s runs two workers against one group. *)
(*                                                                         *)
(* An action is the code between two awaits.  An await on Redis or         *)
(* PostgreSQL ends in one of three ways: it succeeds; it is refused        *)
(* (exception, no effect); its reply is lost (exception, effect).          *)
(***************************************************************************)
EXTENDS ConsumerGroup, FiniteSets

CONSTANTS
    Workers,        \* the replicas of the service
    MaxInsertRows,  \* rows the database driver accepts in one INSERT
    Scenarios       \* sets of disruptions; a behaviour meets those of one

DisruptionKinds ==
    {"malformed", "read_lost", "ack_refused", "ack_lost",
     "commit_refused", "commit_lost", "shutdown", "crash", "evict"}

ASSUME WorkerAssumption ==
    /\ MaxInsertRows \in Nat \ {0}
    /\ Scenarios \subseteq SUBSET DisruptionKinds

VARIABLES
    rows,           \* table telemetry_readings
    nextId,         \* the next uuid4, standing for its freshness
    pc,             \* where each worker is
    batch,          \* entries of the last XREADGROUP not yet looked at
    buffer,         \* BatchWriter._buffer
    pending,        \* pending_ids
    due,            \* flush_interval_seconds have elapsed since last flush
    shutdown,       \* shutdown_event.is_set()
    faults          \* what this environment may do besides working; fixed

workerVars == <<pc, batch, buffer, pending, due, shutdown>>
dataVars == <<streamVars, groupVars, rows, nextId, workerVars>>
vars == <<dataVars, faults>>

Row     == [id : Nat, entry : EntryIds]
NoBatch == [next |-> 1, last |-> 0]

Running == {"read", "process", "flush", "ack", "final_flush", "final_ack"}
Phases  == Running \cup {"stopped", "down"}

EntriesOf(rs)  == {r.entry : r \in rs}
IdsOf(rs)      == {r.id : r \in rs}
StoredEntries  == EntriesOf(rows)
BatchOf(w)     == batch[w].next .. batch[w].last

TypeOK ==
    /\ StreamTypeOK
    /\ GroupTypeOK
    /\ rows \subseteq Row
    /\ nextId \in Nat
    /\ pc \in [Workers -> Phases]
    /\ batch \in [Workers -> [next : Nat \ {0}, last : 0..MaxEntries]]
    /\ buffer \in [Workers -> SUBSET Row]
    /\ pending \in [Workers -> SUBSET EntryIds]
    /\ due \in [Workers -> BOOLEAN]
    /\ shutdown \in [Workers -> BOOLEAN]
    /\ faults \in Scenarios

Init ==
    /\ StreamInit
    /\ GroupInit
    /\ rows = {}
    /\ nextId = 0
    /\ pc = [w \in Workers |-> "read"]
    /\ batch = [w \in Workers |-> NoBatch]
    /\ buffer = [w \in Workers |-> {}]
    /\ pending = [w \in Workers |-> {}]
    /\ due = [w \in Workers |-> FALSE]
    /\ shutdown = [w \in Workers |-> FALSE]
    /\ faults \in Scenarios

Goto(w, phase) == pc' = [pc EXCEPT ![w] = phase]

-----------------------------------------------------------------------------
(***************************************************************************)
(* The stream's producers.                                                 *)
(***************************************************************************)
Ingest(bad) ==
    /\ bad => "malformed" \in faults
    /\ StreamAdd(bad)
    /\ UNCHANGED <<groupVars, rows, nextId, workerVars>>

\* Out of memory.
Evict ==
    /\ "evict" \in faults
    /\ EvictStream
    /\ UNCHANGED <<rows, nextId, workerVars>>

\* data-ingestion starts again: its lifespan creates missing groups, too.
IngestionStarts ==
    /\ ~group /\ EnsureGroup
    /\ UNCHANGED <<streamVars, rows, nextId, workerVars>>

-----------------------------------------------------------------------------
ReadBatch(w) ==
    /\ pc[w] = "read" /\ ~shutdown[w]
    /\ Deliver
    /\ batch' = [batch EXCEPT ![w] =
                    [next |-> FirstUnread(lastDelivered),
                     last |-> LastOfBatch(lastDelivered, BatchSize)]]
    /\ Goto(w, "process")
    /\ UNCHANGED <<streamVars, rows, nextId, buffer, pending, due, shutdown>>

\* The block expires: entries is empty, the flush timer is still looked at.
ReadNothing(w) ==
    /\ pc[w] = "read" /\ ~shutdown[w]
    /\ NothingToDeliver
    /\ Goto(w, "process")
    /\ UNCHANGED <<streamVars, groupVars, rows, nextId,
                   batch, buffer, pending, due, shutdown>>

\* The outer handler logs, sleeps and loops; nobody reads these entries again.
ReadReplyLost(w) ==
    /\ "read_lost" \in faults
    /\ pc[w] = "read" /\ ~shutdown[w]
    /\ Deliver
    /\ UNCHANGED <<streamVars, rows, nextId, workerVars>>

\* NOGROUP, and again at the next read: not even the flush timer is looked at.
ReadRefused(w) ==
    /\ pc[w] = "read" /\ ~shutdown[w]
    /\ ~group
    /\ UNCHANGED dataVars

-----------------------------------------------------------------------------
\* One entry that parses: a row with a fresh id is buffered.
Accumulate(w) ==
    LET e == batch[w].next
    IN  /\ pc[w] = "process"
        /\ e \in BatchOf(w) \ malformed
        /\ buffer' = [buffer EXCEPT ![w] = @ \cup {[id |-> nextId, entry |-> e]}]
        /\ pending' = [pending EXCEPT ![w] = @ \cup {e}]
        /\ nextId' = nextId + 1
        /\ batch' = [batch EXCEPT ![w].next = e + 1]
        /\ UNCHANGED <<streamVars, groupVars, rows, pc, due, shutdown>>

\* One entry that does not parse is acknowledged at once.
DiscardMalformed(w) ==
    /\ pc[w] = "process"
    /\ batch[w].next \in BatchOf(w) \cap malformed
    /\ Ack({batch[w].next})
    /\ batch' = [batch EXCEPT ![w].next = @ + 1]
    /\ UNCHANGED <<streamVars, rows, nextId, pc, buffer, pending, due, shutdown>>

(***************************************************************************)
(* That acknowledgement is inside the except clause, so its own exception  *)
(* reaches the handler of the whole iteration: the rest of the batch is    *)
(* abandoned.                                                              *)
(***************************************************************************)
DiscardFails(w) ==
    /\ pc[w] = "process"
    /\ batch[w].next \in BatchOf(w) \cap malformed
    /\ \/ "ack_refused" \in faults /\ UNCHANGED groupVars
       \/ "ack_lost" \in faults /\ Ack({batch[w].next})
    /\ batch' = [batch EXCEPT ![w] = NoBatch]
    /\ Goto(w, "read")
    /\ UNCHANGED <<streamVars, rows, nextId, buffer, pending, due, shutdown>>

\* Fault: the flush interval is never looked at.
ShouldFlush_sizeOnly(w) == Cardinality(buffer[w]) >= BatchSize

ShouldFlush(w) ==
    \/ Cardinality(buffer[w]) >= BatchSize
    \/ buffer[w] # {} /\ due[w]

Decide(w) ==
    /\ pc[w] = "process"
    /\ BatchOf(w) = {}
    /\ batch' = [batch EXCEPT ![w] = NoBatch]
    /\ Goto(w, IF ShouldFlush(w) THEN "flush" ELSE "read")
    /\ UNCHANGED <<streamVars, groupVars, rows, nextId,
                   buffer, pending, due, shutdown>>

\* time.monotonic() passes last_flush_time + flush_interval_seconds.
IntervalElapses(w) ==
    /\ pc[w] \in Running /\ ~due[w]
    /\ due' = [due EXCEPT ![w] = TRUE]
    /\ UNCHANGED <<streamVars, groupVars, rows, nextId,
                   pc, batch, buffer, pending, shutdown>>

-----------------------------------------------------------------------------
(***************************************************************************)
(* BatchWriter.flush and the acknowledgement after it, in the loop and     *)
(* again after the loop when the worker stops.  An exception in the loop   *)
(* leaves buffer and pending_ids for the next cycle; at shutdown it ends   *)
(* the worker.                                                             *)
(***************************************************************************)
FlushPhases == {"flush", "final_flush"}
AckPhases   == {"ack", "final_ack"}

AfterFlush(phase) == IF phase = "flush" THEN "ack" ELSE "final_ack"
AfterAck(phase)   == IF phase = "ack" THEN "read" ELSE "stopped"
\* Fault: a flush error does not keep the worker from acknowledging.
OnError_acksAnyway(phase) ==
    IF phase = "flush" THEN "ack" ELSE IF phase = "ack" THEN "read" ELSE "stopped"

OnError(phase)    == IF phase \in {"flush", "ack"} THEN "read" ELSE "stopped"

\* Fault: ids drawn when the statement is built instead of when buffering.
InsertedRows_lateIds(w) == {[r EXCEPT !.id = @ + nextId] : r \in buffer[w]}

\* The rows of the INSERT: the buffered ones, with the ids they were given.
InsertedRows(w) == buffer[w]

\* PostgreSQL takes all rows or none: a known primary key or too many bound
\* parameters for the driver fail the whole INSERT.
CanInsert(w) ==
    /\ Cardinality(buffer[w]) <= MaxInsertRows
    /\ IdsOf(InsertedRows(w)) \cap IdsOf(rows) = {}

FlushCommits(w) ==
    /\ pc[w] \in FlushPhases
    /\ CanInsert(w)
    /\ rows' = rows \cup InsertedRows(w)
    /\ buffer' = [buffer EXCEPT ![w] = {}]
    /\ Goto(w, AfterFlush(pc[w]))
    /\ UNCHANGED <<streamVars, groupVars, nextId, batch, pending, due, shutdown>>

\* Fault: the buffer is cleared whether or not the commit succeeded.
FlushFails_clearsBuffer(w) ==
    /\ pc[w] \in FlushPhases
    /\ "commit_refused" \in faults
    /\ buffer' = [buffer EXCEPT ![w] = {}]
    /\ Goto(w, OnError(pc[w]))
    /\ UNCHANGED <<streamVars, groupVars, rows, nextId,
                   batch, pending, due, shutdown>>

FlushFails(w) ==
    /\ pc[w] \in FlushPhases
    /\ \/ ~CanInsert(w) /\ rows' = rows
       \/ "commit_refused" \in faults /\ rows' = rows
       \/ /\ "commit_lost" \in faults
          /\ CanInsert(w)
          /\ rows' = rows \cup InsertedRows(w)
    /\ Goto(w, OnError(pc[w]))
    /\ UNCHANGED <<streamVars, groupVars, nextId,
                   batch, buffer, pending, due, shutdown>>

AckFlushed(w) ==
    /\ pc[w] \in AckPhases
    /\ Ack(pending[w])
    /\ pending' = [pending EXCEPT ![w] = {}]
    /\ due' = [due EXCEPT ![w] = @ /\ pc[w] # "ack"]
    /\ Goto(w, AfterAck(pc[w]))
    /\ UNCHANGED <<streamVars, rows, nextId, batch, buffer, shutdown>>

\* Fault: pending_ids is cleared even when XACK raises.
AckFails_clearsPending(w) ==
    /\ pc[w] \in AckPhases
    /\ "ack_refused" \in faults
    /\ pending' = [pending EXCEPT ![w] = {}]
    /\ Goto(w, OnError(pc[w]))
    /\ UNCHANGED <<streamVars, groupVars, rows, nextId,
                   batch, buffer, due, shutdown>>

AckFails(w) ==
    /\ pc[w] \in AckPhases
    /\ \/ "ack_refused" \in faults /\ UNCHANGED groupVars
       \/ "ack_lost" \in faults /\ Ack(pending[w])
    /\ Goto(w, OnError(pc[w]))
    /\ UNCHANGED <<streamVars, rows, nextId,
                   batch, buffer, pending, due, shutdown>>

-----------------------------------------------------------------------------
\* SIGTERM or SIGINT: the handler sets shutdown_event.
SignalShutdown(w) ==
    /\ "shutdown" \in faults
    /\ pc[w] \in Running /\ ~shutdown[w]
    /\ shutdown' = [shutdown EXCEPT ![w] = TRUE]
    /\ UNCHANGED <<streamVars, groupVars, rows, nextId,
                   pc, batch, buffer, pending, due>>

\* The loop ends; what is still buffered gets one more flush.
LeaveLoop(w) ==
    /\ pc[w] = "read" /\ shutdown[w]
    /\ Goto(w, IF buffer[w] # {} THEN "final_flush" ELSE "stopped")
    /\ UNCHANGED <<streamVars, groupVars, rows, nextId,
                   batch, buffer, pending, due, shutdown>>

\* The process dies (or has stopped) and what it held in memory is gone.
Forget(w) ==
    /\ batch' = [batch EXCEPT ![w] = NoBatch]
    /\ buffer' = [buffer EXCEPT ![w] = {}]
    /\ pending' = [pending EXCEPT ![w] = {}]
    /\ due' = [due EXCEPT ![w] = FALSE]
    /\ shutdown' = [shutdown EXCEPT ![w] = FALSE]

Crash(w) ==
    /\ "crash" \in faults
    /\ pc[w] \in Running
    /\ Forget(w)
    /\ Goto(w, "down")
    /\ UNCHANGED <<streamVars, groupVars, rows, nextId>>

\* Fault: the group is not created again.
Restart_groupAssumed(w) ==
    /\ pc[w] \in {"down", "stopped"}
    /\ Forget(w)
    /\ Goto(w, "read")
    /\ UNCHANGED <<streamVars, groupVars, rows, nextId>>

\* main() again.
Restart(w) ==
    /\ pc[w] \in {"down", "stopped"}
    /\ Forget(w)
    /\ Goto(w, "read")
    /\ EnsureGroup
    /\ UNCHANGED <<streamVars, rows, nextId>>

-----------------------------------------------------------------------------
\* What the worker does by itself when nothing fails.
WorkerStep(w) ==
    \/ ReadBatch(w) \/ ReadNothing(w)
    \/ Accumulate(w) \/ DiscardMalformed(w) \/ Decide(w)
    \/ FlushCommits(w) \/ AckFlushed(w) \/ LeaveLoop(w)

WorkerFailure(w) ==
    \/ ReadReplyLost(w) \/ ReadRefused(w) \/ DiscardFails(w) \/ FlushFails(w) \/ AckFails(w)

Step ==
    \/ \E bad \in BOOLEAN : Ingest(bad)
    \/ Evict \/ IngestionStarts
    \/ \E w \in Workers :
          \/ WorkerStep(w) \/ WorkerFailure(w) \/ IntervalElapses(w)
          \/ SignalShutdown(w) \/ Crash(w) \/ Restart(w)

Next == Step /\ UNCHANGED faults

Spec == Init /\ [][Next]_vars

(***************************************************************************)
(* Fairness.  The event loop runs the worker until its next await and      *)
(* every await ends, as the kernel closes a dead connection; time passes;  *)
(* the container runtime restarts a crashed process (unless-stopped).      *)
(* Outages end: an operation tried again and again is not refused or its   *)
(* reply lost for ever, hence strong fairness of the successful outcome.   *)
(***************************************************************************)
Fairness ==
    \A w \in Workers :
        /\ WF_dataVars(WorkerStep(w) \/ WorkerFailure(w))
        /\ SF_dataVars(ReadBatch(w))
        /\ SF_dataVars(DiscardMalformed(w))
        /\ SF_dataVars(FlushCommits(w))
        /\ SF_dataVars(AckFlushed(w))
        /\ WF_dataVars(IntervalElapses(w))
        /\ WF_dataVars(pc[w] = "down" /\ Restart(w))

FairSpec == Spec /\ Fairness

-----------------------------------------------------------------------------
(***************************************************************************)
(* No acknowledged reading is missing from the table: an entry that left   *)
(* the PEL either has a row or could not be parsed.  The worker clears the *)
(* PEL entry after the commit, with failures possible in between.          *)
(***************************************************************************)
AckedIsStored == acked \ malformed \subseteq StoredEntries

(***************************************************************************)
(* No reading has two rows, although a failed flush is retried and a       *)
(* commit may have taken effect without the worker knowing: the row id is  *)
(* drawn when the row is buffered, so a repeated INSERT collides.          *)
(***************************************************************************)
NoDuplicateRows == \A r, s \in rows : r.entry = s.entry => r = s

(***************************************************************************)
(* pending_ids and the buffer never drift apart: whatever the next XACK of *)
(* pending_ids covers is still buffered or already stored, and nothing is  *)
(* buffered that no XACK will cover.                                       *)
(***************************************************************************)
PendingIsBufferedOrStored ==
    \A w \in Workers :
        /\ EntriesOf(buffer[w]) \subseteq pending[w]
        /\ pending[w] \subseteq EntriesOf(buffer[w]) \cup StoredEntries

(***************************************************************************)
(* Two replicas sharing the group (and even the consumer name) never hold  *)
(* the same reading.                                                       *)
(***************************************************************************)
Held(w) == BatchOf(w) \cup pending[w]

ExclusiveHolders ==
    \A v, w \in Workers : v # w => Held(v) \cap Held(w) = {}

\* What each worker has in hand is consistent, and its alone.
HoldingsAgree == PendingIsBufferedOrStored /\ ExclusiveHolders

(***************************************************************************)
(* Unless a process dies or a reply is lost, every delivered and           *)
(* unacknowledged reading is in the hands of a worker that can still       *)
(* finish it: no failure of PostgreSQL or of the XACK after a flush        *)
(* orphans one, nor does the eviction of the stream it came from.          *)
(***************************************************************************)
FlushFailures == {"ack_refused", "ack_lost", "commit_refused", "commit_lost"}

NoOrphans ==
    faults \subseteq FlushFailures \cup {"evict"} =>
        \A e \in pel : \E w \in Workers : e \in Held(w)

(***************************************************************************)
(* When nothing fails, stopping all workers leaves nothing behind: the     *)
(* final flush stores and acknowledges all that was delivered, even if the *)
(* workers can read nothing more because the stream was evicted.           *)
(***************************************************************************)
CleanStop ==
    faults \subseteq {"shutdown", "malformed", "evict"}
    /\ (\A w \in Workers : pc[w] = "stopped") =>
        /\ pel = {}
        /\ (trimmed+1 .. lastDelivered) \ malformed \subseteq StoredEntries

\* Nothing that was delivered is left without somebody who will finish it.
NothingIsLeftBehind == NoOrphans /\ CleanStop

(***************************************************************************)
(* Every reading a worker has buffered is eventually in the table: the     *)
(* comment on the flush error path, "they will be retried on the next      *)
(* flush cycle".                                                           *)
(***************************************************************************)
BufferedIsEventuallyStored ==
    \A e \in EntryIds :
        (\E w \in Workers : e \in EntriesOf(buffer[w])) ~> (e \in StoredEntries)

(***************************************************************************)
(* That holds of PostgreSQL refusing commits and of XACK failing in any    *)
(* way, since the rows stay in the buffer until a commit succeeds.         *)
(***************************************************************************)
RetriedFlushesStore ==
    faults \subseteq FlushFailures \ {"commit_lost"} => BufferedIsEventuallyStored

(***************************************************************************)
(* Once processes stop dying, every delivered reading is eventually        *)
(* settled: acknowledged after its row is stored, or discarded because it  *)
(* cannot be parsed.  It is also what the worker's docstring says of       *)
(* failures: "messages remain unacknowledged and will be redelivered".     *)
(***************************************************************************)
DeliveredIsEventuallySettled ==
    <>[](\A w \in Workers : pc[w] \in Running) =>
        \A e \in EntryIds : (e \in pel) ~> (e \in acked)

(***************************************************************************)
(* It holds while PostgreSQL is the only thing that fails, for a time.     *)
(***************************************************************************)
OutagesAreSurvived ==
    faults \subseteq {"malformed", "commit_refused"} => DeliveredIsEventuallySettled

(***************************************************************************)
(* An evicted stream takes its group along, which only a start, of a       *)
(* worker or of the ingestion service, creates again.  As long as workers  *)
(* are restarted now and then, each entry in the stream is delivered, or   *)
(* gone with it.                                                           *)
(***************************************************************************)
Queued(e) == e \in trimmed+1 .. added /\ e > lastDelivered

RestartsReadOn ==
    []<>(\E w \in Workers : pc[w] = "down") =>
        \A e \in EntryIds : Queued(e) ~> ~Queued(e)

\* What is queued is read, what is buffered stored, what is delivered settled.
NothingGetsStuck == RetriedFlushesStore /\ OutagesAreSurvived /\ RestartsReadOn

-----------------------------------------------------------------------------
(***************************************************************************)
(* The workers implement ReadingLifecycle: the refinement mapping reads a  *)
(* reading's status off the stream, the group and the table.               *)
(***************************************************************************)
StatusOf(e) ==
    CASE e > added                             -> "absent"
      [] e \in acked /\ e \in malformed        -> "discarded"
      [] e \in acked /\ e \notin malformed     -> "acked"
      [] e \in pel /\ e \in StoredEntries      -> "stored"
      [] e \in pel /\ e \notin StoredEntries   -> "delivered"
      [] OTHER -> IF e <= trimmed THEN "trimmed" ELSE "queued"

Lifecycle == INSTANCE ReadingLifecycle WITH
    Readings <- EntryIds,
    status   <- [e \in EntryIds |-> StatusOf(e)]

(***************************************************************************)
(* Every step of every worker moves each reading forward along its         *)
(* lifecycle or leaves it alone: nothing is acknowledged unstored, stored  *)
(* twice over, undelivered again or lost after delivery.                   *)
(***************************************************************************)
ImplementsLifecycle == Lifecycle!Spec

=============================================================================
