----------------------- MODULE StreamToPostgres_proofs -----------------------
(***************************************************************************)
(* Proofs about StreamToPostgres, for any number of workers, entries and   *)
(* rows per batch and whatever the environment disrupts.                   *)
(***************************************************************************)
EXTENDS StreamToPostgres, FiniteSetTheorems, TLAPS

(***************************************************************************)
(* The inductive invariant, conjunct by conjunct.  What was delivered is   *)
(* pending or acknowledged, never both.                                    *)
(***************************************************************************)
GroupInv ==
    /\ pel \subseteq 1..lastDelivered
    /\ acked \subseteq 1..lastDelivered
    /\ pel \cap acked = {}

\* What a worker has yet to look at is pending, unseen and unstored.
BatchInv ==
    \A w \in Workers :
        /\ BatchOf(w) \subseteq pel
        /\ BatchOf(w) \cap StoredEntries = {}
        /\ BatchOf(w) \cap pending[w] = {}

\* Only delivered entries that parse are held for a flush or stored.
DeliveredInv ==
    /\ StoredEntries \subseteq (pel \cup acked) \ malformed
    /\ \A w \in Workers : pending[w] \subseteq (pel \cup acked) \ malformed

\* After a successful flush the buffer stays empty until the next read.
FlushedInv == \A w \in Workers : pc[w] \in AckPhases => buffer[w] = {}

\* An entry has one row, counting the rows a worker is about to insert.
RowsInv ==
    /\ NoDuplicateRows
    /\ \A w \in Workers : \A r, s \in rows \cup buffer[w] :
          r.entry = s.entry => r = s

\* Who holds what, and how that relates to the group and to the table.
HoldingsInv ==
    /\ GroupInv
    /\ BatchInv
    /\ DeliveredInv
    /\ PendingIsBufferedOrStored
    /\ ExclusiveHolders
    /\ AckedIsStored
    /\ RowsInv

IInv == TypeOK /\ FlushedInv /\ HoldingsInv

-----------------------------------------------------------------------------
LEMMA InitEstablishesIInv == Init => IInv
<1> SUFFICES ASSUME Init PROVE IInv
  OBVIOUS
<1>1. TypeOK
  BY StreamAssumption
  DEF Init, StreamInit, GroupInit, TypeOK, StreamTypeOK, GroupTypeOK, NoBatch, Phases, Running
<1>2. FlushedInv
  BY DEF Init, FlushedInv
<1>3. HoldingsInv
  BY DEF Init, StreamInit, GroupInit, HoldingsInv, GroupInv, BatchInv, DeliveredInv,
         PendingIsBufferedOrStored, ExclusiveHolders, AckedIsStored, RowsInv,
         NoDuplicateRows, Held, BatchOf, NoBatch, StoredEntries, EntriesOf
<1> QED
  BY <1>1, <1>2, <1>3 DEF IInv

-----------------------------------------------------------------------------
(***************************************************************************)
(* Every action preserves the types.                                       *)
(***************************************************************************)
LEMMA TypeOKPreserved == ASSUME TypeOK, [Next]_vars PROVE TypeOK'
<1>0. faults' \in Scenarios
  BY DEF TypeOK, Next, vars
<1> USE <1>0 DEF TypeOK, GroupTypeOK, Goto, Phases, Running,
                 streamVars, groupVars, deliveryVars, workerVars
<1>1. ASSUME NEW bad \in BOOLEAN, Ingest(bad) PROVE TypeOK'
  <2>1. /\ added' = added + 1 /\ added' \in 0..MaxEntries
        /\ malformed' \subseteq malformed \cup {added + 1}
        /\ trimmed' \in trimmed..added
    BY <1>1, StreamAssumption DEF Ingest, StreamAdd, StreamTypeOK
  <2>2. StreamTypeOK'
    BY <2>1, StreamAssumption DEF StreamTypeOK
  <2>3. lastDelivered' \in 0..added'
    BY <1>1, <2>1, StreamAssumption DEF Ingest, StreamTypeOK
  <2> QED
    BY <1>1, <2>2, <2>3 DEF Ingest
<1>19. ASSUME Evict \/ IngestionStarts PROVE TypeOK'
  <2>1. CASE Evict
    <3>1. StreamTypeOK' /\ added' = added
      BY <2>1 DEF Evict, EvictStream, StreamEvict, StreamTypeOK
    <3>2. /\ UNCHANGED <<deliveryVars, rows, nextId, workerVars>>
          /\ group' \in BOOLEAN
      BY <2>1 DEF Evict, EvictStream, deliveryVars
    <3> QED
      BY <3>1, <3>2
  <2>2. CASE IngestionStarts
    BY <2>2 DEF IngestionStarts, EnsureGroup, StreamTypeOK
  <2> QED
    BY <1>19, <2>1, <2>2
<1> HIDE DEF TypeOK, GroupTypeOK
<1>2. ASSUME Deliver, UNCHANGED streamVars
      PROVE  /\ StreamTypeOK' /\ lastDelivered' \in 0..added' /\ pel' \subseteq EntryIds
             /\ acked' \subseteq EntryIds /\ group' \in BOOLEAN
             /\ FirstUnread(lastDelivered) \in Nat \ {0}
             /\ LastOfBatch(lastDelivered, BatchSize) \in 0..MaxEntries
  BY <1>2, StreamAssumption, GroupAssumption
  DEF TypeOK, GroupTypeOK, StreamTypeOK, Deliver, HasUnread, FirstUnread, LastOfBatch, EntryIds
<1> USE DEF TypeOK, GroupTypeOK
<1>3. ASSUME NEW w \in Workers, ReadBatch(w) PROVE TypeOK'
  BY <1>2, <1>3 DEF ReadBatch
<1>4. ASSUME NEW w \in Workers, ReadReplyLost(w) PROVE TypeOK'
  BY <1>2, <1>4 DEF ReadReplyLost
<1>5. ASSUME NEW w \in Workers, ReadNothing(w) PROVE TypeOK'
  BY <1>5 DEF ReadNothing, StreamTypeOK
<1>6. ASSUME NEW w \in Workers, Accumulate(w) PROVE TypeOK'
  <2>1. batch[w].next \in EntryIds
    BY <1>6, StreamAssumption DEF Accumulate, BatchOf, EntryIds
  <2>2. [id |-> nextId, entry |-> batch[w].next] \in Row
    BY <2>1 DEF Row
  <2>3. batch' \in [Workers -> [next : Nat \ {0}, last : 0..MaxEntries]]
    BY <1>6 DEF Accumulate
  <2> QED
    BY <1>6, <2>1, <2>2, <2>3 DEF Accumulate, StreamTypeOK
<1>7. ASSUME NEW w \in Workers, DiscardMalformed(w) PROVE TypeOK'
  <2>1. batch[w].next \in EntryIds
    BY <1>7, StreamAssumption DEF DiscardMalformed, BatchOf, EntryIds
  <2> QED
    BY <1>7, <2>1 DEF DiscardMalformed, Ack, StreamTypeOK
<1>8. ASSUME NEW w \in Workers, DiscardFails(w) PROVE TypeOK'
  <2>1. batch[w].next \in EntryIds
    BY <1>8, StreamAssumption DEF DiscardFails, BatchOf, EntryIds
  <2>2. NoBatch \in [next : Nat \ {0}, last : 0..MaxEntries]
    BY StreamAssumption DEF NoBatch
  <2> QED
    BY <1>8, <2>1, <2>2 DEF DiscardFails, Ack, StreamTypeOK
<1>9. ASSUME NEW w \in Workers, Decide(w) PROVE TypeOK'
  <2>1. NoBatch \in [next : Nat \ {0}, last : 0..MaxEntries]
    BY StreamAssumption DEF NoBatch
  <2> QED
    BY <1>9, <2>1 DEF Decide, StreamTypeOK
<1>10. ASSUME NEW w \in Workers, IntervalElapses(w) PROVE TypeOK'
  BY <1>10 DEF IntervalElapses, StreamTypeOK
<1>11. ASSUME NEW w \in Workers, FlushCommits(w) PROVE TypeOK'
  BY <1>11 DEF FlushCommits, InsertedRows, AfterFlush, StreamTypeOK
<1>12. ASSUME NEW w \in Workers, FlushFails(w) PROVE TypeOK'
  BY <1>12 DEF FlushFails, InsertedRows, OnError, StreamTypeOK
<1>13. ASSUME NEW w \in Workers, AckFlushed(w) PROVE TypeOK'
  <2>1. due' \in [Workers -> BOOLEAN]
    BY <1>13 DEF AckFlushed
  <2> QED
    BY <1>13, <2>1 DEF AckFlushed, Ack, AfterAck, StreamTypeOK
<1>14. ASSUME NEW w \in Workers, AckFails(w) PROVE TypeOK'
  BY <1>14 DEF AckFails, Ack, OnError, StreamTypeOK
<1>15. ASSUME NEW w \in Workers, SignalShutdown(w) PROVE TypeOK'
  BY <1>15 DEF SignalShutdown, StreamTypeOK
<1>16. ASSUME NEW w \in Workers, LeaveLoop(w) PROVE TypeOK'
  BY <1>16 DEF LeaveLoop, StreamTypeOK
<1>17. ASSUME NEW w \in Workers, Crash(w) \/ Restart(w) PROVE TypeOK'
  <2>1. batch' \in [Workers -> [next : Nat \ {0}, last : 0..MaxEntries]]
    <3>1. NoBatch \in [next : Nat \ {0}, last : 0..MaxEntries]
      BY StreamAssumption DEF NoBatch
    <3>2. batch' = [batch EXCEPT ![w] = NoBatch] \/ batch' = batch
      BY <1>17 DEF Crash, Restart, EnsureGroup, Forget
    <3> QED
      BY <3>1, <3>2
  <2>2. /\ buffer' \in [Workers -> SUBSET Row]
        /\ pending' \in [Workers -> SUBSET EntryIds]
    BY <1>17 DEF Crash, Restart, EnsureGroup, Forget
  <2>3. due' \in [Workers -> BOOLEAN] /\ shutdown' \in [Workers -> BOOLEAN]
    BY <1>17 DEF Crash, Restart, EnsureGroup, Forget
  <2>4. pc' \in [Workers -> Phases]
    BY <1>17 DEF Crash, Restart, EnsureGroup
  <2> QED
    BY <1>17, <2>1, <2>2, <2>3, <2>4 DEF Crash, Restart, EnsureGroup, StreamTypeOK
<1>18. CASE UNCHANGED dataVars
  BY <1>18 DEF dataVars, StreamTypeOK
<1> QED
  BY <1>1, <1>3, <1>4, <1>5, <1>6, <1>7, <1>8, <1>9, <1>10, <1>11, <1>12,
     <1>13, <1>14, <1>15, <1>16, <1>17, <1>18, <1>19
  DEF Next, Step, WorkerStep, WorkerFailure, ReadRefused, vars

-----------------------------------------------------------------------------
(***************************************************************************)
(* Only FlushCommits enters an acknowledging phase, and it empties the     *)
(* buffer; only Accumulate fills it, in another phase.                     *)
(***************************************************************************)
LEMMA FlushedInvPreserved ==
    ASSUME TypeOK, FlushedInv, [Next]_vars PROVE FlushedInv'
<1> SUFFICES ASSUME NEW v \in Workers, pc'[v] \in AckPhases
             PROVE  buffer'[v] = {}
  BY DEF FlushedInv
<1> USE DEF TypeOK, FlushedInv, AckPhases, Goto, workerVars
<1>1. ASSUME Evict \/ IngestionStarts \/ \E bad \in BOOLEAN : Ingest(bad) PROVE buffer'[v] = {}
  BY <1>1 DEF Ingest, Evict, IngestionStarts, EvictStream, EnsureGroup
<1>2. ASSUME NEW w \in Workers, ReadBatch(w) \/ ReadNothing(w) \/ ReadReplyLost(w)
      PROVE  buffer'[v] = {}
  BY <1>2 DEF ReadBatch, ReadNothing, ReadReplyLost
<1>3. ASSUME NEW w \in Workers, Accumulate(w) PROVE buffer'[v] = {}
  BY <1>3 DEF Accumulate
<1>4. ASSUME NEW w \in Workers, DiscardMalformed(w) \/ DiscardFails(w) \/ Decide(w)
      PROVE  buffer'[v] = {}
  BY <1>4 DEF DiscardMalformed, DiscardFails, Decide
<1>5. ASSUME NEW w \in Workers, FlushCommits(w) PROVE buffer'[v] = {}
  BY <1>5 DEF FlushCommits
<1>6. ASSUME NEW w \in Workers, FlushFails(w) PROVE buffer'[v] = {}
  BY <1>6 DEF FlushFails, OnError
<1>7. ASSUME NEW w \in Workers, AckFlushed(w) PROVE buffer'[v] = {}
  BY <1>7 DEF AckFlushed, AfterAck
<1>8. ASSUME NEW w \in Workers, AckFails(w) PROVE buffer'[v] = {}
  BY <1>8 DEF AckFails, OnError
<1>9. ASSUME NEW w \in Workers,
             IntervalElapses(w) \/ SignalShutdown(w) \/ LeaveLoop(w)
      PROVE  buffer'[v] = {}
  BY <1>9 DEF IntervalElapses, SignalShutdown, LeaveLoop
<1>10. ASSUME NEW w \in Workers, Crash(w) \/ Restart(w) PROVE buffer'[v] = {}
  BY <1>10 DEF Crash, Restart, EnsureGroup, Forget
<1>11. CASE UNCHANGED dataVars
  BY <1>11 DEF dataVars
<1> QED
  BY <1>1, <1>2, <1>3, <1>4, <1>5, <1>6, <1>7, <1>8, <1>9, <1>10, <1>11
  DEF Next, Step, WorkerStep, WorkerFailure, ReadRefused, vars

-----------------------------------------------------------------------------
(***************************************************************************)
(* HoldingsInv, one lemma for each way a step can change who holds what.   *)
(* The first covers all steps that only let go: XACK of stored or          *)
(* malformed entries (of none at all, for a crash), batches shrinking,     *)
(* pending_ids and buffer kept or dropped together.                        *)
(***************************************************************************)
KeptOrDropped ==
    \A v \in Workers :
        /\ BatchOf(v)' \subseteq BatchOf(v)
        /\ \/ buffer'[v] = buffer[v] /\ pending'[v] = pending[v]
           \/ buffer'[v] = {} /\ pending'[v] = {}

LEMMA LettingGo ==
    ASSUME HoldingsInv,
           NEW ids \in SUBSET (pel \cup acked),
           ids \subseteq StoredEntries \cup malformed,
           pel' = pel \ ids, acked' = acked \cup ids, lastDelivered' = lastDelivered,
           UNCHANGED <<malformed, rows>>, KeptOrDropped,
           \A v \in Workers : BatchOf(v)' \cap ids = {}
    PROVE  HoldingsInv'
<1>1. StoredEntries' = StoredEntries
  BY DEF StoredEntries, EntriesOf
<1>2. /\ pel' = pel \ ids /\ acked' = acked \cup ids
      /\ pel' \cup acked' = pel \cup acked /\ lastDelivered' = lastDelivered
  OBVIOUS
<1>3. GroupInv'
  BY <1>2 DEF HoldingsInv, GroupInv
<1>4. BatchInv'
  BY <1>1, <1>2 DEF HoldingsInv, BatchInv, KeptOrDropped
<1>5. DeliveredInv'
  BY <1>1, <1>2 DEF HoldingsInv, DeliveredInv, KeptOrDropped
<1>6. PendingIsBufferedOrStored'
  BY <1>1 DEF HoldingsInv, PendingIsBufferedOrStored, KeptOrDropped, EntriesOf
<1>7. ExclusiveHolders'
  BY DEF HoldingsInv, ExclusiveHolders, Held, KeptOrDropped
<1>8. AckedIsStored'
  BY <1>1, <1>2 DEF HoldingsInv, AckedIsStored
<1>9. RowsInv'
  BY DEF HoldingsInv, RowsInv, NoDuplicateRows, KeptOrDropped
<1> QED
  BY <1>3, <1>4, <1>5, <1>6, <1>7, <1>8, <1>9 DEF HoldingsInv

(***************************************************************************)
(* A new entry, malformed or not, is one that nobody holds yet.            *)
(***************************************************************************)
LEMMA Ingesting ==
    ASSUME TypeOK, HoldingsInv, NEW bad \in BOOLEAN, Ingest(bad)
    PROVE  HoldingsInv'
<1>1. /\ malformed \subseteq malformed'
      /\ malformed' \cap (1..lastDelivered) = malformed \cap (1..lastDelivered)
  BY StreamAssumption DEF Ingest, StreamAdd, TypeOK, StreamTypeOK, GroupTypeOK
<1>2. UNCHANGED <<lastDelivered, pel, acked, rows, batch, buffer, pending>>
  BY DEF Ingest, groupVars, deliveryVars, workerVars
<1>3. DeliveredInv'
  BY <1>1, <1>2
  DEF HoldingsInv, GroupInv, DeliveredInv, StoredEntries, EntriesOf
<1>4. AckedIsStored'
  BY <1>1, <1>2 DEF HoldingsInv, AckedIsStored, StoredEntries, EntriesOf
<1> QED
  BY <1>2, <1>3, <1>4
  DEF HoldingsInv, GroupInv, BatchInv, PendingIsBufferedOrStored, StoredEntries,
      EntriesOf, ExclusiveHolders, Held, BatchOf, RowsInv, NoDuplicateRows

(***************************************************************************)
(* Delivery adds entries beyond lastDelivered, so ones no worker holds, to *)
(* the PEL and at most to one worker's batch.                              *)
(***************************************************************************)
LEMMA Delivering ==
    ASSUME TypeOK, HoldingsInv, Deliver,
           UNCHANGED <<malformed, rows, buffer, pending>>,
           NEW w \in Workers,
           BatchOf(w)' \subseteq pel' \ pel \/ BatchOf(w)' = BatchOf(w),
           \A v \in Workers \ {w} : BatchOf(v)' = BatchOf(v)
    PROVE  HoldingsInv'
<1>1. /\ pel \subseteq pel' /\ acked' = acked
      /\ pel' \subseteq 1..lastDelivered'
      /\ 1..lastDelivered \subseteq 1..lastDelivered'
      /\ (pel' \ pel) \cap (1..lastDelivered) = {}
  BY StreamAssumption, GroupAssumption
  DEF HoldingsInv, GroupInv, TypeOK, StreamTypeOK, GroupTypeOK, Deliver, HasUnread,
      FirstUnread, LastOfBatch
<1>2. StoredEntries' = StoredEntries
  BY DEF StoredEntries, EntriesOf
<1>3. \A v \in Workers : Held(v) \subseteq 1..lastDelivered
  BY DEF HoldingsInv, GroupInv, BatchInv, DeliveredInv, Held
<1>4. StoredEntries \subseteq 1..lastDelivered
  BY DEF HoldingsInv, GroupInv, DeliveredInv
<1>5. GroupInv'
  BY <1>1 DEF HoldingsInv, GroupInv
<1>6. BatchInv'
  BY <1>1, <1>2, <1>3, <1>4 DEF HoldingsInv, BatchInv, Held
<1>7. DeliveredInv'
  BY <1>1, <1>2 DEF HoldingsInv, DeliveredInv
<1>8. ExclusiveHolders'
  BY <1>1, <1>3 DEF HoldingsInv, ExclusiveHolders, Held
<1> QED
  BY <1>1, <1>2, <1>5, <1>6, <1>7, <1>8
  DEF HoldingsInv, PendingIsBufferedOrStored, EntriesOf, AckedIsStored, RowsInv,
      NoDuplicateRows

(***************************************************************************)
(* Buffering moves one entry from a worker's batch to its pending_ids.     *)
(***************************************************************************)
LEMMA Accumulating ==
    ASSUME TypeOK, HoldingsInv, NEW w \in Workers, Accumulate(w)
    PROVE  HoldingsInv'
<1> DEFINE e == batch[w].next
           row == [id |-> nextId, entry |-> e]
<1>1. /\ e \in BatchOf(w) /\ e \notin malformed
      /\ BatchOf(w)' \subseteq BatchOf(w) \ {e}
      /\ \A v \in Workers \ {w} : BatchOf(v)' = BatchOf(v)
  BY DEF Accumulate, BatchOf, TypeOK
<1>2. /\ buffer'[w] = buffer[w] \cup {row} /\ pending'[w] = pending[w] \cup {e}
      /\ \A v \in Workers \ {w} : buffer'[v] = buffer[v] /\ pending'[v] = pending[v]
  BY DEF Accumulate, TypeOK
<1>3. UNCHANGED <<malformed, lastDelivered, pel, acked, rows>>
  BY DEF Accumulate, streamVars, groupVars, deliveryVars
<1>4. e \in pel /\ e \notin pending[w] /\ e \notin StoredEntries
  BY <1>1 DEF HoldingsInv, BatchInv
<1>5. StoredEntries' = StoredEntries
  BY <1>3 DEF StoredEntries, EntriesOf
<1>6. EntriesOf(buffer[w])' = EntriesOf(buffer[w]) \cup {e}
  <2>1. EntriesOf(buffer[w])' = {r.entry : r \in buffer[w] \cup {row}}
    BY <1>2 DEF EntriesOf
  <2>2. row.entry = e
    OBVIOUS
  <2> HIDE DEF row
  <2> QED
    BY <2>1, <2>2 DEF EntriesOf
<1>7. BatchInv'
  BY <1>1, <1>2, <1>3, <1>5 DEF HoldingsInv, BatchInv
<1>8. DeliveredInv'
  BY <1>1, <1>2, <1>3, <1>4, <1>5 DEF HoldingsInv, DeliveredInv
<1>9. PendingIsBufferedOrStored'
  BY <1>2, <1>5, <1>6 DEF HoldingsInv, PendingIsBufferedOrStored, EntriesOf
<1>10. ExclusiveHolders'
  BY <1>1, <1>2 DEF HoldingsInv, ExclusiveHolders, Held
<1>11. RowsInv'
  <2>1. \A r \in rows \cup buffer[w] : r.entry # e
    BY <1>4 DEF HoldingsInv, PendingIsBufferedOrStored, StoredEntries, EntriesOf
  <2> QED
    BY <1>2, <1>3, <2>1 DEF HoldingsInv, RowsInv, NoDuplicateRows
<1> QED
  BY <1>3, <1>5, <1>7, <1>8, <1>9, <1>10, <1>11
  DEF HoldingsInv, GroupInv, AckedIsStored

(***************************************************************************)
(* An INSERT that takes effect stores entries their worker holds pending,  *)
(* whether or not the worker learns of it and empties its buffer.          *)
(***************************************************************************)
LEMMA Inserting ==
    ASSUME TypeOK, HoldingsInv, NEW w \in Workers,
           rows' = rows \cup buffer[w],
           UNCHANGED <<malformed, lastDelivered, pel, acked, batch, pending>>,
           \A v \in Workers \ {w} : buffer'[v] = buffer[v],
           buffer'[w] \in {buffer[w], {}}
    PROVE  HoldingsInv'
<1>1. StoredEntries' = StoredEntries \cup EntriesOf(buffer[w])
  BY DEF StoredEntries, EntriesOf
<1>2. EntriesOf(buffer[w]) \subseteq pending[w]
  BY DEF HoldingsInv, PendingIsBufferedOrStored
<1>3. \A v \in Workers : BatchOf(v)' = BatchOf(v)
  BY DEF BatchOf
<1>4. BatchInv'
  <2> SUFFICES ASSUME NEW v \in Workers
               PROVE  BatchOf(v) \cap EntriesOf(buffer[w]) = {}
    BY <1>1, <1>3 DEF HoldingsInv, BatchInv
  <2>1. CASE v = w
    BY <1>2, <2>1 DEF HoldingsInv, BatchInv
  <2>2. CASE v # w
    BY <1>2, <2>2 DEF HoldingsInv, ExclusiveHolders, Held
  <2> QED
    BY <2>1, <2>2
<1>5. DeliveredInv'
  BY <1>1, <1>2 DEF HoldingsInv, DeliveredInv
<1>6. PendingIsBufferedOrStored'
  BY <1>1, <1>2 DEF HoldingsInv, PendingIsBufferedOrStored, EntriesOf
<1>7. ExclusiveHolders'
  BY <1>3 DEF HoldingsInv, ExclusiveHolders, Held
<1>8. AckedIsStored'
  BY <1>1 DEF HoldingsInv, AckedIsStored
<1>9. RowsInv'
  <2>1. NoDuplicateRows'
    BY DEF HoldingsInv, RowsInv, NoDuplicateRows
  <2>2. ASSUME NEW v \in Workers, NEW r \in rows', NEW s \in buffer'[v],
               r.entry = s.entry
        PROVE  r = s
    <3>1. CASE v = w \/ r \in rows
      BY <2>2, <3>1 DEF HoldingsInv, RowsInv
    <3>2. CASE v # w /\ r \in buffer[w]
      <4>1. r.entry \in pending[w] /\ s.entry \in pending[v]
        BY <2>2, <3>2
        DEF HoldingsInv, PendingIsBufferedOrStored, EntriesOf
      <4> QED
        BY <2>2, <3>2, <4>1 DEF HoldingsInv, ExclusiveHolders, Held
    <3> QED
      BY <2>2, <3>1, <3>2
  <2>3. ASSUME NEW v \in Workers, NEW r \in buffer'[v], NEW s \in buffer'[v],
               r.entry = s.entry
        PROVE  r = s
    BY <2>3 DEF HoldingsInv, RowsInv
  <2> QED
    BY <2>1, <2>2, <2>3 DEF RowsInv, NoDuplicateRows
<1> QED
  BY <1>4, <1>5, <1>6, <1>7, <1>8, <1>9 DEF HoldingsInv, GroupInv

-----------------------------------------------------------------------------
(***************************************************************************)
(* Every step is one of the five kinds above.                              *)
(***************************************************************************)
LEMMA HoldingsInvPreserved == ASSUME IInv, [Next]_vars PROVE HoldingsInv'
<1> USE DEF IInv
<1>0. ASSUME UNCHANGED deliveryVars, UNCHANGED <<malformed, rows>>, KeptOrDropped
      PROVE  HoldingsInv'
  <2>1. PICK ids \in SUBSET (pel \cup acked) : ids = {}
    OBVIOUS
  <2>2. pel' = pel \ ids /\ acked' = acked \cup ids /\ lastDelivered' = lastDelivered
    BY <1>0, <2>1 DEF deliveryVars
  <2> QED
    BY <1>0, <2>1, <2>2, LettingGo
<1>1. ASSUME NEW bad \in BOOLEAN, Ingest(bad) PROVE HoldingsInv'
  BY <1>1, Ingesting
<1>2. ASSUME NEW w \in Workers, ReadBatch(w) PROVE HoldingsInv'
  <2>1. /\ Deliver /\ UNCHANGED <<malformed, rows, buffer, pending>>
        /\ \A v \in Workers \ {w} : BatchOf(v)' = BatchOf(v)
    BY <1>2 DEF ReadBatch, streamVars, BatchOf, TypeOK
  <2>2. BatchOf(w)' = FirstUnread(lastDelivered)..LastOfBatch(lastDelivered, BatchSize)
    BY <1>2 DEF ReadBatch, BatchOf, TypeOK
  <2>3. BatchOf(w)' \subseteq pel' \ pel
    BY <2>1, <2>2
    DEF Deliver, FirstUnread, HoldingsInv, GroupInv, TypeOK, StreamTypeOK, GroupTypeOK
  <2> QED
    BY <2>1, <2>3, Delivering
<1>3. ASSUME NEW w \in Workers, ReadReplyLost(w) PROVE HoldingsInv'
  BY <1>3, Delivering
  DEF ReadReplyLost, streamVars, workerVars, BatchOf
<1>4. ASSUME NEW w \in Workers, Accumulate(w) PROVE HoldingsInv'
  BY <1>4, Accumulating
<1>5. ASSUME NEW w \in Workers, NEW e \in BatchOf(w) \cap malformed, Ack({e}),
             UNCHANGED <<streamVars, rows, buffer, pending>>,
             BatchOf(w)' \subseteq BatchOf(w) \ {e},
             \A v \in Workers \ {w} : BatchOf(v)' = BatchOf(v)
      PROVE  HoldingsInv'
  <2>1. e \in pel /\ \A v \in Workers \ {w} : e \notin BatchOf(v)
    BY <1>5 DEF HoldingsInv, BatchInv, ExclusiveHolders, Held
  <2>2. KeptOrDropped
    BY <1>5 DEF KeptOrDropped
  <2> QED
    BY <1>5, <2>1, <2>2, LettingGo DEF Ack, streamVars
<1>6. ASSUME NEW w \in Workers, DiscardMalformed(w) PROVE HoldingsInv'
  <2>1. /\ BatchOf(w)' \subseteq BatchOf(w) \ {batch[w].next}
        /\ \A v \in Workers \ {w} : BatchOf(v)' = BatchOf(v)
    BY <1>6 DEF DiscardMalformed, BatchOf, TypeOK
  <2> QED
    BY <1>5, <1>6, <2>1 DEF DiscardMalformed
<1>7. ASSUME NEW w \in Workers, DiscardFails(w) PROVE HoldingsInv'
  <2>1. BatchOf(w)' = {} /\ \A v \in Workers \ {w} : BatchOf(v)' = BatchOf(v)
    BY <1>7 DEF DiscardFails, BatchOf, NoBatch, TypeOK
  <2>2. CASE UNCHANGED deliveryVars
    BY <1>0, <1>7, <2>1, <2>2 DEF DiscardFails, KeptOrDropped, streamVars
  <2>3. CASE Ack({batch[w].next})
    BY <1>5, <1>7, <2>1, <2>3 DEF DiscardFails
  <2> QED
    BY <1>7, <2>2, <2>3 DEF groupVars, DiscardFails
<1>8. ASSUME NEW w \in Workers, Decide(w) PROVE HoldingsInv'
  <2>1. KeptOrDropped
    BY <1>8 DEF Decide, KeptOrDropped, BatchOf, NoBatch, TypeOK
  <2> QED
    BY <1>0, <1>8, <2>1 DEF groupVars, Decide, streamVars
<1>9. ASSUME NEW w \in Workers, FlushCommits(w) PROVE HoldingsInv'
  BY <1>9, Inserting
  DEF FlushCommits, InsertedRows, TypeOK, streamVars, groupVars, deliveryVars
<1>10. ASSUME NEW w \in Workers, FlushFails(w) PROVE HoldingsInv'
  <2>1. CASE rows' = rows
    BY <1>0, <1>10, <2>1 DEF groupVars, FlushFails, KeptOrDropped, BatchOf, streamVars
  <2>2. CASE rows' = rows \cup buffer[w]
    BY <1>10, <2>2, Inserting DEF FlushFails, streamVars, groupVars, deliveryVars
  <2> QED
    BY <1>10, <2>1, <2>2 DEF FlushFails, InsertedRows
<1>11. ASSUME NEW w \in Workers, pc[w] \in AckPhases, Ack(pending[w]),
              UNCHANGED <<streamVars, rows, batch, buffer>>,
              pending'[w] \in {pending[w], {}},
              \A v \in Workers \ {w} : pending'[v] = pending[v]
       PROVE  HoldingsInv'
  <2>1. buffer[w] = {} /\ pending[w] \subseteq StoredEntries
    BY <1>11 DEF FlushedInv, HoldingsInv, PendingIsBufferedOrStored, EntriesOf
  <2>2. /\ pending[w] \subseteq pel \cup acked
        /\ \A v \in Workers : BatchOf(v) \cap pending[w] = {}
    BY DEF HoldingsInv, DeliveredInv, BatchInv, ExclusiveHolders, Held
  <2>3. KeptOrDropped /\ \A v \in Workers : BatchOf(v)' = BatchOf(v)
    BY <1>11, <2>1 DEF KeptOrDropped, BatchOf
  <2> QED
    BY <1>11, <2>1, <2>2, <2>3, LettingGo DEF Ack, streamVars
<1>12. ASSUME NEW w \in Workers, AckFlushed(w) PROVE HoldingsInv'
  BY <1>11, <1>12 DEF AckFlushed, TypeOK
<1>13. ASSUME NEW w \in Workers, AckFails(w) PROVE HoldingsInv'
  <2>1. CASE UNCHANGED deliveryVars
    BY <1>0, <1>13, <2>1 DEF AckFails, KeptOrDropped, BatchOf, streamVars
  <2>2. CASE Ack(pending[w])
    BY <1>11, <1>13, <2>2 DEF AckFails
  <2> QED
    BY <1>13, <2>1, <2>2 DEF groupVars, AckFails
<1>14. ASSUME NEW w \in Workers,
              \/ ReadNothing(w) \/ IntervalElapses(w)
              \/ SignalShutdown(w) \/ LeaveLoop(w)
       PROVE  HoldingsInv'
  <2>1. UNCHANGED <<streamVars, deliveryVars, rows, batch, buffer, pending>>
    BY <1>14 DEF groupVars, ReadNothing, IntervalElapses, SignalShutdown, LeaveLoop
  <2> QED
    BY <1>0, <2>1 DEF KeptOrDropped, BatchOf, streamVars
<1>15. ASSUME NEW w \in Workers, Crash(w) \/ Restart(w) PROVE HoldingsInv'
  <2>1. Forget(w) /\ UNCHANGED <<streamVars, deliveryVars, rows>>
    BY <1>15 DEF groupVars, Crash, Restart, EnsureGroup
  <2>2. KeptOrDropped
    BY <2>1 DEF Forget, KeptOrDropped, BatchOf, NoBatch, TypeOK
  <2> QED
    BY <1>0, <2>1, <2>2 DEF streamVars
<1>16. CASE UNCHANGED dataVars
  BY <1>0, <1>16
  DEF dataVars, streamVars, groupVars, deliveryVars, workerVars, KeptOrDropped, BatchOf
<1>17. CASE Evict \/ IngestionStarts
  <2>1. UNCHANGED <<deliveryVars, malformed, rows, batch, buffer, pending>>
    BY <1>17 DEF Evict, IngestionStarts, EvictStream, EnsureGroup, StreamEvict,
       streamVars, workerVars
  <2> QED
    BY <1>0, <2>1 DEF KeptOrDropped, BatchOf
<1> QED
  BY <1>1, <1>2, <1>3, <1>4, <1>6, <1>7, <1>8, <1>9, <1>10, <1>12, <1>13,
     <1>14, <1>15, <1>16, <1>17
  DEF Next, Step, WorkerStep, WorkerFailure, ReadRefused, vars

-----------------------------------------------------------------------------
(***************************************************************************)
(* The inductive invariant holds for ever: the three facts combined.       *)
(***************************************************************************)
THEOREM Invariance == Spec => []IInv
<1>1. IInv /\ [Next]_vars => IInv'
  BY TypeOKPreserved, FlushedInvPreserved, HoldingsInvPreserved DEF IInv
<1> QED
  BY InitEstablishesIInv, <1>1, PTL DEF Spec

(***************************************************************************)
(* The worker's variables keep their types.                                *)
(***************************************************************************)
THEOREM TypeCorrect == Spec => []TypeOK
<1>1. IInv => TypeOK
  BY DEF IInv
<1> QED
  BY Invariance, <1>1, PTL

(***************************************************************************)
(* An acknowledged reading is stored, unless it could not be parsed.       *)
(***************************************************************************)
THEOREM AckedReadingsAreStored == Spec => []AckedIsStored
<1>1. IInv => AckedIsStored
  BY DEF IInv, HoldingsInv
<1> QED
  BY Invariance, <1>1, PTL

(***************************************************************************)
(* A reading has at most one row, through retries, lost replies and        *)
(* restarts.                                                               *)
(***************************************************************************)
THEOREM RowsAreUnique == Spec => []NoDuplicateRows
<1>1. IInv => NoDuplicateRows
  BY DEF IInv, HoldingsInv, RowsInv
<1> QED
  BY Invariance, <1>1, PTL

(***************************************************************************)
(* pending_ids and the buffer agree, and no two replicas hold one reading. *)
(***************************************************************************)
THEOREM HoldingsAreConsistent ==
    Spec => []HoldingsAgree
<1>1. IInv => HoldingsAgree
  BY DEF IInv, HoldingsInv, HoldingsAgree
<1> QED
  BY Invariance, <1>1, PTL

-----------------------------------------------------------------------------
(***************************************************************************)
(* The refinement.  Seen from a reading, a step adds to the stream or      *)
(* evicts it, delivers, acknowledges what is stored or malformed, inserts  *)
(* what a worker holds, or changes nothing.                                *)
(***************************************************************************)
Acknowledges ==
    \E ids \in SUBSET (pel \cup acked) :
        ids \subseteq StoredEntries \cup malformed /\ Ack(ids)

Inserts == \E w \in Workers : rows' = rows \cup buffer[w]

LEMMA EffectOfStep ==
    ASSUME IInv, [Next]_vars
    PROVE  \/ \E bad \in BOOLEAN : StreamAdd(bad) /\ UNCHANGED <<deliveryVars, rows>>
           \/ StreamEvict /\ UNCHANGED <<deliveryVars, rows>>
           \/ Deliver /\ UNCHANGED <<streamVars, rows>>
           \/ Acknowledges /\ UNCHANGED <<streamVars, rows>>
           \/ Inserts /\ UNCHANGED <<streamVars, deliveryVars>>
           \/ UNCHANGED <<streamVars, deliveryVars, rows>>
<1>1. ASSUME NEW w \in Workers, NEW e \in BatchOf(w) \cap malformed, Ack({e})
      PROVE  Acknowledges
  BY <1>1 DEF Acknowledges, IInv, HoldingsInv, BatchInv
<1>2. ASSUME NEW w \in Workers, pc[w] \in AckPhases, Ack(pending[w])
      PROVE  Acknowledges
  BY <1>2 DEF Acknowledges, IInv, FlushedInv, HoldingsInv, DeliveredInv,
              PendingIsBufferedOrStored, EntriesOf
<1>3. CASE \E bad \in BOOLEAN : Ingest(bad)
  BY <1>3 DEF groupVars, Ingest
<1>4. CASE \E w \in Workers : ReadBatch(w) \/ ReadReplyLost(w)
  BY <1>4 DEF ReadBatch, ReadReplyLost
<1>5. CASE \E w \in Workers : DiscardMalformed(w) \/ DiscardFails(w)
  BY <1>1, <1>5 DEF groupVars, DiscardMalformed, DiscardFails
<1>6. CASE \E w \in Workers : AckFlushed(w) \/ AckFails(w)
  BY <1>2, <1>6 DEF groupVars, AckFlushed, AckFails
<1>7. CASE \E w \in Workers : FlushCommits(w) \/ FlushFails(w)
  BY <1>7 DEF groupVars, FlushCommits, FlushFails, InsertedRows, Inserts
<1>8. CASE \E w \in Workers :
              \/ ReadNothing(w) \/ Accumulate(w) \/ Decide(w) \/ LeaveLoop(w)
              \/ IntervalElapses(w) \/ SignalShutdown(w) \/ Crash(w) \/ Restart(w)
  BY <1>8 DEF groupVars, ReadNothing, Accumulate, Decide, LeaveLoop, IntervalElapses,
              SignalShutdown, Crash, Restart, EnsureGroup
<1>9. CASE UNCHANGED dataVars
  BY <1>9 DEF groupVars, dataVars
<1>10. CASE Evict \/ IngestionStarts
  BY <1>10 DEF Evict, IngestionStarts, EvictStream, EnsureGroup
<1> QED
  BY <1>3, <1>4, <1>5, <1>6, <1>7, <1>8, <1>9, <1>10
  DEF Next, Step, WorkerStep, WorkerFailure, ReadRefused, vars

LEMMA StatusMoves ==
    ASSUME IInv, [Next]_vars, NEW e \in EntryIds
    PROVE  \/ StatusOf(e)' = StatusOf(e)
           \/ <<StatusOf(e), StatusOf(e)'>> \in Lifecycle!Moves
<1> USE DEF IInv, StatusOf, Lifecycle!Moves
<1>0. /\ pel \subseteq 1..added /\ acked \subseteq 1..added
      /\ pel \cap acked = {} /\ StoredEntries \subseteq (pel \cup acked) \ malformed
      /\ e \in Int /\ added \in Int /\ trimmed \in Int /\ trimmed <= added
  BY StreamAssumption
  DEF HoldingsInv, GroupInv, DeliveredInv, TypeOK, StreamTypeOK, GroupTypeOK, EntryIds
<1>1. CASE \E bad \in BOOLEAN : StreamAdd(bad) /\ UNCHANGED <<deliveryVars, rows>>
  <2>1. /\ added' = added + 1 /\ trimmed' \in trimmed..added
        /\ malformed' \in {malformed, malformed \cup {added + 1}}
        /\ pel' = pel /\ acked' = acked /\ StoredEntries' = StoredEntries
    BY <1>1 DEF StreamAdd, groupVars, deliveryVars, StoredEntries, EntriesOf
  <2> QED
    BY <1>0, <2>1
<1>2. CASE Deliver /\ UNCHANGED <<streamVars, rows>>
  <2>1. /\ pel \subseteq pel' /\ pel' \subseteq pel \cup (trimmed+1 .. added)
        /\ (pel' \ pel) \cap acked = {} /\ acked' = acked
    BY <1>2, StreamAssumption, GroupAssumption
    DEF Deliver, HasUnread, FirstUnread, LastOfBatch, TypeOK, StreamTypeOK, GroupTypeOK,
        HoldingsInv, GroupInv
  <2>2. UNCHANGED <<added, trimmed, malformed>> /\ StoredEntries' = StoredEntries
    BY <1>2 DEF streamVars, StoredEntries, EntriesOf
  <2> QED
    BY <1>0, <2>1, <2>2
<1>3. CASE Acknowledges /\ UNCHANGED <<streamVars, rows>>
  <2>1. PICK ids \in SUBSET (pel \cup acked) :
            ids \subseteq StoredEntries \cup malformed /\ Ack(ids)
    BY <1>3 DEF Acknowledges
  <2>2. UNCHANGED <<added, trimmed, malformed>> /\ StoredEntries' = StoredEntries
    BY <1>3 DEF streamVars, StoredEntries, EntriesOf
  <2> QED
    BY <1>0, <2>1, <2>2 DEF Ack
<1>4. CASE Inserts /\ UNCHANGED <<streamVars, deliveryVars>>
  <2>1. PICK w \in Workers : rows' = rows \cup buffer[w]
    BY <1>4 DEF Inserts
  <2>2. EntriesOf(buffer[w]) \subseteq (pel \cup acked) \ malformed
    BY DEF HoldingsInv, DeliveredInv, PendingIsBufferedOrStored
  <2>3. StoredEntries' = StoredEntries \cup EntriesOf(buffer[w])
    BY <2>1 DEF StoredEntries, EntriesOf
  <2>4. acked \ malformed \subseteq StoredEntries
    BY DEF HoldingsInv, AckedIsStored
  <2> QED
    BY <1>0, <1>4, <2>2, <2>3, <2>4 DEF streamVars, groupVars, deliveryVars
<1>5. CASE UNCHANGED <<streamVars, deliveryVars, rows>>
  BY <1>5 DEF streamVars, groupVars, deliveryVars, StoredEntries, EntriesOf
<1>6. CASE StreamEvict /\ UNCHANGED <<deliveryVars, rows>>
  <2>1. trimmed' = added /\ UNCHANGED <<added, malformed, pel, acked>> /\ StoredEntries' = StoredEntries
    BY <1>6 DEF StreamEvict, groupVars, deliveryVars, StoredEntries, EntriesOf
  <2> QED
    BY <1>0, <2>1
<1> QED
  BY <1>1, <1>2, <1>3, <1>4, <1>5, <1>6, EffectOfStep

(***************************************************************************)
(* The workers implement ReadingLifecycle: whatever fails, each reading    *)
(* only ever moves forward, is acknowledged only when stored, and is never *)
(* delivered twice.                                                        *)
(***************************************************************************)
THEOREM WorkersImplementLifecycle == Spec => ImplementsLifecycle
<1> DEFINE Mapped == [e \in EntryIds |-> StatusOf(e)]
<1>1. Init => Lifecycle!Init
  BY DEF Init, StreamInit, GroupInit, Lifecycle!Init, StatusOf, EntryIds
<1>2. ASSUME IInv, IInv', [Next]_vars PROVE [Lifecycle!Next]_Mapped
  <2>1. \A e \in EntryIds : StatusOf(e)' \in Lifecycle!Status
    BY DEF StatusOf, Lifecycle!Status
  <2>2. \A e \in EntryIds : \/ Mapped'[e] = Mapped[e]
                            \/ <<Mapped[e], Mapped'[e]>> \in Lifecycle!Moves
    BY <1>2, StatusMoves
  <2>3. Mapped' \in [EntryIds -> Lifecycle!Status]
    BY <2>1
  <2> QED
    BY <2>2, <2>3 DEF Lifecycle!Next
<1> QED
  BY <1>1, <1>2, Invariance, PTL DEF Spec, ImplementsLifecycle, Lifecycle!Spec

-----------------------------------------------------------------------------
(***************************************************************************)
(* What is left behind.  The two kinds of disruption after which nothing   *)
(* is: PostgreSQL and XACK failing in any way, and being told to stop.     *)
(* The stream may be evicted besides either.                               *)
(***************************************************************************)
NobodyDies   == faults \subseteq FlushFailures \cup {"evict"}
NothingFails == faults \subseteq {"shutdown", "malformed", "evict"}

\* What was delivered and is still in the stream is pending or acknowledged.
DeliveredIsKept == trimmed + 1..lastDelivered \subseteq pel \cup acked

\* Nobody stops but by a signal.
NobodyStopsInv ==
    NobodyDies =>
        /\ malformed = {}
        /\ \A w \in Workers : ~shutdown[w] /\ pc[w] \in {"read", "process", "flush", "ack"}

\* Row ids are drawn once, each by one worker.
IdsInv ==
    /\ \A r \in rows : r.id < nextId
    /\ \A w \in Workers : \A r \in buffer[w] : r.id < nextId
    /\ \A v, w \in Workers : v # w =>
          \A r \in buffer[v], s \in buffer[w] : r.id # s.id
    /\ NothingFails => \A w \in Workers : \A r \in buffer[w], s \in rows : r.id # s.id

\* Between two flushes a worker takes in at most one batch beyond the
\* BatchSize - 1 rows that make no flush.
Fits(w) ==
    /\ IsFiniteSet(buffer[w])
    /\ batch[w].next <= batch[w].last + 1
    /\ pc[w] = "process" =>
          Cardinality(buffer[w]) + batch[w].last + 1 - batch[w].next <= 2 * BatchSize - 1
    /\ pc[w] = "flush" => Cardinality(buffer[w]) <= 2 * BatchSize - 1
    /\ pc[w] \notin {"process", "flush"} => Cardinality(buffer[w]) <= BatchSize - 1

FitsInv == NothingFails => \A w \in Workers : Fits(w)

\* Only a worker that is processing a batch has one, one that has stopped has
\* nothing, and whatever is pending is in somebody's hands.
InHandsInv ==
    NobodyDies \/ NothingFails =>
        /\ \A e \in pel : \E w \in Workers : e \in Held(w)
        /\ \A w \in Workers : pc[w] # "process" => BatchOf(w) = {}
        /\ NothingFails => \A w \in Workers :
              /\ pc[w] # "down"
              /\ pc[w] \notin AckPhases => pending[w] \subseteq EntriesOf(buffer[w])
              /\ pc[w] = "stopped" => Held(w) = {}

LeftBehindInv ==
    DeliveredIsKept /\ NobodyStopsInv /\ IdsInv /\ FitsInv /\ InHandsInv

LEMMA LeftBehindInvInit == Init => LeftBehindInv
<1> SUFFICES ASSUME Init  PROVE LeftBehindInv
  OBVIOUS
<1>1. /\ added = 0 /\ trimmed = 0 /\ malformed = {} /\ lastDelivered = 0
      /\ pel = {} /\ acked = {} /\ rows = {} /\ nextId = 0
      /\ \A w \in Workers :
            /\ pc[w] = "read" /\ batch[w] = [next |-> 1, last |-> 0]
            /\ buffer[w] = {} /\ pending[w] = {} /\ ~shutdown[w]
  BY DEF Init, StreamInit, GroupInit, NoBatch
<1>2. DeliveredIsKept
  BY <1>1 DEF DeliveredIsKept
<1>3. NobodyStopsInv
  BY <1>1 DEF NobodyStopsInv
<1>4. IdsInv
  BY <1>1 DEF IdsInv
<1>5. FitsInv
  <2>1. IsFiniteSet({}) /\ Cardinality({}) = 0
    BY FS_EmptySet
  <2>2. ASSUME NEW w \in Workers
        PROVE  /\ IsFiniteSet(buffer[w]) /\ Cardinality(buffer[w]) = 0
               /\ pc[w] = "read" /\ batch[w].next = 1 /\ batch[w].last = 0
    BY <1>1, <2>1
  <2>3. 0 <= BatchSize - 1 /\ 1 <= 0 + 1
    BY GroupAssumption
  <2> QED
    BY <2>2, <2>3 DEF FitsInv, Fits
<1>6. InHandsInv
  BY <1>1 DEF InHandsInv, BatchOf, Held
<1> QED
  BY <1>2, <1>3, <1>4, <1>5, <1>6 DEF LeftBehindInv

LEMMA DeliveredIsKeptPreserved ==
    ASSUME IInv, DeliveredIsKept, [Next]_vars  PROVE DeliveredIsKept'
<1>1. /\ added \in Nat /\ trimmed \in Nat /\ lastDelivered \in Nat
      /\ trimmed <= added /\ lastDelivered <= added /\ BatchSize \in Nat \ {0}
  BY StreamAssumption, GroupAssumption DEF IInv, TypeOK, StreamTypeOK, GroupTypeOK
<1>2. CASE \E bad \in BOOLEAN : StreamAdd(bad) /\ UNCHANGED <<deliveryVars, rows>>
  <2>1. trimmed' \in Nat /\ trimmed <= trimmed'
    BY <1>1, <1>2 DEF StreamAdd
  <2>2. lastDelivered' = lastDelivered /\ pel' = pel /\ acked' = acked
    BY <1>2 DEF groupVars, deliveryVars
  <2>3. PICK t \in Nat : t = trimmed' /\ trimmed <= t
    BY <2>1
  <2>4. ASSUME NEW e \in Nat, t + 1 <= e  PROVE trimmed + 1 <= e
    <3>1. trimmed \in Nat /\ trimmed <= t
      BY <1>1, <2>3
    <3> HIDE <2>3
    <3> QED
      BY <2>4, <3>1
  <2>5. \A e \in t + 1..lastDelivered : e \in Nat /\ t + 1 <= e /\ e <= lastDelivered
    BY <1>1
  <2>6. \A e \in Nat : trimmed + 1 <= e /\ e <= lastDelivered => e \in trimmed + 1..lastDelivered
    BY <1>1
  <2> QED
    BY <2>2, <2>3, <2>4, <2>5, <2>6 DEF DeliveredIsKept
<1>3. CASE Deliver /\ UNCHANGED <<streamVars, rows>>
  <2>1. PICK first \in Nat : first = FirstUnread(lastDelivered)
    BY <1>1 DEF FirstUnread
  <2>2. PICK last \in Nat : last = LastOfBatch(lastDelivered, BatchSize)
    BY <1>1, <2>1 DEF LastOfBatch
  <2>3. /\ lastDelivered' = last /\ pel' = pel \cup (first..last) /\ acked' = acked
        /\ trimmed' = trimmed
    BY <1>3, <2>1, <2>2 DEF Deliver, streamVars
  <2>4. ASSUME NEW e \in trimmed + 1..last  PROVE e \in pel' \cup acked'
    <3>1. e \in Nat /\ trimmed + 1 <= e /\ e <= last
      BY <1>1, <2>2, <2>4
    <3>2. CASE first <= e
      BY <2>1, <2>2, <2>3, <3>1, <3>2
    <3>3. CASE e < first
      <4>1. e <= lastDelivered
        BY <1>1, <2>1, <3>1, <3>3 DEF FirstUnread
      <4> QED
        BY <1>1, <2>3, <3>1, <4>1 DEF DeliveredIsKept
    <3> QED
      BY <2>1, <3>1, <3>2, <3>3
  <2> QED
    BY <2>3, <2>4 DEF DeliveredIsKept
<1>4. CASE Acknowledges /\ UNCHANGED <<streamVars, rows>>
  BY <1>4 DEF DeliveredIsKept, Acknowledges, Ack, streamVars
<1>5. CASE UNCHANGED <<streamVars, deliveryVars>>
  BY <1>5 DEF DeliveredIsKept, streamVars, groupVars, deliveryVars
<1>6. CASE StreamEvict /\ UNCHANGED <<deliveryVars, rows>>
  <2>1. trimmed' = added /\ lastDelivered' = lastDelivered
    BY <1>6 DEF StreamEvict, groupVars, deliveryVars
  <2>2. trimmed' + 1..lastDelivered' = {}
    BY <1>1, <2>1
  <2> QED
    BY <2>2 DEF DeliveredIsKept
<1> QED
  BY <1>2, <1>3, <1>4, <1>5, <1>6, EffectOfStep

\* Without a crash or a signal a worker is always in its loop.
LEMMA NobodyStopsInvPreserved ==
    ASSUME TypeOK, NobodyStopsInv, [Next]_vars, NobodyDies'  PROVE NobodyStopsInv'
<1> USE DEF FlushFailures
<1>1. NobodyDies /\ faults' = faults
  BY DEF NobodyDies, Next, vars
<1>2. /\ malformed = {} /\ pc \in [Workers -> Phases]
      /\ \A w \in Workers : ~shutdown[w] /\ pc[w] \in {"read", "process", "flush", "ack"}
  BY <1>1 DEF NobodyStopsInv, TypeOK
<1> SUFFICES /\ malformed' = {}
             /\ \A w \in Workers : ~shutdown'[w] /\ pc'[w] \in {"read", "process", "flush", "ack"}
  BY DEF NobodyStopsInv
<1>3. CASE UNCHANGED <<streamVars, pc, shutdown>>
  BY <1>2, <1>3 DEF streamVars
<1>4. ASSUME NEW bad \in BOOLEAN, Ingest(bad)
      PROVE  malformed' = {} /\ UNCHANGED <<pc, shutdown>>
  BY <1>1, <1>2, <1>4 DEF Ingest, StreamAdd, workerVars, NobodyDies
<1>5. ASSUME NEW w \in Workers, UNCHANGED <<streamVars, shutdown>>,
             NEW at \in {"read", "process", "flush", "ack"}, Goto(w, at)
      PROVE  /\ malformed' = {}
             /\ \A v \in Workers : ~shutdown'[v] /\ pc'[v] \in {"read", "process", "flush", "ack"}
  BY <1>2, <1>5 DEF Goto, streamVars
<1>6. ASSUME NEW w \in Workers, ReadBatch(w) \/ ReadNothing(w)
      PROVE  Goto(w, "process") /\ UNCHANGED <<streamVars, shutdown>>
  BY <1>6 DEF ReadBatch, ReadNothing
<1>7. ASSUME NEW w \in Workers, Accumulate(w) \/ IntervalElapses(w)
      PROVE  UNCHANGED <<streamVars, pc, shutdown>>
  BY <1>7 DEF Accumulate, IntervalElapses
<1>8. ASSUME NEW w \in Workers,
             \/ DiscardMalformed(w) \/ DiscardFails(w) \/ ReadReplyLost(w)
             \/ SignalShutdown(w) \/ LeaveLoop(w) \/ Crash(w) \/ Restart(w)
      PROVE  FALSE
  BY <1>1, <1>2, <1>8 DEF DiscardMalformed, DiscardFails, ReadReplyLost, SignalShutdown,
     LeaveLoop, Crash, Restart, EnsureGroup, NobodyDies
<1>9. ASSUME NEW w \in Workers, Decide(w)
      PROVE  (Goto(w, "flush") \/ Goto(w, "read")) /\ UNCHANGED <<streamVars, shutdown>>
  BY <1>9 DEF Decide
<1>10. ASSUME NEW w \in Workers, FlushCommits(w)
       PROVE  Goto(w, "ack") /\ UNCHANGED <<streamVars, shutdown>>
  BY <1>2, <1>10 DEF FlushCommits, FlushPhases, AfterFlush
<1>11. ASSUME NEW w \in Workers, FlushFails(w) \/ AckFails(w)
       PROVE  Goto(w, "read") /\ UNCHANGED <<streamVars, shutdown>>
  BY <1>2, <1>11 DEF FlushFails, FlushPhases, AckFails, AckPhases, OnError
<1>12. ASSUME NEW w \in Workers, AckFlushed(w)
       PROVE  Goto(w, "read") /\ UNCHANGED <<streamVars, shutdown>>
  BY <1>2, <1>12 DEF AckFlushed, AckPhases, AfterAck
<1>13. CASE UNCHANGED dataVars
  BY <1>3, <1>13 DEF dataVars, workerVars
<1>14. CASE Evict \/ IngestionStarts \/ \E bad \in BOOLEAN : Ingest(bad)
  BY <1>2, <1>4, <1>14
  DEF Evict, IngestionStarts, EvictStream, EnsureGroup, StreamEvict, streamVars, workerVars
<1>15. CASE \E w \in Workers : WorkerStep(w)
  BY <1>3, <1>5, <1>6, <1>7, <1>8, <1>9, <1>10, <1>12, <1>15 DEF WorkerStep
<1>16. CASE \E w \in Workers : WorkerFailure(w)
  BY <1>5, <1>8, <1>11, <1>13, <1>16 DEF WorkerFailure, ReadRefused
<1>17. CASE \E w \in Workers :
               IntervalElapses(w) \/ SignalShutdown(w) \/ Crash(w) \/ Restart(w)
  BY <1>3, <1>7, <1>8, <1>17
<1> QED
  BY <1>13, <1>14, <1>15, <1>16, <1>17 DEF Next, Step, vars

\* What the types say of the ids and of one worker's part.
LEMMA IdsInvPreserved ==
    ASSUME TypeOK, IdsInv, [Next]_vars  PROVE IdsInv'
<1>1. /\ rows \in SUBSET Row /\ nextId \in Nat /\ faults' = faults
      /\ \A w \in Workers : buffer[w] \in SUBSET Row
      /\ buffer \in [Workers -> SUBSET Row]
      /\ \A r \in Row : r.id \in Nat
  BY DEF TypeOK, Next, vars, Row
\* Rows that are buffered are forgotten, or kept, or inserted.
<1>2. ASSUME UNCHANGED <<rows, nextId>>, \A w \in Workers : buffer'[w] \subseteq buffer[w]
      PROVE  IdsInv'
  BY <1>1, <1>2 DEF IdsInv, NothingFails
<1>3. ASSUME NEW w \in Workers, Accumulate(w)  PROVE IdsInv'
  <2>1. PICK e : e = batch[w].next
    OBVIOUS
  <2>2. PICK row : row = [id |-> nextId, entry |-> e]
    OBVIOUS
  <2>3. /\ buffer'[w] = buffer[w] \cup {row} /\ row.id = nextId
        /\ \A v \in Workers : v # w => buffer'[v] = buffer[v]
        /\ rows' = rows /\ nextId' = nextId + 1
    BY <1>1, <1>3, <2>1, <2>2 DEF Accumulate
  <2>4. /\ \A r \in rows' : r.id < nextId'
        /\ \A v \in Workers : \A r \in buffer'[v] : r.id < nextId'
    <3>1. \A i \in Nat : i < nextId => i < nextId + 1
      BY <1>1
    <3>2. nextId < nextId + 1
      BY <1>1
    <3> QED
      BY <1>1, <2>3, <3>1, <3>2 DEF IdsInv
  <2>5. ASSUME NEW v \in Workers, NEW u \in Workers, v # u,
               NEW r \in buffer'[v], NEW s \in buffer'[u]
        PROVE  r.id # s.id
    <3>0. \A i \in Nat : i < nextId => i # nextId
      BY <1>1
    <3>1. \A x \in Workers : \A t \in buffer[x] : t.id # nextId
      BY <1>1, <3>0 DEF IdsInv
    <3>2. CASE v = w
      BY <2>3, <2>5, <3>1, <3>2 DEF IdsInv
    <3>3. CASE u = w
      BY <2>3, <2>5, <3>1, <3>3 DEF IdsInv
    <3>4. CASE v # w /\ u # w
      BY <2>3, <2>5, <3>4 DEF IdsInv
    <3> QED
      BY <3>2, <3>3, <3>4
  <2>6. ASSUME NothingFails, NEW v \in Workers, NEW r \in buffer'[v], NEW s \in rows
        PROVE  r.id # s.id
    <3>0. \A i \in Nat : i < nextId => i # nextId
      BY <1>1
    <3>1. s.id # nextId
      BY <1>1, <3>0 DEF IdsInv
    <3> QED
      BY <2>3, <2>6, <3>1 DEF IdsInv
  <2>7. \A v, u \in Workers : v # u => \A r \in buffer'[v], s \in buffer'[u] : r.id # s.id
    BY <2>5
  <2>8. NothingFails' => \A v \in Workers : \A r \in buffer'[v], s \in rows' : r.id # s.id
    BY <1>1, <2>3, <2>6 DEF NothingFails
  <2> QED
    BY <2>4, <2>7, <2>8 DEF IdsInv
<1>4. ASSUME NEW w \in Workers, rows' = rows \cup buffer[w], nextId' = nextId,
             \A v \in Workers : buffer'[v] \subseteq buffer[v],
             NothingFails => buffer'[w] = {}
      PROVE  IdsInv'
  BY <1>1, <1>4 DEF IdsInv, NothingFails
<1>5. ASSUME NEW w \in Workers, FlushCommits(w)  PROVE IdsInv'
  BY <1>1, <1>4, <1>5 DEF FlushCommits, InsertedRows
<1>6. ASSUME NEW w \in Workers, FlushFails(w)  PROVE IdsInv'
  <2>1. CASE rows' = rows
    BY <1>2, <1>6, <2>1 DEF FlushFails
  <2>2. CASE "commit_lost" \in faults /\ rows' = rows \cup buffer[w]
    BY <1>4, <1>6, <2>2 DEF FlushFails, NothingFails
  <2> QED
    BY <1>6, <2>1, <2>2 DEF FlushFails, InsertedRows
<1>7. ASSUME NEW w \in Workers, Crash(w) \/ Restart(w)  PROVE IdsInv'
  BY <1>1, <1>2, <1>7 DEF Crash, Restart, EnsureGroup, Forget
<1>8. CASE UNCHANGED <<rows, nextId, buffer>>
  BY <1>2, <1>8
<1>9. ASSUME NEW w \in Workers,
             \/ ReadBatch(w) \/ ReadNothing(w) \/ DiscardMalformed(w) \/ Decide(w)
             \/ AckFlushed(w) \/ LeaveLoop(w) \/ ReadReplyLost(w) \/ DiscardFails(w)
             \/ AckFails(w) \/ IntervalElapses(w) \/ SignalShutdown(w)
      PROVE  UNCHANGED <<rows, nextId, buffer>>
  BY <1>9 DEF ReadBatch, ReadNothing, DiscardMalformed, Decide, AckFlushed, LeaveLoop,
     ReadReplyLost, DiscardFails, AckFails, IntervalElapses, SignalShutdown, workerVars
<1>10. CASE UNCHANGED dataVars
  BY <1>8, <1>10 DEF dataVars, workerVars
<1>11. CASE Evict \/ IngestionStarts \/ \E bad \in BOOLEAN : Ingest(bad)
  BY <1>8, <1>11 DEF Ingest, Evict, IngestionStarts, EvictStream, EnsureGroup, workerVars
<1> QED
  BY <1>3, <1>5, <1>6, <1>7, <1>8, <1>9, <1>10, <1>11
  DEF Next, Step, WorkerStep, WorkerFailure, ReadRefused, vars

\* What Fits compares, for any worker, as numbers.
LEMMA FitsOf ==
    ASSUME TypeOK, NEW w \in Workers, IsFiniteSet(buffer[w])
    PROVE  /\ Cardinality(buffer[w]) \in Nat
           /\ batch[w].next \in Nat \ {0} /\ batch[w].last \in Nat
           /\ BatchSize \in Nat \ {0} /\ pc[w] \in Phases
<1>1. Cardinality(buffer[w]) \in Nat
  BY FS_CardinalityType
<1> QED
  BY <1>1, StreamAssumption, GroupAssumption DEF TypeOK

\* When nothing fails a buffer can always be inserted.
LEMMA NoFailures ==
    ASSUME TypeOK, IdsInv, FitsInv, InHandsInv, NothingFails,
           2 * BatchSize - 1 <= MaxInsertRows, NEW w \in Workers
    PROVE  /\ pc[w] \in FlushPhases => CanInsert(w)
           /\ ~ FlushFails(w) /\ ~ DiscardFails(w) /\ ~ AckFails(w)
           /\ ~ ReadReplyLost(w) /\ ~ Crash(w)
<1>1. Fits(w)
  BY DEF FitsInv
<1>2. PICK n \in Nat : n = Cardinality(buffer[w])
  BY <1>1, FitsOf DEF Fits
<1>3. ASSUME pc[w] \in FlushPhases  PROVE CanInsert(w)
  <2>1. n <= 2 * BatchSize - 1
    <3>1. CASE pc[w] = "flush"
      BY <1>1, <1>2, <3>1 DEF Fits
    <3>2. CASE pc[w] = "final_flush"
      <4>1. n <= BatchSize - 1
        BY <1>1, <1>2, <3>2 DEF Fits
      <4> QED
        BY <4>1, <1>2, GroupAssumption
    <3> QED
      BY <1>3, <3>1, <3>2 DEF FlushPhases
  <2>2. n <= MaxInsertRows
    BY <2>1, GroupAssumption, WorkerAssumption
  <2>3. IdsOf(buffer[w]) \cap IdsOf(rows) = {}
    BY DEF IdsInv, IdsOf
  <2> QED
    BY <1>2, <2>2, <2>3 DEF CanInsert, InsertedRows
<1> QED
  BY <1>3 DEF NothingFails, FlushFails, DiscardFails, AckFails, ReadReplyLost, Crash

LEMMA FitsInvPreserved ==
    ASSUME TypeOK, IdsInv, FitsInv, InHandsInv, [Next]_vars,
           2 * BatchSize - 1 <= MaxInsertRows
    PROVE  FitsInv'
<1> SUFFICES ASSUME NothingFails'  PROVE \A w \in Workers : Fits(w)'
  BY DEF FitsInv
<1>1. NothingFails
  BY DEF NothingFails, Next, vars
<1>2. /\ \A w \in Workers : Fits(w)
      /\ \A w \in Workers : pc[w] # "process" => BatchOf(w) = {}
      /\ pc \in [Workers -> Phases] /\ buffer \in [Workers -> SUBSET Row]
      /\ batch \in [Workers -> [next : Nat \ {0}, last : 0..MaxEntries]]
      /\ BatchSize \in Nat \ {0}
  BY <1>1, GroupAssumption DEF FitsInv, InHandsInv, TypeOK
<1>3. ASSUME UNCHANGED <<pc, batch, buffer>>  PROVE \A w \in Workers : Fits(w)'
  BY <1>2, <1>3 DEF Fits
<1>4. ASSUME NEW w \in Workers, NEW at \in Phases,
             NEW b \in [next : Nat \ {0}, last : 0..MaxEntries], NEW held \in SUBSET Row,
             IsFiniteSet(held), NEW n \in Nat, n = Cardinality(held),
             b.next <= b.last + 1,
             at = "process" => n + b.last + 1 - b.next <= 2 * BatchSize - 1,
             at = "flush" => n <= 2 * BatchSize - 1,
             at \notin {"process", "flush"} => n <= BatchSize - 1,
             pc' = [pc EXCEPT ![w] = at], batch' = [batch EXCEPT ![w] = b],
             buffer' = [buffer EXCEPT ![w] = held]
      PROVE  \A v \in Workers : Fits(v)'
  <2>1. Fits(w)'
    BY <1>2, <1>4 DEF Fits
  <2>2. ASSUME NEW v \in Workers, v # w  PROVE Fits(v)'
    BY <1>2, <1>4, <2>2 DEF Fits
  <2> QED
    BY <2>1, <2>2
\* One step of one worker, in numbers.
<1>5. ASSUME NEW w \in Workers,
             \/ ReadBatch(w) \/ ReadNothing(w) \/ Accumulate(w) \/ DiscardMalformed(w)
             \/ Decide(w) \/ FlushCommits(w) \/ AckFlushed(w) \/ LeaveLoop(w) \/ Restart(w)
      PROVE  \A v \in Workers : Fits(v)'
  <2>1. Fits(w) /\ IsFiniteSet(buffer[w])
    BY <1>2 DEF Fits
  <2>2. PICK b \in [next : Nat \ {0}, last : 0..MaxEntries] : b = batch[w]
    BY <1>2
  <2>3. PICK n \in Nat : n = Cardinality(buffer[w])
    BY <2>1, FitsOf
  <2>4. PICK next \in Nat \ {0} : next = b.next
    OBVIOUS
  <2>5. PICK last \in Nat : last = b.last
    BY StreamAssumption
  <2>6. /\ next <= last + 1
        /\ pc[w] = "process" => n + last + 1 - next <= 2 * BatchSize - 1
        /\ pc[w] = "flush" => n <= 2 * BatchSize - 1
        /\ pc[w] \notin {"process", "flush"} => n <= BatchSize - 1
        /\ pc[w] # "process" => last < next
    BY <1>2, <2>1, <2>2, <2>3, <2>4, <2>5 DEF Fits, BatchOf
  <2>7. /\ pc[w] \in Phases /\ buffer[w] \in SUBSET Row
        /\ pc = [pc EXCEPT ![w] = pc[w]] /\ batch = [batch EXCEPT ![w] = b]
        /\ buffer = [buffer EXCEPT ![w] = buffer[w]]
    BY <1>2, <2>2
  <2>8. /\ NoBatch \in [next : Nat \ {0}, last : 0..MaxEntries]
        /\ NoBatch.next = 1 /\ NoBatch.last = 0
        /\ IsFiniteSet({}) /\ Cardinality({}) = 0 /\ {} \in SUBSET Row
        /\ {"read", "process", "flush", "ack", "final_flush", "final_ack", "stopped"} \subseteq Phases
    BY StreamAssumption, FS_EmptySet DEF NoBatch, Phases, Running
  <2>9. CASE ReadBatch(w)
    <3>1. /\ added \in Nat /\ trimmed \in Nat /\ lastDelivered \in Nat /\ added <= MaxEntries
          /\ MaxEntries \in Nat
      BY StreamAssumption DEF TypeOK, StreamTypeOK, GroupTypeOK
    <3>2. PICK first \in Nat \ {0} : first = FirstUnread(lastDelivered)
      BY <3>1 DEF FirstUnread
    <3>3. PICK end \in Nat : end = LastOfBatch(lastDelivered, BatchSize)
      BY <1>2, <3>1, <3>2 DEF LastOfBatch
    <3>4. first <= end + 1 /\ end <= MaxEntries /\ end + 1 - first <= BatchSize
      BY <1>2, <2>9, <3>1, <3>2, <3>3 DEF LastOfBatch, ReadBatch, Deliver, HasUnread
    <3>5. PICK new : new = [next |-> first, last |-> end]
      OBVIOUS
    <3>6. /\ new \in [next : Nat \ {0}, last : 0..MaxEntries]
          /\ new.next = first /\ new.last = end
      BY <3>1, <3>4, <3>5
    <3>7. n + new.last + 1 - new.next <= 2 * BatchSize - 1
      <4>1. n <= BatchSize - 1
        BY <2>6, <2>9 DEF ReadBatch
      <4> QED
        BY <1>2, <3>4, <3>6, <4>1
    <3>8. /\ pc' = [pc EXCEPT ![w] = "process"] /\ batch' = [batch EXCEPT ![w] = new]
          /\ buffer' = [buffer EXCEPT ![w] = buffer[w]]
      BY <2>7, <2>9, <3>2, <3>3, <3>5 DEF ReadBatch, Goto
    <3> QED
      BY <1>4, <2>1, <2>3, <2>7, <2>8, <3>4, <3>6, <3>7, <3>8
  <2>10. CASE ReadNothing(w)
    <3>1. n + b.last + 1 - b.next <= 2 * BatchSize - 1
      <4>1. n <= BatchSize - 1 /\ last < next
        BY <2>6, <2>10 DEF ReadNothing
      <4> QED
        BY <1>2, <2>4, <2>5, <4>1
    <3>2. /\ pc' = [pc EXCEPT ![w] = "process"] /\ batch' = [batch EXCEPT ![w] = b]
          /\ buffer' = [buffer EXCEPT ![w] = buffer[w]]
      BY <2>7, <2>10 DEF ReadNothing, Goto
    <3> QED
      BY <1>4, <2>1, <2>3, <2>4, <2>5, <2>6, <2>7, <2>8, <3>1, <3>2
  <2>11. CASE Accumulate(w) \/ DiscardMalformed(w)
    <3>1. /\ pc[w] = "process" /\ next <= last /\ pc' = [pc EXCEPT ![w] = "process"]
          /\ batch' = [batch EXCEPT ![w].next = next + 1]
      BY <2>2, <2>4, <2>5, <2>7, <2>11 DEF Accumulate, DiscardMalformed, BatchOf
    <3>2. PICK new : new = [b EXCEPT !.next = next + 1]
      OBVIOUS
    <3>3. /\ new \in [next : Nat \ {0}, last : 0..MaxEntries]
          /\ new.next = next + 1 /\ new.last = last
          /\ batch' = [batch EXCEPT ![w] = new]
      BY <1>2, <2>2, <2>5, <3>1, <3>2
    <3>4. PICK held : held = buffer'[w]
      OBVIOUS
    <3>5. /\ held \in SUBSET Row /\ IsFiniteSet(held) /\ buffer' = [buffer EXCEPT ![w] = held]
          /\ \E m \in Nat : m = Cardinality(held) /\ m <= n + 1
      <4>1. CASE DiscardMalformed(w)
        BY <1>2, <2>1, <2>3, <2>7, <3>4, <4>1 DEF DiscardMalformed
      <4>2. CASE Accumulate(w)
        <5>1. PICK row : row = [id |-> nextId, entry |-> batch[w].next]
          OBVIOUS
        <5>2. /\ held = buffer[w] \cup {row}
              /\ buffer' = [buffer EXCEPT ![w] = held]
          BY <1>2, <3>4, <4>2, <5>1 DEF Accumulate
        <5>3. row \in Row
          BY <4>2, <5>1, StreamAssumption DEF TypeOK, Row, Accumulate, BatchOf, EntryIds
        <5>4. IsFiniteSet(held) /\ Cardinality(held) \in {n, n + 1}
          BY <2>1, <2>3, <5>2, FS_AddElement
        <5>5. Cardinality(held) \in Nat /\ Cardinality(held) <= n + 1
          BY <5>4
        <5> QED
          BY <2>7, <5>2, <5>3, <5>4, <5>5
      <4> QED
        BY <2>11, <4>1, <4>2
    <3>6. PICK m \in Nat : m = Cardinality(held) /\ m <= n + 1
      BY <3>5
    <3>7. /\ m + new.last + 1 - new.next <= 2 * BatchSize - 1
          /\ new.next <= new.last + 1
      <4>1. n + last + 1 - next <= 2 * BatchSize - 1
        BY <2>6, <3>1
      <4> QED
        BY <1>2, <3>1, <3>3, <3>6, <4>1
    <3> QED
      BY <1>4, <2>8, <3>1, <3>3, <3>5, <3>6, <3>7
  <2>12. CASE Decide(w)
    <3>1. /\ pc[w] = "process" /\ last < next /\ batch' = [batch EXCEPT ![w] = NoBatch]
          /\ pc' = [pc EXCEPT ![w] = IF ShouldFlush(w) THEN "flush" ELSE "read"]
          /\ buffer' = [buffer EXCEPT ![w] = buffer[w]]
      BY <2>2, <2>4, <2>5, <2>7, <2>12 DEF Decide, Goto, BatchOf
    <3>2. n <= 2 * BatchSize - 1
      BY <1>2, <2>6, <3>1
    <3>3. ~ ShouldFlush(w) => n <= BatchSize - 1
      BY <1>2, <2>3 DEF ShouldFlush
    <3>4. NoBatch.next <= NoBatch.last + 1
      BY <2>8
    <3> QED
      BY <1>4, <2>1, <2>3, <2>7, <2>8, <3>1, <3>2, <3>3, <3>4
  <2>13. CASE FlushCommits(w)
    <3>1. PICK at \in {"ack", "final_ack"} : at = AfterFlush(pc[w])
      BY DEF AfterFlush
    <3>2. /\ buffer' = [buffer EXCEPT ![w] = {}] /\ batch' = [batch EXCEPT ![w] = b]
          /\ pc' = [pc EXCEPT ![w] = at]
      BY <2>7, <2>13, <3>1 DEF FlushCommits, Goto
    <3>3. 0 <= BatchSize - 1
      BY <1>2
    <3> QED
      BY <1>4, <2>4, <2>5, <2>6, <2>8, <3>1, <3>2, <3>3
  <2>14. CASE AckFlushed(w) \/ LeaveLoop(w)
    <3>1. PICK at \in {"read", "stopped", "final_flush"} : pc' = [pc EXCEPT ![w] = at]
      BY <2>14 DEF AckFlushed, LeaveLoop, AfterAck, Goto
    <3>2. /\ buffer' = [buffer EXCEPT ![w] = buffer[w]] /\ batch' = [batch EXCEPT ![w] = b]
          /\ pc[w] \notin {"process", "flush"}
      BY <2>7, <2>14 DEF AckFlushed, LeaveLoop, AckPhases
    <3> QED
      BY <1>4, <2>1, <2>3, <2>4, <2>5, <2>6, <2>7, <2>8, <3>1, <3>2
  <2>15. CASE Restart(w)
    <3>1. /\ buffer' = [buffer EXCEPT ![w] = {}] /\ batch' = [batch EXCEPT ![w] = NoBatch]
          /\ pc' = [pc EXCEPT ![w] = "read"]
      BY <2>15 DEF Restart, EnsureGroup, Forget, Goto
    <3>2. 0 <= BatchSize - 1 /\ NoBatch.next <= NoBatch.last + 1
      BY <1>2, <2>8
    <3> QED
      BY <1>4, <2>8, <3>1, <3>2
  <2> QED
    BY <1>5, <2>9, <2>10, <2>11, <2>12, <2>13, <2>14, <2>15
<1>6. ASSUME NEW w \in Workers, IntervalElapses(w) \/ SignalShutdown(w)
      PROVE  UNCHANGED <<pc, batch, buffer>>
  BY <1>6 DEF IntervalElapses, SignalShutdown
<1>7. CASE UNCHANGED dataVars
  BY <1>3, <1>7 DEF dataVars, workerVars
<1>8. CASE Evict \/ IngestionStarts \/ \E bad \in BOOLEAN : Ingest(bad)
  BY <1>3, <1>8 DEF Ingest, Evict, IngestionStarts, EvictStream, EnsureGroup, workerVars
<1> QED
  BY <1>1, <1>3, <1>5, <1>6, <1>7, <1>8, NoFailures
  DEF Next, Step, WorkerStep, WorkerFailure, ReadRefused, vars

LEMMA InHandsInvPreserved ==
    ASSUME IInv, LeftBehindInv, [Next]_vars, 2 * BatchSize - 1 <= MaxInsertRows
    PROVE  InHandsInv'
<1> SUFFICES ASSUME (NobodyDies \/ NothingFails)'  PROVE InHandsInv'
  BY DEF InHandsInv
<1>1. /\ NobodyDies \/ NothingFails
      /\ NothingFails' => NothingFails
  BY DEF NobodyDies, NothingFails, Next, vars
<1>2. /\ TypeOK /\ IdsInv /\ FitsInv /\ InHandsInv /\ NobodyStopsInv
      /\ pc \in [Workers -> Phases] /\ buffer \in [Workers -> SUBSET Row]
      /\ pending \in [Workers -> SUBSET EntryIds]
      /\ batch \in [Workers -> [next : Nat \ {0}, last : 0..MaxEntries]]
  BY DEF IInv, LeftBehindInv, TypeOK
<1>3. /\ \A e \in pel : \E w \in Workers : e \in Held(w)
      /\ \A w \in Workers : pc[w] # "process" => BatchOf(w) = {}
      /\ NothingFails => \A w \in Workers :
            /\ pc[w] # "down"
            /\ pc[w] \notin AckPhases => pending[w] \subseteq EntriesOf(buffer[w])
            /\ pc[w] = "stopped" => Held(w) = {}
  BY <1>1, <1>2 DEF InHandsInv
\* A step of one worker, which lets go of what it takes from the pending only.
<1>4. ASSUME NEW w \in Workers, NEW at \in Phases, pc' = [pc EXCEPT ![w] = at],
             \A v \in Workers : v # w =>
                 /\ batch'[v] = batch[v] /\ buffer'[v] = buffer[v] /\ pending'[v] = pending[v],
             \A e \in pel' : e \in Held(w)' \/ (e \in pel /\ e \notin Held(w)),
             at # "process" => BatchOf(w)' = {},
             NothingFails =>
                 /\ at # "down"
                 /\ at \notin AckPhases => pending'[w] \subseteq EntriesOf(buffer'[w])
                 /\ at = "stopped" => Held(w)' = {}
      PROVE  InHandsInv'
  <2>1. \A v \in Workers : v # w => BatchOf(v)' = BatchOf(v) /\ Held(v)' = Held(v) /\ pc'[v] = pc[v]
    BY <1>2, <1>4 DEF BatchOf, Held
  <2>2. pc'[w] = at
    BY <1>2, <1>4
  <2>3. \A e \in pel' : \E v \in Workers : e \in Held(v)'
    <3> SUFFICES ASSUME NEW e \in pel', e \notin Held(w)'
                 PROVE  \E v \in Workers : e \in Held(v)'
      BY <1>4
    <3>1. e \in pel /\ e \notin Held(w)
      BY <1>4
    <3>2. PICK v \in Workers : e \in Held(v)
      BY <1>3, <3>1
    <3> QED
      BY <2>1, <3>1, <3>2
  <2>4. \A v \in Workers : pc'[v] # "process" => BatchOf(v)' = {}
    BY <1>3, <1>4, <2>1, <2>2
  <2>5. ASSUME NothingFails, NEW v \in Workers
        PROVE  /\ pc'[v] # "down"
               /\ pc'[v] \notin AckPhases => pending'[v] \subseteq EntriesOf(buffer'[v])
               /\ pc'[v] = "stopped" => Held(v)' = {}
    <3>1. CASE v = w
      BY <1>4, <2>2, <2>5, <3>1
    <3>2. CASE v # w
      <4>1. EntriesOf(buffer'[v]) = EntriesOf(buffer[v])
        BY <1>4, <3>2
      <4> QED
        BY <1>3, <1>4, <2>1, <2>5, <3>2, <4>1
    <3> QED
      BY <3>1, <3>2
  <2>6. (NothingFails => \A v \in Workers :
            /\ pc[v] # "down"
            /\ pc[v] \notin AckPhases => pending[v] \subseteq EntriesOf(buffer[v])
            /\ pc[v] = "stopped" => Held(v) = {})'
    BY <1>1, <2>5 DEF EntriesOf
  <2> QED
    BY <2>3, <2>4, <2>6 DEF InHandsInv
<1>5. CASE UNCHANGED <<deliveryVars, pc, batch, buffer, pending, faults>>
  BY <1>2, <1>5 DEF InHandsInv, BatchOf, Held, EntriesOf, groupVars, deliveryVars, NobodyDies, NothingFails
<1>6. ASSUME NEW w \in Workers, ReadBatch(w)  PROVE InHandsInv'
  <2>1. /\ pc' = [pc EXCEPT ![w] = "process"] /\ pc[w] = "read"
        /\ UNCHANGED <<buffer, pending>>
        /\ batch' = [batch EXCEPT ![w] = [next |-> FirstUnread(lastDelivered),
                          last |-> LastOfBatch(lastDelivered, BatchSize)]]
        /\ pel' = pel \cup FirstUnread(lastDelivered)..LastOfBatch(lastDelivered, BatchSize)
    BY <1>6 DEF ReadBatch, Goto, Deliver
  <2>2. BatchOf(w) = {} /\ BatchOf(w)' = FirstUnread(lastDelivered)..LastOfBatch(lastDelivered, BatchSize)
    BY <1>2, <1>3, <2>1 DEF BatchOf
  <2>3. \A e \in pel' : e \in Held(w)' \/ (e \in pel /\ e \notin Held(w))
    BY <2>1, <2>2 DEF Held
  <2>4. NothingFails => pending'[w] \subseteq EntriesOf(buffer'[w])
    BY <1>3, <2>1 DEF AckPhases
  <2>5. "process" \in Phases
    BY DEF Phases, Running
  <2> QED
    BY <1>2, <1>4, <2>1, <2>3, <2>4, <2>5
\* What this one holds changes hands within it.
<1>7. ASSUME NEW w \in Workers, Accumulate(w)  PROVE InHandsInv'
  <2>1. PICK e : e = batch[w].next
    OBVIOUS
  <2>2. PICK row : row = [id |-> nextId, entry |-> e]
    OBVIOUS
  <2>3. /\ pc[w] = "process" /\ pc' = [pc EXCEPT ![w] = "process"] /\ pel' = pel
        /\ buffer'[w] = buffer[w] \cup {row} /\ pending'[w] = pending[w] \cup {e}
        /\ \A v \in Workers : v # w =>
               batch'[v] = batch[v] /\ buffer'[v] = buffer[v] /\ pending'[v] = pending[v]
        /\ batch'[w] = [batch[w] EXCEPT !.next = e + 1] /\ row.entry = e
    BY <1>2, <1>7, <2>1, <2>2 DEF Accumulate, groupVars, deliveryVars
  <2>4. Held(w) \subseteq Held(w)'
    <3>1. batch'[w].next = e + 1 /\ batch'[w].last = batch[w].last /\ e \in Nat /\ batch[w].last \in Nat
      BY <1>2, <2>1, <2>3, StreamAssumption
    <3>2. BatchOf(w)' = e + 1..batch[w].last /\ BatchOf(w) = e..batch[w].last
      BY <2>1, <3>1 DEF BatchOf
    <3>3. \A x \in e..batch[w].last : x = e \/ x \in e + 1..batch[w].last
      BY <3>1
    <3> QED
      BY <2>3, <3>2, <3>3 DEF Held
  <2>5. NothingFails => pending'[w] \subseteq EntriesOf(buffer'[w])
    <3>1. NothingFails => pending[w] \subseteq EntriesOf(buffer[w])
      BY <1>3, <2>3 DEF AckPhases
    <3>2. EntriesOf(buffer[w]) \cup {e} \subseteq EntriesOf(buffer'[w])
      BY <2>3 DEF EntriesOf
    <3> QED
      BY <2>3, <3>1, <3>2
  <2>6. "process" \in Phases
    BY DEF Phases, Running
  <2> QED
    BY <1>4, <2>3, <2>4, <2>5, <2>6
<1>8. ASSUME NEW w \in Workers, DiscardMalformed(w)  PROVE InHandsInv'
  <2>1. PICK e : e = batch[w].next
    OBVIOUS
  <2>2. /\ pc[w] = "process" /\ pc' = [pc EXCEPT ![w] = "process"] /\ pel' = pel \ {e}
        /\ UNCHANGED <<buffer, pending>>
        /\ \A v \in Workers : v # w => batch'[v] = batch[v]
        /\ batch'[w] = [batch[w] EXCEPT !.next = e + 1]
    BY <1>2, <1>8, <2>1 DEF DiscardMalformed, Ack
  <2>3. Held(w) \ {e} \subseteq Held(w)'
    <3>1. batch'[w].next = e + 1 /\ batch'[w].last = batch[w].last /\ e \in Nat /\ batch[w].last \in Nat
      BY <1>2, <2>1, <2>2, StreamAssumption
    <3>2. BatchOf(w)' = e + 1..batch[w].last /\ BatchOf(w) = e..batch[w].last
      BY <2>1, <3>1 DEF BatchOf
    <3>3. \A x \in e..batch[w].last : x = e \/ x \in e + 1..batch[w].last
      BY <3>1
    <3> QED
      BY <2>2, <3>2, <3>3 DEF Held
  <2>4. NothingFails => pending'[w] \subseteq EntriesOf(buffer'[w])
    BY <1>3, <2>2 DEF AckPhases
  <2>5. "process" \in Phases
    BY DEF Phases, Running
  <2> QED
    BY <1>4, <2>2, <2>3, <2>4, <2>5
\* Nothing but the place changes, or the batch is found at its end.
<1>9. ASSUME NEW w \in Workers, NEW at \in Phases, pc' = [pc EXCEPT ![w] = at],
             pel' = pel, UNCHANGED <<buffer, pending>>, batch' = batch \/ BatchOf(w) = {},
             batch' = batch \/ batch' = [batch EXCEPT ![w] = NoBatch],
             at # "process" => BatchOf(w) = {}, at \notin {"down", "stopped"},
             NothingFails /\ at \notin AckPhases => pc[w] \notin AckPhases
      PROVE  InHandsInv'
  <2>1. BatchOf(w)' = BatchOf(w) /\ Held(w)' = Held(w)
    <3>1. CASE batch' = batch
      BY <1>9, <3>1 DEF BatchOf, Held
    <3>2. CASE BatchOf(w) = {} /\ batch' = [batch EXCEPT ![w] = NoBatch]
      <4>1. BatchOf(w)' = 1..0 /\ 1..0 = {}
        BY <1>2, <3>2 DEF BatchOf, NoBatch
      <4> QED
        BY <1>9, <3>2, <4>1 DEF Held
    <3> QED
      BY <1>9, <3>1, <3>2
  <2>2. \A v \in Workers : v # w => batch'[v] = batch[v]
    BY <1>2, <1>9
  <2>3. NothingFails =>
            /\ at # "down"
            /\ at \notin AckPhases => pending'[w] \subseteq EntriesOf(buffer'[w])
            /\ at = "stopped" => Held(w)' = {}
    BY <1>3, <1>9
  <2> QED
    BY <1>4, <1>9, <2>1, <2>2, <2>3
<1>10. ASSUME NEW w \in Workers, ReadNothing(w)  PROVE InHandsInv'
  <2>1. /\ pc[w] = "read" /\ pc' = [pc EXCEPT ![w] = "process"] /\ pel' = pel
        /\ UNCHANGED <<batch, buffer, pending>> /\ "process" \in Phases
    BY <1>10 DEF ReadNothing, Goto, groupVars, deliveryVars, Phases, Running
  <2> QED
    BY <1>9, <2>1 DEF AckPhases
<1>11. ASSUME NEW w \in Workers, Decide(w)  PROVE InHandsInv'
  <2>1. PICK at \in {"flush", "read"} : pc' = [pc EXCEPT ![w] = at]
    BY <1>11 DEF Decide, Goto
  <2>2. /\ pc[w] = "process" /\ pel' = pel /\ BatchOf(w) = {} /\ at \in Phases
        /\ batch' = [batch EXCEPT ![w] = NoBatch] /\ UNCHANGED <<buffer, pending>>
    BY <1>11 DEF Decide, groupVars, deliveryVars, Phases, Running
  <2> QED
    BY <1>9, <2>1, <2>2 DEF AckPhases
<1>12. ASSUME NEW w \in Workers, FlushCommits(w)  PROVE InHandsInv'
  <2>1. PICK at \in AckPhases : pc' = [pc EXCEPT ![w] = at]
    BY <1>12 DEF FlushCommits, Goto, AfterFlush, AckPhases
  <2>2. /\ pc[w] # "process" /\ pel' = pel /\ UNCHANGED <<batch, pending>>
        /\ \A v \in Workers : v # w => buffer'[v] = buffer[v]
        /\ at \in Phases /\ at \notin {"process", "down", "stopped"}
    BY <1>2, <1>12, <2>1 DEF FlushCommits, FlushPhases, groupVars, deliveryVars, AckPhases, Phases, Running
  <2>3. BatchOf(w)' = {} /\ Held(w)' = Held(w)
    BY <1>3, <2>2 DEF BatchOf, Held
  <2> QED
    BY <1>4, <2>1, <2>2, <2>3
<1>13. ASSUME NEW w \in Workers, FlushFails(w)  PROVE InHandsInv'
  <2>1. ~ NothingFails
    BY <1>2, <1>13, NoFailures
  <2>2. pc[w] = "flush"
    BY <1>1, <1>2, <1>13, <2>1 DEF NobodyStopsInv, FlushFails, FlushPhases
  <2>3. /\ pc' = [pc EXCEPT ![w] = "read"] /\ pel' = pel /\ UNCHANGED <<batch, buffer, pending>>
        /\ "read" \in Phases
    BY <1>13, <2>2 DEF FlushFails, OnError, Goto, groupVars, deliveryVars, Phases, Running
  <2> QED
    BY <1>3, <1>9, <2>1, <2>2, <2>3
<1>14. ASSUME NEW w \in Workers, AckFlushed(w)  PROVE InHandsInv'
  <2>1. PICK at \in {"read", "stopped"} : pc' = [pc EXCEPT ![w] = at]
    BY <1>14 DEF AckFlushed, Goto, AfterAck
  <2>2. /\ pc[w] # "process" /\ pel' = pel \ pending[w] /\ UNCHANGED <<batch, buffer>>
        /\ pending'[w] = {} /\ \A v \in Workers : v # w => pending'[v] = pending[v]
        /\ at \in Phases
    BY <1>2, <1>14 DEF AckFlushed, Ack, AckPhases, Phases, Running
  <2>3. BatchOf(w) = {} /\ BatchOf(w)' = {} /\ Held(w)' = {} /\ Held(w) = pending[w]
    BY <1>3, <2>2 DEF BatchOf, Held
  <2> QED
    BY <1>4, <2>1, <2>2, <2>3
<1>15. ASSUME NEW w \in Workers, AckFails(w)  PROVE InHandsInv'
  <2>1. ~ NothingFails
    BY <1>2, <1>15, NoFailures
  <2>2. pc[w] = "ack"
    BY <1>1, <1>2, <1>15, <2>1 DEF NobodyStopsInv, AckFails, AckPhases
  <2>3. /\ pc' = [pc EXCEPT ![w] = "read"] /\ pel' \subseteq pel
        /\ UNCHANGED <<batch, buffer, pending>> /\ "read" \in Phases
    BY <1>15, <2>2 DEF AckFails, OnError, Goto, Ack, groupVars, deliveryVars, Phases, Running
  <2>4. BatchOf(w)' = {} /\ Held(w)' = Held(w)
    BY <1>3, <2>2, <2>3 DEF BatchOf, Held
  <2> QED
    BY <1>4, <2>1, <2>3, <2>4
<1>16. ASSUME NEW w \in Workers, LeaveLoop(w)  PROVE InHandsInv'
  <2>1. PICK at \in {"final_flush", "stopped"} :
            pc' = [pc EXCEPT ![w] = at] /\ (at = "stopped" => buffer[w] = {})
    BY <1>16 DEF LeaveLoop, Goto
  <2>2. /\ pc[w] = "read" /\ pel' = pel /\ UNCHANGED <<batch, buffer, pending>>
        /\ at \in Phases
    BY <1>16 DEF LeaveLoop, groupVars, deliveryVars, Phases, Running
  <2>3. BatchOf(w) = {} /\ BatchOf(w)' = {} /\ Held(w)' = Held(w) /\ Held(w) = pending[w]
    BY <1>3, <2>2 DEF BatchOf, Held
  <2>4. NothingFails => pending[w] \subseteq EntriesOf(buffer[w])
    BY <1>3, <2>2 DEF AckPhases
  <2>5. NothingFails /\ at = "stopped" => pending[w] = {}
    BY <2>1, <2>4 DEF EntriesOf
  <2> QED
    BY <1>4, <2>1, <2>2, <2>3, <2>4, <2>5
<1>17. ASSUME NEW w \in Workers, Restart(w)  PROVE InHandsInv'
  <2>1. NothingFails /\ pc[w] = "stopped"
    BY <1>1, <1>2, <1>3, <1>17 DEF NobodyStopsInv, Restart, EnsureGroup
  <2>2. /\ pc' = [pc EXCEPT ![w] = "read"] /\ pel' = pel /\ "read" \in Phases
        /\ batch'[w] = NoBatch /\ pending'[w] = {} /\ buffer'[w] = {}
        /\ \A v \in Workers : v # w =>
               batch'[v] = batch[v] /\ buffer'[v] = buffer[v] /\ pending'[v] = pending[v]
    BY <1>2, <1>17 DEF Restart, EnsureGroup, Forget, Goto, groupVars, deliveryVars, Phases, Running
  <2>3. BatchOf(w)' = 1..0 /\ 1..0 = {}
    BY <2>2 DEF BatchOf, NoBatch
  <2>4. Held(w) = {}
    BY <1>3, <2>1
  <2> QED
    BY <1>4, <2>2, <2>3, <2>4
<1>18. ASSUME NEW w \in Workers, DiscardFails(w) \/ ReadReplyLost(w) \/ Crash(w)
       PROVE  FALSE
  <2>1. ~ NothingFails
    BY <1>2, <1>18, NoFailures
  <2>2. malformed = {} /\ faults \subseteq FlushFailures \cup {"evict"}
    BY <1>1, <1>2, <2>1 DEF NobodyStopsInv, NobodyDies
  <2> QED
    BY <1>18, <2>2 DEF DiscardFails, ReadReplyLost, Crash, FlushFailures
<1>19. ASSUME NEW w \in Workers, IntervalElapses(w) \/ SignalShutdown(w)
       PROVE  UNCHANGED <<deliveryVars, pc, batch, buffer, pending>>
  BY <1>19 DEF groupVars, IntervalElapses, SignalShutdown
<1>20. CASE UNCHANGED dataVars /\ UNCHANGED faults
  BY <1>5, <1>20 DEF groupVars, dataVars, workerVars
<1>21. CASE (Evict \/ IngestionStarts \/ \E bad \in BOOLEAN : Ingest(bad)) /\ UNCHANGED faults
  BY <1>5, <1>21
  DEF Ingest, Evict, IngestionStarts, EvictStream, EnsureGroup, groupVars, workerVars
<1> QED
  BY <1>5, <1>6, <1>7, <1>8, <1>10, <1>11, <1>12, <1>13, <1>14, <1>15, <1>16, <1>17, <1>18,
     <1>19, <1>20, <1>21 DEF Next, Step, WorkerStep, WorkerFailure, ReadRefused, vars

(***************************************************************************)
(* As long as two batches fit into one INSERT, as 199 rows do at the       *)
(* default batch_size of 100: neither a failing PostgreSQL nor a failing   *)
(* XACK orphans a delivered reading, and workers that are told to stop     *)
(* store and acknowledge all that was delivered.                           *)
(***************************************************************************)
THEOREM NothingStaysBehind ==
    ASSUME 2 * BatchSize - 1 <= MaxInsertRows
    PROVE  Spec => []NothingIsLeftBehind
<1> DEFINE Inv == IInv /\ LeftBehindInv
<1>1. Init => Inv
  BY InitEstablishesIInv, LeftBehindInvInit
<1>2. Inv /\ [Next]_vars => Inv'
  <2> SUFFICES ASSUME IInv, LeftBehindInv, [Next]_vars  PROVE IInv' /\ LeftBehindInv'
    OBVIOUS
  <2>1. IInv'
    BY TypeOKPreserved, FlushedInvPreserved, HoldingsInvPreserved DEF IInv
  <2>2. NobodyStopsInv'
    BY NobodyStopsInvPreserved DEF IInv, LeftBehindInv, NobodyStopsInv
  <2>3. IdsInv' /\ FitsInv'
    BY IdsInvPreserved, FitsInvPreserved DEF IInv, LeftBehindInv
  <2>4. DeliveredIsKept' /\ InHandsInv'
    BY DeliveredIsKeptPreserved, InHandsInvPreserved DEF LeftBehindInv
  <2> QED
    BY <2>1, <2>2, <2>3, <2>4 DEF LeftBehindInv
<1>3. Inv => NothingIsLeftBehind
  <2> SUFFICES ASSUME IInv, LeftBehindInv  PROVE NoOrphans /\ CleanStop
    BY DEF NothingIsLeftBehind
  <2>1. NoOrphans
    BY DEF NoOrphans, LeftBehindInv, InHandsInv, NobodyDies
  <2>2. ASSUME NothingFails, \A w \in Workers : pc[w] = "stopped"
        PROVE  pel = {} /\ (trimmed+1 .. lastDelivered) \ malformed \subseteq StoredEntries
    <3>1. pel = {}
      BY <2>2 DEF LeftBehindInv, InHandsInv
    <3> QED
      BY <3>1 DEF LeftBehindInv, DeliveredIsKept, IInv, HoldingsInv, AckedIsStored
  <2> QED
    BY <2>1, <2>2 DEF CleanStop, NothingFails
<1> QED
  BY <1>1, <1>2, <1>3, PTL DEF Spec

=============================================================================
