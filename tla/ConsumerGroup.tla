--------------------------- MODULE ConsumerGroup ---------------------------
(***************************************************************************)
(* A consumer group of the raw_telemetry stream, as its members use it     *)
(* through RedisClient: XREADGROUP with the ID ">" and XACK.  No member    *)
(* ever asks for pending entries again (XREADGROUP with another ID,        *)
(* XCLAIM), so a delivered entry is delivered once.                        *)
(***************************************************************************)
EXTENDS RedisStream

CONSTANT BatchSize   \* settings.batch_size, given to XREADGROUP as COUNT

ASSUME GroupAssumption == BatchSize \in Nat \ {0}

VARIABLES
    group,          \* the group exists
    lastDelivered,  \* the group's last-delivered-id
    pel,            \* the group's pending entries list: delivered, not acked
    acked           \* entries acknowledged so far (what left the PEL)

deliveryVars == <<lastDelivered, pel, acked>>
groupVars == <<group, deliveryVars>>

GroupTypeOK ==
    /\ group \in BOOLEAN
    /\ lastDelivered \in 0..added
    /\ pel \subseteq EntryIds
    /\ acked \subseteq EntryIds

\* The ingestion service creates the group before it adds any entry.
GroupInit ==
    /\ group = TRUE
    /\ lastDelivered = 0
    /\ pel = {}
    /\ acked = {}

(***************************************************************************)
(* XREADGROUP ">".  Redis moves the entries into the PEL as it delivers    *)
(* them, whether or not the reply arrives.                                 *)
(***************************************************************************)
\* Fault: NOACK, entries count as acknowledged when they are delivered.
Deliver_noack ==
    LET new == FirstUnread(lastDelivered)..LastOfBatch(lastDelivered, BatchSize)
    IN  /\ group /\ HasUnread(lastDelivered)
        /\ lastDelivered' = LastOfBatch(lastDelivered, BatchSize)
        /\ acked' = acked \cup new
        /\ UNCHANGED <<group, pel>>

\* Fault: the group's cursor does not move, as if each replica read by itself.
Deliver_noCursor ==
    LET new == FirstUnread(lastDelivered)..LastOfBatch(lastDelivered, BatchSize)
    IN  /\ group /\ HasUnread(lastDelivered)
        /\ pel' = pel \cup new
        /\ UNCHANGED <<group, lastDelivered, acked>>

Deliver ==
    LET new == FirstUnread(lastDelivered)..LastOfBatch(lastDelivered, BatchSize)
    IN  /\ group /\ HasUnread(lastDelivered)
        /\ lastDelivered' = LastOfBatch(lastDelivered, BatchSize)
        /\ pel' = pel \cup new
        /\ UNCHANGED <<group, acked>>

\* XREADGROUP returns an empty list after its block time.
NothingToDeliver == group /\ ~HasUnread(lastDelivered)

\* XACK, as the server performs it.
Ack(ids) ==
    /\ pel' = pel \ ids
    /\ acked' = acked \cup ids
    /\ UNCHANGED <<group, lastDelivered>>

(***************************************************************************)
(* Redis evicts the stream, and its groups with it.  The list of pending   *)
(* entries goes too, but no member ever asks for it and XACK does not      *)
(* complain, so pel and acked keep count of what was delivered.            *)
(***************************************************************************)
EvictStream ==
    /\ StreamEvict
    /\ group' = FALSE
    /\ UNCHANGED deliveryVars

(***************************************************************************)
(* ensure_consumer_group leaves a group that exists alone and creates a    *)
(* missing one at ID 0, before all that the stream still holds: nothing    *)
(* that was delivered is among it, so the cursor may stay where it was.    *)
(***************************************************************************)
EnsureGroup ==
    /\ group' = TRUE
    /\ UNCHANGED deliveryVars

=============================================================================
