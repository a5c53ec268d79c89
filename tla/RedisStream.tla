---------------------------- MODULE RedisStream ----------------------------
(***************************************************************************)
(* The raw_telemetry Redis stream and what its consumer groups rely on.    *)
(* The gateway's wrapper is shared/database/redis_client.py; the server    *)
(* behind it is external, and is modelled by what that wrapper asks of it. *)
(*                                                                         *)
(* Redis hands out increasing entry IDs, so an entry is its rank: 1, 2,    *)
(* ...  Trimming (XADD ... MAXLEN ~) removes the oldest entries and the    *)
(* eviction of the key all of them: the stream is trimmed+1 .. added.      *)
(***************************************************************************)
EXTENDS Integers

CONSTANTS
    MaxEntries,    \* bound of the model: how many entries are ever added
    StreamMaxLen   \* settings.stream_max_len, given to XADD as MAXLEN ~

ASSUME StreamAssumption ==
    /\ MaxEntries \in Nat
    /\ StreamMaxLen \in Nat \ {0}

VARIABLES
    added,        \* rank of the last entry added
    trimmed,      \* entries 1..trimmed have been trimmed or evicted
    malformed     \* entries that TelemetryReading.from_stream_dict rejects

streamVars == <<added, trimmed, malformed>>

EntryIds == 1..MaxEntries

StreamTypeOK ==
    /\ added \in 0..MaxEntries
    /\ trimmed \in 0..added
    /\ malformed \subseteq 1..added

StreamInit ==
    /\ added = 0
    /\ trimmed = 0
    /\ malformed = {}

(***************************************************************************)
(* stream_add.  "approximate" lets Redis keep more than StreamMaxLen       *)
(* entries, never fewer: any trimming point up to the exact one is         *)
(* possible.  bad says that the entry will not parse; such entries come    *)
(* from producers other than the ingestion service.                        *)
(***************************************************************************)
StreamAdd(bad) ==
    /\ added < MaxEntries
    /\ added' = added + 1
    /\ malformed' = IF bad THEN malformed \cup {added + 1} ELSE malformed
    /\ \E t \in trimmed..added :
          /\ t = trimmed \/ added + 1 - t >= StreamMaxLen
          /\ trimmed' = t

\* Out of memory: maxmemory-policy allkeys-lru takes any key.
StreamEvict ==
    /\ trimmed' = added
    /\ UNCHANGED <<added, malformed>>

(***************************************************************************)
(* What XREADGROUP ">" returns to a group whose last delivered entry is    *)
(* last: at most count entries, the oldest still in the stream after it.   *)
(***************************************************************************)
FirstUnread(last) == IF last < trimmed THEN trimmed + 1 ELSE last + 1

\* Fault: COUNT taken without looking at the end of the stream.
LastOfBatch_unbounded(last, count) == FirstUnread(last) + count - 1

LastOfBatch(last, count) ==
    IF FirstUnread(last) + count - 1 < added
    THEN FirstUnread(last) + count - 1
    ELSE added

HasUnread(last) == FirstUnread(last) <= added

=============================================================================
