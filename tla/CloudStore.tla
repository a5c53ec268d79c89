------------------------------ MODULE CloudStore ------------------------------
(***************************************************************************)
(* cloud-api over its database: gateways store telemetry in batches or as  *)
(* a stream of messages, a client pages through what is stored while more  *)
(* arrives, and models are registered, deleted and asked for by name.      *)
(***************************************************************************)
EXTENDS Integers, FiniteSetsExt, Sequences

CONSTANTS
    Readings,     \* the readings gateways send
    Timestamp,    \* when each one was taken
    Batches,      \* sequences of sets of readings: the messages of each sender
    Limit,        \* page size of the client
    MaxModels,    \* bound of the model: registrations of the one model name
    CloudScenarios

\* "ties": some readings carry the same time; "reply_lost": an answer does
\* not reach the sender, which sends again; "breaks": a call raises or the
\* service stops in the middle of it.
CloudDisruptions == {"ties", "reply_lost", "breaks"}

Senders == DOMAIN Batches
Sent(s) == UNION {Batches[s][m] : m \in DOMAIN Batches[s]}

\* A reading has one sender; that some have equal times is left to "ties".
ASSUME CloudAssumption ==
    /\ Limit \in Nat \ {0}
    /\ Timestamp \in [Readings -> Nat]
    /\ \A r, q \in Readings : Timestamp[r] = Timestamp[q] => r = q
    /\ Batches \in Seq(Seq(SUBSET Readings))
    /\ \A s \in Senders : IsFiniteSet(Sent(s))
    /\ \A s, t \in Senders : s # t => Sent(s) \cap Sent(t) = {}
    /\ CloudScenarios \subseteq SUBSET CloudDisruptions

VARIABLES
    rows,       \* rows of telemetry_readings: a reading and which copy
    sender,     \* per sender: messages committed in this call, tries so far
    accepted,   \* senders that have been told how many readings were stored
    reader,     \* the client: where it is, its offset, what it has seen
    models,     \* registrations: made in which order, active or deleted
    answered,   \* registrations whose caller has the answer
    cloudFaults

cloudVars == <<rows, sender, accepted, reader, models, answered, cloudFaults>>
telemetryVars == <<rows, sender, accepted>>
registryVars  == <<models, answered>>

MaxTries == 2    \* bound of the model: a sender gives up after this many calls
NotReading == [at |-> "idle", offset |-> 0, existing |-> {}, seen |-> {}]

CloudInit ==
    /\ rows = {}
    /\ sender = [s \in Senders |-> [done |-> 0, tries |-> 1]]
    /\ accepted = {}
    /\ reader = NotReading
    /\ models = <<>>
    /\ answered = {}
    /\ cloudFaults \in CloudScenarios

Time(row) == IF "ties" \in cloudFaults THEN 0 ELSE Timestamp[row.reading]
Stored    == {row.reading : row \in rows}
NewRows(readings, try) == {[reading |-> r, copy |-> try] : r \in readings}

(***************************************************************************)
(* Telemetry in.  A sender with one message is POST /telemetry/batch or    *)
(* SendTelemetry, one with several is StreamTelemetry, which commits each  *)
(* message as it arrives.  A row gets a fresh id on every try.             *)
(***************************************************************************)
AllSent(s) == sender[s].done = Len(Batches[s])

StoreBatch(s) ==
    /\ ~ AllSent(s)
    /\ rows' = rows \cup NewRows(Batches[s][sender[s].done + 1], sender[s].tries)
    /\ sender' = [sender EXCEPT ![s].done = @ + 1]
    /\ UNCHANGED <<accepted, reader, registryVars, cloudFaults>>

AnswerSender(s) ==
    /\ s \notin accepted
    /\ AllSent(s)
    /\ accepted' = accepted \cup {s}
    /\ UNCHANGED <<rows, sender, reader, registryVars, cloudFaults>>

\* Without an answer the sender knows nothing of what was stored: it sends all
\* of it again.
SendAgain(s) ==
    /\ s \notin accepted
    /\ IF AllSent(s) THEN "reply_lost" \in cloudFaults ELSE "breaks" \in cloudFaults
    /\ sender[s].tries < MaxTries
    /\ sender' = [sender EXCEPT ![s] = [done |-> 0, tries |-> @.tries + 1]]
    /\ UNCHANGED <<rows, accepted, reader, registryVars, cloudFaults>>

(***************************************************************************)
(* Telemetry out.  GET /telemetry/query counts in one statement and reads  *)
(* the page, newest first, in a second one.  The client asks for the next  *)
(* page until one is not full.                                             *)
(***************************************************************************)
CountRows ==
    /\ reader.at \in {"idle", "next"}
    /\ reader' = [reader EXCEPT
           !.at = "page", !.existing = IF reader.at = "idle" THEN rows ELSE @]
    /\ UNCHANGED <<telemetryVars, registryVars, cloudFaults>>

\* Fault: a page takes any rows that are left, in no order.
Newest_anyOrder(chosen) == TRUE

\* ORDER BY time DESC: rows of one time come in any order.
Newest(chosen) == \A c \in chosen, r \in rows \ chosen : Time(c) >= Time(r)
Some(set, n)   == kSubset(Min({n, Cardinality(set)}), set)

ReadPage ==
    /\ reader.at = "page"
    /\ \E before \in Some(rows, reader.offset) :
          /\ Newest(before)
          /\ \E page \in Some(rows \ before, Limit) :
                /\ Newest(before \cup page)
                /\ reader' = [reader EXCEPT
                       !.at = IF Cardinality(page) = Limit THEN "next" ELSE "end",
                       !.offset = @ + Limit,
                       !.seen = @ \cup page]
    /\ UNCHANGED <<telemetryVars, registryVars, cloudFaults>>

(***************************************************************************)
(* The model registry.  created_at is the time of the transaction, so a    *)
(* registration has its place in the order before its commit.              *)
(***************************************************************************)
Places == DOMAIN models
Active == {i \in Places : models[i].state = "active"}

BeginRegistration ==
    /\ Len(models) < MaxModels
    /\ models' = Append(models, [state |-> "open", after |-> answered])
    /\ UNCHANGED <<telemetryVars, reader, answered, cloudFaults>>

\* The commit, or an error that leaves no row.
EndRegistration(i) ==
    /\ models[i].state = "open"
    /\ \/ /\ models' = [models EXCEPT ![i].state = "active"]
          /\ answered' = answered \cup {i}
       \/ /\ "breaks" \in cloudFaults
          /\ models' = [models EXCEPT ![i].state = "failed"]
          /\ UNCHANGED answered
    /\ UNCHANGED <<telemetryVars, reader, cloudFaults>>

\* Deleting again is answered 200 again.
DeleteModel(i) ==
    /\ models[i].state \in {"active", "deleted"}
    /\ models' = [models EXCEPT ![i].state = "deleted"]
    /\ UNCHANGED <<telemetryVars, reader, answered, cloudFaults>>

\* GET /models/latest/{name}: the last created of the active ones, if any.
LatestModels == {i \in Active : \A j \in Active : j <= i}

TelemetryNext ==
    \/ \E s \in Senders : StoreBatch(s) \/ AnswerSender(s) \/ SendAgain(s)
    \/ CountRows
    \/ ReadPage

RegistryNext ==
    \/ BeginRegistration
    \/ \E i \in Places : EndRegistration(i) \/ DeleteModel(i)

CloudNext == TelemetryNext \/ RegistryNext

CloudSpec == CloudInit /\ [][CloudNext]_cloudVars

-----------------------------------------------------------------------------
(***************************************************************************)
(* What it must do.                                                        *)
(***************************************************************************)

\* What a sender has been told was accepted is stored, all of it; and once
\* each unless it had to send again.
AcceptedReadingsAreStored ==
    \A s \in accepted :
        /\ Sent(s) \subseteq Stored
        /\ sender[s].tries = 1 => NewRows(Sent(s), 2) \cap rows = {}

\* A client that pages to the end has seen every reading that was stored when
\* it began, however many arrive meanwhile and wherever they sort, unless
\* readings share a time.
PagingMissesNothing ==
    reader.at = "end" /\ "ties" \notin cloudFaults =>
        \A row \in reader.existing : \E other \in reader.seen : other.reading = row.reading

\* The model served as latest is one that no active model was registered
\* after: requested by someone who already had the answer for it.
LatestIsNotSuperseded ==
    \A i \in LatestModels, j \in Active : i \notin models[j].after

\* The three answers of cloud-api that others rely on.
CloudAnswersAreTrue ==
    AcceptedReadingsAreStored /\ PagingMissesNothing /\ LatestIsNotSuperseded

=============================================================================
