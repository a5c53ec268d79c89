--------------------------- MODULE Inference_proofs ---------------------------
(***************************************************************************)
(* Proofs about ml-inference, for any number of replicas, entries,         *)
(* versions, requests and devices and any mix of failures and crashes: the *)
(* alerts of the stream consumers, the model that is in use, and the       *)
(* deviations that tell a fault from a normal reading.                     *)
(***************************************************************************)
EXTENDS AnomalyDetector, ModelSwap, Features, FiniteSetTheorems, SequenceTheorems,
        WellFoundedInduction, TLAPS

(***************************************************************************)
(* The inductive invariant.  What the group has not delivered yet, nobody  *)
(* has acknowledged, flagged or alerted.                                   *)
(***************************************************************************)
FreshInv ==
    /\ acked \subseteq 1..lastDelivered
    /\ flagged \subseteq 1..lastDelivered
    /\ Alerted \subseteq 1..lastDelivered

\* No two replicas have an entry in hand at the same time.
BatchInv ==
    /\ \A d \in Detectors : EntriesIn(d) \subseteq 1..lastDelivered
    /\ \A d, other \in Detectors :
          d # other => EntriesIn(d) \cap EntriesIn(other) = {}

\* Nobody has dealt with a batch before it is scored.
ScoreInv ==
    \A d \in Detectors : pc[d] = "score" =>
        EntriesIn(d) \cap (acked \cup flagged \cup Alerted) = {}

\* A pipeline under way has acknowledged nothing, and its XADDs are those that
\* are still wanting, unless Redis has refused one.
PublishInv ==
    \A d \in Detectors :
        IF pc[d] = "publish"
        THEN /\ EntriesIn(d) \cap acked = {}
             /\ queued[d] \cap Alerted = {}
             /\ "xadd_refused" \notin detectFaults =>
                    EntriesIn(d) \cap flagged \subseteq Alerted \cup queued[d]
        ELSE queued[d] = {}

DetectInv ==
    /\ DetectTypeOK
    /\ FreshInv /\ BatchInv /\ ScoreInv /\ PublishInv
    /\ AlertsAreExact

-----------------------------------------------------------------------------
LEMMA InitEstablishesDetectInv == DetectInit => DetectInv
<1> SUFFICES ASSUME DetectInit PROVE DetectInv
  OBVIOUS
<1>1. DetectTypeOK
  BY StreamAssumption
  DEF DetectInit, StreamInit, GroupInit, DetectTypeOK, StreamTypeOK,
      GroupTypeOK, NoBatch, Phases
<1>2. Alerted = {} /\ \A d \in Detectors : EntriesIn(d) = {}
  BY DEF DetectInit, Alerted, EntriesIn, NoBatch
<1>3. FreshInv /\ BatchInv /\ ScoreInv /\ PublishInv
  BY <1>2 DEF DetectInit, GroupInit, FreshInv, BatchInv, ScoreInv, PublishInv
<1>4. AlertsAreExact
  BY DEF DetectInit, GroupInit, AlertsAreExact, AckedIsAlerted, AlertedOnce
<1> QED
  BY <1>1, <1>3, <1>4 DEF DetectInv

(***************************************************************************)
(* A delivery brings entries beyond the group's cursor only, and leaves    *)
(* what was acknowledged.                                                  *)
(***************************************************************************)
LEMMA DeliveriesAreNew ==
    ASSUME DetectTypeOK, Deliver
    PROVE  LET first == FirstUnread(lastDelivered)
               final == LastOfBatch(lastDelivered, BatchSize)
           IN  /\ first \in Nat \ {0} /\ final \in 0..MaxEntries
               /\ first > lastDelivered /\ final <= added
               /\ lastDelivered' = final /\ final >= lastDelivered
               /\ pel' \subseteq EntryIds /\ acked' = acked /\ group' \in BOOLEAN
BY StreamAssumption, GroupAssumption
DEF DetectTypeOK, StreamTypeOK, GroupTypeOK, Deliver, FirstUnread, LastOfBatch,
    HasUnread, EntryIds

\* What is dropped can break nothing: the entries just stay pending.
LEMMA DroppingIsHarmless ==
    ASSUME DetectInv, NEW d \in Detectors, DropBatch(d),
           NEW phase \in {"read", "down"}, Goto(d, phase), detectFaults' = detectFaults,
           UNCHANGED <<streamVars, groupVars, flagged, alerts>>,
           loaded' \in [Detectors -> BOOLEAN]
    PROVE  DetectInv'
<1> USE DEF DetectInv, streamVars, groupVars, deliveryVars
<1>1. /\ Alerted' = Alerted
      /\ EntriesIn(d)' = {} /\ queued'[d] = {} /\ pc'[d] \in {"read", "down"}
      /\ \A other \in Detectors \ {d} :
            /\ EntriesIn(other)' = EntriesIn(other)
            /\ queued'[other] = queued[other] /\ pc'[other] = pc[other]
  BY DEF DropBatch, Goto, DetectTypeOK, Alerted, EntriesIn, NoBatch
<1>2. DetectTypeOK'
  <2>1. /\ pc' \in [Detectors -> Phases]
        /\ batch' \in [Detectors -> [first : Nat \ {0}, last : 0..MaxEntries]]
        /\ queued' \in [Detectors -> SUBSET EntryIds]
    BY StreamAssumption DEF DropBatch, Goto, DetectTypeOK, NoBatch, Phases
  <2>2. \A e \in Detectors : queued'[e] \subseteq ReadingsIn(e)' \cap flagged'
    BY <1>1 DEF DetectTypeOK, ReadingsIn
  <2> QED
    BY <2>1, <2>2 DEF DetectTypeOK, StreamTypeOK, GroupTypeOK
<1>3. FreshInv' /\ BatchInv'
  BY <1>1 DEF FreshInv, BatchInv
<1>4. ScoreInv' /\ PublishInv'
  BY <1>1 DEF ScoreInv, PublishInv
<1>5. AlertsAreExact'
  BY <1>1 DEF AlertsAreExact, AckedIsAlerted, AlertedOnce
<1> QED
  BY <1>2, <1>3, <1>4, <1>5

-----------------------------------------------------------------------------
(***************************************************************************)
(* One lemma per action that touches the group, the pipeline or an alert.  *)
(***************************************************************************)
LEMMA IngestPreservesDetectInv ==
    ASSUME DetectInv, NEW bad \in BOOLEAN, Ingest(bad), detectFaults' = detectFaults
    PROVE  DetectInv'
<1> USE DEF DetectInv, Ingest, groupVars, deliveryVars, detectorVars
<1>1. /\ added' = added + 1 /\ added' \in 0..MaxEntries
      /\ malformed' \subseteq malformed \cup {added + 1}
      /\ malformed \subseteq malformed' /\ trimmed' \in trimmed..added
  BY StreamAssumption DEF StreamAdd, DetectTypeOK, StreamTypeOK
<1>2. Alerted' = Alerted /\ \A d \in Detectors : EntriesIn(d)' = EntriesIn(d)
  BY DEF Alerted, EntriesIn
<1>3. DetectTypeOK'
  <2>1. StreamTypeOK' /\ GroupTypeOK'
    BY <1>1 DEF DetectTypeOK, StreamTypeOK, GroupTypeOK, EntryIds
  <2>2. \A d \in Detectors : ReadingsIn(d)' = ReadingsIn(d)
    <3> SUFFICES ASSUME NEW d \in Detectors PROVE ReadingsIn(d)' = ReadingsIn(d)
      OBVIOUS
    <3>1. added + 1 \notin EntriesIn(d)
      BY DEF BatchInv, DetectTypeOK, GroupTypeOK, StreamTypeOK
    <3> QED
      BY <3>1, <1>1, <1>2 DEF ReadingsIn
  <2> QED
    BY <2>1, <2>2 DEF DetectTypeOK
<1>4. FreshInv' /\ BatchInv' /\ ScoreInv' /\ PublishInv'
  BY <1>2 DEF FreshInv, BatchInv, ScoreInv, PublishInv
<1>5. AlertsAreExact'
  BY <1>2 DEF AlertsAreExact, AckedIsAlerted, AlertedOnce
<1> QED
  BY <1>3, <1>4, <1>5

\* The new batch is disjoint from every other one and untouched so far.
LEMMA ReadPreservesDetectInv ==
    ASSUME DetectInv, NEW d \in Detectors, ReadBatch(d), detectFaults' = detectFaults
    PROVE  DetectInv'
<1> USE DEF DetectInv
<1> DEFINE first == FirstUnread(lastDelivered)
           final == LastOfBatch(lastDelivered, BatchSize)
<1>1. /\ first \in Nat \ {0} /\ final \in 0..MaxEntries
      /\ first > lastDelivered /\ final <= added
      /\ lastDelivered' = final /\ final >= lastDelivered
      /\ pel' \subseteq EntryIds /\ acked' = acked /\ group' \in BOOLEAN
  BY DeliveriesAreNew DEF ReadBatch
<1>2. lastDelivered \in Nat
  BY DEF DetectTypeOK, GroupTypeOK, StreamTypeOK
<1> HIDE DEF first, final
<1>3. /\ batch' = [batch EXCEPT ![d] = [first |-> first, last |-> final]]
      /\ pc[d] = "read" /\ pc' = [pc EXCEPT ![d] = "score"]
      /\ UNCHANGED <<added, trimmed, malformed, loaded, queued, flagged, alerts>>
  BY DEF ReadBatch, Goto, streamVars, first, final
<1>4. /\ Alerted' = Alerted
      /\ EntriesIn(d)' = first..final /\ pc'[d] = "score"
      /\ \A other \in Detectors \ {d} :
            EntriesIn(other)' = EntriesIn(other) /\ pc'[other] = pc[other]
  BY <1>3 DEF DetectTypeOK, Alerted, EntriesIn
<1>5. queued[d] = {}
  BY <1>3 DEF PublishInv
<1>6. DetectTypeOK'
  <2>1. StreamTypeOK' /\ GroupTypeOK'
    BY <1>1, <1>2, <1>3 DEF DetectTypeOK, StreamTypeOK, GroupTypeOK, EntryIds
  <2>2. batch' \in [Detectors -> [first : Nat \ {0}, last : 0..MaxEntries]]
    BY <1>1, <1>3 DEF DetectTypeOK
  <2>3. pc' \in [Detectors -> Phases]
    BY <1>3 DEF DetectTypeOK, Phases
  <2>4. \A e \in Detectors : queued'[e] \subseteq ReadingsIn(e)' \cap flagged'
    BY <1>3, <1>4, <1>5 DEF DetectTypeOK, ReadingsIn
  <2> QED
    BY <2>1, <2>2, <2>3, <2>4, <1>3 DEF DetectTypeOK
<1>7. FreshInv'
  BY <1>1, <1>2, <1>3, <1>4 DEF FreshInv
<1>8. BatchInv'
  <2>1. \A e \in Detectors : EntriesIn(e)' \subseteq 1..lastDelivered'
    BY <1>1, <1>2, <1>4 DEF BatchInv
  <2>2. \A e \in Detectors \ {d} : EntriesIn(e) \cap (first..final) = {}
    BY <1>1, <1>2 DEF BatchInv
  <2>3. ASSUME NEW e \in Detectors, NEW other \in Detectors, e # other
        PROVE  EntriesIn(e)' \cap EntriesIn(other)' = {}
    <3>1. CASE e = d
      BY <3>1, <2>2, <2>3, <1>4
    <3>2. CASE other = d
      BY <3>2, <2>2, <2>3, <1>4
    <3>3. CASE e # d /\ other # d
      BY <3>3, <2>3, <1>4 DEF BatchInv
    <3> QED
      BY <3>1, <3>2, <3>3
  <2> QED
    BY <2>1, <2>3 DEF BatchInv
<1>9. ScoreInv'
  <2>1. (first..final) \cap (acked \cup flagged \cup Alerted) = {}
    BY <1>1, <1>2 DEF FreshInv
  <2> QED
    BY <2>1, <1>1, <1>3, <1>4 DEF ScoreInv
<1>10. PublishInv'
  BY <1>1, <1>3, <1>4, <1>5 DEF PublishInv
<1>11. AlertsAreExact'
  BY <1>1, <1>3, <1>4 DEF AlertsAreExact, AckedIsAlerted, AlertedOnce
<1> QED
  BY <1>6, <1>7, <1>8, <1>9, <1>10, <1>11

\* A delivery whose reply is lost only moves the cursor on.
LEMMA LostReadPreservesDetectInv ==
    ASSUME DetectInv, NEW d \in Detectors, ReadReplyLost(d), detectFaults' = detectFaults
    PROVE  DetectInv'
<1> USE DEF DetectInv
<1>1. /\ lastDelivered' \in lastDelivered..added
      /\ pel' \subseteq EntryIds /\ acked' = acked /\ group' \in BOOLEAN
  BY DeliveriesAreNew DEF ReadReplyLost, DetectTypeOK, GroupTypeOK, StreamTypeOK
<1>2. lastDelivered \in Nat
  BY DEF DetectTypeOK, GroupTypeOK, StreamTypeOK
<1>3. UNCHANGED <<added, trimmed, malformed, pc, loaded, batch, queued, flagged, alerts>>
  BY DEF ReadReplyLost, streamVars, detectorVars
<1>4. Alerted' = Alerted /\ \A e \in Detectors : EntriesIn(e)' = EntriesIn(e)
  BY <1>3 DEF Alerted, EntriesIn
<1>5. DetectTypeOK'
  BY <1>1, <1>2, <1>3, <1>4
  DEF DetectTypeOK, StreamTypeOK, GroupTypeOK, EntryIds, ReadingsIn
<1>6. FreshInv' /\ BatchInv'
  BY <1>1, <1>2, <1>3, <1>4 DEF FreshInv, BatchInv
<1>7. ScoreInv' /\ PublishInv'
  BY <1>1, <1>3, <1>4 DEF ScoreInv, PublishInv
<1>8. AlertsAreExact'
  BY <1>1, <1>3, <1>4 DEF AlertsAreExact, AckedIsAlerted, AlertedOnce
<1> QED
  BY <1>5, <1>6, <1>7, <1>8

(***************************************************************************)
(* Scoring: what is flagged was untouched, and all of it is queued.        *)
(***************************************************************************)
LEMMA ScorePreservesDetectInv ==
    ASSUME DetectInv, NEW d \in Detectors, ScoreBatch(d), detectFaults' = detectFaults
    PROVE  DetectInv'
<1> USE DEF DetectInv
<1>1. PICK hot \in SUBSET ReadingsIn(d) :
          queued' = [queued EXCEPT ![d] = hot] /\ flagged' = flagged \cup hot
  BY DEF ScoreBatch
<1>2. /\ pc[d] = "score" /\ pc' = [pc EXCEPT ![d] = "publish"]
      /\ UNCHANGED <<added, trimmed, malformed, group, lastDelivered, pel, acked>>
      /\ UNCHANGED <<loaded, batch, alerts>>
  BY DEF ScoreBatch, Goto, streamVars, groupVars, deliveryVars
<1>3. /\ Alerted' = Alerted
      /\ \A e \in Detectors : EntriesIn(e)' = EntriesIn(e) /\ ReadingsIn(e)' = ReadingsIn(e)
      /\ queued'[d] = hot /\ pc'[d] = "publish"
      /\ \A other \in Detectors \ {d} :
            queued'[other] = queued[other] /\ pc'[other] = pc[other]
  BY <1>1, <1>2 DEF DetectTypeOK, Alerted, EntriesIn, ReadingsIn
<1>4. hot \subseteq EntriesIn(d) /\ EntriesIn(d) \subseteq 1..lastDelivered
  BY DEF ReadingsIn, BatchInv
<1>5. 1..lastDelivered \subseteq EntryIds
  BY StreamAssumption DEF DetectTypeOK, GroupTypeOK, StreamTypeOK, EntryIds
<1>6. EntriesIn(d) \cap (acked \cup flagged \cup Alerted) = {}
  BY <1>2 DEF ScoreInv
<1>7. \A other \in Detectors \ {d} : EntriesIn(other) \cap hot = {}
  BY <1>4 DEF BatchInv
<1>8. DetectTypeOK'
  BY <1>1, <1>2, <1>3, <1>4, <1>5
  DEF DetectTypeOK, StreamTypeOK, GroupTypeOK, Phases
<1>9. FreshInv' /\ BatchInv'
  BY <1>1, <1>2, <1>3, <1>4 DEF FreshInv, BatchInv
<1>10. ScoreInv'
  BY <1>1, <1>2, <1>3, <1>7 DEF ScoreInv
<1>11. PublishInv'
  <2> SUFFICES ASSUME NEW e \in Detectors
               PROVE  IF pc'[e] = "publish"
                      THEN /\ EntriesIn(e)' \cap acked' = {}
                           /\ queued'[e] \cap Alerted' = {}
                           /\ "xadd_refused" \notin detectFaults' =>
                               EntriesIn(e)' \cap flagged' \subseteq Alerted' \cup queued'[e]
                      ELSE queued'[e] = {}
    BY DEF PublishInv
  <2>1. CASE e = d
    BY <2>1, <1>1, <1>2, <1>3, <1>4, <1>6
  <2>2. CASE e # d
    BY <2>2, <1>1, <1>2, <1>3, <1>7 DEF PublishInv
  <2> QED
    BY <2>1, <2>2
<1>12. AlertsAreExact'
  BY <1>1, <1>2, <1>3, <1>4, <1>6 DEF AlertsAreExact, AckedIsAlerted, AlertedOnce
<1> QED
  BY <1>8, <1>9, <1>10, <1>11, <1>12

\* An alert that goes out was wanting, and nobody else has its reading in hand.
LEMMA AlertPreservesDetectInv ==
    ASSUME DetectInv, NEW d \in Detectors, PublishAlert(d), detectFaults' = detectFaults
    PROVE  DetectInv'
<1> USE DEF DetectInv
<1>1. PICK e \in queued[d] :
          /\ alerts' = [alerts EXCEPT ![e] = @ + 1]
          /\ queued' = [queued EXCEPT ![d] = @ \ {e}]
  BY DEF PublishAlert, NextAlert
<1>2. /\ pc[d] = "publish"
      /\ UNCHANGED <<added, trimmed, malformed, group, lastDelivered, pel, acked>>
      /\ UNCHANGED <<pc, loaded, batch, flagged>>
  BY DEF PublishAlert, streamVars, groupVars, deliveryVars
<1>3. e \in EntriesIn(d) /\ e \in EntryIds /\ alerts[e] = 0
  BY <1>2 DEF DetectTypeOK, ReadingsIn, PublishInv, Alerted
<1>4. /\ alerts' \in [EntryIds -> Nat] /\ alerts'[e] = 1
      /\ \A f \in EntryIds \ {e} : alerts'[f] = alerts[f]
      /\ Alerted' = Alerted \cup {e}
  BY <1>1, <1>3 DEF DetectTypeOK, Alerted
<1>5. /\ \A f \in Detectors : EntriesIn(f)' = EntriesIn(f) /\ ReadingsIn(f)' = ReadingsIn(f)
      /\ queued'[d] = queued[d] \ {e}
      /\ \A other \in Detectors \ {d} :
            queued'[other] = queued[other] /\ e \notin EntriesIn(other)
  BY <1>1, <1>2, <1>3 DEF DetectTypeOK, EntriesIn, ReadingsIn, BatchInv
<1>6. DetectTypeOK'
  BY <1>1, <1>2, <1>4, <1>5 DEF DetectTypeOK, StreamTypeOK, GroupTypeOK
<1>7. FreshInv' /\ BatchInv'
  <2>1. e \in 1..lastDelivered
    BY <1>3 DEF BatchInv
  <2>2. FreshInv'
    BY <2>1, <1>2, <1>4 DEF FreshInv
  <2>3. BatchInv'
    BY <1>2, <1>5 DEF BatchInv
  <2> QED
    BY <2>2, <2>3
<1>8. ScoreInv'
  BY <1>2, <1>4, <1>5 DEF ScoreInv
<1>9. \A other \in Detectors : queued[other] \subseteq EntriesIn(other)
  BY DEF DetectTypeOK, ReadingsIn
<1>10. PublishInv'
  <2> SUFFICES ASSUME NEW f \in Detectors
               PROVE  IF pc'[f] = "publish"
                      THEN /\ EntriesIn(f)' \cap acked' = {}
                           /\ queued'[f] \cap Alerted' = {}
                           /\ "xadd_refused" \notin detectFaults' =>
                               EntriesIn(f)' \cap flagged' \subseteq Alerted' \cup queued'[f]
                      ELSE queued'[f] = {}
    BY DEF PublishInv
  <2>1. CASE f = d
    BY <2>1, <1>2, <1>4, <1>5 DEF PublishInv
  <2>2. CASE f # d
    BY <2>2, <1>2, <1>4, <1>5, <1>9 DEF PublishInv
  <2> QED
    BY <2>1, <2>2
<1>11. AlertsAreExact'
  BY <1>2, <1>4 DEF AlertsAreExact, AckedIsAlerted, AlertedOnce
<1> QED
  BY <1>6, <1>7, <1>8, <1>10, <1>11

LEMMA RefusalPreservesDetectInv ==
    ASSUME DetectInv, NEW d \in Detectors, AlertRefused(d), detectFaults' = detectFaults
    PROVE  DetectInv'
<1> USE DEF DetectInv
<1>1. PICK e \in queued[d] : queued' = [queued EXCEPT ![d] = @ \ {e}]
  BY DEF AlertRefused, NextAlert
<1>2. /\ pc[d] = "publish" /\ "xadd_refused" \in detectFaults
      /\ UNCHANGED <<added, trimmed, malformed, group, lastDelivered, pel, acked>>
      /\ UNCHANGED <<pc, loaded, batch, flagged, alerts>>
  BY DEF AlertRefused, streamVars, groupVars, deliveryVars
<1>3. /\ Alerted' = Alerted
      /\ \A f \in Detectors : EntriesIn(f)' = EntriesIn(f) /\ ReadingsIn(f)' = ReadingsIn(f)
      /\ \A f \in Detectors : queued'[f] \subseteq queued[f]
  BY <1>1, <1>2 DEF DetectTypeOK, Alerted, EntriesIn, ReadingsIn
<1>4. DetectTypeOK'
  BY <1>1, <1>2, <1>3 DEF DetectTypeOK, StreamTypeOK, GroupTypeOK
<1>5. FreshInv' /\ BatchInv' /\ ScoreInv' /\ PublishInv'
  BY <1>2, <1>3 DEF FreshInv, BatchInv, ScoreInv, PublishInv
<1>6. AlertsAreExact'
  BY <1>2, <1>3 DEF AlertsAreExact, AckedIsAlerted, AlertedOnce
<1> QED
  BY <1>4, <1>5, <1>6

\* The XACK comes when nothing is queued: what it covers has its alerts.
LEMMA AckPreservesDetectInv ==
    ASSUME DetectInv, NEW d \in Detectors, AckBatch(d), detectFaults' = detectFaults
    PROVE  DetectInv'
<1> USE DEF DetectInv
<1>1. /\ pc[d] = "publish" /\ queued[d] = {}
      /\ pc' = [pc EXCEPT ![d] = "reply"]
      /\ lastDelivered' = lastDelivered /\ group' = group
      /\ pel' = pel \ EntriesIn(d) /\ acked' = acked \cup EntriesIn(d)
      /\ UNCHANGED <<added, trimmed, malformed, loaded, batch, queued, flagged, alerts>>
  BY DEF AckBatch, Ack, Goto, streamVars
<1>2. /\ Alerted' = Alerted
      /\ \A f \in Detectors : EntriesIn(f)' = EntriesIn(f) /\ ReadingsIn(f)' = ReadingsIn(f)
      /\ pc'[d] = "reply" /\ \A f \in Detectors \ {d} : pc'[f] = pc[f]
  BY <1>1 DEF DetectTypeOK, Alerted, EntriesIn, ReadingsIn
<1>3. EntriesIn(d) \subseteq 1..lastDelivered /\ EntriesIn(d) \subseteq EntryIds
  BY StreamAssumption DEF BatchInv, DetectTypeOK, GroupTypeOK, StreamTypeOK, EntryIds
<1>4. \A f \in Detectors \ {d} : EntriesIn(f) \cap EntriesIn(d) = {}
  BY DEF BatchInv
<1>5. DetectTypeOK'
  BY <1>1, <1>2, <1>3 DEF DetectTypeOK, StreamTypeOK, GroupTypeOK, Phases
<1>6. FreshInv' /\ BatchInv'
  BY <1>1, <1>2, <1>3 DEF FreshInv, BatchInv
<1>7. ScoreInv'
  BY <1>1, <1>2, <1>4 DEF ScoreInv
<1>8. PublishInv'
  BY <1>1, <1>2, <1>4 DEF PublishInv
<1>9. AlertsAreExact'
  BY <1>1, <1>2 DEF AlertsAreExact, AckedIsAlerted, AlertedOnce, PublishInv
<1> QED
  BY <1>5, <1>6, <1>7, <1>8, <1>9

\* A model that is found, or is not, changes no entry's fate.
LEMMA ModelPreservesDetectInv ==
    ASSUME DetectInv, NEW d \in Detectors, ModelArrives(d), detectFaults' = detectFaults
    PROVE  DetectInv'
<1> USE DEF DetectInv
<1>1. loaded' \in [Detectors -> BOOLEAN]
  BY DEF ModelArrives, DetectTypeOK
<1>2. UNCHANGED <<added, trimmed, malformed, group, lastDelivered, pel, acked, pc,
                  batch, queued, flagged, alerts>>
  BY DEF ModelArrives, streamVars, groupVars, deliveryVars
<1>3. Alerted' = Alerted
      /\ \A f \in Detectors : EntriesIn(f)' = EntriesIn(f) /\ ReadingsIn(f)' = ReadingsIn(f)
  BY <1>2 DEF Alerted, EntriesIn, ReadingsIn
<1>4. DetectTypeOK'
  BY <1>1, <1>2, <1>3 DEF DetectTypeOK, StreamTypeOK, GroupTypeOK
<1>5. FreshInv' /\ BatchInv' /\ ScoreInv' /\ PublishInv'
  BY <1>2, <1>3 DEF FreshInv, BatchInv, ScoreInv, PublishInv
<1>6. AlertsAreExact'
  BY <1>2, <1>3 DEF AlertsAreExact, AckedIsAlerted, AlertedOnce
<1> QED
  BY <1>4, <1>5, <1>6

LEMMA StutterPreservesDetectInv ==
    ASSUME DetectInv, UNCHANGED detectVars PROVE DetectInv'
<1> USE DEF DetectInv, detectVars, detectDataVars, streamVars, groupVars, deliveryVars, detectorVars
<1>1. Alerted' = Alerted
      /\ \A f \in Detectors : EntriesIn(f)' = EntriesIn(f) /\ ReadingsIn(f)' = ReadingsIn(f)
  BY DEF Alerted, EntriesIn, ReadingsIn
<1> QED
  BY <1>1 DEF DetectTypeOK, StreamTypeOK, GroupTypeOK, FreshInv, BatchInv, ScoreInv,
              PublishInv, AlertsAreExact, AckedIsAlerted, AlertedOnce

\* After a restart the replica reads on; its former batch is nobody's.
LEMMA RestartPreservesDetectInv ==
    ASSUME DetectInv, NEW d \in Detectors, Restart(d), detectFaults' = detectFaults
    PROVE  DetectInv'
<1> USE DEF DetectInv
<1>1. /\ pc[d] = "down" /\ pc' = [pc EXCEPT ![d] = "read"]
      /\ loaded' \in [Detectors -> BOOLEAN] /\ group' \in BOOLEAN
  BY DEF Restart, EnsureGroup, Goto, DetectTypeOK
<1>2. UNCHANGED <<added, trimmed, malformed, lastDelivered, pel, acked,
                  batch, queued, flagged, alerts>>
  BY DEF Restart, EnsureGroup, streamVars, groupVars, deliveryVars
<1>3. /\ Alerted' = Alerted
      /\ \A f \in Detectors : EntriesIn(f)' = EntriesIn(f) /\ ReadingsIn(f)' = ReadingsIn(f)
      /\ pc'[d] = "read" /\ \A f \in Detectors \ {d} : pc'[f] = pc[f]
  BY <1>1, <1>2 DEF DetectTypeOK, Alerted, EntriesIn, ReadingsIn
<1>4. DetectTypeOK'
  BY <1>1, <1>2, <1>3 DEF DetectTypeOK, StreamTypeOK, GroupTypeOK, Phases
<1>5. FreshInv' /\ BatchInv' /\ ScoreInv' /\ PublishInv'
  BY <1>1, <1>2, <1>3 DEF FreshInv, BatchInv, ScoreInv, PublishInv
<1>6. AlertsAreExact'
  BY <1>2, <1>3 DEF AlertsAreExact, AckedIsAlerted, AlertedOnce
<1> QED
  BY <1>4, <1>5, <1>6

\* No entry is in hand because it is still in the stream, or because there is a
\* group: an eviction, and a group created anew, change nothing here.
LEMMA EvictionPreservesDetectInv ==
    ASSUME DetectInv, Evict \/ IngestionStarts, detectFaults' = detectFaults
    PROVE  DetectInv'
<1> USE DEF DetectInv
<1>1. /\ StreamTypeOK' /\ group' \in BOOLEAN
      /\ UNCHANGED <<added, malformed, lastDelivered, pel, acked, pc, loaded, batch,
                     queued, flagged, alerts>>
  <2>1. CASE Evict
    <3>1. StreamTypeOK'
      BY <2>1 DEF Evict, EvictStream, StreamEvict, DetectTypeOK, StreamTypeOK
    <3>2. /\ group' \in BOOLEAN
          /\ UNCHANGED <<added, malformed, lastDelivered, pel, acked, pc, loaded, batch,
                         queued, flagged, alerts>>
      BY <2>1 DEF Evict, EvictStream, StreamEvict, detectorVars, deliveryVars
    <3> QED
      BY <3>1, <3>2
  <2>2. CASE IngestionStarts
    BY <2>2 DEF IngestionStarts, EnsureGroup, streamVars, detectorVars, deliveryVars,
       DetectTypeOK, StreamTypeOK
  <2> QED
    BY <2>1, <2>2
<1>2. Alerted' = Alerted
      /\ \A f \in Detectors : EntriesIn(f)' = EntriesIn(f) /\ ReadingsIn(f)' = ReadingsIn(f)
  BY <1>1 DEF Alerted, EntriesIn, ReadingsIn
<1>3. DetectTypeOK'
  BY <1>1, <1>2 DEF DetectTypeOK, GroupTypeOK
<1>4. FreshInv' /\ BatchInv' /\ ScoreInv' /\ PublishInv'
  BY <1>1, <1>2 DEF FreshInv, BatchInv, ScoreInv, PublishInv
<1>5. AlertsAreExact'
  BY <1>1, <1>2 DEF AlertsAreExact, AckedIsAlerted, AlertedOnce
<1> QED
  BY <1>3, <1>4, <1>5

-----------------------------------------------------------------------------
LEMMA NextPreservesDetectInv ==
    ASSUME DetectInv, [DetectNext]_detectVars PROVE DetectInv'
<1>1. CASE UNCHANGED detectVars
  BY <1>1, StutterPreservesDetectInv
<1>2. CASE DetectNext
  <2>1. detectFaults' = detectFaults
    BY <1>2 DEF DetectNext
  <2>2. ASSUME NEW bad \in BOOLEAN, Ingest(bad) PROVE DetectInv'
    BY <2>1, <2>2, IngestPreservesDetectInv
  <2>3. ASSUME NEW d \in Detectors, DetectorStep(d) PROVE DetectInv'
    <3>1. CASE ReadBatch(d)
      BY <2>1, <3>1, ReadPreservesDetectInv
    <3>2. CASE ReadNothing(d)
      BY <2>1, <3>2, StutterPreservesDetectInv DEF ReadNothing, detectVars
    <3>3. CASE ScoreBatch(d)
      BY <2>1, <3>3, ScorePreservesDetectInv
    <3>4. CASE ScoreFails(d)
      <4>1. loaded' \in [Detectors -> BOOLEAN]
        BY <3>4 DEF ScoreFails, DetectInv, DetectTypeOK
      <4> QED
        BY <2>1, <3>4, <4>1, DroppingIsHarmless DEF ScoreFails
    <3>5. CASE PublishAlert(d)
      BY <2>1, <3>5, AlertPreservesDetectInv
    <3>6. CASE AckBatch(d)
      BY <2>1, <3>6, AckPreservesDetectInv
    <3>7. CASE PipelineReply(d)
      <4>1. loaded' \in [Detectors -> BOOLEAN]
        BY <3>7 DEF PipelineReply, DetectInv, DetectTypeOK
      <4> QED
        BY <2>1, <3>7, <4>1, DroppingIsHarmless DEF PipelineReply
    <3> QED
      BY <2>3, <3>1, <3>2, <3>3, <3>4, <3>5, <3>6, <3>7 DEF DetectorStep
  <2>4. ASSUME NEW d \in Detectors, DetectorFailure(d) PROVE DetectInv'
    <3>1. CASE ReadReplyLost(d)
      BY <2>1, <3>1, LostReadPreservesDetectInv
    <3>2. CASE AlertRefused(d)
      BY <2>1, <3>2, RefusalPreservesDetectInv
    <3>3. CASE ReadRefused(d)
      BY <2>1, <3>3, StutterPreservesDetectInv DEF ReadRefused, detectVars
    <3>4. CASE PipelineLost(d)
      <4>1. loaded' \in [Detectors -> BOOLEAN]
        BY <3>4 DEF PipelineLost, DetectInv, DetectTypeOK
      <4> QED
        BY <2>1, <3>4, <4>1, DroppingIsHarmless DEF PipelineLost
    <3> QED
      BY <2>4, <3>1, <3>2, <3>3, <3>4 DEF DetectorFailure
  <2>5. ASSUME NEW d \in Detectors, Leave(d) PROVE DetectInv'
    <3>1. loaded' \in [Detectors -> BOOLEAN]
      BY <2>5 DEF Leave, DetectInv, DetectTypeOK
    <3> QED
      BY <2>1, <2>5, <3>1, DroppingIsHarmless DEF Leave
  <2> QED
    BY <1>2, <2>1, <2>2, <2>3, <2>4, <2>5, EvictionPreservesDetectInv,
       ModelPreservesDetectInv, RestartPreservesDetectInv
    DEF DetectNext, DetectStep
<1> QED
  BY <1>1, <1>2

THEOREM DetectInvariance == DetectSpec => []DetectInv
<1>1. DetectInit => DetectInv
  BY InitEstablishesDetectInv
<1>2. DetectInv /\ [DetectNext]_detectVars => DetectInv'
  BY NextPreservesDetectInv
<1> QED
  BY <1>1, <1>2, PTL DEF DetectSpec

(***************************************************************************)
(* Every acknowledged reading that scored above the threshold has exactly  *)
(* one alert (no reading has two), through broken pipelines, lost replies, *)
(* cancelled consumers, crashes and any number of replicas; at least one   *)
(* unless Redis refuses an XADD of the pipeline, whose XACK it executes    *)
(* all the same.                                                           *)
(***************************************************************************)
THEOREM AlertsAlwaysExact == DetectSpec => []AlertsAreExact
<1>1. DetectInv => AlertsAreExact
  BY DEF DetectInv
<1> QED
  BY <1>1, DetectInvariance, PTL

-----------------------------------------------------------------------------
(***************************************************************************)
(* The model: the engine and the extractor hold one, and reloads that do   *)
(* not overlap bring an older one only for one that was withdrawn.         *)
(***************************************************************************)

MaybeVersion == {None} \cup Versions

Asking(r) == req[r].pc # "idle"

(***************************************************************************)
(* The inductive invariant.  What is on the disk or being downloaded has   *)
(* been published, so that a version published later is not in use yet; a  *)
(* request under way is for a version that is not on disk, nor older than  *)
(* a session that is still in the registry; and a process that is down has *)
(* no requests.                                                            *)
(***************************************************************************)
PublishedInv ==
    /\ published \in Versions
    /\ active \subseteq 1..published
    /\ newest \in Versions /\ newest <= published
    /\ req \in [Requests -> [pc : {"idle", "json", "onnx"}, version : MaybeVersion]]
    /\ \A r \in Requests :
          Asking(r) => up /\ req[r].version \in Versions /\ req[r].version <= published

EngineInv ==
    /\ engine \in Engine
    /\ stats \in MaybeVersion
    /\ engine.session <= published
    /\ EngineIsWhole
    /\ StatsMatchModel

OrderInv ==
    "overlap" \notin swapFaults =>
        /\ \A q, r \in Requests : Asking(q) /\ Asking(r) => q = r
        /\ \A r \in Requests : Asking(r) =>
               /\ req[r].version \notin files
               /\ req[r].version >= engine.session \/ engine.session \notin active

SwapInv == PublishedInv /\ EngineInv /\ OrderInv

LEMMA VersionFacts ==
    /\ Versions \subseteq Nat \ {0} /\ Baked \in Versions /\ None = 0
    /\ \A v \in MaybeVersion : v \in Nat
    /\ \A v \in Versions : Whole(v) \in Engine /\ Whole(v).session = v
    /\ NoModel \in Engine /\ NoModel.session = None
    /\ \A e \in Engine : e.session \in MaybeVersion
BY SwapAssumption DEF Versions, Baked, None, MaybeVersion, Whole, Engine, NoModel

LEMMA SwapInvInit == SwapInit => SwapInv
<1> SUFFICES ASSUME SwapInit  PROVE SwapInv
  OBVIOUS
<1> USE VersionFacts
<1>1. PublishedInv
  BY DEF SwapInit, PublishedInv, Asking, Idle, MaybeVersion
<1>2. EngineInv
  BY DEF SwapInit, EngineInv, EngineIsWhole, StatsMatchModel, MaybeVersion
<1>3. OrderInv
  BY DEF SwapInit, OrderInv, Asking, Idle
<1> QED
  BY <1>1, <1>2, <1>3 DEF SwapInv

(***************************************************************************)
(* What load_model may do: replace the engine by one whole model, leave it *)
(* as it is, or, for a sidecar without a threshold, replace two parts.     *)
(***************************************************************************)
LEMMA LoadFacts ==
    ASSUME EngineInv, NEW v \in Versions, LoadModel(v)
    PROVE  /\ engine' \in Engine
           /\ engine'.session \in {v, engine.session}
           /\ LoadSucceeds(v) => engine' = Whole(v)
           /\ ~LoadSucceeds(v) /\ No("no_threshold") => engine' = engine
<1>1. engine \in Engine
  BY DEF EngineInv
<1>2. [engine EXCEPT !.session = v, !.metadata = v] \in Engine
  BY <1>1 DEF Engine
<1>3. [engine EXCEPT !.session = v, !.metadata = v].session = v
  BY <1>1 DEF Engine
<1> QED
  BY <1>1, <1>2, <1>3, VersionFacts DEF LoadModel, LoadSucceeds, No

-----------------------------------------------------------------------------
(***************************************************************************)
(* One lemma for each kind of step: those that only move a request, the    *)
(* swap, the crashes and the start.                                        *)
(***************************************************************************)
LEMMA SwapInvRequest ==
    ASSUME SwapInv, UNCHANGED swapFaults, NEW r \in Requests,
           CheckRegistry(r) \/ DownloadSidecar(r) \/ DownloadFails(r)
    PROVE  SwapInv'
<1> USE VersionFacts
<1>1. UNCHANGED <<kind, published, active, files, newest, up, engine, stats>>
  BY DEF CheckRegistry, DownloadSidecar, DownloadFails, registryVars, diskVars
<1>2. EngineInv'
  BY <1>1 DEF SwapInv, EngineInv, EngineIsWhole, StatsMatchModel, No
<1>3. \A q \in Requests : q # r => req'[q] = req[q]
  BY DEF SwapInv, PublishedInv, CheckRegistry, DownloadSidecar, DownloadFails
<1>4. CASE CheckRegistry(r)
  <2>1. PICK v \in Versions \ files :
            Latest(v) /\ req' = [req EXCEPT ![r] = [pc |-> "json", version |-> v]]
    BY <1>4 DEF CheckRegistry
  <2>2. up /\ req'[r] = [pc |-> "json", version |-> v]
    BY <1>4, <2>1 DEF SwapInv, PublishedInv, CheckRegistry
  <2>3. v \in 1..published /\ v <= published
    BY <2>1 DEF Latest, SwapInv, PublishedInv
  <2>4. PublishedInv'
    BY <1>1, <2>1, <2>2, <2>3 DEF SwapInv, PublishedInv, Asking, MaybeVersion
  <2>5. "overlap" \notin swapFaults => \A q \in Requests : ~Asking(q)
    BY <1>4 DEF CheckRegistry, MayAsk, Asking
  <2>6. v >= engine.session \/ engine.session \notin active
    BY <2>1 DEF Latest
  <2>7. OrderInv'
    BY <1>1, <1>3, <2>1, <2>2, <2>5, <2>6 DEF SwapInv, OrderInv, Asking
  <2> QED
    BY <1>2, <2>4, <2>7 DEF SwapInv
<1>5. CASE DownloadSidecar(r)
  <2>1. /\ req[r].pc = "json" /\ req'[r].pc = "onnx"
        /\ req'[r].version = req[r].version
    BY <1>5 DEF SwapInv, PublishedInv, DownloadSidecar
  <2>2. PublishedInv'
    BY <1>1, <1>5, <2>1 DEF SwapInv, PublishedInv, DownloadSidecar, Asking
  <2>3. OrderInv'
    BY <1>1, <1>3, <2>1 DEF SwapInv, OrderInv, Asking
  <2> QED
    BY <1>2, <2>2, <2>3 DEF SwapInv
<1>6. CASE DownloadFails(r)
  <2>1. req'[r] = Idle
    BY <1>6 DEF SwapInv, PublishedInv, DownloadFails
  <2>2. PublishedInv'
    BY <1>1, <1>6, <2>1
       DEF SwapInv, PublishedInv, DownloadFails, Asking, Idle, MaybeVersion
  <2>3. OrderInv'
    BY <1>1, <1>3, <2>1 DEF SwapInv, OrderInv, Asking, Idle
  <2> QED
    BY <1>2, <2>2, <2>3 DEF SwapInv
<1> QED
  BY <1>4, <1>5, <1>6

\* What a step may do to the session, by itself and with what is in the registry.
MovesOn ==
    /\ engine'.session = engine.session \/ engine'.session \notin files
    /\ engine'.session >= engine.session \/ engine.session \notin active

\* Also what makes a reload move on: the session stays or moves to r's version.
LEMMA SwapInvSwap ==
    ASSUME SwapInv, UNCHANGED swapFaults, NEW r \in Requests, DownloadAndSwap(r)
    PROVE  SwapInv' /\ ("overlap" \notin swapFaults => MovesOn)
<1> DEFINE v == req[r].version
<1> USE VersionFacts
<1>1. /\ Asking(r) /\ up
      /\ v \in Versions /\ v <= published
      /\ UNCHANGED <<kind, published, active, up>>
      /\ newest' = v
      /\ req' = [req EXCEPT ![r] = Idle]
      /\ LoadModel(v) /\ SetStats(v)
  BY DEF SwapInv, PublishedInv, DownloadAndSwap, Asking, WriteFile, registryVars
<1> HIDE DEF v
<1>2. /\ engine' \in Engine
      /\ engine'.session \in {v, engine.session}
      /\ LoadSucceeds(v) => engine' = Whole(v)
      /\ ~LoadSucceeds(v) /\ No("no_threshold") => engine' = engine
  BY <1>1, LoadFacts DEF SwapInv
<1>3. PublishedInv'
  BY <1>1 DEF SwapInv, PublishedInv, Asking, Idle, MaybeVersion
<1>4. EngineInv'
  <2>1. stats' \in MaybeVersion /\ engine'.session <= published'
    BY <1>1, <1>2 DEF SwapInv, EngineInv, SetStats, MaybeVersion
  <2>2. EngineIsWhole'
    BY <1>1, <1>2 DEF SwapInv, EngineInv, EngineIsWhole, No
  <2>3. StatsMatchModel'
    <3> SUFFICES ASSUME up', No("no_stats")', No("no_threshold")'
                 PROVE  stats' = engine'.session
      BY DEF StatsMatchModel
    <3>1. No("no_stats") /\ No("no_threshold") /\ stats = engine.session
      BY <1>1 DEF No, SwapInv, EngineInv, StatsMatchModel
    <3>2. kind[v] # "no_stats"
      BY <1>1, <3>1 DEF No
    <3> QED
      BY <1>1, <1>2, <3>1, <3>2 DEF SetStats
  <2> QED
    BY <1>2, <2>1, <2>2, <2>3 DEF EngineInv
<1>5. "overlap" \notin swapFaults =>
          v \notin files /\ (v >= engine.session \/ engine.session \notin active)
  BY <1>1 DEF SwapInv, OrderInv, v
<1>6. "overlap" \notin swapFaults => \A q \in Requests : ~Asking(q)'
  BY <1>1 DEF SwapInv, OrderInv, PublishedInv, Asking, Idle
<1>7. OrderInv'
  BY <1>6 DEF OrderInv
<1>8. engine.session \in Nat
  BY DEF SwapInv, EngineInv
<1> QED
  BY <1>2, <1>3, <1>4, <1>5, <1>7, <1>8 DEF SwapInv, MovesOn

LEMMA SwapInvCrash ==
    ASSUME SwapInv, UNCHANGED swapFaults,
           Crash \/ \E r \in Requests : CrashWhileWriting(r)
    PROVE  SwapInv'
<1> USE VersionFacts
<1>1. /\ ~up' /\ engine' = NoModel /\ stats' = None
      /\ req' = [r \in Requests |-> Idle]
      /\ UNCHANGED <<kind, published, active>>
  BY DEF Crash, CrashWhileWriting, Forget, registryVars
<1>2. newest' = newest \/ \E r \in Requests : Asking(r) /\ newest' = req[r].version
  BY DEF Crash, CrashWhileWriting, diskVars, Asking
<1>3. PublishedInv'
  BY <1>1, <1>2 DEF SwapInv, PublishedInv, Asking, Idle, MaybeVersion
<1>4. EngineInv'
  BY <1>1 DEF SwapInv, PublishedInv, EngineInv, EngineIsWhole, StatsMatchModel, MaybeVersion
<1>5. OrderInv'
  BY <1>1 DEF OrderInv, Asking, Idle
<1> QED
  BY <1>3, <1>4, <1>5 DEF SwapInv

LEMMA SwapInvStart ==
    ASSUME SwapInv, UNCHANGED swapFaults, Start
    PROVE  SwapInv'
<1> USE VersionFacts
<1>1. /\ ~up /\ up'
      /\ UNCHANGED <<kind, published, active, newest, req>>
      /\ newest \in Versions /\ newest <= published
      /\ LoadSucceeds(newest) /\ LoadModel(newest)
      /\ stats' = IF kind[newest] = "no_stats" THEN None ELSE newest
  BY DEF Start, registryVars, diskVars, SwapInv, PublishedInv
<1>2. engine' = Whole(newest)
  BY <1>1, LoadFacts DEF SwapInv
<1>3. PublishedInv'
  BY <1>1 DEF SwapInv, PublishedInv, Asking
<1>4. EngineInv'
  BY <1>1, <1>2 DEF EngineInv, EngineIsWhole, StatsMatchModel, MaybeVersion, No
<1>5. \A r \in Requests : ~Asking(r)'
  BY <1>1 DEF SwapInv, PublishedInv, Asking
<1> QED
  BY <1>3, <1>4, <1>5 DEF SwapInv, OrderInv

LEMMA SwapInvRegistry ==
    ASSUME SwapInv, UNCHANGED swapFaults, Publish \/ \E v \in Versions : Withdraw(v)
    PROVE  SwapInv'
<1> USE VersionFacts
<1>1. UNCHANGED <<kind, files, newest, up, engine, stats, req>>
  BY DEF Publish, Withdraw, diskVars, memoryVars
<1>2. published \in Nat /\ active \subseteq 1..published
  BY DEF SwapInv, PublishedInv
<1>3. /\ published' \in Versions /\ published <= published'
      /\ active' \subseteq 1..published'
      /\ \A v \in active' : v \in active \/ v > published
  <2>1. CASE Publish
    <3>1. /\ published < MaxVersion /\ published' = published + 1
          /\ active' = active \cup {published + 1}
      BY <2>1 DEF Publish
    <3>2. published' \in Versions
      BY <1>2, <3>1, SwapAssumption DEF Versions
    <3> QED
      BY <1>2, <3>1, <3>2
  <2>2. ASSUME NEW v \in Versions, Withdraw(v)
        PROVE  published' = published /\ active' \subseteq active
    BY <2>2 DEF Withdraw
  <2>3. CASE \E v \in Versions : Withdraw(v)
    <3>1. published' = published /\ active' \subseteq active
      BY <2>2, <2>3
    <3>2. published \in Versions /\ published <= published
      BY <1>2 DEF SwapInv, PublishedInv
    <3> QED
      BY <1>2, <3>1, <3>2
  <2> QED
    BY <2>1, <2>3
<1>4. PublishedInv'
  BY <1>1, <1>2, <1>3 DEF SwapInv, PublishedInv, Asking
<1>5. EngineInv'
  BY <1>1, <1>2, <1>3 DEF SwapInv, EngineInv, EngineIsWhole, StatsMatchModel, No
<1>6. engine.session \notin active => engine'.session \notin active'
  BY <1>1, <1>2, <1>3 DEF SwapInv, EngineInv
<1>7. OrderInv'
  BY <1>1, <1>6 DEF SwapInv, OrderInv, Asking
<1> QED
  BY <1>4, <1>5, <1>7 DEF SwapInv

LEMMA SwapInvStutter ==
    ASSUME SwapInv, UNCHANGED swapVars
    PROVE  SwapInv'
BY DEF SwapInv, PublishedInv, EngineInv, EngineIsWhole, StatsMatchModel,
       OrderInv, Asking, No, swapVars, swapDataVars, registryVars, diskVars, memoryVars

-----------------------------------------------------------------------------
LEMMA SwapInvNext ==
    ASSUME SwapInv, [SwapNext]_swapVars
    PROVE  SwapInv'
<1>1. CASE UNCHANGED swapVars
  BY <1>1, SwapInvStutter
<1>2. CASE SwapNext
  <2>1. UNCHANGED swapFaults
    BY <1>2 DEF SwapNext
  <2>2. CASE Publish \/ \E v \in Versions : Withdraw(v)
    BY <2>1, <2>2, SwapInvRegistry
  <2>3. ASSUME NEW r \in Requests, ReportUnchanged(r)  PROVE SwapInv'
    BY <2>1, <2>3, SwapInvStutter DEF ReportUnchanged, swapVars
  <2>4. ASSUME NEW r \in Requests,
               CheckRegistry(r) \/ DownloadSidecar(r) \/ DownloadFails(r)
        PROVE  SwapInv'
    BY <2>1, <2>4, SwapInvRequest
  <2>5. ASSUME NEW r \in Requests, DownloadAndSwap(r)  PROVE SwapInv'
    BY <2>1, <2>5, SwapInvSwap
  <2>6. CASE Crash \/ \E r \in Requests : CrashWhileWriting(r)
    BY <2>1, <2>6, SwapInvCrash
  <2>7. CASE Start
    BY <2>1, <2>7, SwapInvStart
  <2>8. CASE StartFails
    BY <2>1, <2>8, SwapInvStutter DEF StartFails, swapVars
  <2> QED
    BY <1>2, <2>2, <2>3, <2>4, <2>5, <2>6, <2>7, <2>8 DEF SwapNext, SwapStep
<1> QED
  BY <1>1, <1>2

LEMMA SwapInvAlways == SwapSpec => []SwapInv
<1>1. SwapInit => SwapInv
  BY SwapInvInit
<1>2. SwapInv /\ [SwapNext]_swapVars => SwapInv'
  BY SwapInvNext
<1> QED
  BY <1>1, <1>2, PTL DEF SwapSpec

(***************************************************************************)
(* "Swap only after both files loaded successfully": provided that every   *)
(* sidecar that parses is complete, the running engine is one model and    *)
(* the extractor normalises with that model's statistics, whatever fails,  *)
(* crashes or overlaps.                                                    *)
(***************************************************************************)
THEOREM OneModelAlways == SwapSpec => []OneModelInUse
<1>1. SwapInv => OneModelInUse
  BY DEF SwapInv, EngineInv, OneModelInUse
<1> QED
  BY <1>1, SwapInvAlways, PTL

(***************************************************************************)
(* Unless two reloads overlap, one ends with the model that was running or *)
(* with one that was not on disk, and with an older one only if the        *)
(* running one is no longer in the registry.                               *)
(***************************************************************************)
THEOREM ReloadsAlwaysMoveOn == SwapSpec => ReloadsMoveOn
<1> DEFINE Step == up /\ up' /\ "overlap" \notin swapFaults => MovesOn
<1>1. SwapInv /\ [SwapNext]_swapVars => [Step]_swapVars
  <2> SUFFICES ASSUME SwapInv, SwapNext, up, up', "overlap" \notin swapFaults
               PROVE  MovesOn
    OBVIOUS
  <2>1. UNCHANGED swapFaults /\ engine.session \in Nat
    BY VersionFacts DEF SwapNext, SwapInv, EngineInv
  <2>2. engine' = engine => MovesOn
    BY <2>1 DEF MovesOn
  <2>3. ASSUME NEW r \in Requests, DownloadAndSwap(r)
        PROVE  MovesOn
    BY <2>1, <2>3, SwapInvSwap
  <2>4. ASSUME NEW r \in Requests,
               \/ CheckRegistry(r) \/ ReportUnchanged(r)
               \/ DownloadSidecar(r) \/ DownloadFails(r)
        PROVE  engine' = engine
    BY <2>4 DEF CheckRegistry, ReportUnchanged, DownloadSidecar, DownloadFails,
                swapDataVars, memoryVars
  <2>5. CASE Publish \/ \E v \in Versions : Withdraw(v)
    BY <2>2, <2>5 DEF Publish, Withdraw, memoryVars
  <2>6. ~Crash /\ ~Start /\ ~StartFails /\ \A r \in Requests : ~CrashWhileWriting(r)
    BY DEF Crash, Start, StartFails, CrashWhileWriting, Forget
  <2> QED
    BY <2>2, <2>3, <2>4, <2>5, <2>6 DEF SwapNext, SwapStep
<1>2. SwapSpec => [][Step]_swapVars
  BY <1>1, SwapInvAlways, PTL DEF SwapSpec
<1> QED
  BY <1>2 DEF ReloadsMoveOn, MovesOn

-----------------------------------------------------------------------------
(***************************************************************************)
(* The features, for any number of devices, any window and any history.    *)
(***************************************************************************)
FeatureSpec == FeatureInit /\ [][FeatureNext]_featureVars

\* A set of numbers has a least element.
LEMMA SmallestOf ==
    ASSUME NEW T \in SUBSET Nat, T # {}
    PROVE  \E i \in T : \A j \in T : i <= j
<1> DEFINE Below(i) == {k \in T : k <= i}
           Segments == {Below(i) : i \in T}
<1>1. \A i \in T : IsFiniteSet(Below(i))
  <2> SUFFICES ASSUME NEW i \in T  PROVE IsFiniteSet(Below(i))
    OBVIOUS
  <2>1. i \in Int /\ 0 \in Int /\ \A k \in Below(i) : k \in 0..i
    OBVIOUS
  <2>2. IsFiniteSet(0..i)
    BY <2>1, FS_Interval
  <2>3. Below(i) \subseteq 0..i
    BY <2>1
  <2> QED
    BY <2>2, <2>3, FS_Subset
<1>2. Segments \subseteq FiniteSubsetsOf(T) /\ Segments # {}
  BY <1>1 DEF FiniteSubsetsOf
<1>3. PICK s \in Segments : \A t \in Segments : ~ (<<t, s>> \in StrictSubsetOrdering(T))
  <2> HIDE DEF Segments
  <2> QED
    BY <1>2, FS_StrictSubsetOrderingWellFounded, WFMin
<1>4. PICK i \in T : s = Below(i)
  OBVIOUS
<1>5. ASSUME NEW j \in T, ~ (i <= j)  PROVE FALSE
  <2>0. j < i
    BY <1>5
  <2>1. i \in Nat /\ j \in Nat /\ \A k \in T : k \in Nat
    OBVIOUS
  <2>2. i \in Below(i) /\ i \notin Below(j)
    BY <2>0, <2>1
  <2>3. ASSUME NEW k \in Below(j)  PROVE k \in Below(i)
    <3>1. k \in T /\ k \in Nat /\ k <= j
      BY <2>1
    <3>2. k <= i
      BY <2>0, <2>1, <3>1
    <3> QED
      BY <3>1, <3>2
  <2>4. <<Below(j), s>> \in StrictSubsetOrdering(T)
    BY <1>4, <2>2, <2>3 DEF StrictSubsetOrdering
  <2> QED
    BY <1>3, <2>4
<1> QED
  BY <1>5

(***************************************************************************)
(* The median.  If fewer than k of the values are outside the range, and   *)
(* at least k are inside, the k-th smallest value is inside: the ones not  *)
(* greater than a value below the range are all outside it, and the        *)
(* greatest value inside has all k of them.                                *)
(***************************************************************************)
LEMMA RankedIsInside ==
    ASSUME NEW w \in Seq(Int), NEW low \in Int, NEW high \in Int,
           NEW faulty, faulty = {i \in DOMAIN w : w[i] < low \/ w[i] > high},
           NEW k \in Nat \ {0},
           Cardinality(faulty) < k, k + Cardinality(faulty) <= Len(w)
    PROVE  Ranked(w, k) \in low..high
<1>1. PICK n \in Nat : n = Len(w)
  BY LenProperties
<1>2. DOMAIN w = 1..n /\ \A i \in 1..n : w[i] \in Int
  BY <1>1
<1>3. IsFiniteSet(1..n) /\ Cardinality(1..n) = n
  BY FS_Interval
<1> DEFINE UpTo(x) == {i \in DOMAIN w : w[i] <= x}
           normal == (1..n) \ faulty
           Candidates == {x \in Range(w) : Cardinality(UpTo(x)) >= k}
<1>4. /\ faulty \subseteq 1..n /\ IsFiniteSet(faulty) /\ Cardinality(faulty) \in Nat
      /\ \A i \in 1..n : w[i] < low \/ w[i] > high => i \in faulty
  <2>1. faulty \subseteq 1..n
    BY <1>2
  <2>2. IsFiniteSet(faulty)
    BY <1>3, <2>1, FS_Subset
  <2> QED
    BY <1>2, <2>1, <2>2, FS_CardinalityType
<1>5. /\ IsFiniteSet(normal) /\ Cardinality(normal) \in Nat
      /\ Cardinality(normal) >= k /\ normal # {}
  <2>1. (1..n) \cap faulty = faulty
    BY <1>4
  <2>6. /\ IsFiniteSet((1..n) \ faulty)
        /\ Cardinality((1..n) \ faulty) = Cardinality(1..n) - Cardinality((1..n) \cap faulty)
    BY <1>3, FS_Difference
  <2>2. IsFiniteSet(normal) /\ Cardinality(normal) = n - Cardinality(faulty)
    BY <1>3, <2>1, <2>6
  <2>3. Cardinality(normal) \in Nat
    BY <2>2, FS_CardinalityType
  <2>4. Cardinality(normal) >= k
    BY <1>1, <1>4, <2>2
  <2>5. Cardinality(normal) # 0
    BY <2>3, <2>4
  <2> QED
    BY <2>2, <2>3, <2>4, <2>5, FS_EmptySet
<1>6. \A i \in normal : w[i] \in Int /\ low <= w[i] /\ w[i] <= high
  BY <1>2, <1>4
<1>7. PICK top \in normal : \A i \in normal : w[i] <= w[top]
  <2> DEFINE Gaps == {high - w[i] : i \in normal}
  <2>1. Gaps \in SUBSET Nat /\ Gaps # {}
    BY <1>5, <1>6
  <2>2. PICK g \in Gaps : \A h \in Gaps : g <= h
    <3> HIDE DEF Gaps
    <3> QED
      BY <2>1, SmallestOf
  <2>3. PICK top \in normal : g = high - w[top]
    OBVIOUS
  <2>4. ASSUME NEW i \in normal  PROVE w[i] <= w[top]
    <3>1. high - w[top] <= high - w[i]
      BY <2>2, <2>3
    <3>2. w[i] \in Int /\ w[top] \in Int
      BY <1>6
    <3> QED
      BY <3>1, <3>2
  <2> QED
    BY <2>4
<1>8. \A x : IsFiniteSet(UpTo(x)) /\ Cardinality(UpTo(x)) \in Nat
  <2> SUFFICES ASSUME NEW x  PROVE IsFiniteSet(UpTo(x)) /\ Cardinality(UpTo(x)) \in Nat
    OBVIOUS
  <2>1. UpTo(x) \in SUBSET (1..n)
    BY <1>2
  <2>2. IsFiniteSet(UpTo(x))
    BY <1>3, <2>1, FS_Subset
  <2> QED
    BY <2>2, FS_CardinalityType
<1>9. w[top] \in Candidates
  <2>1. w[top] \in Range(w)
    BY <1>2 DEF Range
  <2>2. normal \in SUBSET UpTo(w[top])
    BY <1>2, <1>7
  <2>3. Cardinality(normal) <= Cardinality(UpTo(w[top]))
    <3> HIDE DEF UpTo, normal
    <3> QED
      BY <1>8, <2>2, FS_Subset
  <2> HIDE DEF UpTo, normal
  <2> QED
    BY <1>5, <1>8, <2>1, <2>3
<1>10. ASSUME NEW x \in Candidates  PROVE x \in Int /\ low <= x
  <2>1. x \in Int
    BY <1>2 DEF Range
  <2>2. ASSUME x < low  PROVE FALSE
    <3>1. UpTo(x) \in SUBSET faulty
      BY <1>2, <1>4, <2>1, <2>2
    <3>2. Cardinality(UpTo(x)) <= Cardinality(faulty)
      <4> HIDE DEF UpTo
      <4> QED
        BY <1>4, <3>1, FS_Subset
    <3>3. Cardinality(UpTo(x)) >= k
      OBVIOUS
    <3> HIDE DEF UpTo
    <3> QED
      BY <1>4, <1>8, <3>2, <3>3
  <2> QED
    BY <2>1, <2>2
<1>11. PICK least \in Candidates : \A x \in Candidates : least <= x
  <2> HIDE DEF Candidates
  <2> DEFINE Gaps == {x - low : x \in Candidates}
  <2>1. Gaps \in SUBSET Nat /\ Gaps # {}
    BY <1>9, <1>10
  <2>2. PICK g \in Gaps : \A h \in Gaps : g <= h
    <3> HIDE DEF Gaps
    <3> QED
      BY <2>1, SmallestOf
  <2>3. PICK least \in Candidates : g = least - low
    OBVIOUS
  <2>4. ASSUME NEW x \in Candidates  PROVE least <= x
    <3>1. least - low <= x - low
      BY <2>2, <2>3
    <3>2. x \in Int /\ least \in Int
      BY <1>10
    <3> QED
      BY <3>1, <3>2
  <2> QED
    BY <2>4
<1>12. Ranked(w, k) = Min(Candidates)
  BY DEF Ranked
<1> HIDE DEF Candidates
<1>13. /\ Min(Candidates) \in Candidates
       /\ \A x \in Candidates : Min(Candidates) <= x
  BY <1>11 DEF Min
<1>14. /\ Ranked(w, k) \in Int /\ low <= Ranked(w, k) /\ Ranked(w, k) <= w[top]
       /\ w[top] \in Int /\ w[top] <= high
  BY <1>6, <1>9, <1>10, <1>12, <1>13
<1> QED
  BY <1>14

\* With most values inside the range, so is their median.
LEMMA MedianIsInside ==
    ASSUME NEW w \in Seq(Int), NEW low \in Int, NEW high \in Int,
           NEW faulty, faulty = {i \in DOMAIN w : w[i] < low \/ w[i] > high},
           2 * Cardinality(faulty) < Len(w)
    PROVE  \E m \in Int : TwiceMedian(w) = m /\ 2 * low <= m /\ m <= 2 * high
<1>1. PICK n \in Nat : n = Len(w)
  BY LenProperties
<1>2. Cardinality(faulty) \in Nat
  <2>1. DOMAIN w = 1..n /\ IsFiniteSet(1..n)
    BY <1>1, FS_Interval
  <2>2. faulty \in SUBSET (1..n)
    BY <2>1
  <2>3. IsFiniteSet(faulty)
    BY <2>1, <2>2, FS_Subset
  <2> QED
    BY <2>3, FS_CardinalityType
<1>3. PICK f \in Nat : f = Cardinality(faulty) /\ 2 * f < n
  BY <1>1, <1>2
<1>10. \A i \in Nat : i \div 2 \in Nat /\ (i = 2 * (i \div 2) \/ i = 2 * (i \div 2) + 1)
  OBVIOUS
<1>4. PICK a \in Nat \ {0} : a = (n + 1) \div 2 /\ f < a /\ a + f <= n
  <2>1. PICK a \in Nat : a = (n + 1) \div 2 /\ (n + 1 = 2 * a \/ n + 1 = 2 * a + 1)
    BY <1>10
  <2>2. n + 1 = 2 * a \/ n + 1 = 2 * a + 1
    BY <2>1
  <2>3. f < a /\ a + f <= n /\ a \in Nat \ {0}
    <3> SUFFICES f < a /\ a + f <= n
      OBVIOUS
    <3>1. 2 * f < n
      BY <1>3
    <3> QED
      BY <2>2, <3>1
  <2> QED
    BY <2>1, <2>3
<1>5. PICK b \in Nat \ {0} : b = (n + 2) \div 2 /\ f < b /\ b + f <= n
  <2>1. PICK b \in Nat : b = (n + 2) \div 2 /\ (n + 2 = 2 * b \/ n + 2 = 2 * b + 1)
    BY <1>10
  <2>2. n + 2 = 2 * b \/ n + 2 = 2 * b + 1
    BY <2>1
  <2>3. f < b /\ b + f <= n /\ b \in Nat \ {0}
    <3> SUFFICES f < b /\ b + f <= n
      OBVIOUS
    <3>1. 2 * f < n
      BY <1>3
    <3> QED
      BY <2>2, <3>1
  <2> QED
    BY <2>1, <2>3
<1>6. Ranked(w, a) \in low..high
  BY <1>1, <1>3, <1>4, RankedIsInside
<1>7. Ranked(w, b) \in low..high
  BY <1>1, <1>3, <1>5, RankedIsInside
<1>8. PICK x \in Int, y \in Int :
         /\ x = Ranked(w, a) /\ y = Ranked(w, b)
         /\ low <= x /\ x <= high /\ low <= y /\ y <= high
  BY <1>6, <1>7
<1>9. TwiceMedian(w) = x + y
  BY <1>1, <1>4, <1>5, <1>8 DEF TwiceMedian
<1> QED
  BY <1>8, <1>9

-----------------------------------------------------------------------------
(***************************************************************************)
(* One reading.                                                            *)
(***************************************************************************)
LEMMA LargerOf ==
    ASSUME NEW a \in Int, NEW b \in Int
    PROVE  Max({a, b}) = IF a >= b THEN a ELSE b
<1>1. \A x \in {a, b} : (\A y \in {a, b} : x >= y) => x = IF a >= b THEN a ELSE b
  OBVIOUS
<1>2. \E x \in {a, b} : \A y \in {a, b} : x >= y
  OBVIOUS
<1> QED
  BY <1>1, <1>2 DEF Max

LEMMA SmallerOf ==
    ASSUME NEW a \in Int, NEW b \in Int
    PROVE  Min({a, b}) = IF a <= b THEN a ELSE b
<1>1. \A x \in {a, b} : (\A y \in {a, b} : x <= y) => x = IF a <= b THEN a ELSE b
  OBVIOUS
<1>2. \E x \in {a, b} : \A y \in {a, b} : x <= y
  OBVIOUS
<1> QED
  BY <1>1, <1>2 DEF Min

LEMMA ClippedIs ==
    ASSUME NEW x \in Int
    PROVE  \E y \in Int : /\ y = Clipped(x)
                          /\ (-2000 <= x /\ x <= 2000 => y = x)
                          /\ (x > 2000 => y = 2000)
                          /\ (x < -2000 => y = -2000)
<1>1. PICK c \in Int : c = 2000
  OBVIOUS
<1>2. PICK y \in Int : y = IF c <= x THEN c ELSE x
  OBVIOUS
<1>3. y = Min({c, x})
  BY <1>2, SmallerOf
<1>4. PICK d \in Int : d = -2000
  OBVIOUS
<1>5. Clip = c /\ -Clip = d
  BY <1>1, <1>4 DEF Clip
<1>6. Clipped(x) = IF d >= y THEN d ELSE y
  BY <1>3, <1>5, LargerOf DEF Clipped
<1> QED
  BY <1>1, <1>2, <1>4, <1>6

\* How far a value is outside, in terms of the two ends of the range.
LEMMA OutsideIs ==
    ASSUME NEW t, NEW v \in Int, NEW low \in Int, NEW high \in Int,
           low = NormalLow(t), high = NormalHigh(t), low <= high
    PROVE  /\ Outside(t, v) \in Nat
           /\ v < low => Outside(t, v) = low - v
           /\ v > high => Outside(t, v) = v - high
           /\ low <= v /\ v <= high => Outside(t, v) = 0
<1>1. PICK a \in Int, b \in Int : a = low - v /\ b = v - high
  OBVIOUS
<1>2. Outside(t, v) = Max({0, a, b})
  BY <1>1 DEF Outside
<1>3. PICK m \in {0, a, b} : \A y \in {0, a, b} : m >= y
  OBVIOUS
<1>4. \A x \in {0, a, b} : (\A y \in {0, a, b} : x >= y) => x = m
  BY <1>3
<1>5. Outside(t, v) = m
  BY <1>2, <1>3, <1>4 DEF Max
<1> QED
  BY <1>1, <1>3, <1>5

LEMMA OutsideTells ==
    ASSUME NEW t, NEW v \in Int, NEW low \in Int, NEW high \in Int,
           low = NormalLow(t), high = NormalHigh(t), low <= high
    PROVE  /\ Outside(t, v) = 0 => low <= v /\ v <= high
           /\ Outside(t, v) > high - low => v < low - (high - low) \/ v > high + (high - low)
<1>1. PICK out \in Nat :
         /\ out = Outside(t, v)
         /\ v < low => out = low - v
         /\ v > high => out = v - high
         /\ low <= v /\ v <= high => out = 0
  BY OutsideIs
<1>2. out = 0 => low <= v /\ v <= high
  BY <1>1
<1>3. out > high - low => v < low - (high - low) \/ v > high + (high - low)
  BY <1>1
<1> QED
  BY <1>1, <1>2, <1>3

LEMMA NormalRange ==
    ASSUME NEW t \in Types
    PROVE  \E low \in Int, high \in Int :
               /\ low = NormalLow(t) /\ high = NormalHigh(t)
               /\ low <= high /\ high - low <= 20
<1>1. CASE t = "temperature_sensor"
  BY <1>1 DEF NormalLow, NormalHigh
<1>2. CASE t = "pressure_sensor"
  BY <1>2 DEF NormalLow, NormalHigh
<1>3. CASE t = "vibration_sensor"
  BY <1>3 DEF NormalLow, NormalHigh
<1> QED
  BY <1>1, <1>2, <1>3 DEF Types

\* The deviation from a median inside the range.
LEMMA DeviationBounds ==
    ASSUME NEW v \in Int, NEW m \in Int, NEW low \in Int, NEW high \in Int,
           low <= high, high - low <= 20, 2 * low <= m, m <= 2 * high
    PROVE  \E y \in Int :
              /\ y = Clipped(2 * v - m)
              /\ low <= v /\ v <= high => Magnitude(y) <= 2 * (high - low)
              /\ v < low - (high - low) \/ v > high + (high - low) =>
                     Magnitude(y) > 2 * (high - low)
<1>1. PICK width \in Int : width = high - low /\ 0 <= width /\ width <= 20
  <2>1. PICK width \in Int : width = high - low
    OBVIOUS
  <2>2. 0 <= width /\ width <= 20
    BY <2>1
  <2> QED
    BY <2>1, <2>2
<1>2. PICK x \in Int : x = 2 * v - m
  <2>1. \A a, b \in Int : 2 * a - b \in Int
    OBVIOUS
  <2>2. 2 * v - m \in Int
    BY <2>1
  <2> QED
    BY <2>2
<1>3. PICK y \in Int : /\ y = Clipped(x)
                       /\ (-2000 <= x /\ x <= 2000 => y = x)
                       /\ (x > 2000 => y = 2000)
                       /\ (x < -2000 => y = -2000)
  BY ClippedIs
<1>4. PICK d \in Int : d = Magnitude(y) /\ d = IF y < 0 THEN -y ELSE y
  BY DEF Magnitude
<1>5. low <= v /\ v <= high => d <= 2 * width
  <2> SUFFICES ASSUME low <= v, v <= high  PROVE d <= 2 * width
    OBVIOUS
  <2>1. -2 * width <= x /\ x <= 2 * width
    BY <1>1, <1>2
  <2> QED
    BY <1>1, <1>3, <1>4, <2>1
<1>6. v < low - width \/ v > high + width => d > 2 * width
  <2> SUFFICES ASSUME v < low - width \/ v > high + width  PROVE d > 2 * width
    OBVIOUS
  <2>1. x > 2 * width \/ x < -2 * width
    BY <1>1, <1>2
  <2> QED
    BY <1>1, <1>3, <1>4, <2>1
<1> QED
  BY <1>1, <1>2, <1>3, <1>4, <1>5, <1>6

\* It tells a normal reading from one far outside.
LEMMA DeviationTells ==
    ASSUME NEW w \in Seq(Int), NEW v \in Int, NEW t \in Types,
           2 * Cardinality({i \in DOMAIN w : Outside(t, w[i]) > 0}) < Len(w),
           Len(w) >= MinHistory
    PROVE  /\ Outside(t, v) = 0 => Magnitude(Deviation(w, v)) <= 2 * Width(t)
           /\ Outside(t, v) > Width(t) => Magnitude(Deviation(w, v)) > 2 * Width(t)
<1>1. PICK low \in Int, high \in Int :
         /\ low = NormalLow(t) /\ high = NormalHigh(t) /\ low <= high /\ high - low <= 20
  BY NormalRange
<1>2. PICK width \in Int : width = high - low
  OBVIOUS
<1>3. Width(t) = width
  BY <1>1, <1>2 DEF Width
<1> DEFINE faulty == {i \in DOMAIN w : w[i] < low \/ w[i] > high}
<1>4. {i \in DOMAIN w : Outside(t, w[i]) > 0} = faulty
  <2>1. ASSUME NEW i \in DOMAIN w  PROVE Outside(t, w[i]) > 0 <=> w[i] < low \/ w[i] > high
    <3>1. PICK x \in Int : x = w[i]
      OBVIOUS
    <3>2. /\ Outside(t, x) \in Nat
          /\ x < low => Outside(t, x) = low - x
          /\ x > high => Outside(t, x) = x - high
          /\ low <= x /\ x <= high => Outside(t, x) = 0
      BY <1>1, OutsideIs
    <3>3. Outside(t, x) > 0 <=> x < low \/ x > high
      BY <3>2
    <3> QED
      BY <3>1, <3>3
  <2> QED
    BY <2>1
<1>5. 2 * Cardinality(faulty) < Len(w)
  BY <1>4
<1>6. PICK m \in Int : TwiceMedian(w) = m /\ 2 * low <= m /\ m <= 2 * high
  <2> HIDE DEF faulty
  <2>1. faulty = {i \in DOMAIN w : w[i] < low \/ w[i] > high}
    BY DEF faulty
  <2> QED
    BY <1>5, <2>1, MedianIsInside
<1>7. PICK y \in Int :
         /\ y = Clipped(2 * v - m)
         /\ low <= v /\ v <= high => Magnitude(y) <= 2 * (high - low)
         /\ v < low - (high - low) \/ v > high + (high - low) =>
                Magnitude(y) > 2 * (high - low)
  BY <1>1, <1>6, DeviationBounds
<1>8. Deviation(w, v) = y
  BY <1>6, <1>7 DEF Deviation
<1>9. /\ Outside(t, v) = 0 => low <= v /\ v <= high
      /\ Outside(t, v) > high - low => v < low - (high - low) \/ v > high + (high - low)
  BY <1>1, OutsideTells
<1> QED
  BY <1>2, <1>3, <1>7, <1>8, <1>9

-----------------------------------------------------------------------------
(***************************************************************************)
(* The windows.  An extractor's window is what the device was last given   *)
(* to it, by whichever way and whatever failed afterwards; so each row is  *)
(* about the values before it.                                             *)
(***************************************************************************)
SensorInv ==
    /\ type \in [Devices -> Types]
    /\ last \in [Devices -> Int] /\ drifted \in [Devices -> Int]
    /\ current \in [Devices -> Int]
    /\ outbox \in [Devices -> Seq(Int)]

WindowInv ==
    /\ given \in [Devices -> Seq(Int)]
    /\ windows = given

RowsInv ==
    \A r \in rows :
        /\ r.device \in Devices /\ r.value \in Int /\ r.before \in Seq(Int)
        /\ r.dev = Deviation(r.before, r.value)

FeatureInv == SensorInv /\ WindowInv /\ RowsInv

LEMMA FeatureInvInit == FeatureInit => FeatureInv
<1> SUFFICES ASSUME FeatureInit  PROVE FeatureInv
  OBVIOUS
<1>1. <<>> \in Seq(Int)
  BY EmptySeq
<1>2. SensorInv
  BY <1>1, SensorAssumption DEF FeatureInit, SensorInit, SensorInv, NoneYet, NormalPressures
<1>3. WindowInv /\ RowsInv
  BY <1>1 DEF FeatureInit, WindowInv, RowsInv
<1> QED
  BY <1>2, <1>3 DEF FeatureInv

\* A reading is a number, whichever sensor makes it and however it fails.
LEMMA ReportKeeps ==
    ASSUME SensorInv, NEW d \in Devices, NEW v \in Int, Report(d, v),
           last' \in [Devices -> Int], drifted' \in [Devices -> Int],
           current' \in [Devices -> Int]
    PROVE  SensorInv'
<1>1. outbox[d] \in Seq(Int)
  BY DEF SensorInv
<1>2. Append(outbox[d], v) \in Seq(Int)
  BY <1>1, AppendProperties
<1>3. outbox' = [outbox EXCEPT ![d] = Append(outbox[d], v)] /\ type' = type
  BY DEF Report
<1> QED
  BY <1>2, <1>3 DEF SensorInv

LEMMA SampleKeeps ==
    ASSUME SensorInv, NEW d \in Devices, Sample(d)
    PROVE  SensorInv'
<1>1. /\ last \in [Devices -> Int] /\ drifted \in [Devices -> Int]
      /\ current \in [Devices -> Int]
      /\ last[d] \in Int /\ drifted[d] \in Int /\ current[d] \in Int
  BY DEF SensorInv
<1>2. PICK base \in Int : base = Base(d)
  BY <1>1 DEF Base, FirstBase
<1>3. CASE NormalTemperature(d)
  BY <1>1, <1>3, ReportKeeps DEF NormalTemperature, NormalTemperatures
<1>4. CASE NormalPressure(d)
  BY <1>1, <1>4, ReportKeeps DEF NormalPressure, BrownianStep, NormalPressures
<1>5. CASE NormalVibration(d)
  BY <1>1, <1>5, ReportKeeps DEF NormalVibration, NormalVibrations
<1>6. CASE Spike(d)
  BY <1>1, <1>6, ReportKeeps DEF Spike, Spikes
<1>7. CASE Drift(d)
  <2>1. PICK steps \in Int : steps = drifted[d] + 1
    BY <1>1
  <2>2. PICK v \in Int : v = Smaller(DriftAnomaly(base, DriftRate, steps), base + DriftIncrease)
    BY DEF Smaller, DriftAnomaly, DriftRate, DriftIncrease
  <2>3. /\ drifted' = [drifted EXCEPT ![d] = steps]
        /\ last' = [last EXCEPT ![d] = v]
        /\ current' = current /\ Report(d, v)
    BY <1>2, <1>7, <2>1, <2>2 DEF Drift
  <2> QED
    BY <1>1, <2>3, ReportKeeps
<1>8. CASE Stuck(d)
  BY <1>1, <1>2, <1>8, ReportKeeps DEF Stuck, StuckSensor
<1>9. CASE PressureJump(d)
  <2>1. PICK p \in BrownianStep(current[d]), jump \in {PressureDrop, Overpressure} :
           /\ current' = [current EXCEPT ![d] = p]
           /\ Report(d, p + jump) /\ UNCHANGED <<last, drifted>>
    BY <1>9 DEF PressureJump
  <2>2. p \in Int /\ p + jump \in Int
    BY DEF BrownianStep, NormalPressures, PressureDrop, Overpressure
  <2> QED
    BY <1>1, <2>1, <2>2, ReportKeeps
<1>10. CASE BearingFailure(d)
  BY <1>1, <1>10, ReportKeeps DEF BearingFailure, BearingFailures
<1>11. CASE ErraticBurst(d)
  <2>1. PICK r \in NormalVibrations, f \in BurstFactors :
           Report(d, Magnitude(PointAnomaly(r, f))) /\ UNCHANGED <<last, drifted, current>>
    BY <1>11 DEF ErraticBurst
  <2>2. PointAnomaly(r, f) \in Int
    BY DEF PointAnomaly, NormalVibrations, BurstFactors
  <2>3. Magnitude(PointAnomaly(r, f)) \in Int
    BY <2>2 DEF Magnitude
  <2> QED
    BY <1>1, <2>1, <2>3, ReportKeeps
<1> QED
  BY <1>3, <1>4, <1>5, <1>6, <1>7, <1>8, <1>9, <1>10, <1>11 DEF Sample

\* A part of a sequence of numbers is one.
LEMMA PartOf ==
    ASSUME NEW s \in Seq(Int), NEW m \in Nat \ {0}, NEW n \in Int, n <= Len(s)
    PROVE  SubSeq(s, m, n) \in Seq(Int)
<1>1. Len(s) \in Nat /\ \A i \in 1..Len(s) : s[i] \in Int
  BY LenProperties
<1>2. \A i \in m..n : s[i] \in Int
  BY <1>1
<1> QED
  BY <1>2, SubSeqProperties

LEMMA NewestIs ==
    ASSUME NEW s \in Seq(Int), NEW t \in Seq(Int)
    PROVE  Newest(s \o t) \in Seq(Int)
<1>1. PICK all \in Seq(Int) : all = s \o t
  BY ConcatProperties
<1>2. Len(all) \in Nat /\ WindowSize \in Nat
  BY LenProperties, FeatureAssumption
<1>3. PICK first \in Int : first = Len(all) - WindowSize + 1
  <2>1. \A a, b \in Nat : a - b + 1 \in Int
    OBVIOUS
  <2>2. Len(all) - WindowSize + 1 \in Int
    BY <1>2, <2>1
  <2> QED
    BY <2>2
<1>4. PICK from \in Nat \ {0} : from = Max({1, first})
  <2>1. Max({1, first}) = IF 1 >= first THEN 1 ELSE first
    BY LargerOf
  <2> QED
    BY <2>1
<1>5. SubSeq(all, from, Len(all)) \in Seq(Int)
  BY <1>2, PartOf
<1> QED
  BY <1>1, <1>3, <1>4, <1>5 DEF Newest

LEMMA ExtractKeeps ==
    ASSUME WindowInv, NEW d \in Devices, NEW values \in Seq(Int), Extract(d, values)
    PROVE  WindowInv' /\ RowsInv'
<1>1. given[d] \in Seq(Int) /\ windows = given /\ given \in [Devices -> Seq(Int)]
  BY DEF WindowInv
<1>2. Newest(given[d] \o values) \in Seq(Int)
  BY <1>1, NewestIs
<1>3. WindowInv'
  BY <1>1, <1>2 DEF Extract, WindowInv, Remember
<1>4. ASSUME NEW r \in rows'
      PROVE  /\ r.device \in Devices /\ r.value \in Int /\ r.before \in Seq(Int)
             /\ r.dev = Deviation(r.before, r.value)
  <2>1. PICK i \in DOMAIN values :
           r = [device |-> d, value |-> values[i],
                dev |-> Deviation(Remember(windows[d], SubSeq(values, 1, i - 1)), values[i]),
                before |-> Newest(given[d] \o SubSeq(values, 1, i - 1))]
    BY DEF Extract
  <2>2. i \in 1..Len(values) /\ Len(values) \in Nat /\ values[i] \in Int
    BY LenProperties
  <2>3. PICK earlier \in Seq(Int) : earlier = SubSeq(values, 1, i - 1)
    <3>1. i - 1 \in Int /\ i - 1 <= Len(values) /\ 1 \in Nat \ {0}
      BY <2>2
    <3> QED
      BY <3>1, PartOf
  <2>4. PICK before \in Seq(Int) : before = Newest(given[d] \o earlier)
    BY <1>1, NewestIs
  <2>5. Remember(windows[d], earlier) = before
    BY <1>1, <2>4 DEF Remember
  <2>6. r = [device |-> d, value |-> values[i], dev |-> Deviation(before, values[i]),
             before |-> before]
    BY <2>1, <2>3, <2>4, <2>5
  <2> QED
    BY <2>2, <2>6
<1>5. RowsInv'
  BY <1>4 DEF RowsInv
<1> QED
  BY <1>3, <1>5

LEMMA TakeKeeps ==
    ASSUME SensorInv, NEW d \in Devices, NEW n \in Nat, Take(d, n)
    PROVE  /\ SensorInv'
           /\ n <= Len(outbox[d]) /\ outbox[d] \in Seq(Int) /\ SubSeq(outbox[d], 1, n) \in Seq(Int)
<1>1. outbox[d] \in Seq(Int) /\ Len(outbox[d]) \in Nat
  BY LenProperties DEF SensorInv
<1>2. n \in 1..Len(outbox[d])
  BY DEF Take
<1>3. SubSeq(outbox[d], n + 1, Len(outbox[d])) \in Seq(Int) /\ SubSeq(outbox[d], 1, n) \in Seq(Int)
  BY <1>1, <1>2, PartOf
<1>4. SensorInv'
  BY <1>3 DEF Take, SensorInv
<1> QED
  BY <1>1, <1>2, <1>3, <1>4

LEMMA FeatureInvNext == FeatureInv /\ [FeatureNext]_featureVars => FeatureInv'
<1> SUFFICES ASSUME FeatureInv, [FeatureNext]_featureVars  PROVE FeatureInv'
  OBVIOUS
<1>1. SensorInv /\ WindowInv /\ RowsInv
  BY DEF FeatureInv
<1>2. UNCHANGED sensorVars => SensorInv'
  BY <1>1 DEF sensorVars, SensorInv
<1>3. UNCHANGED <<windows, given>> => WindowInv'
  BY <1>1 DEF WindowInv
<1>4. rows' = {} \/ rows' = rows => RowsInv'
  BY <1>1 DEF RowsInv
<1>5. CASE \E d \in Devices : FeatureSample(d)
  BY <1>1, <1>3, <1>4, <1>5, SampleKeeps DEF FeatureSample, FeatureInv
<1>6. ASSUME NEW d \in Devices, NEW n \in 1..2, NEW bad \in 0..n, ProcessBatch(d, n, bad)
      PROVE  FeatureInv'
  <2>1. /\ SensorInv' /\ n <= Len(outbox[d]) /\ outbox[d] \in Seq(Int)
        /\ SubSeq(outbox[d], 1, n) \in Seq(Int) /\ n \in Nat
    BY <1>1, <1>6, TakeKeeps DEF ProcessBatch
  <2>2. PICK taken \in Seq(Int) : taken = SubSeq(outbox[d], 1, n)
    BY <2>1
  <2>3. Len(taken) = n
    BY <2>1, <2>2
  <2>4. bad # 0 => RemoveAt(taken, bad) \in Seq(Int)
    <3> SUFFICES ASSUME bad # 0  PROVE RemoveAt(taken, bad) \in Seq(Int)
      OBVIOUS
    <3>1. SubSeq(taken, 1, bad - 1) \in Seq(Int) /\ SubSeq(taken, bad + 1, Len(taken)) \in Seq(Int)
      BY <2>1, <2>3, PartOf
    <3> QED
      BY <3>1, ConcatProperties DEF RemoveAt
  <2>5. PICK values \in Seq(Int) : values = IF bad = 0 THEN taken ELSE RemoveAt(taken, bad)
    BY <2>4
  <2>6. Extract(d, values)
    BY <1>6, <2>2, <2>5 DEF ProcessBatch
  <2> QED
    BY <1>1, <2>1, <2>6, ExtractKeeps DEF FeatureInv
<1>7. ASSUME NEW d \in Devices, NEW n \in 1..2, NEW bad \in 0..n, Predict(d, n, bad)
      PROVE  FeatureInv'
  <2>1. SensorInv' /\ n <= Len(outbox[d]) /\ outbox[d] \in Seq(Int) /\ n \in Nat
    BY <1>1, <1>7, TakeKeeps DEF Predict
  <2>2. PICK upTo \in Int : upTo = (IF bad = 0 THEN n ELSE bad - 1) /\ upTo <= n
    OBVIOUS
  <2>3. upTo <= Len(outbox[d]) /\ 1 \in Nat \ {0}
    BY <2>1, <2>2, LenProperties
  <2>4. PICK values \in Seq(Int) : values = SubSeq(outbox[d], 1, upTo)
    BY <2>1, <2>3, PartOf
  <2>5. Extract(d, values)
    BY <1>7, <2>2, <2>4 DEF Predict
  <2> QED
    BY <1>1, <2>1, <2>5, ExtractKeeps DEF FeatureInv
<1>8. ASSUME NEW d \in Devices, NEW n \in 1..2, PredictUnavailable(d, n)
      PROVE  FeatureInv'
  <2>1. n \in Nat
    OBVIOUS
  <2> QED
    BY <1>1, <1>3, <1>4, <1>8, <2>1, TakeKeeps DEF PredictUnavailable, FeatureInv
<1>9. CASE ModelLoads
  BY <1>2, <1>3, <1>4, <1>9 DEF ModelLoads, FeatureInv
<1>10. CASE ProcessRestarts
  <2>1. <<>> \in Seq(Int)
    BY EmptySeq
  <2>2. WindowInv'
    BY <1>10, <2>1 DEF ProcessRestarts, WindowInv
  <2> QED
    BY <1>2, <1>4, <1>10, <2>2 DEF ProcessRestarts, FeatureInv
<1>11. CASE UNCHANGED featureVars
  BY <1>2, <1>3, <1>4, <1>11 DEF featureVars, featureOnlyVars, FeatureInv
<1> QED
  BY <1>5, <1>6, <1>7, <1>8, <1>9, <1>10, <1>11 DEF FeatureNext

(***************************************************************************)
(* Whatever the sensors do and however calls fail, a reading whose device  *)
(* has mostly been normal deviates by at most the width of the normal      *)
(* range if it is normal and by more if it is far outside: for any size of *)
(* the window and any history asked for.                                   *)
(***************************************************************************)
THEOREM DeviationsAlwaysTell == FeatureSpec => []DeviationsTellFaults
<1>1. FeatureInv => DeviationsTellFaults
  <2> SUFFICES ASSUME FeatureInv, NEW r \in rows, MostlyNormal(r), Len(r.before) >= MinHistory
               PROVE  LET t == type[r.device]
                      IN  /\ Outside(t, r.value) = 0 => Magnitude(r.dev) <= 2 * Width(t)
                          /\ Outside(t, r.value) > Width(t) => Magnitude(r.dev) > 2 * Width(t)
    BY DEF DeviationsTellFaults
  <2>1. /\ r.device \in Devices /\ r.value \in Int /\ r.before \in Seq(Int)
        /\ r.dev = Deviation(r.before, r.value)
    BY DEF FeatureInv, RowsInv
  <2>2. PICK t \in Types : t = type[r.device]
    BY <2>1 DEF FeatureInv, SensorInv
  <2>3. PICK w \in Seq(Int), v \in Int : w = r.before /\ v = r.value
    BY <2>1
  <2>4. 2 * Cardinality({i \in DOMAIN w : Outside(t, w[i]) > 0}) < Len(w)
    BY <2>2, <2>3 DEF MostlyNormal
  <2>5. Len(w) >= MinHistory
    BY <2>3
  <2>6. /\ Outside(t, v) = 0 => Magnitude(Deviation(w, v)) <= 2 * Width(t)
        /\ Outside(t, v) > Width(t) => Magnitude(Deviation(w, v)) > 2 * Width(t)
    BY <2>4, <2>5, DeviationTells
  <2> QED
    BY <2>1, <2>2, <2>3, <2>6
<1> QED
  BY <1>1, FeatureInvInit, FeatureInvNext, PTL DEF FeatureSpec

=============================================================================
