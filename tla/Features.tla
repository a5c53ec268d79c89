------------------------------ MODULE Features ------------------------------
(***************************************************************************)
(* ml-inference's feature extractor: the sliding window of each device's   *)
(* recent values and the deviation of a reading from their median, as the  *)
(* stream consumer and the prediction routes use it.  Both share the one   *)
(* extractor of the process, so a device's window holds what either gave   *)
(* it, also when the call then failed.                                     *)
(*                                                                         *)
(* A reading is its main value; the learned scale, which is linear, and    *)
(* the features that do not depend on the past are left out, and so are    *)
(* the counters of GET /inference/stats.  Deviations are counted in        *)
(* halves, as the median of an even number of values may be one.           *)
(***************************************************************************)
EXTENDS Sensors, SequencesExt

CONSTANTS
    WindowSize,    \* the deque's maxlen
    MinHistory     \* MIN_HISTORY

ASSUME FeatureAssumption ==
    /\ WindowSize \in Nat /\ MinHistory \in Nat \ {0}
    /\ MinHistory <= WindowSize

VARIABLES
    windows,   \* FeatureExtractor._windows
    ready,     \* InferenceEngine.is_loaded
    rows,      \* what the call just made extracted
    given      \* the newest values each device's extractor was given (history)

featureOnlyVars == <<windows, ready, rows, given>>
featureVars == <<sensorVars, featureOnlyVars>>

Clip == 2 * 1000    \* _FEATURE_CLIP

Newest(s) == SubSeq(s, Max({1, Len(s) - WindowSize + 1}), Len(s))

\* Fault: the deque has no maxlen.
Remember_all(w, values) == w \o values

\* Appending to a deque with a maxlen drops the oldest.
Remember(w, values) == Newest(w \o values)

\* The k-th smallest of a window's values.
Ranked(w, k) ==
    Min({x \in Range(w) : Cardinality({i \in DOMAIN w : w[i] <= x}) >= k})

\* statistics.median, times two.
TwiceMedian(w) == Ranked(w, (Len(w) + 1) \div 2) + Ranked(w, (Len(w) + 2) \div 2)

Clipped(x) == Max({-Clip, Min({Clip, x})})

\* extract_row compares before it appends.
Deviation(w, v) ==
    IF Len(w) >= MinHistory THEN Clipped(2 * v - TwiceMedian(w)) ELSE 0

-----------------------------------------------------------------------------
FeatureInit ==
    /\ SensorInit
    /\ windows = [d \in Devices |-> <<>>]
    /\ ready \in BOOLEAN
    /\ rows = {}
    /\ given = [d \in Devices |-> <<>>]

(***************************************************************************)
(* extract_row for one reading after the other, and what it leaves.        *)
(***************************************************************************)
Extract(d, values) ==
    /\ windows' = [windows EXCEPT ![d] = Remember(@, values)]
    /\ given' = [given EXCEPT ![d] = Newest(@ \o values)]
    /\ rows' = {LET earlier == SubSeq(values, 1, i - 1)
                IN  [device |-> d, value |-> values[i],
                     dev |-> Deviation(Remember(windows[d], earlier), values[i]),
                     before |-> Newest(given[d] \o earlier)] : i \in DOMAIN values}

\* The first n readings of a device leave for a batch or a request.
Take(d, n) ==
    /\ n \in 1..Len(outbox[d])
    /\ outbox' = [outbox EXCEPT ![d] = SubSeq(@, n + 1, Len(@))]
    /\ UNCHANGED <<type, last, drifted, current, made>>

(***************************************************************************)
(* _process_batch: an entry that cannot be parsed (the bad-th) is skipped. *)
(* The windows have changed whether or not the engine then raises "No      *)
(* model loaded".                                                          *)
(***************************************************************************)
ProcessBatch(d, n, bad) ==
    /\ Take(d, n)
    /\ Extract(d, IF bad = 0 THEN SubSeq(outbox[d], 1, n)
                  ELSE RemoveAt(SubSeq(outbox[d], 1, n), bad))
    /\ UNCHANGED ready

(***************************************************************************)
(* POST /predict and /predict/batch: 503 before anything is extracted if   *)
(* no model is loaded; a value that is not a number raises after the       *)
(* readings before it have entered the window, and nothing is answered.    *)
(***************************************************************************)
Predict(d, n, bad) ==
    /\ ready
    /\ Take(d, n)
    /\ Extract(d, SubSeq(outbox[d], 1, IF bad = 0 THEN n ELSE bad - 1))
    /\ UNCHANGED ready

PredictUnavailable(d, n) ==
    /\ ~ready
    /\ Take(d, n)
    /\ rows' = {}
    /\ UNCHANGED <<windows, ready, given>>

ModelLoads ==
    /\ ~ready
    /\ ready' = TRUE
    /\ rows' = {}
    /\ UNCHANGED <<sensorVars, windows, given>>

\* A new process has a new extractor and new counters.
ProcessRestarts ==
    /\ windows' = [d \in Devices |-> <<>>]
    /\ given' = [d \in Devices |-> <<>>]
    /\ ready' \in BOOLEAN
    /\ rows' = {}
    /\ UNCHANGED sensorVars

FeatureSample(d) ==
    /\ Sample(d)
    /\ rows' = {}
    /\ UNCHANGED <<windows, ready, given>>

FeatureNext ==
    \/ \E d \in Devices :
          \/ FeatureSample(d)
          \/ \E n \in 1..2 :
                \/ \E bad \in 0..n : ProcessBatch(d, n, bad) \/ Predict(d, n, bad)
                \/ PredictUnavailable(d, n)
    \/ ModelLoads
    \/ ProcessRestarts

-----------------------------------------------------------------------------
Width(t) == NormalHigh(t) - NormalLow(t)

\* How far a value is outside the normal range.
Outside(t, v) == Max({0, NormalLow(t) - v, v - NormalHigh(t)})

\* Of the values before it, more are normal than not.
MostlyNormal(r) ==
    LET faulty == {i \in DOMAIN r.before : Outside(type[r.device], r.before[i]) > 0}
    IN  2 * Cardinality(faulty) < Len(r.before)

(***************************************************************************)
(* "The median keeps a single spike from polluting the next N readings":   *)
(* as long as most of what the device reported last was normal, by         *)
(* whichever way it came and whatever failed meanwhile, a normal reading   *)
(* deviates by no more than the width of the normal range, and one far     *)
(* outside it deviates by more.                                            *)
(***************************************************************************)
DeviationsTellFaults ==
    \A r \in rows :
        MostlyNormal(r) /\ Len(r.before) >= MinHistory =>
            LET t == type[r.device]
            IN  /\ Outside(t, r.value) = 0 => Magnitude(r.dev) <= 2 * Width(t)
                /\ Outside(t, r.value) > Width(t) => Magnitude(r.dev) > 2 * Width(t)

=============================================================================
