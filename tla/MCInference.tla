----------------------------- MODULE MCInference -----------------------------
(***************************************************************************)
(* ml-inference in one run: the detectors that read the stream, the model  *)
(* that is downloaded, swapped in and loaded again after a restart, and    *)
(* the features made of what the devices report.  A detector and an        *)
(* extractor know of a model only whether one is loaded, and which values  *)
(* score high is the model's business, so a behaviour exercises one of the *)
(* three parts while the others are idle.                                  *)
(***************************************************************************)
EXTENDS AnomalyDetector, ModelSwap, Features

VARIABLE part    \* the one a behaviour exercises; fixed

\* Everything but evictions at once, evictions with crashes, and what the
\* conditional properties ask for.
Unevicted == DetectDisruptions \ {"evict"}

AnyDetectFailure ==
    {Unevicted, Unevicted \ {"xadd_refused"},
     {"malformed", "evict"}, {"evict", "crash"}}

\* Versions are withdrawn where reloads do not overlap, and there files are
\* good or rejected (Init).
NoWithdrawal == SwapDisruptions \ {"withdraw"}

AnySwapFailure ==
    {NoWithdrawal, NoWithdrawal \ {"torn_write"}, SwapDisruptions \ {"overlap"}}

inferenceVars == <<detectVars, swapVars, featureVars, part>>

Init ==
    /\ part \in {"detector", "models", "features"}
    /\ DetectInit
    /\ part = "detector" \/ detectFaults = {"malformed", "evict"}
    /\ SwapInit
    /\ "withdraw" \in swapFaults => \A v \in Versions : kind[v] \in {"good", "bad_onnx"}
    /\ \/ part = "models"
       \/ swapFaults = NoWithdrawal /\ \A v \in Versions : kind[v] = "good"
    /\ FeatureInit
    /\ \/ part = "features"
       \/ ~ready /\ \A d \in Devices : type[d] = "vibration_sensor"

Next ==
    /\ UNCHANGED part
    /\ \/ /\ part = "detector" /\ DetectNext
          /\ UNCHANGED <<swapVars, featureVars>>
       \/ /\ part = "models" /\ SwapNext
          /\ UNCHANGED <<detectVars, featureVars>>
       \/ /\ part = "features" /\ FeatureNext
          /\ UNCHANGED <<detectVars, swapVars>>

Spec ==
    /\ Init
    /\ [][Next]_inferenceVars
    /\ DetectFairness
    /\ SwapFairness

=============================================================================
