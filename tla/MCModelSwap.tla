----------------------------- MODULE MCModelSwap -----------------------------
(***************************************************************************)
(* The model lifecycle with a registry that may hold a file ONNX Runtime   *)
(* rejects, and a service that crashes.                                    *)
(***************************************************************************)
EXTENDS ModelSwap

BadOnnx   == {"good", "bad_onnx"}
OnlyCrash == {{"crash"}}

Spec == SwapInit /\ [][SwapNext]_swapVars /\ SwapFairness

=============================================================================
