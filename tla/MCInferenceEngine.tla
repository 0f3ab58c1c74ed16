-------------------------- MODULE MCInferenceEngine --------------------------
(* Small instances of InferenceEngine for TLC. *)
EXTENDS InferenceEngine, TLC

AllKinds == Suspending \cup Blocking
==============================================================================
