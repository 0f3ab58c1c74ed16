----------------------------- MODULE MCMlcNative -----------------------------
(* MlcNative on small instances; see the .cfg files for the bounds. *)
EXTENDS MlcNative
==============================================================================
