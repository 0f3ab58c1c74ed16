---------------------------- MODULE MCModelCache ----------------------------
(* ModelCache with the three files of MlcLlm.kt 399, all of them packaged. *)
EXTENDS ModelCache

CONSTANTS ndarray, weights, config

Names   == <<ndarray, weights, config>>
AllOf   == {ndarray, weights, config}
=============================================================================
