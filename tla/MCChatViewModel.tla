--------------------------- MODULE MCChatViewModel ---------------------------
(* ChatViewModel on small instances; see the .cfg files for the bounds. *)
EXTENDS ChatViewModel, TLC

(* Turns are interchangeable, where no liveness is checked. *)
Symmetric == Permutations(Turns)
==============================================================================
