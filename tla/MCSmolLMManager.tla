--------------------------- MODULE MCSmolLMManager ---------------------------
EXTENDS SmolLMManager, TLC

NoHistory == {<<>>}

(* A chat of a question and its answer *)
Exchange ==
  {<<[role |-> "user", text |-> {}], [role |-> "assistant", text |-> {}]>>}

(* The generations are made in any order; so are the loads. *)
Symmetric == Permutations(Responses) \cup Permutations(Loads)

(* What decides how things go on, and what the properties of SmolJobs look *)
(* at.  Of an instance that can still be called it is the room that is     *)
(* left, not the words; of a job that has been told to stop it is where it *)
(* is, of one that has ended nothing; and a crash changes nothing that the *)
(* properties look at.                                                     *)
Room(l) ==
  LET o == native[l]
  IN IF l = nativePtr \/ Shared(l)
       THEN <<o.alive, Len(o.messages), o.used, o.batch>> ELSE <<>>

Over == {l \in Loads : load[l] = "ended"} \cup {r \in Responses : response[r] = "ended"}

Moot == Over \cup cancelled

Job(j) == IF j \in Moot THEN Nobody ELSE j

Essence ==
  IF crashed THEN <<>>
  ELSE <<[l \in Loads |-> Room(l)], nativePtr, flags,
         Job(modelInitJob), Job(responseGenerationJob), cancelled \ Over,
         load, todo, resend \ Moot, response, benchmark, inside,
         [r \in Responses |-> IF r \in Moot THEN <<>> ELSE <<saved[r], asked[r]>>],
         adrift \ Moot, screen, window, main>>
==============================================================================
