----------------------------- MODULE LLMInference -----------------------------
(***************************************************************************)
(* The native instance of SmolLM: LLMInference.cpp, the messages of a      *)
(* conversation, the cache of its context and the reply that is under way. *)
(*                                                                         *)
(* An instance is a record, a method an operator from the instance before  *)
(* it to the one after it.  A text is the set of the completions whose     *)
(* words it holds, every message is one token of a prompt, and a token is  *)
(* a whole character or one half of it.                                    *)
(***************************************************************************)
EXTENDS Naturals, Sequences

CONSTANTS
  ContextSize,  \* llama_n_ctx
  StoreChats    \* _storeChats

ASSUME LLMInferenceAssumption ==
  /\ ContextSize \in Nat
  /\ StoreChats \in BOOLEAN

Roles  == {"system", "user", "assistant"}
Bytes  == {"whole", "first", "second"}
Caches == {"empty", "half", "broken"}

(* What can be said of an instance of which completions are the callers:   *)
(* broken are the bytes of _cacheResponseTokens that no further byte turns *)
(* into a character; open, middle and tidy are history: the completion     *)
(* that has begun and not been stopped, whether its last token was a first *)
(* half, and whether completions came one after the other and the model    *)
(* wrote whole characters, a second half after each first one.             *)
Instance(completions) ==
  [alive    : BOOLEAN,
   messages : Seq([role : Roles, text : SUBSET completions]),
   response : SUBSET completions,      \* _response
   cache    : Caches,                  \* _cacheResponseTokens
   middle   : BOOLEAN,
   used     : Nat,                     \* llama_memory_seq_pos_max + 1
   batch    : Nat,                     \* _batch->n_tokens, 0 before any batch
   open     : SUBSET completions,
   tidy     : BOOLEAN]

(* loadModel; before it there is no instance. *)
Absent ==
  [alive |-> FALSE, messages |-> <<>>, response |-> {}, cache |-> "empty",
   middle |-> FALSE, used |-> 0, batch |-> 0, open |-> {}, tidy |-> TRUE]

Loaded == [Absent EXCEPT !.alive = TRUE]

(* The destructor *)
Closed(o) == [o EXCEPT !.alive = FALSE]

WithMessage(o, role, text) ==
  [o EXCEPT !.messages = Append(@, [role |-> role, text |-> text])]

(* Messages that are added from outside, in the middle of a completion or  *)
(* between two, alone or while another call works on the instance.         *)
WithHistory(o, messages, alone) ==
  [o EXCEPT !.messages = @ \o messages, !.tidy = @ /\ o.open = {} /\ alone]

(* startCompletion puts all messages into the new batch, those that are in *)
(* the cache already included.  What is left of a completion that was      *)
(* abandoned stays.                                                        *)
Asked(o, r) ==
  [WithMessage(o, "user", {r}) EXCEPT !.open = {r}, !.tidy = @ /\ o.open = {}]

Started(o, r) ==
  [Asked(o, r) EXCEPT !.batch = Len(o.messages) + 1, !.middle = FALSE]

------------------------------------------------------------------------------
(* completionLoop *)

(* Mutation: the tokens of the batch are not counted. *)
CacheIsFull(o) == o.used > ContextSize

(* "context size reached" *)
ContextReached(o) == o.used + o.batch > ContextSize

(* llama_decode finds no cells for a batch that does not fit: it returns 1, *)
(* which the loop takes for success.                                        *)
Decoded(o) ==
  IF o.used + o.batch <= ContextSize THEN [o EXCEPT !.used = @ + o.batch] ELSE o

(* Nothing makes the model write characters out. *)
Spelled(o, byte) == IF o.middle THEN byte = "second" ELSE byte # "second"

Bytewise(cache, byte) ==
  CASE cache = "empty" /\ byte = "whole"  -> "empty"
    [] cache = "empty" /\ byte = "first"  -> "half"
    [] cache = "half"  /\ byte = "second" -> "empty"
    [] OTHER -> "broken"

(* The reply grows by what makes valid UTF-8. *)
WithPiece(o, r, byte) ==
  LET c == Bytewise(o.cache, byte)
  IN [Decoded(o) EXCEPT !.cache = c,
                        !.middle = (byte = "first" /\ o.tidy),
                        !.response = IF c = "empty" THEN @ \cup {r} ELSE @,
                        !.batch = 1,
                        !.tidy = @ /\ Spelled(o, byte)]

(* Mutation: the reply is stored and kept. *)
EndedKeeping(o) ==
  [WithMessage(Decoded(o), "assistant", o.response) EXCEPT !.tidy = @ /\ ~o.middle]

Ended(o) ==
  [WithMessage(Decoded(o), "assistant", o.response) EXCEPT
     !.response = {}, !.tidy = @ /\ ~o.middle]

------------------------------------------------------------------------------
(* stopCompletion: the reply has been stored at its end, so that what is   *)
(* stored here is a second, empty message.                                 *)
Stopped(o) ==
  LET p == IF StoreChats THEN WithMessage(o, "assistant", o.response) ELSE o
  IN [p EXCEPT !.response = {}, !.open = {}]

(* benchModel works in the context of the conversation and clears it. *)
Benched(o) == [o EXCEPT !.used = 0]
==============================================================================
