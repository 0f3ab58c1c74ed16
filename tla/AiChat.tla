------------------------------- MODULE AiChat -------------------------------
(***************************************************************************)
(* The native conversation of the Android engine, ai_chat.cpp: where the   *)
(* tokens of a conversation lie in the cache of its context, how the       *)
(* context is shifted when it is full, and when a reply ends.              *)
(*                                                                         *)
(* The native functions run one at a time on the engine's thread and in    *)
(* the order that InferenceEngineImpl admits, whose state is phase; the    *)
(* phase "Stuck" is ProcessingUserPrompt after a prompt has failed.  One   *)
(* step is one pass of the decoding loop or one call of generateNextToken. *)
(*                                                                         *)
(* A token is what it belongs to, a prompt is its number of tokens.  The   *)
(* cache, llama_decode and llama_memory_seq_* belong to llama.cpp.  Here   *)
(* llama_decode fails for what the caller does wrong, never by itself.     *)
(***************************************************************************)
EXTENDS Integers, Sequences, FiniteSets

CONSTANTS
  DEFAULT_CONTEXT_SIZE,
  OVERFLOW_HEADROOM,
  BATCH_SIZE,
  PromptSizes,     \* numbers of tokens a formatted prompt may have
  PredictLengths,  \* values of n_predict
  HasTemplate,     \* the model brings a chat template of its own
  MaxMessages      \* messages of a conversation after which no prompt comes (bound)

Limit == DEFAULT_CONTEXT_SIZE - OVERFLOW_HEADROOM

ASSUME AiChatAssumption ==
  /\ DEFAULT_CONTEXT_SIZE \in Nat
  /\ OVERFLOW_HEADROOM \in Nat \ {0}
  /\ Limit \in Nat \ {0}
  /\ BATCH_SIZE \in Nat \ {0}
  /\ PromptSizes \subseteq Nat \ {0}
  /\ PredictLengths \subseteq Nat
  /\ HasTemplate \in BOOLEAN
  /\ MaxMessages \in Nat

VARIABLES
  phase,                     \* InferenceEngineImpl._state
  ready,                     \* InferenceEngineImpl._readyForSystemPrompt
  kv,                        \* the cache: position -> token
  system_prompt_position,
  current_position,
  stop_generation_position,
  chat_msgs,                 \* the roles of the messages
  call,                      \* the arguments of decode_tokens_in_batches and its caller
  i,                         \* tokens of the call that are decoded
  clean                      \* history: no prompt was truncated or met a full context

positions == <<system_prompt_position, current_position, stop_generation_position>>
decoding  == <<call, i>>
vars == <<phase, ready, kv, positions, chat_msgs, decoding, clean>>

Tokens == {"system", "user", "reply"}
Roles  == {"system", "user", "assistant"}
Phases == {"Initialized", "ModelReady", "ProcessingSystemPrompt",
           "ProcessingUserPrompt", "Generating", "Error", "Stuck"}

(* start_pos, the tokens to decode, the size before truncation, n_predict. *)
Call == [start_pos : Nat, tokens : Nat, size : Nat, n_predict : Nat]
NoCall == [start_pos |-> 0, tokens |-> 0, size |-> 0, n_predict |-> 0]

EmptyCache == [p \in {} |-> "user"]

TypeOK ==
  /\ phase \in Phases
  /\ ready \in BOOLEAN
  /\ DOMAIN kv \subseteq Nat
  /\ kv \in [DOMAIN kv -> Tokens]
  /\ system_prompt_position \in Nat
  /\ current_position \in Nat
  /\ system_prompt_position <= current_position
  /\ stop_generation_position \in Nat
  /\ chat_msgs \in Seq(Roles)
  /\ call \in Call
  /\ i \in 0..call.tokens
  /\ clean \in BOOLEAN

Init ==
  /\ phase = "Initialized"
  /\ ready = FALSE
  /\ kv = EmptyCache
  /\ system_prompt_position = 0
  /\ current_position = 0
  /\ stop_generation_position = 0
  /\ chat_msgs = <<>>
  /\ call = NoCall
  /\ i = 0
  /\ clean = TRUE

------------------------------------------------------------------------------
(* The cache of llama.cpp. *)

(* llama_decode takes n tokens at p if they follow what is in the cache    *)
(* and there are cells for them.                                           *)
Decodes(cache, p, n) ==
  /\ DOMAIN cache # {} =>
       p - 1 \in DOMAIN cache /\ \A q \in DOMAIN cache : q < p
  /\ Cardinality(DOMAIN cache) + n <= DEFAULT_CONTEXT_SIZE

Stored(cache, p, n, token) ==
  [q \in DOMAIN cache \cup p..(p + n - 1) |-> IF q >= p THEN token ELSE cache[q]]

------------------------------------------------------------------------------
(* shift_context *)

Discard == (current_position - system_prompt_position) \div 2

(* The positions that llama_memory_seq_add moves back by Discard; those     *)
(* before them, down to the system prompt, are removed.                    *)
Moved ==
  {p \in DOMAIN kv : system_prompt_position + Discard <= p /\ p < current_position}

ShiftedCache ==
  [p \in {q \in DOMAIN kv : q < system_prompt_position \/ q >= current_position}
           \cup {q - Discard : q \in Moved}
     |-> IF p + Discard \in Moved THEN kv[p + Discard] ELSE kv[p]]

(* Mutation: the counter is not moved. *)
UnshiftedPosition == current_position

ShiftedPosition == current_position - Discard

------------------------------------------------------------------------------
(* decode_tokens_in_batches *)

Smaller(m, n) == IF m < n THEN m ELSE n

(* Mutation: the last batch is as large as the others. *)
FullBatch == BATCH_SIZE

BatchTokens == Smaller(call.tokens - i, BATCH_SIZE)

BatchStart == call.start_pos + i

(* Mutation: only the start of the batch is looked at. *)
BatchBegins == BatchStart < Limit

BatchFits == BatchStart + BatchTokens < Limit

BatchCache == IF BatchFits THEN kv ELSE ShiftedCache

Decoding == phase \in {"ProcessingSystemPrompt", "ProcessingUserPrompt"}

PromptToken == IF phase = "ProcessingSystemPrompt" THEN "system" ELSE "user"

(* The tokens keep the positions that start_pos gives them, although the    *)
(* shift has moved what they are to follow.                                *)
Batch ==
  /\ Decoding
  /\ i < call.tokens
  /\ current_position' = IF BatchFits THEN current_position ELSE ShiftedPosition
  /\ clean' = (clean /\ (BatchFits \/ phase = "ProcessingSystemPrompt"))
  /\ UNCHANGED <<ready, system_prompt_position, stop_generation_position, chat_msgs, call>>

DecodeBatch ==
  /\ Batch
  /\ Decodes(BatchCache, BatchStart, BatchTokens)
  /\ kv' = Stored(BatchCache, BatchStart, BatchTokens, PromptToken)
  /\ i' = i + BatchTokens
  /\ UNCHANGED phase

FailBatch ==
  /\ Batch
  /\ ~Decodes(BatchCache, BatchStart, BatchTokens)
  /\ kv' = BatchCache
  /\ phase' = IF phase = "ProcessingSystemPrompt" THEN "Error" ELSE "Stuck"
  /\ UNCHANGED i

------------------------------------------------------------------------------
(* loadModel: a new context and a new sampler; the conversation's own state *)
(* is left as it is.                                                       *)
Load ==
  /\ phase = "Initialized"
  /\ phase' = "ModelReady"
  /\ ready' = TRUE
  /\ kv' = EmptyCache
  /\ clean' = TRUE
  /\ UNCHANGED <<positions, chat_msgs, decoding>>

(* A load that fails: the next one that succeeds makes its own context.    *)
FailLoad ==
  /\ phase = "Initialized"
  /\ phase' = "Error"
  /\ UNCHANGED <<ready, kv, positions, chat_msgs, decoding, clean>>

(* unload, in a clean-up of the state ModelReady *)
Unload ==
  /\ phase = "ModelReady"
  /\ phase' = "Initialized"
  /\ ready' = FALSE
  /\ kv' = EmptyCache
  /\ system_prompt_position' = 0
  /\ current_position' = 0
  /\ stop_generation_position' = 0
  /\ chat_msgs' = <<>>
  /\ UNCHANGED <<decoding, clean>>

(* A clean-up of the state Error *)
ResetError ==
  /\ phase = "Error"
  /\ phase' = "Initialized"
  /\ UNCHANGED <<ready, kv, positions, chat_msgs, decoding, clean>>

(* benchModel works on a context of its own. *)
Bench ==
  /\ phase = "ModelReady"
  /\ ready' = FALSE
  /\ UNCHANGED <<phase, kv, positions, chat_msgs, decoding, clean>>

------------------------------------------------------------------------------
(* processSystemPrompt *)

Added(role) == IF HasTemplate THEN Append(chat_msgs, role) ELSE chat_msgs

(* Mutation: a system prompt is taken at any time. *)
MayInstruct == phase = "ModelReady"

ReadyForSystemPrompt == phase = "ModelReady" /\ ready

(* A prompt that is too long is refused after the state has been reset. *)
StartSystemPrompt(n) ==
  /\ ReadyForSystemPrompt
  /\ ready' = FALSE
  /\ kv' = EmptyCache
  /\ system_prompt_position' = 0
  /\ current_position' = 0
  /\ stop_generation_position' = 0
  /\ chat_msgs' = IF HasTemplate THEN <<"system">> ELSE <<>>
  /\ phase' = IF n > Limit THEN "Error" ELSE "ProcessingSystemPrompt"
  /\ call' = [start_pos |-> 0, tokens |-> n, size |-> n, n_predict |-> 0]
  /\ i' = 0
  /\ UNCHANGED clean

(* Mutation: the end of the system prompt is not remembered. *)
EndPrompt ==
  /\ phase = "ProcessingSystemPrompt"
  /\ i = call.tokens
  /\ current_position' = call.tokens
  /\ phase' = "ModelReady"
  /\ UNCHANGED <<ready, kv, system_prompt_position, stop_generation_position, chat_msgs,
                 decoding, clean>>

EndSystemPrompt ==
  /\ phase = "ProcessingSystemPrompt"
  /\ i = call.tokens
  /\ system_prompt_position' = call.tokens
  /\ current_position' = call.tokens
  /\ phase' = "ModelReady"
  /\ UNCHANGED <<ready, kv, stop_generation_position, chat_msgs, decoding, clean>>

------------------------------------------------------------------------------
(* processUserPrompt *)

StartUserPrompt(n, n_predict) ==
  /\ phase = "ModelReady"
  /\ Len(chat_msgs) < MaxMessages
  /\ phase' = "ProcessingUserPrompt"
  /\ ready' = FALSE
  /\ stop_generation_position' = 0
  /\ chat_msgs' = Added("user")
  /\ call' = [start_pos |-> current_position, tokens |-> Smaller(n, Limit),
              size |-> n, n_predict |-> n_predict]
  /\ i' = 0
  /\ clean' = (clean /\ n <= Limit)
  /\ UNCHANGED <<kv, system_prompt_position, current_position>>

(* The position moves by the size before truncation, and the stop position *)
(* counts the prompt once more.                                            *)
EndUserPrompt ==
  /\ phase = "ProcessingUserPrompt"
  /\ i = call.tokens
  /\ current_position' = current_position + call.size
  /\ stop_generation_position' = current_position + call.size + call.size + call.n_predict
  /\ phase' = "Generating"
  /\ UNCHANGED <<ready, kv, system_prompt_position, chat_msgs, decoding, clean>>

------------------------------------------------------------------------------
(* generateNextToken, which first makes room *)

(* Mutation: off by one, at the wrong limit. *)
HasRoomAtTheEnd == current_position <= DEFAULT_CONTEXT_SIZE

(* Mutation: room for a batch where one token is needed. *)
HasRoomForBatch == current_position + BATCH_SIZE < Limit

HasRoom == current_position < Limit

RoomCache == IF HasRoom THEN kv ELSE ShiftedCache

RoomPosition == IF HasRoom THEN current_position ELSE ShiftedPosition

Generate ==
  /\ phase = "Generating"
  /\ UNCHANGED <<ready, system_prompt_position, stop_generation_position, decoding, clean>>

ReachStop ==
  /\ Generate
  /\ RoomPosition >= stop_generation_position
  /\ kv' = RoomCache
  /\ current_position' = RoomPosition
  /\ phase' = "ModelReady"
  /\ UNCHANGED chat_msgs

FailToken ==
  /\ Generate
  /\ RoomPosition < stop_generation_position
  /\ ~Decodes(RoomCache, RoomPosition, 1)
  /\ kv' = RoomCache
  /\ current_position' = RoomPosition
  /\ phase' = "ModelReady"
  /\ UNCHANGED chat_msgs

DecodeToken ==
  /\ Generate
  /\ RoomPosition < stop_generation_position
  /\ Decodes(RoomCache, RoomPosition, 1)
  /\ kv' = Stored(RoomCache, RoomPosition, 1, "reply")
  /\ current_position' = RoomPosition + 1

EmitToken ==
  /\ DecodeToken
  /\ UNCHANGED <<phase, chat_msgs>>

EndOfGeneration ==
  /\ DecodeToken
  /\ chat_msgs' = Append(chat_msgs, "assistant")
  /\ phase' = "ModelReady"

(* The loop of sendUserPrompt is told to stop, or its collector leaves. *)
Cancel ==
  /\ phase = "Generating"
  /\ phase' = "ModelReady"
  /\ UNCHANGED <<ready, kv, positions, chat_msgs, decoding, clean>>

------------------------------------------------------------------------------
Prompt == DecodeBatch \/ FailBatch \/ EndSystemPrompt \/ EndUserPrompt

NextToken == ReachStop \/ FailToken \/ EmitToken \/ EndOfGeneration

Next ==
  \/ Load
  \/ FailLoad
  \/ Unload
  \/ ResetError
  \/ Bench
  \/ \E n \in PromptSizes : StartSystemPrompt(n)
  \/ \E n \in PromptSizes, p \in PredictLengths : StartUserPrompt(n, p)
  \/ Prompt
  \/ NextToken
  \/ Cancel

Spec == Init /\ [][Next]_vars

(* The engine's thread goes on with a native function it has called, and   *)
(* with the loop over generateNextToken; nobody has to cancel.             *)
FairSpec == Spec /\ WF_vars(Prompt) /\ WF_vars(NextToken)

------------------------------------------------------------------------------
(* As long as no prompt was truncated or met a full context, the cache     *)
(* holds exactly the positions before the one the next token gets: every   *)
(* shift moves the tokens and the counter alike.                           *)
CacheMatchesPosition ==
  clean =>
    CASE phase \in {"ModelReady", "Generating"} -> DOMAIN kv = 0..(current_position - 1)
      [] Decoding -> DOMAIN kv = 0..(BatchStart - 1)
      [] OTHER -> TRUE

(* No shift, failed prompt or reply ever touches the system prompt, and    *)
(* nothing else ever lies in its place.                                    *)
HoldsSystemPrompt(cache) ==
  /\ 0..(system_prompt_position - 1) \subseteq DOMAIN cache
  /\ \A p \in DOMAIN cache : cache[p] = "system" <=> p < system_prompt_position

Conversing == phase \in {"ModelReady", "ProcessingUserPrompt", "Generating"}

SystemPromptKept == Conversing => HoldsSystemPrompt(kv)

(* "Infinite text generation via context shifting": a shift makes room for *)
(* the next token, unless the system prompt alone fills the context.       *)
InfiniteText ==
  phase = "Generating" /\ clean /\ system_prompt_position + 2 <= Limit =>
    Decodes(RoomCache, RoomPosition, 1)

(* A prompt that is neither truncated nor meets a full context is decoded. *)
OnlyFullContextsFail ==
  phase = "Stuck" => ~clean

(* A reply whose stop position lies within the context ends, whatever the  *)
(* model says.                                                             *)
StopsWithinContext ==
  phase = "Generating" /\ stop_generation_position < Limit ~> phase # "Generating"

(* What ai_chat.cpp does to the state of the engine is what the engine     *)
(* itself does to it (InferenceEngine has the same property): the calls    *)
(* that are possible here are those InferenceEngineImpl makes.             *)
EP == INSTANCE EnginePhases

FollowsPhases == EP!Spec

(* What the proofs need to know of the positions in each phase. *)
FreshInv ==
  /\ ready => phase = "ModelReady" /\ clean /\ DOMAIN kv = {}
  /\ ready \/ phase \in {"Initialized", "Error", "ProcessingSystemPrompt"} =>
       system_prompt_position = 0 /\ current_position = 0

SystemInv ==
  phase = "ProcessingSystemPrompt" =>
    /\ clean
    /\ call.start_pos = 0
    /\ call.tokens <= Limit
    /\ \A p \in DOMAIN kv : kv[p] = "system"

UserInv ==
  phase = "ProcessingUserPrompt" =>
    /\ system_prompt_position <= call.start_pos
    /\ call.tokens > 0
    /\ clean => /\ call.start_pos = current_position
                /\ call.tokens = call.size
                /\ i > 0 => BatchStart < Limit

(* While the counter can be trusted it passes the limit only if the system *)
(* prompt leaves no room to shift.                                         *)
RoomInv ==
  /\ phase \in {"ModelReady", "Generating"}
  /\ clean
  /\ system_prompt_position + 2 <= Limit
  => current_position <= Limit

(* The counters of ai_chat.cpp stay in step with InferenceEngineImpl: a     *)
(* fresh engine has none left over, a prompt is decoded from where the     *)
(* conversation stands, and generation never carries them past the limit.  *)
PositionsInv ==
  FreshInv /\ SystemInv /\ UserInv /\ RoomInv

(* "Shift context if current batch cannot fit into the context" and        *)
(* "Ensure user prompt doesn't exceed the context size by truncating if    *)
(* necessary": no prompt fails.                                            *)
NoPromptFails == phase # "Stuck"
==============================================================================
