---------------------------- MODULE AiChatProofs ----------------------------
(***************************************************************************)
(* What AiChat.tla says of a conversation holds for every size of context, *)
(* headroom and batch, every sequence of prompts and every model.          *)
(***************************************************************************)
EXTENDS AiChat, FiniteSetTheorems, TLAPS

ChatInv ==
  TypeOK /\ PositionsInv /\ CacheMatchesPosition /\ SystemPromptKept /\ OnlyFullContextsFail

------------------------------------------------------------------------------
(* What the operators of the cache do *)

(* Half of what follows the system prompt is discarded. *)
LEMMA DiscardBounds ==
  ASSUME TypeOK
  PROVE  /\ Discard \in Nat
         /\ 2 * Discard <= current_position - system_prompt_position
         /\ current_position - system_prompt_position < 2 * Discard + 2
         /\ ShiftedPosition \in Nat
         /\ system_prompt_position <= ShiftedPosition
         /\ ShiftedPosition <= current_position
<1> DEFINE d == current_position - system_prompt_position
<1>1. d \in Nat /\ current_position \in Nat /\ system_prompt_position \in Nat
  BY DEF TypeOK
<1>2. /\ d \div 2 \in Nat
      /\ 2 * (d \div 2) <= d
      /\ d < 2 * (d \div 2) + 2
  <2> HIDE DEF d
  <2> QED BY <1>1
<1>3. Discard = d \div 2 /\ ShiftedPosition = current_position - Discard
  BY DEF Discard, ShiftedPosition
<1> HIDE DEF d
<1>4. Discard \in Nat /\ 2 * Discard <= d /\ d < 2 * Discard + 2
  BY <1>2, <1>3
<1> QED BY <1>1, <1>3, <1>4 DEF d

(* A shift yields a cache again and leaves the system prompt where it is. *)
LEMMA ShiftKeeps ==
  ASSUME TypeOK
  PROVE  /\ DOMAIN ShiftedCache \subseteq Nat
         /\ ShiftedCache \in [DOMAIN ShiftedCache -> Tokens]
         /\ HoldsSystemPrompt(kv) => HoldsSystemPrompt(ShiftedCache)
<1> DEFINE Stay == {q \in DOMAIN kv : q < system_prompt_position \/ q >= current_position}
           Back == {q - Discard : q \in Moved}
<1>1. /\ Discard \in Nat
      /\ 2 * Discard <= current_position - system_prompt_position
  BY DiscardBounds
<1>2. /\ DOMAIN ShiftedCache = Stay \cup Back
      /\ \A p \in Stay \cup Back :
           ShiftedCache[p] = IF p + Discard \in Moved THEN kv[p + Discard] ELSE kv[p]
  BY DEF ShiftedCache
<1>3. \A q \in Moved : q \in DOMAIN kv /\ q \in Nat /\ system_prompt_position + Discard <= q
                       /\ q < current_position
  BY DEF Moved, TypeOK
<1>4. \A p \in Back : p \in Nat /\ p + Discard \in Moved /\ system_prompt_position <= p
  BY <1>1, <1>3 DEF TypeOK
<1>5. \A p \in Stay : p \in DOMAIN kv /\ p \in Nat
  BY DEF TypeOK
<1>6. DOMAIN ShiftedCache \subseteq Nat
  BY <1>2, <1>4, <1>5
<1>7. ShiftedCache \in [DOMAIN ShiftedCache -> Tokens]
  <2>1. \A p \in DOMAIN kv : kv[p] \in Tokens
    BY DEF TypeOK
  <2>2. \A p \in Stay \cup Back : ShiftedCache[p] \in Tokens
    BY <1>2, <1>3, <1>4, <1>5, <2>1
  <2>3. ShiftedCache = [p \in DOMAIN ShiftedCache |-> ShiftedCache[p]]
    BY DEF ShiftedCache
  <2> QED BY <1>2, <2>2, <2>3
<1>8. ASSUME HoldsSystemPrompt(kv) PROVE HoldsSystemPrompt(ShiftedCache)
  <2>1. \A p \in Stay : p < system_prompt_position => p + Discard \notin Moved
    BY <1>1, <1>3, <1>5 DEF TypeOK
  <2>2. 0..(system_prompt_position - 1) \subseteq DOMAIN ShiftedCache
    BY <1>2, <1>8 DEF HoldsSystemPrompt, TypeOK
  <2>3. ASSUME NEW p \in DOMAIN ShiftedCache
        PROVE  ShiftedCache[p] = "system" <=> p < system_prompt_position
    <3>1. CASE p + Discard \in Moved
      <4>1. ShiftedCache[p] = kv[p + Discard]
        BY <1>2, <3>1
      <4>2. p + Discard >= system_prompt_position + Discard
        BY <1>3, <3>1
      <4>3. p \in Nat
        BY <1>6
      <4>4. ~(p + Discard < system_prompt_position) /\ ~(p < system_prompt_position)
        BY <1>1, <4>2, <4>3 DEF TypeOK
      <4>5. kv[p + Discard] # "system"
        BY <1>3, <1>8, <3>1, <4>4 DEF HoldsSystemPrompt
      <4> QED BY <4>1, <4>4, <4>5
    <3>2. CASE p + Discard \notin Moved
      <4>1. p \in Stay
        BY <1>2, <1>4, <3>2
      <4>2. ShiftedCache[p] = kv[p]
        BY <1>2, <3>2, <4>1
      <4> QED BY <1>5, <1>8, <4>1, <4>2 DEF HoldsSystemPrompt
    <3> QED BY <3>1, <3>2
  <2> QED BY <2>2, <2>3 DEF HoldsSystemPrompt
<1> QED BY <1>6, <1>7, <1>8

(* A cache without holes has none after a shift. *)
LEMMA ShiftCloses ==
  ASSUME TypeOK, DOMAIN kv = 0..(current_position - 1)
  PROVE  DOMAIN ShiftedCache = 0..(ShiftedPosition - 1)
<1> DEFINE Stay == {q \in DOMAIN kv : q < system_prompt_position \/ q >= current_position}
           Back == {q - Discard : q \in Moved}
<1>1. /\ Discard \in Nat
      /\ ShiftedPosition = current_position - Discard
      /\ 2 * Discard <= current_position - system_prompt_position
  BY DiscardBounds DEF ShiftedPosition
<1>2. DOMAIN ShiftedCache = Stay \cup Back
  BY DEF ShiftedCache
<1>3. Stay = 0..(system_prompt_position - 1)
  BY DEF TypeOK
<1>4. Moved = (system_prompt_position + Discard)..(current_position - 1)
  BY <1>1 DEF Moved, TypeOK
<1>5. Back \subseteq system_prompt_position..(ShiftedPosition - 1)
  BY <1>1, <1>4 DEF TypeOK
<1>6. ASSUME NEW p \in system_prompt_position..(ShiftedPosition - 1) PROVE p \in Back
  <2>1. p + Discard \in Moved /\ p = (p + Discard) - Discard
    BY <1>1, <1>4 DEF TypeOK
  <2> QED BY <2>1
<1>7. 0..(ShiftedPosition - 1) =
        0..(system_prompt_position - 1) \cup system_prompt_position..(ShiftedPosition - 1)
  BY <1>1 DEF TypeOK
<1> QED BY <1>2, <1>3, <1>5, <1>6, <1>7

(* Where there is nothing behind the system prompt a shift does nothing. *)
LEMMA ShiftOfNothing ==
  ASSUME TypeOK, current_position = 0, system_prompt_position = 0
  PROVE  ShiftedCache = kv /\ ShiftedPosition = 0
<1>1. Discard = 0
  BY DiscardBounds
<1>2. Moved = {}
  BY <1>1 DEF Moved, TypeOK
<1>3. {q \in DOMAIN kv : q < system_prompt_position \/ q >= current_position} = DOMAIN kv
  <2>1. \A q \in DOMAIN kv : q >= current_position
    BY DEF TypeOK
  <2> QED BY <2>1
<1>4. {q - Discard : q \in Moved} = {}
  BY <1>2
<1>5. ShiftedCache = [p \in DOMAIN kv |-> kv[p]]
  <2>1. DOMAIN ShiftedCache = DOMAIN kv
    BY <1>3, <1>4 DEF ShiftedCache
  <2>2. \A p \in DOMAIN kv : ShiftedCache[p] = kv[p]
    BY <1>2, <1>3, <1>4 DEF ShiftedCache
  <2>3. ShiftedCache = [p \in DOMAIN ShiftedCache |-> ShiftedCache[p]]
    BY DEF ShiftedCache
  <2> QED BY <2>1, <2>2, <2>3
<1>6. kv = [p \in DOMAIN kv |-> kv[p]]
  BY DEF TypeOK
<1>7. ShiftedPosition = 0
  BY <1>1 DEF ShiftedPosition
<1> QED BY <1>5, <1>6, <1>7

(* What llama_decode leaves is a cache again. *)
LEMMA StoredTypes ==
  ASSUME NEW cache, NEW p \in Nat, NEW n \in Nat, NEW token \in Tokens,
         DOMAIN cache \subseteq Nat, cache \in [DOMAIN cache -> Tokens],
         NEW s, s = Stored(cache, p, n, token)
  PROVE  DOMAIN s \subseteq Nat /\ s \in [DOMAIN s -> Tokens]
<1>1. /\ s = [q \in DOMAIN cache \cup p..(p + n - 1) |-> IF q >= p THEN token ELSE cache[q]]
      /\ DOMAIN s = DOMAIN cache \cup p..(p + n - 1)
  BY DEF Stored
<1>2. DOMAIN s \subseteq Nat
  BY <1>1
<1>3. \A q \in DOMAIN s : (q >= p) \/ q \in DOMAIN cache
  BY <1>1
<1>4. \A q \in DOMAIN s : s[q] \in Tokens
  BY <1>1, <1>3
<1>5. s \in [DOMAIN s -> Tokens]
  BY <1>1, <1>4
<1> QED BY <1>2, <1>5

(* A cache without holes takes what follows it, if there are cells. *)
LEMMA FollowingDecodes ==
  ASSUME NEW cache, NEW p \in Nat, NEW n \in Nat,
         DOMAIN cache = 0..(p - 1), p + n <= DEFAULT_CONTEXT_SIZE
  PROVE  Decodes(cache, p, n)
<1>1. Cardinality(0..(p - 1)) = p
  <2>1. Cardinality(0..(p - 1)) = IF 0 > p - 1 THEN 0 ELSE (p - 1) - 0 + 1
    BY FS_Interval
  <2> QED BY <2>1
<1>2. DOMAIN cache # {} => p - 1 \in DOMAIN cache
  OBVIOUS
<1> QED BY <1>1, <1>2 DEF Decodes

------------------------------------------------------------------------------
(* The steps that share a shape *)

(* What a step of the decoding loop, failed or not, leaves of the types. *)
LEMMA BatchTypes ==
  ASSUME TypeOK, Batch
  PROVE  /\ BatchTokens \in Nat \ {0}
         /\ i + BatchTokens <= call.tokens
         /\ BatchStart \in Nat
         /\ current_position' \in Nat
         /\ system_prompt_position' <= current_position'
         /\ DOMAIN BatchCache \subseteq Nat
         /\ BatchCache \in [DOMAIN BatchCache -> Tokens]
<1>1. /\ call.tokens \in Nat /\ call.start_pos \in Nat /\ i \in Nat /\ i < call.tokens
      /\ BATCH_SIZE \in Nat \ {0}
  BY AiChatAssumption DEF TypeOK, Batch, Call
<1>2. BatchTokens \in Nat \ {0} /\ i + BatchTokens <= call.tokens /\ BatchStart \in Nat
  BY <1>1 DEF BatchTokens, Smaller, BatchStart
<1>3. current_position' \in Nat /\ system_prompt_position' <= current_position'
  BY DiscardBounds DEF Batch, TypeOK
<1>4. /\ DOMAIN BatchCache \subseteq Nat
      /\ BatchCache \in [DOMAIN BatchCache -> Tokens]
  BY ShiftKeeps DEF BatchCache, TypeOK
<1> QED BY <1>2, <1>3, <1>4

(* What generateNextToken finds when it has made room. *)
LEMMA RoomFacts ==
  ASSUME TypeOK
  PROVE  /\ RoomPosition \in Nat
         /\ system_prompt_position <= RoomPosition
         /\ DOMAIN RoomCache \subseteq Nat
         /\ RoomCache \in [DOMAIN RoomCache -> Tokens]
         /\ HoldsSystemPrompt(kv) => HoldsSystemPrompt(RoomCache)
         /\ DOMAIN kv = 0..(current_position - 1) => DOMAIN RoomCache = 0..(RoomPosition - 1)
<1>1. CASE HasRoom
  BY <1>1 DEF RoomPosition, RoomCache, TypeOK
<1>2. CASE ~HasRoom
  <2>1. RoomPosition = ShiftedPosition /\ RoomCache = ShiftedCache
    BY <1>2 DEF RoomPosition, RoomCache
  <2> QED BY <2>1, DiscardBounds, ShiftKeeps, ShiftCloses
<1> QED BY <1>1, <1>2

(* While the counter is below the limit or at it there is room for a token, *)
(* unless the system prompt fills the context.                             *)
LEMMA RoomForOne ==
  ASSUME TypeOK, current_position <= Limit, system_prompt_position + 2 <= Limit
  PROVE  RoomPosition < Limit
<1>1. CASE HasRoom
  BY <1>1 DEF HasRoom, RoomPosition
<1>2. CASE ~HasRoom
  <2>1. Limit \in Nat
    BY AiChatAssumption
  <2>2. current_position = Limit /\ RoomPosition = current_position - Discard
    BY <1>2, <2>1 DEF HasRoom, RoomPosition, ShiftedPosition, TypeOK
  <2>3. /\ Discard \in Nat
        /\ current_position - system_prompt_position < 2 * Discard + 2
    BY DiscardBounds
  <2>4. Discard > 0
    BY <2>1, <2>2, <2>3 DEF TypeOK
  <2> QED BY <2>1, <2>2, <2>3, <2>4
<1> QED BY <1>1, <1>2

(* A prompt of a clean conversation is decoded as long as it fits. *)
LEMMA FittingBatchDecodes ==
  ASSUME TypeOK, CacheMatchesPosition, Batch, clean, BatchFits
  PROVE  Decodes(BatchCache, BatchStart, BatchTokens)
<1>1. DOMAIN kv = 0..(BatchStart - 1)
  <2>1. phase \notin {"ModelReady", "Generating"} /\ Decoding
    BY DEF Batch, Decoding
  <2> QED BY <2>1 DEF CacheMatchesPosition
<1>2. BatchCache = kv /\ BatchStart + BatchTokens < Limit
  BY DEF BatchCache, BatchFits
<1>3. BatchStart \in Nat /\ BatchTokens \in Nat
  BY BatchTypes
<1>4. BatchStart + BatchTokens <= DEFAULT_CONTEXT_SIZE
  BY <1>2, <1>3, AiChatAssumption DEF Limit
<1> QED BY <1>1, <1>2, <1>3, <1>4, FollowingDecodes

------------------------------------------------------------------------------
(* The inductive invariant *)

LEMMA InitChatInv == Init => ChatInv
<1> SUFFICES ASSUME Init PROVE ChatInv
  OBVIOUS
<1>1. /\ phase = "Initialized" /\ ready = FALSE /\ clean = TRUE
      /\ system_prompt_position = 0 /\ current_position = 0 /\ stop_generation_position = 0
      /\ chat_msgs = <<>> /\ call = NoCall /\ i = 0
  BY DEF Init
<1>2. DOMAIN kv \subseteq Nat /\ kv \in [DOMAIN kv -> Tokens]
  BY DEF Init, EmptyCache
<1>3. call \in Call /\ i \in 0..call.tokens
  BY <1>1 DEF NoCall, Call
<1>4. chat_msgs \in Seq(Roles)
  BY <1>1
<1>5. TypeOK
  <2>1. phase \in Phases /\ ready \in BOOLEAN /\ clean \in BOOLEAN
    BY <1>1 DEF Phases
  <2>2. /\ system_prompt_position \in Nat /\ current_position \in Nat
        /\ stop_generation_position \in Nat /\ system_prompt_position <= current_position
    BY <1>1
  <2> QED BY <1>2, <1>3, <1>4, <2>1, <2>2 DEF TypeOK
<1>6. PositionsInv
  BY <1>1 DEF PositionsInv, FreshInv, SystemInv, UserInv, RoomInv
<1>7. CacheMatchesPosition /\ SystemPromptKept /\ OnlyFullContextsFail
  BY <1>1 DEF CacheMatchesPosition, Decoding, SystemPromptKept, Conversing, OnlyFullContextsFail
<1> QED BY <1>5, <1>6, <1>7 DEF ChatInv

(* Steps that load, clear or leave the context. *)
LEMMA ContextSteps ==
  ASSUME ChatInv, Load \/ FailLoad \/ Unload \/ ResetError \/ Bench \/ Cancel
  PROVE  ChatInv'
<1> USE DEF ChatInv
<1>0. /\ DOMAIN EmptyCache = {} /\ EmptyCache \in [DOMAIN EmptyCache -> Tokens]
      /\ 0..(0 - 1) = {}
  BY DEF EmptyCache
<1>1. CASE Load
  <2>1. TypeOK'
    BY <1>0, <1>1 DEF TypeOK, Load, positions, decoding, Phases
  <2>2. PositionsInv'
    BY <1>0, <1>1, AiChatAssumption
       DEF Load, positions, decoding, PositionsInv, FreshInv, SystemInv, UserInv, RoomInv
  <2>3. CacheMatchesPosition' /\ OnlyFullContextsFail'
    BY <1>0, <1>1 DEF Load, positions, PositionsInv, FreshInv, CacheMatchesPosition,
       Decoding, OnlyFullContextsFail
  <2>4. SystemPromptKept'
    BY <1>0, <1>1 DEF Load, positions, PositionsInv, FreshInv, SystemPromptKept,
       HoldsSystemPrompt
  <2> QED BY <2>1, <2>2, <2>3, <2>4
<1>2. CASE Unload
  <2>1. TypeOK'
    <3>1. <<>> \in Seq(Roles)
      OBVIOUS
    <3>2. phase' \in Phases /\ ready' \in BOOLEAN /\ clean' = clean
      BY <1>2 DEF Unload, Phases
    <3>3. DOMAIN kv' \subseteq Nat /\ kv' \in [DOMAIN kv' -> Tokens]
      BY <1>0, <1>2 DEF Unload
    <3>4. /\ system_prompt_position' = 0 /\ current_position' = 0
          /\ stop_generation_position' = 0 /\ chat_msgs' = <<>> /\ call' = call /\ i' = i
      BY <1>2 DEF Unload, decoding
    <3> QED BY <3>1, <3>2, <3>3, <3>4 DEF TypeOK
  <2>2. PositionsInv'
    BY <1>0, <1>2 DEF Unload, PositionsInv, FreshInv, SystemInv, UserInv, RoomInv
  <2>3. CacheMatchesPosition' /\ SystemPromptKept' /\ OnlyFullContextsFail'
    BY <1>2 DEF Unload, CacheMatchesPosition, Decoding, SystemPromptKept, Conversing,
       OnlyFullContextsFail
  <2> QED BY <2>1, <2>2, <2>3
<1>3. CASE ResetError
  <2>1. TypeOK'
    BY <1>3 DEF TypeOK, ResetError, positions, decoding, Phases
  <2>2. PositionsInv'
    BY <1>3 DEF ResetError, positions, PositionsInv, FreshInv, SystemInv, UserInv, RoomInv
  <2>3. CacheMatchesPosition' /\ SystemPromptKept' /\ OnlyFullContextsFail'
    BY <1>3 DEF ResetError, CacheMatchesPosition, Decoding, SystemPromptKept, Conversing,
       OnlyFullContextsFail
  <2> QED BY <2>1, <2>2, <2>3
<1>4. CASE Bench
  <2>1. TypeOK'
    BY <1>4 DEF TypeOK, Bench, positions, decoding, Phases
  <2>2. PositionsInv'
    BY <1>4 DEF Bench, positions, PositionsInv, FreshInv, SystemInv, UserInv, RoomInv
  <2>3. CacheMatchesPosition' /\ OnlyFullContextsFail'
    BY <1>4 DEF Bench, positions, CacheMatchesPosition, Decoding, OnlyFullContextsFail
  <2>4. SystemPromptKept'
    BY <1>4 DEF Bench, positions, SystemPromptKept, Conversing, HoldsSystemPrompt
  <2> QED BY <2>1, <2>2, <2>3, <2>4
<1>5. CASE Cancel
  <2>1. TypeOK'
    BY <1>5 DEF TypeOK, Cancel, positions, decoding, Phases
  <2>2. PositionsInv'
    BY <1>5 DEF Cancel, positions, PositionsInv, FreshInv, SystemInv, UserInv, RoomInv
  <2>3. CacheMatchesPosition' /\ OnlyFullContextsFail'
    BY <1>5 DEF Cancel, positions, CacheMatchesPosition, Decoding, OnlyFullContextsFail
  <2>4. SystemPromptKept'
    BY <1>5 DEF Cancel, positions, SystemPromptKept, Conversing, HoldsSystemPrompt
  <2> QED BY <2>1, <2>2, <2>3, <2>4
<1>6. CASE FailLoad
  <2>1. TypeOK'
    BY <1>6 DEF TypeOK, FailLoad, positions, decoding, Phases
  <2>2. PositionsInv'
    BY <1>6 DEF FailLoad, positions, PositionsInv, FreshInv, SystemInv, UserInv, RoomInv
  <2>3. CacheMatchesPosition' /\ SystemPromptKept' /\ OnlyFullContextsFail'
    BY <1>6 DEF FailLoad, CacheMatchesPosition, Decoding, SystemPromptKept, Conversing,
       OnlyFullContextsFail
  <2> QED BY <2>1, <2>2, <2>3
<1> QED BY <1>1, <1>2, <1>3, <1>4, <1>5, <1>6

(* The beginning of a prompt. *)
LEMMA StartSteps ==
  ASSUME ChatInv,
         \/ \E n \in PromptSizes : StartSystemPrompt(n)
         \/ \E n \in PromptSizes, p \in PredictLengths : StartUserPrompt(n, p)
  PROVE  ChatInv'
<1> USE DEF ChatInv
<1>0. /\ DOMAIN EmptyCache = {} /\ EmptyCache \in [DOMAIN EmptyCache -> Tokens]
      /\ 0..(0 - 1) = {}
  BY DEF EmptyCache
<1>1. ASSUME NEW n \in PromptSizes, StartSystemPrompt(n)
      PROVE  ChatInv'
  <2>1. n \in Nat \ {0} /\ clean
    BY <1>1, AiChatAssumption
       DEF StartSystemPrompt, ReadyForSystemPrompt, PositionsInv, FreshInv
  <2>2. call' \in Call /\ i' \in 0..call'.tokens /\ call'.tokens = n /\ call'.start_pos = 0
    BY <1>1, <2>1 DEF StartSystemPrompt, Call
  <2>3. chat_msgs' \in Seq(Roles)
    <3>1. <<>> \in Seq(Roles) /\ <<"system">> \in Seq(Roles)
      BY DEF Roles
    <3>2. chat_msgs' = <<>> \/ chat_msgs' = <<"system">>
      BY <1>1 DEF StartSystemPrompt
    <3> QED BY <3>1, <3>2
  <2>4. TypeOK'
    <3>1. phase' \in Phases /\ ready' \in BOOLEAN /\ clean' \in BOOLEAN
      BY <1>1 DEF TypeOK, StartSystemPrompt, Phases
    <3>2. DOMAIN kv' \subseteq Nat /\ kv' \in [DOMAIN kv' -> Tokens]
      BY <1>0, <1>1 DEF StartSystemPrompt
    <3>3. /\ system_prompt_position' = 0 /\ current_position' = 0
          /\ stop_generation_position' = 0
      BY <1>1 DEF StartSystemPrompt
    <3> QED BY <2>2, <2>3, <3>1, <3>2, <3>3 DEF TypeOK
  <2>5. PositionsInv'
    BY <1>0, <1>1, <2>1, <2>2, AiChatAssumption
       DEF StartSystemPrompt, PositionsInv, FreshInv, SystemInv, UserInv, RoomInv
  <2>6. CacheMatchesPosition' /\ SystemPromptKept' /\ OnlyFullContextsFail'
    BY <1>0, <1>1, <2>2 DEF StartSystemPrompt, CacheMatchesPosition, Decoding, BatchStart,
       SystemPromptKept, Conversing, OnlyFullContextsFail
  <2> QED BY <2>4, <2>5, <2>6
<1>2. ASSUME NEW n \in PromptSizes, NEW p \in PredictLengths, StartUserPrompt(n, p)
      PROVE  ChatInv'
  <2>1. n \in Nat \ {0} /\ p \in Nat /\ Limit \in Nat \ {0}
    BY AiChatAssumption
  <2>2. Smaller(n, Limit) \in Nat \ {0} /\ (n <= Limit => Smaller(n, Limit) = n)
    BY <2>1 DEF Smaller
  <2>3. /\ call' \in Call /\ i' \in 0..call'.tokens /\ i' = 0
        /\ call'.tokens = Smaller(n, Limit) /\ call'.size = n
        /\ call'.start_pos = current_position
    BY <1>2, <2>1, <2>2 DEF StartUserPrompt, Call, TypeOK
  <2>4. chat_msgs' \in Seq(Roles)
    BY <1>2 DEF StartUserPrompt, Added, Roles, TypeOK
  <2>5. TypeOK'
    <3>1. phase' \in Phases /\ ready' \in BOOLEAN /\ clean' \in BOOLEAN
      BY <1>2 DEF TypeOK, StartUserPrompt, Phases
    <3>2. /\ kv' = kv /\ system_prompt_position' = system_prompt_position
          /\ current_position' = current_position /\ stop_generation_position' = 0
      BY <1>2 DEF StartUserPrompt
    <3> QED BY <2>3, <2>4, <3>1, <3>2 DEF TypeOK
  <2>6. PositionsInv'
    <3>1. phase' = "ProcessingUserPrompt" /\ ready' = FALSE
      BY <1>2 DEF StartUserPrompt
    <3>2. FreshInv' /\ SystemInv' /\ RoomInv'
      BY <3>1 DEF FreshInv, SystemInv, RoomInv
    <3>3. /\ clean' => n <= Limit
          /\ current_position' = current_position
          /\ system_prompt_position' = system_prompt_position
      BY <1>2 DEF StartUserPrompt, TypeOK
    <3>4. UserInv'
      BY <2>2, <2>3, <3>1, <3>3 DEF UserInv, TypeOK
    <3> QED BY <3>2, <3>4 DEF PositionsInv
  <2>7. CacheMatchesPosition'
    BY <1>2, <2>3 DEF StartUserPrompt, CacheMatchesPosition, Decoding, BatchStart, TypeOK
  <2>8. SystemPromptKept' /\ OnlyFullContextsFail'
    BY <1>2 DEF StartUserPrompt, SystemPromptKept, Conversing, HoldsSystemPrompt,
       OnlyFullContextsFail
  <2> QED BY <2>5, <2>6, <2>7, <2>8
<1> QED BY <1>1, <1>2

(* Decoding a system prompt nothing lies behind it, and a shift, if there   *)
(* is one, does nothing.                                                   *)
LEMMA SystemBatch ==
  ASSUME ChatInv, Batch, phase = "ProcessingSystemPrompt"
  PROVE  /\ clean /\ clean'
         /\ system_prompt_position = 0 /\ current_position = 0 /\ current_position' = 0
         /\ BatchCache = kv
         /\ DOMAIN kv = 0..(BatchStart - 1)
         /\ \A p \in DOMAIN kv : kv[p] = "system"
<1>1. TypeOK /\ FreshInv /\ SystemInv /\ CacheMatchesPosition
  BY DEF ChatInv, PositionsInv
<1>2. /\ clean /\ system_prompt_position = 0 /\ current_position = 0
      /\ \A p \in DOMAIN kv : kv[p] = "system"
  BY <1>1 DEF FreshInv, SystemInv
<1>3. ShiftedCache = kv /\ ShiftedPosition = 0
  BY <1>1, <1>2, ShiftOfNothing
<1>4. current_position' = 0 /\ clean' /\ BatchCache = kv
  BY <1>2, <1>3 DEF Batch, BatchCache
<1>5. DOMAIN kv = 0..(BatchStart - 1)
  <2>1. Decoding
    BY DEF Decoding
  <2> QED BY <1>1, <1>2, <2>1 DEF CacheMatchesPosition
<1> QED BY <1>2, <1>4, <1>5

LEMMA DecodeBatchStep ==
  ASSUME ChatInv, DecodeBatch
  PROVE  ChatInv'
<1>1. /\ TypeOK /\ PositionsInv /\ CacheMatchesPosition /\ SystemPromptKept
      /\ Batch
  BY DEF ChatInv, DecodeBatch
<1>2. /\ BatchTokens \in Nat \ {0} /\ i + BatchTokens <= call.tokens /\ BatchStart \in Nat
      /\ current_position' \in Nat /\ system_prompt_position' <= current_position'
      /\ DOMAIN BatchCache \subseteq Nat /\ BatchCache \in [DOMAIN BatchCache -> Tokens]
  BY <1>1, BatchTypes
<1>3. /\ kv' = Stored(BatchCache, BatchStart, BatchTokens, PromptToken)
      /\ PromptToken \in Tokens
  BY DEF DecodeBatch, PromptToken, Tokens
<1>4. /\ DOMAIN kv' = DOMAIN BatchCache \cup BatchStart..(BatchStart + BatchTokens - 1)
      /\ DOMAIN kv' \subseteq Nat
      /\ kv' \in [DOMAIN kv' -> Tokens]
      /\ \A q \in DOMAIN kv' : kv'[q] = IF q >= BatchStart THEN PromptToken ELSE BatchCache[q]
  <2>1. BatchTokens \in Nat
    BY <1>2
  <2>2. DOMAIN kv' = DOMAIN BatchCache \cup BatchStart..(BatchStart + BatchTokens - 1)
    BY <1>3 DEF Stored
  <2>3. DOMAIN kv' \subseteq Nat
    BY <1>2, <1>3, <2>1, StoredTypes
  <2>4. kv' \in [DOMAIN kv' -> Tokens]
    BY <1>2, <1>3, <2>1, StoredTypes
  <2>5. \A q \in DOMAIN kv' : kv'[q] = IF q >= BatchStart THEN PromptToken ELSE BatchCache[q]
    BY <1>3 DEF Stored
  <2> QED BY <2>2, <2>3, <2>4, <2>5
<1>5. /\ phase' = phase /\ ready' = ready /\ call' = call /\ i' = i + BatchTokens
      /\ system_prompt_position' = system_prompt_position /\ chat_msgs' = chat_msgs
      /\ stop_generation_position' = stop_generation_position
      /\ BatchStart' = BatchStart + BatchTokens
      /\ i \in Nat /\ call.tokens \in Nat /\ call.start_pos \in Nat
  <2>1. /\ i \in Nat /\ call.tokens \in Nat /\ call.start_pos \in Nat
    BY <1>1 DEF TypeOK, Call
  <2>2. /\ phase' = phase /\ ready' = ready /\ call' = call /\ i' = i + BatchTokens
        /\ system_prompt_position' = system_prompt_position /\ chat_msgs' = chat_msgs
        /\ stop_generation_position' = stop_generation_position
    BY DEF DecodeBatch, Batch
  <2> QED BY <1>2, <2>1, <2>2 DEF BatchStart
<1>6. TypeOK'
  <2>1. clean' \in BOOLEAN
    BY <1>1 DEF Batch
  <2>2. i' \in 0..call'.tokens
    BY <1>2, <1>5
  <2>3. phase' \in Phases /\ ready' \in BOOLEAN
    BY <1>1, <1>5 DEF TypeOK
  <2>4. /\ stop_generation_position' \in Nat /\ system_prompt_position' \in Nat
        /\ chat_msgs' \in Seq(Roles) /\ call' \in Call
    BY <1>1, <1>5 DEF TypeOK
  <2> QED BY <1>2, <1>4, <2>1, <2>2, <2>3, <2>4 DEF TypeOK
<1>7. phase \notin {"ModelReady", "Generating", "Stuck"} /\ Decoding
  BY <1>1 DEF Batch, Decoding
<1>8. OnlyFullContextsFail' /\ RoomInv'
  BY <1>5, <1>7 DEF OnlyFullContextsFail, RoomInv
<1>9. CASE phase = "ProcessingSystemPrompt"
  <2>1. /\ clean /\ clean'
        /\ system_prompt_position = 0 /\ current_position = 0 /\ current_position' = 0
        /\ BatchCache = kv /\ DOMAIN kv = 0..(BatchStart - 1)
        /\ \A p \in DOMAIN kv : kv[p] = "system"
    BY <1>1, <1>9, SystemBatch
  <2>2. PromptToken = "system"
    BY <1>9 DEF PromptToken
  <2>3. \A q \in DOMAIN kv' : kv'[q] = "system"
    BY <1>2, <1>4, <2>1, <2>2
  <2>4. SystemInv'
    BY <1>1, <1>5, <1>9, <2>1, <2>3 DEF SystemInv, PositionsInv
  <2>5. FreshInv' /\ UserInv'
    BY <1>1, <1>5, <1>9, <2>1 DEF FreshInv, UserInv, PositionsInv
  <2>6. CacheMatchesPosition'
    <3>1. DOMAIN kv' = 0..(BatchStart' - 1)
      BY <1>2, <1>4, <1>5, <2>1
    <3> QED BY <1>5, <1>9, <3>1 DEF CacheMatchesPosition, Decoding
  <2>7. SystemPromptKept'
    BY <1>5, <1>9 DEF SystemPromptKept, Conversing
  <2> QED BY <1>6, <1>8, <2>4, <2>5, <2>6, <2>7 DEF ChatInv, PositionsInv
<1>10. CASE phase = "ProcessingUserPrompt"
  <2>1. /\ system_prompt_position <= call.start_pos /\ call.tokens > 0
        /\ clean => call.start_pos = current_position /\ call.tokens = call.size
    BY <1>1, <1>10 DEF PositionsInv, UserInv
  <2>2. clean' => clean /\ BatchFits /\ current_position' = current_position /\ BatchCache = kv
    BY <1>1, <1>10 DEF Batch, BatchCache
  <2>3. UserInv'
    <3>1. BatchFits => BatchStart' < Limit
      BY <1>5 DEF BatchFits
    <3> QED BY <1>5, <2>1, <2>2, <3>1 DEF UserInv
  <2>4. FreshInv' /\ SystemInv'
    BY <1>1, <1>5, <1>10 DEF FreshInv, SystemInv, PositionsInv
  <2>5. CacheMatchesPosition'
    <3>1. clean' => DOMAIN kv' = 0..(BatchStart' - 1)
      <4>1. clean => DOMAIN kv = 0..(BatchStart - 1)
        BY <1>1, <1>7 DEF CacheMatchesPosition
      <4> QED BY <1>2, <1>4, <1>5, <2>2, <4>1
    <3> QED BY <1>5, <1>10, <3>1 DEF CacheMatchesPosition, Decoding
  <2>6. SystemPromptKept'
    <3>1. HoldsSystemPrompt(BatchCache)
      <4>1. HoldsSystemPrompt(kv)
        BY <1>1, <1>10 DEF SystemPromptKept, Conversing
      <4> QED BY <1>1, <4>1, ShiftKeeps DEF BatchCache
    <3>2. PromptToken = "user"
      BY <1>10 DEF PromptToken
    <3>3. system_prompt_position \in Nat /\ system_prompt_position <= BatchStart
      BY <1>1, <1>5, <2>1 DEF BatchStart, TypeOK
    <3>4. 0..(system_prompt_position - 1) \subseteq DOMAIN kv'
      BY <1>4, <3>1 DEF HoldsSystemPrompt
    <3>5. ASSUME NEW q \in DOMAIN kv'
          PROVE  kv'[q] = "system" <=> q < system_prompt_position
      <4>1. CASE q >= BatchStart
        BY <1>2, <1>4, <3>2, <3>3, <3>5, <4>1
      <4>2. CASE ~(q >= BatchStart)
        <5>1. q \in DOMAIN BatchCache /\ kv'[q] = BatchCache[q]
          BY <1>2, <1>4, <3>5, <4>2
        <5> QED BY <3>1, <5>1 DEF HoldsSystemPrompt
      <4> QED BY <4>1, <4>2
    <3> QED BY <1>5, <3>4, <3>5 DEF SystemPromptKept, HoldsSystemPrompt
  <2> QED BY <1>6, <1>8, <2>3, <2>4, <2>5, <2>6 DEF ChatInv, PositionsInv
<1> QED BY <1>1, <1>9, <1>10 DEF Batch, Decoding

LEMMA FailBatchStep ==
  ASSUME ChatInv, FailBatch
  PROVE  ChatInv'
<1>1. /\ TypeOK /\ PositionsInv /\ CacheMatchesPosition
      /\ Batch /\ Decoding
  BY DEF ChatInv, FailBatch, Batch
<1>2. /\ current_position' \in Nat /\ system_prompt_position' <= current_position'
      /\ DOMAIN BatchCache \subseteq Nat /\ BatchCache \in [DOMAIN BatchCache -> Tokens]
  BY <1>1, BatchTypes
<1>3. /\ kv' = BatchCache /\ ready' = ready /\ call' = call /\ i' = i
      /\ phase' = IF phase = "ProcessingSystemPrompt" THEN "Error" ELSE "Stuck"
      /\ system_prompt_position' = system_prompt_position /\ chat_msgs' = chat_msgs
      /\ stop_generation_position' = stop_generation_position
  BY DEF FailBatch, Batch
<1>4. TypeOK'
  <2>1. clean' \in BOOLEAN /\ phase' \in Phases
    BY <1>1, <1>3 DEF Batch, Phases
  <2>2. /\ stop_generation_position' \in Nat /\ system_prompt_position' \in Nat
        /\ chat_msgs' \in Seq(Roles) /\ call' \in Call /\ i' \in 0..call'.tokens
        /\ ready' \in BOOLEAN
    BY <1>1, <1>3 DEF TypeOK
  <2>3. DOMAIN kv' \subseteq Nat /\ kv' \in [DOMAIN kv' -> Tokens]
    BY <1>2, <1>3
  <2> QED BY <1>2, <2>1, <2>2, <2>3 DEF TypeOK
<1>5. phase' \in {"Error", "Stuck"} /\ (phase' = "Error" => phase = "ProcessingSystemPrompt")
  BY <1>3
<1>6. PositionsInv'
  <2>1. ~ready
    BY <1>1 DEF PositionsInv, FreshInv, Decoding
  <2>2. phase = "ProcessingSystemPrompt" =>
          system_prompt_position = 0 /\ current_position' = 0
    BY <1>1, SystemBatch DEF ChatInv
  <2>3. FreshInv'
    BY <1>3, <1>5, <2>1, <2>2 DEF FreshInv
  <2> QED BY <1>5, <2>3 DEF PositionsInv, SystemInv, UserInv, RoomInv
<1>7. OnlyFullContextsFail'
  <2>1. ASSUME phase' = "Stuck", clean' PROVE FALSE
    <3>1. phase # "ProcessingSystemPrompt"
      BY <1>3, <2>1
    <3>2. clean /\ BatchFits
      BY <1>1, <2>1, <3>1 DEF Batch
    <3>3. Decodes(BatchCache, BatchStart, BatchTokens)
      BY <1>1, <3>2, FittingBatchDecodes
    <3> QED BY <3>3 DEF FailBatch
  <2> QED BY <2>1 DEF OnlyFullContextsFail
<1>8. CacheMatchesPosition' /\ SystemPromptKept'
  BY <1>5 DEF CacheMatchesPosition, Decoding, SystemPromptKept, Conversing
<1> QED BY <1>4, <1>6, <1>7, <1>8 DEF ChatInv

LEMMA EndPromptSteps ==
  ASSUME ChatInv, EndSystemPrompt \/ EndUserPrompt
  PROVE  ChatInv'
<1>0. /\ TypeOK /\ PositionsInv /\ CacheMatchesPosition /\ SystemPromptKept
      /\ call.tokens \in Nat /\ call.start_pos \in Nat /\ call.size \in Nat
      /\ call.n_predict \in Nat
      /\ clean /\ Decoding => DOMAIN kv = 0..(call.start_pos + i - 1)
  BY DEF ChatInv, TypeOK, Call, CacheMatchesPosition, Decoding, BatchStart
<1>1. CASE EndSystemPrompt
  <2>1. /\ phase = "ProcessingSystemPrompt" /\ phase' = "ModelReady" /\ i = call.tokens
        /\ system_prompt_position' = call.tokens /\ current_position' = call.tokens
        /\ ready' = ready /\ kv' = kv /\ clean' = clean /\ chat_msgs' = chat_msgs
        /\ stop_generation_position' = stop_generation_position /\ call' = call /\ i' = i
    BY <1>1 DEF EndSystemPrompt, decoding
  <2>2. /\ ~ready /\ clean /\ call.start_pos = 0 /\ call.tokens <= Limit
        /\ \A p \in DOMAIN kv : kv[p] = "system"
    BY <1>0, <2>1 DEF PositionsInv, FreshInv, SystemInv
  <2>3. DOMAIN kv = 0..(call.tokens - 1)
    BY <1>0, <2>1, <2>2 DEF Decoding
  <2>4. TypeOK'
    <3>1. phase' \in Phases
      BY <2>1 DEF Phases
    <3>2. DOMAIN kv' \subseteq Nat /\ kv' \in [DOMAIN kv' -> Tokens]
      BY <1>0, <2>1 DEF TypeOK
    <3>3. /\ ready' \in BOOLEAN /\ clean' \in BOOLEAN /\ stop_generation_position' \in Nat
          /\ chat_msgs' \in Seq(Roles) /\ call' \in Call /\ i' \in 0..call'.tokens
      BY <1>0, <2>1 DEF TypeOK
    <3>4. /\ system_prompt_position' \in Nat /\ current_position' \in Nat
          /\ system_prompt_position' <= current_position'
      BY <1>0, <2>1
    <3> QED BY <3>1, <3>2, <3>3, <3>4 DEF TypeOK
  <2>5. PositionsInv'
    BY <2>1, <2>2 DEF PositionsInv, FreshInv, SystemInv, UserInv, RoomInv
  <2>6. CacheMatchesPosition' /\ OnlyFullContextsFail'
    BY <2>1, <2>3 DEF CacheMatchesPosition, Decoding, OnlyFullContextsFail
  <2>7. SystemPromptKept'
    BY <1>0, <2>1, <2>2, <2>3 DEF SystemPromptKept, HoldsSystemPrompt
  <2> QED BY <2>4, <2>5, <2>6, <2>7 DEF ChatInv
<1>2. CASE EndUserPrompt
  <2>1. /\ phase = "ProcessingUserPrompt" /\ phase' = "Generating" /\ i = call.tokens
        /\ system_prompt_position' = system_prompt_position
        /\ current_position' = current_position + call.size
        /\ stop_generation_position' =
             current_position + call.size + call.size + call.n_predict
        /\ ready' = ready /\ kv' = kv /\ clean' = clean /\ chat_msgs' = chat_msgs
        /\ call' = call /\ i' = i
    BY <1>2 DEF EndUserPrompt, decoding
  <2>2. /\ ~ready /\ call.tokens > 0
        /\ clean => /\ call.start_pos = current_position
                    /\ call.tokens = call.size
                    /\ call.start_pos + i < Limit
    BY <1>0, <2>1 DEF PositionsInv, FreshInv, UserInv, BatchStart
  <2>3. clean => DOMAIN kv' = 0..(current_position' - 1) /\ current_position' < Limit
    BY <1>0, <2>1, <2>2 DEF Decoding
  <2>4. TypeOK'
    <3>1. phase' \in Phases
      BY <2>1 DEF Phases
    <3>2. DOMAIN kv' \subseteq Nat /\ kv' \in [DOMAIN kv' -> Tokens]
      BY <1>0, <2>1 DEF TypeOK
    <3>3. /\ ready' \in BOOLEAN /\ clean' \in BOOLEAN
          /\ chat_msgs' \in Seq(Roles) /\ call' \in Call /\ i' \in 0..call'.tokens
      BY <1>0, <2>1 DEF TypeOK
    <3>4. /\ system_prompt_position' \in Nat /\ current_position' \in Nat
          /\ system_prompt_position' <= current_position' /\ stop_generation_position' \in Nat
      <4>1. \A c, s, n, l \in Nat : s <= c => /\ c + n \in Nat /\ s <= c + n
                                            /\ c + n + n + l \in Nat
        OBVIOUS
      <4>2. /\ call.size \in Nat /\ call.n_predict \in Nat
            /\ current_position \in Nat /\ system_prompt_position \in Nat
            /\ system_prompt_position <= current_position
        BY <1>0 DEF TypeOK, Call
      <4> QED BY <2>1, <4>1, <4>2
    <3> QED BY <3>1, <3>2, <3>3, <3>4 DEF TypeOK
  <2>5. PositionsInv'
    <3>1. RoomInv'
      BY <2>1, <2>3, <2>4, AiChatAssumption DEF RoomInv, TypeOK
    <3> QED BY <2>1, <2>2, <3>1 DEF PositionsInv, FreshInv, SystemInv, UserInv
  <2>6. CacheMatchesPosition' /\ OnlyFullContextsFail'
    BY <2>1, <2>3 DEF CacheMatchesPosition, Decoding, OnlyFullContextsFail
  <2>7. SystemPromptKept'
    BY <1>0, <2>1 DEF SystemPromptKept, Conversing, HoldsSystemPrompt
  <2> QED BY <2>4, <2>5, <2>6, <2>7 DEF ChatInv
<1> QED BY <1>1, <1>2

(* A token of the reply, or the end of the reply without one. *)
LEMMA TokenSteps ==
  ASSUME ChatInv, NextToken
  PROVE  ChatInv'
<1>1. /\ TypeOK /\ PositionsInv /\ CacheMatchesPosition /\ SystemPromptKept
      /\ phase = "Generating" /\ ~ready
  BY DEF ChatInv, NextToken, ReachStop, FailToken, EmitToken, EndOfGeneration, DecodeToken,
         Generate, PositionsInv, FreshInv
<1>2. /\ RoomPosition \in Nat /\ system_prompt_position <= RoomPosition
      /\ DOMAIN RoomCache \subseteq Nat /\ RoomCache \in [DOMAIN RoomCache -> Tokens]
      /\ HoldsSystemPrompt(RoomCache)
      /\ clean => DOMAIN RoomCache = 0..(RoomPosition - 1)
  <2>1. HoldsSystemPrompt(kv)
    BY <1>1 DEF SystemPromptKept, Conversing
  <2>2. clean => DOMAIN kv = 0..(current_position - 1)
    BY <1>1 DEF CacheMatchesPosition, Decoding
  <2>3. /\ RoomPosition \in Nat /\ system_prompt_position <= RoomPosition
        /\ DOMAIN RoomCache \subseteq Nat /\ RoomCache \in [DOMAIN RoomCache -> Tokens]
    BY <1>1, RoomFacts
  <2>4. HoldsSystemPrompt(RoomCache)
    BY <1>1, <2>1, RoomFacts
  <2>5. clean => DOMAIN RoomCache = 0..(RoomPosition - 1)
    BY <1>1, <2>2, RoomFacts
  <2> QED BY <2>3, <2>4, <2>5
<1>3. clean /\ system_prompt_position + 2 <= Limit => RoomPosition < Limit
  BY <1>1, RoomForOne DEF PositionsInv, RoomInv
<1>4. /\ ready' = ready /\ system_prompt_position' = system_prompt_position
      /\ stop_generation_position' = stop_generation_position
      /\ call' = call /\ i' = i /\ clean' = clean
  BY DEF NextToken, ReachStop, FailToken, EmitToken, EndOfGeneration, DecodeToken, Generate,
         decoding
<1>5. /\ phase' \in {"ModelReady", "Generating"}
      /\ chat_msgs' = chat_msgs \/ chat_msgs' = Append(chat_msgs, "assistant")
  BY <1>1 DEF NextToken, ReachStop, FailToken, EmitToken, EndOfGeneration
<1>6. \/ kv' = RoomCache /\ current_position' = RoomPosition
      \/ /\ kv' = Stored(RoomCache, RoomPosition, 1, "reply")
         /\ current_position' = RoomPosition + 1
  BY DEF NextToken, ReachStop, FailToken, EmitToken, EndOfGeneration, DecodeToken
<1>7. /\ DOMAIN kv' \subseteq Nat /\ kv' \in [DOMAIN kv' -> Tokens]
      /\ current_position' \in Nat /\ system_prompt_position <= current_position'
      /\ HoldsSystemPrompt(kv)'
      /\ clean => DOMAIN kv' = 0..(current_position' - 1)
      /\ clean /\ system_prompt_position + 2 <= Limit => current_position' <= Limit
  <2>1. CASE kv' = RoomCache /\ current_position' = RoomPosition
    <3>1. HoldsSystemPrompt(kv)'
      BY <1>2, <1>4, <2>1 DEF HoldsSystemPrompt
    <3>2. clean /\ system_prompt_position + 2 <= Limit => current_position' <= Limit
      BY <1>2, <1>3, <2>1, AiChatAssumption
    <3> QED BY <1>2, <2>1, <3>1, <3>2
  <2>2. CASE /\ kv' = Stored(RoomCache, RoomPosition, 1, "reply")
             /\ current_position' = RoomPosition + 1
    <3>1. DOMAIN kv' \subseteq Nat /\ kv' \in [DOMAIN kv' -> Tokens]
      <4>1. "reply" \in Tokens /\ 1 \in Nat
        BY DEF Tokens
      <4> QED BY <1>2, <2>2, <4>1, StoredTypes
    <3>2. /\ DOMAIN kv' = DOMAIN RoomCache \cup RoomPosition..(RoomPosition + 1 - 1)
          /\ \A q \in DOMAIN kv' :
               kv'[q] = IF q >= RoomPosition THEN "reply" ELSE RoomCache[q]
      BY <2>2 DEF Stored
    <3>3. clean => DOMAIN kv' = 0..(current_position' - 1)
      <4>1. RoomPosition \in Nat /\ current_position' - 1 = RoomPosition
        BY <1>2, <2>2
      <4>2. 0..RoomPosition = 0..(RoomPosition - 1) \cup RoomPosition..(RoomPosition + 1 - 1)
        BY <4>1
      <4> QED BY <1>2, <3>2, <4>1, <4>2
    <3>4. HoldsSystemPrompt(kv)'
      <4>1. system_prompt_position \in Nat
        BY <1>1 DEF TypeOK
      <4>2. 0..(system_prompt_position - 1) \subseteq DOMAIN kv'
        BY <1>2, <3>2 DEF HoldsSystemPrompt
      <4>3. ASSUME NEW q \in DOMAIN kv'
            PROVE  kv'[q] = "system" <=> q < system_prompt_position
        <5>1. CASE q >= RoomPosition
          BY <1>2, <3>1, <3>2, <4>1, <4>3, <5>1
        <5>2. CASE ~(q >= RoomPosition)
          <6>1. q \in DOMAIN RoomCache /\ kv'[q] = RoomCache[q]
            BY <1>2, <3>2, <4>3, <5>2
          <6> QED BY <1>2, <6>1 DEF HoldsSystemPrompt
        <5> QED BY <5>1, <5>2
      <4> QED BY <1>4, <4>2, <4>3 DEF HoldsSystemPrompt
    <3>5. clean /\ system_prompt_position + 2 <= Limit => current_position' <= Limit
      <4>1. Limit \in Nat /\ RoomPosition \in Nat /\ current_position' = RoomPosition + 1
        BY <1>2, <2>2, AiChatAssumption
      <4>2. RoomPosition < Limit => RoomPosition + 1 <= Limit
        BY <4>1
      <4> QED BY <1>3, <4>1, <4>2
    <3>6. current_position' \in Nat /\ system_prompt_position <= current_position'
      <4>1. system_prompt_position \in Nat /\ current_position' = RoomPosition + 1
        BY <1>1, <2>2 DEF TypeOK
      <4> QED BY <1>2, <4>1
    <3> QED BY <3>1, <3>3, <3>4, <3>5, <3>6
  <2> QED BY <1>6, <2>1, <2>2
<1>8. TypeOK'
  <2>1. phase' \in Phases
    BY <1>5 DEF Phases
  <2>2. chat_msgs' \in Seq(Roles)
    BY <1>1, <1>5 DEF TypeOK, Roles
  <2>3. /\ ready' \in BOOLEAN /\ clean' \in BOOLEAN /\ stop_generation_position' \in Nat
        /\ call' \in Call /\ i' \in 0..call'.tokens /\ system_prompt_position' \in Nat
    BY <1>1, <1>4 DEF TypeOK
  <2> QED BY <1>4, <1>7, <2>1, <2>2, <2>3 DEF TypeOK
<1>9. PositionsInv'
  <2>1. FreshInv' /\ SystemInv' /\ UserInv'
    BY <1>1, <1>4, <1>5 DEF FreshInv, SystemInv, UserInv
  <2>2. RoomInv'
    BY <1>4, <1>7 DEF RoomInv
  <2> QED BY <2>1, <2>2 DEF PositionsInv
<1>10. CacheMatchesPosition' /\ SystemPromptKept' /\ OnlyFullContextsFail'
  BY <1>4, <1>5, <1>7 DEF CacheMatchesPosition, Decoding, SystemPromptKept, OnlyFullContextsFail
<1> QED BY <1>8, <1>9, <1>10 DEF ChatInv

LEMMA NextChatInv == ChatInv /\ [Next]_vars => ChatInv'
<1> SUFFICES ASSUME ChatInv, [Next]_vars PROVE ChatInv'
  OBVIOUS
<1>1. CASE Load \/ FailLoad \/ Unload \/ ResetError \/ Bench \/ Cancel
  BY <1>1, ContextSteps
<1>2. CASE \/ \E n \in PromptSizes : StartSystemPrompt(n)
           \/ \E n \in PromptSizes, p \in PredictLengths : StartUserPrompt(n, p)
  BY <1>2, StartSteps
<1>3. CASE DecodeBatch
  BY <1>3, DecodeBatchStep
<1>4. CASE FailBatch
  BY <1>4, FailBatchStep
<1>5. CASE EndSystemPrompt \/ EndUserPrompt
  BY <1>5, EndPromptSteps
<1>6. CASE NextToken
  BY <1>6, TokenSteps
<1>7. CASE UNCHANGED vars
  <2>1. TypeOK'
    BY <1>7 DEF vars, positions, decoding, ChatInv, TypeOK
  <2>2. PositionsInv'
    BY <1>7 DEF vars, positions, decoding, ChatInv, PositionsInv, FreshInv, SystemInv,
       UserInv, RoomInv, BatchStart
  <2>3. CacheMatchesPosition' /\ OnlyFullContextsFail'
    BY <1>7 DEF vars, positions, decoding, ChatInv, CacheMatchesPosition, Decoding,
       BatchStart, OnlyFullContextsFail
  <2>4. SystemPromptKept'
    BY <1>7 DEF vars, positions, ChatInv, SystemPromptKept, Conversing, HoldsSystemPrompt
  <2> QED BY <2>1, <2>2, <2>3, <2>4 DEF ChatInv
<1> QED BY <1>1, <1>2, <1>3, <1>4, <1>5, <1>6, <1>7 DEF Next, Prompt

------------------------------------------------------------------------------
(* The theorems *)

(* The variables of ai_chat.cpp keep their types.                          *)
THEOREM ChatTypes == Spec => []TypeOK
<1>1. ChatInv => TypeOK
  BY DEF ChatInv
<1> QED BY InitChatInv, NextChatInv, <1>1, PTL DEF Spec

(* The positions keep the relations that each phase needs.                 *)
THEOREM ChatPositions == Spec => []PositionsInv
<1>1. ChatInv => PositionsInv
  BY DEF ChatInv
<1> QED BY InitChatInv, NextChatInv, <1>1, PTL DEF Spec

(* Until a prompt is truncated or meets a full context, counter and cache   *)
(* agree, through any number of shifts, replies and cancels.               *)
THEOREM ChatCacheMatches == Spec => []CacheMatchesPosition
<1>1. ChatInv => CacheMatchesPosition
  BY DEF ChatInv
<1> QED BY InitChatInv, NextChatInv, <1>1, PTL DEF Spec

(* The system prompt stays where processSystemPrompt put it, even when a    *)
(* prompt is truncated or fails.                                           *)
THEOREM ChatKeepsSystemPrompt == Spec => []SystemPromptKept
<1>1. ChatInv => SystemPromptKept
  BY DEF ChatInv
<1> QED BY InitChatInv, NextChatInv, <1>1, PTL DEF Spec

(* A prompt that fits is decoded. *)
THEOREM ChatPromptsDecode == Spec => []OnlyFullContextsFail
<1>1. ChatInv => OnlyFullContextsFail
  BY DEF ChatInv
<1> QED BY InitChatInv, NextChatInv, <1>1, PTL DEF Spec

(* generateNextToken always finds room for the next token, because a shift  *)
(* halves what lies behind the system prompt.                              *)
THEOREM ChatGoesOn == Spec => []InfiniteText
<1>1. ASSUME ChatInv PROVE InfiniteText
  <2> SUFFICES ASSUME phase = "Generating", clean, system_prompt_position + 2 <= Limit
               PROVE  Decodes(RoomCache, RoomPosition, 1)
    BY DEF InfiniteText
  <2>1. TypeOK /\ RoomInv /\ CacheMatchesPosition
    BY <1>1 DEF ChatInv, PositionsInv
  <2>2. current_position <= Limit /\ DOMAIN kv = 0..(current_position - 1)
    BY <2>1 DEF RoomInv, CacheMatchesPosition, Decoding
  <2>3. RoomPosition \in Nat /\ RoomPosition < Limit
    BY <2>1, <2>2, RoomFacts, RoomForOne
  <2>4. DOMAIN RoomCache = 0..(RoomPosition - 1)
    BY <2>1, <2>2, RoomFacts
  <2>5. RoomPosition + 1 <= DEFAULT_CONTEXT_SIZE
    BY <2>3, AiChatAssumption DEF Limit
  <2> QED BY <2>3, <2>4, <2>5, FollowingDecodes
<1>2. ChatInv => InfiniteText
  BY <1>1
<1> QED BY InitChatInv, NextChatInv, <1>2, PTL DEF Spec

------------------------------------------------------------------------------
(* The steps of ai_chat.cpp, seen as steps of the engine's state *)

LEMMA PhaseStep ==
  ASSUME ChatInv, Next
  PROVE  EP!Next \/ UNCHANGED EP!vars
<1> USE DEF EP!Next, EP!vars
<1>0. ready => phase = "ModelReady"
  BY DEF ChatInv, PositionsInv, FreshInv
<1>1. CASE Load \/ FailLoad
  BY <1>1 DEF Load, FailLoad, EP!Load
<1>2. CASE Unload
  BY <1>2 DEF Unload, EP!Unload
<1>3. CASE ResetError
  BY <1>3 DEF ResetError, EP!Recover
<1>4. CASE Bench
  BY <1>4 DEF Bench, EP!Withdraw
<1>5. ASSUME NEW n \in PromptSizes, StartSystemPrompt(n)
      PROVE  EP!Instruct
  BY <1>5 DEF StartSystemPrompt, ReadyForSystemPrompt, EP!Instruct
<1>6. ASSUME NEW n \in PromptSizes, NEW p \in PredictLengths, StartUserPrompt(n, p)
      PROVE  EP!Ask
  BY <1>6 DEF StartUserPrompt, EP!Ask
<1>7. CASE DecodeBatch
  BY <1>7 DEF DecodeBatch, Batch
<1>8. CASE FailBatch
  BY <1>8 DEF FailBatch, Batch, Decoding, EP!Instructed, EP!Understood
<1>9. CASE EndSystemPrompt
  BY <1>9 DEF EndSystemPrompt, EP!Instructed
<1>10. CASE EndUserPrompt
  BY <1>10 DEF EndUserPrompt, EP!Understood
<1>11. CASE NextToken
  BY <1>11 DEF NextToken, ReachStop, FailToken, EmitToken, EndOfGeneration, DecodeToken,
     Generate, EP!Answered
<1>12. CASE Cancel
  BY <1>12 DEF Cancel, EP!Answered
<1> QED
  BY <1>1, <1>2, <1>3, <1>4, <1>5, <1>6, <1>7, <1>8, <1>9, <1>10, <1>11, <1>12
  DEF Next, Prompt

(* ai_chat.cpp, called as InferenceEngineImpl calls it, does to the state  *)
(* of the engine nothing that the engine does not: it implements           *)
(* EnginePhases, for every size of context, prompt and reply.              *)
THEOREM ChatFollowsPhases == Spec => FollowsPhases
<1>1. Init => EP!Init
  BY DEF Init, EP!Init
<1>2. ChatInv /\ [Next]_vars => [EP!Next]_(EP!vars)
  <2>1. UNCHANGED vars => UNCHANGED EP!vars
    BY DEF vars, EP!vars
  <2> QED BY PhaseStep, <2>1
<1> QED BY InitChatInv, NextChatInv, <1>1, <1>2, PTL DEF Spec, FollowsPhases, EP!Spec

------------------------------------------------------------------------------
(* The history that the template formats: a system prompt is its first     *)
(* message, and a reply stands right behind the question it answers, after *)
(* any number of stopped replies, failed prompts and reloads (ai_chat.cpp  *)
(* 289-298, 521).                                                          *)
HistoryInOrder ==
  HasTemplate =>
    \A k \in 1..Len(chat_msgs) :
      /\ chat_msgs[k] = "system" => k = 1
      /\ chat_msgs[k] = "assistant" => k > 1 /\ chat_msgs[k - 1] = "user"

(* The last message is the question while it is being answered. *)
HistoryInv ==
  /\ HistoryInOrder
  /\ HasTemplate /\ phase \in {"ProcessingUserPrompt", "Generating", "Stuck"} =>
       chat_msgs # <<>> /\ chat_msgs[Len(chat_msgs)] = "user"

(* A prompt is decoded batch by batch, and a batch is never empty.         *)
PromptsComeCloser ==
  Decoding /\ phase' = phase =>
    /\ call' = call
    /\ call.tokens - i' \in 0..(call.tokens - i - 1)

(* Tokens a reply has before it, at most, if it stops below the limit.     *)
TokensLeft ==
  IF current_position <= stop_generation_position
    THEN stop_generation_position - current_position
    ELSE stop_generation_position + 1

(* As long as a reply goes on, every token brings it closer to its stop,   *)
(* if that lies below the limit; only the first token can come behind a    *)
(* shift, which moves the counter and leaves the stop.                     *)
RepliesComeCloser ==
  /\ phase = "Generating" /\ phase' = "Generating"
  /\ stop_generation_position < Limit
  => /\ stop_generation_position' = stop_generation_position
     /\ TokensLeft' \in 0..(TokensLeft - 1)

(* What a step does to the history: it stays, a reply follows its          *)
(* question, a question is added, or a new history begins.                 *)
LEMMA HistorySteps ==
  ASSUME TypeOK, HistoryInv, HasTemplate, Next
  PROVE  \/ chat_msgs' = <<>> /\ phase' = "Initialized"
         \/ chat_msgs' = <<"system">> /\ phase' \in {"Error", "ProcessingSystemPrompt"}
         \/ chat_msgs' = Append(chat_msgs, "user")
         \/ /\ phase = "Generating" /\ phase' = "ModelReady"
            /\ chat_msgs' = Append(chat_msgs, "assistant")
         \/ /\ chat_msgs' = chat_msgs
            /\ phase' \in {"ProcessingUserPrompt", "Generating", "Stuck"} =>
                 phase \in {"ProcessingUserPrompt", "Generating"}
<1>1. CASE Load \/ FailLoad \/ Unload \/ ResetError \/ Bench \/ Cancel
  BY <1>1 DEF Load, FailLoad, Unload, ResetError, Bench, Cancel
<1>2. CASE \E n \in PromptSizes : StartSystemPrompt(n)
  BY <1>2 DEF StartSystemPrompt
<1>3. CASE \E n \in PromptSizes, p \in PredictLengths : StartUserPrompt(n, p)
  BY <1>3 DEF StartUserPrompt, Added
<1>4. CASE Prompt
  BY <1>4 DEF Prompt, DecodeBatch, FailBatch, EndSystemPrompt, EndUserPrompt,
              Batch, Decoding
<1>5. CASE NextToken
  BY <1>5 DEF NextToken, ReachStop, FailToken, EmitToken, EndOfGeneration,
              DecodeToken, Generate
<1>6. QED
  BY <1>1, <1>2, <1>3, <1>4, <1>5 DEF Next

(* The dialogue a template formats is in order for every sequence of       *)
(* prompts, replies, failures and loads.                                   *)
THEOREM HistoriesInOrder == Spec => []HistoryInOrder
<1>1. Init => HistoryInv
  BY DEF Init, HistoryInv, HistoryInOrder
<1>2. ChatInv /\ HistoryInv /\ [Next]_vars => HistoryInv'
  <2> SUFFICES ASSUME TypeOK, HistoryInv, [Next]_vars, HasTemplate
               PROVE  HistoryInv'
    BY DEF ChatInv, HistoryInv, HistoryInOrder
  <2>1. chat_msgs \in Seq(Roles)
    BY DEF TypeOK
  <2>2. CASE UNCHANGED vars
    BY <2>2 DEF vars, HistoryInv, HistoryInOrder
  <2>3. ASSUME chat_msgs' = <<>>, phase' = "Initialized"
        PROVE  HistoryInv'
    <3>1. Len(chat_msgs') = 0
      BY <2>3
    <3> QED
      BY <2>3, <3>1 DEF HistoryInv, HistoryInOrder
  <2>4. ASSUME chat_msgs' = <<"system">>, phase' \in {"Error", "ProcessingSystemPrompt"}
        PROVE  HistoryInv'
    <3>1. Len(chat_msgs') = 1 /\ chat_msgs'[1] = "system"
      BY <2>4
    <3> QED
      BY <2>4, <3>1 DEF HistoryInv, HistoryInOrder
  <2>5. ASSUME chat_msgs' = Append(chat_msgs, "user")
        PROVE  HistoryInv'
    <3>1. /\ Len(chat_msgs') = Len(chat_msgs) + 1
          /\ chat_msgs'[Len(chat_msgs')] = "user"
          /\ \A k \in 1..Len(chat_msgs) : chat_msgs'[k] = chat_msgs[k]
          /\ chat_msgs' # <<>>
          /\ Len(chat_msgs) \in Nat
      BY <2>1, <2>5
    <3> QED
      BY <3>1 DEF HistoryInv, HistoryInOrder
  <2>6. ASSUME chat_msgs' = Append(chat_msgs, "assistant"),
               phase = "Generating", phase' = "ModelReady"
        PROVE  HistoryInv'
    <3>1. /\ Len(chat_msgs') = Len(chat_msgs) + 1
          /\ chat_msgs'[Len(chat_msgs')] = "assistant"
          /\ \A k \in 1..Len(chat_msgs) : chat_msgs'[k] = chat_msgs[k]
          /\ Len(chat_msgs) \in Nat
      BY <2>1, <2>6
    <3>2. Len(chat_msgs) > 0 /\ chat_msgs[Len(chat_msgs)] = "user"
      BY <2>1, <2>6 DEF HistoryInv
    <3> QED
      BY <2>6, <3>1, <3>2 DEF HistoryInv, HistoryInOrder
  <2>7. ASSUME chat_msgs' = chat_msgs,
               phase' \in {"ProcessingUserPrompt", "Generating", "Stuck"} =>
                 phase \in {"ProcessingUserPrompt", "Generating"}
        PROVE  HistoryInv'
    BY <2>7 DEF HistoryInv, HistoryInOrder
  <2> QED
    BY <2>2, <2>3, <2>4, <2>5, <2>6, <2>7, HistorySteps
<1>3. HistoryInv => HistoryInOrder
  BY DEF HistoryInv
<1> QED
  BY <1>1, <1>2, <1>3, InitChatInv, NextChatInv, PTL DEF Spec

(* Between the call of a prompt's decoding and its return there are at     *)
(* most as many batches as the prompt has tokens (ai_chat.cpp 323-350).    *)
THEOREM PromptsGetOn == Spec => [][PromptsComeCloser]_vars
<1>1. ChatInv /\ [Next]_vars => [PromptsComeCloser]_vars
  <2> SUFFICES ASSUME TypeOK, Next, Decoding, phase' = phase
               PROVE  /\ call' = call
                      /\ call.tokens - i' \in 0..(call.tokens - i - 1)
    BY DEF ChatInv, PromptsComeCloser
  <2>1. DecodeBatch
    BY DEF Next, Load, FailLoad, Unload, ResetError, Bench, StartSystemPrompt,
           ReadyForSystemPrompt, StartUserPrompt, Prompt, FailBatch, Batch,
           EndSystemPrompt, EndUserPrompt, NextToken, ReachStop, FailToken,
           EmitToken, EndOfGeneration, DecodeToken, Generate, Cancel, Decoding
  <2>2. Batch /\ call' = call /\ i' = i + BatchTokens
    BY <2>1 DEF DecodeBatch, Batch
  <2>3. BatchTokens \in Nat \ {0} /\ i + BatchTokens <= call.tokens
    BY <2>2, BatchTypes
  <2>4. i \in Nat /\ call.tokens \in Nat
    BY DEF TypeOK, Call
  <2> QED
    BY <2>2, <2>3, <2>4
<1> QED
  BY <1>1, InitChatInv, NextChatInv, PTL DEF Spec

(* A reply whose stop position lies below the limit has at most as many    *)
(* tokens as there are positions up to it (ai_chat.cpp 493-502); beyond    *)
(* the limit there is no such bound.                                       *)
THEOREM RepliesGetOn == Spec => [][RepliesComeCloser]_vars
<1>1. ChatInv /\ [Next]_vars => [RepliesComeCloser]_vars
  <2> SUFFICES ASSUME TypeOK, Next, phase = "Generating", phase' = "Generating",
                      stop_generation_position < Limit
               PROVE  /\ stop_generation_position' = stop_generation_position
                      /\ TokensLeft' \in 0..(TokensLeft - 1)
    BY DEF ChatInv, RepliesComeCloser
  <2>1. EmitToken
    BY DEF Next, Load, FailLoad, Unload, ResetError, Bench, StartSystemPrompt,
           ReadyForSystemPrompt, StartUserPrompt, Prompt, DecodeBatch, FailBatch,
           Batch, Decoding, EndSystemPrompt, EndUserPrompt, NextToken, ReachStop,
           FailToken, EndOfGeneration, Cancel
  <2>2. /\ RoomPosition < stop_generation_position
        /\ current_position' = RoomPosition + 1
        /\ stop_generation_position' = stop_generation_position
    BY <2>1 DEF EmitToken, DecodeToken, Generate
  <2>3. /\ RoomPosition \in Nat /\ current_position \in Nat
        /\ stop_generation_position \in Nat /\ Limit \in Nat
    BY RoomFacts, AiChatAssumption DEF TypeOK
  <2>4. current_position <= stop_generation_position => RoomPosition = current_position
    BY <2>3 DEF RoomPosition, HasRoom
  <2> QED
    BY <2>2, <2>3, <2>4 DEF TokensLeft
<1> QED
  BY <1>1, InitChatInv, NextChatInv, PTL DEF Spec
===============================================================================
