--------------------------- MODULE InferenceEngine ---------------------------
(***************************************************************************)
(* The inference engine of llama-lib: InferenceEngineImpl, a state machine *)
(* whose operations run one at a time on a dispatcher of one thread, over  *)
(* the global model, context and conversation of ai_chat.cpp.              *)
(*                                                                         *)
(* A call is a client's call of one operation; its slot is free again when *)
(* the operation has returned.  The dispatcher takes waiting calls in the  *)
(* order they came.  Only a flow that waits for its collector gives the    *)
(* thread away before it is done.  An init that fails throws in a          *)
(* coroutine without a handler and ends the process: it has no state here. *)
(***************************************************************************)
EXTENDS Integers, Sequences

CONSTANTS
  Calls,          \* slots for concurrent calls
  NoCall,         \* nobody has the dispatcher's thread
  Kinds,          \* the operations clients call
  PredictLength   \* tokens of a reply at most, if its stop can be reached

Suspending == {"load", "system", "prompt", "bench"}
Blocking   == {"cleanUp", "destroy"}

ASSUME EngineAssumption ==
  /\ NoCall \notin Calls
  /\ Kinds \subseteq Suspending \cup Blocking
  /\ PredictLength \in Nat \ {0}

VARIABLES
  state,    \* _state
  ready,    \* _readyForSystemPrompt
  cancel,   \* _cancelGeneration
  queue,    \* calls that wait for the thread, first come first
  thread,   \* the call the thread runs
  kind,     \* the operation of each call
  at,       \* where it is
  stop,     \* its coroutine, or its collector, has been cancelled
  tokens,   \* tokens its flow has generated, counted if its stop can be reached
  hit,      \* a cleanUp or destroy has been under way since it was called
  model,    \* g_model
  context,  \* g_context
  talk,     \* chat_msgs: none, the system's alone, or a conversation
  endless   \* stop_generation_position is not below the limit of the context

clientVars == <<kind, stop, hit>>
nativeVars == <<model, context, talk, endless>>
vars == <<state, ready, cancel, queue, thread, at, tokens, clientVars, nativeVars>>

------------------------------------------------------------------------------
States == {"Uninitialized", "Initializing", "Initialized", "LoadingModel",
           "UnloadingModel", "ModelReady", "Benchmarking",
           "ProcessingSystemPrompt", "ProcessingUserPrompt", "Generating",
           "Error"}
Waiting == {"queued", "resumed"}
Running == {"load", "prepare", "system", "prompt", "loop", "token", "emit",
            "bench", "unload", "wreck"}
Talking == {"loop", "token", "emit", "suspended", "resumed"}
Memory  == {"none", "live", "freed", "destroyed"}

TypeOK ==
  /\ state \in States
  /\ ready \in BOOLEAN
  /\ cancel \in BOOLEAN
  /\ queue \in Seq(Calls)
  /\ thread \in Calls \cup {NoCall}
  /\ kind \in [Calls -> Kinds \cup {"none"}]
  /\ at \in [Calls -> {"idle", "raised", "suspended"} \cup Waiting \cup Running]
  /\ stop \in [Calls -> BOOLEAN]
  /\ tokens \in [Calls -> 0..PredictLength]
  /\ hit \in [Calls -> BOOLEAN]
  /\ model \in Memory
  /\ context \in Memory
  /\ talk \in {"fresh", "system", "talking"}
  /\ endless \in BOOLEAN

Init ==
  /\ state = "Uninitialized"
  /\ ready = FALSE
  /\ cancel = FALSE
  /\ queue = <<>>
  /\ thread = NoCall
  /\ kind = [t \in Calls |-> "none"]
  /\ at = [t \in Calls |-> "idle"]
  /\ stop = [t \in Calls |-> FALSE]
  /\ tokens = [t \in Calls |-> 0]
  /\ hit = [t \in Calls |-> FALSE]
  /\ model = "none"
  /\ context = "none"
  /\ talk = "fresh"
  /\ endless = FALSE

------------------------------------------------------------------------------
(* The coroutine of the init block is the first in the queue: no operation *)
(* runs before it is done.                                                 *)
InitStart ==
  /\ state = "Uninitialized"
  /\ state' = "Initializing"
  /\ UNCHANGED <<ready, cancel, queue, thread, at, tokens, clientVars,
                 nativeVars>>

InitEnd ==
  /\ state = "Initializing"
  /\ state' = "Initialized"
  /\ UNCHANGED <<ready, cancel, queue, thread, at, tokens, clientVars,
                 nativeVars>>

------------------------------------------------------------------------------
(* Clients.  loadModel, setSystemPrompt, the flow of sendUserPrompt and    *)
(* bench enter the queue; cleanUp and destroy first raise the cancel flag. *)
Call(t, k) ==
  /\ at[t] = "idle"
  /\ kind' = [kind EXCEPT ![t] = k]
  /\ IF k \in Suspending
       THEN /\ at' = [at EXCEPT ![t] = "queued"]
            /\ queue' = Append(queue, t)
            /\ hit' = [hit EXCEPT ![t] = \E s \in Calls : kind[s] \in Blocking]
            /\ UNCHANGED cancel
       ELSE /\ at' = [at EXCEPT ![t] = "raised"]
            /\ cancel' = TRUE
            /\ hit' = [s \in Calls |-> at[s] # "idle" \/ s = t]
            /\ UNCHANGED queue
  /\ UNCHANGED <<state, ready, thread, stop, tokens, nativeVars>>

Enqueue(t) ==
  /\ at[t] = "raised"
  /\ at' = [at EXCEPT ![t] = "queued"]
  /\ queue' = Append(queue, t)
  /\ UNCHANGED <<state, ready, cancel, thread, tokens, clientVars, nativeVars>>

(* The client's coroutine is cancelled while it waits for the thread or    *)
(* collects a flow.  Elsewhere nothing looks: the blocks do not suspend.   *)
(* flowOn starts the block of a flow even if it has been cancelled.        *)
Cancel(t) ==
  /\ kind[t] \in Suspending
  /\ at[t] = "queued" \/ kind[t] = "prompt"
  /\ stop' = [stop EXCEPT ![t] = TRUE]
  /\ UNCHANGED <<state, ready, cancel, queue, thread, at, tokens, kind, hit,
                 nativeVars>>

------------------------------------------------------------------------------
(* The thread *)

(* It takes the first call of the queue, which goes on at place p ...      *)
Take(t, p) ==
  /\ queue' = Tail(queue)
  /\ thread' = t
  /\ at' = [at EXCEPT ![t] = p]
  /\ UNCHANGED <<tokens, clientVars>>

First(t) ==
  /\ state \notin {"Uninitialized", "Initializing"}
  /\ thread = NoCall
  /\ queue # <<>>
  /\ Head(queue) = t

Starts(t, k) == First(t) /\ at[t] = "queued" /\ kind[t] = k

(* ... or is over before it has begun: refused, withdrawn, or quick.       *)
Clear(t) ==
  /\ thread' = NoCall
  /\ at' = [at EXCEPT ![t] = "idle"]
  /\ kind' = [kind EXCEPT ![t] = "none"]
  /\ stop' = [stop EXCEPT ![t] = FALSE]
  /\ hit' = [hit EXCEPT ![t] = FALSE]
  /\ tokens' = [tokens EXCEPT ![t] = 0]

Over(t) == Clear(t) /\ queue' = Tail(queue)

Return(t) == Clear(t) /\ UNCHANGED queue

Goto(t, p) ==
  /\ at' = [at EXCEPT ![t] = p]
  /\ UNCHANGED <<queue, thread, clientVars>>

(* The states in which the check at the head of an operation lets it run.  *)
Admits(k) ==
  CASE k = "load" -> state = "Initialized"
    [] k = "system" -> ready /\ state = "ModelReady"
    [] k \in {"prompt", "bench"} -> state = "ModelReady"
    [] k = "cleanUp" -> state \in {"ModelReady", "Error"}
    [] k = "destroy" -> TRUE

Refuse(t) ==
  /\ First(t)
  /\ at[t] = "queued"
  /\ (stop[t] /\ kind[t] # "prompt") \/ ~Admits(kind[t])
  /\ Over(t)
  /\ UNCHANGED <<state, ready, cancel, nativeVars>>

------------------------------------------------------------------------------
(* loadModel *)
LoadStart(t) ==
  /\ Starts(t, "load")
  /\ ~stop[t]
  /\ Admits("load")
  /\ \/ /\ Take(t, "load")
        /\ ready' = FALSE
        /\ state' = "LoadingModel"
     \/ /\ Over(t)                           \* no such file
        /\ state' = "Error"
        /\ UNCHANGED ready
  /\ UNCHANGED <<cancel, nativeVars>>

LoadEnd(t) ==
  /\ at[t] = "load"
  /\ \/ /\ Goto(t, "prepare")
        /\ model' = "live"
        /\ UNCHANGED <<state, tokens>>
     \/ /\ Return(t)
        /\ state' = "Error"
        /\ UNCHANGED model
  /\ UNCHANGED <<ready, cancel, context, talk, endless>>

(* Mutation: ModelReady although prepare failed. *)
PrepareEndAnyway(t) ==
  /\ at[t] = "prepare"
  /\ context' \in {context, "live"}
  /\ ready' = TRUE
  /\ cancel' = FALSE
  /\ state' = "ModelReady"
  /\ Return(t)
  /\ UNCHANGED <<model, talk, endless>>

PrepareEnd(t) ==
  /\ at[t] = "prepare"
  /\ \/ /\ context' = "live"
        /\ ready' = TRUE
        /\ cancel' = FALSE
        /\ state' = "ModelReady"
     \/ /\ state' = "Error"
        /\ UNCHANGED <<context, ready, cancel>>
  /\ Return(t)
  /\ UNCHANGED <<model, talk, endless>>

------------------------------------------------------------------------------
(* setSystemPrompt: processSystemPrompt first forgets the conversation and *)
(* the stop of its last reply.                                             *)
SystemStart(t) ==
  /\ Starts(t, "system")
  /\ ~stop[t]
  /\ Admits("system")
  /\ Take(t, "system")
  /\ ready' = FALSE
  /\ state' = "ProcessingSystemPrompt"
  /\ talk' = "system"
  /\ endless' = FALSE
  /\ UNCHANGED <<cancel, model, context>>

SystemEnd(t) ==
  /\ at[t] = "system"
  /\ state' \in {"ModelReady", "Error"}
  /\ Return(t)
  /\ UNCHANGED <<ready, cancel, nativeVars>>

------------------------------------------------------------------------------
(* sendUserPrompt *)

(* Mutation: a prompt does not end the wait for the system prompt. *)
PromptStartReady(t) ==
  /\ Starts(t, "prompt")
  /\ Admits("prompt")
  /\ Take(t, "prompt")
  /\ state' = "ProcessingUserPrompt"
  /\ talk' = "talking"
  /\ endless' = FALSE
  /\ UNCHANGED <<ready, cancel, model, context>>

PromptStart(t) ==
  /\ Starts(t, "prompt")
  /\ Admits("prompt")
  /\ Take(t, "prompt")
  /\ ready' = FALSE
  /\ state' = "ProcessingUserPrompt"
  /\ talk' = "talking"
  /\ endless' = FALSE
  /\ UNCHANGED <<cancel, model, context>>

(* The stop is set predictLength and the length of the prompt beyond the   *)
(* end of the prompt, wherever the context ends.                           *)
PromptEnd(t) ==
  /\ at[t] = "prompt"
  /\ \/ /\ Goto(t, "loop")
        /\ state' = "Generating"
        /\ endless' \in BOOLEAN
        /\ UNCHANGED tokens
     \/ /\ Return(t)                         \* return@flow
        /\ UNCHANGED <<state, endless>>
  /\ UNCHANGED <<ready, cancel, model, context, talk>>

EndGeneration(t) ==
  /\ state' = "ModelReady"
  /\ Return(t)

(* Mutation: the loop does not look at the flag. *)
LoopOnAndOn(t) ==
  /\ at[t] = "loop"
  /\ Goto(t, "token")
  /\ UNCHANGED <<state, ready, cancel, tokens, nativeVars>>

(* The head of the generation loop. *)
Loop(t) ==
  /\ at[t] = "loop"
  /\ IF cancel THEN EndGeneration(t)
     ELSE Goto(t, "token") /\ UNCHANGED <<state, tokens>>
  /\ UNCHANGED <<ready, cancel, nativeVars>>

(* Mutation: no look at the stop position. *)
TokenPastStop(t) ==
  /\ at[t] = "token"
  /\ tokens' = [tokens EXCEPT ![t] = @ + 1]
  /\ \E p \in {"emit", "loop"} : Goto(t, p)
  /\ UNCHANGED <<state, ready, cancel, nativeVars>>

(* generateNextToken returns a text, a blank for half a character, or null *)
(* for the end: of the model's own accord, or at the stop position.  At    *)
(* the limit of the context current_position is shifted back and the stop  *)
(* is not, so that a stop that is not below the limit is never reached.    *)
Token(t) ==
  /\ at[t] = "token"
  /\ \/ /\ IF endless THEN UNCHANGED tokens
             ELSE tokens[t] < PredictLength /\ tokens' = [tokens EXCEPT ![t] = @ + 1]
        /\ \E p \in {"emit", "loop"} : Goto(t, p)
        /\ UNCHANGED state
     \/ EndGeneration(t)
  /\ UNCHANGED <<ready, cancel, nativeVars>>

(* Mutation: the state is reset as soon as the flow has to wait. *)
EmitIdle(t) ==
  /\ at[t] = "emit"
  /\ state' = "ModelReady"
  /\ thread' = NoCall
  /\ at' = [at EXCEPT ![t] = "suspended"]
  /\ UNCHANGED <<queue, tokens, clientVars, ready, cancel, nativeVars>>

(* emit throws if the collector is gone, puts the token into the channel,  *)
(* or waits for room in it and lets the thread go.                         *)
Emit(t) ==
  /\ at[t] = "emit"
  /\ IF stop[t] THEN EndGeneration(t)
     ELSE /\ \/ Goto(t, "loop")
             \/ /\ thread' = NoCall
                /\ at' = [at EXCEPT ![t] = "suspended"]
                /\ UNCHANGED <<queue, clientVars>>
          /\ UNCHANGED <<state, tokens>>
  /\ UNCHANGED <<ready, cancel, nativeVars>>

(* The collector has taken a token, or is cancelled. *)
Drain(t) ==
  /\ at[t] = "suspended"
  /\ at' = [at EXCEPT ![t] = "resumed"]
  /\ queue' = Append(queue, t)
  /\ UNCHANGED <<state, ready, cancel, thread, tokens, clientVars, nativeVars>>

Resume(t) ==
  /\ First(t)
  /\ at[t] = "resumed"
  /\ IF stop[t] THEN state' = "ModelReady" /\ Over(t)
     ELSE Take(t, "loop") /\ UNCHANGED state
  /\ UNCHANGED <<ready, cancel, nativeVars>>

------------------------------------------------------------------------------
(* bench *)
BenchStart(t) ==
  /\ Starts(t, "bench")
  /\ ~stop[t]
  /\ Admits("bench")
  /\ Take(t, "bench")
  /\ ready' = FALSE
  /\ state' = "Benchmarking"
  /\ UNCHANGED <<cancel, nativeVars>>

BenchEnd(t) ==
  /\ at[t] = "bench"
  /\ state' = "ModelReady"
  /\ Return(t)
  /\ UNCHANGED <<ready, cancel, nativeVars>>

------------------------------------------------------------------------------
(* cleanUp and destroy *)
UnloadStart(t) ==
  /\ Starts(t, "cleanUp")
  /\ state = "ModelReady"
  /\ Take(t, "unload")
  /\ ready' = FALSE
  /\ state' = "UnloadingModel"
  /\ UNCHANGED <<cancel, nativeVars>>

ResetError(t) ==
  /\ Starts(t, "cleanUp")
  /\ state = "Error"
  /\ state' = "Initialized"
  /\ Over(t)
  /\ UNCHANGED <<ready, cancel, nativeVars>>

(* unload frees the globals and leaves the pointers as they are, whether   *)
(* cleanUp has called it or destroy.                                       *)
Free(how) ==
  /\ model' = how
  /\ context' = how
  /\ talk' = "fresh"
  /\ endless' = FALSE

(* Mutation: back to ModelReady. *)
UnloadEndReady(t) ==
  /\ at[t] = "unload"
  /\ Free("freed")
  /\ state' = "ModelReady"
  /\ Return(t)
  /\ UNCHANGED <<ready, cancel>>

UnloadEnd(t) ==
  /\ at[t] = "unload"
  /\ Free("freed")
  /\ state' = "Initialized"
  /\ Return(t)
  /\ UNCHANGED <<ready, cancel>>

DestroyStart(t) ==
  /\ Starts(t, "destroy")
  /\ ready' = FALSE
  /\ IF state = "Initialized" THEN Over(t) ELSE Take(t, "wreck")
  /\ UNCHANGED <<state, cancel, nativeVars>>

(* Mutation: destroy resets the state although a flow may be waiting. *)
DestroyEndReset(t) ==
  /\ at[t] = "wreck"
  /\ Free("destroyed")
  /\ state' = "Initialized"
  /\ Return(t)
  /\ UNCHANGED <<ready, cancel>>

DestroyEnd(t) ==
  /\ at[t] = "wreck"
  /\ Free("destroyed")
  /\ Return(t)
  /\ UNCHANGED <<state, ready, cancel>>

------------------------------------------------------------------------------
ThreadStep(t) ==
  \/ Refuse(t) \/ LoadStart(t) \/ LoadEnd(t) \/ PrepareEnd(t)
  \/ SystemStart(t) \/ SystemEnd(t)
  \/ PromptStart(t) \/ PromptEnd(t) \/ Loop(t) \/ Token(t) \/ Emit(t) \/ Resume(t)
  \/ BenchStart(t) \/ BenchEnd(t)
  \/ UnloadStart(t) \/ ResetError(t) \/ UnloadEnd(t)
  \/ DestroyStart(t) \/ DestroyEnd(t)

Next ==
  \/ InitStart \/ InitEnd
  \/ \E t \in Calls :
       \/ \E k \in Kinds : Call(t, k)
       \/ Enqueue(t) \/ Cancel(t) \/ Drain(t)
       \/ ThreadStep(t)

Spec == Init /\ [][Next]_vars

(* The dispatcher has a thread to run on, and a thread that calls cleanUp  *)
(* or destroy goes on to runBlocking.  Collectors promise nothing.         *)
Fairness ==
  /\ WF_vars(InitStart \/ InitEnd)
  /\ WF_vars(\E t \in Calls : ThreadStep(t))
  /\ \A t \in Calls : WF_vars(Enqueue(t))

FairSpec == Spec /\ Fairness

------------------------------------------------------------------------------
(* Native code never works with a context or a model that is not there: a  *)
(* state that admits prompts, benchmarks or an unload is only ever reached *)
(* with both alive.  Only destroy, which frees them under every state but  *)
(* Initialized and resets none, takes both away (InferenceEngineImpl 312). *)
MemoryIn(m) == model = m /\ context = m

NativeIsAlive ==
  \A t \in Calls : at[t] \in {"system", "prompt", "token", "bench", "unload"} =>
    MemoryIn("live") \/ MemoryIn("destroyed")

(* One operation at a time works on the conversation, although a flow that *)
(* waits for its collector gives the thread to whoever comes next.         *)
Working == Running \cup Talking

OneAtATime ==
  \A s, t \in Calls : at[s] \in Working \ {"wreck"} /\ at[t] \in Working \ {"wreck"}
                        => s = t

(* Nothing but an unload makes the engine forget what has been said: a     *)
(* system prompt, which clears chat_msgs, cannot come after a user's.      *)
KeepsConversation ==
  [][talk = "talking" /\ talk' # talk =>
       \E t \in Calls : at[t] \in {"unload", "wreck"}]_vars

(* Whatever clients call, and however a flow gives the thread away, the    *)
(* model is used in the order that ai_chat.cpp relies on: the engine       *)
(* implements EnginePhases.  A load, a benchmark or an unload under way is *)
(* where the native code still is; a prompt that has failed is stuck, as   *)
(* sendUserPrompt leaves its state (InferenceEngineImpl 230-237).          *)
Phase ==
  CASE state \in {"Uninitialized", "Initializing", "LoadingModel"} -> "Initialized"
    [] state \in {"Benchmarking", "UnloadingModel"} -> "ModelReady"
    [] state = "ProcessingUserPrompt" /\ ~(\E t \in Calls : at[t] = "prompt") -> "Stuck"
    [] OTHER -> state

EP == INSTANCE EnginePhases WITH phase <- Phase

FollowsPhases == EP!Spec

(* cleanUp and destroy, which block their thread (in the sample the main   *)
(* thread), come back, whatever collectors do, but for one case: the flag  *)
(* they raised was lowered again by a load that was under way              *)
(* (InferenceEngineImpl 177), and a reply whose stop is never reached      *)
(* keeps the thread for good.                                              *)
HeldForGood == [](~cancel /\ endless /\ \E s \in Calls : thread = s /\ at[s] \in Talking)

BlockedReturn ==
  \A t \in Calls : at[t] = "raised" ~> (at[t] = "idle" \/ HeldForGood)

(* The inductive invariant: what each state says about the calls and about *)
(* what has been said ...                                                  *)
Silent == {"Uninitialized", "Initializing", "Initialized", "LoadingModel",
           "ProcessingSystemPrompt", "Error"}

EngineInv ==
  /\ \A t \in Calls : at[t] \in Running <=> thread = t
  /\ \A t \in Calls : at[t] \in {"load", "prepare"} => state = "LoadingModel"
  /\ \A t \in Calls : at[t] = "prepare" => model = "live"
  /\ \A t \in Calls : at[t] = "system" => state = "ProcessingSystemPrompt"
  /\ \A t \in Calls : at[t] = "prompt" => state = "ProcessingUserPrompt"
  /\ \A t \in Calls : at[t] = "bench" => state = "Benchmarking"
  /\ \A t \in Calls : at[t] = "unload" => state = "UnloadingModel"
  /\ \A s, t \in Calls : at[s] \in Talking /\ at[t] \in Talking => s = t
  /\ \A t \in Calls : at[t] \in Talking => state = "Generating"
  /\ ready => state = "ModelReady" /\ talk # "talking"
  /\ state \in Silent => talk # "talking"

(* ... and about the native globals. *)
Loaded == {"ModelReady", "Benchmarking", "ProcessingSystemPrompt",
           "ProcessingUserPrompt", "Generating", "UnloadingModel"}

AliveInv == state \in Loaded => MemoryIn("live") \/ MemoryIn("destroyed")

------------------------------------------------------------------------------
(* What the code's own texts claim of it *)

(* InferenceEngine.kt 29 on sendUserPrompt: "returns a Flow of generated   *)
(* tokens".  A flow is only cut short by a cleanUp or destroy that was     *)
(* under way at some time since it was called, or by its own collector.    *)
CutByItsOwn == \A t \in Calls : at[t] = "loop" /\ cancel => hit[t]
==============================================================================
