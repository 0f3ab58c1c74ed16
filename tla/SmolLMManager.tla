----------------------------- MODULE SmolLMManager -----------------------------
(***************************************************************************)
(* The chat of SmolChat: SmolLMManager with its jobs and its lock, the     *)
(* native pointer of SmolLM.kt, the instances behind it and the screen     *)
(* model that calls them from the main thread.                             *)
(*                                                                         *)
(* The main thread makes the calls of one event after the other.  Each of  *)
(* them holds stateLock from end to end and waits for nothing, so that the *)
(* lock needs no variable.  Jobs run on Dispatchers.Default, load on IO.   *)
(* A native call has a beginning and an end, between which anything else   *)
(* may happen, the end of its instance included.  A cancelled coroutine    *)
(* ends where it would next be dispatched: before its first instruction,   *)
(* and where withContext begins or returns.                                *)
(*                                                                         *)
(* crashed: native code has been given no instance, a closed one, or one   *)
(* without a batch.  Nothing is said of what follows.                      *)
(***************************************************************************)
EXTENDS LLMInference, FiniteSets

CONSTANTS
  Loads,      \* loads there may be, and the instances they make (bound)
  Responses,  \* generations there may be (bound)
  Chats,
  FirstChat,
  Nobody,     \* no load, no generation, no chat
  Benchmarks, \* benchmarks there may be (bound)
  Histories   \* the messages a chat may be stored with (bound)

(* A stored message holds the words of no completion that goes on here. *)
Stored == [role : Roles, text : {{}}]

ASSUME SmolLMManagerAssumption ==
  /\ FirstChat \in Chats
  /\ Nobody \notin Loads \cup Responses \cup Chats
  /\ Loads \cap Responses = {}
  /\ Benchmarks \cap (Loads \cup Responses) = {}
  /\ Histories \subseteq Seq(Stored)

VARIABLES
  native,                 \* the instances
  nativePtr,              \* SmolLM.nativePtr
  isInstanceLoaded,
  isInferenceOn,
  chat,
  modelInitJob,
  responseGenerationJob,
  cancelled,              \* the jobs that were asked to stop
  load,                   \* where each load is
  todo,                   \* stored messages it has still to add
  resend,                 \* loads whose onComplete sends an edited message
  response,               \* where each generation is
  benchmark,              \* where each benchmark is
  inside,                 \* the instance a native call works on
  saved,                  \* the chat its reply was stored in
  asked,                  \* the chat it was asked in, captured by onSuccess
  adrift,                 \* generations whose captured chat has no model
  modelLoadingState,
  isGeneratingResponse,
  shownChat,              \* uiState.chat
  withModel,              \* chats with an llmModelId other than -1
  visible,                \* the activity is started
  modelUnloaded,          \* by onStop
  main,                   \* calls the current event has still to make
  crashed

jobs    == <<modelInitJob, responseGenerationJob, cancelled>>
flags   == <<isInstanceLoaded, isInferenceOn, chat>>
chatVars == <<shownChat, withModel>>
screen  == <<modelLoadingState, isGeneratingResponse, chatVars>>
window  == <<visible, modelUnloaded>>
objects == <<native, nativePtr>>
loadVars == <<load, todo, resend>>
notes   == <<saved, asked, adrift>>
vars    == <<objects, flags, jobs, loadVars, response, benchmark, inside, notes, screen,
             window, main, crashed>>

Callers == Responses \cup Benchmarks

LoadStates == {"none", "launched", "native", "returned", "instructed", "filling",
               "posted", "failed", "ended"}
Entered    == {"in start", "in loop", "in stop"}
Going      == Entered \cup {"start", "loop", "emit", "back", "stop", "save",
                            "deliver", "caught", "failed"}
ResponseStates == Going \cup {"none", "launched", "delivered", "report", "ended"}
Calls == {"stop", "unload", "leave", "forget", "load", "reload", "send", "benchmark"}

TypeOK ==
  /\ native \in [Loads -> Instance(Responses)]
  /\ nativePtr \in Loads \cup {Nobody}
  /\ isInstanceLoaded \in BOOLEAN
  /\ isInferenceOn \in BOOLEAN
  /\ chat \in Chats \cup {Nobody}
  /\ modelInitJob \in Loads \cup {Nobody}
  /\ responseGenerationJob \in Responses \cup {Nobody}
  /\ cancelled \subseteq Loads \cup Responses
  /\ load \in [Loads -> LoadStates]
  /\ todo \in [Loads -> Seq(Stored)]
  /\ resend \subseteq Loads
  /\ response \in [Responses -> ResponseStates]
  /\ benchmark \in [Benchmarks -> {"none", "launched", "in", "ended"}]
  /\ inside \in [Callers -> Loads \cup {Nobody}]
  /\ saved \in [Responses -> Chats \cup {Nobody}]
  /\ asked \in [Responses -> Chats \cup {Nobody}]
  /\ adrift \subseteq Responses
  /\ modelLoadingState \in {"NOT_LOADED", "IN_PROGRESS", "SUCCESS", "FAILURE"}
  /\ isGeneratingResponse \in BOOLEAN
  /\ shownChat \in Chats
  /\ withModel \subseteq Chats
  /\ visible \in BOOLEAN
  /\ modelUnloaded \in BOOLEAN
  /\ main \in Seq(Calls)
  /\ crashed \in BOOLEAN

(* The screen model has been made, and its init calls loadModel.  The       *)
(* chats are those of the database and the new ones: one without a model   *)
(* stands for any that NewChat adds, one with a model for any of a task.   *)
Init ==
  /\ native = [l \in Loads |-> Absent]
  /\ nativePtr = Nobody
  /\ isInstanceLoaded = FALSE
  /\ isInferenceOn = FALSE
  /\ chat = Nobody
  /\ modelInitJob = Nobody
  /\ responseGenerationJob = Nobody
  /\ cancelled = {}
  /\ load = [l \in Loads |-> "none"]
  /\ todo = [l \in Loads |-> <<>>]
  /\ resend = {}
  /\ response = [r \in Responses |-> "none"]
  /\ benchmark = [b \in Benchmarks |-> "none"]
  /\ inside = [c \in Callers |-> Nobody]
  /\ saved = [r \in Responses |-> Nobody]
  /\ asked = [r \in Responses |-> Nobody]
  /\ adrift = {}
  /\ modelLoadingState = "NOT_LOADED"
  /\ isGeneratingResponse = FALSE
  /\ shownChat = FirstChat
  /\ withModel \in SUBSET Chats
  /\ visible = TRUE
  /\ modelUnloaded = FALSE
  /\ main = <<"load">>
  /\ crashed = FALSE

Usable(l) == l # Nobody /\ native[l].alive

(* A native call works on it. *)
Shared(l) == \E c \in Callers : inside[c] = l

WithCancelled(jobset) == cancelled' = cancelled \cup (jobset \ {Nobody})

------------------------------------------------------------------------------
(* Events of the screen: a handler makes its calls in this order. *)

Event(calls) ==
  /\ main = <<>>
  /\ main' = calls
  /\ UNCHANGED <<objects, flags, jobs, loadVars, response, benchmark, inside, notes,
                 modelLoadingState, isGeneratingResponse, crashed>>

(* A chat with a model needs a load (bound). *)
LoadsFor(c) == c \in withModel => \E l \in Loads : load[l] = "none"

MoreResponses == \E r \in Responses : response[r] = "none"

(* The keyboard's Go sends while a reply is under way, too. *)
SendUserQuery ==
  /\ visible
  /\ shownChat \in withModel
  /\ modelLoadingState = "SUCCESS"
  /\ MoreResponses
  /\ Event(<<"send">>)
  /\ UNCHANGED <<chatVars, window>>

StopGeneration ==
  /\ visible
  /\ isGeneratingResponse
  /\ Event(<<"stop">>)
  /\ UNCHANGED <<chatVars, window>>

(* Mutation: the generation goes on. *)
SwitchUnstopped(c) ==
  /\ visible
  /\ LoadsFor(c)
  /\ Event(<<"load">>)
  /\ shownChat' = c
  /\ UNCHANGED <<withModel, window>>

(* Also NewChat, OnTaskSelected and OnDeleteChat. *)
SwitchChat(c) ==
  /\ visible
  /\ LoadsFor(c)
  /\ Event(<<"stop", "load">>)
  /\ shownChat' = c
  /\ UNCHANGED <<withModel, window>>

DeleteChatMessages ==
  /\ visible
  /\ LoadsFor(shownChat)
  /\ Event(<<"stop", "unload", "load">>)
  /\ UNCHANGED <<chatVars, window>>

(* The message that was edited is sent by the load's onComplete. *)
OnMessageEdited ==
  /\ visible
  /\ LoadsFor(shownChat)
  /\ Event(<<"unload", "reload">>)
  /\ UNCHANGED <<chatVars, window>>

UpdateChatSettings ==
  /\ visible
  /\ LoadsFor(shownChat)
  /\ Event(<<"unload", "load">>)
  /\ UNCHANGED <<chatVars, window>>

UpdateChatModel ==
  /\ visible
  /\ \E l \in Loads : load[l] = "none"
  /\ Event(<<"load">>)
  /\ withModel' = withModel \cup {shownChat}
  /\ UNCHANGED <<shownChat, window>>

StartBenchmark ==
  /\ visible
  /\ \E b \in Benchmarks : benchmark[b] = "none"
  /\ Event(<<"benchmark">>)
  /\ UNCHANGED <<chatVars, window>>

OnStop ==
  /\ visible
  /\ Event(<<"leave">>)
  /\ visible' = FALSE
  /\ UNCHANGED <<chatVars, modelUnloaded>>

OnStart ==
  /\ ~visible
  /\ modelUnloaded => LoadsFor(shownChat)
  /\ Event(IF modelUnloaded THEN <<"load">> ELSE <<>>)
  /\ visible' = TRUE
  /\ UNCHANGED <<chatVars, modelUnloaded>>

Events ==
  \/ SendUserQuery \/ StopGeneration \/ DeleteChatMessages \/ OnMessageEdited
  \/ UpdateChatSettings \/ UpdateChatModel \/ StartBenchmark \/ OnStop \/ OnStart
  \/ \E c \in Chats : SwitchChat(c)

------------------------------------------------------------------------------
(* The calls of the main thread *)

Calling(call) == main # <<>> /\ Head(main) = call

Done == main' = Tail(main)

(* stopGeneration: stopResponseGeneration *)
Stop ==
  /\ Calling("stop")
  /\ Done
  /\ WithCancelled({responseGenerationJob})
  /\ isInferenceOn' = FALSE
  /\ isGeneratingResponse' = FALSE
  /\ UNCHANGED <<objects, isInstanceLoaded, chat, modelInitJob, responseGenerationJob,
                 loadVars, response, benchmark, inside, notes, modelLoadingState, chatVars,
                 window, crashed>>

(* unloadModel refuses while isInferenceOn; onStop remembers the answer.   *)
(* unload then closes the instance, which takes its time, and forgets the  *)
(* pointer afterwards.                                                     *)
Refused == isInferenceOn

RefuseUnload ==
  /\ Calling("unload") \/ Calling("leave")
  /\ Refused
  /\ Done
  /\ modelUnloaded' = IF Calling("leave") THEN FALSE ELSE modelUnloaded
  /\ UNCHANGED <<objects, flags, jobs, loadVars, response, benchmark, inside, notes, screen,
                 visible, crashed>>

(* Mutation: the flag is left up. *)
UnloadStillLoaded == UNCHANGED isInstanceLoaded

Unloaded == isInstanceLoaded' = FALSE

(* Mutation: a generation that has not raised the flag yet is left alone. *)
UnloadStopsLoad == WithCancelled({modelInitJob})

UnloadStopsAll == WithCancelled({responseGenerationJob, modelInitJob})

Unload ==
  /\ Calling("unload") \/ Calling("leave")
  /\ ~Refused
  /\ main' = <<"forget">> \o Tail(main)
  /\ UnloadStopsAll
  /\ Unloaded
  /\ chat' = Nobody
  /\ native' = IF nativePtr = Nobody THEN native
               ELSE [native EXCEPT ![nativePtr] = Closed(@)]
  /\ modelUnloaded' = IF Calling("leave") THEN TRUE ELSE modelUnloaded
  /\ UNCHANGED <<nativePtr, isInferenceOn, modelInitJob, responseGenerationJob, loadVars,
                 response, benchmark, inside, notes, screen, visible, crashed>>

Forget ==
  /\ Calling("forget")
  /\ Done
  /\ nativePtr' = Nobody
  /\ modelLoadingState' = "NOT_LOADED"
  /\ UNCHANGED <<native, flags, jobs, loadVars, response, benchmark, inside, notes,
                 isGeneratingResponse, chatVars, window, crashed>>

(* loadModel for a chat without a model: a dialog, and no load *)
ShowDialog ==
  /\ Calling("load") \/ Calling("reload")
  /\ shownChat \notin withModel
  /\ Done
  /\ UNCHANGED <<objects, flags, jobs, loadVars, response, benchmark, inside, notes,
                 screen, window, crashed>>

(* loadModel: neither the old instance nor isInstanceLoaded is touched. *)
Load(l) ==
  /\ Calling("load") \/ Calling("reload")
  /\ shownChat \in withModel
  /\ load[l] = "none"
  /\ Done
  /\ WithCancelled({modelInitJob})
  /\ modelInitJob' = l
  /\ chat' = shownChat
  /\ load' = [load EXCEPT ![l] = "launched"]
  /\ resend' = IF Calling("reload") THEN resend \cup {l} ELSE resend
  /\ modelLoadingState' = "IN_PROGRESS"
  /\ UNCHANGED <<objects, isInstanceLoaded, isInferenceOn, responseGenerationJob, todo,
                 response, benchmark, inside, notes, isGeneratingResponse, chatVars,
                 window, crashed>>

(* Mutation: the previous generation is not cancelled. *)
GetResponseBeside(r) ==
  /\ responseGenerationJob' = r
  /\ response' = [response EXCEPT ![r] = "launched"]
  /\ UNCHANGED cancelled

GetResponse(r) ==
  /\ WithCancelled({responseGenerationJob})
  /\ responseGenerationJob' = r
  /\ response' = [response EXCEPT ![r] = "launched"]

(* sendUserQuery *)
Send(r) ==
  /\ Calling("send")
  /\ response[r] = "none"
  /\ Done
  /\ asked' = [asked EXCEPT ![r] = shownChat]
  /\ adrift' = IF shownChat \in withModel THEN adrift \ {r} ELSE adrift \cup {r}
  /\ IF isInstanceLoaded
       THEN GetResponse(r) /\ isGeneratingResponse' = TRUE
       ELSE /\ isGeneratingResponse' = FALSE
            /\ UNCHANGED <<cancelled, responseGenerationJob, response>>
  /\ UNCHANGED <<objects, flags, modelInitJob, loadVars, benchmark, inside, saved,
                 modelLoadingState, chatVars, window, crashed>>

LaunchBenchmark(b) ==
  /\ Calling("benchmark")
  /\ benchmark[b] = "none"
  /\ Done
  /\ benchmark' = [benchmark EXCEPT ![b] = "launched"]
  /\ UNCHANGED <<objects, flags, jobs, loadVars, response, inside, notes, screen, window,
                 crashed>>

MainStep ==
  \/ Stop \/ RefuseUnload \/ Unload \/ Forget \/ ShowDialog
  \/ \E b \in Benchmarks : LaunchBenchmark(b)
  \/ \E l \in Loads : Load(l)
  \/ \E r \in Responses : Send(r)

------------------------------------------------------------------------------
(* The job of load *)

Loading(l, from, to) ==
  /\ load[l] = from
  /\ load' = [load EXCEPT ![l] = to]
  /\ UNCHANGED <<jobs, resend, response, benchmark, inside, notes,
                 isGeneratingResponse, chatVars, window>>

(* A cancelled load ends, but not in native code. *)
LoadCancelled(l) ==
  /\ l \in cancelled
  /\ \E from \in {"launched", "returned", "posted", "failed"} : Loading(l, from, "ended")
  /\ UNCHANGED <<objects, flags, todo, modelLoadingState, main, crashed>>

LoadBegin(l) ==
  /\ l \notin cancelled
  /\ Loading(l, "launched", "native")
  /\ UNCHANGED <<objects, flags, todo, modelLoadingState, main, crashed>>

(* loadModel returns, and its pointer is stored over whatever is there. *)
LoadReturn(l) ==
  /\ Loading(l, "native", "returned")
  /\ native' = [native EXCEPT ![l] = Loaded]
  /\ nativePtr' = l
  /\ UNCHANGED <<flags, todo, modelLoadingState, main, crashed>>

LoadThrow(l) ==
  /\ Loading(l, "native", "failed")
  /\ UNCHANGED <<objects, flags, todo, modelLoadingState, main, crashed>>

(* A message goes to the instance the pointer is at by now, if any: the    *)
(* job may have been cancelled since it last looked.                       *)
Give(message) ==
  /\ \/ /\ Usable(nativePtr)
        /\ native' = [native EXCEPT ![nativePtr] =
                        WithHistory(@, <<message>>, ~Shared(nativePtr))]
        /\ UNCHANGED crashed
     \/ /\ ~Usable(nativePtr) \/ Shared(nativePtr)
        /\ crashed' = TRUE
        /\ UNCHANGED native
  /\ UNCHANGED <<nativePtr, flags, modelLoadingState, main>>

(* The system prompt, if there is one *)
Instruct(l) ==
  /\ Loading(l, "returned", "instructed")
  /\ UNCHANGED todo
  /\ \/ Give([role |-> "system", text |-> {}])
     \/ UNCHANGED <<objects, flags, modelLoadingState, main, crashed>>

(* The stored messages, unless the chat is a task; the database may throw. *)
Recall(l) ==
  /\ \/ \E messages \in Histories :
          /\ todo' = [todo EXCEPT ![l] = messages]
          /\ Loading(l, "instructed", IF messages = <<>> THEN "posted" ELSE "filling")
     \/ Loading(l, "instructed", "failed") /\ UNCHANGED todo
  /\ UNCHANGED <<objects, flags, modelLoadingState, main, crashed>>

Fill(l) ==
  /\ Loading(l, "filling", IF Len(todo[l]) = 1 THEN "posted" ELSE "filling")
  /\ todo' = [todo EXCEPT ![l] = Tail(@)]
  /\ Give(Head(todo[l]))

(* onSuccess and onComplete, which sends a message that was edited         *)
LoadSuccess(l) ==
  /\ main = <<>>
  /\ l \notin cancelled
  /\ l \in resend => MoreResponses
  /\ Loading(l, "posted", "ended")
  /\ isInstanceLoaded' = TRUE
  /\ modelLoadingState' = "SUCCESS"
  /\ main' = IF l \in resend THEN <<"send">> ELSE <<>>
  /\ UNCHANGED <<objects, isInferenceOn, chat, todo, crashed>>

LoadError(l) ==
  /\ main = <<>>
  /\ l \notin cancelled
  /\ Loading(l, "failed", "ended")
  /\ modelLoadingState' = "FAILURE"
  /\ UNCHANGED <<objects, flags, todo, main, crashed>>

LoadStep(l) ==
  \/ LoadCancelled(l) \/ LoadBegin(l) \/ LoadReturn(l) \/ LoadThrow(l)
  \/ Instruct(l) \/ Recall(l) \/ Fill(l) \/ LoadSuccess(l) \/ LoadError(l)

------------------------------------------------------------------------------
(* The job of getResponse *)

Goes(r, to) ==
  /\ response' = [response EXCEPT ![r] = to]
  /\ UNCHANGED <<jobs, loadVars, benchmark, window, main>>

Quiet == UNCHANGED <<objects, flags, inside, notes, screen, crashed>>

(* One that is cancelled may have looked before. *)
Begin(r) ==
  /\ response[r] = "launched"
  /\ \/ /\ r \in cancelled
        /\ Goes(r, "ended")
        /\ UNCHANGED isInferenceOn
     \/ Goes(r, "start") /\ isInferenceOn' = TRUE
  /\ UNCHANGED <<objects, isInstanceLoaded, chat, inside, notes, screen, crashed>>

(* Each call reads the pointer again.  completionLoop needs a batch.  Two  *)
(* calls on one instance race: they may spoil its messages or more.        *)
Crash(r) ==
  /\ crashed' = TRUE
  /\ UNCHANGED <<objects, flags, jobs, loadVars, response, benchmark, inside, notes, screen,
                 window, main>>

Callable(r) ==
  /\ Usable(nativePtr)
  /\ response[r] = "loop" => native[nativePtr].batch # 0

Undisturbed(r) ==
  /\ ~Shared(nativePtr)
  /\ response[r] # "start" => native[nativePtr].open = {r}

Enter(r) ==
  \/ /\ response[r] \in {"start", "loop", "stop"}
     /\ ~Callable(r) \/ Shared(nativePtr)
     /\ Crash(r)
  \/ /\ response[r] \in {"start", "loop", "stop"}
     /\ Callable(r)
     /\ inside' = [inside EXCEPT ![r] = nativePtr]
     /\ native' = [native EXCEPT ![nativePtr].tidy = @ /\ Undisturbed(r)]
     /\ Goes(r, CASE response[r] = "start" -> "in start"
                  [] response[r] = "loop"  -> "in loop"
                  [] response[r] = "stop"  -> "in stop")
     /\ UNCHANGED <<nativePtr, flags, notes, screen, crashed>>

(* The call ends; a closed instance has been written to. *)
Leave(r, o, to) ==
  /\ IF native[inside[r]].alive
       THEN /\ native' = [native EXCEPT ![inside[r]] = o]
            /\ Goes(r, to)
            /\ inside' = [inside EXCEPT ![r] = Nobody]
            /\ UNCHANGED <<nativePtr, flags, notes, screen, crashed>>
       ELSE Crash(r)

StartCompletion(r) ==
  /\ response[r] = "in start"
  /\ LET o == native[inside[r]]
     IN \/ Leave(r, Started(o, r), "loop")
        \/ Leave(r, Asked(o, r), "failed")      \* the template throws

CompletionLoop(r) ==
  /\ response[r] = "in loop"
  /\ LET o == native[inside[r]]
     IN IF ContextReached(o)
          THEN Leave(r, o, "failed")
          ELSE \/ \E byte \in Bytes : Leave(r, WithPiece(o, r, byte), "emit")
               \/ Leave(r, Ended(o), "stop")

StopCompletion(r) ==
  /\ response[r] = "in stop"
  /\ Leave(r, Stopped(native[inside[r]]), "save")

(* emit: onPartialResponseGenerated on the main thread.  A job that is     *)
(* cancelled before that block throws instead, and after it, too.          *)
Partial(r) ==
  /\ response[r] = "emit"
  /\ IF r \in cancelled THEN Goes(r, "caught")
     ELSE main = <<>> /\ Goes(r, "back")
  /\ Quiet

(* Back from the main thread. *)
Resume(r) ==
  /\ response[r] \in {"back", "delivered"}
  /\ Goes(r, IF r \in cancelled THEN "caught"
             ELSE IF response[r] = "back" THEN "loop" ELSE "ended")
  /\ Quiet

(* The reply goes to the chat that is current now, if the database takes   *)
(* it.                                                                     *)
Save(r) ==
  /\ response[r] = "save"
  /\ \/ Goes(r, "deliver") /\ saved' = [saved EXCEPT ![r] = chat]
     \/ chat # Nobody /\ Goes(r, "failed") /\ UNCHANGED saved
  /\ UNCHANGED <<objects, flags, inside, asked, adrift, screen, crashed>>

(* onSuccess, with the speed and the length asked of the instance, and the *)
(* chat as it was when the query was sent, its model included.             *)
Deliver(r) ==
  /\ response[r] = "deliver"
  /\ r \notin cancelled
  /\ main = <<>>
  /\ IF Usable(nativePtr)
       THEN /\ Goes(r, "delivered")
            /\ isInferenceOn' = FALSE
            /\ isGeneratingResponse' = FALSE
            /\ shownChat' = asked[r]
            /\ withModel' = IF r \in adrift THEN withModel \ {asked[r]}
                            ELSE withModel \cup {asked[r]}
            /\ UNCHANGED <<objects, isInstanceLoaded, chat, inside, notes,
                           modelLoadingState, crashed>>
       ELSE Crash(r)

DeliverCancelled(r) ==
  /\ response[r] = "deliver"
  /\ r \in cancelled
  /\ Goes(r, "caught")
  /\ Quiet

(* Mutation: the flag is left up. *)
CaughtOn == UNCHANGED isInferenceOn

CaughtOff == isInferenceOn' = FALSE

(* withContext throws in a cancelled job: onCancelled never runs. *)
Caught(r) ==
  /\ response[r] \in {"caught", "failed"}
  /\ CaughtOff
  /\ Goes(r, IF response[r] = "caught" THEN "ended" ELSE "report")
  /\ UNCHANGED <<objects, isInstanceLoaded, chat, inside, notes, screen, crashed>>

Report(r) ==
  /\ response[r] = "report"
  /\ Goes(r, "ended")
  /\ IF r \in cancelled THEN UNCHANGED isGeneratingResponse
     ELSE main = <<>> /\ isGeneratingResponse' = FALSE
  /\ UNCHANGED <<objects, flags, inside, notes, modelLoadingState, chatVars, crashed>>

ResponseStep(r) ==
  \/ Begin(r) \/ Enter(r) \/ StartCompletion(r) \/ CompletionLoop(r) \/ StopCompletion(r)
  \/ Partial(r) \/ Resume(r) \/ Save(r) \/ Deliver(r) \/ DeliverCancelled(r)
  \/ Caught(r) \/ Report(r)

------------------------------------------------------------------------------
(* benchmark holds no lock and looks at no flag. *)
BenchmarkEnter(b) ==
  /\ benchmark[b] = "launched"
  /\ \/ /\ Usable(nativePtr)
        /\ benchmark' = [benchmark EXCEPT ![b] = "in"]
        /\ inside' = [inside EXCEPT ![b] = nativePtr]
        /\ native' = [native EXCEPT ![nativePtr].tidy = @ /\ ~Shared(nativePtr)]
        /\ UNCHANGED crashed
     \/ /\ ~Usable(nativePtr) \/ Shared(nativePtr)
        /\ crashed' = TRUE
        /\ UNCHANGED <<benchmark, inside, native>>
  /\ UNCHANGED <<nativePtr, flags, jobs, loadVars, response, notes, screen, window, main>>

BenchmarkLeave(b) ==
  /\ benchmark[b] = "in"
  /\ IF native[inside[b]].alive
       THEN /\ benchmark' = [benchmark EXCEPT ![b] = "ended"]
            /\ inside' = [inside EXCEPT ![b] = Nobody]
            /\ native' = [native EXCEPT ![inside[b]] = Benched(@)]
            /\ UNCHANGED crashed
       ELSE crashed' = TRUE /\ UNCHANGED <<benchmark, inside, native>>
  /\ UNCHANGED <<nativePtr, flags, jobs, loadVars, response, notes, screen, window, main>>

------------------------------------------------------------------------------
Next ==
  /\ ~crashed
  /\ \/ Events
     \/ MainStep
     \/ \E l \in Loads : LoadStep(l)
     \/ \E r \in Responses : ResponseStep(r)
     \/ \E b \in Benchmarks : BenchmarkEnter(b) \/ BenchmarkLeave(b)

Spec == Init /\ [][Next]_vars

(* Every thread goes on.  A block that is posted to the main looper gets   *)
(* its turn, however often the user keeps the main thread busy.            *)
FairSpec ==
  /\ Spec
  /\ WF_vars(~crashed /\ MainStep)
  /\ \A l \in Loads : SF_vars(~crashed /\ LoadStep(l))
  /\ \A r \in Responses : SF_vars(~crashed /\ ResponseStep(r))

------------------------------------------------------------------------------
(* Properties *)

(* While isInstanceLoaded invites queries the pointer is at an instance    *)
(* that lives, whichever cancelled load stored it last; and the screen     *)
(* says SUCCESS only then, but for the moment in which unloadModel closes. *)
ReadyIsLive ==
  /\ isInstanceLoaded => Usable(nativePtr)
  /\ modelLoadingState = "SUCCESS" /\ ~Calling("forget") => isInstanceLoaded

(* isInferenceOn, which makes unloadModel refuse, is never left up: some   *)
(* generation is still on its way to clear it.                             *)
FlagIsBacked == isInferenceOn => \E r \in Responses : response[r] \in Going

Listening(r) == response[r] \notin {"none", "ended"} /\ r \notin cancelled

(* Of all generations that are under way only the last has not been told   *)
(* to stop: the screen never gets the pieces of two replies.               *)
OneListens == \A r \in Responses : Listening(r) => r = responseGenerationJob

(* unloadModel may close an instance that a generation is at work on, if    *)
(* that has been told to stop.  For the one that has not, the pointer is   *)
(* at an instance that lives, from the moment it is launched until its     *)
(* reply is shown, and the native call it is in works on one: neither      *)
(* completionLoop nor the speed that onSuccess asks for meets a null       *)
(* pointer or a closed instance.                                           *)
HeardLives ==
  \A r \in Responses :
    Listening(r) =>
      /\ Usable(nativePtr)
      /\ inside[r] # Nobody => native[inside[r]].alive

(* A reply that is about to be shown was asked in the chat that is on the  *)
(* screen, so that onSuccess, which writes the chat it captured there,     *)
(* takes nobody back to another one; and it has been stored in that chat.  *)
(* The exception is a query that was sent in a chat without a model: the   *)
(* load for an edited message goes on when a new chat is opened, its       *)
(* onComplete asks there, and the reply is stored in the old chat.         *)
ReplyFindsItsChat ==
  \A r \in Responses :
    response[r] = "deliver" /\ r \notin cancelled /\ main = <<>>
      => /\ asked[r] = shownChat
         /\ r \notin adrift => saved[r] = asked[r]

Said(m) == m.role = "assistant" /\ m.text # {}

(* As long as completions came one after the other, none of them cut short *)
(* by the next, and the model spelled its characters out, it is told its   *)
(* own words once, whole and after the question they answer, and the bytes *)
(* it writes become characters.                                            *)
TidyReplies ==
  \A l \in Loads :
    LET ms == native[l].messages
    IN native[l].tidy =>
         /\ native[l].cache # "broken"
         /\ \A i \in 2..Len(ms) :
              Said(ms[i]) => ms[i - 1].role = "user" /\ ms[i].text = ms[i - 1].text

(* Every reply ends, if only because the context is full: completionLoop   *)
(* counts the batch before it decodes it.                                  *)
ResponsesEnd ==
  \A r \in Responses :
    response[r] = "launched" ~> response[r] = "ended" \/ crashed

(* unloadModel "clears the resources occupied by the model only if the     *)
(* inference is not in progress": no native call works on an instance that *)
(* has been closed.                                                        *)
BusyIsAlive == \A c \in Callers : inside[c] = Nobody \/ native[inside[c]].alive
==============================================================================
