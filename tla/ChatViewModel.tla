---------------------------- MODULE ChatViewModel ----------------------------
(***************************************************************************)
(* The conversation engine of the Kaede app: ChatViewModel.kt with the     *)
(* parts of MlcLlm.kt (load, generate, release), MemoryManager.kt and      *)
(* ChatScreen.kt it drives.                                                *)
(*                                                                         *)
(* The main thread runs one callback or coroutine segment at a time, so a  *)
(* segment between two suspension points is one action.  Model loading and *)
(* token streaming run on Dispatchers.IO and interleave with the main      *)
(* thread and with each other at every read and write of shared state.     *)
(*                                                                         *)
(* A turn is one call of sendMessage; its id stands for the message text.  *)
(* A generated text is TextLen tokens of that turn, so that a reply tells  *)
(* whose tokens it is made of.                                             *)
(***************************************************************************)
EXTENDS MemoryManager, FiniteSets

CONSTANTS
  Turns,        \* calls of sendMessage
  Loaders,      \* calls of initializeMlcLlm: the constructor's and retries
  FirstLoader,  \* the constructor's
  NoTurn,       \* the turn of a system message
  TextLen,      \* tokens of a generated text
  MaxClears,    \* calls of clearChat (bound)
  StaleUI       \* TRUE: a click may precede the recomposition it depends on

ASSUME ChatAssumption ==
  /\ FirstLoader \in Loaders
  /\ NoTurn \notin Turns
  /\ TextLen \in Nat \ {0}
  /\ MaxClears \in Nat
  /\ StaleUI \in BOOLEAN

VARIABLES
  messages,             \* _messages
  isTyping,             \* _isTyping
  currentResponse,      \* _currentResponse, as the turns its tokens belong to
  modelState,           \* _modelState
  conversationBuffer,   \* MemoryManager.conversationBuffer
  sessionMessageCount,  \* MemoryManager.sessionMessageCount
  longTerm,             \* turns saved by MemoryRepository.saveMemory
  loadProgress,         \* MlcLlm._loadProgress, in tenths
  isModelLoaded,        \* MlcLlm.isModelLoaded
  loader,               \* where each initializeMlcLlm coroutine is
  at,                   \* the progress each load last reported
  seen,                 \* the last progress each collector received
  turn,                 \* where each generateResponse coroutine is
  local,                \* the value of _currentResponse that += has read
  sent,                 \* tokens a turn has streamed
  prompt,               \* the history in a prompt that is yet to be used
  uiEnabled,            \* the "enabled" the input bar was last composed with
  clears,               \* calls of clearChat so far
  cleared               \* onCleared has run: the scope is cancelled

modelVars  == <<modelState, loadProgress, isModelLoaded, loader, at, seen>>
memoryVars == <<conversationBuffer, sessionMessageCount, longTerm>>
streamVars == <<local, sent, prompt>>
vars == <<messages, isTyping, currentResponse, modelVars, memoryVars, turn,
          streamVars, uiEnabled, clears, cleared>>

------------------------------------------------------------------------------
(* Values *)

Progress == {0, 2, 5, 7, 9, 10}
NotSeen  == -1

ModelStates  == {"Idle", "Loading", "Success"}
LoaderStates == {"none", "start", "loading", "flag", "loaded", "collect"}
TurnStates   == {"none", "rejected", "context", "generate", "read", "write",
                 "return", "save", "done"}

SystemMessage(k) == [kind |-> k, turn |-> NoTurn, text |-> <<>>]
UserMessage(t)   == [kind |-> "user", turn |-> t, text |-> <<>>]
KaedeMessage(t, text) == [kind |-> "reply", turn |-> t, text |-> text]
ErrorMessage(t)  == [kind |-> "error", turn |-> t, text |-> <<>>]

Message ==
  [kind : {"ready", "loading", "cleared", "user", "reply", "error"},
   turn : Turns \cup {NoTurn},
   text : Seq(Turns)]

Remembered == [speaker : {"User", "Kaede"}, isUser : BOOLEAN, id : Turns]

(* A coroutine between sendMessage and the end of its finally block. *)
Live == {"context", "generate", "read", "write", "return", "save"}

TypeOK ==
  /\ messages \in Seq(Message)
  /\ isTyping \in BOOLEAN
  /\ currentResponse \in Seq(Turns)
  /\ modelState \in ModelStates
  /\ conversationBuffer \in Seq(Remembered)
  /\ sessionMessageCount \in Nat
  /\ longTerm \subseteq Turns
  /\ loadProgress \in Progress
  /\ isModelLoaded \in BOOLEAN
  /\ loader \in [Loaders -> LoaderStates]
  /\ at \in [Loaders -> Progress]
  /\ seen \in [Loaders -> Progress \cup {NotSeen}]
  /\ turn \in [Turns -> TurnStates]
  /\ local \in [Turns -> Seq(Turns)]
  /\ sent \in [Turns -> 0..TextLen]
  /\ prompt \in [Turns -> Seq(Remembered)]
  /\ uiEnabled \in BOOLEAN
  /\ clears \in 0..MaxClears
  /\ cleared \in BOOLEAN

------------------------------------------------------------------------------
(* The constructor: initializeMlcLlm has launched the first load. *)
Init ==
  /\ messages = <<>>
  /\ isTyping = FALSE
  /\ currentResponse = <<>>
  /\ modelState = "Idle"
  /\ conversationBuffer = <<>>
  /\ sessionMessageCount = 0
  /\ longTerm = {}
  /\ loadProgress = 0
  /\ isModelLoaded = FALSE
  /\ loader = [l \in Loaders |-> IF l = FirstLoader THEN "start" ELSE "none"]
  /\ at = [l \in Loaders |-> 0]
  /\ seen = [l \in Loaders |-> NotSeen]
  /\ turn = [t \in Turns |-> "none"]
  /\ local = [t \in Turns |-> <<>>]
  /\ sent = [t \in Turns |-> 0]
  /\ prompt = [t \in Turns |-> <<>>]
  /\ uiEnabled = FALSE
  /\ clears = 0
  /\ cleared = FALSE

------------------------------------------------------------------------------
(* Loading: MlcLlm.loadModelFromAssets, on Dispatchers.IO.  The chat only   *)
(* sees its progress and the flag, set in that order.                      *)

chatVars == <<messages, isTyping, currentResponse, memoryVars, turn,
              streamVars, clears, cleared>>

(* The progress that may follow p: a missing asset, a missing directory or *)
(* an exception while copying goes straight to 1.0.                        *)
NextProgress(p) ==
  CASE p = 0 -> {2}
    [] p = 2 -> {5, 10}
    [] p = 5 -> {7, 10}
    [] p = 7 -> {9}
    [] OTHER -> {10}

LoadStep(l) ==
  /\ loader[l] \in {"start", "loading"}
  /\ \E p \in NextProgress(at[l]) :
       /\ loadProgress' = p
       /\ at' = [at EXCEPT ![l] = p]
       /\ loader' = [loader EXCEPT ![l] = IF p = 10 THEN "flag" ELSE "loading"]
  /\ UNCHANGED <<chatVars, modelState, isModelLoaded, seen, uiEnabled>>

(* isModelLoaded = true comes after the progress has reached 1.0. *)
LoadFlag(l) ==
  /\ loader[l] = "flag"
  /\ isModelLoaded' = TRUE
  /\ loader' = [loader EXCEPT ![l] = "loaded"]
  /\ UNCHANGED <<chatVars, modelState, loadProgress, at, seen, uiEnabled>>

(* When the coroutine of a load gets to loadProgress.collect. *)
CollectsOnceReported(l) == loader[l] \in {"flag", "loaded", "collect"}
Collects(l) == loader[l] \in {"loaded", "collect"}

(* What a collector takes for the end of a load. *)
PastComplete(progress) == progress > 10
Complete(progress) == progress >= 10

(* loadProgress.collect: begun only when the load has returned, it gets    *)
(* the current value first and then, conflated, every later value that     *)
(* differs from the last one it got.  It never ends.                       *)
Collect(l) ==
  /\ ~cleared
  /\ Collects(l)
  /\ seen[l] # loadProgress
  /\ seen' = [seen EXCEPT ![l] = loadProgress]
  /\ loader' = [loader EXCEPT ![l] = "collect"]
  /\ IF Complete(loadProgress)
       THEN /\ modelState' = "Success"
            /\ messages' = Append(messages, SystemMessage("ready"))
       ELSE /\ modelState' = IF loadProgress > 0 THEN "Loading" ELSE modelState
            /\ UNCHANGED messages
  /\ UNCHANGED <<isTyping, currentResponse, memoryVars, turn, streamVars,
                 clears, cleared, loadProgress, isModelLoaded, at, uiEnabled>>

(* retryModelLoad: the collectors of the earlier loads stay. *)
RetryModelLoad(l) ==
  /\ ~cleared
  /\ loader[l] = "none"
  /\ modelState' = "Idle"
  /\ loader' = [loader EXCEPT ![l] = "start"]
  /\ UNCHANGED <<chatVars, loadProgress, isModelLoaded, at, seen, uiEnabled>>

------------------------------------------------------------------------------
(* The turn: sendMessage and generateResponse *)

Enabled == modelState = "Success" /\ ~isTyping

(* Compose re-reads the state flows; the input bar's enabled is a copy.    *)
Recompose ==
  /\ uiEnabled # Enabled
  /\ uiEnabled' = Enabled
  /\ UNCHANGED <<chatVars, modelVars>>

(* A click goes through if the bar was composed enabled; unless StaleUI,   *)
(* the frame has been recomposed since the state last changed.             *)
ClickOnAnyBar == uiEnabled
ClickAccepted == uiEnabled /\ (StaleUI \/ Enabled)

Remember(t, speaker) ==
  /\ conversationBuffer' =
       AddToBuffer(conversationBuffer, ConversationTurn(speaker, TRUE, t))
  /\ sessionMessageCount' = sessionMessageCount + 1

(* sendMessage refuses a message while the model is not ready. *)
SendRefused(t) ==
  /\ ~cleared
  /\ turn[t] = "none"
  /\ ClickAccepted
  /\ modelState # "Success"
  /\ turn' = [turn EXCEPT ![t] = "rejected"]
  /\ messages' = Append(messages, SystemMessage("loading"))
  /\ UNCHANGED <<isTyping, currentResponse, modelVars, memoryVars, streamVars,
                 uiEnabled, clears, cleared>>

(* Otherwise it runs on, in the same main-thread segment, through the      *)
(* start of generateResponse up to the query for context memories.         *)
Send(t) ==
  /\ ~cleared
  /\ turn[t] = "none"
  /\ ClickAccepted
  /\ modelState = "Success"
  /\ messages' = Append(messages, UserMessage(t))
  /\ Remember(t, "User")
  /\ isTyping' = TRUE
  /\ currentResponse' = <<>>
  /\ turn' = [turn EXCEPT ![t] = "context"]
  /\ UNCHANGED <<modelVars, longTerm, streamVars, uiEnabled, clears, cleared>>

(* getContextMemories has answered: only now is the history read. *)
BuildPrompt(t) ==
  /\ ~cleared
  /\ turn[t] = "context"
  /\ prompt' = [prompt EXCEPT ![t] = conversationBuffer]
  /\ turn' = [turn EXCEPT ![t] = "generate"]
  /\ UNCHANGED <<messages, isTyping, currentResponse, modelVars, memoryVars,
                 local, sent, uiEnabled, clears, cleared>>

(* MlcLlm.generate on Dispatchers.IO: a text, native or stub, or, when no  *)
(* model is loaded, a result whose text never reaches onToken.  The prompt *)
(* is not used again.  In a cancelled scope generateWithMLCOrStub does not *)
(* begin, or does not come back: generate catches that and no text streams *)
(* either (MlcLlm.kt 335).                                                 *)
Generate(t) ==
  /\ \/ /\ turn[t] = "generate"
        /\ turn' = [turn EXCEPT ![t] = IF isModelLoaded THEN "read" ELSE "return"]
     \/ /\ cleared
        /\ turn[t] = "read" /\ sent[t] = 0
        /\ turn' = [turn EXCEPT ![t] = "return"]
  /\ prompt' = [prompt EXCEPT ![t] = <<>>]
  /\ UNCHANGED <<messages, isTyping, currentResponse, modelVars, memoryVars,
                 local, sent, uiEnabled, clears, cleared>>

(* onToken: _currentResponse.value += token is a read and then a write, on *)
(* the IO thread.                                                          *)
TokenRead(t) ==
  /\ turn[t] = "read"
  /\ local' = [local EXCEPT ![t] = currentResponse]
  /\ turn' = [turn EXCEPT ![t] = "write"]
  /\ UNCHANGED <<messages, isTyping, currentResponse, modelVars, memoryVars,
                 sent, prompt, uiEnabled, clears, cleared>>

OneTooMany(t) == sent[t] < TextLen
OneTooFew(t) == sent[t] + 2 < TextLen
MoreTokens(t) == sent[t] + 1 < TextLen

TokenWrite(t) ==
  /\ turn[t] = "write"
  /\ currentResponse' = Append(local[t], t)
  /\ sent' = [sent EXCEPT ![t] = @ + 1]
  /\ local' = [local EXCEPT ![t] = <<>>]
  /\ turn' = [turn EXCEPT ![t] = IF MoreTokens(t) THEN "read" ELSE "return"]
  /\ UNCHANGED <<messages, isTyping, modelVars, memoryVars, prompt, uiEnabled,
                 clears, cleared>>

FinallyKeepsTyping(t) ==
  /\ currentResponse' = <<>>
  /\ turn' = [turn EXCEPT ![t] = "done"]
  /\ UNCHANGED isTyping

(* The finally block of generateResponse. *)
Finally(t) ==
  /\ isTyping' = FALSE
  /\ currentResponse' = <<>>
  /\ turn' = [turn EXCEPT ![t] = "done"]

(* generate has returned: the reply is what _currentResponse holds.  An    *)
(* important message is then saved, which suspends.                        *)
Reply(t) ==
  /\ ~cleared
  /\ turn[t] = "return"
  /\ messages' = Append(messages, KaedeMessage(t, currentResponse))
  /\ Remember(t, "Kaede")
  /\ \/ Finally(t)
     \/ /\ turn' = [turn EXCEPT ![t] = "save"]
        /\ UNCHANGED <<isTyping, currentResponse>>
  /\ UNCHANGED <<modelVars, longTerm, streamVars, uiEnabled, clears, cleared>>

Saved(t) ==
  /\ ~cleared
  /\ turn[t] = "save"
  /\ longTerm' = longTerm \cup {t}
  /\ Finally(t)
  /\ UNCHANGED <<messages, modelVars, conversationBuffer, sessionMessageCount,
                 streamVars, uiEnabled, clears, cleared>>

(* What the catch block adds to the transcript. *)
SwallowError(t) == UNCHANGED messages
ShowError(t) == messages' = Append(messages, ErrorMessage(t))

(* catch (e: Exception): the database has failed, or the scope has been    *)
(* cancelled while the coroutine was suspended; CancellationException is   *)
(* an Exception too.  A cancelled save may have been committed.            *)
Fail(t) ==
  /\ \/ turn[t] \in {"context", "save"}
     \/ cleared /\ turn[t] \in {"generate", "return"}
  /\ ShowError(t)
  /\ \/ UNCHANGED longTerm
     \/ cleared /\ turn[t] = "save" /\ longTerm' = longTerm \cup {t}
  /\ Finally(t)
  /\ UNCHANGED <<modelVars, conversationBuffer, sessionMessageCount, streamVars,
                 uiEnabled, clears, cleared>>

------------------------------------------------------------------------------
(* clearChat: the turns under way go on. *)
ClearChat ==
  /\ ~cleared
  /\ clears < MaxClears
  /\ clears' = clears + 1
  /\ messages' = <<SystemMessage("cleared")>>
  /\ conversationBuffer' = <<>>
  /\ sessionMessageCount' = 0
  /\ UNCHANGED <<isTyping, currentResponse, modelVars, longTerm, turn,
                 streamVars, uiEnabled, cleared>>

(* The ViewModel is cleared: viewModelScope is cancelled and MlcLlm        *)
(* released.  What runs on Dispatchers.IO runs to its end.                 *)
OnCleared ==
  /\ ~cleared
  /\ cleared' = TRUE
  /\ isModelLoaded' = FALSE
  /\ UNCHANGED <<messages, isTyping, currentResponse, modelState, loadProgress,
                 loader, at, seen, memoryVars, turn, streamVars, uiEnabled,
                 clears>>

------------------------------------------------------------------------------
LoaderStep(l) == LoadStep(l) \/ LoadFlag(l) \/ Collect(l)

TurnStep(t) == \/ BuildPrompt(t) \/ Generate(t) \/ TokenRead(t) \/ TokenWrite(t)
               \/ Reply(t) \/ Saved(t) \/ Fail(t)

Next ==
  \/ \E l \in Loaders : LoaderStep(l) \/ RetryModelLoad(l)
  \/ \E t \in Turns : Send(t) \/ SendRefused(t) \/ TurnStep(t)
  \/ Recompose
  \/ ClearChat
  \/ OnCleared

Spec == Init /\ [][Next]_vars

(* The main looper and the IO pool run every coroutine segment that is     *)
(* ready; the user and the callers of the ViewModel owe nothing.           *)
Fairness ==
  /\ \A l \in Loaders : WF_vars(LoaderStep(l))
  /\ \A t \in Turns : WF_vars(TurnStep(t))
  /\ WF_vars(Recompose)

FairSpec == Spec /\ Fairness

------------------------------------------------------------------------------
(* Properties that hold for every caller of the ViewModel *)

(* Where the visible dialogue is in the transcript, and how much of it     *)
(* comes after a place.                                                    *)
Dialogue(log) == {i \in 1..Len(log) : log[i].kind \in {"user", "reply"}}

Later(log, i) == Cardinality({j \in Dialogue(log) : j > i})

(* The short-term memory is exactly the end of the visible dialogue, at    *)
(* most MAX_BUFFER_SIZE turns of it, however sends, late replies, retries  *)
(* and clears interleave; the session counter counts that dialogue         *)
(* (ChatViewModel.kt 126-129, 175-178, 222-223).  A message with d later   *)
(* ones is d places from the end of the buffer, so that every place of the *)
(* buffer has its message.                                                 *)
BufferIsRecentDialogue ==
  LET k == Len(conversationBuffer)
  IN /\ sessionMessageCount = Cardinality(Dialogue(messages))
     /\ k = IF sessionMessageCount < MAX_BUFFER_SIZE THEN sessionMessageCount
                                                     ELSE MAX_BUFFER_SIZE
     /\ \A i \in Dialogue(messages) : Later(messages, i) < k =>
          LET m == messages[i]
              c == conversationBuffer[k - Later(messages, i)]
          IN c.id = m.turn /\ (c.speaker = "User" <=> m.kind = "user")

(* The short-term memory never outgrows its bound (MemoryManager.kt 48).   *)
HistoryBounded == Len(conversationBuffer) <= MAX_BUFFER_SIZE

(* The chat opens only on a model that generate accepts, although the      *)
(* progress reaches 1.0 before isModelLoaded is set: the state is Success  *)
(* only through a collector, and collectors start when a load has returned *)
(* (ChatViewModel.kt 80-100, MlcLlm.kt 164-165).                           *)
ReadyMeansLoaded == modelState = "Success" /\ ~cleared => isModelLoaded

(* A retry always leads back to a usable chat: no stale collector can      *)
(* leave the state at Idle or Loading for good (ChatViewModel.kt 86, 231). *)
BecomesReady == <>[](modelState = "Success" \/ cleared)

(* Every turn ends and takes the typing indicator with it, after a failure *)
(* or a cancellation too (ChatViewModel.kt 199-202).                       *)
TurnsEnd ==
  /\ \A t \in Turns : turn[t] \in Live ~> turn[t] = "done"
  /\ []<>~isTyping

------------------------------------------------------------------------------
(* Properties of the chat behind its own screen, where clicks only come    *)
(* from a recomposed input bar.                                            *)

FreshBar == ~StaleUI

Whole(t) == [i \in 1..TextLen |-> t]

(* The input bar is the only thing that keeps turns apart: at most one is  *)
(* live, and the typing indicator shows exactly while one is               *)
(* (ChatScreen.kt 114, ChatViewModel.kt 145, 200).                         *)
OneTurnAtATime ==
  /\ \A t, u \in Turns : turn[t] \in Live /\ turn[u] \in Live => t = u
  /\ isTyping <=> \E t \in Turns : turn[t] \in Live

(* What is on screen while a text streams is a prefix of it, with no token *)
(* lost to the unsynchronised += (ChatViewModel.kt 160-162).               *)
StreamIsOwnPrefix ==
  \A t \in Turns :
    /\ turn[t] \in {"generate", "read", "write", "return"} =>
         currentResponse = [i \in 1..sent[t] |-> t]
    /\ turn[t] = "write" => local[t] = currentResponse

(* A reply in the transcript is the whole text of its own turn             *)
(* (ChatViewModel.kt 170-175).                                             *)
RepliesWhole ==
  \A i \in 1..Len(messages) :
    messages[i].kind = "reply" => messages[i].text = Whole(messages[i].turn)

(* The history a prompt is built from, read after the database query has   *)
(* suspended the turn, still ends with the message the prompt answers,     *)
(* unless a clearChat has emptied it since (ChatViewModel.kt 129, 150-155).*)
PromptEndsWithOwnMessage ==
  \A t \in Turns : turn[t] = "generate" =>
    IF prompt[t] = <<>> THEN clears > 0
    ELSE prompt[t][Len(prompt[t])] = ConversationTurn("User", TRUE, t)

(* Behind its screen the chat keeps the promise of TurnTaking. *)
OpenTurn == IF \E t \in Turns : turn[t] \in Live
              THEN CHOOSE t \in Turns : turn[t] \in Live
              ELSE NoTurn

TT == INSTANCE TurnTaking WITH
        Nobody   <- NoTurn,
        Text     <- [t \in Turns |-> Whole(t)],
        log      <- messages,
        open     <- OpenTurn,
        answered <- \E t \in Turns : turn[t] = "save",
        asked    <- {t \in Turns : turn[t] \notin {"none", "rejected"}}

TakesTurns == TT!Spec

(* The inductive invariants behind the two groups of properties: what a    *)
(* coroutine's position says of the tokens it has sent and of the model.   *)
TokensCounted ==
  \A t \in Turns :
    /\ turn[t] \in {"none", "rejected", "context", "generate"} => sent[t] = 0
    /\ turn[t] \in {"read", "write"} => sent[t] < TextLen

ModelStaysLoaded ==
  ~cleared =>
    /\ \A l \in Loaders : Collects(l) => isModelLoaded
    /\ modelState = "Success" => isModelLoaded
    /\ \A t \in Turns : turn[t] \in Live => isModelLoaded

WholeOnReturn ==
  \A t \in Turns : turn[t] = "return" /\ ~cleared => sent[t] = TextLen

GuardedInv ==
  /\ OneTurnAtATime
  /\ StreamIsOwnPrefix
  /\ WholeOnReturn
  /\ RepliesWhole
  /\ \A t \in Turns : turn[t] = "context" => currentResponse = <<>>

=============================================================================
