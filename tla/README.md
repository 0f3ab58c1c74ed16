# A verification development for Kaede

Kaede is an Android companion app that talks through a language model on the
device. This directory models the program logic of the repository in TLA+,
checks it on small instances with TLC, and proves the results that matter most
for every instance with TLAPS.

The repository also carries SmolChat, a second chat app with its own binding to
llama.cpp (the `smollm` library, of which `kaede-app` has a copy), llama.cpp
itself and a sample app. SmolChat's inference core is modelled, too. llama.cpp is
vendored and not modelled; what the code relies on in it is an external
definition. Nearly all of the repository's lines are llama.cpp and its bundled
headers, so that the modelled share of all lines is small; of the two apps and
the two libraries every part with concurrency or failures is modelled or named
below.

Paths below are shortened: `kaede/` is `kaede-app/app/src/main/java/com/kaede/app/`,
`cpp/` is `kaede-app/app/src/main/cpp/`, `arm/` is `kaede-app/llama-lib/src/main/`,
`smol/` is `SmolChat-Android/app/src/main/java/io/shubham0204/smollmandroid/`,
`smollm/` is `SmolChat-Android/smollm/src/main/`.

## Inventory

### What is modelled

| component | code | state | operations |
|---|---|---|---|
| Chat engine | `kaede/viewmodel/ChatViewModel.kt`, `kaede/ui/chat/ChatScreen.kt` | messages, typing indicator, streamed text, model state | sendMessage, generateResponse, clearChat, retryModelLoad, initializeMlcLlm and its collector, onCleared |
| Short-term memory | `kaede/data/memory/MemoryManager.kt` | bounded buffer, session counter | addToBuffer, clearBuffer |
| Native text generator | `cpp/mlc-jni.cpp`, `kaede/ai/MlcLlm.kt` (generate) | one mutex, two flags, token totals | nativeGenerate, nativeCancel, nativeRelease, nativeLoadModel |
| Model loading and cache | `kaede/ai/MlcLlm.kt` (load) | files in the cache directory, progress, loaded flag | loadModelFromAssets, copyModelToCache |
| Inference engine | `arm/java/com/arm/aichat/internal/InferenceEngineImpl.kt` | a state field, two flags, one dispatcher thread | init, loadModel, setSystemPrompt, sendUserPrompt, bench, cleanUp, destroy |
| Native conversation | `arm/cpp/ai_chat.cpp` | three positions, message list, context cache | prepare, processSystemPrompt, processUserPrompt, generateNextToken, unload, benchModel |
| SmolLM binding | `smollm/java/.../SmolLM.kt`, `smollm/cpp/LLMInference.cpp`, `smollm.cpp` | one native pointer; per instance: messages, reply, cache of bytes, context use, batch | load, close, addChatMessage, startCompletion, completionLoop, stopCompletion, benchModel |
| SmolLMManager | `smol/llm/SmolLMManager.kt` | two flags, two jobs, the current chat | load, unload, getResponse, stopResponseGeneration, benchmark |
| SmolChat's chat screen (in part) | `smol/ui/screens/chat/ChatScreenViewModel.kt`, `ChatActivity.kt` | shown chat, model state, busy indicator, `modelUnloaded` | sending, stopping, switching, clearing, editing, settings, benchmark, onStart, onStop |

How they interact. The chat screen calls `ChatViewModel` on the main thread. It
calls `MlcLlm`, whose loading and streaming run on IO threads and reach
`mlc-jni.cpp` through JNI; each generated byte comes back through a callback on
the thread that holds the native mutex, then through a flow into
`_currentResponse`. `MemoryManager` is a plain object of the view model.
`InferenceEngineImpl` belongs to `llama-lib`, an inference library beside the app
that the app's build does not include yet: a state machine whose suspending
operations share one dispatcher thread and call the globals of `ai_chat.cpp`;
its tokens leave through a flow, whose collector may wait or go. It is modelled
with any client its interface admits.

In SmolChat the screen model calls `SmolLMManager` on the main thread, one call
after the other for one event. The manager holds a lock during each call and
launches jobs that outlive it: a load, a generation, a benchmark. They read the
one pointer of `SmolLM.kt` again at each native call, run on other threads, and
post their results back to the main thread. Cancelling a job only asks: it goes
on until it would next be dispatched, and a native call is never cut short.

What is hard, and what makes each correct:

| component | hard behaviour | correct if |
|---|---|---|
| Chat engine | suspension in a turn; `+=` on a flow from an IO thread; a bar acting on a stale composition; collectors of earlier loads; clears and cancellation in mid-turn | turns do not mix, memory is the end of the transcript, every turn ends, ready means loaded |
| Native generator | cancel and flag reads without the lock; total read and written back in callbacks; the mutex held for a whole stream | the lock is what keeps total, flag and cancel right; everybody gets it in the end |
| Model cache | crash, I/O error or second load in the middle of a copy; the directory alone is the mark of completeness | whole files stay whole, a load always ends, the cache is complete when used |
| Inference engine | a flow that waits gives the thread away; cancel flag raised by anyone; blocking clean-up; failure between two native steps | one operation at a time, on live memory, without losing the conversation |
| Native conversation | context shift inside a prompt or a reply; truncation; a reply's stop position | counter and cache agree, the system prompt survives, there is always room to go on |
| SmolLM binding | a completion abandoned between two calls leaves reply and bytes behind; the whole dialogue is decoded again with each query | the model's own words enter its memory once, whole, behind their question; every completion ends |
| SmolLMManager | jobs that were cancelled and go on, flags that all jobs share, a pointer that a late load overwrites, an unload beside a native call | queries are invited only with a live instance, the busy flag is not left up, one reply is heard |
| SmolChat's screen | a reply that arrives after the user went to another chat | a reply is shown in the chat it was asked in, and stored there if that had a model |

### What is not modelled

| component | why |
|---|---|
| SmolChat's folders, tasks, dialogs, labels | they call nothing that matters to inference; part of the screen model, which is therefore modelled in part |
| SmolChat's database and model repository | Room queries run one at a time; the two that jobs make, the history a load reads and the reply a generation stores, are in `SmolLMManager` |
| Long-term memory (`MemoryRepository`, Room) | the chat only sees that a query suspends and may fail, which `ChatViewModel` has; clean-up and counters are called by nobody, the singleton only from the main thread |
| Personality, token buffer, battery optimizer, performance monitor | small, sequential, most of it not called; no control depends on them |
| Prompt builder, query classifier, model validator, GGUF reader, vector database | pure functions or sequential parsers, better served by tests; most are not called |
| Screens, themes, settings | layout; the one decision that matters, when the input bar is enabled, is `Enabled` in `ChatViewModel` |
| Model download, Hugging Face client | pure I/O; the download repeats the hazards of the model cache |
| `llama-jni.cpp`, llama-jni sample, llama.cpp | not built, a sample, vendored |

Left out inside modelled parts: the texts of messages, moods and statistics;
`nativeInit` and `g_mlc_ready`, which is constantly false in this version; the
emergency answer of `mlc-jni.cpp` 167-177, because nothing in the try block before
it throws a C++ exception; what `nativeLoadModel` does with the files (nothing in
this version); a failing `init` of the engine, which ends the process;
`llama_decode` failing for reasons of its own; caches with sliding windows or multi-dimensional positions;
of SmolLM the sampler's settings, the speed and the length it reports and the
blocking `getResponse`, which nothing calls; of SmolChat's screen the deletion of
a model, which sends its chats to the dialog for a model.

## Modules

    MemoryManager <- ChatViewModel <- ChatViewModelProofs    TurnTaking  (abstract)
                     MlcNative <- MlcNativeProofs            SerialCalls (abstract)
                     ModelCache <- ModelCacheProofs
                     InferenceEngine <- InferenceEngineProofs
                     AiChat <- AiChatProofs                  EnginePhases (abstract)
    LLMInference <- SmolLMManager <- SmolLMManagerProofs <- SmolRepliesProofs

Each `MC...` module instantiates its component for TLC; a `.cfg` is one run.

**ChatViewModel.** A turn is one call of `sendMessage`, a loader one call of
`initializeMlcLlm`. The main thread runs one segment between two suspension
points at a time, so a segment is one action. Loading and streaming run on
`Dispatchers.IO`: each read and each write of `_currentResponse`, the loaded
flag and the progress is an action of its own. A generated text is `TextLen`
tokens, each carrying the id of its turn, so a reply shows whose tokens it is
made of. `Recompose` is the screen catching up with the state; with
`StaleUI = FALSE` a click waits for it, with `TRUE` it does not. `MemoryManager`
holds the operators the view model applies to its buffer. `TurnTaking` is what
the reader of the chat is promised: one open question at a time, answered by
the whole of its own text or by an apology. Clearing the transcript (`Wipe`)
neither opens nor ends a turn.

**MlcNative.** Every access to an atomic, the lock, the unlock, and the read and
the write of the token total are actions of their own. `SerialCalls` is what the
lock is for: calls take effect one at a time and the total counts them all. The
callback's method is looked up by name; a build whose minifier has renamed it is
an outcome of `LoadLibrary`, in which a call returns early and streams nothing.
A reply is a number of bytes, not a text, so that nothing is claimed of it being
empty.

**ModelCache.** A load goes through the stages of `loadModelFromAssets`; a file
is absent, partial or whole, opening truncates it, and writing takes a second
step. `Crash` ends the process and keeps the files. `overlap` and `clean` are
history variables that say under which conditions a property is claimed.

**InferenceEngine.** A call is a client's call of one operation. `queue` and
`thread` are the dispatcher of one thread; `emit` to a slow collector suspends
the flow and gives the thread away. `model`, `context` and `talk` are the
globals of `ai_chat.cpp` as the engine sees them: absent, live or freed. A reply
has at most `PredictLength` tokens if its stop can be reached. `endless` says
that it cannot: the stop is set beyond the limit of the context, where shifts
move the position back and the stop stays (`ai_chat.cpp` 448, 493-502); then the
reply ends only if the model ends it or the cancel flag is up.
`EnginePhases` is the order in which a model is used: a load, perhaps a system
prompt, then prompts and replies in turns.

**AiChat.** The same globals from the inside. `kv` is the cache of the context as
a function from positions to the kind of token that lies there; `phase` is the
engine's state, which decides what native function may run; what drives it is
the environment the engine provides. That this is the engine's own order is
checked on both sides: engine and conversation implement `EnginePhases`. One pass of the loop
of `decode_tokens_in_batches` and one call of `generateNextToken` are one step.
`Decodes` is the external part: `llama_decode` takes a batch if it starts right
behind the last position of a cache that is not empty, and if there are cells
for it (`llama.cpp-official/src/llama-batch.cpp` 295-316). The history variable
`clean` is true until a prompt is truncated or a user's prompt meets a full
context.

**LLMInference.** An instance is a record and each method an operator from the
instance before it to the one after it. A text is the set of the completions
whose words it holds, and a piece of it leaves the byte cache empty, in the middle
of a character, or broken, as the model pleases; the end may come in the middle
of a character. Two fields are history: `open` is the completion that has begun
and not been stopped, and `tidy` says that completions came one after the other
so far and in whole characters.

**SmolLMManager.** An event of the screen puts the calls of its handler into
`main`, and the main thread makes them one by one; jobs take their steps in
between. Loads, generations and benchmarks are their own instances of each job,
and each native call has a beginning (`Enter`, the pointer is read) and an end
(`Leave`, the instance is written). `LLMInference` says what is written. Native
code that is given no instance, a closed one or one without a batch sets
`crashed`, and so may two calls on one instance; nothing is claimed of what
follows. A load adds its system prompt and its messages one by one, and the
database it reads them from may fail; so may the one a reply is stored in. A chat
without a model (`withModel`) is what "New chat" opens: `loadModel` shows a dialog
for it and loads nothing, so that the load of another chat goes on and the
manager keeps that chat. `asked` is the chat a query was sent in, `saved` the one
its reply was stored in.

## Runs

| run | config | states | shows |
|---|---|---|---|
| `chat_screen` | `ChatScreenGuarded.cfg` | 430456 | behind its own screen, cleared or not, the chat keeps turns apart, loses no token and implements `TurnTaking`; every turn ends; two loads with their never-ending collectors end in a ready chat, and `Success` means loaded |
| `chat_any_caller` | `ChatAnyCaller.cfg` | 2599174 | with overlapping sends from a stale bar, refused sends, a retry, a clear and a cancelled scope, memory is the end of the dialogue |
| `native_calls` | `NativeCalls.cfg` | 253376 | three calls, a cancel, releases and a reload: flag, cancel and total are right, everybody gets the lock |
| `cache_loads` | `CacheLoads.cfg` | 101325 | two loads that may overlap, I/O errors, a crash: what is whole stays whole, loads end, progress moves forward |
| `cache_crash` | `CacheCrash.cfg` | - | violation: a copy cut short by a crash passes for the whole model |
| `engine_calls` | `Engine.cfg` | 21523 | two clients, all operations, destroy included: one at a time, on live memory, no conversation lost, `EnginePhases` kept, blocking calls return unless a load lowered their flag and a reply never reaches its stop |
| `engine_stale_cancel` | `EngineStaleCancel.cfg` | - | violation: a refused clean-up silences the next prompt |
| `aichat_context` | `AiChat.cfg` | 57568 | conversations with shifts, truncation, refusal, cancels, loads that fail and reloads: counter and cache agree, the system prompt survives, there is room to go on, `EnginePhases` is kept |
| `aichat_prompt_fails` | `AiChatPromptFails.cfg` | - | violation: a prompt that makes the context shift is not decoded |
| `smol_jobs` | `SmolJobs.cfg` | about 2570000 | two loads, a generation and a benchmark under every event of the screen, chats with and without a model: queries are invited only with a live instance, a generation that is heard works on one, a reply that is shown was asked in the chat on the screen and, unless it was asked while that chat had no model, is stored there |
| `smol_replies` | `SmolReplies.cfg` | 208787 | two generations on one instance: the busy flag is not left up, one reply is heard, the model's memory is in order, every generation ends |
| `smol_unload` | `SmolUnload.cfg` | - | violation: clearing a chat closes the instance a native call works on |

Symmetry (the turns of `chat_any_caller`, the loads and the generations of
`smol_jobs`) is used only in those two runs, which check invariants alone.
`smol_jobs` also has a view, `Essence`: states count as one if they agree on what
decides the next steps and on what the three invariants of the run look at. It
leaves out the words in an instance (no guard and none of the three reads them;
`smol_replies` has them), instances nobody can call any more, the notes of jobs that have ended or
been told to stop (the invariants speak of the others), and everything behind a
crash. With the theorems below, which need no view, the run is not the only
evidence for its invariants.

### The bounds and why they are enough

- *Chat.* Two turns: the hazards are between two. Two tokens of text behind the
  screen: a token can be lost or foreign, and there is a first and a last; one
  for any caller, where memory is at stake and not the stream. A buffer of two:
  it overflows in the second turn. Two loaders: an old collector beside a new
  one. One clear: before, in and after a turn.
- *Native.* Three calls: one holds the lock, one waits, one comes later. Two
  bytes: a cancel before, between and after them. One cancel and one reload;
  releases are not bounded.
- *Cache.* Three files, as in the code; two loads; one crash, after which any
  load may come again.
- *Engine.* The two slots are reused for ever, so runs are not bounded in
  length; two are a flow that waits and whoever takes its thread. A reply of two
  tokens has a first, a next and a last stage of a flow.
- *Native conversation.* Ten cells and a headroom of two for the code's 8192 and
  4; batches of four; prompts of 1, 2, 5 and 9 tokens: within a batch, in two
  batches, too long (9 > 8). Prediction lengths 0 and 3 stop before and beyond
  the limit. Five messages allow a shift, a truncation and more prompts after
  them. Positions need no bound: a shift brings them back.
- *SmolChat.* Two loads: the second replaces, outlives or overwrites the first;
  one generation and one benchmark beside them, two chats to be stored in, each
  with or without a model at first. A stored chat is empty in `smol_jobs` and one
  exchange in `smol_replies`, where two generations run: the second finds what the
  first has left. A context of 3 or 4 ends a reply before, at and behind a batch; one of 1, where no invariant asks how long a reply is,
  at its first token. Each load makes one instance; in `smol_jobs` no chat is
  stored in the instance (`StoreChats`), in the others it is.

Deadlock is checked for the engine, whose clients can always call again. The
other systems may stop (all turns, calls or loads done; a model stuck in a
failed prompt, a chat without further loads or generations), and their
configurations say so.

### Fairness

Fairness is weak, but for one case below, and given only to what a scheduler or
a loop runs by itself.
Main looper and IO pool run every ready segment of a turn or a loader, and the
screen recomposes (`ChatViewModel`). Threads that are not blocked run
(`MlcNative`); a `std::mutex` is not fair, but there are finitely many calls and
each lets go of it. The dispatcher of the engine has a thread, and a thread that
called `cleanUp` goes on to block; *collectors promise nothing*, so
`BlockedReturn` holds even if no flow is ever drained. In `AiChat` the engine's
thread goes on with the function it has called and with the loop over
`generateNextToken`. In `SmolLMManager` the main thread makes the calls it has
queued (weak), and each load and each generation gets on (strong: a block that
was posted to the main looper has its turn although the user keeps the main
thread busy in between, which disables the step again and again); a benchmark is
owed nothing. Users, clients, cancels, clears, crashes and I/O errors are
never owed.

## What is proved

For any number of turns, loads, calls, clients and files and any sizes:

| module | theorems | rest on |
|---|---|---|
| `ChatViewModelProofs` | `TypeCorrect`, `BufferBounded`, `MemoryIsRecentDialogue`, `ReadyIsLoaded`, `TurnsKeptApart`, `StreamKeepsItsTokens`, `RepliesStayWhole`, `PromptAnswersItsMessage`, `ChatTakesTurns`; `TypingIsBacked`, `TurnsGetOn`, `NeverStuckUnready` | `TokensCounted`, `ModelStaysLoaded`, `WholeOnReturn`, `GuardedInv`, `PromptInv`, `WayInv` |
| `MlcNativeProofs` | `NativeTypes`, `NativeLock`, `FlagIsTrue`, `CancelsBite`, `NativeCountsSerially`; `CallsGetOn` | `LockInv`, `CancelInv` |
| `ModelCacheProofs` | `CacheTypes`, `WholeFilesAreSafe`, `CleanCopies`, `BarMovesForward`; `EndedLoadsCount`, `LoadsGetOn` | `DirInv`, `CopyInv`, `CleanInv`, `BarInv` |
| `InferenceEngineProofs` | `EngineTypes`, `EngineStates`, `EngineWorksAlone`, `EngineKeepsConversation`, `EngineUsesLiveMemory`, `EngineFollowsPhases`; `EngineLosesNobody`, `EngineGetsOn` | `EngineInv`, `AliveInv`, `QueueInv` |
| `AiChatProofs` | `ChatTypes`, `ChatPositions`, `ChatCacheMatches`, `ChatKeepsSystemPrompt`, `ChatPromptsDecode`, `ChatGoesOn`, `ChatFollowsPhases`, `HistoriesInOrder`; `PromptsGetOn`, `RepliesGetOn` | `ChatInv`, which contains `PositionsInv`; `HistoryInv` |
| `SmolLMManagerProofs` | `SmolTypes`, `FlagBacked`, `OneHeard`, `ReadyLives`, `HeardWorksOnLive`, `RepliesFindTheirChat` | `Types`, `ReadyInv`, `HeardInv`, `ReplyInv` |
| `SmolRepliesProofs` | `RepliesAreTidy`; `ContextIsBounded`, `PassesFillContext` | `TidyInv`, `ContextInv` |

Every safety invariant, action property and refinement that a passing run checks
is a theorem. Behind the semicolons stand the safety halves of the liveness
properties and what they need; they have no run of their own, but each was
checked with TLC on the instances of the runs before it was proved.

Assumptions are the named `ASSUME`s of the modules, which give the constants
their types and sizes and keep the sets of names apart. `TurnsKeptApart`,
`StreamKeepsItsTokens`, `RepliesStayWhole`, `PromptAnswersItsMessage` and
`ChatTakesTurns` have a hypothesis of their own, `FreshBar`: clicks wait for the
input bar to be recomposed (`StaleUI = FALSE`). The chat may be cleared at any
time, also in the middle of a turn. The other theorems of the chat hold for any
caller.

The arguments.

- *Chat.* That turns are kept apart is not inductive: it must be known that the
  typing indicator shows exactly while a turn is live, that the stream is empty
  or a prefix of that turn's text at each of its positions, and that a turn
  returns from `generate` with all its tokens sent, which needs the model to stay
  loaded while it does. The refinement maps the open question to the live turn.
  The message of the live turn is the last of the buffer until the reply is
  remembered or the chat is cleared, so that the prompt, which is read after a
  suspension, ends with it or has no history.
- *Memory.* The dialogue is given by its positions in the transcript, in order:
  a message that is added takes one position more, everything else none. So the
  buffer is matched with the last positions, and no induction over the
  transcript is needed.
- *Native.* A call is between lock and unlock exactly if it holds the mutex,
  so what its callback has read of the total is still the total when it writes.
  The refinement hides the tokens of the call that holds the lock. A cancel that
  lands in the loop stands until the loop has seen it, since only the holder of
  the lock resets the flag, and before its loop.
- *Cache.* Without an overlap one load runs, and what it has still to copy is not
  on the disk, because a copy only starts on an empty directory and no name
  comes twice. A clean load has each name copied or still before it (`CleanInv`),
  and what it reports next is not below what it has reported (`BarInv`).
- *Engine.* Each place a call can be in determines the state field, and at most
  one call is talking, running or suspended; a system prompt needs a flag that
  only stands while nothing has been said.
- *Phases.* The engine's side maps its state field and flag, the conversation's
  side its `phase`, to the variables of `EnginePhases`; a step of either is a step
  there or a stutter. The results about the conversation assume that native
  functions are called in that order, which is what the engine's side proves.
- *Native conversation.* The counter is at most the limit whenever a token is
  generated, so a shift, which halves what follows the system prompt and moves
  cache and counter by the same number, always brings it below the limit. A
  batch that fits follows the cache without a gap. While a system prompt is
  decoded there is nothing to shift; later tokens start behind it. `RoomInv`
  needs the system prompt to leave two cells.
- *SmolChat.* At most one load has not been told to stop, and only `unload`, which
  tells all of them, closes an instance: so the pointer is at a live one when a
  load that still counts has stored it, whatever older load stores its own over
  it (`ReadyInv`). Whoever changes the shown chat stops the generation first, so
  a generation that is still listened to was asked in the shown chat; and if that
  had a model then, the manager's chat is the same or a load for it is still
  queued (`ReplyInv`). A generation that has not been told to stop had a live
  instance when it was asked, and whoever takes that away stops it first
  (`HeardInv`). What an instance remembers is in order because, as long as it is
  `tidy`, one call at a time works on it and the completion that is open on it
  has its question as the last message, only its own words in the reply and the
  byte cache in step with the model (`TidyInv`); this is kept for the completion
  as long as the pointer is at the instance or its call is inside it, which is
  why the pointer is part of the invariant.

- *Behind the liveness properties.* `TypingIsBacked`, `NeverStuckUnready`,
  `EndedLoadsCount` and `EngineLosesNobody` say that somebody is on the way to the
  goal while it is not reached. The `...GetOn` theorems and `PassesFillContext`
  give each of them a measure, in steps (`SegmentsLeft`, `StepsLeft`, `Left`) or in
  tokens and cells, that no step of anyone else raises and that its own steps
  lower. What remains for a liveness property is that these steps are taken,
  which is fairness.

Only model-checked: the liveness properties themselves (`BecomesReady`, `TurnsEnd`,
`CallsEnd`, `LoadsEnd`, `BlockedReturn`, `StopsWithinContext`, `ResponsesEnd`),
because fairness, which speaks of `ENABLED`, is out of the prover's reach. For
the same reason nothing is proved of the absence of deadlock in the engine. The
violations are TLC's, too: they are behaviours and need no proof.

## Where the code disagrees with itself

Four disagreements with the repository's own texts are runs:

1. `copyModelToCache` takes any non-empty directory for the copied model
   (`MlcLlm.kt` 385), so a copy cut short is never completed (`cache_crash`).
2. `cleanUp` raises `_cancelGeneration` before it knows whether it may run
   (`InferenceEngineImpl.kt` 282); refused, it leaves the flag up and the next
   prompt generates nothing (`engine_stale_cancel`).
3. After a shift a batch keeps the positions it had before (`ai_chat.cpp` 338),
   `llama_decode` refuses it, and the engine stays in `ProcessingUserPrompt`
   (`aichat_prompt_fails`). `OnlyFullContextsFail` shows that nothing else fails.
4. `unloadModel` "clears the resources occupied by the model only if the inference
   is not in progress" (`ChatScreenViewModel.kt` 232), but clearing a chat stops the
   generation first, which takes the busy flag down while the native call goes
   on: the instance is deleted under it (`smol_unload`).

Others are visible in the models and have no run of their own:

- `clearChat` says "Memory cleared! Kaede remembers nothing~"
  (`ChatViewModel.kt` 224), but a reply in flight would be remembered afterwards.
  No screen of this version calls it.
- A `nativeCancel` between lines 109 and 110 of `mlc-jni.cpp` is lost: the flag is
  reset after the generation is announced. `CancelBites` therefore speaks of
  cancels that land in the loop. `MlcLlm.cancel` itself only logs.
- `unload` frees the native globals without clearing them; `destroy` in state
  `Error` after a clean-up and a failed load frees them again. `destroy` cancels no
  flow, although its comment says so. Hence `NativeIsAlive` claims that memory is
  live, or was destroyed by `destroy` itself.
- `cleanUp` from state `Error` does not unload: the model leaks and `chat_msgs`
  stays.
- `addToBuffer` is always called with the default `isUser = true`.
- A truncated prompt moves the counter by its full length (`ai_chat.cpp` 447), and
  the stop position counts the prompt twice (448). A stop position beyond the
  limit is never reached, since shifts move the counter and not the stop: such a
  reply ends only by an end-of-generation token or a cancel. This is why
  `StopsWithinContext` speaks of stop positions below the limit.
- A shift before a later batch of a prompt leaves the counter behind the cache
  when the prompt has ended; the next token is refused and the reply is empty.
- The assistant's message is recorded only after an end-of-generation token, so
  a reply that was stopped or cancelled is missing from the history.
- `benchModel` with a prompt longer than the batch exceeds it.
- `cleanUp` raises the cancel flag and waits for its turn. If a load was under way
  it lowers the flag again when it has prepared the context
  (`InferenceEngineImpl.kt` 177), and a prompt that was queued before the clean-up
  runs with the flag down. If its stop lies beyond the limit of the context and
  the model does not end it, the thread that called `cleanUp` is blocked for
  ever. `BlockedReturn` names this case (`HeldForGood`) and excludes every other.
- A message is edited in a chat, which unloads and loads the model, and a new chat
  is opened before the load is done. The new chat has no model, so that nothing
  is loaded for it (`ChatScreenViewModel.kt` 179-180) and the old load goes on;
  its `onComplete` asks the edited message in the new chat (536, 565), and the
  reply is stored in the old one (`SmolLMManager.kt` 176). `ReplyFindsItsChat`
  names this case (`adrift`) and excludes every other.
- `onSuccess` shows and stores the chat as it was when the query was sent
  (`ChatScreenViewModel.kt` 564-580): a model chosen during the reply is undone.
- A generation that was cancelled past its last emission stores its reply in the
  chat that is current by then; it is not shown (`ReplyFindsItsChat` speaks of
  replies that are).
- A load that replaces another without an unload (switching chats or models)
  overwrites the pointer, and the old instance is never deleted.
- A generation that is cancelled never reaches `stopCompletion`: its partial reply
  is put before the next one, and half a character in `_cacheResponseTokens` makes
  every later byte invalid, so later replies stay empty; so does a model that
  ends in the middle of a character. `TidyReplies` is therefore limited to
  instances on which no completion was cut short and characters were spelled
  out.
- The whole dialogue is decoded again with every query, on top of what the
  context holds; the comment of `SmolLM.kt` 237-238, for which the length used is
  that of the dialogue, is not what is counted.
- A benchmark looks at neither flag nor lock and clears the context of the
  conversation; an unload or another call beside it is undefined.
- `isGeneratingResponse` may stay up when an unload cancels the generation.

## What is left

The parts with concurrency and failures are modelled. What could follow, in this
order:

1. SmolChat's screen in full: deleting a chat and its messages is a sequence of
   queries that is no transaction, beside a generation that stores its reply.
   It would make `ChatScreenViewModel` complete.
2. `MemoryRepository` with its clean-up and counters, once the app calls them;
   abstract specification: a bounded set of most important entries.
3. Personality (mood and its decay) and the token buffer, with reference
   definitions as in `MemoryManager`.

Of the proofs: the two partial failures of a clean-up in state `Error` (a model
that stays in memory, messages that stay in `chat_msgs`) have no property;
stated as what a leak is limited to, they would complete `EngineUsesLiveMemory`
and `HistoriesInOrder`. For the parts of item 1 to 3, type correctness and the
abstract specifications named there come first.
