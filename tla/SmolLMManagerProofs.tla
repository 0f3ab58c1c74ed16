-------------------------- MODULE SmolLMManagerProofs --------------------------
(***************************************************************************)
(* Proofs about SmolLMManager for any number of loads, generations,        *)
(* benchmarks and chats, any context and any stored history: types, the    *)
(* instance behind the pointer, the busy flag, the one reply that is heard *)
(* and the chat it belongs to.                                             *)
(***************************************************************************)
EXTENDS SmolLMManager, SequenceTheorems, TLAPS

Message(C) == [role : Roles, text : SUBSET C]

(* What the main thread may have before it: the calls of one event, or     *)
(* what is left of them.                                                   *)
Queues ==
  {<<>>, <<"send">>, <<"benchmark">>, <<"leave">>, <<"forget">>, <<"stop">>,
   <<"load">>, <<"forget", "load">>, <<"unload", "load">>, <<"stop", "load">>,
   <<"stop", "unload", "load">>,
   <<"reload">>, <<"forget", "reload">>, <<"unload", "reload">>}

------------------------------------------------------------------------------
(* An instance stays an instance, and alive or not alive, in every method  *)
(* but the destructor.                                                     *)

(* Any sequence of messages may take the place of the messages. *)
LEMMA DialogueType ==
  ASSUME NEW C, NEW o \in Instance(C), NEW ms \in Seq(Message(C))
  PROVE  [o EXCEPT !.messages = ms] \in Instance(C)
BY DEF Instance, Message

LEMMA MessageType ==
  ASSUME NEW C, NEW o \in Instance(C), NEW role \in Roles, NEW text \in SUBSET C
  PROVE  /\ WithMessage(o, role, text) \in Instance(C)
         /\ WithMessage(o, role, text).alive = o.alive
<1> DEFINE m == [role |-> role, text |-> text]
<1>1. m \in Message(C)
  BY DEF Message
<1>2. o.messages \in Seq(Message(C))
  BY DEF Instance, Message
<1>3. Append(o.messages, m) \in Seq(Message(C))
  BY <1>1, <1>2, AppendProperties
<1>4. WithMessage(o, role, text) = [o EXCEPT !.messages = Append(o.messages, m)]
  BY DEF WithMessage
<1>5. WithMessage(o, role, text) \in Instance(C)
  BY <1>3, <1>4, DialogueType
<1>6. [o EXCEPT !.messages = Append(o.messages, m)].alive = o.alive
  BY DEF Instance
<1> QED
  BY <1>4, <1>5, <1>6

LEMMA StartType ==
  ASSUME NEW C, NEW o \in Instance(C), NEW r \in C
  PROVE  /\ Asked(o, r) \in Instance(C) /\ Asked(o, r).alive = o.alive
         /\ Started(o, r) \in Instance(C) /\ Started(o, r).alive = o.alive
<1>1. /\ WithMessage(o, "user", {r}) \in Instance(C)
      /\ WithMessage(o, "user", {r}).alive = o.alive
  BY MessageType DEF Roles
<1>2. Asked(o, r) \in Instance(C) /\ Asked(o, r).alive = o.alive
  BY <1>1 DEF Asked, Instance
<1>3. o.messages \in Seq(Message(C))
  BY DEF Instance, Message
<1>4. Len(o.messages) + 1 \in Nat
  BY <1>3, LenProperties
<1>5. \A p \in Instance(C), n \in Nat :
        LET q == [p EXCEPT !.batch = n, !.middle = FALSE]
        IN q \in Instance(C) /\ q.alive = p.alive
  BY DEF Instance
<1>6. PICK p \in Instance(C), n \in Nat : p = Asked(o, r) /\ n = Len(o.messages) + 1
  BY <1>2, <1>4
<1>7. Started(o, r) = [p EXCEPT !.batch = n, !.middle = FALSE]
  BY <1>6 DEF Started
<1>8. Started(o, r) \in Instance(C) /\ Started(o, r).alive = p.alive
  BY <1>5, <1>7
<1> QED
  BY <1>2, <1>6, <1>8

LEMMA DecodedType ==
  ASSUME NEW C, NEW o \in Instance(C)
  PROVE  Decoded(o) \in Instance(C) /\ Decoded(o).alive = o.alive
<1>1. o.used \in Nat /\ o.batch \in Nat
  BY DEF Instance
<1>2. o.used + o.batch \in Nat
  BY <1>1
<1>3. \A n \in Nat : /\ [o EXCEPT !.used = n] \in Instance(C)
                    /\ [o EXCEPT !.used = n].alive = o.alive
  BY DEF Instance
<1>4. CASE o.used + o.batch <= ContextSize
  BY <1>2, <1>3, <1>4 DEF Decoded
<1>5. CASE ~(o.used + o.batch <= ContextSize)
  BY <1>5 DEF Decoded
<1> QED
  BY <1>4, <1>5

LEMMA PieceType ==
  ASSUME NEW C, NEW o \in Instance(C), NEW r \in C, NEW byte \in Bytes
  PROVE  /\ WithPiece(o, r, byte) \in Instance(C)
         /\ WithPiece(o, r, byte).alive = o.alive
<1>1. Decoded(o) \in Instance(C) /\ Decoded(o).alive = o.alive
  BY DecodedType
<1>2. Bytewise(o.cache, byte) \in Caches
  BY DEF Bytewise, Caches
<1> QED
  BY <1>1, <1>2, ZenonT(60) DEF WithPiece, Instance

LEMMA EndType ==
  ASSUME NEW C, NEW o \in Instance(C)
  PROVE  /\ Ended(o) \in Instance(C) /\ Ended(o).alive = o.alive
         /\ Stopped(o) \in Instance(C) /\ Stopped(o).alive = o.alive
         /\ Benched(o) \in Instance(C) /\ Benched(o).alive = o.alive
<1>1. Decoded(o) \in Instance(C) /\ Decoded(o).alive = o.alive
  BY DecodedType
<1>2. o.response \in SUBSET C
  BY DEF Instance
<1>3. /\ WithMessage(Decoded(o), "assistant", o.response) \in Instance(C)
      /\ WithMessage(Decoded(o), "assistant", o.response).alive = o.alive
  BY <1>1, <1>2, MessageType DEF Roles
<1>4. /\ WithMessage(o, "assistant", o.response) \in Instance(C)
      /\ WithMessage(o, "assistant", o.response).alive = o.alive
  BY <1>2, MessageType DEF Roles
<1>5. Ended(o) \in Instance(C) /\ Ended(o).alive = o.alive
  BY <1>3 DEF Ended, Instance
<1>6. Stopped(o) \in Instance(C) /\ Stopped(o).alive = o.alive
  BY <1>4 DEF Stopped, Instance
<1> QED
  BY <1>5, <1>6 DEF Benched, Instance

LEMMA HistoryType ==
  ASSUME NEW C, NEW o \in Instance(C), NEW b \in BOOLEAN, NEW messages \in Seq(Stored)
  PROVE  /\ WithHistory(o, messages, b) \in Instance(C)
         /\ WithHistory(o, messages, b).alive = o.alive
<1>2. Stored \subseteq Message(C)
  BY DEF Message, Stored
<1>3. messages \in Seq(Message(C))
  BY <1>2, SeqMonotonic
<1>4. o.messages \in Seq(Message(C))
  BY DEF Instance, Message
<1>5. o.messages \o messages \in Seq(Message(C))
  BY <1>3, <1>4, ConcatProperties
<1> DEFINE p == [o EXCEPT !.messages = o.messages \o messages]
           t == o.tidy /\ o.open = {} /\ b
<1>6. p \in Instance(C) /\ p.alive = o.alive
  <2>1. p \in Instance(C)
    BY <1>5, DialogueType
  <2>2. p.alive = o.alive
    BY DEF Instance
  <2> QED
    BY <2>1, <2>2
<1>7. t \in BOOLEAN
  BY DEF Instance
<1>8. WithHistory(o, messages, b) = [p EXCEPT !.tidy = t]
  BY DEF WithHistory, Instance
<1> HIDE DEF p, t
<1>9. [p EXCEPT !.tidy = t] \in Instance(C) /\ [p EXCEPT !.tidy = t].alive = p.alive
  BY <1>6, <1>7 DEF Instance
<1> QED
  BY <1>6, <1>8, <1>9

LEMMA BlankType ==
  ASSUME NEW C
  PROVE  Absent \in Instance(C) /\ Loaded \in Instance(C) /\ Loaded.alive
<1>1. <<>> \in Seq(Message(C))
  OBVIOUS
<1>2. Absent \in Instance(C)
  BY <1>1 DEF Absent, Instance, Message, Caches
<1>3. Loaded \in Instance(C) /\ Loaded.alive
  BY <1>2 DEF Loaded, Instance
<1> QED
  BY <1>2, <1>3

LEMMA ClosedType ==
  ASSUME NEW C, NEW o \in Instance(C)
  PROVE  Closed(o) \in Instance(C)
BY DEF Closed, Instance

LEMMA TidyType ==
  ASSUME NEW C, NEW o \in Instance(C), NEW b \in BOOLEAN
  PROVE  /\ [o EXCEPT !.tidy = @ /\ b] \in Instance(C)
         /\ [o EXCEPT !.tidy = @ /\ b].alive = o.alive
BY DEF Instance

------------------------------------------------------------------------------
(* The calls of an event *)

LoadAhead(q) == q \in {<<"load">>, <<"forget", "load">>, <<"unload", "load">>,
                       <<"stop", "load">>, <<"stop", "unload", "load">>,
                       <<"reload">>, <<"forget", "reload">>, <<"unload", "reload">>}

LEMMA QueuesAreCalls == Queues \subseteq Seq(Calls)
BY DEF Queues, Calls

LEMMA ForgetFirst ==
  ASSUME NEW call \in {"load", "reload"}
  PROVE  <<"forget">> \o <<call>> = <<"forget", call>>
<1>1. <<"forget">> \in Seq(Calls) /\ <<call>> \in Seq(Calls)
  BY DEF Calls
<1>2. <<"forget", call>> \in Seq(Calls)
  BY DEF Calls
<1> DEFINE s == <<"forget">> \o <<call>>
<1>3. /\ s \in Seq(Calls) /\ Len(s) = 2
      /\ \A i \in 1..2 : s[i] = IF i <= 1 THEN <<"forget">>[i] ELSE <<call>>[i - 1]
  BY <1>1, ConcatProperties
<1>4. s[1] = "forget" /\ s[2] = call
  BY <1>3
<1>5. \A i \in 1..Len(s) : s[i] = <<"forget", call>>[i]
  BY <1>3, <1>4
<1> HIDE DEF s
<1>6. s = <<"forget", call>>
  BY <1>2, <1>3, <1>5, SeqEqual
<1> QED
  BY <1>6 DEF s

(* What is left after a call is a queue, too, and a load stays ahead until *)
(* it is made.                                                             *)
Follows(q) ==
  /\ Tail(q) \in Queues
  /\ Head(q) \in {"unload", "leave"} =>
       /\ <<"forget">> \o Tail(q) \in Queues
       /\ LoadAhead(q) <=> LoadAhead(<<"forget">> \o Tail(q))
       /\ Head(<<"forget">> \o Tail(q)) = "forget"
       /\ <<"forget">> \o Tail(q) # <<>>
  /\ Head(q) \in {"load", "reload"} => Tail(q) = <<>>
  /\ Head(q) \notin {"load", "reload"} => (LoadAhead(q) <=> LoadAhead(Tail(q)))
  /\ Tail(q) # <<>> => Head(Tail(q)) \notin {"stop", "forget"}

LEMMA CallsFollow == \A q \in Queues \ {<<>>} : Follows(q)
<1>1. Follows(<<"send">>)
  <2> DEFINE q == <<"send">>
  <2>1. Tail(q) = <<>> /\ Head(q) = "send"
    OBVIOUS
  <2> HIDE DEF q
  <2>2. Follows(q)
    BY <2>1 DEF Follows, Queues, LoadAhead, q
  <2> QED
    BY <2>2 DEF q
<1>2. Follows(<<"benchmark">>)
  <2> DEFINE q == <<"benchmark">>
  <2>1. Tail(q) = <<>> /\ Head(q) = "benchmark"
    OBVIOUS
  <2> HIDE DEF q
  <2>2. Follows(q)
    BY <2>1 DEF Follows, Queues, LoadAhead, q
  <2> QED
    BY <2>2 DEF q
<1>3. Follows(<<"leave">>)
  <2> DEFINE q == <<"leave">>
  <2>1. Tail(q) = <<>> /\ Head(q) = "leave"
    OBVIOUS
  <2>2. <<"forget">> \o Tail(q) = <<"forget">>
    BY <2>1
  <2> HIDE DEF q
  <2>3. Follows(q)
    BY <2>1, <2>2 DEF Follows, Queues, LoadAhead, q
  <2> QED
    BY <2>3 DEF q
<1>4. Follows(<<"forget">>)
  <2> DEFINE q == <<"forget">>
  <2>1. Tail(q) = <<>> /\ Head(q) = "forget"
    OBVIOUS
  <2> HIDE DEF q
  <2>2. Follows(q)
    BY <2>1 DEF Follows, Queues, LoadAhead, q
  <2> QED
    BY <2>2 DEF q
<1>5. Follows(<<"stop">>)
  <2> DEFINE q == <<"stop">>
  <2>1. Tail(q) = <<>> /\ Head(q) = "stop"
    OBVIOUS
  <2> HIDE DEF q
  <2>2. Follows(q)
    BY <2>1 DEF Follows, Queues, LoadAhead, q
  <2> QED
    BY <2>2 DEF q
<1>6. Follows(<<"load">>)
  <2> DEFINE q == <<"load">>
  <2>1. Tail(q) = <<>> /\ Head(q) = "load"
    OBVIOUS
  <2> HIDE DEF q
  <2>2. Follows(q)
    BY <2>1 DEF Follows, Queues, LoadAhead, q
  <2> QED
    BY <2>2 DEF q
<1>7. Follows(<<"forget", "load">>)
  <2> DEFINE q == <<"forget", "load">>
  <2>1. Tail(q) = <<"load">> /\ Head(q) = "forget"
    OBVIOUS
  <2> HIDE DEF q
  <2>2. Follows(q)
    BY <2>1 DEF Follows, Queues, LoadAhead, q
  <2> QED
    BY <2>2 DEF q
<1>8. Follows(<<"unload", "load">>)
  <2> DEFINE q == <<"unload", "load">>
  <2>1. Tail(q) = <<"load">> /\ Head(q) = "unload"
    OBVIOUS
  <2>2. <<"forget">> \o Tail(q) = <<"forget", "load">>
    BY <2>1, ForgetFirst
  <2> HIDE DEF q
  <2>3. Follows(q)
    BY <2>1, <2>2 DEF Follows, Queues, LoadAhead, q
  <2> QED
    BY <2>3 DEF q
<1>9. Follows(<<"stop", "load">>)
  <2> DEFINE q == <<"stop", "load">>
  <2>1. Tail(q) = <<"load">> /\ Head(q) = "stop"
    OBVIOUS
  <2> HIDE DEF q
  <2>2. Follows(q)
    BY <2>1 DEF Follows, Queues, LoadAhead, q
  <2> QED
    BY <2>2 DEF q
<1>10. Follows(<<"stop", "unload", "load">>)
  <2> DEFINE q == <<"stop", "unload", "load">>
  <2>1. Tail(q) = <<"unload", "load">> /\ Head(q) = "stop"
    OBVIOUS
  <2> HIDE DEF q
  <2>2. Follows(q)
    BY <2>1 DEF Follows, Queues, LoadAhead, q
  <2> QED
    BY <2>2 DEF q
<1>11. Follows(<<"reload">>)
  <2> DEFINE q == <<"reload">>
  <2>1. Tail(q) = <<>> /\ Head(q) = "reload"
    OBVIOUS
  <2> HIDE DEF q
  <2>2. Follows(q)
    BY <2>1 DEF Follows, Queues, LoadAhead, q
  <2> QED
    BY <2>2 DEF q
<1>12. Follows(<<"forget", "reload">>)
  <2> DEFINE q == <<"forget", "reload">>
  <2>1. Tail(q) = <<"reload">> /\ Head(q) = "forget"
    OBVIOUS
  <2> HIDE DEF q
  <2>2. Follows(q)
    BY <2>1 DEF Follows, Queues, LoadAhead, q
  <2> QED
    BY <2>2 DEF q
<1>13. Follows(<<"unload", "reload">>)
  <2> DEFINE q == <<"unload", "reload">>
  <2>1. Tail(q) = <<"reload">> /\ Head(q) = "unload"
    OBVIOUS
  <2>2. <<"forget">> \o Tail(q) = <<"forget", "reload">>
    BY <2>1, ForgetFirst
  <2> HIDE DEF q
  <2>3. Follows(q)
    BY <2>1, <2>2 DEF Follows, Queues, LoadAhead, q
  <2> QED
    BY <2>3 DEF q
<1> QED
  BY <1>1, <1>2, <1>3, <1>4, <1>5, <1>6, <1>7, <1>8, <1>9, <1>10, <1>11, <1>12, <1>13
     DEF Queues

------------------------------------------------------------------------------
(* Types *)

(* A native call works on an instance, a generation was asked in a chat,   *)
(* and a load that is filling an instance has a message left.              *)
Insides ==
  /\ \A l \in Loads : load[l] = "filling" => todo[l] # <<>>
  /\ \A r \in Responses : response[r] # "none" => asked[r] \in Chats
  /\ \A r \in Responses : response[r] \in Entered => inside[r] \in Loads
  /\ \A b \in Benchmarks : benchmark[b] = "in" => inside[b] \in Loads

Types == TypeOK /\ main \in Queues /\ Insides

LEMMA TypesInit == Init => Types
<1> SUFFICES ASSUME Init PROVE Types
  OBVIOUS
<1>1. native \in [Loads -> Instance(Responses)]
  BY BlankType DEF Init
<1>2. main \in Queues
  BY DEF Init, Queues
<1>3. main \in Seq(Calls)
  BY <1>2, QueuesAreCalls
<1>4. load \in [Loads -> LoadStates] /\ response \in [Responses -> ResponseStates]
  BY DEF Init, LoadStates, ResponseStates
<1>5. Insides
  <2>1. /\ load = [l \in Loads |-> "none"]
        /\ response = [r \in Responses |-> "none"]
        /\ benchmark = [b \in Benchmarks |-> "none"]
    BY DEF Init
  <2>2. \A l \in Loads : load[l] # "filling"
    BY <2>1
  <2>3. \A r \in Responses : response[r] = "none" /\ response[r] \notin Entered
    BY <2>1 DEF Entered
  <2>4. \A b \in Benchmarks : benchmark[b] # "in"
    BY <2>1
  <2> QED
    BY <2>2, <2>3, <2>4 DEF Insides
<1>6. TypeOK
  <2>1. todo \in [Loads -> Seq(Stored)]
    BY DEF Init
  <2>2. benchmark \in [Benchmarks -> {"none", "launched", "in", "ended"}]
    BY DEF Init
  <2>3. /\ inside \in [Callers -> Loads \cup {Nobody}]
        /\ saved \in [Responses -> Chats \cup {Nobody}]
        /\ asked \in [Responses -> Chats \cup {Nobody}]
    BY DEF Init
  <2>4. /\ nativePtr \in Loads \cup {Nobody} /\ chat \in Chats \cup {Nobody}
        /\ modelInitJob \in Loads \cup {Nobody}
        /\ responseGenerationJob \in Responses \cup {Nobody}
        /\ cancelled \subseteq Loads \cup Responses
        /\ resend \subseteq Loads /\ adrift \subseteq Responses
        /\ shownChat \in Chats /\ withModel \subseteq Chats
    BY SmolLMManagerAssumption DEF Init
  <2>5. /\ isInstanceLoaded \in BOOLEAN /\ isInferenceOn \in BOOLEAN
        /\ isGeneratingResponse \in BOOLEAN /\ visible \in BOOLEAN
        /\ modelUnloaded \in BOOLEAN /\ crashed \in BOOLEAN
        /\ modelLoadingState \in {"NOT_LOADED", "IN_PROGRESS", "SUCCESS", "FAILURE"}
    BY DEF Init
  <2> QED
    BY <1>1, <1>3, <1>4, <2>1, <2>2, <2>3, <2>4, <2>5 DEF TypeOK
<1> QED
  BY <1>2, <1>5, <1>6 DEF Types

(* The step of a call: what is left of the queue is a queue. *)
LEMMA DoneType ==
  ASSUME Types, main # <<>>
  PROVE  /\ Tail(main) \in Queues
         /\ Head(main) \in {"unload", "leave"} => <<"forget">> \o Tail(main) \in Queues
BY CallsFollow DEF Types, Follows

LEMMA EventsType == ASSUME Types, Events PROVE Types'
<1>1. main' \in Queues
  BY DEF Events, Event, SendUserQuery, StopGeneration, DeleteChatMessages,
     OnMessageEdited, UpdateChatSettings, UpdateChatModel, StartBenchmark, OnStop, OnStart, SwitchChat,
     Queues
<1>2. main' \in Seq(Calls)
  BY <1>1, QueuesAreCalls
<1>3. UNCHANGED <<objects, flags, jobs, loadVars, response, benchmark, inside, notes,
                  modelLoadingState, isGeneratingResponse, crashed>>
  BY DEF Events, Event, SendUserQuery, StopGeneration, DeleteChatMessages,
     OnMessageEdited, UpdateChatSettings, UpdateChatModel, StartBenchmark, OnStop, OnStart, SwitchChat
<1>4. /\ shownChat' \in Chats /\ withModel' \subseteq Chats
      /\ visible' \in BOOLEAN /\ UNCHANGED modelUnloaded
  BY DEF Types, TypeOK, Events, Event, SendUserQuery, StopGeneration, DeleteChatMessages,
     OnMessageEdited, UpdateChatSettings, UpdateChatModel, StartBenchmark, OnStop, OnStart, SwitchChat,
     window, chatVars
<1> QED
  BY <1>1, <1>2, <1>3, <1>4
     DEF Types, TypeOK, Insides, objects, flags, jobs, loadVars, notes

LEMMA MainStepType == ASSUME Types, MainStep PROVE Types'
<1> USE DEF objects, flags, jobs, loadVars, notes, chatVars, screen, window
<1>1. CASE Stop
  <2>1. main' \in Queues /\ main' \in Seq(Calls)
    BY <1>1, DoneType, QueuesAreCalls DEF Stop, Calling, Done
  <2> QED
    BY <1>1, <2>1, ZenonT(60) DEF Stop, WithCancelled, Types, TypeOK, Insides
<1>2. CASE RefuseUnload
  <2>1. main' \in Queues /\ main' \in Seq(Calls)
    BY <1>2, DoneType, QueuesAreCalls DEF RefuseUnload, Calling, Done
  <2>2. modelUnloaded' \in BOOLEAN
    BY <1>2 DEF RefuseUnload, Types, TypeOK
  <2>3. UNCHANGED <<objects, flags, jobs, loadVars, response, benchmark, inside, notes,
                    screen, visible, crashed>>
    BY <1>2 DEF RefuseUnload
  <2> QED
    BY <2>1, <2>2, <2>3 DEF Types, TypeOK, Insides
<1>3. CASE Unload
  <2>1. main' \in Queues /\ main' \in Seq(Calls)
    BY <1>3, DoneType, QueuesAreCalls DEF Unload, Calling
  <2>2. native' \in [Loads -> Instance(Responses)]
    BY <1>3, ClosedType DEF Unload, Types, TypeOK
  <2> QED
    BY <1>3, <2>1, <2>2, ZenonT(60) DEF Unload, UnloadStopsAll, Unloaded, WithCancelled, Types, TypeOK, Insides
<1>4. CASE Forget
  <2>1. main' \in Queues /\ main' \in Seq(Calls)
    BY <1>4, DoneType, QueuesAreCalls DEF Forget, Calling, Done
  <2> QED
    BY <1>4, <2>1 DEF Forget, Types, TypeOK, Insides
<1>5. ASSUME NEW b \in Benchmarks, LaunchBenchmark(b) PROVE Types'
  <2>1. main' \in Queues /\ main' \in Seq(Calls)
    BY <1>5, DoneType, QueuesAreCalls DEF LaunchBenchmark, Calling, Done
  <2> QED
    BY <1>5, <2>1 DEF LaunchBenchmark, Types, TypeOK, Insides
<1>6. ASSUME NEW l \in Loads, Load(l) PROVE Types'
  <2>1. main' \in Queues /\ main' \in Seq(Calls)
    BY <1>6, DoneType, QueuesAreCalls DEF Load, Calling, Done
  <2>2. load' \in [Loads -> LoadStates] /\ resend' \subseteq Loads
    BY <1>6 DEF Load, Types, TypeOK, LoadStates
  <2>3. \A k \in Loads : load'[k] = "filling" => load[k] = "filling"
    BY <1>6 DEF Load, Types, TypeOK
  <2> QED
    BY <1>6, <2>1, <2>2, <2>3 DEF Load, WithCancelled, Types, TypeOK, Insides
<1>7. ASSUME NEW r \in Responses, Send(r) PROVE Types'
  <2>1. main' \in Queues /\ main' \in Seq(Calls)
    BY <1>7, DoneType, QueuesAreCalls DEF Send, Calling, Done
  <2>2. response' \in [Responses -> ResponseStates]
    BY <1>7 DEF Send, GetResponse, Types, TypeOK, ResponseStates
  <2>3. asked' \in [Responses -> Chats \cup {Nobody}] /\ adrift' \subseteq Responses
    BY <1>7 DEF Send, Types, TypeOK
  <2>4. /\ cancelled' \subseteq Loads \cup Responses
        /\ responseGenerationJob' \in Responses \cup {Nobody}
        /\ isGeneratingResponse' \in BOOLEAN
    BY <1>7, ZenonT(60) DEF Send, GetResponse, WithCancelled, Types, TypeOK
  <2>5. UNCHANGED <<objects, flags, modelInitJob, loadVars, benchmark, inside, saved,
                    modelLoadingState, chatVars, window, crashed>>
    BY <1>7 DEF Send
  <2>6. Insides'
    BY <1>7 DEF Send, GetResponse, Types, TypeOK, Insides, Entered
  <2> QED
    BY <2>1, <2>2, <2>3, <2>4, <2>5, <2>6 DEF Types, TypeOK
<1>8. CASE ShowDialog
  <2>1. main' \in Queues /\ main' \in Seq(Calls)
    BY <1>8, DoneType, QueuesAreCalls DEF ShowDialog, Calling, Done
  <2> QED
    BY <1>8, <2>1 DEF ShowDialog, Types, TypeOK, Insides
<1> QED
  BY <1>1, <1>2, <1>3, <1>4, <1>5, <1>6, <1>7, <1>8 DEF MainStep

(* A step that puts an instance for one that lives as it does. *)
SameLives == \A l \in Loads : native'[l].alive = native[l].alive

LEMMA Touched ==
  ASSUME Types, NEW l \in Loads, NEW p \in Instance(Responses),
         p.alive = native[l].alive, native' = [native EXCEPT ![l] = p]
  PROVE  native' \in [Loads -> Instance(Responses)] /\ SameLives
BY DEF Types, TypeOK, SameLives

LEMMA GiveTouches ==
  ASSUME Types, NEW message \in Stored, Give(message)
  PROVE  native' \in [Loads -> Instance(Responses)] /\ SameLives
<1>1. CASE UNCHANGED native
  BY <1>1 DEF Types, TypeOK, SameLives
<1>2. CASE ~UNCHANGED native
  <2>1. Usable(nativePtr)
    BY <1>2 DEF Give
  <2>2. nativePtr \in Loads
    BY <2>1 DEF Usable, Types, TypeOK
  <2> DEFINE o == native[nativePtr]
             b == ~Shared(nativePtr)
             p == WithHistory(o, <<message>>, b)
  <2>3. o \in Instance(Responses)
    BY <2>2 DEF Types, TypeOK
  <2>4. b \in BOOLEAN /\ <<message>> \in Seq(Stored)
    BY DEF Shared
  <2>5. native' = [native EXCEPT ![nativePtr] = p]
    BY <1>2 DEF Give
  <2> HIDE DEF o, b
  <2>6. p \in Instance(Responses) /\ p.alive = o.alive
    BY <2>3, <2>4, HistoryType
  <2> HIDE DEF p
  <2> QED
    BY <2>2, <2>5, <2>6, Touched DEF o
<1> QED
  BY <1>1, <1>2

(* What a load that goes on with its instance does. *)
Providing(l) == Instruct(l) \/ Recall(l) \/ Fill(l)

LEMMA FillingFacts ==
  ASSUME Types, NEW l \in Loads, Fill(l)
  PROVE  /\ Head(todo[l]) \in Stored
         /\ todo' \in [Loads -> Seq(Stored)]
         /\ \A k \in Loads \ {l} : todo'[k] = todo[k]
         /\ load'[l] = "filling" => todo'[l] # <<>>
<1> DEFINE q == todo[l]
<1>1. q \in Seq(Stored) /\ q # <<>>
  BY DEF Fill, Loading, Types, TypeOK, Insides
<1>2. todo' = [todo EXCEPT ![l] = Tail(q)]
  BY DEF Fill
<1>3. load'[l] = IF Len(q) = 1 THEN "posted" ELSE "filling"
  BY DEF Fill, Loading, Types, TypeOK
<1> HIDE DEF q
<1>4. /\ Head(q) \in Stored /\ Tail(q) \in Seq(Stored)
      /\ Len(q) \in Nat /\ Len(q) # 0
  BY <1>1, HeadTailProperties, LenProperties, EmptySeq
<1>5. Len(Tail(q)) = Len(q) - 1
  BY <1>1, HeadTailProperties
<1>6. Len(q) # 1 => Tail(q) # <<>>
  <2> SUFFICES ASSUME Tail(q) = <<>> PROVE Len(q) = 1
    OBVIOUS
  <2>1. Len(Tail(q)) = 0
    BY <1>4, EmptySeq
  <2> DEFINE n == Len(q)
  <2>2. n \in Nat /\ 0 = n - 1
    BY <1>4, <1>5, <2>1
  <2> HIDE DEF n
  <2>3. n = 1
    BY <2>2
  <2> QED
    BY <2>3 DEF n
<1>7. /\ todo' \in [Loads -> Seq(Stored)] /\ todo'[l] = Tail(q)
      /\ \A k \in Loads \ {l} : todo'[k] = todo[k]
  BY <1>2, <1>4 DEF Types, TypeOK
<1> QED
  BY <1>3, <1>4, <1>6, <1>7 DEF q

LEMMA ProvidingTouches ==
  ASSUME Types, NEW l \in Loads, Providing(l)
  PROVE  /\ native' \in [Loads -> Instance(Responses)] /\ SameLives
         /\ UNCHANGED <<nativePtr, flags, modelLoadingState, main>>
         /\ crashed' \in BOOLEAN
<1>1. CASE UNCHANGED <<objects, flags, modelLoadingState, main, crashed>>
  BY <1>1 DEF objects, Types, TypeOK, SameLives
<1>2. ASSUME NEW message \in Stored, Give(message)
      PROVE  /\ native' \in [Loads -> Instance(Responses)] /\ SameLives
             /\ UNCHANGED <<nativePtr, flags, modelLoadingState, main>>
             /\ crashed' \in BOOLEAN
  <2>1. UNCHANGED <<nativePtr, flags, modelLoadingState, main>> /\ crashed' \in BOOLEAN
    BY <1>2 DEF Give, Types, TypeOK
  <2> QED
    BY <1>2, <2>1, GiveTouches
<1>3. [role |-> "system", text |-> {}] \in Stored
  BY DEF Stored, Roles
<1>4. CASE Instruct(l)
  BY <1>1, <1>2, <1>3, <1>4 DEF Instruct
<1>5. CASE Recall(l)
  BY <1>1, <1>5 DEF Recall
<1>6. CASE Fill(l)
  <2>1. Give(Head(todo[l])) /\ Head(todo[l]) \in Stored
    BY <1>6, FillingFacts DEF Fill
  <2> QED
    BY <1>2, <2>1
<1> QED
  BY <1>4, <1>5, <1>6 DEF Providing

LEMMA LoadStepType ==
  ASSUME Types, NEW l \in Loads, LoadStep(l)
  PROVE  Types'
<1> USE DEF objects, flags, jobs, loadVars, notes, chatVars, screen, window
<1>1. load' \in [Loads -> LoadStates]
  BY DEF LoadStep, LoadCancelled, LoadBegin, LoadReturn, LoadThrow, Instruct, Recall, Fill,
     LoadSuccess, LoadError, Loading, Types, TypeOK, LoadStates
<1>2. UNCHANGED <<jobs, resend, response, benchmark, inside, notes, isGeneratingResponse,
                  chatVars, window>>
  BY DEF LoadStep, LoadCancelled, LoadBegin, LoadReturn, LoadThrow, Instruct, Recall, Fill,
     LoadSuccess, LoadError, Loading
<1>3. native' \in [Loads -> Instance(Responses)]
  <2>1. CASE LoadReturn(l)
    BY <2>1, BlankType DEF LoadReturn, Types, TypeOK
  <2>2. CASE Providing(l)
    BY <2>2, ProvidingTouches
  <2>3. CASE UNCHANGED native
    BY <2>3 DEF Types, TypeOK
  <2> QED
    BY <2>1, <2>2, <2>3 DEF LoadStep, LoadCancelled, LoadBegin, LoadThrow, LoadSuccess,
       LoadError, Providing
<1>4. /\ nativePtr' \in Loads \cup {Nobody}
      /\ isInstanceLoaded' \in BOOLEAN /\ isInferenceOn' \in BOOLEAN
      /\ chat' \in Chats \cup {Nobody} /\ crashed' \in BOOLEAN
      /\ modelLoadingState' \in {"NOT_LOADED", "IN_PROGRESS", "SUCCESS", "FAILURE"}
  <2>1. CASE Providing(l)
    BY <2>1, ProvidingTouches DEF Types, TypeOK
  <2>2. CASE ~Providing(l)
    BY <2>2 DEF LoadStep, LoadCancelled, LoadBegin, LoadReturn, LoadThrow, LoadSuccess,
       LoadError, Providing, Types, TypeOK
  <2> QED
    BY <2>1, <2>2
<1>5. main' \in Queues
  <2>1. CASE LoadSuccess(l)
    BY <2>1 DEF LoadSuccess, Queues
  <2>2. CASE UNCHANGED main
    BY <2>2 DEF Types
  <2> QED
    BY <2>1, <2>2, ProvidingTouches DEF LoadStep, LoadCancelled, LoadBegin, LoadReturn,
       LoadThrow, LoadError, Providing
<1>6. main' \in Seq(Calls)
  BY <1>5, QueuesAreCalls
<1>7. /\ todo' \in [Loads -> Seq(Stored)]
      /\ \A k \in Loads : load'[k] = "filling" => todo'[k] # <<>>
  <2>1. CASE Fill(l)
    <3>1. \A k \in Loads \ {l} : load'[k] = load[k]
      BY <2>1 DEF Fill, Loading, Types, TypeOK
    <3> QED
      BY <2>1, <3>1, FillingFacts DEF Types, Insides
  <2>2. CASE Recall(l) /\ load'[l] # "failed"
    <3>1. PICK messages \in Histories :
            /\ todo' = [todo EXCEPT ![l] = messages]
            /\ Loading(l, "instructed", IF messages = <<>> THEN "posted" ELSE "filling")
      BY <2>2 DEF Recall, Loading, Types, TypeOK
    <3>2. messages \in Seq(Stored)
      BY SmolLMManagerAssumption
    <3>3. /\ load'[l] = IF messages = <<>> THEN "posted" ELSE "filling"
          /\ \A k \in Loads \ {l} : load'[k] = load[k]
      BY <3>1 DEF Loading, Types, TypeOK
    <3>4. /\ todo' \in [Loads -> Seq(Stored)] /\ todo'[l] = messages
          /\ \A k \in Loads \ {l} : todo'[k] = todo[k]
      BY <3>1, <3>2 DEF Types, TypeOK
    <3> QED
      BY <3>3, <3>4 DEF Types, Insides
  <2>3. CASE ~Fill(l) /\ ~(Recall(l) /\ load'[l] # "failed")
    <3>1. UNCHANGED todo
      BY <2>3 DEF LoadStep, LoadCancelled, LoadBegin, LoadReturn, LoadThrow, Instruct,
         Recall, LoadSuccess, LoadError, Loading, Types, TypeOK
    <3>2. \A k \in Loads : load'[k] = "filling" => load[k] = "filling"
      BY <2>3 DEF LoadStep, LoadCancelled, LoadBegin, LoadReturn, LoadThrow, Instruct,
         Recall, LoadSuccess, LoadError, Loading, Types, TypeOK
    <3> QED
      BY <3>1, <3>2 DEF Types, TypeOK, Insides
  <2> QED
    BY <2>1, <2>2, <2>3
<1> QED
  BY <1>1, <1>2, <1>3, <1>4, <1>5, <1>6, <1>7 DEF Types, TypeOK, Insides

(* What a native call leaves is an instance that lives as it did. *)
LEMMA LeaveTouches ==
  ASSUME Types, NEW r \in Responses, response[r] \in Entered,
         NEW p \in Instance(Responses), p.alive = native[inside[r]].alive,
         NEW to \in ResponseStates, Leave(r, p, to)
  PROVE  /\ native' \in [Loads -> Instance(Responses)] /\ SameLives
         /\ \/ Crash(r)
            \/ /\ Goes(r, to)
               /\ inside' = [inside EXCEPT ![r] = Nobody]
               /\ UNCHANGED <<nativePtr, flags, notes, screen, crashed>>
<1>1. inside[r] \in Loads
  BY DEF Types, Insides
<1>2. CASE Crash(r)
  BY <1>2 DEF Crash, objects, Types, TypeOK, SameLives
<1>3. CASE ~Crash(r)
  BY <1>1, <1>3, Touched DEF Leave
<1> QED
  BY <1>2, <1>3

(* What one step of a generation leaves alone, where it goes and what it   *)
(* says.                                                                   *)
Bystanders(r) ==
  /\ native' \in [Loads -> Instance(Responses)]
  /\ SameLives
  /\ UNCHANGED <<nativePtr, isInstanceLoaded, chat, jobs, loadVars, benchmark, asked,
                 adrift, modelLoadingState, window, main>>
  /\ \A q \in Responses \ {r} : response'[q] = response[q] /\ saved'[q] = saved[q]

Places(r) ==
  /\ response' \in [Responses -> ResponseStates]
  /\ inside' \in [Callers -> Loads \cup {Nobody}]
  /\ \A c \in Callers \ {r} : inside'[c] = inside[c]
  /\ response'[r] \in Entered => inside'[r] \in Loads

StaysBusy(r) ==
  \/ response'[r] \in Going
  \/ isInferenceOn' = FALSE
  \/ isInferenceOn' = isInferenceOn /\ response[r] \notin Going

Saves(r) ==
  response'[r] = "deliver" =>
    \/ saved'[r] = chat
    \/ response[r] = "deliver" /\ saved'[r] = saved[r]

Shows(r) ==
  \/ UNCHANGED chatVars
  \/ /\ response[r] = "deliver" /\ r \notin cancelled
     /\ shownChat' = asked[r]
     /\ withModel' = IF r \in adrift THEN withModel \ {asked[r]}
                     ELSE withModel \cup {asked[r]}
     /\ response'[r] = "delivered"

Words(r) ==
  /\ isInferenceOn' \in BOOLEAN /\ isGeneratingResponse' \in BOOLEAN
  /\ saved' \in [Responses -> Chats \cup {Nobody}] /\ crashed' \in BOOLEAN
  /\ response[r] \notin {"none", "ended"}
  /\ StaysBusy(r)
  /\ Saves(r) /\ Shows(r)

ResponseEffect(r) == Bystanders(r) /\ Places(r) /\ Words(r)

LEMMA KeptWords ==
  ASSUME Types, NEW r \in Responses, response[r] \notin {"none", "ended"},
         UNCHANGED <<flags, notes, screen>>, crashed' \in BOOLEAN,
         response'[r] = response[r] \/ response'[r] \in Going \ {"deliver"}
  PROVE  Words(r)
<1>1. UNCHANGED <<isInferenceOn, isGeneratingResponse, saved, chatVars>>
  BY DEF flags, notes, screen
<1>2. /\ isInferenceOn \in BOOLEAN /\ isGeneratingResponse \in BOOLEAN
      /\ saved \in [Responses -> Chats \cup {Nobody}]
  BY DEF Types, TypeOK
<1>3. isInferenceOn' = isInferenceOn
  BY <1>1
<1>4. StaysBusy(r)
  BY <1>3 DEF StaysBusy
<1>5. Saves(r) /\ Shows(r)
  BY <1>1 DEF Saves, Shows
<1>6. /\ isInferenceOn' \in BOOLEAN /\ isGeneratingResponse' \in BOOLEAN
      /\ saved' \in [Responses -> Chats \cup {Nobody}]
  BY <1>1, <1>2
<1> QED
  BY <1>4, <1>5, <1>6 DEF Words

LEMMA CrashEffect ==
  ASSUME Types, NEW r \in Responses, Crash(r), response[r] \notin {"none", "ended"}
  PROVE  ResponseEffect(r)
<1>1. UNCHANGED <<objects, flags, jobs, loadVars, response, benchmark, inside, notes,
                  screen, window, main>>
      /\ crashed'
  BY DEF Crash
<1>2. native' \in [Loads -> Instance(Responses)] /\ SameLives
  BY <1>1 DEF objects, Types, TypeOK, SameLives
<1>3. response[r] \in Entered => inside[r] \in Loads
  BY DEF Types, Insides
<1>4. Bystanders(r)
  BY <1>1, <1>2 DEF Bystanders, objects, flags, notes, screen
<1>5. Places(r)
  BY <1>1, <1>3 DEF Places, Types, TypeOK
<1>6. Words(r)
  BY <1>1, KeptWords DEF Crash
<1> QED
  BY <1>4, <1>5, <1>6 DEF ResponseEffect

LEMMA EnterEffect ==
  ASSUME Types, NEW r \in Responses, Enter(r)
  PROVE  ResponseEffect(r)
<1>1. CASE Crash(r)
  BY <1>1, CrashEffect DEF Enter
<1>2. CASE ~Crash(r)
  <2>1. nativePtr \in Loads /\ native[nativePtr] \in Instance(Responses)
    BY <1>2 DEF Enter, Callable, Usable, Types, TypeOK
  <2> DEFINE p == [native[nativePtr] EXCEPT !.tidy = @ /\ Undisturbed(r)]
  <2>2. Undisturbed(r) \in BOOLEAN
    BY DEF Undisturbed
  <2>3. p \in Instance(Responses) /\ p.alive = native[nativePtr].alive
    BY <2>1, <2>2, TidyType
  <2>4. native' = [native EXCEPT ![nativePtr].tidy = @ /\ Undisturbed(r)]
    BY <1>2 DEF Enter
  <2>5. native' = [native EXCEPT ![nativePtr] = p]
    BY <2>4
  <2> HIDE DEF p
  <2>6. native' \in [Loads -> Instance(Responses)] /\ SameLives
    BY <2>1, <2>3, <2>5, Touched
  <2>7. /\ inside' = [inside EXCEPT ![r] = nativePtr]
        /\ UNCHANGED <<nativePtr, flags, notes, screen, crashed>>
        /\ response[r] \in {"start", "loop", "stop"}
        /\ Goes(r, CASE response[r] = "start" -> "in start"
                     [] response[r] = "loop"  -> "in loop"
                     [] response[r] = "stop"  -> "in stop")
    BY <1>2 DEF Enter
  <2>8. /\ response' \in [Responses -> ResponseStates]
        /\ \A q \in Responses \ {r} : response'[q] = response[q]
        /\ response'[r] \in Entered
    BY <2>7 DEF Goes, Types, TypeOK, ResponseStates, Going, Entered
  <2>9. /\ inside' \in [Callers -> Loads \cup {Nobody}]
        /\ \A c \in Callers \ {r} : inside'[c] = inside[c]
        /\ inside'[r] \in Loads
    BY <2>1, <2>7 DEF Types, TypeOK, Callers
  <2>10. UNCHANGED <<jobs, loadVars, benchmark, window, main>>
    BY <2>7 DEF Goes
  <2>11. response'[r] \in Going /\ response'[r] # "deliver"
    BY <2>8 DEF Entered, Going
  <2>12. Bystanders(r)
    BY <2>6, <2>7, <2>8, <2>10 DEF Bystanders, flags, notes, screen
  <2>13. Places(r)
    BY <2>8, <2>9 DEF Places
  <2>14. crashed \in BOOLEAN
    BY DEF Types, TypeOK
  <2>15. Words(r)
    BY <2>7, <2>11, <2>14, KeptWords
  <2> QED
    BY <2>12, <2>13, <2>15 DEF ResponseEffect
<1> QED
  BY <1>1, <1>2

LEMMA CallEffect ==
  ASSUME Types, NEW r \in Responses,
         StartCompletion(r) \/ CompletionLoop(r) \/ StopCompletion(r)
  PROVE  ResponseEffect(r)
<1> DEFINE o == native[inside[r]]
<1>1. response[r] \in Entered
  BY DEF StartCompletion, CompletionLoop, StopCompletion, Entered
<1>2. o \in Instance(Responses)
  BY <1>1 DEF Types, TypeOK, Insides
<1>3. PICK p \in Instance(Responses), to \in {"loop", "failed", "emit", "stop", "save"} :
        p.alive = o.alive /\ Leave(r, p, to)
  <2>1. CASE StartCompletion(r)
    BY <1>2, <2>1, StartType DEF StartCompletion
  <2>2. CASE CompletionLoop(r)
    <3>2. /\ Ended(o) \in Instance(Responses) /\ Ended(o).alive = o.alive
          /\ \A byte \in Bytes : /\ WithPiece(o, r, byte) \in Instance(Responses)
                                 /\ WithPiece(o, r, byte).alive = o.alive
      BY <1>2, PieceType, EndType
    <3>3. \/ Leave(r, o, "failed")
          \/ \E byte \in Bytes : Leave(r, WithPiece(o, r, byte), "emit")
          \/ Leave(r, Ended(o), "stop")
      BY <2>2 DEF CompletionLoop
    <3> HIDE DEF o
    <3> QED
      BY <1>2, <3>2, <3>3
  <2>3. CASE StopCompletion(r)
    BY <1>2, <2>3, EndType DEF StopCompletion
  <2> QED
    BY <2>1, <2>2, <2>3
<1>4. to \in ResponseStates /\ to \notin Entered /\ to \in Going /\ to # "deliver"
  BY DEF ResponseStates, Going, Entered
<1>5. /\ native' \in [Loads -> Instance(Responses)] /\ SameLives
      /\ \/ Crash(r)
         \/ /\ Goes(r, to)
            /\ inside' = [inside EXCEPT ![r] = Nobody]
            /\ UNCHANGED <<nativePtr, flags, notes, screen, crashed>>
  BY <1>1, <1>3, <1>4, LeaveTouches
<1>6. CASE Crash(r)
  <2>1. response[r] \notin {"none", "ended"}
    BY <1>1 DEF Entered
  <2> QED
    BY <1>6, <2>1, CrashEffect
<1>7. CASE ~Crash(r)
  <2>1. /\ response' \in [Responses -> ResponseStates]
        /\ \A q \in Responses \ {r} : response'[q] = response[q]
        /\ response'[r] = to
    <3>1. /\ response' = [response EXCEPT ![r] = to]
          /\ to \in ResponseStates
          /\ response \in [Responses -> ResponseStates]
      BY <1>4, <1>5, <1>7 DEF Goes, Types, TypeOK
    <3> QED
      BY <3>1
  <2>2. /\ inside' \in [Callers -> Loads \cup {Nobody}]
        /\ \A c \in Callers \ {r} : inside'[c] = inside[c]
    BY <1>5, <1>7 DEF Types, TypeOK, Callers
  <2>3. UNCHANGED <<jobs, loadVars, benchmark, window, main>>
    BY <1>5, <1>7 DEF Goes
  <2>4. response[r] \notin {"none", "ended"}
    BY <1>1 DEF Entered
  <2>5. Bystanders(r)
    BY <1>5, <1>7, <2>1, <2>3 DEF Bystanders, flags, notes, screen
  <2>6. Places(r)
    BY <1>4, <2>1, <2>2 DEF Places
  <2>7. crashed \in BOOLEAN
    BY DEF Types, TypeOK
  <2>8. Words(r)
    BY <1>4, <1>5, <1>7, <2>1, <2>4, <2>7, KeptWords
  <2> QED
    BY <2>5, <2>6, <2>8 DEF ResponseEffect
<1> QED
  BY <1>6, <1>7

LEMMA QuietEffect ==
  ASSUME Types, NEW r \in Responses,
         \/ Begin(r) \/ Partial(r) \/ Resume(r) \/ Save(r) \/ Deliver(r) \/ DeliverCancelled(r)
         \/ Caught(r) \/ Report(r)
  PROVE  ResponseEffect(r)
<1>1. CASE Crash(r)
  <2>1. response[r] \notin {"none", "ended"}
    BY DEF Begin, Partial, Resume, Save, Deliver, DeliverCancelled, Caught, Report
  <2> QED
    BY <1>1, <2>1, CrashEffect
<1>2. CASE ~Crash(r)
  <2>1. UNCHANGED <<objects, isInstanceLoaded, chat, inside, asked, adrift,
                    modelLoadingState>>
    BY <1>2 DEF Begin, Partial, Resume, Save, Deliver, DeliverCancelled, Caught, Report, Quiet,
       flags, notes, screen
  <2>2. PICK to \in {"ended", "start", "caught", "failed", "back", "loop", "deliver",
                           "delivered", "report"} : Goes(r, to)
    BY <1>2 DEF Begin, Partial, Resume, Save, Deliver, DeliverCancelled, Caught, Report
  <2>3. /\ response' \in [Responses -> ResponseStates]
        /\ \A q \in Responses \ {r} : response'[q] = response[q]
        /\ response'[r] \notin Entered
    BY <2>2 DEF Goes, Types, TypeOK, ResponseStates, Going, Entered
  <2>4. \A q \in Responses \ {r} : saved'[q] = saved[q]
    BY <1>2 DEF Begin, Partial, Resume, Save, Deliver, DeliverCancelled, Caught, Report, Quiet,
       notes, Types, TypeOK
  <2>5. UNCHANGED <<jobs, loadVars, benchmark, window, main>>
    BY <2>2 DEF Goes
  <2>6. native' \in [Loads -> Instance(Responses)] /\ SameLives
    BY <2>1 DEF objects, Types, TypeOK, SameLives
  <2>7. inside' \in [Callers -> Loads \cup {Nobody}]
    BY <2>1 DEF Types, TypeOK
  <2>8. /\ isInferenceOn' \in BOOLEAN /\ isGeneratingResponse' \in BOOLEAN
        /\ crashed' \in BOOLEAN
    BY <1>2 DEF Begin, Partial, Resume, Save, Deliver, DeliverCancelled, Caught, CaughtOff, Report,
       Quiet, flags, screen, Types, TypeOK
  <2>9. saved' \in [Responses -> Chats \cup {Nobody}]
    BY <1>2 DEF Begin, Partial, Resume, Save, Deliver, DeliverCancelled, Caught, Report,
       Quiet, notes, Types, TypeOK
  <2>10. StaysBusy(r)
    <3> USE DEF StaysBusy
    <3>1. CASE Begin(r)
      BY <3>1 DEF Begin, Goes, Going, Entered, Types, TypeOK
    <3>2. CASE Partial(r) \/ DeliverCancelled(r) \/ Save(r)
      BY <3>2 DEF Partial, DeliverCancelled, Save, Goes, Going, Types, TypeOK
    <3>5. CASE Resume(r)
      <4>1. isInferenceOn' = isInferenceOn
        BY <3>5 DEF Resume, Quiet, flags
      <4>2. response[r] = "back" => response'[r] \in Going
        BY <3>5 DEF Resume, Goes, Going, Types, TypeOK
      <4>3. response[r] \in {"back", "delivered"} /\ "delivered" \notin Going
        BY <3>5 DEF Resume, Going, Entered
      <4> QED
        BY <4>1, <4>2, <4>3
    <3>3. CASE Deliver(r) \/ Caught(r)
      BY <1>2, <3>3 DEF Deliver, Caught, CaughtOff
    <3>4. CASE Report(r)
      BY <3>4 DEF Report, Going, Entered, flags
    <3> QED
      BY <3>1, <3>2, <3>3, <3>4, <3>5
  <2>11. Saves(r)
    <3>1. CASE Save(r) /\ response'[r] = "deliver"
      <4>1. saved \in [Responses -> Chats \cup {Nobody}]
        BY DEF Types, TypeOK
      <4>2. saved' = [saved EXCEPT ![r] = chat]
        BY <3>1 DEF Save, Goes, Types, TypeOK
      <4>3. saved'[r] = chat
        BY <4>1, <4>2
      <4> QED
        BY <4>3 DEF Saves
    <3>2. CASE ~(Save(r) /\ response'[r] = "deliver")
      <4>1. response'[r] # "deliver"
        BY <1>2, <3>2 DEF Begin, Partial, Resume, Deliver, DeliverCancelled, Caught, Report, Goes,
           Types, TypeOK
      <4> QED
        BY <4>1 DEF Saves
    <3> QED
      BY <3>1, <3>2
  <2>12. Shows(r)
    BY <1>2, <2>3 DEF Begin, Partial, Resume, Save, Deliver, DeliverCancelled, Caught, Report,
       Quiet, screen, chatVars, Goes, Shows, Types, TypeOK
  <2>13. Bystanders(r)
    BY <2>1, <2>3, <2>4, <2>5, <2>6 DEF Bystanders, objects
  <2>14. Places(r)
    BY <2>1, <2>3, <2>7 DEF Places
  <2>15. response[r] \notin {"none", "ended"}
    BY DEF Begin, Partial, Resume, Save, Deliver, DeliverCancelled, Caught, Report
  <2>16. Words(r)
    BY <2>8, <2>9, <2>10, <2>11, <2>12, <2>15 DEF Words
  <2> QED
    BY <2>13, <2>14, <2>16 DEF ResponseEffect
<1> QED
  BY <1>1, <1>2

LEMMA ResponseStepEffect ==
  ASSUME Types, NEW r \in Responses, ResponseStep(r)
  PROVE  ResponseEffect(r)
BY EnterEffect, CallEffect, QuietEffect DEF ResponseStep

LEMMA ResponseStepType ==
  ASSUME Types, NEW r \in Responses, ResponseEffect(r)
  PROVE  Types'
<1>1. \A b \in Benchmarks : b # r
  BY SmolLMManagerAssumption
<1>2. shownChat' \in Chats /\ withModel' \subseteq Chats
  <2>1. Shows(r)
    BY DEF ResponseEffect, Words
  <2>2. response[r] = "deliver" => asked[r] \in Chats
    BY DEF Types, Insides
  <2> QED
    BY <2>1, <2>2 DEF Shows, chatVars, Types, TypeOK
<1>3. TypeOK'
  BY <1>2 DEF ResponseEffect, Bystanders, Places, Words, Types, TypeOK, jobs, loadVars, window
<1>4. main' \in Queues
  BY DEF ResponseEffect, Bystanders, Places, Words, Types
<1>5. \A q \in Responses : response'[q] # "none" => asked'[q] \in Chats
  BY DEF ResponseEffect, Bystanders, Places, Words, Types, Insides
<1>6. \A q \in Responses : response'[q] \in Entered => inside'[q] \in Loads
  BY DEF ResponseEffect, Bystanders, Places, Words, Types, Insides, Callers
<1>7. \A b \in Benchmarks : benchmark'[b] = "in" => inside'[b] \in Loads
  BY <1>1 DEF ResponseEffect, Bystanders, Places, Types, Insides, Callers
<1>8. \A l \in Loads : load'[l] = "filling" => todo'[l] # <<>>
  BY DEF ResponseEffect, Bystanders, loadVars, Types, Insides
<1> QED
  BY <1>3, <1>4, <1>5, <1>6, <1>7, <1>8 DEF Types, Insides

(* A benchmark changes its own place and what the instance remembers. *)
BenchmarkStep(b) == BenchmarkEnter(b) \/ BenchmarkLeave(b)

LEMMA BenchmarkEffect ==
  ASSUME Types, NEW b \in Benchmarks, BenchmarkStep(b)
  PROVE  /\ native' \in [Loads -> Instance(Responses)] /\ SameLives
         /\ UNCHANGED <<nativePtr, flags, jobs, loadVars, response, notes, screen, window, main>>
         /\ Types'
<1>1. native' \in [Loads -> Instance(Responses)] /\ SameLives
  <2>1. CASE UNCHANGED native
    BY <2>1 DEF Types, TypeOK, SameLives
  <2>2. CASE BenchmarkEnter(b) /\ ~UNCHANGED native
    <3>1. nativePtr \in Loads /\ native[nativePtr] \in Instance(Responses)
      BY <2>2 DEF BenchmarkEnter, Usable, Types, TypeOK
    <3>2. (~Shared(nativePtr)) \in BOOLEAN
      OBVIOUS
    <3> DEFINE p == [native[nativePtr] EXCEPT !.tidy = @ /\ ~Shared(nativePtr)]
    <3>3. p \in Instance(Responses) /\ p.alive = native[nativePtr].alive
      BY <3>1, <3>2, TidyType
    <3>4. native' = [native EXCEPT ![nativePtr].tidy = @ /\ ~Shared(nativePtr)]
      BY <2>2 DEF BenchmarkEnter
    <3>5. native' = [native EXCEPT ![nativePtr] = p]
      BY <3>4
    <3> HIDE DEF p
    <3> QED
      BY <3>1, <3>3, <3>5, Touched
  <2>3. CASE BenchmarkLeave(b) /\ ~UNCHANGED native
    <3>1. inside[b] \in Loads /\ native[inside[b]] \in Instance(Responses)
      BY <2>3 DEF BenchmarkLeave, Types, TypeOK, Insides
    <3>2. native' = [native EXCEPT ![inside[b]] = Benched(native[inside[b]])]
      BY <2>3 DEF BenchmarkLeave
    <3> QED
      BY <3>1, <3>2, EndType, Touched
  <2> QED
    BY <2>1, <2>2, <2>3 DEF BenchmarkStep
<1>2. UNCHANGED <<nativePtr, flags, jobs, loadVars, response, notes, screen, window, main>>
  BY DEF BenchmarkStep, BenchmarkEnter, BenchmarkLeave
<1>3. /\ benchmark' \in [Benchmarks -> {"none", "launched", "in", "ended"}]
      /\ crashed' \in BOOLEAN
  BY DEF BenchmarkStep, BenchmarkEnter, BenchmarkLeave, Types, TypeOK
<1>4. inside' \in [Callers -> Loads \cup {Nobody}]
  BY DEF BenchmarkStep, BenchmarkEnter, BenchmarkLeave, Types, TypeOK
<1>5. \A c \in Callers \ {b} : inside'[c] = inside[c]
  BY DEF BenchmarkStep, BenchmarkEnter, BenchmarkLeave, Types, TypeOK
<1>6. \A d \in Benchmarks : benchmark'[d] = "in" => inside'[d] \in Loads
  BY DEF BenchmarkStep, BenchmarkEnter, BenchmarkLeave, Types, TypeOK, Insides, Usable,
     Callers
<1>7. b \notin Responses
  BY SmolLMManagerAssumption
<1>8. Insides'
  BY <1>2, <1>5, <1>6, <1>7 DEF Types, Insides, Callers, notes, loadVars
<1>9. TypeOK'
  BY <1>1, <1>2, <1>3, <1>4 DEF Types, TypeOK, flags, jobs, loadVars, notes, chatVars, screen, window
<1> QED
  BY <1>1, <1>2, <1>8, <1>9 DEF Types

LEMMA TypesStep == Types /\ [Next]_vars => Types'
<1> SUFFICES ASSUME Types, [Next]_vars PROVE Types'
  OBVIOUS
<1>1. CASE UNCHANGED vars
  BY <1>1 DEF vars, objects, flags, jobs, loadVars, notes, chatVars, screen, window, Types,
     TypeOK, Insides
<1>2. CASE Next
  BY <1>2, EventsType, MainStepType, LoadStepType, ResponseStepEffect, ResponseStepType,
     BenchmarkEffect DEF Next, BenchmarkStep
<1> QED
  BY <1>1, <1>2

(* Every variable keeps its type, and the main thread has a known queue of *)
(* calls before it.                                                        *)
THEOREM SmolTypes == Spec => []Types
<1> QED
  BY TypesInit, TypesStep, PTL DEF Spec

------------------------------------------------------------------------------
(* What the other steps leave alone *)

LEMMA EventsEffect ==
  ASSUME Types, Events
  PROVE  /\ main = <<>> /\ ~Calling("forget")'
         /\ UNCHANGED <<objects, flags, jobs, loadVars, response, benchmark, inside, notes,
                        modelLoadingState, isGeneratingResponse, crashed>>
         /\ shownChat' = shownChat \/ Calling("stop")'
         /\ UNCHANGED chatVars \/ LoadAhead(main')
<1>1. main = <<>>
  BY DEF Events, Event, SendUserQuery, StopGeneration, DeleteChatMessages,
     OnMessageEdited, UpdateChatSettings, UpdateChatModel, StartBenchmark, OnStop, OnStart, SwitchChat
<1>2. UNCHANGED <<objects, flags, jobs, loadVars, response, benchmark, inside, notes,
                  modelLoadingState, isGeneratingResponse, crashed>>
  BY DEF Events, Event, SendUserQuery, StopGeneration, DeleteChatMessages,
     OnMessageEdited, UpdateChatSettings, UpdateChatModel, StartBenchmark, OnStop, OnStart, SwitchChat
<1>3. main' \in {<<>>, <<"send">>, <<"stop">>, <<"load">>, <<"benchmark">>, <<"leave">>,
                <<"unload", "load">>, <<"stop", "load">>, <<"stop", "unload", "load">>,
                <<"unload", "reload">>}
  BY DEF Events, Event, SendUserQuery, StopGeneration, DeleteChatMessages,
     OnMessageEdited, UpdateChatSettings, UpdateChatModel, StartBenchmark, OnStop, OnStart, SwitchChat
<1>4. ~Calling("forget")'
  BY <1>3 DEF Calling
<1>5. \/ UNCHANGED chatVars
      \/ main' = <<"stop", "load">>
      \/ main' = <<"load">> /\ shownChat' = shownChat
  BY DEF Events, Event, SendUserQuery, StopGeneration, DeleteChatMessages,
     OnMessageEdited, UpdateChatSettings, UpdateChatModel, StartBenchmark, OnStop, OnStart,
     SwitchChat
<1>6. /\ main' = <<"stop", "load">> => Calling("stop")' /\ LoadAhead(main')
      /\ main' = <<"load">> => LoadAhead(main')
  BY DEF Calling, LoadAhead
<1> QED
  BY <1>1, <1>2, <1>4, <1>5, <1>6 DEF chatVars

LEMMA LoadStepEffect ==
  ASSUME Types, NEW l \in Loads, LoadStep(l)
  PROVE  /\ UNCHANGED <<isInferenceOn, chat, jobs, response, benchmark, inside, notes,
                        isGeneratingResponse, chatVars, window>>
         /\ \A k \in Loads \ {l} : load'[k] = load[k]
         /\ load[l] \notin {"none", "ended"}
         /\ UNCHANGED main \/ (main = <<>> /\ main' = <<"send">>)
<1>1. UNCHANGED <<jobs, response, benchmark, inside, notes, isGeneratingResponse, chatVars,
                  window>>
  BY DEF LoadStep, LoadCancelled, LoadBegin, LoadReturn, LoadThrow, Instruct, Recall, Fill,
     LoadSuccess, LoadError, Loading
<1>2. PICK from \in {"launched", "native", "returned", "instructed", "filling", "posted",
                     "failed"},
           to \in LoadStates : Loading(l, from, to)
  BY DEF LoadStep, LoadCancelled, LoadBegin, LoadReturn, LoadThrow, Instruct, Recall, Fill,
     LoadSuccess, LoadError, LoadStates
<1>3. \A k \in Loads \ {l} : load'[k] = load[k]
  BY <1>2 DEF Loading, Types, TypeOK
<1>4. /\ UNCHANGED <<isInferenceOn, chat>>
      /\ UNCHANGED main \/ (main = <<>> /\ main' = <<"send">>)
  <2>1. CASE Providing(l)
    BY <2>1, ProvidingTouches DEF flags
  <2>2. CASE ~Providing(l)
    BY <2>2 DEF LoadStep, LoadCancelled, LoadBegin, LoadReturn, LoadThrow, LoadSuccess,
       LoadError, Providing, flags
  <2> QED
    BY <2>1, <2>2
<1> QED
  BY <1>1, <1>2, <1>3, <1>4 DEF Loading

------------------------------------------------------------------------------
(* The busy flag *)

(* MainStep: no call takes a generation back. *)
LEMMA FlagMainStep ==
  ASSUME Types, FlagIsBacked, MainStep
  PROVE  FlagIsBacked'
<1>1. isInferenceOn' = FALSE \/ isInferenceOn' = isInferenceOn
  BY DEF MainStep, Stop, RefuseUnload, Unload, Forget, ShowDialog, LaunchBenchmark, Load, Send, flags
<1>2. \A r \in Responses : response[r] \in Going => response'[r] = response[r]
  <2>1. \/ response' = response
        \/ \E q \in Responses :
             response[q] = "none" /\ response' = [response EXCEPT ![q] = "launched"]
    BY DEF MainStep, Stop, RefuseUnload, Unload, Forget, ShowDialog, LaunchBenchmark, Load,
       Send, GetResponse
  <2> QED
    BY <2>1 DEF Types, TypeOK, Going, Entered
<1> QED
  BY <1>1, <1>2 DEF FlagIsBacked

LEMMA FlagResponseStep ==
  ASSUME Types, FlagIsBacked, NEW r \in Responses, ResponseEffect(r)
  PROVE  FlagIsBacked'
<1>1. StaysBusy(r) /\ \A q \in Responses \ {r} : response'[q] = response[q]
  BY DEF ResponseEffect, Bystanders, Words
<1>2. CASE response'[r] \in Going
  BY <1>2 DEF FlagIsBacked
<1>3. CASE isInferenceOn' = FALSE
  BY <1>3 DEF FlagIsBacked
<1>4. CASE isInferenceOn' = isInferenceOn /\ response[r] \notin Going
  <2>1. \A q \in Responses : response[q] \in Going => response'[q] \in Going
    BY <1>1, <1>4
  <2> QED
    BY <1>4, <2>1 DEF FlagIsBacked
<1> QED
  BY <1>1, <1>2, <1>3, <1>4 DEF StaysBusy

LEMMA FlagStep ==
  ASSUME Types, FlagIsBacked, [Next]_vars
  PROVE  FlagIsBacked'
<1>1. CASE UNCHANGED <<isInferenceOn, response>>
  BY <1>1 DEF FlagIsBacked
<1>2. CASE UNCHANGED vars
  BY <1>1, <1>2 DEF vars, flags
<1>3. CASE Events
  BY <1>1, <1>3, EventsEffect DEF flags
<1>4. CASE MainStep
  BY <1>4, FlagMainStep
<1>5. ASSUME NEW l \in Loads, LoadStep(l) PROVE FlagIsBacked'
  BY <1>1, <1>5, LoadStepEffect
<1>6. ASSUME NEW r \in Responses, ResponseStep(r) PROVE FlagIsBacked'
  BY <1>6, ResponseStepEffect, FlagResponseStep
<1>7. ASSUME NEW b \in Benchmarks, BenchmarkStep(b) PROVE FlagIsBacked'
  BY <1>1, <1>7, BenchmarkEffect DEF flags
<1> QED
  BY <1>2, <1>3, <1>4, <1>5, <1>6, <1>7 DEF Next, BenchmarkStep

(* isInferenceOn is never left up with no generation on its way to clear   *)
(* it.                                                                     *)
THEOREM FlagBacked == Spec => []FlagIsBacked
<1>1. Init => FlagIsBacked
  BY DEF Init, FlagIsBacked
<1>2. Types /\ FlagIsBacked /\ [Next]_vars => FlagIsBacked'
  BY FlagStep
<1> QED
  BY <1>1, <1>2, SmolTypes, PTL DEF Spec

------------------------------------------------------------------------------
(* One reply is heard *)

LEMMA HeardMainStep ==
  ASSUME Types, OneListens, MainStep
  PROVE  OneListens'
<1>1. CASE UNCHANGED <<response, responseGenerationJob>> /\ cancelled \subseteq cancelled'
  BY <1>1 DEF OneListens, Listening
<1>2. CASE Stop \/ RefuseUnload \/ Unload \/ Forget \/ ShowDialog
  BY <1>1, <1>2 DEF Stop, RefuseUnload, Unload, UnloadStopsAll, Forget, ShowDialog,
     WithCancelled, jobs
<1>3. ASSUME NEW b \in Benchmarks, LaunchBenchmark(b) PROVE OneListens'
  BY <1>1, <1>3 DEF LaunchBenchmark, jobs
<1>4. ASSUME NEW l \in Loads, Load(l) PROVE OneListens'
  BY <1>1, <1>4 DEF Load, WithCancelled
<1>5. ASSUME NEW r \in Responses, Send(r) PROVE OneListens'
  <2>1. CASE ~isInstanceLoaded
    BY <1>1, <1>5, <2>1 DEF Send
  <2>2. CASE isInstanceLoaded
    <3>1. /\ cancelled' = cancelled \cup ({responseGenerationJob} \ {Nobody})
          /\ responseGenerationJob' = r
          /\ response' = [response EXCEPT ![r] = "launched"]
      BY <1>5, <2>2 DEF Send, GetResponse, WithCancelled
    <3>2. ASSUME NEW q \in Responses, Listening(q)' PROVE q = r
      <4>1. SUFFICES ASSUME q # r PROVE FALSE
        OBVIOUS
      <4>2. response'[q] = response[q]
        BY <3>1, <4>1 DEF Types, TypeOK
      <4>3. Listening(q)
        BY <3>1, <3>2, <4>2 DEF Listening
      <4>4. q = responseGenerationJob
        BY <4>3 DEF OneListens
      <4>5. q # Nobody
        BY SmolLMManagerAssumption
      <4> QED
        BY <3>1, <3>2, <4>4, <4>5 DEF Listening
    <3> QED
      BY <3>1, <3>2 DEF OneListens
  <2> QED
    BY <2>1, <2>2
<1> QED
  BY <1>2, <1>3, <1>4, <1>5 DEF MainStep

LEMMA HeardStep ==
  ASSUME Types, OneListens, [Next]_vars
  PROVE  OneListens'
<1>1. CASE UNCHANGED <<response, jobs>>
  BY <1>1 DEF OneListens, Listening, jobs
<1>2. CASE UNCHANGED vars
  BY <1>1, <1>2 DEF vars
<1>3. CASE Events
  BY <1>1, <1>3, EventsEffect
<1>4. CASE MainStep
  BY <1>4, HeardMainStep
<1>5. ASSUME NEW l \in Loads, LoadStep(l) PROVE OneListens'
  BY <1>1, <1>5, LoadStepEffect
<1>6. ASSUME NEW r \in Responses, ResponseStep(r) PROVE OneListens'
  <2>1. ResponseEffect(r)
    BY <1>6, ResponseStepEffect
  <2>2. /\ UNCHANGED jobs
        /\ response[r] \notin {"none", "ended"}
        /\ \A q \in Responses \ {r} : response'[q] = response[q]
    BY <2>1 DEF ResponseEffect, Bystanders, Words
  <2> QED
    BY <2>2 DEF OneListens, Listening, jobs
<1>7. ASSUME NEW b \in Benchmarks, BenchmarkStep(b) PROVE OneListens'
  BY <1>1, <1>7, BenchmarkEffect
<1> QED
  BY <1>2, <1>3, <1>4, <1>5, <1>6, <1>7 DEF Next, BenchmarkStep

(* Of all generations under way only the last has not been told to stop.   *)
THEOREM OneHeard == Spec => []OneListens
<1>1. Init => OneListens
  BY DEF Init, OneListens, Listening
<1>2. Types /\ OneListens /\ [Next]_vars => OneListens'
  BY HeardStep
<1> QED
  BY <1>1, <1>2, SmolTypes, PTL DEF Spec

------------------------------------------------------------------------------
(* The pointer.  A load that has not been told to stop and has its pointer *)
(* stored finds it at a live instance: what was stored over it lives, too, *)
(* and only unload ends an instance and only after it told all loads.      *)

Running(l) == load[l] \notin {"none", "ended"} /\ l \notin cancelled

PointerLives ==
  /\ isInstanceLoaded => Usable(nativePtr)
  /\ \A l \in Loads :
       Running(l) /\ load[l] \in {"returned", "instructed", "filling", "posted"}
         => Usable(nativePtr)

OneLoads == \A l \in Loads : Running(l) => l = modelInitJob

StateSaysSo ==
  modelLoadingState = "SUCCESS" /\ ~Calling("forget") => isInstanceLoaded

NoneWhileForgetting ==
  Calling("forget") => ~isInstanceLoaded /\ \A l \in Loads : ~Running(l)

ReadyInv == PointerLives /\ OneLoads /\ StateSaysSo /\ NoneWhileForgetting

(* A step that only puts other messages into an instance or stops jobs. *)
LEMMA ReadyKept ==
  ASSUME Types, ReadyInv, SameLives,
         UNCHANGED <<nativePtr, isInstanceLoaded, modelInitJob, load, modelLoadingState>>,
         cancelled \subseteq cancelled',
         Calling("forget")' => Calling("forget"),
         Calling("forget") => Calling("forget")'
  PROVE  ReadyInv'
<1>1. Usable(nativePtr) => Usable(nativePtr)'
  BY DEF Usable, SameLives, Types, TypeOK
<1>2. \A l \in Loads : Running(l)' => Running(l)
  BY DEF Running
<1>3. PointerLives'
  BY <1>1, <1>2 DEF ReadyInv, PointerLives
<1>4. OneLoads'
  BY <1>2 DEF ReadyInv, OneLoads
<1>5. StateSaysSo' /\ NoneWhileForgetting'
  BY <1>2 DEF ReadyInv, StateSaysSo, NoneWhileForgetting
<1> QED
  BY <1>3, <1>4, <1>5 DEF ReadyInv

LEMMA ReadyMainStep ==
  ASSUME Types, ReadyInv, MainStep
  PROVE  ReadyInv'
<1>1. main # <<>> /\ Follows(main)
  BY CallsFollow DEF MainStep, Stop, RefuseUnload, Unload, Forget, ShowDialog, LaunchBenchmark, Load,
     Send, Calling, Types
<1>2. Done => ~Calling("forget")'
  BY <1>1 DEF Done, Follows, Calling
<1>3. CASE Stop \/ RefuseUnload \/ ShowDialog
           \/ (\E b \in Benchmarks : LaunchBenchmark(b)) \/ (\E r \in Responses : Send(r))
  <2>1. UNCHANGED <<objects, isInstanceLoaded, modelInitJob, load, modelLoadingState>>
    BY <1>3 DEF Stop, RefuseUnload, ShowDialog, LaunchBenchmark, Send, flags, jobs, screen,
       loadVars
  <2>2. cancelled \subseteq cancelled'
    BY <1>3 DEF Stop, RefuseUnload, ShowDialog, LaunchBenchmark, Send, GetResponse,
       WithCancelled, jobs
  <2>3. Done /\ ~Calling("forget")
    BY <1>3 DEF Stop, RefuseUnload, ShowDialog, LaunchBenchmark, Send, Calling
  <2>4. SameLives
    BY <2>1 DEF SameLives, objects
  <2> QED
    BY <1>2, <2>1, <2>2, <2>3, <2>4, ReadyKept DEF objects
<1>4. CASE Unload
  <2>1. main' = <<"forget">> \o Tail(main)
    BY <1>4 DEF Unload
  <2>2. Calling("forget")'
    BY <1>1, <1>4, <2>1 DEF Unload, Follows, Calling
  <2>3. /\ isInstanceLoaded' = FALSE /\ UNCHANGED <<load, modelInitJob>>
        /\ cancelled' = cancelled \cup ({responseGenerationJob, modelInitJob} \ {Nobody})
    BY <1>4 DEF Unload, UnloadStopsAll, Unloaded, WithCancelled, loadVars
  <2>4. \A l \in Loads : ~Running(l)'
    <3> SUFFICES ASSUME NEW l \in Loads, Running(l)' PROVE FALSE
      OBVIOUS
    <3>1. Running(l)
      BY <2>3 DEF Running
    <3>2. l = modelInitJob /\ l # Nobody
      BY <3>1, SmolLMManagerAssumption DEF ReadyInv, OneLoads
    <3> QED
      BY <2>3, <3>2 DEF Running
  <2> QED
    BY <2>2, <2>3, <2>4
       DEF ReadyInv, PointerLives, OneLoads, StateSaysSo, NoneWhileForgetting
<1>5. CASE Forget
  <2>1. ~isInstanceLoaded /\ \A l \in Loads : ~Running(l)
    BY <1>5 DEF Forget, ReadyInv, NoneWhileForgetting
  <2>2. /\ UNCHANGED <<isInstanceLoaded, load, cancelled>>
        /\ modelLoadingState' = "NOT_LOADED"
    BY <1>5 DEF Forget, flags, jobs, loadVars
  <2>3. ~isInstanceLoaded' /\ \A l \in Loads : ~Running(l)'
    BY <2>1, <2>2 DEF Running
  <2> QED
    BY <2>2, <2>3
       DEF ReadyInv, PointerLives, OneLoads, StateSaysSo, NoneWhileForgetting
<1>6. ASSUME NEW l \in Loads, Load(l) PROVE ReadyInv'
  <2>1. /\ UNCHANGED <<objects, isInstanceLoaded>>
        /\ modelInitJob' = l
        /\ cancelled' = cancelled \cup ({modelInitJob} \ {Nobody})
        /\ load' = [load EXCEPT ![l] = "launched"]
        /\ modelLoadingState' = "IN_PROGRESS"
        /\ Done
    BY <1>6 DEF Load, WithCancelled
  <2>2. load'[l] = "launched" /\ \A k \in Loads \ {l} : load'[k] = load[k]
    BY <2>1 DEF Types, TypeOK
  <2>3. ASSUME NEW k \in Loads, Running(k)' PROVE k = l
    <3> SUFFICES ASSUME k # l PROVE FALSE
      OBVIOUS
    <3>1. Running(k)
      BY <2>1, <2>2, <2>3 DEF Running
    <3>2. k = modelInitJob /\ k # Nobody
      BY <3>1, SmolLMManagerAssumption DEF ReadyInv, OneLoads
    <3> QED
      BY <2>1, <2>3, <3>2 DEF Running
  <2>4. Usable(nativePtr)' = Usable(nativePtr)
    BY <2>1 DEF Usable, objects
  <2>5. PointerLives'
    BY <2>1, <2>2, <2>3, <2>4 DEF ReadyInv, PointerLives
  <2>6. OneLoads'
    BY <2>1, <2>3 DEF OneLoads
  <2>7. StateSaysSo' /\ NoneWhileForgetting'
    BY <1>2, <2>1 DEF StateSaysSo, NoneWhileForgetting
  <2> QED
    BY <2>5, <2>6, <2>7 DEF ReadyInv
<1> QED
  BY <1>3, <1>4, <1>5, <1>6 DEF MainStep

LEMMA ReadyLoadStep ==
  ASSUME Types, ReadyInv, NEW l \in Loads, LoadStep(l)
  PROVE  ReadyInv'
<1>1. /\ UNCHANGED jobs
      /\ \A k \in Loads \ {l} : load'[k] = load[k]
      /\ load[l] \notin {"none", "ended"}
      /\ UNCHANGED main \/ (main = <<>> /\ main' = <<"send">>)
  BY LoadStepEffect
<1>2. \A k \in Loads : Running(k)' => Running(k)
  BY <1>1 DEF Running, jobs
<1>3. OneLoads'
  BY <1>1, <1>2 DEF ReadyInv, OneLoads, jobs
<1>4. Calling("forget")' = Calling("forget")
  BY <1>1 DEF Calling
<1>5. CASE LoadCancelled(l) \/ LoadBegin(l) \/ LoadThrow(l) \/ LoadError(l)
  <2>1. UNCHANGED <<objects, isInstanceLoaded>>
    BY <1>5 DEF LoadCancelled, LoadBegin, LoadThrow, LoadError, flags
  <2>2. load'[l] \in {"ended", "native", "failed"}
    BY <1>5 DEF LoadCancelled, LoadBegin, LoadThrow, LoadError, Loading, Types, TypeOK
  <2>3. modelLoadingState' = modelLoadingState \/ modelLoadingState' = "FAILURE"
    BY <1>5 DEF LoadCancelled, LoadBegin, LoadThrow, LoadError
  <2>4. Usable(nativePtr)' = Usable(nativePtr)
    BY <2>1 DEF Usable, objects
  <2>5. PointerLives'
    BY <1>1, <1>2, <2>1, <2>2, <2>4 DEF ReadyInv, PointerLives
  <2>6. StateSaysSo' /\ NoneWhileForgetting'
    BY <1>2, <1>4, <2>1, <2>3 DEF ReadyInv, StateSaysSo, NoneWhileForgetting
  <2> QED
    BY <1>3, <2>5, <2>6 DEF ReadyInv
<1>6. CASE LoadReturn(l)
  <2>1. /\ UNCHANGED <<isInstanceLoaded, modelLoadingState>>
        /\ native' = [native EXCEPT ![l] = Loaded]
        /\ nativePtr' = l
    BY <1>6 DEF LoadReturn, flags
  <2>2. native'[l] = Loaded
    BY <2>1 DEF Types, TypeOK
  <2>3. Usable(nativePtr)'
    BY <2>1, <2>2, BlankType, SmolLMManagerAssumption DEF Usable
  <2>4. PointerLives'
    BY <2>3 DEF PointerLives
  <2>5. StateSaysSo' /\ NoneWhileForgetting'
    BY <1>2, <1>4, <2>1 DEF ReadyInv, StateSaysSo, NoneWhileForgetting
  <2> QED
    BY <1>3, <2>4, <2>5 DEF ReadyInv
<1>7. CASE Providing(l)
  <2>1. SameLives /\ UNCHANGED <<nativePtr, isInstanceLoaded, modelLoadingState>>
    BY <1>7, ProvidingTouches DEF flags
  <2>2. load[l] \in {"returned", "instructed", "filling"}
    BY <1>7 DEF Providing, Instruct, Recall, Fill, Loading
  <2>3. Usable(nativePtr) => Usable(nativePtr)'
    BY <2>1 DEF Usable, SameLives, Types, TypeOK
  <2>4. PointerLives'
    BY <1>1, <1>2, <2>1, <2>2, <2>3 DEF ReadyInv, PointerLives
  <2>5. StateSaysSo' /\ NoneWhileForgetting'
    BY <1>2, <1>4, <2>1 DEF ReadyInv, StateSaysSo, NoneWhileForgetting
  <2> QED
    BY <1>3, <2>4, <2>5 DEF ReadyInv
<1>8. CASE LoadSuccess(l)
  <2>1. /\ UNCHANGED objects /\ isInstanceLoaded' = TRUE
        /\ load[l] = "posted" /\ load'[l] = "ended" /\ l \notin cancelled
        /\ main = <<>>
    BY <1>8 DEF LoadSuccess, Loading, Types, TypeOK
  <2>2. Usable(nativePtr)
    BY <2>1 DEF ReadyInv, PointerLives, Running
  <2>3. Usable(nativePtr)'
    BY <2>1, <2>2 DEF Usable, objects
  <2>4. PointerLives'
    BY <2>3 DEF PointerLives
  <2>5. ~Calling("forget")'
    BY <1>4, <2>1 DEF Calling
  <2>6. StateSaysSo' /\ NoneWhileForgetting'
    BY <2>1, <2>5 DEF StateSaysSo, NoneWhileForgetting
  <2> QED
    BY <1>3, <2>4, <2>6 DEF ReadyInv
<1> QED
  BY <1>5, <1>6, <1>7, <1>8 DEF LoadStep, Providing

LEMMA ReadyStep ==
  ASSUME Types, ReadyInv, [Next]_vars
  PROVE  ReadyInv'
<1>1. CASE UNCHANGED vars
  <2>1. UNCHANGED <<nativePtr, isInstanceLoaded, modelInitJob, load, modelLoadingState,
                    cancelled, main, native>>
    BY <1>1 DEF vars, objects, flags, jobs, loadVars, screen
  <2>2. SameLives /\ Calling("forget")' = Calling("forget")
    BY <2>1 DEF SameLives, Calling
  <2> QED
    BY <2>1, <2>2, ReadyKept
<1>2. CASE Events
  <2>1. /\ main = <<>> /\ ~Calling("forget")'
        /\ UNCHANGED <<objects, flags, jobs, load, modelLoadingState>>
    BY <1>2, EventsEffect DEF loadVars
  <2>2. SameLives /\ ~Calling("forget")
    BY <2>1 DEF SameLives, Calling, objects
  <2> QED
    BY <2>1, <2>2, ReadyKept DEF objects, flags, jobs
<1>3. CASE MainStep
  BY <1>3, ReadyMainStep
<1>4. ASSUME NEW l \in Loads, LoadStep(l) PROVE ReadyInv'
  BY <1>4, ReadyLoadStep
<1>5. ASSUME NEW r \in Responses, ResponseStep(r) PROVE ReadyInv'
  <2>1. /\ SameLives
        /\ UNCHANGED <<nativePtr, isInstanceLoaded, jobs, load, modelLoadingState, main>>
    BY <1>5, ResponseStepEffect DEF ResponseEffect, Bystanders, loadVars
  <2>2. Calling("forget")' = Calling("forget")
    BY <2>1 DEF Calling
  <2> QED
    BY <2>1, <2>2, ReadyKept DEF jobs
<1>6. ASSUME NEW b \in Benchmarks, BenchmarkStep(b) PROVE ReadyInv'
  <2>1. /\ SameLives
        /\ UNCHANGED <<nativePtr, flags, jobs, load, screen, main>>
    BY <1>6, BenchmarkEffect DEF loadVars
  <2>2. Calling("forget")' = Calling("forget")
    BY <2>1 DEF Calling
  <2> QED
    BY <2>1, <2>2, ReadyKept DEF flags, jobs, screen
<1> QED
  BY <1>1, <1>2, <1>3, <1>4, <1>5, <1>6 DEF Next, BenchmarkStep

LEMMA ReadyInit == Init => ReadyInv
BY DEF Init, ReadyInv, PointerLives, OneLoads, StateSaysSo, NoneWhileForgetting, Running,
   Calling

(* While queries are invited the pointer is at an instance that lives,     *)
(* whatever loads were replaced or cancelled on the way.                   *)
THEOREM ReadyLives == Spec => []ReadyIsLive
<1>1. ReadyInv => ReadyIsLive
  BY DEF ReadyInv, PointerLives, StateSaysSo, ReadyIsLive
<1>2. Types /\ ReadyInv /\ [Next]_vars => ReadyInv'
  BY ReadyStep
<1> QED
  BY <1>1, <1>2, ReadyInit, SmolTypes, PTL DEF Spec

------------------------------------------------------------------------------
(* What a generation that has not been told to stop works on.  Queries are *)
(* only taken while the pointer is at a live instance, loads only put a    *)
(* live one in its place, and who closes one stops the last generation.    *)

HeardInv ==
  /\ HeardLives
  /\ Calling("forget") => \A r \in Responses : ~Listening(r)
  /\ \A r \in Responses : response[r] = "none" => inside[r] = Nobody

(* A step that lets every instance live on and starts no generation. *)
LEMMA HeardKept ==
  ASSUME Types, HeardInv,
         \A l \in Loads : native[l].alive => native'[l].alive,
         nativePtr' = nativePtr \/ Usable(nativePtr)',
         response' = response, \A r \in Responses : inside'[r] = inside[r],
         cancelled \subseteq cancelled',
         Calling("forget")' => Calling("forget")
  PROVE  HeardInv'
<1>1. Usable(nativePtr) => Usable(nativePtr)'
  BY DEF Usable, Types, TypeOK
<1>2. \A r \in Responses : Listening(r)' => Listening(r)
  BY DEF Listening
<1>3. \A r \in Responses : inside[r] \in Loads \cup {Nobody}
  BY DEF Types, TypeOK, Callers
<1>4. HeardLives'
  BY <1>1, <1>2, <1>3 DEF HeardInv, HeardLives
<1> QED
  BY <1>2, <1>4 DEF HeardInv

LEMMA HeardLivesMainStep ==
  ASSUME Types, OneListens, ReadyInv, HeardInv, MainStep
  PROVE  HeardInv'
<1>1. main # <<>> /\ Follows(main)
  BY CallsFollow DEF MainStep, Stop, RefuseUnload, Unload, Forget, ShowDialog, LaunchBenchmark, Load,
     Send, Calling, Types
<1>2. Done => ~Calling("forget")'
  BY <1>1 DEF Done, Follows, Calling
<1>3. CASE Stop \/ RefuseUnload \/ ShowDialog
           \/ (\E b \in Benchmarks : LaunchBenchmark(b))
           \/ (\E l \in Loads : Load(l))
           \/ (\E r \in Responses : Send(r) /\ ~isInstanceLoaded)
  <2>1. UNCHANGED <<objects, response, inside>> /\ Done
    BY <1>3 DEF Stop, RefuseUnload, ShowDialog, LaunchBenchmark, Load, Send
  <2>2. cancelled \subseteq cancelled'
    BY <1>3 DEF Stop, RefuseUnload, ShowDialog, LaunchBenchmark, Load, Send, WithCancelled,
       jobs
  <2> QED
    BY <1>2, <2>1, <2>2, HeardKept DEF objects
<1>4. CASE Unload \/ Forget
  <2>1. UNCHANGED <<response, inside>> /\ cancelled \subseteq cancelled'
    BY <1>4 DEF Unload, UnloadStopsAll, Forget, WithCancelled, jobs
  <2>2. \A r \in Responses : ~Listening(r)'
    <3>1. CASE Unload
      <4>1. cancelled' = cancelled \cup ({responseGenerationJob, modelInitJob} \ {Nobody})
        BY <3>1 DEF Unload, UnloadStopsAll, WithCancelled
      <4> SUFFICES ASSUME NEW r \in Responses, Listening(r)' PROVE FALSE
        OBVIOUS
      <4>2. Listening(r)
        BY <2>1 DEF Listening
      <4>3. r = responseGenerationJob /\ r # Nobody
        BY <4>2, SmolLMManagerAssumption DEF OneListens
      <4> QED
        BY <4>1, <4>3 DEF Listening
    <3>2. CASE Forget
      BY <2>1, <3>2 DEF Forget, HeardInv, Listening
    <3> QED
      BY <1>4, <3>1, <3>2
  <2> QED
    BY <2>1, <2>2 DEF HeardInv, HeardLives
<1>5. ASSUME NEW r \in Responses, Send(r), isInstanceLoaded PROVE HeardInv'
  <2>1. /\ UNCHANGED <<objects, inside>> /\ Done
        /\ response[r] = "none"
        /\ response' = [response EXCEPT ![r] = "launched"]
        /\ cancelled \subseteq cancelled'
    BY <1>5 DEF Send, GetResponse, WithCancelled
  <2>2. /\ response'[r] = "launched"
        /\ \A q \in Responses \ {r} : response'[q] = response[q]
    BY <2>1 DEF Types, TypeOK
  <2>3. UNCHANGED <<native, nativePtr>> /\ Usable(nativePtr)'
    BY <1>5, <2>1 DEF ReadyInv, PointerLives, Usable, objects
  <2>4. \A q \in Responses \ {r} : Listening(q)' => Listening(q)
    BY <2>1, <2>2 DEF Listening
  <2>5. inside'[r] = Nobody
    BY <2>1 DEF HeardInv
  <2>6. HeardLives'
    BY <2>1, <2>3, <2>4, <2>5 DEF HeardInv, HeardLives
  <2>7. \A q \in Responses : response'[q] = "none" => inside'[q] = Nobody
    BY <2>1, <2>2 DEF HeardInv
  <2> QED
    BY <1>2, <2>1, <2>6, <2>7 DEF HeardInv
<1> QED
  BY <1>3, <1>4, <1>5 DEF MainStep

(* A native call works on the instance the pointer is at when it begins.   *)
LEMMA InsideEffect ==
  ASSUME Types, NEW r \in Responses, ResponseStep(r)
  PROVE  /\ inside'[r] \in {inside[r], nativePtr, Nobody}
         /\ response'[r] # "none"
<1>1. CASE Crash(r)
  <2>1. response[r] # "none"
    BY ResponseStepEffect DEF ResponseEffect, Words
  <2> QED
    BY <1>1, <2>1 DEF Crash
<1>2. CASE Enter(r) /\ ~Crash(r)
  BY <1>2 DEF Enter, Goes, Types, TypeOK, Callers
<1>3. CASE StartCompletion(r) \/ CompletionLoop(r) \/ StopCompletion(r)
  <2>1. PICK o \in {native'[inside[r]]}, to \in {"loop", "failed", "emit", "stop", "save"} :
          Crash(r) \/ (Goes(r, to) /\ inside' = [inside EXCEPT ![r] = Nobody])
    BY <1>3 DEF StartCompletion, CompletionLoop, StopCompletion, Leave
  <2> QED
    BY <1>1, <2>1 DEF Goes, Types, TypeOK, Callers
<1>4. CASE /\ ~Crash(r)
           /\ \/ Begin(r) \/ Partial(r) \/ Resume(r) \/ Save(r) \/ Deliver(r) \/ DeliverCancelled(r)
              \/ Caught(r) \/ Report(r)
  <2>1. inside' = inside
    BY <1>4 DEF Begin, Partial, Resume, Save, Deliver, DeliverCancelled, Caught, Report, Quiet
  <2>2. PICK to \in {"ended", "start", "caught", "failed", "back", "loop", "deliver",
                           "delivered", "report"} : Goes(r, to)
    BY <1>4 DEF Begin, Partial, Resume, Save, Deliver, DeliverCancelled, Caught, Report
  <2> QED
    BY <2>1, <2>2 DEF Goes, Types, TypeOK
<1> QED
  BY <1>1, <1>2, <1>3, <1>4 DEF ResponseStep

LEMMA HeardLivesStep ==
  ASSUME Types, OneListens, ReadyInv, HeardInv, [Next]_vars
  PROVE  HeardInv'
<1>1. CASE UNCHANGED vars
  BY <1>1, HeardKept DEF vars, objects, jobs, Calling
<1>2. CASE Events
  <2>1. UNCHANGED <<objects, jobs, response, inside>> /\ ~Calling("forget")'
    BY <1>2, EventsEffect
  <2> QED
    BY <2>1, HeardKept DEF objects, jobs
<1>3. CASE MainStep
  BY <1>3, HeardLivesMainStep
<1>4. ASSUME NEW l \in Loads, LoadStep(l) PROVE HeardInv'
  <2>1. /\ UNCHANGED <<jobs, response, inside>>
        /\ UNCHANGED main \/ (main = <<>> /\ main' = <<"send">>)
    BY <1>4, LoadStepEffect
  <2>2. Calling("forget")' = Calling("forget")
    BY <2>1 DEF Calling
  <2>3. CASE LoadReturn(l)
    <3>1. native' = [native EXCEPT ![l] = Loaded] /\ nativePtr' = l
      BY <2>3 DEF LoadReturn
    <3>2. native'[l].alive /\ \A k \in Loads \ {l} : native'[k] = native[k]
      BY <3>1, BlankType DEF Types, TypeOK
    <3>3. Usable(nativePtr)'
      BY <3>1, <3>2, SmolLMManagerAssumption DEF Usable
    <3> QED
      BY <2>1, <2>2, <3>2, <3>3, HeardKept DEF jobs
  <2>4. CASE ~LoadReturn(l)
    <3>1. UNCHANGED nativePtr /\ SameLives
      BY <1>4, <2>4, ProvidingTouches DEF LoadStep, LoadCancelled, LoadBegin, LoadThrow,
         LoadSuccess, LoadError, Providing, objects, SameLives
    <3> QED
      BY <2>1, <2>2, <3>1, HeardKept DEF SameLives, jobs
  <2> QED
    BY <2>3, <2>4
<1>5. ASSUME NEW r \in Responses, ResponseStep(r) PROVE HeardInv'
  <2>1. /\ SameLives
        /\ UNCHANGED <<nativePtr, jobs, main>>
        /\ \A q \in Responses \ {r} : response'[q] = response[q] /\ inside'[q] = inside[q]
        /\ response[r] \notin {"none", "ended"}
    BY <1>5, ResponseStepEffect DEF ResponseEffect, Bystanders, Places, Words, Callers
  <2>2. inside'[r] \in {inside[r], nativePtr, Nobody} /\ response'[r] # "none"
    BY <1>5, InsideEffect
  <2>3. \A q \in Responses : Listening(q)' => Listening(q)
    BY <2>1 DEF Listening, jobs
  <2>4. Usable(nativePtr) => Usable(nativePtr)'
    BY <2>1 DEF Usable, SameLives, Types, TypeOK
  <2>5. ASSUME NEW q \in Responses, Listening(q)', inside'[q] # Nobody
        PROVE  native'[inside'[q]].alive
    <3>1. Usable(nativePtr) /\ (inside[q] # Nobody => native[inside[q]].alive)
      BY <2>3, <2>5 DEF HeardInv, HeardLives
    <3>2. inside'[q] \in {inside[q], nativePtr} \ {Nobody}
      BY <2>1, <2>2, <2>5
    <3>3. inside'[q] \in Loads /\ native[inside'[q]].alive
      BY <3>1, <3>2 DEF Usable, Types, TypeOK, Callers
    <3> QED
      BY <2>1, <3>3 DEF SameLives
  <2>6. HeardLives'
    BY <2>3, <2>4, <2>5 DEF HeardInv, HeardLives
  <2>7. Calling("forget")' = Calling("forget")
    BY <2>1 DEF Calling
  <2> QED
    BY <2>1, <2>2, <2>3, <2>6, <2>7 DEF HeardInv
<1>6. ASSUME NEW b \in Benchmarks, BenchmarkStep(b) PROVE HeardInv'
  <2>1. SameLives /\ UNCHANGED <<nativePtr, jobs, response, main>>
    BY <1>6, BenchmarkEffect
  <2>2. \A r \in Responses : inside'[r] = inside[r]
    <3>1. b \notin Responses
      BY SmolLMManagerAssumption
    <3> QED
      BY <1>6, <3>1 DEF BenchmarkStep, BenchmarkEnter, BenchmarkLeave, Types, TypeOK, Callers
  <2>3. Calling("forget")' = Calling("forget")
    BY <2>1 DEF Calling
  <2> QED
    BY <2>1, <2>2, <2>3, HeardKept DEF SameLives, jobs
<1> QED
  BY <1>1, <1>2, <1>3, <1>4, <1>5, <1>6 DEF Next, BenchmarkStep

(* For a generation that has not been told to stop the pointer is at an    *)
(* instance that lives until its reply is shown, whatever loads replace    *)
(* the instance and whatever unloads are refused or come between.          *)
THEOREM HeardWorksOnLive == Spec => []HeardLives
<1>1. Init => HeardInv
  BY DEF Init, HeardInv, HeardLives, Listening, Calling, Callers
<1>2. Types /\ OneListens /\ ReadyInv /\ HeardInv /\ [Next]_vars => HeardInv'
  BY HeardLivesStep
<1>3. HeardInv => HeardLives
  BY DEF HeardInv
<1>4. Types /\ ReadyInv /\ [Next]_vars => ReadyInv'
  BY ReadyStep
<1> QED
  BY <1>1, <1>2, <1>3, <1>4, ReadyInit, SmolTypes, OneHeard, PTL DEF Spec

------------------------------------------------------------------------------
(* The chat of a reply.  If there is a model for the chat on the screen,   *)
(* it is the manager's chat, but for the time in which a load for another  *)
(* one is still ahead; and who changes the screen to another chat stops    *)
(* the generation first.                                                   *)

ChatFollows ==
  shownChat \in withModel => chat \in {shownChat, Nobody} \/ LoadAhead(main)

NobodysChat ==
  chat = Nobody =>
    /\ ~isInstanceLoaded
    /\ \A l \in Loads : ~Running(l)
    /\ \A r \in Responses : ~Listening(r)

AskedHere ==
  \A r \in Responses :
    Listening(r) => /\ r \notin adrift => asked[r] = chat
                    /\ asked[r] = shownChat \/ Calling("stop")

SavedThere ==
  \A r \in Responses :
    response[r] = "deliver" /\ r \notin cancelled \cup adrift => saved[r] = asked[r]

ReplyInv == ChatFollows /\ NobodysChat /\ AskedHere /\ SavedThere

(* A step that starts nothing and leaves the chats alone. *)
LEMMA ReplyKept ==
  ASSUME Types, ReplyInv,
         UNCHANGED <<chat, chatVars, response, notes>>,
         cancelled \subseteq cancelled',
         isInstanceLoaded' => isInstanceLoaded,
         \A l \in Loads : Running(l)' => Running(l),
         LoadAhead(main) => LoadAhead(main'),
         Calling("stop") => Calling("stop")' \/ (\A r \in Responses : ~Listening(r)')
  PROVE  ReplyInv'
<1>1. UNCHANGED <<saved, asked, adrift, shownChat, withModel>>
  BY DEF notes, chatVars
<1>2. \A r \in Responses : Listening(r)' => Listening(r)
  BY DEF Listening
<1>3. ChatFollows' /\ NobodysChat'
  BY <1>1, <1>2 DEF ReplyInv, ChatFollows, NobodysChat
<1>4. AskedHere'
  BY <1>1, <1>2 DEF ReplyInv, AskedHere
<1>5. SavedThere'
  BY <1>1 DEF ReplyInv, SavedThere
<1> QED
  BY <1>3, <1>4, <1>5 DEF ReplyInv

LEMMA ReplyMainStep ==
  ASSUME Types, OneListens, ReadyInv, ReplyInv, MainStep
  PROVE  ReplyInv'
<1>1. main # <<>> /\ main \in Queues /\ Follows(main)
  BY CallsFollow DEF MainStep, Stop, RefuseUnload, Unload, Forget, ShowDialog, LaunchBenchmark, Load,
     Send, Calling, Types
<1>2. CASE Stop
  <2>1. /\ UNCHANGED <<chat, chatVars, response, responseGenerationJob, notes,
                       isInstanceLoaded, load>>
        /\ cancelled' = cancelled \cup ({responseGenerationJob} \ {Nobody})
        /\ Done /\ Head(main) = "stop"
    BY <1>2 DEF Stop, WithCancelled, Calling, loadVars
  <2>2. \A l \in Loads : Running(l)' => Running(l)
    BY <2>1 DEF Running
  <2>3. LoadAhead(main) => LoadAhead(main')
    BY <1>1, <2>1 DEF Follows, Done
  <2>4. \A r \in Responses : ~Listening(r)'
    <3> SUFFICES ASSUME NEW r \in Responses, Listening(r)' PROVE FALSE
      OBVIOUS
    <3>1. Listening(r)
      BY <2>1 DEF Listening
    <3>2. r = responseGenerationJob /\ r # Nobody
      BY <3>1, SmolLMManagerAssumption DEF OneListens
    <3> QED
      BY <2>1, <3>2 DEF Listening
  <2> QED
    BY <2>1, <2>2, <2>3, <2>4, ReplyKept
<1>3. CASE RefuseUnload \/ Forget \/ (\E b \in Benchmarks : LaunchBenchmark(b))
  <2>1. /\ UNCHANGED <<chat, chatVars, response, notes, isInstanceLoaded, load, cancelled>>
        /\ Done /\ Head(main) \notin {"load", "reload", "stop"}
    BY <1>3 DEF RefuseUnload, Forget, LaunchBenchmark, Calling, flags, jobs, screen,
       loadVars
  <2>2. \A l \in Loads : Running(l)' => Running(l)
    BY <2>1 DEF Running
  <2>3. LoadAhead(main) => LoadAhead(main')
    BY <1>1, <2>1 DEF Follows, Done
  <2>4. ~Calling("stop")
    BY <2>1 DEF Calling
  <2> QED
    BY <2>1, <2>2, <2>3, <2>4, ReplyKept
<1>4. CASE Unload
  <2>1. /\ UNCHANGED <<response, responseGenerationJob, modelInitJob, load, notes>>
        /\ cancelled' = cancelled \cup ({responseGenerationJob, modelInitJob} \ {Nobody})
        /\ isInstanceLoaded' = FALSE /\ chat' = Nobody
    BY <1>4 DEF Unload, UnloadStopsAll, Unloaded, WithCancelled, loadVars
  <2>2. \A r \in Responses : ~Listening(r)'
    <3> SUFFICES ASSUME NEW r \in Responses, Listening(r)' PROVE FALSE
      OBVIOUS
    <3>1. Listening(r)
      BY <2>1 DEF Listening
    <3>2. r = responseGenerationJob /\ r # Nobody
      BY <3>1, SmolLMManagerAssumption DEF OneListens
    <3> QED
      BY <2>1, <3>2 DEF Listening
  <2>3. \A l \in Loads : ~Running(l)'
    <3> SUFFICES ASSUME NEW l \in Loads, Running(l)' PROVE FALSE
      OBVIOUS
    <3>1. Running(l)
      BY <2>1 DEF Running
    <3>2. l = modelInitJob /\ l # Nobody
      BY <3>1, SmolLMManagerAssumption DEF ReadyInv, OneLoads
    <3> QED
      BY <2>1, <3>2 DEF Running
  <2>4. ChatFollows' /\ NobodysChat' /\ AskedHere'
    BY <2>1, <2>2, <2>3 DEF ChatFollows, NobodysChat, AskedHere
  <2>5. SavedThere'
    BY <2>2 DEF SavedThere, Listening
  <2> QED
    BY <2>4, <2>5 DEF ReplyInv
<1>7. CASE ShowDialog
  <2>1. /\ UNCHANGED <<chat, shownChat, withModel, response, notes, isInstanceLoaded, load,
                       cancelled>>
        /\ shownChat \notin withModel
        /\ Done /\ Head(main) \in {"load", "reload"}
    BY <1>7 DEF ShowDialog, Calling, flags, jobs, screen, chatVars, loadVars
  <2>2. /\ \A l \in Loads : Running(l)' => Running(l)
        /\ \A r \in Responses : Listening(r)' => Listening(r)
    BY <2>1 DEF Running, Listening
  <2>3. ~Calling("stop")
    BY <2>1 DEF Calling
  <2>4. ChatFollows' /\ NobodysChat'
    BY <2>1, <2>2 DEF ReplyInv, ChatFollows, NobodysChat
  <2>5. AskedHere' /\ SavedThere'
    BY <2>1, <2>2, <2>3 DEF ReplyInv, AskedHere, SavedThere, notes
  <2> QED
    BY <2>4, <2>5 DEF ReplyInv
<1>5. ASSUME NEW l \in Loads, Load(l) PROVE ReplyInv'
  <2>1. /\ UNCHANGED <<response, notes, shownChat, withModel>>
        /\ chat' = shownChat
        /\ cancelled \subseteq cancelled'
        /\ Done /\ Head(main) \in {"load", "reload"}
    BY <1>5 DEF Load, WithCancelled, Calling, chatVars
  <2>2. \A r \in Responses : Listening(r)' => Listening(r)
    BY <2>1 DEF Listening
  <2>3. ~Calling("stop")
    BY <2>1 DEF Calling
  <2>4. chat' # Nobody
    BY <2>1, SmolLMManagerAssumption DEF Types, TypeOK
  <2>5. ChatFollows' /\ NobodysChat'
    BY <2>1, <2>4 DEF ChatFollows, NobodysChat
  <2>6. AskedHere'
    BY <2>1, <2>2, <2>3 DEF ReplyInv, AskedHere, notes
  <2>7. SavedThere'
    BY <2>1 DEF ReplyInv, SavedThere, notes
  <2> QED
    BY <2>5, <2>6, <2>7 DEF ReplyInv
<1>6. ASSUME NEW r \in Responses, Send(r) PROVE ReplyInv'
  <2>1. /\ UNCHANGED <<chat, shownChat, withModel, isInstanceLoaded, load, saved>>
        /\ asked' = [asked EXCEPT ![r] = shownChat]
        /\ adrift' = IF shownChat \in withModel THEN adrift \ {r} ELSE adrift \cup {r}
        /\ response[r] = "none"
        /\ Head(main) = "send" /\ Done
        /\ cancelled \subseteq cancelled'
    BY <1>6 DEF Send, GetResponse, WithCancelled, Calling, flags, chatVars, loadVars
  <2>2. /\ \A q \in Responses \ {r} : asked'[q] = asked[q]
        /\ asked'[r] = shownChat
        /\ \A q \in Responses \ {r} : q \in adrift' <=> q \in adrift
        /\ r \notin adrift' => shownChat \in withModel
    BY <2>1 DEF Types, TypeOK
  <2>3. main = <<"send">>
    BY <1>1, <2>1 DEF Queues
  <2>4. shownChat \in withModel => chat \in {shownChat, Nobody}
    BY <2>3 DEF ReplyInv, ChatFollows, LoadAhead
  <2>5. ~Calling("stop")
    BY <2>1 DEF Calling
  <2>6. \A l \in Loads : Running(l)' => Running(l)
    BY <2>1 DEF Running
  <2>7. CASE ~isInstanceLoaded
    <3>1. UNCHANGED <<cancelled, response>>
      BY <1>6, <2>7 DEF Send
    <3>2. \A q \in Responses : Listening(q)' => Listening(q) /\ q # r
      BY <2>1, <3>1 DEF Listening
    <3>3. ChatFollows' /\ NobodysChat'
      BY <2>1, <2>4, <2>6, <3>2 DEF ReplyInv, ChatFollows, NobodysChat
    <3>4. AskedHere'
      BY <2>1, <2>2, <2>5, <3>2 DEF ReplyInv, AskedHere
    <3>5. SavedThere'
      BY <2>1, <2>2, <3>1 DEF ReplyInv, SavedThere
    <3> QED
      BY <3>3, <3>4, <3>5 DEF ReplyInv
  <2>8. CASE isInstanceLoaded
    <3>1. response' = [response EXCEPT ![r] = "launched"] /\ responseGenerationJob' = r
      BY <1>6, <2>8 DEF Send, GetResponse
    <3>2. /\ response'[r] = "launched"
          /\ \A q \in Responses \ {r} : response'[q] = response[q]
      BY <3>1 DEF Types, TypeOK
    <3>3. OneListens'
      BY <1>6, HeardMainStep DEF MainStep
    <3>4. \A q \in Responses : Listening(q)' => q = r
      BY <3>1, <3>3 DEF OneListens
    <3>5. chat # Nobody /\ (shownChat \in withModel => chat = shownChat)
      BY <2>4, <2>8, SmolLMManagerAssumption DEF ReplyInv, NobodysChat
    <3>6. ChatFollows' /\ NobodysChat'
      BY <2>1, <3>5 DEF ChatFollows, NobodysChat
    <3>7. AskedHere'
      BY <2>1, <2>2, <3>4, <3>5 DEF AskedHere
    <3>8. SavedThere'
      BY <2>1, <2>2, <3>2 DEF ReplyInv, SavedThere
    <3> QED
      BY <3>6, <3>7, <3>8 DEF ReplyInv
  <2> QED
    BY <2>7, <2>8
<1> QED
  BY <1>2, <1>3, <1>4, <1>5, <1>6, <1>7 DEF MainStep

LEMMA ReplyResponseStep ==
  ASSUME Types, OneListens, ReplyInv, NEW r \in Responses, ResponseEffect(r)
  PROVE  ReplyInv'
<1>1. /\ UNCHANGED <<chat, isInstanceLoaded, cancelled, load, asked, adrift, main>>
      /\ \A q \in Responses \ {r} : response'[q] = response[q] /\ saved'[q] = saved[q]
  BY DEF ResponseEffect, Bystanders, jobs, loadVars
<1>2. response[r] \notin {"none", "ended"} /\ Saves(r) /\ Shows(r)
  BY DEF ResponseEffect, Words
<1>3. \A q \in Responses : Listening(q)' => Listening(q)
  BY <1>1, <1>2 DEF Listening
<1>4. \A l \in Loads : Running(l)' = Running(l)
  BY <1>1 DEF Running
<1>5. Calling("stop")' = Calling("stop") /\ LoadAhead(main)' = LoadAhead(main)
  BY <1>1 DEF Calling, LoadAhead
<1>6. NobodysChat'
  BY <1>1, <1>3, <1>4 DEF ReplyInv, NobodysChat
<1>7. SavedThere'
  <2> SUFFICES ASSUME NEW q \in Responses, response'[q] = "deliver",
                      q \notin cancelled \cup adrift
               PROVE  saved'[q] = asked'[q]
    BY <1>1 DEF SavedThere
  <2>1. CASE q # r
    BY <1>1, <2>1 DEF ReplyInv, SavedThere
  <2>2. CASE q = r
    <3>1. Listening(r)
      BY <1>2, <2>2 DEF Listening
    <3>2. asked[r] = chat
      BY <2>2, <3>1 DEF ReplyInv, AskedHere
    <3> QED
      BY <1>1, <1>2, <2>2, <3>2 DEF Saves, ReplyInv, SavedThere
  <2> QED
    BY <2>1, <2>2
<1>8. CASE UNCHANGED chatVars
  <2>1. UNCHANGED <<shownChat, withModel>>
    BY <1>8 DEF chatVars
  <2>2. ChatFollows'
    BY <1>1, <1>5, <2>1 DEF ReplyInv, ChatFollows
  <2>3. AskedHere'
    BY <1>1, <1>3, <1>5, <2>1 DEF ReplyInv, AskedHere
  <2> QED
    BY <1>6, <1>7, <2>2, <2>3 DEF ReplyInv
<1>9. CASE /\ response[r] = "deliver" /\ r \notin cancelled
           /\ shownChat' = asked[r]
           /\ withModel' = IF r \in adrift THEN withModel \ {asked[r]}
                           ELSE withModel \cup {asked[r]}
           /\ response'[r] = "delivered"
  <2>1. Listening(r)
    BY <1>9 DEF Listening
  <2>2. r \notin adrift => asked[r] = chat
    BY <2>1 DEF ReplyInv, AskedHere
  <2>3. ChatFollows'
    BY <1>1, <1>9, <2>2 DEF ChatFollows
  <2>4. \A q \in Responses : Listening(q)' => q = r
    BY <1>3, <2>1 DEF OneListens
  <2>5. AskedHere'
    BY <1>1, <1>9, <2>2, <2>4 DEF AskedHere
  <2> QED
    BY <1>6, <1>7, <2>3, <2>5 DEF ReplyInv
<1> QED
  BY <1>2, <1>8, <1>9 DEF Shows

LEMMA ReplyStep ==
  ASSUME Types, OneListens, ReadyInv, ReplyInv, [Next]_vars
  PROVE  ReplyInv'
<1>1. CASE UNCHANGED vars
  <2>1. UNCHANGED <<chat, chatVars, response, notes, cancelled, isInstanceLoaded, load,
                    main>>
    BY <1>1 DEF vars, flags, jobs, loadVars, screen
  <2>2. /\ \A l \in Loads : Running(l)' => Running(l)
        /\ LoadAhead(main) => LoadAhead(main')
        /\ Calling("stop") => Calling("stop")'
    BY <2>1 DEF Running, Calling
  <2> QED
    BY <2>1, <2>2, ReplyKept
<1>2. CASE Events
  <2>1. /\ main = <<>>
        /\ UNCHANGED <<chat, isInstanceLoaded, cancelled, load, response, saved, asked,
                       adrift>>
        /\ shownChat' = shownChat \/ Calling("stop")'
        /\ UNCHANGED <<shownChat, withModel>> \/ LoadAhead(main')
    BY <1>2, EventsEffect DEF flags, jobs, notes, loadVars, chatVars
  <2>2. ~LoadAhead(main) /\ ~Calling("stop")
    BY <2>1 DEF LoadAhead, Calling
  <2>3. /\ \A l \in Loads : Running(l)' => Running(l)
        /\ \A r \in Responses : Listening(r)' => Listening(r)
    BY <2>1 DEF Running, Listening
  <2>4. ChatFollows'
    BY <2>1, <2>2 DEF ReplyInv, ChatFollows
  <2>5. NobodysChat'
    BY <2>1, <2>3 DEF ReplyInv, NobodysChat
  <2>6. AskedHere'
    BY <2>1, <2>2, <2>3 DEF ReplyInv, AskedHere
  <2>7. SavedThere'
    BY <2>1 DEF ReplyInv, SavedThere
  <2> QED
    BY <2>4, <2>5, <2>6, <2>7 DEF ReplyInv
<1>3. CASE MainStep
  BY <1>3, ReplyMainStep
<1>4. ASSUME NEW l \in Loads, LoadStep(l) PROVE ReplyInv'
  <2>1. /\ UNCHANGED <<chat, cancelled, response, saved, asked, adrift, shownChat, withModel>>
        /\ \A k \in Loads \ {l} : load'[k] = load[k]
        /\ load[l] \notin {"none", "ended"}
        /\ UNCHANGED main \/ (main = <<>> /\ main' = <<"send">>)
    BY <1>4, LoadStepEffect DEF jobs, notes, chatVars
  <2>2. \A k \in Loads : Running(k)' => Running(k)
    BY <2>1 DEF Running
  <2>3. \A r \in Responses : Listening(r)' = Listening(r)
    BY <2>1 DEF Listening
  <2>4. isInstanceLoaded' => isInstanceLoaded \/ Running(l)
    BY <1>4, ProvidingTouches DEF LoadStep, LoadCancelled, LoadBegin, LoadReturn,
       LoadThrow, LoadSuccess, LoadError, Providing, Loading, flags, Running
  <2>5. Calling("stop")' = Calling("stop") /\ LoadAhead(main)' = LoadAhead(main)
    BY <2>1 DEF Calling, LoadAhead
  <2>6. ChatFollows'
    BY <2>1, <2>5 DEF ReplyInv, ChatFollows
  <2>7. NobodysChat'
    BY <2>1, <2>2, <2>3, <2>4 DEF ReplyInv, NobodysChat
  <2>8. AskedHere'
    BY <2>1, <2>3, <2>5 DEF ReplyInv, AskedHere
  <2>9. SavedThere'
    BY <2>1 DEF ReplyInv, SavedThere
  <2> QED
    BY <2>6, <2>7, <2>8, <2>9 DEF ReplyInv
<1>5. ASSUME NEW r \in Responses, ResponseStep(r) PROVE ReplyInv'
  BY <1>5, ResponseStepEffect, ReplyResponseStep
<1>6. ASSUME NEW b \in Benchmarks, BenchmarkStep(b) PROVE ReplyInv'
  <2>1. UNCHANGED <<chat, chatVars, response, notes, cancelled, isInstanceLoaded, load,
                    main>>
    BY <1>6, BenchmarkEffect DEF flags, jobs, loadVars, screen
  <2>2. /\ \A l \in Loads : Running(l)' => Running(l)
        /\ LoadAhead(main) => LoadAhead(main')
        /\ Calling("stop") => Calling("stop")'
    BY <2>1 DEF Running, Calling
  <2> QED
    BY <2>1, <2>2, ReplyKept
<1> QED
  BY <1>1, <1>2, <1>3, <1>4, <1>5, <1>6 DEF Next, BenchmarkStep

LEMMA ReplyInit == Init => ReplyInv
BY DEF Init, ReplyInv, ChatFollows, NobodysChat, AskedHere, SavedThere, Running, Listening,
   Calling

LEMMA ReplyInvHolds ==
  ASSUME ReplyInv
  PROVE  ReplyFindsItsChat
<1> SUFFICES ASSUME NEW r \in Responses,
                    response[r] = "deliver", r \notin cancelled, main = <<>>
             PROVE  asked[r] = shownChat /\ (r \notin adrift => saved[r] = asked[r])
  BY DEF ReplyFindsItsChat
<1>1. Listening(r) /\ ~Calling("stop")
  BY DEF Listening, Calling
<1> QED
  BY <1>1 DEF ReplyInv, AskedHere, SavedThere

(* A reply that is about to be shown was asked in the chat on the screen,  *)
(* and is stored in that chat unless it was asked without a model.         *)
THEOREM RepliesFindTheirChat == Spec => []ReplyFindsItsChat
<1>1. Types /\ ReadyInv /\ [Next]_vars => ReadyInv'
  BY ReadyStep
<1>2. Types /\ OneListens /\ ReadyInv /\ ReplyInv /\ [Next]_vars => ReplyInv'
  BY ReplyStep
<1>3. ReplyInv => ReplyFindsItsChat
  BY ReplyInvHolds
<1> QED
  BY <1>1, <1>2, <1>3, ReadyInit, ReplyInit, OneHeard, SmolTypes, PTL DEF Spec
==============================================================================
