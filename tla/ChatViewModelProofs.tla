------------------------- MODULE ChatViewModelProofs -------------------------
(* Theorems about the chat engine, for any number of turns, loads and      *)
(* clears, any buffer size and any length of text.                         *)
EXTENDS ChatViewModel, FiniteSetTheorems, TLAPS

(* Adding to the short-term memory keeps its elements' type and its bound, *)
(* and what was added is at its end (MemoryManager.addToBuffer).           *)
LEMMA AddToBufferFacts ==
  ASSUME NEW S, NEW buf \in Seq(S), NEW x \in S
  PROVE  /\ AddToBuffer(buf, x) \in Seq(S)
         /\ Len(buf) <= MAX_BUFFER_SIZE =>
              Len(AddToBuffer(buf, x)) <= MAX_BUFFER_SIZE
         /\ Len(AddToBuffer(buf, x)) \in Nat \ {0}
         /\ AddToBuffer(buf, x)[Len(AddToBuffer(buf, x))] = x
<1>1. CASE Len(buf) >= MAX_BUFFER_SIZE
  <2>1. Len(buf) \in Nat \ {0}
    BY <1>1, BufferAssumption
  <2>2. /\ Tail(buf) \in Seq(S)
        /\ Len(Tail(buf)) = Len(buf) - 1
    BY <2>1
  <2>3. AddToBuffer(buf, x) = Append(Tail(buf), x)
    BY <1>1 DEF AddToBuffer
  <2>4. QED
    BY <2>1, <2>2, <2>3
<1>2. CASE ~(Len(buf) >= MAX_BUFFER_SIZE)
  <2>1. AddToBuffer(buf, x) = Append(buf, x)
    BY <1>2 DEF AddToBuffer
  <2>2. QED
    BY <1>2, <2>1, BufferAssumption
<1>3. QED
  BY <1>1, <1>2

(* What Remember does to the two variables of the short-term memory. *)
LEMMA RememberFacts ==
  ASSUME TypeOK, NEW t \in Turns, NEW s \in {"User", "Kaede"}, Remember(t, s)
  PROVE  /\ conversationBuffer' \in Seq(Remembered)
         /\ sessionMessageCount' \in Nat
         /\ HistoryBounded => HistoryBounded'
         /\ conversationBuffer' # <<>>
         /\ conversationBuffer'[Len(conversationBuffer')]
              = ConversationTurn(s, TRUE, t)
<1> DEFINE x == ConversationTurn(s, TRUE, t)
<1>1. x \in Remembered
  BY DEF ConversationTurn, Remembered
<1>2. conversationBuffer' = AddToBuffer(conversationBuffer, x)
  BY DEF Remember
<1>3. conversationBuffer \in Seq(Remembered)
  BY DEF TypeOK
<1> HIDE DEF x
<1>4. /\ AddToBuffer(conversationBuffer, x) \in Seq(Remembered)
      /\ Len(conversationBuffer) <= MAX_BUFFER_SIZE =>
           Len(AddToBuffer(conversationBuffer, x)) <= MAX_BUFFER_SIZE
      /\ Len(AddToBuffer(conversationBuffer, x)) \in Nat \ {0}
      /\ AddToBuffer(conversationBuffer, x)
           [Len(AddToBuffer(conversationBuffer, x))] = x
  BY <1>1, <1>3, AddToBufferFacts
<1>5. sessionMessageCount' \in Nat
  BY DEF Remember, TypeOK
<1>6. conversationBuffer' # <<>>
  BY <1>2, <1>4
<1>7. QED
  BY <1>2, <1>4, <1>5, <1>6 DEF HistoryBounded, x

(* The messages the chat composes are messages. *)
LEMMA TurnMessageFacts ==
  ASSUME NEW t \in Turns, NEW text \in Seq(Turns)
  PROVE  /\ UserMessage(t) \in Message
         /\ KaedeMessage(t, text) \in Message
         /\ ErrorMessage(t) \in Message
  BY DEF UserMessage, KaedeMessage, ErrorMessage, Message

(* The end of a turn. *)
LEMMA FinallyFacts ==
  ASSUME TypeOK, NEW t \in Turns, Finally(t)
  PROVE  /\ isTyping' \in BOOLEAN
         /\ currentResponse' \in Seq(Turns)
         /\ turn' \in [Turns -> TurnStates]
         /\ turn'[t] = "done"
         /\ \A u \in Turns \ {t} : turn'[u] = turn[u]
<1>1. isTyping' \in BOOLEAN
  BY DEF Finally
<1>2. currentResponse' \in Seq(Turns)
  BY DEF Finally
<1>3. QED
  BY <1>1, <1>2 DEF Finally, TypeOK, TurnStates

LEMMA SystemMessageFact ==
  ASSUME NEW k \in {"ready", "loading", "cleared"}
  PROVE  SystemMessage(k) \in Message
  BY DEF SystemMessage, Message

------------------------------------------------------------------------------
(* Type correctness.  A turn counts its tokens up to TextLen only because  *)
(* its position says how many it has sent, so the two are proved together. *)

TypeInv == TypeOK /\ TokensCounted

LEMMA TypeInit == Init => TypeInv
<1> SUFFICES ASSUME Init PROVE TypeOK /\ TokensCounted
  BY DEF TypeInv
<1> USE DEF Init
<1>1. /\ messages \in Seq(Message)
      /\ currentResponse \in Seq(Turns)
      /\ conversationBuffer \in Seq(Remembered)
      /\ local \in [Turns -> Seq(Turns)]
      /\ prompt \in [Turns -> Seq(Remembered)]
  OBVIOUS
<1>2. /\ isTyping \in BOOLEAN
      /\ isModelLoaded \in BOOLEAN
      /\ uiEnabled \in BOOLEAN
      /\ cleared \in BOOLEAN
  OBVIOUS
<1>3. /\ modelState \in ModelStates
      /\ loadProgress \in Progress
      /\ loader \in [Loaders -> LoaderStates]
      /\ at \in [Loaders -> Progress]
      /\ seen \in [Loaders -> Progress \cup {NotSeen}]
      /\ turn \in [Turns -> TurnStates]
  BY DEF ModelStates, Progress, LoaderStates, NotSeen, TurnStates
<1>4. /\ sessionMessageCount \in Nat
      /\ longTerm \subseteq Turns
      /\ sent \in [Turns -> 0..TextLen]
      /\ clears \in 0..MaxClears
  BY ChatAssumption
<1>5. TokensCounted
  BY DEF TokensCounted
<1>6. QED
  BY <1>1, <1>2, <1>3, <1>4, <1>5 DEF TypeOK

LEMMA TypeStep == TypeInv /\ [Next]_vars => TypeInv'
<1> SUFFICES ASSUME TypeOK, TokensCounted, [Next]_vars
             PROVE  TypeOK' /\ TokensCounted'
  BY DEF TypeInv
<1> USE DEF TypeOK, TokensCounted, vars, modelVars, memoryVars, streamVars,
            chatVars
<1>1. ASSUME NEW l \in Loaders, LoadStep(l)
      PROVE  TypeOK' /\ TokensCounted'
  <2>1. PICK p \in NextProgress(at[l]) :
          /\ loadProgress' = p
          /\ at' = [at EXCEPT ![l] = p]
          /\ loader' = [loader EXCEPT ![l] = IF p = 10 THEN "flag" ELSE "loading"]
    BY <1>1 DEF LoadStep
  <2>2. p \in Progress
    BY <2>1 DEF NextProgress, Progress
  <2>3. QED
    BY <1>1, <2>1, <2>2 DEF LoadStep, LoaderStates
<1>2. ASSUME NEW l \in Loaders, LoadFlag(l)
      PROVE  TypeOK' /\ TokensCounted'
  BY <1>2 DEF LoadFlag, LoaderStates
<1>3. ASSUME NEW l \in Loaders, Collect(l)
      PROVE  TypeOK' /\ TokensCounted'
  <2>1. messages' \in Seq(Message)
    <3>1. SystemMessage("ready") \in Message
      BY SystemMessageFact
    <3>2. QED
      <4>1. \/ messages' = Append(messages, SystemMessage("ready"))
            \/ messages' = messages
        BY <1>3 DEF Collect
      <4>2. messages \in Seq(Message)
        OBVIOUS
      <4> HIDE DEF TypeOK, TokensCounted
      <4>3. QED
        BY <3>1, <4>1, <4>2
  <2>2. modelState' \in ModelStates
    BY <1>3 DEF Collect, ModelStates
  <2>3. QED
    BY <1>3, <2>1, <2>2 DEF Collect, LoaderStates
<1>4. ASSUME NEW l \in Loaders, RetryModelLoad(l)
      PROVE  TypeOK' /\ TokensCounted'
  BY <1>4 DEF RetryModelLoad, LoaderStates, ModelStates
<1>5. ASSUME NEW t \in Turns, Send(t)
      PROVE  TypeOK' /\ TokensCounted'
  <2>1. messages' \in Seq(Message)
    BY <1>5, TurnMessageFacts DEF Send, UserMessage, Message
  <2>2. conversationBuffer' \in Seq(Remembered) /\ sessionMessageCount' \in Nat
    BY <1>5, RememberFacts DEF Send
  <2>3. QED
    BY <1>5, <2>1, <2>2 DEF Send, TurnStates
<1>6. ASSUME NEW t \in Turns, SendRefused(t)
      PROVE  TypeOK' /\ TokensCounted'
  BY <1>6, SystemMessageFact DEF SendRefused, TurnStates
<1>7. ASSUME NEW t \in Turns, BuildPrompt(t)
      PROVE  TypeOK' /\ TokensCounted'
  BY <1>7 DEF BuildPrompt, TurnStates
<1>8. ASSUME NEW t \in Turns, Generate(t)
      PROVE  TypeOK' /\ TokensCounted'
  <2>1. /\ UNCHANGED <<messages, isTyping, currentResponse, modelVars, memoryVars,
                      local, sent, uiEnabled, clears, cleared>>
        /\ prompt' = [prompt EXCEPT ![t] = <<>>]
    BY <1>8 DEF Generate
  <2>2. /\ turn[t] = "generate" \/ sent[t] = 0
        /\ \E s \in {"read", "return"} : turn' = [turn EXCEPT ![t] = s]
    BY <1>8 DEF Generate
  <2>3. sent[t] = 0
    BY <2>2
  <2>4. turn' \in [Turns -> TurnStates] /\ turn'[t] \in {"read", "return"}
        /\ \A u \in Turns \ {t} : turn'[u] = turn[u]
    BY <2>2 DEF TurnStates
  <2>5. sent[t] < TextLen
    BY <2>3, ChatAssumption
  <2>6. TypeOK'
    <3>1. prompt' \in [Turns -> Seq(Remembered)]
      BY <2>1
    <3>2. QED
      BY <2>1, <2>4, <3>1
  <2>7. TokensCounted'
    BY <2>1, <2>3, <2>4, <2>5
  <2>8. QED
    BY <2>6, <2>7
<1>9. ASSUME NEW t \in Turns, TokenRead(t)
      PROVE  TypeOK' /\ TokensCounted'
  BY <1>9 DEF TokenRead, TurnStates
<1>10. ASSUME NEW t \in Turns, TokenWrite(t)
       PROVE  TypeOK' /\ TokensCounted'
  <2>1. sent[t] \in 0..TextLen /\ sent[t] < TextLen
    BY <1>10 DEF TokenWrite
  <2>2. sent[t] + 1 \in 0..TextLen
    BY <2>1, ChatAssumption
  <2>3. currentResponse' \in Seq(Turns)
    BY <1>10 DEF TokenWrite
  <2>4. QED
    BY <1>10, <2>2, <2>3 DEF TokenWrite, MoreTokens, TurnStates
<1>11. ASSUME NEW t \in Turns, Reply(t)
       PROVE  TypeOK' /\ TokensCounted'
  <2>1. messages' \in Seq(Message)
    BY <1>11, TurnMessageFacts DEF Reply
  <2>2. conversationBuffer' \in Seq(Remembered) /\ sessionMessageCount' \in Nat
    BY <1>11, RememberFacts DEF Reply
  <2>3. /\ isTyping' \in BOOLEAN
        /\ currentResponse' \in Seq(Turns)
        /\ turn' \in [Turns -> TurnStates]
        /\ turn'[t] \in {"save", "done"}
        /\ \A u \in Turns \ {t} : turn'[u] = turn[u]
    <3>1. CASE Finally(t)
      BY <3>1, FinallyFacts
    <3>2. CASE /\ turn' = [turn EXCEPT ![t] = "save"]
               /\ UNCHANGED <<isTyping, currentResponse>>
      BY <3>2 DEF TurnStates
    <3>3. QED
      BY <1>11, <3>1, <3>2 DEF Reply
  <2>4. QED
    BY <1>11, <2>1, <2>2, <2>3 DEF Reply
<1>12. ASSUME NEW t \in Turns, Saved(t)
       PROVE  TypeOK' /\ TokensCounted'
  BY <1>12, FinallyFacts DEF Saved
<1>13. ASSUME NEW t \in Turns, Fail(t)
       PROVE  TypeOK' /\ TokensCounted'
  <2>1. messages' \in Seq(Message)
    BY <1>13, TurnMessageFacts DEF Fail, ShowError, ErrorMessage, Message
  <2>2. QED
    BY <1>13, <2>1, FinallyFacts DEF Fail
<1>14. ASSUME Recompose
       PROVE  TypeOK' /\ TokensCounted'
  BY <1>14 DEF Recompose, Enabled
<1>15. ASSUME ClearChat
       PROVE  TypeOK' /\ TokensCounted'
  <2>1. messages' \in Seq(Message)
    BY <1>15, SystemMessageFact DEF ClearChat
  <2>2. clears' \in 0..MaxClears
    BY <1>15, ChatAssumption DEF ClearChat
  <2>3. QED
    BY <1>15, <2>1, <2>2 DEF ClearChat
<1>16. ASSUME OnCleared
       PROVE  TypeOK' /\ TokensCounted'
  BY <1>16 DEF OnCleared
<1>17. CASE UNCHANGED vars
  BY <1>17
<1>18. QED
  BY <1>1, <1>2, <1>3, <1>4, <1>5, <1>6, <1>7, <1>8, <1>9, <1>10, <1>11, <1>12,
     <1>13, <1>14, <1>15, <1>16, <1>17 DEF Next, LoaderStep, TurnStep

(* Every variable keeps its type, for every number of turns and loads.     *)
THEOREM TypeCorrect == Spec => []TypeOK
<1>1. Spec => []TypeInv
  BY TypeInit, TypeStep, PTL DEF Spec
<1>2. QED
  BY <1>1, PTL DEF TypeInv

(* The type of every variable, with what it rests on. *)
LEMMA TypeInvariant == Spec => []TypeInv
  BY TypeInit, TypeStep, PTL DEF Spec

(* MemoryManager.addToBuffer's limit: the buffer never outgrows it. *)
THEOREM BufferBounded == Spec => []HistoryBounded
<1>1. Init => HistoryBounded
  BY BufferAssumption DEF Init, HistoryBounded
<1>2. TypeInv /\ HistoryBounded /\ [Next]_vars => HistoryBounded'
  <2> SUFFICES ASSUME TypeOK, HistoryBounded, [Next]_vars
               PROVE  HistoryBounded'
    BY DEF TypeInv
  <2>1. CASE \E t \in Turns : Remember(t, "User") \/ Remember(t, "Kaede")
    BY <2>1, RememberFacts
  <2>2. CASE UNCHANGED conversationBuffer
    BY <2>2 DEF HistoryBounded
  <2>3. CASE conversationBuffer' = <<>>
    BY <2>3, BufferAssumption DEF HistoryBounded
  <2>4. QED
    BY <2>1, <2>2, <2>3
    DEF Next, vars, memoryVars, chatVars, LoaderStep, LoadStep, LoadFlag, Collect,
        RetryModelLoad, Send, SendRefused, TurnStep, BuildPrompt, Generate,
        TokenRead, TokenWrite, Reply, Saved, Fail, Recompose, ClearChat, OnCleared
<1>3. QED
  BY <1>1, <1>2, TypeInvariant, PTL DEF Spec

------------------------------------------------------------------------------
(* The short-term memory and the transcript agree *)

(* A message c of the dialogue at place i of the transcript, with d later  *)
(* ones, against the buffer.                                               *)
Matches(c, m) == c.id = m.turn /\ (c.speaker = "User" <=> m.kind = "user")

(* What a message at the end does to the dialogue and to what comes after  *)
(* each of its places.                                                     *)
LEMMA DialogueFacts ==
  ASSUME NEW log \in Seq(Message)
  PROVE  /\ IsFiniteSet(Dialogue(log))
         /\ Cardinality(Dialogue(log)) \in Nat
         /\ \A i \in Dialogue(log) : Later(log, i) \in Nat
<1>1. IsFiniteSet(1..Len(log))
  BY FS_Interval
<1>2. IsFiniteSet(Dialogue(log))
  BY <1>1, FS_Subset DEF Dialogue
<1>3. ASSUME NEW i \in Dialogue(log)
      PROVE  Later(log, i) \in Nat
  <2>1. {j \in Dialogue(log) : j > i} \in SUBSET Dialogue(log)
    OBVIOUS
  <2>2. IsFiniteSet({j \in Dialogue(log) : j > i})
    BY <1>2, <2>1, FS_Subset
  <2>3. QED
    BY <2>2, FS_CardinalityType DEF Later
<1>4. QED
  BY <1>2, <1>3, FS_CardinalityType

LEMMA NoteAppended ==
  ASSUME NEW log \in Seq(Message), NEW m \in Message,
         m.kind \notin {"user", "reply"}
  PROVE  /\ Dialogue(Append(log, m)) = Dialogue(log)
         /\ \A i \in Dialogue(log) : /\ Append(log, m)[i] = log[i]
                                     /\ Later(Append(log, m), i) = Later(log, i)
<1> DEFINE new == Append(log, m)
<1>1. /\ Len(new) = Len(log) + 1
      /\ new[Len(log) + 1] = m
      /\ \A i \in 1..Len(log) : new[i] = log[i]
  OBVIOUS
<1> HIDE DEF new
<1>2. Dialogue(new) = Dialogue(log)
  BY <1>1 DEF Dialogue
<1>3. \A i \in Dialogue(log) : new[i] = log[i]
  BY <1>1 DEF Dialogue
<1>4. \A i \in Dialogue(log) : Later(new, i) = Later(log, i)
  BY <1>2 DEF Later
<1>5. QED
  BY <1>2, <1>3, <1>4 DEF new

LEMMA TurnAppended ==
  ASSUME NEW log \in Seq(Message), NEW m \in Message,
         m.kind \in {"user", "reply"}
  PROVE  /\ Dialogue(Append(log, m)) = Dialogue(log) \cup {Len(log) + 1}
         /\ Cardinality(Dialogue(Append(log, m))) = Cardinality(Dialogue(log)) + 1
         /\ Append(log, m)[Len(log) + 1] = m
         /\ Later(Append(log, m), Len(log) + 1) = 0
         /\ \A i \in Dialogue(log) : /\ Append(log, m)[i] = log[i]
                                     /\ Later(Append(log, m), i) = Later(log, i) + 1
<1> DEFINE new == Append(log, m)
           end == Len(log) + 1
<1>1. /\ Len(new) = end
      /\ new[end] = m
      /\ \A i \in 1..Len(log) : new[i] = log[i]
      /\ end \in Nat
  OBVIOUS
<1>2. \A i \in Dialogue(log) : i \in Nat /\ i < end
  BY DEF Dialogue
<1> HIDE DEF new
<1>3. Dialogue(new) = Dialogue(log) \cup {end}
  BY <1>1 DEF Dialogue
<1>4. \A i \in Dialogue(log) : new[i] = log[i]
  BY <1>1 DEF Dialogue
<1> HIDE DEF end
<1>5. IsFiniteSet(Dialogue(log))
  BY DialogueFacts
<1>6. Cardinality(Dialogue(new)) = Cardinality(Dialogue(log)) + 1
  <2>1. end \notin Dialogue(log)
    BY <1>1, <1>2
  <2>2. QED
    BY <1>3, <1>5, <2>1, FS_AddElement
<1>7. Later(new, end) = 0
  <2>1. {j \in Dialogue(new) : j > end} = {}
    BY <1>1, <1>2, <1>3
  <2>2. QED
    BY <2>1, FS_EmptySet DEF Later
<1>8. ASSUME NEW i \in Dialogue(log)
      PROVE  Later(new, i) = Later(log, i) + 1
  <2> DEFINE after == {j \in Dialogue(log) : j > i}
  <2>1. {j \in Dialogue(new) : j > i} = after \cup {end}
    BY <1>1, <1>2, <1>3
  <2>2. end \notin after
    BY <1>1, <1>2
  <2>3. IsFiniteSet(after)
    BY <1>5, FS_Subset
  <2> HIDE DEF after
  <2>4. Cardinality(after \cup {end}) = Cardinality(after) + 1
    BY <2>2, <2>3, FS_AddElement
  <2>5. QED
    BY <2>1, <2>4 DEF Later, after
<1>9. QED
  BY <1>1, <1>3, <1>4, <1>6, <1>7, <1>8 DEF new, end

(* Where addToBuffer leaves each turn of the buffer.                       *)
LEMMA AddToBufferPlaces ==
  ASSUME NEW S, NEW buf \in Seq(S), NEW x \in S, Len(buf) <= MAX_BUFFER_SIZE
  PROVE  LET new == AddToBuffer(buf, x)
             k   == Len(new)
         IN /\ k = IF Len(buf) < MAX_BUFFER_SIZE THEN Len(buf) + 1 ELSE MAX_BUFFER_SIZE
            /\ new[k] = x
            /\ \A d \in Nat : d + 1 < k => new[k - (d + 1)] = buf[Len(buf) - d]
<1>1. CASE Len(buf) >= MAX_BUFFER_SIZE
  <2>1. Len(buf) = MAX_BUFFER_SIZE /\ Len(buf) \in Nat \ {0}
    BY <1>1, BufferAssumption
  <2>2. AddToBuffer(buf, x) = Append(Tail(buf), x)
    BY <1>1 DEF AddToBuffer
  <2>3. /\ Tail(buf) \in Seq(S)
        /\ Len(Tail(buf)) = Len(buf) - 1
        /\ \A j \in 1..(Len(buf) - 1) : Tail(buf)[j] = buf[j + 1]
    BY <2>1
  <2> DEFINE rest == Tail(buf)
  <2> HIDE DEF rest
  <2>4. /\ Len(Append(rest, x)) = Len(buf)
        /\ Append(rest, x)[Len(buf)] = x
        /\ \A j \in 1..(Len(buf) - 1) : Append(rest, x)[j] = buf[j + 1]
    BY <2>1, <2>3 DEF rest
  <2>5. QED
    BY <2>1, <2>2, <2>4 DEF rest
<1>2. CASE ~(Len(buf) >= MAX_BUFFER_SIZE)
  <2>1. AddToBuffer(buf, x) = Append(buf, x)
    BY <1>2 DEF AddToBuffer
  <2>2. /\ Len(Append(buf, x)) = Len(buf) + 1
        /\ Append(buf, x)[Len(buf) + 1] = x
        /\ \A j \in 1..Len(buf) : Append(buf, x)[j] = buf[j]
    OBVIOUS
  <2>3. QED
    BY <1>2, <2>1, <2>2, BufferAssumption
<1>3. QED
  BY <1>1, <1>2

(* A message of the dialogue and what is remembered of it arrive together. *)
LEMMA DialogueRemembered ==
  ASSUME TypeOK, BufferIsRecentDialogue, NEW t \in Turns,
         NEW speaker \in {"User", "Kaede"}, Remember(t, speaker),
         NEW m \in Message, m.kind \in {"user", "reply"}, m.turn = t,
         speaker = "User" <=> m.kind = "user",
         messages' = Append(messages, m)
  PROVE  BufferIsRecentDialogue'
<1> DEFINE x == ConversationTurn(speaker, TRUE, t)
           n == Cardinality(Dialogue(messages))
           b == Len(conversationBuffer)
           k == Len(conversationBuffer')
<1>1. /\ messages \in Seq(Message)
      /\ conversationBuffer \in Seq(Remembered)
      /\ x \in Remembered
      /\ Matches(x, m)
  BY DEF TypeOK, ConversationTurn, Remembered, Matches
<1>2. /\ conversationBuffer' = AddToBuffer(conversationBuffer, x)
      /\ sessionMessageCount' = sessionMessageCount + 1
  BY DEF Remember
<1>3. /\ n \in Nat
      /\ sessionMessageCount = n
      /\ b = IF n < MAX_BUFFER_SIZE THEN n ELSE MAX_BUFFER_SIZE
      /\ \A i \in Dialogue(messages) : Later(messages, i) < b =>
           Matches(conversationBuffer[b - Later(messages, i)], messages[i])
      /\ \A i \in Dialogue(messages) : Later(messages, i) \in Nat
  BY <1>1, DialogueFacts DEF BufferIsRecentDialogue, Matches
<1> HIDE DEF x
<1>4. /\ k = IF b < MAX_BUFFER_SIZE THEN b + 1 ELSE MAX_BUFFER_SIZE
      /\ conversationBuffer'[k] = x
      /\ \A d \in Nat : d + 1 < k =>
           conversationBuffer'[k - (d + 1)] = conversationBuffer[b - d]
  <2>1. Len(conversationBuffer) <= MAX_BUFFER_SIZE
    BY <1>3, BufferAssumption
  <2> HIDE <1>3
  <2>2. QED
    BY <1>1, <1>2, <2>1, AddToBufferPlaces
<1> DEFINE end == Len(messages) + 1
<1>5. /\ Dialogue(messages') = Dialogue(messages) \cup {end}
      /\ Cardinality(Dialogue(messages')) = n + 1
      /\ messages'[end] = m
      /\ Later(messages', end) = 0
      /\ \A i \in Dialogue(messages) : /\ messages'[i] = messages[i]
                                       /\ Later(messages', i) = Later(messages, i) + 1
  BY <1>1, TurnAppended
<1> HIDE DEF n, b, k, end
<1>6. /\ sessionMessageCount' = Cardinality(Dialogue(messages'))
      /\ k = IF sessionMessageCount' < MAX_BUFFER_SIZE THEN sessionMessageCount'
                                                       ELSE MAX_BUFFER_SIZE
      /\ k \in Nat
  BY <1>2, <1>3, <1>4, <1>5, BufferAssumption
<1>7. ASSUME NEW i \in Dialogue(messages'), Later(messages', i) < k
      PROVE  Matches(conversationBuffer'[k - Later(messages', i)], messages'[i])
  <2>1. CASE i = end
    <3>1. Later(messages', i) = 0 /\ messages'[i] = m
      BY <1>5, <2>1
    <3>2. k - Later(messages', i) = k
      BY <1>6, <3>1
    <3>3. QED
      BY <1>1, <1>4, <3>1, <3>2
  <2>2. CASE i \in Dialogue(messages)
    <3>1. /\ Later(messages, i) \in Nat
          /\ Later(messages', i) = Later(messages, i) + 1
          /\ messages'[i] = messages[i]
      BY <1>3, <1>5, <2>2
    <3>2. Later(messages, i) < b
      BY <1>3, <1>4, <1>7, <3>1, BufferAssumption
    <3>3. conversationBuffer'[k - Later(messages', i)]
            = conversationBuffer[b - Later(messages, i)]
      BY <1>4, <1>7, <3>1
    <3>4. QED
      BY <1>3, <2>2, <3>1, <3>2, <3>3
  <2>3. QED
    BY <1>5, <2>1, <2>2
<1>8. QED
  BY <1>6, <1>7 DEF BufferIsRecentDialogue, Matches, k

(* A message outside the dialogue changes neither. *)
LEMMA NoteIgnored ==
  ASSUME TypeOK, BufferIsRecentDialogue, NEW m \in Message,
         m.kind \notin {"user", "reply"}, messages' = Append(messages, m),
         UNCHANGED <<conversationBuffer, sessionMessageCount>>
  PROVE  BufferIsRecentDialogue'
<1>1. messages \in Seq(Message)
  BY DEF TypeOK
<1>2. /\ Dialogue(messages') = Dialogue(messages)
      /\ \A i \in Dialogue(messages) : /\ messages'[i] = messages[i]
                                       /\ Later(messages', i) = Later(messages, i)
  BY <1>1, NoteAppended
<1>3. QED
  BY <1>2, ZenonT(60) DEF BufferIsRecentDialogue

LEMMA EmptyDialogue ==
  ASSUME NEW log \in Seq(Message),
         \A i \in 1..Len(log) : log[i].kind \notin {"user", "reply"}
  PROVE  Dialogue(log) = {} /\ Cardinality(Dialogue(log)) = 0
  BY FS_EmptySet DEF Dialogue

LEMMA DialogueStep == TypeInv /\ BufferIsRecentDialogue /\ [Next]_vars
                        => BufferIsRecentDialogue'
<1> SUFFICES ASSUME TypeOK, BufferIsRecentDialogue, [Next]_vars
             PROVE  BufferIsRecentDialogue'
  BY DEF TypeInv
<1>1. ASSUME NEW t \in Turns, Send(t)
      PROVE  BufferIsRecentDialogue'
  <2>1. UserMessage(t) \in Message
    BY DEF UserMessage, Message
  <2>2. messages' = Append(messages, UserMessage(t)) /\ Remember(t, "User")
    BY <1>1 DEF Send
  <2>3. UserMessage(t).kind = "user" /\ UserMessage(t).turn = t
    BY DEF UserMessage
  <2>4. QED
    BY <2>1, <2>2, <2>3, DialogueRemembered
<1>2. ASSUME NEW t \in Turns, Reply(t)
      PROVE  BufferIsRecentDialogue'
  <2> DEFINE m == KaedeMessage(t, currentResponse)
  <2>1. m \in Message
    BY TurnMessageFacts DEF TypeOK
  <2>2. messages' = Append(messages, m) /\ Remember(t, "Kaede")
    BY <1>2 DEF Reply
  <2>3. m.kind = "reply" /\ m.turn = t
    BY DEF KaedeMessage
  <2> HIDE DEF m
  <2>4. QED
    BY <2>1, <2>2, <2>3, DialogueRemembered
<1>3. ASSUME NEW t \in Turns, SendRefused(t) \/ Fail(t)
      PROVE  BufferIsRecentDialogue'
  <2>1. PICK m \in {SystemMessage("loading"), ErrorMessage(t)} :
          messages' = Append(messages, m)
    BY <1>3 DEF SendRefused, Fail, ShowError
  <2>2. m \in Message /\ m.kind \in {"loading", "error"}
    BY TurnMessageFacts, SystemMessageFact DEF SystemMessage, ErrorMessage, Message
  <2>3. UNCHANGED <<conversationBuffer, sessionMessageCount>>
    BY <1>3 DEF SendRefused, Fail, memoryVars
  <2>4. QED
    BY <2>1, <2>2, <2>3, NoteIgnored
<1>4. ASSUME NEW l \in Loaders, Collect(l)
      PROVE  BufferIsRecentDialogue'
  <2>1. UNCHANGED <<conversationBuffer, sessionMessageCount>>
    BY <1>4 DEF Collect, memoryVars
  <2>2. CASE messages' = Append(messages, SystemMessage("ready"))
    BY <2>1, <2>2, NoteIgnored, SystemMessageFact DEF SystemMessage
  <2>3. CASE UNCHANGED messages
    BY <2>1, <2>3 DEF BufferIsRecentDialogue
  <2>4. QED
    BY <1>4, <2>2, <2>3 DEF Collect
<1>5. CASE ClearChat
  <2>1. /\ messages' = <<SystemMessage("cleared")>>
        /\ conversationBuffer' = <<>>
        /\ sessionMessageCount' = 0
    BY <1>5 DEF ClearChat
  <2>2. /\ messages' \in Seq(Message)
        /\ \A i \in 1..Len(messages') : messages'[i].kind \notin {"user", "reply"}
    BY <2>1, SystemMessageFact DEF SystemMessage
  <2>3. Dialogue(messages') = {} /\ Cardinality(Dialogue(messages')) = 0
    BY <2>2, EmptyDialogue
  <2>4. QED
    BY <2>1, <2>3, BufferAssumption DEF BufferIsRecentDialogue
<1>6. CASE UNCHANGED <<messages, conversationBuffer, sessionMessageCount>>
  BY <1>6 DEF BufferIsRecentDialogue
<1>7. QED
  BY <1>1, <1>2, <1>3, <1>4, <1>5, <1>6
  DEF Next, vars, memoryVars, chatVars, LoaderStep, LoadStep, LoadFlag,
      RetryModelLoad, TurnStep, BuildPrompt, Generate, TokenRead, TokenWrite, Saved,
      Recompose, OnCleared

(* The short-term memory is the end of the visible dialogue, for every     *)
(* caller of the ViewModel, any number of overlapping turns, failures,     *)
(* cancellations and clears, and any size of the buffer.                   *)
THEOREM MemoryIsRecentDialogue == Spec => []BufferIsRecentDialogue
<1>1. Init => BufferIsRecentDialogue
  <2> SUFFICES ASSUME Init PROVE BufferIsRecentDialogue
    OBVIOUS
  <2>1. messages \in Seq(Message) /\ messages = <<>>
    BY DEF Init
  <2>2. Len(messages) = 0
    BY <2>1
  <2>3. Dialogue(messages) = {} /\ Cardinality(Dialogue(messages)) = 0
    <3>1. \A i \in 1..Len(messages) : FALSE
      BY <2>2
    <3>2. QED
      BY <2>1, <3>1, EmptyDialogue
  <2>4. QED
    BY <2>3, BufferAssumption DEF Init, BufferIsRecentDialogue
<1>2. QED
  BY <1>1, DialogueStep, TypeInvariant, PTL DEF Spec

------------------------------------------------------------------------------
(* The chat opens only on a loaded model *)

LEMMA LoadedInit == Init => ModelStaysLoaded
  BY DEF Init, ModelStaysLoaded, Collects, Live

(* Nothing but onCleared takes the model away; a collector, the state      *)
(* Success and a turn each need one of the others to have come first.      *)
LEMMA LoadedStep == TypeInv /\ ModelStaysLoaded /\ [Next]_vars => ModelStaysLoaded'
<1> SUFFICES ASSUME TypeOK, ModelStaysLoaded, [Next]_vars, ~cleared'
             PROVE  /\ \A l \in Loaders : Collects(l)' => isModelLoaded'
                    /\ modelState' = "Success" => isModelLoaded'
                    /\ \A t \in Turns : turn'[t] \in Live => isModelLoaded'
  BY DEF TypeInv, ModelStaysLoaded, Live
<1> USE DEF ModelStaysLoaded, Collects, Live, vars, modelVars, chatVars
<1>1. ASSUME NEW l \in Loaders, LoadStep(l)
      PROVE  ModelStaysLoaded'
  BY <1>1 DEF LoadStep, TypeOK
<1>2. ASSUME NEW l \in Loaders, LoadFlag(l)
      PROVE  ModelStaysLoaded'
  BY <1>2 DEF LoadFlag, TypeOK
<1>3. ASSUME NEW l \in Loaders, Collect(l)
      PROVE  ModelStaysLoaded'
  BY <1>3 DEF Collect, TypeOK
<1>4. ASSUME NEW l \in Loaders, RetryModelLoad(l)
      PROVE  ModelStaysLoaded'
  BY <1>4 DEF RetryModelLoad, TypeOK
<1>5. ASSUME NEW t \in Turns, Send(t) \/ SendRefused(t)
      PROVE  ModelStaysLoaded'
  BY <1>5 DEF Send, SendRefused, TypeOK
<1>6. ASSUME NEW t \in Turns, TurnStep(t)
      PROVE  ModelStaysLoaded'
  <2>1. /\ turn[t] \in Live
        /\ \A u \in Turns \ {t} : turn'[u] = turn[u]
        /\ UNCHANGED <<modelVars, cleared>>
    BY <1>6 DEF TurnStep, BuildPrompt, Generate, TokenRead, TokenWrite, Reply,
                Saved, Fail, Finally, TypeOK
  <2>2. QED
    BY <2>1
<1>7. CASE Recompose \/ ClearChat \/ UNCHANGED vars
  BY <1>7 DEF Recompose, ClearChat
<1>8. CASE OnCleared
  BY <1>8 DEF OnCleared
<1>9. QED
  BY <1>1, <1>2, <1>3, <1>4, <1>5, <1>6, <1>7, <1>8 DEF Next, LoaderStep

LEMMA LoadedInvariant == Spec => []ModelStaysLoaded
  BY LoadedInit, LoadedStep, TypeInvariant, PTL DEF Spec

(* Whatever retries, sends and loads interleave, the state Success means   *)
(* that generate will accept a prompt, until the ViewModel is cleared.     *)
THEOREM ReadyIsLoaded == Spec => []ReadyMeansLoaded
<1>1. ModelStaysLoaded => ReadyMeansLoaded
  BY DEF ModelStaysLoaded, ReadyMeansLoaded
<1>2. QED
  BY <1>1, LoadedInvariant, PTL

------------------------------------------------------------------------------
(* Behind its own screen the chat keeps turns apart *)

(* A run of n tokens of t, and one more. *)
LEMMA RunFacts ==
  ASSUME NEW t \in Turns, NEW n \in Nat
  PROVE  /\ [i \in 1..0 |-> t] = <<>>
         /\ Append([i \in 1..n |-> t], t) = [i \in 1..(n + 1) |-> t]
<1>1. [i \in 1..0 |-> t] = <<>>
  OBVIOUS
<1>2. [i \in 1..n |-> t] \in Seq(Turns) /\ Len([i \in 1..n |-> t]) = n
  OBVIOUS
<1>3. QED
  BY <1>1, <1>2

(* A message that is no reply, or a whole one, leaves all replies whole. *)
LEMMA AppendKeepsWhole ==
  ASSUME TypeOK, RepliesWhole, NEW m \in Message,
         m.kind = "reply" => m.text = Whole(m.turn),
         messages' = Append(messages, m)
  PROVE  RepliesWhole'
<1> SUFFICES ASSUME NEW i \in 1..Len(messages'), messages'[i].kind = "reply"
             PROVE  messages'[i].text = Whole(messages'[i].turn)
  BY DEF RepliesWhole, Whole
<1>1. messages \in Seq(Message)
  BY DEF TypeOK
<1>2. CASE i \in 1..Len(messages)
  BY <1>1, <1>2 DEF RepliesWhole
<1>3. CASE i = Len(messages) + 1
  BY <1>1, <1>3
<1>4. QED
  BY <1>1, <1>2, <1>3

LEMMA GuardedInit == Init => GuardedInv
  BY DEF Init, GuardedInv, OneTurnAtATime, StreamIsOwnPrefix, WholeOnReturn,
         RepliesWhole, Live

(* A refused click needs a bar that is stale, so there is none here. *)
LEMMA NoRefusal == FreshBar => \A t \in Turns : ~SendRefused(t)
  BY DEF FreshBar, SendRefused, ClickAccepted, Enabled

(* What the actions outside a turn do: the turns and the stream are left   *)
(* alone, and at most the ready message is added.                          *)
LEMMA OutsideTurn ==
  ASSUME FreshBar, TypeOK, [Next]_vars,
         ~(\E t \in Turns : Send(t) \/ TurnStep(t))
  PROVE  /\ UNCHANGED <<turn, isTyping, currentResponse, local, sent>>
         /\ cleared => cleared'
         /\ \/ messages' = messages
            \/ messages' = Append(messages, SystemMessage("ready"))
            \/ ClearChat /\ messages' = <<SystemMessage("cleared")>>
BY NoRefusal DEF Next, vars, chatVars, modelVars, memoryVars, streamVars, LoaderStep,
   LoadStep, LoadFlag, Collect, RetryModelLoad, Recompose, OnCleared, ClearChat

(* A turn takes a step only while it is live, and then it is the only one. *)
LEMMA TheLiveTurn ==
  ASSUME OneTurnAtATime, NEW t \in Turns, TurnStep(t)
  PROVE  /\ turn[t] \in Live
         /\ isTyping
         /\ \A u \in Turns \ {t} : turn[u] \notin Live
<1>1. turn[t] \in Live
  BY DEF TurnStep, BuildPrompt, Generate, TokenRead, TokenWrite, Reply, Saved,
         Fail, Live
<1>2. QED
  BY <1>1 DEF OneTurnAtATime

(* Taken by the only live turn t, a step that keeps it live keeps turns    *)
(* apart, and one that ends it leaves none.                                *)
LEMMA OneTurnKept ==
  ASSUME TypeOK, NEW t \in Turns, NEW s,
         \A u \in Turns \ {t} : turn[u] \notin Live,
         turn' = [turn EXCEPT ![t] = s],
         isTyping' <=> s \in Live
  PROVE  OneTurnAtATime'
<1>1. turn'[t] = s /\ \A u \in Turns \ {t} : turn'[u] = turn[u]
  BY DEF TypeOK
<1>2. \A u \in Turns \ {t} : turn'[u] \notin Live
  BY <1>1
<1>3. QED
  BY <1>1, <1>2 DEF OneTurnAtATime, Live

(* ... and the claims on the stream then concern t alone. *)
StreamOf(t) ==
  /\ turn[t] \in {"generate", "read", "write", "return"} =>
       currentResponse = [i \in 1..sent[t] |-> t]
  /\ turn[t] = "write" => local[t] = currentResponse
  /\ turn[t] = "context" => currentResponse = <<>>
  /\ turn[t] = "return" /\ ~cleared => sent[t] = TextLen

LEMMA StreamOfLiveTurn ==
  ASSUME TypeOK, NEW t \in Turns, NEW s,
         \A u \in Turns \ {t} : turn[u] \notin Live,
         turn' = [turn EXCEPT ![t] = s],
         StreamOf(t)'
  PROVE  /\ StreamIsOwnPrefix'
         /\ WholeOnReturn'
         /\ \A u \in Turns : turn'[u] = "context" => currentResponse' = <<>>
<1>1. turn'[t] = s /\ \A u \in Turns \ {t} : turn'[u] = turn[u]
  BY DEF TypeOK
<1>2. \A u \in Turns \ {t} :
        turn'[u] \notin {"context", "generate", "read", "write", "return"}
  BY <1>1 DEF Live
<1>3. QED
  BY <1>2 DEF StreamOf, StreamIsOwnPrefix, WholeOnReturn

LEMMA GuardedStep ==
  FreshBar /\ TypeInv /\ ModelStaysLoaded /\ GuardedInv /\ [Next]_vars => GuardedInv'
<1> SUFFICES ASSUME FreshBar, TypeOK, TokensCounted, ModelStaysLoaded, GuardedInv,
                    [Next]_vars
             PROVE  GuardedInv'
  BY DEF TypeInv
<1>0. /\ OneTurnAtATime
      /\ StreamIsOwnPrefix
      /\ WholeOnReturn
      /\ RepliesWhole
      /\ \A t \in Turns : turn[t] = "context" => currentResponse = <<>>
      /\ \A t \in Turns : StreamOf(t)
  BY DEF GuardedInv, StreamOf, StreamIsOwnPrefix, WholeOnReturn
<1>1. ASSUME NEW t \in Turns, Send(t)
      PROVE  GuardedInv'
  <2>1. /\ messages' = Append(messages, UserMessage(t))
        /\ isTyping' = TRUE
        /\ currentResponse' = <<>>
        /\ turn' = [turn EXCEPT ![t] = "context"]
        /\ turn[t] = "none"
        /\ ~isTyping
    BY <1>1 DEF Send, FreshBar, ClickAccepted, Enabled
  <2>2. \A u \in Turns \ {t} : turn[u] \notin Live
    BY <1>0, <2>1 DEF OneTurnAtATime
  <2>3. OneTurnAtATime'
    BY <2>1, <2>2, OneTurnKept DEF Live
  <2>4. turn'[t] = "context"
    BY <2>1 DEF TypeOK
  <2>5. StreamOf(t)'
    BY <2>1, <2>4 DEF StreamOf
  <2>6. UserMessage(t) \in Message /\ UserMessage(t).kind = "user"
    BY DEF UserMessage, Message
  <2>7. RepliesWhole'
    BY <1>0, <2>1, <2>6, AppendKeepsWhole
  <2>8. QED
    BY <2>1, <2>2, <2>3, <2>5, <2>7, StreamOfLiveTurn DEF GuardedInv
<1>2. ASSUME NEW t \in Turns, TurnStep(t)
      PROVE  GuardedInv'
  <2>1. /\ turn[t] \in Live
        /\ isTyping
        /\ \A u \in Turns \ {t} : turn[u] \notin Live
    BY <1>0, <1>2, TheLiveTurn
  <2>2. CASE BuildPrompt(t)
    <3>1. /\ UNCHANGED <<messages, isTyping, currentResponse, sent, cleared>>
          /\ turn' = [turn EXCEPT ![t] = "generate"]
          /\ turn[t] = "context"
      BY <2>2 DEF BuildPrompt
    <3>2. turn'[t] = "generate" /\ sent[t] = 0
      BY <3>1 DEF TypeOK, TokensCounted
    <3>3. StreamOf(t)'
      BY <1>0, <3>1, <3>2, RunFacts DEF StreamOf
    <3>4. OneTurnAtATime'
      BY <2>1, <3>1, OneTurnKept DEF Live
    <3>5. QED
      BY <1>0, <2>1, <3>1, <3>3, <3>4, StreamOfLiveTurn
      DEF GuardedInv, RepliesWhole, Whole
  <2>3. CASE Generate(t)
    <3>1. /\ UNCHANGED <<messages, isTyping, currentResponse, sent, cleared>>
          /\ turn[t] \in {"generate", "read"} /\ sent[t] = 0
      BY <2>3 DEF Generate, TokensCounted
    <3>2. PICK s \in {"read", "return"} : /\ turn' = [turn EXCEPT ![t] = s]
                                          /\ ~cleared => s = "read"
      BY <2>1, <2>3 DEF Generate, ModelStaysLoaded
    <3>3. turn'[t] = s
      BY <3>2 DEF TypeOK
    <3>4. StreamOf(t)'
      BY <1>0, <3>1, <3>2, <3>3 DEF StreamOf
    <3>5. isTyping' <=> s \in Live
      BY <2>1, <3>1 DEF Live
    <3>6. OneTurnAtATime'
      BY <2>1, <3>2, <3>5, OneTurnKept
    <3>7. /\ StreamIsOwnPrefix'
          /\ WholeOnReturn'
          /\ \A u \in Turns : turn'[u] = "context" => currentResponse' = <<>>
      <4>1. turn' = [turn EXCEPT ![t] = s]
        BY <3>2
      <4>2. \A u \in Turns \ {t} : turn[u] \notin Live
        BY <2>1
      <4> HIDE DEF TypeOK, TokensCounted
      <4>3. QED
        BY <3>4, <4>1, <4>2, StreamOfLiveTurn
    <3>8. RepliesWhole'
      <4>1. RepliesWhole /\ messages' = messages
        BY <1>0, <3>1
      <4>2. QED
        BY <4>1 DEF RepliesWhole, Whole
    <3>9. QED
      BY <3>6, <3>7, <3>8 DEF GuardedInv
  <2>4. CASE TokenRead(t)
    <3>1. /\ UNCHANGED <<messages, isTyping, currentResponse, sent, cleared>>
          /\ turn' = [turn EXCEPT ![t] = "write"]
          /\ turn[t] = "read"
          /\ local' = [local EXCEPT ![t] = currentResponse]
      BY <2>4 DEF TokenRead
    <3>2. turn'[t] = "write" /\ local'[t] = currentResponse
      BY <3>1 DEF TypeOK
    <3>3. StreamOf(t)'
      BY <1>0, <3>1, <3>2 DEF StreamOf
    <3>4. OneTurnAtATime'
      BY <2>1, <3>1, OneTurnKept DEF Live
    <3>5. QED
      BY <1>0, <2>1, <3>1, <3>3, <3>4, StreamOfLiveTurn
      DEF GuardedInv, RepliesWhole, Whole
  <2>5. CASE TokenWrite(t)
    <3> DEFINE s == IF MoreTokens(t) THEN "read" ELSE "return"
    <3>1. /\ UNCHANGED <<messages, isTyping, cleared>>
          /\ turn' = [turn EXCEPT ![t] = s]
          /\ turn[t] = "write"
          /\ currentResponse' = Append(local[t], t)
          /\ sent' = [sent EXCEPT ![t] = @ + 1]
      BY <2>5 DEF TokenWrite
    <3>2. /\ turn'[t] = s
          /\ sent'[t] = sent[t] + 1
          /\ sent[t] \in Nat
          /\ sent[t] < TextLen
      BY <3>1, ChatAssumption DEF TypeOK, TokensCounted
    <3>3. currentResponse' = [i \in 1..sent'[t] |-> t]
      BY <1>0, <3>1, <3>2, RunFacts DEF StreamOf
    <3>4. s = "return" => sent'[t] = TextLen
      BY <3>2, ChatAssumption DEF MoreTokens
    <3>5. StreamOf(t)'
      BY <3>2, <3>3, <3>4 DEF StreamOf
    <3>6. OneTurnAtATime'
      BY <2>1, <3>1, OneTurnKept DEF Live
    <3>7. QED
      BY <1>0, <2>1, <3>1, <3>5, <3>6, StreamOfLiveTurn
      DEF GuardedInv, RepliesWhole, Whole
  <2>6. CASE Reply(t)
    <3>1. PICK s \in {"save", "done"} :
            /\ turn' = [turn EXCEPT ![t] = s]
            /\ isTyping' <=> s = "save"
      BY <2>1, <2>6 DEF Reply, Finally
    <3>2. /\ messages' = Append(messages, KaedeMessage(t, currentResponse))
          /\ turn[t] = "return"
          /\ ~cleared
      BY <2>6 DEF Reply
    <3>3. currentResponse = Whole(t)
      BY <1>0, <3>2 DEF StreamOf, Whole
    <3>4. /\ KaedeMessage(t, currentResponse) \in Message
          /\ KaedeMessage(t, currentResponse).text = currentResponse
          /\ KaedeMessage(t, currentResponse).turn = t
      BY DEF KaedeMessage, Message, TypeOK
    <3>5. RepliesWhole'
      BY <1>0, <3>2, <3>3, <3>4, AppendKeepsWhole
    <3>6. turn'[t] = s
      BY <3>1 DEF TypeOK
    <3>7. StreamOf(t)'
      BY <3>6 DEF StreamOf
    <3>8. OneTurnAtATime'
      BY <2>1, <3>1, OneTurnKept DEF Live
    <3>9. QED
      BY <2>1, <3>1, <3>5, <3>7, <3>8, StreamOfLiveTurn DEF GuardedInv
  <2>7. CASE Saved(t) \/ Fail(t)
    <3>1. /\ turn' = [turn EXCEPT ![t] = "done"]
          /\ isTyping' = FALSE
          /\ messages' = messages \/ messages' = Append(messages, ErrorMessage(t))
      BY <2>7 DEF Saved, Fail, Finally, ShowError
    <3>2. ErrorMessage(t) \in Message /\ ErrorMessage(t).kind = "error"
      BY DEF ErrorMessage, Message
    <3>3. RepliesWhole'
      BY <1>0, <3>1, <3>2, AppendKeepsWhole DEF RepliesWhole, Whole
    <3>4. turn'[t] = "done"
      BY <3>1 DEF TypeOK
    <3>5. StreamOf(t)'
      BY <3>4 DEF StreamOf
    <3>6. OneTurnAtATime'
      BY <2>1, <3>1, OneTurnKept DEF Live
    <3>7. QED
      BY <2>1, <3>1, <3>3, <3>5, <3>6, StreamOfLiveTurn DEF GuardedInv
  <2>8. QED
    BY <1>2, <2>2, <2>3, <2>4, <2>5, <2>6, <2>7 DEF TurnStep
<1>3. CASE ~(\E t \in Turns : Send(t) \/ TurnStep(t))
  <2>1. /\ UNCHANGED <<turn, isTyping, currentResponse, local, sent>>
        /\ cleared => cleared'
        /\ \/ messages' = messages
           \/ messages' = Append(messages, SystemMessage("ready"))
           \/ messages' = <<SystemMessage("cleared")>>
    BY <1>3, OutsideTurn
  <2>2. RepliesWhole'
    <3>1. /\ SystemMessage("ready") \in Message
          /\ SystemMessage("ready").kind # "reply"
          /\ SystemMessage("cleared").kind # "reply"
      BY DEF SystemMessage, Message
    <3>2. CASE messages' = <<SystemMessage("cleared")>>
      BY <3>1, <3>2 DEF RepliesWhole
    <3>3. QED
      BY <1>0, <2>1, <3>1, <3>2, AppendKeepsWhole DEF RepliesWhole, Whole
  <2>3. QED
    BY <1>0, <2>1, <2>2 DEF GuardedInv, OneTurnAtATime, StreamIsOwnPrefix,
       WholeOnReturn
<1>4. QED
  BY <1>1, <1>2, <1>3

LEMMA GuardedInvariant == FreshBar => (Spec => []GuardedInv)
<1> SUFFICES ASSUME FreshBar PROVE Spec => []GuardedInv
  OBVIOUS
<1>1. TypeInv /\ ModelStaysLoaded /\ GuardedInv /\ [Next]_vars => GuardedInv'
  BY GuardedStep
<1>2. QED
  BY <1>1, GuardedInit, TypeInvariant, LoadedInvariant, PTL DEF Spec

(* At most one turn is live and the typing indicator shows exactly while   *)
(* one is - if clicks wait for the input bar to be recomposed, however     *)
(* often the chat is cleared.                                              *)
THEOREM TurnsKeptApart == FreshBar => (Spec => []OneTurnAtATime)
<1> SUFFICES ASSUME FreshBar PROVE Spec => []OneTurnAtATime
  OBVIOUS
<1>1. GuardedInv => OneTurnAtATime
  BY DEF GuardedInv
<1>2. QED
  BY <1>1, GuardedInvariant, PTL

(* Under the same condition what streams is a prefix of the turn's own     *)
(* text, with no token lost to the unsynchronised +=.                      *)
THEOREM StreamKeepsItsTokens == FreshBar => (Spec => []StreamIsOwnPrefix)
<1> SUFFICES ASSUME FreshBar PROVE Spec => []StreamIsOwnPrefix
  OBVIOUS
<1>1. GuardedInv => StreamIsOwnPrefix
  BY DEF GuardedInv
<1>2. QED
  BY <1>1, GuardedInvariant, PTL

(* Under the same condition every reply in the transcript is whole.        *)
THEOREM RepliesStayWhole == FreshBar => (Spec => []RepliesWhole)
<1> SUFFICES ASSUME FreshBar PROVE Spec => []RepliesWhole
  OBVIOUS
<1>1. GuardedInv => RepliesWhole
  BY DEF GuardedInv
<1>2. QED
  BY <1>1, GuardedInvariant, PTL

(* The short-term memory ends with the message of the turn that waits for  *)
(* its context memories, and then the prompt does; or it has been emptied. *)
EndsWith(buf, t) == buf # <<>> /\ buf[Len(buf)] = ConversationTurn("User", TRUE, t)

PromptInv ==
  \A t \in Turns :
    /\ turn[t] = "context" =>
         EndsWith(conversationBuffer, t) \/ (conversationBuffer = <<>> /\ clears > 0)
    /\ turn[t] = "generate" =>
         EndsWith(prompt[t], t) \/ (prompt[t] = <<>> /\ clears > 0)

LEMMA AddedIsLast ==
  ASSUME NEW buf \in Seq(Remembered), NEW t \in Turns
  PROVE  EndsWith(AddToBuffer(buf, ConversationTurn("User", TRUE, t)), t)
<1> DEFINE c == ConversationTurn("User", TRUE, t)
           short == IF Len(buf) >= MAX_BUFFER_SIZE THEN Tail(buf) ELSE buf
<1>1. short \in Seq(Remembered)
  <2>1. Len(buf) >= MAX_BUFFER_SIZE => buf # <<>>
    BY BufferAssumption
  <2>2. QED
    BY <2>1
<1>2. c \in Remembered
  BY DEF ConversationTurn, Remembered
<1> HIDE DEF short, c
<1>3. /\ Append(short, c) # <<>>
      /\ Append(short, c)[Len(Append(short, c))] = c
  BY <1>1, <1>2
<1>4. QED
  BY <1>3 DEF EndsWith, AddToBuffer, short, c

LEMMA PromptStep ==
  ASSUME FreshBar, TypeOK, OneTurnAtATime, PromptInv, [Next]_vars
  PROVE  PromptInv'
<1>1. ASSUME NEW t \in Turns, Send(t)
      PROVE  PromptInv'
  <2>1. /\ conversationBuffer' =
             AddToBuffer(conversationBuffer, ConversationTurn("User", TRUE, t))
        /\ turn' = [turn EXCEPT ![t] = "context"]
        /\ ~isTyping
    BY <1>1 DEF Send, Remember, FreshBar, ClickAccepted, Enabled
  <2>2. EndsWith(conversationBuffer', t)
    BY <2>1, AddedIsLast DEF TypeOK
  <2>3. /\ turn'[t] = "context"
        /\ \A u \in Turns \ {t} : turn'[u] = turn[u]
    BY <2>1 DEF TypeOK
  <2>4. \A u \in Turns \ {t} : turn'[u] \notin {"context", "generate"}
    BY <2>1, <2>3 DEF OneTurnAtATime, Live
  <2>5. QED
    BY <2>2, <2>3, <2>4 DEF PromptInv
<1>2. ASSUME NEW t \in Turns, TurnStep(t)
      PROVE  PromptInv'
  <2>1. \A u \in Turns \ {t} : turn[u] \notin Live
    BY <1>2, TheLiveTurn
  <2>2. PICK s : turn' = [turn EXCEPT ![t] = s]
    BY <1>2 DEF TurnStep, BuildPrompt, Generate, TokenRead, TokenWrite, Reply, Saved, Fail,
       Finally
  <2>3. turn'[t] = s /\ \A u \in Turns \ {t} : turn'[u] \notin {"context", "generate"}
    BY <2>1, <2>2 DEF TypeOK, Live
  <2>4. CASE BuildPrompt(t)
    <3>1. /\ turn[t] = "context" /\ turn'[t] = "generate"
          /\ prompt' = [prompt EXCEPT ![t] = conversationBuffer]
      BY <2>4 DEF BuildPrompt, TypeOK
    <3>2. EndsWith(prompt'[t], t) \/ (prompt'[t] = <<>> /\ clears' > 0)
      BY <2>4, <3>1 DEF BuildPrompt, PromptInv, TypeOK
    <3>3. QED
      BY <2>3, <3>1, <3>2 DEF PromptInv
  <2>5. CASE ~BuildPrompt(t)
    <3>1. turn'[t] \notin {"context", "generate"}
      BY <1>2, <2>5 DEF TurnStep, Generate, TokenRead, TokenWrite, Reply, Saved, Fail,
         Finally, TypeOK
    <3>2. QED
      BY <2>3, <3>1 DEF PromptInv
  <2>6. QED
    BY <2>4, <2>5
<1>3. CASE ClearChat
  <2>1. UNCHANGED <<turn, prompt>> /\ conversationBuffer' = <<>> /\ clears' > 0
    BY <1>3 DEF ClearChat, streamVars, TypeOK
  <2>2. QED
    BY <2>1 DEF PromptInv
<1>4. CASE ~(\E t \in Turns : Send(t) \/ TurnStep(t)) /\ ~ClearChat
  <2>1. UNCHANGED <<turn, conversationBuffer, prompt, clears>>
    BY <1>4, NoRefusal DEF Next, vars, chatVars, modelVars, memoryVars, streamVars,
       LoaderStep, LoadStep, LoadFlag, Collect, RetryModelLoad, Recompose, OnCleared
  <2>2. QED
    BY <2>1 DEF PromptInv, EndsWith
<1>5. QED
  BY <1>1, <1>2, <1>3, <1>4

(* Under the same condition the history a prompt is built from, read after *)
(* a suspension, still ends with the message it answers, or clearChat has  *)
(* emptied it.                                                             *)
THEOREM PromptAnswersItsMessage == FreshBar => (Spec => []PromptEndsWithOwnMessage)
<1> SUFFICES ASSUME FreshBar PROVE Spec => []PromptEndsWithOwnMessage
  OBVIOUS
<1>1. Init => PromptInv
  BY DEF Init, PromptInv
<1>2. TypeInv /\ GuardedInv /\ PromptInv /\ [Next]_vars => PromptInv'
  BY PromptStep DEF TypeInv, GuardedInv
<1>3. PromptInv => PromptEndsWithOwnMessage
  BY DEF PromptInv, EndsWith, PromptEndsWithOwnMessage
<1>4. QED
  BY <1>1, <1>2, <1>3, GuardedInvariant, TypeInvariant, PTL DEF Spec

------------------------------------------------------------------------------
(* Behind its own screen the chat implements TurnTaking *)

(* The open turn is the live one, if there is one; f stands for turn, now  *)
(* or after a step.                                                        *)
OpenIn(f) == IF \E t \in Turns : f[t] \in Live
               THEN CHOOSE t \in Turns : f[t] \in Live
               ELSE NoTurn

LEMMA OpenIsLive ==
  ASSUME NEW f, NEW t \in Turns, f[t] \in Live,
         \A u \in Turns \ {t} : f[u] \notin Live
  PROVE  OpenIn(f) = t
  BY DEF OpenIn

LEMMA OpenIsNobody ==
  ASSUME NEW f, \A u \in Turns : f[u] \notin Live
  PROVE  OpenIn(f) = NoTurn
  BY DEF OpenIn

Asked(f) == {t \in Turns : f[t] \notin {"none", "rejected"}}
Answered(f) == \E t \in Turns : f[t] = "save"

(* What a step of the only live turn t to the position s does to the       *)
(* abstract state.                                                         *)
LEMMA AbstractStep ==
  ASSUME TypeOK, NEW t \in Turns, NEW s \in TurnStates \ {"none", "rejected"},
         \A u \in Turns \ {t} : turn[u] \notin Live,
         turn' = [turn EXCEPT ![t] = s]
  PROVE  /\ OpenIn(turn') = IF s \in Live THEN t ELSE NoTurn
         /\ Asked(turn') = Asked(turn) \cup {t}
         /\ Answered(turn') <=> s = "save"
         /\ Answered(turn) <=> turn[t] = "save"
         /\ turn[t] \in Live => OpenIn(turn) = t
<1>1. turn'[t] = s /\ \A u \in Turns \ {t} : turn'[u] = turn[u]
  BY DEF TypeOK
<1>2. \A u \in Turns \ {t} : turn'[u] \notin Live
  BY <1>1
<1>3. OpenIn(turn') = IF s \in Live THEN t ELSE NoTurn
  BY <1>1, <1>2, OpenIsLive, OpenIsNobody
<1>4. Asked(turn') = Asked(turn) \cup {t}
  BY <1>1 DEF Asked
<1>5. (Answered(turn') <=> s = "save") /\ (Answered(turn) <=> turn[t] = "save")
  BY <1>1, <1>2 DEF Answered, Live
<1>6. QED
  BY <1>3, <1>4, <1>5, OpenIsLive

LEMMA AbstractInit == Init => TT!Init
<1> SUFFICES ASSUME Init PROVE TT!Init
  OBVIOUS
<1>1. \A t \in Turns : turn[t] = "none"
  BY DEF Init
<1>2. messages = <<>>
  BY DEF Init
<1>3. OpenTurn = NoTurn
  BY <1>1 DEF OpenTurn, Live
<1>4. (\E t \in Turns : turn[t] = "save") = FALSE
  BY <1>1
<1>5. {t \in Turns : turn[t] \notin {"none", "rejected"}} = {}
  BY <1>1
<1>6. QED
  BY <1>2, <1>3, <1>4, <1>5 DEF TT!Init

(* The abstract state in the terms above. *)
LEMMA AbstractState ==
  /\ OpenTurn = OpenIn(turn) /\ OpenTurn' = OpenIn(turn')
  /\ (\E t \in Turns : turn[t] = "save") = Answered(turn)
  /\ (\E t \in Turns : turn'[t] = "save") = Answered(turn')
  /\ {t \in Turns : turn[t] \notin {"none", "rejected"}} = Asked(turn)
  /\ {t \in Turns : turn'[t] \notin {"none", "rejected"}} = Asked(turn')
  BY DEF OpenTurn, OpenIn, Answered, Asked

(* Send opens a turn, Reply answers it, Saved files it, Fail apologises;   *)
(* every other step adds the ready note or is invisible.                   *)
LEMMA AbstractNext ==
  FreshBar /\ TypeInv /\ ModelStaysLoaded /\ GuardedInv /\ [Next]_vars
    => [TT!Next]_TT!vars
<1> SUFFICES ASSUME FreshBar, TypeOK, ModelStaysLoaded, GuardedInv, [Next]_vars
             PROVE  [TT!Next]_TT!vars
  BY DEF TypeInv
<1>0. OneTurnAtATime /\ \A t \in Turns : StreamOf(t)
  BY DEF GuardedInv, StreamOf, StreamIsOwnPrefix, WholeOnReturn
<1>1. ASSUME NEW t \in Turns, Send(t)
      PROVE  TT!Ask(t)
  <2>1. /\ messages' = Append(messages, UserMessage(t))
        /\ turn' = [turn EXCEPT ![t] = "context"]
        /\ turn[t] = "none"
        /\ ~isTyping
    BY <1>1 DEF Send, FreshBar, ClickAccepted, Enabled
  <2>2. \A u \in Turns : turn[u] \notin Live
    BY <1>0, <2>1 DEF OneTurnAtATime
  <2>3. /\ OpenIn(turn') = t
        /\ Asked(turn') = Asked(turn) \cup {t}
        /\ ~Answered(turn')
    BY <2>1, <2>2, AbstractStep DEF Live, TurnStates
  <2>4. OpenIn(turn) = NoTurn /\ t \notin Asked(turn)
    BY <2>1, <2>2, OpenIsNobody DEF Asked
  <2>5. UserMessage(t) = TT!Entry("user", t, <<>>)
    BY DEF UserMessage, TT!Entry
  <2>6. QED
    BY <2>1, <2>3, <2>4, <2>5, AbstractState DEF TT!Ask
<1>2. ASSUME NEW t \in Turns, TurnStep(t)
      PROVE  \/ TT!Answer(t) \/ TT!Filed(t) \/ TT!Apologise(t)
             \/ UNCHANGED TT!vars
  <2>1. turn[t] \in Live /\ \A u \in Turns \ {t} : turn[u] \notin Live
    BY <1>0, <1>2, TheLiveTurn
  <2>2. OpenIn(turn) = t /\ t \in Asked(turn)
    BY <2>1, OpenIsLive DEF Asked, Live
  <2>3. CASE BuildPrompt(t) \/ Generate(t) \/ TokenRead(t) \/ TokenWrite(t)
    <3>1. PICK s \in {"generate", "read", "write", "return"} :
            turn' = [turn EXCEPT ![t] = s]
      BY <2>3 DEF BuildPrompt, Generate, TokenRead, TokenWrite
    <3>2. messages' = messages /\ turn[t] # "save"
      BY <2>3 DEF BuildPrompt, Generate, TokenRead, TokenWrite
    <3>3. /\ OpenIn(turn') = t
          /\ Asked(turn') = Asked(turn) \cup {t}
          /\ ~Answered(turn')
          /\ ~Answered(turn)
      BY <2>1, <3>1, <3>2, AbstractStep DEF Live, TurnStates
    <3>4. QED
      BY <2>2, <3>2, <3>3, AbstractState DEF TT!vars
  <2>4. CASE Reply(t)
    <3>1. PICK s \in {"save", "done"} : turn' = [turn EXCEPT ![t] = s]
      BY <2>4 DEF Reply, Finally
    <3>2. /\ messages' = Append(messages, KaedeMessage(t, currentResponse))
          /\ turn[t] = "return"
          /\ ~cleared
      BY <2>4 DEF Reply
    <3>3. /\ OpenIn(turn') = IF s = "save" THEN t ELSE NoTurn
          /\ Asked(turn') = Asked(turn) \cup {t}
          /\ Answered(turn') <=> s = "save"
          /\ ~Answered(turn)
      BY <2>1, <3>1, <3>2, AbstractStep DEF Live, TurnStates
    <3>4. currentResponse = Whole(t)
      BY <1>0, <3>2 DEF StreamOf, Whole
    <3>5. KaedeMessage(t, currentResponse)
            = TT!Entry("reply", t, [u \in Turns |-> Whole(u)][t])
      BY <3>4 DEF KaedeMessage, TT!Entry
    <3>6. Asked(turn') = Asked(turn)
      BY <2>2, <3>3
    <3>7. QED
      BY <2>2, <3>2, <3>3, <3>5, <3>6, AbstractState DEF TT!Answer
  <2>5. CASE Saved(t)
    <3>1. /\ turn' = [turn EXCEPT ![t] = "done"]
          /\ messages' = messages
          /\ turn[t] = "save"
      BY <2>5 DEF Saved, Finally
    <3>2. /\ OpenIn(turn') = NoTurn
          /\ Asked(turn') = Asked(turn) \cup {t}
          /\ ~Answered(turn')
          /\ Answered(turn)
      <4>1. "done" \in TurnStates \ {"none", "rejected"} /\ "done" \notin Live
        BY DEF TurnStates, Live
      <4>2. /\ OpenIn(turn') = IF "done" \in Live THEN t ELSE NoTurn
            /\ Asked(turn') = Asked(turn) \cup {t}
            /\ Answered(turn') <=> "done" = "save"
            /\ Answered(turn) <=> turn[t] = "save"
        BY <2>1, <3>1, <4>1, AbstractStep
      <4>3. QED
        BY <3>1, <4>1, <4>2
    <3>3. Asked(turn') = Asked(turn)
      BY <2>2, <3>2
    <3>4. Answered(turn') = FALSE
      <4>1. \A u \in Turns : turn'[u] # "save"
        BY <3>2 DEF Answered
      <4>2. QED
        BY <4>1 DEF Answered
    <3>5. QED
      BY <2>2, <3>1, <3>2, <3>3, <3>4, AbstractState DEF TT!Filed
  <2>6. CASE Fail(t)
    <3>1. /\ turn' = [turn EXCEPT ![t] = "done"]
          /\ messages' = Append(messages, ErrorMessage(t))
      BY <2>6 DEF Fail, Finally, ShowError
    <3>2. /\ OpenIn(turn') = NoTurn
          /\ Asked(turn') = Asked(turn) \cup {t}
          /\ ~Answered(turn')
      <4>1. "done" \in TurnStates \ {"none", "rejected"} /\ "done" \notin Live
        BY DEF TurnStates, Live
      <4>2. /\ OpenIn(turn') = IF "done" \in Live THEN t ELSE NoTurn
            /\ Asked(turn') = Asked(turn) \cup {t}
            /\ Answered(turn') <=> "done" = "save"
            /\ Answered(turn) <=> turn[t] = "save"
        BY <2>1, <3>1, <4>1, AbstractStep
      <4>3. QED
        BY <3>1, <4>1, <4>2
    <3>3. ErrorMessage(t) = TT!Entry("error", t, <<>>)
      BY DEF ErrorMessage, TT!Entry
    <3>4. Asked(turn') = Asked(turn)
      BY <2>2, <3>2
    <3>5. Answered(turn') = FALSE
      <4>1. \A u \in Turns : turn'[u] # "save"
        BY <3>2 DEF Answered
      <4>2. QED
        BY <4>1 DEF Answered
    <3>6. QED
      BY <2>2, <3>1, <3>2, <3>3, <3>4, <3>5, AbstractState DEF TT!Apologise
  <2>7. QED
    BY <1>2, <2>3, <2>4, <2>5, <2>6 DEF TurnStep
<1>3. CASE ~(\E t \in Turns : Send(t) \/ TurnStep(t))
  <2>1. /\ turn' = turn
        /\ \/ messages' = messages
           \/ messages' = Append(messages, SystemMessage("ready"))
           \/ messages' = <<SystemMessage("cleared")>>
    BY <1>3, OutsideTurn
  <2>2. /\ SystemMessage("ready") = TT!Entry("ready", NoTurn, <<>>)
        /\ SystemMessage("cleared") = TT!Entry("cleared", NoTurn, <<>>)
    BY DEF SystemMessage, TT!Entry
  <2>3. /\ OpenTurn' = OpenTurn
        /\ (\E t \in Turns : turn'[t] = "save") = (\E t \in Turns : turn[t] = "save")
        /\ {t \in Turns : turn'[t] \notin {"none", "rejected"}}
             = {t \in Turns : turn[t] \notin {"none", "rejected"}}
    BY <2>1, AbstractState
  <2>4. TT!Note \/ TT!Wipe \/ UNCHANGED TT!vars
    BY <2>1, <2>2, <2>3 DEF TT!Note, TT!Wipe, TT!vars
  <2>5. QED
    BY <2>4 DEF TT!Next
<1>4. QED
  BY <1>1, <1>2, <1>3 DEF TT!Next

(* The transcript the chat writes behind its own screen is one TurnTaking  *)
(* allows, for any number of turns, loads, tokens and clears.              *)
THEOREM ChatTakesTurns == FreshBar => (Spec => TakesTurns)
<1> SUFFICES ASSUME FreshBar PROVE Spec => TakesTurns
  OBVIOUS
<1>1. TypeInv /\ ModelStaysLoaded /\ GuardedInv /\ [Next]_vars => GuardedInv'
  BY GuardedStep
<1>2. TypeInv /\ ModelStaysLoaded /\ GuardedInv /\ [Next]_vars
        => [TT!Next]_TT!vars
  BY AbstractNext
<1>3. QED
  BY <1>1, <1>2, GuardedInit, AbstractInit, TypeInvariant, LoadedInvariant, PTL
  DEF Spec, TakesTurns, TT!Spec

------------------------------------------------------------------------------
(* What is behind the liveness properties: a step is there as long as the  *)
(* goal is not reached, and there are only so many of them.                *)

(* The typing indicator of ChatViewModel.kt 200 is never left up: whatever *)
(* bars, clears and failures there are, a turn is under way that will take *)
(* it down.                                                                *)
IndicatorIsBacked == isTyping => \E t \in Turns : turn[t] \in Live

(* Segments a turn has before it, at most. *)
SegmentsLeft(t) ==
  CASE turn[t] = "context"  -> 2 * TextLen + 4
    [] turn[t] = "generate" -> 2 * TextLen + 3
    [] turn[t] = "read"     -> 2 * (TextLen - sent[t]) + 2
    [] turn[t] = "write"    -> 2 * (TextLen - sent[t]) + 1
    [] turn[t] = "return"   -> 2
    [] turn[t] = "save"     -> 1
    [] OTHER                -> 0

(* Whoever takes a step, a turn that has been sent stays where it is or    *)
(* comes closer to its end: no call, failure or other turn sets it back.   *)
TurnsComeCloser ==
  \A t \in Turns : turn[t] # "none" =>
    \/ UNCHANGED <<turn[t], sent[t]>>
    \/ SegmentsLeft(t)' \in 0..(SegmentsLeft(t) - 1)

(* The next step of initializeMlcLlm is there to be taken. *)
CanGoOn(l) ==
  \/ loader[l] \in {"start", "loading", "flag"}
  \/ Collects(l) /\ seen[l] # loadProgress

(* retryModelLoad leaves the collectors of earlier loads running, which    *)
(* put the state back to Loading (ChatViewModel.kt 86-105): a chat that is *)
(* not ready has a load under way or a collector that is still to see its  *)
(* progress.                                                               *)
ReadyOrOnItsWay ==
  cleared \/ modelState = "Success" \/ \E l \in Loaders : CanGoOn(l)

WayInv ==
  /\ ReadyOrOnItsWay
  /\ loadProgress < 10 => \E l \in Loaders : loader[l] \in {"start", "loading"}
  /\ \A l \in Loaders : loader[l] # "collect" => seen[l] = NotSeen

(* Finally is the only one to end a turn, and it takes the indicator down, *)
(* be it another turn's (ChatViewModel.kt 145, 199-202).                   *)
THEOREM TypingIsBacked == Spec => []IndicatorIsBacked
<1>1. Init => IndicatorIsBacked
  BY DEF Init, IndicatorIsBacked
<1>2. TypeInv /\ IndicatorIsBacked /\ [Next]_vars => IndicatorIsBacked'
  <2> SUFFICES ASSUME TypeOK, IndicatorIsBacked, [Next]_vars
               PROVE  IndicatorIsBacked'
    BY DEF TypeInv
  <2> USE DEF TypeOK, IndicatorIsBacked
  <2>1. ASSUME NEW t \in Turns, Send(t)
        PROVE  IndicatorIsBacked'
    BY <2>1 DEF Send, Live
  <2>2. ASSUME NEW t \in Turns, SendRefused(t)
        PROVE  IndicatorIsBacked'
    BY <2>2 DEF SendRefused, Live
  <2>3. ASSUME NEW t \in Turns,
               BuildPrompt(t) \/ Generate(t) \/ TokenRead(t) \/ TokenWrite(t)
        PROVE  IndicatorIsBacked'
    BY <2>3 DEF BuildPrompt, Generate, TokenRead, TokenWrite, Live
  <2>4. ASSUME NEW t \in Turns, Finally(t)
        PROVE  IndicatorIsBacked'
    BY <2>4 DEF Finally
  <2>5. ASSUME NEW t \in Turns, Reply(t) \/ Saved(t) \/ Fail(t)
        PROVE  IndicatorIsBacked'
    <3>1. CASE Finally(t)
      BY <3>1, <2>4
    <3>2. CASE turn[t] = "return" /\ turn' = [turn EXCEPT ![t] = "save"] /\ UNCHANGED isTyping
      BY <3>2 DEF Live
    <3>3. QED
      BY <2>5, <3>1, <3>2 DEF Reply, Saved, Fail
  <2>6. ASSUME UNCHANGED <<isTyping, turn>>
        PROVE  IndicatorIsBacked'
    BY <2>6
  <2>7. ASSUME NEW l \in Loaders, LoaderStep(l) \/ RetryModelLoad(l)
        PROVE  IndicatorIsBacked'
    BY <2>7, <2>6 DEF LoaderStep, LoadStep, LoadFlag, Collect, RetryModelLoad, chatVars
  <2>8. CASE Recompose \/ ClearChat \/ OnCleared \/ UNCHANGED vars
    BY <2>8, <2>6 DEF Recompose, ClearChat, OnCleared, vars, chatVars
  <2>9. QED
    BY <2>1, <2>2, <2>3, <2>5, <2>7, <2>8 DEF Next, TurnStep
<1>3. QED
  BY <1>1, <1>2, TypeInvariant, PTL DEF Spec

(* A turn ends after at most 2 * TextLen + 4 segments of its own: the code  *)
(* between sendMessage and the end of the finally block has no other loop  *)
(* than the one over the tokens (ChatViewModel.kt 148-204).                *)
THEOREM TurnsGetOn == Spec => [][TurnsComeCloser]_vars
<1>1. TypeInv /\ TypeInv' /\ [Next]_vars => TurnsComeCloser
  <2> SUFFICES ASSUME TypeOK, TokensCounted, TypeOK', [Next]_vars,
                      NEW u \in Turns, turn[u] # "none"
               PROVE  \/ turn'[u] = turn[u] /\ sent'[u] = sent[u]
                      \/ SegmentsLeft(u)' \in 0..(SegmentsLeft(u) - 1)
    BY DEF TypeInv, TurnsComeCloser
  <2> USE ChatAssumption DEF TypeOK
  <2>1. sent[u] \in Nat /\ sent[u] <= TextLen /\ TextLen \in Nat
    OBVIOUS
  <2>2. ASSUME UNCHANGED <<turn, sent>>
        PROVE  turn'[u] = turn[u] /\ sent'[u] = sent[u]
    BY <2>2
  <2>3. ASSUME NEW t \in Turns, Send(t) \/ SendRefused(t)
        PROVE  turn'[u] = turn[u] /\ sent'[u] = sent[u]
    BY <2>3 DEF Send, SendRefused, streamVars
  <2>4. ASSUME NEW t \in Turns, TurnStep(t), t # u
        PROVE  turn'[u] = turn[u] /\ sent'[u] = sent[u]
    BY <2>4 DEF TurnStep, BuildPrompt, Generate, TokenRead, TokenWrite, Reply,
                Saved, Fail, Finally, streamVars
  <2>5. CASE BuildPrompt(u) \/ Generate(u) \/ TokenRead(u)
    <3>1. sent' = sent
      BY <2>5 DEF BuildPrompt, Generate, TokenRead
    <3>2. \/ turn[u] = "context" /\ turn'[u] = "generate"
          \/ turn[u] = "generate" /\ turn'[u] \in {"read", "return"}
          \/ turn[u] = "read" /\ turn'[u] \in {"write", "return"}
      BY <2>5 DEF BuildPrompt, Generate, TokenRead
    <3>3. /\ turn[u] = "generate" => sent[u] = 0
          /\ turn[u] = "read" => sent[u] < TextLen
      BY DEF TokensCounted
    <3> HIDE DEF TypeOK
    <3>4. QED
      BY <2>1, <3>1, <3>2, <3>3 DEF SegmentsLeft
  <2>6. CASE TokenWrite(u)
    <3>1. /\ turn[u] = "write" /\ turn'[u] \in {"read", "return"}
          /\ sent'[u] = sent[u] + 1
          /\ sent[u] < TextLen
      BY <2>6 DEF TokenWrite, TokensCounted
    <3> HIDE DEF TypeOK
    <3>2. QED
      BY <2>1, <3>1 DEF SegmentsLeft
  <2>7. CASE Reply(u) \/ Saved(u) \/ Fail(u)
    <3>1. \/ turn[u] \in {"context", "generate", "return", "save"} /\ turn'[u] = "done"
          \/ turn[u] = "return" /\ turn'[u] = "save"
      BY <2>7 DEF Reply, Saved, Fail, Finally
    <3> HIDE DEF TypeOK
    <3>2. QED
      BY <2>1, <3>1 DEF SegmentsLeft
  <2>8. ASSUME NEW l \in Loaders, LoaderStep(l) \/ RetryModelLoad(l)
        PROVE  UNCHANGED <<turn, sent>>
    BY <2>8 DEF LoaderStep, LoadStep, LoadFlag, Collect, RetryModelLoad,
                chatVars, streamVars
  <2>9. CASE Recompose \/ ClearChat \/ OnCleared \/ UNCHANGED vars
    BY <2>9, <2>2 DEF Recompose, ClearChat, OnCleared, vars, chatVars, streamVars
  <2>10. QED
    BY <2>2, <2>3, <2>4, <2>5, <2>6, <2>7, <2>8, <2>9 DEF Next, TurnStep
<1>2. QED
  BY <1>1, TypeInvariant, PTL DEF Spec

(* A loader's steps, as far as the state of the chat hangs on them. *)
LEMMA WayStep == TypeInv /\ WayInv /\ [Next]_vars => WayInv'
<1> SUFFICES ASSUME TypeOK, WayInv, [Next]_vars PROVE WayInv'
  BY DEF TypeInv
<1> USE DEF TypeOK, WayInv, ReadyOrOnItsWay, CanGoOn, Collects
<1>1. ASSUME NEW l \in Loaders, LoadStep(l)
      PROVE  WayInv'
  <2>1. /\ loader[l] \in {"start", "loading"}
        /\ loadProgress' \in Progress
        /\ loader' = [loader EXCEPT ![l] = IF loadProgress' = 10 THEN "flag" ELSE "loading"]
        /\ seen' = seen
    BY <1>1 DEF LoadStep, NextProgress, Progress
  <2>2. loader'[l] \in {"flag", "loading"} /\ (loadProgress' < 10 => loader'[l] = "loading")
    BY <2>1 DEF Progress
  <2>3. \A k \in Loaders : loader'[k] # "collect" => seen'[k] = NotSeen
    BY <2>1
  <2>4. QED
    BY <2>2, <2>3
<1>2. ASSUME NEW l \in Loaders, LoadFlag(l)
      PROVE  WayInv'
  <2>1. /\ loader[l] = "flag" /\ loader' = [loader EXCEPT ![l] = "loaded"]
        /\ UNCHANGED <<seen, loadProgress>>
    BY <1>2 DEF LoadFlag
  <2>2. seen'[l] # loadProgress' /\ loader'[l] = "loaded"
    BY <2>1 DEF Progress, NotSeen
  <2>3. QED
    BY <2>1, <2>2
<1>3. ASSUME NEW l \in Loaders, Collect(l)
      PROVE  WayInv'
  <2>1. /\ loader' = [loader EXCEPT ![l] = "collect"]
        /\ loader[l] \in {"loaded", "collect"}
        /\ seen' = [seen EXCEPT ![l] = loadProgress]
        /\ loadProgress' = loadProgress
        /\ loadProgress >= 10 => modelState' = "Success"
    BY <1>3 DEF Collect, Complete
  <2>2. loadProgress < 10 =>
          \E k \in Loaders : loader'[k] \in {"start", "loading"}
    BY <2>1
  <2>3. loadProgress \in Int
    BY DEF Progress
  <2>4. QED
    BY <2>1, <2>2, <2>3
<1>4. ASSUME NEW l \in Loaders, RetryModelLoad(l)
      PROVE  WayInv'
  BY <1>4 DEF RetryModelLoad
<1>5. ASSUME UNCHANGED <<modelState, loadProgress, loader, seen>>,
             cleared' = cleared \/ cleared'
      PROVE  WayInv'
  BY <1>5
<1>6. ASSUME NEW t \in Turns, Send(t) \/ SendRefused(t) \/ TurnStep(t)
      PROVE  WayInv'
  BY <1>6, <1>5 DEF Send, SendRefused, TurnStep, BuildPrompt, Generate,
    TokenRead, TokenWrite, Reply, Saved, Fail, modelVars
<1>7. CASE Recompose \/ ClearChat \/ OnCleared \/ UNCHANGED vars
  BY <1>7, <1>5 DEF Recompose, ClearChat, OnCleared, vars, chatVars, modelVars
<1>8. QED
  BY <1>1, <1>2, <1>3, <1>4, <1>6, <1>7 DEF Next, LoaderStep

(* No number of retries and of collectors that go on for ever leaves the   *)
(* chat unready with nothing to come (ChatViewModel.kt 80-109, 231-236).   *)
THEOREM NeverStuckUnready == Spec => []ReadyOrOnItsWay
<1>1. Init => WayInv
  BY ChatAssumption DEF Init, WayInv, ReadyOrOnItsWay, CanGoOn
<1>2. WayInv => ReadyOrOnItsWay
  BY DEF WayInv
<1>3. QED
  BY <1>1, <1>2, WayStep, TypeInvariant, PTL DEF Spec

=============================================================================
