--------------------------- MODULE SmolRepliesProofs ---------------------------
(***************************************************************************)
(* The proof of TidyReplies: what is in an instance stays in order through *)
(* any number of generations, benchmarks and loads, as long as completions *)
(* came one after the other and none was cut short.                        *)
(* Then what stands behind ResponsesEnd: the context of an instance fills  *)
(* with every pass of completionLoop and holds.                            *)
(***************************************************************************)
EXTENDS SmolLMManagerProofs

------------------------------------------------------------------------------
(* One instance *)

Orderly(ms) ==
  \A i \in 2..Len(ms) :
    Said(ms[i]) => ms[i - 1].role = "user" /\ ms[i].text = ms[i - 1].text

(* Nothing is left of a completion. *)
Quiescent(o) == o.response = {} /\ o.cache = "empty" /\ o.middle = FALSE

Sound(o) ==
  /\ Orderly(o.messages)
  /\ o.cache # "broken"
  /\ o.open = {} => Quiescent(o)

(* The completion r has its question behind it and only its own words.     *)
UnderWay(o, r) ==
  /\ Len(o.messages) > 0
  /\ o.messages[Len(o.messages)] = [role |-> "user", text |-> {r}]
  /\ o.response \subseteq {r}
  /\ \/ o.middle = TRUE /\ o.cache = "half"
     \/ o.middle = FALSE /\ o.cache = "empty"

LEMMA Parts ==
  ASSUME NEW o \in Instance(Responses)
  PROVE  /\ o.messages \in Seq(Message(Responses))
         /\ o.response \subseteq Responses /\ o.cache \in Caches
         /\ o.middle \in BOOLEAN /\ o.tidy \in BOOLEAN
BY DEF Instance, Message

LEMMA AppendOrderly ==
  ASSUME NEW ms \in Seq(Message(Responses)), NEW m \in Message(Responses), Orderly(ms),
         Said(m) /\ Len(ms) > 0 =>
           ms[Len(ms)].role = "user" /\ m.text = ms[Len(ms)].text
  PROVE  Orderly(Append(ms, m))
<1>1. /\ Len(Append(ms, m)) = Len(ms) + 1
      /\ \A i \in 1..Len(ms) : Append(ms, m)[i] = ms[i]
      /\ Append(ms, m)[Len(ms) + 1] = m
  BY AppendProperties
<1>2. Len(ms) \in Nat
  BY LenProperties
<1> SUFFICES ASSUME NEW i \in 2..(Len(ms) + 1), Said(Append(ms, m)[i])
             PROVE  /\ Append(ms, m)[i - 1].role = "user"
                    /\ Append(ms, m)[i].text = Append(ms, m)[i - 1].text
  BY <1>1 DEF Orderly
<1>3. i - 1 \in 1..Len(ms)
  BY <1>2
<1>4. CASE i = Len(ms) + 1
  <2>1. Append(ms, m)[i] = m /\ Append(ms, m)[i - 1] = ms[Len(ms)] /\ Len(ms) > 0
    BY <1>1, <1>2, <1>3, <1>4
  <2> QED
    BY <2>1
<1>5. CASE i # Len(ms) + 1
  <2>1. i \in 2..Len(ms)
    BY <1>2, <1>5
  <2>2. Append(ms, m)[i] = ms[i] /\ Append(ms, m)[i - 1] = ms[i - 1]
    BY <1>1, <1>2, <1>3, <2>1
  <2> QED
    BY <2>1, <2>2 DEF Orderly
<1> QED
  BY <1>4, <1>5

LEMMA ConcatOrderly ==
  ASSUME NEW ms \in Seq(Message(Responses)), NEW hs \in Seq(Message(Responses)),
         Orderly(ms), \A i \in 1..Len(hs) : ~Said(hs[i])
  PROVE  Orderly(ms \o hs)
<1>1. /\ Len(ms \o hs) = Len(ms) + Len(hs)
      /\ \A i \in 1..(Len(ms) + Len(hs)) :
           (ms \o hs)[i] = IF i <= Len(ms) THEN ms[i] ELSE hs[i - Len(ms)]
  BY ConcatProperties
<1>2. Len(ms) \in Nat /\ Len(hs) \in Nat
  BY LenProperties
<1> SUFFICES ASSUME NEW i \in 2..(Len(ms) + Len(hs)), Said((ms \o hs)[i])
             PROVE  /\ (ms \o hs)[i - 1].role = "user"
                    /\ (ms \o hs)[i].text = (ms \o hs)[i - 1].text
  BY <1>1 DEF Orderly
<1>3. i \in 1..(Len(ms) + Len(hs)) /\ i - 1 \in 1..(Len(ms) + Len(hs))
  BY <1>2
<1>4. i <= Len(ms)
  <2> SUFFICES ASSUME ~(i <= Len(ms)) PROVE FALSE
    OBVIOUS
  <2>1. (ms \o hs)[i] = hs[i - Len(ms)] /\ i - Len(ms) \in 1..Len(hs)
    BY <1>1, <1>2, <1>3
  <2> QED
    BY <2>1
<1>5. i \in 2..Len(ms) /\ i - 1 <= Len(ms)
  BY <1>2, <1>4
<1>6. (ms \o hs)[i] = ms[i] /\ (ms \o hs)[i - 1] = ms[i - 1]
  BY <1>1, <1>3, <1>5
<1> QED
  BY <1>5, <1>6 DEF Orderly

(* What a message does to an instance. *)
LEMMA MessageAdds ==
  ASSUME NEW o \in Instance(Responses), NEW role \in Roles,
         NEW text \in SUBSET Responses
  PROVE  LET p == WithMessage(o, role, text)
         IN /\ p \in Instance(Responses)
            /\ p.messages = Append(o.messages, [role |-> role, text |-> text])
            /\ p.response = o.response /\ p.cache = o.cache /\ p.middle = o.middle
            /\ p.open = o.open /\ p.tidy = o.tidy /\ p.batch = o.batch
            /\ p.used = o.used /\ p.alive = o.alive
<1> DEFINE ms == Append(o.messages, [role |-> role, text |-> text])
<1>1. WithMessage(o, role, text) = [o EXCEPT !.messages = ms]
  BY DEF WithMessage
<1>2. WithMessage(o, role, text) \in Instance(Responses)
  BY MessageType
<1> HIDE DEF ms
<1>3. \A x : LET p == [o EXCEPT !.messages = x]
             IN /\ p.messages = x
                /\ p.response = o.response /\ p.cache = o.cache /\ p.middle = o.middle
                /\ p.open = o.open /\ p.tidy = o.tidy /\ p.batch = o.batch
                /\ p.used = o.used /\ p.alive = o.alive
  BY DEF Instance
<1>4. PICK p \in Instance(Responses) : p = WithMessage(o, role, text)
  BY <1>2
<1>5. /\ p.messages = ms
      /\ p.response = o.response /\ p.cache = o.cache /\ p.middle = o.middle
      /\ p.open = o.open /\ p.tidy = o.tidy /\ p.batch = o.batch
      /\ p.used = o.used /\ p.alive = o.alive
  BY <1>1, <1>3, <1>4
<1> QED
  BY <1>4, <1>5 DEF ms

LEMMA AskedSound ==
  ASSUME NEW o \in Instance(Responses), NEW r \in Responses
  PROVE  /\ Asked(o, r).open = {r} /\ Started(o, r).open = {r}
         /\ Asked(o, r).tidy = TRUE \/ Started(o, r).tidy = TRUE =>
              o.tidy = TRUE /\ o.open = {}
         /\ Sound(o) /\ o.open = {} =>
              Sound(Asked(o, r)) /\ Sound(Started(o, r)) /\ UnderWay(Started(o, r), r)
<1> DEFINE m == [role |-> "user", text |-> {r}]
<1>1. "user" \in Roles /\ {r} \in SUBSET Responses /\ m \in Message(Responses)
  BY DEF Roles, Message
<1>2. PICK p \in Instance(Responses) :
        /\ p = WithMessage(o, "user", {r})
        /\ p.messages = Append(o.messages, m)
        /\ p.response = o.response /\ p.cache = o.cache /\ p.middle = o.middle
        /\ p.open = o.open /\ p.tidy = o.tidy
  BY <1>1, MessageAdds
<1>3. PICK b \in BOOLEAN : b = (p.tidy /\ o.open = {})
  OBVIOUS
<1>4. Asked(o, r) = [p EXCEPT !.open = {r}, !.tidy = b]
  BY <1>2, <1>3 DEF Asked, Instance
<1>5. PICK q \in Instance(Responses) : q = Asked(o, r)
  BY StartType
<1>6. /\ q.messages = p.messages /\ q.response = p.response /\ q.cache = p.cache
      /\ q.middle = p.middle /\ q.open = {r} /\ q.tidy = b
  BY <1>4, <1>5 DEF Instance
<1>7. PICK s : s = Started(o, r)
  OBVIOUS
<1>8. /\ s.messages = q.messages /\ s.response = q.response /\ s.cache = q.cache
      /\ s.middle = FALSE /\ s.open = q.open /\ s.tidy = q.tidy
  BY <1>5, <1>7 DEF Started, Instance
<1>9. b = TRUE => o.tidy = TRUE /\ o.open = {}
  BY <1>2, <1>3, Parts
<1>10. ASSUME Sound(o), o.open = {} PROVE Sound(q) /\ Sound(s) /\ UnderWay(s, r)
  <2>1. o.messages \in Seq(Message(Responses))
    BY Parts
  <2>2. ~Said(m)
    BY DEF Said
  <2>3. Orderly(Append(o.messages, m))
    BY <1>1, <1>10, <2>1, <2>2, AppendOrderly DEF Sound
  <2>4. Quiescent(o)
    BY <1>10 DEF Sound
  <2>5. /\ Len(Append(o.messages, m)) = Len(o.messages) + 1
        /\ Append(o.messages, m)[Len(o.messages) + 1] = m
        /\ Len(o.messages) \in Nat
    BY <1>1, <2>1, AppendProperties, LenProperties
  <2>6. {r} # {}
    OBVIOUS
  <2> HIDE DEF m
  <2>7. Sound(q) /\ Sound(s)
    BY <1>2, <1>6, <1>8, <2>3, <2>4, <2>6 DEF Sound, Quiescent
  <2>8. Len(s.messages) > 0 /\ s.messages[Len(s.messages)] = m
    BY <1>2, <1>6, <1>8, <2>5
  <2>9. UnderWay(s, r)
    BY <1>2, <1>6, <1>8, <2>4, <2>8 DEF UnderWay, Quiescent, m
  <2> QED
    BY <2>7, <2>9
<1> QED
  BY <1>5, <1>6, <1>7, <1>8, <1>9, <1>10

LEMMA DecodedKeeps ==
  ASSUME NEW o \in Instance(Responses)
  PROVE  LET p == Decoded(o)
         IN /\ p \in Instance(Responses)
            /\ p.messages = o.messages /\ p.response = o.response /\ p.cache = o.cache
            /\ p.middle = o.middle /\ p.open = o.open /\ p.tidy = o.tidy
<1>1. Decoded(o) \in Instance(Responses)
  BY DecodedType
<1>2. \A x : LET p == [o EXCEPT !.used = x]
             IN /\ p.messages = o.messages /\ p.response = o.response
                /\ p.cache = o.cache /\ p.middle = o.middle /\ p.open = o.open
                /\ p.tidy = o.tidy
  BY DEF Instance
<1>3. Decoded(o) = o \/ Decoded(o) = [o EXCEPT !.used = o.used + o.batch]
  BY DEF Decoded, Instance
<1> QED
  BY <1>1, <1>2, <1>3

LEMMA PieceSound ==
  ASSUME NEW o \in Instance(Responses), NEW r \in Responses, NEW byte \in Bytes
  PROVE  LET p == WithPiece(o, r, byte)
         IN /\ p.open = o.open
            /\ p.tidy = TRUE =>
                 /\ o.tidy = TRUE
                 /\ Sound(o) /\ UnderWay(o, r) /\ o.open = {r} =>
                      Sound(p) /\ UnderWay(p, r)
<1>1. PICK d \in Instance(Responses) :
        /\ d = Decoded(o)
        /\ d.messages = o.messages /\ d.response = o.response /\ d.cache = o.cache
        /\ d.middle = o.middle /\ d.open = o.open /\ d.tidy = o.tidy
  BY DecodedKeeps
<1>2. PICK c : c = Bytewise(o.cache, byte)
  OBVIOUS
<1>3. PICK t : t = IF c = "empty" THEN d.response \cup {r} ELSE d.response
  OBVIOUS
<1>4. PICK b \in BOOLEAN : b = (byte = "first" /\ o.tidy)
  OBVIOUS
<1>9. PICK y \in BOOLEAN : y = (o.tidy /\ Spelled(o, byte))
  OBVIOUS
<1>5. WithPiece(o, r, byte) =
        [d EXCEPT !.cache = c, !.middle = b, !.response = t, !.batch = 1, !.tidy = y]
  BY <1>1, <1>2, <1>3, <1>4, <1>9 DEF WithPiece, Instance
<1>6. PICK p : p = WithPiece(o, r, byte)
  OBVIOUS
<1>7. /\ p.messages = o.messages /\ p.response = t /\ p.cache = c /\ p.middle = b
      /\ p.open = o.open /\ p.tidy = y
  BY <1>1, <1>5, <1>6 DEF Instance
<1>10. y = TRUE => o.tidy = TRUE /\ Spelled(o, byte)
  BY <1>9, Parts
<1>8. ASSUME y = TRUE, Sound(o), UnderWay(o, r), o.open = {r}
      PROVE  Sound(p) /\ UnderWay(p, r)
  <2>1. \/ b = TRUE /\ c = "half"
        \/ b = FALSE /\ c = "empty"
    BY <1>2, <1>4, <1>8, <1>10 DEF UnderWay, Spelled, Bytewise, Bytes
  <2>2. t \subseteq {r}
    BY <1>1, <1>3, <1>8 DEF UnderWay
  <2>3. p.open # {}
    BY <1>7, <1>8
  <2>4. Sound(p)
    BY <1>7, <1>8, <2>1, <2>3 DEF Sound
  <2>5. UnderWay(p, r)
    BY <1>7, <1>8, <2>1, <2>2 DEF UnderWay
  <2> QED
    BY <2>4, <2>5
<1> QED
  BY <1>6, <1>7, <1>8, <1>10

LEMMA EndedSound ==
  ASSUME NEW o \in Instance(Responses), NEW r \in Responses
  PROVE  LET p == Ended(o)
         IN /\ p.open = o.open
            /\ p.tidy = TRUE =>
                 /\ o.tidy = TRUE
                 /\ Sound(o) /\ UnderWay(o, r) => Sound(p) /\ Quiescent(p)
<1> DEFINE m == [role |-> "assistant", text |-> o.response]
<1>1. PICK d \in Instance(Responses) :
        /\ d = Decoded(o)
        /\ d.messages = o.messages /\ d.response = o.response /\ d.cache = o.cache
        /\ d.middle = o.middle /\ d.open = o.open /\ d.tidy = o.tidy
  BY DecodedKeeps
<1>2. "assistant" \in Roles /\ o.response \in SUBSET Responses /\ m \in Message(Responses)
  BY Parts DEF Roles, Message
<1>3. PICK q \in Instance(Responses) :
        /\ q = WithMessage(d, "assistant", o.response)
        /\ q.messages = Append(d.messages, m)
        /\ q.cache = d.cache /\ q.middle = d.middle /\ q.open = d.open /\ q.tidy = d.tidy
  BY <1>2, MessageAdds
<1>4. PICK p : p = Ended(o)
  OBVIOUS
<1>8. PICK y \in BOOLEAN : y = (o.tidy /\ ~o.middle)
  OBVIOUS
<1>5. p = [q EXCEPT !.response = {}, !.tidy = y]
  BY <1>1, <1>3, <1>4, <1>8 DEF Ended, Instance
<1>6. /\ p.messages = Append(o.messages, m) /\ p.response = {} /\ p.cache = o.cache
      /\ p.middle = o.middle /\ p.open = o.open /\ p.tidy = y
  BY <1>1, <1>3, <1>5 DEF Instance
<1>9. y = TRUE => o.tidy = TRUE /\ o.middle = FALSE
  BY <1>8, Parts
<1>7. ASSUME y = TRUE, Sound(o), UnderWay(o, r) PROVE Sound(p) /\ Quiescent(p)
  <2>1. o.messages \in Seq(Message(Responses))
    BY Parts
  <2>2. Said(m) => m.text = {r}
    BY <1>7 DEF Said, UnderWay
  <2>3. /\ o.messages[Len(o.messages)].role = "user"
        /\ o.messages[Len(o.messages)].text = {r}
    BY <1>7 DEF UnderWay
  <2>4. Orderly(Append(o.messages, m))
    BY <1>2, <1>7, <2>1, <2>2, <2>3, AppendOrderly DEF Sound
  <2>5. Quiescent(p)
    BY <1>6, <1>7, <1>9 DEF Quiescent, UnderWay
  <2> QED
    BY <1>6, <2>4, <2>5 DEF Sound, Quiescent
<1> QED
  BY <1>4, <1>6, <1>7, <1>9

LEMMA StoppedSound ==
  ASSUME NEW o \in Instance(Responses)
  PROVE  LET p == Stopped(o)
         IN /\ p.open = {} /\ p.tidy = o.tidy
            /\ Sound(o) /\ Quiescent(o) => Sound(p)
<1> DEFINE m == [role |-> "assistant", text |-> o.response]
<1>1. "assistant" \in Roles /\ o.response \in SUBSET Responses /\ m \in Message(Responses)
  BY Parts DEF Roles, Message
<1>2. PICK q \in Instance(Responses) :
        /\ q = IF StoreChats THEN WithMessage(o, "assistant", o.response) ELSE o
        /\ q.messages = Append(o.messages, m) \/ q.messages = o.messages
        /\ q.cache = o.cache /\ q.middle = o.middle /\ q.tidy = o.tidy
  BY <1>1, MessageAdds
<1>3. PICK p : p = Stopped(o)
  OBVIOUS
<1>4. p = [q EXCEPT !.response = {}, !.open = {}]
  BY <1>2, <1>3 DEF Stopped
<1>5. /\ p.messages = q.messages /\ p.response = {} /\ p.cache = o.cache
      /\ p.middle = o.middle /\ p.open = {} /\ p.tidy = o.tidy
  BY <1>2, <1>4 DEF Instance
<1>6. ASSUME Sound(o), Quiescent(o) PROVE Sound(p)
  <2>1. o.messages \in Seq(Message(Responses)) /\ Orderly(o.messages)
    BY <1>6, Parts DEF Sound
  <2>2. ~Said(m)
    BY <1>6 DEF Said, Quiescent
  <2>3. Orderly(Append(o.messages, m))
    BY <1>1, <2>1, <2>2, AppendOrderly
  <2> QED
    BY <1>2, <1>5, <1>6, <2>1, <2>3 DEF Sound, Quiescent
<1> QED
  BY <1>3, <1>5, <1>6

(* A stored message is not said by the model. *)
LEMMA HistorySound ==
  ASSUME NEW o \in Instance(Responses), NEW b \in BOOLEAN, NEW messages \in Seq(Stored)
  PROVE  LET p == WithHistory(o, messages, b)
         IN /\ p.open = o.open
            /\ p.tidy = TRUE => o.tidy = TRUE /\ o.open = {} /\ b = TRUE
            /\ Sound(o) => Sound(p)
<1>2. \A i \in 1..Len(messages) : messages[i].text = {}
  <2>1. \A i \in 1..Len(messages) : messages[i] \in Stored
    BY ElementOfSeq
  <2> QED
    BY <2>1 DEF Stored
<1>3. \A i \in 1..Len(messages) : ~Said(messages[i])
  BY <1>2 DEF Said
<1>4. Stored \subseteq Message(Responses)
  BY DEF Message, Stored
<1>5. messages \in Seq(Message(Responses)) /\ o.messages \in Seq(Message(Responses))
  BY <1>4, SeqMonotonic, Parts
<1>6. PICK ms : ms = o.messages \o messages
  OBVIOUS
<1>7. PICK t \in BOOLEAN : t = (o.tidy /\ o.open = {} /\ b)
  BY Parts
<1>8. PICK p : p = WithHistory(o, messages, b)
  OBVIOUS
<1>9. p = [o EXCEPT !.messages = ms, !.tidy = t]
  BY <1>6, <1>7, <1>8 DEF WithHistory, Instance
<1>10. /\ p.messages = ms /\ p.response = o.response /\ p.cache = o.cache
       /\ p.middle = o.middle /\ p.open = o.open /\ p.tidy = t
  BY <1>9 DEF Instance
<1>11. Sound(o) => Sound(p)
  BY <1>3, <1>5, <1>6, <1>10, ConcatOrderly DEF Sound, Quiescent
<1>12. t = TRUE => o.tidy = TRUE /\ o.open = {} /\ b = TRUE
  BY <1>7, Parts
<1> QED
  BY <1>8, <1>10, <1>11, <1>12

------------------------------------------------------------------------------
(* The manager.  On a tidy instance one call at a time works; the          *)
(* completion that is open on it is the one whose calls go to it, as long  *)
(* as the pointer is at it, and it has its question behind it until it has *)
(* ended.                                                                  *)

Lone(l) == \A c, d \in Callers : inside[c] = l /\ inside[d] = l => c = d

InTouch(r, l) == nativePtr = l \/ inside[r] = l

Opened(r, l) ==
  response[r] \in {"in loop", "in stop"} /\ inside[r] = l => native[l].open = {r}

Courses(r, l) ==
  native[l].open = {r} =>
    /\ response[r] \notin {"none", "launched", "start", "in start"}
    /\ nativePtr = l /\ inside[r] # Nobody => inside[r] = l
    /\ InTouch(r, l) /\ response[r] \in {"loop", "in loop", "emit", "back"} =>
         UnderWay(native[l], r)
    /\ InTouch(r, l) /\ response[r] \in {"stop", "in stop"} => Quiescent(native[l])

Tidy(l) ==
  native[l].tidy = TRUE =>
    /\ Sound(native[l])
    /\ Lone(l)
    /\ \A r \in Responses : Opened(r, l) /\ Courses(r, l)

Outside == \A r \in Responses : response[r] \notin Entered => inside[r] = Nobody

Young(s) == s \in {"none", "launched", "native"}

(* Nobody knows an instance before its load has returned. *)
Unknown ==
  \A l \in Loads : Young(load[l]) =>
    nativePtr # l /\ \A c \in Callers : inside[c] # l

TidyInv == Outside /\ Unknown /\ \A l \in Loads : Tidy(l)

(* Where a generation may go by itself, outside of native code. *)
Strolls(from, to) ==
  \/ to = from
  \/ /\ from \notin Entered
     /\ to \notin Entered \cup {"stop", "none", "emit"}
     /\ to = "loop" => from = "back"
     /\ to = "back" => from \in {"emit", "back"}
     /\ to \in {"launched", "start"} => from \in {"none", "launched"}

(* An instance that a step leaves alone. *)
LEMMA Unmoved ==
  ASSUME NEW l \in Loads, native'[l] = native[l], Tidy(l),
         UNCHANGED <<nativePtr, inside, response>>
  PROVE  Tidy(l)'
<1> SUFFICES ASSUME native[l].tidy = TRUE PROVE Tidy(l)'
  BY DEF Tidy
<1>1. Lone(l)'
  BY DEF Tidy, Lone
<1>2. ASSUME NEW r \in Responses PROVE Opened(r, l)' /\ Courses(r, l)'
  BY DEF Tidy, Opened, Courses, InTouch
<1> QED
  BY <1>1, <1>2 DEF Tidy

(* A step outside of native code. *)
LEMMA TidyKept ==
  ASSUME Types, TidyInv, UNCHANGED <<native, nativePtr, inside>>,
         \A r \in Responses : Strolls(response[r], response'[r]),
         \A l \in Loads : Young(load'[l]) => Young(load[l])
  PROVE  TidyInv'
<1>1. Outside'
  BY DEF TidyInv, Outside, Strolls
<1>2. Unknown'
  BY DEF TidyInv, Unknown
<1>3. ASSUME NEW l \in Loads PROVE Tidy(l)'
  <2> SUFFICES ASSUME native[l].tidy = TRUE PROVE Tidy(l)'
    BY DEF Tidy
  <2>1. /\ Sound(native[l]) /\ Lone(l)
        /\ \A r \in Responses : Opened(r, l) /\ Courses(r, l)
    BY DEF TidyInv, Tidy
  <2>2. Lone(l)'
    BY <2>1 DEF Lone
  <2>3. ASSUME NEW r \in Responses PROVE Opened(r, l)' /\ Courses(r, l)'
    <3>1. Strolls(response[r], response'[r]) /\ Opened(r, l) /\ Courses(r, l)
      BY <2>1
    <3>2. Opened(r, l)'
      BY <3>1 DEF Opened, Strolls, Entered
    <3>3. Courses(r, l)'
      BY <3>1 DEF Courses, InTouch, Strolls, Entered
    <3> QED
      BY <3>2, <3>3
  <2> QED
    BY <2>1, <2>2, <2>3 DEF Tidy
<1> QED
  BY <1>1, <1>2, <1>3 DEF TidyInv

------------------------------------------------------------------------------
(* The main thread *)

LEMMA TidyMainStep ==
  ASSUME Types, TidyInv, MainStep
  PROVE  TidyInv'
<1>1. CASE Stop \/ RefuseUnload \/ ShowDialog \/ (\E b \in Benchmarks : LaunchBenchmark(b))
  <2>1. UNCHANGED <<native, nativePtr, inside, response, load>>
    BY <1>1 DEF Stop, RefuseUnload, ShowDialog, LaunchBenchmark, objects, loadVars
  <2> QED
    BY <2>1, TidyKept DEF Strolls
<1>2. ASSUME NEW l \in Loads, Load(l) PROVE TidyInv'
  <2>1. /\ UNCHANGED <<native, nativePtr, inside, response>>
        /\ load[l] = "none" /\ load' = [load EXCEPT ![l] = "launched"]
    BY <1>2 DEF Load, objects
  <2>2. \A k \in Loads : Young(load'[k]) => Young(load[k])
    BY <2>1 DEF Young, Types, TypeOK
  <2> QED
    BY <2>1, <2>2, TidyKept DEF Strolls
<1>3. ASSUME NEW r \in Responses, Send(r) PROVE TidyInv'
  <2>1. UNCHANGED <<native, nativePtr, inside, load>> /\ response[r] = "none"
    BY <1>3 DEF Send, objects, loadVars
  <2>2. response' = response \/ response' = [response EXCEPT ![r] = "launched"]
    BY <1>3 DEF Send, GetResponse
  <2>3. \A q \in Responses : Strolls(response[q], response'[q])
    BY <2>1, <2>2 DEF Strolls, Entered, Types, TypeOK
  <2> QED
    BY <2>1, <2>3, TidyKept
(* The destructor leaves what it wrote. *)
<1>4. CASE Unload
  <2>1. UNCHANGED <<nativePtr, inside, response, load>>
    BY <1>4 DEF Unload, loadVars
  <2>2. \/ native' = native
        \/ /\ nativePtr \in Loads
           /\ native' = [native EXCEPT ![nativePtr] = Closed(native[nativePtr])]
    BY <1>4 DEF Unload, Types, TypeOK
  <2>3. \A o \in Instance(Responses) :
          /\ Closed(o).messages = o.messages /\ Closed(o).response = o.response
          /\ Closed(o).cache = o.cache /\ Closed(o).middle = o.middle
          /\ Closed(o).open = o.open /\ Closed(o).tidy = o.tidy
    BY DEF Closed, Instance
  <2>4. \A l \in Loads : native[l] \in Instance(Responses)
    BY DEF Types, TypeOK
  <2>5. \A l \in Loads :
          /\ native'[l].messages = native[l].messages
          /\ native'[l].response = native[l].response
          /\ native'[l].cache = native[l].cache /\ native'[l].middle = native[l].middle
          /\ native'[l].open = native[l].open /\ native'[l].tidy = native[l].tidy
    <3>1. CASE native' = native
      BY <3>1
    <3>2. CASE native' # native
      <4> SUFFICES ASSUME NEW l \in Loads
                   PROVE  native'[l] = native[l] \/ native'[l] = Closed(native[l])
        BY <2>3, <2>4
      <4>1. native'[l] = IF l = nativePtr THEN Closed(native[l]) ELSE native[l]
        BY <2>2, <3>2 DEF Types, TypeOK
      <4> QED
        BY <4>1
    <3> QED
      BY <3>1, <3>2
  <2>6. \A l \in Loads : Tidy(l) => Tidy(l)'
    <3> SUFFICES ASSUME NEW l \in Loads, Tidy(l), native[l].tidy = TRUE PROVE Tidy(l)'
      BY <2>5 DEF Tidy
    <3>1. Sound(native[l])'
      BY <2>5 DEF Tidy, Sound, Quiescent
    <3>2. Lone(l)'
      BY <2>1 DEF Tidy, Lone
    <3>3. \A r \in Responses : Opened(r, l)'
      BY <2>1, <2>5 DEF Tidy, Opened
    <3>4. ASSUME NEW r \in Responses PROVE Courses(r, l)'
      <4>1. Courses(r, l)
        BY DEF Tidy
      <4>2. InTouch(r, l)' = InTouch(r, l)
        BY <2>1 DEF InTouch
      <4>3. UnderWay(native[l], r) => UnderWay(native[l], r)'
        BY <2>5 DEF UnderWay
      <4>4. Quiescent(native[l]) => Quiescent(native[l])'
        BY <2>5 DEF Quiescent
      <4>5. native'[l].open = native[l].open
        BY <2>5
      <4> QED
        BY <2>1, <4>1, <4>2, <4>3, <4>4, <4>5 DEF Courses
    <3> QED
      BY <3>1, <3>2, <3>3, <3>4 DEF Tidy
  <2> QED
    BY <2>1, <2>6 DEF TidyInv, Outside, Unknown
<1>5. CASE Forget
  <2>1. UNCHANGED <<native, inside, response, load>> /\ nativePtr' = Nobody
    BY <1>5 DEF Forget, loadVars
  <2>2. \A l \in Loads : l # Nobody
    BY SmolLMManagerAssumption
  <2>3. \A l \in Loads : Tidy(l) => Tidy(l)'
    BY <2>1, <2>2 DEF Tidy, Lone, Opened, Courses, InTouch
  <2> QED
    BY <2>1, <2>2, <2>3 DEF TidyInv, Outside, Unknown
<1> QED
  BY <1>1, <1>2, <1>3, <1>4, <1>5 DEF MainStep

------------------------------------------------------------------------------
(* The loads *)

(* A load that goes on adds to the instance the pointer is at, if at all. *)
LEMMA ProvidingGives ==
  ASSUME Types, NEW l \in Loads, Providing(l)
  PROVE  /\ nativePtr' = nativePtr /\ ~Young(load[l]) /\ ~Young(load'[l])
         /\ \/ UNCHANGED native
            \/ \E k \in Loads, messages \in Seq(Stored) :
                 /\ k = nativePtr
                 /\ native' = [native EXCEPT ![k] =
                                 WithHistory(native[k], messages, ~Shared(k))]
<1>1. nativePtr' = nativePtr
  BY DEF Providing, Instruct, Recall, Fill, Give, objects
<1>2. ~Young(load[l]) /\ ~Young(load'[l])
  BY DEF Providing, Instruct, Recall, Fill, Loading, Young, Types, TypeOK
<1>3. ASSUME NEW message \in Stored, Give(message), ~UNCHANGED native
      PROVE  \E k \in Loads, messages \in Seq(Stored) :
               /\ k = nativePtr
               /\ native' = [native EXCEPT ![k] =
                               WithHistory(native[k], messages, ~Shared(k))]
  <2>1. nativePtr \in Loads
    BY <1>3 DEF Give, Usable, Types, TypeOK
  <2>2. <<message>> \in Seq(Stored)
    OBVIOUS
  <2> QED
    BY <1>3, <2>1, <2>2 DEF Give
<1>4. CASE Instruct(l) /\ ~UNCHANGED native
  <2>1. [role |-> "system", text |-> {}] \in Stored
    BY DEF Stored, Roles
  <2>2. Give([role |-> "system", text |-> {}])
    BY <1>4 DEF Instruct, objects
  <2> QED
    BY <1>1, <1>2, <1>3, <1>4, <2>1, <2>2
<1>5. CASE Recall(l)
  BY <1>1, <1>2, <1>5 DEF Recall, objects
<1>6. CASE Fill(l) /\ ~UNCHANGED native
  BY <1>1, <1>2, <1>3, <1>6, FillingFacts DEF Fill
<1> QED
  BY <1>1, <1>2, <1>4, <1>5, <1>6 DEF Providing

LEMMA TidyLoadStep ==
  ASSUME Types, TidyInv, NEW l \in Loads, LoadStep(l)
  PROVE  TidyInv'
<1>1. UNCHANGED <<response, inside>> /\ \A k \in Loads \ {l} : load'[k] = load[k]
  BY LoadStepEffect
<1>2. CASE \/ LoadCancelled(l) \/ LoadBegin(l) \/ LoadThrow(l) \/ LoadSuccess(l)
           \/ LoadError(l)
  <2>1. UNCHANGED objects
    BY <1>2 DEF LoadCancelled, LoadBegin, LoadThrow, LoadSuccess, LoadError
  <2>2. Young(load'[l]) => Young(load[l])
    BY <1>2 DEF LoadCancelled, LoadBegin, LoadThrow, LoadSuccess, LoadError, Loading,
       Young, Types, TypeOK
  <2> QED
    BY <1>1, <2>1, <2>2, TidyKept DEF objects, Strolls
(* A new instance has nothing in it and nobody has worked on it.           *)
<1>3. CASE LoadReturn(l)
  <2>1. /\ native' = [native EXCEPT ![l] = Loaded] /\ nativePtr' = l
        /\ load[l] = "native" /\ load' = [load EXCEPT ![l] = "returned"]
    BY <1>3 DEF LoadReturn, Loading
  <2>2. native'[l] = Loaded /\ \A k \in Loads \ {l} : native'[k] = native[k]
    BY <2>1 DEF Types, TypeOK
  <2>3. /\ Loaded.messages = <<>> /\ Loaded.response = {} /\ Loaded.cache = "empty"
        /\ Loaded.middle = FALSE /\ Loaded.open = {}
    BY DEF Loaded, Absent
  <2>4. Sound(Loaded)
    BY <2>3 DEF Sound, Quiescent, Orderly
  <2>5. \A c \in Callers : inside[c] # l
    BY <2>1 DEF TidyInv, Unknown, Young
  <2>6. Tidy(l)'
    <3>1. Lone(l)'
      BY <1>1, <2>5 DEF Lone
    <3>2. \A r \in Responses : Opened(r, l)' /\ Courses(r, l)'
      BY <1>1, <2>2, <2>3, <2>5 DEF Opened, Courses, Callers
    <3> QED
      BY <2>2, <2>4, <3>1, <3>2 DEF Tidy
  <2>7. \A k \in Loads \ {l} : Tidy(k)'
    <3> SUFFICES ASSUME NEW k \in Loads, k # l, native[k].tidy = TRUE PROVE Tidy(k)'
      BY <2>2 DEF Tidy
    <3>1. /\ Sound(native[k]) /\ Lone(k)
          /\ \A r \in Responses : Opened(r, k) /\ Courses(r, k)
      BY DEF TidyInv, Tidy
    <3>2. native'[k] = native[k] /\ nativePtr' # k
      BY <2>1, <2>2
    <3>3. Lone(k)'
      BY <1>1, <3>1 DEF Lone
    <3>4. ASSUME NEW r \in Responses PROVE Opened(r, k)' /\ Courses(r, k)'
      <4>1. Opened(r, k) /\ Courses(r, k)
        BY <3>1
      <4>2. Opened(r, k)'
        BY <1>1, <3>2, <4>1 DEF Opened
      <4>3. InTouch(r, k)' => InTouch(r, k)
        BY <1>1, <3>2 DEF InTouch
      <4>4. Courses(r, k)'
        BY <1>1, <3>2, <4>1, <4>3 DEF Courses
      <4> QED
        BY <4>2, <4>4
    <3> QED
      BY <3>1, <3>2, <3>3, <3>4 DEF Tidy
  <2>8. load'[l] = "returned"
    BY <2>1 DEF Types, TypeOK
  <2>9. Outside' /\ Unknown'
    BY <1>1, <2>1, <2>8 DEF TidyInv, Outside, Unknown, Young
  <2> QED
    BY <2>6, <2>7, <2>9 DEF TidyInv
<1>4. CASE Providing(l)
  <2>1. nativePtr' = nativePtr /\ ~Young(load[l]) /\ ~Young(load'[l])
    BY <1>4, ProvidingGives
  <2>2. \A k \in Loads : Young(load'[k]) => Young(load[k])
    BY <1>1, <2>1
  <2>3. CASE UNCHANGED native
    BY <1>1, <2>1, <2>2, <2>3, TidyKept DEF Strolls
  <2>4. CASE ~UNCHANGED native
    <3>1. PICK k \in Loads, messages \in Seq(Stored) :
            /\ k = nativePtr
            /\ native' = [native EXCEPT ![k] =
                            WithHistory(native[k], messages, ~Shared(k))]
      BY <1>4, <2>4, ProvidingGives
    <3>2. PICK o \in Instance(Responses) : o = native[k]
      BY DEF Types, TypeOK
    <3>3. PICK b \in BOOLEAN : b = ~Shared(k)
      OBVIOUS
    <3>4. native' = [native EXCEPT ![k] = WithHistory(o, messages, b)]
      BY <3>1, <3>2, <3>3
    <3>5. PICK p :
            /\ p = WithHistory(o, messages, b)
            /\ p.open = o.open
            /\ p.tidy = TRUE => o.tidy = TRUE /\ o.open = {} /\ b = TRUE
            /\ Sound(o) => Sound(p)
      BY HistorySound
    <3>6. /\ p.open = o.open
          /\ p.tidy = TRUE => o.tidy = TRUE /\ o.open = {} /\ b = TRUE
          /\ Sound(o) => Sound(p)
      BY <3>5
    <3>7. native'[k] = p /\ \A x \in Loads \ {k} : native'[x] = native[x]
      BY <3>4, <3>5 DEF Types, TypeOK
    <3>8. \A x \in Loads \ {k} : Tidy(x)'
      BY <1>1, <2>1, <3>7, Unmoved DEF TidyInv
    <3>9. Tidy(k)'
      <4> SUFFICES ASSUME p.tidy = TRUE PROVE Tidy(k)'
        BY <3>7 DEF Tidy
      <4>1. o.tidy = TRUE /\ p.open = {} /\ \A c \in Callers : inside[c] # k
        BY <3>3, <3>6 DEF Shared
      <4>2. Sound(p)
        BY <3>2, <3>6, <4>1 DEF TidyInv, Tidy
      <4>3. Lone(k)'
        BY <1>1, <4>1 DEF Lone
      <4>4. \A r \in Responses : Opened(r, k)' /\ Courses(r, k)'
        BY <1>1, <3>7, <4>1 DEF Opened, Courses, Callers
      <4> QED
        BY <3>7, <4>2, <4>3, <4>4 DEF Tidy
    <3>10. Outside' /\ Unknown'
      BY <1>1, <2>1, <2>2 DEF TidyInv, Outside, Unknown
    <3> QED
      BY <3>8, <3>9, <3>10 DEF TidyInv
  <2> QED
    BY <2>3, <2>4
<1> QED
  BY <1>2, <1>3, <1>4 DEF LoadStep, Providing

------------------------------------------------------------------------------
(* The generations *)

LEMMA TidyQuietStep ==
  ASSUME Types, TidyInv, NEW r \in Responses,
         \/ Begin(r) \/ Partial(r) \/ Resume(r) \/ Save(r) \/ Deliver(r)
         \/ DeliverCancelled(r) \/ Caught(r) \/ Report(r)
  PROVE  TidyInv'
<1>1. UNCHANGED <<objects, inside, load>>
  BY DEF Begin, Partial, Resume, Save, Deliver, DeliverCancelled, Caught, Report, Quiet,
     Goes, Crash, loadVars
<1> DEFINE Course ==
        \/ response' = response
        \/ /\ response[r] = "launched"
           /\ \E to \in {"ended", "start"} : response' = [response EXCEPT ![r] = to]
        \/ /\ response[r] \in {"emit", "back", "save", "deliver", "delivered", "caught",
                               "failed", "report"}
           /\ \E to \in {"caught", "deliver", "delivered", "failed", "ended", "report"} :
                 response' = [response EXCEPT ![r] = to]
        \/ /\ response[r] = "emit"
           /\ response' = [response EXCEPT ![r] = "back"]
        \/ /\ response[r] = "back"
           /\ response' = [response EXCEPT ![r] = "loop"]
<1>2. Course
  <2>1. CASE Begin(r) \/ Partial(r) \/ Resume(r)
    <3>1. CASE Begin(r)
      BY <3>1 DEF Begin, Goes
    <3>2. CASE Partial(r)
      BY <3>2 DEF Partial, Goes
    <3>3. CASE Resume(r)
      BY <3>3 DEF Resume, Goes
    <3> HIDE DEF Course
    <3> QED
      BY <2>1, <3>1, <3>2, <3>3
  <2>2. CASE Save(r) \/ Deliver(r) \/ DeliverCancelled(r)
    BY <2>2 DEF Save, Deliver, DeliverCancelled, Goes, Crash
  <2>3. CASE Caught(r) \/ Report(r)
    BY <2>3 DEF Caught, Report, Goes
  <2> HIDE DEF Course
  <2> QED
    BY <2>1, <2>2, <2>3
<1>3. \A q \in Responses : Strolls(response[q], response'[q])
  BY <1>2 DEF Strolls, Entered, Types, TypeOK
<1> QED
  BY <1>1, <1>3, TidyKept DEF objects

LEMMA TidyCrash ==
  ASSUME Types, TidyInv, NEW r \in Responses, Crash(r)
  PROVE  TidyInv'
BY TidyKept DEF Crash, objects, Strolls, loadVars

(* A call that begins finds the instance alone and its own completion open *)
(* on it, or the instance is no longer tidy.                               *)
LEMMA TidyEnter ==
  ASSUME Types, TidyInv, NEW r \in Responses, Enter(r)
  PROVE  TidyInv'
<1>1. CASE Crash(r)
  BY <1>1, TidyCrash
<1>2. CASE ~Crash(r)
  <2>0. PICK k \in Loads : k = nativePtr
    BY <1>2 DEF Enter, Callable, Usable, Types, TypeOK
  <2>1. k \in Loads /\ native[k] \in Instance(Responses)
    BY DEF Types, TypeOK
  <2>2. /\ response[r] \in {"start", "loop", "stop"}
        /\ inside' = [inside EXCEPT ![r] = k]
        /\ native' = [native EXCEPT ![k].tidy = @ /\ Undisturbed(r)]
        /\ nativePtr' = nativePtr /\ load' = load
        /\ response' = [response EXCEPT ![r] =
             CASE response[r] = "start" -> "in start"
               [] response[r] = "loop"  -> "in loop"
               [] response[r] = "stop"  -> "in stop"]
    BY <1>2, <2>0 DEF Enter, Goes, loadVars
  <2>3. PICK b \in BOOLEAN : b = (native[k].tidy /\ Undisturbed(r))
    OBVIOUS
  <2>4. PICK p : p = [native[k] EXCEPT !.tidy = b]
    OBVIOUS
  <2>5. native'[k] = p /\ \A l \in Loads \ {k} : native'[l] = native[l]
    BY <2>1, <2>2, <2>3, <2>4 DEF Types, TypeOK
  <2>6. /\ p.messages = native[k].messages /\ p.response = native[k].response
        /\ p.cache = native[k].cache /\ p.middle = native[k].middle
        /\ p.open = native[k].open /\ p.tidy = b
    BY <2>1, <2>4 DEF Instance
  <2>7. /\ inside'[r] = k /\ \A c \in Callers \ {r} : inside'[c] = inside[c]
        /\ inside[r] = Nobody
    BY <2>2 DEF Callers, Types, TypeOK, TidyInv, Outside, Entered
  <2>8. /\ \A q \in Responses \ {r} : response'[q] = response[q]
        /\ response[r] = "start" => response'[r] = "in start"
        /\ response[r] = "loop" => response'[r] = "in loop"
        /\ response[r] = "stop" => response'[r] = "in stop"
    BY <2>2 DEF Types, TypeOK
  <2>9. \A c \in Responses : c \in Callers
    BY DEF Callers
  <2>10. ASSUME NEW l \in Loads, l # k PROVE Tidy(l)'
    <3> SUFFICES ASSUME native[l].tidy = TRUE PROVE Tidy(l)'
      BY <2>5, <2>10 DEF Tidy
    <3>1. Sound(native[l]) /\ Lone(l) /\ \A q \in Responses : Opened(q, l) /\ Courses(q, l)
      BY DEF TidyInv, Tidy
    <3>2. Lone(l)'
      BY <2>7, <2>10, <3>1 DEF Lone
    <3>3. nativePtr # l /\ nativePtr' # l /\ inside'[r] # l /\ native'[l] = native[l]
      BY <2>0, <2>2, <2>5, <2>7, <2>10
    <3>4. ASSUME NEW q \in Responses PROVE Opened(q, l)' /\ Courses(q, l)'
      <4>1. CASE q = r
        BY <2>2, <2>8, <3>1, <3>3, <4>1 DEF Opened, Courses, InTouch
      <4>2. CASE q # r
        <5>1. inside'[q] = inside[q] /\ response'[q] = response[q]
          BY <2>7, <2>8, <2>9, <4>2
        <5> QED
          BY <3>1, <3>3, <5>1 DEF Opened, Courses, InTouch
      <4> QED
        BY <4>1, <4>2
    <3> QED
      BY <3>1, <3>2, <3>3, <3>4 DEF Tidy
  <2>11. Tidy(k)'
    <3> SUFFICES ASSUME b = TRUE PROVE Tidy(k)'
      BY <2>5, <2>6 DEF Tidy
    <3>1. /\ native[k].tidy = TRUE /\ \A c \in Callers : inside[c] # k
          /\ response[r] # "start" => native[k].open = {r}
      BY <2>0, <2>1, <2>3, Parts DEF Undisturbed, Shared
    <3>2. Sound(native[k]) /\ \A q \in Responses : Courses(q, k)
      BY <2>1, <3>1 DEF TidyInv, Tidy
    <3>3. Lone(k)'
      BY <2>7, <3>1 DEF Lone
    <3>4. Sound(p)
      BY <2>6, <3>2 DEF Sound, Quiescent
    <3>5. ASSUME NEW q \in Responses PROVE Opened(q, k)' /\ Courses(q, k)'
      <4>1. CASE q = r
        <5>1. Opened(r, k)'
          BY <2>2, <2>5, <2>6, <2>8, <3>1 DEF Opened
        <5>2. native[k].open = {r} => response[r] # "start"
          BY <3>2 DEF Courses
        <5>3. InTouch(r, k)
          BY <2>0 DEF InTouch
        <5>4. native[k].open = {r} /\ response[r] = "loop" => UnderWay(p, r)
          BY <2>6, <3>2, <5>3 DEF Courses, UnderWay
        <5>5. native[k].open = {r} /\ response[r] = "stop" => Quiescent(p)
          BY <2>6, <3>2, <5>3 DEF Courses, Quiescent
        <5>6. Courses(r, k)'
          BY <2>2, <2>5, <2>6, <2>7, <2>8, <5>2, <5>4, <5>5 DEF Courses
        <5> QED
          BY <4>1, <5>1, <5>6
      <4>2. CASE q # r
        <5>1. inside'[q] = inside[q] /\ response'[q] = response[q]
          BY <2>7, <2>8, <2>9, <4>2
        <5>2. inside[q] # k
          BY <2>9, <3>1
        <5>3. Opened(q, k)'
          BY <5>1, <5>2 DEF Opened
        <5>4. UnderWay(native[k], q) => UnderWay(p, q)
          BY <2>6 DEF UnderWay
        <5>5. Quiescent(native[k]) => Quiescent(p)
          BY <2>6 DEF Quiescent
        <5>6. InTouch(q, k)' = InTouch(q, k)
          BY <2>2, <5>1 DEF InTouch
        <5>7. Courses(q, k)'
          BY <2>2, <2>5, <2>6, <3>2, <5>1, <5>4, <5>5, <5>6 DEF Courses
        <5> QED
          BY <5>3, <5>7
      <4> QED
        BY <4>1, <4>2
    <3> QED
      BY <2>5, <3>3, <3>4, <3>5 DEF Tidy
  <2>12. Outside'
    BY <2>7, <2>8, <2>9, <2>2 DEF TidyInv, Outside, Entered
  <2>13. Unknown'
    BY <2>0, <2>2, <2>7 DEF TidyInv, Unknown
  <2> QED
    BY <2>10, <2>11, <2>12, <2>13 DEF TidyInv
<1> QED
  BY <1>1, <1>2

(* A call that ends leaves its instance in order, and nobody else was on   *)
(* it; the pointer is not at another instance with this completion open.   *)
LEMMA TidyLeave ==
  ASSUME Types, TidyInv, NEW r \in Responses, response[r] \in Entered,
         NEW k \in Loads, k = inside[r], NEW p,
         NEW to \in {"loop", "failed", "emit", "stop", "save"},
         Leave(r, p, to),
         p.tidy = TRUE =>
           /\ native[k].tidy = TRUE
           /\ Sound(p)
           /\ p.open \in {{r}, {}}
           /\ p.open = {r} /\ to \in {"loop", "emit"} => UnderWay(p, r)
           /\ p.open = {r} /\ to = "stop" => Quiescent(p)
  PROVE  TidyInv'
<1>1. CASE Crash(r)
  BY <1>1, TidyCrash
<1>2. CASE ~Crash(r)
  <2>1. /\ native' = [native EXCEPT ![k] = p]
        /\ response' = [response EXCEPT ![r] = to]
        /\ inside' = [inside EXCEPT ![r] = Nobody]
        /\ UNCHANGED <<nativePtr, load>>
    BY <1>2 DEF Leave, Goes, loadVars
  <2>2. native'[k] = p /\ \A l \in Loads \ {k} : native'[l] = native[l]
    BY <2>1 DEF Types, TypeOK
  <2>3. response'[r] = to /\ \A q \in Responses \ {r} : response'[q] = response[q]
    BY <2>1 DEF Types, TypeOK
  <2>4. inside'[r] = Nobody /\ \A c \in Callers \ {r} : inside'[c] = inside[c]
    BY <2>1 DEF Types, TypeOK, Callers
  <2>5. \A l \in Loads : l # Nobody
    BY SmolLMManagerAssumption
  <2>6. \A q \in Responses : q \in Callers
    BY DEF Callers
  <2>7. ASSUME NEW l \in Loads, native[l].tidy = TRUE PROVE Lone(l)'
    <3>1. Lone(l)
      BY <2>7 DEF TidyInv, Tidy
    <3> QED
      BY <2>4, <2>5, <3>1 DEF Lone
  <2>8. ASSUME NEW l \in Loads, l # k PROVE Tidy(l)'
    <3> SUFFICES ASSUME native[l].tidy = TRUE PROVE Tidy(l)'
      BY <2>2, <2>8 DEF Tidy
    <3>1. Sound(native[l]) /\ \A q \in Responses : Opened(q, l) /\ Courses(q, l)
      BY DEF TidyInv, Tidy
    <3>2. native'[l] = native[l]
      BY <2>2, <2>8
    <3>3. Opened(r, l)' /\ Courses(r, l)'
      <4>1. native[l].open = {r} => nativePtr # l
        BY <2>5, <2>8, <3>1 DEF Courses
      <4>2. Opened(r, l)'
        BY <2>4, <2>5 DEF Opened
      <4>3. Courses(r, l)'
        BY <2>1, <2>3, <2>4, <2>5, <3>2, <4>1 DEF Courses, InTouch
      <4> QED
        BY <4>2, <4>3
    <3>4. ASSUME NEW q \in Responses, q # r PROVE Opened(q, l)' /\ Courses(q, l)'
      <4>1. inside'[q] = inside[q] /\ response'[q] = response[q]
        BY <2>3, <2>4, <2>6, <3>4
      <4> QED
        BY <2>1, <3>1, <3>2, <4>1 DEF Opened, Courses, InTouch
    <3> QED
      BY <2>7, <3>1, <3>2, <3>3, <3>4 DEF Tidy
  <2>9. Tidy(k)'
    <3> SUFFICES ASSUME p.tidy = TRUE PROVE Tidy(k)'
      BY <2>2 DEF Tidy
    <3>1. native[k].tidy = TRUE /\ Lone(k)
      BY DEF TidyInv, Tidy
    <3>2. Opened(r, k)' /\ Courses(r, k)'
      <4>1. Opened(r, k)'
        BY <2>4, <2>5 DEF Opened
      <4>2. Courses(r, k)'
        BY <2>2, <2>3, <2>4 DEF Courses
      <4> QED
        BY <4>1, <4>2
    <3>3. ASSUME NEW q \in Responses, q # r PROVE Opened(q, k)' /\ Courses(q, k)'
      <4>1. inside'[q] # k
        BY <2>4, <2>6, <3>1, <3>3 DEF Lone
      <4>2. p.open # {q}
        BY <3>3
      <4> QED
        BY <2>2, <4>1, <4>2 DEF Opened, Courses
    <3> QED
      BY <2>2, <2>7, <3>1, <3>2, <3>3 DEF Tidy
  <2>10. Outside'
    BY <2>3, <2>4, <2>6 DEF TidyInv, Outside, Entered
  <2>11. Unknown'
    BY <2>1, <2>4, <2>5 DEF TidyInv, Unknown
  <2> QED
    BY <2>8, <2>9, <2>10, <2>11 DEF TidyInv
<1> QED
  BY <1>1, <1>2

LEMMA TidyCalls ==
  ASSUME Types, TidyInv, NEW r \in Responses,
         StartCompletion(r) \/ CompletionLoop(r) \/ StopCompletion(r)
  PROVE  TidyInv'
<1>1. response[r] \in Entered
  BY DEF StartCompletion, CompletionLoop, StopCompletion, Entered
<1>2. PICK k \in Loads : k = inside[r]
  BY <1>1 DEF Types, Insides
<1>3. PICK o \in Instance(Responses) : o = native[k]
  BY DEF Types, TypeOK
<1>4. o.tidy = TRUE => Sound(o) /\ Opened(r, k) /\ Courses(r, k)
  BY <1>3 DEF TidyInv, Tidy
<1>5. InTouch(r, k)
  BY <1>2 DEF InTouch
<1>6. CASE StartCompletion(r)
  <2>1. Leave(r, Started(o, r), "loop") \/ Leave(r, Asked(o, r), "failed")
    BY <1>2, <1>3, <1>6 DEF StartCompletion
  <2>2. /\ Asked(o, r).open = {r} /\ Started(o, r).open = {r}
        /\ Asked(o, r).tidy = TRUE \/ Started(o, r).tidy = TRUE =>
             o.tidy = TRUE /\ o.open = {}
        /\ Sound(o) /\ o.open = {} =>
             Sound(Asked(o, r)) /\ Sound(Started(o, r)) /\ UnderWay(Started(o, r), r)
    BY AskedSound
  <2>3. CASE Leave(r, Started(o, r), "loop")
    <3> DEFINE p == Started(o, r)
    <3>1. p.tidy = TRUE => /\ native[k].tidy = TRUE /\ Sound(p) /\ p.open \in {{r}, {}}
                           /\ UnderWay(p, r)
      BY <1>3, <1>4, <2>2
    <3> HIDE DEF p
    <3>2. Leave(r, p, "loop")
      BY <2>3 DEF p
    <3> QED
      BY <1>1, <1>2, <3>1, <3>2, TidyLeave
  <2>4. CASE Leave(r, Asked(o, r), "failed")
    <3> DEFINE p == Asked(o, r)
    <3>1. p.tidy = TRUE => native[k].tidy = TRUE /\ Sound(p) /\ p.open \in {{r}, {}}
      BY <1>3, <1>4, <2>2
    <3> HIDE DEF p
    <3>2. Leave(r, p, "failed")
      BY <2>4 DEF p
    <3> QED
      BY <1>1, <1>2, <3>1, <3>2, TidyLeave
  <2> QED
    BY <2>1, <2>3, <2>4
<1>7. CASE CompletionLoop(r)
  <2>1. response[r] = "in loop"
    BY <1>7 DEF CompletionLoop
  <2>2. o.tidy = TRUE => Sound(o) /\ o.open = {r} /\ UnderWay(o, r)
    BY <1>2, <1>3, <1>4, <1>5, <2>1 DEF Opened, Courses
  <2>3. \/ Leave(r, o, "failed")
        \/ \E byte \in Bytes : Leave(r, WithPiece(o, r, byte), "emit")
        \/ Leave(r, Ended(o), "stop")
    BY <1>2, <1>3, <1>7 DEF CompletionLoop
  <2>4. CASE Leave(r, o, "failed")
    BY <1>1, <1>2, <1>3, <2>2, <2>4, TidyLeave
  <2>5. ASSUME NEW byte \in Bytes, Leave(r, WithPiece(o, r, byte), "emit")
        PROVE  TidyInv'
    <3> DEFINE p == WithPiece(o, r, byte)
    <3>1. /\ p.open = o.open
          /\ p.tidy = TRUE =>
               /\ o.tidy = TRUE
               /\ Sound(o) /\ UnderWay(o, r) /\ o.open = {r} =>
                    Sound(p) /\ UnderWay(p, r)
      BY PieceSound
    <3> HIDE DEF p
    <3>2. p.tidy = TRUE => /\ native[k].tidy = TRUE /\ Sound(p) /\ p.open \in {{r}, {}}
                           /\ UnderWay(p, r)
      BY <1>3, <2>2, <3>1
    <3>3. Leave(r, p, "emit")
      BY <2>5 DEF p
    <3> QED
      BY <1>1, <1>2, <3>2, <3>3, TidyLeave
  <2>6. CASE Leave(r, Ended(o), "stop")
    <3> DEFINE p == Ended(o)
    <3>1. /\ p.open = o.open
          /\ p.tidy = TRUE =>
               /\ o.tidy = TRUE
               /\ Sound(o) /\ UnderWay(o, r) => Sound(p) /\ Quiescent(p)
      BY EndedSound
    <3> HIDE DEF p
    <3>2. p.tidy = TRUE => /\ native[k].tidy = TRUE /\ Sound(p) /\ p.open \in {{r}, {}}
                           /\ Quiescent(p)
      BY <1>3, <2>2, <3>1
    <3>3. Leave(r, p, "stop")
      BY <2>6 DEF p
    <3> QED
      BY <1>1, <1>2, <3>2, <3>3, TidyLeave
  <2> QED
    BY <2>3, <2>4, <2>5, <2>6
<1>8. CASE StopCompletion(r)
  <2>1. response[r] = "in stop" /\ Leave(r, Stopped(o), "save")
    BY <1>2, <1>3, <1>8 DEF StopCompletion
  <2>2. o.tidy = TRUE => Sound(o) /\ Quiescent(o)
    BY <1>2, <1>3, <1>4, <1>5, <2>1 DEF Opened, Courses
  <2> DEFINE p == Stopped(o)
  <2>3. /\ p.open = {} /\ p.tidy = o.tidy
        /\ Sound(o) /\ Quiescent(o) => Sound(p)
    BY StoppedSound
  <2> HIDE DEF p
  <2>4. p.tidy = TRUE => native[k].tidy = TRUE /\ Sound(p) /\ p.open \in {{r}, {}}
    BY <1>3, <2>2, <2>3
  <2>5. p.open # {r} /\ Leave(r, p, "save")
    BY <2>1, <2>3 DEF p
  <2> QED
    BY <1>1, <1>2, <2>4, <2>5, TidyLeave
<1> QED
  BY <1>6, <1>7, <1>8

(* A benchmark writes nothing but the cache it clears, which replies are   *)
(* not made of; but nothing is said of an instance it shares.              *)
LEMMA TidyBenchmark ==
  ASSUME Types, TidyInv, NEW b \in Benchmarks, BenchmarkStep(b)
  PROVE  TidyInv'
<1>1. UNCHANGED <<nativePtr, response, load>>
  BY BenchmarkEffect DEF jobs, loadVars
<1>2. b \notin Responses /\ b \in Callers /\ \A q \in Responses : q \in Callers \ {b}
  BY SmolLMManagerAssumption DEF Callers
<1>3. CASE UNCHANGED <<native, inside>>
  BY <1>1, <1>3, TidyKept DEF Strolls
(* What is left of the instance, and who is on it. *)
<1>4. ASSUME NEW k \in Loads, NEW p, NEW home \in {k, Nobody},
             native' = [native EXCEPT ![k] = p],
             inside' = [inside EXCEPT ![b] = home],
             p.messages = native[k].messages, p.response = native[k].response,
             p.cache = native[k].cache, p.middle = native[k].middle,
             p.open = native[k].open,
             p.tidy = TRUE => native[k].tidy = TRUE,
             p.tidy = TRUE /\ home = k => \A c \in Callers : inside[c] # k,
             home = k => nativePtr = k
      PROVE  TidyInv'
  <2>1. native'[k] = p /\ \A l \in Loads \ {k} : native'[l] = native[l]
    BY <1>4 DEF Types, TypeOK
  <2>2. inside'[b] = home /\ \A c \in Callers \ {b} : inside'[c] = inside[c]
    BY <1>2, <1>4 DEF Types, TypeOK
  <2>3. \A l \in Loads : l # Nobody
    BY SmolLMManagerAssumption
  <2>4. \A q \in Responses : inside'[q] = inside[q]
    BY <1>2, <2>2
  <2>5. ASSUME NEW l \in Loads PROVE Tidy(l)'
    <3> SUFFICES ASSUME native'[l].tidy = TRUE PROVE Tidy(l)'
      BY DEF Tidy
    <3>1. native[l].tidy = TRUE
      BY <1>4, <2>1
    <3>2. /\ Sound(native[l]) /\ Lone(l)
          /\ \A r \in Responses : Opened(r, l) /\ Courses(r, l)
      BY <3>1 DEF TidyInv, Tidy
    <3>3. /\ native'[l].messages = native[l].messages
          /\ native'[l].response = native[l].response
          /\ native'[l].cache = native[l].cache /\ native'[l].middle = native[l].middle
          /\ native'[l].open = native[l].open
      BY <1>4, <2>1
    <3>4. Sound(native[l])'
      BY <3>2, <3>3 DEF Sound, Quiescent
    <3>5. Lone(l)'
      <4>1. CASE home = Nobody \/ l # k
        BY <2>2, <2>3, <3>2, <4>1 DEF Lone
      <4>2. CASE home = k /\ l = k
        <5>1. \A c \in Callers : inside[c] # k
          BY <1>4, <2>1, <4>2
        <5> QED
          BY <2>2, <4>2, <5>1 DEF Lone
      <4> QED
        BY <4>1, <4>2
    <3>6. ASSUME NEW r \in Responses PROVE Opened(r, l)' /\ Courses(r, l)'
      <4>1. Opened(r, l) /\ Courses(r, l)
        BY <3>2
      <4>2. Opened(r, l)'
        BY <1>1, <2>4, <3>3, <4>1 DEF Opened
      <4>3. InTouch(r, l)' = InTouch(r, l)
        BY <1>1, <2>4 DEF InTouch
      <4>4. UnderWay(native[l], r) => UnderWay(native[l], r)'
        BY <3>3 DEF UnderWay
      <4>5. Quiescent(native[l]) => Quiescent(native[l])'
        BY <3>3 DEF Quiescent
      <4>6. Courses(r, l)'
        BY <1>1, <2>4, <3>3, <4>1, <4>3, <4>4, <4>5 DEF Courses
      <4> QED
        BY <4>2, <4>6
    <3> QED
      BY <3>4, <3>5, <3>6 DEF Tidy
  <2>6. Outside'
    BY <1>1, <2>4 DEF TidyInv, Outside
  <2>7. Unknown'
    BY <1>1, <1>4, <2>2, <2>3 DEF TidyInv, Unknown
  <2> QED
    BY <2>5, <2>6, <2>7 DEF TidyInv
<1>5. CASE BenchmarkEnter(b) /\ ~UNCHANGED <<native, inside>>
  <2>1. PICK k \in Loads : k = nativePtr
    BY <1>5 DEF BenchmarkEnter, Usable, Types, TypeOK
  <2>2. PICK o \in Instance(Responses) : o = native[k]
    BY DEF Types, TypeOK
  <2>3. PICK t \in BOOLEAN : t = (o.tidy /\ ~Shared(k))
    BY Parts
  <2>4. PICK p : p = [o EXCEPT !.tidy = t]
    OBVIOUS
  <2>5. /\ native' = [native EXCEPT ![k].tidy = @ /\ ~Shared(k)]
        /\ inside' = [inside EXCEPT ![b] = k]
    BY <1>5, <2>1 DEF BenchmarkEnter
  <2>6. native' = [native EXCEPT ![k] = p]
    BY <2>2, <2>3, <2>4, <2>5
  <2>7. /\ p.messages = o.messages /\ p.response = o.response /\ p.cache = o.cache
        /\ p.middle = o.middle /\ p.open = o.open /\ p.tidy = t
    BY <2>4 DEF Instance
  <2>8. t = TRUE => o.tidy = TRUE /\ \A c \in Callers : inside[c] # k
    BY <2>3, Parts DEF Shared
  <2> QED
    BY <1>4, <2>1, <2>2, <2>5, <2>6, <2>7, <2>8
<1>6. CASE BenchmarkLeave(b) /\ ~UNCHANGED <<native, inside>>
  <2>1. PICK k \in Loads : k = inside[b]
    BY <1>6 DEF BenchmarkLeave, Types, Insides
  <2>2. PICK o \in Instance(Responses) : o = native[k]
    BY DEF Types, TypeOK
  <2>3. PICK p : p = Benched(o)
    OBVIOUS
  <2>4. /\ native' = [native EXCEPT ![k] = p]
        /\ inside' = [inside EXCEPT ![b] = Nobody]
    BY <1>6, <2>1, <2>2, <2>3 DEF BenchmarkLeave
  <2>5. /\ p.messages = o.messages /\ p.response = o.response /\ p.cache = o.cache
        /\ p.middle = o.middle /\ p.open = o.open /\ p.tidy = o.tidy
    BY <2>3 DEF Benched, Instance
  <2>6. k # Nobody
    BY SmolLMManagerAssumption
  <2> QED
    BY <1>4, <2>2, <2>4, <2>5, <2>6
<1> QED
  BY <1>3, <1>5, <1>6 DEF BenchmarkStep

------------------------------------------------------------------------------
LEMMA TidyInit == Init => TidyInv
<1> SUFFICES ASSUME Init PROVE TidyInv
  OBVIOUS
<1>1. /\ Absent.messages = <<>> /\ Absent.response = {} /\ Absent.cache = "empty"
      /\ Absent.middle = FALSE /\ Absent.open = {}
  BY DEF Absent
<1>2. Sound(Absent)
  BY <1>1 DEF Sound, Quiescent, Orderly
<1>3. /\ native = [l \in Loads |-> Absent] /\ nativePtr = Nobody
      /\ response = [r \in Responses |-> "none"]
      /\ inside = [c \in Callers |-> Nobody]
  BY DEF Init
<1>4. \A l \in Loads : l # Nobody
  BY SmolLMManagerAssumption
<1>5. ASSUME NEW l \in Loads PROVE Tidy(l)
  <2>1. Lone(l)
    BY <1>3, <1>4 DEF Lone
  <2>2. \A r \in Responses : Opened(r, l) /\ Courses(r, l)
    BY <1>1, <1>3 DEF Opened, Courses
  <2> QED
    BY <1>2, <1>3, <2>1, <2>2 DEF Tidy
<1>6. Outside /\ Unknown
  BY <1>3, <1>4 DEF Outside, Unknown, Callers
<1> QED
  BY <1>5, <1>6 DEF TidyInv

LEMMA TidyStep ==
  ASSUME Types, TidyInv, [Next]_vars
  PROVE  TidyInv'
<1>1. CASE UNCHANGED <<objects, inside, response, load>>
  BY <1>1, TidyKept DEF objects, Strolls
<1>2. CASE UNCHANGED vars
  BY <1>1, <1>2 DEF vars, loadVars
<1>3. CASE Events
  BY <1>1, <1>3, EventsEffect DEF loadVars
<1>4. CASE MainStep
  BY <1>4, TidyMainStep
<1>5. ASSUME NEW l \in Loads, LoadStep(l) PROVE TidyInv'
  BY <1>5, TidyLoadStep
<1>6. ASSUME NEW r \in Responses, ResponseStep(r) PROVE TidyInv'
  BY <1>6, TidyEnter, TidyCalls, TidyQuietStep DEF ResponseStep
<1>7. ASSUME NEW b \in Benchmarks, BenchmarkStep(b) PROVE TidyInv'
  BY <1>7, TidyBenchmark
<1> QED
  BY <1>2, <1>3, <1>4, <1>5, <1>6, <1>7 DEF Next, BenchmarkStep

LEMMA TidyInvHolds ==
  ASSUME Types, TidyInv
  PROVE  TidyReplies
<1> SUFFICES ASSUME NEW l \in Loads, native[l].tidy
             PROVE  /\ native[l].cache # "broken"
                    /\ Orderly(native[l].messages)
  BY DEF TidyReplies, Orderly
<1>1. native[l] \in Instance(Responses)
  BY DEF Types, TypeOK
<1>2. native[l].tidy = TRUE
  BY <1>1, Parts
<1> QED
  BY <1>2 DEF TidyInv, Tidy, Sound

(* The words of the model reach its messages once, whole and behind their  *)
(* question, and its bytes become characters, through any number of        *)
(* generations, benchmarks and loads that keep out of each other's way.    *)
THEOREM RepliesAreTidy == Spec => []TidyReplies
<1>1. Types /\ TidyInv /\ [Next]_vars => TidyInv'
  BY TidyStep
<1>2. Types /\ TidyInv => TidyReplies
  BY TidyInvHolds
<1> QED
  BY <1>1, <1>2, TidyInit, SmolTypes, PTL DEF Spec
------------------------------------------------------------------------------
(* What stands behind ResponsesEnd.  That every reply ends is a liveness   *)
(* property, and stays with the runs; that no conversation can go on and   *)
(* on in one context follows from two facts about single steps.            *)

(* completionLoop looks at the size of the context before it decodes.      *)
ContextHolds == \A l \in Loads : native[l].used <= ContextSize

(* A pass of completionLoop that does not fail takes up room, and nothing  *)
(* but a benchmark makes room again.                                       *)
ContextFills ==
  /\ \A r \in Responses :
       response[r] = "in loop" /\ response'[r] \in {"emit", "stop"} =>
         native'[inside[r]].used > native[inside[r]].used
  /\ \A l \in Loads :
       native'[l].used < native[l].used =>
         \E b \in Benchmarks : inside[b] = l /\ benchmark'[b] = "ended"

(* An instance that has not been handed out is empty, and one that is in   *)
(* completionLoop has a batch with something in it.                        *)
ContextInv ==
  /\ ContextHolds
  /\ \A l \in Loads : Young(load[l]) => native[l].used = 0
  /\ \A r \in Responses : response[r] = "in loop" => native[inside[r]].batch # 0

(* What the methods do to the room that is taken and to the batch. *)
SameRoom(p, o) ==
  /\ p.used = o.used
  /\ o.batch # 0 => p.batch # 0

LEMMA SameRoomIsNotLess ==
  ASSUME NEW o \in Instance(Responses), NEW p, SameRoom(p, o)
  PROVE  ~(p.used < o.used)
<1>1. o.used \in Nat /\ p.used = o.used
  BY DEF SameRoom, Instance
<1> QED
  BY <1>1

LEMMA MessagesTakeNoRoom ==
  ASSUME NEW o \in Instance(Responses), NEW r \in Responses
  PROVE  /\ SameRoom(Asked(o, r), o)
         /\ SameRoom(Started(o, r), o)
         /\ Started(o, r).batch # 0
         /\ SameRoom(Stopped(o), o)
<1>1. "user" \in Roles /\ "assistant" \in Roles /\ {r} \in SUBSET Responses
  BY DEF Roles
<1>2. o.response \in SUBSET Responses
  BY Parts
<1>3. PICK p \in Instance(Responses) :
        /\ p = WithMessage(o, "user", {r})
        /\ p.used = o.used /\ p.batch = o.batch
  BY <1>1, MessageAdds
<1>4. PICK b : b = (p.tidy /\ o.open = {})
  OBVIOUS
<1>5. Asked(o, r) = [p EXCEPT !.open = {r}, !.tidy = b]
  BY <1>3, <1>4 DEF Asked, Instance
<1>6. PICK q \in Instance(Responses) : q = Asked(o, r)
  BY StartType
<1>7. q.used = o.used /\ q.batch = o.batch
  BY <1>3, <1>5, <1>6 DEF Instance
<1>8. PICK n : n = Len(o.messages) + 1
  OBVIOUS
<1>9. n # 0
  <2>1. Len(o.messages) \in Nat
    BY Parts, LenProperties
  <2> QED
    BY <1>8, <2>1
<1>10. PICK s : s = [q EXCEPT !.batch = n, !.middle = FALSE]
  OBVIOUS
<1>11. s = Started(o, r)
  BY <1>6, <1>8, <1>10 DEF Started
<1>12. s.used = q.used /\ s.batch = n
  BY <1>10 DEF Instance
<1>13. PICK t \in Instance(Responses) :
         /\ t = IF StoreChats THEN WithMessage(o, "assistant", o.response) ELSE o
         /\ t.used = o.used /\ t.batch = o.batch
  BY <1>1, <1>2, MessageAdds
<1>14. PICK u : u = [t EXCEPT !.response = {}, !.open = {}]
  OBVIOUS
<1>15. u = Stopped(o)
  BY <1>13, <1>14 DEF Stopped
<1>16. u.used = t.used /\ u.batch = t.batch
  BY <1>14 DEF Instance
<1> QED
  BY <1>6, <1>7, <1>9, <1>11, <1>12, <1>13, <1>15, <1>16 DEF SameRoom

LEMMA HistoryTakesNoRoom ==
  ASSUME NEW o \in Instance(Responses), NEW b \in BOOLEAN, NEW messages
  PROVE  SameRoom(WithHistory(o, messages, b), o)
<1>1. PICK ms : ms = o.messages \o messages
  OBVIOUS
<1>2. PICK t : t = (o.tidy /\ o.open = {} /\ b)
  OBVIOUS
<1>3. PICK p : p = [o EXCEPT !.messages = ms, !.tidy = t]
  OBVIOUS
<1>4. p = WithHistory(o, messages, b)
  BY <1>1, <1>2, <1>3 DEF WithHistory, Instance
<1>5. p.used = o.used /\ p.batch = o.batch
  BY <1>3 DEF Instance
<1> QED
  BY <1>4, <1>5 DEF SameRoom

LEMMA FlagsTakeNoRoom ==
  ASSUME NEW o \in Instance(Responses), NEW b \in BOOLEAN
  PROVE  SameRoom([o EXCEPT !.tidy = @ /\ b], o) /\ SameRoom(Closed(o), o)
BY DEF Closed, SameRoom, Instance

(* A pass that finds room takes the batch's share of it. *)
TakesRoom(p, o) == p.used > o.used /\ p.used <= ContextSize /\ p.batch # 0

LEMMA PassTakesRoom ==
  ASSUME NEW o \in Instance(Responses), o.batch # 0, ~ContextReached(o),
         NEW r \in Responses
  PROVE  /\ \A byte \in Bytes : TakesRoom(WithPiece(o, r, byte), o)
         /\ TakesRoom(Ended(o), o)
<1>1. o.used \in Nat /\ o.batch \in Nat /\ ContextSize \in Nat
  BY LLMInferenceAssumption DEF Instance
<1>2. o.used + o.batch <= ContextSize
  BY <1>1 DEF ContextReached
<1>3. PICK n \in Nat : n = o.used + o.batch
  BY <1>1
<1>4. n > o.used /\ n <= ContextSize
  BY <1>1, <1>2, <1>3
<1>5. PICK d \in Instance(Responses) : d = Decoded(o)
  BY DecodedType
<1>6. d = [o EXCEPT !.used = n]
  BY <1>2, <1>3, <1>5 DEF Decoded, Instance
<1>7. d.used = n /\ d.batch = o.batch
  BY <1>6 DEF Instance
<1>8. ASSUME NEW byte \in Bytes
      PROVE  TakesRoom(WithPiece(o, r, byte), o)
  <2>1. PICK c : c = Bytewise(o.cache, byte)
    OBVIOUS
  <2>2. PICK t : t = IF c = "empty" THEN d.response \cup {r} ELSE d.response
    OBVIOUS
  <2>3. PICK m, y : m = (byte = "first" /\ o.tidy) /\ y = (d.tidy /\ Spelled(o, byte))
    OBVIOUS
  <2>4. PICK p : p = [d EXCEPT !.cache = c, !.middle = m, !.response = t, !.batch = 1,
                               !.tidy = y]
    OBVIOUS
  <2>5. p = WithPiece(o, r, byte)
    BY <1>5, <2>1, <2>2, <2>3, <2>4 DEF WithPiece, Instance
  <2>6. p.used = n /\ p.batch = 1
    BY <1>7, <2>4 DEF Instance
  <2> QED
    BY <1>4, <2>5, <2>6 DEF TakesRoom
<1>9. PICK q \in Instance(Responses) :
        /\ q = WithMessage(d, "assistant", o.response)
        /\ q.used = n /\ q.batch = o.batch
  <2>1. "assistant" \in Roles /\ o.response \in SUBSET Responses
    BY Parts DEF Roles
  <2>2. LET q == WithMessage(d, "assistant", o.response)
        IN q \in Instance(Responses) /\ q.used = d.used /\ q.batch = d.batch
    BY <2>1, MessageAdds
  <2> QED
    BY <1>7, <2>2
<1>14. PICK y : y = (q.tidy /\ ~o.middle)
  OBVIOUS
<1>10. PICK p : p = [q EXCEPT !.response = {}, !.tidy = y]
  OBVIOUS
<1>11. p = Ended(o)
  BY <1>5, <1>9, <1>10, <1>14 DEF Ended, Instance
<1>12. p.used = n /\ p.batch = o.batch
  BY <1>9, <1>10 DEF Instance
<1>13. TakesRoom(p, o)
  BY <1>4, <1>12 DEF TakesRoom
<1> QED
  BY <1>8, <1>11, <1>13

------------------------------------------------------------------------------
(* A step that takes no room and makes none, and in which no pass ends. *)
LEMMA RoomKept ==
  ASSUME Types, ContextInv,
         \A l \in Loads : SameRoom(native'[l], native[l]),
         \A l \in Loads : Young(load'[l]) => Young(load[l]),
         \A r \in Responses :
           /\ response'[r] = "in loop" =>
                \/ response[r] = "in loop" /\ inside'[r] = inside[r] /\ inside[r] \in Loads
                \/ native'[inside'[r]].batch # 0
           /\ response[r] = "in loop" => response'[r] \notin {"emit", "stop"}
  PROVE  ContextInv' /\ ContextFills
<1>1. \A l \in Loads : native'[l].used = native[l].used /\ native[l].used \in Nat
  BY DEF SameRoom, Types, TypeOK, Instance
<1>2. ContextHolds' /\ \A l \in Loads : Young(load'[l]) => native'[l].used = 0
  BY <1>1 DEF ContextInv, ContextHolds
<1>3. ASSUME NEW r \in Responses, response'[r] = "in loop"
      PROVE  native'[inside'[r]].batch # 0
  <2>1. CASE response[r] = "in loop" /\ inside'[r] = inside[r] /\ inside[r] \in Loads
    <3>1. native[inside[r]].batch # 0
      BY <2>1 DEF ContextInv
    <3>2. native'[inside[r]].batch # 0
      BY <2>1, <3>1 DEF SameRoom
    <3> QED
      BY <2>1, <3>2
  <2> QED
    BY <1>3, <2>1
<1>4. ContextFills
  <2>1. \A r \in Responses : ~(response[r] = "in loop" /\ response'[r] \in {"emit", "stop"})
    OBVIOUS
  <2>2. ASSUME NEW l \in Loads PROVE ~(native'[l].used < native[l].used)
    <3>1. native[l] \in Instance(Responses) /\ SameRoom(native'[l], native[l])
      BY DEF Types, TypeOK
    <3> QED
      BY <3>1, SameRoomIsNotLess
  <2> QED
    BY <2>1, <2>2 DEF ContextFills
<1> QED
  BY <1>2, <1>3, <1>4 DEF ContextInv

LEMMA SameInstances ==
  ASSUME UNCHANGED native
  PROVE  \A l \in Loads : SameRoom(native'[l], native[l])
BY DEF SameRoom

LEMMA OneInstance ==
  ASSUME Types, NEW k \in Loads, NEW p, native' = [native EXCEPT ![k] = p],
         SameRoom(p, native[k])
  PROVE  \A l \in Loads : SameRoom(native'[l], native[l])
BY DEF SameRoom, Types, TypeOK

LEMMA LoopIsInside ==
  ASSUME Types, NEW r \in Responses, response[r] = "in loop"
  PROVE  inside[r] \in Loads
BY DEF Types, Insides, Entered

LEMMA RoomMainStep ==
  ASSUME Types, ContextInv, MainStep
  PROVE  ContextInv' /\ ContextFills
<1>1. UNCHANGED inside
  BY DEF MainStep, Stop, RefuseUnload, Unload, Forget, ShowDialog, LaunchBenchmark, Load, Send
<1>2. \A r \in Responses : /\ response'[r] = "in loop" => response[r] = "in loop"
                           /\ response[r] = "in loop" => response'[r] \notin {"emit", "stop"}
  <2>1. \/ response' = response
        \/ \E q \in Responses :
             response[q] = "none" /\ response' = [response EXCEPT ![q] = "launched"]
    BY DEF MainStep, Stop, RefuseUnload, Unload, Forget, ShowDialog, LaunchBenchmark, Load,
       Send, GetResponse
  <2> QED
    BY <2>1 DEF Types, TypeOK
<1>3. \A l \in Loads : Young(load'[l]) => Young(load[l])
  BY DEF MainStep, Stop, RefuseUnload, Unload, Forget, ShowDialog, LaunchBenchmark, Load, Send,
     Young, Types, TypeOK, loadVars
<1>4. \A l \in Loads : SameRoom(native'[l], native[l])
  <2>1. CASE UNCHANGED native
    BY <2>1, SameInstances
  <2>2. CASE Unload /\ ~UNCHANGED native
    <3>1. nativePtr \in Loads
      BY <2>2 DEF Unload, Types, TypeOK
    <3>2. native' = [native EXCEPT ![nativePtr] = Closed(native[nativePtr])]
      BY <2>2 DEF Unload
    <3>3. native[nativePtr] \in Instance(Responses)
      BY <3>1 DEF Types, TypeOK
    <3>4. SameRoom(Closed(native[nativePtr]), native[nativePtr])
      BY <3>3, FlagsTakeNoRoom
    <3> QED
      BY <3>1, <3>2, <3>4, OneInstance
  <2> QED
    BY <2>1, <2>2 DEF MainStep, Stop, RefuseUnload, Forget, ShowDialog, LaunchBenchmark,
       Load, Send, objects
<1> QED
  BY <1>1, <1>2, <1>3, <1>4, RoomKept, LoopIsInside

LEMMA RoomLoadStep ==
  ASSUME Types, TidyInv, ContextInv, NEW l \in Loads, LoadStep(l)
  PROVE  ContextInv' /\ ContextFills
<1>1. UNCHANGED <<response, inside>>
  BY LoadStepEffect
<1>2. \A k \in Loads : Young(load'[k]) => Young(load[k])
  <2>1. \A k \in Loads \ {l} : load'[k] = load[k]
    BY LoadStepEffect
  <2>2. Young(load'[l]) => Young(load[l])
    BY ProvidingGives DEF LoadStep, LoadCancelled, LoadBegin, LoadReturn, LoadThrow,
       LoadSuccess, LoadError, Loading, Providing, Young, Types, TypeOK
  <2> QED
    BY <2>1, <2>2
<1>3. CASE ~LoadReturn(l)
  <2>1. \A k \in Loads : SameRoom(native'[k], native[k])
    <3>1. CASE UNCHANGED native
      BY <3>1, SameInstances
    <3>2. CASE Providing(l) /\ ~UNCHANGED native
      <4>1. PICK k \in Loads, messages \in Seq(Stored) :
              native' = [native EXCEPT ![k] =
                           WithHistory(native[k], messages, ~Shared(k))]
        BY <3>2, ProvidingGives
      <4>2. PICK o \in Instance(Responses), b \in BOOLEAN :
              o = native[k] /\ b = ~Shared(k)
        BY DEF Types, TypeOK, Shared
      <4>3. native' = [native EXCEPT ![k] = WithHistory(o, messages, b)]
        BY <4>1, <4>2
      <4>4. SameRoom(WithHistory(o, messages, b), native[k])
        BY <4>2, HistoryTakesNoRoom
      <4> QED
        BY <4>3, <4>4, OneInstance
    <3> QED
      BY <1>3, <3>1, <3>2 DEF LoadStep, LoadCancelled, LoadBegin, LoadThrow, LoadSuccess,
         LoadError, Providing, objects
  <2> QED
    BY <1>1, <1>2, <2>1, RoomKept, LoopIsInside
<1>4. CASE LoadReturn(l)
  <2>1. load[l] = "native" /\ load'[l] = "returned"
    BY <1>4 DEF LoadReturn, Loading, Types, TypeOK
  <2>2. native' = [native EXCEPT ![l] = Loaded]
    BY <1>4 DEF LoadReturn
  <2>3. Loaded.used = 0
    BY DEF Loaded, Absent
  <2>4. native[l].used = 0 /\ \A r \in Responses : inside[r] # l
    BY <2>1 DEF ContextInv, TidyInv, Unknown, Young, Callers
  <2>5. \A k \in Loads : native'[k].used = native[k].used /\ native[k].used \in Nat
    BY <2>2, <2>3, <2>4 DEF Types, TypeOK, Instance
  <2>6. \A k \in Loads \ {l} : native'[k] = native[k]
    BY <2>2 DEF Types, TypeOK
  <2>7. ContextHolds' /\ \A k \in Loads : Young(load'[k]) => native'[k].used = 0
    BY <1>2, <2>5 DEF ContextInv, ContextHolds
  <2>8. ASSUME NEW r \in Responses, response'[r] = "in loop"
        PROVE  native'[inside'[r]].batch # 0
    <3>1. response[r] = "in loop" /\ inside'[r] = inside[r]
      BY <1>1, <2>8
    <3>2. inside[r] \in Loads \ {l} /\ native[inside[r]].batch # 0
      BY <2>4, <3>1, LoopIsInside DEF ContextInv
    <3> QED
      BY <2>6, <3>1, <3>2
  <2>9. ContextFills
    <3>1. \A r \in Responses :
            ~(response[r] = "in loop" /\ response'[r] \in {"emit", "stop"})
      BY <1>1
    <3>2. \A k \in Loads : ~(native'[k].used < native[k].used)
      BY <2>5
    <3> QED
      BY <3>1, <3>2 DEF ContextFills
  <2> QED
    BY <2>7, <2>8, <2>9 DEF ContextInv
<1> QED
  BY <1>3, <1>4

LEMMA RoomResponseStep ==
  ASSUME Types, TidyInv, ContextInv, NEW r \in Responses, ResponseStep(r)
  PROVE  ContextInv' /\ ContextFills
<1>1. ResponseEffect(r)
  BY ResponseStepEffect
<1>2. /\ UNCHANGED load
      /\ \A q \in Responses \ {r} : response'[q] = response[q] /\ inside'[q] = inside[q]
  BY <1>1 DEF ResponseEffect, Bystanders, Places, Callers, loadVars
<1>3. ASSUME \A l \in Loads : SameRoom(native'[l], native[l]),
             response'[r] = "in loop" =>
               \/ response[r] = "in loop" /\ inside'[r] = inside[r]
               \/ native'[inside'[r]].batch # 0,
             response[r] = "in loop" => response'[r] \notin {"emit", "stop"}
      PROVE  ContextInv' /\ ContextFills
  BY <1>2, <1>3, RoomKept, LoopIsInside
<1>4. CASE Crash(r)
  BY <1>3, <1>4, SameInstances DEF Crash, objects
<1>5. CASE ~Crash(r) /\ Enter(r)
  <2>1. /\ response[r] \in {"start", "loop", "stop"}
        /\ Callable(r)
        /\ inside' = [inside EXCEPT ![r] = nativePtr]
        /\ native' = [native EXCEPT ![nativePtr].tidy = @ /\ Undisturbed(r)]
        /\ Goes(r, CASE response[r] = "start" -> "in start"
                     [] response[r] = "loop"  -> "in loop"
                     [] response[r] = "stop"  -> "in stop")
    BY <1>5 DEF Enter
  <2>2. nativePtr \in Loads
    BY <2>1 DEF Callable, Usable, Types, TypeOK
  <2>3. PICK o \in Instance(Responses), b \in BOOLEAN :
          o = native[nativePtr] /\ b = Undisturbed(r)
    BY <2>2 DEF Types, TypeOK, Undisturbed
  <2>4. PICK p : p = [o EXCEPT !.tidy = @ /\ b]
    OBVIOUS
  <2>5. native' = [native EXCEPT ![nativePtr] = p]
    BY <2>1, <2>3, <2>4
  <2>6. SameRoom(p, native[nativePtr])
    BY <2>3, <2>4, FlagsTakeNoRoom
  <2>7. \A l \in Loads : SameRoom(native'[l], native[l])
    BY <2>2, <2>5, <2>6, OneInstance
  <2>8. response'[r] = "in loop" => response[r] = "loop"
    BY <2>1 DEF Goes, Types, TypeOK
  <2>9. inside'[r] = nativePtr
    BY <2>1 DEF Types, TypeOK, Callers
  <2>10. response[r] = "loop" => native'[nativePtr].batch # 0
    BY <2>1, <2>2, <2>7 DEF Callable, SameRoom
  <2> QED
    BY <1>3, <2>1, <2>7, <2>8, <2>9, <2>10
<1>6. CASE ~Crash(r) /\ (StartCompletion(r) \/ CompletionLoop(r) \/ StopCompletion(r))
  <2>1. response[r] \in Entered
    BY <1>6 DEF StartCompletion, CompletionLoop, StopCompletion, Entered
  <2>2. PICK k \in Loads : k = inside[r]
    BY <2>1 DEF Types, Insides
  <2>3. PICK o \in Instance(Responses) : o = native[k]
    BY DEF Types, TypeOK
  <2>4. ASSUME NEW p, NEW to, Leave(r, p, to)
        PROVE  native' = [native EXCEPT ![k] = p] /\ response'[r] = to
    BY <1>6, <2>2, <2>4 DEF Leave, Goes, Types, TypeOK
  <2>5. ASSUME NEW p, NEW to, Leave(r, p, to), SameRoom(p, o),
               to \notin {"in loop", "emit"}, to = "stop" => response[r] # "in loop"
        PROVE  ContextInv' /\ ContextFills
    BY <1>3, <2>3, <2>4, <2>5, OneInstance
  <2>6. CASE StartCompletion(r) \/ StopCompletion(r)
    <3>1. /\ SameRoom(Started(o, r), o) /\ SameRoom(Asked(o, r), o)
          /\ SameRoom(Stopped(o), o)
      BY MessagesTakeNoRoom
    <3>2. \/ Leave(r, Started(o, r), "loop")
          \/ Leave(r, Asked(o, r), "failed")
          \/ response[r] = "in stop" /\ Leave(r, Stopped(o), "save")
      BY <2>2, <2>3, <2>6 DEF StartCompletion, StopCompletion
    <3>3. response[r] \in {"in start", "in stop"}
      BY <2>6 DEF StartCompletion, StopCompletion
    <3>4. ASSUME NEW p, NEW to, Leave(r, p, to), SameRoom(p, o),
                 to \in {"loop", "failed", "save"}
          PROVE  ContextInv' /\ ContextFills
      BY <2>5, <3>4
    <3> QED
      BY <3>1, <3>2, <3>4
  <2>7. CASE CompletionLoop(r)
    <3>1. response[r] = "in loop" /\ o.batch # 0
      BY <2>2, <2>3, <2>7 DEF CompletionLoop, ContextInv
    <3>2. CASE ContextReached(o)
      <4>1. Leave(r, o, "failed") /\ SameRoom(o, o)
        BY <2>2, <2>3, <2>7, <3>2 DEF CompletionLoop, SameRoom
      <4> QED
        BY <2>5, <4>1
    <3>3. CASE ~ContextReached(o)
      <4>1. PICK p, to :
              to \in {"emit", "stop"} /\ Leave(r, p, to) /\ TakesRoom(p, o)
        <5>1. \/ \E byte \in Bytes : Leave(r, WithPiece(o, r, byte), "emit")
              \/ Leave(r, Ended(o), "stop")
          BY <2>2, <2>3, <2>7, <3>3 DEF CompletionLoop
        <5>2. /\ \A byte \in Bytes : TakesRoom(WithPiece(o, r, byte), o)
              /\ TakesRoom(Ended(o), o)
          BY <3>1, <3>3, PassTakesRoom
        <5> QED
          BY <5>1, <5>2
      <4>2. native' = [native EXCEPT ![k] = p] /\ response'[r] = to
        BY <2>4, <4>1
      <4>3. native'[k] = p /\ \A l \in Loads \ {k} : native'[l] = native[l]
        BY <4>2 DEF Types, TypeOK
      <4>4. \A l \in Loads : native[l].used \in Nat /\ native[l].used <= ContextSize
        BY DEF Types, TypeOK, Instance, ContextInv, ContextHolds
      <4>5. native'[k].used \in Nat
        <5>1. native' \in [Loads -> Instance(Responses)]
          BY <1>1 DEF ResponseEffect, Bystanders
        <5> QED
          BY <5>1 DEF Instance
      <4>6. ContextHolds'
        BY <4>1, <4>3, <4>4 DEF ContextHolds, TakesRoom
      <4>7. \A l \in Loads : Young(load'[l]) => native'[l].used = 0
        <5>1. ~Young(load[k])
          BY <2>2 DEF TidyInv, Unknown, Callers
        <5> QED
          BY <1>2, <4>3, <5>1 DEF ContextInv, Young
      <4>8. ASSUME NEW q \in Responses, response'[q] = "in loop"
            PROVE  native'[inside'[q]].batch # 0
        <5>1. q # r
          BY <4>1, <4>2, <4>8
        <5>2. response[q] = "in loop" /\ inside'[q] = inside[q]
          BY <1>2, <4>8, <5>1
        <5>3. inside[q] \in Loads /\ native[inside[q]].batch # 0
          BY <5>2, LoopIsInside DEF ContextInv
        <5> QED
          BY <4>1, <4>3, <5>2, <5>3 DEF TakesRoom
      <4>9. ContextFills
        <5>1. \A q \in Responses :
                response[q] = "in loop" /\ response'[q] \in {"emit", "stop"} => q = r
          BY <1>2
        <5>2. native'[inside[r]].used > native[inside[r]].used
          BY <2>2, <2>3, <4>1, <4>3 DEF TakesRoom
        <5>3. \A l \in Loads : ~(native'[l].used < native[l].used)
          <6>1. ~(native'[k].used < native[k].used)
            BY <2>3, <4>1, <4>3, <4>4, <4>5 DEF TakesRoom
          <6>2. \A l \in Loads \ {k} : ~(native'[l].used < native[l].used)
            BY <4>3, <4>4
          <6> QED
            BY <6>1, <6>2
        <5> QED
          BY <5>1, <5>2, <5>3 DEF ContextFills
      <4> QED
        BY <4>6, <4>7, <4>8, <4>9 DEF ContextInv
    <3> QED
      BY <3>2, <3>3
  <2> QED
    BY <1>6, <2>6, <2>7
<1>7. CASE /\ ~Crash(r)
           /\ \/ Begin(r) \/ Partial(r) \/ Resume(r) \/ Save(r) \/ Deliver(r)
              \/ DeliverCancelled(r) \/ Caught(r) \/ Report(r)
  <2>1. UNCHANGED <<objects, inside>>
    BY <1>7 DEF Begin, Partial, Resume, Save, Deliver, DeliverCancelled, Caught, Report,
       Quiet
  <2>2. response[r] # "in loop" /\ response'[r] # "in loop"
    BY <1>7 DEF Begin, Partial, Resume, Save, Deliver, DeliverCancelled, Caught, Report,
       Goes, Types, TypeOK
  <2> QED
    BY <1>3, <2>1, <2>2, SameInstances DEF objects
<1> QED
  BY <1>4, <1>5, <1>6, <1>7 DEF ResponseStep

LEMMA RoomBenchmark ==
  ASSUME Types, ContextInv, NEW b \in Benchmarks, BenchmarkStep(b)
  PROVE  ContextInv' /\ ContextFills
<1>1. UNCHANGED <<response, load>>
  BY BenchmarkEffect DEF loadVars
<1>2. \A r \in Responses : inside'[r] = inside[r]
  <2>1. b \notin Responses
    BY SmolLMManagerAssumption
  <2> QED
    BY <2>1 DEF BenchmarkStep, BenchmarkEnter, BenchmarkLeave, Types, TypeOK, Callers
<1>3. CASE \A l \in Loads : SameRoom(native'[l], native[l])
  BY <1>1, <1>2, <1>3, RoomKept, LoopIsInside
<1>4. CASE UNCHANGED native
  BY <1>3, <1>4, SameInstances
<1>5. CASE BenchmarkEnter(b) /\ ~UNCHANGED native
  <2>1. nativePtr \in Loads
    BY <1>5 DEF BenchmarkEnter, Usable, Types, TypeOK
  <2>2. PICK o \in Instance(Responses), t \in BOOLEAN :
          o = native[nativePtr] /\ t = ~Shared(nativePtr)
    BY <2>1 DEF Types, TypeOK
  <2>3. PICK p : p = [o EXCEPT !.tidy = @ /\ t]
    OBVIOUS
  <2>4. native' = [native EXCEPT ![nativePtr].tidy = @ /\ ~Shared(nativePtr)]
    BY <1>5 DEF BenchmarkEnter
  <2>5. native' = [native EXCEPT ![nativePtr] = p]
    BY <2>2, <2>3, <2>4
  <2>6. SameRoom(p, native[nativePtr])
    BY <2>2, <2>3, FlagsTakeNoRoom
  <2> QED
    BY <1>3, <2>1, <2>5, <2>6, OneInstance
<1>6. CASE BenchmarkLeave(b) /\ ~UNCHANGED native
  <2>1. PICK k \in Loads : k = inside[b]
    BY <1>6 DEF BenchmarkLeave, Types, Insides
  <2>2. PICK o \in Instance(Responses) : o = native[k]
    BY DEF Types, TypeOK
  <2>3. PICK p : p = Benched(o)
    OBVIOUS
  <2>4. native' = [native EXCEPT ![k] = p] /\ benchmark'[b] = "ended"
    BY <1>6, <2>1, <2>2, <2>3 DEF BenchmarkLeave, Types, TypeOK
  <2>5. p.used = 0 /\ p.batch = o.batch
    BY <2>3 DEF Benched, Instance
  <2>6. native'[k] = p /\ \A l \in Loads \ {k} : native'[l] = native[l]
    BY <2>4 DEF Types, TypeOK
  <2>7. \A l \in Loads : native[l].used \in Nat
    BY DEF Types, TypeOK, Instance
  <2>8. ContextHolds' /\ \A l \in Loads : Young(load'[l]) => native'[l].used = 0
    <3>1. 0 <= ContextSize
      BY LLMInferenceAssumption
    <3>2. ContextHolds'
      BY <2>5, <2>6, <3>1 DEF ContextInv, ContextHolds
    <3> QED
      BY <1>1, <2>5, <2>6, <3>2 DEF ContextInv, Young
  <2>9. ASSUME NEW r \in Responses, response'[r] = "in loop"
        PROVE  native'[inside'[r]].batch # 0
    <3>1. response[r] = "in loop" /\ inside'[r] = inside[r]
      BY <1>1, <1>2, <2>9
    <3>2. inside[r] \in Loads /\ native[inside[r]].batch # 0
      BY <3>1, LoopIsInside DEF ContextInv
    <3> QED
      BY <2>2, <2>5, <2>6, <3>1, <3>2
  <2>10. ContextFills
    <3>1. \A r \in Responses :
            ~(response[r] = "in loop" /\ response'[r] \in {"emit", "stop"})
      BY <1>1
    <3>2. \A l \in Loads \ {k} : ~(native'[l].used < native[l].used)
      BY <2>6, <2>7
    <3> QED
      BY <2>1, <2>4, <3>1, <3>2 DEF ContextFills
  <2> QED
    BY <2>8, <2>9, <2>10 DEF ContextInv
<1> QED
  BY <1>4, <1>5, <1>6 DEF BenchmarkStep

LEMMA RoomInit == Init => ContextInv
<1> SUFFICES ASSUME Init PROVE ContextInv
  OBVIOUS
<1>1. \A l \in Loads : native[l].used = 0
  BY DEF Init, Absent
<1>2. \A r \in Responses : response[r] # "in loop"
  BY DEF Init
<1>3. 0 <= ContextSize
  BY LLMInferenceAssumption
<1>4. ContextHolds
  BY <1>1, <1>3 DEF ContextHolds
<1> QED
  BY <1>1, <1>2, <1>4 DEF ContextInv

LEMMA RoomStep ==
  ASSUME Types, TidyInv, ContextInv, [Next]_vars
  PROVE  ContextInv' /\ [ContextFills]_vars
<1>1. CASE UNCHANGED vars
  BY <1>1 DEF vars, objects, loadVars, ContextInv, ContextHolds
<1>2. CASE Events
  <2>1. UNCHANGED <<native, response, inside, load>>
    BY <1>2, EventsEffect DEF objects, loadVars
  <2> QED
    BY <2>1, RoomKept, SameInstances, LoopIsInside
<1>3. CASE MainStep
  BY <1>3, RoomMainStep
<1>4. ASSUME NEW l \in Loads, LoadStep(l) PROVE ContextInv' /\ ContextFills
  BY <1>4, RoomLoadStep
<1>5. ASSUME NEW r \in Responses, ResponseStep(r) PROVE ContextInv' /\ ContextFills
  BY <1>5, RoomResponseStep
<1>6. ASSUME NEW b \in Benchmarks, BenchmarkStep(b) PROVE ContextInv' /\ ContextFills
  BY <1>6, RoomBenchmark
<1> QED
  BY <1>1, <1>2, <1>3, <1>4, <1>5, <1>6 DEF Next, BenchmarkStep

(* The context of no instance is ever used beyond its size, through any    *)
(* number of completions that follow or cut off one another: completionLoop *)
(* counts the batch before it decodes it.                                  *)
THEOREM ContextIsBounded == Spec => []ContextHolds
<1>1. Types /\ TidyInv /\ ContextInv /\ [Next]_vars => TidyInv' /\ ContextInv'
  BY TidyStep, RoomStep
<1>2. ContextInv => ContextHolds
  BY DEF ContextInv
<1> QED
  BY <1>1, <1>2, TidyInit, RoomInit, SmolTypes, PTL DEF Spec

(* Every pass of completionLoop that does not fail takes up room in its    *)
(* instance, and only a benchmark makes room: between two benchmarks an    *)
(* instance sees no more than ContextSize passes.                          *)
THEOREM PassesFillContext == Spec => [][ContextFills]_vars
<1>1. Types /\ TidyInv /\ ContextInv /\ [Next]_vars
        => TidyInv' /\ ContextInv' /\ [ContextFills]_vars
  BY TidyStep, RoomStep
<1> QED
  BY <1>1, TidyInit, RoomInit, SmolTypes, PTL DEF Spec

==============================================================================
