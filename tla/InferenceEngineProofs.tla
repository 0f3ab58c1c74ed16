------------------------ MODULE InferenceEngineProofs ------------------------
(***************************************************************************)
(* Proofs about InferenceEngine for any number of calls and any length of  *)
(* a generation: what the state field says is true of the calls, one       *)
(* operation at a time works, a conversation is kept, native code never    *)
(* meets a context that a cleanUp has freed, ai_chat.cpp is called in its  *)
(* phases, and the dispatcher's queue loses nobody and moves on.           *)
(***************************************************************************)
EXTENDS InferenceEngine, TLAPS

(* Leaves see the sets a call can be in through this. *)
Places == {"idle", "raised", "suspended"} \cup Waiting \cup Running

LEMMA TypeInit == Init => TypeOK
<1> SUFFICES ASSUME Init PROVE TypeOK
  OBVIOUS
<1>1. <<>> \in Seq(Calls)
  OBVIOUS
<1>2. 0 \in 0..PredictLength
  BY EngineAssumption
<1> QED
  BY <1>1, <1>2 DEF Init, TypeOK, States, Memory, Waiting, Running

LEMMA ReturnTypes ==
  ASSUME TypeOK, NEW t \in Calls, Clear(t)
  PROVE  /\ thread' \in Calls \cup {NoCall}
         /\ at' \in [Calls -> Places]
         /\ kind' \in [Calls -> Kinds \cup {"none"}]
         /\ stop' \in [Calls -> BOOLEAN]
         /\ hit' \in [Calls -> BOOLEAN]
         /\ tokens' \in [Calls -> 0..PredictLength]
<1>1. 0 \in 0..PredictLength
  BY EngineAssumption
<1> QED
  BY <1>1 DEF TypeOK, Clear, Places

LEMMA TailType ==
  ASSUME TypeOK, queue # <<>>
  PROVE  Tail(queue) \in Seq(Calls)
BY DEF TypeOK

LEMMA TypeStep == TypeOK /\ [Next]_vars => TypeOK'
<1> SUFFICES ASSUME TypeOK, [Next]_vars PROVE TypeOK'
  OBVIOUS
<1> USE EngineAssumption DEF TypeOK, States, Waiting, Running
<1>1. CASE InitStart \/ InitEnd
  BY <1>1 DEF InitStart, InitEnd, clientVars, nativeVars
<1>2. ASSUME NEW t \in Calls, NEW k \in Kinds, Call(t, k) PROVE TypeOK'
  <2>1. Append(queue, t) \in Seq(Calls)
    OBVIOUS
  <2>2. kind' \in [Calls -> Kinds \cup {"none"}]
    BY <1>2 DEF Call
  <2>3. CASE k \in Suspending
    <3>1. (\E s \in Calls : kind[s] \in Blocking) \in BOOLEAN
      OBVIOUS
    <3>2. hit' \in [Calls -> BOOLEAN]
      BY <1>2, <2>3, <3>1 DEF Call
    <3>3. at' \in [Calls -> Places] /\ queue' \in Seq(Calls)
      BY <1>2, <2>1, <2>3 DEF Call, Places
    <3> QED
      BY <1>2, <2>2, <2>3, <3>2, <3>3 DEF Call, nativeVars, Places
  <2>4. CASE k \notin Suspending
    <3>1. hit' \in [Calls -> BOOLEAN]
      BY <1>2, <2>4 DEF Call
    <3>2. at' \in [Calls -> Places]
      BY <1>2, <2>4, ZenonT(60) DEF Call, Places
    <3> QED
      BY <1>2, <2>2, <2>4, <3>1, <3>2 DEF Call, nativeVars, Places
  <2> QED
    BY <2>3, <2>4
<1>3. ASSUME NEW t \in Calls, Enqueue(t) \/ Drain(t) PROVE TypeOK'
  <2>1. Append(queue, t) \in Seq(Calls)
    OBVIOUS
  <2>2. at' \in [Calls -> Places] /\ queue' \in Seq(Calls)
    BY <1>3, <2>1 DEF Enqueue, Drain, Places
  <2> QED
    BY <1>3, <2>2 DEF Enqueue, Drain, clientVars, nativeVars, Places
<1>4. ASSUME NEW t \in Calls, Cancel(t) PROVE TypeOK'
  BY <1>4 DEF Cancel, nativeVars
<1>5. ASSUME NEW t \in Calls, Refuse(t) PROVE TypeOK'
  BY <1>5, ReturnTypes, TailType DEF Refuse, First, Over, nativeVars, Places
<1>6. ASSUME NEW t \in Calls, LoadStart(t) PROVE TypeOK'
  <2>1. CASE Take(t, "load")
    BY <1>6, <2>1, TailType DEF LoadStart, Starts, First, Take, Over, clientVars, nativeVars
  <2>2. CASE Over(t) /\ state' = "Error" /\ ready' = ready
    BY <1>6, <2>2, ReturnTypes, TailType
    DEF LoadStart, Starts, First, Over, nativeVars, Places
  <2> QED
    BY <1>6, <2>1, <2>2 DEF LoadStart
<1>7. ASSUME NEW t \in Calls, LoadEnd(t) PROVE TypeOK'
  <2>1. CASE Goto(t, "prepare") /\ model' = "live" /\ UNCHANGED <<state, tokens>>
    BY <1>7, <2>1 DEF LoadEnd, Goto, clientVars, Memory
  <2>2. CASE Return(t) /\ state' = "Error" /\ model' = model
    BY <1>7, <2>2, ReturnTypes DEF LoadEnd, Return, Places
  <2> QED
    BY <1>7, <2>1, <2>2 DEF LoadEnd
<1>8. ASSUME NEW t \in Calls, PrepareEnd(t) \/ SystemEnd(t) \/ BenchEnd(t) PROVE TypeOK'
  <2>1. CASE PrepareEnd(t)
    <3>1. /\ state' \in States /\ ready' \in BOOLEAN /\ cancel' \in BOOLEAN
          /\ context' \in Memory /\ UNCHANGED <<queue, model, talk, endless>>
          /\ Clear(t)
      BY <2>1 DEF PrepareEnd, Return, Memory
    <3> QED
      BY <3>1, ReturnTypes DEF Places
  <2>2. CASE SystemEnd(t)
    BY <2>2, ReturnTypes DEF SystemEnd, Return, nativeVars, Places
  <2>3. CASE BenchEnd(t)
    BY <2>3, ReturnTypes DEF BenchEnd, Return, nativeVars, Places
  <2> QED
    BY <1>8, <2>1, <2>2, <2>3
<1>9. ASSUME NEW t \in Calls, SystemStart(t) \/ PromptStart(t) \/ BenchStart(t)
      PROVE  TypeOK'
  <2>1. CASE SystemStart(t)
    BY <2>1, TailType DEF SystemStart, Starts, First, Take, clientVars
  <2>2. CASE PromptStart(t)
    BY <2>2, TailType DEF PromptStart, Starts, First, Take, clientVars
  <2>3. CASE BenchStart(t)
    BY <2>3, TailType DEF BenchStart, Starts, First, Take, clientVars, nativeVars
  <2> QED
    BY <1>9, <2>1, <2>2, <2>3
<1>10. ASSUME NEW t \in Calls, PromptEnd(t) PROVE TypeOK'
  <2>1. CASE /\ Goto(t, "loop") /\ state' = "Generating" /\ endless' \in BOOLEAN
             /\ tokens' = tokens
    BY <1>10, <2>1 DEF PromptEnd, Goto, clientVars
  <2>2. CASE Return(t) /\ UNCHANGED <<state, endless>>
    BY <1>10, <2>2, ReturnTypes DEF PromptEnd, Return, Places
  <2> QED
    BY <1>10, <2>1, <2>2 DEF PromptEnd
<1>11. ASSUME NEW t \in Calls, Loop(t) PROVE TypeOK'
  <2>1. CASE cancel
    BY <1>11, <2>1, ReturnTypes DEF Loop, EndGeneration, Return, nativeVars, Places
  <2>2. CASE ~cancel
    BY <1>11, <2>2 DEF Loop, Goto, clientVars, nativeVars
  <2> QED
    BY <2>1, <2>2
<1>12. ASSUME NEW t \in Calls, Token(t) PROVE TypeOK'
  <2>1. CASE EndGeneration(t)
    BY <1>12, <2>1, ReturnTypes DEF Token, EndGeneration, Return, nativeVars, Places
  <2>2. ASSUME NEW p \in {"emit", "loop"}, Goto(t, p), state' = state,
               \/ tokens' = tokens
               \/ tokens[t] < PredictLength /\ tokens' = [tokens EXCEPT ![t] = @ + 1]
        PROVE  TypeOK'
    <3>1. tokens[t] < PredictLength => tokens[t] + 1 \in 0..PredictLength
      OBVIOUS
    <3>2. tokens' \in [Calls -> 0..PredictLength]
      BY <2>2, <3>1
    <3>3. at' \in [Calls -> Places]
      BY <2>2 DEF Goto, Places
    <3>4. UNCHANGED <<state, ready, cancel, queue, thread, clientVars, nativeVars>>
      BY <1>12, <2>2 DEF Token, Goto
    <3> QED
      BY <3>2, <3>3, <3>4 DEF Places, clientVars, nativeVars
  <2> QED
    BY <1>12, <2>1, <2>2 DEF Token
<1>13. ASSUME NEW t \in Calls, Emit(t) PROVE TypeOK'
  <2>1. CASE stop[t]
    BY <1>13, <2>1, ReturnTypes DEF Emit, EndGeneration, Return, nativeVars, Places
  <2>2. CASE ~stop[t]
    BY <1>13, <2>2 DEF Emit, Goto, clientVars, nativeVars
  <2> QED
    BY <2>1, <2>2
<1>14. ASSUME NEW t \in Calls, Resume(t) PROVE TypeOK'
  <2>1. CASE stop[t]
    BY <1>14, <2>1, ReturnTypes, TailType DEF Resume, First, Over, nativeVars, Places
  <2>2. CASE ~stop[t]
    BY <1>14, <2>2, TailType DEF Resume, First, Take, clientVars, nativeVars
  <2> QED
    BY <2>1, <2>2
<1>15. ASSUME NEW t \in Calls, UnloadStart(t) PROVE TypeOK'
  BY <1>15, TailType DEF UnloadStart, Starts, First, Take, clientVars, nativeVars
<1>16. ASSUME NEW t \in Calls, ResetError(t) PROVE TypeOK'
  BY <1>16, ReturnTypes, TailType DEF ResetError, Starts, First, Over, nativeVars, Places
<1>17. ASSUME NEW t \in Calls, UnloadEnd(t) \/ DestroyEnd(t) PROVE TypeOK'
  BY <1>17, ReturnTypes DEF UnloadEnd, DestroyEnd, Free, Return, Places, Memory
<1>18. ASSUME NEW t \in Calls, DestroyStart(t) PROVE TypeOK'
  <2>1. CASE state = "Initialized"
    BY <1>18, <2>1, ReturnTypes, TailType
    DEF DestroyStart, Starts, First, Over, nativeVars, Places
  <2>2. CASE state # "Initialized"
    BY <1>18, <2>2, TailType
    DEF DestroyStart, Starts, First, Take, clientVars, nativeVars
  <2> QED
    BY <2>1, <2>2
<1>19. CASE UNCHANGED vars
  BY <1>19 DEF vars, clientVars, nativeVars
<1> QED
  BY <1>1, <1>2, <1>3, <1>4, <1>5, <1>6, <1>7, <1>8, <1>9, <1>10, <1>11, <1>12,
     <1>13, <1>14, <1>15, <1>16, <1>17, <1>18, <1>19 DEF Next, ThreadStep

(* Every variable of the engine keeps its type; a generation never goes    *)
(* past its stop position.                                                 *)
THEOREM EngineTypes == Spec => []TypeOK
<1>1. Init => TypeOK
  BY TypeInit
<1>2. TypeOK /\ [Next]_vars => TypeOK'
  BY TypeStep
<1> QED
  BY <1>1, <1>2, PTL DEF Spec

------------------------------------------------------------------------------
LEMMA InvInit == Init => EngineInv
BY EngineAssumption
DEF Init, EngineInv, Running, Talking, Silent

(* A generation that ends leaves nobody talking ... *)
LEMMA TalkEnds ==
  ASSUME TypeOK, EngineInv, NEW t \in Calls, at[t] \in Talking,
         thread = t \/ thread = NoCall, Clear(t), state' = "ModelReady",
         UNCHANGED <<ready, cancel, nativeVars>>
  PROVE  EngineInv'
<1> USE EngineAssumption
    DEF TypeOK, EngineInv, Running, Talking, Silent, nativeVars
<1>1. at' = [at EXCEPT ![t] = "idle"] /\ thread' = NoCall
  BY DEF Clear
<1>2. \A s \in Calls : s # t => at[s] \notin Talking /\ at'[s] = at[s]
  BY <1>1
<1>3. state = "Generating" /\ ~ready
  OBVIOUS
<1>4. \A s \in Calls : at[s] \in Running => s = t
  OBVIOUS
<1>5. \A s \in Calls : at'[s] \notin Running /\ at'[s] \notin Talking
  BY <1>1, <1>2, <1>4
<1>6. \A s \in Calls : thread' # s
  BY <1>1
<1> QED
  BY <1>3, <1>5, <1>6

(* ... and one that goes on is still the only one. *)
LEMMA TalkGoesOn ==
  ASSUME TypeOK, EngineInv, NEW t \in Calls, at[t] \in Talking,
         NEW p \in Talking, at' = [at EXCEPT ![t] = p],
         thread = t \/ thread = NoCall,
         thread' = IF p \in Running THEN t ELSE NoCall,
         UNCHANGED <<state, ready, cancel, nativeVars>>
  PROVE  EngineInv'
<1> USE EngineAssumption
    DEF TypeOK, EngineInv, Running, Talking, Silent, nativeVars
<1>1. \A s \in Calls : s # t => at[s] \notin Talking /\ at'[s] = at[s]
  OBVIOUS
<1>2. state = "Generating" /\ ~ready
  OBVIOUS
<1>3. \A s \in Calls : at[s] \in Running => s = t
  OBVIOUS
<1>4. at'[t] = p
  OBVIOUS
<1>5. \A s \in Calls : s # t => at'[s] \notin Running /\ at'[s] \notin Talking
  BY <1>1, <1>3
<1>6. \A s \in Calls : at'[s] \in Running <=> thread' = s
  BY <1>4, <1>5
<1> QED
  BY <1>2, <1>4, <1>5, <1>6

(* A step of calls that do not work. *)
Busy == Running \cup Talking

LEMMA NobodyMoves ==
  ASSUME EngineInv, UNCHANGED <<state, ready, thread, model, talk>>,
         \A s \in Calls : at[s] # at'[s] => at[s] \notin Busy /\ at'[s] \notin Busy
  PROVE  EngineInv'
<1>1. ASSUME NEW s \in Calls
      PROVE  /\ at'[s] \in Running <=> thread = s
             /\ at'[s] \in Talking => at[s] \in Talking /\ state = "Generating"
             /\ at'[s] \in Running => at'[s] = at[s]
  <2>1. at'[s] = at[s] \/ (at[s] \notin Busy /\ at'[s] \notin Busy)
    OBVIOUS
  <2>2. /\ at[s] \in Running <=> thread = s
        /\ at[s] \in Talking => state = "Generating"
    BY DEF EngineInv
  <2>3. CASE at'[s] = at[s]
    BY <2>2, <2>3
  <2>4. CASE at[s] \notin Busy /\ at'[s] \notin Busy
    BY <2>2, <2>4 DEF Busy
  <2> QED
    BY <2>1, <2>3, <2>4
<1>2. ASSUME NEW s \in Calls, NEW u \in Calls, at'[s] \in Talking, at'[u] \in Talking
      PROVE  s = u
  <2>1. at[s] \in Talking /\ at[u] \in Talking
    BY <1>1, <1>2
  <2> QED
    BY <2>1 DEF EngineInv
<1>3. \A p \in {"load", "prepare", "system", "prompt", "bench", "unload"} : p \in Running
  BY DEF Running
<1>4. \A s \in Calls :
        /\ at'[s] \in {"load", "prepare"} => state = "LoadingModel"
        /\ at'[s] = "prepare" => model = "live"
        /\ at'[s] = "system" => state = "ProcessingSystemPrompt"
        /\ at'[s] = "prompt" => state = "ProcessingUserPrompt"
        /\ at'[s] = "bench" => state = "Benchmarking"
        /\ at'[s] = "unload" => state = "UnloadingModel"
  BY <1>1, <1>3 DEF EngineInv
<1>5. /\ ready => state = "ModelReady" /\ talk # "talking"
      /\ state \in Silent => talk # "talking"
  BY DEF EngineInv
<1> QED
  BY <1>1, <1>2, <1>4, <1>5 DEF EngineInv

LEMMA InvStep == TypeOK /\ EngineInv /\ [Next]_vars => EngineInv'
<1> SUFFICES ASSUME TypeOK, EngineInv, [Next]_vars PROVE EngineInv'
  OBVIOUS
<1>2. ASSUME NEW t \in Calls, NEW k \in Kinds, Call(t, k) PROVE EngineInv'
  <2>1. PICK p \in {"queued", "raised"} : at[t] = "idle" /\ at' = [at EXCEPT ![t] = p]
    BY <1>2 DEF Call
  <2>2. UNCHANGED <<state, ready, thread, model, talk>>
    BY <1>2 DEF Call, nativeVars
  <2>3. \A s \in Calls : at[s] # at'[s] => at[s] \notin Busy /\ at'[s] \notin Busy
    BY <2>1 DEF Busy, Running, Talking, TypeOK
  <2> QED
    BY <2>2, <2>3, NobodyMoves
<1>3. ASSUME NEW t \in Calls, Enqueue(t) \/ Drain(t) \/ Cancel(t) PROVE EngineInv'
  <2>1. CASE Drain(t)
    BY <2>1, TalkGoesOn DEF Drain, Talking, Running, nativeVars, EngineInv
  <2>2. CASE Enqueue(t)
    <3>1. \A s \in Calls : at[s] # at'[s] => at[s] \notin Busy /\ at'[s] \notin Busy
      BY <2>2 DEF Enqueue, Busy, Running, Talking, TypeOK
    <3> QED
      BY <2>2, <3>1, NobodyMoves DEF Enqueue, nativeVars
  <2>3. CASE Cancel(t)
    BY <2>3, NobodyMoves DEF Cancel, nativeVars
  <2> QED
    BY <1>3, <2>1, <2>2, <2>3
<1> USE EngineAssumption
    DEF TypeOK, EngineInv, States, Memory, Waiting, Running, Talking, Silent,
        nativeVars, clientVars
<1>1. CASE InitStart \/ InitEnd
  BY <1>1 DEF InitStart, InitEnd
<1>4. ASSUME NEW t \in Calls, Refuse(t) PROVE EngineInv'
  BY <1>4 DEF Refuse, First, Over, Clear
<1>5. ASSUME NEW t \in Calls, LoadStart(t) PROVE EngineInv'
  BY <1>5 DEF LoadStart, Starts, Admits, First, Take, Over, Clear
<1>6. ASSUME NEW t \in Calls, LoadEnd(t) PROVE EngineInv'
  <2>1. CASE Goto(t, "prepare") /\ model' = "live" /\ UNCHANGED <<state, tokens>>
    BY <1>6, <2>1 DEF LoadEnd, Goto
  <2>2. CASE Return(t) /\ state' = "Error" /\ model' = model
    BY <1>6, <2>2 DEF LoadEnd, Return, Clear
  <2> QED
    BY <1>6, <2>1, <2>2 DEF LoadEnd
<1>7. ASSUME NEW t \in Calls, PrepareEnd(t) PROVE EngineInv'
  BY <1>7 DEF PrepareEnd, Return, Clear
<1>8. ASSUME NEW t \in Calls, SystemEnd(t) PROVE EngineInv'
  BY <1>8 DEF SystemEnd, Return, Clear
<1>9. ASSUME NEW t \in Calls, BenchEnd(t) PROVE EngineInv'
  BY <1>9 DEF BenchEnd, Return, Clear
<1>10. ASSUME NEW t \in Calls, SystemStart(t) PROVE EngineInv'
  BY <1>10 DEF SystemStart, Starts, Admits, First, Take
<1>11. ASSUME NEW t \in Calls, PromptStart(t) PROVE EngineInv'
  BY <1>11 DEF PromptStart, Starts, Admits, First, Take
<1>12. ASSUME NEW t \in Calls, BenchStart(t) PROVE EngineInv'
  BY <1>12 DEF BenchStart, Starts, Admits, First, Take
<1>13. ASSUME NEW t \in Calls, PromptEnd(t) PROVE EngineInv'
  <2>1. CASE Goto(t, "loop") /\ state' = "Generating"
    <3>1. thread = t /\ state = "ProcessingUserPrompt" /\ ~ready
      BY <1>13 DEF PromptEnd
    <3>2. \A s \in Calls : at[s] \in Running => s = t
      BY <3>1
    <3>3. \A s \in Calls : at[s] \notin Talking
      BY <3>1
    <3>4. at' = [at EXCEPT ![t] = "loop"] /\ thread' = t
      BY <2>1, <3>1 DEF Goto
    <3>5. \A s \in Calls : s # t => at'[s] \notin Running /\ at'[s] \notin Talking
      BY <3>2, <3>3, <3>4
    <3>6. at'[t] = "loop" /\ state' = "Generating" /\ ready' = ready
      BY <1>13, <2>1, <3>4 DEF PromptEnd
    <3> QED
      BY <3>1, <3>4, <3>5, <3>6
  <2>2. CASE Return(t) /\ state' = state
    BY <1>13, <2>2 DEF PromptEnd, Return, Clear
  <2> QED
    BY <1>13, <2>1, <2>2 DEF PromptEnd
<1>14. ASSUME NEW t \in Calls, Loop(t) PROVE EngineInv'
  <2>1. thread = t /\ at[t] \in Talking
    BY <1>14 DEF Loop
  <2>2. CASE EndGeneration(t)
    BY <1>14, <2>1, <2>2, TalkEnds DEF Loop, EndGeneration, Return
  <2>3. CASE Goto(t, "token") /\ state' = state
    BY <1>14, <2>1, <2>3, TalkGoesOn DEF Loop, Goto
  <2> QED
    BY <1>14, <2>2, <2>3 DEF Loop
<1>15. ASSUME NEW t \in Calls, Token(t) PROVE EngineInv'
  <2>1. thread = t /\ at[t] \in Talking
    BY <1>15 DEF Token
  <2>2. CASE EndGeneration(t)
    BY <1>15, <2>1, <2>2, TalkEnds DEF Token, EndGeneration, Return
  <2>3. ASSUME NEW p \in {"emit", "loop"}, Goto(t, p), state' = state
        PROVE  EngineInv'
    <3>1. p \in Talking /\ p \in Running
      OBVIOUS
    <3> QED
      BY <1>15, <2>1, <2>3, <3>1, TalkGoesOn DEF Token, Goto
  <2> QED
    BY <1>15, <2>2, <2>3 DEF Token
<1>16. ASSUME NEW t \in Calls, Emit(t) PROVE EngineInv'
  <2>1. thread = t /\ at[t] \in Talking
    BY <1>16 DEF Emit
  <2>2. CASE EndGeneration(t)
    BY <1>16, <2>1, <2>2, TalkEnds DEF Emit, EndGeneration, Return
  <2>3. CASE Goto(t, "loop") /\ state' = state
    BY <1>16, <2>1, <2>3, TalkGoesOn DEF Emit, Goto
  <2>4. CASE /\ thread' = NoCall
             /\ at' = [at EXCEPT ![t] = "suspended"]
             /\ state' = state
    BY <1>16, <2>1, <2>4, TalkGoesOn DEF Emit
  <2> QED
    BY <1>16, <2>2, <2>3, <2>4 DEF Emit
<1>17. ASSUME NEW t \in Calls, Resume(t) PROVE EngineInv'
  <2>1. thread = NoCall /\ at[t] \in Talking
    BY <1>17 DEF Resume, First
  <2>2. CASE state' = "ModelReady" /\ Over(t)
    BY <1>17, <2>1, <2>2, TalkEnds DEF Resume, Over
  <2>3. CASE Take(t, "loop") /\ state' = state
    BY <1>17, <2>1, <2>3, TalkGoesOn DEF Resume, Take
  <2> QED
    BY <1>17, <2>2, <2>3 DEF Resume
<1>18. ASSUME NEW t \in Calls, UnloadStart(t) PROVE EngineInv'
  BY <1>18 DEF UnloadStart, Starts, First, Take
<1>19. ASSUME NEW t \in Calls, ResetError(t) PROVE EngineInv'
  BY <1>19 DEF ResetError, Starts, First, Over, Clear
<1>20. ASSUME NEW t \in Calls, UnloadEnd(t) \/ DestroyEnd(t) PROVE EngineInv'
  <2>1. CASE UnloadEnd(t)
    BY <2>1 DEF UnloadEnd, Free, Return, Clear
  <2>2. CASE DestroyEnd(t)
    BY <2>2 DEF DestroyEnd, Free, Return, Clear
  <2> QED
    BY <1>20, <2>1, <2>2
<1>21. ASSUME NEW t \in Calls, DestroyStart(t) PROVE EngineInv'
  BY <1>21 DEF DestroyStart, Starts, First, Take, Over, Clear
<1>22. CASE UNCHANGED vars
  BY <1>22 DEF vars
<1> QED
  BY <1>1, <1>2, <1>3, <1>4, <1>5, <1>6, <1>7, <1>8, <1>9, <1>10, <1>11, <1>12,
     <1>13, <1>14, <1>15, <1>16, <1>17, <1>18, <1>19, <1>20, <1>21, <1>22
  DEF Next, ThreadStep

(* The state field, the thread and the calls agree in every reachable      *)
(* state, destroy or not.                                                  *)
THEOREM EngineStates == Spec => []EngineInv
<1>1. Init => TypeOK /\ EngineInv
  BY TypeInit, InvInit
<1>2. TypeOK /\ EngineInv /\ [Next]_vars => (TypeOK /\ EngineInv)'
  BY TypeStep, InvStep
<1> QED
  BY <1>1, <1>2, PTL DEF Spec

(* One operation at a time works, although a flow may give the thread away.*)
THEOREM EngineWorksAlone == Spec => []OneAtATime
<1>1. TypeOK /\ EngineInv => OneAtATime
  BY EngineAssumption
  DEF TypeOK, EngineInv, OneAtATime, Working, Running, Talking
<1>2. Spec => []TypeOK /\ []EngineInv
  BY EngineTypes, EngineStates
<1> QED
  BY <1>1, <1>2, PTL

------------------------------------------------------------------------------
(* What has been said is only forgotten by an unload: the system prompt,   *)
(* which clears the conversation too, is refused once a user has spoken.   *)
THEOREM EngineKeepsConversation == Spec => KeepsConversation
<1>1. ASSUME TypeOK, EngineInv, [Next]_vars, talk = "talking", talk' # talk
      PROVE  \E t \in Calls : at[t] \in {"unload", "wreck"}
  <2> USE <1>1 DEF TypeOK, EngineInv, nativeVars, clientVars
  <2>1. ASSUME NEW t \in Calls, ThreadStep(t)
        PROVE  at[t] \in {"unload", "wreck"}
    <3>1. CASE SystemStart(t)
      BY <3>1 DEF SystemStart, Admits
    <3>2. CASE UnloadEnd(t) \/ DestroyEnd(t)
      BY <3>2 DEF UnloadEnd, DestroyEnd
    <3>3. CASE \/ Refuse(t) \/ LoadStart(t) \/ LoadEnd(t) \/ PrepareEnd(t)
               \/ SystemEnd(t) \/ PromptStart(t) \/ PromptEnd(t) \/ Loop(t)
               \/ Token(t) \/ Emit(t) \/ Resume(t) \/ BenchStart(t)
               \/ BenchEnd(t) \/ UnloadStart(t) \/ ResetError(t)
               \/ DestroyStart(t)
      BY <3>3
      DEF Refuse, LoadStart, LoadEnd, PrepareEnd, SystemEnd, PromptStart,
          PromptEnd, Loop, Token, Emit, Resume, BenchStart, BenchEnd,
          UnloadStart, ResetError, DestroyStart
    <3> QED
      BY <2>1, <3>1, <3>2, <3>3 DEF ThreadStep
  <2>2. CASE \/ InitStart \/ InitEnd \/ UNCHANGED vars
             \/ \E t \in Calls : \/ \E k \in Kinds : Call(t, k)
                                \/ Enqueue(t) \/ Cancel(t) \/ Drain(t)
    BY <2>2 DEF InitStart, InitEnd, Call, Enqueue, Cancel, Drain, vars
  <2> QED
    BY <2>1, <2>2 DEF Next
<1>2. TypeOK /\ EngineInv /\ [Next]_vars =>
        [talk = "talking" /\ talk' # talk =>
           \E t \in Calls : at[t] \in {"unload", "wreck"}]_vars
  BY <1>1
<1>3. Spec => []TypeOK /\ []EngineInv
  BY EngineTypes, EngineStates
<1> QED
  BY <1>2, <1>3, PTL DEF Spec, KeepsConversation

------------------------------------------------------------------------------
LEMMA AliveStep ==
  ASSUME TypeOK, EngineInv, AliveInv, [Next]_vars
  PROVE  AliveInv'
<1> USE EngineAssumption
    DEF TypeOK, EngineInv, AliveInv, MemoryIn, States, Loaded, Running, Talking,
        nativeVars, clientVars
<1>1. CASE InitStart \/ InitEnd \/ UNCHANGED vars
  BY <1>1 DEF InitStart, InitEnd, vars
<1>2. ASSUME NEW t \in Calls, NEW k \in Kinds, Call(t, k) PROVE AliveInv'
  BY <1>2 DEF Call
<1>3. ASSUME NEW t \in Calls, Enqueue(t) \/ Cancel(t) \/ Drain(t) PROVE AliveInv'
  BY <1>3 DEF Enqueue, Cancel, Drain
<1>4. ASSUME NEW t \in Calls, Refuse(t) \/ LoadStart(t) PROVE AliveInv'
  BY <1>4 DEF Refuse, LoadStart, Take, Over, Clear
<1>5. ASSUME NEW t \in Calls, LoadEnd(t) PROVE AliveInv'
  BY <1>5 DEF LoadEnd, Goto, Return, Clear
<1>6. ASSUME NEW t \in Calls, PrepareEnd(t) \/ SystemEnd(t) \/ BenchEnd(t)
      PROVE  AliveInv'
  BY <1>6 DEF PrepareEnd, SystemEnd, BenchEnd, Return, Clear
<1>7. ASSUME NEW t \in Calls, SystemStart(t) \/ PromptStart(t) \/ BenchStart(t)
      PROVE  AliveInv'
  BY <1>7 DEF SystemStart, PromptStart, BenchStart, Starts, Admits, Take
<1>8. ASSUME NEW t \in Calls, PromptEnd(t) PROVE AliveInv'
  BY <1>8 DEF PromptEnd, Goto, Return, Clear
<1>9. ASSUME NEW t \in Calls, Loop(t) \/ Token(t) PROVE AliveInv'
  <2>1. state = "Generating"
    BY <1>9 DEF Loop, Token
  <2>2. CASE Loop(t)
    BY <2>1, <2>2 DEF Loop, EndGeneration, Goto, Return, Clear
  <2>3. CASE Token(t)
    BY <2>1, <2>3 DEF Token, EndGeneration, Goto, Return, Clear
  <2> QED
    BY <1>9, <2>2, <2>3
<1>10. ASSUME NEW t \in Calls, Emit(t) \/ Resume(t) PROVE AliveInv'
  <2>1. state = "Generating"
    BY <1>10 DEF Emit, Resume
  <2>2. CASE Emit(t)
    BY <2>1, <2>2 DEF Emit, EndGeneration, Goto, Return, Clear
  <2>3. CASE Resume(t)
    BY <2>1, <2>3 DEF Resume, Take, Over, Clear
  <2> QED
    BY <1>10, <2>2, <2>3
<1>11. ASSUME NEW t \in Calls, UnloadStart(t) \/ ResetError(t) \/ UnloadEnd(t)
      PROVE  AliveInv'
  BY <1>11 DEF UnloadStart, ResetError, UnloadEnd, Take, Over, Return, Clear
<1>12. ASSUME NEW t \in Calls, DestroyStart(t) \/ DestroyEnd(t) PROVE AliveInv'
  BY <1>12 DEF DestroyStart, DestroyEnd, Free, Take, Over, Return, Clear
<1> QED
  BY <1>1, <1>2, <1>3, <1>4, <1>5, <1>6, <1>7, <1>8, <1>9, <1>10, <1>11, <1>12
  DEF Next, ThreadStep

(* Every prompt, benchmark and unload finds the model and the context      *)
(* alive, or both destroyed, after any sequence of failed loads, failed    *)
(* prompts, cancelled flows and refused clean-ups.                         *)
THEOREM EngineUsesLiveMemory == Spec => []NativeIsAlive
<1>1. Init => AliveInv
  BY DEF Init, AliveInv, Loaded
<1>2. TypeOK /\ EngineInv /\ AliveInv /\ [Next]_vars => AliveInv'
  BY AliveStep
<1>3. TypeOK /\ EngineInv /\ AliveInv => NativeIsAlive
  BY DEF EngineInv, AliveInv, NativeIsAlive, MemoryIn, Loaded, Talking
<1>4. Spec => []TypeOK /\ []EngineInv
  BY EngineTypes, EngineStates
<1> QED
  BY <1>1, <1>2, <1>3, <1>4, PTL DEF Spec

------------------------------------------------------------------------------
(* The steps of the engine, seen as steps of EnginePhases *)

LEMMA PhaseValues ==
  /\ state \in {"Uninitialized", "Initializing", "LoadingModel"} => Phase = "Initialized"
  /\ state \in {"Benchmarking", "UnloadingModel"} => Phase = "ModelReady"
  /\ state \in {"Initialized", "ModelReady", "ProcessingSystemPrompt", "Generating", "Error"}
       => Phase = state
  /\ state = "ProcessingUserPrompt" =>
       Phase = IF \E t \in Calls : at[t] = "prompt" THEN state ELSE "Stuck"
BY DEF Phase

LEMMA PhaseValuesNext ==
  /\ state' \in {"Uninitialized", "Initializing", "LoadingModel"} => Phase' = "Initialized"
  /\ state' \in {"Benchmarking", "UnloadingModel"} => Phase' = "ModelReady"
  /\ state' \in {"Initialized", "ModelReady", "ProcessingSystemPrompt", "Generating", "Error"}
       => Phase' = state'
  /\ state' = "ProcessingUserPrompt" =>
       Phase' = IF \E t \in Calls : at'[t] = "prompt" THEN state' ELSE "Stuck"
BY DEF Phase

(* Whoever does not come from or go to a prompt leaves the phase to state. *)
LEMMA PhaseStays ==
  ASSUME TypeOK, state' = state, ready' = ready,
         \/ at' = at
         \/ \E t \in Calls, p \in Places \ {"prompt"} :
              at[t] # "prompt" /\ at' = [at EXCEPT ![t] = p]
  PROVE  UNCHANGED EP!vars
<1>1. (\E s \in Calls : at'[s] = "prompt") <=> (\E s \in Calls : at[s] = "prompt")
  <2>1. ASSUME NEW t \in Calls, NEW p \in Places \ {"prompt"}, at[t] # "prompt",
               at' = [at EXCEPT ![t] = p]
        PROVE  \A s \in Calls : at'[s] = "prompt" <=> at[s] = "prompt"
    BY <2>1 DEF TypeOK
  <2> QED BY <2>1
<1>2. Phase' = Phase
  BY <1>1, PhaseValues, PhaseValuesNext DEF TypeOK, States
<1> QED BY <1>2 DEF EP!vars

LEMMA EnginePhaseStep ==
  ASSUME TypeOK, EngineInv, Next
  PROVE  EP!Next \/ UNCHANGED EP!vars
<1> USE PhaseValues, PhaseValuesNext DEF EP!Next
<1>0. ready => state = "ModelReady"
  BY DEF EngineInv
<1>1. CASE InitStart \/ InitEnd
  BY <1>1 DEF InitStart, InitEnd, EP!vars
<1>2. ASSUME NEW t \in Calls,
             (\E k \in Kinds : Call(t, k)) \/ Enqueue(t) \/ Cancel(t) \/ Drain(t)
      PROVE  UNCHANGED EP!vars
  BY <1>2, PhaseStays DEF Call, Enqueue, Cancel, Drain, Places, Waiting
<1>3. ASSUME NEW t \in Calls, Refuse(t) PROVE UNCHANGED EP!vars
  BY <1>3, PhaseStays DEF Refuse, Over, Clear, Places
<1>4. ASSUME NEW t \in Calls, LoadStart(t) PROVE EP!Load \/ UNCHANGED EP!vars
  <2>1. state = "Initialized" /\ ready = FALSE
    BY <1>0, <1>4 DEF LoadStart, Admits, TypeOK
  <2> QED BY <1>4, <2>1 DEF LoadStart, EP!Load, EP!vars
<1>5. ASSUME NEW t \in Calls, LoadEnd(t) \/ PrepareEnd(t)
      PROVE  EP!Load \/ UNCHANGED EP!vars
  <2>1. state = "LoadingModel"
    BY <1>5 DEF LoadEnd, PrepareEnd, EngineInv
  <2> QED BY <1>5, <2>1 DEF LoadEnd, PrepareEnd, EP!Load, EP!vars
<1>6. ASSUME NEW t \in Calls, SystemStart(t) PROVE EP!Instruct
  BY <1>6 DEF SystemStart, Admits, EP!Instruct
<1>7. ASSUME NEW t \in Calls, SystemEnd(t) PROVE EP!Instructed
  BY <1>7 DEF SystemEnd, EngineInv, EP!Instructed
<1>8. ASSUME NEW t \in Calls, PromptStart(t) PROVE EP!Ask
  <2>1. at'[t] = "prompt"
    BY <1>8 DEF PromptStart, Take, TypeOK
  <2> QED BY <1>8, <2>1 DEF PromptStart, Admits, EP!Ask
<1>9. ASSUME NEW t \in Calls, PromptEnd(t) PROVE EP!Understood
  <2>1. state = "ProcessingUserPrompt" /\ at[t] = "prompt"
    BY <1>9 DEF PromptEnd, EngineInv
  <2>2. \A s \in Calls : at[s] = "prompt" => s = t
    BY <2>1 DEF EngineInv, Running
  <2>3. Return(t) => \A s \in Calls : at'[s] # "prompt"
    BY <2>2 DEF Return, Clear, TypeOK
  <2> QED BY <1>9, <2>1, <2>3 DEF PromptEnd, EP!Understood
<1>10. ASSUME NEW t \in Calls, Loop(t) \/ Token(t) \/ Emit(t) \/ Resume(t)
       PROVE  EP!Answered \/ UNCHANGED EP!vars
  <2>1. state = "Generating"
    BY <1>10 DEF Loop, Token, Emit, Resume, EngineInv, Talking
  <2>2. state' \in {"Generating", "ModelReady"} /\ ready' = ready
    BY <1>10, <2>1 DEF Loop, Token, Emit, Resume, EndGeneration
  <2> QED BY <2>1, <2>2 DEF EP!Answered, EP!vars
<1>11. ASSUME NEW t \in Calls, BenchStart(t) \/ UnloadStart(t) PROVE EP!Withdraw
  BY <1>11 DEF BenchStart, UnloadStart, Admits, EP!Withdraw
<1>12. ASSUME NEW t \in Calls, BenchEnd(t) PROVE UNCHANGED EP!vars
  BY <1>12 DEF BenchEnd, EngineInv, EP!vars
<1>13. ASSUME NEW t \in Calls, ResetError(t) PROVE EP!Recover
  BY <1>13 DEF ResetError, EP!Recover
<1>14. ASSUME NEW t \in Calls, UnloadEnd(t) PROVE EP!Unload
  <2>1. state = "UnloadingModel" /\ ~ready
    BY <1>0, <1>14 DEF UnloadEnd, EngineInv
  <2> QED BY <1>14, <2>1 DEF UnloadEnd, TypeOK, EP!Unload
<1>15. ASSUME NEW t \in Calls, DestroyStart(t) PROVE EP!Withdraw \/ UNCHANGED EP!vars
  <2>1. state' = state /\ ready' = FALSE
    BY <1>15 DEF DestroyStart
  <2>2. CASE state = "ModelReady"
    BY <2>1, <2>2 DEF EP!Withdraw
  <2>3. CASE state # "ModelReady"
    <3>1. \E p \in Places \ {"prompt"} : at[t] # "prompt" /\ at' = [at EXCEPT ![t] = p]
      BY <1>15 DEF DestroyStart, Starts, Over, Clear, Take, Places, Running
    <3> QED BY <1>0, <2>1, <2>3, <3>1, PhaseStays DEF TypeOK
  <2> QED BY <2>2, <2>3
<1>16. ASSUME NEW t \in Calls, DestroyEnd(t) PROVE UNCHANGED EP!vars
  BY <1>16, PhaseStays DEF DestroyEnd, Return, Clear, Places
<1> QED
  BY <1>1, <1>2, <1>3, <1>4, <1>5, <1>6, <1>7, <1>8, <1>9, <1>10, <1>11, <1>12, <1>13,
     <1>14, <1>15, <1>16 DEF Next, ThreadStep

(* Whatever clients call, and with whatever failures and cancellations,    *)
(* the engine implements EnginePhases: ai_chat.cpp is only called in the   *)
(* order it is written for.                                                *)
THEOREM EngineFollowsPhases == Spec => FollowsPhases
<1>1. Init => EP!Init
  BY PhaseValues DEF Init, EP!Init
<1>2. TypeOK /\ EngineInv /\ [Next]_vars => [EP!Next]_(EP!vars)
  <2>1. TypeOK /\ UNCHANGED vars => UNCHANGED EP!vars
    BY PhaseStays DEF vars
  <2> QED BY EnginePhaseStep, <2>1
<1>3. Spec => []TypeOK /\ []EngineInv
  BY EngineTypes, EngineStates
<1> QED BY <1>1, <1>2, <1>3, PTL DEF Spec, FollowsPhases, EP!Spec

------------------------------------------------------------------------------
(* What stands behind BlockedReturn.  That a cleanUp or destroy comes back *)
(* is a liveness property, and stays with the run; that the dispatcher     *)
(* loses nobody and is held up by nobody is true of every single step.     *)

(* Whoever waits for the thread has one place in the queue, nobody else    *)
(* has one, and the first of them is someone whom the thread can take: a   *)
(* call that has not begun, or a prompt that has been drained.             *)
NobodyIsLost ==
  /\ \A t \in Calls : at[t] \in Waiting <=> \E i \in 1..Len(queue) : queue[i] = t
  /\ \A i, j \in 1..Len(queue) : queue[i] = queue[j] => i = j
  /\ \A t \in Calls :
       /\ at[t] = "queued" => kind[t] \in Kinds
       /\ at[t] = "resumed" => kind[t] = "prompt"

QueueInv ==
  /\ NobodyIsLost
  /\ \A t \in Calls :
       /\ at[t] # "idle" => kind[t] \in Kinds
       /\ at[t] \in Talking \cup {"prompt"} => kind[t] = "prompt"

(* Steps a call has before it, at most, until it gives the thread back or, *)
(* if its stop is never reached, to the next head of its loop.             *)
StepsLeft(t) ==
  LET more == PredictLength - tokens[t]
  IN CASE at[t] = "prompt" -> 3 * PredictLength + 4
       [] at[t] = "loop"   -> IF endless THEN 1 ELSE 3 * more + 2
       [] at[t] = "token"  -> IF endless THEN 3 ELSE 3 * more + 1
       [] at[t] = "emit"   -> IF endless THEN 2 ELSE 3 * more + 3
       [] at[t] = "load"   -> 2
       [] OTHER            -> 1

Left == IF thread = NoCall THEN 0 ELSE StepsLeft(thread)

(* A reply whose stop is never reached passes the head of its loop. *)
Endlessly == endless /\ ~cancel /\ at[thread] = "loop"

(* No operation has the thread for more than 3 * PredictLength + 4 steps:  *)
(* with every step of its own it comes closer to giving it back, and then  *)
(* the thread takes the first of the queue.  The one exception is a reply  *)
(* whose stop lies beyond the limit of the context: it starts again at the *)
(* head of its loop, which it reaches in two steps and where the cancel    *)
(* flag stops it.  Nobody else's step takes a place in the queue or a step *)
(* of the operation away.                                                  *)
EveryoneMovesUp ==
  /\ Left \in 0..(3 * PredictLength + 4)
  /\ IF \E t \in Calls : ThreadStep(t)
       THEN \/ /\ thread # NoCall /\ queue' = queue
               /\ Left' \in 0..(Left - 1) \/ Endlessly
            \/ thread = NoCall /\ queue # <<>> /\ queue' = Tail(queue)
       ELSE /\ Left' = Left /\ thread' = thread
            /\ \A i \in 1..Len(queue) : i <= Len(queue') /\ queue'[i] = queue[i]

(* The queue as a set: who is in it once, and nobody else. *)
Lined(q, waiters) ==
  /\ \A t \in Calls : t \in waiters <=> \E i \in 1..Len(q) : q[i] = t
  /\ \A i, j \in 1..Len(q) : q[i] = q[j] => i = j

Waiters == {t \in Calls : at[t] \in Waiting}

LEMMA LinedAppend ==
  ASSUME NEW q \in Seq(Calls), NEW W \in SUBSET Calls, NEW t \in Calls \ W, Lined(q, W)
  PROVE  Lined(Append(q, t), W \cup {t})
<1> DEFINE r == Append(q, t)
<1>1. /\ Len(r) = Len(q) + 1 /\ Len(q) \in Nat
      /\ r[Len(q) + 1] = t
      /\ \A i \in 1..Len(q) : r[i] = q[i]
  OBVIOUS
<1>2. \A i \in 1..Len(q) : q[i] # t
  BY DEF Lined
<1> HIDE DEF r
<1>3. ASSUME NEW s \in Calls
      PROVE  s \in W \cup {t} <=> \E i \in 1..Len(r) : r[i] = s
  <2>1. CASE s = t
    BY <1>1, <2>1
  <2>2. CASE s # t
    <3>1. (\E i \in 1..Len(r) : r[i] = s) <=> \E i \in 1..Len(q) : q[i] = s
      BY <1>1, <2>2
    <3> QED
      BY <2>2, <3>1 DEF Lined
  <2> QED
    BY <2>1, <2>2
<1>4. ASSUME NEW i \in 1..Len(r), NEW j \in 1..Len(r), r[i] = r[j] PROVE i = j
  <2>1. CASE i \in 1..Len(q) /\ j \in 1..Len(q)
    BY <1>1, <1>4, <2>1 DEF Lined
  <2>2. CASE i = Len(q) + 1
    BY <1>1, <1>2, <1>4, <2>2
  <2>3. CASE j = Len(q) + 1
    BY <1>1, <1>2, <1>4, <2>3
  <2> QED
    BY <1>1, <2>1, <2>2, <2>3
<1> QED
  BY <1>3, <1>4 DEF Lined, r

LEMMA LinedTail ==
  ASSUME NEW q \in Seq(Calls), q # <<>>, NEW W \in SUBSET Calls, Lined(q, W)
  PROVE  Lined(Tail(q), W \ {Head(q)})
<1> DEFINE r == Tail(q)
<1>1. /\ Len(q) \in Nat \ {0} /\ Len(r) = Len(q) - 1
      /\ Head(q) = q[1]
      /\ \A i \in 1..Len(r) : r[i] = q[i + 1]
  OBVIOUS
<1> HIDE DEF r
<1>2. \A i \in 1..Len(q) : i # 1 => q[i] # q[1]
  BY <1>1 DEF Lined
<1>3. ASSUME NEW s \in Calls
      PROVE  s \in W \ {q[1]} <=> \E i \in 1..Len(r) : r[i] = s
  <2>1. ASSUME NEW i \in 1..Len(r), r[i] = s PROVE s \in W \ {q[1]}
    <3>1. i + 1 \in 1..Len(q) /\ i + 1 # 1 /\ q[i + 1] = s
      BY <1>1, <2>1
    <3> QED
      BY <1>2, <3>1 DEF Lined
  <2>2. ASSUME s \in W, s # q[1] PROVE \E i \in 1..Len(r) : r[i] = s
    <3>1. PICK i \in 1..Len(q) : q[i] = s
      BY <2>2 DEF Lined
    <3>2. i # 1
      BY <2>2, <3>1
    <3>3. i - 1 \in 1..Len(r) /\ (i - 1) + 1 = i
      BY <1>1, <3>2
    <3> QED
      BY <1>1, <3>1, <3>3
  <2> QED
    BY <2>1, <2>2
<1>4. ASSUME NEW i \in 1..Len(r), NEW j \in 1..Len(r), r[i] = r[j] PROVE i = j
  <2>1. i + 1 \in 1..Len(q) /\ j + 1 \in 1..Len(q) /\ q[i + 1] = q[j + 1]
    BY <1>1, <1>4
  <2>2. i + 1 = j + 1
    BY <2>1 DEF Lined
  <2> QED
    BY <2>2
<1> QED
  BY <1>1, <1>3, <1>4 DEF Lined, r

(* What a step of the thread does to the queue. *)
LEMMA ThreadStepMoves ==
  ASSUME TypeOK, NEW t \in Calls, ThreadStep(t)
  PROVE  /\ \/ First(t) /\ queue' = Tail(queue) /\ at[t] \in Waiting
            \/ at[t] \in Running /\ queue' = queue
         /\ \E p \in Places \ Waiting : at' = [at EXCEPT ![t] = p]
<1> USE DEF Places, Waiting, Running
<1>1. CASE Refuse(t) \/ LoadStart(t) \/ SystemStart(t) \/ PromptStart(t) \/ BenchStart(t)
  BY <1>1 DEF Refuse, LoadStart, SystemStart, PromptStart, BenchStart, Starts, Take, Over,
     Clear
<1>2. CASE Resume(t) \/ UnloadStart(t) \/ ResetError(t) \/ DestroyStart(t)
  BY <1>2 DEF Resume, UnloadStart, ResetError, DestroyStart, Starts, Take, Over, Clear
<1>3. CASE LoadEnd(t) \/ PrepareEnd(t) \/ SystemEnd(t) \/ PromptEnd(t) \/ BenchEnd(t)
  BY <1>3 DEF LoadEnd, PrepareEnd, SystemEnd, PromptEnd, BenchEnd, Goto, Return, Clear
<1>4. CASE Loop(t) \/ Token(t) \/ Emit(t) \/ UnloadEnd(t) \/ DestroyEnd(t)
  BY <1>4 DEF Loop, Token, Emit, UnloadEnd, DestroyEnd, EndGeneration, Goto, Return, Clear
<1> QED
  BY <1>1, <1>2, <1>3, <1>4 DEF ThreadStep

LEMMA LinedStep ==
  ASSUME TypeOK, Lined(queue, Waiters), [Next]_vars
  PROVE  Lined(queue', Waiters')
<1> USE DEF TypeOK, Waiters, Waiting, Running
<1>1. CASE UNCHANGED <<at, queue>>
  BY <1>1
<1>2. ASSUME NEW t \in Calls, t \notin Waiters, queue' = Append(queue, t),
             at' = [at EXCEPT ![t] = "queued"] \/ at' = [at EXCEPT ![t] = "resumed"]
      PROVE  Lined(queue', Waiters')
  <2>1. Waiters' = Waiters \cup {t}
    BY <1>2
  <2>2. Lined(Append(queue, t), Waiters \cup {t})
    BY <1>2, LinedAppend
  <2> QED
    BY <1>2, <2>1, <2>2
<1>3. ASSUME NEW t \in Calls, NEW k \in Kinds, Call(t, k) PROVE Lined(queue', Waiters')
  <2>1. at[t] = "idle" /\ t \notin Waiters
    BY <1>3 DEF Call
  <2>2. CASE k \in Suspending
    BY <1>2, <1>3, <2>1, <2>2 DEF Call
  <2>3. CASE k \notin Suspending
    <3>1. queue' = queue /\ Waiters' = Waiters
      BY <1>3, <2>1, <2>3 DEF Call
    <3> QED
      BY <3>1
  <2> QED
    BY <2>2, <2>3
<1>4. ASSUME NEW t \in Calls, Enqueue(t) \/ Drain(t) PROVE Lined(queue', Waiters')
  BY <1>2, <1>4 DEF Enqueue, Drain
<1>5. ASSUME NEW t \in Calls, Cancel(t) PROVE Lined(queue', Waiters')
  BY <1>1, <1>5 DEF Cancel
<1>6. ASSUME NEW t \in Calls, ThreadStep(t) PROVE Lined(queue', Waiters')
  <2>1. PICK p \in Places \ Waiting : at' = [at EXCEPT ![t] = p]
    BY <1>6, ThreadStepMoves
  <2>2. Waiters' = Waiters \ {t}
    BY <2>1
  <2>3. CASE First(t) /\ queue' = Tail(queue)
    <3>1. queue # <<>> /\ Head(queue) = t
      BY <2>3 DEF First
    <3>2. Lined(Tail(queue), Waiters \ {Head(queue)})
      BY <3>1, LinedTail
    <3> QED
      BY <2>2, <2>3, <3>1, <3>2
  <2>4. CASE at[t] \in Running /\ queue' = queue
    <3>1. Waiters' = Waiters
      BY <2>2, <2>4
    <3> QED
      BY <2>4, <3>1
  <2> QED
    BY <1>6, <2>3, <2>4, ThreadStepMoves
<1> QED
  BY <1>1, <1>3, <1>4, <1>5, <1>6 DEF Next, InitStart, InitEnd, vars

(* What a call is of, until it is over. *)
Named(t) ==
  /\ at[t] # "idle" => kind[t] \in Kinds
  /\ at[t] \in Talking \cup {"prompt"} => kind[t] = "prompt"

LEMMA NamedStep ==
  ASSUME TypeOK, \A t \in Calls : Named(t), [Next]_vars
  PROVE  \A t \in Calls : Named(t)'
<1> USE DEF TypeOK, Named, Waiting, Running, Talking, clientVars
<1>1. CASE UNCHANGED <<at, kind>>
  BY <1>1
<1>2. ASSUME NEW t \in Calls, NEW k \in Kinds, Call(t, k)
      PROVE  \A s \in Calls : Named(s)'
  BY <1>2 DEF Call
<1>3. ASSUME NEW t \in Calls, Enqueue(t) \/ Drain(t) \/ Cancel(t)
      PROVE  \A s \in Calls : Named(s)'
  BY <1>3 DEF Enqueue, Drain, Cancel
<1>4. ASSUME NEW t \in Calls, Over(t) \/ Return(t) PROVE \A s \in Calls : Named(s)'
  BY <1>4 DEF Over, Return, Clear
<1>5. ASSUME NEW t \in Calls, NEW p, at' = [at EXCEPT ![t] = p], kind' = kind,
             at[t] # "idle", p \in Talking \cup {"prompt"} => kind[t] = "prompt"
      PROVE  \A s \in Calls : Named(s)'
  BY <1>5
<1>6. ASSUME NEW t \in Calls, ThreadStep(t) PROVE \A s \in Calls : Named(s)'
  <2>1. CASE Refuse(t) \/ LoadStart(t) \/ SystemStart(t) \/ PromptStart(t) \/ BenchStart(t)
    BY <1>4, <1>5, <2>1 DEF Refuse, LoadStart, SystemStart, PromptStart, BenchStart, Starts,
       Take
  <2>2. CASE Resume(t) \/ UnloadStart(t) \/ ResetError(t) \/ DestroyStart(t)
    BY <1>4, <1>5, <2>2 DEF Resume, UnloadStart, ResetError, DestroyStart, Starts, Take
  <2>3. CASE LoadEnd(t) \/ PrepareEnd(t) \/ SystemEnd(t) \/ PromptEnd(t) \/ BenchEnd(t)
    BY <1>4, <1>5, <2>3 DEF LoadEnd, PrepareEnd, SystemEnd, PromptEnd, BenchEnd, Goto
  <2>4. CASE Loop(t) \/ Token(t) \/ Emit(t) \/ UnloadEnd(t) \/ DestroyEnd(t)
    BY <1>4, <1>5, <2>4 DEF Loop, Token, Emit, UnloadEnd, DestroyEnd, EndGeneration, Goto
  <2> QED
    BY <1>6, <2>1, <2>2, <2>3, <2>4 DEF ThreadStep
<1> QED
  BY <1>1, <1>2, <1>3, <1>6 DEF Next, InitStart, InitEnd, vars

LEMMA QueueInvParts ==
  ASSUME TypeOK
  PROVE  QueueInv <=> Lined(queue, Waiters) /\ \A t \in Calls : Named(t)
BY DEF QueueInv, NobodyIsLost, Lined, Waiters, Named, Talking, Waiting, Running, TypeOK

LEMMA QueueInvStep == TypeOK /\ QueueInv /\ [Next]_vars => QueueInv'
<1> SUFFICES ASSUME TypeOK, QueueInv, [Next]_vars PROVE QueueInv'
  OBVIOUS
<1>1. Lined(queue', Waiters') /\ \A t \in Calls : Named(t)'
  BY QueueInvParts, LinedStep, NamedStep
<1>2. TypeOK'
  BY TypeStep
<1>3. /\ \A t \in Calls : at'[t] \in Waiting <=> \E i \in 1..Len(queue') : queue'[i] = t
      /\ \A i, j \in 1..Len(queue') : queue'[i] = queue'[j] => i = j
  BY <1>1 DEF Lined, Waiters
<1>4. \A t \in Calls : /\ at'[t] = "queued" => kind'[t] \in Kinds
                       /\ at'[t] = "resumed" => kind'[t] = "prompt"
  BY <1>1 DEF Named, Talking
<1>5. \A t \in Calls : /\ at'[t] # "idle" => kind'[t] \in Kinds
                       /\ at'[t] \in Talking \cup {"prompt"} => kind'[t] = "prompt"
  BY <1>1 DEF Named
<1> QED
  BY <1>3, <1>4, <1>5 DEF QueueInv, NobodyIsLost

LEMMA QueueInvInit == Init => QueueInv
<1> SUFFICES ASSUME Init PROVE QueueInv
  OBVIOUS
<1>1. queue = <<>> /\ Len(queue) = 0 /\ \A t \in Calls : at[t] = "idle"
  BY DEF Init
<1> QED
  BY <1>1 DEF QueueInv, NobodyIsLost, Waiting, Talking

(* However many clients call, cancel and raise the flag, no call that      *)
(* waits for the dispatcher's thread is lost, none waits twice, and none   *)
(* but such a call is in the queue.                                        *)
THEOREM EngineLosesNobody == Spec => []NobodyIsLost
<1>1. QueueInv => NobodyIsLost
  BY DEF QueueInv
<1> QED
  BY <1>1, QueueInvInit, QueueInvStep, EngineTypes, PTL DEF Spec

LEMMA StepsAreBounded ==
  ASSUME TypeOK, NEW t \in Calls
  PROVE  StepsLeft(t) \in 1..(3 * PredictLength + 4)
<1>1. tokens[t] \in 0..PredictLength /\ PredictLength \in Nat
  BY EngineAssumption DEF TypeOK
<1> QED
  BY <1>1 DEF StepsLeft

(* What a step that is not the thread's does. *)
Aside ==
  /\ thread' = thread
  /\ endless' = endless
  /\ queue' = queue \/ \E t \in Calls : queue' = Append(queue, t)
  /\ \/ UNCHANGED <<at, tokens>>
     \/ \E t \in Calls, p \in {"queued", "raised", "resumed"} :
          /\ at[t] \in {"idle", "raised", "suspended"}
          /\ at' = [at EXCEPT ![t] = p] /\ tokens' = tokens

LEMMA UpStep ==
  ASSUME TypeOK, EngineInv, Next
  PROVE  EveryoneMovesUp
<1>1. Left \in 0..(3 * PredictLength + 4)
  BY StepsAreBounded, EngineAssumption DEF Left, TypeOK
<1>2. ASSUME NEW t \in Calls, ThreadStep(t)
      PROVE  \/ /\ thread # NoCall /\ queue' = queue
                /\ Left' \in 0..(Left - 1) \/ Endlessly
             \/ thread = NoCall /\ queue # <<>> /\ queue' = Tail(queue)
  <2>1. CASE First(t) /\ queue' = Tail(queue)
    BY <2>1 DEF First
  <2>2. CASE at[t] \in Running /\ queue' = queue
    <3>1. thread = t /\ t # NoCall /\ Left = StepsLeft(t) /\ Left \in Nat \ {0}
      <4>1. thread = t /\ t # NoCall
        BY <2>2, EngineAssumption DEF EngineInv
      <4> QED
        BY <4>1, StepsAreBounded, EngineAssumption DEF Left
    <3>2. CASE thread' = NoCall
      BY <2>2, <3>1, <3>2 DEF Left
    <3>3. CASE thread' # NoCall
      <4>1. thread' = t /\ Left' = StepsLeft(t)'
        BY <1>2, <2>2, <3>1, <3>3
           DEF Left, Running, Waiting, ThreadStep, Refuse, LoadStart, SystemStart,
               PromptStart, BenchStart, UnloadStart, ResetError, DestroyStart, Resume,
               Starts, LoadEnd, PrepareEnd, SystemEnd, PromptEnd, BenchEnd, Loop, Token,
               Emit, UnloadEnd, DestroyEnd, EndGeneration, Goto, Return, Clear
      <4>2. /\ tokens[t] \in 0..PredictLength /\ PredictLength \in Nat
        BY EngineAssumption DEF TypeOK
      <4>3. \/ at[t] = "load" /\ at'[t] = "prepare" /\ tokens'[t] = tokens[t]
            \/ at[t] = "prompt" /\ at'[t] = "loop" /\ tokens'[t] = tokens[t]
            \/ /\ at[t] = "loop" /\ at'[t] = "token" /\ tokens'[t] = tokens[t]
               /\ ~cancel /\ endless' = endless
            \/ /\ at[t] = "token" /\ at'[t] \in {"emit", "loop"} /\ endless' = endless
               /\ \/ endless /\ tokens'[t] = tokens[t]
                  \/ ~endless /\ tokens[t] < PredictLength /\ tokens'[t] = tokens[t] + 1
            \/ /\ at[t] = "emit" /\ at'[t] = "loop" /\ tokens'[t] = tokens[t]
               /\ endless' = endless
        BY <1>2, <2>2, <3>3
           DEF TypeOK, Running, Waiting, ThreadStep, Refuse, LoadStart, SystemStart,
               PromptStart, BenchStart, UnloadStart, ResetError, DestroyStart, Resume,
               Starts, LoadEnd, PrepareEnd, SystemEnd, PromptEnd, BenchEnd, Loop, Token,
               Emit, UnloadEnd, DestroyEnd, EndGeneration, Goto, Return, Clear, clientVars, nativeVars
      <4>4. StepsLeft(t)' \in 0..(StepsLeft(t) - 1) \/ Endlessly
        <5>1. tokens'[t] \in 0..PredictLength
          BY <4>2, <4>3
        <5> QED
          BY <3>1, <4>2, <4>3, <5>1 DEF StepsLeft, Endlessly
      <4> QED
        BY <2>2, <3>1, <4>1, <4>4
    <3> QED
      BY <3>2, <3>3
  <2> QED
    BY <1>2, <2>1, <2>2, ThreadStepMoves
<1>3. ASSUME ~\E t \in Calls : ThreadStep(t)
      PROVE  /\ Left' = Left /\ thread' = thread
             /\ \A i \in 1..Len(queue) : i <= Len(queue') /\ queue'[i] = queue[i]
  <2>1. Aside
    <3>1. CASE InitStart \/ InitEnd \/ \E t \in Calls : Cancel(t)
      BY <3>1 DEF InitStart, InitEnd, Cancel, Aside, nativeVars
    <3>2. ASSUME NEW t \in Calls, Enqueue(t) \/ Drain(t) PROVE Aside
      BY <3>2 DEF Enqueue, Drain, Aside, nativeVars
    <3>3. ASSUME NEW t \in Calls, NEW k \in Kinds, Call(t, k) PROVE Aside
      BY <3>3 DEF Call, Aside, nativeVars
    <3>4. \/ InitStart \/ InitEnd
          \/ \E t \in Calls : \/ \E k \in Kinds : Call(t, k)
                              \/ Enqueue(t) \/ Cancel(t) \/ Drain(t)
      BY <1>3 DEF Next
    <3> QED
      BY <3>1, <3>2, <3>3, <3>4
  <2>2. \A i \in 1..Len(queue) : i <= Len(queue') /\ queue'[i] = queue[i]
    <3>1. Len(queue) \in Nat
      BY DEF TypeOK
    <3>2. ASSUME NEW t \in Calls, queue' = Append(queue, t)
          PROVE  \A i \in 1..Len(queue) : i <= Len(queue') /\ queue'[i] = queue[i]
      <4>1. Len(queue') = Len(queue) + 1 /\ \A i \in 1..Len(queue) : queue'[i] = queue[i]
        BY <3>2 DEF TypeOK
      <4> QED
        BY <3>1, <4>1
    <3>3. CASE queue' = queue
      BY <3>1, <3>3
    <3> QED
      BY <2>1, <3>2, <3>3 DEF Aside
  <2>3. Left' = Left
    <3>1. thread' = thread
      BY <2>1 DEF Aside
    <3>2. CASE thread = NoCall
      BY <3>1, <3>2 DEF Left
    <3>3. CASE thread # NoCall
      <4>1. PICK t \in Calls : thread = t /\ t # NoCall /\ at[t] \in Running
        BY <3>3 DEF EngineInv, TypeOK
      <4>2. at'[t] = at[t] /\ tokens'[t] = tokens[t] /\ endless' = endless
        BY <2>1, <4>1 DEF Aside, Running, TypeOK
      <4>3. StepsLeft(t)' = StepsLeft(t)
        BY <4>2 DEF StepsLeft
      <4> QED
        BY <3>1, <4>1, <4>3 DEF Left
    <3> QED
      BY <3>2, <3>3
  <2> QED
    BY <2>1, <2>2, <2>3 DEF Aside
<1> QED
  BY <1>1, <1>2, <1>3 DEF EveryoneMovesUp

(* A cleanUp or destroy that blocks its caller is never overtaken, and     *)
(* whoever is before it has the thread for no more than                    *)
(* 3 * PredictLength + 4 steps, whatever collectors do and clients call,   *)
(* unless it is a reply whose stop is never reached and the flag is down.  *)
THEOREM EngineGetsOn == Spec => [][EveryoneMovesUp]_vars
<1>1. TypeOK /\ EngineInv /\ [Next]_vars => [EveryoneMovesUp]_vars
  BY UpStep
<1> QED
  BY <1>1, EngineTypes, EngineStates, PTL DEF Spec

==============================================================================
