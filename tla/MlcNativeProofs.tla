--------------------------- MODULE MlcNativeProofs ---------------------------
(***************************************************************************)
(* Proofs about MlcNative for any number of calls, reloads and cancels and *)
(* any length of the responses: types, the meaning of the mutex and of     *)
(* g_is_generating, and that the calls implement SerialCalls.              *)
(***************************************************************************)
EXTENDS MlcNative, TLAPS

CInv == TypeOK /\ LockInv

LEMMA InitCInv == Init => CInv
<1> SUFFICES ASSUME Init PROVE CInv
  OBVIOUS
<1>1. TypeOK
  <2>1. 0 \in 0..ResponseLen /\ 0 \in 0..MaxCancels
    BY NativeAssumption
  <2>2. /\ emitted \in [Calls -> 0..ResponseLen]
        /\ last \in 0..ResponseLen
        /\ cancels \in 0..MaxCancels
    BY <2>1 DEF Init
  <2>3. call \in [Calls -> CallStates]
    BY DEF Init, CallStates
  <2> QED
    BY <2>2, <2>3 DEF Init, TypeOK
<1>2. LockInv
  BY NativeAssumption DEF Init, LockInv, Held
<1> QED
  BY <1>1, <1>2 DEF CInv

LEMMA TypeStep == TypeOK /\ LockInv /\ [Next]_vars => TypeOK'
<1> SUFFICES ASSUME TypeOK, LockInv, [Next]_vars PROVE TypeOK'
  OBVIOUS
<1> USE NativeAssumption DEF TypeOK
<1>1. CASE LoadLibrary
  BY <1>1 DEF LoadLibrary, flagVars, countVars, cancelVars
<1>2. ASSUME NEW c \in Calls, Stub(c) \/ Call(c) PROVE TypeOK'
  BY <1>2 DEF Stub, Call, CallStates, Returned, flagVars, countVars, cancelVars
<1>3. ASSUME NEW c \in Calls, Lock(c) \/ SetGenerating(c) \/ ResetCancel(c)
      PROVE TypeOK'
  BY <1>3 DEF Lock, SetGenerating, ResetCancel, CallStates, Held, flagVars,
              countVars, cancelVars
<1>4. ASSUME NEW c \in Calls, Check(c) PROVE TypeOK'
  BY <1>4 DEF Check, CallStates, Held, flagVars, countVars, cancelVars
<1>5. ASSUME NEW c \in Calls, OnToken(c) PROVE TypeOK'
  <2>1. emitted[c] + 1 \in 0..ResponseLen
    BY <1>5 DEF OnToken, LockInv
  <2>2. late' \in [Calls -> Nat]
    BY <1>5 DEF OnToken
  <2> QED
    BY <1>5, <2>1, <2>2 DEF OnToken, CallStates, Held, flagVars
<1>6. ASSUME NEW c \in Calls, Count(c) PROVE TypeOK'
  BY <1>6 DEF Count, CallStates, Held, flagVars, cancelVars
<1>7. ASSUME NEW c \in Calls, End(c) \/ Unlock(c) PROVE TypeOK'
  BY <1>7 DEF End, Unlock, CallStates, Held, Returned, countVars, cancelVars
<1>8. ASSUME NEW c \in Calls, Return(c) PROVE TypeOK'
  BY <1>8 DEF Return, CallStates, Returned, flagVars, cancelVars
<1>9. ASSUME NEW r \in Reloads, Reload(r) \/ LoadModel(r) PROVE TypeOK'
  BY <1>9 DEF Reload, LoadModel, flagVars, countVars, cancelVars
<1>10. CASE Cancel
  <2>1. /\ cancels' \in 0..MaxCancels
        /\ shouldCancel' \in BOOLEAN
    BY <1>10 DEF Cancel
  <2>2. cancelled' \in [Calls -> {"no", "starting", "streaming"}]
    BY <1>10 DEF Cancel
  <2>3. late' \in [Calls -> Nat]
    BY <1>10 DEF Cancel
  <2> QED
    BY <1>10, <2>1, <2>2, <2>3 DEF Cancel, countVars
<1>11. CASE Release
  BY <1>11 DEF Release, countVars, cancelVars
<1>12. CASE UNCHANGED vars
  BY <1>12 DEF vars, flagVars, countVars, cancelVars
<1> QED
  BY <1>1, <1>2, <1>3, <1>4, <1>5, <1>6, <1>7, <1>8, <1>9, <1>10, <1>11, <1>12
  DEF Next, CallStep

LEMMA LockStep == TypeOK /\ LockInv /\ [Next]_vars => LockInv'
<1> SUFFICES ASSUME TypeOK, LockInv, [Next]_vars PROVE LockInv'
  OBVIOUS
<1> USE NativeAssumption DEF TypeOK, LockInv, Held
<1>1. CASE LoadLibrary
  BY <1>1 DEF LoadLibrary, flagVars, countVars
<1>2. ASSUME NEW c \in Calls, Stub(c) \/ Call(c) PROVE LockInv'
  <2>1. CASE Stub(c)
    BY <2>1 DEF Stub, flagVars, countVars
  <2>2. CASE Call(c)
    BY <2>2 DEF Call, flagVars, countVars
  <2> QED
    BY <1>2, <2>1, <2>2
<1>3. ASSUME NEW c \in Calls, Lock(c) PROVE LockInv'
  BY <1>3 DEF Lock, countVars
<1>4. ASSUME NEW c \in Calls, SetGenerating(c) \/ ResetCancel(c) PROVE LockInv'
  BY <1>4 DEF SetGenerating, ResetCancel, countVars
<1>5. ASSUME NEW c \in Calls, Check(c) PROVE LockInv'
  BY <1>5 DEF Check, flagVars, countVars
<1>6. ASSUME NEW c \in Calls, OnToken(c) PROVE LockInv'
  BY <1>6 DEF OnToken, flagVars
(* The only step that disturbs what a callback has read of the total is    *)
(* another callback's write: it would need the mutex too.                  *)
<1>7. ASSUME NEW c \in Calls, Count(c) PROVE LockInv'
  <2>1. \A d \in Calls : call[d] = "count" => d = c
    BY <1>7 DEF Count
  <2> QED
    BY <1>7, <2>1 DEF Count, flagVars
<1>8. ASSUME NEW c \in Calls, End(c) PROVE LockInv'
  BY <1>8 DEF End, countVars
<1>9. ASSUME NEW c \in Calls, Unlock(c) PROVE LockInv'
  BY <1>9 DEF Unlock, countVars
<1>10. ASSUME NEW c \in Calls, Return(c) PROVE LockInv'
  BY <1>10 DEF Return, flagVars
<1>11. ASSUME NEW r \in Reloads, Reload(r) \/ LoadModel(r) PROVE LockInv'
  BY <1>11 DEF Reload, LoadModel, flagVars, countVars
<1>12. CASE Cancel \/ Release
  BY <1>12 DEF Cancel, Release, countVars
<1>13. CASE UNCHANGED vars
  BY <1>13 DEF vars, flagVars, countVars
<1> QED
  BY <1>1, <1>2, <1>3, <1>4, <1>5, <1>6, <1>7, <1>8, <1>9, <1>10, <1>11,
     <1>12, <1>13 DEF Next, CallStep

(* Every variable of the native bridge keeps its type; a call never emits  *)
(* more bytes than its response has.                                       *)
THEOREM NativeTypes == Spec => []TypeOK
<1>1. Init => CInv
  BY InitCInv
<1>2. CInv /\ [Next]_vars => CInv'
  BY TypeStep, LockStep DEF CInv
<1>3. CInv => TypeOK
  BY DEF CInv
<1> QED
  BY <1>1, <1>2, <1>3, PTL DEF Spec

(* g_mutex does its work: a call is between its lock and its unlock        *)
(* exactly if it is the holder, and no other call can write the token      *)
(* total between a callback's read of it and its write.                    *)
THEOREM NativeLock == Spec => []LockInv
<1>1. Init => CInv
  BY InitCInv
<1>2. CInv /\ [Next]_vars => CInv'
  BY TypeStep, LockStep DEF CInv
<1>3. CInv => LockInv
  BY DEF CInv
<1> QED
  BY <1>1, <1>2, <1>3, PTL DEF Spec

(* The flag nativeIsGenerating reads without the lock is up exactly while  *)
(* a call is inside its streaming loop.                                    *)
THEOREM FlagIsTrue == Spec => []FlagTellsTheTruth
<1> DEFINE Flag == TypeOK /\ LockInv /\ FlagTellsTheTruth
<1>1. Init => Flag
  BY InitCInv DEF CInv, Init, FlagTellsTheTruth, Looping
<1>2. Flag /\ [Next]_vars => Flag'
  <2> SUFFICES ASSUME TypeOK, LockInv, FlagTellsTheTruth, [Next]_vars
               PROVE  FlagTellsTheTruth'
    BY TypeStep, LockStep
  <2> USE NativeAssumption DEF TypeOK, FlagTellsTheTruth, Looping
  <2>1. CASE LoadLibrary
    BY <2>1 DEF LoadLibrary, flagVars
  <2>2. ASSUME NEW c \in Calls, Stub(c) \/ Call(c) \/ Return(c)
        PROVE  FlagTellsTheTruth'
    BY <2>2 DEF Stub, Call, Return, flagVars
  <2>3. ASSUME NEW c \in Calls, Lock(c) PROVE FlagTellsTheTruth'
    BY <2>3 DEF Lock
  <2>4. ASSUME NEW c \in Calls, SetGenerating(c) \/ ResetCancel(c)
        PROVE  FlagTellsTheTruth'
    BY <2>4 DEF SetGenerating, ResetCancel
  <2>5. ASSUME NEW c \in Calls, Check(c) PROVE FlagTellsTheTruth'
    BY <2>5 DEF Check, flagVars
  <2>6. ASSUME NEW c \in Calls, OnToken(c) \/ Count(c)
        PROVE  FlagTellsTheTruth'
    BY <2>6 DEF OnToken, Count, flagVars
  (* Lowering the flag is right because no other call can be streaming.    *)
  <2>7. ASSUME NEW c \in Calls, End(c) PROVE FlagTellsTheTruth'
    <3>1. \A d \in Calls : call[d] \in Held => d = c
      BY <2>7 DEF End, LockInv, Held
    <3> QED
      BY <2>7, <3>1 DEF End, Held
  <2>8. ASSUME NEW c \in Calls, Unlock(c) PROVE FlagTellsTheTruth'
    BY <2>8 DEF Unlock
  <2>9. ASSUME NEW r \in Reloads, Reload(r) \/ LoadModel(r)
        PROVE  FlagTellsTheTruth'
    BY <2>9 DEF Reload, LoadModel, flagVars
  <2>10. CASE Cancel
    BY <2>10 DEF Cancel
  (* nativeRelease lowers a flag that is down already.                     *)
  <2>11. CASE Release
    BY <2>11 DEF Release, LockInv, Held
  <2>12. CASE UNCHANGED vars
    BY <2>12 DEF vars, flagVars
  <2> QED
    BY <2>1, <2>2, <2>3, <2>4, <2>5, <2>6, <2>7, <2>8, <2>9, <2>10, <2>11,
       <2>12 DEF Next, CallStep
<1>3. Flag => FlagTellsTheTruth
  OBVIOUS
<1> QED
  BY <1>1, <1>2, <1>3, PTL DEF Spec

------------------------------------------------------------------------------
(* What a cancel that found its call streaming relies on: the flag stands  *)
(* until that call has left its loop, and nothing is out of the loop that  *)
(* was not in it when the cancel came, but the byte under way.             *)
CancelInv ==
  \A c \in Calls : cancelled[c] = "streaming" =>
    /\ call[c] \notin {"idle", "blocked", "set", "reset"}
    /\ late[c] <= 1
    /\ call[c] \in Looping => shouldCancel = TRUE
    /\ call[c] = "token" => late[c] = 0

LEMMA CancelStep == TypeOK /\ LockInv /\ CancelInv /\ [Next]_vars => CancelInv'
<1> SUFFICES ASSUME TypeOK, LockInv, CancelInv, [Next]_vars PROVE CancelInv'
  OBVIOUS
<1> USE NativeAssumption DEF TypeOK, CancelInv, Looping
<1>1. CASE LoadLibrary
  BY <1>1 DEF LoadLibrary, flagVars, cancelVars
<1>2. ASSUME NEW c \in Calls, Stub(c) \/ Call(c) PROVE CancelInv'
  BY <1>2 DEF Stub, Call, flagVars, cancelVars
<1>3. ASSUME NEW c \in Calls, Lock(c) \/ SetGenerating(c) PROVE CancelInv'
  BY <1>3 DEF Lock, SetGenerating, cancelVars
(* A later call resets the flag only when nobody else holds the mutex.     *)
<1>4. ASSUME NEW c \in Calls, ResetCancel(c) PROVE CancelInv'
  <2>1. \A d \in Calls : call[d] \in Held => d = c
    BY <1>4 DEF ResetCancel, LockInv, Held
  <2> QED
    BY <1>4, <2>1 DEF ResetCancel, cancelVars, Held
<1>5. ASSUME NEW c \in Calls, Check(c) PROVE CancelInv'
  BY <1>5 DEF Check, flagVars, cancelVars
<1>6. ASSUME NEW c \in Calls, OnToken(c) PROVE CancelInv'
  <2>1. CASE cancelled[c] = "streaming"
    <3>1. late[c] = 0 /\ late' = [late EXCEPT ![c] = late[c] + 1]
      BY <1>6, <2>1 DEF OnToken
    <3>2. late'[c] = 1 /\ \A d \in Calls \ {c} : late'[d] = late[d]
      BY <3>1
    <3> QED
      BY <1>6, <2>1, <3>2 DEF OnToken, flagVars
  <2>2. CASE cancelled[c] # "streaming"
    <3>1. \A d \in Calls \ {c} : late'[d] = late[d]
      BY <1>6 DEF OnToken
    <3> QED
      BY <1>6, <2>2, <3>1 DEF OnToken, flagVars
  <2> QED
    BY <2>1, <2>2
<1>7. ASSUME NEW c \in Calls, Count(c) PROVE CancelInv'
  BY <1>7 DEF Count, flagVars, cancelVars
<1>8. ASSUME NEW c \in Calls, End(c) \/ Unlock(c) PROVE CancelInv'
  BY <1>8 DEF End, Unlock, cancelVars
<1>9. ASSUME NEW c \in Calls, Return(c) PROVE CancelInv'
  BY <1>9 DEF Return, flagVars, cancelVars
<1>10. ASSUME NEW r \in Reloads, Reload(r) \/ LoadModel(r) PROVE CancelInv'
  BY <1>10 DEF Reload, LoadModel, flagVars, cancelVars
<1>11. CASE Cancel
  <2>1. CASE /\ isGenerating
             /\ holder # NoCall
             /\ call[holder] \in Looping \cup {"reset"}
    <3>1. \A d \in Calls \ {holder} :
            cancelled'[d] = cancelled[d] /\ late'[d] = late[d]
      BY <1>11, <2>1 DEF Cancel
    <3>2. \/ cancelled'[holder] = "starting"
          \/ /\ call[holder] \in Looping
             /\ cancelled[holder] = "streaming" => late'[holder] = late[holder]
             /\ cancelled[holder] # "streaming" => late'[holder] = 0
      BY <1>11, <2>1 DEF Cancel
    <3> QED
      BY <1>11, <2>1, <3>1, <3>2 DEF Cancel
  <2>2. CASE UNCHANGED <<cancelled, late>>
    BY <1>11, <2>2 DEF Cancel
  <2> QED
    BY <1>11, <2>1, <2>2 DEF Cancel
(* nativeRelease has the mutex, so nobody is in the loop.                  *)
<1>12. CASE Release
  <2>1. \A d \in Calls : call[d] \notin Looping
    BY <1>12 DEF Release, LockInv, Held
  <2> QED
    BY <1>12, <2>1 DEF Release, cancelVars
<1>13. CASE UNCHANGED vars
  BY <1>13 DEF vars, flagVars, cancelVars
<1> QED
  BY <1>1, <1>2, <1>3, <1>4, <1>5, <1>6, <1>7, <1>8, <1>9, <1>10, <1>11,
     <1>12, <1>13 DEF Next, CallStep

(* A cancel that lands while a call streams lets at most one more byte out *)
(* of it, whatever calls, cancels and releases follow.                     *)
THEOREM CancelsBite == Spec => []CancelBites
<1>1. Init => CInv /\ CancelInv
  BY InitCInv DEF Init, CancelInv
<1>2. CInv /\ CancelInv /\ [Next]_vars => (CInv /\ CancelInv)'
  BY TypeStep, LockStep, CancelStep DEF CInv
<1>3. CInv /\ CancelInv => CancelBites
  BY DEF CancelInv, CancelBites
<1> QED
  BY <1>1, <1>2, <1>3, PTL DEF Spec

------------------------------------------------------------------------------
LEMMA PendingUnchanged ==
  ASSUME TypeOK, LockInv, LockInv', UNCHANGED <<holder, emitted>>,
         \A d \in Calls : d = holder => (call'[d] = "count" <=> call[d] = "count")
  PROVE  Pending' = Pending
BY NativeAssumption DEF Pending, Counted, TypeOK

(* A step that changes neither the total, nor what is pending, nor which   *)
(* calls have returned is a stutter of SerialCalls.                        *)
LEMMA Stutter ==
  ASSUME total' = total, Pending' = Pending,
         \A c \in Calls : call'[c] \in Returned <=> call[c] \in Returned
  PROVE  UNCHANGED SC!vars
BY DEF SC!vars

(* Seen from outside, calls take effect one at a time and the total counts *)
(* every token of every ended call: MlcNative implements SerialCalls.      *)
THEOREM NativeCountsSerially == Spec => CountsSerially
<1>1. Init => SC!Init
  BY DEF Init, SC!Init, Pending, Returned
<1>2. CInv /\ CInv' /\ [Next]_vars => [SC!Next]_SC!vars
  <2> SUFFICES ASSUME TypeOK, LockInv, LockInv', [Next]_vars
               PROVE  SC!Next \/ UNCHANGED SC!vars
    BY DEF CInv
  <2> USE NativeAssumption DEF TypeOK
  <2>1. CASE LoadLibrary
    <3>1. Pending' = Pending
      BY <2>1, PendingUnchanged DEF LoadLibrary, flagVars, countVars
    <3> QED
      BY <2>1, <3>1, Stutter DEF LoadLibrary, countVars
  <2>2. ASSUME NEW c \in Calls, Stub(c) PROVE SC!Next
    <3>1. Pending' = Pending
      BY <2>2, PendingUnchanged DEF Stub, flagVars, countVars
    <3>2. SC!Call(c, 0)
      BY <2>2, <3>1 DEF Stub, countVars, SC!Call, Returned, Pending, Counted
    <3>3. 0 \in 0..ResponseLen
      OBVIOUS
    <3> QED
      BY <3>2, <3>3 DEF SC!Next
  <2>3. ASSUME NEW c \in Calls, Call(c) PROVE UNCHANGED SC!vars
    <3>1. Pending' = Pending
      BY <2>3, PendingUnchanged DEF Call, flagVars, countVars
    <3> QED
      BY <2>3, <3>1, Stutter DEF Call, countVars, Returned
  <2>4. ASSUME NEW c \in Calls, Lock(c) PROVE UNCHANGED SC!vars
    <3>1. Pending' = Pending
      BY <2>4 DEF Lock, countVars, Pending, Counted, LockInv
    <3> QED
      BY <2>4, <3>1, Stutter DEF Lock, countVars, Returned
  <2>5. ASSUME NEW c \in Calls, SetGenerating(c) \/ ResetCancel(c) \/ End(c)
        PROVE  UNCHANGED SC!vars
    <3>1. Pending' = Pending
      BY <2>5, PendingUnchanged DEF SetGenerating, ResetCancel, End, countVars
    <3> QED
      BY <2>5, <3>1, Stutter
      DEF SetGenerating, ResetCancel, End, countVars, Returned
  <2>6. ASSUME NEW c \in Calls, Check(c) PROVE UNCHANGED SC!vars
    <3>1. Pending' = Pending
      BY <2>6, PendingUnchanged DEF Check, flagVars, countVars
    <3> QED
      BY <2>6, <3>1, Stutter DEF Check, countVars, Returned
  (* A byte is counted in the total only once it is written ...            *)
  <2>7. ASSUME NEW c \in Calls, OnToken(c) PROVE UNCHANGED SC!vars
    <3>1. holder = c
      BY <2>7 DEF OnToken, LockInv, Held
    <3>2. Pending' = Pending
      BY <2>7, <3>1 DEF OnToken, flagVars, Pending, Counted
    <3> QED
      BY <2>7, <3>2, Stutter DEF OnToken, Returned
  (* ... and pending from then on.                                         *)
  <2>8. ASSUME NEW c \in Calls, Count(c) PROVE UNCHANGED SC!vars
    <3>1. holder = c /\ local[c] = total
      BY <2>8 DEF Count, LockInv, Held
    <3>2. total' - Pending' = total - Pending
      BY <2>8, <3>1 DEF Count, flagVars, Pending, Counted
    <3> QED
      BY <2>8, <3>2 DEF Count, SC!vars, Returned
  (* Letting go of the lock is the moment the call takes effect.           *)
  <2>9. ASSUME NEW c \in Calls, Unlock(c) PROVE SC!Next
    <3>1. holder = c
      BY <2>9 DEF Unlock, LockInv, Held
    <3>2. PICK n \in 0..ResponseLen : n = emitted[c]
      OBVIOUS
    <3>3. SC!Call(c, n)
      BY <2>9, <3>1, <3>2
      DEF Unlock, countVars, SC!Call, Returned, Pending, Counted
    <3> QED
      BY <3>3 DEF SC!Next
  <2>10. ASSUME NEW c \in Calls, Return(c) PROVE UNCHANGED SC!vars
    <3>1. Pending' = Pending
      BY <2>10, PendingUnchanged DEF Return, flagVars
    <3> QED
      BY <2>10, <3>1, Stutter DEF Return, Returned
  <2>11. ASSUME NEW r \in Reloads, Reload(r) \/ LoadModel(r)
         PROVE  UNCHANGED SC!vars
    <3>1. Pending' = Pending
      BY <2>11, PendingUnchanged DEF Reload, LoadModel, flagVars, countVars
    <3> QED
      BY <2>11, <3>1, Stutter DEF Reload, LoadModel, countVars
  <2>12. CASE Cancel \/ Release
    <3>1. Pending' = Pending
      BY <2>12, PendingUnchanged DEF Cancel, Release, countVars
    <3> QED
      BY <2>12, <3>1, Stutter DEF Cancel, Release, countVars
  <2>13. CASE UNCHANGED vars
    <3>1. Pending' = Pending
      BY <2>13, PendingUnchanged DEF vars, flagVars, countVars
    <3> QED
      BY <2>13, <3>1, Stutter DEF vars, countVars
  <2> QED
    BY <2>1, <2>2, <2>3, <2>4, <2>5, <2>6, <2>7, <2>8, <2>9, <2>10, <2>11,
       <2>12, <2>13 DEF Next, CallStep
<1>3. Init => CInv
  BY InitCInv
<1>4. CInv /\ [Next]_vars => CInv'
  BY TypeStep, LockStep DEF CInv
<1> QED
  BY <1>1, <1>2, <1>3, <1>4, PTL DEF Spec, CountsSerially, SC!Spec

------------------------------------------------------------------------------
(* What is behind CallsEnd *)

(* Steps a call has before it, at most. *)
StepsLeft(c) ==
  LET bytes == length[c] - emitted[c]
  IN CASE call[c] = "blocked"  -> 3 * ResponseLen + 7
       [] call[c] = "set"      -> 3 * ResponseLen + 6
       [] call[c] = "reset"    -> 3 * ResponseLen + 5
       [] call[c] = "check"    -> 3 * bytes + 4
       [] call[c] = "token"    -> 3 * bytes + 3
       [] call[c] = "count"    -> 3 * bytes + 5
       [] call[c] = "end"      -> 3
       [] call[c] = "unlock"   -> 2
       [] call[c] = "returned" -> 1
       [] OTHER                -> 0

(* Whoever takes a step, a call that has begun stays where it is or comes  *)
(* closer to its end, so that g_mutex, which is held for a whole stream    *)
(* (mlc-jni.cpp 107), is always given back.                                *)
CallsComeCloser ==
  \A c \in Calls : call[c] # "idle" =>
    \/ UNCHANGED <<call[c], emitted[c], length[c]>>
    \/ StepsLeft(c)' \in 0..(StepsLeft(c) - 1)

(* A call ends after at most 3 * ResponseLen + 7 steps of its own, however *)
(* often the flags change under it.                                        *)
THEOREM CallsGetOn == Spec => [][CallsComeCloser]_vars
<1>1. CInv /\ CInv' /\ [Next]_vars => CallsComeCloser
  <2> SUFFICES ASSUME TypeOK, LockInv, LockInv', [Next]_vars,
                      NEW d \in Calls, call[d] # "idle"
               PROVE  \/ UNCHANGED <<call[d], emitted[d], length[d]>>
                      \/ StepsLeft(d)' \in 0..(StepsLeft(d) - 1)
    BY DEF CInv, CallsComeCloser
  <2>1. /\ length[d] \in 1..ResponseLen /\ emitted[d] \in 0..ResponseLen
        /\ ResponseLen \in Nat
        /\ emitted[d] <= length[d]
    BY NativeAssumption DEF TypeOK, LockInv
  <2>2. ASSUME NEW c \in Calls, Stub(c) \/ Call(c)
        PROVE  UNCHANGED <<call[d], emitted[d], length[d]>>
    BY <2>2 DEF Stub, Call, countVars, TypeOK
  <2>3. ASSUME NEW c \in Calls, CallStep(c), c # d
        PROVE  UNCHANGED <<call[d], emitted[d], length[d]>>
    BY <2>3 DEF CallStep, Lock, SetGenerating, ResetCancel, Check, OnToken,
                Count, End, Unlock, Return, countVars, TypeOK
  <2>4. CASE Lock(d) \/ SetGenerating(d) \/ ResetCancel(d)
    <3>1. /\ \/ call[d] = "blocked" /\ call'[d] = "set"
             \/ call[d] = "set" /\ call'[d] = "reset"
             \/ call[d] = "reset" /\ call'[d] \in {"check", "end"} /\ emitted[d] = 0
          /\ emitted'[d] = emitted[d] /\ length'[d] = length[d]
      BY <2>4 DEF Lock, SetGenerating, ResetCancel, countVars, TypeOK, LockInv
    <3>2. QED
      BY <2>1, <3>1 DEF StepsLeft
  <2>5. CASE Check(d) \/ Count(d)
    <3>1. /\ \/ call[d] = "check" /\ call'[d] \in {"end", "token"}
             \/ call[d] = "count" /\ call'[d] = "check"
          /\ emitted'[d] = emitted[d] /\ length'[d] = length[d]
      BY <2>5 DEF Check, Count, countVars, TypeOK
    <3>2. QED
      BY <2>1, <3>1 DEF StepsLeft
  <2>6. CASE OnToken(d)
    <3>1. /\ call[d] = "token" /\ call'[d] = "count"
          /\ emitted[d] < length[d]
          /\ emitted'[d] = emitted[d] + 1 /\ length'[d] = length[d]
      BY <2>6 DEF OnToken, TypeOK, LockInv
    <3>2. QED
      BY <2>1, <3>1 DEF StepsLeft
  <2>7. CASE End(d) \/ Unlock(d) \/ Return(d)
    <3>1. \/ call[d] = "end" /\ call'[d] = "unlock"
          \/ call[d] = "unlock" /\ call'[d] = "returned"
          \/ call[d] = "returned" /\ call'[d] = "done"
      BY <2>7 DEF End, Unlock, Return, TypeOK
    <3>2. QED
      BY <3>1 DEF StepsLeft
  <2>8. ASSUME UNCHANGED <<call, countVars>>
        PROVE  UNCHANGED <<call[d], emitted[d], length[d]>>
    BY <2>8 DEF countVars
  <2>9. ASSUME NEW r \in Reloads, Reload(r) \/ LoadModel(r)
        PROVE  UNCHANGED <<call, countVars>>
    BY <2>9 DEF Reload, LoadModel
  <2>10. CASE LoadLibrary \/ Cancel \/ Release \/ UNCHANGED vars
    BY <2>10, <2>8 DEF LoadLibrary, Cancel, Release, vars
  <2>11. QED
    BY <2>2, <2>3, <2>4, <2>5, <2>6, <2>7, <2>8, <2>9, <2>10 DEF Next, CallStep
<1>2. CInv /\ [Next]_vars => CInv'
  BY TypeStep, LockStep DEF CInv
<1>3. QED
  BY <1>1, <1>2, InitCInv, PTL DEF Spec

=============================================================================
