------------------------------ MODULE MlcNative ------------------------------
(***************************************************************************)
(* The native text generator of the Kaede app: mlc-jni.cpp, which keeps    *)
(* three process-wide atomics and one mutex, and its caller in MlcLlm.kt,  *)
(* generateWithMLCOrStub, whose token callback runs on the thread that     *)
(* holds the mutex.                                                        *)
(*                                                                         *)
(* A call is one run of generateWithMLCOrStub on an IO thread; a reload is *)
(* the nativeLoadModel of a retried load.  Every access to an atomic, and  *)
(* the read and the write of the token total, is a step of its own.        *)
(* g_mlc_ready is false in every state of this version (lines 26, 54, 86,  *)
(* 222) and left out: every call streams one of the SMART_RESPONSES.       *)
(* Nothing in the try block of nativeGenerate throws a C++ exception: a    *)
(* string of one byte is not allocated, and what Java throws is left       *)
(* pending.  So the emergency answer of lines 167-177 is left out too.     *)
(***************************************************************************)
EXTENDS Integers

CONSTANTS
  Calls,        \* calls of generateWithMLCOrStub
  Reloads,      \* calls of nativeLoadModel
  NoCall,       \* nobody holds g_mutex
  ResponseLen,  \* bytes of the longest of the SMART_RESPONSES (bound)
  MaxCancels    \* calls of nativeCancel (bound)

ASSUME NativeAssumption ==
  /\ NoCall \notin Calls
  /\ ResponseLen \in Nat \ {0}
  /\ MaxCancels \in Nat

VARIABLES
  library,       \* the outcome of System.loadLibrary, and of the build
  holder,        \* the call that holds g_mutex
  isGenerating,  \* g_is_generating
  shouldCancel,  \* g_should_cancel
  call,          \* where each call is
  length,        \* bytes of the response a call streams
  emitted,       \* bytes a call has passed to its callback: tokenCount
  local,         \* the value of _totalTokensGenerated a callback has read
  total,         \* _totalTokensGenerated
  last,          \* _lastGenerationTokens
  reload,        \* where each reload is
  cancels,       \* calls of nativeCancel so far
  cancelled,     \* where a call was when nativeCancel found it generating
  late           \* bytes a call has emitted since then

flagVars   == <<holder, isGenerating, shouldCancel>>
countVars  == <<length, emitted, local, total, last>>
cancelVars == <<cancels, cancelled, late>>
vars == <<library, flagVars, call, countVars, reload, cancelVars>>

------------------------------------------------------------------------------
Held     == {"set", "reset", "check", "token", "count", "end", "unlock"}
Looping  == {"check", "token", "count"}
Returned == {"returned", "done"}
CallStates == {"idle", "blocked"} \cup Held \cup Returned

TypeOK ==
  /\ library \in {"unloaded", "loaded", "renamed", "stub", "crashed"}
  /\ holder \in Calls \cup {NoCall}
  /\ isGenerating \in BOOLEAN
  /\ shouldCancel \in BOOLEAN
  /\ call \in [Calls -> CallStates]
  /\ length \in [Calls -> 1..ResponseLen]
  /\ emitted \in [Calls -> 0..ResponseLen]
  /\ local \in [Calls -> Nat]
  /\ total \in Nat
  /\ last \in 0..ResponseLen
  /\ reload \in [Reloads -> {"idle", "blocked", "loaded"}]
  /\ cancels \in 0..MaxCancels
  /\ cancelled \in [Calls -> {"no", "starting", "streaming"}]
  /\ late \in [Calls -> Nat]

Init ==
  /\ library = "unloaded"
  /\ holder = NoCall
  /\ isGenerating = FALSE
  /\ shouldCancel = FALSE
  /\ call = [c \in Calls |-> "idle"]
  /\ length \in [Calls -> 1..ResponseLen]
  /\ emitted = [c \in Calls |-> 0]
  /\ local = [c \in Calls |-> 0]
  /\ total = 0
  /\ last = 0
  /\ reload = [r \in Reloads |-> "idle"]
  /\ cancels = 0
  /\ cancelled = [c \in Calls |-> "no"]
  /\ late = [c \in Calls |-> 0]

------------------------------------------------------------------------------
(* The init block of MlcLlm catches Exception.  A missing library is an    *)
(* UnsatisfiedLinkError, which is an Error: the constructor throws it.  In *)
(* a build that renames onToken (the release build is minified, and its    *)
(* rules keep native methods alone) the library loads, but nativeGenerate  *)
(* does not find its callback.                                             *)
LoadLibrary ==
  /\ library = "unloaded"
  /\ library' \in {"loaded", "renamed", "stub", "crashed"}
  /\ UNCHANGED <<flagVars, call, countVars, reload, cancelVars>>

Native == library \in {"loaded", "renamed"}

(* generateWithMLCOrStub: without the library the text comes from Kotlin.  *)
Stub(c) ==
  /\ library = "stub"
  /\ call[c] = "idle"
  /\ call' = [call EXCEPT ![c] = "done"]
  /\ UNCHANGED <<library, flagVars, countVars, reload, cancelVars>>

Call(c) ==
  /\ Native
  /\ call[c] = "idle"
  /\ call' = [call EXCEPT ![c] = "blocked"]
  /\ UNCHANGED <<library, flagVars, countVars, reload, cancelVars>>

(* Mutation: no lock_guard. *)
LockIgnored(c) ==
  /\ call[c] = "blocked"
  /\ holder' = c
  /\ call' = [call EXCEPT ![c] = "set"]
  /\ UNCHANGED <<library, isGenerating, shouldCancel, countVars, reload,
                 cancelVars>>

(* nativeGenerate, line by line. *)
Lock(c) ==
  /\ call[c] = "blocked"
  /\ holder = NoCall
  /\ holder' = c
  /\ call' = [call EXCEPT ![c] = "set"]
  /\ UNCHANGED <<library, isGenerating, shouldCancel, countVars, reload,
                 cancelVars>>

SetGenerating(c) ==
  /\ call[c] = "set"
  /\ isGenerating' = TRUE
  /\ call' = [call EXCEPT ![c] = "reset"]
  /\ UNCHANGED <<library, holder, shouldCancel, countVars, reload, cancelVars>>

(* The callback is looked up next; without it, the call is over. *)
ResetCancel(c) ==
  /\ call[c] = "reset"
  /\ shouldCancel' = FALSE
  /\ call' = [call EXCEPT ![c] = IF library = "renamed" THEN "end" ELSE "check"]
  /\ UNCHANGED <<library, holder, isGenerating, countVars, reload, cancelVars>>

(* Mutation: the loop looks at g_should_cancel only before its first byte. *)
CheckOnce(c) ==
  /\ call[c] = "check"
  /\ call' = [call EXCEPT ![c] =
       IF (shouldCancel /\ emitted[c] = 0) \/ emitted[c] = length[c]
         THEN "end" ELSE "token"]
  /\ UNCHANGED <<library, flagVars, countVars, reload, cancelVars>>

(* Mutation: one byte past the end of the response. *)
CheckPastEnd(c) ==
  /\ call[c] = "check"
  /\ call' = [call EXCEPT ![c] =
       IF shouldCancel \/ emitted[c] > length[c] THEN "end" ELSE "token"]
  /\ UNCHANGED <<library, flagVars, countVars, reload, cancelVars>>

(* The head of the streaming loop. *)
Check(c) ==
  /\ call[c] = "check"
  /\ call' = [call EXCEPT ![c] =
       IF shouldCancel \/ emitted[c] = length[c] THEN "end" ELSE "token"]
  /\ UNCHANGED <<library, flagVars, countVars, reload, cancelVars>>

(* onToken appends the byte, counts it and reads the total ...             *)
OnToken(c) ==
  /\ call[c] = "token"
  /\ emitted' = [emitted EXCEPT ![c] = @ + 1]
  /\ local' = [local EXCEPT ![c] = total]
  /\ late' = [late EXCEPT ![c] = IF cancelled[c] = "no" THEN 0 ELSE @ + 1]
  /\ call' = [call EXCEPT ![c] = "count"]
  /\ UNCHANGED <<library, flagVars, length, total, last, reload, cancels,
                 cancelled>>

(* ... and writes it back, one higher. *)
Count(c) ==
  /\ call[c] = "count"
  /\ total' = local[c] + 1
  /\ call' = [call EXCEPT ![c] = "check"]
  /\ UNCHANGED <<library, flagVars, length, emitted, local, last, reload,
                 cancelVars>>

(* Mutation: the flag stays up. *)
EndSilently(c) ==
  /\ call[c] = "end"
  /\ call' = [call EXCEPT ![c] = "unlock"]
  /\ UNCHANGED <<library, flagVars, countVars, reload, cancelVars>>

End(c) ==
  /\ call[c] = "end"
  /\ isGenerating' = FALSE
  /\ call' = [call EXCEPT ![c] = "unlock"]
  /\ UNCHANGED <<library, holder, shouldCancel, countVars, reload, cancelVars>>

(* Mutation: an early return between lock() and unlock(). *)
ReturnLocked(c) ==
  /\ call[c] = "unlock"
  /\ call' = [call EXCEPT ![c] = "returned"]
  /\ UNCHANGED <<library, flagVars, countVars, reload, cancelVars>>

Unlock(c) ==
  /\ call[c] = "unlock"
  /\ holder' = NoCall
  /\ call' = [call EXCEPT ![c] = "returned"]
  /\ UNCHANGED <<library, isGenerating, shouldCancel, countVars, reload,
                 cancelVars>>

(* Back in generateWithMLCOrStub, without the lock.  That the callback was *)
(* not found is an Error too, and passes the catch there.                  *)
Return(c) ==
  /\ call[c] = "returned"
  /\ last' = IF library = "renamed" THEN last ELSE emitted[c]
  /\ call' = [call EXCEPT ![c] = "done"]
  /\ UNCHANGED <<library, flagVars, length, emitted, local, total, reload,
                 cancelVars>>

------------------------------------------------------------------------------
(* nativeCancel takes no lock. *)
Cancel ==
  /\ Native
  /\ cancels < MaxCancels
  /\ cancels' = cancels + 1
  /\ shouldCancel' = TRUE
  /\ IF isGenerating /\ holder # NoCall /\ call[holder] \in Looping \cup {"reset"}
       THEN /\ cancelled' = [cancelled EXCEPT ![holder] =
                 IF call[holder] = "reset" THEN "starting" ELSE "streaming"]
            /\ late' = IF cancelled[holder] = "streaming" THEN late
                       ELSE [late EXCEPT ![holder] = 0]
       ELSE UNCHANGED <<cancelled, late>>
  /\ UNCHANGED <<library, holder, isGenerating, call, countVars, reload>>

(* nativeRelease holds the lock from its first line to its last. *)
Release ==
  /\ Native
  /\ holder = NoCall
  /\ isGenerating' = FALSE
  /\ shouldCancel' = FALSE
  /\ UNCHANGED <<library, holder, call, countVars, reload, cancelVars>>

(* A retried load waits for g_mutex, and so for the stream that holds it.  *)
Reload(r) ==
  /\ Native
  /\ reload[r] = "idle"
  /\ reload' = [reload EXCEPT ![r] = "blocked"]
  /\ UNCHANGED <<library, flagVars, call, countVars, cancelVars>>

LoadModel(r) ==
  /\ reload[r] = "blocked"
  /\ holder = NoCall
  /\ reload' = [reload EXCEPT ![r] = "loaded"]
  /\ UNCHANGED <<library, flagVars, call, countVars, cancelVars>>

------------------------------------------------------------------------------
CallStep(c) == \/ Lock(c) \/ SetGenerating(c) \/ ResetCancel(c) \/ Check(c)
               \/ OnToken(c) \/ Count(c) \/ End(c) \/ Unlock(c) \/ Return(c)

Next ==
  \/ LoadLibrary
  \/ \E c \in Calls : Stub(c) \/ Call(c) \/ CallStep(c)
  \/ \E r \in Reloads : Reload(r) \/ LoadModel(r)
  \/ Cancel
  \/ Release

Spec == Init /\ [][Next]_vars

(* Threads that are not blocked run; std::mutex is not fair, but there are *)
(* finitely many calls, each of which lets go of it.                       *)
Fairness ==
  /\ \A c \in Calls : WF_vars(CallStep(c))
  /\ \A r \in Reloads : WF_vars(LoadModel(r))

FairSpec == Spec /\ Fairness

------------------------------------------------------------------------------
(* g_is_generating, read by nativeIsGenerating without the lock, is up     *)
(* exactly while some call is inside its streaming loop, however calls,    *)
(* cancels and releases interleave (mlc-jni.cpp 107-109, 179, 220).        *)
FlagTellsTheTruth ==
  isGenerating <=> \E c \in Calls : call[c] \in {"reset", "end"} \cup Looping

(* A cancel that lands while a call streams lets at most one more byte     *)
(* out, and no later call's reset of the flag can undo it (139, 110).      *)
CancelBites == \A c \in Calls : cancelled[c] = "streaming" => late[c] <= 1

(* Every call and every reload gets the mutex in the end and returns.      *)
CallsEnd ==
  /\ \A c \in Calls : call[c] = "blocked" ~> call[c] = "done"
  /\ \A r \in Reloads : reload[r] = "blocked" ~> reload[r] = "loaded"

(* The unsynchronised read and write of the total (MlcLlm.kt 262) lose no  *)
(* token, because every callback runs under g_mutex: seen from outside,    *)
(* calls take effect one at a time, each with all of its tokens.           *)
Counted(c) == IF call[c] = "count" THEN emitted[c] - 1 ELSE emitted[c]

Pending == IF holder = NoCall THEN 0 ELSE Counted(holder)

SC == INSTANCE SerialCalls WITH
        MaxTokens <- ResponseLen,
        total     <- total - Pending,
        ended     <- {c \in Calls : call[c] \in Returned}

CountsSerially == SC!Spec

(* The inductive invariant: a call is between Lock and Unlock exactly if   *)
(* it holds g_mutex, and what it has read of the total is still true.      *)
LockInv ==
  /\ \A c \in Calls : call[c] \in Held <=> holder = c
  /\ \A c \in Calls : call[c] = "count" => local[c] = total /\ emitted[c] > 0
  /\ \A c \in Calls : call[c] \in {"idle", "blocked", "set", "reset"} =>
       emitted[c] = 0
  /\ \A c \in Calls : emitted[c] <= length[c]
  /\ \A c \in Calls : call[c] = "token" => emitted[c] < length[c]
==============================================================================
