----------------------------- MODULE SerialCalls -----------------------------
(***************************************************************************)
(* What a lock around the native generator is for: calls take effect one   *)
(* at a time, each exactly once, and the running total is the sum of what  *)
(* the ended calls have counted.                                           *)
(***************************************************************************)
EXTENDS Naturals

CONSTANTS Calls, MaxTokens  \* MaxTokens: the most one call can count

VARIABLES
  total,  \* tokens counted by all ended calls
  ended   \* the calls that have taken effect

vars == <<total, ended>>

Init == total = 0 /\ ended = {}

Call(c, n) ==
  /\ c \notin ended
  /\ total' = total + n
  /\ ended' = ended \cup {c}

Next == \E c \in Calls, n \in 0..MaxTokens : Call(c, n)

Spec == Init /\ [][Next]_vars

===============================================================================
