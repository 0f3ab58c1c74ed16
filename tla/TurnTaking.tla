------------------------------ MODULE TurnTaking ------------------------------
(***************************************************************************)
(* What the chat promises its reader: a transcript in which one question   *)
(* at a time is open, nothing but notes comes between a question and its   *)
(* answer, the answer is the whole text that was generated for that very   *)
(* question, and a question that gets no answer gets an apology.  Wiping   *)
(* the transcript neither opens nor ends a turn.                           *)
(***************************************************************************)
EXTENDS Sequences

CONSTANTS Turns, Nobody, Text  \* Text[t]: the answer generated for turn t

VARIABLES
  log,       \* the transcript
  open,      \* the turn whose question awaits its end, or Nobody
  answered,  \* the open turn has been answered
  asked      \* the turns that have been opened

vars == <<log, open, answered, asked>>

Entry(k, t, text) == [kind |-> k, turn |-> t, text |-> text]

Init ==
  /\ log = <<>>
  /\ open = Nobody
  /\ answered = FALSE
  /\ asked = {}

(* A remark that belongs to no turn. *)
Note ==
  /\ log' = Append(log, Entry("ready", Nobody, <<>>))
  /\ UNCHANGED <<open, answered, asked>>

Wipe ==
  /\ log' = <<Entry("cleared", Nobody, <<>>)>>
  /\ UNCHANGED <<open, answered, asked>>

Ask(t) ==
  /\ open = Nobody
  /\ t \notin asked
  /\ log' = Append(log, Entry("user", t, <<>>))
  /\ open' = t
  /\ answered' = FALSE
  /\ asked' = asked \cup {t}

(* The answer either ends the turn or leaves it open to be filed. *)
Answer(t) ==
  /\ open = t
  /\ ~answered
  /\ log' = Append(log, Entry("reply", t, Text[t]))
  /\ \/ open' = Nobody /\ answered' = FALSE
     \/ open' = t /\ answered' = TRUE
  /\ UNCHANGED asked

(* Filing an answer leaves no trace in the transcript. *)
Filed(t) ==
  /\ open = t
  /\ answered
  /\ open' = Nobody
  /\ answered' = FALSE
  /\ UNCHANGED <<log, asked>>

(* Something failed: the turn ends with an apology. *)
Apologise(t) ==
  /\ open = t
  /\ log' = Append(log, Entry("error", t, <<>>))
  /\ open' = Nobody
  /\ answered' = FALSE
  /\ UNCHANGED asked

Next == \/ Note
        \/ Wipe
        \/ \E t \in Turns : Ask(t) \/ Answer(t) \/ Filed(t) \/ Apologise(t)

Spec == Init /\ [][Next]_vars

===============================================================================
