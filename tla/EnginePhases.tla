----------------------------- MODULE EnginePhases -----------------------------
(***************************************************************************)
(* The order in which a model is used, as the two halves of the engine     *)
(* agree on it: InferenceEngineImpl, whatever its clients call, asks for   *)
(* nothing else, and ai_chat.cpp answers with nothing else.  A model is    *)
(* loaded; the first thing said to it may be a system prompt; prompts and  *)
(* replies alternate; a prompt that fails ends the conversation for good.  *)
(***************************************************************************)

VARIABLES
  phase,  \* what may be done next, or what is being done
  ready   \* nothing has been said or measured: a system prompt may come

vars == <<phase, ready>>

Init == phase = "Initialized" /\ ready = FALSE

Load ==
  /\ phase = "Initialized"
  /\ \/ phase' = "ModelReady" /\ ready' = TRUE
     \/ phase' = "Error" /\ UNCHANGED ready

Unload ==
  /\ phase = "ModelReady"
  /\ phase' = "Initialized"
  /\ ready' = FALSE

Recover ==
  /\ phase = "Error"
  /\ phase' = "Initialized"
  /\ UNCHANGED ready

(* The model is used for something else, and it is too late to instruct it. *)
Withdraw ==
  /\ phase = "ModelReady"
  /\ ready' = FALSE
  /\ UNCHANGED phase

(* A system prompt is refused at once or processed, and may fail then. *)
Instruct ==
  /\ phase = "ModelReady"
  /\ ready
  /\ phase' \in {"ProcessingSystemPrompt", "Error"}
  /\ ready' = FALSE

Instructed ==
  /\ phase = "ProcessingSystemPrompt"
  /\ phase' \in {"ModelReady", "Error"}
  /\ UNCHANGED ready

Ask ==
  /\ phase = "ModelReady"
  /\ phase' = "ProcessingUserPrompt"
  /\ ready' = FALSE

Understood ==
  /\ phase = "ProcessingUserPrompt"
  /\ phase' \in {"Generating", "Stuck"}
  /\ UNCHANGED ready

Answered ==
  /\ phase = "Generating"
  /\ phase' = "ModelReady"
  /\ UNCHANGED ready

Next == \/ Load \/ Unload \/ Recover \/ Withdraw \/ Instruct \/ Instructed
        \/ Ask \/ Understood \/ Answered

Spec == Init /\ [][Next]_vars

===============================================================================
