---------------------------- MODULE MemoryManager ----------------------------
(***************************************************************************)
(* The short-term memory of the chat: MemoryManager.kt keeps the last      *)
(* MAX_BUFFER_SIZE conversation turns and counts the messages of the       *)
(* session.  The operators below are the updates and the reads; the state  *)
(* they act on (conversationBuffer, sessionMessageCount) belongs to the    *)
(* module that uses them, as the Kotlin object belongs to ChatViewModel.   *)
(***************************************************************************)
EXTENDS Integers, Sequences

CONSTANT MAX_BUFFER_SIZE  \* the code's 10; any positive bound here

ASSUME BufferAssumption == MAX_BUFFER_SIZE \in Nat \ {0}

AddOverfull(buf, turn) ==
  Append(IF Len(buf) > MAX_BUFFER_SIZE THEN Tail(buf) ELSE buf, turn)

DropNewest(buf, turn) ==
  IF Len(buf) >= MAX_BUFFER_SIZE THEN buf ELSE Append(buf, turn)

(* addToBuffer: a full buffer loses its oldest turn, removeAt(0), before   *)
(* the new one is added at the end.                                        *)
AddToBuffer(buf, turn) ==
  Append(IF Len(buf) >= MAX_BUFFER_SIZE THEN Tail(buf) ELSE buf, turn)

(* The ConversationTurn that addToBuffer(message, isUser) builds.          *)
(* ChatViewModel labels the content itself ("User: ", "Kaede: "): that     *)
(* label is "speaker"; isUser is the parameter, TRUE when it is left out.  *)
ConversationTurn(speaker, isUser, id) ==
  [speaker |-> speaker, isUser |-> isUser, id |-> id]

==============================================================================
