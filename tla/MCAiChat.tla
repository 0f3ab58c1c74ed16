------------------------------ MODULE MCAiChat ------------------------------
(* AiChat in a small context: prompts that fit in one batch, fill several, *)
(* leave less than a batch, and do not fit at all.                         *)
EXTENDS AiChat

Sizes == {1, 2, 5, 9}
Lengths == {0, 3}
==============================================================================
