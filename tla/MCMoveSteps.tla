----------------------------- MODULE MCMoveSteps -----------------------------
(* MoveSteps on an instance TLC can exhaust. *)
EXTENDS MoveSteps
=============================================================================
