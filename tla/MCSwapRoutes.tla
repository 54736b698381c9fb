----------------------------- MODULE MCSwapRoutes -----------------------------
(* The swap's routes on instances TLC can exhaust. *)
EXTENDS SwapRoutes
=============================================================================
