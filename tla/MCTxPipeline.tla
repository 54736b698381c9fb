----------------------------- MODULE MCTxPipeline -----------------------------
(* The send pipeline on instances TLC can exhaust. *)
EXTENDS TxPipeline
=============================================================================
