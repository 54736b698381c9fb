--------------------------- MODULE MCRebalanceLimits ---------------------------
(* RebalanceLimits on instances TLC can exhaust. *)
EXTENDS RebalanceLimits
=============================================================================
