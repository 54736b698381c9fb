---------------------------- MODULE MCDepositCount ----------------------------
(* DepositCount on an instance TLC can exhaust. *)
EXTENDS DepositCount
=============================================================================
