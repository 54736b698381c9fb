---------------------------- MODULE MCMoveControl ----------------------------
(*****************************************************************************)
(* MoveControl for TLC.  Positions are interchangeable: the lock's queue     *)
(* orders them by arrival only.                                              *)
(*****************************************************************************)
EXTENDS MoveControl, TLC

AnyOrder == Permutations(Positions)
=============================================================================
