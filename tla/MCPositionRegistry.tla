--------------------------- MODULE MCPositionRegistry ---------------------------
(*****************************************************************************)
(* PositionRegistry for TLC.  NFTs already minted are interchangeable, and   *)
(* so are those to come, the loops and the pools.                            *)
(*****************************************************************************)
EXTENDS PositionRegistry, TLC

AnyOrder == Permutations(Nfts \ Later) \cup Permutations(Later)
                \cup Permutations(Loops) \cup Permutations(Pools)
                \cup Permutations(Requests)
=============================================================================
