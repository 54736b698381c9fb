---------------------------- MODULE MCRpcEndpoints ----------------------------
(* RpcEndpoints for TLC: the shipped endpoints, and one the owner adds in     *)
(* front of them, as composeRpcUrls orders them.                              *)
EXTENDS RpcEndpoints, TLC

CONSTANTS a, b, new

MCLists == {<<a, b>>, <<new, a, b>>}

AnyOrder == Permutations(Callers)
=============================================================================
