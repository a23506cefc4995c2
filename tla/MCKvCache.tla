----------------------------- MODULE MCKvCache ------------------------------
(* A target cache, a compact branch cache of the same shape, as tree       *)
(* verification uses them, and a cache with fewer heads, from and into     *)
(* which copy_prefix_from must refuse to copy.                             *)
EXTENDS KvCache, TLC

CONSTANTS target, branch, narrow, r1, r2

MCCaches == {target, branch, narrow}
MCHeads == target :> 2 @@ branch :> 2 @@ narrow :> 1
MCCapacity == target :> 2 @@ branch :> 1 @@ narrow :> 1

MCRow == {r1, r2}
RowSymmetry == Permutations(MCRow)
=============================================================================
