----------------------------- MODULE MC_LRUCache -----------------------------
(* LRUCacheHistory with one key and one node more than a full cache of three. *)
EXTENDS LRUCacheHistory, TLC

CONSTANTS k1, k2, k3, k4, v1, v2, n1, n2, n3, n4

MC_Keys == {k1, k2, k3, k4}
MC_Values == {v1, v2}
MC_Nodes == {n1, n2, n3, n4}
Symmetry == Permutations(MC_Nodes) \cup Permutations(MC_Values)
=============================================================================
