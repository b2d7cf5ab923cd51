--------------------------- MODULE MC_ElementCache ---------------------------
(* Three elements, two places, room for two.                                 *)
EXTENDS ElementCacheProperties, TLC

CONSTANTS u1, u2, u3, p1, p2

MC_Uids == {u1, u2, u3}
MC_Places == {p1, p2}
Symmetry == Permutations(MC_Uids) \cup Permutations(MC_Places)
=============================================================================
