---------------------------- MODULE MCClusterSlots ----------------------------
(* Finite instances of ClusterSlots for TLC: two processes, two requests *)
(* on the first and one on the second.                                     *)
EXTENDS ClusterSlots, TLC

CONSTANTS n1, n2, r1, r2, r4

HomeTwoOne == r1 :> n1 @@ r2 :> n1 @@ r4 :> n2
SymmetryTwo == Permutations({r1, r2})
=============================================================================
