---------------------------- MODULE MCAccountSlots ----------------------------
(* Finite instances of AccountSlots for TLC.                               *)
EXTENDS AccountSlots, TLC

Symmetry == Permutations(Requests) \cup Permutations(Accounts)
=============================================================================
