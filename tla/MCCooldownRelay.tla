--------------------------- MODULE MCCooldownRelay ---------------------------
(* Finite instance of CooldownRelay for TLC.                                *)
EXTENDS CooldownRelay, TLC

Symmetry == Permutations(Models)
=============================================================================
