------------------------------- MODULE MCWsRelay -------------------------------
(* Finite instances of WsRelay for TLC.                                    *)
EXTENDS WsRelay, TLC

CONSTANTS p1

(* Every connection and every call is of the same provider, so that a new  *)
(* connection replaces the one before.                                     *)
SameProvider == [s \in Sessions |-> p1]
SameTarget == [r \in Requests |-> p1]

Symmetry == Permutations(Sessions)
================================================================================
