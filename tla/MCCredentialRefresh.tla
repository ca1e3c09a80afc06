------------------------- MODULE MCCredentialRefresh -------------------------
(* Finite instances of CredentialRefresh for TLC: two processes.           *)
EXTENDS CredentialRefresh, TLC

CONSTANTS n1, n2, b1, m1, m2, e1, e2

HomeOf == b1 :> n1 @@ m1 :> n1 @@ m2 :> n2 @@ e1 :> n1 @@ e2 :> n2
HomeOfTasks == [t \in Tasks |-> HomeOf[t]]
=============================================================================
