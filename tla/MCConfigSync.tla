----------------------------- MODULE MCConfigSync -----------------------------
(* Instances of ConfigSync for TLC: where each administrator is and what   *)
(* each edits.                                                             *)
EXTENDS ConfigSync, TLC

CONSTANTS n1, elsewhere, a1, a2, x, y, t1

(* One tenant's unit and one of the system tenant.                         *)
TenantValue == (x :> t1) @@ (y :> System)

(* An administrator of another node edits a tenant's unit; one of n1 edits *)
(* that unit and a system unit.                                            *)
HomeValue == (a1 :> elsewhere) @@ (a2 :> n1)
EditsValue == (a1 :> {x}) @@ (a2 :> {x, y})
MaxVersionValue == (x :> 2) @@ (y :> 1)

(* Administrators of other nodes only, each editing a unit of its own.     *)
RemoteHome == [a \in Admins |-> elsewhere]
RemoteEdits == (a1 :> {x}) @@ (a2 :> {y})
OneWrite == [u \in Units |-> 1]
===============================================================================
