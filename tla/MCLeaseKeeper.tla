----------------------------- MODULE MCLeaseKeeper -----------------------------
(* Finite instances of LeaseKeeper for TLC.                                *)
EXTENDS LeaseKeeper

=============================================================================
