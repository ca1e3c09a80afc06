----------------------------- MODULE SlotService -----------------------------
(***************************************************************************)
(* What the concurrency limiter promises a request, without queues,        *)
(* waiters or in-flight counts: an account is a pool of slots, a request   *)
(* owns at most one slot, takes one only while fewer are out than a limit  *)
(* configured for the account, and a slot that is given up is free again   *)
(* or passes, in the same instant, to one request that owned none.         *)
(***************************************************************************)
EXTENDS Integers, FiniteSets

CONSTANTS Requests, Accounts, Limits, NoAccount

VARIABLE owner  \* the account whose slot a request owns

Owners(a) == {r \in Requests : owner[r] = a}

Init == owner = [r \in Requests |-> NoAccount]

Acquire(r, a) ==
    /\ owner[r] = NoAccount
    /\ 0 \in Limits \/ \E l \in Limits : Cardinality(Owners(a)) < l
    /\ owner' = [owner EXCEPT ![r] = a]

Release(r) ==
    /\ owner[r] # NoAccount
    /\ owner' = [owner EXCEPT ![r] = NoAccount]

Transfer(r, q) ==
    /\ owner[r] # NoAccount
    /\ owner[q] = NoAccount
    /\ owner' = [owner EXCEPT ![r] = NoAccount, ![q] = owner[r]]

Next ==
    \/ \E r \in Requests, a \in Accounts : Acquire(r, a)
    \/ \E r \in Requests : Release(r)
    \/ \E r, q \in Requests : Transfer(r, q)

Spec == Init /\ [][Next]_owner
=============================================================================
