-------------------------- MODULE ClusterSlots_proofs --------------------------
(***************************************************************************)
(* Proofs about ClusterSlots, for any processes, requests, limits and      *)
(* membership views: the types, the books of a process (its in-flight      *)
(* count, its leases and the kinds of its slots), the bound on what an     *)
(* outage costs, and the cluster-wide limit.                               *)
(***************************************************************************)
EXTENDS ClusterSlots, Lemmas, FiniteSetTheorems, FunctionTheorems,
        SequenceTheorems, TLAPS

-----------------------------------------------------------------------------
(* Queues.                                                                 *)

(* What dequeue leaves are entries of the queue.                           *)
LEMMA WithoutFacts ==
    ASSUME NEW S, NEW q \in Seq(S), NEW r
    PROVE  /\ Without(q, r) \in Seq(S)
           /\ \A i \in 1..Len(Without(q, r)) :
                 \E k \in 1..Len(q) : Without(q, r)[i] = q[k]
  <1> DEFINE at == {i \in 1..Len(q) : q[i] = r}
             k == Min(at)
             p == SubSeq(q, 1, k - 1) \o SubSeq(q, k + 1, Len(q))
  <1>0. Len(q) \in Nat
    BY LenProperties
  <1>1. CASE at = {}
    <2>1. Without(q, r) = q
      BY <1>1 DEF Without
    <2> QED
      BY <2>1
  <1>2. CASE at # {}
    <2>1. Without(q, r) = p
      BY <1>2 DEF Without
    <2>2. k \in 1..Len(q)
      <3>1. at \in SUBSET Nat
        BY <1>0
      <3>2. k \in at
        <4> HIDE DEF at
        <4> QED
          BY <1>2, <3>1, MinNat
      <3> QED
        BY <3>2
    <2> HIDE DEF k
    <2>3. /\ p \in Seq(S)
          /\ Len(p) = Len(q) - 1
          /\ \A i \in 1..Len(p) : p[i] = q[IF i < k THEN i ELSE i + 1]
      BY <2>2, CutOne
    <2> HIDE DEF p
    <2>4. \A i \in 1..Len(p) : (IF i < k THEN i ELSE i + 1) \in 1..Len(q)
      BY <1>0, <2>2, <2>3
    <2>5. ASSUME NEW i \in 1..Len(p)
          PROVE  \E j \in 1..Len(q) : p[i] = q[j]
      <3> DEFINE j == IF i < k THEN i ELSE i + 1
      <3>1. j \in 1..Len(q) /\ p[i] = q[j]
        BY <2>3, <2>4
      <3> QED
        BY <3>1
    <2> QED
      BY <2>1, <2>3, <2>5
  <1> QED
    BY <1>1, <1>2

(* A request waits only in the queue of its own process.                   *)
QueuedAtHome ==
    \A n \in Nodes : \A i \in 1..Len(waiters[n]) : Home[waiters[n][i]] = n

(* dequeue keeps the queues.                                               *)
LEMMA DequeueQueues ==
    ASSUME waiters \in [Nodes -> Seq(Requests)], QueuedAtHome,
           NEW r \in Requests, Dequeue(r)
    PROVE  waiters' \in [Nodes -> Seq(Requests)] /\ QueuedAtHome'
  <1>1. Home[r] \in Nodes
    BY HomeAssumption
  <1>2. waiters' = [waiters EXCEPT ![Home[r]] = Without(waiters[Home[r]], r)]
    BY DEF Dequeue
  <1>3. /\ Without(waiters[Home[r]], r) \in Seq(Requests)
        /\ \A i \in 1..Len(Without(waiters[Home[r]], r)) :
              \E k \in 1..Len(waiters[Home[r]]) :
                 Without(waiters[Home[r]], r)[i] = waiters[Home[r]][k]
    <2> DEFINE q == waiters[Home[r]]
    <2>1. q \in Seq(Requests)
      BY <1>1
    <2> HIDE DEF q
    <2>2. /\ Without(q, r) \in Seq(Requests)
          /\ \A i \in 1..Len(Without(q, r)) : \E k \in 1..Len(q) : Without(q, r)[i] = q[k]
      BY <2>1, WithoutFacts
    <2> QED
      BY <2>2 DEF q
  <1>4. waiters' \in [Nodes -> Seq(Requests)]
    BY <1>1, <1>2, <1>3
  <1>5. ASSUME NEW n \in Nodes, NEW i \in 1..Len(waiters'[n])
        PROVE  Home[waiters'[n][i]] = n
    <2>1. CASE n = Home[r]
      <3>1. PICK k \in 1..Len(waiters[n]) : waiters'[n][i] = waiters[n][k]
        BY <1>1, <1>2, <1>3, <2>1
      <3> QED
        BY <3>1 DEF QueuedAtHome
    <2>2. CASE n # Home[r]
      BY <1>1, <1>2, <2>2 DEF QueuedAtHome
    <2> QED
      BY <2>1, <2>2
  <1> QED
    BY <1>4, <1>5 DEF QueuedAtHome

(* So does the release, which drops a prefix.                              *)
LEMMA TailQueues ==
    ASSUME waiters \in [Nodes -> Seq(Requests)], QueuedAtHome,
           NEW n \in Nodes, NEW j \in Nat, j <= Len(waiters[n]),
           waiters' = [waiters EXCEPT ![n] = SubSeq(@, j + 1, Len(@))]
    PROVE  waiters' \in [Nodes -> Seq(Requests)] /\ QueuedAtHome'
  <1> DEFINE p == SubSeq(waiters[n], j + 1, Len(waiters[n]))
  <1>1. /\ p \in Seq(Requests)
        /\ \A i \in 1..Len(p) : p[i] = waiters[n][j + i] /\ j + i \in 1..Len(waiters[n])
    <2>1. waiters[n] \in Seq(Requests)
      OBVIOUS
    <2> QED
      BY <2>1, TailFacts
  <1>2. waiters' = [waiters EXCEPT ![n] = p]
    OBVIOUS
  <1> HIDE DEF p
  <1>3. waiters' \in [Nodes -> Seq(Requests)]
    BY <1>1, <1>2
  <1>4. ASSUME NEW m \in Nodes, NEW i \in 1..Len(waiters'[m])
        PROVE  Home[waiters'[m][i]] = m
    <2>1. CASE m = n
      BY <1>1, <1>2, <2>1 DEF QueuedAtHome
    <2>2. CASE m # n
      BY <1>2, <2>2 DEF QueuedAtHome
    <2> QED
      BY <2>1, <2>2
  <1> QED
    BY <1>3, <1>4 DEF QueuedAtHome

(* And Enqueue, which adds the request to its own process's queue.         *)
LEMMA EnqueueQueues ==
    ASSUME waiters \in [Nodes -> Seq(Requests)], QueuedAtHome,
           NEW r \in Requests,
           waiters' = [waiters EXCEPT ![Home[r]] = Append(@, r)]
    PROVE  waiters' \in [Nodes -> Seq(Requests)] /\ QueuedAtHome'
  <1>1. Home[r] \in Nodes
    BY HomeAssumption
  <1> DEFINE q == waiters[Home[r]]
  <1>2. q \in Seq(Requests) /\ Len(q) \in Nat
    BY <1>1, LenProperties
  <1>3. /\ Append(q, r) \in Seq(Requests)
        /\ Len(Append(q, r)) = Len(q) + 1
        /\ \A i \in 1..Len(q) : Append(q, r)[i] = q[i]
        /\ Append(q, r)[Len(q) + 1] = r
    BY <1>2, AppendProperties
  <1>4. waiters' \in [Nodes -> Seq(Requests)]
    BY <1>1, <1>3
  <1>5. ASSUME NEW n \in Nodes, NEW i \in 1..Len(waiters'[n])
        PROVE  Home[waiters'[n][i]] = n
    <2>1. CASE n = Home[r]
      <3>1. waiters'[n] = Append(q, r)
        BY <1>1, <2>1
      <3>2. CASE i = Len(q) + 1
        BY <1>3, <2>1, <3>1, <3>2
      <3>3. CASE i # Len(q) + 1
        <4>1. i \in 1..Len(q)
          BY <1>2, <1>3, <3>1, <3>3
        <4> QED
          BY <1>3, <2>1, <3>1, <4>1 DEF QueuedAtHome
      <3> QED
        BY <3>2, <3>3
    <2>2. CASE n # Home[r]
      BY <1>1, <2>2 DEF QueuedAtHome
    <2> QED
      BY <2>1, <2>2
  <1> QED
    BY <1>4, <1>5 DEF QueuedAtHome

-----------------------------------------------------------------------------
(* Counting.  A step of a request moves it from one state to another and   *)
(* may change one grant, so each of the counts in the books changes by at  *)
(* most one, and only at the request's own process.                        *)

Bit(b) == IF b THEN 1 ELSE 0

Granted(n) == {r \in Requests : Home[r] = n /\ claim[r] = "granted"}
Claimed(n) == Cardinality(At(n, {"claimed"}))

LEMMA AtFinite ==
    ASSUME NEW n, NEW S
    PROVE  /\ IsFiniteSet(At(n, S))
           /\ Cardinality(At(n, S)) \in Nat
           /\ (\E r \in Requests : Home[r] = n /\ pc[r] \in S) => Cardinality(At(n, S)) > 0
  <1>1. At(n, S) \in SUBSET Requests
    BY DEF At
  <1>2. IsFiniteSet(At(n, S)) /\ Cardinality(At(n, S)) \in Nat
    BY <1>1, RequestsAssumption, FS_Subset, FS_CardinalityType
  <1>3. ASSUME NEW r \in Requests, Home[r] = n, pc[r] \in S
        PROVE  Cardinality(At(n, S)) > 0
    <2>1. r \in At(n, S)
      BY <1>3 DEF At
    <2>2. Cardinality(At(n, S)) # 0
      BY <1>2, <2>1, FS_EmptySet
    <2> QED
      BY <1>2, <2>2
  <1> QED
    BY <1>2, <1>3

LEMMA GrantedFinite ==
    ASSUME NEW n
    PROVE  IsFiniteSet(Granted(n)) /\ Cardinality(Granted(n)) \in Nat
  <1>1. Granted(n) \in SUBSET Requests
    BY DEF Granted
  <1> QED
    BY <1>1, RequestsAssumption, FS_Subset, FS_CardinalityType

(* A request goes to state s: the count of a set of states.                *)
LEMMA GotoCounts ==
    ASSUME pc \in [Requests -> States], NEW r \in Requests, NEW s, Goto(r, s),
           NEW n \in Nodes, NEW S
    PROVE  Cardinality(At(n, S)') =
              IF Home[r] = n
              THEN Cardinality(At(n, S)) + Bit(s \in S) - Bit(pc[r] \in S)
              ELSE Cardinality(At(n, S))
  <1> DEFINE A == At(n, S)
             B == At(n, S)'
  <1>0. pc'[r] = s /\ \A x \in Requests \ {r} : pc'[x] = pc[x]
    BY DEF Goto
  <1>1. /\ IsFiniteSet(A) /\ Cardinality(A) \in Nat
        /\ Cardinality(A \cup {r}) = IF r \in A THEN Cardinality(A) ELSE Cardinality(A) + 1
        /\ Cardinality(A \ {r}) = IF r \in A THEN Cardinality(A) - 1 ELSE Cardinality(A)
    <2>1. IsFiniteSet(A) /\ Cardinality(A) \in Nat
      BY AtFinite
    <2> HIDE DEF A
    <2> QED
      BY <2>1, FS_AddElement, FS_RemoveElement
  <1>2. r \in A <=> Home[r] = n /\ pc[r] \in S
    BY DEF At
  <1>3. B = IF Home[r] = n THEN IF s \in S THEN A \cup {r} ELSE A \ {r} ELSE A
    BY <1>0 DEF At
  <1> HIDE DEF A, B
  <1> QED
    BY <1>1, <1>2, <1>3 DEF Bit, A, B

(* A grant is made or taken.                                               *)
LEMMA ClaimCounts ==
    ASSUME claim \in [Requests -> {"none", "granted", "abandoned"}],
           NEW r \in Requests, NEW c, claim' = [claim EXCEPT ![r] = c],
           NEW n \in Nodes
    PROVE  Cardinality(Granted(n)') =
              IF Home[r] = n
              THEN Cardinality(Granted(n)) + Bit(c = "granted") - Bit(claim[r] = "granted")
              ELSE Cardinality(Granted(n))
  <1> DEFINE A == Granted(n)
             B == Granted(n)'
  <1>0. claim'[r] = c /\ \A x \in Requests \ {r} : claim'[x] = claim[x]
    OBVIOUS
  <1>1. /\ IsFiniteSet(A) /\ Cardinality(A) \in Nat
        /\ Cardinality(A \cup {r}) = IF r \in A THEN Cardinality(A) ELSE Cardinality(A) + 1
        /\ Cardinality(A \ {r}) = IF r \in A THEN Cardinality(A) - 1 ELSE Cardinality(A)
    <2>1. IsFiniteSet(A) /\ Cardinality(A) \in Nat
      BY GrantedFinite
    <2> HIDE DEF A
    <2> QED
      BY <2>1, FS_AddElement, FS_RemoveElement
  <1>2. r \in A <=> Home[r] = n /\ claim[r] = "granted"
    BY DEF Granted
  <1>3. B = IF Home[r] = n THEN IF c = "granted" THEN A \cup {r} ELSE A \ {r} ELSE A
    BY <1>0 DEF Granted
  <1> HIDE DEF A, B
  <1> QED
    BY <1>1, <1>2, <1>3 DEF Bit, A, B

(* What a request in state s counts for in the books.                      *)
SlotsOf(s) == Bit(s \in {"running", "polled", "surplus"}) + Bit(s \in {"surplus"})
ReservedOf(s) == Bit(s \in {"reserved", "claimed", "refused", "fallback"})
ClaimedOf(s) == Bit(s \in {"claimed"})

(* The books of process h change by ds slots, dr reservations and dc       *)
(* claims to be committed, those of no other process change.               *)
Shift(h, ds, dr, dc) ==
    \A n \in Nodes :
        /\ Slots(n)' = Slots(n) + (IF n = h THEN ds ELSE 0)
        /\ Reserved(n)' = Reserved(n) + (IF n = h THEN dr ELSE 0)
        /\ Claimed(n)' = Claimed(n) + (IF n = h THEN dc ELSE 0)

LEMMA BooksAreNat ==
    ASSUME NEW n
    PROVE  Slots(n) \in Nat /\ Reserved(n) \in Nat /\ Claimed(n) \in Nat
  <1>1. /\ Cardinality(At(n, {"running", "polled", "surplus"})) \in Nat
        /\ Cardinality(At(n, {"surplus"})) \in Nat
        /\ Cardinality(At(n, {"reserved", "claimed", "refused", "fallback"})) \in Nat
        /\ Cardinality(At(n, {"claimed"})) \in Nat
        /\ Cardinality(Granted(n)) \in Nat
    BY AtFinite, GrantedFinite
  <1> QED
    BY <1>1 DEF Slots, Reserved, Claimed, Granted

LEMMA BooksArePositive ==
    ASSUME NEW r \in Requests
    PROVE  /\ SlotsOf(pc[r]) > 0 => Slots(Home[r]) > 0
           /\ ReservedOf(pc[r]) > 0 => Reserved(Home[r]) > 0
           /\ ClaimedOf(pc[r]) > 0 => Claimed(Home[r]) > 0
  <1> DEFINE n == Home[r]
  <1>1. /\ Cardinality(At(n, {"running", "polled", "surplus"})) \in Nat
        /\ Cardinality(At(n, {"surplus"})) \in Nat
        /\ Cardinality(Granted(n)) \in Nat
    BY AtFinite, GrantedFinite
  <1>2. /\ pc[r] \in {"running", "polled", "surplus"} =>
              Cardinality(At(n, {"running", "polled", "surplus"})) > 0
        /\ pc[r] \in {"reserved", "claimed", "refused", "fallback"} =>
              Cardinality(At(n, {"reserved", "claimed", "refused", "fallback"})) > 0
        /\ pc[r] \in {"claimed"} => Cardinality(At(n, {"claimed"})) > 0
    BY AtFinite
  <1> QED
    BY <1>1, <1>2 DEF Slots, Reserved, Claimed, Granted, SlotsOf, ReservedOf, ClaimedOf, Bit

LEMMA MoveShift ==
    ASSUME pc \in [Requests -> States],
           claim \in [Requests -> {"none", "granted", "abandoned"}],
           NEW r \in Requests, NEW w \in Requests, Home[w] = Home[r],
           NEW s, NEW c, Goto(r, s), claim' = [claim EXCEPT ![w] = c]
    PROVE  Shift(Home[r],
                 SlotsOf(s) - SlotsOf(pc[r])
                    + Bit(c = "granted") - Bit(claim[w] = "granted"),
                 ReservedOf(s) - ReservedOf(pc[r]),
                 ClaimedOf(s) - ClaimedOf(pc[r]))
  <1> SUFFICES ASSUME NEW n \in Nodes
               PROVE  /\ Slots(n)' = Slots(n) + (IF n = Home[r] THEN
                             SlotsOf(s) - SlotsOf(pc[r])
                                + Bit(c = "granted") - Bit(claim[w] = "granted") ELSE 0)
                      /\ Reserved(n)' = Reserved(n) + (IF n = Home[r] THEN
                             ReservedOf(s) - ReservedOf(pc[r]) ELSE 0)
                      /\ Claimed(n)' = Claimed(n) + (IF n = Home[r] THEN
                             ClaimedOf(s) - ClaimedOf(pc[r]) ELSE 0)
    BY DEF Shift
  <1> DEFINE Count(S) == Cardinality(At(n, S))
             Moved(S) == Cardinality(At(n, S)') =
                            IF Home[r] = n
                            THEN Count(S) + Bit(s \in S) - Bit(pc[r] \in S)
                            ELSE Count(S)
  <1>1. /\ Moved({"running", "polled", "surplus"})
        /\ Moved({"surplus"})
        /\ Moved({"reserved", "claimed", "refused", "fallback"})
        /\ Moved({"claimed"})
    BY GotoCounts
  <1>2. Cardinality(Granted(n)') =
              IF Home[r] = n
              THEN Cardinality(Granted(n)) + Bit(c = "granted") - Bit(claim[w] = "granted")
              ELSE Cardinality(Granted(n))
    <2>1. Cardinality(Granted(n)') =
              IF Home[w] = n
              THEN Cardinality(Granted(n)) + Bit(c = "granted") - Bit(claim[w] = "granted")
              ELSE Cardinality(Granted(n))
      BY ClaimCounts
    <2> QED
      BY <2>1
  <1>3. /\ Count({"running", "polled", "surplus"}) \in Nat
        /\ Count({"surplus"}) \in Nat
        /\ Count({"reserved", "claimed", "refused", "fallback"}) \in Nat
        /\ Count({"claimed"}) \in Nat
        /\ Cardinality(Granted(n)) \in Nat
    BY AtFinite, GrantedFinite
  <1>4. \A b : Bit(b) \in Nat
    BY DEF Bit
  <1>5. Claimed(n)' = Claimed(n) + (IF n = Home[r] THEN ClaimedOf(s) - ClaimedOf(pc[r]) ELSE 0)
    BY <1>1, <1>3, <1>4 DEF Claimed, ClaimedOf
  <1>6. Reserved(n)' = Reserved(n) + (IF n = Home[r] THEN ReservedOf(s) - ReservedOf(pc[r]) ELSE 0)
    BY <1>1, <1>3, <1>4 DEF Reserved, ReservedOf
  <1>7. Slots(n)' = Slots(n) + (IF n = Home[r] THEN
                       SlotsOf(s) - SlotsOf(pc[r])
                          + Bit(c = "granted") - Bit(claim[w] = "granted") ELSE 0)
    BY <1>1, <1>2, <1>3, <1>4 DEF Slots, Granted, SlotsOf
  <1> QED
    BY <1>5, <1>6, <1>7

(* The common case: no grant is made or taken.                             *)
LEMMA GotoShift ==
    ASSUME pc \in [Requests -> States],
           claim \in [Requests -> {"none", "granted", "abandoned"}],
           NEW r \in Requests, NEW s, Goto(r, s), UNCHANGED claim
    PROVE  Shift(Home[r], SlotsOf(s) - SlotsOf(pc[r]),
                 ReservedOf(s) - ReservedOf(pc[r]), ClaimedOf(s) - ClaimedOf(pc[r]))
  <1>1. claim' = [claim EXCEPT ![r] = claim[r]]
    OBVIOUS
  <1>2. Shift(Home[r],
              SlotsOf(s) - SlotsOf(pc[r])
                 + Bit(claim[r] = "granted") - Bit(claim[r] = "granted"),
              ReservedOf(s) - ReservedOf(pc[r]), ClaimedOf(s) - ClaimedOf(pc[r]))
    BY <1>1, MoveShift
  <1>3. SlotsOf(s) - SlotsOf(pc[r]) + Bit(claim[r] = "granted") - Bit(claim[r] = "granted")
          = SlotsOf(s) - SlotsOf(pc[r])
    BY DEF SlotsOf, Bit
  <1> QED
    BY <1>2, <1>3

-----------------------------------------------------------------------------
(* What each step of a request does to the books.                          *)

(* A request that gives up has abandoned its waiter, so it leaves no grant *)
(* behind.                                                                 *)
LeavingAbandoned == \A r \in Requests : pc[r] = "leaving" => claim[r] = "abandoned"

(* A process owns the leases of its that lapsed.                           *)
LapsedAreOwned == \A n \in Nodes : lapsed[n] <= pool[n]

Books == LocalAccounting /\ LeaseAccounting

IInv ==
    /\ TypeOK
    /\ QueuedAtHome
    /\ LeavingAbandoned
    /\ LapsedAreOwned
    /\ Books

(* Steps that leave the books alone.                                       *)
Quiet(r) ==
    \/ Begin(r) \/ ClaimRefused(r) \/ ClaimFails(r)
    \/ Refuse(r) \/ Enqueue(r) \/ Abandon(r) \/ Poll(r)
    \/ PollWins(r) \/ PollLeaves(r)
    \/ TakeGrant(r) \/ Leave(r) \/ PollLoses(r)

LEMMA QuietShift ==
    ASSUME TypeOK, LeavingAbandoned, NEW r \in Requests, Quiet(r)
    PROVE  Shift(Home[r], 0, 0, 0)
  <1>0. /\ pc \in [Requests -> States]
        /\ claim \in [Requests -> {"none", "granted", "abandoned"}]
    BY DEF TypeOK
  <1>1. CASE Begin(r) \/ ClaimRefused(r) \/ ClaimFails(r) \/ Refuse(r) \/ Enqueue(r) \/ Poll(r)
    <2>1. PICK s : /\ Goto(r, s) /\ UNCHANGED claim
                   /\ SlotsOf(s) = SlotsOf(pc[r])
                   /\ ReservedOf(s) = ReservedOf(pc[r])
                   /\ ClaimedOf(s) = ClaimedOf(pc[r])
      BY <1>1 DEF Begin, ClaimRefused, ClaimFails, Refuse, Enqueue, Poll, Done,
                  SlotsOf, ReservedOf, ClaimedOf, Bit
    <2>2. Shift(Home[r], SlotsOf(s) - SlotsOf(pc[r]),
                ReservedOf(s) - ReservedOf(pc[r]), ClaimedOf(s) - ClaimedOf(pc[r]))
      BY <1>0, <2>1, GotoShift
    <2>3. /\ SlotsOf(s) - SlotsOf(pc[r]) = 0
          /\ ReservedOf(s) - ReservedOf(pc[r]) = 0
          /\ ClaimedOf(s) - ClaimedOf(pc[r]) = 0
      BY <2>1 DEF SlotsOf, ReservedOf, ClaimedOf, Bit
    <2> QED
      BY <2>2, <2>3
  <1>2. CASE \/ Abandon(r) \/ PollWins(r) \/ PollLeaves(r)
             \/ TakeGrant(r) \/ Leave(r) \/ PollLoses(r)
    <2>1. PICK s, c :
              /\ Goto(r, s) /\ claim' = [claim EXCEPT ![r] = c]
              /\ SlotsOf(s) - SlotsOf(pc[r])
                    + Bit(c = "granted") - Bit(claim[r] = "granted") = 0
              /\ ReservedOf(s) - ReservedOf(pc[r]) = 0
              /\ ClaimedOf(s) - ClaimedOf(pc[r]) = 0
      <3>1. CASE Abandon(r)
        <4> WITNESS "leaving", "abandoned"
        <4> QED
          BY <3>1 DEF Abandon, SlotsOf, ReservedOf, ClaimedOf, Bit
      <3>2. CASE PollWins(r)
        <4> WITNESS "polled", "abandoned"
        <4> QED
          BY <1>0, <3>2 DEF PollWins, Goto, SlotsOf, ReservedOf, ClaimedOf, Bit
      <3>3. CASE PollLeaves(r) \/ TakeGrant(r)
        <4> WITNESS "running", "none"
        <4> QED
          BY <3>3 DEF PollLeaves, TakeGrant, StopWaiting, SlotsOf, ReservedOf, ClaimedOf, Bit
      <3>4. CASE Leave(r)
        <4> WITNESS "idle", "none"
        <4>1. claim[r] = "abandoned"
          BY <3>4 DEF Leave, LeavingAbandoned
        <4> QED
          BY <3>4, <4>1 DEF Leave, Done, StopWaiting, SlotsOf, ReservedOf, ClaimedOf, Bit
      <3>5. CASE PollLoses(r)
        <4> WITNESS "surplus", "none"
        <4> QED
          BY <3>5 DEF PollLoses, StopWaiting, SlotsOf, ReservedOf, ClaimedOf, Bit
      <3> QED
        BY <1>2, <3>1, <3>2, <3>3, <3>4, <3>5
    <2>2. Shift(Home[r],
                SlotsOf(s) - SlotsOf(pc[r])
                    + Bit(c = "granted") - Bit(claim[r] = "granted"),
                ReservedOf(s) - ReservedOf(pc[r]), ClaimedOf(s) - ClaimedOf(pc[r]))
      BY <1>0, <2>1, MoveShift
    <2> QED
      BY <2>1, <2>2
  <1> QED
    BY <1>1, <1>2 DEF Quiet

(* A process's pool, limiter and removals while its request moves quietly. *)
LEMMA QuietKeeps ==
    ASSUME NEW r \in Requests, Quiet(r)
    PROVE  UNCHANGED <<limit, peers, active, clustered, unshared, pool, lapsed, removing>>
  BY DEF Quiet, Begin, ClaimRefused, ClaimFails, Refuse, Enqueue, Abandon, Poll,
         PollWins, PollLeaves, TakeGrant, Leave, PollLoses, limiter, redis, view

(* The steps of an attempt: how the books change, and from where to where  *)
(* the request goes.                                                       *)
LEMMA AttemptShift ==
    ASSUME TypeOK, NEW r \in Requests
    PROVE  /\ Reserve(r) /\ active' # active => Shift(Home[r], 0, 1, 0)
           /\ Reserve(r) /\ active' = active => Shift(Home[r], 0, 0, 0)
           /\ ClaimNothing(r) => Shift(Home[r], 1, -1, 0)
           /\ ClaimGranted(r) => Shift(Home[r], 0, 0, 1)
           /\ CommitClaim(r) => Shift(Home[r], 1, -1, -1)
           /\ Unreserve(r) => Shift(Home[r], 0, -1, 0)
           /\ Fallback(r) /\ unshared' = unshared => Shift(Home[r], 0, -1, 0)
           /\ Fallback(r) /\ unshared' # unshared => Shift(Home[r], 1, -1, 0)
  <1>0. /\ pc \in [Requests -> States]
        /\ claim \in [Requests -> {"none", "granted", "abandoned"}]
        /\ Home[r] \in Nodes /\ active \in [Nodes -> Nat] /\ unshared \in [Nodes -> Nat]
    BY HomeAssumption DEF TypeOK
  <1>1. ASSUME NEW s, Goto(r, s), UNCHANGED claim, NEW ds, NEW dr, NEW dc,
               ds = SlotsOf(s) - SlotsOf(pc[r]),
               dr = ReservedOf(s) - ReservedOf(pc[r]),
               dc = ClaimedOf(s) - ClaimedOf(pc[r])
        PROVE  Shift(Home[r], ds, dr, dc)
    BY <1>0, <1>1, GotoShift
  <1> USE DEF SlotsOf, ReservedOf, ClaimedOf, Bit
  <1>2. ASSUME Reserve(r), active' # active PROVE Shift(Home[r], 0, 1, 0)
    <2>1. Goto(r, "reserved") /\ UNCHANGED claim /\ pc[r] = "trying"
      BY <1>2 DEF Reserve
    <2> QED
      BY <1>1, <2>1
  <1>3. ASSUME Reserve(r), active' = active PROVE Shift(Home[r], 0, 0, 0)
    <2>1. active # Plus(active, Home[r], 1)
      <3>1. active[Home[r]] # active[Home[r]] + 1
        BY <1>0
      <3> QED
        BY <1>0, <3>1 DEF Plus
    <2>2. /\ Goto(r, "waiting") \/ Goto(r, "failed")
          /\ UNCHANGED claim /\ pc[r] = "trying"
      BY <1>3, <2>1 DEF Reserve, AttemptFails
    <2> QED
      BY <1>1, <2>2
  <1>4. ASSUME ClaimNothing(r) PROVE Shift(Home[r], 1, -1, 0)
    <2>1. /\ Goto(r, "polled") \/ Goto(r, "running")
          /\ UNCHANGED claim /\ pc[r] = "reserved"
      BY <1>4 DEF ClaimNothing, AttemptSucceeds
    <2> QED
      BY <1>1, <2>1
  <1>5. ASSUME ClaimGranted(r) PROVE Shift(Home[r], 0, 0, 1)
    <2>1. Goto(r, "claimed") /\ UNCHANGED claim /\ pc[r] = "reserved"
      BY <1>5 DEF ClaimGranted
    <2> QED
      BY <1>1, <2>1
  <1>6. ASSUME CommitClaim(r) PROVE Shift(Home[r], 1, -1, -1)
    <2>1. /\ Goto(r, "polled") \/ Goto(r, "running")
          /\ UNCHANGED claim /\ pc[r] = "claimed"
      BY <1>6 DEF CommitClaim, AttemptSucceeds
    <2> QED
      BY <1>1, <2>1
  <1>7. ASSUME Unreserve(r) PROVE Shift(Home[r], 0, -1, 0)
    <2>1. /\ Goto(r, "waiting") \/ Goto(r, "failed")
          /\ UNCHANGED claim /\ pc[r] = "refused"
      BY <1>7 DEF Unreserve, AttemptFails
    <2> QED
      BY <1>1, <2>1
  <1>8. ASSUME Fallback(r), unshared' = unshared PROVE Shift(Home[r], 0, -1, 0)
    <2>1. unshared # Plus(unshared, Home[r], 1)
      <3>1. unshared[Home[r]] # unshared[Home[r]] + 1
        BY <1>0
      <3> QED
        BY <1>0, <3>1 DEF Plus
    <2>2. /\ Goto(r, "waiting") \/ Goto(r, "failed")
          /\ UNCHANGED claim /\ pc[r] = "fallback"
      BY <1>8, <2>1 DEF Fallback, AttemptFails
    <2> QED
      BY <1>1, <2>2
  <1>9. ASSUME Fallback(r), unshared' # unshared PROVE Shift(Home[r], 1, -1, 0)
    <2>1. /\ Goto(r, "polled") \/ Goto(r, "running")
          /\ UNCHANGED claim /\ pc[r] = "fallback"
      BY <1>9 DEF Fallback, AttemptSucceeds
    <2> QED
      BY <1>1, <2>1
  <1> QED
    BY <1>2, <1>3, <1>4, <1>5, <1>6, <1>7, <1>8, <1>9

(* A release by a request that has a slot: the slot goes to a waiter, or   *)
(* it is freed.                                                            *)
LEMMA ReleaseShift ==
    ASSUME TypeOK, QueuedAtHome, NEW r \in Requests, Finish(r) \/ ReleaseSurplus(r)
    PROVE  \/ /\ Shift(Home[r], 0, 0, 0)
              /\ UNCHANGED <<active, clustered, unshared, redis>>
           \/ /\ Shift(Home[r], -1, 0, 0)
              /\ active' = Plus(active, Home[r], -1)
              /\ ReleaseClusterSlot(Home[r])
  <1>0. /\ pc \in [Requests -> States]
        /\ claim \in [Requests -> {"none", "granted", "abandoned"}]
        /\ waiters \in [Nodes -> Seq(Requests)]
        /\ Home[r] \in Nodes
    BY HomeAssumption DEF TypeOK
  <1> USE DEF SlotsOf, ReservedOf, ClaimedOf, Bit
  <1>1. PICK s : /\ Goto(r, s)
                 /\ SlotsOf(s) - SlotsOf(pc[r]) = -1
                 /\ ReservedOf(s) - ReservedOf(pc[r]) = 0
                 /\ ClaimedOf(s) - ClaimedOf(pc[r]) = 0
    BY DEF Finish, ReleaseSurplus, Done
  <1>2. PICK k \in 0..Len(waiters[Home[r]]) :
            HandOver(Home[r], k) \/ FreeSlot(Home[r], k)
    BY DEF Finish, ReleaseSurplus, ReleaseSlot
  <1>3. CASE HandOver(Home[r], k)
    <2> DEFINE w == waiters[Home[r]][k + 1]
    <2>1. k + 1 \in 1..Len(waiters[Home[r]])
      <3>1. Len(waiters[Home[r]]) \in Nat /\ k < Len(waiters[Home[r]])
        BY <1>0, <1>3, LenProperties DEF HandOver
      <3> QED
        BY <3>1
    <2>2. w \in Requests /\ Home[w] = Home[r]
      <3>1. waiters[Home[r]] \in Seq(Requests)
        BY <1>0
      <3>2. w \in Requests
        BY <2>1, <3>1, ElementOfSeq
      <3> QED
        BY <1>0, <2>1, <3>2 DEF QueuedAtHome
    <2>3. /\ claim[w] = "none"
          /\ claim' = [claim EXCEPT ![w] = "granted"]
          /\ UNCHANGED <<active, clustered, unshared, redis>>
      BY <1>3 DEF HandOver
    <2> HIDE DEF w
    <2>4. Shift(Home[r],
                SlotsOf(s) - SlotsOf(pc[r])
                    + Bit("granted" = "granted") - Bit(claim[w] = "granted"),
                ReservedOf(s) - ReservedOf(pc[r]), ClaimedOf(s) - ClaimedOf(pc[r]))
      <3> HIDE DEF SlotsOf, ReservedOf, ClaimedOf, Bit
      <3> QED
        BY <1>0, <1>1, <2>2, <2>3, MoveShift
    <2>5. SlotsOf(s) - SlotsOf(pc[r])
             + Bit("granted" = "granted") - Bit(claim[w] = "granted") = 0
      BY <1>1, <2>3
    <2> HIDE DEF SlotsOf, ReservedOf, ClaimedOf, Bit
    <2> QED
      BY <1>1, <2>3, <2>4, <2>5
  <1>4. CASE FreeSlot(Home[r], k)
    <2>1. /\ active' = Plus(active, Home[r], -1)
          /\ ReleaseClusterSlot(Home[r])
          /\ UNCHANGED claim
      BY <1>4 DEF FreeSlot
    <2>2. Shift(Home[r], SlotsOf(s) - SlotsOf(pc[r]),
                ReservedOf(s) - ReservedOf(pc[r]), ClaimedOf(s) - ClaimedOf(pc[r]))
      <3> HIDE DEF SlotsOf, ReservedOf, ClaimedOf, Bit
      <3> QED
        BY <1>0, <1>1, <2>1, GotoShift
    <2> HIDE DEF SlotsOf, ReservedOf, ClaimedOf, Bit
    <2> QED
      BY <1>1, <2>1, <2>2
  <1> QED
    BY <1>2, <1>3, <1>4

(* The queues after any step of a request.                                 *)
LEMMA RequestQueues ==
    ASSUME waiters \in [Nodes -> Seq(Requests)], QueuedAtHome,
           NEW r \in Requests, RequestStep(r)
    PROVE  waiters' \in [Nodes -> Seq(Requests)] /\ QueuedAtHome'
  <1>1. CASE Enqueue(r)
    <2>1. waiters' = [waiters EXCEPT ![Home[r]] = Append(@, r)]
      BY <1>1 DEF Enqueue
    <2> QED
      BY <2>1, EnqueueQueues
  <1>2. CASE TakeGrant(r) \/ Leave(r) \/ PollLeaves(r) \/ PollLoses(r)
    <2>1. Dequeue(r)
      BY <1>2 DEF TakeGrant, Leave, PollLeaves, PollLoses
    <2> QED
      BY <2>1, DequeueQueues
  <1>3. CASE Finish(r) \/ ReleaseSurplus(r)
    <2>1. Home[r] \in Nodes /\ Len(waiters[Home[r]]) \in Nat
      BY HomeAssumption, LenProperties
    <2>2. PICK k \in 0..Len(waiters[Home[r]]) :
              HandOver(Home[r], k) \/ FreeSlot(Home[r], k)
      BY <1>3 DEF Finish, ReleaseSurplus, ReleaseSlot
    <2>3. PICK j \in Nat :
              /\ j <= Len(waiters[Home[r]])
              /\ waiters' = [waiters EXCEPT ![Home[r]] = SubSeq(@, j + 1, Len(@))]
      <3>1. CASE HandOver(Home[r], k)
        <4>1. /\ k < Len(waiters[Home[r]])
              /\ waiters' = [waiters EXCEPT ![Home[r]] = SubSeq(@, k + 2, Len(@))]
          BY <3>1 DEF HandOver
        <4>2. k + 1 \in Nat /\ k + 1 <= Len(waiters[Home[r]]) /\ (k + 1) + 1 = k + 2
          BY <2>1, <4>1
        <4>3. waiters' = [waiters EXCEPT ![Home[r]] = SubSeq(@, (k + 1) + 1, Len(@))]
          BY <4>1, <4>2
        <4> QED
          BY <4>2, <4>3
      <3>2. CASE FreeSlot(Home[r], k)
        <4>1. waiters' = [waiters EXCEPT ![Home[r]] = SubSeq(@, k + 1, Len(@))]
          BY <3>2 DEF FreeSlot
        <4>2. k \in Nat /\ k <= Len(waiters[Home[r]])
          BY <2>1
        <4> QED
          BY <4>1, <4>2
      <3> QED
        BY <2>2, <3>1, <3>2
    <2> QED
      BY <2>1, <2>3, TailQueues
  <1>4. CASE \/ Begin(r) \/ Reserve(r) \/ ClaimNothing(r) \/ ClaimGranted(r)
             \/ ClaimRefused(r) \/ ClaimFails(r) \/ CommitClaim(r) \/ Unreserve(r)
             \/ Fallback(r) \/ Refuse(r) \/ Abandon(r) \/ Poll(r) \/ PollWins(r)
    <2>1. UNCHANGED waiters
      BY <1>4 DEF Begin, Reserve, ClaimNothing, ClaimGranted, ClaimRefused, ClaimFails,
                  CommitClaim, Unreserve, Fallback, Refuse, Abandon, Poll, PollWins, limiter
    <2> QED
      BY <2>1 DEF QueuedAtHome
  <1> QED
    BY <1>1, <1>2, <1>3, <1>4 DEF RequestStep

(* The books balance after any step of a request.                          *)
LEMMA RequestBooks ==
    ASSUME IInv, NEW r \in Requests, RequestStep(r)
    PROVE  Books'
  <1> DEFINE h == Home[r]
  <1>0. /\ h \in Nodes
        /\ active \in [Nodes -> Nat] /\ clustered \in [Nodes -> Nat]
        /\ unshared \in [Nodes -> Nat] /\ pool \in [Nodes -> Nat]
    BY HomeAssumption DEF IInv, TypeOK
  <1>1. \A n \in Nodes : /\ active[n] = Slots(n) + Reserved(n)
                         /\ pool[n] = clustered[n] + Claimed(n)
                         /\ Slots(n) \in Nat /\ Reserved(n) \in Nat /\ Claimed(n) \in Nat
    BY BooksAreNat DEF IInv, Books, LocalAccounting, LeaseAccounting, Claimed
  <1>2. SUFFICES ASSUME NEW n \in Nodes
                 PROVE  /\ active'[n] = Slots(n)' + Reserved(n)'
                        /\ pool'[n] = clustered'[n] + Claimed(n)'
    BY DEF Books, LocalAccounting, LeaseAccounting, Claimed
  <1>3. CASE Quiet(r)
    <2>1. Shift(h, 0, 0, 0)
      BY <1>3, QuietShift DEF IInv
    <2>2. UNCHANGED <<active, clustered, pool>>
      BY <1>3, QuietKeeps
    <2> QED
      BY <1>0, <1>1, <2>1, <2>2 DEF Shift
  <1>4. CASE Reserve(r)
    <2>1. /\ active' = active \/ active' = Plus(active, h, 1)
          /\ UNCHANGED <<clustered, pool>>
      BY <1>4 DEF Reserve, redis
    <2>2. CASE active' = active
      <3>1. Shift(h, 0, 0, 0)
        BY <1>4, <2>2, AttemptShift DEF IInv
      <3> QED
        BY <1>0, <1>1, <2>1, <2>2, <3>1 DEF Shift
    <2>3. CASE active' # active
      <3>1. Shift(h, 0, 1, 0)
        BY <1>4, <2>3, AttemptShift DEF IInv
      <3> QED
        BY <1>0, <1>1, <2>1, <2>3, <3>1 DEF Shift, Plus
    <2> QED
      BY <2>2, <2>3
  <1>5. CASE ClaimNothing(r)
    <2>1. Shift(h, 1, -1, 0)
      BY <1>5, AttemptShift DEF IInv
    <2>2. UNCHANGED <<active, clustered, pool>>
      BY <1>5 DEF ClaimNothing, limiter, redis
    <2> QED
      BY <1>0, <1>1, <2>1, <2>2 DEF Shift
  <1>6. CASE ClaimGranted(r)
    <2>1. Shift(h, 0, 0, 1)
      BY <1>6, AttemptShift DEF IInv
    <2>2. UNCHANGED <<active, clustered>> /\ pool' = Plus(pool, h, 1)
      BY <1>6 DEF ClaimGranted, limiter
    <2> QED
      BY <1>0, <1>1, <2>1, <2>2 DEF Shift, Plus
  <1>7. CASE CommitClaim(r)
    <2>1. Shift(h, 1, -1, -1)
      BY <1>7, AttemptShift DEF IInv
    <2>2. UNCHANGED <<active, pool>> /\ clustered' = Plus(clustered, h, 1)
      BY <1>7 DEF CommitClaim, redis
    <2>3. clustered'[n] = clustered[n] + (IF n = h THEN 1 ELSE 0)
      BY <1>0, <2>2 DEF Plus
    <2> QED
      BY <1>0, <1>1, <2>1, <2>2, <2>3 DEF Shift
  <1>8. CASE Unreserve(r)
    <2>1. Shift(h, 0, -1, 0)
      BY <1>8, AttemptShift DEF IInv
    <2>2. UNCHANGED <<clustered, pool>> /\ active' = Plus(active, h, -1)
      BY <1>8 DEF Unreserve, redis
    <2>3. active'[n] = active[n] + (IF n = h THEN -1 ELSE 0)
      BY <1>0, <2>2 DEF Plus
    <2> QED
      BY <1>0, <1>1, <2>1, <2>2, <2>3 DEF Shift
  <1>9. CASE Fallback(r)
    <2>1. /\ UNCHANGED <<clustered, pool>>
          /\ \/ unshared' = unshared /\ active' = Plus(active, h, -1)
             \/ unshared' = Plus(unshared, h, 1) /\ active' = active
      BY <1>9 DEF Fallback, redis
    <2>2. Plus(unshared, h, 1) # unshared
      <3>1. unshared[h] + 1 # unshared[h]
        BY <1>0
      <3> QED
        BY <1>0, <3>1 DEF Plus
    <2>3. CASE unshared' = unshared
      <3>1. Shift(h, 0, -1, 0)
        BY <1>9, <2>3, AttemptShift DEF IInv
      <3>2. active' = Plus(active, h, -1)
        BY <2>1, <2>2, <2>3
      <3> QED
        BY <1>0, <1>1, <2>1, <3>1, <3>2 DEF Shift, Plus
    <2>4. CASE unshared' # unshared
      <3>1. Shift(h, 1, -1, 0)
        BY <1>9, <2>4, AttemptShift DEF IInv
      <3>2. active' = active
        BY <2>1, <2>4
      <3> QED
        BY <1>0, <1>1, <2>1, <3>1, <3>2 DEF Shift
    <2> QED
      BY <2>3, <2>4
  <1>10. CASE Finish(r) \/ ReleaseSurplus(r)
    <2>1. CASE Shift(h, 0, 0, 0) /\ UNCHANGED <<active, clustered, unshared, redis>>
      BY <1>0, <1>1, <2>1 DEF Shift, redis
    <2>2. CASE /\ Shift(h, -1, 0, 0)
               /\ active' = Plus(active, h, -1)
               /\ ReleaseClusterSlot(h)
      <3>1. \/ UNCHANGED <<clustered, pool>>
            \/ clustered' = Plus(clustered, h, -1) /\ pool' = Plus(pool, h, -1)
        BY <2>2 DEF ReleaseClusterSlot, ReleaseAccountSlot, redis
      <3> QED
        BY <1>0, <1>1, <2>2, <3>1 DEF Shift, Plus
    <2> QED
      BY <1>10, <2>1, <2>2, ReleaseShift DEF IInv
  <1> QED
    BY <1>3, <1>4, <1>5, <1>6, <1>7, <1>8, <1>9, <1>10 DEF RequestStep, Quiet

(* The requests' own variables after a step of one of them.                *)
LEMMA RequestTypes ==
    ASSUME IInv, NEW r \in Requests, RequestStep(r)
    PROVE  /\ limit' \in Limits
           /\ avail' \in [Nodes -> BOOLEAN]
           /\ peers' \in [Nodes -> Views]
           /\ orphans' \in 0..MaxOrphans
           /\ pc' \in [Requests -> States]
           /\ lim' \in [Requests -> Limits \cup {0}]
           /\ claim' \in [Requests -> {"none", "granted", "abandoned"}]
           /\ queued' \in [Requests -> BOOLEAN]
           /\ LeavingAbandoned'
  <1>0. TypeOK /\ LeavingAbandoned /\ QueuedAtHome /\ Home[r] \in Nodes
    BY HomeAssumption DEF IInv
  <1> USE DEF view, limiter, redis, Goto, Done
  <1>1. CASE \/ Begin(r) \/ Reserve(r) \/ ClaimNothing(r) \/ ClaimGranted(r)
             \/ ClaimRefused(r) \/ CommitClaim(r) \/ Unreserve(r) \/ Fallback(r)
    <2>1. PICK s \in States \ {"leaving"} : pc' = [pc EXCEPT ![r] = s]
      BY <1>1 DEF Begin, Reserve, ClaimNothing, ClaimGranted, ClaimRefused, CommitClaim,
                  Unreserve, Fallback, AttemptFails, AttemptSucceeds, States
    <2>2. lim' = lim \/ lim' = [lim EXCEPT ![r] = limit]
      BY <1>1 DEF Begin, Reserve, ClaimNothing, ClaimGranted, ClaimRefused, CommitClaim,
                  Unreserve, Fallback
    <2>3. UNCHANGED <<limit, avail, peers, orphans, claim, queued>>
      BY <1>1 DEF Begin, Reserve, ClaimNothing, ClaimGranted, ClaimRefused, CommitClaim,
                  Unreserve, Fallback
    <2> QED
      BY <1>0, <2>1, <2>2, <2>3 DEF TypeOK, LeavingAbandoned
  <1>2. CASE ClaimFails(r)
    <2>1. orphans' \in 0..MaxOrphans
      <3>1. orphans' = orphans \/ (orphans < MaxOrphans /\ orphans' = orphans + 1)
        BY <1>2 DEF ClaimFails
      <3> QED
        BY <1>0, <3>1, MaxOrphansAssumption DEF TypeOK
    <2>2. avail' = avail \/ avail' = [avail EXCEPT ![Home[r]] = FALSE]
      BY <1>2 DEF ClaimFails
    <2>3. pc' = [pc EXCEPT ![r] = "fallback"] /\ UNCHANGED <<limit, peers, lim, claim, queued>>
      BY <1>2 DEF ClaimFails
    <2> QED
      BY <1>0, <2>1, <2>2, <2>3 DEF TypeOK, LeavingAbandoned, States
  <1>3. CASE Refuse(r) \/ Enqueue(r) \/ Abandon(r) \/ Poll(r) \/ PollWins(r)
    BY <1>0, <1>3 DEF TypeOK, LeavingAbandoned, States, Refuse, Enqueue, Abandon, Poll, PollWins
  <1>4. CASE TakeGrant(r) \/ Leave(r) \/ PollLeaves(r) \/ PollLoses(r)
    BY <1>0, <1>4 DEF TypeOK, LeavingAbandoned, States, TakeGrant, Leave, PollLeaves,
           PollLoses, StopWaiting
  <1>5. CASE Finish(r) \/ ReleaseSurplus(r)
    <2>1. PICK s \in {"idle", "running"} : pc' = [pc EXCEPT ![r] = s]
      BY <1>5 DEF Finish, ReleaseSurplus
    <2>2. lim' = lim \/ lim' = [lim EXCEPT ![r] = 0]
      BY <1>5 DEF Finish, ReleaseSurplus
    <2>3. UNCHANGED <<limit, avail, peers, orphans, queued>>
      BY <1>5 DEF Finish, ReleaseSurplus, ReleaseSlot, HandOver, FreeSlot,
                  ReleaseClusterSlot, ReleaseAccountSlot
    <2>4. \/ UNCHANGED claim
          \/ \E w : claim[w] = "none" /\ claim' = [claim EXCEPT ![w] = "granted"]
      BY <1>5 DEF Finish, ReleaseSurplus, ReleaseSlot, HandOver, FreeSlot
    <2>5. /\ claim' \in [Requests -> {"none", "granted", "abandoned"}]
          /\ \A x \in Requests : claim[x] = "abandoned" => claim'[x] = "abandoned"
      BY <1>0, <2>4 DEF TypeOK
    <2> QED
      BY <1>0, <2>1, <2>2, <2>3, <2>5 DEF TypeOK, LeavingAbandoned, States
  <1> QED
    BY <1>1, <1>2, <1>3, <1>4, <1>5 DEF RequestStep

(* The counters after a step of a request.  That none becomes negative is  *)
(* the books again.                                                        *)
LEMMA RequestCounters ==
    ASSUME IInv, NEW r \in Requests, RequestStep(r)
    PROVE  /\ active' \in [Nodes -> Nat]
           /\ clustered' \in [Nodes -> Nat]
           /\ unshared' \in [Nodes -> Nat]
           /\ pool' \in [Nodes -> Nat]
           /\ lapsed' \in [Nodes -> Nat]
           /\ removing' \in [Nodes -> Nat]
           /\ LapsedAreOwned'
  <1> DEFINE h == Home[r]
  <1>0. /\ h \in Nodes
        /\ active \in [Nodes -> Nat] /\ clustered \in [Nodes -> Nat]
        /\ unshared \in [Nodes -> Nat] /\ pool \in [Nodes -> Nat]
        /\ lapsed \in [Nodes -> Nat] /\ removing \in [Nodes -> Nat]
        /\ LapsedAreOwned
    BY HomeAssumption DEF IInv, TypeOK
  <1>1. \A n \in Nodes : /\ active'[n] = Slots(n)' + Reserved(n)'
                         /\ pool'[n] = clustered'[n] + Claimed(n)'
    BY RequestBooks DEF Books, LocalAccounting, LeaseAccounting, Claimed
  <1>2. \A n \in Nodes : Slots(n)' \in Nat /\ Reserved(n)' \in Nat /\ Claimed(n)' \in Nat
    <2>1. \A n \in Nodes : Slots(n) \in Nat /\ Reserved(n) \in Nat /\ Claimed(n) \in Nat
      BY BooksAreNat
    <2>2. ASSUME NEW n \in Nodes
          PROVE  /\ Cardinality(At(n, {"running", "polled", "surplus"})') \in Nat
                 /\ Cardinality(At(n, {"surplus"})') \in Nat
                 /\ Cardinality(At(n, {"reserved", "claimed", "refused", "fallback"})') \in Nat
                 /\ Cardinality(At(n, {"claimed"})') \in Nat
                 /\ Cardinality(Granted(n)') \in Nat
      <3>1. ASSUME NEW S PROVE Cardinality(At(n, S)') \in Nat
        <4>1. At(n, S)' \in SUBSET Requests
          BY DEF At
        <4> QED
          BY <4>1, RequestsAssumption, FS_Subset, FS_CardinalityType
      <3>2. Granted(n)' \in SUBSET Requests
        BY DEF Granted
      <3> QED
        BY <3>1, <3>2, RequestsAssumption, FS_Subset, FS_CardinalityType
    <2> QED
      BY <2>2 DEF Slots, Reserved, Claimed, Granted
  <1>3. CASE Quiet(r)
    BY <1>0, <1>3, QuietKeeps DEF LapsedAreOwned
  <1>4. CASE \/ Reserve(r) \/ ClaimNothing(r) \/ ClaimGranted(r)
             \/ CommitClaim(r) \/ Unreserve(r) \/ Fallback(r)
    <2>1. /\ active' = active \/ active' = Plus(active, h, 1) \/ active' = Plus(active, h, -1)
          /\ clustered' = clustered \/ clustered' = Plus(clustered, h, 1)
          /\ unshared' = unshared \/ unshared' = Plus(unshared, h, 1)
          /\ pool' = pool \/ pool' = Plus(pool, h, 1)
          /\ UNCHANGED <<lapsed, removing>>
      BY <1>4 DEF Reserve, ClaimNothing, ClaimGranted, CommitClaim, Unreserve, Fallback,
                  limiter, redis
    <2>2. active' \in [Nodes -> Int]
      BY <1>0, <2>1 DEF Plus
    <2>3. active' \in [Nodes -> Nat]
      BY <1>1, <1>2, <2>2
    <2> QED
      BY <1>0, <2>1, <2>3 DEF Plus, LapsedAreOwned
  <1>5. CASE Finish(r) \/ ReleaseSurplus(r)
    <2>1. CASE UNCHANGED <<active, clustered, unshared, redis>>
      BY <1>0, <2>1 DEF redis, LapsedAreOwned
    <2>2. CASE active' = Plus(active, h, -1) /\ ReleaseClusterSlot(h)
      <3>1. active' \in [Nodes -> Int]
        BY <1>0, <2>2 DEF Plus
      <3>2. active' \in [Nodes -> Nat]
        BY <1>1, <1>2, <3>1
      <3>3. clustered' \in [Nodes -> Nat] /\ unshared' \in [Nodes -> Nat]
        BY <1>0, <2>2 DEF ReleaseClusterSlot, Plus
      <3>4. UNCHANGED redis \/ ReleaseAccountSlot(h)
        BY <2>2 DEF ReleaseClusterSlot
      <3>5. CASE UNCHANGED redis
        BY <1>0, <3>2, <3>3, <3>5 DEF redis, LapsedAreOwned
      <3>6. CASE ReleaseAccountSlot(h)
        <4>1. pool' \in [Nodes -> Int]
          BY <1>0, <3>6 DEF ReleaseAccountSlot, Plus
        <4>2. pool' \in [Nodes -> Nat]
          BY <1>1, <1>2, <3>3, <4>1
        <4>3. lapsed' \in [Nodes -> Nat] /\ removing' \in [Nodes -> Nat]
          BY <1>0, <3>6 DEF ReleaseAccountSlot, Plus
        <4>4. LapsedAreOwned'
          BY <1>0, <3>6 DEF ReleaseAccountSlot, Plus, LapsedAreOwned
        <4> QED
          BY <3>2, <3>3, <4>2, <4>3, <4>4
      <3> QED
        BY <3>4, <3>5, <3>6
    <2> QED
      BY <1>5, <2>1, <2>2, ReleaseShift DEF IInv
  <1> QED
    BY <1>3, <1>4, <1>5 DEF RequestStep, Quiet

LEMMA RequestIInv ==
    ASSUME IInv, NEW r \in Requests, RequestStep(r)
    PROVE  IInv'
  <1>1. waiters \in [Nodes -> Seq(Requests)] /\ QueuedAtHome
    BY DEF IInv, TypeOK
  <1>2. waiters' \in [Nodes -> Seq(Requests)] /\ QueuedAtHome'
    BY <1>1, RequestQueues
  <1> QED
    BY <1>2, RequestBooks, RequestTypes, RequestCounters DEF IInv, TypeOK

-----------------------------------------------------------------------------
(* Redis, the operator and the processes.                                  *)

LEMMA InitIInv ==
    Init => IInv
  <1> SUFFICES ASSUME Init PROVE IInv
    OBVIOUS
  <1>1. Min(Views) \in Views
    <2>1. Views \in SUBSET Nat /\ Views # {}
      BY ViewsAssumption
    <2> QED
      BY <2>1, MinNat
  <1>2. TypeOK
    BY <1>1, MaxOrphansAssumption DEF Init, TypeOK, States
  <1>3. QueuedAtHome /\ LeavingAbandoned /\ LapsedAreOwned
    BY DEF Init, QueuedAtHome, LeavingAbandoned, LapsedAreOwned
  <1>4. ASSUME NEW n \in Nodes, NEW S, "idle" \notin S
        PROVE  Cardinality(At(n, S)) = 0
    <2>1. At(n, S) = {}
      BY <1>4 DEF Init, At
    <2> QED
      BY <2>1, FS_EmptySet
  <1>5. ASSUME NEW n \in Nodes
        PROVE  Slots(n) = 0 /\ Reserved(n) = 0 /\ Cardinality(At(n, {"claimed"})) = 0
    <2>1. Granted(n) = {}
      BY DEF Init, Granted
    <2>2. Cardinality(Granted(n)) = 0
      BY <2>1, FS_EmptySet
    <2>3. /\ Cardinality(At(n, {"running", "polled", "surplus"})) = 0
          /\ Cardinality(At(n, {"surplus"})) = 0
          /\ Cardinality(At(n, {"reserved", "claimed", "refused", "fallback"})) = 0
          /\ Cardinality(At(n, {"claimed"})) = 0
      BY <1>4
    <2> QED
      BY <2>2, <2>3 DEF Slots, Reserved, Granted
  <1>6. Books
    BY <1>5 DEF Init, Books, LocalAccounting, LeaseAccounting
  <1> QED
    BY <1>2, <1>3, <1>6 DEF IInv

(* A step that leaves the requests and the limiters alone keeps the books. *)
LEMMA SameBooks ==
    ASSUME Books, UNCHANGED <<active, clustered, pool, pc, claim>>
    PROVE  Books'
  <1>1. ASSUME NEW n \in Nodes
        PROVE  Slots(n)' = Slots(n) /\ Reserved(n)' = Reserved(n) /\ Claimed(n)' = Claimed(n)
    BY DEF Slots, Reserved, Claimed, At
  <1> QED
    BY <1>1 DEF Books, LocalAccounting, LeaseAccounting, Claimed

(* A count of one process moves by d.                                      *)
LEMMA PlusFacts ==
    ASSUME NEW f \in [Nodes -> Nat], NEW n \in Nodes, NEW d \in Int, f[n] + d \in Nat
    PROVE  /\ Plus(f, n, d) \in [Nodes -> Nat]
           /\ \A m \in Nodes : Plus(f, n, d)[m] = IF m = n THEN f[n] + d ELSE f[m]
  BY DEF Plus

LEMMA OutsideIInv ==
    ASSUME IInv,
           \/ \E n \in Nodes : \/ RemoveLease(n) \/ Lapse(n) \/ Renew(n)
                               \/ ExpireReleased(n) \/ Probe(n) \/ SeePeers(n)
           \/ Expire \/ SetLimit \/ UNCHANGED vars
    PROVE  IInv'
  <1> USE DEF view, limiter, redis, request
  <1>1. UNCHANGED <<active, clustered, unshared, waiters, pool, pc, lim, claim, queued>>
    BY DEF RemoveLease, Lapse, Renew, ExpireReleased, Probe, SeePeers, Expire, SetLimit, vars
  <1>2. Books'
    BY <1>1, SameBooks DEF IInv
  <1>3. QueuedAtHome' /\ LeavingAbandoned'
    BY <1>1 DEF IInv, QueuedAtHome, LeavingAbandoned
  <1>4. /\ limit' \in Limits
        /\ avail' \in [Nodes -> BOOLEAN]
        /\ peers' \in [Nodes -> Views]
        /\ lapsed' \in [Nodes -> Nat]
        /\ removing' \in [Nodes -> Nat]
        /\ orphans' \in 0..MaxOrphans
        /\ LapsedAreOwned'
    <2>1. TypeOK /\ LapsedAreOwned
      BY DEF IInv
    <2>2. CASE \E n \in Nodes : RemoveLease(n) \/ ExpireReleased(n)
      <3>1. PICK n \in Nodes : removing[n] > 0 /\ removing' = Plus(removing, n, -1)
        BY <2>2 DEF RemoveLease, ExpireReleased
      <3>2. UNCHANGED <<limit, avail, peers, pool, lapsed, orphans>>
        BY <2>2 DEF RemoveLease, ExpireReleased
      <3>3. removing' \in [Nodes -> Nat]
        <4>1. removing \in [Nodes -> Nat] /\ removing[n] \in Nat
          BY <2>1 DEF TypeOK
        <4>2. removing[n] + (-1) \in Nat
          BY <3>1, <4>1
        <4> QED
          BY <3>1, <4>1, <4>2, PlusFacts
      <3> QED
        BY <2>1, <3>2, <3>3 DEF TypeOK, LapsedAreOwned
    <2>3. CASE \E n \in Nodes : Lapse(n) \/ Renew(n)
      <3>1. PICK n \in Nodes : \/ lapsed[n] < pool[n] /\ lapsed' = Plus(lapsed, n, 1)
                               \/ lapsed' = [lapsed EXCEPT ![n] = 0]
        BY <2>3 DEF Lapse, Renew
      <3>2. UNCHANGED <<limit, avail, peers, pool, removing, orphans>>
        BY <2>3 DEF Lapse, Renew
      <3>3. lapsed' \in [Nodes -> Nat] /\ LapsedAreOwned'
        <4>1. \A m \in Nodes : lapsed[m] \in Nat /\ pool[m] \in Nat /\ lapsed[m] <= pool[m]
          BY <2>1 DEF TypeOK, LapsedAreOwned
        <4>2. CASE lapsed[n] < pool[n] /\ lapsed' = Plus(lapsed, n, 1)
          <5>1. lapsed \in [Nodes -> Nat] /\ lapsed[n] + 1 \in Nat
            BY <2>1, <4>1 DEF TypeOK
          <5>2. /\ lapsed' \in [Nodes -> Nat]
                /\ \A m \in Nodes : lapsed'[m] = IF m = n THEN lapsed[n] + 1 ELSE lapsed[m]
            BY <4>2, <5>1, PlusFacts
          <5>3. \A m \in Nodes : lapsed'[m] <= pool'[m]
            BY <3>2, <4>1, <4>2, <5>2
          <5> QED
            BY <5>2, <5>3 DEF LapsedAreOwned
        <4>3. CASE lapsed' = [lapsed EXCEPT ![n] = 0]
          BY <2>1, <3>2, <4>1, <4>3 DEF TypeOK, LapsedAreOwned
        <4> QED
          BY <3>1, <4>2, <4>3
      <3> QED
        BY <2>1, <3>2, <3>3 DEF TypeOK
    <2>4. CASE \E n \in Nodes : Probe(n) \/ SeePeers(n)
      <3>1. PICK n \in Nodes : Probe(n) \/ SeePeers(n)
        BY <2>4
      <3>2. avail' \in [Nodes -> BOOLEAN] /\ peers' \in [Nodes -> Views]
        BY <2>1, <3>1 DEF TypeOK, Probe, SeePeers
      <3>3. UNCHANGED <<limit, pool, lapsed, removing, orphans>>
        BY <3>1 DEF Probe, SeePeers
      <3> QED
        BY <2>1, <3>2, <3>3 DEF TypeOK, LapsedAreOwned
    <2>5. CASE Expire \/ SetLimit \/ UNCHANGED vars
      BY <2>1, <2>5, MaxOrphansAssumption DEF TypeOK, LapsedAreOwned, Expire, SetLimit, vars
    <2> QED
      BY <2>2, <2>3, <2>4, <2>5
  <1>5. TypeOK'
    BY <1>1, <1>4 DEF IInv, TypeOK
  <1> QED
    BY <1>2, <1>3, <1>4, <1>5 DEF IInv

(* A crash empties the process's books and touches no other's.             *)
LEMMA CrashShift ==
    ASSUME TypeOK, NEW n \in Nodes, Crash(n), NEW m \in Nodes
    PROVE  /\ Slots(m)' = IF m = n THEN 0 ELSE Slots(m)
           /\ Reserved(m)' = IF m = n THEN 0 ELSE Reserved(m)
           /\ Claimed(m)' = IF m = n THEN 0 ELSE Claimed(m)
  <1>0. /\ \A r \in Requests : pc'[r] = IF Home[r] = n THEN "idle" ELSE pc[r]
        /\ \A r \in Requests : claim'[r] = IF Home[r] = n THEN "none" ELSE claim[r]
    BY DEF Crash
  <1>1. ASSUME NEW S, "idle" \notin S
        PROVE  Cardinality(At(m, S)') = IF m = n THEN 0 ELSE Cardinality(At(m, S))
    <2>1. CASE m = n
      <3>1. At(m, S)' = {}
        BY <1>0, <1>1, <2>1 DEF At
      <3> QED
        BY <2>1, <3>1, FS_EmptySet
    <2>2. CASE m # n
      <3>1. At(m, S)' = At(m, S)
        BY <1>0, <2>2 DEF At
      <3> QED
        BY <2>2, <3>1
    <2> QED
      BY <2>1, <2>2
  <1>2. Cardinality(Granted(m)') = IF m = n THEN 0 ELSE Cardinality(Granted(m))
    <2>1. CASE m = n
      <3>1. Granted(m)' = {}
        BY <1>0, <2>1 DEF Granted
      <3> QED
        BY <2>1, <3>1, FS_EmptySet
    <2>2. CASE m # n
      <3>1. Granted(m)' = Granted(m)
        BY <1>0, <2>2 DEF Granted
      <3> QED
        BY <2>2, <3>1
    <2> QED
      BY <2>1, <2>2
  <1> DEFINE Emptied(S) == Cardinality(At(m, S)') = IF m = n THEN 0 ELSE Cardinality(At(m, S))
  <1>3. /\ Emptied({"running", "polled", "surplus"})
        /\ Emptied({"surplus"})
        /\ Emptied({"reserved", "claimed", "refused", "fallback"})
        /\ Emptied({"claimed"})
    BY <1>1
  <1> QED
    BY <1>2, <1>3 DEF Slots, Reserved, Claimed, Granted

LEMMA CrashIInv ==
    ASSUME IInv, NEW n \in Nodes, Crash(n)
    PROVE  IInv'
  <1>0. TypeOK /\ QueuedAtHome /\ LeavingAbandoned /\ LapsedAreOwned /\ Books
    BY DEF IInv
  <1>1. ASSUME NEW m \in Nodes
        PROVE  active'[m] = Slots(m)' + Reserved(m)' /\ pool'[m] = clustered'[m] + Claimed(m)'
    <2>1. /\ active[m] = Slots(m) + Reserved(m)
          /\ pool[m] = clustered[m] + Claimed(m)
      BY <1>0 DEF Books, LocalAccounting, LeaseAccounting, Claimed
    <2>2. /\ active'[m] = IF m = n THEN 0 ELSE active[m]
          /\ clustered'[m] = IF m = n THEN 0 ELSE clustered[m]
          /\ pool'[m] = IF m = n THEN 0 ELSE pool[m]
      BY <1>0 DEF Crash, TypeOK
    <2>3. /\ Slots(m)' = IF m = n THEN 0 ELSE Slots(m)
          /\ Reserved(m)' = IF m = n THEN 0 ELSE Reserved(m)
          /\ Claimed(m)' = IF m = n THEN 0 ELSE Claimed(m)
      BY <1>0, CrashShift
    <2> QED
      BY <2>1, <2>2, <2>3
  <1>2. Books'
    BY <1>1 DEF Books, LocalAccounting, LeaseAccounting, Claimed
  <1>3. /\ waiters' \in [Nodes -> Seq(Requests)] /\ QueuedAtHome'
        /\ \A m \in Nodes : waiters'[m] = IF m = n THEN <<>> ELSE waiters[m]
    <2>1. <<>> \in Seq(Requests) /\ Len(<<>>) = 0
      OBVIOUS
    <2>2. waiters' = [waiters EXCEPT ![n] = <<>>] /\ waiters \in [Nodes -> Seq(Requests)]
      BY <1>0 DEF Crash, TypeOK
    <2>3. waiters' \in [Nodes -> Seq(Requests)]
      BY <2>1, <2>2
    <2>4. \A m \in Nodes : waiters'[m] = IF m = n THEN <<>> ELSE waiters[m]
      BY <2>2
    <2>5. ASSUME NEW m \in Nodes, NEW i \in 1..Len(waiters'[m])
          PROVE  Home[waiters'[m][i]] = m
      <3>1. m # n
        BY <2>1, <2>4
      <3> QED
        BY <1>0, <2>4, <3>1 DEF QueuedAtHome
    <2> QED
      BY <2>3, <2>4, <2>5 DEF QueuedAtHome
  <1>4. LeavingAbandoned' /\ LapsedAreOwned'
    BY <1>0 DEF Crash, TypeOK, LeavingAbandoned, LapsedAreOwned
  <1>5. orphans' \in 0..MaxOrphans
    <2>1. /\ orphans' = orphans + pool[n] - lapsed[n] + removing[n]
          /\ orphans' <= MaxOrphans
      BY DEF Crash
    <2>2. /\ orphans \in Nat /\ pool[n] \in Nat /\ lapsed[n] \in Nat /\ removing[n] \in Nat
          /\ lapsed[n] <= pool[n]
      BY <1>0, MaxOrphansAssumption DEF TypeOK, LapsedAreOwned
    <2> QED
      BY <2>1, <2>2, MaxOrphansAssumption
  <1>6. TypeOK'
    <2>1. /\ active' \in [Nodes -> Nat] /\ clustered' \in [Nodes -> Nat]
          /\ unshared' \in [Nodes -> Nat] /\ pool' \in [Nodes -> Nat]
          /\ lapsed' \in [Nodes -> Nat] /\ removing' \in [Nodes -> Nat]
      BY <1>0 DEF Crash, TypeOK
    <2>2. /\ pc' \in [Requests -> States]
          /\ lim' \in [Requests -> Limits \cup {0}]
          /\ claim' \in [Requests -> {"none", "granted", "abandoned"}]
          /\ queued' \in [Requests -> BOOLEAN]
      BY <1>0 DEF Crash, TypeOK, States
    <2>3. UNCHANGED <<limit, avail, peers>>
      BY DEF Crash, view
    <2> QED
      BY <1>0, <1>3, <1>5, <2>1, <2>2, <2>3 DEF TypeOK
  <1> QED
    BY <1>2, <1>3, <1>4, <1>6 DEF IInv

LEMMA NextIInv ==
    IInv /\ [Next]_vars => IInv'
  BY RequestIInv, OutsideIInv, CrashIInv DEF Next, ProcessStep

LEMMA Invariance ==
    Spec => []IInv
  BY InitIInv, NextIInv, PTL DEF Spec

(* The limiter's maps, the queues, the pool and the Redis set keep their   *)
(* types: whatever races, no counter goes below zero.                      *)
THEOREM TypeCorrect ==
    Spec => []TypeOK
  <1>1. IInv => TypeOK
    BY DEF IInv
  <1> QED
    BY <1>1, Invariance, PTL

(* No race between polls, grants, give-ups and failed claims leaks a slot  *)
(* of the limiter or counts one twice, for any number of requests.         *)
THEOREM SlotsAreAccounted ==
    Spec => []LocalAccounting
  <1>1. IInv => LocalAccounting
    BY DEF IInv, Books
  <1> QED
    BY <1>1, Invariance, PTL

(* A process owns one lease for every clustered slot and for every claim   *)
(* about to be committed, through outages, lapses and crashes.             *)
THEOREM LeasesAreAccounted ==
    Spec => []LeaseAccounting
  <1>1. IInv => LeaseAccounting
    BY DEF IInv, Books
  <1> QED
    BY <1>1, Invariance, PTL

-----------------------------------------------------------------------------
(* The kinds of slots, and what an outage costs.                           *)

(* A request that is anywhere in an attempt, or runs, has its clone of the *)
(* credential, and the clone a limit if every configured limit is one.     *)
LimitKnown ==
    0 \notin Limits => \A r \in Requests : pc[r] # "idle" => lim[r] # 0

LEMMA RequestLimitKnown ==
    ASSUME IInv, LimitKnown, NEW r \in Requests, RequestStep(r)
    PROVE  LimitKnown'
  <1> SUFFICES ASSUME 0 \notin Limits, NEW x \in Requests, pc'[x] # "idle"
               PROVE  lim'[x] # 0
    BY DEF LimitKnown
  <1>0. /\ TypeOK /\ limit \in Limits /\ limit # 0
        /\ pc[x] # "idle" => lim[x] # 0
    BY DEF IInv, TypeOK, LimitKnown
  <1> USE DEF Goto
  <1>1. CASE Begin(r)
    BY <1>0, <1>1 DEF Begin, TypeOK
  <1>2. CASE Refuse(r) \/ Leave(r) \/ Finish(r)
    BY <1>0, <1>2 DEF Refuse, Leave, Finish, Done, TypeOK
  <1>3. CASE \/ Reserve(r) \/ ClaimNothing(r) \/ ClaimGranted(r) \/ ClaimRefused(r)
             \/ ClaimFails(r) \/ CommitClaim(r) \/ Unreserve(r) \/ Fallback(r)
             \/ Enqueue(r) \/ TakeGrant(r) \/ Abandon(r) \/ Poll(r) \/ PollWins(r)
             \/ PollLeaves(r) \/ PollLoses(r) \/ ReleaseSurplus(r)
    <2>1. /\ UNCHANGED lim /\ pc[r] # "idle"
          /\ \A y \in Requests \ {r} : pc'[y] = pc[y]
      BY <1>0, <1>3 DEF TypeOK, Reserve, ClaimNothing, ClaimGranted, ClaimRefused, ClaimFails,
             CommitClaim, Unreserve, Fallback, Enqueue, TakeGrant, Abandon, Poll,
             PollWins, PollLeaves, PollLoses, ReleaseSurplus, AttemptFails, AttemptSucceeds
    <2> QED
      BY <1>0, <2>1
  <1> QED
    BY <1>1, <1>2, <1>3 DEF RequestStep

(* A step of a request keeps the kinds: an attempt that succeeds adds a    *)
(* slot of a known kind, a release that frees a slot finds one to free.    *)
LEMMA RequestKinds ==
    ASSUME IInv, LimitKnown, KindAccounting, NEW r \in Requests, RequestStep(r)
    PROVE  KindAccounting'
  <1> DEFINE h == Home[r]
  <1> SUFFICES ASSUME 0 \notin Limits, NEW n \in Nodes
               PROVE  clustered'[n] + unshared'[n] = Slots(n)'
    BY DEF KindAccounting
  <1>0. /\ h \in Nodes
        /\ clustered \in [Nodes -> Nat] /\ unshared \in [Nodes -> Nat]
    BY HomeAssumption DEF IInv, TypeOK
  <1>1. \A m \in Nodes : clustered[m] + unshared[m] = Slots(m) /\ Slots(m) \in Nat
    BY BooksAreNat DEF KindAccounting
  <1>2. CASE Quiet(r)
    <2>1. Shift(h, 0, 0, 0)
      BY <1>2, QuietShift DEF IInv
    <2>2. UNCHANGED <<clustered, unshared>>
      BY <1>2, QuietKeeps
    <2> QED
      BY <1>0, <1>1, <2>1, <2>2 DEF Shift
  <1>3. CASE Reserve(r)
    <2>1. Shift(h, 0, 0, 0) \/ Shift(h, 0, 1, 0)
      BY <1>3, AttemptShift DEF IInv
    <2>2. UNCHANGED <<clustered, unshared>>
      BY <1>3 DEF Reserve
    <2> QED
      BY <1>0, <1>1, <2>1, <2>2 DEF Shift
  <1>4. CASE ClaimNothing(r)
    BY <1>4 DEF ClaimNothing, LimitKnown
  <1>5. CASE ClaimGranted(r)
    <2>1. Shift(h, 0, 0, 1)
      BY <1>5, AttemptShift DEF IInv
    <2>2. UNCHANGED <<clustered, unshared>>
      BY <1>5 DEF ClaimGranted, limiter
    <2> QED
      BY <1>0, <1>1, <2>1, <2>2 DEF Shift
  <1>6. CASE CommitClaim(r)
    <2>1. Shift(h, 1, -1, -1)
      BY <1>6, AttemptShift DEF IInv
    <2>2. clustered' = Plus(clustered, h, 1) /\ UNCHANGED unshared
      BY <1>6 DEF CommitClaim
    <2>3. clustered'[n] = clustered[n] + (IF n = h THEN 1 ELSE 0)
      BY <1>0, <2>2 DEF Plus
    <2> QED
      BY <1>0, <1>1, <2>1, <2>2, <2>3 DEF Shift
  <1>7. CASE Unreserve(r)
    <2>1. Shift(h, 0, -1, 0)
      BY <1>7, AttemptShift DEF IInv
    <2>2. UNCHANGED <<clustered, unshared>>
      BY <1>7 DEF Unreserve
    <2> QED
      BY <1>0, <1>1, <2>1, <2>2 DEF Shift
  <1>8. CASE Fallback(r)
    <2>1. UNCHANGED clustered /\ (unshared' = unshared \/ unshared' = Plus(unshared, h, 1))
      BY <1>8 DEF Fallback
    <2>2. CASE unshared' = unshared
      <3>1. Shift(h, 0, -1, 0)
        BY <1>8, <2>2, AttemptShift DEF IInv
      <3> QED
        BY <1>0, <1>1, <2>1, <2>2, <3>1 DEF Shift
    <2>3. CASE unshared' # unshared
      <3>1. Shift(h, 1, -1, 0)
        BY <1>8, <2>3, AttemptShift DEF IInv
      <3>2. unshared'[n] = unshared[n] + (IF n = h THEN 1 ELSE 0)
        BY <1>0, <2>1, <2>3 DEF Plus
      <3> QED
        BY <1>0, <1>1, <2>1, <3>1, <3>2 DEF Shift
    <2> QED
      BY <2>2, <2>3
  <1>9. CASE Finish(r) \/ ReleaseSurplus(r)
    <2>1. CASE Shift(h, 0, 0, 0) /\ UNCHANGED <<active, clustered, unshared, redis>>
      BY <1>0, <1>1, <2>1 DEF Shift
    <2>2. CASE Shift(h, -1, 0, 0) /\ ReleaseClusterSlot(h)
      <3>1. Slots(h) > 0
        <4>1. pc[r] \in {"running", "surplus"}
          BY <1>9 DEF Finish, ReleaseSurplus
        <4>2. SlotsOf(pc[r]) > 0
          BY <4>1 DEF SlotsOf, Bit
        <4> QED
          BY <4>2, BooksArePositive
      <3>2. unshared[h] > 0 \/ clustered[h] > 0
        BY <1>0, <1>1, <3>1
      <3>3. \/ unshared' = Plus(unshared, h, -1) /\ UNCHANGED clustered
            \/ clustered' = Plus(clustered, h, -1) /\ UNCHANGED unshared
        BY <1>0, <2>2, <3>2 DEF ReleaseClusterSlot
      <3>4. \/ /\ unshared'[n] = unshared[n] + (IF n = h THEN -1 ELSE 0)
               /\ clustered'[n] = clustered[n]
            \/ /\ clustered'[n] = clustered[n] + (IF n = h THEN -1 ELSE 0)
               /\ unshared'[n] = unshared[n]
        BY <1>0, <3>3 DEF Plus
      <3> QED
        BY <1>0, <1>1, <2>2, <3>4 DEF Shift
    <2> QED
      BY <1>9, <2>1, <2>2, ReleaseShift DEF IInv
  <1> QED
    BY <1>2, <1>3, <1>4, <1>5, <1>6, <1>7, <1>8, <1>9 DEF RequestStep, Quiet

KindInv == IInv /\ LimitKnown /\ KindAccounting

LEMMA InitKindInv ==
    Init => KindInv
  <1> SUFFICES ASSUME Init PROVE KindInv
    OBVIOUS
  <1>1. IInv
    BY InitIInv
  <1>2. ASSUME NEW n \in Nodes PROVE clustered[n] + unshared[n] = Slots(n)
    <2>1. active[n] = Slots(n) + Reserved(n) /\ Slots(n) \in Nat /\ Reserved(n) \in Nat
      BY <1>1, BooksAreNat DEF IInv, Books, LocalAccounting
    <2>2. active[n] = 0 /\ clustered[n] = 0 /\ unshared[n] = 0
      BY DEF Init
    <2> QED
      BY <2>1, <2>2
  <1> QED
    BY <1>1, <1>2 DEF Init, KindInv, LimitKnown, KindAccounting

LEMMA NextKindInv ==
    KindInv /\ [Next]_vars => KindInv'
  <1> SUFFICES ASSUME KindInv, [Next]_vars PROVE KindInv'
    OBVIOUS
  <1>0. IInv /\ LimitKnown /\ KindAccounting
    BY DEF KindInv
  <1>1. IInv'
    BY <1>0, NextIInv
  <1>2. CASE \E r \in Requests : RequestStep(r)
    BY <1>0, <1>1, <1>2, RequestLimitKnown, RequestKinds DEF KindInv
  <1>3. CASE \E n \in Nodes : Crash(n)
    <2>1. PICK n \in Nodes : Crash(n)
      BY <1>3
    <2>2. LimitKnown'
      BY <1>0, <2>1 DEF LimitKnown, Crash
    <2>3. ASSUME NEW m \in Nodes, 0 \notin Limits
          PROVE  clustered'[m] + unshared'[m] = Slots(m)'
      <3>1. Slots(m)' = IF m = n THEN 0 ELSE Slots(m)
        BY <1>0, <2>1, CrashShift DEF IInv
      <3>2. /\ clustered'[m] = IF m = n THEN 0 ELSE clustered[m]
            /\ unshared'[m] = IF m = n THEN 0 ELSE unshared[m]
        BY <1>0, <2>1 DEF Crash, IInv, TypeOK
      <3> QED
        BY <1>0, <2>3, <3>1, <3>2 DEF KindAccounting
    <2>4. KindAccounting'
      BY <2>3 DEF KindAccounting
    <2> QED
      BY <1>1, <2>2, <2>4 DEF KindInv
  <1>4. CASE \/ \E n \in Nodes : \/ RemoveLease(n) \/ Lapse(n) \/ Renew(n)
                                 \/ ExpireReleased(n) \/ Probe(n) \/ SeePeers(n)
             \/ Expire \/ SetLimit \/ UNCHANGED vars
    <2>1. UNCHANGED <<clustered, unshared, pc, lim, claim>>
      BY <1>4 DEF RemoveLease, Lapse, Renew, ExpireReleased, Probe, SeePeers, Expire,
                  SetLimit, vars, limiter, request
    <2>2. \A n \in Nodes : Slots(n)' = Slots(n)
      BY <2>1 DEF Slots, At
    <2> QED
      BY <1>0, <1>1, <2>1, <2>2 DEF KindInv, LimitKnown, KindAccounting
  <1> QED
    BY <1>2, <1>3, <1>4 DEF Next, ProcessStep

LEMMA KindInvariance ==
    Spec => []KindInv
  BY InitKindInv, NextKindInv, PTL DEF Spec

(* With a limit configured throughout, every slot is backed by a lease or  *)
(* known to have been taken in an outage, whoever holds it by now.         *)
THEOREM KindsAreAccounted ==
    Spec => []KindAccounting
  <1>1. KindInv => KindAccounting
    BY DEF KindInv
  <1> QED
    BY <1>1, KindInvariance, PTL

(* splitLimit grows with the limit and shrinks with the processes.         *)
LEMMA SplitLimitFacts ==
    ASSUME NEW l \in Nat, NEW k \in Nat \ {0}
    PROVE  SplitLimit(l, k) \in Nat
  BY DEF SplitLimit

LEMMA SplitLimitMonotone ==
    ASSUME NEW l \in Nat, NEW k \in Nat \ {0}, NEW m \in Nat, NEW j \in Nat \ {0},
           l <= m, j <= k
    PROVE  SplitLimit(l, k) <= SplitLimit(m, j)
  <1> DEFINE a == (l + k - 1) \div k
             b == (m + j - 1) \div j
  <1>1. a \in Nat /\ b \in Nat
    OBVIOUS
  <1>2. k * a <= l + k - 1
    OBVIOUS
  <1>3. j * b + j > m + j - 1
    OBVIOUS
  <1> HIDE DEF a, b
  <1>4. a <= b
    <2>1. SUFFICES ASSUME a >= b + 1 PROVE FALSE
      BY <1>1
    <2>2. /\ k * a \in Nat /\ k * b \in Nat /\ j * b \in Nat
          /\ k * (b + 1) = k * b + k
      BY <1>1
    <2>3. k * a >= k * (b + 1)
      BY <1>1, <2>1
    <2>4. k * b >= j * b
      BY <1>1
    <2> QED
      BY <1>2, <1>3, <2>2, <2>3, <2>4
  <1> QED
    BY <1>4 DEF SplitLimit, a, b

(* The largest limit and the smallest view, against which the bounds are   *)
(* stated.                                                                 *)
LEMMA Extremes ==
    /\ Max(Limits) \in Limits /\ Max(Limits) \in Nat
    /\ \A l \in Limits \cup {0} : l \in Nat /\ l <= Max(Limits)
    /\ Min(Views) \in Nat \ {0}
    /\ \A k \in Views : k \in Nat \ {0} /\ Min(Views) <= k
  <1>1. Limits \in SUBSET Nat /\ Limits # {} /\ IsFiniteSet(Limits)
    BY LimitsAssumption
  <1>2. Views \in SUBSET Nat /\ Views # {} /\ Views \subseteq Nat \ {0}
    BY ViewsAssumption
  <1>3. Max(Limits) \in Limits /\ \A y \in Limits : y <= Max(Limits)
    BY <1>1, MaxNat
  <1>4. Min(Views) \in Views /\ \A y \in Views : Min(Views) <= y
    BY <1>2, MinNat
  <1>5. Max(Limits) \in Nat
    BY <1>1, <1>3
  <1>7. ASSUME NEW l \in Limits \cup {0}
        PROVE  l \in Nat /\ l <= Max(Limits)
    <2>1. CASE l \in Limits
      BY <1>1, <1>3, <2>1
    <2>2. CASE l = 0
      BY <1>5, <2>2
    <2> QED
      BY <2>1, <2>2
  <1>6. Min(Views) \in Nat \ {0} /\ \A k \in Views : k \in Nat \ {0}
    BY <1>2, <1>4
  <1> QED
    BY <1>3, <1>4, <1>5, <1>6, <1>7

(* Only a fallback takes a slot on the process's own authority.            *)
LEMMA UnsharedGrows ==
    ASSUME IInv, Next, NEW n \in Nodes, unshared'[n] > unshared[n]
    PROVE  \E r \in Requests :
              /\ Home[r] = n /\ pc[r] = "fallback"
              /\ active[n] <= NodeShare(n, lim[r])
              /\ unshared'[n] = unshared[n] + 1
  <1>0. unshared \in [Nodes -> Nat]
    BY DEF IInv, TypeOK
  <1>1. ASSUME NEW r \in Requests, RequestStep(r)
        PROVE  Fallback(r)
    <2>0. Home[r] \in Nodes
      BY HomeAssumption
    <2>1. CASE Quiet(r)
      BY <1>0, <2>1, QuietKeeps
    <2>2. CASE Reserve(r) \/ ClaimNothing(r) \/ ClaimGranted(r) \/ CommitClaim(r) \/ Unreserve(r)
      BY <1>0, <2>2 DEF Reserve, ClaimNothing, ClaimGranted, CommitClaim, Unreserve, limiter
    <2>3. CASE Finish(r) \/ ReleaseSurplus(r)
      <3>1. unshared' = unshared \/ unshared' = Plus(unshared, Home[r], -1)
        BY <2>3, ReleaseShift DEF IInv, ReleaseClusterSlot
      <3> QED
        BY <1>0, <2>0, <3>1 DEF Plus
    <2> QED
      BY <1>1, <2>1, <2>2, <2>3 DEF RequestStep, Quiet
  <1>2. CASE \E r \in Requests : RequestStep(r)
    <2>1. PICK r \in Requests : Fallback(r)
      BY <1>1, <1>2
    <2>2. Home[r] \in Nodes
      BY HomeAssumption
    <2>3. unshared' = unshared \/ unshared' = Plus(unshared, Home[r], 1)
      BY <2>1 DEF Fallback
    <2>4. /\ unshared' = Plus(unshared, Home[r], 1)
          /\ Home[r] = n /\ unshared'[n] = unshared[n] + 1
      BY <1>0, <2>2, <2>3 DEF Plus
    <2>5. unshared' # unshared
      BY <1>0, <2>4
    <2>6. ~(active[n] > NodeShare(n, lim[r])) /\ pc[r] = "fallback"
      BY <2>1, <2>4, <2>5 DEF Fallback
    <2>7. active[n] \in Nat /\ NodeShare(n, lim[r]) \in Nat
      <3>1. /\ active[n] \in Nat /\ lim[r] \in Limits \cup {0} /\ peers[n] \in Views
        BY DEF IInv, TypeOK
      <3>2. lim[r] \in Nat
        BY <3>1, Extremes
      <3>3. peers[n] \in Nat \ {0}
        BY <3>1, ViewsAssumption
      <3> QED
        BY <3>1, <3>2, <3>3, SplitLimitFacts DEF NodeShare
    <2> QED
      BY <2>4, <2>6, <2>7
  <1>3. CASE \E m \in Nodes : Crash(m)
    <2>1. PICK m \in Nodes : unshared' = [unshared EXCEPT ![m] = 0]
      BY <1>3 DEF Crash
    <2> QED
      BY <1>0, <2>1
  <1>4. CASE \/ \E m \in Nodes : \/ RemoveLease(m) \/ Lapse(m) \/ Renew(m)
                                 \/ ExpireReleased(m) \/ Probe(m) \/ SeePeers(m)
             \/ Expire \/ SetLimit
    <2>1. UNCHANGED unshared
      BY <1>4 DEF RemoveLease, Lapse, Renew, ExpireReleased, Probe, SeePeers, Expire,
                  SetLimit, limiter
    <2> QED
      BY <1>0, <2>1
  <1> QED
    BY <1>2, <1>3, <1>4 DEF Next, ProcessStep

LEMMA NextShareBound ==
    KindInv /\ ShareBound /\ [Next]_vars => ShareBound'
  <1> SUFFICES ASSUME KindInv, ShareBound, [Next]_vars, 0 \notin Limits, NEW n \in Nodes
               PROVE  unshared'[n] <= SplitLimit(Max(Limits), Min(Views))
    BY DEF ShareBound
  <1> DEFINE bound == SplitLimit(Max(Limits), Min(Views))
  <1>0. /\ IInv /\ IInv' /\ unshared[n] \in Nat /\ unshared'[n] \in Nat
        /\ unshared[n] <= bound
    BY NextIInv DEF KindInv, ShareBound, IInv, TypeOK
  <1>1. bound \in Nat
    BY Extremes, SplitLimitFacts
  <1>2. CASE unshared'[n] > unshared[n]
    <2>1. Next
      BY <1>0, <1>2 DEF vars, limiter
    <2>2. PICK r \in Requests :
              /\ Home[r] = n /\ pc[r] = "fallback"
              /\ active[n] <= NodeShare(n, lim[r])
              /\ unshared'[n] = unshared[n] + 1
      BY <1>0, <1>2, <2>1, UnsharedGrows
    <2>3. Reserved(n) > 0
      <3>1. ReservedOf(pc[r]) > 0
        BY <2>2 DEF ReservedOf, Bit
      <3> QED
        BY <2>2, <3>1, BooksArePositive
    <2>4. /\ active[n] = Slots(n) + Reserved(n)
          /\ clustered[n] + unshared[n] = Slots(n)
          /\ Slots(n) \in Nat /\ Reserved(n) \in Nat /\ clustered[n] \in Nat
      BY BooksAreNat DEF KindInv, KindAccounting, IInv, TypeOK, Books, LocalAccounting
    <2>5. NodeShare(n, lim[r]) <= bound /\ NodeShare(n, lim[r]) \in Nat
      <3>1. lim[r] \in Limits \cup {0} /\ peers[n] \in Views
        BY <1>0 DEF IInv, TypeOK
      <3>2. /\ lim[r] \in Nat /\ lim[r] <= Max(Limits) /\ Max(Limits) \in Nat
            /\ peers[n] \in Nat \ {0} /\ Min(Views) \in Nat \ {0} /\ Min(Views) <= peers[n]
        BY <3>1, Extremes
      <3> QED
        BY <3>2, SplitLimitMonotone, SplitLimitFacts DEF NodeShare
    <2> HIDE DEF bound
    <2>6. unshared'[n] <= bound
      BY <1>0, <1>1, <2>2, <2>3, <2>4, <2>5
    <2> QED
      BY <2>6 DEF bound
  <1>3. CASE ~(unshared'[n] > unshared[n])
    <2> HIDE DEF bound
    <2>1. unshared'[n] <= bound
      BY <1>0, <1>1, <1>3
    <2> QED
      BY <2>1 DEF bound
  <1> QED
    BY <1>2, <1>3

(* What an outage costs at most: a process's slots without a lease stay    *)
(* within its share of the largest limit, as the smallest view splits it,  *)
(* although they were reserved against the full limit and change hands.    *)
THEOREM OutageCostsAShare ==
    Spec => []ShareBound
  <1>1. Init => ShareBound
    <2> SUFFICES ASSUME Init, NEW n \in Nodes
                 PROVE  unshared[n] <= SplitLimit(Max(Limits), Min(Views))
      BY DEF ShareBound
    <2>1. SplitLimit(Max(Limits), Min(Views)) \in Nat
      BY Extremes, SplitLimitFacts
    <2>2. unshared[n] = 0
      BY DEF Init
    <2> QED
      BY <2>1, <2>2
  <1> QED
    BY <1>1, NextShareBound, KindInvariance, PTL DEF Spec

-----------------------------------------------------------------------------
(* Totals over the processes, as sizes of sets of members.                 *)

LEMMA MembersAre ==
    ASSUME NEW f \in [Nodes -> Nat]
    PROVE  /\ \A n \in Nodes, i \in Nat :
                 <<n, i>> \in Members(f) <=> (1 <= i /\ i <= f[n])
           /\ \A p \in Members(f) :
                 \E n \in Nodes, i \in Nat : p = <<n, i>> /\ 1 <= i /\ i <= f[n]
  <1>1. ASSUME NEW p
        PROVE  p \in Members(f) <=> \E n \in Nodes : \E i \in 1..f[n] : p = <<n, i>>
    BY DEF Members
  <1>2. ASSUME NEW n \in Nodes, NEW i \in Nat
        PROVE  <<n, i>> \in Members(f) <=> (1 <= i /\ i <= f[n])
    <2>1. <<n, i>> \in Members(f) <=> \E m \in Nodes : \E j \in 1..f[m] : <<n, i>> = <<m, j>>
      BY <1>1
    <2>2. <<n, i>> \in Members(f) <=> i \in 1..f[n]
      BY <2>1
    <2> QED
      BY <2>2
  <1>3. ASSUME NEW p \in Members(f)
        PROVE  \E n \in Nodes, i \in Nat : p = <<n, i>> /\ 1 <= i /\ i <= f[n]
    <2>1. PICK n \in Nodes : \E i \in 1..f[n] : p = <<n, i>>
      BY <1>1
    <2>2. PICK i \in 1..f[n] : p = <<n, i>>
      BY <2>1
    <2>3. i \in Nat /\ 1 <= i /\ i <= f[n]
      OBVIOUS
    <2> QED
      BY <2>2, <2>3
  <1> QED
    BY <1>2, <1>3

LEMMA MembersFinite ==
    ASSUME NEW f \in [Nodes -> Nat]
    PROVE  IsFiniteSet(Members(f)) /\ Total(f) \in Nat
  <1> DEFINE T == {{n} \X (1..f[n]) : n \in Nodes}
             g == [n \in Nodes |-> {n} \X (1..f[n])]
  <1>1. g \in Surjection(Nodes, T)
    BY DEF Surjection
  <1>2. IsFiniteSet(T)
    <2> HIDE DEF T, g
    <2> QED
      BY <1>1, NodesAssumption, FS_Surjection
  <1>3. ASSUME NEW n \in Nodes PROVE IsFiniteSet({n} \X (1..f[n]))
    <2>1. 1 \in Int /\ f[n] \in Int
      OBVIOUS
    <2>2. IsFiniteSet({n})
      BY FS_Singleton
    <2>3. IsFiniteSet(1..f[n])
      BY <2>1, FS_Interval
    <2> QED
      BY <2>2, <2>3, FS_Product
  <1>4. \A t \in T : IsFiniteSet(t)
    BY <1>3
  <1>5. Members(f) = UNION T
    BY DEF Members
  <1> HIDE DEF T
  <1>6. IsFiniteSet(UNION T)
    BY <1>2, <1>4, FS_UNION
  <1> QED
    BY <1>5, <1>6, FS_CardinalityType DEF Total

(* A total grows with its terms.                                           *)
LEMMA TotalMonotone ==
    ASSUME NEW f \in [Nodes -> Nat], NEW g \in [Nodes -> Nat],
           \A n \in Nodes : f[n] <= g[n]
    PROVE  Total(f) <= Total(g)
  <1>1. ASSUME NEW p \in Members(f) PROVE p \in Members(g)
    <2>1. PICK n \in Nodes, i \in Nat : p = <<n, i>> /\ 1 <= i /\ i <= f[n]
      BY MembersAre
    <2>2. i <= g[n]
      BY <2>1
    <2> QED
      BY <2>1, <2>2, MembersAre
  <1>2. Members(f) \in SUBSET Members(g)
    BY <1>1
  <1> QED
    BY <1>2, MembersFinite, FS_Subset DEF Total

(* One more in one process is one more in total.                           *)
LEMMA TotalPlusOne ==
    ASSUME NEW f \in [Nodes -> Nat], NEW n \in Nodes, NEW g \in [Nodes -> Nat],
           g[n] = f[n] + 1, \A m \in Nodes \ {n} : g[m] = f[m]
    PROVE  Total(g) = Total(f) + 1
  <1> DEFINE e == <<n, f[n] + 1>>
  <1>1. e \notin Members(f)
    BY MembersAre
  <1>2. ASSUME NEW p \in Members(g) PROVE p \in Members(f) \cup {e}
    <2>1. PICK m \in Nodes, i \in Nat : p = <<m, i>> /\ 1 <= i /\ i <= g[m]
      BY MembersAre
    <2>2. CASE m = n /\ i = f[n] + 1
      BY <2>1, <2>2
    <2>3. CASE ~(m = n /\ i = f[n] + 1)
      <3>1. i <= f[m]
        BY <2>1, <2>3
      <3> QED
        BY <2>1, <3>1, MembersAre
    <2> QED
      BY <2>2, <2>3
  <1>3. ASSUME NEW p \in Members(f) PROVE p \in Members(g)
    <2>1. PICK m \in Nodes, i \in Nat : p = <<m, i>> /\ 1 <= i /\ i <= f[m]
      BY MembersAre
    <2>2. i <= g[m]
      BY <2>1
    <2> QED
      BY <2>1, <2>2, MembersAre
  <1>4. e \in Members(g)
    <2>1. f[n] + 1 \in Nat /\ 1 <= f[n] + 1 /\ f[n] + 1 <= g[n]
      OBVIOUS
    <2> QED
      BY <2>1, MembersAre
  <1>5. Members(g) = Members(f) \cup {e}
    BY <1>2, <1>3, <1>4
  <1> HIDE DEF e
  <1>6. Cardinality(Members(f) \cup {e}) = Cardinality(Members(f)) + 1
    BY <1>1, MembersFinite, FS_AddElement
  <1> QED
    BY <1>5, <1>6 DEF Total

(* Emptying a process takes what it had from the total.                    *)
LEMMA TotalDrop ==
    ASSUME NEW f \in [Nodes -> Nat], NEW n \in Nodes, NEW g \in [Nodes -> Nat],
           g[n] = 0, \A m \in Nodes \ {n} : g[m] = f[m]
    PROVE  Total(f) = Total(g) + f[n]
  <1> DEFINE D == {n} \X (1..f[n])
  <1>1. IsFiniteSet(D) /\ Cardinality(D) = f[n]
    <2>1. /\ IsFiniteSet({n}) /\ Cardinality({n}) = 1
      BY FS_Singleton
    <2>2. IsFiniteSet(1..f[n]) /\ Cardinality(1..f[n]) = f[n]
      <3>1. 1 \in Int /\ f[n] \in Int /\ f[n] \in Nat
        OBVIOUS
      <3>2. /\ IsFiniteSet(1..f[n])
            /\ Cardinality(1..f[n]) = IF 1 > f[n] THEN 0 ELSE f[n] - 1 + 1
        BY <3>1, FS_Interval
      <3> QED
        BY <3>1, <3>2
    <2>3. IsFiniteSet(D) /\ Cardinality(D) = Cardinality({n}) * Cardinality(1..f[n])
      BY <2>1, <2>2, FS_Product
    <2> HIDE DEF D
    <2> QED
      BY <2>1, <2>2, <2>3
  <1>2. ASSUME NEW p
        PROVE  p \in D <=> \E i \in Nat : p = <<n, i>> /\ 1 <= i /\ i <= f[n]
    <2>1. p \in D <=> \E i \in 1..f[n] : p = <<n, i>>
      OBVIOUS
    <2>2. \A i : i \in 1..f[n] <=> i \in Nat /\ 1 <= i /\ i <= f[n]
      OBVIOUS
    <2> QED
      BY <2>1, <2>2
  <1> HIDE DEF D
  <1>3. Members(f) = Members(g) \cup D
    <2>1. ASSUME NEW p \in Members(f) PROVE p \in Members(g) \cup D
      <3>1. PICK m \in Nodes, i \in Nat : p = <<m, i>> /\ 1 <= i /\ i <= f[m]
        BY MembersAre
      <3>2. CASE m = n
        BY <1>2, <3>1, <3>2
      <3>3. CASE m # n
        BY <3>1, <3>3, MembersAre
      <3> QED
        BY <3>2, <3>3
    <2>2. ASSUME NEW p \in Members(g) PROVE p \in Members(f)
      <3>1. PICK m \in Nodes, i \in Nat : p = <<m, i>> /\ 1 <= i /\ i <= g[m]
        BY MembersAre
      <3>2. m # n
        BY <3>1
      <3> QED
        BY <3>1, <3>2, MembersAre
    <2>3. ASSUME NEW p \in D PROVE p \in Members(f)
      BY <1>2, <2>3, MembersAre
    <2> QED
      BY <2>1, <2>2, <2>3
  <1>4. Members(g) \cap D = {}
    <2> SUFFICES ASSUME NEW p \in Members(g), p \in D PROVE FALSE
      OBVIOUS
    <2>1. PICK i \in Nat : p = <<n, i>> /\ 1 <= i
      BY <1>2
    <2>2. i <= g[n]
      BY <2>1, MembersAre
    <2> QED
      BY <2>1, <2>2
  <1>5. Cardinality(Members(g) \cup D) =
            Cardinality(Members(g)) + Cardinality(D) - Cardinality(Members(g) \cap D)
    BY <1>1, MembersFinite, FS_Union
  <1>6. Cardinality(Members(g) \cap D) = 0
    BY <1>4, FS_EmptySet
  <1>7. Cardinality(Members(g)) \in Nat
    BY MembersFinite DEF Total
  <1> QED
    BY <1>1, <1>3, <1>5, <1>6, <1>7 DEF Total

(* The total of two terms is at most the sum of the totals.                *)
LEMMA TotalOfSum ==
    ASSUME NEW f \in [Nodes -> Nat], NEW g \in [Nodes -> Nat]
    PROVE  Total([n \in Nodes |-> f[n] + g[n]]) <= Total(f) + Total(g)
  <1> DEFINE s == [n \in Nodes |-> f[n] + g[n]]
             B == Members(s) \ Members(f)
             shift == [p \in B |-> <<p[1], p[2] - f[p[1]]>>]
  <1>0. s \in [Nodes -> Nat] /\ \A n \in Nodes : s[n] = f[n] + g[n]
    OBVIOUS
  <1> HIDE DEF s
  <1>1. ASSUME NEW p \in B
        PROVE  /\ p[1] \in Nodes /\ p[2] \in Nat /\ p = <<p[1], p[2]>>
               /\ p[2] > f[p[1]] /\ p[2] <= f[p[1]] + g[p[1]]
    <2>1. PICK n \in Nodes, i \in Nat : p = <<n, i>> /\ 1 <= i /\ i <= s[n]
      BY <1>0, MembersAre
    <2>2. ~(i <= f[n])
      BY <2>1, MembersAre
    <2> QED
      BY <1>0, <2>1, <2>2
  <1>2. shift \in [B -> Members(g)]
    <2>1. ASSUME NEW p \in B PROVE <<p[1], p[2] - f[p[1]]>> \in Members(g)
      <3>1. /\ p[1] \in Nodes
            /\ p[2] - f[p[1]] \in Nat /\ 1 <= p[2] - f[p[1]] /\ p[2] - f[p[1]] <= g[p[1]]
        BY <1>1
      <3> QED
        BY <3>1, MembersAre
    <2> QED
      BY <2>1
  <1>3. ASSUME NEW p \in B, NEW q \in B, shift[p] = shift[q] PROVE p = q
    <2>1. p[1] = q[1] /\ p[2] - f[p[1]] = q[2] - f[q[1]]
      BY <1>3
    <2>2. p[2] = q[2]
      BY <1>1, <2>1
    <2> QED
      BY <1>1, <2>1, <2>2
  <1>4. shift \in Injection(B, Members(g))
    <2> HIDE DEF shift, B
    <2> QED
      BY <1>2, <1>3 DEF Injection, IsInjective
  <1>5. IsFiniteSet(B) /\ Cardinality(B) <= Cardinality(Members(g))
    <2> HIDE DEF shift, B
    <2> QED
      BY <1>4, MembersFinite, FS_Injection
  <1>6. Members(s) \subseteq Members(f) \cup B
    OBVIOUS
  <1> HIDE DEF B
  <1>7. /\ IsFiniteSet(Members(f) \cup B)
        /\ Cardinality(Members(f) \cup B) =
              Cardinality(Members(f)) + Cardinality(B) - Cardinality(Members(f) \cap B)
        /\ Cardinality(Members(f) \cap B) \in Nat
    BY <1>5, MembersFinite, FS_Union, FS_Intersection, FS_CardinalityType
  <1>8. Cardinality(Members(s)) <= Cardinality(Members(f) \cup B)
    BY <1>6, <1>7, FS_Subset
  <1>9. /\ Cardinality(Members(f)) \in Nat /\ Cardinality(Members(g)) \in Nat
        /\ Cardinality(Members(s)) \in Nat /\ Cardinality(B) \in Nat
    BY <1>0, <1>5, MembersFinite, FS_CardinalityType DEF Total
  <1>10. Total(s) <= Total(f) + Total(g)
    BY <1>5, <1>7, <1>8, <1>9 DEF Total
  <1> QED
    BY <1>10 DEF s

(* Requests counted process by process.                                    *)
LEMMA TotalOfHomes ==
    ASSUME NEW R \in SUBSET Requests, NEW f \in [Nodes -> Nat],
           \A n \in Nodes : Cardinality({r \in R : Home[r] = n}) <= f[n]
    PROVE  Cardinality(R) <= Total(f)
  <1> DEFINE At_(n) == {r \in R : Home[r] = n}
  <1>1. ASSUME NEW n \in Nodes
        PROVE  \E j : j \in Injection(At_(n), 1..f[n])
    <2>1. At_(n) \in SUBSET Requests
      OBVIOUS
    <2>2. IsFiniteSet(At_(n))
      BY <2>1, RequestsAssumption, FS_Subset
    <2> DEFINE k == Cardinality(At_(n))
    <2>3. k \in Nat /\ ExistsBijection(1..k, At_(n))
      BY <2>2, FS_CardinalityType
    <2>4. k <= f[n] /\ f[n] \in Nat
      OBVIOUS
    <2> HIDE DEF k, At_
    <2>5. ExistsBijection(At_(n), 1..k)
      BY <2>3, Fun_ExistsBijSymmetric
    <2>6. PICK b : b \in Bijection(At_(n), 1..k)
      BY <2>5 DEF ExistsBijection
    <2>7. /\ b \in [At_(n) -> 1..k]
          /\ \A x, y \in At_(n) : b[x] = b[y] => x = y
      BY <2>6 DEF Bijection, Injection, IsInjective
    <2>8. b \in [At_(n) -> 1..f[n]]
      BY <2>3, <2>4, <2>7
    <2>9. b \in Injection(At_(n), 1..f[n])
      BY <2>7, <2>8 DEF Injection, IsInjective
    <2> QED
      BY <2>9
  <1> DEFINE inj == [n \in Nodes |-> CHOOSE j : j \in Injection(At_(n), 1..f[n])]
  <1>2. \A n \in Nodes : inj[n] \in Injection(At_(n), 1..f[n])
    BY <1>1
  <1> HIDE DEF inj
  <1> DEFINE g == [r \in R |-> <<Home[r], inj[Home[r]][r]>>]
  <1>3. ASSUME NEW r \in R
        PROVE  /\ Home[r] \in Nodes /\ r \in At_(Home[r])
               /\ inj[Home[r]][r] \in 1..f[Home[r]]
    <2>1. Home[r] \in Nodes /\ r \in At_(Home[r])
      BY HomeAssumption
    <2>2. inj[Home[r]] \in [At_(Home[r]) -> 1..f[Home[r]]]
      BY <1>2, <2>1 DEF Injection
    <2> QED
      BY <2>1, <2>2
  <1>4. g \in [R -> Members(f)]
    <2>1. ASSUME NEW r \in R PROVE <<Home[r], inj[Home[r]][r]>> \in Members(f)
      <3>1. /\ Home[r] \in Nodes /\ inj[Home[r]][r] \in Nat
            /\ 1 <= inj[Home[r]][r] /\ inj[Home[r]][r] <= f[Home[r]]
        BY <1>3
      <3> QED
        BY <3>1, MembersAre
    <2> QED
      BY <2>1
  <1>5. ASSUME NEW x \in R, NEW y \in R, g[x] = g[y] PROVE x = y
    <2>1. Home[x] = Home[y] /\ inj[Home[x]][x] = inj[Home[x]][y]
      BY <1>5
    <2>2. x \in At_(Home[x]) /\ y \in At_(Home[x]) /\ Home[x] \in Nodes
      BY <1>3, <2>1
    <2>3. \A a, b \in At_(Home[x]) : inj[Home[x]][a] = inj[Home[x]][b] => a = b
      BY <1>2, <2>2 DEF Injection, IsInjective
    <2> QED
      BY <2>1, <2>2, <2>3
  <1> HIDE DEF g
  <1>6. g \in Injection(R, Members(f))
    BY <1>4, <1>5 DEF Injection, IsInjective
  <1> QED
    BY <1>6, MembersFinite, FS_Injection DEF Total

-----------------------------------------------------------------------------
(* The cluster-wide limit.                                                 *)

(* While no outage outlasts a lease, every lease a process owns is in      *)
(* Redis, and the script never lets them exceed the largest limit.         *)
LeasesWithinLimit ==
    ~Lapses =>
        /\ \A n \in Nodes : lapsed[n] = 0
        /\ LeasesHeld <= Max(Limits)

CountedNat ==
    /\ Counted \in [Nodes -> Nat] /\ Total(Counted) \in Nat
    /\ LeasesHeld \in Nat /\ orphans \in Nat

LEMMA CountedType ==
    IInv => CountedNat
  <1> SUFFICES ASSUME TypeOK, LapsedAreOwned PROVE CountedNat
    BY DEF IInv
  <1>1. \A n \in Nodes : /\ pool[n] \in Nat /\ lapsed[n] \in Nat /\ removing[n] \in Nat
                         /\ lapsed[n] <= pool[n]
    BY DEF TypeOK, LapsedAreOwned
  <1>2. \A n \in Nodes : pool[n] - lapsed[n] + removing[n] \in Nat
    BY <1>1
  <1>3. Counted \in [Nodes -> Nat]
    BY <1>2 DEF Counted
  <1>4. Total(Counted) \in Nat
    BY <1>3, MembersFinite
  <1>5. orphans \in Nat
    BY MaxOrphansAssumption DEF TypeOK
  <1> QED
    BY <1>3, <1>4, <1>5 DEF LeasesHeld, CountedNat

LEMMA PlusAt ==
    ASSUME NEW f \in [Nodes -> Nat], NEW n \in Nodes, NEW k \in Int, NEW m \in Nodes
    PROVE  Plus(f, n, k)[m] = f[m] + (IF m = n THEN k ELSE 0)
  BY DEF Plus

(* A step takes a lease only below the limit of the request's clone.       *)
LEMMA LeasesGrow ==
    ASSUME IInv, IInv', Next, ~Lapses, \A n \in Nodes : lapsed[n] = 0
    PROVE  /\ \A n \in Nodes : lapsed'[n] = 0
           /\ \/ LeasesHeld' <= LeasesHeld
              \/ \E r \in Requests : LeasesHeld < lim[r] /\ LeasesHeld' = LeasesHeld + 1
  <1>0. /\ TypeOK /\ LapsedAreOwned
        /\ Counted \in [Nodes -> Nat] /\ Total(Counted) \in Nat
        /\ LeasesHeld \in Nat /\ orphans \in Nat
    BY CountedType DEF IInv, CountedNat
  <1>1. /\ Counted' \in [Nodes -> Nat] /\ LeasesHeld' \in Nat /\ orphans' \in Nat
    <2>1. CountedNat'
      BY CountedType, PTL
    <2> QED
      BY <2>1 DEF CountedNat
  <1>2. \A n \in Nodes : /\ Counted[n] = pool[n] - lapsed[n] + removing[n]
                         /\ Counted'[n] = pool'[n] - lapsed'[n] + removing'[n]
                         /\ pool[n] \in Nat /\ lapsed[n] \in Nat /\ removing[n] \in Nat
    BY <1>0 DEF Counted, TypeOK
  <1>3. /\ LeasesHeld = Total(Counted) + orphans
        /\ LeasesHeld' = Total(Counted') + orphans'
    BY DEF LeasesHeld, Total, Members
  <1>4. ASSUME UNCHANGED <<pool, lapsed, removing, orphans>>
        PROVE  (\A n \in Nodes : lapsed'[n] = 0) /\ LeasesHeld' <= LeasesHeld
    <2>1. Counted' = Counted
      BY <1>4 DEF Counted
    <2> QED
      BY <1>0, <1>3, <1>4, <2>1
  <1>5. CASE \E r \in Requests : ClaimGranted(r)
    <2>1. PICK r \in Requests : ClaimGranted(r)
      BY <1>5
    <2>2. /\ Home[r] \in Nodes
          /\ LeasesHeld < lim[r] /\ pool' = Plus(pool, Home[r], 1)
          /\ UNCHANGED <<lapsed, removing, orphans>>
      BY <2>1, HomeAssumption DEF ClaimGranted
    <2>3. /\ Counted'[Home[r]] = Counted[Home[r]] + 1
          /\ \A m \in Nodes \ {Home[r]} : Counted'[m] = Counted[m]
      <3>1. /\ pool'[Home[r]] = pool[Home[r]] + 1
            /\ \A m \in Nodes \ {Home[r]} : pool'[m] = pool[m]
        BY <1>0, <2>2 DEF Plus, TypeOK
      <3> QED
        BY <1>2, <2>2, <3>1
    <2>4. Total(Counted') = Total(Counted) + 1
      BY <1>0, <1>1, <2>2, <2>3, TotalPlusOne
    <2>5. LeasesHeld' = LeasesHeld + 1
      BY <1>0, <1>3, <2>2, <2>4
    <2> QED
      BY <2>2, <2>5
  <1>6. CASE \E r \in Requests : ClaimFails(r)
    <2>1. PICK r \in Requests : ClaimFails(r)
      BY <1>6
    <2>2. /\ UNCHANGED <<pool, lapsed, removing>>
          /\ \/ UNCHANGED orphans
             \/ LeasesHeld < lim[r] /\ orphans' = orphans + 1
      BY <2>1 DEF ClaimFails
    <2>3. CASE UNCHANGED orphans
      BY <1>4, <2>2, <2>3
    <2>4. CASE LeasesHeld < lim[r] /\ orphans' = orphans + 1
      <3>1. Counted' = Counted
        BY <2>2 DEF Counted
      <3>2. LeasesHeld' = LeasesHeld + 1
        BY <1>0, <1>3, <2>4, <3>1
      <3> QED
        BY <2>2, <2>4, <3>2
    <2> QED
      BY <2>2, <2>3, <2>4
  <1>7. CASE \E r \in Requests : Finish(r) \/ ReleaseSurplus(r)
    <2>1. PICK r \in Requests : Finish(r) \/ ReleaseSurplus(r)
      BY <1>7
    <2>2. Home[r] \in Nodes
      BY HomeAssumption
    <2>3. UNCHANGED redis \/ ReleaseAccountSlot(Home[r])
      BY <2>1, <1>0, ReleaseShift DEF IInv, ReleaseClusterSlot
    <2>4. CASE UNCHANGED redis
      BY <1>4, <2>4 DEF redis
    <2>5. CASE ReleaseAccountSlot(Home[r])
      <3>1. /\ pool' = Plus(pool, Home[r], -1) /\ removing' = Plus(removing, Home[r], 1)
            /\ UNCHANGED <<lapsed, orphans>>
        BY <1>0, <2>2, <2>5 DEF ReleaseAccountSlot, TypeOK
      <3>2. \A n \in Nodes : Counted'[n] = Counted[n]
        <4>1. \A n \in Nodes :
                  /\ pool'[n] = pool[n] + (IF n = Home[r] THEN -1 ELSE 0)
                  /\ removing'[n] = removing[n] + (IF n = Home[r] THEN 1 ELSE 0)
          <5>1. pool \in [Nodes -> Nat] /\ removing \in [Nodes -> Nat] /\ 1 \in Int /\ -1 \in Int
            BY <1>0 DEF TypeOK
          <5>2. \A n \in Nodes : Plus(pool, Home[r], -1)[n]
                                   = pool[n] + (IF n = Home[r] THEN -1 ELSE 0)
            BY <2>2, <5>1, PlusAt
          <5>3. \A n \in Nodes : Plus(removing, Home[r], 1)[n]
                                   = removing[n] + (IF n = Home[r] THEN 1 ELSE 0)
            BY <2>2, <5>1, PlusAt
          <5> QED
            BY <3>1, <5>2, <5>3
        <4>2. ASSUME NEW n \in Nodes PROVE Counted'[n] = Counted[n]
          BY <1>2, <3>1, <4>1
        <4> QED
          BY <4>2
      <3>3. Counted' = Counted
        BY <1>0, <1>1, <3>2
      <3> QED
        BY <1>0, <1>3, <3>1, <3>3
    <2> QED
      BY <2>3, <2>4, <2>5
  <1>8. CASE \E r \in Requests : RequestStep(r) /\ ~ClaimGranted(r) /\ ~ClaimFails(r)
                                 /\ ~Finish(r) /\ ~ReleaseSurplus(r)
    <2>1. UNCHANGED redis
      BY <1>8 DEF RequestStep, Begin, Reserve, ClaimNothing, ClaimRefused, CommitClaim,
             Unreserve, Fallback, Refuse, Enqueue, TakeGrant, Abandon, Leave, Poll,
             PollWins, PollLeaves, PollLoses
    <2> QED
      BY <1>4, <2>1 DEF redis
  <1>9. CASE \E n \in Nodes : RemoveLease(n) \/ ExpireReleased(n)
    <2>1. PICK n \in Nodes : removing[n] > 0 /\ removing' = Plus(removing, n, -1)
      BY <1>9 DEF RemoveLease, ExpireReleased
    <2>2. UNCHANGED <<pool, lapsed, orphans>>
      BY <1>9 DEF RemoveLease, ExpireReleased
    <2>3. \A m \in Nodes : Counted'[m] <= Counted[m]
      <3>1. \A m \in Nodes : removing'[m] = removing[m] + (IF m = n THEN -1 ELSE 0)
        <4>1. removing \in [Nodes -> Nat] /\ -1 \in Int
          BY <1>0 DEF TypeOK
        <4>2. \A m \in Nodes : Plus(removing, n, -1)[m] = removing[m] + (IF m = n THEN -1 ELSE 0)
          BY <4>1, PlusAt
        <4> QED
          BY <2>1, <4>2
      <3>2. ASSUME NEW m \in Nodes PROVE Counted'[m] <= Counted[m]
        BY <1>2, <2>2, <3>1
      <3> QED
        BY <3>2
    <2>4. Total(Counted') <= Total(Counted)
      BY <1>0, <1>1, <2>3, TotalMonotone
    <2>5. Total(Counted') \in Nat
      BY <1>1, MembersFinite
    <2> QED
      BY <1>0, <1>3, <2>2, <2>4, <2>5
  <1>10. CASE \E n \in Nodes : Crash(n)
    <2>1. PICK n \in Nodes : Crash(n)
      BY <1>10
    <2>2. /\ pool' = [pool EXCEPT ![n] = 0]
          /\ lapsed' = [lapsed EXCEPT ![n] = 0]
          /\ removing' = [removing EXCEPT ![n] = 0]
          /\ orphans' = orphans + pool[n] - lapsed[n] + removing[n]
      BY <2>1 DEF Crash
    <2>3. /\ Counted'[n] = 0
          /\ \A m \in Nodes \ {n} : Counted'[m] = Counted[m]
          /\ \A m \in Nodes : lapsed'[m] = 0
      <3>1. \A m \in Nodes :
                /\ pool'[m] = IF m = n THEN 0 ELSE pool[m]
                /\ lapsed'[m] = IF m = n THEN 0 ELSE lapsed[m]
                /\ removing'[m] = IF m = n THEN 0 ELSE removing[m]
        <4>1. /\ pool \in [Nodes -> Nat] /\ lapsed \in [Nodes -> Nat]
              /\ removing \in [Nodes -> Nat]
          BY <1>0 DEF TypeOK
        <4> QED
          BY <2>2, <4>1
      <3>2. ASSUME NEW m \in Nodes
            PROVE  Counted'[m] = IF m = n THEN 0 ELSE Counted[m]
        BY <1>2, <3>1
      <3> QED
        BY <3>1, <3>2
    <2>4. Total(Counted) = Total(Counted') + Counted[n]
      BY <1>0, <1>1, <2>3, TotalDrop
    <2>5. Total(Counted') \in Nat
      BY <1>1, MembersFinite
    <2>6. LeasesHeld' = LeasesHeld
      BY <1>0, <1>2, <1>3, <2>2, <2>4, <2>5
    <2> QED
      BY <1>0, <2>3, <2>6
  <1>11. CASE Expire
    <2>1. orphans' = orphans - 1 /\ UNCHANGED <<pool, lapsed, removing>>
      BY <1>11 DEF Expire
    <2>2. Counted' = Counted
      BY <2>1 DEF Counted
    <2> QED
      BY <1>0, <1>3, <2>1, <2>2
  <1>12. CASE (\E n \in Nodes : Probe(n) \/ SeePeers(n)) \/ SetLimit
    <2>1. UNCHANGED redis
      BY <1>12 DEF Probe, SeePeers, SetLimit
    <2> QED
      BY <1>4, <2>1 DEF redis
  <1>13. CASE \E n \in Nodes : Lapse(n) \/ Renew(n)
    BY <1>0, <1>13 DEF Lapse, Renew, TypeOK
  <1> QED
    BY <1>5, <1>6, <1>7, <1>8, <1>9, <1>10, <1>11, <1>12, <1>13 DEF Next, ProcessStep

LEMMA InitLeasesWithinLimit ==
    Init => LeasesWithinLimit
  <1> SUFFICES ASSUME Init PROVE LeasesWithinLimit
    OBVIOUS
  <1>1. /\ \A n \in Nodes : lapsed[n] = 0 /\ pool[n] = 0 /\ removing[n] = 0
        /\ orphans = 0
    BY DEF Init
  <1>2. Counted \in [Nodes -> Nat] /\ \A n \in Nodes : Counted[n] = 0
    BY <1>1 DEF Counted
  <1>3. Members(Counted) = {}
    <2> SUFFICES ASSUME NEW p \in Members(Counted) PROVE FALSE
      OBVIOUS
    <2>1. PICK n \in Nodes, i \in Nat : 1 <= i /\ i <= Counted[n]
      BY <1>2, MembersAre
    <2> QED
      BY <1>2, <2>1
  <1>4. Total(Counted) = 0
    BY <1>3, FS_EmptySet DEF Total
  <1> QED
    BY <1>1, <1>4, Extremes DEF LeasesWithinLimit, LeasesHeld

LEMMA NextLeasesWithinLimit ==
    IInv /\ LeasesWithinLimit /\ [Next]_vars => LeasesWithinLimit'
  <1> SUFFICES ASSUME IInv, LeasesWithinLimit, [Next]_vars, ~Lapses
               PROVE  (\A n \in Nodes : lapsed'[n] = 0) /\ LeasesHeld' <= Max(Limits)
    BY DEF LeasesWithinLimit
  <1>0. /\ IInv' /\ \A n \in Nodes : lapsed[n] = 0
        /\ LeasesHeld <= Max(Limits) /\ LeasesHeld \in Nat /\ Max(Limits) \in Nat
    BY NextIInv, CountedType, Extremes DEF LeasesWithinLimit, CountedNat
  <1>1. CountedNat'
    BY <1>0, CountedType, PTL
  <1>2. LeasesHeld' \in Nat
    BY <1>1 DEF CountedNat
  <1>3. CASE Next
    <2>1. \A n \in Nodes : lapsed'[n] = 0
      BY <1>0, <1>3, LeasesGrow
    <2>2. CASE LeasesHeld' <= LeasesHeld
      BY <1>0, <1>2, <2>1, <2>2
    <2>3. CASE \E r \in Requests : LeasesHeld < lim[r] /\ LeasesHeld' = LeasesHeld + 1
      <3>1. PICK r \in Requests : LeasesHeld < lim[r] /\ LeasesHeld' = LeasesHeld + 1
        BY <2>3
      <3>2. lim[r] \in Nat /\ lim[r] <= Max(Limits)
        <4>1. lim[r] \in Limits \cup {0}
          BY DEF IInv, TypeOK
        <4> QED
          BY <4>1, Extremes
      <3> QED
        BY <1>0, <1>2, <2>1, <3>1, <3>2
    <2> QED
      BY <1>0, <1>3, <2>2, <2>3, LeasesGrow
  <1>4. CASE UNCHANGED vars
    <2>1. UNCHANGED <<pool, lapsed, removing, orphans>>
      BY <1>4 DEF vars, redis
    <2>2. LeasesHeld' = LeasesHeld
      BY <2>1 DEF LeasesHeld, Counted, Total, Members
    <2> QED
      BY <1>0, <2>1, <2>2
  <1> QED
    BY <1>3, <1>4

(* In every state the books allow, running requests are at most the leases *)
(* and the slots taken in outages.                                         *)
LEMMA LimitFromBooks ==
    KindInv /\ LeasesWithinLimit => ClusterLimit
  <1> SUFFICES ASSUME KindInv, LeasesWithinLimit, 0 \notin Limits, ~Lapses
               PROVE  Cardinality({r \in Requests : pc[r] = "running"})
                         <= Max(Limits) + Total(unshared)
    BY DEF ClusterLimit
  <1> DEFINE R == {r \in Requests : pc[r] = "running"}
             both == [n \in Nodes |-> clustered[n] + unshared[n]]
  <1>0. /\ IInv /\ TypeOK
        /\ clustered \in [Nodes -> Nat] /\ unshared \in [Nodes -> Nat]
        /\ both \in [Nodes -> Nat]
    BY DEF KindInv, IInv, TypeOK
  <1>1. ASSUME NEW n \in Nodes
        PROVE  Cardinality({r \in R : Home[r] = n}) <= both[n]
    <2> DEFINE A == {r \in R : Home[r] = n}
               B == At(n, {"running", "polled", "surplus"})
    <2>1. A \in SUBSET B
      BY DEF At
    <2>2. IsFiniteSet(B) /\ Cardinality(B) \in Nat
      BY AtFinite
    <2>3. Cardinality(A) <= Cardinality(B) /\ Cardinality(A) \in Nat
      <3> HIDE DEF A, B
      <3> QED
        BY <2>1, <2>2, FS_Subset, FS_CardinalityType
    <2>4. Cardinality(B) <= Slots(n) /\ Slots(n) \in Nat
      <3>1. Cardinality(At(n, {"surplus"})) \in Nat /\ Cardinality(Granted(n)) \in Nat
        BY AtFinite, GrantedFinite
      <3>2. Slots(n) = Cardinality(B) + Cardinality(At(n, {"surplus"})) + Cardinality(Granted(n))
        BY DEF Slots, Granted
      <3> HIDE DEF B
      <3> QED
        BY <2>2, <3>1, <3>2
    <2>5. both[n] = Slots(n)
      BY DEF KindInv, KindAccounting
    <2> HIDE DEF A, B, both
    <2>6. Cardinality(A) <= both[n]
      BY <2>2, <2>3, <2>4, <2>5
    <2> QED
      BY <2>6 DEF A
  <1>2. Cardinality(R) <= Total(both)
    <2>1. R \in SUBSET Requests
      OBVIOUS
    <2> HIDE DEF R, both
    <2> QED
      BY <1>0, <1>1, <2>1, TotalOfHomes
  <1>3. Total(both) <= Total(clustered) + Total(unshared)
    BY <1>0, TotalOfSum
  <1>4. /\ Counted \in [Nodes -> Nat] /\ LeasesHeld \in Nat /\ orphans \in Nat
        /\ Total(Counted) \in Nat /\ LeasesHeld <= Max(Limits)
        /\ LeasesHeld = Total(Counted) + orphans
    BY <1>0, CountedType DEF CountedNat, LeasesWithinLimit, LeasesHeld
  <1>5. \A n \in Nodes : clustered[n] <= Counted[n]
    <2> SUFFICES ASSUME NEW n \in Nodes PROVE clustered[n] <= Counted[n]
      OBVIOUS
    <2>1. /\ Counted[n] = pool[n] - lapsed[n] + removing[n]
          /\ lapsed[n] = 0 /\ removing[n] \in Nat /\ clustered[n] \in Nat
      BY <1>0 DEF Counted, LeasesWithinLimit, TypeOK
    <2>2. pool[n] = clustered[n] + Claimed(n) /\ Claimed(n) \in Nat
      BY <1>0, BooksAreNat DEF IInv, Books, LeaseAccounting, Claimed
    <2> QED
      BY <2>1, <2>2
  <1>6. Total(clustered) <= Total(Counted)
    BY <1>0, <1>4, <1>5, TotalMonotone
  <1>7. /\ Total(both) \in Nat /\ Total(clustered) \in Nat /\ Total(unshared) \in Nat
        /\ Cardinality(R) \in Nat /\ Max(Limits) \in Nat
    <2>1. R \in SUBSET Requests
      OBVIOUS
    <2>2. Cardinality(R) \in Nat
      <3> HIDE DEF R
      <3> QED
        BY <2>1, RequestsAssumption, FS_Subset, FS_CardinalityType
    <2>3. Total(both) \in Nat /\ Total(clustered) \in Nat /\ Total(unshared) \in Nat
      <3> HIDE DEF both
      <3> QED
        BY <1>0, MembersFinite
    <2> QED
      BY <2>2, <2>3, Extremes
  <1> HIDE DEF R, both
  <1>8. Cardinality(R) <= Max(Limits) + Total(unshared)
    BY <1>2, <1>3, <1>4, <1>6, <1>7
  <1> QED
    BY <1>8 DEF R

(* When no outage outlasts a lease, the limit is a limit: through lost     *)
(* replies, crashes and hand-overs, the requests running in the whole      *)
(* cluster exceed the largest limit by no more than the slots that were    *)
(* taken in outages.                                                       *)
THEOREM TheLimitIsClusterWide ==
    Spec => []ClusterLimit
  BY InitLeasesWithinLimit, NextLeasesWithinLimit, LimitFromBooks, Invariance,
     KindInvariance, PTL DEF Spec
=============================================================================
