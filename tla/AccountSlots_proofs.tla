-------------------------- MODULE AccountSlots_proofs --------------------------
(***************************************************************************)
(* TLAPS proofs about AccountSlots, for every set of requests, accounts    *)
(* and limits and every queue depth.                                       *)
(***************************************************************************)
EXTENDS AccountSlots, Lemmas, FiniteSetTheorems, SequenceTheorems, TLAPS

-----------------------------------------------------------------------------
(* Lemmas about the sequence operators of the model.                       *)

(* What dequeue leaves in a queue.                                         *)
LEMMA RemoveEntryFacts ==
    ASSUME NEW S, NEW q \in Seq(S), NEW r, r # Orphan,
           \A i, j \in 1..Len(q) : q[i].who = q[j].who /\ i # j => q[i].who = Orphan
    PROVE  LET p == RemoveEntry(q, r)
           IN  /\ p \in Seq(S)
               /\ \A i \in 1..Len(p) : \E k \in 1..Len(q) : p[i] = q[k]
               /\ \A i \in 1..Len(p) : p[i].who # r
               /\ \A i, j \in 1..Len(p) :
                     p[i].who = p[j].who /\ i # j => p[i].who = Orphan
<1>0. Len(q) \in Nat
  BY LenProperties
<1>1. CASE ~HasEntry(q, r)
  BY <1>1 DEF RemoveEntry, HasEntry
<1>2. CASE HasEntry(q, r)
  <2> DEFINE k == EntryIndex(q, r)
             p == SubSeq(q, 1, k - 1) \o SubSeq(q, k + 1, Len(q))
             src(i) == IF i < k THEN i ELSE i + 1
  <2>1. k \in 1..Len(q) /\ q[k].who = r
    BY <1>2 DEF HasEntry, EntryIndex
  <2>2. RemoveEntry(q, r) = p
    BY <1>2 DEF RemoveEntry
  <2> HIDE DEF k
  <2>3. p \in Seq(S) /\ Len(p) = Len(q) - 1 /\ \A i \in 1..Len(p) : p[i] = q[src(i)]
    BY <2>1, CutOne
  <2> HIDE DEF p
  <2>4. \A i \in 1..Len(p) : src(i) \in 1..Len(q) /\ src(i) # k
    BY <1>0, <2>1, <2>3
  <2>5. \A i, j \in 1..Len(p) : i # j => src(i) # src(j)
    BY <1>0, <2>1, <2>3
  <2> HIDE DEF src
  <2>6. \A i \in 1..Len(p) : p[i].who # r
    BY <2>1, <2>3, <2>4
  <2>7. \A i, j \in 1..Len(p) : p[i].who = p[j].who /\ i # j => p[i].who = Orphan
    BY <2>3, <2>4, <2>5
  <2> QED
    BY <2>2, <2>3, <2>4, <2>6, <2>7
<1> QED BY <1>1, <1>2

-----------------------------------------------------------------------------
(* Slot accounting: what a step that moves slots does to the holders.      *)

LEMMA HoldersFinite ==
    ASSUME NEW a
    PROVE  IsFiniteSet(Holders(a)) /\ Cardinality(Holders(a)) \in Nat
BY RequestsAssumption, FS_Subset, FS_CardinalityType DEF Holders

(* A request without a slot takes one.                                     *)
LEMMA TakeSlotAccounting ==
    ASSUME TypeOK, SlotAccounting, NEW r \in Requests, NEW a \in Accounts,
           slot[r] = NoAccount, TakeSlot(r, a)
    PROVE  SlotAccounting'
<1> SUFFICES ASSUME NEW b \in Accounts
             PROVE  active'[b] = Cardinality(Holders(b)')
  BY DEF SlotAccounting
<1>1. active[b] = Cardinality(Holders(b)) /\ NoAccount # b
  BY AccountsAssumption DEF SlotAccounting
<1>2. CASE b = a
  <2>1. Holders(b)' = Holders(b) \cup {r} /\ r \notin Holders(b)
    BY <1>1, <1>2 DEF Holders, TakeSlot, TypeOK
  <2>2. Cardinality(Holders(b)') = Cardinality(Holders(b)) + 1
    BY <2>1, HoldersFinite, FS_AddElement
  <2> QED BY <1>1, <1>2, <2>2 DEF TakeSlot, TypeOK
<1>3. CASE b # a
  <2>1. Holders(b)' = Holders(b)
    BY <1>1, <1>3 DEF Holders, TakeSlot, TypeOK
  <2> QED BY <1>1, <1>3, <2>1 DEF TakeSlot, TypeOK
<1> QED BY <1>2, <1>3

(* A request gives its slot up.                                            *)
LEMMA DropSlotAccounting ==
    ASSUME TypeOK, SlotAccounting, NEW r \in Requests, slot[r] \in Accounts,
           slot' = [slot EXCEPT ![r] = NoAccount],
           active' = [active EXCEPT ![slot[r]] = @ - 1]
    PROVE  SlotAccounting' /\ active[slot[r]] > 0
<1>0. ASSUME NEW b \in Accounts
      PROVE  active[b] = Cardinality(Holders(b)) /\ active[b] \in Nat /\ b # NoAccount
  BY AccountsAssumption DEF SlotAccounting, TypeOK
<1>1. Cardinality(Holders(slot[r]) \ {r}) = Cardinality(Holders(slot[r])) - 1
  <2>1. r \in Holders(slot[r])
    BY DEF Holders
  <2> QED BY <2>1, HoldersFinite, FS_RemoveElement
<1>2. Cardinality(Holders(slot[r]) \ {r}) \in Nat
  BY HoldersFinite, FS_RemoveElement, FS_CardinalityType
<1>3. active[slot[r]] > 0
  BY <1>0, <1>1, <1>2
<1>4. ASSUME NEW b \in Accounts
      PROVE  active'[b] = Cardinality(Holders(b)')
  <2>1. CASE b = slot[r]
    <3>1. Holders(b)' = Holders(b) \ {r}
      BY <1>0, <2>1 DEF Holders, TypeOK
    <3> QED BY <1>0, <1>1, <2>1, <3>1 DEF TypeOK
  <2>2. CASE b # slot[r]
    <3>1. Holders(b)' = Holders(b)
      BY <1>0, <2>2 DEF Holders, TypeOK
    <3> QED BY <1>0, <2>2, <3>1 DEF TypeOK
  <2> QED BY <2>1, <2>2
<1> QED BY <1>3, <1>4 DEF SlotAccounting

(* A request's slot moves to another request.                              *)
LEMMA MoveSlotAccounting ==
    ASSUME TypeOK, SlotAccounting, NEW r \in Requests, NEW w \in Requests,
           slot[r] \in Accounts, slot[w] = NoAccount,
           slot' = [slot EXCEPT ![r] = NoAccount, ![w] = slot[r]],
           active' = active
    PROVE  SlotAccounting'
<1> SUFFICES ASSUME NEW b \in Accounts
             PROVE  active'[b] = Cardinality(Holders(b)')
  BY DEF SlotAccounting
<1>1. active[b] = Cardinality(Holders(b)) /\ b # NoAccount /\ slot[r] # NoAccount /\ r # w
  BY AccountsAssumption DEF SlotAccounting
<1>2. CASE b = slot[r]
  <2>1. Holders(b)' = (Holders(b) \ {r}) \cup {w} /\ w \notin Holders(b) \ {r} /\ r \in Holders(b)
    BY <1>1, <1>2 DEF Holders, TypeOK
  <2>2. /\ IsFiniteSet(Holders(b) \ {r})
        /\ Cardinality(Holders(b) \ {r}) = Cardinality(Holders(b)) - 1
    BY <2>1, HoldersFinite, FS_RemoveElement
  <2>3. Cardinality(Holders(b)') = Cardinality(Holders(b) \ {r}) + 1
    BY <2>1, <2>2, FS_AddElement
  <2> QED BY <1>1, <2>2, <2>3, HoldersFinite
<1>3. CASE b # slot[r]
  <2>1. Holders(b)' = Holders(b)
    BY <1>1, <1>3 DEF Holders, TypeOK
  <2> QED BY <1>1, <2>1
<1> QED BY <1>2, <1>3

-----------------------------------------------------------------------------
(* The inductive invariant, action by action.                              *)

Unqueued == {"idle", "picking", "picked", "queueing"}

LEMMA InitIInv == Init => IInv
<1> SUFFICES ASSUME Init PROVE IInv
  OBVIOUS
<1>1. TypeOK
  BY EmptySeq DEF Init, TypeOK, States
<1>2. RequestState /\ QueueState /\ ReleaseAhead
  <2>1. RequestState
    BY DEF Init, RequestState
  <2>2. \A a \in Accounts : Len(waiters[a]) = 0
    BY EmptySeq DEF Init
  <2>3. QueueState /\ ReleaseAhead
    BY <2>2 DEF QueueState, QueueOK, ReleaseAhead, Unclaimed
  <2> QED BY <2>1, <2>3
<1>3. SlotAccounting
  <2> SUFFICES ASSUME NEW a \in Accounts
               PROVE  active[a] = Cardinality(Holders(a))
    BY DEF SlotAccounting
  <2>1. Holders(a) = {}
    BY AccountsAssumption DEF Init, Holders
  <2> QED BY <2>1, FS_EmptySet DEF Init
<1> QED BY <1>1, <1>2, <1>3 DEF IInv

(* A queue entry that is not stale belongs to a request.                   *)
LEMMA EntryOwner ==
    ASSUME NEW q \in Seq(Entry), NEW i \in 1..Len(q), q[i].who # Orphan
    PROVE  q[i].who \in Requests
<1>1. q[i] \in Entry
  BY ElementOfSeq
<1> QED BY <1>1 DEF Entry

(* Steps of the candidate loop that leave the limiter alone.               *)
LEMMA LimiterUntouched ==
    ASSUME IInv, NEW r \in Requests, NEW s \in Unqueued, pc[r] \in Unqueued,
           pc' = [pc EXCEPT ![r] = s],
           UNCHANGED <<active, waiters, claimed, slot>>
    PROVE  QueueState' /\ SlotAccounting' /\ ReleaseAhead'
<1>1. ASSUME NEW a \in Accounts, NEW i \in 1..Len(waiters[a]), waiters[a][i].who # Orphan
      PROVE  pc'[waiters[a][i].who] \in {"waiting", "leaving"}
  <2>1. pc[waiters[a][i].who] \in {"waiting", "leaving"}
    BY <1>1 DEF IInv, QueueState, QueueOK
  <2>2. waiters[a][i].who # r
    BY <2>1 DEF Unqueued
  <2>3. waiters[a][i].who \in Requests
    BY <1>1, EntryOwner DEF IInv, TypeOK
  <2> QED BY <2>1, <2>2, <2>3 DEF IInv, TypeOK
<1>2. QueueState'
  BY <1>1 DEF IInv, QueueState, QueueOK
<1>3. SlotAccounting'
  BY DEF IInv, SlotAccounting, Holders
<1>4. ReleaseAhead'
  BY DEF IInv, ReleaseAhead, Unclaimed, IsClaimed
<1> QED BY <1>2, <1>3, <1>4

LEMMA ScopeSteps ==
    ASSUME IInv, NEW r \in Requests,
           Begin(r) \/ Pick(r) \/ Moderate(r) \/ PickFails(r) \/ WaitRefused(r)
    PROVE  IInv'
<1> USE DEF IInv
<1>1. CASE Begin(r)
  <2>1. TypeOK' /\ RequestState'
    BY <1>1 DEF Begin, TypeOK, RequestState, States
  <2> QED BY <1>1, <2>1, LimiterUntouched DEF Begin, Unqueued
<1>2. CASE Pick(r)
  <2> PICK a \in FilterAvailableCandidates(untried[r]) :
        /\ picked' = [picked EXCEPT ![r] = [acct |-> a, lim |-> limit[a]]]
        /\ untried' = [untried EXCEPT ![r] = @ \ {a}]
    BY <1>2 DEF Pick
  <2>1. a \in Accounts
    BY DEF FilterAvailableCandidates, TypeOK
  <2>2. [acct |-> a, lim |-> limit[a]] \in Candidate
    BY <2>1 DEF Candidate, TypeOK
  <2>3. TypeOK'
    BY <1>2, <2>2 DEF Pick, TypeOK, States
  <2>4. RequestState'
    BY <1>2, <2>2 DEF Pick, TypeOK, RequestState
  <2> QED BY <1>2, <2>3, <2>4, LimiterUntouched DEF Pick, Unqueued
<1>3. CASE Moderate(r)
  <2>1. TypeOK' /\ RequestState'
    BY <1>3, EmptySeq DEF Moderate, EndRequest, TypeOK, RequestState, States
  <2> QED BY <1>3, <2>1, LimiterUntouched DEF Moderate, EndRequest, Unqueued
<1>4. CASE PickFails(r)
  <2>1. TypeOK' /\ RequestState'
    BY <1>4, EmptySeq DEF PickFails, EndRequest, TypeOK, RequestState, States
  <2> QED BY <1>4, <2>1, LimiterUntouched DEF PickFails, EndRequest, Unqueued
<1>5. CASE WaitRefused(r)
  <2>1. TypeOK' /\ RequestState'
    BY <1>5, EmptySeq DEF WaitRefused, EndRequest, TypeOK, RequestState, States
  <2> QED BY <1>5, <2>1, LimiterUntouched DEF WaitRefused, EndRequest, Unqueued
<1> QED BY <1>1, <1>2, <1>3, <1>4, <1>5

(* A slot is taken without waiting.                                        *)
LEMMA TakeSlotStep ==
    ASSUME IInv, NEW r \in Requests, NEW a \in Accounts,
           pc[r] \in {"picked", "queueing"}, TakeSlot(r, a),
           UNCHANGED <<waiters, claimed>>
    PROVE  /\ active' \in [Accounts -> Nat]
           /\ slot' \in [Requests -> Accounts \cup {NoAccount}]
           /\ pc' \in [Requests -> States]
           /\ picked' = [picked EXCEPT ![r] = NoCandidate] \/ picked' = picked
                 => RequestState'
           /\ QueueState' /\ SlotAccounting' /\ ReleaseAhead'
<1> USE DEF IInv
<1>1. slot[r] = NoAccount /\ ~claimed[r]
  BY DEF RequestState
<1>2. /\ active' \in [Accounts -> Nat]
      /\ slot' \in [Requests -> Accounts \cup {NoAccount}]
      /\ pc' \in [Requests -> States]
  BY DEF TakeSlot, TypeOK, States
<1>3. ASSUME picked' = [picked EXCEPT ![r] = NoCandidate] \/ picked' = picked
      PROVE  RequestState'
  BY <1>1, <1>3 DEF TakeSlot, TypeOK, RequestState
<1>4. QueueState'
  <2>1. ASSUME NEW b \in Accounts, NEW i \in 1..Len(waiters[b]), waiters[b][i].who # Orphan
        PROVE  pc'[waiters[b][i].who] \in {"waiting", "leaving"}
    <3>1. pc[waiters[b][i].who] \in {"waiting", "leaving"}
      BY <2>1 DEF QueueState, QueueOK
    <3>2. waiters[b][i].who \in Requests
      BY <2>1, EntryOwner DEF TypeOK
    <3> QED BY <3>1, <3>2 DEF TakeSlot, TypeOK
  <2> QED BY <2>1 DEF QueueState, QueueOK
<1>5. SlotAccounting'
  BY <1>1, TakeSlotAccounting
<1>6. ReleaseAhead'
  <2> SUFFICES ASSUME NEW b \in Accounts, Unclaimed(b)' # {}
               PROVE  active'[b] > 0
    BY DEF ReleaseAhead
  <2>1. Unclaimed(b)' = Unclaimed(b)
    BY DEF Unclaimed, IsClaimed
  <2>2. active[b] > 0
    BY <2>1 DEF ReleaseAhead
  <2> QED BY <2>2 DEF TakeSlot, TypeOK
<1> QED BY <1>2, <1>3, <1>4, <1>5, <1>6

LEMMA AcquireSlotStep ==
    ASSUME IInv, NEW r \in Requests, AcquireSlot(r)
    PROVE  IInv'
<1> USE DEF IInv
<1> DEFINE c == picked[r]
<1>1. c \in Candidate /\ c.acct \in Accounts /\ pc[r] = "picked"
  BY DEF AcquireSlot, RequestState, Candidate
<1>2. CASE TakeSlot(r, c.acct) /\ UNCHANGED saturated
  <2>1. TypeOK'
    BY <1>1, <1>2, TakeSlotStep DEF AcquireSlot, TypeOK
  <2> QED BY <1>1, <1>2, <2>1, TakeSlotStep DEF AcquireSlot
<1>3. CASE /\ saturated' = [saturated EXCEPT ![r] = Append(@, c)]
           /\ pc' = [pc EXCEPT ![r] = "picking"]
           /\ UNCHANGED <<active, slot>>
  <2>1. Append(saturated[r], c) \in Seq(Candidate)
    BY <1>1, AppendProperties DEF TypeOK
  <2>2. TypeOK'
    BY <1>3, <2>1 DEF AcquireSlot, TypeOK, States
  <2>3. RequestState'
    BY <1>3 DEF AcquireSlot, TypeOK, RequestState
  <2> QED BY <1>1, <1>3, <2>2, <2>3, LimiterUntouched DEF AcquireSlot, Unqueued
<1> QED BY <1>2, <1>3 DEF AcquireSlot

(* The saturated entry that had its turn is cut out.                       *)
LEMMA ConsumeTurnType ==
    ASSUME TypeOK, NEW r \in Requests, NEW a, ConsumeTurn(r, a)
    PROVE  saturated' \in [Requests -> Seq(Candidate)] /\ a \in Accounts
<1> PICK i \in 1..Len(saturated[r]) :
      /\ saturated[r][i].acct = a
      /\ saturated' = [saturated EXCEPT ![r] =
                            SubSeq(@, 1, i - 1) \o SubSeq(@, i + 1, Len(@))]
  BY DEF ConsumeTurn
<1>1. saturated[r] \in Seq(Candidate)
  BY DEF TypeOK
<1>2. SubSeq(saturated[r], 1, i - 1) \o SubSeq(saturated[r], i + 1, Len(saturated[r]))
        \in Seq(Candidate)
  BY <1>1, CutOne
<1>3. saturated[r][i] \in Candidate
  BY <1>1, ElementOfSeq
<1>4. a \in Accounts
  BY <1>3 DEF Candidate
<1> QED BY <1>2, <1>4 DEF TypeOK

LEMMA AcquireFreeStep ==
    ASSUME IInv, NEW r \in Requests, AcquireFree(r)
    PROVE  IInv'
<1> USE DEF IInv
<1> PICK i \in 1..Len(saturated[r]) :
      TakeSlot(r, saturated[r][i].acct) /\ ConsumeTurn(r, saturated[r][i].acct)
  BY DEF AcquireFree
<1>1. saturated' \in [Requests -> Seq(Candidate)] /\ saturated[r][i].acct \in Accounts
  BY ConsumeTurnType
<1>2. TypeOK'
  BY <1>1, TakeSlotStep DEF AcquireFree, TypeOK
<1> QED BY <1>1, <1>2, TakeSlotStep DEF AcquireFree

(* Joining queues.  The request was in none of them, every account it      *)
(* queues on is full, and a full account has something in flight.          *)
LEMMA EnqueueStep ==
    ASSUME IInv, NEW r \in Requests, Enqueue(r)
    PROVE  IInv'
<1> USE DEF IInv
<1>0. pc[r] = "queueing" /\ pc' = [pc EXCEPT ![r] = "waiting"] /\ r # Orphan
  BY RequestsAssumption DEF Enqueue
<1>1. ASSUME NEW a \in Accounts, EntriesFor(r, a) # {}
      PROVE  LET e == CHOOSE x \in EntriesFor(r, a) : TRUE
             IN  e \in Entry /\ e.who = r /\ e.lim > 0 /\ active[a] > 0
  <2> DEFINE e == CHOOSE x \in EntriesFor(r, a) : TRUE
  <2>1. e \in EntriesFor(r, a)
    BY <1>1
  <2> HIDE DEF e
  <2>2. PICK i \in 1..Len(saturated[r]) :
              saturated[r][i].acct = a /\ e = [who |-> r, lim |-> saturated[r][i].lim]
    BY <2>1 DEF EntriesFor
  <2>3. saturated[r][i] \in Candidate
    BY ElementOfSeq DEF TypeOK
  <2>4. saturated[r][i].lim \in Limits /\ saturated[r][i].lim \in Nat
    BY <2>3, LimitsAssumption DEF Candidate
  <2>5. ~HasRoom(a, saturated[r][i].lim)
    BY <2>2 DEF Enqueue, Full
  <2>6. saturated[r][i].lim > 0 /\ active[a] > 0
    BY <2>4, <2>5 DEF HasRoom, TypeOK
  <2>7. e \in Entry
    BY <2>2, <2>4 DEF Entry
  <2>8. e.who = r /\ e.lim > 0
    BY <2>2, <2>6
  <2> QED BY <2>6, <2>7, <2>8 DEF e
<1>2. ASSUME NEW a \in Accounts
      PROVE  /\ waiters'[a] \in Seq(Entry)
             /\ QueueOK(waiters[a])'
             /\ Unclaimed(a)' # {} => active'[a] > 0
  <2> DEFINE q == waiters[a]
  <2>1. q \in Seq(Entry) /\ Len(q) \in Nat
    BY LenProperties DEF TypeOK
  <2>2. \A i \in 1..Len(q) : q[i].who # Orphan => pc[q[i].who] \in {"waiting", "leaving"}
    BY DEF QueueState, QueueOK
  <2>3. \A i \in 1..Len(q) : q[i].who # r
    BY <1>0, <2>2
  <2>4. \A i \in 1..Len(q) : q[i].who # Orphan => pc'[q[i].who] \in {"waiting", "leaving"}
    BY <1>0, <2>2, <2>3 DEF TypeOK
  <2>5. CASE EntriesFor(r, a) = {}
    <3>1. waiters'[a] = q
      BY <2>5 DEF Enqueue, EnqueuedOn
    <3>2. QueueOK(waiters[a])'
      BY <2>4, <3>1 DEF QueueState, QueueOK
    <3>3. Unclaimed(a)' = Unclaimed(a) /\ active'[a] = active[a]
      BY <3>1 DEF Unclaimed, IsClaimed, Enqueue
    <3> QED BY <2>1, <3>1, <3>2, <3>3 DEF ReleaseAhead
  <2>6. CASE EntriesFor(r, a) # {}
    <3> DEFINE e == CHOOSE x \in EntriesFor(r, a) : TRUE
    <3>1. e \in Entry /\ e.who = r /\ e.lim > 0 /\ active[a] > 0
      BY <1>1, <2>6
    <3>2. waiters'[a] = Append(q, e)
      BY <2>6 DEF Enqueue, EnqueuedOn
    <3> HIDE DEF e
    <3>3. /\ waiters'[a] \in Seq(Entry)
          /\ Len(waiters'[a]) = Len(q) + 1
          /\ \A i \in 1..Len(q) : waiters'[a][i] = q[i]
          /\ waiters'[a][Len(q) + 1] = e
      BY <2>1, <3>1, <3>2, AppendProperties
    <3>4. \A i \in 1..Len(waiters'[a]) : i \in 1..Len(q) \/ i = Len(q) + 1
      BY <2>1, <3>3
    <3>5. \A i \in 1..Len(waiters'[a]) : waiters'[a][i].lim > 0
      BY <3>1, <3>3, <3>4 DEF QueueState, QueueOK
    <3>6. \A i \in 1..Len(waiters'[a]) :
             waiters'[a][i].who # Orphan =>
                pc'[waiters'[a][i].who] \in {"waiting", "leaving"}
      BY <1>0, <2>4, <3>1, <3>3, <3>4 DEF TypeOK
    <3>7. \A i, j \in 1..Len(waiters'[a]) :
             waiters'[a][i].who = waiters'[a][j].who /\ i # j
                => waiters'[a][i].who = Orphan
      BY <2>3, <3>1, <3>3, <3>4 DEF QueueState, QueueOK
    <3> QED BY <3>1, <3>3, <3>5, <3>6, <3>7 DEF QueueOK, Enqueue
  <2> QED BY <2>5, <2>6
<1>3. TypeOK'
  <2>1. waiters' \in [Accounts -> Seq(Entry)]
    BY <1>2 DEF Enqueue, EnqueuedOn
  <2> QED BY <2>1 DEF Enqueue, TypeOK, States
<1>4. RequestState'
  BY <1>0, AccountsAssumption DEF Enqueue, TypeOK, RequestState
<1>5. SlotAccounting'
  BY DEF Enqueue, SlotAccounting, Holders
<1>6. QueueState' /\ ReleaseAhead'
  BY <1>2 DEF QueueState, ReleaseAhead
<1> QED BY <1>3, <1>4, <1>5, <1>6

(* The request leaves every queue.                                         *)
LEMMA DequeuedFacts ==
    ASSUME IInv, NEW r \in Requests, NEW s \in States,
           waiters' = Dequeued(r), pc' = [pc EXCEPT ![r] = s],
           claimed' = [claimed EXCEPT ![r] = FALSE], UNCHANGED active
    PROVE  /\ waiters' \in [Accounts -> Seq(Entry)] /\ QueueState' /\ ReleaseAhead'
           /\ \A a \in Accounts : Unclaimed(a)' # {} => Unclaimed(a) # {}
<1> USE DEF IInv
<1>1. ASSUME NEW a \in Accounts
      PROVE  /\ waiters'[a] \in Seq(Entry)
             /\ QueueOK(waiters[a])'
             /\ Unclaimed(a)' # {} => active'[a] > 0
             /\ Unclaimed(a)' # {} => Unclaimed(a) # {}
  <2> DEFINE q == waiters[a]
             p == RemoveEntry(q, r)
  <2>1. q \in Seq(Entry) /\ waiters'[a] = p
    BY DEF TypeOK, Dequeued
  <2>2. /\ p \in Seq(Entry)
        /\ \A i \in 1..Len(p) : \E k \in 1..Len(q) : p[i] = q[k]
        /\ \A i \in 1..Len(p) : p[i].who # r
        /\ \A i, j \in 1..Len(p) : p[i].who = p[j].who /\ i # j => p[i].who = Orphan
    <3>1. \A i, j \in 1..Len(q) : q[i].who = q[j].who /\ i # j => q[i].who = Orphan
      BY DEF QueueState, QueueOK
    <3>2. r # Orphan
      BY RequestsAssumption
    <3> HIDE DEF q
    <3> QED BY <2>1, <3>1, <3>2, RemoveEntryFacts
  <2> HIDE DEF p
  <2>3. \A i \in 1..Len(p) : p[i].lim > 0
    BY <2>2 DEF QueueState, QueueOK
  <2>4. \A i \in 1..Len(p) : p[i].who # Orphan => pc'[p[i].who] \in {"waiting", "leaving"}
    <3> SUFFICES ASSUME NEW i \in 1..Len(p), p[i].who # Orphan
                 PROVE  pc'[p[i].who] \in {"waiting", "leaving"}
      OBVIOUS
    <3>1. pc[p[i].who] \in {"waiting", "leaving"}
      BY <2>2 DEF QueueState, QueueOK
    <3>2. p[i].who \in Requests
      BY <2>2, EntryOwner
    <3> QED BY <2>2, <3>1, <3>2 DEF TypeOK
  <2>5. ASSUME Unclaimed(a)' # {}
        PROVE  Unclaimed(a) # {}
    <3>1. PICK i \in 1..Len(p) : p[i].who # Orphan /\ ~claimed'[p[i].who]
      BY <2>1, <2>5 DEF Unclaimed, IsClaimed
    <3>2. PICK k \in 1..Len(q) : p[i] = q[k]
      BY <2>2
    <3>3. q[k] \in Entry
      BY <2>1, ElementOfSeq
    <3>4. q[k].who \in Requests
      BY <3>1, <3>2, <3>3 DEF Entry
    <3>5. ~claimed[q[k].who]
      BY <2>2, <3>1, <3>2, <3>4 DEF TypeOK
    <3> QED BY <3>1, <3>2, <3>5 DEF Unclaimed, IsClaimed
  <2> QED BY <2>1, <2>2, <2>3, <2>4, <2>5 DEF QueueOK, ReleaseAhead
<1> QED BY <1>1 DEF Dequeued, QueueState, ReleaseAhead

(* The request's entries become stale.                                     *)
LEMMA OrphanedFacts ==
    ASSUME IInv, NEW r \in Requests, NEW s \in States,
           waiters' = Orphaned(r), pc' = [pc EXCEPT ![r] = s],
           claimed' = [claimed EXCEPT ![r] = FALSE], UNCHANGED active
    PROVE  /\ waiters' \in [Accounts -> Seq(Entry)] /\ QueueState' /\ ReleaseAhead'
           /\ \A a \in Accounts : Unclaimed(a)' # {} => Unclaimed(a) # {}
<1> USE DEF IInv
<1>0. r # Orphan
  BY RequestsAssumption
<1>1. ASSUME NEW a \in Accounts
      PROVE  /\ waiters'[a] \in Seq(Entry)
             /\ QueueOK(waiters[a])'
             /\ Unclaimed(a)' # {} => active'[a] > 0
             /\ Unclaimed(a)' # {} => Unclaimed(a) # {}
  <2> DEFINE q == waiters[a]
             p == [i \in 1..Len(q) |-> OrphanEntry(q[i], r)]
  <2>1. q \in Seq(Entry) /\ waiters'[a] = p /\ Len(q) \in Nat
    BY LenProperties DEF TypeOK, Orphaned
  <2>2. ASSUME NEW i \in 1..Len(q)
        PROVE  /\ OrphanEntry(q[i], r) \in Entry
               /\ OrphanEntry(q[i], r).lim = q[i].lim
               /\ OrphanEntry(q[i], r).who = IF q[i].who = r THEN Orphan ELSE q[i].who
    <3>1. q[i] \in Entry
      BY <2>1, ElementOfSeq
    <3>2. q[i].who \in Requests \cup {Orphan} /\ q[i].lim \in Limits
      BY <3>1 DEF Entry
    <3>3. CASE q[i].who = r
      <4>1. OrphanEntry(q[i], r) = [who |-> Orphan, lim |-> q[i].lim]
        BY <3>1, <3>3 DEF OrphanEntry, Entry
      <4> QED BY <3>2, <3>3, <4>1 DEF Entry
    <3>4. CASE q[i].who # r
      BY <3>1, <3>4 DEF OrphanEntry
    <3> QED BY <3>3, <3>4
  <2>3. p \in Seq(Entry) /\ Len(p) = Len(q)
    <3>1. p \in [1..Len(q) -> Entry]
      BY <2>2
    <3>2. p \in Seq(Entry)
      BY <2>1, <3>1, SeqDef
    <3>3. 1..Len(p) = 1..Len(q) /\ Len(p) \in Nat
      BY <3>1, <3>2, LenProperties
    <3> HIDE DEF p, q
    <3>4. Len(p) = Len(q)
      BY <2>1, <3>3
    <3> QED BY <3>2, <3>4
  <2>4. \A i \in 1..Len(q) :
           /\ p[i].lim = q[i].lim
           /\ p[i].who = IF q[i].who = r THEN Orphan ELSE q[i].who
    BY <2>2
  <2>5. QueueOK(q)
    BY DEF QueueState
  <2> HIDE DEF p
  <2>6. \A i \in 1..Len(p) : p[i].lim > 0
    BY <2>3, <2>4, <2>5 DEF QueueOK
  <2>7. \A i \in 1..Len(p) : p[i].who # Orphan => pc'[p[i].who] \in {"waiting", "leaving"}
    <3> SUFFICES ASSUME NEW i \in 1..Len(p), p[i].who # Orphan
                 PROVE  pc'[p[i].who] \in {"waiting", "leaving"}
      OBVIOUS
    <3>1. p[i].who = q[i].who /\ p[i].who # r /\ pc[q[i].who] \in {"waiting", "leaving"}
      BY <2>3, <2>4, <2>5 DEF QueueOK
    <3>2. p[i].who \in Requests
      BY <2>3, EntryOwner
    <3> QED BY <3>1, <3>2 DEF TypeOK
  <2>8. \A i, j \in 1..Len(p) : p[i].who = p[j].who /\ i # j => p[i].who = Orphan
    BY <2>3, <2>4, <2>5 DEF QueueOK
  <2>9. ASSUME Unclaimed(a)' # {}
        PROVE  Unclaimed(a) # {}
    <3>1. PICK i \in 1..Len(p) : p[i].who # Orphan /\ ~claimed'[p[i].who]
      BY <2>1, <2>9 DEF Unclaimed, IsClaimed
    <3>2. i \in 1..Len(q) /\ q[i].who = p[i].who /\ q[i].who # r
      BY <2>3, <2>4, <3>1
    <3>3. q[i] \in Entry
      BY <2>1, <3>2, ElementOfSeq
    <3>4. q[i].who \in Requests
      BY <3>1, <3>2, <3>3 DEF Entry
    <3>5. ~claimed[q[i].who]
      BY <3>1, <3>2, <3>4 DEF TypeOK
    <3> QED BY <3>1, <3>2, <3>5 DEF Unclaimed, IsClaimed
  <2> QED BY <2>1, <2>3, <2>6, <2>7, <2>8, <2>9 DEF QueueOK, ReleaseAhead
<1> QED BY <1>1 DEF Orphaned, QueueState, ReleaseAhead

LEMMA GrantSteps ==
    ASSUME IInv, NEW r \in Requests, ReceiveGrant(r) \/ GiveUpGranted(r)
    PROVE  IInv'
<1> USE DEF IInv
<1>1. TakeGrant(r) /\ (waiters' = Dequeued(r) \/ waiters' = Orphaned(r))
  BY DEF ReceiveGrant, GiveUpGranted
<1>2. saturated' \in [Requests -> Seq(Candidate)] /\ slot[r] \in Accounts
  BY <1>1, ConsumeTurnType DEF TakeGrant
<1>3. waiters' \in [Accounts -> Seq(Entry)] /\ QueueState' /\ ReleaseAhead'
  <2>1. "executing" \in States
    BY DEF States
  <2> QED BY <1>1, <2>1, DequeuedFacts, OrphanedFacts DEF TakeGrant
<1>4. TypeOK'
  BY <1>1, <1>2, <1>3 DEF TakeGrant, TypeOK, States
<1>5. RequestState'
  BY <1>1, <1>2 DEF TakeGrant, TypeOK, RequestState
<1>6. SlotAccounting'
  BY <1>1 DEF TakeGrant, SlotAccounting, Holders
<1> QED BY <1>3, <1>4, <1>5, <1>6

LEMMA LeaveStep ==
    ASSUME IInv, NEW r \in Requests, Leave(r)
    PROVE  IInv'
<1> USE DEF IInv
<1>1. waiters' \in [Accounts -> Seq(Entry)] /\ QueueState' /\ ReleaseAhead'
  <2>1. "idle" \in States
    BY DEF States
  <2> QED BY <2>1, DequeuedFacts DEF Leave, EndRequest
<1>2. TypeOK'
  BY <1>1, EmptySeq DEF Leave, EndRequest, TypeOK, States
<1>3. RequestState'
  BY DEF Leave, EndRequest, TypeOK, RequestState
<1>4. SlotAccounting'
  BY DEF Leave, SlotAccounting, Holders
<1> QED BY <1>1, <1>2, <1>3, <1>4

LEMMA AbandonStep ==
    ASSUME IInv, NEW r \in Requests, Abandon(r)
    PROVE  IInv'
<1> USE DEF IInv
<1>1. TypeOK'
  BY DEF Abandon, TypeOK, States
<1>2. RequestState'
  BY DEF Abandon, TypeOK, RequestState
<1>3. QueueState'
  <2>1. ASSUME NEW b \in Accounts, NEW i \in 1..Len(waiters[b]), waiters[b][i].who # Orphan
        PROVE  pc'[waiters[b][i].who] \in {"waiting", "leaving"}
    <3>1. pc[waiters[b][i].who] \in {"waiting", "leaving"}
      BY <2>1 DEF QueueState, QueueOK
    <3>2. waiters[b][i].who \in Requests
      BY <2>1, EntryOwner DEF TypeOK
    <3> QED BY <3>1, <3>2 DEF Abandon, TypeOK
  <2> QED BY <2>1 DEF Abandon, QueueState, QueueOK
<1>4. SlotAccounting'
  BY DEF Abandon, SlotAccounting, Holders
<1>5. ReleaseAhead'
  <2> SUFFICES ASSUME NEW a \in Accounts, Unclaimed(a)' # {}
               PROVE  active[a] > 0
    BY DEF ReleaseAhead, Abandon
  <2>1. PICK i \in 1..Len(waiters[a]) : waiters[a][i].who # Orphan /\ ~claimed'[waiters[a][i].who]
    BY DEF Unclaimed, IsClaimed, Abandon
  <2>2. waiters[a][i] \in Entry
    BY ElementOfSeq DEF TypeOK
  <2>3. waiters[a][i].who \in Requests
    BY <2>1, <2>2 DEF Entry
  <2>4. ~claimed[waiters[a][i].who]
    BY <2>1, <2>3 DEF Abandon, TypeOK
  <2>5. Unclaimed(a) # {}
    BY <2>1, <2>4 DEF Unclaimed, IsClaimed
  <2> QED BY <2>5 DEF ReleaseAhead
<1> QED BY <1>1, <1>2, <1>3, <1>4, <1>5

(* A release that leaves a tail of one queue and nothing else behind.      *)
LEMMA PoppedQueue ==
    ASSUME IInv, NEW r \in Requests, pc[r] = "executing",
           NEW s \in States, pc' = [pc EXCEPT ![r] = s],
           NEW a \in Accounts, NEW n \in Nat, n <= Len(waiters[a]),
           waiters' = [waiters EXCEPT ![a] = SubSeq(@, n + 1, Len(@))]
    PROVE  /\ waiters' \in [Accounts -> Seq(Entry)]
           /\ QueueState'
           /\ \A b \in Accounts : \A i \in 1..Len(waiters'[b]) :
                 \E k \in 1..Len(waiters[b]) : waiters'[b][i] = waiters[b][k]
           /\ Len(waiters'[a]) = Len(waiters[a]) - n
<1> USE DEF IInv
<1> DEFINE q == waiters[a]
           p == SubSeq(q, n + 1, Len(q))
<1>1. q \in Seq(Entry) /\ waiters'[a] = p
  BY DEF TypeOK
<1> HIDE DEF q
<1>2. /\ p \in Seq(Entry)
      /\ Len(p) = Len(q) - n
      /\ \A i \in 1..Len(p) : p[i] = q[n + i] /\ n + i \in 1..Len(q)
  BY <1>1, TailFacts DEF q
<1> HIDE DEF p
<1>3. waiters' \in [Accounts -> Seq(Entry)]
  BY <1>2 DEF TypeOK, p, q
<1>4. ASSUME NEW b \in Accounts, NEW x, x = waiters'[b]
      PROVE  /\ \A i \in 1..Len(x) : x[i].lim > 0
             /\ \A i \in 1..Len(x) :
                   x[i].who # Orphan => pc'[x[i].who] \in {"waiting", "leaving"}
             /\ \A i, j \in 1..Len(x) : x[i].who = x[j].who /\ i # j => x[i].who = Orphan
  <2>1. QueueOK(waiters[b])
    BY DEF QueueState
  <2>2. ASSUME NEW i \in 1..Len(waiters[b]), waiters[b][i].who # Orphan
        PROVE  pc'[waiters[b][i].who] \in {"waiting", "leaving"}
    <3>1. pc[waiters[b][i].who] \in {"waiting", "leaving"}
      BY <2>1, <2>2 DEF QueueOK
    <3>2. waiters[b][i].who \in Requests
      BY <2>2, EntryOwner DEF TypeOK
    <3> QED BY <3>1, <3>2 DEF TypeOK
  <2>3. CASE b # a
    <3>1. x = waiters[b]
      BY <1>4, <2>3 DEF TypeOK
    <3> QED BY <2>1, <2>2, <3>1 DEF QueueOK
  <2>4. CASE b = a
    <3>1. \A i \in 1..Len(p) : p[i].lim > 0
      BY <1>2, <2>1, <2>4 DEF QueueOK, q
    <3>2. \A i \in 1..Len(p) : p[i].who # Orphan => pc'[p[i].who] \in {"waiting", "leaving"}
      BY <1>2, <2>2, <2>4 DEF q
    <3>3. \A i, j \in 1..Len(q) : q[i].who = q[j].who /\ i # j => q[i].who = Orphan
      BY <2>1, <2>4 DEF QueueOK, q
    <3>5. ASSUME NEW i \in 1..Len(p), NEW j \in 1..Len(p), p[i].who = p[j].who, i # j
          PROVE  p[i].who = Orphan
      <4>1. n + i \in 1..Len(q) /\ n + j \in 1..Len(q) /\ p[i] = q[n + i] /\ p[j] = q[n + j]
        BY <1>2
      <4>2. n + i # n + j
        BY <3>5
      <4> QED BY <3>3, <3>5, <4>1, <4>2
    <3>6. x = p
      BY <1>1, <1>4, <2>4
    <3> QED BY <3>1, <3>2, <3>5, <3>6
  <2> QED BY <2>3, <2>4
<1>5. ASSUME NEW b \in Accounts, NEW i \in 1..Len(waiters'[b])
      PROVE  \E k \in 1..Len(waiters[b]) : waiters'[b][i] = waiters[b][k]
  <2>1. CASE b # a
    BY <2>1 DEF TypeOK
  <2>2. CASE b = a
    BY <1>1, <1>2, <2>2 DEF q
  <2> QED BY <2>1, <2>2
<1>6. QueueState'
  BY <1>4 DEF QueueState, QueueOK
<1> QED BY <1>1, <1>2, <1>3, <1>5, <1>6 DEF q

(* The slot goes to a queued caller.                                       *)
LEMMA HandOverStep ==
    ASSUME IInv, NEW r \in Requests, pc[r] = "executing",
           NEW s \in {"idle", "picking"}, pc' = [pc EXCEPT ![r] = s],
           NEW n \in 0..Len(waiters[slot[r]]), HandOver(r, slot[r], n),
           untried' \in [Requests -> SUBSET Accounts],
           saturated' \in [Requests -> Seq(Candidate)],
           UNCHANGED <<limit, picked>>
    PROVE  IInv'
<1> USE DEF IInv
<1> DEFINE a == slot[r]
           q == waiters[a]
           w == q[n + 1].who
<1>1. a \in Accounts /\ a # NoAccount /\ ~claimed[r] /\ s \in States
  BY AccountsAssumption DEF RequestState, States
<1>2. q \in Seq(Entry) /\ Len(q) \in Nat /\ n + 1 \in 1..Len(q)
  BY <1>1, LenProperties DEF TypeOK, HandOver
<1>3. w # Orphan /\ ~claimed[w] /\ w \in Requests
  <2>1. w # Orphan /\ ~claimed[w]
    BY DEF HandOver, IsClaimed
  <2>2. q[n + 1] \in Entry
    BY <1>2, ElementOfSeq
  <2> QED BY <2>1, <2>2 DEF Entry
<1>4. pc[w] = "waiting" /\ slot[w] = NoAccount /\ w # r
  <2>1. pc[w] \in {"waiting", "leaving"}
    BY <1>1, <1>2, <1>3 DEF QueueState, QueueOK
  <2> QED BY <1>3, <2>1 DEF RequestState
<1>5. /\ waiters' = [waiters EXCEPT ![a] = SubSeq(@, (n + 1) + 1, Len(@))]
      /\ claimed' = [claimed EXCEPT ![w] = TRUE]
      /\ slot' = [slot EXCEPT ![r] = NoAccount, ![w] = a]
      /\ active' = active
  <2>1. n + 2 = (n + 1) + 1
    BY <1>2
  <2> QED BY <2>1 DEF HandOver
<1>6. /\ waiters' \in [Accounts -> Seq(Entry)] /\ QueueState'
      /\ \A b \in Accounts : \A i \in 1..Len(waiters'[b]) :
            \E k \in 1..Len(waiters[b]) : waiters'[b][i] = waiters[b][k]
  <2>1. n + 1 \in Nat /\ n + 1 <= Len(waiters[a])
    BY <1>2
  <2> HIDE DEF a
  <2> QED BY <1>1, <1>5, <2>1, PoppedQueue
<1> HIDE DEF w, q
<1>7. TypeOK'
  BY <1>1, <1>3, <1>5, <1>6 DEF TypeOK
<1>8. RequestState'
  BY <1>1, <1>3, <1>4, <1>5 DEF TypeOK, RequestState
<1>9. SlotAccounting'
  BY <1>1, <1>3, <1>4, <1>5, MoveSlotAccounting
<1>10. ReleaseAhead'
  <2> SUFFICES ASSUME NEW b \in Accounts, Unclaimed(b)' # {}
               PROVE  active[b] > 0
    BY <1>5 DEF ReleaseAhead
  <2>1. PICK i \in 1..Len(waiters'[b]) :
              waiters'[b][i].who # Orphan /\ ~claimed'[waiters'[b][i].who]
    BY DEF Unclaimed, IsClaimed
  <2>2. PICK k \in 1..Len(waiters[b]) : waiters'[b][i] = waiters[b][k]
    BY <1>6
  <2>3. waiters[b][k] \in Entry
    BY ElementOfSeq DEF TypeOK
  <2>4. waiters[b][k].who \in Requests
    BY <2>1, <2>2, <2>3 DEF Entry
  <2>5. ~claimed[waiters[b][k].who]
    BY <1>5, <2>1, <2>2, <2>4 DEF TypeOK
  <2>6. Unclaimed(b) # {}
    BY <2>1, <2>2, <2>5 DEF Unclaimed, IsClaimed
  <2> QED BY <2>6 DEF ReleaseAhead
<1> QED BY <1>6, <1>7, <1>8, <1>9, <1>10

(* The in-flight count drops.  If somebody is left in the queue, the head  *)
(* made the slot drain, so the count stays at or above a positive limit.   *)
LEMMA FreeSlotStep ==
    ASSUME IInv, NEW r \in Requests, pc[r] = "executing",
           NEW s \in {"idle", "picking"}, pc' = [pc EXCEPT ![r] = s],
           NEW n \in 0..Len(waiters[slot[r]]), FreeSlot(r, slot[r], n),
           untried' \in [Requests -> SUBSET Accounts],
           saturated' \in [Requests -> Seq(Candidate)],
           UNCHANGED <<limit, picked>>
    PROVE  IInv'
<1> USE DEF IInv
<1> DEFINE a == slot[r]
<1>1. a \in Accounts /\ a # NoAccount /\ ~claimed[r] /\ s \in States
  BY AccountsAssumption DEF RequestState, States
<1>2. waiters[a] \in Seq(Entry) /\ Len(waiters[a]) \in Nat /\ n \in Nat /\ n <= Len(waiters[a])
  BY <1>1, LenProperties DEF TypeOK
<1>3. /\ waiters' = [waiters EXCEPT ![a] = SubSeq(@, n + 1, Len(@))]
      /\ active' = [active EXCEPT ![a] = @ - 1]
      /\ slot' = [slot EXCEPT ![r] = NoAccount]
      /\ claimed' = claimed
  BY DEF FreeSlot
<1>4. SlotAccounting' /\ active[a] > 0
  BY <1>1, <1>3, DropSlotAccounting
<1>5. n < Len(waiters[a]) => active[a] > 1
  <2> SUFFICES ASSUME n < Len(waiters[a])
               PROVE  active[a] > 1
    OBVIOUS
  <2>1. n + 1 \in 1..Len(waiters[a]) /\ Drains(waiters[a][n + 1], a)
    BY <1>2 DEF FreeSlot
  <2>2. waiters[a][n + 1] \in Entry
    BY <1>2, <2>1, ElementOfSeq
  <2>3. waiters[a][n + 1].lim \in Nat
    BY <2>2, LimitsAssumption DEF Entry
  <2> QED BY <1>1, <2>1, <2>3 DEF Drains, TypeOK
<1> HIDE DEF a
<1>6. /\ waiters' \in [Accounts -> Seq(Entry)] /\ QueueState'
      /\ \A b \in Accounts : \A i \in 1..Len(waiters'[b]) :
            \E k \in 1..Len(waiters[b]) : waiters'[b][i] = waiters[b][k]
      /\ Len(waiters'[a]) = Len(waiters[a]) - n
  BY <1>1, <1>2, <1>3, PoppedQueue
<1>7. TypeOK'
  <2>1. active' \in [Accounts -> Nat]
    BY <1>1, <1>3, <1>4 DEF TypeOK
  <2>2. slot' \in [Requests -> Accounts \cup {NoAccount}] /\ pc' \in [Requests -> States]
    BY <1>1, <1>3 DEF TypeOK
  <2> QED BY <1>3, <1>6, <2>1, <2>2 DEF TypeOK
<1>8. RequestState'
  BY <1>1, <1>3 DEF TypeOK, RequestState
<1>9. ReleaseAhead'
  <2> SUFFICES ASSUME NEW b \in Accounts, Unclaimed(b)' # {}
               PROVE  active'[b] > 0
    BY DEF ReleaseAhead
  <2>1. PICK i \in 1..Len(waiters'[b]) :
              waiters'[b][i].who # Orphan /\ ~claimed[waiters'[b][i].who]
    BY <1>3 DEF Unclaimed, IsClaimed
  <2>2. CASE b = a
    <3>1. n < Len(waiters[a])
      BY <1>2, <1>6, <2>1, <2>2
    <3> QED BY <1>1, <1>3, <1>5, <2>2, <3>1 DEF TypeOK
  <2>3. CASE b # a
    <3>1. PICK k \in 1..Len(waiters[b]) : waiters'[b][i] = waiters[b][k]
      BY <1>6
    <3>2. Unclaimed(b) # {}
      BY <2>1, <3>1 DEF Unclaimed, IsClaimed
    <3> QED BY <1>3, <2>3, <3>2 DEF ReleaseAhead, TypeOK
  <2> QED BY <2>2, <2>3
<1> QED BY <1>4, <1>6, <1>7, <1>8, <1>9

LEMMA ReleaseSteps ==
    ASSUME IInv, NEW r \in Requests, Finish(r) \/ FailOver(r)
    PROVE  IInv'
<1> USE DEF IInv
<1>1. PICK s \in {"idle", "picking"} : pc' = [pc EXCEPT ![r] = s]
  BY DEF Finish, EndRequest, FailOver
<1>2. pc[r] = "executing" /\ ReleaseSlot(r) /\ UNCHANGED <<limit, picked>>
  BY DEF Finish, FailOver
<1>3. /\ untried' \in [Requests -> SUBSET Accounts]
      /\ saturated' \in [Requests -> Seq(Candidate)]
  <2>1. CASE Finish(r)
    BY <2>1, EmptySeq DEF Finish, EndRequest, TypeOK
  <2>2. CASE FailOver(r)
    BY <2>2 DEF FailOver, TypeOK
  <2> QED BY <2>1, <2>2
<1>4. PICK n \in 0..Len(waiters[slot[r]]) :
            HandOver(r, slot[r], n) \/ FreeSlot(r, slot[r], n)
  BY <1>2 DEF ReleaseSlot
<1>5. CASE HandOver(r, slot[r], n)
  BY <1>1, <1>2, <1>3, <1>5, HandOverStep
<1>6. CASE FreeSlot(r, slot[r], n)
  BY <1>1, <1>2, <1>3, <1>6, FreeSlotStep
<1> QED BY <1>4, <1>5, <1>6

LEMMA SetLimitStep ==
    ASSUME IInv, NEW a \in Accounts, SetLimit(a)
    PROVE  IInv'
<1> USE DEF IInv
<1>1. TypeOK' /\ RequestState'
  BY DEF SetLimit, TypeOK, RequestState
<1>2. QueueState' /\ SlotAccounting' /\ ReleaseAhead'
  BY DEF SetLimit, QueueState, QueueOK, SlotAccounting, Holders, ReleaseAhead,
         Unclaimed, IsClaimed
<1> QED BY <1>1, <1>2

LEMMA StutterStep ==
    ASSUME IInv, UNCHANGED vars
    PROVE  IInv'
<1> USE DEF IInv, vars
<1>1. TypeOK' /\ RequestState'
  BY DEF TypeOK, RequestState
<1>2. QueueState' /\ SlotAccounting' /\ ReleaseAhead'
  BY DEF QueueState, QueueOK, SlotAccounting, Holders, ReleaseAhead, Unclaimed, IsClaimed
<1> QED BY <1>1, <1>2

LEMMA NextIInv == IInv /\ [Next]_vars => IInv'
<1> SUFFICES ASSUME IInv, [Next]_vars PROVE IInv'
  OBVIOUS
<1>1. ASSUME NEW r \in Requests, RequestStep(r)
      PROVE  IInv'
  BY <1>1, ScopeSteps, AcquireSlotStep, AcquireFreeStep, EnqueueStep, GrantSteps,
     AbandonStep, LeaveStep, ReleaseSteps DEF RequestStep
<1>2. ASSUME NEW a \in Accounts, SetLimit(a)
      PROVE  IInv'
  BY <1>2, SetLimitStep
<1>3. CASE UNCHANGED vars
  BY <1>3, StutterStep
<1> QED BY <1>1, <1>2, <1>3 DEF Next

(* IInv holds in every reachable state.                                    *)
THEOREM InductiveInvariant == Spec => []IInv
BY InitIInv, NextIInv, PTL DEF Spec

-----------------------------------------------------------------------------
(* The properties the runs check, for every instance.                      *)

(* The types of the limiter's and the scope's state are kept by every      *)
(* operation; in particular the in-flight count of an account never goes   *)
(* below zero.                                                             *)
THEOREM TypeCorrect == Spec => []TypeOK
<1>1. IInv => TypeOK
  BY DEF IInv
<1> QED BY <1>1, InductiveInvariant, PTL

(* No interleaving of grants, time-outs and releases leaks a slot or gives *)
(* one out twice.                                                          *)
THEOREM SlotsAccounted == Spec => []SlotAccounting
<1>1. IInv => SlotAccounting
  BY DEF IInv
<1> QED BY <1>1, InductiveInvariant, PTL

(* No caller waits on an account on which nobody holds a slot.             *)
THEOREM NobodyStranded == Spec => []NoStrandedWaiter
<1>1. IInv => NoStrandedWaiter
  <2> SUFFICES ASSUME IInv, NEW a \in Accounts, Unclaimed(a) # {}, Holders(a) = {}
               PROVE  FALSE
    BY DEF NoStrandedWaiter
  <2>1. active[a] > 0
    BY DEF IInv, ReleaseAhead
  <2>2. active[a] = 0
    BY FS_EmptySet DEF IInv, SlotAccounting
  <2> QED BY <2>1, <2>2
<1> QED BY <1>1, InductiveInvariant, PTL

(* The in-flight count stays within the largest limit.                     *)
LEMMA NextCountBound == IInv /\ CountBound /\ [Next]_vars => CountBound'
<1> SUFFICES ASSUME IInv, CountBound, [Next]_vars, 0 \notin Limits, NEW a \in Accounts
             PROVE  \E l \in Limits : active'[a] <= l
  BY DEF CountBound
<1>0. PICK m \in Limits : active[a] <= m
  BY DEF CountBound
<1>1. active[a] \in Nat /\ Limits \subseteq Nat
  BY LimitsAssumption DEF IInv, TypeOK
<1>2. ASSUME NEW r \in Requests, NEW b \in Accounts, NEW l \in Limits,
             TakeSlot(r, b), HasRoom(b, l)
      PROVE  \E k \in Limits : active'[a] <= k
  <2>1. CASE b = a
    <3>1. active'[a] = active[a] + 1
      BY <1>2, <2>1 DEF TakeSlot, IInv, TypeOK
    <3>2. active[a] < l
      BY <1>2, <2>1 DEF HasRoom
    <3> QED BY <1>1, <3>1, <3>2
  <2>2. CASE b # a
    BY <1>0, <1>2, <2>2 DEF TakeSlot, IInv, TypeOK
  <2> QED BY <2>1, <2>2
<1>3. ASSUME NEW r \in Requests, AcquireSlot(r)
      PROVE  \E l \in Limits : active'[a] <= l
  <2>1. picked[r] \in Candidate
    BY <1>3 DEF AcquireSlot, IInv, RequestState
  <2>2. picked[r].acct \in Accounts /\ picked[r].lim \in Limits
    BY <2>1 DEF Candidate
  <2>3. CASE HasRoom(picked[r].acct, picked[r].lim) /\ TakeSlot(r, picked[r].acct)
    BY <1>2, <2>2, <2>3
  <2>4. CASE UNCHANGED active
    BY <1>0, <2>4
  <2> QED BY <1>3, <2>3, <2>4 DEF AcquireSlot
<1>4. ASSUME NEW r \in Requests, AcquireFree(r)
      PROVE  \E l \in Limits : active'[a] <= l
  <2>1. PICK i \in 1..Len(saturated[r]) :
              ~Full(saturated[r][i]) /\ TakeSlot(r, saturated[r][i].acct)
    BY <1>4 DEF AcquireFree
  <2>2. saturated[r][i] \in Candidate
    BY ElementOfSeq DEF IInv, TypeOK
  <2>3. saturated[r][i].acct \in Accounts /\ saturated[r][i].lim \in Limits
    BY <2>2 DEF Candidate
  <2> QED BY <1>2, <2>1, <2>3 DEF Full
<1>5. ASSUME NEW r \in Requests, Finish(r) \/ FailOver(r)
      PROVE  \E l \in Limits : active'[a] <= l
  <2>1. active' = active \/ active' = [active EXCEPT ![slot[r]] = @ - 1]
    BY <1>5 DEF Finish, FailOver, ReleaseSlot, HandOver, FreeSlot
  <2>2. active'[a] = active[a] \/ active'[a] = active[a] - 1
    BY <2>1 DEF IInv, TypeOK
  <2>3. active'[a] <= m
    BY <1>0, <1>1, <2>2
  <2> QED BY <2>3
<1>6. CASE UNCHANGED active
  BY <1>0, <1>6
<1>7. ASSUME NEW r \in Requests, RequestStep(r)
      PROVE  \E l \in Limits : active'[a] <= l
  BY <1>3, <1>4, <1>5, <1>6, <1>7
     DEF RequestStep, Begin, Pick, Moderate, PickFails, Enqueue, WaitRefused,
         ReceiveGrant, GiveUpGranted, TakeGrant, Abandon, Leave
<1> QED BY <1>6, <1>7 DEF Next, SetLimit, vars

(* With positive limits, no more requests run on an account than the       *)
(* largest limit allows.                                                   *)
THEOREM ConcurrencyBounded == Spec => []ConcurrencyBound
<1>1. Init => CountBound
  <2> SUFFICES ASSUME Init, NEW a \in Accounts
               PROVE  \E l \in Limits : active[a] <= l
    BY DEF CountBound
  <2>1. PICK l \in Limits : l \in Nat
    BY LimitsAssumption
  <2>2. active[a] <= l
    BY <2>1 DEF Init
  <2> QED BY <2>2
<1>2. IInv /\ CountBound => ConcurrencyBound
  <2> SUFFICES ASSUME IInv, CountBound, 0 \notin Limits, NEW a \in Accounts
               PROVE  \E l \in Limits : Cardinality(Running(a)) <= l
    BY DEF ConcurrencyBound
  <2>1. PICK l \in Limits : active[a] <= l
    BY DEF CountBound
  <2>2. Running(a) \subseteq Holders(a)
    BY DEF Running, Holders
  <2>3. Cardinality(Running(a)) <= Cardinality(Holders(a)) /\ Cardinality(Running(a)) \in Nat
    BY <2>2, HoldersFinite, FS_Subset, FS_CardinalityType
  <2>4. Cardinality(Holders(a)) = active[a] /\ active[a] \in Nat /\ l \in Nat
    BY LimitsAssumption DEF IInv, SlotAccounting, TypeOK
  <2> QED BY <2>1, <2>3, <2>4
<1> QED BY <1>1, <1>2, NextCountBound, InductiveInvariant, PTL DEF Spec

-----------------------------------------------------------------------------
(* One turn per account: the accounts of a request are in one place each.  *)

(* The account whose saturated entry is cut out is no longer put aside,    *)
(* and nothing else moves in.                                              *)
LEMMA ConsumeTurnScope ==
    ASSUME TypeOK, NEW r \in Requests, NEW a, ConsumeTurn(r, a),
           Distinct(saturated[r])
    PROVE  /\ Distinct(saturated'[r])
           /\ Aside(r, a)
           /\ ~Aside(r, a)'
           /\ \A b : Aside(r, b)' => Aside(r, b)
<1> PICK k \in 1..Len(saturated[r]) :
      /\ saturated[r][k].acct = a
      /\ saturated' = [saturated EXCEPT ![r] =
                            SubSeq(@, 1, k - 1) \o SubSeq(@, k + 1, Len(@))]
  BY DEF ConsumeTurn
<1> DEFINE q == saturated[r]
           p == SubSeq(q, 1, k - 1) \o SubSeq(q, k + 1, Len(q))
           old(i) == IF i < k THEN i ELSE i + 1
<1>1. q \in Seq(Candidate) /\ saturated'[r] = p
  BY DEF TypeOK
<1>2. Len(q) \in Nat
  BY <1>1, LenProperties
<1>3. Len(p) = Len(q) - 1 /\ \A i \in 1..Len(p) : p[i] = q[old(i)]
  BY <1>1, CutOne
<1> HIDE DEF p
<1>4. ASSUME NEW i \in 1..Len(p)
      PROVE  old(i) \in 1..Len(q) /\ old(i) # k
  BY <1>2, <1>3
<1>5. \A i, j \in 1..Len(p) : old(i) = old(j) => i = j
  BY <1>2, <1>3
<1> HIDE DEF old
<1>6. Distinct(p)
  BY <1>3, <1>4, <1>5 DEF Distinct
<1>7. \A i \in 1..Len(p) : p[i].acct # a
  BY <1>3, <1>4 DEF Distinct
<1> QED BY <1>1, <1>3, <1>4, <1>6, <1>7 DEF Aside

(* A request put aside its candidate: the entry is new.                    *)
LEMMA AppendScope ==
    ASSUME NEW q \in Seq(Candidate), NEW c \in Candidate, Distinct(q),
           \A i \in 1..Len(q) : q[i].acct # c.acct
    PROVE  /\ Distinct(Append(q, c))
           /\ \A i \in 1..Len(Append(q, c)) :
                 Append(q, c)[i].acct = c.acct
                 \/ \E j \in 1..Len(q) : Append(q, c)[i] = q[j]
<1>1. /\ Len(q) \in Nat
      /\ Len(Append(q, c)) = Len(q) + 1
      /\ \A i \in 1..Len(q) : Append(q, c)[i] = q[i]
      /\ Append(q, c)[Len(q) + 1] = c
  BY LenProperties, AppendProperties
<1>2. \A i \in 1..(Len(q) + 1) : i \in 1..Len(q) \/ i = Len(q) + 1
  BY <1>1
<1> QED BY <1>1, <1>2 DEF Distinct

(* A step of one request leaves the scope of every other alone; a slot     *)
(* handed over goes to a request that waits.                               *)
LEMMA OtherScopes ==
    ASSUME IInv, NEW r \in Requests, NEW q \in Requests, q # r,
           RequestStep(q), ScopeOK(r)
    PROVE  ScopeOK(r)'
<1>1. /\ saturated'[r] = saturated[r]
      /\ untried'[r] = untried[r]
      /\ picked'[r] = picked[r]
      /\ pc'[r] = pc[r]
  BY DEF IInv, TypeOK, RequestStep, Begin, EndRequest, Pick, Moderate, TakeSlot,
         AcquireSlot, PickFails, ConsumeTurn, AcquireFree, Enqueue, WaitRefused,
         TakeGrant, ReceiveGrant, GiveUpGranted, Abandon, Leave, Finish, FailOver
<1>2. pc[r] = "executing" => slot'[r] = slot[r]
  <2> SUFFICES ASSUME pc[r] = "executing" PROVE slot'[r] = slot[r]
    OBVIOUS
  <2>1. CASE ReleaseSlot(q) /\ pc[q] = "executing"
    <3>1. slot[q] \in Accounts
      BY <2>1 DEF IInv, RequestState
    <3>2. PICK n \in 0..Len(waiters[slot[q]]) :
              HandOver(q, slot[q], n) \/ FreeSlot(q, slot[q], n)
      BY <2>1 DEF ReleaseSlot
    <3>3. CASE FreeSlot(q, slot[q], n)
      BY <3>3 DEF FreeSlot, IInv, TypeOK
    <3>4. CASE HandOver(q, slot[q], n)
      <4> DEFINE e == waiters[slot[q]][n + 1]
      <4>1. n < Len(waiters[slot[q]]) /\ e.who # Orphan
        BY <3>4 DEF HandOver, IsClaimed
      <4>2. waiters[slot[q]] \in Seq(Entry)
        BY <3>1 DEF IInv, TypeOK
      <4>3. n + 1 \in 1..Len(waiters[slot[q]])
        BY <4>1, <4>2, LenProperties
      <4>4. pc[e.who] \in {"waiting", "leaving"}
        BY <3>1, <4>1, <4>3 DEF IInv, QueueState, QueueOK
      <4>5. e.who # r
        BY <4>4
      <4>6. slot' = [slot EXCEPT ![q] = NoAccount, ![e.who] = slot[q]]
        BY <3>4 DEF HandOver
      <4> QED BY <4>5, <4>6 DEF IInv, TypeOK
    <3> QED BY <3>2, <3>3, <3>4
  <2>2. CASE UNCHANGED slot
    BY <2>2
  <2>3. CASE \E a : TakeSlot(q, a)
    BY <2>3 DEF TakeSlot, IInv, TypeOK
  <2> QED
    BY <2>1, <2>2, <2>3
       DEF RequestStep, Begin, Pick, Moderate, AcquireSlot, PickFails, AcquireFree,
           Enqueue, WaitRefused, TakeGrant, ReceiveGrant, GiveUpGranted, Abandon,
           Leave, Finish, FailOver
<1> QED BY <1>1, <1>2 DEF ScopeOK, Aside, Distinct

(* A step of the request itself.                                           *)
LEMMA OwnScope ==
    ASSUME IInv, NEW r \in Requests, RequestStep(r), ScopeOK(r)
    PROVE  ScopeOK(r)'
<1> USE DEF IInv
<1>1. CASE Begin(r)
  BY <1>1 DEF Begin, ScopeOK, Aside, Distinct, TypeOK
<1>2. CASE Pick(r)
  <2>1. PICK a \in FilterAvailableCandidates(untried[r]) :
          /\ picked' = [picked EXCEPT ![r] = [acct |-> a, lim |-> limit[a]]]
          /\ untried' = [untried EXCEPT ![r] = @ \ {a}]
    BY <1>2 DEF Pick
  <2>2. a \in untried[r]
    BY DEF FilterAvailableCandidates
  <2>3. picked'[r].acct = a /\ untried'[r] = untried[r] \ {a}
    BY <2>1 DEF TypeOK
  <2>4. saturated' = saturated /\ pc'[r] = "picked"
    BY <1>2 DEF Pick, TypeOK
  <2> QED BY <2>2, <2>3, <2>4 DEF ScopeOK, Aside, Distinct
<1>3. CASE EndRequest(r)
  <2>1. saturated'[r] = << >> /\ pc'[r] = "idle"
    BY <1>3 DEF EndRequest, TypeOK
  <2> QED BY <2>1 DEF ScopeOK, Aside, Distinct
<1>4. CASE AcquireSlot(r)
  <2>1. picked[r] \in Candidate /\ saturated[r] \in Seq(Candidate) /\ untried'[r] = untried[r]
    BY <1>4 DEF AcquireSlot, RequestState, TypeOK
  <2>2. Distinct(saturated[r]) /\ picked[r].acct \notin untried[r] /\ ~Aside(r, picked[r].acct)
    BY <1>4 DEF AcquireSlot, ScopeOK
  <2>3. CASE TakeSlot(r, picked[r].acct) /\ UNCHANGED saturated
    <3>1. pc'[r] = "executing" /\ slot'[r] = picked[r].acct
      BY <2>3 DEF TakeSlot, TypeOK
    <3> QED BY <2>1, <2>2, <2>3, <3>1 DEF ScopeOK, Aside, Distinct
  <2>4. CASE /\ saturated' = [saturated EXCEPT ![r] = Append(@, picked[r])]
             /\ pc' = [pc EXCEPT ![r] = "picking"]
    <3>1. saturated'[r] = Append(saturated[r], picked[r]) /\ pc'[r] = "picking"
      BY <2>4 DEF TypeOK
    <3>2. \A i \in 1..Len(saturated[r]) : saturated[r][i].acct # picked[r].acct
      BY <2>2 DEF Aside
    <3>3. Distinct(saturated'[r])
      BY <2>1, <2>2, <3>1, <3>2, AppendScope
    <3>4. \A b : Aside(r, b)' => b = picked[r].acct \/ Aside(r, b)
      BY <2>1, <2>2, <3>1, <3>2, AppendScope DEF Aside
    <3> QED BY <2>1, <2>2, <3>1, <3>3, <3>4 DEF ScopeOK
  <2> QED BY <1>4, <2>3, <2>4 DEF AcquireSlot
<1>5. CASE PickFails(r) /\ UNCHANGED <<untried, saturated>>
  BY <1>5, <1>3 DEF PickFails, ScopeOK, Aside, Distinct, TypeOK
<1>6. ASSUME NEW a, ConsumeTurn(r, a), pc'[r] = "executing", slot'[r] = a,
             untried' = untried
      PROVE  ScopeOK(r)'
  BY <1>6, ConsumeTurnScope DEF ScopeOK
<1>7. CASE AcquireFree(r)
  <2>1. PICK i \in 1..Len(saturated[r]) :
              /\ TakeSlot(r, saturated[r][i].acct)
              /\ ConsumeTurn(r, saturated[r][i].acct)
    BY <1>7 DEF AcquireFree
  <2>2. /\ pc'[r] = "executing" /\ slot'[r] = saturated[r][i].acct
        /\ untried' = untried
    BY <1>7, <2>1 DEF AcquireFree, TakeSlot, TypeOK
  <2> QED BY <1>6, <2>1, <2>2
<1>8. CASE TakeGrant(r)
  <2>1. /\ ConsumeTurn(r, slot[r]) /\ pc'[r] = "executing" /\ slot'[r] = slot[r]
        /\ untried' = untried
    BY <1>8 DEF TakeGrant, TypeOK
  <2> QED BY <1>6, <2>1
<1>9. CASE /\ UNCHANGED <<untried, saturated>>
           /\ pc'[r] \notin {"idle", "picked", "executing"}
  BY <1>9 DEF ScopeOK, Aside, Distinct
<1>10. CASE Enqueue(r) \/ Abandon(r) \/ FailOver(r)
  BY <1>9, <1>10 DEF Enqueue, Abandon, FailOver, TypeOK
<1>11. CASE PickFails(r)
  BY <1>3, <1>5, <1>11 DEF PickFails
<1> QED
  BY <1>1, <1>2, <1>3, <1>4, <1>7, <1>8, <1>10, <1>11
     DEF RequestStep, Moderate, WaitRefused, ReceiveGrant, GiveUpGranted, Leave, Finish

LEMMA NextScope == IInv /\ ScopeState /\ [Next]_vars => ScopeState'
<1> SUFFICES ASSUME IInv, ScopeState, [Next]_vars, NEW r \in Requests
             PROVE  ScopeOK(r)'
  BY DEF ScopeState
<1>1. ScopeOK(r)
  BY DEF ScopeState
<1>2. CASE \E q \in Requests : RequestStep(q)
  BY <1>1, <1>2, OtherScopes, OwnScope
<1>3. CASE UNCHANGED <<slot, pc, untried, picked, saturated>>
  BY <1>1, <1>3 DEF ScopeOK, Aside, Distinct
<1> QED BY <1>2, <1>3 DEF Next, SetLimit, vars

(* While a request runs on an account, the account is neither left to pick *)
(* nor left to queue on: no account has a second turn.                     *)
THEOREM OneTurn == Spec => []OneTurnPerAccount
<1>1. Init => ScopeState
  BY DEF Init, ScopeState, ScopeOK, Aside, Distinct
<1>2. ScopeState => OneTurnPerAccount
  BY DEF ScopeState, ScopeOK, Aside, OneTurnPerAccount
<1> QED BY <1>1, <1>2, NextScope, InductiveInvariant, PTL DEF Spec

-----------------------------------------------------------------------------
(* First come, first served.                                               *)

(* Entries that were in the queue before and waiters that are claimed for  *)
(* good leave no unserved caller where there was none.                     *)
LEMMA UnclaimedBefore ==
    ASSUME TypeOK, NEW a \in Accounts,
           \A i \in 1..Len(waiters'[a]) :
              \E k \in 1..Len(waiters[a]) : waiters'[a][i] = waiters[a][k],
           \A r \in Requests : claimed[r] => claimed'[r],
           Unclaimed(a)' # {}
    PROVE  Unclaimed(a) # {}
<1>1. PICK i \in 1..Len(waiters'[a]) :
            waiters'[a][i].who # Orphan /\ ~claimed'[waiters'[a][i].who]
  BY DEF Unclaimed, IsClaimed
<1>2. PICK k \in 1..Len(waiters[a]) : waiters'[a][i] = waiters[a][k]
  OBVIOUS
<1>3. waiters[a][k].who \in Requests
  BY <1>1, <1>2, EntryOwner DEF TypeOK
<1> QED BY <1>1, <1>2, <1>3 DEF Unclaimed, IsClaimed

(* A full account that loses no slot stays full.                           *)
LEMMA StaysFull ==
    ASSUME TypeOK, FullWhileQueued, NEW a \in Accounts,
           Unclaimed(a)' # {} => Unclaimed(a) # {},
           active'[a] = active[a] \/ active'[a] = active[a] + 1
    PROVE  Unclaimed(a)' # {} => \A l \in Limits : ~HasRoom(a, l)'
<1> SUFFICES ASSUME Unclaimed(a)' # {}, NEW l \in Limits
             PROVE  ~HasRoom(a, l)'
  OBVIOUS
<1>1. ~HasRoom(a, l) /\ active[a] \in Nat /\ l \in Nat
  BY LimitsAssumption DEF FullWhileQueued, TypeOK
<1> QED BY <1>1 DEF HasRoom

(* A release pops claimed waiters and either serves the next one or lowers *)
(* the count.  It lowers the count with a caller left in the queue only    *)
(* above the limit, and then the account is still full.                    *)
LEMMA ReleaseKeepsFull ==
    ASSUME \A k, l \in Limits : k = l, IInv, FullWhileQueued,
           NEW r \in Requests, pc[r] = "executing",
           NEW s \in States, pc' = [pc EXCEPT ![r] = s], ReleaseSlot(r)
    PROVE  FullWhileQueued'
<1> USE DEF IInv
<1>1. PICK a \in Accounts : a = slot[r]
  BY DEF RequestState
<1>2. waiters[a] \in Seq(Entry) /\ Len(waiters[a]) \in Nat
  BY <1>1, LenProperties DEF TypeOK
<1>3. PICK n \in 0..Len(waiters[a]) : HandOver(r, a, n) \/ FreeSlot(r, a, n)
  BY <1>1 DEF ReleaseSlot
<1> SUFFICES ASSUME NEW b \in Accounts
             PROVE  Unclaimed(b)' # {} => \A l \in Limits : ~HasRoom(b, l)'
  BY DEF FullWhileQueued
<1>4. CASE HandOver(r, a, n)
  <2>1. /\ n + 1 \in Nat /\ n + 1 <= Len(waiters[a])
        /\ waiters' = [waiters EXCEPT ![a] = SubSeq(@, (n + 1) + 1, Len(@))]
    <3>1. n + 2 = (n + 1) + 1 /\ n + 1 \in Nat /\ n + 1 <= Len(waiters[a])
      BY <1>2, <1>4 DEF HandOver
    <3> QED BY <1>4, <3>1 DEF HandOver
  <2>2. \A i \in 1..Len(waiters'[b]) :
           \E k \in 1..Len(waiters[b]) : waiters'[b][i] = waiters[b][k]
    BY <1>1, <2>1, PoppedQueue
  <2>3. \A q \in Requests : claimed[q] => claimed'[q]
    BY <1>4 DEF HandOver, TypeOK
  <2>4. active' = active
    BY <1>4 DEF HandOver
  <2> QED BY <2>2, <2>3, <2>4, UnclaimedBefore, StaysFull
<1>5. CASE FreeSlot(r, a, n)
  <2>1. /\ n \in Nat /\ n <= Len(waiters[a])
        /\ waiters' = [waiters EXCEPT ![a] = SubSeq(@, n + 1, Len(@))]
        /\ active' = [active EXCEPT ![a] = @ - 1]
        /\ claimed' = claimed
    BY <1>2, <1>5 DEF FreeSlot
  <2>2. /\ \A i \in 1..Len(waiters'[b]) :
              \E k \in 1..Len(waiters[b]) : waiters'[b][i] = waiters[b][k]
        /\ Len(waiters'[a]) = Len(waiters[a]) - n
    BY <1>1, <2>1, PoppedQueue
  <2>3. CASE b # a
    <3>1. active'[b] = active[b]
      BY <2>1, <2>3 DEF TypeOK
    <3> QED BY <2>1, <2>2, <3>1, UnclaimedBefore, StaysFull
  <2>4. CASE b = a
    <3> SUFFICES ASSUME Unclaimed(a)' # {}, NEW l \in Limits
                 PROVE  ~HasRoom(a, l)'
      BY <2>4
    <3>1. n + 1 \in 1..Len(waiters[a])
      <4>1. PICK i : i \in 1..Len(waiters'[a])
        BY DEF Unclaimed
      <4> QED BY <1>2, <2>1, <2>2, <4>1
    <3>2. Drains(waiters[a][n + 1], a)
      BY <1>2, <1>5, <3>1 DEF FreeSlot
    <3>3. waiters[a][n + 1].lim = l /\ l \in Nat
      <4>1. waiters[a][n + 1] \in Entry
        BY <1>2, <3>1, ElementOfSeq
      <4>2. waiters[a][n + 1].lim \in Limits
        BY <4>1 DEF Entry
      <4> QED BY <4>2, LimitsAssumption
    <3>4. l > 0 /\ active[a] > l /\ active[a] \in Nat /\ active'[a] = active[a] - 1
      BY <1>1, <2>1, <3>2, <3>3 DEF Drains, TypeOK
    <3> QED BY <3>3, <3>4 DEF HasRoom
  <2> QED BY <2>3, <2>4
<1> QED BY <1>3, <1>4, <1>5

(* A caller joins the queue of an account only when it found it full.      *)
LEMMA EnqueueKeepsFull ==
    ASSUME \A k, l \in Limits : k = l, IInv, FullWhileQueued,
           NEW r \in Requests, Enqueue(r)
    PROVE  FullWhileQueued'
<1> SUFFICES ASSUME NEW a \in Accounts
             PROVE  Unclaimed(a)' # {} => \A l \in Limits : ~HasRoom(a, l)'
  BY DEF FullWhileQueued
<1>1. active' = active /\ claimed' = claimed
  BY DEF Enqueue
<1>2. CASE EntriesFor(r, a) = {}
  <2>1. waiters'[a] = waiters[a]
    BY <1>2 DEF Enqueue, EnqueuedOn
  <2>2. Unclaimed(a)' = Unclaimed(a)
    BY <1>1, <2>1 DEF Unclaimed, IsClaimed
  <2> QED BY <1>1, <2>2, StaysFull DEF IInv
<1>3. CASE EntriesFor(r, a) # {}
  <2>1. PICK i \in 1..Len(saturated[r]) : saturated[r][i].acct = a
    BY <1>3 DEF EntriesFor
  <2>2. saturated[r][i] \in Candidate
    BY ElementOfSeq DEF IInv, TypeOK
  <2>3. saturated[r][i].lim \in Limits
    BY <2>2 DEF Candidate
  <2>4. ~HasRoom(a, saturated[r][i].lim)
    BY <2>1 DEF Enqueue, Full
  <2>5. \A l \in Limits : l = saturated[r][i].lim
    BY <2>3
  <2>6. \A l \in Limits : ~HasRoom(a, l)
    BY <2>4, <2>5
  <2> QED BY <1>1, <2>6 DEF HasRoom
<1> QED BY <1>2, <1>3

LEMMA NextFull ==
    ASSUME \A k, l \in Limits : k = l, IInv, FullWhileQueued, [Next]_vars
    PROVE  FullWhileQueued'
<1> USE DEF IInv
<1>1. ASSUME UNCHANGED <<waiters, claimed>>,
             \/ UNCHANGED active
             \/ \E b \in Accounts : active' = [active EXCEPT ![b] = @ + 1]
      PROVE  FullWhileQueued'
  <2> SUFFICES ASSUME NEW a \in Accounts
               PROVE  Unclaimed(a)' # {} => \A l \in Limits : ~HasRoom(a, l)'
    BY DEF FullWhileQueued
  <2>1. Unclaimed(a)' = Unclaimed(a)
    BY <1>1 DEF Unclaimed, IsClaimed
  <2>2. active'[a] = active[a] \/ active'[a] = active[a] + 1
    BY <1>1 DEF TypeOK
  <2> QED BY <2>1, <2>2, StaysFull
<1>2. ASSUME UNCHANGED active,
             \A a \in Accounts : Unclaimed(a)' # {} => Unclaimed(a) # {}
      PROVE  FullWhileQueued'
  BY <1>2, StaysFull DEF FullWhileQueued
<1>3. ASSUME NEW r \in Requests, AcquireSlot(r)
      PROVE  FullWhileQueued'
  <2>1. picked[r].acct \in Accounts
    BY <1>3 DEF AcquireSlot, RequestState, Candidate
  <2> QED BY <1>1, <1>3, <2>1 DEF AcquireSlot, TakeSlot
<1>4. ASSUME NEW r \in Requests, AcquireFree(r)
      PROVE  FullWhileQueued'
  <2>1. PICK i \in 1..Len(saturated[r]) :
              /\ TakeSlot(r, saturated[r][i].acct)
              /\ ConsumeTurn(r, saturated[r][i].acct)
    BY <1>4 DEF AcquireFree
  <2>2. saturated[r][i].acct \in Accounts
    BY <2>1, ConsumeTurnType
  <2> QED BY <1>1, <1>4, <2>1, <2>2 DEF AcquireFree, TakeSlot
<1>5. ASSUME NEW r \in Requests, ReceiveGrant(r) \/ GiveUpGranted(r) \/ Leave(r)
      PROVE  FullWhileQueued'
  <2>1. PICK s \in States : pc' = [pc EXCEPT ![r] = s]
    BY <1>5 DEF ReceiveGrant, GiveUpGranted, TakeGrant, Leave, EndRequest, States
  <2>2. /\ waiters' = Dequeued(r) \/ waiters' = Orphaned(r)
        /\ claimed' = [claimed EXCEPT ![r] = FALSE]
        /\ UNCHANGED active
    BY <1>5 DEF ReceiveGrant, GiveUpGranted, TakeGrant, Leave
  <2>3. \A a \in Accounts : Unclaimed(a)' # {} => Unclaimed(a) # {}
    BY <2>1, <2>2, DequeuedFacts, OrphanedFacts
  <2> QED BY <1>2, <2>2, <2>3
<1>6. ASSUME NEW r \in Requests, Abandon(r)
      PROVE  FullWhileQueued'
  <2>1. UNCHANGED <<active, waiters>> /\ \A q \in Requests : claimed[q] => claimed'[q]
    BY <1>6 DEF Abandon, TypeOK
  <2> QED BY <1>2, <2>1, UnclaimedBefore
<1>7. ASSUME NEW r \in Requests, Finish(r) \/ FailOver(r)
      PROVE  FullWhileQueued'
  <2>1. PICK s \in States : pc' = [pc EXCEPT ![r] = s]
    BY <1>7 DEF Finish, FailOver, EndRequest, States
  <2>2. pc[r] = "executing" /\ ReleaseSlot(r)
    BY <1>7 DEF Finish, FailOver
  <2> QED BY <2>1, <2>2, ReleaseKeepsFull
<1>8. ASSUME NEW r \in Requests, RequestStep(r)
      PROVE  FullWhileQueued'
  BY <1>1, <1>3, <1>4, <1>5, <1>6, <1>7, <1>8, EnqueueKeepsFull
     DEF RequestStep, Begin, Pick, Moderate, PickFails, WaitRefused
<1> QED BY <1>1, <1>8 DEF Next, SetLimit, vars

(* Who obtains a slot in a step, and past whom.                            *)
LEMMA SlotsInTurn ==
    ASSUME IInv, FullWhileQueued, [Next]_vars, NEW r \in Requests,
           NEW a \in Accounts, slot[r] # a, slot'[r] = a
    PROVE  ~Overtaken(a, r)
<1> USE DEF IInv
<1>1. ASSUME NEW q \in Requests, NEW b \in Accounts, NEW l \in Limits,
             HasRoom(b, l), TakeSlot(q, b)
      PROVE  ~Overtaken(a, r)
  <2>1. b = a
    BY <1>1 DEF TakeSlot, TypeOK
  <2>2. Unclaimed(a) = {}
    BY <1>1, <2>1 DEF FullWhileQueued
  <2> QED BY <2>2 DEF Overtaken
<1>2. ASSUME NEW q \in Requests, AcquireSlot(q)
      PROVE  ~Overtaken(a, r)
  <2>1. picked[q].acct \in Accounts /\ picked[q].lim \in Limits
    BY <1>2 DEF AcquireSlot, RequestState, Candidate
  <2> QED BY <1>1, <1>2, <2>1 DEF AcquireSlot
<1>3. ASSUME NEW q \in Requests, AcquireFree(q)
      PROVE  ~Overtaken(a, r)
  <2>1. PICK i \in 1..Len(saturated[q]) :
              ~Full(saturated[q][i]) /\ TakeSlot(q, saturated[q][i].acct)
    BY <1>3 DEF AcquireFree
  <2>2. saturated[q][i] \in Candidate
    BY ElementOfSeq DEF TypeOK
  <2>3. saturated[q][i].acct \in Accounts /\ saturated[q][i].lim \in Limits
    BY <2>2 DEF Candidate
  <2> QED BY <1>1, <2>1, <2>3 DEF Full
<1>4. ASSUME NEW q \in Requests, pc[q] = "executing", ReleaseSlot(q)
      PROVE  ~Overtaken(a, r)
  <2>1. slot[q] \in Accounts /\ a # NoAccount
    BY <1>4, AccountsAssumption DEF RequestState
  <2>2. PICK n \in 0..Len(waiters[slot[q]]) :
              /\ Skipped(slot[q], n)
              /\ HandOver(q, slot[q], n) \/ FreeSlot(q, slot[q], n)
    BY <1>4 DEF ReleaseSlot
  <2>3. HandOver(q, slot[q], n)
    <3>1. CASE FreeSlot(q, slot[q], n)
      BY <2>1, <3>1 DEF FreeSlot, TypeOK
    <3> QED BY <2>2, <3>1
  <2> DEFINE e == waiters[slot[q]][n + 1]
  <2>4. slot' = [slot EXCEPT ![q] = NoAccount, ![e.who] = slot[q]]
    BY <2>3 DEF HandOver
  <2>5. r = e.who /\ slot[q] = a
    BY <2>1, <2>4 DEF TypeOK
  <2>6. Len(waiters[a]) \in Nat /\ n \in Nat
    BY <2>2, <2>5, LenProperties DEF TypeOK
  <2> SUFFICES ASSUME NEW i \in Unclaimed(a), \A j \in 1..i : waiters[a][j].who # r
               PROVE  FALSE
    BY DEF Overtaken
  <2>7. i \in 1..Len(waiters[a]) /\ ~IsClaimed(waiters[a][i])
    BY DEF Unclaimed
  <2>8. i \in 1..n
    BY <2>5, <2>6, <2>7
  <2> QED BY <2>2, <2>5, <2>7, <2>8 DEF Skipped
<1>5. slot' # slot
  OBVIOUS
<1>6. ASSUME NEW q \in Requests, RequestStep(q)
      PROVE  ~Overtaken(a, r)
  BY <1>2, <1>3, <1>4, <1>5, <1>6
     DEF RequestStep, Begin, Pick, Moderate, PickFails, Enqueue, WaitRefused,
         ReceiveGrant, GiveUpGranted, TakeGrant, Abandon, Leave, Finish, FailOver
<1> QED BY <1>5, <1>6 DEF Next, SetLimit, vars

(* With a limit that is not changed, whatever it is, no request obtains a  *)
(* slot of an account past a caller that queued there before it: a release *)
(* serves the first waiter that is not claimed, and a free slot cannot     *)
(* exist beside one.                                                       *)
THEOREM FirstComeFirstServed ==
    ASSUME \A k, l \in Limits : k = l
    PROVE  Spec => NoOvertaking
<1>1. Init => FullWhileQueued
  <2> SUFFICES ASSUME Init, NEW a \in Accounts
               PROVE  Unclaimed(a) = {}
    BY DEF FullWhileQueued
  <2>1. Len(waiters[a]) = 0
    BY EmptySeq DEF Init
  <2> QED BY <2>1 DEF Unclaimed
<1>2. IInv /\ FullWhileQueued /\ [Next]_vars => FullWhileQueued'
  BY NextFull
<1>3. IInv /\ FullWhileQueued /\ [Next]_vars
        => [\A r \in Requests : \A a \in Accounts :
               (slot[r] # a /\ slot'[r] = a) => ~Overtaken(a, r)]_vars
  BY SlotsInTurn
<1> QED BY <1>1, <1>2, <1>3, InductiveInvariant, PTL DEF Spec, NoOvertaking

-----------------------------------------------------------------------------
(* The refinement of SlotService.                                          *)

(* A slot taken by tryAcquireLocked is an abstract acquisition.            *)
LEMMA TakeSlotAcquires ==
    ASSUME IInv, NEW r \in Requests, NEW a \in Accounts, NEW l \in Limits,
           slot[r] = NoAccount, HasRoom(a, l), TakeSlot(r, a)
    PROVE  Service!Next
<1>1. Service!Owners(a) = Holders(a)
  BY DEF Service!Owners, Holders
<1>2. active[a] = Cardinality(Holders(a))
  BY DEF IInv, SlotAccounting
<1>3. 0 \in Limits \/ \E k \in Limits : Cardinality(Service!Owners(a)) < k
  BY <1>1, <1>2 DEF HasRoom
<1>4. Service!Cardinality(Service!Owners(a)) = Cardinality(Service!Owners(a))
  BY Zenon DEF Cardinality, Service!Cardinality
<1>5. Service!Acquire(r, a)
  BY <1>3, <1>4 DEF Service!Acquire, TakeSlot
<1> QED BY <1>5 DEF Service!Next

(* A release is an abstract release or, when it hands the slot over, an    *)
(* abstract transfer.                                                      *)
LEMMA ReleaseImplements ==
    ASSUME IInv, NEW r \in Requests, pc[r] = "executing", ReleaseSlot(r)
    PROVE  Service!Next
<1>1. slot[r] \in Accounts /\ slot[r] # NoAccount
  BY AccountsAssumption DEF IInv, RequestState
<1>2. PICK n \in 0..Len(waiters[slot[r]]) :
          Skipped(slot[r], n) /\ (HandOver(r, slot[r], n) \/ FreeSlot(r, slot[r], n))
  BY DEF ReleaseSlot
<1>3. CASE FreeSlot(r, slot[r], n)
  <2>1. Service!Release(r)
    BY <1>1, <1>3 DEF FreeSlot, Service!Release
  <2> QED BY <2>1 DEF Service!Next
<1>4. CASE HandOver(r, slot[r], n)
  <2> DEFINE e == waiters[slot[r]][n + 1]
  <2>1. n < Len(waiters[slot[r]]) /\ ~IsClaimed(e)
    BY <1>4 DEF HandOver
  <2>2. waiters[slot[r]] \in Seq(Entry)
    BY <1>1 DEF IInv, TypeOK
  <2>3. n + 1 \in 1..Len(waiters[slot[r]])
    BY <2>1, <2>2, LenProperties
  <2>4. e \in Entry /\ e.who # Orphan /\ ~claimed[e.who]
    BY <2>1, <2>2, <2>3, ElementOfSeq DEF IsClaimed
  <2>5. e.who \in Requests
    BY <2>4 DEF Entry
  <2>6. pc[e.who] \in {"waiting", "leaving"}
    BY <1>1, <2>3, <2>4 DEF IInv, QueueState, QueueOK
  <2>7. slot[e.who] = NoAccount
    BY <2>4, <2>5, <2>6 DEF IInv, RequestState
  <2>8. slot' = [slot EXCEPT ![r] = NoAccount, ![e.who] = slot[r]]
    BY <1>4 DEF HandOver
  <2>9. Service!Transfer(r, e.who)
    BY <1>1, <2>7, <2>8 DEF Service!Transfer
  <2> QED BY <2>5, <2>9 DEF Service!Next
<1> QED BY <1>2, <1>3, <1>4

LEMMA StepImplements == IInv /\ [Next]_vars => [Service!Next]_slot
<1> SUFFICES ASSUME IInv, [Next]_vars
             PROVE  Service!Next \/ UNCHANGED slot
  OBVIOUS
<1>1. CASE UNCHANGED slot
  BY <1>1
<1>2. ASSUME NEW r \in Requests, AcquireSlot(r)
      PROVE  Service!Next \/ UNCHANGED slot
  <2>1. picked[r] \in Candidate /\ slot[r] = NoAccount
    BY <1>2 DEF IInv, RequestState, AcquireSlot
  <2>2. picked[r].acct \in Accounts /\ picked[r].lim \in Limits
    BY <2>1 DEF Candidate
  <2> QED BY <1>2, <2>1, <2>2, TakeSlotAcquires DEF AcquireSlot
<1>3. ASSUME NEW r \in Requests, AcquireFree(r)
      PROVE  Service!Next \/ UNCHANGED slot
  <2>1. PICK i \in 1..Len(saturated[r]) :
              ~Full(saturated[r][i]) /\ TakeSlot(r, saturated[r][i].acct)
    BY <1>3 DEF AcquireFree
  <2>2. saturated[r][i] \in Candidate
    BY ElementOfSeq DEF IInv, TypeOK
  <2>3. saturated[r][i].acct \in Accounts /\ saturated[r][i].lim \in Limits
    BY <2>2 DEF Candidate
  <2>4. slot[r] = NoAccount
    BY <1>3 DEF IInv, RequestState, AcquireFree
  <2> QED BY <2>1, <2>3, <2>4, TakeSlotAcquires DEF Full
<1>4. ASSUME NEW r \in Requests, Finish(r) \/ FailOver(r)
      PROVE  Service!Next \/ UNCHANGED slot
  BY <1>4, ReleaseImplements DEF Finish, FailOver
<1>5. ASSUME NEW r \in Requests, RequestStep(r)
      PROVE  Service!Next \/ UNCHANGED slot
  BY <1>2, <1>3, <1>4, <1>5
     DEF RequestStep, Begin, Pick, Moderate, PickFails, Enqueue, WaitRefused,
         ReceiveGrant, GiveUpGranted, TakeGrant, Abandon, Leave
<1> QED BY <1>1, <1>5 DEF Next, SetLimit, vars

(* The limiter implements the pool of slots, for every number of requests  *)
(* and accounts, every set of limits and every queue depth.                *)
THEOREM Refinement == Spec => ImplementsSlotService
<1>1. Init => Service!Init
  BY DEF Init, Service!Init
<1> QED
  BY <1>1, StepImplements, InductiveInvariant, PTL
     DEF Spec, ImplementsSlotService, Service!Spec
=============================================================================
