----------------------------- MODULE AccountSlots -----------------------------
(***************************************************************************)
(* The per-account concurrency limiter of one process                      *)
(* (sdk/cliproxy/auth/account_concurrency.go and _queue.go), driven by the *)
(* candidate loop of the execution service                                 *)
(* (sdk/cliproxy/auth/conductor_execution_service.go).                     *)
(*                                                                         *)
(* Every request goroutine is an element of Requests.  It picks accounts   *)
(* one at a time, tries each without waiting, queues on all the saturated  *)
(* ones at once when no idle account is left, executes upstream while it   *)
(* owns a slot, and fails over to the next candidate when the upstream     *)
(* refuses.  A release hands its slot to the longest-waiting caller.       *)
(*                                                                         *)
(* Granularity: one step per hold of the limiter's mutex, plus the two     *)
(* lock-free compare-and-swaps on slotWaiter.claimed.                      *)
(***************************************************************************)
EXTENDS Integers, Sequences, FiniteSets

CONSTANTS
    Requests,   \* request goroutines; each serves one request after another
    Accounts,   \* auth IDs
    Limits,     \* the concurrency limits an operator configures, 0 = unlimited
    QueueDepth, \* maxQueueDepth, 0 = unlimited
    NoAccount,  \* "no slot owned"
    Orphan      \* owner of a queue entry whose waiter object was abandoned

ASSUME RequestsAssumption == IsFiniteSet(Requests) /\ Orphan \notin Requests
ASSUME AccountsAssumption == NoAccount \notin Accounts
ASSUME LimitsAssumption == Limits # {} /\ Limits \subseteq Nat
ASSUME QueueDepthAssumption == QueueDepth \in Nat

VARIABLES
    limit,      \* ConcurrencyLimit() of the credential in Manager.auths
    active,     \* AccountConcurrencyLimiter.active
    waiters,    \* AccountConcurrencyLimiter.waiters, the FIFO queues
    claimed,    \* slotWaiter.claimed of the request's current waiter
    slot,       \* the account whose slot the request owns; for a queued
                \* request this is the content of slotWaiter.granted
    pc,         \* where the request is in nextReadyCandidate / Execute
    untried,    \* accounts pickNextMixed may still return for the request
    picked,     \* the candidate (cloned credential) being tried
    saturated   \* scope.saturated, in the order the accounts were skipped

vars == <<limit, active, waiters, claimed, slot, pc, untried, picked, saturated>>

-----------------------------------------------------------------------------
(* A candidate carries a clone of the credential, so its limit is the one  *)
(* configured when it was picked.  A queue entry carries the same clone.   *)
Candidate == [acct : Accounts, lim : Limits]
Entry     == [who : Requests \cup {Orphan}, lim : Limits]
NoCandidate == [acct |-> NoAccount, lim |-> 0]

States == {"idle", "picking", "picked", "queueing", "waiting", "leaving",
           "executing"}

Init ==
    /\ limit \in [Accounts -> Limits]
    /\ active = [a \in Accounts |-> 0]
    /\ waiters = [a \in Accounts |-> <<>>]
    /\ claimed = [r \in Requests |-> FALSE]
    /\ slot = [r \in Requests |-> NoAccount]
    /\ pc = [r \in Requests |-> "idle"]
    /\ untried = [r \in Requests |-> {}]
    /\ picked = [r \in Requests |-> NoCandidate]
    /\ saturated = [r \in Requests |-> <<>>]

(* tryAcquireLocked's test, also FilterAvailableCandidates' and            *)
(* HasAvailableSlot's: a limit of 0 means unlimited.                       *)
Bug_HasRoom(a, lim) == lim = 0 \/ active[a] <= lim  \* off by one

HasRoom(a, lim) == lim = 0 \/ active[a] < lim

FilterAvailableCandidates(S) ==
    LET available == {a \in S : HasRoom(a, limit[a])}
    IN  IF Cardinality(S) <= 1 \/ available = {} THEN S ELSE available

-----------------------------------------------------------------------------
(* Queue operations.  A waiter is appended to a queue at most once, so the *)
(* first match dequeue looks for is the only one.                          *)

HasEntry(q, r) == \E i \in 1..Len(q) : q[i].who = r

EntryIndex(q, r) == CHOOSE i \in 1..Len(q) : q[i].who = r

RemoveEntry(q, r) ==
    IF HasEntry(q, r)
    THEN SubSeq(q, 1, EntryIndex(q, r) - 1)
           \o SubSeq(q, EntryIndex(q, r) + 1, Len(q))
    ELSE q

(* dequeue: drop the request's waiter from every queue it joined.          *)
Dequeued(r) == [a \in Accounts |-> RemoveEntry(waiters[a], r)]

(* What giveUp leaves behind when the grant won the race: the waiter stays *)
(* in the queues of the accounts that did not serve it, claimed for good   *)
(* and owned by nobody.                                                    *)
OrphanEntry(e, r) == IF e.who = r THEN [e EXCEPT !.who = Orphan] ELSE e

Orphaned(r) ==
    [a \in Accounts |->
        [i \in 1..Len(waiters[a]) |-> OrphanEntry(waiters[a][i], r)]]

(* slotWaiter.claimed; the waiter of an orphaned entry was granted a slot. *)
IsClaimed(e) == e.who # Orphan => claimed[e.who]

(* limitFor in ReleaseSlot: more is in flight than the entry's limit       *)
(* allows, so the slot must drain instead of being handed over.            *)
Drains(e, a) == e.lim > 0 /\ active[a] > e.lim

(* The release loop has popped the first n entries of the queue: their     *)
(* waiters were already claimed, so tryGrant refused each of them.         *)
Skipped(a, n) ==
    \A j \in 1..n : ~Drains(waiters[a][j], a) /\ IsClaimed(waiters[a][j])

-----------------------------------------------------------------------------
(* The candidate loop.                                                     *)

(* newMixedScope: a request arrives with the accounts its route allows.    *)
Begin(r) ==
    /\ pc[r] = "idle"
    /\ \E S \in SUBSET Accounts \ {{}} : untried' = [untried EXCEPT ![r] = S]
    /\ pc' = [pc EXCEPT ![r] = "picking"]
    /\ UNCHANGED <<limit, active, waiters, claimed, slot, picked, saturated>>

(* The request is over and its scope is dropped.                           *)
EndRequest(r) ==
    /\ pc' = [pc EXCEPT ![r] = "idle"]
    /\ untried' = [untried EXCEPT ![r] = {}]
    /\ saturated' = [saturated EXCEPT ![r] = <<>>]

(* nextMixedCandidate: pick an account, clone it, mark it tried.           *)
Pick(r) ==
    /\ pc[r] = "picking"
    /\ \E a \in FilterAvailableCandidates(untried[r]) :
          /\ picked' = [picked EXCEPT ![r] = [acct |-> a, lim |-> limit[a]]]
          /\ untried' = [untried EXCEPT ![r] = @ \ {a}]
    /\ pc' = [pc EXCEPT ![r] = "picked"]
    /\ UNCHANGED <<limit, active, waiters, claimed, slot, saturated>>

(* moderateRequest refuses the request before a slot is taken.             *)
Moderate(r) ==
    /\ pc[r] = "picked"
    /\ EndRequest(r)
    /\ picked' = [picked EXCEPT ![r] = NoCandidate]
    /\ UNCHANGED <<limit, active, waiters, claimed, slot>>

(* tryAcquireLocked succeeds: the request now executes on account a.       *)
TakeSlot(r, a) ==
    /\ active' = [active EXCEPT ![a] = @ + 1]
    /\ slot' = [slot EXCEPT ![r] = a]
    /\ pc' = [pc EXCEPT ![r] = "executing"]

(* AcquireSlot: one attempt without waiting; a saturated candidate is put  *)
(* aside and the loop picks the next one.                                  *)
AcquireSlot(r) ==
    LET c == picked[r]
    IN  /\ pc[r] = "picked"
        /\ picked' = [picked EXCEPT ![r] = NoCandidate]
        /\ \/ /\ HasRoom(c.acct, c.lim)
              /\ TakeSlot(r, c.acct)
              /\ UNCHANGED saturated
           \/ /\ ~HasRoom(c.acct, c.lim)
              /\ saturated' = [saturated EXCEPT ![r] = Append(@, c)]
              /\ pc' = [pc EXCEPT ![r] = "picking"]
              /\ UNCHANGED <<active, slot>>
        /\ UNCHANGED <<limit, waiters, claimed, untried>>

(* No further candidate now: none is left, or the selector returned an     *)
(* error (every account left is cooling down).  The request queues if it   *)
(* skipped a saturated account on the way and fails otherwise.             *)
PickFails(r) ==
    /\ pc[r] = "picking"
    /\ IF saturated[r] = <<>>
       THEN EndRequest(r)
       ELSE /\ pc' = [pc EXCEPT ![r] = "queueing"]
            /\ UNCHANGED <<untried, saturated>>
    /\ UNCHANGED <<limit, active, waiters, claimed, slot, picked>>

-----------------------------------------------------------------------------
(* AcquireSlotWait on the accounts put aside.                              *)

(* waitForSaturatedSlot consumes the entry of the account that had its     *)
(* turn: the request never queues on it again.                             *)
Bug_ConsumeTurn(r, a) == UNCHANGED saturated        \* entry not consumed

ConsumeTurn(r, a) ==
    \E i \in 1..Len(saturated[r]) :
        /\ saturated[r][i].acct = a
        /\ saturated' = [saturated EXCEPT ![r] =
                            SubSeq(@, 1, i - 1) \o SubSeq(@, i + 1, Len(@))]

Full(c) == ~HasRoom(c.acct, c.lim)

(* acquireOrEnqueue, under one hold of the lock: take the first candidate  *)
(* with room, else join the queue of every candidate whose queue has room. *)
AcquireFree(r) ==
    /\ pc[r] = "queueing"
    /\ \E i \in 1..Len(saturated[r]) :
          /\ ~Full(saturated[r][i])
          /\ \A j \in 1..(i-1) : Full(saturated[r][j])
          /\ TakeSlot(r, saturated[r][i].acct)
          /\ ConsumeTurn(r, saturated[r][i].acct)
    /\ UNCHANGED <<limit, waiters, claimed, untried, picked>>

(* The entries enqueueLocked appends to the queue of account a.            *)
QueueRoom(a) == QueueDepth = 0 \/ Len(waiters[a]) < QueueDepth

EntriesFor(r, a) ==
    {[who |-> r, lim |-> saturated[r][i].lim] :
        i \in {j \in 1..Len(saturated[r]) : saturated[r][j].acct = a /\ QueueRoom(a)}}

EnqueuedOn(r) ==
    [a \in Accounts |->
        IF EntriesFor(r, a) = {}
        THEN waiters[a]
        ELSE Append(waiters[a], CHOOSE e \in EntriesFor(r, a) : TRUE)]

Bug_Enqueue(r) ==                                   \* no re-check under the lock
    /\ pc[r] = "queueing"
    /\ \E a \in Accounts : EntriesFor(r, a) # {}
    /\ waiters' = EnqueuedOn(r)
    /\ pc' = [pc EXCEPT ![r] = "waiting"]
    /\ UNCHANGED <<limit, active, claimed, slot, untried, picked, saturated>>

Enqueue(r) ==
    /\ pc[r] = "queueing"
    /\ \A i \in 1..Len(saturated[r]) : Full(saturated[r][i])
    /\ \E a \in Accounts : EntriesFor(r, a) # {}
    /\ waiters' = EnqueuedOn(r)
    /\ pc' = [pc EXCEPT ![r] = "waiting"]
    /\ UNCHANGED <<limit, active, claimed, slot, untried, picked, saturated>>

(* AcquireSlotWait returns an error: the context is already cancelled, or  *)
(* everything is saturated and queueing is off or every queue is full.     *)
WaitRefused(r) ==
    /\ pc[r] = "queueing"
    /\ EndRequest(r)
    /\ UNCHANGED <<limit, active, waiters, claimed, slot, picked>>

(* The request takes the slot in its granted channel.                      *)
TakeGrant(r) ==
    /\ pc[r] = "waiting"
    /\ claimed[r]
    /\ claimed' = [claimed EXCEPT ![r] = FALSE]
    /\ ConsumeTurn(r, slot[r])
    /\ pc' = [pc EXCEPT ![r] = "executing"]
    /\ UNCHANGED <<limit, active, slot, untried, picked>>

(* case granted := <-waiter.granted                                        *)
ReceiveGrant(r) == TakeGrant(r) /\ waiters' = Dequeued(r)

(* case <-timer.C or <-ctx.Done(): giveUp.  The compare-and-swap of        *)
(* abandon either loses to a grant, whose slot the request then takes, or  *)
(* wins, and the request leaves the queues in a later step.                *)
Bug_GiveUpGranted(r) ==                             \* the granted slot is dropped
    /\ pc[r] = "waiting"
    /\ claimed[r]
    /\ waiters' = Dequeued(r)
    /\ claimed' = [claimed EXCEPT ![r] = FALSE]
    /\ slot' = [slot EXCEPT ![r] = NoAccount]
    /\ EndRequest(r)
    /\ UNCHANGED <<limit, active, picked>>

GiveUpGranted(r) == TakeGrant(r) /\ waiters' = Orphaned(r)

Abandon(r) ==
    /\ pc[r] = "waiting"
    /\ ~claimed[r]
    /\ claimed' = [claimed EXCEPT ![r] = TRUE]
    /\ pc' = [pc EXCEPT ![r] = "leaving"]
    /\ UNCHANGED <<limit, active, waiters, slot, untried, picked, saturated>>

Leave(r) ==
    /\ pc[r] = "leaving"
    /\ waiters' = Dequeued(r)
    /\ claimed' = [claimed EXCEPT ![r] = FALSE]
    /\ EndRequest(r)
    /\ UNCHANGED <<limit, active, slot, picked>>

-----------------------------------------------------------------------------
(* ReleaseSlot, run once when the upstream call ends.  Either the slot is  *)
(* transferred to the longest-waiting caller that is not claimed yet, or   *)
(* the in-flight count drops.                                              *)
Bug_HandOver(r, a, n) ==                            \* counted down as well
    LET e == waiters[a][n + 1]
    IN  /\ n < Len(waiters[a])
        /\ ~Drains(e, a)
        /\ ~IsClaimed(e)
        /\ waiters' = [waiters EXCEPT ![a] = SubSeq(@, n + 2, Len(@))]
        /\ claimed' = [claimed EXCEPT ![e.who] = TRUE]
        /\ slot' = [slot EXCEPT ![r] = NoAccount, ![e.who] = a]
        /\ active' = [active EXCEPT ![a] = @ - 1]

HandOver(r, a, n) ==
    LET e == waiters[a][n + 1]
    IN  /\ n < Len(waiters[a])
        /\ ~Drains(e, a)
        /\ ~IsClaimed(e)
        /\ waiters' = [waiters EXCEPT ![a] = SubSeq(@, n + 2, Len(@))]
        /\ claimed' = [claimed EXCEPT ![e.who] = TRUE]
        /\ slot' = [slot EXCEPT ![r] = NoAccount, ![e.who] = a]
        /\ UNCHANGED active

FreeSlot(r, a, n) ==
    /\ n < Len(waiters[a]) => Drains(waiters[a][n + 1], a)
    /\ waiters' = [waiters EXCEPT ![a] = SubSeq(@, n + 1, Len(@))]
    /\ active' = [active EXCEPT ![a] = @ - 1]
    /\ slot' = [slot EXCEPT ![r] = NoAccount]
    /\ UNCHANGED claimed

Bug_ReleaseSlot(r) ==                               \* freed without a hand-over
    /\ active' = [active EXCEPT ![slot[r]] = @ - 1]
    /\ slot' = [slot EXCEPT ![r] = NoAccount]
    /\ UNCHANGED <<waiters, claimed>>

ReleaseSlot(r) ==
    \E n \in 0..Len(waiters[slot[r]]) :
        /\ Skipped(slot[r], n)
        /\ HandOver(r, slot[r], n) \/ FreeSlot(r, slot[r], n)

(* The slot is released before the result is judged: a failed call         *)
(* continues with the next candidate, anything else ends the request.      *)
Finish(r) ==
    /\ pc[r] = "executing"
    /\ ReleaseSlot(r)
    /\ EndRequest(r)
    /\ UNCHANGED <<limit, picked>>

FailOver(r) ==
    /\ pc[r] = "executing"
    /\ ReleaseSlot(r)
    /\ pc' = [pc EXCEPT ![r] = "picking"]
    /\ UNCHANGED <<limit, untried, picked, saturated>>

(* An operator edits the account's concurrency limit.                      *)
SetLimit(a) ==
    /\ \E l \in Limits \ {limit[a]} : limit' = [limit EXCEPT ![a] = l]
    /\ UNCHANGED <<active, waiters, claimed, slot, pc, untried, picked, saturated>>

RequestStep(r) ==
    \/ Begin(r)
    \/ Pick(r)
    \/ Moderate(r)
    \/ AcquireSlot(r)
    \/ PickFails(r)
    \/ AcquireFree(r)
    \/ Enqueue(r)
    \/ WaitRefused(r)
    \/ ReceiveGrant(r)
    \/ GiveUpGranted(r)
    \/ Abandon(r)
    \/ Leave(r)
    \/ Finish(r)
    \/ FailOver(r)

Next ==
    \/ \E r \in Requests : RequestStep(r)
    \/ \E a \in Accounts : SetLimit(a)

Spec == Init /\ [][Next]_vars

(* Fairness.  An upstream call ends, and a goroutine that is not blocked on *)
(* a channel runs on.  Giving up (Abandon) is not assumed: a waiter must be *)
(* served because slots come back, not because its timer fired.             *)
Fairness ==
    \A r \in Requests :
        /\ WF_vars(Pick(r) \/ PickFails(r))
        /\ WF_vars(AcquireSlot(r))
        /\ WF_vars(AcquireFree(r) \/ Enqueue(r) \/ WaitRefused(r))
        /\ WF_vars(ReceiveGrant(r) \/ GiveUpGranted(r))
        /\ WF_vars(Leave(r))
        /\ WF_vars(Finish(r) \/ FailOver(r))

FairSpec == Spec /\ Fairness

-----------------------------------------------------------------------------
(* Properties.                                                             *)

(* The types of the limiter's maps and of the execution scope.             *)
TypeOK ==
    /\ limit \in [Accounts -> Limits]
    /\ active \in [Accounts -> Nat]
    /\ waiters \in [Accounts -> Seq(Entry)]
    /\ claimed \in [Requests -> BOOLEAN]
    /\ slot \in [Requests -> Accounts \cup {NoAccount}]
    /\ pc \in [Requests -> States]
    /\ untried \in [Requests -> SUBSET Accounts]
    /\ picked \in [Requests -> Candidate \cup {NoCandidate}]
    /\ saturated \in [Requests -> Seq(Candidate)]

Holders(a) == {r \in Requests : slot[r] = a}

Running(a) == {r \in Requests : pc[r] = "executing" /\ slot[r] = a}

(* No slot is leaked and none is given out twice: the in-flight count of   *)
(* an account is the number of requests that run on it or have its grant   *)
(* in their channel.  Grants, time-outs and cancellations race on several  *)
(* queues at once; abandon's contract ("dropping it would leak account     *)
(* capacity until the process restarts") is that no race breaks this.      *)
SlotAccounting == \A a \in Accounts : active[a] = Cardinality(Holders(a))

(* The limit is enforced: with every configured limit positive, no more    *)
(* requests run upstream on an account than the largest limit it had.      *)
ConcurrencyBound ==
    0 \notin Limits =>
        \A a \in Accounts :
            \E l \in Limits : Cardinality(Running(a)) <= l

Unclaimed(a) ==
    {i \in 1..Len(waiters[a]) : ~IsClaimed(waiters[a][i])}

(* No lost wake-up: a caller queued on an account that nobody served yet   *)
(* has, on that account, a slot owner whose release will look at the       *)
(* queue.  acquireOrEnqueue checks and enqueues under one lock hold for    *)
(* this reason, and a release that drains never takes the last slot away.  *)
NoStrandedWaiter ==
    \A a \in Accounts : Unclaimed(a) # {} => Holders(a) # {}

(* Consuming the saturated entry of an account that had its turn keeps a   *)
(* failing request from looping: while it runs on an account, that account *)
(* is neither left to pick nor left to queue on.                           *)
OneTurnPerAccount ==
    \A r \in Requests : pc[r] = "executing" =>
        /\ slot[r] \notin untried[r]
        /\ \A i \in 1..Len(saturated[r]) : saturated[r][i].acct # slot[r]

(* FIFO per account: a request obtains a slot of an account only when no   *)
(* caller that queued there before it is still unserved ("without the      *)
(* handoff a burst of fresh requests could keep overtaking a queued        *)
(* caller").                                                               *)
Overtaken(a, r) ==
    \E i \in Unclaimed(a) : \A j \in 1..i : waiters[a][j].who # r

NoOvertaking ==
    [][\A r \in Requests : \A a \in Accounts :
          (slot[r] # a /\ slot'[r] = a) => ~Overtaken(a, r)]_vars

(* Every request comes to an end although nobody gives up waiting: slots   *)
(* come back, queues move, and each account is tried once.                 *)
EveryRequestEnds == \A r \in Requests : (pc[r] # "idle") ~> (pc[r] = "idle")

(* The limiter implements the pool of slots of SlotService: a request's    *)
(* slot, in its hands or in the channel of its waiter, is the slot it owns. *)
Service == INSTANCE SlotService WITH owner <- slot

(* Grants, time-outs, cancellations, hand-overs and changed limits race,   *)
(* and still no step gives a request a second slot, gives one out above    *)
(* every configured limit, or gives one released slot to two callers.      *)
ImplementsSlotService == Service!Spec

-----------------------------------------------------------------------------
(* The inductive invariant behind the safety properties.                   *)

(* A request owns a slot exactly while it executes or has a grant in its   *)
(* channel, and a waiter is claimed exactly when it was granted a slot or  *)
(* abandoned.                                                              *)
RequestState ==
    \A r \in Requests :
        /\ pc[r] \in {"idle", "picking", "picked", "queueing"} =>
              slot[r] = NoAccount /\ ~claimed[r]
        /\ pc[r] = "picked" => picked[r] \in Candidate
        /\ pc[r] = "waiting" => (claimed[r] <=> slot[r] # NoAccount)
        /\ pc[r] = "leaving" => slot[r] = NoAccount /\ claimed[r]
        /\ pc[r] = "executing" => slot[r] \in Accounts /\ ~claimed[r]

(* A queue entry has a positive limit, belongs to a request that is still  *)
(* in AcquireSlotWait, and no request is twice in one queue.               *)
QueueOK(q) ==
    /\ \A i \in 1..Len(q) : q[i].lim > 0
    /\ \A i \in 1..Len(q) :
          q[i].who # Orphan => pc[q[i].who] \in {"waiting", "leaving"}
    /\ \A i, j \in 1..Len(q) : q[i].who = q[j].who /\ i # j => q[i].who = Orphan

QueueState == \A a \in Accounts : QueueOK(waiters[a])

(* NoStrandedWaiter in terms of the in-flight count.                       *)
ReleaseAhead == \A a \in Accounts : Unclaimed(a) # {} => active[a] > 0

IInv == TypeOK /\ RequestState /\ QueueState /\ SlotAccounting /\ ReleaseAhead

(* While the limit is one that never changes, an account on which a queued *)
(* caller is still unserved is full: nobody can take a slot past it.       *)
FullWhileQueued ==
    \A a \in Accounts : Unclaimed(a) # {} => \A l \in Limits : ~HasRoom(a, l)

(* ConcurrencyBound in terms of the in-flight count.                       *)
CountBound ==
    0 \notin Limits => \A a \in Accounts : \E l \in Limits : active[a] <= l

(* Where the accounts of a request's scope are: picked, put aside or left  *)
(* to pick, each in one place.                                             *)
Distinct(s) == \A i, j \in 1..Len(s) : s[i].acct = s[j].acct => i = j

Aside(r, a) == \E i \in 1..Len(saturated[r]) : saturated[r][i].acct = a

ScopeOK(r) ==
    /\ Distinct(saturated[r])
    /\ \A a \in untried[r] : ~Aside(r, a)
    /\ pc[r] = "idle" => saturated[r] = <<>>
    /\ pc[r] = "picked" =>
          picked[r].acct \notin untried[r] /\ ~Aside(r, picked[r].acct)
    /\ pc[r] = "executing" =>
          slot[r] \notin untried[r] /\ ~Aside(r, slot[r])

ScopeState == \A r \in Requests : ScopeOK(r)
=============================================================================
