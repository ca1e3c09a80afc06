------------------------------ MODULE ClusterSlots ------------------------------
(***************************************************************************)
(* Account concurrency across the processes of a cluster                   *)
(* (sdk/cliproxy/auth/account_concurrency_cluster.go, with the slot pool   *)
(* and the lease script of internal/cluster/sharedstate), for one account. *)
(*                                                                         *)
(* A process first reserves a slot in its own limiter, then claims a       *)
(* cluster-wide slot in Redis in a separate, unlocked step, and only then  *)
(* records the slot as clustered.  While Redis cannot be reached the slot  *)
(* is counted against the process's share of the limit instead.  Queued    *)
(* requests are served by local hand-overs and by polling.                 *)
(*                                                                         *)
(* Granularity: one step per hold of the limiter's lock, per Redis script  *)
(* and per compare-and-swap.  Leases are counted, not named: how the lease *)
(* keeper renews and removes them, and what can go wrong there, is the     *)
(* subject of LeaseKeeper.  A request has one candidate account, so a      *)
(* granted waiter is in no other queue.                                    *)
(***************************************************************************)
EXTENDS Integers, Sequences, FiniteSets, FiniteSetsExt

CONSTANTS
    Nodes,      \* processes of the cluster
    Requests,   \* request goroutines
    Home,       \* the process each request runs on
    Limits,     \* the limits an operator configures, 0 = unlimited
    Views,      \* the process counts the membership view may report
    Lapses,     \* whether an outage may outlast the lease TTL
    MaxOrphans  \* bound on leases that nobody owns, for model checking

ASSUME HomeAssumption == Home \in [Requests -> Nodes]
ASSUME NodesAssumption == IsFiniteSet(Nodes) /\ Nodes # {}
ASSUME RequestsAssumption == IsFiniteSet(Requests)
ASSUME LimitsAssumption == IsFiniteSet(Limits) /\ Limits # {} /\ Limits \subseteq Nat
ASSUME ViewsAssumption == Views # {} /\ Views \subseteq Nat \ {0}
ASSUME LapsesAssumption == Lapses \in BOOLEAN
ASSUME MaxOrphansAssumption == MaxOrphans \in Nat

VARIABLES
    limit,      \* the account's configured limit, the same on every process
    avail,      \* Shared(): the process's view of the cluster Redis
    peers,      \* ActiveNodeCount(): the process's view of the membership
    active,     \* AccountConcurrencyLimiter.active of each process
    clustered,  \* .clustered: slots that hold a cluster-wide slot
    unshared,   \* .unshared: slots taken while Redis was unreachable
    waiters,    \* .waiters: the FIFO queue of each process
    pool,       \* accountSlotPool.members: leases the process owns
    lapsed,     \* how many of them expired in Redis during an outage
    removing,   \* released leases the lease keeper has yet to remove
    orphans,    \* members nobody owns: lost replies, crashed processes
    pc,         \* where the request is
    lim,        \* the limit in the request's clone of the credential
    claim,      \* slotWaiter.claimed and .granted: none, granted, abandoned
    queued      \* the attempt comes from the wait loop (a poll)

view    == <<avail, peers>>
limiter == <<active, clustered, unshared, waiters>>
redis   == <<pool, lapsed, removing, orphans>>
request == <<pc, lim, claim, queued>>
vars    == <<limit, view, limiter, redis, request>>

-----------------------------------------------------------------------------
States == {"idle", "trying", "reserved", "claimed", "refused", "fallback",
           "failed", "waiting", "polled", "surplus", "leaving", "running"}

Init ==
    /\ limit \in Limits
    /\ avail = [n \in Nodes |-> TRUE]
    /\ peers = [n \in Nodes |-> Min(Views)]
    /\ active = [n \in Nodes |-> 0]
    /\ clustered = [n \in Nodes |-> 0]
    /\ unshared = [n \in Nodes |-> 0]
    /\ waiters = [n \in Nodes |-> <<>>]
    /\ pool = [n \in Nodes |-> 0]
    /\ lapsed = [n \in Nodes |-> 0]
    /\ removing = [n \in Nodes |-> 0]
    /\ orphans = 0
    /\ pc = [r \in Requests |-> "idle"]
    /\ lim = [r \in Requests |-> 0]
    /\ claim = [r \in Requests |-> "none"]
    /\ queued = [r \in Requests |-> FALSE]

(* splitLimit: ceil(limit / processes).                                    *)
SplitLimit(l, k) == (l + k - 1) \div k

NodeShare(n, l) == SplitLimit(l, peers[n])

EffectiveLimit(n, l) == IF l > 0 /\ ~avail[n] THEN NodeShare(n, l) ELSE l

HasRoom(n, l) == l = 0 \/ active[n] < EffectiveLimit(n, l)

(* The sum of f over the processes, as the size of a set with f[n] members *)
(* for each process n.                                                     *)
Members(f) == UNION {{n} \X (1..f[n]) : n \in Nodes}
Total(f) == Cardinality(Members(f))

(* ZCARD of the slot set: what the processes own and what nobody owns.     *)
Counted == [n \in Nodes |-> pool[n] - lapsed[n] + removing[n]]
LeasesHeld == Total(Counted) + orphans

Plus(f, n, k) == [f EXCEPT ![n] = @ + k]

Goto(r, s) == pc' = [pc EXCEPT ![r] = s]

(* The request is done with the account and drops its clone.               *)
Done(r) ==
    /\ Goto(r, "idle")
    /\ lim' = [lim EXCEPT ![r] = 0]

-----------------------------------------------------------------------------
(* tryAcquireAny.                                                          *)

(* A request arrives (or comes back to the account) with its clone of the  *)
(* credential and tries for a slot.                                        *)
Begin(r) ==
    /\ pc[r] = "idle"
    /\ lim' = [lim EXCEPT ![r] = limit]
    /\ Goto(r, "trying")
    /\ UNCHANGED <<limit, view, limiter, redis, claim, queued>>

(* Where an attempt that got no slot continues.                            *)
AttemptFails(r) == Goto(r, IF queued[r] THEN "waiting" ELSE "failed")

(* Where an attempt that got a slot continues.                             *)
AttemptSucceeds(r) == Goto(r, IF queued[r] THEN "polled" ELSE "running")

Reserve(r) ==
    /\ pc[r] = "trying"
    /\ IF HasRoom(Home[r], lim[r])
       THEN active' = Plus(active, Home[r], 1) /\ Goto(r, "reserved")
       ELSE AttemptFails(r) /\ UNCHANGED active
    /\ UNCHANGED <<limit, view, clustered, unshared, waiters, redis, lim, claim, queued>>

(* claimClusterSlot on an account without a limit.                         *)
ClaimNothing(r) ==
    /\ pc[r] = "reserved"
    /\ lim[r] = 0
    /\ AttemptSucceeds(r)
    /\ UNCHANGED <<limit, view, limiter, redis, lim, claim, queued>>

(* Mutant: the script compares with > instead of >=.                       *)
Bug_ClaimGranted(r) ==
    /\ pc[r] = "reserved" /\ lim[r] > 0 /\ avail[Home[r]]
    /\ LeasesHeld <= lim[r]
    /\ pool' = Plus(pool, Home[r], 1)
    /\ Goto(r, "claimed")
    /\ UNCHANGED <<limit, view, limiter, lapsed, removing, orphans, lim, claim, queued>>

(* acquireLeaseScript answers: a lease is taken and put into the pool.     *)
ClaimGranted(r) ==
    /\ pc[r] = "reserved" /\ lim[r] > 0 /\ avail[Home[r]]
    /\ LeasesHeld < lim[r]
    /\ pool' = Plus(pool, Home[r], 1)
    /\ Goto(r, "claimed")
    /\ UNCHANGED <<limit, view, limiter, lapsed, removing, orphans, lim, claim, queued>>

ClaimRefused(r) ==
    /\ pc[r] = "reserved" /\ lim[r] > 0 /\ avail[Home[r]]
    /\ LeasesHeld >= lim[r]
    /\ Goto(r, "refused")
    /\ UNCHANGED <<limit, view, limiter, redis, lim, claim, queued>>

(* The client is marked down already, or the command times out or fails    *)
(* and Observe marks it down; the script may have run all the same, and    *)
(* then its lease belongs to nobody until it expires.  Or Redis rejects    *)
(* this one command and stays up.                                          *)
ClaimFails(r) ==
    /\ pc[r] = "reserved" /\ lim[r] > 0
    /\ \/ UNCHANGED orphans
       \/ /\ avail[Home[r]]
          /\ LeasesHeld < lim[r]
          /\ orphans < MaxOrphans
          /\ orphans' = orphans + 1
    /\ \/ avail' = [avail EXCEPT ![Home[r]] = FALSE]
       \/ UNCHANGED <<avail, orphans>>
    /\ Goto(r, "fallback")
    /\ UNCHANGED <<limit, peers, limiter, pool, lapsed, removing, lim, claim, queued>>

CommitClaim(r) ==
    /\ pc[r] = "claimed"
    /\ clustered' = Plus(clustered, Home[r], 1)
    /\ AttemptSucceeds(r)
    /\ UNCHANGED <<limit, view, active, unshared, waiters, redis, lim, claim, queued>>

(* Mutant: a lost claim keeps its reservation.                             *)
Bug_Unreserve(r) ==
    /\ pc[r] = "refused"
    /\ AttemptFails(r)
    /\ UNCHANGED <<limit, view, limiter, redis, lim, claim, queued>>

(* unreserveLocked: no hand-over, there was no slot to hand over.          *)
Unreserve(r) ==
    /\ pc[r] = "refused"
    /\ active' = Plus(active, Home[r], -1)
    /\ AttemptFails(r)
    /\ UNCHANGED <<limit, view, clustered, unshared, waiters, redis, lim, claim, queued>>

(* Mutant: the reservation is not checked against the share again.         *)
Bug_Fallback(r) ==
    /\ pc[r] = "fallback"
    /\ unshared' = Plus(unshared, Home[r], 1)
    /\ AttemptSucceeds(r)
    /\ UNCHANGED <<limit, view, active, clustered, waiters, redis, lim, claim, queued>>

(* The reservation is checked again, against the process's share.          *)
Fallback(r) ==
    /\ pc[r] = "fallback"
    /\ IF active[Home[r]] > NodeShare(Home[r], lim[r])
       THEN /\ active' = Plus(active, Home[r], -1)
            /\ AttemptFails(r)
            /\ UNCHANGED unshared
       ELSE /\ unshared' = Plus(unshared, Home[r], 1)
            /\ AttemptSucceeds(r)
            /\ UNCHANGED active
    /\ UNCHANGED <<limit, view, clustered, waiters, redis, lim, claim, queued>>

-----------------------------------------------------------------------------
(* acquireSlotWaitCluster.                                                 *)

(* AcquireSlot returns the saturated error.                                *)
Refuse(r) ==
    /\ pc[r] = "failed"
    /\ Done(r)
    /\ UNCHANGED <<limit, view, limiter, redis, claim, queued>>

(* The first attempt failed: queue, in a later hold of the lock.           *)
Enqueue(r) ==
    /\ pc[r] = "failed"
    /\ waiters' = [waiters EXCEPT ![Home[r]] = Append(@, r)]
    /\ queued' = [queued EXCEPT ![r] = TRUE]
    /\ Goto(r, "waiting")
    /\ UNCHANGED <<limit, view, active, clustered, unshared, redis, lim, claim>>

(* dequeue: the first entry that is the waiter is cut out of the slice.    *)
Without(q, r) ==
    LET at == {i \in 1..Len(q) : q[i] = r}
    IN  IF at = {} THEN q
        ELSE SubSeq(q, 1, Min(at) - 1) \o SubSeq(q, Min(at) + 1, Len(q))

Dequeue(r) == waiters' = [waiters EXCEPT ![Home[r]] = Without(@, r)]

(* The waiter object is dropped.                                           *)
StopWaiting(r) ==
    /\ claim' = [claim EXCEPT ![r] = "none"]
    /\ queued' = [queued EXCEPT ![r] = FALSE]

(* granted := <-waiter.granted, from the select or from giveUp.            *)
TakeGrant(r) ==
    /\ pc[r] = "waiting" /\ claim[r] = "granted"
    /\ Dequeue(r)
    /\ StopWaiting(r)
    /\ Goto(r, "running")
    /\ UNCHANGED <<limit, view, active, clustered, unshared, redis, lim>>

(* giveUp: abandon wins, then dequeue.                                     *)
Abandon(r) ==
    /\ pc[r] = "waiting" /\ claim[r] = "none"
    /\ claim' = [claim EXCEPT ![r] = "abandoned"]
    /\ Goto(r, "leaving")
    /\ UNCHANGED <<limit, view, limiter, redis, lim, queued>>

(* Mutant: a caller that gives up releases a slot it was never given.      *)
Bug_Leave(r) ==
    /\ pc[r] = "leaving"
    /\ Dequeue(r)
    /\ StopWaiting(r)
    /\ Done(r)
    /\ active' = Plus(active, Home[r], -1)
    /\ UNCHANGED <<limit, view, clustered, unshared, redis>>

Leave(r) ==
    /\ pc[r] = "leaving"
    /\ Dequeue(r)
    /\ StopWaiting(r)
    /\ Done(r)
    /\ UNCHANGED <<limit, view, active, clustered, unshared, redis>>

(* case <-poll.C: tryAcquireAny from inside the wait loop.                 *)
Poll(r) ==
    /\ pc[r] = "waiting"
    /\ Goto(r, "trying")
    /\ UNCHANGED <<limit, view, limiter, redis, lim, claim, queued>>

(* The poll got a slot and abandon wins: leave the queue and run.          *)
PollWins(r) ==
    /\ pc[r] = "polled" /\ claim[r] = "none"
    /\ claim' = [claim EXCEPT ![r] = "abandoned"]
    /\ UNCHANGED <<limit, view, limiter, redis, pc, lim, queued>>

PollLeaves(r) ==
    /\ pc[r] = "polled" /\ claim[r] = "abandoned"
    /\ Dequeue(r)
    /\ StopWaiting(r)
    /\ Goto(r, "running")
    /\ UNCHANGED <<limit, view, active, clustered, unshared, redis, lim>>

-----------------------------------------------------------------------------
(* ReleaseSlot in cluster mode.                                            *)

Drains(n, r) ==
    LET l == EffectiveLimit(n, lim[r]) IN l > 0 /\ active[n] > l

(* The first k entries of the queue were claimed already and are popped.   *)
Skipped(n, k) ==
    \A j \in 1..k : ~Drains(n, waiters[n][j]) /\ claim[waiters[n][j]] # "none"

HandOver(n, k) ==
    LET w == waiters[n][k + 1]
    IN  /\ k < Len(waiters[n])
        /\ ~Drains(n, w)
        /\ claim[w] = "none"
        /\ waiters' = [waiters EXCEPT ![n] = SubSeq(@, k + 2, Len(@))]
        /\ claim' = [claim EXCEPT ![w] = "granted"]
        /\ UNCHANGED <<active, clustered, unshared, redis>>

(* ReleaseAccountSlot pops a lease and leaves its removal to the keeper.   *)
ReleaseAccountSlot(n) ==
    /\ pool' = Plus(pool, n, -1)
    /\ \/ /\ pool[n] > lapsed[n]
          /\ removing' = Plus(removing, n, 1)
          /\ UNCHANGED lapsed
       \/ /\ lapsed[n] > 0
          /\ lapsed' = Plus(lapsed, n, -1)
          /\ UNCHANGED removing
    /\ UNCHANGED orphans

(* Mutant: the lease goes back whichever kind of slot is freed.            *)
Bug_ReleaseClusterSlot(n) ==
    /\ unshared' = [unshared EXCEPT ![n] = IF @ > 0 THEN @ - 1 ELSE 0]
    /\ clustered' = [clustered EXCEPT ![n] = IF @ > 0 THEN @ - 1 ELSE 0]
    /\ IF pool[n] > 0 THEN ReleaseAccountSlot(n) ELSE UNCHANGED redis

(* releaseClusterSlotLocked: a slot taken while Redis was down goes first. *)
ReleaseClusterSlot(n) ==
    \/ /\ unshared[n] > 0
       /\ unshared' = Plus(unshared, n, -1)
       /\ UNCHANGED <<clustered, redis>>
    \/ /\ unshared[n] = 0 /\ clustered[n] > 0
       /\ clustered' = Plus(clustered, n, -1)
       /\ ReleaseAccountSlot(n)
       /\ UNCHANGED unshared
    \/ /\ unshared[n] = 0 /\ clustered[n] = 0
       /\ UNCHANGED <<clustered, unshared, redis>>

FreeSlot(n, k) ==
    /\ k < Len(waiters[n]) => Drains(n, waiters[n][k + 1])
    /\ waiters' = [waiters EXCEPT ![n] = SubSeq(@, k + 1, Len(@))]
    /\ active' = Plus(active, n, -1)
    /\ ReleaseClusterSlot(n)
    /\ UNCHANGED claim

ReleaseSlot(n) ==
    \E k \in 0..Len(waiters[n]) : Skipped(n, k) /\ (HandOver(n, k) \/ FreeSlot(n, k))

(* The upstream call ends.                                                 *)
Finish(r) ==
    /\ pc[r] = "running"
    /\ ReleaseSlot(Home[r])
    /\ Done(r)
    /\ UNCHANGED <<limit, view, queued>>

(* Mutant: the polled slot is forgotten.                                   *)
Bug_PollLoses(r) ==
    /\ pc[r] = "polled" /\ claim[r] = "granted"
    /\ Dequeue(r)
    /\ StopWaiting(r)
    /\ Goto(r, "running")
    /\ UNCHANGED <<limit, view, active, clustered, unshared, redis, lim>>

(* The poll got a slot but a release granted one too: the request leaves   *)
(* the queue owning two slots, keeps the handed-over one and releases the  *)
(* polled one, which may be handed over in turn.                           *)
PollLoses(r) ==
    /\ pc[r] = "polled" /\ claim[r] = "granted"
    /\ Dequeue(r)
    /\ StopWaiting(r)
    /\ Goto(r, "surplus")
    /\ UNCHANGED <<limit, view, active, clustered, unshared, redis, lim>>

ReleaseSurplus(r) ==
    /\ pc[r] = "surplus"
    /\ ReleaseSlot(Home[r])
    /\ Goto(r, "running")
    /\ UNCHANGED <<limit, view, lim, queued>>

-----------------------------------------------------------------------------
(* Redis, the operator and the processes themselves.                       *)

(* The lease keeper removes a released lease.                              *)
RemoveLease(n) ==
    /\ avail[n]
    /\ removing[n] > 0
    /\ removing' = Plus(removing, n, -1)
    /\ UNCHANGED <<limit, view, limiter, pool, lapsed, orphans, request>>

(* An outage outlasts the TTL: a lease the process owns expires.           *)
Lapse(n) ==
    /\ Lapses
    /\ ~avail[n]
    /\ lapsed[n] < pool[n]
    /\ lapsed' = Plus(lapsed, n, 1)
    /\ UNCHANGED <<limit, view, limiter, pool, removing, orphans, request>>

(* The keeper renews with an unconditional ZADD: what lapsed counts again. *)
Renew(n) ==
    /\ avail[n]
    /\ lapsed[n] > 0
    /\ lapsed' = [lapsed EXCEPT ![n] = 0]
    /\ UNCHANGED <<limit, view, limiter, pool, removing, orphans, request>>

(* A released lease whose removal fails for a TTL expires on its own.      *)
ExpireReleased(n) ==
    /\ Lapses
    /\ ~avail[n]
    /\ removing[n] > 0
    /\ removing' = Plus(removing, n, -1)
    /\ UNCHANGED <<limit, view, limiter, pool, lapsed, orphans, request>>

(* A health probe or another command finds Redis down, or up again.        *)
Probe(n) ==
    /\ avail' = [avail EXCEPT ![n] = ~@]
    /\ UNCHANGED <<limit, peers, limiter, redis, request>>

(* The membership view changes.                                            *)
SeePeers(n) ==
    /\ \E k \in Views \ {peers[n]} : peers' = [peers EXCEPT ![n] = k]
    /\ UNCHANGED <<limit, avail, limiter, redis, request>>

(* A lease nobody renews expires.                                          *)
Expire ==
    /\ orphans > 0
    /\ orphans' = orphans - 1
    /\ UNCHANGED <<limit, view, limiter, pool, lapsed, removing, request>>

(* The process dies and restarts: its requests and its limiter are gone,   *)
(* its leases are left to expire.                                          *)
Crash(n) ==
    /\ orphans + pool[n] - lapsed[n] + removing[n] <= MaxOrphans
    /\ orphans' = orphans + pool[n] - lapsed[n] + removing[n]
    /\ active' = [active EXCEPT ![n] = 0]
    /\ clustered' = [clustered EXCEPT ![n] = 0]
    /\ unshared' = [unshared EXCEPT ![n] = 0]
    /\ waiters' = [waiters EXCEPT ![n] = <<>>]
    /\ pool' = [pool EXCEPT ![n] = 0]
    /\ lapsed' = [lapsed EXCEPT ![n] = 0]
    /\ removing' = [removing EXCEPT ![n] = 0]
    /\ pc' = [r \in Requests |-> IF Home[r] = n THEN "idle" ELSE pc[r]]
    /\ lim' = [r \in Requests |-> IF Home[r] = n THEN 0 ELSE lim[r]]
    /\ claim' = [r \in Requests |-> IF Home[r] = n THEN "none" ELSE claim[r]]
    /\ queued' = [r \in Requests |-> IF Home[r] = n THEN FALSE ELSE queued[r]]
    /\ UNCHANGED <<limit, view>>

SetLimit ==
    /\ \E l \in Limits \ {limit} : limit' = l
    /\ UNCHANGED <<view, limiter, redis, request>>

RequestStep(r) ==
    \/ Begin(r)
    \/ Reserve(r)
    \/ ClaimNothing(r)
    \/ ClaimGranted(r)
    \/ ClaimRefused(r)
    \/ ClaimFails(r)
    \/ CommitClaim(r)
    \/ Unreserve(r)
    \/ Fallback(r)
    \/ Refuse(r)
    \/ Enqueue(r)
    \/ TakeGrant(r)
    \/ Abandon(r)
    \/ Leave(r)
    \/ Poll(r)
    \/ PollWins(r)
    \/ PollLeaves(r)
    \/ PollLoses(r)
    \/ ReleaseSurplus(r)
    \/ Finish(r)

ProcessStep(n) ==
    \/ RemoveLease(n)
    \/ Lapse(n)
    \/ Renew(n)
    \/ ExpireReleased(n)
    \/ Probe(n)
    \/ SeePeers(n)
    \/ Crash(n)

Next ==
    \/ \E r \in Requests : RequestStep(r)
    \/ \E n \in Nodes : ProcessStep(n)
    \/ Expire
    \/ SetLimit

Spec == Init /\ [][Next]_vars

-----------------------------------------------------------------------------
(* Properties.                                                             *)

(* The types of the limiter's maps, the pool and the Redis set.            *)
TypeOK ==
    /\ limit \in Limits
    /\ avail \in [Nodes -> BOOLEAN]
    /\ peers \in [Nodes -> Views]
    /\ active \in [Nodes -> Nat]
    /\ clustered \in [Nodes -> Nat]
    /\ unshared \in [Nodes -> Nat]
    /\ waiters \in [Nodes -> Seq(Requests)]
    /\ pool \in [Nodes -> Nat]
    /\ lapsed \in [Nodes -> Nat]
    /\ removing \in [Nodes -> Nat]
    /\ orphans \in 0..MaxOrphans
    /\ pc \in [Requests -> States]
    /\ lim \in [Requests -> Limits \cup {0}]
    /\ claim \in [Requests -> {"none", "granted", "abandoned"}]
    /\ queued \in [Requests -> BOOLEAN]

At(n, S) == {r \in Requests : Home[r] = n /\ pc[r] \in S}

(* Reservations that are not slots yet, and slots: a running request has   *)
(* one, a grant in a channel is one, a surplus is one more.                *)
Reserved(n) == Cardinality(At(n, {"reserved", "claimed", "refused", "fallback"}))
Slots(n) ==
      Cardinality(At(n, {"running", "polled", "surplus"}))
    + Cardinality(At(n, {"surplus"}))
    + Cardinality({r \in Requests : Home[r] = n /\ claim[r] = "granted"})

(* No race between polls, grants, give-ups and failed claims leaks a slot  *)
(* or counts one twice: a process's in-flight count is the slots its       *)
(* requests own plus the reservations in progress.                         *)
LocalAccounting == \A n \in Nodes : active[n] = Slots(n) + Reserved(n)

(* With a limit configured throughout, every slot is either backed by a    *)
(* lease or known to have been taken during an outage, although which      *)
(* request holds which is not recorded and slots change hands.             *)
KindAccounting ==
    0 \notin Limits => \A n \in Nodes : clustered[n] + unshared[n] = Slots(n)

(* The process owns one lease for every clustered slot and every claim     *)
(* about to be committed: a request that ends returns what it took or      *)
(* leaves it to another, so a process that becomes idle owns none.         *)
LeaseAccounting ==
    \A n \in Nodes : pool[n] = clustered[n] + Cardinality(At(n, {"claimed"}))

(* What an outage costs at most: the slots a process takes without asking  *)
(* Redis stay within its share of the limit, although the local check was  *)
(* made against the full limit and slots change hands afterwards.          *)
ShareBound ==
    0 \notin Limits =>
        \A n \in Nodes : unshared[n] <= SplitLimit(Max(Limits), Min(Views))

(* When no outage outlasts a lease, the limit is a limit: slots taken in   *)
(* outages aside, the processes together stay within the largest limit.    *)
ClusterLimit ==
    (0 \notin Limits /\ ~Lapses) =>
        Cardinality({r \in Requests : pc[r] = "running"})
            <= Max(Limits) + Total(unshared)
=============================================================================
