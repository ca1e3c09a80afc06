------------------------------ MODULE LeaseKeeper ------------------------------
(***************************************************************************)
(* The leases behind cluster-wide concurrency slots: one process's stack   *)
(* of lease members for an account and its lease keeper                    *)
(* (internal/cluster/sharedstate/account_slots.go and leases.go) over the  *)
(* Redis sorted set of the account.                                        *)
(*                                                                         *)
(* Request goroutines take leases and give them back; one keeper goroutine *)
(* renews what is held, removes what was released and retries removals     *)
(* that failed.  Granularity: one step per hold of a mutex, per channel    *)
(* operation and per Redis round trip.                                     *)
(*                                                                         *)
(* Time advances in periods of the keeper's ticker, a third of the lease   *)
(* TTL in the code (30 s).  A Redis round trip is bounded by 2 s and the   *)
(* steps of a goroutine take microseconds, so none spans a tick.  A        *)
(* command that timed out has run already or never runs.                   *)
(***************************************************************************)
EXTENDS Integers, Sequences, FiniteSets

CONSTANTS
    Members,    \* lease names; newLeaseMember never repeats one
    Limit,      \* the account's limit
    Ttl,        \* the lease TTL in ticks, 3 in the code
    QueueCap,   \* capacity of the releases channel, 4096 in the code
    BatchMax    \* removals per pipeline, 256 in the code

ASSUME MembersAssumption == IsFiniteSet(Members)
ASSUME LimitAssumption == Limit \in Nat \ {0}
ASSUME TtlAssumption == Ttl \in Nat \ {0}
ASSUME QueueCapAssumption == QueueCap \in Nat
ASSUME BatchMaxAssumption == BatchMax \in Nat \ {0}

VARIABLES
    left,       \* ticks until the member's score in Redis passes, 0 = not counted
    avail,      \* whether the client considers Redis available
    stage,      \* how far the acquisition of the member has come
    rel,        \* how far its release has come
    pool,       \* accountSlotPool.members of the account, a stack
    held,       \* leaseKeeper.held
    pending,    \* keys of leaseKeeper.pending
    deadline,   \* ticks until the deadline stored there
    queue,      \* the releases channel
    phase,      \* what the keeper goroutine is doing
    refs,       \* the batch it is working on
    tick,       \* ticker.C holds a tick
    missed      \* history: ticks since the keeper last renewed, or had nothing to

redis   == <<left, avail>>
callers == <<stage, rel, pool>>
keeper  == <<held, pending, deadline, queue, phase, refs, tick, missed>>
vars    == <<redis, callers, keeper>>

Stages == {"unused", "taken", "pooled", "tracked", "lost"}
Releases == {"no", "popped", "unheld", "sent"}
Phases == {"idle", "removing", "renewing", "sweep", "sweeping", "stopped", "dead"}

-----------------------------------------------------------------------------
Init ==
    /\ left = [m \in Members |-> 0]
    /\ avail = TRUE
    /\ stage = [m \in Members |-> "unused"]
    /\ rel = [m \in Members |-> "no"]
    /\ pool = <<>>
    /\ held = {}
    /\ pending = {}
    /\ deadline = [m \in Members |-> 0]
    /\ queue = {}
    /\ phase = "idle"
    /\ refs = {}
    /\ tick = FALSE
    /\ missed = 0

Counted == {m \in Members : left[m] > 0}

Alive == phase # "dead"

(* Redis drops the members of S, or scores them anew.                      *)
ZRem(S) == left' = [m \in Members |-> IF m \in S THEN 0 ELSE left[m]]
ZAdd(S) == left' = [m \in Members |-> IF m \in S THEN Ttl ELSE left[m]]

-----------------------------------------------------------------------------
(* AcquireAccountSlot: the script, the push on the stack and track are     *)
(* three steps.                                                            *)

AcquireLease(m) ==
    /\ Alive /\ avail
    /\ stage[m] = "unused"
    /\ Cardinality(Counted) < Limit
    /\ ZAdd({m})
    /\ stage' = [stage EXCEPT ![m] = "taken"]
    /\ UNCHANGED <<avail, rel, pool, keeper>>

(* The script ran but its reply did not arrive: the caller gets an error   *)
(* and forgets the member.                                                 *)
AcquireLost(m) ==
    /\ Alive /\ avail
    /\ stage[m] = "unused"
    /\ Cardinality(Counted) < Limit
    /\ ZAdd({m})
    /\ avail' = FALSE
    /\ stage' = [stage EXCEPT ![m] = "lost"]
    /\ UNCHANGED <<rel, pool, keeper>>

Push(m) ==
    /\ Alive
    /\ stage[m] = "taken"
    /\ pool' = Append(pool, m)
    /\ stage' = [stage EXCEPT ![m] = "pooled"]
    /\ UNCHANGED <<redis, rel, keeper>>

(* Mutant: the lease is taken but never renewed.                           *)
Bug_Track(m) ==
    /\ Alive
    /\ stage[m] = "pooled"
    /\ stage' = [stage EXCEPT ![m] = "tracked"]
    /\ UNCHANGED <<redis, rel, pool, keeper>>

Track(m) ==
    /\ Alive
    /\ stage[m] = "pooled"
    /\ held' = held \cup {m}
    /\ stage' = [stage EXCEPT ![m] = "tracked"]
    /\ UNCHANGED <<redis, rel, pool, pending, deadline, queue, phase, refs, tick, missed>>

-----------------------------------------------------------------------------
(* ReleaseAccountSlot, under the limiter's lock: pop the stack, stop       *)
(* renewing, hand the removal to the keeper.                               *)

(* The limiter releases a cluster slot only if it counts one, that is, if  *)
(* more acquisitions have returned than releases have begun.               *)
SlotsCounted ==
    Cardinality({m \in Members : stage[m] = "tracked"})
        > Cardinality({m \in Members : rel[m] # "no"})

NoReleaseRunning == \A m \in Members : rel[m] \notin {"popped", "unheld"}

Pop(m) ==
    /\ Alive
    /\ NoReleaseRunning
    /\ SlotsCounted
    /\ Len(pool) > 0 /\ pool[Len(pool)] = m
    /\ pool' = SubSeq(pool, 1, Len(pool) - 1)
    /\ rel' = [rel EXCEPT ![m] = "popped"]
    /\ UNCHANGED <<redis, stage, keeper>>

(* Mutant: a released lease stays in held.                                 *)
Bug_Unhold(m) ==
    /\ Alive
    /\ rel[m] = "popped"
    /\ rel' = [rel EXCEPT ![m] = "unheld"]
    /\ UNCHANGED <<redis, stage, pool, keeper>>

Unhold(m) ==
    /\ Alive
    /\ rel[m] = "popped"
    /\ held' = held \ {m}
    /\ rel' = [rel EXCEPT ![m] = "unheld"]
    /\ UNCHANGED <<redis, stage, pool, pending, deadline, queue, phase, refs, tick, missed>>

(* Mutant: removals are retried for the lifetime of the set, 2 TTLs.       *)
Bug_Defer(S) ==
    /\ pending' = pending \cup S
    /\ deadline' = [m \in Members |-> IF m \in S THEN 2 * Ttl ELSE deadline[m]]

(* Put the members of S into pending, to be retried for one TTL.           *)
Defer(S) ==
    /\ pending' = pending \cup S
    /\ deadline' = [m \in Members |-> IF m \in S THEN Ttl ELSE deadline[m]]

(* Mutant: a removal that finds the channel full is dropped.               *)
Bug_Send(m) ==
    /\ Alive
    /\ rel[m] = "unheld"
    /\ rel' = [rel EXCEPT ![m] = "sent"]
    /\ queue' = IF Cardinality(queue) < QueueCap THEN queue \cup {m} ELSE queue
    /\ UNCHANGED <<redis, stage, pool, held, pending, deadline, phase, refs, tick, missed>>

(* The channel takes the removal, or it is full.                           *)
Send(m) ==
    /\ Alive
    /\ rel[m] = "unheld"
    /\ rel' = [rel EXCEPT ![m] = "sent"]
    /\ IF Cardinality(queue) < QueueCap
       THEN queue' = queue \cup {m} /\ UNCHANGED <<pending, deadline>>
       ELSE Defer({m}) /\ UNCHANGED queue
    /\ UNCHANGED <<redis, stage, pool, held, phase, refs, tick, missed>>

-----------------------------------------------------------------------------
(* The keeper goroutine.                                                   *)

(* removeBatch: what is queued, up to BatchMax.                            *)
TakeBatch ==
    /\ phase = "idle"
    /\ \E B \in SUBSET queue :
          /\ B # {}
          /\ Cardinality(B) <= BatchMax
          /\ Cardinality(B) = BatchMax \/ B = queue
          /\ queue' = queue \ B
          /\ refs' = B
    /\ phase' = "removing"
    /\ UNCHANGED <<redis, callers, held, pending, deadline, tick, missed>>

(* The pipeline of ZREMs: it succeeds, or fails with any part of it done.  *)
RemoveSucceeds == avail /\ ZRem(refs) /\ UNCHANGED avail

RemoveFails ==
    /\ \E D \in SUBSET refs : (avail \/ D = {}) /\ ZRem(D)
    /\ avail' = FALSE

BatchRemoved ==
    /\ phase = "removing"
    /\ \/ RemoveSucceeds /\ UNCHANGED <<pending, deadline>>
       \/ RemoveFails /\ Defer(refs)
    /\ phase' = "idle"
    /\ refs' = {}
    /\ UNCHANGED <<callers, held, queue, tick, missed>>

(* renew: snapshot the held leases.                                        *)
RenewBegin ==
    /\ phase = "idle" /\ tick
    /\ tick' = FALSE
    /\ IF held = {} \/ ~avail
       THEN phase' = "sweep" /\ UNCHANGED refs
       ELSE phase' = "renewing" /\ refs' = held
    /\ missed' = IF held = {} THEN 0 ELSE missed
    /\ UNCHANGED <<redis, callers, held, pending, deadline, queue>>

(* The transaction of ZADDs runs as a whole or not at all.                 *)
Renewed ==
    /\ phase = "renewing"
    /\ \/ avail /\ ZAdd(refs) /\ missed' = 0 /\ UNCHANGED avail
       \/ avail /\ ZAdd(refs) /\ missed' = 0 /\ avail' = FALSE
       \/ avail' = FALSE /\ UNCHANGED <<left, missed>>
    /\ phase' = "sweep"
    /\ refs' = {}
    /\ UNCHANGED <<callers, held, pending, deadline, queue, tick>>

(* retryPending: forget removals whose deadline passed, retry the others.  *)
SweepBegin ==
    /\ phase = "sweep"
    /\ pending' = {m \in pending : deadline[m] > 0}
    /\ IF pending' = {} \/ ~avail
       THEN phase' = "idle" /\ UNCHANGED refs
       ELSE phase' = "sweeping" /\ refs' = pending'
    /\ UNCHANGED <<redis, callers, held, deadline, queue, tick, missed>>

Swept ==
    /\ phase = "sweeping"
    /\ \/ RemoveSucceeds /\ pending' = pending \ refs
       \/ RemoveFails /\ UNCHANGED pending
    /\ phase' = "idle"
    /\ refs' = {}
    /\ UNCHANGED <<callers, held, deadline, queue, tick, missed>>

(* The process shuts down cleanly: releaseAllOnClose.                      *)
Close ==
    /\ phase = "idle"
    /\ \/ ~avail /\ UNCHANGED redis
       \/ avail /\ UNCHANGED avail /\ ZRem(held \cup pending \cup queue)
       \/ /\ avail /\ avail' = FALSE
          /\ \E D \in SUBSET (held \cup pending \cup queue) : ZRem(D)
    /\ held' = {}
    /\ pending' = {}
    /\ queue' = {}
    /\ phase' = "stopped"
    /\ UNCHANGED <<callers, deadline, refs, tick, missed>>

-----------------------------------------------------------------------------
(* The environment.                                                        *)

(* No goroutine is in the middle of an acquisition or a release.           *)
Quiet == NoReleaseRunning /\ \A m \in Members : stage[m] \notin {"taken", "pooled"}

(* A third of the TTL passes; the keeper has dealt with the previous tick. *)
Tick ==
    /\ phase = "dead" \/ (Quiet /\ (phase = "stopped" \/ (phase = "idle" /\ ~tick)))
    /\ left' = [m \in Members |-> IF left[m] > 0 THEN left[m] - 1 ELSE 0]
    /\ deadline' = [m \in Members |-> IF deadline[m] > 0 THEN deadline[m] - 1 ELSE 0]
    /\ missed' = IF missed < Ttl THEN missed + 1 ELSE Ttl
    /\ tick' = (phase = "idle")
    /\ UNCHANGED <<avail, callers, held, pending, queue, phase, refs>>

(* A probe or another command changes the client's view of Redis.          *)
Probe ==
    /\ avail' = ~avail
    /\ UNCHANGED <<left, callers, keeper>>

(* The process dies with everything it knew.                               *)
Crash ==
    /\ Alive
    /\ phase' = "dead"
    /\ pool' = <<>>
    /\ held' = {}
    /\ pending' = {}
    /\ queue' = {}
    /\ refs' = {}
    /\ tick' = FALSE
    /\ UNCHANGED <<redis, stage, rel, deadline, missed>>

CallerStep(m) ==
    \/ AcquireLease(m)
    \/ AcquireLost(m)
    \/ Push(m)
    \/ Track(m)
    \/ Pop(m)
    \/ Unhold(m)
    \/ Send(m)

KeeperStep ==
    \/ TakeBatch
    \/ BatchRemoved
    \/ RenewBegin
    \/ Renewed
    \/ SweepBegin
    \/ Swept

Next ==
    \/ \E m \in Members : CallerStep(m)
    \/ KeeperStep
    \/ Close
    \/ Tick
    \/ Probe
    \/ Crash

Spec == Init /\ [][Next]_vars

(* Goroutines that can run do run and time passes.  Nothing makes requests *)
(* arrive or end, Redis come back or the process stop.                     *)
Fairness ==
    /\ \A m \in Members :
          /\ WF_vars(Push(m))
          /\ WF_vars(Track(m))
          /\ WF_vars(Unhold(m))
          /\ WF_vars(Send(m))
    /\ WF_vars(KeeperStep)
    /\ WF_vars(Tick)

LiveSpec == Spec /\ Fairness

-----------------------------------------------------------------------------
(* Properties.                                                             *)

FlagsOK == avail \in BOOLEAN /\ tick \in BOOLEAN

(* Types of the Redis set, the pool and the keeper's state; lifetimes and  *)
(* deadlines never exceed the TTL.                                         *)
TypeOK ==
    /\ FlagsOK
    /\ left \in [Members -> 0..Ttl]
    /\ stage \in [Members -> Stages]
    /\ rel \in [Members -> Releases]
    /\ pool \in Seq(Members)
    /\ held \subseteq Members
    /\ pending \subseteq Members
    /\ deadline \in [Members -> 0..Ttl]
    /\ queue \subseteq Members
    /\ phase \in Phases
    /\ refs \subseteq Members
    /\ missed \in 0..Ttl

InPool(m) == \E i \in 1..Len(pool) : pool[i] = m

Running == phase \notin {"stopped", "dead"}

(* A lease in the stack is counted by Redis as long as fewer than Ttl      *)
(* ticks passed since the keeper last renewed: two renewals in a row may   *)
(* fail before a running request stops being counted, whatever acquisitions*)
(* and releases happen meanwhile.                                          *)
OwnedIsCounted ==
    (Running /\ missed < Ttl) => \A m \in Members : InPool(m) => left[m] > 0

(* While the keeper runs, no lease in Redis is forgotten: somebody is      *)
(* about to own it, renews it, or will remove it, also when the channel is *)
(* full, Redis fails or a removal is given up at its deadline.  Only a     *)
(* lease whose reply was lost is left to expire.                           *)
NothingForgotten ==
    Running =>
        \A m \in Counted :
            \/ stage[m] \in {"taken", "pooled", "lost"}
            \/ rel[m] \in {"popped", "unheld"}
            \/ m \in held \cup queue \cup pending
            \/ phase = "removing" /\ m \in refs

(* A lease given back after it was tracked disappears from Redis for good, *)
(* at the latest when it expires; so does every lease of a process that stopped   *)
(* and every lease whose reply was lost.                                   *)
ReleasedVanishes ==
    \A m \in Members :
        /\ (rel[m] = "popped" /\ stage[m] = "tracked") ~> [](left[m] = 0)
        /\ (stage[m] = "lost") ~> [](left[m] = 0)
        /\ (~Alive) ~> [](left[m] = 0)

(* "release stops renewing a lease and removes it from Redis": a lease     *)
(* whose release has passed that point is not renewed again.               *)
ReleasedNotRenewed ==
    \A m \in Members : rel[m] \in {"unheld", "sent"} => m \notin held

-----------------------------------------------------------------------------
(* The inductive invariant behind OwnedIsCounted and NothingForgotten.     *)

(* Only a lease that was taken is in Redis, only a tracked one is held,    *)
(* only a released one waits for its removal.                              *)
StageState ==
    \A m \in Members :
        /\ stage[m] = "unused" => left[m] = 0
        /\ stage[m] \in {"unused", "taken"} => rel[m] = "no"
        /\ m \in held => stage[m] = "tracked"
        /\ m \in queue \cup pending => rel[m] = "sent"

(* The stack holds every lease at most once, and none that was released.   *)
PoolState ==
    /\ \A i \in 1..Len(pool) :
          stage[pool[i]] \in {"pooled", "tracked"} /\ rel[pool[i]] = "no"
    /\ \A i, j \in 1..Len(pool) : pool[i] = pool[j] => i = j

(* A batch of removals holds released leases; a lease released while a     *)
(* renewal of it is in flight has its removal queued behind the renewal,   *)
(* with a deadline that the renewal cannot outlive.                        *)
BatchState ==
    \A m \in refs :
        /\ phase \in {"removing", "sweeping"} => rel[m] = "sent"
        /\ phase = "renewing" =>
              /\ stage[m] = "tracked"
              /\ m \in held \/ rel[m] = "unheld" \/ m \in queue \cup pending
              /\ m \in pending \ held => deadline[m] = Ttl

Owned(m) == stage[m] \in {"taken", "pooled", "tracked"} /\ rel[m] = "no"

(* What is tracked and not released is held, a removal is not given up     *)
(* before its lease expires, and an owned lease has at least the TTL less  *)
(* the missed ticks to live.                                               *)
LeaseStateOf(m) ==
    /\ (stage[m] = "tracked" /\ rel[m] \in {"no", "popped"}) => m \in held
    /\ m \in pending \ held => left[m] <= deadline[m]
    /\ Owned(m) => left[m] >= Ttl - missed
    /\ (Owned(m) /\ stage[m] # "tracked") => left[m] = Ttl
    /\ (Owned(m) /\ phase = "renewing") => (m \in refs \/ left[m] = Ttl)

LeaseState == Running => \A m \in Members : LeaseStateOf(m)

IInv == TypeOK /\ StageState /\ PoolState /\ BatchState /\ LeaseState /\ NothingForgotten
=============================================================================
