--------------------------- MODULE LeaseKeeper_proofs ---------------------------
(***************************************************************************)
(* Proofs about LeaseKeeper, for any set of leases, any limit, TTL, channel *)
(* capacity and batch size.                                                *)
(***************************************************************************)
EXTENDS LeaseKeeper, SequenceTheorems, TLAPS

(* What is left of a stack after its top is popped.                        *)
LEMMA PoppedStack ==
    ASSUME NEW S, NEW s \in Seq(S), Len(s) > 0
    PROVE  /\ Len(SubSeq(s, 1, Len(s) - 1)) = Len(s) - 1
           /\ \A i \in 1..(Len(s) - 1) : SubSeq(s, 1, Len(s) - 1)[i] = s[i]
<1>1. Len(s) \in Nat /\ Len(s) - 1 \in Nat
  OBVIOUS
<1> DEFINE n == Len(s) - 1
<1>2. n \in Int /\ n >= 0 /\ \A i \in 1..n : s[i] \in S
  BY <1>1
<1>3. /\ Len(SubSeq(s, 1, n)) = IF 1 <= n THEN n - 1 + 1 ELSE 0
      /\ \A i \in 1..(n - 1 + 1) : SubSeq(s, 1, n)[i] = s[1 + i - 1]
  <2> HIDE DEF n
  <2> QED
    BY <1>2, SubSeqProperties
<1> HIDE DEF n
<1>4. /\ Len(SubSeq(s, 1, n)) = n
      /\ \A i \in 1..n : SubSeq(s, 1, n)[i] = s[i]
  BY <1>2, <1>3
<1> QED
  BY <1>4 DEF n

(* Init establishes the invariant.                                         *)
LEMMA InitIInv == Init => IInv
<1> SUFFICES ASSUME Init PROVE IInv
  OBVIOUS
<1> USE TtlAssumption DEF Init
<1>1. TypeOK
  <2>1. FlagsOK
    BY Zenon DEF FlagsOK
  <2> QED
    BY <2>1 DEF TypeOK, Stages, Releases, Phases
<1>2. StageState /\ PoolState /\ BatchState
  BY DEF StageState, PoolState, BatchState
<1>3. LeaseState /\ NothingForgotten
  BY DEF LeaseState, LeaseStateOf, NothingForgotten, Owned, Counted
<1> QED
  BY <1>1, <1>2, <1>3 DEF IInv

(* Every step keeps the flags Boolean.                                     *)
LEMMA NextFlagsOK == FlagsOK /\ [Next]_vars => FlagsOK'
<1> SUFFICES ASSUME FlagsOK, [Next]_vars PROVE FlagsOK'
  OBVIOUS
<1> USE DEF FlagsOK, redis, callers, keeper
<1>1. ASSUME NEW m \in Members, CallerStep(m) PROVE FlagsOK'
  BY <1>1, Zenon DEF CallerStep, AcquireLease, AcquireLost, Push, Track, Pop, Unhold, Send
<1>2. CASE TakeBatch \/ RenewBegin \/ SweepBegin
  BY <1>2, Zenon DEF TakeBatch, RenewBegin, SweepBegin
<1>3. CASE BatchRemoved \/ Renewed \/ Swept
  BY <1>3, Zenon DEF BatchRemoved, Renewed, Swept, RemoveSucceeds, RemoveFails
<1>4. CASE Close \/ Tick \/ Probe \/ Crash
  BY <1>4, Zenon DEF Close, Tick, Probe, Crash
<1>5. CASE UNCHANGED vars
  BY <1>5, Zenon DEF vars
<1> QED
  BY <1>1, <1>2, <1>3, <1>4, <1>5 DEF Next, KeeperStep

(* Every step keeps the types.                                             *)
LEMMA NextTypeOK == TypeOK /\ [Next]_vars => TypeOK'
<1> SUFFICES ASSUME TypeOK, [Next]_vars PROVE TypeOK'
  OBVIOUS
<1> USE TtlAssumption DEF TypeOK, Stages, Releases, Phases, redis, callers, keeper
<1>0. FlagsOK'
  BY NextFlagsOK
<1>1. ASSUME NEW m \in Members, AcquireLease(m) PROVE TypeOK'
  BY <1>0, <1>1 DEF AcquireLease, ZAdd
<1>2. ASSUME NEW m \in Members, AcquireLost(m) PROVE TypeOK'
  BY <1>0, <1>2 DEF AcquireLost, ZAdd
<1>3. ASSUME NEW m \in Members, Push(m) PROVE TypeOK'
  BY <1>0, <1>3 DEF Push
<1>4. ASSUME NEW m \in Members, Track(m) PROVE TypeOK'
  BY <1>0, <1>4 DEF Track
<1>5. ASSUME NEW m \in Members, Pop(m) PROVE TypeOK'
  BY <1>0, <1>5 DEF Pop
<1>6. ASSUME NEW m \in Members, Unhold(m) PROVE TypeOK'
  BY <1>0, <1>6 DEF Unhold
<1>7. ASSUME NEW m \in Members, Send(m) PROVE TypeOK'
  BY <1>0, <1>7 DEF Send, Defer
<1>8. CASE TakeBatch
  BY <1>0, <1>8 DEF TakeBatch
<1>9. CASE BatchRemoved
  <2>1. PICK D \in SUBSET Members : left' = [m \in Members |-> IF m \in D THEN 0 ELSE left[m]]
    BY <1>9, Zenon DEF BatchRemoved, RemoveSucceeds, RemoveFails, ZRem
  <2>2. /\ phase' = "idle" /\ refs' = {}
        /\ UNCHANGED <<callers, held, queue, missed>>
    BY <1>9, Zenon DEF BatchRemoved
  <2>3. \/ UNCHANGED <<pending, deadline>>
        \/ Defer(refs)
    BY <1>9, Zenon DEF BatchRemoved
  <2> QED
    BY <1>0, <2>1, <2>2, <2>3 DEF Defer
<1>10. CASE RenewBegin
  BY <1>0, <1>10 DEF RenewBegin
<1>11. CASE Renewed
  <2>1. \/ ZAdd(refs) /\ missed' = 0
        \/ UNCHANGED <<left, missed>>
    BY <1>11, Zenon DEF Renewed
  <2>2. /\ phase' = "sweep" /\ refs' = {}
        /\ UNCHANGED <<callers, held, pending, deadline, queue>>
    BY <1>11, Zenon DEF Renewed
  <2>3. left' \in [Members -> 0..Ttl] /\ missed' \in 0..Ttl
    <3>1. CASE ZAdd(refs) /\ missed' = 0
      BY <3>1 DEF ZAdd
    <3>2. CASE UNCHANGED <<left, missed>>
      BY <3>2
    <3> QED
      BY <2>1, <3>1, <3>2
  <2> QED
    BY <1>0, <2>2, <2>3
<1>12. CASE SweepBegin
  BY <1>0, <1>12 DEF SweepBegin
<1>13. CASE Swept
  BY <1>0, <1>13 DEF Swept, RemoveSucceeds, RemoveFails, ZRem
<1>14. CASE Close
  BY <1>0, <1>14 DEF Close, ZRem
<1>15. CASE Tick
  BY <1>0, <1>15 DEF Tick
<1>16. CASE Probe
  BY <1>0, <1>16 DEF Probe
<1>17. CASE Crash
  BY <1>0, <1>17 DEF Crash
<1>18. CASE UNCHANGED vars
  BY <1>0, <1>18 DEF vars
<1> QED
  BY <1>1, <1>2, <1>3, <1>4, <1>5, <1>6, <1>7, <1>8, <1>9, <1>10, <1>11, <1>12,
     <1>13, <1>14, <1>15, <1>16, <1>17, <1>18 DEF Next, CallerStep, KeeperStep

(* Every step keeps the stack free of duplicates and of released leases.   *)
LEMMA NextPoolState == IInv /\ [Next]_vars => PoolState'
<1> SUFFICES ASSUME TypeOK, StageState, PoolState, [Next]_vars PROVE PoolState'
  BY DEF IInv
<1> USE DEF redis, callers, keeper
<1>0. /\ pool \in Seq(Members) /\ stage \in [Members -> Stages]
      /\ rel \in [Members -> Releases]
  BY DEF TypeOK
<1>a. ASSUME UNCHANGED pool,
             \A i \in 1..Len(pool) :
                stage'[pool[i]] \in {"pooled", "tracked"} /\ rel'[pool[i]] = rel[pool[i]]
      PROVE  PoolState'
  BY <1>a DEF PoolState
<1>1. ASSUME NEW m \in Members, AcquireLease(m) \/ AcquireLost(m) \/ Track(m) PROVE PoolState'
  <2>1. UNCHANGED <<pool, rel>>
    BY <1>1, Zenon DEF AcquireLease, AcquireLost, Track
  <2>2. \/ stage[m] = "unused" /\ stage' = [stage EXCEPT ![m] = "taken"]
        \/ stage[m] = "unused" /\ stage' = [stage EXCEPT ![m] = "lost"]
        \/ stage' = [stage EXCEPT ![m] = "tracked"]
    BY <1>1, Zenon DEF AcquireLease, AcquireLost, Track
  <2>3. ASSUME NEW i \in 1..Len(pool) PROVE stage'[pool[i]] \in {"pooled", "tracked"}
    <3>1. pool[i] \in Members /\ stage[pool[i]] \in {"pooled", "tracked"}
      BY <1>0 DEF PoolState
    <3> QED
      BY <1>0, <2>2, <3>1
  <2> QED
    BY <1>a, <2>1, <2>3
<1>2. ASSUME NEW m \in Members, Push(m) PROVE PoolState'
  <2>1. /\ pool' = Append(pool, m) /\ stage' = [stage EXCEPT ![m] = "pooled"]
        /\ stage[m] = "taken" /\ UNCHANGED rel
    BY <1>2, Zenon DEF Push
  <2>2. rel[m] = "no"
    BY <2>1 DEF StageState
  <2>3. \A i \in 1..Len(pool) : pool[i] \in Members /\ pool[i] # m
    BY <1>0, <2>1 DEF PoolState
  <2>4. /\ Len(pool') = Len(pool) + 1 /\ pool'[Len(pool) + 1] = m
        /\ \A i \in 1..Len(pool) : pool'[i] = pool[i]
    BY <1>0, <2>1
  <2>5. ASSUME NEW i \in 1..Len(pool')
        PROVE  stage'[pool'[i]] \in {"pooled", "tracked"} /\ rel'[pool'[i]] = "no"
    <3>1. CASE i = Len(pool) + 1
      BY <1>0, <2>1, <2>2, <2>4, <3>1
    <3>2. CASE i \in 1..Len(pool)
      <4>1. pool'[i] = pool[i] /\ pool[i] \in Members /\ pool[i] # m
        BY <2>3, <2>4, <3>2
      <4>2. stage[pool[i]] \in {"pooled", "tracked"} /\ rel[pool[i]] = "no"
        BY <3>2 DEF PoolState
      <4> QED
        BY <1>0, <2>1, <4>1, <4>2
    <3> QED
      BY <1>0, <2>4, <3>1, <3>2
  <2>6. ASSUME NEW i \in 1..Len(pool'), NEW j \in 1..Len(pool'), pool'[i] = pool'[j]
        PROVE  i = j
    BY <1>0, <2>3, <2>4, <2>6 DEF PoolState
  <2> QED
    BY <2>5, <2>6 DEF PoolState
<1>3. ASSUME NEW m \in Members, Pop(m) PROVE PoolState'
  <2>1. /\ pool' = SubSeq(pool, 1, Len(pool) - 1) /\ rel' = [rel EXCEPT ![m] = "popped"]
        /\ Len(pool) > 0 /\ pool[Len(pool)] = m /\ UNCHANGED stage
    BY <1>3, Zenon DEF Pop
  <2>2. /\ Len(pool') = Len(pool) - 1
        /\ \A i \in 1..Len(pool') : i \in 1..Len(pool) /\ i # Len(pool) /\ pool'[i] = pool[i]
    <3> DEFINE n == Len(pool) - 1
    <3>1. Len(pool) \in Nat /\ n \in Nat /\ n < Len(pool)
      BY <1>0, <2>1
    <3>2. Len(pool') = n /\ \A i \in 1..n : pool'[i] = pool[i]
      BY <1>0, <2>1, PoppedStack
    <3> QED
      BY <3>1, <3>2
  <2>3. ASSUME NEW i \in 1..Len(pool')
        PROVE  stage'[pool'[i]] \in {"pooled", "tracked"} /\ rel'[pool'[i]] = "no"
    <3>1. pool'[i] = pool[i] /\ i \in 1..Len(pool) /\ i # Len(pool)
      BY <2>2
    <3>2. Len(pool) \in 1..Len(pool)
      BY <1>0, <2>1
    <3>3. pool[i] # m /\ pool[i] \in Members
      BY <1>0, <2>1, <3>1, <3>2 DEF PoolState
    <3>4. stage[pool[i]] \in {"pooled", "tracked"} /\ rel[pool[i]] = "no"
      BY <3>1 DEF PoolState
    <3> QED
      BY <1>0, <2>1, <3>1, <3>3, <3>4
  <2>4. ASSUME NEW i \in 1..Len(pool'), NEW j \in 1..Len(pool'), pool'[i] = pool'[j]
        PROVE  i = j
    BY <2>2, <2>4 DEF PoolState
  <2> QED
    BY <2>3, <2>4 DEF PoolState
<1>4. ASSUME NEW m \in Members, Unhold(m) \/ Send(m) PROVE PoolState'
  <2>1. UNCHANGED <<pool, stage>> /\ rel[m] # "no"
    BY <1>4 DEF Unhold, Send
  <2>2. \E x : rel' = [rel EXCEPT ![m] = x]
    BY <1>4, Zenon DEF Unhold, Send
  <2>3. ASSUME NEW i \in 1..Len(pool) PROVE rel'[pool[i]] = rel[pool[i]]
    <3>1. pool[i] \in Members /\ rel[pool[i]] = "no"
      BY <1>0 DEF PoolState
    <3> QED
      BY <1>0, <2>1, <2>2, <3>1
  <2> QED
    BY <1>a, <2>1, <2>3 DEF PoolState
<1>5. CASE UNCHANGED callers
  BY <1>5 DEF PoolState
<1>6. CASE Crash
  <2>1. pool' = <<>>
    BY <1>6, Zenon DEF Crash
  <2> QED
    BY <2>1 DEF PoolState
<1>7. CASE KeeperStep \/ Close \/ Tick \/ Probe \/ UNCHANGED vars
  BY <1>5, <1>7, Zenon DEF KeeperStep, TakeBatch, BatchRemoved, RenewBegin, Renewed, SweepBegin,
     Swept, Close, Tick, Probe, vars
<1> QED
  BY <1>1, <1>2, <1>3, <1>4, <1>6, <1>7 DEF Next, CallerStep

(* The top of the stack is a lease that has not been released.             *)
LEMMA PopsOwned ==
    ASSUME TypeOK, PoolState, NEW m \in Members, Len(pool) > 0, pool[Len(pool)] = m
    PROVE  stage[m] \in {"pooled", "tracked"} /\ rel[m] = "no"
<1>1. Len(pool) \in 1..Len(pool)
  BY DEF TypeOK
<1> QED
  BY <1>1 DEF PoolState

(* Every step keeps the stages of acquisitions and releases in order.      *)
LEMMA NextStageState == IInv /\ [Next]_vars => StageState'
<1> SUFFICES ASSUME TypeOK, StageState, PoolState, BatchState, [Next]_vars PROVE StageState'
  BY DEF IInv
<1> USE DEF redis, callers, keeper
<1>0. /\ left \in [Members -> 0..Ttl] /\ stage \in [Members -> Stages]
      /\ rel \in [Members -> Releases] /\ Ttl \in Nat
  BY TtlAssumption DEF TypeOK
<1>1. ASSUME NEW m \in Members, AcquireLease(m) \/ AcquireLost(m) PROVE StageState'
  <2>1. /\ stage[m] = "unused" /\ ZAdd({m})
        /\ stage' = [stage EXCEPT ![m] = "taken"] \/ stage' = [stage EXCEPT ![m] = "lost"]
        /\ UNCHANGED <<rel, held, queue, pending>>
    BY <1>1, Zenon DEF AcquireLease, AcquireLost
  <2> QED
    BY <1>0, <2>1 DEF StageState, ZAdd
<1>2. ASSUME NEW m \in Members, Push(m) PROVE StageState'
  BY <1>0, <1>2 DEF Push, StageState
<1>3. ASSUME NEW m \in Members, Track(m) PROVE StageState'
  BY <1>0, <1>3 DEF Track, StageState
<1>4. ASSUME NEW m \in Members, Pop(m) PROVE StageState'
  <2>1. rel' = [rel EXCEPT ![m] = "popped"] /\ UNCHANGED <<left, stage, held, queue, pending>>
    BY <1>4, Zenon DEF Pop
  <2>2. stage[m] \in {"pooled", "tracked"} /\ rel[m] = "no"
    BY <1>4, PopsOwned DEF Pop
  <2> QED
    BY <1>0, <2>1, <2>2 DEF StageState
<1>5. ASSUME NEW m \in Members, Unhold(m) PROVE StageState'
  BY <1>0, <1>5 DEF Unhold, StageState
<1>6. ASSUME NEW m \in Members, Send(m) PROVE StageState'
  BY <1>0, <1>6 DEF Send, StageState, Defer
<1>7. CASE TakeBatch \/ RenewBegin
  BY <1>7 DEF TakeBatch, RenewBegin, StageState
<1>8. CASE SweepBegin
  BY <1>8 DEF SweepBegin, StageState
<1>9. CASE BatchRemoved \/ Swept
  <2>1. PICK D \in SUBSET Members : left' = [m \in Members |-> IF m \in D THEN 0 ELSE left[m]]
    BY <1>9, Zenon DEF BatchRemoved, Swept, RemoveSucceeds, RemoveFails, ZRem, TypeOK
  <2>2. UNCHANGED <<stage, rel, held, queue>>
    BY <1>9, Zenon DEF BatchRemoved, Swept
  <2>3. pending' \subseteq pending \cup refs /\ phase \in {"removing", "sweeping"}
    BY <1>9, Zenon DEF BatchRemoved, Swept, Defer
  <2> QED
    BY <1>0, <2>1, <2>2, <2>3 DEF StageState, BatchState, TypeOK
<1>10. CASE Renewed
  <2>1. /\ phase = "renewing" /\ UNCHANGED <<stage, rel, held, queue, pending>>
        /\ ZAdd(refs) \/ UNCHANGED left
    BY <1>10, Zenon DEF Renewed
  <2> QED
    BY <1>0, <2>1 DEF StageState, BatchState, ZAdd
<1>11. CASE Close
  <2>1. PICK D \in SUBSET Members : left' = [m \in Members |-> IF m \in D THEN 0 ELSE left[m]]
    <3>1. CASE UNCHANGED redis
      <4>1. left' = [m \in Members |-> IF m \in {} THEN 0 ELSE left[m]]
        BY <1>0, <3>1
      <4>2. {} \in SUBSET Members
        OBVIOUS
      <4> QED
        BY <4>1, <4>2, Zenon
    <3>2. CASE \E D \in SUBSET (held \cup pending \cup queue) : ZRem(D)
      BY <3>2 DEF ZRem, TypeOK
    <3> QED
      BY <1>11, <3>1, <3>2, Zenon DEF Close
  <2>2. UNCHANGED <<stage, rel>> /\ held' = {} /\ queue' = {} /\ pending' = {}
    BY <1>11, Zenon DEF Close
  <2> QED
    BY <1>0, <2>1, <2>2 DEF StageState
<1>12. CASE Tick
  BY <1>0, <1>12 DEF Tick, StageState
<1>13. CASE Crash
  BY <1>13 DEF Crash, StageState
<1>14. CASE Probe \/ UNCHANGED vars
  <2>1. UNCHANGED <<left, stage, rel, held, queue, pending>>
    BY <1>14, Zenon DEF Probe, vars
  <2> QED
    BY <2>1 DEF StageState
<1> QED
  BY <1>1, <1>2, <1>3, <1>4, <1>5, <1>6, <1>7, <1>8, <1>9, <1>10, <1>11, <1>12, <1>13, <1>14
  DEF Next, CallerStep, KeeperStep, IInv

(* Every step keeps the keeper's batch in order: in particular, nothing is *)
(* released during a renewal without its removal being queued behind it.   *)
LEMMA NextBatchState == IInv /\ [Next]_vars => BatchState'
<1> SUFFICES ASSUME TypeOK, StageState, PoolState, BatchState, [Next]_vars PROVE BatchState'
  BY DEF IInv
<1> USE DEF redis, callers, keeper
<1>0. /\ stage \in [Members -> Stages] /\ rel \in [Members -> Releases] /\ refs \subseteq Members
      /\ deadline \in [Members -> 0..Ttl] /\ held \subseteq Members
  BY DEF TypeOK
<1>1. ASSUME NEW m \in Members, AcquireLease(m) \/ AcquireLost(m) \/ Push(m) PROVE BatchState'
  <2>1. /\ stage[m] # "tracked"
        /\ UNCHANGED <<rel, held, queue, pending, deadline, phase, refs>>
    BY <1>1 DEF AcquireLease, AcquireLost, Push
  <2>2. \E v : stage' = [stage EXCEPT ![m] = v]
    BY <1>1, Zenon DEF AcquireLease, AcquireLost, Push
  <2> QED
    BY <1>0, <2>1, <2>2 DEF BatchState
<1>2. ASSUME NEW m \in Members, Track(m) PROVE BatchState'
  BY <1>0, <1>2 DEF Track, BatchState
<1>3. ASSUME NEW m \in Members, Pop(m) PROVE BatchState'
  <2>1. /\ rel' = [rel EXCEPT ![m] = "popped"]
        /\ UNCHANGED <<stage, held, queue, pending, deadline, phase, refs>>
    BY <1>3, Zenon DEF Pop
  <2>2. rel[m] = "no"
    BY <1>3, PopsOwned DEF Pop
  <2> QED
    BY <1>0, <2>1, <2>2 DEF BatchState
<1>4. ASSUME NEW m \in Members, Unhold(m) PROVE BatchState'
  <2>1. /\ rel[m] = "popped" /\ rel' = [rel EXCEPT ![m] = "unheld"] /\ held' = held \ {m}
        /\ UNCHANGED <<stage, queue, pending, deadline, phase, refs>>
    BY <1>4, Zenon DEF Unhold
  <2>2. m \notin pending
    BY <2>1 DEF StageState
  <2> QED
    BY <1>0, <2>1, <2>2 DEF BatchState
<1>5. ASSUME NEW m \in Members, Send(m) PROVE BatchState'
  <2>1. /\ rel[m] = "unheld" /\ rel' = [rel EXCEPT ![m] = "sent"]
        /\ UNCHANGED <<stage, held, phase, refs>>
    BY <1>5, Zenon DEF Send
  <2>2. \/ queue' = queue \cup {m} /\ UNCHANGED <<pending, deadline>>
        \/ Defer({m}) /\ UNCHANGED queue
    BY <1>5, Zenon DEF Send
  <2> QED
    BY <1>0, <2>1, <2>2 DEF BatchState, Defer
<1>6. CASE TakeBatch
  <2>1. refs' \subseteq queue /\ phase' = "removing" /\ UNCHANGED rel
    BY <1>6, Zenon DEF TakeBatch
  <2> QED
    BY <1>0, <2>1 DEF BatchState, StageState, TypeOK
<1>7. CASE BatchRemoved \/ Renewed \/ Swept
  <2>1. refs' = {}
    BY <1>7, Zenon DEF BatchRemoved, Renewed, Swept
  <2> QED
    BY <2>1 DEF BatchState
<1>8. CASE RenewBegin
  <2>1. /\ UNCHANGED <<callers, held, queue, pending, deadline>>
        /\ phase' = "sweep" \/ (phase' = "renewing" /\ refs' = held)
    BY <1>8, Zenon DEF RenewBegin
  <2> QED
    BY <1>0, <2>1 DEF BatchState, StageState
<1>9. CASE SweepBegin
  <2>1. /\ UNCHANGED rel /\ pending' \subseteq pending
        /\ phase' = "idle" \/ (phase' = "sweeping" /\ refs' = pending')
    BY <1>9, Zenon DEF SweepBegin
  <2> QED
    BY <1>0, <2>1 DEF BatchState, StageState, TypeOK
<1>10. CASE Close \/ Tick \/ Crash
  <2>1. phase' \in {"stopped", "dead", "idle"}
    BY <1>10 DEF Close, Tick, Crash
  <2> QED
    BY <2>1 DEF BatchState
<1>11. CASE Probe \/ UNCHANGED vars
  <2>1. UNCHANGED <<stage, rel, held, queue, pending, deadline, phase, refs>>
    BY <1>11, Zenon DEF Probe, vars
  <2> QED
    BY <2>1 DEF BatchState
<1> QED
  BY <1>1, <1>2, <1>3, <1>4, <1>5, <1>6, <1>7, <1>8, <1>9, <1>10, <1>11
  DEF Next, CallerStep, KeeperStep

(* While the keeper runs, every step keeps what it holds, how long owned   *)
(* leases live and how long failed removals are retried.                   *)
LEMMA NextLeaseState == IInv /\ [Next]_vars => LeaseState'
<1> SUFFICES ASSUME IInv, [Next]_vars, Running', NEW x \in Members PROVE LeaseStateOf(x)'
  BY DEF LeaseState
<1> USE DEF redis, callers, keeper, Owned
<1>0. /\ stage \in [Members -> Stages] /\ rel \in [Members -> Releases] /\ refs \subseteq Members
      /\ deadline \in [Members -> 0..Ttl] /\ left \in [Members -> 0..Ttl]
      /\ missed \in 0..Ttl /\ Ttl \in Nat
  BY TtlAssumption DEF IInv, TypeOK
<1>a. Running => LeaseStateOf(x)
  BY DEF IInv, LeaseState
<1>b. /\ stage[x] \in {"unused", "taken"} => rel[x] = "no"
      /\ x \in held => stage[x] = "tracked"
      /\ x \in queue \cup pending => rel[x] = "sent"
  BY DEF IInv, StageState
<1>c. /\ x \in refs /\ phase \in {"removing", "sweeping"} => rel[x] = "sent"
      /\ x \in refs /\ phase = "renewing" /\ x \in pending \ held => deadline[x] = Ttl
  BY DEF IInv, BatchState
<1>1. ASSUME NEW m \in Members, AcquireLease(m) \/ AcquireLost(m) PROVE LeaseStateOf(x)'
  <2>1. /\ stage[m] = "unused" /\ ZAdd({m})
        /\ stage' = [stage EXCEPT ![m] = "taken"] \/ stage' = [stage EXCEPT ![m] = "lost"]
        /\ UNCHANGED <<rel, held, queue, pending, deadline, missed, phase, refs>>
    BY <1>1, Zenon DEF AcquireLease, AcquireLost
  <2>2. LeaseStateOf(x)
    BY <1>a, <2>1 DEF Running
  <2> QED
    BY <1>0, <1>b, <2>1, <2>2 DEF LeaseStateOf, ZAdd
<1>2. ASSUME NEW m \in Members, Push(m) PROVE LeaseStateOf(x)'
  <2>1. /\ stage[m] = "taken" /\ stage' = [stage EXCEPT ![m] = "pooled"]
        /\ UNCHANGED <<left, rel, held, queue, pending, deadline, missed, phase, refs>>
    BY <1>2, Zenon DEF Push
  <2>2. LeaseStateOf(x)
    BY <1>a, <2>1 DEF Running
  <2> QED
    BY <1>0, <2>1, <2>2 DEF LeaseStateOf
<1>3. ASSUME NEW m \in Members, Track(m) PROVE LeaseStateOf(x)'
  <2>1. /\ stage[m] = "pooled" /\ stage' = [stage EXCEPT ![m] = "tracked"]
        /\ held' = held \cup {m}
        /\ UNCHANGED <<left, rel, queue, pending, deadline, missed, phase, refs>>
    BY <1>3, Zenon DEF Track
  <2>2. LeaseStateOf(x)
    BY <1>a, <2>1 DEF Running
  <2> QED
    BY <1>0, <2>1, <2>2 DEF LeaseStateOf
<1>4. ASSUME NEW m \in Members, Pop(m) PROVE LeaseStateOf(x)'
  <2>1. /\ rel' = [rel EXCEPT ![m] = "popped"]
        /\ UNCHANGED <<left, stage, held, queue, pending, deadline, missed, phase, refs>>
    BY <1>4, Zenon DEF Pop
  <2>2. LeaseStateOf(x)
    BY <1>a, <2>1 DEF Running
  <2>3. rel[m] = "no"
    BY <1>4, PopsOwned DEF Pop, IInv
  <2> QED
    BY <1>0, <2>1, <2>2, <2>3 DEF LeaseStateOf
<1>5. ASSUME NEW m \in Members, Unhold(m) PROVE LeaseStateOf(x)'
  <2>1. /\ rel[m] = "popped" /\ rel' = [rel EXCEPT ![m] = "unheld"] /\ held' = held \ {m}
        /\ UNCHANGED <<left, stage, queue, pending, deadline, missed, phase, refs>>
    BY <1>5, Zenon DEF Unhold
  <2>2. LeaseStateOf(x)
    BY <1>a, <2>1 DEF Running
  <2> QED
    BY <1>0, <1>b, <2>1, <2>2 DEF LeaseStateOf
<1>6. ASSUME NEW m \in Members, Send(m) PROVE LeaseStateOf(x)'
  <2>1. /\ rel[m] = "unheld" /\ rel' = [rel EXCEPT ![m] = "sent"]
        /\ UNCHANGED <<left, stage, held, missed, phase, refs>>
    BY <1>6, Zenon DEF Send
  <2>2. \/ UNCHANGED <<pending, deadline>>
        \/ Defer({m})
    BY <1>6, Zenon DEF Send
  <2>3. LeaseStateOf(x)
    BY <1>a, <2>1 DEF Running
  <2> QED
    BY <1>0, <2>1, <2>2, <2>3 DEF LeaseStateOf, Defer
<1>7. CASE TakeBatch
  <2>1. /\ phase = "idle" /\ phase' = "removing"
        /\ UNCHANGED <<left, stage, rel, held, pending, deadline, missed>>
    BY <1>7, Zenon DEF TakeBatch
  <2>2. LeaseStateOf(x)
    BY <1>a, <2>1 DEF Running
  <2> QED
    BY <2>1, <2>2 DEF LeaseStateOf
<1>8. CASE BatchRemoved \/ Swept
  <2>1. /\ phase \in {"removing", "sweeping"} /\ phase' = "idle"
        /\ UNCHANGED <<stage, rel, held, missed>>
    BY <1>8, Zenon DEF BatchRemoved, Swept
  <2>2. PICK D \in SUBSET refs : left' = [m \in Members |-> IF m \in D THEN 0 ELSE left[m]]
    BY <1>8, Zenon DEF BatchRemoved, Swept, RemoveSucceeds, RemoveFails, ZRem
  <2>3. \/ UNCHANGED <<pending, deadline>>
        \/ pending' = pending \ refs /\ UNCHANGED deadline
        \/ Defer(refs)
    BY <1>8, Zenon DEF BatchRemoved, Swept
  <2>4. LeaseStateOf(x)
    BY <1>a, <2>1 DEF Running
  <2>5. x \in D => rel[x] = "sent"
    BY <1>c, <2>1
  <2>6. left'[x] \in 0..Ttl /\ left'[x] <= left[x] /\ (x \notin D => left'[x] = left[x])
    BY <1>0, <2>2
  <2>7. (x \in pending \ held => left[x] <= deadline[x])'
    BY <1>0, <2>1, <2>3, <2>4, <2>6 DEF LeaseStateOf, Defer
  <2> QED
    BY <2>1, <2>4, <2>5, <2>6, <2>7 DEF LeaseStateOf
<1>9. CASE RenewBegin
  <2>1. /\ phase = "idle"
        /\ phase' = "sweep" \/ (phase' = "renewing" /\ refs' = held)
        /\ missed' = (IF held = {} THEN 0 ELSE missed)
        /\ UNCHANGED <<left, stage, rel, held, pending, deadline>>
    BY <1>9, Zenon DEF RenewBegin
  <2>2. LeaseStateOf(x)
    BY <1>a, <2>1 DEF Running
  <2> QED
    BY <1>0, <2>1, <2>2 DEF LeaseStateOf, Stages
<1>10. CASE Renewed
  <2>1. /\ phase = "renewing" /\ phase' = "sweep"
        /\ (ZAdd(refs) /\ missed' = 0) \/ UNCHANGED <<left, missed>>
        /\ UNCHANGED <<stage, rel, held, pending, deadline>>
    BY <1>10, Zenon DEF Renewed
  <2>2. LeaseStateOf(x)
    BY <1>a, <2>1 DEF Running
  <2> QED
    BY <1>0, <1>c, <2>1, <2>2 DEF LeaseStateOf, ZAdd
<1>11. CASE SweepBegin
  <2>1. /\ phase = "sweep" /\ phase' \in {"idle", "sweeping"} /\ pending' \subseteq pending
        /\ UNCHANGED <<left, stage, rel, held, deadline, missed>>
    BY <1>11 DEF SweepBegin
  <2>2. LeaseStateOf(x)
    BY <1>a, <2>1 DEF Running
  <2> QED
    BY <2>1, <2>2 DEF LeaseStateOf
<1>12. CASE Tick
  <2>1. /\ UNCHANGED <<stage, rel, held, pending, phase, refs>>
        /\ left' = [m \in Members |-> IF left[m] > 0 THEN left[m] - 1 ELSE 0]
        /\ deadline' = [m \in Members |-> IF deadline[m] > 0 THEN deadline[m] - 1 ELSE 0]
        /\ missed' = (IF missed < Ttl THEN missed + 1 ELSE Ttl)
    BY <1>12, Zenon DEF Tick
  <2>2. LeaseStateOf(x) /\ phase = "idle" /\ stage[x] \notin {"taken", "pooled"}
    BY <1>a, <1>12, <2>1 DEF Running, Tick, Quiet
  <2> QED
    BY <1>0, <2>1, <2>2 DEF LeaseStateOf
<1>13. CASE Probe \/ UNCHANGED vars
  <2>1. UNCHANGED <<left, stage, rel, held, queue, pending, deadline, missed, phase, refs>>
    BY <1>13, Zenon DEF Probe, vars
  <2>2. LeaseStateOf(x)
    BY <1>a, <2>1 DEF Running
  <2> QED
    BY <2>1, <2>2 DEF LeaseStateOf
<1>14. CASE Close \/ Crash
  BY <1>14 DEF Close, Crash, Running
<1> QED
  BY <1>1, <1>2, <1>3, <1>4, <1>5, <1>6, <1>7, <1>8, <1>9, <1>10, <1>11, <1>12, <1>13, <1>14
  DEF Next, CallerStep, KeeperStep

(* While the keeper runs, no step makes it lose sight of a lease that      *)
(* Redis still counts.                                                     *)
LEMMA NextNothingForgotten == IInv /\ [Next]_vars => NothingForgotten'
<1> DEFINE Planned(m) == \/ stage[m] \in {"taken", "pooled", "lost"}
                         \/ rel[m] \in {"popped", "unheld"}
                         \/ m \in held \cup queue \cup pending
                         \/ phase = "removing" /\ m \in refs
<1> SUFFICES ASSUME IInv, [Next]_vars, Running', NEW x \in Members, left'[x] > 0
             PROVE  Planned(x)'
  BY DEF NothingForgotten, Counted
<1> USE DEF redis, callers, keeper
<1>0. /\ stage \in [Members -> Stages] /\ rel \in [Members -> Releases] /\ refs \subseteq Members
      /\ deadline \in [Members -> 0..Ttl] /\ left \in [Members -> 0..Ttl] /\ Ttl \in Nat
  BY TtlAssumption DEF IInv, TypeOK
<1>a. Running /\ left[x] > 0 => Planned(x)
  BY <1>0 DEF IInv, NothingForgotten, Counted
<1>1. ASSUME NEW m \in Members, AcquireLease(m) \/ AcquireLost(m) PROVE Planned(x)'
  <2>1. /\ stage[m] = "unused" /\ ZAdd({m})
        /\ stage' = [stage EXCEPT ![m] = "taken"] \/ stage' = [stage EXCEPT ![m] = "lost"]
        /\ UNCHANGED <<rel, held, queue, pending, phase, refs>>
    BY <1>1, Zenon DEF AcquireLease, AcquireLost
  <2> QED
    BY <1>0, <1>a, <2>1 DEF ZAdd, Running
<1>2. ASSUME NEW m \in Members, Push(m) PROVE Planned(x)'
  <2>1. /\ stage' = [stage EXCEPT ![m] = "pooled"]
        /\ UNCHANGED <<left, rel, held, queue, pending, phase, refs>>
    BY <1>2, Zenon DEF Push
  <2> QED
    BY <1>0, <1>a, <2>1 DEF Running
<1>3. ASSUME NEW m \in Members, Track(m) PROVE Planned(x)'
  <2>1. /\ stage' = [stage EXCEPT ![m] = "tracked"] /\ held' = held \cup {m}
        /\ UNCHANGED <<left, rel, queue, pending, phase, refs>>
    BY <1>3, Zenon DEF Track
  <2> QED
    BY <1>0, <1>a, <2>1 DEF Running
<1>4. ASSUME NEW m \in Members, Pop(m) PROVE Planned(x)'
  <2>1. /\ rel' = [rel EXCEPT ![m] = "popped"]
        /\ UNCHANGED <<left, stage, held, queue, pending, phase, refs>>
    BY <1>4, Zenon DEF Pop
  <2> QED
    BY <1>0, <1>a, <2>1 DEF Running
<1>5. ASSUME NEW m \in Members, Unhold(m) PROVE Planned(x)'
  <2>1. /\ rel' = [rel EXCEPT ![m] = "unheld"] /\ held' = held \ {m}
        /\ UNCHANGED <<left, stage, queue, pending, phase, refs>>
    BY <1>5, Zenon DEF Unhold
  <2> QED
    BY <1>0, <1>a, <2>1 DEF Running
<1>6. ASSUME NEW m \in Members, Send(m) PROVE Planned(x)'
  <2>1. /\ rel' = [rel EXCEPT ![m] = "sent"] /\ UNCHANGED <<left, stage, held, phase, refs>>
        /\ \/ queue' = queue \cup {m} /\ UNCHANGED pending
           \/ pending' = pending \cup {m} /\ UNCHANGED queue
    BY <1>6, Zenon DEF Send, Defer
  <2> QED
    BY <1>0, <1>a, <2>1 DEF Running
<1>7. CASE TakeBatch
  <2>1. /\ phase = "idle" /\ phase' = "removing" /\ queue' = queue \ refs'
        /\ UNCHANGED <<left, stage, rel, held, pending>>
    BY <1>7, Zenon DEF TakeBatch
  <2> QED
    BY <1>0, <1>a, <2>1 DEF Running
<1>8. CASE BatchRemoved
  <2>1. /\ phase = "removing" /\ UNCHANGED <<stage, rel, held, queue>>
        /\ \/ ZRem(refs) /\ UNCHANGED pending
           \/ (\E D \in SUBSET refs : ZRem(D)) /\ pending' = pending \cup refs
    BY <1>8, Zenon DEF BatchRemoved, RemoveSucceeds, RemoveFails, Defer
  <2> QED
    BY <1>0, <1>a, <2>1 DEF Running, ZRem
<1>9. CASE Swept
  <2>1. /\ phase = "sweeping" /\ UNCHANGED <<stage, rel, held, queue>>
        /\ \/ ZRem(refs) /\ pending' = pending \ refs
           \/ (\E D \in SUBSET refs : ZRem(D)) /\ UNCHANGED pending
    BY <1>9, Zenon DEF Swept, RemoveSucceeds, RemoveFails
  <2> QED
    BY <1>0, <1>a, <2>1 DEF Running, ZRem
<1>10. CASE RenewBegin
  <2>1. phase = "idle" /\ UNCHANGED <<left, stage, rel, held, queue, pending>>
    BY <1>10, Zenon DEF RenewBegin
  <2> QED
    BY <1>a, <2>1 DEF Running
<1>11. CASE Renewed
  <2>1. /\ phase = "renewing" /\ UNCHANGED <<stage, rel, held, queue, pending>>
        /\ ZAdd(refs) \/ UNCHANGED left
    BY <1>11, Zenon DEF Renewed
  <2>2. x \in refs => x \in held \/ rel[x] = "unheld" \/ x \in queue \cup pending
    BY <2>1 DEF IInv, BatchState
  <2> QED
    BY <1>0, <1>a, <2>1, <2>2 DEF Running, ZAdd
<1>12. CASE SweepBegin
  <2>1. /\ phase = "sweep" /\ pending' = {m \in pending : deadline[m] > 0}
        /\ UNCHANGED <<left, stage, rel, held, queue>>
    BY <1>12, Zenon DEF SweepBegin
  <2>2. x \in pending \ held => left[x] <= deadline[x]
    BY <2>1 DEF IInv, LeaseState, LeaseStateOf, Running
  <2> QED
    BY <1>0, <1>a, <2>1, <2>2 DEF Running
<1>13. CASE Tick
  <2>1. /\ UNCHANGED <<stage, rel, held, queue, pending, phase, refs>>
        /\ left' = [m \in Members |-> IF left[m] > 0 THEN left[m] - 1 ELSE 0]
    BY <1>13, Zenon DEF Tick
  <2> QED
    BY <1>0, <1>a, <2>1 DEF Running
<1>14. CASE Probe \/ UNCHANGED vars
  <2>1. UNCHANGED <<left, stage, rel, held, queue, pending, phase, refs>>
    BY <1>14, Zenon DEF Probe, vars
  <2> QED
    BY <1>a, <2>1 DEF Running
<1>15. CASE Close \/ Crash
  BY <1>15 DEF Close, Crash, Running
<1> QED
  BY <1>1, <1>2, <1>3, <1>4, <1>5, <1>6, <1>7, <1>8, <1>9, <1>10, <1>11, <1>12, <1>13, <1>14,
     <1>15 DEF Next, CallerStep, KeeperStep

(* The inductive invariant holds in every reachable state.                 *)
THEOREM InductiveInvariant == Spec => []IInv
<1>1. IInv /\ [Next]_vars => IInv'
  <2>1. IInv => TypeOK
    BY DEF IInv
  <2> QED
    BY <2>1, NextTypeOK, NextPoolState, NextStageState, NextBatchState, NextLeaseState,
       NextNothingForgotten DEF IInv
<1> QED
  BY InitIInv, <1>1, PTL DEF Spec

(* Types hold, and no lifetime or deadline exceeds the TTL.                *)
THEOREM TypeCorrect == Spec => []TypeOK
<1>1. IInv => TypeOK
  BY DEF IInv
<1> QED
  BY InductiveInvariant, <1>1, PTL

(* While the keeper runs, every lease Redis counts is about to be owned,   *)
(* is renewed, or will be removed (or its reply was lost).                 *)
THEOREM KeeperForgetsNothing == Spec => []NothingForgotten
<1>1. IInv => NothingForgotten
  BY DEF IInv
<1> QED
  BY InductiveInvariant, <1>1, PTL

(* A lease in the stack is counted unless Ttl ticks pass without a renewal.*)
THEOREM OwnedLeasesCounted == Spec => []OwnedIsCounted
<1>1. IInv => OwnedIsCounted
  <2> SUFFICES ASSUME IInv, Running, missed < Ttl, NEW m \in Members, InPool(m)
               PROVE  left[m] > 0
    BY DEF OwnedIsCounted
  <2>1. stage[m] \in {"pooled", "tracked"} /\ rel[m] = "no"
    BY DEF InPool, IInv, PoolState
  <2>2. left[m] >= Ttl - missed
    BY <2>1 DEF IInv, LeaseState, LeaseStateOf, Owned
  <2> QED
    BY <2>2, TtlAssumption DEF IInv, TypeOK
<1> QED
  BY InductiveInvariant, <1>1, PTL
=============================================================================
