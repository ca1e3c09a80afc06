------------------------ MODULE CooldownRelay_proofs ------------------------
(***************************************************************************)
(* Proofs about CooldownRelay, for any processes, models, delays, cap,     *)
(* slack and queue size: the types, that a peer's notice never shortens a  *)
(* cooldown and is never applied shorter than it was reported, that no     *)
(* cooldown outlives its cause, and that a deadline is announced to within *)
(* the slack.                                                              *)
(***************************************************************************)
EXTENDS CooldownRelay, Lemmas, FiniteSetTheorems, TLAPS

-----------------------------------------------------------------------------
(* Arithmetic.                                                             *)

LEMMA Products ==
    ASSUME NEW a \in Nat, NEW b \in Nat, NEW c \in Nat, a <= b
    PROVE  a * c \in Nat /\ b * c \in Nat /\ a * c <= b * c
  OBVIOUS

LEMMA Associates ==
    ASSUME NEW a \in Nat, NEW b \in Nat, NEW c \in Nat
    PROVE  a * (b * c) = (b * a) * c
  OBVIOUS

LEMMA SecondFacts ==
    /\ Millis \in Nat \ {0} /\ Parts \in Nat \ {0} /\ Second \in Nat
    /\ \A t \in Nat : UnixMilli(t) \in Nat
  BY RelayAssumption DEF Second, UnixMilli

(* Rounding up loses nothing down to the millisecond.                      *)
LEMMA RoundUpFacts ==
    ASSUME NEW t \in Nat
    PROVE  /\ RoundUp(t) \in Nat
           /\ UnixMilli(t) * Parts \in Nat
           /\ RoundUp(t) >= UnixMilli(t) * Parts
  <1> DEFINE a == UnixMilli(t)
             q == (a + Millis - 1) \div Millis
  <1>1. Millis \in Nat \ {0} /\ Parts \in Nat \ {0} /\ a \in Nat
    BY SecondFacts
  <1> HIDE DEF a
  <1>2. q \in Nat
    BY <1>1
  <1>3. Millis * q + Millis > a + Millis - 1
    BY <1>1
  <1> HIDE DEF q
  <1>4. Millis * q \in Nat /\ a <= Millis * q
    BY <1>1, <1>2, <1>3
  <1>5. a * Parts \in Nat /\ (Millis * q) * Parts \in Nat /\ a * Parts <= (Millis * q) * Parts
    BY <1>1, <1>4, Products
  <1>6. q * Second = (Millis * q) * Parts
    BY <1>1, <1>2, Associates DEF Second
  <1> QED
    BY <1>5, <1>6 DEF RoundUp, a, q

-----------------------------------------------------------------------------
(* What the operators on a process's state return.                         *)

Auths == [Scopes -> Records]
AllDelays == {0} \cup QuotaDelays \cup SuspendDelays \cup BackoffDelays

LEMMA FreshType ==
    Fresh \in Records
  BY DEF Fresh, Records

LEMMA AfterType ==
    ASSUME now \in Nat, NEW d \in Nat
    PROVE  After(d) \in Nat
  BY DEF After

LEMMA DeadlineType ==
    ASSUME now \in Nat, NEW r \in Records
    PROVE  CooldownDeadline(r) \in Nat
  <1> DEFINE a == IF r.down THEN r.retry ELSE 0
             b == IF r.quota THEN r.recover ELSE 0
  <1>1. a \in Nat /\ b \in Nat
    BY DEF Records
  <1>2. Max({a, b}) \in Nat
    <2> HIDE DEF a, b
    <2> QED
      BY <1>1, Max2
  <1> QED
    BY <1>2 DEF CooldownDeadline

LEMMA EarliestType ==
    ASSUME NEW times \in SUBSET Nat
    PROVE  Earliest(times) \in Nat
  <1>1. CASE times \ {0} = {}
    BY <1>1 DEF Earliest
  <1>2. CASE times \ {0} # {}
    <2>1. times \ {0} \in SUBSET Nat
      OBVIOUS
    <2>2. Min(times \ {0}) \in times \ {0}
      BY <2>1, <1>2, MinNat
    <2> QED
      BY <2>2, <1>2 DEF Earliest
  <1> QED
    BY <1>1, <1>2

LEMMA AggregateType ==
    ASSUME now \in Nat, NEW auth \in Auths
    PROVE  UpdateAggregatedAvailability(auth) \in Auths
  <1> DEFINE known == {m \in Models : auth[m].known}
             all == \A m \in known : auth[m].down /\ auth[m].retry > now
             spent == {m \in known : auth[m].quota}
             swept == [s \in Scopes |->
                        IF s # Account /\ Lapsed(auth[s])
                        THEN [auth[s] EXCEPT !.down = FALSE, !.retry = 0]
                        ELSE auth[s]]
             first == Earliest({auth[m].retry : m \in known})
             back == Earliest({auth[m].recover : m \in spent})
             acc == [swept[Account] EXCEPT !.down = all,
                                           !.retry = IF all THEN first ELSE 0,
                                           !.quota = spent # {},
                                           !.recover = back]
  <1>1. first \in Nat /\ back \in Nat
    <2>1. {auth[m].retry : m \in known} \in SUBSET Nat
      BY DEF Auths, Records, Scopes
    <2>2. {auth[m].recover : m \in spent} \in SUBSET Nat
      BY DEF Auths, Records, Scopes
    <2> QED
      BY <2>1, <2>2, EarliestType
  <1>2. swept \in Auths
    BY DEF Auths, Records
  <1>3. swept[Account] \in Records
    BY <1>2 DEF Auths, Scopes
  <1>4. acc \in Records
    <2> HIDE DEF first, back, swept
    <2>1. all \in BOOLEAN /\ (spent # {}) \in BOOLEAN
      OBVIOUS
    <2> HIDE DEF all, spent
    <2> QED
      BY <2>1, <1>1, <1>3 DEF Records
  <1>5. UpdateAggregatedAvailability(auth)
            = IF known = {} THEN auth ELSE [swept EXCEPT ![Account] = acc]
    BY DEF UpdateAggregatedAvailability
  <1> QED
    <2> HIDE DEF acc, swept, known
    <2> QED
      BY <1>2, <1>4, <1>5 DEF Auths

LEMMA SweptModel ==
    ASSUME NEW auth \in Auths, NEW m \in Models
    PROVE  LET new == UpdateAggregatedAvailability(auth)[m]
           IN  \/ new = auth[m]
               \/ /\ Lapsed(auth[m])
                  /\ new = [auth[m] EXCEPT !.down = FALSE, !.retry = 0]
  <1>1. m \in Scopes /\ m # Account
    BY RelayAssumption DEF Scopes
  <1> QED
    BY <1>1 DEF UpdateAggregatedAvailability, Auths

(* Making the models whose time has come available again changes no        *)
(* model's deadline.                                                       *)
LEMMA AggregateKeepsDeadlines ==
    ASSUME now \in Nat, NEW auth \in Auths, NEW m \in Models
    PROVE  CooldownDeadline(UpdateAggregatedAvailability(auth)[m])
               = CooldownDeadline(auth[m])
  <1> DEFINE new == UpdateAggregatedAvailability(auth)[m]
             r == auth[m]
  <1>1. m \in Scopes /\ m # Account /\ r \in Records
    BY RelayAssumption DEF Scopes, Auths
  <1>2. new = r \/ (Lapsed(r) /\ new = [r EXCEPT !.down = FALSE, !.retry = 0])
    BY SweptModel
  <1>3. ASSUME Lapsed(r), new = [r EXCEPT !.down = FALSE, !.retry = 0]
        PROVE  CooldownDeadline(new) = CooldownDeadline(r)
    <2> HIDE DEF new, r
    <2> DEFINE q == IF r.quota THEN r.recover ELSE 0
    <2>1. /\ r.down /\ r.retry \in Nat /\ r.retry <= now
          /\ ~new.down /\ new.quota = r.quota /\ new.recover = r.recover
          /\ q \in Nat
      BY <1>1, <1>3 DEF Lapsed, Records
    <2>2. CooldownDeadline(new)
            = IF Max({0, q}) > now THEN Max({0, q}) ELSE 0
      BY <2>1 DEF CooldownDeadline
    <2>3. CooldownDeadline(r)
            = IF Max({r.retry, q}) > now THEN Max({r.retry, q}) ELSE 0
      BY <2>1 DEF CooldownDeadline
    <2>4. /\ Max({0, q}) = IF 0 >= q THEN 0 ELSE q
          /\ Max({r.retry, q}) = IF r.retry >= q THEN r.retry ELSE q
      <3> HIDE DEF q
      <3> QED
        BY <2>1, Max2
    <2> QED
      <3> HIDE DEF q
      <3> QED
        BY <2>1, <2>2, <2>3, <2>4
  <1> QED
    BY <1>2, <1>3

LEMMA CappedType ==
    ASSUME now \in Nat, NEW x \in Notices
    PROVE  Capped(x) \in Nat /\ Capped(x) <= x.until /\ Capped(x) <= now + Cap
                /\ (Capped(x) = x.until \/ Capped(x) = now + Cap)
  <1>1. x.until \in Nat /\ now + Cap \in Nat
    BY RelayAssumption DEF Notices
  <1> QED
    BY <1>1, Min2 DEF Capped

(* The state a peer's notice leaves: at the notice's scope the capped      *)
(* deadline, when that is later than the one in force.                     *)
LEMMA ExtendFacts ==
    ASSUME now \in Nat, NEW r \in Records, NEW x \in Notices,
           Capped(x) > now
    PROVE  /\ Extend(r, x, Capped(x)) \in Records
           /\ CooldownDeadline(Extend(r, x, Capped(x))) >= Capped(x)
  <1> DEFINE e == Extend(r, x, Capped(x))
             q == IF e.quota THEN e.recover ELSE 0
  <1>1. Capped(x) \in Nat
    BY CappedType
  <1>2. Max({r.recover, Capped(x)}) \in Nat
    BY <1>1, Max2 DEF Records
  <1>3. e \in Records /\ e.down /\ e.retry = Capped(x)
    BY <1>1, <1>2 DEF Extend, Records, Notices
  <1>4. q \in Nat
    BY <1>3 DEF Records
  <1>5. CooldownDeadline(e)
            = IF Max({Capped(x), q}) > now THEN Max({Capped(x), q}) ELSE 0
    <2> HIDE DEF e
    <2> QED
      BY <1>3 DEF CooldownDeadline
  <1>6. Max({Capped(x), q}) = IF Capped(x) >= q THEN Capped(x) ELSE q
    <2> HIDE DEF q
    <2> QED
      BY <1>1, <1>4, Max2
  <1> QED
    <2> HIDE DEF q, e
    <2>1. CooldownDeadline(e) >= Capped(x)
      BY <1>1, <1>4, <1>5, <1>6
    <2> QED
      BY <1>3, <2>1 DEF e

LEMMA PeerFacts ==
    ASSUME now \in Nat, state \in [Nodes -> Auths],
           NEW n \in Nodes, NEW x \in Notices
    PROVE  LET new == ApplyPeerCooldown(n, x)
           IN  /\ new \in Auths
               /\ \A m \in Models :
                     CooldownDeadline(state[n][m]) <= CooldownDeadline(new[m])
               /\ \/ Capped(x) <= now
                  \/ PeerCooldownSuppressed(n, x)
                  \/ CooldownDeadline(new[x.scope]) >= Capped(x)
  <1> DEFINE s == x.scope
             old == state[n]
             ext == [old EXCEPT ![s] = Extend(old[s], x, Capped(x))]
             new == ApplyPeerCooldown(n, x)
             skip == \/ Capped(x) <= now
                     \/ PeerCooldownSuppressed(n, x)
                     \/ Capped(x) <= CooldownDeadline(old[s])
  <1>1. /\ s \in Scopes /\ old \in Auths /\ old[s] \in Records
        /\ Capped(x) \in Nat
        /\ \A m \in Models : m \in Scopes /\ old[m] \in Records
    BY CappedType DEF Notices, Auths, Scopes
  <1>2. /\ CooldownDeadline(old[s]) \in Nat
        /\ \A m \in Models : CooldownDeadline(old[m]) \in Nat
    <2> HIDE DEF old, s
    <2> QED
      BY <1>1, DeadlineType
  <1>3. new = IF skip THEN old
              ELSE IF s = Account THEN ext
              ELSE UpdateAggregatedAvailability(ext)
    BY DEF ApplyPeerCooldown
  <1> HIDE DEF new, s, old
  <1>4. CASE skip
    BY <1>1, <1>2, <1>3, <1>4 DEF new, s, old
  <1>5. CASE ~skip
    <2>1. /\ Extend(old[s], x, Capped(x)) \in Records
          /\ CooldownDeadline(Extend(old[s], x, Capped(x))) >= Capped(x)
      BY <1>1, <1>5, ExtendFacts
    <2>2. ext \in Auths /\ ext[s] = Extend(old[s], x, Capped(x))
      BY <1>1, <2>1 DEF Auths
    <2>3. CooldownDeadline(ext[s]) >= Capped(x) /\ CooldownDeadline(ext[s]) \in Nat
      BY <2>1, <2>2, DeadlineType
    <2>4. \A m \in Models : CooldownDeadline(old[m]) <= CooldownDeadline(ext[m])
      <3> TAKE m \in Models
      <3>1. CASE m = s
        BY <3>1, <2>3, <1>1, <1>2, <1>5
      <3>2. CASE m # s
        <4>1. ext[m] = old[m]
          BY <3>2, <1>1 DEF Auths
        <4> QED
          BY <4>1, <1>2
      <3> QED
        BY <3>1, <3>2
    <2> HIDE DEF ext
    <2>5. CASE s = Account
      <3>1. new = ext
        BY <1>3, <1>5, <2>5
      <3> QED
        BY <3>1, <2>2, <2>3, <2>4 DEF new, s, old
    <2>6. CASE s # Account
      <3>1. new = UpdateAggregatedAvailability(ext) /\ new \in Auths
        BY <1>3, <1>5, <2>6, <2>2, AggregateType
      <3>2. \A m \in Models : CooldownDeadline(new[m]) = CooldownDeadline(ext[m])
        BY <3>1, <2>2, AggregateKeepsDeadlines
      <3>3. s \in Models
        BY <1>1, <2>6 DEF Scopes
      <3> QED
        BY <3>1, <3>2, <3>3, <2>3, <2>4 DEF new, s, old
    <2> QED
      BY <2>5, <2>6
  <1> QED
    BY <1>4, <1>5

LEMMA DelaysType ==
    /\ AllDelays \subseteq Nat
    /\ QuotaDelays \subseteq Nat
  BY RelayAssumption DEF AllDelays

LEMMA FailureType ==
    ASSUME now \in Nat, NEW auth \in Auths, NEW s \in Scopes,
           NEW kind \in Kinds, NEW d \in Nat
    PROVE  ApplyFailure(auth, s, kind, d) \in Auths
  <1>1. After(d) \in Nat /\ auth[s] \in Records
    BY AfterType DEF Auths
  <1>2. AccountFailure(auth[s], kind, d) \in Records
    BY <1>1 DEF AccountFailure, Records, Kinds
  <1>3. ModelFailure(auth[s], kind, d) \in Records
    BY <1>1 DEF ModelFailure, Records, Kinds
  <1>4. /\ [auth EXCEPT ![s] = AccountFailure(auth[s], kind, d)] \in Auths
        /\ [auth EXCEPT ![s] = ModelFailure(auth[s], kind, d)] \in Auths
    BY <1>2, <1>3 DEF Auths
  <1>5. UpdateAggregatedAvailability(
            [auth EXCEPT ![s] = ModelFailure(auth[s], kind, d)]) \in Auths
    BY <1>4, AggregateType
  <1> QED
    BY <1>4, <1>5 DEF ApplyFailure

LEMMA SuccessType ==
    ASSUME now \in Nat, NEW auth \in Auths, NEW s \in Scopes
    PROVE  ApplySuccess(auth, s) \in Auths
  <1> DEFINE ready == IF s = Account THEN auth ELSE [auth EXCEPT ![s].known = TRUE]
             reset == [auth EXCEPT ![s] = [Fresh EXCEPT !.known = s # Account]]
  <1>1. ready \in Auths
    BY DEF Auths, Records
  <1>2. reset \in Auths
    BY DEF Auths, Records, Fresh
  <1>3. /\ UpdateAggregatedAvailability(ready) \in Auths
        /\ UpdateAggregatedAvailability(reset) \in Auths
    BY <1>1, <1>2, AggregateType
  <1> QED
    BY <1>1, <1>2, <1>3 DEF ApplySuccess

LEMMA LargestType ==
    ASSUME NEW f \in [Nodes -> [Scopes -> Nat]], NEW n \in Nodes,
           NEW s \in Scopes, NEW t \in Nat
    PROVE  Largest(f, n, s, t) \in [Nodes -> [Scopes -> Nat]]
  <1>1. f[n][s] \in Nat
    OBVIOUS
  <1>2. Max({f[n][s], t}) \in Nat
    BY <1>1, Max2
  <1> QED
    BY <1>2 DEF Largest

-----------------------------------------------------------------------------
(* The inductive invariant: the types, and that what travels is the notice  *)
(* it was made from, rounded up to whole seconds.                          *)

Faithful(e) == e.notice = [e.exact EXCEPT !.until = RoundUp(@)]

Rounded ==
    /\ \A e \in sent : Faithful(e)
    /\ \A n \in Nodes : \A i \in 1..Len(inbound[n]) : Faithful(inbound[n][i])

IInv == TypeOK /\ Rounded

LEMMA InitIInv ==
    Init => IInv
  <1> SUFFICES ASSUME Init PROVE IInv
    OBVIOUS
  <1>1. state \in [Nodes -> [Scopes -> Records]]
    BY FreshType DEF Init
  <1>2. Rounded
    BY DEF Init, Rounded
  <1>3. TypeOK
    <2>1. \A n \in Nodes : Len(outbound[n]) <= QueueSize /\ Len(inbound[n]) <= QueueSize
      BY RelayAssumption DEF Init
    <2> QED
      BY <1>1, <2>1 DEF Init, TypeOK
  <1> QED
    BY <1>2, <1>3 DEF IInv

(* The relay and its history are untouched.                                *)
LEMMA ManagerStep ==
    ASSUME IInv, UNCHANGED relay, now' \in Nat, inputs' \in Nat,
           state' \in [Nodes -> Auths], held' \in [Nodes -> SUBSET Notices],
           own' \in [Nodes -> [Scopes -> Nat]],
           noticed' \in [Nodes -> [Scopes -> Nat]]
    PROVE  IInv'
  <1>1. TypeOK'
    BY DEF IInv, TypeOK, relay, Auths
  <1>2. Rounded'
    BY DEF IInv, Rounded, relay, Faithful
  <1> QED
    BY <1>1, <1>2 DEF IInv

LEMMA FailureStep ==
    ASSUME IInv, NEW n \in Nodes, NEW s \in Scopes, NEW kind \in Kinds,
           NEW d \in AllDelays, Failure(n, s, kind, d)
    PROVE  IInv'
  <1> DEFINE before == CooldownDeadline(state[n][s])
             auth == ApplyFailure(state[n], s, kind, d)
             until == CooldownDeadline(auth[s])
             news == open[n] /\ until > before
             x == Notice(s, until, auth[s].quota, kind)
  <1>1. /\ now \in Nat /\ inputs \in Nat /\ d \in Nat
        /\ state \in [Nodes -> Auths] /\ state[n] \in Auths
        /\ held \in [Nodes -> SUBSET Notices]
        /\ own \in [Nodes -> [Scopes -> Nat]]
        /\ noticed \in [Nodes -> [Scopes -> Nat]]
    BY DelaysType DEF IInv, TypeOK, Auths
  <1>2. auth \in Auths
    BY <1>1, FailureType
  <1>3. /\ inputs' = inputs + 1 /\ now' = now /\ UNCHANGED relay
        /\ state' = [state EXCEPT ![n] = auth]
        /\ own' = Largest(own, n, s, After(d))
        /\ held' = IF news THEN [held EXCEPT ![n] = @ \cup {x}] ELSE held
        /\ noticed' = IF news THEN Largest(noticed, n, s, until) ELSE noticed
    BY DEF Failure, Input
  <1> HIDE DEF auth
  <1>4. auth[s] \in Records
    BY <1>2 DEF Auths
  <1>5. until \in Nat
    BY <1>1, <1>4, DeadlineType
  <1>6. x \in Notices
    <2> HIDE DEF until
    <2> QED
      BY <1>4, <1>5 DEF Notice, Notices, Records
  <1> HIDE DEF until, x, news
  <1>7. held' \in [Nodes -> SUBSET Notices]
    BY <1>1, <1>3, <1>6
  <1>8. own' \in [Nodes -> [Scopes -> Nat]] /\ noticed' \in [Nodes -> [Scopes -> Nat]]
    BY <1>1, <1>3, <1>5, AfterType, LargestType
  <1>9. state' \in [Nodes -> Auths]
    BY <1>1, <1>2, <1>3
  <1> QED
    BY <1>1, <1>3, <1>7, <1>8, <1>9, ManagerStep

LEMMA SuccessStep ==
    ASSUME IInv, NEW n \in Nodes, NEW s \in Scopes, Success(n, s)
    PROVE  IInv'
  <1>1. /\ now \in Nat /\ inputs \in Nat
        /\ state \in [Nodes -> Auths] /\ state[n] \in Auths
        /\ held \in [Nodes -> SUBSET Notices]
        /\ own \in [Nodes -> [Scopes -> Nat]]
        /\ noticed \in [Nodes -> [Scopes -> Nat]]
    BY DEF IInv, TypeOK, Auths
  <1>2. ApplySuccess(state[n], s) \in Auths
    BY <1>1, SuccessType
  <1>3. /\ inputs' = inputs + 1 /\ UNCHANGED relay
        /\ state' = [state EXCEPT ![n] = ApplySuccess(state[n], s)]
        /\ UNCHANGED <<now, held, own, noticed>>
    BY DEF Success, Input
  <1>4. state' \in [Nodes -> Auths]
    BY <1>1, <1>2, <1>3
  <1> QED
    BY <1>1, <1>3, <1>4, ManagerStep

(* A probe's answer, as an action of its own for the proofs.               *)
Probes(n) ==
    \E heard \in SUBSET ProbeTargets(state[n]) :
        \E delay \in [heard -> {0} \cup QuotaDelays] : ProbeAnswer(n, heard, delay)

Answered(n, heard, delay) ==
    [s \in Scopes |->
        IF s \notin heard THEN state[n][s]
        ELSE IF delay[s] = 0 THEN [Fresh EXCEPT !.known = s # Account]
        ELSE [state[n][s] EXCEPT !.down = TRUE, !.retry = now + delay[s],
                                 !.recover = now + delay[s]]]

Heard(n, heard, delay) ==
    [s \in Scopes |->
        IF s \in heard THEN Max({own[n][s], After(delay[s])}) ELSE own[n][s]]

LEMMA ProbeFacts ==
    ASSUME IInv, NEW n \in Nodes, Probes(n)
    PROVE  \E heard \in SUBSET Scopes : \E delay \in [heard -> Nat] :
               /\ inputs' = inputs + 1
               /\ \/ state' = [state EXCEPT ![n] =
                                 UpdateAggregatedAvailability(Answered(n, heard, delay))]
                  \/ state' = [state EXCEPT ![n] = Answered(n, heard, delay)]
               /\ own' = [own EXCEPT ![n] = Heard(n, heard, delay)]
               /\ UNCHANGED <<now, held, noticed, relay>>
  <1>1. PICK heard \in SUBSET ProbeTargets(state[n]) :
            \E delay \in [heard -> {0} \cup QuotaDelays] : ProbeAnswer(n, heard, delay)
    BY DEF Probes
  <1>2. PICK delay \in [heard -> {0} \cup QuotaDelays] : ProbeAnswer(n, heard, delay)
    BY <1>1
  <1>3. heard \subseteq Scopes
    BY <1>1 DEF ProbeTargets, Scopes
  <1>4. delay \in [heard -> Nat]
    BY <1>2, RelayAssumption
  <1>5. /\ inputs' = inputs + 1
        /\ \/ state' = [state EXCEPT ![n] =
                          UpdateAggregatedAvailability(Answered(n, heard, delay))]
           \/ state' = [state EXCEPT ![n] = Answered(n, heard, delay)]
        /\ own' = [own EXCEPT ![n] = Heard(n, heard, delay)]
        /\ UNCHANGED <<now, held, noticed, relay>>
    BY <1>2 DEF ProbeAnswer, Input, Answered, Heard
  <1> QED
    BY <1>3, <1>4, <1>5

LEMMA AnsweredFacts ==
    ASSUME IInv, NEW n \in Nodes, NEW heard \in SUBSET Scopes, NEW delay \in [heard -> Nat]
    PROVE  /\ Answered(n, heard, delay) \in Auths
           /\ Heard(n, heard, delay) \in [Scopes -> Nat]
           /\ \A s \in Scopes :
                 /\ s \notin heard => Answered(n, heard, delay)[s] = state[n][s]
                 /\ s \in heard =>
                       /\ Answered(n, heard, delay)[s].retry <= Heard(n, heard, delay)[s]
                       /\ Answered(n, heard, delay)[s].recover <= Heard(n, heard, delay)[s]
                 /\ own[n][s] <= Heard(n, heard, delay)[s]
  <1> SUFFICES ASSUME NEW s \in Scopes
               PROVE  /\ Answered(n, heard, delay)[s] \in Records
                      /\ Heard(n, heard, delay)[s] \in Nat
                      /\ s \notin heard => Answered(n, heard, delay)[s] = state[n][s]
                      /\ s \in heard =>
                            /\ Answered(n, heard, delay)[s].retry <= Heard(n, heard, delay)[s]
                            /\ Answered(n, heard, delay)[s].recover <= Heard(n, heard, delay)[s]
                      /\ own[n][s] <= Heard(n, heard, delay)[s]
      BY DEF Auths, Answered, Heard
  <1>1. now \in Nat /\ state[n][s] \in Records /\ own[n][s] \in Nat
    BY DEF IInv, TypeOK
  <1>2. CASE s \notin heard
    BY <1>1, <1>2 DEF Answered, Heard
  <1>3. CASE s \in heard
    <2>1. delay[s] \in Nat /\ After(delay[s]) \in Nat
          /\ (delay[s] # 0 => After(delay[s]) = now + delay[s])
      BY <1>1, <1>3, AfterType DEF After
    <2>2. Heard(n, heard, delay)[s] = IF own[n][s] >= After(delay[s]) THEN own[n][s]
                                       ELSE After(delay[s])
      BY <1>1, <1>3, <2>1, Max2 DEF Heard
    <2>3. CASE delay[s] = 0
      <3>1. Answered(n, heard, delay)[s] = [Fresh EXCEPT !.known = s # Account]
        BY <1>3, <2>3 DEF Answered
      <3>2. /\ [Fresh EXCEPT !.known = s # Account] \in Records
            /\ [Fresh EXCEPT !.known = s # Account].retry = 0
            /\ [Fresh EXCEPT !.known = s # Account].recover = 0
        BY DEF Records, Fresh
      <3> QED
        BY <1>1, <1>3, <2>1, <2>2, <3>1, <3>2
    <2>4. CASE delay[s] # 0
      <3> DEFINE r == state[n][s]
                 t == now + delay[s]
                 a == Answered(n, heard, delay)[s]
                 p == Heard(n, heard, delay)[s]
      <3>1. a = [r EXCEPT !.down = TRUE, !.retry = t, !.recover = t]
        BY <1>3, <2>4 DEF Answered
      <3>2. r \in Records /\ t \in Nat /\ own[n][s] \in Nat
        BY <1>1, <2>1
      <3>3. p = IF own[n][s] >= t THEN own[n][s] ELSE t
        BY <2>1, <2>2, <2>4
      <3> HIDE DEF r, t, a, p
      <3>4. a \in Records /\ a.retry = t /\ a.recover = t
        BY <3>1, <3>2 DEF Records
      <3>5. p \in Nat /\ own[n][s] <= p /\ t <= p
        BY <3>2, <3>3
      <3>6. a.retry <= p /\ a.recover <= p
        BY <3>4, <3>5
      <3> QED
        BY <1>3, <3>4, <3>5, <3>6 DEF a, p
    <2> QED
      BY <2>3, <2>4
  <1> QED
    BY <1>2, <1>3

LEMMA ProbeStep ==
    ASSUME IInv, NEW n \in Nodes, Probes(n)
    PROVE  IInv'
  <1>1. /\ now \in Nat /\ inputs \in Nat
        /\ state \in [Nodes -> Auths]
        /\ held \in [Nodes -> SUBSET Notices]
        /\ own \in [Nodes -> [Scopes -> Nat]]
        /\ noticed \in [Nodes -> [Scopes -> Nat]]
    BY DEF IInv, TypeOK, Auths
  <1>h. PICK heard \in SUBSET Scopes : \E delay \in [heard -> Nat] :
            /\ inputs' = inputs + 1
            /\ \/ state' = [state EXCEPT ![n] =
                              UpdateAggregatedAvailability(Answered(n, heard, delay))]
               \/ state' = [state EXCEPT ![n] = Answered(n, heard, delay)]
            /\ own' = [own EXCEPT ![n] = Heard(n, heard, delay)]
            /\ UNCHANGED <<now, held, noticed, relay>>
    BY ProbeFacts
  <1>2. PICK delay \in [heard -> Nat] :
            /\ inputs' = inputs + 1
            /\ \/ state' = [state EXCEPT ![n] =
                              UpdateAggregatedAvailability(Answered(n, heard, delay))]
               \/ state' = [state EXCEPT ![n] = Answered(n, heard, delay)]
            /\ own' = [own EXCEPT ![n] = Heard(n, heard, delay)]
            /\ UNCHANGED <<now, held, noticed, relay>>
    BY <1>h
  <1>3. /\ Answered(n, heard, delay) \in Auths
        /\ Heard(n, heard, delay) \in [Scopes -> Nat]
    BY <1>2, AnsweredFacts
  <1>4. UpdateAggregatedAvailability(Answered(n, heard, delay)) \in Auths
    BY <1>1, <1>3, AggregateType
  <1>5. state' \in [Nodes -> Auths] /\ own' \in [Nodes -> [Scopes -> Nat]]
    BY <1>1, <1>2, <1>3, <1>4
  <1> QED
    BY <1>1, <1>2, <1>5, ManagerStep

LEMMA ClearStep ==
    ASSUME IInv, NEW n \in Nodes, Clear(n)
    PROVE  IInv'
  <1> DEFINE new == [s \in Scopes |-> [Fresh EXCEPT !.known = state[n][s].known]]
  <1>1. /\ now \in Nat /\ inputs \in Nat
        /\ state \in [Nodes -> Auths]
        /\ held \in [Nodes -> SUBSET Notices]
        /\ own \in [Nodes -> [Scopes -> Nat]]
        /\ noticed \in [Nodes -> [Scopes -> Nat]]
    BY DEF IInv, TypeOK, Auths
  <1>2. /\ inputs' = inputs + 1 /\ UNCHANGED relay
        /\ state' = [state EXCEPT ![n] = new]
        /\ UNCHANGED <<now, held, own, noticed>>
    BY DEF Clear, Input
  <1>3. new \in Auths
    <2> SUFFICES ASSUME NEW s \in Scopes PROVE new[s] \in Records
      BY DEF Auths
    <2>1. state[n][s] \in Records
      BY <1>1 DEF Auths
    <2> QED
      BY <2>1 DEF Records, Fresh
  <1> HIDE DEF new
  <1>4. state' \in [Nodes -> Auths]
    BY <1>1, <1>2, <1>3
  <1> QED
    BY <1>1, <1>2, <1>4, ManagerStep

LEMMA TickStep ==
    ASSUME IInv, Tick
    PROVE  IInv'
  <1>1. /\ now \in Nat /\ inputs \in Nat
        /\ state \in [Nodes -> Auths]
        /\ held \in [Nodes -> SUBSET Notices]
        /\ own \in [Nodes -> [Scopes -> Nat]]
        /\ noticed \in [Nodes -> [Scopes -> Nat]]
    BY DEF IInv, TypeOK, Auths
  <1>2. /\ now' = now + 1 /\ UNCHANGED relay
        /\ UNCHANGED <<state, held, inputs, own, noticed>>
    BY DEF Tick
  <1> QED
    BY <1>1, <1>2, ManagerStep

(* A relay step leaves the manager alone, except for the state a notice is *)
(* applied to and the notices taken.                                       *)
LEMMA RelayStep ==
    ASSUME IInv, UNCHANGED <<now, inputs, own, noticed>>,
           state' \in [Nodes -> Auths], held' \in [Nodes -> SUBSET Notices],
           published' \in [Nodes -> [Scopes -> Nat]],
           outbound' \in [Nodes -> Seq(Notices)],
           inbound' \in [Nodes -> Seq(Events)],
           \A n \in Nodes : Len(outbound'[n]) <= QueueSize /\ Len(inbound'[n]) <= QueueSize,
           open' \in [Nodes -> BOOLEAN],
           sent' \subseteq Events,
           lost' \subseteq Nodes \X Notices,
           Rounded'
    PROVE  IInv'
  BY DEF IInv, TypeOK, Auths

LEMMA PublishStep ==
    ASSUME IInv, NEW n \in Nodes, NEW x \in held[n], Publish(n, x)
    PROVE  IInv'
  <1> USE DEF IInv, TypeOK
  <1>1. x \in Notices /\ x.scope \in Scopes /\ x.until \in Nat
    BY DEF Notices
  <1>2. held' \in [Nodes -> SUBSET Notices]
    BY DEF Publish
  <1>3. published' \in [Nodes -> [Scopes -> Nat]]
    <2>1. published' = published
            \/ published' = [published EXCEPT ![n][x.scope] = x.until]
      BY DEF Publish
    <2>2. [published[n] EXCEPT ![x.scope] = x.until] \in [Scopes -> Nat]
      BY <1>1
    <2> QED
      BY <2>1, <2>2
  <1>4. lost' \subseteq Nodes \X Notices
    BY <1>1 DEF Publish
  <1>5. outbound' = outbound
          \/ (Len(outbound[n]) < QueueSize
                /\ outbound' = [outbound EXCEPT ![n] = Append(outbound[n], x)])
    BY DEF Publish
  <1>6. /\ outbound' \in [Nodes -> Seq(Notices)]
        /\ \A k \in Nodes : Len(outbound'[k]) <= QueueSize
    <2>1. CASE outbound' = outbound
      BY <2>1
    <2>2. CASE Len(outbound[n]) < QueueSize
               /\ outbound' = [outbound EXCEPT ![n] = Append(outbound[n], x)]
      <3>1. outbound[n] \in Seq(Notices) /\ QueueSize \in Nat
        BY RelayAssumption
      <3>2. /\ Append(outbound[n], x) \in Seq(Notices)
            /\ Len(Append(outbound[n], x)) <= QueueSize
        BY <1>1, <2>2, <3>1
      <3> QED
        BY <2>2, <3>2
    <2> QED
      BY <1>5, <2>1, <2>2
  <1>7. UNCHANGED <<now, state, inbound, open, sent, inputs, own, noticed>>
    BY DEF Publish
  <1>8. Rounded'
    BY <1>7 DEF Rounded, Faithful
  <1> QED
    BY <1>2, <1>3, <1>4, <1>6, <1>7, <1>8, RelayStep DEF Auths

LEMMA SendStep ==
    ASSUME IInv, NEW n \in Nodes, Send(n)
    PROVE  IInv'
  <1> USE DEF IInv, TypeOK
  <1> DEFINE x == Head(outbound[n])
             e == Event(n, x)
  <1>1. outbound[n] \in Seq(Notices) /\ outbound[n] # << >>
    BY DEF Send
  <1>2. /\ x \in Notices
        /\ Tail(outbound[n]) \in Seq(Notices)
        /\ Len(Tail(outbound[n])) <= Len(outbound[n])
    BY <1>1
  <1>3. e \in Events /\ Faithful(e)
    <2>1. x.until \in Nat
      BY <1>2 DEF Notices
    <2>2. RoundUp(x.until) \in Nat
      BY <2>1, RoundUpFacts
    <2>3. [x EXCEPT !.until = RoundUp(@)] \in Notices
      BY <1>2, <2>2 DEF Notices
    <2> HIDE DEF x
    <2> QED
      BY <1>2, <2>3 DEF Event, Events, Faithful
  <1>4. /\ outbound' \in [Nodes -> Seq(Notices)]
        /\ \A k \in Nodes : Len(outbound'[k]) <= QueueSize
    BY <1>1, <1>2, RelayAssumption DEF Send
  <1>5. UNCHANGED <<manager, published, inbound, open>>
    BY DEF Send
  <1>6. sent' = sent \/ sent' = sent \cup {e}
    BY DEF Send
  <1>7. lost' \subseteq Nodes \X Notices
    BY <1>2 DEF Send
  <1> HIDE DEF e
  <1>8. sent' \subseteq Events
    BY <1>3, <1>6
  <1>9. Rounded'
    <2>1. \A f \in sent' : Faithful(f)
      BY <1>3, <1>6 DEF Rounded
    <2> QED
      BY <2>1, <1>5 DEF Rounded, Faithful
  <1> QED
    BY <1>4, <1>5, <1>7, <1>8, <1>9, RelayStep DEF Auths, manager

LEMMA ReceiveStep ==
    ASSUME IInv, NEW n \in Nodes, NEW e \in sent, Receive(n, e)
    PROVE  IInv'
  <1> USE DEF IInv, TypeOK
  <1>1. e \in Events /\ Faithful(e) /\ inbound[n] \in Seq(Events)
    BY DEF Rounded
  <1>2. /\ inbound' = [inbound EXCEPT ![n] = Append(inbound[n], e)]
        /\ Len(inbound[n]) < QueueSize
        /\ UNCHANGED <<manager, published, outbound, open, sent, lost>>
    BY DEF Receive
  <1>3. /\ inbound' \in [Nodes -> Seq(Events)]
        /\ \A k \in Nodes : Len(inbound'[k]) <= QueueSize
    BY <1>1, <1>2, RelayAssumption
  <1>4. Rounded'
    <2>1. ASSUME NEW k \in Nodes, NEW i \in 1..Len(inbound'[k])
          PROVE  Faithful(inbound'[k][i])
      <3>1. CASE k = n
        BY <3>1, <1>1, <1>2 DEF Rounded
      <3>2. CASE k # n
        BY <3>2, <1>2 DEF Rounded
      <3> QED
        BY <3>1, <3>2
    <2> QED
      BY <2>1, <1>2 DEF Rounded, Faithful
  <1> QED
    BY <1>2, <1>3, <1>4, RelayStep DEF Auths, manager

LEMMA ApplyStep ==
    ASSUME IInv, NEW n \in Nodes, Apply(n)
    PROVE  IInv'
  <1> USE DEF IInv, TypeOK
  <1>1. /\ inbound[n] \in Seq(Events) /\ inbound[n] # << >>
        /\ inbound' = [inbound EXCEPT ![n] = Tail(inbound[n])]
        /\ state' = [state EXCEPT ![n] = ApplyPeerCooldown(n, Head(inbound[n]).notice)]
        /\ UNCHANGED <<now, held, published, outbound, open, sent, inputs, own,
                       noticed, lost>>
    BY DEF Apply
  <1>2. Head(inbound[n]).notice \in Notices
    <2>1. Head(inbound[n]) \in Events
      BY <1>1
    <2> QED
      BY <2>1 DEF Events
  <1>3. ApplyPeerCooldown(n, Head(inbound[n]).notice) \in Auths
    BY <1>2, PeerFacts DEF Auths
  <1>4. state' \in [Nodes -> Auths]
    BY <1>1, <1>3 DEF Auths
  <1>5. /\ Tail(inbound[n]) \in Seq(Events)
        /\ Len(Tail(inbound[n])) = Len(inbound[n]) - 1
        /\ \A i \in 1..Len(Tail(inbound[n])) :
              i + 1 \in 1..Len(inbound[n]) /\ Tail(inbound[n])[i] = inbound[n][i + 1]
    BY <1>1
  <1>6. /\ inbound' \in [Nodes -> Seq(Events)]
        /\ \A k \in Nodes : Len(inbound'[k]) <= QueueSize
    BY <1>1, <1>5, RelayAssumption
  <1>7. Rounded'
    <2>1. ASSUME NEW k \in Nodes, NEW i \in 1..Len(inbound'[k])
          PROVE  Faithful(inbound'[k][i])
      <3>1. CASE k = n
        BY <3>1, <1>1, <1>5 DEF Rounded
      <3>2. CASE k # n
        BY <3>2, <1>1 DEF Rounded
      <3> QED
        BY <3>1, <3>2
    <2> QED
      BY <2>1, <1>1 DEF Rounded, Faithful
  <1> QED
    BY <1>1, <1>4, <1>6, <1>7, RelayStep

LEMMA CloseStep ==
    ASSUME IInv, NEW n \in Nodes, Close(n)
    PROVE  IInv'
  <1> USE DEF IInv, TypeOK
  <1>1. /\ open' \in [Nodes -> BOOLEAN]
        /\ UNCHANGED <<manager, published, outbound, inbound, sent, lost>>
    BY DEF Close
  <1>2. Rounded'
    BY <1>1 DEF Rounded, Faithful
  <1> QED
    BY <1>1, <1>2, RelayStep DEF Auths, manager

LEMMA StutterStep ==
    ASSUME IInv, UNCHANGED vars
    PROVE  IInv'
  <1>1. UNCHANGED relay /\ UNCHANGED <<now, state, held, inputs, own, noticed>>
    BY DEF vars, relay
  <1> QED
    BY <1>1, ManagerStep DEF IInv, TypeOK, Auths

LEMMA NextIInv ==
    ASSUME IInv, [Next]_vars
    PROVE  IInv'
  <1>1. ASSUME NEW n \in Nodes, NEW s \in Scopes, NEW kind \in Kinds,
               NEW d \in AllDelays, Failure(n, s, kind, d)
        PROVE  IInv'
    BY <1>1, FailureStep
  <1>2. ASSUME NEW n \in Nodes, NEW s \in Scopes, Success(n, s)
        PROVE  IInv'
    BY <1>2, SuccessStep
  <1>3. ASSUME NEW n \in Nodes, Probes(n)
        PROVE  IInv'
    BY <1>3, ProbeStep
  <1>4. ASSUME NEW n \in Nodes, Clear(n)
        PROVE  IInv'
    BY <1>4, ClearStep
  <1>5. ASSUME NEW n \in Nodes, NEW x \in held[n], Publish(n, x)
        PROVE  IInv'
    BY <1>5, PublishStep
  <1>6. ASSUME NEW n \in Nodes, Send(n)
        PROVE  IInv'
    BY <1>6, SendStep
  <1>7. ASSUME NEW n \in Nodes, NEW e \in sent, Receive(n, e)
        PROVE  IInv'
    BY <1>7, ReceiveStep
  <1>8. ASSUME NEW n \in Nodes, Apply(n)
        PROVE  IInv'
    BY <1>8, ApplyStep
  <1>9. ASSUME NEW n \in Nodes, Close(n)
        PROVE  IInv'
    BY <1>9, CloseStep
  <1> QED
    BY <1>1, <1>2, <1>3, <1>4, <1>5, <1>6, <1>7, <1>8, <1>9,
       TickStep, StutterStep DEF Next, AllDelays, Probes

LEMMA InductiveInvariant ==
    Spec => []IInv
  BY InitIInv, NextIInv, PTL DEF Spec

(* Every reachable state has the declared types, and neither queue of a    *)
(* relay ever holds more than its size (cooldownQueueSize).                *)
THEOREM TypeCorrect ==
    Spec => []TypeOK
  BY InductiveInvariant, PTL DEF IInv

-----------------------------------------------------------------------------
(* What applying a peer's notice does.                                     *)

LEMMA TailIsShorter ==
    ASSUME NEW q \in Seq(Events), q # << >>
    PROVE  Tail(q) # q /\ \A e \in Events : Tail(q) # Append(q, e)
  <1>1. Len(Tail(q)) = Len(q) - 1 /\ Len(q) \in Nat
    OBVIOUS
  <1>2. ASSUME Tail(q) = q PROVE FALSE
    <2>1. Len(Tail(q)) = Len(q)
      BY <1>2, Zenon
    <2> QED
      BY <2>1, <1>1
  <1>3. ASSUME NEW e \in Events, Tail(q) = Append(q, e) PROVE FALSE
    <2>1. Len(Append(q, e)) = Len(q) + 1
      OBVIOUS
    <2>2. Len(Tail(q)) = Len(Append(q, e))
      BY <1>3, Zenon
    <2> HIDE <1>3
    <2> QED
      BY <2>1, <2>2, <1>1
  <1> QED
    BY <1>2, <1>3

(* Only the worker that applies notices takes one out of the queue.        *)
LEMMA OnlyApplyTakes ==
    ASSUME IInv, Next, NEW n \in Nodes,
           inbound[n] # << >>, inbound'[n] = Tail(inbound[n])
    PROVE  Apply(n)
  <1>1. inbound[n] \in Seq(Events)
    BY DEF IInv, TypeOK
  <1>2. inbound'[n] # inbound[n]
    BY <1>1, TailIsShorter
  <1>3. inbound' # inbound
    BY <1>2
  <1>4. ASSUME NEW k \in Nodes, NEW e \in sent, Receive(k, e)
        PROVE  FALSE
    <2>1. inbound' = [inbound EXCEPT ![k] = Append(inbound[k], e)]
      BY <1>4 DEF Receive
    <2>2. k = n
      BY <2>1, <1>2 DEF IInv, TypeOK
    <2>3. inbound'[n] = Append(inbound[n], e)
      BY <2>1, <2>2 DEF IInv, TypeOK
    <2>4. e \in Events
      BY DEF IInv, TypeOK
    <2> QED
      BY <1>1, <2>3, <2>4, TailIsShorter
  <1>5. ASSUME NEW k \in Nodes, Apply(k)
        PROVE  Apply(n)
    <2>1. k = n
      BY <1>2, <1>5 DEF Apply, IInv, TypeOK
    <2> QED
      BY <1>5, <2>1
  <1>6. ASSUME NEW k \in Nodes, NEW s \in Scopes, NEW kind, NEW d,
               Failure(k, s, kind, d)
        PROVE  FALSE
    BY <1>3, <1>6 DEF Failure, relay
  <1>7. ASSUME NEW k \in Nodes, NEW s \in Scopes, Success(k, s)
        PROVE  FALSE
    BY <1>3, <1>7 DEF Success, relay
  <1>8. ASSUME NEW k \in Nodes, NEW heard, NEW delay, ProbeAnswer(k, heard, delay)
        PROVE  FALSE
    BY <1>3, <1>8 DEF ProbeAnswer, relay
  <1>9. ASSUME NEW k \in Nodes, Clear(k)
        PROVE  FALSE
    BY <1>3, <1>9 DEF Clear, relay
  <1>10. ASSUME NEW k \in Nodes, NEW x \in held[k], Publish(k, x)
         PROVE  FALSE
    BY <1>3, <1>10 DEF Publish
  <1>11. ASSUME NEW k \in Nodes, Send(k) \/ Close(k)
         PROVE  FALSE
    BY <1>3, <1>11 DEF Send, Close
  <1>12. ~Tick
    BY <1>3 DEF Tick, relay
  <1> QED
    BY <1>4, <1>5, <1>6, <1>7, <1>8, <1>9, <1>10, <1>11, <1>12 DEF Next

LEMMA TakenNotice ==
    ASSUME IInv, NEW n \in Nodes, inbound[n] # << >>
    PROVE  LET e == Head(inbound[n])
           IN  /\ e.notice \in Notices
               /\ e.exact \in Notices
               /\ Faithful(e)
  <1>1. inbound[n] \in Seq(Events)
    BY DEF IInv, TypeOK
  <1>2. Head(inbound[n]) = inbound[n][1] /\ 1 \in 1..Len(inbound[n])
    BY <1>1
  <1>3. Head(inbound[n]) \in Events
    BY <1>1
  <1> QED
    BY <1>2, <1>3 DEF Events, IInv, Rounded

LEMMA ExtendsStep ==
    ASSUME IInv, Next, NEW n \in Nodes,
           inbound[n] # << >>, inbound'[n] = Tail(inbound[n]),
           NEW m \in Models
    PROVE  CooldownDeadline(state[n][m]) <= CooldownDeadline(state[n][m])'
  <1> DEFINE x == Head(inbound[n]).notice
             new == ApplyPeerCooldown(n, x)
  <1>1. Apply(n)
    BY OnlyApplyTakes
  <1>2. x \in Notices
    BY TakenNotice
  <1>3. now \in Nat /\ state \in [Nodes -> Auths]
    BY DEF IInv, TypeOK, Auths
  <1>4. CooldownDeadline(state[n][m]) <= CooldownDeadline(new[m])
    <2> HIDE DEF x
    <2> QED
      BY <1>2, <1>3, PeerFacts
  <1>5. state'[n] = new /\ now' = now
    BY <1>1, <1>3 DEF Apply
  <1>6. CooldownDeadline(state[n][m])' = CooldownDeadline(new[m])
    <2> HIDE DEF new
    <2> QED
      BY <1>5 DEF CooldownDeadline
  <1> QED
    BY <1>4, <1>6

(* A notice from a peer, however late and in whatever order, ends no       *)
(* model's cooldown earlier than it would have ended (ApplyPeerCooldown).  *)
THEOREM NeverShortened ==
    Spec => PeersOnlyExtend
  <1>1. IInv /\ [Next]_vars =>
            [\A n \in Nodes : inbound[n] # << >> /\ inbound'[n] = Tail(inbound[n]) =>
                \A m \in Models :
                    CooldownDeadline(state[n][m]) <= CooldownDeadline(state[n][m])']_vars
    BY ExtendsStep
  <1> QED
    BY <1>1, InductiveInvariant, PTL DEF Spec, PeersOnlyExtend

LEMMA ReportedStep ==
    ASSUME IInv, Next, NEW n \in Nodes,
           inbound[n] # << >>, inbound'[n] = Tail(inbound[n])
    PROVE  LET exact == Head(inbound[n]).exact
               told == [exact EXCEPT !.until = UnixMilli(@) * Parts]
           IN  \/ told.until <= now
               \/ PeerCooldownSuppressed(n, told)
               \/ CooldownDeadline(state'[n][told.scope]) >= Capped(told)
  <1> DEFINE x == Head(inbound[n]).notice
             exact == Head(inbound[n]).exact
             told == [exact EXCEPT !.until = UnixMilli(@) * Parts]
             new == ApplyPeerCooldown(n, x)
  <1>1. Apply(n)
    BY OnlyApplyTakes
  <1>2. /\ x \in Notices /\ exact \in Notices
        /\ x = [exact EXCEPT !.until = RoundUp(exact.until)]
    BY TakenNotice DEF Faithful
  <1>3. /\ now \in Nat /\ state \in [Nodes -> Auths]
        /\ Cap \in Nat \ {0}
    BY RelayAssumption DEF IInv, TypeOK, Auths
  <1>4. state'[n] = new
    BY <1>1, <1>3 DEF Apply
  <1> HIDE DEF x, exact
  <1>a. /\ told.until = UnixMilli(exact.until) * Parts /\ told.scope = exact.scope
        /\ told.quota = exact.quota /\ told.soft = exact.soft
    BY <1>2 DEF Notices
  <1> HIDE DEF told
  <1>5. /\ told.until \in Nat /\ x.until \in Nat /\ x.until >= told.until
        /\ x.scope = told.scope /\ x.scope \in Scopes
        /\ x.quota = told.quota /\ x.soft = told.soft
    BY <1>2, <1>a, RoundUpFacts DEF Notices
  <1>6. PeerCooldownSuppressed(n, x) <=> PeerCooldownSuppressed(n, told)
    BY <1>5 DEF PeerCooldownSuppressed
  <1>7. /\ Capped(x) = (IF x.until <= now + Cap THEN x.until ELSE now + Cap)
        /\ Capped(told) = (IF told.until <= now + Cap THEN told.until ELSE now + Cap)
    BY <1>3, <1>5, Min2 DEF Capped
  <1>8. /\ Capped(x) \in Nat /\ Capped(told) \in Nat
        /\ Capped(x) >= Capped(told)
        /\ told.until > now => Capped(x) > now
    BY <1>3, <1>5, <1>7
  <1>9. /\ new \in Auths
        /\ \/ Capped(x) <= now
           \/ PeerCooldownSuppressed(n, x)
           \/ CooldownDeadline(new[x.scope]) >= Capped(x)
    BY <1>2, <1>3, PeerFacts
  <1> HIDE DEF new
  <1>10. CooldownDeadline(new[x.scope]) \in Nat
    BY <1>3, <1>5, <1>9, DeadlineType DEF Auths
  <1>11. \/ told.until <= now
         \/ PeerCooldownSuppressed(n, told)
         \/ CooldownDeadline(new[told.scope]) >= Capped(told)
    BY <1>3, <1>5, <1>6, <1>8, <1>9, <1>10
  <1> QED
    BY <1>4, <1>11 DEF told, exact

(* A process that applies a notice cools at least as long as the reporter  *)
(* said, to the millisecond, unless the cap is shorter or cooling is       *)
(* disabled (send drops what is below the millisecond and rounds up to the *)
(* second, ApplyPeerCooldown caps).                                        *)
THEOREM NeverAppliedShorter ==
    Spec => NoShorterThanReported
  <1>1. IInv /\ [Next]_vars =>
            [\A n \in Nodes : inbound[n] # << >> /\ inbound'[n] = Tail(inbound[n]) =>
                LET exact == Head(inbound[n]).exact
                    told == [exact EXCEPT !.until = UnixMilli(@) * Parts]
                IN  \/ told.until <= now
                    \/ PeerCooldownSuppressed(n, told)
                    \/ CooldownDeadline(state'[n][told.scope]) >= Capped(told)]_vars
    BY ReportedStep
  <1> QED
    BY <1>1, InductiveInvariant, PTL DEF Spec, NoShorterThanReported

-----------------------------------------------------------------------------
(* Why a model is cooling.                                                 *)

LEMMA RoundUpMonotone ==
    ASSUME NEW a \in Nat, NEW b \in Nat, a <= b
    PROVE  RoundUp(a) <= RoundUp(b)
  <1> DEFINE i == UnixMilli(a)
             j == UnixMilli(b)
             p == (i + Millis - 1) \div Millis
             q == (j + Millis - 1) \div Millis
  <1>1. Millis \in Nat \ {0} /\ Parts \in Nat \ {0} /\ Second \in Nat /\ i \in Nat /\ j \in Nat
    BY SecondFacts
  <1>2. i <= j
    <2>1. Parts * i <= a /\ Parts * j + Parts > b
      BY <1>1 DEF UnixMilli
    <2> HIDE DEF i, j
    <2>2. SUFFICES ASSUME i >= j + 1 PROVE FALSE
      BY <1>1
    <2>3. Parts * i >= Parts * (j + 1)
      BY <1>1, <2>2
    <2>4. Parts * (j + 1) = Parts * j + Parts
      BY <1>1
    <2>5. Parts * i \in Nat /\ Parts * j \in Nat
      BY <1>1
    <2> QED
      BY <2>1, <2>3, <2>4, <2>5, <1>1
  <1> HIDE DEF i, j
  <1>3. p \in Nat /\ q \in Nat
    BY <1>1
  <1>4. Millis * p <= i + Millis - 1 /\ Millis * q + Millis > j + Millis - 1
    BY <1>1
  <1> HIDE DEF p, q
  <1>5. p <= q
    <2>1. SUFFICES ASSUME p >= q + 1 PROVE FALSE
      BY <1>3
    <2>2. Millis * p >= Millis * (q + 1)
      BY <2>1, <1>1, <1>3
    <2>3. Millis * (q + 1) = Millis * q + Millis
      BY <1>1, <1>3
    <2>4. Millis * p \in Nat /\ Millis * q \in Nat
      BY <1>1, <1>3
    <2> QED
      BY <2>2, <2>3, <2>4, <1>1, <1>2, <1>4
  <1>6. p * Second <= q * Second
    BY <1>1, <1>3, <1>5, Products
  <1> QED
    BY <1>6 DEF RoundUp, p, q, i, j

Evidence == [Nodes -> [Scopes -> Nat]]

(* How long a model may be cooling on process n at time t, when "o" is the *)
(* evidence of the processes.                                              *)
Cause(o, t, n, m) ==
    Max({o[n][m], Min({RoundUp(Max({o[k][m] : k \in Nodes})), t + Cap})})

LEMMA ImageIsFinite ==
    ASSUME NEW o, NEW m, IsFiniteSet(Nodes)
    PROVE  IsFiniteSet({o[k][m] : k \in Nodes})
  <1> DEFINE f == [k \in Nodes |-> o[k][m]]
             S == {o[k][m] : k \in Nodes}
  <1>1. f \in Surjection(Nodes, S)
    BY DEF Surjection
  <1> HIDE DEF f, S
  <1>2. IsFiniteSet(S)
    BY <1>1, FS_Surjection
  <1> QED
    BY <1>2 DEF S

LEMMA TopFacts ==
    ASSUME NEW o \in Evidence, NEW m \in Scopes, NEW n \in Nodes
    PROVE  LET top == Max({o[k][m] : k \in Nodes})
           IN  top \in Nat /\ \A k \in Nodes : o[k][m] <= top
  <1> DEFINE S == {o[k][m] : k \in Nodes}
  <1>1. S \in SUBSET Nat /\ S # {} /\ \A k \in Nodes : o[k][m] \in S
    BY DEF Evidence
  <1>2. IsFiniteSet(S)
    <2>1. IsFiniteSet(Nodes)
      BY RelayAssumption
    <2> QED
      BY <2>1, ImageIsFinite
  <1> HIDE DEF S
  <1>3. Max(S) \in S /\ \A y \in S : y <= Max(S)
    BY <1>1, <1>2, MaxNat
  <1>4. Max(S) \in Nat /\ \A k \in Nodes : o[k][m] <= Max(S)
    BY <1>1, <1>3
  <1> QED
    BY <1>4 DEF S

(* The bound in terms of its parts.                                        *)
LEMMA CauseFacts ==
    ASSUME NEW o \in Evidence, NEW t \in Nat, NEW n \in Nodes, NEW m \in Scopes
    PROVE  LET top == Max({o[k][m] : k \in Nodes})
           IN  /\ Cause(o, t, n, m) \in Nat
               /\ o[n][m] <= Cause(o, t, n, m)
               /\ top \in Nat /\ RoundUp(top) \in Nat
               /\ \A u \in Nat : u <= RoundUp(top) /\ u <= t + Cap
                                    => u <= Cause(o, t, n, m)
               /\ Cause(o, t, n, m) <= o[n][m]
                    \/ (Cause(o, t, n, m) <= RoundUp(top)
                            /\ Cause(o, t, n, m) <= t + Cap)
  <1> DEFINE top == Max({o[k][m] : k \in Nodes})
             up == RoundUp(top)
             lim == Min({up, t + Cap})
             own1 == o[n][m]
  <1>1. top \in Nat
    BY TopFacts
  <1>2. up \in Nat /\ t + Cap \in Nat /\ own1 \in Nat
    BY <1>1, RoundUpFacts, RelayAssumption DEF Evidence
  <1>3. Cause(o, t, n, m) = Max({own1, lim})
    BY DEF Cause
  <1> HIDE DEF top, up, own1
  <1>4. lim \in Nat /\ lim = IF up <= t + Cap THEN up ELSE t + Cap
    BY <1>2, Min2
  <1> HIDE DEF lim
  <1>5. Max({own1, lim}) = IF own1 >= lim THEN own1 ELSE lim
    BY <1>2, <1>4, Max2
  <1>6. /\ Cause(o, t, n, m) \in Nat
        /\ own1 <= Cause(o, t, n, m)
        /\ \A u \in Nat : u <= up /\ u <= t + Cap => u <= Cause(o, t, n, m)
        /\ Cause(o, t, n, m) <= own1
             \/ (Cause(o, t, n, m) <= up /\ Cause(o, t, n, m) <= t + Cap)
    BY <1>2, <1>3, <1>4, <1>5
  <1> QED
    BY <1>1, <1>2, <1>6 DEF top, up, own1

(* It never shrinks: evidence only accumulates and the clock only advances. *)
LEMMA CauseGrows ==
    ASSUME NEW o \in Evidence, NEW p \in Evidence, NEW t \in Nat, NEW u \in Nat,
           NEW n \in Nodes, NEW m \in Scopes,
           t <= u, \A k \in Nodes : o[k][m] <= p[k][m]
    PROVE  Cause(o, t, n, m) <= Cause(p, u, n, m)
  <1> DEFINE a == Max({o[k][m] : k \in Nodes})
             b == Max({p[k][m] : k \in Nodes})
             S == {o[k][m] : k \in Nodes}
  <1>1. a \in Nat /\ b \in Nat /\ \A k \in Nodes : p[k][m] <= b
    BY TopFacts
  <1>2. a <= b
    <2>1. S \in SUBSET Nat /\ S # {} /\ IsFiniteSet(S)
      <3>1. IsFiniteSet(Nodes)
        BY RelayAssumption
      <3>2. IsFiniteSet(S)
        BY <3>1, ImageIsFinite
      <3> QED
        BY <3>2 DEF Evidence
    <2>2. a \in S
      <3> HIDE DEF S
      <3>1. Max(S) \in S
        BY <2>1, MaxNat
      <3> QED
        BY <3>1 DEF S
    <2>3. PICK k \in Nodes : a = o[k][m]
      BY <2>2
    <2>4. o[k][m] \in Nat /\ p[k][m] \in Nat
      BY DEF Evidence
    <2> HIDE DEF a, b
    <2> QED
      BY <1>1, <2>3, <2>4
  <1>3. RoundUp(a) <= RoundUp(b) /\ RoundUp(a) \in Nat /\ RoundUp(b) \in Nat
    <2> HIDE DEF a, b
    <2> QED
      BY <1>1, <1>2, RoundUpMonotone, RoundUpFacts
  <1>4. /\ Cause(o, t, n, m) \in Nat
        /\ Cause(o, t, n, m) <= o[n][m]
             \/ (Cause(o, t, n, m) <= RoundUp(a) /\ Cause(o, t, n, m) <= t + Cap)
    BY CauseFacts
  <1>5. /\ Cause(p, u, n, m) \in Nat
        /\ p[n][m] <= Cause(p, u, n, m)
        /\ \A v \in Nat : v <= RoundUp(b) /\ v <= u + Cap => v <= Cause(p, u, n, m)
    BY CauseFacts
  <1>6. o[n][m] \in Nat /\ p[n][m] \in Nat /\ o[n][m] <= p[n][m] /\ Cap \in Nat
    BY RelayAssumption DEF Evidence
  <1> HIDE DEF a, b
  <1> QED
    BY <1>3, <1>4, <1>5, <1>6

-----------------------------------------------------------------------------
(* The stronger invariant behind it: no time in a model's state, in force  *)
(* or not, is later than its cause, and every notice on its way is backed  *)
(* by evidence of the process that made it.                                *)

Within(r, b) == r.retry <= b /\ r.recover <= b

Bounded(st, o, t) ==
    \A n \in Nodes, m \in Models : Within(st[n][m], Cause(o, t, n, m))

Carries(n, x) ==
    \/ x \in held[n]
    \/ \E i \in 1..Len(outbound[n]) : outbound[n][i] = x
    \/ \E e \in sent : e.origin = n /\ e.exact = x
    \/ \E k \in Nodes : \E i \in 1..Len(inbound[k]) :
            inbound[k][i].origin = n /\ inbound[k][i].exact = x

Backed(o, n, x) == x.scope \in Models => x.until <= o[n][x.scope]

Caused ==
    /\ Bounded(state, own, now)
    /\ \A n \in Nodes, x \in Notices : Carries(n, x) => Backed(own, n, x)

LEMMA ModelsAreScopes ==
    \A m \in Models : m \in Scopes /\ m # Account
  BY RelayAssumption DEF Scopes

LEMMA DeadlineWithin ==
    ASSUME now \in Nat, NEW r \in Records, NEW b \in Nat, Within(r, b)
    PROVE  CooldownDeadline(r) <= b
  <1> DEFINE u == IF r.down THEN r.retry ELSE 0
             v == IF r.quota THEN r.recover ELSE 0
  <1>1. u \in Nat /\ v \in Nat /\ u <= b /\ v <= b
    BY DEF Within, Records
  <1>2. CooldownDeadline(r) = IF Max({u, v}) > now THEN Max({u, v}) ELSE 0
    BY DEF CooldownDeadline
  <1> HIDE DEF u, v
  <1>3. Max({u, v}) = IF u >= v THEN u ELSE v
    BY <1>1, Max2
  <1> QED
    BY <1>1, <1>2, <1>3

LEMMA AggregateWithin ==
    ASSUME now \in Nat, NEW auth \in Auths, NEW m \in Models, NEW b \in Nat,
           Within(auth[m], b)
    PROVE  Within(UpdateAggregatedAvailability(auth)[m], b)
  <1> DEFINE new == UpdateAggregatedAvailability(auth)[m]
             r == auth[m]
  <1>1. m \in Scopes /\ m # Account /\ r \in Records
    BY ModelsAreScopes DEF Auths
  <1>2. new = r \/ (Lapsed(r) /\ new = [r EXCEPT !.down = FALSE, !.retry = 0])
    BY SweptModel
  <1> HIDE DEF new, r
  <1>3. Within(r, b)
    BY DEF r
  <1>4. Within(new, b)
    <2>1. (new.retry = r.retry \/ new.retry = 0) /\ new.recover = r.recover
      BY <1>1, <1>2 DEF Records
    <2> QED
      BY <1>3, <2>1 DEF Within
  <1> QED
    BY <1>4 DEF new

(* A failure's own time is the only one it brings in.                      *)
LEMMA FailureWithin ==
    ASSUME now \in Nat, NEW auth \in Auths, NEW s \in Scopes,
           NEW kind \in Kinds, NEW d \in Nat, NEW m \in Models, NEW b \in Nat,
           Within(auth[m], b), m = s => After(d) <= b
    PROVE  Within(ApplyFailure(auth, s, kind, d)[m], b)
  <1>1. /\ m \in Scopes /\ m # Account /\ After(d) \in Nat
        /\ auth[s] \in Records /\ auth[m] \in Records
    BY ModelsAreScopes, AfterType DEF Auths
  <1>2. CASE s = Account
    <2>1. ApplyFailure(auth, s, kind, d)[m] = auth[m]
      BY <1>1, <1>2 DEF ApplyFailure, Auths
    <2> QED
      BY <2>1
  <1>3. CASE s # Account
    <2> DEFINE f == ModelFailure(auth[s], kind, d)
               a == [auth EXCEPT ![s] = f]
    <2>1. f \in Records
      BY <1>1 DEF ModelFailure, Records, Kinds
    <2>2. m = s => Within(f, b)
      BY <1>1 DEF ModelFailure, Records, Kinds, Within
    <2>3. ApplyFailure(auth, s, kind, d) = UpdateAggregatedAvailability(a)
      BY <1>3 DEF ApplyFailure
    <2> HIDE DEF f
    <2>4. a \in Auths /\ Within(a[m], b)
      BY <1>1, <2>1, <2>2 DEF Auths
    <2> HIDE DEF a
    <2> QED
      BY <2>3, <2>4, AggregateWithin
  <1> QED
    BY <1>2, <1>3

(* A deadline that a failure moves forward is the failure's own.           *)
LEMMA NewsIsOwn ==
    ASSUME now \in Nat, NEW auth \in Auths, NEW s \in Models,
           NEW kind \in Kinds, NEW d \in Nat,
           CooldownDeadline(ApplyFailure(auth, s, kind, d)[s])
                > CooldownDeadline(auth[s])
    PROVE  CooldownDeadline(ApplyFailure(auth, s, kind, d)[s]) <= After(d)
  <1> DEFINE r == auth[s]
             f == ModelFailure(r, kind, d)
             a == [auth EXCEPT ![s] = f]
  <1>1. /\ s \in Scopes /\ s # Account /\ r \in Records /\ After(d) \in Nat
    BY ModelsAreScopes, AfterType DEF Auths
  <1>2. f \in Records
    BY <1>1 DEF ModelFailure, Records, Kinds
  <1>3. ApplyFailure(auth, s, kind, d) = UpdateAggregatedAvailability(a)
    BY <1>1 DEF ApplyFailure
  <1>4. /\ f.retry <= After(d) /\ f.retry \in Nat /\ f.recover \in Nat
        /\ r.retry \in Nat /\ r.recover \in Nat
        /\ r.down \in BOOLEAN /\ r.quota \in BOOLEAN
        /\ f.down \in BOOLEAN /\ f.quota \in BOOLEAN
        /\ \/ f.recover <= After(d)
           \/ f.recover = r.recover /\ f.quota = r.quota
    <2> HIDE DEF r
    <2>1. /\ f.retry \in Nat /\ f.recover \in Nat
          /\ f.down \in BOOLEAN /\ f.quota \in BOOLEAN
          /\ r.retry \in Nat /\ r.recover \in Nat
          /\ r.down \in BOOLEAN /\ r.quota \in BOOLEAN
      <3> HIDE DEF f
      <3> QED
        BY <1>1, <1>2 DEF Records
    <2>2. CASE kind \in {"quota", "throttle"}
      <3>1. f.retry = After(d) /\ (f.recover = After(d) \/ f.recover = 0)
        BY <2>2 DEF ModelFailure
      <3> HIDE DEF f
      <3> QED
        BY <1>1, <2>1, <3>1
    <2>3. CASE kind \notin {"quota", "throttle"}
      <3>1. /\ f.retry = 0 \/ f.retry = After(d)
            /\ f.recover = r.recover /\ f.quota = r.quota
        BY <2>3, <1>1 DEF ModelFailure, Records
      <3> HIDE DEF f
      <3> QED
        BY <1>1, <2>1, <3>1
    <2> QED
      BY <2>2, <2>3
  <1> HIDE DEF f
  <1>5. a \in Auths /\ a[s] = f
    BY <1>1, <1>2 DEF Auths
  <1> HIDE DEF a
  <1>6. CooldownDeadline(ApplyFailure(auth, s, kind, d)[s]) = CooldownDeadline(f)
    BY <1>3, <1>5, AggregateKeepsDeadlines
  <1>7. CooldownDeadline(f) > CooldownDeadline(r)
    BY <1>6
  <1> HIDE DEF r
  <1>8. CooldownDeadline(f) <= After(d)
    <2> DEFINE u == IF f.down THEN f.retry ELSE 0
               v == IF f.quota THEN f.recover ELSE 0
               p == IF r.down THEN r.retry ELSE 0
               q == IF r.quota THEN r.recover ELSE 0
    <2>1. /\ u \in Nat /\ v \in Nat /\ p \in Nat /\ q \in Nat
          /\ u <= After(d) /\ (v <= After(d) \/ v = q)
      BY <1>1, <1>4
    <2>2. /\ CooldownDeadline(f) = IF Max({u, v}) > now THEN Max({u, v}) ELSE 0
          /\ CooldownDeadline(r) = IF Max({p, q}) > now THEN Max({p, q}) ELSE 0
      BY DEF CooldownDeadline
    <2> HIDE DEF u, v, p, q
    <2>3. /\ Max({u, v}) = IF u >= v THEN u ELSE v
          /\ Max({p, q}) = IF p >= q THEN p ELSE q
      BY <2>1, Max2
    <2> QED
      BY <1>1, <1>7, <2>1, <2>2, <2>3
  <1> QED
    BY <1>6, <1>8

LEMMA LargestFacts ==
    ASSUME NEW o \in Evidence, NEW n \in Nodes, NEW s \in Scopes, NEW t \in Nat
    PROVE  LET p == Largest(o, n, s, t)
           IN  /\ p \in Evidence
               /\ \A k \in Nodes, m \in Scopes : o[k][m] <= p[k][m]
               /\ t <= p[n][s]
  <1> DEFINE p == Largest(o, n, s, t)
             v == Max({o[n][s], t})
  <1>1. o[n][s] \in Nat /\ \A k \in Nodes, m \in Scopes : o[k][m] \in Nat
    BY DEF Evidence
  <1>2. v \in Nat /\ v >= o[n][s] /\ v >= t
    <2>1. v = (IF o[n][s] >= t THEN o[n][s] ELSE t) /\ v \in Nat
      BY <1>1, Max2
    <2> QED
      BY <1>1, <2>1
  <1>3. p = [o EXCEPT ![n][s] = v]
    BY DEF Largest
  <1> HIDE DEF v, p
  <1>4. /\ p[n][s] = v
        /\ \A k \in Nodes, m \in Scopes : k # n \/ m # s => p[k][m] = o[k][m]
    BY <1>3 DEF Evidence
  <1>5. p \in Evidence
    BY <1>2, <1>3 DEF Evidence
  <1>6. \A k \in Nodes, m \in Scopes : o[k][m] <= p[k][m]
    BY <1>1, <1>2, <1>4
  <1> QED
    BY <1>2, <1>4, <1>5, <1>6 DEF p

LEMMA WithinGrows ==
    ASSUME NEW r \in Records, NEW a \in Nat, NEW b \in Nat, a <= b, Within(r, a)
    PROVE  Within(r, b)
  BY DEF Within, Records

(* What the steps that bring no evidence must keep.                        *)
LEMMA QuietStep ==
    ASSUME IInv, Caused, IInv', own' = own, now' \in {now, now + 1},
           \A n \in Nodes, m \in Models :
                Within(state'[n][m], Cause(own, now, n, m)),
           \A n \in Nodes, x \in Notices : Carries(n, x)' => Carries(n, x)
    PROVE  Caused'
  <1>1. /\ now \in Nat /\ own \in Evidence
        /\ now' \in Nat /\ now <= now'
        /\ state' \in [Nodes -> Auths]
    BY DEF IInv, TypeOK, Evidence, Auths
  <1>2. ASSUME NEW n \in Nodes, NEW m \in Models
        PROVE  Within(state'[n][m], Cause(own', now', n, m))
    <2>1. m \in Scopes /\ state'[n][m] \in Records
      BY <1>1, ModelsAreScopes DEF Auths
    <2>2. /\ Cause(own, now, n, m) <= Cause(own', now', n, m)
          /\ Cause(own, now, n, m) \in Nat /\ Cause(own', now', n, m) \in Nat
      <3>1. \A k \in Nodes : own[k][m] <= own[k][m]
        BY <1>1, <2>1 DEF Evidence
      <3> QED
        BY <1>1, <2>1, <3>1, CauseGrows, CauseFacts
    <2> QED
      BY <2>1, <2>2, WithinGrows
  <1>3. Bounded(state', own', now')
    BY <1>2 DEF Bounded
  <1>4. ASSUME NEW n \in Nodes, NEW x \in Notices, Carries(n, x)'
        PROVE  Backed(own', n, x)
    BY <1>4 DEF Caused, Backed
  <1> QED
    BY <1>3, <1>4 DEF Caused, Bounded, Backed

LEMMA InitCaused ==
    Init => Caused
  <1> SUFFICES ASSUME Init PROVE Caused
    OBVIOUS
  <1>1. now \in Nat /\ own \in Evidence
    BY InitIInv DEF IInv, TypeOK, Evidence
  <1>2. Bounded(state, own, now)
    <2> SUFFICES ASSUME NEW n \in Nodes, NEW m \in Models
                 PROVE  Within(state[n][m], Cause(own, now, n, m))
      BY DEF Bounded
    <2>1. m \in Scopes
      BY ModelsAreScopes
    <2>2. Cause(own, now, n, m) \in Nat
      BY <1>1, <2>1, CauseFacts
    <2>3. state[n][m].retry = 0 /\ state[n][m].recover = 0
      BY <2>1 DEF Init, Fresh
    <2> QED
      BY <2>2, <2>3 DEF Within
  <1>3. \A n \in Nodes, x \in Notices : ~Carries(n, x)
    BY DEF Init, Carries
  <1> QED
    BY <1>2, <1>3 DEF Caused

LEMMA EvidenceStep ==
    ASSUME IInv, Caused, IInv', now' = now,
           \A n \in Nodes, m \in Scopes : own[n][m] <= own'[n][m],
           \A n \in Nodes, m \in Models :
                Within(state'[n][m], Cause(own', now, n, m)),
           \A n \in Nodes, x \in Notices :
                Carries(n, x)' => Carries(n, x) \/ Backed(own', n, x)
    PROVE  Caused'
  <1>1. own \in Evidence /\ own' \in Evidence
    BY DEF IInv, TypeOK, Evidence
  <1>2. Bounded(state', own', now')
    BY DEF Bounded
  <1>3. ASSUME NEW n \in Nodes, NEW x \in Notices, Carries(n, x)'
        PROVE  Backed(own', n, x)
    <2>1. CASE Carries(n, x)
      <3>1. Backed(own, n, x)
        BY <2>1 DEF Caused
      <3>2. /\ x.scope \in Scopes /\ x.until \in Nat
            /\ own[n][x.scope] \in Nat /\ own'[n][x.scope] \in Nat
            /\ own[n][x.scope] <= own'[n][x.scope]
        BY <1>1 DEF Notices, Evidence
      <3> QED
        BY <3>1, <3>2 DEF Backed
    <2> QED
      BY <1>3, <2>1
  <1> QED
    BY <1>2, <1>3 DEF Caused, Bounded, Backed

(* The bound before and after new evidence.                                *)
LEMMA StillWithin ==
    ASSUME IInv, Caused, NEW p \in Evidence, NEW n \in Nodes, NEW m \in Models,
           \A k \in Nodes : own[k][m] <= p[k][m]
    PROVE  /\ Cause(p, now, n, m) \in Nat
           /\ p[n][m] <= Cause(p, now, n, m)
           /\ p[n][m] \in Nat
           /\ state[n][m] \in Records
           /\ Within(state[n][m], Cause(p, now, n, m))
  <1>1. /\ m \in Scopes /\ now \in Nat /\ own \in Evidence
        /\ state[n][m] \in Records
    BY ModelsAreScopes DEF IInv, TypeOK, Evidence
  <1>2. /\ Cause(p, now, n, m) \in Nat /\ Cause(own, now, n, m) \in Nat
        /\ p[n][m] <= Cause(p, now, n, m)
        /\ p[n][m] \in Nat
    BY <1>1, CauseFacts DEF Evidence
  <1>3. now <= now
    BY <1>1
  <1>4. Cause(own, now, n, m) <= Cause(p, now, n, m)
    BY <1>1, <1>3, CauseGrows
  <1>5. Within(state[n][m], Cause(own, now, n, m))
    BY DEF Caused, Bounded
  <1> QED
    BY <1>1, <1>2, <1>4, <1>5, WithinGrows

LEMMA FailureCaused ==
    ASSUME IInv, Caused, NEW n \in Nodes, NEW s \in Scopes, NEW kind \in Kinds,
           NEW d \in AllDelays, Failure(n, s, kind, d)
    PROVE  Caused'
  <1> DEFINE before == CooldownDeadline(state[n][s])
             auth == ApplyFailure(state[n], s, kind, d)
             until == CooldownDeadline(auth[s])
             news == open[n] /\ until > before
             x == Notice(s, until, auth[s].quota, kind)
             p == Largest(own, n, s, After(d))
  <1>1. /\ now \in Nat /\ d \in Nat
        /\ state \in [Nodes -> Auths] /\ state[n] \in Auths
        /\ held \in [Nodes -> SUBSET Notices]
        /\ own \in Evidence
    BY DelaysType DEF IInv, TypeOK, Auths, Evidence
  <1>2. IInv'
    BY FailureStep
  <1>3. /\ now' = now /\ UNCHANGED relay
        /\ state' = [state EXCEPT ![n] = auth]
        /\ own' = p
        /\ held' = IF news THEN [held EXCEPT ![n] = @ \cup {x}] ELSE held
    BY DEF Failure
  <1>4. After(d) \in Nat
    BY <1>1, AfterType
  <1>5. /\ p \in Evidence
        /\ \A k \in Nodes, m \in Scopes : own[k][m] <= p[k][m]
        /\ After(d) <= p[n][s]
    BY <1>1, <1>4, LargestFacts
  <1> HIDE DEF p
  <1>6. ASSUME NEW k \in Nodes, NEW m \in Models
        PROVE  Within(state'[k][m], Cause(p, now, k, m))
    <2>1. \A j \in Nodes : own[j][m] <= p[j][m]
      BY <1>5, ModelsAreScopes
    <2>2. /\ Cause(p, now, k, m) \in Nat
          /\ p[k][m] <= Cause(p, now, k, m)
          /\ p[k][m] \in Nat
          /\ Within(state[k][m], Cause(p, now, k, m))
      BY <1>5, <2>1, StillWithin
    <2>3. CASE k = n
      <3>1. m = s => After(d) <= Cause(p, now, n, m)
        BY <1>4, <1>5, <2>2, <2>3
      <3>2. Within(auth[m], Cause(p, now, n, m))
        BY <1>1, <2>2, <2>3, <3>1, FailureWithin
      <3> HIDE DEF auth
      <3> QED
        BY <1>1, <1>3, <2>3, <3>2
    <2>4. CASE k # n
      <3> HIDE DEF auth
      <3>1. state'[k] = state[k]
        BY <1>1, <1>3, <2>4
      <3> QED
        BY <2>2, <3>1
    <2> QED
      BY <2>3, <2>4
  <1>7. news => Backed(p, n, x)
    <2> SUFFICES ASSUME news, s \in Models PROVE until <= p[n][s]
      BY DEF Backed, Notice
    <2>1. until <= After(d)
      BY <1>1, NewsIsOwn
    <2>2. until \in Nat
      <3>1. auth[s] \in Records
        BY <1>1, FailureType DEF Auths
      <3> HIDE DEF auth
      <3> QED
        BY <1>1, <3>1, DeadlineType
    <2> HIDE DEF until
    <2>3. p[n][s] \in Nat
      BY <1>5 DEF Evidence
    <2> QED
      BY <1>4, <1>5, <2>1, <2>2, <2>3
  <1> HIDE DEF news, x, auth, until
  <1>8. ASSUME NEW k \in Nodes, NEW y \in Notices, Carries(k, y)'
        PROVE  Carries(k, y) \/ Backed(p, k, y)
    <2>1. y \in held'[k] => y \in held[k] \/ (news /\ k = n /\ y = x)
      BY <1>1, <1>3
    <2>2. y \in held'[k] \/ Carries(k, y)
      BY <1>3, <1>8 DEF Carries, relay
    <2> QED
      BY <1>7, <2>1, <2>2 DEF Carries
  <1> QED
    BY <1>2, <1>3, <1>5, <1>6, <1>8, EvidenceStep

LEMMA SuccessCaused ==
    ASSUME IInv, Caused, NEW n \in Nodes, NEW s \in Scopes, Success(n, s)
    PROVE  Caused'
  <1> DEFINE auth == state[n]
             ready == IF s = Account THEN auth ELSE [auth EXCEPT ![s].known = TRUE]
             reset == [auth EXCEPT ![s] = [Fresh EXCEPT !.known = s # Account]]
             new == ApplySuccess(auth, s)
  <1>1. /\ now \in Nat /\ own \in Evidence
        /\ state \in [Nodes -> Auths] /\ auth \in Auths
    BY DEF IInv, TypeOK, Auths, Evidence
  <1>2. IInv'
    BY SuccessStep
  <1>3. /\ state' = [state EXCEPT ![n] = new]
        /\ UNCHANGED <<now, held, own, noticed, relay>>
    BY DEF Success
  <1>4. new \in {reset, UpdateAggregatedAvailability(reset),
                 UpdateAggregatedAvailability(ready)}
    BY DEF ApplySuccess
  <1> HIDE DEF new
  <1>5. ready \in Auths /\ reset \in Auths
    <2> HIDE DEF auth
    <2>1. ready \in Auths
      BY <1>1 DEF Auths, Records
    <2>2. reset \in Auths
      BY <1>1 DEF Auths, Records, Fresh
    <2> QED
      BY <2>1, <2>2
  <1>6. ASSUME NEW m \in Models, NEW b \in Nat, Within(auth[m], b)
        PROVE  Within(new[m], b)
    <2> HIDE DEF auth
    <2>1. m \in Scopes /\ auth[m] \in Records
      BY <1>1, ModelsAreScopes DEF Auths
    <2>2. Within(ready[m], b)
      BY <1>1, <1>6, <2>1 DEF Within, Auths, Records
    <2>3. Within(reset[m], b)
      BY <1>1, <1>6, <2>1 DEF Within, Auths, Fresh
    <2> HIDE DEF ready, reset
    <2>4. /\ Within(UpdateAggregatedAvailability(ready)[m], b)
          /\ Within(UpdateAggregatedAvailability(reset)[m], b)
      BY <1>1, <1>5, <2>2, <2>3, AggregateWithin
    <2> QED
      BY <1>4, <2>3, <2>4
  <1>7. ASSUME NEW k \in Nodes, NEW m \in Models
        PROVE  Within(state'[k][m], Cause(own, now, k, m))
    <2>1. Within(state[k][m], Cause(own, now, k, m)) /\ Cause(own, now, k, m) \in Nat
      BY <1>1, CauseFacts, ModelsAreScopes DEF Caused, Bounded
    <2> QED
      BY <1>1, <1>3, <1>6, <2>1
  <1>8. \A k \in Nodes, x \in Notices : Carries(k, x)' => Carries(k, x)
    BY <1>3 DEF Carries, relay
  <1> QED
    BY <1>2, <1>3, <1>7, <1>8, QuietStep

LEMMA ProbeCaused ==
    ASSUME IInv, Caused, NEW n \in Nodes, Probes(n)
    PROVE  Caused'
  <1>1. /\ now \in Nat /\ own \in Evidence /\ state \in [Nodes -> Auths]
    BY DEF IInv, TypeOK, Auths, Evidence
  <1>2. IInv'
    BY ProbeStep
  <1>h. PICK heard \in SUBSET Scopes : \E delay \in [heard -> Nat] :
            /\ \/ state' = [state EXCEPT ![n] =
                              UpdateAggregatedAvailability(Answered(n, heard, delay))]
               \/ state' = [state EXCEPT ![n] = Answered(n, heard, delay)]
            /\ own' = [own EXCEPT ![n] = Heard(n, heard, delay)]
            /\ UNCHANGED <<now, held, noticed, relay>>
    BY ProbeFacts
  <1>3. PICK delay \in [heard -> Nat] :
            /\ \/ state' = [state EXCEPT ![n] =
                              UpdateAggregatedAvailability(Answered(n, heard, delay))]
               \/ state' = [state EXCEPT ![n] = Answered(n, heard, delay)]
            /\ own' = [own EXCEPT ![n] = Heard(n, heard, delay)]
            /\ UNCHANGED <<now, held, noticed, relay>>
    BY <1>h
  <1> DEFINE answered == Answered(n, heard, delay)
             evidence == Heard(n, heard, delay)
             p == [own EXCEPT ![n] = evidence]
  <1>4. /\ answered \in Auths
        /\ evidence \in [Scopes -> Nat]
        /\ \A s \in Scopes :
              /\ s \notin heard => answered[s] = state[n][s]
              /\ s \in heard => answered[s].retry <= evidence[s] /\ answered[s].recover <= evidence[s]
              /\ own[n][s] <= evidence[s]
    BY AnsweredFacts
  <1>5. own' = p
    BY <1>3
  <1> HIDE DEF answered, evidence
  <1>6. /\ p \in Evidence /\ p[n] = evidence
        /\ \A k \in Nodes, s \in Scopes : own[k][s] <= p[k][s]
    <2>1. p \in Evidence /\ p[n] = evidence /\ \A k \in Nodes : k # n => p[k] = own[k]
      BY <1>1, <1>4 DEF Evidence
    <2>2. \A k \in Nodes, s \in Scopes : own[k][s] \in Nat
      BY <1>1 DEF Evidence
    <2> HIDE DEF p
    <2> QED
      BY <1>4, <2>1, <2>2
  <1> HIDE DEF p
  <1>7. ASSUME NEW m \in Models, NEW b \in Nat, Within(state[n][m], b), evidence[m] <= b
        PROVE  Within(answered[m], b)
    <2>1. m \in Scopes /\ evidence[m] \in Nat /\ answered[m] \in Records
      BY <1>4, ModelsAreScopes DEF Auths
    <2>2. CASE m \notin heard
      BY <1>4, <1>7, <2>1, <2>2
    <2>3. CASE m \in heard
      <3>1. answered[m].retry <= evidence[m] /\ answered[m].recover <= evidence[m]
        BY <1>4, <2>1, <2>3
      <3>2. answered[m].retry \in Nat /\ answered[m].recover \in Nat
        BY <2>1 DEF Records
      <3> QED
        BY <1>7, <2>1, <3>1, <3>2 DEF Within
    <2> QED
      BY <2>2, <2>3
  <1>10. ASSUME NEW k \in Nodes, NEW m \in Models
         PROVE  Within(state'[k][m], Cause(p, now, k, m))
    <2>0. m \in Scopes
      BY ModelsAreScopes
    <2>1. \A j \in Nodes : own[j][m] <= p[j][m]
      BY <1>6, <2>0
    <2>2. /\ Cause(p, now, k, m) \in Nat
          /\ p[k][m] <= Cause(p, now, k, m)
          /\ p[k][m] \in Nat
          /\ Within(state[k][m], Cause(p, now, k, m))
      BY <1>6, <2>1, StillWithin
    <2>3. CASE k = n
      <3>2. Within(answered[m], Cause(p, now, k, m))
        BY <1>6, <1>7, <2>2, <2>3
      <3>3. Within(UpdateAggregatedAvailability(answered)[m], Cause(p, now, k, m))
        BY <1>1, <1>4, <2>2, <3>2, AggregateWithin
      <3>4. \/ state' = [state EXCEPT ![n] = UpdateAggregatedAvailability(answered)]
            \/ state' = [state EXCEPT ![n] = answered]
        BY <1>3 DEF answered
      <3> QED
        BY <1>1, <2>3, <3>2, <3>3, <3>4
    <2>4. CASE k # n
      <3>1. state'[k] = state[k]
        BY <1>1, <1>3, <2>4
      <3> QED
        BY <2>2, <3>1
    <2> QED
      BY <2>3, <2>4
  <1>11. \A k \in Nodes, x \in Notices : Carries(k, x)' => Carries(k, x)
    BY <1>3 DEF Carries, relay
  <1> QED
    BY <1>2, <1>3, <1>5, <1>6, <1>10, <1>11, EvidenceStep

LEMMA ClearCaused ==
    ASSUME IInv, Caused, NEW n \in Nodes, Clear(n)
    PROVE  Caused'
  <1> DEFINE new == [s \in Scopes |-> [Fresh EXCEPT !.known = state[n][s].known]]
  <1>1. now \in Nat /\ own \in Evidence /\ state \in [Nodes -> Auths]
    BY DEF IInv, TypeOK, Auths, Evidence
  <1>2. /\ state' = [state EXCEPT ![n] = new]
        /\ UNCHANGED <<now, held, own, noticed, relay>>
    BY DEF Clear
  <1>3. IInv'
    BY ClearStep
  <1>4. ASSUME NEW k \in Nodes, NEW m \in Models
        PROVE  Within(state'[k][m], Cause(own, now, k, m))
    <2>1. m \in Scopes
      BY ModelsAreScopes
    <2>2. Within(state[k][m], Cause(own, now, k, m)) /\ Cause(own, now, k, m) \in Nat
      BY <1>1, <2>1, CauseFacts DEF Caused, Bounded
    <2>3. new[m].retry = 0 /\ new[m].recover = 0
      BY <2>1 DEF Fresh
    <2> HIDE DEF new
    <2>4. Within(new[m], Cause(own, now, k, m))
      BY <2>2, <2>3 DEF Within
    <2> QED
      BY <1>1, <1>2, <2>2, <2>4
  <1>5. \A k \in Nodes, x \in Notices : Carries(k, x)' => Carries(k, x)
    BY <1>2 DEF Carries, relay
  <1> QED
    BY <1>2, <1>3, <1>4, <1>5, QuietStep

(* The steps that change no process's state.                               *)
LEMMA SameStateCaused ==
    ASSUME IInv, Caused, IInv', UNCHANGED <<state, own>>, now' \in {now, now + 1},
           \A n \in Nodes, x \in Notices : Carries(n, x)' => Carries(n, x)
    PROVE  Caused'
  <1>1. \A n \in Nodes, m \in Models :
            Within(state'[n][m], Cause(own, now, n, m))
    BY DEF Caused, Bounded
  <1> QED
    BY <1>1, QuietStep

LEMMA TickCaused ==
    ASSUME IInv, Caused, Tick \/ UNCHANGED vars
    PROVE  Caused'
  <1>1. IInv'
    BY TickStep, StutterStep
  <1>2. /\ UNCHANGED <<state, own, held, outbound, inbound, sent>>
        /\ now' \in {now, now + 1}
    BY DEF Tick, vars, relay
  <1>3. \A n \in Nodes, x \in Notices : Carries(n, x)' => Carries(n, x)
    BY <1>2 DEF Carries
  <1> QED
    BY <1>1, <1>2, <1>3, SameStateCaused

LEMMA PublishCaused ==
    ASSUME IInv, Caused, NEW n \in Nodes, NEW x \in held[n], Publish(n, x)
    PROVE  Caused'
  <1>1. IInv'
    BY PublishStep
  <1>2. /\ UNCHANGED <<state, own, inbound, sent, now>>
        /\ held' = [held EXCEPT ![n] = @ \ {x}]
        /\ outbound' = outbound
            \/ outbound' = [outbound EXCEPT ![n] = Append(outbound[n], x)]
    BY DEF Publish
  <1>3. /\ held \in [Nodes -> SUBSET Notices]
        /\ outbound \in [Nodes -> Seq(Notices)]
        /\ x \in Notices
    BY DEF IInv, TypeOK
  <1>4. ASSUME NEW k \in Nodes, NEW y \in Notices, Carries(k, y)'
        PROVE  Carries(k, y)
    <2>1. CASE y \in held'[k]
      BY <1>2, <1>3, <2>1 DEF Carries
    <2>2. CASE \E i \in 1..Len(outbound'[k]) : outbound'[k][i] = y
      <3>1. PICK i \in 1..Len(outbound'[k]) : outbound'[k][i] = y
        BY <2>2
      <3>2. CASE outbound'[k] = outbound[k]
        BY <3>1, <3>2 DEF Carries
      <3>3. CASE k = n /\ outbound'[k] = Append(outbound[k], x)
        <4>1. outbound[k] \in Seq(Notices)
          BY <1>3
        <4>2. (i \in 1..Len(outbound[k]) /\ outbound[k][i] = y) \/ y = x
          BY <1>3, <3>1, <3>3, <4>1
        <4> QED
          BY <3>3, <4>2 DEF Carries
      <3> QED
        BY <1>2, <1>3, <3>2, <3>3
    <2> QED
      BY <1>2, <1>4, <2>1, <2>2 DEF Carries
  <1> QED
    BY <1>1, <1>2, <1>4, SameStateCaused

LEMMA SendCaused ==
    ASSUME IInv, Caused, NEW n \in Nodes, Send(n)
    PROVE  Caused'
  <1> DEFINE x == Head(outbound[n])
             e == Event(n, x)
  <1>1. IInv'
    BY SendStep
  <1>2. /\ UNCHANGED <<state, own, held, inbound, now>>
        /\ outbound[n] # << >>
        /\ outbound' = [outbound EXCEPT ![n] = Tail(outbound[n])]
        /\ sent' \subseteq sent \cup {e}
    BY DEF Send, manager
  <1>3. outbound \in [Nodes -> Seq(Notices)] /\ outbound[n] \in Seq(Notices)
    BY DEF IInv, TypeOK
  <1>4. /\ 1 \in 1..Len(outbound[n]) /\ outbound[n][1] = x
        /\ \A i \in 1..Len(Tail(outbound[n])) :
              i + 1 \in 1..Len(outbound[n])
                /\ Tail(outbound[n])[i] = outbound[n][i + 1]
    BY <1>2, <1>3
  <1>5. e.origin = n /\ e.exact = x
    BY DEF Event
  <1> HIDE DEF x, e
  <1>6. ASSUME NEW k \in Nodes, NEW y \in Notices, Carries(k, y)'
        PROVE  Carries(k, y)
    <2>1. CASE \E i \in 1..Len(outbound'[k]) : outbound'[k][i] = y
      <3>1. CASE k = n
        BY <1>2, <1>3, <1>4, <2>1, <3>1 DEF Carries
      <3>2. CASE k # n
        BY <1>2, <1>3, <2>1, <3>2 DEF Carries
      <3> QED
        BY <3>1, <3>2
    <2>2. CASE \E f \in sent' : f.origin = k /\ f.exact = y
      <3>1. PICK f \in sent' : f.origin = k /\ f.exact = y
        BY <2>2
      <3>2. CASE f \in sent
        BY <3>1, <3>2 DEF Carries
      <3>3. CASE f = e
        BY <1>4, <1>5, <3>1, <3>3 DEF Carries
      <3> QED
        BY <1>2, <3>2, <3>3
    <2> QED
      BY <1>2, <1>6, <2>1, <2>2 DEF Carries
  <1> QED
    BY <1>1, <1>2, <1>6, SameStateCaused

LEMMA ReceiveCaused ==
    ASSUME IInv, Caused, NEW n \in Nodes, NEW e \in sent, Receive(n, e)
    PROVE  Caused'
  <1>1. IInv'
    BY ReceiveStep
  <1>2. /\ UNCHANGED <<state, own, held, outbound, sent, now>>
        /\ inbound' = [inbound EXCEPT ![n] = Append(inbound[n], e)]
    BY DEF Receive, manager
  <1>3. inbound \in [Nodes -> Seq(Events)] /\ inbound[n] \in Seq(Events)
    BY DEF IInv, TypeOK
  <1>4. ASSUME NEW j \in Nodes, NEW i \in 1..Len(inbound'[j])
        PROVE  \/ i \in 1..Len(inbound[j]) /\ inbound'[j][i] = inbound[j][i]
               \/ inbound'[j][i] = e
    <2>1. CASE j = n
      BY <1>2, <1>3, <2>1
    <2>2. CASE j # n
      BY <1>2, <1>3, <2>2
    <2> QED
      BY <2>1, <2>2
  <1>5. ASSUME NEW k \in Nodes, NEW y \in Notices, Carries(k, y)'
        PROVE  Carries(k, y)
    <2>1. CASE \E j \in Nodes : \E i \in 1..Len(inbound'[j]) :
                    inbound'[j][i].origin = k /\ inbound'[j][i].exact = y
      BY <1>4, <2>1 DEF Carries
    <2> QED
      BY <1>2, <1>5, <2>1 DEF Carries
  <1> QED
    BY <1>1, <1>2, <1>5, SameStateCaused

LEMMA CloseCaused ==
    ASSUME IInv, Caused, NEW n \in Nodes, Close(n)
    PROVE  Caused'
  <1>1. IInv'
    BY CloseStep
  <1>2. UNCHANGED <<state, own, held, outbound, inbound, sent, now>>
    BY DEF Close, manager
  <1>3. \A k \in Nodes, y \in Notices : Carries(k, y)' => Carries(k, y)
    BY <1>2 DEF Carries
  <1> QED
    BY <1>1, <1>2, <1>3, SameStateCaused

(* Applying a notice sets no time of a model later than the bound.         *)
LEMMA PeerWithin ==
    ASSUME now \in Nat, state \in [Nodes -> Auths],
           NEW n \in Nodes, NEW x \in Notices, NEW m \in Models, NEW b \in Nat,
           Within(state[n][m], b), x.scope = m => Capped(x) <= b
    PROVE  Within(ApplyPeerCooldown(n, x)[m], b)
  <1> DEFINE s == x.scope
             old == state[n]
             ext == [old EXCEPT ![s] = Extend(old[s], x, Capped(x))]
             new == ApplyPeerCooldown(n, x)
  <1>1. /\ s \in Scopes /\ old \in Auths /\ old[s] \in Records
        /\ Capped(x) \in Nat /\ m \in Scopes /\ old[m] \in Records
    BY CappedType, ModelsAreScopes DEF Notices, Auths
  <1>2. \/ new = old
        \/ Capped(x) > now /\ (new = ext \/ new = UpdateAggregatedAvailability(ext))
    BY <1>1 DEF ApplyPeerCooldown
  <1>3. Within(old[m], b)
    OBVIOUS
  <1> HIDE DEF new, s, old
  <1>4. CASE new = old
    BY <1>3, <1>4 DEF new
  <1>5. CASE Capped(x) > now /\ (new = ext \/ new = UpdateAggregatedAvailability(ext))
    <2> DEFINE f == Extend(old[s], x, Capped(x))
    <2>1. f \in Records
      BY <1>1, <1>5, ExtendFacts
    <2>2. s = m => Within(f, b)
      <3> SUFFICES ASSUME s = m PROVE Within(f, b)
        OBVIOUS
      <3>1. Capped(x) <= b
        BY DEF s
      <3>2. /\ old[s].recover \in Nat
            /\ old[s].recover <= b
        BY <1>1, <1>3 DEF Within, Records
      <3>3. Max({old[s].recover, Capped(x)})
                = IF old[s].recover >= Capped(x) THEN old[s].recover ELSE Capped(x)
        BY <1>1, <3>2, Max2
      <3>4. /\ f.retry = Capped(x)
            /\ f.recover \in {old[s].recover, Max({old[s].recover, Capped(x)})}
        BY DEF Extend
      <3> HIDE DEF f
      <3> QED
        BY <3>1, <3>2, <3>3, <3>4 DEF Within
    <2> HIDE DEF f
    <2>3. ext = [old EXCEPT ![s] = f]
      BY DEF f
    <2>4. ext \in Auths /\ Within(ext[m], b)
      BY <1>1, <1>3, <2>1, <2>2, <2>3 DEF Auths
    <2> HIDE DEF ext
    <2>5. Within(UpdateAggregatedAvailability(ext)[m], b)
      BY <2>4, AggregateWithin
    <2> QED
      BY <1>5, <2>4, <2>5 DEF new
  <1> QED
    BY <1>2, <1>4, <1>5

LEMMA ApplyCaused ==
    ASSUME IInv, Caused, NEW n \in Nodes, Apply(n)
    PROVE  Caused'
  <1> DEFINE e == Head(inbound[n])
             x == e.notice
  <1>1. IInv'
    BY ApplyStep
  <1>2. /\ inbound[n] # << >>
        /\ inbound' = [inbound EXCEPT ![n] = Tail(inbound[n])]
        /\ state' = [state EXCEPT ![n] = ApplyPeerCooldown(n, x)]
        /\ UNCHANGED <<now, held, outbound, sent, own>>
    BY DEF Apply
  <1>3. /\ now \in Nat /\ own \in Evidence /\ state \in [Nodes -> Auths]
        /\ inbound \in [Nodes -> Seq(Events)] /\ inbound[n] \in Seq(Events)
        /\ Cap \in Nat
    BY RelayAssumption DEF IInv, TypeOK, Auths, Evidence
  <1>4. /\ x \in Notices /\ e.exact \in Notices
        /\ x = [e.exact EXCEPT !.until = RoundUp(e.exact.until)]
    BY <1>2, TakenNotice DEF Faithful
  <1>5. /\ 1 \in 1..Len(inbound[n]) /\ inbound[n][1] = e
        /\ \A i \in 1..Len(Tail(inbound[n])) :
              i + 1 \in 1..Len(inbound[n])
                /\ Tail(inbound[n])[i] = inbound[n][i + 1]
    BY <1>2, <1>3
  <1>6. e.origin \in Nodes
    <2>1. e \in Events
      BY <1>2, <1>3
    <2> HIDE DEF e
    <2> QED
      BY <2>1 DEF Events
  <1>7. Backed(own, e.origin, e.exact)
    <2> HIDE DEF e
    <2>1. Carries(e.origin, e.exact)
      BY <1>5 DEF Carries
    <2> QED
      BY <1>4, <1>6, <2>1 DEF Caused
  <1> HIDE DEF e
  <1>8. ASSUME NEW m \in Models, x.scope = m
        PROVE  Capped(x) <= Cause(own, now, n, m)
    <2> DEFINE top == Max({own[k][m] : k \in Nodes})
               u == e.exact.until
    <2>1. m \in Scopes /\ e.exact.scope = m /\ u \in Nat /\ x.until = RoundUp(u)
      <3>1. m \in Scopes
        BY ModelsAreScopes
      <3>2. /\ x.scope = e.exact.scope /\ x.until = RoundUp(u)
            /\ u \in Nat
        <4> HIDE DEF x
        <4> QED
          BY <1>4 DEF Notices
      <3> QED
        BY <1>8, <3>1, <3>2
    <2>2. u <= own[e.origin][m]
      BY <1>7, <2>1 DEF Backed
    <2>3. top \in Nat /\ own[e.origin][m] <= top /\ own[e.origin][m] \in Nat
      BY <1>3, <1>6, <2>1, TopFacts DEF Evidence
    <2>4. /\ RoundUp(top) \in Nat
          /\ \A v \in Nat : v <= RoundUp(top) /\ v <= now + Cap
                                => v <= Cause(own, now, n, m)
      <3>1. m \in Scopes /\ now \in Nat /\ own \in Evidence
        BY <1>3, <2>1
      <3> HIDE DEF x, u
      <3> HIDE <2>1, <2>2, <2>3
      <3> QED
        BY <3>1, CauseFacts
    <2> HIDE DEF top, u
    <2>5. RoundUp(u) <= RoundUp(top) /\ RoundUp(u) \in Nat
      BY <2>1, <2>2, <2>3, RoundUpMonotone, RoundUpFacts
    <2>6. Capped(x) \in Nat /\ Capped(x) <= x.until /\ Capped(x) <= now + Cap
      BY <1>3, <1>4, CappedType
    <2> QED
      BY <2>1, <2>4, <2>5, <2>6
  <1>9. ASSUME NEW k \in Nodes, NEW m \in Models
        PROVE  Within(state'[k][m], Cause(own, now, k, m))
    <2>1. Within(state[k][m], Cause(own, now, k, m)) /\ Cause(own, now, k, m) \in Nat
      BY <1>3, CauseFacts, ModelsAreScopes DEF Caused, Bounded
    <2>2. CASE k = n
      <3>1. x.scope = m => Capped(x) <= Cause(own, now, k, m)
        BY <1>8, <2>2
      <3> HIDE DEF x
      <3>2. Within(ApplyPeerCooldown(n, x)[m], Cause(own, now, k, m))
        BY <1>3, <1>4, <2>1, <2>2, <3>1, PeerWithin
      <3> QED
        BY <1>2, <1>3, <2>2, <3>2
    <2>3. CASE k # n
      BY <1>2, <1>3, <2>1, <2>3
    <2> QED
      BY <2>2, <2>3
  <1>10. ASSUME NEW k \in Nodes, NEW y \in Notices, Carries(k, y)'
         PROVE  Carries(k, y)
    <2>1. CASE \E j \in Nodes : \E i \in 1..Len(inbound'[j]) :
                    inbound'[j][i].origin = k /\ inbound'[j][i].exact = y
      <3>1. PICK j \in Nodes : \E i \in 1..Len(inbound'[j]) :
                    inbound'[j][i].origin = k /\ inbound'[j][i].exact = y
        BY <2>1
      <3>2. CASE j = n
        BY <1>2, <1>3, <1>5, <3>1, <3>2 DEF Carries
      <3>3. CASE j # n
        BY <1>2, <1>3, <3>1, <3>3 DEF Carries
      <3> QED
        BY <3>2, <3>3
    <2> QED
      BY <1>2, <1>10, <2>1 DEF Carries
  <1> QED
    BY <1>1, <1>2, <1>9, <1>10, QuietStep

LEMMA NextCaused ==
    ASSUME IInv, Caused, [Next]_vars
    PROVE  Caused'
  <1>1. ASSUME NEW n \in Nodes, NEW s \in Scopes, NEW kind \in Kinds,
               NEW d \in AllDelays, Failure(n, s, kind, d)
        PROVE  Caused'
    BY <1>1, FailureCaused
  <1>2. ASSUME NEW n \in Nodes, NEW s \in Scopes, Success(n, s)
        PROVE  Caused'
    BY <1>2, SuccessCaused
  <1>3. ASSUME NEW n \in Nodes, Probes(n)
        PROVE  Caused'
    BY <1>3, ProbeCaused
  <1>4. ASSUME NEW n \in Nodes, Clear(n)
        PROVE  Caused'
    BY <1>4, ClearCaused
  <1>5. ASSUME NEW n \in Nodes, NEW x \in held[n], Publish(n, x)
        PROVE  Caused'
    BY <1>5, PublishCaused
  <1>6. ASSUME NEW n \in Nodes, Send(n)
        PROVE  Caused'
    BY <1>6, SendCaused
  <1>7. ASSUME NEW n \in Nodes, NEW e \in sent, Receive(n, e)
        PROVE  Caused'
    BY <1>7, ReceiveCaused
  <1>8. ASSUME NEW n \in Nodes, Apply(n)
        PROVE  Caused'
    BY <1>8, ApplyCaused
  <1>9. ASSUME NEW n \in Nodes, Close(n)
        PROVE  Caused'
    BY <1>9, CloseCaused
  <1> QED
    BY <1>1, <1>2, <1>3, <1>4, <1>5, <1>6, <1>7, <1>8, <1>9,
       TickCaused DEF Next, AllDelays, Probes

LEMMA CausedExplains ==
    ASSUME IInv, Caused
    PROVE  CooldownHasCause
  <1> SUFFICES ASSUME NEW n \in Nodes, NEW m \in Models
               PROVE  CooldownDeadline(state[n][m]) <= Cause(own, now, n, m)
    BY DEF CooldownHasCause, Cause
  <1>1. m \in Scopes /\ now \in Nat /\ own \in Evidence /\ state[n][m] \in Records
    BY ModelsAreScopes DEF IInv, TypeOK, Evidence
  <1>2. Cause(own, now, n, m) \in Nat
    BY <1>1, CauseFacts
  <1>3. Within(state[n][m], Cause(own, now, n, m))
    BY DEF Caused, Bounded
  <1> QED
    BY <1>1, <1>2, <1>3, DeadlineWithin

(* A model is cooling on a process only as long as the process's own       *)
(* evidence says, or some other process's failure does and at most the cap *)
(* from now: notices that go round the cluster, late, twice or reordered,  *)
(* keep no cooldown alive (ApplyPeerCooldown).                             *)
THEOREM NoSelfSustainedCooldown ==
    Spec => []CooldownHasCause
  <1>1. IInv /\ Caused => CooldownHasCause
    BY CausedExplains
  <1>2. Init => IInv /\ Caused
    BY InitIInv, InitCaused
  <1>3. IInv /\ Caused /\ [Next]_vars => IInv' /\ Caused'
    BY NextIInv, NextCaused
  <1> QED
    BY <1>1, <1>2, <1>3, PTL DEF Spec

-----------------------------------------------------------------------------
(* What has been announced.                                                *)

(* The relay of process n has taken the notice: it is queued, was handed   *)
(* to the bus, or was lost on the way.                                     *)
Announced(n, x) ==
    \/ \E i \in 1..Len(outbound[n]) : outbound[n][i] = x
    \/ \E e \in sent : e.origin = n /\ e.exact = x
    \/ <<n, x>> \in lost

(* The deadline a relay remembers as announced, while ahead, really was.   *)
PublishedIsAnnounced ==
    \A n \in Nodes, s \in Scopes :
        published[n][s] > now =>
            \E x \in Notices :
                Announced(n, x) /\ x.scope = s /\ x.until = published[n][s]

(* A notice that is still held has no slack to lose: it may yet be found   *)
(* close enough to what was announced, and only then is the slack spent.   *)
NoticedIsCarried ==
    \A n \in Nodes, s \in Scopes :
        noticed[n][s] > now =>
            \E x \in Notices :
                /\ x.scope = s
                /\ \/ x \in held[n] /\ x.until >= noticed[n][s]
                   \/ Announced(n, x) /\ x.until + Slack >= noticed[n][s]

Told == PublishedIsAnnounced /\ NoticedIsCarried

LEMMA InitTold ==
    Init => Told
  <1> SUFFICES ASSUME Init PROVE Told
    OBVIOUS
  <1>1. \A n \in Nodes, s \in Scopes : ~(published[n][s] > now) /\ ~(noticed[n][s] > now)
    BY DEF Init
  <1> QED
    BY <1>1 DEF Told, PublishedIsAnnounced, NoticedIsCarried

(* Steps that touch none of what a process said keep the promises: time    *)
(* only lets them lapse.                                                   *)
LEMMA SilentTold ==
    ASSUME IInv, Told, UNCHANGED <<held, noticed, published>>,
           now' \in {now, now + 1},
           \A n \in Nodes, x \in Notices : Announced(n, x) => Announced(n, x)'
    PROVE  Told'
  <1>1. /\ now \in Nat /\ now' \in Nat /\ now <= now'
        /\ \A n \in Nodes, s \in Scopes : published[n][s] \in Nat /\ noticed[n][s] \in Nat
    BY DEF IInv, TypeOK
  <1>2. PublishedIsAnnounced'
    <2> SUFFICES ASSUME NEW n \in Nodes, NEW s \in Scopes, published[n][s] > now'
                 PROVE  \E x \in Notices :
                            Announced(n, x)' /\ x.scope = s /\ x.until = published[n][s]
      BY DEF PublishedIsAnnounced
    <2>1. published[n][s] > now
      BY <1>1
    <2> QED
      BY <2>1 DEF Told, PublishedIsAnnounced
  <1>3. NoticedIsCarried'
    <2> SUFFICES ASSUME NEW n \in Nodes, NEW s \in Scopes, noticed[n][s] > now'
                 PROVE  \E x \in Notices :
                            /\ x.scope = s
                            /\ \/ x \in held[n] /\ x.until >= noticed[n][s]
                               \/ Announced(n, x)' /\ x.until + Slack >= noticed[n][s]
      BY DEF NoticedIsCarried
    <2>1. noticed[n][s] > now
      BY <1>1
    <2>2. PICK x \in Notices :
            /\ x.scope = s
            /\ \/ x \in held[n] /\ x.until >= noticed[n][s]
               \/ Announced(n, x) /\ x.until + Slack >= noticed[n][s]
      BY <2>1 DEF Told, NoticedIsCarried
    <2> QED
      BY <2>2
  <1> QED
    BY <1>2, <1>3 DEF Told

LEMMA SameRelayTold ==
    ASSUME IInv, Told, UNCHANGED <<held, noticed, published, outbound, sent, lost>>,
           now' \in {now, now + 1}
    PROVE  Told'
  <1>1. \A n \in Nodes, x \in Notices : Announced(n, x) => Announced(n, x)'
    BY DEF Announced
  <1> QED
    BY <1>1, SilentTold

(* A failure raises what was noticed only together with a notice of it.    *)
LEMMA FailureTold ==
    ASSUME IInv, Told, NEW n \in Nodes, NEW s \in Scopes, NEW kind \in Kinds,
           NEW d \in AllDelays, Failure(n, s, kind, d)
    PROVE  Told'
  <1> DEFINE before == CooldownDeadline(state[n][s])
             auth == ApplyFailure(state[n], s, kind, d)
             until == CooldownDeadline(auth[s])
             news == open[n] /\ until > before
             x == Notice(s, until, auth[s].quota, kind)
             v == Max({noticed[n][s], until})
  <1>1. /\ now \in Nat /\ d \in Nat
        /\ state[n] \in Auths
        /\ held \in [Nodes -> SUBSET Notices]
        /\ noticed \in Evidence /\ noticed[n][s] \in Nat
    BY DelaysType DEF IInv, TypeOK, Auths, Evidence
  <1>2. auth[s] \in Records
    BY <1>1, FailureType DEF Auths
  <1>3. /\ now' = now /\ UNCHANGED <<published, outbound, sent, lost>>
        /\ held' = IF news THEN [held EXCEPT ![n] = @ \cup {x}] ELSE held
        /\ noticed' = IF news THEN [noticed EXCEPT ![n][s] = v] ELSE noticed
    BY DEF Failure, relay, Largest
  <1> HIDE DEF auth
  <1>4. until \in Nat
    BY <1>1, <1>2, DeadlineType
  <1>5. x \in Notices /\ x.scope = s /\ x.until = until
    <2> HIDE DEF until
    <2> QED
      BY <1>2, <1>4 DEF Notice, Notices, Records
  <1>6. v = (IF noticed[n][s] >= until THEN noticed[n][s] ELSE until)
    BY <1>1, <1>4, Max2
  <1> HIDE DEF until, x, news, v
  <1>7. \A k \in Nodes, y \in Notices : Announced(k, y)' <=> Announced(k, y)
    BY <1>3 DEF Announced
  <1>8. CASE ~news
    <2>1. UNCHANGED <<held, noticed, published>>
      BY <1>3, <1>8
    <2> QED
      BY <1>3, <1>7, <2>1, SilentTold
  <1>9. CASE news
    <2>1. PublishedIsAnnounced'
      BY <1>3, <1>7 DEF Told, PublishedIsAnnounced
    <2>2. ASSUME NEW k \in Nodes, NEW t \in Scopes, noticed'[k][t] > now
          PROVE  \E y \in Notices :
                    /\ y.scope = t
                    /\ \/ y \in held'[k] /\ y.until >= noticed'[k][t]
                       \/ Announced(k, y) /\ y.until + Slack >= noticed'[k][t]
      <3>1. \A y \in Notices : y \in held[k] => y \in held'[k]
        BY <1>1, <1>3
      <3>2. CASE noticed'[k][t] = noticed[k][t]
        <4>1. PICK y \in Notices :
                /\ y.scope = t
                /\ \/ y \in held[k] /\ y.until >= noticed[k][t]
                   \/ Announced(k, y) /\ y.until + Slack >= noticed[k][t]
          BY <2>2, <3>2 DEF Told, NoticedIsCarried
        <4> QED
          BY <3>1, <3>2, <4>1
      <3>3. CASE noticed'[k][t] # noticed[k][t]
        <4>1. k = n /\ t = s /\ noticed'[k][t] = v
          BY <1>1, <1>3, <1>9, <3>3 DEF Evidence
        <4>2. v = until
          BY <1>6, <3>3, <4>1
        <4>3. x \in held'[n]
          BY <1>1, <1>3, <1>9
        <4> QED
          BY <1>4, <1>5, <4>1, <4>2, <4>3
      <3> QED
        BY <3>2, <3>3
    <2> QED
      BY <1>3, <1>7, <2>1, <2>2 DEF Told, NoticedIsCarried
  <1> QED
    BY <1>8, <1>9

(* A notice leaves the hands of the manager only into the relay, or because *)
(* what was announced is ahead and at most the slack earlier.              *)
LEMMA PublishTold ==
    ASSUME IInv, Told, NEW n \in Nodes, NEW x \in held[n], Publish(n, x)
    PROVE  Told'
  <1>1. /\ now \in Nat /\ Slack \in Nat
        /\ held \in [Nodes -> SUBSET Notices] /\ x \in Notices
        /\ x.scope \in Scopes /\ x.until \in Nat
        /\ published \in Evidence /\ noticed \in Evidence
        /\ outbound \in [Nodes -> Seq(Notices)] /\ outbound[n] \in Seq(Notices)
    <2>1. /\ now \in Nat /\ Slack \in Nat
          /\ held \in [Nodes -> SUBSET Notices]
          /\ published \in Evidence /\ noticed \in Evidence
          /\ outbound \in [Nodes -> Seq(Notices)]
      BY RelayAssumption DEF IInv, TypeOK, Evidence
    <2>2. x \in Notices
      BY <2>1
    <2>3. x.scope \in Scopes /\ x.until \in Nat
      BY <2>2 DEF Notices
    <2> QED
      BY <2>1, <2>2, <2>3
  <1>2. /\ held' = [held EXCEPT ![n] = @ \ {x}]
        /\ UNCHANGED <<now, sent, noticed>>
    BY DEF Publish
  <1>3. /\ Claimed(n, x) =>
              /\ published' = [published EXCEPT ![n][x.scope] = x.until]
              /\ \/ outbound' = [outbound EXCEPT ![n] = Append(@, x)] /\ lost' = lost
                 \/ outbound' = outbound /\ lost' = lost \cup {<<n, x>>}
        /\ ~Claimed(n, x) => UNCHANGED <<published, outbound, lost>>
    BY DEF Publish
  <1>4. /\ Append(outbound[n], x) \in Seq(Notices)
        /\ Len(Append(outbound[n], x)) = Len(outbound[n]) + 1
        /\ Append(outbound[n], x)[Len(outbound[n]) + 1] = x
        /\ \A i \in 1..Len(outbound[n]) : Append(outbound[n], x)[i] = outbound[n][i]
        /\ Len(outbound[n]) \in Nat
    BY <1>1
  <1>5. ASSUME NEW k \in Nodes, NEW y \in Notices, Announced(k, y)
        PROVE  Announced(k, y)'
    <2>1. lost \subseteq lost' /\ sent' = sent
      BY <1>2, <1>3
    <2>2. CASE \E i \in 1..Len(outbound[k]) : outbound[k][i] = y
      <3>1. \/ outbound'[k] = outbound[k]
            \/ k = n /\ outbound'[k] = Append(outbound[n], x)
        BY <1>1, <1>3
      <3>2. PICK i \in 1..Len(outbound[k]) : outbound[k][i] = y
        BY <2>2
      <3>3. i \in 1..Len(outbound'[k]) /\ outbound'[k][i] = y
        BY <1>4, <3>1, <3>2
      <3> QED
        BY <3>3 DEF Announced
    <2> QED
      BY <1>5, <2>1, <2>2 DEF Announced
  <1>6. Claimed(n, x) => Announced(n, x)'
    <2> SUFFICES ASSUME Claimed(n, x) PROVE Announced(n, x)'
      OBVIOUS
    <2>1. CASE outbound' = [outbound EXCEPT ![n] = Append(@, x)]
      <3>1. outbound'[n] = Append(outbound[n], x)
        BY <1>1, <2>1
      <3>2. Len(outbound[n]) + 1 \in 1..Len(outbound'[n])
            /\ outbound'[n][Len(outbound[n]) + 1] = x
        BY <1>4, <3>1
      <3> QED
        BY <3>2 DEF Announced
    <2>2. CASE lost' = lost \cup {<<n, x>>}
      BY <2>2 DEF Announced
    <2> QED
      BY <1>3, <2>1, <2>2
  <1>7. /\ Claimed(n, x) =>
              /\ published'[n][x.scope] = x.until
              /\ \A k \in Nodes, t \in Scopes :
                    k # n \/ t # x.scope => published'[k][t] = published[k][t]
        /\ ~Claimed(n, x) => published' = published
    BY <1>1, <1>3 DEF Evidence
  <1>8. PublishedIsAnnounced'
    <2> SUFFICES ASSUME NEW k \in Nodes, NEW t \in Scopes, published'[k][t] > now
                 PROVE  \E y \in Notices :
                            Announced(k, y)' /\ y.scope = t /\ y.until = published'[k][t]
      BY <1>2 DEF PublishedIsAnnounced
    <2>1. CASE Claimed(n, x) /\ k = n /\ t = x.scope
      BY <1>1, <1>6, <1>7, <2>1
    <2>2. CASE published'[k][t] = published[k][t]
      BY <1>5, <2>2 DEF Told, PublishedIsAnnounced
    <2> QED
      BY <1>7, <2>1, <2>2
  <1>9. NoticedIsCarried'
    <2> SUFFICES ASSUME NEW k \in Nodes, NEW t \in Scopes, noticed[k][t] > now
                 PROVE  \E y \in Notices :
                            /\ y.scope = t
                            /\ \/ y \in held'[k] /\ y.until >= noticed[k][t]
                               \/ Announced(k, y)' /\ y.until + Slack >= noticed[k][t]
      BY <1>2 DEF NoticedIsCarried
    <2>1. PICK y \in Notices :
            /\ y.scope = t
            /\ \/ y \in held[k] /\ y.until >= noticed[k][t]
               \/ Announced(k, y) /\ y.until + Slack >= noticed[k][t]
      BY DEF Told, NoticedIsCarried
    <2>2. CASE Announced(k, y) /\ y.until + Slack >= noticed[k][t]
      BY <1>5, <2>1, <2>2
    <2>3. CASE y \in held'[k] /\ y.until >= noticed[k][t]
      BY <2>1, <2>3
    <2>4. CASE k = n /\ y = x /\ y.until >= noticed[k][t]
      <3>1. noticed[k][t] \in Nat /\ published[n][t] \in Nat
        BY <1>1 DEF Evidence
      <3>2. CASE Claimed(n, x)
        BY <1>1, <1>6, <2>1, <2>4, <3>1, <3>2
      <3>3. CASE ~Claimed(n, x)
        <4>1. published[n][t] > now /\ x.until <= published[n][t] + Slack
          BY <2>1, <2>4, <3>3 DEF Claimed
        <4>2. PICK z \in Notices :
                Announced(n, z) /\ z.scope = t /\ z.until = published[n][t]
          BY <4>1 DEF Told, PublishedIsAnnounced
        <4>3. z.until + Slack >= noticed[k][t]
          BY <1>1, <2>4, <3>1, <4>1, <4>2
        <4> QED
          BY <1>5, <2>4, <4>2, <4>3
      <3> QED
        BY <3>2, <3>3
    <2> QED
      BY <1>1, <1>2, <2>1, <2>2, <2>3, <2>4
  <1> QED
    BY <1>8, <1>9 DEF Told

(* What leaves the queue is sent or counted as lost.                       *)
LEMMA SendTold ==
    ASSUME IInv, Told, NEW n \in Nodes, Send(n)
    PROVE  Told'
  <1> DEFINE x == Head(outbound[n])
             e == Event(n, x)
  <1>1. outbound \in [Nodes -> Seq(Notices)] /\ outbound[n] \in Seq(Notices)
    BY DEF IInv, TypeOK
  <1>2. /\ outbound[n] # << >>
        /\ outbound' = [outbound EXCEPT ![n] = Tail(@)]
        /\ \/ sent' = sent \cup {e} /\ lost' = lost
           \/ lost' = lost \cup {<<n, x>>} /\ sent' = sent
        /\ UNCHANGED <<now, held, noticed, published>>
    BY DEF Send, manager
  <1>3. e.origin = n /\ e.exact = x
    BY DEF Event
  <1>4. /\ outbound[n][1] = x /\ Len(outbound[n]) \in Nat
        /\ \A i \in 2..Len(outbound[n]) :
              i - 1 \in 1..Len(Tail(outbound[n]))
                /\ Tail(outbound[n])[i - 1] = outbound[n][i]
    BY <1>1, <1>2
  <1> HIDE DEF x, e
  <1>5. ASSUME NEW y \in Notices, y = x PROVE Announced(n, y)'
    <2>1. CASE sent' = sent \cup {e}
      BY <1>3, <1>5, <2>1 DEF Announced
    <2>2. CASE lost' = lost \cup {<<n, x>>}
      BY <1>5, <2>2 DEF Announced
    <2> QED
      BY <1>2, <2>1, <2>2
  <1>6. ASSUME NEW k \in Nodes, NEW y \in Notices, Announced(k, y)
        PROVE  Announced(k, y)'
    <2>1. CASE \E i \in 1..Len(outbound[k]) : outbound[k][i] = y
      <3>1. PICK i \in 1..Len(outbound[k]) : outbound[k][i] = y
        BY <2>1
      <3>2. CASE k # n
        <4>1. outbound'[k] = outbound[k]
          BY <1>1, <1>2, <3>2
        <4> QED
          BY <2>1, <4>1 DEF Announced
      <3>3. CASE k = n /\ i = 1
        BY <1>4, <1>5, <3>1, <3>3
      <3>4. CASE k = n /\ i # 1
        <4>1. outbound'[k] = Tail(outbound[n]) /\ i \in 2..Len(outbound[n])
          BY <1>1, <1>2, <1>4, <3>1, <3>4
        <4>2. i - 1 \in 1..Len(outbound'[k]) /\ outbound'[k][i - 1] = y
          BY <1>4, <3>1, <3>4, <4>1
        <4> QED
          BY <4>2 DEF Announced
      <3> QED
        BY <3>2, <3>3, <3>4
    <2> QED
      BY <1>2, <1>6, <2>1 DEF Announced
  <1> QED
    BY <1>2, <1>6, SilentTold

LEMMA NextTold ==
    ASSUME IInv, Told, [Next]_vars
    PROVE  Told'
  <1>1. ASSUME NEW n \in Nodes, NEW s \in Scopes, NEW kind \in Kinds,
               NEW d \in AllDelays, Failure(n, s, kind, d)
        PROVE  Told'
    BY <1>1, FailureTold
  <1>2. ASSUME NEW n \in Nodes, NEW x \in held[n], Publish(n, x)
        PROVE  Told'
    BY <1>2, PublishTold
  <1>3. ASSUME NEW n \in Nodes, Send(n)
        PROVE  Told'
    BY <1>3, SendTold
  <1>4. CASE UNCHANGED <<held, noticed, published, outbound, sent, lost>>
             /\ now' \in {now, now + 1}
    BY <1>4, SameRelayTold
  <1>5. ASSUME NEW n \in Nodes,
               \/ \E s \in Scopes : Success(n, s)
               \/ Probes(n)
               \/ Clear(n) \/ \E e \in sent : Receive(n, e)
               \/ Apply(n) \/ Close(n)
        PROVE  UNCHANGED <<held, noticed, published, outbound, sent, lost>>
                 /\ now' = now
    BY <1>5 DEF Success, Probes, ProbeAnswer, Clear, Receive, Apply, Close, relay, manager
  <1>6. Tick \/ UNCHANGED vars =>
            UNCHANGED <<held, noticed, published, outbound, sent, lost>>
              /\ now' \in {now, now + 1}
    BY DEF Tick, vars, relay
  <1> QED
    BY <1>1, <1>2, <1>3, <1>4, <1>5, <1>6 DEF Next, AllDelays, Probes

LEMMA ToldAnnounces ==
    ASSUME IInv, Told
    PROVE  AnnouncedWithinSlack
  <1> SUFFICES ASSUME NEW n \in Nodes, NEW s \in Scopes, noticed[n][s] > now
               PROVE  \E x \in held[n] \cup {outbound[n][i] : i \in 1..Len(outbound[n])}
                             \cup {e.exact : e \in {f \in sent : f.origin = n}}
                             \cup {l[2] : l \in {k \in lost : k[1] = n}} :
                        x.scope = s /\ x.until + Slack >= noticed[n][s]
    BY DEF AnnouncedWithinSlack
  <1>1. PICK x \in Notices :
            /\ x.scope = s
            /\ \/ x \in held[n] /\ x.until >= noticed[n][s]
               \/ Announced(n, x) /\ x.until + Slack >= noticed[n][s]
    BY DEF Told, NoticedIsCarried
  <1>2. x.until \in Nat /\ noticed[n][s] \in Nat /\ Slack \in Nat
    BY RelayAssumption DEF Notices, IInv, TypeOK
  <1>3. x.until + Slack >= noticed[n][s]
    BY <1>1, <1>2
  <1>4. <<n, x>> \in lost => x \in {l[2] : l \in {k \in lost : k[1] = n}}
    <2>1. <<n, x>>[1] = n /\ <<n, x>>[2] = x
      OBVIOUS
    <2> QED
      BY <2>1
  <1>5. \/ x \in held[n] \/ x \in {outbound[n][i] : i \in 1..Len(outbound[n])}
        \/ x \in {e.exact : e \in {f \in sent : f.origin = n}}
        \/ x \in {l[2] : l \in {k \in lost : k[1] = n}}
    BY <1>1, <1>4 DEF Announced
  <1> QED
    BY <1>1, <1>3, <1>5

(* A deadline a process made a notice of, while it is ahead, is announced   *)
(* to within the slack (cooldownRelay.claim), whatever was announced        *)
(* before, after or concurrently, and whether the queue had room or not:    *)
(* only what was dropped on the way is missing.                             *)
THEOREM AnnouncedToWithinSlack ==
    Spec => []AnnouncedWithinSlack
  <1>1. IInv /\ Told => AnnouncedWithinSlack
    BY ToldAnnounces
  <1>2. Init => IInv /\ Told
    BY InitIInv, InitTold
  <1>3. IInv /\ Told /\ [Next]_vars => IInv' /\ Told'
    BY NextIInv, NextTold
  <1> QED
    BY <1>1, <1>2, <1>3, PTL DEF Spec
=============================================================================
