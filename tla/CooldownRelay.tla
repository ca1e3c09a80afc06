---------------------------- MODULE CooldownRelay ----------------------------
(* Cooldowns of one upstream account in a cluster.  Every process keeps, in *)
(* its auth manager, what its own requests (sdk/cliproxy/auth:              *)
(* conductor_cooldown_service.go, conductor_failure_state.go,               *)
(* conductor_result_state.go), its quota probes and its operators           *)
(* (quota_reconcile.go) say of the account and of each of its models, and   *)
(* reports the cooldowns its failures set or extend to the other processes  *)
(* (conductor_cooldown_cluster.go), through a relay with a queue in each    *)
(* direction (internal/cluster/clusterruntime/cooldown.go).                 *)
(*                                                                          *)
(* Time is a number of equal parts of a millisecond, the same on every      *)
(* process, from a whole second on; 0 is Go's zero time.  The account is none  *)
(* of those with rules of their own (Antigravity's quota families, Claude   *)
(* OAuth's windows, xAI's weekly balance), and neither it nor a model is    *)
(* disabled.                                                                *)
EXTENDS Integers, Sequences, FiniteSets, FiniteSetsExt

CONSTANTS
    Nodes,          \* the processes
    Models,         \* the models of the account
    Account,        \* the scope of an account-wide result: the empty model
    Uncooled,       \* processes on which cooling is disabled for the account
    QuotaDelays,    \* cooldowns of an exhausted quota (Retry-After or backoff)
    SuspendDelays,  \* cooldowns of a 401, 402, 403 or 404
    BackoffDelays,  \* cooldowns of a throttling 429 and of a 5xx
    Cap,            \* maxPeerCooldown
    Slack,          \* cooldownRepublishSlack
    Parts,          \* parts of a millisecond
    Millis,         \* milliseconds of a second
    QueueSize,      \* cooldownQueueSize
    MaxTime,        \* bound on the clock
    MaxInputs       \* bound on results, probe answers and operator resets

ASSUME RelayAssumption ==
    /\ Account \notin Models
    /\ Models # {}
    /\ IsFiniteSet(Nodes)
    /\ Uncooled \subseteq Nodes
    /\ QuotaDelays \cup SuspendDelays \cup BackoffDelays \subseteq Nat \ {0}
    /\ Cap \in Nat \ {0} /\ Slack \in Nat
    /\ Parts \in Nat \ {0} /\ Millis \in Nat \ {0}
    /\ QueueSize \in Nat \ {0} /\ MaxTime \in Nat /\ MaxInputs \in Nat

VARIABLES
    now,        \* the clock
    state,      \* per process and scope: the ModelState, or the Auth itself
    held,       \* notices made under the manager's lock, not yet published
    published,  \* cooldownRelay.published: the deadline last announced
    outbound,   \* the relay's queue to the bus
    inbound,    \* the relay's queue from the bus
    open,       \* the relay has not been closed
    sent,       \* events the bus accepted: any may arrive late, twice or never
    inputs,     \* results, probe answers and resets so far
    own,        \* history: latest deadline the process's own evidence gave
    noticed,    \* history: latest deadline the process made a notice of
    lost        \* history: notices dropped by a full queue, a failed publish
                \* or the end of the relay

vars == <<now, state, held, published, outbound, inbound, open, sent, inputs,
          own, noticed, lost>>
manager == <<now, state, held, inputs, own, noticed>>
relay == <<published, outbound, inbound, open, sent, lost>>

Scopes == Models \cup {Account}
Kinds == {"quota", "suspend", "throttle", "overload", "incomplete", "other"}

(* What a scope's state says: whether it has an entry at all, is             *)
(* unavailable and until when, and has exhausted its quota and until when.  *)
Fresh == [known |-> FALSE, down |-> FALSE, retry |-> 0,
          quota |-> FALSE, recover |-> 0]

(* A notice is soft when it is a rate limit or a server error: that is what *)
(* a process with cooling disabled ignores.                                 *)
Notice(s, until, quota, kind) ==
    [scope |-> s, until |-> until, quota |-> quota,
     soft |-> kind \in {"quota", "throttle", "overload"}]

Init ==
    /\ now = 0
    /\ state = [n \in Nodes |-> [s \in Scopes |-> Fresh]]
    /\ held = [n \in Nodes |-> {}]
    /\ published = [n \in Nodes |-> [s \in Scopes |-> 0]]
    /\ outbound = [n \in Nodes |-> << >>]
    /\ inbound = [n \in Nodes |-> << >>]
    /\ open = [n \in Nodes |-> TRUE]
    /\ sent = {}
    /\ inputs = 0
    /\ own = [n \in Nodes |-> [s \in Scopes |-> 0]]
    /\ noticed = [n \in Nodes |-> [s \in Scopes |-> 0]]
    /\ lost = {}

-----------------------------------------------------------------------------
(* Deadlines.                                                               *)

(* Go's time.Time{} when there is no delay.                                  *)
After(d) == IF d = 0 THEN 0 ELSE now + d

CooldownDeadline(r) ==
    LET until == Max({IF r.down THEN r.retry ELSE 0,
                      IF r.quota THEN r.recover ELSE 0})
    IN  IF until > now THEN until ELSE 0

ActiveQuotaCooldown(r) ==
    r.quota /\ IF r.recover # 0 THEN r.recover > now ELSE r.retry > now

Earliest(times) == IF times \ {0} = {} THEN 0 ELSE Min(times \ {0})

Lapsed(r) == r.known /\ r.down /\ r.retry # 0 /\ r.retry <= now

(* The account is as unavailable as its models: down when all of them are,   *)
(* until the first comes back; out of quota when one of them is, until the  *)
(* first recovers.  Models whose time has come are available again.         *)
UpdateAggregatedAvailability(auth) ==
    LET known == {m \in Models : auth[m].known}
        IsDown(m) == auth[m].down /\ auth[m].retry > now
        all == \A m \in known : IsDown(m)
        spent == {m \in known : auth[m].quota}
        swept == [s \in Scopes |->
                    IF s # Account /\ Lapsed(auth[s])
                    THEN [auth[s] EXCEPT !.down = FALSE, !.retry = 0]
                    ELSE auth[s]]
    IN  IF known = {} THEN auth
        ELSE [swept EXCEPT ![Account] =
                [@ EXCEPT !.down = all,
                          !.retry = IF all THEN Earliest({auth[m].retry : m \in known})
                                    ELSE 0,
                          !.quota = spent # {},
                          !.recover = Earliest({auth[m].recover : m \in spent})]]

-----------------------------------------------------------------------------
(* Results of requests.                                                     *)

(* How long a failure of a kind cools: with cooling disabled only a quota    *)
(* with a Retry-After and a suspension do.                                  *)
Delays(n, kind) ==
    CASE kind = "quota" -> IF n \in Uncooled THEN QuotaDelays \cup {0} ELSE QuotaDelays
      [] kind = "suspend" -> SuspendDelays
      [] kind \in {"throttle", "overload"} -> IF n \in Uncooled THEN {0} ELSE BackoffDelays
      [] OTHER -> {0}

(* applyModelFailureLocked: the new deadline replaces the old one; only a    *)
(* quota failure and a throttling 429 touch the quota.                      *)
ModelFailure(r, kind, d) ==
    CASE kind = "quota" ->
            [known |-> TRUE, down |-> TRUE, retry |-> After(d),
             quota |-> TRUE, recover |-> After(d)]
      [] kind = "throttle" ->
            [known |-> TRUE, down |-> TRUE, retry |-> After(d),
             quota |-> FALSE, recover |-> 0]
      [] kind = "incomplete" ->
            [r EXCEPT !.known = TRUE, !.down = FALSE, !.retry = 0]
      [] OTHER ->
            [r EXCEPT !.known = TRUE, !.down = TRUE, !.retry = After(d)]

(* applyAuthFailureState: every 429 is a quota failure, and an unknown       *)
(* status leaves the deadline alone.                                        *)
AccountFailure(r, kind, d) ==
    CASE kind \in {"quota", "throttle"} ->
            [r EXCEPT !.down = TRUE, !.retry = After(d),
                      !.quota = TRUE, !.recover = After(d)]
      [] kind \in {"suspend", "overload"} ->
            [r EXCEPT !.down = TRUE, !.retry = After(d)]
      [] OTHER -> [r EXCEPT !.down = TRUE]

ApplyFailure(auth, s, kind, d) ==
    IF s = Account
    THEN [auth EXCEPT ![s] = AccountFailure(@, kind, d)]
    ELSE UpdateAggregatedAvailability([auth EXCEPT ![s] = ModelFailure(@, kind, d)])

(* applySuccessLocked: a success ends every cooldown of its scope but a      *)
(* quota's that is in force.                                                *)
ApplySuccess(auth, s) ==
    LET ready == IF s = Account THEN auth ELSE [auth EXCEPT ![s].known = TRUE]
        reset == [auth EXCEPT ![s] = [Fresh EXCEPT !.known = s # Account]]
    IN  IF ActiveQuotaCooldown(auth[s]) THEN UpdateAggregatedAvailability(ready)
        ELSE IF s = Account THEN reset
        ELSE UpdateAggregatedAvailability(reset)

Input ==
    /\ inputs < MaxInputs
    /\ inputs' = inputs + 1

Largest(f, n, s, t) == [f EXCEPT ![n][s] = Max({@, t})]

(* markResult of a failure: under the lock the deadline before and after     *)
(* are compared, and a later one makes a notice.                            *)
Failure(n, s, kind, d) ==
    /\ Input
    /\ d \in Delays(n, kind)
    /\ LET before == CooldownDeadline(state[n][s])
           auth == ApplyFailure(state[n], s, kind, d)
           until == CooldownDeadline(auth[s])
           news == open[n] /\ until > before
       IN  /\ state' = [state EXCEPT ![n] = auth]
           /\ own' = Largest(own, n, s, After(d))
           /\ held' = IF news
                      THEN [held EXCEPT ![n] = @ \cup {Notice(s, until, auth[s].quota, kind)}]
                      ELSE held
           /\ noticed' = IF news THEN Largest(noticed, n, s, until) ELSE noticed
    /\ UNCHANGED <<now, relay>>

Success(n, s) ==
    /\ Input
    /\ state' = [state EXCEPT ![n] = ApplySuccess(@, s)]
    /\ UNCHANGED <<now, held, own, noticed, relay>>

(* A probe is about the models that have exhausted their quota, or else      *)
(* about the account.                                                       *)
ProbeTargets(auth) ==
    LET spent == {m \in Models : auth[m].known /\ auth[m].quota}
    IN  IF spent # {} THEN spent
        ELSE IF auth[Account].quota THEN {Account} ELSE {}

(* The answer of a quota probe, also one an operator forced: some of them    *)
(* have recovered (no delay), some get the time of their reset, and those   *)
(* not heard of stay as they are.  Nothing is reported to the other         *)
(* processes.                                                               *)
ProbeAnswer(n, heard, delay) ==
    LET auth == state[n]
        targets == ProbeTargets(auth)
        answered == [s \in Scopes |->
                        IF s \notin heard THEN auth[s]
                        ELSE IF delay[s] = 0 THEN [Fresh EXCEPT !.known = s # Account]
                        ELSE [auth[s] EXCEPT !.down = TRUE, !.retry = now + delay[s],
                                             !.recover = now + delay[s]]]
    IN  /\ Input
        /\ targets # {} /\ heard \subseteq targets
        /\ state' = [state EXCEPT ![n] =
                        IF targets \subseteq Models THEN UpdateAggregatedAvailability(answered)
                        ELSE answered]
        /\ own' = [own EXCEPT ![n] = [s \in Scopes |->
                        IF s \in heard THEN Max({own[n][s], After(delay[s])}) ELSE own[n][s]]]
        /\ UNCHANGED <<now, held, noticed, relay>>

(* ClearQuotaStatus, the operator's reset.                                   *)
Clear(n) ==
    /\ Input
    /\ state' = [state EXCEPT ![n] =
                    [s \in Scopes |-> [Fresh EXCEPT !.known = state[n][s].known]]]
    /\ UNCHANGED <<now, held, own, noticed, relay>>

-----------------------------------------------------------------------------
(* The relay.                                                               *)

(* Plausible bug: whatever was announced and is still ahead is enough.       *)
Bug_Claimed(n, notice) == published[n][notice.scope] <= now

(* claim: whether a notice moves the announced deadline by more than the     *)
(* slack.  A deadline that has passed no longer counts (and may be pruned). *)
Claimed(n, notice) ==
    ~ /\ published[n][notice.scope] > now
      /\ notice.until <= published[n][notice.scope] + Slack

(* Plausible bug: the queue is not bounded.                                  *)
Bug_Publish(n, notice) ==
    /\ open[n]
    /\ notice \in held[n]
    /\ held' = [held EXCEPT ![n] = @ \ {notice}]
    /\ published' = [published EXCEPT ![n][notice.scope] = notice.until]
    /\ outbound' = [outbound EXCEPT ![n] = Append(@, notice)]
    /\ UNCHANGED <<now, state, inbound, open, sent, inputs, own, noticed, lost>>

(* publish, after the lock: a notice that finds the queue full is dropped,   *)
(* although claimed.                                                        *)
Publish(n, notice) ==
    /\ open[n]
    /\ notice \in held[n]
    /\ held' = [held EXCEPT ![n] = @ \ {notice}]
    /\ IF ~Claimed(n, notice) THEN UNCHANGED <<published, outbound, lost>>
       ELSE /\ published' = [published EXCEPT ![n][notice.scope] = notice.until]
            /\ \/ /\ Len(outbound[n]) < QueueSize
                  /\ outbound' = [outbound EXCEPT ![n] = Append(@, notice)]
                  /\ UNCHANGED lost
               \/ /\ Len(outbound[n]) = QueueSize
                  /\ lost' = lost \cup {<<n, notice>>}
                  /\ UNCHANGED outbound
    /\ UNCHANGED <<now, state, inbound, open, sent, inputs, own, noticed>>

Second == Millis * Parts

(* What is below the millisecond is cut off.                                 *)
UnixMilli(t) == t \div Parts

(* Plausible bug: Unix() truncates.                                          *)
Bug_RoundUp(t) == (UnixMilli(t) \div Millis) * Second

(* Whole milliseconds are rounded up to the second.                          *)
RoundUp(t) == ((UnixMilli(t) + Millis - 1) \div Millis) * Second

(* The event carries whole seconds; "exact" is the notice it was made from. *)
Event(n, notice) == [origin |-> n, exact |-> notice,
                     notice |-> [notice EXCEPT !.until = RoundUp(@)]]

Send(n) ==
    /\ open[n]
    /\ outbound[n] # << >>
    /\ outbound' = [outbound EXCEPT ![n] = Tail(@)]
    /\ \/ /\ sent' = sent \cup {Event(n, Head(outbound[n]))}
          /\ UNCHANGED lost
       \/ /\ lost' = lost \cup {<<n, Head(outbound[n])>>}
          /\ UNCHANGED sent
    /\ UNCHANGED <<manager, published, inbound, open>>

(* The bus delivers an event to a subscriber other than its origin.  One     *)
(* that finds the queue full is dropped, which is not to arrive.            *)
Receive(n, e) ==
    /\ open[n]
    /\ e \in sent
    /\ e.origin # n
    /\ Len(inbound[n]) < QueueSize
    /\ inbound' = [inbound EXCEPT ![n] = Append(@, e)]
    /\ UNCHANGED <<manager, published, outbound, open, sent, lost>>

(* Plausible bug: a peer's deadline is taken as it is.                       *)
Bug_Capped(notice) == notice.until

Capped(notice) == Min({notice.until, now + Cap})

PeerCooldownSuppressed(n, notice) == n \in Uncooled /\ (notice.quota \/ notice.soft)

(* extendModelCooldownLocked and extendAuthCooldownLocked.                   *)
Extend(r, notice, until) ==
    [known |-> r.known \/ notice.scope # Account,
     down |-> TRUE, retry |-> until,
     quota |-> r.quota \/ notice.quota,
     recover |-> IF notice.quota THEN Max({r.recover, until}) ELSE r.recover]

(* Plausible bug: the notice replaces the deadline in force.                 *)
Bug_ApplyPeerCooldown(n, notice) ==
    LET extended == [state[n] EXCEPT ![notice.scope] =
                        [@ EXCEPT !.known = notice.scope # Account, !.down = TRUE,
                                  !.retry = Capped(notice), !.quota = notice.quota,
                                  !.recover = IF notice.quota THEN Capped(notice) ELSE 0]]
    IN  IF Capped(notice) <= now \/ PeerCooldownSuppressed(n, notice) THEN state[n]
        ELSE IF notice.scope = Account THEN extended
        ELSE UpdateAggregatedAvailability(extended)

ApplyPeerCooldown(n, notice) ==
    LET s == notice.scope
        until == Capped(notice)
        extended == [state[n] EXCEPT ![s] = Extend(@, notice, until)]
    IN  IF \/ until <= now
           \/ PeerCooldownSuppressed(n, notice)
           \/ until <= CooldownDeadline(state[n][s])
        THEN state[n]
        ELSE IF s = Account THEN extended
        ELSE UpdateAggregatedAvailability(extended)

Apply(n) ==
    /\ open[n]
    /\ inbound[n] # << >>
    /\ inbound' = [inbound EXCEPT ![n] = Tail(@)]
    /\ state' = [state EXCEPT ![n] = ApplyPeerCooldown(n, Head(inbound[n]).notice)]
    /\ UNCHANGED <<now, held, published, outbound, open, sent, inputs, own, noticed, lost>>

(* close: the workers stop, what is queued stays where it is, and the        *)
(* manager publishes no more.                                               *)
Close(n) ==
    /\ open[n]
    /\ open' = [open EXCEPT ![n] = FALSE]
    /\ UNCHANGED <<manager, published, outbound, inbound, sent, lost>>

Tick ==
    /\ now < MaxTime
    /\ now' = now + 1
    /\ UNCHANGED <<state, held, inputs, own, noticed, relay>>

Next ==
    \/ \E n \in Nodes, s \in Scopes :
        \/ \E kind \in Kinds, d \in {0} \cup QuotaDelays \cup SuspendDelays \cup BackoffDelays :
               Failure(n, s, kind, d)
        \/ Success(n, s)
    \/ \E n \in Nodes :
        \/ \E heard \in SUBSET ProbeTargets(state[n]) :
               \E delay \in [heard -> {0} \cup QuotaDelays] : ProbeAnswer(n, heard, delay)
        \/ Clear(n)
        \/ \E notice \in held[n] : Publish(n, notice)
        \/ Send(n)
        \/ \E e \in sent : Receive(n, e)
        \/ Apply(n)
        \/ Close(n)
    \/ Tick

Spec == Init /\ [][Next]_vars

-----------------------------------------------------------------------------
(* Properties.                                                              *)

Records == [known : BOOLEAN, down : BOOLEAN, retry : Nat,
            quota : BOOLEAN, recover : Nat]
Notices == [scope : Scopes, until : Nat, quota : BOOLEAN, soft : BOOLEAN]
Events == [origin : Nodes, exact : Notices, notice : Notices]

TypeOK ==
    /\ now \in Nat
    /\ state \in [Nodes -> [Scopes -> Records]]
    /\ held \in [Nodes -> SUBSET Notices]
    /\ published \in [Nodes -> [Scopes -> Nat]]
    /\ outbound \in [Nodes -> Seq(Notices)]
    /\ inbound \in [Nodes -> Seq(Events)]
    /\ \A n \in Nodes : Len(outbound[n]) <= QueueSize /\ Len(inbound[n]) <= QueueSize
    /\ open \in [Nodes -> BOOLEAN]
    /\ sent \subseteq Events
    /\ inputs \in Nat
    /\ own \in [Nodes -> [Scopes -> Nat]]
    /\ noticed \in [Nodes -> [Scopes -> Nat]]
    /\ lost \subseteq Nodes \X Notices

(* A model is cooling on a process only as long as the process's own         *)
(* evidence says, or as long as the failure of some other process says and  *)
(* at most the cap from now (ApplyPeerCooldown): notices that go round the  *)
(* cluster keep no cooldown alive.                                          *)
CooldownHasCause ==
    \A n \in Nodes, m \in Models :
        LET reported == RoundUp(Max({own[k][m] : k \in Nodes}))
        IN  CooldownDeadline(state[n][m])
                <= Max({own[n][m], Min({reported, now + Cap})})

(* A deadline that a process made a notice of, while it is ahead, is         *)
(* announced to within the slack: by a notice about to be published, or by  *)
(* one that is queued, was handed to the bus, or was lost on the way -- never *)
(* merely because a shorter one was announced after it (claim).             *)
AnnouncedWithinSlack ==
    \A n \in Nodes, s \in Scopes :
        noticed[n][s] > now =>
            \E x \in held[n] \cup {outbound[n][i] : i \in 1..Len(outbound[n])}
                     \cup {e.exact : e \in {f \in sent : f.origin = n}}
                     \cup {l[2] : l \in {k \in lost : k[1] = n}} :
                x.scope = s /\ x.until + Slack >= noticed[n][s]

(* A notice from a peer, however late and in whatever order, ends no model's *)
(* cooldown earlier than it would have ended (ApplyPeerCooldown "only ever  *)
(* extends").                                                               *)
PeersOnlyExtend ==
    [][\A n \in Nodes : inbound[n] # << >> /\ inbound'[n] = Tail(inbound[n]) =>
            \A m \in Models :
                CooldownDeadline(state[n][m]) <= CooldownDeadline(state[n][m])']_vars

(* A process that applies a notice cools at least as long as the reporter,   *)
(* to the millisecond, unless the cap is shorter or cooling is disabled     *)
(* (send rounds up, ApplyPeerCooldown caps).  Below the millisecond it does *)
(* not hold: a deadline less than one past a whole second is rounded down.  *)
NoShorterThanReported ==
    [][\A n \in Nodes : inbound[n] # << >> /\ inbound'[n] = Tail(inbound[n]) =>
            LET exact == Head(inbound[n]).exact
                told == [exact EXCEPT !.until = UnixMilli(@) * Parts]
            IN  \/ told.until <= now
                \/ PeerCooldownSuppressed(n, told)
                \/ CooldownDeadline(state'[n][told.scope]) >= Capped(told)]_vars
=============================================================================
