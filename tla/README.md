# CliRelay: models, model checking and proofs

CliRelay is a relay between coding clients and AI providers. It holds a pool of
provider accounts ("credentials"), picks one for every request, forwards the
request, fails over to another account when the upstream refuses, and keeps the
accounts' OAuth tokens fresh. Several processes can form a cluster over
PostgreSQL and Redis: they then share credentials, concurrency limits, cooldowns
and configuration.

This directory models the parts whose correctness depends on interleavings,
failures and time: the per-account concurrency limiter, its extension to a
cluster, the leases behind it, the life of a shared credential whose refresh
token can be used once, the cooldowns processes tell each other of, the
synchronisation of configuration, and the WebSocket relay. TLC checks the models
on small instances; the TLA+ proof system proves their safety invariants, and that the
limiter implements an abstract pool of slots, for every instance.

| module | models | checked by | proved in |
|---|---|---|---|
| `SlotService` | what the limiter promises: an abstract pool of slots | refined by `AccountSlots` | `AccountSlots_proofs` |
| `AccountSlots` | slot limiter and candidate loop of one process | `MCAccountSlots` | `AccountSlots_proofs` |
| `ClusterSlots` | the limiter of several processes over Redis | `MCClusterSlots` | `ClusterSlots_proofs` |
| `LeaseKeeper` | leases of one process in Redis, and their keeper | `MCLeaseKeeper` | `LeaseKeeper_proofs` |
| `CredentialRefresh` | a credential, its refreshes and its edits in a cluster | `MCCredentialRefresh` | `CredentialRefresh_proofs` |
| `ConfigSync` | saves of settings, the notification bus and the reload dispatcher | `MCConfigSync` | `ConfigSync_proofs` |
| `WsRelay` | WebSocket sessions, relayed calls and their channels | `MCWsRelay` | `WsRelay_proofs` |
| `CooldownRelay` | cooldowns of an account on several processes, and the relay between them | `MCCooldownRelay` | `CooldownRelay_proofs` |
| `Lemmas` | nothing: facts about numbers and sequences that several proofs use | | itself |

`PROJECT.json` maps every definition to the source lines it stands for, and
lists the runs, the mutants that show each property can fail, the hazards, the
findings and the theorems.

## 1. Inventory

### The parts, their state and how they meet

**Credential manager** (`sdk/cliproxy/auth/conductor*.go`). `Manager.auths` is the
map of credentials under one lock. `Update` installs a copy, unlocks, saves it
through the `Store`, and puts back what it replaced if that fails. Selection,
execution, refresh, management calls and the file watcher all go through it.

**Execution service** (`conductor_execution_service.go`). For each request it asks
the selector for candidates one at a time, obtains a slot on the account, calls
the executor, and on a failure marks the result and takes the next candidate.
Accounts that are full are put aside; when nothing else is left the request
queues on all of them at once.

**Account concurrency limiter** (`account_concurrency.go`, `_queue.go`). In-flight
counts and FIFO queues per account under one lock. A release hands its slot to the
longest-waiting caller; a waiter sits in several queues and is won by one
compare-and-swap. Time-outs and cancellations race with grants.

**Cluster-wide concurrency** (`account_concurrency_cluster.go`,
`sharedstate/account_slots.go`). A local reservation followed by an unlocked claim
of a lease in a Redis sorted set; while Redis is unreachable a slot is counted
against the process's share of the limit; queued requests poll.

**Lease keeper** (`sharedstate/leases.go`). One goroutine renews the process's leases
every third of the TTL, removes released ones in batches, retries failed removals
until the lease must have expired, and drains on shutdown.

**Shared Redis client** (`sharedredis/client.go`). Marks Redis down after a failure
and probes until it answers.

**Credential store of a cluster** (`internal/store/clusterauth`). One versioned row
per credential in PostgreSQL, written by compare-and-set; each process keeps a view
(`known`) and mirrors it to a file the watcher reloads. A lease in the row keeps two
processes from refreshing at once.

**Token refresh** (`conductor_refresh_*.go`, `internal/management/apitools`). A loop and
the management API present a refresh token to the provider, which invalidates it and
issues the next; the new one must reach the row, also against conflicting writes.

**Cooldowns and quota state** (`conductor_cooldown_service.go`, `conductor_failure_state.go`,
`conductor_result_state.go`, `quota_reconcile.go`). Per credential and model: unavailable until,
quota exhausted until. Results, quota probes and an operator's reset change them under the
manager's lock; the account's own state is an aggregate of its models'.

**Cooldown relay** (`conductor_cooldown_cluster.go`, `clusterruntime/cooldown.go`). A failure that
moves a deadline makes a notice, published after the lock through a bounded queue, announced
over the bus in whole seconds, and applied by the peers through another bounded queue.

**Configuration synchronisation** (`internal/configsync`, `api/server_config_sync.go`,
`handlers/management/config_versioning.go`). A save is a compare-and-swap on the version of a
unit, with the event in the same transaction. On every other node a dispatcher coalesces events,
takes a snapshot of all versions and reloads the units announced; after a reconnect it reloads what
differs from what it last recorded as applied. A node serves the system tenant's settings from its live config, and every
tenant's from a set of snapshots in the auth manager that is replaced as a whole, without a lock; a save of a system
setting makes its node install every tenant's configuration again.

**WebSocket relay** (`internal/wsrelay`). A table of sessions by provider; per session a read loop,
a heart beat and a map of pending requests, each with a channel of eight messages, a goroutine that
waits for the caller's context, and the caller.

**Cluster services** (`internal/cluster`). LISTEN/NOTIFY bus with resynchronisation,
leader election by advisory lock, membership by heart beat.

**Others**: selection, shared quota, throttle and session affinity, model registry, watcher, OAuth
logins, usage statistics, translators, executors, HTTP server, single-node stores, admission and
moderation, access control, deployment and tools. `PROJECT.json` has one entry for each, with the
reason when it is not modelled.

### What is hard

* A grant races with the waiter's time-out, on several queues at once.
* Reservation and cluster-wide claim are separate steps; Redis may fail, answer late, or
  lose the answer between them; processes crash with leases.
* A removal of a lease races with a renewal that is in flight.
* A refresh token can be used once, and is lost if the provider's answer is, or if the step after it
  fails; edits and refreshes write the same row from copies of different ages.
* Limits are changed by an operator while requests run and wait.
* Notifications are lost with the listener's session, and the dispatcher's record of what it applied
  decides what a resync repairs.
* A saved setting is made live by the handler, by its hook and by the dispatcher, in any order, each replacing a set of
  snapshots it copied earlier; a failed read of the stored values is swallowed.
* Four goroutines touch the channel of a relayed call; one that is closed too early panics its sender.
* Cooldown notices are dropped, delayed, repeated and reordered.

### What makes the parts correct

* Limiter: no slot leaks or is given out twice; the limit holds; nobody waits without a
  release to come; first come, first served; every request ends.
* Cluster limiter: the books of a process balance in every interleaving; outside outages
  the processes together respect the limit; an outage costs at most the shares.
* Lease keeper: an owned lease stays counted; a released, lost or orphaned one goes away.
* Credential: acknowledged edits survive; the newest token received reaches the database; no token
  whose successor arrived is presented by two processes; no view goes back to an older version.
* Configuration: acknowledged edits survive; a stale unit has a reload ahead; nodes converge.
* WebSocket relay: every caller is answered; a success is complete; a late close harms nobody else.
* Cooldowns: a peer's notice extends a model's cooldown and never shortens it (the account's own deadline is computed from
  its models again and may come forward, `conductor_result_state.go:79`); no cooldown outlives its cause; a deadline is
  announced to within the slack.

## 2. The modules and the code

### AccountSlots

One element of `Requests` is a request goroutine, one of `Accounts` an account.

| state | code |
|---|---|
| `limit` | `ConcurrencyLimit()` of the credential in `Manager.auths` |
| `active`, `waiters` | the limiter's maps of the same names |
| `claimed`, `slot` | `slotWaiter.claimed`; the slot owned, or the content of `slotWaiter.granted` |
| `pc`, `untried`, `picked`, `saturated` | the request's place in `nextReadyCandidate` and `Execute`, and its scope |

`Begin`, `Pick`, `PickFails`, `Moderate`, `AcquireSlot` are the candidate loop; `AcquireFree`,
`Enqueue`, `WaitRefused` are `acquireOrEnqueue` (one hold of the lock, as in the code);
`ReceiveGrant`, `GiveUpGranted`, `Abandon`, `Leave` are the ends of `AcquireSlotWait`; `Finish` and
`FailOver` release the slot through `ReleaseSlot`, which is `HandOver` or `FreeSlot`; `SetLimit` is
the operator. A candidate and a queue entry carry the limit they were picked with, because
the code carries a clone of the credential. An entry left behind by `giveUp` belongs to `Orphan`.
A step is one hold of the limiter's lock or one compare-and-swap. The selector is any choice
among the untried accounts that `FilterAvailableCandidates` leaves.

### ClusterSlots

One account, several processes. Per process: the limiter's maps (`active`, `clustered`,
`unshared`, `waiters`), the leases it owns (`pool`), how many of them Redis has dropped
(`lapsed`), those waiting for removal (`removing`), and its views of Redis (`avail`) and of the
membership (`peers`). `orphans` are members of the sorted set nobody owns.
`Reserve`, then `ClaimGranted` / `ClaimRefused` / `ClaimFails` / `ClaimNothing`, then `CommitClaim`,
`Unreserve` or `Fallback` are an attempt; `Enqueue`, `Poll`, `PollWins`, `PollLoses`, `ReleaseSurplus`,
`PollLeaves`, `TakeGrant`, `Abandon`, `Leave` the wait loop; `Finish` the release;
`RemoveLease`, `Lapse`, `Renew`, `ExpireReleased`, `Expire` what the keeper and time do to leases;
`Probe`, `SeePeers`, `Crash`, `SetLimit` the environment.

`Total(f)` adds up a count over the processes, as the size of the set of pairs of a process and a number up to its count,
so that proofs can use the theorems about cardinality. Leases are counted, not named, and a lease enters the pool in the step that takes it: what
happens between the push and the registration is `LeaseKeeper`. A request has one candidate,
so a granted waiter is in no other queue; several queues are `AccountSlots`.

### LeaseKeeper

Named leases of one process for one account. `left` is the lifetime in Redis in ticks; `stage`
and `rel` say how far the acquisition (`AcquireLease`, `Push`, `Track`) and the release (`Pop`,
`Unhold`, `Send`) of a lease have come; `held`, `pending`, `queue`, `refs` are the keeper's own.
`TakeBatch` / `BatchRemoved`, `RenewBegin` / `Renewed`, `SweepBegin` / `Swept` and `Close` are the keeper
goroutine, each Redis round trip a step that may succeed, fail before, or fail after the command
ran. Time advances by the keeper's ticker, a third of the TTL. No goroutine step and no round trip
spans a tick (2 s against 30 s), and a command that timed out has run or never runs.

### CredentialRefresh

One credential, several processes. `row` is the row in PostgreSQL, `lease` its `refresh_owner`;
per process `known` (the store's view), `mirror` (the file changed), `reload` (what the watcher is about to
install) and `auths` (the copy in memory). Tasks are refreshes by the loop (`Background`), refreshes
by management calls (`Management`) and edits (`Editors`).

A refresh is `Start`, `Claim` (and `Adopt` when the row is newer), the call of the provider, the save, and `Release`. The
call has four outcomes: the provider issues the next token and its answer arrives (`Rotate`, which moves `received`); it issues
the token and the answer is lost or cannot be read (`AnswerLost`: an error like any other to the code, and the token is in nobody's
hands); it refuses a token that was spent (`RefusedToken`); it is not reached (`Unreached`). An edit is `Edit` and the save. A save is `Install` (first hold of
the lock in `Update`), `Classify` against the view, `CompareAndSwap`, then `RecordWrite`, or
`ResolveConflict` and `Undo`, and back to `Latest` while attempts are left (`UpdateRefreshed` after
conflicts and errors, `MutateAuth` after conflicts). `KeepLocal` is the loop's last resort. Every
database call may fail, before or after it took effect, and the client of a management call may hang up at any time (`HangUp`), which
ends its attempts. `Sync`, `ReadMirror` and `Reload` bring rows of
other processes into the view and into memory; `Age` and `Expire` are time; the
refreshes in `Slow` may outlast their lease, which `overran` remembers.

Abstractions: a document is a token number and a set of edits; the provider accepts the newest token
only; an access token outlives a save;
the view is updated in the step that reads the row; one deletion, no re-creation.
Left out: explicit creates, runtime observations that are written later, digests of past versions, the
repair after a fail-over, the crash of a process.

### SlotService

One variable, `owner`, and three steps: a request without a slot takes one below a configured limit,
gives its slot back, or passes it on to a request without one. `AccountSlots` implements it with
`owner <- slot`: a slot in the channel of a waiter that has not woken up yet is already its own.

### ConfigSync

`version` and `contents` are the row of a unit in the database; `link` and `inbox` a node's LISTEN session;
`pending`, `resync`, `wake`, `applied` the dispatcher's fields; `worker`, `current`, `todo`, `forced` its goroutine's
progress through `drainAndProcess` and `process`; `notes` the versions the node wrote itself; `live` the system tenant's settings in the
live config and `cache` the manager's set of snapshots; `save` an administrator's request. `Receive` is `deliver` and `Enqueue`; `TakeWake`,
`Drain`, `Snapshot`, `Plan`, `ReloadSystem`, `LoadTenant`, `InstallReload`, `ReloadFails`, `FinishBatch` are the worker; `Disconnect`, `Reconnect`,
`PeerJoins` the bus. A stored value is the set of edits in it, an event the unit it names.

Every installation, of the dispatcher or of a request, ends in `SetConfigForTenant`, which is two steps: `CopySet` loads the set of
snapshots, `StoreSet` (in `InstallReload` and `InstallSave`) stores the copy with one tenant's entry exchanged; `loaded` is what lies between.
So an installation can put back what another one replaced, of the same tenant or of another; `undone` remembers that.

A save is `BeginSave` (the stored value is read), or `BeginBlind` when that read fails and the code goes on with the live config or,
for a tenant, an empty one; then `Commit`, `CommitUnseen` (the answer is lost) or `SaveFails`; then `Adopt` and `InstallSave`. A
system unit's save goes on to the hook: `HookRead`, `HookApply`, an installation of the system's configuration, `SyncTenant` and an installation for
each tenant, `HookEnds` and a last installation. `misread` are the units stored from a copy whose read had failed.

What the properties excuse, the code does wrong. `EditsKept` leaves out the units in `misread`. `StaleIsDue` and `Converges` are about
undisturbed nodes: no connection, reload or answer was lost, and on a node that serves administrators no older copy was installed over
a newer one. On a node nobody saves on, that last clause is not an assumption but part of what is shown.

Not in the model: the reload of an edited `config.yaml`, the creation of a tenant, `EnsureStoredProviderIDs`, which may write rows
while it reads them, and the second `SetConfig` of a reload of provider lists (`server_config_sync.go:273`).

### WsRelay

A step is one operation on the map of pending requests, or one hold of the table's lock, with the channel operations up
to the next point where another goroutine matters. `Connect`, `Announce`, `Stop` are the manager; `StartCleanup` (from `Evict`,
`PingFails`, `ReadFails`), `Visit`, `FailPending`, `HandleSessionClosed`, `Notify` a cleanup; `Read` and `Dispatch` the read loop before and
after its look-up; `Send`, `Store`, `Load`, `Write`, `WriteFails` a request; `Cancel` and `WaiterEnds` its waiter; `Take`, `ChannelEnds`, `GiveUp` the
loops of `NonStream` and `Stream`. A send on a closed channel ends the behaviour in `crashed`. Stream start, chunk and HTTP response
differ in data only: an answer is parts and a last message. A provider's session is replaced when two connections have one name:
that takes a `ProviderFactory`, which users of `Manager` may set; the gateway of this repository sets none and names its connections at random. A
factory that returns an error ends the connection before it is registered, and is left out.

### CooldownRelay

`state` is per process and scope (a model, or the account) what a `ModelState` or the `Auth` says; `held` are notices between the
manager's unlock and `publish`; `published`, `outbound`, `inbound`, `open` are the relay's; `sent` are events the bus took, any of which may
arrive at any time, repeatedly or never. `Failure`, `Success`, `ProbeAnswer`, `Clear` are the inputs, `Publish`, `Send`, `Receive`, `Apply`, `Close` the
relay. `ProbeAnswer` answers for some of the spent models, each with a delay of
its own, and leaves the others alone. Time is counted in parts of a millisecond (`Parts`), a second has `Millis` milliseconds: a deadline travels in
whole seconds, after it was truncated to the millisecond (`RoundUp`). Back-off levels are a choice among delays. Not in the
model: the rules of Antigravity, Claude OAuth and xAI accounts (and with them `WindowExhausted` answers), disabled credentials, the model registry, clocks that differ.

## 3. Runs

| run | shows |
|---|---|
| `account_slots_live` | 3 requests, 2 accounts, limit 1, queues of 2: types, `NoOvertaking`, `EveryRequestEnds`, `ImplementsSlotService` |
| `account_slots_limits` | the same with limits switched between 1 and 2: `SlotAccounting`, `ConcurrencyBound`, `NoStrandedWaiter`, `OneTurnPerAccount` |
| `cluster_slots` | 2 + 1 requests on two processes, limit 2: all six properties, with lost answers and crashes |
| `cluster_slots_outage` | limits 0 and 1, outages longer than a TTL, a changing membership view: the books balance |
| `lease_keeper` | 2 leases, channel of 1, failures, shutdown, crash: three invariants and `ReleasedVanishes` |
| `lease_keeper_track` | violation: a lease released before it was tracked is renewed for ever |
| `credential_refresh` | a loop refresh, a management refresh, an edit, a deletion, any number of failures, lost answers and hang-ups: six properties |
| `credential_refresh_reentrant` | violation: the lease is shared within a process and given back by whoever ends first |
| `config_sync` | one dispatcher, a tenant unit saved elsewhere and on the node, a system unit saved on the node, one incident: `EditsKept`, `StaleIsDue`, `Converges` |
| `config_sync_lost` | violation: after a lost connection a node can serve a stale unit for ever |
| `ws_relay` | 2 connections of a provider, a call, channel of 1, 2 parts: five invariants on callers, table, panics and reports |
| `cooldown_relay` | 2 processes, 2 models, 2 inputs, queues of 1, a clock of 4 parts: three invariants and two action properties |

The three violations contradict a comment of the code; `findings` in `PROJECT.json` quotes it.
Each property of a passing run has a mutant of the code's logic that TLC finds with the same
configuration.

### Bounds

* Three requests are the fewest for a queue with an order while another request holds the slot, and two
  accounts the fewest for a waiter in two queues. Queue depth 2 fills a queue and leaves one caller out.
  Requests repeat without end, so every sequence of requests on that instance is covered.
* Limit 2 on two processes makes a share (1) smaller than the limit; `Limits = {0, 1}` switches the limit on
  and off. `MaxOrphans` bounds leases nobody owns, which can fill the account but not change what a process
  does beyond that. Without lapses the outage stays shorter than the TTL, which `ClusterLimit` needs.
* Two leases and a channel of one reach the full channel, a batch, and a renewal with a release in flight;
  `Ttl` is the code's 3 ticks.
* `MaxToken` 2: one rotation; what can go wrong with the second can with the first, a spent token can be
  presented as soon as one was rotated. `WriteAttempts` 2 instead of 4, so that a retry and running out of
  attempts both happen. Failures, lost answers and hang-ups are not bounded. One process deletes the credential. `Slow` is empty, to
  stay within minutes; the instances `Slow = {m2}` (9.8 million states) and
  `Slow = {b1, m2}` (16.6 million) were checked once, with no error, and the theorems hold for any `Slow`.
* `NoOvertaking` is checked with a fixed limit: a raised limit creates free slots which fresh requests take
  past queued callers; the code serves the queue on releases only.
* `RotationKept` is about tokens that were received, and is excused once a refresh ended without saving: it used up its
  attempts, or its client hung up. The token then exists in one memory at most, and the code has no further remedy. A lost answer of the
  provider needs no excuse there, because nobody has the token. `SpentByOneNode` is about tokens whose successor was
  received, and is excused too once a refresh outlasted its lease: after either the code does present a token twice (section 5).
* `MaxVersion` 2 for the tenant's unit, saved elsewhere and on the node: two writers conflict, an event can arrive during the reload of the one
  before, and the node's own saves (one of a system unit, whose hook installs the tenant again) race with the dispatcher's. A third
  administrator (2.3 million states) gave the same result. One incident at any moment; two multiply the states and meet the same dispatcher code twice. Units of an unknown
  domain (`Unknown`) lead to the full reload a blind resync makes; `Unknown = {x}` was checked with the same result.
* A channel of one and two parts fill the channel with a part or the last message still to come. Two connections of one
  provider are the fewest for a replacement; calls share nothing but the session.
* `MaxInputs` 2 gives an older and a newer deadline of a scope, or one on each process; `Cap` 3 lies between the delays, `Slack` is half a
  second, and `Parts` 2 with `Millis` 2 give a second deadlines below a millisecond, on one and between two. Three inputs
  (`MaxTime` 2, 13 million states) were checked too.
* Deadlock is checked except in `CredentialRefresh`, where after a deletion nothing is left to do, and in the three modules
  whose inputs are bounded (`ConfigSync`, `WsRelay`, `CooldownRelay`), which stop when the bounds are used up.

### Fairness

`AccountSlots`: a goroutine that can run does, and an upstream call ends (executors have time-outs). Giving up
is not assumed: waiters must be served because slots come back. `LeaseKeeper`: goroutines run and time passes;
nothing makes requests arrive or end, Redis come back, or the process stop. `ConfigSync`: the listener reads and
reconnects (its loop retries without end), the worker and the handlers of saves run on; nobody has to save, and no
incident has to happen. All are weak fairness of the steps of one goroutine. The other modules are checked for safety only.

## 4. Proofs

**`AccountSlots_proofs`**, for every finite set of requests, every set of accounts, limits and queue depth:
`TypeCorrect`, `SlotsAccounted`, `NobodyStranded`, `ConcurrencyBounded`, `OneTurn`, `FirstComeFirstServed`, `Refinement`. The
invariant is

    IInv == TypeOK /\ RequestState /\ QueueState /\ SlotAccounting /\ ReleaseAhead

`SlotAccounting` alone is not inductive: that a release may decrement needs the releasing request to own a
slot (`RequestState`), and that a hand-over changes one owner needs an unclaimed entry to belong to a request that
waits and owns nothing (`QueueState`). `ReleaseAhead` is `NoStrandedWaiter` in terms of the count, which is what
`Enqueue` tests; with `SlotAccounting` a positive count gives a holder. The step is proved action by action,
with lemmas on how the count of holders changes when one request takes or gives up a slot.
`ConcurrencyBounded` adds `CountBound`: a slot is taken below a configured limit, and a hand-over keeps the count.
`OneTurn` adds `ScopeState`: what a request has picked or put aside is no longer untried.
`FirstComeFirstServed` is `NoOvertaking` for any one limit that is not changed (`\A k, l \in Limits : k = l`; without that
it is false, see section 3). It adds `FullWhileQueued`: an account with an unserved caller has no room, because a caller
queues only where it found none and a release that lowers the count with somebody left in the queue does so only above the
limit. So a slot is never taken past the queue, and a hand-over skips claimed waiters only. `Refinement` maps every step to
one of `SlotService` or to a stutter; the mapping of `HandOver` needs `QueueState` again.

**`LeaseKeeper_proofs`**, for every finite set of leases, limit, TTL, channel capacity and batch size:
`TypeCorrect`, `KeeperForgetsNothing`, `OwnedLeasesCounted`. The invariant is

    IInv == TypeOK /\ StageState /\ PoolState /\ BatchState /\ LeaseState /\ NothingForgotten

The point is `Renewed` and the deadline of a removal: a lease released during its renewal may be scored anew after
it left `held`. `BatchState` says that its removal is then still queued, or pending with the whole TTL ahead;
`LeaseState` that a removal is never given up before the lease expires, and that an owned lease lives at least the TTL
less the missed ticks.

**`ConfigSync_proofs`**, for any nodes, units, administrators and numbers of saves and incidents: `TypeCorrect`,
`EditsSurvive` (`EditsKept`), `NoEventLost` (`StaleIsDue`). The base is

    IInv == TypeOK /\ SaveState /\ WorkState

(how far a save and the dispatcher's goroutine have come, and what they then hold). `EditsKept`, for clients that
send the version they read, needs `CopyState`: unless its read failed, the copy a save works on is the value of the version it expects.
`StaleIsDue` is not inductive, because copies of several ages are on their way when the next save commits. It needs three more invariants.
`Bounded`: nothing loaded, copied or served is newer than what is stored, so that a copy that only moves forward stays current once it is.
`DispatchersAlone`: on a node nobody saves on, the set the dispatcher copied is still the one in force when it stores it, and what it is
installing is at least what is served; hence no install there is ever undone. `UnitStates`, for a node where none was undone: a stale unit is
announced, queued, in a reload that has not read it or has read what is stored, or in the hands of the save that stored it; the live config
is at least what the installation in hand read; and a save being adopted stays in the live config and in the copy handed to the
manager.

**`CooldownRelay_proofs`**, for any finite set of processes, models, delays, cap, slack, parts of a millisecond, milliseconds of a second and queue size:
`TypeCorrect`, `NeverShortened` (`PeersOnlyExtend`), `NeverAppliedShorter` (`NoShorterThanReported`),
`NoSelfSustainedCooldown` (`CooldownHasCause`) and `AnnouncedToWithinSlack` (`AnnouncedWithinSlack`). The first three rest on

    IInv == TypeOK /\ Rounded

(what travels is the notice it was made from, rounded up), on the lemma that a sweep of lapsed models changes no
deadline (`AggregateKeepsDeadlines`), and on rounding up being at least the value truncated to the millisecond, and monotone
(`NoShorterThanReported` holds to the millisecond, not below: section 5). `CooldownHasCause` speaks of
deadlines in force; `Caused` strengthens it to every time in a model's state, in force or not (a flag set later would revive
it), and to notices: each one on its way is backed by evidence of the process that made it, since a deadline that moves
forward at a failure is the failure's own (`NewsIsOwn`). The bound only grows, because evidence accumulates and time advances.
`AnnouncedWithinSlack` needs `Told`: what `published` remembers for a scope was announced (or is counted as lost), and the latest
deadline noticed is within the slack of it or still held; `claim` passes over a notice only in the first case.

**`ClusterSlots_proofs`**, for every finite set of processes, requests and limits, and any queue depth and number of orphaned leases:
`TypeCorrect`, `SlotsAreAccounted` (`LocalAccounting`), `LeasesAreAccounted` (`LeaseAccounting`), `KindsAreAccounted`
(`KindAccounting`), `OutageCostsAShare` (`ShareBound`), `TheLimitIsClusterWide` (`ClusterLimit`). The invariant is

    IInv == TypeOK /\ QueuedAtHome /\ LeavingAbandoned /\ LapsedAreOwned /\ LocalAccounting /\ LeaseAccounting

No counter is checked before it is decremented: `TypeOK` follows from the books, and the books from the types. A
hand-over moves a slot to a waiter of the same process (`QueuedAtHome`), and a waiter that leaves must not be granted once
more (`LeavingAbandoned`). Each step is summarised by what it adds to the slots, the reservations and the claims of one
process, so that the arithmetic is done once. `KindAccounting` needs `LimitKnown`: a request that got past the candidate
loop carries a positive limit. `ShareBound` rests on `splitLimit` being monotone in the limit and antitone in the number of
processes, and on `Fallback` being the one step that raises `unshared`. `ClusterLimit` adds `LeasesWithinLimit`: what Redis
counts stays within the largest limit, because a claim is granted below a configured limit and, without lapses, nothing that
is running is dropped. The rest is counting: the running requests are partitioned by their processes, their slots are
`clustered` or `unshared`, and the clustered ones are leases.

**`CredentialRefresh_proofs`**, for any processes, refreshes, edits, attempts and rotations, with failures of the database
and a deletion: `TypeCorrect`, `VersionsAreUnique` (`OneDocumentPerVersion`), `ViewsNeverMoveBack` (`NeverBack`), `EditsAreKept`
(`EditsKept`), `RotationIsKept` (`RotationKept`), `TokensAreSpentByOneNode` (`SpentByOneNode`).
`OneDocumentPerVersion` compares views; its strengthening `OneRowPerVersion` is about every row anybody has seen or is about to
record, and says that none is newer than the database. `EditsKept` and `RotationKept` need the same of every copy held anywhere
(in a save, in memory, in a reload): a copy holds all edits acknowledged, and a token as new as the row's, up to the version it
is based on (`CopiesKeepEdits`, `CopiesKeepTokens`), so that a compare-and-set that succeeds loses nothing. `SpentByOneNode` adds that a
refresh past its claim has the lease and is the only one (`Holders`), and spends the newest token, which nobody has presented (`Spends`).
Both hold whatever answers are lost, whoever hangs up and however long refreshes take, as the properties state it.
`TokensAreSpentByOneNode` assumes one refresh of the credential per process: the lease does not tell two refreshes of a process apart,
which is what `credential_refresh_reentrant` shows.

**`WsRelay_proofs`**, for any sessions, calls, providers, channel capacity and number of parts: `TypeCorrect`,
`NobodyIsForgotten` (`NobodyForgotten`), `TheTableIsCurrent` (`TableIsCurrent`), `PanicsNeedARace` (`PanicNeedsRace`),
`CredentialsAreServed` (`NoOrphanCredential`), `SuccessesAreComplete` (`SuccessIsComplete`), all from one invariant `IInv` in three groups.
*References*: the entry in the map, the Range's copy, a dispatch and a waiter lead to the session the call was sent to
(`References`), and a channel is closed exactly when its entry leaves that session's map (`OpenIsPending`). So the session that may close or
send is unique, and who closes a channel under a dispatch is a cleanup or a waiter (`ClosedUnderDispatch`). *Table*: entries are
registered and of their provider; a session cleaned up as replaced has a successor whose handler waits for it (`Successors`, `Replacements`), so that
a credential always has a session that is about to announce itself, has yet to end, or ended early (`ConnectedHasReason`). *Answers*:
as long as nothing was dropped, the parts sent are with the caller, in the channel or in the dispatch (`Conserved`); an end stands last in a
closed channel (`EndIsLast`); and a channel that was closed without an ended context holds a last message (`ClosedByLast`). The
invariant was model-checked on two sessions with one call and on one session with two calls before it was proved.

**`Lemmas`** has what several of these proofs cite: the least element of a set of naturals, the greatest of a finite one,
and the entries of a sequence with one cut out or a prefix dropped.

The assumptions are the `ASSUME`s of the modules: sets are finite, numbers natural, markers distinct.

Model-checked only: liveness (`EveryRequestEnds`, `ReleasedVanishes`, `Converges`), which needs fairness and is out of the proof
system's reach.

## 5. Not modelled

`PROJECT.json` lists every part. By lines most of the repository has no behaviour for a model to check: the generated
`ent` client and its predicates, the static model tables, the translators between provider formats, the executors' wire
formats and fingerprints, the management handlers that read a row and render it, and the terminal UI. They convert data or
do I/O and have no protocol of their own; what they do to shared state they do through the parts modelled here. The mapped
lines are therefore a small share of the repository and a large share of its concurrent core. The Redis client's probe
schedule is covered by letting it report up or down at any moment.

Some behaviour was met while modelling that no property of a run states. Most are hazards in `PROJECT.json`; the others are
kept here for whoever changes the code:

* `account_concurrency_queue.go:204`: `giveUp` leaves the caller's entries in its other queues until a release walks past
  them, and they count against the queue's depth although the comment at line 154 speaks of waiters.
* `account_concurrency_queue.go:82`: a hand-over does not look at the limit again; a lowered limit takes effect when
  slots are freed, not when they are handed over.
* `account_concurrency_cluster.go:177`: a request admitted while the account had no limit gives back a lease of another
  request when a limit was configured meanwhile.
* `conductor_credential_writes.go:114`: a management client that hangs up cancels the save of a rotated token; without `gaveUp` in
  it, `RotationKept` is violated by `HangUp`.
* `conductor_refresh_service.go:251`: an answer of the provider that is lost after it rotated the token is an error like any other. The
  lease is given back and the next refresh, here or on another process, presents the spent token (`AnswerLost`; `SpentByOneNode` for
  every token that was presented, and not only those whose successor arrived, is violated).
* `clusterauth/store.go:44`: nothing ends a refresh when its lease of 90 s does; another process then presents the same token.
* `runtime_store.go:135`: a failed read of the stored settings is swallowed, and a save of a client that sent a version commits
  on the copy in memory, or on an empty one for a tenant. `config_versioning.go:147` says that edits "start from the stored values"; without
  `misread` in it, `EditsKept` is violated in 5 states.
* `conductor_runtime_config.go:16`: two `SetConfigForTenant` at once lose one tenant's snapshot, and nothing repairs it until the unit is
  saved again. Without `undone` in it, `StaleIsDue` is violated on a node that serves saves, in 15 states.
* `cooldown.go:160`: a deadline less than a millisecond past a whole second is sent as that second, although the comment above it says that
  the result is never shorter.
* `conductor_execution_service.go:119`: a slot is not released by `defer`, so an executor that panics keeps it.
* `conductor_refresh_service.go:251`: a process that dies between the provider's answer and the save takes the token along.
* `clusterauth/save.go:134`: an upload that replaces a credential while a refresh of the old one is being saved.
* `service_auth_updates.go:123`: the reload compares versions before `Update` takes the lock.
* `dispatcher.go:118`: the dispatcher's baseline is taken after the configuration was loaded; a save in between is
  recorded as applied.
* `wsrelay/session.go:159`, `manager.go:192`: an unchecked type assertion after a load that may miss; a late
  disconnect report for a provider name that is in use again.
* `clusterruntime/cooldown.go:97`: a notice that was claimed and then dropped by a full queue is not announced again until
  the deadline moves by more than the slack (`AnnouncedWithinSlack` counts it as lost).
* `conductor_cooldown_cluster.go:122`: a notice carries the scope's quota flag, which may be an older failure's.
* `quota_reconcile.go:224`: a probe's answer is applied to the state as it is when it arrives.
* `conductor_cooldown_service.go:157`: the model registry is told after the unlock, so two results may reach it in either order.

## 6. Plan

Done: what every request passes (limiter), its cluster form, its leases, the credential, configuration, cooldowns and the
WebSocket relay. What is left, in this order:

1. `CredentialRefresh`: re-creation of a credential while a refresh of the old one is saved; convergence of the copies in
   memory after `Undo` and late reloads (a liveness property); runtime observations.
2. `ClusterSlots` without outages as an implementation of `SlotService` for the whole cluster, and `LeaseKeeper` of the counted leases.
3. Leader election and membership under the bus that `ConfigSync` and `CooldownRelay` assume; the selectors as operators,
   compared with a reference definition over small pools.
4. Session affinity, quota batches and the model registry's counts.
