------------------------------ MODULE ConfigSync ------------------------------
(***************************************************************************)
(* Configuration synchronisation between the nodes of a cluster            *)
(* (internal/configsync), the PostgreSQL notification bus it rides on      *)
(* (internal/cluster: pgbus.go, pg_listener.go, cluster.go) and the        *)
(* management handler that saves a setting and makes it live               *)
(* (internal/api/handlers/management/config_versioning.go,                 *)
(* sdk/cliproxy/service_config_reload.go).                                 *)
(*                                                                         *)
(* A unit is a (domain, tenant, key) with a version in the database.  An   *)
(* administrator's save is a compare-and-swap on that version whose event  *)
(* is queued in the same transaction; every other node whose listener is   *)
(* connected gets the event, coalesces it, and one worker reloads the      *)
(* units announced.  Events name units only, so a coalesced event is the   *)
(* unit and its version number is left out.                                *)
(*                                                                         *)
(* A node serves the system tenant's settings from its live config and     *)
(* every tenant's, the system's included, from the set of snapshots its    *)
(* auth manager holds.  The set is replaced as a whole, without a lock:    *)
(* SetConfigForTenant loads it, copies it and stores the copy with one     *)
(* tenant's entry exchanged.                                               *)
(*                                                                         *)
(* Granularity: one step per transaction, per hold of the dispatcher's or  *)
(* the handler's mutex, per fingerprint snapshot, and per load and store   *)
(* of the set of snapshots.  The dispatcher and the saves are all that     *)
(* installs configuration here: the reload of an edited config.yaml, and   *)
(* the creation of a tenant, are left out.                                 *)
(***************************************************************************)
EXTENDS Integers, Sequences, FiniteSets

CONSTANTS
    Nodes,         \* the processes whose dispatcher is modelled
    Units,         \* configuration units
    Tenant,        \* the tenant a unit belongs to
    System,        \* the system tenant
    Unknown,       \* units of a domain this build has no reload handler for
    Admins,        \* administrators; each has one save under way at a time
    Home,          \* the node that serves an administrator; it may be one
                   \* outside Nodes
    Edits,         \* the units an administrator edits
    Unchecked,     \* administrators whose client sends no version
    MaxVersion,    \* bound: writes of each unit
    MaxIncidents,  \* bound: lost connections, joining nodes, failed reads,
                   \* snapshots and reloads and lost answers, all together
    ReloadsFail,   \* a reload may return an error, panic or fail to read the rows
    Nil            \* "no fingerprints" (a nil map), "nothing loaded"

ASSUME UnitsAssumption == IsFiniteSet(Units) /\ DOMAIN Tenant = Units
ASSUME UnknownAssumption == Unknown \subseteq Units
ASSUME AdminsAssumption ==
    DOMAIN Home = Admins /\ Edits \in [Admins -> SUBSET Units] /\ Nodes \cap Admins = {}
ASSUME BoundsAssumption == MaxVersion \in [Units -> Nat] /\ MaxIncidents \in Nat
ASSUME FlagsAssumption == ReloadsFail \in BOOLEAN

Versions == Nat
AnyVersion == -1
Joined == "joined"    \* the bus message of a node that came up

ASSUME MessagesAssumption ==
    Joined \notin Units /\ Nil \notin Units /\ Nil \notin [Units -> Versions]

UnitsOf(t) == {u \in Units : Tenant[u] = t}

Tenants == {Tenant[u] : u \in Units} \ {System}

(* The dispatcher of a node and the requests of its administrators install *)
(* configurations on the same node.                                        *)
Installers == Nodes \cup Admins
At(p) == IF p \in Admins THEN Home[p] ELSE p

VARIABLES
    version,   \* version column of the unit's row
    contents,  \* the edits in the stored value, named by the version each made
    link,      \* the listener's session is connected and LISTENs
    inbox,     \* notifications on that session, in commit order
    pending,   \* Dispatcher.pending
    resync,    \* Dispatcher.resync
    wake,      \* Dispatcher.wake holds a token
    worker,    \* where the dispatcher's goroutine is
    current,   \* the fingerprints process read, or Nil
    todo,      \* units whose reload is still to run
    forced,    \* the reload is a full one whose fingerprints replace applied
    loaded,    \* an installer's SetConfigForTenant under way: the tenant, the
               \* versions of its units read for it, and the set of snapshots
               \* copied, Nil before the copy; or Nil
    applied,   \* Dispatcher.applied, or Nil
    notes,     \* localWrites.byNode, 0 for a unit without a note
    live,      \* the version of a system unit in the node's live config
    cache,     \* the version of a unit in the manager's set of snapshots
    save,      \* the management request of each administrator
    healthy,   \* the node's listener never lost its connection, none of its
               \* reloads failed and no answer to a commit of its was lost
    undone,    \* some install on the node put an older copy over a newer one
    misread,   \* units stored from a copy whose read had failed
    incidents  \* how many incidents there were

busVars  == <<link, inbox>>
dispVars == <<pending, resync, wake>>
workVars == <<worker, current, todo, forced, loaded, applied>>
dbVars   == <<version, contents, misread>>
liveVars == <<live, cache, undone>>
faultVars == <<healthy, incidents>>
vars     == <<dbVars, busVars, dispVars, workVars, notes, liveVars, save, faultVars>>

NoSave == [st |-> "idle", unit |-> Nil, expected |-> 0, doc |-> {}, blind |-> FALSE,
           read |-> Nil, left |-> {}]

SaveStates == {"idle", "editing", "committed", "adopting", "hook", "hooked", "syncing", "closing"}

WorkerStates == {"idle", "window", "drained", "snapshot", "reloading"}

Init ==
    /\ version = [u \in Units |-> 0]
    /\ contents = [u \in Units |-> {}]
    /\ link = [n \in Nodes |-> TRUE]
    /\ inbox = [n \in Nodes |-> <<>>]
    /\ pending = [n \in Nodes |-> {}]
    /\ resync = [n \in Nodes |-> FALSE]
    /\ wake = [n \in Nodes |-> FALSE]
    /\ worker = [n \in Nodes |-> "idle"]
    /\ current = [n \in Nodes |-> Nil]
    /\ todo = [n \in Nodes |-> {}]
    /\ forced = [n \in Nodes |-> FALSE]
    /\ loaded = [p \in Installers |-> Nil]
    /\ applied \in [Nodes -> {Nil, [u \in Units |-> 0]}]
    /\ notes = [n \in Nodes |-> [u \in Units |-> 0]]
    /\ live = [n \in Nodes |-> [u \in UnitsOf(System) |-> 0]]
    /\ cache = [n \in Nodes |-> [u \in Units |-> 0]]
    /\ undone = [n \in Nodes |-> FALSE]
    /\ misread = {}
    /\ save = [a \in Admins |-> NoSave]
    /\ healthy = [n \in Nodes |-> TRUE]
    /\ incidents = 0

Incident == incidents < MaxIncidents /\ incidents' = incidents + 1

-----------------------------------------------------------------------------
(* The bus.                                                                *)

(* NOTIFY at commit: every connected session but the publisher's own gets  *)
(* the message (deliver drops a node's own events).                        *)
Notified(from, msg) ==
    [n \in Nodes |-> IF link[n] /\ n # from THEN Append(inbox[n], msg) ELSE inbox[n]]

(* deliver and Enqueue: a config event joins the pending set, a node that  *)
(* joined asks for a resync; either leaves a wake token.                   *)
Bug_Receive(n) ==                       \* the join is queued as a config event
    /\ link[n] /\ inbox[n] # <<>>
    /\ inbox' = [inbox EXCEPT ![n] = Tail(@)]
    /\ pending' = [pending EXCEPT ![n] = @ \cup {Head(inbox[n])}]
    /\ wake' = [wake EXCEPT ![n] = TRUE]
    /\ UNCHANGED <<dbVars, link, resync, workVars, notes, liveVars, save, faultVars>>

Receive(n) ==
    /\ link[n] /\ inbox[n] # <<>>
    /\ inbox' = [inbox EXCEPT ![n] = Tail(@)]
    /\ IF Head(inbox[n]) = Joined
       THEN resync' = [resync EXCEPT ![n] = TRUE] /\ UNCHANGED pending
       ELSE pending' = [pending EXCEPT ![n] = @ \cup {Head(inbox[n])}] /\ UNCHANGED resync
    /\ wake' = [wake EXCEPT ![n] = TRUE]
    /\ UNCHANGED <<dbVars, link, workVars, notes, liveVars, save, faultVars>>

(* The listener's session ends; what was on it is gone for good.           *)
Disconnect(n) ==
    /\ link[n] /\ Incident
    /\ healthy' = [healthy EXCEPT ![n] = FALSE]
    /\ link' = [link EXCEPT ![n] = FALSE]
    /\ inbox' = [inbox EXCEPT ![n] = <<>>]
    /\ UNCHANGED <<dbVars, dispVars, workVars, notes, liveVars, save>>

(* connectListener LISTENs; runListener then delivers a Resync before it   *)
(* waits for notifications.                                                *)
Reconnect(n) ==
    /\ ~link[n]
    /\ link' = [link EXCEPT ![n] = TRUE]
    /\ resync' = [resync EXCEPT ![n] = TRUE]
    /\ wake' = [wake EXCEPT ![n] = TRUE]
    /\ UNCHANGED <<dbVars, inbox, pending, workVars, notes, liveVars, save, faultVars>>

(* announceJoin of some further node.                                      *)
PeerJoins ==
    /\ Incident
    /\ inbox' = Notified(Nil, Joined)
    /\ UNCHANGED <<dbVars, link, dispVars, workVars, notes, liveVars, save, healthy>>

-----------------------------------------------------------------------------
(* The dispatcher's worker.                                                *)

(* run: take the wake token, then wait for the window to pass.             *)
Bug_TakeWake(n) ==                      \* only a resync ends the window
    /\ worker[n] = "idle" /\ wake[n] /\ resync[n]
    /\ wake' = [wake EXCEPT ![n] = FALSE]
    /\ worker' = [worker EXCEPT ![n] = "window"]
    /\ UNCHANGED <<dbVars, busVars, pending, resync, current, todo, forced, loaded,
                   applied, notes, liveVars, save, faultVars>>

TakeWake(n) ==
    /\ worker[n] = "idle" /\ wake[n]
    /\ wake' = [wake EXCEPT ![n] = FALSE]
    /\ worker' = [worker EXCEPT ![n] = "window"]
    /\ UNCHANGED <<dbVars, busVars, pending, resync, current, todo, forced, loaded,
                   applied, notes, liveVars, save, faultVars>>

(* drainAndProcess, under the mutex.  todo holds the batch, forced the     *)
(* resync flag.                                                            *)
Drain(n) ==
    /\ worker[n] = "window"
    /\ worker' = [worker EXCEPT ![n] = "drained"]
    /\ todo' = [todo EXCEPT ![n] = pending[n]]
    /\ forced' = [forced EXCEPT ![n] = resync[n]]
    /\ pending' = [pending EXCEPT ![n] = {}]
    /\ resync' = [resync EXCEPT ![n] = FALSE]
    /\ UNCHANGED <<dbVars, busVars, wake, current, loaded, applied, notes, liveVars, save, faultVars>>

(* snapshot: the versions of every unit, or nothing when a query fails.    *)
Snapshot(n) ==
    /\ worker[n] = "drained"
    /\ worker' = [worker EXCEPT ![n] = "snapshot"]
    /\ \/ current' = [current EXCEPT ![n] = version] /\ UNCHANGED incidents
       \/ current' = [current EXCEPT ![n] = Nil] /\ Incident
    /\ UNCHANGED <<dbVars, busVars, dispVars, todo, forced, loaded, applied, notes,
                   liveVars, save, healthy>>

(* forgetLocalWrites: a version this node wrote itself counts as applied.  *)
Forgotten(n) ==
    IF applied[n] = Nil THEN Nil
    ELSE [u \in Units |->
            IF notes[n][u] # 0 /\ (current[n] = Nil \/ current[n][u] = notes[n][u])
            THEN notes[n][u] ELSE applied[n][u]]

Changed(cur, base) == {u \in Units : cur[u] # base[u]}

(* The rest of process up to the reloads: a resync adds the units whose    *)
(* fingerprint differs, or reloads everything when it cannot tell; so does *)
(* a unit nobody handles.                                                  *)
Plan(n) ==
    LET base  == Forgotten(n)
        blind == forced[n] /\ (current[n] = Nil \/ base = Nil)
        batch == IF forced[n] /\ ~blind
                 THEN todo[n] \cup Changed(current[n], base) ELSE todo[n]
    IN  /\ worker[n] = "snapshot"
        /\ worker' = [worker EXCEPT ![n] = "reloading"]
        /\ notes' = [notes EXCEPT ![n] = [u \in Units |-> 0]]
        /\ applied' = [applied EXCEPT ![n] = base]
        /\ forced' = [forced EXCEPT ![n] = blind]
        /\ todo' = [todo EXCEPT ![n] =
                      IF blind \/ batch \cap Unknown # {} THEN Units ELSE batch]
        /\ UNCHANGED <<dbVars, busVars, dispVars, current, loaded, liveVars, save, faultVars>>

-----------------------------------------------------------------------------
(* Installing a configuration.                                             *)

Read(t) == [u \in UnitsOf(t) |-> version[u]]
Empty(t) == [u \in UnitsOf(t) |-> 0]

(* A configuration built for a tenant, about to be handed to the manager.  *)
Built(t, read) == [tenant |-> t, read |-> read, set |-> Nil]

(* BuildTenantRuntimeConfig starts from nothing and overlays the tenant's  *)
(* rows; when they cannot be read the result is empty, and nobody is told. *)
Builds(t, result) ==
    \/ result = Read(t) /\ UNCHANGED incidents
    \/ result = Empty(t) /\ ReloadsFail /\ Incident

(* What the node serves becomes l and c; an older copy over a newer one is *)
(* remembered.                                                             *)
Serve(n, l, c) ==
    /\ live' = [live EXCEPT ![n] = l]
    /\ cache' = [cache EXCEPT ![n] = c]
    /\ undone' = [undone EXCEPT ![n] =
                     \/ @
                     \/ \E u \in UnitsOf(System) : l[u] < live[n][u]
                     \/ \E u \in Units : c[u] < cache[n][u]]

(* SetConfigForTenant loads the set of snapshots; the system's entry is    *)
(* cloned from the live config now.                                        *)
Copied(p) ==
    [tenant |-> loaded[p].tenant,
     read |-> IF loaded[p].tenant = System THEN live[At(p)] ELSE loaded[p].read,
     set |-> cache[At(p)]]

CopySet(p) ==
    /\ loaded[p] # Nil /\ loaded[p].set = Nil
    /\ loaded' = [loaded EXCEPT ![p] = Copied(p)]
    /\ UNCHANGED <<dbVars, busVars, dispVars, worker, current, todo, forced, applied,
                   notes, liveVars, save, faultVars>>

(* It then stores the copy with the tenant's entry exchanged.              *)
StoreSet(p) ==
    /\ loaded[p] # Nil /\ loaded[p].set # Nil
    /\ Serve(At(p), live[At(p)],
             [u \in Units |-> IF Tenant[u] = loaded[p].tenant
                              THEN loaded[p].read[u] ELSE loaded[p].set[u]])
    /\ loaded' = [loaded EXCEPT ![p] = Nil]

-----------------------------------------------------------------------------
(* The dispatcher's reloads.                                               *)

(* A reload of the system tenant reads the rows and applies them to the    *)
(* live config under the handler's lock; SetConfig follows (and once more  *)
(* for provider lists, which the model leaves out).                        *)
ReloadSystem(n) ==
    /\ worker[n] = "reloading" /\ loaded[n] = Nil /\ todo[n] \cap UnitsOf(System) # {}
    /\ Serve(n, [u \in UnitsOf(System) |-> IF u \in todo[n] THEN version[u] ELSE live[n][u]],
             cache[n])
    /\ loaded' = [loaded EXCEPT ![n] = Built(System, Read(System))]
    /\ UNCHANGED <<dbVars, busVars, dispVars, worker, current, todo, forced, applied,
                   notes, save, faultVars>>

(* A reload of a tenant builds its configuration from the database; the    *)
(* manager gets it afterwards, with no lock around the two.                *)
LoadTenant(n, t) ==
    /\ worker[n] = "reloading" /\ loaded[n] = Nil /\ todo[n] \cap UnitsOf(t) # {}
    /\ \E result \in {Read(t), Empty(t)} :
          /\ Builds(t, result)
          /\ loaded' = [loaded EXCEPT ![n] = Built(t, result)]
          /\ healthy' = [healthy EXCEPT ![n] = @ /\ incidents' = incidents]
    /\ UNCHANGED <<dbVars, busVars, dispVars, worker, current, todo, forced, applied,
                   notes, liveVars, save>>

InstallReload(n) ==
    /\ StoreSet(n)
    /\ todo' = [todo EXCEPT ![n] = @ \ UnitsOf(loaded[n].tenant)]
    /\ UNCHANGED <<dbVars, busVars, dispVars, worker, current, forced, applied,
                   notes, save, faultVars>>

(* call: an error or a panic of a handler is logged and nothing else; the  *)
(* units it had not reached stay as they are.                              *)
ReloadFails(n, skipped) ==
    /\ ReloadsFail /\ Incident
    /\ worker[n] = "reloading" /\ loaded[n] = Nil
    /\ skipped # {} /\ skipped \subseteq todo[n]
    /\ healthy' = [healthy EXCEPT ![n] = FALSE]
    /\ todo' = [todo EXCEPT ![n] = @ \ skipped]
    /\ UNCHANGED <<dbVars, busVars, dispVars, worker, current, forced, loaded, applied,
                   notes, liveVars, save>>

(* The end of process: what was read counts as applied.                    *)
Bug_FinishBatch(n) ==                   \* events of the meantime thrown away
    /\ worker[n] = "reloading" /\ todo[n] = {}
    /\ worker' = [worker EXCEPT ![n] = "idle"]
    /\ applied' = [applied EXCEPT ![n] =
                     IF forced[n] \/ current[n] # Nil THEN current[n] ELSE @]
    /\ current' = [current EXCEPT ![n] = Nil]
    /\ forced' = [forced EXCEPT ![n] = FALSE]
    /\ pending' = [pending EXCEPT ![n] = {}]
    /\ UNCHANGED <<dbVars, busVars, resync, wake, todo, loaded, notes, liveVars, save, faultVars>>

FinishBatch(n) ==
    /\ worker[n] = "reloading" /\ todo[n] = {}
    /\ worker' = [worker EXCEPT ![n] = "idle"]
    /\ applied' = [applied EXCEPT ![n] =
                     IF forced[n] \/ current[n] # Nil THEN current[n] ELSE @]
    /\ current' = [current EXCEPT ![n] = Nil]
    /\ forced' = [forced EXCEPT ![n] = FALSE]
    /\ UNCHANGED <<dbVars, busVars, dispVars, todo, loaded, notes, liveVars, save, faultVars>>

-----------------------------------------------------------------------------
(* A management save.                                                      *)

Editing(u, expected, doc, read, blind) ==
    [st |-> "editing", unit |-> u, expected |-> expected, doc |-> doc, blind |-> blind,
     read |-> read, left |-> {}]

(* What is left of a unit's edits when the copy is one of version v.       *)
Older(u, v) == {k \in contents[u] : k <= v}

(* The copy freshConfig falls back on when the rows cannot be read: the    *)
(* live config for the system tenant, an empty one for any other.          *)
Unread(a, u) ==
    IF Tenant[u] # System THEN {0}
    ELSE IF Home[a] \in Nodes THEN {live[Home[a]][u]} ELSE 0..version[u]

(* freshConfig reads the stored value and its version; the edit applies to *)
(* that copy.  A client that sends no version replaces what is there.      *)
BeginSave(a, u) ==
    /\ save[a].st = "idle" /\ u \in Edits[a] /\ version[u] < MaxVersion[u]
    /\ save' = [save EXCEPT ![a] =
                  Editing(u, IF a \in Unchecked THEN AnyVersion ELSE version[u],
                          contents[u], Read(Tenant[u]), FALSE)]
    /\ UNCHANGED <<dbVars, busVars, dispVars, workVars, notes, liveVars, faultVars>>

(* The failure of that read is swallowed and the edit applies to the       *)
(* fallback copy.  No version is on record for it, so the save expects a   *)
(* row that does not exist yet, unless the client sent the version it saw. *)
BeginBlind(a, u) ==
    /\ Incident
    /\ save[a].st = "idle" /\ u \in Edits[a] /\ version[u] < MaxVersion[u]
    /\ \E v \in Unread(a, u), expected \in {0, version[u]} :
          save' = [save EXCEPT ![a] =
                     Editing(u, expected, Older(u, v), Empty(Tenant[u]), TRUE)]
    /\ UNCHANGED <<dbVars, busVars, dispVars, workVars, notes, liveVars, healthy>>

(* BumpTx / CompareAndSwap's condition on the row.                         *)
Bug_Matches(a) == TRUE                  \* the version is not compared

Matches(a) == save[a].expected \in {AnyVersion, version[save[a].unit]}

(* CommitTx: the row, its new version and the event commit together.       *)
Stored(a) ==
    LET u == save[a].unit
        v == version[u] + 1
    IN  /\ save[a].st = "editing" /\ Matches(a) /\ v <= MaxVersion[u]
        /\ version' = [version EXCEPT ![u] = v]
        /\ contents' = [contents EXCEPT ![u] = save[a].doc \cup {v}]
        /\ misread' = IF save[a].blind THEN misread \cup {u} ELSE misread
        /\ inbox' = Notified(Home[a], u)

(* The write is noted as the node's own.  What the request does next       *)
(* matters to its own node only.                                           *)
Commit(a) ==
    LET u == save[a].unit
    IN  /\ Stored(a)
        /\ notes' = [n \in Nodes |-> IF n = Home[a] THEN [notes[n] EXCEPT ![u] = version'[u]]
                                     ELSE notes[n]]
        /\ save' = [save EXCEPT ![a] =
                      IF Home[a] \in Nodes
                      THEN [@ EXCEPT !.st = "committed", !.read[u] = version'[u], !.doc = {}]
                      ELSE NoSave]
        /\ UNCHANGED <<link, dispVars, workVars, liveVars, faultVars>>

(* The database committed and the answer was lost: the request fails, the  *)
(* node makes nothing live and notes nothing, and drops its own event.     *)
CommitUnseen(a) ==
    /\ Stored(a) /\ Incident
    /\ healthy' = [n \in Nodes |-> healthy[n] /\ n # Home[a]]
    /\ save' = [save EXCEPT ![a] = NoSave]
    /\ UNCHANGED <<link, dispVars, workVars, notes, liveVars>>

(* A version conflict (409), any other failure of the transaction, or an   *)
(* edit the handler refuses: nothing was stored and nothing is announced.  *)
SaveFails(a) ==
    /\ save[a].st = "editing"
    /\ save' = [save EXCEPT ![a] = NoSave]
    /\ UNCHANGED <<dbVars, busVars, dispVars, workVars, notes, liveVars, faultVars>>

(* commitConfig makes the committed copy live.  The system tenant's        *)
(* changed keys go into the live config under the lock (AdoptKeys);        *)
(* SetConfigForTenant follows, for another tenant with the whole copy.     *)
Adopt(a) ==
    LET n == Home[a]
        u == save[a].unit
    IN  /\ save[a].st = "committed"
        /\ Serve(n, [w \in UnitsOf(System) |-> IF w = u THEN save[a].read[u] ELSE live[n][w]],
                 cache[n])
        /\ loaded' = [loaded EXCEPT ![a] = Built(Tenant[u], save[a].read)]
        /\ save' = [save EXCEPT ![a].st = "adopting"]
        /\ UNCHANGED <<dbVars, busVars, dispVars, worker, current, todo, forced, applied,
                       notes, faultVars>>

(* An installation of the request ends: the adoption of a tenant's copy    *)
(* ends the request, that of the system's is followed by the hook.         *)
InstallSave(a) ==
    /\ StoreSet(a)
    /\ save' = [save EXCEPT ![a] =
                  IF @.st = "closing" \/ Tenant[@.unit] # System THEN NoSave
                  ELSE IF @.st = "adopting" THEN [@ EXCEPT !.st = "hook"] ELSE @]
    /\ UNCHANGED <<dbVars, busVars, dispVars, worker, current, todo, forced, applied,
                   notes, faultVars>>

(* applyConfigReload: the system tenant's stored settings are read again,  *)
(* outside the handler's lock; when that fails the live config stays.      *)
HookRead(a) ==
    /\ save[a].st = "hook"
    /\ \/ save' = [save EXCEPT ![a].st = "hooked", ![a].read = Read(System)] /\ UNCHANGED incidents
       \/ save' = [save EXCEPT ![a].st = "hooked", ![a].read = Nil] /\ Incident
    /\ UNCHANGED <<dbVars, busVars, dispVars, workVars, notes, liveVars, healthy>>

(* They are applied to the live config; SyncConfigDerivedAuths then hands  *)
(* the manager the system's configuration and goes through the tenants,    *)
(* unless it cannot list them.                                             *)
HookApply(a) ==
    LET n == Home[a] IN
    /\ save[a].st = "hooked"
    /\ Serve(n, IF save[a].read = Nil THEN live[n] ELSE save[a].read, cache[n])
    /\ loaded' = [loaded EXCEPT ![a] = Built(System, Read(System))]
    /\ \/ save' = [save EXCEPT ![a].st = "syncing", ![a].left = Tenants] /\ UNCHANGED incidents
       \/ save' = [save EXCEPT ![a].st = "syncing"] /\ Incident
    /\ UNCHANGED <<dbVars, busVars, dispVars, worker, current, todo, forced, applied,
                   notes, healthy>>

(* SyncConfigDerivedAuthsForTenant reads and installs every tenant again.  *)
SyncTenant(a, t) ==
    /\ save[a].st = "syncing" /\ loaded[a] = Nil /\ t \in save[a].left
    /\ \E result \in {Read(t), Empty(t)} :
          Builds(t, result) /\ loaded' = [loaded EXCEPT ![a] = Built(t, result)]
    /\ save' = [save EXCEPT ![a].left = @ \ {t}]
    /\ UNCHANGED <<dbVars, busVars, dispVars, worker, current, todo, forced, applied,
                   notes, liveVars, healthy>>

(* applyConfigReload ends with another SetConfig.                          *)
HookEnds(a) ==
    /\ save[a].st = "syncing" /\ loaded[a] = Nil /\ save[a].left = {}
    /\ loaded' = [loaded EXCEPT ![a] = Built(System, Read(System))]
    /\ save' = [save EXCEPT ![a].st = "closing"]
    /\ UNCHANGED <<dbVars, busVars, dispVars, worker, current, todo, forced, applied,
                   notes, liveVars, faultVars>>

-----------------------------------------------------------------------------
WorkerStep(n) ==
    \/ TakeWake(n)
    \/ Drain(n)
    \/ Snapshot(n)
    \/ Plan(n)
    \/ ReloadSystem(n)
    \/ \E t \in Tenants : LoadTenant(n, t)
    \/ \E skipped \in SUBSET Units : ReloadFails(n, skipped)
    \/ CopySet(n)
    \/ InstallReload(n)
    \/ FinishBatch(n)

SaveStep(a) ==
    \/ Commit(a) \/ CommitUnseen(a) \/ SaveFails(a)
    \/ Adopt(a) \/ CopySet(a) \/ InstallSave(a)
    \/ HookRead(a) \/ HookApply(a) \/ HookEnds(a)
    \/ \E t \in Tenants : SyncTenant(a, t)

Next ==
    \/ \E n \in Nodes : Receive(n) \/ Disconnect(n) \/ Reconnect(n) \/ WorkerStep(n)
    \/ \E a \in Admins : SaveStep(a) \/ \E u \in Units : BeginSave(a, u) \/ BeginBlind(a, u)
    \/ PeerJoins

Spec == Init /\ [][Next]_vars

(* Fairness.  The listener reads what it has and reconnects, the worker    *)
(* and the request handlers run on.  Nobody has to save, and no node has   *)
(* to join.                                                                *)
Fairness ==
    /\ \A n \in Nodes : WF_vars(Receive(n)) /\ WF_vars(Reconnect(n)) /\ WF_vars(WorkerStep(n))
    /\ \A a \in Admins : WF_vars(SaveStep(a))

FairSpec == Spec /\ Fairness

-----------------------------------------------------------------------------
(* Properties.                                                             *)

Fingerprints == [Units -> Versions] \cup {Nil}
AllTenants == Tenants \cup {System}

LoadedOK(l) ==
    l # Nil => \E t \in AllTenants :
        l \in [tenant : {t}, read : [UnitsOf(t) -> Versions], set : Fingerprints]

SaveOK(s) ==
    \E t \in AllTenants :
        s \in [st : SaveStates, unit : UnitsOf(t) \cup {Nil}, doc : SUBSET Versions,
               expected : Versions \cup {AnyVersion}, blind : BOOLEAN,
               read : [UnitsOf(t) -> Versions] \cup {Nil}, left : SUBSET Tenants]

(* The types of the database rows, the bus, the dispatcher, what the node  *)
(* serves and the saves.                                                   *)
TypeOK ==
    /\ version \in [Units -> Versions]
    /\ contents \in [Units -> SUBSET Versions]
    /\ misread \subseteq Units
    /\ link \in [Nodes -> BOOLEAN]
    /\ inbox \in [Nodes -> Seq(Units \cup {Joined})]
    /\ pending \in [Nodes -> SUBSET Units]
    /\ resync \in [Nodes -> BOOLEAN]
    /\ wake \in [Nodes -> BOOLEAN]
    /\ worker \in [Nodes -> WorkerStates]
    /\ current \in [Nodes -> Fingerprints]
    /\ todo \in [Nodes -> SUBSET Units]
    /\ forced \in [Nodes -> BOOLEAN]
    /\ DOMAIN loaded = Installers
    /\ \A p \in Installers : LoadedOK(loaded[p])
    /\ applied \in [Nodes -> Fingerprints]
    /\ notes \in [Nodes -> [Units -> Versions]]
    /\ live \in [Nodes -> [UnitsOf(System) -> Versions]]
    /\ cache \in [Nodes -> [Units -> Versions]]
    /\ undone \in [Nodes -> BOOLEAN]
    /\ DOMAIN save = Admins
    /\ \A a \in Admins : SaveOK(save[a])
    /\ healthy \in [Nodes -> BOOLEAN]
    /\ incidents \in 0..MaxIncidents

(* No acknowledged edit is silently overwritten: when every client sends   *)
(* the version it read, the stored value holds every edit that committed   *)
(* ("Optimistic versions make a write that was computed from stale data    *)
(* fail instead of silently overwriting a newer change").  The version     *)
(* does not protect a unit that was stored from a copy whose read failed.  *)
EditsKept ==
    Unchecked = {} => \A u \in Units \ misread : contents[u] = 1..version[u]

(* The node serves something else than what is stored.                     *)
Stale(n, u) ==
    \/ cache[n][u] # version[u]
    \/ Tenant[u] = System /\ live[n][u] # version[u]

(* Nothing that loses an event, a reload or an install happened: no lost   *)
(* connection, failed reload or lost answer, and no install of an older    *)
(* copy over a newer one on a node where administrators save.              *)
Undisturbed(n) == healthy[n] /\ ~(undone[n] /\ \E a \in Admins : Home[a] = n)

Announced(n, u) == \E i \in 1..Len(inbox[n]) : inbox[n][i] = u

(* The event waits in the dispatcher, and the worker has been woken for it *)
(* or is still collecting.                                                 *)
Queued(n, u) == u \in pending[n] /\ (wake[n] \/ worker[n] = "window")

(* The reload under way has not read the unit yet, or read what is stored. *)
BeingReloaded(n, u) ==
    /\ u \in todo[n]
    /\ \/ loaded[n] = Nil
       \/ loaded[n].tenant # Tenant[u]
       \/ loaded[n].read[u] = version[u]

(* The save that stored the unit has yet to make it live on its own node.  *)
BeingAdopted(n, u) ==
    \E a \in Admins :
        /\ Home[a] = n /\ save[a].st \in {"committed", "adopting"}
        /\ save[a].unit = u /\ save[a].read[u] = version[u]

(* On an undisturbed node a stale unit always has a reload or an adoption  *)
(* ahead: no event falls between the drain, the snapshot and the reloads   *)
(* ("a write that lands during the reload is applied by it and seen again  *)
(* next time, never lost"), and no wake-up is lost.  On a node nobody      *)
(* saves on, the dispatcher alone never puts back an older copy.           *)
StaleIsDue ==
    \A n \in Nodes : \A u \in Units :
        Undisturbed(n) /\ Stale(n, u) =>
            Announced(n, u) \/ Queued(n, u) \/ BeingReloaded(n, u) \/ BeingAdopted(n, u)

(* Once the administrators stop (the number of writes is bounded) every    *)
(* undisturbed node serves what is stored, for good.                       *)
Converges ==
    \A n \in Nodes : \A u \in Units : <>[](Undisturbed(n) => ~Stale(n, u))

(* What the packages say of a listener that lost its connection ("a lost   *)
(* or duplicated event can only delay a reload"): the node converges too.  *)
LossOnlyDelays ==
    (\A a \in Admins : Home[a] \notin Nodes) =>
        \A n \in Nodes : \A u \in Units : <>[]~Stale(n, u)
=============================================================================
