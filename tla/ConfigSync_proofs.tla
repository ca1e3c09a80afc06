-------------------------- MODULE ConfigSync_proofs --------------------------
(***************************************************************************)
(* Proofs about ConfigSync, for any sets of nodes, units, tenants and      *)
(* administrators: the types, that no acknowledged edit is overwritten,    *)
(* and that a stale unit of an undisturbed node always has a reload or an  *)
(* adoption ahead.                                                         *)
(***************************************************************************)
EXTENDS ConfigSync, TLAPS

(* Where a save is: its unit, where it is served, and what its             *)
(* SetConfigForTenant under way is about.                                  *)
SaveState ==
    \A a \in Admins :
        /\ save[a].st # "idle" => save[a].unit \in Units
        /\ save[a].st \in {"editing", "committed", "adopting"} =>
              save[a].read \in [UnitsOf(Tenant[save[a].unit]) -> Versions]
        /\ save[a].st \notin {"idle", "editing"} => Home[a] \in Nodes
        /\ save[a].st \in {"hook", "hooked", "syncing", "closing"} =>
              Tenant[save[a].unit] = System
        /\ save[a].st = "adopting" =>
              /\ loaded[a].tenant = Tenant[save[a].unit]
              /\ loaded[a].tenant # System => loaded[a].read = save[a].read
        /\ loaded[a] # Nil => save[a].st \in {"adopting", "syncing", "closing"}

(* A reload between its two halves belongs to the batch, and a node that   *)
(* never lost its connection has one.                                      *)
WorkState ==
    \A n \in Nodes :
        /\ loaded[n] # Nil =>
              worker[n] = "reloading" /\ todo[n] \cap UnitsOf(loaded[n].tenant) # {}
        /\ healthy[n] => link[n]
        /\ worker[n] \in {"idle", "window"} => todo[n] = {}

IInv == TypeOK /\ SaveState /\ WorkState

-----------------------------------------------------------------------------
(* Records.                                                                *)

LEMMA UnitTenant == \A u \in Units : Tenant[u] \in AllTenants /\ u \in UnitsOf(Tenant[u])
  BY DEF AllTenants, Tenants, UnitsOf

LEMMA LoadedFields ==
    ASSUME NEW l, l # Nil, LoadedOK(l)
    PROVE  /\ l.tenant \in AllTenants
           /\ l.read \in [UnitsOf(l.tenant) -> Versions]
           /\ l.set \in Fingerprints
           /\ l \in [tenant : {l.tenant}, read : [UnitsOf(l.tenant) -> Versions], set : Fingerprints]
  BY DEF LoadedOK

LEMMA NilOK == LoadedOK(Nil)
  BY DEF LoadedOK

LEMMA RecordOK ==
    ASSUME NEW t \in AllTenants, NEW r \in [UnitsOf(t) -> Versions], NEW c \in Fingerprints
    PROVE  LoadedOK([tenant |-> t, read |-> r, set |-> c])
  BY DEF LoadedOK

LEMMA BuiltOK ==
    ASSUME NEW t \in AllTenants, NEW r \in [UnitsOf(t) -> Versions]
    PROVE  /\ LoadedOK(Built(t, r))
           /\ Built(t, r).tenant = t /\ Built(t, r).read = r /\ Built(t, r).set = Nil
  BY RecordOK DEF Built, Fingerprints

LEMMA ReadOK ==
    ASSUME TypeOK, NEW t
    PROVE  Read(t) \in [UnitsOf(t) -> Versions] /\ Empty(t) \in [UnitsOf(t) -> Versions]
  BY DEF TypeOK, Read, Empty, UnitsOf, Versions

LEMMA SystemRead ==
    ASSUME IInv
    PROVE  System \in AllTenants /\ Read(System) \in [UnitsOf(System) -> Versions]
  BY ReadOK DEF IInv, AllTenants

LEMMA SaveFields ==
    ASSUME NEW s, SaveOK(s)
    PROVE  /\ s.st \in SaveStates /\ s.doc \in SUBSET Versions
           /\ s.expected \in Versions \cup {AnyVersion} /\ s.blind \in BOOLEAN
           /\ s.left \in SUBSET Tenants
           /\ s = [st |-> s.st, unit |-> s.unit, doc |-> s.doc, expected |-> s.expected,
                   blind |-> s.blind, read |-> s.read, left |-> s.left]
  BY DEF SaveOK

LEMMA Typed ==
    ASSUME TypeOK
    PROVE  /\ \A p \in Installers : LoadedOK(loaded[p])
           /\ \A a \in Admins : SaveOK(save[a])
  BY DEF TypeOK

(* The unit of a save and what it read are of the same tenant.             *)
LEMMA ReadType ==
    ASSUME TypeOK, NEW a \in Admins, save[a].unit \in Units
    PROVE  save[a].read \in [UnitsOf(Tenant[save[a].unit]) -> Versions] \cup {Nil}
  BY Typed, MessagesAssumption DEF SaveOK, UnitsOf

(* Changing the state of a save and what it read or has left to do.        *)
LEMMA TwoFields ==
    ASSUME NEW s, SaveOK(s), s.unit \in UnitsOf(System), NEW st \in SaveStates,
           NEW r \in [UnitsOf(System) -> Versions] \cup {Nil}, NEW left \in SUBSET Tenants
    PROVE  /\ SaveOK([s EXCEPT !.st = st, !.read = r])
           /\ [s EXCEPT !.st = st, !.read = r].st = st
           /\ [s EXCEPT !.st = st, !.read = r].unit = s.unit
           /\ SaveOK([s EXCEPT !.st = st, !.left = left])
           /\ [s EXCEPT !.st = st, !.left = left].st = st
           /\ [s EXCEPT !.st = st, !.left = left].unit = s.unit
  <1>1. PICK t \in AllTenants :
              s \in [st : SaveStates, unit : UnitsOf(t) \cup {Nil}, doc : SUBSET Versions,
                     expected : Versions \cup {AnyVersion}, blind : BOOLEAN,
                     read : [UnitsOf(t) -> Versions] \cup {Nil}, left : SUBSET Tenants]
    BY DEF SaveOK
  <1>2. t = System
    BY <1>1, MessagesAssumption DEF UnitsOf
  <1>3. [s EXCEPT !.st = st, !.read = r] \in
              [st : SaveStates, unit : UnitsOf(t) \cup {Nil}, doc : SUBSET Versions,
               expected : Versions \cup {AnyVersion}, blind : BOOLEAN,
               read : [UnitsOf(t) -> Versions] \cup {Nil}, left : SUBSET Tenants]
    BY <1>1, <1>2
  <1>4. [s EXCEPT !.st = st, !.left = left] \in
              [st : SaveStates, unit : UnitsOf(t) \cup {Nil}, doc : SUBSET Versions,
               expected : Versions \cup {AnyVersion}, blind : BOOLEAN,
               read : [UnitsOf(t) -> Versions] \cup {Nil}, left : SUBSET Tenants]
    BY <1>1
  <1>5. /\ [s EXCEPT !.st = st, !.read = r].st = st
        /\ [s EXCEPT !.st = st, !.read = r].unit = s.unit
        /\ [s EXCEPT !.st = st, !.left = left].st = st
        /\ [s EXCEPT !.st = st, !.left = left].unit = s.unit
    BY <1>1
  <1> QED
    BY <1>1, <1>3, <1>4, <1>5 DEF SaveOK

LEMMA NoSaveOK == SaveOK(NoSave)
  BY DEF SaveOK, NoSave, SaveStates, AllTenants, Versions

(* An installer's node is one of the modelled ones.                        *)
LEMMA AtNode ==
    ASSUME IInv, NEW p \in Installers, loaded[p] # Nil
    PROVE  At(p) \in Nodes
  BY AdminsAssumption DEF IInv, SaveState, Installers, At

(* What SetConfigForTenant puts together has its types.                    *)
LEMMA CopiedOK ==
    ASSUME IInv, NEW p \in Installers, loaded[p] # Nil
    PROVE  /\ LoadedOK(Copied(p))
           /\ Copied(p).tenant = loaded[p].tenant
           /\ Copied(p).set = cache[At(p)]
           /\ Copied(p).read = IF loaded[p].tenant = System THEN live[At(p)] ELSE loaded[p].read
  <1>1. LoadedOK(loaded[p])
    BY Typed DEF IInv
  <1>2. At(p) \in Nodes
    BY AtNode
  <1>3. cache[At(p)] \in [Units -> Versions] /\ live[At(p)] \in [UnitsOf(System) -> Versions]
    BY <1>2 DEF IInv, TypeOK
  <1>4. /\ loaded[p].tenant \in AllTenants
        /\ loaded[p].read \in [UnitsOf(loaded[p].tenant) -> Versions]
    BY <1>1, LoadedFields
  <1>5. /\ Copied(p).tenant = loaded[p].tenant
        /\ Copied(p).set = cache[At(p)]
        /\ Copied(p).read = IF loaded[p].tenant = System THEN live[At(p)] ELSE loaded[p].read
    BY DEF Copied
  <1>6. (IF loaded[p].tenant = System THEN live[At(p)] ELSE loaded[p].read)
            \in [UnitsOf(loaded[p].tenant) -> Versions]
    BY <1>3, <1>4
  <1>7. LoadedOK(Copied(p))
    BY <1>3, <1>4, <1>6, RecordOK DEF Copied, Fingerprints
  <1> QED
    BY <1>5, <1>7

LEMMA ServeOK ==
    ASSUME TypeOK, NEW n \in Nodes, NEW l \in [UnitsOf(System) -> Versions],
           NEW c \in [Units -> Versions], Serve(n, l, c)
    PROVE  /\ live' \in [Nodes -> [UnitsOf(System) -> Versions]]
           /\ cache' \in [Nodes -> [Units -> Versions]]
           /\ undone' \in [Nodes -> BOOLEAN]
           /\ live'[n] = l /\ cache'[n] = c
           /\ ~undone'[n] => /\ ~undone[n]
                             /\ \A u \in UnitsOf(System) : l[u] >= live[n][u]
                             /\ \A u \in Units : c[u] >= cache[n][u]
           /\ \A k \in Nodes : k # n =>
                 live'[k] = live[k] /\ cache'[k] = cache[k] /\ undone'[k] = undone[k]
  <1>1. /\ live' \in [Nodes -> [UnitsOf(System) -> Versions]] /\ live'[n] = l
        /\ cache' \in [Nodes -> [Units -> Versions]] /\ cache'[n] = c
        /\ \A k \in Nodes : k # n => live'[k] = live[k] /\ cache'[k] = cache[k]
    BY DEF Serve, TypeOK
  <1> DEFINE back == \/ \E u \in UnitsOf(System) : l[u] < live[n][u]
                     \/ \E u \in Units : c[u] < cache[n][u]
  <1>2. undone' = [undone EXCEPT ![n] = undone[n] \/ back]
    BY DEF Serve
  <1>3. (undone[n] \/ back) \in BOOLEAN
    OBVIOUS
  <1> HIDE DEF back
  <1>4. /\ undone' \in [Nodes -> BOOLEAN] /\ (undone'[n] <=> undone[n] \/ back)
        /\ \A k \in Nodes : k # n => undone'[k] = undone[k]
    BY <1>2, <1>3 DEF TypeOK
  <1>5. ~back => /\ \A u \in UnitsOf(System) : l[u] >= live[n][u]
                 /\ \A u \in Units : c[u] >= cache[n][u]
    BY DEF back, TypeOK, Versions
  <1> QED
    BY <1>1, <1>4, <1>5

(* The set of snapshots SetConfigForTenant stores.                         *)
NewSet(p) == [u \in Units |-> IF Tenant[u] = loaded[p].tenant
                              THEN loaded[p].read[u] ELSE loaded[p].set[u]]

LEMMA NewSetOK ==
    ASSUME IInv, NEW p \in Installers, StoreSet(p)
    PROVE  /\ NewSet(p) \in [Units -> Versions]
           /\ At(p) \in Nodes /\ live[At(p)] \in [UnitsOf(System) -> Versions]
           /\ Serve(At(p), live[At(p)], NewSet(p))
           /\ \A u \in Units : NewSet(p)[u] = IF Tenant[u] = loaded[p].tenant
                                             THEN loaded[p].read[u] ELSE loaded[p].set[u]
  <1>1. loaded[p] # Nil /\ loaded[p].set # Nil
    BY DEF StoreSet
  <1>2. /\ loaded[p].read \in [UnitsOf(loaded[p].tenant) -> Versions]
        /\ loaded[p].set \in [Units -> Versions]
    BY <1>1, Typed, LoadedFields DEF IInv, Fingerprints
  <1>3. NewSet(p) \in [Units -> Versions]
    BY <1>2 DEF NewSet, UnitsOf
  <1>4. At(p) \in Nodes
    BY <1>1, AtNode
  <1> QED
    BY <1>3, <1>4 DEF StoreSet, NewSet, IInv, TypeOK
-----------------------------------------------------------------------------
(* The bus, the worker and the saves keep the invariant.                   *)

LEMMA InitIInv == Init => IInv
  <1> SUFFICES ASSUME Init PROVE IInv
      OBVIOUS
  <1>1. \A a \in Admins : SaveOK(save[a]) /\ save[a].st = "idle"
    BY NoSaveOK DEF Init, NoSave
  <1>2. TypeOK
    BY <1>1, BoundsAssumption, NilOK
    DEF Init, TypeOK, Versions, WorkerStates, Fingerprints
  <1>3. SaveState
    BY <1>1 DEF Init, SaveState, Installers
  <1>4. WorkState
    BY DEF Init, WorkState, Installers
  <1> QED
    BY <1>2, <1>3, <1>4 DEF IInv

LEMMA NotifiedType ==
    ASSUME TypeOK, NEW from, NEW msg \in Units \cup {Joined}
    PROVE  Notified(from, msg) \in [Nodes -> Seq(Units \cup {Joined})]
  BY DEF TypeOK, Notified

LEMMA BusSteps ==
    ASSUME IInv, NEW n \in Nodes,
           Receive(n) \/ Disconnect(n) \/ Reconnect(n) \/ PeerJoins
    PROVE  IInv'
  <1> USE DEF IInv
  <1>1. TypeOK'
    <2>1. CASE Receive(n)
      <3>1. Head(inbox[n]) \in Units \cup {Joined} /\ Tail(inbox[n]) \in Seq(Units \cup {Joined})
        BY <2>1 DEF Receive, TypeOK
      <3>2. pending' \in [Nodes -> SUBSET Units] /\ resync' \in [Nodes -> BOOLEAN]
        <4>1. CASE Head(inbox[n]) = Joined
          BY <2>1, <4>1 DEF Receive, TypeOK
        <4>2. CASE Head(inbox[n]) # Joined
          <5>1. Head(inbox[n]) \in Units
            BY <3>1, <4>2
          <5>2. pending' = [pending EXCEPT ![n] = @ \cup {Head(inbox[n])}] /\ resync' = resync
            BY <2>1, <4>2 DEF Receive
          <5> QED
            BY <5>1, <5>2 DEF TypeOK
        <4> QED
          BY <4>1, <4>2
      <3>3. /\ inbox' \in [Nodes -> Seq(Units \cup {Joined})]
            /\ wake' \in [Nodes -> BOOLEAN]
        BY <2>1, <3>1 DEF Receive, TypeOK
      <3> QED
        BY <2>1, <3>2, <3>3 DEF Receive, TypeOK, dbVars, workVars, liveVars, faultVars
    <2>2. CASE Disconnect(n)
      BY <2>2, BoundsAssumption DEF Disconnect, Incident, TypeOK, dbVars, dispVars, workVars, liveVars
    <2>3. CASE Reconnect(n)
      BY <2>3 DEF Reconnect, TypeOK, dbVars, workVars, liveVars, faultVars
    <2>4. CASE PeerJoins
      <3>1. inbox' \in [Nodes -> Seq(Units \cup {Joined})]
        BY <2>4, NotifiedType DEF PeerJoins
      <3> QED
        BY <2>4, <3>1, BoundsAssumption DEF PeerJoins, Incident, TypeOK, dbVars, dispVars, workVars, liveVars
    <2> QED
      BY <2>1, <2>2, <2>3, <2>4
  <1>2. SaveState'
    BY DEF SaveState, Receive, Disconnect, Reconnect, PeerJoins, workVars
  <1>3. WorkState'
    BY DEF WorkState, TypeOK, Receive, Disconnect, Reconnect, PeerJoins, workVars, faultVars
  <1> QED
    BY <1>1, <1>2, <1>3


(* A step of a node's worker that leaves the manager alone.                *)
LEMMA WorkerSteps ==
    ASSUME IInv, NEW n \in Nodes,
           \/ TakeWake(n) \/ Drain(n) \/ Snapshot(n) \/ Plan(n) \/ FinishBatch(n)
           \/ \E skipped \in SUBSET Units : ReloadFails(n, skipped)
    PROVE  IInv'
  <1> USE DEF IInv
  <1>1. UNCHANGED <<save, loaded, liveVars>>
    BY DEF TakeWake, Drain, Snapshot, Plan, ReloadFails, FinishBatch
  <1>2. SaveState'
    BY <1>1 DEF SaveState
  <1>3. CASE TakeWake(n)
    BY <1>2, <1>3 DEF TakeWake, TypeOK, WorkState, WorkerStates, dbVars, busVars, liveVars, faultVars
  <1>4. CASE Drain(n)
    BY <1>2, <1>4 DEF Drain, TypeOK, WorkState, WorkerStates, dbVars, busVars, liveVars, faultVars
  <1>5. CASE Snapshot(n)
    <2>1. current' \in [Nodes -> Fingerprints]
      BY <1>5 DEF Snapshot, TypeOK, Fingerprints
    <2>2. incidents' \in 0..MaxIncidents
      BY <1>5, BoundsAssumption DEF Snapshot, Incident, TypeOK
    <2>3. TypeOK'
      BY <1>5, <2>1, <2>2 DEF Snapshot, TypeOK, WorkerStates, dbVars, busVars, dispVars, liveVars
    <2>4. WorkState'
      BY <1>5 DEF Snapshot, TypeOK, WorkState, busVars
    <2> QED
      BY <1>2, <2>3, <2>4
  <1>6. CASE Plan(n)
    <2>1. Forgotten(n) \in Fingerprints
      BY DEF Forgotten, TypeOK, Fingerprints
    <2>2. \A cur, base : Changed(cur, base) \subseteq Units
      BY DEF Changed
    <2>3. todo'[n] \subseteq Units
      BY <1>6, <2>2 DEF Plan, TypeOK
    <2>a. /\ worker' \in [Nodes -> WorkerStates] /\ forced' \in [Nodes -> BOOLEAN]
          /\ todo' \in [Nodes -> SUBSET Units]
      BY <1>6, <2>3 DEF Plan, TypeOK, WorkerStates
    <2>b. notes' \in [Nodes -> [Units -> Versions]] /\ applied' \in [Nodes -> Fingerprints]
      BY <1>6, <2>1 DEF Plan, TypeOK, Versions
    <2>4. TypeOK'
      BY <1>6, <2>a, <2>b DEF Plan, TypeOK, dbVars, busVars, dispVars, liveVars, faultVars
    <2>5. WorkState'
      BY <1>6 DEF Plan, TypeOK, WorkState, busVars, faultVars
    <2> QED
      BY <1>2, <2>4, <2>5
  <1>7. ASSUME NEW skipped \in SUBSET Units, ReloadFails(n, skipped) PROVE IInv'
    <2>1. TypeOK'
      BY <1>7, BoundsAssumption DEF ReloadFails, Incident, TypeOK, dbVars, busVars, dispVars, liveVars
    <2>2. WorkState'
      BY <1>7 DEF ReloadFails, TypeOK, WorkState, busVars
    <2> QED
      BY <1>2, <2>1, <2>2
  <1>8. CASE FinishBatch(n)
    <2>1. TypeOK'
      BY <1>8
      DEF FinishBatch, TypeOK, WorkerStates, Fingerprints, dbVars, busVars, dispVars, liveVars, faultVars
    <2>2. WorkState'
      BY <1>8 DEF FinishBatch, TypeOK, WorkState, busVars, faultVars
    <2> QED
      BY <1>2, <2>1, <2>2
  <1> QED
    BY <1>3, <1>4, <1>5, <1>6, <1>7, <1>8

(* The record of an installer p is exchanged for one of the right type.    *)
LEMMA LoadedTyped ==
    ASSUME TypeOK, NEW p \in Installers, NEW r, LoadedOK(r),
           loaded' = [loaded EXCEPT ![p] = r]
    PROVE  /\ DOMAIN loaded' = Installers
           /\ \A q \in Installers : LoadedOK(loaded'[q])
           /\ loaded'[p] = r
           /\ \A q \in Installers : q # p => loaded'[q] = loaded[q]
  <1>1. \A q \in Installers : LoadedOK(loaded[q])
    BY Typed
  <1>2. DOMAIN loaded = Installers
    BY DEF TypeOK
  <1>3. /\ DOMAIN loaded' = Installers
        /\ \A q \in Installers : loaded'[q] = IF q = p THEN r ELSE loaded[q]
    BY <1>2
  <1>4. ASSUME NEW q \in Installers PROVE LoadedOK(loaded'[q])
    <2>1. CASE q = p
      BY <1>3, <2>1
    <2>2. CASE q # p
      <3>1. loaded'[q] = loaded[q]
        BY <1>3, <2>2
      <3> QED
        BY <1>1, <3>1
    <2> QED
      BY <2>1, <2>2
  <1> QED
    BY <1>3, <1>4

(* Reloads, up to the installation.                                        *)
LEMMA ReloadSteps ==
    ASSUME IInv, NEW n \in Nodes,
           ReloadSystem(n) \/ (\E t \in Tenants : LoadTenant(n, t)) \/ InstallReload(n)
    PROVE  IInv'
  <1>0. n \in Installers /\ n \notin Admins
    BY AdminsAssumption DEF Installers
  <1>1. CASE ReloadSystem(n)
    <2> DEFINE l == [u \in UnitsOf(System) |-> IF u \in todo[n] THEN version[u] ELSE live[n][u]]
    <2>1. l \in [UnitsOf(System) -> Versions] /\ cache[n] \in [Units -> Versions]
      BY DEF IInv, TypeOK, UnitsOf
    <2>2. Serve(n, l, cache[n])
      BY <1>1 DEF ReloadSystem
    <2> HIDE DEF l
    <2>3. /\ live' \in [Nodes -> [UnitsOf(System) -> Versions]]
          /\ cache' \in [Nodes -> [Units -> Versions]] /\ undone' \in [Nodes -> BOOLEAN]
      BY <2>1, <2>2, ServeOK DEF IInv
    <2>4. LoadedOK(Built(System, Read(System)))
      BY ReadOK, BuiltOK DEF IInv, AllTenants
    <2>5. loaded' = [loaded EXCEPT ![n] = Built(System, Read(System))]
      BY <1>1 DEF ReloadSystem
    <2>6. /\ DOMAIN loaded' = Installers /\ \A q \in Installers : LoadedOK(loaded'[q])
          /\ \A q \in Installers : q # n => loaded'[q] = loaded[q]
      BY <1>0, <2>4, <2>5, LoadedTyped DEF IInv
    <2>7. TypeOK'
      BY <1>1, <2>3, <2>6
      DEF ReloadSystem, IInv, TypeOK, dbVars, busVars, dispVars, faultVars
    <2>a. loaded'[n].tenant = System
      BY <1>0, <2>4, <2>5, LoadedTyped, ReadOK, BuiltOK DEF IInv, AllTenants
    <2>8. SaveState' /\ WorkState'
      BY <1>0, <1>1, <2>6, <2>a DEF ReloadSystem, IInv, SaveState, WorkState, Installers, busVars, faultVars
    <2> QED
      BY <2>7, <2>8 DEF IInv
  <1>2. ASSUME NEW t \in Tenants, LoadTenant(n, t) PROVE IInv'
    <2>1. PICK result \in {Read(t), Empty(t)} :
              /\ Builds(t, result)
              /\ loaded' = [loaded EXCEPT ![n] = Built(t, result)]
              /\ healthy' = [healthy EXCEPT ![n] = @ /\ incidents' = incidents]
      BY <1>2 DEF LoadTenant
    <2>2. LoadedOK(Built(t, result))
      BY ReadOK, BuiltOK DEF IInv, AllTenants
    <2>3. /\ DOMAIN loaded' = Installers /\ \A q \in Installers : LoadedOK(loaded'[q])
          /\ \A q \in Installers : q # n => loaded'[q] = loaded[q]
      BY <1>0, <2>1, <2>2, LoadedTyped DEF IInv
    <2>4. incidents' \in 0..MaxIncidents
      BY <2>1, BoundsAssumption DEF Builds, Incident, IInv, TypeOK
    <2>5. /\ healthy' \in [Nodes -> BOOLEAN]
          /\ \A k \in Nodes : healthy'[k] => healthy[k]
      BY <2>1 DEF IInv, TypeOK
    <2>6. TypeOK'
      BY <1>2, <2>3, <2>4, <2>5
      DEF LoadTenant, IInv, TypeOK, dbVars, busVars, dispVars, liveVars
    <2>8. result \in [UnitsOf(t) -> Versions] /\ t \in AllTenants
      BY ReadOK DEF IInv, AllTenants
    <2>9. loaded'[n] = Built(t, result)
      BY <1>0, <2>1, <2>2, LoadedTyped DEF IInv
    <2>a. loaded'[n].tenant = t
      BY <2>8, <2>9, BuiltOK
    <2>7. SaveState' /\ WorkState'
      BY <1>0, <1>2, <2>3, <2>5, <2>a DEF LoadTenant, IInv, SaveState, WorkState, Installers, busVars
    <2> QED
      BY <2>6, <2>7 DEF IInv
  <1>3. CASE InstallReload(n)
    <2>1. StoreSet(n)
      BY <1>3 DEF InstallReload
    <2>2. /\ live' \in [Nodes -> [UnitsOf(System) -> Versions]]
          /\ cache' \in [Nodes -> [Units -> Versions]] /\ undone' \in [Nodes -> BOOLEAN]
      BY <1>0, <2>1, NewSetOK, ServeOK DEF IInv
    <2>3. loaded' = [loaded EXCEPT ![n] = Nil]
      BY <2>1 DEF StoreSet
    <2>4. /\ DOMAIN loaded' = Installers /\ \A q \in Installers : LoadedOK(loaded'[q])
          /\ \A q \in Installers : q # n => loaded'[q] = loaded[q]
          /\ loaded'[n] = Nil
      BY <1>0, <2>3, NilOK, LoadedTyped DEF IInv
    <2>5. TypeOK'
      BY <1>3, <2>2, <2>4
      DEF InstallReload, IInv, TypeOK, dbVars, busVars, dispVars, faultVars
    <2>6. SaveState' /\ WorkState'
      BY <1>0, <1>3, <2>4 DEF InstallReload, IInv, TypeOK, SaveState, WorkState, Installers, busVars, faultVars
    <2> QED
      BY <2>5, <2>6 DEF IInv
  <1> QED
    BY <1>1, <1>2, <1>3

(* SetConfigForTenant copies the set of snapshots.                         *)
LEMMA CopyStep ==
    ASSUME IInv, NEW p \in Installers, CopySet(p)
    PROVE  IInv'
  <1>1. loaded[p] # Nil /\ loaded' = [loaded EXCEPT ![p] = Copied(p)]
    BY DEF CopySet
  <1>2. /\ DOMAIN loaded' = Installers /\ \A q \in Installers : LoadedOK(loaded'[q])
        /\ \A q \in Installers : q # p => loaded'[q] = loaded[q]
        /\ loaded'[p] = Copied(p)
    BY <1>1, CopiedOK, LoadedTyped DEF IInv
  <1>3. /\ loaded'[p].tenant = loaded[p].tenant
        /\ loaded[p].tenant # System => loaded'[p].read = loaded[p].read
    BY <1>1, <1>2, CopiedOK
  <1>4. TypeOK'
    BY <1>2 DEF CopySet, IInv, TypeOK, dbVars, busVars, dispVars, liveVars, faultVars
  <1>5. SaveState'
    BY <1>1, <1>2, <1>3 DEF CopySet, IInv, SaveState, Installers
  <1>6. WorkState'
    BY <1>1, <1>2, <1>3 DEF CopySet, IInv, WorkState, Installers, busVars, faultVars
  <1> QED
    BY <1>4, <1>5, <1>6 DEF IInv
LEMMA IncidentOK ==
    ASSUME IInv, Incident
    PROVE  incidents' \in 0..MaxIncidents /\ incidents' # incidents
  <1>1. incidents \in 0..MaxIncidents
    BY DEF IInv, TypeOK
  <1> QED
    BY <1>1, BoundsAssumption DEF Incident

(* What a save in a state holds, one field at a time.                      *)
LEMMA SaveTyped ==
    ASSUME TypeOK, NEW a \in Admins, NEW s, SaveOK(s), save' = [save EXCEPT ![a] = s]
    PROVE  /\ DOMAIN save' = Admins
           /\ \A b \in Admins : SaveOK(save'[b])
           /\ save'[a] = s
           /\ \A b \in Admins : b # a => save'[b] = save[b]
  <1>1. \A b \in Admins : SaveOK(save[b])
    BY Typed
  <1>2. DOMAIN save = Admins
    BY DEF TypeOK
  <1>3. /\ DOMAIN save' = Admins
        /\ \A b \in Admins : save'[b] = IF b = a THEN s ELSE save[b]
    BY <1>2
  <1>4. ASSUME NEW b \in Admins PROVE SaveOK(save'[b])
    <2>1. CASE b = a
      BY <1>3, <2>1
    <2>2. CASE b # a
      <3>1. save'[b] = save[b]
        BY <1>3, <2>2
      <3> QED
        BY <1>1, <3>1
    <2> QED
      BY <2>1, <2>2
  <1> QED
    BY <1>3, <1>4

(* The request begins, with its copy of the stored value or without.       *)
LEMMA BeginSteps ==
    ASSUME IInv, NEW a \in Admins, NEW u \in Units, BeginSave(a, u) \/ BeginBlind(a, u)
    PROVE  /\ IInv'
           /\ save[a].st = "idle" /\ save'[a].st = "editing" /\ save'[a].unit = u
           /\ \A b \in Admins : b # a => save'[b] = save[b]
           /\ BeginSave(a, u) => /\ ~save'[a].blind
                                 /\ save'[a].doc = contents[u]
                                 /\ Unchecked = {} => save'[a].expected = version[u]
           /\ BeginBlind(a, u) => save'[a].blind
  <1>1. Read(Tenant[u]) \in [UnitsOf(Tenant[u]) -> Versions]
        /\ Empty(Tenant[u]) \in [UnitsOf(Tenant[u]) -> Versions]
    BY ReadOK DEF IInv
  <1>2. Tenant[u] \in AllTenants /\ u \in UnitsOf(Tenant[u]) /\ version[u] \in Versions
        /\ contents[u] \subseteq Versions
    BY UnitTenant DEF IInv, TypeOK
  <1>3. ASSUME NEW doc \in SUBSET Versions, NEW expected \in Versions \cup {AnyVersion},
               NEW blind \in BOOLEAN, NEW read \in [UnitsOf(Tenant[u]) -> Versions],
               save' = [save EXCEPT ![a] = Editing(u, expected, doc, read, blind)],
               save[a].st = "idle", incidents' \in 0..MaxIncidents,
               UNCHANGED <<dbVars, busVars, dispVars, workVars, notes, liveVars, healthy>>
        PROVE  /\ IInv'
               /\ save'[a].st = "editing" /\ save'[a].unit = u
               /\ save'[a].blind = blind /\ save'[a].doc = doc /\ save'[a].expected = expected
               /\ \A b \in Admins : b # a => save'[b] = save[b]
    <2> DEFINE s == Editing(u, expected, doc, read, blind)
    <2>1. SaveOK(s)
      BY <1>2, <1>3 DEF SaveOK, SaveStates, Editing
    <2>2. s.st = "editing" /\ s.unit = u /\ s.read = read /\ s.blind = blind /\ s.doc = doc
          /\ s.expected = expected
      BY DEF Editing
    <2>3. save' = [save EXCEPT ![a] = s]
      BY <1>3
    <2> HIDE DEF s
    <2>4. /\ DOMAIN save' = Admins
          /\ \A b \in Admins : SaveOK(save'[b])
          /\ save'[a] = s
          /\ \A b \in Admins : b # a => save'[b] = save[b]
      BY <2>1, <2>3, SaveTyped DEF IInv
    <2>5. TypeOK'
      BY <1>3, <2>4 DEF IInv, TypeOK, dbVars, busVars, dispVars, workVars, liveVars
    <2>6. loaded' = loaded /\ loaded[a] = Nil
      BY <1>3 DEF IInv, SaveState, workVars
    <2>7. SaveState'
      BY <1>3, <2>2, <2>4, <2>6 DEF IInv, SaveState
    <2>8. WorkState'
      BY <1>3 DEF IInv, WorkState, busVars, workVars
    <2> QED
      BY <2>2, <2>4, <2>5, <2>7, <2>8 DEF IInv
  <1>4. CASE BeginSave(a, u)
    <2>1. save[a].st = "idle" /\ incidents' \in 0..MaxIncidents
          /\ UNCHANGED <<dbVars, busVars, dispVars, workVars, notes, liveVars, healthy>>
      BY <1>4 DEF BeginSave, IInv, TypeOK, faultVars
    <2>2. PICK expected \in Versions \cup {AnyVersion} :
              expected = IF a \in Unchecked THEN AnyVersion ELSE version[u]
      BY <1>2
    <2>3. save' = [save EXCEPT ![a] = Editing(u, expected, contents[u], Read(Tenant[u]), FALSE)]
      BY <1>4, <2>2 DEF BeginSave
    <2>4. /\ IInv'
          /\ save'[a].st = "editing" /\ save'[a].unit = u
          /\ save'[a].blind = FALSE /\ save'[a].doc = contents[u] /\ save'[a].expected = expected
          /\ \A b \in Admins : b # a => save'[b] = save[b]
      BY <1>1, <1>2, <1>3, <2>1, <2>3
    <2>5. ~BeginBlind(a, u) \/ incidents' # incidents
      BY IncidentOK DEF BeginBlind
    <2>6. incidents' = incidents
      BY <1>4 DEF BeginSave, faultVars
    <2> QED
      BY <2>1, <2>2, <2>4, <2>5, <2>6
  <1>5. CASE BeginBlind(a, u)
    <2>1. /\ save[a].st = "idle"
          /\ UNCHANGED <<dbVars, busVars, dispVars, workVars, notes, liveVars, healthy>>
      BY <1>5 DEF BeginBlind
    <2>2. incidents' \in 0..MaxIncidents /\ incidents' # incidents
      BY <1>5, IncidentOK DEF BeginBlind
    <2>3. PICK v \in Unread(a, u), expected \in {0, version[u]} :
              save' = [save EXCEPT ![a] = Editing(u, expected, Older(u, v), Empty(Tenant[u]), TRUE)]
      BY <1>5 DEF BeginBlind
    <2>4. Older(u, v) \in SUBSET Versions /\ expected \in Versions \cup {AnyVersion}
      BY <1>2 DEF Older, Versions
    <2>6. /\ IInv'
          /\ save'[a].st = "editing" /\ save'[a].unit = u /\ save'[a].blind = TRUE
          /\ \A b \in Admins : b # a => save'[b] = save[b]
      BY <1>1, <1>3, <2>1, <2>2, <2>3, <2>4
    <2>7. BeginSave(a, u) => incidents' = incidents
      BY DEF BeginSave, faultVars
    <2> QED
      BY <2>1, <2>2, <2>6, <2>7
  <1> QED
    BY <1>4, <1>5
(* A save stores its unit.                                                 *)
LEMMA StoredOK ==
    ASSUME IInv, NEW a \in Admins, Stored(a)
    PROVE  /\ save[a].unit \in Units /\ save[a].unit \in UnitsOf(Tenant[save[a].unit])
           /\ save[a].st = "editing"
           /\ version' \in [Units -> Versions] /\ contents' \in [Units -> SUBSET Versions]
           /\ misread' \subseteq Units
           /\ inbox' \in [Nodes -> Seq(Units \cup {Joined})]
           /\ version'[save[a].unit] = version[save[a].unit] + 1
           /\ contents'[save[a].unit] = save[a].doc \cup {version[save[a].unit] + 1}
           /\ \A u \in Units : u # save[a].unit =>
                 version'[u] = version[u] /\ contents'[u] = contents[u]
           /\ misread' = IF save[a].blind THEN misread \cup {save[a].unit} ELSE misread
           /\ \A u \in Units : version'[u] >= version[u]
  <1> DEFINE u == save[a].unit
             v == version[u] + 1
  <1>1. u \in Units /\ u \in UnitsOf(Tenant[u]) /\ save[a].st = "editing"
    BY UnitTenant DEF Stored, IInv, SaveState
  <1>2. version[u] \in Nat /\ v \in Versions
    BY <1>1 DEF IInv, TypeOK, Versions
  <1>3. save[a].doc \in SUBSET Versions
    BY Typed, SaveFields DEF IInv
  <1>4. /\ version' = [version EXCEPT ![u] = v]
        /\ contents' = [contents EXCEPT ![u] = save[a].doc \cup {v}]
        /\ misread' = IF save[a].blind THEN misread \cup {u} ELSE misread
        /\ inbox' = Notified(Home[a], u)
    BY DEF Stored
  <1>5. inbox' \in [Nodes -> Seq(Units \cup {Joined})]
    BY <1>1, <1>4, NotifiedType DEF IInv
  <1>6. version \in [Units -> Versions] /\ contents \in [Units -> SUBSET Versions]
        /\ misread \subseteq Units
    BY DEF IInv, TypeOK
  <1> HIDE DEF u, v
  <1>7. /\ version' \in [Units -> Versions] /\ contents' \in [Units -> SUBSET Versions]
        /\ misread' \subseteq Units /\ version'[u] = v /\ contents'[u] = save[a].doc \cup {v}
        /\ \A w \in Units : w # u => version'[w] = version[w] /\ contents'[w] = contents[w]
    BY <1>1, <1>2, <1>3, <1>4, <1>6
  <1>8. \A w \in Units : version'[w] >= version[w]
    BY <1>2, <1>6, <1>7 DEF v, Versions
  <1> QED
    BY <1>1, <1>4, <1>5, <1>7, <1>8 DEF u, v

(* The request goes on to s, and installs nothing yet.                     *)
LEMMA SaveMoves ==
    ASSUME IInv, NEW a \in Admins, NEW s, SaveOK(s), save' = [save EXCEPT ![a] = s],
           loaded[a] = Nil, UNCHANGED loaded,
           s.st \in {"idle", "committed", "hook", "hooked"},
           s.st # "idle" => s.unit \in Units /\ Home[a] \in Nodes,
           s.st = "committed" => s.read \in [UnitsOf(Tenant[s.unit]) -> Versions],
           s.st \in {"hook", "hooked"} => Tenant[s.unit] = System
    PROVE  /\ SaveState' /\ DOMAIN save' = Admins
           /\ \A b \in Admins : SaveOK(save'[b])
           /\ save'[a] = s
           /\ \A b \in Admins : b # a => save'[b] = save[b]
  <1>1. /\ DOMAIN save' = Admins
        /\ \A b \in Admins : SaveOK(save'[b])
        /\ save'[a] = s
        /\ \A b \in Admins : b # a => save'[b] = save[b]
    BY SaveTyped DEF IInv
  <1>2. SaveState'
    BY <1>1 DEF IInv, SaveState
  <1> QED
    BY <1>1, <1>2

(* It starts an installation.                                              *)
LEMMA SaveInstalls ==
    ASSUME IInv, NEW a \in Admins, NEW s, SaveOK(s), save' = [save EXCEPT ![a] = s],
           NEW t \in AllTenants, NEW r \in [UnitsOf(t) -> Versions],
           loaded' = [loaded EXCEPT ![a] = Built(t, r)],
           s.unit \in Units, Home[a] \in Nodes,
           \/ /\ s.st = "adopting" /\ t = Tenant[s.unit] /\ r = s.read
           \/ s.st \in {"syncing", "closing"} /\ Tenant[s.unit] = System
    PROVE  /\ SaveState' /\ DOMAIN save' = Admins /\ DOMAIN loaded' = Installers
           /\ \A b \in Admins : SaveOK(save'[b])
           /\ \A q \in Installers : LoadedOK(loaded'[q])
           /\ \A q \in Installers : q # a => loaded'[q] = loaded[q]
           /\ loaded'[a] = Built(t, r)
           /\ save'[a] = s
           /\ \A b \in Admins : b # a => save'[b] = save[b]
  <1>1. /\ DOMAIN save' = Admins
        /\ \A b \in Admins : SaveOK(save'[b])
        /\ save'[a] = s
        /\ \A b \in Admins : b # a => save'[b] = save[b]
    BY SaveTyped DEF IInv
  <1>2. /\ DOMAIN loaded' = Installers
        /\ \A q \in Installers : LoadedOK(loaded'[q])
        /\ \A q \in Installers : q # a => loaded'[q] = loaded[q]
        /\ loaded'[a] = Built(t, r)
    BY BuiltOK, LoadedTyped DEF IInv, Installers
  <1>3. loaded'[a].tenant = t /\ loaded'[a].read = r
    BY <1>2, BuiltOK
  <1>4. SaveState'
    BY <1>1, <1>2, <1>3 DEF IInv, SaveState, Installers
  <1> QED
    BY <1>1, <1>2, <1>4
LEMMA SaveSteps ==
    ASSUME IInv, NEW a \in Admins,
           \/ Commit(a) \/ CommitUnseen(a) \/ SaveFails(a) \/ Adopt(a) \/ InstallSave(a)
           \/ HookRead(a) \/ HookApply(a) \/ HookEnds(a)
           \/ \E t \in Tenants : SyncTenant(a, t)
    PROVE  IInv'
  <1>0. /\ SaveOK(save[a]) /\ a \in Installers
        /\ save[a].st \in SaveStates /\ save[a].doc \in SUBSET Versions
        /\ save[a].expected \in Versions \cup {AnyVersion} /\ save[a].blind \in BOOLEAN
        /\ save[a].left \in SUBSET Tenants
        /\ save[a] = [st |-> save[a].st, unit |-> save[a].unit, doc |-> save[a].doc,
                      expected |-> save[a].expected, blind |-> save[a].blind,
                      read |-> save[a].read, left |-> save[a].left]
        /\ loaded[a] # Nil => save[a].st \in {"adopting", "syncing", "closing"}
        /\ NoSave.st = "idle"
    BY Typed, SaveFields DEF IInv, Installers, SaveState, NoSave
  <1>1. CASE Commit(a)
    <2> DEFINE u == save[a].unit
               s == IF Home[a] \in Nodes
                    THEN [save[a] EXCEPT !.st = "committed", !.read[u] = version'[u], !.doc = {}]
                    ELSE NoSave
    <2>1. Stored(a) /\ save' = [save EXCEPT ![a] = s]
      BY <1>1 DEF Commit
    <2>2. /\ u \in Units /\ u \in UnitsOf(Tenant[u]) /\ save[a].st = "editing"
          /\ version' \in [Units -> Versions] /\ contents' \in [Units -> SUBSET Versions]
          /\ misread' \subseteq Units /\ inbox' \in [Nodes -> Seq(Units \cup {Joined})]
      BY <2>1, StoredOK
    <2>3. save[a].read \in [UnitsOf(Tenant[u]) -> Versions] /\ Tenant[u] \in AllTenants
      BY <2>2, UnitTenant DEF IInv, SaveState
    <2>6. /\ SaveOK(s) /\ s.st \in {"idle", "committed"}
          /\ s.st # "idle" => s.unit \in Units /\ Home[a] \in Nodes
          /\ s.st = "committed" => s.read \in [UnitsOf(Tenant[s.unit]) -> Versions]
      <3>1. CASE Home[a] \in Nodes
        <4>1. s = [save[a] EXCEPT !.st = "committed", !.read = [save[a].read EXCEPT ![u] = version'[u]],
                                  !.doc = {}]
          BY <3>1
        <4>2. [save[a].read EXCEPT ![u] = version'[u]] \in [UnitsOf(Tenant[u]) -> Versions]
          BY <2>2, <2>3
        <4>3. s = [st |-> "committed", unit |-> u, doc |-> {}, expected |-> save[a].expected,
                   blind |-> save[a].blind, read |-> [save[a].read EXCEPT ![u] = version'[u]],
                   left |-> save[a].left]
          BY <1>0, <4>1
        <4> DEFINE r == [save[a].read EXCEPT ![u] = version'[u]]
        <4> HIDE DEF r
        <4>a. SaveOK([st |-> "committed", unit |-> u, doc |-> {}, expected |-> save[a].expected,
                      blind |-> save[a].blind, read |-> r, left |-> save[a].left])
          BY <1>0, <2>2, <2>3, <4>2 DEF SaveOK, SaveStates, r
        <4>4. SaveOK(s)
          BY <4>3, <4>a DEF r
        <4>5. s.st = "committed" /\ s.unit = u /\ s.read \in [UnitsOf(Tenant[u]) -> Versions]
          BY <4>2, <4>3
        <4> QED
          BY <2>2, <3>1, <4>4, <4>5
      <3>2. CASE Home[a] \notin Nodes
        BY <1>0, <3>2, NoSaveOK
      <3> QED
        BY <3>1, <3>2
    <2>7. loaded' = loaded /\ loaded[a] = Nil
      BY <1>0, <1>1, <2>2 DEF Commit, workVars
    <2> HIDE DEF s
    <2>8. /\ SaveState' /\ DOMAIN save' = Admins /\ \A b \in Admins : SaveOK(save'[b])
      BY <2>1, <2>6, <2>7, SaveMoves
    <2>9. notes' \in [Nodes -> [Units -> Versions]]
      BY <1>1, <2>2 DEF Commit, IInv, TypeOK
    <2>10. TypeOK'
      BY <1>1, <2>2, <2>8, <2>9 DEF Commit, IInv, TypeOK, dispVars, workVars, liveVars, faultVars
    <2>11. WorkState'
      BY <1>1 DEF Commit, IInv, WorkState, workVars, faultVars
    <2> QED
      BY <2>8, <2>10, <2>11 DEF IInv
  <1>2. CASE CommitUnseen(a)
    <2>1. Stored(a) /\ Incident
      BY <1>2 DEF CommitUnseen
    <2>2. /\ save[a].st = "editing"
          /\ version' \in [Units -> Versions] /\ contents' \in [Units -> SUBSET Versions]
          /\ misread' \subseteq Units /\ inbox' \in [Nodes -> Seq(Units \cup {Joined})]
      BY <2>1, StoredOK
    <2>3. loaded' = loaded /\ loaded[a] = Nil
      BY <1>0, <1>2, <2>2 DEF CommitUnseen, workVars
    <2>4. /\ SaveState' /\ DOMAIN save' = Admins /\ \A b \in Admins : SaveOK(save'[b])
      BY <1>0, <1>2, <2>3, NoSaveOK, SaveMoves DEF CommitUnseen
    <2>5. incidents' \in 0..MaxIncidents
      BY <2>1, IncidentOK
    <2>6. healthy' \in [Nodes -> BOOLEAN] /\ \A k \in Nodes : healthy'[k] => healthy[k]
      BY <1>2 DEF CommitUnseen, IInv, TypeOK
    <2>7. TypeOK'
      BY <1>2, <2>2, <2>4, <2>5, <2>6 DEF CommitUnseen, IInv, TypeOK, dispVars, workVars, liveVars
    <2>8. WorkState'
      BY <1>2, <2>6 DEF CommitUnseen, IInv, WorkState, workVars
    <2> QED
      BY <2>4, <2>7, <2>8 DEF IInv
  <1>3. CASE SaveFails(a)
    <2>1. loaded' = loaded /\ loaded[a] = Nil
      BY <1>0, <1>3 DEF SaveFails, workVars
    <2>2. /\ SaveState' /\ DOMAIN save' = Admins /\ \A b \in Admins : SaveOK(save'[b])
      BY <1>0, <1>3, <2>1, NoSaveOK, SaveMoves DEF SaveFails
    <2>3. TypeOK'
      BY <1>3, <2>2 DEF SaveFails, IInv, TypeOK, dbVars, busVars, dispVars, workVars, liveVars, faultVars
    <2>4. WorkState'
      BY <1>3 DEF SaveFails, IInv, WorkState, busVars, workVars, faultVars
    <2> QED
      BY <2>2, <2>3, <2>4 DEF IInv
  <1>4. CASE Adopt(a)
    <2> DEFINE n == Home[a]
               u == save[a].unit
               s == [save[a] EXCEPT !.st = "adopting"]
               l == [w \in UnitsOf(System) |-> IF w = u THEN save[a].read[u] ELSE live[n][w]]
    <2>1. /\ n \in Nodes /\ u \in Units /\ u \in UnitsOf(Tenant[u]) /\ Tenant[u] \in AllTenants
          /\ save[a].read \in [UnitsOf(Tenant[u]) -> Versions]
      BY <1>4, UnitTenant DEF Adopt, IInv, SaveState
    <2>2. l \in [UnitsOf(System) -> Versions] /\ cache[n] \in [Units -> Versions]
      BY <2>1 DEF IInv, TypeOK
    <2>3. Serve(n, l, cache[n])
      BY <1>4 DEF Adopt
    <2>4. s = [st |-> "adopting", unit |-> u, doc |-> save[a].doc, expected |-> save[a].expected,
               blind |-> save[a].blind, read |-> save[a].read, left |-> save[a].left]
      BY <1>0
    <2>5. SaveOK(s)
      BY <1>0, <2>1, <2>4 DEF SaveOK, SaveStates
    <2>6. s.st = "adopting" /\ s.unit = u /\ s.read = save[a].read
      BY <2>4
    <2>7. save' = [save EXCEPT ![a] = s] /\ loaded' = [loaded EXCEPT ![a] = Built(Tenant[u], save[a].read)]
      BY <1>4 DEF Adopt
    <2> HIDE DEF s, l
    <2>8. /\ SaveState' /\ DOMAIN save' = Admins /\ DOMAIN loaded' = Installers
          /\ \A b \in Admins : SaveOK(save'[b])
          /\ \A q \in Installers : LoadedOK(loaded'[q])
          /\ \A q \in Installers : q # a => loaded'[q] = loaded[q]
      BY <2>1, <2>5, <2>6, <2>7, SaveInstalls
    <2>9. /\ live' \in [Nodes -> [UnitsOf(System) -> Versions]]
          /\ cache' \in [Nodes -> [Units -> Versions]] /\ undone' \in [Nodes -> BOOLEAN]
      BY <2>1, <2>2, <2>3, ServeOK DEF IInv
    <2>10. TypeOK'
      BY <1>4, <2>8, <2>9 DEF Adopt, IInv, TypeOK, dbVars, busVars, dispVars, faultVars
    <2>11. WorkState'
      BY <1>4, <2>8, AdminsAssumption DEF Adopt, IInv, WorkState, Installers, busVars, faultVars
    <2> QED
      BY <2>8, <2>10, <2>11 DEF IInv
  <1>5. CASE InstallSave(a)
    <2> DEFINE s == IF save[a].st = "closing" \/ Tenant[save[a].unit] # System THEN NoSave
                    ELSE IF save[a].st = "adopting" THEN [save[a] EXCEPT !.st = "hook"] ELSE save[a]
    <2>1. StoreSet(a) /\ save' = [save EXCEPT ![a] = s]
      BY <1>5 DEF InstallSave
    <2>2. /\ live' \in [Nodes -> [UnitsOf(System) -> Versions]]
          /\ cache' \in [Nodes -> [Units -> Versions]] /\ undone' \in [Nodes -> BOOLEAN]
      BY <1>0, <2>1, NewSetOK, ServeOK DEF IInv
    <2>3. loaded' = [loaded EXCEPT ![a] = Nil] /\ loaded[a] # Nil
      BY <2>1 DEF StoreSet
    <2>4. /\ DOMAIN loaded' = Installers /\ \A q \in Installers : LoadedOK(loaded'[q])
          /\ \A q \in Installers : q # a => loaded'[q] = loaded[q]
          /\ loaded'[a] = Nil
      BY <1>0, <2>3, NilOK, LoadedTyped DEF IInv
    <2>5. save[a].st \in {"adopting", "syncing", "closing"} /\ Home[a] \in Nodes
          /\ save[a].unit \in Units
      BY <1>0, <2>3 DEF IInv, SaveState
    <2>6. [save[a] EXCEPT !.st = "hook"] =
              [st |-> "hook", unit |-> save[a].unit, doc |-> save[a].doc,
               expected |-> save[a].expected, blind |-> save[a].blind,
               read |-> save[a].read, left |-> save[a].left]
      BY <1>0
    <2>7. SaveOK([save[a] EXCEPT !.st = "hook"])
      <3>1. PICK t \in AllTenants :
              save[a] \in [st : SaveStates, unit : UnitsOf(t) \cup {Nil}, doc : SUBSET Versions,
                           expected : Versions \cup {AnyVersion}, blind : BOOLEAN,
                           read : [UnitsOf(t) -> Versions] \cup {Nil}, left : SUBSET Tenants]
        BY <1>0 DEF SaveOK
      <3> QED
        BY <2>6, <3>1 DEF SaveOK, SaveStates
    <2>8. /\ SaveOK(s)
          /\ s.st \in {"idle", "hook", "syncing"}
          /\ s.st # "idle" => s.unit \in Units /\ Tenant[s.unit] = System
      BY <1>0, <2>5, <2>6, <2>7, NoSaveOK
    <2> HIDE DEF s
    <2>9. /\ DOMAIN save' = Admins
          /\ \A b \in Admins : SaveOK(save'[b])
          /\ save'[a] = s
          /\ \A b \in Admins : b # a => save'[b] = save[b]
      BY <2>1, <2>8, SaveTyped DEF IInv
    <2>10. SaveState'
      BY <2>4, <2>5, <2>8, <2>9 DEF IInv, SaveState, Installers
    <2>11. TypeOK'
      BY <1>5, <2>2, <2>4, <2>9 DEF InstallSave, IInv, TypeOK, dbVars, busVars, dispVars, faultVars
    <2>12. WorkState'
      BY <1>5, <2>4, AdminsAssumption DEF InstallSave, IInv, WorkState, Installers, busVars, faultVars
    <2> QED
      BY <2>10, <2>11, <2>12 DEF IInv
  <1>6. CASE HookRead(a)
    <2>1. PICK r \in {Read(System), Nil} : save' = [save EXCEPT ![a].st = "hooked", ![a].read = r]
      BY <1>6 DEF HookRead
    <2>2. save[a].st = "hook" /\ save[a].unit \in Units /\ Home[a] \in Nodes
          /\ Tenant[save[a].unit] = System /\ save[a].unit \in UnitsOf(System)
      BY <1>6, UnitTenant DEF HookRead, IInv, SaveState
    <2> DEFINE s == [save[a] EXCEPT !.st = "hooked", !.read = r]
    <2>4. save' = [save EXCEPT ![a] = s]
      BY <1>0, <2>1 DEF IInv, TypeOK
    <2>5. r \in [UnitsOf(System) -> Versions] \cup {Nil} /\ "hooked" \in SaveStates
      BY ReadOK DEF IInv, SaveStates
    <2>6. SaveOK(s) /\ s.st = "hooked" /\ s.unit = save[a].unit
      BY <1>0, <2>2, <2>5, TwoFields
    <2> HIDE DEF s
    <2>7. loaded' = loaded /\ loaded[a] = Nil
      BY <1>0, <1>6, <2>2 DEF HookRead, workVars
    <2>8. /\ SaveState' /\ DOMAIN save' = Admins /\ \A b \in Admins : SaveOK(save'[b])
      BY <2>2, <2>4, <2>6, <2>7, SaveMoves
    <2>9. incidents' \in 0..MaxIncidents
      BY <1>6, IncidentOK DEF HookRead, IInv, TypeOK
    <2>10. TypeOK'
      BY <1>6, <2>8, <2>9 DEF HookRead, IInv, TypeOK, dbVars, busVars, dispVars, workVars, liveVars
    <2>11. WorkState'
      BY <1>6 DEF HookRead, IInv, WorkState, busVars, workVars
    <2> QED
      BY <2>8, <2>10, <2>11 DEF IInv
  <1>7. CASE HookApply(a)
    <2> DEFINE n == Home[a]
               l == IF save[a].read = Nil THEN live[n] ELSE save[a].read
    <2>1. /\ n \in Nodes /\ save[a].unit \in Units /\ Tenant[save[a].unit] = System
          /\ save[a].unit \in UnitsOf(System) /\ save[a].st = "hooked"
      BY <1>7, UnitTenant DEF HookApply, IInv, SaveState
    <2>2. save[a].read \in [UnitsOf(System) -> Versions] \cup {Nil}
      BY <1>7, <2>1, ReadType DEF IInv
    <2>3. l \in [UnitsOf(System) -> Versions] /\ cache[n] \in [Units -> Versions]
      BY <2>1, <2>2 DEF IInv, TypeOK
    <2>4. Serve(n, l, cache[n])
      BY <1>7 DEF HookApply
    <2>5. PICK left \in SUBSET Tenants :
              save' = [save EXCEPT ![a] = [save[a] EXCEPT !.st = "syncing", !.left = left]]
      <3>1. CASE save' = [save EXCEPT ![a].st = "syncing", ![a].left = Tenants]
        BY <1>0, <3>1 DEF IInv, TypeOK
      <3>2. CASE save' = [save EXCEPT ![a].st = "syncing"]
        <4>1. [save[a] EXCEPT !.st = "syncing"] = [save[a] EXCEPT !.st = "syncing", !.left = save[a].left]
          BY <1>0
        <4> QED
          BY <1>0, <3>2, <4>1
      <3> QED
        BY <1>7, <3>1, <3>2 DEF HookApply
    <2> DEFINE s == [save[a] EXCEPT !.st = "syncing", !.left = left]
    <2>7. save' = [save EXCEPT ![a] = s]
      BY <2>5
    <2>6. "syncing" \in SaveStates
      BY DEF SaveStates
    <2>8. SaveOK(s) /\ s.st = "syncing" /\ s.unit = save[a].unit
      BY <1>0, <2>1, <2>2, <2>6, TwoFields
    <2> HIDE DEF s, l
    <2>9. loaded' = [loaded EXCEPT ![a] = Built(System, Read(System))]
      BY <1>7 DEF HookApply
    <2>10. /\ SaveState' /\ DOMAIN save' = Admins /\ DOMAIN loaded' = Installers
           /\ \A b \in Admins : SaveOK(save'[b])
           /\ \A q \in Installers : LoadedOK(loaded'[q])
           /\ \A q \in Installers : q # a => loaded'[q] = loaded[q]
      BY <2>1, <2>7, <2>8, <2>9, SystemRead, SaveInstalls
    <2>11. /\ live' \in [Nodes -> [UnitsOf(System) -> Versions]]
           /\ cache' \in [Nodes -> [Units -> Versions]] /\ undone' \in [Nodes -> BOOLEAN]
      BY <2>1, <2>3, <2>4, ServeOK DEF IInv
    <2>12. incidents' \in 0..MaxIncidents
      BY <1>7, IncidentOK DEF HookApply, IInv, TypeOK
    <2>13. TypeOK'
      BY <1>7, <2>10, <2>11, <2>12 DEF HookApply, IInv, TypeOK, dbVars, busVars, dispVars
    <2>14. WorkState'
      BY <1>7, <2>10, AdminsAssumption DEF HookApply, IInv, WorkState, Installers, busVars
    <2> QED
      BY <2>10, <2>13, <2>14 DEF IInv
  <1>8. ASSUME NEW t \in Tenants, SyncTenant(a, t) PROVE IInv'
    <2>1. PICK result \in {Read(t), Empty(t)} :
              Builds(t, result) /\ loaded' = [loaded EXCEPT ![a] = Built(t, result)]
      BY <1>8 DEF SyncTenant
    <2>2. /\ save[a].st = "syncing" /\ save[a].unit \in Units /\ Home[a] \in Nodes
          /\ Tenant[save[a].unit] = System /\ save[a].unit \in UnitsOf(System)
      BY <1>8, UnitTenant DEF SyncTenant, IInv, SaveState
    <2>3. save[a].read \in [UnitsOf(System) -> Versions] \cup {Nil}
      BY <2>2, ReadType DEF IInv
    <2> DEFINE s == [st |-> "syncing", unit |-> save[a].unit, doc |-> save[a].doc,
                     expected |-> save[a].expected, blind |-> save[a].blind,
                     read |-> save[a].read, left |-> save[a].left \ {t}]
    <2>4. [save[a] EXCEPT !.left = save[a].left \ {t}] = s
      BY <1>0, <2>2
    <2>5. save' = [save EXCEPT ![a] = s]
      BY <1>8, <2>4 DEF SyncTenant
    <2>6. SaveOK(s) /\ s.st = "syncing" /\ s.unit = save[a].unit
      BY <1>0, <2>2, <2>3 DEF SaveOK, SaveStates, AllTenants
    <2> HIDE DEF s
    <2>7. result \in [UnitsOf(t) -> Versions] /\ t \in AllTenants
      BY ReadOK DEF IInv, AllTenants
    <2>8. /\ SaveState' /\ DOMAIN save' = Admins /\ DOMAIN loaded' = Installers
          /\ \A b \in Admins : SaveOK(save'[b])
          /\ \A q \in Installers : LoadedOK(loaded'[q])
          /\ \A q \in Installers : q # a => loaded'[q] = loaded[q]
      BY <2>1, <2>2, <2>5, <2>6, <2>7, SaveInstalls
    <2>9. incidents' \in 0..MaxIncidents
      BY <2>1, IncidentOK DEF Builds, IInv, TypeOK
    <2>10. TypeOK'
      BY <1>8, <2>8, <2>9 DEF SyncTenant, IInv, TypeOK, dbVars, busVars, dispVars, liveVars
    <2>11. WorkState'
      BY <1>8, <2>8, AdminsAssumption DEF SyncTenant, IInv, WorkState, Installers, busVars
    <2> QED
      BY <2>8, <2>10, <2>11 DEF IInv
  <1>9. CASE HookEnds(a)
    <2>1. /\ save[a].st = "syncing" /\ save[a].unit \in Units /\ Home[a] \in Nodes
          /\ Tenant[save[a].unit] = System /\ save[a].unit \in UnitsOf(System)
      BY <1>9, UnitTenant DEF HookEnds, IInv, SaveState
    <2>2. save[a].read \in [UnitsOf(System) -> Versions] \cup {Nil}
      BY <2>1, ReadType DEF IInv
    <2> DEFINE s == [st |-> "closing", unit |-> save[a].unit, doc |-> save[a].doc,
                     expected |-> save[a].expected, blind |-> save[a].blind,
                     read |-> save[a].read, left |-> save[a].left]
    <2>3. [save[a] EXCEPT !.st = "closing"] = s
      BY <1>0
    <2>4. save' = [save EXCEPT ![a] = s]
      BY <1>9, <2>3 DEF HookEnds
    <2>5. SaveOK(s) /\ s.st = "closing" /\ s.unit = save[a].unit
      BY <1>0, <2>1, <2>2 DEF SaveOK, SaveStates, AllTenants
    <2> HIDE DEF s
    <2>6. loaded' = [loaded EXCEPT ![a] = Built(System, Read(System))]
      BY <1>9 DEF HookEnds
    <2>7. /\ SaveState' /\ DOMAIN save' = Admins /\ DOMAIN loaded' = Installers
          /\ \A b \in Admins : SaveOK(save'[b])
          /\ \A q \in Installers : LoadedOK(loaded'[q])
          /\ \A q \in Installers : q # a => loaded'[q] = loaded[q]
      BY <2>1, <2>4, <2>5, <2>6, SystemRead, SaveInstalls
    <2>8. TypeOK'
      BY <1>9, <2>7 DEF HookEnds, IInv, TypeOK, dbVars, busVars, dispVars, liveVars, faultVars
    <2>9. WorkState'
      BY <1>9, <2>7, AdminsAssumption DEF HookEnds, IInv, WorkState, Installers, busVars, faultVars
    <2> QED
      BY <2>7, <2>8, <2>9 DEF IInv
  <1> QED
    BY <1>1, <1>2, <1>3, <1>4, <1>5, <1>6, <1>7, <1>8, <1>9

LEMMA StutterIInv == IInv /\ UNCHANGED vars => IInv'
  BY DEF IInv, TypeOK, SaveState, WorkState, vars, dbVars, busVars, dispVars, workVars, liveVars, faultVars

LEMMA NextIInv == IInv /\ [Next]_vars => IInv'
  <1> SUFFICES ASSUME IInv, [Next]_vars PROVE IInv'
      OBVIOUS
  <1>1. ASSUME PeerJoins PROVE IInv'
    <2>1. CASE Nodes = {}
      BY <1>1, <2>1, BoundsAssumption
      DEF PeerJoins, Notified, Incident, IInv, TypeOK, SaveState, WorkState, dbVars, dispVars, workVars, liveVars
    <2>2. CASE \E n \in Nodes : TRUE
      BY <1>1, <2>2, BusSteps
    <2> QED
      BY <2>1, <2>2
  <1>2. ASSUME NEW n \in Nodes, WorkerStep(n) PROVE IInv'
    <2>1. n \in Installers
      BY DEF Installers
    <2> QED
      BY <1>2, <2>1, WorkerSteps, ReloadSteps, CopyStep DEF WorkerStep
  <1>3. ASSUME NEW a \in Admins, SaveStep(a) PROVE IInv'
    <2>1. a \in Installers
      BY DEF Installers
    <2> QED
      BY <1>3, <2>1, SaveSteps, CopyStep DEF SaveStep
  <1>4. ASSUME NEW a \in Admins, NEW u \in Units, BeginSave(a, u) \/ BeginBlind(a, u) PROVE IInv'
    BY <1>4, BeginSteps
  <1>5. ASSUME NEW n \in Nodes, Receive(n) \/ Disconnect(n) \/ Reconnect(n) PROVE IInv'
    BY <1>5, BusSteps
  <1> QED
    BY <1>1, <1>2, <1>3, <1>4, <1>5, StutterIInv DEF Next

(* The rows, the bus, the dispatcher and the saves keep their types, and   *)
(* what the dispatcher or a save has half done belongs to its batch or its *)
(* request.                                                                *)
THEOREM InductiveInvariant == Spec => []IInv
  BY InitIInv, NextIInv, PTL DEF Spec

(* The type invariant of ConfigSync.                                       *)
THEOREM TypeCorrect == Spec => []TypeOK
  <1>1. IInv => TypeOK
    BY DEF IInv
  <1> QED
    BY <1>1, InductiveInvariant, PTL
-----------------------------------------------------------------------------
(* What a step does to the saves of other administrators and to the        *)
(* database.                                                               *)

NodeStep(n) ==
    Receive(n) \/ Disconnect(n) \/ Reconnect(n) \/ WorkerStep(n)

LEMMA NodeKeeps ==
    ASSUME NEW n \in Nodes, NodeStep(n) \/ PeerJoins
    PROVE  UNCHANGED <<dbVars, save>>
  BY DEF NodeStep, Receive, Disconnect, Reconnect, PeerJoins, WorkerStep, TakeWake, Drain, Snapshot,
         Plan, ReloadSystem, LoadTenant, CopySet, InstallReload, ReloadFails, FinishBatch

LEMMA PeerKeeps == PeerJoins => UNCHANGED <<dbVars, save>>
  BY DEF PeerJoins

(* After its transaction a request touches neither the database nor        *)
(* anybody else's save, and it is not editing any more.                    *)
LEMMA LaterSteps ==
    ASSUME IInv, NEW a \in Admins,
           \/ SaveFails(a) \/ Adopt(a) \/ CopySet(a) \/ InstallSave(a) \/ HookRead(a)
           \/ HookApply(a) \/ HookEnds(a) \/ \E t \in Tenants : SyncTenant(a, t)
    PROVE  /\ UNCHANGED dbVars
           /\ \A b \in Admins : b # a => save'[b] = save[b]
           /\ save'[a].st = "editing" => save'[a] = save[a]
  <1>0. SaveOK(save[a]) /\ DOMAIN save = Admins
    BY Typed DEF IInv, TypeOK
  <1>1. UNCHANGED dbVars
    BY DEF SaveFails, Adopt, CopySet, InstallSave, HookRead, HookApply, HookEnds, SyncTenant
  <1>2. \A b \in Admins : b # a => save'[b] = save[b]
    BY <1>0 DEF SaveFails, Adopt, CopySet, InstallSave, HookRead, HookApply, HookEnds, SyncTenant
  <1>3. save'[a].st = "editing" => save'[a] = save[a]
    <2>1. PICK t \in AllTenants :
              save[a] \in [st : SaveStates, unit : UnitsOf(t) \cup {Nil}, doc : SUBSET Versions,
                           expected : Versions \cup {AnyVersion}, blind : BOOLEAN,
                           read : [UnitsOf(t) -> Versions] \cup {Nil}, left : SUBSET Tenants]
      BY <1>0 DEF SaveOK
    <2>2. CASE SaveFails(a)
      BY <1>0, <2>2 DEF SaveFails, NoSave
    <2>3. CASE Adopt(a) \/ HookEnds(a)
      BY <1>0, <2>1, <2>3 DEF Adopt, HookEnds
    <2>4. CASE CopySet(a)
      BY <2>4 DEF CopySet
    <2>5. CASE HookRead(a)
      BY <1>0, <2>1, <2>5 DEF HookRead
    <2>6. CASE HookApply(a)
      BY <1>0, <2>1, <2>6 DEF HookApply
    <2>7. ASSUME NEW w \in Tenants, SyncTenant(a, w) PROVE save'[a].st # "editing"
      BY <1>0, <2>1, <2>7 DEF SyncTenant
    <2>8. CASE InstallSave(a)
      <3>1. save[a].st \in {"adopting", "syncing", "closing"}
        BY <2>8 DEF InstallSave, StoreSet, IInv, SaveState
      <3>2. save'[a] \in {NoSave, [save[a] EXCEPT !.st = "hook"], save[a]}
        BY <1>0, <2>8 DEF InstallSave
      <3>3. [save[a] EXCEPT !.st = "hook"].st = "hook" /\ NoSave.st = "idle"
        BY <2>1 DEF NoSave
      <3> QED
        BY <3>1, <3>2, <3>3
    <2> QED
      BY <2>2, <2>3, <2>4, <2>5, <2>6, <2>7, <2>8
  <1> QED
    BY <1>1, <1>2, <1>3

(* A commit ends the editing, seen or not.                                 *)
LEMMA StoringSteps ==
    ASSUME IInv, NEW a \in Admins, Commit(a) \/ CommitUnseen(a)
    PROVE  /\ Stored(a)
           /\ \A b \in Admins : b # a => save'[b] = save[b]
           /\ save'[a].st # "editing"
  <1>0. SaveOK(save[a]) /\ DOMAIN save = Admins /\ NoSave.st = "idle"
    BY Typed DEF IInv, TypeOK, NoSave
  <1>1. PICK t \in AllTenants :
            save[a] \in [st : SaveStates, unit : UnitsOf(t) \cup {Nil}, doc : SUBSET Versions,
                         expected : Versions \cup {AnyVersion}, blind : BOOLEAN,
                         read : [UnitsOf(t) -> Versions] \cup {Nil}, left : SUBSET Tenants]
    BY <1>0 DEF SaveOK
  <1>2. CASE Commit(a)
    <2> DEFINE r == [save[a].read EXCEPT ![save[a].unit] = version'[save[a].unit]]
               s == IF Home[a] \in Nodes
                    THEN [save[a] EXCEPT !.st = "committed", !.read = r, !.doc = {}]
                    ELSE NoSave
    <2>1. save' = [save EXCEPT ![a] = s]
      BY <1>2 DEF Commit
    <2> HIDE DEF r
    <2>2. s.st # "editing"
      BY <1>0, <1>1
    <2> HIDE DEF s
    <2> QED
      BY <1>0, <1>2, <2>1, <2>2 DEF Commit
  <1>3. CASE CommitUnseen(a)
    BY <1>0, <1>3 DEF CommitUnseen
  <1> QED
    BY <1>2, <1>3

-----------------------------------------------------------------------------
(* Acknowledged edits.                                                     *)

(* The copy a save has read is the value of the version it expects.        *)
CopyState ==
    Unchecked = {} =>
        \A a \in Admins : save[a].st = "editing" /\ ~save[a].blind =>
            /\ save[a].expected \in Nat
            /\ save[a].unit \notin misread => save[a].doc = 1..save[a].expected

LEMMA NextEdits ==
    IInv /\ CopyState /\ EditsKept /\ [Next]_vars => CopyState' /\ EditsKept'
  <1> DEFINE Copies == \A a \in Admins : save[a].st = "editing" /\ ~save[a].blind =>
                           /\ save[a].expected \in Nat
                           /\ save[a].unit \notin misread => save[a].doc = 1..save[a].expected
             Kept == \A u \in Units : u \notin misread => contents[u] = 1..version[u]
  <1> SUFFICES ASSUME IInv, Copies, Kept, [Next]_vars, Unchecked = {}
               PROVE  Copies' /\ Kept'
      BY DEF CopyState, EditsKept
  <1>2. CASE UNCHANGED <<dbVars, save>>
    BY <1>2 DEF dbVars
  <1>3. ASSUME NEW a \in Admins, NEW u \in Units, BeginSave(a, u) \/ BeginBlind(a, u)
        PROVE  Copies' /\ Kept'
    <2>1. /\ save'[a].st = "editing" /\ save'[a].unit = u
          /\ \A b \in Admins : b # a => save'[b] = save[b]
          /\ ~save'[a].blind => save'[a].doc = contents[u] /\ save'[a].expected = version[u]
      BY <1>3, BeginSteps
    <2>2. UNCHANGED dbVars /\ version[u] \in Nat
      BY <1>3 DEF BeginSave, BeginBlind, IInv, TypeOK, Versions
    <2> QED
      BY <2>1, <2>2 DEF dbVars
  <1>4. ASSUME NEW a \in Admins, Commit(a) \/ CommitUnseen(a)
        PROVE  Copies' /\ Kept'
    <2> DEFINE u == save[a].unit
               v == version[u] + 1
    <2>1. /\ Stored(a) /\ save'[a].st # "editing"
          /\ \A b \in Admins : b # a => save'[b] = save[b]
      BY <1>4, StoringSteps
    <2>2. /\ u \in Units /\ version'[u] = v /\ contents'[u] = save[a].doc \cup {v}
          /\ \A w \in Units : w # u => version'[w] = version[w] /\ contents'[w] = contents[w]
          /\ misread' = IF save[a].blind THEN misread \cup {u} ELSE misread
          /\ save[a].st = "editing"
      BY <2>1, StoredOK
    <2>3. version[u] \in Nat
      BY <2>2 DEF IInv, TypeOK, Versions
    <2>4. u \notin misread' => contents'[u] = 1..v
      <3> SUFFICES ASSUME u \notin misread' PROVE contents'[u] = 1..v
          OBVIOUS
      <3>1. ~save[a].blind /\ u \notin misread
        BY <2>2
      <3>2. save[a].expected \in Nat /\ save[a].doc = 1..save[a].expected
        BY <2>2, <3>1
      <3>3. save[a].expected = version[u]
        BY <2>1, <3>2 DEF Stored, Matches, AnyVersion
      <3>4. 1..version[u] \cup {v} = 1..v
        BY <2>3
      <3> QED
        BY <2>2, <3>2, <3>3, <3>4
    <2> QED
      BY <2>1, <2>2, <2>4
  <1>5. ASSUME NEW a \in Admins,
               \/ SaveFails(a) \/ Adopt(a) \/ CopySet(a) \/ InstallSave(a) \/ HookRead(a)
               \/ HookApply(a) \/ HookEnds(a) \/ \E t \in Tenants : SyncTenant(a, t)
        PROVE  Copies' /\ Kept'
    <2>1. /\ UNCHANGED dbVars
          /\ \A b \in Admins : b # a => save'[b] = save[b]
          /\ save'[a].st = "editing" => save'[a] = save[a]
      BY <1>5, LaterSteps
    <2> QED
      BY <2>1 DEF dbVars
  <1>6. ASSUME NEW n \in Nodes, NodeStep(n) PROVE Copies' /\ Kept'
    BY <1>2, <1>6, NodeKeeps
  <1>7. PeerJoins => Copies' /\ Kept'
    BY <1>2, PeerKeeps
  <1>8. UNCHANGED vars => Copies' /\ Kept'
    BY <1>2 DEF vars
  <1> HIDE DEF Copies, Kept
  <1> QED
    BY <1>3, <1>4, <1>5, <1>6, <1>7, <1>8 DEF Next, SaveStep, NodeStep

(* When every client sends the version it read, the stored value of a unit *)
(* holds every edit that was ever acknowledged: the compare-and-swap on    *)
(* the version (CompareAndSwap, BumpTx) excludes lost updates, whatever    *)
(* answers are lost.  A unit that was stored from a copy whose read had    *)
(* failed (freshConfig goes on with an older or an empty one) is left out, *)
(* since the version the client sent lets that copy through.               *)
THEOREM EditsSurvive == Spec => []EditsKept
  <1>1. Init => CopyState /\ EditsKept
    <2> SUFFICES ASSUME Init PROVE CopyState /\ EditsKept
        OBVIOUS
    <2>1. 1..0 = {}
      OBVIOUS
    <2> QED
      BY <2>1 DEF Init, CopyState, EditsKept, NoSave
  <1> QED
    BY <1>1, NextEdits, InductiveInvariant, PTL DEF Spec
-----------------------------------------------------------------------------
(* What the steps that install a configuration do, field by field.         *)

(* The nodes a step of installer p does not touch.                         *)
Elsewhere(p) ==
    \A k \in Nodes : k # At(p) =>
        live'[k] = live[k] /\ cache'[k] = cache[k] /\ undone'[k] = undone[k]

(* Unless an older copy replaced a newer one, node n serves nothing older  *)
(* than before.                                                            *)
Forward(n) ==
    ~undone'[n] => /\ ~undone[n]
                   /\ \A u \in UnitsOf(System) : live'[n][u] >= live[n][u]
                   /\ \A u \in Units : cache'[n][u] >= cache[n][u]

LEMMA ServeMoves ==
    ASSUME TypeOK, NEW p, At(p) \in Nodes, NEW l \in [UnitsOf(System) -> Versions],
           NEW c \in [Units -> Versions], Serve(At(p), l, c)
    PROVE  /\ live'[At(p)] = l /\ cache'[At(p)] = c
           /\ Elsewhere(p) /\ Forward(At(p))
           /\ undone'[At(p)] => \/ undone[At(p)]
                                \/ \E u \in UnitsOf(System) : l[u] < live[At(p)][u]
                                \/ \E u \in Units : c[u] < cache[At(p)][u]
  <1>1. undone'[At(p)] => \/ undone[At(p)]
                          \/ \E u \in UnitsOf(System) : l[u] < live[At(p)][u]
                          \/ \E u \in Units : c[u] < cache[At(p)][u]
    BY DEF Serve, TypeOK
  <1> QED
    BY <1>1, ServeOK DEF Elsewhere, Forward

LEMMA CopyFacts ==
    ASSUME IInv, NEW p \in Installers, CopySet(p)
    PROVE  /\ loaded[p] # Nil /\ loaded[p].set = Nil /\ At(p) \in Nodes
           /\ loaded'[p].tenant = loaded[p].tenant
           /\ loaded'[p].set = cache[At(p)]
           /\ loaded'[p].read = IF loaded[p].tenant = System THEN live[At(p)] ELSE loaded[p].read
           /\ \A q \in Installers : q # p => loaded'[q] = loaded[q]
           /\ UNCHANGED <<dbVars, busVars, dispVars, worker, todo, liveVars, save, healthy>>
  <1>1. loaded[p] # Nil /\ loaded[p].set = Nil /\ loaded' = [loaded EXCEPT ![p] = Copied(p)]
    BY DEF CopySet
  <1>2. loaded'[p] = Copied(p) /\ \A q \in Installers : q # p => loaded'[q] = loaded[q]
    BY <1>1, CopiedOK, LoadedTyped DEF IInv
  <1>3. UNCHANGED <<dbVars, busVars, dispVars, worker, todo, liveVars, save, healthy>>
    BY DEF CopySet, faultVars
  <1> QED
    BY <1>1, <1>2, <1>3, CopiedOK, AtNode

LEMMA StoreFacts ==
    ASSUME IInv, NEW p \in Installers, StoreSet(p)
    PROVE  /\ loaded[p] # Nil /\ loaded[p].set # Nil /\ At(p) \in Nodes
           /\ loaded'[p] = Nil
           /\ \A q \in Installers : q # p => loaded'[q] = loaded[q]
           /\ live'[At(p)] = live[At(p)]
           /\ \A u \in Units : cache'[At(p)][u] = IF Tenant[u] = loaded[p].tenant
                                                   THEN loaded[p].read[u] ELSE loaded[p].set[u]
           /\ Elsewhere(p) /\ Forward(At(p))
           /\ undone'[At(p)] => \/ undone[At(p)]
                                \/ \E u \in Units : cache'[At(p)][u] < cache[At(p)][u]
  <1>1. loaded[p] # Nil /\ loaded[p].set # Nil /\ loaded' = [loaded EXCEPT ![p] = Nil]
    BY DEF StoreSet
  <1>2. loaded'[p] = Nil /\ \A q \in Installers : q # p => loaded'[q] = loaded[q]
    BY <1>1, NilOK, LoadedTyped DEF IInv
  <1>3. /\ NewSet(p) \in [Units -> Versions]
        /\ At(p) \in Nodes /\ live[At(p)] \in [UnitsOf(System) -> Versions]
        /\ Serve(At(p), live[At(p)], NewSet(p))
        /\ \A u \in Units : NewSet(p)[u] = IF Tenant[u] = loaded[p].tenant
                                            THEN loaded[p].read[u] ELSE loaded[p].set[u]
    BY NewSetOK
  <1>4. /\ live'[At(p)] = live[At(p)] /\ cache'[At(p)] = NewSet(p)
        /\ Elsewhere(p) /\ Forward(At(p))
        /\ undone'[At(p)] => \/ undone[At(p)]
                             \/ \E u \in UnitsOf(System) : live[At(p)][u] < live[At(p)][u]
                             \/ \E u \in Units : NewSet(p)[u] < cache[At(p)][u]
    BY <1>3, ServeMoves DEF IInv
  <1>5. \A u \in UnitsOf(System) : ~(live[At(p)][u] < live[At(p)][u])
    BY <1>3 DEF Versions
  <1> QED
    BY <1>1, <1>2, <1>3, <1>4, <1>5

LEMMA ReloadSystemFacts ==
    ASSUME IInv, NEW n \in Nodes, ReloadSystem(n)
    PROVE  /\ loaded[n] = Nil /\ worker[n] = "reloading"
           /\ loaded'[n].tenant = System /\ loaded'[n].set = Nil
           /\ \A u \in UnitsOf(System) : loaded'[n].read[u] = version[u]
           /\ \A q \in Installers : q # n => loaded'[q] = loaded[q]
           /\ \A u \in UnitsOf(System) : live'[n][u] = IF u \in todo[n] THEN version[u] ELSE live[n][u]
           /\ cache'[n] = cache[n]
           /\ Elsewhere(n) /\ Forward(n)
           /\ undone'[n] => \/ undone[n]
                            \/ \E u \in UnitsOf(System) : live'[n][u] < live[n][u]
           /\ UNCHANGED <<dbVars, busVars, dispVars, worker, todo, save, faultVars>>
  <1>0. n \in Installers /\ At(n) = n
    BY AdminsAssumption DEF Installers, At
  <1> DEFINE l == [u \in UnitsOf(System) |-> IF u \in todo[n] THEN version[u] ELSE live[n][u]]
  <1>1. l \in [UnitsOf(System) -> Versions] /\ cache[n] \in [Units -> Versions]
    BY DEF IInv, TypeOK, UnitsOf
  <1>2. \A u \in UnitsOf(System) : l[u] = IF u \in todo[n] THEN version[u] ELSE live[n][u]
    OBVIOUS
  <1>3. Serve(n, l, cache[n]) /\ loaded' = [loaded EXCEPT ![n] = Built(System, Read(System))]
    BY DEF ReloadSystem
  <1> HIDE DEF l
  <1>4. /\ live'[n] = l /\ cache'[n] = cache[n] /\ Elsewhere(n) /\ Forward(n)
        /\ undone'[n] => \/ undone[n]
                         \/ \E u \in UnitsOf(System) : l[u] < live[n][u]
                         \/ \E u \in Units : cache[n][u] < cache[n][u]
    BY <1>0, <1>1, <1>3, ServeMoves DEF IInv
  <1>5. \A u \in Units : ~(cache[n][u] < cache[n][u])
    BY <1>1 DEF Versions
  <1>6. LoadedOK(Built(System, Read(System))) /\ Built(System, Read(System)).tenant = System
        /\ Built(System, Read(System)).set = Nil /\ Built(System, Read(System)).read = Read(System)
    BY SystemRead, BuiltOK
  <1>7. loaded'[n] = Built(System, Read(System)) /\ \A q \in Installers : q # n => loaded'[q] = loaded[q]
    BY <1>0, <1>3, <1>6, LoadedTyped DEF IInv
  <1>8. \A u \in UnitsOf(System) : Read(System)[u] = version[u]
    BY DEF Read
  <1> QED
    BY <1>2, <1>4, <1>5, <1>6, <1>7, <1>8 DEF ReloadSystem

LEMMA LoadTenantFacts ==
    ASSUME IInv, NEW n \in Nodes, NEW t \in Tenants, LoadTenant(n, t)
    PROVE  /\ loaded[n] = Nil /\ worker[n] = "reloading" /\ t # System
           /\ loaded'[n].tenant = t /\ loaded'[n].set = Nil
           /\ healthy'[n] => healthy[n] /\ \A u \in UnitsOf(t) : loaded'[n].read[u] = version[u]
           /\ \A u \in UnitsOf(t) : loaded'[n].read[u] <= version[u]
           /\ \A k \in Nodes : k # n => healthy'[k] = healthy[k]
           /\ \A q \in Installers : q # n => loaded'[q] = loaded[q]
           /\ UNCHANGED <<dbVars, busVars, dispVars, worker, todo, liveVars, save>>
  <1>0. n \in Installers /\ t \in AllTenants /\ t # System
    BY DEF Installers, AllTenants, Tenants
  <1>1. PICK result \in {Read(t), Empty(t)} :
            /\ Builds(t, result)
            /\ loaded' = [loaded EXCEPT ![n] = Built(t, result)]
            /\ healthy' = [healthy EXCEPT ![n] = @ /\ incidents' = incidents]
    BY DEF LoadTenant
  <1>2. result \in [UnitsOf(t) -> Versions]
    BY ReadOK DEF IInv
  <1>3. loaded'[n] = Built(t, result) /\ \A q \in Installers : q # n => loaded'[q] = loaded[q]
    BY <1>0, <1>1, <1>2, BuiltOK, LoadedTyped DEF IInv
  <1>4. loaded'[n].tenant = t /\ loaded'[n].set = Nil /\ loaded'[n].read = result
    BY <1>0, <1>2, <1>3, BuiltOK
  <1>5. /\ healthy'[n] => healthy[n] /\ incidents' = incidents
        /\ \A k \in Nodes : k # n => healthy'[k] = healthy[k]
    BY <1>1 DEF IInv, TypeOK
  <1>6. incidents' = incidents => result = Read(t)
    BY <1>1, IncidentOK DEF Builds
  <1>7. /\ \A u \in UnitsOf(t) : Read(t)[u] = version[u] /\ Empty(t)[u] = 0
        /\ \A u \in UnitsOf(t) : version[u] \in Nat
    BY DEF Read, Empty, IInv, TypeOK, UnitsOf, Versions
  <1>8. \A u \in UnitsOf(t) : result[u] <= version[u]
    BY <1>1, <1>7
  <1> QED
    BY <1>0, <1>3, <1>4, <1>5, <1>6, <1>7, <1>8 DEF LoadTenant

LEMMA SyncTenantFacts ==
    ASSUME IInv, NEW a \in Admins, NEW t \in Tenants, SyncTenant(a, t)
    PROVE  /\ save[a].st = "syncing" /\ save'[a].st = "syncing"
           /\ save'[a].unit = save[a].unit /\ save'[a].read = save[a].read
           /\ \A b \in Admins : b # a => save'[b] = save[b]
           /\ loaded'[a].tenant = t /\ loaded'[a].set = Nil
           /\ \A u \in UnitsOf(t) : loaded'[a].read[u] <= version[u]
           /\ \A q \in Installers : q # a => loaded'[q] = loaded[q]
           /\ UNCHANGED <<dbVars, busVars, dispVars, worker, todo, liveVars, healthy>>
  <1>0. a \in Installers /\ t \in AllTenants
    BY DEF Installers, AllTenants
  <1>1. PICK result \in {Read(t), Empty(t)} : loaded' = [loaded EXCEPT ![a] = Built(t, result)]
    BY DEF SyncTenant
  <1>2. result \in [UnitsOf(t) -> Versions]
    BY ReadOK DEF IInv
  <1>3. loaded'[a] = Built(t, result) /\ \A q \in Installers : q # a => loaded'[q] = loaded[q]
    BY <1>0, <1>1, <1>2, BuiltOK, LoadedTyped DEF IInv
  <1>4. loaded'[a].tenant = t /\ loaded'[a].set = Nil /\ loaded'[a].read = result
    BY <1>0, <1>2, <1>3, BuiltOK
  <1>5. /\ \A u \in UnitsOf(t) : Read(t)[u] = version[u] /\ Empty(t)[u] = 0
        /\ \A u \in UnitsOf(t) : version[u] \in Nat
    BY DEF Read, Empty, IInv, TypeOK, UnitsOf, Versions
  <1>6. \A u \in UnitsOf(t) : result[u] <= version[u]
    BY <1>1, <1>5
  <1>7. save'[a] = [save[a] EXCEPT !.left = @ \ {t}] /\ \A b \in Admins : b # a => save'[b] = save[b]
    BY DEF SyncTenant, IInv, TypeOK
  <1>8. save'[a].st = save[a].st /\ save'[a].unit = save[a].unit /\ save'[a].read = save[a].read
    BY <1>7, Typed DEF IInv, SaveOK
  <1> QED
    BY <1>3, <1>4, <1>6, <1>7, <1>8 DEF SyncTenant
LEMMA AdminAt == \A a \in Admins : a \in Installers /\ At(a) = Home[a]
  BY DEF Installers, At

LEMMA NodeAt == \A n \in Nodes : n \in Installers /\ At(n) = n /\ n \notin Admins
  BY AdminsAssumption DEF Installers, At

LEMMA SameServe ==
    ASSUME IInv, UNCHANGED liveVars
    PROVE  /\ \A p \in Installers : Elsewhere(p)
           /\ \A n \in Nodes : Forward(n)
  <1>1. /\ \A n \in Nodes : \A u \in UnitsOf(System) : live[n][u] \in Nat
        /\ \A n \in Nodes : \A u \in Units : cache[n][u] \in Nat
    BY DEF IInv, TypeOK, Versions
  <1> QED
    BY <1>1 DEF liveVars, Elsewhere, Forward

LEMMA AdoptFacts ==
    ASSUME IInv, NEW a \in Admins, Adopt(a)
    PROVE  /\ save[a].st = "committed" /\ Home[a] \in Nodes /\ save[a].unit \in Units
           /\ save'[a].st = "adopting" /\ save'[a].unit = save[a].unit /\ save'[a].read = save[a].read
           /\ \A b \in Admins : b # a => save'[b] = save[b]
           /\ loaded'[a].tenant = Tenant[save[a].unit] /\ loaded'[a].set = Nil
           /\ loaded'[a].read = save[a].read
           /\ \A q \in Installers : q # a => loaded'[q] = loaded[q]
           /\ cache'[Home[a]] = cache[Home[a]]
           /\ \A w \in UnitsOf(System) :
                 live'[Home[a]][w] = IF w = save[a].unit THEN save[a].read[w] ELSE live[Home[a]][w]
           /\ Elsewhere(a) /\ Forward(Home[a])
           /\ UNCHANGED <<dbVars, busVars, dispVars, worker, todo, healthy>>
  <1> DEFINE n == Home[a]
             u == save[a].unit
             l == [w \in UnitsOf(System) |-> IF w = u THEN save[a].read[u] ELSE live[n][w]]
  <1>1. /\ save[a].st = "committed" /\ n \in Nodes /\ u \in Units
        /\ Tenant[u] \in AllTenants /\ u \in UnitsOf(Tenant[u])
        /\ save[a].read \in [UnitsOf(Tenant[u]) -> Versions]
    BY UnitTenant DEF Adopt, IInv, SaveState
  <1>2. l \in [UnitsOf(System) -> Versions] /\ cache[n] \in [Units -> Versions]
    BY <1>1 DEF IInv, TypeOK
  <1>3. \A w \in UnitsOf(System) : l[w] = IF w = u THEN save[a].read[w] ELSE live[n][w]
    OBVIOUS
  <1>4. /\ Serve(n, l, cache[n])
        /\ loaded' = [loaded EXCEPT ![a] = Built(Tenant[u], save[a].read)]
        /\ save' = [save EXCEPT ![a].st = "adopting"]
        /\ UNCHANGED <<dbVars, busVars, dispVars, worker, todo, healthy>>
    BY DEF Adopt, faultVars
  <1> HIDE DEF l
  <1>5. live'[n] = l /\ cache'[n] = cache[n] /\ Elsewhere(a) /\ Forward(n)
    BY <1>1, <1>2, <1>4, AdminAt, ServeMoves DEF IInv
  <1>6. /\ loaded'[a] = Built(Tenant[u], save[a].read)
        /\ \A q \in Installers : q # a => loaded'[q] = loaded[q]
    BY <1>1, <1>4, AdminAt, BuiltOK, LoadedTyped DEF IInv
  <1>7. /\ loaded'[a].tenant = Tenant[u] /\ loaded'[a].set = Nil /\ loaded'[a].read = save[a].read
    BY <1>1, <1>6, BuiltOK
  <1>8. /\ save'[a] = [save[a] EXCEPT !.st = "adopting"]
        /\ \A b \in Admins : b # a => save'[b] = save[b]
    BY <1>4 DEF IInv, TypeOK
  <1>9. save'[a].st = "adopting" /\ save'[a].unit = save[a].unit /\ save'[a].read = save[a].read
    BY <1>8, Typed DEF IInv, SaveOK
  <1> QED
    BY <1>1, <1>3, <1>4, <1>5, <1>6, <1>7, <1>8, <1>9

LEMMA InstallSaveFacts ==
    ASSUME IInv, NEW a \in Admins, InstallSave(a)
    PROVE  /\ StoreSet(a) /\ Home[a] \in Nodes
           /\ save[a].st \in {"adopting", "syncing", "closing"} /\ save[a].unit \in Units
           /\ \/ save'[a].st = "idle"
              \/ /\ save'[a].st \in {"hook", "syncing"}
                 /\ save'[a].unit = save[a].unit /\ save'[a].read = save[a].read
           /\ \A b \in Admins : b # a => save'[b] = save[b]
           /\ UNCHANGED <<dbVars, busVars, dispVars, worker, todo, healthy>>
  <1>1. StoreSet(a) /\ UNCHANGED <<dbVars, busVars, dispVars, worker, todo, healthy>>
    BY DEF InstallSave, faultVars
  <1>2. loaded[a] # Nil
    BY <1>1 DEF StoreSet
  <1>3. /\ save[a].st \in {"adopting", "syncing", "closing"} /\ save[a].unit \in Units
        /\ Home[a] \in Nodes
    BY <1>2 DEF IInv, SaveState
  <1>4. /\ save'[a] = IF save[a].st = "closing" \/ Tenant[save[a].unit] # System THEN NoSave
                      ELSE IF save[a].st = "adopting" THEN [save[a] EXCEPT !.st = "hook"]
                      ELSE save[a]
        /\ \A b \in Admins : b # a => save'[b] = save[b]
    BY DEF InstallSave, IInv, TypeOK
  <1>5. /\ [save[a] EXCEPT !.st = "hook"].st = "hook"
        /\ [save[a] EXCEPT !.st = "hook"].unit = save[a].unit
        /\ [save[a] EXCEPT !.st = "hook"].read = save[a].read
        /\ NoSave.st = "idle"
    BY Typed DEF IInv, SaveOK, NoSave
  <1> QED
    BY <1>1, <1>3, <1>4, <1>5

LEMMA HookReadFacts ==
    ASSUME IInv, NEW a \in Admins, HookRead(a)
    PROVE  /\ save[a].st = "hook" /\ save'[a].st = "hooked"
           /\ Tenant[save'[a].unit] = System
           /\ save'[a].read # Nil => \A u \in UnitsOf(System) : save'[a].read[u] = version[u]
           /\ \A b \in Admins : b # a => save'[b] = save[b]
           /\ UNCHANGED <<dbVars, busVars, dispVars, worker, todo, healthy, loaded, liveVars>>
  <1>1. PICK r \in {Read(System), Nil} : save' = [save EXCEPT ![a].st = "hooked", ![a].read = r]
    BY DEF HookRead
  <1>2. /\ save'[a] = [save[a] EXCEPT !.st = "hooked", !.read = r]
        /\ \A b \in Admins : b # a => save'[b] = save[b]
    BY <1>1 DEF IInv, TypeOK
  <1>3. save'[a].st = "hooked" /\ save'[a].unit = save[a].unit /\ save'[a].read = r
    BY <1>2, Typed DEF IInv, SaveOK
  <1>4. \A u \in UnitsOf(System) : Read(System)[u] = version[u]
    BY DEF Read
  <1>5. save[a].st = "hook" /\ Tenant[save[a].unit] = System
    BY DEF HookRead, IInv, SaveState
  <1>6. UNCHANGED <<dbVars, busVars, dispVars, worker, todo, healthy, loaded, liveVars>>
    BY DEF HookRead, workVars
  <1>7. save'[a].read # Nil => \A u \in UnitsOf(System) : save'[a].read[u] = version[u]
    BY <1>3, <1>4
  <1>8. Tenant[save'[a].unit] = System
    BY <1>3, <1>5
  <1>9. \A b \in Admins : b # a => save'[b] = save[b]
    BY <1>2
  <1> QED
    BY <1>3, <1>5, <1>6, <1>7, <1>8, <1>9

LEMMA HookApplyFacts ==
    ASSUME IInv, NEW a \in Admins, HookApply(a)
    PROVE  /\ save[a].st = "hooked" /\ Home[a] \in Nodes
           /\ Tenant[save[a].unit] = System
           /\ save'[a].st = "syncing" /\ save'[a].unit = save[a].unit /\ save'[a].read = save[a].read
           /\ \A b \in Admins : b # a => save'[b] = save[b]
           /\ loaded'[a].tenant = System /\ loaded'[a].set = Nil
           /\ \A u \in UnitsOf(System) : loaded'[a].read[u] = version[u]
           /\ \A q \in Installers : q # a => loaded'[q] = loaded[q]
           /\ cache'[Home[a]] = cache[Home[a]]
           /\ live'[Home[a]] = IF save[a].read = Nil THEN live[Home[a]] ELSE save[a].read
           /\ Elsewhere(a) /\ Forward(Home[a])
           /\ UNCHANGED <<dbVars, busVars, dispVars, worker, todo, healthy>>
  <1> DEFINE n == Home[a]
             l == IF save[a].read = Nil THEN live[n] ELSE save[a].read
  <1>1. /\ save[a].st = "hooked" /\ n \in Nodes /\ save[a].unit \in Units
        /\ Tenant[save[a].unit] = System
    BY DEF HookApply, IInv, SaveState
  <1>2. save[a].read \in [UnitsOf(System) -> Versions] \cup {Nil}
    BY <1>1, ReadType DEF IInv
  <1>3. l \in [UnitsOf(System) -> Versions] /\ cache[n] \in [Units -> Versions]
    BY <1>1, <1>2 DEF IInv, TypeOK
  <1>4. /\ Serve(n, l, cache[n])
        /\ loaded' = [loaded EXCEPT ![a] = Built(System, Read(System))]
        /\ UNCHANGED <<dbVars, busVars, dispVars, worker, todo, healthy>>
    BY DEF HookApply
  <1>5. live'[n] = l /\ cache'[n] = cache[n] /\ Elsewhere(a) /\ Forward(n)
    <2> HIDE DEF l
    <2> QED
      BY <1>1, <1>3, <1>4, AdminAt, ServeMoves DEF IInv
  <1>6. /\ loaded'[a] = Built(System, Read(System))
        /\ \A q \in Installers : q # a => loaded'[q] = loaded[q]
    BY <1>4, AdminAt, SystemRead, BuiltOK, LoadedTyped DEF IInv
  <1>7. loaded'[a].tenant = System /\ loaded'[a].set = Nil /\ loaded'[a].read = Read(System)
    BY <1>6, SystemRead, BuiltOK
  <1>8. \A u \in UnitsOf(System) : Read(System)[u] = version[u]
    BY DEF Read
  <1>9. /\ save'[a] \in {[save[a] EXCEPT !.st = "syncing", !.left = Tenants],
                         [save[a] EXCEPT !.st = "syncing"]}
        /\ \A b \in Admins : b # a => save'[b] = save[b]
    BY DEF HookApply, IInv, TypeOK
  <1>10. save'[a].st = "syncing" /\ save'[a].unit = save[a].unit /\ save'[a].read = save[a].read
    BY <1>9, Typed DEF IInv, SaveOK
  <1> QED
    BY <1>1, <1>4, <1>5, <1>6, <1>7, <1>8, <1>9, <1>10

LEMMA HookEndsFacts ==
    ASSUME IInv, NEW a \in Admins, HookEnds(a)
    PROVE  /\ save[a].st = "syncing" /\ save'[a].st = "closing"
           /\ save'[a].unit = save[a].unit /\ save'[a].read = save[a].read
           /\ \A b \in Admins : b # a => save'[b] = save[b]
           /\ loaded'[a].tenant = System /\ loaded'[a].set = Nil
           /\ \A u \in UnitsOf(System) : loaded'[a].read[u] = version[u]
           /\ \A q \in Installers : q # a => loaded'[q] = loaded[q]
           /\ UNCHANGED <<dbVars, busVars, dispVars, worker, todo, healthy, liveVars>>
  <1>1. /\ save[a].st = "syncing"
        /\ loaded' = [loaded EXCEPT ![a] = Built(System, Read(System))]
        /\ UNCHANGED <<dbVars, busVars, dispVars, worker, todo, healthy, liveVars>>
    BY DEF HookEnds, faultVars
  <1>2. /\ loaded'[a] = Built(System, Read(System))
        /\ \A q \in Installers : q # a => loaded'[q] = loaded[q]
    BY <1>1, AdminAt, SystemRead, BuiltOK, LoadedTyped DEF IInv
  <1>3. loaded'[a].tenant = System /\ loaded'[a].set = Nil /\ loaded'[a].read = Read(System)
    BY <1>2, SystemRead, BuiltOK
  <1>4. \A u \in UnitsOf(System) : Read(System)[u] = version[u]
    BY DEF Read
  <1>5. /\ save'[a] = [save[a] EXCEPT !.st = "closing"]
        /\ \A b \in Admins : b # a => save'[b] = save[b]
    BY DEF HookEnds, IInv, TypeOK
  <1>6. save'[a].st = "closing" /\ save'[a].unit = save[a].unit /\ save'[a].read = save[a].read
    BY <1>5, Typed DEF IInv, SaveOK
  <1> QED
    BY <1>1, <1>2, <1>3, <1>4, <1>5, <1>6

LEMMA BeginFacts ==
    ASSUME IInv, NEW a \in Admins, NEW u \in Units, BeginSave(a, u) \/ BeginBlind(a, u)
    PROVE  /\ save[a].st = "idle" /\ save'[a].st = "editing" /\ save'[a].unit = u
           /\ \A w \in UnitsOf(Tenant[u]) : save'[a].read[w] <= version[w]
           /\ \A b \in Admins : b # a => save'[b] = save[b]
           /\ UNCHANGED <<dbVars, busVars, dispVars, worker, todo, healthy, loaded, liveVars>>
  <1>1. /\ save[a].st = "idle" /\ save'[a].st = "editing" /\ save'[a].unit = u
        /\ \A b \in Admins : b # a => save'[b] = save[b]
    BY BeginSteps
  <1>2. UNCHANGED <<dbVars, busVars, dispVars, worker, todo, healthy, loaded, liveVars>>
    BY DEF BeginSave, BeginBlind, workVars, faultVars
  <1>3. \E e, d, b : \E r \in {Read(Tenant[u]), Empty(Tenant[u])} :
            save' = [save EXCEPT ![a] = Editing(u, e, d, r, b)]
    <2>1. CASE BeginSave(a, u)
      BY <2>1 DEF BeginSave
    <2>2. CASE BeginBlind(a, u)
      BY <2>2 DEF BeginBlind
    <2> QED
      BY <2>1, <2>2
  <1>4. PICK e, d, b, r : /\ r \in {Read(Tenant[u]), Empty(Tenant[u])}
                          /\ save' = [save EXCEPT ![a] = Editing(u, e, d, r, b)]
    BY <1>3
  <1>5. save'[a].read = r
    BY <1>4 DEF Editing, IInv, TypeOK
  <1>6. /\ \A w \in UnitsOf(Tenant[u]) : Read(Tenant[u])[w] = version[w] /\ Empty(Tenant[u])[w] = 0
        /\ \A w \in UnitsOf(Tenant[u]) : version[w] \in Nat
    BY DEF Read, Empty, IInv, TypeOK, UnitsOf, Versions
  <1>7. \A w \in UnitsOf(Tenant[u]) : r[w] <= version[w]
    BY <1>4, <1>6
  <1> QED
    BY <1>1, <1>2, <1>5, <1>7

(* A commit, seen or not.                                                  *)
LEMMA CommitFacts ==
    ASSUME IInv, NEW a \in Admins, Commit(a) \/ CommitUnseen(a)
    PROVE  /\ Stored(a) /\ save[a].unit \in Units
           /\ Commit(a) /\ Home[a] \in Nodes =>
                 /\ save'[a].st = "committed" /\ save'[a].unit = save[a].unit
                 /\ save'[a].read[save[a].unit] = version'[save[a].unit]
                 /\ \A w \in UnitsOf(Tenant[save[a].unit]) :
                       w # save[a].unit => save'[a].read[w] = save[a].read[w]
           /\ ~Commit(a) \/ Home[a] \notin Nodes => save'[a].st = "idle"
           /\ \A k \in Nodes : healthy'[k] => healthy[k]
           /\ ~Commit(a) /\ Home[a] \in Nodes => ~healthy'[Home[a]]
           /\ UNCHANGED <<link, dispVars, worker, todo, loaded, liveVars>>
  <1> DEFINE u == save[a].unit
  <1>1. /\ u \in Units /\ u \in UnitsOf(Tenant[u]) /\ save[a].st = "editing" /\ Stored(a)
    BY StoringSteps, StoredOK
  <1>2. save[a].read \in [UnitsOf(Tenant[u]) -> Versions]
    BY <1>1 DEF IInv, SaveState
  <1>3. UNCHANGED <<link, dispVars, worker, todo, loaded, liveVars>>
    BY DEF Commit, CommitUnseen, workVars
  <1>4. /\ \A k \in Nodes : healthy'[k] => healthy[k]
        /\ ~Commit(a) /\ Home[a] \in Nodes => ~healthy'[Home[a]]
    BY DEF Commit, CommitUnseen, faultVars
  <1>5. ASSUME Commit(a), Home[a] \in Nodes
        PROVE  /\ save'[a].st = "committed" /\ save'[a].unit = u
               /\ save'[a].read = [save[a].read EXCEPT ![u] = version'[u]]
    <2> DEFINE r == [save[a].read EXCEPT ![u] = version'[u]]
    <2>1. save' = [save EXCEPT ![a] = [save[a] EXCEPT !.st = "committed", !.read = r, !.doc = {}]]
      BY <1>5 DEF Commit
    <2> HIDE DEF r
    <2>2. save'[a] = [save[a] EXCEPT !.st = "committed", !.read = r, !.doc = {}]
      BY <2>1 DEF IInv, TypeOK
    <2>3. save'[a].st = "committed" /\ save'[a].unit = u /\ save'[a].read = r
      BY <2>2, Typed DEF IInv, SaveOK
    <2> QED
      BY <2>3 DEF r
  <1>6. ASSUME ~Commit(a) \/ Home[a] \notin Nodes PROVE save'[a].st = "idle"
    <2>1. save' = [save EXCEPT ![a] = NoSave]
      BY <1>6 DEF Commit, CommitUnseen
    <2> QED
      BY <2>1 DEF IInv, TypeOK, NoSave
  <1> QED
    BY <1>1, <1>2, <1>3, <1>4, <1>5, <1>6
-----------------------------------------------------------------------------
(* Nothing a node serves, has loaded or is about to install is newer than  *)
(* what is stored.                                                         *)
LoadedBound(l, vs) ==
    l # Nil => /\ \A u \in UnitsOf(l.tenant) : l.read[u] <= vs[u]
               /\ l.set # Nil => \A u \in Units : l.set[u] <= vs[u]

SaveBound(s, vs) ==
    s.st \in {"editing", "committed", "adopting"} \/ (s.st = "hooked" /\ s.read # Nil) =>
        \A u \in UnitsOf(Tenant[s.unit]) : s.read[u] <= vs[u]

ServeBound(n) ==
    /\ \A u \in Units : cache[n][u] <= version[u]
    /\ \A u \in UnitsOf(System) : live[n][u] <= version[u]

Bounded ==
    /\ \A n \in Nodes : ServeBound(n)
    /\ \A p \in Installers : LoadedBound(loaded[p], version)
    /\ \A a \in Admins : SaveBound(save[a], version)

(* A step of an installer, bounded if what it changes is.                  *)
LEMMA BoundedStep ==
    ASSUME Bounded, NEW p \in Installers, version' = version, Elsewhere(p),
           At(p) \in Nodes => ServeBound(At(p))',
           \A q \in Installers : q # p => loaded'[q] = loaded[q],
           LoadedBound(loaded'[p], version),
           \A b \in Admins : b # p => save'[b] = save[b],
           p \in Admins => SaveBound(save'[p], version)
    PROVE  Bounded'
  <1>1. \A n \in Nodes : ServeBound(n)'
    BY DEF Bounded, ServeBound, Elsewhere
  <1>2. \A q \in Installers : LoadedBound(loaded'[q], version')
    BY DEF Bounded
  <1>3. \A b \in Admins : SaveBound(save'[b], version')
    BY DEF Bounded
  <1> QED
    BY <1>1, <1>2, <1>3 DEF Bounded

LEMMA NilBound == LoadedBound(Nil, version)
  BY DEF LoadedBound

(* Everything the worker does but read and install.                        *)
Idling(n) ==
    \/ TakeWake(n) \/ Drain(n) \/ Snapshot(n) \/ Plan(n) \/ FinishBatch(n)
    \/ \E skipped \in SUBSET Units : ReloadFails(n, skipped)

LEMMA IdlingKeeps ==
    ASSUME NEW n \in Nodes, Idling(n) \/ Receive(n) \/ Disconnect(n) \/ Reconnect(n) \/ PeerJoins
    PROVE  UNCHANGED <<version, live, cache, undone, loaded, save>>
  BY DEF Idling, Receive, Disconnect, Reconnect, PeerJoins, TakeWake, Drain, Snapshot, Plan,
         ReloadFails, FinishBatch, dbVars, liveVars, workVars

LEMMA SameBounded ==
    ASSUME Bounded, UNCHANGED <<version, live, cache, undone, loaded, save>>
    PROVE  Bounded'
  BY DEF Bounded, ServeBound

LEMMA CopyBounded ==
    ASSUME IInv, Bounded, NEW p \in Installers, CopySet(p)
    PROVE  Bounded'
  <1>1. /\ loaded[p] # Nil /\ At(p) \in Nodes
        /\ loaded'[p].tenant = loaded[p].tenant
        /\ loaded'[p].set = cache[At(p)]
        /\ loaded'[p].read = IF loaded[p].tenant = System THEN live[At(p)] ELSE loaded[p].read
        /\ \A q \in Installers : q # p => loaded'[q] = loaded[q]
        /\ UNCHANGED <<dbVars, liveVars, save>>
    BY CopyFacts
  <1>2. ServeBound(At(p)) /\ LoadedBound(loaded[p], version)
    BY <1>1 DEF Bounded
  <1>3. LoadedBound(loaded'[p], version)
    BY <1>1, <1>2 DEF LoadedBound, ServeBound
  <1>4. \A q \in Installers : LoadedBound(loaded'[q], version)
    BY <1>1, <1>3 DEF Bounded
  <1> QED
    BY <1>1, <1>4 DEF Bounded, ServeBound, dbVars, liveVars

LEMMA StoreBounded ==
    ASSUME IInv, Bounded, NEW p \in Installers, StoreSet(p), version' = version,
           \A b \in Admins : b # p => save'[b] = save[b],
           p \in Admins => SaveBound(save'[p], version)
    PROVE  Bounded'
  <1>1. /\ loaded[p] # Nil /\ loaded[p].set # Nil /\ loaded'[p] = Nil /\ At(p) \in Nodes
        /\ \A q \in Installers : q # p => loaded'[q] = loaded[q]
        /\ live'[At(p)] = live[At(p)] /\ Elsewhere(p)
        /\ \A u \in Units : cache'[At(p)][u] = IF Tenant[u] = loaded[p].tenant
                                               THEN loaded[p].read[u] ELSE loaded[p].set[u]
    BY StoreFacts
  <1>2. ServeBound(At(p)) /\ LoadedBound(loaded[p], version)
    BY <1>1 DEF Bounded
  <1>3. \A u \in Units : cache'[At(p)][u] <= version[u]
    BY <1>1, <1>2 DEF LoadedBound, UnitsOf
  <1>4. ServeBound(At(p))'
    BY <1>1, <1>2, <1>3 DEF ServeBound
  <1> QED
    BY <1>1, <1>4, NilBound, BoundedStep

LEMMA WorkerBounded ==
    ASSUME IInv, Bounded, NEW n \in Nodes, WorkerStep(n)
    PROVE  Bounded'
  <1>0. n \in Installers /\ At(n) = n /\ n \notin Admins /\ ServeBound(n)
    BY NodeAt DEF Bounded
  <1>1. CASE Idling(n)
    BY <1>1, IdlingKeeps, SameBounded
  <1>2. CASE ReloadSystem(n)
    <2>1. /\ loaded'[n].tenant = System /\ loaded'[n].set = Nil
          /\ \A u \in UnitsOf(System) : loaded'[n].read[u] = version[u]
          /\ \A q \in Installers : q # n => loaded'[q] = loaded[q]
          /\ \A u \in UnitsOf(System) : live'[n][u] = IF u \in todo[n] THEN version[u] ELSE live[n][u]
          /\ cache'[n] = cache[n] /\ Elsewhere(n) /\ version' = version /\ save' = save
      BY <1>2, ReloadSystemFacts DEF dbVars
    <2>2. \A u \in UnitsOf(System) : version[u] \in Nat
      BY DEF IInv, TypeOK, UnitsOf, Versions
    <2>3. ServeBound(n)'
      BY <1>0, <2>1, <2>2 DEF ServeBound
    <2>4. LoadedBound(loaded'[n], version)
      BY <2>1, <2>2 DEF LoadedBound
    <2> QED
      BY <1>0, <2>1, <2>3, <2>4, BoundedStep
  <1>3. ASSUME NEW t \in Tenants, LoadTenant(n, t) PROVE Bounded'
    <2>1. /\ loaded'[n].tenant = t /\ loaded'[n].set = Nil
          /\ \A u \in UnitsOf(t) : loaded'[n].read[u] <= version[u]
          /\ \A q \in Installers : q # n => loaded'[q] = loaded[q]
          /\ UNCHANGED <<dbVars, liveVars, save>>
      BY <1>3, LoadTenantFacts
    <2>2. LoadedBound(loaded'[n], version)
      BY <2>1 DEF LoadedBound
    <2>3. \A q \in Installers : LoadedBound(loaded'[q], version)
      BY <2>1, <2>2 DEF Bounded
    <2> QED
      BY <2>1, <2>3 DEF Bounded, ServeBound, dbVars, liveVars
  <1>4. CASE CopySet(n)
    BY <1>0, <1>4, CopyBounded
  <1>5. CASE InstallReload(n)
    <2>1. StoreSet(n) /\ version' = version /\ save' = save
      BY <1>5 DEF InstallReload, dbVars
    <2> QED
      BY <1>0, <2>1, StoreBounded
  <1> QED
    BY <1>1, <1>2, <1>3, <1>4, <1>5 DEF WorkerStep, Idling

LEMMA AdminBounded ==
    ASSUME IInv, Bounded, NEW a \in Admins,
           \/ SaveFails(a) \/ Adopt(a) \/ CopySet(a) \/ InstallSave(a) \/ HookRead(a)
           \/ HookApply(a) \/ HookEnds(a) \/ \E t \in Tenants : SyncTenant(a, t)
           \/ \E u \in Units : BeginSave(a, u) \/ BeginBlind(a, u)
    PROVE  Bounded'
  <1>0. /\ a \in Installers /\ At(a) = Home[a]
        /\ SaveBound(save[a], version) /\ LoadedBound(loaded[a], version)
        /\ Home[a] \in Nodes => ServeBound(Home[a])
        /\ \A u \in UnitsOf(System) : version[u] \in Nat
    BY AdminAt DEF Bounded, IInv, TypeOK, UnitsOf, Versions
  <1>1. ASSUME UNCHANGED <<dbVars, liveVars, loaded>>, SaveBound(save'[a], version),
               \A b \in Admins : b # a => save'[b] = save[b]
        PROVE  Bounded'
    <2>1. \A b \in Admins : SaveBound(save'[b], version)
      BY <1>1 DEF Bounded
    <2> QED
      BY <1>1, <2>1 DEF Bounded, ServeBound, dbVars, liveVars
  <1>2. CASE SaveFails(a)
    <2>1. UNCHANGED <<dbVars, liveVars, loaded>> /\ save' = [save EXCEPT ![a] = NoSave]
      BY <1>2 DEF SaveFails, workVars
    <2>2. save'[a] = NoSave /\ \A b \in Admins : b # a => save'[b] = save[b]
      BY <2>1 DEF IInv, TypeOK
    <2>3. SaveBound(save'[a], version)
      BY <2>2 DEF SaveBound, NoSave
    <2> QED
      BY <1>1, <2>1, <2>2, <2>3
  <1>3. ASSUME NEW u \in Units, BeginSave(a, u) \/ BeginBlind(a, u) PROVE Bounded'
    <2>1. /\ save'[a].unit = u /\ \A w \in UnitsOf(Tenant[u]) : save'[a].read[w] <= version[w]
          /\ \A b \in Admins : b # a => save'[b] = save[b]
          /\ UNCHANGED <<dbVars, liveVars, loaded>>
      BY <1>3, BeginFacts
    <2>2. SaveBound(save'[a], version)
      BY <2>1 DEF SaveBound
    <2> QED
      BY <1>1, <2>1, <2>2
  <1>4. CASE HookRead(a)
    <2>1. /\ Tenant[save'[a].unit] = System /\ save'[a].st = "hooked"
          /\ save'[a].read # Nil => \A u \in UnitsOf(System) : save'[a].read[u] = version[u]
          /\ \A b \in Admins : b # a => save'[b] = save[b]
          /\ UNCHANGED <<dbVars, liveVars, loaded>>
      BY <1>4, HookReadFacts
    <2>2. SaveBound(save'[a], version)
      BY <1>0, <2>1 DEF SaveBound
    <2> QED
      BY <1>1, <2>1, <2>2
  <1>5. CASE CopySet(a)
    BY <1>0, <1>5, CopyBounded
  <1>6. CASE Adopt(a)
    <2>1. /\ save[a].st = "committed" /\ Home[a] \in Nodes /\ save[a].unit \in Units
          /\ save'[a].st = "adopting"
          /\ save'[a].unit = save[a].unit /\ save'[a].read = save[a].read
          /\ \A b \in Admins : b # a => save'[b] = save[b]
          /\ loaded'[a].tenant = Tenant[save[a].unit] /\ loaded'[a].set = Nil
          /\ loaded'[a].read = save[a].read
          /\ \A q \in Installers : q # a => loaded'[q] = loaded[q]
          /\ cache'[Home[a]] = cache[Home[a]]
          /\ \A w \in UnitsOf(System) :
                live'[Home[a]][w] = IF w = save[a].unit THEN save[a].read[w] ELSE live[Home[a]][w]
          /\ Elsewhere(a) /\ version' = version
      BY <1>6, AdoptFacts DEF dbVars
    <2>3. \A w \in UnitsOf(Tenant[save[a].unit]) : save[a].read[w] <= version[w]
      BY <1>0, <2>1 DEF SaveBound
    <2>4. SaveBound(save'[a], version) /\ LoadedBound(loaded'[a], version)
      BY <2>1, <2>3 DEF SaveBound, LoadedBound
    <2>5. \A w \in UnitsOf(System) : w = save[a].unit => save[a].read[w] <= version[w]
      BY <2>3 DEF UnitsOf
    <2>6. ServeBound(Home[a])'
      BY <1>0, <2>1, <2>5 DEF ServeBound
    <2> QED
      BY <1>0, <2>1, <2>4, <2>6, BoundedStep
  <1>7. CASE InstallSave(a)
    <2>1. /\ StoreSet(a) /\ version' = version /\ save'[a].st \in {"idle", "hook", "syncing"}
          /\ \A b \in Admins : b # a => save'[b] = save[b]
      BY <1>7, InstallSaveFacts DEF dbVars
    <2>2. SaveBound(save'[a], version)
      BY <1>0, <2>1 DEF SaveBound
    <2> QED
      BY <1>0, <2>1, <2>2, StoreBounded
  <1>8. CASE HookApply(a)
    <2>1. /\ save[a].st = "hooked" /\ Home[a] \in Nodes
          /\ Tenant[save[a].unit] = System /\ save'[a].st = "syncing"
          /\ \A b \in Admins : b # a => save'[b] = save[b]
          /\ loaded'[a].tenant = System /\ loaded'[a].set = Nil
          /\ \A u \in UnitsOf(System) : loaded'[a].read[u] = version[u]
          /\ \A q \in Installers : q # a => loaded'[q] = loaded[q]
          /\ cache'[Home[a]] = cache[Home[a]]
          /\ live'[Home[a]] = IF save[a].read = Nil THEN live[Home[a]] ELSE save[a].read
          /\ Elsewhere(a) /\ version' = version
      BY <1>8, HookApplyFacts DEF dbVars
    <2>2. SaveBound(save'[a], version) /\ LoadedBound(loaded'[a], version)
      BY <1>0, <2>1 DEF SaveBound, LoadedBound
    <2>3. save[a].read # Nil => \A u \in UnitsOf(System) : save[a].read[u] <= version[u]
      BY <1>0, <2>1 DEF SaveBound
    <2>4. ServeBound(Home[a])'
      BY <1>0, <2>1, <2>3 DEF ServeBound
    <2> QED
      BY <1>0, <2>1, <2>2, <2>4, BoundedStep
  <1>9. ASSUME UNCHANGED <<version, liveVars>>, save'[a].st \in {"syncing", "closing"},
               \A b \in Admins : b # a => save'[b] = save[b],
               LoadedBound(loaded'[a], version),
               \A q \in Installers : q # a => loaded'[q] = loaded[q]
        PROVE  Bounded'
    <2>1. SaveBound(save'[a], version)
      BY <1>0, <1>9 DEF SaveBound
    <2>2. /\ \A b \in Admins : SaveBound(save'[b], version)
          /\ \A q \in Installers : LoadedBound(loaded'[q], version)
      BY <1>9, <2>1 DEF Bounded
    <2> QED
      BY <1>9, <2>2 DEF Bounded, ServeBound, liveVars
  <1>10. CASE HookEnds(a)
    <2>1. /\ save'[a].st \in {"syncing", "closing"}
          /\ \A b \in Admins : b # a => save'[b] = save[b]
          /\ loaded'[a].tenant = System /\ loaded'[a].set = Nil
          /\ \A u \in UnitsOf(System) : loaded'[a].read[u] = version[u]
          /\ \A q \in Installers : q # a => loaded'[q] = loaded[q]
          /\ UNCHANGED <<version, liveVars>>
      BY <1>10, HookEndsFacts DEF dbVars
    <2>2. LoadedBound(loaded'[a], version)
      BY <1>0, <2>1 DEF LoadedBound
    <2> QED
      BY <1>9, <2>1, <2>2
  <1>11. ASSUME NEW t \in Tenants, SyncTenant(a, t) PROVE Bounded'
    <2>1. /\ save'[a].st \in {"syncing", "closing"}
          /\ \A b \in Admins : b # a => save'[b] = save[b]
          /\ loaded'[a].tenant = t /\ loaded'[a].set = Nil
          /\ \A u \in UnitsOf(t) : loaded'[a].read[u] <= version[u]
          /\ \A q \in Installers : q # a => loaded'[q] = loaded[q]
          /\ UNCHANGED <<version, liveVars>>
      BY <1>11, SyncTenantFacts DEF dbVars
    <2>2. LoadedBound(loaded'[a], version)
      BY <2>1 DEF LoadedBound
    <2> QED
      BY <1>9, <2>1, <2>2
  <1> QED
    BY <1>2, <1>3, <1>4, <1>5, <1>6, <1>7, <1>8, <1>10, <1>11

LEMMA StoreGrows ==
    ASSUME IInv, NEW a \in Admins, Stored(a)
    PROVE  /\ save[a].unit \in Units /\ save[a].st = "editing"
           /\ version'[save[a].unit] = version[save[a].unit] + 1
           /\ \A u \in Units : u # save[a].unit => version'[u] = version[u]
           /\ \A u \in Units : version[u] \in Nat /\ version'[u] \in Nat /\ version[u] <= version'[u]
  <1>1. save[a].unit \in Units /\ save[a].st = "editing"
    BY DEF Stored, IInv, SaveState
  <1>2. version' = [version EXCEPT ![save[a].unit] = version[save[a].unit] + 1]
    BY DEF Stored
  <1> QED
    BY <1>1, <1>2 DEF IInv, TypeOK, Versions

LEMMA CommitBounded ==
    ASSUME IInv, IInv', Bounded, NEW a \in Admins, Commit(a) \/ CommitUnseen(a)
    PROVE  Bounded'
  <1> DEFINE u == save[a].unit
  <1>1. /\ Stored(a) /\ u \in Units /\ UNCHANGED <<loaded, liveVars>>
        /\ \A b \in Admins : b # a => save'[b] = save[b]
        /\ Commit(a) /\ Home[a] \in Nodes =>
              /\ save'[a].unit = u /\ save'[a].read[u] = version'[u]
              /\ \A w \in UnitsOf(Tenant[u]) : w # u => save'[a].read[w] = save[a].read[w]
        /\ ~Commit(a) \/ Home[a] \notin Nodes => save'[a].st = "idle"
    BY CommitFacts, StoringSteps
  <1>2. /\ save[a].st = "editing"
        /\ \A w \in Units : version[w] \in Nat /\ version'[w] \in Nat /\ version[w] <= version'[w]
    BY <1>1, StoreGrows
  <1>3. /\ \A n \in Nodes : \A w \in UnitsOf(System) : live[n][w] \in Nat
        /\ \A n \in Nodes : \A w \in Units : cache[n][w] \in Nat
        /\ \A t : UnitsOf(t) \subseteq Units
    BY DEF IInv, TypeOK, Versions, UnitsOf
  <1>4. \A n \in Nodes : ServeBound(n)'
    <2> SUFFICES ASSUME NEW n \in Nodes PROVE ServeBound(n)'
        OBVIOUS
    <2>1. live'[n] = live[n] /\ cache'[n] = cache[n] /\ ServeBound(n)
      BY <1>1 DEF liveVars, Bounded
    <2>2. ASSUME NEW w \in Units PROVE cache[n][w] <= version'[w]
      BY <1>2, <1>3, <2>1 DEF ServeBound
    <2>3. ASSUME NEW w \in UnitsOf(System) PROVE live[n][w] <= version'[w]
      <3>1. w \in Units /\ live[n][w] \in Nat /\ live[n][w] <= version[w]
        BY <1>3, <2>1 DEF ServeBound
      <3> QED
        BY <1>2, <3>1
    <2> QED
      BY <2>1, <2>2, <2>3 DEF ServeBound
  <1>5. \A q \in Installers : LoadedBound(loaded'[q], version')
    <2> SUFFICES ASSUME NEW q \in Installers, loaded[q] # Nil PROVE LoadedBound(loaded[q], version')
        BY <1>1 DEF LoadedBound
    <2>1. /\ loaded[q].read \in [UnitsOf(loaded[q].tenant) -> Nat]
          /\ loaded[q].set # Nil => loaded[q].set \in [Units -> Nat]
      BY LoadedFields DEF IInv, TypeOK, Versions, Fingerprints
    <2>2. LoadedBound(loaded[q], version)
      BY DEF Bounded
    <2>3. ASSUME NEW w \in UnitsOf(loaded[q].tenant) PROVE loaded[q].read[w] <= version'[w]
      <3>1. w \in Units /\ loaded[q].read[w] \in Nat /\ loaded[q].read[w] <= version[w]
        BY <1>3, <2>1, <2>2 DEF LoadedBound
      <3> QED
        BY <1>2, <3>1
    <2>4. ASSUME loaded[q].set # Nil, NEW w \in Units PROVE loaded[q].set[w] <= version'[w]
      <3>1. loaded[q].set[w] \in Nat /\ loaded[q].set[w] <= version[w]
        BY <2>1, <2>2, <2>4 DEF LoadedBound
      <3> QED
        BY <1>2, <3>1
    <2> QED
      BY <2>3, <2>4 DEF LoadedBound
  <1>6. \A b \in Admins : b # a => SaveBound(save'[b], version')
    <2> SUFFICES ASSUME NEW b \in Admins, b # a,
                        \/ save[b].st \in {"editing", "committed", "adopting"}
                        \/ save[b].st = "hooked" /\ save[b].read # Nil,
                        NEW w \in UnitsOf(Tenant[save[b].unit])
                 PROVE  save[b].read[w] <= version'[w]
        BY <1>1 DEF SaveBound
    <2>1. save[b].unit \in Units /\ SaveBound(save[b], version)
      BY DEF IInv, SaveState, Bounded
    <2>2. save[b].read \in [UnitsOf(Tenant[save[b].unit]) -> Nat]
      BY <2>1, ReadType DEF IInv, SaveState, Versions
    <2>3. w \in Units /\ save[b].read[w] \in Nat /\ save[b].read[w] <= version[w]
      BY <1>3, <2>1, <2>2 DEF SaveBound
    <2> QED
      BY <1>2, <2>3
  <1>7. SaveBound(save'[a], version')
    <2>1. CASE save'[a].st = "idle"
      BY <2>1 DEF SaveBound
    <2>2. CASE save'[a].st # "idle"
      <3>1. /\ save'[a].unit = u /\ save'[a].read[u] = version'[u]
            /\ \A w \in UnitsOf(Tenant[u]) : w # u => save'[a].read[w] = save[a].read[w]
        BY <1>1, <2>2
      <3>2. save[a].read \in [UnitsOf(Tenant[u]) -> Nat] /\ SaveBound(save[a], version)
        BY <1>2 DEF IInv, SaveState, Bounded, Versions
      <3>3. ASSUME NEW w \in UnitsOf(Tenant[u]) PROVE save'[a].read[w] <= version'[w]
        <4>1. w \in Units /\ save[a].read[w] \in Nat
          BY <1>3, <3>2
        <4>2. save[a].read[w] <= version[w]
          BY <1>2, <3>2, <4>1 DEF SaveBound
        <4> QED
          BY <1>2, <3>1, <4>1, <4>2
      <3> QED
        BY <3>1, <3>3 DEF SaveBound
    <2> QED
      BY <2>1, <2>2
  <1> QED
    BY <1>4, <1>5, <1>6, <1>7 DEF Bounded

LEMMA NextBounded == IInv /\ IInv' /\ Bounded /\ [Next]_vars => Bounded'
  <1> SUFFICES ASSUME IInv, IInv', Bounded, [Next]_vars PROVE Bounded'
      OBVIOUS
  <1>1. CASE UNCHANGED vars
    BY <1>1, SameBounded DEF vars, dbVars, liveVars, workVars
  <1>2. ASSUME NEW n \in Nodes, Receive(n) \/ Disconnect(n) \/ Reconnect(n) PROVE Bounded'
    BY <1>2, IdlingKeeps, SameBounded
  <1>3. CASE PeerJoins
    BY <1>3, SameBounded DEF PeerJoins, dbVars, liveVars, workVars
  <1>4. ASSUME NEW n \in Nodes, WorkerStep(n) PROVE Bounded'
    BY <1>4, WorkerBounded
  <1>5. ASSUME NEW a \in Admins, SaveStep(a) PROVE Bounded'
    BY <1>5, CommitBounded, AdminBounded DEF SaveStep
  <1>6. ASSUME NEW a \in Admins, \E u \in Units : BeginSave(a, u) \/ BeginBlind(a, u) PROVE Bounded'
    BY <1>6, AdminBounded
  <1> QED
    BY <1>1, <1>2, <1>3, <1>4, <1>5, <1>6 DEF Next

-----------------------------------------------------------------------------
(* On a node nobody saves on, the dispatcher's copies only get newer: the  *)
(* snapshots are never ahead of the live config, nor of what is being      *)
(* installed, and a copied set is still the one in force.                  *)
Unattended(n) == \A a \in Admins : Home[a] # n

DispatcherAlone(n) ==
    Unattended(n) /\ healthy[n] =>
        /\ ~undone[n]
        /\ \A u \in UnitsOf(System) : cache[n][u] <= live[n][u]
        /\ loaded[n] # Nil =>
              /\ \A u \in UnitsOf(loaded[n].tenant) : cache[n][u] <= loaded[n].read[u]
              /\ loaded[n].set # Nil =>
                    /\ \A u \in Units : loaded[n].set[u] = cache[n][u]
                    /\ loaded[n].tenant = System =>
                          \A u \in UnitsOf(System) : loaded[n].read[u] = live[n][u]

DispatchersAlone == \A n \in Nodes : DispatcherAlone(n)

LEMMA SameDispatcher ==
    ASSUME NEW n \in Nodes, DispatcherAlone(n), healthy'[n] => healthy[n],
           undone'[n] = undone[n], live'[n] = live[n], cache'[n] = cache[n],
           loaded'[n] = loaded[n]
    PROVE  DispatcherAlone(n)'
  BY DEF DispatcherAlone, Unattended

LEMMA WorkerAlone ==
    ASSUME IInv, Bounded, NEW n \in Nodes, DispatcherAlone(n), WorkerStep(n)
    PROVE  DispatcherAlone(n)'
  <1>0. /\ n \in Installers /\ At(n) = n /\ n \notin Admins /\ ServeBound(n)
        /\ \A u \in Units : version[u] \in Nat /\ cache[n][u] \in Nat
        /\ \A u \in UnitsOf(System) : live[n][u] \in Nat
        /\ \A t : UnitsOf(t) \subseteq Units
    <2>1. ServeBound(n)
      BY DEF Bounded
    <2>2. /\ \A u \in Units : version[u] \in Nat /\ cache[n][u] \in Nat
          /\ \A u \in UnitsOf(System) : live[n][u] \in Nat
      BY DEF IInv, TypeOK, Versions
    <2>3. \A t : UnitsOf(t) \subseteq Units
      BY DEF UnitsOf
    <2> QED
      BY <2>1, <2>2, <2>3, NodeAt
  <1>1. CASE Idling(n)
    <2>1. UNCHANGED <<undone, live, cache, loaded>>
      BY <1>1, IdlingKeeps
    <2>2. healthy'[n] => healthy[n]
      BY <1>1 DEF Idling, TakeWake, Drain, Snapshot, Plan, FinishBatch, ReloadFails, faultVars, IInv, TypeOK
    <2> QED
      BY <2>1, <2>2, SameDispatcher
  <1> SUFFICES ASSUME ~Idling(n), Unattended(n), healthy'[n] PROVE DispatcherAlone(n)'
      BY <1>1 DEF DispatcherAlone, Unattended
  <1>2. CASE ReloadSystem(n)
    <2>1. /\ loaded'[n].tenant = System /\ loaded'[n].set = Nil
          /\ \A u \in UnitsOf(System) : loaded'[n].read[u] = version[u]
          /\ \A u \in UnitsOf(System) : live'[n][u] = IF u \in todo[n] THEN version[u] ELSE live[n][u]
          /\ cache'[n] = cache[n]
          /\ undone'[n] => undone[n] \/ \E u \in UnitsOf(System) : live'[n][u] < live[n][u]
          /\ healthy' = healthy
      BY <1>2, ReloadSystemFacts DEF faultVars
    <2>2. ~undone[n] /\ \A u \in UnitsOf(System) : cache[n][u] <= live[n][u]
      BY <2>1 DEF DispatcherAlone
    <2>3. \A u \in UnitsOf(System) : live[n][u] <= live'[n][u] /\ cache[n][u] <= live'[n][u]
      BY <1>0, <2>1, <2>2 DEF ServeBound
    <2>4. \A u \in UnitsOf(System) : ~(live'[n][u] < live[n][u])
      BY <1>0, <2>1, <2>3
    <2>5. \A u \in UnitsOf(System) : cache[n][u] <= loaded'[n].read[u]
      BY <1>0, <2>1 DEF ServeBound
    <2> QED
      BY <2>1, <2>2, <2>3, <2>4, <2>5 DEF DispatcherAlone
  <1>3. ASSUME NEW t \in Tenants, LoadTenant(n, t) PROVE DispatcherAlone(n)'
    <2>1. /\ loaded'[n].tenant = t /\ loaded'[n].set = Nil
          /\ healthy[n] /\ \A u \in UnitsOf(t) : loaded'[n].read[u] = version[u]
          /\ UNCHANGED liveVars
      BY <1>3, LoadTenantFacts
    <2>2. \A u \in UnitsOf(t) : cache[n][u] <= loaded'[n].read[u]
      BY <1>0, <2>1 DEF ServeBound
    <2> QED
      BY <2>1, <2>2 DEF DispatcherAlone, liveVars
  <1>4. CASE CopySet(n)
    <2>1. /\ loaded[n] # Nil /\ loaded'[n].tenant = loaded[n].tenant
          /\ loaded'[n].set = cache[n]
          /\ loaded'[n].read = IF loaded[n].tenant = System THEN live[n] ELSE loaded[n].read
          /\ UNCHANGED <<liveVars, healthy>>
      BY <1>0, <1>4, CopyFacts
    <2>2. healthy[n]
      BY <2>1
    <2>3. \A u \in UnitsOf(loaded[n].tenant) : cache[n][u] <= loaded'[n].read[u]
      BY <2>1, <2>2 DEF DispatcherAlone
    <2> QED
      BY <2>1, <2>2, <2>3 DEF DispatcherAlone, liveVars
  <1>5. CASE InstallReload(n)
    <2>1. StoreSet(n) /\ healthy' = healthy
      BY <1>5 DEF InstallReload, faultVars
    <2>2. /\ loaded[n] # Nil /\ loaded[n].set # Nil /\ loaded'[n] = Nil
          /\ live'[n] = live[n]
          /\ \A u \in Units : cache'[n][u] = IF Tenant[u] = loaded[n].tenant
                                             THEN loaded[n].read[u] ELSE loaded[n].set[u]
          /\ undone'[n] => undone[n] \/ \E u \in Units : cache'[n][u] < cache[n][u]
      BY <1>0, <2>1, StoreFacts
    <2>3. /\ ~undone[n] /\ \A u \in UnitsOf(System) : cache[n][u] <= live[n][u]
          /\ \A u \in UnitsOf(loaded[n].tenant) : cache[n][u] <= loaded[n].read[u]
          /\ \A u \in Units : loaded[n].set[u] = cache[n][u]
          /\ loaded[n].tenant = System => \A u \in UnitsOf(System) : loaded[n].read[u] = live[n][u]
      BY <2>1, <2>2 DEF DispatcherAlone
    <2>4. /\ loaded[n].read \in [UnitsOf(loaded[n].tenant) -> Nat]
      BY <1>0, <2>2, LoadedFields, Typed DEF IInv, Versions
    <2>5. \A u \in Units : ~(cache'[n][u] < cache[n][u])
      <3> SUFFICES ASSUME NEW u \in Units PROVE ~(cache'[n][u] < cache[n][u])
          OBVIOUS
      <3>1. CASE Tenant[u] = loaded[n].tenant
        <4>1. u \in UnitsOf(loaded[n].tenant) /\ cache'[n][u] = loaded[n].read[u]
          BY <2>2, <3>1 DEF UnitsOf
        <4> QED
          BY <1>0, <2>3, <2>4, <4>1
      <3>2. CASE Tenant[u] # loaded[n].tenant
        BY <1>0, <2>2, <2>3, <3>2
      <3> QED
        BY <3>1, <3>2
    <2>6. \A u \in UnitsOf(System) : cache'[n][u] <= live'[n][u]
      <3> SUFFICES ASSUME NEW u \in UnitsOf(System) PROVE cache'[n][u] <= live[n][u]
          BY <2>2
      <3>1. u \in Units /\ Tenant[u] = System /\ live[n][u] \in Nat
        BY <1>0 DEF UnitsOf
      <3> QED
        BY <2>2, <2>3, <3>1
    <2> QED
      BY <2>2, <2>3, <2>5, <2>6 DEF DispatcherAlone
  <1> QED
    BY <1>2, <1>3, <1>4, <1>5 DEF WorkerStep, Idling

(* What an administrator's steps leave alone.                              *)
Quiet(a) ==
    /\ UNCHANGED <<dispVars, worker, todo, link>>
    /\ \A k \in Nodes : healthy'[k] => healthy[k]
    /\ \A q \in Installers : q # a => loaded'[q] = loaded[q]
    /\ \A b \in Admins : b # a => save'[b] = save[b]
    /\ Elsewhere(a)
    /\ Home[a] \in Nodes => Forward(Home[a])

LEMMA AdminQuiet ==
    ASSUME IInv, NEW a \in Admins,
           SaveStep(a) \/ \E u \in Units : BeginSave(a, u) \/ BeginBlind(a, u)
    PROVE  Quiet(a)
  <1>0. a \in Installers /\ At(a) = Home[a]
    BY AdminAt
  <1>1. CASE SaveFails(a)
    <2>1. UNCHANGED <<busVars, dispVars, worker, todo, healthy, loaded, liveVars>>
      BY <1>1 DEF SaveFails, workVars, faultVars
    <2>2. \A b \in Admins : b # a => save'[b] = save[b]
      BY <1>1, LaterSteps
    <2> QED
      BY <1>0, <2>1, <2>2, SameServe DEF Quiet, busVars
  <1>2. ASSUME NEW u \in Units, BeginSave(a, u) \/ BeginBlind(a, u) PROVE Quiet(a)
    BY <1>0, <1>2, BeginFacts, SameServe DEF Quiet, busVars
  <1>3. CASE HookRead(a)
    BY <1>0, <1>3, HookReadFacts, SameServe DEF Quiet, busVars
  <1>4. CASE CopySet(a)
    BY <1>0, <1>4, CopyFacts, SameServe DEF Quiet, busVars
  <1>5. CASE Adopt(a)
    BY <1>0, <1>5, AdoptFacts DEF Quiet, busVars
  <1>6. CASE InstallSave(a)
    BY <1>0, <1>6, InstallSaveFacts, StoreFacts DEF Quiet, busVars
  <1>7. CASE HookApply(a)
    BY <1>0, <1>7, HookApplyFacts DEF Quiet, busVars
  <1>8. CASE HookEnds(a)
    BY <1>0, <1>8, HookEndsFacts, SameServe DEF Quiet, busVars
  <1>9. ASSUME NEW t \in Tenants, SyncTenant(a, t) PROVE Quiet(a)
    BY <1>0, <1>9, SyncTenantFacts, SameServe DEF Quiet, busVars
  <1>10. CASE Commit(a) \/ CommitUnseen(a)
    BY <1>0, <1>10, CommitFacts, StoringSteps, SameServe DEF Quiet
  <1> QED
    BY <1>1, <1>2, <1>3, <1>4, <1>5, <1>6, <1>7, <1>8, <1>9, <1>10 DEF SaveStep

(* The steps of another node's dispatcher.                                 *)
LEMMA OtherWorker ==
    ASSUME IInv, NEW n \in Nodes, NEW k \in Nodes, k # n, WorkerStep(k)
    PROVE  /\ inbox'[n] = inbox[n] /\ pending'[n] = pending[n] /\ wake'[n] = wake[n]
           /\ worker'[n] = worker[n] /\ todo'[n] = todo[n] /\ loaded'[n] = loaded[n]
           /\ healthy'[n] = healthy[n] /\ version' = version /\ save' = save
           /\ live'[n] = live[n] /\ cache'[n] = cache[n] /\ undone'[n] = undone[n]
           /\ \A a \in Admins : loaded'[a] = loaded[a]
  <1>0. n \in Installers /\ k \in Installers /\ At(k) = k /\ k \notin Admins
        /\ \A a \in Admins : a \in Installers
    BY NodeAt, AdminAt
  <1>1. CASE Idling(k)
    <2>1. UNCHANGED <<version, live, cache, undone, loaded, save>>
      BY <1>1, IdlingKeeps
    <2>2. /\ inbox'[n] = inbox[n] /\ pending'[n] = pending[n] /\ wake'[n] = wake[n]
          /\ worker'[n] = worker[n] /\ todo'[n] = todo[n] /\ healthy'[n] = healthy[n]
      BY <1>1 DEF Idling, TakeWake, Drain, Snapshot, Plan, FinishBatch, ReloadFails, busVars,
                  dispVars, faultVars, IInv, TypeOK
    <2> QED
      BY <2>1, <2>2
  <1>2. CASE ReloadSystem(k)
    BY <1>0, <1>2, ReloadSystemFacts DEF Elsewhere, dbVars, busVars, dispVars, faultVars
  <1>3. ASSUME NEW t \in Tenants, LoadTenant(k, t)
        PROVE  /\ \A q \in Installers : q # k => loaded'[q] = loaded[q]
               /\ UNCHANGED <<dbVars, busVars, dispVars, worker, todo, liveVars, save>>
               /\ healthy'[n] = healthy[n]
    BY <1>3, LoadTenantFacts
  <1>4. CASE CopySet(k)
    BY <1>0, <1>4, CopyFacts DEF liveVars, dbVars, busVars, dispVars
  <1>5. CASE InstallReload(k)
    <2>1. /\ StoreSet(k) /\ UNCHANGED <<dbVars, busVars, dispVars, worker, save, faultVars>>
          /\ todo' = [todo EXCEPT ![k] = @ \ UnitsOf(loaded[k].tenant)]
      BY <1>5 DEF InstallReload
    <2>2. todo'[n] = todo[n]
      BY <2>1 DEF IInv, TypeOK
    <2>3. /\ \A q \in Installers : q # k => loaded'[q] = loaded[q]
          /\ Elsewhere(k)
      BY <1>0, <2>1, StoreFacts
    <2> QED
      BY <1>0, <2>1, <2>2, <2>3 DEF Elsewhere, dbVars, busVars, dispVars, faultVars
  <1> QED
    BY <1>0, <1>1, <1>2, <1>3, <1>4, <1>5 DEF WorkerStep, Idling, dbVars, busVars, dispVars, liveVars

LEMMA BusKeeps ==
    ASSUME IInv, NEW k \in Nodes, Receive(k) \/ Disconnect(k) \/ Reconnect(k) \/ PeerJoins
    PROVE  /\ UNCHANGED <<version, live, cache, undone, loaded, save, worker, todo>>
           /\ \A n \in Nodes : healthy'[n] => healthy[n]
  BY DEF Receive, Disconnect, Reconnect, PeerJoins, dbVars, liveVars, workVars, faultVars, IInv, TypeOK

LEMMA NextAlone == IInv /\ Bounded /\ DispatchersAlone /\ [Next]_vars => DispatchersAlone'
  <1> SUFFICES ASSUME IInv, Bounded, DispatchersAlone, [Next]_vars, NEW n \in Nodes
               PROVE  DispatcherAlone(n)'
      BY DEF DispatchersAlone
  <1>0. DispatcherAlone(n) /\ n \in Installers /\ n \notin Admins
    BY NodeAt DEF DispatchersAlone
  <1>1. CASE UNCHANGED vars
    BY <1>0, <1>1, SameDispatcher DEF vars, liveVars, workVars, faultVars
  <1>2. ASSUME NEW k \in Nodes, Receive(k) \/ Disconnect(k) \/ Reconnect(k) \/ PeerJoins
        PROVE  DispatcherAlone(n)'
    BY <1>0, <1>2, BusKeeps, SameDispatcher
  <1>3. ASSUME NEW k \in Nodes, WorkerStep(k) PROVE DispatcherAlone(n)'
    <2>1. CASE k = n
      BY <1>0, <1>3, <2>1, WorkerAlone
    <2>2. CASE k # n
      <3>1. /\ healthy'[n] = healthy[n] /\ undone'[n] = undone[n] /\ live'[n] = live[n]
            /\ cache'[n] = cache[n] /\ loaded'[n] = loaded[n]
        BY <1>3, <2>2, OtherWorker
      <3> QED
        BY <1>0, <3>1, SameDispatcher
    <2> QED
      BY <2>1, <2>2
  <1>4. ASSUME NEW a \in Admins,
               SaveStep(a) \/ \E u \in Units : BeginSave(a, u) \/ BeginBlind(a, u)
        PROVE  DispatcherAlone(n)'
    <2>1. CASE Home[a] = n
      BY <2>1 DEF DispatcherAlone, Unattended
    <2>2. CASE Home[a] # n
      <3>1. /\ healthy'[n] => healthy[n]
            /\ undone'[n] = undone[n] /\ live'[n] = live[n] /\ cache'[n] = cache[n]
            /\ loaded'[n] = loaded[n]
        BY <1>0, <1>4, <2>2, AdminAt, AdminQuiet DEF Quiet, Elsewhere
      <3> QED
        BY <1>0, <3>1, SameDispatcher
    <2> QED
      BY <2>1, <2>2
  <1> QED
    BY <1>1, <1>2, <1>3, <1>4 DEF Next
-----------------------------------------------------------------------------
(* A stale unit has a reload or an adoption ahead.                         *)

Due(n, u) == Announced(n, u) \/ Queued(n, u)

(* The dispatcher's installation under way is about the unit.              *)
InHand(n, u) == loaded[n] # Nil /\ loaded[n].tenant = Tenant[u] /\ u \in todo[n]

(* A save of the unit is being made live on its node: the live config has  *)
(* it already, and so has the copy handed to the manager.                  *)
Adopting(a, n, u) ==
    Home[a] = n /\ save[a].st = "adopting" /\ save[a].unit = u =>
        /\ Tenant[u] = System => live[n][u] >= save[a].read[u]
        /\ loaded[a] # Nil /\ loaded[a].set # Nil => loaded[a].read[u] >= save[a].read[u]

(* StaleIsDue for one unit of a node where no install was undone, with     *)
(* what the two kinds of installation under way rest on.                   *)
UnitState(n, u) ==
    healthy[n] /\ ~undone[n] =>
        /\ Stale(n, u) => Due(n, u) \/ BeingAdopted(n, u) \/ BeingReloaded(n, u)
        /\ InHand(n, u) /\ Tenant[u] = System => live[n][u] >= loaded[n].read[u]
        /\ \A a \in Admins : Adopting(a, n, u)

UnitStates == \A n \in Nodes, u \in Units : UnitState(n, u)

LEMMA TailHas ==
    ASSUME NEW S, NEW q \in Seq(S), NEW u, NEW i \in 1..Len(q), q[i] = u, Head(q) # u
    PROVE  \E j \in 1..Len(Tail(q)) : Tail(q)[j] = u
  <1>1. q # <<>> /\ i # 1
    OBVIOUS
  <1>2. i - 1 \in 1..Len(Tail(q)) /\ Tail(q)[i - 1] = u
    BY <1>1
  <1> QED
    BY <1>2

LEMMA AppendHas ==
    ASSUME NEW S, NEW q \in Seq(S), NEW m \in S
    PROVE  /\ \E j \in 1..Len(Append(q, m)) : Append(q, m)[j] = m
           /\ \A i \in 1..Len(q) : i \in 1..Len(Append(q, m)) /\ Append(q, m)[i] = q[i]
  <1>1. Len(q) + 1 \in 1..Len(Append(q, m)) /\ Append(q, m)[Len(q) + 1] = m
    OBVIOUS
  <1> QED
    BY <1>1

LEMMA SameDue ==
    ASSUME NEW n \in Nodes, NEW u \in Units,
           inbox'[n] = inbox[n], pending'[n] = pending[n], wake[n] => wake'[n],
           worker'[n] = worker[n]
    PROVE  Due(n, u) => Due(n, u)'
  BY DEF Due, Announced, Queued

(* A node that only moves forward does not become stale by itself.         *)
LEMMA StaleBefore ==
    ASSUME IInv, IInv', Bounded', NEW n \in Nodes, NEW u \in Units, version'[u] = version[u],
           Forward(n), ~undone'[n], Stale(n, u)'
    PROVE  Stale(n, u)
  <1>1. /\ cache[n][u] \in Nat /\ cache'[n][u] \in Nat /\ version[u] \in Nat
        /\ Tenant[u] = System => u \in UnitsOf(System)
        /\ \A w \in UnitsOf(System) : live[n][w] \in Nat /\ live'[n][w] \in Nat
    <2>1. TypeOK /\ TypeOK'
      BY DEF IInv
    <2>2. cache[n][u] \in Nat /\ cache'[n][u] \in Nat /\ version[u] \in Nat
      BY <2>1 DEF TypeOK, Versions
    <2>3. live[n] \in [UnitsOf(System) -> Nat] /\ live'[n] \in [UnitsOf(System) -> Nat]
      BY <2>1 DEF TypeOK, Versions
    <2> QED
      BY <2>2, <2>3 DEF UnitsOf
  <1>2. /\ cache'[n][u] <= version[u]
        /\ \A w \in UnitsOf(System) : live'[n][w] <= version'[w]
    BY DEF Bounded, ServeBound
  <1>3. /\ cache'[n][u] >= cache[n][u]
        /\ \A w \in UnitsOf(System) : live'[n][w] >= live[n][w]
    BY DEF Forward
  <1>4. CASE cache'[n][u] # version[u]
    BY <1>1, <1>2, <1>3, <1>4 DEF Stale
  <1>5. CASE Tenant[u] = System /\ live'[n][u] # version[u]
    BY <1>1, <1>2, <1>3, <1>5 DEF Stale
  <1> QED
    BY <1>4, <1>5 DEF Stale

(* The saves other than administrator a's.                                 *)
LEMMA OthersAdopt ==
    ASSUME IInv, IInv', NEW n \in Nodes, NEW u \in Units, Forward(n), ~undone'[n],
           NEW b \in Admins, save'[b] = save[b], loaded'[b] = loaded[b], Adopting(b, n, u)
    PROVE  Adopting(b, n, u)'
  <1> SUFFICES ASSUME Home[b] = n, save[b].st = "adopting", save[b].unit = u
               PROVE  Adopting(b, n, u)'
      BY DEF Adopting
  <1>1. save[b].read \in [UnitsOf(Tenant[u]) -> Nat] /\ u \in UnitsOf(Tenant[u])
    BY DEF IInv, SaveState, Versions, UnitsOf
  <1>2. Tenant[u] = System => live'[n][u] >= save[b].read[u]
    <2> SUFFICES ASSUME Tenant[u] = System PROVE live'[n][u] >= save[b].read[u]
        OBVIOUS
    <2>1. u \in UnitsOf(System) /\ live[n][u] >= save[b].read[u]
      BY <1>1 DEF Adopting
    <2>2. live[n][u] \in Nat /\ live'[n][u] \in Nat /\ live'[n][u] >= live[n][u]
      BY <2>1 DEF IInv, TypeOK, Versions, Forward
    <2> QED
      BY <1>1, <2>1, <2>2
  <1> QED
    BY <1>2 DEF Adopting

(* Steps that leave the unit's row and the node's dispatcher alone, take   *)
(* no event away and do not move the node back.                            *)
LEMMA QuietUnit ==
    ASSUME IInv, IInv', Bounded', NEW n \in Nodes, NEW u \in Units, UnitState(n, u),
           healthy'[n] => healthy[n], version'[u] = version[u], Forward(n),
           loaded'[n] = loaded[n], todo[n] \subseteq todo'[n], loaded[n] # Nil => todo'[n] = todo[n],
           Due(n, u) => Due(n, u)',
           BeingAdopted(n, u) /\ ~undone'[n] => BeingAdopted(n, u)' \/ ~Stale(n, u)',
           \A a \in Admins : Adopting(a, n, u) /\ ~undone'[n] => Adopting(a, n, u)'
    PROVE  UnitState(n, u)'
  <1> SUFFICES ASSUME healthy'[n], ~undone'[n]
               PROVE  /\ Stale(n, u)' => Due(n, u)' \/ BeingAdopted(n, u)' \/ BeingReloaded(n, u)'
                      /\ InHand(n, u)' /\ Tenant[u] = System => live'[n][u] >= loaded'[n].read[u]
                      /\ \A a \in Admins : Adopting(a, n, u)'
      BY DEF UnitState
  <1>1. healthy[n] /\ ~undone[n]
    BY DEF Forward
  <1>2. /\ Stale(n, u) => Due(n, u) \/ BeingAdopted(n, u) \/ BeingReloaded(n, u)
        /\ InHand(n, u) /\ Tenant[u] = System => live[n][u] >= loaded[n].read[u]
        /\ \A a \in Admins : Adopting(a, n, u)
    BY <1>1 DEF UnitState
  <1>3. BeingReloaded(n, u) => BeingReloaded(n, u)'
    BY DEF BeingReloaded
  <1>4. Stale(n, u)' => Stale(n, u)
    BY StaleBefore
  <1>5. ASSUME InHand(n, u)', Tenant[u] = System PROVE live'[n][u] >= loaded'[n].read[u]
    <2>1. InHand(n, u) /\ loaded'[n] = loaded[n] /\ loaded[n] # Nil
      BY <1>5 DEF InHand
    <2>2. u \in UnitsOf(System) /\ loaded[n].read[u] \in Nat
      <3>1. n \in Installers /\ loaded[n].tenant = System
        BY <1>5, <2>1, NodeAt DEF InHand
      <3> QED
        BY <1>5, <2>1, <3>1, LoadedFields, Typed DEF IInv, UnitsOf, Versions
    <2>3. live[n][u] \in Nat /\ live'[n][u] \in Nat /\ live'[n][u] >= live[n][u]
      BY <2>2 DEF IInv, TypeOK, Versions, Forward
    <2> QED
      BY <1>2, <1>5, <2>1, <2>2, <2>3
  <1> QED
    BY <1>2, <1>3, <1>4, <1>5

(* A step that changes neither the saves nor what the administrators have  *)
(* under way.                                                              *)
LEMMA SavesKept ==
    ASSUME IInv, IInv', NEW n \in Nodes, NEW u \in Units, Forward(n), version'[u] = version[u],
           save' = save, \A a \in Admins : loaded'[a] = loaded[a]
    PROVE  /\ BeingAdopted(n, u) => BeingAdopted(n, u)'
           /\ \A a \in Admins : Adopting(a, n, u) /\ ~undone'[n] => Adopting(a, n, u)'
  <1>1. BeingAdopted(n, u) => BeingAdopted(n, u)'
    BY DEF BeingAdopted
  <1> QED
    BY <1>1, OthersAdopt

LEMMA ServeSame ==
    ASSUME IInv, NEW n \in Nodes, live'[n] = live[n], cache'[n] = cache[n], undone'[n] = undone[n]
    PROVE  Forward(n)
  <1>1. /\ \A u \in UnitsOf(System) : live[n][u] \in Nat
        /\ \A u \in Units : cache[n][u] \in Nat
    BY DEF IInv, TypeOK, Versions
  <1> QED
    BY <1>1 DEF Forward

LEMMA BusUnit ==
    ASSUME IInv, IInv', Bounded', NEW n \in Nodes, NEW u \in Units, UnitState(n, u), NEW k \in Nodes,
           Receive(k) \/ Disconnect(k) \/ Reconnect(k) \/ PeerJoins
    PROVE  UnitState(n, u)'
  <1>0. /\ UNCHANGED <<version, live, cache, undone, loaded, save, worker, todo>>
        /\ healthy'[n] => healthy[n]
    BY BusKeeps
  <1>1. /\ Forward(n)
        /\ BeingAdopted(n, u) => BeingAdopted(n, u)'
        /\ \A a \in Admins : Adopting(a, n, u) /\ ~undone'[n] => Adopting(a, n, u)'
    BY <1>0, ServeSame, SavesKept
  <1>2. ASSUME Due(n, u) => Due(n, u)' PROVE UnitState(n, u)'
    BY <1>0, <1>1, <1>2, QuietUnit
  <1>3. CASE Receive(k)
    <2>1. CASE k # n
      BY <1>2, <1>3, <2>1, SameDue DEF Receive, IInv, TypeOK, workVars
    <2>2. CASE k = n
      <3>1. Announced(n, u) => Due(n, u)'
        <4> SUFFICES ASSUME Announced(n, u) PROVE Due(n, u)'
            OBVIOUS
        <4>1. CASE Head(inbox[n]) = u
          <5>1. u # Joined
            BY MessagesAssumption
          <5>2. u \in pending'[n] /\ wake'[n]
            BY <1>3, <2>2, <4>1, <5>1 DEF Receive, IInv, TypeOK
          <5> QED
            BY <5>2 DEF Due, Queued
        <4>2. CASE Head(inbox[n]) # u
          <5>1. PICK i \in 1..Len(inbox[n]) : inbox[n][i] = u
            BY DEF Announced
          <5>2. inbox[n] \in Seq(Units \cup {Joined}) /\ inbox'[n] = Tail(inbox[n])
            BY <1>3, <2>2 DEF Receive, IInv, TypeOK
          <5>3. \E j \in 1..Len(Tail(inbox[n])) : Tail(inbox[n])[j] = u
            BY <4>2, <5>1, <5>2, TailHas
          <5> QED
            BY <5>2, <5>3 DEF Due, Announced
        <4> QED
          BY <4>1, <4>2
      <3>2. pending[n] \subseteq pending'[n] /\ wake'[n]
        BY <1>3, <2>2 DEF Receive, IInv, TypeOK
      <3> QED
        BY <1>2, <3>1, <3>2 DEF Due, Queued
    <2> QED
      BY <2>1, <2>2
  <1>4. CASE Disconnect(k)
    <2>1. CASE k = n
      BY <1>4, <2>1 DEF Disconnect, UnitState, IInv, TypeOK
    <2>2. CASE k # n
      BY <1>2, <1>4, <2>2, SameDue DEF Disconnect, IInv, TypeOK, dispVars, workVars
    <2> QED
      BY <2>1, <2>2
  <1>5. CASE Reconnect(k)
    BY <1>2, <1>5, SameDue DEF Reconnect, IInv, TypeOK, workVars
  <1>6. CASE PeerJoins
    <2>1. inbox[n] \in Seq(Units \cup {Joined}) /\ inbox'[n] \in {inbox[n], Append(inbox[n], Joined)}
      BY <1>6 DEF PeerJoins, Notified, IInv, TypeOK
    <2>2. Announced(n, u) => Announced(n, u)'
      BY <2>1, AppendHas DEF Announced
    <2> QED
      BY <1>2, <1>6, <2>2 DEF PeerJoins, Due, Queued, dispVars, workVars
  <1> QED
    BY <1>3, <1>4, <1>5, <1>6

LEMMA OtherWorkerUnit ==
    ASSUME IInv, IInv', Bounded', NEW n \in Nodes, NEW u \in Units, UnitState(n, u),
           NEW k \in Nodes, k # n, WorkerStep(k)
    PROVE  UnitState(n, u)'
  <1>1. /\ inbox'[n] = inbox[n] /\ pending'[n] = pending[n] /\ wake'[n] = wake[n]
        /\ worker'[n] = worker[n] /\ todo'[n] = todo[n] /\ loaded'[n] = loaded[n]
        /\ healthy'[n] = healthy[n] /\ version' = version /\ save' = save
        /\ live'[n] = live[n] /\ cache'[n] = cache[n] /\ undone'[n] = undone[n]
        /\ \A a \in Admins : loaded'[a] = loaded[a]
    BY OtherWorker
  <1>2. Forward(n)
    BY <1>1, ServeSame
  <1> QED
    BY <1>1, <1>2, SameDue, SavesKept, QuietUnit

LEMMA IdlingUnit ==
    ASSUME IInv, IInv', Bounded', NEW n \in Nodes, NEW u \in Units, UnitState(n, u), Idling(n)
    PROVE  UnitState(n, u)'
  <1>0. UNCHANGED <<version, live, cache, undone, loaded, save>>
    BY IdlingKeeps
  <1>1. /\ Forward(n)
        /\ BeingAdopted(n, u) => BeingAdopted(n, u)'
        /\ \A a \in Admins : Adopting(a, n, u) /\ ~undone'[n] => Adopting(a, n, u)'
    BY <1>0, ServeSame, SavesKept
  <1>2. ASSUME Due(n, u) => Due(n, u)', todo[n] \subseteq todo'[n],
               loaded[n] # Nil => todo'[n] = todo[n], healthy'[n] => healthy[n]
        PROVE  UnitState(n, u)'
    BY <1>0, <1>1, <1>2, QuietUnit
  <1>3. CASE TakeWake(n)
    <2>1. Due(n, u) => Due(n, u)'
      BY <1>3 DEF TakeWake, Due, Announced, Queued, IInv, TypeOK, busVars
    <2> QED
      BY <1>2, <1>3, <2>1 DEF TakeWake, faultVars
  <1>4. CASE Drain(n)
    <2>1. loaded[n] = Nil /\ loaded'[n] = Nil /\ todo[n] = {} /\ todo'[n] = pending[n] /\ healthy' = healthy
      BY <1>0, <1>4 DEF Drain, IInv, WorkState, TypeOK, faultVars
    <2>2. Announced(n, u) => Announced(n, u)'
      BY <1>4 DEF Drain, Announced, busVars
    <2>3. Due(n, u) => Due(n, u)' \/ BeingReloaded(n, u)'
      BY <2>1, <2>2 DEF Due, Queued, BeingReloaded
    <2>4. ~InHand(n, u)' /\ ~BeingReloaded(n, u)
      BY <2>1 DEF InHand, BeingReloaded
    <2>5. Stale(n, u)' = Stale(n, u)
      BY <1>0 DEF Stale
    <2> QED
      BY <1>0, <1>1, <2>1, <2>3, <2>4, <2>5 DEF UnitState
  <1>5. CASE Snapshot(n)
    <2>1. Due(n, u) => Due(n, u)'
      BY <1>5 DEF Snapshot, Due, Announced, Queued, IInv, TypeOK, busVars, dispVars
    <2> QED
      BY <1>2, <1>5, <2>1 DEF Snapshot
  <1>6. CASE Plan(n)
    <2>1. Due(n, u) => Due(n, u)'
      BY <1>6 DEF Plan, Due, Announced, Queued, IInv, TypeOK, busVars, dispVars
    <2>2. todo[n] \subseteq todo'[n] /\ loaded[n] = Nil /\ healthy' = healthy
      BY <1>6 DEF Plan, IInv, TypeOK, WorkState, faultVars
    <2> QED
      BY <1>2, <2>1, <2>2
  <1>7. CASE FinishBatch(n)
    <2>1. Due(n, u) => Due(n, u)'
      BY <1>7 DEF FinishBatch, Due, Announced, Queued, IInv, TypeOK, busVars, dispVars
    <2> QED
      BY <1>2, <1>7, <2>1 DEF FinishBatch, faultVars
  <1>8. ASSUME NEW skipped \in SUBSET Units, ReloadFails(n, skipped) PROVE UnitState(n, u)'
    BY <1>8 DEF ReloadFails, UnitState, IInv, TypeOK
  <1> QED
    BY <1>3, <1>4, <1>5, <1>6, <1>7, <1>8 DEF Idling

LEMMA LiveBound ==
    ASSUME IInv, Bounded, NEW n \in Nodes, NEW u \in Units, Tenant[u] = System
    PROVE  /\ u \in UnitsOf(System) /\ live[n][u] \in Nat /\ version[u] \in Nat
           /\ live[n][u] <= version[u]
  <1>1. u \in UnitsOf(System)
    BY DEF UnitsOf
  <1>2. live[n][u] \in Nat /\ version[u] \in Nat
    BY <1>1 DEF IInv, TypeOK, Versions
  <1>3. live[n][u] <= version[u]
    BY <1>1 DEF Bounded, ServeBound
  <1> QED
    BY <1>1, <1>2, <1>3

(* A reload reads: what it read is what is stored.                         *)
LEMMA LoadUnit ==
    ASSUME IInv, IInv', Bounded', NEW n \in Nodes, NEW u \in Units, UnitState(n, u),
           NEW t \in AllTenants, loaded[n] = Nil, loaded'[n].tenant = t,
           healthy'[n] => healthy[n] /\ \A w \in UnitsOf(t) : loaded'[n].read[w] = version[w],
           healthy'[n] /\ t = System =>
               \A w \in UnitsOf(System) : w \in todo[n] => live'[n][w] = version[w],
           Forward(n), \A a \in Admins : loaded'[a] = loaded[a],
           UNCHANGED <<dbVars, busVars, dispVars, worker, todo, save>>
    PROVE  UnitState(n, u)'
  <1> SUFFICES ASSUME healthy'[n], ~undone'[n]
               PROVE  /\ Stale(n, u)' => Due(n, u)' \/ BeingAdopted(n, u)' \/ BeingReloaded(n, u)'
                      /\ InHand(n, u)' /\ Tenant[u] = System => live'[n][u] >= loaded'[n].read[u]
                      /\ \A a \in Admins : Adopting(a, n, u)'
      BY DEF UnitState
  <1>1. healthy[n] /\ ~undone[n] /\ version' = version
    BY DEF Forward, dbVars
  <1>2. /\ Stale(n, u) => Due(n, u) \/ BeingAdopted(n, u) \/ BeingReloaded(n, u)
        /\ \A a \in Admins : Adopting(a, n, u)
    BY <1>1 DEF UnitState
  <1>3. Stale(n, u)' => Stale(n, u)
    BY <1>1, StaleBefore
  <1>4. Due(n, u) => Due(n, u)'
    BY SameDue DEF busVars, dispVars
  <1>5. /\ BeingAdopted(n, u) => BeingAdopted(n, u)'
        /\ \A a \in Admins : Adopting(a, n, u)'
    BY <1>1, <1>2, SavesKept
  <1>6. Tenant[u] = t => loaded'[n].read[u] = version[u]
    BY DEF UnitsOf
  <1>7. BeingReloaded(n, u) => BeingReloaded(n, u)'
    BY <1>1, <1>6 DEF BeingReloaded
  <1>8. ASSUME InHand(n, u)', Tenant[u] = System PROVE live'[n][u] >= loaded'[n].read[u]
    <2>1. t = System /\ u \in todo[n] /\ u \in UnitsOf(System)
      BY <1>8 DEF InHand, UnitsOf
    <2>2. live'[n][u] = version[u] /\ loaded'[n].read[u] = version[u] /\ version[u] \in Nat
      BY <1>6, <1>8, <2>1 DEF IInv, TypeOK, Versions
    <2> QED
      BY <2>2
  <1> QED
    BY <1>2, <1>3, <1>4, <1>5, <1>7, <1>8

LEMMA CopyUnit ==
    ASSUME IInv, IInv', Bounded, Bounded', NEW n \in Nodes, NEW u \in Units, UnitState(n, u), CopySet(n)
    PROVE  UnitState(n, u)'
  <1>0. n \in Installers /\ At(n) = n /\ \A a \in Admins : a \in Installers /\ a # n
    BY NodeAt, AdminAt
  <1>1. /\ loaded[n] # Nil /\ loaded'[n].tenant = loaded[n].tenant
        /\ loaded'[n].read = IF loaded[n].tenant = System THEN live[n] ELSE loaded[n].read
        /\ \A a \in Admins : loaded'[a] = loaded[a]
        /\ UNCHANGED <<dbVars, busVars, dispVars, worker, todo, liveVars, save, healthy>>
    BY <1>0, CopyFacts
  <1>2. /\ version' = version /\ Forward(n) /\ Stale(n, u)' = Stale(n, u)
    BY <1>1, ServeSame DEF dbVars, liveVars, Stale
  <1>3. Due(n, u) => Due(n, u)'
    BY <1>1, SameDue DEF busVars, dispVars
  <1>4. /\ BeingAdopted(n, u) => BeingAdopted(n, u)'
        /\ \A a \in Admins : Adopting(a, n, u) /\ ~undone'[n] => Adopting(a, n, u)'
    BY <1>1, <1>2, SavesKept
  <1> SUFFICES ASSUME healthy[n], ~undone[n]
               PROVE  /\ BeingReloaded(n, u) => BeingReloaded(n, u)'
                      /\ InHand(n, u)' /\ Tenant[u] = System => live'[n][u] >= loaded'[n].read[u]
      BY <1>1, <1>2, <1>3, <1>4 DEF UnitState, liveVars
  <1>5. InHand(n, u) /\ Tenant[u] = System => live[n][u] >= loaded[n].read[u]
    BY DEF UnitState
  <1>6. Tenant[u] = System => /\ u \in UnitsOf(System) /\ live[n][u] \in Nat /\ version[u] \in Nat
                              /\ live[n][u] <= version[u]
    BY LiveBound
  <1>7. BeingReloaded(n, u) => BeingReloaded(n, u)'
    <2> SUFFICES ASSUME BeingReloaded(n, u), loaded[n].tenant = System, Tenant[u] = System,
                        loaded[n].read[u] = version[u]
                 PROVE  live[n][u] = version[u]
        BY <1>1, <1>2 DEF BeingReloaded
    <2>1. InHand(n, u)
      BY <1>1 DEF InHand, BeingReloaded
    <2> QED
      BY <1>5, <1>6, <2>1
  <1>8. ASSUME InHand(n, u)', Tenant[u] = System PROVE live'[n][u] >= loaded'[n].read[u]
    <2>1. loaded'[n].read = live[n] /\ live'[n] = live[n]
      BY <1>1, <1>8 DEF InHand, liveVars
    <2> QED
      BY <1>6, <1>8, <2>1
  <1> QED
    BY <1>7, <1>8

LEMMA InstallUnit ==
    ASSUME IInv, IInv', Bounded, Bounded', NEW n \in Nodes, NEW u \in Units, UnitState(n, u),
           InstallReload(n)
    PROVE  UnitState(n, u)'
  <1>0. n \in Installers /\ At(n) = n /\ \A a \in Admins : a \in Installers /\ a # n
    BY NodeAt, AdminAt
  <1>1. /\ StoreSet(n) /\ UNCHANGED <<dbVars, busVars, dispVars, worker, save, healthy>>
        /\ todo'[n] = todo[n] \ UnitsOf(loaded[n].tenant)
    BY DEF InstallReload, IInv, TypeOK, faultVars
  <1>2. /\ loaded[n] # Nil /\ loaded'[n] = Nil
        /\ \A a \in Admins : loaded'[a] = loaded[a]
        /\ live'[n] = live[n] /\ Forward(n)
        /\ cache'[n][u] = IF Tenant[u] = loaded[n].tenant THEN loaded[n].read[u] ELSE loaded[n].set[u]
    BY <1>0, <1>1, StoreFacts
  <1> SUFFICES ASSUME healthy'[n], ~undone'[n]
               PROVE  /\ Stale(n, u)' => Due(n, u)' \/ BeingAdopted(n, u)' \/ BeingReloaded(n, u)'
                      /\ ~InHand(n, u)'
                      /\ \A a \in Admins : Adopting(a, n, u)'
      BY DEF UnitState
  <1>3. healthy[n] /\ ~undone[n] /\ version' = version
    BY <1>1, <1>2 DEF Forward, dbVars
  <1>4. /\ Stale(n, u) => Due(n, u) \/ BeingAdopted(n, u) \/ BeingReloaded(n, u)
        /\ InHand(n, u) /\ Tenant[u] = System => live[n][u] >= loaded[n].read[u]
        /\ \A a \in Admins : Adopting(a, n, u)
    BY <1>3 DEF UnitState
  <1>5. Stale(n, u)' => Stale(n, u)
    BY <1>2, <1>3, StaleBefore
  <1>6. Due(n, u) => Due(n, u)'
    BY <1>1, SameDue DEF busVars, dispVars
  <1>7. /\ BeingAdopted(n, u) => BeingAdopted(n, u)'
        /\ \A a \in Admins : Adopting(a, n, u)'
    BY <1>1, <1>2, <1>3, <1>4, SavesKept
  <1>8. BeingReloaded(n, u) => BeingReloaded(n, u)' \/ ~Stale(n, u)'
    <2>1. CASE loaded[n].tenant # Tenant[u]
      BY <1>1, <1>2, <2>1 DEF BeingReloaded, UnitsOf
    <2>2. CASE loaded[n].tenant = Tenant[u]
      <3> SUFFICES ASSUME BeingReloaded(n, u) PROVE ~Stale(n, u)'
          OBVIOUS
      <3>1. InHand(n, u) /\ cache'[n][u] = version[u] /\ loaded[n].read[u] = version[u]
        BY <1>2, <2>2 DEF BeingReloaded, InHand
      <3>2. Tenant[u] = System => /\ live[n][u] \in Nat /\ version[u] \in Nat
                                  /\ live[n][u] <= version[u]
        BY LiveBound
      <3>3. Tenant[u] = System => live'[n][u] = version[u]
        BY <1>2, <1>4, <3>1, <3>2
      <3> QED
        BY <1>3, <3>1, <3>3 DEF Stale
    <2> QED
      BY <2>1, <2>2
  <1>9. ~InHand(n, u)'
    BY <1>2 DEF InHand
  <1> QED
    BY <1>4, <1>5, <1>6, <1>7, <1>8, <1>9

LEMMA WorkerUnit ==
    ASSUME IInv, IInv', Bounded, Bounded', NEW n \in Nodes, NEW u \in Units, UnitState(n, u),
           WorkerStep(n)
    PROVE  UnitState(n, u)'
  <1>0. n \in Installers /\ At(n) = n /\ \A a \in Admins : a \in Installers /\ a # n
    BY NodeAt, AdminAt
  <1>1. CASE ReloadSystem(n)
    BY <1>0, <1>1, ReloadSystemFacts, SystemRead, LoadUnit DEF faultVars
  <1>2. ASSUME NEW t \in Tenants, LoadTenant(n, t) PROVE UnitState(n, u)'
    <2>1. /\ loaded[n] = Nil /\ t # System /\ t \in AllTenants /\ loaded'[n].tenant = t
          /\ healthy'[n] => healthy[n] /\ \A w \in UnitsOf(t) : loaded'[n].read[w] = version[w]
          /\ \A a \in Admins : loaded'[a] = loaded[a]
          /\ UNCHANGED <<dbVars, busVars, dispVars, worker, todo, liveVars, save>>
      BY <1>0, <1>2, LoadTenantFacts DEF AllTenants
    <2>3. Forward(n)
      BY <2>1, ServeSame DEF liveVars
    <2> QED
      BY <2>1, <2>3, LoadUnit
  <1> QED
    BY <1>1, <1>2, IdlingUnit, CopyUnit, InstallUnit DEF WorkerStep, Idling

(* The steps of a save that store nothing.                                 *)
Handling(a) ==
    \/ SaveFails(a) \/ Adopt(a) \/ CopySet(a) \/ InstallSave(a) \/ HookRead(a)
    \/ HookApply(a) \/ HookEnds(a) \/ \E t \in Tenants : SyncTenant(a, t)
    \/ \E u \in Units : BeginSave(a, u) \/ BeginBlind(a, u)

(* The save that stored the newest version of the unit.                    *)
Newest(a, n, u) ==
    /\ Home[a] = n /\ save[a].st \in {"committed", "adopting"}
    /\ save[a].unit = u /\ save[a].read[u] = version[u]

LEMMA HandlingKeeps ==
    ASSUME IInv, NEW a \in Admins, Handling(a)
    PROVE  UNCHANGED <<dbVars, busVars>>
  BY DEF Handling, SaveFails, Adopt, CopySet, InstallSave, HookRead, HookApply, HookEnds, SyncTenant,
         BeginSave, BeginBlind

(* What a save does to its own claim: it keeps it until its installation,  *)
(* which leaves the node with what is stored.                              *)
LEMMA OwnUnit ==
    ASSUME IInv, IInv', Bounded, Bounded', NEW n \in Nodes, NEW u \in Units, NEW a \in Admins,
           Handling(a), ~undone'[n], Adopting(a, n, u)
    PROVE  /\ Adopting(a, n, u)'
           /\ Newest(a, n, u) => Newest(a, n, u)' \/ ~Stale(n, u)'
  <1>0. a \in Installers /\ At(a) = Home[a] /\ version' = version
    BY AdminAt, HandlingKeeps DEF dbVars
  <1>1. ASSUME save'[a].st # "adopting", save[a].st \notin {"committed", "adopting"}
        PROVE  /\ Adopting(a, n, u)'
               /\ Newest(a, n, u) => Newest(a, n, u)' \/ ~Stale(n, u)'
    BY <1>1 DEF Adopting, Newest
  <1>2. CASE SaveFails(a)
    <2>1. save'[a] = NoSave /\ save[a].st = "editing"
      BY <1>2 DEF SaveFails, IInv, TypeOK
    <2>2. NoSave.st = "idle"
      BY DEF NoSave
    <2> QED
      BY <1>1, <2>1, <2>2
  <1>3. ASSUME NEW w \in Units, BeginSave(a, w) \/ BeginBlind(a, w)
        PROVE  save'[a].st # "adopting" /\ save[a].st \notin {"committed", "adopting"}
    BY <1>3, BeginFacts
  <1>4. CASE HookRead(a)
    BY <1>1, <1>4, HookReadFacts
  <1>5. CASE HookApply(a)
    BY <1>1, <1>5, HookApplyFacts
  <1>6. CASE HookEnds(a)
    BY <1>1, <1>6, HookEndsFacts
  <1>7. ASSUME NEW t \in Tenants, SyncTenant(a, t)
        PROVE  save'[a].st # "adopting" /\ save[a].st \notin {"committed", "adopting"}
    BY <1>7, SyncTenantFacts
  <1>8. CASE Adopt(a)
    <2>1. /\ save[a].st = "committed" /\ save[a].unit \in Units
          /\ save'[a].st = "adopting" /\ save'[a].unit = save[a].unit /\ save'[a].read = save[a].read
          /\ loaded'[a].set = Nil
          /\ \A w \in UnitsOf(System) :
                live'[Home[a]][w] = IF w = save[a].unit THEN save[a].read[w] ELSE live[Home[a]][w]
      BY <1>8, AdoptFacts
    <2>2. Newest(a, n, u) => Newest(a, n, u)'
      BY <1>0, <2>1 DEF Newest
    <2>3. Adopting(a, n, u)'
      <3> SUFFICES ASSUME Home[a] = n, save[a].unit = u, Tenant[u] = System
                   PROVE  live'[n][u] >= save[a].read[u]
          BY <2>1 DEF Adopting
      <3>1. u \in UnitsOf(System) /\ save[a].read[u] \in Nat
        BY <2>1 DEF UnitsOf, IInv, SaveState, Versions
      <3> QED
        BY <2>1, <3>1
    <2> QED
      BY <2>2, <2>3
  <1>9. CASE CopySet(a)
    <2>1. /\ loaded[a] # Nil /\ save' = save /\ live' = live
          /\ loaded'[a].read = IF loaded[a].tenant = System THEN live[Home[a]] ELSE loaded[a].read
      BY <1>0, <1>9, CopyFacts DEF liveVars
    <2>2. Newest(a, n, u) => Newest(a, n, u)'
      BY <1>0, <2>1 DEF Newest
    <2>3. Adopting(a, n, u)'
      <3> SUFFICES ASSUME Home[a] = n, save[a].st = "adopting", save[a].unit = u
                   PROVE  loaded'[a].read[u] >= save[a].read[u]
          BY <2>1 DEF Adopting
      <3>1. /\ save[a].read[u] \in Nat /\ loaded[a].tenant = Tenant[u]
            /\ loaded[a].tenant # System => loaded[a].read = save[a].read
        BY DEF UnitsOf, IInv, SaveState, Versions
      <3>2. Tenant[u] = System => live[n][u] >= save[a].read[u]
        BY DEF Adopting
      <3> QED
        BY <2>1, <3>1, <3>2
    <2> QED
      BY <2>2, <2>3
  <1>10. CASE InstallSave(a)
    <2>1. StoreSet(a) /\ save'[a].st \in {"idle", "hook", "syncing"} /\ Home[a] \in Nodes
          /\ save[a].st # "committed"
      BY <1>10, InstallSaveFacts
    <2>2. /\ loaded[a] # Nil /\ loaded[a].set # Nil
          /\ live'[Home[a]] = live[Home[a]]
          /\ \A w \in Units : cache'[Home[a]][w] = IF Tenant[w] = loaded[a].tenant
                                                    THEN loaded[a].read[w] ELSE loaded[a].set[w]
      BY <1>0, <2>1, StoreFacts
    <2>3. ASSUME Newest(a, n, u) PROVE ~Stale(n, u)'
      <3>1. Home[a] = n /\ save[a].st = "adopting" /\ save[a].unit = u /\ save[a].read[u] = version[u]
        BY <2>1, <2>3 DEF Newest
      <3>2. loaded[a].tenant = Tenant[u]
        BY <3>1 DEF IInv, SaveState
      <3>3. cache'[n][u] = loaded[a].read[u] /\ loaded[a].read[u] >= version[u]
        BY <2>2, <3>1, <3>2 DEF Adopting
      <3>4. cache'[n][u] <= version[u] /\ cache'[n][u] \in Nat /\ version[u] \in Nat
        <4>1. ServeBound(n)'
          BY DEF Bounded
        <4>2. cache'[n][u] \in Nat /\ version[u] \in Nat
          BY DEF IInv, TypeOK, Versions
        <4> QED
          BY <1>0, <4>1, <4>2 DEF ServeBound
      <3>5. Tenant[u] = System => live'[n][u] = version[u]
        BY <2>2, <3>1, LiveBound DEF Adopting
      <3> QED
        BY <1>0, <3>3, <3>4, <3>5 DEF Stale
    <2>4. Adopting(a, n, u)'
      BY <2>1 DEF Adopting
    <2> QED
      BY <2>3, <2>4
  <1> QED
    BY <1>1, <1>2, <1>3, <1>4, <1>5, <1>6, <1>7, <1>8, <1>9, <1>10 DEF Handling

LEMMA HandlingUnit ==
    ASSUME IInv, IInv', Bounded, Bounded', NEW n \in Nodes, NEW u \in Units, UnitState(n, u),
           NEW a \in Admins, Handling(a), Quiet(a)
    PROVE  UnitState(n, u)'
  <1>0. /\ n \in Installers /\ n # a /\ At(a) = Home[a] /\ \A b \in Admins : b \in Installers
        /\ version' = version /\ inbox' = inbox
    BY NodeAt, AdminAt, HandlingKeeps DEF dbVars, busVars
  <1>1. /\ UNCHANGED <<pending, wake, worker, todo>> /\ (healthy'[n] => healthy[n])
        /\ \A q \in Installers : q # a => loaded'[q] = loaded[q]
        /\ \A b \in Admins : b # a => save'[b] = save[b]
    BY DEF Quiet, dispVars
  <1>2. Forward(n)
    <2>1. CASE Home[a] = n
      BY <2>1 DEF Quiet
    <2>2. CASE Home[a] # n
      BY <1>0, <2>2, ServeSame DEF Quiet, Elsewhere
    <2> QED
      BY <2>1, <2>2
  <1>3. Due(n, u) => Due(n, u)'
    BY <1>0, <1>1, SameDue
  <1>4. ASSUME NEW b \in Admins, Adopting(b, n, u), ~undone'[n] PROVE Adopting(b, n, u)'
    <2>1. CASE b = a
      BY <1>4, <2>1, OwnUnit
    <2>2. CASE b # a
      BY <1>0, <1>1, <1>2, <1>4, <2>2, OthersAdopt
    <2> QED
      BY <2>1, <2>2
  <1>5. ASSUME healthy'[n], BeingAdopted(n, u), ~undone'[n]
        PROVE  BeingAdopted(n, u)' \/ ~Stale(n, u)'
    <2>1. PICK b \in Admins : Newest(b, n, u)
      BY <1>5 DEF BeingAdopted, Newest
    <2>2. Adopting(b, n, u)
      BY <1>1, <1>2, <1>5 DEF UnitState, Forward
    <2>3. Newest(b, n, u)' \/ ~Stale(n, u)'
      <3>1. CASE b = a
        BY <1>5, <2>1, <2>2, <3>1, OwnUnit
      <3>2. CASE b # a
        BY <1>0, <1>1, <2>1, <3>2 DEF Newest
      <3> QED
        BY <3>1, <3>2
    <2> QED
      BY <2>3 DEF BeingAdopted, Newest
  <1>6. CASE healthy'[n]
    BY <1>0, <1>1, <1>2, <1>3, <1>4, <1>5, <1>6, QuietUnit
  <1>7. CASE ~healthy'[n]
    BY <1>7 DEF UnitState
  <1> QED
    BY <1>6, <1>7

(* A commit on another node announces the unit; one on this node has yet   *)
(* to make it live there, unless its answer was lost.                      *)
LEMMA CommitUnit ==
    ASSUME IInv, IInv', Bounded, Bounded', NEW n \in Nodes, NEW u \in Units, UnitState(n, u),
           NEW a \in Admins, Commit(a) \/ CommitUnseen(a), Quiet(a)
    PROVE  UnitState(n, u)'
  <1> DEFINE w == save[a].unit
  <1>0. /\ n \in Installers /\ n # a /\ \A b \in Admins : b \in Installers
    BY NodeAt, AdminAt
  <1>1. /\ Stored(a) /\ w \in Units
        /\ Commit(a) /\ Home[a] \in Nodes =>
              save'[a].st = "committed" /\ save'[a].unit = w /\ save'[a].read[w] = version'[w]
        /\ ~Commit(a) \/ Home[a] \notin Nodes => save'[a].st = "idle"
        /\ ~Commit(a) /\ Home[a] \in Nodes => ~healthy'[Home[a]]
        /\ healthy'[n] => healthy[n]
        /\ UNCHANGED <<dispVars, worker, todo, loaded, liveVars>>
    BY CommitFacts
  <1>2. save[a].st = "editing" /\ \A v \in Units : v # w => version'[v] = version[v]
    BY <1>1, StoreGrows
  <1>3. /\ save'[a].st # "adopting"
        /\ \A b \in Admins : b # a => save'[b] = save[b]
    BY <1>1 DEF Quiet
  <1>4. Forward(n)
    BY <1>1, ServeSame DEF liveVars
  <1>5. ASSUME NEW b \in Admins, Adopting(b, n, u), ~undone'[n] PROVE Adopting(b, n, u)'
    <2>1. CASE b = a
      BY <1>3, <2>1 DEF Adopting
    <2>2. CASE b # a
      BY <1>1, <1>3, <1>4, <1>5, <2>2, OthersAdopt
    <2> QED
      BY <2>1, <2>2
  <1>6. /\ inbox[n] \in Seq(Units \cup {Joined}) /\ (healthy[n] => link[n])
        /\ inbox'[n] = IF link[n] /\ n # Home[a] THEN Append(inbox[n], w) ELSE inbox[n]
    BY <1>1 DEF IInv, TypeOK, WorkState, Stored, Notified
  <1>7. CASE w # u
    <2>1. Announced(n, u) => Announced(n, u)'
      BY <1>1, <1>6, AppendHas DEF Announced
    <2>2. Due(n, u) => Due(n, u)'
      BY <1>1, <2>1 DEF Due, Queued, dispVars
    <2>3. BeingAdopted(n, u) => BeingAdopted(n, u)'
      BY <1>2, <1>3, <1>7 DEF BeingAdopted
    <2> QED
      BY <1>1, <1>2, <1>4, <1>5, <1>7, <2>2, <2>3, QuietUnit
  <1>8. CASE w = u
    <2> SUFFICES ASSUME healthy'[n], ~undone'[n]
                 PROVE  /\ Due(n, u)' \/ BeingAdopted(n, u)'
                        /\ InHand(n, u)' /\ Tenant[u] = System => live'[n][u] >= loaded'[n].read[u]
                        /\ \A b \in Admins : Adopting(b, n, u)'
        BY DEF UnitState
    <2>1. healthy[n] /\ ~undone[n]
      BY <1>1, <1>4 DEF Forward
    <2>2. /\ InHand(n, u) /\ Tenant[u] = System => live[n][u] >= loaded[n].read[u]
          /\ \A b \in Admins : Adopting(b, n, u)
      BY <2>1 DEF UnitState
    <2>3. InHand(n, u)' /\ Tenant[u] = System => live'[n][u] >= loaded'[n].read[u]
      BY <1>1, <2>2 DEF InHand, liveVars
    <2>4. CASE Home[a] = n
      <3>1. save'[a].st = "committed" /\ save'[a].unit = u /\ save'[a].read[u] = version'[u]
        BY <1>1, <1>8, <2>4
      <3>2. BeingAdopted(n, u)'
        BY <2>4, <3>1 DEF BeingAdopted
      <3> QED
        BY <1>5, <2>2, <2>3, <3>2
    <2>5. CASE Home[a] # n
      <3>1. inbox'[n] = Append(inbox[n], u)
        BY <1>6, <1>8, <2>1, <2>5
      <3>2. \E j \in 1..Len(Append(inbox[n], u)) : Append(inbox[n], u)[j] = u
        BY <1>6, AppendHas
      <3>3. Announced(n, u)'
        BY <3>1, <3>2 DEF Announced
      <3> QED
        BY <1>5, <2>2, <2>3, <3>3 DEF Due
    <2> QED
      BY <2>4, <2>5
  <1> QED
    BY <1>7, <1>8

LEMMA NextUnitStates ==
    IInv /\ IInv' /\ Bounded /\ Bounded' /\ UnitStates /\ [Next]_vars => UnitStates'
  <1> SUFFICES ASSUME IInv, IInv', Bounded, Bounded', UnitStates, [Next]_vars,
                      NEW n \in Nodes, NEW u \in Units
               PROVE  UnitState(n, u)'
      BY DEF UnitStates
  <1>1. UnitState(n, u)
    BY DEF UnitStates
  <1>2. CASE UNCHANGED vars
    <2>1. /\ UNCHANGED <<version, live, cache, undone, loaded, save, worker, todo, healthy>>
          /\ UNCHANGED <<inbox, pending, wake>>
      BY <1>2 DEF vars, dbVars, busVars, dispVars, workVars, liveVars, faultVars
    <2>2. Forward(n)
      BY <2>1, ServeSame
    <2> QED
      BY <1>1, <2>1, <2>2, SameDue, SavesKept, QuietUnit
  <1>3. ASSUME NEW k \in Nodes, WorkerStep(k) PROVE UnitState(n, u)'
    BY <1>1, <1>3, WorkerUnit, OtherWorkerUnit
  <1>4. ASSUME NEW a \in Admins,
               SaveStep(a) \/ \E w \in Units : BeginSave(a, w) \/ BeginBlind(a, w)
        PROVE  UnitState(n, u)'
    <2>1. Quiet(a)
      BY <1>4, AdminQuiet
    <2>2. CASE Commit(a) \/ CommitUnseen(a)
      BY <1>1, <2>1, <2>2, CommitUnit
    <2>3. CASE Handling(a)
      BY <1>1, <2>1, <2>3, HandlingUnit
    <2> QED
      BY <1>4, <2>2, <2>3 DEF SaveStep, Handling
  <1> QED
    BY <1>1, <1>2, <1>3, <1>4, BusUnit DEF Next

(* On a node whose listener never lost its connection, whose reloads never *)
(* failed and where no answer to a commit was lost, a stale unit always    *)
(* has an event in the listener, in the dispatcher with its worker woken,  *)
(* a reload that has yet to read it or has read it, or a save that has yet *)
(* to make it live: no interleaving of commits, notifications, drains,     *)
(* snapshots and reloads loses it, unless an install on the node has put   *)
(* an older copy over a newer one; and without saves on the node none can. *)
THEOREM NoEventLost == Spec => []StaleIsDue
  <1>1. Init => Bounded /\ DispatchersAlone /\ UnitStates
    <2> SUFFICES ASSUME Init PROVE Bounded /\ DispatchersAlone /\ UnitStates
        OBVIOUS
    <2>1. /\ \A n \in Nodes : \A u \in Units : cache[n][u] = 0 /\ version[u] = 0
          /\ \A n \in Nodes : \A u \in UnitsOf(System) : live[n][u] = 0 /\ version[u] = 0
          /\ \A n \in Nodes : ~undone[n] /\ todo[n] = {}
          /\ \A p \in Installers : loaded[p] = Nil
          /\ \A a \in Admins : save[a].st = "idle"
      BY DEF Init, NoSave, UnitsOf
    <2>2. Bounded
      BY <2>1 DEF Bounded, ServeBound, LoadedBound, SaveBound
    <2>3. DispatchersAlone
      <3>1. \A n \in Nodes : \A u \in UnitsOf(System) : cache[n][u] <= live[n][u]
        BY <2>1 DEF UnitsOf
      <3>2. \A n \in Nodes : loaded[n] = Nil
        BY <2>1, NodeAt
      <3> QED
        BY <2>1, <3>1, <3>2 DEF DispatchersAlone, DispatcherAlone
    <2>4. UnitStates
      <3> SUFFICES ASSUME NEW n \in Nodes, NEW u \in Units PROVE UnitState(n, u)
          BY DEF UnitStates
      <3>1. ~Stale(n, u)
        BY <2>1 DEF Stale, UnitsOf
      <3> QED
        BY <2>1, <3>1, NodeAt DEF UnitState, InHand, Adopting
    <2> QED
      BY <2>2, <2>3, <2>4
  <1>2. UnitStates /\ DispatchersAlone => StaleIsDue
    <2> SUFFICES ASSUME UnitStates, DispatchersAlone, NEW n \in Nodes, NEW u \in Units,
                        Undisturbed(n), Stale(n, u)
                 PROVE  Due(n, u) \/ BeingReloaded(n, u) \/ BeingAdopted(n, u)
        BY DEF StaleIsDue, Due
    <2>1. healthy[n] /\ ~undone[n]
      BY DEF Undisturbed, DispatchersAlone, DispatcherAlone, Unattended
    <2> QED
      BY <2>1 DEF UnitStates, UnitState
  <1> QED
    BY <1>1, <1>2, NextBounded, NextAlone, NextUnitStates, InductiveInvariant, PTL DEF Spec
=============================================================================
