--------------------------- MODULE WsRelay_proofs ---------------------------
(***************************************************************************)
(* Proofs about WsRelay, for any sessions, calls, providers, channel       *)
(* capacity and number of parts: the types, that no caller is left behind  *)
(* a cleanup, that the table names the live sessions, what a panic of the  *)
(* read loop or of a cleanup needs, when the service keeps a credential    *)
(* nobody serves, and that a success is a whole answer.                    *)
(***************************************************************************)
EXTENDS WsRelay, SequenceTheorems, TLAPS

-----------------------------------------------------------------------------
(* Types.                                                                  *)

CallStates == {"idle", "found", "stored", "loaded", "waiting", "done"}
Calls == [st : CallStates, kind : Kinds \cup {Nil}, sess : Sessions \cup {Nil},
          got : SUBSET (1..MaxParts), result : Results \cup {Nil}]
Loops == {AtLoop(st) : st \in {"off", "reading", "ended"}}
            \cup [st : {"dispatch"}, id : Requests, msg : Messages]

TypeOK ==
    /\ table \in [Providers -> Sessions \cup {Nil}]
    /\ handler \in [Sessions -> {"new", "registered", "done"}]
    /\ replaced \in [Sessions -> Sessions \cup {Nil}]
    /\ evicted \subseteq Sessions
    /\ closed \in [Sessions -> BOOLEAN]
    /\ clean \in [Sessions -> {"no", "ranging", "unregistered", "done"}]
    /\ cause \in [Sessions -> Causes \cup {Nil}]
    /\ left \in [Sessions -> SUBSET Requests]
    /\ visiting \in [Sessions -> Requests \cup {Nil}]
    /\ pending \in [Sessions -> SUBSET Requests]
    /\ reader \in [Sessions -> Loops]
    /\ heard \in [Providers -> {"nothing", "connected", "gone"}]
    /\ chan \in [Requests -> Seq(Messages)]
    /\ chClosed \in [Requests -> BOOLEAN]
    /\ call \in [Requests -> Calls]
    /\ waiter \in [Requests -> {"none", "armed", "done"}]
    /\ ctxDone \in [Requests -> BOOLEAN]
    /\ sent \in [Requests -> 0..MaxParts]
    /\ answered \in [Requests -> Terminals \cup {Nil}]
    /\ lost \in [Requests -> BOOLEAN]
    /\ crashed \in Requests \cup {Nil}
    /\ early \subseteq Sessions

-----------------------------------------------------------------------------
(* Who may hold a reference to a call.                                     *)

(* The call has reached a session: its entry was stored there.             *)
Stored(r) == call[r].st \notin {"idle", "found"} /\ call[r].sess # Nil

(* Dispatch of session s holds a message of call r.                        *)
Holds(s, r) == Dispatching(s) /\ reader[s].id = r

(* session.closed is closed by the cleanup, which alone reads entries.     *)
Closing ==
    /\ \A s \in Sessions : closed[s] <=> clean[s] # "no"
    /\ \A s \in Sessions : visiting[s] # Nil => clean[s] = "ranging"

(* Every reference to a call - its entry in the map, the Range's copy, a   *)
(* dispatch, its waiter - leads to the session it was sent to.             *)
References ==
    /\ \A r \in Requests :
           /\ call[r].st = "idle" => call[r].sess = Nil
           /\ call[r].st \in {"found", "stored", "loaded", "waiting"} => call[r].sess # Nil
    /\ \A s \in Sessions, r \in Requests :
           r \in pending[s] \/ visiting[s] = r => Stored(r) /\ call[r].sess = s
    /\ \A s \in Sessions, r \in Requests :
           Holds(s, r) => Stored(r) /\ call[r].sess = s /\ call[r].st \in {"waiting", "done"}
    /\ \A r \in Requests : waiter[r] = "armed" => Stored(r)

(* A channel is closed exactly when its entry is taken out of the map.     *)
OpenIsPending ==
    \A r \in Requests :
        /\ ~Stored(r) => ~chClosed[r]
        /\ Stored(r) => (r \in pending[call[r].sess] <=> ~chClosed[r])

(* Only a context that ended or a closed session closes a channel under a  *)
(* dispatch.                                                               *)
ClosedUnderDispatch ==
    \A s \in Sessions, r \in Requests :
        Holds(s, r) /\ chClosed[r] => ctxDone[r] \/ closed[s]

-----------------------------------------------------------------------------
(* The table and what the service is told.                                 *)

(* A session does nothing before it is registered, and reads nothing       *)
(* before it is announced.                                                 *)
Fresh ==
    \A s \in Sessions :
        /\ handler[s] = "new" => clean[s] = "no" /\ s \notin evicted /\ replaced[s] = Nil
        /\ handler[s] # "done" => reader[s].st = "off"

(* The table maps a provider to a registered session of its own that is    *)
(* not unregistered.                                                       *)
TableEntries ==
    \A p \in Providers : table[p] # Nil =>
        /\ Provider[table[p]] = p
        /\ handler[table[p]] # "new"
        /\ clean[table[p]] \in {"no", "ranging"}

(* A handler waits for a session of its own provider, until it announces.  *)
Replacements ==
    \A t \in Sessions : replaced[t] # Nil =>
        handler[t] = "registered" /\ Provider[replaced[t]] = Provider[t]

(* A session that is cleaned up as replaced has a successor that waits for *)
(* it.                                                                     *)
Successors ==
    \A s \in Sessions : cause[s] = "replaced" =>
        /\ clean[s] # "done"
        /\ \E t \in Sessions : replaced[t] = s

(* early records every end that was reported before the beginning.         *)
EarlyEnds ==
    /\ \A s \in Sessions : clean[s] = "done" /\ handler[s] # "done" => s \in early
    /\ \A s \in early : handler[s] # "new"

(* The service has a credential because a session of the provider is about *)
(* to announce itself, has yet to end, or ended early.                     *)
ConnectedHasReason ==
    \A p \in Providers : heard[p] = "connected" =>
        \E s \in Sessions :
            /\ Provider[s] = p
            /\ \/ handler[s] = "registered"
               \/ handler[s] = "done" /\ clean[s] # "done"
               \/ s \in early

-----------------------------------------------------------------------------
(* Where the parts of an answer are.                                       *)

IsPart(m) == m.type = "part"
Parts(q) == {q[i].n : i \in {j \in 1..Len(q) : IsPart(q[j])}}
InFlight(r) ==
    {reader[s].msg.n : s \in {t \in Sessions : Holds(t, r) /\ IsPart(reader[t].msg)}}

(* Every part that was sent is with the caller, in the channel or in a     *)
(* dispatch, if none was dropped.                                          *)
Conserved ==
    crashed = Nil => \A r \in Requests : ~lost[r] =>
        call[r].got \cup Parts(chan[r]) \cup InFlight(r) = 1..sent[r]

(* The end of an answer is its last message: nothing follows it in the     *)
(* channel, nothing of the call is in a dispatch.                          *)
EndIsLast ==
    \A r \in Requests : \A i \in 1..Len(chan[r]) : chan[r][i].type = "end" =>
        /\ i = Len(chan[r])
        /\ chClosed[r]
        /\ answered[r] = "end"
        /\ \A s \in Sessions : ~Holds(s, r)

(* What a dispatch holds is the last thing the client sent.                *)
InDispatch ==
    \A s \in Sessions, r \in Requests : Holds(s, r) =>
        IF IsTerminal(reader[s].msg) THEN answered[r] = reader[s].msg.type
        ELSE answered[r] = Nil

(* A caller that finds its channel closed has found a last message before. *)
ClosedByLast ==
    \A r \in Requests :
        call[r].st # "done" /\ chClosed[r] /\ ~lost[r] /\ ~ctxDone[r] =>
            chan[r] # <<>> /\ IsTerminal(chan[r][Len(chan[r])])

(* A call with a result is over.                                           *)
ResultIsFinal == \A r \in Requests : call[r].result # Nil => call[r].st = "done"

-----------------------------------------------------------------------------
(* Messages, records and channels.                                         *)

LEMMA Constants ==
    /\ Nil \notin Sessions /\ Nil \notin Requests /\ Nil \notin Kinds
    /\ Nil \notin Causes /\ Nil \notin Terminals /\ Nil \notin Results
    /\ Capacity \in Nat /\ MaxParts \in Nat
    /\ \A s \in Sessions : Provider[s] \in Providers
    /\ \A r \in Requests : Target[r] \in Providers
  BY NilAssumption, CapacityAssumption, BoundAssumption DEF Providers

LEMMA MessageFacts ==
    /\ \A m \in Messages :
         /\ IsTerminal(m) <=> m.type # "part"
         /\ IsTerminal(m) => m.type \in Terminals
         /\ IsPart(m) <=> ~IsTerminal(m)
         /\ IsPart(m) => m.n \in 1..MaxParts
    /\ \A k \in 1..MaxParts : Part(k) \in Messages /\ IsPart(Part(k)) /\ Part(k).n = k
    /\ \A t \in Terminals : Last(t) \in Messages /\ Last(t).type = t
  BY DEF Messages, Part, Last, IsTerminal, IsPart, Terminals

(* What the read loop holds.                                               *)
LEMMA LoopFacts ==
    ASSUME TypeOK, NEW s \in Sessions
    PROVE  /\ reader[s].st \in {"off", "reading", "ended", "dispatch"}
           /\ Dispatching(s) => reader[s].id \in Requests /\ reader[s].msg \in Messages
           /\ ~Dispatching(s) => reader[s] = AtLoop(reader[s].st)
  <1>1. reader[s] \in Loops
    BY DEF TypeOK
  <1> QED
    BY <1>1 DEF Loops, AtLoop, Dispatching

LEMMA LoopTypes ==
    /\ \A st \in {"off", "reading", "ended"} : AtLoop(st) \in Loops /\ AtLoop(st).st = st
    /\ \A r \in Requests, m \in Messages : [st |-> "dispatch", id |-> r, msg |-> m] \in Loops
  BY DEF Loops, AtLoop

LEMMA CallFacts ==
    ASSUME TypeOK, NEW r \in Requests
    PROVE  /\ call[r] \in Calls
           /\ call[r].st \in CallStates /\ call[r].kind \in Kinds \cup {Nil}
           /\ call[r].sess \in Sessions \cup {Nil}
           /\ call[r].got \subseteq 1..MaxParts /\ call[r].result \in Results \cup {Nil}
  BY DEF TypeOK, Calls

LEMMA OfferType ==
    ASSUME TypeOK, NEW r \in Requests, NEW m \in Messages, Offer(r, m)
    PROVE  chan' \in [Requests -> Seq(Messages)] /\ lost' \in [Requests -> BOOLEAN]
  <1>1. Append(chan[r], m) \in Seq(Messages)
    BY AppendProperties DEF TypeOK
  <1> QED
    BY <1>1 DEF Offer, TypeOK

LEMMA ForgetType ==
    ASSUME TypeOK, NEW s, NEW r \in Requests, Forget(s, r)
    PROVE  pending' \in [Sessions -> SUBSET Requests] /\ chClosed' \in [Requests -> BOOLEAN]
  <1>1. chClosed' \in [Requests -> BOOLEAN]
    <2>1. CASE r \in pending[s]
      BY <2>1 DEF Forget, CloseChan, TypeOK
    <2>2. CASE r \notin pending[s]
      BY <2>2 DEF Forget, TypeOK
    <2> QED
      BY <2>1, <2>2
  <1>2. pending' \in [Sessions -> SUBSET Requests]
    BY DEF Forget, TypeOK
  <1> QED
    BY <1>1, <1>2

(* A cleanup's callback and a dispatch, by what they find.                 *)
Panics(r) == chClosed[r] /\ crashed' = r /\ UNCHANGED <<pending, chan, chClosed, lost>>

LEMMA FailPendingEffect ==
    ASSUME TypeOK, NEW s \in Sessions, FailPending(s)
    PROVE  /\ visiting[s] \in Requests
           /\ visiting' = [visiting EXCEPT ![s] = Nil]
           /\ left' = [left EXCEPT ![s] = @ \ {visiting[s]}]
           /\ \/ Panics(visiting[s])
              \/ /\ ~chClosed[visiting[s]]
                 /\ Offer(visiting[s], Last("error"))
                 /\ pending' = [pending EXCEPT ![s] = @ \ {visiting[s]}]
                 /\ chClosed' = [chClosed EXCEPT ![visiting[s]] = TRUE]
                 /\ UNCHANGED crashed
           /\ UNCHANGED <<sessVars, closed, clean, cause, reader, callVars, clientVars>>
  <1>1. visiting[s] \in Requests
    BY DEF FailPending, TypeOK
  <1>2. CASE chClosed[visiting[s]]
    BY <1>1, <1>2 DEF FailPending, Panics, chanVars
  <1>3. CASE ~chClosed[visiting[s]]
    BY <1>1, <1>3 DEF FailPending, CloseChan
  <1> QED
    BY <1>2, <1>3

LEMMA DispatchEffect ==
    ASSUME TypeOK, NEW s \in Sessions, Dispatch(s)
    PROVE  LET r == reader[s].id
               m == reader[s].msg
           IN  /\ r \in Requests /\ m \in Messages /\ Holds(s, r)
               /\ reader' = [reader EXCEPT ![s] = AtLoop("reading")]
               /\ \/ Panics(r)
                  \/ /\ ~chClosed[r]
                     /\ Offer(r, m)
                     /\ \/ IsTerminal(m) /\ Forget(s, r)
                        \/ ~IsTerminal(m) /\ UNCHANGED <<pending, chClosed>>
                     /\ UNCHANGED crashed
               /\ UNCHANGED <<sessVars, cleanVars, callVars, clientVars>>
  <1> DEFINE r == reader[s].id
             m == reader[s].msg
  <1>1. r \in Requests /\ m \in Messages /\ Holds(s, r)
    BY LoopFacts DEF Dispatch, Holds
  <1>2. CASE chClosed[r]
    BY <1>1, <1>2 DEF Dispatch, Panics, chanVars
  <1>3. CASE ~chClosed[r]
    BY <1>1, <1>3 DEF Dispatch
  <1> QED
    BY <1>2, <1>3

LEMMA FinishType ==
    ASSUME TypeOK, NEW r \in Requests, NEW res \in Results, Finish(r, res)
    PROVE  call' \in [Requests -> Calls]
  <1>1. call[r] \in Calls /\ call \in [Requests -> Calls]
    BY DEF TypeOK
  <1>2. [call[r] EXCEPT !.st = "done", !.result = res] \in Calls
    BY <1>1 DEF Calls, CallStates
  <1> QED
    BY <1>1, <1>2 DEF Finish

LEMMA StateType ==
    ASSUME TypeOK, NEW r \in Requests, NEW st \in CallStates,
           call' = [call EXCEPT ![r].st = st]
    PROVE  call' \in [Requests -> Calls]
  <1>1. call[r] \in Calls /\ call \in [Requests -> Calls]
    BY DEF TypeOK
  <1>2. [call[r] EXCEPT !.st = st] \in Calls
    BY <1>1 DEF Calls
  <1> QED
    BY <1>1, <1>2

-----------------------------------------------------------------------------
(* The type invariant.                                                     *)

LEMMA TypeInit == Init => TypeOK
  <1>1. NoCall \in Calls
    BY DEF NoCall, Calls, CallStates
  <1>2. <<>> \in Seq(Messages) /\ AtLoop("off") \in Loops /\ 0 \in 0..MaxParts
    BY LoopTypes, Constants, EmptySeq
  <1> QED
    BY <1>1, <1>2 DEF Init, TypeOK

LEMMA SessionTypeStep ==
    ASSUME TypeOK, NEW s \in Sessions,
           Connect(s) \/ Announce(s) \/ Evict(s) \/ PingFails(s) \/ ReadFails(s)
             \/ HandleSessionClosed(s) \/ Notify(s)
    PROVE  TypeOK'
  <1> USE Constants, LoopTypes
  <1>1. CASE Connect(s)
    BY <1>1 DEF Connect, TypeOK, cleanVars, callVars, chanVars, clientVars
  <1>2. CASE Announce(s)
    BY <1>2 DEF Announce, TypeOK, cleanVars, callVars, chanVars, clientVars
  <1>3. CASE Evict(s)
    BY <1>3 DEF Evict, StartCleanup, TypeOK, Causes, callVars, chanVars, clientVars
  <1>4. CASE PingFails(s)
    BY <1>4 DEF PingFails, StartCleanup, TypeOK, Causes, callVars, chanVars, clientVars
  <1>5. CASE ReadFails(s)
    BY <1>5 DEF ReadFails, StartCleanup, TypeOK, Causes, callVars, chanVars, clientVars
  <1>6. CASE HandleSessionClosed(s)
    BY <1>6 DEF HandleSessionClosed, Unregister, TypeOK, callVars, chanVars, clientVars
  <1>7. CASE Notify(s)
    BY <1>7 DEF Notify, TypeOK, callVars, chanVars, clientVars
  <1> QED
    BY <1>1, <1>2, <1>3, <1>4, <1>5, <1>6, <1>7

LEMMA StopTypeStep ==
    ASSUME TypeOK, Stop
    PROVE  TypeOK'
  BY DEF Stop, TypeOK, cleanVars, callVars, chanVars, clientVars

LEMMA MessageTypeStep ==
    ASSUME TypeOK, NEW s \in Sessions,
           \/ \E r \in Requests : Visit(s, r)
           \/ FailPending(s)
           \/ Dispatch(s)
           \/ \E r \in Requests, m \in Messages : Read(s, r, m)
    PROVE  TypeOK'
  <1>1. ASSUME NEW r \in Requests, Visit(s, r) PROVE TypeOK'
    BY <1>1 DEF Visit, TypeOK, sessVars, callVars, chanVars, clientVars
  <1>2. CASE FailPending(s)
    <2> DEFINE r == visiting[s]
    <2>1. r \in Requests /\ Last("error") \in Messages
      BY <1>2, FailPendingEffect, MessageFacts DEF Terminals
    <2>2. /\ chan' \in [Requests -> Seq(Messages)] /\ lost' \in [Requests -> BOOLEAN]
          /\ pending' \in [Sessions -> SUBSET Requests] /\ chClosed' \in [Requests -> BOOLEAN]
          /\ crashed' \in Requests \cup {Nil}
      <3>1. CASE Panics(r)
        BY <2>1, <3>1 DEF Panics, TypeOK
      <3>2. CASE ~Panics(r)
        <4>1. /\ Offer(r, Last("error"))
              /\ pending' = [pending EXCEPT ![s] = @ \ {r}]
              /\ chClosed' = [chClosed EXCEPT ![r] = TRUE]
              /\ UNCHANGED crashed
          BY <1>2, <3>2, FailPendingEffect
        <4>2. chan' \in [Requests -> Seq(Messages)] /\ lost' \in [Requests -> BOOLEAN]
          BY <2>1, <4>1, OfferType
        <4> QED
          BY <2>1, <4>1, <4>2 DEF TypeOK
      <3> QED
        BY <3>1, <3>2
    <2>3. visiting' \in [Sessions -> Requests \cup {Nil}] /\ left' \in [Sessions -> SUBSET Requests]
      <3>1. visiting' = [visiting EXCEPT ![s] = Nil] /\ left' = [left EXCEPT ![s] = @ \ {r}]
        BY <1>2, FailPendingEffect
      <3> QED
        BY <3>1 DEF TypeOK
    <2> QED
      BY <1>2, <2>2, <2>3, FailPendingEffect DEF TypeOK, sessVars, callVars, clientVars
  <1>3. CASE Dispatch(s)
    <2> DEFINE r == reader[s].id
               m == reader[s].msg
    <2>1. r \in Requests /\ m \in Messages
      BY <1>3, DispatchEffect
    <2>2. /\ chan' \in [Requests -> Seq(Messages)] /\ lost' \in [Requests -> BOOLEAN]
          /\ pending' \in [Sessions -> SUBSET Requests] /\ chClosed' \in [Requests -> BOOLEAN]
          /\ crashed' \in Requests \cup {Nil}
      <3>1. CASE Panics(r)
        BY <2>1, <3>1 DEF Panics, TypeOK
      <3>2. CASE ~Panics(r)
        <4>1. /\ Offer(r, m)
              /\ Forget(s, r) \/ UNCHANGED <<pending, chClosed>>
              /\ UNCHANGED crashed
          BY <1>3, <3>2, DispatchEffect
        <4>2. chan' \in [Requests -> Seq(Messages)] /\ lost' \in [Requests -> BOOLEAN]
          BY <2>1, <4>1, OfferType
        <4>3. pending' \in [Sessions -> SUBSET Requests] /\ chClosed' \in [Requests -> BOOLEAN]
          BY <2>1, <4>1, ForgetType DEF TypeOK
        <4> QED
          BY <2>1, <4>1, <4>2, <4>3 DEF TypeOK
      <3> QED
        BY <3>1, <3>2
    <2>3. reader' \in [Sessions -> Loops]
      BY <1>3, DispatchEffect, LoopTypes DEF TypeOK
    <2> QED
      BY <1>3, <2>2, <2>3, DispatchEffect DEF TypeOK, sessVars, cleanVars, callVars, clientVars
  <1>4. ASSUME NEW r \in Requests, NEW m \in Messages, Read(s, r, m) PROVE TypeOK'
    <2>1. sent' \in [Requests -> 0..MaxParts]
      <3>1. sent[r] \in 0..MaxParts /\ MaxParts \in Nat
        BY Constants DEF TypeOK
      <3>2. CASE sent' = [sent EXCEPT ![r] = @ + 1] /\ sent[r] < MaxParts
        <4>1. sent[r] + 1 \in 0..MaxParts
          BY <3>1, <3>2
        <4> QED
          BY <3>2, <4>1 DEF TypeOK
      <3> QED
        BY <1>4, <3>2 DEF Read, TypeOK
    <2>2. answered' \in [Requests -> Terminals \cup {Nil}]
      <3>1. IsTerminal(m) => m.type \in Terminals
        BY MessageFacts
      <3>2. answered \in [Requests -> Terminals \cup {Nil}]
        BY DEF TypeOK
      <3>3. answered' = answered \/ (IsTerminal(m) /\ answered' = [answered EXCEPT ![r] = m.type])
        BY <1>4 DEF Read
      <3> QED
        BY <3>1, <3>2, <3>3
    <2>3. reader' \in [Sessions -> Loops]
      BY <1>4, LoopTypes DEF TypeOK, Read
    <2> QED
      BY <1>4, <2>1, <2>2, <2>3 DEF Read, TypeOK, sessVars, cleanVars, callVars, chanVars
  <1> QED
    BY <1>1, <1>2, <1>3, <1>4

CallSteps(r) ==
    \/ \E kind \in Kinds : Send(r, kind)
    \/ RequestStep(r) \/ CallerStep(r) \/ WaiterStep(r) \/ EndContext(r)

LEMMA CallTypeStep ==
    ASSUME TypeOK, References, NEW r \in Requests, CallSteps(r)
    PROVE  TypeOK'
  <1>1. ASSUME NEW kind \in Kinds, Send(r, kind) PROVE TypeOK'
    <2>1. CASE table[Target[r]] = Nil
      <3>1. call' \in [Requests -> Calls]
        BY <1>1, <2>1, FinishType DEF Send, Results
      <3> QED
        BY <1>1, <3>1 DEF Send, TypeOK, sessVars, cleanVars, chanVars, clientVars
    <2>2. CASE table[Target[r]] # Nil
      <3>1. call[r] \in Calls /\ table[Target[r]] \in Sessions /\ call \in [Requests -> Calls]
        BY <2>2, Constants DEF TypeOK
      <3>2. [call[r] EXCEPT !.st = "found", !.kind = kind, !.sess = table[Target[r]]] \in Calls
        BY <3>1 DEF Calls, CallStates
      <3>3. call' \in [Requests -> Calls]
        BY <1>1, <2>2, <3>1, <3>2 DEF Send
      <3> QED
        BY <1>1, <3>3 DEF Send, TypeOK, sessVars, cleanVars, chanVars, clientVars
    <2> QED
      BY <2>1, <2>2
  <1>2. CASE Store(r)
    <2>1. call' \in [Requests -> Calls]
      BY <1>2, StateType DEF Store, CallStates
    <2>2. call[r].sess \in Sessions
      BY <1>2, CallFacts DEF Store, References
    <2> QED
      BY <1>2, <2>1, <2>2 DEF Store, TypeOK, sessVars, cleanVars, chanVars, clientVars
  <1>3. CASE Load(r)
    <2>1. call' \in [Requests -> Calls]
      BY <1>3, StateType, FinishType DEF Load, CallStates, Results
    <2> QED
      BY <1>3, <2>1 DEF Load, TypeOK, sessVars, cleanVars, chanVars, clientVars
  <1>4. CASE WriteFails(r)
    <2>1. call' \in [Requests -> Calls]
      BY <1>4, FinishType DEF WriteFails, Results
    <2>2. pending' \in [Sessions -> SUBSET Requests] /\ chClosed' \in [Requests -> BOOLEAN]
      BY <1>4, ForgetType DEF WriteFails
    <2> QED
      BY <1>4, <2>1, <2>2 DEF WriteFails, TypeOK, sessVars, cleanVars, clientVars
  <1>5. CASE Write(r)
    <2>1. call' \in [Requests -> Calls]
      BY <1>5, StateType DEF Write, CallStates
    <2> QED
      BY <1>5, <2>1 DEF Write, TypeOK, sessVars, cleanVars, chanVars, clientVars
  <1>6. CASE Take(r)
    <2>1. chan[r] \in Seq(Messages) /\ chan[r] # <<>>
      BY <1>6 DEF Take, TypeOK
    <2>2. Tail(chan[r]) \in Seq(Messages) /\ Head(chan[r]) \in Messages
      BY <2>1, HeadTailProperties
    <2>3. call' \in [Requests -> Calls]
      <3>1. CASE Head(chan[r]).type = "part"
        <4>1. Head(chan[r]).n \in 1..MaxParts
          BY <2>2, <3>1, MessageFacts DEF IsPart
        <4>2. call' = [call EXCEPT ![r].got = @ \cup {Head(chan[r]).n}]
          BY <1>6, <3>1 DEF Take
        <4>3. [call[r] EXCEPT !.got = @ \cup {Head(chan[r]).n}] \in Calls
          BY <4>1, CallFacts DEF Calls
        <4> QED
          BY <4>2, <4>3 DEF TypeOK
      <3>2. CASE Head(chan[r]).type = "end"
        BY <1>6, <3>2, FinishType DEF Take, Results
      <3>3. CASE Head(chan[r]).type \notin {"part", "end"}
        BY <1>6, <3>3, FinishType DEF Take, Results
      <3> QED
        BY <3>1, <3>2, <3>3
    <2> QED
      BY <1>6, <2>2, <2>3 DEF Take, TypeOK, sessVars, cleanVars, clientVars
  <1>7. CASE ChannelEnds(r) \/ GiveUp(r)
    <2>1. call' \in [Requests -> Calls]
      BY <1>7, FinishType DEF ChannelEnds, GiveUp, Results
    <2> QED
      BY <1>7, <2>1 DEF ChannelEnds, GiveUp, TypeOK, sessVars, cleanVars, chanVars, clientVars
  <1>8. CASE Cancel(r)
    <2>1. pending' \in [Sessions -> SUBSET Requests] /\ chClosed' \in [Requests -> BOOLEAN]
      BY <1>8, ForgetType DEF Cancel
    <2> QED
      BY <1>8, <2>1 DEF Cancel, TypeOK, sessVars, cleanVars, clientVars
  <1>9. CASE WaiterEnds(r)
    BY <1>9 DEF WaiterEnds, TypeOK, sessVars, cleanVars, chanVars, clientVars
  <1>10. CASE EndContext(r)
    BY <1>10 DEF EndContext, TypeOK, sessVars, cleanVars, chanVars, clientVars
  <1> QED
    BY <1>1, <1>2, <1>3, <1>4, <1>5, <1>6, <1>7, <1>8, <1>9, <1>10
      DEF CallSteps, RequestStep, CallerStep, WaiterStep

(* A step is one of four sorts.                                            *)
LEMMA Steps ==
    ASSUME [Next]_vars
    PROVE  \/ UNCHANGED vars
           \/ /\ crashed = Nil
              /\ \/ Stop
                 \/ \E s \in Sessions :
                      Connect(s) \/ Announce(s) \/ Evict(s) \/ PingFails(s) \/ ReadFails(s)
                        \/ HandleSessionClosed(s) \/ Notify(s)
                 \/ \E s \in Sessions :
                      \/ \E r \in Requests : Visit(s, r)
                      \/ FailPending(s)
                      \/ Dispatch(s)
                      \/ \E r \in Requests, m \in Messages : Read(s, r, m)
                 \/ \E r \in Requests : CallSteps(r)
  BY DEF Next, CleanupStep, CallSteps

LEMMA TypeStep == TypeOK /\ References /\ [Next]_vars => TypeOK'
  <1> SUFFICES ASSUME TypeOK, References, [Next]_vars
               PROVE  TypeOK'
    OBVIOUS
  <1>1. CASE UNCHANGED vars
    BY <1>1 DEF vars, sessVars, cleanVars, callVars, chanVars, clientVars, TypeOK
  <1> QED
    BY <1>1, Steps, StopTypeStep, SessionTypeStep, MessageTypeStep, CallTypeStep

-----------------------------------------------------------------------------
(* The table and the reports to the service.                               *)

(* Steps that concern calls only.                                          *)
TableQuiet ==
    /\ UNCHANGED <<table, handler, replaced, evicted, heard, early, closed, clean, cause>>
    /\ \A s \in Sessions : reader[s].st = "off" => reader'[s].st = "off"

(* A cleanup begins.                                                       *)
Begins(s, why) ==
    /\ clean[s] = "no" /\ handler[s] # "new" /\ why \in Causes
    /\ why = "replaced" => \E t \in Sessions : replaced[t] = s
    /\ clean' = [clean EXCEPT ![s] = "ranging"]
    /\ closed' = [closed EXCEPT ![s] = TRUE]
    /\ cause' = [cause EXCEPT ![s] = why]
    /\ evicted' = evicted \ {s}
    /\ \A t \in Sessions : reader[t].st = "off" => reader'[t].st = "off"
    /\ UNCHANGED <<table, handler, replaced, heard, early>>

LEMMA TableSteps ==
    ASSUME TypeOK, Fresh, [Next]_vars
    PROVE  \/ TableQuiet
           \/ Stop
           \/ \E s \in Sessions, why \in Causes : Begins(s, why)
           \/ \E s \in Sessions :
                Connect(s) \/ Announce(s) \/ HandleSessionClosed(s) \/ Notify(s)
  <1> USE LoopTypes
  <1>1. CASE UNCHANGED vars
    BY <1>1 DEF vars, sessVars, cleanVars, TableQuiet
  <1>2. ASSUME NEW s \in Sessions, Evict(s) \/ PingFails(s) \/ ReadFails(s)
        PROVE  \E why \in Causes : Begins(s, why)
    <2>1. CASE Evict(s)
      <3>1. handler[s] # "new"
        BY <2>1 DEF Evict, Fresh
      <3>2. CASE \E t \in Sessions : replaced[t] = s
        <4>1. Begins(s, "replaced")
          BY <2>1, <3>1, <3>2 DEF Evict, StartCleanup, Begins, Causes
        <4> QED
          BY <4>1 DEF Causes
      <3>3. CASE ~ \E t \in Sessions : replaced[t] = s
        <4>1. Begins(s, "stopped")
          BY <2>1, <3>1, <3>3 DEF Evict, StartCleanup, Begins, Causes
        <4> QED
          BY <4>1 DEF Causes
      <3> QED
        BY <3>2, <3>3
    <2>2. CASE PingFails(s)
      <3>1. Begins(s, "failed")
        BY <2>2 DEF PingFails, StartCleanup, Begins, Causes
      <3> QED
        BY <3>1 DEF Causes
    <2>3. CASE ReadFails(s)
      <3>1. \A t \in Sessions : reader[t].st = "off" => reader'[t].st = "off"
        BY <2>3 DEF ReadFails, TypeOK
      <3>2. handler[s] # "new"
        BY <2>3 DEF ReadFails, Fresh
      <3>3. Begins(s, "failed")
        BY <2>3, <3>1, <3>2 DEF ReadFails, StartCleanup, Begins, Causes
      <3> QED
        BY <3>3 DEF Causes
    <2> QED
      BY <1>2, <2>1, <2>2, <2>3
  <1>3. ASSUME NEW s \in Sessions, NEW r \in Requests, Visit(s, r) PROVE TableQuiet
    BY <1>3 DEF Visit, sessVars, TableQuiet
  <1>4. ASSUME NEW s \in Sessions, FailPending(s) PROVE TableQuiet
    BY <1>4, FailPendingEffect DEF sessVars, TableQuiet
  <1>5. ASSUME NEW s \in Sessions, Dispatch(s) PROVE TableQuiet
    <2>1. Dispatching(s) /\ reader' = [reader EXCEPT ![s] = AtLoop("reading")]
      BY <1>5 DEF Dispatch
    <2>2. \A t \in Sessions : reader[t].st = "off" => reader'[t].st = "off"
      BY <2>1 DEF TypeOK, Dispatching
    <2> QED
      BY <1>5, <2>2 DEF Dispatch, sessVars, cleanVars, TableQuiet
  <1>6. ASSUME NEW s \in Sessions, NEW r \in Requests, NEW m \in Messages, Read(s, r, m)
        PROVE  TableQuiet
    <2>1. \A t \in Sessions : reader[t].st = "off" => reader'[t].st = "off"
      BY <1>6 DEF Read, TypeOK
    <2> QED
      BY <1>6, <2>1 DEF Read, sessVars, cleanVars, TableQuiet
  <1>7. ASSUME NEW r \in Requests, CallSteps(r) PROVE TableQuiet
    BY <1>7 DEF CallSteps, RequestStep, CallerStep, WaiterStep, Send, Store, Load, WriteFails,
         Write, Take, ChannelEnds, GiveUp, Cancel, WaiterEnds, EndContext,
         sessVars, cleanVars, TableQuiet
  <1> QED
    BY <1>1, <1>2, <1>3, <1>4, <1>5, <1>6, <1>7, Steps

LEMMA FreshStep == TypeOK /\ Fresh /\ TableEntries /\ [Next]_vars => Fresh'
  <1> SUFFICES ASSUME TypeOK, Fresh, TableEntries, [Next]_vars
               PROVE  Fresh'
    OBVIOUS
  <1> USE Constants, LoopTypes
  <1>1. CASE TableQuiet
    BY <1>1 DEF TableQuiet, Fresh, TypeOK
  <1>2. CASE Stop
    BY <1>2 DEF Stop, cleanVars, Fresh, TableEntries, TypeOK
  <1>3. ASSUME NEW s \in Sessions, NEW why \in Causes, Begins(s, why) PROVE Fresh'
    BY <1>3 DEF Begins, Fresh, TypeOK
  <1>4. ASSUME NEW s \in Sessions, Connect(s) PROVE Fresh'
    BY <1>4 DEF Connect, cleanVars, Fresh, TableEntries, TypeOK
  <1>5. ASSUME NEW s \in Sessions, Announce(s) PROVE Fresh'
    BY <1>5 DEF Announce, cleanVars, Fresh, TypeOK
  <1>6. ASSUME NEW s \in Sessions, HandleSessionClosed(s) PROVE Fresh'
    BY <1>6 DEF HandleSessionClosed, Fresh, TypeOK
  <1>7. ASSUME NEW s \in Sessions, Notify(s) PROVE Fresh'
    BY <1>7 DEF Notify, Fresh, TypeOK
  <1> QED
    BY <1>1, <1>2, <1>3, <1>4, <1>5, <1>6, <1>7, TableSteps

LEMMA TableEntriesStep == TypeOK /\ Fresh /\ TableEntries /\ [Next]_vars => TableEntries'
  <1> SUFFICES ASSUME TypeOK, Fresh, TableEntries, [Next]_vars
               PROVE  TableEntries'
    OBVIOUS
  <1> USE Constants
  <1>1. CASE TableQuiet
    BY <1>1 DEF TableQuiet, TableEntries, TypeOK
  <1>2. CASE Stop
    BY <1>2 DEF Stop, TableEntries
  <1>3. ASSUME NEW s \in Sessions, NEW why \in Causes, Begins(s, why) PROVE TableEntries'
    BY <1>3 DEF Begins, TableEntries, TypeOK
  <1>4. ASSUME NEW s \in Sessions, Connect(s) PROVE TableEntries'
    BY <1>4 DEF Connect, cleanVars, Fresh, TableEntries, TypeOK
  <1>5. ASSUME NEW s \in Sessions, Announce(s) PROVE TableEntries'
    BY <1>5 DEF Announce, cleanVars, TableEntries, TypeOK
  <1>6. ASSUME NEW s \in Sessions, HandleSessionClosed(s) PROVE TableEntries'
    BY <1>6 DEF HandleSessionClosed, Unregister, TableEntries, TypeOK
  <1>7. ASSUME NEW s \in Sessions, Notify(s) PROVE TableEntries'
    BY <1>7 DEF Notify, TableEntries, TypeOK
  <1> QED
    BY <1>1, <1>2, <1>3, <1>4, <1>5, <1>6, <1>7, TableSteps

LEMMA TableIsCurrentStep ==
    TypeOK /\ Closing /\ Fresh /\ TableEntries /\ TableIsCurrent /\ [Next]_vars => TableIsCurrent'
  <1> SUFFICES ASSUME TypeOK, Closing, Fresh, TableEntries, TableIsCurrent, [Next]_vars
               PROVE  TableIsCurrent'
    OBVIOUS
  <1> USE Constants
  <1>0. \A s \in Sessions : closed[s] <=> clean[s] # "no"
    BY DEF Closing
  <1>1. CASE TableQuiet
    BY <1>1 DEF TableQuiet, TableIsCurrent, TypeOK
  <1>2. CASE Stop
    BY <1>2 DEF Stop, cleanVars, TableIsCurrent, TypeOK
  <1>3. ASSUME NEW s \in Sessions, NEW why \in Causes, Begins(s, why) PROVE TableIsCurrent'
    BY <1>3 DEF Begins, TableIsCurrent, TypeOK
  <1>4. ASSUME NEW s \in Sessions, Connect(s) PROVE TableIsCurrent'
    BY <1>4 DEF Connect, cleanVars, Fresh, TableIsCurrent, TypeOK
  <1>5. ASSUME NEW s \in Sessions, Announce(s) PROVE TableIsCurrent'
    BY <1>5 DEF Announce, cleanVars, TableIsCurrent, TypeOK
  <1>6. ASSUME NEW s \in Sessions, HandleSessionClosed(s) PROVE TableIsCurrent'
    BY <1>0, <1>6 DEF HandleSessionClosed, Unregister, TableIsCurrent, TypeOK
  <1>7. ASSUME NEW s \in Sessions, Notify(s) PROVE TableIsCurrent'
    BY <1>7 DEF Notify, TableIsCurrent, TypeOK
  <1> QED
    BY <1>1, <1>2, <1>3, <1>4, <1>5, <1>6, <1>7, TableSteps

LEMMA ReplacementsStep ==
    TypeOK /\ Fresh /\ TableEntries /\ Replacements /\ [Next]_vars => Replacements'
  <1> SUFFICES ASSUME TypeOK, Fresh, TableEntries, Replacements, [Next]_vars
               PROVE  Replacements'
    OBVIOUS
  <1> USE Constants
  <1>1. CASE TableQuiet
    BY <1>1 DEF TableQuiet, Replacements
  <1>2. CASE Stop
    BY <1>2 DEF Stop, Replacements
  <1>3. ASSUME NEW s \in Sessions, NEW why \in Causes, Begins(s, why) PROVE Replacements'
    BY <1>3 DEF Begins, Replacements
  <1>4. ASSUME NEW s \in Sessions, Connect(s) PROVE Replacements'
    BY <1>4 DEF Connect, TableEntries, Replacements, TypeOK
  <1>5. ASSUME NEW s \in Sessions, Announce(s) PROVE Replacements'
    BY <1>5 DEF Announce, Replacements, TypeOK
  <1>6. ASSUME NEW s \in Sessions, HandleSessionClosed(s) PROVE Replacements'
    BY <1>6 DEF HandleSessionClosed, Replacements
  <1>7. ASSUME NEW s \in Sessions, Notify(s) PROVE Replacements'
    BY <1>7 DEF Notify, Replacements
  <1> QED
    BY <1>1, <1>2, <1>3, <1>4, <1>5, <1>6, <1>7, TableSteps

LEMMA SuccessorsStep ==
    TypeOK /\ Fresh /\ TableEntries /\ Successors /\ [Next]_vars => Successors'
  <1> SUFFICES ASSUME TypeOK, Fresh, TableEntries, Successors, [Next]_vars
               PROVE  Successors'
    OBVIOUS
  <1> USE Constants
  <1>1. CASE TableQuiet
    BY <1>1 DEF TableQuiet, Successors
  <1>2. CASE Stop
    BY <1>2 DEF Stop, cleanVars, Successors
  <1>3. ASSUME NEW s \in Sessions, NEW why \in Causes, Begins(s, why) PROVE Successors'
    BY <1>3 DEF Begins, Successors, TypeOK
  <1>4. ASSUME NEW s \in Sessions, Connect(s) PROVE Successors'
    <2>1. replaced[s] = Nil
      BY <1>4 DEF Connect, Fresh
    <2>2. \A t \in Sessions : t # s => replaced'[t] = replaced[t]
      BY <1>4 DEF Connect, TypeOK
    <2> QED
      BY <1>4, <2>1, <2>2 DEF Connect, cleanVars, Successors
  <1>5. ASSUME NEW s \in Sessions, Announce(s) PROVE Successors'
    <2>1. replaced[s] = Nil \/ clean[replaced[s]] = "done"
      BY <1>5 DEF Announce
    <2>2. \A t \in Sessions : t # s => replaced'[t] = replaced[t]
      BY <1>5 DEF Announce, TypeOK
    <2> QED
      BY <1>5, <2>1, <2>2 DEF Announce, cleanVars, Successors
  <1>6. ASSUME NEW s \in Sessions, HandleSessionClosed(s) PROVE Successors'
    BY <1>6 DEF HandleSessionClosed, Successors, TypeOK
  <1>7. ASSUME NEW s \in Sessions, Notify(s) PROVE Successors'
    BY <1>7 DEF Notify, Successors, TypeOK, Causes
  <1> QED
    BY <1>1, <1>2, <1>3, <1>4, <1>5, <1>6, <1>7, TableSteps

LEMMA EarlyEndsStep ==
    TypeOK /\ Fresh /\ EarlyEnds /\ [Next]_vars => EarlyEnds'
  <1> SUFFICES ASSUME TypeOK, Fresh, EarlyEnds, [Next]_vars
               PROVE  EarlyEnds'
    OBVIOUS
  <1>1. CASE TableQuiet
    BY <1>1 DEF TableQuiet, EarlyEnds
  <1>2. CASE Stop
    BY <1>2 DEF Stop, cleanVars, EarlyEnds
  <1>3. ASSUME NEW s \in Sessions, NEW why \in Causes, Begins(s, why) PROVE EarlyEnds'
    BY <1>3 DEF Begins, EarlyEnds, TypeOK
  <1>4. ASSUME NEW s \in Sessions, Connect(s) PROVE EarlyEnds'
    BY <1>4 DEF Connect, cleanVars, Fresh, EarlyEnds, TypeOK
  <1>5. ASSUME NEW s \in Sessions, Announce(s) PROVE EarlyEnds'
    BY <1>5 DEF Announce, cleanVars, EarlyEnds, TypeOK
  <1>6. ASSUME NEW s \in Sessions, HandleSessionClosed(s) PROVE EarlyEnds'
    BY <1>6 DEF HandleSessionClosed, EarlyEnds, TypeOK
  <1>7. ASSUME NEW s \in Sessions, Notify(s) PROVE EarlyEnds'
    BY <1>7 DEF Notify, Fresh, EarlyEnds, TypeOK
  <1> QED
    BY <1>1, <1>2, <1>3, <1>4, <1>5, <1>6, <1>7, TableSteps

(* Why the credential is there, for one provider.                          *)
Reason(p, s) ==
    /\ Provider[s] = p
    /\ \/ handler[s] = "registered"
       \/ handler[s] = "done" /\ clean[s] # "done"
       \/ s \in early

LEMMA ConnectedHasReasonStep ==
    TypeOK /\ Fresh /\ EarlyEnds /\ Replacements /\ Successors /\ ConnectedHasReason
      /\ [Next]_vars => ConnectedHasReason'
  <1> SUFFICES ASSUME TypeOK, Fresh, EarlyEnds, Replacements, Successors, ConnectedHasReason,
                      [Next]_vars,
                      NEW p \in Providers, heard'[p] = "connected"
               PROVE  \E s \in Sessions : Reason(p, s)'
    BY DEF ConnectedHasReason, Reason
  <1>0. heard[p] = "connected" => \E s \in Sessions : Reason(p, s)
    BY DEF ConnectedHasReason, Reason
  <1> USE Constants
  <1>1. CASE TableQuiet
    BY <1>0, <1>1 DEF TableQuiet, Reason
  <1>2. CASE Stop
    BY <1>0, <1>2 DEF Stop, cleanVars, Reason
  <1>3. ASSUME NEW t \in Sessions, NEW why \in Causes, Begins(t, why)
        PROVE  \E s \in Sessions : Reason(p, s)'
    BY <1>0, <1>3 DEF Begins, Reason, TypeOK
  <1>4. ASSUME NEW t \in Sessions, Connect(t) PROVE \E s \in Sessions : Reason(p, s)'
    BY <1>0, <1>4 DEF Connect, cleanVars, Reason, TypeOK
  <1>5. ASSUME NEW t \in Sessions, Announce(t) PROVE \E s \in Sessions : Reason(p, s)'
    <2>1. CASE Provider[t] = p
      <3>1. handler'[t] = "done" /\ clean' = clean /\ early' = early
        BY <1>5 DEF Announce, cleanVars, TypeOK
      <3>2. clean[t] = "done" => t \in early
        BY <1>5 DEF Announce, EarlyEnds
      <3>3. Reason(p, t)'
        BY <2>1, <3>1, <3>2 DEF Reason
      <3> QED
        BY <3>3
    <2>2. CASE Provider[t] # p
      <3>1. heard[p] = "connected"
        BY <1>5, <2>2 DEF Announce, TypeOK
      <3>2. PICK s \in Sessions : Reason(p, s)
        BY <1>0, <3>1
      <3>3. s # t
        BY <2>2, <3>2 DEF Reason
      <3>4. Reason(p, s)'
        BY <1>5, <3>2, <3>3 DEF Announce, cleanVars, Reason, TypeOK
      <3> QED
        BY <3>4
    <2> QED
      BY <2>1, <2>2
  <1>6. ASSUME NEW t \in Sessions, HandleSessionClosed(t)
        PROVE  \E s \in Sessions : Reason(p, s)'
    BY <1>0, <1>6 DEF HandleSessionClosed, Reason, TypeOK
  <1>7. ASSUME NEW t \in Sessions, Notify(t) PROVE \E s \in Sessions : Reason(p, s)'
    <2>1. CASE Provider[t] = p
      <3>1. cause[t] = "replaced"
        BY <1>7, <2>1 DEF Notify, TypeOK
      <3>2. PICK u \in Sessions : replaced[u] = t
        BY <3>1 DEF Successors
      <3>3. handler[u] = "registered" /\ Provider[u] = p
        BY <2>1, <3>2 DEF Replacements
      <3>4. Reason(p, u)'
        BY <1>7, <3>3 DEF Notify, Reason
      <3> QED
        BY <3>4
    <2>2. CASE Provider[t] # p
      <3>1. heard[p] = "connected"
        BY <1>7, <2>2 DEF Notify, TypeOK
      <3>2. PICK s \in Sessions : Reason(p, s)
        BY <1>0, <3>1
      <3>3. s # t
        BY <2>2, <3>2 DEF Reason
      <3>4. Reason(p, s)'
        BY <1>7, <3>2, <3>3 DEF Notify, Reason, TypeOK
      <3> QED
        BY <3>4
    <2> QED
      BY <2>1, <2>2
  <1> QED
    BY <1>1, <1>2, <1>3, <1>4, <1>5, <1>6, <1>7, TableSteps

LEMMA ReasonSuffices ==
    Fresh /\ EarlyEnds /\ ConnectedHasReason => NoOrphanCredential
  <1> SUFFICES ASSUME Fresh, EarlyEnds, ConnectedHasReason,
                      NEW p \in Providers, heard[p] = "connected",
                      \A s \in {t \in Sessions : Provider[t] = p /\ handler[t] # "new"} :
                         handler[s] = "done" /\ clean[s] = "done"
               PROVE  {t \in Sessions : Provider[t] = p /\ handler[t] # "new"} \cap early # {}
    BY DEF NoOrphanCredential
  <1>1. PICK s \in Sessions : Reason(p, s)
    BY DEF ConnectedHasReason, Reason
  <1>2. s \in early => handler[s] # "new"
    BY DEF EarlyEnds
  <1> QED
    BY <1>1, <1>2 DEF Reason

-----------------------------------------------------------------------------
(* Sessions, channels and the callers.                                     *)

(* Steps that concern the table and the cleanups only.                     *)
CallsQuiet ==
    /\ UNCHANGED <<pending, visiting, call, waiter, ctxDone, chan, chClosed, lost,
                   sent, answered, crashed>>
    /\ \A s \in Sessions : /\ Dispatching(s)' <=> Dispatching(s)
                           /\ Dispatching(s) => reader'[s] = reader[s]
                           /\ closed[s] => closed'[s]

LEMMA SessionSteps ==
    ASSUME TypeOK, Fresh, NEW s \in Sessions,
           Connect(s) \/ Announce(s) \/ Evict(s) \/ PingFails(s) \/ ReadFails(s)
             \/ HandleSessionClosed(s) \/ Notify(s)
    PROVE  CallsQuiet
  <1> USE LoopTypes DEF callVars, chanVars, clientVars, cleanVars, CallsQuiet, Dispatching
  <1>1. CASE Connect(s)
    BY <1>1 DEF Connect
  <1>2. CASE Announce(s)
    <2>1. reader[s].st = "off"
      BY <1>2 DEF Announce, Fresh
    <2> QED
      BY <1>2, <2>1 DEF Announce, TypeOK
  <1>3. CASE Evict(s)
    BY <1>3 DEF Evict, StartCleanup, TypeOK
  <1>4. CASE PingFails(s)
    BY <1>4 DEF PingFails, StartCleanup, TypeOK
  <1>5. CASE ReadFails(s)
    BY <1>5 DEF ReadFails, StartCleanup, TypeOK
  <1>6. CASE HandleSessionClosed(s)
    BY <1>6 DEF HandleSessionClosed
  <1>7. CASE Notify(s)
    BY <1>7 DEF Notify
  <1> QED
    BY <1>1, <1>2, <1>3, <1>4, <1>5, <1>6, <1>7

LEMMA StopStep ==
    ASSUME Stop
    PROVE  CallsQuiet /\ UNCHANGED <<clean, closed, left>>
  BY DEF Stop, callVars, chanVars, clientVars, cleanVars, CallsQuiet, Dispatching

LEMMA StutterStep ==
    ASSUME UNCHANGED vars
    PROVE  CallsQuiet /\ UNCHANGED <<clean, closed, left>>
  BY DEF vars, callVars, chanVars, clientVars, cleanVars, CallsQuiet, Dispatching

(* Steps that concern a call.                                              *)
LEMMA QuietOrNot ==
    ASSUME TypeOK, Fresh, [Next]_vars
    PROVE  \/ CallsQuiet
           \/ /\ crashed = Nil
              /\ \/ \E s \in Sessions :
                      \/ \E r \in Requests : Visit(s, r)
                      \/ FailPending(s)
                      \/ Dispatch(s)
                      \/ \E r \in Requests, m \in Messages : Read(s, r, m)
                 \/ \E r \in Requests : CallSteps(r)
  BY Steps, SessionSteps, StopStep, StutterStep

-----------------------------------------------------------------------------
(* Cleanups and the channels they close.                                   *)

LEMMA ClosingStep == TypeOK /\ Closing /\ [Next]_vars => Closing'
  <1> SUFFICES ASSUME TypeOK, Closing, [Next]_vars
               PROVE  Closing'
    OBVIOUS
  <1> USE Constants
  <1>1. CASE UNCHANGED vars \/ Stop
    BY <1>1 DEF vars, Stop, cleanVars, Closing
  <1>2. ASSUME NEW s \in Sessions, Evict(s) \/ PingFails(s) \/ ReadFails(s) PROVE Closing'
    <2>1. /\ clean[s] = "no" /\ clean' = [clean EXCEPT ![s] = "ranging"]
          /\ closed' = [closed EXCEPT ![s] = TRUE]
          /\ UNCHANGED visiting
      BY <1>2 DEF Evict, PingFails, ReadFails, StartCleanup
    <2> QED
      BY <2>1 DEF Closing, TypeOK
  <1>3. ASSUME NEW s \in Sessions, Connect(s) \/ Announce(s) PROVE Closing'
    BY <1>3 DEF Connect, Announce, cleanVars, Closing
  <1>4. ASSUME NEW s \in Sessions, HandleSessionClosed(s) \/ Notify(s) PROVE Closing'
    BY <1>4 DEF HandleSessionClosed, Notify, Closing, TypeOK
  <1>5. ASSUME NEW s \in Sessions, NEW r \in Requests, Visit(s, r) PROVE Closing'
    BY <1>5 DEF Visit, Closing, TypeOK
  <1>6. ASSUME NEW s \in Sessions, FailPending(s) PROVE Closing'
    BY <1>6, FailPendingEffect DEF Closing, TypeOK
  <1>7. ASSUME NEW s \in Sessions,
               Dispatch(s) \/ \E r \in Requests, m \in Messages : Read(s, r, m)
        PROVE  Closing'
    BY <1>7 DEF Dispatch, Read, cleanVars, Closing
  <1>8. ASSUME NEW r \in Requests, CallSteps(r) PROVE Closing'
    BY <1>8 DEF CallSteps, RequestStep, CallerStep, WaiterStep, Send, Store, Load, WriteFails,
         Write, Take, ChannelEnds, GiveUp, Cancel, WaiterEnds, EndContext, cleanVars, Closing
  <1> QED
    BY <1>1, <1>2, <1>3, <1>4, <1>5, <1>6, <1>7, <1>8, Steps

(* What a step does to the callers and to the references to them.          *)
LEMMA CallMoves ==
    ASSUME TypeOK, NEW r \in Requests, CallSteps(r)
    PROVE  /\ \A q \in Requests \ {r} :
                call'[q] = call[q] /\ waiter'[q] = waiter[q] /\ ctxDone'[q] = ctxDone[q]
           /\ UNCHANGED <<sessVars, cleanVars, reader, lost, clientVars, crashed>>
           /\ \A q \in Requests : ctxDone[q] => ctxDone'[q]
  <1>1. /\ UNCHANGED <<sessVars, cleanVars, reader, lost, clientVars, crashed>>
        /\ \A q \in Requests : ctxDone[q] => ctxDone'[q]
    BY DEF CallSteps, RequestStep, CallerStep, WaiterStep, Send, Store, Load, WriteFails,
         Write, Take, ChannelEnds, GiveUp, Cancel, WaiterEnds, EndContext, chanVars, TypeOK
  <1>2. \A q \in Requests \ {r} : waiter'[q] = waiter[q] /\ ctxDone'[q] = ctxDone[q]
    BY DEF CallSteps, RequestStep, CallerStep, WaiterStep, Send, Store, Load, WriteFails,
         Write, Take, ChannelEnds, GiveUp, Cancel, WaiterEnds, EndContext, TypeOK
  <1>3. \A q \in Requests \ {r} : call'[q] = call[q]
    BY DEF CallSteps, RequestStep, CallerStep, WaiterStep, Send, Store, Load, WriteFails,
         Write, Take, ChannelEnds, GiveUp, Cancel, WaiterEnds, EndContext, Finish, TypeOK
  <1> QED
    BY <1>1, <1>2, <1>3

(* The call itself, whatever it does but Send, keeps its session.          *)
KeepsSession(r) ==
    /\ call'[r].sess = call[r].sess /\ call'[r].kind = call[r].kind
    /\ \/ call'[r] = call[r]
       \/ call[r].st \notin {"idle", "done"} /\ call'[r].st \notin {"idle", "found"}
    /\ call[r].st = "waiting" => call'[r].st \in {"waiting", "done"}

LEMMA FinishEffect ==
    ASSUME TypeOK, NEW r \in Requests, NEW res, Finish(r, res)
    PROVE  /\ call'[r].sess = call[r].sess /\ call'[r].kind = call[r].kind
           /\ call'[r].got = call[r].got
           /\ call'[r].st = "done" /\ call'[r].result = res
  <1>1. call \in [Requests -> Calls] /\ call[r] \in Calls
    BY DEF TypeOK
  <1>2. call'[r] = [call[r] EXCEPT !.st = "done", !.result = res]
    BY <1>1 DEF Finish
  <1> QED
    BY <1>1, <1>2 DEF Calls

LEMMA StateEffect ==
    ASSUME TypeOK, NEW r \in Requests, NEW st, call' = [call EXCEPT ![r].st = st]
    PROVE  /\ call'[r].sess = call[r].sess /\ call'[r].kind = call[r].kind
           /\ call'[r].got = call[r].got
           /\ call'[r].st = st /\ call'[r].result = call[r].result
  <1>1. call \in [Requests -> Calls] /\ call[r] \in Calls
    BY DEF TypeOK
  <1>2. call'[r] = [call[r] EXCEPT !.st = st]
    BY <1>1
  <1> QED
    BY <1>1, <1>2 DEF Calls

LEMMA TakeEffect ==
    ASSUME TypeOK, NEW r \in Requests, Take(r)
    PROVE  LET m == Head(chan[r])
           IN  /\ m \in Messages /\ m = chan[r][1]
               /\ call'[r].sess = call[r].sess /\ call'[r].kind = call[r].kind
               /\ \/ /\ IsPart(m)
                     /\ call'[r].st = call[r].st /\ call'[r].result = call[r].result
                     /\ call'[r].got = call[r].got \cup {m.n}
                  \/ /\ m.type = "end"
                     /\ call'[r].st = "done" /\ call'[r].result = "ok"
                     /\ call'[r].got = call[r].got
                  \/ /\ m.type = "error"
                     /\ call'[r].st = "done" /\ call'[r].result = "error"
                     /\ call'[r].got = call[r].got
  <1> DEFINE m == Head(chan[r])
  <1>1. chan[r] \in Seq(Messages) /\ chan[r] # <<>>
    BY DEF Take, TypeOK
  <1>2. m \in Messages /\ m = chan[r][1]
    BY <1>1, HeadTailProperties
  <1>3. IsPart(m) \/ m.type = "end" \/ m.type = "error"
    BY <1>2, MessageFacts DEF Terminals
  <1>4. CASE IsPart(m)
    <2>1. call \in [Requests -> Calls] /\ call[r] \in Calls
      BY DEF TypeOK
    <2>2. call' = [call EXCEPT ![r].got = @ \cup {m.n}]
      BY <1>4 DEF Take, IsPart
    <2>3. call'[r] = [call[r] EXCEPT !.got = @ \cup {m.n}]
      BY <2>1, <2>2
    <2> HIDE DEF m
    <2>4. /\ call'[r].sess = call[r].sess /\ call'[r].kind = call[r].kind
          /\ call'[r].st = call[r].st /\ call'[r].result = call[r].result
          /\ call'[r].got = call[r].got \cup {m.n}
      BY <2>1, <2>3 DEF Calls
    <2> QED
      BY <1>2, <1>4, <2>4 DEF m
  <1>5. CASE m.type = "end"
    <2>1. Finish(r, "ok")
      BY <1>5 DEF Take
    <2> QED
      BY <1>2, <1>5, <2>1, FinishEffect
  <1>6. CASE m.type = "error"
    <2>1. Finish(r, "error")
      BY <1>6 DEF Take
    <2> QED
      BY <1>2, <1>6, <2>1, FinishEffect
  <1> QED
    BY <1>3, <1>4, <1>5, <1>6

LEMMA SendEffect ==
    ASSUME TypeOK, NEW r \in Requests, NEW kind \in Kinds, Send(r, kind)
    PROVE  /\ call[r].st = "idle"
           /\ call'[r].got = call[r].got
           /\ \/ call'[r].st = "done" /\ call'[r].sess = call[r].sess /\ call'[r].result = "error"
              \/ call'[r].st = "found" /\ call'[r].sess \in Sessions
                   /\ call'[r].result = call[r].result
           /\ UNCHANGED <<waiter, ctxDone, pending, chan, chClosed, visiting>>
  <1>1. call[r].st = "idle" /\ UNCHANGED <<waiter, ctxDone, pending, chan, chClosed, visiting>>
    BY DEF Send, cleanVars, chanVars
  <1>2. CASE table[Target[r]] = Nil
    BY <1>1, <1>2, FinishEffect DEF Send
  <1>3. CASE table[Target[r]] # Nil
    <2>1. call \in [Requests -> Calls] /\ call[r] \in Calls /\ table[Target[r]] \in Sessions
      BY <1>3, Constants DEF TypeOK
    <2>2. call'[r] = [call[r] EXCEPT !.st = "found", !.kind = kind, !.sess = table[Target[r]]]
      BY <1>3, <2>1 DEF Send
    <2>3. /\ call'[r].got = call[r].got /\ call'[r].result = call[r].result
          /\ call'[r].st = "found" /\ call'[r].sess = table[Target[r]]
      BY <2>1, <2>2 DEF Calls
    <2> QED
      BY <1>1, <2>1, <2>3
  <1> QED
    BY <1>2, <1>3

LEMMA CallStays ==
    ASSUME TypeOK, NEW r \in Requests,
           RequestStep(r) \/ CallerStep(r) \/ WaiterStep(r) \/ EndContext(r)
    PROVE  KeepsSession(r)
  <1> USE DEF KeepsSession
  <1>1. CASE Store(r)
    BY <1>1, StateEffect DEF Store
  <1>2. CASE Load(r)
    BY <1>2, StateEffect, FinishEffect DEF Load
  <1>3. CASE WriteFails(r)
    BY <1>3, FinishEffect DEF WriteFails
  <1>4. CASE Write(r)
    BY <1>4, StateEffect DEF Write
  <1>5. CASE Take(r)
    BY <1>5, TakeEffect DEF Take
  <1>6. CASE ChannelEnds(r) \/ GiveUp(r)
    BY <1>6, FinishEffect DEF ChannelEnds, GiveUp
  <1>7. CASE WaiterStep(r) \/ EndContext(r)
    BY <1>7 DEF WaiterStep, Cancel, WaiterEnds, EndContext
  <1> QED
    BY <1>1, <1>2, <1>3, <1>4, <1>5, <1>6, <1>7 DEF RequestStep, CallerStep

-----------------------------------------------------------------------------
(* References to calls.                                                    *)

LEMMA ReferencesKept ==
    ASSUME TypeOK, TypeOK', References,
           \A s \in Sessions, r \in Requests :
              /\ r \in pending'[s] => r \in pending[s]
              /\ visiting'[s] = r => visiting[s] = r \/ r \in pending[s]
              /\ Holds(s, r)' => Holds(s, r),
           \A r \in Requests : KeepsSession(r),
           \A r \in Requests : waiter'[r] = "armed" => waiter[r] = "armed" \/ call'[r].st = "waiting"
    PROVE  References'
  <1>1. \A r \in Requests : /\ call[r].st \in CallStates
                            /\ call[r].sess = call'[r].sess
    BY CallFacts DEF KeepsSession
  <1>2. \A r \in Requests : Stored(r) => Stored(r)'
    BY <1>1 DEF Stored, KeepsSession, CallStates
  <1>3. \A r \in Requests : call'[r].st \in {"found", "stored", "loaded", "waiting"} =>
          call[r].st \in {"found", "stored", "loaded", "waiting"}
    BY <1>1 DEF KeepsSession, CallStates
  <1>4. \A r \in Requests :
           /\ call'[r].st = "idle" => call'[r].sess = Nil
           /\ call'[r].st \in {"found", "stored", "loaded", "waiting"} => call'[r].sess # Nil
    BY <1>1, <1>3 DEF References, KeepsSession
  <1>5. \A s \in Sessions, r \in Requests : r \in pending'[s] \/ visiting'[s] = r =>
          Stored(r)' /\ call'[r].sess = s
    BY <1>1, <1>2 DEF References
  <1>6. \A r \in Requests : call[r].st \in {"waiting", "done"} => call'[r].st \in {"waiting", "done"}
    BY DEF KeepsSession
  <1>7. \A s \in Sessions, r \in Requests : Holds(s, r)' =>
           Stored(r)' /\ call'[r].sess = s /\ call'[r].st \in {"waiting", "done"}
    BY <1>1, <1>2, <1>6 DEF References
  <1>8. \A r \in Requests : waiter'[r] = "armed" => Stored(r)'
    <2> SUFFICES ASSUME NEW r \in Requests, waiter'[r] = "armed" PROVE Stored(r)'
      OBVIOUS
    <2>1. CASE waiter[r] = "armed"
      BY <1>2, <2>1 DEF References
    <2>2. CASE call'[r].st = "waiting"
      BY <1>4, <2>2 DEF Stored
    <2> QED
      BY <2>1, <2>2
  <1> QED
    BY <1>4, <1>5, <1>7, <1>8 DEF References

LEMMA PendingShrinks ==
    ASSUME TypeOK, NEW s, NEW r,
           pending' = pending \/ pending' = [pending EXCEPT ![s] = @ \ {r}]
    PROVE  \A t \in Sessions, q \in Requests : q \in pending'[t] => q \in pending[t]
  <1> SUFFICES ASSUME NEW t \in Sessions, NEW q \in Requests, q \in pending'[t]
               PROVE  q \in pending[t]
    OBVIOUS
  <1>1. pending \in [Sessions -> SUBSET Requests]
    BY DEF TypeOK
  <1>2. CASE pending' = [pending EXCEPT ![s] = @ \ {r}]
    <2>1. pending'[t] = IF t = s THEN pending[t] \ {r} ELSE pending[t]
      BY <1>1, <1>2
    <2> QED
      BY <2>1
  <1> QED
    BY <1>2

LEMMA CallsKeepSession ==
    ASSUME TypeOK, NEW r \in Requests,
           RequestStep(r) \/ CallerStep(r) \/ WaiterStep(r) \/ EndContext(r)
    PROVE  /\ \A q \in Requests : KeepsSession(q)
           /\ \A q \in Requests : waiter'[q] = "armed" =>
                waiter[q] = "armed" \/ call'[q].st = "waiting"
           /\ \A q \in Requests : call[q].st = "found" => call'[q] = call[q] \/ Store(q)
  <1>1. CallSteps(r)
    BY DEF CallSteps
  <1>2. \A q \in Requests \ {r} : call'[q] = call[q] /\ waiter'[q] = waiter[q]
    BY <1>1, CallMoves
  <1>3. KeepsSession(r)
    BY CallStays
  <1>4. waiter'[r] = "armed" => waiter[r] = "armed" \/ call'[r].st = "waiting"
    <2>1. CASE Write(r)
      BY <2>1, StateEffect DEF Write
    <2>2. CASE ~Write(r)
      BY <2>2 DEF RequestStep, CallerStep, WaiterStep, Store, Load, WriteFails,
           Take, ChannelEnds, GiveUp, Cancel, WaiterEnds, EndContext, TypeOK
    <2> QED
      BY <2>1, <2>2
  <1>5. call[r].st = "found" => call'[r] = call[r] \/ Store(r)
    BY DEF RequestStep, CallerStep, WaiterStep, Load, WriteFails, Write,
         Take, ChannelEnds, GiveUp, Cancel, WaiterEnds, EndContext
  <1> QED
    BY <1>2, <1>3, <1>4, <1>5 DEF KeepsSession

LEMMA CallSessionType ==
    ASSUME TypeOK, References, NEW r \in Requests, call[r].st \in {"found", "stored", "loaded", "waiting"}
    PROVE  call[r].sess \in Sessions
  BY CallFacts DEF References

LEMMA ReferencesStep ==
    TypeOK /\ TypeOK' /\ Fresh /\ References /\ [Next]_vars => References'
  <1> SUFFICES ASSUME TypeOK, TypeOK', Fresh, References, [Next]_vars
               PROVE  References'
    OBVIOUS
  <1> USE Constants
  <1> DEFINE SameCalls == UNCHANGED <<call, waiter>>
  <1>0. ASSUME SameCalls
        PROVE  /\ \A r \in Requests : KeepsSession(r)
               /\ \A r \in Requests : waiter'[r] = "armed" =>
                    waiter[r] = "armed" \/ call'[r].st = "waiting"
    BY <1>0 DEF KeepsSession
  <1>1. CASE CallsQuiet
    <2>1. SameCalls /\ UNCHANGED <<pending, visiting>>
      BY <1>1 DEF CallsQuiet
    <2>2. \A s \in Sessions, r \in Requests : Holds(s, r)' => Holds(s, r)
      BY <1>1 DEF CallsQuiet, Holds
    <2> QED
      BY <1>0, <2>1, <2>2, ReferencesKept
  <1>2. ASSUME NEW s \in Sessions, NEW r \in Requests, Visit(s, r) PROVE References'
    <2>1. SameCalls /\ UNCHANGED <<pending, reader>> /\ r \in pending[s]
            /\ visiting' = [visiting EXCEPT ![s] = r]
      BY <1>2 DEF Visit, callVars
    <2>2. \A t \in Sessions, q \in Requests : visiting'[t] = q => visiting[t] = q \/ q \in pending[t]
      BY <2>1 DEF TypeOK
    <2>3. \A t \in Sessions, q \in Requests : Holds(t, q)' => Holds(t, q)
      BY <2>1 DEF Holds, Dispatching
    <2> QED
      BY <1>0, <2>1, <2>2, <2>3, ReferencesKept
  <1>3. ASSUME NEW s \in Sessions, FailPending(s) PROVE References'
    <2>1. SameCalls /\ UNCHANGED reader /\ visiting' = [visiting EXCEPT ![s] = Nil]
      BY <1>3, FailPendingEffect DEF callVars
    <2>2. pending' = pending \/ pending' = [pending EXCEPT ![s] = @ \ {visiting[s]}]
      BY <1>3, FailPendingEffect DEF Panics
    <2>3. \A t \in Sessions, q \in Requests : q \in pending'[t] => q \in pending[t]
      BY <2>2, PendingShrinks
    <2>4. \A t \in Sessions, q \in Requests : visiting'[t] = q => visiting[t] = q
      BY <2>1 DEF TypeOK
    <2>5. \A t \in Sessions, q \in Requests : Holds(t, q)' => Holds(t, q)
      BY <2>1 DEF Holds, Dispatching
    <2> QED
      BY <1>0, <2>1, <2>3, <2>4, <2>5, ReferencesKept
  <1>4. ASSUME NEW s \in Sessions, Dispatch(s) PROVE References'
    <2>1. SameCalls /\ UNCHANGED visiting /\ reader' = [reader EXCEPT ![s] = AtLoop("reading")]
      BY <1>4, DispatchEffect DEF callVars, cleanVars
    <2>2. pending' = pending \/ pending' = [pending EXCEPT ![s] = @ \ {reader[s].id}]
      BY <1>4, DispatchEffect DEF Panics, Forget
    <2>3. \A t \in Sessions, q \in Requests : q \in pending'[t] => q \in pending[t]
      BY <2>2, PendingShrinks
    <2>4. \A t \in Sessions, q \in Requests : Holds(t, q)' => Holds(t, q)
      BY <2>1, LoopTypes DEF Holds, Dispatching, TypeOK
    <2> QED
      BY <1>0, <2>1, <2>3, <2>4, ReferencesKept
  <1>5. ASSUME NEW s \in Sessions, NEW r \in Requests, NEW m \in Messages, Read(s, r, m)
        PROVE  References'
    <2>1. /\ SameCalls /\ UNCHANGED <<visiting, pending>>
          /\ reader' = [reader EXCEPT ![s] = [st |-> "dispatch", id |-> r, msg |-> m]]
          /\ r \in pending[s] /\ call[r].st \in {"waiting", "done"}
      BY <1>5 DEF Read, callVars, cleanVars
    <2>2. Stored(r) /\ call[r].sess = s
      BY <2>1 DEF References
    <2>3. \A t \in Sessions, q \in Requests : Holds(t, q)' => Holds(t, q) \/ (t = s /\ q = r)
      BY <2>1 DEF Holds, Dispatching, TypeOK
    <2> QED
      BY <2>1, <2>2, <2>3 DEF References, Stored
  <1>6. ASSUME NEW r \in Requests, NEW kind \in Kinds, Send(r, kind) PROVE References'
    <2>1. CallSteps(r)
      BY <1>6 DEF CallSteps
    <2>2. /\ \A q \in Requests \ {r} : call'[q] = call[q]
          /\ UNCHANGED <<waiter, pending, visiting, reader>>
      BY <1>6, <2>1, CallMoves, SendEffect
    <2>3. ~Stored(r)
      BY <1>6, SendEffect DEF Stored
    <2>4. \A q \in Requests : Stored(q) => q # r /\ call'[q] = call[q]
      BY <2>2, <2>3
    <2>5. /\ call'[r].st \in {"found", "stored", "loaded", "waiting"} => call'[r].sess # Nil
          /\ call'[r].st # "idle"
      BY <1>6, SendEffect
    <2> QED
      BY <2>2, <2>4, <2>5 DEF References, Stored, Holds, Dispatching
  <1>7. ASSUME NEW r \in Requests, Store(r) PROVE References'
    <2>1. /\ \A q \in Requests \ {r} : call'[q] = call[q]
          /\ UNCHANGED reader
      BY <1>7, CallMoves DEF CallSteps, RequestStep
    <2>2. /\ call'[r].st = "stored" /\ call'[r].sess = call[r].sess
          /\ call[r].st = "found"
      BY <1>7, StateEffect DEF Store
    <2>3. /\ call[r].sess \in Sessions
          /\ pending' = [pending EXCEPT ![call[r].sess] = @ \cup {r}]
          /\ UNCHANGED <<visiting, waiter>>
      BY <1>7, <2>2, CallSessionType DEF Store, cleanVars
    <2>4. \A s \in Sessions, q \in Requests :
            q \in pending'[s] => q \in pending[s] \/ (q = r /\ s = call[r].sess)
      BY <2>3 DEF TypeOK
    <2>5. \A q \in Requests : Stored(q) => q # r /\ call'[q] = call[q]
      BY <2>1, <2>2 DEF Stored
    <2>6. Stored(r)' /\ call'[r].sess \in Sessions
      BY <2>2, <2>3 DEF Stored
    <2> QED
      BY <2>1, <2>2, <2>3, <2>4, <2>5, <2>6 DEF References, Stored, Holds, Dispatching
  <1>8. ASSUME NEW r \in Requests,
               RequestStep(r) \/ CallerStep(r) \/ WaiterStep(r) \/ EndContext(r), ~Store(r)
        PROVE  References'
    <2>1. UNCHANGED <<reader, visiting>>
      BY <1>8, CallMoves DEF CallSteps, cleanVars
    <2>2. pending' = pending \/ pending' = [pending EXCEPT ![call[r].sess] = @ \ {r}]
      BY <1>8 DEF RequestStep, CallerStep, WaiterStep, Load, WriteFails,
           Write, Take, ChannelEnds, GiveUp, Cancel, WaiterEnds, EndContext, Forget
    <2>3. \A s \in Sessions, q \in Requests : q \in pending'[s] => q \in pending[s]
      BY <2>2, PendingShrinks
    <2>4. \A s \in Sessions, q \in Requests : Holds(s, q)' => Holds(s, q)
      BY <2>1 DEF Holds, Dispatching
    <2> QED
      BY <1>8, <2>1, <2>3, <2>4, ReferencesKept, CallsKeepSession
  <1> QED
    BY <1>1, <1>2, <1>3, <1>4, <1>5, <1>6, <1>7, <1>8, QuietOrNot DEF CallSteps

-----------------------------------------------------------------------------
(* Channels close as entries leave the map.                                *)

(* Who closes a channel.                                                   *)
Closer(r) ==
    \/ \E s \in Sessions : FailPending(s) /\ visiting[s] = r
    \/ \E s \in Sessions : Dispatch(s) /\ Holds(s, r)
    \/ WriteFails(r) \/ Cancel(r)

(* The channel of r is closed and its entry deleted, by a cleanup, for a   *)
(* context that ended or with nobody about to send.                        *)
Closes(r) ==
    /\ Closer(r)
    /\ Stored(r)
    /\ pending' = [pending EXCEPT ![call[r].sess] = @ \ {r}]
    /\ chClosed' = [chClosed EXCEPT ![r] = TRUE]
    /\ closed[call[r].sess] \/ ctxDone[r] \/ \A s \in Sessions : ~Holds(s, r)'

LEMMA ForgetCloses ==
    ASSUME TypeOK, OpenIsPending, NEW r \in Requests, Stored(r), Forget(call[r].sess, r)
    PROVE  /\ pending' = [pending EXCEPT ![call[r].sess] = @ \ {r}]
           /\ chClosed' = [chClosed EXCEPT ![r] = TRUE]
  <1>1. chClosed \in [Requests -> BOOLEAN]
    BY DEF TypeOK
  <1>2. CASE r \in pending[call[r].sess]
    BY <1>2 DEF Forget, CloseChan
  <1>3. CASE r \notin pending[call[r].sess]
    <2>1. chClosed[r] = TRUE
      BY <1>1, <1>3 DEF OpenIsPending
    <2> QED
      BY <1>1, <1>3, <2>1 DEF Forget
  <1> QED
    BY <1>2, <1>3

LEMMA ChannelSteps ==
    ASSUME TypeOK, Fresh, Closing, References, OpenIsPending, [Next]_vars
    PROVE  \/ UNCHANGED <<pending, chClosed>>
           \/ \E r \in Requests : Store(r)
           \/ \E r \in Requests : Closes(r)
  <1>1. CASE CallsQuiet
    BY <1>1 DEF CallsQuiet
  <1>2. ASSUME NEW s \in Sessions, NEW r \in Requests, Visit(s, r)
        PROVE  UNCHANGED <<pending, chClosed>>
    BY <1>2 DEF Visit, chanVars
  <1>3. ASSUME NEW s \in Sessions, FailPending(s)
        PROVE  UNCHANGED <<pending, chClosed>> \/ \E r \in Requests : Closes(r)
    <2>0. PICK r \in Requests : r = visiting[s]
      BY <1>3, FailPendingEffect
    <2>1. r \in Requests /\ Stored(r) /\ call[r].sess = s
      BY <2>0 DEF References
    <2>2. closed[s]
      BY <1>3, <2>0, Constants DEF Closing
    <2>3. CASE Panics(r)
      BY <2>3 DEF Panics
    <2>4. CASE ~Panics(r)
      <3>1. Closes(r)
        BY <1>3, <2>0, <2>1, <2>2, <2>4, FailPendingEffect DEF Closes, Closer
      <3> QED
        BY <2>1, <3>1
    <2> QED
      BY <2>3, <2>4
  <1>4. ASSUME NEW s \in Sessions, Dispatch(s)
        PROVE  UNCHANGED <<pending, chClosed>> \/ \E r \in Requests : Closes(r)
    <2>0. PICK r \in Requests : r = reader[s].id
      BY <1>4, DispatchEffect
    <2>1. r \in Requests /\ Holds(s, r) /\ reader' = [reader EXCEPT ![s] = AtLoop("reading")]
      BY <1>4, <2>0, DispatchEffect
    <2>2. Stored(r) /\ call[r].sess = s
      BY <2>1 DEF References
    <2>3. \A t \in Sessions : Holds(t, r)' => Holds(t, r) /\ t # s
      BY <2>1, LoopTypes DEF Holds, Dispatching, TypeOK
    <2>4. \A t \in Sessions : ~Holds(t, r)'
      BY <2>1, <2>2, <2>3 DEF References
    <2>5. CASE Forget(s, r)
      <3>1. Closes(r)
        BY <1>4, <2>1, <2>2, <2>4, <2>5, ForgetCloses DEF Closes, Closer
      <3> QED
        BY <2>1, <3>1
    <2>6. CASE ~Forget(s, r)
      BY <1>4, <2>0, <2>6, DispatchEffect DEF Panics
    <2> QED
      BY <2>5, <2>6
  <1>5. ASSUME NEW s \in Sessions, NEW r \in Requests, NEW m \in Messages, Read(s, r, m)
        PROVE  UNCHANGED <<pending, chClosed>>
    BY <1>5 DEF Read, chanVars
  <1>6. ASSUME NEW r \in Requests, WriteFails(r) PROVE Closes(r)
    <2>1. call[r].st = "loaded" /\ Stored(r)
      BY <1>6 DEF WriteFails, References, Stored
    <2>2. \A s \in Sessions : ~Holds(s, r)
      BY <2>1 DEF References
    <2>3. \A s \in Sessions : ~Holds(s, r)'
      BY <1>6, <2>2 DEF WriteFails, Holds, Dispatching
    <2> QED
      BY <1>6, <2>1, <2>3, ForgetCloses DEF WriteFails, Closes, Closer
  <1>7. ASSUME NEW r \in Requests, Cancel(r) PROVE Closes(r)
    <2>1. Stored(r) /\ ctxDone[r]
      BY <1>7 DEF Cancel, References
    <2> QED
      BY <1>7, <2>1, ForgetCloses DEF Cancel, Closes, Closer
  <1>8. ASSUME NEW r \in Requests, CallSteps(r), ~Store(r), ~WriteFails(r), ~Cancel(r)
        PROVE  UNCHANGED <<pending, chClosed>>
    BY <1>8 DEF CallSteps, RequestStep, CallerStep, WaiterStep, Send, Load, Write, Take,
         ChannelEnds, GiveUp, WaiterEnds, EndContext, chanVars
  <1> QED
    BY <1>1, <1>2, <1>3, <1>4, <1>5, <1>6, <1>7, <1>8, QuietOrNot

(* Entries are stored, and are not removed from the calls' side, but by    *)
(* the steps above.                                                        *)
LEMMA StoredStep ==
    ASSUME TypeOK, Fresh, References, [Next]_vars, NEW q \in Requests
    PROVE  /\ Stored(q) => Stored(q)' /\ call'[q].sess = call[q].sess
           /\ Stored(q)' => Stored(q) \/ Store(q)
  <1>1. CASE UNCHANGED call
    BY <1>1 DEF Stored
  <1>2. ASSUME NEW r \in Requests, NEW kind \in Kinds, Send(r, kind)
        PROVE  /\ Stored(q) => Stored(q)' /\ call'[q].sess = call[q].sess
               /\ Stored(q)' => Stored(q)
    <2>1. q # r => call'[q] = call[q]
      BY <1>2, CallMoves DEF CallSteps
    <2>2. ~Stored(r) /\ call[r].sess = Nil
      BY <1>2, SendEffect DEF Stored, References
    <2>3. ~Stored(r)'
      BY <1>2, <2>2, SendEffect DEF Stored
    <2> QED
      BY <2>1, <2>2, <2>3 DEF Stored
  <1>3. ASSUME NEW r \in Requests,
               RequestStep(r) \/ CallerStep(r) \/ WaiterStep(r) \/ EndContext(r)
        PROVE  /\ Stored(q) => Stored(q)' /\ call'[q].sess = call[q].sess
               /\ Stored(q)' => Stored(q) \/ Store(q)
    <2>1. KeepsSession(q) /\ (call[q].st = "found" => call'[q] = call[q] \/ Store(q))
      BY <1>3, CallsKeepSession
    <2> QED
      BY <2>1 DEF KeepsSession, Stored
  <1>4. ASSUME NEW s \in Sessions,
               \/ \E r \in Requests : Visit(s, r)
               \/ FailPending(s)
               \/ Dispatch(s)
               \/ \E r \in Requests, m \in Messages : Read(s, r, m)
        PROVE  UNCHANGED call
    BY <1>4 DEF Visit, FailPending, Dispatch, Read, callVars
  <1>5. CASE CallsQuiet
    BY <1>1, <1>5 DEF CallsQuiet
  <1> QED
    BY <1>1, <1>2, <1>3, <1>4, <1>5, QuietOrNot DEF CallSteps

LEMMA OpenIsPendingStep ==
    TypeOK /\ TypeOK' /\ Fresh /\ Closing /\ References /\ References' /\ OpenIsPending
      /\ [Next]_vars => OpenIsPending'
  <1> SUFFICES ASSUME TypeOK, TypeOK', Fresh, Closing, References, References', OpenIsPending,
                      [Next]_vars, NEW q \in Requests
               PROVE  /\ ~Stored(q)' => ~chClosed'[q]
                      /\ Stored(q)' => (q \in pending'[call'[q].sess] <=> ~chClosed'[q])
    BY DEF OpenIsPending
  <1>0. /\ ~Stored(q) => ~chClosed[q]
        /\ Stored(q) => (q \in pending[call[q].sess] <=> ~chClosed[q])
    BY DEF OpenIsPending
  <1>1. CASE UNCHANGED <<pending, chClosed>>
    <2>1. ~Store(q)
      <3> SUFFICES ASSUME Store(q) PROVE FALSE
        OBVIOUS
      <3>1. call[q].sess \in Sessions /\ ~Stored(q)
        BY CallSessionType DEF Store, Stored
      <3>2. q \in pending'[call[q].sess]
        BY <3>1 DEF Store, TypeOK
      <3> QED
        BY <1>1, <3>1, <3>2 DEF References
    <2> QED
      BY <1>0, <1>1, <2>1, StoredStep
  <1>2. ASSUME NEW r \in Requests, Store(r)
        PROVE  /\ ~Stored(q)' => ~chClosed'[q]
               /\ Stored(q)' => (q \in pending'[call'[q].sess] <=> ~chClosed'[q])
    <2>1. /\ call[r].sess \in Sessions /\ ~Stored(r)
          /\ pending' = [pending EXCEPT ![call[r].sess] = @ \cup {r}]
          /\ UNCHANGED chClosed
      BY <1>2, CallSessionType DEF Store, Stored, chanVars
    <2>2. CASE q = r
      <3>1. call'[r].sess = call[r].sess
        BY <1>2, StateEffect DEF Store
      <3>2. r \in pending'[call[r].sess]
        BY <2>1 DEF TypeOK
      <3> QED
        BY <1>0, <2>1, <2>2, <3>1, <3>2
    <2>3. CASE q # r
      <3>1. call'[q] = call[q]
        BY <1>2, <2>3, CallMoves DEF CallSteps, RequestStep
      <3>2. \A s \in Sessions : q \in pending'[s] <=> q \in pending[s]
        BY <2>1, <2>3 DEF TypeOK
      <3>3. Stored(q) => call[q].sess \in Sessions
        BY CallFacts DEF Stored
      <3> QED
        BY <1>0, <2>1, <3>1, <3>2, <3>3 DEF Stored
    <2> QED
      BY <2>2, <2>3
  <1>3. ASSUME NEW r \in Requests, Closes(r)
        PROVE  /\ ~Stored(q)' => ~chClosed'[q]
               /\ Stored(q)' => (q \in pending'[call'[q].sess] <=> ~chClosed'[q])
    <2>1. \A p \in Requests : Stored(p) => call[p].sess \in Sessions
      BY CallFacts DEF Stored
    <2>2. ~Store(q)
      <3> SUFFICES ASSUME Store(q) PROVE FALSE
        OBVIOUS
      <3>1. call[q].sess \in Sessions /\ ~Stored(q)
        BY CallSessionType DEF Store, Stored
      <3>2. q \in pending'[call[q].sess] /\ q \notin pending[call[q].sess]
        BY <3>1 DEF Store, References, TypeOK
      <3> QED
        BY <1>3, <3>1, <3>2, PendingShrinks DEF Closes
    <2>3. CASE q = r
      <3>1. r \notin pending'[call[r].sess] /\ chClosed'[r]
        BY <1>3, <2>1 DEF Closes, TypeOK
      <3> QED
        BY <1>3, <2>3, <3>1, StoredStep DEF Closes
    <2>4. CASE q # r
      <3>1. \A s \in Sessions : q \in pending'[s] <=> q \in pending[s]
        BY <1>3, <2>1, <2>4 DEF Closes, TypeOK
      <3>2. chClosed'[q] = chClosed[q]
        BY <1>3, <2>4 DEF Closes, TypeOK
      <3> QED
        BY <1>0, <2>1, <2>2, <3>1, <3>2, StoredStep
    <2> QED
      BY <2>3, <2>4
  <1> QED
    BY <1>1, <1>2, <1>3, ChannelSteps

-----------------------------------------------------------------------------
(* Dispatches.                                                             *)

LEMMA HoldsStep ==
    ASSUME TypeOK, Fresh, [Next]_vars, NEW s \in Sessions, NEW q \in Requests, Holds(s, q)'
    PROVE  \/ Holds(s, q) /\ reader'[s] = reader[s]
           \/ \E m \in Messages : Read(s, q, m)
  <1>1. CASE CallsQuiet
    BY <1>1 DEF CallsQuiet, Holds
  <1>2. CASE UNCHANGED reader
    BY <1>2 DEF Holds, Dispatching
  <1>3. ASSUME NEW t \in Sessions, Dispatch(t) PROVE Holds(s, q) /\ reader'[s] = reader[s]
    BY <1>3, LoopTypes DEF Dispatch, Holds, Dispatching, TypeOK
  <1>4. ASSUME NEW t \in Sessions, NEW r \in Requests, NEW m \in Messages, Read(t, r, m)
        PROVE  \/ Holds(s, q) /\ reader'[s] = reader[s]
               \/ \E n \in Messages : Read(s, q, n)
    <2>1. reader' = [reader EXCEPT ![t] = [st |-> "dispatch", id |-> r, msg |-> m]]
      BY <1>4 DEF Read
    <2>2. CASE s = t
      <3>1. q = r
        BY <2>1, <2>2 DEF Holds, TypeOK
      <3> QED
        BY <1>4, <2>2, <3>1
    <2>3. CASE s # t
      BY <2>1, <2>3 DEF Holds, Dispatching, TypeOK
    <2> QED
      BY <2>2, <2>3
  <1>5. ASSUME NEW t \in Sessions, FailPending(t) \/ \E r \in Requests : Visit(t, r)
        PROVE  UNCHANGED reader
    BY <1>5 DEF FailPending, Visit
  <1>6. ASSUME NEW r \in Requests, CallSteps(r) PROVE UNCHANGED reader
    BY <1>6, CallMoves
  <1> QED
    BY <1>1, <1>2, <1>3, <1>4, <1>5, <1>6, QuietOrNot

LEMMA Monotone ==
    ASSUME TypeOK, Fresh, [Next]_vars
    PROVE  /\ \A s \in Sessions : closed[s] => closed'[s]
           /\ \A q \in Requests : ctxDone[q] => ctxDone'[q]
  <1>1. CASE CallsQuiet
    BY <1>1 DEF CallsQuiet
  <1>2. ASSUME NEW s \in Sessions,
               \/ \E r \in Requests : Visit(s, r)
               \/ FailPending(s)
               \/ Dispatch(s)
               \/ \E r \in Requests, m \in Messages : Read(s, r, m)
        PROVE  UNCHANGED <<closed, ctxDone>>
    BY <1>2 DEF Visit, FailPending, Dispatch, Read, callVars, cleanVars
  <1>3. ASSUME NEW r \in Requests, CallSteps(r)
        PROVE  UNCHANGED closed /\ \A q \in Requests : ctxDone[q] => ctxDone'[q]
    BY <1>3, CallMoves DEF cleanVars
  <1> QED
    BY <1>1, <1>2, <1>3, QuietOrNot

LEMMA ClosedUnderDispatchStep ==
    TypeOK /\ Fresh /\ Closing /\ References /\ OpenIsPending /\ ClosedUnderDispatch
      /\ [Next]_vars => ClosedUnderDispatch'
  <1> SUFFICES ASSUME TypeOK, Fresh, Closing, References, OpenIsPending, ClosedUnderDispatch,
                      [Next]_vars, NEW s \in Sessions, NEW q \in Requests,
                      Holds(s, q)', chClosed'[q]
               PROVE  ctxDone'[q] \/ closed'[s]
    BY DEF ClosedUnderDispatch
  <1>1. CASE Holds(s, q) /\ chClosed[q]
    BY <1>1, Monotone DEF ClosedUnderDispatch
  <1>2. CASE Holds(s, q) /\ ~chClosed[q]
    <2>1. \A r \in Requests : Store(r) => UNCHANGED chClosed
      BY DEF Store, chanVars
    <2>2. PICK r \in Requests : Closes(r)
      BY <1>2, <2>1, ChannelSteps
    <2>3. r = q
      BY <1>2, <2>2 DEF Closes, TypeOK
    <2>4. call[q].sess = s
      BY <1>2 DEF References
    <2> QED
      BY <2>2, <2>3, <2>4, Monotone DEF Closes
  <1>3. ASSUME NEW m \in Messages, Read(s, q, m) PROVE FALSE
    <2>1. q \in pending[s] /\ UNCHANGED chClosed
      BY <1>3 DEF Read, chanVars
    <2>2. ~chClosed[q]
      BY <2>1 DEF References, OpenIsPending
    <2> QED
      BY <2>1, <2>2
  <1> QED
    BY <1>1, <1>2, <1>3, HoldsStep

LEMMA PanicNeedsRaceStep ==
    TypeOK /\ Fresh /\ Closing /\ References /\ ClosedUnderDispatch /\ PanicNeedsRace
      /\ [Next]_vars => PanicNeedsRace'
  <1> SUFFICES ASSUME TypeOK, Fresh, Closing, References, ClosedUnderDispatch, PanicNeedsRace,
                      [Next]_vars, crashed' # Nil
               PROVE  ctxDone'[crashed'] \/ closed'[call'[crashed'].sess]
    BY DEF PanicNeedsRace
  <1>1. CASE crashed # Nil
    <2>1. UNCHANGED vars
      BY <1>1 DEF Next
    <2> QED
      BY <1>1, <2>1 DEF vars, callVars, cleanVars, PanicNeedsRace
  <1>2. CASE crashed = Nil /\ CallsQuiet
    BY <1>2 DEF CallsQuiet
  <1>3. ASSUME NEW s \in Sessions, FailPending(s), crashed = Nil
        PROVE  closed'[call'[crashed'].sess]
    <2>1. PICK r \in Requests : r = visiting[s]
      BY <1>3, FailPendingEffect
    <2>2. crashed' = r /\ UNCHANGED <<closed, call>>
      BY <1>3, <2>1, FailPendingEffect DEF Panics, callVars
    <2>3. call[r].sess = s /\ closed[s]
      BY <2>1, Constants DEF References, Closing
    <2> QED
      BY <2>2, <2>3
  <1>4. ASSUME NEW s \in Sessions, Dispatch(s), crashed = Nil
        PROVE  ctxDone'[crashed'] \/ closed'[call'[crashed'].sess]
    <2>1. PICK r \in Requests : r = reader[s].id
      BY <1>4, DispatchEffect
    <2>2. crashed' = r /\ chClosed[r] /\ Holds(s, r) /\ UNCHANGED <<closed, call, ctxDone>>
      BY <1>4, <2>1, DispatchEffect DEF Panics, callVars, cleanVars
    <2>3. call[r].sess = s /\ (ctxDone[r] \/ closed[s])
      BY <2>2 DEF References, ClosedUnderDispatch
    <2> QED
      BY <2>2, <2>3
  <1>5. ASSUME NEW s \in Sessions, crashed = Nil,
               \/ \E r \in Requests : Visit(s, r)
               \/ \E r \in Requests, m \in Messages : Read(s, r, m)
        PROVE  FALSE
    BY <1>5 DEF Visit, Read
  <1>6. ASSUME NEW r \in Requests, CallSteps(r), crashed = Nil PROVE FALSE
    BY <1>6, CallMoves
  <1> QED
    BY <1>1, <1>2, <1>3, <1>4, <1>5, <1>6, QuietOrNot

-----------------------------------------------------------------------------
(* No caller is left behind a cleanup.                                     *)

(* The cleanup of the caller's session, if it runs, has yet to visit it.   *)
ToBeVisited ==
    \A r \in Requests : call[r].st = "waiting" /\ ~chClosed[r] =>
        LET s == call[r].sess
        IN  clean[s] = "no" \/ (clean[s] = "ranging" /\ r \in left[s])

LEMMA VisitedOrPending ==
    References /\ OpenIsPending /\ ToBeVisited => NobodyForgotten
  BY DEF References, OpenIsPending, ToBeVisited, NobodyForgotten, Stored

LEMMA WaitingStep ==
    ASSUME TypeOK, Fresh, [Next]_vars, NEW q \in Requests, call'[q].st = "waiting"
    PROVE  Write(q) \/ (call[q].st = "waiting" /\ call'[q].sess = call[q].sess)
  <1>1. CASE UNCHANGED call
    BY <1>1
  <1>2. ASSUME NEW r \in Requests, CallSteps(r), q # r PROVE call'[q] = call[q]
    BY <1>2, CallMoves
  <1>3. ASSUME NEW kind \in Kinds, Send(q, kind) PROVE FALSE
    BY <1>3, SendEffect
  <1>4. CASE Store(q)
    BY <1>4, StateEffect DEF Store
  <1>5. CASE Load(q)
    BY <1>5, StateEffect, FinishEffect DEF Load
  <1>6. CASE WriteFails(q) \/ ChannelEnds(q) \/ GiveUp(q)
    BY <1>6, FinishEffect DEF WriteFails, ChannelEnds, GiveUp
  <1>7. CASE Take(q)
    BY <1>7, TakeEffect DEF Take
  <1>8. CASE WaiterStep(q) \/ EndContext(q)
    BY <1>8 DEF WaiterStep, Cancel, WaiterEnds, EndContext
  <1>9. ASSUME NEW s \in Sessions,
               \/ \E r \in Requests : Visit(s, r)
               \/ FailPending(s)
               \/ Dispatch(s)
               \/ \E r \in Requests, m \in Messages : Read(s, r, m)
        PROVE  UNCHANGED call
    BY <1>9 DEF Visit, FailPending, Dispatch, Read, callVars
  <1>10. CASE CallsQuiet
    BY <1>1, <1>10 DEF CallsQuiet
  <1>11. CASE CallSteps(q)
    BY <1>3, <1>4, <1>5, <1>6, <1>7, <1>8, <1>11 DEF CallSteps, RequestStep, CallerStep
  <1> QED
    BY <1>1, <1>2, <1>9, <1>10, <1>11, QuietOrNot

LEMMA ToBeVisitedStep ==
    TypeOK /\ Fresh /\ Closing /\ References /\ OpenIsPending /\ ToBeVisited
      /\ [Next]_vars => ToBeVisited'
  <1> SUFFICES ASSUME TypeOK, Fresh, Closing, References, OpenIsPending, ToBeVisited,
                      [Next]_vars, NEW q \in Requests,
                      call'[q].st = "waiting", ~chClosed'[q]
               PROVE  LET s == call'[q].sess
                      IN  clean'[s] = "no" \/ (clean'[s] = "ranging" /\ q \in left'[s])
    BY DEF ToBeVisited
  <1>1. CASE Write(q)
    <2>1. /\ call'[q].sess = call[q].sess /\ clean' = clean /\ left' = left
          /\ call[q].st = "loaded" /\ ~closed[call[q].sess]
      BY <1>1, StateEffect DEF Write, cleanVars
    <2>2. call[q].sess \in Sessions
      BY <2>1, CallSessionType
    <2> QED
      BY <2>1, <2>2 DEF Closing
  <1>2. CASE ~Write(q)
    <2>1. PICK s \in Sessions : /\ call[q].st = "waiting"
                                /\ s = call[q].sess /\ s = call'[q].sess
      BY <1>2, WaitingStep, CallSessionType
    <2>2. SUFFICES clean'[s] = "no" \/ (clean'[s] = "ranging" /\ q \in left'[s])
      BY <2>1
    <2>3. ~chClosed[q]
      <3>1. \A r \in Requests : Store(r) => UNCHANGED chClosed
        BY DEF Store, chanVars
      <3>2. \A r \in Requests : Closes(r) => (chClosed[q] => chClosed'[q])
        BY DEF Closes, TypeOK
      <3> QED
        BY <3>1, <3>2, ChannelSteps
    <2>4. q \in pending[s] /\ (clean[s] = "no" \/ (clean[s] = "ranging" /\ q \in left[s]))
      BY <2>1, <2>3, Constants DEF OpenIsPending, ToBeVisited, Stored
    <2>5. CASE UNCHANGED <<clean, left>>
      BY <2>4, <2>5
    <2>6. ASSUME NEW t \in Sessions, Evict(t) \/ PingFails(t) \/ ReadFails(t)
          PROVE  clean'[s] = "no" \/ (clean'[s] = "ranging" /\ q \in left'[s])
      <3>1. clean' = [clean EXCEPT ![t] = "ranging"] /\ left' = [left EXCEPT ![t] = pending[t]]
        BY <2>6 DEF Evict, PingFails, ReadFails, StartCleanup
      <3> QED
        BY <2>4, <3>1 DEF TypeOK
    <2>7. ASSUME NEW t \in Sessions, HandleSessionClosed(t)
          PROVE  clean'[s] = "no" \/ (clean'[s] = "ranging" /\ q \in left'[s])
      <3>1. t # s
        BY <2>4, <2>7 DEF HandleSessionClosed
      <3> QED
        BY <2>4, <2>7, <3>1 DEF HandleSessionClosed, TypeOK
    <2>8. ASSUME NEW t \in Sessions, Notify(t)
          PROVE  clean'[s] = "no" \/ (clean'[s] = "ranging" /\ q \in left'[s])
      <3>1. t # s
        BY <2>4, <2>8 DEF Notify
      <3> QED
        BY <2>4, <2>8, <3>1 DEF Notify, TypeOK
    <2>9. ASSUME NEW t \in Sessions, FailPending(t)
          PROVE  clean'[s] = "no" \/ (clean'[s] = "ranging" /\ q \in left'[s])
      <3>1. visiting[t] # q
        <4> SUFFICES ASSUME visiting[t] = q PROVE FALSE
          OBVIOUS
        <4>1. chClosed' = [chClosed EXCEPT ![q] = TRUE]
          BY <2>3, <2>9, FailPendingEffect DEF Panics
        <4> QED
          BY <4>1 DEF TypeOK
      <3>2. UNCHANGED clean /\ left' = [left EXCEPT ![t] = @ \ {visiting[t]}]
        BY <2>9, FailPendingEffect
      <3> QED
        BY <2>4, <3>1, <3>2 DEF TypeOK
    <2>10. ASSUME NEW t \in Sessions,
                  \/ Connect(t) \/ Announce(t) \/ Dispatch(t)
                  \/ \E r \in Requests : Visit(t, r)
                  \/ \E r \in Requests, m \in Messages : Read(t, r, m)
           PROVE  UNCHANGED <<clean, left>>
      BY <2>10 DEF Connect, Announce, Dispatch, Visit, Read, cleanVars
    <2>11. ASSUME NEW r \in Requests, CallSteps(r) PROVE UNCHANGED <<clean, left>>
      BY <2>11, CallMoves DEF cleanVars
    <2> QED
      BY <2>5, <2>6, <2>7, <2>8, <2>9, <2>10, <2>11, Steps, StopStep, StutterStep
  <1> QED
    BY <1>1, <1>2

-----------------------------------------------------------------------------
(* What steps do to a call's record, its channel and its answer.           *)

LEMMA CallData ==
    ASSUME TypeOK, Fresh, [Next]_vars, NEW q \in Requests
    PROVE  /\ call[q].st = "done" => call'[q] = call[q]
           /\ call'[q].got = call[q].got \/ Take(q)
           /\ call'[q].result = call[q].result \/ call'[q].st = "done"
           /\ call'[q].result = "ok" => call[q].result = "ok" \/ Take(q) \/ ChannelEnds(q)
  <1>1. CASE UNCHANGED call
    BY <1>1
  <1>2. ASSUME NEW r \in Requests, CallSteps(r), q # r PROVE call'[q] = call[q]
    BY <1>2, CallMoves
  <1>3. ASSUME NEW kind \in Kinds, Send(q, kind)
        PROVE  /\ call[q].st # "done"
               /\ call'[q].got = call[q].got
               /\ call'[q].result = call[q].result \/ call'[q].st = "done"
               /\ call'[q].result = "ok" => call[q].result = "ok"
    BY <1>3, SendEffect
  <1>4. CASE Store(q)
    BY <1>4, StateEffect DEF Store
  <1>5. CASE Load(q)
    BY <1>5, StateEffect, FinishEffect DEF Load
  <1>6. CASE WriteFails(q) \/ ChannelEnds(q) \/ GiveUp(q)
    <2>1. CASE WriteFails(q)
      BY <2>1, FinishEffect DEF WriteFails
    <2>2. CASE GiveUp(q)
      BY <2>2, FinishEffect DEF GiveUp
    <2>3. CASE ChannelEnds(q)
      <3>1. PICK res : Finish(q, res)
        BY <2>3 DEF ChannelEnds
      <3> QED
        BY <2>3, <3>1, FinishEffect DEF ChannelEnds
    <2> QED
      BY <1>6, <2>1, <2>2, <2>3
  <1>7. CASE Take(q)
    BY <1>7, TakeEffect DEF Take
  <1>8. CASE Write(q)
    BY <1>8, StateEffect DEF Write
  <1>9. CASE WaiterStep(q) \/ EndContext(q)
    BY <1>9 DEF WaiterStep, Cancel, WaiterEnds, EndContext
  <1>10. ASSUME NEW s \in Sessions,
                \/ \E r \in Requests : Visit(s, r)
                \/ FailPending(s)
                \/ Dispatch(s)
                \/ \E r \in Requests, m \in Messages : Read(s, r, m)
         PROVE  UNCHANGED call
    BY <1>10 DEF Visit, FailPending, Dispatch, Read, callVars
  <1>11. CASE CallsQuiet
    BY <1>1, <1>11 DEF CallsQuiet
  <1>12. CASE CallSteps(q)
    BY <1>3, <1>4, <1>5, <1>6, <1>7, <1>8, <1>9, <1>12 DEF CallSteps, RequestStep, CallerStep
  <1> QED
    BY <1>1, <1>2, <1>10, <1>11, <1>12, QuietOrNot

LEMMA OfferEffect ==
    ASSUME TypeOK, NEW r \in Requests, NEW m \in Messages, Offer(r, m)
    PROVE  /\ \A q \in Requests \ {r} : chan'[q] = chan[q] /\ lost'[q] = lost[q]
           /\ \/ chan'[r] = Append(chan[r], m) /\ lost'[r] = lost[r]
              \/ chan'[r] = chan[r] /\ lost'[r]
  BY DEF Offer, TypeOK

(* A message is put into the channel of r, by a cleanup or a dispatch.     *)
Puts(r, m) ==
    /\ ~chClosed[r]
    /\ \/ chan'[r] = Append(chan[r], m) /\ lost'[r] = lost[r]
       \/ chan'[r] = chan[r] /\ lost'[r]

LEMMA ChanData ==
    ASSUME TypeOK, Fresh, [Next]_vars, NEW q \in Requests
    PROVE  \/ chan'[q] = chan[q] /\ lost'[q] = lost[q]
           \/ Take(q) /\ lost'[q] = lost[q]
           \/ \E s \in Sessions :
                /\ FailPending(s) /\ visiting[s] = q
                /\ Puts(q, Last("error"))
           \/ \E s \in Sessions :
                /\ Dispatch(s) /\ Holds(s, q) /\ reader[s].msg \in Messages
                /\ Puts(q, reader[s].msg)
  <1>1. CASE UNCHANGED <<chan, lost>>
    BY <1>1
  <1>2. CASE CallsQuiet
    BY <1>2 DEF CallsQuiet
  <1>3. ASSUME NEW s \in Sessions,
               \/ \E r \in Requests : Visit(s, r)
               \/ \E r \in Requests, m \in Messages : Read(s, r, m)
        PROVE  UNCHANGED <<chan, lost>>
    BY <1>3 DEF Visit, Read, chanVars
  <1>4. ASSUME NEW s \in Sessions, FailPending(s)
        PROVE  \/ chan'[q] = chan[q] /\ lost'[q] = lost[q]
               \/ visiting[s] = q /\ Puts(q, Last("error"))
    <2>1. PICK r \in Requests : r = visiting[s]
      BY <1>4, FailPendingEffect
    <2>2. Last("error") \in Messages
      BY MessageFacts DEF Terminals
    <2>3. CASE Panics(r)
      BY <2>3 DEF Panics
    <2>4. CASE ~chClosed[r] /\ Offer(r, Last("error"))
      BY <2>1, <2>2, <2>4, OfferEffect DEF Puts
    <2> QED
      BY <1>4, <2>1, <2>3, <2>4, FailPendingEffect
  <1>5. ASSUME NEW s \in Sessions, Dispatch(s)
        PROVE  \/ chan'[q] = chan[q] /\ lost'[q] = lost[q]
               \/ /\ Holds(s, q) /\ reader[s].msg \in Messages
                  /\ Puts(q, reader[s].msg)
    <2>1. PICK r \in Requests, m \in Messages : r = reader[s].id /\ m = reader[s].msg /\ Holds(s, r)
      BY <1>5, DispatchEffect
    <2>2. CASE Panics(r)
      BY <2>2 DEF Panics
    <2>3. CASE ~chClosed[r] /\ Offer(r, m)
      BY <2>1, <2>3, OfferEffect DEF Puts
    <2> QED
      BY <1>5, <2>1, <2>2, <2>3, DispatchEffect
  <1>6. ASSUME NEW r \in Requests, CallSteps(r)
        PROVE  \/ chan'[q] = chan[q] /\ lost'[q] = lost[q]
               \/ Take(q) /\ lost'[q] = lost[q]
    <2>1. CASE Take(r)
      <3>1. chan' = [chan EXCEPT ![r] = Tail(@)] /\ UNCHANGED lost
        BY <2>1 DEF Take
      <3>2. q # r => chan'[q] = chan[q]
        BY <3>1 DEF TypeOK
      <3> QED
        BY <2>1, <3>1, <3>2
    <2>2. CASE ~Take(r)
      BY <1>6, <2>2 DEF CallSteps, RequestStep, CallerStep, WaiterStep, Send, Store, Load,
           WriteFails, Write, ChannelEnds, GiveUp, Cancel, WaiterEnds, EndContext, chanVars
    <2> QED
      BY <2>1, <2>2
  <1> QED
    BY <1>1, <1>2, <1>3, <1>4, <1>5, <1>6, QuietOrNot

(* The client's answer grows in Read alone.                                *)
LEMMA ClientData ==
    ASSUME TypeOK, Fresh, [Next]_vars, NEW q \in Requests
    PROVE  \/ sent'[q] = sent[q] /\ answered'[q] = answered[q]
           \/ \E s \in Sessions, m \in Messages : Read(s, q, m)
  <1>1. CASE UNCHANGED <<sent, answered>>
    BY <1>1
  <1>2. CASE CallsQuiet
    BY <1>2 DEF CallsQuiet
  <1>3. ASSUME NEW s \in Sessions,
               FailPending(s) \/ Dispatch(s) \/ \E r \in Requests : Visit(s, r)
        PROVE  UNCHANGED <<sent, answered>>
    BY <1>3 DEF FailPending, Dispatch, Visit, clientVars
  <1>4. ASSUME NEW s \in Sessions, NEW r \in Requests, NEW m \in Messages, Read(s, r, m), q # r
        PROVE  sent'[q] = sent[q] /\ answered'[q] = answered[q]
    BY <1>4 DEF Read, TypeOK
  <1>5. ASSUME NEW r \in Requests, CallSteps(r) PROVE UNCHANGED <<sent, answered>>
    BY <1>5, CallMoves DEF clientVars
  <1> QED
    BY <1>1, <1>2, <1>3, <1>4, <1>5, QuietOrNot

(* Read begins a dispatch for a call that had none.                        *)
LEMMA ReadEffect ==
    ASSUME TypeOK, References, OpenIsPending,
           NEW s \in Sessions, NEW r \in Requests, NEW m \in Messages, Read(s, r, m)
    PROVE  /\ call[r].sess = s /\ Stored(r) /\ ~chClosed[r] /\ answered[r] = Nil
           /\ reader[s].st = "reading"
           /\ \A t \in Sessions : ~Holds(t, r)
           /\ reader'[s] = [st |-> "dispatch", id |-> r, msg |-> m]
           /\ \A t \in Sessions \ {s} : reader'[t] = reader[t]
           /\ UNCHANGED <<pending, call, ctxDone, chan, chClosed, lost, crashed>>
  <1>1. /\ r \in pending[s] /\ reader[s].st = "reading" /\ answered[r] = Nil
        /\ UNCHANGED <<pending, call, ctxDone, chan, chClosed, lost, crashed>>
    BY DEF Read, callVars, chanVars
  <1>2. call[r].sess = s /\ Stored(r) /\ ~chClosed[r]
    BY <1>1 DEF References, OpenIsPending
  <1>3. \A t \in Sessions : ~Holds(t, r)
    BY <1>1, <1>2 DEF References, Holds, Dispatching
  <1>4. /\ reader'[s] = [st |-> "dispatch", id |-> r, msg |-> m]
        /\ \A t \in Sessions \ {s} : reader'[t] = reader[t]
    BY DEF Read, TypeOK
  <1> QED
    BY <1>1, <1>2, <1>3, <1>4

(* After a dispatch nobody holds a message of its call.                    *)
LEMMA DispatchReleases ==
    ASSUME TypeOK, References, NEW s \in Sessions, NEW r \in Requests, Dispatch(s), Holds(s, r)
    PROVE  /\ \A t \in Sessions : Holds(t, r) => t = s
           /\ \A t \in Sessions : ~Holds(t, r)'
           /\ \A t \in Sessions \ {s} : reader'[t] = reader[t]
  <1>1. \A t \in Sessions : Holds(t, r) => t = s
    BY DEF References
  <1>2. reader' = [reader EXCEPT ![s] = AtLoop("reading")]
    BY DEF Dispatch
  <1>3. \A t \in Sessions : Holds(t, r)' => Holds(t, r) /\ t # s
    BY <1>2, LoopTypes DEF Holds, Dispatching, TypeOK
  <1> QED
    BY <1>1, <1>2, <1>3 DEF TypeOK

-----------------------------------------------------------------------------
(* The end of an answer.                                                   *)

LEMMA ClosedGrows ==
    ASSUME TypeOK, Fresh, Closing, References, OpenIsPending, [Next]_vars,
           NEW q \in Requests, chClosed[q]
    PROVE  chClosed'[q]
  <1>1. \A r \in Requests : Store(r) => UNCHANGED chClosed
    BY DEF Store, chanVars
  <1>2. \A r \in Requests : Closes(r) => chClosed'[q]
    BY DEF Closes, TypeOK
  <1> QED
    BY <1>1, <1>2, ChannelSteps

LEMMA ReadAnswer ==
    ASSUME TypeOK, NEW s \in Sessions, NEW r \in Requests, NEW m \in Messages, Read(s, r, m)
    PROVE  \/ IsPart(m) /\ answered'[r] = Nil
           \/ IsTerminal(m) /\ answered'[r] = m.type
  <1>1. CASE IsTerminal(m)
    <2>1. \A k : ~IsTerminal(Part(k))
      BY DEF IsTerminal, Part, Terminals
    <2>2. answered' = [answered EXCEPT ![r] = m.type]
      BY <1>1, <2>1 DEF Read
    <2> QED
      BY <1>1, <2>2 DEF TypeOK
  <1>2. CASE ~IsTerminal(m)
    BY <1>2, MessageFacts DEF Read
  <1> QED
    BY <1>1, <1>2

LEMMA InDispatchStep ==
    TypeOK /\ Fresh /\ References /\ OpenIsPending /\ InDispatch /\ [Next]_vars => InDispatch'
  <1> SUFFICES ASSUME TypeOK, Fresh, References, OpenIsPending, InDispatch, [Next]_vars,
                      NEW s \in Sessions, NEW q \in Requests, Holds(s, q)'
               PROVE  IF IsTerminal(reader'[s].msg) THEN answered'[q] = reader'[s].msg.type
                      ELSE answered'[q] = Nil
    BY DEF InDispatch, IsTerminal
  <1>1. ASSUME NEW m \in Messages, Read(s, q, m)
        PROVE  IF IsTerminal(reader'[s].msg) THEN answered'[q] = reader'[s].msg.type
               ELSE answered'[q] = Nil
    <2>1. reader'[s] = [st |-> "dispatch", id |-> q, msg |-> m]
      BY <1>1, ReadEffect
    <2>2. reader'[s].msg = m
      BY <2>1
    <2>3. \/ IsPart(m) /\ answered'[q] = Nil
          \/ IsTerminal(m) /\ answered'[q] = m.type
      BY <1>1, ReadAnswer
    <2>4. IsPart(m) <=> ~IsTerminal(m)
      BY MessageFacts
    <2> QED
      BY <2>2, <2>3, <2>4
  <1>2. CASE Holds(s, q) /\ reader'[s] = reader[s]
    <2>1. ~ \E t \in Sessions, m \in Messages : Read(t, q, m)
      BY <1>2, ReadEffect
    <2>2. answered'[q] = answered[q]
      BY <2>1, ClientData
    <2> QED
      BY <1>2, <2>2 DEF InDispatch
  <1> QED
    BY <1>1, <1>2, HoldsStep

(* A sequence of messages with one more.                                   *)
LEMMA AppendFacts ==
    ASSUME NEW c \in Seq(Messages), NEW m \in Messages
    PROVE  LET d == Append(c, m)
           IN  /\ Len(c) \in Nat /\ Len(d) = Len(c) + 1 /\ d # <<>>
               /\ d[Len(d)] = m
               /\ \A i \in 1..Len(d) : i = Len(d) \/ (i \in 1..Len(c) /\ d[i] = c[i])
               /\ \A i \in 1..Len(c) : d[i] = c[i] /\ i \in 1..Len(d)
  <1>1. Len(c) \in Nat
    BY LenProperties
  <1> QED
    BY <1>1, AppendProperties

(* And with one less.                                                      *)
LEMMA TakenFacts ==
    ASSUME NEW c \in Seq(Messages), c # <<>>
    PROVE  LET d == Tail(c)
           IN  /\ Len(c) \in Nat \ {0} /\ Len(d) = Len(c) - 1
               /\ \A i \in 1..Len(d) : d[i] = c[i + 1] /\ i + 1 \in 1..Len(c)
               /\ \A i \in 1..Len(c) : i = 1 \/ (i - 1 \in 1..Len(d) /\ d[i - 1] = c[i])
  <1>1. Len(c) \in Nat \ {0}
    BY LenProperties, EmptySeq
  <1>2. Len(Tail(c)) = Len(c) - 1 /\ \A i \in 1..Len(Tail(c)) : Tail(c)[i] = c[i + 1]
    BY HeadTailProperties
  <1> QED
    BY <1>1, <1>2

(* The end stands last in the channel of a call that nobody sends to.      *)
EndAt(r, i) ==
    /\ i = Len(chan[r])
    /\ chClosed[r]
    /\ answered[r] = "end"
    /\ \A s \in Sessions : ~Holds(s, r)

LEMMA EndIsLastStep ==
    TypeOK /\ TypeOK' /\ Fresh /\ Closing /\ References /\ OpenIsPending /\ InDispatch
      /\ EndIsLast /\ [Next]_vars => EndIsLast'
  <1> SUFFICES ASSUME TypeOK, TypeOK', Fresh, Closing, References, OpenIsPending, InDispatch,
                      EndIsLast, [Next]_vars, NEW q \in Requests,
                      NEW i \in 1..Len(chan'[q]), chan'[q][i].type = "end"
               PROVE  EndAt(q, i)'
    BY DEF EndIsLast, EndAt
  <1>0. chan[q] \in Seq(Messages) /\ Nil # "end"
    BY Constants DEF TypeOK, Terminals
  <1>1. ASSUME NEW j \in 1..Len(chan[q]), chan[q][j].type = "end"
        PROVE  /\ j = Len(chan[q]) /\ chClosed[q] /\ chClosed'[q] /\ answered'[q] = "end"
               /\ \A s \in Sessions : ~Holds(s, q)'
    <2>1. EndAt(q, j)
      BY <1>1 DEF EndIsLast, EndAt
    <2>2. ~ \E s \in Sessions, m \in Messages : Read(s, q, m)
      BY <2>1, ReadEffect DEF EndAt
    <2>3. answered'[q] = "end"
      BY <2>1, <2>2, ClientData DEF EndAt
    <2>4. \A s \in Sessions : ~Holds(s, q)'
      BY <2>1, <2>2, HoldsStep DEF EndAt
    <2> QED
      BY <2>1, <2>3, <2>4, ClosedGrows DEF EndAt
  <1>2. CASE chan'[q] = chan[q]
    BY <1>1, <1>2 DEF EndAt
  <1>3. CASE Take(q)
    <2>1. chan'[q] = Tail(chan[q]) /\ chan[q] # <<>>
      BY <1>3 DEF Take, TypeOK
    <2>2. /\ Len(chan[q]) \in Nat \ {0} /\ Len(chan'[q]) = Len(chan[q]) - 1
          /\ chan[q][i + 1].type = "end" /\ i + 1 \in 1..Len(chan[q])
      BY <1>0, <2>1, TakenFacts
    <2>3. i + 1 = Len(chan[q]) /\ chClosed'[q] /\ answered'[q] = "end"
            /\ \A s \in Sessions : ~Holds(s, q)'
      BY <1>1, <2>2
    <2>4. i = Len(chan'[q])
      BY <2>2, <2>3
    <2> QED
      BY <2>3, <2>4 DEF EndAt
  <1>4. ASSUME NEW s \in Sessions, FailPending(s), visiting[s] = q, Puts(q, Last("error"))
        PROVE  EndAt(q, i)'
    <2>1. Last("error") \in Messages /\ Last("error").type = "error"
      BY MessageFacts DEF Terminals
    <2>2. CASE chan'[q] = Append(chan[q], Last("error"))
      <3>1. \/ i = Len(chan'[q]) /\ chan'[q][i] = Last("error")
            \/ (i \in 1..Len(chan[q]) /\ chan[q][i].type = "end")
        BY <1>0, <2>1, <2>2, AppendFacts
      <3>2. ~chClosed[q]
        BY <1>4 DEF Puts
      <3> QED
        BY <1>1, <2>1, <3>1, <3>2
    <2> QED
      BY <1>2, <1>4, <2>2 DEF Puts
  <1>5. ASSUME NEW s \in Sessions, Dispatch(s), Holds(s, q), NEW m \in Messages,
               m = reader[s].msg, Puts(q, m)
        PROVE  EndAt(q, i)'
    <2>1. CASE chan'[q] = Append(chan[q], m)
      <3>1. (i = Len(chan'[q]) /\ chan'[q][i] = m)
              \/ (i \in 1..Len(chan[q]) /\ chan[q][i].type = "end")
        BY <1>0, <2>1, AppendFacts
      <3>2. ~chClosed[q]
        BY <1>5 DEF Puts
      <3>3. i = Len(chan'[q]) /\ m.type = "end"
        BY <1>1, <3>1, <3>2
      <3>4. IsTerminal(m)
        BY <3>3 DEF IsTerminal, Terminals
      <3>5. Stored(q) /\ call[q].sess = s /\ answered[q] = "end" /\ q = reader[s].id
        BY <1>5, <3>3, <3>4 DEF References, InDispatch, Holds
      <3>6. Forget(s, q)
        BY <1>5, <3>2, <3>4, <3>5 DEF Dispatch
      <3>7. chClosed'[q]
        BY <3>5, <3>6, ForgetCloses DEF TypeOK
      <3>8. answered'[q] = "end"
        BY <1>5, <3>5 DEF Dispatch, clientVars
      <3>9. \A t \in Sessions : ~Holds(t, q)'
        BY <1>5, DispatchReleases
      <3> QED
        BY <3>3, <3>7, <3>8, <3>9 DEF EndAt
    <2> QED
      BY <1>2, <1>5, <2>1 DEF Puts
  <1> QED
    BY <1>2, <1>3, <1>4, <1>5, ChanData

(* How a channel that was open comes to be closed.                         *)
LEMMA ClosedByLastStep ==
    TypeOK /\ TypeOK' /\ Fresh /\ Closing /\ References /\ OpenIsPending /\ ClosedByLast
      /\ [Next]_vars => ClosedByLast'
  <1> SUFFICES ASSUME TypeOK, TypeOK', Fresh, Closing, References, OpenIsPending, ClosedByLast,
                      [Next]_vars, NEW q \in Requests,
                      call'[q].st # "done", chClosed'[q], ~lost'[q], ~ctxDone'[q]
               PROVE  chan'[q] # <<>> /\ IsTerminal(chan'[q][Len(chan'[q])])
    BY DEF ClosedByLast, IsTerminal
  <1>0. /\ chan[q] \in Seq(Messages)
        /\ call[q].st # "done" /\ ~ctxDone[q]
    BY CallData, Monotone DEF TypeOK
  <1>1. CASE chClosed[q]
    <2>1. \A m : ~Puts(q, m)
      BY <1>1 DEF Puts
    <2>2. ~lost[q] /\ (chan'[q] = chan[q] \/ Take(q))
      BY <2>1, ChanData
    <2>3. chan[q] # <<>> /\ IsTerminal(chan[q][Len(chan[q])])
      BY <1>0, <1>1, <2>2 DEF ClosedByLast
    <2>4. CASE Take(q)
      <3>1. chan'[q] = Tail(chan[q]) /\ chan[q] # <<>>
        BY <2>4 DEF Take, TypeOK
      <3>2. IsPart(chan[q][1]) /\ chan[q][1] \in Messages
        BY <2>4, TakeEffect
      <3>3. Len(chan[q]) \in Nat \ {0} /\ Len(chan[q]) # 1
        BY <1>0, <2>3, <3>1, <3>2, TakenFacts, MessageFacts
      <3>4. Len(chan'[q]) = Len(chan[q]) - 1 /\ Len(chan'[q]) \in 1..Len(chan'[q])
        <4>1. Len(Tail(chan[q])) = Len(chan[q]) - 1
          BY <1>0, <3>1, TakenFacts
        <4>2. Len(chan'[q]) = Len(chan[q]) - 1
          BY <3>1, <4>1
        <4>3. \A n \in Nat \ {0} : n # 1 => n - 1 \in 1..(n - 1)
          OBVIOUS
        <4>4. Len(chan[q]) - 1 \in 1..(Len(chan[q]) - 1)
          BY <3>3, <4>3
        <4> QED
          BY <4>2, <4>4
      <3>5. chan'[q][Len(chan'[q])] = chan[q][Len(chan[q])]
        BY <1>0, <3>1, <3>3, <3>4, TakenFacts
      <3>6. chan'[q] # <<>>
        BY <3>4
      <3> QED
        BY <2>3, <3>5, <3>6
    <2> QED
      BY <2>2, <2>3, <2>4
  <1>2. CASE ~chClosed[q]
    <2>1. ASSUME NEW m \in Messages, Puts(q, m), IsTerminal(m)
          PROVE  chan'[q] # <<>> /\ IsTerminal(chan'[q][Len(chan'[q])])
      <3>1. chan'[q] = Append(chan[q], m)
        BY <2>1 DEF Puts
      <3> QED
        BY <1>0, <2>1, <3>1, AppendFacts
    <2>2. ASSUME NEW s \in Sessions, FailPending(s), visiting[s] = q
          PROVE  chan'[q] # <<>> /\ IsTerminal(chan'[q][Len(chan'[q])])
      <3>1. Last("error") \in Messages /\ IsTerminal(Last("error"))
        BY MessageFacts DEF Terminals, IsTerminal
      <3>2. Offer(q, Last("error"))
        BY <1>2, <2>2 DEF FailPending
      <3>3. Puts(q, Last("error"))
        BY <1>2, <3>1, <3>2, OfferEffect DEF Puts
      <3> QED
        BY <2>1, <3>1, <3>3
    <2>3. ASSUME NEW s \in Sessions, Dispatch(s), Holds(s, q)
          PROVE  chan'[q] # <<>> /\ IsTerminal(chan'[q][Len(chan'[q])])
      <3>1. PICK m \in Messages : m = reader[s].msg
        BY <2>3, DispatchEffect
      <3>2. q = reader[s].id
        BY <2>3 DEF Holds
      <3>3. Offer(q, m) /\ IsTerminal(m)
        BY <1>2, <2>3, <3>1, <3>2 DEF Dispatch
      <3>4. Puts(q, m)
        BY <1>2, <3>3, OfferEffect DEF Puts
      <3> QED
        BY <2>1, <3>3, <3>4
    <2>4. ASSUME WriteFails(q) PROVE FALSE
      BY <2>4, FinishEffect DEF WriteFails
    <2>5. ASSUME Cancel(q) PROVE FALSE
      BY <1>0, <2>5 DEF Cancel
    <2>6. PICK r \in Requests : Closes(r)
      <3>1. \A r \in Requests : Store(r) => UNCHANGED chClosed
        BY DEF Store, chanVars
      <3> QED
        BY <1>2, <3>1, ChannelSteps
    <2>7. r = q
      BY <1>2, <2>6 DEF Closes, TypeOK
    <2>8. Closer(q)
      BY <2>6, <2>7 DEF Closes
    <2> QED
      BY <2>2, <2>3, <2>4, <2>5, <2>8 DEF Closer
  <1> QED
    BY <1>1, <1>2

-----------------------------------------------------------------------------
(* The parts of an answer.                                                 *)

LEMMA PartsAre ==
    ASSUME NEW c
    PROVE  \A x : x \in Parts(c) <=> \E i \in 1..Len(c) : IsPart(c[i]) /\ x = c[i].n
  BY DEF Parts

LEMMA PartsAppend ==
    ASSUME NEW c \in Seq(Messages), NEW m \in Messages
    PROVE  Parts(Append(c, m)) = Parts(c) \cup (IF IsPart(m) THEN {m.n} ELSE {})
  <1> DEFINE d == Append(c, m)
  <1>1. /\ Len(d) \in 1..Len(d) /\ d[Len(d)] = m
        /\ \A i \in 1..Len(d) : i = Len(d) \/ (i \in 1..Len(c) /\ d[i] = c[i])
        /\ \A i \in 1..Len(c) : d[i] = c[i] /\ i \in 1..Len(d)
    BY AppendFacts
  <1> HIDE DEF d
  <1>2. ASSUME NEW x
        PROVE  x \in Parts(d) <=> x \in Parts(c) \/ (IsPart(m) /\ x = m.n)
    BY <1>1, PartsAre
  <1> QED
    BY <1>2 DEF d

LEMMA PartsTail ==
    ASSUME NEW c \in Seq(Messages), c # <<>>
    PROVE  Parts(c) = Parts(Tail(c)) \cup (IF IsPart(c[1]) THEN {c[1].n} ELSE {})
  <1> DEFINE d == Tail(c)
  <1>1. /\ 1 \in 1..Len(c)
        /\ \A i \in 1..Len(d) : d[i] = c[i + 1] /\ i + 1 \in 1..Len(c)
        /\ \A i \in 1..Len(c) : i = 1 \/ (i - 1 \in 1..Len(d) /\ d[i - 1] = c[i])
    BY TakenFacts
  <1> HIDE DEF d
  <1>2. ASSUME NEW x
        PROVE  x \in Parts(c) <=> x \in Parts(d) \/ (IsPart(c[1]) /\ x = c[1].n)
    <2>1. ASSUME x \in Parts(c)
          PROVE  x \in Parts(d) \/ (IsPart(c[1]) /\ x = c[1].n)
      <3>1. PICK i \in 1..Len(c) : IsPart(c[i]) /\ x = c[i].n
        BY <2>1, PartsAre
      <3>2. CASE i = 1
        BY <3>1, <3>2
      <3>3. CASE i # 1
        <4>1. i - 1 \in 1..Len(d) /\ d[i - 1] = c[i]
          BY <1>1, <3>3
        <4> QED
          BY <3>1, <4>1, PartsAre
      <3> QED
        BY <3>2, <3>3
    <2>2. ASSUME x \in Parts(d) PROVE x \in Parts(c)
      <3>1. PICK i \in 1..Len(d) : IsPart(d[i]) /\ x = d[i].n
        BY <2>2, PartsAre
      <3>2. d[i] = c[i + 1] /\ i + 1 \in 1..Len(c)
        BY <1>1
      <3> QED
        BY <3>1, <3>2, PartsAre
    <2>3. ASSUME IsPart(c[1]), x = c[1].n PROVE x \in Parts(c)
      BY <1>1, <2>3, PartsAre
    <2> QED
      BY <2>1, <2>2, <2>3
  <1> QED
    BY <1>2 DEF d

LEMMA InFlightKept ==
    ASSUME NEW q \in Requests,
           \A s \in Sessions : Holds(s, q) => reader'[s] = reader[s],
           \A s \in Sessions : Holds(s, q)' => Holds(s, q)
    PROVE  InFlight(q)' = InFlight(q)
  <1>1. \A s \in Sessions : Holds(s, q) <=> Holds(s, q)'
    BY DEF Holds, Dispatching
  <1>2. \A s \in Sessions : Holds(s, q) => reader'[s].msg = reader[s].msg
    OBVIOUS
  <1> QED
    BY <1>1, <1>2 DEF InFlight, IsPart

LEMMA NothingInFlight ==
    ASSUME NEW q \in Requests, \A s \in Sessions : ~Holds(s, q)
    PROVE  InFlight(q) = {}
  BY DEF InFlight

LEMMA OneInFlight ==
    ASSUME NEW q \in Requests, NEW s \in Sessions, Holds(s, q),
           \A t \in Sessions : Holds(t, q) => t = s
    PROVE  InFlight(q) = IF IsPart(reader[s].msg) THEN {reader[s].msg.n} ELSE {}
  BY DEF InFlight

(* A dispatch goes on until its own session's next step.                   *)
LEMMA HoldsUntil ==
    ASSUME TypeOK, Fresh, [Next]_vars, NEW s \in Sessions, NEW q \in Requests, Holds(s, q),
           ~Dispatch(s)
    PROVE  reader'[s] = reader[s]
  <1>0. reader[s].st = "dispatch"
    BY DEF Holds, Dispatching
  <1>1. CASE CallsQuiet
    BY <1>1 DEF CallsQuiet, Holds
  <1>2. ASSUME NEW t \in Sessions, Dispatch(t) PROVE reader'[s] = reader[s]
    BY <1>2 DEF Dispatch, TypeOK
  <1>3. ASSUME NEW t \in Sessions, NEW r \in Requests, NEW m \in Messages, Read(t, r, m)
        PROVE  reader'[s] = reader[s]
    BY <1>0, <1>3 DEF Read, TypeOK
  <1>4. ASSUME NEW t \in Sessions, FailPending(t) \/ \E r \in Requests : Visit(t, r)
        PROVE  UNCHANGED reader
    BY <1>4 DEF FailPending, Visit
  <1>5. ASSUME NEW r \in Requests, CallSteps(r) PROVE UNCHANGED reader
    BY <1>5, CallMoves
  <1> QED
    BY <1>1, <1>2, <1>3, <1>4, <1>5, QuietOrNot

LEMMA ReadSends ==
    ASSUME TypeOK, NEW s \in Sessions, NEW r \in Requests, NEW m \in Messages, Read(s, r, m)
    PROVE  \/ IsPart(m) /\ m.n = sent[r] + 1 /\ sent'[r] = sent[r] + 1
           \/ IsTerminal(m) /\ sent'[r] = sent[r]
  <1>1. CASE IsTerminal(m)
    <2>1. \A k : ~IsTerminal(Part(k))
      BY DEF IsTerminal, Part, Terminals
    <2> QED
      BY <1>1, <2>1 DEF Read
  <1>2. CASE ~IsTerminal(m)
    <2>1. m = Part(sent[r] + 1) /\ sent' = [sent EXCEPT ![r] = @ + 1]
      BY <1>2 DEF Read
    <2>2. sent'[r] = sent[r] + 1
      BY <2>1 DEF TypeOK
    <2>3. m.n = sent[r] + 1
      BY <2>1 DEF Part
    <2>4. IsPart(m)
      BY <1>2, MessageFacts
    <2> QED
      BY <2>2, <2>3, <2>4
  <1> QED
    BY <1>1, <1>2

(* The answer of one call.                                                 *)
Whole(r) == call[r].got \cup Parts(chan[r]) \cup InFlight(r) = 1..sent[r]

LEMMA ConservedStep ==
    TypeOK /\ Fresh /\ Closing /\ References /\ OpenIsPending /\ Conserved /\ [Next]_vars
      => Conserved'
  <1> SUFFICES ASSUME TypeOK, Fresh, Closing, References, OpenIsPending, Conserved,
                      [Next]_vars, crashed' = Nil, NEW q \in Requests, ~lost'[q]
               PROVE  Whole(q)'
    BY DEF Conserved, Whole
  <1>0. chan[q] \in Seq(Messages) /\ crashed = Nil
    BY DEF TypeOK, Next, vars
  <1>1. ~lost[q]
    BY ChanData DEF Puts
  <1>2. Whole(q)
    BY <1>0, <1>1 DEF Conserved, Whole
  <1>3. ASSUME NEW s \in Sessions, NEW m \in Messages, Read(s, q, m) PROVE Whole(q)'
    <2>1. /\ \A t \in Sessions : ~Holds(t, q)
          /\ reader'[s] = [st |-> "dispatch", id |-> q, msg |-> m]
          /\ \A t \in Sessions \ {s} : reader'[t] = reader[t]
          /\ call' = call /\ chan' = chan
      BY <1>3, ReadEffect
    <2>2. reader'[s].st = "dispatch" /\ reader'[s].id = q /\ reader'[s].msg = m
      BY <2>1
    <2>3. Holds(s, q)' /\ \A t \in Sessions : Holds(t, q)' => t = s
      BY <2>1, <2>2 DEF Holds, Dispatching
    <2>4. InFlight(q)' = IF IsPart(m) THEN {m.n} ELSE {}
      BY <2>2, <2>3 DEF InFlight, IsPart
    <2>5. InFlight(q) = {}
      BY <2>1, NothingInFlight
    <2>6. sent[q] \in Nat
      BY Constants DEF TypeOK
    <2>7. Parts(chan[q])' = Parts(chan[q]) /\ call'[q].got = call[q].got
      BY <2>1 DEF Parts, IsPart
    <2>8. \/ IsPart(m) /\ m.n = sent[q] + 1 /\ sent'[q] = sent[q] + 1
          \/ ~IsPart(m) /\ sent'[q] = sent[q]
      <3>1. \/ IsPart(m) /\ m.n = sent[q] + 1 /\ sent'[q] = sent[q] + 1
            \/ IsTerminal(m) /\ sent'[q] = sent[q]
        BY <1>3, <2>6, ReadSends
      <3>2. IsTerminal(m) => ~IsPart(m)
        BY MessageFacts
      <3> QED
        BY <3>1, <3>2
    <2>9. 1..(sent[q] + 1) = 1..sent[q] \cup {sent[q] + 1}
      BY <2>6
    <2> QED
      BY <1>2, <2>4, <2>5, <2>7, <2>8, <2>9 DEF Whole
  <1>4. ASSUME NEW s \in Sessions, Dispatch(s), Holds(s, q) PROVE Whole(q)'
    <2>1. PICK m \in Messages : m = reader[s].msg /\ reader[s].id = q
      BY <1>4, DispatchEffect DEF Holds
    <2>2. ~chClosed[q] /\ Offer(q, m) /\ UNCHANGED <<call, sent>>
      BY <1>0, <1>4, <2>1, Constants, DispatchEffect DEF Panics, callVars, clientVars
    <2>3. chan'[q] = Append(chan[q], m)
      BY <2>2, OfferEffect
    <2>4. Parts(chan'[q]) = Parts(chan[q]) \cup (IF IsPart(m) THEN {m.n} ELSE {})
      BY <1>0, <2>3, PartsAppend
    <2>5. InFlight(q) = IF IsPart(m) THEN {m.n} ELSE {}
      BY <1>4, <2>1, DispatchReleases, OneInFlight
    <2>6. InFlight(q)' = {}
      BY <1>4, DispatchReleases DEF InFlight
    <2>7. Whole(q)' <=> call'[q].got \cup Parts(chan'[q]) \cup InFlight(q)' = 1..sent'[q]
      BY DEF Whole, Parts, IsPart
    <2> QED
      BY <1>2, <2>2, <2>4, <2>5, <2>6, <2>7 DEF Whole
  <1>5. ASSUME ~ \E s \in Sessions, m \in Messages : Read(s, q, m),
               ~ \E s \in Sessions : Dispatch(s) /\ Holds(s, q)
        PROVE  Whole(q)'
    <2>1. sent'[q] = sent[q]
      BY <1>5, ClientData
    <2>2. InFlight(q)' = InFlight(q)
      BY <1>5, HoldsUntil, HoldsStep, InFlightKept
    <2>3. Whole(q)' <=> call'[q].got \cup Parts(chan'[q]) \cup InFlight(q)' = 1..sent'[q]
      BY DEF Whole, Parts, IsPart
    <2>4. CASE Take(q)
      <3>1. chan'[q] = Tail(chan[q]) /\ chan[q] # <<>>
        BY <2>4 DEF Take, TypeOK
      <3>2. Parts(chan[q]) = Parts(chan'[q]) \cup (IF IsPart(chan[q][1]) THEN {chan[q][1].n} ELSE {})
        BY <1>0, <3>1, PartsTail
      <3>3. PICK m \in Messages : m = chan[q][1] /\ m = Head(chan[q])
        BY <2>4, TakeEffect
      <3>4. call'[q].got = call[q].got \cup (IF IsPart(m) THEN {m.n} ELSE {})
        BY <2>4, <3>3, TakeEffect, MessageFacts DEF IsPart
      <3> QED
        BY <1>2, <2>1, <2>2, <2>3, <3>2, <3>3, <3>4 DEF Whole
    <2>5. CASE ~Take(q)
      <3>1. call'[q].got = call[q].got
        BY <2>5, CallData
      <3>2. Parts(chan'[q]) = Parts(chan[q])
        <4>1. CASE chan'[q] = chan[q]
          BY <4>1
        <4>2. CASE chan'[q] = Append(chan[q], Last("error"))
          <5>1. Last("error") \in Messages /\ ~IsPart(Last("error"))
            BY MessageFacts DEF Terminals, IsPart
          <5> QED
            BY <1>0, <4>2, <5>1, PartsAppend
        <4> QED
          BY <1>5, <2>5, <4>1, <4>2, ChanData DEF Puts
      <3> QED
        BY <1>2, <2>1, <2>2, <2>3, <3>1, <3>2 DEF Whole
    <2> QED
      BY <2>4, <2>5
  <1> QED
    BY <1>3, <1>4, <1>5

LEMMA ResultIsFinalStep ==
    TypeOK /\ Fresh /\ ResultIsFinal /\ [Next]_vars => ResultIsFinal'
  <1> SUFFICES ASSUME TypeOK, Fresh, ResultIsFinal, [Next]_vars,
                      NEW q \in Requests, call'[q].result # Nil
               PROVE  call'[q].st = "done"
    BY DEF ResultIsFinal
  <1> QED
    BY CallData DEF ResultIsFinal

LEMMA SuccessIsCompleteStep ==
    TypeOK /\ Fresh /\ Closing /\ References /\ OpenIsPending /\ Conserved /\ EndIsLast
      /\ ClosedByLast /\ ResultIsFinal /\ SuccessIsComplete /\ [Next]_vars
      => SuccessIsComplete'
  <1> SUFFICES ASSUME TypeOK, Fresh, Closing, References, OpenIsPending, Conserved, EndIsLast,
                      ClosedByLast, ResultIsFinal, SuccessIsComplete, [Next]_vars,
                      NEW q \in Requests, call'[q].result = "ok"
               PROVE  \/ call'[q].got = 1..sent'[q] /\ answered'[q] = "end"
                      \/ lost'[q]
                      \/ call'[q].kind = "NonStream" /\ ctxDone'[q]
    BY DEF SuccessIsComplete
  <1>0. chan[q] \in Seq(Messages) /\ Nil # "end" /\ Nil # "ok"
    BY Constants DEF TypeOK, Terminals, Results
  <1>1. lost[q] => lost'[q]
    BY ChanData DEF Puts
  <1>2. CASE call[q].result = "ok"
    <2>1. call'[q] = call[q]
      BY <1>0, <1>2, CallData DEF ResultIsFinal
    <2>2. ctxDone[q] => ctxDone'[q]
      BY Monotone
    <2>3. CASE call[q].got = 1..sent[q] /\ answered[q] = "end"
      <3>1. sent'[q] = sent[q] /\ answered'[q] = answered[q]
        <4>1. ASSUME NEW s \in Sessions, NEW m \in Messages, Read(s, q, m) PROVE FALSE
          BY <1>0, <2>3, <4>1 DEF Read
        <4> QED
          BY <4>1, ClientData
      <3> QED
        BY <2>1, <2>3, <3>1
    <2> QED
      BY <1>1, <1>2, <2>1, <2>2, <2>3 DEF SuccessIsComplete
  <1>3. CASE Take(q) /\ call[q].result # "ok"
    <2>1. chan[q] # <<>> /\ crashed = Nil /\ UNCHANGED <<sent, answered, lost>>
      BY <1>3 DEF Take, clientVars, Next, vars, callVars, chanVars
    <2>2. chan[q][1].type = "end" /\ call'[q].got = call[q].got
      BY <1>3, TakeEffect
    <2>3. Len(chan[q]) \in Nat \ {0} /\ 1 \in 1..Len(chan[q])
      BY <1>0, <2>1, TakenFacts
    <2>4. Len(chan[q]) = 1 /\ answered[q] = "end" /\ \A s \in Sessions : ~Holds(s, q)
      BY <2>2, <2>3 DEF EndIsLast
    <2>5. InFlight(q) = {}
      BY <2>4, NothingInFlight
    <2>6. ~IsPart(chan[q][1])
      BY <2>2 DEF IsPart
    <2>7. Parts(chan[q]) = {}
      BY <2>4, <2>6, PartsAre
    <2>8. lost[q] \/ call[q].got = 1..sent[q]
      BY <2>1, <2>5, <2>7 DEF Conserved
    <2> QED
      BY <1>1, <2>1, <2>2, <2>4, <2>8
  <1>4. CASE ChannelEnds(q) /\ call[q].result # "ok"
    <2>1. /\ call[q].st = "waiting" /\ chan[q] = <<>> /\ chClosed[q]
          /\ UNCHANGED ctxDone
      BY <1>4 DEF ChannelEnds
    <2>2. lost[q] \/ ctxDone[q]
      BY <2>1 DEF ClosedByLast
    <2>3. call[q].kind = "NonStream"
      <3> SUFFICES ASSUME call[q].kind # "NonStream" PROVE FALSE
        OBVIOUS
      <3>1. Finish(q, "error")
        BY <1>4 DEF ChannelEnds
      <3> QED
        BY <3>1, FinishEffect
    <2>4. call'[q].kind = "NonStream"
      <3>1. PICK res : Finish(q, res)
        BY <1>4 DEF ChannelEnds
      <3> QED
        BY <2>3, <3>1, FinishEffect
    <2> QED
      BY <1>1, <2>1, <2>2, <2>4
  <1> QED
    BY <1>2, <1>3, <1>4, CallData

-----------------------------------------------------------------------------
(* The theorems.                                                           *)

(* Everything the steps above keep.                                        *)
IInv ==
    /\ TypeOK /\ Closing /\ References
    /\ Fresh /\ TableEntries /\ TableIsCurrent
    /\ Replacements /\ Successors /\ EarlyEnds /\ ConnectedHasReason
    /\ OpenIsPending /\ ClosedUnderDispatch /\ PanicNeedsRace /\ ToBeVisited
    /\ InDispatch /\ EndIsLast /\ ClosedByLast /\ Conserved /\ ResultIsFinal
    /\ SuccessIsComplete

LEMMA InitIInv == Init => IInv
  <1> SUFFICES ASSUME Init PROVE IInv
    OBVIOUS
  <1> USE Constants
  <1>1. TypeOK
    BY TypeInit
  <1>2. \A s \in Sessions : ~Dispatching(s) /\ \A r \in Requests : ~Holds(s, r)
    BY DEF Init, AtLoop, Dispatching, Holds
  <1>3. \A r \in Requests : /\ call[r].st = "idle" /\ call[r].sess = Nil /\ call[r].got = {}
                            /\ call[r].result = Nil /\ ~Stored(r)
    BY DEF Init, NoCall, Stored
  <1>4. Closing
    BY DEF Init, Closing
  <1>5. References
    BY <1>2, <1>3 DEF Init, References
  <1>6. Fresh /\ TableEntries /\ Replacements /\ EarlyEnds
    BY DEF Init, Fresh, TableEntries, Replacements, EarlyEnds, AtLoop
  <1>7. TableIsCurrent
    BY DEF Init, TableIsCurrent
  <1>8. Successors /\ ConnectedHasReason
    BY DEF Init, Successors, ConnectedHasReason, Causes
  <1>9. OpenIsPending /\ ClosedUnderDispatch /\ PanicNeedsRace
    BY <1>2, <1>3 DEF Init, OpenIsPending, ClosedUnderDispatch, PanicNeedsRace
  <1>10. ToBeVisited /\ InDispatch /\ ResultIsFinal
    BY <1>2, <1>3 DEF ToBeVisited, InDispatch, ResultIsFinal
  <1>11. ClosedByLast
    BY DEF Init, ClosedByLast
  <1>12. EndIsLast
    BY EmptySeq DEF Init, EndIsLast
  <1>13. Conserved
    <2> SUFFICES ASSUME NEW r \in Requests
                 PROVE  call[r].got \cup Parts(chan[r]) \cup InFlight(r) = 1..sent[r]
      BY DEF Conserved
    <2>1. chan[r] = <<>> /\ sent[r] = 0
      BY DEF Init
    <2>2. Parts(chan[r]) = {}
      BY <2>1, PartsAre, EmptySeq
    <2>3. InFlight(r) = {}
      BY <1>2, NothingInFlight
    <2> QED
      BY <1>3, <2>1, <2>2, <2>3
  <1>14. SuccessIsComplete
    BY <1>3 DEF SuccessIsComplete, Results
  <1> QED
    BY <1>1, <1>4, <1>5, <1>6, <1>7, <1>8, <1>9, <1>10, <1>11, <1>12, <1>13, <1>14 DEF IInv

LEMMA StepIInv == IInv /\ [Next]_vars => IInv'
  <1> SUFFICES ASSUME IInv, [Next]_vars PROVE IInv'
    OBVIOUS
  <1> USE DEF IInv
  <1>1. TypeOK'
    BY TypeStep
  <1>2. Closing' /\ Fresh' /\ TableEntries'
    BY ClosingStep, FreshStep, TableEntriesStep
  <1>3. References'
    BY <1>1, ReferencesStep
  <1>4. TableIsCurrent'
    BY TableIsCurrentStep
  <1>5. Replacements' /\ Successors' /\ EarlyEnds' /\ ConnectedHasReason'
    BY ReplacementsStep, SuccessorsStep, EarlyEndsStep, ConnectedHasReasonStep
  <1>6. OpenIsPending'
    BY <1>1, <1>3, OpenIsPendingStep
  <1>7. ClosedUnderDispatch' /\ PanicNeedsRace' /\ ToBeVisited'
    BY ClosedUnderDispatchStep, PanicNeedsRaceStep, ToBeVisitedStep
  <1>8. InDispatch' /\ EndIsLast' /\ ClosedByLast'
    BY <1>1, InDispatchStep, EndIsLastStep, ClosedByLastStep
  <1>9. Conserved' /\ ResultIsFinal' /\ SuccessIsComplete'
    BY ConservedStep, ResultIsFinalStep, SuccessIsCompleteStep
  <1> QED
    BY <1>1, <1>2, <1>3, <1>4, <1>5, <1>6, <1>7, <1>8, <1>9

(* The invariant holds in every state of every behaviour.                  *)
THEOREM Inductive == Spec => []IInv
  BY InitIInv, StepIInv, PTL DEF Spec

(* Every variable keeps its type, whatever the sessions, the cleanups and  *)
(* the calls do.                                                           *)
THEOREM TypeCorrect == Spec => []TypeOK
  <1>1. IInv => TypeOK
    BY DEF IInv
  <1> QED
    BY <1>1, Inductive, PTL

(* A caller with an open channel is in the map of a session whose cleanup  *)
(* has yet to visit it: request's write fails on a closed session, and the *)
(* Range visits every entry that was stored before it began.               *)
THEOREM NobodyIsForgotten == Spec => []NobodyForgotten
  <1>1. IInv => NobodyForgotten
    BY VisitedOrPending DEF IInv
  <1> QED
    BY <1>1, Inductive, PTL

(* handleSessionClosed takes out no session but its own, and every session *)
(* that was not closed, replaced or stopped is in the table.               *)
THEOREM TheTableIsCurrent == Spec => []TableIsCurrent
  <1>1. IInv => TableIsCurrent
    BY DEF IInv
  <1> QED
    BY <1>1, Inductive, PTL

(* A send on a closed channel needs a context that ended or a session that *)
(* was closed under the call.                                              *)
THEOREM PanicsNeedARace == Spec => []PanicNeedsRace
  <1>1. IInv => PanicNeedsRace
    BY DEF IInv
  <1> QED
    BY <1>1, Inductive, PTL

(* The service keeps the credential of a provider without sessions only if *)
(* one of them ended before onConnected was called for it.                 *)
THEOREM CredentialsAreServed == Spec => []NoOrphanCredential
  <1>1. IInv => NoOrphanCredential
    BY ReasonSuffices DEF IInv
  <1> QED
    BY <1>1, Inductive, PTL

(* A call that reports success has the whole answer, unless a message was  *)
(* dropped at a full channel or the context of a NonStream call ended.     *)
THEOREM SuccessesAreComplete == Spec => []SuccessIsComplete
  <1>1. IInv => SuccessIsComplete
    BY DEF IInv
  <1> QED
    BY <1>1, Inductive, PTL

=============================================================================
