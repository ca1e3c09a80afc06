------------------------------- MODULE WsRelay -------------------------------
(***************************************************************************)
(* The WebSocket relay (internal/wsrelay): browser clients connect, each   *)
(* as a session of a provider, and HTTP requests are relayed to them over  *)
(* the session and answered with a stream of messages.                     *)
(*                                                                         *)
(* A session has a read loop, a heartbeat and a map of pending requests.   *)
(* A call has a bounded channel of messages, a goroutine that waits for    *)
(* its context to end and the caller that reads the channel.  The read     *)
(* loop, a cleanup, the waiter and the caller all touch the channel; a     *)
(* send on a channel that is closed panics, and nobody recovers a panic of *)
(* the read loop or of the heartbeat.                                      *)
(*                                                                         *)
(* Granularity: one step per operation on the pending map (a sync.Map),    *)
(* with the channel operations that follow it up to the next point where   *)
(* another goroutine's step matters; one per hold of sessMutex.            *)
(***************************************************************************)
EXTENDS Integers, Sequences, FiniteSets

CONSTANTS
    Sessions,   \* connections
    Provider,   \* the provider name of each connection
    Requests,   \* relayed calls, each with an id of its own (uuid)
    Target,     \* the provider each call asks for
    Capacity,   \* of a call's channel (8 in the code)
    MaxParts,   \* bound: stream messages a client sends before the last one
    Nil

ASSUME SessionsAssumption == IsFiniteSet(Sessions) /\ DOMAIN Provider = Sessions
ASSUME RequestsAssumption == DOMAIN Target = Requests
ASSUME CapacityAssumption == Capacity \in Nat \ {0}
ASSUME BoundAssumption == MaxParts \in Nat

Kinds == {"NonStream", "Stream"}
Causes == {"replaced", "stopped", "failed"}
Terminals == {"end", "error"}
Results == {"ok", "error", "panic", "cancelled"}
Providers == {Provider[s] : s \in Sessions} \cup {Target[r] : r \in Requests}

ASSUME NilAssumption ==
    Nil \notin Sessions \cup Requests \cup Kinds \cup Causes \cup Terminals \cup Results

VARIABLES
    table,    \* Manager.sessions
    handler,  \* where handleWebsocket of the session is
    replaced, \* the session handleWebsocket found under its provider
    evicted,  \* sessions somebody took out of the table and will clean up
    closed,   \* session.closed is closed
    clean,    \* how far session.cleanup is
    cause,    \* why it runs
    left,     \* ids its Range is sure to visit and has not visited
    visiting, \* the id whose entry the Range has read
    pending,  \* session.pending
    reader,   \* the read loop, and the message dispatch holds after its look-up
    heard,    \* what wsOnConnected and wsOnDisconnected were told last
    chan,     \* the messages in a call's channel
    chClosed, \* the channel is closed
    call,     \* the caller: its state, session, parts received and result
    waiter,   \* the goroutine request starts
    ctxDone,  \* the caller's context has ended
    sent,     \* parts the client sent in answer
    answered, \* the last message of the answer, or Nil
    lost,     \* a message of the call was dropped because its channel was full
    crashed,  \* the call on whose closed channel a send panicked, or Nil; what
              \* happens after a panic is not followed
    early     \* sessions whose end was reported before their beginning

sessVars == <<table, handler, replaced, evicted, heard, early>>
cleanVars == <<closed, clean, cause, left, visiting>>
callVars == <<call, waiter, ctxDone>>
chanVars == <<chan, chClosed, lost>>
clientVars == <<sent, answered>>
vars == <<sessVars, cleanVars, pending, reader, callVars, chanVars, clientVars, crashed>>

AtLoop(st) == [st |-> st, id |-> Nil, msg |-> Nil]
NoCall == [st |-> "idle", kind |-> Nil, sess |-> Nil, got |-> {}, result |-> Nil]

Part(k) == [type |-> "part", n |-> k]
Last(t) == [type |-> t, n |-> 0]
Messages == {Part(k) : k \in 1..MaxParts} \cup {Last(t) : t \in Terminals}
IsTerminal(m) == m.type \in Terminals

Init ==
    /\ table = [p \in Providers |-> Nil]
    /\ handler = [s \in Sessions |-> "new"]
    /\ replaced = [s \in Sessions |-> Nil]
    /\ evicted = {}
    /\ closed = [s \in Sessions |-> FALSE]
    /\ clean = [s \in Sessions |-> "no"]
    /\ cause = [s \in Sessions |-> Nil]
    /\ left = [s \in Sessions |-> {}]
    /\ visiting = [s \in Sessions |-> Nil]
    /\ pending = [s \in Sessions |-> {}]
    /\ reader = [s \in Sessions |-> AtLoop("off")]
    /\ heard = [p \in Providers |-> "nothing"]
    /\ chan = [r \in Requests |-> <<>>]
    /\ chClosed = [r \in Requests |-> FALSE]
    /\ call = [r \in Requests |-> NoCall]
    /\ waiter = [r \in Requests |-> "none"]
    /\ ctxDone = [r \in Requests |-> FALSE]
    /\ sent = [r \in Requests |-> 0]
    /\ answered = [r \in Requests |-> Nil]
    /\ lost = [r \in Requests |-> FALSE]
    /\ crashed = Nil
    /\ early = {}

-----------------------------------------------------------------------------
(* Channels.                                                               *)

(* select { case req.ch <- m: default: }                                   *)
Offer(r, m) ==
    IF Len(chan[r]) < Capacity
    THEN chan' = [chan EXCEPT ![r] = Append(@, m)] /\ UNCHANGED lost
    ELSE lost' = [lost EXCEPT ![r] = TRUE] /\ UNCHANGED chan

(* pendingRequest.close, once.                                             *)
CloseChan(r) == chClosed' = [chClosed EXCEPT ![r] = TRUE]

(* LoadAndDelete, and close when the entry was there.                      *)
Forget(s, r) ==
    /\ pending' = [pending EXCEPT ![s] = @ \ {r}]
    /\ IF r \in pending[s] THEN CloseChan(r) ELSE UNCHANGED chClosed

-----------------------------------------------------------------------------
(* Connections.                                                            *)

(* handleWebsocket up to the unlock: the new session takes its provider's  *)
(* place in the table.  Two sessions have one provider only when a         *)
(* ProviderFactory names them; otherwise the name is random.  A factory    *)
(* that fails ends its connection under such a random name, before it is   *)
(* in the table: the connection is then none of the sessions here.         *)
Connect(s) ==
    /\ handler[s] = "new"
    /\ handler' = [handler EXCEPT ![s] = "registered"]
    /\ replaced' = [replaced EXCEPT ![s] = table[Provider[s]]]
    /\ evicted' = evicted \cup ({table[Provider[s]]} \ {Nil})
    /\ table' = [table EXCEPT ![Provider[s]] = s]
    /\ UNCHANGED <<heard, early, cleanVars, pending, reader, callVars, chanVars,
                   clientVars, crashed>>

(* Once the replaced session is cleaned up (its sync.Once makes the        *)
(* handler wait for a cleanup that is under way), onConnected is called    *)
(* and the read loop starts.                                               *)
Announce(s) ==
    /\ handler[s] = "registered"
    /\ ~(replaced[s] # Nil /\ clean[replaced[s]] # "done")
    /\ handler' = [handler EXCEPT ![s] = "done"]
    /\ replaced' = [replaced EXCEPT ![s] = Nil]
    /\ heard' = [heard EXCEPT ![Provider[s]] = "connected"]
    /\ reader' = [reader EXCEPT ![s] = AtLoop("reading")]
    /\ UNCHANGED <<table, evicted, early, cleanVars, pending, callVars,
                   chanVars, clientVars, crashed>>

(* Manager.Stop empties the table; the cleanups follow.  (With an empty    *)
(* table it does nothing.)                                                 *)
Stop ==
    /\ \E p \in Providers : table[p] # Nil
    /\ evicted' = evicted \cup ({table[p] : p \in Providers} \ {Nil})
    /\ table' = [p \in Providers |-> Nil]
    /\ UNCHANGED <<handler, replaced, heard, early, cleanVars, pending, reader, callVars,
                   chanVars, clientVars, crashed>>

-----------------------------------------------------------------------------
(* session.cleanup.                                                        *)

(* The first caller closes session.closed and starts the Range.            *)
StartCleanup(s, why) ==
    /\ clean[s] = "no"
    /\ clean' = [clean EXCEPT ![s] = "ranging"]
    /\ closed' = [closed EXCEPT ![s] = TRUE]
    /\ cause' = [cause EXCEPT ![s] = why]
    /\ left' = [left EXCEPT ![s] = pending[s]]
    /\ evicted' = evicted \ {s}
    /\ UNCHANGED visiting

(* Who calls it: whoever took the session out of the table, the heartbeat  *)
(* whose ping fails, and the read loop when a read fails.                  *)
Evict(s) ==
    /\ s \in evicted
    /\ StartCleanup(s, IF \E t \in Sessions : replaced[t] = s
                       THEN "replaced" ELSE "stopped")
    /\ UNCHANGED <<table, handler, replaced, heard, early, pending, reader, callVars,
                   chanVars, clientVars, crashed>>

PingFails(s) ==
    /\ handler[s] # "new"
    /\ StartCleanup(s, "failed")
    /\ UNCHANGED <<table, handler, replaced, heard, early, pending, reader, callVars,
                   chanVars, clientVars, crashed>>

ReadFails(s) ==
    /\ reader[s].st = "reading"
    /\ reader' = [reader EXCEPT ![s] = AtLoop("ended")]
    /\ StartCleanup(s, "failed")
    /\ UNCHANGED <<table, handler, replaced, heard, early, pending, callVars, chanVars,
                   clientVars, crashed>>

(* The Range reads an entry ...                                            *)
Visit(s, r) ==
    /\ clean[s] = "ranging" /\ visiting[s] = Nil /\ r \in pending[s]
    /\ visiting' = [visiting EXCEPT ![s] = r]
    /\ UNCHANGED <<sessVars, closed, clean, cause, left, pending, reader, callVars,
                   chanVars, clientVars, crashed>>

(* ... and its callback sends the error, deletes the entry and closes it.  *)
FailPending(s) ==
    LET r == visiting[s]
    IN  /\ r # Nil
        /\ visiting' = [visiting EXCEPT ![s] = Nil]
        /\ left' = [left EXCEPT ![s] = @ \ {r}]
        /\ IF chClosed[r]
           THEN crashed' = r /\ UNCHANGED <<pending, chanVars>>
           ELSE /\ Offer(r, Last("error"))
                /\ pending' = [pending EXCEPT ![s] = @ \ {r}]
                /\ CloseChan(r)
                /\ UNCHANGED crashed
        /\ UNCHANGED <<sessVars, closed, clean, cause, reader, callVars, clientVars>>

(* After the Range: the connection is closed and handleSessionClosed takes *)
(* the session out of the table if it is still the one there.              *)
Bug_Unregister(s) == [table EXCEPT ![Provider[s]] = Nil]   \* whoever is there

Unregister(s) ==
    IF table[Provider[s]] = s THEN [table EXCEPT ![Provider[s]] = Nil] ELSE table

HandleSessionClosed(s) ==
    /\ clean[s] = "ranging" /\ visiting[s] = Nil /\ left[s] \cap pending[s] = {}
    /\ clean' = [clean EXCEPT ![s] = "unregistered"]
    /\ left' = [left EXCEPT ![s] = {}]
    /\ table' = Unregister(s)
    /\ UNCHANGED <<handler, replaced, evicted, heard, early, closed, cause, visiting,
                   pending, reader, callVars, chanVars, clientVars, crashed>>

(* onDisconnected; wsOnDisconnected passes over a replaced session.        *)
Bug_Notify(s) ==                        \* a stopped session is passed over too
    /\ clean[s] = "unregistered"
    /\ clean' = [clean EXCEPT ![s] = "done"]
    /\ heard' = [heard EXCEPT ![Provider[s]] = IF cause[s] # "failed" THEN @ ELSE "gone"]
    /\ cause' = [cause EXCEPT ![s] = Nil]
    /\ early' = IF handler[s] = "done" THEN early ELSE early \cup {s}
    /\ UNCHANGED <<table, handler, replaced, evicted, closed, left,
                   visiting, pending, reader, callVars, chanVars, clientVars, crashed>>

Notify(s) ==
    /\ clean[s] = "unregistered"
    /\ clean' = [clean EXCEPT ![s] = "done"]
    /\ heard' = [heard EXCEPT ![Provider[s]] = IF cause[s] = "replaced" THEN @ ELSE "gone"]
    /\ cause' = [cause EXCEPT ![s] = Nil]
    /\ early' = IF handler[s] = "done" THEN early ELSE early \cup {s}
    /\ UNCHANGED <<table, handler, replaced, evicted, closed, left,
                   visiting, pending, reader, callVars, chanVars, clientVars, crashed>>

-----------------------------------------------------------------------------
(* The read loop, until the connection is closed.  The client answers a    *)
(* request with parts and one last message; a message of a request that is *)
(* no longer pending is passed over.                                       *)
Read(s, r, m) ==
    /\ reader[s].st = "reading" /\ clean[s] \in {"no", "ranging"}
    /\ r \in pending[s] /\ call[r].st \in {"waiting", "done"} /\ answered[r] = Nil
    /\ \/ m = Part(sent[r] + 1) /\ sent[r] < MaxParts
          /\ sent' = [sent EXCEPT ![r] = @ + 1] /\ UNCHANGED answered
       \/ IsTerminal(m) /\ answered' = [answered EXCEPT ![r] = m.type] /\ UNCHANGED sent
    /\ reader' = [reader EXCEPT ![s] = [st |-> "dispatch", id |-> r, msg |-> m]]
    /\ UNCHANGED <<sessVars, cleanVars, pending, callVars, chanVars, crashed>>

Dispatching(s) == reader[s].st = "dispatch"

(* dispatch after the look-up: offer the message, and after the last one   *)
(* forget the request.                                                     *)
Bug_Dispatch(s) ==                      \* the entry is closed before the send
    LET r == reader[s].id
        m == reader[s].msg
    IN  /\ Dispatching(s)
        /\ reader' = [reader EXCEPT ![s] = AtLoop("reading")]
        /\ IF chClosed[r] \/ (IsTerminal(m) /\ r \in pending[s])
           THEN crashed' = r /\ UNCHANGED <<pending, chanVars>>
           ELSE /\ Offer(r, m)
                /\ IF IsTerminal(m) THEN Forget(s, r) ELSE UNCHANGED <<pending, chClosed>>
                /\ UNCHANGED crashed
        /\ UNCHANGED <<sessVars, cleanVars, callVars, clientVars>>

Dispatch(s) ==
    LET r == reader[s].id
        m == reader[s].msg
    IN  /\ Dispatching(s)
        /\ reader' = [reader EXCEPT ![s] = AtLoop("reading")]
        /\ IF chClosed[r]
           THEN crashed' = r /\ UNCHANGED <<pending, chanVars>>
           ELSE /\ Offer(r, m)
                /\ IF IsTerminal(m) THEN Forget(s, r) ELSE UNCHANGED <<pending, chClosed>>
                /\ UNCHANGED crashed
        /\ UNCHANGED <<sessVars, cleanVars, callVars, clientVars>>

-----------------------------------------------------------------------------
(* Calls.                                                                  *)

Finish(r, res) == call' = [call EXCEPT ![r].st = "done", ![r].result = res]

(* NonStream and Stream: Send finds the provider's session.                *)
Send(r, kind) ==
    /\ call[r].st = "idle"
    /\ IF table[Target[r]] = Nil
       THEN Finish(r, "error")
       ELSE call' = [call EXCEPT ![r] =
                       [@ EXCEPT !.st = "found", !.kind = kind, !.sess = table[Target[r]]]]
    /\ UNCHANGED <<sessVars, cleanVars, pending, reader, waiter, ctxDone, chanVars,
                   clientVars, crashed>>

(* request: LoadOrStore ...                                                *)
Store(r) ==
    LET s == call[r].sess
    IN  /\ call[r].st = "found"
        /\ pending' = [pending EXCEPT ![s] = @ \cup {r}]
        /\ call' = [call EXCEPT ![r].st = "stored"]
        /\ UNCHANGED <<sessVars, cleanVars, reader, waiter, ctxDone, chanVars,
                       clientVars, crashed>>

(* ... Load, whose result is used unchecked: when a cleanup has deleted    *)
(* the entry since, the handler panics (and recovers) ...                  *)
Load(r) ==
    LET s == call[r].sess
    IN  /\ call[r].st = "stored"
        /\ IF r \in pending[s] THEN call' = [call EXCEPT ![r].st = "loaded"]
           ELSE Finish(r, "panic")
        /\ UNCHANGED <<sessVars, cleanVars, pending, reader, waiter, ctxDone, chanVars,
                       clientVars, crashed>>

(* ... and send, which fails on a closed session or a broken connection.   *)
WriteFails(r) ==
    /\ call[r].st = "loaded"
    /\ Forget(call[r].sess, r)
    /\ Finish(r, "error")
    /\ UNCHANGED <<sessVars, cleanVars, reader, waiter, ctxDone, chan, lost, clientVars,
                   crashed>>

Bug_Write(r) ==                         \* session.closed is not checked
    /\ call[r].st = "loaded"
    /\ call' = [call EXCEPT ![r].st = "waiting"]
    /\ waiter' = [waiter EXCEPT ![r] = "armed"]
    /\ UNCHANGED <<sessVars, cleanVars, pending, reader, ctxDone, chanVars, clientVars,
                   crashed>>

Write(r) ==
    /\ call[r].st = "loaded" /\ ~closed[call[r].sess]
    /\ call' = [call EXCEPT ![r].st = "waiting"]
    /\ waiter' = [waiter EXCEPT ![r] = "armed"]
    /\ UNCHANGED <<sessVars, cleanVars, pending, reader, ctxDone, chanVars, clientVars,
                   crashed>>

(* The waiter: the context or the session ended.  (One that finds its      *)
(* request done has nothing left to do.)                                   *)
Cancel(r) ==
    /\ waiter[r] = "armed" /\ ctxDone[r]
    /\ waiter' = [waiter EXCEPT ![r] = "done"]
    /\ Forget(call[r].sess, r)
    /\ UNCHANGED <<sessVars, cleanVars, reader, call, ctxDone, chan, lost, clientVars,
                   crashed>>

WaiterEnds(r) ==
    /\ waiter[r] = "armed" /\ ~chClosed[r] /\ closed[call[r].sess]
    /\ waiter' = [waiter EXCEPT ![r] = "done"]
    /\ UNCHANGED <<sessVars, cleanVars, pending, reader, call, ctxDone, chanVars,
                   clientVars, crashed>>

EndContext(r) ==
    /\ ~ctxDone[r] /\ call[r].st \notin {"idle", "done"}
    /\ ctxDone' = [ctxDone EXCEPT ![r] = TRUE]
    /\ UNCHANGED <<sessVars, cleanVars, pending, reader, call, waiter, chanVars,
                   clientVars, crashed>>

(* The loop of NonStream and of Stream: a message, ...                     *)
Take(r) ==
    /\ call[r].st = "waiting" /\ chan[r] # <<>>
    /\ chan' = [chan EXCEPT ![r] = Tail(@)]
    /\ CASE Head(chan[r]).type = "part" ->
                call' = [call EXCEPT ![r].got = @ \cup {Head(chan[r]).n}]
         [] Head(chan[r]).type = "end" -> Finish(r, "ok")
         [] OTHER -> Finish(r, "error")
    /\ UNCHANGED <<sessVars, cleanVars, pending, reader, waiter, ctxDone, chClosed, lost,
                   clientVars, crashed>>

(* ... the closed channel, which NonStream takes for the end of a stream   *)
(* it has begun to collect ...                                             *)
Bug_ChannelEnds(r) ==                   \* Stream does so too
    /\ call[r].st = "waiting" /\ chan[r] = <<>> /\ chClosed[r]
    /\ Finish(r, "ok")
    /\ UNCHANGED <<sessVars, cleanVars, pending, reader, waiter, ctxDone, chanVars,
                   clientVars, crashed>>

ChannelEnds(r) ==
    /\ call[r].st = "waiting" /\ chan[r] = <<>> /\ chClosed[r]
    /\ Finish(r, IF call[r].kind = "NonStream" /\ call[r].got # {} THEN "ok" ELSE "error")
    /\ UNCHANGED <<sessVars, cleanVars, pending, reader, waiter, ctxDone, chanVars,
                   clientVars, crashed>>

(* ... or the end of the context.                                          *)
GiveUp(r) ==
    /\ call[r].st = "waiting" /\ ctxDone[r]
    /\ Finish(r, "cancelled")
    /\ UNCHANGED <<sessVars, cleanVars, pending, reader, waiter, ctxDone, chanVars,
                   clientVars, crashed>>

-----------------------------------------------------------------------------
CleanupStep(s) ==
    \/ \E r \in Requests : Visit(s, r)
    \/ FailPending(s)
    \/ HandleSessionClosed(s)
    \/ Notify(s)

RequestStep(r) == Store(r) \/ Load(r) \/ WriteFails(r) \/ Write(r)
CallerStep(r) == Take(r) \/ ChannelEnds(r) \/ GiveUp(r)
WaiterStep(r) == Cancel(r) \/ WaiterEnds(r)

Next ==
    /\ crashed = Nil
    /\ \/ \E s \in Sessions :
            \/ Connect(s) \/ Announce(s) \/ Evict(s) \/ PingFails(s) \/ ReadFails(s)
            \/ CleanupStep(s) \/ Dispatch(s)
            \/ \E r \in Requests, m \in Messages : Read(s, r, m)
       \/ \E r \in Requests :
            \/ \E kind \in Kinds : Send(r, kind)
            \/ RequestStep(r) \/ CallerStep(r) \/ WaiterStep(r) \/ EndContext(r)
       \/ Stop

Spec == Init /\ [][Next]_vars

-----------------------------------------------------------------------------
(* Properties.                                                             *)

(* A caller whose channel is still open can be reached: its entry is in    *)
(* the map of a session whose cleanup, if it runs at all, has yet to visit *)
(* it.  So no call is stored behind the Range that would have failed it.   *)
NobodyForgotten ==
    \A r \in Requests : call[r].st = "waiting" /\ ~chClosed[r] =>
        LET s == call[r].sess
        IN  /\ r \in pending[s]
            /\ clean[s] = "no" \/ (clean[s] = "ranging" /\ r \in left[s])

(* A call that reports success has every part the client sent and the end  *)
(* of the answer, unless a message found the channel full or the context   *)
(* of a NonStream call ended.                                              *)
SuccessIsComplete ==
    \A r \in Requests : call[r].result = "ok" =>
        \/ call[r].got = 1..sent[r] /\ answered[r] = "end"
        \/ lost[r]
        \/ call[r].kind = "NonStream" /\ ctxDone[r]

(* The table holds no session that is cleaned up, and every session that   *)
(* was not closed, replaced or stopped is found there: a session that      *)
(* closes late does not remove its successor.                              *)
TableIsCurrent ==
    \A s \in Sessions :
        /\ clean[s] \in {"unregistered", "done"} => table[Provider[s]] # s
        /\ handler[s] # "new" /\ ~closed[s] /\ s \notin evicted => table[Provider[s]] = s

(* Nothing panics in plain traffic: a send on a closed channel needs a     *)
(* context that ended or a session closed under the call.                  *)
PanicNeedsRace ==
    crashed # Nil => ctxDone[crashed] \/ closed[call[crashed].sess]

(* The service is not left with the credential of a provider whose         *)
(* sessions are all gone, unless one of them was cleaned up before         *)
(* onConnected was called for it.                                          *)
NoOrphanCredential ==
    \A p \in Providers :
        LET mine == {s \in Sessions : Provider[s] = p /\ handler[s] # "new"}
        IN  (\A s \in mine : handler[s] = "done" /\ clean[s] = "done")
            => heard[p] # "connected" \/ mine \cap early # {}
=============================================================================
