--------------------------- MODULE CredentialRefresh ---------------------------
(***************************************************************************)
(* One credential shared by the processes of a cluster: the versioned row  *)
(* in PostgreSQL (internal/store/clusterauth), each process's view and     *)
(* in-memory copy of it, the refresh lease, and the two kinds of write     *)
(* that race on it (sdk/cliproxy/auth): token refreshes, which rotate a    *)
(* single-use refresh token upstream and then save it, and edits.          *)
(*                                                                         *)
(* A document is a refresh token and a set of edits.  Tokens are numbered  *)
(* in the order the provider issues them, and the provider accepts only    *)
(* the newest.  One step is one statement in the database, one call of the *)
(* provider or one hold of the manager's or the store's lock.              *)
(***************************************************************************)
EXTENDS Integers, FiniteSets, FiniteSetsExt

CONSTANTS
    Nodes,       \* processes of the cluster
    Background,  \* refreshes started by the refresh loop
    Management,  \* refreshes started by a management call
    Editors,     \* management calls that edit the credential
    Home,        \* the process each of them runs on
    Absent,      \* no lease holder, or no copy in memory
    MaxToken,    \* bound on token rotations, for model checking
    Failures,    \* whether calls of the database fail
    WriteAttempts, \* credentialWriteAttempts, 4 in the code
    Deleters,    \* the processes on which an operator may delete the credential
    Slow         \* the refreshes that may take longer than their lease

Refreshers == Background \cup Management
Tasks == Refreshers \cup Editors

ASSUME TasksAssumption ==
    /\ Background \cap Management = {}
    /\ Refreshers \cap Editors = {}
    /\ Home \in [Tasks -> Nodes]
ASSUME AbsentAssumption == Absent \notin Nodes
ASSUME BoundsAssumption ==
    /\ MaxToken \in Nat \ {0}
    /\ WriteAttempts \in Nat \ {0}
    /\ Failures \in BOOLEAN
    /\ Deleters \subseteq Nodes
    /\ Slow \subseteq Refreshers

VARIABLES
    row,     \* auth_credentials: version, document, not deleted
    lease,   \* refresh_owner
    known,   \* Store.known of each process
    mirror,  \* the mirror file changed and the watcher has not read it yet
    reload,  \* the copy the watcher read and is about to install
    auths,   \* Manager.auths of each process
    valid,   \* the refresh token the provider accepts
    received,\* the newest token whose answer arrived (history)
    aged,    \* access tokens up to this one are about to expire
    overran, \* a lease expired before its refresh was over (history)
    pc,      \* where a task is
    copy,    \* the Auth a task works on: version and document
    prev,    \* Update's previous
    tries,   \* UpdateRefreshed's and MutateAuth's attempt
    result,  \* how the last Save ended
    fresh,   \* the refreshed Auth as the provider's answer left it
    acked,   \* edits whose call returned success (history)
    spenders,\* which processes presented a token (history)
    gaveUp   \* a refresh ended without having saved its token (history)

cluster == <<row, lease>>
local   == <<known, mirror, reload, auths>>
world   == <<valid, received, aged, overran>>
task    == <<copy, prev, tries, result, fresh>>
history == <<acked, spenders, gaveUp>>
vars    == <<cluster, local, world, pc, task, history>>

-----------------------------------------------------------------------------
Tokens == 1..MaxToken
Docs == [token : Tokens, edits : SUBSET Editors]
Copies == [ver : Nat \ {0}, doc : Docs]
Rows == [ver : Nat \ {0}, doc : Docs, live : BOOLEAN]

ASSUME CopiesAssumption == Absent \notin Copies

NewDoc == [token |-> 1, edits |-> {}]
NewCopy == [ver |-> 1, doc |-> NewDoc]

Init ==
    /\ row = [ver |-> 1, doc |-> NewDoc, live |-> TRUE]
    /\ lease = Absent
    /\ known = [n \in Nodes |-> row]
    /\ mirror = [n \in Nodes |-> FALSE]
    /\ reload = [n \in Nodes |-> Absent]
    /\ auths = [n \in Nodes |-> NewCopy]
    /\ valid = 1
    /\ received = 1
    /\ aged = 0
    /\ overran = FALSE
    /\ pc = [t \in Tasks |-> "idle"]
    /\ copy = [t \in Tasks |-> NewCopy]
    /\ prev = [t \in Tasks |-> Absent]
    /\ tries = [t \in Tasks |-> 0]
    /\ result = [t \in Tasks |-> "ok"]
    /\ fresh = [r \in Refreshers |-> NewCopy]
    /\ acked = {}
    /\ spenders = [k \in Tokens |-> {}]
    /\ gaveUp = FALSE

CopyOf(r) == [ver |-> r.ver, doc |-> r.doc]

(* shouldRefresh and needsRefresh: the access token is about to expire.    *)
Due(d) == d.token <= aged

Goto(t, s) == pc' = [pc EXCEPT ![t] = s]

(* recordRowLocked and syncMirror: newer rows become the process's view    *)
(* and its mirror file.                                                    *)
ApplyRow(n, r) ==
    IF known[n].ver < r.ver
    THEN /\ known' = [known EXCEPT ![n] = r]
         /\ mirror' = [mirror EXCEPT ![n] = TRUE]
    ELSE UNCHANGED <<known, mirror>>

-----------------------------------------------------------------------------
(* Taking the refresh lease: refreshAuth, claimBackgroundRefresh,          *)
(* coordinatedRefresh and AcquireRefreshLease.                             *)

(* The process's copy is due for a refresh.                                *)
Start(r) ==
    /\ pc[r] = "idle"
    /\ auths[Home[r]] # Absent
    /\ Due(auths[Home[r]].doc)
    /\ copy' = [copy EXCEPT ![r] = auths[Home[r]]]
    /\ Goto(r, "claim")
    /\ UNCHANGED <<cluster, local, world, prev, tries, result, fresh, history>>

(* The lease belongs to the process, so another refresh of the same        *)
(* process gets it too.                                                    *)
MayClaim(n) == row.live /\ lease \in {Absent, n}

(* Mutant: the process's own copy is refreshed although the row is newer.  *)
Bug_Claim(r) ==
    /\ pc[r] = "claim"
    /\ MayClaim(Home[r])
    /\ lease' = Home[r]
    /\ ApplyRow(Home[r], row)
    /\ Goto(r, "spend")
    /\ UNCHANGED <<row, reload, auths, world, copy, prev, tries, result, fresh, history>>

(* The statement takes the lease and answers with the newest row, which    *)
(* becomes the copy to refresh when it is newer.                           *)
Claim(r) ==
    /\ pc[r] = "claim"
    /\ MayClaim(Home[r])
    /\ lease' = Home[r]
    /\ ApplyRow(Home[r], row)
    /\ IF row.ver > copy[r].ver
       THEN copy' = [copy EXCEPT ![r] = CopyOf(row)] /\ Goto(r, "adopt")
       ELSE UNCHANGED copy /\ Goto(r, "spend")
    /\ UNCHANGED <<row, reload, auths, world, prev, tries, result, fresh, history>>

(* AdoptPersistedCredential, and the refresh is dropped if the adopted     *)
(* copy needs none.                                                        *)
Adopt(r) ==
    /\ pc[r] = "adopt"
    /\ auths' = [auths EXCEPT ![Home[r]] = copy[r]]
    /\ Goto(r, IF Due(copy[r].doc) THEN "spend" ELSE "release")
    /\ UNCHANGED <<cluster, known, mirror, reload, world, task, history>>

(* Another process holds the lease, or the credential is gone.             *)
ClaimRefused(r) ==
    /\ pc[r] = "claim"
    /\ ~MayClaim(Home[r])
    /\ Goto(r, "idle")
    /\ copy' = [copy EXCEPT ![r] = NewCopy]
    /\ UNCHANGED <<cluster, local, world, prev, tries, result, fresh, history>>

(* The statement fails; it may have taken the lease all the same.          *)
ClaimFails(r) ==
    /\ pc[r] = "claim"
    /\ Failures
    /\ \/ UNCHANGED lease
       \/ MayClaim(Home[r]) /\ lease' = Home[r]
    /\ Goto(r, "idle")
    /\ copy' = [copy EXCEPT ![r] = NewCopy]
    /\ UNCHANGED <<row, local, world, prev, tries, result, fresh, history>>

-----------------------------------------------------------------------------
(* Spending the refresh token.                                             *)

Present(r) ==
    spenders' = [spenders EXCEPT ![copy[r].doc.token] = @ \cup {Home[r]}]

(* The provider accepts the token and issues the next one.                 *)
Issue(r) ==
    /\ pc[r] = "spend"
    /\ copy[r].doc.token = valid
    /\ valid < MaxToken
    /\ Present(r)
    /\ valid' = valid + 1

(* Its answer arrives.                                                     *)
Rotate(r) ==
    /\ Issue(r)
    /\ received' = valid + 1
    /\ copy' = [copy EXCEPT ![r].doc.token = valid + 1]
    /\ fresh' = [fresh EXCEPT ![r] = copy'[r]]
    /\ tries' = [tries EXCEPT ![r] = 1]
    /\ Goto(r, "install")
    /\ UNCHANGED <<cluster, local, aged, overran, prev, result, acked, gaveUp>>

(* Its answer is lost or cannot be read: an error like any other, so the   *)
(* new token is in nobody's hands.  Executors that try again present the   *)
(* spent token once more and end in a permanent error.                     *)
AnswerLost(r) ==
    /\ Issue(r)
    /\ Goto(r, "release") \/ (r \in Background /\ Goto(r, "recover"))
    /\ UNCHANGED <<cluster, local, received, aged, overran, task, acked, gaveUp>>

(* The token was rotated before: a permanent error.                        *)
RefusedToken(r) ==
    /\ pc[r] = "spend"
    /\ copy[r].doc.token # valid
    /\ Present(r)
    /\ Goto(r, IF r \in Background THEN "recover" ELSE "release")
    /\ UNCHANGED <<cluster, local, world, task, acked, gaveUp>>

(* The call does not reach the provider, or fails before the token counts  *)
(* as spent.                                                               *)
Unreached(r) ==
    /\ pc[r] = "spend"
    /\ Goto(r, "release")
    /\ UNCHANGED <<cluster, local, world, task, history>>

(* recoverRotatedRefreshToken: a newer token in memory is kept, else one   *)
(* in the store is taken.                                                  *)
Recover(r) ==
    LET n == Home[r]
        used == copy[r].doc.token
    IN  /\ pc[r] = "recover"
        /\ IF auths[n] # Absent /\ auths[n].doc.token # used
           THEN UNCHANGED <<known, mirror, auths>>
           ELSE /\ ApplyRow(n, row)
                /\ IF auths[n] # Absent /\ row.live /\ row.doc.token # used
                   THEN auths' = [auths EXCEPT ![n] = CopyOf(row)]
                   ELSE UNCHANGED auths
        /\ Goto(r, "release")
        /\ UNCHANGED <<cluster, reload, world, task, history>>

RecoverFails(r) ==
    LET n == Home[r]
    IN  /\ pc[r] = "recover"
        /\ ~(auths[n] # Absent /\ auths[n].doc.token # copy[r].doc.token)
        /\ Failures
        /\ Goto(r, "release")
        /\ UNCHANGED <<row, lease, local, world, task, history>>

(* The refresh is over and its variables go out of scope.                  *)
Finish(r) ==
    /\ Goto(r, "idle")
    /\ copy' = [copy EXCEPT ![r] = NewCopy]
    /\ fresh' = [fresh EXCEPT ![r] = NewCopy]
    /\ tries' = [tries EXCEPT ![r] = 0]
    /\ result' = [result EXCEPT ![r] = "ok"]

(* ReleaseRefresh.                                                         *)
Release(r) ==
    /\ pc[r] = "release"
    /\ lease' = IF lease = Home[r] THEN Absent ELSE lease
    /\ Finish(r)
    /\ UNCHANGED <<row, local, world, prev, history>>

ReleaseFails(r) ==
    /\ pc[r] = "release"
    /\ Failures
    /\ Finish(r)
    /\ UNCHANGED <<row, lease, local, world, prev, history>>

-----------------------------------------------------------------------------
(* Saving: Manager.Update around Store.Save, inside the retry loops of     *)
(* UpdateRefreshed (refreshes) and MutateAuth (edits).                     *)

(* MutateAuth begins.                                                      *)
Edit(e) ==
    /\ pc[e] = "idle"
    /\ tries' = [tries EXCEPT ![e] = 1]
    /\ Goto(e, "latest")
    /\ UNCHANGED <<cluster, local, world, copy, prev, result, fresh, history>>

(* Mutant: the whole refreshed document is written again.                  *)
Bug_Change(t, d) ==
    IF t \in Editors
    THEN [d EXCEPT !.edits = @ \cup {t}]
    ELSE fresh[t].doc

(* What a task wants the newest document to become: only the keys it       *)
(* changes.                                                                *)
Change(t, d) ==
    IF t \in Editors
    THEN [d EXCEPT !.edits = @ \cup {t}]
    ELSE [d EXCEPT !.token = fresh[t].doc.token]

(* A task that is out of attempts, or whose credential is gone.  The       *)
(* refresh loop then keeps the new tokens in memory (persistRefreshResult).*)
Stop(t, res) ==
    Goto(t, CASE t \in Editors -> "failed"
              [] t \in Background /\ res # "gone" -> "keep"
              [] OTHER -> "release")

(* Mutant: one attempt too many.                                           *)
Bug_Retry(t, res) ==
    IF /\ tries[t] <= WriteAttempts
       /\ res = "conflict" \/ (res = "error" /\ t \in Refreshers)
    THEN /\ tries' = [tries EXCEPT ![t] = @ + 1]
         /\ Goto(t, "latest")
         /\ UNCHANGED gaveUp
    ELSE /\ Stop(t, res)
         /\ UNCHANGED <<tries, gaveUp>>

(* A failed attempt is repeated on the newest copy: edits after a conflict,*)
(* refreshes after an error too.  A refresh that ends unsaved is recorded. *)
Retry(t, res) ==
    IF /\ tries[t] < WriteAttempts
       /\ res = "conflict" \/ (res = "error" /\ t \in Refreshers)
    THEN /\ tries' = [tries EXCEPT ![t] = @ + 1]
         /\ Goto(t, "latest")
         /\ UNCHANGED gaveUp
    ELSE /\ Stop(t, res)
         /\ gaveUp' = (gaveUp \/ (t \in Refreshers /\ res # "gone"))
         /\ UNCHANGED tries

(* latestForWrite: the newest row, with the change applied to it.          *)
Latest(t) ==
    /\ pc[t] = "latest"
    /\ ApplyRow(Home[t], row)
    /\ IF row.live
       THEN /\ copy' = [copy EXCEPT ![t] = [ver |-> row.ver, doc |-> Change(t, row.doc)]]
            /\ Goto(t, "install")
       ELSE /\ Stop(t, "gone")
            /\ UNCHANGED copy
    /\ UNCHANGED <<cluster, reload, auths, world, prev, tries, result, fresh, history>>

LatestFails(t) ==
    /\ pc[t] = "latest"
    /\ Failures
    /\ Retry(t, "error")
    /\ UNCHANGED <<row, lease, local, world, copy, prev, result, fresh, acked, spenders>>

(* Update, first hold of the lock: the copy becomes the process's.         *)
Install(t) ==
    /\ pc[t] = "install"
    /\ prev' = [prev EXCEPT ![t] = auths[Home[t]]]
    /\ auths' = [auths EXCEPT ![Home[t]] = copy[t]]
    /\ Goto(t, "save")
    /\ UNCHANGED <<cluster, known, mirror, reload, world, copy, tries, result, fresh, history>>

(* Save returns nil and so does Update.                                    *)
Saved(t) ==
    /\ Goto(t, IF t \in Editors THEN "done" ELSE "release")
    /\ acked' = acked \cup ({t} \cap Editors)
    /\ prev' = [prev EXCEPT ![t] = Absent]
    /\ UNCHANGED result

(* Save returns an error and Update is about to undo the installation.     *)
NotSaved(t, res) ==
    /\ Goto(t, "undo")
    /\ result' = [result EXCEPT ![t] = res]
    /\ UNCHANGED <<acked, prev>>

(* classify, against the process's view.                                   *)
Classify(t) ==
    LET k == known[Home[t]]
    IN  /\ pc[t] = "save"
        /\ CASE ~k.live -> NotSaved(t, "gone")
             [] k.live /\ k.doc = copy[t].doc -> Saved(t)
             [] k.live /\ k.doc # copy[t].doc /\ copy[t].ver < k.ver -> NotSaved(t, "conflict")
             [] OTHER -> Goto(t, "write") /\ UNCHANGED <<acked, prev, result>>
        /\ UNCHANGED <<cluster, local, world, copy, tries, fresh, spenders, gaveUp>>

(* Mutant: the version is not compared.                                    *)
Bug_Matches(t) == row.live

(* compareAndSwap in the database.                                         *)
Matches(t) == row.live /\ row.ver = copy[t].ver

Written(t) == [ver |-> copy[t].ver + 1, doc |-> copy[t].doc, live |-> TRUE]

CompareAndSwap(t) ==
    /\ pc[t] = "write"
    /\ IF Matches(t)
       THEN row' = Written(t) /\ Goto(t, "record")
       ELSE UNCHANGED row /\ Goto(t, "reread")
    /\ UNCHANGED <<lease, local, world, task, history>>

(* The statement fails, or commits and its answer is lost.                 *)
WriteFails(t) ==
    /\ pc[t] = "write"
    /\ Failures
    /\ \/ UNCHANGED row
       \/ Matches(t) /\ row' = Written(t)
    /\ NotSaved(t, "error")
    /\ UNCHANGED <<lease, local, world, copy, tries, fresh, spenders, gaveUp>>

(* The client of a management call hangs up: its context ends the          *)
(* statement and every further attempt.                                    *)
HangUp(t) ==
    /\ t \notin Background
    /\ \/ /\ pc[t] = "write"
          /\ UNCHANGED row \/ (Matches(t) /\ row' = Written(t))
          /\ NotSaved(t, "cancelled")
          /\ UNCHANGED gaveUp
       \/ /\ pc[t] = "latest"
          /\ Stop(t, "cancelled")
          /\ gaveUp' = (gaveUp \/ t \in Refreshers)
          /\ UNCHANGED <<row, acked, prev, result>>
    /\ UNCHANGED <<lease, local, world, copy, tries, fresh, spenders>>

(* Mutant: the write is recorded over a newer view.                        *)
Bug_RecordWrite(t) ==
    /\ pc[t] = "record"
    /\ known' = [known EXCEPT ![Home[t]] = Written(t)]
    /\ mirror' = [mirror EXCEPT ![Home[t]] = TRUE]
    /\ Saved(t)
    /\ UNCHANGED <<cluster, reload, auths, world, copy, tries, fresh, spenders, gaveUp>>

(* recordWrite: the view moves on unless it has moved further already.     *)
RecordWrite(t) ==
    /\ pc[t] = "record"
    /\ ApplyRow(Home[t], Written(t))
    /\ Saved(t)
    /\ UNCHANGED <<cluster, reload, auths, world, copy, tries, fresh, spenders, gaveUp>>

(* Mutant: the newer row is taken and the write forgotten.                 *)
Bug_ResolveConflict(t) ==
    /\ pc[t] = "reread"
    /\ ApplyRow(Home[t], row)
    /\ IF row.live THEN Saved(t) ELSE NotSaved(t, "gone")
    /\ UNCHANGED <<cluster, reload, auths, world, copy, tries, fresh, spenders, gaveUp>>

(* resolveConflict.                                                        *)
ResolveConflict(t) ==
    /\ pc[t] = "reread"
    /\ ApplyRow(Home[t], row)
    /\ CASE ~row.live -> NotSaved(t, "gone")
         [] row.live /\ row.doc = copy[t].doc -> Saved(t)
         [] OTHER -> NotSaved(t, "conflict")
    /\ UNCHANGED <<cluster, reload, auths, world, copy, tries, fresh, spenders, gaveUp>>

RereadFails(t) ==
    /\ pc[t] = "reread"
    /\ Failures
    /\ NotSaved(t, "error")
    /\ UNCHANGED <<row, lease, local, world, copy, tries, fresh, spenders, gaveUp>>

(* Update, second hold of the lock: back to what it replaced, whatever     *)
(* happened to the copy in the meantime.                                   *)
Undo(t) ==
    /\ pc[t] = "undo"
    /\ auths' = [auths EXCEPT ![Home[t]] = prev[t]]
    /\ prev' = [prev EXCEPT ![t] = Absent]
    /\ result' = [result EXCEPT ![t] = "ok"]
    /\ Retry(t, result[t])
    /\ UNCHANGED <<cluster, known, mirror, reload, world, copy, fresh, acked, spenders>>

(* persistRefreshResult keeps a token it could not save.                   *)
KeepLocal(r) ==
    /\ pc[r] = "keep"
    /\ auths' = [auths EXCEPT ![Home[r]] = fresh[r]]
    /\ Goto(r, "release")
    /\ UNCHANGED <<cluster, known, mirror, reload, world, task, history>>

-----------------------------------------------------------------------------
(* The other ways a process learns of changes, and the environment.        *)

(* A notification of another process, or the reconcile loop.               *)
Sync(n) ==
    /\ known[n].ver < row.ver
    /\ ApplyRow(n, row)
    /\ UNCHANGED <<cluster, reload, auths, world, pc, task, history>>

(* The watcher reads the mirror file and acceptCredentialReload compares   *)
(* it with the copy in memory; or it finds the file removed.               *)
ReadMirror(n) ==
    /\ mirror[n] /\ reload[n] = Absent
    /\ mirror' = [mirror EXCEPT ![n] = FALSE]
    /\ CASE ~known[n].live ->
                auths' = [auths EXCEPT ![n] = Absent] /\ UNCHANGED reload
         [] known[n].live /\ (auths[n] = Absent \/ auths[n].ver <= known[n].ver) ->
                reload' = [reload EXCEPT ![n] = CopyOf(known[n])] /\ UNCHANGED auths
         [] OTHER -> UNCHANGED <<reload, auths>>
    /\ UNCHANGED <<cluster, known, world, pc, task, history>>

(* Update or Register: what was read becomes the copy in memory, whatever  *)
(* happened to it since the comparison.                                    *)
Reload(n) ==
    /\ reload[n] # Absent
    /\ auths' = [auths EXCEPT ![n] = reload[n]]
    /\ reload' = [reload EXCEPT ![n] = Absent]
    /\ UNCHANGED <<cluster, known, mirror, world, pc, task, history>>

(* Store.Delete; the watcher removes the copy in memory.                   *)
Delete(n) ==
    LET dead == [ver |-> row.ver + 1, doc |-> NewDoc, live |-> FALSE]
    IN  /\ n \in Deleters
        /\ row.live
        /\ row' = dead
        /\ lease' = Absent
        /\ ApplyRow(n, dead)
        /\ UNCHANGED <<reload, auths, world, pc, task, history>>

Saving == {"install", "save", "write", "record", "reread", "undo", "latest", "keep"}
Holding == Saving \cup {"adopt", "spend", "recover", "release"}

(* Time passes and the newest access token is about to expire.  It lives   *)
(* longer than a save takes.                                               *)
Age ==
    /\ aged < received /\ valid < MaxToken
    /\ \A r \in Refreshers : pc[r] \notin Saving
    /\ aged' = received
    /\ UNCHANGED <<cluster, local, valid, received, overran, pc, task, history>>

(* A lease that was not given back expires, or one whose refreshes take    *)
(* longer than the lease, which is recorded.                               *)
Expire ==
    LET late == {r \in Refreshers : Home[r] = lease /\ pc[r] \in Holding}
    IN  /\ lease # Absent
        /\ late \subseteq Slow
        /\ lease' = Absent
        /\ overran' = (overran \/ late # {})
        /\ UNCHANGED <<row, local, valid, received, aged, pc, task, history>>

RefreshStep(r) ==
    \/ Start(r)
    \/ Claim(r)
    \/ Adopt(r)
    \/ ClaimRefused(r)
    \/ ClaimFails(r)
    \/ Rotate(r)
    \/ AnswerLost(r)
    \/ RefusedToken(r)
    \/ Unreached(r)
    \/ Recover(r)
    \/ RecoverFails(r)
    \/ KeepLocal(r)
    \/ Release(r)
    \/ ReleaseFails(r)

SaveStep(t) ==
    \/ Latest(t)
    \/ LatestFails(t)
    \/ Install(t)
    \/ Classify(t)
    \/ CompareAndSwap(t)
    \/ WriteFails(t)
    \/ HangUp(t)
    \/ RecordWrite(t)
    \/ ResolveConflict(t)
    \/ RereadFails(t)
    \/ Undo(t)

NodeStep(n) ==
    \/ Sync(n)
    \/ ReadMirror(n)
    \/ Reload(n)
    \/ Delete(n)

Next ==
    \/ \E r \in Refreshers : RefreshStep(r)
    \/ \E e \in Editors : Edit(e)
    \/ \E t \in Tasks : SaveStep(t)
    \/ \E n \in Nodes : NodeStep(n)
    \/ Age
    \/ Expire

Spec == Init /\ [][Next]_vars

-----------------------------------------------------------------------------
(* Properties.                                                             *)

(* The types of the row, the views, the copies and the tasks.              *)
TypeOK ==
    /\ row \in Rows
    /\ lease \in Nodes \cup {Absent}
    /\ known \in [Nodes -> Rows]
    /\ mirror \in [Nodes -> BOOLEAN]
    /\ reload \in [Nodes -> Copies \cup {Absent}]
    /\ auths \in [Nodes -> Copies \cup {Absent}]
    /\ valid \in Tokens
    /\ received \in 1..valid
    /\ overran \in BOOLEAN
    /\ aged \in 0..MaxToken
    /\ pc \in [Tasks -> {"idle", "claim", "done", "failed"} \cup Holding]
    /\ copy \in [Tasks -> Copies]
    /\ prev \in [Tasks -> Copies \cup {Absent}]
    /\ tries \in [Tasks -> 0..WriteAttempts]
    /\ result \in [Tasks -> {"ok", "gone", "conflict", "error", "cancelled"}]
    /\ fresh \in [Refreshers -> Copies]
    /\ acked \subseteq Editors
    /\ spenders \in [Tokens -> SUBSET Nodes]
    /\ gaveUp \in BOOLEAN

(* "An unrelated edit made on another node must survive" (UpdateRefreshed) *)
(* and the other way round: an edit whose call succeeded stays in the      *)
(* credential, whatever refreshes and other edits raced with it.           *)
EditsKept == row.live => acked \subseteq row.doc.edits

(* A token that a process received reaches the database: the row holds the *)
(* newest one received, or a refresh that holds it is still saving it,     *)
(* unless a refresh reported that it ended without saving (UpdateRefreshed,*)
(* persistRefreshResult).  No other refresh, edit, lost answer of the      *)
(* database or expired lease takes it back out.                            *)
RotationKept ==
    (row.live /\ ~gaveUp) =>
        \/ row.doc.token = received
        \/ \E r \in Refreshers : pc[r] \in Saving /\ fresh[r].doc.token = received

(* RefreshCoordinator: "so a single-use refresh token is spent by one node *)
(* only": a token whose successor arrived was presented by one process, as *)
(* long as refreshes save their token and end within their lease.  When    *)
(* the provider's answer is lost nobody has the successor, and another     *)
(* process does present the spent token.                                   *)
SpentByOneNode ==
    (~gaveUp /\ ~overran) =>
        \A k \in Tokens : k < received => Cardinality(spenders[k]) <= 1

(* A version names one document: two processes at the same version, or one *)
(* at the version of the database, have the same view of the credential.   *)
OneDocumentPerVersion ==
    \A n \in Nodes :
        /\ known[n].ver <= row.ver
        /\ known[n].ver = row.ver => known[n] = row
        /\ \A m \in Nodes : known[m].ver = known[n].ver => known[m] = known[n]

(* "It never moves a credential back to an older version" (applyRow), also *)
(* when a write of this process is recorded after a newer row arrived.     *)
NeverBack == [][\A n \in Nodes : known[n].ver <= known'[n].ver]_vars
=============================================================================
