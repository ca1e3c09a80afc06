------------------------ MODULE CredentialRefresh_proofs ------------------------
(***************************************************************************)
(* Proofs about CredentialRefresh, for any processes, refreshes, edits,    *)
(* number of attempts and rotations, with and without failures of the      *)
(* database and deletions: the types, that a version names one document,   *)
(* that edits and received tokens are kept, and that a token is spent by   *)
(* one process.                                                            *)
(***************************************************************************)
EXTENDS CredentialRefresh, FiniteSetTheorems, TLAPS

-----------------------------------------------------------------------------
(* Types.                                                                  *)

Places == {"idle", "claim", "done", "failed"} \cup Holding
Results == {"ok", "gone", "conflict", "error", "cancelled"}

LEMMA ConstantsType ==
    /\ MaxToken \in Nat \ {0} /\ WriteAttempts \in Nat \ {0}
    /\ Refreshers \subseteq Tasks /\ Editors \subseteq Tasks
    /\ Refreshers \cap Editors = {}
    /\ \A t \in Tasks : Home[t] \in Nodes
    /\ 1 \in Tokens
    /\ \A r \in Refreshers : r \notin Editors
    /\ Absent \notin Nodes
    /\ Background \subseteq Refreshers /\ Management \subseteq Refreshers
  BY TasksAssumption, AbsentAssumption, BoundsAssumption DEF Tasks, Refreshers, Tokens

LEMMA DocumentTypes ==
    /\ NewCopy \in Copies
    /\ \A r \in Rows : CopyOf(r) \in Copies
    /\ \A c \in Copies : c.ver \in Nat \ {0} /\ c.doc \in Docs
    /\ \A r \in Rows : r.ver \in Nat \ {0} /\ r.doc \in Docs /\ r.live \in BOOLEAN
    /\ \A d \in Docs : d.token \in Tokens /\ d.edits \subseteq Editors
  BY ConstantsType DEF Copies, Rows, NewCopy, NewDoc, Docs, CopyOf

LEMMA WrittenType ==
    ASSUME TypeOK, NEW t \in Tasks
    PROVE  Written(t) \in Rows
  <1>1. copy[t] \in Copies
    BY DEF TypeOK
  <1>2. copy[t].ver \in Nat \ {0} /\ copy[t].doc \in Docs
    BY <1>1, DocumentTypes
  <1>3. copy[t].ver + 1 \in Nat \ {0}
    BY <1>2
  <1> QED
    BY <1>2, <1>3 DEF Written, Rows

LEMMA ChangeType ==
    ASSUME TypeOK, NEW t \in Tasks, NEW d \in Docs
    PROVE  Change(t, d) \in Docs
  <1>1. CASE t \in Editors
    BY <1>1 DEF Change, Docs
  <1>2. CASE t \notin Editors
    <2>1. t \in Refreshers
      BY <1>2 DEF Tasks
    <2>2. fresh[t].doc.token \in Tokens
      BY <2>1, DocumentTypes DEF TypeOK
    <2> QED
      BY <1>2, <2>2 DEF Change, Docs
  <1> QED
    BY <1>1, <1>2

LEMMA InitType ==
    Init => TypeOK
  <1> SUFFICES ASSUME Init PROVE TypeOK
    OBVIOUS
  <1>1. row \in Rows
    BY ConstantsType DEF Init, Rows, NewDoc, Docs
  <1>2. NewCopy \in Copies /\ 0 \in 0..WriteAttempts /\ 0 \in 0..MaxToken /\ 1 \in Tokens /\ 1 \in 1..1
    BY ConstantsType, DocumentTypes
  <1> QED
    BY <1>1, <1>2 DEF Init, TypeOK, Holding

(* The view of a process moves to a row.                                   *)
LEMMA ApplyRowType ==
    ASSUME TypeOK, NEW n \in Nodes, NEW r \in Rows, ApplyRow(n, r)
    PROVE  known' \in [Nodes -> Rows] /\ mirror' \in [Nodes -> BOOLEAN]
  BY DEF TypeOK, ApplyRow

LEMMA RefreshType ==
    ASSUME TypeOK, NEW r \in Refreshers, RefreshStep(r)
    PROVE  TypeOK'
  <1> USE ConstantsType
  <1>1. CASE Start(r)
    BY <1>1 DEF Start, TypeOK, Goto, Holding, cluster, local, world, history
  <1>2. CASE Claim(r)
    <2>1. known' \in [Nodes -> Rows] /\ mirror' \in [Nodes -> BOOLEAN]
      BY <1>2, ApplyRowType DEF Claim, TypeOK
    <2>2. CopyOf(row) \in Copies
      BY DocumentTypes DEF TypeOK
    <2>3. copy' \in [Tasks -> Copies] /\ pc' \in [Tasks -> Places]
      BY <1>2, <2>2 DEF Claim, TypeOK, Goto, Holding, Places
    <2> QED
      BY <1>2, <2>1, <2>3 DEF Claim, TypeOK, Places, world, history
  <1>3. CASE Adopt(r)
    BY <1>3 DEF Adopt, TypeOK, Goto, Holding, cluster, world, task, history
  <1>4. CASE ClaimRefused(r) \/ ClaimFails(r)
    <2>1. copy' \in [Tasks -> Copies] /\ lease' \in Nodes \cup {Absent}
      BY <1>4, DocumentTypes DEF ClaimRefused, ClaimFails, TypeOK, cluster
    <2> QED
      BY <1>4, <2>1 DEF ClaimRefused, ClaimFails, TypeOK, Goto, Holding, cluster, local, world, history
  <1>5. CASE Rotate(r)
    <2>1. copy[r] \in Copies /\ copy[r].doc.token \in Tokens /\ valid + 1 \in Tokens
      BY <1>5, DocumentTypes DEF TypeOK, Rotate, Issue, Tokens
    <2>2. [copy[r] EXCEPT !.doc.token = valid + 1] \in Copies
      BY <2>1 DEF Copies, Docs
    <2>3. copy' \in [Tasks -> Copies] /\ copy'[r] \in Copies
      BY <1>5, <2>2 DEF Rotate, Issue, TypeOK
    <2>4. fresh' \in [Refreshers -> Copies]
      BY <1>5, <2>3 DEF Rotate, Issue, TypeOK
    <2>5. spenders' \in [Tokens -> SUBSET Nodes]
      BY <1>5, <2>1 DEF Rotate, Issue, TypeOK, Present
    <2>6. tries' \in [Tasks -> 0..WriteAttempts]
      BY <1>5 DEF Rotate, Issue, TypeOK
    <2> QED
      BY <1>5, <2>1, <2>3, <2>4, <2>5, <2>6 DEF Rotate, Issue, TypeOK, Tokens, Goto, Holding, Saving, cluster, local
  <1>6. CASE RefusedToken(r)
    <2>1. copy[r].doc.token \in Tokens
      BY DocumentTypes DEF TypeOK
    <2>2. spenders' \in [Tokens -> SUBSET Nodes]
      BY <1>6, <2>1 DEF RefusedToken, TypeOK, Present
    <2> QED
      BY <1>6, <2>2 DEF RefusedToken, TypeOK, Goto, Holding, cluster, local, world, task
  <1>7. CASE Unreached(r) \/ RecoverFails(r)
    BY <1>7 DEF Unreached, RecoverFails, TypeOK, Goto, Holding, cluster, local, world, task, history
  <1>11. CASE AnswerLost(r)
    <2>1. copy[r].doc.token \in Tokens /\ valid + 1 \in Tokens /\ received \in 1..(valid + 1)
      BY <1>11, DocumentTypes DEF TypeOK, AnswerLost, Issue, Tokens
    <2>2. spenders' \in [Tokens -> SUBSET Nodes]
      BY <1>11, <2>1 DEF AnswerLost, Issue, TypeOK, Present
    <2> QED
      BY <1>11, <2>1, <2>2 DEF AnswerLost, Issue, TypeOK, Goto, Holding, cluster, local, task
  <1>8. CASE Recover(r)
    <2>1. CopyOf(row) \in Copies /\ row \in Rows
      BY DocumentTypes DEF TypeOK
    <2>2. known' \in [Nodes -> Rows] /\ mirror' \in [Nodes -> BOOLEAN]
      BY <1>8, <2>1, ApplyRowType DEF Recover, TypeOK
    <2>3. auths' \in [Nodes -> Copies \cup {Absent}]
      BY <1>8, <2>1 DEF Recover, TypeOK
    <2> QED
      BY <1>8, <2>2, <2>3 DEF Recover, TypeOK, Goto, Holding, cluster, world, task, history
  <1>9. CASE KeepLocal(r)
    BY <1>9 DEF KeepLocal, TypeOK, Goto, Holding, cluster, world, task, history
  <1>10. CASE Release(r) \/ ReleaseFails(r)
    <2>1. Finish(r) /\ lease' \in Nodes \cup {Absent} /\ UNCHANGED <<row, local, world, prev, history>>
      BY <1>10 DEF Release, ReleaseFails, TypeOK
    <2>2. copy' \in [Tasks -> Copies] /\ fresh' \in [Refreshers -> Copies]
      BY <2>1, DocumentTypes DEF Finish, TypeOK
    <2>3. tries' \in [Tasks -> 0..WriteAttempts] /\ result' \in [Tasks -> Results]
      BY <2>1 DEF Finish, TypeOK, Results
    <2> QED
      BY <2>1, <2>2, <2>3 DEF Finish, TypeOK, Goto, Results, Holding, local, world, history
  <1> QED
    BY <1>1, <1>2, <1>3, <1>4, <1>5, <1>6, <1>7, <1>8, <1>9, <1>10, <1>11 DEF RefreshStep

LEMMA StopType ==
    ASSUME TypeOK, NEW t \in Tasks, NEW res, Stop(t, res)
    PROVE  pc' \in [Tasks -> Places]
  BY DEF Stop, Goto, TypeOK, Places, Holding, Saving

LEMMA RetryType ==
    ASSUME TypeOK, NEW t \in Tasks, NEW res, Retry(t, res)
    PROVE  /\ pc' \in [Tasks -> Places]
           /\ tries' \in [Tasks -> 0..WriteAttempts]
           /\ gaveUp' \in BOOLEAN
  <1>1. CASE /\ tries[t] < WriteAttempts
             /\ res = "conflict" \/ (res = "error" /\ t \in Refreshers)
    <2>1. tries[t] + 1 \in 0..WriteAttempts
      BY <1>1, ConstantsType DEF TypeOK
    <2> QED
      BY <1>1, <2>1 DEF Retry, Goto, TypeOK, Places, Holding, Saving
  <1>2. CASE ~(/\ tries[t] < WriteAttempts
               /\ res = "conflict" \/ (res = "error" /\ t \in Refreshers))
    BY <1>2, StopType DEF Retry, TypeOK
  <1> QED
    BY <1>1, <1>2

LEMMA AnswerType ==
    ASSUME TypeOK, NEW t \in Tasks,
           Saved(t) \/ \E res \in Results : NotSaved(t, res)
    PROVE  /\ pc' \in [Tasks -> Places]
           /\ acked' \subseteq Editors
           /\ prev' \in [Tasks -> Copies \cup {Absent}]
           /\ result' \in [Tasks -> Results]
  BY DEF Saved, NotSaved, Goto, TypeOK, Places, Holding, Saving, Results

LEMMA SaveType ==
    ASSUME TypeOK, NEW t \in Tasks, SaveStep(t)
    PROVE  TypeOK'
  <1> USE ConstantsType
  <1>0. /\ row \in Rows /\ Written(t) \in Rows
        /\ {"gone", "conflict", "error", "cancelled"} \subseteq Results
    BY WrittenType DEF TypeOK, Results
  <1>1. CASE Latest(t)
    <2>1. known' \in [Nodes -> Rows] /\ mirror' \in [Nodes -> BOOLEAN]
      BY <1>0, <1>1, ApplyRowType DEF Latest
    <2>2. [ver |-> row.ver, doc |-> Change(t, row.doc)] \in Copies
      BY <1>0, DocumentTypes, ChangeType DEF Copies
    <2>3. copy' \in [Tasks -> Copies]
      BY <1>1, <2>2 DEF Latest, TypeOK
    <2>4. pc' \in [Tasks -> Places]
      BY <1>1, StopType DEF Latest, TypeOK, Goto, Places, Holding, Saving
    <2> QED
      BY <1>1, <2>1, <2>3, <2>4 DEF Latest, TypeOK, Places, cluster, world, history
  <1>2. CASE LatestFails(t)
    BY <1>2, RetryType DEF LatestFails, TypeOK, Places, local, world
  <1>3. CASE Install(t)
    BY <1>3 DEF Install, TypeOK, Goto, Holding, Saving, cluster, world, history
  <1>4. CASE Classify(t)
    <2>1. \/ Saved(t) \/ \E res \in Results : NotSaved(t, res)
          \/ Goto(t, "write") /\ UNCHANGED <<acked, prev, result>>
      BY <1>0, <1>4 DEF Classify
    <2>2. /\ pc' \in [Tasks -> Places]
          /\ acked' \subseteq Editors
          /\ prev' \in [Tasks -> Copies \cup {Absent}]
          /\ result' \in [Tasks -> Results]
      <3>1. CASE Goto(t, "write") /\ UNCHANGED <<acked, prev, result>>
        BY <3>1 DEF Goto, TypeOK, Places, Holding, Saving, Results
      <3> QED
        BY <2>1, <3>1, AnswerType
    <2> QED
      BY <1>4, <2>2 DEF Classify, TypeOK, Places, Results, cluster, local, world
  <1>5. CASE CompareAndSwap(t)
    BY <1>0, <1>5 DEF CompareAndSwap, TypeOK, Goto, Holding, Saving, local, world, task, history
  <1>6. CASE WriteFails(t) \/ RereadFails(t)
    <2>1. NotSaved(t, "error") /\ row' \in Rows
      BY <1>0, <1>6 DEF WriteFails, RereadFails
    <2>2. /\ pc' \in [Tasks -> Places]
          /\ acked' \subseteq Editors
          /\ prev' \in [Tasks -> Copies \cup {Absent}]
          /\ result' \in [Tasks -> Results]
      BY <1>0, <2>1, AnswerType
    <2> QED
      BY <1>6, <2>1, <2>2 DEF WriteFails, RereadFails, TypeOK, Places, Results, cluster, local, world
  <1>7. CASE HangUp(t)
    <2>1. /\ NotSaved(t, "cancelled") \/ (Stop(t, "cancelled") /\ UNCHANGED <<acked, prev, result>>)
          /\ row' \in Rows /\ gaveUp' \in BOOLEAN
      BY <1>0, <1>7 DEF HangUp, TypeOK
    <2>2. /\ pc' \in [Tasks -> Places]
          /\ acked' \subseteq Editors
          /\ prev' \in [Tasks -> Copies \cup {Absent}]
          /\ result' \in [Tasks -> Results]
      BY <1>0, <2>1, AnswerType, StopType DEF TypeOK, Results
    <2> QED
      BY <1>7, <2>1, <2>2 DEF HangUp, TypeOK, Places, Results, local, world
  <1>8. CASE RecordWrite(t)
    <2>1. known' \in [Nodes -> Rows] /\ mirror' \in [Nodes -> BOOLEAN]
      BY <1>0, <1>8, ApplyRowType DEF RecordWrite
    <2>2. /\ pc' \in [Tasks -> Places]
          /\ acked' \subseteq Editors
          /\ prev' \in [Tasks -> Copies \cup {Absent}]
          /\ result' \in [Tasks -> Results]
      BY <1>8, AnswerType DEF RecordWrite
    <2> QED
      BY <1>8, <2>1, <2>2 DEF RecordWrite, TypeOK, Places, Results, cluster, world
  <1>9. CASE ResolveConflict(t)
    <2>1. known' \in [Nodes -> Rows] /\ mirror' \in [Nodes -> BOOLEAN]
      BY <1>0, <1>9, ApplyRowType DEF ResolveConflict
    <2>2. Saved(t) \/ \E res \in Results : NotSaved(t, res)
      BY <1>0, <1>9 DEF ResolveConflict
    <2>3. /\ pc' \in [Tasks -> Places]
          /\ acked' \subseteq Editors
          /\ prev' \in [Tasks -> Copies \cup {Absent}]
          /\ result' \in [Tasks -> Results]
      BY <2>2, AnswerType
    <2> QED
      BY <1>9, <2>1, <2>3 DEF ResolveConflict, TypeOK, Places, Results, cluster, world
  <1>10. CASE Undo(t)
    <2>1. /\ pc' \in [Tasks -> Places]
          /\ tries' \in [Tasks -> 0..WriteAttempts]
          /\ gaveUp' \in BOOLEAN
      BY <1>10, RetryType DEF Undo
    <2>2. /\ auths' \in [Nodes -> Copies \cup {Absent}]
          /\ prev' \in [Tasks -> Copies \cup {Absent}]
          /\ result' \in [Tasks -> Results]
      BY <1>10 DEF Undo, TypeOK, Results
    <2> QED
      BY <1>10, <2>1, <2>2 DEF Undo, TypeOK, Places, Results, cluster, world
  <1> QED
    BY <1>1, <1>2, <1>3, <1>4, <1>5, <1>6, <1>7, <1>8, <1>9, <1>10 DEF SaveStep

LEMMA NodeType ==
    ASSUME TypeOK, NEW n \in Nodes, NodeStep(n)
    PROVE  TypeOK'
  <1>1. CASE Sync(n)
    <2>1. known' \in [Nodes -> Rows] /\ mirror' \in [Nodes -> BOOLEAN]
      BY <1>1, ApplyRowType DEF Sync, TypeOK
    <2> QED
      BY <1>1, <2>1 DEF Sync, TypeOK, cluster, world, task, history
  <1>2. CASE ReadMirror(n)
    <2>1. CopyOf(known[n]) \in Copies
      BY DocumentTypes DEF TypeOK
    <2>2. /\ auths' \in [Nodes -> Copies \cup {Absent}]
          /\ reload' \in [Nodes -> Copies \cup {Absent}]
          /\ mirror' \in [Nodes -> BOOLEAN]
      BY <1>2, <2>1 DEF ReadMirror, TypeOK
    <2> QED
      BY <1>2, <2>2 DEF ReadMirror, TypeOK, cluster, world, task, history
  <1>3. CASE Reload(n)
    BY <1>3 DEF Reload, TypeOK, cluster, world, task, history
  <1>4. CASE Delete(n)
    <2> DEFINE dead == [ver |-> row.ver + 1, doc |-> NewDoc, live |-> FALSE]
    <2>1. dead \in Rows
      <3>1. row.ver + 1 \in Nat \ {0} /\ NewDoc \in Docs
        BY DocumentTypes DEF TypeOK, NewCopy
      <3> QED
        BY <3>1 DEF Rows
    <2>2. row' = dead /\ lease' = Absent /\ ApplyRow(n, dead)
          /\ UNCHANGED <<reload, auths, world, pc, task, history>>
      BY <1>4 DEF Delete
    <2>3. known' \in [Nodes -> Rows] /\ mirror' \in [Nodes -> BOOLEAN]
      BY <2>1, <2>2, ApplyRowType
    <2> HIDE DEF dead
    <2> QED
      BY <2>1, <2>2, <2>3 DEF TypeOK, world, task, history
  <1> QED
    BY <1>1, <1>2, <1>3, <1>4 DEF NodeStep

LEMMA NextType ==
    ASSUME TypeOK, [Next]_vars
    PROVE  TypeOK'
  <1>1. ASSUME NEW e \in Editors, Edit(e) PROVE TypeOK'
    <2>1. tries' \in [Tasks -> 0..WriteAttempts]
      BY <1>1, ConstantsType DEF Edit, TypeOK
    <2> QED
      BY <1>1, <2>1, ConstantsType DEF Edit, TypeOK, Goto, Holding, Saving, cluster, local, world, history
  <1>2. CASE Age
    BY <1>2, ConstantsType DEF Age, TypeOK, Tokens, cluster, local, task, history
  <1>3. CASE Expire
    BY <1>3 DEF Expire, TypeOK, local, task, history
  <1>4. CASE UNCHANGED vars
    BY <1>4 DEF TypeOK, vars, cluster, local, world, task, history
  <1> QED
    BY <1>1, <1>2, <1>3, <1>4, RefreshType, SaveType, NodeType DEF Next

(* Every reachable state has the declared types: in particular no save     *)
(* takes more than credentialWriteAttempts attempts (UpdateRefreshed,      *)
(* MutateAuth).                                                            *)
THEOREM TypeCorrect ==
    Spec => []TypeOK
  BY InitType, NextType, PTL DEF Spec
-----------------------------------------------------------------------------
(* A version names one document.                                           *)

(* The rows the processes have seen, and the ones a process wrote and has  *)
(* not recorded yet.                                                       *)
Seen == {row} \cup {known[n] : n \in Nodes}
              \cup {Written(t) : t \in {u \in Tasks : pc[u] = "record"}}

(* Nothing seen is newer than the row, and a version is seen in one form   *)
(* only.  A deletion is the last version.                                  *)
OneRowPerVersion ==
    /\ \A a \in Seen : a.ver <= row.ver
    /\ \A a, b \in Seen : a.ver = b.ver => a = b
    /\ \A a \in Seen : ~a.live => a = row

(* The copies of the credential that a process holds in memory.            *)
Held == {auths[n] : n \in Nodes} \cup {reload[n] : n \in Nodes}
          \cup {copy[t] : t \in Tasks} \cup {prev[t] : t \in Tasks}
          \cup {fresh[r] : r \in Refreshers}

(* Where a copy held after a step can come from.                           *)
Origin(c) ==
    \/ c \in Held \cup {Absent, NewCopy}
    \/ \E a \in Seen : a.live /\ c = CopyOf(a)
    \/ \E t \in Tasks : /\ pc[t] = "latest" /\ row.live
                        /\ c = [ver |-> row.ver, doc |-> Change(t, row.doc)]
    \/ \E r \in Refreshers :
          /\ pc[r] = "spend" /\ copy[r].doc.token = valid
          /\ received' = valid + 1
          /\ c = [copy[r] EXCEPT !.doc.token = valid + 1]

StepRow ==
    \/ row' = row
    \/ \E t \in Tasks : pc[t] = "write" /\ Matches(t) /\ row' = Written(t)
    \/ row.live /\ row' = [ver |-> row.ver + 1, doc |-> NewDoc, live |-> FALSE]

StepSeen ==
    /\ \A n \in Nodes : known'[n] \in Seen \cup {row'}
    /\ \A t \in Tasks : pc'[t] = "record" => Written(t)' \in Seen \cup {row'}

StepHeld ==
    /\ \A n \in Nodes : Origin(auths'[n]) /\ Origin(reload'[n])
    /\ \A t \in Tasks : Origin(copy'[t]) /\ Origin(prev'[t])
    /\ \A r \in Refreshers : Origin(fresh'[r])

LEMMA Origins ==
    /\ \A n \in Nodes : Origin(auths[n]) /\ Origin(reload[n])
    /\ \A t \in Tasks : Origin(copy[t]) /\ Origin(prev[t])
    /\ \A r \in Refreshers : Origin(fresh[r])
    /\ Origin(NewCopy) /\ Origin(Absent)
    /\ row.live => Origin(CopyOf(row))
    /\ \A n \in Nodes : known[n].live => Origin(CopyOf(known[n]))
    /\ \A t \in Tasks : pc[t] = "latest" /\ row.live =>
            Origin([ver |-> row.ver, doc |-> Change(t, row.doc)])
  BY DEF Origin, Held, Seen

LEMMA SeenFacts ==
    /\ row \in Seen
    /\ \A n \in Nodes : known[n] \in Seen
    /\ \A t \in Tasks : pc[t] = "record" => Written(t) \in Seen
  BY DEF Seen

(* The view of a process, after applyRow of a row seen.                    *)
LEMMA ApplySeen ==
    ASSUME TypeOK, NEW n \in Nodes, NEW r, r \in Seen \cup {row'}, ApplyRow(n, r)
    PROVE  \A m \in Nodes : known'[m] \in Seen \cup {row'}
  BY SeenFacts DEF ApplyRow, TypeOK

LEMMA RefreshEffects ==
    ASSUME TypeOK, NEW r \in Refreshers, RefreshStep(r)
    PROVE  StepRow /\ StepSeen /\ StepHeld
  <1> USE ConstantsType
  <1>1. row' = row
    BY DEF RefreshStep, Start, Claim, Adopt, ClaimRefused, ClaimFails, Rotate, Issue, RefusedToken,
           Unreached, AnswerLost, Recover, RecoverFails, KeepLocal, Release, ReleaseFails, cluster
  <1>2. \A n \in Nodes : known'[n] \in Seen \cup {row'}
    <2>1. CASE UNCHANGED known
      BY <2>1, SeenFacts
    <2>2. CASE ApplyRow(Home[r], row)
      BY <2>2, ApplySeen, SeenFacts
    <2> QED
      BY <2>1, <2>2 DEF RefreshStep, Start, Claim, Adopt, ClaimRefused, ClaimFails, Rotate, Issue,
           RefusedToken, Unreached, AnswerLost, Recover, RecoverFails, KeepLocal, Release, ReleaseFails, local
  <1>3. \A t \in Tasks : pc'[t] = "record" => pc[t] = "record" /\ copy'[t] = copy[t]
    BY DEF RefreshStep, Start, Claim, Adopt, ClaimRefused, ClaimFails, Rotate, Issue, RefusedToken,
           Unreached, AnswerLost, Recover, RecoverFails, KeepLocal, Release, ReleaseFails, Finish,
           Goto, task, TypeOK
  <1>4. StepSeen
    BY <1>2, <1>3, SeenFacts DEF StepSeen, Written
  <1>5. StepHeld
    <2> USE Origins
    <2>1. CASE Start(r) \/ Claim(r) \/ ClaimRefused(r) \/ ClaimFails(r)
      <3>1. UNCHANGED <<auths, reload, prev, fresh>>
        BY <2>1 DEF Start, Claim, ClaimRefused, ClaimFails, local
      <3>2. \A t \in Tasks : Origin(copy'[t])
        BY <2>1 DEF Start, Claim, ClaimRefused, ClaimFails, MayClaim, TypeOK
      <3> QED
        BY <3>1, <3>2 DEF StepHeld
    <2>2. CASE Adopt(r) \/ Recover(r) \/ KeepLocal(r)
      <3>1. UNCHANGED <<reload, copy, prev, fresh>>
        BY <2>2 DEF Adopt, Recover, KeepLocal, task
      <3>2. \A n \in Nodes : Origin(auths'[n])
        BY <2>2 DEF Adopt, Recover, KeepLocal, TypeOK
      <3> QED
        BY <3>1, <3>2 DEF StepHeld
    <2>3. CASE Rotate(r)
      <3> DEFINE c == [copy[r] EXCEPT !.doc.token = valid + 1]
      <3>1. UNCHANGED <<auths, reload, prev>>
        BY <2>3 DEF Rotate, Issue, local
      <3>2. Origin(c)
        BY <2>3 DEF Rotate, Issue, Origin
      <3>3. copy' = [copy EXCEPT ![r] = c] /\ fresh' = [fresh EXCEPT ![r] = copy'[r]]
        BY <2>3 DEF Rotate, Issue
      <3> HIDE DEF c
      <3> QED
        BY <3>1, <3>2, <3>3 DEF StepHeld, TypeOK
    <2>4. CASE RefusedToken(r) \/ Unreached(r) \/ AnswerLost(r) \/ RecoverFails(r)
      BY <2>4 DEF RefusedToken, Unreached, AnswerLost, RecoverFails, local, task, StepHeld
    <2>5. CASE Release(r) \/ ReleaseFails(r)
      <3>1. Finish(r) /\ UNCHANGED <<auths, reload, prev>>
        BY <2>5 DEF Release, ReleaseFails, local
      <3> QED
        BY <3>1 DEF StepHeld, Finish, TypeOK
    <2> QED
      BY <2>1, <2>2, <2>3, <2>4, <2>5 DEF RefreshStep
  <1> QED
    BY <1>1, <1>4, <1>5 DEF StepRow

LEMMA SaveEffects ==
    ASSUME TypeOK, NEW t \in Tasks, SaveStep(t)
    PROVE  StepRow /\ StepSeen /\ StepHeld
  <1> USE ConstantsType
  <1>1. row' = row \/ (pc[t] = "write" /\ Matches(t) /\ row' = Written(t))
    BY DEF SaveStep, Latest, LatestFails, Install, Classify, CompareAndSwap, WriteFails,
           HangUp, RecordWrite, ResolveConflict, RereadFails, Undo, cluster
  <1>2. \A n \in Nodes : known'[n] \in Seen \cup {row'}
    <2>1. CASE UNCHANGED known
      BY <2>1, SeenFacts
    <2>2. CASE ApplyRow(Home[t], row)
      BY <2>2, ApplySeen, SeenFacts
    <2>3. CASE pc[t] = "record" /\ ApplyRow(Home[t], Written(t))
      BY <2>3, ApplySeen, SeenFacts
    <2> QED
      BY <2>1, <2>2, <2>3 DEF SaveStep, Latest, LatestFails, Install, Classify, CompareAndSwap,
           WriteFails, HangUp, RecordWrite, ResolveConflict, RereadFails, Undo, local
  <1>3. \A u \in Tasks : pc'[u] = "record" =>
            \/ pc[u] = "record" /\ copy'[u] = copy[u]
            \/ u = t /\ copy'[t] = copy[t] /\ row' = Written(t)
    <2>1. CASE CompareAndSwap(t)
      BY <2>1 DEF CompareAndSwap, Goto, task, TypeOK
    <2>2. CASE Latest(t)
      BY <2>2 DEF Latest, Stop, Goto, TypeOK
    <2>3. CASE LatestFails(t) \/ Undo(t)
      BY <2>3 DEF LatestFails, Undo, Retry, Stop, Goto, TypeOK
    <2>4. CASE Install(t) \/ Classify(t)
      BY <2>4 DEF Install, Classify, Saved, NotSaved, Goto, TypeOK
    <2>5. CASE WriteFails(t) \/ HangUp(t) \/ RereadFails(t)
      BY <2>5 DEF WriteFails, HangUp, RereadFails, NotSaved, Stop, Goto, TypeOK
    <2>6. CASE RecordWrite(t) \/ ResolveConflict(t)
      BY <2>6 DEF RecordWrite, ResolveConflict, Saved, NotSaved, Goto, TypeOK
    <2> QED
      BY <2>1, <2>2, <2>3, <2>4, <2>5, <2>6 DEF SaveStep
  <1>4. StepSeen
    BY <1>2, <1>3, SeenFacts DEF StepSeen, Written
  <1>5. StepHeld
    <2> USE Origins
    <2>1. CASE Latest(t)
      BY <2>1 DEF Latest, StepHeld, TypeOK
    <2>2. CASE Install(t)
      BY <2>2 DEF Install, StepHeld, TypeOK
    <2>3. CASE Undo(t)
      BY <2>3 DEF Undo, StepHeld, TypeOK
    <2>4. CASE LatestFails(t) \/ CompareAndSwap(t) \/ WriteFails(t) \/ HangUp(t) \/ RereadFails(t)
      <3>1. UNCHANGED <<auths, reload, copy, prev, fresh>>
        BY <2>4 DEF LatestFails, CompareAndSwap, WriteFails, HangUp, RereadFails, NotSaved, local, task
      <3> QED
        BY <3>1 DEF StepHeld
    <2>5. CASE Classify(t) \/ RecordWrite(t) \/ ResolveConflict(t)
      <3>1. UNCHANGED <<auths, reload, copy, fresh>>
        BY <2>5 DEF Classify, RecordWrite, ResolveConflict, local
      <3>2. prev' = prev \/ prev' = [prev EXCEPT ![t] = Absent]
        BY <2>5 DEF Classify, RecordWrite, ResolveConflict, Saved, NotSaved
      <3> QED
        BY <3>1, <3>2 DEF StepHeld, TypeOK
    <2> QED
      BY <2>1, <2>2, <2>3, <2>4, <2>5 DEF SaveStep
  <1> QED
    BY <1>1, <1>4, <1>5 DEF StepRow

LEMMA NodeEffects ==
    ASSUME TypeOK, NEW n \in Nodes, NodeStep(n)
    PROVE  StepRow /\ StepSeen /\ StepHeld
  <1>1. UNCHANGED <<pc, copy, prev, fresh>>
    BY DEF NodeStep, Sync, ReadMirror, Reload, Delete, task
  <1>2. StepRow
    BY DEF NodeStep, Sync, ReadMirror, Reload, Delete, cluster, StepRow
  <1>3. \A m \in Nodes : known'[m] \in Seen \cup {row'}
    <2>1. CASE UNCHANGED known
      BY <2>1, SeenFacts
    <2>2. CASE ApplyRow(n, row) \/ ApplyRow(n, row')
      BY <2>2, ApplySeen, SeenFacts
    <2>3. Delete(n) => ApplyRow(n, row')
      BY DEF Delete
    <2> QED
      BY <2>1, <2>2, <2>3 DEF NodeStep, Sync, ReadMirror, Reload
  <1>4. StepSeen
    BY <1>1, <1>3, SeenFacts DEF StepSeen, Written
  <1>5. \A m \in Nodes : Origin(auths'[m]) /\ Origin(reload'[m])
    <2>1. CASE Sync(n) \/ Delete(n)
      BY <2>1, Origins DEF Sync, Delete
    <2>2. CASE ReadMirror(n)
      BY <2>2, Origins DEF ReadMirror, TypeOK
    <2>3. CASE Reload(n)
      BY <2>3, Origins DEF Reload, TypeOK
    <2> QED
      BY <2>1, <2>2, <2>3 DEF NodeStep
  <1> QED
    BY <1>1, <1>2, <1>4, <1>5, Origins DEF StepHeld

(* What any step may do to the row, to what was seen of it and to the      *)
(* copies held.                                                            *)
LEMMA StepEffects ==
    ASSUME TypeOK, [Next]_vars
    PROVE  StepRow /\ StepSeen /\ StepHeld
  <1>1. ASSUME NEW e \in Editors, Edit(e)
        PROVE  StepRow /\ StepSeen /\ StepHeld
    <2>1. UNCHANGED <<row, known, auths, reload, copy, prev, fresh>>
      BY <1>1 DEF Edit, cluster, local
    <2>2. \A t \in Tasks : pc'[t] = "record" => pc[t] = "record"
      BY <1>1 DEF Edit, Goto, TypeOK
    <2> QED
      BY <2>1, <2>2, Origins, SeenFacts DEF StepRow, StepSeen, StepHeld, Written
  <1>2. CASE Age \/ Expire \/ UNCHANGED vars
    <2>1. UNCHANGED <<row, known, auths, reload, copy, prev, fresh, pc>>
      BY <1>2 DEF Age, Expire, vars, cluster, local, task
    <2> QED
      BY <2>1, Origins, SeenFacts DEF StepRow, StepSeen, StepHeld, Written
  <1> QED
    BY <1>1, <1>2, RefreshEffects, SaveEffects, NodeEffects DEF Next

(* What was seen are rows.                                                 *)
LEMMA SeenType ==
    ASSUME TypeOK
    PROVE  Seen \subseteq Rows
  BY WrittenType DEF TypeOK, Seen

(* The version of the row never falls, and moves by one when it moves.  A  *)
(* deleted row stays as it is.                                             *)
LEMMA RowMoves ==
    ASSUME TypeOK, StepRow
    PROVE  /\ row' = row \/ (row.live /\ row'.ver = row.ver + 1)
           /\ row' # row /\ row'.live =>
                \E t \in Tasks : copy[t].ver = row.ver /\ row'.doc = copy[t].doc
           /\ row.ver \in Nat /\ row'.ver \in Nat /\ row.ver <= row'.ver
  <1>1. row.ver \in Nat
    BY DocumentTypes DEF TypeOK
  <1> QED
    BY <1>1 DEF StepRow, Matches, Written

LEMMA SeenBefore ==
    ASSUME StepSeen
    PROVE  Seen' \subseteq Seen \cup {row'}
  <1> SUFFICES ASSUME NEW a \in Seen' PROVE a \in Seen \cup {row'}
    OBVIOUS
  <1>1. \/ a = row' \/ \E n \in Nodes : a = known'[n]
        \/ \E t \in Tasks : pc'[t] = "record" /\ a = Written(t)'
    BY DEF Seen
  <1> QED
    BY <1>1 DEF StepSeen

LEMMA InitVersions ==
    Init => OneRowPerVersion
  <1> SUFFICES ASSUME Init PROVE OneRowPerVersion
    OBVIOUS
  <1>1. Seen = {row}
    BY DEF Init, Seen
  <1>2. row.ver = 1 /\ row.live
    BY DEF Init
  <1> QED
    BY <1>1, <1>2 DEF OneRowPerVersion

LEMMA StepVersions ==
    ASSUME TypeOK, OneRowPerVersion, StepRow, StepSeen
    PROVE  OneRowPerVersion'
  <1>1. Seen' \subseteq Seen \cup {row'}
    BY SeenBefore
  <1>2. \A a \in Seen : a.ver \in Nat
    BY SeenType, DocumentTypes
  <1>3. CASE row' = row
    BY <1>1, <1>3, SeenFacts DEF OneRowPerVersion
  <1>4. CASE row' # row
    <2>1. row.live /\ row'.ver = row.ver + 1 /\ row.ver \in Nat
      BY <1>4, RowMoves
    <2>2. \A a \in Seen : a.ver < row'.ver /\ a.live
      BY <1>2, <2>1, SeenFacts DEF OneRowPerVersion
    <2> QED
      BY <1>1, <1>2, <2>1, <2>2 DEF OneRowPerVersion
  <1> QED
    BY <1>3, <1>4

(* A version names one document: two processes at the same version, or one *)
(* at the version of the database, have the same view, whatever writes,    *)
(* lost answers, notifications and deletions raced (compareAndSwap,        *)
(* recordWrite, applyRow).                                                 *)
THEOREM VersionsAreUnique ==
    Spec => []OneDocumentPerVersion
  <1>1. OneRowPerVersion => OneDocumentPerVersion
    BY SeenFacts DEF OneRowPerVersion, OneDocumentPerVersion
  <1>2. TypeOK /\ OneRowPerVersion /\ [Next]_vars => OneRowPerVersion'
    BY StepEffects, StepVersions
  <1> QED
    BY <1>1, <1>2, InitType, NextType, InitVersions, PTL DEF Spec

(* A process's view never moves back to an older version (applyRow), also  *)
(* when a write of its own is recorded after a newer row arrived.          *)
THEOREM ViewsNeverMoveBack ==
    Spec => NeverBack
  <1>1. ASSUME TypeOK, NEW m \in Nodes, NEW r \in Rows, ApplyRow(m, r), NEW n \in Nodes
        PROVE  known[n].ver <= known'[n].ver
    <2>1. r.ver \in Nat /\ known[n].ver \in Nat /\ known[m].ver \in Nat
      BY <1>1, DocumentTypes DEF TypeOK
    <2> QED
      BY <1>1, <2>1 DEF ApplyRow, TypeOK
  <1>2. ASSUME TypeOK, [Next]_vars
        PROVE  known' = known \/ \E m \in Nodes, r \in Rows : ApplyRow(m, r)
    <2>0. row \in Rows /\ row' \in Rows /\ \A t \in Tasks : Written(t) \in Rows /\ Home[t] \in Nodes
      BY <1>2, NextType, WrittenType, ConstantsType DEF TypeOK
    <2>1. ASSUME NEW r \in Refreshers, RefreshStep(r)
          PROVE  known' = known \/ ApplyRow(Home[r], row)
      BY <2>1 DEF RefreshStep, Start, Claim, Adopt, ClaimRefused, ClaimFails, Rotate, Issue,
           RefusedToken, Unreached, AnswerLost, Recover, RecoverFails, KeepLocal, Release, ReleaseFails, local
    <2>2. ASSUME NEW t \in Tasks, SaveStep(t)
          PROVE  known' = known \/ ApplyRow(Home[t], row) \/ ApplyRow(Home[t], Written(t))
      BY <2>2 DEF SaveStep, Latest, LatestFails, Install, Classify, CompareAndSwap,
           WriteFails, HangUp, RecordWrite, ResolveConflict, RereadFails, Undo, local
    <2>3. ASSUME NEW n \in Nodes, NodeStep(n)
          PROVE  known' = known \/ ApplyRow(n, row) \/ ApplyRow(n, row')
      <3>1. Delete(n) => ApplyRow(n, row')
        BY DEF Delete
      <3> QED
        BY <2>3, <3>1 DEF NodeStep, Sync, ReadMirror, Reload
    <2>4. (\E e \in Editors : Edit(e)) \/ Age \/ Expire \/ UNCHANGED vars => known' = known
      BY DEF Edit, Age, Expire, vars, local
    <2> QED
      BY <1>2, <2>0, <2>1, <2>2, <2>3, <2>4, ConstantsType DEF Next
  <1>3. TypeOK /\ [Next]_vars => [\A n \in Nodes : known[n].ver <= known'[n].ver]_vars
    <2> SUFFICES ASSUME TypeOK, [Next]_vars, NEW n \in Nodes
                 PROVE  known[n].ver <= known'[n].ver
      OBVIOUS
    <2>1. known[n].ver \in Nat
      BY DocumentTypes DEF TypeOK
    <2>2. CASE known' = known
      BY <2>1, <2>2
    <2> QED
      BY <1>1, <1>2, <2>2
  <1> QED
    BY <1>3, InitType, NextType, PTL DEF Spec, NeverBack

-----------------------------------------------------------------------------
(* Edits.                                                                  *)

(* The first version is the document the cluster started with.             *)
FirstRow == row.ver = 1 => row.doc = NewDoc

(* A copy is older than the row, or has every edit the row has.            *)
CopyKeepsEdits(c) ==
    /\ c.ver <= row.ver
    /\ row.live /\ c.ver = row.ver => row.doc.edits \subseteq c.doc.edits

CopiesKeepEdits == \A c \in Held \ {Absent} : CopyKeepsEdits(c)

(* Edits seen once stay in the row.                                        *)
SeenEdits ==
    \A a \in Seen : row.live /\ a.live => a.doc.edits \subseteq row.doc.edits

Attempt == {"install", "save", "write", "record", "reread", "undo"}

(* An edit that is being saved is in the copy that is being saved.         *)
EditInCopy == \A e \in Editors : pc[e] \in Attempt => e \in copy[e].doc.edits

CopyInv == OneRowPerVersion /\ FirstRow /\ CopiesKeepEdits
EditInv == SeenEdits /\ EditInCopy /\ EditsKept

LEMMA HeldType ==
    ASSUME TypeOK
    PROVE  Held \subseteq Copies \cup {Absent}
  BY DEF TypeOK, Held

LEMMA HeldAfter ==
    ASSUME StepHeld
    PROVE  \A c \in Held' : Origin(c)
  <1> SUFFICES ASSUME NEW c \in Held' PROVE Origin(c)
    OBVIOUS
  <1>1. \/ \E n \in Nodes : c = auths'[n] \/ c = reload'[n]
        \/ \E t \in Tasks : c = copy'[t] \/ c = prev'[t]
        \/ \E r \in Refreshers : c = fresh'[r]
    BY DEF Held
  <1> QED
    BY <1>1 DEF StepHeld

LEMMA OriginType ==
    ASSUME TypeOK, NEW c, Origin(c), c # Absent
    PROVE  c.ver \in Nat
  <1>1. CASE c \in Held \cup {NewCopy}
    BY <1>1, HeldType, DocumentTypes
  <1>2. CASE \E a \in Seen : a.live /\ c = CopyOf(a)
    BY <1>2, SeenType, DocumentTypes
  <1>3. CASE \E t \in Tasks : row.live /\ c = [ver |-> row.ver, doc |-> Change(t, row.doc)]
    BY <1>3, DocumentTypes DEF TypeOK
  <1>4. CASE \E r \in Refreshers : c = [copy[r] EXCEPT !.doc.token = valid + 1]
    <2>1. PICK r \in Refreshers : c = [copy[r] EXCEPT !.doc.token = valid + 1]
      BY <1>4
    <2>2. copy[r] \in Copies
      BY ConstantsType DEF TypeOK
    <2>3. c.ver = copy[r].ver
      BY <2>1, <2>2 DEF Copies
    <2> QED
      BY <2>2, <2>3, DocumentTypes
  <1> QED
    BY <1>1, <1>2, <1>3, <1>4 DEF Origin

(* Wherever a copy comes from, it has the edits of the row it is based on. *)
LEMMA OriginKeepsEdits ==
    ASSUME TypeOK, CopyInv, NEW c, Origin(c), c # Absent
    PROVE  CopyKeepsEdits(c)
  <1>0. row.ver \in Nat \ {0} /\ row.doc \in Docs
    BY DocumentTypes DEF TypeOK
  <1>1. CASE c \in Held
    BY <1>1 DEF CopyInv, CopiesKeepEdits
  <1>2. CASE c = NewCopy
    BY <1>0, <1>2 DEF CopyInv, FirstRow, CopyKeepsEdits, NewCopy, NewDoc
  <1>3. CASE \E a \in Seen : a.live /\ c = CopyOf(a)
    BY <1>3, SeenFacts DEF CopyInv, OneRowPerVersion, CopyOf, CopyKeepsEdits
  <1>4. CASE \E t \in Tasks : row.live /\ c = [ver |-> row.ver, doc |-> Change(t, row.doc)]
    <2>1. PICK t \in Tasks : c = [ver |-> row.ver, doc |-> Change(t, row.doc)]
      BY <1>4
    <2>2. row.doc.edits \subseteq Change(t, row.doc).edits
      BY <1>0 DEF Change, Docs
    <2> QED
      BY <1>0, <2>1, <2>2 DEF CopyKeepsEdits
  <1>5. CASE \E r \in Refreshers : c = [copy[r] EXCEPT !.doc.token = valid + 1]
    <2>1. PICK r \in Refreshers : c = [copy[r] EXCEPT !.doc.token = valid + 1]
      BY <1>5
    <2>2. copy[r] \in Copies /\ copy[r] \in Held
      BY ConstantsType DEF TypeOK, Held
    <2>3. c.ver = copy[r].ver /\ c.doc.edits = copy[r].doc.edits
      BY <2>1, <2>2 DEF Copies, Docs
    <2>4. CopyKeepsEdits(copy[r])
      BY <2>2, CopiesAssumption DEF CopyInv, CopiesKeepEdits
    <2> QED
      BY <2>3, <2>4 DEF CopyKeepsEdits
  <1> QED
    BY <1>1, <1>2, <1>3, <1>4, <1>5 DEF Origin

LEMMA InitCopies ==
    Init => CopyInv /\ EditInv
  <1> SUFFICES ASSUME Init PROVE CopyInv /\ EditInv
    OBVIOUS
  <1>1. Held \subseteq {NewCopy, Absent} /\ Seen = {row}
    BY DEF Init, Held, Seen
  <1>2. row = [ver |-> 1, doc |-> NewDoc, live |-> TRUE] /\ acked = {}
        /\ \A e \in Editors : pc[e] \notin Attempt
    BY ConstantsType DEF Init, Attempt
  <1>3. CopiesKeepEdits /\ FirstRow
    BY <1>1, <1>2 DEF CopiesKeepEdits, CopyKeepsEdits, FirstRow, NewCopy
  <1>4. EditInv
    BY <1>1, <1>2 DEF EditInv, SeenEdits, EditInCopy, EditsKept
  <1> QED
    BY <1>3, <1>4, InitVersions DEF CopyInv

LEMMA StepCopies ==
    ASSUME TypeOK, CopyInv, StepRow, StepSeen, StepHeld
    PROVE  CopyInv'
  <1>0. OneRowPerVersion'
    BY StepVersions DEF CopyInv
  <1>1. /\ row.ver \in Nat \ {0}
        /\ row' = row \/ row'.ver = row.ver + 1
    BY RowMoves, DocumentTypes DEF TypeOK
  <1>2. FirstRow'
    BY <1>1 DEF CopyInv, FirstRow
  <1>3. ASSUME NEW c \in Held', c # Absent
        PROVE  CopyKeepsEdits(c)'
    <2>1. CopyKeepsEdits(c)
      BY <1>3, HeldAfter, OriginKeepsEdits
    <2>2. CASE row' = row
      BY <2>1, <2>2 DEF CopyKeepsEdits
    <2>3. CASE row'.ver = row.ver + 1
      <3>1. c.ver <= row.ver
        BY <2>1 DEF CopyKeepsEdits
      <3>2. c.ver \in Nat
        BY <1>3, HeldAfter, OriginType
      <3> QED
        BY <1>1, <2>3, <3>1, <3>2 DEF CopyKeepsEdits
    <2> QED
      BY <1>1, <2>2, <2>3
  <1>4. CopiesKeepEdits'
    BY <1>3 DEF CopiesKeepEdits
  <1> QED
    BY <1>0, <1>2, <1>4 DEF CopyInv

(* A step of a task touches no other task.                                 *)
LEMMA RefreshLocal ==
    ASSUME TypeOK, NEW r \in Refreshers, RefreshStep(r)
    PROVE  /\ \A u \in Tasks : u # r => pc'[u] = pc[u] /\ copy'[u] = copy[u] /\ result'[u] = result[u]
           /\ \A q \in Refreshers : q # r => fresh'[q] = fresh[q]
  <1>1. CASE Start(r) \/ Claim(r) \/ ClaimRefused(r) \/ ClaimFails(r)
    BY <1>1 DEF Start, Claim, ClaimRefused, ClaimFails, Goto, TypeOK
  <1>2. CASE Adopt(r) \/ RefusedToken(r) \/ Unreached(r) \/ AnswerLost(r) \/ Recover(r) \/ RecoverFails(r) \/ KeepLocal(r)
    BY <1>2 DEF Adopt, RefusedToken, Unreached, AnswerLost, Recover, RecoverFails, KeepLocal, Goto, task, TypeOK
  <1>3. CASE Rotate(r)
    BY <1>3 DEF Rotate, Issue, Goto, TypeOK
  <1>4. CASE Release(r) \/ ReleaseFails(r)
    BY <1>4 DEF Release, ReleaseFails, Finish, Goto, TypeOK
  <1> QED
    BY <1>1, <1>2, <1>3, <1>4 DEF RefreshStep

LEMMA SaveLocal ==
    ASSUME TypeOK, NEW t \in Tasks, SaveStep(t)
    PROVE  /\ \A u \in Tasks : u # t => pc'[u] = pc[u] /\ copy'[u] = copy[u] /\ result'[u] = result[u]
           /\ fresh' = fresh
  <1>1. CASE Latest(t) \/ LatestFails(t)
    BY <1>1 DEF Latest, LatestFails, Retry, Stop, Goto, TypeOK
  <1>2. CASE Install(t) \/ CompareAndSwap(t)
    BY <1>2 DEF Install, CompareAndSwap, Goto, task, TypeOK
  <1>3. CASE Classify(t) \/ RecordWrite(t) \/ ResolveConflict(t)
    BY <1>3 DEF Classify, RecordWrite, ResolveConflict, Saved, NotSaved, Goto, TypeOK
  <1>4. CASE WriteFails(t) \/ HangUp(t) \/ RereadFails(t)
    BY <1>4 DEF WriteFails, HangUp, RereadFails, NotSaved, Stop, Goto, TypeOK
  <1>5. CASE Undo(t)
    BY <1>5 DEF Undo, Retry, Stop, Goto, TypeOK
  <1> QED
    BY <1>1, <1>2, <1>3, <1>4, <1>5 DEF SaveStep

(* A save that succeeds found its document in the database.                *)
StepAcked ==
    \A e \in acked' :
        \/ e \in acked
        \/ /\ e \in Editors /\ pc[e] \in Attempt
           /\ \E a \in Seen : a.live /\ a.doc = copy[e].doc

StepEdit ==
    \A e \in Editors : pc'[e] \in Attempt =>
        \/ pc[e] \in Attempt /\ copy'[e] = copy[e]
        \/ e \in copy'[e].doc.edits

(* How a step of a save ends: the answer "saved" is given only when the    *)
(* document was seen in the row.                                           *)
LEMMA SavedIsSeen ==
    ASSUME TypeOK, NEW t \in Tasks,
           Classify(t) \/ RecordWrite(t) \/ ResolveConflict(t), Saved(t)
    PROVE  pc[t] \in Attempt /\ \E a \in Seen : a.live /\ a.doc = copy[t].doc
  <1>1. CASE RecordWrite(t)
    <2>1. pc[t] = "record" /\ Written(t) \in Seen
      BY <1>1, SeenFacts DEF RecordWrite
    <2>2. Written(t).live /\ Written(t).doc = copy[t].doc
      BY DEF Written
    <2> QED
      BY <2>1, <2>2 DEF Attempt
  <1>2. CASE ResolveConflict(t)
    <2>1. pc[t] = "reread" /\ pc' = [pc EXCEPT ![t] = IF t \in Editors THEN "done" ELSE "release"]
      BY <1>2 DEF ResolveConflict, Saved, Goto
    <2>2. row.live /\ row.doc = copy[t].doc
      BY <1>2, <2>1 DEF ResolveConflict, NotSaved, Goto, TypeOK
    <2> QED
      BY <2>1, <2>2, SeenFacts DEF Attempt
  <1>3. CASE Classify(t)
    <2>1. pc[t] = "save" /\ pc' = [pc EXCEPT ![t] = IF t \in Editors THEN "done" ELSE "release"]
      BY <1>3 DEF Classify, Saved, Goto
    <2>2. known[Home[t]].live /\ known[Home[t]].doc = copy[t].doc
      BY <1>3, <2>1 DEF Classify, NotSaved, Goto, TypeOK
    <2> QED
      BY <2>1, <2>2, SeenFacts, ConstantsType DEF Attempt
  <1> QED
    BY <1>1, <1>2, <1>3

LEMMA SaveEdits ==
    ASSUME TypeOK, NEW t \in Tasks, SaveStep(t)
    PROVE  StepAcked /\ StepEdit
  <1>1. \A u \in Tasks : u # t => pc'[u] = pc[u] /\ copy'[u] = copy[u]
    BY SaveLocal
  <1>2. CASE Latest(t)
    <2>1. acked' = acked
      BY <1>2 DEF Latest, history
    <2>2. t \in Editors /\ pc'[t] \in Attempt => t \in copy'[t].doc.edits
      <3> SUFFICES ASSUME t \in Editors, pc'[t] \in Attempt
                   PROVE  t \in copy'[t].doc.edits
        OBVIOUS
      <3>1. row.live
        BY <1>2 DEF Latest, Stop, Goto, TypeOK, Attempt
      <3>2. copy'[t].doc = Change(t, row.doc)
        BY <1>2, <3>1 DEF Latest, TypeOK
      <3>3. row.doc \in Docs
        BY DocumentTypes DEF TypeOK
      <3> QED
        BY <3>2, <3>3 DEF Change, Docs
    <2> QED
      BY <1>1, <2>1, <2>2, ConstantsType DEF StepAcked, StepEdit
  <1>3. CASE LatestFails(t) \/ Undo(t)
    <2>1. UNCHANGED <<acked, copy>> /\ pc[t] \in {"latest", "undo"}
      BY <1>3 DEF LatestFails, Undo
    <2>2. pc'[t] \notin Attempt
      BY <1>3 DEF LatestFails, Undo, Retry, Stop, Goto, TypeOK, Attempt
    <2> QED
      BY <1>1, <2>1, <2>2, ConstantsType DEF StepAcked, StepEdit
  <1>4. CASE Install(t) \/ CompareAndSwap(t) \/ RereadFails(t) \/ WriteFails(t)
    <2>1. UNCHANGED <<acked, copy>> /\ pc[t] \in Attempt
      BY <1>4 DEF Install, CompareAndSwap, RereadFails, WriteFails, NotSaved, Attempt, history, task
    <2> QED
      BY <1>1, <2>1, ConstantsType DEF StepAcked, StepEdit
  <1>5. CASE HangUp(t)
    <2>1. UNCHANGED <<acked, copy>>
      BY <1>5 DEF HangUp, NotSaved
    <2>2. pc[t] \in Attempt \/ pc'[t] \notin Attempt
      BY <1>5 DEF HangUp, Stop, Goto, TypeOK, Attempt
    <2> QED
      BY <1>1, <2>1, <2>2, ConstantsType DEF StepAcked, StepEdit
  <1>6. CASE Classify(t) \/ RecordWrite(t) \/ ResolveConflict(t)
    <2>1. pc[t] \in Attempt /\ copy' = copy
      BY <1>6 DEF Classify, RecordWrite, ResolveConflict, Attempt
    <2>2. StepEdit
      BY <1>1, <2>1, ConstantsType DEF StepEdit
    <2>3. Saved(t) \/ acked' = acked
      BY <1>6 DEF Classify, RecordWrite, ResolveConflict, NotSaved
    <2>4. CASE Saved(t)
      <3>1. acked' = acked \cup ({t} \cap Editors)
        BY <2>4 DEF Saved
      <3> QED
        BY <1>6, <2>2, <2>4, <3>1, SavedIsSeen DEF StepAcked
    <2> QED
      BY <2>2, <2>3, <2>4 DEF StepAcked
  <1> QED
    BY <1>2, <1>3, <1>4, <1>5, <1>6 DEF SaveStep

LEMMA NextEdits ==
    ASSUME TypeOK, [Next]_vars
    PROVE  StepAcked /\ StepEdit
  <1>1. ASSUME NEW r \in Refreshers, RefreshStep(r)
        PROVE  StepAcked /\ StepEdit
    <2>1. acked' = acked
      BY <1>1 DEF RefreshStep, Start, Claim, Adopt, ClaimRefused, ClaimFails, Rotate, Issue, RefusedToken,
           Unreached, AnswerLost, Recover, RecoverFails, KeepLocal, Release, ReleaseFails, history
    <2>2. \A e \in Editors : pc'[e] = pc[e] /\ copy'[e] = copy[e]
      BY <1>1, RefreshLocal, ConstantsType
    <2> QED
      BY <2>1, <2>2 DEF StepAcked, StepEdit
  <1>2. ASSUME NEW e \in Editors, Edit(e)
        PROVE  StepAcked /\ StepEdit
    <2>1. UNCHANGED <<acked, copy>> /\ \A u \in Tasks : pc'[u] = pc[u] \/ pc'[u] = "latest"
      BY <1>2 DEF Edit, Goto, TypeOK, history
    <2> QED
      BY <2>1, ConstantsType DEF StepAcked, StepEdit, Attempt
  <1>3. CASE (\E n \in Nodes : NodeStep(n)) \/ Age \/ Expire \/ UNCHANGED vars
    <2>1. UNCHANGED <<acked, copy, pc>>
      BY <1>3 DEF NodeStep, Sync, ReadMirror, Reload, Delete, Age, Expire, vars, task, history
    <2> QED
      BY <2>1, ConstantsType DEF StepAcked, StepEdit
  <1> QED
    BY <1>1, <1>2, <1>3, SaveEdits DEF Next

(* The edits of a live row only grow.                                      *)
LEMMA RowKeepsEdits ==
    ASSUME TypeOK, CopyInv, StepRow, row'.live
    PROVE  row.live /\ row.doc.edits \subseteq row'.doc.edits
  <1>1. CASE row' = row
    BY <1>1
  <1>2. CASE row' # row
    <2>1. row.live
      BY <1>2, RowMoves
    <2>2. PICK t \in Tasks : copy[t].ver = row.ver /\ row'.doc = copy[t].doc
      BY <1>2, RowMoves
    <2>3. copy[t] \in Held \ {Absent}
      BY CopiesAssumption DEF TypeOK, Held
    <2> QED
      BY <2>1, <2>2, <2>3 DEF CopyInv, CopiesKeepEdits, CopyKeepsEdits
  <1> QED
    BY <1>1, <1>2

LEMMA StepEdits ==
    ASSUME TypeOK, CopyInv, EditInv, [Next]_vars
    PROVE  EditInv'
  <1>1. StepRow /\ StepSeen /\ StepAcked /\ StepEdit
    BY StepEffects, NextEdits
  <1>2. EditInCopy'
    BY <1>1 DEF EditInv, EditInCopy, StepEdit
  <1>3. SeenEdits'
    <2> SUFFICES ASSUME NEW a \in Seen', row'.live, a.live
                 PROVE  a.doc.edits \subseteq row'.doc.edits
      BY DEF SeenEdits
    <2>1. row.live /\ row.doc.edits \subseteq row'.doc.edits
      BY <1>1, RowKeepsEdits
    <2>2. a \in Seen \/ a = row'
      BY <1>1, SeenBefore
    <2> QED
      BY <2>1, <2>2 DEF EditInv, SeenEdits
  <1>4. EditsKept'
    <2> SUFFICES ASSUME row'.live, NEW e \in acked'
                 PROVE  e \in row'.doc.edits
      BY DEF EditsKept
    <2>1. row.live /\ row.doc.edits \subseteq row'.doc.edits
      BY <1>1, RowKeepsEdits
    <2>2. CASE e \in acked
      BY <2>1, <2>2 DEF EditInv, EditsKept
    <2>3. CASE e \notin acked
      <3>1. e \in Editors /\ pc[e] \in Attempt
        BY <1>1, <2>3 DEF StepAcked
      <3>2. PICK a \in Seen : a.live /\ a.doc = copy[e].doc
        BY <1>1, <2>3 DEF StepAcked
      <3> QED
        BY <2>1, <3>1, <3>2 DEF EditInv, SeenEdits, EditInCopy
    <2> QED
      BY <2>2, <2>3
  <1> QED
    BY <1>2, <1>3, <1>4 DEF EditInv

LEMMA CopyInvariant ==
    Spec => [](TypeOK /\ CopyInv)
  <1>1. TypeOK /\ CopyInv /\ [Next]_vars => TypeOK' /\ CopyInv'
    BY NextType, StepEffects, StepCopies
  <1> QED
    BY <1>1, InitType, InitCopies, PTL DEF Spec

(* An edit whose call returned success stays in the credential, whatever   *)
(* refreshes and other edits raced with it, whatever answers of the        *)
(* database were lost and whoever hung up (MutateAuth, UpdateRefreshed:    *)
(* "An unrelated edit made on another node must survive").                 *)
THEOREM EditsAreKept ==
    Spec => []EditsKept
  <1>1. TypeOK /\ CopyInv /\ EditInv /\ [Next]_vars => EditInv'
    BY StepEdits
  <1>2. EditInv => EditsKept
    BY DEF EditInv
  <1> QED
    BY <1>1, <1>2, CopyInvariant, InitCopies, PTL DEF Spec

-----------------------------------------------------------------------------
(* Tokens.                                                                 *)

(* A copy is older than the row, or its token is at least as new.          *)
CopyKeepsToken(c) ==
    /\ c.doc.token <= received
    /\ row.live /\ c.ver = row.ver => row.doc.token <= c.doc.token

CopiesKeepTokens == \A c \in Held \ {Absent} : CopyKeepsToken(c)

(* The tokens seen in the row were issued, and the row's only gets newer.  *)
SeenTokens ==
    /\ \A a \in Seen : a.doc.token <= received
    /\ \A a \in Seen : row.live /\ a.live => a.doc.token <= row.doc.token

(* A refresh that saves has the newest token received, and nobody          *)
(* else can be about to spend that one: it is too young to be due.         *)
Saver(r) ==
    /\ pc[r] \in Saving => fresh[r].doc.token = received /\ aged < received
    /\ pc[r] \in Attempt => copy[r].doc.token = fresh[r].doc.token
    /\ pc[r] \in {"claim", "spend"} => copy[r].doc.token <= aged
    /\ pc[r] = "keep" => gaveUp
    /\ pc[r] = "undo" => \/ result[r] \in {"conflict", "error"}
                         \/ result[r] = "cancelled" /\ r \in Management
                         \/ result[r] = "gone" /\ ~row.live

Savers == \A r \in Refreshers : Saver(r)

TokenInv == CopiesKeepTokens /\ SeenTokens /\ aged <= received /\ Savers

(* A token arrives only by spending the one before it.                     *)
StepValid ==
    \/ received' = received
    \/ /\ received' = received + 1 /\ aged' = aged
       /\ \E r \in Refreshers : pc[r] = "spend" /\ copy[r].doc.token = received

LEMMA TokenTypes ==
    ASSUME TypeOK
    PROVE  /\ valid \in Nat /\ received \in Nat /\ received <= valid
           /\ aged \in Nat /\ row.doc.token \in Nat
           /\ \A t \in Tasks : copy[t].doc.token \in Nat
           /\ \A r \in Refreshers : fresh[r].doc.token \in Nat
           /\ \A a \in Seen : a.doc.token \in Nat
           /\ \A c \in Held : c # Absent => c.doc.token \in Nat
  <1>1. \A d \in Docs : d.token \in Nat
    BY DEF Docs, Tokens
  <1>2. valid \in Nat /\ received \in Nat /\ received <= valid /\ aged \in Nat
    BY DEF TypeOK, Tokens
  <1>3. \A c \in Copies : c.doc.token \in Nat
    BY <1>1, DocumentTypes
  <1>4. \A r \in Rows : r.doc.token \in Nat
    BY <1>1, DocumentTypes
  <1> QED
    BY <1>2, <1>3, <1>4, SeenType, HeldType DEF TypeOK

(* Only the newest token received can be the one the provider accepts.     *)
LEMMA SpendsNewest ==
    ASSUME TypeOK, CopiesKeepTokens, NEW r \in Refreshers, Rotate(r)
    PROVE  /\ received = valid /\ pc[r] = "spend" /\ copy[r].doc.token = received
           /\ received' = received + 1
  <1>1. copy[r] \in Held \ {Absent}
    BY ConstantsType, CopiesAssumption DEF TypeOK, Held
  <1>2. /\ copy[r].doc.token <= received
        /\ copy[r].doc.token = valid /\ pc[r] = "spend" /\ received' = valid + 1
    BY <1>1 DEF CopiesKeepTokens, CopyKeepsToken, Rotate, Issue
  <1> QED
    BY <1>2, TokenTypes

LEMMA NextValid ==
    ASSUME TypeOK, CopiesKeepTokens, [Next]_vars
    PROVE  StepValid
  <1>1. ASSUME NEW r \in Refreshers, RefreshStep(r) PROVE StepValid
    <2>1. CASE Rotate(r)
      BY <2>1, SpendsNewest DEF Rotate, StepValid
    <2>2. CASE ~Rotate(r)
      BY <1>1, <2>2 DEF RefreshStep, Start, Claim, Adopt, ClaimRefused, ClaimFails, RefusedToken,
           Unreached, AnswerLost, Recover, RecoverFails, KeepLocal, Release, ReleaseFails, world, StepValid
    <2> QED
      BY <2>1, <2>2
  <1>2. ASSUME NEW t \in Tasks, SaveStep(t) PROVE received' = received
    BY <1>2 DEF SaveStep, Latest, LatestFails, Install, Classify, CompareAndSwap,
           WriteFails, HangUp, RecordWrite, ResolveConflict, RereadFails, Undo, world
  <1>3. CASE (\E n \in Nodes : NodeStep(n)) \/ (\E e \in Editors : Edit(e)) \/ Age \/ Expire
             \/ UNCHANGED vars
    BY <1>3 DEF NodeStep, Sync, ReadMirror, Reload, Delete, Edit, Age, Expire, vars, world, StepValid
  <1> QED
    BY <1>1, <1>2, <1>3 DEF Next, StepValid

(* Wherever a copy comes from, its token is as new as the row's.           *)
LEMMA OriginKeepsToken ==
    ASSUME TypeOK, CopyInv, TokenInv, StepValid, NEW c, Origin(c), c # Absent
    PROVE  /\ c.doc.token <= received'
           /\ row.live /\ c.ver = row.ver => row.doc.token <= c.doc.token
           /\ c.doc.token \in Nat
  <1>0. /\ received \in Nat /\ received' \in {received, received + 1} /\ row.doc.token \in Nat
        /\ valid \in Nat /\ received <= valid /\ received >= 1 /\ row.doc.token <= received
    BY TokenTypes, SeenFacts DEF TokenInv, SeenTokens, StepValid, TypeOK, Tokens
  <1>1. CASE c \in Held
    BY <1>0, <1>1, TokenTypes DEF TokenInv, CopiesKeepTokens, CopyKeepsToken
  <1>2. CASE c = NewCopy
    BY <1>0, <1>2 DEF CopyInv, FirstRow, NewCopy, NewDoc
  <1>3. CASE \E a \in Seen : a.live /\ c = CopyOf(a)
    <2>1. PICK a \in Seen : a.live /\ c = CopyOf(a)
      BY <1>3
    <2>2. c.ver = a.ver /\ c.doc = a.doc /\ a.doc.token \in Nat
      BY <2>1, TokenTypes DEF CopyOf
    <2>3. a.ver = row.ver => a = row
      BY SeenFacts DEF CopyInv, OneRowPerVersion
    <2>4. a.doc.token <= received
      BY DEF TokenInv, SeenTokens
    <2> QED
      BY <1>0, <2>2, <2>3, <2>4
  <1>4. CASE \E t \in Tasks : /\ pc[t] = "latest" /\ row.live
                              /\ c = [ver |-> row.ver, doc |-> Change(t, row.doc)]
    <2>1. PICK t \in Tasks : pc[t] = "latest" /\ c = [ver |-> row.ver, doc |-> Change(t, row.doc)]
      BY <1>4
    <2>2. row.doc \in Docs
      BY DocumentTypes DEF TypeOK
    <2>3. CASE t \in Editors
      <3>1. c.doc.token = row.doc.token
        BY <2>1, <2>2, <2>3 DEF Change, Docs
      <3> QED
        BY <1>0, <3>1
    <2>4. CASE t \in Refreshers
      <3>1. c.doc.token = fresh[t].doc.token
        BY <2>1, <2>2, <2>4, ConstantsType DEF Change, Docs
      <3>2. fresh[t].doc.token = received
        BY <2>1, <2>4 DEF TokenInv, Savers, Saver, Saving
      <3> QED
        BY <1>0, <3>1, <3>2
    <2> QED
      BY <2>3, <2>4 DEF Tasks
  <1>5. CASE \E r \in Refreshers : received' = valid + 1 /\ c = [copy[r] EXCEPT !.doc.token = valid + 1]
    <2>1. PICK r \in Refreshers : received' = valid + 1 /\ c = [copy[r] EXCEPT !.doc.token = valid + 1]
      BY <1>5
    <2>2. copy[r] \in Copies
      BY ConstantsType DEF TypeOK
    <2>3. c.doc.token = valid + 1
      BY <2>1, <2>2 DEF Copies, Docs
    <2> QED
      BY <1>0, <2>1, <2>3
  <1> QED
    BY <1>1, <1>2, <1>3, <1>4, <1>5 DEF Origin

LEMMA RowKeepsToken ==
    ASSUME TypeOK, CopyInv, TokenInv, StepRow
    PROVE  /\ row'.doc.token \in Nat /\ row'.doc.token <= received
           /\ row'.live => row.live /\ row.doc.token <= row'.doc.token
  <1>0. received \in Nat /\ received >= 1 /\ row.doc.token \in Nat /\ row.doc.token <= received
    BY TokenTypes, SeenFacts DEF TypeOK, Tokens, TokenInv, SeenTokens
  <1>1. CASE row' = row
    BY <1>0, <1>1
  <1>2. CASE row' # row /\ row'.live
    <2>1. row.live
      BY <1>2, RowMoves
    <2>2. PICK t \in Tasks : copy[t].ver = row.ver /\ row'.doc = copy[t].doc
      BY <1>2, RowMoves
    <2>3. copy[t] \in Held \ {Absent} /\ copy[t].doc.token \in Nat
      BY CopiesAssumption, TokenTypes DEF TypeOK, Held
    <2> QED
      BY <1>0, <2>1, <2>2, <2>3 DEF TokenInv, CopiesKeepTokens, CopyKeepsToken
  <1>3. CASE row' # row /\ ~row'.live
    <2>1. row'.doc = NewDoc
      BY <1>3 DEF StepRow, Written
    <2> QED
      BY <1>0, <1>3, <2>1 DEF NewDoc
  <1> QED
    BY <1>1, <1>2, <1>3

LEMMA StepTokens ==
    ASSUME TypeOK, CopyInv, TokenInv, StepRow, StepSeen, StepHeld, StepValid
    PROVE  CopiesKeepTokens' /\ SeenTokens'
  <1>0. /\ received \in Nat /\ received' \in {received, received + 1}
        /\ row'.doc.token \in Nat /\ row'.doc.token <= received
        /\ row.doc.token \in Nat /\ row.ver \in Nat
    BY TokenTypes, RowKeepsToken, RowMoves DEF StepValid
  <1>1. ASSUME NEW c \in Held', c # Absent
        PROVE  CopyKeepsToken(c)'
    <2>1. /\ c.doc.token <= received'
          /\ row.live /\ c.ver = row.ver => row.doc.token <= c.doc.token
      BY <1>1, HeldAfter, OriginKeepsToken
    <2>2. CASE row' = row
      BY <2>1, <2>2 DEF CopyKeepsToken
    <2>3. CASE row'.ver = row.ver + 1
      <3>1. c.ver <= row.ver /\ c.ver \in Nat
        BY <1>1, HeldAfter, OriginKeepsEdits, OriginType DEF CopyKeepsEdits
      <3>2. c.ver # row'.ver
        BY <1>0, <2>3, <3>1
      <3> QED
        BY <2>1, <3>2 DEF CopyKeepsToken
    <2> QED
      BY <2>2, <2>3, RowMoves
  <1>2. ASSUME NEW a \in Seen'
        PROVE  a.doc.token <= received' /\ (row'.live /\ a.live => a.doc.token <= row'.doc.token)
    <2>1. CASE a = row'
      BY <1>0, <2>1
    <2>2. CASE a \in Seen
      <3>1. a.doc.token \in Nat /\ a.doc.token <= received
        BY <2>2, TokenTypes DEF TokenInv, SeenTokens
      <3>2. row.live /\ a.live => a.doc.token <= row.doc.token
        BY <2>2 DEF TokenInv, SeenTokens
      <3> QED
        BY <1>0, <3>1, <3>2, RowKeepsToken
    <2> QED
      BY <2>1, <2>2, SeenBefore
  <1> QED
    BY <1>1, <1>2 DEF CopiesKeepTokens, SeenTokens

(* Giving up and deletion are final.                                       *)
LEMMA FinalFacts ==
    ASSUME TypeOK, [Next]_vars
    PROVE  /\ gaveUp => gaveUp'
           /\ ~row.live => ~row'.live
  <1>1. ~row.live => ~row'.live
    BY StepEffects, RowMoves
  <1>2. ASSUME NEW r \in Refreshers, RefreshStep(r) PROVE gaveUp' = gaveUp
    BY <1>2 DEF RefreshStep, Start, Claim, Adopt, ClaimRefused, ClaimFails, Rotate, Issue, RefusedToken,
           Unreached, AnswerLost, Recover, RecoverFails, KeepLocal, Release, ReleaseFails, history
  <1>3. ASSUME NEW t \in Tasks, SaveStep(t) PROVE gaveUp => gaveUp'
    BY <1>3 DEF SaveStep, Latest, LatestFails, Install, Classify, CompareAndSwap, Retry,
           WriteFails, HangUp, RecordWrite, ResolveConflict, RereadFails, Undo, history
  <1>4. (\E n \in Nodes : NodeStep(n)) \/ (\E e \in Editors : Edit(e)) \/ Age \/ Expire
             \/ UNCHANGED vars => gaveUp' = gaveUp
    BY DEF NodeStep, Sync, ReadMirror, Reload, Delete, Edit, Age, Expire, vars, history
  <1> QED
    BY <1>1, <1>2, <1>3, <1>4 DEF Next

(* A refresh that does not move, while the provider and the clock do not.  *)
LEMMA SaverFrame ==
    ASSUME NEW r \in Refreshers, Saver(r),
           pc'[r] = pc[r], copy'[r] = copy[r], result'[r] = result[r], fresh'[r] = fresh[r],
           UNCHANGED <<received, aged>>, gaveUp => gaveUp', ~row.live => ~row'.live
    PROVE  Saver(r)'
  BY DEF Saver

LEMMA RefreshSavers ==
    ASSUME TypeOK, TokenInv, NEW r \in Refreshers, RefreshStep(r)
    PROVE  Savers'
  <1>0. /\ received \in Nat /\ aged \in Nat /\ aged <= received
        /\ gaveUp => gaveUp'
        /\ ~row.live => ~row'.live
        /\ \A q \in Refreshers : Saver(q)
        /\ r \in Tasks
    BY TokenTypes, FinalFacts, ConstantsType DEF TokenInv, Savers, Next
  <1>1. \A q \in Refreshers : q # r =>
            pc'[q] = pc[q] /\ copy'[q] = copy[q] /\ result'[q] = result[q] /\ fresh'[q] = fresh[q]
    BY RefreshLocal, ConstantsType
  <1>2. CASE Rotate(r)
    <2>0. /\ received = valid /\ pc[r] = "spend" /\ copy[r].doc.token = received
          /\ received' = received + 1
      BY <1>2, SpendsNewest DEF TokenInv
    <2>1. /\ copy[r].doc.token = received /\ pc[r] = "spend"
          /\ received' = received + 1 /\ UNCHANGED <<aged, gaveUp, row>>
          /\ copy' = [copy EXCEPT ![r].doc.token = received + 1]
          /\ fresh' = [fresh EXCEPT ![r] = copy'[r]]
          /\ pc' = [pc EXCEPT ![r] = "install"]
      BY <1>2, <2>0 DEF Rotate, Goto, cluster
    <2>2. aged = received
      BY <1>0, <2>1 DEF Saver
    <2>3. ASSUME NEW q \in Refreshers, q # r PROVE Saver(q)'
      <3>1. pc[q] \notin Saving
        BY <1>0, <2>2 DEF Saver
      <3> QED
        BY <1>0, <1>1, <2>1, <2>3, <3>1 DEF Saver, Saving, Attempt
    <2>4. copy'[r].doc.token = received + 1
      <3>1. copy[r] \in Copies
        BY <1>0 DEF TypeOK
      <3>2. copy'[r] = [copy[r] EXCEPT !.doc.token = received + 1]
        BY <1>0, <2>1 DEF TypeOK
      <3> QED
        BY <3>1, <3>2 DEF Copies, Docs
    <2>5. fresh'[r] = copy'[r] /\ pc'[r] = "install"
      BY <1>0, <2>1 DEF TypeOK
    <2> DEFINE token == copy'[r].doc.token
    <2>6. fresh'[r].doc.token = token /\ pc'[r] = "install" /\ token = received'
      BY <2>1, <2>4, <2>5
    <2>7. aged' < received'
      BY <1>0, <2>1, <2>2
    <2>8. Saver(r)'
      BY <2>6, <2>7 DEF Saver, Saving, Attempt
    <2> QED
      BY <2>3, <2>8 DEF Savers
  <1>3. CASE ~Rotate(r)
    <2>1. UNCHANGED <<received, aged>>
      BY <1>3 DEF RefreshStep, Start, Claim, Adopt, ClaimRefused, ClaimFails, RefusedToken,
           Unreached, AnswerLost, Recover, RecoverFails, KeepLocal, Release, ReleaseFails, world
    <2>2. ASSUME NEW q \in Refreshers, q # r PROVE Saver(q)'
      BY <1>0, <1>1, <2>1, <2>2, SaverFrame
    <2>3. pc'[r] \notin Saving
          /\ (pc'[r] \in {"claim", "spend"} => copy'[r].doc.token <= aged)
      <3>1. CASE Start(r)
        BY <1>0, <3>1 DEF Start, Goto, Due, TypeOK, Saving
      <3>2. CASE Claim(r)
        BY <1>0, <3>2 DEF Claim, Goto, TypeOK, Saving, Saver
      <3>3. CASE Adopt(r)
        BY <1>0, <3>3 DEF Adopt, Goto, Due, TypeOK, Saving, task
      <3>4. CASE ClaimRefused(r) \/ ClaimFails(r) \/ Release(r) \/ ReleaseFails(r)
        BY <1>0, <3>4 DEF ClaimRefused, ClaimFails, Release, ReleaseFails, Finish, Goto, TypeOK, Saving
      <3>5. CASE RefusedToken(r) \/ Unreached(r) \/ AnswerLost(r) \/ Recover(r) \/ RecoverFails(r) \/ KeepLocal(r)
        BY <1>0, <3>5 DEF RefusedToken, Unreached, AnswerLost, Recover, RecoverFails, KeepLocal, Goto, TypeOK, Saving
      <3> QED
        BY <1>3, <3>1, <3>2, <3>3, <3>4, <3>5 DEF RefreshStep
    <2>4. Saver(r)'
      BY <2>1, <2>3 DEF Saver, Saving, Attempt
    <2> QED
      BY <2>2, <2>4 DEF Savers
  <1> QED
    BY <1>2, <1>3

(* A step of a save by a refresh.                                          *)
LEMMA SaveSaver ==
    ASSUME TypeOK, CopyInv, TokenInv, NEW r \in Refreshers, SaveStep(r)
    PROVE  Saver(r)'
  <1>0. /\ r \in Tasks /\ r \notin Editors /\ r \in Background \cup Management
        /\ fresh' = fresh /\ UNCHANGED <<received, aged>> /\ Saver(r)
        /\ pc[r] \in Saving
    <2>1. UNCHANGED <<received, aged>>
      BY DEF SaveStep, Latest, LatestFails, Install, Classify, CompareAndSwap,
           WriteFails, HangUp, RecordWrite, ResolveConflict, RereadFails, Undo, world
    <2>2. pc[r] \in Saving
      BY DEF SaveStep, Latest, LatestFails, Install, Classify, CompareAndSwap, Saving,
           WriteFails, HangUp, RecordWrite, ResolveConflict, RereadFails, Undo
    <2> QED
      BY <2>1, <2>2, ConstantsType, SaveLocal DEF TokenInv, Savers, Refreshers
  <1>1. fresh'[r].doc.token = received' /\ aged' < received'
    BY <1>0 DEF Saver
  <1>2. CASE Latest(r)
    <2>1. CASE row.live
      <3>1. pc'[r] = "install" /\ copy'[r].doc = Change(r, row.doc)
        BY <1>0, <1>2, <2>1 DEF Latest, Goto, TypeOK
      <3>2. row.doc \in Docs
        BY DocumentTypes DEF TypeOK
      <3>3. copy'[r].doc.token = fresh[r].doc.token
        BY <1>0, <3>1, <3>2 DEF Change, Docs
      <3> QED
        BY <1>0, <1>1, <3>1, <3>3 DEF Saver, Attempt
    <2>2. CASE ~row.live
      <3>1. pc'[r] = "release"
        BY <1>0, <1>2, <2>2 DEF Latest, Stop, Goto, TypeOK
      <3> QED
        BY <3>1 DEF Saver, Saving, Attempt
    <2> QED
      BY <2>1, <2>2
  <1>3. CASE LatestFails(r)
    <2>1. Retry(r, "error")
      BY <1>3 DEF LatestFails
    <2>2. pc'[r] = "latest" \/ (pc'[r] \in {"keep", "release"} /\ gaveUp')
      BY <1>0, <2>1 DEF Retry, Stop, Goto, TypeOK
    <2> QED
      BY <1>1, <2>2 DEF Saver, Saving, Attempt
  <1>4. CASE Install(r) \/ CompareAndSwap(r)
    <2>1. copy' = copy /\ pc[r] \in Attempt /\ pc'[r] \in Attempt \ {"undo"}
      BY <1>0, <1>4 DEF Install, CompareAndSwap, Goto, TypeOK, Attempt, task
    <2> QED
      BY <1>0, <1>1, <2>1 DEF Saver, Attempt
  <1>5. CASE Classify(r) \/ RecordWrite(r) \/ ResolveConflict(r)
    <2>1. copy' = copy /\ pc[r] \in Attempt /\ row' = row
      BY <1>5 DEF Classify, RecordWrite, ResolveConflict, Attempt, cluster
    <2>2. \/ pc'[r] \in {"release", "write"}
          \/ pc'[r] = "undo" /\ result'[r] = "conflict"
          \/ pc'[r] = "undo" /\ result'[r] = "gone" /\ (~row.live \/ ~known[Home[r]].live)
      BY <1>0, <1>5 DEF Classify, RecordWrite, ResolveConflict, Saved, NotSaved, Goto, TypeOK
    <2>3. ~known[Home[r]].live => ~row.live
      BY <1>0, SeenFacts, ConstantsType DEF CopyInv, OneRowPerVersion
    <2> QED
      BY <1>0, <1>1, <2>1, <2>2, <2>3 DEF Saver, Attempt, Saving
  <1>6. CASE WriteFails(r) \/ RereadFails(r)
    <2>1. copy' = copy /\ pc[r] \in Attempt /\ NotSaved(r, "error")
      BY <1>6 DEF WriteFails, RereadFails, Attempt
    <2>2. pc'[r] = "undo" /\ result'[r] = "error"
      BY <1>0, <2>1 DEF NotSaved, Goto, TypeOK
    <2> QED
      BY <1>0, <1>1, <2>1, <2>2 DEF Saver, Attempt
  <1>7. CASE HangUp(r)
    <2>0. r \in Management
      BY <1>0, <1>7 DEF HangUp
    <2>1. CASE pc[r] = "write"
      <3>1. copy' = copy /\ pc[r] \in Attempt /\ NotSaved(r, "cancelled")
        BY <1>7, <2>1 DEF HangUp, Attempt
      <3>2. pc'[r] = "undo" /\ result'[r] = "cancelled"
        BY <1>0, <3>1 DEF NotSaved, Goto, TypeOK
      <3> QED
        BY <1>0, <1>1, <2>0, <3>1, <3>2 DEF Saver, Attempt
    <2>2. CASE pc[r] = "latest"
      <3>1. Stop(r, "cancelled") /\ gaveUp'
        BY <1>7, <2>2 DEF HangUp
      <3>2. pc'[r] = "release"
        BY <1>0, <2>0, <3>1, TasksAssumption DEF Stop, Goto, TypeOK
      <3> QED
        BY <3>2 DEF Saver, Saving, Attempt
    <2> QED
      BY <1>7, <2>1, <2>2 DEF HangUp
  <1>8. CASE Undo(r)
    <2>1. Retry(r, result[r]) /\ pc[r] = "undo"
      BY <1>8 DEF Undo
    <2>2. result[r] \in {"conflict", "error", "gone", "cancelled"}
      BY <1>0, <2>1 DEF Saver
    <2>3. \/ pc'[r] \in {"latest", "release"}
          \/ pc'[r] = "keep" /\ gaveUp'
      BY <1>0, <2>1, <2>2 DEF Retry, Stop, Goto, TypeOK
    <2> QED
      BY <1>1, <2>3 DEF Saver, Saving, Attempt
  <1> QED
    BY <1>2, <1>3, <1>4, <1>5, <1>6, <1>7, <1>8 DEF SaveStep

LEMMA NextSavers ==
    ASSUME TypeOK, CopyInv, TokenInv, [Next]_vars
    PROVE  Savers' /\ aged' <= received'
  <1>0. /\ gaveUp => gaveUp'
        /\ ~row.live => ~row'.live
        /\ \A q \in Refreshers : Saver(q)
        /\ received \in Nat /\ aged \in Nat /\ aged <= received
    BY FinalFacts, TokenTypes DEF TokenInv, Savers
  <1>1. ASSUME NEW r \in Refreshers, RefreshStep(r) PROVE Savers'
    BY <1>1, RefreshSavers
  <1>2. ASSUME NEW t \in Tasks, SaveStep(t) PROVE Savers'
    <2>1. UNCHANGED <<received, aged>>
      BY <1>2 DEF SaveStep, Latest, LatestFails, Install, Classify, CompareAndSwap,
           WriteFails, HangUp, RecordWrite, ResolveConflict, RereadFails, Undo, world
    <2>2. ASSUME NEW q \in Refreshers, q # t PROVE Saver(q)'
      <3>1. pc'[q] = pc[q] /\ copy'[q] = copy[q] /\ result'[q] = result[q] /\ fresh'[q] = fresh[q]
        BY <1>2, <2>2, SaveLocal, ConstantsType
      <3> QED
        BY <1>0, <2>1, <3>1, SaverFrame
    <2>3. t \in Refreshers => Saver(t)'
      BY <1>2, SaveSaver
    <2> QED
      BY <2>2, <2>3 DEF Savers
  <1>3. ASSUME NEW e \in Editors, Edit(e) PROVE Savers'
    <2>1. UNCHANGED <<received, aged, copy, result, fresh>>
      BY <1>3 DEF Edit, world
    <2>2. \A q \in Refreshers : pc'[q] = pc[q]
      BY <1>3, ConstantsType DEF Edit, Goto, TypeOK
    <2> QED
      BY <1>0, <2>1, <2>2, SaverFrame DEF Savers
  <1>4. ASSUME (\E n \in Nodes : NodeStep(n)) \/ Expire \/ UNCHANGED vars PROVE Savers'
    <2>1. UNCHANGED <<received, aged, pc, copy, result, fresh>>
      BY <1>4 DEF NodeStep, Sync, ReadMirror, Reload, Delete, Expire, vars, world, task
    <2> QED
      BY <1>0, <2>1, SaverFrame DEF Savers
  <1>5. ASSUME Age PROVE Savers'
    <2>1. /\ UNCHANGED <<received, pc, copy, result, fresh, row, gaveUp>>
          /\ aged' = received /\ aged < received
      BY <1>5 DEF Age, cluster, task, history
    <2>2. ASSUME NEW q \in Refreshers PROVE Saver(q)'
      <3>1. pc[q] \notin Saving
        BY <1>5 DEF Age
      <3>2. pc[q] \in {"claim", "spend"} => copy[q].doc.token <= received
        <4>1. copy[q].doc.token \in Nat
          BY TokenTypes, ConstantsType
        <4> QED
          BY <1>0, <2>1, <4>1 DEF Saver
      <3> QED
        BY <2>1, <3>1, <3>2 DEF Saver, Saving, Attempt
    <2> QED
      BY <2>2 DEF Savers
  <1>6. aged' <= received'
    <2>1. CASE Age
      BY <1>0, <2>1 DEF Age
    <2>2. CASE ~Age
      <3>1. aged' = aged
        BY <2>2 DEF Next, RefreshStep, Start, Claim, Adopt, ClaimRefused, ClaimFails, Rotate, Issue, RefusedToken,
           Unreached, AnswerLost, Recover, RecoverFails, KeepLocal, Release, ReleaseFails,
           SaveStep, Latest, LatestFails, Install, Classify, CompareAndSwap,
           WriteFails, HangUp, RecordWrite, ResolveConflict, RereadFails, Undo,
           NodeStep, Sync, ReadMirror, Reload, Delete, Edit, Expire, vars, world
      <3>2. received' \in {received, received + 1}
        BY NextValid DEF TokenInv, StepValid
      <3> QED
        BY <1>0, <3>1, <3>2
    <2> QED
      BY <2>1, <2>2
  <1> QED
    BY <1>1, <1>2, <1>3, <1>4, <1>5, <1>6 DEF Next

LEMMA NextTokens ==
    ASSUME TypeOK, CopyInv, TokenInv, [Next]_vars
    PROVE  TokenInv'
  <1>1. StepRow /\ StepSeen /\ StepHeld /\ StepValid
    BY StepEffects, NextValid DEF TokenInv
  <1> QED
    BY <1>1, StepTokens, NextSavers DEF TokenInv

LEMMA InitTokens ==
    Init => TokenInv
  <1> SUFFICES ASSUME Init PROVE TokenInv
    OBVIOUS
  <1>1. Held \subseteq {NewCopy, Absent} /\ Seen = {row}
    BY DEF Init, Held, Seen
  <1>2. row = [ver |-> 1, doc |-> NewDoc, live |-> TRUE] /\ received = 1 /\ aged = 0
        /\ \A r \in Refreshers : pc[r] = "idle"
    BY ConstantsType DEF Init
  <1>3. CopiesKeepTokens /\ SeenTokens
    BY <1>1, <1>2 DEF CopiesKeepTokens, CopyKeepsToken, SeenTokens, NewCopy, NewDoc
  <1>4. Savers /\ aged <= received
    BY <1>2 DEF Savers, Saver, Saving, Attempt
  <1> QED
    BY <1>3, <1>4 DEF TokenInv

(* A refresh that stops saving has saved, unless it gave up or the         *)
(* credential is gone.                                                     *)
LEMMA LeavesSaving ==
    ASSUME TypeOK, CopyInv, TokenInv, [Next]_vars,
           NEW q \in Refreshers, pc[q] \in Saving, pc'[q] \notin Saving,
           row.live, ~gaveUp'
    PROVE  pc[q] \in Attempt /\ \E a \in Seen : a.live /\ a.doc = copy[q].doc
  <1>0. /\ q \in Tasks /\ q \notin Editors /\ q \in Background \cup Management
        /\ ~gaveUp /\ Saver(q)
    BY ConstantsType, FinalFacts DEF TokenInv, Savers, Refreshers
  <1>1. ASSUME NEW r \in Refreshers, RefreshStep(r) PROVE FALSE
    <2>1. r = q
      BY <1>0, <1>1, RefreshLocal
    <2>2. pc[q] = "keep"
      BY <1>1, <2>1 DEF RefreshStep, Start, Claim, Adopt, ClaimRefused, ClaimFails, Rotate, Issue, RefusedToken,
           Unreached, AnswerLost, Recover, RecoverFails, KeepLocal, Release, ReleaseFails, Saving
    <2> QED
      BY <1>0, <2>2 DEF Saver
  <1>2. ASSUME NEW t \in Tasks, SaveStep(t)
        PROVE  pc[q] \in Attempt /\ \E a \in Seen : a.live /\ a.doc = copy[q].doc
    <2>1. t = q
      BY <1>0, <1>2, SaveLocal
    <2>2. CASE Latest(q) \/ Install(q) \/ CompareAndSwap(q)
      BY <1>0, <2>2 DEF Latest, Install, CompareAndSwap, Goto, TypeOK, Saving
    <2>3. CASE LatestFails(q)
      BY <1>0, <2>3 DEF LatestFails, Retry, Stop, Goto, TypeOK, Saving
    <2>4. CASE WriteFails(q) \/ RereadFails(q)
      BY <1>0, <2>4 DEF WriteFails, RereadFails, NotSaved, Goto, TypeOK, Saving
    <2>5. CASE HangUp(q)
      BY <1>0, <2>5 DEF HangUp, NotSaved, Goto, TypeOK, Saving
    <2>6. CASE Undo(q)
      <3>1. pc[q] = "undo" /\ Retry(q, result[q])
        BY <2>6 DEF Undo
      <3>2. result[q] # "gone"
        BY <1>0, <3>1 DEF Saver
      <3>3. pc' = [pc EXCEPT ![q] = "latest"]
        BY <1>0, <3>1, <3>2 DEF Retry, Goto
      <3> QED
        BY <1>0, <3>3 DEF TypeOK, Saving
    <2>7. CASE Classify(q) \/ RecordWrite(q) \/ ResolveConflict(q)
      <3>1. Saved(q)
        BY <1>0, <2>7 DEF Classify, RecordWrite, ResolveConflict, NotSaved, Goto, TypeOK, Saving
      <3> QED
        BY <1>0, <2>7, <3>1, SavedIsSeen
    <2> QED
      BY <1>2, <2>1, <2>2, <2>3, <2>4, <2>5, <2>6, <2>7 DEF SaveStep
  <1>3. ASSUME NEW e \in Editors, Edit(e) PROVE FALSE
    BY <1>0, <1>3, ConstantsType DEF Edit, Goto, TypeOK
  <1>4. ASSUME (\E n \in Nodes : NodeStep(n)) \/ Age \/ Expire \/ UNCHANGED vars PROVE FALSE
    BY <1>4 DEF NodeStep, Sync, ReadMirror, Reload, Delete, Age, Expire, vars
  <1> QED
    BY <1>1, <1>2, <1>3, <1>4 DEF Next

(* While a refresh saves, its result stays what the provider answered.     *)
LEMMA KeepsSaving ==
    ASSUME TypeOK, [Next]_vars, NEW q \in Refreshers, pc[q] \in Saving
    PROVE  fresh'[q] = fresh[q]
  <1>1. ASSUME NEW r \in Refreshers, RefreshStep(r) PROVE fresh'[q] = fresh[q]
    <2>1. CASE r = q
      <3>1. KeepLocal(q)
        BY <1>1, <2>1 DEF RefreshStep, Start, Claim, Adopt, ClaimRefused, ClaimFails, Rotate, Issue,
           RefusedToken, Unreached, AnswerLost, Recover, RecoverFails, Release, ReleaseFails, Saving
      <3> QED
        BY <3>1 DEF KeepLocal, task
    <2> QED
      BY <1>1, <2>1, RefreshLocal
  <1>2. ASSUME NEW t \in Tasks, SaveStep(t) PROVE fresh' = fresh
    BY <1>2, SaveLocal
  <1>3. (\E e \in Editors : Edit(e)) \/ (\E n \in Nodes : NodeStep(n)) \/ Age \/ Expire
          \/ UNCHANGED vars => fresh' = fresh
    BY DEF Edit, NodeStep, Sync, ReadMirror, Reload, Delete, Age, Expire, vars, task
  <1> QED
    BY <1>1, <1>2, <1>3 DEF Next

LEMMA NextRotation ==
    ASSUME TypeOK, CopyInv, TokenInv, RotationKept, [Next]_vars
    PROVE  RotationKept'
  <1> SUFFICES ASSUME row'.live, ~gaveUp', row'.doc.token # received'
               PROVE  \E r \in Refreshers : pc'[r] \in Saving /\ fresh'[r].doc.token = received'
    BY DEF RotationKept
  <1>0. /\ row.live /\ ~gaveUp
        /\ received \in Nat /\ row.doc.token \in Nat /\ row'.doc.token \in Nat
        /\ row.doc.token <= row'.doc.token /\ row'.doc.token <= received
    BY FinalFacts, TokenTypes, StepEffects, RowKeepsToken
  <1>1. CASE \E r \in Refreshers : Rotate(r)
    <2>1. PICK r \in Refreshers : Rotate(r)
      BY <1>1
    <2>2. pc'[r] = "install" /\ fresh'[r] = copy'[r] /\ received' = valid + 1
      BY <2>1, ConstantsType DEF Rotate, Issue, Goto, TypeOK
    <2>3. copy[r] \in Copies /\ copy'[r] = [copy[r] EXCEPT !.doc.token = valid + 1]
      BY <2>1, ConstantsType DEF Rotate, Issue, TypeOK
    <2>4. copy'[r].doc.token = valid + 1
      BY <2>3 DEF Copies, Docs
    <2> QED
      BY <2>2, <2>4 DEF Saving
  <1>2. CASE ~\E r \in Refreshers : Rotate(r)
    <2>1. received' = received
      BY <1>2 DEF Next, RefreshStep, Start, Claim, Adopt, ClaimRefused, ClaimFails, RefusedToken,
           Unreached, AnswerLost, Recover, RecoverFails, KeepLocal, Release, ReleaseFails,
           SaveStep, Latest, LatestFails, Install, Classify, CompareAndSwap,
           WriteFails, HangUp, RecordWrite, ResolveConflict, RereadFails, Undo,
           NodeStep, Sync, ReadMirror, Reload, Delete, Edit, Age, Expire, vars, world
    <2>2. row.doc.token # received
      BY <1>0, <2>1
    <2>3. PICK q \in Refreshers : pc[q] \in Saving /\ fresh[q].doc.token = received
      BY <1>0, <2>2 DEF RotationKept
    <2>4. fresh'[q].doc.token = received'
      BY <2>1, <2>3, KeepsSaving
    <2>5. pc'[q] \in Saving
      <3> SUFFICES ASSUME pc'[q] \notin Saving PROVE FALSE
        OBVIOUS
      <3>1. pc[q] \in Attempt /\ \E a \in Seen : a.live /\ a.doc = copy[q].doc
        BY <1>0, <2>3, LeavesSaving
      <3>2. PICK a \in Seen : a.live /\ a.doc = copy[q].doc
        BY <3>1
      <3>3. a.doc.token = received
        BY <2>3, <3>1, <3>2 DEF TokenInv, Savers, Saver
      <3>4. a.doc.token <= row.doc.token /\ row.doc.token <= received
        BY <1>0, <3>2, SeenFacts DEF TokenInv, SeenTokens
      <3> QED
        BY <1>0, <2>2, <3>3, <3>4
    <2> QED
      BY <2>4, <2>5
  <1> QED
    BY <1>1, <1>2

LEMMA TokenInvariant ==
    Spec => [](TypeOK /\ CopyInv /\ TokenInv /\ RotationKept)
  <1>1. TypeOK /\ CopyInv /\ TokenInv /\ RotationKept /\ [Next]_vars
            => TokenInv' /\ RotationKept'
    BY NextTokens, NextRotation
  <1>2. Init => TokenInv /\ RotationKept
    <2>1. Init => RotationKept
      BY DEF Init, RotationKept, NewDoc
    <2> QED
      BY <2>1, InitTokens
  <1> QED
    BY <1>1, <1>2, CopyInvariant, PTL DEF Spec

(* A token received from the provider reaches the database, whatever edits *)
(* and refreshes race with its save, whatever answers of the database are  *)
(* lost and however long the refreshes take: a refresh stops saving only   *)
(* once the row holds the token, the credential is gone or it reports that *)
(* it could not save (UpdateRefreshed, persistRefreshResult).              *)
THEOREM RotationIsKept ==
    Spec => []RotationKept
  BY TokenInvariant, PTL

-----------------------------------------------------------------------------
(* Who spends a token.  The lease belongs to a process, so the theorem is  *)
(* for processes that run one refresh of the credential at a time.         *)

OneRefreshPerNode == \A r, q \in Refreshers : Home[r] = Home[q] => r = q

(* A refresh past its claim has the lease, and is the only one, as long as *)
(* refreshes end within their lease.                                       *)
Holders ==
    ~overran =>
        /\ \A r \in Refreshers : pc[r] \in Holding /\ row.live => lease = Home[r]
        /\ \A r, q \in Refreshers : pc[r] \in Holding /\ pc[q] \in Holding => r = q

(* It spends the newest token received, which nobody has presented yet     *)
(* unless the answer was lost.                                             *)
Spends ==
    (~gaveUp /\ ~overran) =>
        /\ \A r \in Refreshers :
              pc[r] \in {"adopt", "spend"} => copy[r].doc.token = received
        /\ \A k \in Tokens : received = valid /\ k >= received => spenders[k] = {}
        /\ \A k \in Tokens : k < received =>
              spenders[k] = {} \/ \E n \in Nodes : spenders[k] = {n}

(* A lease that ran out early stays recorded, and only Expire records it.  *)
LEMMA OverranMoves ==
    ASSUME [Next]_vars
    PROVE  /\ overran => overran'
           /\ ~Expire => overran' = overran
  <1>1. ASSUME NEW r \in Refreshers, RefreshStep(r) PROVE overran' = overran
    BY <1>1 DEF RefreshStep, Start, Claim, Adopt, ClaimRefused, ClaimFails, Rotate, Issue, RefusedToken,
           Unreached, AnswerLost, Recover, RecoverFails, KeepLocal, Release, ReleaseFails, world
  <1>2. ASSUME NEW t \in Tasks, SaveStep(t) PROVE overran' = overran
    BY <1>2 DEF SaveStep, Latest, LatestFails, Install, Classify, CompareAndSwap,
           WriteFails, HangUp, RecordWrite, ResolveConflict, RereadFails, Undo, world
  <1>3. (\E n \in Nodes : NodeStep(n)) \/ (\E e \in Editors : Edit(e)) \/ Age
             \/ UNCHANGED vars => overran' = overran
    BY DEF NodeStep, Sync, ReadMirror, Reload, Delete, Edit, Age, vars, world
  <1>4. Expire => (overran => overran')
    BY DEF Expire
  <1> QED
    BY <1>1, <1>2, <1>3, <1>4 DEF Next

(* Only a claim makes a refresh a holder.                                  *)
LEMMA BecomesHolder ==
    ASSUME TypeOK, [Next]_vars, NEW q \in Refreshers, pc[q] \notin Holding, pc'[q] \in Holding
    PROVE  Claim(q)
  <1>0. q \in Tasks /\ q \notin Editors
    BY ConstantsType
  <1>1. ASSUME NEW r \in Refreshers, RefreshStep(r) PROVE Claim(q)
    <2>1. r = q
      BY <1>0, <1>1, RefreshLocal
    <2>2. ~(Adopt(q) \/ Rotate(q) \/ RefusedToken(q) \/ Unreached(q) \/ AnswerLost(q) \/ Recover(q)
              \/ RecoverFails(q) \/ KeepLocal(q) \/ Release(q) \/ ReleaseFails(q))
      BY DEF Adopt, Rotate, Issue, RefusedToken, Unreached, AnswerLost, Recover, RecoverFails, KeepLocal,
             Release, ReleaseFails, Holding, Saving
    <2>3. ~(Start(q) \/ ClaimRefused(q) \/ ClaimFails(q))
      BY <1>0 DEF Start, ClaimRefused, ClaimFails, Goto, TypeOK, Holding, Saving
    <2> QED
      BY <1>1, <2>1, <2>2, <2>3 DEF RefreshStep
  <1>2. ASSUME NEW t \in Tasks, SaveStep(t) PROVE FALSE
    <2>1. t = q
      BY <1>0, <1>2, SaveLocal
    <2> QED
      BY <1>2, <2>1 DEF SaveStep, Latest, LatestFails, Install, Classify, CompareAndSwap,
           WriteFails, HangUp, RecordWrite, ResolveConflict, RereadFails, Undo, Holding, Saving
  <1>3. ASSUME NEW e \in Editors, Edit(e) PROVE FALSE
    BY <1>0, <1>3, ConstantsType DEF Edit, Goto, TypeOK
  <1>4. ASSUME (\E n \in Nodes : NodeStep(n)) \/ Age \/ Expire \/ UNCHANGED vars PROVE FALSE
    BY <1>4 DEF NodeStep, Sync, ReadMirror, Reload, Delete, Age, Expire, vars
  <1> QED
    BY <1>1, <1>2, <1>3, <1>4 DEF Next

(* A claim that is allowed finds no other holder.                          *)
LEMMA ClaimIsAlone ==
    ASSUME OneRefreshPerNode, Holders, ~overran, NEW r \in Refreshers, pc[r] \notin Holding,
           MayClaim(Home[r])
    PROVE  \A q \in Refreshers : pc[q] \notin Holding
  <1> SUFFICES ASSUME NEW q \in Refreshers, pc[q] \in Holding PROVE FALSE
    OBVIOUS
  <1>1. row.live /\ lease \in {Absent, Home[r]} /\ lease = Home[q]
    BY DEF MayClaim, Holders
  <1>2. Home[q] \in Nodes /\ Absent \notin Nodes
    BY ConstantsType
  <1>3. q = r
    BY <1>1, <1>2 DEF OneRefreshPerNode
  <1> QED
    BY <1>3

(* The lease changes hands only when no refresh that has it goes on.       *)
LEMMA LeaseMoves ==
    ASSUME TypeOK, OneRefreshPerNode, Holders, [Next]_vars, lease' # lease, row'.live,
           ~overran', NEW q \in Refreshers, pc[q] \in Holding
    PROVE  pc'[q] \notin Holding
  <1>0. q \in Tasks /\ row.live /\ ~overran /\ lease = Home[q] /\ Home[q] # Absent
    <2>1. row.live /\ ~overran
      BY FinalFacts, OverranMoves
    <2> QED
      BY <2>1, ConstantsType DEF Holders
  <1>1. ASSUME NEW r \in Refreshers, RefreshStep(r) PROVE pc'[q] \notin Holding
    <2>1. CASE Claim(r) \/ ClaimFails(r)
      <3>1. pc[r] \notin Holding /\ MayClaim(Home[r])
        BY <2>1 DEF Claim, ClaimFails, Holding, Saving
      <3> QED
        BY <1>0, <3>1, ClaimIsAlone
    <2>2. CASE Release(r)
      <3>1. pc[r] = "release" /\ lease = Home[r] /\ pc' = [pc EXCEPT ![r] = "idle"]
        BY <2>2 DEF Release, Finish, Goto
      <3>2. r = q
        BY <1>0, <3>1 DEF OneRefreshPerNode
      <3> QED
        BY <1>0, <3>1, <3>2 DEF TypeOK, Holding, Saving
    <2>3. Claim(r) \/ ClaimFails(r) \/ Release(r)
      BY <1>1 DEF RefreshStep, Start, Adopt, ClaimRefused, Rotate, Issue, RefusedToken,
           Unreached, AnswerLost, Recover, RecoverFails, KeepLocal, ReleaseFails, cluster
    <2> QED
      BY <2>1, <2>2, <2>3
  <1>2. ASSUME NEW t \in Tasks, SaveStep(t) PROVE FALSE
    BY <1>2 DEF SaveStep, Latest, LatestFails, Install, Classify, CompareAndSwap,
           WriteFails, HangUp, RecordWrite, ResolveConflict, RereadFails, Undo, cluster
  <1>3. ASSUME (\E n \in Nodes : NodeStep(n)) \/ Age \/ UNCHANGED vars
               \/ \E e \in Editors : Edit(e)
        PROVE FALSE
    BY <1>3 DEF NodeStep, Sync, ReadMirror, Reload, Delete, Age, Edit, vars, cluster
  <1>4. ASSUME Expire PROVE FALSE
    BY <1>0, <1>4 DEF Expire
  <1> QED
    BY <1>1, <1>2, <1>3, <1>4 DEF Next

LEMMA NextHolders ==
    ASSUME OneRefreshPerNode, TypeOK, Holders, [Next]_vars
    PROVE  Holders'
  <1> SUFFICES ASSUME ~overran' PROVE Holders'
    BY DEF Holders
  <1>0. ~overran
    BY OverranMoves
  <1>1. ASSUME NEW r \in Refreshers, Claim(r) PROVE Holders'
    <2>1. pc[r] = "claim" /\ MayClaim(Home[r]) /\ lease' = Home[r]
      BY <1>1 DEF Claim
    <2>2. \A q \in Refreshers : pc[q] \notin Holding
      BY <1>0, <2>1, ClaimIsAlone DEF Holding, Saving
    <2>3. \A q \in Refreshers : q # r => pc'[q] = pc[q]
      BY <1>1, RefreshLocal, ConstantsType DEF RefreshStep
    <2> QED
      BY <2>1, <2>2, <2>3 DEF Holders
  <1>2. ASSUME \A r \in Refreshers : ~Claim(r) PROVE Holders'
    <2>1. \A q \in Refreshers : pc'[q] \in Holding => pc[q] \in Holding
      BY <1>2, BecomesHolder
    <2>2. ASSUME NEW q \in Refreshers, pc'[q] \in Holding, row'.live PROVE lease' = Home[q]
      <3>1. lease' = lease
        BY <2>1, <2>2, LeaseMoves
      <3>2. row.live
        BY <2>2, FinalFacts
      <3> QED
        BY <1>0, <2>1, <2>2, <3>1, <3>2 DEF Holders
    <2> QED
      BY <1>0, <2>1, <2>2 DEF Holders
  <1> QED
    BY <1>1, <1>2

(* Steps that present no token and claim nothing.                          *)
LEMMA QuietSpends ==
    ASSUME Spends, gaveUp => gaveUp', overran => overran', UNCHANGED <<valid, received, spenders>>,
           \A q \in Refreshers : pc'[q] \in {"adopt", "spend"} =>
                pc[q] \in {"adopt", "spend"} /\ copy'[q] = copy[q]
    PROVE  Spends'
  BY DEF Spends

(* The token a claim finds in the row is the newest, when nobody gave up:  *)
(* a refresh that rotated it and had not saved it would have the lease.    *)
LEMMA ClaimSpends ==
    ASSUME OneRefreshPerNode, TypeOK, CopyInv, TokenInv, RotationKept, Holders, Spends,
           NEW r \in Refreshers, Claim(r)
    PROVE  Spends'
  <1> SUFFICES ASSUME ~gaveUp', ~overran' PROVE Spends'
    BY DEF Spends
  <1>1. /\ pc[r] = "claim" /\ MayClaim(Home[r]) /\ row.live
        /\ UNCHANGED <<valid, received, spenders, gaveUp, overran>>
    BY DEF Claim, MayClaim, world, history
  <1>2. \A q \in Refreshers : pc[q] \notin Holding
    BY <1>1, ClaimIsAlone DEF Holding, Saving
  <1>3. row.doc.token = received
    BY <1>1, <1>2 DEF RotationKept, Holding
  <1>4. \A q \in Refreshers : q # r => pc'[q] = pc[q] /\ copy'[q] = copy[q]
    BY RefreshLocal, ConstantsType DEF RefreshStep
  <1>5. copy'[r].doc.token = received
    <2>0. r \in Tasks /\ copy[r] \in Held /\ copy[r] # Absent /\ copy[r] \in Copies
      BY ConstantsType, CopiesAssumption DEF TypeOK, Held
    <2>1. CASE row.ver > copy[r].ver
      <3>1. copy'[r] = CopyOf(row)
        BY <2>0, <2>1 DEF Claim, TypeOK
      <3> QED
        BY <1>3, <3>1 DEF CopyOf
    <2>2. CASE ~(row.ver > copy[r].ver)
      <3>1. copy'[r] = copy[r]
        BY <2>2 DEF Claim
      <3>2. copy[r].ver <= row.ver /\ row.ver \in Nat /\ copy[r].ver \in Nat
        BY <2>0, DocumentTypes DEF CopyInv, CopiesKeepEdits, CopyKeepsEdits, TypeOK
      <3>3. copy[r].ver = row.ver
        BY <2>2, <3>2
      <3>4. row.doc.token <= copy[r].doc.token /\ copy[r].doc.token <= received
        BY <1>1, <2>0, <3>3 DEF TokenInv, CopiesKeepTokens, CopyKeepsToken
      <3>5. copy[r].doc.token \in Nat /\ received \in Nat
        BY <2>0, TokenTypes
      <3> QED
        BY <1>3, <3>1, <3>4, <3>5
    <2> QED
      BY <2>1, <2>2
  <1>6. \A q \in Refreshers : pc'[q] \in {"adopt", "spend"} => copy'[q].doc.token = received
    BY <1>2, <1>4, <1>5 DEF Holding
  <1> QED
    BY <1>1, <1>6 DEF Spends

LEMMA RotateSpends ==
    ASSUME TypeOK, CopiesKeepTokens, Holders, Spends, NEW r \in Refreshers, Rotate(r)
    PROVE  Spends'
  <1> SUFFICES ASSUME ~gaveUp', ~overran' PROVE Spends'
    BY DEF Spends
  <1>0. received = valid /\ received' = received + 1
    BY SpendsNewest
  <1>1. /\ pc[r] = "spend" /\ copy[r].doc.token = valid /\ valid' = valid + 1
        /\ gaveUp' = gaveUp /\ overran' = overran /\ pc' = [pc EXCEPT ![r] = "install"]
        /\ spenders' = [spenders EXCEPT ![valid] = @ \cup {Home[r]}]
    BY DEF Rotate, Issue, Present, Goto
  <1>2. /\ r \in Tasks /\ Home[r] \in Nodes /\ valid \in Tokens /\ valid \in Nat
        /\ spenders \in [Tokens -> SUBSET Nodes] /\ Tokens \subseteq Nat
    BY ConstantsType DEF TypeOK, Tokens
  <1>3. spenders[valid] = {}
    BY <1>0, <1>1, <1>2 DEF Spends
  <1>4. spenders'[valid] = {Home[r]} /\ \A k \in Tokens : k # valid => spenders'[k] = spenders[k]
    BY <1>1, <1>2, <1>3
  <1>5. \A q \in Refreshers : pc'[q] \notin {"adopt", "spend"}
    <2>1. ASSUME NEW q \in Refreshers, pc[q] \in {"adopt", "spend"} PROVE q = r
      BY <1>1, <2>1 DEF Holders, Holding
    <2> QED
      BY <1>1, <1>2, <2>1, ConstantsType DEF TypeOK
  <1>6. \A k \in Tokens : k >= received' => spenders'[k] = {}
    BY <1>0, <1>1, <1>2, <1>4 DEF Spends
  <1>7. \A k \in Tokens : k < received' => spenders'[k] = {} \/ \E n \in Nodes : spenders'[k] = {n}
    <2> SUFFICES ASSUME NEW k \in Tokens, k < received', k # valid
                 PROVE  spenders'[k] = {} \/ \E n \in Nodes : spenders'[k] = {n}
      BY <1>2, <1>4
    <2>1. k < received
      BY <1>0, <1>2
    <2> QED
      BY <1>1, <1>4, <2>1 DEF Spends
  <1> QED
    BY <1>5, <1>6, <1>7 DEF Spends

(* A presentation that brings nothing is of the newest token received, and *)
(* the answer to it was lost.                                              *)
LEMMA WastedSpends ==
    ASSUME TypeOK, CopiesKeepTokens, Spends, NEW r \in Refreshers,
           RefusedToken(r) \/ AnswerLost(r)
    PROVE  Spends'
  <1> SUFFICES ASSUME ~gaveUp', ~overran' PROVE Spends'
    BY DEF Spends
  <1>1. /\ pc[r] = "spend" /\ Present(r)
        /\ UNCHANGED <<gaveUp, overran, received, copy>>
        /\ \A q \in Refreshers : pc'[q] \in {"adopt", "spend"} => pc[q] \in {"adopt", "spend"}
    BY ConstantsType DEF RefusedToken, AnswerLost, Issue, Goto, TypeOK, world, task
  <1>2. copy[r].doc.token = received
    BY <1>1 DEF Spends
  <1>3. valid \in Nat /\ received \in Nat /\ received <= valid /\ Tokens \subseteq Nat
    BY TokenTypes DEF Tokens
  <1>4. received' # valid'
    <2>1. CASE RefusedToken(r)
      BY <1>1, <1>2, <2>1 DEF RefusedToken, world
    <2>2. CASE AnswerLost(r)
      BY <1>1, <1>2, <1>3, <2>2 DEF AnswerLost, Issue
    <2> QED
      BY <2>1, <2>2
  <1>5. \A k \in Tokens : k # received => spenders'[k] = spenders[k]
    BY <1>1, <1>2 DEF Present, TypeOK
  <1>6. \A k \in Tokens : k < received' => spenders'[k] = {} \/ \E n \in Nodes : spenders'[k] = {n}
    <2> SUFFICES ASSUME NEW k \in Tokens, k < received
                 PROVE  spenders'[k] = {} \/ \E n \in Nodes : spenders'[k] = {n}
      BY <1>1
    <2>1. k # received
      BY <1>3
    <2> QED
      BY <1>1, <1>5, <2>1 DEF Spends
  <1>7. \A q \in Refreshers : pc'[q] \in {"adopt", "spend"} => copy'[q].doc.token = received'
    BY <1>1 DEF Spends
  <1> QED
    BY <1>4, <1>6, <1>7 DEF Spends

LEMMA NextSpends ==
    ASSUME OneRefreshPerNode, TypeOK, CopyInv, TokenInv, RotationKept, Holders, Spends,
           [Next]_vars
    PROVE  Spends'
  <1>0. (gaveUp => gaveUp') /\ (overran => overran')
    BY FinalFacts, OverranMoves
  <1>1. ASSUME NEW r \in Refreshers, RefreshStep(r) PROVE Spends'
    <2>0. r \in Tasks
      BY ConstantsType
    <2>1. CASE Claim(r)
      BY <2>1, ClaimSpends
    <2>2. CASE Rotate(r)
      BY <2>2, RotateSpends DEF TokenInv
    <2>3. CASE RefusedToken(r) \/ AnswerLost(r)
      BY <2>3, WastedSpends DEF TokenInv
    <2>4. CASE ~Claim(r) /\ ~Rotate(r) /\ ~RefusedToken(r) /\ ~AnswerLost(r)
      <3>1. UNCHANGED <<valid, received, spenders>>
        BY <1>1, <2>4 DEF RefreshStep, Start, Adopt, ClaimRefused, ClaimFails,
           Unreached, Recover, RecoverFails, KeepLocal, Release, ReleaseFails, world, history
      <3>2. pc'[r] \in {"adopt", "spend"} => pc[r] = "adopt" /\ copy'[r] = copy[r]
        <4>1. CASE Adopt(r)
          BY <2>0, <4>1 DEF Adopt, task
        <4>2. CASE ~Adopt(r)
          BY <1>1, <2>0, <2>4, <4>2 DEF RefreshStep, Start, ClaimRefused, ClaimFails,
             Unreached, Recover, RecoverFails, KeepLocal, Release, ReleaseFails, Finish, Goto, TypeOK
        <4> QED
          BY <4>1, <4>2
      <3>3. \A q \in Refreshers : q # r => pc'[q] = pc[q] /\ copy'[q] = copy[q]
        BY <1>1, RefreshLocal, ConstantsType
      <3> QED
        BY <1>0, <3>1, <3>2, <3>3, QuietSpends
    <2> QED
      BY <2>1, <2>2, <2>3, <2>4
  <1>2. ASSUME NEW t \in Tasks, SaveStep(t) PROVE Spends'
    <2>1. UNCHANGED <<valid, received, spenders>>
      BY <1>2 DEF SaveStep, Latest, LatestFails, Install, Classify, CompareAndSwap, WriteFails,
         HangUp, RecordWrite, ResolveConflict, RereadFails, Undo, world, history
    <2>2. pc'[t] \notin {"adopt", "spend"}
      <3>1. CASE Latest(t) \/ LatestFails(t) \/ Undo(t)
        BY <3>1 DEF Latest, LatestFails, Undo, Retry, Stop, Goto, TypeOK
      <3>2. CASE ~(Latest(t) \/ LatestFails(t) \/ Undo(t))
        BY <1>2, <3>2 DEF SaveStep, Install, Classify, CompareAndSwap, WriteFails, HangUp, RecordWrite,
           ResolveConflict, RereadFails, Saved, NotSaved, Stop, Goto, TypeOK
      <3> QED
        BY <3>1, <3>2
    <2>3. \A q \in Refreshers : q # t => pc'[q] = pc[q] /\ copy'[q] = copy[q]
      BY <1>2, SaveLocal, ConstantsType
    <2> QED
      BY <1>0, <2>1, <2>2, <2>3, QuietSpends
  <1>3. ASSUME NEW e \in Editors, Edit(e) PROVE Spends'
    <2>1. UNCHANGED <<valid, received, spenders, copy>>
      BY <1>3 DEF Edit, world, history
    <2>2. \A q \in Refreshers : pc'[q] = pc[q]
      BY <1>3, ConstantsType DEF Edit, Goto, TypeOK
    <2> QED
      BY <1>0, <2>1, <2>2, QuietSpends
  <1>4. ASSUME (\E n \in Nodes : NodeStep(n)) \/ Age \/ Expire \/ UNCHANGED vars PROVE Spends'
    <2>1. UNCHANGED <<valid, received, spenders, pc, copy>>
      BY <1>4 DEF NodeStep, Sync, ReadMirror, Reload, Delete, Age, Expire, vars, world, task, history
    <2> QED
      BY <1>0, <2>1, QuietSpends
  <1> QED
    BY <1>1, <1>2, <1>3, <1>4 DEF Next

LEMMA SpendsOnce ==
    Spends => SpentByOneNode
  <1> SUFFICES ASSUME Spends, ~gaveUp, ~overran, NEW k \in Tokens, k < received
               PROVE  Cardinality(spenders[k]) <= 1
    BY DEF SpentByOneNode
  <1>1. CASE spenders[k] = {}
    BY <1>1, FS_EmptySet
  <1>2. CASE \E n \in Nodes : spenders[k] = {n}
    <2>1. PICK n \in Nodes : spenders[k] = {n}
      BY <1>2
    <2>2. Cardinality({n}) = 1
      BY FS_Singleton
    <2> QED
      BY <2>1, <2>2
  <1> QED
    BY <1>1, <1>2 DEF Spends

(* A single-use refresh token whose successor arrived was presented by one *)
(* process only, as long as refreshes save their token and end within      *)
(* their lease (RefreshCoordinator: "so a single-use refresh token is      *)
(* spent by one node only").  It needs processes that run one refresh of   *)
(* the credential at a time: the lease does not tell two refreshes of a    *)
(* process apart.                                                          *)
THEOREM TokensAreSpentByOneNode ==
    ASSUME OneRefreshPerNode
    PROVE  Spec => []SpentByOneNode
  <1>1. TypeOK /\ CopyInv /\ TokenInv /\ RotationKept /\ Holders /\ Spends /\ [Next]_vars
            => Holders' /\ Spends'
    BY NextHolders, NextSpends
  <1>2. Init => Holders /\ Spends
    <2> SUFFICES ASSUME Init PROVE Holders /\ Spends
      OBVIOUS
    <2>1. (\A r \in Refreshers : pc[r] = "idle") /\ \A k \in Tokens : spenders[k] = {}
      BY ConstantsType DEF Init
    <2> QED
      BY <2>1 DEF Holders, Spends, Holding, Saving
  <1> QED
    BY <1>1, <1>2, TokenInvariant, SpendsOnce, PTL DEF Spec
=============================================================================
