----------------------- MODULE IntentLifecycleProofs -----------------------
(***************************************************************************)
(* Proofs about IntentLifecycle for every number of intents and requests.  *)
(***************************************************************************)
EXTENDS IntentLifecycle, TLAPS

-----------------------------------------------------------------------------
(* What the assignments of the handlers do to a copy of a row *)

\* Every assignment a handler or reconciler makes to its copy yields a row.
LEMMA RowUpdates ==
    /\ NoRow \in Row /\ NewIntent \in Row
    /\ \A c \in Row :
          /\ Approved(c) \in Row /\ Executing(c) \in Row
          /\ Confirmed(c) \in Row /\ Expired(c) \in Row
          /\ \A s \in Request \cup {NoSig} : Submitted(c, s) \in Row
          /\ \A f \in Reason : Rejected(c, f) \in Row /\ Failed(c, f) \in Row
<1> USE DEF Row, Status
<1>1. NoRow \in Row /\ NewIntent \in Row
    BY DEF NoRow, NewIntent, Reason
<1>2. ASSUME NEW c \in Row PROVE Approved(c) \in Row /\ Executing(c) \in Row
    BY DEF Approved, Executing
<1>3. ASSUME NEW c \in Row PROVE Confirmed(c) \in Row /\ Expired(c) \in Row
    BY DEF Confirmed, Expired, Reason
<1>4. ASSUME NEW c \in Row, NEW s \in Request \cup {NoSig} PROVE Submitted(c, s) \in Row
    BY DEF Submitted
<1>5. ASSUME NEW c \in Row, NEW f \in Reason PROVE Rejected(c, f) \in Row /\ Failed(c, f) \in Row
    BY DEF Rejected, Failed
<1> QED
    BY <1>1, <1>2, <1>3, <1>4, <1>5

\* The status each assignment sets.
LEMMA StatusOf ==
    /\ NoRow.status = "none"
    /\ \A c \in Row :
          /\ Approved(c).status = "approved" /\ Executing(c).status = "executing"
          /\ Confirmed(c).status = "confirmed" /\ Expired(c).status = "expired"
          /\ \A s \in Request \cup {NoSig} : Submitted(c, s).status = "submitted"
          /\ \A f \in Reason : Rejected(c, f).status = "rejected" /\ Failed(c, f).status = "failed"
<1> USE DEF Row
<1>1. NoRow.status = "none"
    BY DEF NoRow
<1>2. ASSUME NEW c \in Row
      PROVE  Approved(c).status = "approved" /\ Executing(c).status = "executing"
    BY DEF Approved, Executing
<1>3. ASSUME NEW c \in Row
      PROVE  Confirmed(c).status = "confirmed" /\ Expired(c).status = "expired"
    BY DEF Confirmed, Expired
<1>4. ASSUME NEW c \in Row, NEW s \in Request \cup {NoSig} PROVE Submitted(c, s).status = "submitted"
    BY DEF Submitted
<1>5. ASSUME NEW c \in Row, NEW f \in Reason
      PROVE  Rejected(c, f).status = "rejected" /\ Failed(c, f).status = "failed"
    BY DEF Rejected, Failed
<1> QED
    BY <1>1, <1>2, <1>3, <1>4, <1>5

-----------------------------------------------------------------------------
(* Type correctness *)

LEMMA TypeInit == Init => TypeOK /\ AttemptInv
<1> SUFFICES ASSUME Init PROVE TypeOK /\ AttemptInv
    OBVIOUS
<1>1. TypeOK
    BY RowUpdates, AttemptAssumption DEF Init, TypeOK, PC, RecPC
<1>2. AttemptInv
    BY AttemptAssumption DEF Init, AttemptInv
<1> QED
    BY <1>1, <1>2

LEMMA TypeStep == TypeOK /\ AttemptInv /\ [Next]_vars => TypeOK'
<1> SUFFICES ASSUME TypeOK, AttemptInv, [Next]_vars PROVE TypeOK'
    OBVIOUS
<1> USE TargetAssumption, RowUpdates DEF TypeOK, tables, handlers, reconcilers, history
<1>1. ASSUME NEW i \in Intent, CreateIntent(i) PROVE TypeOK'
    BY <1>1 DEF CreateIntent
<1>2. ASSUME NEW i \in Intent, Create(i) PROVE TypeOK'
    BY <1>2 DEF Create, InsertIntent, LogCreated, Logged, Event
<1>3. ASSUME NEW i \in Intent, PassExpiry(i) PROVE TypeOK'
    BY <1>3 DEF PassExpiry, Awaited
<1>4. ASSUME NEW r \in Request, Arrive(r) PROVE TypeOK'
    BY <1>4 DEF Arrive, Refuse, ApproveIntent, ExecuteIntent, RejectIntent,
                CancelIntent, Finish, Goto, PC, Reason
<1>5. ASSUME NEW r \in Request, Handle(r) PROVE TypeOK'
  <2>1. ASSUME DenyApproval(r) \/ GrantApproval(r) \/ CheckExecution(r)
               \/ EvaluatePolicy(r) \/ FailExecution(r)
        PROVE  TypeOK'
    BY <2>1 DEF DenyApproval, GrantApproval, CheckExecution, EvaluatePolicy,
                FailExecution, Goto, Finish, PC, Reason
  <2>2. ASSUME AbortApproval(r) \/ Simulate(r) \/ Sign(r)
        PROVE  TypeOK'
    BY <2>2 DEF AbortApproval, Simulate, Sign, Logged, Event, Status, Goto, Finish, PC
  <2>3. ASSUME Submit(r) PROVE TypeOK'
    <3>1. /\ Submitted(copy[r], r) \in Row /\ Submitted(copy[r], NoSig) \in Row
          /\ Failed(copy[r], "submission_failed") \in Row
        BY DEF Reason
    <3> QED
        BY <2>3, <3>1 DEF Submit, Goto, PC
  <2>4. ASSUME RecordTransaction(r) \/ Save(r) \/ SaveAnyway(r)
        PROVE  TypeOK'
    BY <2>4 DEF RecordTransaction, Save, SaveAnyway, Awaited, Goto, Finish, PC
  <2>5. ASSUME Log(r) PROVE TypeOK'
    <3>1. copy[r].status \in Event
        BY DEF Row, Event
    <3>2. audit' \subseteq Intent \X Event
        BY <2>5, <3>1 DEF Log, Logged
    <3>3. pc' \in [Request -> PC] /\ copy' \in [Request -> Row]
        BY <2>5 DEF Log, Goto, Finish, PC
    <3>4. recPc' \in [Request -> RecPC]
        BY <2>5 DEF Log, RecPC
    <3> QED
        BY <2>5, <3>2, <3>3, <3>4 DEF Log
  <2> QED
    BY <1>5, <2>1, <2>2, <2>3, <2>4, <2>5 DEF Handle
<1>6. ASSUME NEW r \in Request, Reconcile(r) PROVE TypeOK'
  <2>1. ASSUME ReconcileRead(r) \/ ReconcileConfirmed(r) PROVE TypeOK'
    BY <2>1 DEF ReconcileRead, ReconcileConfirmed, RecGoto, RecPC, Reason
  <2>2. ASSUME ReconcileRetry(r) PROVE TypeOK'
    <3>1. attempt[r] + 1 \in 0 .. MaxAttempts
        BY <2>2, AttemptAssumption DEF ReconcileRetry, AttemptInv
    <3> QED
        BY <2>2, <3>1 DEF ReconcileRetry, RecGoto, RecPC, Reason
  <2>3. ASSUME ReconcileSave(r) \/ SettleTransaction(r) PROVE TypeOK'
    BY <2>3 DEF ReconcileSave, SettleTransaction, RecGoto, RecPC
  <2>4. ASSUME ReconcileLog(r) PROVE TypeOK'
    BY <2>4 DEF ReconcileLog, Logged, Event, Row, RecGoto, RecPC
  <2> QED
    BY <1>6, <2>1, <2>2, <2>3, <2>4 DEF Reconcile
<1>7. ASSUME NEW r \in Request, ChainSettles(r) PROVE TypeOK'
    BY <1>7 DEF ChainSettles
<1>8. ASSUME Crash PROVE TypeOK'
    BY <1>8 DEF Crash, PC, RecPC
<1>9. CASE UNCHANGED vars
    BY <1>9 DEF vars
<1> QED
    BY <1>1, <1>2, <1>3, <1>4, <1>5, <1>6, <1>7, <1>8, <1>9 DEF Next

LEMMA AttemptStep == TypeOK /\ AttemptInv /\ [Next]_vars => AttemptInv'
<1> SUFFICES ASSUME TypeOK, AttemptInv, [Next]_vars PROVE AttemptInv'
    OBVIOUS
<1> USE AttemptAssumption DEF TypeOK, AttemptInv, tables, handlers, reconcilers, history
<1>1. ASSUME NEW i \in Intent, CreateIntent(i) \/ Create(i) \/ PassExpiry(i)
      PROVE  AttemptInv'
    BY <1>1 DEF CreateIntent, Create, InsertIntent, LogCreated, PassExpiry
<1>2. ASSUME NEW r \in Request, Arrive(r) PROVE AttemptInv'
    BY <1>2 DEF Arrive, Refuse, ApproveIntent, ExecuteIntent, RejectIntent,
                CancelIntent, Finish, Goto
<1>3. ASSUME NEW r \in Request, Handle(r) PROVE AttemptInv'
  <2>1. ASSUME Log(r) PROVE AttemptInv'
    BY <2>1 DEF Log, Goto, Finish
  <2>2. ASSUME ~Log(r) PROVE AttemptInv'
    <3>1. /\ UNCHANGED reconcilers
          /\ pc[r] # "done"
          /\ \E p \in PC : pc' = [pc EXCEPT ![r] = p]
        BY <1>3, <2>2 DEF Handle, DenyApproval, AbortApproval, GrantApproval,
             CheckExecution, Simulate, EvaluatePolicy, Sign, FailExecution, Submit,
             RecordTransaction, Save, SaveAnyway, Goto, Finish, PC
    <3> QED
        BY <3>1
  <2> QED
    BY <2>1, <2>2
<1>4. ASSUME NEW r \in Request, Reconcile(r) PROVE AttemptInv'
    BY <1>4 DEF Reconcile, ReconcileRead, ReconcileConfirmed, ReconcileRetry,
                ReconcileSave, SettleTransaction, ReconcileLog, RecGoto
<1>5. ASSUME NEW r \in Request, ChainSettles(r) PROVE AttemptInv'
    BY <1>5 DEF ChainSettles
<1>6. ASSUME Crash PROVE AttemptInv'
    BY <1>6 DEF Crash
<1>7. CASE UNCHANGED vars
    BY <1>7 DEF vars
<1> QED
    BY <1>1, <1>2, <1>3, <1>4, <1>5, <1>6, <1>7 DEF Next

\* Every state of every execution has the right shape: in particular no
\* reconciler makes more than MaxAttempts attempts, whatever the number of
\* intents and requests and whatever fails.
THEOREM TypeCorrect == Spec => []TypeOK
<1>1. TypeOK /\ AttemptInv /\ [Next]_vars => (TypeOK /\ AttemptInv)'
    BY TypeStep, AttemptStep
<1> QED
    BY TypeInit, <1>1, PTL DEF Spec

-----------------------------------------------------------------------------
(* The books, the chain and the authorization *)

\* Authorizations stay, what the chain took or confirmed stays, and only the
\* requests in S put a transaction on the chain.
Advance(S) ==
    /\ authorized \subseteq authorized'
    /\ \A q \in Request :
          /\ chain[q] # "none" => chain'[q] # "none"
          /\ chain[q] = "confirmed" => chain'[q] = "confirmed"
          /\ q \notin S /\ chain[q] = "none" => chain'[q] = "none"

\* A copy that may be written back may still be written back after the chain
\* and the authorizations advanced.
LEMMA RowOKStable ==
    ASSUME NEW S, Advance(S), NEW i \in Intent, NEW c \in Row, RowOK(i, c)
    PROVE  RowOK(i, c)'
BY DEF Advance, RowOK, Row

\* A step keeps ChainInv if what it changes is as it should be.
LEMMA ChainFrame ==
    ASSUME TypeOK, TypeOK', ChainInv,
           NEW S \in SUBSET Request, Advance(S),
           \A i \in Intent : row'[i] = row[i] \/ RowOK(i, row[i])',
           \A q \in Request : \/ q \notin S /\ pc'[q] = pc[q] /\ copy'[q] = copy[q]
                              \/ HandlerOK(q)',
           \A q \in Request : \/ recPc'[q] = recPc[q] /\ recCopy'[q] = recCopy[q]
                              \/ ReconcilerOK(q)',
           AuthorizedSubmission'
    PROVE  ChainInv'
<1>1. ASSUME NEW i \in Intent PROVE RowOK(i, row[i])'
  <2>1. CASE row'[i] = row[i]
    <3>1. RowOK(i, row[i]) /\ row[i] \in Row
        BY DEF ChainInv, TypeOK
    <3>2. \A c \in Row : RowOK(i, c) => RowOK(i, c)'
        BY RowOKStable
    <3> QED
        BY <2>1, <3>1, <3>2 DEF RowOK
  <2> QED
    BY <2>1
<1>2. ASSUME NEW q \in Request PROVE HandlerOK(q)'
  <2>1. CASE q \notin S /\ pc'[q] = pc[q] /\ copy'[q] = copy[q]
    <3>1. HandlerOK(q) /\ copy[q] \in Row /\ TargetOf[q] \in Intent
        BY TargetAssumption DEF ChainInv, TypeOK
    <3>2. \A c \in Row : RowOK(TargetOf[q], c) => RowOK(TargetOf[q], c)'
        BY <3>1, RowOKStable
    <3>3. RowOK(TargetOf[q], copy[q])'
        BY <2>1, <3>1, <3>2 DEF RowOK, HandlerOK
    <3> QED
        BY <2>1, <3>1, <3>3 DEF HandlerOK, HandlerAt, Advance
  <2> QED
    BY <2>1
<1>3. ASSUME NEW q \in Request PROVE ReconcilerOK(q)'
  <2>1. CASE recPc'[q] = recPc[q] /\ recCopy'[q] = recCopy[q]
    <3>1. ReconcilerOK(q) /\ recCopy[q] \in Row /\ TargetOf[q] \in Intent
        BY TargetAssumption DEF ChainInv, TypeOK
    <3>2. \A c \in Row : RowOK(TargetOf[q], c) => RowOK(TargetOf[q], c)'
        BY <3>1, RowOKStable
    <3>3. RowOK(TargetOf[q], recCopy[q])'
        BY <2>1, <3>1, <3>2 DEF RowOK, ReconcilerOK
    <3> QED
        BY <2>1, <3>1, <3>3 DEF ReconcilerOK
  <2> QED
    BY <2>1
<1> QED
    BY <1>1, <1>2, <1>3 DEF ChainInv

\* What the assignments of the handlers and the reconciler do to RowOK.
LEMMA RowOKUpdates ==
    ASSUME NEW i \in Intent, NEW c \in Row, RowOK(i, c)
    PROVE  /\ RowOK(i, NoRow) /\ RowOK(i, NewIntent) /\ RowOK(i, Expired(c))
           /\ \A f \in Reason : RowOK(i, Rejected(c, f)) /\ RowOK(i, Failed(c, f))
           /\ c.status = "approved" => RowOK(i, Executing(c))
           /\ c.status = "executing" => RowOK(i, Submitted(c, NoSig))
           /\ c.status = "submitted" /\ c.sig # NoSig /\ chain[c.sig] = "confirmed"
                 => RowOK(i, Confirmed(c))
<1> USE DEF RowOK, Row, Live
<1>1. RowOK(i, NoRow) /\ RowOK(i, NewIntent)
    BY DEF NoRow, NewIntent
<1>2. RowOK(i, Expired(c))
    BY DEF Expired
<1>3. \A f \in Reason : RowOK(i, Rejected(c, f)) /\ RowOK(i, Failed(c, f))
    BY DEF Rejected, Failed
<1>4. c.status = "approved" => RowOK(i, Executing(c))
    BY DEF Executing
<1>5. c.status = "executing" => RowOK(i, Submitted(c, NoSig))
    BY DEF Submitted
<1>6. c.status = "submitted" /\ c.sig # NoSig /\ chain[c.sig] = "confirmed"
         => RowOK(i, Confirmed(c))
    BY DEF Confirmed
<1> QED
    BY <1>1, <1>2, <1>3, <1>4, <1>5, <1>6

\* A handler goes on with a copy c it may write back.
LEMMA HandlerMoves ==
    ASSUME TypeOK, NEW r \in Request, NEW p \in PC, NEW c \in Row, Goto(r, p, c),
           RowOK(TargetOf[r], c)', HandlerAt(p, c, chain'[r])
    PROVE  /\ HandlerOK(r)'
           /\ \A q \in Request \ {r} : pc'[q] = pc[q] /\ copy'[q] = copy[q]
BY DEF Goto, HandlerOK, RowOK, TypeOK

LEMMA LocalMove ==
    ASSUME TypeOK, TypeOK', ChainInv, NEW r \in Request, NEW p \in PC, NEW c \in Row,
           Goto(r, p, c), UNCHANGED <<row, recPc, recCopy, chain, authorized>>,
           RowOK(TargetOf[r], c), HandlerAt(p, c, chain[r])
    PROVE  ChainInv'
<1>1. Advance({}) /\ AuthorizedSubmission'
    BY DEF Advance, ChainInv, AuthorizedSubmission
<1>2. RowOK(TargetOf[r], c)'
    BY DEF RowOK
<1> QED
    BY <1>1, <1>2, HandlerMoves, ChainFrame

\* A reconciler goes on with a copy c it may write back.
LEMMA ReconcilerMoves ==
    ASSUME TypeOK, TypeOK', ChainInv, NEW r \in Request, NEW p \in RecPC, NEW c \in Row,
           RecGoto(r, p, c), UNCHANGED <<row, pc, copy, chain, authorized>>,
           RowOK(TargetOf[r], c), ReconcilerAt(p, c)
    PROVE  ChainInv'
<1>1. Advance({}) /\ AuthorizedSubmission'
    BY DEF Advance, ChainInv, AuthorizedSubmission
<1>2. ReconcilerOK(r)'
    BY DEF RecGoto, ReconcilerOK, RowOK, TypeOK
<1>3. \A q \in Request \ {r} : recPc'[q] = recPc[q] /\ recCopy'[q] = recCopy[q]
    BY DEF RecGoto, TypeOK
<1> QED
    BY <1>1, <1>2, <1>3, ChainFrame

LEMMA ChainInit == Init => ChainInv
<1> SUFFICES ASSUME Init PROVE ChainInv
    OBVIOUS
<1>1. \A i \in Intent : RowOK(i, NoRow)
    BY DEF RowOK, NoRow, Live
<1>2. HandlerAt("idle", NoRow, "none") /\ ReconcilerAt("none", NoRow)
    BY DEF HandlerAt, ReconcilerAt, NoRow
<1> QED
    BY <1>1, <1>2, TargetAssumption DEF Init, ChainInv, HandlerOK, ReconcilerOK, AuthorizedSubmission

LEMMA ChainStep == TypeOK /\ TypeOK' /\ ChainInv /\ [Next]_vars => ChainInv'
<1> SUFFICES ASSUME TypeOK, TypeOK', ChainInv, [Next]_vars PROVE ChainInv'
    OBVIOUS
<1> USE TargetAssumption DEF tables, handlers, reconcilers, history
<1>a. UNCHANGED <<chain, authorized>> => Advance({}) /\ AuthorizedSubmission'
    BY DEF Advance, ChainInv, AuthorizedSubmission
<1>b. \A r \in Request : /\ TargetOf[r] \in Intent /\ copy[r] \in Row /\ recCopy[r] \in Row
                         /\ row[TargetOf[r]] \in Row
                         /\ RowOK(TargetOf[r], row[TargetOf[r]])
                         /\ RowOK(TargetOf[r], copy[r]) /\ HandlerAt(pc[r], copy[r], chain[r])
                         /\ RowOK(TargetOf[r], recCopy[r]) /\ ReconcilerAt(recPc[r], recCopy[r])
    BY DEF TypeOK, ChainInv, HandlerOK, ReconcilerOK
<1>1. ASSUME NEW i \in Intent, CreateIntent(i) \/ Create(i) \/ PassExpiry(i) PROVE ChainInv'
  <2>1. UNCHANGED <<pc, copy, recPc, recCopy, chain, authorized>>
    BY <1>1 DEF CreateIntent, Create, InsertIntent, LogCreated, PassExpiry
  <2>2. row' = row \/ row' = [row EXCEPT ![i] = NewIntent]
    BY <1>1 DEF CreateIntent, Create, InsertIntent, LogCreated, PassExpiry
  <2>3. RowOK(i, NewIntent)'
    BY DEF RowOK, NewIntent, NoRow, Live
  <2>4. \A j \in Intent : row'[j] = row[j] \/ RowOK(j, row[j])'
    BY <2>2, <2>3 DEF RowOK, TypeOK
  <2> QED
    BY <1>a, <2>1, <2>4, ChainFrame
<1>2. ASSUME NEW r \in Request, Arrive(r) PROVE ChainInv'
  <2> DEFINE now == row[TargetOf[r]]
  <2>1. UNCHANGED <<row, recPc, recCopy, chain, authorized>> /\ pc[r] = "idle"
    BY <1>2 DEF Arrive, Refuse, ApproveIntent, ExecuteIntent, RejectIntent, CancelIntent
  <2>2. chain[r] = "none"
    BY <1>b, <2>1 DEF HandlerAt
  <2>3. CASE Refuse(r)
    <3>1. RowOK(TargetOf[r], NoRow) /\ HandlerAt("done", NoRow, chain[r])
        BY <1>b, RowOKUpdates DEF HandlerAt, NoRow
    <3> QED
        BY <2>1, <2>3, <3>1, LocalMove, RowUpdates DEF Refuse, Finish, PC
  <2>4. CASE ApproveIntent(r)
    <3>1. HandlerAt("decide", now, chain[r])
        BY <2>2, <2>4 DEF HandlerAt, ApproveIntent
    <3> QED
        BY <1>b, <2>1, <2>4, <3>1, LocalMove DEF ApproveIntent, PC
  <2>5. CASE ExecuteIntent(r)
    <3>1. HandlerAt("check", now, chain[r])
        BY <2>2, <2>5 DEF HandlerAt, ExecuteIntent
    <3> QED
        BY <1>b, <2>1, <2>5, <3>1, LocalMove DEF ExecuteIntent, PC
  <2>6. CASE RejectIntent(r) \/ CancelIntent(r)
    <3>1. /\ Rejected(now, "rejected") \in Row
          /\ RowOK(TargetOf[r], Rejected(now, "rejected"))
          /\ HandlerAt("save", Rejected(now, "rejected"), chain[r])
        BY <1>b, RowUpdates, RowOKUpdates, StatusOf DEF HandlerAt, Reason
    <3> QED
        BY <2>1, <2>6, <3>1, LocalMove DEF RejectIntent, CancelIntent, PC
  <2> QED
    BY <1>2, <2>3, <2>4, <2>5, <2>6 DEF Arrive
<1>3. ASSUME NEW r \in Request, Handle(r) PROVE ChainInv'
  <2>0. RowOK(TargetOf[r], NoRow) /\ NoRow \in Row /\ \A f : HandlerAt("done", NoRow, f)
    BY <1>b, RowOKUpdates, RowUpdates DEF HandlerAt, NoRow
  <2>1. CASE DenyApproval(r)
    <3>1. /\ Rejected(copy[r], "policy_denied") \in Row
          /\ RowOK(TargetOf[r], Rejected(copy[r], "policy_denied"))
          /\ HandlerAt("saveAnyway", Rejected(copy[r], "policy_denied"), chain[r])
        BY <1>b, RowUpdates, RowOKUpdates, StatusOf DEF HandlerAt, Reason
    <3> QED
        BY <2>1, <3>1, LocalMove DEF DenyApproval, PC
  <2>2. CASE AbortApproval(r)
    BY <2>0, <2>2, LocalMove DEF AbortApproval, Finish, PC
  <2>3. CASE CheckExecution(r)
    <3>1. /\ Expired(copy[r]) \in Row /\ RowOK(TargetOf[r], Expired(copy[r]))
          /\ HandlerAt("saveAnyway", Expired(copy[r]), chain[r])
        BY <1>b, RowUpdates, RowOKUpdates, StatusOf DEF HandlerAt
    <3>2. /\ Executing(copy[r]) \in Row /\ RowOK(TargetOf[r], Executing(copy[r]))
          /\ HandlerAt("save", Executing(copy[r]), chain[r])
        BY <1>b, <2>3, RowUpdates, RowOKUpdates, StatusOf DEF CheckExecution, HandlerAt
    <3>3. \/ Goto(r, "saveAnyway", Expired(copy[r])) \/ Finish(r)
          \/ Goto(r, "save", Executing(copy[r]))
        BY <2>3 DEF CheckExecution
    <3>4. UNCHANGED <<row, recPc, recCopy, chain, authorized>>
        BY <2>3 DEF CheckExecution
    <3> QED
        BY <2>0, <3>1, <3>2, <3>3, <3>4, LocalMove DEF Finish, PC
  <2>4. CASE Simulate(r) \/ EvaluatePolicy(r) \/ Sign(r) \/ RecordTransaction(r)
    <3>1. \E p \in {"policy", "sign", "submit", "log"} :
             Goto(r, p, copy[r]) /\ HandlerAt(p, copy[r], chain[r])
        BY <1>b, <2>4 DEF Simulate, EvaluatePolicy, Sign, RecordTransaction, HandlerAt
    <3>2. UNCHANGED <<row, recPc, recCopy, chain, authorized>>
        BY <2>4 DEF Simulate, EvaluatePolicy, Sign, RecordTransaction
    <3> QED
        BY <1>b, <3>1, <3>2, LocalMove DEF PC
  <2>5. CASE FailExecution(r)
    <3>1. PICK f \in Reason : Goto(r, "saveAnyway", Failed(copy[r], f))
        BY <2>5 DEF FailExecution, Reason
    <3>2. /\ Failed(copy[r], f) \in Row /\ RowOK(TargetOf[r], Failed(copy[r], f))
          /\ HandlerAt("saveAnyway", Failed(copy[r], f), chain[r])
        BY <1>b, RowUpdates, RowOKUpdates, StatusOf DEF HandlerAt
    <3> QED
        BY <2>5, <3>1, <3>2, LocalMove DEF FailExecution, PC
  <2>6. CASE GrantApproval(r)
    <3>1. /\ UNCHANGED <<row, recPc, recCopy, chain>>
          /\ authorized' = authorized \cup {TargetOf[r]}
        BY <2>6 DEF GrantApproval
    <3>2. Advance({}) /\ AuthorizedSubmission'
        BY <3>1 DEF Advance, ChainInv, AuthorizedSubmission
    <3>3. /\ Approved(copy[r]) \in Row
          /\ HandlerAt("save", Approved(copy[r]), chain'[r])
      <4>1. Approved(copy[r]) \in Row /\ Approved(copy[r]).status = "approved"
        BY <1>b, RowUpdates, StatusOf
      <4> QED
        BY <4>1 DEF HandlerAt
    <3>4. \A c \in Row : c.status = "pending" /\ RowOK(TargetOf[r], c)
                            => RowOK(TargetOf[r], Approved(c))'
        BY <3>1 DEF RowOK, Approved, Row, Live
    <3>5. copy[r].status = "pending"
        BY <1>b, <2>6 DEF GrantApproval, HandlerAt
    <3>6. \A c \in Row : Goto(r, "save", c) /\ RowOK(TargetOf[r], c)'
                         /\ HandlerAt("save", c, chain'[r])
             => /\ HandlerOK(r)'
                /\ \A q \in Request \ {r} : pc'[q] = pc[q] /\ copy'[q] = copy[q]
        BY HandlerMoves DEF PC
    <3>7. /\ HandlerOK(r)'
          /\ \A q \in Request \ {r} : pc'[q] = pc[q] /\ copy'[q] = copy[q]
        BY <1>b, <2>6, <3>3, <3>4, <3>5, <3>6 DEF GrantApproval
    <3> QED
        BY <3>1, <3>2, <3>7, ChainFrame
  <2>7. CASE Submit(r)
    <3>1. /\ UNCHANGED <<row, recPc, recCopy, authorized>>
          /\ copy[r].status = "executing" /\ chain[r] = "none"
          /\ TargetOf[r] \in authorized
          /\ copy[r].confirmedAt = "null"
        BY <1>b, <2>7 DEF Submit, HandlerAt, RowOK, Live
    <3>2. chain' = chain \/ chain' = [chain EXCEPT ![r] = "pending"]
        BY <2>7 DEF Submit
    <3>3. Advance({r}) /\ AuthorizedSubmission'
        BY <3>1, <3>2 DEF Advance, ChainInv, AuthorizedSubmission, TypeOK
    <3>4. /\ Submitted(copy[r], r) \in Row /\ Submitted(copy[r], NoSig) \in Row
          /\ Failed(copy[r], "submission_failed") \in Row
        BY <1>b, RowUpdates DEF Reason
    <3>5. /\ HandlerAt("save", Submitted(copy[r], r), chain'[r])
          /\ HandlerAt("save", Submitted(copy[r], NoSig), chain'[r])
          /\ HandlerAt("saveAnyway", Failed(copy[r], "submission_failed"), chain'[r])
        BY <1>b, StatusOf DEF HandlerAt, Reason
    <3>6. \A c \in Row : RowOK(TargetOf[r], c) => RowOK(TargetOf[r], c)'
        BY <1>b, <3>3, RowOKStable
    <3>7. /\ RowOK(TargetOf[r], Submitted(copy[r], NoSig))
          /\ RowOK(TargetOf[r], Failed(copy[r], "submission_failed"))
        BY <1>b, <3>1, RowOKUpdates DEF Reason
    <3>8. ASSUME chain' = [chain EXCEPT ![r] = "pending"],
                 NEW c \in Row, c.status = "executing", c.confirmedAt = "null"
          PROVE  RowOK(TargetOf[r], Submitted(c, r))'
        BY <3>1, <3>8, RequestAssumption DEF RowOK, Submitted, Row, Live, TypeOK
    <3>9. \E p \in PC, c \in Row : /\ Goto(r, p, c) /\ RowOK(TargetOf[r], c)'
                                   /\ HandlerAt(p, c, chain'[r])
        <4>1. CASE /\ chain' = [chain EXCEPT ![r] = "pending"]
                   /\ Goto(r, "save", Submitted(copy[r], r))
            BY <1>b, <3>1, <3>4, <3>5, <3>8, <4>1 DEF PC
        <4>2. CASE Goto(r, "save", Submitted(copy[r], NoSig))
            BY <3>4, <3>5, <3>6, <3>7, <4>2 DEF PC
        <4>3. CASE Goto(r, "saveAnyway", Failed(copy[r], "submission_failed"))
            BY <3>4, <3>5, <3>6, <3>7, <4>3 DEF PC
        <4> QED
            BY <2>7, <4>1, <4>2, <4>3 DEF Submit
    <3>10. /\ HandlerOK(r)'
           /\ \A q \in Request \ {r} : pc'[q] = pc[q] /\ copy'[q] = copy[q]
        BY <3>9, HandlerMoves
    <3> QED
        BY <3>1, <3>3, <3>10, ChainFrame
  <2>8. CASE Save(r) \/ SaveAnyway(r)
    <3>1. UNCHANGED <<recPc, recCopy, chain, authorized>>
        BY <2>8 DEF Save, SaveAnyway
    <3>2. \E p \in PC, c \in Row : /\ Goto(r, p, c) /\ RowOK(TargetOf[r], c)
                                   /\ HandlerAt(p, c, chain[r])
        <4>1. /\ HandlerAt("log", copy[r], chain[r])
              /\ copy[r].status = "submitted" => HandlerAt("record", copy[r], chain[r])
            BY <1>b, <2>8 DEF Save, SaveAnyway, HandlerAt
        <4> QED
            BY <1>b, <2>0, <2>8, <4>1 DEF Save, SaveAnyway, Finish, PC
    <3>3. \A c \in Row : RowOK(TargetOf[r], c) => RowOK(TargetOf[r], c)'
        BY <3>1 DEF RowOK
    <3>4. /\ HandlerOK(r)'
          /\ \A q \in Request \ {r} : pc'[q] = pc[q] /\ copy'[q] = copy[q]
        BY <3>1, <3>2, <3>3, HandlerMoves
    <3>5. row' = row \/ row' = [row EXCEPT ![TargetOf[r]] = copy[r]]
        BY <2>8 DEF Save, SaveAnyway
    <3>6. \A i \in Intent : row'[i] = row[i] \/ RowOK(i, row[i])'
        BY <1>b, <3>3, <3>5 DEF TypeOK, RowOK
    <3> QED
        BY <1>a, <3>1, <3>4, <3>6, ChainFrame
  <2>9. CASE Log(r)
    <3>1. UNCHANGED <<row, recCopy, chain, authorized>>
        BY <2>9 DEF Log
    <3>2. \E p \in PC, c \in Row : /\ Goto(r, p, c) /\ RowOK(TargetOf[r], c)
                                   /\ HandlerAt(p, c, chain[r])
        <4>1. copy[r].status = "executing" => HandlerAt("simulate", copy[r], chain[r])
            BY <1>b, <2>9 DEF Log, HandlerAt
        <4> QED
            BY <1>b, <2>0, <2>9, <4>1 DEF Log, Finish, PC
    <3>3. \A c \in Row : RowOK(TargetOf[r], c) => RowOK(TargetOf[r], c)'
        BY <3>1 DEF RowOK
    <3>4. /\ HandlerOK(r)'
          /\ \A q \in Request \ {r} : pc'[q] = pc[q] /\ copy'[q] = copy[q]
        BY <3>1, <3>2, <3>3, HandlerMoves
    <3>5. \A q \in Request : recPc'[q] = recPc[q] \/ ReconcilerOK(q)'
        BY <1>b, <2>9, <3>1 DEF Log, TypeOK, ReconcilerOK, ReconcilerAt, RowOK
    <3> QED
        BY <1>a, <3>1, <3>4, <3>5, ChainFrame
  <2> QED
    BY <1>3, <2>1, <2>2, <2>3, <2>4, <2>5, <2>6, <2>7, <2>8, <2>9 DEF Handle
<1>4. ASSUME NEW r \in Request, Reconcile(r) PROVE ChainInv'
  <2>0. RowOK(TargetOf[r], NoRow) /\ NoRow \in Row /\ ReconcilerAt("done", NoRow)
    BY <1>b, RowOKUpdates, RowUpdates DEF ReconcilerAt
  <2>1. CASE ReconcileRead(r)
    <3> DEFINE now == row[TargetOf[r]]
    <3>1. /\ Failed(now, "reconciliation") \in Row
          /\ RowOK(TargetOf[r], Failed(now, "reconciliation"))
          /\ ReconcilerAt("save", Failed(now, "reconciliation"))
        BY <1>b, RowUpdates, RowOKUpdates, StatusOf DEF ReconcilerAt, Reason
    <3>2. \/ RecGoto(r, "done", NoRow) \/ RecGoto(r, "save", Failed(now, "reconciliation"))
          \/ RecGoto(r, "poll", now) /\ ReconcilerAt("poll", now)
        BY <2>1 DEF ReconcileRead, ReconcilerAt
    <3>3. UNCHANGED <<row, pc, copy, chain, authorized>>
        BY <2>1 DEF ReconcileRead
    <3> QED
        BY <1>b, <2>0, <3>1, <3>2, <3>3, ReconcilerMoves DEF RecPC
  <2>2. CASE ReconcileConfirmed(r)
    <3>1. /\ Confirmed(recCopy[r]) \in Row /\ RowOK(TargetOf[r], Confirmed(recCopy[r]))
          /\ ReconcilerAt("save", Confirmed(recCopy[r]))
        BY <1>b, <2>2, RowUpdates, RowOKUpdates, StatusOf DEF ReconcileConfirmed, ReconcilerAt
    <3> QED
        BY <2>2, <3>1, ReconcilerMoves DEF ReconcileConfirmed, RecPC
  <2>3. CASE ReconcileRetry(r)
    <3>1. /\ Failed(recCopy[r], "confirmation_timeout") \in Row
          /\ RowOK(TargetOf[r], Failed(recCopy[r], "confirmation_timeout"))
          /\ ReconcilerAt("save", Failed(recCopy[r], "confirmation_timeout"))
        BY <1>b, RowUpdates, RowOKUpdates, StatusOf DEF ReconcilerAt, Reason
    <3>2. UNCHANGED <<row, pc, copy, chain, authorized>>
        BY <2>3 DEF ReconcileRetry
    <3>3. CASE UNCHANGED <<recPc, recCopy>>
        BY <1>a, <3>2, <3>3, ChainFrame
    <3> QED
        BY <2>3, <3>1, <3>2, <3>3, ReconcilerMoves DEF ReconcileRetry, RecPC
  <2>4. CASE ReconcileSave(r)
    <3>1. UNCHANGED <<pc, copy, chain, authorized>>
        BY <2>4 DEF ReconcileSave
    <3>2. \/ RecGoto(r, "done", NoRow)
          \/ \E p \in {"settleTx", "log"} : RecGoto(r, p, recCopy[r]) /\ ReconcilerAt(p, recCopy[r])
        BY <1>b, <2>4 DEF ReconcileSave, ReconcilerAt
    <3>3. ReconcilerOK(r)'
        BY <1>b, <2>0, <3>1, <3>2 DEF RecGoto, ReconcilerOK, RowOK, TypeOK
    <3>4. \A q \in Request \ {r} : recPc'[q] = recPc[q] /\ recCopy'[q] = recCopy[q]
        BY <3>2 DEF RecGoto, TypeOK
    <3>5. row' = row \/ row' = [row EXCEPT ![TargetOf[r]] = recCopy[r]]
        BY <2>4 DEF ReconcileSave
    <3>6. \A i \in Intent : row'[i] = row[i] \/ RowOK(i, row[i])'
        BY <1>b, <3>1, <3>5 DEF TypeOK, RowOK
    <3> QED
        BY <1>a, <3>1, <3>3, <3>4, <3>6, ChainFrame
  <2>5. CASE SettleTransaction(r)
    <3>1. ReconcilerAt("log", recCopy[r])
        BY <1>b, <2>5 DEF SettleTransaction, ReconcilerAt
    <3> QED
        BY <1>b, <2>5, <3>1, ReconcilerMoves DEF SettleTransaction, RecPC
  <2>6. CASE ReconcileLog(r)
    BY <2>0, <2>6, ReconcilerMoves DEF ReconcileLog, RecPC
  <2> QED
    BY <1>4, <2>1, <2>2, <2>3, <2>4, <2>5, <2>6 DEF Reconcile
<1>5. ASSUME NEW r \in Request, ChainSettles(r) PROVE ChainInv'
  <2>1. UNCHANGED <<row, pc, copy, recPc, recCopy, authorized>>
    BY <1>5 DEF ChainSettles
  <2>2. Advance({}) /\ AuthorizedSubmission'
    BY <1>5 DEF ChainSettles, Advance, ChainInv, AuthorizedSubmission, TypeOK
  <2> QED
    BY <2>1, <2>2, ChainFrame
<1>6. ASSUME Crash PROVE ChainInv'
  <2>1. UNCHANGED <<row, chain, authorized>>
    BY <1>6 DEF Crash
  <2>2. \A q \in Request : RowOK(TargetOf[q], NoRow)'
    BY DEF RowOK, NoRow, Live
  <2>3. ASSUME NEW q \in Request PROVE HandlerAt(pc'[q], NoRow, chain'[q])
    BY <1>6, <1>b, <2>1 DEF Crash, HandlerAt, NoRow
  <2>4. ASSUME NEW q \in Request PROVE ReconcilerAt(recPc'[q], NoRow)
    BY <1>6 DEF Crash, ReconcilerAt
  <2>5. \A q \in Request : HandlerOK(q)' /\ ReconcilerOK(q)'
    BY <1>6, <2>2, <2>3, <2>4 DEF Crash, HandlerOK, ReconcilerOK, RowOK
  <2> QED
    BY <1>a, <2>1, <2>5, ChainFrame
<1>7. CASE UNCHANGED vars
    BY <1>7, <1>a, ChainFrame DEF vars
<1> QED
    BY <1>1, <1>2, <1>3, <1>4, <1>5, <1>6, <1>7 DEF Next

LEMMA ChainInvariant == Spec => [](TypeOK /\ AttemptInv /\ ChainInv)
<1>1. TypeOK /\ AttemptInv /\ ChainInv /\ [Next]_vars => (TypeOK /\ AttemptInv /\ ChainInv)'
    BY TypeStep, AttemptStep, ChainStep
<1> QED
    BY TypeInit, ChainInit, <1>1, PTL DEF Spec

\* The inductive invariant behind the next two theorems: every copy of a row in
\* flight, in a handler or a reconciler, is as truthful as the table.
THEOREM CopiesAreTruthful == Spec => []ChainInv
<1> QED
    BY ChainInvariant, PTL

\* No transaction reaches the chain for an intent that did not pass policy
\* and ZK verification, for any number of concurrent handlers, with lost
\* updates, failing stores, lost RPC answers and crashes.
THEOREM SubmissionsAuthorized == Spec => []AuthorizedSubmission
<1>1. ChainInv => AuthorizedSubmission
    BY DEF ChainInv
<1> QED
    BY ChainInvariant, <1>1, PTL

\* Whatever handlers and reconcilers write over each other, a row's signature
\* is that of a transaction of its own intent, and "confirmed" means that the
\* chain confirmed it.
THEOREM BooksAgreeWithChain == Spec => []BooksMatchChain
<1>1. ChainInv => BooksMatchChain
    BY DEF ChainInv, RowOK, BooksMatchChain
<1> QED
    BY ChainInvariant, <1>1, PTL

-----------------------------------------------------------------------------
(* Requests that come too late *)

\* When the handler of q may turn its copy to "executing".
MayExecute(q) ==
    /\ TargetOf[q] \notin expired
    /\ ~TransactionExists(TargetOf[q]) \/ "store" \in Faults

\* A step keeps LateInv if it submits only for executing handlers, starts
\* executions only where the checks allow it, and counts as late only
\* requests that have not arrived.
LEMMA LateFrame ==
    ASSUME LateInv, expired \subseteq expired',
           \A q \in Request : tx[q] # "none" => tx'[q] # "none",
           \A q \in Request : <<q, "expiry">> \in late' =>
                 <<q, "expiry">> \in late \/ (TargetOf[q] \in expired' /\ pc[q] = "idle"),
           \A q \in Request : <<q, "record">> \in late' =>
                 \/ <<q, "record">> \in late
                 \/ TransactionExists(TargetOf[q])' /\ pc[q] = "idle",
           \A q \in Request : pc[q] = "idle" /\ late' # late
                 => chain'[q] = "none" /\ copy'[q].status # "executing",
           \A q \in Request : chain[q] = "none" /\ copy[q].status # "executing"
                 => chain'[q] = "none",
           \A q \in Request : copy'[q].status = "executing"
                 => copy[q].status = "executing" \/ MayExecute(q)
    PROVE  LateInv'
<1>1. \A i : TransactionExists(i) => TransactionExists(i)'
    BY DEF TransactionExists
<1>2. ASSUME NEW q \in Request, <<q, "expiry">> \in late'
      PROVE  TargetOf[q] \in expired' /\ chain'[q] = "none" /\ copy'[q].status # "executing"
    BY <1>2 DEF LateInv, MayExecute
<1>3. ASSUME NEW q \in Request, <<q, "record">> \in late'
      PROVE  /\ TransactionExists(TargetOf[q])'
             /\ "store" \notin Faults => chain'[q] = "none" /\ copy'[q].status # "executing"
    BY <1>1, <1>3 DEF LateInv, MayExecute
<1> QED
    BY <1>2, <1>3 DEF LateInv

LEMMA LateStep == TypeOK /\ ChainInv /\ LateInv /\ [Next]_vars => LateInv'
<1> SUFFICES ASSUME TypeOK, ChainInv, LateInv, [Next]_vars PROVE LateInv'
    OBVIOUS
<1> USE TargetAssumption DEF tables, handlers, reconcilers, history
<1>a. \A r \in Request : /\ copy[r] \in Row /\ row[TargetOf[r]] \in Row
                         /\ HandlerAt(pc[r], copy[r], chain[r])
    BY DEF TypeOK, ChainInv, HandlerOK
<1>1. ASSUME NEW i \in Intent, CreateIntent(i) \/ Create(i) PROVE LateInv'
    BY <1>1, LateFrame DEF CreateIntent, Create, InsertIntent, LogCreated
<1>2. ASSUME NEW i \in Intent, PassExpiry(i) PROVE LateInv'
  <2>1. UNCHANGED <<tx, pc, copy, chain>> /\ expired \subseteq expired'
    BY <1>2 DEF PassExpiry
  <2>2. /\ \A q \in Request : <<q, "expiry">> \in late' =>
              <<q, "expiry">> \in late \/ (TargetOf[q] \in expired' /\ pc[q] = "idle")
        /\ \A q \in Request : <<q, "record">> \in late' => <<q, "record">> \in late
    BY <1>2 DEF PassExpiry, Awaited
  <2>3. \A q \in Request : pc[q] = "idle" => chain[q] = "none" /\ copy[q].status # "executing"
    BY <1>a DEF HandlerAt
  <2> QED
    BY <2>1, <2>2, <2>3, LateFrame
<1>3. ASSUME NEW r \in Request, Arrive(r) PROVE LateInv'
  <2>1. UNCHANGED <<tx, expired, late, chain>>
    BY <1>3 DEF Arrive, Refuse, ApproveIntent, ExecuteIntent, RejectIntent, CancelIntent
  <2>2. \E p \in PC, c \in Row : Goto(r, p, c) /\ c.status # "executing"
    <3>1. CASE Refuse(r)
        BY <3>1, RowUpdates, StatusOf DEF Refuse, Finish, PC
    <3>2. CASE ApproveIntent(r) \/ ExecuteIntent(r)
        BY <1>a, <3>2 DEF ApproveIntent, ExecuteIntent, PC
    <3>3. CASE RejectIntent(r) \/ CancelIntent(r)
      <4>1. /\ Rejected(row[TargetOf[r]], "rejected") \in Row
            /\ Rejected(row[TargetOf[r]], "rejected").status = "rejected"
        BY <1>a, RowUpdates, StatusOf DEF Reason
      <4> QED
        BY <3>3, <4>1 DEF RejectIntent, CancelIntent, PC
    <3> QED
        BY <1>3, <3>1, <3>2, <3>3 DEF Arrive
  <2>3. \A q \in Request : copy'[q].status = "executing" => copy[q].status = "executing"
    BY <2>2 DEF Goto, TypeOK
  <2> QED
    BY <2>1, <2>3, LateFrame
<1>4. ASSUME NEW r \in Request, Handle(r) PROVE LateInv'
  <2>1. CASE DenyApproval(r) \/ AbortApproval(r) \/ GrantApproval(r) \/ FailExecution(r)
    <3>1. UNCHANGED <<tx, expired, late, chain>>
        BY <2>1 DEF DenyApproval, AbortApproval, GrantApproval, FailExecution
    <3>2. \E p \in PC, c \in Row : Goto(r, p, c) /\ c.status # "executing"
      <4>1. CASE DenyApproval(r)
        <5>1. /\ Rejected(copy[r], "policy_denied") \in Row
              /\ Rejected(copy[r], "policy_denied").status = "rejected"
            BY <1>a, RowUpdates, StatusOf DEF Reason
        <5> QED
            BY <4>1, <5>1 DEF DenyApproval, PC
      <4>2. CASE FailExecution(r)
        <5>1. PICK f \in Reason : Goto(r, "saveAnyway", Failed(copy[r], f))
          BY <4>2 DEF FailExecution, Reason
        <5>2. copy[r] \in Row
            BY <1>a
        <5>3. Failed(copy[r], f) \in Row
            BY <5>2, RowUpdates
        <5>4. Failed(copy[r], f).status = "failed"
            BY <5>2, StatusOf
        <5> QED
            BY <5>1, <5>3, <5>4 DEF PC
      <4>3. CASE AbortApproval(r)
        BY <4>3, RowUpdates, StatusOf DEF AbortApproval, Finish, PC
      <4>4. CASE GrantApproval(r)
        <5>1. Approved(copy[r]) \in Row /\ Approved(copy[r]).status = "approved"
            BY <1>a, RowUpdates, StatusOf
        <5> QED
            BY <4>4, <5>1 DEF GrantApproval, PC
      <4> QED
        BY <2>1, <4>1, <4>2, <4>3, <4>4
    <3>3. \A q \in Request : copy'[q].status = "executing" => copy[q].status = "executing"
        BY <3>2 DEF Goto, TypeOK
    <3> QED
        BY <3>1, <3>3, LateFrame
  <2>2. CASE CheckExecution(r)
    <3>1. UNCHANGED <<tx, expired, late, chain>>
        BY <2>2 DEF CheckExecution
    <3>2. \E p \in PC, c \in Row : Goto(r, p, c) /\ (c.status = "executing" => MayExecute(r))
      <4>1. /\ Expired(copy[r]) \in Row /\ Expired(copy[r]).status = "expired"
            /\ Executing(copy[r]) \in Row
            /\ NoRow \in Row /\ NoRow.status = "none"
        BY <1>a, RowUpdates, StatusOf
      <4> QED
        BY <2>2, <4>1 DEF CheckExecution, MayExecute, Finish, PC
    <3>3. \A q \in Request : copy'[q].status = "executing"
              => copy[q].status = "executing" \/ MayExecute(q)
        BY <3>2 DEF Goto, TypeOK
    <3> QED
        BY <3>1, <3>3, LateFrame
  <2>3. CASE Simulate(r) \/ EvaluatePolicy(r) \/ Sign(r) \/ Save(r) \/ SaveAnyway(r) \/ Log(r)
    <3>1. UNCHANGED <<tx, expired, late, chain>>
        BY <2>3 DEF Simulate, EvaluatePolicy, Sign, Save, SaveAnyway, Log
    <3>2. \E p \in PC : Goto(r, p, copy[r]) \/ Goto(r, p, NoRow)
        BY <2>3 DEF Simulate, EvaluatePolicy, Sign, Save, SaveAnyway, Log, Finish, PC
    <3>3. \A q \in Request : copy'[q].status = "executing" => copy[q].status = "executing"
        BY <3>2, StatusOf DEF Goto, TypeOK
    <3> QED
        BY <3>1, <3>3, LateFrame
  <2>4. CASE Submit(r)
    <3>1. UNCHANGED <<tx, expired, late>> /\ copy[r].status = "executing"
        BY <1>a, <2>4 DEF Submit, HandlerAt
    <3>2. \A q \in Request \ {r} : chain'[q] = chain[q] /\ copy'[q] = copy[q]
        BY <2>4 DEF Submit, Goto, TypeOK
    <3> QED
        BY <3>1, <3>2, LateFrame
  <2>5. CASE RecordTransaction(r)
    <3>1. UNCHANGED <<expired, chain, copy>> /\ pc[r] = "record"
        BY <2>5 DEF RecordTransaction, Goto, TypeOK
    <3>2. \/ UNCHANGED <<tx, late>>
          \/ /\ tx' = [tx EXCEPT ![r] = "submitted"]
             /\ late' = late \cup (Awaited(TargetOf[r]) \X {"record"})
        BY <2>5 DEF RecordTransaction
    <3>3. \A q \in Request : tx[q] # "none" => tx'[q] # "none"
        BY <3>2 DEF TypeOK
    <3>4. /\ \A q \in Request : <<q, "expiry">> \in late' => <<q, "expiry">> \in late
          /\ \A q \in Request : <<q, "record">> \in late' =>
                 \/ <<q, "record">> \in late
                 \/ TransactionExists(TargetOf[q])' /\ pc[q] = "idle"
        BY <3>2 DEF Awaited, TransactionExists, TypeOK
    <3>5. \A q \in Request : pc[q] = "idle" => chain[q] = "none" /\ copy[q].status # "executing"
        BY <1>a DEF HandlerAt
    <3> QED
        BY <3>1, <3>3, <3>4, <3>5, LateFrame
  <2> QED
    BY <1>4, <2>1, <2>2, <2>3, <2>4, <2>5 DEF Handle
<1>5. ASSUME NEW r \in Request, Reconcile(r) PROVE LateInv'
  <2>1. UNCHANGED <<pc, copy, expired, late, chain>>
    BY <1>5 DEF Reconcile, ReconcileRead, ReconcileConfirmed, ReconcileRetry, ReconcileSave,
                SettleTransaction, ReconcileLog
  <2>2. \A q \in Request : tx[q] # "none" => tx'[q] # "none"
    BY <1>5 DEF Reconcile, ReconcileRead, ReconcileConfirmed, ReconcileRetry, ReconcileSave,
                SettleTransaction, ReconcileLog, TypeOK
  <2> QED
    BY <2>1, <2>2, LateFrame
<1>6. ASSUME NEW r \in Request, ChainSettles(r) PROVE LateInv'
  <2>1. UNCHANGED <<tx, pc, copy, expired, late>>
    BY <1>6 DEF ChainSettles
  <2>2. \A q \in Request : chain[q] = "none" => chain'[q] = "none"
    BY <1>6 DEF ChainSettles, TypeOK
  <2> QED
    BY <2>1, <2>2, LateFrame
<1>7. ASSUME Crash PROVE LateInv'
  <2>1. UNCHANGED <<tx, expired, late, chain>> /\ \A q \in Request : copy'[q].status = "none"
    BY <1>7, StatusOf DEF Crash
  <2> QED
    BY <2>1, LateFrame
<1>8. CASE UNCHANGED vars
    BY <1>8, LateFrame DEF vars
<1> QED
    BY <1>1, <1>2, <1>3, <1>4, <1>5, <1>6, <1>7, <1>8 DEF Next

\* A request that arrived after the expiry of its intent, or after its transaction
\* record while the store answers, never holds a copy it could submit.
THEOREM LateRequestsHoldNothing == Spec => []LateInv
<1>1. Init => LateInv
    BY DEF Init, LateInv
<1>2. TypeOK /\ ChainInv /\ LateInv /\ [Next]_vars => LateInv'
    BY LateStep
<1> QED
    BY ChainInvariant, <1>1, <1>2, PTL DEF Spec

\* No request that arrives after its intent expired ever puts a transaction
\* on the chain, under any interleaving and any failure.
THEOREM ExpiredRequestsNeverSubmit == Spec => []ExpiredNeverSubmitted
<1>1. LateInv => ExpiredNeverSubmitted
    BY DEF LateInv, ExpiredNeverSubmitted
<1> QED
    BY LateRequestsHoldNothing, <1>1, PTL

\* While database calls succeed, no request that arrives after the
\* transaction record of its intent was stored submits again, whatever stale
\* copies set the status back to "approved".
THEOREM RecordedIntentsNotResubmitted ==
    ASSUME "store" \notin Faults
    PROVE  Spec => []RecordedNeverResubmitted
<1>1. LateInv => RecordedNeverResubmitted
    BY DEF LateInv, RecordedNeverResubmitted
<1> QED
    BY LateRequestsHoldNothing, <1>1, PTL

-----------------------------------------------------------------------------
(* The audit trail *)

\* The event that reports a status.
EventOf(status) == IF status = "pending" THEN "created" ELSE status

\* An event that is in the table or about to be inserted stays so, if nobody who
\* is about to insert one goes away without it.
LEMMA AnnouncedStable ==
    ASSUME audit \subseteq audit',
           \A i \in Intent : creator[i] = "log" => creator'[i] = "log" \/ <<i, "created">> \in audit',
           \A q \in Request : pc[q] \in {"record", "log"} =>
                 \/ pc'[q] \in {"record", "log"} /\ copy'[q] = copy[q]
                 \/ <<TargetOf[q], copy[q].status>> \in audit',
           \A q \in Request : recPc[q] \in {"settleTx", "log"} =>
                 \/ recPc'[q] \in {"settleTx", "log"} /\ recCopy'[q] = recCopy[q]
                 \/ <<TargetOf[q], recCopy[q].status>> \in audit',
           NEW i \in Intent, NEW e, Announced(i, e)
    PROVE  Announced(i, e)'
<1>1. CASE <<i, e>> \in audit
    BY <1>1 DEF Announced
<1>2. CASE creator[i] = "log" /\ e = "created"
    BY <1>2 DEF Announced
<1>3. ASSUME NEW q \in Request, TargetOf[q] = i, pc[q] \in {"record", "log"}, copy[q].status = e
      PROVE  Announced(i, e)'
    BY <1>3 DEF Announced
<1>4. ASSUME NEW q \in Request, TargetOf[q] = i, recPc[q] \in {"settleTx", "log"},
             recCopy[q].status = e
      PROVE  Announced(i, e)'
    BY <1>4 DEF Announced
<1> QED
    BY <1>1, <1>2, <1>3, <1>4 DEF Announced

\* A step keeps the audit trail if no announcement is lost and every row it
\* writes is announced.
LEMMA AuditFrame ==
    ASSUME AuditTrail,
           \A i \in Intent, e \in Event : Announced(i, e) => Announced(i, e)',
           \A i \in Intent : row[i] \in Row,
           \A i \in Intent : row'[i] = row[i] \/ Announced(i, EventOf(row[i].status))'
    PROVE  AuditTrail'
<1> SUFFICES ASSUME NEW i \in Intent, row'[i].status # "none"
             PROVE  Announced(i, EventOf(row[i].status))'
    BY DEF AuditTrail, EventOf
<1>1. CASE row'[i] = row[i]
  <2>1. Announced(i, EventOf(row[i].status)) /\ EventOf(row[i].status) \in Event
    BY <1>1 DEF AuditTrail, EventOf, Event, Row
  <2>2. \A e \in Event : Announced(i, e)' /\ e = EventOf(row[i].status)'
                            => Announced(i, EventOf(row[i].status))'
    BY DEF Announced
  <2> QED
    BY <1>1, <2>1, <2>2 DEF EventOf
<1> QED
    BY <1>1

LEMMA AuditStep ==
    ASSUME Faults \cap {"audit", "crash"} = {}, TypeOK, AttemptInv, ChainInv, AuditTrail, [Next]_vars
    PROVE  AuditTrail'
<1> USE TargetAssumption DEF tables, handlers, reconcilers, history
<1>a. "audit" \notin Faults /\ ~Crash
    BY DEF Crash
<1>b. \A i \in Intent : row[i] \in Row
    BY DEF TypeOK
<1>c. \A q \in Request : HandlerAt(pc[q], copy[q], chain[q]) /\ ReconcilerAt(recPc[q], recCopy[q])
    BY DEF ChainInv, HandlerOK, ReconcilerOK
<1>1. ASSUME NEW i \in Intent, CreateIntent(i) \/ PassExpiry(i) PROVE AuditTrail'
  <2>1. UNCHANGED <<row, audit, pc, copy, recPc, recCopy>>
        /\ \A j \in Intent : creator[j] = "log" => creator'[j] = "log"
    BY <1>1 DEF CreateIntent, PassExpiry, TypeOK
  <2>2. \A j \in Intent, e \in Event : Announced(j, e) => Announced(j, e)'
    BY <2>1, AnnouncedStable
  <2> QED
    BY <1>b, <2>1, <2>2, AuditFrame
<1>2. ASSUME NEW i \in Intent, Create(i) PROVE AuditTrail'
  <2>1. UNCHANGED <<pc, copy, recPc, recCopy>>
    BY <1>2 DEF Create, InsertIntent, LogCreated
  <2>2. /\ audit \subseteq audit'
        /\ \A j \in Intent : creator[j] = "log" => creator'[j] = "log" \/ <<j, "created">> \in audit'
    BY <1>2, <1>a DEF Create, InsertIntent, LogCreated, Logged, TypeOK
  <2>3. \A j \in Intent, e \in Event : Announced(j, e) => Announced(j, e)'
    BY <2>1, <2>2, AnnouncedStable
  <2>4. \/ row' = row
        \/ row' = [row EXCEPT ![i] = NewIntent] /\ creator' = [creator EXCEPT ![i] = "log"]
    BY <1>2 DEF Create, InsertIntent, LogCreated
  <2>5. \A j \in Intent : row'[j] = row[j] \/ Announced(j, EventOf(row[j].status))'
    <3>1. NewIntent.status = "pending"
        BY DEF NewIntent, NoRow
    <3> QED
        BY <2>4, <3>1 DEF Announced, EventOf, TypeOK
  <2> QED
    BY <1>b, <2>3, <2>5, AuditFrame
<1>3. ASSUME NEW r \in Request, Arrive(r) PROVE AuditTrail'
  <2>1. /\ UNCHANGED <<row, audit, creator, recPc, recCopy>>
        /\ \A q \in Request : pc[q] \in {"record", "log"} => pc'[q] = pc[q] /\ copy'[q] = copy[q]
    BY <1>3 DEF Arrive, Refuse, ApproveIntent, ExecuteIntent, RejectIntent, CancelIntent, Finish,
                Goto, TypeOK
  <2>2. \A j \in Intent, e \in Event : Announced(j, e) => Announced(j, e)'
    BY <2>1, AnnouncedStable
  <2> QED
    BY <1>b, <2>1, <2>2, AuditFrame
<1>4. ASSUME NEW r \in Request, Handle(r) PROVE AuditTrail'
  <2>1. CASE Log(r)
    <3>1. /\ UNCHANGED <<row, creator, recCopy>> /\ recPc[r] = "none"
          /\ audit' = audit \cup {<<TargetOf[r], copy[r].status>>}
          /\ \A q \in Request \ {r} : pc'[q] = pc[q] /\ copy'[q] = copy[q] /\ recPc'[q] = recPc[q]
        BY <2>1, <1>a DEF Log, Logged, Finish, Goto, TypeOK, AttemptInv
    <3>2. \A j \in Intent, e \in Event : Announced(j, e) => Announced(j, e)'
        BY <3>1, AnnouncedStable
    <3> QED
        BY <1>b, <3>1, <3>2, AuditFrame
  <2>2. CASE Save(r) \/ SaveAnyway(r) \/ RecordTransaction(r)
    <3>1. UNCHANGED <<audit, creator, recPc, recCopy>>
        BY <2>2 DEF Save, SaveAnyway, RecordTransaction
    <3>2. \/ pc[r] \in {"save", "saveAnyway"} /\ row' = row
          \/ /\ pc[r] \in {"save", "saveAnyway"}
             /\ row' = [row EXCEPT ![TargetOf[r]] = copy[r]]
             /\ \E p \in {"record", "log"} : Goto(r, p, copy[r])
          \/ pc[r] = "record" /\ Goto(r, "log", copy[r]) /\ row' = row
        BY <2>2 DEF Save, SaveAnyway, RecordTransaction
    <3>3. \A q \in Request \ {r} : pc'[q] = pc[q] /\ copy'[q] = copy[q]
        BY <2>2 DEF Save, SaveAnyway, RecordTransaction, Finish, Goto, TypeOK
    <3>4. \A q \in Request : pc[q] \in {"record", "log"} =>
              pc'[q] \in {"record", "log"} /\ copy'[q] = copy[q]
        BY <3>2, <3>3 DEF Goto, TypeOK
    <3>5. \A j \in Intent, e \in Event : Announced(j, e) => Announced(j, e)'
        BY <3>1, <3>4, AnnouncedStable
    <3>6. ASSUME NEW j \in Intent PROVE row'[j] = row[j] \/ Announced(j, EventOf(row[j].status))'
      <4>1. CASE row'[j] # row[j]
        <5>1. /\ j = TargetOf[r] /\ pc[r] \in {"save", "saveAnyway"} /\ row'[j] = copy[r]
              /\ pc'[r] \in {"record", "log"} /\ copy'[r] = copy[r]
            BY <3>2, <4>1 DEF Goto, TypeOK
        <5>2. EventOf(row'[j].status) = copy'[r].status
            BY <1>c, <5>1 DEF HandlerAt, EventOf
        <5> QED
            BY <5>1, <5>2 DEF Announced
      <4> QED
        BY <4>1
    <3> QED
        BY <1>b, <3>5, <3>6, AuditFrame
  <2>3. CASE DenyApproval(r) \/ GrantApproval(r) \/ CheckExecution(r) \/ EvaluatePolicy(r)
             \/ FailExecution(r) \/ Submit(r) \/ AbortApproval(r) \/ Simulate(r) \/ Sign(r)
    <3>1. UNCHANGED <<row, creator, recPc, recCopy>> /\ audit \subseteq audit'
        BY <2>3 DEF DenyApproval, GrantApproval, CheckExecution, EvaluatePolicy, FailExecution,
                    Submit, AbortApproval, Simulate, Sign, Logged
    <3>2. pc[r] \notin {"record", "log"}
        BY <2>3 DEF DenyApproval, GrantApproval, CheckExecution, EvaluatePolicy, FailExecution,
                    Submit, AbortApproval, Simulate, Sign
    <3>3. \A q \in Request \ {r} : pc'[q] = pc[q] /\ copy'[q] = copy[q]
        BY <2>3 DEF DenyApproval, GrantApproval, CheckExecution, EvaluatePolicy, FailExecution,
                    Submit, AbortApproval, Simulate, Sign, Finish, Goto, TypeOK
    <3>4. \A j \in Intent, e \in Event : Announced(j, e) => Announced(j, e)'
        BY <3>1, <3>2, <3>3, AnnouncedStable
    <3> QED
        BY <1>b, <3>1, <3>4, AuditFrame
  <2> QED
    BY <1>4, <2>1, <2>2, <2>3 DEF Handle
<1>5. ASSUME NEW r \in Request, Reconcile(r) PROVE AuditTrail'
  <2>1. UNCHANGED <<creator, pc, copy>> /\ audit \subseteq audit'
    BY <1>5 DEF Reconcile, ReconcileRead, ReconcileConfirmed, ReconcileRetry, ReconcileSave,
                SettleTransaction, ReconcileLog, Logged
  <2>2. \A q \in Request \ {r} : recPc'[q] = recPc[q] /\ recCopy'[q] = recCopy[q]
    BY <1>5 DEF Reconcile, ReconcileRead, ReconcileConfirmed, ReconcileRetry, ReconcileSave,
                SettleTransaction, ReconcileLog, RecGoto, TypeOK
  <2>3. recPc[r] \in {"settleTx", "log"} =>
            \/ recPc'[r] \in {"settleTx", "log"} /\ recCopy'[r] = recCopy[r]
            \/ <<TargetOf[r], recCopy[r].status>> \in audit'
    BY <1>5, <1>a DEF Reconcile, ReconcileRead, ReconcileConfirmed, ReconcileRetry, ReconcileSave,
                SettleTransaction, ReconcileLog, RecGoto, Logged, TypeOK
  <2>4. \A j \in Intent, e \in Event : Announced(j, e) => Announced(j, e)'
    BY <2>1, <2>2, <2>3, AnnouncedStable
  <2>5. \/ row' = row
        \/ /\ recPc[r] = "save" /\ row' = [row EXCEPT ![TargetOf[r]] = recCopy[r]]
           /\ \E p \in {"settleTx", "log"} : RecGoto(r, p, recCopy[r])
    BY <1>5 DEF Reconcile, ReconcileRead, ReconcileConfirmed, ReconcileRetry, ReconcileSave,
                SettleTransaction, ReconcileLog
  <2>6. ASSUME NEW j \in Intent PROVE row'[j] = row[j] \/ Announced(j, EventOf(row[j].status))'
    <3>1. CASE row'[j] # row[j]
      <4>1. /\ j = TargetOf[r] /\ recPc[r] = "save" /\ row'[j] = recCopy[r]
            /\ recPc'[r] \in {"settleTx", "log"} /\ recCopy'[r] = recCopy[r]
        BY <2>5, <3>1 DEF RecGoto, TypeOK
      <4>2. EventOf(row'[j].status) = recCopy'[r].status
        BY <1>c, <4>1 DEF ReconcilerAt, EventOf
      <4> QED
        BY <4>1, <4>2 DEF Announced
    <3> QED
        BY <3>1
  <2> QED
    BY <1>b, <2>4, <2>6, AuditFrame
<1>6. CASE UNCHANGED <<row, audit, creator, pc, copy, recPc, recCopy>>
    BY <1>6 DEF AuditTrail, Announced
<1>7. ASSUME NEW r \in Request, ChainSettles(r) PROVE AuditTrail'
    BY <1>6, <1>7 DEF ChainSettles
<1>8. CASE UNCHANGED vars
    BY <1>6, <1>8 DEF vars
<1> QED
    BY <1>1, <1>2, <1>3, <1>4, <1>5, <1>7, <1>8, <1>a DEF Next

\* While audit inserts succeed and the process lives, no interleaving of saves
\* leaves a row with a status nobody reports: what a handler or a reconciler
\* writes it logs, also when another one has overwritten it meanwhile.  The
\* store and the RPC node may fail.
THEOREM AuditTrailComplete ==
    ASSUME Faults \cap {"audit", "crash"} = {}
    PROVE  Spec => []AuditTrail
<1>1. Init => AuditTrail
    BY DEF Init, AuditTrail, NoRow
<1>2. TypeOK /\ AttemptInv /\ ChainInv /\ AuditTrail /\ [Next]_vars => AuditTrail'
    BY AuditStep
<1> QED
    BY ChainInvariant, <1>1, <1>2, PTL DEF Spec

-----------------------------------------------------------------------------
(* Intents that exist, and intents that are settled *)

\* A row is inserted once, by its own create request, before anybody works on
\* it, and is never removed.
ExistInv ==
    /\ \A i \in Intent : row[i].status # "none" => creator[i] \in {"log", "done"}
    /\ \A r \in Request : pc[r] \notin {"idle", "done"} \/ recPc[r] \notin {"none", "done"}
                             => row[TargetOf[r]].status # "none"

\* The intent has ended and all that is left in flight is rejecting it again.
Settled(i) ==
    /\ row[i].status \in Terminal
    /\ \A r \in Request : TargetOf[r] = i =>
          /\ pc[r] \in {"idle", "save", "log", "done"}
          /\ pc[r] \in {"save", "log"} => copy[r].status = "rejected"
          /\ recPc[r] \in {"none", "done"}

\* Who writes a row: its create request, a handler or a reconciler that saves.
LEMMA RowWrites ==
    ASSUME TypeOK, [Next]_vars, NEW i \in Intent, row'[i] # row[i]
    PROVE  \/ creator[i] = "insert" /\ creator'[i] = "log" /\ row'[i] = NewIntent
           \/ \E r \in Request : /\ TargetOf[r] = i /\ pc[r] \in {"save", "saveAnyway"}
                                 /\ row'[i] = copy[r]
           \/ \E r \in Request : TargetOf[r] = i /\ recPc[r] = "save" /\ row'[i] = recCopy[r]
<1> USE TargetAssumption DEF tables, handlers, reconcilers, history
<1>1. ASSUME NEW j \in Intent, CreateIntent(j) \/ PassExpiry(j) PROVE FALSE
    BY <1>1 DEF CreateIntent, PassExpiry
<1>2. ASSUME NEW j \in Intent, Create(j)
      PROVE  creator[i] = "insert" /\ creator'[i] = "log" /\ row'[i] = NewIntent
    BY <1>2 DEF Create, InsertIntent, LogCreated, TypeOK
<1>3. ASSUME NEW r \in Request, Arrive(r) \/ ChainSettles(r) PROVE FALSE
    BY <1>3 DEF Arrive, Refuse, ApproveIntent, ExecuteIntent, RejectIntent, CancelIntent, ChainSettles
<1>4. ASSUME NEW r \in Request, Handle(r)
      PROVE  TargetOf[r] = i /\ pc[r] \in {"save", "saveAnyway"} /\ row'[i] = copy[r]
    BY <1>4 DEF Handle, DenyApproval, AbortApproval, GrantApproval, CheckExecution, Simulate,
                EvaluatePolicy, Sign, FailExecution, Submit, RecordTransaction, Save, SaveAnyway,
                Log, TypeOK
<1>5. ASSUME NEW r \in Request, Reconcile(r)
      PROVE  TargetOf[r] = i /\ recPc[r] = "save" /\ row'[i] = recCopy[r]
    BY <1>5 DEF Reconcile, ReconcileRead, ReconcileConfirmed, ReconcileRetry, ReconcileSave,
                SettleTransaction, ReconcileLog, TypeOK
<1>6. ~Crash /\ ~UNCHANGED vars
    BY DEF Crash, vars
<1> QED
    BY <1>1, <1>2, <1>3, <1>4, <1>5, <1>6 DEF Next

\* A row that exists stays.
LEMMA RowsStay ==
    ASSUME TypeOK, ChainInv, [Next]_vars, NEW i \in Intent, row[i].status # "none"
    PROVE  row'[i].status # "none"
<1>1. NewIntent.status # "none"
    BY DEF NewIntent, NoRow
<1>2. \A r \in Request : /\ pc[r] \in {"save", "saveAnyway"} => copy[r].status # "none"
                         /\ recPc[r] = "save" => recCopy[r].status # "none"
    BY DEF ChainInv, HandlerOK, HandlerAt, ReconcilerOK, ReconcilerAt
<1> QED
    BY <1>1, <1>2, RowWrites

LEMMA ExistStep == TypeOK /\ ChainInv /\ ExistInv /\ [Next]_vars => ExistInv'
<1> SUFFICES ASSUME TypeOK, ChainInv, ExistInv, [Next]_vars PROVE ExistInv'
    OBVIOUS
<1> USE TargetAssumption DEF tables, handlers, reconcilers, history
<1>1. \A i \in Intent : creator[i] \in {"log", "done"} => creator'[i] \in {"log", "done"}
    BY DEF Next, CreateIntent, Create, InsertIntent, LogCreated, PassExpiry, Arrive, Refuse,
           ApproveIntent, ExecuteIntent, RejectIntent, CancelIntent, Handle, DenyApproval,
           AbortApproval, GrantApproval, CheckExecution, Simulate, EvaluatePolicy, Sign,
           FailExecution, Submit, RecordTransaction, Save, SaveAnyway, Log, Reconcile,
           ReconcileRead, ReconcileConfirmed, ReconcileRetry, ReconcileSave, SettleTransaction,
           ReconcileLog, ChainSettles, Crash, vars, TypeOK
<1>2. \A r \in Request : pc'[r] \notin {"idle", "done"} =>
          pc[r] \notin {"idle", "done"} \/ row[TargetOf[r]].status # "none"
  <2>1. ASSUME NEW r \in Request, Arrive(r)
        PROVE  \A q \in Request : pc'[q] = pc[q] \/ pc'[q] = "done" \/ row[TargetOf[q]].status # "none"
    BY <2>1 DEF Arrive, Refuse, ApproveIntent, ExecuteIntent, RejectIntent, CancelIntent, Finish,
                Goto, TypeOK
  <2>2. ASSUME NEW r \in Request, Handle(r)
        PROVE  \A q \in Request : pc'[q] = pc[q] \/ pc[q] \notin {"idle", "done"}
    BY <2>2 DEF Handle, DenyApproval, AbortApproval, GrantApproval, CheckExecution, Simulate,
           EvaluatePolicy, Sign, FailExecution, Submit, RecordTransaction, Save, SaveAnyway, Log,
           Finish, Goto, TypeOK
  <2>3. ASSUME NEW r \in Request, Reconcile(r) \/ ChainSettles(r)
        PROVE  UNCHANGED pc
    BY <2>3 DEF Reconcile, ReconcileRead, ReconcileConfirmed, ReconcileRetry, ReconcileSave,
                SettleTransaction, ReconcileLog, ChainSettles
  <2>4. ASSUME NEW i \in Intent, CreateIntent(i) \/ Create(i) \/ PassExpiry(i) PROVE UNCHANGED pc
    BY <2>4 DEF CreateIntent, Create, InsertIntent, LogCreated, PassExpiry
  <2>5. Crash \/ UNCHANGED vars => \A q \in Request : pc'[q] = pc[q] \/ pc'[q] = "done"
    BY DEF Crash, vars
  <2> QED
    BY <2>1, <2>2, <2>3, <2>4, <2>5 DEF Next
<1>3. \A r \in Request : recPc'[r] \notin {"none", "done"} =>
          recPc[r] \notin {"none", "done"} \/ pc[r] \notin {"idle", "done"}
  <2>1. ASSUME NEW r \in Request, Handle(r)
        PROVE  \A q \in Request : recPc'[q] = recPc[q] \/ pc[q] \notin {"idle", "done"}
    BY <2>1 DEF Handle, DenyApproval, AbortApproval, GrantApproval, CheckExecution, Simulate,
           EvaluatePolicy, Sign, FailExecution, Submit, RecordTransaction, Save, SaveAnyway, Log,
           TypeOK
  <2>2. ASSUME NEW r \in Request, Reconcile(r)
        PROVE  \A q \in Request : recPc'[q] = recPc[q] \/ recPc[q] \notin {"none", "done"}
    BY <2>2 DEF Reconcile, ReconcileRead, ReconcileConfirmed, ReconcileRetry, ReconcileSave,
                SettleTransaction, ReconcileLog, RecGoto, TypeOK
  <2>3. ASSUME NEW r \in Request, Arrive(r) \/ ChainSettles(r) PROVE UNCHANGED recPc
    BY <2>3 DEF Arrive, Refuse, ApproveIntent, ExecuteIntent, RejectIntent, CancelIntent, ChainSettles
  <2>4. ASSUME NEW i \in Intent, CreateIntent(i) \/ Create(i) \/ PassExpiry(i) PROVE UNCHANGED recPc
    BY <2>4 DEF CreateIntent, Create, InsertIntent, LogCreated, PassExpiry
  <2>5. Crash \/ UNCHANGED vars => \A q \in Request : recPc'[q] = recPc[q] \/ recPc'[q] = "done"
    BY DEF Crash, vars
  <2> QED
    BY <2>1, <2>2, <2>3, <2>4, <2>5 DEF Next
<1>4. ASSUME NEW i \in Intent, row'[i].status # "none" PROVE creator'[i] \in {"log", "done"}
  <2>1. CASE row'[i] = row[i]
    BY <1>1, <1>4, <2>1 DEF ExistInv
  <2>2. CASE row'[i] # row[i]
    BY <1>1, <2>2, RowWrites DEF ExistInv
  <2> QED
    BY <2>1, <2>2
<1>5. ASSUME NEW r \in Request, pc'[r] \notin {"idle", "done"} \/ recPc'[r] \notin {"none", "done"}
      PROVE  row'[TargetOf[r]].status # "none"
  <2>1. row[TargetOf[r]].status # "none"
    BY <1>2, <1>3, <1>5 DEF ExistInv
  <2> QED
    BY <2>1, RowsStay
<1> QED
    BY <1>4, <1>5 DEF ExistInv

LEMMA ExistInvariant == Spec => []ExistInv
<1>1. Init => ExistInv
    BY DEF Init, ExistInv, NoRow
<1> QED
    BY ChainInvariant, ExistStep, <1>1, PTL DEF Spec

\* What is settled stays settled: of all that may arrive, RejectIntent alone
\* accepts an intent that has ended.
LEMMA SettledStep ==
    ASSUME TypeOK, ChainInv, ExistInv, NEW i \in Intent, Settled(i), [Next]_vars
    PROVE  Settled(i)'
<1> USE TargetAssumption DEF tables, handlers, reconcilers, history
<1>1. row'[i].status \in Terminal
  <2>1. creator[i] # "insert"
    BY DEF ExistInv, Settled, Terminal
  <2> QED
    BY <2>1, RowWrites DEF Settled, Terminal
<1>2. ASSUME NEW q \in Request, TargetOf[q] = i
      PROVE  /\ pc'[q] \in {"idle", "save", "log", "done"}
             /\ pc'[q] \in {"save", "log"} => copy'[q].status = "rejected"
             /\ recPc'[q] \in {"none", "done"}
  <2>0. /\ pc[q] \in {"idle", "save", "log", "done"} /\ recPc[q] \in {"none", "done"}
        /\ pc[q] \in {"save", "log"} => copy[q].status = "rejected"
        /\ row[TargetOf[q]].status \in Terminal /\ row[TargetOf[q]] \in Row
    BY <1>2 DEF Settled, TypeOK
  <2>1. CASE pc'[q] = pc[q] /\ copy'[q] = copy[q] /\ recPc'[q] = recPc[q]
    BY <2>0, <2>1
  <2>2. ASSUME NEW r \in Request, Arrive(r)
        PROVE  \/ pc'[q] = pc[q] /\ copy'[q] = copy[q] /\ recPc'[q] = recPc[q]
               \/ /\ pc'[q] = "done" \/ (pc'[q] = "save" /\ copy'[q].status = "rejected")
                  /\ recPc'[q] = recPc[q]
    <3>1. CASE r # q
        BY <2>2, <3>1 DEF Arrive, Refuse, ApproveIntent, ExecuteIntent, RejectIntent, CancelIntent,
                          Finish, Goto, TypeOK
    <3>2. CASE r = q
      <4>1. Rejected(row[TargetOf[q]], "rejected").status = "rejected"
        BY <2>0, StatusOf DEF Reason
      <4>2. ~ApproveIntent(r) /\ ~ExecuteIntent(r)
        BY <2>0, <3>2 DEF ApproveIntent, ExecuteIntent, Terminal
      <4> QED
        BY <2>2, <3>2, <4>1, <4>2 DEF Arrive, Refuse, RejectIntent, CancelIntent, Finish, Goto, TypeOK
    <3> QED
        BY <3>1, <3>2
  <2>3. ASSUME NEW r \in Request, Handle(r)
        PROVE  \/ pc'[q] = pc[q] /\ copy'[q] = copy[q] /\ recPc'[q] = recPc[q]
               \/ /\ pc'[q] = "done" \/ (pc'[q] = "log" /\ copy'[q].status = "rejected")
                  /\ recPc'[q] = recPc[q]
    <3>1. CASE r # q
        BY <2>3, <3>1 DEF Handle, DenyApproval, AbortApproval, GrantApproval, CheckExecution,
             Simulate, EvaluatePolicy, Sign, FailExecution, Submit, RecordTransaction, Save,
             SaveAnyway, Log, Finish, Goto, TypeOK
    <3>2. CASE r = q
      <4>1. Save(r) \/ Log(r)
        BY <2>0, <2>3, <3>2 DEF Handle, DenyApproval, AbortApproval, GrantApproval, CheckExecution,
             Simulate, EvaluatePolicy, Sign, FailExecution, Submit, RecordTransaction, SaveAnyway
      <4> QED
        BY <2>0, <3>2, <4>1 DEF Save, Log, Finish, Goto, TypeOK
    <3> QED
        BY <3>1, <3>2
  <2>4. ASSUME NEW r \in Request, Reconcile(r) \/ ChainSettles(r)
        PROVE  pc'[q] = pc[q] /\ copy'[q] = copy[q] /\ recPc'[q] = recPc[q]
    BY <2>0, <2>4 DEF Reconcile, ReconcileRead, ReconcileConfirmed, ReconcileRetry, ReconcileSave,
         SettleTransaction, ReconcileLog, ChainSettles, RecGoto, TypeOK
  <2>5. ASSUME NEW j \in Intent, CreateIntent(j) \/ Create(j) \/ PassExpiry(j)
        PROVE  pc'[q] = pc[q] /\ copy'[q] = copy[q] /\ recPc'[q] = recPc[q]
    BY <2>5 DEF CreateIntent, Create, InsertIntent, LogCreated, PassExpiry
  <2>6. CASE Crash
    BY <2>0, <2>6 DEF Crash
  <2>7. CASE UNCHANGED vars
    BY <2>0, <2>7 DEF vars
  <2> QED
    BY <2>0, <2>2, <2>3, <2>4, <2>5, <2>6, <2>7 DEF Next
<1> QED
    BY <1>1, <1>2 DEF Settled

\* An intent that has ended while nothing of it is in flight never lives again,
\* whatever fails and however many requests for it still come.
THEOREM SettledIntentsStaySettled == Spec => TerminalStaysTerminal
<1>1. ASSUME NEW i \in Intent
      PROVE  Spec => [](row[i].status \in Terminal /\ Quiet(i) => [](row[i].status \in Terminal))
  <2>1. row[i].status \in Terminal /\ Quiet(i) => Settled(i)
    BY DEF Quiet, Settled
  <2>2. TypeOK /\ ChainInv /\ ExistInv /\ Settled(i) /\ [Next]_vars => Settled(i)'
    BY SettledStep
  <2>3. Settled(i) => row[i].status \in Terminal
    BY DEF Settled
  <2> QED
    BY ChainInvariant, ExistInvariant, <2>1, <2>2, <2>3, PTL DEF Spec
<1> QED
    BY <1>1 DEF TerminalStaysTerminal
=============================================================================
