-------------------------- MODULE IntentOnceProofs --------------------------
(***************************************************************************)
(* A client that awaits each execution, and a store, RPC connection and    *)
(* process that do not fail: one transfer per intent.                      *)
(***************************************************************************)
EXTENDS IntentLifecycleProofs

\* The places and the statuses that make a handler count as an execution.
ExecutePC     == {"check", "simulate", "policy", "sign", "submit", "record"}
ExecuteStatus == {"executing", "submitted", "expired", "failed"}

\* No transaction was ever sent for the intent of r.
Unsent(r) == \A q \in Request : TargetOf[q] = TargetOf[r] => chain[q] = "none"

\* A handler that moves from one place to another without touching the chain
\* or the transaction records keeps OnceInv, if it claims no submission it has
\* not made, forgets none it has made before it is recorded, executes only
\* where nothing was sent, and becomes an execution only when there is none.
LEMMA OnceMove ==
    ASSUME TypeOK, OnceInv,
           NEW r \in Request, NEW p \in PC, NEW c \in Row,
           Goto(r, p, c), UNCHANGED <<tx, chain>>,
           c.status = "submitted" => copy[r].status = "submitted",
           pc[r] \in {"save", "record"} /\ copy[r].status = "submitted"
              => (p \in {"save", "record"} /\ c.status = "submitted"),
           c.status = "executing" => copy[r].status = "executing" \/ Unsent(r),
           p \in ExecutePC \/ c.status \in ExecuteStatus
              => \/ ExecuteInFlight(r)
                 \/ \A q \in Request : TargetOf[q] = TargetOf[r] => ~ExecuteInFlight(q)
    PROVE  OnceInv'
<1>1. /\ pc'[r] = p /\ copy'[r] = c
      /\ \A q \in Request \ {r} : pc'[q] = pc[q] /\ copy'[q] = copy[q]
    BY DEF Goto, TypeOK
<1>2. /\ ExecuteInFlight(r)' <=> p \in ExecutePC \/ c.status \in ExecuteStatus
      /\ \A q \in Request \ {r} : ExecuteInFlight(q)' <=> ExecuteInFlight(q)
    BY <1>1 DEF ExecuteInFlight, ExecutePC, ExecuteStatus
<1>3. ASSUME NEW q \in Request
      PROVE  /\ (tx[q] # "none" \/ copy[q].status = "submitted" => chain[q] # "none")'
             /\ (chain[q] # "none" => \/ tx[q] # "none"
                                      \/ pc[q] \in {"save", "record"} /\ copy[q].status = "submitted")'
             /\ (copy[q].status = "executing" => Unsent(q))'
    BY <1>1 DEF OnceInv, Unsent
<1>4. \A q, s \in Request :
          TargetOf[q] = TargetOf[s] /\ ExecuteInFlight(q)' /\ ExecuteInFlight(s)' => q = s
    BY <1>2 DEF OnceInv
<1>5. AtMostOnce' /\ RecordsMatchChain'
    BY DEF OnceInv, AtMostOnce, RecordsMatchChain
<1> QED
    BY <1>3, <1>4, <1>5 DEF OnceInv, Unsent

\* A step that leaves the handlers, the chain and the records alone.
LEMMA OnceFrame ==
    ASSUME OnceInv, UNCHANGED <<tx, pc, copy, chain>>
    PROVE  OnceInv'
BY DEF OnceInv, AtMostOnce, RecordsMatchChain, ExecuteInFlight

LEMMA OnceArrive ==
    ASSUME Reliable, TypeOK, ChainInv, OnceInv, NEW r \in Request, Arrive(r)
    PROVE  OnceInv'
<1> USE TargetAssumption DEF tables, reconcilers, history
<1>a. /\ row[TargetOf[r]] \in Row
      /\ pc[r] = "idle"
      /\ UNCHANGED <<tx, chain>>
    BY DEF Arrive, Refuse, ApproveIntent, ExecuteIntent, RejectIntent, CancelIntent, TypeOK
<1>1. CASE Refuse(r)
  <2>1. Goto(r, "done", NoRow) /\ NoRow \in Row /\ NoRow.status = "none"
    BY <1>1, RowUpdates, StatusOf DEF Refuse, Finish
  <2> QED
    BY <1>a, <2>1, OnceMove DEF PC, ExecutePC, ExecuteStatus
<1>2. CASE ApproveIntent(r)
  <2>1. Goto(r, "decide", row[TargetOf[r]]) /\ row[TargetOf[r]].status = "pending"
    BY <1>2 DEF ApproveIntent
  <2> QED
    BY <1>a, <2>1, OnceMove DEF PC, ExecutePC, ExecuteStatus
<1>3. CASE ExecuteIntent(r)
  <2>1. /\ Goto(r, "check", row[TargetOf[r]]) /\ row[TargetOf[r]].status = "approved"
        /\ \A q \in Request : TargetOf[q] = TargetOf[r] => ~ExecuteInFlight(q)
    BY <1>3 DEF ExecuteIntent, Reliable
  <2> QED
    BY <1>a, <2>1, OnceMove DEF PC, ExecutePC, ExecuteStatus
<1>4. CASE RejectIntent(r) \/ CancelIntent(r)
  <2> DEFINE c == Rejected(row[TargetOf[r]], "rejected")
  <2>1. c \in Row /\ c.status = "rejected"
    BY <1>a, RowUpdates, StatusOf DEF Reason
  <2>2. Goto(r, "save", c)
    BY <1>4 DEF RejectIntent, CancelIntent
  <2> QED
    BY <1>a, <2>1, <2>2, OnceMove DEF PC, ExecutePC, ExecuteStatus
<1> QED
    BY <1>1, <1>2, <1>3, <1>4 DEF Arrive

\* The handler's steps up to the submission, and those after the record.
LEMMA OnceHandle ==
    ASSUME Reliable, TypeOK, ChainInv, OnceInv, NEW r \in Request, Handle(r)
    PROVE  OnceInv'
<1> USE TargetAssumption DEF tables, reconcilers, history
<1>a. copy[r] \in Row /\ HandlerAt(pc[r], copy[r], chain[r])
    BY DEF TypeOK, ChainInv, HandlerOK
<1>b. "store" \notin Faults /\ "rpc" \notin Faults
    BY DEF Reliable
<1>c. NoRow \in Row /\ NoRow.status = "none"
    BY RowUpdates, StatusOf
<1>1. CASE DenyApproval(r) \/ AbortApproval(r) \/ GrantApproval(r)
  <2>1. UNCHANGED <<tx, chain>> /\ pc[r] = "decide"
    BY <1>1 DEF DenyApproval, AbortApproval, GrantApproval
  <2>2. \E p \in {"saveAnyway", "save", "done"}, c \in Row :
            Goto(r, p, c) /\ c.status \in {"rejected", "approved", "none"}
    <3>1. /\ Rejected(copy[r], "policy_denied") \in Row
          /\ Rejected(copy[r], "policy_denied").status = "rejected"
          /\ Approved(copy[r]) \in Row /\ Approved(copy[r]).status = "approved"
        BY <1>a, RowUpdates, StatusOf DEF Reason
    <3> QED
        BY <1>1, <1>c, <3>1 DEF DenyApproval, AbortApproval, GrantApproval, Finish
  <2> QED
    BY <2>1, <2>2, OnceMove DEF PC, ExecutePC, ExecuteStatus
<1>2. CASE CheckExecution(r)
  <2>1. UNCHANGED <<tx, chain>> /\ pc[r] = "check" /\ ExecuteInFlight(r)
    BY <1>2 DEF CheckExecution, ExecuteInFlight
  <2>2. ~TransactionExists(TargetOf[r]) => Unsent(r)
    BY <2>1 DEF TransactionExists, Unsent, OnceInv, ExecuteInFlight
  <2>3. /\ Expired(copy[r]) \in Row /\ Expired(copy[r]).status = "expired"
        /\ Executing(copy[r]) \in Row /\ Executing(copy[r]).status = "executing"
    BY <1>a, RowUpdates, StatusOf
  <2>4. \E p \in {"saveAnyway", "save", "done"}, c \in Row :
            /\ Goto(r, p, c)
            /\ c.status \in {"expired", "none"} \/ (c.status = "executing" /\ Unsent(r))
    BY <1>2, <1>b, <1>c, <2>2, <2>3 DEF CheckExecution, Finish
  <2> QED
    BY <2>1, <2>4, OnceMove DEF PC, ExecutePC, ExecuteStatus
<1>3. CASE Simulate(r) \/ EvaluatePolicy(r) \/ Sign(r)
  <2>1. /\ UNCHANGED <<tx, chain>> /\ ExecuteInFlight(r)
        /\ pc[r] \in {"simulate", "policy", "sign"} /\ copy[r].status = "executing"
    BY <1>3, <1>a DEF Simulate, EvaluatePolicy, Sign, ExecuteInFlight, HandlerAt
  <2>2. \E p \in {"policy", "sign", "submit"} : Goto(r, p, copy[r])
    BY <1>3 DEF Simulate, EvaluatePolicy, Sign
  <2> QED
    BY <1>a, <2>1, <2>2, OnceMove DEF PC
<1>4. CASE FailExecution(r)
  <2>1. UNCHANGED <<tx, chain>> /\ ExecuteInFlight(r) /\ pc[r] \in {"simulate", "policy", "sign"}
    BY <1>4 DEF FailExecution, ExecuteInFlight
  <2>2. PICK f \in Reason : Goto(r, "saveAnyway", Failed(copy[r], f))
    BY <1>4 DEF FailExecution, Reason
  <2>3. Failed(copy[r], f) \in Row
    BY <1>a, RowUpdates
  <2>4. Failed(copy[r], f).status = "failed"
    BY <1>a, StatusOf
  <2> QED
    BY <2>1, <2>2, <2>3, <2>4, OnceMove DEF PC
<1>5. CASE Save(r) \/ SaveAnyway(r)
  <2>1. UNCHANGED <<tx, chain>> /\ pc[r] \in {"save", "saveAnyway"}
    BY <1>5 DEF Save, SaveAnyway
  <2>2. \E p \in {"record", "log"} :
            /\ Goto(r, p, copy[r])
            /\ pc[r] = "save" => (p = "record" <=> copy[r].status = "submitted")
            /\ pc[r] = "saveAnyway" => p = "log"
    BY <1>5, <1>b DEF Save, SaveAnyway
  <2> QED
    BY <1>a, <2>1, <2>2, OnceMove DEF PC, ExecutePC, ExecuteStatus, ExecuteInFlight
<1>6. CASE Log(r)
  <2>1. UNCHANGED <<tx, chain>> /\ pc[r] = "log"
    BY <1>6 DEF Log
  <2>2. \/ Goto(r, "simulate", copy[r]) /\ copy[r].status = "executing"
        \/ Goto(r, "done", NoRow)
    BY <1>6 DEF Log, Finish
  <2> QED
    BY <1>a, <1>c, <2>1, <2>2, OnceMove DEF PC, ExecutePC, ExecuteStatus, ExecuteInFlight
<1>7. CASE Submit(r)
  <2>1. UNCHANGED tx /\ pc[r] = "submit" /\ copy[r].status = "executing"
    BY <1>a, <1>7 DEF Submit, HandlerAt
  <2>2. ExecuteInFlight(r) /\ Unsent(r)
    BY <2>1 DEF OnceInv, ExecuteInFlight, Unsent
  <2>3. CASE UNCHANGED chain
    <3>1. Goto(r, "saveAnyway", Failed(copy[r], "submission_failed"))
        BY <1>7, <2>3, <2>2 DEF Submit, Unsent, TypeOK
    <3>2. /\ Failed(copy[r], "submission_failed") \in Row
          /\ Failed(copy[r], "submission_failed").status = "failed"
        BY <1>a, RowUpdates, StatusOf DEF Reason
    <3> QED
        BY <2>1, <2>2, <2>3, <3>1, <3>2, OnceMove DEF PC
  <2>4. CASE chain' = [chain EXCEPT ![r] = "pending"] /\ Goto(r, "save", Submitted(copy[r], r))
    <3>1. Submitted(copy[r], r).status = "submitted"
        BY <1>a, StatusOf
    <3>2. /\ chain'[r] = "pending" /\ pc'[r] = "save" /\ copy'[r].status = "submitted"
          /\ \A q \in Request \ {r} : /\ chain'[q] = chain[q] /\ pc'[q] = pc[q]
                                       /\ copy'[q] = copy[q]
        BY <2>4, <3>1 DEF Goto, TypeOK
    <3>3. \A q \in Request : ExecuteInFlight(q)' <=> ExecuteInFlight(q)
        BY <2>2, <3>2 DEF ExecuteInFlight
    <3>4. \A q, s \in Request :
              TargetOf[q] = TargetOf[s] /\ ExecuteInFlight(q)' /\ ExecuteInFlight(s)' => q = s
        BY <3>3 DEF OnceInv
    <3>5. \A q \in Request \ {r} : TargetOf[q] = TargetOf[r] =>
              chain'[q] = "none" /\ copy'[q].status # "executing"
        BY <2>2, <3>2 DEF Unsent, OnceInv, ExecuteInFlight
    <3>6. AtMostOnce'
        BY <3>2, <3>5 DEF OnceInv, AtMostOnce
    <3>7. RecordsMatchChain'
        BY <2>1, <2>2, <3>2 DEF OnceInv, RecordsMatchChain, Unsent
    <3>8. ASSUME NEW q \in Request
          PROVE  /\ (tx[q] # "none" \/ copy[q].status = "submitted" => chain[q] # "none")'
                 /\ (chain[q] # "none" => \/ tx[q] # "none"
                                          \/ /\ pc[q] \in {"save", "record"}
                                             /\ copy[q].status = "submitted")'
                 /\ (copy[q].status = "executing" => Unsent(q))'
        BY <2>1, <3>2, <3>5 DEF OnceInv, Unsent
    <3> QED
        BY <3>4, <3>6, <3>7, <3>8 DEF OnceInv, Unsent
  <2> QED
    BY <1>7, <1>b, <2>3, <2>4 DEF Submit
<1>8. CASE RecordTransaction(r)
  <2>1. /\ pc[r] = "record" /\ copy[r].status = "submitted"
        /\ tx' = [tx EXCEPT ![r] = "submitted"] /\ Goto(r, "log", copy[r])
        /\ UNCHANGED chain
    BY <1>8, <1>a, <1>b DEF RecordTransaction, HandlerAt
  <2>2. /\ tx'[r] = "submitted" /\ pc'[r] = "log" /\ UNCHANGED copy
        /\ \A q \in Request \ {r} : tx'[q] = tx[q] /\ pc'[q] = pc[q]
    BY <2>1 DEF Goto, TypeOK
  <2>3. chain[r] # "none"
    BY <2>1 DEF OnceInv
  <2>4. \A q \in Request : ExecuteInFlight(q)' <=> ExecuteInFlight(q)
    BY <2>1, <2>2 DEF ExecuteInFlight
  <2>5. \A q, s \in Request :
            TargetOf[q] = TargetOf[s] /\ ExecuteInFlight(q)' /\ ExecuteInFlight(s)' => q = s
    BY <2>4 DEF OnceInv
  <2>6. AtMostOnce' /\ RecordsMatchChain'
    BY <2>1, <2>2 DEF OnceInv, AtMostOnce, RecordsMatchChain
  <2>7. ASSUME NEW q \in Request
        PROVE  /\ (tx[q] # "none" \/ copy[q].status = "submitted" => chain[q] # "none")'
               /\ (chain[q] # "none" => \/ tx[q] # "none"
                                        \/ pc[q] \in {"save", "record"} /\ copy[q].status = "submitted")'
               /\ (copy[q].status = "executing" => Unsent(q))'
    BY <2>1, <2>2, <2>3 DEF OnceInv, Unsent
  <2> QED
    BY <2>5, <2>6, <2>7 DEF OnceInv, Unsent
<1> QED
    BY <1>1, <1>2, <1>3, <1>4, <1>5, <1>6, <1>7, <1>8 DEF Handle

\* confirmIntent marks a record of the intent: there is only one, that of the
\* transaction whose confirmation the reconciler saw.
LEMMA OnceReconcile ==
    ASSUME TypeOK, ChainInv, OnceInv, NEW r \in Request, Reconcile(r)
    PROVE  OnceInv'
<1> USE DEF tables, handlers, history
<1>1. UNCHANGED <<pc, copy, chain>>
    BY DEF Reconcile, ReconcileRead, ReconcileConfirmed, ReconcileRetry, ReconcileSave,
           SettleTransaction, ReconcileLog
<1>2. CASE UNCHANGED tx
    BY <1>1, <1>2, OnceFrame
<1>3. CASE SettleTransaction(r) /\ ~UNCHANGED tx
  <2>1. PICK q \in Request : /\ TargetOf[q] = TargetOf[r] /\ tx[q] # "none"
                             /\ tx' = [tx EXCEPT ![q] = "confirmed"]
    BY <1>3 DEF SettleTransaction
  <2>2. recCopy[r] \in Row /\ recCopy[r].status = "confirmed" /\ RowOK(TargetOf[r], recCopy[r])
    BY <1>3 DEF SettleTransaction, ChainInv, ReconcilerOK, ReconcilerAt, TypeOK
  <2>3. PICK s \in Request : TargetOf[s] = TargetOf[r] /\ chain[s] = "confirmed"
    BY <2>2 DEF RowOK, Row
  <2>4. chain[q] = "confirmed"
    BY <2>1, <2>3 DEF OnceInv, AtMostOnce
  <2>5. \A u \in Request : /\ (tx'[u] # "none" <=> tx[u] # "none")
                           /\ tx'[u] = "confirmed" => tx[u] = "confirmed" \/ u = q
    BY <2>1 DEF TypeOK
  <2>6. RecordsMatchChain'
    BY <1>1, <2>4, <2>5 DEF OnceInv, RecordsMatchChain
  <2> QED
    BY <1>1, <2>5, <2>6 DEF OnceInv, AtMostOnce, ExecuteInFlight
<1> QED
    BY <1>2, <1>3 DEF Reconcile, ReconcileRead, ReconcileConfirmed, ReconcileRetry, ReconcileSave,
                      ReconcileLog

LEMMA OnceSettles ==
    ASSUME TypeOK, OnceInv, NEW r \in Request, ChainSettles(r)
    PROVE  OnceInv'
<1>1. UNCHANGED <<tx, pc, copy>>
    BY DEF ChainSettles, tables, handlers
<1>2. \A q \in Request : /\ chain'[q] # "none" <=> chain[q] # "none"
                         /\ chain[q] = "confirmed" => chain'[q] = "confirmed"
    BY DEF ChainSettles, TypeOK
<1> QED
    BY <1>1, <1>2 DEF OnceInv, AtMostOnce, RecordsMatchChain, ExecuteInFlight

\* The inductive invariant behind the theorems on well-behaved clients: what
\* ExecuteIntent sent is recorded or about to be, and a handler that may still
\* send is alone and has no predecessor.
THEOREM OnceInvariant ==
    ASSUME Reliable
    PROVE  Spec => []OnceInv
<1>1. Init => OnceInv
    BY DEF Init, OnceInv, AtMostOnce, RecordsMatchChain, ExecuteInFlight, NoRow
<1>2. TypeOK /\ ChainInv /\ OnceInv /\ [Next]_vars => OnceInv'
  <2> SUFFICES ASSUME TypeOK, ChainInv, OnceInv, [Next]_vars PROVE OnceInv'
    OBVIOUS
  <2>1. ASSUME NEW i \in Intent, CreateIntent(i) \/ Create(i) \/ PassExpiry(i) PROVE OnceInv'
    BY <2>1, OnceFrame DEF CreateIntent, Create, InsertIntent, LogCreated, PassExpiry, tables,
                           handlers
  <2>2. ASSUME NEW r \in Request, Arrive(r) \/ Handle(r) \/ Reconcile(r) \/ ChainSettles(r)
        PROVE  OnceInv'
    BY <2>2, OnceArrive, OnceHandle, OnceReconcile, OnceSettles
  <2>3. ~Crash
    BY DEF Reliable, Crash
  <2>4. CASE UNCHANGED vars
    BY <2>4, OnceFrame DEF vars, tables, handlers
  <2> QED
    BY <2>1, <2>2, <2>3, <2>4 DEF Next
<1> QED
    BY ChainInvariant, <1>1, <1>2, PTL DEF Spec

\* A client that awaits each execution gets at most one transfer per intent,
\* while nothing fails, however approvals, rejections, cancellations and the
\* reconcilers of earlier executions overwrite the row.
THEOREM OneTransferPerIntent ==
    ASSUME Reliable
    PROVE  Spec => []AtMostOnce
<1>1. OnceInv => AtMostOnce
    BY DEF OnceInv
<1> QED
    BY OnceInvariant, <1>1, PTL

\* Under the same assumptions confirmIntent, which looks records up by intent,
\* never marks the record of a transaction that the chain did not confirm.
THEOREM RecordsAgreeWithChain ==
    ASSUME Reliable
    PROVE  Spec => []RecordsMatchChain
<1>1. OnceInv => RecordsMatchChain
    BY DEF OnceInv
<1> QED
    BY OnceInvariant, <1>1, PTL
=============================================================================
