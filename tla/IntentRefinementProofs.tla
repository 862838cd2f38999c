----------------------- MODULE IntentRefinementProofs -----------------------
(***************************************************************************)
(* The server implements the abstract treasury, for a client that awaits   *)
(* each execution and while nothing fails.                                 *)
(***************************************************************************)
EXTENDS IntentRefinement, IntentOnceProofs

\* Neither the chain nor the authorisations change.
Steady == UNCHANGED <<chain, authorized>>

\* A step that leaves the rows alone as well is invisible to the customer.
LEMMA Invisible ==
    ASSUME Steady, UNCHANGED row
    PROVE  UNCHANGED T!treasury
BY DEF Steady, T!treasury, ReportedIntents

\* Writing back any copy that is in flight reports what the chain confirmed,
\* withdraws a report, or changes none.
LEMMA WriteBack ==
    ASSUME TypeOK, Steady, NEW i \in Intent, NEW c \in Row, RowOK(i, c),
           row' = [row EXCEPT ![i] = c]
    PROVE  [T!Next]_(T!treasury)
<1>1. CASE c.status = "confirmed"
  <2>1. c.sig \in Request /\ TargetOf[c.sig] = i /\ chain[c.sig] = "confirmed"
    BY <1>1 DEF RowOK, Row
  <2>2. ReportedIntents' = ReportedIntents \cup {i}
    BY <1>1 DEF ReportedIntents, TypeOK
  <2>3. T!Report(i)
    BY <2>1, <2>2 DEF T!Report, Steady
  <2> QED
    BY <2>3 DEF T!Next
<1>2. CASE c.status # "confirmed"
  <2>1. ReportedIntents' = ReportedIntents \ {i}
    BY <1>2 DEF ReportedIntents, TypeOK
  <2>2. T!Withdraw(i)
    BY <2>1 DEF T!Withdraw, Steady
  <2> QED
    BY <2>2 DEF T!Next
<1> QED
    BY <1>1, <1>2

LEMMA RefineHandle ==
    ASSUME Reliable, TypeOK, ChainInv, OnceInv, NEW r \in Request, Handle(r)
    PROVE  [T!Next]_(T!treasury)
<1> USE TargetAssumption DEF tables, handlers, reconcilers, history
<1>a. /\ copy[r] \in Row /\ TargetOf[r] \in Intent
      /\ RowOK(TargetOf[r], copy[r]) /\ HandlerAt(pc[r], copy[r], chain[r])
    BY DEF TypeOK, ChainInv, HandlerOK
<1>1. CASE GrantApproval(r)
  <2>1. T!Authorise(TargetOf[r])
    BY <1>1 DEF GrantApproval, T!Authorise, ReportedIntents
  <2> QED
    BY <1>a, <2>1 DEF T!Next
<1>2. CASE Submit(r)
  <2>1. UNCHANGED <<row, authorized>> /\ copy[r].status = "executing"
    BY <1>2, <1>a DEF Submit, HandlerAt
  <2>2. CASE UNCHANGED chain
    BY <2>1, <2>2, Invisible DEF Steady
  <2>3. CASE chain' = [chain EXCEPT ![r] = "pending"]
    <3>1. TargetOf[r] \in authorized
        BY <1>a, <2>1 DEF RowOK
    <3>2. \A u \in Request : TargetOf[u] = TargetOf[r] => chain[u] = "none"
        BY <2>1 DEF OnceInv
    <3>3. T!Send(r)
        BY <2>1, <2>3, <3>1, <3>2 DEF T!Send, ReportedIntents
    <3> QED
        BY <3>3 DEF T!Next
  <2> QED
    BY <1>2, <2>2, <2>3 DEF Submit
<1>3. CASE Save(r) \/ SaveAnyway(r)
  <2>1. Steady /\ (UNCHANGED row \/ row' = [row EXCEPT ![TargetOf[r]] = copy[r]])
    BY <1>3 DEF Save, SaveAnyway, Steady
  <2> QED
    BY <1>a, <2>1, Invisible, WriteBack
<1>4. CASE \/ DenyApproval(r) \/ AbortApproval(r) \/ CheckExecution(r) \/ Simulate(r)
           \/ EvaluatePolicy(r) \/ Sign(r) \/ FailExecution(r) \/ RecordTransaction(r) \/ Log(r)
  <2>1. Steady /\ UNCHANGED row
    BY <1>4 DEF DenyApproval, AbortApproval, CheckExecution, Simulate, EvaluatePolicy, Sign,
                FailExecution, RecordTransaction, Log, Steady
  <2> QED
    BY <2>1, Invisible
<1> QED
    BY <1>1, <1>2, <1>3, <1>4 DEF Handle

LEMMA RefineReconcile ==
    ASSUME TypeOK, ChainInv, NEW r \in Request, Reconcile(r)
    PROVE  [T!Next]_(T!treasury)
<1> USE TargetAssumption DEF tables, handlers, reconcilers, history
<1>1. recCopy[r] \in Row /\ TargetOf[r] \in Intent /\ RowOK(TargetOf[r], recCopy[r])
    BY DEF TypeOK, ChainInv, ReconcilerOK
<1>2. Steady /\ (UNCHANGED row \/ row' = [row EXCEPT ![TargetOf[r]] = recCopy[r]])
    BY DEF Reconcile, ReconcileRead, ReconcileConfirmed, ReconcileRetry, ReconcileSave,
           SettleTransaction, ReconcileLog, Steady
<1> QED
    BY <1>1, <1>2, Invisible, WriteBack

LEMMA RefineStep ==
    ASSUME Reliable, TypeOK, ChainInv, OnceInv, [Next]_vars
    PROVE  [T!Next]_(T!treasury)
<1> USE DEF tables, handlers, reconcilers, history
<1>1. ASSUME NEW i \in Intent, CreateIntent(i) \/ LogCreated(i) \/ PassExpiry(i)
      PROVE  [T!Next]_(T!treasury)
    BY <1>1, Invisible DEF CreateIntent, LogCreated, PassExpiry, Steady
<1>2. ASSUME NEW i \in Intent, InsertIntent(i) PROVE [T!Next]_(T!treasury)
  <2>1. Steady /\ (UNCHANGED row \/ row' = [row EXCEPT ![i] = NewIntent])
    BY <1>2 DEF InsertIntent, Steady
  <2>2. NewIntent \in Row /\ RowOK(i, NewIntent)
    BY RowUpdates DEF NewIntent, NoRow, RowOK, Live
  <2> QED
    BY <2>1, <2>2, Invisible, WriteBack
<1>3. ASSUME NEW r \in Request, Arrive(r) PROVE [T!Next]_(T!treasury)
    BY <1>3, Invisible DEF Arrive, Refuse, ApproveIntent, ExecuteIntent, RejectIntent,
                           CancelIntent, Steady
<1>4. ASSUME NEW r \in Request, Handle(r) \/ Reconcile(r) PROVE [T!Next]_(T!treasury)
    BY <1>4, RefineHandle, RefineReconcile
<1>5. ASSUME NEW r \in Request, ChainSettles(r) PROVE [T!Next]_(T!treasury)
  <2>1. T!Settle(r)
    BY <1>5 DEF ChainSettles, T!Settle, ReportedIntents
  <2> QED
    BY <2>1 DEF T!Next
<1>6. CASE Crash \/ UNCHANGED vars
    BY <1>6, Invisible DEF Crash, vars, Steady
<1> QED
    BY <1>1, <1>2, <1>3, <1>4, <1>5, <1>6 DEF Next, Create

\* For a client that awaits each execution, and while store, RPC connection
\* and process do not fail, the handlers and the reconciler implement the
\* treasury: a transfer is sent once and only when authorised, and an intent
\* is reported as confirmed only when its transfer was.
THEOREM Refinement ==
    ASSUME Reliable
    PROVE  Spec => ImplementsTreasury
<1>1. Init => T!Init
    BY DEF Init, T!Init, ReportedIntents, NoRow
<1>2. TypeOK /\ ChainInv /\ OnceInv /\ [Next]_vars => [T!Next]_(T!treasury)
    BY RefineStep
<1> QED
    BY ChainInvariant, OnceInvariant, <1>1, <1>2, PTL DEF Spec, T!Spec, ImplementsTreasury
=============================================================================
