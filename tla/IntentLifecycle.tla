--------------------------- MODULE IntentLifecycle ---------------------------
(***************************************************************************)
(* The life of a transfer intent in the API server: the HTTP handlers of   *)
(* routes/intent_routes.go, the reconciler goroutines they start, the      *)
(* Postgres rows they share and the Solana cluster they submit to.         *)
(*                                                                         *)
(* A handler reads the whole intent row, works on that copy, and writes    *)
(* the whole copy back (GORM's Save); there is no lock, version column or  *)
(* database transaction.  Every step below therefore touches the shared    *)
(* state once (one query, one RPC or one audit insert), and the steps of   *)
(* different handlers interleave freely.                                   *)
(***************************************************************************)
EXTENDS Naturals, FiniteSets

CONSTANTS
    Intent,         \* intent ids; each one is made by one create request
    Request,        \* approve, execute, reject and cancel requests
    NoSig,          \* the empty TXSignature
    Payload,        \* (tenant, creator, destination, amount, token)
    PayloadOf,      \* the payload of the create request of an intent
    Keyed,          \* the create requests with an X-Idempotency-Key header
    TargetOf,       \* the :id path parameter of a request
    MaxAttempts,    \* maxAttempts of the reconciler (60 in the code)
    Faults,         \* the failures that may happen
    SerialClient    \* no two executions of an intent are ever in flight together

FaultKinds == {"store", "audit", "rpc", "crash"}

ASSUME RequestAssumption == NoSig \notin Request
ASSUME TargetAssumption  == TargetOf \in [Request -> Intent]
ASSUME PayloadAssumption == PayloadOf \in [Intent -> Payload] /\ Keyed \subseteq Intent
ASSUME AttemptAssumption == MaxAttempts \in Nat \ {0}
ASSUME FaultAssumption   == Faults \subseteq FaultKinds /\ SerialClient \in BOOLEAN

VARIABLES
    row,        \* the intents table
    tx,         \* the transactions table: status of the record made by a request
    audit,      \* the audit_events table: pairs <<intent, event>>
    expired,    \* the intents whose Expiry lies in the past
    creator,    \* where the create request of an intent stands
    pc,         \* where the handler of a request stands
    copy,       \* the row the handler of a request works on
    recPc,      \* where the reconciler started by a request stands
    recCopy,    \* the row that reconciler works on
    attempt,    \* its loop counter
    chain,      \* Solana: fate of the transaction sent by a request
    authorized, \* history: intents that passed policy and ZK verification
    late        \* history: requests that had not yet arrived when their intent
                \* expired or its transaction record was stored

tables      == <<row, tx, audit>>
handlers    == <<creator, pc, copy>>
reconcilers == <<recPc, recCopy, attempt>>
history     == <<authorized, late>>
vars        == <<tables, handlers, reconcilers, expired, chain, history>>

-----------------------------------------------------------------------------
(* Rows *)

Status == {"none", "pending", "approved", "executing", "submitted",
           "confirmed", "rejected", "expired", "failed"}

Reason == {"none", "policy_denied", "expired", "simulation_failed",
           "signing_failed", "rejected", "submission_failed",
           "confirmation_timeout", "reconciliation"}

\* An audit event is named by the status its transition leads to, whatever
\* EventType the branch inserts (LogIntentPolicyDenied, LogIntentSimulated...).
Event == Status \cup {"created", "simulated", "signed"}

Row == [status: Status, reason: Reason, sig: Request \cup {NoSig},
        confirmedAt: {"null", "set"}]

\* "no such row"
NoRow == [status |-> "none", reason |-> "none", sig |-> NoSig, confirmedAt |-> "null"]

\* What the handlers assign to their copy of the row.
NewIntent      == [NoRow EXCEPT !.status = "pending"]
Approved(c)    == [c EXCEPT !.status = "approved"]
Executing(c)   == [c EXCEPT !.status = "executing"]
Submitted(c,s) == [c EXCEPT !.status = "submitted", !.sig = s]
Confirmed(c)   == [c EXCEPT !.status = "confirmed", !.confirmedAt = "set"]
Expired(c)     == [c EXCEPT !.status = "expired", !.reason = "expired"]
Rejected(c,f)  == [c EXCEPT !.status = "rejected", !.reason = f]
Failed(c,f)    == [c EXCEPT !.status = "failed", !.reason = f]

PC == {"idle", "decide", "check", "save", "saveAnyway", "record", "log",
       "simulate", "policy", "sign", "submit", "done"}

RecPC == {"none", "start", "poll", "save", "settleTx", "log", "done"}

TypeOK ==
    /\ row \in [Intent -> Row]
    /\ tx \in [Request -> {"none", "submitted", "confirmed"}]
    /\ audit \subseteq Intent \X Event
    /\ expired \subseteq Intent
    /\ creator \in [Intent -> {"idle", "insert", "log", "done"}]
    /\ pc \in [Request -> PC]
    /\ copy \in [Request -> Row]
    /\ recPc \in [Request -> RecPC]
    /\ recCopy \in [Request -> Row]
    /\ attempt \in [Request -> 0 .. MaxAttempts]
    /\ chain \in [Request -> {"none", "pending", "confirmed", "failed"}]
    /\ authorized \subseteq Intent
    /\ late \subseteq Request \X {"expiry", "record"}

Init ==
    /\ row = [i \in Intent |-> NoRow]
    /\ tx = [r \in Request |-> "none"]
    /\ audit = {}
    /\ expired = {}
    /\ creator = [i \in Intent |-> "idle"]
    /\ pc = [r \in Request |-> "idle"]
    /\ copy = [r \in Request |-> NoRow]
    /\ recPc = [r \in Request |-> "none"]
    /\ recCopy = [r \in Request |-> NoRow]
    /\ attempt = [r \in Request |-> 0]
    /\ chain = [r \in Request |-> "none"]
    /\ authorized = {}
    /\ late = {}

\* The requests for intent i that have yet to arrive.
Awaited(i) == {r \in Request : TargetOf[r] = i /\ pc[r] = "idle"}

-----------------------------------------------------------------------------
(* Steps shared by the handlers *)

\* The handler goes on at p with c as its copy of the row.
Goto(r, p, c) ==
    /\ pc' = [pc EXCEPT ![r] = p]
    /\ copy' = [copy EXCEPT ![r] = c]

\* The handler has answered; its copy is garbage.
Finish(r) == Goto(r, "done", NoRow)

\* AuditLogger.Log: a failed insert is only printed.
Logged(i, e) ==
    \/ audit' = audit \cup {<<i, e>>}
    \/ "audit" \in Faults /\ UNCHANGED audit

\* An execute handler, or an earlier one's copy of the row in flight.
ExecuteInFlight(r) ==
    \/ pc[r] \in {"check", "simulate", "policy", "sign", "submit", "record"}
    \/ copy[r].status \in {"executing", "submitted", "expired", "failed"}

\* Save whose error the handler checks: it answers 500 and stops.
Save(r) ==
    /\ pc[r] = "save"
    /\ \/ /\ row' = [row EXCEPT ![TargetOf[r]] = copy[r]]
          /\ Goto(r, IF copy[r].status = "submitted" THEN "record" ELSE "log", copy[r])
       \/ /\ "store" \in Faults
          /\ Finish(r)
          /\ UNCHANGED row
    /\ UNCHANGED <<tx, audit, creator, reconcilers, expired, chain, history>>

\* Save whose error the handler drops (_ = h.store.Update(intent)).
SaveAnyway(r) ==
    /\ pc[r] = "saveAnyway"
    /\ \/ row' = [row EXCEPT ![TargetOf[r]] = copy[r]]
       \/ "store" \in Faults /\ UNCHANGED row
    /\ Goto(r, "log", copy[r])
    /\ UNCHANGED <<tx, audit, creator, reconcilers, expired, chain, history>>

\* The audit event of the transition, and what follows it: execution goes on
\* after "executing", a reconciler starts after "submitted".
Log(r) ==
    /\ pc[r] = "log"
    /\ Logged(TargetOf[r], copy[r].status)
    /\ IF copy[r].status = "executing" THEN Goto(r, "simulate", copy[r]) ELSE Finish(r)
    /\ recPc' = IF copy[r].status = "submitted"
                THEN [recPc EXCEPT ![r] = "start"] ELSE recPc
    /\ UNCHANGED <<row, tx, creator, recCopy, attempt, expired, chain, history>>

\* Unknown id, foreign tenant, or a status the handler does not accept.
Refuse(r) ==
    /\ pc[r] = "idle"
    /\ Finish(r)
    /\ UNCHANGED <<tables, creator, reconcilers, expired, chain, history>>

-----------------------------------------------------------------------------
(* CreateIntent *)

SamePayloadExists(i) ==
    \E j \in Intent : row[j].status # "none" /\ PayloadOf[j] = PayloadOf[i]

\* The idempotency check: with a key, any intent with the same payload makes
\* the request a duplicate (409); an error of the listing is dropped.
CreateIntent(i) ==
    /\ creator[i] = "idle"
    /\ \/ /\ i \in Keyed /\ SamePayloadExists(i)
          /\ creator' = [creator EXCEPT ![i] = "done"]
       \/ /\ i \in Keyed => ~SamePayloadExists(i) \/ "store" \in Faults
          /\ creator' = [creator EXCEPT ![i] = "insert"]
    /\ UNCHANGED <<tables, pc, copy, reconcilers, expired, chain, history>>

InsertIntent(i) ==
    /\ creator[i] = "insert"
    /\ \/ /\ row' = [row EXCEPT ![i] = NewIntent]
          /\ creator' = [creator EXCEPT ![i] = "log"]
       \/ /\ "store" \in Faults
          /\ creator' = [creator EXCEPT ![i] = "done"]
          /\ UNCHANGED row
    /\ UNCHANGED <<tx, audit, pc, copy, reconcilers, expired, chain, history>>

LogCreated(i) ==
    /\ creator[i] = "log"
    /\ Logged(i, "created")
    /\ creator' = [creator EXCEPT ![i] = "done"]
    /\ UNCHANGED <<row, tx, pc, copy, reconcilers, expired, chain, history>>

-----------------------------------------------------------------------------
(* ApproveIntent, RejectIntent, CancelIntent *)

\* A wrong ApproveIntent: a rejected intent may be approved after all.
ApproveIntentAgain(r) ==
    /\ pc[r] = "idle"
    /\ row[TargetOf[r]].status \in {"pending", "rejected"}
    /\ Goto(r, "decide", row[TargetOf[r]])
    /\ UNCHANGED <<tables, creator, reconcilers, expired, chain, history>>

ApproveIntent(r) ==
    /\ pc[r] = "idle"
    /\ row[TargetOf[r]].status = "pending"
    /\ Goto(r, "decide", row[TargetOf[r]])
    /\ UNCHANGED <<tables, creator, reconcilers, expired, chain, history>>

\* The policy engine or the ZK verifier says no.
DenyApproval(r) ==
    /\ pc[r] = "decide"
    /\ Goto(r, "saveAnyway", Rejected(copy[r], "policy_denied"))
    /\ UNCHANGED <<tables, creator, reconcilers, expired, chain, history>>

\* Evaluation or proof generation fails: a "failed" event, the row is left alone.
AbortApproval(r) ==
    /\ pc[r] = "decide"
    /\ Logged(TargetOf[r], "failed")
    /\ Finish(r)
    /\ UNCHANGED <<row, tx, creator, reconcilers, expired, chain, history>>

GrantApproval(r) ==
    /\ pc[r] = "decide"
    /\ Goto(r, "save", Approved(copy[r]))
    /\ authorized' = authorized \cup {TargetOf[r]}
    /\ UNCHANGED <<tables, creator, reconcilers, expired, chain, late>>

\* RejectIntent has no condition on the status.
RejectIntent(r) ==
    /\ pc[r] = "idle"
    /\ row[TargetOf[r]].status # "none"
    /\ Goto(r, "save", Rejected(row[TargetOf[r]], "rejected"))
    /\ UNCHANGED <<tables, creator, reconcilers, expired, chain, history>>

CancelIntent(r) ==
    /\ pc[r] = "idle"
    /\ row[TargetOf[r]].status \in {"pending", "executing"}
    /\ Goto(r, "save", Rejected(row[TargetOf[r]], "rejected"))
    /\ UNCHANGED <<tables, creator, reconcilers, expired, chain, history>>

-----------------------------------------------------------------------------
(* ExecuteIntent *)

\* A wrong ExecuteIntent: a pending intent is executed too.
ExecuteIntentUnapproved(r) ==
    /\ pc[r] = "idle"
    /\ SerialClient => \A q \in Request : TargetOf[q] = TargetOf[r] => ~ExecuteInFlight(q)
    /\ row[TargetOf[r]].status \in {"pending", "approved"}
    /\ Goto(r, "check", row[TargetOf[r]])
    /\ UNCHANGED <<tables, creator, reconcilers, expired, chain, history>>

ExecuteIntent(r) ==
    /\ pc[r] = "idle"
    /\ SerialClient => \A q \in Request : TargetOf[q] = TargetOf[r] => ~ExecuteInFlight(q)
    /\ row[TargetOf[r]].status = "approved"
    /\ Goto(r, "check", row[TargetOf[r]])
    /\ UNCHANGED <<tables, creator, reconcilers, expired, chain, history>>

\* GetTransactionByNonce finds a record of the intent (nonces are unique).
TransactionExists(i) == \E q \in Request : TargetOf[q] = i /\ tx[q] # "none"

\* Wrong CheckExecutions: without the duplicate lookup, without the expiry check.
CheckExecutionNoLookup(r) ==
    /\ pc[r] = "check"
    /\ IF TargetOf[r] \in expired THEN Goto(r, "saveAnyway", Expired(copy[r]))
                                  ELSE Goto(r, "save", Executing(copy[r]))
    /\ UNCHANGED <<tables, creator, reconcilers, expired, chain, history>>

CheckExecutionNoExpiry(r) ==
    /\ pc[r] = "check"
    /\ IF TransactionExists(TargetOf[r]) THEN Finish(r)
                                         ELSE Goto(r, "save", Executing(copy[r]))
    /\ UNCHANGED <<tables, creator, reconcilers, expired, chain, history>>

\* Expiry first, then the duplicate check; an error of that lookup is dropped
\* and reads as "no transaction".
CheckExecution(r) ==
    /\ pc[r] = "check"
    /\ \/ TargetOf[r] \in expired /\ Goto(r, "saveAnyway", Expired(copy[r]))
       \/ TargetOf[r] \notin expired /\ TransactionExists(TargetOf[r]) /\ Finish(r)
       \/ /\ TargetOf[r] \notin expired
          /\ ~TransactionExists(TargetOf[r]) \/ "store" \in Faults
          /\ Goto(r, "save", Executing(copy[r]))
    /\ UNCHANGED <<tables, creator, reconcilers, expired, chain, history>>

\* Simulation, the second policy evaluation or MPC signing fails.
FailExecution(r) ==
    /\ \/ pc[r] = "simulate" /\ Goto(r, "saveAnyway", Failed(copy[r], "simulation_failed"))
       \/ pc[r] = "policy" /\ Goto(r, "saveAnyway", Failed(copy[r], "policy_denied"))
       \/ pc[r] = "sign" /\ Goto(r, "saveAnyway", Failed(copy[r], "signing_failed"))
    /\ UNCHANGED <<tables, creator, reconcilers, expired, chain, history>>

Simulate(r) ==
    /\ pc[r] = "simulate"
    /\ Logged(TargetOf[r], "simulated")
    /\ Goto(r, "policy", copy[r])
    /\ UNCHANGED <<row, tx, creator, reconcilers, expired, chain, history>>

EvaluatePolicy(r) ==
    /\ pc[r] = "policy"
    /\ Goto(r, "sign", copy[r])
    /\ UNCHANGED <<tables, creator, reconcilers, expired, chain, history>>

Sign(r) ==
    /\ pc[r] = "sign"
    /\ Logged(TargetOf[r], "signed")
    /\ Goto(r, "submit", copy[r])
    /\ UNCHANGED <<row, tx, creator, reconcilers, expired, chain, history>>

\* SubmitTransaction.  The cluster takes the transaction or does not; the
\* handler learns the signature, an error, or, from an answer without a
\* "signature" member, success with an empty signature.
Submit(r) ==
    /\ pc[r] = "submit"
    /\ \/ /\ chain' = [chain EXCEPT ![r] = "pending"]
          /\ \/ Goto(r, "save", Submitted(copy[r], r))
             \/ "rpc" \in Faults /\ Goto(r, "save", Submitted(copy[r], NoSig))
             \/ "rpc" \in Faults /\ Goto(r, "saveAnyway", Failed(copy[r], "submission_failed"))
       \/ /\ Goto(r, "saveAnyway", Failed(copy[r], "submission_failed"))
          /\ UNCHANGED chain
    /\ UNCHANGED <<tables, creator, reconcilers, expired, history>>

\* txStore.Create, whose error is dropped.
RecordTransaction(r) ==
    /\ pc[r] = "record"
    /\ \/ /\ tx' = [tx EXCEPT ![r] = "submitted"]
          /\ late' = late \cup (Awaited(TargetOf[r]) \X {"record"})
       \/ "store" \in Faults /\ UNCHANGED <<tx, late>>
    /\ Goto(r, "log", copy[r])
    /\ UNCHANGED <<row, audit, creator, reconcilers, expired, chain, authorized>>

-----------------------------------------------------------------------------
(* Reconciler *)

RecGoto(r, p, c) ==
    /\ recPc' = [recPc EXCEPT ![r] = p]
    /\ recCopy' = [recCopy EXCEPT ![r] = c]

\* Start reads the row, which another handler may have written since.
ReconcileRead(r) ==
    LET now == row[TargetOf[r]] IN
    /\ recPc[r] = "start"
    /\ \/ /\ now.status # "submitted" \/ "store" \in Faults
          /\ RecGoto(r, "done", NoRow)
       \/ /\ now.status = "submitted" /\ now.sig = NoSig
          /\ RecGoto(r, "save", Failed(now, "reconciliation"))
       \/ /\ now.status = "submitted" /\ now.sig # NoSig
          /\ RecGoto(r, "poll", now)
    /\ UNCHANGED <<tables, handlers, attempt, expired, chain, history>>

\* A wrong ReconcileConfirmed: any answer about the signature is a confirmation.
ReconcileConfirmedUnchecked(r) ==
    /\ recPc[r] = "poll"
    /\ RecGoto(r, "save", Confirmed(recCopy[r]))
    /\ UNCHANGED <<tables, handlers, attempt, expired, chain, history>>

\* WaitForConfirmation returns true only for a confirmed transaction.
ReconcileConfirmed(r) ==
    /\ recPc[r] = "poll"
    /\ chain[recCopy[r].sig] = "confirmed"
    /\ RecGoto(r, "save", Confirmed(recCopy[r]))
    /\ UNCHANGED <<tables, handlers, attempt, expired, chain, history>>

\* Wrong ReconcileRetrys: one attempt too many, and no last attempt.
ReconcileRetryOnceMore(r) ==
    /\ recPc[r] = "poll"
    /\ attempt' = [attempt EXCEPT ![r] = @ + 1]
    /\ IF attempt[r] < MaxAttempts
       THEN UNCHANGED <<recPc, recCopy>>
       ELSE RecGoto(r, "save", Failed(recCopy[r], "confirmation_timeout"))
    /\ UNCHANGED <<tables, handlers, expired, chain, history>>

ReconcileRetryForever(r) ==
    /\ recPc[r] = "poll"
    /\ attempt' = [attempt EXCEPT ![r] = (@ + 1) % MaxAttempts]
    /\ UNCHANGED <<recPc, recCopy>>
    /\ UNCHANGED <<tables, handlers, expired, chain, history>>

\* It returns an error for a failed transaction, an unreachable RPC node or
\* one that has not seen the confirmation; the last attempt gives up.
ReconcileRetry(r) ==
    /\ recPc[r] = "poll"
    /\ attempt' = [attempt EXCEPT ![r] = @ + 1]
    /\ IF attempt[r] + 1 < MaxAttempts
       THEN UNCHANGED <<recPc, recCopy>>
       ELSE RecGoto(r, "save", Failed(recCopy[r], "confirmation_timeout"))
    /\ UNCHANGED <<tables, handlers, expired, chain, history>>

\* Wrong ReconcileSaves: failIntent ends without its audit event, failIntent
\* settles the transaction record as confirmIntent does.
ReconcileSaveSilently(r) ==
    /\ recPc[r] = "save"
    /\ row' = [row EXCEPT ![TargetOf[r]] = recCopy[r]]
    /\ IF recCopy[r].status = "confirmed" THEN RecGoto(r, "settleTx", recCopy[r])
                                          ELSE RecGoto(r, "done", NoRow)
    /\ UNCHANGED <<tx, audit, handlers, attempt, expired, chain, history>>

ReconcileSaveSettling(r) ==
    /\ recPc[r] = "save"
    /\ row' = [row EXCEPT ![TargetOf[r]] = recCopy[r]]
    /\ RecGoto(r, "settleTx", recCopy[r])
    /\ UNCHANGED <<tx, audit, handlers, attempt, expired, chain, history>>

\* confirmIntent and failIntent save the row they read at the start.
ReconcileSave(r) ==
    /\ recPc[r] = "save"
    /\ \/ /\ row' = [row EXCEPT ![TargetOf[r]] = recCopy[r]]
          /\ RecGoto(r, IF recCopy[r].status = "confirmed" THEN "settleTx" ELSE "log",
                     recCopy[r])
       \/ /\ "store" \in Faults
          /\ RecGoto(r, "done", NoRow)
          /\ UNCHANGED row
    /\ UNCHANGED <<tx, audit, handlers, attempt, expired, chain, history>>

\* confirmIntent marks the first transaction record of the intent, whichever
\* request made it; without a record, or on an error, it goes on.
SettleTransaction(r) ==
    /\ recPc[r] = "settleTx"
    /\ \/ \E q \in Request : /\ TargetOf[q] = TargetOf[r] /\ tx[q] # "none"
                             /\ tx' = [tx EXCEPT ![q] = "confirmed"]
       \/ /\ ~TransactionExists(TargetOf[r]) \/ "store" \in Faults
          /\ UNCHANGED tx
    /\ RecGoto(r, "log", recCopy[r])
    /\ UNCHANGED <<row, audit, handlers, attempt, expired, chain, history>>

ReconcileLog(r) ==
    /\ recPc[r] = "log"
    /\ Logged(TargetOf[r], recCopy[r].status)
    /\ RecGoto(r, "done", NoRow)
    /\ UNCHANGED <<row, tx, handlers, attempt, expired, chain, history>>

-----------------------------------------------------------------------------
(* Environment *)

\* The clock passes the intent's Expiry (one hour after its creation).
PassExpiry(i) ==
    /\ row[i].status # "none" /\ i \notin expired
    /\ expired' = expired \cup {i}
    /\ late' = late \cup (Awaited(i) \X {"expiry"})
    /\ UNCHANGED <<tables, handlers, reconcilers, chain, authorized>>

\* The cluster decides a transaction; a dropped one stays pending.
ChainSettles(r) ==
    /\ chain[r] = "pending"
    /\ \E o \in {"confirmed", "failed"} : chain' = [chain EXCEPT ![r] = o]
    /\ UNCHANGED <<tables, handlers, reconcilers, expired, history>>

\* The process dies, or its shutdown does not wait for handlers and
\* reconcilers.  Start-up resumes none of them.
Crash ==
    /\ "crash" \in Faults
    /\ creator' = [i \in Intent |-> IF creator[i] = "idle" THEN "idle" ELSE "done"]
    /\ pc' = [r \in Request |-> IF pc[r] = "idle" THEN "idle" ELSE "done"]
    /\ copy' = [r \in Request |-> NoRow]
    /\ recPc' = [r \in Request |-> IF recPc[r] = "none" THEN "none" ELSE "done"]
    /\ recCopy' = [r \in Request |-> NoRow]
    /\ UNCHANGED <<tables, attempt, expired, chain, history>>

-----------------------------------------------------------------------------

Arrive(r) ==
    \/ Refuse(r) \/ ApproveIntent(r) \/ ExecuteIntent(r)
    \/ RejectIntent(r) \/ CancelIntent(r)

Handle(r) ==
    \/ DenyApproval(r) \/ AbortApproval(r) \/ GrantApproval(r)
    \/ CheckExecution(r) \/ Simulate(r) \/ EvaluatePolicy(r) \/ Sign(r)
    \/ FailExecution(r) \/ Submit(r) \/ RecordTransaction(r)
    \/ Save(r) \/ SaveAnyway(r) \/ Log(r)

Create(i) == InsertIntent(i) \/ LogCreated(i)

Reconcile(r) ==
    \/ ReconcileRead(r) \/ ReconcileConfirmed(r) \/ ReconcileRetry(r)
    \/ ReconcileSave(r) \/ SettleTransaction(r) \/ ReconcileLog(r)

Next ==
    \/ \E i \in Intent : CreateIntent(i) \/ Create(i) \/ PassExpiry(i)
    \/ \E r \in Request : Arrive(r) \/ Handle(r) \/ Reconcile(r) \/ ChainSettles(r)
    \/ Crash

Spec == Init /\ [][Next]_vars

\* Goroutines that have started are scheduled; clients, the clock and the
\* cluster owe nothing.
Fairness ==
    /\ \A i \in Intent : WF_vars(Create(i))
    /\ \A r \in Request : WF_vars(Handle(r)) /\ WF_vars(Reconcile(r))

FairSpec == Spec /\ Fairness

-----------------------------------------------------------------------------
(* Safety, whatever fails and however handlers interleave *)

\* Every transaction on the cluster belongs to an intent that an approve
\* handler passed through policy and ZK verification, however many handlers
\* overwrite each other's copy of the row (docs/invariants.md, I1).
AuthorizedSubmission ==
    \A r \in Request : chain[r] # "none" => TargetOf[r] \in authorized

\* The books agree with the chain although every Save writes back a stale
\* copy of the whole row: a signature in a row is that of a transaction the
\* cluster took for this very intent, and a row that is or once was
\* "confirmed" names a transaction that the chain confirmed.
BooksMatchChain ==
    \A i \in Intent :
        /\ row[i].sig # NoSig => /\ TargetOf[row[i].sig] = i
                                 /\ chain[row[i].sig] # "none"
        /\ row[i].status = "confirmed" => row[i].confirmedAt = "set"
        /\ row[i].confirmedAt = "set" => row[i].sig # NoSig /\ chain[row[i].sig] = "confirmed"

Terminal == {"confirmed", "rejected", "expired", "failed"}

\* No handler or reconciler of the intent is in flight.
Quiet(i) ==
    /\ creator[i] \in {"idle", "done"}
    /\ \A r \in Request : TargetOf[r] = i => /\ pc[r] \in {"idle", "done"}
                                             /\ recPc[r] \in {"none", "done"}

\* An intent that is confirmed, rejected, expired or failed while nothing of
\* it is in flight never becomes live again: a later handler may reject it,
\* no handler approves, executes or submits it.
TerminalStaysTerminal ==
    \A i \in Intent : [](row[i].status \in Terminal /\ Quiet(i)
                            => [](row[i].status \in Terminal))

\* A request that arrives after the intent's expiry never puts a transaction
\* on the chain, whoever approves or overwrites the row meanwhile (I9).
ExpiredNeverSubmitted ==
    \A r \in Request : <<r, "expiry">> \in late => chain[r] = "none"

\* A request that arrives after the transaction record of its intent was
\* stored never submits again, even when a stale approval has set the row
\* back to "approved": the nonce lookup, not the status, stops it (I3).
RecordedNeverResubmitted ==
    \A r \in Request : <<r, "record">> \in late => chain[r] = "none"

Announced(i, e) ==
    \/ <<i, e>> \in audit
    \/ creator[i] = "log" /\ e = "created"
    \/ \E r \in Request : /\ TargetOf[r] = i
                          /\ \/ pc[r] \in {"record", "log"} /\ copy[r].status = e
                             \/ recPc[r] \in {"settleTx", "log"} /\ recCopy[r].status = e

\* The status of every row has its audit event, or the handler that wrote it
\* is about to insert the event: no overwrite of one handler's row by another
\* leaves a status that nobody reports (I7, while inserts succeed and the
\* process lives).
AuditTrail ==
    \A i \in Intent : row[i].status # "none" =>
        Announced(i, IF row[i].status = "pending" THEN "created" ELSE row[i].status)

-----------------------------------------------------------------------------
(* Safety of a client that waits for its answers, when nothing fails *)

\* At most one transaction per intent reaches the chain (I3).
AtMostOnce ==
    \A q, r \in Request :
        TargetOf[q] = TargetOf[r] /\ chain[q] # "none" /\ chain[r] # "none" => q = r

\* A transaction record that says "confirmed" is the record of a transaction
\* the chain confirmed: confirmIntent, which marks the first record of the
\* intent, marks the right one.
RecordsMatchChain ==
    \A r \in Request : tx[r] = "confirmed" => chain[r] = "confirmed"

-----------------------------------------------------------------------------
(* Liveness *)

\* The reconciler polls until the outcome is known: a submitted intent does
\* not stay submitted (README.md, step 8).
SubmittedResolved ==
    \A i \in Intent : row[i].status = "submitted" ~> row[i].status # "submitted"

-----------------------------------------------------------------------------
(* The inductive strengthening of the safety invariants *)

\* A request starts its reconciler last, and that polls at most MaxAttempts times.
AttemptInv ==
    \A r \in Request :
        /\ pc[r] # "done" => recPc[r] = "none"
        /\ recPc[r] \in {"none", "start"} => attempt[r] = 0
        /\ recPc[r] = "poll" => attempt[r] < MaxAttempts

Live == {"none", "pending", "approved", "executing", "submitted"}

\* A row or a copy of it that may be written back for intent i.
RowOK(i, c) ==
    /\ c.sig # NoSig => TargetOf[c.sig] = i /\ chain[c.sig] # "none"
    /\ c.status = "confirmed" => c.confirmedAt = "set"
    /\ c.status \in Live => c.confirmedAt = "null"
    /\ c.confirmedAt = "set" => c.sig # NoSig /\ chain[c.sig] = "confirmed"
    /\ c.status \in {"approved", "executing", "submitted", "confirmed"} => i \in authorized

\* A handler that can still submit has not submitted yet, and what its copy
\* of the row says follows from where it stands.
HandlerAt(p, c, fate) ==
    /\ p = "idle" => c.status = "none"
    /\ p = "decide" => c.status = "pending"
    /\ p = "check" => c.status = "approved"
    /\ p \in {"simulate", "policy", "sign", "submit"} => c.status = "executing"
    /\ p = "record" => c.status = "submitted"
    /\ p \in {"save", "saveAnyway", "log"} => c.status \notin {"none", "pending"}
    /\ p \in {"idle", "decide", "check"} \/ c.status = "executing" => fate = "none"

HandlerOK(r) == RowOK(TargetOf[r], copy[r]) /\ HandlerAt(pc[r], copy[r], chain[r])

ReconcilerAt(p, c) ==
    /\ p = "poll" => c.status = "submitted" /\ c.sig # NoSig
    /\ p = "settleTx" => c.status = "confirmed"
    /\ p \in {"save", "log"} => c.status \in {"confirmed", "failed"}

ReconcilerOK(r) == RowOK(TargetOf[r], recCopy[r]) /\ ReconcilerAt(recPc[r], recCopy[r])

ChainInv ==
    /\ \A i \in Intent : RowOK(i, row[i])
    /\ \A r \in Request : HandlerOK(r) /\ ReconcilerOK(r)
    /\ AuthorizedSubmission

\* Requests that came too late neither have submitted nor ever will.
LateInv ==
    \A r \in Request :
        /\ <<r, "expiry">> \in late => TargetOf[r] \in expired
        /\ <<r, "record">> \in late => TransactionExists(TargetOf[r])
        /\ (\/ <<r, "expiry">> \in late
            \/ <<r, "record">> \in late /\ "store" \notin Faults)
           => chain[r] = "none" /\ copy[r].status # "executing"

Reliable == SerialClient /\ Faults \cap {"store", "rpc", "crash"} = {}

\* When Reliable: what was submitted is recorded or its handler is about to
\* record it, and a handler that may submit is alone and has no predecessor.
OnceInv ==
    /\ \A r \in Request :
          /\ tx[r] # "none" \/ copy[r].status = "submitted" => chain[r] # "none"
          /\ chain[r] # "none" => \/ tx[r] # "none"
                                  \/ pc[r] \in {"save", "record"} /\ copy[r].status = "submitted"
          /\ copy[r].status = "executing" =>
                \A q \in Request : TargetOf[q] = TargetOf[r] => chain[q] = "none"
    /\ \A q, r \in Request :
          TargetOf[q] = TargetOf[r] /\ ExecuteInFlight(q) /\ ExecuteInFlight(r) => q = r
    /\ AtMostOnce
    /\ RecordsMatchChain
=============================================================================
