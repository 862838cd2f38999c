---------------------------- MODULE SolanaClient ----------------------------
(***************************************************************************)
(* core/solana_client.go as ExecuteIntent and the reconciler use it: one   *)
(* transaction is submitted with retries over an RPC connection that loses *)
(* and delays requests and answers; if that yields a signature, the        *)
(* reconciler waits for its confirmation in rounds of polls.               *)
(*                                                                         *)
(* Time is in seconds.  A request costs nothing (an answer or a refusal    *)
(* comes at once) or the whole HTTP timeout.                               *)
(***************************************************************************)
EXTENDS Naturals

CONSTANTS
    MaxRetries,     \* maxRetries (3)
    MaxAttempts,    \* maxAttempts of the reconciler (60)
    HttpTimeout,    \* Timeout of the HTTP client (30)
    Interval        \* pollInterval and the reconciler's pause (2)

ASSUME RpcAssumption ==
    {MaxRetries, MaxAttempts} \subseteq Nat \ {0} /\ {HttpTimeout, Interval} \subseteq Nat

Polls == MaxRetries * 10

VARIABLES
    pc,         \* where the goroutine stands
    attempt,    \* attempt of SubmitTransaction
    round,      \* attempt of the reconciler
    poll,       \* attempt of WaitForConfirmation
    clock,      \* seconds spent in SubmitTransaction, then in the reconciler
    result,     \* what SubmitTransaction returned
    outcome,    \* what the reconciler decided
    wire,       \* a request that nobody waits for is still on its way
    chain       \* the fate of the transaction; its bytes, hence its signature,
                \* are the same in every attempt, so it is taken at most once

client == <<pc, attempt, round, poll, clock, result, outcome>>
rpcVars   == <<client, wire, chain>>

RpcTypeOK ==
    /\ pc \in {"submit", "pause", "poll", "done"}
    /\ attempt \in 0 .. MaxRetries
    /\ round \in 0 .. MaxAttempts
    /\ poll \in 0 .. Polls
    /\ clock \in Nat
    /\ result \in {"none", "signed", "unsigned", "rejected", "error"}
    /\ outcome \in {"none", "confirmed", "timeout", "unsigned"}
    /\ wire \in BOOLEAN
    /\ chain \in {"none", "pending", "confirmed", "failed"}

RpcInit ==
    /\ pc = "submit"
    /\ attempt = 0 /\ round = 0 /\ poll = 0 /\ clock = 0
    /\ result = "none" /\ outcome = "none"
    /\ wire = FALSE
    /\ chain = "none"

Accepted == IF chain = "none" THEN "pending" ELSE chain

-----------------------------------------------------------------------------
(* SubmitTransaction *)

Backoff(a) == IF 2 ^ a > 10 THEN 10 ELSE 2 ^ a

\* SubmitTransaction returns r: the handler stores the intent as failed, or as
\* submitted and starts the reconciler, which fails an intent without signature.
\* The clock starts over, so it never shows what the last attempt cost.
Return(r) ==
    /\ result' = r
    /\ pc' = IF r = "signed" THEN "pause" ELSE "done"
    /\ outcome' = IF r = "unsigned" THEN "unsigned" ELSE outcome
    /\ clock' = 0
    /\ UNCHANGED <<attempt, round, poll>>

\* The attempt failed after cost seconds: back off and try again, or return r.
RetryOr(r, cost) ==
    IF attempt < MaxRetries
    THEN /\ attempt' = attempt + 1
         /\ clock' = clock + cost + Backoff(attempt)
         /\ UNCHANGED <<pc, round, poll, result, outcome>>
    ELSE Return(r)

\* sendRPC fails: refused, timed out, or an answer that is not JSON.  The
\* cluster did not get the request, got it, or has yet to get it.
SubmitLost ==
    /\ pc = "submit"
    /\ \E cost \in {0, HttpTimeout} : RetryOr("error", cost)
    /\ \/ UNCHANGED <<wire, chain>>
       \/ chain' = Accepted /\ UNCHANGED wire
       \/ wire' = TRUE /\ UNCHANGED chain

\* A wrong handling of RPC errors: they are read as an answer.
SubmitRefusedIgnored ==
    /\ pc = "submit"
    /\ Return("unsigned")
    /\ UNCHANGED <<wire, chain>>

\* The node answers with an RPC error, for a new transaction or for one it
\* has already processed.
SubmitRefused ==
    /\ pc = "submit"
    /\ \E cost \in {0, HttpTimeout} : RetryOr("rejected", cost)
    /\ UNCHANGED <<wire, chain>>

\* The node takes the transaction and answers.  The result is a signature, an
\* object without one, or something json.Unmarshal cannot put into a struct.
SubmitTaken ==
    /\ pc = "submit"
    /\ chain' = Accepted
    /\ \E r \in {"signed", "unsigned", "error"} : Return(r)
    /\ UNCHANGED wire

-----------------------------------------------------------------------------
(* Reconciler.Start and WaitForConfirmation *)

\* The pause at the top of every round of the reconciler.
Pause ==
    /\ pc = "pause"
    /\ pc' = "poll" /\ poll' = 0
    /\ clock' = clock + Interval
    /\ UNCHANGED <<attempt, round, result, outcome, wire, chain>>

\* WaitForConfirmation returns an error: next round, or the timeout.
RoundFails ==
    /\ round' = round + 1
    /\ IF round + 1 < MaxAttempts
       THEN pc' = "pause" /\ UNCHANGED outcome
       ELSE pc' = "done" /\ outcome' = "timeout"

\* A wrong loop of WaitForConfirmation: errors do not count.
PollAgainFree ==
    /\ pc = "poll"
    /\ UNCHANGED rpcVars

\* A wrong loop of WaitForConfirmation: one poll too many.
PollAgainOnceMore ==
    /\ pc = "poll"
    /\ \E cost \in {0, HttpTimeout} : clock' = clock + cost + Interval
    /\ poll' = poll + 1
    /\ IF poll < Polls THEN UNCHANGED <<pc, round, outcome>> ELSE RoundFails
    /\ UNCHANGED <<attempt, result, wire, chain>>

\* No answer, no status, or one that is not yet "confirmed".
PollAgain ==
    /\ pc = "poll"
    /\ \E cost \in {0, HttpTimeout} : clock' = clock + cost + Interval
    /\ poll' = poll + 1
    /\ IF poll + 1 < Polls THEN UNCHANGED <<pc, round, outcome>> ELSE RoundFails
    /\ UNCHANGED <<attempt, result, wire, chain>>

\* The status carries an error: WaitForConfirmation returns at once.
PollFailed ==
    /\ pc = "poll"
    /\ chain = "failed"
    /\ \E cost \in {0, HttpTimeout} : clock' = clock + cost
    /\ RoundFails
    /\ UNCHANGED <<attempt, poll, result, wire, chain>>

PollConfirmed ==
    /\ pc = "poll"
    /\ chain = "confirmed"
    /\ \E cost \in {0, HttpTimeout} : clock' = clock + cost
    /\ pc' = "done" /\ outcome' = "confirmed"
    /\ UNCHANGED <<attempt, round, poll, result, wire, chain>>

-----------------------------------------------------------------------------
(* The network and the cluster *)

Deliver ==
    /\ wire
    /\ wire' = FALSE
    /\ chain' = Accepted
    /\ UNCHANGED client

ChainSettles ==
    /\ chain = "pending"
    /\ \E o \in {"confirmed", "failed"} : chain' = o
    /\ UNCHANGED <<client, wire>>

Client ==
    \/ SubmitLost \/ SubmitRefused \/ SubmitTaken
    \/ Pause \/ PollAgain \/ PollFailed \/ PollConfirmed

RpcNext == Client \/ Deliver \/ ChainSettles

RpcSpec == RpcInit /\ [][RpcNext]_rpcVars

-----------------------------------------------------------------------------

\* What the client reports did happen, although requests are repeated and
\* answers get lost: a submission it calls successful was taken by the
\* cluster, and an intent it calls confirmed was confirmed.
ReportsAreTrue ==
    /\ result \in {"signed", "unsigned"} => chain # "none"
    /\ outcome = "confirmed" => chain = "confirmed"

\* How long one execution can hold a request goroutine and a reconciler: at
\* most MaxRetries HTTP timeouts and backoffs (at most 10 s each) before the last
\* attempt of SubmitTransaction, which takes one more timeout at most, then
\* MaxAttempts rounds of one pause and Polls polls.
TimeBound ==
    clock <= IF result = "none"
             THEN MaxRetries * (HttpTimeout + 10)
             ELSE MaxAttempts * (Interval + Polls * (Interval + HttpTimeout))

\* Submission and reconciliation come to an end whatever the network and the
\* cluster do: no answer is awaited for ever.
Ends == <>(pc = "done")

-----------------------------------------------------------------------------
(* A statement of the documentation that the code does not keep *)

\* threat-model.md, RPC timeouts: "reconciliation monitors confirmation": what
\* the cluster took is handed to a reconciler, with or without a signature to
\* ask for.  Not so when SubmitTransaction returns an error for it.
TakenIsMonitored == chain # "none" /\ result # "none" => result \in {"signed", "unsigned"}
=============================================================================
