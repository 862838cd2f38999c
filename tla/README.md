# VaultForge: a TLA+ verification project

VaultForge is a treasury API: a client proposes a transfer (an *intent*), the
server checks it against policies and a zero-knowledge proof, simulates, signs
with a 2-of-3 threshold signer, submits it to Solana and reconciles the outcome.
The modules in this directory model the parts of it in which order, failure and
concurrency matter, TLC checks them on small instances, and TLAPS proves
their safety properties for instances of every size. `PROJECT.json` holds the
machine-readable side: components, runs, the map from definitions to source
lines, mutants, hazards and theorems.

Paths below are relative to `services/api/` of the repository unless they start
with `crates/`, `programs/` or `docs/`.

## 1. Inventory

### The parts

| Part | State | Operations | Interaction |
|---|---|---|---|
| Intent handlers (`routes/intent_routes.go`) | a private copy of the row | create, approve, execute, reject, cancel | read and overwrite rows, call every other part, start a reconciler |
| Stores (`core/stores.go`) | tables `intents`, `transactions`, `audit_events` | create, read, whole-row `Save` | shared by all handlers, no locks, versions or transactions |
| Reconciler (`core/reconciler.go`) | a copy of the row, a loop counter | poll, confirm, fail | one goroutine per submitted execution, started by `ExecuteIntent` only |
| Audit log (`core/audit.go`) | `audit_events` | one insert per event | called after the row is saved; a failing insert is printed |
| Solana client (`core/solana_client.go`) | none of its own | submit with retries, poll for confirmation | HTTP requests that get lost, delayed or repeated |
| Policy engine (`core/policy_engine.go`) | reads `policies`, `wallets` | evaluate seven kinds of rule | called on approval and again before signing |
| ZK verifier (`core/zk_verifier.go`) | none | generate and verify a proof | called on approval |
| MPC signer (`core/mpc_signer.go`) | reads `mpc_shares` | sign with two shares | called during execution |
| Transaction builder (`core/transaction_builder.go`) | fields of one transaction | simulate, build | called twice during execution |
| Rate limiter (`core/ratelimit.go`) | map of token buckets | allow, clean up | shared by all request goroutines |
| Webhooks (`core/webhook.go`) | registered endpoints | notify, deliver with retries | one goroutine per delivery |
| Middleware, validation (`routes/middleware.go`, `core/auth.go`, `core/validation.go`) | none | header checks, deadline, field checks | around every handler |
| Server (`main.go`, `core/config.go`) | process, connection pool | start, shut down | nothing is resumed at start-up; requests are awaited at shutdown, other goroutines are not |
| Health checks (`core/health.go`) | the pool's limit | liveness, readiness | the readiness probe changes the pool that everybody uses |
| Metrics (`core/metrics.go`) | counters | count, record latency, snapshot | incremented by every request, read by `/metrics` without a lock |
| Rust crates `policy`, `zk`, `mpc`, `transaction`, `solana`, `crypto`, `types` | signing sessions, shares | evaluation, proofs, DKG, signing | library code that the Go server re-implements and does not call |
| Vault program (`programs/vault_policy`) | vault account | initialise, set policy, verify intent, record signer | on-chain, called by nobody in the repository |

### What is hard here

* **Stale rows.** Every handler reads a row, computes for a long time and writes
  the whole row back; the reconciler does the same. Two handlers of one intent
  overwrite each other in any order.
* **Check, then act.** The status check, the nonce lookup and the write of
  `executing` are three statements; so are the idempotency check and the insert
  of a new intent.
* **Lost answers.** A submission may reach the cluster although its answer is
  lost; the client repeats it.
* **Crashes.** A restart stops handlers and reconcilers between two statements.
* **Silent errors.** Failing audit inserts, transaction-record inserts and most
  row updates on error paths are ignored.
* **Time.** Intents expire, policies have time windows, the transaction bytes
  contain the time, retries and polls nest.
* **Tables that change under way.** Policies and shares are edited while an
  intent is between its stations.
* **Concurrent buckets.** A tenant's bucket is created by two map operations and
  may be removed while a request holds it.
* **One pool.** Requests, reconcilers and probes wait for connections of one
  pool, whose limit a probe lowers to one.
* **Two answers.** The deadline's answer is written after the handler's own, and
  what of it the client sees depends on a timeout that the environment sets.
* **Stopping.** The database is closed under goroutines that nobody awaits.
* **Repeated posts.** A webhook that timed out may have arrived, or arrive later,
  one that was answered with an error may have been processed; both are posted
  again.

The hazards in `PROJECT.json` list each of these at its line.

### What makes each part correct

* Handlers, stores, reconciler: nothing is submitted that was not authorised;
  rows never claim more than the chain shows; an expired or already recorded
  intent is not submitted again; a finished intent stays finished; every status
  is audited; a submitted intent is resolved; for a well-behaved client at most
  one transfer is sent.
* Solana client: reports are true, take bounded time and are always made.
* Policy engine, proof, signer: what is sent obeyed each rule at both evaluations,
  has a proof for itself alone and a signature by two shares over what was
  simulated.
* Rate limiter: no window sees more requests than burst and rate allow.
* Webhooks: an event counts as delivered only if it was, is repeated only for
  want of a 2xx answer, and its delivery ends in bounded time.
* Server, pool, probes, metrics: every request is answered, by a stopping
  server too; what a snapshot shows could have been.
* Vault program: intents are verified within the limits of the vault's owner,
  and signers stay what they were.

## 2. The modules

| Module | Models |
|---|---|
| `IntentLifecycle` | handlers, stores, reconciler, audit log, crash; the core of the project |
| `Treasury` | abstract: authorise, send at most once, settle, report |
| `IntentRefinement` | the mapping from `IntentLifecycle` to `Treasury` |
| `SolanaClient` | `SubmitTransaction`, `WaitForConfirmation` and the reconciler's loop around it, in seconds |
| `RateLimiter` | the token bucket of one tenant under concurrent goroutines |
| `PolicyEngine` | the rules and `Evaluate` as operators |
| `ZkPolicy` | prover and verifier as operators over symbolic hashes |
| `ExecutionPipeline` | composes the two with validation, simulation, signing and submission |
| `ZkCrate` | `crates/zk`: builder, prover and verifier as operators |
| `PolicyCrate` | `crates/policy`: an engine that composes its rules with the proofs of `ZkCrate` |
| `ThresholdSigning` | `crates/mpc`: key generation, shares, signers, signatures |
| `WebhookDelivery` | endpoints, events and the goroutine of each delivery |
| `ApiServer` | middleware stack, connection pool, probes, metrics, shutdown |
| `VaultProgram` | `programs/vault_policy`: the accounts and the four instructions |
| `IntentLifecycleProofs`, `IntentOnceProofs`, `IntentRefinementProofs` | theorems on `IntentLifecycle` and its refinement |
| `ExecutionPipelineProofs` | theorems on `ExecutionPipeline`, `PolicyEngine` and `ZkPolicy` |
| `OutboundProofs` | theorems on `SolanaClient` and `WebhookDelivery` |
| `ApiServerProofs` | theorems on `ApiServer` |
| `RateLimiterProofs`, `ComponentProofs` | theorems on the limiter; on `PolicyCrate`, `ThresholdSigning`, `VaultProgram` and the components side by side |
| `MC...` | finite instances for TLC; `MCOutbound` and `MCComponents` put components that share no state side by side |

### IntentLifecycle

`row`, `tx` and `audit` are the three tables. For each request `r` (approve,
execute, reject or cancel; `Arrive` picks which), `pc[r]` says where its handler
stands and `copy[r]` is the row it works on; `recPc[r]`, `recCopy[r]` and
`attempt[r]` belong to the reconciler it may have started. `chain[r]` is what
became of the transaction that `r` submitted. A row keeps the fields the control
flow reads or the properties mention: status, failure reason, signature (named
by the request that obtained it) and `ConfirmedAt`.

One action is one access to shared state: a read of the row with the checks that
follow it, a save, an insert, an RPC. Between two such accesses handlers
interleave freely, exactly as in the code, which holds no lock. Error paths that
ignore the result of `Update` are `SaveAnyway`; a failing store, audit insert or
RPC answer and a crash happen only if `Faults` contains their kind. Policy, proof,
simulation and signing succeed or fail nondeterministically here; what decides
them is in `ExecutionPipeline`. The history variables `authorized` and `late`
record which intents passed verification and which requests arrived after the
expiry, or after the transaction record, of their intent.

### SolanaClient

One transaction from the first `sendTransaction` to the reconciler's verdict. An
answer may be lost whether or not the request arrives, now or later (`wire`), may
be an RPC error, may carry no signature, or may not fit the struct it is
unmarshalled into. Every request, answered or not, costs nothing or the whole HTTP
timeout. `clock` counts the seconds that the goroutine of the request, then
that of the reconciler, is held.

### RateLimiter

`entry` is the tenant's entry of the `sync.Map`, `tokens` and `lastTime` are the
fields of a bucket, counted in fractions of a token so that a tick may earn less
than one. `Load` and `LoadOrStore` are two steps, `Take` is one since it is done
under the bucket's mutex; `Cleanup` visits the map between them. `start`,
`allowed` and `strays` observe a window that may begin at any time.

### PolicyEngine, ZkPolicy, ExecutionPipeline

An intent's amount is an integer in the request, a sequence of digits in the row
(`AmountToString`) and an integer again for the engine (`parseIntentAmount`,
with the wrap-around of `int64` scaled to `MaxInt`). A malformed configuration
is `Bad`, with the fallback of each rule. SHA-256 is symbolic: a digest is what
was hashed. The actions of `ExecutionPipeline` are the stations of one intent;
each looks at the tables as they are at that moment, and the operator may edit
`policies` and `mpc_shares` (no handler writes them) and the clock may advance
between any two of them. `obeyed` is history: it says by the meaning of the
rules for the amount asked for, and not by the engine, whether the intent obeyed
the active rules at each of its evaluations. A daily limit is read there for the
intent alone, as the engine reads it; `DailySpendingKept` reads it for the day.

### ZkCrate, PolicyCrate, ThresholdSigning

The Rust crates are libraries without a caller in the repository; each public
function that changes or reads state is an action, and the caller may use them
in any order. `PolicyCrate` has the engine's map of policies, the proof at hand
and the last verdict; `Relabel` overwrites the public fields of a proof, as the
crate's own tests do, and `built` remembers what the builder was given. Labels
are sequences of characters since the crate hashes version, intent and wallet
without separators, and so are the fields of a signing context. `ThresholdSigning` has the caller's shares, the signers that
hold copies of them and the signatures made. A digest is again what was hashed.

### WebhookDelivery

`endpoints` is the table, `delivery[<<n, e>>]` the goroutine that brings event `n`
to endpoint `e`. A post without an answer may have been lost, received, or be
still on its way (`wire`), to arrive at any later time, also when the process is
gone. An endpoint that answers with another status than 2xx may have taken the
copy all the same. `unacknowledged` counts the posts without a 2xx answer; it is
history, and so are `received` and `wire`, which the endpoint knows and the sender
does not. `clock` counts the
seconds of a delivery.

### ApiServer

An actor is a client connection, which serves one request at a time, or a
reconciler. `at` says where it stands: in the middleware chain, waiting for a
connection of the pool or holding one, at one of the three metrics operations
after the handler, at one of the three reads of a snapshot, or about to send. What
handlers do to rows is in `IntentLifecycle`; here each is a list of statements,
of which one is enough for handlers that read and three (load, save, the query of
`Notify`) for those that change an intent. Everything a statement may return is
tried. gin runs middleware around the handler, so the order in which requests are
refused, counted and answered is that of `main.go`: what CORS or the limiter
answer is never counted, what `AuthMiddleware` refuses is. A request is followed to
the end of its handler: the deadline interrupts nothing, and what the client sees
of a late answer depends on `WRITE_TIMEOUT`. `arrived`, `answered` and `stranded`
are history variables.

### VaultProgram

`vaults` has at most one account per owner, since the address is derived from the
owner's key. The result of an instruction is the first of its checks that fails,
the constraints of the account structs included; a failing instruction changes
nothing. Anchor writes back only accounts marked `mut`, which the vault of
`verify_intent` is not. `verified` remembers an accepted intent until the
policy changes, `wanted` the limits that each owner asked for last.

### MCOutbound, MCComponents

Components that do not interact need not be interleaved. A variable (`client_of`,
`focus`), chosen at the start and never changed, says which of them the behaviour
follows; the others stay as they were. The reachable states are those of the
components one by one, and each invariant is checked on all of them.

## 3. The runs

All finish within the five minutes on two workers.

| Run | Instance | Shows |
|---|---|---|
| `lifecycle_faults` | 1 intent, 3 requests, store, RPC and crash faults | `TypeOK`, `AuthorizedSubmission`, `BooksMatchChain`, `ExpiredNeverSubmitted` |
| `serial_client` | 2 intents of one payload, 4 requests, no faults, a client that awaits each execution of an intent (creations may overlap) | `AtMostOnce`, `RecordsMatchChain`, `RecordedNeverResubmitted`, and `ImplementsTreasury`: refinement of `Treasury` |
| `lifecycle_temporal` | 1 intent, 3 requests, no faults, fair | `AuditTrail`, `TerminalStaysTerminal`, `SubmittedResolved` |
| `outbound` | RPC: 3 retries, 30 polls, 2 rounds; webhooks: 1 endpoint, 2 events, 3 tries; fair | `OutboundTypeOK`, `ReportsAreTrue`, `TimeBound`, `ExecutionEnds`; `DeliveryHonest`, `DeliveryTimeBound`, `DeliveryEnds` |
| `components`, limiter | 2 goroutines, 3 buckets, 5 instants, with clean-up | `ComponentsTypeOK` (of all but the pipeline), `RateBound`, `BucketInv` |
| `components`, pipeline | 3 intents, 9 kinds of policy row, 2 shares, 2 instants | `PipelineTypeOK`, `RulesKept`, `ProofsBind`, `QuorumSigned` |
| `components`, policy | 2 policy keys, 4 amounts, 6 pairs of labels | `ZkAllowSound`, `HonestProofAccepted` |
| `components`, signing | 3 nodes, 1 key, 8 contexts, 2 signatures | `ErasedNeverSigns`, `ContextBound` |
| `components`, vault | 2 owners, up to 3 signers, thresholds 0 to 4, 3 amounts | `VerifiedObeysOwner`, `SignersFixed` |
| `api_server` | 2 connections, 3 requests, a reconciler, a pool of 2, fair | `ApiTypeOK`, `StopsClean`, `SnapshotOrdered`, `RequestAnswered` |
| `double_execution` | as the first, no faults | **violation** of `AtMostOnce` |
| `crash_strands_submitted` | crash only, fair | **violation** of `SubmittedResolved` |
| `taken_unmonitored` | one round | **violation** of `TakenIsMonitored` |
| `daily_spending` | 2 intents, 1 policy row | **violation** of `DailySpendingKept` |
| `signed_not_submitted` | 2 intents | **violation** of `SignedIsSubmitted` |
| `snapshot_torn` | as `api_server` | **violation** of `SnapshotPointInTime` |

### Why the bounds are enough

* Handlers touch only their own intent (apart from the idempotency check, for
  which there are two), so one intent shows every interleaving; the second in
  `serial_client` is there for creation. Three requests let an approval, an
  execution and a reject or a second execution overlap; four let two executions
  follow each other around a stale approval. The proofs remove these bounds.
* A failing audit insert (`"audit"`) only leaves an event out and no handler
  reads events; no run has it, the proofs allow it like every other fault.
* One or two reconciler attempts stand for 60: an attempt only counts.
* `RateLimiter`'s `Rate = 4`, `Unit = 3` make fractions matter; three buckets
  let one be removed and two goroutines race to create the next.
* In `ExecutionPipeline` the verdict is a conjunction over rows, so two rows at a
  time (`MaxRows = 2`), exchanged at any moment, show each rule changing
  between the stations while another one holds. The amounts 10, 40 and 60 lie
  below, between and above the limits and the third beyond the limit of the proof.
* Policy crate: amounts 0, 1, 25000 and 25001 lie on both sides of the default
  limit and of the limit 1 given to a builder; two of the label pairs read the
  same one after the other. One proof at a time suffices, since the engine
  remembers none. Signing crate: two signatures are what `ContextBound` compares;
  of the eight contexts five differ from the first in one field each and two divide
  its bytes differently; no and one named participant lie on both sides of the
  threshold.
* Deliveries of two events do not touch each other's goroutines, and an endpoint
  sees the events of one goroutine each, so one endpoint and two events show
  duplicates and overtaking. Three tries stand for five: first, middle and last.
  The instance has one tenant and two event types; the test of the tenant is a
  conjunct like that of the type.
* `ApiServer`: a pool of two can be exhausted by two actors and shrunk to one;
  three actors can then wait for it. Three requests let one request finish
  completely while another takes a snapshot or shuts down under a third. One
  reconciler at a time is enough to meet a closed pool.
* Vault program: one list of signers fits exactly, one is too long; every
  threshold outside 1 to 3 has its neighbour inside. `MaxNonce = 2` stands for
  2^64 - 1, which a nonce that is never stored cannot reach.
* Requests are symmetric (`TargetOf` is constant), which three runs use; symmetry is not
  used with liveness or where components stand side by side.
* `CHECK_DEADLOCK FALSE` in the lifecycle and client runs: the requests are
  finitely many and when all are served and the reconcilers have ended the
  system stops. Where the clock or the operator can always move, deadlock is
  checked.

### Fairness

`lifecycle_temporal` and `crash_strands_submitted` assume weak fairness of each
started goroutine (`Create`, `Handle`, `Reconcile`): the Go scheduler runs
runnable goroutines, RPC calls have a timeout and database calls are taken to return. `outbound`
assumes the same of the one goroutine (`Client`) and of each delivery.
`api_server` assumes it of each request (`Serve`), of each statement (`Step`) and of
`main`, and strong fairness of `Acquire`: `database/sql` gives a freed connection
to a waiter chosen at random, so no waiter is passed over for ever. Nothing is assumed of clients,
the clock, the network or the cluster: a submitted intent is resolved even if
the cluster never decides, because the reconciler gives up.

### What the violation runs show

Each is a disagreement between a document of the repository and the code;
`PROJECT.json` quotes the line.

* `double_execution`: overlapping execute requests both pass the status check
  and the nonce lookup and both submit (`docs/invariants.md`, I3 and I10).
* `crash_strands_submitted`: nothing resumes the reconciliation after a restart,
  so a submitted intent stays submitted (`README.md`).
* `taken_unmonitored`: the cluster takes the transaction, the result of its answer
  does not unmarshal into the struct, and the intent is stored as failed and not
  monitored (`docs/threat-model.md`); so it is when every answer is lost. (An answer
  without a signature is another matter: there the intent is stored as submitted
  and a reconciler starts.)
* `daily_spending`: the daily limit is compared with each intent alone, so the
  intents of one day may exceed it together (`docs/architecture.md`).
* `signed_not_submitted`: the transaction is built twice, with the time in it
  (`docs/invariants.md`, I8).
* `snapshot_torn`: the "point-in-time copy" of the metrics is read counter by
  counter and may show more errors than requests (`core/metrics.go`).

Observed while modelling, without a run of its own.

* Intents: a reject or cancel stored while an execution is under way does not stop
  signing and is overwritten; an intent that expires after the check is submitted
  all the same; two overlapping creations with one idempotency key both insert,
  since lookup and insert are two statements; after a double execution the record
  that `confirmIntent` marks need not be that of the confirmed transaction; the
  comment "~2 minutes" in the reconciler overlooks that each of the 60 attempts
  polls 30 times; a crash between a save and its audit insert loses the event; the
  request deadline is ignored by the handlers; an amount above 100000 leaves an
  intent pending with a server error; an active `required_signatures` row (the seed
  data contains one) rejects every intent, since nothing ever adds an approver;
  policies that change after the second evaluation are not looked at; shares are
  not selected by tenant.
* Rust crates: `evaluate` takes any loaded policy, whoever's it is, which does not
  show as long as `load_policy` gives all of them the same rules;
  `evaluate_with_zk` is not told the intent, so a proof serves every intent of its
  amount, and labels that read the same one after the other share a proof, while
  its comment says that the proof is bound to "this specific intent_id and
  policy_version"; a signer computes the partial signatures of all participants
  from its own share, so that one available signer signs alone when it is given the
  name of a participant, against I5 of `docs/invariants.md`, and the `ShareZeroized`
  error cannot occur; `message()` puts the fields of a context one after the other
  without separators, so contexts that divide the same bytes differently share a
  signature (`ContextBound` says when they cannot).
* Server: the first readiness probe leaves the pool of 25 (`main.go`) with one
  connection for good, and `RequestAnswered` holds all the same only because no
  handler asks for a second connection while it holds one; a handler that outlives
  the deadline gets the timeout's body appended to its own, which the client sees
  unless the write timeout has cut the connection (`WRITE_TIMEOUT` is taken from
  the environment as it is, and 0 is no timeout); refused requests (429) are not
  counted by the metrics; reconcilers and deliveries are not awaited at shutdown,
  and a reconciler may find the pool closed.
* Webhooks: later events overtake earlier ones, and a copy of a timed-out post may
  come after the event has been delivered and followed by others; a rejected event
  is retried like a lost one, also when the endpoint has processed it.
* Vault program: the nonce that its comment calls "replay protection" is neither
  compared nor stored, so an intent verifies again; the space of the accounts lacks
  the eight bytes of the discriminator, so that no vault with three signers and no
  signer record can be created although the program provides for both; a limit of
  zero is no limit, and a daily limit is again one per intent.

## 4. The proofs

TLAPS checks every theorem to the last leaf. Every invariant that a passing run checks, the
action properties `TerminalStaysTerminal` and `SignersFixed` and the refinement are theorems, for every
value of the constants that satisfies the named assumptions of the modules; what
a theorem needs beyond them is a hypothesis in its statement.

`IntentLifecycleProofs`, for any intents, requests, faults and number of attempts:

* `TypeCorrect`: `Spec => []TypeOK`. The loop counter needs `AttemptInv`: a
  reconciler that polls has attempts left.
* `SubmissionsAuthorized`, `BooksAgreeWithChain`: from `ChainInv`. Since any copy
  of a row may be written back at any time, whatever is to hold of the table
  must hold of *every copy* in flight: `RowOK` says so of the table, of each
  handler's copy and of each reconciler's. `HandlerAt` and `ReconcilerAt` tie a
  copy to the place in the code, which is what the status check alone can no
  longer do once another handler has changed the row. `RowOK` is stable because
  `chain` and `authorized` only grow.
* `ExpiredRequestsNeverSubmit`, `RecordedIntentsNotResubmitted`: from `LateInv`.
  A request that arrives late never holds an `executing` copy. For the
  transaction record this needs a store that answers (`"store" \notin Faults`):
  `ExecuteIntent` treats a failing lookup as "no record".

* `AuditTrailComplete`: `AuditTrail` is inductive next to `ChainInv`. A handler
  that overwrites another's row logs the status it wrote, so the status in the
  table is always announced by whoever wrote last. The hypothesis is that audit
  inserts succeed and the process does not crash; store and RPC may fail.
* `SettledIntentsStaySettled`: with no fault excluded. `Settled` is stable: once
  nothing of a terminal intent is in flight, every request that arrives later
  reads a terminal status, so all it can write is another rejection.

`IntentOnceProofs` and `IntentRefinementProofs`, for any intents and requests but
under `Reliable`: a client that awaits each execution of an intent, and no
failing store, RPC answer or process (`double_execution` shows that the first is
needed; a dropped error of the lookup or of the record's insert, a lost answer
or a crash between submission and record break the others).

* `OneTransferPerIntent`, `RecordsAgreeWithChain`: from `OnceInv`. What was sent
  is recorded, or its handler is on the way to record it; that handler counts as
  in flight, so the next execution starts only after the record is there and its
  lookup finds it. A handler that holds an `executing` copy therefore knows that
  nothing was sent, whatever the row said when it was read. As there is one
  transaction per intent, the record that `confirmIntent` finds by the intent is
  the one whose signature was confirmed.
* `Refinement`: every step of the server is a step of `Treasury` or changes
  nothing there. Writing back a stale copy maps to a report or its withdrawal;
  `ChainInv` says that a copy that claims a confirmation has one.

`RateLimiterProofs`, for any goroutines, buckets, rate, burst and clock:

* `RateLimited`: `Spec => []RateBound`, from `BucketInv`: what the current
  bucket holds, or could be refilled to, plus what was allowed in the window
  never exceeds burst plus earnings (`Level`). Tokens allowed by a bucket that
  was removed while a request held it are counted in `strays`; without clean-up
  (the server never calls it) there are none. If buckets are removed, an idle
  one must have had time to fill up (`AgeSuffices`), for otherwise a fresh full
  bucket would be a gain.
* `BucketsWellFormed`: `Spec => []TypeOK`: no bucket holds more than a full load.

`ApiServerProofs`, for any connections, pool size and number of requests, from one
inductive invariant `ApiInv`:

* `GracefulStop`: `Drained` counts: answered requests and those in flight add up
  to the accepted ones, and after `Shutdown` none is in flight, so only the
  reconciler can still meet a closed pool.
* `SnapshotsOrdered`: `Ordered`. The latencies trail the requests by at least the
  requests between the two counters; a half-taken snapshot is below what it is
  going to read.
* `ApiTyped`: every state is well formed.

`OutboundProofs`, for any number of retries (there are ten polls for each),
rounds, endpoints, events, tries and any timeouts:

* `SolanaReportsTrue`, `SolanaTimeBounded`: `ClockInv` bounds the clock by whole
  tries, whole rounds and whole polls of the current round, according to the
  loop the goroutine is in; the products are kept apart from the linear steps.
* `DeliveriesHonest`, `DeliveriesTimely`: `WebhookInv`. Each copy beyond the
  acknowledged one belongs to a post without a 2xx answer, of which there is one per
  try (`Honest`); after `n` pauses the
  clock is at most `n` timeouts and `2^n - 1` seconds (`Timely`). The provers
  know no law of `^`; `2^n` is treated as the number of subsets of `1..n`, for
  which the library has one.
* `OutboundTyped`: both together.

`ExecutionPipelineProofs`, for any intents, amounts, policy rows, shares and edits:

* `SignedByQuorum`, `ProofsBound`: `PipelineInv` says of each paper whose it is
  and that it stays what it was made; the bindings then follow from the
  structure of what is hashed.
* `RulesAreKept`: `RulesInv`, for each rule as it reads for one intent. An intent that is neither rejected nor failed
  obeyed whenever it was evaluated. `Obeys` speaks of the amount asked for, the
  engine of the digits it parses, so the proof rests on `ReadsBack`:
  `parseIntentAmount` of `AmountToString[n]` is `n` for every `n` up to `MaxInt`.
  The library's induction rules are of no use to the installed provers, so this
  is proved by least counterexamples: `Least` (from well-foundedness of `<` on
  `Nat`) gives every non-empty set of naturals a least element, which is used
  to show that the recursive functions exist, are unique, agree on common
  prefixes, and finally that no amount is read back wrongly. In particular
  `Wrap` never wraps for these digits.
* `PipelineTyped`: each station finds the papers it needs.

`ComponentProofs`, for any instance of the three libraries and the program:

* `VerifiedWithinPolicy`, `SignersStay`: `VaultInv`. The limits of a vault are
  those its owner asked for last, since nobody else's call has its address.
* `NoSignatureFromErased`: `SigningInv`. A signer's health is settled by the share
  it got, which it keeps.
* `SignaturesBindContext`: for any contexts whatever. The fields are hashed without
  separators, so equal signatures mean equal concatenations (`MessageSplits`); the
  contexts are then equal too if their hashes have equal lengths and neither chain
  name begins with the other, as is the case for `solana`, `ethereum` and `polygon`.
* `AllowedWasProved`, `HonestProofsPass`: `PolicyInv`. All policies are the default
  one, and an answer follows from policies and proof.
* `ComponentsTyped`: with `AgeSuffices`, as for the limiter.

Assumptions that only say that a placeholder is not a value (`NoneAssumption`,
`NothingAssumption`, `AbsentAssumption`, `NoVaultAssumption`) stand for `nil` and `None` and are
evaluated by TLC like the others.

Four inductive invariants are listed as theorems themselves (`CopiesAreTruthful`,
`LateRequestsHoldNothing`, `OnceInvariant`, `BucketInvariant`); the others are
lemmas in the proof modules.

Only model-checked: liveness (`SubmittedResolved`, `ExecutionEnds`, `DeliveryEnds`,
`RequestAnswered`), since fairness and `ENABLED` are out of the prover's reach.
TLC alone also shows the violations, and that no run deadlocks where that is
checked.

## 5. What is not modelled

* The Rust crates `transaction` and `solana`: transaction builders and a replay
  key with one flag, which nothing calls; `crypto` and `types`: hash helpers and records.
* SHA-256 and elliptic curves: symbolic instead.
* JSON, HTTP formatting, request ids, log lines, response headers; the checks of
  fields other than the amount, which are stateless.
* `config.go`, migrations, seed data, deployment scripts.
* The wallet and audit stores of `stores.go` and `ValidateJWT`, which have no
  caller; the counters of `metrics.go` that nothing increments.
* `mocks.go` and `cmd/e2e`: test doubles and a test client.
* Webhook notifications inside `IntentLifecycle`: the handlers call `Notify` at
  their end, it returns at once and changes no table. Their deliveries are
  `WebhookDelivery`, their query is a statement of `ApiServer`.

## 6. Plan

All modules of the plan are written and every safety property of the runs is
proved. Left for proofs, in this order:

1. Step lemmas behind liveness that need no fairness: each step of a reconciler,
   of a delivery and of the submission loop lowers a variant (rounds, polls and
   tries left), so that what TLC adds for a small instance is only the scheduler.
2. `RecordedNeverResubmitted` and `AtMostOnce` under weaker hypotheses: which of
   the faults each of them really excludes.
