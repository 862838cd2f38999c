----------------------------- MODULE ApiServer ------------------------------
(***************************************************************************)
(* The server around the intent handlers: main.go's middleware stack, the  *)
(* connection pool the handlers and the reconciler share, the health and   *)
(* metrics endpoints, and the shutdown.  What the handlers do to an intent *)
(* is the business of IntentLifecycle; here a request is a number of       *)
(* statements, each of which needs a database connection.                  *)
(***************************************************************************)
EXTENDS Naturals, FiniteSets

CONSTANTS
    Conn,               \* client connections; one request at a time on each
    Reconciler,         \* the goroutine an execution leaves behind
    PoolSize,           \* SetMaxOpenConns in main (25)
    MaxRequests         \* bound on the requests

ASSUME ConnAssumption == IsFiniteSet(Conn) /\ Reconciler \notin Conn
ASSUME PoolAssumption == PoolSize \in Nat \ {0} /\ MaxRequests \in Nat

Actor == Conn \cup {Reconciler}

VARIABLES
    server,     \* where main stands
    at,         \* where an actor stands
    kind,       \* what it is serving
    left,       \* the statements it has yet to run
    status,     \* the status of its answer
    maxOpen,    \* the pool's limit
    using,      \* the actors that hold a connection of the pool
    metrics,    \* the MetricsCollector: requests, latencies, errors
    partial,    \* the snapshot a /metrics request is taking or sends
    arrived,    \* history: requests accepted
    answered,   \* history: requests whose handler returned
    stranded    \* history: actors that met a closed pool

pool     == <<maxOpen, using>>
counters == <<metrics, partial>>
totals   == <<arrived, answered>>
apiVars  == <<server, at, kind, left, status, pool, counters, totals, stranded>>

Kind == {"options", "plain", "ready", "metrics", "read", "change", "execute"}

NoSnapshot == [requests |-> 0, latencies |-> 0, errors |-> 0]

ApiInit ==
    /\ server = "up"
    /\ at = [a \in Actor |-> "idle"]
    /\ kind = [a \in Actor |-> "options"]
    /\ left = [a \in Actor |-> 0]
    /\ status = [a \in Actor |-> "ok"]
    /\ maxOpen = PoolSize
    /\ using = {}
    /\ metrics = NoSnapshot
    /\ partial = [c \in Conn |-> NoSnapshot]
    /\ arrived = 0 /\ answered = 0
    /\ stranded = {}

Alive == server \notin {"stopped", "killed"}

InFlight == {c \in Conn : at[c] # "idle"}

Goto(a, p) == at' = [at EXCEPT ![a] = p]

-----------------------------------------------------------------------------
(* The middleware stack *)

\* A request arrives on a connection.
Arrive(c, k) ==
    /\ server = "up"
    /\ at[c] = "idle"
    /\ arrived < MaxRequests
    /\ arrived' = arrived + 1
    /\ kind' = [kind EXCEPT ![c] = k]
    /\ Goto(c, "chain")
    /\ UNCHANGED <<server, left, status, pool, counters, answered, stranded>>

Headers == [auth : {"none", "malformed", "bearer"}, tenant : {"none", "junk", "mixed", "clean"}]

\* Characters that are not allowed are dropped.
SanitizeTenantID(tenant) ==
    CASE tenant = "junk" -> "none" [] tenant = "mixed" -> "clean" [] OTHER -> tenant

ValidateAPIKey(auth, tenant) == auth = "bearer" /\ tenant # "none"

AuthMiddleware(h) ==
    LET sanitized == SanitizeTenantID(h.tenant)
    IN  /\ h.tenant # "none"
        /\ sanitized # "none"
        /\ h.auth # "none" => ValidateAPIKey(h.auth, sanitized)

Versioned(k) == k \in {"read", "change", "execute"}

\* Where the handler of a request starts, and the statements it runs: one for
\* the handlers that only read; a handler that changes an intent reads it, saves
\* it and loads the webhook endpoints in Notify.  (These three stand for longer
\* lists; an audit insert, whose error is ignored too, is like Notify's query.)
FirstStep(k) == CASE k = "plain" -> "count" [] k = "metrics" -> "range"
                  [] k = "ready" -> "probe" [] OTHER -> "want"

Statements(k) == IF k \in {"change", "execute", "reconcile"} THEN 3 ELSE 1

\* CORS answers OPTIONS; the limiter may refuse, before anything is counted;
\* Auth guards the /v1 group.  A body that is malformed or too long is found
\* by the handler before its first statement.
Chain(c) ==
    LET Leave(p, s) == Goto(c, p) /\ status' = [status EXCEPT ![c] = s] /\ UNCHANGED left
        Enter == /\ Goto(c, FirstStep(kind[c]))
                 /\ left' = [left EXCEPT ![c] = Statements(kind[c])]
                 /\ UNCHANGED status
    IN  /\ Alive
        /\ at[c] = "chain"
        /\ \/ kind[c] = "options" /\ Leave("flush", "ok")
           \/ kind[c] # "options" /\ Leave("flush", "error")
           \/ /\ Versioned(kind[c])
              /\ \E h \in Headers : IF AuthMiddleware(h) THEN Enter ELSE Leave("count", "error")
           \/ kind[c] = "change" /\ Leave("count", "error")
           \/ kind[c] \in {"plain", "ready", "metrics"} /\ Enter
        /\ UNCHANGED <<server, kind, pool, counters, totals, stranded>>

\* The middleware returns and the server sends what was written.
\* TimeoutMiddleware, which never interrupts a handler, may have appended an
\* answer of its own; how much of either reaches the client depends on the
\* write deadline and is not told apart here.
Flush(c) ==
    /\ Alive
    /\ at[c] = "flush"
    /\ answered' = answered + 1
    /\ Goto(c, "idle")
    /\ kind' = [kind EXCEPT ![c] = "options"]
    /\ status' = [status EXCEPT ![c] = "ok"]
    /\ left' = [left EXCEPT ![c] = 0]
    /\ UNCHANGED <<server, pool, counters, arrived, stranded>>

-----------------------------------------------------------------------------
(* The pool and the statements *)

\* checkDB sets the limit of the pool everybody uses, then pings.
checkDB(c) ==
    /\ Alive
    /\ at[c] = "probe"
    /\ maxOpen' = 1
    /\ Goto(c, "want")
    /\ UNCHANGED <<server, kind, left, status, using, counters, totals, stranded>>

\* database/sql hands out a connection when fewer than the limit are in use.
Acquire(a) ==
    /\ Alive /\ server # "closed"
    /\ at[a] = "want"
    /\ Cardinality(using) < maxOpen
    /\ using' = using \cup {a}
    /\ Goto(a, "hold")
    /\ UNCHANGED <<server, kind, left, status, maxOpen, counters, totals, stranded>>

\* Where an actor goes when its handler or goroutine returns.
EndOf(a) == IF a = Reconciler THEN "idle" ELSE "count"

\* The answer of the readiness probe.
readiness(ping, rpc) == IF ping /\ rpc THEN "ok" ELSE "error"

\* The statement returned ok or an error: the next one, or the end.  Only Notify
\* goes on after an error; a probe asks the RPC node as well, whatever the ping
\* said.  The end of a successful execution starts a reconciler.  (There is one
\* at a time.)
After(a, ok) ==
    LET last  == left[a] = 1
        fails == ~ok /\ ~(last /\ Statements(kind[a]) = 3)
        ends  == last \/ fails
        spawn == last /\ kind[a] = "execute" /\ at[Reconciler] = "idle"
        New(b, old, mine, reconcilers) ==
            IF b = a THEN mine ELSE IF b = Reconciler /\ spawn THEN reconcilers ELSE old
        Outcomes == IF kind[a] = "ready" THEN {readiness(ok, rpc) : rpc \in BOOLEAN}
                    ELSE {IF fails /\ a \in Conn THEN "error" ELSE status[a]}
    IN  /\ at' = [b \in Actor |-> New(b, at[b], IF ends THEN EndOf(a) ELSE "want", "want")]
        /\ left' = [b \in Actor |-> New(b, left[b], IF ends THEN 0 ELSE left[a] - 1,
                                        Statements("reconcile"))]
        /\ kind' = [b \in Actor |-> New(b, kind[b], kind[a], "reconcile")]
        /\ \E s \in Outcomes : status' = [status EXCEPT ![a] = s]

\* A wrong statement: it keeps its connection until the handler is through.
RunHolding(a) ==
    /\ Alive
    /\ at[a] = "hold"
    /\ using' = IF left[a] = 1 THEN using \ {a} ELSE using
    /\ \E ok \in BOOLEAN : After(a, ok)
    /\ UNCHANGED <<server, maxOpen, counters, totals, stranded>>

\* The statement ends and gives its connection back.
Run(a) ==
    /\ Alive
    /\ at[a] = "hold"
    /\ using' = using \ {a}
    /\ \E ok \in BOOLEAN : After(a, ok)
    /\ UNCHANGED <<server, maxOpen, counters, totals, stranded>>

\* A statement on a closed pool fails at once.
Refused(a) ==
    /\ server = "closed"
    /\ at[a] = "want"
    /\ stranded' = stranded \cup {a}
    /\ After(a, FALSE)
    /\ UNCHANGED <<server, pool, counters, totals>>

-----------------------------------------------------------------------------
(* Metrics: every counter is atomic, a snapshot of them is not *)

\* A wrong MetricsMiddleware: only successes are counted.
CountSuccesses(c) ==
    /\ Alive
    /\ at[c] = "count"
    /\ metrics' = [metrics EXCEPT !.requests = IF status[c] = "ok" THEN @ + 1 ELSE @]
    /\ partial' = [partial EXCEPT ![c] = NoSnapshot]
    /\ Goto(c, "latency")
    /\ UNCHANGED <<server, kind, left, status, pool, totals, stranded>>

IncrRequestCount(c) ==
    /\ Alive
    /\ at[c] = "count"
    /\ metrics' = [metrics EXCEPT !.requests = @ + 1]
    /\ partial' = [partial EXCEPT ![c] = NoSnapshot]
    /\ Goto(c, "latency")
    /\ UNCHANGED <<server, kind, left, status, pool, totals, stranded>>

RecordLatency(c) ==
    /\ Alive
    /\ at[c] = "latency"
    /\ metrics' = [metrics EXCEPT !.latencies = @ + 1]
    /\ Goto(c, IF status[c] = "error" THEN "error" ELSE "flush")
    /\ UNCHANGED <<server, kind, left, status, pool, partial, totals, stranded>>

IncrRequestErrors(c) ==
    /\ Alive
    /\ at[c] = "error"
    /\ metrics' = [metrics EXCEPT !.errors = @ + 1]
    /\ Goto(c, "flush")
    /\ UNCHANGED <<server, kind, left, status, pool, partial, totals, stranded>>

\* SnapshotWithDB: the buckets first, then the request counter, then the errors.
SnapshotWithDB(c) ==
    /\ Alive
    /\ at[c] \in {"range", "loadCount", "loadErrors"}
    /\ partial' = [partial EXCEPT ![c] =
                      CASE at[c] = "range"      -> [NoSnapshot EXCEPT !.latencies = metrics.latencies]
                        [] at[c] = "loadCount"  -> [@ EXCEPT !.requests = metrics.requests]
                        [] at[c] = "loadErrors" -> [@ EXCEPT !.errors = metrics.errors]]
    /\ Goto(c, CASE at[c] = "range" -> "loadCount" [] at[c] = "loadCount" -> "loadErrors"
                 [] at[c] = "loadErrors" -> "count")
    /\ UNCHANGED <<server, kind, left, status, pool, metrics, totals, stranded>>

-----------------------------------------------------------------------------
(* Shutdown *)

Main(from, to) ==
    /\ server = from
    /\ server' = to
    /\ UNCHANGED <<at, kind, left, status, pool, counters, totals, stranded>>

Signal == Main("up", "stopping")

\* A wrong Shutdown: it closes the listener and returns.
ShutdownAtOnce == Main("stopping", "draining")

\* Shutdown accepts nothing more and returns when no request is in flight.
Shutdown == InFlight = {} /\ Main("stopping", "draining")

\* Shutdown's context expires first: os.Exit(1).
ShutdownTimeout == InFlight # {} /\ Main("stopping", "killed")

CloseDB == Main("draining", "closed")

MainReturns == Main("closed", "stopped")

-----------------------------------------------------------------------------

Step(a) == Run(a) \/ Refused(a)

Serve(c) ==
    \/ Chain(c) \/ Flush(c) \/ checkDB(c) \/ IncrRequestCount(c) \/ RecordLatency(c)
    \/ IncrRequestErrors(c) \/ SnapshotWithDB(c)

ApiNext ==
    \/ \E c \in Conn, k \in Kind : Arrive(c, k)
    \/ \E c \in Conn : Serve(c)
    \/ \E a \in Actor : Acquire(a) \/ Step(a)
    \/ Signal \/ Shutdown \/ ShutdownTimeout \/ CloseDB \/ MainReturns

ApiSpec == ApiInit /\ [][ApiNext]_apiVars

\* Goroutines run, statements end, and a freed connection goes to a waiter that
\* the pool picks at random, so nobody is passed over for ever.
ApiFairSpec ==
    /\ ApiSpec
    /\ \A c \in Conn : WF_apiVars(Serve(c))
    /\ \A a \in Actor : WF_apiVars(Step(a)) /\ SF_apiVars(Acquire(a))
    /\ WF_apiVars(Shutdown \/ CloseDB \/ MainReturns)

-----------------------------------------------------------------------------
(* Properties *)

\* Every state is well formed; connections are held exactly by running statements.
ApiTypeOK ==
    /\ server \in {"up", "stopping", "draining", "closed", "stopped", "killed"}
    /\ maxOpen \in {1, PoolSize}
    /\ using = {a \in Actor : at[a] = "hold"}
    /\ \A a \in Actor : at[a] \in {"want", "hold"} => left[a] \in 1 .. Statements(kind[a])
    /\ answered + Cardinality(InFlight) = arrived

\* A graceful stop loses no request: once Shutdown has returned, every accepted
\* request has been answered, and none of them ever met the closed pool.  (A
\* reconciler may.)
StopsClean ==
    /\ server \in {"draining", "closed", "stopped"} => answered = arrived
    /\ stranded \cap Conn = {}

\* The snapshot in the answer of a /metrics request is complete.
Snapped(c) == kind[c] = "metrics" /\ at[c] = "count"

\* A snapshot never shows more latencies than requests, whatever finishes while
\* it is taken: the counter is incremented before the bucket and read after it.
SnapshotOrdered ==
    \A c \in Conn : Snapped(c) => partial[c].latencies <= partial[c].requests

\* Every accepted request is answered, also by a pool of one connection that it
\* shares with others and with reconcilers, unless the process is killed.
\* Answered means that the handler has returned and the server sends what it
\* wrote: past the write deadline nothing of that reaches the client.
RequestAnswered == \A c \in Conn : (at[c] = "chain") ~> (at[c] = "idle" \/ server = "killed")

-----------------------------------------------------------------------------
(* A statement of the code's comments that the code does not keep *)

\* metrics.go: "returns a point-in-time copy of all metrics": at no point in
\* time have more requests failed than were counted.
SnapshotPointInTime ==
    \A c \in Conn : Snapped(c) => partial[c].errors <= partial[c].requests
=============================================================================
