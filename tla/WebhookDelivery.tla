-------------------------- MODULE WebhookDelivery ---------------------------
(***************************************************************************)
(* core/webhook.go: endpoints are registered, an event is sent to every    *)
(* endpoint that matches it, and each delivery is a goroutine of its own   *)
(* that posts the event until a 2xx answer arrives or its tries are used   *)
(* up.  Requests and answers get lost, and a request that timed out may    *)
(* still arrive.  Nobody waits for these goroutines when the server stops. *)
(***************************************************************************)
EXTENDS Integers, FiniteSets

CONSTANTS
    Endpoint,           \* ids of endpoints
    EndpointTenant,     \* tenants
    EventType,          \* event types ("intent.approved", ...)
    AnyType,            \* "*"
    DeliveryTries,      \* maxRetries (5 in the code)
    DeliveryTimeout,    \* Timeout of the HTTP client, in seconds (10)
    MaxEvents,          \* bound on the events sent
    Absent              \* no such endpoint

ASSUME DeliveryAssumption ==
    DeliveryTries \in Nat \ {0} /\ DeliveryTimeout \in Nat /\ MaxEvents \in Nat
ASSUME TypeAssumption == AnyType \notin EventType
ASSUME AbsentAssumption ==
    Absent \notin [tenant : EndpointTenant, url : {"valid", "malformed"},
                   event_type : EventType \cup {AnyType}, is_active : BOOLEAN]

VARIABLES
    endpoints,      \* the webhook_endpoints table
    events,         \* how many events were sent
    delivery,       \* the goroutine for an event and an endpoint
    running         \* the process is up

webhookVars == <<endpoints, events, delivery, running>>

Delivery == (1 .. MaxEvents) \X Endpoint

\* received: copies the endpoint has taken; wire: copies on their way that the
\* client no longer waits for; unacknowledged: history, posts without a 2xx answer.
Idle == [at |-> "none", attempt |-> 0, clock |-> 0, received |-> 0, wire |-> 0,
         unacknowledged |-> 0]

WebhookInit ==
    /\ endpoints = [e \in Endpoint |-> Absent]
    /\ events = 0
    /\ delivery = [d \in Delivery |-> Idle]
    /\ running = TRUE

-----------------------------------------------------------------------------
(* Endpoints and events *)

RegisterEndpoint(e, tenant, url, type) ==
    /\ running
    /\ endpoints[e] = Absent
    /\ endpoints' = [endpoints EXCEPT ![e] =
                        [tenant |-> tenant, url |-> url, event_type |-> type, is_active |-> TRUE]]
    /\ UNCHANGED <<events, delivery, running>>

\* An operator switches an endpoint off in the table.
Deactivate(e) ==
    /\ endpoints[e] # Absent /\ endpoints[e].is_active
    /\ endpoints' = [endpoints EXCEPT ![e].is_active = FALSE]
    /\ UNCHANGED <<events, delivery, running>>

Matching(tenant, type) ==
    {e \in Endpoint : /\ endpoints[e] # Absent
                      /\ endpoints[e].tenant = tenant
                      /\ endpoints[e].is_active
                      /\ endpoints[e].event_type \in {type, AnyType}}

\* One goroutine per endpoint that matched; none if the query fails.
Notify(tenant, type) ==
    /\ running
    /\ events < MaxEvents
    /\ events' = events + 1
    /\ \E targets \in {{}, Matching(tenant, type)} :
          delivery' = [d \in Delivery |->
                          IF d[1] = events' /\ d[2] \in targets
                          THEN [Idle EXCEPT !.at = "post"] ELSE delivery[d]]
    /\ UNCHANGED <<endpoints, running>>

-----------------------------------------------------------------------------
(* deliver *)

Over == {"delivered", "failed", "malformed"}

WebhookBackoff(attempt) == IF 2 ^ (attempt - 1) > 30 THEN 30 ELSE 2 ^ (attempt - 1)

\* A wrong retry: the loop runs once more than there are tries.
TryAgainOnceMore(g, cost) ==
    IF g.attempt < DeliveryTries
    THEN [g EXCEPT !.attempt = @ + 1, !.clock = @ + cost + WebhookBackoff(g.attempt + 1)]
    ELSE [g EXCEPT !.at = "failed", !.clock = @ + cost]

\* A wrong retry: the counter starts over when the tries are used up.
TryAgainForEver(g, cost) ==
    IF g.attempt + 1 < DeliveryTries
    THEN [g EXCEPT !.attempt = @ + 1, !.clock = @ + cost + WebhookBackoff(g.attempt + 1)]
    ELSE [Idle EXCEPT !.at = "post"]

\* The post failed after cost seconds: sleep and try again, or give up.
TryAgain(g, cost) ==
    IF g.attempt + 1 < DeliveryTries
    THEN [g EXCEPT !.attempt = @ + 1, !.clock = @ + cost + WebhookBackoff(g.attempt + 1)]
    ELSE [g EXCEPT !.at = "failed", !.clock = @ + cost]

Posting(d, url) ==
    /\ running
    /\ delivery[d].at = "post"
    /\ endpoints[d[2]].url = url

\* http.NewRequest refuses the URL: there is nothing to try again.
PostMalformed(d) ==
    /\ Posting(d, "malformed")
    /\ delivery' = [delivery EXCEPT ![d].at = "malformed"]
    /\ UNCHANGED <<endpoints, events, running>>

\* No 2xx answer within cost seconds.
Unacknowledged(g, cost) == TryAgain([g EXCEPT !.unacknowledged = @ + 1], cost)

\* Do returns an error: the endpoint did not get the request, got it, or has
\* yet to get it.
PostUnanswered(d) ==
    /\ Posting(d, "valid")
    /\ \E cost \in {0, DeliveryTimeout} :
          LET g == Unacknowledged(delivery[d], cost)
          IN  \E h \in {g, [g EXCEPT !.received = @ + 1], [g EXCEPT !.wire = @ + 1]} :
                 delivery' = [delivery EXCEPT ![d] = h]
    /\ UNCHANGED <<endpoints, events, running>>

\* The endpoint answers with another status, perhaps after it has taken the copy.
\* (The body that follows a status may come slowly, until the client's timeout.)
PostRejected(d) ==
    /\ Posting(d, "valid")
    /\ \E cost \in {0, DeliveryTimeout}, taken \in 0 .. 1 :
          LET g == Unacknowledged(delivery[d], cost)
          IN  delivery' = [delivery EXCEPT ![d] = [g EXCEPT !.received = g.received + taken]]
    /\ UNCHANGED <<endpoints, events, running>>

\* A wrong loop: a 2xx answer is logged and the next try follows.
PostDeliveredAgain(d) ==
    /\ Posting(d, "valid")
    /\ \E cost \in {0, DeliveryTimeout} :
          delivery' = [delivery EXCEPT ![d] = TryAgain([@ EXCEPT !.received = @ + 1], cost)]
    /\ UNCHANGED <<endpoints, events, running>>

\* The endpoint takes the copy and its 2xx answer arrives.
PostDelivered(d) ==
    /\ Posting(d, "valid")
    /\ \E cost \in {0, DeliveryTimeout} :
          delivery' = [delivery EXCEPT ![d].at = "delivered", ![d].received = @ + 1,
                                       ![d].clock = @ + cost]
    /\ UNCHANGED <<endpoints, events, running>>

deliver(d) == PostMalformed(d) \/ PostUnanswered(d) \/ PostRejected(d) \/ PostDelivered(d)

\* A copy arrives that nobody waits for, perhaps after the process has gone.
ArriveLate(d) ==
    /\ delivery[d].wire > 0
    /\ delivery' = [delivery EXCEPT ![d].wire = @ - 1, ![d].received = @ + 1]
    /\ UNCHANGED <<endpoints, events, running>>

\* main returns or exits: every goroutine ends where it stands.
Exit ==
    /\ running
    /\ running' = FALSE
    /\ UNCHANGED <<endpoints, events, delivery>>

WebhookNext ==
    \/ \E e \in Endpoint, t \in EndpointTenant, u \in {"valid", "malformed"},
          y \in EventType \cup {AnyType} : RegisterEndpoint(e, t, u, y)
    \/ \E e \in Endpoint : Deactivate(e)
    \/ \E t \in EndpointTenant, y \in EventType : Notify(t, y)
    \/ \E d \in Delivery : deliver(d) \/ ArriveLate(d)
    \/ Exit

\* Goroutines run while the process does; the network owes nothing.
WebhookSpec ==
    /\ WebhookInit /\ [][WebhookNext]_webhookVars
    /\ \A d \in Delivery : WF_webhookVars(deliver(d))

-----------------------------------------------------------------------------
(* Properties *)

\* Every state is well formed; a goroutine exists only for an event that was sent.
WebhookTypeOK ==
    /\ events \in 0 .. MaxEvents
    /\ \A d \in Delivery :
          /\ delivery[d].at \in {"none", "post"} \cup Over
          /\ delivery[d].attempt \in 0 .. DeliveryTries - 1
          /\ delivery[d].at # "none" => d[1] <= events /\ endpoints[d[2]] # Absent

\* What an endpoint may rely on: an event counts as delivered only if the
\* endpoint has it, every copy beyond the acknowledged one was sent by a try
\* that got no 2xx answer (nothing is posted after a 2xx), and there are never
\* more copies than tries, late ones included.
DeliveryHonest ==
    \A d \in Delivery :
        LET g == delivery[d]
            acknowledged == IF g.at = "delivered" THEN 1 ELSE 0
        IN  /\ g.at = "delivered" => g.received > 0
            /\ g.received + g.wire <= g.unacknowledged + acknowledged
            /\ g.unacknowledged + acknowledged <= DeliveryTries

\* How long an event may be under way, and its goroutine alive: one timeout per
\* try and the pauses between them, each twice the one before (65 s).
DeliveryTimeBound ==
    \A d \in Delivery :
        delivery[d].clock <= DeliveryTries * DeliveryTimeout + 2 ^ (DeliveryTries - 1) - 1

\* Every delivery comes to an end, unless the process ends first.
DeliveryEnds ==
    \A d \in Delivery : (delivery[d].at = "post") ~> (delivery[d].at \in Over \/ ~running)
=============================================================================
