----------------------------- MODULE RateLimiter -----------------------------
(***************************************************************************)
(* core/ratelimit.go: the token bucket of one tenant.  Request goroutines  *)
(* share a sync.Map entry that points to the bucket; creating the bucket   *)
(* takes two map operations, taking a token is done under the bucket's     *)
(* mutex.  Tenants do not share state, so one tenant is enough.            *)
(*                                                                         *)
(* Tokens are float64 in the code.  Here they are counted in fractions:    *)
(* Unit fractions make a token and every tick of the clock earns Rate.     *)
(***************************************************************************)
EXTENDS Naturals

CONSTANTS
    Caller,     \* goroutines that serve requests of the tenant
    Bucket,     \* identities of tokenBucket objects
    None,       \* no bucket
    Burst,      \* burst
    Rate,       \* fractions of a token earned per tick
    Unit,       \* fractions per token
    MaxAge,     \* maxAge of Cleanup, in ticks
    Cleaning,   \* whether anyone calls Cleanup (the server does not)
    MaxTime     \* bound on the clock

ASSUME BucketAssumption == None \notin Bucket
ASSUME RateAssumption ==
    Burst \in Nat /\ Rate \in Nat /\ Unit \in Nat /\ MaxAge \in Nat /\ MaxTime \in Nat
ASSUME CleaningAssumption == Cleaning \in BOOLEAN

VARIABLES
    entry,      \* the tenant's entry of the map
    tokens,     \* tokens of a bucket
    lastTime,   \* lastTime of a bucket
    pc,         \* where a caller stands
    held,       \* the bucket a caller has got hold of
    cutoff,     \* the cutoff of the running Cleanup, or None
    now,        \* the monotonic clock
    start,      \* history: when the observed window began
    allowed,    \* history: requests allowed since then
    strays      \* history: those allowed by a bucket that was no longer the entry

buckets == <<tokens, lastTime>>
window  == <<start, allowed, strays>>
vars    == <<entry, buckets, pc, held, cutoff, now, window>>

Full == Burst * Unit

\* Every state is well formed; a bucket never holds more than a full load.
TypeOK ==
    /\ entry \in Bucket \cup {None}
    /\ tokens \in [Bucket -> 0 .. Full]
    /\ lastTime \in [Bucket -> Nat]
    /\ pc \in [Caller -> {"idle", "store", "take"}]
    /\ held \in [Caller -> Bucket \cup {None}]
    /\ cutoff \in Nat \cup {None}
    /\ now \in Nat /\ start \in Nat /\ allowed \in Nat /\ strays \in Nat

Init ==
    /\ entry = None
    /\ tokens = [b \in Bucket |-> 0]
    /\ lastTime = [b \in Bucket |-> 0]
    /\ pc = [c \in Caller |-> "idle"]
    /\ held = [c \in Caller |-> None]
    /\ cutoff = None
    /\ now = 0 /\ start = 0 /\ allowed = 0 /\ strays = 0

InUse == {entry} \cup {held[c] : c \in Caller}

\* getBucket, Load: the entry, or a new full bucket that is not yet shared.
Load(c) ==
    /\ pc[c] = "idle"
    /\ IF entry # None
       THEN /\ held' = [held EXCEPT ![c] = entry]
            /\ pc' = [pc EXCEPT ![c] = "take"]
            /\ UNCHANGED buckets
       ELSE \E b \in Bucket \ InUse :
            /\ tokens' = [tokens EXCEPT ![b] = Full]
            /\ lastTime' = [lastTime EXCEPT ![b] = now]
            /\ held' = [held EXCEPT ![c] = b]
            /\ pc' = [pc EXCEPT ![c] = "store"]
    /\ UNCHANGED <<entry, cutoff, now, window>>

\* A wrong LoadOrStore: the new bucket replaces the one stored meanwhile.
StoreAlways(c) ==
    /\ pc[c] = "store"
    /\ entry' = held[c]
    /\ pc' = [pc EXCEPT ![c] = "take"]
    /\ UNCHANGED <<buckets, held, cutoff, now, window>>

\* getBucket, LoadOrStore: the first bucket stored is everybody's.
LoadOrStore(c) ==
    /\ pc[c] = "store"
    /\ entry' = IF entry = None THEN held[c] ELSE entry
    /\ held' = [held EXCEPT ![c] = entry']
    /\ pc' = [pc EXCEPT ![c] = "take"]
    /\ UNCHANGED <<buckets, cutoff, now, window>>

\* The tokens of b after the refill of Allow.
Refilled(b) ==
    LET sum == tokens[b] + (now - lastTime[b]) * Rate
    IN  IF sum > Full THEN Full ELSE sum

\* Allow, under the bucket's mutex: refill, then take a token if there is one.
Take(c) ==
    LET b == held[c] IN
    /\ pc[c] = "take"
    /\ lastTime' = [lastTime EXCEPT ![b] = now]
    /\ \/ /\ Refilled(b) < Unit
          /\ tokens' = [tokens EXCEPT ![b] = Refilled(b)]
          /\ UNCHANGED <<allowed, strays>>
       \/ /\ Refilled(b) >= Unit
          /\ tokens' = [tokens EXCEPT ![b] = Refilled(b) - Unit]
          /\ allowed' = allowed + 1
          /\ strays' = IF b = entry THEN strays ELSE strays + 1
    /\ pc' = [pc EXCEPT ![c] = "idle"]
    /\ held' = [held EXCEPT ![c] = None]
    /\ UNCHANGED <<entry, cutoff, now, start>>

\* Cleanup fixes its cutoff first and visits the entry later.
Cleanup ==
    /\ Cleaning
    /\ cutoff = None
    /\ now >= MaxAge
    /\ cutoff' = now - MaxAge
    /\ UNCHANGED <<entry, buckets, pc, held, now, window>>

\* A wrong visit: any bucket is deleted.
CleanupAny ==
    /\ cutoff # None
    /\ entry' = None
    /\ cutoff' = None
    /\ UNCHANGED <<buckets, pc, held, now, window>>

\* The visit, under the bucket's mutex.
CleanupVisit ==
    /\ cutoff # None
    /\ entry' = IF entry # None /\ lastTime[entry] < cutoff THEN None ELSE entry
    /\ cutoff' = None
    /\ UNCHANGED <<buckets, pc, held, now, window>>

Tick ==
    /\ now < MaxTime
    /\ now' = now + 1
    /\ UNCHANGED <<entry, buckets, pc, held, cutoff, window>>

\* An observer begins to count, at any time.
OpenWindow ==
    /\ start' = now /\ allowed' = 0 /\ strays' = 0
    /\ UNCHANGED <<entry, buckets, pc, held, cutoff, now>>

Next ==
    \/ \E c \in Caller : Load(c) \/ LoadOrStore(c) \/ Take(c)
    \/ Cleanup \/ CleanupVisit \/ Tick \/ OpenWindow

Spec == Init /\ [][Next]_vars

-----------------------------------------------------------------------------

\* In every window of time, whenever it begins, a tenant gets at most its
\* burst plus what the rate earns in that time, however many goroutines create
\* and use the bucket at once (main.go: "100 req/s per tenant, burst of 200").
\* Cleanup of buckets that are idle for as long as they need to fill up gives
\* nothing away either, except for the requests whose goroutine got hold of
\* the bucket before Cleanup removed it and took its token afterwards.
RateBound ==
    /\ allowed * Unit <= Full + (now - start) * Rate + strays * Unit
    /\ ~Cleaning => strays = 0

\* What the next request may count on: a tenant without a bucket gets a full one.
Level == IF entry = None THEN Full ELSE Refilled(entry)

\* What the bound rests on: what was given and what the tenant may still count
\* on stays within the budget of the window; a bucket that is not yet stored
\* is full and has one holder; without Cleanup everybody shares the entry.
BucketInv ==
    /\ start <= now
    /\ cutoff # None => Cleaning /\ cutoff + MaxAge <= now
    /\ entry # None => lastTime[entry] <= now
    /\ allowed * Unit + Level <= Full + (now - start) * Rate + strays * Unit
    /\ \A c \in Caller :
          /\ pc[c] = "take" => /\ held[c] # None /\ lastTime[held[c]] <= now
                               /\ ~Cleaning => held[c] = entry
          /\ pc[c] = "store" => /\ held[c] \in Bucket \ {entry}
                                /\ tokens[held[c]] = Full
                                /\ lastTime[held[c]] <= now
                                /\ \A d \in Caller : held[d] = held[c] => d = c
    /\ ~Cleaning => strays = 0

\* Whoever calls Cleanup lets buckets live until they are full again.
AgeSuffices == Cleaning => Full <= MaxAge * Rate
=============================================================================
