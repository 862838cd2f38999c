--------------------------- MODULE OutboundProofs ---------------------------
(***************************************************************************)
(* What the two clients that retry over a network report, and how long     *)
(* they take, for every number of retries, rounds and tries, every timeout *)
(* and interval, every number of endpoints and events.                     *)
(***************************************************************************)
EXTENDS MCOutbound, FiniteSetTheorems, TLAPS

-----------------------------------------------------------------------------
(* Arithmetic: products, and powers of two as the sizes of power sets *)

LEMMA Product ==
    \A a, b, w \in Nat : (a + b) * w = a * w + b * w /\ a * w \in Nat
    OBVIOUS

LEMMA ProductMonotone ==
    ASSUME NEW a \in Nat, NEW b \in Nat, NEW w \in Nat, a <= b
    PROVE  a * w <= b * w
<1>1. PICK k \in Nat : b = a + k
    BY b - a \in Nat, b = a + (b - a)
<1> QED
    BY <1>1, Product

LEMMA PowerIsCount ==
    ASSUME NEW n \in Nat
    PROVE  /\ IsFiniteSet(1 .. n) /\ Cardinality(1 .. n) = n
           /\ IsFiniteSet(SUBSET (1 .. n)) /\ Cardinality(SUBSET (1 .. n)) = 2 ^ n
           /\ 2 ^ n \in Nat
<1>1. IsFiniteSet(1 .. n) /\ Cardinality(1 .. n) = n
    BY FS_Interval
<1>2. IsFiniteSet(SUBSET (1 .. n)) /\ Cardinality(SUBSET (1 .. n)) = 2 ^ n
    BY <1>1, FS_SUBSET
<1> QED
    BY <1>1, <1>2, FS_CardinalityType

LEMMA PowerMonotone ==
    ASSUME NEW a \in Nat, NEW b \in Nat, a <= b
    PROVE  2 ^ a <= 2 ^ b
<1>1. SUBSET (1 .. a) \in SUBSET (SUBSET (1 .. b))
    OBVIOUS
<1>2. /\ IsFiniteSet(SUBSET (1 .. b)) /\ Cardinality(SUBSET (1 .. b)) = 2 ^ b
      /\ Cardinality(SUBSET (1 .. a)) = 2 ^ a
    BY PowerIsCount
<1>3. Cardinality(SUBSET (1 .. a)) <= Cardinality(SUBSET (1 .. b))
    BY <1>1, <1>2, FS_Subset
<1> QED
    BY <1>2, <1>3

\* The subsets of 1 .. n + 1 are those of 1 .. n, without and with n + 1.
LEMMA PowerDoubles ==
    ASSUME NEW n \in Nat
    PROVE  2 ^ (n + 1) = 2 ^ n + 2 ^ n
<1> DEFINE Old == SUBSET (1 .. n)
           New == {T \cup {n + 1} : T \in Old}
           f   == [T \in Old |-> T \cup {n + 1}]
<1>1. SUBSET (1 .. (n + 1)) = Old \cup New
  <2>1. ASSUME NEW T \in SUBSET (1 .. (n + 1)) PROVE T \in Old \cup New
    <3>1. CASE n + 1 \in T
      <4>1. T \ {n + 1} \in Old /\ T = (T \ {n + 1}) \cup {n + 1}
        BY <3>1
      <4> QED
        BY <4>1
    <3>2. CASE n + 1 \notin T
        BY <3>2
    <3> QED
        BY <3>1, <3>2
  <2>2. 1 .. n \subseteq 1 .. (n + 1) /\ n + 1 \in 1 .. (n + 1)
    OBVIOUS
  <2>3. ASSUME NEW T \in Old PROVE T \cup {n + 1} \in SUBSET (1 .. (n + 1))
    BY <2>2
  <2>4. Old \subseteq SUBSET (1 .. (n + 1)) /\ New \subseteq SUBSET (1 .. (n + 1))
    BY <2>2, <2>3
  <2> QED
    BY <2>1, <2>4
<1>2. Old \cap New = {}
    OBVIOUS
<1>3. f \in Bijection(Old, New)
  <2>1. \A S, T \in Old : f[S] = f[T] => S = T
    <3> SUFFICES ASSUME NEW S \in Old, NEW T \in Old, f[S] = f[T] PROVE S = T
        OBVIOUS
    <3>1. n + 1 \notin 1 .. n
        OBVIOUS
    <3>2. n + 1 \notin S /\ n + 1 \notin T /\ S \cup {n + 1} = T \cup {n + 1}
        BY <3>1
    <3> QED
        BY <3>2
  <2>2. f \in [Old -> New] /\ \A U \in New : \E T \in Old : f[T] = U
    OBVIOUS
  <2> HIDE DEF Old, New, f
  <2>3. f \in Injection(Old, New) /\ f \in Surjection(Old, New)
    BY <2>1, <2>2 DEF Injection, IsInjective, Surjection
  <2> QED
    BY <2>3 DEF Bijection
<1>4. IsFiniteSet(Old) /\ Cardinality(Old) = 2 ^ n
    BY PowerIsCount
<1>5. IsFiniteSet(New) /\ Cardinality(New) = 2 ^ n
  <2>1. ExistsBijection(Old, New)
    BY <1>3 DEF ExistsBijection
  <2> QED
    BY <1>4, <2>1, FS_Bijection
<1>6. Cardinality(Old \cup New) = 2 ^ n + 2 ^ n
  <2>1. Cardinality(Old \cup New) = Cardinality(Old) + Cardinality(New) - Cardinality(Old \cap New)
    BY <1>4, <1>5, FS_Union
  <2>2. Cardinality(Old \cap New) = 0 /\ 2 ^ n \in Nat
    BY <1>2, FS_EmptySet, PowerIsCount
  <2> QED
    BY <1>4, <1>5, <2>1, <2>2
<1>7. Cardinality(SUBSET (1 .. (n + 1))) = 2 ^ (n + 1)
    BY PowerIsCount
<1> QED
    BY <1>1, <1>6, <1>7

-----------------------------------------------------------------------------
(* The Solana client *)

PollTime  == Interval + HttpTimeout
RoundTime == Interval + Polls * PollTime
TryTime   == HttpTimeout + 10

\* Where the goroutine stands says which loop it is in and bounds what it has
\* spent there: whole tries while it submits, whole rounds while it pauses, and
\* whole polls of the current round on top of them while it polls.
ClockInv ==
    /\ pc = "submit" <=> result = "none"
    /\ pc = "submit" => round = 0
    /\ pc \in {"pause", "poll"} => round < MaxAttempts
    /\ pc = "poll" => poll < Polls
    /\ pc = "submit" => clock <= attempt * TryTime
    /\ pc = "pause" => clock <= round * RoundTime
    /\ pc = "poll" => clock <= round * RoundTime + Interval + poll * PollTime
    /\ pc = "done" => clock <= MaxAttempts * RoundTime

LEMMA Times ==
    /\ MaxRetries \in Nat \ {0} /\ MaxAttempts \in Nat \ {0} /\ HttpTimeout \in Nat /\ Interval \in Nat
    /\ Polls \in Nat \ {0} /\ PollTime \in Nat /\ RoundTime \in Nat /\ TryTime \in Nat
<1>1. /\ MaxRetries \in Nat \ {0} /\ MaxAttempts \in Nat \ {0} /\ HttpTimeout \in Nat /\ Interval \in Nat
    BY RpcAssumption
<1>2. Polls \in Nat \ {0} /\ PollTime \in Nat /\ TryTime \in Nat
    BY <1>1 DEF Polls, PollTime, TryTime
<1>3. Polls * PollTime \in Nat
    BY <1>2, Product
<1> QED
    BY <1>1, <1>2, <1>3 DEF RoundTime

LEMMA BackoffBound ==
    ASSUME NEW a \in Nat
    PROVE  Backoff(a) \in Nat /\ Backoff(a) <= 10
<1>1. 2 ^ a \in Nat
    BY PowerIsCount
<1> QED
    BY <1>1 DEF Backoff

LEMMA SolanaInit == RpcInit => RpcTypeOK /\ ReportsAreTrue /\ ClockInv
<1> SUFFICES ASSUME RpcInit PROVE RpcTypeOK /\ ReportsAreTrue /\ ClockInv
    OBVIOUS
<1>1. RpcTypeOK /\ ReportsAreTrue
  <2>1. wire \in BOOLEAN
    BY DEF RpcInit
  <2>2. /\ attempt \in 0 .. MaxRetries /\ round \in 0 .. MaxAttempts /\ poll \in 0 .. Polls
        /\ clock \in Nat
    BY Times DEF RpcInit
  <2> QED
    BY <2>1, <2>2 DEF RpcInit, RpcTypeOK, ReportsAreTrue
<1>2. attempt * TryTime \in Nat
    BY Times, Product DEF RpcInit
<1>3. ClockInv
    BY <1>2, Times DEF RpcInit, ClockInv
<1> QED
    BY <1>1, <1>3

\* A try that failed: the next one, or the end of SubmitTransaction.
LEMMA RetryInv ==
    ASSUME RpcTypeOK, ClockInv, pc = "submit", NEW r \in {"error", "rejected"},
           NEW cost \in {0, HttpTimeout}, RetryOr(r, cost)
    PROVE  /\ ClockInv'
           /\ attempt' \in 0 .. MaxRetries /\ clock' \in Nat /\ UNCHANGED <<round, poll, outcome>>
           /\ pc' \in {"submit", "done"} /\ result' \in {"none", r}
<1> USE Times
<1>0. result = "none" /\ attempt \in Nat /\ clock \in Nat /\ clock <= attempt * TryTime
    BY DEF ClockInv, RpcTypeOK
<1>1. CASE attempt < MaxRetries
  <2>1. /\ attempt' = attempt + 1 /\ clock' = clock + cost + Backoff(attempt)
        /\ UNCHANGED <<pc, round, poll, result, outcome>>
    BY <1>1 DEF RetryOr
  <2>2. clock' \in Nat /\ clock' <= clock + TryTime
    BY <1>0, <2>1, BackoffBound DEF TryTime
  <2>3. (attempt + 1) * TryTime = attempt * TryTime + TryTime /\ attempt * TryTime \in Nat
    BY <1>0, Product
  <2>4. clock' <= attempt' * TryTime
    BY <1>0, <2>1, <2>2, <2>3
  <2>5. attempt' \in 0 .. MaxRetries
    BY <1>0, <1>1, <2>1
  <2> QED
    BY <1>0, <2>1, <2>2, <2>4, <2>5 DEF ClockInv
<1>2. CASE ~(attempt < MaxRetries)
  <2>1. /\ result' = r /\ pc' = "done" /\ clock' = 0
        /\ outcome' = outcome /\ UNCHANGED <<attempt, round, poll>>
    BY <1>2 DEF RetryOr, Return
  <2>2. MaxAttempts * RoundTime \in Nat
    BY Product
  <2> QED
    BY <2>1, <2>2 DEF ClockInv, RpcTypeOK
<1> QED
    BY <1>1, <1>2

\* A round that failed: the next one, or the timeout.
LEMMA RoundFailsInv ==
    ASSUME RpcTypeOK, ClockInv, pc = "poll", RoundFails, clock' \in Nat,
           clock' <= round * RoundTime + RoundTime, UNCHANGED result
    PROVE  ClockInv' /\ round' \in 0 .. MaxAttempts
<1> USE Times
<1>1. round \in Nat /\ round' = round + 1 /\ round < MaxAttempts
    BY DEF RpcTypeOK, ClockInv, RoundFails
<1>2. clock' <= round' * RoundTime
    BY <1>1, Product
<1>3. CASE round + 1 < MaxAttempts
  <2>1. pc' = "pause"
    BY <1>3 DEF RoundFails
  <2> QED
    BY <1>1, <1>2, <1>3, <2>1 DEF ClockInv
<1>4. CASE ~(round + 1 < MaxAttempts)
  <2>1. pc' = "done" /\ round' = MaxAttempts
    BY <1>1, <1>4 DEF RoundFails
  <2> QED
    BY <1>1, <1>2, <2>1 DEF ClockInv
<1> QED
    BY <1>3, <1>4

LEMMA SolanaStep ==
    RpcTypeOK /\ ReportsAreTrue /\ ClockInv /\ [RpcNext]_rpcVars => (RpcTypeOK /\ ReportsAreTrue /\ ClockInv)'
<1> SUFFICES ASSUME RpcTypeOK, ReportsAreTrue, ClockInv, [RpcNext]_rpcVars
             PROVE  RpcTypeOK' /\ ReportsAreTrue' /\ ClockInv'
    OBVIOUS
<1> USE Times
<1>a. Accepted \in {"pending", "confirmed", "failed"} /\ (chain = "confirmed" => Accepted = "confirmed")
    BY DEF Accepted, RpcTypeOK
<1>1. CASE SubmitLost \/ SubmitRefused
  <2>1. PICK r \in {"error", "rejected"}, cost \in {0, HttpTimeout} : RetryOr(r, cost)
    BY <1>1 DEF SubmitLost, SubmitRefused
  <2>2. /\ ClockInv'
        /\ attempt' \in 0 .. MaxRetries /\ clock' \in Nat /\ UNCHANGED <<round, poll, outcome>>
        /\ pc' \in {"submit", "done"} /\ result' \in {"none", r}
    BY <1>1, <2>1, RetryInv DEF SubmitLost, SubmitRefused
  <2>3. wire' \in BOOLEAN /\ chain' \in {chain, Accepted}
    BY <1>1 DEF SubmitLost, SubmitRefused, RpcTypeOK
  <2>4. RpcTypeOK'
    BY <1>a, <2>2, <2>3 DEF RpcTypeOK
  <2>5. ReportsAreTrue'
    BY <1>a, <2>2, <2>3 DEF ReportsAreTrue, RpcTypeOK
  <2> QED
    BY <2>2, <2>4, <2>5
<1>2. CASE SubmitTaken
  <2>1. PICK r \in {"signed", "unsigned", "error"} : Return(r)
    BY <1>2 DEF SubmitTaken
  <2>2. chain' = Accepted /\ UNCHANGED wire /\ pc = "submit"
    BY <1>2 DEF SubmitTaken
  <2>3. /\ result' = r /\ pc' = (IF r = "signed" THEN "pause" ELSE "done") /\ clock' = 0
        /\ outcome' = (IF r = "unsigned" THEN "unsigned" ELSE outcome)
        /\ UNCHANGED <<attempt, round, poll>>
    BY <2>1 DEF Return
  <2>4. RpcTypeOK'
    BY <1>a, <2>2, <2>3 DEF RpcTypeOK
  <2>5. ReportsAreTrue'
    BY <1>a, <2>2, <2>3 DEF ReportsAreTrue
  <2>6. round = 0 /\ round * RoundTime \in Nat /\ MaxAttempts * RoundTime \in Nat
    BY <2>2, Product DEF ClockInv
  <2>7. ClockInv'
    BY <2>3, <2>6 DEF ClockInv
  <2> QED
    BY <2>4, <2>5, <2>7
<1>3. CASE Pause
  <2>1. /\ pc = "pause" /\ pc' = "poll" /\ poll' = 0 /\ clock' = clock + Interval
        /\ UNCHANGED <<attempt, round, result, outcome, wire, chain>>
    BY <1>3 DEF Pause
  <2>2. RpcTypeOK' /\ ReportsAreTrue'
    BY <2>1 DEF RpcTypeOK, ReportsAreTrue
  <2>3. poll' * PollTime = 0 /\ round * RoundTime \in Nat
    BY <2>1, Product DEF RpcTypeOK
  <2>4. ClockInv'
    BY <2>1, <2>3 DEF ClockInv, RpcTypeOK
  <2> QED
    BY <2>2, <2>4
<1>4. CASE PollAgain
  <2>1. /\ pc = "poll" /\ poll' = poll + 1 /\ UNCHANGED <<attempt, result, wire, chain>>
        /\ clock' \in Nat /\ clock' <= clock + PollTime
    BY <1>4 DEF PollAgain, PollTime, RpcTypeOK
  <2>2. /\ poll \in Nat /\ round \in Nat /\ clock \in Nat /\ poll < Polls
        /\ clock <= round * RoundTime + Interval + poll * PollTime
    BY <2>1 DEF RpcTypeOK, ClockInv
  <2>3. /\ (poll + 1) * PollTime = poll * PollTime + PollTime
        /\ poll * PollTime \in Nat /\ round * RoundTime \in Nat
    BY <2>2, Product
  <2>4. clock' <= round * RoundTime + Interval + (poll + 1) * PollTime
    BY <2>1, <2>2, <2>3
  <2>5. CASE poll + 1 < Polls
    <3>1. UNCHANGED <<pc, round, outcome>>
        BY <1>4, <2>5 DEF PollAgain
    <3>2. RpcTypeOK' /\ ReportsAreTrue'
        BY <2>1, <2>2, <2>5, <3>1 DEF RpcTypeOK, ReportsAreTrue
    <3>3. ClockInv'
        BY <2>1, <2>2, <2>4, <2>5, <3>1 DEF ClockInv
    <3> QED
        BY <3>2, <3>3
  <2>6. CASE ~(poll + 1 < Polls)
    <3>1. RoundFails /\ poll + 1 = Polls
        BY <1>4, <2>2, <2>6 DEF PollAgain
    <3>2. clock' <= round * RoundTime + RoundTime
        BY <2>1, <2>2, <2>3, <2>4, <3>1 DEF RoundTime
    <3>3. ClockInv' /\ round' \in 0 .. MaxAttempts
        BY <2>1, <3>1, <3>2, RoundFailsInv
    <3>4. RpcTypeOK' /\ ReportsAreTrue'
        BY <2>1, <2>2, <3>1, <3>3 DEF RpcTypeOK, ReportsAreTrue, RoundFails
    <3> QED
        BY <3>3, <3>4
  <2> QED
    BY <2>5, <2>6
<1>5. CASE PollFailed
  <2>1. /\ pc = "poll" /\ RoundFails /\ UNCHANGED <<attempt, poll, result, wire, chain>>
        /\ clock' \in Nat /\ clock' <= clock + PollTime
    BY <1>5 DEF PollFailed, PollTime, RpcTypeOK
  <2>2. /\ poll \in Nat /\ round \in Nat /\ clock \in Nat /\ poll < Polls
        /\ clock <= round * RoundTime + Interval + poll * PollTime
    BY <2>1 DEF RpcTypeOK, ClockInv
  <2>3. /\ poll * PollTime + PollTime <= Polls * PollTime
        /\ poll * PollTime \in Nat /\ Polls * PollTime \in Nat /\ round * RoundTime \in Nat
    BY <2>2, Product, ProductMonotone, poll + 1 <= Polls
  <2>4. clock' <= round * RoundTime + RoundTime
    BY <2>1, <2>2, <2>3 DEF RoundTime
  <2>5. ClockInv' /\ round' \in 0 .. MaxAttempts
    BY <2>1, <2>2, <2>4, RoundFailsInv
  <2>6. RpcTypeOK' /\ ReportsAreTrue'
    BY <2>1, <2>5 DEF RpcTypeOK, ReportsAreTrue, RoundFails
  <2> QED
    BY <2>5, <2>6
<1>6. CASE PollConfirmed
  <2>1. /\ pc = "poll" /\ chain = "confirmed" /\ pc' = "done" /\ outcome' = "confirmed"
        /\ clock' \in Nat /\ clock' <= clock + PollTime
        /\ UNCHANGED <<attempt, round, poll, result, wire, chain>>
    BY <1>6 DEF PollConfirmed, PollTime, RpcTypeOK
  <2>2. RpcTypeOK' /\ ReportsAreTrue'
    BY <2>1 DEF RpcTypeOK, ReportsAreTrue
  <2>3. /\ poll \in Nat /\ round \in Nat /\ clock \in Nat /\ poll < Polls /\ round < MaxAttempts
        /\ clock <= round * RoundTime + Interval + poll * PollTime
    BY <2>1 DEF RpcTypeOK, ClockInv
  <2>4. /\ poll * PollTime + PollTime <= Polls * PollTime
        /\ poll * PollTime \in Nat /\ Polls * PollTime \in Nat /\ round * RoundTime \in Nat
    BY <2>3, Product, ProductMonotone, poll + 1 <= Polls
  <2>5. /\ (round + 1) * RoundTime <= MaxAttempts * RoundTime
        /\ (round + 1) * RoundTime = round * RoundTime + RoundTime /\ MaxAttempts * RoundTime \in Nat
    BY <2>3, Product, ProductMonotone
  <2>6. clock' <= MaxAttempts * RoundTime
    BY <2>1, <2>3, <2>4, <2>5 DEF RoundTime
  <2>7. ClockInv'
    BY <2>1, <2>6 DEF ClockInv
  <2> QED
    BY <2>2, <2>7
<1>7. CASE Deliver \/ ChainSettles \/ UNCHANGED rpcVars
  <2>1. /\ UNCHANGED <<pc, attempt, round, poll, clock, result, outcome>>
        /\ wire' \in BOOLEAN /\ chain' \in {"none", "pending", "confirmed", "failed"}
        /\ (chain # "none" => chain' # "none") /\ (chain = "confirmed" => chain' = "confirmed")
    BY <1>7, <1>a DEF Deliver, ChainSettles, rpcVars, client, RpcTypeOK
  <2> QED
    BY <2>1 DEF RpcTypeOK, ReportsAreTrue, ClockInv
<1> QED
    BY <1>1, <1>2, <1>3, <1>4, <1>5, <1>6, <1>7 DEF RpcNext, Client

\* The strengthening of the three properties of the Solana client.
LEMMA SolanaInvariant == RpcSpec => [](RpcTypeOK /\ ReportsAreTrue /\ ClockInv)
    BY SolanaInit, SolanaStep, PTL DEF RpcSpec

\* What SubmitTransaction and the reconciler report did happen, however often
\* requests are repeated, lost or late: a submission without error was taken by
\* the cluster, and an intent is called confirmed only if it was.
THEOREM SolanaReportsTrue == RpcSpec => []ReportsAreTrue
    BY SolanaInvariant, PTL

\* No execution takes longer than its retries, rounds and polls add up to, for
\* every number of them and every timeout: none is counted twice or for ever.
THEOREM SolanaTimeBounded == RpcSpec => []TimeBound
<1>1. RpcTypeOK /\ ClockInv => TimeBound
  <2> SUFFICES ASSUME RpcTypeOK, ClockInv PROVE TimeBound
    OBVIOUS
  <2> USE Times
  <2>1. attempt \in Nat /\ round \in Nat /\ poll \in Nat /\ clock \in Nat /\ attempt <= MaxRetries
        /\ poll <= Polls /\ round <= MaxAttempts
    BY DEF RpcTypeOK
  <2>2. CASE pc = "submit"
    <3>1. clock <= attempt * TryTime /\ result = "none"
        BY <2>2 DEF ClockInv
    <3>2. attempt * TryTime <= MaxRetries * TryTime
        BY <2>1, ProductMonotone
    <3>3. attempt * TryTime \in Nat /\ MaxRetries * TryTime \in Nat
        BY <2>1, Product
    <3>4. clock <= MaxRetries * TryTime
        BY <2>1, <3>1, <3>2, <3>3
    <3> QED
        BY <3>1, <3>4 DEF TimeBound, TryTime
  <2>3. CASE pc # "submit"
    <3>1. result # "none"
        BY <2>3 DEF ClockInv
    <3>2. /\ poll * PollTime <= Polls * PollTime /\ round * RoundTime <= MaxAttempts * RoundTime
          /\ poll * PollTime \in Nat /\ Polls * PollTime \in Nat
          /\ round * RoundTime \in Nat /\ MaxAttempts * RoundTime \in Nat
        BY <2>1, Product, ProductMonotone
    <3>3. clock <= MaxAttempts * RoundTime
      <4>1. CASE pc = "poll"
        <5>1. clock <= round * RoundTime + Interval + poll * PollTime /\ round + 1 <= MaxAttempts
            BY <2>1, <4>1 DEF ClockInv
        <5>2. (round + 1) * RoundTime <= MaxAttempts * RoundTime
            BY <2>1, <5>1, ProductMonotone
        <5>3. (round + 1) * RoundTime = round * RoundTime + RoundTime
            BY <2>1, Product
        <5> QED
            BY <2>1, <3>2, <5>1, <5>2, <5>3 DEF RoundTime
      <4>2. CASE pc # "poll"
        BY <2>1, <2>3, <3>2, <4>2 DEF ClockInv, RpcTypeOK
      <4> QED
        BY <4>1, <4>2
    <3> QED
        BY <3>1, <3>3 DEF TimeBound, RoundTime, PollTime
  <2> QED
    BY <2>2, <2>3
<1> QED
    BY <1>1, SolanaInvariant, PTL

-----------------------------------------------------------------------------
(* The webhook notifier *)

Goroutine == [at : {"none", "post"} \cup Over, attempt : 0 .. DeliveryTries - 1, clock : Nat,
              received : Nat, wire : Nat, unacknowledged : Nat]

Registered == [tenant : EndpointTenant, url : {"valid", "malformed"},
               event_type : EventType \cup {AnyType}, is_active : BOOLEAN]

\* Every copy beyond the acknowledged one belongs to a try without a 2xx answer,
\* and there is one such try for every increment of attempt, the last one included.
Honest(g) ==
    /\ g.at = "delivered" => g.received > 0
    /\ g.received + g.wire <= g.unacknowledged + (IF g.at = "delivered" THEN 1 ELSE 0)
    /\ g.unacknowledged <= g.attempt + (IF g.at = "failed" THEN 1 ELSE 0)

\* The tries so far, and pauses that double: 1 + 2 + ... adds up to a power of two.
Timely(g) ==
    g.clock <= (IF g.at \in {"none", "post"} THEN g.attempt ELSE g.attempt + 1) * DeliveryTimeout
               + 2 ^ g.attempt - 1

WebhookInv ==
    /\ events \in 0 .. MaxEvents
    /\ endpoints \in [Endpoint -> Registered \cup {Absent}]
    /\ delivery \in [Delivery -> Goroutine]
    /\ \A d \in Delivery :
          /\ delivery[d].at # "none" => d[1] <= events /\ endpoints[d[2]] # Absent
          /\ Honest(delivery[d]) /\ Timely(delivery[d])

LEMMA WebhookBackoffBound ==
    ASSUME NEW a \in Nat
    PROVE  WebhookBackoff(a + 1) \in Nat /\ WebhookBackoff(a + 1) <= 2 ^ a
<1>1. 2 ^ a \in Nat
    BY PowerIsCount
<1>2. (a + 1) - 1 = a
    OBVIOUS
<1> QED
    BY <1>1, <1>2 DEF WebhookBackoff

LEMMA TimeOfTries ==
    ASSUME NEW a \in Nat
    PROVE  /\ (a + 1) * DeliveryTimeout = a * DeliveryTimeout + DeliveryTimeout
           /\ a * DeliveryTimeout \in Nat
    BY Product, DeliveryAssumption

\* A fresh goroutine.
LEMMA FreshGoroutine ==
    /\ Idle \in Goroutine /\ Honest(Idle) /\ Timely(Idle)
    /\ [Idle EXCEPT !.at = "post"] \in Goroutine
    /\ Honest([Idle EXCEPT !.at = "post"]) /\ Timely([Idle EXCEPT !.at = "post"])
<1>1. 0 \in 0 .. DeliveryTries - 1
    BY DeliveryAssumption
<1>2. Idle \in Goroutine /\ [Idle EXCEPT !.at = "post"] \in Goroutine
    BY <1>1 DEF Idle, Goroutine
<1>3. Honest(Idle) /\ Honest([Idle EXCEPT !.at = "post"])
    BY DEF Idle, Honest
<1>4. 0 * DeliveryTimeout = 0 /\ 2 ^ 0 = 1
    BY DeliveryAssumption
<1>5. Timely(Idle) /\ Timely([Idle EXCEPT !.at = "post"])
    BY <1>4 DEF Idle, Timely
<1> QED
    BY <1>2, <1>3, <1>5

LEMMA GoroutineEnds ==
    ASSUME NEW g \in Goroutine, NEW n \in Nat, NEW k \in Nat
    PROVE  /\ [g EXCEPT !.at = "failed", !.clock = k] \in Goroutine
           /\ [g EXCEPT !.at = "delivered", !.received = n, !.clock = k] \in Goroutine
    BY DEF Goroutine, Over

\* A post that failed: the next try, or the end.
LEMMA TryAgainTimely ==
    ASSUME NEW g \in Goroutine, g.at = "post", Timely(g), NEW cost \in {0, DeliveryTimeout}
    PROVE  /\ TryAgain(g, cost) \in Goroutine /\ TryAgain(g, cost).at \in {"post", "failed"}
           /\ TryAgain(g, cost).received = g.received /\ TryAgain(g, cost).wire = g.wire
           /\ TryAgain(g, cost).unacknowledged = g.unacknowledged
           /\ TryAgain(g, cost).at = "post" => TryAgain(g, cost).attempt = g.attempt + 1
           /\ TryAgain(g, cost).at = "failed" => TryAgain(g, cost).attempt = g.attempt
           /\ Timely(TryAgain(g, cost))
<1> USE DeliveryAssumption
<1>0. /\ g.attempt \in Nat /\ g.attempt <= DeliveryTries - 1 /\ g.clock \in Nat /\ cost \in Nat
      /\ g.received \in Nat /\ g.wire \in Nat /\ g.unacknowledged \in Nat /\ cost <= DeliveryTimeout
    BY DEF Goroutine
<1>1. /\ (g.attempt + 1) * DeliveryTimeout = g.attempt * DeliveryTimeout + DeliveryTimeout
      /\ g.attempt * DeliveryTimeout \in Nat
    BY <1>0, Product
<1>2. 2 ^ g.attempt \in Nat /\ 2 ^ (g.attempt + 1) = 2 ^ g.attempt + 2 ^ g.attempt
    BY <1>0, PowerIsCount, PowerDoubles
<1>3. g.clock <= g.attempt * DeliveryTimeout + 2 ^ g.attempt - 1
    BY DEF Timely
<1>4. CASE g.attempt + 1 < DeliveryTries
  <2> DEFINE b == WebhookBackoff(g.attempt + 1)
             h == [g EXCEPT !.attempt = g.attempt + 1, !.clock = g.clock + cost + b]
  <2>1. b \in Nat /\ b <= 2 ^ g.attempt
    BY <1>0, WebhookBackoffBound
  <2>2. TryAgain(g, cost) = h
    BY <1>4 DEF TryAgain
  <2> HIDE DEF b
  <2>3. /\ h.at = "post" /\ h.attempt = g.attempt + 1 /\ h.clock = g.clock + cost + b
        /\ h.received = g.received /\ h.wire = g.wire /\ h.unacknowledged = g.unacknowledged
    BY DEF Goroutine
  <2>4. g.attempt + 1 \in 0 .. DeliveryTries - 1 /\ g.clock + cost + b \in Nat
    BY <1>0, <1>4, <2>1
  <2>5. h \in Goroutine
    <3>1. \A n \in 0 .. DeliveryTries - 1, k \in Nat :
             [g EXCEPT !.attempt = n, !.clock = k] \in Goroutine
        BY DEF Goroutine
    <3> QED
        BY <2>4, <3>1
  <2>6. g.clock + cost + b <= (g.attempt + 1) * DeliveryTimeout + 2 ^ (g.attempt + 1) - 1
    BY <1>0, <1>1, <1>2, <1>3, <2>1
  <2> HIDE DEF h
  <2>7. Timely(h)
    BY <2>3, <2>6 DEF Timely
  <2> QED
    BY <2>2, <2>3, <2>5, <2>7
<1>5. CASE ~(g.attempt + 1 < DeliveryTries)
  <2> DEFINE h == [g EXCEPT !.at = "failed", !.clock = g.clock + cost]
  <2>1. TryAgain(g, cost) = h
    BY <1>5 DEF TryAgain
  <2>2. /\ h.at = "failed" /\ h.attempt = g.attempt /\ h.clock = g.clock + cost
        /\ h.received = g.received /\ h.wire = g.wire /\ h.unacknowledged = g.unacknowledged
    BY DEF Goroutine
  <2>3. h \in Goroutine
    <3>1. g.clock + cost \in Nat
        BY <1>0
    <3> QED
        BY <3>1, GoroutineEnds
  <2>4. g.clock + cost <= (g.attempt + 1) * DeliveryTimeout + 2 ^ g.attempt - 1
    BY <1>0, <1>1, <1>2, <1>3
  <2> HIDE DEF h
  <2>5. Timely(h)
    BY <2>2, <2>4 DEF Timely
  <2> QED
    BY <2>1, <2>2, <2>3, <2>5
<1> QED
    BY <1>4, <1>5

\* A try that got no 2xx answer is counted, and the loop goes on or ends.
LEMMA UnacknowledgedTry ==
    ASSUME NEW g \in Goroutine, g.at = "post", Timely(g), g.unacknowledged <= g.attempt,
           NEW cost \in {0, DeliveryTimeout}
    PROVE  LET w == Unacknowledged(g, cost)
           IN  /\ w \in Goroutine /\ w.at \in {"post", "failed"} /\ Timely(w)
               /\ w.received = g.received /\ w.wire = g.wire
               /\ w.unacknowledged = g.unacknowledged + 1
               /\ w.unacknowledged <= w.attempt + (IF w.at = "failed" THEN 1 ELSE 0)
<1> DEFINE u == [g EXCEPT !.unacknowledged = g.unacknowledged + 1]
           w == TryAgain(u, cost)
<1>1. g.unacknowledged \in Nat /\ g.attempt \in Nat
    BY DeliveryAssumption DEF Goroutine
<1>2. /\ u \in Goroutine /\ u.at = "post" /\ u.attempt = g.attempt /\ u.clock = g.clock
      /\ u.received = g.received /\ u.wire = g.wire /\ u.unacknowledged = g.unacknowledged + 1
    BY <1>1 DEF Goroutine
<1> HIDE DEF u
<1>3. Timely(u)
    BY <1>2 DEF Timely
<1>4. /\ w \in Goroutine /\ w.at \in {"post", "failed"} /\ Timely(w)
      /\ w.received = g.received /\ w.wire = g.wire
      /\ w.unacknowledged = g.unacknowledged + 1
      /\ w.at = "post" => w.attempt = g.attempt + 1
      /\ w.at = "failed" => w.attempt = g.attempt
    BY <1>2, <1>3, TryAgainTimely
<1>5. Unacknowledged(g, cost) = w
    BY DEF Unacknowledged, u
<1> HIDE DEF w
<1>6. w.unacknowledged <= w.attempt + (IF w.at = "failed" THEN 1 ELSE 0)
    BY <1>1, <1>4
<1> QED
    BY <1>4, <1>5, <1>6

\* A step of one goroutine.
LEMMA GoroutineMoves ==
    ASSUME WebhookInv, NEW d \in Delivery, NEW h \in Goroutine,
           delivery' = [delivery EXCEPT ![d] = h], UNCHANGED <<endpoints, events>>,
           delivery[d].at # "none", Honest(h), Timely(h)
    PROVE  WebhookInv'
<1>1. delivery' \in [Delivery -> Goroutine] /\ delivery'[d] = h
      /\ \A c \in Delivery : c # d => delivery'[c] = delivery[c]
    BY DEF WebhookInv
<1>2. ASSUME NEW c \in Delivery
      PROVE  /\ delivery'[c].at # "none" => c[1] <= events' /\ endpoints'[c[2]] # Absent
             /\ Honest(delivery'[c]) /\ Timely(delivery'[c])
  <2>1. CASE c = d
    BY <1>1, <2>1 DEF WebhookInv
  <2>2. CASE c # d
    BY <1>1, <2>2 DEF WebhookInv
  <2> QED
    BY <2>1, <2>2
<1> QED
    BY <1>1, <1>2 DEF WebhookInv, Honest, Timely

LEMMA WebhookStart == WebhookInit => WebhookInv
<1> SUFFICES ASSUME WebhookInit PROVE WebhookInv
    OBVIOUS
<1>1. events \in 0 .. MaxEvents
    BY DeliveryAssumption DEF WebhookInit
<1>2. delivery = [d \in Delivery |-> Idle] /\ endpoints = [e \in Endpoint |-> Absent]
    BY DEF WebhookInit
<1>3. Idle.at = "none"
    BY DEF Idle
<1>4. ASSUME NEW d \in Delivery
      PROVE  delivery[d] = Idle
    BY <1>2
<1>5. delivery \in [Delivery -> Goroutine] /\ endpoints \in [Endpoint -> Registered \cup {Absent}]
    BY <1>2, FreshGoroutine
<1> QED
    BY <1>1, <1>3, <1>4, <1>5, FreshGoroutine DEF WebhookInv

LEMMA WebhookStep == WebhookInv /\ [WebhookNext]_webhookVars => WebhookInv'
<1> SUFFICES ASSUME WebhookInv, [WebhookNext]_webhookVars PROVE WebhookInv'
    OBVIOUS
<1>0. \A d \in Delivery : d[1] \in 1 .. MaxEvents /\ d[2] \in Endpoint
    BY DEF Delivery
<1>1. ASSUME NEW e \in Endpoint, NEW t \in EndpointTenant, NEW u \in {"valid", "malformed"},
             NEW y \in EventType \cup {AnyType}, RegisterEndpoint(e, t, u, y)
      PROVE  WebhookInv'
  <2> DEFINE r == [tenant |-> t, url |-> u, event_type |-> y, is_active |-> TRUE]
  <2>1. r \in Registered
    BY DEF Registered
  <2>2. r # Absent
    BY <2>1, AbsentAssumption DEF Registered
  <2>3. endpoints' = [endpoints EXCEPT ![e] = r] /\ UNCHANGED <<events, delivery>>
    BY <1>1 DEF RegisterEndpoint
  <2> HIDE DEF r
  <2>4. endpoints' \in [Endpoint -> Registered \cup {Absent}]
        /\ \A k \in Endpoint : endpoints[k] # Absent => endpoints'[k] # Absent
    BY <2>1, <2>2, <2>3 DEF WebhookInv
  <2> QED
    BY <1>0, <2>3, <2>4 DEF WebhookInv, Honest, Timely
<1>2. ASSUME NEW e \in Endpoint, Deactivate(e) PROVE WebhookInv'
  <2> DEFINE r == [endpoints[e] EXCEPT !.is_active = FALSE]
  <2>1. endpoints[e] \in Registered
    BY <1>2 DEF Deactivate, WebhookInv
  <2>2. r \in Registered
    BY <2>1 DEF Registered
  <2>3. r # Absent
    BY <2>2, AbsentAssumption DEF Registered
  <2>4. endpoints' = [endpoints EXCEPT ![e] = r] /\ UNCHANGED <<events, delivery>>
    BY <1>2 DEF Deactivate
  <2> HIDE DEF r
  <2>5. endpoints' \in [Endpoint -> Registered \cup {Absent}]
        /\ \A k \in Endpoint : endpoints[k] # Absent => endpoints'[k] # Absent
    BY <2>2, <2>3, <2>4 DEF WebhookInv
  <2> QED
    BY <1>0, <2>4, <2>5 DEF WebhookInv, Honest, Timely
<1>3. ASSUME NEW t \in EndpointTenant, NEW y \in EventType, Notify(t, y) PROVE WebhookInv'
  <2> DEFINE p == [Idle EXCEPT !.at = "post"]
  <2>1. p \in Goroutine /\ Honest(p) /\ Timely(p)
    BY FreshGoroutine
  <2>2. PICK targets \in {{}, Matching(t, y)} :
           delivery' = [d \in Delivery |->
                           IF d[1] = events' /\ d[2] \in targets THEN p ELSE delivery[d]]
    BY <1>3 DEF Notify
  <2>3. endpoints' = endpoints /\ events' = events + 1 /\ events < MaxEvents
    BY <1>3 DEF Notify
  <2>4. \A e \in targets : endpoints[e] # Absent
    BY DEF Matching
  <2> HIDE DEF p
  <2>5. events' \in 0 .. MaxEvents /\ events \in Nat
    BY <2>3, DeliveryAssumption DEF WebhookInv
  <2>6. ASSUME NEW d \in Delivery
        PROVE  /\ delivery'[d] \in Goroutine
               /\ delivery'[d].at # "none" => d[1] <= events' /\ endpoints'[d[2]] # Absent
               /\ Honest(delivery'[d]) /\ Timely(delivery'[d])
    <3>1. CASE d[1] = events' /\ d[2] \in targets
        BY <2>1, <2>2, <2>3, <2>4, <2>5, <3>1
    <3>2. CASE ~(d[1] = events' /\ d[2] \in targets)
      <4>1. delivery'[d] = delivery[d]
        BY <2>2, <3>2
      <4>2. d[1] \in Nat
        BY <1>0
      <4> QED
        BY <2>3, <2>5, <4>1, <4>2 DEF WebhookInv
    <3> QED
        BY <3>1, <3>2
  <2>7. delivery' \in [Delivery -> Goroutine]
    BY <2>2, <2>6
  <2> QED
    BY <2>3, <2>5, <2>6, <2>7 DEF WebhookInv, Honest, Timely
<1>4. ASSUME NEW d \in Delivery, deliver(d) PROVE WebhookInv'
  <2> DEFINE g == delivery[d]
  <2>1. /\ g \in Goroutine /\ Honest(g) /\ Timely(g) /\ g.at = "post"
        /\ UNCHANGED <<endpoints, events>> /\ endpoints[d[2]] # Absent
    BY <1>4 DEF WebhookInv, deliver, PostMalformed, PostUnanswered, PostRejected,
                PostDelivered, Posting
  <2> HIDE DEF g
  <2>2. /\ g.attempt \in Nat /\ g.clock \in Nat /\ g.received \in Nat /\ g.wire \in Nat
        /\ g.unacknowledged \in Nat /\ g.received + g.wire <= g.unacknowledged
        /\ g.unacknowledged <= g.attempt
    BY <2>1, DeliveryAssumption DEF Goroutine, Honest
  <2>3. CASE PostMalformed(d)
    <3> DEFINE h == [g EXCEPT !.at = "malformed"]
    <3>1. h \in Goroutine
        BY <2>1 DEF Goroutine, Over
    <3>2. delivery' = [delivery EXCEPT ![d] = h]
        BY <2>3 DEF PostMalformed, g
    <3>3. /\ h.at = "malformed" /\ h.attempt = g.attempt /\ h.clock = g.clock
          /\ h.received = g.received /\ h.wire = g.wire /\ h.unacknowledged = g.unacknowledged
        BY <2>1 DEF Goroutine
    <3> HIDE DEF h
    <3>4. Honest(h)
        BY <2>2, <3>3 DEF Honest
    <3>5. Timely(h)
      <4>0. 2 ^ g.attempt \in Nat
        BY <2>2, PowerIsCount
      <4>1. /\ (g.attempt + 1) * DeliveryTimeout = g.attempt * DeliveryTimeout + DeliveryTimeout
            /\ g.attempt * DeliveryTimeout \in Nat
        BY <2>2, TimeOfTries
      <4>2. g.clock <= g.attempt * DeliveryTimeout + 2 ^ g.attempt - 1
        BY <2>1 DEF Timely
      <4>3. g.clock <= (g.attempt + 1) * DeliveryTimeout + 2 ^ g.attempt - 1
        BY <2>2, <4>0, <4>1, <4>2, DeliveryAssumption
      <4> QED
        BY <3>3, <4>3 DEF Timely
    <3> QED
        BY <2>1, <3>1, <3>2, <3>4, <3>5, GoroutineMoves DEF g
  <2>4. CASE PostUnanswered(d) \/ PostRejected(d)
    <3> DEFINE v(cost) == Unacknowledged(g, cost)
    <3>1. PICK cost \in {0, DeliveryTimeout} :
             \E h \in {v(cost), [v(cost) EXCEPT !.received = @ + 0],
                       [v(cost) EXCEPT !.received = @ + 1], [v(cost) EXCEPT !.wire = @ + 1]} :
                delivery' = [delivery EXCEPT ![d] = h]
      <4>1. CASE PostUnanswered(d)
        BY <4>1 DEF PostUnanswered, g
      <4>2. CASE PostRejected(d)
        <5>1. PICK c \in {0, DeliveryTimeout}, taken \in 0 .. 1 :
                 delivery' = [delivery EXCEPT ![d] = [v(c) EXCEPT !.received = @ + taken]]
            BY <4>2 DEF PostRejected, g
        <5>2. taken = 0 \/ taken = 1
            BY <5>1
        <5> QED
            BY <5>1, <5>2
      <4> QED
        BY <2>4, <4>1, <4>2
    <3> DEFINE w == v(cost)
    <3>2. /\ w \in Goroutine /\ w.at \in {"post", "failed"} /\ Timely(w)
          /\ w.received = g.received /\ w.wire = g.wire
          /\ w.unacknowledged = g.unacknowledged + 1
          /\ w.unacknowledged <= w.attempt + (IF w.at = "failed" THEN 1 ELSE 0)
        BY <2>1, <2>2, UnacknowledgedTry
    <3>3. PICK h \in {w, [w EXCEPT !.received = @ + 0], [w EXCEPT !.received = @ + 1],
                      [w EXCEPT !.wire = @ + 1]} :
             delivery' = [delivery EXCEPT ![d] = h]
        BY <3>1
    <3> HIDE DEF w, v
    <3>4. /\ h \in Goroutine /\ h.at = w.at /\ h.attempt = w.attempt /\ h.clock = w.clock
          /\ h.unacknowledged = w.unacknowledged /\ h.received + h.wire <= w.received + w.wire + 1
        BY <3>2 DEF Goroutine
    <3>5. Honest(h)
        BY <2>2, <3>2, <3>4 DEF Honest, Goroutine
    <3>6. Timely(h)
        BY <3>2, <3>4 DEF Timely
    <3> QED
        BY <2>1, <3>3, <3>4, <3>5, <3>6, GoroutineMoves DEF g
  <2>5. CASE PostDelivered(d)
    <3>1. PICK cost \in {0, DeliveryTimeout} :
             delivery' = [delivery EXCEPT ![d].at = "delivered", ![d].received = @ + 1,
                                          ![d].clock = @ + cost]
        BY <2>5 DEF PostDelivered
    <3> DEFINE h == [g EXCEPT !.at = "delivered", !.received = g.received + 1,
                              !.clock = g.clock + cost]
    <3>2. delivery' = [delivery EXCEPT ![d] = h]
        BY <2>1, <3>1 DEF g, Goroutine, WebhookInv
    <3>3. cost \in Nat /\ cost <= DeliveryTimeout
        BY DeliveryAssumption
    <3>4. /\ h \in Goroutine /\ h.at = "delivered" /\ h.attempt = g.attempt
          /\ h.clock = g.clock + cost /\ h.received = g.received + 1 /\ h.wire = g.wire
          /\ h.unacknowledged = g.unacknowledged
      <4>1. g.received + 1 \in Nat /\ g.clock + cost \in Nat
        BY <2>2, <3>3
      <4>2. h \in Goroutine
        BY <2>1, <4>1, GoroutineEnds
      <4>3. /\ h.at = "delivered" /\ h.attempt = g.attempt /\ h.clock = g.clock + cost
            /\ h.received = g.received + 1 /\ h.wire = g.wire /\ h.unacknowledged = g.unacknowledged
        BY <2>1 DEF Goroutine
      <4> QED
        BY <4>2, <4>3
    <3> HIDE DEF h
    <3>5. Honest(h)
        BY <2>2, <3>4 DEF Honest
    <3>6. Timely(h)
      <4>0. 2 ^ g.attempt \in Nat
        BY <2>2, PowerIsCount
      <4>1. /\ (g.attempt + 1) * DeliveryTimeout = g.attempt * DeliveryTimeout + DeliveryTimeout
            /\ g.attempt * DeliveryTimeout \in Nat
        BY <2>2, TimeOfTries
      <4>2. g.clock <= g.attempt * DeliveryTimeout + 2 ^ g.attempt - 1
        BY <2>1 DEF Timely
      <4>3. g.clock + cost <= (g.attempt + 1) * DeliveryTimeout + 2 ^ g.attempt - 1
        BY <2>2, <3>3, <4>0, <4>1, <4>2, DeliveryAssumption
      <4> QED
        BY <3>4, <4>3 DEF Timely
    <3> QED
        BY <2>1, <3>2, <3>4, <3>5, <3>6, GoroutineMoves DEF g
  <2> QED
    BY <1>4, <2>3, <2>4, <2>5 DEF deliver
<1>5. ASSUME NEW d \in Delivery, ArriveLate(d) PROVE WebhookInv'
  <2> DEFINE g == delivery[d]
             h == [g EXCEPT !.wire = g.wire - 1, !.received = g.received + 1]
  <2>1. /\ g \in Goroutine /\ Honest(g) /\ Timely(g) /\ g.wire > 0
        /\ UNCHANGED <<endpoints, events>>
    BY <1>5 DEF WebhookInv, ArriveLate
  <2>2. delivery' = [delivery EXCEPT ![d] = h]
    BY <1>5, <2>1 DEF ArriveLate, WebhookInv, Goroutine
  <2>3. /\ h \in Goroutine /\ h.at = g.at /\ h.attempt = g.attempt /\ h.clock = g.clock
        /\ h.unacknowledged = g.unacknowledged /\ h.received = g.received + 1 /\ h.wire = g.wire - 1
    <3>1. \A n, k \in Nat :
             LET f == [g EXCEPT !.wire = n, !.received = k]
             IN  /\ f \in Goroutine /\ f.at = g.at /\ f.attempt = g.attempt /\ f.clock = g.clock
                 /\ f.unacknowledged = g.unacknowledged /\ f.received = k /\ f.wire = n
        BY <2>1 DEF Goroutine
    <3>2. g.wire - 1 \in Nat /\ g.received + 1 \in Nat
        BY <2>1 DEF Goroutine
    <3> QED
        BY <3>1, <3>2
  <2>4. g.received \in Nat /\ g.wire \in Nat /\ g.unacknowledged \in Nat
    BY <2>1 DEF Goroutine
  <2> HIDE DEF h
  <2>5. Honest(h)
    BY <2>1, <2>3, <2>4 DEF Honest
  <2>6. Timely(h)
    BY <2>1, <2>3 DEF Timely
  <2>7. CASE g.at # "none"
    BY <2>1, <2>2, <2>3, <2>5, <2>6, <2>7, GoroutineMoves
  <2>8. CASE g.at = "none"
    <3>1. delivery' \in [Delivery -> Goroutine] /\ delivery'[d] = h
          /\ \A c \in Delivery : c # d => delivery'[c] = delivery[c]
        BY <2>2, <2>3 DEF WebhookInv
    <3>2. ASSUME NEW c \in Delivery
          PROVE  /\ delivery'[c].at # "none" => c[1] <= events' /\ endpoints'[c[2]] # Absent
                 /\ Honest(delivery'[c]) /\ Timely(delivery'[c])
        BY <2>1, <2>3, <2>5, <2>6, <2>8, <3>1 DEF WebhookInv
    <3> QED
        BY <2>1, <3>1, <3>2 DEF WebhookInv, Honest, Timely
  <2> QED
    BY <2>7, <2>8
<1>6. CASE UNCHANGED <<endpoints, events, delivery>>
    BY <1>6 DEF WebhookInv, Honest, Timely
<1> QED
    BY <1>1, <1>2, <1>3, <1>4, <1>5, <1>6 DEF WebhookNext, webhookVars, Exit

\* The strengthening of the properties of the notifier.
LEMMA WebhookInvariant == WebhookSpec => []WebhookInv
    BY WebhookStart, WebhookStep, PTL DEF WebhookSpec

\* An endpoint may rely on what DeliverEvent's goroutines do, whatever the network
\* loses or delays and however many tries there are: an event counts as delivered
\* only if the endpoint has it, a further copy stems from a try that got no 2xx
\* answer, and there are never more copies than tries.
THEOREM DeliveriesHonest == WebhookSpec => []DeliveryHonest
<1>1. WebhookInv => DeliveryHonest
  <2> SUFFICES ASSUME WebhookInv, NEW d \in Delivery
               PROVE  LET g == delivery[d]
                          acknowledged == IF g.at = "delivered" THEN 1 ELSE 0
                      IN  /\ g.at = "delivered" => g.received > 0
                          /\ g.received + g.wire <= g.unacknowledged + acknowledged
                          /\ g.unacknowledged + acknowledged <= DeliveryTries
    BY DEF DeliveryHonest
  <2>1. delivery[d] \in Goroutine /\ Honest(delivery[d])
    BY DEF WebhookInv
  <2>2. /\ delivery[d].attempt \in Nat /\ delivery[d].attempt + 1 <= DeliveryTries
        /\ delivery[d].unacknowledged \in Nat /\ DeliveryTries \in Nat
    BY <2>1, DeliveryAssumption DEF Goroutine
  <2> QED
    BY <2>1, <2>2 DEF Honest
<1> QED
    BY <1>1, WebhookInvariant, PTL

\* How long a delivery's goroutine may live, for every number of tries and every
\* timeout of the HTTP client: one timeout per try, and pauses that double.
THEOREM DeliveriesTimely == WebhookSpec => []DeliveryTimeBound
<1>1. WebhookInv => DeliveryTimeBound
  <2> SUFFICES ASSUME WebhookInv, NEW d \in Delivery
               PROVE  delivery[d].clock <= DeliveryTries * DeliveryTimeout
                                           + 2 ^ (DeliveryTries - 1) - 1
    BY DEF DeliveryTimeBound
  <2> DEFINE g == delivery[d]
             n == IF g.at \in {"none", "post"} THEN g.attempt ELSE g.attempt + 1
  <2>1. g \in Goroutine /\ Timely(g)
    BY DEF WebhookInv
  <2>2. /\ g.attempt \in Nat /\ g.attempt <= DeliveryTries - 1 /\ g.clock \in Nat
        /\ n \in Nat /\ n <= DeliveryTries /\ DeliveryTries - 1 \in Nat
    BY <2>1, DeliveryAssumption DEF Goroutine
  <2>3. g.clock <= n * DeliveryTimeout + 2 ^ g.attempt - 1
    BY <2>1 DEF Timely
  <2> HIDE DEF n, g
  <2>4. n * DeliveryTimeout <= DeliveryTries * DeliveryTimeout
    BY <2>2, ProductMonotone, DeliveryAssumption
  <2>5. 2 ^ g.attempt <= 2 ^ (DeliveryTries - 1)
    BY <2>2, PowerMonotone
  <2>6. 2 ^ g.attempt \in Nat /\ 2 ^ (DeliveryTries - 1) \in Nat
    BY <2>2, PowerIsCount
  <2>7. n * DeliveryTimeout \in Nat /\ DeliveryTries * DeliveryTimeout \in Nat
    BY <2>2, Product, DeliveryAssumption
  <2>8. g.clock <= DeliveryTries * DeliveryTimeout + 2 ^ (DeliveryTries - 1) - 1
    BY <2>2, <2>3, <2>4, <2>5, <2>6, <2>7
  <2> QED
    BY <2>8 DEF g
<1> QED
    BY <1>1, WebhookInvariant, PTL

\* Both clients side by side: no retry loop of either runs more often than its
\* limit, and a goroutine exists only for an event sent to an endpoint.
THEOREM OutboundTyped == OutboundSpec => []OutboundTypeOK
<1> DEFINE Both == RpcTypeOK /\ ReportsAreTrue /\ ClockInv /\ WebhookInv
<1>1. OutboundInit => Both
    BY SolanaInit, WebhookStart DEF OutboundInit
<1>2. Both /\ [OutboundNext]_outbound => Both'
  <2>1. [OutboundNext]_outbound => [RpcNext]_rpcVars /\ [WebhookNext]_webhookVars
    BY DEF outbound, OutboundNext, FollowRpc, FollowWebhook
  <2>2. RpcTypeOK /\ ReportsAreTrue /\ ClockInv /\ [RpcNext]_rpcVars
           => RpcTypeOK' /\ ReportsAreTrue' /\ ClockInv'
    BY SolanaStep
  <2> QED
    BY <2>1, <2>2, WebhookStep
<1>3. Both => OutboundTypeOK
    BY DEF OutboundTypeOK, WebhookInv, WebhookTypeOK, Goroutine
<1> QED
    BY <1>1, <1>2, <1>3, PTL DEF OutboundSpec
=============================================================================
