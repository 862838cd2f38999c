-------------------------- MODULE RateLimiterProofs --------------------------
(* The rate bound for every number of goroutines, rate, burst and window. *)
EXTENDS RateLimiter, TLAPS

\* What is earned in two consecutive intervals.
LEMMA Earned ==
    \A a, b, r \in Nat : (a + b) * r = a * r + b * r /\ a * r \in Nat
    OBVIOUS

LEMMA Monotone ==
    ASSUME NEW a \in Nat, NEW b \in Nat, NEW r \in Nat, a <= b
    PROVE  a * r <= b * r
<1>1. PICK k \in Nat : b = a + k
    BY b - a \in Nat, b = a + (b - a)
<1> QED
    BY <1>1, Earned

LEMMA FullNat == Full \in Nat
    BY RateAssumption DEF Full

\* Taking a token moves it from the bucket to what was given.
LEMMA Given ==
    \A g \in Nat : (g + 1) * Unit = g * Unit + Unit /\ g * Unit \in Nat
    BY Earned, RateAssumption

LEMMA RefilledNat ==
    ASSUME TypeOK, NEW b \in Bucket, lastTime[b] <= now
    PROVE  /\ Refilled(b) \in Nat /\ Refilled(b) <= Full
           /\ Refilled(b) <= tokens[b] + (now - lastTime[b]) * Rate
           /\ (now - lastTime[b]) * Rate \in Nat
<1>1. (now - lastTime[b]) \in Nat /\ tokens[b] \in Nat
    BY DEF TypeOK
<1>2. (now - lastTime[b]) * Rate \in Nat
    BY <1>1, Earned, RateAssumption
<1> QED
    BY <1>1, <1>2, FullNat DEF Refilled

LEMMA LevelNat ==
    ASSUME TypeOK, BucketInv
    PROVE  Level \in Nat /\ Level <= Full
<1>1. CASE entry = None
    BY <1>1, FullNat DEF Level
<1>2. CASE entry # None
  <2>1. entry \in Bucket /\ lastTime[entry] <= now
    BY <1>2 DEF TypeOK, BucketInv
  <2> QED
    BY <1>2, <2>1, RefilledNat DEF Level
<1> QED
    BY <1>1, <1>2

\* The quantities of the budget are natural numbers.
LEMMA BudgetNat ==
    ASSUME TypeOK, start <= now
    PROVE  /\ now - start \in Nat /\ (now - start) * Rate \in Nat
           /\ allowed * Unit \in Nat /\ strays * Unit \in Nat
    BY Earned, Given, RateAssumption DEF TypeOK

LEMMA TypeInit == Init => TypeOK
    BY FullNat DEF Init, TypeOK

\* Who takes a token holds a bucket last used in the past.
LEMMA HeldBucket ==
    ASSUME TypeOK, BucketInv, NEW c \in Caller, pc[c] = "take"
    PROVE  held[c] \in Bucket /\ lastTime[held[c]] <= now
    BY DEF TypeOK, BucketInv

LEMMA TypeStep == TypeOK /\ BucketInv /\ [Next]_vars => TypeOK'
<1> SUFFICES ASSUME TypeOK, BucketInv, [Next]_vars PROVE TypeOK'
    OBVIOUS
<1> USE BucketAssumption, RateAssumption
<1>1. ASSUME NEW c \in Caller, Load(c) PROVE TypeOK'
    BY <1>1, FullNat DEF Load, TypeOK, buckets, window
<1>2. ASSUME NEW c \in Caller, LoadOrStore(c) PROVE TypeOK'
    BY <1>2 DEF LoadOrStore, TypeOK, buckets, window
<1>3. ASSUME NEW c \in Caller, Take(c) PROVE TypeOK'
  <2>1. held[c] \in Bucket /\ lastTime[held[c]] <= now
    BY <1>3, HeldBucket DEF Take
  <2>2. Refilled(held[c]) \in 0 .. Full
    BY <2>1, RefilledNat, FullNat
  <2>3. Refilled(held[c]) >= Unit => Refilled(held[c]) - Unit \in 0 .. Full
    BY <2>2, FullNat
  <2> QED
    BY <1>3, <2>1, <2>2, <2>3 DEF Take, TypeOK, buckets, window
<1>4. CASE Cleanup \/ CleanupVisit
    BY <1>4 DEF Cleanup, CleanupVisit, TypeOK, buckets, window
<1>5. CASE Tick \/ OpenWindow
    BY <1>5 DEF Tick, OpenWindow, TypeOK, buckets, window
<1>6. CASE UNCHANGED vars
    BY <1>6 DEF vars, TypeOK, buckets, window
<1> QED
    BY <1>1, <1>2, <1>3, <1>4, <1>5, <1>6 DEF Next

LEMMA BucketInit == Init => BucketInv
<1> SUFFICES ASSUME Init PROVE BucketInv
    OBVIOUS
<1>1. allowed * Unit = 0 /\ (now - start) * Rate = 0 /\ strays * Unit = 0
    BY RateAssumption DEF Init
<1>2. allowed * Unit + Level <= Full + (now - start) * Rate + strays * Unit
    BY <1>1, FullNat DEF Level, Init
<1> QED
    BY <1>2 DEF Init, BucketInv

LEMMA BucketStep ==
    ASSUME AgeSuffices, TypeOK, TypeOK', BucketInv, [Next]_vars
    PROVE  BucketInv'
<1> USE BucketAssumption, RateAssumption, CleaningAssumption
<1>1. ASSUME NEW c \in Caller, Load(c) PROVE BucketInv'
  <2>1. UNCHANGED <<entry, cutoff, now, start, allowed, strays>>
    BY <1>1 DEF Load, window
  <2>2. CASE entry # None
    <3>1. UNCHANGED <<tokens, lastTime>> /\ Level' = Level
        BY <1>1, <2>1, <2>2 DEF Load, buckets, Level, Refilled
    <3>2. held' = [held EXCEPT ![c] = entry] /\ pc' = [pc EXCEPT ![c] = "take"]
        BY <1>1, <2>2 DEF Load
    <3> QED
        BY <2>1, <2>2, <3>1, <3>2 DEF BucketInv, TypeOK
  <2>3. CASE entry = None
    <3>1. PICK b \in Bucket \ InUse :
              /\ tokens' = [tokens EXCEPT ![b] = Full]
              /\ lastTime' = [lastTime EXCEPT ![b] = now]
              /\ held' = [held EXCEPT ![c] = b]
              /\ pc' = [pc EXCEPT ![c] = "store"]
        BY <1>1, <2>3 DEF Load
    <3>2. \A d \in Caller : held[d] # b
        BY DEF InUse
    <3>3. Level' = Level
        BY <2>1, <2>3 DEF Level
    <3> QED
        BY <2>1, <2>3, <3>1, <3>2, <3>3 DEF BucketInv, TypeOK
  <2> QED
    BY <2>2, <2>3
<1>2. ASSUME NEW c \in Caller, LoadOrStore(c) PROVE BucketInv'
  <2>1. /\ UNCHANGED <<tokens, lastTime, cutoff, now, start, allowed, strays>>
        /\ pc[c] = "store" /\ pc' = [pc EXCEPT ![c] = "take"]
    BY <1>2 DEF LoadOrStore, buckets, window
  <2>2. CASE entry # None
    <3>1. entry' = entry /\ held' = [held EXCEPT ![c] = entry]
        BY <1>2, <2>2 DEF LoadOrStore
    <3>2. Level' = Level
        BY <2>1, <3>1 DEF Level, Refilled
    <3> QED
        BY <2>1, <2>2, <3>1, <3>2 DEF BucketInv, TypeOK
  <2>3. CASE entry = None
    <3>1. entry' = held[c] /\ held' = held
        BY <1>2, <2>3 DEF LoadOrStore, TypeOK
    <3>2. held[c] \in Bucket /\ tokens[held[c]] = Full /\ lastTime[held[c]] <= now
        BY <2>1 DEF BucketInv
    <3>3. Level' \in Nat /\ Level' <= Full
      <4>1. Refilled(held[c]) \in Nat /\ Refilled(held[c]) <= Full
        BY <3>2, RefilledNat
      <4>2. Level' = Refilled(held[c])
        BY <2>1, <3>1, <3>2 DEF Level, Refilled
      <4> QED
        BY <4>1, <4>2
    <3>4. Level = Full
        BY <2>3 DEF Level
    <3>5. allowed * Unit + Level' <= Full + (now - start) * Rate + strays * Unit
        BY <3>3, <3>4, FullNat, BudgetNat DEF BucketInv
    <3>6. ~Cleaning => \A d \in Caller : pc[d] # "take"
        BY <2>3 DEF BucketInv
    <3> QED
        BY <2>1, <2>3, <3>1, <3>2, <3>5, <3>6 DEF BucketInv, TypeOK
  <2> QED
    BY <2>2, <2>3
<1>3. ASSUME NEW c \in Caller, Take(c) PROVE BucketInv'
  <2> DEFINE b == held[c]
  <2>1. /\ pc[c] = "take" /\ pc' = [pc EXCEPT ![c] = "idle"] /\ held' = [held EXCEPT ![c] = None]
        /\ UNCHANGED <<entry, cutoff, now, start>> /\ lastTime' = [lastTime EXCEPT ![b] = now]
    BY <1>3 DEF Take
  <2>2. b \in Bucket /\ lastTime[b] <= now /\ b # None
    BY <2>1, HeldBucket
  <2>3. Refilled(b) \in Nat /\ Refilled(b) <= Full
    BY <2>2, RefilledNat
  <2>4. \A e \in Caller : pc[e] = "store" => held[e] # b
    BY <2>1 DEF BucketInv
  <2>5. /\ allowed' * Unit + Level' <= Full + (now - start) * Rate + strays' * Unit
        /\ ~Cleaning => strays' = 0
    <3> DEFINE x == allowed * Unit
               y == (now - start) * Rate
               z == strays * Unit
    <3>1. x \in Nat /\ y \in Nat /\ z \in Nat /\ Full \in Nat /\ Level \in Nat
        BY BudgetNat, LevelNat, FullNat DEF BucketInv
    <3>2. x + Level <= Full + y + z
        BY DEF BucketInv
    <3>3. CASE Refilled(b) < Unit
      <4>1. allowed' = allowed /\ strays' = strays /\ tokens' = [tokens EXCEPT ![b] = Refilled(b)]
        BY <1>3, <2>3, <3>3 DEF Take
      <4>2. Level' = Level
        <5>1. CASE entry = b
          <6>1. tokens'[b] = Refilled(b) /\ lastTime'[b] = now
            BY <2>1, <2>2, <4>1 DEF TypeOK
          <6>2. (now - now) * Rate = 0
            BY DEF TypeOK
          <6>3. Refilled(entry)' = Refilled(b)
            BY <2>1, <2>3, <5>1, <6>1, <6>2, FullNat DEF Refilled
          <6> QED
            BY <2>1, <2>2, <5>1, <6>3 DEF Level
        <5>2. CASE entry # b
            BY <2>1, <2>2, <4>1, <5>2 DEF Level, Refilled, TypeOK
        <5> QED
            BY <5>1, <5>2
      <4> QED
        BY <3>2, <4>1, <4>2 DEF BucketInv
    <3>4. CASE Refilled(b) >= Unit
      <4>1. /\ allowed' = allowed + 1 /\ strays' = IF b = entry THEN strays ELSE strays + 1
            /\ tokens' = [tokens EXCEPT ![b] = Refilled(b) - Unit]
        BY <1>3, <2>3, <3>4 DEF Take
      <4>2. allowed' * Unit = x + Unit
        BY <4>1, Given DEF TypeOK
      <4>3. CASE entry = b
        <5>1. tokens'[b] = Refilled(b) - Unit /\ lastTime'[b] = now
            BY <2>1, <2>2, <4>1 DEF TypeOK
        <5>2. (now - now) * Rate = 0
            BY DEF TypeOK
        <5>3. Refilled(entry)' = Refilled(b) - Unit
            BY <2>1, <2>3, <3>4, <4>3, <5>1, <5>2, FullNat DEF Refilled
        <5>4. Level = Refilled(b) /\ Level' = Refilled(b) - Unit
            BY <2>1, <2>2, <4>3, <5>3 DEF Level
        <5>5. strays' = strays
            BY <4>1, <4>3
        <5> HIDE DEF x, y, z
        <5>6. (x + Unit) + (Refilled(b) - Unit) <= Full + y + z
            BY <2>3, <3>1, <3>2, <5>4
        <5> QED
            BY <4>2, <5>4, <5>5, <5>6 DEF y, z, BucketInv
      <4>4. CASE entry # b
        <5>1. Level' = Level
            BY <2>1, <2>2, <4>1, <4>4 DEF Level, Refilled, TypeOK
        <5>2. strays' * Unit = z + Unit
            BY <4>1, <4>4, Given DEF TypeOK
        <5>3. Cleaning
            BY <2>1, <4>4 DEF BucketInv
        <5> HIDE DEF x, y, z
        <5>4. (x + Unit) + Level <= Full + y + (z + Unit)
            BY <3>1, <3>2
        <5> QED
            BY <4>2, <5>1, <5>2, <5>3, <5>4 DEF y
      <4> QED
        BY <4>3, <4>4
    <3> QED
        BY <2>3, <3>3, <3>4
  <2>6. \A d \in Bucket : d # b => tokens'[d] = tokens[d] /\ lastTime'[d] = lastTime[d]
    BY <1>3, <2>1, <2>2 DEF Take, TypeOK
  <2>7. \A d \in Bucket : lastTime[d] <= now => lastTime'[d] <= now
    BY <2>1, <2>2 DEF TypeOK
  <2> HIDE DEF b
  <2> QED
    BY <2>1, <2>4, <2>5, <2>6, <2>7 DEF BucketInv, TypeOK
<1>4. CASE Cleanup
  <2>1. UNCHANGED <<entry, tokens, lastTime, pc, held, now, start, allowed, strays>>
    BY <1>4 DEF Cleanup, buckets, window
  <2>2. cutoff' \in Nat /\ cutoff' + MaxAge <= now /\ Cleaning
    BY <1>4 DEF Cleanup, TypeOK
  <2>3. Level' = Level
    BY <2>1 DEF Level, Refilled
  <2> QED
    BY <2>1, <2>2, <2>3 DEF BucketInv
<1>5. CASE CleanupVisit
  <2>1. /\ UNCHANGED <<tokens, lastTime, pc, held, now, start, allowed, strays>>
        /\ cutoff # None /\ cutoff' = None /\ Cleaning
    BY <1>5 DEF CleanupVisit, buckets, window, BucketInv
  <2>2. CASE entry' = entry
    <3>1. Level' = Level
        BY <2>1, <2>2 DEF Level, Refilled
    <3> QED
        BY <2>1, <2>2, <3>1 DEF BucketInv
  <2>3. CASE entry' # entry
    <3>1. entry' = None /\ entry \in Bucket /\ lastTime[entry] < cutoff
        BY <1>5, <2>3 DEF CleanupVisit, TypeOK
    <3>2. Refilled(entry) = Full
      <4> DEFINE d == now - lastTime[entry]
      <4>1. d \in Nat /\ MaxAge <= d /\ tokens[entry] \in Nat
        BY <2>1, <3>1 DEF BucketInv, TypeOK
      <4>2. MaxAge * Rate <= d * Rate /\ d * Rate \in Nat /\ MaxAge * Rate \in Nat
        <5> HIDE DEF d
        <5> QED
            BY <4>1, Monotone, Earned
      <4>3. Full <= MaxAge * Rate
        BY <2>1 DEF AgeSuffices
      <4>4. tokens[entry] + d * Rate \in Nat /\ Full <= tokens[entry] + d * Rate
        <5> HIDE DEF d
        <5> QED
            BY <4>1, <4>2, <4>3, FullNat
      <4> QED
        BY <4>4, FullNat DEF Refilled
    <3>3. Level' = Level
        BY <3>1, <3>2 DEF Level
    <3> QED
        BY <2>1, <3>1, <3>3 DEF BucketInv, TypeOK
  <2> QED
    BY <2>2, <2>3
<1>6. CASE Tick
  <2>1. UNCHANGED <<entry, tokens, lastTime, pc, held, cutoff, start, allowed, strays>> /\ now' = now + 1
    BY <1>6 DEF Tick, buckets, window
  <2>2. (now' - start) * Rate = (now - start) * Rate + Rate
    <3>1. now - start \in Nat /\ now' - start = (now - start) + 1
        BY <2>1 DEF BucketInv, TypeOK
    <3>2. ((now - start) + 1) * Rate = (now - start) * Rate + 1 * Rate
        BY <3>1, Earned
    <3> QED
        BY <3>1, <3>2
  <2>3. Level' <= Level + Rate /\ Level' \in Nat
    <3>1. CASE entry = None
        BY <2>1, <3>1, FullNat DEF Level
    <3>2. CASE entry # None
      <4> DEFINE d == now - lastTime[entry]
      <4>1. entry \in Bucket /\ d \in Nat /\ tokens[entry] \in Nat /\ now' - lastTime[entry] = d + 1
        BY <2>1, <3>2 DEF BucketInv, TypeOK
      <4>2. (d + 1) * Rate = d * Rate + Rate /\ d * Rate \in Nat
        <5>1. (d + 1) * Rate = d * Rate + 1 * Rate /\ d * Rate \in Nat
          <6> HIDE DEF d
          <6> QED
            BY <4>1, Earned
        <5> QED
            BY <5>1
      <4>3. Level = IF tokens[entry] + d * Rate > Full THEN Full ELSE tokens[entry] + d * Rate
        BY <3>2 DEF Level, Refilled
      <4>4. Level' = IF tokens[entry] + (d + 1) * Rate > Full THEN Full
                                                   ELSE tokens[entry] + (d + 1) * Rate
        BY <2>1, <3>2, <4>1 DEF Level, Refilled
      <4> HIDE DEF d
      <4> QED
        BY <4>1, <4>2, <4>3, <4>4, FullNat
    <3> QED
        BY <3>1, <3>2
  <2>4. allowed * Unit + Level' <= Full + (now' - start) * Rate + strays * Unit
    <3> DEFINE x == allowed * Unit
               y == (now - start) * Rate
               z == strays * Unit
    <3>1. x \in Nat /\ y \in Nat /\ z \in Nat /\ Full \in Nat /\ Level \in Nat
        BY BudgetNat, LevelNat, FullNat DEF BucketInv
    <3>2. x + Level <= Full + y + z
        BY DEF BucketInv
    <3>3. (now' - start) * Rate = y + Rate
        BY <2>2
    <3> HIDE DEF x, y, z
    <3>4. \A m \in Nat : m <= Level + Rate => x + m <= Full + (y + Rate) + z
        BY <3>1, <3>2
    <3> QED
        BY <2>3, <3>3, <3>4 DEF x, z
  <2> QED
    BY <2>1, <2>4 DEF BucketInv, TypeOK
<1>7. CASE OpenWindow
  <2>1. /\ UNCHANGED <<entry, tokens, lastTime, pc, held, cutoff, now>>
        /\ start' = now /\ allowed' = 0 /\ strays' = 0
    BY <1>7 DEF OpenWindow, buckets
  <2>2. allowed' * Unit = 0 /\ strays' * Unit = 0 /\ (now - start') * Rate = 0
    BY <2>1 DEF TypeOK
  <2>3. Level' = Level
    BY <2>1 DEF Level, Refilled
  <2>4. allowed' * Unit + Level' <= Full + (now - start') * Rate + strays' * Unit
    BY <2>2, <2>3, LevelNat, FullNat
  <2> QED
    BY <2>1, <2>4 DEF BucketInv, TypeOK
<1>8. CASE UNCHANGED vars
  <2>1. UNCHANGED <<entry, tokens, lastTime, pc, held, cutoff, now, start, allowed, strays>>
    BY <1>8 DEF vars, buckets, window
  <2> QED
    BY <2>1 DEF BucketInv, Level, Refilled
<1> QED
    BY <1>1, <1>2, <1>3, <1>4, <1>5, <1>6, <1>7, <1>8 DEF Next

\* Whatever goroutines share or hold, the tenant's budget is kept (getBucket,
\* Allow, Cleanup).
THEOREM BucketInvariant == AgeSuffices => (Spec => [](TypeOK /\ BucketInv))
<1> SUFFICES ASSUME AgeSuffices PROVE Spec => [](TypeOK /\ BucketInv)
    OBVIOUS
<1>1. Init => TypeOK /\ BucketInv
    BY TypeInit, BucketInit
<1>2. TypeOK /\ BucketInv /\ [Next]_vars => (TypeOK /\ BucketInv)'
    BY TypeStep, BucketStep
<1> QED
    BY <1>1, <1>2, PTL DEF Spec

\* Buckets hold between no token and a full load, in fractions of a token, and
\* every goroutine stands where getBucket and Allow can be (Allow never lets a
\* bucket go below zero).
THEOREM BucketsWellFormed == AgeSuffices => (Spec => []TypeOK)
<1> QED
    BY BucketInvariant, PTL

\* No window of time sees more requests of a tenant than the burst, what the
\* rate earns and the strays of Cleanup, of which there are none while nobody
\* calls it (the server does not): for every number of goroutines, every rate,
\* burst and clock resolution (getBucket, Allow, Cleanup).
THEOREM RateLimited ==
    ASSUME AgeSuffices
    PROVE  Spec => []RateBound
<1>1. TypeOK /\ BucketInv => RateBound
  <2> SUFFICES ASSUME TypeOK, BucketInv PROVE RateBound
    OBVIOUS
  <2> DEFINE x == allowed * Unit
             y == (now - start) * Rate
             z == strays * Unit
  <2>1. x \in Nat /\ y \in Nat /\ z \in Nat /\ Full \in Nat /\ Level \in Nat
    BY BudgetNat, LevelNat, FullNat DEF BucketInv
  <2>2. x + Level <= Full + y + z /\ (~Cleaning => strays = 0)
    BY DEF BucketInv
  <2> HIDE DEF x, y, z
  <2>3. x <= Full + y + z
    BY <2>1, <2>2
  <2> QED
    BY <2>2, <2>3 DEF RateBound, x, y, z
<1> QED
    BY <1>1, BucketInvariant, PTL
=============================================================================
