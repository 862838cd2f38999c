--------------------------- MODULE ApiServerProofs ---------------------------
(***************************************************************************)
(* The shutdown, the pool and the snapshots of ApiServer, for every number *)
(* of connections and requests and every size of the pool.                 *)
(***************************************************************************)
EXTENDS ApiServer, FiniteSetTheorems, TLAPS

Place == {"idle", "chain", "probe", "want", "hold", "range", "loadCount", "loadErrors",
          "count", "latency", "error", "flush"}

Snapshot == [requests : Nat, latencies : Nat, errors : Nat]

\* The requests that have been counted and whose latency has not.
Uncounted == {c \in Conn : at[c] = "latency"}

Shape ==
    /\ server \in {"up", "stopping", "draining", "closed", "stopped", "killed"}
    /\ at \in [Actor -> Place] /\ at[Reconciler] \in {"idle", "want", "hold"}
    /\ kind \in [Actor -> Kind \cup {"reconcile"}] /\ kind[Reconciler] \in {"options", "reconcile"}
    /\ left \in [Actor -> Nat]
    /\ status \in [Actor -> {"ok", "error"}]
    /\ metrics \in Snapshot /\ partial \in [Conn -> Snapshot]
    /\ arrived \in Nat /\ answered \in Nat
    /\ maxOpen \in {1, PoolSize}

\* What an actor that runs statements serves, and how many it has left.
Serving ==
    \A a \in Actor : at[a] \in {"probe", "want", "hold"} =>
        kind[a] # "metrics" /\ left[a] \in 1 .. Statements(kind[a])

\* Once Shutdown has returned nothing is in flight, so only a reconciler is
\* left to meet the closed pool.
Drained ==
    /\ server \in {"draining", "closed", "stopped"} => InFlight = {}
    /\ answered + Cardinality(InFlight) = arrived
    /\ stranded \subseteq {Reconciler}

\* The actors that run a statement.
Holding == {a \in Actor : at[a] = "hold"}

\* Connections are held by the running statements and nobody else.
Held == using = Holding

\* Latencies trail requests by at least the requests between the two counters,
\* and a snapshot that has read the first of them is below what it reads next.
Ordered ==
    /\ metrics.latencies + Cardinality(Uncounted) <= metrics.requests
    /\ \A c \in Conn :
          /\ at[c] = "loadCount" => partial[c].latencies <= metrics.requests
          /\ at[c] = "loadErrors" \/ Snapped(c) => partial[c].latencies <= partial[c].requests

ApiInv == Shape /\ Serving /\ Drained /\ Held /\ Ordered

-----------------------------------------------------------------------------
(* Lemmas on the sets that are counted, and on the end of a statement *)

LEMMA Finite ==
    /\ IsFiniteSet(Actor) /\ IsFiniteSet(InFlight) /\ IsFiniteSet(Uncounted)
    /\ Cardinality(InFlight) \in Nat /\ Cardinality(Uncounted) \in Nat
<1>1. IsFiniteSet(Actor)
    BY ConnAssumption, FS_AddElement DEF Actor
<1>2. IsFiniteSet(InFlight) /\ IsFiniteSet(Uncounted)
    BY ConnAssumption, FS_Subset DEF InFlight, Uncounted
<1> QED
    BY <1>1, <1>2, FS_CardinalityType

LEMMA StatementCount == \A k : Statements(k) \in {1, 3}
    BY DEF Statements

\* The end of a statement takes its actor on and may start the reconciler.
LEMMA AfterEffect ==
    ASSUME Shape, Serving, NEW a \in Actor, NEW ok \in BOOLEAN,
           at[a] \in {"want", "hold"}, After(a, ok)
    PROVE  /\ at' \in [Actor -> Place] /\ kind' \in [Actor -> Kind \cup {"reconcile"}]
           /\ left' \in [Actor -> Nat] /\ status' \in [Actor -> {"ok", "error"}]
           /\ at'[Reconciler] \in {"idle", "want", "hold"}
           /\ kind'[Reconciler] \in {"options", "reconcile"}
           /\ at'[a] \in {"want", "idle", "count"} /\ (a \in Conn => at'[a] # "idle")
           /\ kind'[a] = kind[a] /\ (at'[a] = "want" => left'[a] \in 1 .. Statements(kind[a]))
           /\ \A b \in Actor : b # a =>
                 \/ at'[b] = at[b] /\ kind'[b] = kind[b] /\ left'[b] = left[b]
                 \/ /\ b = Reconciler /\ at[b] = "idle" /\ at'[b] = "want"
                    /\ kind'[b] = "reconcile" /\ left'[b] = 3
<1> DEFINE last  == left[a] = 1
           fails == ~ok /\ ~(last /\ Statements(kind[a]) = 3)
           ends  == last \/ fails
           spawn == last /\ kind[a] = "execute" /\ at[Reconciler] = "idle"
<1>1. /\ at' = [b \in Actor |-> IF b = a THEN IF ends THEN EndOf(a) ELSE "want"
                                ELSE IF b = Reconciler /\ spawn THEN "want" ELSE at[b]]
      /\ left' = [b \in Actor |-> IF b = a THEN IF ends THEN 0 ELSE left[a] - 1
                                  ELSE IF b = Reconciler /\ spawn THEN 3 ELSE left[b]]
      /\ kind' = [b \in Actor |-> IF b = a THEN kind[a]
                                  ELSE IF b = Reconciler /\ spawn THEN "reconcile" ELSE kind[b]]
    BY DEF After, Statements
<1>2. \E s \in {"ok", "error"} : status' = [status EXCEPT ![a] = s]
    BY DEF After, Shape, readiness
<1>3. left[a] \in 1 .. Statements(kind[a]) /\ Statements(kind[a]) \in {1, 3}
    BY StatementCount DEF Serving
<1>4. spawn => a # Reconciler
    BY DEF Shape
<1>5. EndOf(a) \in {"idle", "count"} /\ (a \in Conn => EndOf(a) = "count")
      /\ (a = Reconciler => EndOf(a) = "idle")
    BY ConnAssumption DEF EndOf
<1>6. ~ends => left[a] - 1 \in 1 .. Statements(kind[a])
    BY <1>3
<1>7. status' \in [Actor -> {"ok", "error"}]
    BY <1>2 DEF Shape
<1> HIDE DEF last, fails, ends, spawn
<1>8. at' \in [Actor -> Place]
    BY <1>1, <1>5 DEF Shape, Place
<1>9. left' \in [Actor -> Nat]
    BY <1>1, <1>6, <1>3 DEF Shape
<1>10. kind' \in [Actor -> Kind \cup {"reconcile"}]
    BY <1>1 DEF Shape
<1>11. /\ at'[a] = (IF ends THEN EndOf(a) ELSE "want") /\ kind'[a] = kind[a]
       /\ left'[a] = (IF ends THEN 0 ELSE left[a] - 1)
    BY <1>1
<1>12. \A b \in Actor : b # a =>
                 \/ at'[b] = at[b] /\ kind'[b] = kind[b] /\ left'[b] = left[b]
                 \/ /\ b = Reconciler /\ at[b] = "idle" /\ at'[b] = "want"
                    /\ kind'[b] = "reconcile" /\ left'[b] = 3
    BY <1>1 DEF spawn
<1>13. at'[Reconciler] \in {"idle", "want", "hold"} /\ kind'[Reconciler] \in {"options", "reconcile"}
    BY <1>11, <1>12, <1>5 DEF Shape, Actor
<1> QED
    BY <1>5, <1>6, <1>7, <1>8, <1>9, <1>10, <1>11, <1>12, <1>13

\* What a step of a request changes in the sets that are counted.
LEMMA Moved ==
    ASSUME Shape, NEW c \in Conn, NEW p \in Place, Goto(c, p)
    PROVE  /\ at' \in [Actor -> Place] /\ at'[c] = p /\ at'[Reconciler] = at[Reconciler]
           /\ \A a \in Actor : a # c => at'[a] = at[a]
           /\ at[c] # "idle" /\ p # "idle" => InFlight' = InFlight
           /\ at[c] # "hold" /\ p # "hold" => Holding' = Holding
           /\ at[c] # "latency" /\ p # "latency" => Uncounted' = Uncounted
<1>1. c \in Actor /\ c # Reconciler /\ Reconciler \in Actor
    BY ConnAssumption DEF Actor
<1>2. at' \in [Actor -> Place] /\ at'[c] = p /\ \A a \in Actor : a # c => at'[a] = at[a]
    BY <1>1 DEF Goto, Shape
<1>3. Conn \subseteq Actor
    BY DEF Actor
<1> QED
    BY <1>1, <1>2, <1>3 DEF InFlight, Holding, Uncounted

LEMMA ApiInitInv == ApiInit => ApiInv
<1> SUFFICES ASSUME ApiInit PROVE ApiInv
    OBVIOUS
<1> USE DEF ApiInit
<1>1. Shape
    BY PoolAssumption DEF Shape, Place, Kind, Snapshot, NoSnapshot, Actor
<1>2. InFlight = {} /\ Uncounted = {} /\ using = Holding
    BY DEF InFlight, Uncounted, Holding, Actor
<1>3. Serving /\ Drained /\ Held
    BY <1>2, FS_EmptySet DEF Serving, Drained, Held
<1>4. Ordered
    BY <1>2, FS_EmptySet DEF Ordered, NoSnapshot, Snapped, Actor
<1> QED
    BY <1>1, <1>3, <1>4 DEF ApiInv

-----------------------------------------------------------------------------
(* Every action keeps the invariant *)

LEMMA ArriveInv ==
    ASSUME ApiInv, NEW c \in Conn, NEW k \in Kind, Arrive(c, k)
    PROVE  ApiInv'
<1> USE DEF ApiInv
<1>0. c \in Actor /\ c # Reconciler /\ at[c] = "idle" /\ Conn \subseteq Actor
    BY ConnAssumption DEF Actor, Arrive
<1>1. /\ at' \in [Actor -> Place] /\ at'[c] = "chain" /\ at'[Reconciler] = at[Reconciler]
      /\ \A a \in Actor : a # c => at'[a] = at[a]
      /\ Holding' = Holding /\ Uncounted' = Uncounted
    BY <1>0, Moved DEF Arrive, Place
<1>2. Shape'
    BY <1>0, <1>1 DEF Arrive, Shape, Actor, pool, counters
<1>3. Serving'
    BY <1>0, <1>1 DEF Arrive, Serving, Shape, Place
<1>4. Drained'
  <2>1. c \notin InFlight /\ InFlight' = InFlight \cup {c}
    BY <1>0, <1>1 DEF InFlight
  <2>2. Cardinality(InFlight') = Cardinality(InFlight) + 1
    BY <2>1, Finite, FS_AddElement
  <2>3. answered' = answered /\ arrived' = arrived + 1 /\ stranded' = stranded /\ server' = "up"
    BY DEF Arrive
  <2>4. answered \in Nat /\ arrived \in Nat
    BY DEF Shape
  <2> QED
    BY <2>2, <2>3, <2>4, Finite DEF Drained
<1>5. Held'
    BY <1>1 DEF Arrive, Held, pool
<1>6. Ordered'
    BY <1>0, <1>1 DEF Arrive, Ordered, counters, Snapped, Shape
<1> QED
    BY <1>2, <1>3, <1>4, <1>5, <1>6 DEF Arrive

LEMMA FirstSteps ==
    \A k \in Kind : /\ FirstStep(k) \in {"count", "range", "probe", "want"}
                    /\ FirstStep(k) \in {"probe", "want", "count"} => k # "metrics"
<1> SUFFICES ASSUME NEW k \in Kind
             PROVE  /\ FirstStep(k) \in {"count", "range", "probe", "want"}
                    /\ FirstStep(k) \in {"probe", "want", "count"} => k # "metrics"
    OBVIOUS
<1>1. CASE k = "metrics"
    BY <1>1 DEF FirstStep
<1>2. CASE k # "metrics"
    BY <1>2 DEF FirstStep
<1> QED
    BY <1>1, <1>2

LEMMA ChainInv ==
    ASSUME ApiInv, NEW c \in Conn, Chain(c)
    PROVE  ApiInv'
<1> USE DEF ApiInv
<1>0. c \in Actor /\ c # Reconciler /\ at[c] = "chain" /\ Conn \subseteq Actor
    BY ConnAssumption DEF Actor, Chain
<1>1. UNCHANGED <<server, kind, maxOpen, using, metrics, partial, arrived,
                  answered, stranded>>
    BY DEF Chain, pool, counters, totals
<1>2. PICK p \in Place :
        /\ Goto(c, p)
        /\ p \in {"flush", "count", "range", "probe", "want"}
        /\ p = "count" => kind[c] # "metrics"
        /\ \/ left' = left /\ p \in {"flush", "count"}
           \/ /\ left' = [left EXCEPT ![c] = Statements(kind[c])]
              /\ p \in {"probe", "want"} => kind[c] # "metrics"
        /\ status' \in [Actor -> {"ok", "error"}]
  <2> DEFINE Leave(q, st) == Goto(c, q) /\ status' = [status EXCEPT ![c] = st] /\ UNCHANGED left
             Enter == /\ Goto(c, FirstStep(kind[c]))
                      /\ left' = [left EXCEPT ![c] = Statements(kind[c])]
                      /\ UNCHANGED status
  <2>1. \/ \E st \in {"ok", "error"} : Leave("flush", st)
        \/ kind[c] # "metrics" /\ Leave("count", "error")
        \/ kind[c] \in Kind /\ Enter
    BY DEF Chain, Versioned, Kind
  <2>2. CASE \E st \in {"ok", "error"} : Leave("flush", st)
    BY <2>2 DEF Place, Shape
  <2>3. CASE kind[c] # "metrics" /\ Leave("count", "error")
    BY <2>3 DEF Place, Shape
  <2>4. CASE kind[c] \in Kind /\ Enter
    <3>1. /\ FirstStep(kind[c]) \in {"count", "range", "probe", "want"}
          /\ FirstStep(kind[c]) \in {"probe", "want", "count"} => kind[c] # "metrics"
        BY <2>4, FirstSteps
    <3> QED
        BY <2>4, <3>1 DEF Place, Shape
  <2> QED
    BY <2>1, <2>2, <2>3, <2>4
<1>3. /\ at' \in [Actor -> Place] /\ at'[c] = p /\ at'[Reconciler] = at[Reconciler]
      /\ \A a \in Actor : a # c => at'[a] = at[a]
      /\ InFlight' = InFlight /\ Holding' = Holding /\ Uncounted' = Uncounted
    BY <1>0, <1>2, Moved
<1>4. Statements(kind[c]) \in Nat /\ Statements(kind[c]) \in 1 .. Statements(kind[c])
    BY StatementCount
<1>5. Shape'
    BY <1>0, <1>1, <1>2, <1>3, <1>4 DEF Shape
<1>6. Serving'
    BY <1>0, <1>1, <1>2, <1>3, <1>4 DEF Serving, Shape
<1>7. Drained' /\ Held'
    BY <1>1, <1>3 DEF Drained, Held
<1>8. Ordered'
    BY <1>0, <1>1, <1>2, <1>3 DEF Ordered, Snapped
<1> QED
    BY <1>1, <1>5, <1>6, <1>7, <1>8

LEMMA FlushInv ==
    ASSUME ApiInv, NEW c \in Conn, Flush(c)
    PROVE  ApiInv'
<1> USE DEF ApiInv
<1>0. c \in Actor /\ c # Reconciler /\ at[c] = "flush" /\ Conn \subseteq Actor
    BY ConnAssumption DEF Actor, Flush
<1>1. /\ UNCHANGED <<server, maxOpen, using, metrics, partial, arrived, stranded>>
      /\ answered' = answered + 1
      /\ kind' = [kind EXCEPT ![c] = "options"]
      /\ status' = [status EXCEPT ![c] = "ok"]
      /\ left' = [left EXCEPT ![c] = 0]
    BY DEF Flush, pool, counters
<1>2. /\ at' \in [Actor -> Place] /\ at'[c] = "idle" /\ at'[Reconciler] = at[Reconciler]
      /\ \A a \in Actor : a # c => at'[a] = at[a]
      /\ Holding' = Holding /\ Uncounted' = Uncounted
    BY <1>0, Moved DEF Flush, Place
<1>3. Shape'
  <2>1. kind' \in [Actor -> Kind \cup {"reconcile"}] /\ kind'[Reconciler] = kind[Reconciler]
    BY <1>0, <1>1, "options" \in Kind DEF Shape, Kind
  <2>2. left' \in [Actor -> Nat] /\ status' \in [Actor -> {"ok", "error"}] /\ answered' \in Nat
    BY <1>0, <1>1 DEF Shape
  <2> QED
    BY <1>1, <1>2, <2>1, <2>2 DEF Shape
<1>4. Serving'
    BY <1>0, <1>1, <1>2 DEF Serving, Shape
<1>5. Drained'
  <2>1. c \in InFlight /\ InFlight' = InFlight \ {c}
    BY <1>0, <1>2 DEF InFlight
  <2>2. Cardinality(InFlight') = Cardinality(InFlight) - 1
    BY <2>1, Finite, FS_RemoveElement
  <2>3. answered \in Nat /\ arrived \in Nat
    BY DEF Shape
  <2> QED
    BY <1>1, <2>1, <2>2, <2>3, Finite DEF Drained
<1>6. Held'
    BY <1>1, <1>2 DEF Held
<1>7. Ordered'
    BY <1>0, <1>1, <1>2 DEF Ordered, Snapped, Shape
<1> QED
    BY <1>3, <1>4, <1>5, <1>6, <1>7

LEMMA checkDBInv ==
    ASSUME ApiInv, NEW c \in Conn, checkDB(c)
    PROVE  ApiInv'
<1> USE DEF ApiInv
<1>0. c \in Actor /\ c # Reconciler /\ at[c] = "probe" /\ Conn \subseteq Actor
    BY ConnAssumption DEF Actor, checkDB
<1>1. /\ UNCHANGED <<server, kind, left, status, using, metrics, partial, arrived,
                     answered, stranded>>
      /\ maxOpen' = 1
    BY DEF checkDB, counters, totals
<1>2. /\ at' \in [Actor -> Place] /\ at'[c] = "want" /\ at'[Reconciler] = at[Reconciler]
      /\ \A a \in Actor : a # c => at'[a] = at[a]
      /\ InFlight' = InFlight /\ Holding' = Holding /\ Uncounted' = Uncounted
    BY <1>0, Moved DEF checkDB, Place
<1>3. Shape'
    BY <1>0, <1>1, <1>2 DEF Shape
<1>4. Serving'
    BY <1>0, <1>1, <1>2 DEF Serving
<1>5. Drained' /\ Held'
    BY <1>1, <1>2 DEF Drained, Held
<1>6. Ordered'
    BY <1>0, <1>1, <1>2 DEF Ordered, Snapped
<1> QED
    BY <1>1, <1>3, <1>4, <1>5, <1>6

LEMMA AcquireInv ==
    ASSUME ApiInv, NEW a \in Actor, Acquire(a)
    PROVE  ApiInv'
<1> USE DEF ApiInv
<1>0. at[a] = "want" /\ Conn \subseteq Actor /\ Reconciler \in Actor /\ "hold" \in Place
    BY DEF Actor, Acquire, Place
<1>1. /\ UNCHANGED <<server, kind, left, status, maxOpen, metrics, partial, arrived,
                     answered, stranded>>
      /\ at' = [at EXCEPT ![a] = "hold"] /\ using' = using \cup {a}
    BY DEF Acquire, counters, totals, Goto
<1>2. InFlight' = InFlight /\ Uncounted' = Uncounted
    BY <1>0, <1>1 DEF InFlight, Uncounted, Shape
<1>3. Shape'
    BY <1>0, <1>1 DEF Shape
<1>4. Serving'
    BY <1>0, <1>1 DEF Serving, Shape
<1>5. Drained'
    BY <1>1, <1>2 DEF Drained
<1>6. Held'
    BY <1>0, <1>1 DEF Held, Holding, Shape
<1>7. Ordered'
    BY <1>0, <1>1, <1>2 DEF Ordered, Snapped, Shape
<1> QED
    BY <1>3, <1>4, <1>5, <1>6, <1>7

\* The part of the invariant that the end of a statement touches, whether the
\* statement ran or met a closed pool.
LEMMA AfterInv ==
    ASSUME ApiInv, NEW a \in Actor, NEW ok \in BOOLEAN, at[a] \in {"want", "hold"}, After(a, ok),
           UNCHANGED <<server, maxOpen, metrics, partial, arrived, answered>>
    PROVE  /\ Shape' /\ Serving' /\ Ordered' /\ InFlight' = InFlight
           /\ Holding' = Holding \ {a}
<1> USE DEF ApiInv
<1>0. Conn \subseteq Actor /\ Reconciler \in Actor /\ Reconciler \notin Conn
    BY ConnAssumption DEF Actor
<1>1. /\ at' \in [Actor -> Place] /\ kind' \in [Actor -> Kind \cup {"reconcile"}]
      /\ left' \in [Actor -> Nat] /\ status' \in [Actor -> {"ok", "error"}]
      /\ at'[Reconciler] \in {"idle", "want", "hold"}
      /\ kind'[Reconciler] \in {"options", "reconcile"}
    BY AfterEffect
<1>2. /\ at'[a] \in {"want", "idle", "count"} /\ (a \in Conn => at'[a] # "idle")
      /\ kind'[a] = kind[a] /\ (at'[a] = "want" => left'[a] \in 1 .. Statements(kind[a]))
    BY AfterEffect
<1>3. \A b \in Actor : b # a =>
         \/ at'[b] = at[b] /\ kind'[b] = kind[b] /\ left'[b] = left[b]
         \/ /\ b = Reconciler /\ at[b] = "idle" /\ at'[b] = "want"
            /\ kind'[b] = "reconcile" /\ left'[b] = 3
    BY AfterEffect
<1>4. Shape'
    BY <1>1 DEF Shape
<1>5. Serving'
  <2> SUFFICES ASSUME NEW b \in Actor, at'[b] \in {"probe", "want", "hold"}
               PROVE  kind'[b] # "metrics" /\ left'[b] \in 1 .. Statements(kind'[b])
    BY DEF Serving
  <2>1. CASE b = a
    BY <1>2, <2>1 DEF Serving
  <2>2. CASE b # a
    BY <1>3, <2>2 DEF Serving, Statements
  <2> QED
    BY <2>1, <2>2
<1>6. \A c \in Conn : c # a => at'[c] = at[c] /\ kind'[c] = kind[c]
    BY <1>0, <1>3
<1>7. InFlight' = InFlight /\ Uncounted' = Uncounted
    BY <1>2, <1>6 DEF InFlight, Uncounted
<1>8. Holding' = Holding \ {a}
    BY <1>2, <1>3 DEF Holding
<1>9. Ordered'
    BY <1>2, <1>6, <1>7 DEF Ordered, Snapped, Serving
<1> QED
    BY <1>4, <1>5, <1>7, <1>8, <1>9

LEMMA RunInv ==
    ASSUME ApiInv, NEW a \in Actor, Run(a)
    PROVE  ApiInv'
<1> USE DEF ApiInv
<1>1. /\ UNCHANGED <<server, maxOpen, metrics, partial, arrived, answered, stranded>>
      /\ at[a] = "hold" /\ using' = using \ {a}
    BY DEF Run, counters, totals
<1>2. PICK ok \in BOOLEAN : After(a, ok)
    BY DEF Run
<1>3. /\ Shape' /\ Serving' /\ Ordered' /\ InFlight' = InFlight
      /\ Holding' = Holding \ {a}
    BY <1>1, <1>2, AfterInv
<1>4. Drained'
    BY <1>1, <1>3 DEF Drained
<1>5. Held'
    BY <1>1, <1>3 DEF Held
<1> QED
    BY <1>3, <1>4, <1>5

LEMMA RefusedInv ==
    ASSUME ApiInv, NEW a \in Actor, Refused(a)
    PROVE  ApiInv'
<1> USE DEF ApiInv
<1>1. /\ UNCHANGED <<server, maxOpen, using, metrics, partial, arrived, answered>>
      /\ server = "closed" /\ at[a] = "want" /\ stranded' = stranded \cup {a} /\ After(a, FALSE)
    BY DEF Refused, counters, totals, pool
<1>2. /\ Shape' /\ Serving' /\ Ordered' /\ InFlight' = InFlight
      /\ Holding' = Holding \ {a}
    BY <1>1, AfterInv
<1>3. a = Reconciler
    BY <1>1 DEF Drained, InFlight, Actor
<1>4. Drained'
    BY <1>1, <1>2, <1>3 DEF Drained
<1>5. Held'
    BY <1>1, <1>2, <1>3 DEF Held, Drained, Holding
<1> QED
    BY <1>1, <1>2, <1>4, <1>5

LEMMA IncrRequestCountInv ==
    ASSUME ApiInv, NEW c \in Conn, IncrRequestCount(c)
    PROVE  ApiInv'
<1> USE DEF ApiInv
<1>0. c \in Actor /\ c # Reconciler /\ at[c] = "count" /\ Conn \subseteq Actor
    BY ConnAssumption DEF Actor, IncrRequestCount
<1>1. /\ UNCHANGED <<server, kind, left, status, maxOpen, using, arrived,
                     answered, stranded>>
      /\ metrics' = [metrics EXCEPT !.requests = @ + 1]
      /\ partial' = [partial EXCEPT ![c] = NoSnapshot]
    BY DEF IncrRequestCount, pool, totals
<1>2. /\ at' \in [Actor -> Place] /\ at'[c] = "latency" /\ at'[Reconciler] = at[Reconciler]
      /\ \A a \in Actor : a # c => at'[a] = at[a]
      /\ InFlight' = InFlight /\ Holding' = Holding
    BY <1>0, Moved DEF IncrRequestCount, Place
<1>3. /\ metrics' \in Snapshot /\ metrics'.requests = metrics.requests + 1
      /\ metrics'.latencies = metrics.latencies /\ metrics.latencies \in Nat /\ metrics.requests \in Nat
    BY <1>1 DEF Shape, Snapshot
<1>4. partial' \in [Conn -> Snapshot] /\ \A d \in Conn : d # c => partial'[d] = partial[d]
  <2>1. NoSnapshot \in Snapshot
    BY DEF NoSnapshot, Snapshot
  <2> QED
    BY <1>1, <2>1 DEF Shape
<1>5. Shape'
    BY <1>0, <1>1, <1>2, <1>3, <1>4 DEF Shape
<1>6. Serving'
    BY <1>0, <1>1, <1>2 DEF Serving
<1>7. Drained' /\ Held'
    BY <1>1, <1>2 DEF Drained, Held
<1>8. Ordered'
  <2>1. c \notin Uncounted /\ Uncounted' = Uncounted \cup {c}
    BY <1>0, <1>2 DEF Uncounted
  <2>2. Cardinality(Uncounted') = Cardinality(Uncounted) + 1
    BY <2>1, Finite, FS_AddElement
  <2>3. metrics'.latencies + Cardinality(Uncounted') <= metrics'.requests
    BY <1>3, <2>2, Finite DEF Ordered
  <2>4. \A d \in Conn : partial[d].latencies \in Nat
    BY DEF Shape, Snapshot
  <2>5. ASSUME NEW d \in Conn
        PROVE  /\ at'[d] = "loadCount" => partial'[d].latencies <= metrics'.requests
               /\ at'[d] = "loadErrors" \/ Snapped(d)' => partial'[d].latencies <= partial'[d].requests
    <3>1. CASE d = c
        BY <1>2, <3>1 DEF Snapped
    <3>2. CASE d # c
        BY <1>0, <1>1, <1>2, <1>3, <1>4, <2>4, <3>2 DEF Ordered, Snapped
    <3> QED
        BY <3>1, <3>2
  <2> QED
    BY <2>3, <2>5 DEF Ordered
<1> QED
    BY <1>1, <1>5, <1>6, <1>7, <1>8

LEMMA RecordLatencyInv ==
    ASSUME ApiInv, NEW c \in Conn, RecordLatency(c)
    PROVE  ApiInv'
<1> USE DEF ApiInv
<1>0. c \in Actor /\ c # Reconciler /\ at[c] = "latency" /\ Conn \subseteq Actor
    BY ConnAssumption DEF Actor, RecordLatency
<1>1. /\ UNCHANGED <<server, kind, left, status, maxOpen, using, partial, arrived,
                     answered, stranded>>
      /\ metrics' = [metrics EXCEPT !.latencies = @ + 1]
    BY DEF RecordLatency, pool, totals
<1>2. PICK p \in {"error", "flush"} : Goto(c, p)
    BY DEF RecordLatency
<1>3. /\ at' \in [Actor -> Place] /\ at'[c] = p /\ at'[Reconciler] = at[Reconciler]
      /\ \A a \in Actor : a # c => at'[a] = at[a]
      /\ InFlight' = InFlight /\ Holding' = Holding
    BY <1>0, <1>2, Moved DEF Place
<1>4. /\ metrics' \in Snapshot /\ metrics'.requests = metrics.requests
      /\ metrics'.latencies = metrics.latencies + 1 /\ metrics.latencies \in Nat /\ metrics.requests \in Nat
    BY <1>1 DEF Shape, Snapshot
<1>5. Shape'
    BY <1>0, <1>1, <1>3, <1>4 DEF Shape
<1>6. Serving'
    BY <1>0, <1>1, <1>3 DEF Serving
<1>7. Drained' /\ Held'
    BY <1>1, <1>3 DEF Drained, Held
<1>8. Ordered'
  <2>1. c \in Uncounted /\ Uncounted' = Uncounted \ {c}
    BY <1>0, <1>3 DEF Uncounted
  <2>2. Cardinality(Uncounted') = Cardinality(Uncounted) - 1
    BY <2>1, Finite, FS_RemoveElement
  <2>3. metrics'.latencies + Cardinality(Uncounted') <= metrics'.requests
    BY <1>4, <2>2, Finite DEF Ordered
  <2>4. \A d \in Conn : at'[d] \in {"loadCount", "loadErrors", "count"} => at'[d] = at[d]
    BY <1>0, <1>3
  <2> QED
    BY <1>1, <1>4, <2>3, <2>4 DEF Ordered, Snapped
<1> QED
    BY <1>1, <1>5, <1>6, <1>7, <1>8

LEMMA IncrRequestErrorsInv ==
    ASSUME ApiInv, NEW c \in Conn, IncrRequestErrors(c)
    PROVE  ApiInv'
<1> USE DEF ApiInv
<1>0. c \in Actor /\ c # Reconciler /\ at[c] = "error" /\ Conn \subseteq Actor
    BY ConnAssumption DEF Actor, IncrRequestErrors
<1>1. /\ UNCHANGED <<server, kind, left, status, maxOpen, using, partial, arrived,
                     answered, stranded>>
      /\ metrics' = [metrics EXCEPT !.errors = @ + 1]
    BY DEF IncrRequestErrors, pool, totals
<1>2. /\ at' \in [Actor -> Place] /\ at'[c] = "flush" /\ at'[Reconciler] = at[Reconciler]
      /\ \A a \in Actor : a # c => at'[a] = at[a]
      /\ InFlight' = InFlight /\ Holding' = Holding /\ Uncounted' = Uncounted
    BY <1>0, Moved DEF IncrRequestErrors, Place
<1>3. /\ metrics' \in Snapshot /\ metrics'.requests = metrics.requests
      /\ metrics'.latencies = metrics.latencies
    BY <1>1 DEF Shape, Snapshot
<1>4. Shape'
    BY <1>0, <1>1, <1>2, <1>3 DEF Shape
<1>5. Serving'
    BY <1>0, <1>1, <1>2 DEF Serving
<1>6. Drained' /\ Held'
    BY <1>1, <1>2 DEF Drained, Held
<1>7. \A d \in Conn : at'[d] \in {"loadCount", "loadErrors", "count"} => at'[d] = at[d]
    BY <1>0, <1>2
<1>8. Ordered'
    BY <1>1, <1>2, <1>3, <1>7 DEF Ordered, Snapped
<1> QED
    BY <1>1, <1>4, <1>5, <1>6, <1>8

\* What each of the three loads puts into the snapshot.
LEMMA Loaded ==
    ASSUME Shape, NEW c \in Conn, SnapshotWithDB(c)
    PROVE  /\ partial' \in [Conn -> Snapshot] /\ \A d \in Conn : d # c => partial'[d] = partial[d]
           /\ at[c] = "range" => Goto(c, "loadCount") /\ partial'[c].latencies = metrics.latencies
           /\ at[c] = "loadCount" => /\ Goto(c, "loadErrors")
                                     /\ partial'[c].latencies = partial[c].latencies
                                     /\ partial'[c].requests = metrics.requests
           /\ at[c] = "loadErrors" => /\ Goto(c, "count")
                                      /\ partial'[c].latencies = partial[c].latencies
                                      /\ partial'[c].requests = partial[c].requests
<1>0. NoSnapshot \in Snapshot /\ metrics \in Snapshot /\ partial \in [Conn -> Snapshot]
    BY DEF NoSnapshot, Snapshot, Shape
<1>1. CASE at[c] = "range"
  <2>1. partial' = [partial EXCEPT ![c] = [NoSnapshot EXCEPT !.latencies = metrics.latencies]]
    BY <1>1 DEF SnapshotWithDB
  <2>2. [NoSnapshot EXCEPT !.latencies = metrics.latencies] \in Snapshot
    BY <1>0 DEF Snapshot
  <2>3. Goto(c, "loadCount")
    BY <1>1 DEF SnapshotWithDB
  <2> QED
    BY <1>0, <1>1, <2>1, <2>2, <2>3 DEF NoSnapshot
<1>2. CASE at[c] = "loadCount"
  <2>1. partial' = [partial EXCEPT ![c] = [partial[c] EXCEPT !.requests = metrics.requests]]
    BY <1>0, <1>2 DEF SnapshotWithDB
  <2>2. [partial[c] EXCEPT !.requests = metrics.requests] \in Snapshot
    BY <1>0 DEF Snapshot
  <2>3. Goto(c, "loadErrors")
    BY <1>2 DEF SnapshotWithDB
  <2> QED
    BY <1>0, <1>2, <2>1, <2>2, <2>3 DEF Snapshot
<1>3. CASE at[c] = "loadErrors"
  <2>1. partial' = [partial EXCEPT ![c] = [partial[c] EXCEPT !.errors = metrics.errors]]
    BY <1>0, <1>3 DEF SnapshotWithDB
  <2>2. [partial[c] EXCEPT !.errors = metrics.errors] \in Snapshot
    BY <1>0 DEF Snapshot
  <2>3. Goto(c, "count")
    BY <1>3 DEF SnapshotWithDB
  <2> QED
    BY <1>0, <1>3, <2>1, <2>2, <2>3 DEF Snapshot
<1> QED
    BY <1>1, <1>2, <1>3 DEF SnapshotWithDB

LEMMA SnapshotWithDBInv ==
    ASSUME ApiInv, NEW c \in Conn, SnapshotWithDB(c)
    PROVE  ApiInv'
<1> USE DEF ApiInv
<1>0. /\ c \in Actor /\ c # Reconciler /\ Conn \subseteq Actor
      /\ at[c] \in {"range", "loadCount", "loadErrors"}
    BY ConnAssumption DEF Actor, SnapshotWithDB
<1>1. UNCHANGED <<server, kind, left, status, maxOpen, using, metrics, arrived,
                  answered, stranded>>
    BY DEF SnapshotWithDB, pool, totals
<1>2. partial' \in [Conn -> Snapshot] /\ \A d \in Conn : d # c => partial'[d] = partial[d]
    BY Loaded
<1>3. PICK p \in {"loadCount", "loadErrors", "count"} :
        /\ Goto(c, p)
        /\ p = "loadCount" => partial'[c].latencies = metrics.latencies
        /\ p \in {"loadErrors", "count"} => partial'[c].latencies <= partial'[c].requests
  <2>1. CASE at[c] = "range"
    BY <2>1, Loaded
  <2>2. CASE at[c] = "loadCount"
    BY <2>2, Loaded DEF Ordered
  <2>3. CASE at[c] = "loadErrors"
    BY <2>3, Loaded DEF Ordered
  <2> QED
    BY <1>0, <2>1, <2>2, <2>3
<1>4. /\ at' \in [Actor -> Place] /\ at'[c] = p /\ at'[Reconciler] = at[Reconciler]
      /\ \A a \in Actor : a # c => at'[a] = at[a]
      /\ InFlight' = InFlight /\ Holding' = Holding /\ Uncounted' = Uncounted
    BY <1>0, <1>3, Moved DEF Place
<1>5. Shape'
    BY <1>0, <1>1, <1>2, <1>4 DEF Shape
<1>6. Serving'
    BY <1>0, <1>1, <1>3, <1>4 DEF Serving
<1>7. Drained' /\ Held'
    BY <1>1, <1>4 DEF Drained, Held
<1>8. Ordered'
  <2>1. metrics.latencies <= metrics.requests
    BY Finite DEF Ordered, Shape, Snapshot
  <2>2. ASSUME NEW d \in Conn
        PROVE  /\ at'[d] = "loadCount" => partial'[d].latencies <= metrics'.requests
               /\ at'[d] = "loadErrors" \/ Snapped(d)' => partial'[d].latencies <= partial'[d].requests
    <3>1. CASE d = c
        BY <1>1, <1>3, <1>4, <2>1, <3>1 DEF Snapped
    <3>2. CASE d # c
        BY <1>0, <1>1, <1>2, <1>4, <3>2 DEF Ordered, Snapped
    <3> QED
        BY <3>1, <3>2
  <2> QED
    BY <1>1, <1>4, <2>2 DEF Ordered
<1> QED
    BY <1>1, <1>5, <1>6, <1>7, <1>8

\* Only main's own steps change where the server stands.
LEMMA MainInv ==
    ASSUME ApiInv, Signal \/ Shutdown \/ ShutdownTimeout \/ CloseDB \/ MainReturns
    PROVE  ApiInv'
<1> USE DEF ApiInv
<1>1. UNCHANGED <<at, kind, left, status, maxOpen, using, metrics, partial,
                  arrived, answered, stranded>>
    BY DEF Signal, Shutdown, ShutdownTimeout, CloseDB, MainReturns, Main, pool, counters, totals
<1>2. /\ server' \in {"up", "stopping", "draining", "closed", "stopped", "killed"}
      /\ server' \in {"draining", "closed", "stopped"} => InFlight = {}
    BY DEF Signal, Shutdown, ShutdownTimeout, CloseDB, MainReturns, Main, Drained
<1>3. InFlight' = InFlight /\ Uncounted' = Uncounted
    BY <1>1 DEF InFlight, Uncounted
<1>4. Shape' /\ Serving' /\ Drained'
    BY <1>1, <1>2, <1>3 DEF Shape, Serving, Drained
<1>5. Held' /\ Ordered'
    BY <1>1, <1>3 DEF Held, Holding, Ordered, Snapped
<1> QED
    BY <1>1, <1>4, <1>5

LEMMA ApiStepInv == ApiInv /\ [ApiNext]_apiVars => ApiInv'
<1> SUFFICES ASSUME ApiInv, [ApiNext]_apiVars PROVE ApiInv'
    OBVIOUS
<1>1. CASE \E c \in Conn, k \in Kind : Arrive(c, k)
    BY <1>1, ArriveInv
<1>2. CASE \E c \in Conn : Serve(c)
    BY <1>2, ChainInv, FlushInv, checkDBInv, IncrRequestCountInv, RecordLatencyInv,
       IncrRequestErrorsInv, SnapshotWithDBInv DEF Serve
<1>3. CASE \E a \in Actor : Acquire(a) \/ Step(a)
    BY <1>3, AcquireInv, RunInv, RefusedInv DEF Step
<1>4. CASE Signal \/ Shutdown \/ ShutdownTimeout \/ CloseDB \/ MainReturns
    BY <1>4, MainInv
<1>5. CASE UNCHANGED apiVars
  <2>1. UNCHANGED <<server, at, kind, left, status, maxOpen, using, metrics,
                    partial, arrived, answered, stranded>>
    BY <1>5 DEF apiVars, pool, counters, totals
  <2> QED
    BY <2>1 DEF ApiInv, Shape, Serving, Drained, Held, Holding, Ordered, Snapped, InFlight, Uncounted
<1> QED
    BY <1>1, <1>2, <1>3, <1>4, <1>5 DEF ApiNext

LEMMA ApiInvHolds == ApiSpec => []ApiInv
    BY ApiInitInv, ApiStepInv, PTL DEF ApiSpec

-----------------------------------------------------------------------------
(* The theorems *)

\* Every state of the server is well formed: a connection of the pool is held
\* exactly by an actor that runs a statement, whatever the probe does to the
\* limit, and the requests in flight are those accepted and not yet answered.
THEOREM ApiTyped == ApiSpec => []ApiTypeOK
<1>1. ApiInv => ApiTypeOK
    BY DEF ApiInv, ApiTypeOK, Shape, Serving, Drained, Held, Holding
<1> QED
    BY <1>1, ApiInvHolds, PTL

\* main's graceful stop loses no request: when Shutdown returns every accepted
\* request has been answered, and no handler meets the pool CloseDB has closed.
THEOREM GracefulStop == ApiSpec => []StopsClean
<1>1. ApiInv => StopsClean
  <2> SUFFICES ASSUME ApiInv PROVE StopsClean
    OBVIOUS
  <2>1. server \in {"draining", "closed", "stopped"} => Cardinality(InFlight) = 0
    BY FS_EmptySet DEF ApiInv, Drained
  <2> QED
    BY <2>1, ConnAssumption DEF ApiInv, StopsClean, Drained, Shape
<1> QED
    BY <1>1, ApiInvHolds, PTL

\* SnapshotWithDB reads the buckets before the counter that is incremented
\* first, so its answer never shows more latencies than requests.
THEOREM SnapshotsOrdered == ApiSpec => []SnapshotOrdered
<1>1. ApiInv => SnapshotOrdered
    BY DEF ApiInv, SnapshotOrdered, Ordered
<1> QED
    BY <1>1, ApiInvHolds, PTL
=============================================================================
