------------------------- MODULE RateLimiter_proofs -------------------------
(***************************************************************************)
(* The limiter's guarantees, for every limit and any number of threads     *)
(* and requests.  The argument is a potential: a bucket's tokens carried   *)
(* back to time 0 at the refill rate.  No request raises it, not even one  *)
(* whose time is stale; an admission lowers it by a token; and after every *)
(* request it is what an empty bucket would have by then, or more.         *)
(***************************************************************************)
EXTENDS RateLimiter, FiniteSetTheorems, TLAPS

Potential(bucket) == bucket.tokens - Count * bucket.last_refill

\* Places in the log of the requests admitted on key k at time a or later.
AdmittedSince(k, a) == {i \in DOMAIN log[k] : log[k][i].allowed /\ a <= log[k][i].now}

\* A key without a bucket has made no request, and no time is ahead of the clock.
HistoryOK ==
  /\ \A k \in Keys : buckets[k].last_refill = -1 => buckets[k] = NoBucket /\ log[k] = <<>>
  /\ \A k \in Keys : buckets[k].last_refill <= clock
  /\ \A k \in Keys : \A i \in DOMAIN log[k] : log[k][i].now <= clock
  /\ \A t \in Threads : request[t].now <= clock

\* The potential is never below that of a bucket that is empty now.
PotentialAbove ==
  \A k \in Keys : buckets[k].last_refill # -1 =>
    Potential(buckets[k]) >= -(Count * clock)

\* Every admission since time a has been paid for out of a full bucket at time a.
PotentialBelow ==
  \A k \in Keys, a \in Nat : AdmittedSince(k, a) # {} =>
    Potential(buckets[k]) + Period * Cardinality(AdmittedSince(k, a)) <= Capacity - Count * a

\* AdmissionBound with the window's ends left free, so that a tick disturbs nothing.
WindowBound ==
  \A k \in Keys, a, b \in Nat : a <= b =>
    Period * Cardinality(Admitted(k, a, b)) <= Capacity + Count * (b - a)

IInv ==
  TypeOK /\ HistoryOK /\ PotentialAbove /\ PotentialBelow /\ WindowBound

-----------------------------------------------------------------------------
(* Arithmetic *)

\* The capacity and the rate are natural numbers.
LEMMA CapacityNat == Capacity \in Nat /\ Count \in Nat /\ Period \in Nat /\ Period > 0
<1>1. Count \in Nat /\ Period \in Nat /\ Period > 0
  BY RateLimiterAssumption
<1>2. Count * Period \in Nat
  BY <1>1
<1>3. QED
  BY <1>1, <1>2 DEF Capacity

\* More time refills more.
LEMMA RefillMonotone ==
  ASSUME NEW a \in Int, NEW b \in Int, a <= b
  PROVE  Count * a <= Count * b /\ Count * a \in Int /\ Count * b \in Int
BY CapacityNat

\* What two stretches of time refill, the whole does.
LEMMA RefillDistributes ==
  ASSUME NEW a \in Int, NEW b \in Int
  PROVE  /\ (a - b) * Count = Count * a - Count * b
         /\ Count * a \in Int /\ Count * b \in Int
<1>1. Count \in Int
  BY CapacityNat
<1>2. Count * a \in Int /\ Count * b \in Int
  BY <1>1
<1>3. (a - b) * Count = Count * a - Count * b
  BY <1>1
<1>4. QED
  BY <1>2, <1>3

\* The refill neither overfills the bucket nor raises its potential, and where it
\* lowers the potential the bucket is full (ratelimit.py:46-48).
LEMMA RefillPotential ==
  ASSUME NEW bucket \in [tokens : Int, last_refill : Times \cup {-1}],
         NEW now \in Times
  PROVE  /\ Refilled(bucket, now) \in Int
         /\ Refilled(bucket, now) <= Capacity
         /\ bucket # NoBucket =>
              /\ Refilled(bucket, now) - Count * now <= Potential(bucket)
              /\ \/ Refilled(bucket, now) - Count * now = Potential(bucket)
                 \/ Refilled(bucket, now) = Capacity
         /\ bucket = NoBucket => Refilled(bucket, now) = Capacity
<1>1. bucket.tokens \in Int /\ bucket.last_refill \in Int /\ now \in Int
  BY RateLimiterAssumption DEF Times
<1>2. (now - bucket.last_refill) * Count = Count * now - Count * bucket.last_refill
  BY <1>1, RefillDistributes
<1>3. Count * now \in Int /\ Count * bucket.last_refill \in Int
  BY <1>1, RefillDistributes
<1>4. CASE bucket = NoBucket
  BY <1>4, CapacityNat DEF Refilled
<1>5. CASE bucket # NoBucket
  <2> DEFINE x == bucket.tokens + (now - bucket.last_refill) * Count
  <2>1. x \in Int /\ x - Count * now = Potential(bucket)
    BY <1>1, <1>2, <1>3 DEF Potential
  <2>2. Refilled(bucket, now) = Lesser(Capacity, x)
    BY <1>5 DEF Refilled
  <2> HIDE DEF x
  <2>3. QED
    BY <1>3, <1>5, <2>1, <2>2, CapacityNat DEF Lesser
<1>6. QED
  BY <1>4, <1>5

-----------------------------------------------------------------------------
(* The log *)

\* Windows of the log are finite, and all of a window is since its beginning.
LEMMA WindowsFinite ==
  ASSUME TypeOK, NEW k \in Keys, NEW a \in Int, NEW b \in Int
  PROVE  /\ IsFiniteSet(AdmittedSince(k, a)) /\ IsFiniteSet(Admitted(k, a, b))
         /\ Cardinality(AdmittedSince(k, a)) \in Nat
         /\ Cardinality(Admitted(k, a, b)) \in Nat
         /\ Cardinality(Admitted(k, a, b)) <= Cardinality(AdmittedSince(k, a))
<1>1. log[k] \in Seq([now : Times, allowed : BOOLEAN])
  BY DEF TypeOK
<1>2. DOMAIN log[k] = 1 .. Len(log[k]) /\ Len(log[k]) \in Nat
  BY <1>1
<1>3. IsFiniteSet(DOMAIN log[k])
  BY <1>2, FS_Interval
<1>4. /\ AdmittedSince(k, a) \in SUBSET (DOMAIN log[k])
      /\ Admitted(k, a, b) \in SUBSET AdmittedSince(k, a)
  BY DEF AdmittedSince, Admitted
<1>5. IsFiniteSet(AdmittedSince(k, a))
  BY <1>3, <1>4, FS_Subset
<1>6. IsFiniteSet(Admitted(k, a, b))
  BY <1>4, <1>5, FS_Subset
<1>7. QED
  BY <1>4, <1>5, <1>6, FS_Subset, FS_CardinalityType

\* Appending a request to the log adds its place to the windows that hold its time,
\* if it was admitted.
LEMMA WindowsGrow ==
  ASSUME TypeOK, NEW k \in Keys, NEW now \in Times, NEW allowed \in BOOLEAN,
         log' = [log EXCEPT ![k] = Append(@, [now |-> now, allowed |-> allowed])]
  PROVE  /\ \A a \in Int :
              /\ allowed /\ a <= now =>
                   Cardinality(AdmittedSince(k, a)') = Cardinality(AdmittedSince(k, a)) + 1
              /\ ~(allowed /\ a <= now) => AdmittedSince(k, a)' = AdmittedSince(k, a)
         /\ \A a, b \in Int :
              Cardinality(Admitted(k, a, b)') =
                IF allowed /\ a <= now /\ now <= b
                  THEN Cardinality(Admitted(k, a, b)) + 1
                  ELSE Cardinality(Admitted(k, a, b))
<1> DEFINE e == [now |-> now, allowed |-> allowed]
           n == Len(log[k]) + 1
<1>1. log[k] \in Seq([now : Times, allowed : BOOLEAN]) /\ e \in [now : Times, allowed : BOOLEAN]
  BY DEF TypeOK
<1>2. log'[k] = Append(log[k], e)
  BY DEF TypeOK
<1>3. /\ DOMAIN log[k] = 1 .. Len(log[k]) /\ Len(log[k]) \in Nat
      /\ DOMAIN log'[k] = 1 .. n
      /\ \A i \in DOMAIN log[k] : log'[k][i] = log[k][i]
      /\ log'[k][n] = e
  BY <1>1, <1>2
<1>4. n \notin DOMAIN log[k] /\ DOMAIN log'[k] = (DOMAIN log[k]) \cup {n}
  BY <1>3
<1>5. e.allowed = allowed /\ e.now = now
  OBVIOUS
<1> HIDE DEF e, n
<1>6. ASSUME NEW a \in Int
      PROVE  /\ allowed /\ a <= now =>
                  Cardinality(AdmittedSince(k, a)') = Cardinality(AdmittedSince(k, a)) + 1
             /\ ~(allowed /\ a <= now) => AdmittedSince(k, a)' = AdmittedSince(k, a)
  <2>1. n \notin AdmittedSince(k, a)
    BY <1>4 DEF AdmittedSince
  <2>2. AdmittedSince(k, a)' =
          IF allowed /\ a <= now THEN AdmittedSince(k, a) \cup {n} ELSE AdmittedSince(k, a)
    BY <1>3, <1>4, <1>5 DEF AdmittedSince
  <2>3. IsFiniteSet(AdmittedSince(k, a))
    BY WindowsFinite
  <2>4. QED
    BY <2>1, <2>2, <2>3, FS_AddElement
<1>7. ASSUME NEW a \in Int, NEW b \in Int
      PROVE  Cardinality(Admitted(k, a, b)') =
               IF allowed /\ a <= now /\ now <= b
                 THEN Cardinality(Admitted(k, a, b)) + 1
                 ELSE Cardinality(Admitted(k, a, b))
  <2>1. n \notin Admitted(k, a, b)
    BY <1>4 DEF Admitted
  <2>2. Admitted(k, a, b)' =
          IF allowed /\ a <= now /\ now <= b
            THEN Admitted(k, a, b) \cup {n} ELSE Admitted(k, a, b)
    BY <1>3, <1>4, <1>5 DEF Admitted
  <2>3. IsFiniteSet(Admitted(k, a, b))
    BY WindowsFinite
  <2>4. QED
    BY <2>1, <2>2, <2>3, FS_AddElement
<1>8. QED
  BY <1>6, <1>7

-----------------------------------------------------------------------------
(* Each action keeps the invariant *)

\* Nothing was asked yet.
LEMMA InitEstablishes ==
  ASSUME Init
  PROVE  IInv
<1>1. TypeOK
  <2>1. NoBucket \in [tokens : Int, last_refill : Times \cup {-1}]
    BY CapacityNat DEF NoBucket
  <2>2. \A k \in Keys : log[k] \in Seq([now : Times, allowed : BOOLEAN])
    BY DEF Init
  <2>3. QED
    BY <2>1, <2>2, RateLimiterAssumption DEF Init, TypeOK, Times
<1>2. /\ \A k \in Keys : buckets[k] = NoBucket /\ log[k] = <<>>
      /\ \A t \in Threads : request[t] = NoRequest
      /\ clock = 0
  BY DEF Init
<1>3. \A k \in Keys : DOMAIN log[k] = {}
  BY <1>2
<1>4. \A k \in Keys, a, b \in Nat : AdmittedSince(k, a) = {} /\ Admitted(k, a, b) = {}
  BY <1>3 DEF AdmittedSince, Admitted
<1>5. HistoryOK /\ PotentialAbove /\ PotentialBelow
  <2>1. NoBucket.last_refill = -1 /\ NoRequest.now = -1
    BY DEF NoBucket, NoRequest
  <2>2. HistoryOK
    BY <1>2, <1>3, <2>1 DEF HistoryOK
  <2>3. PotentialAbove
    BY <1>2, <2>1 DEF PotentialAbove
  <2>4. PotentialBelow
    BY <1>4 DEF PotentialBelow
  <2>5. QED
    BY <2>2, <2>3, <2>4
<1>6. WindowBound
  <2>1. ASSUME NEW k \in Keys, NEW a \in Nat, NEW b \in Nat, a <= b
        PROVE  Period * Cardinality(Admitted(k, a, b)) <= Capacity + Count * (b - a)
    <3>1. Cardinality(Admitted(k, a, b)) = 0
      BY <1>4, FS_EmptySet
    <3>2. b - a \in Nat
      BY <2>1
    <3>3. Count * (b - a) \in Nat
      BY <3>2, CapacityNat
    <3>4. Period * 0 = 0
      BY CapacityNat
    <3>5. QED
      BY <3>1, <3>3, <3>4, CapacityNat
  <2>2. QED
    BY <2>1 DEF WindowBound
<1>7. QED
  BY <1>1, <1>5, <1>6 DEF IInv

\* The clock only moves on: an empty bucket would have more by then.
LEMMA TickKeeps ==
  ASSUME IInv, Tick
  PROVE  IInv'
<1>1. clock \in Int /\ clock' = clock + 1 /\ UNCHANGED <<buckets, request, log>>
  BY RateLimiterAssumption DEF Tick, IInv, TypeOK, Times
<1>2. TypeOK'
  <2>1. clock' \in Times
    BY <1>1, RateLimiterAssumption DEF Tick, IInv, TypeOK, Times
  <2>2. QED
    BY <1>1, <2>1 DEF IInv, TypeOK
<1>3. HistoryOK'
  <2>1. \A k \in Keys : buckets[k].last_refill \in Int
    BY RateLimiterAssumption DEF IInv, TypeOK, Times
  <2>2. ASSUME NEW t \in Threads
        PROVE  request[t].now \in Int
    <3>1. CASE request[t] = NoRequest
      <4>1. NoRequest.now = -1
        BY DEF NoRequest
      <4>2. QED
        BY <3>1, <4>1
    <3>2. CASE request[t] \in [key : Keys, now : Times]
      <4>1. request[t].now \in Times
        BY <3>2
      <4>2. QED
        BY <4>1, RateLimiterAssumption DEF Times
    <3>3. QED
      BY <3>1, <3>2 DEF IInv, TypeOK
  <2>3. ASSUME NEW k \in Keys, NEW i \in DOMAIN log[k]
        PROVE  log[k][i].now \in Int
    <3> DEFINE Entry == [now : Times, allowed : BOOLEAN]
    <3>1. log[k] \in Seq(Entry)
      BY DEF IInv, TypeOK
    <3> HIDE DEF Entry
    <3>2. log[k][i] \in Entry
      BY <3>1
    <3>3. log[k][i].now \in Times
      BY <3>2 DEF Entry
    <3>4. QED
      BY <3>3, RateLimiterAssumption DEF Times
  <2>4. QED
    BY <1>1, <2>1, <2>2, <2>3 DEF IInv, HistoryOK
<1>4. PotentialAbove'
  <2>1. ASSUME NEW k \in Keys, buckets[k].last_refill # -1
        PROVE  Potential(buckets[k]) >= -(Count * clock')
    <3>1. Potential(buckets[k]) >= -(Count * clock)
      BY <2>1 DEF IInv, PotentialAbove
    <3>2. Count * clock <= Count * clock' /\ Count * clock \in Int /\ Count * clock' \in Int
      BY <1>1, RefillMonotone
    <3>3. Potential(buckets[k]) \in Int
      <4>1. buckets[k].tokens \in Int /\ buckets[k].last_refill \in Int
        BY RateLimiterAssumption DEF IInv, TypeOK, Times
      <4>2. QED
        BY <4>1, CapacityNat DEF Potential
    <3>4. QED
      BY <3>1, <3>2, <3>3
  <2>2. QED
    BY <1>1, <2>1 DEF PotentialAbove, Potential
<1>5. PotentialBelow' /\ WindowBound'
  BY <1>1 DEF IInv, PotentialBelow, WindowBound, AdmittedSince, Admitted, Potential
<1>6. QED
  BY <1>2, <1>3, <1>4, <1>5 DEF IInv

\* A thread reads the clock: the buckets do not change.
LEMMA ArriveKeeps ==
  ASSUME IInv, NEW t \in Threads, NEW k \in Keys, Arrive(t, k)
  PROVE  IInv'
<1>1. /\ request' = [request EXCEPT ![t] = [key |-> k, now |-> clock]]
      /\ UNCHANGED <<clock, buckets, log>>
  BY DEF Arrive
<1>2. TypeOK'
  BY <1>1 DEF IInv, TypeOK
<1>3. HistoryOK'
  <2>1. \A u \in Threads : request'[u] = request[u] \/ request'[u].now = clock
    BY <1>1 DEF IInv, TypeOK
  <2>2. clock <= clock
    BY RateLimiterAssumption DEF IInv, TypeOK, Times
  <2>3. QED
    BY <1>1, <2>1, <2>2 DEF IInv, HistoryOK
<1>4. PotentialAbove' /\ PotentialBelow' /\ WindowBound'
  BY <1>1 DEF IInv, PotentialAbove, PotentialBelow, WindowBound, AdmittedSince, Admitted,
              Potential
<1>5. QED
  BY <1>2, <1>3, <1>4 DEF IInv

\* What the critical section of allow() does to the potential of its bucket.
LEMMA AllowPotential ==
  ASSUME IInv, NEW t \in Threads, Allow(t)
  PROVE  LET k == request[t].key
             now == request[t].now
             tokens == Refilled(buckets[k], now)
             allowed == tokens >= Cost
         IN
         /\ k \in Keys /\ now \in Times /\ now <= clock
         /\ tokens \in Int /\ tokens <= Capacity
         /\ log' = [log EXCEPT ![k] = Append(@, [now |-> now, allowed |-> allowed])]
         /\ buckets'[k] \in [tokens : Int, last_refill : Times]
         /\ buckets'[k].tokens = IF allowed THEN tokens - Cost ELSE tokens
         /\ buckets'[k].last_refill = now
         /\ \A j \in Keys \ {k} : buckets'[j] = buckets[j]
         /\ TypeOK'
<1> DEFINE k == request[t].key
           now == request[t].now
           tokens == Refilled(buckets[k], now)
           allowed == tokens >= Cost
           after == [tokens |-> IF allowed THEN tokens - Cost ELSE tokens, last_refill |-> now]
<1>1. /\ request[t] # NoRequest
      /\ buckets' = [buckets EXCEPT ![k] = after]
      /\ log' = [log EXCEPT ![k] = Append(@, [now |-> now, allowed |-> allowed])]
      /\ request' = [request EXCEPT ![t] = NoRequest]
      /\ UNCHANGED clock
  BY DEF Allow
<1>2. request[t] \in [key : Keys, now : Times]
  BY <1>1 DEF IInv, TypeOK
<1>3. k \in Keys /\ now \in Times /\ now <= clock
  BY <1>2 DEF IInv, HistoryOK
<1>4. buckets[k] \in [tokens : Int, last_refill : Times \cup {-1}]
  BY <1>3 DEF IInv, TypeOK
<1>5. tokens \in Int /\ tokens <= Capacity
  BY <1>3, <1>4, RefillPotential
<1>6. after \in [tokens : Int, last_refill : Times] /\ allowed \in BOOLEAN
  BY <1>3, <1>5, CapacityNat DEF Cost
<1>7. /\ after.tokens = IF allowed THEN tokens - Cost ELSE tokens
      /\ after.last_refill = now
  OBVIOUS
<1>8. after \in [tokens : Int, last_refill : Times \cup {-1}]
  BY <1>6
<1> HIDE DEF after
<1>9. buckets'[k] = after /\ \A j \in Keys \ {k} : buckets'[j] = buckets[j]
  BY <1>1, <1>3 DEF IInv, TypeOK
<1>10. TypeOK'
  <2>1. buckets' \in [Keys -> [tokens : Int, last_refill : Times \cup {-1}]]
    BY <1>1, <1>3, <1>8 DEF IInv, TypeOK
  <2>2. request' \in [Threads -> [key : Keys, now : Times] \cup {NoRequest}]
    BY <1>1 DEF IInv, TypeOK
  <2>3. log' \in [Keys -> Seq([now : Times, allowed : BOOLEAN])]
    <3>1. log[k] \in Seq([now : Times, allowed : BOOLEAN])
      BY <1>3 DEF IInv, TypeOK
    <3>2. [now |-> now, allowed |-> allowed] \in [now : Times, allowed : BOOLEAN]
      BY <1>3, <1>6
    <3> HIDE DEF now, allowed
    <3>3. Append(log[k], [now |-> now, allowed |-> allowed])
            \in Seq([now : Times, allowed : BOOLEAN])
      BY <3>1, <3>2
    <3>4. QED
      BY <1>1, <1>3, <3>3 DEF IInv, TypeOK
  <2>4. QED
    BY <1>1, <2>1, <2>2, <2>3 DEF IInv, TypeOK
<1>11. QED
  BY <1>1, <1>3, <1>5, <1>6, <1>7, <1>9, <1>10

\* A request leaves its own bucket with no more potential than before, a token less if
\* it was admitted, and with no less than an empty bucket would have.
LEMMA AllowKeeps ==
  ASSUME IInv, NEW t \in Threads, Allow(t)
  PROVE  IInv'
<1> PICK k \in Keys, now \in Times, tokens \in Int :
       /\ tokens = Refilled(buckets[k], now)
       /\ now <= clock /\ tokens <= Capacity
       /\ log' = [log EXCEPT ![k] = Append(@, [now |-> now, allowed |-> tokens >= Cost])]
       /\ buckets'[k].tokens = IF tokens >= Cost THEN tokens - Cost ELSE tokens
       /\ buckets'[k].last_refill = now
       /\ \A j \in Keys \ {k} : buckets'[j] = buckets[j]
       /\ TypeOK'
  BY AllowPotential
<1> DEFINE allowed == tokens >= Cost
           paid == tokens - Count * now
           phi == Potential(buckets[k])
<1>0. TypeOK
  BY DEF IInv
<1>1. /\ k \in Keys /\ now \in Times /\ now <= clock
      /\ tokens \in Int /\ tokens <= Capacity
      /\ log' = [log EXCEPT ![k] = Append(@, [now |-> now, allowed |-> allowed])]
      /\ buckets'[k].tokens = IF allowed THEN tokens - Cost ELSE tokens
      /\ buckets'[k].last_refill = now
      /\ \A j \in Keys \ {k} : buckets'[j] = buckets[j]
      /\ TypeOK'
  OBVIOUS
<1>2. /\ allowed \in BOOLEAN /\ UNCHANGED clock
      /\ request' = [request EXCEPT ![t] = NoRequest]
  BY DEF Allow
<1>3. clock \in Nat /\ now \in Nat /\ clock \in Int /\ now \in Int
  BY <1>1, RateLimiterAssumption DEF IInv, TypeOK, Times
<1>4. /\ Count * now \in Int /\ Count * clock \in Int /\ Count * now <= Count * clock
      /\ Cost = Period /\ Period \in Nat /\ Period > 0 /\ Capacity \in Nat
  BY <1>1, <1>3, RefillMonotone, CapacityNat DEF Cost
<1>5. buckets[k] \in [tokens : Int, last_refill : Times \cup {-1}] /\ phi \in Int
  <2>1. buckets[k] \in [tokens : Int, last_refill : Times \cup {-1}]
    BY <1>1 DEF IInv, TypeOK
  <2>2. buckets[k].tokens \in Int /\ buckets[k].last_refill \in Int
    BY <2>1, RateLimiterAssumption DEF Times
  <2>3. QED
    BY <2>1, <2>2, CapacityNat DEF Potential
<1>6. Potential(buckets'[k]) = IF allowed THEN paid - Period ELSE paid
  BY <1>1, <1>4 DEF Potential
<1>7. paid \in Int /\ paid <= Capacity - Count * now
  BY <1>1, <1>4
<1>8. buckets[k] # NoBucket =>
        paid <= phi /\ (paid = phi \/ tokens = Capacity)
  BY <1>1, <1>5, RefillPotential
<1>9. buckets[k] = NoBucket => tokens = Capacity /\ log[k] = <<>>
  <2>1. buckets[k] = NoBucket => buckets[k].last_refill = -1
    BY DEF NoBucket
  <2>2. buckets[k] = NoBucket => log[k] = <<>>
    BY <1>1, <2>1 DEF IInv, HistoryOK
  <2>3. buckets[k] = NoBucket => tokens = Capacity
    BY <1>1, <1>5, RefillPotential
  <2>4. QED
    BY <2>2, <2>3
<1>10. buckets[k] # NoBucket => buckets[k].last_refill # -1
  BY <1>1 DEF IInv, HistoryOK
<1>11. \A a \in Nat : AdmittedSince(k, a) # {} =>
         paid + Period * Cardinality(AdmittedSince(k, a)) <= Capacity - Count * a
  <2>1. SUFFICES ASSUME NEW a \in Nat, AdmittedSince(k, a) # {}
                 PROVE  paid + Period * Cardinality(AdmittedSince(k, a))
                          <= Capacity - Count * a
    OBVIOUS
  <2>2. log[k] # <<>>
    BY <2>1 DEF AdmittedSince
  <2>3. phi + Period * Cardinality(AdmittedSince(k, a)) <= Capacity - Count * a
    BY <1>1, <2>1 DEF IInv, PotentialBelow
  <2>4. Period * Cardinality(AdmittedSince(k, a)) \in Int /\ Count * a \in Int
    <3> HIDE DEF paid, phi
    <3>1. a \in Int
      OBVIOUS
    <3>2. Cardinality(AdmittedSince(k, a)) \in Nat
      BY <1>0, <1>1, <3>1, WindowsFinite
    <3>3. QED
      BY <3>1, <3>2, CapacityNat
  <2>5. paid <= phi
    BY <1>8, <1>9, <2>2
  <2> HIDE DEF paid, phi
  <2>6. QED
    BY <1>4, <1>5, <1>7, <2>3, <2>4, <2>5
<1>12. HistoryOK'
  <2>1. \A u \in Threads : request'[u].now <= clock
    <3>1. NoRequest.now = -1
      BY DEF NoRequest
    <3>2. QED
      BY <1>2, <1>3, <3>1 DEF IInv, TypeOK, HistoryOK
  <2>2. \A j \in Keys : \A i \in DOMAIN log'[j] : log'[j][i].now <= clock
    <3> DEFINE e == [now |-> now, allowed |-> allowed]
               Entry == [now : Times, allowed : BOOLEAN]
    <3>1. log'[k] = Append(log[k], e) /\ \A j \in Keys \ {k} : log'[j] = log[j]
      BY <1>1 DEF IInv, TypeOK
    <3>2. e.now = now /\ e \in Entry
      BY <1>1, <1>2
    <3>3. log[k] \in Seq(Entry)
      BY <1>1 DEF IInv, TypeOK
    <3> HIDE DEF e, Entry
    <3>4. \A i \in DOMAIN log'[k] : \/ i \in DOMAIN log[k] /\ log'[k][i] = log[k][i]
                                   \/ log'[k][i] = e
      BY <3>1, <3>2, <3>3
    <3>5. QED
      BY <1>1, <3>1, <3>2, <3>4 DEF IInv, HistoryOK
  <2>3. \A j \in Keys : buckets'[j].last_refill = -1 =>
          buckets'[j] = NoBucket /\ log'[j] = <<>>
    <3>1. \A j \in Keys \ {k} : log'[j] = log[j]
      BY <1>1 DEF IInv, TypeOK
    <3>2. buckets'[k].last_refill # -1
      BY <1>1, <1>3
    <3>3. QED
      BY <1>1, <3>1, <3>2 DEF IInv, HistoryOK
  <2>4. \A j \in Keys : buckets'[j].last_refill <= clock
    BY <1>1 DEF IInv, HistoryOK
  <2>5. QED
    BY <1>2, <2>1, <2>2, <2>3, <2>4 DEF HistoryOK
<1>13. Potential(buckets'[k]) >= -(Count * clock)
  <2>1. CASE allowed
    <3>1. tokens - Period >= 0
      BY <1>1, <1>4, <2>1
    <3>2. QED
      BY <1>1, <1>4, <1>6, <2>1, <3>1
  <2>2. CASE ~allowed
    <3>1. CASE tokens = Capacity
      BY <1>4, <1>6, <2>2, <3>1
    <3>2. CASE tokens # Capacity
      <4>1. buckets[k] # NoBucket /\ paid = phi
        BY <1>8, <1>9, <3>2
      <4>2. phi >= -(Count * clock)
        BY <1>1, <1>10, <4>1 DEF IInv, PotentialAbove
      <4> HIDE DEF paid, phi
      <4>3. QED
        BY <1>6, <2>2, <4>1, <4>2
    <3>3. QED
      BY <3>1, <3>2
  <2>3. QED
    BY <2>1, <2>2
<1>14. PotentialAbove'
  BY <1>1, <1>2, <1>13 DEF IInv, PotentialAbove, Potential
<1>15. \A j \in Keys \ {k}, a, b \in Nat :
         AdmittedSince(j, a)' = AdmittedSince(j, a) /\ Admitted(j, a, b)' = Admitted(j, a, b)
  BY <1>1 DEF IInv, TypeOK, AdmittedSince, Admitted
<1>16. ASSUME NEW a \in Nat, AdmittedSince(k, a)' # {}
       PROVE  Potential(buckets'[k]) + Period * Cardinality(AdmittedSince(k, a)')
                <= Capacity - Count * a
  <2> DEFINE n == Cardinality(AdmittedSince(k, a))
  <2>1. n \in Nat /\ Count * a \in Int /\ a \in Int
    <3>1. a \in Int
      OBVIOUS
    <3>2. Cardinality(AdmittedSince(k, a)) \in Nat
      BY <1>0, <3>1, WindowsFinite
    <3>3. QED
      BY <3>1, <3>2, CapacityNat
  <2>2. /\ allowed /\ a <= now => Cardinality(AdmittedSince(k, a)') = n + 1
        /\ ~(allowed /\ a <= now) => AdmittedSince(k, a)' = AdmittedSince(k, a)
    <3> HIDE DEF allowed
    <3>1. QED
      BY <1>0, <1>1, <1>2, <2>1, WindowsGrow
  <2>3. AdmittedSince(k, a) # {} => paid + Period * n <= Capacity - Count * a
    BY <1>11
  <2>4. AdmittedSince(k, a) = {} => n = 0
    BY FS_EmptySet
  <2>5. Period * (n + 1) = Period * n + Period /\ Period * n \in Int /\ Period * 0 = 0
    BY <1>4, <2>1
  <2>6. CASE allowed /\ a <= now
    <3>1. Count * a <= Count * now
      BY <1>3, <2>1, <2>6, RefillMonotone
    <3>2. paid + Period * n <= Capacity - Count * a
      <4>1. CASE AdmittedSince(k, a) = {}
        <5>1. Period * n = 0
          BY <2>4, <2>5, <4>1
        <5> HIDE DEF paid
        <5>2. QED
          BY <1>4, <1>7, <2>1, <3>1, <5>1
      <4>2. QED
        BY <2>3, <4>1
    <3>3. Cardinality(AdmittedSince(k, a)') = n + 1
      BY <2>2, <2>6
    <3> HIDE DEF paid, n
    <3>4. QED
      BY <1>4, <1>6, <1>7, <2>1, <2>5, <2>6, <3>2, <3>3
  <2>7. CASE ~(allowed /\ a <= now)
    <3>1. AdmittedSince(k, a)' = AdmittedSince(k, a)
      BY <2>2, <2>7
    <3>2. paid + Period * n <= Capacity - Count * a
      BY <1>16, <2>3, <3>1
    <3> HIDE DEF paid
    <3>3. Potential(buckets'[k]) <= paid /\ Potential(buckets'[k]) \in Int
      BY <1>4, <1>6, <1>7
    <3>4. Cardinality(AdmittedSince(k, a)') = n
      BY <3>1
    <3> HIDE DEF n
    <3>5. QED
      BY <1>4, <1>7, <2>1, <2>5, <3>2, <3>3, <3>4
  <2>8. QED
    BY <2>6, <2>7
<1>17. PotentialBelow'
  <2>1. ASSUME NEW j \in Keys, NEW a \in Nat, AdmittedSince(j, a)' # {}
        PROVE  Potential(buckets'[j]) + Period * Cardinality(AdmittedSince(j, a)')
                 <= Capacity - Count * a
    <3>1. CASE j = k
      BY <1>16, <2>1, <3>1
    <3>2. CASE j # k
      <4>1. buckets'[j] = buckets[j] /\ AdmittedSince(j, a)' = AdmittedSince(j, a)
        BY <1>1, <1>15, <3>2
      <4>2. Potential(buckets[j]) + Period * Cardinality(AdmittedSince(j, a))
              <= Capacity - Count * a
        BY <2>1, <4>1 DEF IInv, PotentialBelow
      <4>3. QED
        BY <4>1, <4>2
    <3>3. QED
      BY <3>1, <3>2
  <2>2. QED
    BY <2>1 DEF PotentialBelow, Potential
<1>18. \A a, b \in Int :
         Cardinality(Admitted(k, a, b)') =
           IF allowed /\ a <= now /\ now <= b
             THEN Cardinality(Admitted(k, a, b)) + 1
             ELSE Cardinality(Admitted(k, a, b))
  <2> HIDE DEF allowed
  <2>1. QED
    BY <1>0, <1>1, <1>2, WindowsGrow
<1>19. ASSUME NEW a \in Nat, NEW b \in Nat, a <= b
       PROVE  Period * Cardinality(Admitted(k, a, b)') <= Capacity + Count * (b - a)
  <2> DEFINE m == Cardinality(Admitted(k, a, b))
             n == Cardinality(AdmittedSince(k, a))
  <2>1. m \in Nat /\ n \in Nat /\ m <= n /\ a \in Int /\ b \in Int
    BY <1>1, WindowsFinite DEF IInv
  <2>2. Period * m <= Capacity + Count * (b - a)
    BY <1>1, <1>19 DEF IInv, WindowBound
  <2>3. CASE ~(allowed /\ a <= now /\ now <= b)
    <3>1. Cardinality(Admitted(k, a, b)') = m
      BY <1>18, <2>1, <2>3
    <3>2. QED
      BY <2>2, <3>1
  <2>4. CASE allowed /\ a <= now /\ now <= b
    <3>1. Cardinality(Admitted(k, a, b)') = m + 1
      BY <1>18, <2>1, <2>4
    <3>2. Count * (b - a) = Count * b - Count * a /\ Count * a \in Int /\ Count * b \in Int
      <4>1. Count * (b - a) = (b - a) * Count
        BY <2>1, CapacityNat
      <4>2. QED
        BY <2>1, <4>1, RefillDistributes
    <3>3. Count * a <= Count * now /\ Count * now <= Count * b
      BY <1>3, <2>1, <2>4, RefillMonotone
    <3>4. Period * (m + 1) = Period * m + Period /\ Period * m \in Int /\ Period * n \in Int
      BY <1>4, <2>1
    <3>5. Period * m <= Period * n
      BY <1>4, <2>1
    <3>6. paid >= Period - Count * now
      BY <1>1, <1>4, <2>4
    <3>7. CASE AdmittedSince(k, a) = {}
      <4>1. m = 0
        BY <2>1, <3>7, FS_EmptySet
      <4>2. Period * m = 0
        BY <1>4, <4>1
      <4>3. Period <= Capacity
        BY <1>1, <1>4, <2>4
      <4> HIDE DEF m, n
      <4>4. QED
        BY <1>4, <3>1, <3>2, <3>3, <3>4, <4>2, <4>3
    <3>8. CASE AdmittedSince(k, a) # {}
      <4>1. paid + Period * n <= Capacity - Count * a
        BY <1>11, <3>8
      <4> DEFINE pm == Period * m
                 pn == Period * n
                 ca == Count * a
                 cb == Count * b
                 cn == Count * now
      <4>2. /\ pm \in Int /\ pn \in Int /\ ca \in Int /\ cb \in Int /\ cn \in Int
            /\ Period \in Int /\ Capacity \in Int /\ paid \in Int
        BY <1>3, <1>4, <1>7, <2>1, <3>2, <3>4, CapacityNat, RefillMonotone
      <4>3. paid + pn <= Capacity - ca /\ pm <= pn /\ paid >= Period - cn /\ cn <= cb
        BY <3>3, <3>5, <3>6, <4>1
      <4>4. pm + Period <= Capacity + (cb - ca)
        <5> HIDE DEF paid, pm, pn, ca, cb, cn
        <5> QED
          BY <4>2, <4>3
      <4>5. Period * Cardinality(Admitted(k, a, b)') = pm + Period
        BY <3>1, <3>4
      <4> QED
        BY <3>2, <4>4, <4>5
    <3>9. QED
      BY <3>7, <3>8
  <2>5. QED
    BY <2>3, <2>4
<1>20. WindowBound'
  <2>1. ASSUME NEW j \in Keys, NEW a \in Nat, NEW b \in Nat, a <= b
        PROVE  Period * Cardinality(Admitted(j, a, b)') <= Capacity + Count * (b - a)
    <3>1. CASE j = k
      BY <1>19, <2>1, <3>1
    <3>2. CASE j # k
      <4>1. Admitted(j, a, b)' = Admitted(j, a, b)
        BY <1>15, <3>2
      <4>2. QED
        BY <2>1, <4>1 DEF IInv, WindowBound
    <3>3. QED
      BY <3>1, <3>2
  <2>2. QED
    BY <2>1 DEF WindowBound
<1>21. QED
  BY <1>1, <1>12, <1>14, <1>17, <1>20 DEF IInv

\* Every step keeps the invariant.
LEMMA NextKeeps ==
  ASSUME IInv, [Next]_vars
  PROVE  IInv'
<1>1. CASE Next
  BY <1>1, TickKeeps, ArriveKeeps, AllowKeeps DEF Next
<1>2. CASE UNCHANGED vars
  BY <1>2 DEF vars, IInv, TypeOK, HistoryOK, PotentialAbove, PotentialBelow, WindowBound,
              AdmittedSince, Admitted, Potential
<1>3. QED
  BY <1>1, <1>2

\* The invariant holds in every reachable state.
THEOREM Invariance == Spec => []IInv
<1>1. Init => IInv
  BY InitEstablishes
<1>2. IInv /\ [Next]_vars => IInv'
  BY NextKeeps
<1>3. QED
  BY <1>1, <1>2, PTL DEF Spec

-----------------------------------------------------------------------------
(* The limiter's guarantees *)

\* Over any stretch of time a key is admitted its burst and the steady rate at most,
\* in whatever order threads reach the lock (ratelimit.py:3-4).
THEOREM AdmissionsBounded == Spec => []AdmissionBound
<1>1. ASSUME IInv
      PROVE  AdmissionBound
  <2>1. 0 .. clock \subseteq Nat
    OBVIOUS
  <2>2. QED
    BY <1>1, <2>1 DEF IInv, WindowBound, AdmissionBound
<1>2. QED
  BY <1>1, Invariance, PTL

\* At every limit the time one token takes to refill is wait enough, whatever stale
\* times have done to the bucket (ratelimit.py:46-52, 64-69).
THEOREM TokenTimeIsEnough == Spec => []RetryAfterTokenTime
<1>1. ASSUME IInv, NEW n \in 1 .. Period, n * Count >= Period, NEW k \in Keys
      PROVE  Refilled(buckets[k], clock + n) >= Cost
  <2>1. /\ buckets[k].tokens \in Int /\ buckets[k].last_refill \in Int /\ clock \in Int
        /\ buckets[k].last_refill = -1 => buckets[k] = NoBucket
    BY <1>1, RateLimiterAssumption DEF IInv, TypeOK, HistoryOK, Times
  <2>2. /\ Capacity >= Cost /\ Capacity \in Int /\ Cost = Period /\ Period \in Int
        /\ Count \in Int /\ n * Count \in Int /\ n \in Int
    <3>1. Count >= 1 /\ Count \in Nat /\ Period \in Nat /\ n \in Nat
      <4>1. Count # 0
        BY <1>1, CapacityNat
      <4>2. QED
        BY <1>1, <4>1, CapacityNat
    <3>2. Count * Period >= Period /\ n * Count \in Nat
      BY <3>1
    <3>3. QED
      BY <3>1, <3>2, CapacityNat DEF Capacity, Cost
  <2>3. CASE buckets[k] = NoBucket
    BY <2>2, <2>3 DEF Refilled
  <2>4. CASE buckets[k] # NoBucket
    <3> DEFINE x == buckets[k].tokens + ((clock + n) - buckets[k].last_refill) * Count
    <3>1. Potential(buckets[k]) >= -(Count * clock)
      BY <1>1, <2>1, <2>4 DEF IInv, PotentialAbove
    <3>2. /\ ((clock + n) - buckets[k].last_refill) * Count
               = Count * clock + n * Count - Count * buckets[k].last_refill
          /\ Count * clock \in Int /\ Count * buckets[k].last_refill \in Int
      <4>1. Count * (clock + n) = Count * clock + n * Count
        BY <2>1, <2>2
      <4> QED
        BY <2>1, <2>2, <4>1, RefillDistributes
    <3>3. x \in Int /\ x >= n * Count
      BY <2>1, <2>2, <3>1, <3>2 DEF Potential
    <3>4. Refilled(buckets[k], clock + n) = Lesser(Capacity, x)
      BY <2>4 DEF Refilled
    <3> HIDE DEF x
    <3>5. QED
      BY <1>1, <2>2, <3>3, <3>4 DEF Lesser
  <2>5. QED
    BY <2>3, <2>4
<1>2. IInv => RetryAfterTokenTime
  BY <1>1 DEF RetryAfterTokenTime
<1>3. QED
  BY <1>2, Invariance, PTL

\* Every variable keeps its type, however far stale times take the tokens down
\* (ratelimit.py:46-52).
THEOREM TypeCorrect == Spec => []TypeOK
<1>1. IInv => TypeOK
  BY DEF IInv
<1>2. QED
  BY <1>1, Invariance, PTL

-----------------------------------------------------------------------------
(* Why a request is denied *)

Entry == [now : Times, allowed : BOOLEAN]

\* Grants, and the conclusion of DenialsAreEarned, over a log that is a value.
GrantsOf(entries, i, j) == {n \in i .. j : entries[n].allowed}

EarnedAt(entries, i) ==
  \E j \in 1 .. i :
    Period * Cardinality(GrantsOf(entries, j, i - 1)) + Cost
      > Capacity + Count * (entries[i].now - entries[j].now)

\* The potential p is that of a bucket that was full at some request and has paid
\* for the admissions since: at that request the refill reached the capacity.
Origin(entries, p) ==
  \E j \in 1 .. Len(entries) :
    p = Capacity - Count * entries[j].now
          - Period * Cardinality(GrantsOf(entries, j, Len(entries)))

DenialInv ==
  \A k \in Keys :
    /\ buckets[k].last_refill # -1 => Origin(log[k], Potential(buckets[k]))
    /\ \A i \in DOMAIN log[k] : ~log[k][i].allowed => EarnedAt(log[k], i)

\* What a request adds to the admissions since an earlier one.
LEMMA GrantsGrow ==
  ASSUME NEW entries \in Seq(Entry), NEW e \in Entry
  PROVE  LET n == Len(entries)
             longer == Append(entries, e)
         IN
         /\ \A i \in 1 .. n, j \in Int :
              j <= n => GrantsOf(longer, i, j) = GrantsOf(entries, i, j)
         /\ \A i \in 1 .. n :
              /\ Cardinality(GrantsOf(entries, i, n)) \in Nat
              /\ Cardinality(GrantsOf(longer, i, n + 1)) =
                   IF e.allowed THEN Cardinality(GrantsOf(entries, i, n)) + 1
                                ELSE Cardinality(GrantsOf(entries, i, n))
         /\ GrantsOf(longer, n + 1, n) = {}
         /\ Cardinality(GrantsOf(longer, n + 1, n + 1)) = IF e.allowed THEN 1 ELSE 0
<1> DEFINE n == Len(entries)
           longer == Append(entries, e)
<1>1. n \in Nat /\ longer[n + 1] = e /\ \A i \in 1 .. n : longer[i] = entries[i]
  OBVIOUS
<1> HIDE DEF n, longer
<1>2. \A i \in 1 .. n, j \in Int : j <= n => GrantsOf(longer, i, j) = GrantsOf(entries, i, j)
  BY <1>1 DEF GrantsOf
<1>3. ASSUME NEW i \in 1 .. n
      PROVE  /\ Cardinality(GrantsOf(entries, i, n)) \in Nat
             /\ Cardinality(GrantsOf(longer, i, n + 1)) =
                  IF e.allowed THEN Cardinality(GrantsOf(entries, i, n)) + 1
                               ELSE Cardinality(GrantsOf(entries, i, n))
  <2> DEFINE before == GrantsOf(entries, i, n)
  <2>1. IsFiniteSet(before)
    <3>1. IsFiniteSet(i .. n)
      BY <1>1, FS_Interval
    <3>2. before \in SUBSET (i .. n)
      BY DEF GrantsOf
    <3>3. QED
      BY <3>1, <3>2, FS_Subset
  <2>2. n + 1 \notin before
    BY <1>1 DEF GrantsOf
  <2>3. e.allowed => GrantsOf(longer, i, n + 1) = before \cup {n + 1}
    BY <1>1, <1>3 DEF GrantsOf
  <2>4. ~e.allowed => GrantsOf(longer, i, n + 1) = before
    BY <1>1, <1>3 DEF GrantsOf
  <2> HIDE DEF before
  <2>5. Cardinality(before) \in Nat /\ Cardinality(before \cup {n + 1}) = Cardinality(before) + 1
    BY <2>1, <2>2, FS_CardinalityType, FS_AddElement
  <2>6. QED
    BY <2>3, <2>4, <2>5 DEF before
<1>4. GrantsOf(longer, n + 1, n) = {}
  BY <1>1 DEF GrantsOf
<1>5. Cardinality(GrantsOf(longer, n + 1, n + 1)) = IF e.allowed THEN 1 ELSE 0
  <2>1. GrantsOf(longer, n + 1, n + 1) = IF e.allowed THEN {n + 1} ELSE {}
    BY <1>1 DEF GrantsOf
  <2>2. QED
    BY <2>1, FS_EmptySet, FS_Singleton
<1>6. QED
  BY <1>2, <1>3, <1>4, <1>5 DEF n, longer

\* A longer log says of its earlier denials what it said before.
LEMMA EarnedStays ==
  ASSUME NEW entries \in Seq(Entry), NEW e \in Entry,
         NEW i \in 1 .. Len(entries), EarnedAt(entries, i)
  PROVE  EarnedAt(Append(entries, e), i)
<1> DEFINE longer == Append(entries, e)
<1>1. \A j \in 1 .. i : longer[j] = entries[j]
  OBVIOUS
<1>2. \A j \in 1 .. i : GrantsOf(longer, j, i - 1) = GrantsOf(entries, j, i - 1)
  <2>1. i \in Nat /\ i - 1 \in Int /\ i - 1 <= Len(entries) /\ Len(entries) \in Nat
    OBVIOUS
  <2>2. \A j \in 1 .. i : j \in 1 .. Len(entries)
    BY <2>1
  <2>3. QED
    BY <2>1, <2>2, GrantsGrow
<1>3. i \in 1 .. i
  OBVIOUS
<1> HIDE DEF longer
<1>4. EarnedAt(longer, i)
  BY <1>1, <1>2, <1>3 DEF EarnedAt
<1>5. QED
  BY <1>4 DEF longer

\* A request whose refill reaches the capacity is a new origin; another one adds its
\* admission to what has been paid since the old origin.  Either way a denied request
\* found less than a token left (ratelimit.py:46-52).
LEMMA OriginMoves ==
  ASSUME NEW entries \in Seq(Entry), NEW e \in Entry, NEW p \in Int, NEW tokens \in Int,
         tokens = Capacity \/ (Origin(entries, p) /\ tokens - Count * e.now = p),
         e.allowed = (tokens >= Cost)
  PROVE  LET longer == Append(entries, e) IN
         /\ Origin(longer, (IF e.allowed THEN tokens - Cost ELSE tokens) - Count * e.now)
         /\ ~e.allowed => EarnedAt(longer, Len(longer))
<1> DEFINE n == Len(entries)
           longer == Append(entries, e)
           spent == IF e.allowed THEN 1 ELSE 0
           left == (IF e.allowed THEN tokens - Cost ELSE tokens) - Count * e.now
<1>1. /\ n \in Nat /\ Len(longer) = n + 1 /\ longer[n + 1] = e
      /\ \A j \in 1 .. n : longer[j] = entries[j] /\ entries[j] \in Entry
  OBVIOUS
<1>2. Capacity \in Int /\ Count \in Int /\ Period \in Int /\ Period > 0 /\ Cost = Period
  BY CapacityNat DEF Cost
<1>3. e.now \in Int /\ e.allowed \in BOOLEAN /\ \A j \in 1 .. n : entries[j].now \in Int
  BY <1>1, RateLimiterAssumption DEF Entry, Times
<1>4. Count * e.now \in Int
  BY <1>2, <1>3
<1>5. left = tokens - Count * e.now - Period * spent
  BY <1>2, <1>3, <1>4
<1>6. spent \in Nat /\ (~e.allowed => spent = 0 /\ tokens < Period)
  <2>1. e.allowed <=> tokens >= Period
    BY <1>2, <1>3
  <2>2. ~e.allowed => tokens < Period
    BY <1>2, <2>1
  <2>3. QED
    BY <2>2
<1> HIDE DEF spent, left
<1>7. ASSUME NEW j \in 1 .. n + 1, NEW since \in Nat,
             Cardinality(GrantsOf(longer, j, n)) = since,
             Cardinality(GrantsOf(longer, j, n + 1)) = since + spent,
             longer[j].now \in Int,
             tokens = Capacity + Count * e.now - Count * longer[j].now - Period * since
      PROVE  Origin(longer, left) /\ (~e.allowed => EarnedAt(longer, n + 1))
  <2>1. Period * (since + spent) = Period * since + Period * spent
    BY <1>2, <1>6
  <2>2. Count * longer[j].now \in Int /\ Period * since \in Int /\ Period * spent \in Int
    BY <1>2, <1>6, <1>7
  <2>3. Count * (longer[n + 1].now - longer[j].now) = Count * e.now - Count * longer[j].now
    BY <1>1, <1>2, <1>3, <1>7
  <2> HIDE DEF longer
  <2> DEFINE cn == Count * e.now
             cj == Count * longer[j].now
             ps == Period * since
             pp == Period * spent
  <2>4. left = Capacity - cj - (ps + pp)
    <3>1. /\ left = tokens - cn - pp /\ tokens = Capacity + cn - cj - ps
          /\ cn \in Int /\ cj \in Int /\ ps \in Int /\ pp \in Int /\ Capacity \in Int
      BY <1>2, <1>4, <1>5, <1>7, <2>2
    <3> HIDE DEF cn, cj, ps, pp
    <3>2. QED
      BY <3>1
  <2>5. left = Capacity - Count * longer[j].now
                 - Period * Cardinality(GrantsOf(longer, j, n + 1))
    BY <1>7, <2>1, <2>4
  <2>6. Origin(longer, left)
    BY <1>1, <1>7, <2>5 DEF Origin, longer
  <2>7. ASSUME ~e.allowed
        PROVE  EarnedAt(longer, n + 1)
    <3>1. ps + Cost > Capacity + (cn - cj)
      <4>1. /\ tokens < Period /\ tokens = Capacity + cn - cj - ps /\ Cost = Period
            /\ cn \in Int /\ cj \in Int /\ ps \in Int /\ Capacity \in Int /\ Period \in Int
        BY <1>2, <1>4, <1>6, <1>7, <2>2, <2>7
      <4> HIDE DEF cn, cj, ps
      <4>2. QED
        BY <4>1
    <3>2. Period * Cardinality(GrantsOf(longer, j, (n + 1) - 1)) + Cost
            > Capacity + Count * (longer[n + 1].now - longer[j].now)
      <4>1. (n + 1) - 1 = n
        BY <1>1
      <4>2. QED
        BY <1>7, <2>3, <3>1, <4>1
    <3>3. QED
      BY <1>7, <3>2 DEF EarnedAt
  <2>8. QED
    BY <2>6, <2>7
<1>8. CASE tokens = Capacity
  <2>1. /\ Cardinality(GrantsOf(longer, n + 1, n)) = 0
        /\ Cardinality(GrantsOf(longer, n + 1, n + 1)) = spent
    BY GrantsGrow, FS_EmptySet DEF spent
  <2>2. n + 1 \in 1 .. n + 1 /\ longer[n + 1].now = e.now
    BY <1>1
  <2>3. tokens = Capacity + Count * e.now - Count * e.now - Period * 0
    BY <1>2, <1>4, <1>8
  <2>4. spent = 0 + spent /\ 0 \in Nat
    BY <1>6
  <2> HIDE DEF longer
  <2>5. QED
    BY <1>1, <1>3, <1>7, <2>1, <2>2, <2>3, <2>4 DEF left, longer
<1>9. CASE Origin(entries, p) /\ tokens - Count * e.now = p
  <2>1. PICK j \in 1 .. n :
          p = Capacity - Count * entries[j].now - Period * Cardinality(GrantsOf(entries, j, n))
    BY <1>9 DEF Origin
  <2>2. PICK since \in Nat : since = Cardinality(GrantsOf(entries, j, n))
    BY GrantsGrow
  <2>3. GrantsOf(longer, j, n) = GrantsOf(entries, j, n)
    BY <1>1, GrantsGrow
  <2>4. Cardinality(GrantsOf(longer, j, n + 1)) = since + spent
    BY <1>3, <2>2, GrantsGrow DEF spent
  <2>5. longer[j].now = entries[j].now /\ longer[j].now \in Int /\ j \in 1 .. n + 1
    BY <1>1, <1>3
  <2>6. tokens = Capacity + Count * e.now - Count * longer[j].now - Period * since
    <3>1. Count * longer[j].now \in Int /\ Period * since \in Int
      BY <1>2, <2>2, <2>5
    <3>2. tokens = p + Count * e.now
      BY <1>4, <1>9
    <3>3. p = Capacity - Count * longer[j].now - Period * since
      BY <2>1, <2>2, <2>5
    <3> DEFINE cn == Count * e.now
               cj == Count * longer[j].now
               ps == Period * since
    <3>4. /\ cn \in Int /\ cj \in Int /\ ps \in Int /\ Capacity \in Int
          /\ tokens = p + cn /\ p = Capacity - cj - ps
      BY <1>2, <1>4, <3>1, <3>2, <3>3
    <3>5. tokens = Capacity + cn - cj - ps
      <4> HIDE DEF cn, cj, ps
      <4>1. QED
        BY <3>4
    <3>6. QED
      BY <3>5
  <2> HIDE DEF longer
  <2>7. QED
    BY <1>1, <1>7, <2>2, <2>3, <2>4, <2>5, <2>6 DEF left, longer
<1>10. QED
  BY <1>8, <1>9

\* Allow moves the origin of its bucket or leaves it; other steps touch no bucket.
LEMMA DenialsKept ==
  ASSUME IInv, DenialInv, NEW t \in Threads, Allow(t)
  PROVE  DenialInv'
<1> PICK k \in Keys, now \in Times, tokens \in Int :
       /\ tokens = Refilled(buckets[k], now)
       /\ log' = [log EXCEPT ![k] = Append(@, [now |-> now, allowed |-> tokens >= Cost])]
       /\ buckets'[k].tokens = IF tokens >= Cost THEN tokens - Cost ELSE tokens
       /\ buckets'[k].last_refill = now
       /\ \A j \in Keys \ {k} : buckets'[j] = buckets[j]
  BY AllowPotential
<1> DEFINE e == [now |-> now, allowed |-> tokens >= Cost]
<1>1. (tokens >= Cost) \in BOOLEAN
  BY CapacityNat DEF Cost
<1>2. e \in Entry /\ e.now = now /\ e.allowed = (tokens >= Cost)
  BY <1>1 DEF Entry
<1>3. /\ log \in [Keys -> Seq(Entry)]
      /\ buckets[k] \in [tokens : Int, last_refill : Times \cup {-1}]
  BY DEF IInv, TypeOK, Entry
<1>4. log'[k] = Append(log[k], e) /\ \A j \in Keys \ {k} : log'[j] = log[j]
  BY <1>3
<1> HIDE DEF e
<1>5. log[k] \in Seq(Entry) /\ Potential(buckets[k]) \in Int
  <2>1. buckets[k].tokens \in Int /\ buckets[k].last_refill \in Int
    BY <1>3, RateLimiterAssumption DEF Times
  <2>2. Count * buckets[k].last_refill \in Int
    BY <2>1, RefillDistributes
  <2>3. QED
    BY <1>3, <2>1, <2>2 DEF Potential
<1>6. \/ tokens = Capacity
      \/ /\ Origin(log[k], Potential(buckets[k]))
         /\ tokens - Count * e.now = Potential(buckets[k])
  <2>1. CASE buckets[k] = NoBucket
    BY <1>3, <2>1, RefillPotential
  <2>2. CASE buckets[k] # NoBucket
    <3>1. buckets[k].last_refill # -1
      BY <2>2 DEF IInv, HistoryOK
    <3>2. Origin(log[k], Potential(buckets[k]))
      BY <3>1 DEF DenialInv
    <3>3. tokens - Count * now = Potential(buckets[k]) \/ tokens = Capacity
      BY <1>3, <2>2, RefillPotential
    <3>4. QED
      BY <1>2, <3>2, <3>3
  <2>3. QED
    BY <2>1, <2>2
<1>7. /\ Origin(log'[k], (IF e.allowed THEN tokens - Cost ELSE tokens) - Count * e.now)
      /\ ~e.allowed => EarnedAt(log'[k], Len(log'[k]))
  BY <1>2, <1>4, <1>5, <1>6, OriginMoves
<1>8. Origin(log'[k], Potential(buckets'[k]))
  <2>1. Potential(buckets'[k]) = (IF e.allowed THEN tokens - Cost ELSE tokens) - Count * e.now
    BY <1>2 DEF Potential
  <2>2. QED
    BY <1>7, <2>1
<1>9. ASSUME NEW i \in DOMAIN log'[k], ~log'[k][i].allowed
      PROVE  EarnedAt(log'[k], i)
  <2>1. \/ i = Len(log'[k]) /\ log'[k][i] = e
        \/ i \in 1 .. Len(log[k]) /\ log'[k][i] = log[k][i]
    BY <1>4, <1>5, <1>9
  <2>2. CASE i = Len(log'[k]) /\ log'[k][i] = e
    BY <1>7, <1>9, <2>2
  <2>3. CASE i \in 1 .. Len(log[k]) /\ log'[k][i] = log[k][i]
    <3>1. i \in DOMAIN log[k]
      BY <1>5, <2>3
    <3>2. EarnedAt(log[k], i)
      BY <1>9, <2>3, <3>1 DEF DenialInv
    <3>3. QED
      BY <1>2, <1>4, <1>5, <2>3, <3>2, EarnedStays
  <2>4. QED
    BY <2>1, <2>2, <2>3
<1>10. ASSUME NEW j \in Keys
       PROVE  /\ buckets'[j].last_refill # -1 => Origin(log'[j], Potential(buckets'[j]))
              /\ \A i \in DOMAIN log'[j] : ~log'[j][i].allowed => EarnedAt(log'[j], i)
  <2>1. CASE j = k
    BY <1>8, <1>9, <2>1
  <2>2. CASE j # k
    <3>1. log'[j] = log[j] /\ buckets'[j] = buckets[j]
      BY <1>4, <2>2
    <3>2. QED
      BY <3>1 DEF DenialInv
  <2>3. QED
    BY <2>1, <2>2
<1>11. QED
  BY <1>10 DEF DenialInv, Origin, EarnedAt, GrantsOf, Potential

\* A request that no later one overtook is denied only for what its key used up since
\* some earlier one (ratelimit.py:3-4, 46-52).
THEOREM DenialsAreJustified == Spec => []DenialsAreEarned
<1>1. Init => DenialInv
  BY DEF Init, DenialInv, NoBucket
<1>2. IInv /\ DenialInv /\ [Next]_vars => DenialInv'
  <2>1. ASSUME UNCHANGED <<buckets, log>>, DenialInv
        PROVE  DenialInv'
    BY <2>1 DEF DenialInv, Origin, EarnedAt, GrantsOf, Potential
  <2>2. QED
    BY <2>1, DenialsKept DEF Next, Tick, Arrive, vars
<1>3. DenialInv => DenialsAreEarned
  <2>1. ASSUME NEW k \in Keys, NEW i \in DOMAIN log[k], EarnedAt(log[k], i)
        PROVE  \E j \in 1 .. i :
                 Period * Cardinality(Grants(k, j, i - 1)) + Cost
                   > Capacity + Count * (log[k][i].now - log[k][j].now)
    BY <2>1 DEF EarnedAt, GrantsOf, Grants
  <2>2. QED
    BY <2>1 DEF DenialInv, DenialsAreEarned
<1>4. QED
  BY <1>1, <1>2, <1>3, Invariance, PTL DEF Spec

=============================================================================
