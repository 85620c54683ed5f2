----------------------------- MODULE RateLimiter ----------------------------
(***************************************************************************)
(* security/ratelimit.py: one token bucket per client and route, shared by *)
(* the threads that run the rate_limited dependency.  allow() reads the    *)
(* monotonic clock first and takes the lock second, so requests reach      *)
(* their bucket in an order that need not be that of their times.          *)
(*                                                                         *)
(* Time is counted in ticks and tokens in 1/Period of a token, which makes *)
(* the refill Count units a tick and every amount an integer: the rounding *)
(* of the code's floats is left out.                                       *)
(***************************************************************************)
EXTENDS Integers, Sequences, FiniteSets

CONSTANTS
  Threads,    \* threads that run the dependency
  Keys,       \* "client:route" strings
  Count,      \* the limit is Count requests ...
  Period,     \* ... every Period ticks
  MaxTime,    \* bound: the clock stops here
  MaxLog      \* bound: requests made on one key

ASSUME RateLimiterAssumption ==
  /\ Count \in Nat
  /\ Period \in Nat \ {0}
  /\ MaxTime \in Nat
  /\ MaxLog \in Nat

VARIABLES
  clock,      \* time.monotonic()
  buckets,    \* the bucket of each key that has one
  request,    \* what each thread is doing: the key, and the time it read
  log         \* history: the requests of each key in the order of the lock

vars == <<clock, buckets, request, log>>

Capacity == Count * Period    \* self.capacity, in units
Cost     == Period            \* one token, in units

NoBucket  == [tokens |-> Capacity, last_refill |-> -1]
NoRequest == [key |-> "", now |-> -1]

Lesser(a, b) == IF a <= b THEN a ELSE b

-----------------------------------------------------------------------------
Init ==
  /\ clock = 0
  /\ buckets = [k \in Keys |-> NoBucket]
  /\ request = [t \in Threads |-> NoRequest]
  /\ log = [k \in Keys |-> <<>>]

Tick ==
  /\ clock < MaxTime
  /\ clock' = clock + 1
  /\ UNCHANGED <<buckets, request, log>>

Waiting(k) == {t \in Threads : request[t] # NoRequest /\ request[t].key = k}

\* now = time.monotonic(), before the lock.
Arrive(t, k) ==
  /\ request[t] = NoRequest
  /\ Len(log[k]) + Cardinality(Waiting(k)) < MaxLog
  /\ request' = [request EXCEPT ![t] = [key |-> k, now |-> clock]]
  /\ UNCHANGED <<clock, buckets, log>>

\* Mutant: a negative elapsed time counts as none.
RefilledNeverBack(bucket, now) ==
  LET elapsed == now - bucket.last_refill IN
  IF bucket = NoBucket
    THEN Capacity
    ELSE Lesser(Capacity, bucket.tokens + (IF elapsed < 0 THEN 0 ELSE elapsed) * Count)

\* A bucket's tokens at time now: full when it is made, and else what was left
\* plus the refill since, which is negative when now is before the last refill.
Refilled(bucket, now) ==
  IF bucket = NoBucket
    THEN Capacity
    ELSE Lesser(Capacity, bucket.tokens + (now - bucket.last_refill) * Count)

\* Allow with its decision and its bookkeeping left open, for its mutants.
AllowWith(t, tokens, allowed, spent, refilled_at) ==
  LET k == request[t].key
      now == request[t].now
  IN
  /\ request[t] # NoRequest
  /\ buckets' = [buckets EXCEPT ![k] =
       [tokens |-> tokens - spent, last_refill |-> refilled_at]]
  /\ log' = [log EXCEPT ![k] = Append(@, [now |-> now, allowed |-> allowed])]
  /\ request' = [request EXCEPT ![t] = NoRequest]
  /\ UNCHANGED clock

Tokens(t) == Refilled(buckets[request[t].key], request[t].now)

\* Mutant: tokens > 1, so that the last token is never handed out.
AllowButLast(t) ==
  /\ request[t] # NoRequest
  /\ LET allowed == Tokens(t) > Cost IN
     AllowWith(t, Tokens(t), allowed, IF allowed THEN Cost ELSE 0, request[t].now)

\* Mutant: a denied request is charged too.
AllowChargingDenied(t) ==
  /\ request[t] # NoRequest
  /\ AllowWith(t, Tokens(t), Tokens(t) >= Cost, Cost, request[t].now)

\* Mutant: a denied request puts the next refill off by a tick.
AllowPenalising(t) ==
  /\ request[t] # NoRequest
  /\ LET allowed == Tokens(t) >= Cost IN
     AllowWith(t, Tokens(t), allowed, IF allowed THEN Cost ELSE 0,
               IF allowed THEN request[t].now ELSE request[t].now + 1)

\* The critical section of allow().
Allow(t) ==
  LET k == request[t].key
      now == request[t].now
      tokens == Refilled(buckets[k], now)
      allowed == tokens >= Cost
  IN
  /\ request[t] # NoRequest
  /\ buckets' = [buckets EXCEPT ![k] =
       [tokens |-> IF allowed THEN tokens - Cost ELSE tokens, last_refill |-> now]]
  /\ log' = [log EXCEPT ![k] = Append(@, [now |-> now, allowed |-> allowed])]
  /\ request' = [request EXCEPT ![t] = NoRequest]
  /\ UNCHANGED clock

Next ==
  \/ Tick
  \/ \E t \in Threads : Allow(t) \/ \E k \in Keys : Arrive(t, k)

Spec == Init /\ [][Next]_vars

-----------------------------------------------------------------------------
(* Properties *)

Times == 0 .. MaxTime

\* Every variable keeps its type; tokens may fall below zero.
TypeOK ==
  /\ clock \in Times
  /\ buckets \in [Keys -> [tokens : Int, last_refill : Times \cup {-1}]]
  /\ request \in [Threads -> [key : Keys, now : Times] \cup {NoRequest}]
  /\ log \in [Keys -> Seq([now : Times, allowed : BOOLEAN])]

\* Places in the log of the requests admitted on key k at times a to b.
Admitted(k, a, b) ==
  {i \in DOMAIN log[k] :
     log[k][i].allowed /\ a <= log[k][i].now /\ log[k][i].now <= b}

\* However the threads interleave, a key is admitted at most its burst plus the
\* steady rate over any stretch of time (ratelimit.py:3-4).
AdmissionBound ==
  \A k \in Keys, a \in 0 .. clock, b \in 0 .. clock :
    a <= b =>
      Period * Cardinality(Admitted(k, a, b)) <= Capacity + Count * (b - a)

\* Admissions among places i to j of key k's log.
Grants(k, i, j) == {n \in i .. j : log[k][n].allowed}

\* A request that no later one overtook is denied only for what the key used up:
\* since some earlier request it has been admitted more than that stretch's
\* allowance less one (ratelimit.py:3-4, 46-52).
DenialsAreEarned ==
  \A k \in Keys : \A i \in DOMAIN log[k] :
    (/\ ~log[k][i].allowed
     /\ \A j \in 1 .. i : log[k][j].now <= log[k][i].now)
    => \E j \in 1 .. i :
         Period * Cardinality(Grants(k, j, i - 1)) + Cost
           > Capacity + Count * (log[k][i].now - log[k][j].now)

\* Whoever waits for as long as a token takes to refill is admitted, unless another
\* request of the key comes first, however stale the times that have reached the
\* bucket: at a token a second that is what "Retry-After: 1" says, and at a slower
\* limit, where the header is too short, the wait that is enough
\* (ratelimit.py:46-52, 64-69).
RetryAfterTokenTime ==
  \A n \in 1 .. Period : n * Count >= Period =>
    \A k \in Keys : Refilled(buckets[k], clock + n) >= Cost

\* The burst allowance: a key is not denied before it has used its Count tokens
\* ("when a caller drains it, further requests get 429", ratelimit.py:3-4).
DeniedOnlyWhenDrained ==
  \A k \in Keys : \A i \in DOMAIN log[k] :
    ~log[k][i].allowed => Cardinality(Grants(k, 1, i - 1)) >= Count
=============================================================================
