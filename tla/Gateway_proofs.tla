--------------------------- MODULE Gateway_proofs ---------------------------
(***************************************************************************)
(* Theorems about Gateway and their proofs: type correctness, who is let   *)
(* through, who is charged, what a status says of the database, what is    *)
(* counted, and how long a token lives.                                    *)
(***************************************************************************)
EXTENDS Gateway, FiniteSetTheorems, TLAPS

Dependency == {"rate_limited", "get_principal", "require_admin"}

\* What is read of a well-typed request, and what an update of it must keep.
LEMMA RequestTyped ==
  ASSUME TypeOK, NEW r \in Requests
  PROVE  /\ request[r] \in RequestRecords
         /\ request[r].stage \in Stages /\ request[r].target \in Targets
         /\ request[r].todo \in Seq(Dependency)
         /\ request[r].arrived \in 0 .. MaxTime
         /\ request[r].queries \in 0 .. 2
         /\ request[r].status \in Statuses \cup {NoStatus}
BY DEF TypeOK, RequestRecords, Dependency

\* Every route's plan is made of dependencies, and it takes at most two queries.
LEMMA PlansTyped ==
  ASSUME NEW target \in Targets
  PROVE  Dependencies(target) \in Seq(Dependency) /\ Queries(target) \in 0 .. 2
<1>1. /\ <<>> \in Seq(Dependency)
      /\ <<"rate_limited">> \in Seq(Dependency)
      /\ <<"get_principal">> \in Seq(Dependency)
      /\ <<"rate_limited", "get_principal">> \in Seq(Dependency)
      /\ <<"get_principal", "require_admin">> \in Seq(Dependency)
  BY DEF Dependency
<1>2. Dependencies(target) \in Seq(Dependency)
  BY <1>1, Zenon DEF Dependencies
<1>3. Queries(target) \in 0 .. 2
  BY DEF Queries
<1> QED
  BY <1>2, <1>3

\* The reply to a request has a known status.
LEMMA RepliesTyped ==
  ASSUME NEW target \in Targets
  PROVE  Refusals(target) \subseteq Statuses /\ Success(target) \in Statuses
BY DEF Refusals, Success, Statuses

\* A new token is one of the Tokens.
LEMMA TokenTyped ==
  ASSUME now \in 0 .. MaxTime, NEW role \in Roles
  PROVE  NewToken(role) \in Tokens
<1> now \in Nat /\ TicksPerSecond \in Nat \ {0} /\ Ttl \in Nat
  BY GatewayAssumption
<1> now \div TicksPerSecond \in Nat
  BY SMT
<1> QED
  BY DEF NewToken, Tokens

\* Setting one field keeps a request well typed.
LEMMA FieldsTyped ==
  ASSUME NEW q \in RequestRecords
  PROVE  /\ \A x \in Stages : [q EXCEPT !.stage = x] \in RequestRecords
         /\ \A x \in Targets : [q EXCEPT !.target = x] \in RequestRecords
         /\ \A x \in Tokens \cup {NoCredentials, Forged} :
              [q EXCEPT !.token = x] \in RequestRecords
         /\ \A x \in {"good", "unparsable", "invalid", "malformed"} :
              [q EXCEPT !.input = x] \in RequestRecords
         /\ \A x \in Ids \cup {NoId} : [q EXCEPT !.id = x] \in RequestRecords
         /\ \A x \in 0 .. MaxTime : [q EXCEPT !.arrived = x] \in RequestRecords
         /\ \A x \in Seq(Dependency) : [q EXCEPT !.todo = x] \in RequestRecords
         /\ \A x \in 0 .. 2 : [q EXCEPT !.queries = x] \in RequestRecords
         /\ \A x \in Statuses : [q EXCEPT !.status = x] \in RequestRecords
         /\ [q EXCEPT !.raised = TRUE] \in RequestRecords
BY DEF RequestRecords, Dependency

\* The record every request starts from is well typed.
LEMMA NewRequestTyped == NewRequest \in RequestRecords
<1> 0 \in 0 .. MaxTime /\ <<>> \in Seq(Dependency)
  BY GatewayAssumption
<1> QED
  BY DEF NewRequest, RequestRecords, Dependency, Stages, NoStatus, Targets, Routes

\* What COMMIT does: a reservation is given back once and stays given back.
LEMMA Commits ==
  ASSUME TypeOK, NEW r \in Requests, Commit(r)
  PROVE  LET q == request[r] IN
         /\ reservations' \in [Ids -> {"none", "reserved", "released"}]
         /\ effects' \in {effects, effects \cup {r}}
         /\ \A i \in Ids : reservations[i] = "released" => reservations'[i] = "released"
         /\ q.target \notin Writers => effects' = effects
         /\ q.target = "reserve" => r \in effects'
         /\ (q.target = "release" /\ q.id \in Ids) =>
              /\ reservations[q.id] # "none" => reservations'[q.id] = "released"
              /\ r \in effects' \ effects => /\ reservations[q.id] = "reserved"
                                            /\ reservations'[q.id] = "released"
BY Zenon, SMT DEF Commit, TypeOK, Writers

\* TypeOK is preserved by every step.
LEMMA TypeInductive == TypeOK /\ [Next]_vars => TypeOK'
<1> SUFFICES ASSUME TypeOK, [Next]_vars PROVE TypeOK'
  OBVIOUS
<1> USE GatewayAssumption
<1>1. CASE UNCHANGED vars
  BY <1>1 DEF vars, TypeOK
<1>2. CASE Tick
  BY <1>2 DEF Tick, TypeOK
<1>3. ASSUME NEW r \in Requests, NEW target \in Asked, NEW input \in Inputs(target),
             NEW token \in Credentials(target), NEW id \in Named(target),
             Arrive(r, target, token, input, id)
      PROVE  TypeOK'
  <2>1. target \in Targets
    OBVIOUS
  <2>2. input \in {"good", "unparsable", "invalid", "malformed"}
    BY DEF Inputs
  <2>3. token \in Tokens \cup {NoCredentials, Forged}
    BY DEF Credentials, TypeOK
  <2>4. now \in 0 .. MaxTime
    BY DEF TypeOK
  <2>5. request'[r] \in RequestRecords
    <3> DEFINE arrived == [NewRequest EXCEPT !.target = target, !.token = token,
                                             !.input = input, !.id = id,
                                             !.arrived = now]
    <3>1. arrived \in RequestRecords
      <4> DEFINE q1 == [NewRequest EXCEPT !.target = target]
                 q2 == [q1 EXCEPT !.token = token]
                 q3 == [q2 EXCEPT !.input = input]
                 q4 == [q3 EXCEPT !.id = id]
      <4>1. q1 \in RequestRecords
        BY NewRequestTyped, FieldsTyped, <2>1
      <4>2. q2 \in RequestRecords
        <5> HIDE DEF q1
        <5> QED
          BY <4>1, FieldsTyped, <2>3
      <4>3. q3 \in RequestRecords
        <5> HIDE DEF q2
        <5> QED
          BY <4>2, FieldsTyped, <2>2
      <4>4. q4 \in RequestRecords
        <5>1. id \in Ids \cup {NoId}
          BY DEF Named
        <5> HIDE DEF q3
        <5> QED
          BY <4>3, FieldsTyped, <5>1
      <4> HIDE DEF q4
      <4>5. [q4 EXCEPT !.arrived = now] \in RequestRecords
        BY <4>4, FieldsTyped, <2>4
      <4> QED
        BY <4>5, Zenon DEF q4
    <3> HIDE DEF arrived
    <3>2. \A status \in Statuses :
            [arrived EXCEPT !.stage = "answered", !.status = status] \in RequestRecords
      <4> DEFINE a == [arrived EXCEPT !.stage = "answered"]
      <4>1. a \in RequestRecords
        BY <3>1, FieldsTyped DEF Stages
      <4> HIDE DEF a
      <4>2. \A status \in Statuses : [a EXCEPT !.status = status] \in RequestRecords
        BY <4>1, FieldsTyped
      <4> QED
        BY <4>2, Zenon DEF a
    <3>3. [arrived EXCEPT !.stage = "depends", !.todo = Dependencies(target),
                          !.queries = Queries(target)] \in RequestRecords
      BY <3>1, <2>1, PlansTyped DEF RequestRecords, Stages, Dependency
    <3> QED
      BY <1>3, <3>2, <3>3 DEF Arrive, arrived, TypeOK, Statuses
  <2> QED
    BY <1>3, <2>5 DEF Arrive, TypeOK
<1>4. ASSUME NEW r \in Requests, Advance(r) \/ PoolTimeout(r)
      PROVE  TypeOK'
  <2> DEFINE q == request[r]
  <2>1. /\ q \in RequestRecords /\ q.todo \in Seq(Dependency) /\ q.queries \in 0 .. 2
        /\ q.target \in Targets /\ q.status \in Statuses \cup {NoStatus}
    BY RequestTyped
  <2>2. ASSUME NEW status \in Statuses, Answer(r, status)
        PROVE  request' \in [Requests -> RequestRecords]
    BY <2>1, <2>2 DEF Answer, TypeOK, RequestRecords, Stages
  <2>3. ASSUME Raise(r)
        PROVE  request' \in [Requests -> RequestRecords]
    <3>1. [q EXCEPT !.stage = "answered", !.status = 500, !.raised = TRUE]
            \in RequestRecords
      <4> DEFINE q1 == [q EXCEPT !.stage = "answered"]
                 q2 == [q1 EXCEPT !.status = 500]
      <4>1. q1 \in RequestRecords
        BY <2>1, FieldsTyped DEF Stages
      <4>2. q2 \in RequestRecords
        <5>1. 500 \in Statuses
          BY DEF Statuses
        <5> HIDE DEF q1
        <5>2. \A x \in Statuses : [q1 EXCEPT !.status = x] \in RequestRecords
          BY <4>1, FieldsTyped
        <5> QED
          BY <5>1, <5>2, Zenon
      <4>3. [q2 EXCEPT !.raised = TRUE] \in RequestRecords
        <5> HIDE DEF q2
        <5> QED
          BY <4>2, FieldsTyped
      <4> QED
        BY <4>3, Zenon
    <3> QED
      BY <3>1, <2>3 DEF Raise, TypeOK
  <2>4. ASSUME NEW stage \in Stages, Goto(r, stage)
        PROVE  request' \in [Requests -> RequestRecords]
    BY <2>1, <2>4 DEF Goto, TypeOK, RequestRecords
  <2>5. ASSUME q.todo # <<>>, Resolved(r)
        PROVE  request' \in [Requests -> RequestRecords]
    <3>1. Tail(q.todo) \in Seq(Dependency)
      BY <2>1, <2>5
    <3> QED
      BY <3>1, <2>1, <2>5 DEF Resolved, TypeOK, RequestRecords, Dependency
  <2>6. ASSUME DatabaseError(r)
        PROVE  request' \in [Requests -> RequestRecords]
    BY <2>2, <2>3, <2>6 DEF DatabaseError, Statuses
  <2>7. {401, 403, 422, 429, 200} \subseteq Statuses
        /\ {"ready", "handling", "querying", "counted"} \subseteq Stages
    BY DEF Statuses, Stages
  <2>8. CASE RateLimit(r)
    BY <2>8, <2>2, <2>5, <2>7 DEF RateLimit, Depends, TypeOK
  <2>9. CASE GetPrincipal(r)
    BY <2>9, <2>2, <2>5, <2>7 DEF GetPrincipal, Depends, TypeOK
  <2>10. CASE RequireAdmin(r)
    BY <2>10, <2>2, <2>5, <2>7 DEF RequireAdmin, Depends, TypeOK
  <2>11. CASE Validate(r)
    BY <2>11, <2>2, <2>4, <2>7 DEF Validate, TypeOK
  <2>12. CASE Handle(r)
    <3>1. request' \in [Requests -> RequestRecords]
      BY <2>12, <2>2, <2>4, <2>7 DEF Handle
    <3>2. issued' \subseteq Tokens
      BY <2>12, TokenTyped DEF Handle, TypeOK
    <3> QED
      BY <2>12, <3>1, <3>2 DEF Handle, TypeOK
  <2>13. CASE Connect(r)
    BY <2>13, <2>4, <2>7 DEF Connect, TypeOK
  <2>14. CASE QuerySucceeds(r)
    <3>1. ASSUME q.queries > 1
          PROVE  request' \in [Requests -> RequestRecords]
      <4>1. request' = [request EXCEPT ![r].stage = "handling", ![r].queries = @ - 1]
        BY <2>14, <3>1 DEF QuerySucceeds
      <4> QED
        BY <4>1, <3>1, <2>1, <2>7 DEF TypeOK, RequestRecords
    <3>2. ASSUME ~(q.queries > 1)
          PROVE  request' \in [Requests -> RequestRecords]
      BY <2>14, <3>2, <2>1, <2>2, RepliesTyped DEF QuerySucceeds
    <3> QED
      BY <2>14, <3>1, <3>2, Commits DEF QuerySucceeds, TypeOK
  <2>15. CASE QueryRefuses(r)
    BY <2>15, <2>1, <2>2, RepliesTyped DEF QueryRefuses, TypeOK
  <2>16. CASE QueryFails(r)
    BY <2>16, <2>6, Commits DEF QueryFails, TypeOK
  <2>17. CASE Count(r)
    <3>1. request' \in [Requests -> RequestRecords]
      BY <2>17, <2>4, <2>7 DEF Count
    <3>2. requests_total' \in [Labels -> Nat]
      <4>1. PICK l : requests_total' = [requests_total EXCEPT ![l] = @ + 1]
        BY <2>17 DEF Count
      <4>2. requests_total \in [Labels -> Nat]
        BY DEF TypeOK
      <4>3. requests_total' =
              [m \in Labels |-> IF m = l THEN requests_total[m] + 1 ELSE requests_total[m]]
        BY <4>1, <4>2
      <4> QED
        BY <4>2, <4>3
    <3> QED
      BY <2>17, <3>1, <3>2 DEF Count, TypeOK
  <2>18. CASE Deliver(r)
    BY <2>18, <2>1 DEF Deliver, TypeOK, RequestRecords, Stages
  <2>19. CASE PoolTimeout(r)
    BY <2>19, <2>6 DEF PoolTimeout, TypeOK
  <2> QED
    BY <1>4, <2>8, <2>9, <2>10, <2>11, <2>12, <2>13, <2>14, <2>15, <2>16, <2>17,
       <2>18, <2>19 DEF Advance
<1> QED
  BY <1>1, <1>2, <1>3, <1>4 DEF Next

\* The process starts in a state of the right type.
LEMMA InitTyped == Init => TypeOK
<1> SUFFICES ASSUME Init PROVE TypeOK
  OBVIOUS
<1>1. now \in 0 .. MaxTime
  BY GatewayAssumption DEF Init
<1>2. issued \subseteq Tokens
  BY <1>1, TokenTyped, GatewayAssumption DEF Init, Roles
<1> QED
  BY <1>1, <1>2, NewRequestTyped DEF Init, TypeOK

\* Every variable keeps its type.
THEOREM TypeCorrect == Spec => []TypeOK
<1> QED
  BY InitTyped, TypeInductive, PTL DEF Spec

-----------------------------------------------------------------------------
(* The inductive invariant *)

Limit      == <<"rate_limited">>
LimitCheck == <<"rate_limited", "get_principal">>
Check      == <<"get_principal">>
CheckAdmin == <<"get_principal", "require_admin">>
AdminOnly  == <<"require_admin">>

\* What a request for target may still have to go through.
Plans(target) ==
  (IF target \in {"reserve", "release"} THEN {Check} ELSE {})
  \cup (IF target = "search" THEN {Limit} ELSE {})
  \cup (IF target = "reserve" THEN {LimitCheck} ELSE {})
  \cup (IF target = "admin_list" THEN {CheckAdmin, AdminOnly} ELSE {})
  \cup {<<>>}

Inside == {"depends", "ready", "handling", "querying"}

\* A request that is not answered follows the plan of its route, and has
\* written nothing before its last query.
PlanOK(r) ==
  LET q == request[r] IN
  /\ q.target = "release" => q.id \in Ids
  /\ q.stage # "new" => q.arrived <= now
  /\ q.stage = "new" => r \notin charged
  /\ q.stage \in Inside =>
       /\ q.target \in Routes
       /\ q.input # "unparsable"
       /\ q.todo \in Plans(q.target)
       /\ q.target \in Writers => q.queries = 1
  /\ q.stage \in {"ready", "handling", "querying"} => q.todo = <<>>
  /\ ~Answered(r) => r \notin effects /\ q.status = NoStatus
  /\ Answered(r) => q.status \in Statuses

\* The dependencies behind a request have done their work.
PassedOK(r) ==
  LET q == request[r] IN
  q.stage \in Inside =>
    /\ (q.target \in Protected /\ q.todo \in {<<>>, AdminOnly}) =>
         q.token \in issued /\ q.arrived < q.token.exp * TicksPerSecond
    /\ (q.target = "admin_list" /\ q.todo = <<>>) => q.token.role = "admin"
    /\ q.target \in Limited => (r \in charged <=> q.todo \in {<<>>, Check})

\* The safety properties that speak of one request.
LearntOK(r) ==
  (/\ request[r].target \in Protected
   /\ ~Entitled(r)
   /\ Answered(r))
  => /\ request[r].status \in {401, 403, 429, 422}
     /\ request[r].status = 422 => request[r].input = "unparsable"
     /\ r \notin effects

PaidOK(r) ==
  (request[r].target \in Limited /\ Answered(r) /\ request[r].input # "unparsable")
  => (r \in charged <=> request[r].status # 429)

ToldOK(r) ==
  LET q == request[r] IN
  /\ Answered(r) =>
       /\ q.status \in 400 .. 499 => r \notin effects
       /\ q.status = 201 => q.target = "reserve" /\ r \in effects
       /\ q.target = "release" /\ q.status = 200 => reservations[q.id] = "released"
  /\ r \in effects /\ q.target = "release" => reservations[q.id] = "released"

RequestOK(r) == PlanOK(r) /\ PassedOK(r) /\ LearntOK(r) /\ PaidOK(r) /\ ToldOK(r)

\* No two requests gave the same reservation back.
GivenOnce ==
  \A r, s \in effects :
    (/\ request[r].target = "release" /\ request[s].target = "release"
     /\ request[r].id = request[s].id) => r = s

IInv == TypeOK /\ (\A r \in Requests : RequestOK(r)) /\ GivenOnce

-----------------------------------------------------------------------------
(* What one step changes *)

\* The plans are told apart by what they begin with.
LEMMA PlansDiffer ==
  /\ Head(Limit) = "rate_limited" /\ Head(LimitCheck) = "rate_limited"
  /\ Head(Check) = "get_principal" /\ Head(CheckAdmin) = "get_principal"
  /\ Head(AdminOnly) = "require_admin"
  /\ Tail(Limit) = <<>> /\ Tail(LimitCheck) = Check
  /\ Tail(Check) = <<>> /\ Tail(CheckAdmin) = AdminOnly /\ Tail(AdminOnly) = <<>>
  /\ <<>> \notin {Limit, LimitCheck, Check, CheckAdmin, AdminOnly}
  /\ Limit # Check /\ LimitCheck # Check /\ CheckAdmin # AdminOnly
BY DEF Limit, LimitCheck, Check, CheckAdmin, AdminOnly

\* The dependency that comes next fixes the route and what is left after it.
LEMMA NextDependency ==
  ASSUME NEW target \in Targets, NEW todo \in Plans(target), todo # <<>>
  PROVE  /\ Head(todo) = "rate_limited" =>
              \/ target = "search" /\ todo = Limit /\ Tail(todo) = <<>>
              \/ target = "reserve" /\ todo = LimitCheck /\ Tail(todo) = Check
         /\ Head(todo) = "get_principal" =>
              \/ target \in {"reserve", "release"} /\ todo = Check /\ Tail(todo) = <<>>
              \/ target = "admin_list" /\ todo = CheckAdmin /\ Tail(todo) = AdminOnly
         /\ Head(todo) = "require_admin" =>
              target = "admin_list" /\ todo = AdminOnly /\ Tail(todo) = <<>>
<1> todo \in {Limit, LimitCheck, Check, CheckAdmin, AdminOnly}
  BY DEF Plans
<1> QED
  BY PlansDiffer, Zenon DEF Plans

\* A route's own dependencies are the longest of its plans.
LEMMA WholePlan ==
  ASSUME NEW target \in Targets
  PROVE  /\ Dependencies(target) \in Plans(target)
         /\ target \in Protected => Dependencies(target) \notin {<<>>, AdminOnly}
         /\ target \in Limited => Dependencies(target) \notin {<<>>, Check}
         /\ target \in Writers => Queries(target) = 1
BY PlansDiffer
DEF Dependencies, Plans, Limit, LimitCheck, Check, CheckAdmin, Protected, Limited,
    Writers, Queries

\* Where the steps of a request leave it.
LEMMA Replies ==
  ASSUME TypeOK, NEW r \in Requests
  PROVE  /\ \A status \in Statuses : Answer(r, status) =>
              request'[r].stage = "answered" /\ request'[r].status = status
         /\ Raise(r) => request'[r].stage = "answered" /\ request'[r].status = 500
         /\ \A stage \in Stages : Goto(r, stage) =>
              /\ request'[r].stage = stage
              /\ request'[r].status = request[r].status
              /\ request'[r].todo = request[r].todo
              /\ request'[r].queries = request[r].queries
         /\ Resolved(r) =>
              /\ request'[r].stage = request[r].stage
              /\ request'[r].status = request[r].status
              /\ request'[r].todo = Tail(request[r].todo)
              /\ request'[r].queries = request[r].queries
<1> USE DEF TypeOK, RequestRecords
<1>1. ASSUME NEW status \in Statuses, Answer(r, status)
      PROVE  request'[r].stage = "answered" /\ request'[r].status = status
  BY <1>1 DEF Answer
<1>2. ASSUME Raise(r)
      PROVE  request'[r].stage = "answered" /\ request'[r].status = 500
  BY <1>2 DEF Raise
<1>3. ASSUME NEW stage \in Stages, Goto(r, stage)
      PROVE  /\ request'[r].stage = stage
             /\ request'[r].status = request[r].status
             /\ request'[r].todo = request[r].todo
             /\ request'[r].queries = request[r].queries
  BY <1>3 DEF Goto
<1>4. ASSUME Resolved(r)
      PROVE  /\ request'[r].stage = request[r].stage
             /\ request'[r].status = request[r].status
             /\ request'[r].todo = Tail(request[r].todo)
             /\ request'[r].queries = request[r].queries
  BY <1>4 DEF Resolved
<1> QED
  BY <1>1, <1>2, <1>3, <1>4, Zenon

\* A step of one request leaves the others, and what the request came with, alone.
LEMMA Frame ==
  ASSUME TypeOK, NEW r \in Requests, Advance(r) \/ PoolTimeout(r)
  PROVE  /\ \A s \in Requests \ {r} :
              /\ request'[s] = request[s]
              /\ s \in charged' <=> s \in charged
              /\ s \in effects' <=> s \in effects
         /\ now' = now
         /\ issued \subseteq issued'
         /\ request'[r].target = request[r].target
         /\ request'[r].token = request[r].token
         /\ request'[r].input = request[r].input
         /\ request'[r].arrived = request[r].arrived
         /\ request'[r].id = request[r].id
         /\ \A i \in Ids : reservations[i] = "released" => reservations'[i] = "released"
<1> USE DEF TypeOK, Answer, Raise, Goto, Resolved, RequestRecords, DatabaseError
<1>1. CASE RateLimit(r)
  BY <1>1 DEF RateLimit
<1>2. CASE GetPrincipal(r)
  BY <1>2 DEF GetPrincipal
<1>3. CASE RequireAdmin(r)
  BY <1>3 DEF RequireAdmin
<1>4. CASE Validate(r)
  BY <1>4 DEF Validate
<1>5. CASE Handle(r)
  BY <1>5 DEF Handle
<1>6. CASE Connect(r)
  BY <1>6 DEF Connect
<1>7. CASE QuerySucceeds(r)
  BY <1>7, Commits DEF QuerySucceeds
<1>8. CASE QueryRefuses(r)
  BY <1>8 DEF QueryRefuses
<1>9. CASE QueryFails(r)
  BY <1>9, Commits DEF QueryFails
<1>10. CASE Count(r)
  BY <1>10 DEF Count
<1>11. CASE Deliver(r)
  BY <1>11 DEF Deliver
<1>12. CASE PoolTimeout(r)
  BY <1>12 DEF PoolTimeout
<1> QED
  BY <1>1, <1>2, <1>3, <1>4, <1>5, <1>6, <1>7, <1>8, <1>9, <1>10, <1>11, <1>12 DEF Advance

\* A request nobody touches stays right, whatever is issued meanwhile.
LEMMA Unmoved ==
  ASSUME TypeOK, TypeOK', NEW s \in Requests, RequestOK(s),
         request'[s] = request[s],
         s \in charged' <=> s \in charged,
         s \in effects' <=> s \in effects,
         issued \subseteq issued', now <= now',
         \A i \in Ids : reservations[i] = "released" => reservations'[i] = "released"
  PROVE  RequestOK(s)'
<1>1. /\ request[s].arrived \in Int /\ now \in Int /\ now' \in Int
  BY RequestTyped DEF TypeOK
<1>2. PlanOK(s)'
  BY <1>1 DEF RequestOK, PlanOK, Answered
<1>3. PassedOK(s)'
  BY DEF RequestOK, PassedOK
<1>4. LearntOK(s)'
  BY DEF RequestOK, LearntOK, Answered, Entitled
<1>5. PaidOK(s)' /\ ToldOK(s)'
  BY DEF RequestOK, PlanOK, PaidOK, ToldOK, Answered
<1> QED
  BY <1>2, <1>3, <1>4, <1>5 DEF RequestOK

\* A request that has come through its dependencies is entitled.
LEMMA ThroughIsEntitled ==
  ASSUME TypeOK, NEW r \in Requests, RequestOK(r), request[r].stage \in Inside,
         request[r].target \in Protected, request[r].todo = <<>>
  PROVE  Entitled(r)
BY DEF RequestOK, PassedOK, Entitled

\* Answering keeps a request right if the status tells what happened.
LEMMA AnswerIsRight ==
  ASSUME TypeOK, TypeOK', NEW r \in Requests, RequestOK(r),
         Advance(r) \/ PoolTimeout(r),
         request[r].stage \in Inside,
         request'[r].stage = "answered", request'[r].status \in Statuses,
         request[r].target \in Protected =>
           \/ Entitled(r)
           \/ request'[r].status \in {401, 403, 429} /\ r \notin effects',
         request[r].target \in Limited =>
           (r \in charged' <=> request'[r].status # 429),
         request'[r].status \in 400 .. 499 => r \notin effects',
         request'[r].status = 201 => request[r].target = "reserve" /\ r \in effects',
         (request[r].target = "release" /\ (request'[r].status = 200 \/ r \in effects'))
           => reservations'[request[r].id] = "released"
  PROVE  RequestOK(r)'
<1> DEFINE q == request[r]
           p == request'[r]
<1>1. /\ p.target = q.target /\ p.token = q.token /\ p.input = q.input
      /\ p.arrived = q.arrived /\ p.id = q.id
      /\ issued \subseteq issued' /\ now' = now
  BY Frame
<1>2. PlanOK(r)'
  BY <1>1 DEF RequestOK, PlanOK, Answered, Inside
<1>3. PassedOK(r)'
  BY DEF PassedOK, Inside
<1>4. Entitled(r) => Entitled(r)'
  BY <1>1 DEF Entitled
<1>5. LearntOK(r)'
  BY <1>1, <1>4 DEF LearntOK
<1>6. PaidOK(r)' /\ ToldOK(r)'
  BY <1>1 DEF PaidOK, ToldOK
<1> QED
  BY <1>2, <1>3, <1>5, <1>6 DEF RequestOK

\* The request that takes a step stays right.
LEMMA Moved ==
  ASSUME TypeOK, TypeOK', NEW r \in Requests, RequestOK(r), Advance(r) \/ PoolTimeout(r)
  PROVE  RequestOK(r)'
<1> DEFINE q == request[r]
           p == request'[r]
<1>1. /\ p.target = q.target /\ p.token = q.token /\ p.input = q.input
      /\ p.arrived = q.arrived /\ p.id = q.id
      /\ issued \subseteq issued' /\ now' = now
  BY Frame
<1>2. /\ q.target \in Targets /\ q.stage \in Stages /\ q.todo \in Seq(Dependency)
      /\ q.queries \in 0 .. 2
  BY RequestTyped
<1>3. PlanOK(r) /\ PassedOK(r) /\ LearntOK(r) /\ PaidOK(r) /\ ToldOK(r)
  BY DEF RequestOK
<1>4. /\ q.stage \in Inside => r \notin effects
      /\ (q.target \in Protected /\ q.stage \in Inside /\ q.todo = <<>>) => Entitled(r)
      /\ (q.target \in Limited /\ q.stage \in Inside /\ q.todo = <<>>) => r \in charged
  BY <1>3, ThroughIsEntitled DEF PlanOK, PassedOK, Answered, Inside, RequestOK
<1>5. {401, 403, 404, 409, 422, 429, 500, 503, 200, 201} \subseteq Statuses
      /\ {"ready", "handling", "querying", "counted", "depends"} \subseteq Stages
  BY DEF Statuses, Stages
<1>6. CASE RateLimit(r)
  <2>1. /\ q.stage = "depends" /\ q.todo # <<>> /\ Head(q.todo) = "rate_limited"
        /\ effects' = effects
    BY <1>6 DEF RateLimit, Depends, InStage
  <2>2. /\ q.todo \in Plans(q.target)
        /\ \/ q.target = "search" /\ q.todo = Limit /\ Tail(q.todo) = <<>>
           \/ q.target = "reserve" /\ q.todo = LimitCheck /\ Tail(q.todo) = Check
    BY <2>1, <1>2, <1>3, NextDependency DEF PlanOK, Inside
  <2>3. CASE Answer(r, 429) /\ UNCHANGED charged
    <3>1. p.stage = "answered" /\ p.status = 429
      BY <2>3, <1>5, Replies
    <3>2. q.target \in Limited => r \notin charged
      BY <2>1, <2>2, <1>3, PlansDiffer DEF PassedOK, Inside
    <3> QED
      BY <2>1, <2>3, <3>1, <3>2, <1>4, <1>5, AnswerIsRight DEF Inside
  <2>4. CASE Resolved(r) /\ charged' = charged \cup {r}
    <3>1. /\ p.stage = "depends" /\ p.status = q.status /\ p.todo = Tail(q.todo)
          /\ p.queries = q.queries
      BY <2>1, <2>4, Replies
    <3>2. p.todo \in Plans(p.target)
      BY <3>1, <1>1, <2>2 DEF Plans
    <3>3. PlanOK(r)'
      BY <3>1, <3>2, <2>1, <1>1, <1>3 DEF PlanOK, Answered, Inside
    <3>4. PassedOK(r)'
      BY <3>1, <2>2, <2>4, <1>1, PlansDiffer DEF PassedOK, Protected
    <3> QED
      BY <3>1, <3>3, <3>4, <2>1, <1>4
      DEF RequestOK, LearntOK, PaidOK, ToldOK, Answered, Inside
  <2> QED
    BY <1>6, <2>3, <2>4 DEF RateLimit
<1>7. CASE GetPrincipal(r)
  <2>1. /\ q.stage = "depends" /\ q.todo # <<>> /\ Head(q.todo) = "get_principal"
        /\ effects' = effects /\ charged' = charged /\ issued' = issued
    BY <1>7 DEF GetPrincipal, Depends, InStage
  <2>2. /\ q.todo \in Plans(q.target)
        /\ \/ /\ q.target \in {"reserve", "release"}
              /\ q.todo = Check /\ Tail(q.todo) = <<>>
           \/ q.target = "admin_list" /\ q.todo = CheckAdmin /\ Tail(q.todo) = AdminOnly
    BY <2>1, <1>2, <1>3, NextDependency DEF PlanOK, Inside
  <2>3. q.target \in Limited => r \in charged
    BY <2>1, <2>2, <1>3 DEF PassedOK, Inside, Limited
  <2>4. CASE Answer(r, 401)
    <3>1. p.stage = "answered" /\ p.status = 401
      BY <2>4, <1>5, Replies
    <3> QED
      BY <2>1, <2>3, <3>1, <1>4, <1>5, AnswerIsRight DEF Inside
  <2>5. CASE Decodes(q.token) /\ Resolved(r)
    <3>1. /\ p.stage = "depends" /\ p.status = q.status /\ p.todo = Tail(q.todo)
          /\ p.queries = q.queries
      BY <2>1, <2>5, Replies
    <3>2. p.todo \in Plans(p.target)
      BY <3>1, <1>1, <2>2 DEF Plans
    <3>3. PlanOK(r)'
      BY <3>1, <3>2, <2>1, <1>1, <1>3 DEF PlanOK, Answered, Inside
    <3>4. q.token \in issued /\ q.arrived < q.token.exp * TicksPerSecond
      <4>1. q.token \in issued /\ q.token.exp * TicksPerSecond > now
        BY <2>5 DEF Decodes
      <4>2. q.token.exp \in Nat /\ now \in Nat /\ q.arrived \in Nat /\ q.arrived <= now
        BY <4>1, <2>1, <1>3, RequestTyped DEF PlanOK, TypeOK, Tokens
      <4>3. q.token.exp * TicksPerSecond \in Int
        BY <4>2, GatewayAssumption
      <4> HIDE DEF q
      <4> QED
        BY <4>1, <4>2, <4>3
    <3>5. PassedOK(r)'
      <4>1. p.target = "admin_list" => p.todo # <<>>
        BY <1>1, <3>1, <2>2, PlansDiffer
      <4>2. p.target \in Limited => r \in charged' /\ p.todo = <<>>
        BY <1>1, <3>1, <2>1, <2>2, <2>3 DEF Limited
      <4> QED
        BY <1>1, <3>4, <4>1, <4>2 DEF PassedOK
    <3> QED
      BY <3>1, <3>3, <3>5, <2>1, <1>4
      DEF RequestOK, LearntOK, PaidOK, ToldOK, Answered, Inside
  <2> QED
    BY <1>7, <2>4, <2>5 DEF GetPrincipal
<1>8. CASE RequireAdmin(r)
  <2>1. /\ q.stage = "depends" /\ q.todo # <<>> /\ Head(q.todo) = "require_admin"
        /\ effects' = effects /\ charged' = charged /\ issued' = issued
    BY <1>8 DEF RequireAdmin, Depends, InStage
  <2>2. q.target = "admin_list" /\ q.todo = AdminOnly /\ Tail(q.todo) = <<>>
    BY <2>1, <1>2, <1>3, NextDependency DEF PlanOK, Inside
  <2>3. CASE Answer(r, 403)
    <3>1. p.stage = "answered" /\ p.status = 403
      BY <2>3, <1>5, Replies
    <3> QED
      BY <2>1, <2>2, <3>1, <1>4, <1>5, AnswerIsRight DEF Inside, Limited
  <2>4. CASE q.token.role = "admin" /\ Resolved(r)
    <3>1. /\ p.stage = "depends" /\ p.status = q.status /\ p.todo = <<>>
          /\ p.queries = q.queries
      BY <2>1, <2>2, <2>4, Replies
    <3>2. PlanOK(r)'
      BY <3>1, <2>1, <1>1, <1>3 DEF PlanOK, Plans, Answered, Inside
    <3>3. q.token \in issued /\ q.arrived < q.token.exp * TicksPerSecond
      BY <2>1, <2>2, <1>3 DEF PassedOK, Inside, Protected
    <3>4. PassedOK(r)'
      BY <1>1, <2>2, <2>4, <3>3 DEF PassedOK, Limited
    <3> QED
      BY <3>1, <3>2, <3>4, <2>1, <1>4
      DEF RequestOK, LearntOK, PaidOK, ToldOK, Answered, Inside
  <2> QED
    BY <1>8, <2>3, <2>4 DEF RequireAdmin
<1>9. CASE Validate(r)
  <2>1. q.stage = "depends" /\ q.todo = <<>> /\ effects' = effects /\ charged' = charged
    BY <1>9 DEF Validate, InStage
  <2>2. CASE Answer(r, 422)
    <3>1. p.stage = "answered" /\ p.status = 422
      BY <2>2, <1>5, Replies
    <3> QED
      BY <2>1, <3>1, <1>4, <1>5, AnswerIsRight DEF Inside
  <2>3. CASE Goto(r, "ready")
    <3>1. /\ p.stage = "ready" /\ p.status = q.status /\ p.todo = q.todo
          /\ p.queries = q.queries
      BY <2>3, <1>5, Replies
    <3> QED
      BY <3>1, <2>1, <1>1, <1>3
      DEF RequestOK, PlanOK, PassedOK, LearntOK, PaidOK, ToldOK, Answered, Inside
  <2> QED
    BY <1>9, <2>2, <2>3 DEF Validate
<1>10. CASE Handle(r)
  <2>1. q.stage = "ready" /\ effects' = effects /\ charged' = charged
    BY <1>10 DEF Handle, InStage
  <2>2. q.todo = <<>>
    BY <2>1, <1>3 DEF PlanOK
  <2>3. CASE Goto(r, "handling")
    <3>1. /\ p.stage = "handling" /\ p.status = q.status /\ p.todo = q.todo
          /\ p.queries = q.queries
      BY <2>3, <1>5, Replies
    <3>2. PassedOK(r)'
      BY <3>1, <2>1, <1>1, <1>3 DEF PassedOK, Inside
    <3> QED
      BY <3>1, <3>2, <2>1, <1>1, <1>3
      DEF RequestOK, PlanOK, LearntOK, PaidOK, ToldOK, Answered, Inside
  <2>4. ASSUME Answer(r, 422)
        PROVE  RequestOK(r)'
    <3>1. p.stage = "answered" /\ p.status = 422
      BY <2>4, <1>5, Replies
    <3> QED
      BY <2>1, <2>2, <3>1, <1>4, <1>5, AnswerIsRight DEF Inside
  <2>5. ASSUME Answer(r, 200), q.target \notin Writers
        PROVE  RequestOK(r)'
    <3>1. p.stage = "answered" /\ p.status = 200
      BY <2>5, <1>5, Replies
    <3> QED
      BY <2>1, <2>2, <2>5, <3>1, <1>4, <1>5, AnswerIsRight DEF Inside, Writers
  <2>6. (q.target = "token" \/ Queries(q.target) = 0) => q.target \notin Writers
    BY <1>2, WholePlan DEF Writers
  <2> QED
    BY <1>10, <2>3, <2>4, <2>5, <2>6 DEF Handle
<1>11. ASSUME r \notin effects, q.stage \in {"handling", "querying"},
              DatabaseError(r), charged' = charged,
              Commit(r) \/ UNCHANGED <<effects, reservations>>
       PROVE  RequestOK(r)'
  <2>1. p.stage = "answered" /\ p.status \in {500, 503}
    BY <1>11, <1>5, Replies DEF DatabaseError
  <2>2. q.stage \in Inside /\ q.todo = <<>>
    BY <1>11, <1>3 DEF PlanOK, Inside
  <2>3. /\ p.status \in Statuses /\ p.status \notin 400 .. 499
        /\ p.status \notin {200, 201} /\ p.status # 429
    BY <2>1, <1>5
  <2>4. q.target \in Limited => r \in charged'
    BY <1>11, <2>2, <1>4
  <2>5. q.target = "release" /\ r \in effects' => reservations'[q.id] = "released"
    BY <1>11, <1>3, Commits DEF PlanOK
  <2> QED
    <3>1. q.target \in Protected =>
            \/ Entitled(r)
            \/ p.status \in {401, 403, 429} /\ r \notin effects'
      BY <2>2, <1>4
    <3>2. q.target \in Limited => (r \in charged' <=> p.status # 429)
      BY <2>3, <2>4
    <3>3. /\ p.status = 201 => q.target = "reserve" /\ r \in effects'
          /\ (q.target = "release" /\ (p.status = 200 \/ r \in effects'))
               => reservations'[q.id] = "released"
      BY <2>3, <2>5
    <3>4. p.status \in 400 .. 499 => r \notin effects'
      BY <2>3
    <3>5. q.stage \in Inside /\ p.stage = "answered" /\ p.status \in Statuses
      BY <2>1, <2>2, <2>3
    <3> QED
      BY <3>1, <3>2, <3>3, <3>4, <3>5, AnswerIsRight
<1>12. CASE PoolTimeout(r)
  <2>1. /\ q.stage = "handling" /\ DatabaseError(r) /\ charged' = charged
        /\ UNCHANGED <<effects, reservations>>
    BY <1>12 DEF PoolTimeout, InStage
  <2> QED
    BY <2>1, <1>4, <1>11 DEF Inside
<1>13. CASE QueryFails(r)
  <2>1. /\ q.stage = "querying" /\ DatabaseError(r) /\ charged' = charged
        /\ Commit(r) \/ UNCHANGED <<effects, reservations>>
    BY <1>13 DEF QueryFails, InStage
  <2> QED
    BY <2>1, <1>4, <1>11 DEF Inside
<1>14. CASE Connect(r)
  <2>1. q.stage = "handling" /\ effects' = effects /\ charged' = charged
    BY <1>14 DEF Connect, InStage
  <2>2. /\ p.stage = "querying" /\ p.status = q.status /\ p.todo = q.todo
        /\ p.queries = q.queries
    BY <1>14, <1>5, Replies DEF Connect
  <2>3. PassedOK(r)'
    BY <2>1, <2>2, <1>1, <1>3 DEF PassedOK, Inside
  <2> QED
    BY <2>1, <2>2, <2>3, <1>1, <1>3
    DEF RequestOK, PlanOK, LearntOK, PaidOK, ToldOK, Answered, Inside
<1>15. CASE QuerySucceeds(r)
  <2>1. q.stage = "querying" /\ q.todo = <<>> /\ charged' = charged
    BY <1>15, <1>3 DEF QuerySucceeds, InStage, PlanOK
  <2>2. /\ q.target \in Writers => q.queries = 1
        /\ q.target \notin Writers => r \notin effects'
        /\ q.target = "reserve" => r \in effects'
        /\ q.target = "release" => reservations'[q.id] = "released"
    BY <1>15, <2>1, <1>3, <1>4, Commits DEF QuerySucceeds, Found, PlanOK, Inside
  <2>3. CASE q.queries > 1
    <3>1. /\ p.stage = "handling" /\ p.status = q.status /\ p.todo = q.todo
      BY <1>15, <2>3, RequestTyped DEF QuerySucceeds, TypeOK, RequestRecords
    <3>2. q.target \notin Writers
      BY <2>2, <2>3
    <3>3. PassedOK(r)'
      BY <2>1, <3>1, <1>1, <1>3 DEF PassedOK, Inside
    <3> QED
      BY <2>1, <2>2, <3>1, <3>2, <3>3, <1>1, <1>3
      DEF RequestOK, PlanOK, LearntOK, PaidOK, ToldOK, Answered, Inside
  <2>4. CASE ~(q.queries > 1)
    <3>1. p.stage = "answered" /\ p.status = Success(q.target)
      BY <1>15, <2>4, <1>2, RepliesTyped, Replies DEF QuerySucceeds
    <3>2. /\ p.status \in {200, 201} /\ p.status = 201 => q.target = "reserve"
          /\ p.status \in Statuses /\ p.status \notin 400 .. 499 /\ p.status # 429
      BY <3>1, <1>5 DEF Success
    <3>3. q.stage \in Inside
      BY <2>1 DEF Inside
    <3>4. q.target \in Limited => r \in charged'
      BY <2>1, <3>3, <1>4
    <3>5. q.target \in Protected => Entitled(r)
      BY <2>1, <3>3, <1>4
    <3> QED
      BY <2>2, <3>1, <3>2, <3>3, <3>4, <3>5, AnswerIsRight
  <2> QED
    BY <2>3, <2>4
<1>16. CASE QueryRefuses(r)
  <2>1. /\ q.stage = "querying" /\ q.todo = <<>>
        /\ effects' = effects /\ charged' = charged
    BY <1>16, <1>3 DEF QueryRefuses, InStage, PlanOK
  <2>2. PICK status \in Refusals(q.target) : Answer(r, status)
    BY <1>16 DEF QueryRefuses
  <2>3. status \in {404, 409}
    BY <2>2 DEF Refusals
  <2>4. p.stage = "answered" /\ p.status \in {404, 409}
    BY <2>2, <2>3, <1>5, Replies
  <2> QED
    BY <2>1, <2>4, <1>4, <1>5, AnswerIsRight DEF Inside
<1>17. ASSUME Answered(r), Answered(r)', p.status = q.status,
              effects' = effects, charged' = charged, reservations' = reservations
       PROVE  RequestOK(r)'
  <2>1. p.stage \notin Inside /\ p.stage # "new" /\ q.stage # "new"
    BY <1>17 DEF Answered, Inside
  <2>2. PlanOK(r)' /\ PassedOK(r)'
    BY <1>17, <2>1, <1>1, <1>3 DEF PlanOK, PassedOK, Inside
  <2>3. LearntOK(r)' /\ PaidOK(r)' /\ ToldOK(r)'
    BY <1>17, <1>1, <1>3 DEF LearntOK, PaidOK, ToldOK, Entitled
  <2> QED
    BY <2>2, <2>3 DEF RequestOK
<1>18. CASE Count(r)
  <2>1. p.stage = "counted" /\ p.status = q.status
    BY <1>18, <1>5, Replies DEF Count
  <2> QED
    BY <1>17, <1>18, <2>1 DEF Count, InStage, Answered
<1>19. CASE Deliver(r)
  <2>1. p.stage = "done" /\ p.status = q.status
    BY <1>19 DEF Deliver, TypeOK, RequestRecords
  <2> QED
    BY <1>17, <1>19, <2>1 DEF Deliver, InStage, Answered
<1> QED
  BY <1>6, <1>7, <1>8, <1>9, <1>10, <1>12, <1>13, <1>14, <1>15, <1>16, <1>18, <1>19
  DEF Advance

\* A request that arrives is refused for its form or starts on its plan.
LEMMA Received ==
  ASSUME TypeOK, TypeOK', NEW r \in Requests, RequestOK(r),
         NEW target \in Asked, NEW token, NEW input \in Inputs(target),
         NEW id \in Named(target), Arrive(r, target, token, input, id)
  PROVE  RequestOK(r)'
<1> DEFINE p == request'[r]
<1>1. /\ target \in Targets
      /\ r \notin charged /\ r \notin charged' /\ r \notin effects'
      /\ now' = now /\ now \in Nat
  BY GatewayAssumption DEF Arrive, InStage, RequestOK, PlanOK, Answered, TypeOK
<1>2. /\ p.target = target /\ p.input = input /\ p.id = id /\ p.arrived = now
      /\ target = "release" => id \in Ids
      /\ \/ p.stage = "answered" /\ p.status = 404 /\ target \in RawPaths
         \/ p.stage = "answered" /\ p.status = 405 /\ target = "wrong_method"
         \/ p.stage = "answered" /\ p.status = 422 /\ input = "unparsable"
         \/ /\ p.stage = "depends" /\ p.status = NoStatus
            /\ target \notin RawPaths \cup {"wrong_method"} /\ input # "unparsable"
            /\ p.todo = Dependencies(target) /\ p.queries = Queries(target)
  BY DEF Arrive, NewRequest, Named, TypeOK
<1>3. PlanOK(r)'
  BY <1>1, <1>2, WholePlan
  DEF PlanOK, Answered, Inside, Targets, Statuses
<1>4. PassedOK(r)'
  BY <1>1, <1>2, WholePlan DEF PassedOK, Inside, Protected
<1>5. LearntOK(r)' /\ PaidOK(r)' /\ ToldOK(r)'
  BY <1>1, <1>2, GatewayAssumption
  DEF LearntOK, PaidOK, ToldOK, Answered, Protected, Limited, Routes
<1> QED
  BY <1>3, <1>4, <1>5 DEF RequestOK

\* A reservation that is given back was still active, so no other request of its
\* id had given it back.
LEMMA GivenStaysOnce ==
  ASSUME TypeOK, \A r \in Requests : RequestOK(r), GivenOnce, [Next]_vars
  PROVE  GivenOnce'
<1>1. ASSUME \A s \in effects' : s \in effects /\ request'[s] = request[s]
      PROVE  GivenOnce'
  BY <1>1 DEF GivenOnce
<1>2. CASE UNCHANGED vars
  BY <1>2, <1>1 DEF vars
<1>3. CASE Tick
  BY <1>3, <1>1 DEF Tick
<1>4. ASSUME NEW r \in Requests, NEW target \in Asked, NEW input \in Inputs(target),
             NEW token \in Credentials(target), NEW id \in Named(target),
             Arrive(r, target, token, input, id)
      PROVE  GivenOnce'
  <2>1. r \notin effects /\ effects' = effects
    BY <1>4 DEF RequestOK, PlanOK, Answered, Arrive, InStage
  <2>2. \A s \in Requests \ {r} : request'[s] = request[s]
    BY <1>4 DEF Arrive, TypeOK
  <2> QED
    BY <2>1, <2>2, <1>1 DEF TypeOK
<1>5. ASSUME NEW r \in Requests, Advance(r) \/ PoolTimeout(r)
      PROVE  GivenOnce'
  <2>1. /\ \A s \in Requests : /\ request'[s].target = request[s].target
                              /\ request'[s].id = request[s].id
        /\ effects \subseteq Requests
    BY <1>5, Frame DEF TypeOK
  <2>2. CASE effects' \subseteq effects
    BY <2>1, <2>2 DEF GivenOnce
  <2>3. CASE ~(effects' \subseteq effects)
    <3>1. Commit(r)
      BY <1>5, <2>3 DEF Advance, PoolTimeout, RateLimit, GetPrincipal, RequireAdmin,
         Validate, Handle, Connect, QuerySucceeds, QueryRefuses, QueryFails, Count, Deliver
    <3>2. effects' = effects \cup {r} /\ r \notin effects
      BY <2>3, <3>1, Commits
    <3>3. \A s \in Requests : request[s].target = "release" => request[s].id \in Ids
      BY DEF RequestOK, PlanOK
    <3>4. request[r].target = "release" => reservations[request[r].id] = "reserved"
      BY <3>1, <3>2, <3>3, Commits
    <3>5. \A s \in effects : request[s].target = "release" =>
             reservations[request[s].id] = "released"
      BY <2>1 DEF RequestOK, ToldOK
    <3> QED
      BY <2>1, <3>2, <3>4, <3>5 DEF GivenOnce
  <2> QED
    BY <2>2, <2>3
<1> QED
  BY <1>2, <1>3, <1>4, <1>5 DEF Next

\* IInv is preserved by every step.
LEMMA IInvInductive == IInv /\ [Next]_vars => IInv'
<1> SUFFICES ASSUME IInv, [Next]_vars PROVE IInv'
  OBVIOUS
<1>1. TypeOK /\ TypeOK' /\ now \in Int
  BY TypeInductive DEF IInv, TypeOK
<1>2. GivenOnce'
  BY GivenStaysOnce DEF IInv
<1> SUFFICES ASSUME NEW s \in Requests PROVE RequestOK(s)'
  BY <1>1, <1>2 DEF IInv
<1>3. RequestOK(s)
  BY DEF IInv
<1>4. CASE UNCHANGED vars
  BY <1>1, <1>3, <1>4, Unmoved DEF vars
<1>5. CASE Tick
  BY <1>1, <1>3, <1>5, Unmoved DEF Tick
<1>6. ASSUME NEW r \in Requests, NEW target \in Asked, NEW input \in Inputs(target),
             NEW token \in Credentials(target), NEW id \in Named(target),
             Arrive(r, target, token, input, id)
      PROVE  RequestOK(s)'
  <2>1. CASE s = r
    BY <2>1, <1>1, <1>3, <1>6, Received
  <2>2. CASE s # r
    BY <2>2, <1>1, <1>3, <1>6, Unmoved DEF Arrive, TypeOK
  <2> QED
    BY <2>1, <2>2
<1>7. ASSUME NEW r \in Requests, Advance(r) \/ PoolTimeout(r)
      PROVE  RequestOK(s)'
  <2>1. CASE s = r
    BY <2>1, <1>1, <1>3, <1>7, Moved
  <2>2. CASE s # r
    BY <2>2, <1>1, <1>3, <1>7, Frame, Unmoved
  <2> QED
    BY <2>1, <2>2
<1> QED
  BY <1>4, <1>5, <1>6, <1>7 DEF Next

\* IInv holds in every reachable state.
LEMMA Invariance == Spec => []IInv
<1>1. ASSUME Init, NEW r \in Requests PROVE RequestOK(r)
  BY <1>1 DEF Init, NewRequest, RequestOK, PlanOK, PassedOK, LearntOK, PaidOK, ToldOK,
              Answered, Inside, NoStatus
<1>2. Init => IInv
  BY InitTyped, <1>1 DEF IInv, GivenOnce, Init
<1> QED
  BY <1>2, IInvInductive, PTL DEF Spec

-----------------------------------------------------------------------------
(* Theorems *)

\* A protected route tells a request without a usable token nothing and does
\* nothing for it, however long the request waits between its dependencies.
THEOREM OnlyTheEntitledPass == Spec => []OnlyTheEntitled
<1>1. IInv => OnlyTheEntitled
  BY DEF IInv, RequestOK, LearntOK, OnlyTheEntitled
<1> QED
  BY <1>1, Invariance, PTL

\* A limited route charges its bucket for every request it does not refuse.
THEOREM AttemptsAreCharged == Spec => []EveryAttemptIsCharged
<1>1. IInv => EveryAttemptIsCharged
  BY DEF IInv, RequestOK, PaidOK, EveryAttemptIsCharged
<1> QED
  BY <1>1, Invariance, PTL

\* A refusal has written nothing, a 201 has made a reservation, a release that
\* is answered 200 leaves its reservation given back, and however often a release
\* is repeated or its answer lost, one request at most has given it back.
THEOREM StatusesTellEffects == Spec => []EffectsMatchStatus
<1>1. IInv => EffectsMatchStatus
  BY DEF IInv, RequestOK, ToldOK, GivenOnce, EffectsMatchStatus
<1> QED
  BY <1>1, Invariance, PTL

-----------------------------------------------------------------------------
(* How long a token lives *)

\* Every token expires Ttl seconds after the second it was born in.
TokensOK ==
  \A token \in issued : token.exp = (token.born \div TicksPerSecond) + Ttl

\* Whatever the clock does, issued tokens are as NewToken made them.
LEMMA TokensInvariant == Spec => []TokensOK
<1>1. Init => TokensOK
  BY DEF Init, TokensOK, NewToken
<1>2. TokensOK /\ [Next]_vars => TokensOK'
  <2> SUFFICES ASSUME TokensOK, [Next]_vars, issued' # issued PROVE TokensOK'
    BY DEF TokensOK
  <2>1. PICK r \in Requests : Handle(r)
    <3>1. Tick => issued' = issued
      BY DEF Tick
    <3>2. ASSUME NEW r \in Requests, NEW target \in Asked, NEW input \in Inputs(target),
                 NEW token \in Credentials(target), NEW id \in Named(target)
          PROVE  Arrive(r, target, token, input, id) => issued' = issued
      BY DEF Arrive
    <3>3. ASSUME NEW r \in Requests
          PROVE  PoolTimeout(r) => issued' = issued
      BY DEF PoolTimeout
    <3>4. ASSUME NEW r \in Requests, ~Handle(r)
          PROVE  Advance(r) => issued' = issued
      BY <3>4 DEF Advance, RateLimit, GetPrincipal, RequireAdmin, Validate, Connect,
         QuerySucceeds, QueryRefuses, QueryFails, Count, Deliver
    <3>5. UNCHANGED vars => issued' = issued
      BY DEF vars
    <3> QED
      BY <3>1, <3>2, <3>3, <3>4, <3>5 DEF Next
  <2>2. PICK role \in Roles : issued' = issued \cup {NewToken(role)}
    BY <2>1 DEF Handle
  <2> QED
    BY <2>2 DEF TokensOK, NewToken
<1> QED
  BY <1>1, <1>2, PTL DEF Spec

\* Rounding down to whole seconds loses less than a second.
LEMMA WholeSeconds ==
  ASSUME NEW b \in Nat
  PROVE  LET s == b \div TicksPerSecond IN
         /\ s \in Nat
         /\ s * TicksPerSecond <= b /\ b < s * TicksPerSecond + TicksPerSecond
<1> TicksPerSecond \in Nat /\ TicksPerSecond > 0
  BY GatewayAssumption
<1> QED
  BY SMT

\* A token decodes while it is Ttl - 1 seconds old and not when it is Ttl.
LEMMA TokenAge ==
  ASSUME TypeOK, TokensOK, NEW token \in issued
  PROVE  /\ now - token.born <= (Ttl - 1) * TicksPerSecond => Decodes(token)
         /\ now - token.born >= Ttl * TicksPerSecond => ~Decodes(token)
<1> DEFINE s == token.born \div TicksPerSecond
           T == TicksPerSecond
<1>1. token.born \in Nat /\ token.exp = s + Ttl /\ now \in Nat
  BY DEF TypeOK, TokensOK, Tokens
<1>2. s \in Nat /\ s * T <= token.born /\ token.born < s * T + T
  BY <1>1, WholeSeconds
<1>3. T \in Nat /\ Ttl \in Nat
  BY GatewayAssumption
<1> HIDE DEF s, T
<1>4. /\ (s + Ttl) * T = s * T + Ttl * T
      /\ (Ttl - 1) * T = Ttl * T - T
      /\ s * T \in Int /\ Ttl * T \in Int
  BY <1>2, <1>3
<1>5. Decodes(token) <=> token.exp * T > now
  BY DEF Decodes, T
<1>6. Decodes(token) <=> s * T + Ttl * T > now
  BY <1>1, <1>4, <1>5
<1> DEFINE x == s * T
           y == Ttl * T
<1>7. x \in Int /\ y \in Int /\ x <= token.born /\ token.born < x + T
  BY <1>2, <1>4
<1>8. /\ now - token.born <= y - T => x + y > now
      /\ now - token.born >= y => ~(x + y > now)
  <2> HIDE DEF x, y
  <2> QED
    BY <1>1, <1>3, <1>7
<1>9. /\ now - token.born <= (Ttl - 1) * T => Decodes(token)
      /\ now - token.born >= Ttl * T => ~Decodes(token)
  BY <1>4, <1>6, <1>8
<1> QED
  BY <1>9 DEF T

\* A token is accepted for at least Ttl - 1 seconds and never from Ttl seconds on.
THEOREM TokensLive == Spec => TokensLiveTheirTime
<1>1. ASSUME IInv, TokensOK, [Next]_vars, NEW r \in Requests,
             request[r].token \in issued, Depends(r, "get_principal"),
             request'[r] # request[r]
      PROVE  /\ now - request[r].token.born <= (Ttl - 1) * TicksPerSecond
                  => request'[r].status # 401
             /\ now - request[r].token.born >= Ttl * TicksPerSecond
                  => request'[r].status = 401
  <2>1. /\ request[r].stage = "depends" /\ request[r].todo # <<>>
        /\ Head(request[r].todo) = "get_principal"
    BY <1>1 DEF Depends, InStage
  <2>2. TypeOK /\ RequestOK(r)
    BY <1>1 DEF IInv
  <2>3. ~UNCHANGED request
    BY <1>1
  <2>4. PICK s \in Requests :
          \/ Advance(s) \/ PoolTimeout(s)
          \/ \E target \in Asked : \E input \in Inputs(target) :
               \E token \in Credentials(target) : \E id \in Named(target) :
                 Arrive(s, target, token, input, id)
    BY <1>1, <2>3 DEF Next, vars, Tick
  <2>5. s = r
    <3>1. CASE Advance(s) \/ PoolTimeout(s)
      BY <1>1, <2>2, <3>1, Frame
    <3>2. CASE \E target \in Asked : \E input \in Inputs(target) :
                 \E token \in Credentials(target) : \E id \in Named(target) :
                   Arrive(s, target, token, input, id)
      <4>1. request[s].stage = "new" /\ \A o \in Requests \ {s} : request'[o] = request[o]
        BY <2>2, <3>2 DEF Arrive, InStage, TypeOK
      <4> QED
        BY <1>1, <4>1
    <3> QED
      BY <2>4, <3>1, <3>2
  <2>6. GetPrincipal(r)
    <3>1. ~(\E target \in Asked : \E input \in Inputs(target) :
               \E token \in Credentials(target) : \E id \in Named(target) :
                 Arrive(r, target, token, input, id))
      BY <2>1 DEF Arrive, InStage
    <3>2. /\ ~PoolTimeout(r) /\ ~Handle(r) /\ ~Connect(r) /\ ~QuerySucceeds(r)
          /\ ~QueryRefuses(r) /\ ~QueryFails(r) /\ ~Count(r) /\ ~Deliver(r)
      BY <2>1 DEF PoolTimeout, Handle, Connect, QuerySucceeds, QueryRefuses, QueryFails,
         Count, Deliver, InStage
    <3>3. ~Validate(r) /\ ~RateLimit(r) /\ ~RequireAdmin(r)
      BY <2>1 DEF Validate, RateLimit, RequireAdmin, Depends
    <3>4. Advance(r)
      BY <2>4, <2>5, <3>1, <3>2
    <3> QED
      BY <3>2, <3>3, <3>4 DEF Advance
  <2>7. request[r].status = NoStatus /\ request[r].token.role \in Roles
    BY <1>1, <2>1, <2>2 DEF RequestOK, PlanOK, Answered, TypeOK, Tokens
  <2>8. CASE Decodes(request[r].token)
    <3>1. Resolved(r)
      BY <2>6, <2>7, <2>8 DEF GetPrincipal
    <3>2. request'[r].status = NoStatus
      BY <3>1, <2>2, <2>7, Replies
    <3> QED
      BY <1>1, <2>2, <2>8, <3>2, TokenAge DEF NoStatus
  <2>9. CASE ~Decodes(request[r].token)
    <3>1. Answer(r, 401) /\ 401 \in Statuses
      BY <2>6, <2>9 DEF GetPrincipal, Statuses
    <3>2. request'[r].status = 401
      BY <3>1, <2>2, Replies
    <3> QED
      BY <1>1, <2>2, <2>9, <3>2, TokenAge
  <2> QED
    BY <2>8, <2>9
<1>2. IInv /\ TokensOK /\ [Next]_vars =>
        [\A r \in Requests :
           LET age == now - request[r].token.born IN
           (/\ request[r].token \in issued
            /\ Depends(r, "get_principal")
            /\ request'[r] # request[r])
           => /\ age <= (Ttl - 1) * TicksPerSecond => request'[r].status # 401
              /\ age >= Ttl * TicksPerSecond => request'[r].status = 401]_vars
  BY <1>1
<1> QED
  BY <1>2, Invariance, TokensInvariant, PTL DEF Spec, TokensLiveTheirTime

-----------------------------------------------------------------------------
(* What is counted *)

LabelOf(r) == <<PathLabel(request[r].target), request[r].status>>

Counted(l) ==
  {r \in Requests : request[r].stage \in {"counted", "done"} /\ LabelOf(r) = l}

\* Only the middleware moves a request among those that were counted.
LEMMA OnlyCountCounts ==
  ASSUME TypeOK, TypeOK', NEW r \in Requests, Advance(r) \/ PoolTimeout(r), ~Count(r)
  PROVE  \A l : Counted(l)' = Counted(l) /\ requests_total' = requests_total
<1>1. request[r].stage \in {"counted", "done"} <=> request'[r].stage \in {"counted", "done"}
  <2>1. CASE Deliver(r)
    BY <2>1 DEF Deliver, InStage, TypeOK, RequestRecords
  <2>2. CASE ~Deliver(r)
    <3>1. request[r].stage \in {"depends", "ready", "handling", "querying"}
      BY <2>2 DEF Advance, PoolTimeout, RateLimit, GetPrincipal, RequireAdmin, Validate,
                  Handle, Connect, QuerySucceeds, QueryRefuses, QueryFails, Depends, InStage
    <3>2. request'[r].stage \notin {"counted", "done"}
      <4> USE <3>1 DEF TypeOK, RequestRecords, Answer, Raise, Goto, Resolved, DatabaseError
      <4>1. CASE RateLimit(r) \/ GetPrincipal(r) \/ RequireAdmin(r)
        <5>1. \/ Resolved(r) /\ request[r].stage = "depends"
              \/ \E status : Answer(r, status)
          BY <4>1 DEF RateLimit, GetPrincipal, RequireAdmin, Depends, InStage
        <5>2. CASE Resolved(r) /\ request[r].stage = "depends"
          BY <5>2
        <5>3. CASE \E status : Answer(r, status)
          BY <5>3
        <5> QED
          BY <5>1, <5>2, <5>3
      <4>2. CASE Validate(r) \/ Handle(r) \/ Connect(r)
        BY <4>2 DEF Validate, Handle, Connect
      <4>3. CASE QuerySucceeds(r)
        BY <4>3 DEF QuerySucceeds
      <4>4. CASE QueryRefuses(r)
        <5>1. PICK status : Answer(r, status)
          BY <4>4 DEF QueryRefuses
        <5>2. request'[r].stage = "answered"
          BY <5>1
        <5> QED
          BY <5>2
      <4>5. CASE QueryFails(r) \/ PoolTimeout(r)
        BY <4>5 DEF QueryFails, PoolTimeout
      <4> QED
        BY <2>2, <4>1, <4>2, <4>3, <4>4, <4>5 DEF Advance
    <3> QED
      BY <3>1, <3>2
  <2> QED
    BY <2>1, <2>2
<1>2. request[r].stage \in {"counted", "done"} => LabelOf(r)' = LabelOf(r)
  <2>1. request[r].stage \in {"counted", "done"} => Deliver(r)
    BY DEF Advance, PoolTimeout, RateLimit, GetPrincipal, RequireAdmin, Validate,
           Handle, Connect, QuerySucceeds, QueryRefuses, QueryFails, Depends, InStage
  <2>2. Deliver(r) => request'[r].status = request[r].status
    BY DEF Deliver, TypeOK, RequestRecords
  <2> QED
    BY <2>1, <2>2, Frame DEF LabelOf
<1>3. \A s \in Requests \ {r} : request'[s] = request[s]
  BY Frame
<1>4. requests_total' = requests_total
  BY DEF Advance, PoolTimeout, RateLimit, GetPrincipal, RequireAdmin, Validate, Handle,
         Connect, QuerySucceeds, QueryRefuses, QueryFails, Deliver
<1>5. ASSUME NEW l, NEW s \in Requests
      PROVE  s \in Counted(l)' <=> s \in Counted(l)
  BY <1>1, <1>2, <1>3 DEF Counted, LabelOf
<1> QED
  BY <1>4, <1>5 DEF Counted

\* Counting one more request adds it to the set of its label and to no other.
LEMMA CountAddsOne ==
  ASSUME TypeOK, NEW r \in Requests, RequestOK(r), Count(r)
  PROVE  /\ LabelOf(r) \in Labels
         /\ r \notin Counted(LabelOf(r))
         /\ \A l : Counted(l)' = IF l = LabelOf(r) THEN Counted(l) \cup {r} ELSE Counted(l)
         /\ requests_total' = [requests_total EXCEPT ![LabelOf(r)] = @ + 1]
<1>1. request[r].stage = "answered" /\ request[r].status \in Statuses
  BY DEF Count, InStage, RequestOK, PlanOK, Answered
<1>2. /\ request'[r].stage = "counted" /\ request'[r].status = request[r].status
      /\ request'[r].target = request[r].target
      /\ \A s \in Requests \ {r} : request'[s] = request[s]
  BY DEF Count, Goto, TypeOK, RequestRecords
<1>3. PathLabel(request[r].target) \in Routes \cup RawPaths
  BY RequestTyped DEF PathLabel, Targets, Routes
<1>4. LabelOf(r)' = LabelOf(r)
  BY <1>2 DEF LabelOf
<1>5. ASSUME NEW l, NEW s \in Requests
      PROVE  s \in Counted(l)' <=> s \in Counted(l) \/ (s = r /\ l = LabelOf(r))
  BY <1>1, <1>2, <1>4 DEF Counted, LabelOf
<1> QED
  BY <1>1, <1>3, <1>5 DEF Counted, LabelOf, Labels, Count

\* Every request that passed the middleware is counted once, under the status
\* its client gets, exceptions included.
THEOREM CountersAreAnswers == Spec => []CountsMatchAnswers
<1> DEFINE Match == \A l \in Labels : requests_total[l] = Cardinality(Counted(l))
<1>1. Init => Match
  <2> SUFFICES ASSUME Init, NEW l \in Labels PROVE requests_total[l] = Cardinality(Counted(l))
    OBVIOUS
  <2>1. Counted(l) = {}
    BY DEF Init, Counted, NewRequest
  <2> QED
    BY <2>1, FS_EmptySet DEF Init
<1>2. IInv /\ IInv' /\ Match /\ [Next]_vars => Match'
  <2> SUFFICES ASSUME IInv, IInv', Match, [Next]_vars, NEW l \in Labels
               PROVE  requests_total'[l] = Cardinality(Counted(l)')
    OBVIOUS
  <2>1. TypeOK /\ TypeOK' /\ requests_total[l] = Cardinality(Counted(l))
    BY DEF IInv
  <2>2. CASE UNCHANGED <<request, requests_total>>
    BY <2>1, <2>2 DEF Counted, LabelOf
  <2>3. ASSUME NEW r \in Requests, NEW target \in Asked, NEW input \in Inputs(target),
               NEW token \in Credentials(target), NEW id \in Named(target),
               Arrive(r, target, token, input, id)
        PROVE  Counted(l)' = Counted(l) /\ requests_total' = requests_total
    <3>1. /\ request[r].stage = "new" /\ request'[r].stage \in {"answered", "depends"}
          /\ \A s \in Requests \ {r} : request'[s] = request[s]
          /\ requests_total' = requests_total
      BY <2>3, <2>1 DEF Arrive, InStage, TypeOK, NewRequest
    <3> QED
      BY <3>1 DEF Counted, LabelOf
  <2>4. ASSUME NEW r \in Requests, Advance(r) \/ PoolTimeout(r), ~Count(r)
        PROVE  Counted(l)' = Counted(l) /\ requests_total' = requests_total
    BY <2>1, <2>4, OnlyCountCounts
  <2>5. ASSUME NEW r \in Requests, Count(r)
        PROVE  requests_total'[l] = Cardinality(Counted(l)')
    <3>1. RequestOK(r)
      BY DEF IInv
    <3>2. IsFiniteSet(Counted(l))
      BY GatewayAssumption, FS_Subset DEF Counted
    <3>3. CASE l = LabelOf(r)
      <4>1. Counted(l)' = Counted(l) \cup {r} /\ r \notin Counted(l)
        BY <2>1, <2>5, <3>1, <3>3, CountAddsOne
      <4>2. requests_total'[l] = requests_total[l] + 1
        BY <2>1, <2>5, <3>1, <3>3, CountAddsOne DEF TypeOK
      <4> QED
        BY <2>1, <3>2, <4>1, <4>2, FS_AddElement
    <3>4. CASE l # LabelOf(r)
      <4>1. Counted(l)' = Counted(l) /\ requests_total'[l] = requests_total[l]
        BY <2>1, <2>5, <3>1, <3>4, CountAddsOne DEF TypeOK
      <4> QED
        BY <2>1, <4>1
    <3> QED
      BY <3>3, <3>4
  <2> QED
    BY <2>1, <2>2, <2>3, <2>4, <2>5 DEF Next, vars, Tick
<1>3. Match => CountsMatchAnswers
  BY DEF CountsMatchAnswers, Counted, LabelOf
<1> HIDE DEF Match
<1> QED
  BY <1>1, <1>2, <1>3, Invariance, PTL DEF Spec
=============================================================================
