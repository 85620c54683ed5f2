------------------------------ MODULE Gateway -------------------------------
(***************************************************************************)
(* The HTTP gateway (api/, security/auth.py, observability/): what happens *)
(* to a request between the socket and the handler, and on the way back.   *)
(*                                                                         *)
(* Routing, body parsing, validation and the middlewares run on the event  *)
(* loop.  Dependencies and handlers are plain def functions: each call     *)
(* takes a thread of the thread pool, and a handler that queries also      *)
(* takes a connection of the connection pool while it has the thread.      *)
(*                                                                         *)
(* What the limiter decides is left open here (RateLimiter), and so is     *)
(* whether reserve() finds stock (Reservations).  The database and the     *)
(* secret that signs tokens outlive the process and are shared with others *)
(* of its kind: a gateway starts with reservations and tokens around.      *)
(***************************************************************************)
EXTENDS Integers, Sequences, FiniteSets

CONSTANTS
  Requests,         \* the requests that may be sent
  Asked,            \* targets the clients ask for
  RawPaths,         \* paths no route matches
  Ids,              \* reservation ids a client may name, in use or not
  Threads,          \* size of the thread pool
  PoolSize,         \* max_size of the connection pool
  TicksPerSecond,   \* resolution of time.time() in the model
  Ttl,              \* jwt_ttl_seconds
  Holders,          \* roles that somebody has a token for at the start
  MaxTime           \* bound: the clock stops here

Routes == {"token", "health", "ready", "metrics", "search", "product",
           "availability", "reserve", "release", "admin_list"}
Targets == Routes \cup RawPaths \cup {"wrong_method"}

ASSUME GatewayAssumption ==
  /\ IsFiniteSet(Requests)
  /\ Asked \subseteq Targets
  /\ RawPaths \cap (Routes \cup {"wrong_method"}) = {}
  /\ Ids \subseteq Nat \ {0}
  /\ Threads \in Nat \ {0}
  /\ PoolSize \in Nat \ {0}
  /\ TicksPerSecond \in Nat \ {0}
  /\ Ttl \in Nat \ {0}
  /\ Holders \subseteq {"buyer", "admin"}
  /\ MaxTime \in Nat

VARIABLES
  now,              \* time.time(), in ticks
  issued,           \* tokens issued so far
  request,          \* where each request is, and what it carries
  requests_total,   \* the counter, by path and status
  reservations,     \* the status of each reservation, "none" for an unused id
  charged,          \* history: requests a limiter took a token for
  effects           \* history: requests whose writes were committed

vars == <<now, issued, request, requests_total, reservations, charged, effects>>

-----------------------------------------------------------------------------
(* Routes *)

Roles == {"buyer", "admin"}
Writers == {"reserve", "release"}
Limited == {"search", "reserve"}
Protected == {"reserve", "release", "admin_list"}

\* Mutant: the limiter is listed after the principal it should protect.
DependenciesLimitedLate(route) ==
  CASE route = "search" -> <<"rate_limited">>
    [] route = "reserve" -> <<"get_principal", "rate_limited">>
    [] route = "release" -> <<"get_principal">>
    [] route = "admin_list" -> <<"get_principal", "require_admin">>
    [] OTHER -> <<>>

\* What a route depends on, in the order it is resolved: the decorator's
\* dependencies before the parameters', a dependency's own before itself.
Dependencies(route) ==
  CASE route = "search" -> <<"rate_limited">>
    [] route = "reserve" -> <<"rate_limited", "get_principal">>
    [] route = "release" -> <<"get_principal">>
    [] route = "admin_list" -> <<"get_principal", "require_admin">>
    [] OTHER -> <<>>

\* Connections a handler takes, one after the other.
Queries(route) ==
  CASE route \in {"token", "health", "metrics"} -> 0
    [] route = "availability" -> 2
    [] OTHER -> 1

\* What may be wrong with the input: a body that is not JSON, a value outside
\* the declared bounds, an attribute filter without its colon.
Inputs(target) ==
  {"good"}
  \cup (IF target \in {"token", "reserve"} THEN {"unparsable"} ELSE {})
  \cup (IF target \in Routes \ {"health", "ready", "metrics"} THEN {"invalid"} ELSE {})
  \cup (IF target = "search" THEN {"malformed"} ELSE {})

\* Statuses of the domain errors and HTTPExceptions a handler raises on what
\* it reads.
Refusals(route) ==
  CASE route \in {"product", "availability", "release"} -> {404}
    [] route = "reserve" -> {404, 409}
    [] OTHER -> {}

\* The id in the path of DELETE /reservations/{reservation_id}.
NoId == 0
Named(target) == IF target = "release" THEN Ids ELSE {NoId}

Success(route) == IF route = "reserve" THEN 201 ELSE 200

-----------------------------------------------------------------------------
(* Tokens *)

Tokens == [role : Roles, born : 0 .. MaxTime, exp : Nat]
NoCredentials == [role |-> "none", born |-> 0, exp |-> 0]
Forged == [role |-> "forged", born |-> 0, exp |-> 0]

\* Mutant: the role claim is left out.
NewTokenWithoutRole(role) ==
  [role |-> "none", born |-> now, exp |-> now \div TicksPerSecond + Ttl]

\* issue_token: whole seconds, so a token is born up to a second old.  (born
\* is not in the token; the model keeps it to speak about its age.)
NewToken(role) ==
  [role |-> role, born |-> now, exp |-> now \div TicksPerSecond + Ttl]

\* Mutant: exp < now, a token is still good in the instant it expires.
DecodesAtExpiry(token) ==
  token \in issued /\ token.exp * TicksPerSecond >= now

\* Mutant: decoding without verifying the expiry.
DecodesEver(token) == token \in issued

\* What a client may present; only protected routes look at it.
Credentials(target) ==
  IF target \in Protected THEN issued \cup {NoCredentials, Forged} ELSE {NoCredentials}

\* decode_token: the signature is the service's and exp has not been reached.
Decodes(token) == token \in issued /\ token.exp * TicksPerSecond > now

-----------------------------------------------------------------------------
(* Requests *)

Stages == {"new", "depends", "ready", "handling", "querying",
           "answered", "counted", "done"}
NoStatus == 0
Statuses == {200, 201, 401, 403, 404, 405, 409, 422, 429, 500, 503}
Labels == (Routes \cup RawPaths) \X Statuses

\* todo: dependencies not resolved yet; queries: connections still to be taken;
\* raised: an exception no handler is registered for is on its way out;
\* enveloped: whether the client got the envelope.
RequestRecords ==
  [stage : Stages, target : Targets,
   token : Tokens \cup {NoCredentials, Forged},
   input : {"good", "unparsable", "invalid", "malformed"},
   id : Ids \cup {NoId}, arrived : 0 .. MaxTime,
   todo : Seq({"rate_limited", "get_principal", "require_admin"}),
   queries : 0 .. 2, status : Statuses \cup {NoStatus},
   raised : BOOLEAN, enveloped : BOOLEAN]

NewRequest ==
  [stage |-> "new", target |-> "health", token |-> NoCredentials,
   input |-> "good", id |-> NoId, arrived |-> 0, todo |-> <<>>,
   queries |-> 0, status |-> NoStatus, raised |-> FALSE, enveloped |-> FALSE]

InStage(r, stage) == request[r].stage = stage

\* Threads and connections in use.
OnThread == {r \in Requests : request[r].stage \in {"handling", "querying"}}

\* Mutant: an exception takes its connection with it.
OnConnectionLeaked == {r \in Requests : InStage(r, "querying") \/ request[r].raised}

OnConnection == {r \in Requests : InStage(r, "querying")}

FreeThread == Cardinality(OnThread) < Threads

Goto(r, stage) == request' = [request EXCEPT ![r].stage = stage]

\* A response is ready, or a registered handler turned the exception into one.
Answer(r, status) ==
  request' = [request EXCEPT ![r].stage = "answered", ![r].status = status]

\* Any other exception leaves through the middlewares.
Raise(r) ==
  request' = [request EXCEPT ![r].stage = "answered", ![r].status = 500,
                             ![r].raised = TRUE]

Init ==
  /\ now = 0
  /\ issued = {NewToken(role) : role \in Holders}
  /\ request = [r \in Requests |-> NewRequest]
  /\ requests_total = [l \in Labels |-> 0]
  /\ reservations \in [Ids -> {"none", "reserved", "released"}]
  /\ charged = {}
  /\ effects = {}

Tick ==
  /\ now < MaxTime
  /\ now' = now + 1
  /\ UNCHANGED <<issued, request, requests_total, reservations, charged, effects>>

-----------------------------------------------------------------------------
(* On the way in *)

\* The event loop matches the route and parses the body before any dependency.
Arrive(r, target, token, input, id) ==
  LET arrived == [NewRequest EXCEPT !.target = target, !.token = token,
                                    !.input = input, !.id = id, !.arrived = now]
      refused(status) == [arrived EXCEPT !.stage = "answered", !.status = status]
  IN
  /\ InStage(r, "new")
  /\ request' = [request EXCEPT ![r] =
       CASE target \in RawPaths -> refused(404)
         [] target = "wrong_method" -> refused(405)
         [] input = "unparsable" -> refused(422)
         [] OTHER -> [arrived EXCEPT !.stage = "depends",
                                     !.todo = Dependencies(target),
                                     !.queries = Queries(target)]]
  /\ UNCHANGED <<now, issued, requests_total, reservations, charged, effects>>

Depends(r, name) ==
  /\ InStage(r, "depends")
  /\ request[r].todo # <<>>
  /\ Head(request[r].todo) = name
  /\ FreeThread

Resolved(r) == request' = [request EXCEPT ![r].todo = Tail(@)]

\* rate_limited: allow() takes a token or refuses.
RateLimit(r) ==
  /\ Depends(r, "rate_limited")
  /\ \/ Resolved(r) /\ charged' = charged \cup {r}
     \/ Answer(r, 429) /\ UNCHANGED charged
  /\ UNCHANGED <<now, issued, requests_total, reservations, effects>>

GetPrincipal(r) ==
  /\ Depends(r, "get_principal")
  /\ IF Decodes(request[r].token) /\ request[r].token.role \in Roles
       THEN Resolved(r)
       ELSE Answer(r, 401)
  /\ UNCHANGED <<now, issued, requests_total, reservations, charged, effects>>

RequireAdmin(r) ==
  /\ Depends(r, "require_admin")
  /\ IF request[r].token.role = "admin" THEN Resolved(r) ELSE Answer(r, 403)
  /\ UNCHANGED <<now, issued, requests_total, reservations, charged, effects>>

\* Every dependency is resolved: the declared parameters are checked.
Validate(r) ==
  /\ InStage(r, "depends")
  /\ request[r].todo = <<>>
  /\ IF request[r].input = "invalid" THEN Answer(r, 422) ELSE Goto(r, "ready")
  /\ UNCHANGED <<now, issued, requests_total, reservations, charged, effects>>

-----------------------------------------------------------------------------
(* The handler *)

\* The handler gets a thread; handlers that do not query answer at once.
Handle(r) ==
  /\ InStage(r, "ready")
  /\ FreeThread
  /\ CASE request[r].input = "malformed" -> Answer(r, 422)
       [] request[r].target = "token" -> Answer(r, 200)
       [] Queries(request[r].target) = 0 -> Answer(r, 200)
       [] OTHER -> Goto(r, "handling")
  /\ IF request[r].target = "token"
       THEN \E role \in Roles : issued' = issued \cup {NewToken(role)}
       ELSE UNCHANGED issued
  /\ UNCHANGED <<now, requests_total, reservations, charged, effects>>

\* pool.connection() hands out a connection.
Connect(r) ==
  /\ InStage(r, "handling")
  /\ Cardinality(OnConnection) < PoolSize
  /\ Goto(r, "querying")
  /\ UNCHANGED <<now, issued, requests_total, reservations, charged, effects>>

\* A database error: /ready catches it, everybody else raises.
DatabaseError(r) ==
  IF request[r].target = "ready" THEN Answer(r, 503) ELSE Raise(r)

\* pool.connection() gives up.
PoolTimeout(r) ==
  /\ InStage(r, "handling")
  /\ Cardinality(OnConnection) >= PoolSize
  /\ DatabaseError(r)
  /\ UNCHANGED <<now, issued, requests_total, reservations, charged, effects>>

\* Mutant: release() does not look at the status before it writes.
CommitAgain(r) ==
  LET q == request[r] IN
  CASE q.target = "reserve" ->
         /\ effects' = effects \cup {r}
         /\ \/ UNCHANGED reservations
            \/ \E i \in Ids : /\ reservations[i] = "none"
                             /\ reservations' = [reservations EXCEPT ![i] = "reserved"]
    [] q.target = "release" /\ reservations[q.id] # "none" ->
         /\ effects' = effects \cup {r}
         /\ reservations' = [reservations EXCEPT ![q.id] = "released"]
    [] OTHER -> UNCHANGED <<effects, reservations>>

\* COMMIT: reserve() makes a reservation, release() gives one back that is still
\* active and writes nothing about one that was released before.
Commit(r) ==
  LET q == request[r] IN
  CASE q.target = "reserve" ->
         /\ effects' = effects \cup {r}
         /\ \/ UNCHANGED reservations     \* an id nobody names
            \/ \E i \in Ids : /\ reservations[i] = "none"
                             /\ reservations' = [reservations EXCEPT ![i] = "reserved"]
    [] q.target = "release" /\ reservations[q.id] = "reserved" ->
         /\ effects' = effects \cup {r}
         /\ reservations' = [reservations EXCEPT ![q.id] = "released"]
    [] OTHER -> UNCHANGED <<effects, reservations>>

\* release() knows the reservation it is asked for.
Found(r) == request[r].target = "release" => reservations[request[r].id] # "none"

\* The statements of one connection succeed, and commit what they wrote.
QuerySucceeds(r) ==
  /\ InStage(r, "querying")
  /\ Found(r)
  /\ IF request[r].queries > 1
       THEN request' = [request EXCEPT ![r].stage = "handling", ![r].queries = @ - 1]
       ELSE Answer(r, Success(request[r].target))
  /\ Commit(r)
  /\ UNCHANGED <<now, issued, requests_total, charged>>

\* The handler refuses what it read first; a transaction is rolled back.
QueryRefuses(r) ==
  /\ InStage(r, "querying")
  /\ request[r].queries = Queries(request[r].target)
  /\ request[r].target = "release" => ~Found(r)
  /\ \E status \in Refusals(request[r].target) : Answer(r, status)
  /\ UNCHANGED <<now, issued, requests_total, reservations, charged, effects>>

\* The database fails, before the commit or, unknown to the handler, after it.
QueryFails(r) ==
  /\ InStage(r, "querying")
  /\ DatabaseError(r)
  /\ Commit(r) \/ UNCHANGED <<effects, reservations>>
  /\ UNCHANGED <<now, issued, requests_total, charged>>

-----------------------------------------------------------------------------
(* On the way out *)

\* _route_template: the path of the matched route, also when its method is
\* another one (say /health's), and else the raw path.
PathLabel(target) == IF target = "wrong_method" THEN "health" ELSE target

\* Mutant: counting after call_next instead of in finally.
CountResponses(r) ==
  /\ InStage(r, "answered")
  /\ requests_total' = IF request[r].raised THEN requests_total ELSE
       [requests_total EXCEPT
          ![<<PathLabel(request[r].target), request[r].status>>] = @ + 1]
  /\ Goto(r, "counted")
  /\ UNCHANGED <<now, issued, reservations, charged, effects>>

\* PrometheusMiddleware, in its finally.
Count(r) ==
  /\ InStage(r, "answered")
  /\ requests_total' =
       [requests_total EXCEPT
          ![<<PathLabel(request[r].target), request[r].status>>] = @ + 1]
  /\ Goto(r, "counted")
  /\ UNCHANGED <<now, issued, reservations, charged, effects>>

\* RequestContextMiddleware sends the response on; an exception passes it and
\* is answered by Starlette, in plain text and without the request's id.
Deliver(r) ==
  /\ InStage(r, "counted")
  /\ request' = [request EXCEPT
       ![r].stage = "done",
       ![r].enveloped = ~request[r].raised /\ request[r].target # "metrics"]
  /\ UNCHANGED <<now, issued, requests_total, reservations, charged, effects>>

Advance(r) ==
  \/ RateLimit(r) \/ GetPrincipal(r) \/ RequireAdmin(r) \/ Validate(r)
  \/ Handle(r) \/ Connect(r) \/ QuerySucceeds(r) \/ QueryRefuses(r)
  \/ QueryFails(r) \/ Count(r) \/ Deliver(r)

Next ==
  \/ Tick
  \/ \E r \in Requests :
       \/ \E target \in Asked : \E input \in Inputs(target) :
            \E token \in Credentials(target) : \E id \in Named(target) :
              Arrive(r, target, token, input, id)
       \/ Advance(r)
       \/ PoolTimeout(r)

Spec == Init /\ [][Next]_vars

\* A request that can go on again and again does: the event loop, the thread
\* pool's and the connection pool's queues are first-in first-out, and a
\* statement ends.  Nobody has to send a request, time need not pass, and the
\* pool's timeout is not relied on.
FairSpec == Spec /\ \A r \in Requests : SF_vars(Advance(r))

-----------------------------------------------------------------------------
(* Properties *)

Answered(r) == request[r].stage \in {"answered", "counted", "done"}

\* Every variable keeps its type.
TypeOK ==
  /\ now \in 0 .. MaxTime
  /\ issued \subseteq Tokens
  /\ request \in [Requests -> RequestRecords]
  /\ requests_total \in [Labels -> Nat]
  /\ reservations \in [Ids -> {"none", "reserved", "released"}]
  /\ charged \subseteq Requests
  /\ effects \subseteq Requests

\* A token of the service that had not expired when the request came, with the
\* role its target asks for.
Entitled(r) ==
  LET q == request[r] IN
  /\ q.token \in issued
  /\ q.arrived < q.token.exp * TicksPerSecond
  /\ q.target = "admin_list" => q.token.role = "admin"

\* Whoever is not entitled learns nothing and changes nothing: a protected
\* route tells him 401, 403 or 429, or that his body is not JSON, and never
\* whether his values are valid, the thing exists or the stock suffices
\* (auth.py:3-4; the limiter and the principal come before the parameters).
OnlyTheEntitled ==
  \A r \in Requests :
    (/\ request[r].target \in Protected
     /\ ~Entitled(r)
     /\ Answered(r))
    => /\ request[r].status \in {401, 403, 429, 422}
       /\ request[r].status = 422 => request[r].input = "unparsable"
       /\ r \notin effects

\* A limited route charges its bucket for every request it does not refuse with
\* 429, whatever becomes of the request: guessing tokens or stock costs as much
\* as reserving.  Only a body that is not JSON is free (routes_inventory.py:28).
EveryAttemptIsCharged ==
  \A r \in Requests :
    (request[r].target \in Limited /\ Answered(r) /\ request[r].input # "unparsable")
    => (r \in charged <=> request[r].status # 429)

\* The status tells the client what became of the stock: nothing after a refusal,
\* a reservation of its own after 201, and after a 200 to DELETE the reservation
\* named is given back, whether by this request or by one before it.  Only a 500
\* leaves it open, and whoever asks again gives back no unit twice
\* (reserve.py:91-105; test_inventory_atp.py:51-56).
EffectsMatchStatus ==
  /\ \A r \in Requests :
       Answered(r) =>
         LET q == request[r] IN
         /\ q.status \in 400 .. 499 => r \notin effects
         /\ q.status = 201 => q.target = "reserve" /\ r \in effects
         /\ q.target = "release" /\ q.status = 200 => reservations[q.id] = "released"
  /\ \A r, s \in effects :
       (/\ request[r].target = "release" /\ request[s].target = "release"
        /\ request[r].id = request[s].id) => r = s

\* The counters are the answers: every request that passed the middleware is
\* counted once under the status its client gets, exceptions included.
CountsMatchAnswers ==
  LET passed == {r \in Requests : request[r].stage \in {"counted", "done"}} IN
  \A l \in Labels :
    requests_total[l] =
      Cardinality({r \in passed :
        <<PathLabel(request[r].target), request[r].status>> = l})

\* A token lives as long as it was issued for, to the second: one presented
\* before Ttl - 1 seconds are over is accepted, from Ttl seconds on refused,
\* although iat and exp are whole seconds and the clock is not (auth.py:34-39).
TokensLiveTheirTime ==
  [][\A r \in Requests :
       LET age == now - request[r].token.born IN
       (/\ request[r].token \in issued
        /\ Depends(r, "get_principal")
        /\ request'[r] # request[r])
       => /\ age <= (Ttl - 1) * TicksPerSecond => request'[r].status # 401
          /\ age >= Ttl * TicksPerSecond => request'[r].status = 401]_vars

\* Every request is answered, although handlers keep their thread while they
\* wait for a connection and probes share the threads with everybody else.
EveryRequestAnswered ==
  \A r \in Requests : ~InStage(r, "new") ~> InStage(r, "done")

\* "a single consistent error envelope for every failure mode" (app.py:4-5)
ErrorsAreEnveloped ==
  \A r \in Requests :
    (InStage(r, "done") /\ request[r].status >= 400) => request[r].enveloped
=============================================================================
