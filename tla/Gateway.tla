------------------------------ MODULE Gateway ------------------------------
(***************************************************************************)
(* A request's way through the api-gateway: JwtAuthGuard, RolesGuard and   *)
(* ThrottlerGuard, the validation pipe, the handler of AppController, its  *)
(* call to the orders service with a timeout, the answer, and the event    *)
(* that createOrder publishes to RabbitMQ, consumed with a manual ack.     *)
(* One gateway process, requests of one client address.  An order is named *)
(* by the request that made it, an event by the one that published it.     *)
(***************************************************************************)
EXTENDS Naturals, FiniteSets

CONSTANTS
    Req,
    Kind,      \* what a request may be: its handler, its token ("none", "invalid", "roleless"
               \* or the role it carries), whether it breaks a rule of its DTO, its key: the
               \* idempotencyKey of a creation, the order of a payment
    NoKey,
    Limit,     \* hits of one handler in the throttler's window
    PayLimit,  \* the same for payOrder
    MaxFaults  \* bound: lost messages, failing publications, crashes

Roles == {"USER", "OPERATOR", "ADMIN"}

\* AppController's handlers: those that forward to the orders service, and the others.
Forwarded == {"create", "get", "list", "prismaCreate", "prismaList", "prismaStats", "prismaGet"}
Routes == {"login", "me", "pay"} \cup Forwarded

Public == {"login"}
RequiredRoles(route) == IF route = "pay" THEN {"ADMIN", "OPERATOR"} ELSE {}
Validated == {"login", "create", "list", "prismaCreate", "prismaList"}
Posts == {"login", "create", "prismaCreate", "pay"}

ASSUME GatewayAssumption ==
    /\ \A k \in Kind :
          /\ k.route \in Routes
          /\ k.token \in {"none", "invalid", "roleless"} \cup Roles
          /\ k.malformed \in BOOLEAN
          /\ k.malformed => k.route \in Validated
    /\ Limit \in Nat /\ PayLimit \in Nat /\ MaxFaults \in Nat
    /\ {"none", "error", "done"} \cap Req = {}

VARIABLES
    kind,    \* kind[r]: what r is, once it has arrived
    stage,   \* stage[r]: what r awaits
    user,    \* user[r]: the role in request.user
    status,  \* status[r]: the HTTP status answered, 0 before
    hits,    \* hits[route]: requests the throttler has counted in its window
    sent,    \* requests on their way to the orders service
    reply,   \* reply[r]: an order, "done" or "error", when one is on its way back
    orders,  \* orders created
    served,  \* requests that made another service do something
    locks,   \* orders whose key saga:pay is in Redis
    event,   \* event[r]: where the event of creation r is
    handled, \* handled[r]: how often the consumer has handled it
    faults

gatewayVars == <<kind, stage, user, status, hits>>
ordersVars == <<sent, reply, orders, served, locks>>
queueVars == <<event, handled>>
vars == <<gatewayVars, ordersVars, queueVars, faults>>

-----------------------------------------------------------------------------
Init ==
    /\ kind \in [Req -> Kind]
    /\ stage = [r \in Req |-> "idle"]
    /\ user = [r \in Req |-> "none"]
    /\ status = [r \in Req |-> 0]
    /\ hits = [route \in Routes |-> {}]
    /\ sent = {} /\ orders = {} /\ served = {} /\ locks = {}
    /\ reply = [r \in Req |-> "none"]
    /\ event = [r \in Req |-> "none"]
    /\ handled = [r \in Req |-> 0]
    /\ faults = 0

RouteOf(r) == kind[r].route
TokenOf(r) == kind[r].token
Malformed(r) == kind[r].malformed
KeyOf(r) == kind[r].key

Fault == faults < MaxFaults /\ faults' = faults + 1

Enter(r, next) == stage' = [stage EXCEPT ![r] = next] /\ UNCHANGED status

\* A response leaves through TransformInterceptor, an exception through
\* AllExceptionsFilter: the status of an HttpException, be it of a guard, of a pipe or
\* of the lock, 500 for everything else, errors of other services and timeouts included.
Respond(r, code) ==
    /\ stage' = [stage EXCEPT ![r] = "answered"]
    /\ status' = [status EXCEPT ![r] = code]

Succeed(r) == Respond(r, IF RouteOf(r) \in Posts THEN 201 ELSE 200)

\* Mutant of StatusOf: errors of other services are taken for bad requests.
StatusOfRpc(exception) ==
    CASE exception = "Unauthorized" -> 401
      [] exception = "Forbidden" -> 403
      [] exception = "Conflict" -> 409
      [] exception = "TooManyRequests" -> 429
      [] OTHER -> 400

StatusOf(exception) ==
    CASE exception = "Unauthorized" -> 401
      [] exception = "Forbidden" -> 403
      [] exception = "Conflict" -> 409
      [] exception = "TooManyRequests" -> 429
      [] exception = "BadRequest" -> 400
      [] OTHER -> 500

Throw(r, exception) == Respond(r, StatusOf(exception))

-----------------------------------------------------------------------------
\* JwtAuthGuard: public handlers pass, a missing token is refused at once, others
\* are verified asynchronously.
Authenticate(r) ==
    /\ stage[r] = "idle"
    /\ \/ RouteOf(r) \in Public /\ Enter(r, "guarded")
       \/ RouteOf(r) \notin Public /\ TokenOf(r) = "none" /\ Throw(r, "Unauthorized")
       \/ RouteOf(r) \notin Public /\ TokenOf(r) # "none" /\ Enter(r, "verifying")
    /\ UNCHANGED <<kind, user, hits, ordersVars, queueVars, faults>>

RoleIn(token) == IF token = "roleless" THEN "USER" ELSE token

\* AuthService.validateToken settles.
Verify(r) ==
    /\ stage[r] = "verifying"
    /\ \/ TokenOf(r) = "invalid" /\ Throw(r, "Unauthorized") /\ UNCHANGED user
       \/ /\ TokenOf(r) # "invalid"
          /\ Enter(r, "guarded")
          /\ user' = [user EXCEPT ![r] = RoleIn(TokenOf(r))]
    /\ UNCHANGED <<kind, hits, ordersVars, queueVars, faults>>

\* RolesGuard.
Permitted(r) ==
    \/ RequiredRoles(RouteOf(r)) = {}
    \/ user[r] \in RequiredRoles(RouteOf(r))

LimitOf(route) == IF route = "pay" THEN PayLimit ELSE Limit

\* ThrottlerGuard counts r; the hit beyond the limit is refused.
Counted(r) == hits' = [hits EXCEPT ![RouteOf(r)] = @ \cup {r}]
Throttled(r) == Cardinality(hits[RouteOf(r)]) >= LimitOf(RouteOf(r))

\* The handler starts: local ones answer, payOrder asks for the lock of its order, the
\* rest call the orders service.
Handle(r) ==
    \/ RouteOf(r) \in {"login", "me"} /\ Succeed(r) /\ UNCHANGED <<sent, served>>
    \/ RouteOf(r) = "pay" /\ Enter(r, "locking") /\ UNCHANGED <<sent, served>>
    \/ /\ RouteOf(r) \in Forwarded /\ Enter(r, "waiting")
       /\ sent' = sent \cup {r} /\ UNCHANGED served

\* Mutant of Refuse: the throttler counts before the role is checked.
RefuseCounted(r) ==
    /\ Counted(r)
    /\ \/ Throttled(r) /\ Throw(r, "TooManyRequests")
       \/ ~Throttled(r) /\ ~Permitted(r) /\ Throw(r, "Forbidden")
       \/ ~Throttled(r) /\ Permitted(r) /\ Malformed(r) /\ Throw(r, "BadRequest")

\* RolesGuard, ThrottlerGuard and the pipes refuse, in this order.
Refuse(r) ==
    \/ ~Permitted(r) /\ Throw(r, "Forbidden") /\ UNCHANGED hits
    \/ Permitted(r) /\ Throttled(r) /\ Throw(r, "TooManyRequests") /\ Counted(r)
    \/ /\ Permitted(r) /\ ~Throttled(r) /\ Malformed(r)
       /\ Throw(r, "BadRequest") /\ Counted(r)

\* Guards, pipes and the beginning of the handler run without waiting for anybody.
Admit(r) ==
    /\ stage[r] = "guarded"
    /\ \/ Refuse(r) /\ UNCHANGED <<sent, served>>
       \/ /\ Permitted(r) /\ ~Throttled(r) /\ ~Malformed(r)
          /\ Counted(r) /\ Handle(r)
    /\ UNCHANGED <<kind, user, reply, orders, locks, queueVars, faults>>

\* The throttler's window has passed.
Window(route) ==
    /\ hits[route] # {}
    /\ hits' = [hits EXCEPT ![route] = {}]
    /\ UNCHANGED <<kind, stage, user, status, ordersVars, queueVars, faults>>

-----------------------------------------------------------------------------
\* The orders service creates, replays the order of the key, or fails, which may
\* leave an order behind; other requests are served or fail.
ServeCreate(r) ==
    \/ orders' = orders \cup {r} /\ reply' = [reply EXCEPT ![r] = r]
    \/ \E o \in orders : /\ KeyOf(o) = KeyOf(r) /\ KeyOf(r) # NoKey
                         /\ reply' = [reply EXCEPT ![r] = o]
                         /\ UNCHANGED orders
    \/ orders' \in {orders, orders \cup {r}} /\ reply' = [reply EXCEPT ![r] = "error"]

Serve(r) ==
    /\ r \in sent
    /\ sent' = sent \ {r}
    /\ served' = served \cup {r}
    /\ \/ RouteOf(r) = "create" /\ ServeCreate(r)
       \/ /\ RouteOf(r) # "create"
          /\ \E answer \in {"done", "error"} : reply' = [reply EXCEPT ![r] = answer]
          /\ UNCHANGED orders
    /\ UNCHANGED <<gatewayVars, locks, queueVars, faults>>

\* Nobody is subscribed to the request's channel, or to that of its reply.
MessageLost(r) ==
    /\ Fault
    /\ \/ r \in sent /\ sent' = sent \ {r} /\ UNCHANGED reply
       \/ reply[r] # "none" /\ reply' = [reply EXCEPT ![r] = "none"] /\ UNCHANGED sent
    /\ UNCHANGED <<gatewayVars, orders, served, locks, queueVars>>

\* Mutant of Return: the event is published whatever the orders service answers.
ReturnPublishes(r) ==
    /\ stage[r] = "waiting" /\ reply[r] # "none"
    /\ reply' = [reply EXCEPT ![r] = "none"]
    /\ IF reply[r] = "error" THEN Throw(r, "Error") ELSE Succeed(r)
    /\ event' = [event EXCEPT ![r] = IF RouteOf(r) = "create" THEN "emitting" ELSE @]
    /\ UNCHANGED <<kind, user, hits, sent, orders, served, locks, handled, faults>>

\* The reply arrives in time: createOrder begins to publish its event, which nobody
\* awaits, and the request is answered.
Return(r) ==
    /\ stage[r] = "waiting" /\ reply[r] # "none"
    /\ reply' = [reply EXCEPT ![r] = "none"]
    /\ \/ reply[r] = "error" /\ Throw(r, "Error") /\ UNCHANGED event
       \/ /\ reply[r] # "error" /\ Succeed(r)
          /\ event' = [event EXCEPT ![r] = IF RouteOf(r) = "create" THEN "emitting" ELSE @]
    /\ UNCHANGED <<kind, user, hits, sent, orders, served, locks, handled, faults>>

\* Mutant of TimesOut: a call without a timeout.
TimesOutNever(r) == stage[r] = "waiting" /\ UNCHANGED vars

\* After 5 s the call rejects; the request stays on its way, a reply finds nobody.
TimesOut(r) ==
    /\ stage[r] = "waiting"
    /\ Throw(r, "Timeout")
    /\ UNCHANGED <<kind, user, hits, ordersVars, queueVars, faults>>

\* runWithLock of payOrder: the saga begins under the lock of its order, or somebody
\* has that and a ConflictException is thrown.
Acquire(r) ==
    /\ stage[r] = "locking"
    /\ \/ KeyOf(r) \in locks /\ Throw(r, "Conflict") /\ UNCHANGED <<served, locks>>
       \/ /\ KeyOf(r) \notin locks
          /\ Enter(r, "paying")
          /\ locks' = locks \cup {KeyOf(r)}
          /\ served' = served \cup {r}
    /\ UNCHANGED <<kind, user, hits, sent, reply, orders, queueVars, faults>>

\* The SET of the key fails, or only its reply is lost: the saga has not begun.
AcquireFails(r) ==
    /\ stage[r] = "locking"
    /\ Fault
    /\ Throw(r, "Error")
    /\ locks' \in {locks, locks \cup {KeyOf(r)}}
    /\ UNCHANGED <<kind, user, hits, sent, reply, orders, served, queueVars>>

\* PaymentSagaService.payOrder returns its result, or throws; the lock is given back.
SagaEnds(r) ==
    /\ stage[r] = "paying"
    /\ Succeed(r) \/ Throw(r, "Error")
    /\ locks' = locks \ {KeyOf(r)}
    /\ UNCHANGED <<kind, user, hits, sent, reply, orders, served, queueVars, faults>>

\* The release fails and is only logged.
ReleaseFails(r) ==
    /\ stage[r] = "paying"
    /\ Fault
    /\ Succeed(r) \/ Throw(r, "Error")
    /\ UNCHANGED <<kind, user, hits, ordersVars, queueVars>>

\* The key of a lock whose saga is over without having given it back expires.
LockExpires(order) ==
    /\ order \in locks
    /\ \A r \in Req : stage[r] = "paying" => KeyOf(r) # order
    /\ locks' = locks \ {order}
    /\ UNCHANGED <<gatewayVars, sent, reply, orders, served, queueVars, faults>>

-----------------------------------------------------------------------------
Moves(r, from, to) == event[r] = from /\ event' = [event EXCEPT ![r] = to]

Publish(r) ==
    /\ Moves(r, "emitting", "ready")
    /\ UNCHANGED <<gatewayVars, ordersVars, handled, faults>>

\* The publication fails; nobody has subscribed to its error.
PublishFails(r) ==
    /\ Fault
    /\ Moves(r, "emitting", "lost")
    /\ UNCHANGED <<gatewayVars, ordersVars, handled>>

Deliver(r) ==
    /\ Moves(r, "ready", "delivered")
    /\ UNCHANGED <<gatewayVars, ordersVars, handled, faults>>

\* onOrderCreatedRmq handles the event and sends its ack.
Consume(r) ==
    /\ Moves(r, "delivered", "acked")
    /\ handled' = [handled EXCEPT ![r] = @ + 1]
    /\ UNCHANGED <<gatewayVars, ordersVars, faults>>

\* The handler throws: nack, and the event is requeued.
ConsumeFails(r) ==
    /\ Fault
    /\ Moves(r, "delivered", "ready")
    /\ UNCHANGED <<gatewayVars, ordersVars, handled>>

\* The broker has the ack.
Settle(r) ==
    /\ Moves(r, "acked", "gone")
    /\ UNCHANGED <<gatewayVars, ordersVars, handled, faults>>

\* Mutant of ConsumerCrash: noAck, the broker forgets what it has delivered.
ConsumerCrashNoAck ==
    /\ Fault
    /\ \E r \in Req : event[r] \in {"delivered", "acked"}
    /\ event' = [r \in Req |-> IF event[r] \in {"delivered", "acked"} THEN "lost" ELSE event[r]]
    /\ UNCHANGED <<gatewayVars, ordersVars, handled>>

\* The orders process dies, or loses its channel: the broker delivers again what is not acked.
ConsumerCrash ==
    /\ Fault
    /\ \E r \in Req : event[r] \in {"delivered", "acked"}
    /\ event' = [r \in Req |-> IF event[r] \in {"delivered", "acked"} THEN "ready" ELSE event[r]]
    /\ UNCHANGED <<gatewayVars, ordersVars, handled>>

Busy(r) == stage[r] \in {"verifying", "guarded", "waiting", "locking", "paying"}

\* The gateway dies: its requests and unpublished events are gone, the throttler forgets.
GatewayCrash ==
    /\ Fault
    /\ \E r \in Req : Busy(r) \/ event[r] = "emitting"
    /\ stage' = [r \in Req |-> IF Busy(r) THEN "dropped" ELSE stage[r]]
    /\ event' = [r \in Req |-> IF event[r] = "emitting" THEN "lost" ELSE event[r]]
    /\ hits' = [route \in Routes |-> {}]
    /\ UNCHANGED <<kind, user, status, ordersVars, handled>>

\* Nothing is left to do.
Rest ==
    /\ \A r \in Req : stage[r] \in {"answered", "dropped"} /\ event[r] \in {"none", "gone", "lost"}
    /\ sent = {}
    /\ UNCHANGED vars

InGateway(r) ==
    \/ Authenticate(r) \/ Verify(r) \/ Admit(r) \/ Return(r) \/ TimesOut(r)
    \/ Acquire(r) \/ SagaEnds(r)
InQueue(r) == Publish(r) \/ Deliver(r) \/ Consume(r) \/ Settle(r)
Faulty(r) ==
    \/ MessageLost(r) \/ AcquireFails(r) \/ ReleaseFails(r)
    \/ PublishFails(r) \/ ConsumeFails(r)

Next ==
    \/ \E r \in Req : InGateway(r) \/ Serve(r) \/ InQueue(r) \/ Faulty(r)
    \/ \E route \in Routes : Window(route)
    \/ \E order \in locks : LockExpires(order)
    \/ ConsumerCrash \/ GatewayCrash \/ Rest

Spec == Init /\ [][Next]_vars

\* Promises and timers settle, the orders service and the broker deliver.
Fairness == \A r \in Req :
    /\ WF_vars(stage[r] # "idle" /\ InGateway(r))
    /\ WF_vars(InQueue(r))

FairSpec == Spec /\ Fairness

-----------------------------------------------------------------------------
\* Whoever is told that the request is refused (4xx), by a guard, by a pipe or because
\* the order is being paid, may correct or repeat it: no service has seen it, no saga,
\* order or event has come of it, nor will.
RefusedWithoutEffect ==
    \A r \in Req : status[r] \in 400..499 =>
        r \notin sent \cup served \cup orders /\ event[r] = "none"

\* A request is throttled only when entitled ones have used up the window: those
\* that lack the role do not count.
ThrottledByEntitled ==
    [][\A r \in Req : status[r] = 0 /\ status'[r] = 429 =>
          /\ Cardinality(hits[RouteOf(r)]) >= LimitOf(RouteOf(r))
          /\ \A q \in hits[RouteOf(r)] : Permitted(q)]_vars

\* Creations and events belong together: who is told 201 has an event, events stem
\* from answered creations, and an order without one only from a request that is
\* not answered yet or has failed.
EventIffCreated ==
    /\ \A r \in Req : event[r] # "none" <=> RouteOf(r) = "create" /\ status[r] = 201
    /\ \A o \in orders : event[o] = "none" => status[o] \in {0, 500}

\* Every request that is not dropped by a crash is answered, though messages get lost.
Answered == \A r \in Req : stage[r] # "idle" ~> stage[r] \in {"answered", "dropped"}

\* An event the broker has is handled and acknowledged, whatever becomes of consumers.
ReadyIsHandled == \A r \in Req : event[r] = "ready" ~> event[r] = "gone" /\ handled[r] > 0
=============================================================================
