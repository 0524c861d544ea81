--------------------------- MODULE Gateway_proofs ---------------------------
(***************************************************************************)
(* Proofs about Gateway: a refused request has had no effect, events match *)
(* answers, and only entitled requests are counted by the throttler.       *)
(***************************************************************************)
EXTENDS Gateway, TLAPS

-----------------------------------------------------------------------------
Early == {"idle", "verifying", "guarded"}
Stages == Early \cup {"waiting", "locking", "paying", "answered", "dropped"}

\* The stages in which a request is refused.
Before == Early \cup {"locking"}

Codes == {200, 201, 400, 401, 403, 409, 429, 500}

\* r is on its way to another service, or has reached one.
Reached(r) == r \in sent \cup served \cup orders

GateTypes ==
    /\ kind \in [Req -> Kind]
    /\ stage \in [Req -> Stages]
    /\ status \in [Req -> {0} \cup Codes]
    /\ user \in [Req -> Roles \cup {"none"}]
    /\ event \in [Req -> {"none", "emitting", "ready", "delivered", "acked", "gone", "lost"}]
    /\ hits \in [Routes -> SUBSET Req]
    /\ orders \subseteq Req

\* Guards and pipes refuse before the handler begins, the lock before the saga; a creation is answered 201 when
\* its event is to be published, and by nothing else.
AnswerInv(r) ==
    /\ stage[r] \in Before => ~Reached(r)
    /\ stage[r] # "answered" => status[r] = 0
    /\ status[r] \in 400..499 => ~Reached(r) /\ event[r] = "none"
    /\ event[r] # "none" <=> RouteOf(r) = "create" /\ status[r] = 201
    /\ r \in orders => RouteOf(r) = "create"
    /\ RouteOf(r) = "create" => status[r] # 200 /\ stage[r] \notin {"locking", "paying"}

\* Who is counted was entitled, and its user is known for good.
HitInv(r) ==
    \A route \in Routes : r \in hits[route] =>
        /\ RouteOf(r) = route
        /\ stage[r] \notin {"idle", "verifying"}
        /\ Permitted(r)

GateInv == GateTypes /\ \A r \in Req : AnswerInv(r) /\ HitInv(r)

LEMMA GateInit == Init => GateInv
<1> SUFFICES ASSUME Init PROVE GateInv
    OBVIOUS
<1>1. GateTypes
      BY DEF Init, GateTypes, Stages, Early, Codes
<1>2. ASSUME NEW r \in Req
      PROVE  AnswerInv(r) /\ HitInv(r)
      BY DEF Init, AnswerInv, HitInv, Reached, Before, Early
<1> QED
    BY <1>1, <1>2 DEF GateInv

\* What the codes of the exceptions are.
LEMMA CodeOf ==
    /\ StatusOf("Unauthorized") = 401 /\ StatusOf("Forbidden") = 403
    /\ StatusOf("TooManyRequests") = 429 /\ StatusOf("BadRequest") = 400
    /\ StatusOf("Conflict") = 409
    /\ StatusOf("Error") = 500 /\ StatusOf("Timeout") = 500
BY DEF StatusOf

\* A request that a step does not answer, serve or count stays as it was; its event
\* may move on and it may be dropped.
LEMMA OthersKeep ==
    ASSUME GateInv, NEW q \in Req,
           kind' = kind, status'[q] = status[q], user'[q] = user[q],
           \/ stage'[q] = stage[q]
           \/ stage'[q] = "dropped" /\ stage[q] # "answered",
           event'[q] = "none" <=> event[q] = "none",
           q \in sent' => q \in sent,
           q \in served' => q \in served,
           q \in orders' => q \in orders,
           \A route \in Routes : q \in hits'[route] => q \in hits[route]
    PROVE  AnswerInv(q)' /\ HitInv(q)'
<1>1. AnswerInv(q) /\ HitInv(q)
      BY DEF GateInv
<1>2. RouteOf(q)' = RouteOf(q) /\ Permitted(q)' = Permitted(q)
      BY DEF RouteOf, Permitted, RequiredRoles
<1>3. Reached(q)' => Reached(q)
      BY DEF Reached
<1>4. AnswerInv(q)'
      BY <1>1, <1>2, <1>3 DEF AnswerInv, Before, Early
<1>5. HitInv(q)'
      BY <1>1, <1>2 DEF HitInv
<1> QED
    BY <1>4, <1>5

\* Answers and the way on, as far as a request's own invariants need them.
LEMMA RespondSets ==
    ASSUME GateTypes, NEW r \in Req, NEW code, Respond(r, code)
    PROVE  /\ stage'[r] = "answered" /\ status'[r] = code
           /\ \A q \in Req : q # r => stage'[q] = stage[q] /\ status'[q] = status[q]
           /\ stage' \in [Req -> Stages]
           /\ code \in Codes =>
                 status' \in [Req -> {0} \cup Codes]
BY DEF GateTypes, Respond, Stages

LEMMA EnterSets ==
    ASSUME GateTypes, NEW r \in Req, NEW next \in Stages, Enter(r, next)
    PROVE  /\ stage'[r] = next /\ status' = status
           /\ \A q \in Req : q # r => stage'[q] = stage[q]
           /\ stage' \in [Req -> Stages]
BY DEF GateTypes, Enter

\* Refusals before the handler.
LEMMA RefusalKeeps ==
    ASSUME GateInv, NEW r \in Req, NEW code \in {400, 401, 403, 409, 429}, Respond(r, code),
           stage[r] \in Before, kind' = kind, user' = user, event' = event,
           UNCHANGED <<sent, served, orders>>,
           \/ hits' = hits
           \/ stage[r] = "guarded" /\ Permitted(r) /\ Counted(r)
    PROVE  GateInv'
<1>1. /\ GateTypes /\ AnswerInv(r) /\ HitInv(r)
      /\ \A q \in Req : q # r => stage'[q] = stage[q] /\ status'[q] = status[q]
      /\ stage'[r] = "answered" /\ status'[r] = code
      BY RespondSets DEF GateInv
<1>2. /\ hits' \in [Routes -> SUBSET Req]
      /\ \A route \in Routes : \A q \in Req :
            q \in hits'[route] => q \in hits[route] \/ (q = r /\ route = RouteOf(r) /\ Permitted(r))
      BY <1>1 DEF Counted, GateTypes
<1>3. GateTypes'
      BY <1>1, <1>2, RespondSets DEF GateTypes, Codes
<1>4. ASSUME NEW q \in Req, q # r
      PROVE  AnswerInv(q)' /\ HitInv(q)'
      BY <1>1, <1>2, <1>4, OthersKeep
<1>5. RouteOf(r)' = RouteOf(r) /\ Permitted(r)' = Permitted(r) /\ Reached(r)' = Reached(r)
      BY DEF RouteOf, Permitted, RequiredRoles, Reached
<1>6. AnswerInv(r)'
      BY <1>1, <1>5 DEF AnswerInv, Before, Early
<1>7. HitInv(r)'
      BY <1>1, <1>2, <1>5 DEF HitInv
<1> QED
    BY <1>3, <1>4, <1>6, <1>7 DEF GateInv

\* The token and the role.
LEMMA TokenKeeps ==
    ASSUME GateInv, NEW r \in Req, Authenticate(r) \/ Verify(r)
    PROVE  GateInv'
<1>0. GateTypes /\ AnswerInv(r) /\ HitInv(r)
      BY DEF GateInv
<1>1. /\ kind' = kind /\ hits' = hits /\ event' = event /\ UNCHANGED <<sent, served, orders>>
      /\ stage[r] \in {"idle", "verifying"}
      BY DEF Authenticate, Verify, ordersVars, queueVars
<1>2. CASE Throw(r, "Unauthorized") /\ user' = user
  <2>1. Respond(r, 401) /\ stage[r] \in Before
        BY <1>1, <1>2, CodeOf DEF Throw, Before, Early
  <2> QED
      BY <1>1, <1>2, <2>1, RefusalKeeps
<1>3. CASE \E next \in {"guarded", "verifying"} :
              /\ Enter(r, next)
              /\ user' = user \/ (stage[r] = "verifying" /\ user' = [user EXCEPT ![r] = RoleIn(TokenOf(r))]
                                  /\ TokenOf(r) \in {"none", "roleless"} \cup Roles)
  <2>1. PICK next \in {"guarded", "verifying"} : Enter(r, next)
        BY <1>3
  <2>2. /\ stage'[r] = next /\ status' = status
        /\ \A q \in Req : q # r => stage'[q] = stage[q] /\ user'[q] = user[q]
        /\ stage' \in [Req -> Stages]
        BY <1>0, <1>3, <2>1, EnterSets DEF GateTypes, Stages, Early
  <2>3. user' \in [Req -> Roles \cup {"none"}]
        BY <1>0, <1>3 DEF GateTypes, RoleIn, Roles
  <2>4. GateTypes'
        BY <1>0, <1>1, <2>2, <2>3 DEF GateTypes
  <2>5. ASSUME NEW q \in Req, q # r
        PROVE  AnswerInv(q)' /\ HitInv(q)'
        BY <1>1, <2>2, <2>5, OthersKeep
  <2>6. RouteOf(r)' = RouteOf(r) /\ Reached(r)' = Reached(r)
        BY <1>1 DEF RouteOf, Reached
  <2>7. AnswerInv(r)'
        BY <1>0, <1>1, <2>2, <2>6 DEF AnswerInv, Before, Early
  <2>8. HitInv(r)'
        BY <1>0, <1>1 DEF HitInv
  <2> QED
      BY <2>4, <2>5, <2>7, <2>8 DEF GateInv
<1>4. CASE Authenticate(r)
  <2>1. user' = user
        BY <1>4 DEF Authenticate
  <2> QED
      BY <1>2, <1>3, <1>4, <2>1 DEF Authenticate
<1>5. CASE Verify(r)
  <2>1. TokenOf(r) \in {"none", "invalid", "roleless"} \cup Roles
    <3>1. \A k \in Kind : k.token \in {"none", "invalid", "roleless"} \cup Roles
          BY GatewayAssumption DEF GatewayAssumption
    <3>2. kind[r] \in Kind
          BY <1>0 DEF GateTypes
    <3> QED
        BY <3>1, <3>2 DEF TokenOf
  <2> QED
      BY <1>2, <1>3, <1>5, <2>1 DEF Verify
<1> QED
    BY <1>4, <1>5

\* The handler begins, or the request is refused before.
LEMMA AdmitKeeps ==
    ASSUME GateInv, NEW r \in Req, Admit(r)
    PROVE  GateInv'
<1>0. GateTypes /\ AnswerInv(r) /\ HitInv(r)
      BY DEF GateInv
<1>1. /\ kind' = kind /\ user' = user /\ event' = event /\ orders' = orders
      /\ stage[r] = "guarded" /\ stage[r] \in Before
      BY DEF Admit, queueVars, Before, Early
<1>2. CASE Refuse(r) /\ UNCHANGED <<sent, served>>
  <2>1. \/ Respond(r, 403) /\ hits' = hits
        \/ Respond(r, 429) /\ Permitted(r) /\ Counted(r)
        \/ Respond(r, 400) /\ Permitted(r) /\ Counted(r)
        BY <1>2, CodeOf DEF Refuse, Throw
  <2> QED
      BY <1>1, <1>2, <2>1, RefusalKeeps
<1>3. CASE Permitted(r) /\ Counted(r) /\ Handle(r)
  <2>1. /\ RouteOf(r)' = RouteOf(r) /\ Permitted(r)' = Permitted(r)
        /\ RouteOf(r) \in Routes /\ "create" \in Routes
        /\ RouteOf(r) = "create" => RouteOf(r) \in Forwarded
        /\ "pay" # "create" /\ RouteOf(r) \in {"login", "me"} => RouteOf(r) # "create"
    <3>1. kind[r] \in Kind /\ \A k \in Kind : k.route \in Routes
          BY <1>0, GatewayAssumption DEF GatewayAssumption, GateTypes
    <3> QED
        BY <1>1, <3>1 DEF RouteOf, Permitted, RequiredRoles, Routes, Forwarded
  <2>2. /\ hits' \in [Routes -> SUBSET Req]
        /\ \A route \in Routes : \A q \in Req :
              q \in hits'[route] => q \in hits[route] \/ (q = r /\ route = RouteOf(r))
    <3>1. /\ hits \in [Routes -> SUBSET Req]
          /\ hits' = [hits EXCEPT ![RouteOf(r)] = @ \cup {r}]
          BY <1>0, <1>3 DEF Counted, GateTypes
    <3> QED
        BY <3>1
  <2>3. /\ sent' \subseteq sent \cup {r} /\ served' \subseteq served \cup {r}
        /\ RouteOf(r) = "pay" => sent' = sent /\ served' = served
        /\ \/ /\ RouteOf(r) \in {"login", "me"}
              /\ \E code \in {200, 201} : Respond(r, code)
           \/ RouteOf(r) = "pay" /\ Enter(r, "locking")
           \/ RouteOf(r) \in Forwarded /\ Enter(r, "waiting")
        BY <1>3 DEF Handle, Succeed, Forwarded
  <2>4. /\ stage' \in [Req -> Stages]
        /\ status' \in [Req -> {0} \cup Codes]
        /\ \A q \in Req : q # r => stage'[q] = stage[q] /\ status'[q] = status[q]
        /\ \/ /\ RouteOf(r) \in {"login", "me"}
              /\ stage'[r] = "answered" /\ status'[r] \in {200, 201}
           \/ RouteOf(r) = "pay" /\ stage'[r] = "locking" /\ status'[r] = status[r]
           \/ RouteOf(r) \in Forwarded /\ stage'[r] = "waiting" /\ status'[r] = status[r]
    <3>1. CASE RouteOf(r) \in {"login", "me"} /\ \E code \in {200, 201} : Respond(r, code)
          BY <1>0, <3>1, RespondSets DEF Codes
    <3>2. CASE RouteOf(r) = "pay" /\ Enter(r, "locking")
          BY <1>0, <3>2, EnterSets DEF GateTypes, Stages
    <3>3. CASE RouteOf(r) \in Forwarded /\ Enter(r, "waiting")
          BY <1>0, <3>3, EnterSets DEF GateTypes, Stages
    <3> QED
        BY <2>3, <3>1, <3>2, <3>3
  <2>5. GateTypes'
        BY <1>0, <1>1, <2>2, <2>4 DEF GateTypes
  <2>6. ASSUME NEW q \in Req, q # r
        PROVE  AnswerInv(q)' /\ HitInv(q)'
        BY <1>1, <2>2, <2>3, <2>4, <2>6, OthersKeep
  <2>7. AnswerInv(r)'
        BY <1>0, <1>1, <2>1, <2>3, <2>4 DEF AnswerInv, Before, Early, Reached
  <2>8. HitInv(r)'
        BY <1>0, <1>3, <2>1, <2>2, <2>4 DEF HitInv
  <2> QED
      BY <2>5, <2>6, <2>7, <2>8 DEF GateInv
<1> QED
    BY <1>2, <1>3 DEF Admit

\* payOrder gets the lock of its order, or is refused.
LEMMA AcquireKeeps == ASSUME GateInv, NEW r \in Req, Acquire(r) PROVE GateInv'
<1>0. GateTypes /\ AnswerInv(r) /\ HitInv(r)
      BY DEF GateInv
<1>1. /\ kind' = kind /\ user' = user /\ hits' = hits /\ event' = event
      /\ UNCHANGED <<sent, orders>>
      /\ stage[r] = "locking" /\ stage[r] \in Before
      BY DEF Acquire, queueVars, Before
<1>2. CASE Throw(r, "Conflict") /\ UNCHANGED served
  <2>1. Respond(r, 409)
        BY <1>2, CodeOf DEF Throw
  <2> QED
      BY <1>1, <1>2, <2>1, RefusalKeeps
<1>3. CASE Enter(r, "paying") /\ served' = served \cup {r}
  <2>1. /\ stage'[r] = "paying" /\ status' = status
        /\ \A q \in Req : q # r => stage'[q] = stage[q]
        /\ stage' \in [Req -> Stages]
        BY <1>0, <1>3, EnterSets DEF Stages
  <2>2. GateTypes'
        BY <1>0, <1>1, <2>1 DEF GateTypes
  <2>3. ASSUME NEW q \in Req, q # r
        PROVE  AnswerInv(q)' /\ HitInv(q)'
        BY <1>1, <1>3, <2>1, <2>3, OthersKeep
  <2>4. RouteOf(r)' = RouteOf(r) /\ Permitted(r)' = Permitted(r)
        BY <1>1 DEF RouteOf, Permitted, RequiredRoles
  <2>5. AnswerInv(r)'
        BY <1>0, <1>1, <2>1, <2>4 DEF AnswerInv, Before, Early
  <2>6. HitInv(r)'
        BY <1>0, <1>1, <2>1, <2>4 DEF HitInv
  <2> QED
      BY <2>2, <2>3, <2>5, <2>6 DEF GateInv
<1> QED
    BY <1>2, <1>3 DEF Acquire

\* A call of another service, of the lock or of the saga is answered, or times out.
LEMMA ReturnKeeps ==
    ASSUME GateInv, NEW r \in Req,
           Return(r) \/ TimesOut(r) \/ AcquireFails(r) \/ SagaEnds(r) \/ ReleaseFails(r)
    PROVE  GateInv'
<1>0. GateTypes /\ AnswerInv(r) /\ HitInv(r)
      BY DEF GateInv
<1>1. /\ kind' = kind /\ user' = user /\ hits' = hits /\ UNCHANGED <<sent, served, orders>>
      /\ stage[r] \in {"waiting", "locking", "paying"}
      BY DEF Return, TimesOut, AcquireFails, SagaEnds, ReleaseFails, ordersVars
<1>2. PICK code \in {200, 201, 500} :
          /\ Respond(r, code)
          /\ \/ code = 500 /\ event' = event
             \/ /\ code = IF RouteOf(r) \in Posts THEN 201 ELSE 200
                /\ event' = [event EXCEPT ![r] = IF RouteOf(r) = "create" THEN "emitting" ELSE @]
             \/ /\ stage[r] = "paying" /\ event' = event
  <2>1. CASE Return(r)
        BY <2>1, CodeOf DEF Return, Throw, Succeed
  <2>2. CASE TimesOut(r)
        BY <2>2, CodeOf DEF TimesOut, Throw, queueVars
  <2>3. CASE AcquireFails(r)
        BY <2>3, CodeOf DEF AcquireFails, Throw, queueVars
  <2>4. CASE SagaEnds(r) \/ ReleaseFails(r)
        BY <2>4, CodeOf DEF SagaEnds, ReleaseFails, Throw, Succeed, queueVars
  <2> QED
      BY <2>1, <2>2, <2>3, <2>4
<1>3. /\ stage'[r] = "answered" /\ status'[r] = code
      /\ stage' \in [Req -> Stages]
      /\ status' \in [Req -> {0} \cup Codes]
      /\ \A q \in Req : q # r => stage'[q] = stage[q] /\ status'[q] = status[q]
      BY <1>0, <1>2, RespondSets DEF Codes
<1>4. /\ \A q \in Req : q # r => event'[q] = event[q]
      /\ event' \in [Req -> {"none", "emitting", "ready", "delivered", "acked", "gone", "lost"}]
      BY <1>0, <1>2 DEF GateTypes
<1>5. GateTypes'
      BY <1>0, <1>1, <1>3, <1>4 DEF GateTypes
<1>6. ASSUME NEW q \in Req, q # r
      PROVE  AnswerInv(q)' /\ HitInv(q)'
      BY <1>1, <1>3, <1>4, <1>6, OthersKeep
<1>7. RouteOf(r)' = RouteOf(r) /\ Permitted(r)' = Permitted(r) /\ Reached(r)' = Reached(r)
      BY <1>1 DEF RouteOf, Permitted, RequiredRoles, Reached
<1>8. AnswerInv(r)'
  <2>1. CASE RouteOf(r) = "create"
    <3>1. \/ code = 500 /\ event'[r] = event[r]
          \/ code = 201 /\ event'[r] = "emitting"
          BY <1>0, <1>2, <2>1 DEF Posts, AnswerInv, GateTypes
    <3> QED
        BY <1>0, <1>1, <1>3, <1>7, <2>1, <3>1 DEF AnswerInv, Before, Early
  <2>2. CASE RouteOf(r) # "create"
    <3>1. event'[r] = event[r]
          BY <1>0, <1>2, <2>2 DEF GateTypes
    <3> QED
        BY <1>0, <1>1, <1>3, <1>7, <2>2, <3>1 DEF AnswerInv, Before, Early
  <2> QED
      BY <2>1, <2>2
<1>9. HitInv(r)'
      BY <1>0, <1>1, <1>3, <1>7 DEF HitInv
<1> QED
    BY <1>5, <1>6, <1>8, <1>9 DEF GateInv

\* The orders service serves what has reached it, answered meanwhile or not.
LEMMA ServeKeeps == ASSUME GateInv, NEW r \in Req, Serve(r) PROVE GateInv'
<1>0. GateTypes /\ AnswerInv(r) /\ HitInv(r)
      BY DEF GateInv
<1>1. /\ kind' = kind /\ stage' = stage /\ user' = user /\ status' = status /\ hits' = hits
      /\ event' = event /\ r \in sent
      /\ sent' \subseteq sent /\ served' = served \cup {r}
      /\ orders' \subseteq orders \cup {r}
      /\ RouteOf(r) # "create" => orders' = orders
      BY DEF Serve, ServeCreate, gatewayVars, queueVars
<1>2. GateTypes'
      BY <1>0, <1>1 DEF GateTypes
<1>3. ASSUME NEW q \in Req, q # r
      PROVE  AnswerInv(q)' /\ HitInv(q)'
      BY <1>1, <1>3, OthersKeep
<1>4. RouteOf(r)' = RouteOf(r) /\ Permitted(r)' = Permitted(r) /\ Reached(r)
      BY <1>1 DEF RouteOf, Permitted, RequiredRoles, Reached
<1>5. AnswerInv(r)'
      BY <1>0, <1>1, <1>4 DEF AnswerInv, Before, Early
<1>6. HitInv(r)'
      BY <1>0, <1>1, <1>4 DEF HitInv
<1> QED
    BY <1>2, <1>3, <1>5, <1>6 DEF GateInv

\* The queue and the failures: events move on, requests are dropped, windows pass.
LEMMA QueueKeeps ==
    ASSUME GateInv,
           \/ \E r \in Req : InQueue(r) \/ MessageLost(r) \/ PublishFails(r) \/ ConsumeFails(r)
           \/ \E route \in Routes : Window(route)
           \/ \E order \in locks : LockExpires(order)
           \/ ConsumerCrash \/ GatewayCrash
           \/ UNCHANGED vars
    PROVE  GateInv'
<1>0. GateTypes
      BY DEF GateInv
<1>1. /\ kind' = kind /\ status' = status /\ user' = user
      /\ sent' \subseteq sent /\ served' = served /\ orders' = orders
      BY DEF InQueue, Publish, Deliver, Consume, Settle,
         MessageLost, PublishFails, ConsumeFails, Window, LockExpires, ConsumerCrash,
         GatewayCrash, gatewayVars, ordersVars, queueVars, vars
<1>2. /\ hits' \in [Routes -> SUBSET Req]
      /\ \A route \in Routes : hits'[route] \subseteq hits[route]
  <2>1. \/ hits' = hits
        \/ hits' = [route \in Routes |-> {}]
        \/ \E route \in Routes : hits' = [hits EXCEPT ![route] = {}]
        BY DEF InQueue, Publish, Deliver, Consume, Settle,
           MessageLost, PublishFails, ConsumeFails, Window, LockExpires, ConsumerCrash,
           GatewayCrash, gatewayVars, ordersVars, queueVars, vars
  <2> QED
      BY <1>0, <2>1 DEF GateTypes
<1>3. /\ stage' \in [Req -> Stages]
      /\ \A q \in Req : \/ stage'[q] = stage[q]
                        \/ stage'[q] = "dropped" /\ stage[q] # "answered"
  <2>1. \/ stage' = stage
        \/ stage' = [r \in Req |-> IF Busy(r) THEN "dropped" ELSE stage[r]]
        BY DEF InQueue, Publish, Deliver, Consume, Settle,
           MessageLost, PublishFails, ConsumeFails, Window, LockExpires, ConsumerCrash,
           GatewayCrash, gatewayVars, ordersVars, queueVars, vars
  <2> QED
      BY <1>0, <2>1 DEF GateTypes, Stages, Busy
<1> DEFINE Moved ==
        /\ event' \in [Req -> {"none", "emitting", "ready", "delivered", "acked", "gone", "lost"}]
        /\ \A q \in Req : event'[q] = "none" <=> event[q] = "none"
<1>4. Moved
  <2>1. ASSUME NEW r \in Req, NEW from \in {"emitting", "ready", "delivered", "acked"},
               NEW to \in {"ready", "lost", "delivered", "acked", "gone"}, Moves(r, from, to)
        PROVE  Moved
        BY <1>0, <2>1 DEF GateTypes, Moves
  <2>2. ASSUME NEW r \in Req,
               InQueue(r) \/ MessageLost(r) \/ PublishFails(r) \/ ConsumeFails(r)
        PROVE  Moved
    <3>1. CASE MessageLost(r)
          BY <1>0, <3>1 DEF GateTypes, MessageLost, queueVars
    <3> QED
        BY <2>1, <2>2, <3>1 DEF InQueue, Publish, Deliver, Consume, Settle,
           PublishFails, ConsumeFails
  <2>3. CASE event' = event
        BY <1>0, <2>3 DEF GateTypes
  <2>4. CASE ConsumerCrash \/ GatewayCrash
        BY <1>0, <2>4 DEF GateTypes, ConsumerCrash, GatewayCrash
  <2> QED
      BY <2>2, <2>3, <2>4 DEF Window, LockExpires, queueVars, vars
<1>5. GateTypes'
      BY <1>0, <1>1, <1>2, <1>3, <1>4 DEF GateTypes
<1>6. ASSUME NEW q \in Req
      PROVE  AnswerInv(q)' /\ HitInv(q)'
      BY <1>1, <1>2, <1>3, <1>4, OthersKeep
<1> QED
    BY <1>5, <1>6 DEF GateInv

LEMMA GateStep == GateInv /\ [Next]_vars => GateInv'
<1> SUFFICES ASSUME GateInv, [Next]_vars PROVE GateInv'
    OBVIOUS
<1>1. ASSUME NEW r \in Req, InGateway(r)
      PROVE  GateInv'
      BY <1>1, TokenKeeps, AdmitKeeps, AcquireKeeps, ReturnKeeps DEF InGateway
<1>2. ASSUME NEW r \in Req, Faulty(r)
      PROVE  GateInv'
      BY <1>2, ReturnKeeps, QueueKeeps DEF Faulty
<1> QED
    BY <1>1, <1>2, ServeKeeps, QueueKeeps DEF Next, Rest

LEMMA GateAlways == Spec => []GateInv
<1>1. Init => GateInv
      BY GateInit
<1>2. GateInv /\ [Next]_vars => GateInv'
      BY GateStep
<1> QED
    BY <1>1, <1>2, PTL DEF Spec

\* A request that is answered 4xx has reached no other service and has published
\* nothing, and neither will happen later.
THEOREM RefusalsAreEmpty == Spec => []RefusedWithoutEffect
<1>1. GateInv => RefusedWithoutEffect
      BY DEF GateInv, AnswerInv, Reached, RefusedWithoutEffect
<1> QED
    BY <1>1, GateAlways, PTL

\* Exactly the creations that are answered 201 have an event, and an order without one
\* belongs to a request that is not answered yet or was answered 500.
THEOREM EventsMatchAnswers == Spec => []EventIffCreated
<1>1. GateInv => EventIffCreated
  <2> SUFFICES ASSUME GateInv PROVE EventIffCreated
      OBVIOUS
  <2>1. \A r \in Req : event[r] # "none" <=> RouteOf(r) = "create" /\ status[r] = 201
        BY DEF GateInv, AnswerInv
  <2>2. ASSUME NEW o \in orders, event[o] = "none"
        PROVE  status[o] \in {0, 500}
    <3>1. o \in Req
          BY DEF GateInv, GateTypes
    <3>2. /\ status[o] \in {0} \cup Codes
          /\ AnswerInv(o) /\ Reached(o)
          BY <3>1 DEF GateInv, GateTypes, Reached
    <3> QED
        BY <2>2, <3>2 DEF AnswerInv, Codes
  <2> QED
      BY <2>1, <2>2 DEF EventIffCreated
<1> QED
    BY <1>1, GateAlways, PTL

LEMMA HitsEntitled ==
    ASSUME GateInv, NEW r \in Req
    PROVE  \A q \in hits[RouteOf(r)] : Permitted(q)
<1>1. RouteOf(r) \in Routes
  <2>1. kind[r] \in Kind /\ \A k \in Kind : k.route \in Routes
        BY GatewayAssumption DEF GateInv, GateTypes, GatewayAssumption
  <2> QED
      BY <2>1 DEF RouteOf
<1> QED
    BY <1>1 DEF GateInv, GateTypes, HitInv

\* A request is answered 429 only when as many hits as its limit are counted, all of
\* them of requests that hold a required role.
THEOREM ThrottlesEntitled == Spec => ThrottledByEntitled
<1> DEFINE Throttling ==
        \A r \in Req : status[r] = 0 /\ status'[r] = 429 =>
            /\ Cardinality(hits[RouteOf(r)]) >= LimitOf(RouteOf(r))
            /\ \A q \in hits[RouteOf(r)] : Permitted(q)
<1>1. GateInv /\ [Next]_vars => [Throttling]_vars
  <2> SUFFICES ASSUME GateInv, Next, NEW r \in Req, status[r] = 0, status'[r] = 429
               PROVE  /\ Throttled(r)
                      /\ \A q \in hits[RouteOf(r)] : Permitted(q)
      BY DEF Throttled
  <2>1. GateTypes /\ \A q \in Req : HitInv(q)
        BY DEF GateInv
  <2>2. PICK q \in Req : InGateway(q) \/ AcquireFails(q) \/ ReleaseFails(q)
        BY DEF Next, Serve, InQueue, Publish, Deliver, Consume,
           Settle, Faulty, MessageLost, PublishFails, ConsumeFails,
           Window, LockExpires, ConsumerCrash, GatewayCrash, Rest, gatewayVars, vars
  <2>3. CASE Admit(q) /\ Refuse(q)
    <3>1. \/ Respond(q, 403)
          \/ Respond(q, 429) /\ Throttled(q)
          \/ Respond(q, 400)
          BY <2>3, CodeOf DEF Refuse, Throw
    <3>2. q = r /\ Throttled(q)
          BY <2>1, <3>1, RespondSets
    <3> QED
        BY <2>1, <3>2, HitsEntitled
  <2>4. CASE ~(Admit(q) /\ Refuse(q))
    <3>1. (\E code \in {200, 201, 401, 409, 500} : Respond(q, code)) \/ status' = status
          BY <2>2, <2>4, CodeOf DEF InGateway, Authenticate, Verify, Admit,
             Handle, Return, TimesOut, Acquire, AcquireFails, SagaEnds, ReleaseFails,
             Throw, Succeed, Enter
    <3>2. status'[r] # 429
          BY <2>1, <3>1, RespondSets
    <3> QED
        BY <3>2
  <2> QED
      BY <2>3, <2>4
<1> QED
    BY <1>1, GateAlways, PTL DEF Spec, ThrottledByEntitled
=============================================================================
