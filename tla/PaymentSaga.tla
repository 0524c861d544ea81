---------------------------- MODULE PaymentSaga ----------------------------
(***************************************************************************)
(* PaymentSagaService.payOrder in the api-gateway, the billing service it  *)
(* calls over TCP, and the orders service (OrderStore) it calls and sends  *)
(* its event to over Redis.  Every remote call is sent, served and         *)
(* answered in steps of their own; a call that times out at the gateway is *)
(* not withdrawn and may be served later.  The distributed lock is that of *)
(* DistributedLock, reduced to who holds the key of an order.              *)
(***************************************************************************)
EXTENDS Naturals, Sequences

CONSTANTS
    Saga,      \* invocations of payOrder
    NoSaga,    \* nobody holds the lock
    Gateway,   \* api-gateway processes
    Order,     \* order ids
    OrderOf,   \* OrderOf[s]: the order that s pays
    GatewayOf, \* GatewayOf[s]: the process that runs s
    ZeroTotal, \* orders without items, whose total amount is 0
    AutoCancel,     \* whether the delay of an auto-cancel job may pass
    BreakerMayOpen, \* whether the circuit breaker of confirm may be open
    Faults,    \* the kinds of fault that may happen
    MaxFaults  \* bound: how many of them

FaultKinds ==
    {"acquire", "timeout", "cancelTimeout", "enqueue", "event", "crash", "lease", "release"}

ASSUME SagaAssumption ==
    /\ NoSaga \notin Saga
    /\ OrderOf \in [Saga -> Order]
    /\ GatewayOf \in [Saga -> Gateway]
    /\ ZeroTotal \subseteq Order
    /\ AutoCancel \in BOOLEAN /\ BreakerMayOpen \in BOOLEAN
    /\ Faults \subseteq FaultKinds
    /\ MaxFaults \in Nat

VARIABLES
    sp,       \* sp[s]: the step of payOrder that s is in
    simulate, \* simulate[s]: the parameter simulateFailure
    result,   \* result[s]: the sagaStatus returned, "ERROR" for an exception
    reply,    \* reply[s]: the answer to the billing call that s awaits
    refunded, \* refunded[s]: the compensation record PAYMENT_REFUND
    cancelled,\* cancelled[s]: the compensation record ORDER_CANCEL
    lock,     \* lock[o]: the value of the Redis key lock:saga:pay:o
    payment,  \* payment[o]: status of the payment of o in billing's store
    line,     \* line[g]: billing requests on the TCP connection of g
    outbox,   \* runs whose PAYMENT_SUCCEEDED is in the outbox
    faults    \* how many faults there were

VARIABLES status, version, job, stalled, pc, expected, writer, dbFaults, crashes

storeVars == <<status, version, job, stalled, pc, expected, writer, dbFaults, crashes>>
sagaVars == <<sp, simulate, result, reply, refunded, cancelled, lock, payment, line, outbox, faults>>
vars == <<sagaVars, storeVars>>

\* What the orders service receives: at most one cancel request and one event
\* of each run, and the auto-cancel job of each order.
Task == (Saga \X {"cancel", "paid"}) \cup (Order \X {"timeout"})
Kind == [t \in Task |-> t[2]]
Target == [t \in Task |-> IF t[2] = "timeout" THEN t[1] ELSE OrderOf[t[1]]]
MaxDbFaults == 0
MaxCrashes == 0

Store == INSTANCE OrderStore

-----------------------------------------------------------------------------
Calling == {"create", "confirm", "refund"}
Running == {"get", "cancel", "enqueue", "release"} \cup Calling
Over == {"done", "refused", "crashed"}

Init ==
    /\ sp = [s \in Saga |-> "idle"]
    /\ simulate = [s \in Saga |-> FALSE]
    /\ result = [s \in Saga |-> "none"]
    /\ reply = [s \in Saga |-> "none"]
    /\ refunded = [s \in Saga |-> "none"]
    /\ cancelled = [s \in Saga |-> "none"]
    /\ lock = [o \in Order |-> NoSaga]
    /\ payment = [o \in Order |-> "none"]
    /\ line = [g \in Gateway |-> <<>>]
    /\ outbox = {}
    /\ faults = 0
    /\ Store!Init

Fault(kind) == kind \in Faults /\ faults < MaxFaults /\ faults' = faults + 1

\* A call to billing: the request goes on the gateway's connection.
Call(s, op) ==
    /\ sp' = [sp EXCEPT ![s] = op]
    /\ reply' = [reply EXCEPT ![s] = "none"]
    /\ line' = [line EXCEPT ![GatewayOf[s]] = Append(@, <<s, op>>)]

\* s goes on to a step that calls nobody yet.
Goto(s, step) == sp' = [sp EXCEPT ![s] = step] /\ UNCHANGED <<reply, line>>

Returns(s, r) == Goto(s, "release") /\ result' = [result EXCEPT ![s] = r]

-----------------------------------------------------------------------------
\* Mutant of Begin: payOrder runs outside the lock.
BeginUnlocked(s, fails) ==
    /\ sp[s] = "idle"
    /\ Goto(s, "get")
    /\ simulate' = [simulate EXCEPT ![s] = fails]
    /\ UNCHANGED <<lock, result, refunded, cancelled, payment, outbox, faults, storeVars>>

\* payOrder: runWithLock gets the key of the order, or throws a conflict.
Begin(s, fails) ==
    /\ sp[s] = "idle"
    /\ \/ /\ lock[OrderOf[s]] = NoSaga
          /\ lock' = [lock EXCEPT ![OrderOf[s]] = s]
          /\ Goto(s, "get")
          /\ simulate' = [simulate EXCEPT ![s] = fails]
       \/ /\ lock[OrderOf[s]] # NoSaga
          /\ Goto(s, "refused")
          /\ UNCHANGED <<lock, simulate>>
    /\ UNCHANGED <<result, refunded, cancelled, payment, outbox, faults, storeVars>>

\* The reply to the SET of the key is lost: runWithLock throws, the key is set.
BeginFails(s) ==
    /\ sp[s] = "idle"
    /\ lock[OrderOf[s]] = NoSaga
    /\ Fault("acquire")
    /\ lock' = [lock EXCEPT ![OrderOf[s]] = s]
    /\ Goto(s, "refused")
    /\ UNCHANGED <<simulate, result, refunded, cancelled, payment, outbox, storeVars>>

\* Step 1: the order is read; an unknown one ends the run with an exception.
\* Its status is not looked at.
GetOrder(s) ==
    /\ sp[s] = "get"
    /\ \/ status[OrderOf[s]] # "NONE" /\ Call(s, "create") /\ UNCHANGED result
       \/ status[OrderOf[s]] = "NONE" /\ Returns(s, "ERROR")
    /\ UNCHANGED <<simulate, refunded, cancelled, lock, payment, outbox, faults, storeVars>>

GetTimesOut(s) ==
    /\ sp[s] = "get"
    /\ Fault("timeout")
    /\ Returns(s, "ERROR")
    /\ UNCHANGED <<simulate, refunded, cancelled, lock, payment, outbox, storeVars>>

\* Step 2 answered: on to the confirmation, or cancel and fail.
CreateReturns(s, answer) ==
    /\ sp[s] = "create"
    /\ \/ answer = "ok" /\ Call(s, "confirm") /\ UNCHANGED result
       \/ /\ answer = "error"
          /\ Goto(s, "cancel")
          /\ result' = [result EXCEPT ![s] = "PAYMENT_CREATE_FAILED"]

\* Mutant of ConfirmReturns: an exception of the confirmation only cancels.
ConfirmReturnsNoRefund(s, answer) ==
    /\ sp[s] = "confirm"
    /\ \/ answer = "ok" /\ Goto(s, "enqueue") /\ UNCHANGED result
       \/ /\ answer \in {"error", "pending"}
          /\ Goto(s, "cancel")
          /\ result' = [result EXCEPT ![s] = "COMPENSATED"]

\* Mutant of ConfirmReturns: whatever status confirm returns is a success.
ConfirmReturnsUnchecked(s, answer) ==
    /\ sp[s] = "confirm"
    /\ \/ answer \in {"ok", "pending"} /\ Goto(s, "enqueue") /\ UNCHANGED result
       \/ /\ answer = "error"
          /\ Call(s, "refund")
          /\ result' = [result EXCEPT ![s] = "COMPENSATED"]

\* Step 3 answered: enqueue the event; or refund and cancel after an exception;
\* or only cancel after a status other than SUCCEEDED.
ConfirmReturns(s, answer) ==
    /\ sp[s] = "confirm"
    /\ \/ answer = "ok" /\ Goto(s, "enqueue") /\ UNCHANGED result
       \/ /\ answer = "error"
          /\ Call(s, "refund")
          /\ result' = [result EXCEPT ![s] = "COMPENSATED"]
       \/ /\ answer = "pending"
          /\ Goto(s, "cancel")
          /\ result' = [result EXCEPT ![s] = "COMPENSATED"]

\* Mutant of RefundReturns: a refund that fails is tried again.
RefundRetries(s, answer) ==
    /\ sp[s] = "refund"
    /\ \/ answer = "ok" /\ refunded' = [refunded EXCEPT ![s] = "ok"] /\ Goto(s, "cancel")
       \/ answer = "error" /\ Call(s, "refund") /\ UNCHANGED refunded
    /\ UNCHANGED result

\* safeCompensate records how the refund ended and lets the run go on.
RefundReturns(s, answer) ==
    /\ sp[s] = "refund"
    /\ refunded' = [refunded EXCEPT ![s] = answer]
    /\ Goto(s, "cancel")
    /\ UNCHANGED result

Returned(s, answer) ==
    /\ \/ CreateReturns(s, answer) /\ UNCHANGED refunded
       \/ ConfirmReturns(s, answer) /\ UNCHANGED refunded
       \/ RefundReturns(s, answer)
    /\ UNCHANGED <<simulate, cancelled, lock, payment, outbox, storeVars>>

\* The answer of billing arrives in time.
Answered(s) ==
    /\ sp[s] \in Calling
    /\ reply[s] # "none"
    /\ Returned(s, reply[s])
    /\ UNCHANGED faults

\* ClientProxyFactoryService.call gives up.  The request stays where it is: on
\* the connection, or already served.
CallTimesOut(s) ==
    /\ sp[s] \in Calling
    /\ Fault("timeout")
    /\ Returned(s, "error")

CancelTask(s) == <<s, "cancel">>
PaidTask(s) == <<s, "paid">>

\* Compensation ORDER_CANCEL: the request reaches the orders service.
SendCancel(s) ==
    /\ sp[s] = "cancel"
    /\ Store!Receive(CancelTask(s))
    /\ UNCHANGED sagaVars

CancelReturns(s, answer) ==
    /\ sp[s] = "cancel"
    /\ cancelled' = [cancelled EXCEPT ![s] = answer]
    /\ Goto(s, "release")
    /\ UNCHANGED <<simulate, result, refunded, lock, payment, outbox, storeVars>>

CancelAnswered(s) ==
    /\ pc[CancelTask(s)] \in Store!Ended
    /\ CancelReturns(s, IF pc[CancelTask(s)] = "ok" THEN "ok" ELSE "error")
    /\ UNCHANGED faults

\* The request is lost, or the orders service is too slow to answer it.
CancelTimesOut(s) ==
    /\ Fault("cancelTimeout")
    /\ CancelReturns(s, "error")

\* Mutant of Enqueue: the run succeeds without its event.
EnqueueForgets(s) ==
    /\ sp[s] = "enqueue"
    /\ Returns(s, "SUCCEEDED")
    /\ UNCHANGED <<simulate, refunded, cancelled, lock, payment, outbox, faults, storeVars>>

\* Step 4: the event is in the outbox and the run has succeeded.
Enqueue(s) ==
    /\ sp[s] = "enqueue"
    /\ Returns(s, "SUCCEEDED")
    /\ outbox' = outbox \cup {s}
    /\ UNCHANGED <<simulate, refunded, cancelled, lock, payment, faults, storeVars>>

\* LPUSH fails, or only its reply is lost: payOrder throws, and nothing is
\* compensated.
EnqueueFails(s) ==
    /\ sp[s] = "enqueue"
    /\ Fault("enqueue")
    /\ Returns(s, "ERROR")
    /\ outbox' \in {outbox, outbox \cup {s}}
    /\ UNCHANGED <<simulate, refunded, cancelled, lock, payment, storeVars>>

\* runWithLock's finally: the key is deleted if it is still the run's own.
Release(s) ==
    /\ sp[s] = "release"
    /\ Goto(s, "done")
    /\ lock' = [lock EXCEPT ![OrderOf[s]] = IF @ = s THEN NoSaga ELSE @]
    /\ UNCHANGED <<simulate, result, refunded, cancelled, payment, outbox, faults, storeVars>>

\* The release fails and is only logged.
ReleaseFails(s) ==
    /\ sp[s] = "release"
    /\ Fault("release")
    /\ Goto(s, "done")
    /\ UNCHANGED <<simulate, result, refunded, cancelled, lock, payment, outbox, storeVars>>

\* Mutant of LeaseExpires: the lock key has no expiry.
LeaseNeverExpires(o) == FALSE /\ UNCHANGED vars

\* The key of a run that is over and did not give it back expires.
LeaseExpires(o) ==
    /\ lock[o] # NoSaga
    /\ sp[lock[o]] \in Over
    /\ lock' = [lock EXCEPT ![o] = NoSaga]
    /\ UNCHANGED <<sp, simulate, result, reply, refunded, cancelled, payment, line, outbox, faults, storeVars>>

\* The key expires under its run, which was not able to renew it in time.
LeaseLost(o) ==
    /\ lock[o] # NoSaga
    /\ sp[lock[o]] \notin Over
    /\ Fault("lease")
    /\ lock' = [lock EXCEPT ![o] = NoSaga]
    /\ UNCHANGED <<sp, simulate, result, reply, refunded, cancelled, payment, line, outbox, storeVars>>

-----------------------------------------------------------------------------
\* Billing's handlers.  confirm and refund have no await between reading and
\* writing the store; createPayment awaits only its idempotency key, whose races
\* are those of Idempotency, and is one step here.  Serves is one outcome of the
\* call op of s: from a status in before to after, with an answer that is dropped
\* when s no longer awaits it.
Serves(s, op, before, after, answer) ==
    LET o == OrderOf[s] IN
    /\ payment[o] \in before
    /\ payment' = [payment EXCEPT ![o] = after]
    /\ reply' = [reply EXCEPT ![s] = IF sp[s] = op THEN answer ELSE @]

\* The outcome that leaves the payment as it is.
Keeps(s, op, before, answer) == Serves(s, op, before, payment[OrderOf[s]], answer)

Statuses == {"none", "CREATED", "SUCCEEDED", "REFUNDED"}

\* createPayment: one payment per order, by the idempotency key; an amount that
\* is not positive is refused.
CreatePayment(s) ==
    \/ OrderOf[s] \in ZeroTotal /\ Keeps(s, "create", Statuses, "error")
    \/ /\ OrderOf[s] \notin ZeroTotal
       /\ \/ Serves(s, "create", {"none"}, "CREATED", "ok")
          \/ Keeps(s, "create", Statuses \ {"none"}, "ok")

\* confirmPayment: a payment that has succeeded is returned as it is; any other
\* is charged, and simulateFailure then throws all the same.  An open breaker
\* answers with the fallback, whose status is CREATED, and touches nothing.
ConfirmPayment(s) ==
    \/ Keeps(s, "confirm", {"SUCCEEDED"}, "ok")
    \/ Serves(s, "confirm", {"CREATED", "REFUNDED"}, "SUCCEEDED",
              IF simulate[s] THEN "error" ELSE "ok")
    \/ BreakerMayOpen /\ Keeps(s, "confirm", Statuses, "pending")

\* Mutant of Refund: it answers before it has changed the payment.
RefundAnswersOnly(s) == Keeps(s, "refund", Statuses, "ok")

\* refund: only a payment that has succeeded.
Refund(s) ==
    \/ Serves(s, "refund", {"SUCCEEDED"}, "REFUNDED", "ok")
    \/ Keeps(s, "refund", Statuses \ {"SUCCEEDED"}, "error")

\* Billing takes the next request of a gateway's connection.
Serve(g) ==
    /\ line[g] # <<>>
    /\ LET s == Head(line[g])[1]
           op == Head(line[g])[2] IN
       \/ op = "create" /\ CreatePayment(s)
       \/ op = "confirm" /\ ConfirmPayment(s)
       \/ op = "refund" /\ Refund(s)
    /\ line' = [line EXCEPT ![g] = Tail(@)]
    /\ UNCHANGED <<sp, simulate, result, refunded, cancelled, lock, outbox, faults, storeVars>>

\* The outbox relay publishes the event of s and the orders service gets it.
Relay(s) ==
    /\ s \in outbox
    /\ outbox' = outbox \ {s}
    /\ Store!Receive(PaidTask(s))
    /\ UNCHANGED <<sp, simulate, result, reply, refunded, cancelled, lock, payment, line, faults>>

\* It is published while the orders service does not listen.
RelayUnheard(s) ==
    /\ s \in outbox
    /\ Fault("event")
    /\ outbox' = outbox \ {s}
    /\ UNCHANGED <<sp, simulate, result, reply, refunded, cancelled, lock, payment, line, storeVars>>

\* A gateway dies with all its runs.  What is on its connection is lost or is
\* still read by billing.
GatewayCrash(g) ==
    /\ Fault("crash")
    /\ sp' = [s \in Saga |-> IF GatewayOf[s] = g /\ sp[s] \in Running THEN "crashed" ELSE sp[s]]
    /\ \E kept \in {line[g], <<>>} : line' = [line EXCEPT ![g] = kept]
    /\ UNCHANGED <<simulate, result, reply, refunded, cancelled, lock, payment, outbox, storeVars>>

-----------------------------------------------------------------------------
\* The orders service by itself.  The auto-cancel delay passes only if AutoCancel.
StoreStep ==
    /\ \/ \E o \in Order : Store!Create(o) \/ Store!Schedule(o)
       \/ \E t \in Task : (t[2] = "timeout" => AutoCancel) /\ Store!Step(t)
    /\ UNCHANGED sagaVars

\* Every run is over and nothing is left to do for anybody.
Rest ==
    /\ \A s \in Saga : sp[s] \in Over
    /\ outbox = {} /\ \A g \in Gateway : line[g] = <<>>
    /\ \A t \in Task : pc[t] \notin Store!Awaiting
    /\ UNCHANGED vars

Step(s) ==
    \/ GetOrder(s) \/ Answered(s) \/ SendCancel(s) \/ CancelAnswered(s)
    \/ Enqueue(s) \/ Release(s)

Faulty(s) ==
    \/ BeginFails(s) \/ GetTimesOut(s) \/ CallTimesOut(s) \/ CancelTimesOut(s)
    \/ EnqueueFails(s) \/ ReleaseFails(s) \/ RelayUnheard(s)

Next ==
    \/ \E s \in Saga : \E fails \in BOOLEAN : Begin(s, fails)
    \/ \E s \in Saga : Step(s) \/ Faulty(s) \/ Relay(s)
    \/ \E o \in Order : LeaseExpires(o) \/ LeaseLost(o)
    \/ \E g \in Gateway : Serve(g) \/ GatewayCrash(g)
    \/ StoreStep
    \/ Rest

Spec == Init /\ [][Next]_vars

\* Runs, billing, relay and handlers go on, and abandoned keys expire; nobody is
\* obliged to create or to pay an order.
FairSpec ==
    /\ Spec
    /\ \A s \in Saga : WF_vars(Step(s)) /\ WF_vars(Relay(s))
    /\ \A g \in Gateway : WF_vars(Serve(g))
    /\ \A o \in Order : WF_vars(LeaseExpires(o))
    /\ \A t \in Task : WF_vars((t[2] = "timeout" => AutoCancel) /\ Store!Step(t) /\ UNCHANGED sagaVars)

-----------------------------------------------------------------------------
\* The types of the saga's own variables; those of the orders service have the
\* types of OrderStore, which it runs as it is.
TypeOK ==
    /\ sp \in [Saga -> {"idle"} \cup Running \cup Over]
    /\ simulate \in [Saga -> BOOLEAN]
    /\ result \in [Saga -> {"none", "SUCCEEDED", "PAYMENT_CREATE_FAILED", "COMPENSATED", "ERROR"}]
    /\ reply \in [Saga -> {"none", "ok", "error", "pending"}]
    /\ refunded \in [Saga -> {"none", "ok", "error"}]
    /\ cancelled \in [Saga -> {"none", "ok", "error"}]
    /\ lock \in [Order -> Saga \cup {NoSaga}]
    /\ payment \in [Order -> Statuses]
    /\ line \in [Gateway -> Seq(Saga \X Calling)]
    /\ outbox \subseteq Saga
    /\ faults \in 0..MaxFaults

\* "The same order is never paid concurrently" (class comment): as long as no
\* lock expires under a run, there is one run in progress per order.
OneRunPerOrder ==
    \A s, u \in Saga :
        sp[s] \in Running /\ sp[u] \in Running /\ OrderOf[s] = OrderOf[u] => s = u

\* When a run is about to announce PAYMENT_SUCCEEDED the money is indeed taken:
\* nothing that an earlier run left behind has undone the confirmation.
ChargedAtEnqueue ==
    \A s \in Saga : sp[s] = "enqueue" => payment[OrderOf[s]] = "SUCCEEDED"

\* A run that recorded its refund as done, and still holds the lock of the order,
\* leaves the payment refunded: no late request of another run charges again.
RefundHolds ==
    \A s \in Saga :
        refunded[s] = "ok" /\ lock[OrderOf[s]] = s => payment[OrderOf[s]] = "REFUNDED"

\* Nothing about o is under way any more.
Settled(o) ==
    /\ \A s \in Saga : OrderOf[s] = o => sp[s] \in {"idle"} \cup Over /\ s \notin outbox
    /\ \A g \in Gateway : \A k \in DOMAIN line[g] : OrderOf[line[g][k][1]] # o
    /\ \A t \in Task : Target[t] = o => pc[t] \notin Store!Awaiting

\* Nobody but one run has dealt with o: no second run after a first that was
\* compensated, and no auto-cancel job.
Undisturbed(o) ==
    /\ \A s, u \in Saga :
          /\ OrderOf[s] = o /\ OrderOf[u] = o
          /\ sp[s] \notin {"idle", "refused"} /\ sp[u] \notin {"idle", "refused"}
          => s = u
    /\ job[o] \notin {"active", "completed", "failed"}

\* "Either everything succeeds, or it is rolled back" (class comment of
\* PaymentSagaService): once settled, an order that one run has dealt with is
\* PAID exactly if its payment is charged and not refunded, also when billing
\* served the calls long after the run gave up on them.
AllOrNothing ==
    \A o \in Order : Settled(o) /\ Undisturbed(o) =>
        (status[o] = "PAID" <=> payment[o] = "SUCCEEDED")

\* What a reported success is worth ("the order finally becomes PAID", comment of
\* payOrder): once settled, an order that some run has paid for is not PENDING.  It is
\* PAID, or the event was skipped for, or overwritten by, a cancellation that the
\* auto-cancel job or another run of the order has made, for which the code has no remedy.
SuccessSettlesOrder ==
    \A s \in Saga :
        LET o == OrderOf[s] IN
        result[s] = "SUCCEEDED" /\ Settled(o) =>
            \/ status[o] = "PAID"
            \/ /\ status[o] = "CANCELLED"
               /\ \/ pc[<<o, "timeout">>] # "idle"
                  \/ \E u \in Saga :
                        /\ OrderOf[u] = o
                        /\ result[u] \in {"PAYMENT_CREATE_FAILED", "COMPENSATED"}

\* Every run comes to its end and every lock is given back, through timeouts,
\* crashes of the gateway and failed releases.
RunsEnd == \A s \in Saga : (sp[s] \in Running) ~> (sp[s] \in Over)
LocksFreed == \A s \in Saga : (lock[OrderOf[s]] = s) ~> (lock[OrderOf[s]] # s)
=============================================================================
