------------------------- MODULE PaymentSaga_proofs -------------------------
(***************************************************************************)
(* What holds of the payment saga for every set of runs, gateways and      *)
(* orders and every number of faults.                                      *)
(***************************************************************************)
EXTENDS PaymentSaga, TLAPS

\* The deliveries of the composition are deliveries of OrderStore.
LEMMA TaskTypes ==
  /\ Kind \in [Task -> {"cancel", "paid", "timeout"}]
  /\ Target \in [Task -> Order]
  /\ \A s \in Saga : CancelTask(s) \in Task /\ PaidTask(s) \in Task
BY SagaAssumption DEF Task, Kind, Target, CancelTask, PaidTask

\* What the composition lets the orders service do: neither its database nor its
\* process fails.
OrdersStep ==
    \/ \E o \in Order : Store!Create(o) \/ Store!Schedule(o)
    \/ \E t \in Task : Store!Receive(t) \/ Store!Step(t)
    \/ UNCHANGED storeVars

LEMMA StoreSteps == [Next]_vars => OrdersStep
<1> SUFFICES ASSUME [Next]_vars PROVE OrdersStep
  OBVIOUS
<1>1. ASSUME NEW s \in Saga, NEW fails \in BOOLEAN, Begin(s, fails)
      PROVE OrdersStep
  BY <1>1 DEF OrdersStep, Begin
<1>2. ASSUME NEW s \in Saga, Step(s) PROVE OrdersStep
  <2>1. CASE SendCancel(s)
    BY <2>1, TaskTypes DEF SendCancel, OrdersStep
  <2>2. CASE GetOrder(s) \/ Answered(s)
    BY <2>2 DEF OrdersStep, GetOrder, Answered, Returned
  <2>3. CASE CancelAnswered(s) \/ Enqueue(s) \/ Release(s)
    BY <2>3 DEF OrdersStep, CancelAnswered, CancelReturns, Enqueue, Release
  <2> QED
    BY <1>2, <2>1, <2>2, <2>3 DEF Step
<1>3. ASSUME NEW s \in Saga, Faulty(s) PROVE OrdersStep
  BY <1>3 DEF OrdersStep, Faulty, BeginFails, GetTimesOut, CallTimesOut, Returned, CancelTimesOut, CancelReturns,
              EnqueueFails, ReleaseFails, RelayUnheard
<1>4. ASSUME NEW s \in Saga, Relay(s) PROVE OrdersStep
  BY <1>4, TaskTypes DEF Relay, OrdersStep
<1>5. ASSUME NEW o \in Order, LeaseExpires(o) \/ LeaseLost(o)
      PROVE  OrdersStep
  BY <1>5 DEF OrdersStep, LeaseExpires, LeaseLost
<1>6. ASSUME NEW g \in Gateway, Serve(g) \/ GatewayCrash(g)
      PROVE OrdersStep
  BY <1>6 DEF OrdersStep, Serve, GatewayCrash
<1>7. ASSUME StoreStep PROVE OrdersStep
  BY <1>7 DEF StoreStep, OrdersStep
<1>8. CASE UNCHANGED vars
  BY <1>8 DEF OrdersStep, vars
<1> QED
  BY <1>1, <1>2, <1>3, <1>4, <1>5, <1>6, <1>7, <1>8 DEF Next, Rest

\* The saga uses the orders service only through its handlers: seen from the
\* orders service every behaviour of the composition is one of OrderStore, so
\* what is proved of OrderStore holds of orders that are paid by sagas.
THEOREM UsesOrderStore == Spec => Store!Spec
<1>1. Init => Store!Init
  BY DEF Init
<1>2. [Next]_vars => [Store!Next]_storeVars
  BY StoreSteps DEF OrdersStep, Store!Next
<1> QED
  BY <1>1, <1>2, PTL DEF Spec, Store!Spec, Store!vars, storeVars

-----------------------------------------------------------------------------
\* What one run does to its own entries keeps the types.
LEMMA CallTypes ==
  ASSUME TypeOK, NEW s \in Saga, NEW op \in Calling, Call(s, op)
  PROVE  /\ sp' \in [Saga -> {"idle"} \cup Running \cup Over]
         /\ reply' \in [Saga -> {"none", "ok", "error", "pending"}]
         /\ line' \in [Gateway -> Seq(Saga \X Calling)]
<1>1. GatewayOf[s] \in Gateway /\ line[GatewayOf[s]] \in Seq(Saga \X Calling)
  BY SagaAssumption DEF TypeOK
<1>2. Append(line[GatewayOf[s]], <<s, op>>) \in Seq(Saga \X Calling)
  BY <1>1
<1> QED
  BY <1>1, <1>2 DEF TypeOK, Call, Running

LEMMA GotoTypes ==
  ASSUME TypeOK, NEW s \in Saga, NEW step \in Running \cup Over, Goto(s, step)
  PROVE  /\ sp' \in [Saga -> {"idle"} \cup Running \cup Over]
         /\ reply' \in [Saga -> {"none", "ok", "error", "pending"}]
         /\ line' \in [Gateway -> Seq(Saga \X Calling)]
BY DEF TypeOK, Goto

LEMMA FaultTypes ==
  ASSUME TypeOK, NEW kind, Fault(kind) \/ UNCHANGED faults
  PROVE  faults' \in 0..MaxFaults
BY SagaAssumption DEF TypeOK, Fault

\* The answers a run gets, and what it makes of them.
LEMMA ReturnedTypes ==
  ASSUME TypeOK, NEW s \in Saga, NEW answer \in {"ok", "error", "pending"},
         Returned(s, answer), faults' \in 0..MaxFaults,
         sp[s] = "refund" => answer # "pending"
  PROVE  TypeOK'
<1>1. CASE CreateReturns(s, answer) /\ UNCHANGED refunded
  <2>1. CASE Call(s, "confirm") /\ UNCHANGED result
    BY <1>1, <2>1, CallTypes DEF Returned, TypeOK, Calling
  <2>2. CASE Goto(s, "cancel") /\ result' = [result EXCEPT ![s] = "PAYMENT_CREATE_FAILED"]
    BY <1>1, <2>2, GotoTypes DEF Returned, TypeOK, Running
  <2> QED
    BY <1>1, <2>1, <2>2 DEF CreateReturns
<1>2. CASE ConfirmReturns(s, answer) /\ UNCHANGED refunded
  <2>1. CASE Goto(s, "enqueue") /\ UNCHANGED result
    BY <1>2, <2>1, GotoTypes DEF Returned, TypeOK, Running
  <2>2. CASE Call(s, "refund") /\ result' = [result EXCEPT ![s] = "COMPENSATED"]
    BY <1>2, <2>2, CallTypes DEF Returned, TypeOK, Calling
  <2>3. CASE Goto(s, "cancel") /\ result' = [result EXCEPT ![s] = "COMPENSATED"]
    BY <1>2, <2>3, GotoTypes DEF Returned, TypeOK, Running
  <2> QED
    BY <1>2, <2>1, <2>2, <2>3 DEF ConfirmReturns
<1>3. CASE RefundReturns(s, answer)
  BY <1>3, GotoTypes DEF Returned, RefundReturns, TypeOK, Running
<1> QED
  BY <1>1, <1>2, <1>3 DEF Returned

\* The type invariant, with what makes it inductive: only a confirmation is
\* answered "pending".
TypeInv == TypeOK /\ \A s \in Saga : sp[s] = "refund" => reply[s] # "pending"

\* What billing does to the payment and to the answer.
LEMMA ServesTypes ==
  ASSUME TypeInv, NEW s \in Saga, NEW op \in Calling, NEW before, NEW after \in Statuses,
         NEW answer \in {"ok", "error", "pending"}, Serves(s, op, before, after, answer),
         op = "refund" => answer # "pending", UNCHANGED sp
  PROVE  /\ payment' \in [Order -> Statuses]
         /\ reply' \in [Saga -> {"none", "ok", "error", "pending"}]
         /\ \A u \in Saga : sp'[u] = "refund" => reply'[u] # "pending"
BY SagaAssumption DEF TypeInv, TypeOK, Serves

\* Every step keeps the types.
LEMMA TypeStep == TypeInv /\ [Next]_vars => TypeInv'
<1> SUFFICES ASSUME TypeInv, [Next]_vars PROVE TypeInv'
  OBVIOUS
<1> USE SagaAssumption
<1>0. TypeOK /\ \A s \in Saga : OrderOf[s] \in Order /\ GatewayOf[s] \in Gateway
  BY DEF TypeInv
<1>1. ASSUME NEW s \in Saga, Goto(s, "get") \/ Goto(s, "cancel") \/ Goto(s, "enqueue")
                             \/ Goto(s, "release") \/ Goto(s, "done") \/ Goto(s, "refused")
      PROVE  /\ sp' \in [Saga -> {"idle"} \cup Running \cup Over]
             /\ reply' \in [Saga -> {"none", "ok", "error", "pending"}]
             /\ line' \in [Gateway -> Seq(Saga \X Calling)]
             /\ \A u \in Saga : sp'[u] = "refund" => reply'[u] # "pending"
  <2>1. PICK step \in (Running \cup Over) \ {"refund"} : Goto(s, step)
    BY <1>1 DEF Running, Over
  <2>2. \A u \in Saga : sp'[u] = "refund" => reply'[u] # "pending"
    BY <2>1 DEF TypeInv, TypeOK, Goto
  <2> QED
    BY <1>0, <2>1, <2>2, GotoTypes
<1>2. ASSUME NEW s \in Saga, NEW op \in Calling, Call(s, op)
      PROVE  /\ sp' \in [Saga -> {"idle"} \cup Running \cup Over]
             /\ reply' \in [Saga -> {"none", "ok", "error", "pending"}]
             /\ line' \in [Gateway -> Seq(Saga \X Calling)]
             /\ \A u \in Saga : sp'[u] = "refund" => reply'[u] # "pending"
  <2>1. \A u \in Saga : sp'[u] = "refund" => reply'[u] # "pending"
    BY <1>2 DEF TypeInv, TypeOK, Call
  <2> QED
    BY <1>0, <1>2, <2>1, CallTypes
<1>3. ASSUME NEW s \in Saga, NEW fails \in BOOLEAN, Begin(s, fails) PROVE TypeInv'
  <2>1. Goto(s, "get") \/ Goto(s, "refused")
    BY <1>3 DEF Begin
  <2>2. lock' \in [Order -> Saga \cup {NoSaga}]
    BY <1>0, <1>3 DEF Begin, TypeOK
  <2>3. simulate' \in [Saga -> BOOLEAN]
    BY <1>0, <1>3, Zenon DEF Begin, TypeOK
  <2> QED
    BY <1>1, <1>3, <2>1, <2>2, <2>3 DEF Begin, TypeInv, TypeOK
<1>4. ASSUME NEW s \in Saga, BeginFails(s) PROVE TypeInv'
  BY <1>0, <1>1, <1>4, FaultTypes DEF BeginFails, TypeInv, TypeOK
<1>5. ASSUME NEW s \in Saga, GetOrder(s) PROVE TypeInv'
  <2>1. CASE Call(s, "create") /\ UNCHANGED result
    BY <1>2, <1>5, <2>1 DEF GetOrder, TypeInv, TypeOK, Calling
  <2>2. CASE Returns(s, "ERROR")
    BY <1>1, <1>5, <2>2 DEF GetOrder, Returns, TypeInv, TypeOK
  <2> QED
    BY <1>5, <2>1, <2>2 DEF GetOrder
<1>6. ASSUME NEW s \in Saga, GetTimesOut(s) PROVE TypeInv'
  BY <1>0, <1>1, <1>6, FaultTypes DEF GetTimesOut, Returns, TypeInv, TypeOK
<1>7. ASSUME NEW s \in Saga, NEW answer \in {"ok", "error", "pending"}, Returned(s, answer),
             faults' \in 0..MaxFaults, sp[s] = "refund" => answer # "pending"
      PROVE  TypeInv'
  <2>1. TypeOK'
    BY <1>0, <1>7, ReturnedTypes
  <2>2. \/ \E op \in Calling : Call(s, op)
        \/ Goto(s, "cancel") \/ Goto(s, "enqueue")
    BY <1>7 DEF Returned, CreateReturns, ConfirmReturns, RefundReturns, Calling
  <2> QED
    BY <1>1, <1>2, <2>1, <2>2 DEF TypeInv
<1>8. ASSUME NEW s \in Saga, Answered(s) PROVE TypeInv'
  <2>1. reply[s] \in {"ok", "error", "pending"} /\ (sp[s] = "refund" => reply[s] # "pending")
    BY <1>8 DEF Answered, TypeInv, TypeOK
  <2>2. faults' \in 0..MaxFaults /\ Returned(s, reply[s])
    BY <1>8 DEF Answered, TypeInv, TypeOK
  <2> QED
    BY <1>7, <2>1, <2>2
<1>9. ASSUME NEW s \in Saga, CallTimesOut(s) PROVE TypeInv'
  BY <1>0, <1>7, <1>9, FaultTypes DEF CallTimesOut
<1>10. ASSUME NEW s \in Saga, NEW answer \in {"ok", "error"}, CancelReturns(s, answer),
              faults' \in 0..MaxFaults
       PROVE  TypeInv'
  BY <1>1, <1>10 DEF CancelReturns, TypeInv, TypeOK
<1>11. ASSUME NEW s \in Saga, CancelAnswered(s) \/ CancelTimesOut(s) PROVE TypeInv'
  <2>1. faults' \in 0..MaxFaults
    BY <1>0, <1>11, FaultTypes DEF CancelAnswered, CancelTimesOut
  <2>2. \E answer \in {"ok", "error"} : CancelReturns(s, answer)
    BY <1>11 DEF CancelAnswered, CancelTimesOut
  <2> QED
    BY <1>10, <2>1, <2>2
<1>12. ASSUME NEW s \in Saga, Enqueue(s) PROVE TypeInv'
  BY <1>1, <1>12 DEF Enqueue, Returns, TypeInv, TypeOK
<1>13. ASSUME NEW s \in Saga, EnqueueFails(s) PROVE TypeInv'
  BY <1>0, <1>1, <1>13, FaultTypes DEF EnqueueFails, Returns, TypeInv, TypeOK
<1>14. ASSUME NEW s \in Saga, Release(s) PROVE TypeInv'
  BY <1>0, <1>1, <1>14 DEF Release, TypeInv, TypeOK
<1>15. ASSUME NEW s \in Saga, ReleaseFails(s) PROVE TypeInv'
  BY <1>0, <1>1, <1>15, FaultTypes DEF ReleaseFails, TypeInv, TypeOK
<1>16. ASSUME NEW s \in Saga, Relay(s) \/ RelayUnheard(s) PROVE TypeInv'
  <2>1. faults' \in 0..MaxFaults
    BY <1>0, <1>16, FaultTypes DEF Relay, RelayUnheard
  <2> QED
    BY <1>16, <2>1 DEF Relay, RelayUnheard, TypeInv, TypeOK
<1>17. ASSUME NEW o \in Order, LeaseExpires(o) \/ LeaseLost(o) PROVE TypeInv'
  <2>1. faults' \in 0..MaxFaults
    BY <1>0, <1>17, FaultTypes DEF LeaseExpires, LeaseLost
  <2> QED
    BY <1>17, <2>1 DEF LeaseExpires, LeaseLost, TypeInv, TypeOK
<1>18. ASSUME NEW g \in Gateway, Serve(g) PROVE TypeInv'
  <2> DEFINE s == Head(line[g])[1]
             op == Head(line[g])[2]
  <2>1. line[g] \in Seq(Saga \X Calling) /\ line[g] # <<>>
    BY <1>18 DEF Serve, TypeInv, TypeOK
  <2>2. s \in Saga /\ op \in Calling /\ Tail(line[g]) \in Seq(Saga \X Calling)
    <3>1. Head(line[g]) \in Saga \X Calling /\ Tail(line[g]) \in Seq(Saga \X Calling)
      BY <2>1
    <3> QED
      BY <3>1
  <2>3. UNCHANGED sp /\ line' \in [Gateway -> Seq(Saga \X Calling)]
    BY <1>18, <2>2 DEF Serve, TypeInv, TypeOK
  <2>4. payment[OrderOf[s]] \in Statuses
    BY <1>0, <2>2 DEF TypeOK
  <2>5. \E before : \E after \in Statuses : \E answer \in {"ok", "error", "pending"} :
            Serves(s, op, before, after, answer) /\ (op = "refund" => answer # "pending")
    <3>1. CASE op = "create" /\ CreatePayment(s)
      <4>1. "CREATED" \in Statuses
        BY DEF Statuses
      <4> QED
        BY <2>4, <3>1, <4>1 DEF CreatePayment, Keeps
    <3>2. CASE op = "confirm" /\ ConfirmPayment(s)
      <4>1. "SUCCEEDED" \in Statuses
        BY DEF Statuses
      <4>2. (IF simulate[s] THEN "error" ELSE "ok") \in {"ok", "error", "pending"}
        OBVIOUS
      <4> QED
        BY <2>4, <3>2, <4>1, <4>2 DEF ConfirmPayment, Keeps
    <3>3. CASE op = "refund" /\ Refund(s)
      <4>1. "REFUNDED" \in Statuses
        BY DEF Statuses
      <4> QED
        BY <2>4, <3>3, <4>1 DEF Refund, Keeps
    <3> QED
      BY <1>18, <3>1, <3>2, <3>3 DEF Serve
  <2>6. /\ payment' \in [Order -> Statuses]
        /\ reply' \in [Saga -> {"none", "ok", "error", "pending"}]
        /\ \A u \in Saga : sp'[u] = "refund" => reply'[u] # "pending"
    BY <2>2, <2>3, <2>5, ServesTypes
  <2> QED
    BY <1>18, <2>3, <2>6 DEF Serve, TypeInv, TypeOK
<1>19. ASSUME NEW g \in Gateway, GatewayCrash(g) PROVE TypeInv'
  <2>1. faults' \in 0..MaxFaults
    BY <1>0, <1>19, FaultTypes DEF GatewayCrash
  <2>2. line' \in [Gateway -> Seq(Saga \X Calling)]
    <3>1. PICK kept \in {line[g], <<>>} : line' = [line EXCEPT ![g] = kept]
      BY <1>19 DEF GatewayCrash
    <3>2. line \in [Gateway -> Seq(Saga \X Calling)] /\ <<>> \in Seq(Saga \X Calling)
      BY DEF TypeInv, TypeOK
    <3> QED
      BY <3>1, <3>2
  <2>3. sp' \in [Saga -> {"idle"} \cup Running \cup Over]
    BY <1>19 DEF GatewayCrash, TypeInv, TypeOK, Over
  <2>4. \A u \in Saga : sp'[u] = "refund" => sp[u] = "refund"
    BY <1>19 DEF GatewayCrash
  <2> QED
    BY <1>19, <2>1, <2>2, <2>3, <2>4 DEF GatewayCrash, TypeInv, TypeOK
<1>20. CASE StoreStep \/ (\E s \in Saga : SendCancel(s)) \/ UNCHANGED vars
  BY <1>20 DEF StoreStep, SendCancel, vars, sagaVars, TypeInv, TypeOK
<1> QED
  BY <1>3, <1>4, <1>5, <1>6, <1>8, <1>9, <1>11, <1>12, <1>13, <1>14, <1>15, <1>16, <1>17, <1>18,
     <1>19, <1>20 DEF Next, Step, Faulty, Rest

\* The saga's variables keep their types, for any runs, gateways, orders and faults:
\* in particular a refund is answered yes or no, and never with a fallback.
THEOREM TypeCorrect == Spec => []TypeOK
<1>1. Init => TypeInv
  BY SagaAssumption DEF Init, TypeInv, TypeOK, Statuses
<1>2. TypeInv => TypeOK
  BY DEF TypeInv
<1> QED
  BY <1>1, <1>2, TypeStep, PTL DEF Spec

-----------------------------------------------------------------------------
(* A run in progress holds the lock of its order. *)
RunInv ==
  /\ sp \in [Saga -> {"idle"} \cup Running \cup Over]
  /\ lock \in [Order -> Saga \cup {NoSaga}]
  /\ \A s \in Saga : sp[s] \in Running => lock[OrderOf[s]] = s

\* A step of s that moves it from one step in progress to another, or to its end,
\* and that leaves the locks alone keeps the invariant.
LEMMA MoveKeepsRunInv ==
  ASSUME RunInv, NEW s \in Saga, sp[s] \in Running, NEW step \in Running \cup Over,
         sp' = [sp EXCEPT ![s] = step], UNCHANGED lock
  PROVE  RunInv'
BY DEF RunInv

\* Every step keeps the invariant, if no lease expires under its run.
LEMMA NextRunInv ==
  ASSUME "lease" \notin Faults, RunInv, [Next]_vars
  PROVE  RunInv'
<1> USE SagaAssumption
<1>1. ASSUME NEW s \in Saga, NEW fails \in BOOLEAN, Begin(s, fails) PROVE RunInv'
  <2>1. CASE lock[OrderOf[s]] = NoSaga /\ lock' = [lock EXCEPT ![OrderOf[s]] = s] /\ Goto(s, "get")
    <3>1. \A u \in Saga : sp[u] \in Running => OrderOf[u] # OrderOf[s]
      BY <2>1 DEF RunInv
    <3>2. sp' = [sp EXCEPT ![s] = "get"] /\ "get" \in Running /\ OrderOf[s] \in Order
      BY <2>1 DEF Goto, Running
    <3> QED
      BY <2>1, <3>1, <3>2 DEF RunInv
  <2>2. CASE Goto(s, "refused") /\ UNCHANGED lock
    <3>1. "refused" \in Over /\ "refused" \notin Running
      BY DEF Over, Running, Calling
    <3> QED
      BY <2>2, <3>1 DEF RunInv, Goto
  <2> QED
    BY <1>1, <2>1, <2>2 DEF Begin
<1>0. ASSUME NEW s \in Saga, BeginFails(s) PROVE RunInv'
  <2>1. \A u \in Saga : sp[u] \in Running => OrderOf[u] # OrderOf[s]
    BY <1>0 DEF BeginFails, RunInv
  <2>2. sp' = [sp EXCEPT ![s] = "refused"] /\ lock' = [lock EXCEPT ![OrderOf[s]] = s]
    BY <1>0 DEF BeginFails, Goto
  <2>3. "refused" \in Over /\ "refused" \notin Running
    BY DEF Over, Running, Calling
  <2> QED
    BY <2>1, <2>2, <2>3 DEF RunInv
<1>2. ASSUME NEW s \in Saga, GetOrder(s) \/ GetTimesOut(s) PROVE RunInv'
  <2>1. PICK step \in Running : sp' = [sp EXCEPT ![s] = step]
    BY <1>2 DEF GetOrder, GetTimesOut, Call, Returns, Goto, Running, Calling
  <2> QED
    BY <1>2, <2>1, MoveKeepsRunInv DEF GetOrder, GetTimesOut, Running
<1>3. ASSUME NEW s \in Saga, NEW answer, sp[s] \in Calling, Returned(s, answer) PROVE RunInv'
  <2>1. PICK step \in Running : sp' = [sp EXCEPT ![s] = step]
    BY <1>3 DEF Returned, CreateReturns, ConfirmReturns, RefundReturns, Call, Goto, Running, Calling
  <2> QED
    BY <1>3, <2>1, MoveKeepsRunInv DEF Returned, Running
<1>4. ASSUME NEW s \in Saga, NEW answer, CancelReturns(s, answer) PROVE RunInv'
  BY <1>4, MoveKeepsRunInv DEF CancelReturns, Goto, Running
<1>5. ASSUME NEW s \in Saga, Enqueue(s) \/ EnqueueFails(s) PROVE RunInv'
  BY <1>5, MoveKeepsRunInv DEF Enqueue, EnqueueFails, Returns, Goto, Running
<1>6. ASSUME NEW s \in Saga, Release(s) PROVE RunInv'
  <2>1. sp[s] \in Running /\ "done" \in Over /\ "done" \notin Running
    BY <1>6 DEF Release, Running, Over, Calling
  <2>2. lock[OrderOf[s]] = s /\ OrderOf[s] \in Order
    BY <2>1 DEF RunInv
  <2>3. \A u \in Saga \ {s} : sp[u] \in Running => OrderOf[u] # OrderOf[s]
    BY <2>2 DEF RunInv
  <2>4. sp' = [sp EXCEPT ![s] = "done"] /\ lock' = [lock EXCEPT ![OrderOf[s]] = NoSaga]
    BY <1>6, <2>2 DEF Release, Goto, RunInv
  <2> QED
    BY <2>1, <2>2, <2>3, <2>4 DEF RunInv
<1>7. ASSUME NEW s \in Saga, ReleaseFails(s) PROVE RunInv'
  BY <1>7, MoveKeepsRunInv DEF ReleaseFails, Goto, Running, Over
<1>8. ASSUME NEW s \in Saga, SendCancel(s) \/ Relay(s) \/ RelayUnheard(s) PROVE RunInv'
  BY <1>8 DEF SendCancel, Relay, RelayUnheard, RunInv, sagaVars
<1>9. ASSUME NEW o \in Order, LeaseExpires(o) PROVE RunInv'
  <2>1. sp[lock[o]] \in Over /\ lock' = [lock EXCEPT ![o] = NoSaga] /\ UNCHANGED sp
    BY <1>9 DEF LeaseExpires
  <2>2. sp[lock[o]] \notin Running
    BY <2>1 DEF Over, Running, Calling
  <2> QED
    BY <2>1, <2>2 DEF RunInv
<1>13. ASSUME NEW o \in Order, LeaseLost(o) PROVE RunInv'
  BY <1>13 DEF LeaseLost, Fault
<1>10. ASSUME NEW g \in Gateway, Serve(g) PROVE RunInv'
  BY <1>10 DEF Serve, RunInv
<1>11. ASSUME NEW g \in Gateway, GatewayCrash(g) PROVE RunInv'
  <2>1. "crashed" \in Over /\ "crashed" \notin Running
    BY DEF Over, Running, Calling
  <2>2. /\ sp' = [s \in Saga |-> IF GatewayOf[s] = g /\ sp[s] \in Running
                                 THEN "crashed" ELSE sp[s]]
        /\ UNCHANGED lock
    BY <1>11 DEF GatewayCrash
  <2> QED
    BY <2>1, <2>2 DEF RunInv
<1>12. CASE StoreStep \/ UNCHANGED vars
  BY <1>12 DEF StoreStep, vars, sagaVars, RunInv
<1> QED
  BY <1>0, <1>1, <1>2, <1>3, <1>4, <1>5, <1>6, <1>7, <1>8, <1>9, <1>10, <1>11, <1>12, <1>13
  DEF Next, Step, Faulty, Rest, Answered, CallTimesOut, CancelAnswered, CancelTimesOut

\* As long as no lock expires under a run, an order is never paid by two runs at
\* the same time, whatever crashes, timeouts and failed releases there are.
THEOREM NoConcurrentPayment ==
  ASSUME "lease" \notin Faults
  PROVE  Spec => []OneRunPerOrder
<1>1. Init => RunInv
  BY DEF Init, RunInv, Running, Calling
<1>2. RunInv /\ [Next]_vars => RunInv'
  BY NextRunInv
<1>3. RunInv => OneRunPerOrder
  BY DEF RunInv, OneRunPerOrder
<1> QED
  BY <1>1, <1>2, <1>3, PTL DEF Spec

-----------------------------------------------------------------------------
\* The runs of an order are all runs of one gateway, so that their requests are
\* on one connection.
OneGateway == \A s, u \in Saga : OrderOf[s] = OrderOf[u] => GatewayOf[s] = GatewayOf[u]

\* The calls that a run has still to make at a step.
NotYet(step) ==
    IF step \in {"idle", "get"} THEN Calling
    ELSE IF step = "create" THEN {"confirm", "refund"}
    ELSE IF step = "confirm" THEN {"refund"}
    ELSE {}

\* No request about o is on a connection.
Quiet(o) == \A g \in Gateway : \A k \in DOMAIN line[g] : OrderOf[line[g][k][1]] # o

\* The k-th request on the connection of g is of a run of g, which has made the
\* call; if the run still awaits it no request about its order comes after it.
Placed(g, k) ==
    LET u == line[g][k][1]
        op == line[g][k][2] IN
    /\ GatewayOf[u] = g
    /\ op \notin NotYet(sp[u])
    /\ op = sp[u] => \A j \in DOMAIN line[g] : j > k => OrderOf[line[g][j][1]] # OrderOf[u]

LineInv == \A g \in Gateway : \A k \in DOMAIN line[g] : Placed(g, k)

\* The run s has learnt from billing what becomes of the payment.
Decided(s) ==
    \/ sp[s] \in Calling /\ reply[s] # "none"
    \/ sp[s] = "enqueue"
    \/ refunded[s] = "ok" /\ lock[OrderOf[s]] = s

\* What a run has learnt is still true, and no request is left to change it.
Paid(s) ==
    /\ Decided(s) => Quiet(OrderOf[s])
    /\ sp[s] = "confirm" /\ reply[s] = "ok" => payment[OrderOf[s]] = "SUCCEEDED"
    /\ sp[s] = "refund" /\ reply[s] = "ok" => payment[OrderOf[s]] = "REFUNDED"
    /\ sp[s] = "enqueue" => payment[OrderOf[s]] = "SUCCEEDED"
    /\ refunded[s] = "ok" => sp[s] \in {"cancel", "release"} \cup Over
    /\ refunded[s] = "ok" /\ lock[OrderOf[s]] = s => payment[OrderOf[s]] = "REFUNDED"

PaidInv == \A s \in Saga : Paid(s)

PayInv == TypeInv /\ RunInv /\ LineInv /\ PaidInv

\* A step that calls nobody leaves the requests where they belong.
LEMMA MoveKeepsLineInv ==
  ASSUME TypeInv, LineInv, UNCHANGED line,
         \A u \in Saga : \/ sp'[u] = sp[u]
                         \/ sp'[u] \notin Calling /\ NotYet(sp'[u]) \subseteq NotYet(sp[u])
  PROVE  LineInv'
<1> SUFFICES ASSUME NEW g \in Gateway, NEW k \in DOMAIN line[g] PROVE Placed(g, k)'
  BY DEF LineInv
<1>1. line[g][k] \in Saga \X Calling
  BY DEF TypeInv, TypeOK
<1>2. line[g][k][1] \in Saga /\ line[g][k][2] \in Calling
  BY <1>1
<1>3. Placed(g, k)
  BY DEF LineInv
<1> QED
  BY <1>2, <1>3 DEF Placed

\* A call puts a request after all the others.
LEMMA CallKeepsLineInv ==
  ASSUME TypeInv, RunInv, LineInv, NEW s \in Saga, NEW op \in Calling, sp[s] \in Running,
         Call(s, op), op \in NotYet(sp[s]), NotYet(op) \subseteq NotYet(sp[s]), op \notin NotYet(op)
  PROVE  LineInv'
<1> USE SagaAssumption
<1> SUFFICES ASSUME NEW g \in Gateway, NEW k \in DOMAIN line'[g] PROVE Placed(g, k)'
  BY DEF LineInv
<1> DEFINE c == GatewayOf[s]
<1>1. /\ line \in [Gateway -> Seq(Saga \X Calling)]
      /\ sp \in [Saga -> {"idle"} \cup Running \cup Over]
      /\ line' = [line EXCEPT ![c] = Append(line[c], <<s, op>>)] /\ sp' = [sp EXCEPT ![s] = op]
      /\ c \in Gateway
  BY DEF Call, TypeInv, TypeOK
<1>2. ASSUME NEW h \in Gateway, NEW j \in DOMAIN line[h]
      PROVE  line[h][j] \in Saga \X Calling /\ line[h][j][1] \in Saga /\ line[h][j][2] \in Calling
  BY <1>1
<1>3. ASSUME NEW j \in DOMAIN line'[g], j \notin DOMAIN line[g]
      PROVE  g = c /\ j = Len(line[c]) + 1 /\ line'[g][j] = <<s, op>>
  BY <1>1, <1>3
<1>4. ASSUME NEW j \in DOMAIN line[g]
      PROVE  line'[g][j] = line[g][j] /\ j \in DOMAIN line'[g] /\ j \in 1..Len(line[g])
  BY <1>1
<1>5. CASE k \in DOMAIN line[g]
  <2> DEFINE u == line[g][k][1]
             call == line[g][k][2]
  <2>1. u \in Saga /\ call \in Calling /\ line'[g][k] = line[g][k] /\ Placed(g, k)
    BY <1>2, <1>4, <1>5 DEF LineInv
  <2>2. GatewayOf[u] = g /\ call \notin NotYet(sp[u])
    BY <2>1 DEF Placed
  <2>3. CASE u = s
    BY <1>1, <2>1, <2>2, <2>3 DEF Placed
  <2>4. CASE u # s
    <3>1. sp'[u] = sp[u]
      BY <1>1, <2>1, <2>4
    <3>2. call = sp[u] => OrderOf[u] # OrderOf[s]
      <4>1. call = sp[u] => sp[u] \in Running
        BY <2>1 DEF Running
      <4> QED
        BY <2>1, <2>4, <4>1 DEF RunInv
    <3>3. ASSUME call = sp[u], NEW j \in DOMAIN line'[g], j > k
          PROVE  OrderOf[line'[g][j][1]] # OrderOf[u]
      <4>1. CASE j \in DOMAIN line[g]
        BY <1>4, <2>1, <3>3, <4>1 DEF Placed
      <4>2. CASE j \notin DOMAIN line[g]
        BY <1>3, <3>2, <3>3, <4>2
      <4> QED
        BY <4>1, <4>2
    <3> QED
      BY <2>1, <2>2, <3>1, <3>3 DEF Placed
  <2> QED
    BY <2>3, <2>4
<1>6. CASE k \notin DOMAIN line[g]
  <2>1. g = c /\ k = Len(line[c]) + 1 /\ line'[g][k] = <<s, op>>
    BY <1>3, <1>6
  <2>2. DOMAIN line'[g] = 1..k
    BY <1>1, <2>1
  <2>3. sp'[s] = op
    BY <1>1
  <2> QED
    BY <2>1, <2>2, <2>3 DEF Placed
<1> QED
  BY <1>5, <1>6

\* What s does to its own entries disturbs no other run.
LEMMA OwnStepKeepsPaidInv ==
  ASSUME PaidInv, NEW s \in Saga, UNCHANGED <<line, payment>>,
         \A u \in Saga \ {s} :
            /\ sp'[u] = sp[u] /\ reply'[u] = reply[u] /\ refunded'[u] = refunded[u]
            /\ lock'[OrderOf[u]] = u => lock[OrderOf[u]] = u,
         Paid(s)'
  PROVE  PaidInv'
<1> SUFFICES ASSUME NEW u \in Saga \ {s} PROVE Paid(u)'
  BY DEF PaidInv
<1>1. Paid(u) /\ (Decided(u)' => Decided(u))
  BY DEF PaidInv, Decided
<1> QED
  BY <1>1 DEF Paid, Quiet

\* A run without a refund that is at no call and not about to announce the payment
\* has nothing to keep.
LEMMA NothingLearnt ==
  ASSUME NEW s \in Saga, sp'[s] \notin Calling \cup {"enqueue"}, refunded'[s] # "ok"
  PROVE  Paid(s)'
BY DEF Paid, Decided, Calling

\* A call of the run that holds the lock is about an order of which nobody has
\* learnt anything.
LEMMA CallKeepsPaidInv ==
  ASSUME TypeInv, RunInv, PaidInv, NEW s \in Saga, NEW op \in Calling,
         sp[s] \in {"get"} \cup Calling, refunded[s] # "ok", Call(s, op),
         UNCHANGED <<payment, lock, refunded>>
  PROVE  PaidInv'
<1> USE SagaAssumption
<1> SUFFICES ASSUME NEW u \in Saga PROVE Paid(u)'
  BY DEF PaidInv
<1>0. sp' = [sp EXCEPT ![s] = op] /\ reply' = [reply EXCEPT ![s] = "none"]
  BY DEF Call
<1>1. CASE u = s
  <2>1. sp'[s] = op /\ reply'[s] = "none" /\ refunded'[s] # "ok" /\ op # "enqueue"
    BY <1>0 DEF TypeInv, TypeOK, Calling
  <2> QED
    BY <1>1, <2>1 DEF Paid, Decided
<1>2. CASE u # s
  <2>1. sp'[u] = sp[u] /\ reply'[u] = reply[u] /\ Paid(u) /\ (Decided(u)' <=> Decided(u))
    BY <1>0, <1>2 DEF TypeInv, TypeOK, PaidInv, Decided
  <2>2. Decided(u) => OrderOf[u] # OrderOf[s]
    BY <1>2 DEF Decided, RunInv, Running
  <2>3. Decided(u) => Quiet(OrderOf[u])'
    <3> SUFFICES ASSUME Decided(u), NEW g \in Gateway, NEW k \in DOMAIN line'[g]
                 PROVE  OrderOf[line'[g][k][1]] # OrderOf[u]
      BY DEF Quiet
    <3>1. line \in [Gateway -> Seq(Saga \X Calling)] /\ GatewayOf[s] \in Gateway
      BY DEF TypeInv, TypeOK
    <3>2. line' = [line EXCEPT ![GatewayOf[s]] = Append(line[GatewayOf[s]], <<s, op>>)]
      BY DEF Call
    <3>3. \/ k \in DOMAIN line[g] /\ line'[g][k] = line[g][k]
          \/ line'[g][k] = <<s, op>>
      BY <3>1, <3>2
    <3>4. Quiet(OrderOf[u])
      BY <2>1 DEF Paid
    <3> QED
      BY <2>2, <3>3, <3>4 DEF Quiet
  <2> QED
    BY <2>1, <2>3 DEF Paid
<1> QED
  BY <1>1, <1>2

\* What a run does once billing has answered, or once it has given up waiting.
LEMMA ReturnedKeepsPayInv ==
  ASSUME PayInv, NEW s \in Saga, NEW answer \in {"ok", "error", "pending"}, sp[s] \in Calling,
         Returned(s, answer), answer = "ok" => reply[s] = "ok", sp[s] = "refund" => answer # "pending"
  PROVE  LineInv' /\ PaidInv'
<1> USE SagaAssumption
<1>1. Paid(s) /\ refunded[s] # "ok" /\ s \in DOMAIN sp /\ s \in DOMAIN refunded
  <2>1. sp[s] \notin {"cancel", "release"} \cup Over
    BY DEF Calling, Over
  <2> QED
    BY <2>1 DEF PayInv, TypeInv, TypeOK, PaidInv, Paid
<1>2. UNCHANGED <<lock, payment>>
  BY DEF Returned
<1>3. ASSUME NEW op \in Calling, Call(s, op), UNCHANGED refunded,
             op \in NotYet(sp[s]), NotYet(op) \subseteq NotYet(sp[s]), op \notin NotYet(op)
      PROVE  LineInv' /\ PaidInv'
  <2>1. LineInv'
    BY <1>3, CallKeepsLineInv DEF PayInv, Running
  <2>2. PaidInv'
    BY <1>1, <1>2, <1>3, CallKeepsPaidInv DEF PayInv
  <2> QED
    BY <2>1, <2>2
<1>4. ASSUME NEW step \in {"cancel", "enqueue"}, Goto(s, step), Paid(s)',
             \A u \in Saga \ {s} : refunded'[u] = refunded[u]
      PROVE  LineInv' /\ PaidInv'
  <2>1. \A u \in Saga \ {s} : sp'[u] = sp[u] /\ reply'[u] = reply[u]
    BY <1>4 DEF Goto, PayInv, TypeInv, TypeOK
  <2>2. sp'[s] \notin Calling /\ NotYet(sp'[s]) = {} /\ UNCHANGED line
    BY <1>1, <1>4 DEF Goto, NotYet, Calling
  <2>3. LineInv'
    BY <2>1, <2>2, MoveKeepsLineInv DEF PayInv
  <2>4. PaidInv'
    BY <1>2, <1>4, <2>1, <2>2, OwnStepKeepsPaidInv DEF PayInv
  <2> QED
    BY <2>3, <2>4
<1>5. CASE CreateReturns(s, answer) /\ UNCHANGED refunded
  <2>1. CASE Call(s, "confirm")
    BY <1>3, <1>5, <2>1 DEF CreateReturns, NotYet, Calling
  <2>2. CASE Goto(s, "cancel")
    <3>1. sp'[s] \notin Calling \cup {"enqueue"} /\ refunded'[s] # "ok"
      BY <1>1, <1>5, <2>2 DEF Goto, Calling
    <3> QED
      BY <1>4, <1>5, <2>2, <3>1, NothingLearnt
  <2> QED
    BY <1>5, <2>1, <2>2 DEF CreateReturns
<1>6. CASE ConfirmReturns(s, answer) /\ UNCHANGED refunded
  <2>1. CASE Call(s, "refund")
    BY <1>3, <1>6, <2>1 DEF ConfirmReturns, NotYet, Calling
  <2>2. CASE Goto(s, "cancel")
    <3>1. sp'[s] \notin Calling \cup {"enqueue"} /\ refunded'[s] # "ok"
      BY <1>1, <1>6, <2>2 DEF Goto, Calling
    <3> QED
      BY <1>4, <1>6, <2>2, <3>1, NothingLearnt
  <2>3. CASE answer = "ok" /\ Goto(s, "enqueue")
    <3>1. payment[OrderOf[s]] = "SUCCEEDED" /\ Quiet(OrderOf[s])
      BY <1>1, <1>6, <2>3 DEF ConfirmReturns, Paid, Decided
    <3>2. sp'[s] = "enqueue" /\ refunded'[s] # "ok" /\ UNCHANGED line
      BY <1>1, <1>6, <2>3 DEF Goto
    <3>3. Paid(s)'
      BY <1>2, <3>1, <3>2 DEF Paid, Quiet
    <3> QED
      BY <1>4, <1>6, <2>3, <3>3
  <2> QED
    BY <1>6, <2>1, <2>2, <2>3 DEF ConfirmReturns
<1>7. CASE RefundReturns(s, answer)
  <2>1. Goto(s, "cancel") /\ refunded' = [refunded EXCEPT ![s] = answer]
    BY <1>7 DEF RefundReturns
  <2>2. sp'[s] = "cancel" /\ refunded'[s] = answer /\ UNCHANGED line
    BY <1>1, <2>1 DEF Goto
  <2>3. answer = "ok" => payment[OrderOf[s]] = "REFUNDED" /\ Quiet(OrderOf[s])
    BY <1>1, <1>7 DEF RefundReturns, Paid, Decided
  <2>4. Paid(s)'
    BY <1>2, <2>2, <2>3 DEF Paid, Decided, Quiet, Calling
  <2>5. \A u \in Saga \ {s} : refunded'[u] = refunded[u]
    BY <2>1 DEF PayInv, TypeInv, TypeOK
  <2> QED
    BY <1>4, <2>1, <2>4, <2>5
<1> QED
  BY <1>5, <1>6, <1>7 DEF Returned

\* What billing does for one request is nothing that another run has learnt to be
\* otherwise.
LEMMA ServesKeepsPaidInv ==
  ASSUME OneGateway, PayInv, NEW g \in Gateway, line[g] # <<>>, UNCHANGED <<sp, refunded, lock>>,
         line' = [line EXCEPT ![g] = Tail(@)],
         NEW s \in Saga, NEW op \in Calling, Head(line[g]) = <<s, op>>,
         NEW before, NEW after \in Statuses, NEW answer, Serves(s, op, before, after, answer),
         op = "confirm" /\ answer = "ok" => after = "SUCCEEDED",
         op = "refund" /\ answer = "ok" => after = "REFUNDED"
  PROVE  LineInv' /\ PaidInv'
<1> USE SagaAssumption
<1>1. /\ line \in [Gateway -> Seq(Saga \X Calling)]
      /\ reply \in [Saga -> {"none", "ok", "error", "pending"}]
      /\ payment \in [Order -> Statuses] /\ OrderOf[s] \in Order
  BY DEF PayInv, TypeInv, TypeOK
<1>2. line[g][1] = <<s, op>> /\ 1 \in DOMAIN line[g]
  BY <1>1
<1>3. ASSUME NEW h \in Gateway, NEW k \in DOMAIN line'[h]
      PROVE  \E j \in DOMAIN line[h] :
                /\ line'[h][k] = line[h][j]
                /\ h = g => j = k + 1
                /\ h # g => j = k
  <2>1. CASE h = g
    <3>1. line'[g] = Tail(line[g]) /\ k \in 1..(Len(line[g]) - 1)
      BY <1>1, <1>3, <2>1
    <3>2. k + 1 \in DOMAIN line[g] /\ line'[g][k] = line[g][k + 1]
      BY <1>1, <3>1
    <3> QED
      BY <2>1, <3>2
  <2>2. CASE h # g
    BY <1>1, <1>3, <2>2
  <2> QED
    BY <2>1, <2>2
<1>4. LineInv'
  <2> SUFFICES ASSUME NEW h \in Gateway, NEW k \in DOMAIN line'[h] PROVE Placed(h, k)'
    BY DEF LineInv
  <2>1. PICK j \in DOMAIN line[h] :
           line'[h][k] = line[h][j] /\ (h = g => j = k + 1) /\ (h # g => j = k)
    BY <1>3
  <2>2. Placed(h, j) /\ k \in Nat
    BY <1>1 DEF PayInv, LineInv
  <2> DEFINE u == line[h][j][1]
  <2>3. ASSUME line[h][j][2] = sp[u], NEW i \in DOMAIN line'[h], i > k
        PROVE  OrderOf[line'[h][i][1]] # OrderOf[u]
    <3>1. PICK m \in DOMAIN line[h] :
             line'[h][i] = line[h][m] /\ (h = g => m = i + 1) /\ (h # g => m = i)
      BY <1>3
    <3>2. m > j
      BY <1>1, <2>1, <2>2, <2>3, <3>1
    <3> QED
      BY <2>2, <2>3, <3>1, <3>2 DEF Placed
  <2> QED
    BY <2>1, <2>2, <2>3 DEF Placed
<1>5. \A o \in Order : Quiet(o) => Quiet(o)'
  BY <1>3 DEF Quiet
<1>6. ~Quiet(OrderOf[s])
  BY <1>2 DEF Quiet
<1>7. payment' = [payment EXCEPT ![OrderOf[s]] = after]
      /\ reply' = [reply EXCEPT ![s] = IF sp[s] = op THEN answer ELSE @]
  BY DEF Serves
<1>8. ASSUME NEW u \in Saga \ {s} PROVE Paid(u)'
  <2>1. Paid(u) /\ (Decided(u)' <=> Decided(u)) /\ reply'[u] = reply[u]
    BY <1>1, <1>7 DEF PayInv, PaidInv, Decided
  <2>2. Decided(u) => OrderOf[u] # OrderOf[s]
    BY <1>6, <2>1 DEF Paid
  <2>3. OrderOf[u] # OrderOf[s] => payment'[OrderOf[u]] = payment[OrderOf[u]]
    BY <1>1, <1>7
  <2> QED
    BY <1>5, <2>1, <2>2, <2>3 DEF Paid, Decided, Calling
<1>9. Paid(s)'
  <2>1. Paid(s) /\ ~Decided(s)
    BY <1>6 DEF PayInv, PaidInv, Paid
  <2>2. payment'[OrderOf[s]] = after
    BY <1>1, <1>7
  <2>3. CASE sp[s] = op
    <3>1. reply'[s] = answer
      BY <1>1, <1>7, <2>3
    <3>2. \A j \in DOMAIN line[g] : j > 1 => OrderOf[line[g][j][1]] # OrderOf[s]
      BY <1>2, <2>3 DEF PayInv, LineInv, Placed
    <3>3. GatewayOf[s] = g
      BY <1>2 DEF PayInv, LineInv, Placed
    <3>4. Quiet(OrderOf[s])'
      <4> SUFFICES ASSUME NEW h \in Gateway, NEW k \in DOMAIN line'[h]
                   PROVE  OrderOf[line'[h][k][1]] # OrderOf[s]
        BY DEF Quiet
      <4>1. PICK j \in DOMAIN line[h] :
               line'[h][k] = line[h][j] /\ (h = g => j = k + 1) /\ (h # g => j = k)
        BY <1>3
      <4>2. CASE h = g
        <5>1. k \in Nat /\ k > 0
          BY <1>1
        <5> QED
          BY <3>2, <4>1, <4>2, <5>1
      <4>3. CASE h # g
        <5>1. line[h][j][1] \in Saga
          <6>1. line[h][j] \in Saga \X Calling
            BY <1>1
          <6> QED
            BY <6>1
        <5>2. GatewayOf[line[h][j][1]] = h
          BY DEF PayInv, LineInv, Placed
        <5> QED
          BY <3>3, <4>1, <4>3, <5>1, <5>2 DEF OneGateway
      <4> QED
        BY <4>2, <4>3
    <3> QED
      BY <2>1, <2>2, <2>3, <3>1, <3>4 DEF Paid, Decided, Calling
  <2>4. CASE sp[s] # op
    <3>1. reply'[s] = reply[s]
      BY <1>1, <1>7, <2>4
    <3> QED
      BY <2>1, <3>1 DEF Paid, Decided, Calling
  <2> QED
    BY <2>3, <2>4
<1> QED
  BY <1>4, <1>8, <1>9 DEF PaidInv

\* Billing serves a request: what it answers is what it has made of the payment.
LEMMA ServeKeepsPayInv ==
  ASSUME OneGateway, PayInv, NEW g \in Gateway, Serve(g)
  PROVE  LineInv' /\ PaidInv'
<1> USE SagaAssumption
<1> DEFINE s == Head(line[g])[1]
           op == Head(line[g])[2]
<1>1. line[g] \in Seq(Saga \X Calling) /\ line[g] # <<>>
  BY DEF Serve, PayInv, TypeInv, TypeOK
<1>2. s \in Saga /\ op \in Calling /\ Head(line[g]) = <<s, op>>
  <2>1. Head(line[g]) \in Saga \X Calling
    BY <1>1
  <2> QED
    BY <2>1
<1>3. payment[OrderOf[s]] \in Statuses
  BY <1>2 DEF PayInv, TypeInv, TypeOK
<1>4. \E before : \E after \in Statuses : \E answer :
         /\ Serves(s, op, before, after, answer)
         /\ op = "confirm" /\ answer = "ok" => after = "SUCCEEDED"
         /\ op = "refund" /\ answer = "ok" => after = "REFUNDED"
  <2>1. CASE op = "create" /\ CreatePayment(s)
    BY <1>3, <2>1 DEF CreatePayment, Keeps, Statuses
  <2>2. CASE op = "confirm" /\ ConfirmPayment(s)
    <3>1. CASE Keeps(s, "confirm", {"SUCCEEDED"}, "ok")
      <4>1. payment[OrderOf[s]] = "SUCCEEDED"
        BY <3>1 DEF Keeps, Serves
      <4> QED
        BY <1>3, <2>2, <3>1, <4>1 DEF Keeps
    <3>2. CASE Serves(s, "confirm", {"CREATED", "REFUNDED"}, "SUCCEEDED",
                      IF simulate[s] THEN "error" ELSE "ok")
      BY <2>2, <3>2 DEF Statuses
    <3>3. CASE Keeps(s, "confirm", Statuses, "pending")
      BY <1>3, <2>2, <3>3 DEF Keeps
    <3> QED
      BY <2>2, <3>1, <3>2, <3>3 DEF ConfirmPayment
  <2>3. CASE op = "refund" /\ Refund(s)
    <3>1. CASE Serves(s, "refund", {"SUCCEEDED"}, "REFUNDED", "ok")
      BY <2>3, <3>1 DEF Statuses
    <3>2. CASE Keeps(s, "refund", Statuses \ {"SUCCEEDED"}, "error")
      BY <1>3, <2>3, <3>2 DEF Keeps
    <3> QED
      BY <2>3, <3>1, <3>2 DEF Refund
  <2> QED
    BY <2>1, <2>2, <2>3 DEF Serve
<1>5. UNCHANGED <<sp, refunded, lock>> /\ line' = [line EXCEPT ![g] = Tail(@)]
  BY DEF Serve
<1> QED
  BY <1>1, <1>2, <1>4, <1>5, ServesKeepsPaidInv

\* A gateway that dies takes its runs with it and adds nothing to its connection.
LEMMA CrashKeepsPayInv ==
  ASSUME PayInv, NEW g \in Gateway, GatewayCrash(g)
  PROVE  LineInv' /\ PaidInv'
<1>1. /\ sp' = [s \in Saga |-> IF GatewayOf[s] = g /\ sp[s] \in Running THEN "crashed" ELSE sp[s]]
      /\ UNCHANGED <<reply, refunded, lock, payment>>
  BY DEF GatewayCrash
<1>2. \A h \in Gateway : line'[h] = line[h] \/ line'[h] = <<>>
  BY DEF GatewayCrash, PayInv, TypeInv, TypeOK
<1>3. \A u \in Saga : sp'[u] = sp[u] \/ sp'[u] = "crashed"
  BY <1>1
<1>4. "crashed" \notin Calling /\ NotYet("crashed") = {} /\ "crashed" \in Over /\ "crashed" # "enqueue"
  BY DEF Calling, NotYet, Over
<1>5. LineInv'
  <2> SUFFICES ASSUME NEW h \in Gateway, NEW k \in DOMAIN line'[h] PROVE Placed(h, k)'
    BY DEF LineInv
  <2>1. line'[h] = line[h] /\ line[h] \in Seq(Saga \X Calling)
    BY <1>2 DEF PayInv, TypeInv, TypeOK
  <2>2. line[h][k][1] \in Saga /\ line[h][k][2] \in Calling
    <3>1. line[h][k] \in Saga \X Calling
      BY <2>1
    <3> QED
      BY <3>1
  <2>3. Placed(h, k)
    BY <2>1 DEF PayInv, LineInv
  <2> QED
    BY <1>3, <1>4, <2>1, <2>2, <2>3 DEF Placed
<1>6. PaidInv'
  <2> SUFFICES ASSUME NEW u \in Saga PROVE Paid(u)'
    BY DEF PaidInv
  <2>1. Paid(u) /\ (Decided(u)' => Decided(u))
    BY <1>1, <1>3, <1>4 DEF PayInv, PaidInv, Decided
  <2>2. \A o : Quiet(o) => Quiet(o)'
    BY <1>2 DEF Quiet
  <2>3. /\ sp'[u] \in Calling \cup {"enqueue"} => sp'[u] = sp[u]
        /\ sp[u] \in {"cancel", "release"} \cup Over => sp'[u] \in {"cancel", "release"} \cup Over
    BY <1>3, <1>4
  <2> QED
    BY <1>1, <2>1, <2>2, <2>3 DEF Paid, Calling
<1> QED
  BY <1>5, <1>6

\* The steps that neither call nor learn anything: the lock, and the end of a run.
LEMMA QuietStepKeepsPayInv ==
  ASSUME PayInv, NEW s \in Saga, NEW step \in {"get", "cancel", "release", "done", "refused"},
         Goto(s, step), step = "get" => sp[s] = "idle",
         UNCHANGED <<payment, refunded>>,
         refunded[s] = "ok" => step \in {"cancel", "release", "done", "refused"},
         \A u \in Saga : refunded[u] = "ok" /\ lock'[OrderOf[u]] = u => lock[OrderOf[u]] = u,
         sp[s] = "idle" \/ sp[s] \in Running
  PROVE  LineInv' /\ PaidInv'
<1>1. /\ \A u \in Saga \ {s} : sp'[u] = sp[u] /\ reply'[u] = reply[u]
      /\ sp'[s] = step /\ UNCHANGED line
  BY DEF Goto, PayInv, TypeInv, TypeOK
<1>2. step \notin Calling /\ step # "enqueue"
  BY DEF Calling
<1>3. NotYet(step) \subseteq NotYet(sp[s])
  BY DEF NotYet
<1>4. LineInv'
  BY <1>1, <1>2, <1>3, MoveKeepsLineInv DEF PayInv
<1>5. PaidInv'
  <2> SUFFICES ASSUME NEW u \in Saga PROVE Paid(u)'
    BY DEF PaidInv
  <2>1. Paid(u) /\ (Decided(u)' => Decided(u)) /\ (u # s => sp'[u] = sp[u] /\ reply'[u] = reply[u])
    BY <1>1, <1>2 DEF PayInv, PaidInv, Decided
  <2>2. Quiet(OrderOf[u]) => Quiet(OrderOf[u])'
    BY <1>1 DEF Quiet
  <2>3. u = s => sp'[u] \notin Calling \cup {"enqueue"}
    BY <1>1, <1>2
  <2>4. CASE u = s
    BY <1>1, <2>1, <2>2, <2>3, <2>4 DEF Paid, Decided, Calling, Over
  <2>5. CASE u # s
    BY <1>1, <2>1, <2>2, <2>5 DEF Paid, Decided
  <2> QED
    BY <2>4, <2>5
<1> QED
  BY <1>4, <1>5

\* Every step keeps the invariant, if no lease expires under its run.
LEMMA NextPayInv ==
  ASSUME "lease" \notin Faults, OneGateway, PayInv, [Next]_vars
  PROVE  PayInv'
<1> USE SagaAssumption
<1>0. TypeInv' /\ RunInv'
  BY TypeStep, NextRunInv DEF PayInv
<1>1. ASSUME NEW s \in Saga PROVE sp[s] = "idle" \/ sp[s] \in {"get"} \cup Calling => refunded[s] # "ok"
  BY DEF PayInv, PaidInv, Paid, Over, Calling
<1> DEFINE Good == LineInv' /\ PaidInv'
<1>2. ASSUME NEW s \in Saga, NEW fails \in BOOLEAN, Begin(s, fails) \/ BeginFails(s) PROVE Good
  <2>1. sp[s] = "idle" /\ refunded[s] # "ok" /\ UNCHANGED <<payment, refunded>>
    BY <1>1, <1>2 DEF Begin, BeginFails
  <2>2. Goto(s, "get") \/ Goto(s, "refused")
    BY <1>2 DEF Begin, BeginFails
  <2>3. lock' = lock \/ lock' = [lock EXCEPT ![OrderOf[s]] = s]
    BY <1>2 DEF Begin, BeginFails
  <2>4. \A u \in Saga : refunded[u] = "ok" /\ lock'[OrderOf[u]] = u => lock[OrderOf[u]] = u
    BY <2>1, <2>3 DEF PayInv, TypeInv, TypeOK
  <2> QED
    BY <2>1, <2>2, <2>4, QuietStepKeepsPayInv
<1>3. ASSUME NEW s \in Saga, GetOrder(s) \/ GetTimesOut(s) PROVE Good
  <2>1. sp[s] = "get" /\ refunded[s] # "ok" /\ UNCHANGED <<payment, refunded, lock>>
    BY <1>1, <1>3 DEF GetOrder, GetTimesOut
  <2>2. CASE Call(s, "create")
    <3>1. /\ "create" \in NotYet("get") /\ "create" \notin NotYet("create") /\ "get" \in Running
          /\ NotYet("create") \subseteq NotYet("get") /\ "create" \in Calling
      BY DEF NotYet, Calling, Running
    <3> QED
      BY <2>1, <2>2, <3>1, CallKeepsLineInv, CallKeepsPaidInv DEF PayInv
  <2>3. CASE Goto(s, "release")
    <3>1. "get" \in Running
      BY DEF Running
    <3> QED
      BY <2>1, <2>3, <3>1, QuietStepKeepsPayInv
  <2> QED
    BY <1>3, <2>2, <2>3 DEF GetOrder, GetTimesOut, Returns
<1>4. ASSUME NEW s \in Saga, Answered(s) \/ CallTimesOut(s) PROVE Good
  <2>1. sp[s] \in Calling /\ PayInv
    BY <1>4 DEF Answered, CallTimesOut
  <2>2. \E answer \in {"ok", "error", "pending"} :
           /\ Returned(s, answer)
           /\ answer = "ok" => reply[s] = "ok"
           /\ sp[s] = "refund" => answer # "pending"
    <3>1. CASE Answered(s)
      BY <3>1 DEF Answered, PayInv, TypeInv, TypeOK
    <3>2. CASE CallTimesOut(s)
      BY <3>2 DEF CallTimesOut
    <3> QED
      BY <1>4, <3>1, <3>2
  <2> QED
    BY <2>1, <2>2, ReturnedKeepsPayInv
<1>5. ASSUME NEW s \in Saga, CancelAnswered(s) \/ CancelTimesOut(s) PROVE Good
  <2>1. /\ sp[s] = "cancel" /\ "cancel" \in Running /\ Goto(s, "release")
        /\ UNCHANGED <<payment, refunded, lock>>
    BY <1>5 DEF CancelAnswered, CancelTimesOut, CancelReturns, Running
  <2> QED
    BY <2>1, QuietStepKeepsPayInv
<1>6. ASSUME NEW s \in Saga, Enqueue(s) \/ EnqueueFails(s) PROVE Good
  <2>1. /\ sp[s] = "enqueue" /\ "enqueue" \in Running /\ Goto(s, "release")
        /\ UNCHANGED <<payment, refunded, lock>>
    BY <1>6 DEF Enqueue, EnqueueFails, Returns, Running
  <2> QED
    BY <2>1, QuietStepKeepsPayInv
<1>7. ASSUME NEW s \in Saga, Release(s) \/ ReleaseFails(s) PROVE Good
  <2>1. sp[s] = "release" /\ "release" \in Running /\ Goto(s, "done") /\ UNCHANGED <<payment, refunded>>
    BY <1>7 DEF Release, ReleaseFails, Running
  <2>2. \A u \in Saga : lock'[OrderOf[u]] = u => lock[OrderOf[u]] = u
    BY <1>7 DEF Release, ReleaseFails, PayInv, TypeInv, TypeOK
  <2> QED
    BY <2>1, <2>2, QuietStepKeepsPayInv
<1>8. ASSUME UNCHANGED <<sp, reply, refunded, payment, line>>,
             \A u \in Saga : lock'[OrderOf[u]] = u => lock[OrderOf[u]] = u
      PROVE  Good
  <2>1. LineInv'
    BY <1>8, MoveKeepsLineInv DEF PayInv
  <2>2. PaidInv'
    BY <1>8 DEF PayInv, PaidInv, Paid, Decided, Quiet
  <2> QED
    BY <2>1, <2>2
<1>9. ASSUME NEW s \in Saga, SendCancel(s) \/ Relay(s) \/ RelayUnheard(s) PROVE Good
  BY <1>8, <1>9 DEF SendCancel, Relay, RelayUnheard, sagaVars
<1>10. ASSUME NEW o \in Order, LeaseExpires(o) \/ LeaseLost(o) PROVE Good
  <2>1. lock' = [lock EXCEPT ![o] = NoSaga] /\ UNCHANGED <<sp, reply, refunded, payment, line>>
    BY <1>10 DEF LeaseExpires, LeaseLost
  <2>2. \A u \in Saga : lock'[OrderOf[u]] = u => lock[OrderOf[u]] = u
    BY <2>1 DEF PayInv, TypeInv, TypeOK
  <2> QED
    BY <1>8, <2>1, <2>2
<1>11. ASSUME NEW g \in Gateway, Serve(g) \/ GatewayCrash(g) PROVE Good
  BY <1>11, ServeKeepsPayInv, CrashKeepsPayInv
<1>12. ASSUME StoreStep \/ UNCHANGED vars PROVE Good
  BY <1>8, <1>12 DEF StoreStep, vars, sagaVars
<1>13. Good
  BY <1>2, <1>3, <1>4, <1>5, <1>6, <1>7, <1>9, <1>10, <1>11, <1>12
  DEF Next, Step, Faulty, Rest
<1> QED
  BY <1>0, <1>13 DEF PayInv

LEMMA PayInvHolds ==
  ASSUME "lease" \notin Faults, OneGateway
  PROVE  Spec => []PayInv
<1>1. Init => PayInv
  <2> SUFFICES ASSUME Init PROVE PayInv
    OBVIOUS
  <2> USE SagaAssumption
  <2>1. TypeInv
    BY DEF Init, TypeInv, TypeOK, Statuses
  <2>2. RunInv
    BY DEF Init, RunInv, Running, Calling
  <2>3. LineInv
    BY DEF Init, LineInv
  <2>4. PaidInv
    BY DEF Init, PaidInv, Paid, Decided, Calling
  <2> QED
    BY <2>1, <2>2, <2>3, <2>4 DEF PayInv
<1>2. PayInv /\ [Next]_vars => PayInv'
  BY NextPayInv
<1> QED
  BY <1>1, <1>2, PTL DEF Spec

\* With one gateway and no lease lost under its run, a run that is about to announce
\* PAYMENT_SUCCEEDED has the money: no late request of an earlier run has undone it.
THEOREM AnnouncedIsCharged ==
  ASSUME "lease" \notin Faults, OneGateway
  PROVE  Spec => []ChargedAtEnqueue
<1>1. PayInv => ChargedAtEnqueue
  BY DEF PayInv, PaidInv, Paid, ChargedAtEnqueue
<1> QED
  BY <1>1, PayInvHolds, PTL

\* Under the same conditions a refund that its run has recorded is not undone while
\* the run holds the lock.
THEOREM RefundIsKept ==
  ASSUME "lease" \notin Faults, OneGateway
  PROVE  Spec => []RefundHolds
<1>1. PayInv => RefundHolds
  BY DEF PayInv, PaidInv, Paid, RefundHolds
<1> QED
  BY <1>1, PayInvHolds, PTL
-----------------------------------------------------------------------------
\* The faults that a run can answer for: it is told of each, or gives the call up.
MildFaults == Faults \subseteq {"acquire", "timeout", "cancelTimeout", "release"}

\* The types of the orders service's variables.
StoreTypes ==
    /\ status \in [Order -> Store!Statuses]
    /\ version \in [Order -> Nat]
    /\ job \in [Order -> Store!JobStates]
    /\ pc \in [Task -> Store!PCs]
    /\ expected \in [Task -> Nat]

\* The run has the lock, or had it.
Begun(s) == sp[s] \notin {"idle", "refused"}

\* A request of s for op is on the connection.
Requested(s, op) ==
    \E k \in DOMAIN line[GatewayOf[s]] : line[GatewayOf[s]][k] = <<s, op>>

\* s is the one run that has dealt with its order, and no auto-cancel job has.
Lone(s) ==
    /\ Begun(s)
    /\ \A u \in Saga \ {s} : OrderOf[u] = OrderOf[s] => ~Begun(u)
    /\ job[OrderOf[s]] \notin {"active", "completed", "failed"}

CancelledResults == {"PAYMENT_CREATE_FAILED", "COMPENSATED"}

\* What the result of a run says about its step, its event and its cancel request.
Results(s) ==
    /\ sp[s] \in {"idle", "refused", "get", "create", "confirm", "enqueue"} => result[s] = "none"
    /\ sp[s] \in {"refund", "cancel"} => result[s] \in CancelledResults
    /\ s \in outbox \/ pc[PaidTask(s)] # "idle" <=> result[s] = "SUCCEEDED"
    /\ pc[CancelTask(s)] # "idle" => result[s] \in CancelledResults
    /\ ~Begun(s) => \A op \in Calling : ~Requested(s, op)
    /\ Begun(s) /\ sp[s] # "get" /\ result[s] # "ERROR" => status[OrderOf[s]] # "NONE"

ResultInv == \A s \in Saga : Results(s)

\* Who has come to an order: the event or the cancel request of a run, or a run.
EventCame(o) == \E s \in Saga : OrderOf[s] = o /\ pc[PaidTask(s)] # "idle"
CancelCame(o) == \E s \in Saga : OrderOf[s] = o /\ pc[CancelTask(s)] # "idle"
TakenUp(o) == \E s \in Saga : OrderOf[s] = o /\ Begun(s)

\* Who has changed an order and its payment.
Origin(o) ==
    /\ status[o] = "NONE" => job[o] = "none"
    /\ pc[<<o, "timeout">>] # "idle" => job[o] \in {"active", "completed", "failed"}
    /\ status[o] = "PAID" => EventCame(o)
    /\ status[o] = "CANCELLED" => pc[<<o, "timeout">>] # "idle" \/ CancelCame(o)
    /\ payment[o] # "none" => TakenUp(o)

OriginInv == \A o \in Order : Origin(o)

\* A run asks for a confirmation once, and for nothing but the creation before.
ConfirmInv ==
    \A g \in Gateway : \A j, k \in DOMAIN line[g] :
        j < k /\ line[g][k][2] = "confirm" /\ line[g][j][1] = line[g][k][1]
            => line[g][j][2] = "create"

\* A charge, made or still to come, is awaited, to be refunded, or announced.
ChargeHandled(s) ==
    /\ Requested(s, "confirm") \/ payment[OrderOf[s]] = "SUCCEEDED" =>
          sp[s] \in {"confirm", "enqueue"} \/ Requested(s, "refund") \/ result[s] = "SUCCEEDED"
    /\ Requested(s, "confirm") => payment[OrderOf[s]] # "SUCCEEDED"
    /\ sp[s] = "confirm" /\ reply[s] = "pending" => payment[OrderOf[s]] # "SUCCEEDED"

\* A payment announced is charged for good, and its event finds the order PENDING.
Announced(s) ==
    LET o == OrderOf[s]
        t == PaidTask(s) IN
    result[s] = "SUCCEEDED" =>
        /\ payment[o] = "SUCCEEDED" /\ Quiet(o)
        /\ s \in outbox => status[o] = "PENDING" /\ pc[t] = "idle"
        /\ pc[t] \in {"idle", "find", "update", "reread", "ok"}
        /\ pc[t] \in {"find", "update"} => status[o] = "PENDING"
        /\ pc[t] = "update" => expected[t] = version[o]
        /\ pc[t] \in {"reread", "ok"} => status[o] = "PAID"

LoneInv == \A s \in Saga : Lone(s) => ChargeHandled(s) /\ Announced(s)

StoryInv == StoreTypes /\ ResultInv /\ OriginInv /\ ConfirmInv /\ LoneInv

\* Nobody takes back what a run has begun.
LEMMA ComingStays ==
  ASSUME \A s \in Saga : sp[s] \notin {"idle", "refused"} => sp'[s] \notin {"idle", "refused"},
         \A s \in Saga : pc[<<s, "paid">>] # "idle" => pc'[<<s, "paid">>] # "idle",
         \A s \in Saga : pc[<<s, "cancel">>] # "idle" => pc'[<<s, "cancel">>] # "idle",
         NEW o \in Order
  PROVE  /\ EventCame(o) => EventCame(o)'
         /\ CancelCame(o) => CancelCame(o)'
         /\ TakenUp(o) => TakenUp(o)'
BY DEF EventCame, CancelCame, TakenUp, Begun, PaidTask, CancelTask

\* A request on a connection is of a call its run has made.
LEMMA RequestedWasCalled ==
  ASSUME PayInv, NEW s \in Saga, NEW op \in Calling, Requested(s, op)
  PROVE  op \notin NotYet(sp[s])
BY SagaAssumption DEF PayInv, LineInv, Placed, Requested

\* What a call adds to the requests.
LEMMA RequestedAfterCall ==
  ASSUME TypeInv, NEW s \in Saga, NEW op \in Calling, Call(s, op),
         NEW u \in Saga, NEW p \in Calling
  PROVE  Requested(u, p)' <=> Requested(u, p) \/ (u = s /\ p = op)
<1> USE SagaAssumption
<1> DEFINE c == GatewayOf[s]
           d == GatewayOf[u]
<1>1. /\ line \in [Gateway -> Seq(Saga \X Calling)] /\ c \in Gateway /\ d \in Gateway
      /\ line' = [line EXCEPT ![c] = Append(line[c], <<s, op>>)]
  BY DEF Call, TypeInv, TypeOK
<1>2. CASE d # c
  <2>1. u # s /\ line'[d] = line[d]
    BY <1>1, <1>2
  <2> QED
    BY <2>1 DEF Requested
<1>3. CASE d = c
  <2>1. line'[c] = Append(line[c], <<s, op>>)
    BY <1>1
  <2>2. /\ DOMAIN line'[c] = 1..(Len(line[c]) + 1) /\ DOMAIN line[c] = 1..Len(line[c])
        /\ Len(line[c]) \in Nat
        /\ line'[c][Len(line[c]) + 1] = <<s, op>>
        /\ \A k \in 1..Len(line[c]) : line'[c][k] = line[c][k]
    BY <1>1, <2>1
  <2>3. \E k \in DOMAIN line'[c] : line'[c][k] = <<s, op>>
    BY <2>2
  <2>4. ASSUME Requested(u, p) PROVE Requested(u, p)'
    <3>1. PICK k \in DOMAIN line[d] : line[d][k] = <<u, p>>
      BY <2>4 DEF Requested
    <3>2. k \in DOMAIN line'[d] /\ line'[d][k] = <<u, p>>
      BY <1>3, <2>2, <3>1
    <3> QED
      BY <3>2 DEF Requested
  <2>5. ASSUME Requested(u, p)' PROVE Requested(u, p) \/ (u = s /\ p = op)
    <3>1. PICK k \in DOMAIN line'[d] : line'[d][k] = <<u, p>>
      BY <2>5 DEF Requested
    <3>2. CASE k \in DOMAIN line[d]
      BY <1>3, <2>2, <3>1, <3>2 DEF Requested
    <3>3. CASE k = Len(line[c]) + 1
      <4>1. <<u, p>> = <<s, op>>
        BY <1>3, <2>2, <3>1, <3>3
      <4> QED
        BY <4>1
    <3> QED
      BY <1>3, <2>2, <3>1, <3>2, <3>3
  <2>6. u = s /\ p = op => Requested(u, p)'
    BY <2>3 DEF Requested
  <2> QED
    BY <2>4, <2>5, <2>6
<1> QED
  BY <1>2, <1>3

\* A call is about the order of its run only, and a confirmation is asked for once.
LEMMA CallKeepsConfirmInv ==
  ASSUME PayInv, ConfirmInv, NEW s \in Saga, NEW op \in Calling, Call(s, op),
         op = "confirm" => sp[s] = "create"
  PROVE  /\ ConfirmInv'
         /\ \A o \in Order : o # OrderOf[s] /\ Quiet(o) => Quiet(o)'
<1> USE SagaAssumption
<1> DEFINE c == GatewayOf[s]
<1>1. /\ line \in [Gateway -> Seq(Saga \X Calling)] /\ c \in Gateway
      /\ line' = [line EXCEPT ![c] = Append(line[c], <<s, op>>)]
  BY DEF Call, PayInv, TypeInv, TypeOK
<1>2. ASSUME NEW g \in Gateway, NEW k \in DOMAIN line'[g]
      PROVE  \/ k \in DOMAIN line[g] /\ line'[g][k] = line[g][k]
             \/ g = c /\ k = Len(line[c]) + 1 /\ line'[g][k] = <<s, op>>
  BY <1>1
<1>3. ASSUME NEW g \in Gateway, NEW j \in DOMAIN line'[g], NEW k \in DOMAIN line'[g],
             j < k, line'[g][k][2] = "confirm", line'[g][j][1] = line'[g][k][1]
      PROVE  line'[g][j][2] = "create"
  <2>0. DOMAIN line[g] = 1..Len(line[g]) /\ Len(line[g]) \in Nat
    BY <1>1
  <2>1. CASE k \in DOMAIN line[g] /\ line'[g][k] = line[g][k]
    <3>1. j \in DOMAIN line[g] /\ line'[g][j] = line[g][j]
      BY <1>1, <1>2, <1>3, <2>0, <2>1
    <3> QED
      BY <1>3, <2>1, <3>1 DEF ConfirmInv
  <2>2. CASE g = c /\ k = Len(line[c]) + 1 /\ line'[g][k] = <<s, op>>
    <3>1. j \in DOMAIN line[g] /\ line'[g][j] = line[g][j]
      BY <1>1, <1>2, <1>3, <2>0, <2>2
    <3>2. line[g][j][1] = s /\ line[g][j][2] \in Calling
      <4>1. line[g][j] \in Saga \X Calling
        BY <1>1, <3>1
      <4> QED
        BY <1>3, <2>2, <3>1, <4>1
    <3>3. line[g][j][2] \notin NotYet(sp[s])
      BY <3>1, <3>2 DEF PayInv, LineInv, Placed
    <3> QED
      BY <1>3, <2>2, <3>1, <3>2, <3>3 DEF NotYet, Calling
  <2> QED
    BY <1>2, <2>1, <2>2
<1>4. ASSUME NEW o \in Order, o # OrderOf[s], Quiet(o) PROVE Quiet(o)'
  BY <1>2, <1>4 DEF Quiet
<1> QED
  BY <1>3, <1>4 DEF ConfirmInv

\* What a run does to its own entries is the business of no other run.
LEMMA OwnStepKeepsStoryInv ==
  ASSUME PayInv, StoryInv, NEW s \in Saga, UNCHANGED <<payment, storeVars>>,
         Begun(s) => Begun(s)', Begun(s)' \/ sp'[s] = "refused",
         \A u \in Saga \ {s} :
            /\ sp'[u] = sp[u] /\ result'[u] = result[u] /\ reply'[u] = reply[u]
            /\ u \in outbox' <=> u \in outbox
            /\ \A op \in Calling : Requested(u, op)' <=> Requested(u, op),
         \A o \in Order : o # OrderOf[s] /\ Quiet(o) => Quiet(o)',
         ConfirmInv', Results(s)', Lone(s)' => ChargeHandled(s)' /\ Announced(s)',
         sp'[s] = "refused" => ~Begun(s) /\ UNCHANGED line
  PROVE  StoryInv'
<1> USE SagaAssumption
<1>0. /\ UNCHANGED <<status, version, job, pc, expected>>
  BY DEF storeVars
<1>1. StoreTypes'
  BY <1>0 DEF StoryInv, StoreTypes
<1>2. ResultInv'
  <2> SUFFICES ASSUME NEW u \in Saga \ {s} PROVE Results(u)'
    BY DEF ResultInv
  <2> QED
    BY <1>0 DEF StoryInv, ResultInv, Results, Begun, CancelTask, PaidTask
<1>3. OriginInv'
  <2> SUFFICES ASSUME NEW o \in Order PROVE Origin(o)'
    BY DEF OriginInv
  <2>1. Origin(o)
    BY DEF StoryInv, OriginInv
  <2>2. \A u \in Saga : sp[u] \notin {"idle", "refused"} => sp'[u] \notin {"idle", "refused"}
    BY DEF Begun
  <2> QED
    BY <1>0, <2>1, <2>2, ComingStays DEF Origin
<1>4. LoneInv'
  <2> SUFFICES ASSUME NEW u \in Saga \ {s}, Lone(u)' PROVE ChargeHandled(u)' /\ Announced(u)'
    BY DEF LoneInv
  <2>1. Lone(u) /\ (Quiet(OrderOf[u]) => Quiet(OrderOf[u])')
    <3>1. CASE OrderOf[u] # OrderOf[s]
      <4>1. Lone(u)
        BY <1>0, <3>1 DEF Lone, Begun
      <4> QED
        BY <3>1, <4>1
    <3>2. CASE OrderOf[u] = OrderOf[s]
      <4>1. ~Begun(s)'
        BY <3>2 DEF Lone
      <4>2. UNCHANGED line /\ ~Begun(s)
        BY <4>1
      <4> QED
        BY <1>0, <4>2 DEF Lone, Begun, Quiet
    <3> QED
      BY <3>1, <3>2
  <2>2. ChargeHandled(u) /\ Announced(u)
    BY <2>1 DEF StoryInv, LoneInv
  <2>3. "confirm" \in Calling /\ "refund" \in Calling
    BY DEF Calling
  <2>4. ChargeHandled(u)'
    BY <1>0, <2>2, <2>3 DEF ChargeHandled
  <2>5. Announced(u)'
    BY <1>0, <2>1, <2>2 DEF Announced, PaidTask
  <2> QED
    BY <2>4, <2>5
<1> QED
  BY <1>1, <1>2, <1>3, <1>4 DEF StoryInv

\* A run that moves on without a call changes its step and no request.
LEMMA GotoEffect ==
  ASSUME PayInv, StoryInv, NEW s \in Saga, NEW step, Goto(s, step)
  PROVE  /\ sp'[s] = step /\ reply'[s] = reply[s]
         /\ \A u \in Saga \ {s} : sp'[u] = sp[u] /\ reply'[u] = reply[u]
         /\ \A u \in Saga, op \in Calling : Requested(u, op)' <=> Requested(u, op)
         /\ \A o \in Order : Quiet(o)' <=> Quiet(o)
         /\ ConfirmInv' /\ UNCHANGED line
BY DEF PayInv, TypeInv, TypeOK, StoryInv, Goto, Requested, Quiet, ConfirmInv

\* A run begins with nothing asked for and nothing charged by another.
LEMMA BeginKeepsStoryInv ==
  ASSUME PayInv, StoryInv, NEW s \in Saga, NEW fails \in BOOLEAN, Begin(s, fails) \/ BeginFails(s)
  PROVE  StoryInv'
<1> USE SagaAssumption
<1>1. /\ sp[s] = "idle" /\ ~Begun(s) /\ UNCHANGED <<result, payment, outbox, storeVars>>
      /\ Goto(s, "get") \/ Goto(s, "refused")
  BY DEF Begin, BeginFails, Begun
<1>2. Results(s) /\ result[s] = "none"
  BY <1>1 DEF StoryInv, ResultInv, Results
<1>3. /\ sp'[s] \in {"get", "refused"}
      /\ \A u \in Saga \ {s} : sp'[u] = sp[u] /\ reply'[u] = reply[u]
      /\ \A u \in Saga, op \in Calling : Requested(u, op)' <=> Requested(u, op)
      /\ \A o \in Order : Quiet(o)' <=> Quiet(o)
      /\ ConfirmInv' /\ UNCHANGED line
  BY <1>1, GotoEffect
<1>4. UNCHANGED <<status, pc>>
  BY <1>1 DEF storeVars
<1>5. Results(s)'
  BY <1>1, <1>2, <1>3, <1>4 DEF Results, Begun, CancelTask, PaidTask
<1>6. ASSUME Lone(s)' PROVE ChargeHandled(s)' /\ Announced(s)'
  <2>1. \A u \in Saga : OrderOf[u] = OrderOf[s] => ~Begun(u)
    BY <1>1, <1>3, <1>6 DEF Lone, Begun
  <2>2. payment[OrderOf[s]] = "none" /\ OrderOf[s] \in Order
    BY <2>1 DEF StoryInv, OriginInv, Origin, TakenUp
  <2>3. ~Requested(s, "confirm") /\ "confirm" \in Calling
    BY <1>1, <1>2 DEF Results, Calling
  <2>4. ChargeHandled(s)'
    BY <1>1, <1>3, <2>2, <2>3 DEF ChargeHandled
  <2>5. Announced(s)'
    BY <1>1, <1>2 DEF Announced
  <2> QED
    BY <2>4, <2>5
<1>7. Begun(s)' \/ sp'[s] = "refused"
  BY <1>3 DEF Begun
<1> QED
  BY <1>1, <1>3, <1>5, <1>6, <1>7, OwnStepKeepsStoryInv

\* What a call does for the run that makes it.
LEMMA CallKeepsStoryInv ==
  ASSUME PayInv, StoryInv, NEW s \in Saga, NEW op \in Calling, Call(s, op),
         UNCHANGED <<payment, outbox, storeVars>>, Begun(s),
         op = "confirm" => sp[s] = "create",
         \A u \in Saga \ {s} : result'[u] = result[u],
         result[s] \notin {"SUCCEEDED", "ERROR"}, result'[s] \notin {"SUCCEEDED", "ERROR"},
         IF op = "refund" THEN result'[s] \in CancelledResults
         ELSE result[s] = "none" /\ result'[s] = "none",
         status[OrderOf[s]] # "NONE",
         op # "refund" /\ Lone(s) => ~Requested(s, "confirm") /\ payment[OrderOf[s]] # "SUCCEEDED"
  PROVE  StoryInv'
<1> USE SagaAssumption
<1>1. /\ sp'[s] = op /\ reply'[s] = "none"
      /\ \A u \in Saga \ {s} : sp'[u] = sp[u] /\ reply'[u] = reply[u]
  BY DEF Call, PayInv, TypeInv, TypeOK
<1>2. ConfirmInv' /\ \A o \in Order : o # OrderOf[s] /\ Quiet(o) => Quiet(o)'
  BY CallKeepsConfirmInv DEF StoryInv
<1>3. \A u \in Saga, p \in Calling : Requested(u, p)' <=> Requested(u, p) \/ (u = s /\ p = op)
  BY RequestedAfterCall DEF PayInv
<1>4. Begun(s)'
  BY <1>1 DEF Begun, Calling
<1>5. UNCHANGED <<status, pc, job>>
  BY DEF storeVars
<1>6. Results(s)'
  <2>1. Results(s)
    BY DEF StoryInv, ResultInv
  <2> QED
    BY <1>1, <1>4, <1>5, <2>1 DEF Results, CancelledResults, Calling, CancelTask, PaidTask
<1>7. ASSUME Lone(s)' PROVE ChargeHandled(s)' /\ Announced(s)'
  <2>1. Lone(s)
    BY <1>1, <1>5, <1>7 DEF Lone, Begun
  <2>2. ChargeHandled(s) /\ "confirm" \in Calling /\ "refund" \in Calling
    BY <2>1 DEF StoryInv, LoneInv, Calling
  <2>3. ChargeHandled(s)'
    <3>1. CASE op = "refund"
      BY <1>1, <1>3, <2>2, <3>1 DEF ChargeHandled
    <3>2. CASE op = "confirm"
      BY <1>1, <1>3, <2>1, <2>2, <3>2 DEF ChargeHandled
    <3>3. CASE op = "create"
      BY <1>1, <1>3, <2>1, <2>2, <3>3 DEF ChargeHandled
    <3> QED
      BY <3>1, <3>2, <3>3 DEF Calling
  <2>4. Announced(s)'
    BY DEF Announced
  <2> QED
    BY <2>3, <2>4
<1>8. /\ sp'[s] # "refused"
      /\ \A u \in Saga \ {s} : /\ u \in outbox' <=> u \in outbox
                              /\ \A p \in Calling : Requested(u, p)' <=> Requested(u, p)
  BY <1>1, <1>3 DEF Calling
<1> QED
  BY <1>1, <1>2, <1>4, <1>6, <1>7, <1>8, OwnStepKeepsStoryInv

\* What going on without a call does for a run in progress.
LEMMA GotoKeepsStoryInv ==
  ASSUME PayInv, StoryInv, NEW s \in Saga, NEW step \in {"cancel", "enqueue", "release", "done"},
         Goto(s, step), Begun(s), UNCHANGED <<payment, storeVars>>,
         \A u \in Saga \ {s} : result'[u] = result[u] /\ (u \in outbox' <=> u \in outbox),
         Results(s)', Lone(s) => ChargeHandled(s)' /\ Announced(s)'
  PROVE  StoryInv'
<1>1. /\ sp'[s] = step
      /\ \A u \in Saga \ {s} : sp'[u] = sp[u] /\ reply'[u] = reply[u]
      /\ \A u \in Saga, op \in Calling : Requested(u, op)' <=> Requested(u, op)
      /\ \A o \in Order : Quiet(o)' <=> Quiet(o)
      /\ ConfirmInv'
  BY GotoEffect
<1>2. Begun(s)' /\ step # "refused"
  BY <1>1 DEF Begun
<1>3. Lone(s)' => Lone(s)
  BY <1>1 DEF Lone, Begun, storeVars
<1> QED
  BY <1>1, <1>2, <1>3, OwnStepKeepsStoryInv

\* A run reads its order, or fails to.
LEMMA GetKeepsStoryInv ==
  ASSUME PayInv, StoryInv, NEW s \in Saga, GetOrder(s) \/ GetTimesOut(s)
  PROVE  StoryInv'
<1> USE SagaAssumption
<1>1. /\ sp[s] = "get" /\ Begun(s) /\ UNCHANGED <<payment, outbox, storeVars>>
  BY DEF GetOrder, GetTimesOut, Begun
<1>2. Results(s) /\ result[s] = "none"
  BY <1>1 DEF StoryInv, ResultInv, Results
<1>3. Lone(s) => ~Requested(s, "confirm") /\ payment[OrderOf[s]] # "SUCCEEDED"
  <2>1. ASSUME Requested(s, "confirm") PROVE FALSE
    BY <1>1, <2>1, RequestedWasCalled DEF NotYet, Calling
  <2>2. ASSUME Lone(s) PROVE payment[OrderOf[s]] # "SUCCEEDED"
    <3>1. /\ Requested(s, "confirm") \/ payment[OrderOf[s]] = "SUCCEEDED" =>
               \/ sp[s] \in {"confirm", "enqueue"} \/ Requested(s, "refund")
               \/ result[s] = "SUCCEEDED"
      BY <2>2 DEF StoryInv, LoneInv, ChargeHandled
    <3>2. ~Requested(s, "refund")
      BY <1>1, RequestedWasCalled DEF NotYet, Calling
    <3> QED
      BY <1>1, <1>2, <3>1, <3>2
  <2> QED
    BY <2>1, <2>2
<1>4. CASE Call(s, "create") /\ UNCHANGED result /\ status[OrderOf[s]] # "NONE"
  <2>1. "create" \in Calling
    BY DEF Calling
  <2> QED
    BY <1>1, <1>2, <1>3, <1>4, <2>1, CallKeepsStoryInv
<1>5. CASE Goto(s, "release") /\ result' = [result EXCEPT ![s] = "ERROR"]
  <2>1. result'[s] = "ERROR" /\ \A u \in Saga \ {s} : result'[u] = result[u]
    BY <1>5 DEF PayInv, TypeInv, TypeOK
  <2>2. sp'[s] = "release" /\ Begun(s)'
    BY <1>5, GotoEffect DEF Begun
  <2>3. Results(s)'
    BY <1>1, <1>2, <2>1, <2>2 DEF Results, CancelledResults, CancelTask, PaidTask, storeVars
  <2>4. \A op \in Calling : Requested(s, op)' <=> Requested(s, op)
    BY <1>5, GotoEffect
  <2>5. Lone(s) => ChargeHandled(s)' /\ Announced(s)'
    BY <1>1, <1>3, <2>1, <2>2, <2>4 DEF ChargeHandled, Announced, Calling
  <2> QED
    BY <1>1, <1>5, <2>1, <2>3, <2>5, GotoKeepsStoryInv
<1> QED
  BY <1>4, <1>5 DEF GetOrder, GetTimesOut, Returns

\* A run goes on after an answer of billing, or without one.
LEMMA ReturnedKeepsStoryInv ==
  ASSUME PayInv, StoryInv, NEW s \in Saga, NEW answer \in {"ok", "error", "pending"},
         sp[s] \in Calling, Returned(s, answer), answer # "error" => reply[s] = answer,
         sp[s] = "refund" => answer # "pending"
  PROVE  StoryInv'
<1> USE SagaAssumption
<1>1. Begun(s) /\ UNCHANGED <<payment, outbox, storeVars>>
  BY DEF Returned, Begun, Calling
<1>2. Results(s) /\ result \in [Saga -> {"none", "SUCCEEDED", "PAYMENT_CREATE_FAILED", "COMPENSATED", "ERROR"}]
  BY DEF PayInv, TypeInv, TypeOK, StoryInv, ResultInv
<1>3. status[OrderOf[s]] # "NONE" /\ result[s] \notin {"SUCCEEDED", "ERROR"}
  BY <1>1, <1>2 DEF Results, Calling, CancelledResults
<1>4. Lone(s) => ChargeHandled(s)
  BY DEF StoryInv, LoneInv
<1>5. ASSUME NEW r \in CancelledResults, Goto(s, "cancel"),
             (result' = result /\ result[s] = r) \/ result' = [result EXCEPT ![s] = r],
             result[s] = "none" \/ result[s] = r,
             Lone(s) => (~Requested(s, "confirm") /\ payment[OrderOf[s]] # "SUCCEEDED") \/ Requested(s, "refund")
      PROVE  StoryInv'
  <2>1. result'[s] = r /\ \A u \in Saga \ {s} : result'[u] = result[u]
    BY <1>2, <1>5
  <2>2. sp'[s] = "cancel" /\ Begun(s)' /\ r # "SUCCEEDED" /\ r # "ERROR"
    BY <1>5, GotoEffect DEF Begun, CancelledResults
  <2>3. Results(s)'
    BY <1>1, <1>2, <1>3, <1>5, <2>1, <2>2 DEF Results, CancelTask, PaidTask, storeVars
  <2>4. \A op \in Calling : Requested(s, op)' <=> Requested(s, op)
    BY <1>5, GotoEffect
  <2>5. Lone(s) => ChargeHandled(s)' /\ Announced(s)'
    BY <1>1, <1>4, <1>5, <2>1, <2>2, <2>4 DEF ChargeHandled, Announced, Calling
  <2> QED
    BY <1>1, <1>5, <2>1, <2>3, <2>5, GotoKeepsStoryInv
<1>6. CASE CreateReturns(s, answer) /\ UNCHANGED refunded
  <2>0. sp[s] = "create" /\ result[s] = "none"
    BY <1>2, <1>6 DEF CreateReturns, Results
  <2>1. Lone(s) => ~Requested(s, "confirm") /\ payment[OrderOf[s]] # "SUCCEEDED"
    <3>1. ~Requested(s, "confirm") /\ ~Requested(s, "refund")
      BY <2>0, RequestedWasCalled DEF NotYet, Calling
    <3> QED
      BY <1>4, <2>0, <3>1 DEF ChargeHandled
  <2>2. CASE Call(s, "confirm") /\ UNCHANGED result
    <3>1. "confirm" \in Calling
      BY DEF Calling
    <3> QED
      BY <1>1, <1>3, <2>0, <2>1, <2>2, <3>1, CallKeepsStoryInv
  <2>3. CASE Goto(s, "cancel") /\ result' = [result EXCEPT ![s] = "PAYMENT_CREATE_FAILED"]
    <3>1. "PAYMENT_CREATE_FAILED" \in CancelledResults
      BY DEF CancelledResults
    <3> QED
      BY <1>5, <2>0, <2>1, <2>3, <3>1
  <2> QED
    BY <1>6, <2>2, <2>3 DEF CreateReturns
<1>7. CASE ConfirmReturns(s, answer) /\ UNCHANGED refunded
  <2>0. sp[s] = "confirm" /\ result[s] = "none" /\ "COMPENSATED" \in CancelledResults
    BY <1>2, <1>7 DEF ConfirmReturns, Results, CancelledResults
  <2>1. CASE answer = "error" /\ Call(s, "refund") /\ result' = [result EXCEPT ![s] = "COMPENSATED"]
    <3>1. /\ "refund" \in Calling /\ result'[s] = "COMPENSATED"
          /\ \A u \in Saga \ {s} : result'[u] = result[u]
      BY <1>2, <2>1 DEF Calling
    <3> QED
      BY <1>1, <1>3, <2>0, <2>1, <3>1, CallKeepsStoryInv
  <2>2. CASE answer = "pending" /\ Goto(s, "cancel") /\ result' = [result EXCEPT ![s] = "COMPENSATED"]
    <3>1. Lone(s) => payment[OrderOf[s]] # "SUCCEEDED"
      BY <1>4, <2>0, <2>2 DEF ChargeHandled
    <3>2. Quiet(OrderOf[s]) /\ GatewayOf[s] \in Gateway
      BY <2>0, <2>2 DEF PayInv, PaidInv, Paid, Decided
    <3>3. ~Requested(s, "confirm")
      BY <3>2 DEF Quiet, Requested
    <3> QED
      BY <1>5, <2>0, <2>2, <3>1, <3>3
  <2>3. CASE answer = "ok" /\ Goto(s, "enqueue") /\ UNCHANGED result
    <3>1. sp'[s] = "enqueue" /\ Begun(s)'
      BY <2>3, GotoEffect DEF Begun
    <3>2. Results(s)'
      BY <1>1, <1>2, <1>3, <2>0, <2>3, <3>1 DEF Results, CancelTask, PaidTask, storeVars
    <3>3. \A op \in Calling : Requested(s, op)' <=> Requested(s, op)
      BY <2>3, GotoEffect
    <3>4. Quiet(OrderOf[s]) /\ GatewayOf[s] \in Gateway
      BY <2>0, <2>3 DEF PayInv, PaidInv, Paid, Decided
    <3>5. ~Requested(s, "confirm")
      BY <3>4 DEF Quiet, Requested
    <3>6. ChargeHandled(s)' /\ Announced(s)'
      BY <2>0, <2>3, <3>1, <3>3, <3>5 DEF ChargeHandled, Announced, Calling
    <3> QED
      BY <1>1, <2>3, <3>2, <3>6, GotoKeepsStoryInv
  <2> QED
    BY <1>7, <2>1, <2>2, <2>3 DEF ConfirmReturns
<1>8. CASE RefundReturns(s, answer)
  <2>1. sp[s] = "refund" /\ Goto(s, "cancel") /\ UNCHANGED result
    BY <1>8 DEF RefundReturns
  <2>2. result[s] \in CancelledResults
    BY <1>2, <2>1 DEF Results
  <2>3. Lone(s) => (~Requested(s, "confirm") /\ payment[OrderOf[s]] # "SUCCEEDED") \/ Requested(s, "refund")
    BY <1>3, <1>4, <2>1 DEF ChargeHandled
  <2> QED
    BY <1>5, <2>1, <2>2, <2>3
<1> QED
  BY <1>6, <1>7, <1>8 DEF Returned

\* The end of a run: the answer to its cancel request, and the release.
LEMMA EndKeepsStoryInv ==
  ASSUME PayInv, StoryInv, NEW s \in Saga, NEW step \in {"release", "done"},
         sp[s] \in {"cancel", "release"}, Goto(s, step),
         UNCHANGED <<result, payment, outbox, storeVars>>
  PROVE  StoryInv'
<1>1. Begun(s) /\ Results(s) /\ UNCHANGED <<status, pc, job, version, expected>>
  BY DEF Begun, StoryInv, ResultInv, storeVars
<1>2. sp'[s] = step /\ Begun(s)' /\ UNCHANGED line
  BY GotoEffect DEF Begun
<1>3. Results(s)'
  BY <1>1, <1>2 DEF Results, CancelTask, PaidTask
<1>4. ASSUME Lone(s) PROVE ChargeHandled(s)' /\ Announced(s)'
  <2>1. ChargeHandled(s) /\ Announced(s)
    BY <1>4 DEF StoryInv, LoneInv
  <2>2. ChargeHandled(s)'
    BY <1>2, <2>1 DEF ChargeHandled, Requested
  <2>3. Announced(s)'
    BY <1>1, <1>2, <2>1 DEF Announced, PaidTask, Quiet
  <2> QED
    BY <2>2, <2>3
<1> QED
  BY <1>1, <1>3, <1>4, GotoKeepsStoryInv

\* A run that announces its payment: the order it is about is still PENDING if
\* nobody else has dealt with it.
LEMMA EnqueueKeepsStoryInv ==
  ASSUME PayInv, StoryInv, NEW s \in Saga, Enqueue(s)
  PROVE  StoryInv'
<1> USE SagaAssumption
<1>1. /\ sp[s] = "enqueue" /\ Goto(s, "release") /\ outbox' = outbox \cup {s}
      /\ result' = [result EXCEPT ![s] = "SUCCEEDED"] /\ UNCHANGED <<payment, storeVars>>
  BY DEF Enqueue, Returns
<1>2. Begun(s) /\ Results(s) /\ UNCHANGED <<status, pc, job, version, expected>>
  BY <1>1 DEF Begun, StoryInv, ResultInv, storeVars
<1>3. sp'[s] = "release" /\ Begun(s)' /\ UNCHANGED line
  BY <1>1, GotoEffect DEF Begun
<1>4. result'[s] = "SUCCEEDED" /\ \A u \in Saga \ {s} : result'[u] = result[u]
  BY <1>1 DEF PayInv, TypeInv, TypeOK
<1>5. /\ result[s] = "none" /\ pc[PaidTask(s)] = "idle" /\ pc[CancelTask(s)] = "idle"
      /\ status[OrderOf[s]] # "NONE"
  BY <1>1, <1>2 DEF Results, CancelledResults
<1>6. Results(s)'
  BY <1>1, <1>2, <1>3, <1>4, <1>5 DEF Results, CancelTask, PaidTask
<1>7. ASSUME Lone(s) PROVE ChargeHandled(s)' /\ Announced(s)'
  <2>1. ChargeHandled(s) /\ payment[OrderOf[s]] = "SUCCEEDED" /\ Quiet(OrderOf[s])
    BY <1>1, <1>7 DEF StoryInv, LoneInv, PayInv, PaidInv, Paid, Decided
  <2>2. ASSUME NEW u \in Saga, OrderOf[u] = OrderOf[s]
        PROVE  pc[PaidTask(u)] = "idle" /\ pc[CancelTask(u)] = "idle"
    <3>1. CASE u = s
      BY <1>5, <3>1
    <3>2. CASE u # s
      <4>1. ~Begun(u) /\ Results(u)
        BY <1>7, <2>2, <3>2 DEF Lone, StoryInv, ResultInv
      <4>2. result[u] = "none"
        BY <4>1 DEF Begun, Results
      <4> QED
        BY <4>1, <4>2 DEF Results, CancelledResults
    <3> QED
      BY <3>1, <3>2
  <2>3. status[OrderOf[s]] = "PENDING"
    <3>1. status[OrderOf[s]] \in Store!Statuses /\ OrderOf[s] \in Order
      BY DEF StoryInv, StoreTypes
    <3>2. status[OrderOf[s]] # "PAID"
      BY <2>2, <3>1 DEF StoryInv, OriginInv, Origin, EventCame
    <3>3. status[OrderOf[s]] # "CANCELLED"
      BY <1>7, <2>2, <3>1 DEF StoryInv, OriginInv, Origin, CancelCame, Lone
    <3> QED
      BY <1>5, <3>1, <3>2, <3>3 DEF Store!Statuses
  <2>4. ChargeHandled(s)'
    BY <1>1, <1>3, <1>4, <2>1 DEF ChargeHandled, Requested
  <2>5. Announced(s)'
    BY <1>1, <1>2, <1>3, <1>5, <2>1, <2>3 DEF Announced, PaidTask, Quiet
  <2> QED
    BY <2>4, <2>5
<1>8. \A u \in Saga \ {s} : result'[u] = result[u] /\ (u \in outbox' <=> u \in outbox)
  BY <1>1, <1>4
<1> QED
  BY <1>1, <1>2, <1>6, <1>7, <1>8, GotoKeepsStoryInv

\* Nothing that the story is about changes: a lease expires, or nothing happens.
LEMMA StutterKeepsStoryInv ==
  ASSUME StoryInv, UNCHANGED <<sp, result, reply, payment, line, outbox, storeVars>>
  PROVE  StoryInv'
<1>1. UNCHANGED <<status, version, job, pc, expected>>
  BY DEF storeVars
<1>2. StoreTypes' /\ ConfirmInv'
  BY <1>1 DEF StoryInv, StoreTypes, ConfirmInv
<1>3. ResultInv' /\ OriginInv'
  <2>1. ResultInv'
    BY <1>1 DEF StoryInv, ResultInv, Results, Begun, Requested, CancelTask, PaidTask
  <2>2. \A o \in Order : Origin(o) => Origin(o)'
    BY <1>1, ComingStays DEF Origin
  <2> QED
    BY <2>1, <2>2 DEF StoryInv, OriginInv
<1>4. LoneInv'
  BY <1>1 DEF StoryInv, LoneInv, Lone, Begun, ChargeHandled, Announced, Requested, PaidTask, Quiet
<1> QED
  BY <1>2, <1>3, <1>4 DEF StoryInv

\* The rest of a sequence is the sequence one place earlier.
LEMMA TailEntries ==
  ASSUME NEW S, NEW q \in Seq(S), q # <<>>, NEW k \in 1..(Len(q) - 1)
  PROVE  k \in DOMAIN Tail(q) /\ Tail(q)[k] = q[k + 1]
OBVIOUS

\* Billing serves a request.
LEMMA ServesKeepsStoryInv ==
  ASSUME OneGateway, PayInv, StoryInv, NEW g \in Gateway, line[g] # <<>>,
         UNCHANGED <<sp, result, outbox, storeVars>>, line' = [line EXCEPT ![g] = Tail(@)],
         NEW s \in Saga, NEW op \in Calling, Head(line[g]) = <<s, op>>,
         NEW before, NEW after \in Statuses, NEW answer, Serves(s, op, before, after, answer),
         after = "SUCCEEDED" => after = payment[OrderOf[s]] \/ op = "confirm",
         op = "refund" => after # "SUCCEEDED",
         after = "none" => payment[OrderOf[s]] = "none",
         payment[OrderOf[s]] = "SUCCEEDED" /\ op # "refund" => after = "SUCCEEDED",
         answer = "pending" => op = "confirm" /\ after = payment[OrderOf[s]]
  PROVE  StoryInv'
<1> USE SagaAssumption
<1> DEFINE o == OrderOf[s]
<1>1. /\ line \in [Gateway -> Seq(Saga \X Calling)]
      /\ reply \in [Saga -> {"none", "ok", "error", "pending"}]
      /\ payment \in [Order -> Statuses] /\ o \in Order
      /\ UNCHANGED <<status, version, job, pc, expected>>
  BY DEF PayInv, TypeInv, TypeOK, storeVars
<1>2. line[g][1] = <<s, op>> /\ 1 \in DOMAIN line[g]
  BY <1>1
<1>3. ASSUME NEW h \in Gateway, NEW k \in DOMAIN line'[h]
      PROVE  \E j \in DOMAIN line[h] :
                /\ line'[h][k] = line[h][j]
                /\ h = g => j = k + 1
                /\ h # g => j = k
  <2>1. CASE h = g
    <3>1. line'[g] = Tail(line[g]) /\ k \in 1..(Len(line[g]) - 1)
      BY <1>1, <1>3, <2>1
    <3>2. k + 1 \in DOMAIN line[g] /\ line'[g][k] = line[g][k + 1]
      BY <1>1, <3>1
    <3> QED
      BY <2>1, <3>2
  <2>2. CASE h # g
    BY <1>1, <1>3, <2>2
  <2> QED
    BY <2>1, <2>2
<1>4. /\ payment'[o] = after /\ \A p \in Order \ {o} : payment'[p] = payment[p]
      /\ \A u \in Saga \ {s} : reply'[u] = reply[u]
      /\ reply'[s] = IF sp[s] = op THEN answer ELSE reply[s]
  BY <1>1 DEF Serves
<1>5. GatewayOf[s] = g /\ Requested(s, op) /\ ~Quiet(o)
  BY <1>2 DEF PayInv, LineInv, Placed, Requested, Quiet
<1>6. Begun(s)
  BY <1>5 DEF StoryInv, ResultInv, Results
<1>7. ASSUME NEW u \in Saga, NEW p \in Calling, Requested(u, p)' PROVE Requested(u, p)
  <2>1. GatewayOf[u] \in Gateway
    OBVIOUS
  <2>2. PICK k \in DOMAIN line'[GatewayOf[u]] : line'[GatewayOf[u]][k] = <<u, p>>
    BY <1>7 DEF Requested
  <2>3. PICK j \in DOMAIN line[GatewayOf[u]] : line'[GatewayOf[u]][k] = line[GatewayOf[u]][j]
    BY <1>3, <2>1, <2>2
  <2> QED
    BY <2>2, <2>3 DEF Requested
<1>8. ASSUME NEW u \in Saga, NEW p \in Calling, Requested(u, p), ~(u = s /\ p = op)
      PROVE  Requested(u, p)'
  <2>1. PICK j \in DOMAIN line[GatewayOf[u]] : line[GatewayOf[u]][j] = <<u, p>>
    BY <1>8 DEF Requested
  <2>2. CASE GatewayOf[u] # g
    BY <1>1, <2>1, <2>2 DEF Requested
  <2>3. CASE GatewayOf[u] = g
    <3>1. j # 1
      BY <1>2, <1>8, <2>1, <2>3
    <3>2. line'[g] = Tail(line[g]) /\ line[g] \in Seq(Saga \X Calling)
      BY <1>1
    <3>3. PICK k \in 1..(Len(line[g]) - 1) : j = k + 1
      <4>1. Len(line[g]) \in Nat /\ j \in 1..Len(line[g])
        BY <2>1, <2>3, <3>2
      <4>2. j - 1 \in 1..(Len(line[g]) - 1) /\ j = (j - 1) + 1
        BY <3>1, <4>1
      <4> QED
        BY <4>2
    <3>4. k \in DOMAIN line'[g] /\ line'[g][k] = line[g][k + 1]
      BY <3>2, TailEntries
    <3> QED
      BY <2>1, <2>3, <3>3, <3>4 DEF Requested
  <2> QED
    BY <2>2, <2>3
<1>9. StoreTypes'
  BY <1>1 DEF StoryInv, StoreTypes
<1>10. ResultInv'
  BY <1>1, <1>7 DEF StoryInv, ResultInv, Results, Begun, CancelTask, PaidTask
<1>11. OriginInv'
  <2> SUFFICES ASSUME NEW p \in Order PROVE Origin(p)'
    BY DEF OriginInv
  <2>1. Origin(p)
    BY DEF StoryInv, OriginInv
  <2>2. payment'[p] # "none" => TakenUp(p)
    <3>1. CASE p = o
      BY <1>6, <3>1 DEF TakenUp
    <3>2. CASE p # o
      BY <1>4, <2>1, <3>2 DEF Origin
    <3> QED
      BY <3>1, <3>2
  <2> QED
    BY <1>1, <2>1, <2>2, ComingStays DEF Origin
<1>12. ConfirmInv'
  <2> SUFFICES ASSUME NEW h \in Gateway, NEW j \in DOMAIN line'[h], NEW k \in DOMAIN line'[h],
                      j < k, line'[h][k][2] = "confirm", line'[h][j][1] = line'[h][k][1]
               PROVE  line'[h][j][2] = "create"
    BY DEF ConfirmInv
  <2>1. PICK a \in DOMAIN line[h] : line'[h][j] = line[h][a] /\ (h = g => a = j + 1) /\ (h # g => a = j)
    BY <1>3
  <2>2. PICK b \in DOMAIN line[h] : line'[h][k] = line[h][b] /\ (h = g => b = k + 1) /\ (h # g => b = k)
    BY <1>3
  <2>3. a < b
    BY <1>1, <2>1, <2>2
  <2> QED
    BY <2>1, <2>2, <2>3 DEF StoryInv, ConfirmInv
<1>13. \A p \in Order : Quiet(p) => Quiet(p)'
  BY <1>3 DEF Quiet
\* After a confirmation or a refund of s there is no confirmation of s left.
<1>14. op # "create" => ~Requested(s, "confirm")'
  <2> SUFFICES ASSUME op # "create", Requested(s, "confirm")' PROVE FALSE
    OBVIOUS
  <2>1. PICK k \in DOMAIN line'[g] : line'[g][k] = <<s, "confirm">>
    BY <1>5 DEF Requested
  <2>2. k + 1 \in DOMAIN line[g] /\ line[g][k + 1] = <<s, "confirm">> /\ k \in Nat /\ k > 0
    <3>1. PICK j \in DOMAIN line[g] : line'[g][k] = line[g][j] /\ j = k + 1
      BY <1>3
    <3>2. k \in Nat /\ k > 0
      BY <1>1, <2>1
    <3> QED
      BY <2>1, <3>1, <3>2
  <2>3. 1 < k + 1 /\ line[g][k + 1][2] = "confirm" /\ line[g][1][1] = line[g][k + 1][1]
    BY <1>2, <2>2
  <2>4. line[g][1][2] = "create"
    BY <1>2, <2>2, <2>3 DEF StoryInv, ConfirmInv
  <2> QED
    BY <1>2, <2>4
<1>15. ASSUME NEW u \in Saga, Lone(u)' PROVE ChargeHandled(u)' /\ Announced(u)'
  <2>1. Lone(u)
    BY <1>1, <1>15 DEF Lone, Begun
  <2>2. ChargeHandled(u) /\ Announced(u) /\ "confirm" \in Calling /\ "refund" \in Calling
    BY <2>1 DEF StoryInv, LoneInv, Calling
  <2>3. CASE OrderOf[u] # o
    <3>1. u # s /\ payment'[OrderOf[u]] = payment[OrderOf[u]] /\ reply'[u] = reply[u]
      BY <1>4, <2>3
    <3>2. \A p \in Calling : Requested(u, p)' <=> Requested(u, p)
      BY <1>7, <1>8, <3>1
    <3>3. ChargeHandled(u)'
      BY <2>2, <3>1, <3>2 DEF ChargeHandled
    <3>4. Announced(u)'
      BY <1>1, <1>13, <2>2, <3>1 DEF Announced, PaidTask
    <3> QED
      BY <3>3, <3>4
  <2>4. CASE OrderOf[u] = o
    <3>1. u = s
      BY <1>6, <2>1, <2>4 DEF Lone
    <3>2. result[s] # "SUCCEEDED"
      BY <1>5, <2>2, <3>1 DEF Announced
    <3>3. Announced(s)'
      BY <3>2 DEF Announced
    <3>4. CASE op = "refund"
      <4>1. ~Requested(s, "confirm")' /\ payment'[o] # "SUCCEEDED"
        BY <1>4, <1>14, <3>4
      <4> QED
        BY <3>1, <3>3, <4>1 DEF ChargeHandled
    <3>5. CASE op = "confirm"
      <4>1. sp[s] \in {"confirm", "enqueue"} \/ Requested(s, "refund")
        BY <1>5, <2>2, <3>1, <3>2, <3>5 DEF ChargeHandled
      <4>2. sp[s] \in {"confirm", "enqueue"} \/ Requested(s, "refund")'
        BY <1>8, <2>2, <3>5, <4>1
      <4>3. payment[o] # "SUCCEEDED"
        BY <1>5, <2>2, <3>1, <3>5 DEF ChargeHandled
      <4>4. sp[s] = "confirm" /\ reply'[s] = "pending" => payment'[o] # "SUCCEEDED"
        BY <1>4, <3>5, <4>3
      <4> QED
        BY <1>14, <3>1, <3>3, <3>5, <4>2, <4>4 DEF ChargeHandled
    <3>6. CASE op = "create"
      <4>1. payment'[o] = "SUCCEEDED" <=> payment[o] = "SUCCEEDED"
        BY <1>4, <3>6
      <4>2. \A p \in {"confirm", "refund"} : Requested(s, p)' <=> Requested(s, p)
        BY <1>7, <1>8, <2>2, <3>6
      <4>3. sp[s] = "confirm" => reply'[s] = reply[s]
        BY <1>4, <3>6
      <4> QED
        BY <2>2, <3>1, <3>3, <4>1, <4>2, <4>3 DEF ChargeHandled
    <3> QED
      BY <3>4, <3>5, <3>6 DEF Calling
  <2> QED
    BY <2>3, <2>4
<1> QED
  BY <1>9, <1>10, <1>11, <1>12, <1>15 DEF StoryInv, LoneInv

LEMMA ServeKeepsStoryInv ==
  ASSUME OneGateway, PayInv, StoryInv, NEW g \in Gateway, Serve(g)
  PROVE  StoryInv'
<1> USE SagaAssumption
<1> DEFINE s == Head(line[g])[1]
           op == Head(line[g])[2]
<1>1. line[g] \in Seq(Saga \X Calling) /\ line[g] # <<>>
  BY DEF Serve, PayInv, TypeInv, TypeOK
<1>2. s \in Saga /\ op \in Calling /\ Head(line[g]) = <<s, op>>
  <2>1. Head(line[g]) \in Saga \X Calling
    BY <1>1
  <2> QED
    BY <2>1
<1>3. payment[OrderOf[s]] \in Statuses
  BY <1>2 DEF PayInv, TypeInv, TypeOK
<1>4. \E before : \E after \in Statuses : \E answer :
         /\ Serves(s, op, before, after, answer)
         /\ after = "SUCCEEDED" => after = payment[OrderOf[s]] \/ op = "confirm"
         /\ op = "refund" => after # "SUCCEEDED"
         /\ after = "none" => payment[OrderOf[s]] = "none"
         /\ payment[OrderOf[s]] = "SUCCEEDED" /\ op # "refund" => after = "SUCCEEDED"
         /\ answer = "pending" => op = "confirm" /\ after = payment[OrderOf[s]]
  <2>1. CASE op = "create" /\ CreatePayment(s)
    <3>1. CASE \E before : \E answer \in {"ok", "error"} : Keeps(s, "create", before, answer)
      BY <1>3, <2>1, <3>1 DEF Keeps
    <3>2. CASE Serves(s, "create", {"none"}, "CREATED", "ok")
      <4>1. payment[OrderOf[s]] = "none" /\ "CREATED" \in Statuses
        BY <3>2 DEF Serves, Statuses
      <4> QED
        BY <2>1, <3>2, <4>1
    <3> QED
      BY <2>1, <3>1, <3>2 DEF CreatePayment
  <2>2. CASE op = "confirm" /\ ConfirmPayment(s)
    <3>1. CASE \E before : \E answer \in {"ok", "pending"} : Keeps(s, "confirm", before, answer)
      BY <1>3, <2>2, <3>1 DEF Keeps
    <3>2. CASE Serves(s, "confirm", {"CREATED", "REFUNDED"}, "SUCCEEDED",
                      IF simulate[s] THEN "error" ELSE "ok")
      <4>1. "SUCCEEDED" \in Statuses /\ (IF simulate[s] THEN "error" ELSE "ok") # "pending"
        BY DEF Statuses
      <4> QED
        BY <2>2, <3>2, <4>1
    <3> QED
      BY <2>2, <3>1, <3>2 DEF ConfirmPayment
  <2>3. CASE op = "refund" /\ Refund(s)
    <3>1. CASE Serves(s, "refund", {"SUCCEEDED"}, "REFUNDED", "ok")
      BY <2>3, <3>1 DEF Statuses
    <3>2. CASE Keeps(s, "refund", Statuses \ {"SUCCEEDED"}, "error")
      <4>1. payment[OrderOf[s]] # "SUCCEEDED"
        BY <3>2 DEF Keeps, Serves
      <4> QED
        BY <1>3, <2>3, <3>2, <4>1 DEF Keeps
    <3> QED
      BY <2>3, <3>1, <3>2 DEF Refund
  <2> QED
    BY <2>1, <2>2, <2>3 DEF Serve
<1>5. UNCHANGED <<sp, result, outbox, storeVars>> /\ line' = [line EXCEPT ![g] = Tail(@)]
  BY DEF Serve
<1> QED
  BY <1>1, <1>2, <1>4, <1>5, ServesKeepsStoryInv

-----------------------------------------------------------------------------
\* The orders service: only the event of the one run touches its order.
LEMMA OnlyItsEvent ==
  ASSUME StoryInv, NEW s \in Saga, Lone(s), result[s] = "SUCCEEDED",
         NEW t \in Task, Target[t] = OrderOf[s], pc[t] # "idle"
  PROVE  t = PaidTask(s)
<1> USE SagaAssumption
<1>1. CASE \E o \in Order : t = <<o, "timeout">>
  <2>1. t = <<OrderOf[s], "timeout">> /\ OrderOf[s] \in Order
    BY <1>1 DEF Target
  <2> QED
    BY <2>1 DEF StoryInv, OriginInv, Origin, Lone
<1>2. CASE \E u \in Saga : t = CancelTask(u) \/ t = PaidTask(u)
  <2>1. PICK u \in Saga : t = CancelTask(u) \/ t = PaidTask(u)
    BY <1>2
  <2>2. OrderOf[u] = OrderOf[s]
    BY <2>1 DEF Target, CancelTask, PaidTask
  <2>3. Results(u) /\ result[u] # "none"
    BY <2>1 DEF StoryInv, ResultInv, Results, CancelledResults
  <2>4. u = s
    BY <2>2, <2>3 DEF Lone, Results, Begun
  <2>5. t # CancelTask(s)
    BY <2>3, <2>4 DEF Results, CancelledResults
  <2> QED
    BY <2>1, <2>4, <2>5
<1> QED
  BY <1>1, <1>2 DEF Task, CancelTask, PaidTask

\* What a handler does once it has its message: it tells of its own order only.
LEMMA HandlerKeepsStoryInv ==
  ASSUME PayInv, StoryInv, NEW t \in Task, UNCHANGED sagaVars,
         pc[t] # "idle", NEW next \in Store!PCs \ {"idle"}, pc' = [pc EXCEPT ![t] = next],
         \/ job' = job
         \/ Kind[t] = "timeout" /\ \E j \in {"completed", "failed"} : job' = [job EXCEPT ![Target[t]] = j],
         expected' \in [Task -> Nat], \A u \in Task \ {t} : expected'[u] = expected[u],
         status' = status \/ status' = [status EXCEPT ![Target[t]] = Store!NewStatus(t)],
         version' \in [Order -> Nat], \A o \in Order \ {Target[t]} : version'[o] = version[o],
         \A s \in Saga : Lone(s) /\ result[s] = "SUCCEEDED" /\ t = PaidTask(s) => Announced(s)'
  PROVE  StoryInv'
<1> USE SagaAssumption, TaskTypes
<1> DEFINE o == Target[t]
<1>1. UNCHANGED <<sp, result, reply, payment, line, outbox>> /\ o \in Order
  BY DEF sagaVars
<1>2. /\ status \in [Order -> Store!Statuses] /\ job \in [Order -> Store!JobStates]
      /\ pc \in [Task -> Store!PCs]
  BY DEF StoryInv, StoreTypes
<1>3. Store!NewStatus(t) \in {"PAID", "CANCELLED"}
  BY DEF Store!NewStatus
<1>4. StoreTypes'
  BY <1>1, <1>2, <1>3 DEF StoreTypes, Store!Statuses, Store!JobStates
<1>5. /\ \A u \in Task : pc'[u] = "idle" <=> pc[u] = "idle"
      /\ \A p \in Order : /\ status'[p] = "NONE" => status[p] = "NONE"
                          /\ p # o => status'[p] = status[p] /\ job'[p] = job[p]
  BY <1>1, <1>2, <1>3
<1>6. ResultInv'
  <2>1. \A u \in Saga : OrderOf[u] \in Order
    OBVIOUS
  <2>2. ResultInv
    BY DEF StoryInv
  <2> QED
    BY <1>1, <1>5, <2>1, <2>2 DEF ResultInv, Results, Begun, Requested
<1>7. job'[o] = job[o] \/ (job[o] \in {"active", "completed", "failed"} /\ job'[o] \in {"completed", "failed"})
  <2>1. CASE job' = job
    BY <2>1
  <2>2. CASE Kind[t] = "timeout" /\ \E j \in {"completed", "failed"} : job' = [job EXCEPT ![o] = j]
    <3>1. t = <<o, "timeout">>
      BY <2>2 DEF Task, Kind, Target
    <3>2. job[o] \in {"active", "completed", "failed"}
      BY <1>1, <3>1 DEF StoryInv, OriginInv, Origin
    <3> QED
      BY <1>1, <1>2, <2>2, <3>2
  <2> QED
    BY <2>1, <2>2
<1>8. OriginInv'
  <2> SUFFICES ASSUME NEW p \in Order PROVE Origin(p)'
    BY DEF OriginInv
  <2>1. Origin(p) /\ <<p, "timeout">> \in Task
    BY DEF StoryInv, OriginInv, Task
  <2>2. \A s \in Saga : <<s, "paid">> \in Task /\ <<s, "cancel">> \in Task
    BY DEF Task
  <2>3. /\ EventCame(p) => EventCame(p)'
        /\ CancelCame(p) => CancelCame(p)'
        /\ TakenUp(p) => TakenUp(p)'
    BY <1>1, <1>5, <2>2, ComingStays
  <2>4. /\ status'[p] = "NONE" => job'[p] = "none"
        /\ pc'[<<p, "timeout">>] # "idle" => job'[p] \in {"active", "completed", "failed"}
        /\ payment'[p] # "none" => TakenUp(p)'
    BY <1>1, <1>5, <1>7, <2>1, <2>3 DEF Origin
  <2>5. CASE status'[p] = status[p]
    BY <1>5, <2>1, <2>3, <2>4, <2>5 DEF Origin
  <2>6. CASE status'[p] # status[p]
    <3>1. p = o /\ status'[p] = Store!NewStatus(t)
      BY <1>1, <1>2, <1>5, <2>6
    <3>2. CASE Kind[t] = "paid"
      <4>1. PICK s \in Saga : t = PaidTask(s)
        BY <3>2 DEF Task, Kind, PaidTask
      <4>2. OrderOf[s] = p /\ status'[p] = "PAID"
        BY <3>1, <3>2, <4>1 DEF Target, PaidTask, Store!NewStatus
      <4>3. EventCame(p)
        BY <4>1, <4>2 DEF EventCame
      <4> QED
        BY <2>3, <2>4, <4>2, <4>3 DEF Origin
    <3>3. CASE Kind[t] = "timeout"
      <4>1. t = <<p, "timeout">> /\ status'[p] = "CANCELLED"
        BY <3>1, <3>3 DEF Task, Kind, Target, Store!NewStatus
      <4>2. pc'[<<p, "timeout">>] # "idle"
        BY <1>5, <4>1
      <4> QED
        BY <2>4, <4>1, <4>2 DEF Origin
    <3>4. CASE Kind[t] = "cancel"
      <4>1. PICK s \in Saga : t = CancelTask(s)
        BY <3>4 DEF Task, Kind, CancelTask
      <4>2. OrderOf[s] = p /\ status'[p] = "CANCELLED"
        BY <3>1, <3>4, <4>1 DEF Target, CancelTask, Store!NewStatus
      <4>3. CancelCame(p)
        BY <4>1, <4>2 DEF CancelCame
      <4> QED
        BY <2>3, <2>4, <4>2, <4>3 DEF Origin
    <3> QED
      BY <3>2, <3>3, <3>4
  <2> QED
    BY <2>5, <2>6
<1>9. ConfirmInv'
  BY <1>1 DEF StoryInv, ConfirmInv
<1>10. ASSUME NEW s \in Saga, Lone(s)' PROVE ChargeHandled(s)' /\ Announced(s)'
  <2>1. Lone(s) /\ OrderOf[s] \in Order
    BY <1>1, <1>5, <1>7, <1>10 DEF Lone, Begun
  <2>2. ChargeHandled(s) /\ Announced(s)
    BY <2>1 DEF StoryInv, LoneInv
  <2>3. ChargeHandled(s)'
    BY <1>1, <2>2 DEF ChargeHandled, Requested
  <2>4. CASE result[s] # "SUCCEEDED"
    BY <1>1, <2>3, <2>4 DEF Announced
  <2>5. CASE result[s] = "SUCCEEDED" /\ t = PaidTask(s)
    BY <2>1, <2>3, <2>5
  <2>6. CASE result[s] = "SUCCEEDED" /\ t # PaidTask(s)
    <3>1. o # OrderOf[s]
      BY <2>1, <2>6, OnlyItsEvent
    <3>2. /\ status'[OrderOf[s]] = status[OrderOf[s]] /\ version'[OrderOf[s]] = version[OrderOf[s]]
          /\ pc'[PaidTask(s)] = pc[PaidTask(s)] /\ expected'[PaidTask(s)] = expected[PaidTask(s)]
      BY <1>2, <1>5, <2>1, <2>6, <3>1
    <3> QED
      BY <1>1, <2>2, <2>3, <3>2 DEF Announced, Quiet
  <2> QED
    BY <2>4, <2>5, <2>6
<1> QED
  BY <1>4, <1>6, <1>8, <1>9, <1>10 DEF StoryInv, LoneInv

\* An order is created, or its auto-cancel job settles: not one that a run of
\* which it is the story has charged.
LEMMA CreationKeepsStoryInv ==
  ASSUME PayInv, StoryInv, NEW o \in Order, Store!Create(o) \/ Store!Schedule(o), UNCHANGED sagaVars
  PROVE  StoryInv'
<1> USE SagaAssumption
<1>1. UNCHANGED <<sp, result, reply, payment, line, outbox, pc, expected>>
  BY DEF sagaVars, Store!Create, Store!Schedule, Store!ScheduleSettles
<1>2. /\ status \in [Order -> Store!Statuses] /\ version \in [Order -> Nat]
      /\ job \in [Order -> Store!JobStates]
  BY DEF StoryInv, StoreTypes
<1>3. /\ job[o] \in {"none", "adding"} /\ job'[o] \in {"adding", "delayed", "none"}
      /\ status'[o] # "NONE"
      /\ status[o] # "NONE" => status'[o] = status[o] /\ version'[o] = version[o]
      /\ status[o] = "NONE" => status'[o] = "PENDING"
      /\ \A p \in Order \ {o} : /\ status'[p] = status[p] /\ version'[p] = version[p]
                                /\ job'[p] = job[p]
      /\ status' \in [Order -> Store!Statuses] /\ version' \in [Order -> Nat]
      /\ job' \in [Order -> Store!JobStates]
  <2>1. CASE Store!Create(o)
    <3>1. job[o] = "none" /\ status[o] = "NONE"
      BY <2>1 DEF StoryInv, OriginInv, Origin, Store!Create
    <3> QED
      BY <1>2, <2>1, <3>1 DEF Store!Create, Store!Statuses, Store!JobStates
  <2>2. CASE Store!Schedule(o)
    <3>1. status[o] # "NONE" /\ job[o] = "adding"
      BY <2>2 DEF StoryInv, OriginInv, Origin, Store!Schedule, Store!ScheduleSettles
    <3> QED
      BY <1>2, <2>2, <3>1 DEF Store!Schedule, Store!ScheduleSettles, Store!JobStates
  <2> QED
    BY <2>1, <2>2
<1>4. StoreTypes'
  BY <1>1, <1>3 DEF StoryInv, StoreTypes
<1>5. ResultInv' /\ ConfirmInv'
  <2>1. \A p \in Order : status[p] # "NONE" => status'[p] # "NONE"
    BY <1>3
  <2>2. \A u \in Saga : OrderOf[u] \in Order
    OBVIOUS
  <2>3. ResultInv /\ ConfirmInv
    BY DEF StoryInv
  <2>4. ResultInv'
    BY <1>1, <2>1, <2>2, <2>3 DEF ResultInv, Results, Begun, Requested, CancelTask, PaidTask
  <2>5. ConfirmInv'
    BY <1>1, <2>3 DEF ConfirmInv
  <2> QED
    BY <2>4, <2>5
<1>6. OriginInv'
  <2> SUFFICES ASSUME NEW p \in Order PROVE Origin(p)'
    BY DEF OriginInv
  <2>1. Origin(p)
    BY DEF StoryInv, OriginInv
  <2>2. /\ status'[p] = "NONE" => status[p] = "NONE" /\ p # o
        /\ status'[p] \in {"PAID", "CANCELLED"} => status'[p] = status[p]
        /\ pc[<<p, "timeout">>] # "idle" => p # o
    BY <1>2, <1>3, <2>1 DEF Origin
  <2>3. p # o => job'[p] = job[p]
    BY <1>3
  <2> QED
    BY <1>1, <2>1, <2>2, <2>3, ComingStays DEF Origin
<1>7. ASSUME NEW s \in Saga, Lone(s)' PROVE ChargeHandled(s)' /\ Announced(s)'
  <2>1. Lone(s) /\ OrderOf[s] \in Order
    BY <1>1, <1>3, <1>7 DEF Lone, Begun
  <2>2. ChargeHandled(s) /\ Announced(s) /\ Results(s)
    BY <2>1 DEF StoryInv, LoneInv, ResultInv
  <2>3. ChargeHandled(s)'
    BY <1>1, <2>2 DEF ChargeHandled, Requested
  <2>4. CASE result[s] = "SUCCEEDED"
    <3>1. status[OrderOf[s]] # "NONE"
      BY <2>1, <2>2, <2>4 DEF Results, Lone
    <3>2. status'[OrderOf[s]] = status[OrderOf[s]] /\ version'[OrderOf[s]] = version[OrderOf[s]]
      BY <1>3, <2>1, <3>1
    <3> QED
      BY <1>1, <2>2, <2>3, <3>2 DEF Announced, PaidTask, Quiet
  <2>5. CASE result[s] # "SUCCEEDED"
    BY <1>1, <2>3, <2>5 DEF Announced
  <2> QED
    BY <2>4, <2>5
<1> QED
  BY <1>4, <1>5, <1>6, <1>7 DEF StoryInv, LoneInv

\* A worker takes the auto-cancel job of an order: it is no longer a run's alone.
LEMMA StartJobKeepsStoryInv ==
  ASSUME PayInv, StoryInv, NEW t \in Task, Store!StartJob(t), UNCHANGED sagaVars
  PROVE  StoryInv'
<1> USE SagaAssumption
<1> DEFINE o == Target[t]
<1>1. UNCHANGED <<sp, result, reply, payment, line, outbox, status, version, expected>>
  BY DEF sagaVars, Store!StartJob
<1>2. o \in Order /\ t = <<o, "timeout">>
  BY DEF Store!StartJob, Task, Kind, Target
<1>3. /\ job \in [Order -> Store!JobStates] /\ pc \in [Task -> Store!PCs]
      /\ status[o] # "NONE"
  BY <1>2 DEF StoryInv, StoreTypes, OriginInv, Origin, Store!StartJob
<1>4. pc' = [pc EXCEPT ![t] = "lookup"] /\ job' = [job EXCEPT ![o] = "active"] /\ job[o] = "delayed"
  BY DEF Store!StartJob
<1>5. /\ \A u \in Saga : pc'[CancelTask(u)] = pc[CancelTask(u)] /\ pc'[PaidTask(u)] = pc[PaidTask(u)]
      /\ \A p \in Order \ {o} : job'[p] = job[p] /\ pc'[<<p, "timeout">>] = pc[<<p, "timeout">>]
      /\ job'[o] = "active" /\ pc'[<<o, "timeout">>] = "lookup"
  <2>1. \A u \in Saga : CancelTask(u) # t /\ PaidTask(u) # t
    BY <1>2 DEF CancelTask, PaidTask
  <2>2. \A p \in Order \ {o} : <<p, "timeout">> # t /\ <<p, "timeout">> \in Task
    BY <1>2 DEF Task
  <2> QED
    BY <1>2, <1>3, <1>4, <2>1, <2>2, TaskTypes
<1>6. StoreTypes'
  BY <1>1, <1>3, <1>4 DEF StoryInv, StoreTypes, Store!JobStates, Store!PCs, Store!Awaiting
<1>7. ResultInv' /\ ConfirmInv'
  <2>1. ResultInv /\ ConfirmInv
    BY DEF StoryInv
  <2> QED
    BY <1>1, <1>5, <2>1 DEF ResultInv, ConfirmInv, Results, Begun, Requested, CancelTask, PaidTask
<1>8. OriginInv'
  <2> SUFFICES ASSUME NEW p \in Order PROVE Origin(p)'
    BY DEF OriginInv
  <2>1. Origin(p)
    BY DEF StoryInv, OriginInv
  <2>2. \A u \in Saga : pc'[<<u, "paid">>] = pc[<<u, "paid">>] /\ pc'[<<u, "cancel">>] = pc[<<u, "cancel">>]
    BY <1>5 DEF CancelTask, PaidTask
  <2>3. /\ EventCame(p) => EventCame(p)'
        /\ CancelCame(p) => CancelCame(p)'
        /\ TakenUp(p) => TakenUp(p)'
    BY <1>1, <2>2, ComingStays
  <2>4. CASE p = o
    BY <1>1, <1>3, <1>5, <2>1, <2>3, <2>4 DEF Origin
  <2>5. CASE p # o
    BY <1>1, <1>5, <2>1, <2>3, <2>5 DEF Origin
  <2> QED
    BY <2>4, <2>5
<1>9. ASSUME NEW s \in Saga, Lone(s)' PROVE ChargeHandled(s)' /\ Announced(s)'
  <2>1. Lone(s) /\ OrderOf[s] \in Order
    BY <1>1, <1>4, <1>5, <1>9 DEF Lone, Begun
  <2>2. ChargeHandled(s) /\ Announced(s)
    BY <2>1 DEF StoryInv, LoneInv
  <2>3. ChargeHandled(s)'
    BY <1>1, <2>2 DEF ChargeHandled, Requested
  <2>4. Announced(s)'
    BY <1>1, <1>5, <2>2 DEF Announced, PaidTask, Quiet
  <2> QED
    BY <2>3, <2>4
<1> QED
  BY <1>6, <1>7, <1>8, <1>9 DEF StoryInv, LoneInv

\* A message reaches its handler: the cancel request of a run that is compensating,
\* or the event of one that has succeeded.
LEMMA ReceiveKeepsStoryInv ==
  ASSUME PayInv, StoryInv, NEW s \in Saga, SendCancel(s) \/ Relay(s)
  PROVE  StoryInv'
<1> USE SagaAssumption
<1>1. UNCHANGED <<sp, result, reply, payment, line, status, version, expected, job>>
  BY DEF SendCancel, Relay, sagaVars, Store!Receive, Store!Goto
<1>2. PICK t \in {CancelTask(s), PaidTask(s)} :
         /\ pc[t] = "idle" /\ pc' = [pc EXCEPT ![t] = "find"]
         /\ t = CancelTask(s) => sp[s] = "cancel" /\ UNCHANGED outbox
         /\ t = PaidTask(s) => s \in outbox /\ outbox' = outbox \ {s}
  <2>1. CASE SendCancel(s)
    BY <2>1 DEF SendCancel, sagaVars, Store!Receive, Store!Goto, CancelTask, PaidTask
  <2>2. CASE Relay(s)
    BY <2>2 DEF Relay, Store!Receive, Store!Goto, CancelTask, PaidTask
  <2> QED
    BY <2>1, <2>2
<1>3. t \in Task /\ \A u \in Task \ {t} : pc'[u] = pc[u]
  BY <1>2, TaskTypes DEF StoryInv, StoreTypes
<1>4. pc'[t] = "find" /\ pc \in [Task -> Store!PCs]
  BY <1>2, <1>3 DEF StoryInv, StoreTypes
<1>5. CancelTask(s) # PaidTask(s) /\ \A u \in Saga \ {s} : t # CancelTask(u) /\ t # PaidTask(u)
  BY <1>2 DEF CancelTask, PaidTask
<1>6. StoreTypes'
  BY <1>1, <1>2, <1>4 DEF StoryInv, StoreTypes, Store!PCs, Store!Awaiting
<1>7. ConfirmInv'
  BY <1>1 DEF StoryInv, ConfirmInv
<1>8. ResultInv'
  <2> SUFFICES ASSUME NEW u \in Saga PROVE Results(u)'
    BY DEF ResultInv
  <2>1. Results(u) /\ CancelTask(u) \in Task /\ PaidTask(u) \in Task
    BY TaskTypes DEF StoryInv, ResultInv
  <2>2. Begun(u)' <=> Begun(u)
    BY <1>1 DEF Begun
  <2>3. \A op \in Calling : Requested(u, op)' <=> Requested(u, op)
    BY <1>1 DEF Requested
  <2>4. CASE u # s
    <3>1. pc'[CancelTask(u)] = pc[CancelTask(u)] /\ pc'[PaidTask(u)] = pc[PaidTask(u)]
      BY <1>3, <1>5, <2>1, <2>4
    <3>2. u \in outbox' <=> u \in outbox
      BY <1>2, <2>4
    <3> QED
      BY <1>1, <2>1, <2>2, <2>3, <3>1, <3>2 DEF Results, CancelTask, PaidTask
  <2>5. CASE u = s /\ t = CancelTask(s)
    <3>1. pc'[PaidTask(s)] = pc[PaidTask(s)] /\ result[s] \in CancelledResults /\ UNCHANGED outbox
      BY <1>2, <1>3, <1>5, <2>1, <2>5 DEF Results
    <3> QED
      BY <1>1, <2>1, <2>2, <2>3, <2>5, <3>1 DEF Results, CancelTask, PaidTask
  <2>6. CASE u = s /\ t = PaidTask(s)
    <3>1. pc'[CancelTask(s)] = pc[CancelTask(s)] /\ result[s] = "SUCCEEDED"
      BY <1>2, <1>3, <1>5, <2>1, <2>6 DEF Results
    <3> QED
      BY <1>1, <1>4, <2>1, <2>2, <2>3, <2>6, <3>1 DEF Results, CancelTask, PaidTask
  <2> QED
    BY <1>2, <2>4, <2>5, <2>6
<1>9. OriginInv'
  <2> SUFFICES ASSUME NEW p \in Order PROVE Origin(p)'
    BY DEF OriginInv
  <2>1. Origin(p)
    BY DEF StoryInv, OriginInv
  <2>2. pc'[<<p, "timeout">>] = pc[<<p, "timeout">>]
    <3>1. <<p, "timeout">> \in Task /\ <<p, "timeout">> # t
      BY <1>2 DEF Task, CancelTask, PaidTask
    <3> QED
      BY <1>3, <3>1
  <2>3. \A u \in Saga : /\ pc[<<u, "paid">>] # "idle" => pc'[<<u, "paid">>] # "idle"
                        /\ pc[<<u, "cancel">>] # "idle" => pc'[<<u, "cancel">>] # "idle"
    BY <1>3, <1>4 DEF Task
  <2>4. /\ EventCame(p) => EventCame(p)'
        /\ CancelCame(p) => CancelCame(p)'
        /\ TakenUp(p) => TakenUp(p)'
    BY <1>1, <2>3, ComingStays
  <2> QED
    BY <1>1, <2>1, <2>2, <2>4 DEF Origin
<1>10. ASSUME NEW u \in Saga, Lone(u)' PROVE ChargeHandled(u)' /\ Announced(u)'
  <2>1. Lone(u)
    BY <1>1, <1>10 DEF Lone, Begun
  <2>2. ChargeHandled(u) /\ Announced(u) /\ PaidTask(u) \in Task
    BY <2>1, TaskTypes DEF StoryInv, LoneInv
  <2>3. ChargeHandled(u)'
    BY <1>1, <2>2 DEF ChargeHandled, Requested
  <2>4. Quiet(OrderOf[u])' <=> Quiet(OrderOf[u])
    BY <1>1 DEF Quiet
  <2>5. CASE t = PaidTask(u)
    <3>1. u = s /\ u \notin outbox' /\ u \in outbox
      BY <1>2, <1>5, <2>5
    <3> QED
      BY <1>1, <1>4, <2>2, <2>3, <2>4, <2>5, <3>1 DEF Announced, PaidTask
  <2>6. CASE t # PaidTask(u)
    <3>1. pc'[PaidTask(u)] = pc[PaidTask(u)] /\ (u \in outbox' <=> u \in outbox)
      BY <1>2, <1>3, <2>2, <2>6
    <3> QED
      BY <1>1, <2>2, <2>3, <2>4, <3>1 DEF Announced, PaidTask
  <2> QED
    BY <2>5, <2>6
<1> QED
  BY <1>6, <1>7, <1>8, <1>9, <1>10 DEF StoryInv, LoneInv

\* The database calls of a handler.
LEMMA HandlersKeepStoryInv ==
  ASSUME PayInv, StoryInv, NEW t \in Task, UNCHANGED sagaVars,
         Store!Lookup(t) \/ Store!Find(t) \/ Store!Update(t) \/ Store!Reread(t)
  PROVE  StoryInv'
<1> USE SagaAssumption, TaskTypes
<1>1. /\ status \in [Order -> Store!Statuses] /\ version \in [Order -> Nat]
      /\ job \in [Order -> Store!JobStates] /\ pc \in [Task -> Store!PCs]
      /\ expected \in [Task -> Nat] /\ Target[t] \in Order
  BY DEF StoryInv, StoreTypes
<1>2. UNCHANGED <<sp, result, reply, payment, line, outbox>>
  BY DEF sagaVars
<1>3. ASSUME NEW s \in Saga, Lone(s), result[s] = "SUCCEEDED", t = PaidTask(s)
      PROVE  Announced(s) /\ OrderOf[s] = Target[t] /\ Kind[t] = "paid"
  BY <1>3 DEF StoryInv, LoneInv, Target, Kind, PaidTask
<1>4. ASSUME NEW next, Store!Goto(t, next) \/ Store!End(t, next)
      PROVE  /\ pc' = [pc EXCEPT ![t] = next] /\ pc'[t] = next
             /\ \/ job' = job
                \/ Kind[t] = "timeout" /\ \E j \in {"completed", "failed"} : job' = [job EXCEPT ![Target[t]] = j]
             /\ Kind[t] = "paid" => UNCHANGED job
  BY <1>1, <1>4 DEF Store!Goto, Store!End
<1>5. ASSUME NEW s \in Saga, Announced(s), result[s] = "SUCCEEDED", t = PaidTask(s),
             OrderOf[s] = Target[t],
             pc'[t] \in {"update", "reread", "ok"},
             pc'[t] = "update" => status'[Target[t]] = "PENDING" /\ expected'[t] = version'[Target[t]],
             pc'[t] \in {"reread", "ok"} => status'[Target[t]] = "PAID",
             pc[t] # "idle"
      PROVE  Announced(s)'
  <2>1. Quiet(OrderOf[s])' <=> Quiet(OrderOf[s])
    BY <1>2 DEF Quiet
  <2>2. s \notin outbox
    BY <1>5 DEF Announced
  <2> QED
    BY <1>2, <1>5, <2>1, <2>2 DEF Announced, PaidTask
<1>6. CASE Store!Lookup(t)
  <2>1. PICK next \in {"find", "skipped"} : Store!Goto(t, next) \/ Store!End(t, next)
    BY <1>6 DEF Store!Lookup
  <2>2. pc[t] = "lookup" /\ UNCHANGED <<status, version, expected>>
    BY <1>6 DEF Store!Lookup
  <2>3. \A s \in Saga : Lone(s) /\ result[s] = "SUCCEEDED" => t # PaidTask(s)
    BY <1>3, <2>2 DEF Announced
  <2>4. next \in Store!PCs \ {"idle"}
    BY DEF Store!PCs, Store!Awaiting, Store!Ended
  <2> QED
    BY <1>1, <1>4, <2>1, <2>2, <2>3, <2>4, HandlerKeepsStoryInv
<1>7. CASE Store!Find(t)
  <2>1. PICK next \in {"failed", "update"} :
           /\ Store!Goto(t, next) \/ Store!End(t, next)
           /\ next = "failed" <=> status[Target[t]] = "NONE"
           /\ expected' = IF next = "update" THEN [expected EXCEPT ![t] = version[Target[t]]] ELSE expected
    BY <1>7 DEF Store!Find
  <2>2. pc[t] = "find" /\ UNCHANGED <<status, version>>
    BY <1>7 DEF Store!Find
  <2>3. /\ expected' \in [Task -> Nat] /\ \A u \in Task \ {t} : expected'[u] = expected[u]
        /\ next = "update" => expected'[t] = version[Target[t]]
    BY <1>1, <2>1
  <2>4. ASSUME NEW s \in Saga, Lone(s), result[s] = "SUCCEEDED", t = PaidTask(s)
        PROVE  Announced(s)'
    <3>1. status[Target[t]] = "PENDING"
      BY <1>3, <2>2, <2>4 DEF Announced
    <3>2. pc'[t] = "update"
      BY <1>4, <2>1, <3>1
    <3> QED
      BY <1>3, <1>4, <1>5, <2>1, <2>2, <2>3, <2>4, <3>1, <3>2
  <2>5. next \in Store!PCs \ {"idle"}
    BY DEF Store!PCs, Store!Awaiting, Store!Ended
  <2> QED
    BY <1>1, <1>4, <2>1, <2>2, <2>3, <2>4, <2>5, HandlerKeepsStoryInv
<1>8. CASE Store!Update(t)
  <2>1. PICK next \in {"reread", "conflict"} :
           /\ Store!Goto(t, next) \/ Store!End(t, next)
           /\ next = "reread" <=> expected[t] = version[Target[t]]
           /\ IF next = "reread"
              THEN /\ status' = [status EXCEPT ![Target[t]] = Store!NewStatus(t)]
                   /\ version' = [version EXCEPT ![Target[t]] = @ + 1]
              ELSE UNCHANGED <<status, version>>
    <3>1. CASE Store!VersionMatches(t) /\ Store!Write(t) /\ Store!Goto(t, "reread")
      BY <3>1 DEF Store!Write, Store!VersionMatches
    <3>2. CASE ~Store!VersionMatches(t) /\ Store!NoWrite /\ Store!End(t, "conflict")
      BY <3>2 DEF Store!NoWrite, Store!VersionMatches
    <3> QED
      BY <1>8, <3>1, <3>2 DEF Store!Update
  <2>2. pc[t] = "update" /\ UNCHANGED expected
    BY <1>8 DEF Store!Update
  <2>3. /\ version' \in [Order -> Nat] /\ \A o \in Order \ {Target[t]} : version'[o] = version[o]
        /\ next = "reread" => status'[Target[t]] = Store!NewStatus(t)
    BY <1>1, <2>1
  <2>4. ASSUME NEW s \in Saga, Lone(s), result[s] = "SUCCEEDED", t = PaidTask(s)
        PROVE  Announced(s)'
    <3>1. expected[t] = version[Target[t]]
      BY <1>3, <2>2, <2>4 DEF Announced
    <3>2. pc'[t] = "reread" /\ status'[Target[t]] = "PAID"
      BY <1>3, <1>4, <2>1, <2>3, <2>4, <3>1 DEF Store!NewStatus
    <3> QED
      BY <1>3, <1>5, <2>2, <2>4, <3>2
  <2>5. next \in Store!PCs \ {"idle"}
    BY DEF Store!PCs, Store!Awaiting, Store!Ended
  <2>6. status' = status \/ status' = [status EXCEPT ![Target[t]] = Store!NewStatus(t)]
    BY <2>1
  <2> QED
    BY <1>1, <1>4, <2>1, <2>2, <2>3, <2>4, <2>5, <2>6, HandlerKeepsStoryInv
<1>9. CASE Store!Reread(t)
  <2>1. pc[t] = "reread" /\ Store!End(t, "ok") /\ UNCHANGED <<status, version, expected>>
    BY <1>9 DEF Store!Reread
  <2>2. ASSUME NEW s \in Saga, Lone(s), result[s] = "SUCCEEDED", t = PaidTask(s)
        PROVE  Announced(s)'
    <3>1. status[Target[t]] = "PAID"
      BY <1>3, <2>1, <2>2 DEF Announced
    <3>2. pc'[t] = "ok"
      BY <1>4, <2>1
    <3> QED
      BY <1>3, <1>5, <2>1, <2>2, <3>1, <3>2
  <2>3. "ok" \in Store!PCs \ {"idle"}
    BY DEF Store!PCs, Store!Awaiting, Store!Ended
  <2> QED
    BY <1>1, <1>4, <2>1, <2>2, <2>3, HandlerKeepsStoryInv
<1> QED
  BY <1>6, <1>7, <1>8, <1>9

\* Every step keeps the story of every order.
LEMMA NextStoryInv ==
  ASSUME MildFaults, OneGateway, PayInv, StoryInv, [Next]_vars
  PROVE  StoryInv'
<1> USE SagaAssumption
<1>1. ASSUME NEW s \in Saga, NEW fails \in BOOLEAN, Begin(s, fails) \/ BeginFails(s) PROVE StoryInv'
  BY <1>1, BeginKeepsStoryInv
<1>2. ASSUME NEW s \in Saga, GetOrder(s) \/ GetTimesOut(s) PROVE StoryInv'
  BY <1>2, GetKeepsStoryInv
<1>3. ASSUME NEW s \in Saga, Answered(s) \/ CallTimesOut(s) PROVE StoryInv'
  <2>1. sp[s] \in Calling
    BY <1>3 DEF Answered, CallTimesOut
  <2>2. \E answer \in {"ok", "error", "pending"} :
           /\ Returned(s, answer)
           /\ answer # "error" => reply[s] = answer
           /\ sp[s] = "refund" => answer # "pending"
    <3>1. CASE Answered(s)
      BY <3>1 DEF Answered, PayInv, TypeInv, TypeOK
    <3>2. CASE CallTimesOut(s)
      BY <3>2 DEF CallTimesOut
    <3> QED
      BY <1>3, <3>1, <3>2
  <2> QED
    BY <2>1, <2>2, ReturnedKeepsStoryInv
<1>4. ASSUME NEW s \in Saga, CancelAnswered(s) \/ CancelTimesOut(s) PROVE StoryInv'
  <2>1. sp[s] = "cancel" /\ Goto(s, "release") /\ UNCHANGED <<result, payment, outbox, storeVars>>
    BY <1>4 DEF CancelAnswered, CancelTimesOut, CancelReturns
  <2> QED
    BY <2>1, EndKeepsStoryInv
<1>5. ASSUME NEW s \in Saga, Enqueue(s) PROVE StoryInv'
  BY <1>5, EnqueueKeepsStoryInv
<1>6. ASSUME NEW s \in Saga, Release(s) \/ ReleaseFails(s) PROVE StoryInv'
  <2>1. sp[s] = "release" /\ Goto(s, "done") /\ UNCHANGED <<result, payment, outbox, storeVars>>
    BY <1>6 DEF Release, ReleaseFails
  <2> QED
    BY <2>1, EndKeepsStoryInv
<1>7. ASSUME NEW s \in Saga, SendCancel(s) \/ Relay(s) PROVE StoryInv'
  BY <1>7, ReceiveKeepsStoryInv
<1>8. ASSUME NEW o \in Order, LeaseExpires(o) PROVE StoryInv'
  BY <1>8, StutterKeepsStoryInv DEF LeaseExpires
<1>9. ASSUME NEW g \in Gateway, Serve(g) PROVE StoryInv'
  BY <1>9, ServeKeepsStoryInv
<1>10. ASSUME StoreStep PROVE StoryInv'
  <2>1. UNCHANGED sagaVars
    BY <1>10 DEF StoreStep
  <2>2. CASE \E o \in Order : Store!Create(o) \/ Store!Schedule(o)
    BY <2>1, <2>2, CreationKeepsStoryInv
  <2>3. CASE \E t \in Task : Store!Step(t)
    BY <2>1, <2>3, StartJobKeepsStoryInv, HandlersKeepStoryInv DEF Store!Step
  <2> QED
    BY <1>10, <2>2, <2>3 DEF StoreStep
\* The faults that MildFaults leaves out.
<1>11. /\ \A s \in Saga : ~EnqueueFails(s) /\ ~RelayUnheard(s)
       /\ \A o \in Order : ~LeaseLost(o)
       /\ \A g \in Gateway : ~GatewayCrash(g)
  BY DEF MildFaults, EnqueueFails, RelayUnheard, LeaseLost, GatewayCrash, Fault
<1>12. ASSUME UNCHANGED vars PROVE StoryInv'
  BY <1>12, StutterKeepsStoryInv DEF vars, sagaVars
<1> QED
  BY <1>1, <1>2, <1>3, <1>4, <1>5, <1>6, <1>7, <1>8, <1>9, <1>10, <1>11, <1>12
  DEF Next, Step, Faulty, Rest

LEMMA InitStoryInv ==
  ASSUME Init
  PROVE  StoryInv
<1> USE SagaAssumption, TaskTypes
<1>1. StoreTypes
  BY DEF Init, Store!Init, StoreTypes, Store!Statuses, Store!JobStates, Store!PCs
<1>2. ResultInv
  <2> SUFFICES ASSUME NEW s \in Saga PROVE Results(s)
    BY DEF ResultInv
  <2>1. sp[s] = "idle" /\ result[s] = "none" /\ outbox = {}
    BY DEF Init
  <2>2. pc[PaidTask(s)] = "idle" /\ pc[CancelTask(s)] = "idle"
    BY DEF Init, Store!Init
  <2>3. \A op \in Calling : ~Requested(s, op)
    BY DEF Init, Requested
  <2> QED
    BY <2>1, <2>2, <2>3 DEF Results, Begun, CancelTask, PaidTask
<1>3. OriginInv
  <2>1. \A o \in Order : <<o, "timeout">> \in Task
    BY DEF Task
  <2> QED
    BY <2>1 DEF Init, Store!Init, OriginInv, Origin
<1>4. ConfirmInv
  BY DEF Init, ConfirmInv
<1>5. LoneInv
  BY DEF Init, LoneInv, Lone, Begun
<1> QED
  BY <1>1, <1>2, <1>3, <1>4, <1>5 DEF StoryInv

LEMMA StoryInvHolds ==
  ASSUME MildFaults, OneGateway
  PROVE  Spec => [](PayInv /\ StoryInv)
<1>1. "lease" \notin Faults
  BY DEF MildFaults
<1>2. Spec => []PayInv
  BY <1>1, PayInvHolds
<1>3. Init => StoryInv
  BY InitStoryInv
<1>4. PayInv /\ StoryInv /\ [Next]_vars => StoryInv'
  BY NextStoryInv
<1> QED
  BY <1>2, <1>3, <1>4, PTL DEF Spec

\* Once settled, an order that only one run has dealt with is PAID exactly if it is
\* charged.
LEMMA StoryEnds ==
  ASSUME PayInv, StoryInv
  PROVE  AllOrNothing
<1> USE SagaAssumption
<1> SUFFICES ASSUME NEW o \in Order, Settled(o), Undisturbed(o)
             PROVE  status[o] = "PAID" <=> payment[o] = "SUCCEEDED"
  BY DEF AllOrNothing
<1>1. ASSUME NEW s \in Saga, OrderOf[s] = o, Begun(s)
      PROVE  Lone(s) /\ ChargeHandled(s) /\ Announced(s)
  BY <1>1 DEF Undisturbed, Lone, Begun, StoryInv, LoneInv
<1>2. ASSUME status[o] = "PAID" PROVE payment[o] = "SUCCEEDED"
  <2>1. PICK s \in Saga : OrderOf[s] = o /\ pc[PaidTask(s)] # "idle"
    BY <1>2 DEF StoryInv, OriginInv, Origin, EventCame
  <2>2. result[s] = "SUCCEEDED" /\ Begun(s)
    BY <2>1 DEF StoryInv, ResultInv, Results, Begun
  <2> QED
    BY <1>1, <2>1, <2>2 DEF Announced
<1>3. ASSUME payment[o] = "SUCCEEDED" PROVE status[o] = "PAID"
  <2>1. PICK s \in Saga : OrderOf[s] = o /\ Begun(s)
    BY <1>3 DEF StoryInv, OriginInv, Origin, TakenUp
  <2>2. ~Requested(s, "refund") /\ sp[s] \notin {"confirm", "enqueue"} /\ s \notin outbox
    BY <2>1 DEF Settled, Requested, Over
  <2>3. result[s] = "SUCCEEDED"
    BY <1>1, <1>3, <2>1, <2>2 DEF ChargeHandled
  <2>4. pc[PaidTask(s)] # "idle"
    BY <2>2, <2>3 DEF StoryInv, ResultInv, Results
  <2>5. pc[PaidTask(s)] \notin Store!Awaiting
    <3>1. Target[PaidTask(s)] = o
      BY <2>1, TaskTypes DEF Target, PaidTask
    <3> QED
      BY <3>1, TaskTypes DEF Settled
  <2>6. pc[PaidTask(s)] = "ok"
    BY <1>1, <2>1, <2>3, <2>4, <2>5 DEF Announced, Store!Awaiting
  <2> QED
    BY <1>1, <2>1, <2>3, <2>6 DEF Announced
<1> QED
  BY <1>2, <1>3

\* "Either everything succeeds, or it is rolled back": with one gateway, and through
\* lost locks, calls that time out and are served late, and failed releases, an order
\* that one run has dealt with ends PAID and charged, or neither.
THEOREM PaidIffCharged ==
  ASSUME MildFaults, OneGateway
  PROVE  Spec => []AllOrNothing
<1>1. PayInv /\ StoryInv => AllOrNothing
  BY StoryEnds
<1> QED
  BY <1>1, StoryInvHolds, PTL

-----------------------------------------------------------------------------
\* Where the handlers of an order stand: a PENDING one is still at its first version,
\* so that whoever is told of a conflict lost to somebody who has settled it.  A paid
\* event always finds its order.
EventInv ==
    /\ \A o \in Order :
          /\ status[o] = "NONE" <=> version[o] = 0
          /\ status[o] = "PENDING" => version[o] = 1
    /\ \A t \in Task :
          /\ pc[t] = "update" => expected[t] > 0 /\ expected[t] <= version[Target[t]]
          /\ pc[t] \in {"reread", "ok", "conflict"} =>
                status[Target[t]] \in {"PAID", "CANCELLED"}
          /\ Kind[t] = "paid" => pc[t] \in {"idle", "find", "update", "reread", "ok", "conflict"}

\* A handler that settles the order, or finds that others have.
LEMMA UpdateKeepsEventInv ==
  ASSUME StoreTypes, EventInv, NEW t \in Task, Store!Update(t)
  PROVE  EventInv'
<1> USE TaskTypes DEF StoreTypes, EventInv
<1>1. CASE Store!VersionMatches(t) /\ Store!Write(t) /\ Store!Goto(t, "reread")
  <2>1. /\ status' = [status EXCEPT ![Target[t]] = Store!NewStatus(t)]
        /\ version' = [version EXCEPT ![Target[t]] = version[Target[t]] + 1]
        /\ pc' = [pc EXCEPT ![t] = "reread"] /\ expected' = expected
        /\ Store!NewStatus(t) \in {"PAID", "CANCELLED"}
    BY <1>1 DEF Store!Update, Store!Write, Store!Goto, Store!NewStatus
  <2>2. ASSUME NEW o \in Order
        PROVE  /\ status'[o] = "NONE" <=> version'[o] = 0
               /\ status'[o] = "PENDING" => version'[o] = 1
               /\ version'[o] >= version[o] /\ version'[o] \in Nat
               /\ status[o] \in {"PAID", "CANCELLED"} => status'[o] \in {"PAID", "CANCELLED"}
    BY <2>1
  <2>3. ASSUME NEW u \in Task
        PROVE  /\ pc'[u] = "update" => expected'[u] > 0 /\ expected'[u] <= version'[Target[u]]
               /\ pc'[u] \in {"reread", "ok", "conflict"} =>
                     status'[Target[u]] \in {"PAID", "CANCELLED"}
               /\ Kind[u] = "paid" => pc'[u] \in {"idle", "find", "update", "reread", "ok", "conflict"}
    BY <2>1, <2>2
  <2> QED
    BY <2>2, <2>3
<1>2. CASE ~Store!VersionMatches(t) /\ Store!NoWrite /\ Store!End(t, "conflict")
  <2>1. status[Target[t]] \in {"PAID", "CANCELLED"}
    <3>1. expected[t] # version[Target[t]] /\ pc[t] = "update"
      BY <1>2 DEF Store!Update, Store!VersionMatches
    <3> QED
      BY <3>1 DEF Store!Statuses
  <2>2. /\ UNCHANGED <<status, version, expected>>
        /\ pc' = [pc EXCEPT ![t] = "conflict"]
    BY <1>2 DEF Store!Update, Store!NoWrite, Store!End
  <2> QED
    BY <2>1, <2>2
<1> QED
  BY <1>1, <1>2 DEF Store!Update

\* Every step of the orders service; a paid event is of an order that is there.
LEMMA StoreKeepsEventInv ==
  ASSUME StoreTypes, EventInv, OrdersStep,
         \A t \in Task : Kind[t] = "paid" /\ pc[t] # "idle" => status[Target[t]] # "NONE"
  PROVE  EventInv'
<1> USE TaskTypes DEF StoreTypes, EventInv
<1>1. ASSUME NEW o \in Order, Store!Create(o) PROVE EventInv'
  BY <1>1 DEF Store!Create
<1>2. ASSUME NEW o \in Order, Store!Schedule(o) PROVE EventInv'
  BY <1>2 DEF Store!Schedule, Store!ScheduleSettles
<1>3. ASSUME NEW t \in Task, Store!Receive(t) PROVE EventInv'
  BY <1>3 DEF Store!Receive, Store!Goto
<1>4. ASSUME NEW t \in Task, Store!StartJob(t) PROVE EventInv'
  BY <1>4 DEF Store!StartJob
<1>5. ASSUME NEW t \in Task, Store!Lookup(t) PROVE EventInv'
  BY <1>5 DEF Store!Lookup, Store!Goto, Store!End
<1>6. ASSUME NEW t \in Task, Store!Find(t) PROVE EventInv'
  BY <1>6 DEF Store!Find, Store!Goto, Store!End
<1>7. ASSUME NEW t \in Task, Store!Update(t) PROVE EventInv'
  BY <1>7, UpdateKeepsEventInv
<1>8. ASSUME NEW t \in Task, Store!Reread(t) PROVE EventInv'
  BY <1>8 DEF Store!Reread, Store!End
<1>9. CASE UNCHANGED storeVars
  BY <1>9 DEF storeVars
<1> QED
  BY <1>1, <1>2, <1>3, <1>4, <1>5, <1>6, <1>7, <1>8, <1>9 DEF OrdersStep, Store!Step

LEMMA EventInvHolds ==
  ASSUME MildFaults, OneGateway
  PROVE  Spec => [](StoryInv /\ EventInv)
<1>1. Spec => [](PayInv /\ StoryInv)
  BY StoryInvHolds
<1>2. Init => EventInv
  BY TaskTypes DEF Init, Store!Init, EventInv
<1>3. StoryInv /\ EventInv /\ [Next]_vars => EventInv'
  <2> SUFFICES ASSUME StoryInv, EventInv, [Next]_vars PROVE EventInv'
    OBVIOUS
  <2>1. ASSUME NEW t \in Task, Kind[t] = "paid", pc[t] # "idle"
        PROVE  status[Target[t]] # "NONE"
    <3>1. PICK s \in Saga : t = PaidTask(s) /\ Target[t] = OrderOf[s]
      BY <2>1 DEF Task, Kind, Target, PaidTask
    <3> QED
      BY <2>1, <3>1 DEF StoryInv, ResultInv, Results, Begun
  <2> QED
    BY <2>1, StoreSteps, StoreKeepsEventInv DEF StoryInv
<1> QED
  BY <1>1, <1>2, <1>3, PTL DEF Spec

\* Who has settled the order that a run reported as paid.
LEMMA SuccessEnds ==
  ASSUME StoryInv, EventInv
  PROVE  SuccessSettlesOrder
<1> USE SagaAssumption, TaskTypes
<1> SUFFICES ASSUME NEW s \in Saga, result[s] = "SUCCEEDED", Settled(OrderOf[s]),
                    status[OrderOf[s]] # "PAID"
             PROVE  /\ status[OrderOf[s]] = "CANCELLED"
                    /\ \/ pc[<<OrderOf[s], "timeout">>] # "idle"
                       \/ \E u \in Saga : OrderOf[u] = OrderOf[s] /\ result[u] \in CancelledResults
  BY DEF SuccessSettlesOrder, CancelledResults
<1>1. Kind[PaidTask(s)] = "paid" /\ Target[PaidTask(s)] = OrderOf[s] /\ OrderOf[s] \in Order
  BY DEF Kind, Target, PaidTask
<1>2. s \notin outbox
  BY DEF Settled
<1>3. pc[PaidTask(s)] # "idle"
  BY <1>2 DEF StoryInv, ResultInv, Results
<1>4. pc[PaidTask(s)] \in {"ok", "conflict"}
  BY <1>1, <1>3 DEF Settled, EventInv, Store!Awaiting
<1>5. status[OrderOf[s]] = "CANCELLED"
  BY <1>1, <1>4 DEF EventInv
<1>6. pc[<<OrderOf[s], "timeout">>] # "idle" \/ CancelCame(OrderOf[s])
  BY <1>1, <1>5 DEF StoryInv, OriginInv, Origin
<1>7. ASSUME NEW u \in Saga, pc[CancelTask(u)] # "idle"
      PROVE  result[u] \in CancelledResults
  BY <1>7 DEF StoryInv, ResultInv, Results
<1> QED
  BY <1>5, <1>6, <1>7 DEF CancelCame

\* With one gateway, and as long as events are heard, an order for which a run reported
\* success does not stay PENDING, whoever else pays, cancels or times it out meanwhile.
THEOREM SuccessSettles ==
  ASSUME MildFaults, OneGateway
  PROVE  Spec => []SuccessSettlesOrder
<1>1. StoryInv /\ EventInv => SuccessSettlesOrder
  BY SuccessEnds
<1> QED
  BY <1>1, EventInvHolds, PTL
=============================================================================
