------------------------- MODULE Idempotency_proofs -------------------------
(***************************************************************************)
(* Proofs about Idempotency and the two components that are built on it,   *)
(* OrderCreation and Billing, for any set of calls and any bounds.         *)
(* Idempotency: that answers are genuine, that later calls replay in calm  *)
(* circumstances, and that without faults a second effect can only come    *)
(* from the fallback.  Each user is shown to be a use of it first, so that *)
(* these hold of both, and then to keep its own promises.                  *)
(***************************************************************************)
EXTENDS OrderCreation, Billing, TLAPS

-----------------------------------------------------------------------------
(* Idempotency *)

\* Answers are genuine because what the key holds, and what is about to be
\* stored, was executed.
GenuineInv ==
    /\ TypeOK
    /\ cell \in Caller => cell \in effects
    /\ \A c \in Caller : pc[c] \in {"store", "storeAgain"} => c \in effects
    /\ AnswersAreGenuine

\* Initially the key does not exist and fn has not taken effect.
LEMMA GenuineInit == Init => GenuineInv
BY IdempotencyAssumption DEF Init, GenuineInv, TypeOK, PCs, Active, Claimed, Fallback,
   Returned, AnswersAreGenuine

\* Every action keeps GenuineInv; each is a case of its own.
LEMMA GenuineStep == GenuineInv /\ [Next]_vars => GenuineInv'
<1> SUFFICES ASSUME GenuineInv, [Next]_vars
             PROVE  GenuineInv'
    OBVIOUS
<1> USE IdempotencyAssumption DEF GenuineInv, TypeOK, AnswersAreGenuine, PCs, Active, Claimed,
        Fallback, Returned, Goto, Returns, Fault, Begins
<1>1. ASSUME NEW c \in Caller, Claim(c)
      PROVE  GenuineInv'
      BY <1>1 DEF Claim
<1>2. ASSUME NEW c \in Caller, ClaimFails(c)
      PROVE  GenuineInv'
      BY <1>2 DEF ClaimFails
<1>0. ASSUME NEW c \in Caller, ClaimResent(c)
      PROVE  GenuineInv'
      BY <1>0 DEF ClaimResent
<1>3. ASSUME NEW c \in Caller, FnReturns(c)
      PROVE  GenuineInv'
      BY <1>3 DEF FnReturns
<1>4. ASSUME NEW c \in Caller, FnFails(c)
      PROVE  GenuineInv'
      BY <1>4 DEF FnFails
<1>5. ASSUME NEW c \in Caller, Store(c)
      PROVE  GenuineInv'
      BY <1>5 DEF Store
<1>6. ASSUME NEW c \in Caller, StoreFails(c)
      PROVE  GenuineInv'
      BY <1>6 DEF StoreFails
<1>7. ASSUME NEW c \in Caller, Clear(c)
      PROVE  GenuineInv'
      BY <1>7 DEF Clear
<1>8. ASSUME NEW c \in Caller, ClearFails(c)
      PROVE  GenuineInv'
      BY <1>8 DEF ClearFails
<1>9. ASSUME NEW c \in Caller, Get(c)
      PROVE  GenuineInv'
      BY <1>9 DEF Get
<1>10. ASSUME NEW c \in Caller, GetAgain(c)
       PROVE  GenuineInv'
       BY <1>10 DEF GetAgain
<1>11. ASSUME NEW c \in Caller, GetFails(c)
       PROVE  GenuineInv'
       BY <1>11 DEF GetFails
<1>12. ASSUME NEW c \in Caller, Crash(c)
       PROVE  GenuineInv'
       BY <1>12 DEF Crash
<1>13. CASE Expire
       BY <1>13 DEF Expire
<1>14. CASE UNCHANGED vars
       BY <1>14 DEF vars
<1> QED
    BY <1>0, <1>1, <1>2, <1>3, <1>4, <1>5, <1>6, <1>7, <1>8, <1>9, <1>10, <1>11, <1>12, <1>13,
       <1>14
    DEF Next, Step, Faulty, Rest

\* Type correctness, for any set of calls and any bounds.
THEOREM TypeCorrect == Spec => []TypeOK
<1>1. GenuineInv => TypeOK
      BY DEF GenuineInv
<1> QED
    BY GenuineInit, GenuineStep, <1>1, PTL DEF Spec

\* Every answer of execute, fresh or replayed, is the result of an execution that
\* took effect, whatever fails, crashes or expires.
THEOREM Genuine == Spec => []AnswersAreGenuine
<1>1. GenuineInv => AnswersAreGenuine
      BY DEF GenuineInv
<1> QED
    BY GenuineInit, GenuineStep, <1>1, PTL DEF Spec

-----------------------------------------------------------------------------
\* Later calls replay because, once any call has returned, the key holds a result,
\* and as long as all is calm nobody is there to delete it.
ReplayInv ==
    /\ \A c \in effects \cup late : pc[c] # "idle"
    /\ Calm =>
          /\ (\E c \in Caller : pc[c] \in Returned) => cell \in Caller
          /\ \A c \in late :
                cell \in Caller /\ c \notin effects /\ pc[c] \in {"get", "replayed"}

\* There is one effect beside those of the fallback because, without faults,
\* there is one claim at a time and none after a claimed execution took effect.
OneInv ==
    /\ \A c \in Caller : pc[c] \in Fallback => c \in fellBack
    /\ faults = 0 =>
          /\ \A c, d \in Caller : pc[c] \in Claimed /\ pc[d] \in Claimed => c = d
          /\ cell = "none" => \A c \in Caller : pc[c] \notin Claimed
          /\ cell = "pending" => \E c \in Caller : pc[c] \in Claimed
          /\ \A c \in effects \ fellBack :
                /\ pc[c] = "store" \/ cell \in Caller
                /\ \A d \in Caller : pc[d] \in Claimed => c = d /\ pc[c] = "store"
          /\ OneEffect

\* A failing command, a crash or an expiry is counted.
LEMMA FaultCounts ==
  ASSUME TypeOK, Expire \/ \E c \in Caller : Faulty(c)
  PROVE  faults' # 0
<1>1. Fault
      BY DEF Expire, Faulty, ClaimFails, ClaimResent, StoreFails, ClearFails, GetFails, Crash
<1> QED
    BY <1>1, IdempotencyAssumption DEF Fault, TypeOK

\* Every action keeps ReplayInv: a fault, and a fn that throws, end the calm.
LEMMA ReplayStep ==
  ASSUME GenuineInv, ReplayInv, [Next]_vars
  PROVE  ReplayInv'
<1> USE IdempotencyAssumption DEF GenuineInv, ReplayInv, Calm, TypeOK, PCs, Active, Claimed,
        Fallback, Returned, Goto, Returns, Begins
<1>1. ASSUME NEW c \in Caller, Claim(c)
      PROVE  ReplayInv'
      BY <1>1 DEF Claim
<1>2. ASSUME NEW c \in Caller, FnReturns(c)
      PROVE  ReplayInv'
      BY <1>2 DEF FnReturns
<1>3. ASSUME NEW c \in Caller, FnFails(c)
      PROVE  ReplayInv'
      BY <1>3 DEF FnFails
<1>4. ASSUME NEW c \in Caller, Store(c)
      PROVE  ReplayInv'
      BY <1>4 DEF Store
<1>5. ASSUME NEW c \in Caller, Clear(c)
      PROVE  ReplayInv'
      BY <1>5 DEF Clear
<1>6. ASSUME NEW c \in Caller, Get(c)
      PROVE  ReplayInv'
      BY <1>6 DEF Get
<1>7. ASSUME NEW c \in Caller, GetAgain(c)
      PROVE  ReplayInv'
      BY <1>7 DEF GetAgain
<1>8. ASSUME NEW c \in Caller, Faulty(c)
      PROVE  ReplayInv'
      <2>1. faults' # 0
            BY <1>8, FaultCounts
      <2>2. \A d \in effects' \cup late' : pc'[d] # "idle"
            BY <1>8 DEF Faulty, ClaimFails, ClaimResent, StoreFails, ClearFails, GetFails, Crash
      <2> QED
          BY <2>1, <2>2
<1>9. CASE Expire
      BY <1>9, FaultCounts DEF Expire
<1>10. CASE UNCHANGED vars
       BY <1>10 DEF vars
<1> QED
    BY <1>1, <1>2, <1>3, <1>4, <1>5, <1>6, <1>7, <1>8, <1>9, <1>10 DEF Next, Step, Rest

\* Every action keeps OneInv.
LEMMA OneStep ==
  ASSUME GenuineInv, OneInv, [Next]_vars
  PROVE  OneInv'
<1> USE IdempotencyAssumption DEF GenuineInv, OneInv, OneEffect, TypeOK, PCs, Active, Claimed,
        Fallback, Returned, Goto, Returns, Begins
<1>1. ASSUME NEW c \in Caller, Claim(c)
      PROVE  OneInv'
      BY <1>1 DEF Claim
<1>2. ASSUME NEW c \in Caller, FnReturns(c)
      PROVE  OneInv'
      BY <1>2 DEF FnReturns
<1>3. ASSUME NEW c \in Caller, FnFails(c)
      PROVE  OneInv'
      BY <1>3 DEF FnFails
<1>4. ASSUME NEW c \in Caller, Store(c)
      PROVE  OneInv'
      BY <1>4 DEF Store
<1>5. ASSUME NEW c \in Caller, Clear(c)
      PROVE  OneInv'
      BY <1>5 DEF Clear
<1>6. ASSUME NEW c \in Caller, Get(c)
      PROVE  OneInv'
      BY <1>6 DEF Get
<1>7. ASSUME NEW c \in Caller, GetAgain(c)
      PROVE  OneInv'
      BY <1>7 DEF GetAgain
<1>8. ASSUME NEW c \in Caller, Faulty(c)
      PROVE  OneInv'
      <2>1. faults' # 0
            BY <1>8, FaultCounts
      <2>2. \A d \in Caller : pc'[d] \in Fallback => d \in fellBack'
            BY <1>8 DEF Faulty, ClaimFails, ClaimResent, StoreFails, ClearFails, GetFails, Crash
      <2> QED
          BY <2>1, <2>2
<1>9. CASE Expire
      BY <1>9, FaultCounts DEF Expire
<1>10. CASE UNCHANGED vars
       BY <1>10 DEF vars
<1> QED
    BY <1>1, <1>2, <1>3, <1>4, <1>5, <1>6, <1>7, <1>8, <1>9, <1>10 DEF Next, Step, Rest

\* Initially the key is free, nobody has claimed it, and nobody has returned.
LEMMA HistoryInit == Init => ReplayInv /\ OneInv
BY IdempotencyAssumption DEF Init, ReplayInv, OneInv, OneEffect, Claimed, Fallback, Returned

\* With any number of concurrent calls, fast or slow: while Redis does not fail,
\* the key does not expire and no fn throws, a call that begins after another one
\* has returned does not execute fn.
THEOREM LateReplays == Spec => []LaterCallsReplay
<1>1. ReplayInv => LaterCallsReplay
      BY DEF ReplayInv, LaterCallsReplay
<1> QED
    BY GenuineInit, GenuineStep, HistoryInit, ReplayStep, <1>1, PTL DEF Spec

\* Without faults, whether fn throws or not, at most one call executes fn with
\* effect and without having fallen back.
THEOREM EffectOnce == Spec => []OneEffect
<1>1. OneInv => OneEffect
      BY DEF OneInv, OneEffect
<1> QED
    BY GenuineInit, GenuineStep, HistoryInit, OneStep, <1>1, PTL DEF Spec

\* Without faults the placeholder is owned by an execution in progress.
THEOREM PendingOwned == Spec => []PendingHasOwner
<1>1. OneInv => PendingHasOwner
      BY DEF OneInv, PendingHasOwner
<1> QED
    BY GenuineInit, GenuineStep, HistoryInit, OneStep, <1>1, PTL DEF Spec

\* Where a call is whose fn has taken effect: it does not throw any more.
EffectInv == \A c \in effects : pc[c] \in {"store", "storeAgain", "fresh", "crashed"}

\* Only fn's return brings an effect, and what comes after it cannot fail.
LEMMA EffectStep == TypeOK /\ EffectInv /\ [Next]_vars => EffectInv'
<1> SUFFICES ASSUME TypeOK, EffectInv, [Next]_vars
             PROVE  EffectInv'
    OBVIOUS
<1> USE DEF TypeOK, EffectInv, Goto, Returns
<1>1. ASSUME NEW c \in Caller, FnReturns(c)
      PROVE  EffectInv'
      BY <1>1 DEF FnReturns
<1>2. ASSUME NEW c \in Caller, Store(c) \/ StoreFails(c)
      PROVE  EffectInv'
      BY <1>2 DEF Store, StoreFails
<1>3. ASSUME NEW c \in Caller, Claim(c) \/ ClaimFails(c) \/ ClaimResent(c)
      PROVE  EffectInv'
      BY <1>3 DEF Claim, ClaimFails, ClaimResent, Begins
<1>4. ASSUME NEW c \in Caller, FnFails(c) \/ Clear(c) \/ ClearFails(c)
      PROVE  EffectInv'
      BY <1>4 DEF FnFails, Clear, ClearFails
<1>5. ASSUME NEW c \in Caller, Get(c) \/ GetAgain(c) \/ GetFails(c)
      PROVE  EffectInv'
      BY <1>5 DEF Get, GetAgain, GetFails
<1>6. ASSUME NEW c \in Caller, Crash(c)
      PROVE  EffectInv'
      BY <1>6 DEF Crash
<1>7. CASE UNCHANGED <<pc, effects>>
      BY <1>7
<1> QED
    BY <1>1, <1>2, <1>3, <1>4, <1>5, <1>6, <1>7 DEF Next, Step, Faulty, Expire, Rest, vars

\* A call that has thrown has had no effect, through failures, crashes and expiry:
\* whoever retries it repeats nothing.
THEOREM ThrownWithoutEffect == Spec => [](\A c \in effects : pc[c] # "threw")
<1>1. Init => EffectInv
      BY DEF Init, EffectInv
<1>2. EffectInv => \A c \in effects : pc[c] # "threw"
      BY DEF EffectInv
<1> QED
    BY <1>1, <1>2, EffectStep, TypeCorrect, PTL DEF Spec

-----------------------------------------------------------------------------
(* OrderCreation *)

\* Where an order comes from: its call awaits the reply of the COMMIT, has returned
\* from fn, has died, or has lost the reply.
Origin(c) ==
    \/ txn[c] = "committed"
    \/ c \in effects
    \/ pc[c] = "crashed" /\ faults # 0
    \/ c \in lost

RowInv ==
    /\ CreateTypeOK
    /\ \A c \in Caller : txn[c] # "none" => InFn(c)
    /\ \A c \in Caller : txn[c] = "committed" => c \in rows
    /\ effects \cup adding \cup scheduled \subseteq rows
    /\ \A c \in effects : pc[c] \in {"store", "storeAgain", "fresh", "crashed"}
    /\ \A c \in rows : Origin(c)
    /\ OrderHasJob

\* Initially there is no order and no transaction.
LEMMA RowInit == CreateInit => RowInv
BY IdempotencyAssumption DEF CreateInit, Init, RowInv, CreateTypeOK, OrderHasJob

\* A step of the creation is a step of the idempotency service, or none of its business.
LEMMA StepUses == [CreateNext]_createVars => [Next]_vars
<1> SUFFICES ASSUME [CreateNext]_createVars PROVE [Next]_vars
    OBVIOUS
<1>1. ASSUME NEW c \in Caller, Execute(c)
      PROVE  Next
      BY <1>1 DEF Execute, Next, Step, Faulty
<1>2. ASSUME NEW c \in Caller, CreateStep(c)
      PROVE  [Next]_vars
      BY <1>2 DEF CreateStep, BeginTx, Insert, Commit, Created, TxFails, CommitReplyLost,
         JobAdded, JobFails, CrashCreate, Next, Step, Faulty
<1>3. ASSUME Expire \/ Rest
      PROVE  Next
      BY <1>3 DEF Next
<1> QED
    BY <1>1, <1>2, <1>3 DEF CreateNext, createVars

\* Creating orders drives the idempotency service only as any fn does, so that
\* every theorem about Idempotency holds of the creation of orders.
LEMMA Uses == CreateSpec => Spec
<1>1. CreateInit => Init
      BY DEF CreateInit
<1> QED
    BY <1>1, StepUses, PTL DEF CreateSpec, Spec

\* Every action keeps RowInv.
LEMMA RowStep ==
  ASSUME GenuineInv, RowInv, [CreateNext]_createVars
  PROVE  RowInv'
<1> USE IdempotencyAssumption, CreationAssumption
    DEF GenuineInv, RowInv, CreateTypeOK, Origin, InFn, Reaches, OrderHasJob, TypeOK, PCs, Active,
        Claimed, Fallback, Returned, Goto, Returns, Begins, Fault, vars
<1>1. ASSUME NEW c \in Caller, Execute(c)
      PROVE  RowInv'
      <2> USE <1>1 DEF dbVars
      <2>1. CASE Claim(c) \/ ClaimFails(c) \/ ClaimResent(c)
            BY <2>1 DEF Execute, Claim, ClaimFails, ClaimResent
      <2>2. CASE Store(c) \/ StoreFails(c)
            BY <2>2 DEF Execute, Store, StoreFails
      <2>3. CASE Clear(c) \/ ClearFails(c)
            BY <2>3 DEF Execute, Clear, ClearFails
      <2>4. CASE Get(c) \/ GetAgain(c) \/ GetFails(c)
            BY <2>4 DEF Execute, Get, GetAgain, GetFails
      <2> QED
          BY <2>1, <2>2, <2>3, <2>4 DEF Execute
<1>2. ASSUME NEW c \in Caller, BeginTx(c) \/ Insert(c) \/ Commit(c)
      PROVE  RowInv'
      BY <1>2 DEF BeginTx, Insert, Commit
<1>3. ASSUME NEW c \in Caller, Created(c)
      PROVE  RowInv'
      BY <1>3 DEF Created, FnReturns
<1>4. ASSUME NEW c \in Caller, TxFails(c) \/ CommitReplyLost(c)
      PROVE  RowInv'
      BY <1>4 DEF TxFails, CommitReplyLost, FnFails
<1>5. ASSUME NEW c \in Caller, JobAdded(c) \/ JobFails(c)
      PROVE  RowInv'
      BY <1>5 DEF JobAdded, JobFails
<1>6. ASSUME NEW c \in Caller, CrashCreate(c)
      PROVE  RowInv'
      BY <1>6 DEF CrashCreate, Crash
<1>7. CASE (Expire \/ Rest) /\ UNCHANGED dbVars
      BY <1>7 DEF Expire, Rest, dbVars
<1>8. CASE UNCHANGED createVars
      BY <1>8 DEF createVars, dbVars
<1> QED
    BY <1>1, <1>2, <1>3, <1>4, <1>5, <1>6, <1>7, <1>8 DEF CreateNext, CreateStep

\* What holds of the orders holds together with what Idempotency keeps.
LEMMA RowsHold == CreateSpec => [](GenuineInv /\ OneInv /\ RowInv)
<1>1. CreateInit => Init
      BY DEF CreateInit
<1> QED
    BY <1>1, GenuineInit, HistoryInit, RowInit, StepUses, GenuineStep, OneStep, RowStep, PTL
    DEF CreateSpec

\* The variables keep their types, for any calls and bounds.
THEOREM CreateTypeCorrect == CreateSpec => []CreateTypeOK
<1>1. RowInv => CreateTypeOK
      BY DEF RowInv
<1> QED
    BY RowsHold, <1>1, PTL

\* Every answer, first or replayed, is an order that is committed, whatever fails.
THEOREM AnsweredExists == CreateSpec => []AnsweredOrderExists
<1>1. GenuineInv /\ RowInv => AnsweredOrderExists
      BY DEF GenuineInv, RowInv, AnsweredOrderExists, AnswersAreGenuine
<1> QED
    BY RowsHold, <1>1, PTL

\* A call that ends with an error has left no order behind, unless the reply of
\* its COMMIT was lost.
THEOREM AllOrRolledBack == CreateSpec => []ErrorMeansNoOrder
<1>1. RowInv => ErrorMeansNoOrder
      BY DEF RowInv, ErrorMeansNoOrder, Origin, InFn, CreateTypeOK
<1> QED
    BY RowsHold, <1>1, PTL

\* Jobs and orders belong together: no job without its order, and no order without
\* its job unless the failures that OrderHasJob names stood between them.
THEOREM JobsMatchOrders == CreateSpec => [](JobHasOrder /\ OrderHasJob)
<1>1. RowInv => JobHasOrder /\ OrderHasJob
      BY DEF RowInv, JobHasOrder
<1> QED
    BY RowsHold, <1>1, PTL

\* Without faults one order is created beside those of the fallback and of lost replies,
\* however many calls carry the key and however often fn throws.
THEOREM OneOrderPerKey == CreateSpec => []OneOrder
<1>1. ASSUME GenuineInv, OneInv, RowInv
      PROVE  OneOrder
      <2> SUFFICES ASSUME faults = 0,
                          NEW c \in rows \ (fellBack \cup lost),
                          NEW d \in rows \ (fellBack \cup lost)
                   PROVE  c = d
          BY DEF OneOrder
      <2> USE <1>1 DEF GenuineInv, OneInv, RowInv, CreateTypeOK, TypeOK, Claimed, Fallback, InFn
      <2>1. \A e \in rows \ (fellBack \cup lost) :
                \/ e \in effects \ fellBack
                \/ pc[e] = "running"
            BY DEF Origin
      <2> QED
          BY <2>1 DEF OneEffect
<1> QED
    BY RowsHold, <1>1, PTL

-----------------------------------------------------------------------------
(* Billing *)

\* Every call makes one of its attempts.
AttemptInv ==
    attempt \in [Call -> Nat] /\ \A c \in Call : attempt[c] \in DOMAIN Attempts[c]

LEMMA AttemptsExist ==
    ASSUME AttemptInv, NEW c \in Call
    PROVE  Current(c) \in Caller
<1>1. Attempts[c] \in Seq(Caller) /\ attempt[c] \in DOMAIN Attempts[c]
      BY BillingAssumption DEF BillingAssumption, AttemptInv
<1> QED
    BY <1>1 DEF Current

\* A call that backs off has attempts left.
LEMMA AttemptStep ==
    ASSUME AttemptInv, [BillingNext]_billingVars
    PROVE  AttemptInv'
<1>1. ASSUME NEW c \in Call, Retry(c)
      PROVE  AttemptInv'
  <2>1. Attempts[c] \in Seq(Caller) /\ attempt[c] \in 1..Len(Attempts[c])
        BY BillingAssumption DEF BillingAssumption, AttemptInv
  <2>2. attempt' = [attempt EXCEPT ![c] = @ + 1] /\ attempt[c] # Len(Attempts[c])
        BY <1>1 DEF Retry, BacksOff, Exhausted
  <2>3. attempt[c] + 1 \in DOMAIN Attempts[c]
        BY <2>1, <2>2
  <2> QED
      BY <2>1, <2>2, <2>3 DEF AttemptInv
<1>2. CASE attempt' = attempt
      BY <1>2 DEF AttemptInv
<1> QED
    BY <1>1, <1>2 DEF BillingNext, Creates, Attempt, DoCreatePayment, Die,
       Confirm, Refund, GoDown, GoUp, ExpireKey, BillingRest,
       paymentVars, billingVars

LEMMA BillInit == BillingInit => AttemptInv /\ Init
<1> SUFFICES ASSUME BillingInit PROVE AttemptInv /\ Init
    OBVIOUS
<1>1. ASSUME NEW c \in Call
      PROVE  1 \in DOMAIN Attempts[c]
  <2>1. Attempts[c] \in Seq(Caller) /\ Attempts[c] # <<>>
        BY BillingAssumption DEF BillingAssumption
  <2> QED
      BY <2>1
<1> QED
    BY <1>1 DEF BillingInit, AttemptInv

\* A step of Billing is one of the idempotency service for one of the attempts, or none.
LEMMA BillUses ==
    ASSUME AttemptInv, [BillingNext]_billingVars
    PROVE  [Next]_vars
<1>1. ASSUME NEW c \in Call, Attempt(c) \/ DoCreatePayment(c) \/ Die(c)
      PROVE  Next
  <2>1. Current(c) \in Caller
        BY AttemptsExist
  <2>2. Step(Current(c)) \/ Faulty(Current(c))
        BY <1>1 DEF Attempt, DoCreatePayment, Die, Step, Faulty
  <2> QED
      BY <2>1, <2>2 DEF Next
<1>2. CASE ExpireKey
      BY <1>2 DEF ExpireKey, Next
<1>3. CASE UNCHANGED vars
      BY <1>3
<1> QED
    BY <1>1, <1>2, <1>3 DEF BillingNext, Creates, Retry, Confirm, Refund,
       GoDown, GoUp, BillingRest, billingVars

\* The attempts before the current one have thrown, those after it have not begun.
RetryInv ==
    \A c \in Call : \A j \in DOMAIN Attempts[c] :
        /\ j < attempt[c] => pc[Attempts[c][j]] = "threw"
        /\ j > attempt[c] => pc[Attempts[c][j]] = "idle"

\* The Map has every payment that was made since the last restart.
MapInv ==
    /\ payment \in [Caller -> {"none", "CREATED", "SUCCEEDED", "REFUNDED"}]
    /\ \A a \in effects \ forgotten : payment[a] # "none"

ChargeInv == charged \subseteq effects

\* No two calls share an attempt.
LEMMA AttemptsDistinct ==
    ASSUME AttemptInv, NEW c \in Call,
           NEW d \in Call, NEW j \in DOMAIN Attempts[d], Attempts[d][j] = Current(c)
    PROVE  d = c /\ j = attempt[c]
BY BillingAssumption DEF BillingAssumption, AttemptInv, Current

\* Only the current attempt of a call moves, and the next one begins when it has thrown.
LEMMA RetryStep ==
    ASSUME AttemptInv, TypeOK, RetryInv, [BillingNext]_billingVars
    PROVE  RetryInv'
<1>1. ASSUME NEW c \in Call, \A a \in Caller : a # Current(c) => pc'[a] = pc[a], attempt' = attempt
      PROVE  RetryInv'
  <2>1. ASSUME NEW d \in Call, NEW j \in DOMAIN Attempts[d], j # attempt[d]
        PROVE  pc'[Attempts[d][j]] = pc[Attempts[d][j]]
    <3>1. Attempts[d][j] # Current(c)
          BY <2>1, AttemptsDistinct
    <3>2. Attempts[d][j] \in Caller
      <4>1. Attempts[d] \in Seq(Caller)
            BY BillingAssumption DEF BillingAssumption
      <4> QED
          BY <4>1
    <3> QED
        BY <1>1, <3>1, <3>2
  <2> QED
      BY <1>1, <2>1 DEF RetryInv, AttemptInv
<1>2. ASSUME NEW c \in Call, Attempt(c) \/ DoCreatePayment(c) \/ Die(c)
      PROVE  RetryInv'
  <2>1. \E next : pc' = [pc EXCEPT ![Current(c)] = next]
    <3> USE DEF Goto, Returns
    <3>1. CASE Attempt(c)
          BY <3>1 DEF Attempt, Claim, Get, GetAgain, Store,
             ClaimFails, ClaimResent, GetFails, StoreFails
    <3>2. CASE DoCreatePayment(c)
          BY <3>2 DEF DoCreatePayment, FnReturns
    <3>3. CASE Die(c)
          BY <3>3 DEF Die, Crash
    <3> QED
        BY <1>2, <3>1, <3>2, <3>3
  <2>2. attempt' = attempt
        BY <1>2 DEF Attempt, DoCreatePayment, Die, paymentVars
  <2> QED
      BY <1>1, <2>1, <2>2 DEF TypeOK
<1>3. ASSUME NEW c \in Call, Retry(c)
      PROVE  RetryInv'
  <2>1. /\ attempt' = [attempt EXCEPT ![c] = @ + 1] /\ pc' = pc
        /\ pc[Attempts[c][attempt[c]]] = "threw"
        BY <1>3 DEF Retry, BacksOff, Current, vars
  <2>2. ASSUME NEW d \in Call, NEW j \in DOMAIN Attempts[d]
        PROVE  /\ j < attempt'[d] => pc[Attempts[d][j]] = "threw"
               /\ j > attempt'[d] => pc[Attempts[d][j]] = "idle"
    <3>1. j \in Nat /\ attempt[d] \in Nat
      <4>1. Attempts[d] \in Seq(Caller)
            BY BillingAssumption DEF BillingAssumption
      <4> QED
          BY <4>1 DEF AttemptInv
    <3>2. CASE d = c
          BY <2>1, <3>1, <3>2 DEF RetryInv, AttemptInv
    <3>3. CASE d # c
          BY <2>1, <3>3 DEF RetryInv, AttemptInv
    <3> QED
        BY <3>2, <3>3
  <2> QED
      BY <2>1, <2>2 DEF RetryInv
<1>4. CASE UNCHANGED <<pc, attempt>>
      BY <1>4 DEF RetryInv
<1> QED
    BY <1>2, <1>3, <1>4 DEF BillingNext, Creates, Confirm, Refund, GoDown, GoUp,
       ExpireKey, Expire, BillingRest, vars, paymentVars, billingVars

\* What a caller was answered is a payment that was made.
LEMMA AnsweredMade ==
    ASSUME AttemptInv, AnswersAreGenuine, NEW c \in Call, Answered(c)
    PROVE  Id(c) \in effects
BY AttemptsExist DEF Answered, Id, AnswersAreGenuine, Returned

\* A payment enters the Map with its effect and leaves it only with all others; what
\* is confirmed was made.
LEMMA MapStep ==
    ASSUME AttemptInv, TypeOK, AnswersAreGenuine, MapInv, ChargeInv,
           [BillingNext]_billingVars
    PROVE  MapInv' /\ ChargeInv'
<1>1. ASSUME NEW c \in Call, DoCreatePayment(c)
      PROVE  MapInv' /\ ChargeInv'
  <2>1. /\ Current(c) \in Caller
        /\ effects' = effects \cup {Current(c)}
        /\ payment' = [payment EXCEPT ![Current(c)] = "CREATED"]
        /\ forgotten' = forgotten /\ charged' = charged
        BY <1>1, AttemptsExist DEF DoCreatePayment, FnReturns
  <2> QED
      BY <2>1 DEF MapInv, ChargeInv
<1>2. ASSUME NEW c \in Call, Confirm(c) \/ Refund(c)
      PROVE  MapInv' /\ ChargeInv'
  <2>0. effects \subseteq Caller
        BY DEF TypeOK
  <2>1. /\ Id(c) \in effects
        /\ effects' = effects /\ forgotten' = forgotten
        /\ \E s \in {"SUCCEEDED", "REFUNDED"} : payment' = [payment EXCEPT ![Id(c)] = s]
        /\ charged' \subseteq charged \cup {Id(c)}
        BY <1>2, AnsweredMade DEF Confirm, Refund, Known, vars
  <2> QED
      BY <2>0, <2>1 DEF MapInv, ChargeInv
<1>3. CASE GoDown
  <2>1. /\ effects' = effects /\ forgotten' = effects /\ charged' = charged
        /\ payment' = [a \in Caller |-> "none"]
        BY <1>3 DEF GoDown, vars
  <2> QED
      BY <2>1 DEF MapInv, ChargeInv
<1>4. CASE UNCHANGED <<effects, forgotten, payment, charged>>
      BY <1>4 DEF MapInv, ChargeInv
<1>5. ASSUME NEW c \in Call, Attempt(c)
      PROVE  UNCHANGED <<effects, forgotten, payment, charged>>
      BY <1>5 DEF Attempt, Claim, Get, GetAgain, Store,
         ClaimFails, ClaimResent, GetFails, StoreFails,
         paymentVars
<1> QED
    BY <1>1, <1>2, <1>3, <1>4, <1>5 DEF BillingNext, Creates, Retry, Die, Crash,
       GoUp, ExpireKey, Expire, BillingRest, vars, paymentVars, billingVars

\* The payments of an order drive the idempotency service only as any fn does, so that
\* every theorem about Idempotency holds of them.
THEOREM BillingUsesIdempotency == BillingSpec => Spec
<1>1. BillingInit => AttemptInv /\ Init
      BY BillInit
<1>2. AttemptInv /\ [BillingNext]_billingVars => AttemptInv' /\ [Next]_vars
      BY AttemptStep, BillUses
<1> QED
    BY <1>1, <1>2, PTL DEF BillingSpec, Spec

\* So what is proved of Idempotency holds of all the attempts on the key.
LEMMA BillInherits == BillingSpec => []TypeOK /\ []AnswersAreGenuine /\ []OneEffect /\ []EffectInv
<1>1. Init => EffectInv
      BY DEF Init, EffectInv
<1> QED
    BY <1>1, EffectStep, TypeCorrect, Genuine, EffectOnce, BillingUsesIdempotency, PTL DEF Spec

LEMMA BillAlways == BillingSpec => [](AttemptInv /\ RetryInv /\ MapInv /\ ChargeInv)
<1>1. BillingInit => AttemptInv /\ RetryInv /\ MapInv /\ ChargeInv
  <2> SUFFICES ASSUME BillingInit PROVE AttemptInv /\ RetryInv /\ MapInv /\ ChargeInv
      OBVIOUS
  <2>1. AttemptInv
        BY BillInit
  <2>2. /\ attempt = [c \in Call |-> 1] /\ pc = [a \in Caller |-> "idle"] /\ effects = {}
        /\ payment = [a \in Caller |-> "none"] /\ charged = {}
        BY DEF BillingInit, Init
  <2>3. ASSUME NEW c \in Call, NEW j \in DOMAIN Attempts[c]
        PROVE  ~(j < attempt[c]) /\ pc[Attempts[c][j]] = "idle"
    <3>1. Attempts[c] \in Seq(Caller)
          BY BillingAssumption DEF BillingAssumption
    <3> QED
        BY <2>2, <3>1
  <2>4. RetryInv
        BY <2>3 DEF RetryInv
  <2> QED
      BY <2>1, <2>2, <2>4 DEF MapInv, ChargeInv
<1>2. AttemptInv /\ RetryInv /\ MapInv /\ ChargeInv /\ TypeOK /\ AnswersAreGenuine
      /\ [BillingNext]_billingVars => AttemptInv' /\ RetryInv' /\ MapInv' /\ ChargeInv'
  <2> SUFFICES ASSUME AttemptInv, RetryInv, MapInv, ChargeInv,
                      TypeOK, AnswersAreGenuine, [BillingNext]_billingVars
               PROVE  AttemptInv' /\ RetryInv' /\ MapInv' /\ ChargeInv'
      OBVIOUS
  <2>1. AttemptInv'
        BY AttemptStep
  <2>2. RetryInv'
        BY RetryStep
  <2>3. MapInv' /\ ChargeInv'
        BY MapStep
  <2> QED
      BY <2>1, <2>2, <2>3
<1> QED
    BY <1>1, <1>2, BillInherits, PTL DEF BillingSpec

\* "Idempotency guarantees that retries make no second payment": of the attempts of a
\* call at most one takes effect, whatever fails, crashes, expires or restarts.
THEOREM RetriesPayOnce == BillingSpec => []RetriesCreateOnce
<1>1. AttemptInv /\ RetryInv /\ EffectInv => RetriesCreateOnce
  <2> SUFFICES ASSUME AttemptInv, RetryInv, EffectInv,
                      NEW c \in Call, NEW i \in DOMAIN Attempts[c], Attempts[c][i] \in effects
               PROVE  i = attempt[c]
      BY DEF RetriesCreateOnce
  <2>1. i \in Nat /\ attempt[c] \in Nat
    <3>1. Attempts[c] \in Seq(Caller)
          BY BillingAssumption DEF BillingAssumption
    <3> QED
        BY <3>1 DEF AttemptInv
  <2>2. pc[Attempts[c][i]] \notin {"threw", "idle"}
        BY DEF EffectInv
  <2> QED
      BY <2>1, <2>2 DEF RetryInv
<1> QED
    BY <1>1, BillAlways, BillInherits, PTL

\* A payment that a caller was told of is in the Map, unless the process has restarted
\* since it was made.
THEOREM AnswersKnown == BillingSpec => []AnswerIsKnown
<1>1. AttemptInv /\ MapInv /\ AnswersAreGenuine => AnswerIsKnown
      BY AnsweredMade DEF MapInv, AnswerIsKnown
<1> QED
    BY <1>1, BillAlways, BillInherits, PTL

\* Without faults at most one payment of the order is ever confirmed, but for those of
\* the fallback, however many calls, attempts and restarts there are.
THEOREM ChargesOnce == BillingSpec => []ChargedOnce
<1>1. ChargeInv /\ OneEffect => ChargedOnce
      BY DEF ChargeInv, OneEffect, ChargedOnce
<1> QED
    BY <1>1, BillAlways, BillInherits, PTL
=============================================================================
