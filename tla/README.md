# TLA+ models of the order and payment services

These modules specify the coordination code of this repository: how an order is created, paid,
listed, cancelled and timed out across three services, and the shared building blocks (lock,
idempotency, retries, cache, circuit breaker, outbox, queue) those services rely on. TLC checks every module on a small instance;
TLAPS proves the safety theorems for all values of the constants.

    tlc -config MCOrderStore.cfg MCOrderStore       # one file per run, see "Runs"
    tlapm OrderStore_proofs.tla                     # one proof module, see "Proofs"

`PROJECT.json` lists the runs, the source lines every definition stands for, the hazards and the
theorems.

## The system

Three processes, all NestJS:

```
 client --HTTP--> api-gateway --Redis pub/sub request/event--> orders --> PostgreSQL (master, replica)
                     |  \--RabbitMQ event--------------------->  |
                     |--TCP--> billing (payments in memory)      |--> BullMQ queue (Redis)
                     |--> Redis: lock, outbox list               |--> Redis: idempotency keys
```

| component | state it keeps | operations | talks to |
|---|---|---|---|
| orders: status and auto-cancel (`apps/orders/src/orders`) | the `orders` table: status and `@VersionColumn`; a delayed job per order | create, cancel, PAYMENT_SUCCEEDED, auto-cancel job, findById, findAll, reconciliationScan | PostgreSQL, BullMQ, the list's cache |
| api-gateway: payment saga (`apps/api-gateway/src/saga`) | the step a run is in, its compensation records | `payOrder`: get order, create payment, confirm, enqueue event, or refund and cancel | lock, orders, billing, outbox |
| billing (`apps/billing/src/billing`) | `Map` of payments | createPayment, confirmPayment, refund, get | idempotency, retry, breaker |
| distributed lock (`libs/shared/.../lock`) | one Redis key per lock, a watchdog timer per holder | acquire, renew, release, runWithLock | Redis |
| idempotency, `@Idempotent` (`.../idempotency`, `.../decorators`) | one Redis key per request: `pending` or the result | execute | Redis, the guarded function |
| circuit breaker (`.../circuit-breaker`) | state, failure counter and `openedAt` per circuit, in memory | execute, fallback | the guarded function |
| outbox (`.../outbox`) | a Redis list of messages with retry counts, a timer | enqueue, drain | Redis, pub/sub |
| queue (`.../queue`) | BullMQ's jobs | scheduleOrderAutoCancel | Redis |
| cacheable (`.../cacheable.decorator.ts`) | the pages of the order list in a `Map` of the orders process, for 30 s | wrap `findAll`, evictCache | the wrapped method, which reads the replica |
| retryable, transaction | none; the transaction's manager | attempts with backoff; BEGIN, callback, COMMIT or ROLLBACK | the wrapped method, PostgreSQL |
| HTTP controller with guards, pipes, filter (`apps/api-gateway`) | the throttler's counts | authenticate, authorise, throttle, validate, forward, answer; publish ORDER_CREATED | orders, saga, RabbitMQ |
| RabbitMQ consumer (`orders.controller.ts`) | what is not acked yet | handle, ack, or nack with requeue | RabbitMQ |
| Prisma demo (`apps/orders/src/prisma-demo`) | `orders` and audit log | create, get, list, stats | PostgreSQL |
| redis, database, logger, health, constants, DTOs | connections, types | | |

What is hard in it, and what makes each part correct:

* **orders** - four handlers read a row, then update it; a cancel, a payment event and a due job
  may all have read the same version. Correct: nobody's update is lost, whoever is told of a conflict
  did lose to somebody, and a scheduled order does not stay PENDING, whatever crashes.
* **saga** - five remote steps with timeouts that withdraw nothing, compensations that may fail, a
  gateway that may die anywhere. Correct: one run per order at a time; an order is PAID iff its money
  is taken; an order whose run reported success does not stay PENDING; no late request undoes a refund; runs end and give the lock back.
* **lock** - the lease races the holder's function, its watchdog, Redis' latency and the release.
  Correct: mutual exclusion while renewals arrive in time, nobody touches another's key, abandoned
  keys expire.
* **idempotency** - the claim, the function and the result are three moments; a second call waits only
  50 ms. Correct: answers are results of executions that took place; without faults one effect outside
  the fallback.
* **circuit breaker** - calls decide on a state that others change before they settle. Correct: a
  cooldown is neither ended nor extended by calls of earlier phases, and the circuit closes again.
* **outbox** - `setInterval` does not wait for the drain in progress and every gateway runs one; a
  message is outside Redis while it is published. Correct: one copy, bounded attempts, nothing lost.

* **creation of orders** - the transaction is the function of the idempotency service, the job is added
  after it without an await; COMMIT may be done and its reply lost. Correct: an answer, first or
  replayed, is an order in the table, one key makes one order, an order has its job.
* **order list** - a page is read from a lagging replica and stored after its eviction. Correct: staleness
  has a bound, and without such a race pages follow the updates.
* **billing** - attempts of a call meet the pending key of their predecessor; payments are in memory, keys
  are not. Correct: one call makes one payment, and a payment that was answered is known.
* **HTTP controller, consumer** - answers race timeouts, events race crashes. Correct: a 4xx, also that of a busy lock, had no
  effect, an event means an answered creation, what the broker has is handled.
* **Prisma demo** - the statements of a batch see different states of the tables. Correct: what one answer
  puts together fits together.

## Modules

Each component has a specification, an `MC` module with the constants' values and one or more `.cfg`
files; the proofs about it are in a `_proofs` module of its name, those about `OrderCreation` and `Billing` in
`Idempotency_proofs`, those about `CircuitBreaker` and `PrismaDemo` in `Standalone_proofs`. Every `await` of the code is a step boundary: what JavaScript does
between two awaits is one action, other handlers run in between. A Redis or database call that rejects
may or may not have been executed, and both outcomes are modelled. ioredis sends a command again when
the connection breaks (`maxRetriesPerRequest: 3`, `autoResendUnfulfilledCommands` at its default), so a
command may also be executed twice (faults `resend`, `ClaimResent`).

Operators whose comment begins with "Mutant of" are plausible bugs of the definition below them. No
action uses them; each is substituted for the original to show that a property notices.

### OrderStore
`orders.service.ts`, `orders.controller.ts`, `order-timeout.processor.ts`, `queue.service.ts`.
A *task* is one delivery to a handler (`Kind`: cancel, paid, timeout); `pc[t]` is the database call it
awaits. `Find` and `Update` are the two halves of `updateStatus` (read the entity, then
`UPDATE ... WHERE id AND version`), `Reread` its last read, `Lookup` the check the job makes first.
`writer` is a history: who overwrote which version. `DbFault` lets the awaited call reject. `Crash`
restarts the process: handlers in hand are gone, BullMQ requeues an active job once and fails it the
second time, a job being added is there or not. The handlers decide nothing by wall clock: the delay of
a job may end at any moment after it is added.

### CriticalSection and DistributedLock
`CriticalSection` is the promise: at most one caller inside. `DistributedLock` models
`distributed-lock.service.ts` on one key with discrete time counted down: what is left of the lease,
the time to the next watchdog tick, the time within which the command in flight arrives. `Tick` may
not pass a timer that is due (`Urgent`), so latency is bounded by `MaxLatency`. A renewal may be lost
at most `MaxMissed` times in a row. An owner is one invocation with the UUID it draws.
`AcquireLost` is a SET whose reply never came, `ReleaseLost` a failed DEL, `Crash` a holder's death.
`ImplementsCriticalSection` is the refinement: phase "inside" while `fn` runs under the key.

### PaymentSaga
`payment-saga.service.ts` with `client-proxy.factory.ts`, composed with `billing.service.ts` and
with `OrderStore` (`Store == INSTANCE OrderStore`: the orders service's own actions, unchanged, on its
own variables). `sp[s]` is the step run `s` is in; `line[g]` are billing requests on the TCP connection of
gateway `g`, served in order; `reply[s]` the answer awaited. A call that times out
(`CallTimesOut`) leaves its request on the line, to be served later. `SendCancel` hands the orders
service a cancel task, `Relay` the PAYMENT_SUCCEEDED event. `Faults` names the kinds of fault an
instance allows and `MaxFaults` how many. The lock is reduced to who holds the key: `LeaseExpires`
frees a key left behind, `LeaseLost` (a fault) one whose run goes on. `createPayment` is one step: the
races on its Redis key are those of `Idempotency`. The relay is reduced to delivering a
message once or (fault `event`) to nobody: its own races are those of `Outbox`.
The runs use one gateway process, whose TCP connection keeps requests in order.

### Idempotency
`idempotency.service.ts` with `idempotent.decorator.ts`, on one key. `cell` is the key: absent,
"pending" or the result, named by the call that produced it. `Claim` is SET NX, `Get`/`GetAgain` the two
reads around the wait of 50 ms, then the fallback that runs `fn` without a claim (`fellBack`). Time is not
measured: the wait may end before or after any other step. It is checked with two different functions:
the creation of orders and that of payments.

### OrderCreation
`OrdersService.create` and `doCreate`, `transaction.service.ts`, `transactional.decorator.ts` and the
scheduling of `queue.service.ts`. It EXTENDS `Idempotency` and replaces its function by the round trips of a
transaction (`BeginTx`, `Insert`, `Commit`, `Created`; `txn[c]` is where it stands); every other step of the
service is taken over (`Execute`). `rows` are committed orders, named by the call that inserted
them; `adding` and `scheduled` are their jobs, `lost` and `missed` histories of what failed. `TxFails` rolls
back, `CommitReplyLost` does not, `CrashCreate` kills the process. The variables of
`Idempotency` are the same, and every step is one of its steps or leaves them alone.

### OrderListCache
`findAll` behind `@Cacheable`, on the replica, with `evictCache` in `updateStatus`; composed with
`OrderStore`, whose handlers update the rows. `history[i]` is the i-th state of the table, `since[i]` when
it was reached, `replica` the one the replica shows. `List` is the read of the cache, hit or miss,
`ReadReplica` the query, `Fill` the storing of what was read in the process' `Map`, at whatever later time; `Update` is followed by an
`Evict` of its own. `Tick` does not pass `MaxLag` behind the master nor `MaxLatency` for a page in flight:
both are assumptions about PostgreSQL and its connections, not constants of the code. `Crash` empties the `Map`. `raced` is a history: an
eviction met a page on its way, or a replica behind.

### Billing
`createPayment` with `@Retryable` around `@Idempotent`, `confirmPayment` and `refund`. `Attempts[c]`
are the attempts of call `c`; each is a caller of `Idempotency`, which it EXTENDS, whose function
puts a payment into the Map (`payment`). `Retry` ends a backoff, whose length is not measured. `GoDown`
empties the Map and leaves the keys; until `GoUp` nothing moves and the attempts in progress die.

### Gateway
`JwtAuthGuard`, `RolesGuard`, `ThrottlerGuard`, the validation pipe, the handlers of `AppController`,
`ClientProxyFactoryService.call`, `AllExceptionsFilter`, and `onOrderCreatedRmq` in the orders
service. `kind[r]` is what a request is (handler, token, whether its body is valid, its key);
`stage[r]` what it awaits; `hits` the requests the throttler has counted in its current window. `Authenticate`
and `Verify` await, `Admit` is everything from `RolesGuard` to the first await of the handler, in one go, as
in the code. `Serve` is the orders service, reduced to what it may answer: `OrderCreation` has the details,
as `PaymentSaga` has those of the saga. `Acquire` is the lock of `payOrder`: the saga begins, or the gateway
itself answers 409; `locks` are the orders whose key exists, given back by `SagaEnds`, kept by a failed
release, a crash or a lost reply (`ReleaseFails`, `GatewayCrash`, `AcquireFails`) until `LockExpires`. `event[r]` follows the event of a creation through RabbitMQ:
`emitting`, `ready`, `delivered`, `acked`, `gone`.

### PrismaDemo
`prisma-demo.service.ts` and its controller. A request is the list of its statements; `Execute` runs the next
one against what is committed (READ COMMITTED, PostgreSQL's default, which the code does not change), `Commit`
makes the writes of the batch visible together.

### CircuitBreaker
`circuit-breaker.service.ts` and its decorator, one circuit, several concurrent callers. `Pass` and
`Reject` are what `execute` decides at the beginning; `Succeed`, `Exempt` and `Fail` what it does to the
state of *that later moment* when the guarded function settles.

### Outbox
`outbox.service.ts`. `Drain` are drains that may overlap, of one gateway or of several. `queue` is the
list from the end RPOP and RPUSH work on; `Pop`, `Emit`, `PushBack` are the three awaits of a round.
Faults: publishing rejects (`reject`), nobody listens (`unheard`), Redis rejects (`redis`), a command is
executed twice (`resend`), a gateway dies (`crash`). `heard`, `failed` and `happened` are histories.

## Runs

Each finishes within five minutes on two cores. "violation" means that the run checks one statement
of the repository about itself and TLC finds a behaviour of the code that breaks it.

| run | instance | what it shows |
|---|---|---|
| `store` | 1 order; cancel, two paid events, the job; 1 failing call, 2 crashes | `OneWriterPerVersion`, `ConflictHasWinner`, `CompletedJobSettlesOrder` hold and `ScheduledOrderSettles` |
| `store_autocancel` | as `store`, without failing calls or crashes | violation of `AutoCancelOnlyPending`: an order paid between the job's check and `updateStatus`' own read is cancelled |
| `lock` | 3 owners, ttl 15, interval 5, latency 2, 1 missed renewal | `ImplementsCriticalSection`, `OwnKeyOnly`, `AbandonedKeyExpires` |
| `saga_timeouts` | two runs of one order, auto-cancel, open breaker, 3 faults among acquire, timeout, cancelTimeout, release | `OneRunPerOrder`, `ChargedAtEnqueue`, `RefundHolds`, `AllOrNothing`, `SuccessSettlesOrder` with requests served late and the job at work |
| `saga_ends` | two orders (one of total 0), every kind of fault, one fault | `RunsEnd`, `LocksFreed` |
| `idempotency` | `OrderCreation` with 4 calls of one key, 2 faults, 1 lost COMMIT reply or job, symmetric | `LaterCallsReplay`, `AnsweredOrderExists`, `OneOrder`, `OrderHasJob` |
| `billing` | 2 calls of 3 attempts, 4 faults, 2 restarts | `RetriesCreateOnce`, `AnswerIsKnown`, `ChargedOnce`, `CallsEnd` |
| `list` | one order, a paid event and the job, one fault; 2 readers, lifetime 1, latency 1, time up to 2 | `AnswersAreRecent`, `PagesFollowUpdates` |
| `gateway` | any two requests of the kinds of `MCGateway`, limits 2 and 1, 2 faults | `RefusedWithoutEffect`, `EventIffCreated`, `ThrottledByEntitled`, `Answered`, `ReadyIsHandled` |
| `prisma` | any 4 requests, pages of 1, page 1 or 2, 1 fault, symmetric | `ReadsConsistent`, `ReadsAnswered` |
| `breaker` | 3 callers, threshold 3, recovery 2, 6 exceptions | `CooldownHolds`, `Recovers` |
| `outbox` | 2 messages, 2 drains, 2 retries, 4 faults of 5 kinds | `SingleCopy`, `DroppedAfterRetries`, `HeardOncePerAttempt`, `KeptUnlessRedisFails`, `EventuallySettled` |

Why these bounds are enough:

* A conflict in `updateStatus` needs two handlers of one order, losing twice needs three; handlers of
  different orders share nothing. Two crashes reach BullMQ's second stall, where the job is failed.
* With three owners a third may get the key while a first still has a command in flight to the second's.
  15 / 5 / 2 / 1 satisfies `Timely` with the least slack: (1+1)*5 + 2*2 = 14 < 15. Outside
  `Timely` the exclusion fails, as any lease does, so the bounds are an assumption of the theorems.
* Two runs of one order meet in the lock, or follow each other on one payment; three faults are enough
  to time out the confirmation, the refund and the cancellation of one run, whose requests are then served
  during the next.
* Four calls are a claimant that fails, a fallback, a replay and a late call at once; two faults reach both
  the claim and the storing of a result, the lost reply makes the order of a call that failed.
* In `Billing` four faults fail every attempt of one call and strike once more; the second restart empties a
  Map that was filled after the first. Two calls are a call and one that replays, or overtakes, it.
* The page of `OrderListCache` is in flight over a tick, and what is stored then lives for one more: the
  bound of `AnswersAreRecent` is 2 there, reached within the time the instance has, and proved for every bound. A
  second reader hits what the first has stored.
* Two requests meet at the gateway only in the throttler's window, in the key of a creation, in the lock of an
  order that both pay, and in the consumer. A fault leaves a lock behind, which a later payment finds busy.
* In `PrismaDemo` two creations and two readers of every kind are under way at once; the page has
  one item, so that the second creation makes a second page.
* Threshold 3 and 6 exceptions open a circuit twice; three callers give two stale calls beside the probe.
* Four faults use up the retries of one message (3) and strike once more.

### Fairness

Weak fairness only, of steps the event loop, a timer or an awaited call brings about: an awaited call
settles (`Step`, `Reply`, `Settle`), `setInterval` fires (`Round`, `RenewSend`), time passes
(`Tick`, `LeaseExpires`), a worker takes a due job (`StartJob` in `Step`), billing reads its
connection (`Serve`), a timeout ends a call (`InGateway`), the broker delivers (`InQueue`), billing is
started again after it died (`GoUp`, an assumption about its deployment). Nobody is obliged to create or pay an order, to take a lock, to end the
function under a lock, and no fault is ever obliged to happen. `Recovers` needs callers that go on
calling: a circuit is closed by a call, never by time. Its instance bounds the exceptions, which is its
hypothesis: after the last one the guarded function no longer fails.

Deadlock is checked in every run. Where the modelled work is finite, `Rest` allows the system to stand
still, and only when nothing is left to do for anybody (the bounded clock of `OrderListCache`, whose
properties are safety, stands still with a reader that always may ask again); the lock's clock, the outbox's timer and the
breaker's callers always have a next step.

## Proofs

Each theorem holds for any sets of orders, tasks, runs, owners, callers, messages and any bounds that
satisfy the named ASSUMEs of the component (which TLC evaluates in its runs). Every invariant and every action
property of the passing runs is proved. The type invariants of the
proved modules and the invariants that only support another one (`VersionInv`, `LeaseInv`, `CriticalOwnsKey`,
`AnswersAreGenuine`, `OneEffect`, `PendingHasOwner`, `JobHasOrder`, `ErrorMeansNoOrder`, and that a
call that threw took no effect) are proved and not listed in a run.

* **OrderStore_proofs.** `TypeCorrect`. `NoLostUpdate` and `ConflictsAreReal` rest on `WriterInv`, which
  is both of them with `TypeOK` and `VersionInv`: the overwritten versions of an order are exactly those below its current
  one, and a handler about to write expects a version no newer than the row's and newer than any it
  overwrote itself. Without the second half, "at most one writer per version" is not inductive: a
  handler requeued after a crash might write the same version again. `VersionsAccounted` states the first half. `CompletedJobsSettle` rests on
  `SettledInv`: a PENDING order is still at its first version, so that a job told of a conflict lost to
  somebody who had settled the order, and a handler at its last read has settled it.
* **DistributedLock_proofs.** `CriticalSectionOwnsKey`, `LockExcludes` (mutual exclusion) and
  `Implements` (refinement of `CriticalSection`) rest on `IInv == TypeOK /\ LeaseInv` under
  `Timely == (MaxMissed + 1) * Interval + 2 * MaxLatency < Ttl`. That the key is the owner's is not
  inductive by itself: `LeaseInv` says that the lease left covers the time to the next tick, the
  renewals that may still fail, and the latency of the one that succeeds; `LeaseCovers` states it. `CommandsRespectOwner` needs no
  assumption on timing: renew and release compare the owner, so no command, however late, touches another's
  key.
* **PaymentSaga_proofs.** `UsesOrderStore`: every step of the composition is a step of `OrderStore` or
  leaves it alone, so the theorems about orders hold in the composed system. `NoConcurrentPayment` rests
  on `RunInv` (a run in progress holds the lock of its order), with the assumption that no lease
  is lost under its run, which is what the theorems about the lock give. `TypeCorrect` is about the saga's own
  variables; that only a confirmation is answered "pending" makes it inductive. `AnnouncedIsCharged` and
  `RefundIsKept` rest on `PayInv`, for every kind of fault but the lost lease and runs of an order all on one gateway
  (`OneGateway`; with two it fails, see below). Its heart is `LineInv`: a request on a connection is of a call its
  run has made, and behind a request that its run still awaits there is none about the same order. So once
  a run has its answer no request about the order is left (`Quiet`), those of runs that timed out having
  been served before it, and until the run calls again or gives the lock back nothing changes the payment
  (`PaidInv`). `PaidIffCharged` (`AllOrNothing`) follows an order from its first run to its end, and so needs more than the lock:
  `StoryInv` adds to `PayInv` what results a run may have at which step (`ResultInv`), who can have brought
  an order where it is (`OriginInv`: PAID comes of an event, CANCELLED of a job or of a run's cancel), that a
  run asks for one confirmation (`ConfirmInv`), and of an order with one run that a charge, made or
  still on the connection, is awaited, about to be refunded, or announced, and that an announced one finds the order PENDING
  (`LoneInv`). It is proved for `OneGateway` and `MildFaults`, the faults of run `saga_timeouts` (timeouts and
  lock commands): a crash, or an outbox entry that cannot be written, leaves a charge uncompensated in the code itself
  (see "Other observations"). The number of orders, runs and gateways is arbitrary. `SuccessSettles`
  (`SuccessSettlesOrder`) needs, under the same hypotheses, no lone run: `EventInv` adds to `StoryInv` where the handlers of
  an order stand (a PENDING order is at its first version, so that a paid event which ends, with its update or with a
  conflict, leaves an order that is settled), and `OriginInv` says who can have cancelled it.
* **Idempotency_proofs.** `Genuine` from `GenuineInv` (whatever the key or a call holds was
  executed), whatever fails. `LateReplays` from `ReplayInv` (in calm, once a call has returned the key
  holds a result, and a call begun since then is reading it or has replayed it). `EffectOnce` and `PendingOwned` from
  `OneInv` (without faults there is one claim at a time, a free key means none, and after an effect outside
  the fallback nobody else holds a claim and the key holds a result or is about to). `ThrownWithoutEffect` is
  what makes a retry of a failed call safe. The two users of the service extend it, so their proofs are in this module:
  - *OrderCreation*: `Uses`: every step of the creation is a step of `Idempotency` or leaves it alone,
    so its theorems hold here. `AnsweredExists` from `RowInv`, which relates the effects the
    idempotency service counts to committed rows; `AllOrRolledBack`, `JobsMatchOrders` and `OneOrderPerKey` follow the
    transaction of each call; the last takes `EffectOnce` over.
  - *Billing*: `BillingUsesIdempotency` says the same of retried payments. `RetriesPayOnce` needs
    `RetryInv` (the attempts before the current one have thrown) and that an attempt that threw took no effect;
    `AnswersKnown` needs `Genuine` and `MapInv` (the Map has what was made since the last restart); `ChargesOnce`
    needs `EffectOnce` and that only what was made is charged.
* **OrderListCache_proofs.** `AnswersRecent`: every copy of the table, on the replica, in a reader's hands or in
  the cache, carries the time it was current, and each hop adds at most its own bound. The proof
  uses of the handlers only that an update makes a new state now. `PagesShowUpdates` (`PagesFollowUpdates`) rests on
  `FollowInv`: what the replica shows, now and after what it has still to apply, what a reader holds and
  what the cache holds all show the current statuses, except of an order whose update is about to evict. It
  is not enough to say so of the cache: a page that was read before the update is stored after the
  eviction, which is exactly what `raced` records. An eviction that races nobody finds only copies that are
  made from the table as it is. TLC checked `FollowInv` on the run's instance before it was proved.
* **Gateway_proofs.** `RefusalsAreEmpty` and `EventsMatchAnswers` from `AnswerInv` (until its handler calls a service, or
  has the lock of its order, a request has reached nobody, and only until then is it refused; a creation is answered 201 together with its event), `ThrottlesEntitled`
  from `HitInv` (whoever is counted was found entitled, and stays so).
* **Standalone_proofs.** *CircuitBreaker*: `Cooldown` from the types (`BreakerTypes`).
  *PrismaDemo*: `DemoConsistent` and `DemoServesAnswered` from `DemoInv`. That a page lies within its total is not
  inductive: `ListInv` keeps between the two statements that the page is one of some number of rows which the table, that only grows,
  still has, and `StatsInv` that the first count is not above the table, whose log is always as long.
  `PageCounts` is the arithmetic of pages.
* **Outbox_proofs.** `OneCopy` from `CopyInv` (the messages on the list differ, a busy drain's message is
  enqueued and not on the list, and busy drains have different ones; by lemmas on what
  appending, removing and prepending do to a list). `NoLoss` from `PlaceStep`: a step that is not a Redis rejection
  or a crash moves a message from one of its four places to another. `DroppedExactly` and
  `HeardAgainAfterFailure` from `AttemptInv`: the count in an entry, on the list or in hand, is the number of
  failed attempts, and a message that is held was heard at most so often and is neither published nor given up.
  Without "on the list or in hand" this is not inductive: a drain might count on from a stale entry.

Only model-checked: all liveness (`ScheduledOrderSettles`, `AbandonedKeyExpires`, `RunsEnd`, `LocksFreed`,
`CallsEnd`, `Answered`, `ReadyIsHandled`, `Recovers`, `EventuallySettled`), out of the
prover's reach. `AllOrNothing` and `SuccessSettlesOrder` are proved under the hypotheses named above, which their run satisfies.

## Other observations

Met while modelling; each is a behaviour the models contain, and the properties are stated so as to
say when it can happen rather than to hide it.

* A claimant whose `fn` throws deletes the key even when a fallback has stored its result there
  meanwhile (`idempotency.service.ts:68`), so a later call executes again though
  `idempotent.decorator.ts:22` promises a replay; `LaterCallsReplay` therefore speaks of `Calm`.
* A result that cannot be stored is returned all the same (`idempotency.service.ts:64`).
* Renewals that fail are logged only; `fn` goes on without the lock (`distributed-lock.service.ts:69`).
  With a ttl of 1 s or less the first renewal comes after the expiry (`:67`): `Timely` excludes it.
* A call let through before the circuit opened decides in HALF_OPEN like a probe
  (`circuit-breaker.service.ts:81`).
* The fallback answer CREATED is taken as "not charged" (`payment-saga.service.ts:132`), though an
  earlier run may have charged; nor is the status of the order looked at (`:66`), so an order
  already settled may be paid again. `Undisturbed` restricts `AllOrNothing` to one run per order.
* A gateway that dies after the charge leaves it uncompensated (`payment-saga.service.ts:104`).
* With two gateway processes a late refund of one may meet the next run of the other, on another
  connection (`client-proxy.factory.ts:37`).
* A job whose update fails for any reason completes (`order-timeout.processor.ts:39`): after a database
  error its order stays PENDING; `CompletedJobSettlesOrder` is conditioned on it.
* Publishing to nobody counts as published (`outbox.service.ts:91`): the event of a payment is lost, its order stays PENDING.
* When the outbox entry cannot be written the charge stays and nothing is compensated
  (`payment-saga.service.ts:151`), though the class comment says that all steps are rolled back (`:44`).
* PAYMENT_SUCCEEDED is skipped when a cancellation wins the row (`orders.controller.ts:86`), while the saga has
  reported success: without any fault an order that was charged can end CANCELLED by the auto-cancel job,
  though `payment-saga.service.ts:41` and `:150` promise that it "finally becomes PAID" ("订单最终变 PAID", "订单最终 PAID").
  `SuccessSettlesOrder`, checked with the job at work, says who can be behind an order that is not PAID then: that job, or
  the compensation of another run, and nobody else; an event nobody hears (`outbox.service.ts:91`) is excluded there.
* A success in CLOSED never resets the counter of a circuit (`circuit-breaker.service.ts:81`): as many failures as
  the threshold open it, whatever successes come in between, and failures of calls begun before the circuit was last
  closed count as well. The comments at `:8`, `:15` and `:46`, the log at `:101` and `billing.service.ts:61` say consecutive
  failures ("连续失败"). `CircuitBreaker` has the count as the code keeps it, and no property claims more of it.
* A gateway that dies between RPOP and PUBLISH loses the message (`outbox.service.ts:87`), though
  `outbox.module.ts:18` says that events are persisted first; `KeptUnlessRedisFails` excepts it.
* A creation whose COMMIT reply is lost fails, and a repetition of it makes a second order
  (`transaction.service.ts:47`); one whose process dies before the result is stored is repeated too
  (`idempotency.service.ts:63`).
* Two creations with the same key at once, and a database slower than the 50 ms of the wait, make two
  orders without any fault (`orders.service.ts:48`); a call without a key is not guarded at all.
* A creation that timed out at the gateway may still be made, without an ORDER_CREATED event; a
  replayed one publishes a second event for the same order (`app.controller.ts:73`). RabbitMQ delivers
  again what was not acked, though the comments say an event is consumed once (`orders.controller.ts:98`).
* Every error of another service is answered with 500 (the gateway's own exceptions keep their status, the 409 of a
  busy payment lock included: `distributed-lock.service.ts:105`, `all-exceptions.filter.ts:35`): `errorCodeToHttpStatus` is imported but never called
  (`all-exceptions.filter.ts:25`), and `RpcExceptionFilter` is registered nowhere. A missing Prisma order is a 500 too.
* `billing.controller.ts:46` returns its promise without awaiting it, so its `catch` sees no rejection.
* `RequestIdInterceptor` runs the context with a string where `RequestContext` reads a field
  (`request-id.interceptor.ts:22`, `request-context.ts:22`): the id is always the fallback.
* After a restart of billing a replayed payment id is unknown for as long as its key lives, a day
  (`billing.service.ts:17`); a result that could not be stored lets a later call make another payment.
* The list is evicted "against dirty reads" (`orders.service.ts:93`, `:148`), which a page in flight, a
  replica that lags, an UPDATE whose reply is lost and a creation all escape, for up to 30 s.
* Prisma's `stats` does not always show pairs (`prisma-demo.service.ts:73`): a creation that commits between the
  counts is in the second only.
* `CreateOrderDto` requires the `userId` that the gateway overwrites.

## Not modelled yet, and the plan

In this order:

1. **Composition** - the saga's `outbox` set replaced by `Outbox`, its lock by `CriticalSection`,
   its breaker answer by `CircuitBreaker`, its payments by `Billing`, as refinements of what `PaymentSaga` assumes.
2. **reconciliationScan** counts old PENDING orders and logs them; it changes no state.

Left out for good: signing and verifying tokens, DTO rules, logging, the envelope of answers, request ids and
health checks keep nothing between requests; connection modules are I/O; no code nests `@Transactional`; PostgreSQL, Redis, BullMQ and
RabbitMQ are modelled only by what this code sees of them. Two orders instances would each receive
every Redis pub/sub message (`orders.controller.ts:61`); one is modelled, and a second delivery
is one more task of `OrderStore`.
