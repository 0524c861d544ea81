----------------------------- MODULE OrderStore -----------------------------
(***************************************************************************)
(* The orders service: the orders table with its @VersionColumn, the three *)
(* handlers that end in updateStatus (the ORDER_CANCEL request, the        *)
(* PAYMENT_SUCCEEDED event, the auto-cancel job of BullMQ) and the         *)
(* scheduling of that job.  Every await of a handler is a step of its own, *)
(* so handlers interleave at their database calls.                         *)
(*                                                                         *)
(* A task is one delivery to a handler.  Kind says which handler runs it:  *)
(*   "cancel"   OrdersController.cancel                                    *)
(*   "paid"     OrdersController.onPaymentSucceeded                        *)
(*   "timeout"  OrderTimeoutProcessor.process                              *)
(***************************************************************************)
EXTENDS Naturals, FiniteSets

CONSTANTS
    Order,       \* order ids
    Task,        \* deliveries to the handlers
    Kind,        \* Kind[t]: the handler that runs t
    Target,      \* Target[t]: the order t is about
    MaxDbFaults, \* bound: database calls that reject
    MaxCrashes   \* bound: crashes of the orders process

ASSUME TaskAssumption ==
    /\ Kind \in [Task -> {"cancel", "paid", "timeout"}]
    /\ Target \in [Task -> Order]

ASSUME BoundAssumption == MaxDbFaults \in Nat /\ MaxCrashes \in Nat

VARIABLES
    status,   \* status[o]: the column, "NONE" when there is no row
    version,  \* version[o]: the @VersionColumn, 0 when there is no row
    job,      \* job[o]: the auto-cancel job of o
    stalled,  \* orders whose job was already requeued by a crash
    pc,       \* pc[t]: the database call t awaits, or how it ended
    expected, \* expected[t]: entity.version as read by updateStatus
    writer,   \* history: writer[o] has <<v, t>> when t's UPDATE overwrote v
    dbFaults, crashes

vars == <<status, version, job, stalled, pc, expected, writer, dbFaults, crashes>>

-----------------------------------------------------------------------------
Statuses == {"NONE", "PENDING", "PAID", "CANCELLED"}
JobStates == {"none", "adding", "delayed", "active", "completed", "failed"}
Awaiting == {"lookup", "find", "update", "reread"}
Ended == {"ok", "conflict", "failed", "skipped", "aborted", "dead"}
PCs == {"idle"} \cup Awaiting \cup Ended

Init ==
    /\ status = [o \in Order |-> "NONE"]
    /\ version = [o \in Order |-> 0]
    /\ job = [o \in Order |-> "none"]
    /\ stalled = {}
    /\ pc = [t \in Task |-> "idle"]
    /\ expected = [t \in Task |-> 0]
    /\ writer = [o \in Order |-> {}]
    /\ dbFaults = 0
    /\ crashes = 0

\* The status each handler asks updateStatus for.
NewStatus(t) == IF Kind[t] = "paid" THEN "PAID" ELSE "CANCELLED"

\* The handler of t returns (or throws) with outcome e.  The process() of a
\* job never throws once it has called updateStatus, so the job completes.
End(t, e) ==
    /\ pc' = [pc EXCEPT ![t] = e]
    /\ job' = IF Kind[t] = "timeout"
              THEN [job EXCEPT ![Target[t]] =
                        IF e = "aborted" THEN "failed" ELSE "completed"]
              ELSE job

Goto(t, next) == pc' = [pc EXCEPT ![t] = next] /\ UNCHANGED job

\* The effect of the UPDATE statement on a row whose version matches: the
\* entity's version column is incremented with it.
Write(t) ==
    LET o == Target[t] IN
    /\ status' = [status EXCEPT ![o] = NewStatus(t)]
    /\ version' = [version EXCEPT ![o] = @ + 1]
    /\ writer' = [writer EXCEPT ![o] = @ \cup {<<expected[t], t>>}]

NoWrite == UNCHANGED <<status, version, writer>>

\* Mutant of VersionMatches: UPDATE ... WHERE id = :id only.
VersionUnchecked(t) == TRUE

\* The condition of the UPDATE in updateStatus.
VersionMatches(t) == expected[t] = version[Target[t]]

-----------------------------------------------------------------------------
\* create / doCreate: the row is committed and the job is being added.
Create(o) ==
    /\ status[o] = "NONE"
    /\ status' = [status EXCEPT ![o] = "PENDING"]
    /\ version' = [version EXCEPT ![o] = 1]
    /\ job' = [job EXCEPT ![o] = "adding"]
    /\ UNCHANGED <<stalled, pc, expected, writer, dbFaults, crashes>>

\* queue.add settles: the job is in Redis, or the failure is only logged.
ScheduleSettles(o, outcome) ==
    /\ job[o] = "adding"
    /\ job' = [job EXCEPT ![o] = outcome]
    /\ UNCHANGED <<status, version, stalled, pc, expected, writer, dbFaults, crashes>>

\* A request or an event reaches its handler, which calls updateStatus.
Receive(t) ==
    /\ Kind[t] # "timeout"
    /\ pc[t] = "idle"
    /\ Goto(t, "find")
    /\ UNCHANGED <<status, version, stalled, expected, writer, dbFaults, crashes>>

\* The delay is over and a worker takes the job.
StartJob(t) ==
    /\ Kind[t] = "timeout"
    /\ pc[t] = "idle"
    /\ job[Target[t]] = "delayed"
    /\ pc' = [pc EXCEPT ![t] = "lookup"]
    /\ job' = [job EXCEPT ![Target[t]] = "active"]
    /\ UNCHANGED <<status, version, stalled, expected, writer, dbFaults, crashes>>

\* Mutant of Lookup: the test of the status is inverted.
LookupInverted(t) ==
    /\ pc[t] = "lookup"
    /\ \/ status[Target[t]] # "PENDING" /\ Goto(t, "find")
       \/ status[Target[t]] = "PENDING" /\ End(t, "skipped")
    /\ UNCHANGED <<status, version, stalled, expected, writer, dbFaults, crashes>>

\* process: the order is read again; it goes on only for a PENDING one.
Lookup(t) ==
    /\ pc[t] = "lookup"
    /\ \/ status[Target[t]] = "PENDING" /\ Goto(t, "find")
       \/ status[Target[t]] # "PENDING" /\ End(t, "skipped")
    /\ UNCHANGED <<status, version, stalled, expected, writer, dbFaults, crashes>>

\* Mutant of Find: the version expected is that of the error message.
FindNextVersion(t) ==
    /\ pc[t] = "find"
    /\ status[Target[t]] # "NONE"
    /\ Goto(t, "update")
    /\ expected' = [expected EXCEPT ![t] = version[Target[t]] + 1]
    /\ UNCHANGED <<status, version, stalled, writer, dbFaults, crashes>>

\* updateStatus: the entity is read, and with it the expected version.
Find(t) ==
    /\ pc[t] = "find"
    /\ \/ /\ status[Target[t]] = "NONE"
          /\ End(t, "failed")
          /\ UNCHANGED expected
       \/ /\ status[Target[t]] # "NONE"
          /\ Goto(t, "update")
          /\ expected' = [expected EXCEPT ![t] = version[Target[t]]]
    /\ UNCHANGED <<status, version, stalled, writer, dbFaults, crashes>>

\* updateStatus: UPDATE ... WHERE id = :id AND version = :expected.
Update(t) ==
    /\ pc[t] = "update"
    /\ \/ VersionMatches(t) /\ Write(t) /\ Goto(t, "reread")
       \/ ~VersionMatches(t) /\ NoWrite /\ End(t, "conflict")
    /\ UNCHANGED <<stalled, expected, dbFaults, crashes>>

\* updateStatus: the fresh row is read for the reply.
Reread(t) ==
    /\ pc[t] = "reread"
    /\ End(t, "ok")
    /\ UNCHANGED <<status, version, stalled, expected, writer, dbFaults, crashes>>

\* The awaited database call rejects.  An UPDATE may have been applied all
\* the same.  A failed first lookup fails the job (attempts: 1); any other
\* error is an error reply, a log line, or swallowed by process().
DbFault(t) ==
    /\ pc[t] \in Awaiting
    /\ dbFaults < MaxDbFaults
    /\ dbFaults' = dbFaults + 1
    /\ End(t, IF pc[t] = "lookup" THEN "aborted" ELSE "failed")
    /\ \/ NoWrite
       \/ pc[t] = "update" /\ VersionMatches(t) /\ Write(t)
    /\ UNCHANGED <<stalled, expected, crashes>>

\* The orders process crashes and restarts.  Requests and events in hand are
\* gone, an active job is requeued once by the stalled check and then failed,
\* a job that was being added is in Redis or it is not.
Requeued(t) == Kind[t] = "timeout" /\ pc[t] \in Awaiting /\ Target[t] \notin stalled

\* Mutant of Crash: a job that was active is never requeued.
CrashDropsJob ==
    /\ crashes < MaxCrashes
    /\ crashes' = crashes + 1
    /\ job' = [o \in Order |-> IF job[o] \in {"adding", "active"} THEN "failed" ELSE job[o]]
    /\ pc' = [t \in Task |-> IF pc[t] \in Awaiting THEN "dead" ELSE pc[t]]
    /\ UNCHANGED <<status, version, stalled, expected, writer, dbFaults>>

Crash ==
    /\ crashes < MaxCrashes
    /\ crashes' = crashes + 1
    /\ \E added \in SUBSET {o \in Order : job[o] = "adding"} :
          job' = [o \in Order |->
                    CASE job[o] = "adding" -> IF o \in added THEN "delayed" ELSE "none"
                      [] job[o] = "active" -> IF o \in stalled THEN "failed" ELSE "delayed"
                      [] OTHER -> job[o]]
    /\ stalled' = stalled \cup {o \in Order : job[o] = "active"}
    /\ pc' = [t \in Task |->
                 IF Requeued(t) THEN "idle"
                 ELSE IF pc[t] \in Awaiting THEN "dead" ELSE pc[t]]
    /\ UNCHANGED <<status, version, expected, writer, dbFaults>>

\* Every order exists, every delivery was handled and no job is left.
Rest ==
    /\ \A o \in Order : status[o] # "NONE" /\ job[o] \notin {"adding", "delayed"}
    /\ \A t \in Task : pc[t] \in Ended \/ (Kind[t] = "timeout" /\ pc[t] = "idle")
    /\ UNCHANGED vars

Schedule(o) == ScheduleSettles(o, "delayed") \/ ScheduleSettles(o, "none")

Step(t) == StartJob(t) \/ Lookup(t) \/ Find(t) \/ Update(t) \/ Reread(t)

Next ==
    \/ \E o \in Order : Create(o) \/ Schedule(o)
    \/ \E t \in Task : Receive(t) \/ Step(t) \/ DbFault(t)
    \/ Crash
    \/ Rest

Spec == Init /\ [][Next]_vars

\* A handler's awaited call settles and a worker takes a due job; that an
\* order is created, or a message arrives, is up to the outside.
FairSpec ==
    /\ Spec
    /\ \A t \in Task : WF_vars(Step(t))
    /\ \A o \in Order : WF_vars(Schedule(o))

-----------------------------------------------------------------------------
TypeOK ==
    /\ status \in [Order -> Statuses]
    /\ version \in [Order -> Nat]
    /\ job \in [Order -> JobStates]
    /\ stalled \subseteq Order
    /\ pc \in [Task -> PCs]
    /\ expected \in [Task -> Nat]
    /\ writer \in [Order -> SUBSET (Nat \X Task)]
    /\ dbFaults \in 0..MaxDbFaults
    /\ crashes \in 0..MaxCrashes

\* No lost update: of all the handlers that read one version of an order, at
\* most one overwrites it (WHERE version = :expected in updateStatus).
OneWriterPerVersion ==
    \A o \in Order : \A a, b \in writer[o] : a[1] = b[1] => a = b

\* A handler that is told of a version conflict did lose to somebody: another
\* delivery overwrote exactly the version it had read ("the other side has
\* already updated it", OrdersController.onPaymentSucceeded).
ConflictHasWinner ==
    \A t \in Task : pc[t] = "conflict" =>
        \E w \in writer[Target[t]] : w[1] = expected[t] /\ w[2] # t

\* Why the two hold: the overwritten versions of an order are exactly those
\* below its current one, and a handler about to write expects a version no
\* newer than the row's and newer than any it has itself overwritten.
VersionInv ==
    /\ \A o \in Order :
          /\ status[o] = "NONE" <=> version[o] = 0
          /\ \A w \in writer[o] : w[1] > 0 /\ w[1] < version[o]
          /\ \A v \in 1..(version[o] - 1) : \E w \in writer[o] : w[1] = v
    /\ \A t \in Task : pc[t] = "update" =>
          /\ expected[t] > 0
          /\ expected[t] <= version[Target[t]]
          /\ \A w \in writer[Target[t]] : w[2] = t => w[1] < expected[t]

\* As long as no database call has failed, an auto-cancel job that completed leaves
\* a settled order, however its process() ended: cancelled, skipped, or beaten by
\* a concurrent update.
CompletedJobSettlesOrder ==
    dbFaults = 0 => \A o \in Order : job[o] = "completed" => status[o] # "PENDING"

\* The auto-cancel cancels an order only out of PENDING: paid orders are left
\* alone (class comment of OrderTimeoutProcessor).
AutoCancelOnlyPending ==
    [][\A t \in Task : Kind[t] = "timeout" =>
         LET o == Target[t] IN
         writer'[o] # writer[o] /\ <<version[o], t>> \in writer'[o]
             => status[o] = "PENDING"]_vars

\* Once its auto-cancel job is in Redis, an order does not stay PENDING forever,
\* through a crash of the worker and through conflicts with other handlers; only
\* a failing database call or a second crash can keep it there.
ScheduledOrderSettles ==
    \A o \in Order :
        job[o] = "delayed" ~> status[o] # "PENDING" \/ dbFaults > 0 \/ crashes > 1
=============================================================================
