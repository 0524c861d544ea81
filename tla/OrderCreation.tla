--------------------------- MODULE OrderCreation ---------------------------
(***************************************************************************)
(* Creating an order: OrdersService.create is @Idempotent, its fn is       *)
(* doCreate, a @Transactional method, followed by the scheduling of the    *)
(* auto-cancel job, which is not awaited.  Extends Idempotency, whose fn   *)
(* becomes the three round trips of a transaction; an order is named by    *)
(* the call that inserted it.                                              *)
(***************************************************************************)
EXTENDS Idempotency, FiniteSets

CONSTANT MaxLost  \* bound: COMMITs whose reply is lost, jobs that cannot be added

ASSUME CreationAssumption == MaxLost \in Nat

VARIABLES
    txn,       \* txn[c]: the transaction of c's fn
    rows,      \* orders committed to the database
    adding,    \* orders whose job is being added
    scheduled, \* orders whose job has been added
    lost,      \* history: calls whose COMMIT was done and answered by an error
    missed     \* history: orders whose job could not be added

dbVars == <<txn, rows, adding, scheduled, lost, missed>>
createVars == <<vars, dbVars>>

-----------------------------------------------------------------------------
CreateInit ==
    /\ Init
    /\ txn = [c \in Caller |-> "none"]
    /\ rows = {}
    /\ adding = {}
    /\ scheduled = {}
    /\ lost = {}
    /\ missed = {}

InFn(c) == pc[c] \in {"running", "again"}

Reaches(c, state) == txn' = [txn EXCEPT ![c] = state]

Failure == Cardinality(lost) + Cardinality(missed) < MaxLost

\* dataSource.transaction: BEGIN on a connection of the pool.
BeginTx(c) ==
    /\ InFn(c) /\ txn[c] = "none"
    /\ Reaches(c, "open")
    /\ UNCHANGED <<vars, rows, adding, scheduled, lost, missed>>

\* repo.save of the transaction's manager.
Insert(c) ==
    /\ InFn(c) /\ txn[c] = "open"
    /\ Reaches(c, "written")
    /\ UNCHANGED <<vars, rows, adding, scheduled, lost, missed>>

\* The database has done the COMMIT; its reply is on the way.
Commit(c) ==
    /\ InFn(c) /\ txn[c] = "written"
    /\ Reaches(c, "committed")
    /\ rows' = rows \cup {c}
    /\ UNCHANGED <<vars, adding, scheduled, lost, missed>>

\* Mutant of Created: the order is returned and no job is added.
CreatedUnscheduled(c) ==
    /\ txn[c] = "committed" /\ FnReturns(c)
    /\ Reaches(c, "none")
    /\ UNCHANGED <<rows, adding, scheduled, lost, missed>>

\* Mutant of Created: fn returns without waiting for the COMMIT, which then fails.
CreatedUnawaited(c) ==
    /\ txn[c] = "written" /\ FnReturns(c)
    /\ Reaches(c, "none")
    /\ adding' = adding \cup {c}
    /\ UNCHANGED <<rows, scheduled, lost, missed>>

\* The COMMIT is answered: the job is being added, and fn returns the order.
Created(c) ==
    /\ txn[c] = "committed" /\ FnReturns(c)
    /\ Reaches(c, "none")
    /\ adding' = adding \cup {c}
    /\ UNCHANGED <<rows, scheduled, lost, missed>>

\* BEGIN, INSERT or COMMIT rejects: the transaction is rolled back, fn throws.
TxFails(c) ==
    /\ txn[c] # "committed" /\ FnFails(c)
    /\ Reaches(c, "none")
    /\ UNCHANGED <<rows, adding, scheduled, lost, missed>>

\* The connection breaks after the COMMIT was done: fn throws, the order is there.
CommitReplyLost(c) ==
    /\ txn[c] = "committed" /\ FnFails(c)
    /\ Failure
    /\ lost' = lost \cup {c}
    /\ Reaches(c, "none")
    /\ UNCHANGED <<rows, adding, scheduled, missed>>

\* queue.add resolves.
JobAdded(c) ==
    /\ c \in adding
    /\ adding' = adding \ {c}
    /\ scheduled' = scheduled \cup {c}
    /\ UNCHANGED <<vars, txn, rows, lost, missed>>

\* queue.add rejects, or its process dies, whether or not Redis has the job: a warning.
JobFails(c) ==
    /\ c \in adding
    /\ Failure
    /\ missed' = missed \cup {c}
    /\ adding' = adding \ {c}
    /\ scheduled' \in {scheduled, scheduled \cup {c}}
    /\ UNCHANGED <<vars, txn, rows, lost>>

\* The process of c dies: its transaction is rolled back, unless it is committed.
CrashCreate(c) ==
    /\ Crash(c)
    /\ Reaches(c, "none")
    /\ adding' = adding \ {c}
    /\ missed' = missed \cup (adding \cap {c})
    /\ scheduled' \in {scheduled, scheduled \cup (adding \cap {c})}
    /\ UNCHANGED <<rows, lost>>

\* What does not concern fn is as in Idempotency.
Execute(c) ==
    /\ \/ Claim(c) \/ Store(c) \/ Clear(c) \/ Get(c) \/ GetAgain(c)
       \/ ClaimFails(c) \/ ClaimResent(c) \/ StoreFails(c) \/ ClearFails(c) \/ GetFails(c)
    /\ UNCHANGED dbVars

CreateStep(c) ==
    \/ BeginTx(c) \/ Insert(c) \/ Commit(c) \/ Created(c)
    \/ TxFails(c) \/ CommitReplyLost(c) \/ JobAdded(c) \/ JobFails(c) \/ CrashCreate(c)

CreateNext ==
    \/ \E c \in Caller : Execute(c) \/ CreateStep(c)
    \/ Expire /\ UNCHANGED dbVars
    \/ Rest /\ adding = {} /\ UNCHANGED dbVars

CreateSpec == CreateInit /\ [][CreateNext]_createVars

-----------------------------------------------------------------------------
CreateTypeOK ==
    /\ txn \in [Caller -> {"none", "open", "written", "committed"}]
    /\ rows \subseteq Caller /\ adding \subseteq Caller /\ scheduled \subseteq Caller
    /\ lost \subseteq Caller /\ missed \subseteq Caller

\* Whoever is answered, first or in a replay, is given an order that is in the
\* database, whatever fails, crashes or expires.
AnsweredOrderExists == \A c \in Caller : pc[c] \in Returned => data[c] \in rows

\* An error means that no order was created ("all or rolled back"), unless the
\* reply of its COMMIT was lost; a job that cannot be scheduled makes no error.
ErrorMeansNoOrder == \A c \in rows : pc[c] \in {"clear", "threw"} => c \in lost

\* "The same idempotencyKey creates one order only", as far as it goes: beside the
\* fallback's and those of a lost reply there is one, unless there were faults.
OneOrder == faults = 0 => \A c, d \in rows \ (fellBack \cup lost) : c = d

\* A job is scheduled only for an order that is there when the job looks for it.
JobHasOrder == adding \cup scheduled \subseteq rows

\* Every order is scheduled to be cancelled, or about to be, unless the reply of its
\* COMMIT was lost, its job could not be added, or its process died before.
OrderHasJob ==
    \A c \in rows : \/ c \in scheduled \cup adding \cup lost \cup missed
                    \/ txn[c] = "committed" \/ pc[c] = "crashed"
=============================================================================
