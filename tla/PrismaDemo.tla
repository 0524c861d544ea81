----------------------------- MODULE PrismaDemo -----------------------------
(***************************************************************************)
(* PrismaDemoService: every request is one batch $transaction (get: one    *)
(* statement), whose statements run one after the other and each see what  *)
(* is committed when they run (READ COMMITTED, PostgreSQL's default).      *)
(* An order and its audit entry are named by the request creating them.    *)
(***************************************************************************)
EXTENDS Integers, Sequences, FiniteSets

CONSTANTS
    Req,       \* requests
    PageSize,
    MaxPage,   \* bound: pages asked for
    MaxFaults  \* bound: rejected statements, lost replies and deaths

ASSUME PrismaAssumption ==
    /\ PageSize \in Nat \ {0} /\ MaxPage \in Nat \ {0} /\ MaxFaults \in Nat

VARIABLES
    kind,   \* kind[r]: the pattern it is sent to, "create", "list", "get" or "stats"
    stage,  \* stage[r]: "idle", "open", "committed", "answered", "error" or "gone"
    done,   \* done[r]: statements that have run
    arg,    \* arg[r]: the page or the order r asks for (0: nothing, an unknown id)
    result, \* result[r]: what the statements returned
    rows,   \* committed rows of orders
    logs,   \* committed rows of the audit log
    seen,   \* history: the creations that had been answered when r was sent
    faults

demoVars == <<kind, stage, done, arg, result, rows, logs, seen, faults>>

-----------------------------------------------------------------------------
Creation == {r \in Req : kind[r] = "create"}

Reading == {"findMany", "findUnique", "count", "countLogs"}

Args(r) ==
    CASE kind[r] = "list" -> 1..MaxPage
      [] kind[r] = "get" -> Creation \cup {0}
      [] OTHER -> {0}

Kind == {"create", "list", "get", "stats"}

DemoInit ==
    /\ kind \in [Req -> Kind]
    /\ stage = [r \in Req |-> "idle"]
    /\ done = [r \in Req |-> 0]
    /\ arg = [r \in Req |-> 0]
    /\ result = [r \in Req |-> [s \in Reading |-> 0]]
    /\ rows = {} /\ logs = {}
    /\ seen = [r \in Req |-> {}]
    /\ faults = 0

CreateOrder == <<"insertOrder", "insertLog">>

ListOrders == <<"findMany", "count">>

GetOrder == <<"findUnique">>

\* Mutant of Stats: the audit log is counted first.
StatsLogsFirst == <<"countLogs", "count">>

Stats == <<"count", "countLogs">>

\* The controller's four patterns.
Statements(r) ==
    CASE kind[r] = "create" -> CreateOrder
      [] kind[r] = "list" -> ListOrders
      [] kind[r] = "get" -> GetOrder
      [] kind[r] = "stats" -> Stats

\* How many of n rows are on page p (skip, take).
Page(n, p) == Cardinality({i \in 1..n : (p - 1) * PageSize < i /\ i <= p * PageSize})

TotalPages(n) == (n + PageSize - 1) \div PageSize

Value(r, s) ==
    CASE s = "findMany" -> Page(Cardinality(rows), arg[r])
      [] s = "findUnique" -> IF arg[r] \in rows THEN 1 ELSE 0
      [] s = "count" -> Cardinality(rows)
      [] s = "countLogs" -> Cardinality(logs)

Completed(r) == done[r] = Len(Statements(r))

Reaches(r, s) == stage' = [stage EXCEPT ![r] = s]

Fault == faults < MaxFaults /\ faults' = faults + 1

-----------------------------------------------------------------------------
Send(r) ==
    /\ stage[r] = "idle"
    /\ Reaches(r, "open")
    /\ \E a \in Args(r) : arg' = [arg EXCEPT ![r] = a]
    /\ seen' = [seen EXCEPT ![r] = {c \in Creation : stage[c] = "answered"}]
    /\ UNCHANGED <<kind, done, result, rows, logs, faults>>

\* The next statement of the batch; an INSERT shows at the COMMIT.
Execute(r) ==
    /\ stage[r] = "open" /\ ~Completed(r)
    /\ done' = [done EXCEPT ![r] = @ + 1]
    /\ LET s == Statements(r)[done[r] + 1] IN
        result' = IF s \in Reading THEN [result EXCEPT ![r][s] = Value(r, s)] ELSE result
    /\ UNCHANGED <<kind, stage, arg, rows, logs, seen, faults>>

Commit(r) ==
    /\ stage[r] = "open" /\ Completed(r)
    /\ Reaches(r, "committed")
    /\ rows' = rows \cup ({r} \cap Creation)
    /\ logs' = logs \cup ({r} \cap Creation)
    /\ UNCHANGED <<kind, done, arg, result, seen, faults>>

\* Mutant of Respond: the transaction is not awaited.
RespondUnawaited(r) ==
    /\ stage[r] \in {"open", "committed"} /\ Completed(r)
    /\ Reaches(r, "answered")
    /\ UNCHANGED <<kind, done, arg, result, rows, logs, seen, faults>>

\* The $transaction resolves: the order, the page, the counts are returned.
Respond(r) ==
    /\ stage[r] = "committed"
    /\ Reaches(r, "answered")
    /\ UNCHANGED <<kind, done, arg, result, rows, logs, seen, faults>>

\* A statement or the COMMIT fails: the transaction is rolled back and rejects.
RollBack(r) ==
    /\ stage[r] = "open"
    /\ Fault
    /\ Reaches(r, "error")
    /\ UNCHANGED <<kind, done, arg, result, rows, logs, seen>>

\* The connection breaks between the COMMIT and its reply.
ReplyLost(r) ==
    /\ stage[r] = "committed"
    /\ Fault
    /\ Reaches(r, "error")
    /\ UNCHANGED <<kind, done, arg, result, rows, logs, seen>>

\* The orders process dies: what is not committed is rolled back, nobody is answered.
Die ==
    /\ \E r \in Req : stage[r] \in {"open", "committed"}
    /\ Fault
    /\ stage' = [r \in Req |-> IF stage[r] \in {"open", "committed"} THEN "gone" ELSE stage[r]]
    /\ UNCHANGED <<kind, done, arg, result, rows, logs, seen>>

Rest ==
    /\ \A r \in Req : stage[r] \in {"answered", "error", "gone"}
    /\ UNCHANGED demoVars

DemoNext ==
    \/ \E r \in Req : Send(r) \/ Execute(r) \/ Commit(r) \/ Respond(r) \/ RollBack(r) \/ ReplyLost(r)
    \/ Die \/ Rest

DemoSpec == DemoInit /\ [][DemoNext]_demoVars

-----------------------------------------------------------------------------
Answered(r, k) == stage[r] = "answered" /\ kind[r] = k

\* stats may show more audit entries than orders, when a creation commits between
\* its two counts, and never fewer.
StatsNotAhead ==
    \A r \in Req : Answered(r, "stats") => result[r]["count"] <= result[r]["countLogs"]

\* A page that has items is one of the totalPages, and its items are within the total,
\* whatever commits between the page and the count.
PageWithinTotal ==
    \A r \in Req : Answered(r, "list") /\ result[r]["findMany"] > 0 =>
        /\ arg[r] <= TotalPages(result[r]["count"])
        /\ (arg[r] - 1) * PageSize + result[r]["findMany"] <= result[r]["count"]

\* What list and stats answer is consistent, though each of their statements sees
\* another state of the tables, and though transactions are rolled back and processes
\* die.
ReadsConsistent == StatsNotAhead /\ PageWithinTotal

\* A request sent after a creation was answered is served with that order in it.
ReadsAnswered ==
    \A r \in Req :
        /\ Answered(r, "get") /\ arg[r] \in seen[r] => result[r]["findUnique"] = 1
        /\ Answered(r, "list") \/ Answered(r, "stats") =>
               result[r]["count"] >= Cardinality(seen[r])
=============================================================================
