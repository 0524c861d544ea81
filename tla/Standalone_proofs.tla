------------------------- MODULE Standalone_proofs -------------------------
(***************************************************************************)
(* Proofs about the two components that neither use another one nor are    *)
(* used by one in the models: the circuit breaker and the Prisma demo.     *)
(***************************************************************************)
EXTENDS CircuitBreaker, PrismaDemo, FiniteSetTheorems, TLAPS

-----------------------------------------------------------------------------
(* CircuitBreaker *)

\* Initially the variables have their types.
LEMMA BreakerInit == Init => TypeOK
BY BreakerAssumption DEF BreakerAssumption, Init, TypeOK, InFlight, Answers

\* A call that settles keeps the types, and leaves a cooling circuit open.
LEMMA SettleKeeps ==
    ASSUME TypeOK, NEW c \in Call, Settle(c)
    PROVE  /\ TypeOK'
           /\ Cooling => state' = "OPEN" /\ cool' = cool
<1> USE BreakerAssumption DEF BreakerAssumption, TypeOK, InFlight, Answers, Goto, Cooling
<1>1. CASE Succeed(c)
      BY <1>1 DEF Succeed
<1>2. CASE Exempt(c)
      BY <1>2 DEF Exempt, Throws
<1>3. CASE Fail(c)
  <2>1. /\ thrown' \in 0..MaxThrown
        /\ pc' \in [Call -> InFlight \cup Answers]
        BY <1>3 DEF Fail, Throws
  <2>2. CASE state = "HALF_OPEN"
        BY <1>3, <2>1, <2>2 DEF Fail, Opens
  <2>3. CASE state = "CLOSED"
        BY <1>3, <2>1, <2>3 DEF Fail, Opens
  <2>4. CASE state = "OPEN"
        BY <1>3, <2>1, <2>4 DEF Fail
  <2> QED
      BY <2>2, <2>3, <2>4
<1> QED
    BY <1>1, <1>2, <1>3 DEF Settle

\* Every step keeps the types, and leaves a cooling circuit open without more to wait.
LEMMA BreakerStep ==
    ASSUME TypeOK, [Next]_vars
    PROVE  /\ TypeOK'
           /\ Cooling => state' = "OPEN" /\ (cool' = cool \/ cool' = cool - 1)
<1>1. ASSUME NEW c \in Call, Settle(c)
      PROVE  TypeOK' /\ (Cooling => state' = "OPEN" /\ cool' = cool)
      BY <1>1, SettleKeeps
<1> USE BreakerAssumption DEF BreakerAssumption, TypeOK, InFlight, Answers, Goto, Cooling
<1>2. ASSUME NEW c \in Call, Reject(c)
      PROVE  TypeOK' /\ state' = state /\ cool' = cool
      BY <1>2 DEF Reject
<1>3. ASSUME NEW c \in Call, Pass(c)
      PROVE  TypeOK' /\ ~Cooling
      BY <1>3 DEF Pass
<1>4. CASE Tick
      BY <1>4 DEF Tick
<1>5. CASE UNCHANGED vars
      BY <1>5 DEF vars
<1> QED
    BY <1>1, <1>2, <1>3, <1>4, <1>5 DEF Next, Begin

\* The variables of a circuit keep their types, for any callers, threshold and timeout.
THEOREM BreakerTypes == Spec => []TypeOK
BY BreakerInit, BreakerStep, PTL DEF Spec

\* Nothing but the clock ends a cooldown, and nothing extends it.
THEOREM Cooldown == Spec => CooldownHolds
<1>1. TypeOK /\ [Next]_vars => TypeOK'
      BY BreakerStep
<1>2. TypeOK /\ [Next]_vars =>
          [Cooling => state' = "OPEN" /\ (cool' = cool \/ cool' = cool - 1)]_vars
      BY BreakerStep
<1>3. Init => TypeOK
      BY BreakerInit
<1> QED
    BY <1>1, <1>2, <1>3, PTL DEF Spec, CooldownHolds

-----------------------------------------------------------------------------
(* PrismaDemo *)

\* Items between f and n.
LEMMA ItemsBetween ==
    ASSUME NEW f \in Nat, NEW n \in Nat, NEW S, S \subseteq (f + 1)..n
    PROVE  Cardinality(S) \in Nat /\ (Cardinality(S) > 0 => f + Cardinality(S) <= n)
<1>1. f + 1 \in Int /\ n \in Int
      OBVIOUS
<1>2. /\ IsFiniteSet((f + 1)..n)
      /\ Cardinality((f + 1)..n) = IF f + 1 > n THEN 0 ELSE n - (f + 1) + 1
      BY <1>1, FS_Interval
<1>3. Cardinality(S) <= Cardinality((f + 1)..n) /\ Cardinality(S) \in Nat
      BY <1>2, FS_Subset, FS_CardinalityType
<1> QED
    BY <1>2, <1>3

\* A page that has items begins within the rows, and ends there.
LEMMA PageBounds ==
    ASSUME NEW n \in Nat, NEW p \in Nat \ {0}, PageSize \in Nat \ {0}
    PROVE  /\ Page(n, p) \in Nat
           /\ Page(n, p) > 0 => (p - 1) * PageSize + Page(n, p) <= n
<1> DEFINE first == (p - 1) * PageSize
           items == {i \in 1..n : first < i /\ i <= p * PageSize}
<1>1. first \in Nat /\ items \subseteq (first + 1)..n
      OBVIOUS
<1>2. Page(n, p) = Cardinality(items)
      BY DEF Page
<1> HIDE DEF first, items
<1>3. Cardinality(items) \in Nat /\ (Cardinality(items) > 0 => first + Cardinality(items) <= n)
      BY <1>1, ItemsBetween
<1> QED
    BY <1>2, <1>3 DEF first

\* Such a page is one of the totalPages of any count of rows that is not smaller.
LEMMA PageCounts ==
    ASSUME NEW n \in Nat, NEW p \in Nat \ {0}, PageSize \in Nat \ {0}, Page(n, p) > 0,
           NEW m \in Nat, n <= m
    PROVE  p <= TotalPages(m) /\ (p - 1) * PageSize + Page(n, p) <= m
<1>1. /\ Page(n, p) \in Nat /\ (p - 1) * PageSize \in Nat
      /\ (p - 1) * PageSize + Page(n, p) <= m
      BY PageBounds
<1>2. p * PageSize <= m + PageSize - 1 /\ m + PageSize - 1 \in Nat
      BY <1>1
<1>3. \A x \in Nat, y \in Nat \ {0} : p * y <= x => p <= x \div y
      OBVIOUS
<1> QED
    BY <1>1, <1>2, <1>3 DEF TotalPages

DemoTypes ==
    /\ kind \in [Req -> Kind]
    /\ stage \in [Req -> {"idle", "open", "committed", "answered", "error", "gone"}]
    /\ done \in [Req -> Nat]
    /\ arg \in [Req -> (1..MaxPage) \cup Req \cup {0}]
    /\ result \in [Req -> [Reading -> Nat]]
    /\ seen \in [Req -> SUBSET Req]
    /\ rows \subseteq Req /\ IsFiniteSet(rows)
    /\ logs = rows

\* What a request has done by its stage; a creation that is answered is committed, so
\* that what a request has seen answered is in the table when it is served.
StageInv(r) ==
    /\ stage[r] = "idle" => done[r] = 0
    /\ stage[r] # "idle" => /\ seen[r] \subseteq rows
                            /\ kind[r] = "list" => arg[r] \in 1..MaxPage
    /\ done[r] <= Len(Statements(r))
    /\ stage[r] \in {"committed", "answered"} =>
           /\ done[r] = Len(Statements(r))
           /\ kind[r] = "create" => r \in rows

\* The page is one of n rows, and the count came later.
ListInv(r) ==
    kind[r] = "list" =>
        /\ done[r] >= 1 => \E n \in Nat :
               /\ result[r]["findMany"] = Page(n, arg[r])
               /\ n <= Cardinality(rows)
               /\ done[r] = 2 => n <= result[r]["count"]
        /\ done[r] = 2 => Cardinality(seen[r]) <= result[r]["count"]

StatsInv(r) ==
    kind[r] = "stats" =>
        /\ done[r] >= 1 => /\ Cardinality(seen[r]) <= result[r]["count"]
                           /\ result[r]["count"] <= Cardinality(rows)
        /\ done[r] = 2 => result[r]["count"] <= result[r]["countLogs"]

GetInv(r) ==
    kind[r] = "get" /\ done[r] >= 1 /\ arg[r] \in seen[r] => result[r]["findUnique"] = 1

ReadInv(r) == StageInv(r) /\ ListInv(r) /\ StatsInv(r) /\ GetInv(r)

DemoInv == DemoTypes /\ \A r \in Req : ReadInv(r)

\* The statements of the four kinds.
LEMMA StatementsOf ==
    ASSUME NEW r \in Req, DemoTypes
    PROVE  /\ kind[r] = "create" => Statements(r) = <<"insertOrder", "insertLog">>
           /\ kind[r] = "list" => Statements(r) = <<"findMany", "count">>
           /\ kind[r] = "get" => Statements(r) = <<"findUnique">>
           /\ kind[r] = "stats" => Statements(r) = <<"count", "countLogs">>
           /\ kind[r] \in {"create", "list", "get", "stats"}
BY DEF DemoTypes, Kind, Statements, CreateOrder, ListOrders,
   GetOrder, Stats

LEMMA DemoStarts == DemoInit => DemoInv
<1> SUFFICES ASSUME DemoInit PROVE DemoInv
    OBVIOUS
<1>1. DemoTypes
      BY FS_EmptySet DEF DemoInit, DemoTypes
<1>2. ASSUME NEW r \in Req
      PROVE  ReadInv(r)
  <2>1. stage[r] = "idle" /\ done[r] = 0
        BY <1>2 DEF DemoInit
  <2>2. 0 <= Len(Statements(r))
        BY <1>1, StatementsOf
  <2> QED
      BY <2>1, <2>2 DEF ReadInv, StageInv, ListInv, StatsInv, GetInv
<1> QED
    BY <1>1, <1>2 DEF DemoInv

\* The counts of finite sets, and that they grow with them.
LEMMA RowsCount ==
    ASSUME DemoTypes
    PROVE  /\ Cardinality(rows) \in Nat
           /\ \A S \in SUBSET rows : Cardinality(S) \in Nat /\ Cardinality(S) <= Cardinality(rows)
BY FS_Subset, FS_CardinalityType DEF DemoTypes

\* A statement: what it reads is of the rows of now.
LEMMA DemoExecute ==
    ASSUME DemoInv, NEW r \in Req, Execute(r)
    PROVE  DemoInv'
<1> DEFINE s == Statements(r)[done[r] + 1]
<1>1. /\ kind' = kind /\ stage' = stage /\ arg' = arg /\ rows' = rows /\ logs' = logs /\ seen' = seen
      /\ stage[r] = "open" /\ done[r] # Len(Statements(r))
      /\ done' = [done EXCEPT ![r] = @ + 1]
      /\ result' = IF s \in Reading THEN [result EXCEPT ![r][s] = Value(r, s)] ELSE result
      BY DEF Execute, Completed
<1>2. /\ DemoTypes /\ \A q \in Req : ReadInv(q)
      BY DEF DemoInv
<1>3. /\ Cardinality(rows) \in Nat
      /\ seen[r] \subseteq rows /\ Cardinality(seen[r]) \in Nat
      /\ Cardinality(seen[r]) <= Cardinality(rows)
      BY <1>1, <1>2, RowsCount DEF ReadInv, StageInv
<1>4. done[r] \in Nat /\ done[r] + 1 \in 1..2 /\ done[r] + 1 <= Len(Statements(r))
  <2>1. done[r] \in Nat /\ done[r] <= Len(Statements(r))
        BY <1>2 DEF ReadInv, StageInv, DemoTypes
  <2>2. Len(Statements(r)) \in 1..2
        BY <1>2, StatementsOf
  <2> QED
      BY <1>1, <2>1, <2>2
<1>5. /\ kind[r] = "list" => arg[r] \in Nat \ {0}
      BY <1>1, <1>2 DEF ReadInv, StageInv
<1>6. /\ s = "findMany" => /\ kind[r] = "list" /\ done[r] = 0
                           /\ Value(r, s) = Page(Cardinality(rows), arg[r])
      /\ s = "findUnique" => /\ kind[r] = "get" /\ done[r] = 0
                             /\ Value(r, s) = IF arg[r] \in rows THEN 1 ELSE 0
      /\ s = "count" => /\ (kind[r] = "list" /\ done[r] = 1) \/ (kind[r] = "stats" /\ done[r] = 0)
                        /\ Value(r, s) = Cardinality(rows)
      /\ s = "countLogs" => /\ kind[r] = "stats" /\ done[r] = 1
                            /\ Value(r, s) = Cardinality(rows)
      /\ kind[r] = "list" /\ done[r] = 0 => s = "findMany"
      /\ kind[r] = "list" /\ done[r] = 1 => s = "count"
      /\ kind[r] = "stats" /\ done[r] = 0 => s = "count"
      /\ kind[r] = "stats" /\ done[r] = 1 => s = "countLogs"
      /\ kind[r] = "get" => s = "findUnique"
      /\ kind[r] = "create" => s \notin Reading
  <2>1. /\ Value(r, "findMany") = Page(Cardinality(rows), arg[r])
        /\ Value(r, "findUnique") = IF arg[r] \in rows THEN 1 ELSE 0
        /\ Value(r, "count") = Cardinality(rows)
        /\ Value(r, "countLogs") = Cardinality(rows)
        BY <1>2 DEF Value, DemoTypes
  <2>2. /\ kind[r] = "create" => s \in {"insertOrder", "insertLog"}
        /\ kind[r] = "list" => s = IF done[r] = 0 THEN "findMany" ELSE "count"
        /\ kind[r] = "get" => s = "findUnique" /\ done[r] = 0
        /\ kind[r] = "stats" => s = IF done[r] = 0 THEN "count" ELSE "countLogs"
        /\ kind[r] \in {"create", "list", "get", "stats"}
        BY <1>2, <1>4, StatementsOf
  <2>3. done[r] \in 0..1
        BY <1>4
  <2> HIDE DEF s
  <2> QED
      BY <2>1, <2>2, <2>3 DEF Reading
<1> HIDE DEF s
<1>7. s \in Reading => Value(r, s) \in Nat
      BY <1>3, <1>5, <1>6, PageBounds, PrismaAssumption DEF Reading, PrismaAssumption
<1>8. DemoTypes'
      BY <1>1, <1>2, <1>7 DEF DemoTypes
<1>9. ASSUME NEW q \in Req, q # r
      PROVE  ReadInv(q)'
  <2>1. done'[q] = done[q] /\ result'[q] = result[q] /\ Statements(q)' = Statements(q)
        BY <1>1, <1>2, <1>9 DEF DemoTypes, Statements, CreateOrder, ListOrders,
           GetOrder, Stats
  <2>2. ReadInv(q)
        BY <1>2
  <2> QED
      BY <1>1, <2>1, <2>2 DEF ReadInv, StageInv, ListInv, StatsInv, GetInv
<1>10. ReadInv(r)'
  <2>1. done'[r] = done[r] + 1 /\ Statements(r)' = Statements(r)
        BY <1>1, <1>2 DEF DemoTypes, Statements, CreateOrder, ListOrders,
           GetOrder, Stats
  <2>2. /\ s \in Reading => result'[r][s] = Value(r, s)
        /\ \A u \in Reading : u # s => result'[r][u] = result[r][u]
        BY <1>1, <1>2 DEF DemoTypes
  <2>3. ReadInv(r)
        BY <1>2
  <2>4. StageInv(r)'
        BY <1>1, <1>4, <2>1, <2>3 DEF ReadInv, StageInv
  <2>5. ListInv(r)'
    <3>1. CASE kind[r] = "list" /\ done[r] = 0
          BY <1>1, <1>3, <1>6, <2>1, <2>2, <3>1 DEF ListInv, Reading
    <3>2. CASE kind[r] = "list" /\ done[r] = 1
      <4>1. PICK n \in Nat : result[r]["findMany"] = Page(n, arg[r]) /\ n <= Cardinality(rows)
            BY <2>3, <3>2 DEF ReadInv, ListInv
      <4>2. /\ result'[r]["findMany"] = Page(n, arg[r])
            /\ result'[r]["count"] = Cardinality(rows)
            BY <1>6, <2>2, <3>2, <4>1 DEF Reading
      <4> QED
          BY <1>1, <1>3, <2>1, <3>2, <4>1, <4>2 DEF ListInv
    <3> QED
        BY <1>1, <1>4, <3>1, <3>2 DEF ListInv
  <2>6. StatsInv(r)'
    <3>1. CASE kind[r] = "stats" /\ done[r] = 0
          BY <1>1, <1>3, <1>6, <2>1, <2>2, <3>1 DEF StatsInv, Reading
    <3>2. CASE kind[r] = "stats" /\ done[r] = 1
      <4>1. /\ result'[r]["count"] = result[r]["count"]
            /\ result'[r]["countLogs"] = Cardinality(rows)
            BY <1>6, <2>2, <3>2 DEF Reading
      <4> QED
          BY <1>1, <1>3, <2>1, <2>3, <3>2, <4>1 DEF ReadInv, StatsInv
    <3> QED
        BY <1>1, <1>4, <3>1, <3>2 DEF StatsInv
  <2>7. GetInv(r)'
        BY <1>1, <1>3, <1>6, <2>2 DEF GetInv, Reading
  <2> QED
      BY <2>4, <2>5, <2>6, <2>7 DEF ReadInv
<1> QED
    BY <1>8, <1>9, <1>10 DEF DemoInv

\* A step that changes neither what has been read nor what is asked for: the rows only
\* grow, and a request gets only to stages that it has reached.
LEMMA DemoStage ==
    ASSUME DemoInv, UNCHANGED <<kind, done, arg, result, seen>>,
           stage' \in [Req -> {"idle", "open", "committed", "answered", "error", "gone"}],
           rows \subseteq rows', rows' \subseteq Req, IsFiniteSet(rows'), logs' = rows',
           \A r \in Req :
              /\ stage'[r] = "idle" <=> stage[r] = "idle"
              /\ stage'[r] \in {"committed", "answered"} =>
                    \/ stage[r] \in {"committed", "answered"}
                    \/ /\ done[r] = Len(Statements(r))
                       /\ kind[r] = "create" => r \in rows'
    PROVE  DemoInv'
<1>1. /\ kind' = kind /\ done' = done /\ arg' = arg /\ result' = result /\ seen' = seen
      OBVIOUS
<1>2. DemoTypes'
      BY DEF DemoInv, DemoTypes
<1>3. Cardinality(rows) \in Nat /\ Cardinality(rows') \in Nat /\ Cardinality(rows) <= Cardinality(rows')
      BY FS_Subset, FS_CardinalityType
<1>4. ASSUME NEW r \in Req
      PROVE  ReadInv(r)'
  <2>1. ReadInv(r) /\ Statements(r)' = Statements(r)
        BY <1>1 DEF DemoInv, Statements, CreateOrder, ListOrders,
           GetOrder, Stats
  <2>2. StageInv(r)'
        BY <1>1, <2>1 DEF ReadInv, StageInv
  <2>3. ListInv(r)'
    <3>1. CASE kind[r] = "list" /\ done[r] >= 1
      <4>1. PICK n \in Nat : /\ result[r]["findMany"] = Page(n, arg[r])
                             /\ n <= Cardinality(rows)
                             /\ done[r] = 2 => n <= result[r]["count"]
            BY <2>1, <3>1 DEF ReadInv, ListInv
      <4>2. n <= Cardinality(rows')
            BY <1>3, <4>1
      <4> QED
          BY <1>1, <2>1, <4>1, <4>2 DEF ReadInv, ListInv
    <3>2. CASE ~(kind[r] = "list" /\ done[r] >= 1)
          BY <1>1, <2>1, <3>2 DEF ReadInv, ListInv
    <3> QED
        BY <3>1, <3>2
  <2>4. StatsInv(r)'
    <3>1. CASE kind[r] = "stats" /\ done[r] >= 1
      <4>1. result[r]["count"] \in Nat
            BY DEF DemoInv, DemoTypes, Reading
      <4> QED
          BY <1>1, <1>3, <2>1, <3>1, <4>1 DEF ReadInv, StatsInv
    <3>2. CASE ~(kind[r] = "stats" /\ done[r] >= 1)
          BY <1>1, <2>1, <3>2 DEF ReadInv, StatsInv, StageInv, DemoInv, DemoTypes
    <3> QED
        BY <3>1, <3>2
  <2>5. GetInv(r)'
        BY <1>1, <2>1 DEF ReadInv, GetInv
  <2> QED
      BY <2>2, <2>3, <2>4, <2>5 DEF ReadInv
<1> QED
    BY <1>2, <1>4 DEF DemoInv

\* What has been answered when a request is sent is in the table by then.
LEMMA DemoSend ==
    ASSUME DemoInv, NEW r \in Req, Send(r)
    PROVE  DemoInv'
<1>1. /\ kind' = kind /\ done' = done /\ result' = result /\ rows' = rows /\ logs' = logs
      /\ stage[r] = "idle" /\ stage' = [stage EXCEPT ![r] = "open"]
      /\ seen' = [seen EXCEPT ![r] = {c \in Creation : stage[c] = "answered"}]
      BY DEF Send, Reaches
<1>2. PICK a \in Args(r) : arg' = [arg EXCEPT ![r] = a]
      BY DEF Send
<1>3. DemoTypes /\ \A q \in Req : ReadInv(q)
      BY DEF DemoInv
<1>4. /\ a \in (1..MaxPage) \cup Req \cup {0}
      /\ kind[r] = "list" => a \in 1..MaxPage
      BY <1>3 DEF Args, Creation, DemoTypes, Kind
<1>5. DemoTypes'
      BY <1>1, <1>2, <1>3, <1>4 DEF DemoTypes, Creation
<1>6. {c \in Creation : stage[c] = "answered"} \subseteq rows
      BY <1>3 DEF ReadInv, StageInv, Creation
<1>7. ASSUME NEW q \in Req
      PROVE  ReadInv(q)'
  <2>1. ReadInv(q) /\ Statements(q)' = Statements(q)
        BY <1>1, <1>3 DEF Statements, CreateOrder, ListOrders,
           GetOrder, Stats
  <2>2. CASE q # r
    <3>1. stage'[q] = stage[q] /\ arg'[q] = arg[q] /\ seen'[q] = seen[q]
          BY <1>1, <1>2, <1>3, <2>2 DEF DemoTypes
    <3> QED
        BY <1>1, <2>1, <2>2, <3>1 DEF ReadInv, StageInv, ListInv, StatsInv, GetInv
  <2>3. CASE q = r
    <3>1. /\ stage'[r] = "open" /\ arg'[r] = a /\ done[r] = 0
          /\ seen'[r] = {c \in Creation : stage[c] = "answered"}
          BY <1>1, <1>2, <1>3 DEF DemoTypes, ReadInv, StageInv
    <3> QED
        BY <1>1, <1>4, <1>6, <2>1, <2>3, <3>1 DEF ReadInv, StageInv, ListInv, StatsInv, GetInv
  <2> QED
      BY <2>2, <2>3
<1> QED
    BY <1>5, <1>7 DEF DemoInv

LEMMA DemoStep ==
    DemoInv /\ [DemoNext]_demoVars => DemoInv'
<1> SUFFICES ASSUME DemoInv, [DemoNext]_demoVars PROVE DemoInv'
    OBVIOUS
<1>0. DemoTypes /\ \A r \in Req : StageInv(r)
      BY DEF DemoInv, ReadInv
<1>1. ASSUME NEW r \in Req, Commit(r)
      PROVE  DemoInv'
  <2>1. /\ stage[r] = "open" /\ done[r] = Len(Statements(r))
        /\ stage' = [stage EXCEPT ![r] = "committed"]
        /\ rows' = rows \cup ({r} \cap Creation) /\ logs' = logs \cup ({r} \cap Creation)
        /\ UNCHANGED <<kind, done, arg, result, seen>>
        BY <1>1 DEF Commit, Reaches, Completed
  <2>2. IsFiniteSet(rows') /\ rows \subseteq rows' /\ rows' \subseteq Req /\ logs' = rows'
    <3>1. rows' = rows \cup {r} \/ rows' = rows
          BY <2>1
    <3>2. IsFiniteSet(rows \cup {r})
          BY <1>0, FS_AddElement DEF DemoTypes
    <3> QED
        BY <1>0, <2>1, <3>1, <3>2 DEF DemoTypes
  <2>3. kind[r] = "create" => r \in rows'
        BY <2>1 DEF Creation
  <2> QED
      BY <1>0, <2>1, <2>2, <2>3, DemoStage DEF DemoTypes
<1>2. ASSUME NEW r \in Req, Respond(r) \/ RollBack(r) \/ ReplyLost(r)
      PROVE  DemoInv'
  <2>1. /\ stage[r] \in {"open", "committed"}
        /\ \/ stage' = [stage EXCEPT ![r] = "error"]
           \/ stage[r] = "committed" /\ stage' = [stage EXCEPT ![r] = "answered"]
        /\ rows' = rows /\ logs' = logs
        /\ UNCHANGED <<kind, done, arg, result, seen>>
        BY <1>2 DEF Respond, RollBack, ReplyLost, Reaches
  <2> QED
      BY <1>0, <2>1, DemoStage DEF DemoTypes
<1>3. CASE Die
  <2>1. /\ stage' = [r \in Req |-> IF stage[r] \in {"open", "committed"} THEN "gone" ELSE stage[r]]
        /\ rows' = rows /\ logs' = logs
        /\ UNCHANGED <<kind, done, arg, result, seen>>
        BY <1>3 DEF Die
  <2>2. \A r \in Req : stage'[r] = IF stage[r] \in {"open", "committed"} THEN "gone" ELSE stage[r]
        BY <2>1
  <2>3. stage' \in [Req -> {"idle", "open", "committed", "answered", "error", "gone"}]
        BY <1>0, <2>1 DEF DemoTypes
  <2> QED
      BY <1>0, <2>1, <2>2, <2>3, DemoStage DEF DemoTypes
<1>4. CASE UNCHANGED demoVars
  <2>1. UNCHANGED <<kind, stage, done, arg, result, rows, logs, seen>>
        BY <1>4 DEF demoVars
  <2> QED
      BY <1>0, <2>1, DemoStage DEF DemoTypes
<1> QED
    BY <1>1, <1>2, <1>3, <1>4, DemoExecute, DemoSend DEF DemoNext, Rest

LEMMA DemoAlways == DemoSpec => []DemoInv
<1>1. DemoInit => DemoInv
      BY DemoStarts
<1>2. DemoInv /\ [DemoNext]_demoVars => DemoInv'
      BY DemoStep
<1> QED
    BY <1>1, <1>2, PTL DEF DemoSpec

\* list and stats answer consistently: a page lies within the total that is answered
\* with it and there are no more orders than audit entries, whatever commits between
\* the statements.
THEOREM DemoConsistent == DemoSpec => []ReadsConsistent
<1>1. DemoInv => ReadsConsistent
  <2> SUFFICES ASSUME DemoInv PROVE ReadsConsistent
      OBVIOUS
  <2>1. ASSUME NEW r \in Req, stage[r] = "answered"
        PROVE  ReadInv(r) /\ done[r] = Len(Statements(r)) /\ result[r] \in [Reading -> Nat]
        BY <2>1 DEF DemoInv, DemoTypes, ReadInv, StageInv
  <2>2. StatsNotAhead
    <3>1. ASSUME NEW r \in Req, stage[r] = "answered", kind[r] = "stats"
          PROVE  result[r]["count"] <= result[r]["countLogs"]
      <4>1. done[r] = 2
            BY <2>1, <3>1, StatementsOf DEF DemoInv
      <4> QED
          BY <2>1, <3>1, <4>1 DEF ReadInv, StatsInv
    <3> QED
        BY <3>1 DEF StatsNotAhead, Answered
  <2>3. PageWithinTotal
    <3>1. ASSUME NEW r \in Req, stage[r] = "answered", kind[r] = "list", result[r]["findMany"] > 0
          PROVE  /\ arg[r] <= TotalPages(result[r]["count"])
                 /\ (arg[r] - 1) * PageSize + result[r]["findMany"] <= result[r]["count"]
      <4>1. done[r] = 2
            BY <2>1, <3>1, StatementsOf DEF DemoInv
      <4>2. PICK n \in Nat : result[r]["findMany"] = Page(n, arg[r]) /\ n <= result[r]["count"]
            BY <2>1, <3>1, <4>1 DEF ReadInv, ListInv
      <4>3. arg[r] \in Nat \ {0} /\ result[r]["count"] \in Nat /\ PageSize \in Nat \ {0}
            BY <2>1, <3>1, PrismaAssumption DEF ReadInv, StageInv, Reading, PrismaAssumption
      <4> QED
          BY <3>1, <4>2, <4>3, PageCounts
    <3> QED
        BY <3>1 DEF PageWithinTotal, Answered
  <2> QED
      BY <2>2, <2>3 DEF ReadsConsistent
<1> QED
    BY <1>1, DemoAlways, PTL

\* A request that is sent after a creation has been answered is served with that order
\* in it: get finds it, and list and stats count it.
THEOREM DemoServesAnswered == DemoSpec => []ReadsAnswered
<1>1. DemoInv => ReadsAnswered
  <2> SUFFICES ASSUME DemoInv, NEW r \in Req, stage[r] = "answered"
               PROVE  /\ kind[r] = "get" /\ arg[r] \in seen[r] => result[r]["findUnique"] = 1
                      /\ kind[r] \in {"list", "stats"} =>
                             result[r]["count"] >= Cardinality(seen[r])
      BY DEF ReadsAnswered, Answered
  <2>1. ReadInv(r) /\ done[r] = Len(Statements(r))
        BY DEF DemoInv, ReadInv, StageInv
  <2>0. done[r] \in Nat
        BY DEF DemoInv, DemoTypes
  <2>2. kind[r] = "get" => done[r] >= 1
    <3>1. kind[r] = "get" => done[r] = 1
          BY <2>1, StatementsOf DEF DemoInv
    <3> QED
        BY <2>0, <3>1
  <2>3. kind[r] \in {"list", "stats"} => done[r] = 2 /\ done[r] >= 1
        BY <2>1, StatementsOf DEF DemoInv
  <2>4. result[r]["count"] \in Nat /\ Cardinality(seen[r]) \in Nat
        BY <2>1, RowsCount DEF DemoInv, DemoTypes, ReadInv, StageInv, Reading
  <2>5. kind[r] \in {"list", "stats"} => Cardinality(seen[r]) <= result[r]["count"]
        BY <2>1, <2>3 DEF ReadInv, ListInv, StatsInv
  <2>6. kind[r] = "get" /\ arg[r] \in seen[r] => result[r]["findUnique"] = 1
        BY <2>1, <2>2 DEF ReadInv, GetInv
  <2> QED
      BY <2>4, <2>5, <2>6
<1> QED
    BY <1>1, DemoAlways, PTL
=============================================================================
