------------------------- MODULE OrderStore_proofs -------------------------
(***************************************************************************)
(* What holds of the optimistic lock of the orders table for every set of  *)
(* orders and deliveries, every number of failing database calls and every *)
(* number of crashes.                                                      *)
(***************************************************************************)
EXTENDS OrderStore, TLAPS

\* Every handler step keeps the types: one case per action.
LEMMA NextTypeOK == TypeOK /\ [Next]_vars => TypeOK'
<1> SUFFICES ASSUME TypeOK, [Next]_vars PROVE TypeOK'
  OBVIOUS
<1> USE TaskAssumption, BoundAssumption
    DEF TypeOK, Statuses, JobStates, PCs, Awaiting, Ended
<1>1. ASSUME NEW o \in Order, Create(o) PROVE TypeOK'
  BY <1>1 DEF Create
<1>2. ASSUME NEW o \in Order, Schedule(o) PROVE TypeOK'
  BY <1>2 DEF Schedule, ScheduleSettles
<1>3. ASSUME NEW t \in Task, Receive(t) PROVE TypeOK'
  BY <1>3 DEF Receive, Goto
<1>4. ASSUME NEW t \in Task, StartJob(t) PROVE TypeOK'
  BY <1>4 DEF StartJob
<1>5. ASSUME NEW t \in Task, Lookup(t) PROVE TypeOK'
  BY <1>5 DEF Lookup, Goto, End
<1>6. ASSUME NEW t \in Task, Find(t) PROVE TypeOK'
  BY <1>6 DEF Find, Goto, End
<1>7. ASSUME NEW t \in Task, Update(t) PROVE TypeOK'
  BY <1>7 DEF Update, Write, NoWrite, NewStatus, Goto, End
<1>8. ASSUME NEW t \in Task, Reread(t) PROVE TypeOK'
  BY <1>8 DEF Reread, End
<1>9. ASSUME NEW t \in Task, DbFault(t) PROVE TypeOK'
  BY <1>9 DEF DbFault, Write, NoWrite, NewStatus, End
<1>10. ASSUME Crash PROVE TypeOK'
  BY <1>10 DEF Crash
<1>11. CASE UNCHANGED vars
  BY <1>11 DEF vars
<1> QED
  BY <1>1, <1>2, <1>3, <1>4, <1>5, <1>6, <1>7, <1>8, <1>9, <1>10, <1>11
  DEF Next, Step, Rest

\* The variables keep their types through every handler of the orders service.
THEOREM TypeCorrect == Spec => []TypeOK
<1>1. Init => TypeOK
  BY TaskAssumption, BoundAssumption DEF Init, TypeOK, Statuses, JobStates, PCs
<1> QED
  BY <1>1, NextTypeOK, PTL DEF Spec

(* The inductive invariant of the two theorems that follow. *)
WriterInv == TypeOK /\ VersionInv /\ OneWriterPerVersion /\ ConflictHasWinner

\* Initially no version has been overwritten.
LEMMA InitWriterInv == Init => WriterInv
<1> SUFFICES ASSUME Init PROVE WriterInv
  OBVIOUS
<1>1. TypeOK
  BY TaskAssumption, BoundAssumption DEF Init, TypeOK, Statuses, JobStates, PCs
<1>2. VersionInv /\ OneWriterPerVersion /\ ConflictHasWinner
  BY TaskAssumption DEF Init, VersionInv, OneWriterPerVersion, ConflictHasWinner
<1> QED
  BY <1>1, <1>2 DEF WriterInv

\* A step that writes no row keeps the invariant, provided that a handler that
\* starts to await its UPDATE has just read the version of the row, and that a
\* handler that reports a conflict was awaiting an UPDATE for another version.
LEMMA NoWriteKeepsWriterInv ==
  ASSUME WriterInv, TypeOK', NoWrite,
         \A t \in Task : pc'[t] = "update" =>
            \/ pc[t] = "update" /\ expected'[t] = expected[t]
            \/ status[Target[t]] # "NONE" /\ expected'[t] = version[Target[t]],
         \A t \in Task : pc'[t] = "conflict" =>
            /\ expected'[t] = expected[t]
            /\ \/ pc[t] = "conflict"
               \/ pc[t] = "update" /\ ~VersionMatches(t)
  PROVE  WriterInv'
<1> USE TaskAssumption DEF WriterInv, NoWrite
<1>1. VersionInv'
  <2>1. \A o \in Order : version[o] \in Nat /\ writer[o] \subseteq (Nat \X Task)
    BY DEF TypeOK
  <2>2. ASSUME NEW t \in Task, pc'[t] = "update"
        PROVE /\ expected'[t] > 0
              /\ expected'[t] <= version[Target[t]]
              /\ \A w \in writer[Target[t]] : w[2] = t => w[1] < expected'[t]
    <3>1. Target[t] \in Order
      OBVIOUS
    <3>2. CASE pc[t] = "update" /\ expected'[t] = expected[t]
      BY <3>2 DEF VersionInv
    <3>3. CASE status[Target[t]] # "NONE" /\ expected'[t] = version[Target[t]]
      <4>1. version[Target[t]] # 0
        BY <3>1, <3>3 DEF VersionInv
      <4>2. \A w \in writer[Target[t]] : w[1] < version[Target[t]]
        BY <3>1 DEF VersionInv
      <4> QED
        BY <2>1, <3>1, <3>3, <4>1, <4>2
    <3> QED
      BY <2>2, <3>2, <3>3
  <2> QED
    BY <2>2 DEF VersionInv
<1>2. OneWriterPerVersion'
  BY DEF OneWriterPerVersion
<1>3. ConflictHasWinner'
  <2>1. ASSUME NEW t \in Task, pc'[t] = "conflict"
        PROVE \E w \in writer[Target[t]] : w[1] = expected[t] /\ w[2] # t
    <3>1. CASE pc[t] = "conflict"
      BY <3>1 DEF ConflictHasWinner
    <3>2. CASE pc[t] = "update" /\ ~VersionMatches(t)
      <4>1. Target[t] \in Order /\ expected[t] \in Nat /\ version[Target[t]] \in Nat
        BY DEF TypeOK
      <4>2. expected[t] \in 1..(version[Target[t]] - 1)
        BY <3>2, <4>1 DEF VersionInv, VersionMatches
      <4>3. PICK w \in writer[Target[t]] : w[1] = expected[t]
        BY <4>1, <4>2 DEF VersionInv
      <4>4. w[2] # t
        BY <3>2, <4>1, <4>3 DEF VersionInv
      <4> QED
        BY <4>3, <4>4
    <3> QED
      BY <2>1, <3>1, <3>2
  <2> QED
    BY <2>1 DEF ConflictHasWinner
<1> QED
  BY <1>1, <1>2, <1>3

\* An UPDATE that matches its version keeps the invariant: it overwrites the
\* current version, which nobody has overwritten before.
LEMMA WriteKeepsWriterInv ==
  ASSUME WriterInv, TypeOK', NEW t \in Task,
         pc[t] = "update", VersionMatches(t), Write(t), UNCHANGED expected,
         pc'[t] \notin {"update", "conflict"},
         \A u \in Task \ {t} : pc'[u] = pc[u]
  PROVE  WriterInv'
<1> USE TaskAssumption DEF WriterInv
<1> DEFINE o == Target[t]
<1>1. o \in Order /\ version[o] \in Nat /\ expected[t] = version[o] /\ version[o] > 0
  BY DEF TypeOK, VersionInv, VersionMatches
<1>2. /\ version' = [version EXCEPT ![o] = version[o] + 1]
      /\ writer' = [writer EXCEPT ![o] = writer[o] \cup {<<version[o], t>>}]
      /\ status' = [status EXCEPT ![o] = NewStatus(t)]
  BY <1>1 DEF Write
<1>3. version'[o] = version[o] + 1 /\ writer'[o] = writer[o] \cup {<<version[o], t>>}
  BY <1>1, <1>2 DEF TypeOK
<1>4. \A p \in Order \ {o} : version'[p] = version[p] /\ writer'[p] = writer[p]
                            /\ status'[p] = status[p]
  BY <1>2 DEF TypeOK
<1>5. \A p \in Order : version[p] \in Nat /\ writer[p] \subseteq (Nat \X Task)
  BY DEF TypeOK
<1>6. VersionInv'
  <2>1. ASSUME NEW p \in Order
        PROVE /\ status'[p] = "NONE" <=> version'[p] = 0
              /\ \A w \in writer'[p] : w[1] > 0 /\ w[1] < version'[p]
              /\ \A v \in 1..(version'[p] - 1) : \E w \in writer'[p] : w[1] = v
    <3>1. CASE p # o
      BY <1>4, <2>1, <3>1 DEF VersionInv
    <3>2. CASE p = o
      <4>1. status'[p] = NewStatus(t) /\ NewStatus(t) # "NONE"
        BY <1>1, <1>2, <3>2 DEF TypeOK, NewStatus
      <4>2. \A w \in writer[p] : w[1] \in Nat /\ w[1] > 0 /\ w[1] < version[p]
        BY <1>5, <2>1 DEF VersionInv
      <4>3. \A w \in writer'[p] : w[1] > 0 /\ w[1] < version'[p]
        BY <1>1, <1>3, <3>2, <4>2
      <4>4. ASSUME NEW v \in 1..(version'[p] - 1) PROVE \E w \in writer'[p] : w[1] = v
        <5>1. CASE v = version[p]
          <6>1. <<version[p], t>> \in writer'[p] /\ <<version[p], t>>[1] = v
            BY <1>3, <3>2, <5>1
          <6> QED
            BY <6>1
        <5>2. CASE v # version[p]
          <6>1. v \in 1..(version[p] - 1)
            BY <1>1, <1>3, <3>2, <5>2
          <6> QED
            BY <1>3, <2>1, <3>2, <6>1 DEF VersionInv
        <5> QED
          BY <5>1, <5>2
      <4> QED
        BY <1>1, <1>3, <3>2, <4>1, <4>3, <4>4
    <3> QED
      BY <3>1, <3>2
  <2>2. ASSUME NEW u \in Task, pc'[u] = "update"
        PROVE /\ expected[u] > 0
              /\ expected[u] <= version'[Target[u]]
              /\ \A w \in writer'[Target[u]] : w[2] = u => w[1] < expected[u]
    <3>1. u # t /\ pc[u] = "update"
      BY <2>2
    <3>2. /\ expected[u] > 0
          /\ expected[u] <= version[Target[u]]
          /\ \A w \in writer[Target[u]] : w[2] = u => w[1] < expected[u]
      BY <2>2, <3>1 DEF VersionInv
    <3>3. Target[u] \in Order /\ expected[u] \in Nat
      BY DEF TypeOK
    <3>4. CASE Target[u] # o
      BY <1>4, <3>2, <3>3, <3>4
    <3>5. CASE Target[u] = o
      BY <1>1, <1>3, <3>1, <3>2, <3>3, <3>5
    <3> QED
      BY <3>4, <3>5
  <2> QED
    BY <2>1, <2>2 DEF VersionInv
<1>7. OneWriterPerVersion'
  <2>1. ASSUME NEW p \in Order, NEW a \in writer'[p], NEW b \in writer'[p], a[1] = b[1]
        PROVE a = b
    <3>1. CASE p # o
      BY <1>4, <2>1, <3>1 DEF OneWriterPerVersion
    <3>2. CASE p = o
      <4>1. \A w \in writer[p] : w[1] \in Nat /\ w[1] < version[p]
        BY <1>5, <2>1 DEF VersionInv
      <4>2. \A w \in writer'[p] : w \in writer[p] \/ w = <<version[p], t>>
        BY <1>3, <3>2
      <4> QED
        BY <1>5, <2>1, <3>2, <4>1, <4>2 DEF OneWriterPerVersion
    <3> QED
      BY <3>1, <3>2
  <2> QED
    BY <2>1 DEF OneWriterPerVersion
<1>8. ConflictHasWinner'
  <2>1. ASSUME NEW u \in Task, pc'[u] = "conflict"
        PROVE \E w \in writer'[Target[u]] : w[1] = expected[u] /\ w[2] # u
    <3>1. pc[u] = "conflict"
      BY <2>1
    <3>2. PICK w \in writer[Target[u]] : w[1] = expected[u] /\ w[2] # u
      BY <2>1, <3>1 DEF ConflictHasWinner
    <3>3. w \in writer'[Target[u]]
      BY <1>3, <1>4, <3>2
    <3> QED
      BY <3>2, <3>3
  <2> QED
    BY <2>1 DEF ConflictHasWinner
<1> QED
  BY <1>6, <1>7, <1>8

\* Creating an order keeps the invariant: its version 1 is not overwritten, and
\* no handler can be awaiting an UPDATE of a row that did not exist.
LEMMA CreateKeepsWriterInv ==
  ASSUME WriterInv, TypeOK', NEW o \in Order, Create(o)
  PROVE  WriterInv'
<1> USE TaskAssumption DEF WriterInv
<1>1. /\ version[o] = 0 /\ writer[o] = {}
      /\ version'[o] = 1 /\ status'[o] = "PENDING"
      /\ writer' = writer /\ pc' = pc /\ expected' = expected
      /\ \A p \in Order \ {o} : version'[p] = version[p] /\ status'[p] = status[p]
  <2>1. status[o] = "NONE" /\ version[o] = 0
    BY DEF Create, VersionInv
  <2>2. writer[o] = {}
    <3> SUFFICES ASSUME NEW w \in writer[o] PROVE FALSE
      OBVIOUS
    <3>1. w \in Nat \X Task /\ w[1] \in Nat
      BY DEF TypeOK
    <3>2. w[1] > 0 /\ w[1] < version[o]
      BY DEF VersionInv
    <3> QED
      BY <2>1, <3>1, <3>2
  <2> QED
    BY <2>1, <2>2 DEF Create, TypeOK
<1>2. \A t \in Task : pc[t] = "update" => Target[t] # o
  <2> SUFFICES ASSUME NEW t \in Task, pc[t] = "update", Target[t] = o PROVE FALSE
    OBVIOUS
  <2>1. expected[t] > 0 /\ expected[t] <= version[o] /\ expected[t] \in Nat
    BY DEF VersionInv, TypeOK
  <2> QED
    BY <1>1, <2>1
<1>3. VersionInv'
  <2>1. ASSUME NEW p \in Order
        PROVE /\ status'[p] = "NONE" <=> version'[p] = 0
              /\ \A w \in writer'[p] : w[1] > 0 /\ w[1] < version'[p]
              /\ \A v \in 1..(version'[p] - 1) : \E w \in writer'[p] : w[1] = v
    BY <1>1, <2>1 DEF VersionInv
  <2>2. ASSUME NEW t \in Task, pc'[t] = "update"
        PROVE /\ expected'[t] > 0
              /\ expected'[t] <= version'[Target[t]]
              /\ \A w \in writer'[Target[t]] : w[2] = t => w[1] < expected'[t]
    BY <1>1, <1>2, <2>2 DEF VersionInv
  <2> QED
    BY <2>1, <2>2 DEF VersionInv
<1> QED
  BY <1>1, <1>3 DEF OneWriterPerVersion, ConflictHasWinner

\* Every step keeps the invariant: the two cases that write a row, the creation
\* of a row, and all the others.
LEMMA NextWriterInv == WriterInv /\ [Next]_vars => WriterInv'
<1> SUFFICES ASSUME WriterInv, [Next]_vars PROVE WriterInv'
  OBVIOUS
<1> USE TaskAssumption
<1>1. TypeOK /\ TypeOK'
  BY NextTypeOK DEF WriterInv
<1>2. pc \in [Task -> PCs] /\ expected \in [Task -> Nat]
  BY <1>1 DEF TypeOK
<1>3. ASSUME NEW o \in Order, Create(o) PROVE WriterInv'
  BY <1>1, <1>3, CreateKeepsWriterInv
<1>4. ASSUME NEW o \in Order, Schedule(o) PROVE WriterInv'
  BY <1>1, <1>4, NoWriteKeepsWriterInv DEF Schedule, ScheduleSettles, NoWrite
<1>5. ASSUME NEW t \in Task, Receive(t) PROVE WriterInv'
  BY <1>1, <1>2, <1>5, NoWriteKeepsWriterInv DEF Receive, Goto, NoWrite
<1>6. ASSUME NEW t \in Task, StartJob(t) PROVE WriterInv'
  BY <1>1, <1>2, <1>6, NoWriteKeepsWriterInv DEF StartJob, NoWrite
<1>7. ASSUME NEW t \in Task, Lookup(t) PROVE WriterInv'
  BY <1>1, <1>2, <1>7, NoWriteKeepsWriterInv DEF Lookup, Goto, End, NoWrite
<1>8. ASSUME NEW t \in Task, Find(t) PROVE WriterInv'
  BY <1>1, <1>2, <1>8, NoWriteKeepsWriterInv DEF Find, Goto, End, NoWrite
<1>9. ASSUME NEW t \in Task, Update(t) PROVE WriterInv'
  <2>1. CASE VersionMatches(t) /\ Write(t) /\ Goto(t, "reread")
    BY <1>1, <1>2, <1>9, <2>1, WriteKeepsWriterInv DEF Update, Goto
  <2>2. CASE ~VersionMatches(t) /\ NoWrite /\ End(t, "conflict")
    BY <1>1, <1>2, <1>9, <2>2, NoWriteKeepsWriterInv DEF Update, End
  <2> QED
    BY <1>9, <2>1, <2>2 DEF Update
<1>10. ASSUME NEW t \in Task, Reread(t) PROVE WriterInv'
  BY <1>1, <1>2, <1>10, NoWriteKeepsWriterInv DEF Reread, End, NoWrite
<1>11. ASSUME NEW t \in Task, DbFault(t) PROVE WriterInv'
  <2>1. pc'[t] \in {"aborted", "failed"} /\ \A u \in Task \ {t} : pc'[u] = pc[u]
    BY <1>2, <1>11 DEF DbFault, End
  <2>2. CASE NoWrite
    BY <1>1, <1>11, <2>1, <2>2, NoWriteKeepsWriterInv DEF DbFault
  <2>3. CASE pc[t] = "update" /\ VersionMatches(t) /\ Write(t)
    BY <1>1, <1>11, <2>1, <2>3, WriteKeepsWriterInv DEF DbFault
  <2> QED
    BY <1>11, <2>2, <2>3 DEF DbFault
<1>12. ASSUME Crash PROVE WriterInv'
  <2>1. \A t \in Task : pc'[t] \in {"idle", "dead"} \/ pc'[t] = pc[t]
    BY <1>12 DEF Crash
  <2>2. NoWrite /\ UNCHANGED expected
    BY <1>12 DEF Crash, NoWrite
  <2> QED
    BY <1>1, <2>1, <2>2, NoWriteKeepsWriterInv
<1>13. CASE UNCHANGED vars
  BY <1>1, <1>13, NoWriteKeepsWriterInv DEF vars, NoWrite
<1> QED
  BY <1>3, <1>4, <1>5, <1>6, <1>7, <1>8, <1>9, <1>10, <1>11, <1>12, <1>13
  DEF Next, Step, Rest

\* The overwritten versions of an order are exactly those below its current one, and
\* who is about to write expects none that it has overwritten itself.
THEOREM VersionsAccounted == Spec => []VersionInv
<1>1. WriterInv => VersionInv
  BY DEF WriterInv
<1> QED
  BY <1>1, InitWriterInv, NextWriterInv, PTL DEF Spec

\* No lost update: whatever handlers, faults and crashes there are, at most one
\* delivery overwrites any one version of an order.
THEOREM NoLostUpdate == Spec => []OneWriterPerVersion
<1>1. WriterInv => OneWriterPerVersion
  BY DEF WriterInv
<1> QED
  BY <1>1, InitWriterInv, NextWriterInv, PTL DEF Spec

\* A reported version conflict is never spurious: another delivery overwrote the
\* version the loser had read.
THEOREM ConflictsAreReal == Spec => []ConflictHasWinner
<1>1. WriterInv => ConflictHasWinner
  BY DEF WriterInv
<1> QED
  BY <1>1, InitWriterInv, NextWriterInv, PTL DEF Spec

(* An order leaves PENDING with its first UPDATE, hence a handler that wrote or *)
(* lost to a writer leaves a settled order.                                     *)
SettledInv ==
  /\ \A o \in Order : status[o] = "PENDING" => version[o] = 1
  /\ \A t \in Task : pc[t] = "reread" => status[Target[t]] \in {"PAID", "CANCELLED"}

\* Initially there is no order and no job.
LEMMA InitSettled == Init => SettledInv /\ CompletedJobSettlesOrder
BY TaskAssumption DEF Init, SettledInv, CompletedJobSettlesOrder

\* The effect of a matching UPDATE on the status: it is no longer PENDING, and
\* other orders are left alone.
LEMMA WriteSettles ==
  ASSUME TypeOK, NEW t \in Task, Write(t)
  PROVE  /\ status'[Target[t]] \in {"PAID", "CANCELLED"}
         /\ \A p \in Order \ {Target[t]} :
              status'[p] = status[p] /\ version'[p] = version[p]
BY TaskAssumption DEF Write, NewStatus, TypeOK

\* Every step keeps settled orders settled; after a failing database call nothing
\* is claimed of the jobs any more.
LEMMA NextSettled ==
  ASSUME WriterInv, SettledInv, CompletedJobSettlesOrder, [Next]_vars
  PROVE  SettledInv' /\ CompletedJobSettlesOrder'
<1> USE TaskAssumption DEF SettledInv, CompletedJobSettlesOrder
<1>1. TypeOK /\ VersionInv
  BY DEF WriterInv
<1>2. /\ \A o \in Order : status[o] \in Statuses /\ version[o] \in Nat
      /\ \A t \in Task : expected[t] \in Nat /\ Target[t] \in Order
      /\ status \in [Order -> Statuses] /\ version \in [Order -> Nat]
      /\ job \in [Order -> JobStates] /\ pc \in [Task -> PCs]
  BY <1>1 DEF TypeOK
<1>3. ASSUME NEW o \in Order, Create(o) PROVE SettledInv' /\ CompletedJobSettlesOrder'
  BY <1>2, <1>3 DEF Create
<1>4. ASSUME NEW o \in Order, Schedule(o) PROVE SettledInv' /\ CompletedJobSettlesOrder'
  BY <1>2, <1>4 DEF Schedule, ScheduleSettles
<1>5. ASSUME NEW t \in Task, Receive(t) PROVE SettledInv' /\ CompletedJobSettlesOrder'
  BY <1>2, <1>5 DEF Receive, Goto
<1>6. ASSUME NEW t \in Task, StartJob(t) PROVE SettledInv' /\ CompletedJobSettlesOrder'
  BY <1>2, <1>6 DEF StartJob
<1>7. ASSUME NEW t \in Task, Lookup(t) PROVE SettledInv' /\ CompletedJobSettlesOrder'
  BY <1>2, <1>7 DEF Lookup, Goto, End
<1>8. ASSUME NEW t \in Task, Find(t) PROVE SettledInv' /\ CompletedJobSettlesOrder'
  BY <1>2, <1>8 DEF Find, Goto, End
<1>9. ASSUME NEW t \in Task, Update(t) PROVE SettledInv' /\ CompletedJobSettlesOrder'
  <2>0. dbFaults' = dbFaults
    BY <1>9 DEF Update
  <2>1. CASE VersionMatches(t) /\ Write(t) /\ Goto(t, "reread")
    BY <1>1, <1>2, <2>0, <2>1, WriteSettles DEF Goto, Statuses
  <2>2. CASE ~VersionMatches(t) /\ NoWrite /\ End(t, "conflict")
    <3>1. version[Target[t]] # 1
      BY <1>1, <1>2, <1>9, <2>2 DEF VersionInv, VersionMatches, Update
    <3>2. status[Target[t]] # "PENDING"
      BY <1>2, <3>1
    <3> QED
      BY <1>2, <2>0, <2>2, <3>2 DEF NoWrite, End
  <2> QED
    BY <1>9, <2>1, <2>2 DEF Update
<1>10. ASSUME NEW t \in Task, Reread(t) PROVE SettledInv' /\ CompletedJobSettlesOrder'
  BY <1>2, <1>10 DEF Reread, End
<1>11. ASSUME NEW t \in Task, DbFault(t) PROVE SettledInv' /\ CompletedJobSettlesOrder'
  <2>1. dbFaults \in Nat /\ dbFaults' = dbFaults + 1
    BY <1>1, <1>11, BoundAssumption DEF DbFault, TypeOK
  <2>2. pc' = [pc EXCEPT ![t] = IF pc[t] = "lookup" THEN "aborted" ELSE "failed"]
    BY <1>11 DEF DbFault, End
  <2>3. CompletedJobSettlesOrder'
    <3>1. dbFaults' # 0
      BY <2>1
    <3> QED
      BY <3>1
  <2>4. \A u \in Task : pc'[u] = "reread" => u # t /\ pc[u] = "reread"
    BY <1>2, <2>2
  <2>5. CASE NoWrite
    BY <1>2, <2>3, <2>4, <2>5 DEF NoWrite
  <2>6. CASE Write(t)
    <3>1. /\ status'[Target[t]] \in {"PAID", "CANCELLED"}
          /\ \A p \in Order \ {Target[t]} : status'[p] = status[p] /\ version'[p] = version[p]
      BY <1>1, <2>6, WriteSettles
    <3>2. \A o \in Order : status'[o] = "PENDING" => version'[o] = 1
      BY <1>2, <3>1
    <3>3. \A u \in Task : pc'[u] = "reread" => status'[Target[u]] \in {"PAID", "CANCELLED"}
      BY <1>2, <2>4, <3>1
    <3> QED
      BY <2>3, <3>2, <3>3
  <2> QED
    BY <1>11, <2>5, <2>6 DEF DbFault
<1>12. ASSUME Crash PROVE SettledInv' /\ CompletedJobSettlesOrder'
  <2>1. \A o \in Order : job'[o] = "completed" => job[o] = "completed"
    BY <1>2, <1>12, Zenon DEF Crash
  <2>2. \A t \in Task : pc'[t] = "reread" => pc[t] = "reread"
    BY <1>2, <1>12 DEF Crash
  <2> QED
    BY <1>12, <2>1, <2>2 DEF Crash
<1>13. CASE UNCHANGED vars
  BY <1>13 DEF vars
<1> QED
  BY <1>3, <1>4, <1>5, <1>6, <1>7, <1>8, <1>9, <1>10, <1>11, <1>12, <1>13
  DEF Next, Step, Rest

\* As long as no database call has failed, a completed auto-cancel job implies a
\* settled order, whatever crashes and concurrent handlers there were.
THEOREM CompletedJobsSettle == Spec => []CompletedJobSettlesOrder
<1> DEFINE Inv == WriterInv /\ SettledInv /\ CompletedJobSettlesOrder
<1>1. Init => Inv
  BY InitWriterInv, InitSettled
<1>2. Inv /\ [Next]_vars => Inv'
  BY NextWriterInv, NextSettled
<1>3. Inv => CompletedJobSettlesOrder
  OBVIOUS
<1> HIDE DEF Inv
<1> QED
  BY <1>1, <1>2, <1>3, PTL DEF Spec
=============================================================================
