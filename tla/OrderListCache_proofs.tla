----------------------- MODULE OrderListCache_proofs -----------------------
(***************************************************************************)
(* Proofs about OrderListCache for any orders, handlers, callers, pages,   *)
(* lifetime of an entry, lag of the replica and latency of a read.         *)
(***************************************************************************)
EXTENDS OrderListCache, TLAPS

Bound == MaxLag + MaxLatency + Ttl

\* The variables of the argument, without those of OrderStore.
LocalOK ==
    /\ now \in Nat
    /\ since \in Seq(Nat)
    /\ replica \in 1..Latest
    /\ rp \in [Reader -> {"idle", "miss", "fill"}]
    /\ copy \in [Reader -> 0..Latest]
    /\ readAt \in [Reader -> Nat]
    /\ answer \in [Reader -> [index : 0..Latest, at : Nat]]
    /\ cache \in [Query -> [index : 0..Latest, expiresAt : Nat]]

\* t is at most d after the commit by which copy i of the table was obsolete.
Within(i, t, d) == i < Latest => t <= since[i + 1] + d

\* Commits come one after the other and none in the future, and the replica applies
\* each within MaxLag.
ReplicaInv ==
    /\ \A i \in 1..Latest : since[i] <= now
    /\ \A i \in 1..Latest : Within(i, since[i], 0)
    /\ Within(replica, now, MaxLag)

\* A page on its way was read within MaxLag of the commit that it misses first,
\* and not longer than MaxLatency ago.
FillInv ==
    \A r \in Reader : rp[r] = "fill" =>
        /\ readAt[r] <= now /\ now <= readAt[r] + MaxLatency
        /\ Within(copy[r], readAt[r], MaxLag)

\* An entry is gone within Bound of the commit that it misses first.
EntryInv ==
    \A q \in Query :
        /\ cache[q].expiresAt <= now + Ttl
        /\ Within(cache[q].index, cache[q].expiresAt, Bound)

AnswerInv ==
    \A r \in Reader :
        /\ answer[r].at <= now
        /\ Within(answer[r].index, answer[r].at + 1, Bound)

AgeInv == LocalOK /\ ReplicaInv /\ FillInv /\ EntryInv /\ AnswerInv

LEMMA AgeInit == Init => AgeInv
<1> SUFFICES ASSUME Init PROVE AgeInv
    OBVIOUS
<1>1. now = 0 /\ since = <<0>> /\ replica = 1 /\ Latest = 1 /\ since[1] = 0
      BY DEF Init, Latest
<1> QED
    BY <1>1, CacheAssumption
    DEF Init, AgeInv, LocalOK, ReplicaInv, FillInv, EntryInv, AnswerInv, Within, NoEntry, NoAnswer, NoPage, Bound

\* A commit makes only the latest copy obsolete, and that as of now.
LEMMA WithinAfterCommit ==
    ASSUME LocalOK, Commit, NEW i \in 0..Latest, NEW t \in Nat, NEW d \in Nat,
           t <= now + d, Within(i, t, d)
    PROVE  i < Latest' => t <= since'[i + 1] + d
<1>1. CASE UNCHANGED since
      BY <1>1 DEF Within, Latest
<1>2. CASE since' = Append(since, now)
  <2>1. /\ Latest' = Latest + 1 /\ Latest \in Nat
        /\ since'[Latest + 1] = now
        /\ \A k \in 1..Latest : since'[k] = since[k]
        BY <1>2 DEF LocalOK, Latest
  <2>2. CASE i = Latest
        BY <2>1, <2>2
  <2>3. CASE i < Latest
        BY <2>1, <2>3, i + 1 \in 1..Latest DEF Within
  <2> QED
      BY <2>1, <2>2, <2>3
<1> QED
    BY <1>1, <1>2 DEF Commit

\* What a commit does to the times and to the copies that there are.
LEMMA CommitKeeps ==
    ASSUME AgeInv, Commit, UNCHANGED <<now, replica, readerVars, cache>>
    PROVE  AgeInv'
<1>1. /\ now' = now /\ replica' = replica /\ rp' = rp /\ copy' = copy
      /\ readAt' = readAt /\ answer' = answer /\ cache' = cache
      BY DEF readerVars
<1>2. /\ since' \in Seq(Nat) /\ Latest' \in Nat /\ Latest <= Latest' /\ Latest \in Nat
      /\ \A i \in 1..Latest' : since'[i] <= now /\ Within(i, since[i], 0)'
  <2>1. CASE UNCHANGED since
        BY <2>1 DEF AgeInv, LocalOK, ReplicaInv, Within, Latest
  <2>2. CASE since' = Append(since, now)
    <3>1. /\ since' \in Seq(Nat) /\ Latest \in Nat /\ Latest' = Latest + 1 /\ now \in Nat
          /\ since'[Latest + 1] = now
          /\ \A i \in 1..Latest : since'[i] = since[i] /\ since[i] \in Nat
          BY <2>2 DEF AgeInv, LocalOK, Latest
    <3>2. ASSUME NEW i \in 1..Latest'
          PROVE  since'[i] <= now /\ (i < Latest' => since'[i] <= since'[i + 1] + 0)
      <4>1. CASE i = Latest + 1
        <5>1. since'[i] = now /\ ~(i < Latest')
              BY <3>1, <4>1
        <5> QED
            BY <3>1, <5>1
      <4>2. CASE i = Latest
        <5>1. since'[i] = since[i] /\ since[i] <= now /\ since'[i + 1] = now
              BY <3>1, <4>2 DEF AgeInv, ReplicaInv
        <5> QED
            BY <3>1, <5>1
      <4>3. CASE i < Latest
            BY <3>1, <4>3, i + 1 \in 1..Latest, i \in 1..Latest DEF AgeInv, ReplicaInv, Within
      <4> QED
          BY <3>1, <4>1, <4>2, <4>3
    <3> QED
        BY <3>1, <3>2 DEF Within
  <2> QED
      BY <2>1, <2>2 DEF Commit
<1>3. LocalOK /\ MaxLag \in Nat /\ Bound \in Nat /\ Ttl <= Bound /\ 1 <= Bound
      BY CacheAssumption DEF AgeInv, Bound
<1>4. LocalOK'
      BY <1>1, <1>2, <1>3 DEF LocalOK
<1>5. ReplicaInv'
  <2>1. replica \in 0..Latest /\ now \in Nat /\ Within(replica, now, MaxLag)
        BY <1>2 DEF AgeInv, LocalOK, ReplicaInv
  <2>2. Within(replica, now, MaxLag)'
        BY <1>1, <1>3, <2>1, WithinAfterCommit DEF Within
  <2> QED
      BY <1>1, <1>2, <2>2 DEF ReplicaInv
<1>6. FillInv'
  <2>1. ASSUME NEW r \in Reader, rp[r] = "fill"
        PROVE  /\ readAt[r] <= now /\ now <= readAt[r] + MaxLatency
               /\ Within(copy[r], readAt[r], MaxLag)'
    <3>1. /\ copy[r] \in 0..Latest /\ readAt[r] \in Nat
          /\ readAt[r] <= now /\ now <= readAt[r] + MaxLatency
          /\ Within(copy[r], readAt[r], MaxLag)
          BY <2>1 DEF AgeInv, LocalOK, FillInv
    <3>2. readAt[r] <= now + MaxLag
          BY <1>3, <3>1 DEF LocalOK
    <3> QED
        BY <1>1, <1>3, <3>1, <3>2, WithinAfterCommit DEF Within
  <2> QED
      BY <1>1, <2>1 DEF FillInv
<1>7. EntryInv'
  <2>1. ASSUME NEW q \in Query
        PROVE  cache[q].expiresAt <= now + Ttl /\ Within(cache[q].index, cache[q].expiresAt, Bound)'
    <3>1. /\ cache[q].index \in 0..Latest /\ cache[q].expiresAt \in Nat
          /\ cache[q].expiresAt <= now + Ttl
          /\ Within(cache[q].index, cache[q].expiresAt, Bound)
          BY DEF AgeInv, LocalOK, EntryInv
    <3>2. cache[q].expiresAt <= now + Bound
          BY <1>3, <3>1, CacheAssumption DEF LocalOK
    <3> QED
        BY <1>1, <1>3, <3>1, <3>2, WithinAfterCommit DEF Within
  <2> QED
      BY <1>1, <2>1 DEF EntryInv
<1>8. AnswerInv'
  <2>1. ASSUME NEW r \in Reader
        PROVE  answer[r].at <= now /\ Within(answer[r].index, answer[r].at + 1, Bound)'
    <3>1. /\ answer[r].index \in 0..Latest /\ answer[r].at \in Nat /\ answer[r].at <= now
          /\ Within(answer[r].index, answer[r].at + 1, Bound)
          BY DEF AgeInv, LocalOK, AnswerInv
    <3>2. answer[r].at + 1 \in Nat /\ answer[r].at + 1 <= now + Bound
          BY <1>3, <3>1 DEF LocalOK
    <3> QED
        BY <1>1, <1>3, <3>1, <3>2, WithinAfterCommit DEF Within
  <2> QED
      BY <1>1, <2>1 DEF AnswerInv
<1> QED
    BY <1>4, <1>5, <1>6, <1>7, <1>8 DEF AgeInv

\* An empty store and callers without a page are as good as any.
LEMMA DropKeeps ==
    ASSUME AgeInv, cache' \in {cache, NoPage}, UNCHANGED <<now, since, replica, answer>>,
           \/ UNCHANGED readerVars
           \/ /\ rp' = [r \in Reader |-> "idle"]
              /\ copy' = [r \in Reader |-> 0]
              /\ readAt' = [r \in Reader |-> 0]
    PROVE  AgeInv'
<1>1. Latest' = Latest /\ Latest \in Nat /\ \A i \in 1..Latest : since[i] \in Nat
      BY DEF AgeInv, LocalOK, Latest
<1>2. /\ rp' \in [Reader -> {"idle", "miss", "fill"}]
      /\ copy' \in [Reader -> 0..Latest]
      /\ readAt' \in [Reader -> Nat]
  <2>1. CASE UNCHANGED readerVars
        BY <2>1 DEF AgeInv, LocalOK, readerVars
  <2>2. CASE /\ rp' = [r \in Reader |-> "idle"]
             /\ copy' = [r \in Reader |-> 0]
             /\ readAt' = [r \in Reader |-> 0]
        BY <1>1, <2>2
  <2> QED
      BY <2>1, <2>2
<1>7. LocalOK'
  <2>1. CASE cache' = cache
        BY <1>1, <1>2, <2>1 DEF AgeInv, LocalOK
  <2>2. CASE cache' = NoPage
    <3>1. cache' \in [Query -> [index : 0..Latest, expiresAt : Nat]]
          BY <1>1, <2>2 DEF NoPage, NoEntry
    <3> QED
        BY <1>1, <1>2, <3>1 DEF AgeInv, LocalOK
  <2> QED
      BY <2>1, <2>2
<1>3. ReplicaInv'
      BY <1>1 DEF AgeInv, ReplicaInv, Within
<1>4. FillInv'
      BY <1>1 DEF AgeInv, FillInv, Within, readerVars
<1>5. AnswerInv'
      BY <1>1 DEF AgeInv, AnswerInv, Within
<1>6. EntryInv'
  <2>1. CASE cache' = cache
        BY <1>1, <2>1 DEF AgeInv, EntryInv, Within
  <2>2. CASE cache' = NoPage
    <3>1. ASSUME NEW q \in Query
          PROVE  0 <= now + Ttl /\ (0 < Latest => 0 <= since[0 + 1] + Bound)
          BY <1>1, CacheAssumption DEF AgeInv, LocalOK, Bound
    <3> QED
        BY <1>1, <2>2, <3>1 DEF EntryInv, Within, NoPage, NoEntry
  <2> QED
      BY <2>1, <2>2
<1> QED
    BY <1>3, <1>4, <1>5, <1>6, <1>7 DEF AgeInv

\* A step of one call: a hit is still within its term, and a page that is stored
\* gets its term from the time of its read.
LEMMA CallKeeps ==
    ASSUME AgeInv, NEW r \in Reader, List(r) \/ ReadReplica(r) \/ Fill(r) \/ ReadFails(r)
    PROVE  AgeInv'
<1>0. /\ QueryOf[r] \in Query /\ Latest \in Nat /\ now \in Nat
      /\ \A i \in 1..Latest : since[i] \in Nat
      /\ MaxLag \in Nat /\ MaxLatency \in Nat /\ Ttl \in Nat \ {0} /\ Bound = MaxLag + MaxLatency + Ttl
      BY CacheAssumption DEF AgeInv, LocalOK, Latest, Bound
<1>1. /\ now' = now /\ since' = since /\ replica' = replica /\ Latest' = Latest
      /\ ReplicaInv'
      BY DEF AgeInv, ReplicaInv, Within, Latest, List, ReadReplica, Fill, ReadFails
<1>2. CASE List(r)
  <2>1. CASE Hit(QueryOf[r]) /\ Answers(r, cache[QueryOf[r]].index) /\ cache' = cache
    <3> DEFINE i == cache[QueryOf[r]].index
    <3>1. /\ i \in 0..Latest /\ cache[QueryOf[r]].expiresAt \in Nat
          /\ Within(i, cache[QueryOf[r]].expiresAt, Bound)
          BY <1>0 DEF AgeInv, LocalOK, EntryInv
    <3>2. Within(i, now + 1, Bound)
      <4>1. CASE i < Latest
            BY <1>0, <2>1, <3>1, <4>1, i + 1 \in 1..Latest DEF Within, Hit
      <4> QED
          BY <4>1 DEF Within
    <3> HIDE DEF i
    <3>3. LocalOK' /\ FillInv' /\ EntryInv'
          BY <1>0, <1>1, <2>1, <3>1 DEF AgeInv, LocalOK, FillInv, EntryInv, Within, Answers, Ends, i
    <3>4. AnswerInv'
          BY <1>0, <1>1, <2>1, <3>1, <3>2 DEF AgeInv, LocalOK, AnswerInv, Within, Answers, i
    <3> QED
        BY <1>1, <3>3, <3>4 DEF AgeInv
  <2>2. CASE /\ rp' = [rp EXCEPT ![r] = "miss"]
             /\ answer' = [answer EXCEPT ![r] = NoAnswer]
             /\ UNCHANGED <<copy, readAt, cache>>
    <3>1. Within(0, 0 + 1, Bound)
          BY <1>0 DEF Within
    <3>2. LocalOK' /\ FillInv' /\ EntryInv'
          BY <1>0, <1>1, <2>2 DEF AgeInv, LocalOK, FillInv, EntryInv, Within, NoAnswer
    <3>3. AnswerInv'
      <4>1. ASSUME NEW u \in Reader
            PROVE  answer'[u].at <= now /\ Within(answer'[u].index, answer'[u].at + 1, Bound)
        <5>1. CASE u = r
              BY <1>0, <2>2, <3>1, <5>1, answer'[u] = NoAnswer DEF AgeInv, LocalOK, NoAnswer
        <5>2. CASE u # r
              BY <2>2, <5>2, answer'[u] = answer[u] DEF AgeInv, LocalOK, AnswerInv
        <5> QED
            BY <5>1, <5>2
      <4> QED
          BY <1>1, <4>1 DEF AnswerInv, Within
    <3> QED
        BY <1>1, <3>2, <3>3 DEF AgeInv
  <2> QED
      BY <1>2, <2>1, <2>2 DEF List
<1>3. CASE ReadReplica(r)
  <2>1. LocalOK' /\ EntryInv' /\ AnswerInv'
        BY <1>0, <1>1, <1>3 DEF AgeInv, LocalOK, EntryInv, AnswerInv, Within, ReadReplica
  <2>2. FillInv'
        BY <1>0, <1>1, <1>3 DEF AgeInv, LocalOK, ReplicaInv, FillInv, Within, ReadReplica
  <2> QED
      BY <1>1, <2>1, <2>2 DEF AgeInv
<1>4. CASE Fill(r)
  <2>1. /\ copy[r] \in 0..Latest /\ readAt[r] \in Nat /\ now <= readAt[r] + MaxLatency
        /\ Within(copy[r], readAt[r], MaxLag)
        BY <1>4 DEF AgeInv, LocalOK, FillInv, Fill
  <2>2. Within(copy[r], now + Ttl, Bound) /\ Within(copy[r], now + 1, Bound)
    <3>1. CASE copy[r] < Latest
          BY <1>0, <2>1, <3>1, copy[r] + 1 \in 1..Latest DEF Within
    <3> QED
        BY <3>1 DEF Within
  <2>3. LocalOK' /\ FillInv'
        BY <1>0, <1>1, <1>4, <2>1 DEF AgeInv, LocalOK, FillInv, Within, Fill, Answers, Ends
  <2>4. EntryInv'
        BY <1>0, <1>1, <1>4, <2>1, <2>2 DEF AgeInv, LocalOK, EntryInv, Within, Fill
  <2>5. AnswerInv'
    <3>1. ASSUME NEW u \in Reader
          PROVE  answer'[u].at <= now /\ Within(answer'[u].index, answer'[u].at + 1, Bound)
      <4>1. CASE u = r
            BY <1>0, <1>4, <2>2, <4>1, answer'[u] = [index |-> copy[r], at |-> now]
            DEF AgeInv, LocalOK, Fill, Answers
      <4>2. CASE u # r
            BY <1>4, <4>2, answer'[u] = answer[u] DEF AgeInv, LocalOK, AnswerInv, Fill, Answers
      <4> QED
          BY <4>1, <4>2
    <3> QED
        BY <1>1, <3>1 DEF AnswerInv, Within
  <2> QED
      BY <1>1, <2>3, <2>4, <2>5 DEF AgeInv
<1>5. CASE ReadFails(r)
  <2>1. LocalOK' /\ FillInv'
        BY <1>0, <1>1, <1>5 DEF AgeInv, LocalOK, FillInv, Within, ReadFails, Ends
  <2>2. EntryInv' /\ AnswerInv'
        BY <1>1, <1>5 DEF AgeInv, EntryInv, AnswerInv, Within, ReadFails
  <2> QED
      BY <1>1, <2>1, <2>2 DEF AgeInv
<1> QED
    BY <1>2, <1>3, <1>4, <1>5

\* The replica catches up with one commit: the next one came at the earliest now.
LEMMA ReplicateKeeps == ASSUME AgeInv, Replicate PROVE AgeInv'
<1>1. /\ now' = now /\ since' = since /\ Latest' = Latest /\ Latest \in Nat /\ now \in Nat
      /\ replica' = replica + 1 /\ replica < Latest /\ replica \in 1..Latest
      /\ \A i \in 1..Latest : since[i] \in Nat
      BY DEF AgeInv, LocalOK, Replicate, Latest
<1>2. LocalOK' /\ FillInv' /\ EntryInv' /\ AnswerInv'
      BY <1>1 DEF AgeInv, LocalOK, FillInv, EntryInv, AnswerInv, Within, Replicate, readerVars
<1>3. ReplicaInv'
  <2>1. /\ \A i \in 1..Latest : since[i] <= now /\ Within(i, since[i], 0)
        /\ now <= since[replica + 1] + MaxLag
        BY <1>1 DEF AgeInv, ReplicaInv, Within
  <2>2. CASE replica + 1 < Latest
    <3>1. /\ replica + 1 \in 1..Latest /\ (replica + 1) + 1 \in 1..Latest
          /\ since[replica + 1] <= since[(replica + 1) + 1] + 0
          BY <1>1, <2>1, <2>2 DEF Within
    <3>2. now <= since[(replica + 1) + 1] + MaxLag
          BY <1>1, <2>1, <3>1, CacheAssumption
    <3> QED
        BY <1>1, <2>1, <3>2 DEF ReplicaInv, Within
  <2>3. CASE replica + 1 = Latest
        BY <1>1, <2>1, <2>3 DEF ReplicaInv, Within
  <2> QED
      BY <1>1, <2>2, <2>3
<1> QED
    BY <1>2, <1>3 DEF AgeInv

\* Time passes only as far as the replica and the reads allow.
LEMMA TickKeeps == ASSUME AgeInv, Tick PROVE AgeInv'
<1>1. /\ now' = now + 1 /\ since' = since /\ Latest' = Latest /\ Latest \in Nat /\ now \in Nat
      /\ replica' = replica /\ rp' = rp /\ copy' = copy /\ readAt' = readAt
      /\ answer' = answer /\ cache' = cache
      /\ \A i \in 1..Latest : since[i] \in Nat
      /\ MaxLag \in Nat /\ MaxLatency \in Nat /\ Ttl \in Nat
  <2>1. UNCHANGED <<since, replica, rp, copy, readAt, answer, cache>> /\ now' = now + 1
        BY DEF Tick, readerVars
  <2> QED
      BY <2>1, CacheAssumption DEF AgeInv, LocalOK, Latest
<1>2. LocalOK'
      BY <1>1 DEF AgeInv, LocalOK
<1>3. ReplicaInv'
  <2>1. ASSUME NEW i \in 1..Latest
        PROVE  since[i] <= now + 1 /\ Within(i, since[i], 0)'
        BY <1>1 DEF AgeInv, ReplicaInv, Within
  <2>2. replica < Latest => now + 1 <= since[replica + 1] + MaxLag
    <3>1. CASE replica < Latest
          BY <1>1, <3>1, replica + 1 \in 1..Latest DEF AgeInv, LocalOK, Tick
    <3> QED
        BY <3>1
  <2> QED
      BY <1>1, <2>1, <2>2 DEF ReplicaInv, Within
<1>4. FillInv'
      BY <1>1 DEF AgeInv, LocalOK, FillInv, Within, Tick
<1>5. EntryInv'
      BY <1>1 DEF AgeInv, LocalOK, EntryInv, Within
<1>6. AnswerInv'
      BY <1>1 DEF AgeInv, LocalOK, AnswerInv, Within
<1> QED
    BY <1>2, <1>3, <1>4, <1>5, <1>6 DEF AgeInv


LEMMA AgeStep == AgeInv /\ [Next]_vars => AgeInv'
<1> SUFFICES ASSUME AgeInv, [Next]_vars PROVE AgeInv'
    OBVIOUS
<1>1. ASSUME NEW r \in Reader, List(r) \/ ReadReplica(r) \/ Fill(r) \/ ReadFails(r)
      PROVE  AgeInv'
      BY <1>1, CallKeeps
<1>2. ASSUME NEW o \in Order, CreateOrder(o)
      PROVE  AgeInv'
      BY <1>2, CommitKeeps DEF CreateOrder
<1>3. ASSUME NEW t \in Task, Handle(t)
      PROVE  AgeInv'
      BY <1>3, DropKeeps DEF Handle, readerVars
<1>4. ASSUME NEW t \in Task, Update(t) \/ DbFault(t)
      PROVE  AgeInv'
      BY <1>4, CommitKeeps DEF Update, DbFault
<1>5. ASSUME NEW t \in Task, Evict(t)
      PROVE  AgeInv'
      BY <1>5, DropKeeps DEF Evict, readerVars
<1>6. CASE Crash
      BY <1>6, DropKeeps DEF Crash
<1>7. CASE Replicate
      BY <1>7, ReplicateKeeps
<1>8. CASE Tick
      BY <1>8, TickKeeps
<1>9. CASE UNCHANGED vars
      BY <1>9, DropKeeps DEF vars, readerVars
<1> QED
    BY <1>1, <1>2, <1>3, <1>4, <1>5, <1>6, <1>7, <1>8, <1>9 DEF Next

\* No page of the order list that findAll answers is older than the lag of the
\* replica, the time of a read and the lifetime of an entry together, for any
\* interleaving of reads, updates, evictions, faults and restarts.
THEOREM AnswersRecent == Spec => []AnswersAreRecent
<1>1. AgeInv => AnswersAreRecent
  <2> SUFFICES ASSUME AgeInv, NEW r \in Reader, answer[r].index < Latest
               PROVE  answer[r].at < since[answer[r].index + 1] + MaxLag + MaxLatency + Ttl
      BY DEF AnswersAreRecent
  <2>1. /\ answer[r].at \in Nat /\ Latest \in Nat /\ answer[r].index + 1 \in 1..Latest
        BY DEF AgeInv, LocalOK, Latest
  <2>2. /\ since[answer[r].index + 1] \in Nat
        /\ answer[r].at + 1 <= since[answer[r].index + 1] + Bound
        BY <2>1 DEF AgeInv, LocalOK, AnswerInv, Within, Latest
  <2> QED
      BY <2>1, <2>2, CacheAssumption DEF Bound
<1> QED
    BY <1>1, AgeInit, AgeStep, PTL DEF Spec
-----------------------------------------------------------------------------
(* That the pages follow the updates of the orders. *)

StoreTypes ==
    /\ status \in [Order -> Store!Statuses]
    /\ version \in [Order -> Nat]
    /\ dbFaults \in Nat

\* The last entry of the log is the table.
HistoryInv ==
    /\ history \in Seq([Order -> Store!Statuses])
    /\ Len(history) = Latest
    /\ history[Latest] = status

\* Copy i shows the current status of each order, but for those that it does not
\* have yet and those whose update is about to evict it.
Current(i) ==
    /\ i \in 1..Latest
    /\ \A o \in Order :
          \/ history[i][o] \in {"NONE", status[o]}
          \/ \E t \in evicting : Target[t] = o

\* Wherever a page may still come from, it comes from a current copy: the replica,
\* now and as it catches up, a read on its way, an entry.
FollowInv ==
    ~raced /\ dbFaults = 0 =>
        /\ \A i \in replica..Latest : Current(i)
        /\ \A r \in Reader : rp[r] = "fill" => Current(copy[r])
        /\ \A q \in Query : cache[q] # NoEntry => Current(cache[q].index)

PageInv == LocalOK /\ StoreTypes /\ HistoryInv /\ FollowInv

LEMMA PageInit == Init => PageInv
<1> SUFFICES ASSUME Init PROVE PageInv
    OBVIOUS
<1>1. LocalOK
      BY AgeInit DEF AgeInv
<1>2. StoreTypes
      BY DEF Init, Store!Init, StoreTypes, Store!Statuses
<1>3. HistoryInv
      BY <1>2 DEF Init, StoreTypes, HistoryInv, Latest
<1>4. FollowInv
      BY <1>3 DEF Init, HistoryInv, FollowInv, Current, Latest, NoPage
<1> QED
    BY <1>1, <1>2, <1>3, <1>4 DEF PageInv

\* What a commit leaves of a current copy, and that it adds one.
LEMMA CommitKeepsCurrent ==
    ASSUME StoreTypes, HistoryInv, Commit, evicting \subseteq evicting',
           \A o \in Order : \/ status'[o] = status[o]
                            \/ status[o] = "NONE"
                            \/ \E t \in evicting' : Target[t] = o,
           NEW i, Current(i)
    PROVE  /\ i \in 1..Latest'
           /\ \A o \in Order :
                 \/ history'[i][o] \in {"NONE", status'[o]}
                 \/ \E t \in evicting' : Target[t] = o
<1>1. i \in 1..Latest' /\ history'[i] = history[i]
  <2>1. CASE UNCHANGED <<history, since>>
        BY <2>1 DEF Current, Latest
  <2>2. CASE history' = Append(history, status') /\ since' = Append(since, now)
        BY <2>2 DEF HistoryInv, Current, Latest
  <2> QED
      BY <2>1, <2>2 DEF Commit
<1>2. ASSUME NEW o \in Order
      PROVE  \/ history[i][o] \in {"NONE", status'[o]}
             \/ \E t \in evicting' : Target[t] = o
  <2>1. CASE \E t \in evicting : Target[t] = o
        BY <2>1
  <2>2. CASE history[i][o] \in {"NONE", status[o]}
        BY <2>2
  <2> QED
      BY <2>1, <2>2 DEF Current
<1> QED
    BY <1>1, <1>2

\* A step of the store that changes orders only as the evictions account for.
LEMMA CommitFollows ==
    ASSUME PageInv, Commit, StoreTypes', LocalOK',
           UNCHANGED <<replica, readerVars, cache, raced>>,
           dbFaults' = 0 =>
              /\ dbFaults = 0
              /\ evicting \subseteq evicting'
              /\ \A o \in Order : \/ status'[o] = status[o]
                                  \/ status[o] = "NONE"
                                  \/ \E t \in evicting' : Target[t] = o
    PROVE  PageInv'
<1>1. HistoryInv'
  <2>1. CASE status' = status /\ UNCHANGED <<history, since>>
        BY <2>1 DEF PageInv, HistoryInv, Latest
  <2>2. CASE history' = Append(history, status') /\ since' = Append(since, now)
    <3>1. status' \in [Order -> Store!Statuses] /\ since \in Seq(Nat) /\ now \in Nat
          BY DEF PageInv, LocalOK, StoreTypes
    <3>2. history' \in Seq([Order -> Store!Statuses])
          BY <2>2, <3>1 DEF PageInv, HistoryInv
    <3>3. /\ Len(history') = Len(history) + 1 /\ Latest' = Latest + 1
          /\ history'[Len(history) + 1] = status'
          BY <2>2, <3>1 DEF PageInv, HistoryInv, Latest
    <3> QED
        BY <3>2, <3>3 DEF PageInv, HistoryInv
  <2> QED
      BY <2>1, <2>2 DEF Commit
<1>2. /\ replica' = replica /\ rp' = rp /\ copy' = copy /\ cache' = cache /\ raced' = raced
      BY DEF readerVars
<1>3. FollowInv'
  <2> SUFFICES ASSUME ~raced, dbFaults' = 0
               PROVE  /\ \A i \in replica..Latest' : Current(i)'
                      /\ \A r \in Reader : rp[r] = "fill" => Current(copy[r])'
                      /\ \A q \in Query : cache[q] # NoEntry => Current(cache[q].index)'
      BY <1>2 DEF FollowInv
  <2>1. /\ \A i \in replica..Latest : Current(i)
        /\ \A r \in Reader : rp[r] = "fill" => Current(copy[r])
        /\ \A q \in Query : cache[q] # NoEntry => Current(cache[q].index)
        BY DEF PageInv, FollowInv
  <2>2. ASSUME NEW i, Current(i)
        PROVE  /\ i \in 1..Latest'
               /\ \A o \in Order :
                     \/ history'[i][o] \in {"NONE", status'[o]}
                     \/ \E t \in evicting' : Target[t] = o
        BY <2>2, CommitKeepsCurrent DEF PageInv
  <2>3. ASSUME NEW i \in replica..Latest'
        PROVE  /\ i \in 1..Latest'
               /\ \A o \in Order :
                     \/ history'[i][o] \in {"NONE", status'[o]}
                     \/ \E t \in evicting' : Target[t] = o
    <3>1. CASE i \in replica..Latest
          BY <2>1, <2>2, <3>1
    <3>2. CASE i = Latest'
          BY <1>1, <3>2 DEF HistoryInv, PageInv, LocalOK, Latest
    <3>3. Latest' \in {Latest, Latest + 1} /\ Latest \in Nat /\ replica \in Nat
          BY DEF PageInv, LocalOK, HistoryInv, Commit, Latest
    <3> QED
        BY <3>1, <3>2, <3>3
  <2>4. \A r \in Reader : rp[r] = "fill" => Current(copy[r])'
        BY <1>2, <2>1, <2>2 DEF Current
  <2>5. \A q \in Query : cache[q] # NoEntry => Current(cache[q].index)'
        BY <1>2, <2>1, <2>2 DEF Current
  <2> QED
      BY <2>3, <2>4, <2>5 DEF Current
<1> QED
    BY <1>1, <1>3 DEF PageInv

LEMMA TypesStep == StoreTypes /\ [Next]_vars => StoreTypes'
<1> SUFFICES ASSUME StoreTypes, [Next]_vars PROVE StoreTypes'
    OBVIOUS
<1> USE DEF StoreTypes, Store!Statuses
<1>1. ASSUME NEW o \in Order, CreateOrder(o)
      PROVE  StoreTypes'
      BY <1>1 DEF CreateOrder, Store!Create, Store!Schedule, Store!ScheduleSettles
<1>2. ASSUME NEW t \in Task, Store!Write(t) \/ Store!NoWrite
      PROVE  status' \in [Order -> Store!Statuses] /\ version' \in [Order -> Nat]
      BY <1>2 DEF Store!Write, Store!NoWrite, Store!NewStatus
<1>3. ASSUME NEW t \in Task, Handle(t)
      PROVE  StoreTypes'
      BY <1>3 DEF Handle, Store!Receive, Store!StartJob, Store!Lookup, Store!Find, Store!Reread
<1>4. ASSUME NEW t \in Task, Update(t) \/ DbFault(t)
      PROVE  StoreTypes'
  <2>1. Store!Write(t) \/ Store!NoWrite
        BY <1>4 DEF Update, DbFault, Store!Update, Store!DbFault
  <2>2. dbFaults' \in {dbFaults, dbFaults + 1}
        BY <1>4 DEF Update, DbFault, Store!Update, Store!DbFault
  <2> QED
      BY <1>2, <2>1, <2>2
<1>5. CASE Crash
      BY <1>5 DEF Crash, Store!Crash
<1>6. CASE UNCHANGED storeVars
      BY <1>6 DEF storeVars
<1>7. UNCHANGED vars => UNCHANGED storeVars
      BY DEF vars
<1> QED
    BY <1>1, <1>3, <1>4, <1>5, <1>6, <1>7
    DEF Next, List, ReadReplica, Fill, ReadFails, Evict, Replicate, Tick

\* A new order is in no page yet, and an update is followed by its eviction.
LEMMA StoreFollows ==
    ASSUME PageInv, LocalOK', StoreTypes',
           \/ \E o \in Order : CreateOrder(o)
           \/ \E t \in Task : Update(t) \/ DbFault(t)
    PROVE  PageInv'
<1>1. ASSUME NEW o \in Order, CreateOrder(o)
      PROVE  PageInv'
  <2>1. /\ dbFaults' = dbFaults
        /\ \A u \in Order : status'[u] = status[u] \/ status[u] = "NONE"
        BY <1>1 DEF CreateOrder, Store!Create, Store!Schedule, Store!ScheduleSettles, PageInv, StoreTypes
  <2>2. /\ Commit /\ evicting' = evicting
        /\ UNCHANGED <<replica, readerVars, cache, raced>>
        BY <1>1 DEF CreateOrder
  <2> QED
      BY <2>1, <2>2, CommitFollows
<1>2. ASSUME NEW t \in Task, Update(t)
      PROVE  PageInv'
  <2>1. dbFaults' = dbFaults /\ (Store!Write(t) \/ Store!NoWrite)
        BY <1>2 DEF Update, Store!Update
  <2>2. Commit /\ UNCHANGED <<replica, readerVars, cache, raced>>
        BY <1>2 DEF Update
  <2>3. evicting \subseteq evicting'
        BY <1>2 DEF Update
  <2>4. ASSUME NEW o \in Order, status'[o] # status[o]
        PROVE  \E u \in evicting' : Target[u] = o
    <3>1. Target[t] = o /\ status' # status
          BY <2>1, <2>4 DEF Store!Write, Store!NoWrite, PageInv, StoreTypes
    <3>2. t \in evicting'
          BY <1>2, <3>1 DEF Update
    <3> QED
        BY <3>1, <3>2
  <2> QED
      BY <2>1, <2>2, <2>3, <2>4, CommitFollows
<1>3. ASSUME NEW t \in Task, DbFault(t)
      PROVE  PageInv'
  <2>1. dbFaults' # 0
        BY <1>3 DEF DbFault, Store!DbFault, PageInv, StoreTypes
  <2>2. Commit /\ UNCHANGED <<replica, readerVars, cache, raced>>
        BY <1>3 DEF DbFault
  <2> QED
      BY <2>1, <2>2, CommitFollows
<1> QED
    BY <1>1, <1>2, <1>3

\* A step that leaves the table alone and finds its pages where they were current.
LEMMA CallFollows ==
    ASSUME PageInv, LocalOK', StoreTypes',
           NEW r \in Reader, List(r) \/ ReadReplica(r) \/ Fill(r) \/ ReadFails(r)
    PROVE  PageInv'
<1>0. /\ status' = status /\ history' = history /\ since' = since /\ evicting' = evicting
      /\ replica' = replica /\ raced' = raced /\ dbFaults' = dbFaults /\ Latest' = Latest
  <2>1. UNCHANGED <<storeVars, history, since, replica, evicting, raced>>
        BY DEF List, ReadReplica, Fill, ReadFails
  <2> QED
      BY <2>1 DEF storeVars, Latest
<1>1. HistoryInv'
      BY <1>0 DEF PageInv, HistoryInv
<1>2. FollowInv'
  <2> SUFFICES ASSUME ~raced, dbFaults = 0
               PROVE  /\ \A i \in replica..Latest : Current(i)'
                      /\ \A s \in Reader : rp'[s] = "fill" => Current(copy[s])'
                      /\ \A q \in Query : cache'[q] # NoEntry => Current(cache[q].index)'
      BY <1>0 DEF FollowInv
  <2>1. /\ \A i \in replica..Latest : Current(i)
        /\ \A s \in Reader : rp[s] = "fill" => Current(copy[s])
        /\ \A q \in Query : cache[q] # NoEntry => Current(cache[q].index)
        BY DEF PageInv, FollowInv
  <2>2. /\ rp \in [Reader -> {"idle", "miss", "fill"}]
        /\ copy \in [Reader -> 0..Latest]
        /\ cache \in [Query -> [index : 0..Latest, expiresAt : Nat]]
        /\ replica \in replica..Latest
        BY DEF PageInv, LocalOK, Latest
  <2>3. \A i \in replica..Latest : Current(i)'
        BY <1>0, <2>1 DEF Current
  <2>4. ASSUME NEW s \in Reader, rp'[s] = "fill"
        PROVE  Current(copy[s])'
    <3>1. \/ copy'[s] = replica
          \/ rp[s] = "fill" /\ copy'[s] = copy[s]
          BY <2>2, <2>4 DEF List, ReadReplica, Fill, ReadFails, Answers, Ends
    <3> QED
        BY <1>0, <2>1, <2>2, <3>1 DEF Current
  <2>5. ASSUME NEW q \in Query, cache'[q] # NoEntry
        PROVE  Current(cache[q].index)'
    <3>1. \/ cache'[q] = cache[q]
          \/ rp[r] = "fill" /\ cache'[q].index = copy[r]
          BY <2>2, <2>5 DEF List, ReadReplica, Fill, ReadFails
    <3> QED
        BY <1>0, <2>1, <2>5, <3>1 DEF Current
  <2> QED
      BY <2>3, <2>4, <2>5
<1> QED
    BY <1>1, <1>2 DEF PageInv

\* An eviction that was not raced finds nothing but the latest copy, so that
\* nothing needs an excuse after it; a crash is an eviction.
LEMMA EvictionFollows ==
    ASSUME PageInv, LocalOK', StoreTypes', (\E t \in Task : Evict(t)) \/ Crash
    PROVE  PageInv'
<1>0. /\ status' = status /\ history' = history /\ since' = since /\ replica' = replica
      /\ dbFaults' = dbFaults /\ Latest' = Latest /\ cache' = NoPage
      BY DEF Evict, Crash, Store!Crash, storeVars, Latest
<1>1. HistoryInv'
      BY <1>0 DEF PageInv, HistoryInv
<1>2. FollowInv'
  <2> SUFFICES ASSUME ~raced', dbFaults = 0
               PROVE  /\ \A i \in replica..Latest : Current(i)'
                      /\ \A s \in Reader : rp'[s] = "fill" => Current(copy[s])'
      BY <1>0 DEF FollowInv, NoPage
  <2>1. /\ ~raced
        /\ \A i \in replica..Latest : Current(i)
        /\ \A s \in Reader : rp[s] = "fill" => Current(copy[s])
        BY DEF Evict, Crash, PageInv, FollowInv
  <2>2. Latest \in 1..Latest /\ replica \in 1..Latest /\ history[Latest] = status
        BY DEF PageInv, LocalOK, HistoryInv, Latest
  <2>3. /\ Latest \in 1..Latest'
        /\ \A o \in Order : history'[Latest][o] \in {"NONE", status'[o]}
        BY <1>0, <2>2
  <2>4. CASE \E t \in Task : Evict(t)
    <3>1. /\ ~(replica < Latest) /\ rp' = rp /\ copy' = copy
          /\ \A s \in Reader : rp[s] = "fill" => ~(copy[s] < Latest)
          BY <2>4 DEF Evict, readerVars
    <3>2. \A s \in Reader : rp[s] = "fill" => copy[s] = Latest
          BY <2>1, <2>2, <3>1 DEF Current
    <3> QED
        BY <2>2, <2>3, <3>1, <3>2 DEF Current
  <2>5. CASE Crash
    <3>1. /\ rp' = [s \in Reader |-> "idle"]
          /\ evicting = {} \/ ~(replica < Latest)
          BY <2>5 DEF Crash
    <3>2. CASE evicting = {}
          BY <1>0, <2>1, <3>1, <3>2 DEF Current
    <3>3. CASE ~(replica < Latest)
          BY <2>2, <2>3, <3>1, <3>3 DEF Current
    <3> QED
        BY <3>1, <3>2, <3>3
  <2> QED
      BY <2>4, <2>5
<1> QED
    BY <1>1, <1>2 DEF PageInv

LEMMA QuietFollows ==
    ASSUME PageInv, LocalOK', StoreTypes',
           Replicate \/ Tick \/ (\E t \in Task : Handle(t)) \/ UNCHANGED vars
    PROVE  PageInv'
<1>1. /\ status' = status /\ history' = history /\ since' = since /\ Latest' = Latest
      /\ evicting' = evicting /\ dbFaults' = dbFaults /\ raced' = raced
      /\ rp' = rp /\ copy' = copy /\ cache' = cache
  <2>1. UNCHANGED <<history, since, evicting, readerVars, cache, raced>>
        BY DEF Replicate, Tick, Handle, vars
  <2>2. status' = status /\ dbFaults' = dbFaults
        BY DEF Replicate, Tick, Handle, vars, storeVars,
               Store!Receive, Store!StartJob, Store!Lookup, Store!Find, Store!Reread
  <2> QED
      BY <2>1, <2>2 DEF readerVars, Latest
<1>2. replica' \in replica..Latest
      BY DEF PageInv, LocalOK, Latest, Replicate, Tick, Handle, vars
<1>3. HistoryInv'
      BY <1>1 DEF PageInv, HistoryInv
<1>4. FollowInv'
      BY <1>1, <1>2 DEF PageInv, LocalOK, FollowInv, Current, Latest
<1> QED
    BY <1>3, <1>4 DEF PageInv

\* As long as no eviction met a page on its way or a lagging replica, and no
\* database call failed, no entry of the cache shows an outdated status of an
\* order that is in it, except while the update's own eviction is under way.
THEOREM PagesShowUpdates == Spec => []PagesFollowUpdates
<1>1. AgeInv /\ PageInv /\ [Next]_vars => PageInv'
  <2> SUFFICES ASSUME AgeInv, PageInv, [Next]_vars PROVE PageInv'
      OBVIOUS
  <2>1. LocalOK' /\ StoreTypes'
        BY AgeStep, TypesStep DEF AgeInv, PageInv
  <2> QED
      BY <2>1, StoreFollows, CallFollows, EvictionFollows, QuietFollows DEF Next
<1>2. PageInv => PagesFollowUpdates
  <2> SUFFICES ASSUME PageInv, ~raced, dbFaults = 0, NEW q \in Query, cache[q] # NoEntry
               PROVE  \A o \in Order :
                         \/ history[cache[q].index][o] \in {"NONE", status[o]}
                         \/ \E t \in evicting : Target[t] = o
      BY DEF PagesFollowUpdates
  <2> QED
      BY DEF PageInv, FollowInv, Current
<1> QED
    BY <1>1, <1>2, AgeInit, AgeStep, PageInit, PTL DEF Spec
=============================================================================
