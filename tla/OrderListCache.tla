--------------------------- MODULE OrderListCache ---------------------------
(***************************************************************************)
(* OrdersService.findAll behind @Cacheable('orders:list', ttlMs): the      *)
(* pages of the order list are read from the replica and kept in the       *)
(* process' memory for Ttl; updateStatus drops them with evictCache after  *)
(* its UPDATE.  The orders table and the handlers are those of OrderStore; *)
(* this module adds the replica, the cache, the readers and time.          *)
(*                                                                         *)
(* history is the sequence of the table's contents, one for every commit   *)
(* that changed a status, and since that of the times of these commits.  A *)
(* copy of the table, in the replica or in a page, is an index into both.  *)
(***************************************************************************)
EXTENDS Naturals, Sequences

CONSTANTS
    Order, Task, Kind, Target,  \* as in OrderStore
    Reader,     \* callers of the ORDER_LIST request
    Query,      \* the { page, pageSize } they ask for: one cache key each
    QueryOf,    \* QueryOf[r]: what r asks for
    Ttl,        \* ttlMs of the annotation
    MaxLag,     \* assumed: how far the replica is behind, at most
    MaxLatency, \* assumed: how long a page is on its way from the replica
    MaxFaults,  \* bound: rejected database calls and crashes
    MaxTime     \* bound: the clock

ASSUME CacheAssumption ==
    /\ QueryOf \in [Reader -> Query]
    /\ Ttl \in Nat \ {0} /\ MaxLag \in Nat /\ MaxLatency \in Nat
    /\ MaxFaults \in Nat /\ MaxTime \in Nat

VARIABLES status, version, job, stalled, pc, expected, writer, dbFaults, crashes

VARIABLES
    now,      \* Date.now()
    history,  \* history[i]: the statuses in the table after its i-th commit
    since,    \* since[i]: when that commit was
    replica,  \* the index that the replica has reached
    evicting, \* updates whose affected count updateStatus has not seen yet
    rp,       \* rp[r]: where the call of r is
    copy,     \* copy[r]: the index of the page that r read from the replica
    readAt,   \* readAt[r]: when r read it
    answer,   \* answer[r]: the page last answered to r, and when
    cache,    \* cache[q]: the entry of q in the decorator's store
    raced     \* history: an eviction came before the change reached the pages

storeVars == <<status, version, job, stalled, pc, expected, writer, dbFaults, crashes>>
readerVars == <<rp, copy, readAt, answer>>
vars == <<storeVars, now, history, since, replica, evicting, readerVars, cache, raced>>

MaxDbFaults == MaxFaults
MaxCrashes == MaxFaults
Store == INSTANCE OrderStore

Latest == Len(since)
NoEntry == [index |-> 0, expiresAt |-> 0]
NoAnswer == [index |-> 0, at |-> 0]
NoPage == [q \in Query |-> NoEntry]

Init ==
    /\ Store!Init
    /\ now = 0
    /\ history = <<status>>
    /\ since = <<0>>
    /\ replica = 1
    /\ evicting = {}
    /\ rp = [r \in Reader |-> "idle"]
    /\ copy = [r \in Reader |-> 0]
    /\ readAt = [r \in Reader |-> 0]
    /\ answer = [r \in Reader |-> NoAnswer]
    /\ cache = NoPage
    /\ raced = FALSE

-----------------------------------------------------------------------------
\* The commit log of the table: what a step of the store has written.
Commit ==
    IF status' = status THEN UNCHANGED <<history, since>>
    ELSE history' = Append(history, status') /\ since' = Append(since, now)

\* The call of r is over.
Ends(r) ==
    /\ rp' = [rp EXCEPT ![r] = "idle"]
    /\ copy' = [copy EXCEPT ![r] = 0]
    /\ readAt' = [readAt EXCEPT ![r] = 0]

\* r has its page.
Answers(r, i) ==
    /\ answer' = [answer EXCEPT ![r] = [index |-> i, at |-> now]]
    /\ Ends(r)

\* Mutant of Hit: an entry is served whatever its age.
HitForever(q) == cache[q] # NoEntry

\* The test of the decorator on its entry.
Hit(q) == cache[q].expiresAt > now

\* The decorated findAll is called: a hit is returned at once, and a miss goes
\* on to the replica; its answer is the later of the two steps below.
List(r) ==
    /\ rp[r] = "idle"
    /\ \/ /\ Hit(QueryOf[r])
          /\ Answers(r, cache[QueryOf[r]].index)
       \/ /\ ~Hit(QueryOf[r])
          /\ rp' = [rp EXCEPT ![r] = "miss"]
          /\ answer' = [answer EXCEPT ![r] = NoAnswer]
          /\ UNCHANGED <<copy, readAt>>
    /\ UNCHANGED <<storeVars, now, history, since, replica, evicting, cache, raced>>

\* findAll: the replica executes the query of the page.
ReadReplica(r) ==
    /\ rp[r] = "miss"
    /\ rp' = [rp EXCEPT ![r] = "fill"]
    /\ copy' = [copy EXCEPT ![r] = replica]
    /\ readAt' = [readAt EXCEPT ![r] = now]
    /\ UNCHANGED <<storeVars, now, history, since, replica, evicting, answer, cache, raced>>

\* The original method has returned: its page is stored and answered, whatever
\* was evicted since it was read.
Fill(r) ==
    /\ rp[r] = "fill"
    /\ cache' = [cache EXCEPT ![QueryOf[r]] = [index |-> copy[r], expiresAt |-> now + Ttl]]
    /\ Answers(r, copy[r])
    /\ UNCHANGED <<storeVars, now, history, since, replica, evicting, raced>>

\* The query rejects: nothing is stored.
ReadFails(r) ==
    /\ rp[r] \in {"miss", "fill"}
    /\ Ends(r)
    /\ UNCHANGED <<storeVars, now, history, since, replica, evicting, answer, cache, raced>>

-----------------------------------------------------------------------------
\* A new order and the scheduling of its job: create evicts nothing.
CreateOrder(o) ==
    /\ Store!Create(o) \/ Store!Schedule(o)
    /\ Commit
    /\ UNCHANGED <<now, replica, evicting, readerVars, cache, raced>>

\* A step of a handler that is not UPDATE; the row is read for the reply only
\* after evictCache.
Handle(t) ==
    /\ \/ Store!Receive(t) \/ Store!StartJob(t) \/ Store!Lookup(t) \/ Store!Find(t)
       \/ t \notin evicting /\ Store!Reread(t)
    /\ UNCHANGED <<now, history, since, replica, evicting, readerVars, cache, raced>>

\* Mutant of Update: evictCache runs before the UPDATE is executed.
UpdateEvictsFirst(t) ==
    /\ Store!Update(t)
    /\ Commit
    /\ cache' = NoPage
    /\ UNCHANGED <<now, replica, evicting, readerVars, raced>>

\* The UPDATE of updateStatus is executed, and committed, by the master.
Update(t) ==
    /\ Store!Update(t)
    /\ Commit
    /\ evicting' = IF status' = status /\ version' = version THEN evicting ELSE evicting \cup {t}
    /\ UNCHANGED <<now, replica, readerVars, cache, raced>>

\* updateStatus has its affected count: evictCache('orders:list') drops every
\* page; one that is on its way from the replica is not there to be dropped.
Evict(t) ==
    /\ t \in evicting
    /\ evicting' = evicting \ {t}
    /\ cache' = NoPage
    /\ raced' = (raced \/ replica < Latest \/ \E r \in Reader : rp[r] = "fill" /\ copy[r] < Latest)
    /\ UNCHANGED <<storeVars, now, history, since, replica, readerVars>>

\* A database call of a handler rejects.  When that is the UPDATE, evictCache is
\* not reached, also when the UPDATE was executed and only its reply was lost.
DbFault(t) ==
    /\ t \notin evicting
    /\ dbFaults + crashes < MaxFaults
    /\ Store!DbFault(t)
    /\ Commit
    /\ UNCHANGED <<now, replica, evicting, readerVars, cache, raced>>

\* The orders process restarts with an empty store; its calls are gone, and an
\* eviction that was due now comes as early as this.
Crash ==
    /\ dbFaults + crashes < MaxFaults
    /\ Store!Crash
    /\ cache' = NoPage
    /\ evicting' = {}
    /\ rp' = [r \in Reader |-> "idle"]
    /\ copy' = [r \in Reader |-> 0]
    /\ readAt' = [r \in Reader |-> 0]
    /\ raced' = (raced \/ (evicting # {} /\ replica < Latest))
    /\ UNCHANGED <<now, history, since, replica, answer>>

\* The replica applies the next commit.
Replicate ==
    /\ replica < Latest
    /\ replica' = replica + 1
    /\ UNCHANGED <<storeVars, now, history, since, evicting, readerVars, cache, raced>>

\* Time passes, unless replica or reader have no more of it.
Tick ==
    /\ now < MaxTime
    /\ replica < Latest => now < since[replica + 1] + MaxLag
    /\ \A r \in Reader : rp[r] = "fill" => now < readAt[r] + MaxLatency
    /\ now' = now + 1
    /\ UNCHANGED <<storeVars, history, since, replica, evicting, readerVars, cache, raced>>

Next ==
    \/ \E r \in Reader : List(r) \/ ReadReplica(r) \/ Fill(r) \/ ReadFails(r)
    \/ \E o \in Order : CreateOrder(o)
    \/ \E t \in Task : Handle(t) \/ Update(t) \/ Evict(t) \/ DbFault(t)
    \/ Crash
    \/ Replicate
    \/ Tick

Spec == Init /\ [][Next]_vars

-----------------------------------------------------------------------------
TypeOK ==
    /\ Store!TypeOK
    /\ now \in Nat
    /\ history \in Seq([Order -> Store!Statuses]) /\ Len(history) = Latest
    /\ since \in Seq(Nat)
    /\ replica \in 1..Latest
    /\ evicting \subseteq Task
    /\ rp \in [Reader -> {"idle", "miss", "fill"}]
    /\ copy \in [Reader -> 0..Latest]
    /\ readAt \in [Reader -> Nat]
    /\ answer \in [Reader -> [index : 0..Latest, at : Nat]]
    /\ cache \in [Query -> [index : 0..Latest, expiresAt : Nat]]
    /\ raced \in BOOLEAN

\* A page answered to a caller, from the cache or not, is at most so old: the
\* table held exactly it less than MaxLag + MaxLatency + Ttl before the answer
\* ("the list is cached for 30 s", comment of OrdersService.findAll), whatever
\* evictions it escaped.
AnswersAreRecent ==
    \A r \in Reader :
        LET a == answer[r] IN
        a # NoAnswer /\ a.index < Latest
            => a.at < since[a.index + 1] + MaxLag + MaxLatency + Ttl

\* "The write path evicts the cached list, against dirty reads" (comments of
\* findAll and updateStatus): as long as no eviction met a page on its way or a
\* replica that lags, and no database call failed, a page that is still served
\* shows the current status of all its orders, except one whose update is about
\* to evict it.  New orders may be missing: create does not evict.
PagesFollowUpdates ==
    ~raced /\ dbFaults = 0 =>
        \A q \in Query : cache[q] # NoEntry =>
            \A o \in Order :
                \/ history[cache[q].index][o] \in {"NONE", status[o]}
                \/ \E t \in evicting : Target[t] = o
=============================================================================
