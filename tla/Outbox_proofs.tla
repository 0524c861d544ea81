---------------------------- MODULE Outbox_proofs ----------------------------
(***************************************************************************)
(* Proofs about Outbox for any messages, any number of overlapping drains  *)
(* and any bounds: types, the single copy of a message while no command is *)
(* executed twice, and that nothing is lost without failures of Redis or   *)
(* crashes.                                                                *)
(***************************************************************************)
EXTENDS Outbox, TLAPS

\* What Append does to the entries of the list.
LEMMA Appended ==
    ASSUME NEW s \in Seq(Entry), NEW e \in Entry
    PROVE  /\ Append(s, e) \in Seq(Entry)
           /\ DOMAIN Append(s, e) = 1..(Len(s) + 1)
           /\ DOMAIN s = 1..Len(s) /\ Len(s) \in Nat
           /\ \A i \in 1..Len(s) : Append(s, e)[i] = s[i]
           /\ Append(s, e)[Len(s) + 1] = e
OBVIOUS

\* What Tail does to the entries of the list, and which one Head is.
LEMMA Removed ==
    ASSUME NEW s \in Seq(Entry), s # <<>>
    PROVE  /\ Tail(s) \in Seq(Entry)
           /\ Head(s) \in Entry /\ Head(s) = s[1]
           /\ DOMAIN s = 1..Len(s) /\ Len(s) \in Nat /\ Len(s) >= 1
           /\ DOMAIN Tail(s) = 1..(Len(s) - 1)
           /\ \A i \in 1..(Len(s) - 1) : Tail(s)[i] = s[i + 1]
OBVIOUS

\* What putting an entry in front does to the entries of the list.
LEMMA Prepended ==
    ASSUME NEW s \in Seq(Entry), NEW e \in Entry
    PROVE  /\ InFront(e, s) \in Seq(Entry)
           /\ DOMAIN InFront(e, s) = 1..(Len(s) + 1)
           /\ DOMAIN s = 1..Len(s) /\ Len(s) \in Nat
           /\ InFront(e, s)[1] = e
           /\ \A i \in 1..Len(s) : InFront(e, s)[i + 1] = s[i]
<1>1. /\ <<e>> \o s \in Seq(Entry)
      /\ Len(<<e>> \o s) = Len(s) + 1
      OBVIOUS
<1> QED
    BY <1>1 DEF InFront

-----------------------------------------------------------------------------
\* The messages of a list are pairwise different.
Distinct(s) == \A i, j \in DOMAIN s : s[i].msg = s[j].msg => i = j

\* m is on the list s.
On(m, s) == \E i \in DOMAIN s : s[i].msg = m

\* The messages of a list after an Append, and whether they are still different.
LEMMA OnAppended ==
    ASSUME NEW s \in Seq(Entry), NEW e \in Entry
    PROVE  /\ \A m : On(m, Append(s, e)) <=> On(m, s) \/ m = e.msg
           /\ Distinct(s) /\ ~On(e.msg, s) => Distinct(Append(s, e))
<1> USE DEF Distinct, On
<1>1. /\ \A i \in 1..Len(s) : Append(s, e)[i] = s[i] /\ i \in DOMAIN Append(s, e)
      /\ Append(s, e)[Len(s) + 1] = e /\ Len(s) + 1 \in DOMAIN Append(s, e)
      /\ \A i \in DOMAIN Append(s, e) : i = Len(s) + 1 \/ i \in 1..Len(s)
      /\ DOMAIN s = 1..Len(s)
      BY Appended
<1> QED
    BY <1>1

\* The messages of a list whose first entry is taken off.
LEMMA OnRemoved ==
    ASSUME NEW s \in Seq(Entry), s # <<>>
    PROVE  /\ \A m : On(m, s) <=> On(m, Tail(s)) \/ m = Head(s).msg
           /\ Distinct(s) => Distinct(Tail(s)) /\ ~On(Head(s).msg, Tail(s))
<1> USE DEF Distinct, On
<1>1. /\ \A i \in DOMAIN Tail(s) : /\ i \in Nat /\ i >= 1 /\ i + 1 \in DOMAIN s
                                   /\ Tail(s)[i] = s[i + 1]
      /\ 1 \in DOMAIN s /\ Head(s) = s[1]
      /\ \A i \in DOMAIN s : i = 1 \/ (i - 1 \in DOMAIN Tail(s) /\ Tail(s)[i - 1] = s[i])
      BY Removed
<1>2. Distinct(s) => Distinct(Tail(s))
      BY <1>1
<1>3. Distinct(s) => ~On(Head(s).msg, Tail(s))
      BY <1>1
<1>4. ASSUME NEW m
      PROVE  On(m, s) <=> On(m, Tail(s)) \/ m = Head(s).msg
  <2>1. On(m, Tail(s)) => On(m, s)
        BY <1>1
  <2>2. m = Head(s).msg => On(m, s)
        BY <1>1
  <2>3. ASSUME NEW i \in DOMAIN s, s[i].msg = m, m # Head(s).msg
        PROVE  On(m, Tail(s))
        BY <1>1, <2>3
  <2> QED
      BY <2>1, <2>2, <2>3
<1> QED
    BY <1>2, <1>3, <1>4

\* The messages of a list with one more entry in front.
LEMMA OnPrepended ==
    ASSUME NEW s \in Seq(Entry), NEW e \in Entry
    PROVE  /\ \A m : On(m, InFront(e, s)) <=> On(m, s) \/ m = e.msg
           /\ Distinct(s) /\ ~On(e.msg, s) => Distinct(InFront(e, s))
<1> DEFINE t == InFront(e, s)
<1>1. /\ t[1] = e /\ 1 \in DOMAIN t
      /\ \A i \in DOMAIN s : i \in Nat /\ i >= 1 /\ i + 1 \in DOMAIN t /\ t[i + 1] = s[i]
      /\ \A i \in DOMAIN t : i \in Nat /\ (i = 1 \/ (i - 1 \in DOMAIN s /\ t[i] = s[i - 1]))
  <2>1. /\ DOMAIN t = 1..(Len(s) + 1) /\ DOMAIN s = 1..Len(s) /\ Len(s) \in Nat
        /\ t[1] = e /\ \A i \in 1..Len(s) : t[i + 1] = s[i]
        BY Prepended
  <2>2. \A i \in 2..(Len(s) + 1) : i - 1 \in 1..Len(s) /\ t[i] = s[i - 1]
    <3> SUFFICES ASSUME NEW i \in 2..(Len(s) + 1)
                 PROVE  i - 1 \in 1..Len(s) /\ t[i] = s[i - 1]
        OBVIOUS
    <3>1. i - 1 \in 1..Len(s) /\ (i - 1) + 1 = i
          BY <2>1
    <3> QED
        BY <3>1, <2>1
  <2> HIDE DEF t
  <2> QED
      BY <2>1, <2>2
<1> HIDE DEF t
<1>2. Distinct(s) /\ ~On(e.msg, s) => Distinct(t)
      BY <1>1 DEF Distinct, On
<1>3. ASSUME NEW m
      PROVE  On(m, t) <=> On(m, s) \/ m = e.msg
      BY <1>1 DEF On
<1> QED
    BY <1>2, <1>3 DEF t

-----------------------------------------------------------------------------
Busy(w) == pc[w] \in {"emit", "pushback"}

\* A fresh entry and the one in the hands of a drain are entries.
LEMMA EntryTypes ==
    ASSUME TypeOK
    PROVE  /\ \A m \in Msg : Fresh(m) \in Entry /\ Fresh(m).msg = m
           /\ \A w \in Drain : msg[w] \in Msg => InHand(w) \in Entry /\ InHand(w).msg = msg[w]
BY OutboxAssumption DEF TypeOK, Entry, Fresh, InHand

\* What an RPOP that finds an entry leaves behind.
LEMMA AfterPop ==
    ASSUME TypeOK, Popped
    PROVE  /\ queue' \in Seq(Entry)
           /\ Head(queue).msg \in Msg /\ Head(queue).retries \in 0..MaxRetries
           /\ \A m : On(m, queue) <=> On(m, queue') \/ m = Head(queue).msg
           /\ Distinct(queue) => Distinct(queue') /\ ~On(Head(queue).msg, queue')
<1>1. queue \in Seq(Entry) /\ queue # <<>> /\ queue' = Tail(queue)
      BY DEF TypeOK, Popped
<1>2. Head(queue) \in Entry /\ Tail(queue) \in Seq(Entry)
      BY <1>1, Removed
<1>3. /\ \A m : On(m, queue) <=> On(m, Tail(queue)) \/ m = Head(queue).msg
      /\ Distinct(queue) => Distinct(Tail(queue)) /\ ~On(Head(queue).msg, Tail(queue))
      BY <1>1, OnRemoved
<1> QED
    BY <1>1, <1>2, <1>3 DEF Entry

\* What an RPUSH of the message in the hands of w leaves behind.
LEMMA AfterPushBack ==
    ASSUME TypeOK, NEW w \in Drain, msg[w] \in Msg, PushedBack(w)
    PROVE  /\ queue' \in Seq(Entry)
           /\ \A m : On(m, queue') <=> On(m, queue) \/ m = msg[w]
           /\ Distinct(queue) /\ ~On(msg[w], queue) => Distinct(queue')
<1>1. queue \in Seq(Entry) /\ queue' = InFront(InHand(w), queue)
      BY DEF TypeOK, PushedBack
<1>2. InHand(w) \in Entry /\ InHand(w).msg = msg[w]
      BY EntryTypes
<1>3. InFront(InHand(w), queue) \in Seq(Entry)
      BY <1>1, <1>2, Prepended
<1>4. /\ \A m : On(m, InFront(InHand(w), queue)) <=> On(m, queue) \/ m = msg[w]
      /\ Distinct(queue) /\ ~On(msg[w], queue) => Distinct(InFront(InHand(w), queue))
      BY <1>1, <1>2, OnPrepended
<1> QED
    BY <1>1, <1>3, <1>4

\* What an RPUSH that is executed twice leaves behind.
LEMMA AfterPushBackTwice ==
    ASSUME TypeOK, NEW w \in Drain, msg[w] \in Msg,
           queue' = InFront(InHand(w), InFront(InHand(w), queue))
    PROVE  /\ queue' \in Seq(Entry)
           /\ \A m : On(m, queue') <=> On(m, queue) \/ m = msg[w]
<1>1. queue \in Seq(Entry) /\ InHand(w) \in Entry /\ InHand(w).msg = msg[w]
      BY EntryTypes DEF TypeOK
<1>2. /\ InFront(InHand(w), queue) \in Seq(Entry)
      /\ \A m : On(m, InFront(InHand(w), queue)) <=> On(m, queue) \/ m = msg[w]
      BY <1>1, Prepended, OnPrepended
<1> DEFINE once == InFront(InHand(w), queue)
<1> HIDE DEF once
<1>3. once \in Seq(Entry) /\ \A m : On(m, once) <=> On(m, queue) \/ m = msg[w]
      BY <1>2 DEF once
<1>4. /\ InFront(InHand(w), once) \in Seq(Entry)
      /\ \A m : On(m, InFront(InHand(w), once)) <=> On(m, once) \/ m = msg[w]
      BY <1>1, <1>3, Prepended, OnPrepended
<1> QED
    BY <1>3, <1>4 DEF once

\* What enqueue leaves behind, its LPUSH being executed once or twice.
LEMMA AfterEnqueue ==
    ASSUME TypeOK, NEW m \in Msg, Enqueue(m) \/ EnqueueResent(m)
    PROVE  /\ queue' \in Seq(Entry)
           /\ \A n : On(n, queue') <=> On(n, queue) \/ n = m
           /\ Enqueue(m) /\ Distinct(queue) /\ ~On(m, queue) => Distinct(queue')
<1> DEFINE once == Append(queue, Fresh(m))
<1>1. queue \in Seq(Entry) /\ Fresh(m) \in Entry /\ Fresh(m).msg = m
      BY EntryTypes DEF TypeOK
<1>2. /\ once \in Seq(Entry)
      /\ \A n : On(n, once) <=> On(n, queue) \/ n = m
      /\ Distinct(queue) /\ ~On(m, queue) => Distinct(once)
      BY <1>1, Appended, OnAppended
<1>3. Enqueue(m) => queue' = once
      BY DEF Enqueue
<1>4. EnqueueResent(m) => queue' = Append(once, Fresh(m))
      BY DEF EnqueueResent
<1> HIDE DEF once
<1>5. /\ Append(once, Fresh(m)) \in Seq(Entry)
      /\ \A n : On(n, Append(once, Fresh(m))) <=> On(n, once) \/ n = m
      BY <1>1, <1>2, Appended, OnAppended
<1>6. CASE Enqueue(m)
      BY <1>2, <1>3, <1>6
<1>7. CASE EnqueueResent(m) /\ ~Enqueue(m)
      BY <1>2, <1>4, <1>5, <1>7
<1> QED
    BY <1>6, <1>7

-----------------------------------------------------------------------------
\* Drains that are busy have a message in their hands.
TypeInv == TypeOK /\ \A w \in Drain : Busy(w) => msg[w] \in Msg

\* Initially the list is empty and every drain is at rest.
LEMMA TypeInit == Init => TypeInv
BY OutboxAssumption DEF Init, TypeInv, TypeOK, Busy

\* A drain that goes on with nothing in its hands keeps what TypeInv says of drains.
LEMMA ReleaseTypes ==
    ASSUME TypeInv, NEW w \in Drain, NEW next \in {"idle", "pop"}, Release(w, next)
    PROVE  /\ pc' \in [Drain -> {"idle", "pop", "emit", "pushback"}]
           /\ msg' \in [Drain -> Msg \cup {NoMsg}]
           /\ retries' \in [Drain -> 0..MaxRetries]
           /\ \A v \in Drain : Busy(v)' => v # w /\ Busy(v) /\ msg'[v] = msg[v]
           /\ \A v \in Drain : Busy(v) /\ v # w => Busy(v)' /\ msg'[v] = msg[v]
           /\ \A v \in Drain : Busy(v)' => msg'[v] \in Msg
BY OutboxAssumption DEF TypeInv, TypeOK, Release, Goto, Busy

\* A fault that happens is one of the kinds, within the bound.
LEMMA FaultTypes ==
    ASSUME TypeOK, NEW kind, Fault(kind)
    PROVE  happened' \subseteq Faults /\ faults' \in 0..MaxFaults
BY OutboxAssumption DEF TypeOK, Fault

\* The subscribers' counts stay counts.
LEMMA HearsTypes ==
    ASSUME TypeOK, NEW m \in Msg, Hears(m) \/ UNCHANGED heard
    PROVE  heard' \in [Msg -> Nat]
<1>1. heard \in [Msg -> Nat]
      BY DEF TypeOK
<1>2. CASE Hears(m)
      BY <1>1, <1>2 DEF Hears
<1> QED
    BY <1>1, <1>2

\* What a failed attempt to publish changes.
LEMMA AfterEmitFails ==
    ASSUME TypeInv, NEW w \in Drain, EmitFails(w)
    PROVE  /\ TypeInv'
           /\ \/ /\ pc' = [pc EXCEPT ![w] = "pushback"] /\ pc[w] = "emit"
                 /\ UNCHANGED <<msg, dropped>>
              \/ dropped' = dropped \cup {msg[w]} /\ Release(w, "pop") /\ pc[w] = "emit"
<1>1. /\ pc[w] = "emit" /\ Busy(w) /\ msg[w] \in Msg /\ retries[w] \in 0..MaxRetries
      /\ UNCHANGED <<queue, enqueued, published>>
      /\ failed' = [failed EXCEPT ![msg[w]] = @ + 1]
      /\ Hears(msg[w]) \/ UNCHANGED heard
      BY DEF EmitFails, TypeInv, TypeOK, Busy
<1>2. heard' \in [Msg -> Nat]
      BY <1>1, HearsTypes DEF TypeInv
<1>3. failed' \in [Msg -> Nat]
      BY <1>1 DEF TypeInv, TypeOK
<1>4. happened' \subseteq Faults /\ faults' \in 0..MaxFaults
      BY FaultTypes DEF EmitFails, TypeInv
<1>5. CASE retries[w] + 1 <= MaxRetries
  <2>1. /\ pc' = [pc EXCEPT ![w] = "pushback"]
        /\ retries' = [retries EXCEPT ![w] = @ + 1]
        /\ UNCHANGED <<msg, dropped>>
        BY <1>1, <1>5, OutboxAssumption DEF EmitFails, Goto
  <2>2. retries' \in [Drain -> 0..MaxRetries]
        BY <1>1, <1>5, <2>1, OutboxAssumption DEF TypeInv, TypeOK
  <2> QED
      BY <1>1, <1>2, <1>3, <1>4, <2>1, <2>2 DEF TypeInv, TypeOK, Busy
<1>6. CASE retries[w] + 1 > MaxRetries
  <2>1. dropped' = dropped \cup {msg[w]} /\ Release(w, "pop")
        BY <1>1, <1>6, OutboxAssumption DEF EmitFails
  <2> QED
      BY <1>1, <1>2, <1>3, <1>4, <2>1, ReleaseTypes DEF TypeInv, TypeOK
<1> QED
    BY <1>1, <1>5, <1>6, OutboxAssumption

\* Every action keeps TypeInv.
LEMMA TypeStep == TypeInv /\ [Next]_vars => TypeInv'
<1> SUFFICES ASSUME TypeInv, [Next]_vars
             PROVE  TypeInv'
    OBVIOUS
<1>0. TypeOK /\ \A w \in Drain : Busy(w) => msg[w] \in Msg
      BY DEF TypeInv
<1>1. ASSUME NEW m \in Msg, Enqueue(m) \/ EnqueueResent(m)
      PROVE  TypeInv'
  <2>1. queue' \in Seq(Entry)
        BY <1>0, <1>1, AfterEnqueue
  <2>2. happened' \subseteq Faults /\ faults' \in 0..MaxFaults
        BY <1>0, <1>1, FaultTypes DEF Enqueue, EnqueueResent, faultVars, TypeOK
  <2> QED
      BY <1>0, <1>1, <2>1, <2>2 DEF Enqueue, EnqueueResent, TypeInv, TypeOK, Busy
<1>2. ASSUME NEW w \in Drain, Round(w)
      PROVE  TypeInv'
      BY <1>0, <1>2 DEF Round, Goto, faultVars, TypeInv, TypeOK, Busy
<1>3. ASSUME NEW w \in Drain, Pop(w)
      PROVE  TypeInv'
  <2>1. CASE Popped
    <3>1. /\ msg' = [msg EXCEPT ![w] = Head(queue).msg]
          /\ retries' = [retries EXCEPT ![w] = Head(queue).retries]
          /\ pc' = [pc EXCEPT ![w] = "emit"]
          /\ UNCHANGED <<enqueued, published, dropped, heard, failed, faultVars>>
          BY <1>3, <2>1 DEF Pop, Popped, Goto
    <3>2. /\ queue' \in Seq(Entry)
          /\ Head(queue).msg \in Msg /\ Head(queue).retries \in 0..MaxRetries
          BY <1>0, <2>1, AfterPop
    <3> QED
        BY <1>0, <3>1, <3>2 DEF faultVars, TypeInv, TypeOK, Busy
  <2>2. CASE ~Popped
        BY <1>0, <1>3, <2>2 DEF Pop, Goto, faultVars, TypeInv, TypeOK, Busy
  <2> QED
      BY <2>1, <2>2
<1>4. ASSUME NEW w \in Drain, PopFails(w)
      PROVE  TypeInv'
  <2>1. queue' \in Seq(Entry)
        BY <1>0, <1>4, AfterPop DEF PopFails, TypeOK
  <2>2. happened' \subseteq Faults /\ faults' \in 0..MaxFaults
        BY <1>0, <1>4, FaultTypes DEF PopFails
  <2> QED
      BY <1>0, <1>4, <2>1, <2>2 DEF PopFails, Goto, TypeInv, TypeOK, Busy
<1>5. ASSUME NEW w \in Drain, Emit(w) \/ EmitUnheard(w) \/ EmitResent(w)
      PROVE  TypeInv'
  <2>1. /\ msg[w] \in Msg /\ Release(w, "pop")
        /\ published' = published \cup {msg[w]}
        /\ UNCHANGED <<queue, enqueued, dropped, failed>>
        BY <1>0, <1>5 DEF Emit, EmitUnheard, EmitResent, Busy
  <2>2. heard' \in [Msg -> Nat]
    <3>1. CASE EmitResent(w)
      <4>1. heard' = [heard EXCEPT ![msg[w]] = @ + 2] /\ heard \in [Msg -> Nat]
            BY <1>0, <3>1 DEF EmitResent, TypeOK
      <4> QED
          BY <2>1, <4>1
    <3>2. CASE Emit(w) \/ EmitUnheard(w)
          BY <1>0, <2>1, <3>2, HearsTypes DEF Emit, EmitUnheard
    <3> QED
        BY <1>5, <3>1, <3>2
  <2>3. happened' \subseteq Faults /\ faults' \in 0..MaxFaults
        BY <1>0, <1>5, FaultTypes DEF Emit, EmitUnheard, EmitResent, faultVars, TypeOK
  <2> QED
      BY <1>0, <2>1, <2>2, <2>3, ReleaseTypes DEF TypeInv, TypeOK
<1>6. ASSUME NEW w \in Drain, EmitFails(w)
      PROVE  TypeInv'
      BY <1>6, AfterEmitFails
<1>7. ASSUME NEW w \in Drain, PushBack(w) \/ PushBackResent(w) \/ PushBackFails(w)
      PROVE  TypeInv'
  <2>1. msg[w] \in Msg /\ (Release(w, "pop") \/ Release(w, "idle"))
        BY <1>0, <1>7 DEF PushBack, PushBackResent, PushBackFails, Busy
  <2>2. queue' \in Seq(Entry)
        BY <1>0, <1>7, <2>1, AfterPushBack, AfterPushBackTwice
        DEF PushBack, PushBackResent, PushBackFails, TypeOK
  <2>3. happened' \subseteq Faults /\ faults' \in 0..MaxFaults
        BY <1>0, <1>7, FaultTypes DEF PushBack, PushBackResent, PushBackFails, faultVars, TypeOK
  <2>4. UNCHANGED <<enqueued, published, dropped, heard, failed>>
        BY <1>7 DEF PushBack, PushBackResent, PushBackFails
  <2> QED
      BY <1>0, <2>1, <2>2, <2>3, <2>4, ReleaseTypes DEF TypeInv, TypeOK
<1>8. ASSUME NEW w \in Drain, Crash(w)
      PROVE  TypeInv'
  <2>1. queue' \in Seq(Entry)
        BY <1>0, <1>8, AfterPop, AfterPushBack DEF Crash, Busy, TypeOK
  <2>2. heard' \in [Msg -> Nat]
    <3>1. UNCHANGED heard \/ (pc[w] = "emit" /\ Hears(msg[w]))
          BY <1>8 DEF Crash
    <3>2. UNCHANGED heard \/ (msg[w] \in Msg /\ Hears(msg[w]))
          BY <1>0, <3>1 DEF Busy
    <3>3. CASE UNCHANGED heard
          BY <1>0, <3>3 DEF TypeOK
    <3>4. CASE msg[w] \in Msg /\ Hears(msg[w])
          BY <1>0, <3>4, HearsTypes
    <3> QED
        BY <3>2, <3>3, <3>4
  <2>3. happened' \subseteq Faults /\ faults' \in 0..MaxFaults
        BY <1>0, <1>8, FaultTypes DEF Crash
  <2>4. Release(w, "idle") /\ UNCHANGED <<enqueued, published, dropped, failed>>
        BY <1>8 DEF Crash
  <2> QED
      BY <1>0, <2>1, <2>2, <2>3, <2>4, ReleaseTypes DEF TypeInv, TypeOK
<1>9. CASE UNCHANGED vars
      BY <1>0, <1>9 DEF vars, TypeInv, TypeOK, Busy
<1> QED
    BY <1>1, <1>2, <1>3, <1>4, <1>5, <1>6, <1>7, <1>8, <1>9 DEF Next, Step, Faulty

\* Type correctness, for any messages, drains and bounds.
THEOREM TypeCorrect == Spec => []TypeOK
<1>1. TypeInv => TypeOK
      BY DEF TypeInv
<1> QED
    BY TypeInit, TypeStep, <1>1, PTL DEF Spec

-----------------------------------------------------------------------------
\* The single copy, in terms of the lemmas above: a drain that is busy has its own
\* message, which is enqueued and not on the list.
CopyInv ==
    NotResent =>
        /\ Distinct(queue)
        /\ \A m \in Msg : On(m, queue) => m \in enqueued
        /\ \A w \in Drain : Busy(w) => msg[w] \in enqueued /\ ~On(msg[w], queue)
        /\ \A v, w \in Drain : Busy(v) /\ Busy(w) /\ msg[v] = msg[w] => v = w

\* The strengthening implies what the runs check.
LEMMA CopyInvSingle == CopyInv => SingleCopy
BY DEF CopyInv, SingleCopy, Distinct, On, Busy, Holds, Queued

\* Initially the list is empty and every drain is at rest.
LEMMA CopyInit == Init => CopyInv
BY DEF Init, CopyInv, Distinct, On, Busy

\* Every action keeps CopyInv.
LEMMA CopyStep == TypeInv /\ CopyInv /\ [Next]_vars => CopyInv'
<1> SUFFICES ASSUME TypeInv, CopyInv, [Next]_vars, NotResent'
             PROVE  CopyInv'
    BY DEF CopyInv
<1>0. /\ TypeOK /\ \A w \in Drain : Busy(w) => msg[w] \in Msg
      /\ enqueued \subseteq Msg
      /\ pc \in [Drain -> {"idle", "pop", "emit", "pushback"}]
      /\ msg \in [Drain -> Msg \cup {NoMsg}]
      BY DEF TypeInv, TypeOK
<1>1. ASSUME UNCHANGED happened \/ \E kind : Fault(kind)
      PROVE  NotResent
      BY <1>1 DEF NotResent, Fault
<1>2. ASSUME NEW m \in Msg, Enqueue(m)
      PROVE  CopyInv'
  <2>1. NotResent
        BY <1>1, <1>2 DEF Enqueue, faultVars
  <2>2. /\ \A n : On(n, queue') <=> On(n, queue) \/ n = m
        /\ Distinct(queue) /\ ~On(m, queue) => Distinct(queue')
        BY <1>0, <1>2, AfterEnqueue
  <2>3. ~On(m, queue)
        BY <1>2, <2>1 DEF Enqueue, CopyInv
  <2> QED
      BY <1>0, <1>2, <2>1, <2>2, <2>3 DEF Enqueue, CopyInv, Busy
<1>3. ASSUME NEW w \in Drain, Round(w)
      PROVE  CopyInv'
      BY <1>0, <1>1, <1>3 DEF Round, Goto, faultVars, CopyInv, Busy
<1>4. ASSUME NEW w \in Drain, Pop(w)
      PROVE  CopyInv'
  <2>1. NotResent
        BY <1>1, <1>4 DEF Pop, faultVars
  <2>2. CASE Popped
    <3>1. /\ msg' = [msg EXCEPT ![w] = Head(queue).msg]
          /\ pc' = [pc EXCEPT ![w] = "emit"] /\ pc[w] = "pop"
          /\ UNCHANGED enqueued
          BY <1>4, <2>2 DEF Pop, Popped, Goto
    <3>2. /\ Head(queue).msg \in Msg
          /\ \A m : On(m, queue) <=> On(m, queue') \/ m = Head(queue).msg
          /\ Distinct(queue) => Distinct(queue') /\ ~On(Head(queue).msg, queue')
          BY <1>0, <2>2, AfterPop
    <3> QED
        BY <1>0, <2>1, <3>1, <3>2 DEF CopyInv, Busy
  <2>3. CASE ~Popped
        BY <1>0, <1>4, <2>1, <2>3 DEF Pop, Goto, CopyInv, Busy
  <2> QED
      BY <2>2, <2>3
<1>5. ASSUME NEW w \in Drain, PopFails(w)
      PROVE  CopyInv'
  <2>1. NotResent
        BY <1>1, <1>5 DEF PopFails
  <2>2. CASE Popped
    <3>1. /\ \A m : On(m, queue) <=> On(m, queue') \/ m = Head(queue).msg
          /\ Distinct(queue) => Distinct(queue')
          BY <1>0, <2>2, AfterPop
    <3> QED
        BY <1>0, <1>5, <2>1, <3>1 DEF PopFails, Goto, CopyInv, Busy
  <2>3. CASE UNCHANGED queue
        BY <1>0, <1>5, <2>1, <2>3 DEF PopFails, Goto, CopyInv, Busy
  <2> QED
      BY <1>5, <2>2, <2>3 DEF PopFails
<1>6. ASSUME NEW w \in Drain, NEW next \in {"idle", "pop"}, Release(w, next),
             UNCHANGED <<queue, enqueued>>, NotResent
      PROVE  CopyInv'
      BY <1>0, <1>6, ReleaseTypes DEF CopyInv
<1>7. ASSUME NEW w \in Drain, EmitFails(w)
      PROVE  CopyInv'
  <2>1. NotResent /\ UNCHANGED <<queue, enqueued>>
        BY <1>1, <1>7 DEF EmitFails
  <2>2. CASE pc' = [pc EXCEPT ![w] = "pushback"] /\ pc[w] = "emit" /\ UNCHANGED msg
        BY <1>0, <2>1, <2>2 DEF CopyInv, Busy
  <2> QED
      BY <1>6, <1>7, <2>1, <2>2, AfterEmitFails
<1>8. ASSUME NEW w \in Drain, pc[w] = "pushback", PushedBack(w), UNCHANGED enqueued, NotResent,
             NEW next \in {"idle", "pop"}, Release(w, next)
      PROVE  CopyInv'
  <2>1. Busy(w) /\ msg[w] \in Msg
        BY <1>0, <1>8 DEF Busy
  <2>2. /\ \A m : On(m, queue') <=> On(m, queue) \/ m = msg[w]
        /\ Distinct(queue) /\ ~On(msg[w], queue) => Distinct(queue')
        BY <1>0, <1>8, <2>1, AfterPushBack
  <2>3. \A v \in Drain : Busy(v)' => v # w /\ Busy(v) /\ msg'[v] = msg[v]
        BY <1>8, ReleaseTypes
  <2> QED
      BY <1>0, <1>8, <2>1, <2>2, <2>3 DEF CopyInv
<1>9. ASSUME NEW w \in Drain, Crash(w)
      PROVE  CopyInv'
  <2>1. NotResent /\ Release(w, "idle") /\ UNCHANGED enqueued
        BY <1>1, <1>9 DEF Crash
  <2>2. CASE Popped
    <3>1. /\ \A m : On(m, queue) <=> On(m, queue') \/ m = Head(queue).msg
          /\ Distinct(queue) => Distinct(queue')
          BY <1>0, <2>2, AfterPop
    <3> QED
        BY <1>0, <2>1, <3>1, ReleaseTypes DEF CopyInv
  <2> QED
      BY <1>6, <1>8, <1>9, <2>1, <2>2 DEF Crash
<1>10. ASSUME NEW kind, Fault(kind), kind = "resend"
       PROVE  FALSE
       BY <1>10 DEF Fault, NotResent
<1>11. CASE UNCHANGED vars
       BY <1>1, <1>11 DEF vars, CopyInv, Busy
<1>12. ASSUME NEW w \in Drain, Emit(w) \/ EmitUnheard(w)
       PROVE  CopyInv'
       BY <1>1, <1>6, <1>12 DEF Emit, EmitUnheard, faultVars
<1>13. ASSUME NEW w \in Drain, PushBack(w) \/ PushBackFails(w)
       PROVE  CopyInv'
       BY <1>1, <1>6, <1>8, <1>13 DEF PushBack, PushBackFails, faultVars
<1>14. ASSUME \/ \E m \in Msg : EnqueueResent(m)
              \/ \E w \in Drain : EmitResent(w) \/ PushBackResent(w)
       PROVE  CopyInv'
       BY <1>10, <1>14 DEF EnqueueResent, EmitResent, PushBackResent
<1> QED
    BY <1>2, <1>3, <1>4, <1>5, <1>7, <1>9, <1>11, <1>12, <1>13, <1>14 DEF Next, Step, Faulty

\* There never are two copies of a message, however many drains overlap and
\* whatever fails or crashes, unless Redis executes a command twice.
THEOREM OneCopy == Spec => []SingleCopy
BY TypeInit, TypeStep, CopyInit, CopyStep, CopyInvSingle, PTL DEF Spec

-----------------------------------------------------------------------------
\* Nothing is lost because each step moves a message from one place to another;
\* only rejected commands and crashes take one away.
LEMMA PlaceStep == TypeInv /\ KeptUnlessRedisFails /\ [Next]_vars => KeptUnlessRedisFails'
<1> SUFFICES ASSUME TypeInv, KeptUnlessRedisFails, [Next]_vars, RedisHolds'
             PROVE  NothingLost'
    BY DEF KeptUnlessRedisFails
<1> DEFINE Placed(m) == \/ On(m, queue) \/ m \in published \/ m \in dropped
                        \/ \E w \in Drain : Busy(w) /\ msg[w] = m
<1>0. /\ TypeOK /\ enqueued \subseteq Msg
      /\ \A w \in Drain : Busy(w) => msg[w] \in Msg
      /\ pc \in [Drain -> {"idle", "pop", "emit", "pushback"}]
      /\ msg \in [Drain -> Msg \cup {NoMsg}]
      BY DEF TypeInv, TypeOK
<1>1. RedisHolds
      BY DEF RedisHolds, Next, Step, Faulty, Fault, Enqueue, EnqueueResent, Round, Pop, PopFails, Emit,
             EmitResent, EmitUnheard, EmitFails, PushBack, PushBackResent, PushBackFails, Crash,
             faultVars, vars
<1>2. \A m \in enqueued : Placed(m)
      BY <1>1 DEF KeptUnlessRedisFails, NothingLost, Queued, On, Holds, Busy
<1> SUFFICES \A m \in enqueued' : Placed(m)'
    BY DEF NothingLost, Queued, On, Holds, Busy
<1>3. ASSUME NEW m \in Msg, Enqueue(m) \/ EnqueueResent(m)
      PROVE  \A n \in enqueued' : Placed(n)'
  <2>1. \A n : On(n, queue') <=> On(n, queue) \/ n = m
        BY <1>0, <1>3, AfterEnqueue
  <2> QED
      BY <1>2, <1>3, <2>1 DEF Enqueue, EnqueueResent, Busy
<1>4. ASSUME NEW w \in Drain, Round(w)
      PROVE  \A n \in enqueued' : Placed(n)'
      BY <1>0, <1>2, <1>4 DEF Round, Goto, Busy
<1>5. ASSUME NEW w \in Drain, Pop(w)
      PROVE  \A n \in enqueued' : Placed(n)'
  <2>1. CASE Popped
    <3>1. /\ msg' = [msg EXCEPT ![w] = Head(queue).msg]
          /\ pc' = [pc EXCEPT ![w] = "emit"] /\ pc[w] = "pop"
          /\ UNCHANGED <<enqueued, published, dropped>>
          BY <1>5, <2>1 DEF Pop, Popped, Goto
    <3>2. \A n : On(n, queue) <=> On(n, queue') \/ n = Head(queue).msg
          BY <1>0, <2>1, AfterPop
    <3> QED
        BY <1>0, <1>2, <3>1, <3>2 DEF Busy
  <2>2. CASE ~Popped
        BY <1>0, <1>2, <1>5, <2>2 DEF Pop, Goto, Busy
  <2> QED
      BY <2>1, <2>2
<1>6. ASSUME NEW w \in Drain, Emit(w) \/ EmitUnheard(w) \/ EmitResent(w)
      PROVE  \A n \in enqueued' : Placed(n)'
  <2>1. /\ UNCHANGED <<queue, enqueued, dropped>>
        /\ published' = published \cup {msg[w]}
        /\ Release(w, "pop")
        BY <1>6 DEF Emit, EmitUnheard, EmitResent
  <2> QED
      BY <1>2, <2>1, ReleaseTypes
<1>7. ASSUME NEW w \in Drain, EmitFails(w)
      PROVE  \A n \in enqueued' : Placed(n)'
  <2>1. UNCHANGED <<queue, enqueued, published>>
        BY <1>7 DEF EmitFails
  <2>2. CASE pc' = [pc EXCEPT ![w] = "pushback"] /\ pc[w] = "emit" /\ UNCHANGED <<msg, dropped>>
        BY <1>0, <1>2, <2>1, <2>2 DEF Busy
  <2>3. CASE dropped' = dropped \cup {msg[w]} /\ Release(w, "pop")
        BY <1>2, <2>1, <2>3, ReleaseTypes
  <2> QED
      BY <1>7, <2>2, <2>3, AfterEmitFails
<1>8. ASSUME NEW w \in Drain, PushBack(w) \/ PushBackResent(w)
      PROVE  \A n \in enqueued' : Placed(n)'
  <2>1. msg[w] \in Msg /\ Release(w, "pop")
        BY <1>0, <1>8 DEF PushBack, PushBackResent, Busy
  <2>2. \A n : On(n, queue') <=> On(n, queue) \/ n = msg[w]
        BY <1>0, <1>8, <2>1, AfterPushBack, AfterPushBackTwice DEF PushBack, PushBackResent
  <2>3. UNCHANGED <<enqueued, published, dropped>>
        BY <1>8 DEF PushBack, PushBackResent
  <2> QED
      BY <1>2, <2>1, <2>2, <2>3, ReleaseTypes
<1>9. ASSUME NEW w \in Drain, PopFails(w) \/ PushBackFails(w) \/ Crash(w)
      PROVE  FALSE
      BY <1>9 DEF PopFails, PushBackFails, Crash, Fault, RedisHolds
<1>10. CASE UNCHANGED vars
       BY <1>2, <1>10 DEF vars, Busy
<1> QED
    BY <1>3, <1>4, <1>5, <1>6, <1>7, <1>8, <1>9, <1>10 DEF Next, Step, Faulty

\* While Redis rejects no command and no gateway dies, no enqueued message
\* disappears before it is published or has used up its retries, whatever
\* publishing does.
THEOREM NoLoss == Spec => []KeptUnlessRedisFails
<1>1. Init => KeptUnlessRedisFails
      BY DEF Init, KeptUnlessRedisFails, NothingLost
<1> QED
    BY TypeInit, TypeStep, PlaceStep, <1>1, PTL DEF Spec

-----------------------------------------------------------------------------
\* The entries of a list have as many retries as f counts for their messages.
Counted(s, f) == \A i \in DOMAIN s : s[i].retries = f[s[i].msg]

\* Appending a counted entry keeps a list counted.
LEMMA CountedAppended ==
    ASSUME NEW s \in Seq(Entry), NEW e \in Entry, NEW f, Counted(s, f), e.retries = f[e.msg]
    PROVE  Counted(Append(s, e), f)
<1>1. /\ \A i \in 1..Len(s) : Append(s, e)[i] = s[i]
      /\ Append(s, e)[Len(s) + 1] = e /\ DOMAIN s = 1..Len(s)
      /\ \A i \in DOMAIN Append(s, e) : i = Len(s) + 1 \/ i \in 1..Len(s)
      BY Appended
<1> QED
    BY <1>1 DEF Counted

\* The first entry of a counted list is counted, and so is the rest.
LEMMA CountedRemoved ==
    ASSUME NEW s \in Seq(Entry), s # <<>>, NEW f, Counted(s, f)
    PROVE  Counted(Tail(s), f) /\ Head(s).retries = f[Head(s).msg]
<1>1. /\ \A i \in DOMAIN Tail(s) : i + 1 \in DOMAIN s /\ Tail(s)[i] = s[i + 1]
      /\ 1 \in DOMAIN s /\ Head(s) = s[1]
      BY Removed
<1> QED
    BY <1>1 DEF Counted

\* Putting a counted entry in front keeps a list counted.
LEMMA CountedPrepended ==
    ASSUME NEW s \in Seq(Entry), NEW e \in Entry, NEW f, Counted(s, f), e.retries = f[e.msg]
    PROVE  Counted(InFront(e, s), f)
<1>1. /\ DOMAIN InFront(e, s) = 1..(Len(s) + 1) /\ DOMAIN s = 1..Len(s) /\ Len(s) \in Nat
      /\ InFront(e, s)[1] = e /\ \A i \in 1..Len(s) : InFront(e, s)[i + 1] = s[i]
      BY Prepended
<1> DEFINE t == InFront(e, s)
<1>2. ASSUME NEW i \in DOMAIN t, i # 1
      PROVE  t[i].retries = f[t[i].msg]
  <2>1. i - 1 \in 1..Len(s) /\ (i - 1) + 1 = i
        BY <1>1, <1>2
  <2>2. t[i] = s[i - 1]
        BY <1>1, <2>1
  <2> QED
      BY <1>1, <2>1, <2>2 DEF Counted
<1>3. t[1].retries = f[t[1].msg]
      BY <1>1
<1> QED
    BY <1>2, <1>3 DEF Counted

-----------------------------------------------------------------------------
\* m is on the list or in the hands of a drain.
Held(m) == On(m, queue) \/ \E w \in Drain : Busy(w) /\ msg[w] = m

\* The account of the attempts: a message that is held has failed as often as its entry
\* says, was heard at most so often, and is neither published nor given up.
AttemptInv ==
    NotResent =>
        /\ Counted(queue, failed)
        /\ \A w \in Drain : Busy(w) => retries[w] = failed[msg[w]]
        /\ \A m \in Msg : Held(m) \/ m \notin enqueued =>
               heard[m] <= failed[m] /\ m \notin published /\ m \notin dropped
        /\ \A m \in Msg \ enqueued : failed[m] = 0
        /\ \A m \in Msg : heard[m] <= failed[m] + 1
        /\ \A m \in dropped : failed[m] = MaxRetries + 1 /\ m \notin published

\* Initially nothing was enqueued.
LEMMA AttemptInit == Init => AttemptInv
BY DEF Init, AttemptInv, Counted, Busy

\* A step that only moves messages keeps the account.
LEMMA MoveKeepsAttempts ==
    ASSUME TypeInv, AttemptInv, NotResent,
           UNCHANGED <<published, dropped, heard, failed>>,
           enqueued \subseteq enqueued', Counted(queue', failed),
           \A w \in Drain : Busy(w)' => retries'[w] = failed[msg'[w]],
           \A m \in Msg : Held(m)' => Held(m) \/ m \notin enqueued
    PROVE  AttemptInv'
<1>1. \A m \in Msg : Held(m)' \/ m \notin enqueued' => Held(m) \/ m \notin enqueued
      OBVIOUS
<1>2. \A m \in Msg : Held(m)' \/ m \notin enqueued' =>
          heard[m] <= failed[m] /\ m \notin published /\ m \notin dropped
      BY <1>1 DEF AttemptInv
<1>3. \A m \in Msg \ enqueued' : failed[m] = 0
      BY DEF AttemptInv
<1>4. /\ \A m \in Msg : heard[m] <= failed[m] + 1
      /\ \A m \in dropped : failed[m] = MaxRetries + 1 /\ m \notin published
      BY DEF AttemptInv
<1>5. Counted(queue', failed')
      OBVIOUS
<1> QED
    BY <1>2, <1>3, <1>4, <1>5 DEF AttemptInv

\* A drain that lets go of its message is the only one to have held it.
LEMMA ReleasedIsFree ==
    ASSUME TypeInv, CopyInv, NotResent, NEW w \in Drain, Busy(w),
           NEW next \in {"idle", "pop"}, Release(w, next), UNCHANGED queue
    PROVE  /\ msg[w] \in enqueued
           /\ \A m \in Msg : Held(m)' => Held(m) /\ m # msg[w]
           /\ \A v \in Drain : Busy(v)' => Busy(v) /\ msg'[v] = msg[v] /\ msg[v] # msg[w]
                                          /\ retries'[v] = retries[v]
<1>1. \A v \in Drain : Busy(v)' => v # w /\ Busy(v) /\ msg'[v] = msg[v]
      BY ReleaseTypes
<1>2. \A v \in Drain : v # w => retries'[v] = retries[v]
      BY DEF TypeInv, TypeOK, Release
<1>3. \A v \in Drain : Busy(v)' => msg[v] # msg[w]
      BY <1>1 DEF CopyInv
<1>4. ~On(msg[w], queue) /\ msg[w] \in enqueued
      BY DEF CopyInv
<1>5. ASSUME NEW m \in Msg, Held(m)'
      PROVE  Held(m) /\ m # msg[w]
  <2>1. CASE On(m, queue)
        BY <1>4, <2>1 DEF Held
  <2>2. CASE \E v \in Drain : Busy(v)' /\ msg'[v] = m
        BY <1>1, <1>3, <2>2 DEF Held
  <2>3. On(m, queue)' <=> On(m, queue)
        BY DEF On
  <2> QED
      BY <1>5, <2>1, <2>2, <2>3 DEF Held
<1> QED
    BY <1>1, <1>2, <1>3, <1>4, <1>5

\* A message that is heard once more, and let go of, was heard once per failed attempt
\* before.
LEMMA HearingKeepsAttempts ==
    ASSUME TypeInv, CopyInv, AttemptInv, NotResent, NEW w \in Drain, Busy(w),
           NEW next \in {"idle", "pop"}, Release(w, next), Hears(msg[w]) \/ UNCHANGED heard,
           UNCHANGED <<queue, enqueued, dropped, failed>>,
           published' \in {published, published \cup {msg[w]}}
    PROVE  AttemptInv'
<1>1. /\ msg[w] \in Msg /\ Held(msg[w])
      /\ heard \in [Msg -> Nat] /\ failed \in [Msg -> Nat]
      BY DEF TypeInv, TypeOK, Held
<1>2. /\ msg[w] \in enqueued
      /\ \A m \in Msg : Held(m)' => Held(m) /\ m # msg[w]
      /\ \A v \in Drain : Busy(v)' => Busy(v) /\ msg'[v] = msg[v] /\ retries'[v] = retries[v]
      BY ReleasedIsFree
<1>3. /\ \A m \in Msg : m # msg[w] => heard'[m] = heard[m]
      /\ heard'[msg[w]] <= heard[msg[w]] + 1
      BY <1>1 DEF Hears
<1>4. heard[msg[w]] <= failed[msg[w]] /\ msg[w] \notin dropped
      BY <1>1 DEF AttemptInv
<1>5. heard'[msg[w]] <= failed[msg[w]] + 1
  <2>1. CASE Hears(msg[w])
        BY <1>1, <1>4, <2>1 DEF Hears
  <2>2. CASE UNCHANGED heard
        BY <1>1, <1>4, <2>2
  <2> QED
      BY <2>1, <2>2
<1>6. \A m \in Msg : heard'[m] <= failed[m] + 1
      BY <1>3, <1>5 DEF AttemptInv
<1>7. \A m \in Msg : Held(m)' \/ m \notin enqueued =>
          heard'[m] <= failed[m] /\ m \notin published' /\ m \notin dropped
  <2>1. \A m \in Msg : Held(m)' \/ m \notin enqueued =>
            m # msg[w] /\ (Held(m) \/ m \notin enqueued)
        BY <1>2
  <2>2. \A m \in Msg : Held(m) \/ m \notin enqueued =>
            heard[m] <= failed[m] /\ m \notin published /\ m \notin dropped
        BY DEF AttemptInv
  <2> QED
      BY <1>3, <2>1, <2>2
<1>8. \A w1 \in Drain : Busy(w1)' => retries'[w1] = failed[msg'[w1]]
      BY <1>2 DEF AttemptInv
<1>9. \A m \in dropped : failed[m] = MaxRetries + 1 /\ m \notin published'
      BY <1>4 DEF AttemptInv
<1>10. Counted(queue, failed) /\ \A m \in Msg \ enqueued : failed[m] = 0
      BY DEF AttemptInv
<1> QED
    BY <1>6, <1>7, <1>8, <1>9, <1>10 DEF AttemptInv

\* A failed attempt is counted in the entry as well, or was the last.
LEMMA FailingKeepsAttempts ==
    ASSUME TypeInv, CopyInv, AttemptInv, NotResent, NEW w \in Drain, EmitFails(w)
    PROVE  AttemptInv'
<1> DEFINE m == msg[w]
<1>1. /\ pc[w] = "emit" /\ Busy(w) /\ m \in Msg /\ Held(m)
      /\ heard \in [Msg -> Nat] /\ failed \in [Msg -> Nat]
      /\ retries \in [Drain -> 0..MaxRetries]
      /\ pc \in [Drain -> {"idle", "pop", "emit", "pushback"}]
      /\ msg \in [Drain -> Msg \cup {NoMsg}]
      /\ dropped \subseteq Msg
      BY DEF EmitFails, TypeInv, TypeOK, Busy, Held
<1>2. /\ UNCHANGED <<queue, enqueued, published>>
      /\ failed' = [failed EXCEPT ![m] = @ + 1]
      /\ Hears(m) \/ UNCHANGED heard
      BY DEF EmitFails
<1>3. /\ failed'[m] = failed[m] + 1 /\ retries[w] = failed[m]
      /\ \A n \in Msg : n # m => failed'[n] = failed[n]
      BY <1>1, <1>2 DEF AttemptInv
<1>4. /\ \A n \in Msg : n # m => heard'[n] = heard[n]
      /\ heard'[m] <= failed'[m]
  <2>1. heard[m] <= failed[m]
        BY <1>1 DEF AttemptInv
  <2>2. CASE Hears(m)
        BY <1>1, <1>3, <2>1, <2>2 DEF Hears
  <2>3. CASE UNCHANGED heard
        BY <1>1, <1>3, <2>1, <2>3
  <2> QED
      BY <1>2, <2>2, <2>3
<1>5. /\ m \in enqueued /\ ~On(m, queue) /\ m \notin published /\ m \notin dropped
      /\ \A v \in Drain : Busy(v) /\ v # w => msg[v] # m
      BY <1>1 DEF CopyInv, AttemptInv
<1>6. Counted(queue, failed')
  <2>1. \A i \in DOMAIN queue : queue[i].msg \in Msg /\ queue[i].msg # m
    <3>1. \A i \in DOMAIN queue : queue[i] \in Entry
          BY DEF TypeInv, TypeOK
    <3> QED
        BY <1>5, <3>1 DEF On, Entry
  <2>2. Counted(queue, failed)
        BY DEF AttemptInv
  <2> QED
      BY <1>3, <2>1, <2>2 DEF Counted
<1>7. /\ \A n \in Msg \ enqueued : failed'[n] = 0
      /\ \A n \in Msg : heard'[n] <= failed'[n] + 1
  <2>1. \A n \in Msg \ enqueued : failed[n] = 0 /\ n # m
        BY <1>5 DEF AttemptInv
  <2>2. \A n \in Msg : n # m => heard'[n] <= failed'[n] + 1
        BY <1>3, <1>4 DEF AttemptInv
  <2>3. heard'[m] <= failed'[m] + 1
    <3>1. heard'[m] \in Nat /\ failed'[m] \in Nat
      <4>1. heard'[m] \in Nat
            BY <1>1, <1>2 DEF Hears
      <4> QED
          BY <1>1, <1>3, <4>1
    <3> QED
        BY <1>4, <3>1
  <2> QED
      BY <1>3, <2>1, <2>2, <2>3
<1>8. CASE pc' = [pc EXCEPT ![w] = "pushback"] /\ retries' = [retries EXCEPT ![w] = @ + 1]
           /\ UNCHANGED <<msg, dropped>>
  <2>1. \A v \in Drain : (Busy(v)' <=> Busy(v)) /\ msg'[v] = msg[v]
        BY <1>1, <1>8 DEF Busy
  <2>2. \A n \in Msg : Held(n)' <=> Held(n)
        BY <1>2, <2>1 DEF Held, On
  <2>3. \A v \in Drain : Busy(v)' => retries'[v] = failed'[msg'[v]]
    <3>1. retries'[w] = failed'[m]
          BY <1>1, <1>3, <1>8
    <3>2. ASSUME NEW v \in Drain, v # w, Busy(v)
          PROVE  retries'[v] = failed'[msg[v]]
      <4>1. retries'[v] = retries[v] /\ msg[v] \in Msg /\ msg[v] # m
            BY <1>1, <1>5, <1>8, <3>2 DEF TypeInv
      <4>2. retries[v] = failed[msg[v]]
            BY <3>2 DEF AttemptInv
      <4> QED
          BY <1>3, <4>1, <4>2
    <3> QED
        BY <2>1, <3>1, <3>2
  <2>4. \A n \in Msg : Held(n)' \/ n \notin enqueued' =>
            heard'[n] <= failed'[n] /\ n \notin published' /\ n \notin dropped'
    <3>1. \A n \in Msg : n # m /\ (Held(n) \/ n \notin enqueued) =>
              heard'[n] <= failed'[n] /\ n \notin published /\ n \notin dropped
          BY <1>3, <1>4 DEF AttemptInv
    <3> QED
        BY <1>2, <1>4, <1>5, <1>8, <2>2, <3>1
  <2>5. \A n \in dropped' : failed'[n] = MaxRetries + 1 /\ n \notin published'
        BY <1>1, <1>2, <1>3, <1>5, <1>8 DEF AttemptInv
  <2>6. Counted(queue', failed') /\ enqueued' = enqueued
        BY <1>2, <1>6
  <2> QED
      BY <1>7, <2>3, <2>4, <2>5, <2>6 DEF AttemptInv
<1>9. CASE dropped' = dropped \cup {m} /\ Release(w, "pop") /\ retries[w] + 1 > MaxRetries
  <2>1. /\ \A n \in Msg : Held(n)' => Held(n) /\ n # m
        /\ \A v \in Drain : Busy(v)' => Busy(v) /\ msg'[v] = msg[v] /\ msg[v] # m
                                       /\ retries'[v] = retries[v]
        BY <1>1, <1>2, <1>9, ReleasedIsFree
  <2>2. failed'[m] = MaxRetries + 1
        BY <1>1, <1>3, <1>9, OutboxAssumption
  <2>3. \A v \in Drain : Busy(v)' => retries'[v] = failed'[msg'[v]]
    <3> SUFFICES ASSUME NEW v \in Drain, Busy(v)'
                 PROVE  retries'[v] = failed'[msg'[v]]
        OBVIOUS
    <3>1. Busy(v) /\ msg'[v] = msg[v] /\ msg[v] # m /\ retries'[v] = retries[v]
          BY <2>1
    <3>2. msg[v] \in Msg /\ retries[v] = failed[msg[v]]
          BY <3>1 DEF TypeInv, AttemptInv
    <3> QED
        BY <1>3, <3>1, <3>2
  <2>4. \A n \in Msg : Held(n)' \/ n \notin enqueued' =>
            heard'[n] <= failed'[n] /\ n \notin published' /\ n \notin dropped'
    <3>1. \A n \in Msg : n # m /\ (Held(n) \/ n \notin enqueued) =>
              heard'[n] <= failed'[n] /\ n \notin published /\ n \notin dropped
          BY <1>3, <1>4 DEF AttemptInv
    <3>2. \A n \in Msg : Held(n)' \/ n \notin enqueued =>
              n # m /\ (Held(n) \/ n \notin enqueued)
          BY <1>5, <2>1
    <3> QED
        BY <1>2, <1>9, <3>1, <3>2
  <2>5. \A n \in dropped' : failed'[n] = MaxRetries + 1 /\ n \notin published'
        BY <1>1, <1>2, <1>3, <1>5, <1>9, <2>2 DEF AttemptInv
  <2>6. Counted(queue', failed') /\ enqueued' = enqueued
        BY <1>2, <1>6
  <2> QED
      BY <1>7, <2>3, <2>4, <2>5, <2>6 DEF AttemptInv
<1> QED
    BY <1>8, <1>9, OutboxAssumption DEF EmitFails, Goto

\* Every action keeps the account.
LEMMA AttemptStep == TypeInv /\ CopyInv /\ AttemptInv /\ [Next]_vars => AttemptInv'
<1> SUFFICES ASSUME TypeInv, CopyInv, AttemptInv, [Next]_vars, NotResent'
             PROVE  AttemptInv'
    BY DEF AttemptInv
<1>0. /\ TypeOK /\ queue \in Seq(Entry)
      /\ \A w \in Drain : Busy(w) => msg[w] \in Msg
      /\ pc \in [Drain -> {"idle", "pop", "emit", "pushback"}]
      /\ msg \in [Drain -> Msg \cup {NoMsg}]
      /\ retries \in [Drain -> 0..MaxRetries]
      BY DEF TypeInv, TypeOK
<1>1. ASSUME UNCHANGED happened \/ \E kind : Fault(kind)
      PROVE  NotResent
      BY <1>1 DEF NotResent, Fault
<1>2. ASSUME NotResent
      PROVE  /\ Counted(queue, failed)
             /\ \A w \in Drain : Busy(w) => retries[w] = failed[msg[w]]
      BY <1>2 DEF AttemptInv
<1>3. ASSUME NEW m \in Msg, Enqueue(m)
      PROVE  AttemptInv'
  <2>1. /\ NotResent /\ m \notin enqueued /\ enqueued \subseteq enqueued'
        /\ UNCHANGED <<pc, msg, retries, published, dropped, heard, failed>>
        /\ queue' = Append(queue, Fresh(m))
        BY <1>1, <1>3 DEF Enqueue, faultVars
  <2>2. \A n : On(n, queue') <=> On(n, queue) \/ n = m
        BY <1>0, <1>3, AfterEnqueue
  <2>3. Fresh(m) \in Entry /\ Fresh(m).msg = m /\ Fresh(m).retries = 0
        BY <1>0, EntryTypes DEF Fresh
  <2>4. failed[m] = 0
        BY <2>1 DEF AttemptInv
  <2>5. Counted(queue', failed)
        BY <1>0, <1>2, <2>1, <2>3, <2>4, CountedAppended
  <2>6. \A n \in Msg : Held(n)' => Held(n) \/ n \notin enqueued
        BY <2>1, <2>2 DEF Held, Busy
  <2>7. \A w \in Drain : Busy(w)' => retries'[w] = failed[msg'[w]]
        BY <1>2, <2>1 DEF Busy
  <2> QED
      BY <2>1, <2>5, <2>6, <2>7, MoveKeepsAttempts
<1>4. ASSUME NEW w \in Drain, Round(w)
      PROVE  AttemptInv'
  <2>1. /\ NotResent /\ pc' = [pc EXCEPT ![w] = "pop"] /\ pc[w] = "idle"
        /\ UNCHANGED <<queue, msg, retries, enqueued, published, dropped, heard, failed>>
        BY <1>1, <1>4 DEF Round, Goto, faultVars
  <2>2. \A v \in Drain : Busy(v)' <=> Busy(v)
        BY <1>0, <2>1 DEF Busy
  <2>3. \A n \in Msg : Held(n)' => Held(n)
        BY <2>1, <2>2 DEF Held, On
  <2>4. \A v \in Drain : Busy(v)' => retries'[v] = failed[msg'[v]]
        BY <1>2, <2>1, <2>2
  <2>5. Counted(queue', failed) /\ enqueued \subseteq enqueued'
        BY <1>2, <2>1
  <2> QED
      BY <2>1, <2>3, <2>4, <2>5, MoveKeepsAttempts
<1>5. ASSUME NEW w \in Drain, Pop(w) \/ PopFails(w)
      PROVE  AttemptInv'
  <2>1. /\ NotResent /\ pc[w] = "pop"
        /\ UNCHANGED <<enqueued, published, dropped, heard, failed>>
        BY <1>1, <1>5 DEF Pop, PopFails, faultVars
  <2>2. CASE Popped
    <3>1. /\ \A n : On(n, queue) <=> On(n, queue') \/ n = Head(queue).msg
          /\ Head(queue).msg \in Msg
          BY <1>0, <2>2, AfterPop
    <3>2. Counted(queue', failed) /\ Head(queue).retries = failed[Head(queue).msg]
          BY <1>0, <1>2, <2>1, <2>2, CountedRemoved DEF Popped
    <3>3. CASE /\ pc' = [pc EXCEPT ![w] = "emit"]
               /\ msg' = [msg EXCEPT ![w] = Head(queue).msg]
               /\ retries' = [retries EXCEPT ![w] = Head(queue).retries]
      <4>1. \A v \in Drain : v # w => /\ Busy(v)' <=> Busy(v)
                                      /\ msg'[v] = msg[v] /\ retries'[v] = retries[v]
            BY <1>0, <3>3 DEF Busy
      <4>2. msg'[w] = Head(queue).msg /\ retries'[w] = Head(queue).retries
            BY <1>0, <3>3
      <4>3. \A n \in Msg : Held(n)' => Held(n)
            BY <3>1, <4>1, <4>2 DEF Held
      <4>4. \A v \in Drain : Busy(v)' => retries'[v] = failed[msg'[v]]
            BY <1>2, <2>1, <3>2, <4>1, <4>2
      <4> QED
          BY <2>1, <3>2, <4>3, <4>4, MoveKeepsAttempts
    <3>4. CASE pc' = [pc EXCEPT ![w] = "idle"] /\ UNCHANGED <<msg, retries>>
      <4>1. \A v \in Drain : Busy(v)' => Busy(v)
            BY <1>0, <3>4 DEF Busy
      <4>2. \A n \in Msg : Held(n)' => Held(n)
            BY <3>1, <3>4, <4>1 DEF Held
      <4>3. \A v \in Drain : Busy(v)' => retries'[v] = failed[msg'[v]]
            BY <1>2, <2>1, <3>4, <4>1
      <4> QED
          BY <2>1, <3>2, <4>2, <4>3, MoveKeepsAttempts
    <3> QED
        BY <1>5, <2>2, <3>3, <3>4 DEF Pop, PopFails, Goto, Popped
  <2>3. CASE ~Popped
    <3>1. pc' = [pc EXCEPT ![w] = "idle"] /\ UNCHANGED <<queue, msg, retries>>
          BY <1>5, <2>3 DEF Pop, PopFails, Goto
    <3>2. \A v \in Drain : Busy(v)' => Busy(v)
          BY <1>0, <3>1 DEF Busy
    <3>3. \A n \in Msg : Held(n)' => Held(n)
          BY <3>1, <3>2 DEF Held, On
    <3>4. \A v \in Drain : Busy(v)' => retries'[v] = failed[msg'[v]]
          BY <1>2, <2>1, <3>1, <3>2
    <3>5. Counted(queue', failed)
          BY <1>2, <2>1, <3>1
    <3> QED
        BY <2>1, <3>3, <3>4, <3>5, MoveKeepsAttempts
  <2> QED
      BY <2>2, <2>3
<1>6. ASSUME NEW w \in Drain, Emit(w) \/ EmitUnheard(w)
      PROVE  AttemptInv'
  <2>1. /\ NotResent /\ Busy(w) /\ Release(w, "pop")
        /\ Hears(msg[w]) \/ UNCHANGED heard
        /\ published' = published \cup {msg[w]}
        /\ UNCHANGED <<queue, enqueued, dropped, failed>>
        BY <1>1, <1>6 DEF Emit, EmitUnheard, faultVars, Busy
  <2> QED
      BY <2>1, HearingKeepsAttempts
<1>7. ASSUME NEW w \in Drain, EmitFails(w)
      PROVE  AttemptInv'
  <2>1. NotResent
        BY <1>1, <1>7 DEF EmitFails
  <2> QED
      BY <1>7, <2>1, FailingKeepsAttempts
<1>8. ASSUME NEW w \in Drain, pc[w] = "pushback", PushedBack(w), NotResent,
             NEW next \in {"idle", "pop"}, Release(w, next),
             UNCHANGED <<enqueued, published, dropped, heard, failed>>
      PROVE  AttemptInv'
  <2>1. Busy(w) /\ msg[w] \in Msg
        BY <1>0, <1>8 DEF Busy
  <2>2. \A m : On(m, queue') <=> On(m, queue) \/ m = msg[w]
        BY <1>0, <1>8, <2>1, AfterPushBack
  <2>3. /\ InHand(w) \in Entry /\ InHand(w).msg = msg[w]
        /\ InHand(w).retries = retries[w] /\ retries[w] = failed[msg[w]]
        BY <1>0, <1>2, <1>8, <2>1, EntryTypes DEF InHand
  <2>4. Counted(queue', failed)
        BY <1>0, <1>2, <1>8, <2>3, CountedPrepended DEF PushedBack
  <2>5. \A v \in Drain : Busy(v)' => v # w /\ Busy(v) /\ msg'[v] = msg[v]
        BY <1>8, ReleaseTypes
  <2>6. \A v \in Drain : v # w => retries'[v] = retries[v]
        BY <1>0, <1>8 DEF Release
  <2>7. \A n \in Msg : Held(n)' => Held(n)
        BY <2>1, <2>2, <2>5 DEF Held
  <2>8. \A v \in Drain : Busy(v)' => retries'[v] = failed[msg'[v]]
        BY <1>2, <1>8, <2>5, <2>6
  <2> QED
      BY <1>8, <2>4, <2>7, <2>8, MoveKeepsAttempts
<1>9. ASSUME NEW w \in Drain, pc[w] # "idle", NotResent, Release(w, "idle"),
             Popped \/ UNCHANGED queue,
             UNCHANGED <<enqueued, published, dropped, heard, failed>>
      PROVE  AttemptInv'
  <2>1. \A v \in Drain : Busy(v)' => v # w /\ Busy(v) /\ msg'[v] = msg[v]
        BY <1>9, ReleaseTypes
  <2>2. \A v \in Drain : v # w => retries'[v] = retries[v]
        BY <1>0, <1>9 DEF Release
  <2>3. Counted(queue', failed) /\ \A n : On(n, queue') => On(n, queue)
    <3>1. CASE Popped
          BY <1>0, <1>2, <1>9, <3>1, AfterPop, CountedRemoved DEF Popped
    <3>2. CASE UNCHANGED queue
          BY <1>2, <1>9, <3>2
    <3> QED
        BY <1>9, <3>1, <3>2
  <2>4. \A n \in Msg : Held(n)' => Held(n)
        BY <2>1, <2>3 DEF Held
  <2>5. \A v \in Drain : Busy(v)' => retries'[v] = failed[msg'[v]]
        BY <1>2, <1>9, <2>1, <2>2
  <2> QED
      BY <1>9, <2>3, <2>4, <2>5, MoveKeepsAttempts
<1>10. ASSUME NEW w \in Drain, Crash(w)
       PROVE  AttemptInv'
  <2>1. /\ NotResent /\ Release(w, "idle") /\ pc[w] # "idle"
        /\ UNCHANGED <<enqueued, published, dropped, failed>>
        BY <1>1, <1>10 DEF Crash
  <2>2. CASE UNCHANGED heard /\ (Popped \/ UNCHANGED queue)
        BY <1>9, <2>1, <2>2
  <2>3. CASE pc[w] = "emit" /\ Hears(msg[w]) /\ UNCHANGED queue
    <3>1. Busy(w)
          BY <2>3 DEF Busy
    <3> QED
        BY <2>1, <2>3, <3>1, HearingKeepsAttempts
  <2>4. CASE pc[w] = "pushback" /\ PushedBack(w) /\ UNCHANGED heard
        BY <1>8, <2>1, <2>4
  <2> QED
      BY <1>10, <2>2, <2>3, <2>4 DEF Crash
<1>11. ASSUME NEW w \in Drain, PushBack(w) \/ PushBackFails(w)
       PROVE  AttemptInv'
  <2>1. /\ NotResent /\ pc[w] = "pushback"
        /\ UNCHANGED <<enqueued, published, dropped, heard, failed>>
        BY <1>1, <1>11 DEF PushBack, PushBackFails, faultVars
  <2>2. \/ PushedBack(w) /\ (Release(w, "pop") \/ Release(w, "idle"))
        \/ UNCHANGED queue /\ Release(w, "idle")
        BY <1>11 DEF PushBack, PushBackFails
  <2> QED
      BY <1>8, <1>9, <2>1, <2>2
<1>12. ASSUME \/ \E m \in Msg : EnqueueResent(m)
              \/ \E w \in Drain : EmitResent(w) \/ PushBackResent(w)
       PROVE  AttemptInv'
  <2>1. Fault("resend")
        BY <1>12 DEF EnqueueResent, EmitResent, PushBackResent
  <2> QED
      BY <2>1 DEF Fault, NotResent
<1>13. CASE UNCHANGED vars
  <2>1. NotResent /\ UNCHANGED <<queue, pc, msg, retries, enqueued, published, dropped, heard, failed>>
        BY <1>1, <1>13 DEF vars
  <2>2. \A n \in Msg : Held(n)' => Held(n)
        BY <2>1 DEF Held, On, Busy
  <2>3. \A v \in Drain : Busy(v)' => retries'[v] = failed[msg'[v]]
        BY <1>2, <2>1 DEF Busy
  <2>4. Counted(queue', failed) /\ enqueued \subseteq enqueued'
        BY <1>2, <2>1
  <2> QED
      BY <2>1, <2>2, <2>3, <2>4, MoveKeepsAttempts
<1> QED
    BY <1>3, <1>4, <1>5, <1>6, <1>7, <1>10, <1>11, <1>12, <1>13 DEF Next, Step, Faulty

\* A message is given up after exactly maxRetries + 1 failed attempts, unpublished, however
\* drains overlap, unless Redis executes a command twice.
THEOREM DroppedExactly == Spec => []DroppedAfterRetries
<1>1. TypeInv /\ AttemptInv => DroppedAfterRetries
      BY DEF TypeInv, TypeOK, AttemptInv, DroppedAfterRetries
<1> QED
    BY TypeInit, TypeStep, CopyInit, CopyStep, AttemptInit, AttemptStep, <1>1, PTL DEF Spec

\* A subscriber gets a message again only after an attempt that failed.
THEOREM HeardAgainAfterFailure == Spec => []HeardOncePerAttempt
<1>1. AttemptInv => HeardOncePerAttempt
      BY DEF AttemptInv, HeardOncePerAttempt
<1> QED
    BY TypeInit, TypeStep, CopyInit, CopyStep, AttemptInit, AttemptStep, <1>1, PTL DEF Spec
=============================================================================
