------------------------------- MODULE Outbox -------------------------------
(***************************************************************************)
(* OutboxService: enqueue pushes a message on a Redis list, and drain, run *)
(* by an interval timer, pops messages and publishes them until the list   *)
(* is empty.  The timer does not wait for a drain that is still going on,  *)
(* and every gateway has a timer, so drains overlap.  Every await is a     *)
(* step.  The list is written from the end RPOP and RPUSH work on.         *)
(***************************************************************************)
EXTENDS Naturals, Sequences

CONSTANTS
    Msg,        \* messages; each has a fresh UUID
    NoMsg,
    Drain,      \* drains that may be going on at a time
    MaxRetries, \* maxRetries
    Faults,     \* the kinds of fault that may happen
    MaxFaults   \* bound: how many of them

ASSUME OutboxAssumption ==
    /\ NoMsg \notin Msg
    /\ MaxRetries \in Nat /\ MaxFaults \in Nat
    /\ Faults \subseteq {"reject", "unheard", "redis", "resend", "crash"}

VARIABLES
    queue,     \* the list: messages with their retries
    pc,        \* pc[w]: what drain w awaits
    msg,       \* msg[w]: the message in the hands of w
    retries,   \* retries[w]: its retries
    enqueued,  \* messages that were enqueued
    published, \* messages whose emit completed
    dropped,   \* messages given up ("dead letter")
    heard,     \* heard[m]: how often a subscriber got m
    failed,    \* history: failed[m]: how many attempts to publish m failed
    happened,  \* history: the kinds of fault that have happened
    faults

vars == <<queue, pc, msg, retries, enqueued, published, dropped, heard, failed,
          happened, faults>>

faultVars == <<happened, faults>>

-----------------------------------------------------------------------------
Init ==
    /\ queue = <<>>
    /\ pc = [w \in Drain |-> "idle"]
    /\ msg = [w \in Drain |-> NoMsg]
    /\ retries = [w \in Drain |-> 0]
    /\ enqueued = {}
    /\ published = {}
    /\ dropped = {}
    /\ heard = [m \in Msg |-> 0]
    /\ failed = [m \in Msg |-> 0]
    /\ happened = {}
    /\ faults = 0

Fault(kind) ==
    /\ kind \in Faults
    /\ faults < MaxFaults
    /\ faults' = faults + 1
    /\ happened' = happened \cup {kind}

Goto(w, next) == pc' = [pc EXCEPT ![w] = next]

\* w goes on, or stops, with nothing in its hands.
Release(w, next) ==
    /\ Goto(w, next)
    /\ msg' = [msg EXCEPT ![w] = NoMsg]
    /\ retries' = [retries EXCEPT ![w] = 0]

InHand(w) == [msg |-> msg[w], retries |-> retries[w]]

\* RPOP takes the entry, RPUSH puts it back where RPOP takes the next one.
Popped == queue # <<>> /\ queue' = Tail(queue)
InFront(e, s) == <<e>> \o s
PushedBack(w) == queue' = InFront(InHand(w), queue)

Hears(m) == heard' = [heard EXCEPT ![m] = @ + 1]

-----------------------------------------------------------------------------
Fresh(m) == [msg |-> m, retries |-> 0]

\* enqueue: LPUSH.
Enqueue(m) ==
    /\ m \notin enqueued
    /\ enqueued' = enqueued \cup {m}
    /\ queue' = Append(queue, Fresh(m))
    /\ UNCHANGED <<pc, msg, retries, published, dropped, heard, failed, faultVars>>

\* The reply to the LPUSH is lost, the client sends it again after reconnecting
\* (maxRetriesPerRequest) and Redis has executed it twice.
EnqueueResent(m) ==
    /\ m \notin enqueued
    /\ Fault("resend")
    /\ enqueued' = enqueued \cup {m}
    /\ queue' = Append(Append(queue, Fresh(m)), Fresh(m))
    /\ UNCHANGED <<pc, msg, retries, published, dropped, heard, failed>>

\* The timer starts a drain.
Round(w) ==
    /\ pc[w] = "idle"
    /\ Goto(w, "pop")
    /\ UNCHANGED <<queue, msg, retries, enqueued, published, dropped, heard, failed, faultVars>>

\* Mutant of Pop: the last entry is read, and removed once it is published.
PopReadsOnly(w) ==
    /\ pc[w] = "pop"
    /\ \/ queue = <<>> /\ Goto(w, "idle") /\ UNCHANGED <<msg, retries>>
       \/ /\ queue # <<>>
          /\ Goto(w, "emit")
          /\ msg' = [msg EXCEPT ![w] = Head(queue).msg]
          /\ retries' = [retries EXCEPT ![w] = Head(queue).retries]
    /\ UNCHANGED <<queue, enqueued, published, dropped, heard, failed, faultVars>>

\* drain: RPOP; an empty list ends the round.
Pop(w) ==
    /\ pc[w] = "pop"
    /\ \/ queue = <<>> /\ Goto(w, "idle") /\ UNCHANGED <<queue, msg, retries>>
       \/ /\ Popped
          /\ Goto(w, "emit")
          /\ msg' = [msg EXCEPT ![w] = Head(queue).msg]
          /\ retries' = [retries EXCEPT ![w] = Head(queue).retries]
    /\ UNCHANGED <<enqueued, published, dropped, heard, failed, faultVars>>

\* RPOP rejects and ends the round.  Redis may have executed it.  (An RPOP that is
\* sent again after its reply got lost is this and the Pop of the next round.)
PopFails(w) ==
    /\ pc[w] = "pop"
    /\ Fault("redis")
    /\ Goto(w, "idle")
    /\ Popped \/ UNCHANGED queue
    /\ UNCHANGED <<msg, retries, enqueued, published, dropped, heard, failed>>

\* Mutant of Emit: the message goes back on the list as after a failure.
EmitPushesBack(w) ==
    /\ pc[w] = "emit"
    /\ published' = published \cup {msg[w]}
    /\ Hears(msg[w])
    /\ Goto(w, "pushback")
    /\ UNCHANGED <<queue, msg, retries, enqueued, dropped, failed, faultVars>>

\* emit completes and a subscriber gets the message.
Emit(w) ==
    /\ pc[w] = "emit"
    /\ published' = published \cup {msg[w]}
    /\ Hears(msg[w])
    /\ Release(w, "pop")
    /\ UNCHANGED <<queue, enqueued, dropped, failed, faultVars>>

\* The PUBLISH of emit is sent again and executed twice.
EmitResent(w) ==
    /\ pc[w] = "emit"
    /\ Fault("resend")
    /\ published' = published \cup {msg[w]}
    /\ heard' = [heard EXCEPT ![msg[w]] = @ + 2]
    /\ Release(w, "pop")
    /\ UNCHANGED <<queue, enqueued, dropped, failed>>

\* emit completes although no subscriber is connected.
EmitUnheard(w) ==
    /\ pc[w] = "emit"
    /\ Fault("unheard")
    /\ published' = published \cup {msg[w]}
    /\ Release(w, "pop")
    /\ UNCHANGED <<queue, enqueued, dropped, heard, failed>>

\* Mutant of EmitFails: a message is given up at the last retry it has left.
EmitFailsEarly(w) ==
    /\ pc[w] = "emit"
    /\ Fault("reject")
    /\ Hears(msg[w]) \/ UNCHANGED heard
    /\ failed' = [failed EXCEPT ![msg[w]] = @ + 1]
    /\ \/ /\ retries[w] + 1 < MaxRetries
          /\ Goto(w, "pushback")
          /\ retries' = [retries EXCEPT ![w] = @ + 1]
          /\ UNCHANGED <<msg, dropped>>
       \/ /\ retries[w] + 1 >= MaxRetries
          /\ dropped' = dropped \cup {msg[w]}
          /\ Release(w, "pop")
    /\ UNCHANGED <<queue, enqueued, published>>

\* emit rejects, although a subscriber may have got the message: it is written
\* back with one more retry, or given up.
EmitFails(w) ==
    /\ pc[w] = "emit"
    /\ Fault("reject")
    /\ Hears(msg[w]) \/ UNCHANGED heard
    /\ failed' = [failed EXCEPT ![msg[w]] = @ + 1]
    /\ \/ /\ retries[w] + 1 <= MaxRetries
          /\ Goto(w, "pushback")
          /\ retries' = [retries EXCEPT ![w] = @ + 1]
          /\ UNCHANGED <<msg, dropped>>
       \/ /\ retries[w] + 1 > MaxRetries
          /\ dropped' = dropped \cup {msg[w]}
          /\ Release(w, "pop")
    /\ UNCHANGED <<queue, enqueued, published>>

\* Mutant of PushBack: the message is logged and not written back.
PushBackForgotten(w) ==
    /\ pc[w] = "pushback"
    /\ Release(w, "pop")
    /\ UNCHANGED <<queue, enqueued, published, dropped, heard, failed, faultVars>>

\* RPUSH, and the round goes on, with this very message.
PushBack(w) ==
    /\ pc[w] = "pushback"
    /\ PushedBack(w)
    /\ Release(w, "pop")
    /\ UNCHANGED <<enqueued, published, dropped, heard, failed, faultVars>>

\* The RPUSH is sent again and executed twice.
PushBackResent(w) ==
    /\ pc[w] = "pushback"
    /\ Fault("resend")
    /\ queue' = InFront(InHand(w), InFront(InHand(w), queue))
    /\ Release(w, "pop")
    /\ UNCHANGED <<enqueued, published, dropped, heard, failed>>

\* RPUSH rejects and ends the round.  Redis may have executed it.
PushBackFails(w) ==
    /\ pc[w] = "pushback"
    /\ Fault("redis")
    /\ PushedBack(w) \/ UNCHANGED queue
    /\ Release(w, "idle")
    /\ UNCHANGED <<enqueued, published, dropped, heard, failed>>

\* The gateway of w dies and restarts.  A command it has sent is executed or not.
Crash(w) ==
    /\ pc[w] # "idle"
    /\ Fault("crash")
    /\ \/ UNCHANGED <<queue, heard>>
       \/ pc[w] = "pop" /\ Popped /\ UNCHANGED heard
       \/ pc[w] = "emit" /\ Hears(msg[w]) /\ UNCHANGED queue
       \/ pc[w] = "pushback" /\ PushedBack(w) /\ UNCHANGED heard
    /\ Release(w, "idle")
    /\ UNCHANGED <<enqueued, published, dropped, failed>>

Step(w) == Pop(w) \/ Emit(w) \/ PushBack(w)

Faulty(w) ==
    \/ PopFails(w) \/ EmitResent(w) \/ EmitUnheard(w) \/ EmitFails(w)
    \/ PushBackResent(w) \/ PushBackFails(w) \/ Crash(w)

Next ==
    \/ \E m \in Msg : Enqueue(m) \/ EnqueueResent(m)
    \/ \E w \in Drain : Round(w) \/ Step(w) \/ Faulty(w)

Spec == Init /\ [][Next]_vars

\* The timer goes off and awaited commands settle.
FairSpec == Spec /\ \A w \in Drain : WF_vars(Round(w)) /\ WF_vars(Step(w))

-----------------------------------------------------------------------------
Entry == [msg : Msg, retries : 0..MaxRetries]

TypeOK ==
    /\ queue \in Seq(Entry)
    /\ pc \in [Drain -> {"idle", "pop", "emit", "pushback"}]
    /\ msg \in [Drain -> Msg \cup {NoMsg}]
    /\ retries \in [Drain -> 0..MaxRetries]
    /\ enqueued \subseteq Msg /\ published \subseteq Msg /\ dropped \subseteq Msg
    /\ heard \in [Msg -> Nat] /\ failed \in [Msg -> Nat]
    /\ happened \subseteq Faults
    /\ faults \in 0..MaxFaults

Holds(w, m) == pc[w] \in {"emit", "pushback"} /\ msg[w] = m
Queued(m) == \E i \in DOMAIN queue : queue[i].msg = m

NotResent == "resend" \notin happened

\* However drains overlap, fail and crash, there is at most one copy of a message:
\* no two of them publish it at a time, and none publishes one that is queued.
\* Only a command that Redis executed twice makes a second copy.
SingleCopy ==
    NotResent =>
        /\ \A i, j \in DOMAIN queue : queue[i].msg = queue[j].msg => i = j
        /\ \A v, w \in Drain : \A m \in Msg : Holds(v, m) /\ Holds(w, m) => v = w
        /\ \A w \in Drain : \A m \in Msg : Holds(w, m) => ~Queued(m)

\* A message is given up exactly after maxRetries retries have failed as well, and
\* was then not published.
DroppedAfterRetries ==
    NotResent =>
        \A m \in dropped : failed[m] = MaxRetries + 1 /\ m \notin published

\* A subscriber gets a message again only after an attempt that was reported as
\* failed, never because drains overlap, or after a crash.
HeardOncePerAttempt == NotResent => \A m \in Msg : heard[m] <= failed[m] + 1

\* An enqueued message is on the list, in the hands of a drain, published, or
\* given up ("the event is first persisted, then delivered", comment of
\* OutboxModule).
NothingLost ==
    \A m \in enqueued :
        Queued(m) \/ (\E w \in Drain : Holds(w, m)) \/ m \in published \/ m \in dropped

\* No command has been rejected by Redis, and no gateway has died.
RedisHolds == {"redis", "crash"} \cap happened = {}

\* So far nothing is lost, whatever publishing does and however drains overlap.
KeptUnlessRedisFails == RedisHolds => NothingLost

\* And every enqueued message is published or given up in the end: no message
\* circles for ever, and none is overtaken for ever by another's retries.
EventuallySettled ==
    \A m \in Msg : (m \in enqueued) ~> (m \in published \cup dropped \/ ~RedisHolds)
=============================================================================
