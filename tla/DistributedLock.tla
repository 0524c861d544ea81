-------------------------- MODULE DistributedLock --------------------------
(***************************************************************************)
(* DistributedLockService: a Redis key set with NX and PX, a watchdog that *)
(* renews it from the holder's process, and a release that compares the    *)
(* owner.  One key is modelled.  An owner is one invocation of runWithLock *)
(* and the random UUID it draws, so each owner runs once.                  *)
(*                                                                         *)
(* Time is discrete and counted down: the remaining lease of the key, the  *)
(* time to the next watchdog tick of an owner and the time within which    *)
(* the command or reply an owner has in flight arrives.  Commands of one   *)
(* connection are executed by Redis in the order they were sent.           *)
(***************************************************************************)
EXTENDS Integers

CONSTANTS
    Owner,       \* invocations of runWithLock for the key
    NoOwner,     \* the key does not exist
    Ttl,         \* ttlMs, in units of time
    MinInterval, \* the 1_000 ms below which the watchdog's interval never is
    MaxLatency,  \* bound: a command or a reply arrives within this time
    MaxMissed    \* bound: renewals that fail in a row

ASSUME LockAssumption ==
    /\ NoOwner \notin Owner
    /\ Ttl \in Nat \ {0}
    /\ MinInterval \in Nat \ {0}
    /\ MaxLatency \in Nat
    /\ MaxMissed \in Nat

VARIABLES
    holder,   \* the value of the key, or NoOwner
    lease,    \* the remaining time to live of the key, 0 when it does not exist
    pc,       \* where an invocation stands
    timer,    \* timer[i]: time to the next tick of the watchdog of i
    inflight, \* inflight[i]: i has a renewal, or the reply to its SET, in flight
    due,      \* due[i]: the time left for what is in flight
    missed    \* missed[i]: renewals of i that failed since the last good one

vars == <<holder, lease, pc, timer, inflight, due, missed>>

-----------------------------------------------------------------------------
\* Mutant of Interval: the watchdog ticks once per ttl.
IntervalTtl == Ttl

\* Math.max(1_000, Math.floor(ttlMs / 3))
Interval == IF Ttl \div 3 < MinInterval THEN MinInterval ELSE Ttl \div 3

\* Renewals do not overlap: the model has one slot for them.
ASSUME LatencyAssumption == MaxLatency < Interval

PCs == {"idle", "acquired", "critical", "stopped",
        "done", "refused", "failed", "crashed"}

Init ==
    /\ holder = NoOwner
    /\ lease = 0
    /\ pc = [i \in Owner |-> "idle"]
    /\ timer = [i \in Owner |-> 0]
    /\ inflight = [i \in Owner |-> FALSE]
    /\ due = [i \in Owner |-> 0]
    /\ missed = [i \in Owner |-> 0]

\* Something of i is sent, or has arrived.
Sent(i) ==
    /\ inflight' = [inflight EXCEPT ![i] = TRUE]
    /\ due' = [due EXCEPT ![i] = MaxLatency]

Arrived(i) ==
    /\ inflight' = [inflight EXCEPT ![i] = FALSE]
    /\ due' = [due EXCEPT ![i] = 0]

Goto(i, next) == pc' = [pc EXCEPT ![i] = next]

\* The watchdog of i is gone: its interval is cleared, or its process died.
WatchdogStops(i) ==
    /\ timer' = [timer EXCEPT ![i] = 0]
    /\ missed' = [missed EXCEPT ![i] = 0]

-----------------------------------------------------------------------------
\* Mutant of Acquire: the key is set without PX, so it has no time to live.
AcquireNoTtl(i) ==
    /\ pc[i] = "idle"
    /\ \/ /\ holder = NoOwner
          /\ holder' = i
          /\ lease' = 0
          /\ Goto(i, "acquired")
          /\ Sent(i)
       \/ /\ holder # NoOwner
          /\ Goto(i, "refused")
          /\ UNCHANGED <<holder, lease, inflight, due>>
    /\ UNCHANGED <<timer, missed>>

\* acquire: Redis executes SET key owner PX ttl NX.  A null reply ends the
\* invocation with a ConflictException.
Acquire(i) ==
    /\ pc[i] = "idle"
    /\ \/ /\ holder = NoOwner
          /\ holder' = i
          /\ lease' = Ttl
          /\ Goto(i, "acquired")
          /\ Sent(i)
       \/ /\ holder # NoOwner
          /\ Goto(i, "refused")
          /\ UNCHANGED <<holder, lease, inflight, due>>
    /\ UNCHANGED <<timer, missed>>

\* The OK reply arrives: setInterval starts the watchdog and fn starts.
AcquireReply(i) ==
    /\ pc[i] = "acquired"
    /\ Goto(i, "critical")
    /\ Arrived(i)
    /\ timer' = [timer EXCEPT ![i] = Interval]
    /\ missed' = [missed EXCEPT ![i] = 0]
    /\ UNCHANGED <<holder, lease>>

\* The reply is lost and acquire throws; the key stays until it expires.  (The
\* client may send the SET again: it is then refused by its own first key.)
AcquireLost(i) ==
    /\ pc[i] = "acquired"
    /\ Goto(i, "failed")
    /\ Arrived(i)
    /\ UNCHANGED <<holder, lease, timer, missed>>

\* A tick of the watchdog sends a renewal.
RenewSend(i) ==
    /\ pc[i] = "critical"
    /\ timer[i] = 0
    /\ timer' = [timer EXCEPT ![i] = Interval]
    /\ Sent(i)
    /\ UNCHANGED <<holder, lease, pc, missed>>

Renewing(i) == inflight[i] /\ pc[i] # "acquired"

\* Redis executes RENEW_SCRIPT: only the owner's own key gets a new lease.
RenewExec(i) ==
    /\ Renewing(i)
    /\ lease' = IF holder = i THEN Ttl ELSE lease
    /\ Arrived(i)
    /\ missed' = [missed EXCEPT ![i] = 0]
    /\ UNCHANGED <<holder, pc, timer>>

\* The renewal fails; the watchdog only logs it and goes on ticking.
RenewLost(i) ==
    /\ Renewing(i)
    /\ Arrived(i)
    /\ \/ /\ pc[i] = "critical"
          /\ missed[i] < MaxMissed
          /\ missed' = [missed EXCEPT ![i] = @ + 1]
       \/ pc[i] # "critical" /\ UNCHANGED missed
    /\ UNCHANGED <<holder, lease, pc, timer>>

\* fn returns or throws: handle.stop() clears the watchdog and the release is
\* sent, behind a renewal that may still be in flight.
FinishFn(i) ==
    /\ pc[i] = "critical"
    /\ Goto(i, "stopped")
    /\ WatchdogStops(i)
    /\ UNCHANGED <<holder, lease, inflight, due>>

\* Mutant of ReleaseExec: DEL without comparing the owner.
ReleaseExecUnchecked(i) ==
    /\ pc[i] = "stopped"
    /\ ~inflight[i]
    /\ Goto(i, "done")
    /\ holder' = NoOwner /\ lease' = 0
    /\ UNCHANGED <<timer, inflight, due, missed>>

\* Redis executes RELEASE_SCRIPT: the key is deleted if it is the owner's.
ReleaseExec(i) ==
    /\ pc[i] = "stopped"
    /\ ~inflight[i]
    /\ Goto(i, "done")
    /\ \/ holder = i /\ holder' = NoOwner /\ lease' = 0
       \/ holder # i /\ UNCHANGED <<holder, lease>>
    /\ UNCHANGED <<timer, inflight, due, missed>>

\* The release fails; runWithLock logs it and returns the result of fn.
ReleaseLost(i) ==
    /\ pc[i] = "stopped"
    /\ ~inflight[i]
    /\ Goto(i, "done")
    /\ UNCHANGED <<holder, lease, timer, inflight, due, missed>>

\* The process of i dies.  A renewal it has sent may still be executed.
Crash(i) ==
    /\ pc[i] \in {"acquired", "critical", "stopped"}
    /\ Goto(i, "crashed")
    /\ WatchdogStops(i)
    /\ \/ pc[i] = "acquired" /\ Arrived(i)
       \/ pc[i] # "acquired" /\ UNCHANGED <<inflight, due>>
    /\ UNCHANGED <<holder, lease>>

\* Time passes, unless something has to happen now.
Urgent(i) == (inflight[i] /\ due[i] = 0) \/ (pc[i] = "critical" /\ timer[i] = 0)

Tick ==
    /\ \A i \in Owner : ~Urgent(i)
    /\ lease' = IF lease > 0 THEN lease - 1 ELSE 0
    /\ holder' = IF lease = 1 THEN NoOwner ELSE holder
    /\ timer' = [i \in Owner |-> IF pc[i] = "critical" THEN timer[i] - 1 ELSE timer[i]]
    /\ due' = [i \in Owner |-> IF inflight[i] THEN due[i] - 1 ELSE due[i]]
    /\ UNCHANGED <<pc, inflight, missed>>

Renew(i) == RenewExec(i) \/ RenewLost(i)

Reply(i) == AcquireReply(i) \/ AcquireLost(i)

Release(i) == ReleaseExec(i) \/ ReleaseLost(i)

Next ==
    \/ \E i \in Owner :
          \/ Acquire(i) \/ Reply(i)
          \/ RenewSend(i) \/ Renew(i)
          \/ FinishFn(i) \/ Release(i)
          \/ Crash(i)
    \/ Tick

Spec == Init /\ [][Next]_vars

\* Time passes and what is in flight arrives or is lost; fn need not end.
FairSpec ==
    /\ Spec
    /\ WF_vars(Tick)
    /\ \A i \in Owner : WF_vars(Reply(i)) /\ WF_vars(RenewSend(i)) /\ WF_vars(Renew(i))

-----------------------------------------------------------------------------
TypeOK ==
    /\ holder \in Owner \cup {NoOwner}
    /\ lease \in 0..Ttl
    /\ pc \in [Owner -> PCs]
    /\ timer \in [Owner -> 0..Interval]
    /\ inflight \in [Owner -> BOOLEAN]
    /\ due \in [Owner -> 0..MaxLatency]
    /\ missed \in [Owner -> 0..MaxMissed]

\* The lease outlives the renewals that may fail in a row and the latencies of
\* the SET's reply and of a renewal.
Timely == (MaxMissed + 1) * Interval + 2 * MaxLatency < Ttl

\* While fn runs, the key is its own: the watchdog renews it before it expires
\* (class comment, "so that the lock does not expire early").
CriticalOwnsKey == \A i \in Owner : pc[i] = "critical" => holder = i

\* At most one invocation is inside its fn (LockModule's comment).
MutualExclusion ==
    \A i, j \in Owner : pc[i] = "critical" /\ pc[j] = "critical" => i = j

\* Why it is its own: the lease that is left covers the time to the next tick,
\* the renewals that may yet fail, and the latency of the one that succeeds.
Reserve(i) == (MaxMissed - missed[i]) * Interval

LeaseInv ==
    /\ holder = NoOwner <=> lease = 0
    /\ \A i \in Owner : pc[i] = "acquired" =>
          holder = i /\ inflight[i] /\ lease + MaxLatency >= Ttl + due[i]
    /\ \A i \in Owner : pc[i] = "critical" =>
          /\ holder = i
          /\ ~inflight[i] => lease > timer[i] + Reserve(i) + MaxLatency
          /\ inflight[i] => /\ timer[i] + MaxLatency = due[i] + Interval
                            /\ lease > due[i] + Reserve(i)

\* No command of one owner touches another's key, however late it is executed
\* (a release may reach Redis when the lease has run out and the key is the next
\* owner's): a key that has time left disappears only by its owner's release,
\* and its lease grows only by its owner's renewal.
OwnKeyOnly ==
    [][\A i \in Owner : holder = i =>
          /\ holder' # i /\ lease > 1 => pc[i] = "stopped"
          /\ holder' = i /\ lease' > lease => inflight[i]]_vars

\* A key whose owner crashed, or whose SET reply or release got lost, becomes
\* free by its expiry: no invocation can block the later ones for ever.
AbandonedKeyExpires ==
    \A i \in Owner :
        (holder = i /\ pc[i] \in {"failed", "crashed", "done"}) ~> (holder # i)

-----------------------------------------------------------------------------
\* The phases of the abstract critical section.
Phase(i) ==
    IF pc[i] \in {"idle", "acquired"} THEN "outside"
    ELSE IF pc[i] = "critical" THEN "inside" ELSE "left"

Abstract == INSTANCE CriticalSection WITH phase <- [i \in Owner |-> Phase(i)]

\* runWithLock implements the abstract critical section.
ImplementsCriticalSection == Abstract!Spec
=============================================================================
