----------------------- MODULE DistributedLock_proofs -----------------------
(***************************************************************************)
(* The distributed lock excludes, for every number of invocations, every   *)
(* ttl, every latency bound and every bound on failing renewals that are   *)
(* Timely; and whatever the timing its commands leave other owners' keys   *)
(* alone.                                                                  *)
(***************************************************************************)
EXTENDS DistributedLock, TLAPS

\* The watchdog's interval is a positive number of units of time.
LEMMA IntervalType == Interval \in Nat \ {0}
BY LockAssumption DEF Interval

\* Every step keeps the types: one case per action.
LEMMA NextTypeOK == TypeOK /\ [Next]_vars => TypeOK'
<1> SUFFICES ASSUME TypeOK, [Next]_vars PROVE TypeOK'
  OBVIOUS
<1> USE LockAssumption, IntervalType DEF TypeOK, PCs
<1>1. ASSUME NEW i \in Owner, Acquire(i) PROVE TypeOK'
  <2>1. CASE /\ holder' = i /\ lease' = Ttl
             /\ Goto(i, "acquired") /\ Sent(i)
    BY <1>1, <2>1 DEF Acquire, Goto, Sent
  <2>2. CASE Goto(i, "refused") /\ UNCHANGED <<holder, lease, inflight, due>>
    BY <1>1, <2>2 DEF Acquire, Goto
  <2> QED
    BY <1>1, <2>1, <2>2 DEF Acquire
<1>2. ASSUME NEW i \in Owner, AcquireReply(i) PROVE TypeOK'
  BY <1>2 DEF AcquireReply, Goto, Arrived
<1>3. ASSUME NEW i \in Owner, AcquireLost(i) PROVE TypeOK'
  BY <1>3 DEF AcquireLost, Goto, Arrived
<1>4. ASSUME NEW i \in Owner, RenewSend(i) PROVE TypeOK'
  BY <1>4 DEF RenewSend, Sent
<1>5. ASSUME NEW i \in Owner, RenewExec(i) PROVE TypeOK'
  BY <1>5 DEF RenewExec, Arrived
<1>6. ASSUME NEW i \in Owner, RenewLost(i) PROVE TypeOK'
  BY <1>6 DEF RenewLost, Arrived
<1>7. ASSUME NEW i \in Owner, FinishFn(i) PROVE TypeOK'
  BY <1>7 DEF FinishFn, Goto, WatchdogStops
<1>8. ASSUME NEW i \in Owner, ReleaseExec(i) PROVE TypeOK'
  BY <1>8 DEF ReleaseExec, Goto
<1>9. ASSUME NEW i \in Owner, ReleaseLost(i) PROVE TypeOK'
  BY <1>9 DEF ReleaseLost, Goto
<1>10. ASSUME NEW i \in Owner, Crash(i) PROVE TypeOK'
  <2>1. pc' \in [Owner -> PCs]
    BY <1>10 DEF Crash, Goto
  <2>2. timer' \in [Owner -> 0..Interval] /\ missed' \in [Owner -> 0..MaxMissed]
    BY <1>10 DEF Crash, WatchdogStops
  <2>3. inflight' \in [Owner -> BOOLEAN] /\ due' \in [Owner -> 0..MaxLatency]
    <3>1. CASE Arrived(i)
      BY <3>1 DEF Arrived
    <3>2. CASE UNCHANGED <<inflight, due>>
      BY <3>2
    <3> QED
      BY <1>10, <3>1, <3>2 DEF Crash
  <2> QED
    BY <1>10, <2>1, <2>2, <2>3 DEF Crash
<1>11. ASSUME Tick PROVE TypeOK'
  <2>1. \A i \in Owner : /\ inflight[i] => due[i] - 1 \in 0..MaxLatency
                         /\ pc[i] = "critical" => timer[i] - 1 \in 0..Interval
    BY <1>11 DEF Tick, Urgent
  <2> QED
    BY <1>11, <2>1 DEF Tick
<1>12. CASE UNCHANGED vars
  BY <1>12 DEF vars
<1> QED
  BY <1>1, <1>2, <1>3, <1>4, <1>5, <1>6, <1>7, <1>8, <1>9, <1>10, <1>11, <1>12
  DEF Next, Reply, Renew, Release

\* Initially nobody has the key and every invocation is idle.
LEMMA InitTypeOK == Init => TypeOK
BY LockAssumption, IntervalType DEF Init, TypeOK, PCs

\* The variables keep their types through every step of the lock.
THEOREM TypeCorrect == Spec => []TypeOK
BY InitTypeOK, NextTypeOK, PTL DEF Spec

\* What is kept in reserve when m renewals were missed is a natural number, at
\* most the whole of it, and missing one more costs one interval.
LEMMA ReserveFacts ==
  ASSUME NEW m \in 0..MaxMissed
  PROVE  /\ (MaxMissed - m) * Interval \in Nat
         /\ (MaxMissed - m) * Interval <= MaxMissed * Interval
         /\ (MaxMissed - m) * Interval = (MaxMissed - (m + 1)) * Interval + Interval
<1>1. MaxMissed \in Nat /\ Interval \in Nat /\ m \in Nat /\ MaxMissed - m \in Nat
  BY LockAssumption, IntervalType
<1>2. \A x, y \in Nat : x * y \in Nat
  OBVIOUS
<1>3. (MaxMissed - m) * Interval \in Nat /\ m * Interval \in Nat
  BY <1>1, <1>2
<1>4. MaxMissed * Interval = (MaxMissed - m) * Interval + m * Interval
  BY <1>1
<1>5. (MaxMissed - m) * Interval = (MaxMissed - (m + 1)) * Interval + Interval
  BY <1>1
<1> QED
  BY <1>3, <1>4, <1>5

(* The inductive invariant: the types and the account of the remaining lease. *)
IInv == TypeOK /\ LeaseInv

\* Initially nobody has the key.
LEMMA InitIInv == Init => IInv
<1> SUFFICES ASSUME Init PROVE LeaseInv
  BY InitTypeOK DEF IInv
<1> QED
  BY LockAssumption DEF Init, LeaseInv

\* A step of one owner that leaves the key and the clocks of the others alone
\* keeps what LeaseInv says of them.
OthersKept(i) ==
  \A j \in Owner \ {i} :
     /\ pc'[j] = pc[j] /\ timer'[j] = timer[j] /\ inflight'[j] = inflight[j]
     /\ due'[j] = due[j] /\ missed'[j] = missed[j]

\* What LeaseInv says of one owner, and of the key.
KeyPart == holder = NoOwner <=> lease = 0

OwnerPart(i) ==
  /\ pc[i] = "acquired" =>
        holder = i /\ inflight[i] /\ lease + MaxLatency >= Ttl + due[i]
  /\ pc[i] = "critical" =>
        /\ holder = i
        /\ ~inflight[i] => lease > timer[i] + Reserve(i) + MaxLatency
        /\ inflight[i] => /\ timer[i] + MaxLatency = due[i] + Interval
                          /\ lease > due[i] + Reserve(i)

\* LeaseInv speaks of the key and of each owner on its own.
LEMMA LeaseInvParts ==
  /\ LeaseInv <=> KeyPart /\ \A i \in Owner : OwnerPart(i)
  /\ LeaseInv' <=> KeyPart' /\ \A i \in Owner : OwnerPart(i)'
BY DEF LeaseInv, KeyPart, OwnerPart

\* A step that leaves the key alone, or belongs to its holder, keeps the part of
\* every other owner.
LEMMA OthersKeepTheirPart ==
  ASSUME IInv, NEW i \in Owner, OthersKept(i),
         UNCHANGED <<holder, lease>> \/ holder \in {i, NoOwner},
         NEW j \in Owner \ {i}
  PROVE  OwnerPart(j)'
<1>1. OwnerPart(j) /\ j # NoOwner
  BY LeaseInvParts, LockAssumption DEF IInv
<1>2. Reserve(j)' = Reserve(j)
  BY DEF OthersKept, Reserve
<1>3. CASE UNCHANGED <<holder, lease>>
  BY <1>1, <1>2, <1>3 DEF OthersKept, OwnerPart
<1>4. CASE holder \in {i, NoOwner}
  <2>1. pc[j] \notin {"acquired", "critical"}
    BY <1>1, <1>4 DEF OwnerPart
  <2> QED
    BY <2>1 DEF OthersKept, OwnerPart
<1> QED
  BY <1>3, <1>4

\* Under Timely every step keeps the account of the lease: the acting owner's
\* part by its action, the parts of the others by the lemma above.
LEMMA NextIInv ==
  ASSUME Timely, IInv, [Next]_vars
  PROVE  IInv'
<1>1. TypeOK /\ TypeOK' /\ KeyPart /\ \A i \in Owner : OwnerPart(i)
  BY NextTypeOK, LeaseInvParts DEF IInv
<1>2. /\ Interval \in Nat /\ Interval > 0 /\ Ttl \in Nat /\ MaxLatency \in Nat
      /\ MaxLatency < Interval /\ MaxMissed \in Nat /\ NoOwner \notin Owner
  BY LockAssumption, LatencyAssumption, IntervalType
<1>3. MaxMissed * Interval \in Nat
      /\ Ttl > MaxMissed * Interval + Interval + MaxLatency + MaxLatency
  <2>1. (MaxMissed + 1) * Interval = MaxMissed * Interval + Interval
    BY <1>2
  <2>2. \A x, y \in Nat : x * y \in Nat
    OBVIOUS
  <2> QED
    BY <1>2, <2>1, <2>2 DEF Timely
<1>4. \A i \in Owner : missed[i] \in 0..MaxMissed /\ missed'[i] \in 0..MaxMissed
  BY <1>1 DEF TypeOK
<1>5. \A i \in Owner : Reserve(i) \in Nat /\ Reserve(i) <= MaxMissed * Interval
  BY <1>4, ReserveFacts DEF Reserve
<1>6. \A i \in Owner : Reserve(i)' \in Nat /\ Reserve(i)' <= MaxMissed * Interval
  BY <1>4, ReserveFacts DEF Reserve
<1>7. /\ holder \in Owner \cup {NoOwner} /\ lease \in 0..Ttl
      /\ pc \in [Owner -> PCs] /\ timer \in [Owner -> 0..Interval]
      /\ inflight \in [Owner -> BOOLEAN] /\ due \in [Owner -> 0..MaxLatency]
      /\ missed \in [Owner -> 0..MaxMissed]
  BY <1>1 DEF TypeOK
<1>8. ASSUME NEW i \in Owner, OthersKept(i), KeyPart', OwnerPart(i)',
             UNCHANGED <<holder, lease>> \/ holder \in {i, NoOwner}
      PROVE  IInv'
  <2>1. \A j \in Owner \ {i} : OwnerPart(j)'
    BY <1>8, OthersKeepTheirPart
  <2>2. \A j \in Owner : OwnerPart(j)'
    BY <1>8, <2>1
  <2> QED
    BY <1>1, <1>8, <2>2, LeaseInvParts DEF IInv
<1>9. ASSUME NEW i \in Owner, Acquire(i) PROVE IInv'
  <2>1. OthersKept(i)
    BY <1>7, <1>9 DEF Acquire, Goto, Sent, OthersKept
  <2>2. CASE /\ holder = NoOwner /\ holder' = i /\ lease' = Ttl
             /\ Goto(i, "acquired") /\ Sent(i)
    <3>1. KeyPart'
      BY <1>2, <2>2, LockAssumption DEF KeyPart
    <3>2. OwnerPart(i)'
      BY <1>2, <1>7, <2>2 DEF Goto, Sent, OwnerPart
    <3> QED
      BY <1>8, <2>1, <2>2, <3>1, <3>2
  <2>3. CASE Goto(i, "refused") /\ UNCHANGED <<holder, lease, inflight, due>>
    <3>1. KeyPart' /\ OwnerPart(i)'
      BY <1>1, <1>7, <2>3 DEF Goto, KeyPart, OwnerPart
    <3> QED
      BY <1>8, <2>1, <2>3, <3>1
  <2> QED
    BY <1>9, <2>2, <2>3 DEF Acquire
<1>10. ASSUME NEW i \in Owner, AcquireReply(i) PROVE IInv'
  <2>1. OthersKept(i) /\ KeyPart' /\ UNCHANGED <<holder, lease>>
    BY <1>1, <1>7, <1>10 DEF AcquireReply, Goto, Arrived, OthersKept, KeyPart
  <2>2. holder = i /\ lease + MaxLatency >= Ttl + due[i]
    BY <1>1, <1>10 DEF AcquireReply, OwnerPart
  <2>3. /\ pc'[i] = "critical" /\ ~inflight'[i] /\ timer'[i] = Interval
        /\ missed'[i] = 0
    BY <1>7, <1>10 DEF AcquireReply, Goto, Arrived
  <2>4. lease > Interval + MaxMissed * Interval + MaxLatency
    BY <1>2, <1>3, <1>7, <2>2
  <2>5. OwnerPart(i)'
    BY <1>2, <1>3, <1>6, <1>7, <2>1, <2>2, <2>3, <2>4 DEF OwnerPart
  <2> QED
    BY <1>8, <2>1, <2>5
<1>11. ASSUME NEW i \in Owner, AcquireLost(i) PROVE IInv'
  <2>1. OthersKept(i) /\ KeyPart' /\ UNCHANGED <<holder, lease>> /\ OwnerPart(i)'
    BY <1>1, <1>7, <1>11
    DEF AcquireLost, Goto, Arrived, OthersKept, KeyPart, OwnerPart
  <2> QED
    BY <1>8, <2>1
<1>12. ASSUME NEW i \in Owner, RenewSend(i) PROVE IInv'
  <2>1. OthersKept(i) /\ KeyPart' /\ UNCHANGED <<holder, lease>>
    BY <1>1, <1>7, <1>12 DEF RenewSend, Sent, OthersKept, KeyPart
  <2>2. /\ pc'[i] = "critical" /\ inflight'[i] /\ timer'[i] = Interval
        /\ due'[i] = MaxLatency /\ Reserve(i)' = Reserve(i)
    BY <1>7, <1>12 DEF RenewSend, Sent, Reserve
  <2>3. holder = i /\ ~inflight[i] /\ lease > Reserve(i) + MaxLatency
    BY <1>1, <1>2, <1>5, <1>7, <1>12 DEF RenewSend, OwnerPart
  <2>4. OwnerPart(i)'
    BY <1>2, <1>5, <1>7, <2>1, <2>2, <2>3 DEF OwnerPart
  <2> QED
    BY <1>8, <2>1, <2>4
<1>13. ASSUME NEW i \in Owner, RenewExec(i) PROVE IInv'
  <2>1. OthersKept(i)
    BY <1>7, <1>13 DEF RenewExec, Arrived, OthersKept
  <2>2. KeyPart' /\ holder' = holder /\ (holder # i => lease' = lease)
    BY <1>1, <1>2, <1>7, <1>13 DEF RenewExec, KeyPart
  <2>3. ASSUME pc'[i] = "critical"
        PROVE holder = i /\ lease' = Ttl /\ ~inflight'[i] /\ timer'[i] \in 0..Interval
    BY <1>1, <1>7, <1>13, <2>3 DEF RenewExec, Arrived, OwnerPart
  <2>4. OwnerPart(i)'
    <3>1. pc'[i] # "acquired"
      BY <1>13 DEF RenewExec, Renewing
    <3>2. CASE pc'[i] = "critical"
      BY <1>2, <1>3, <1>6, <2>2, <2>3, <3>2 DEF OwnerPart
    <3> QED
      BY <3>1, <3>2 DEF OwnerPart
  <2> QED
    BY <1>8, <1>13, <2>1, <2>2, <2>4 DEF RenewExec
<1>14. ASSUME NEW i \in Owner, RenewLost(i) PROVE IInv'
  <2>1. OthersKept(i) /\ KeyPart' /\ UNCHANGED <<holder, lease, pc, timer>>
    BY <1>1, <1>7, <1>14 DEF RenewLost, Arrived, OthersKept, KeyPart
  <2>2. OwnerPart(i)'
    <3>1. pc'[i] # "acquired" /\ ~inflight'[i] /\ inflight[i]
      BY <1>7, <1>14 DEF RenewLost, Renewing, Arrived
    <3>2. CASE pc[i] = "critical"
      <4>1. Reserve(i) = Reserve(i)' + Interval
        <5>1. missed'[i] = missed[i] + 1
          BY <1>7, <1>14, <3>2 DEF RenewLost
        <5> QED
          BY <1>4, <5>1, ReserveFacts DEF Reserve
      <4>2. /\ holder = i /\ timer[i] + MaxLatency = due[i] + Interval
            /\ lease > due[i] + Reserve(i)
        BY <1>1, <3>1, <3>2 DEF OwnerPart
      <4>3. lease > timer[i] + Reserve(i)' + MaxLatency
        BY <1>2, <1>6, <1>7, <4>1, <4>2
      <4> QED
        BY <2>1, <3>1, <4>2, <4>3 DEF OwnerPart
    <3> QED
      BY <2>1, <3>1, <3>2 DEF OwnerPart
  <2> QED
    BY <1>8, <2>1, <2>2
<1>15. ASSUME NEW i \in Owner, FinishFn(i) PROVE IInv'
  <2>1. OthersKept(i) /\ KeyPart' /\ UNCHANGED <<holder, lease>> /\ OwnerPart(i)'
    BY <1>1, <1>7, <1>15
    DEF FinishFn, Goto, WatchdogStops, OthersKept, KeyPart, OwnerPart
  <2> QED
    BY <1>8, <2>1
<1>16. ASSUME NEW i \in Owner, ReleaseExec(i) PROVE IInv'
  <2>1. OthersKept(i) /\ OwnerPart(i)'
    BY <1>7, <1>16 DEF ReleaseExec, Goto, OthersKept, OwnerPart
  <2>2. KeyPart' /\ (holder = i \/ UNCHANGED <<holder, lease>>)
    BY <1>1, <1>16 DEF ReleaseExec, KeyPart
  <2> QED
    BY <1>8, <2>1, <2>2
<1>17. ASSUME NEW i \in Owner, ReleaseLost(i) PROVE IInv'
  <2>1. OthersKept(i) /\ KeyPart' /\ UNCHANGED <<holder, lease>> /\ OwnerPart(i)'
    BY <1>1, <1>7, <1>17 DEF ReleaseLost, Goto, OthersKept, KeyPart, OwnerPart
  <2> QED
    BY <1>8, <2>1
<1>18. ASSUME NEW i \in Owner, Crash(i) PROVE IInv'
  <2>1. OthersKept(i)
    BY <1>7, <1>18 DEF Crash, Goto, WatchdogStops, Arrived, OthersKept
  <2>2. KeyPart' /\ UNCHANGED <<holder, lease>> /\ OwnerPart(i)'
    BY <1>1, <1>7, <1>18 DEF Crash, Goto, KeyPart, OwnerPart
  <2> QED
    BY <1>8, <2>1, <2>2
<1>19. ASSUME Tick PROVE IInv'
  <2>1. KeyPart'
    BY <1>1, <1>7, <1>19 DEF Tick, KeyPart
  <2>2. ASSUME NEW i \in Owner PROVE OwnerPart(i)'
    <3>1. /\ pc'[i] = pc[i] /\ inflight'[i] = inflight[i] /\ Reserve(i)' = Reserve(i)
          /\ ~Urgent(i)
          /\ timer'[i] = IF pc[i] = "critical" THEN timer[i] - 1 ELSE timer[i]
          /\ due'[i] = IF inflight[i] THEN due[i] - 1 ELSE due[i]
      BY <1>19 DEF Tick, Reserve
    <3>2. CASE pc[i] = "acquired"
      <4>1. holder = i /\ inflight[i] /\ lease + MaxLatency >= Ttl + due[i] /\ due[i] > 0
        BY <1>1, <1>7, <3>1, <3>2 DEF OwnerPart, Urgent
      <4>2. lease > 1
        BY <1>2, <1>3, <1>7, <4>1
      <4>3. holder' = i /\ lease' = lease - 1
        BY <1>7, <1>19, <4>1, <4>2 DEF Tick
      <4> QED
        BY <1>2, <1>7, <3>1, <3>2, <4>1, <4>3 DEF OwnerPart
    <3>3. CASE pc[i] = "critical" /\ inflight[i]
      <4>1. /\ holder = i /\ timer[i] + MaxLatency = due[i] + Interval
            /\ lease > due[i] + Reserve(i) /\ due[i] > 0
        BY <1>1, <1>7, <3>1, <3>3 DEF OwnerPart, Urgent
      <4>2. holder' = i /\ lease' = lease - 1
        BY <1>5, <1>7, <1>19, <4>1 DEF Tick
      <4> QED
        BY <1>2, <1>5, <1>7, <3>1, <3>3, <4>1, <4>2 DEF OwnerPart
    <3>4. CASE pc[i] = "critical" /\ ~inflight[i]
      <4>1. holder = i /\ lease > timer[i] + Reserve(i) + MaxLatency /\ timer[i] > 0
        BY <1>1, <1>7, <3>1, <3>4 DEF OwnerPart, Urgent
      <4>2. holder' = i /\ lease' = lease - 1
        BY <1>2, <1>5, <1>7, <1>19, <4>1 DEF Tick
      <4> QED
        BY <1>2, <1>5, <1>7, <3>1, <3>4, <4>1, <4>2 DEF OwnerPart
    <3> QED
      BY <3>1, <3>2, <3>3, <3>4 DEF OwnerPart
  <2> QED
    BY <1>1, <2>1, <2>2, LeaseInvParts DEF IInv
<1>20. CASE UNCHANGED vars
  <2>1. KeyPart' /\ \A i \in Owner : OwnerPart(i)'
    BY <1>1, <1>20 DEF vars, KeyPart, OwnerPart, Reserve
  <2> QED
    BY <1>1, <2>1, LeaseInvParts DEF IInv
<1> QED
  BY <1>9, <1>10, <1>11, <1>12, <1>13, <1>14, <1>15, <1>16, <1>17, <1>18, <1>19, <1>20
  DEF Next, Reply, Renew, Release

\* The account of the lease is an invariant of every timely lock.
LEMMA IInvHolds == ASSUME Timely PROVE Spec => []IInv
<1>1. IInv /\ [Next]_vars => IInv'
  BY NextIInv
<1> QED
  BY <1>1, InitIInv, PTL DEF Spec

\* The lease that a timely lock has left covers the time to its next renewal, the
\* renewals that may still fail, and the latency of the one that succeeds.
THEOREM LeaseCovers == ASSUME Timely PROVE Spec => []LeaseInv
<1>1. IInv => LeaseInv
  BY DEF IInv
<1> QED
  BY <1>1, IInvHolds, PTL

\* A timely lock never loses its key while the fn of runWithLock is running.
THEOREM CriticalSectionOwnsKey == ASSUME Timely PROVE Spec => []CriticalOwnsKey
<1>1. IInv => CriticalOwnsKey
  BY DEF IInv, LeaseInv, CriticalOwnsKey
<1> QED
  BY <1>1, IInvHolds, PTL

\* At most one invocation at a time runs its fn under a timely lock.
THEOREM LockExcludes == ASSUME Timely PROVE Spec => []MutualExclusion
<1>1. IInv => MutualExclusion
  BY DEF IInv, LeaseInv, MutualExclusion
<1> QED
  BY <1>1, IInvHolds, PTL

\* A timely lock implements the abstract critical section: an invocation enters
\* when the reply to its SET arrives, and no other one is inside then.
THEOREM Implements == ASSUME Timely PROVE Spec => ImplementsCriticalSection
<1> DEFINE phase == [i \in Owner |-> Phase(i)]
<1>1. Init => Abstract!Init
  BY DEF Init, Abstract!Init, Phase
<1>2. IInv /\ [Next]_vars => [Abstract!Next]_phase
  <2> SUFFICES ASSUME IInv, [Next]_vars PROVE [Abstract!Next]_phase
    OBVIOUS
  <2>1. pc \in [Owner -> PCs]
    BY DEF IInv, TypeOK
  <2>2. ASSUME NEW i \in Owner, NEW next \in PCs, Goto(i, next)
        PROVE  phase' = [phase EXCEPT ![i] =
                            IF next \in {"idle", "acquired"} THEN "outside"
                            ELSE IF next = "critical" THEN "inside" ELSE "left"]
    BY <2>1, <2>2 DEF Goto, Phase
  <2>3. ASSUME NEW i \in Owner, pc'[i] = pc[i] \/ Phase(i)' = Phase(i),
               \A j \in Owner \ {i} : pc'[j] = pc[j]
        PROVE  phase' = phase
    BY <2>1, <2>3 DEF Phase
  <2>4. ASSUME NEW i \in Owner, Acquire(i) PROVE [Abstract!Next]_phase
    <3>1. CASE Goto(i, "acquired")
      BY <2>1, <2>3, <2>4, <3>1 DEF Acquire, Goto, Phase, PCs
    <3>2. CASE Goto(i, "refused")
      <4>1. Abstract!TurnAway(i)
        BY <2>2, <2>4, <3>2 DEF Acquire, Abstract!TurnAway, Phase, PCs
      <4> QED
        BY <4>1 DEF Abstract!Next
    <3> QED
      BY <2>4, <3>1, <3>2 DEF Acquire
  <2>5. ASSUME NEW i \in Owner, AcquireReply(i) PROVE [Abstract!Next]_phase
    <3>1. \A j \in Owner : pc[j] # "critical"
      BY <2>5 DEF AcquireReply, IInv, LeaseInv
    <3>2. Abstract!Enter(i)
      BY <2>2, <2>5, <3>1 DEF AcquireReply, Abstract!Enter, Phase, PCs
    <3> QED
      BY <3>2 DEF Abstract!Next
  <2>6. ASSUME NEW i \in Owner, AcquireLost(i) PROVE [Abstract!Next]_phase
    <3>1. Abstract!TurnAway(i)
      BY <2>2, <2>6 DEF AcquireLost, Abstract!TurnAway, Phase, PCs
    <3> QED
      BY <3>1 DEF Abstract!Next
  <2>7. ASSUME NEW i \in Owner, RenewSend(i) \/ Renew(i) PROVE [Abstract!Next]_phase
    BY <2>3, <2>7 DEF RenewSend, Renew, RenewExec, RenewLost
  <2>8. ASSUME NEW i \in Owner, FinishFn(i) PROVE [Abstract!Next]_phase
    <3>1. Abstract!Leave(i)
      BY <2>2, <2>8 DEF FinishFn, Abstract!Leave, Phase, PCs
    <3> QED
      BY <3>1 DEF Abstract!Next
  <2>9. ASSUME NEW i \in Owner, Release(i) PROVE [Abstract!Next]_phase
    <3>1. pc[i] = "stopped" /\ Goto(i, "done")
      BY <2>9 DEF Release, ReleaseExec, ReleaseLost
    <3> QED
      BY <2>1, <2>3, <3>1 DEF Goto, Phase
  <2>10. ASSUME NEW i \in Owner, Crash(i) PROVE [Abstract!Next]_phase
    <3>1. Goto(i, "crashed")
      BY <2>10 DEF Crash
    <3>2. CASE pc[i] = "acquired"
      <4>1. Abstract!TurnAway(i)
        BY <2>2, <3>1, <3>2 DEF Abstract!TurnAway, Phase, PCs
      <4> QED
        BY <4>1 DEF Abstract!Next
    <3>3. CASE pc[i] = "critical"
      <4>1. Abstract!Leave(i)
        BY <2>2, <3>1, <3>3 DEF Abstract!Leave, Phase, PCs
      <4> QED
        BY <4>1 DEF Abstract!Next
    <3>4. CASE pc[i] = "stopped"
      BY <2>1, <2>3, <3>1, <3>4 DEF Goto, Phase
    <3> QED
      BY <2>10, <3>2, <3>3, <3>4 DEF Crash
  <2>11. ASSUME UNCHANGED pc PROVE [Abstract!Next]_phase
    BY <2>11 DEF Phase
  <2> QED
    BY <2>4, <2>5, <2>6, <2>7, <2>8, <2>9, <2>10, <2>11
    DEF Next, Reply, Tick, vars
<1> QED
  BY <1>1, <1>2, IInvHolds, PTL DEF Spec, ImplementsCriticalSection, Abstract!Spec

\* Whatever the timing, a key with time left is deleted only by its owner's
\* release, and its lease grows only by its owner's renewal.
THEOREM CommandsRespectOwner == Spec => OwnKeyOnly
<1> DEFINE Respects ==
      \A i \in Owner : holder = i =>
          /\ holder' # i /\ lease > 1 => pc[i] = "stopped"
          /\ holder' = i /\ lease' > lease => inflight[i]
<1>1. TypeOK /\ [Next]_vars => [Respects]_vars
  <2> SUFFICES ASSUME TypeOK, [Next]_vars, NEW i \in Owner, holder = i
               PROVE  /\ holder' # i /\ lease > 1 => pc[i] = "stopped"
                      /\ holder' = i /\ lease' > lease => inflight[i]
    OBVIOUS
  <2>1. lease \in Nat /\ lease' \in Nat /\ i # NoOwner
    BY LockAssumption, NextTypeOK DEF TypeOK
  <2>2. CASE UNCHANGED <<holder, lease>>
    BY <2>1, <2>2
  <2>3. ASSUME NEW j \in Owner, Acquire(j)
        PROVE UNCHANGED <<holder, lease>>
    BY <2>1, <2>3 DEF Acquire
  <2>4. ASSUME NEW j \in Owner, RenewExec(j)
        PROVE /\ holder' = holder
              /\ lease' > lease => inflight[i]
    BY <2>1, <2>4 DEF RenewExec, Renewing
  <2>5. ASSUME NEW j \in Owner, ReleaseExec(j)
        PROVE UNCHANGED <<holder, lease>> \/ (holder' # i /\ pc[i] = "stopped")
    BY <2>1, <2>5 DEF ReleaseExec
  <2>6. ASSUME Tick
        PROVE lease' <= lease /\ (lease > 1 => holder' = holder)
    BY <2>1, <2>6 DEF Tick
  <2> QED
    BY <2>1, <2>2, <2>3, <2>4, <2>5, <2>6
    DEF Next, Reply, Renew, Release, AcquireReply, AcquireLost, RenewSend, RenewLost,
        FinishFn, ReleaseLost, Crash, vars
<1> HIDE DEF Respects
<1>2. Spec => [][Respects]_vars
  BY <1>1, TypeCorrect, PTL DEF Spec
<1> QED
  BY <1>2 DEF OwnKeyOnly, Respects
=============================================================================
