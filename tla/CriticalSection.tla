-------------------------- MODULE CriticalSection --------------------------
(***************************************************************************)
(* What DistributedLockService.runWithLock promises its callers: of all    *)
(* the invocations for one key at most one is running its fn; an           *)
(* invocation runs its fn at most once, or is turned away.                 *)
(***************************************************************************)
CONSTANT Owner  \* invocations of runWithLock for one key

VARIABLE phase

Init == phase = [i \in Owner |-> "outside"]

Enter(i) ==
    /\ phase[i] = "outside"
    /\ \A j \in Owner : phase[j] # "inside"
    /\ phase' = [phase EXCEPT ![i] = "inside"]

Leave(i) ==
    /\ phase[i] = "inside"
    /\ phase' = [phase EXCEPT ![i] = "left"]

TurnAway(i) ==
    /\ phase[i] = "outside"
    /\ phase' = [phase EXCEPT ![i] = "left"]

Next == \E i \in Owner : Enter(i) \/ Leave(i) \/ TurnAway(i)

Spec == Init /\ [][Next]_phase
=============================================================================
