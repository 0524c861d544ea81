--------------------------- MODULE CircuitBreaker ---------------------------
(***************************************************************************)
(* CircuitBreakerService.execute and the @CircuitBreaker decorator: one    *)
(* named circuit in the memory of a process.  The state is looked at when  *)
(* a call begins and again when its fn has settled; other calls begin and  *)
(* settle in between.  A caller calls again once it has its answer.        *)
(***************************************************************************)
EXTENDS Naturals

CONSTANTS
    Call,      \* callers of the guarded method
    Threshold, \* failureThreshold
    Recovery,  \* recoveryTimeoutMs, in units of time
    MaxThrown  \* bound: exceptions of fn

ASSUME BreakerAssumption ==
    Threshold \in Nat \ {0} /\ Recovery \in Nat /\ MaxThrown \in Nat

VARIABLES
    state,    \* CLOSED, OPEN or HALF_OPEN
    failures, \* the counter of the circuit
    cool,     \* what is left of the recovery timeout since openedAt
    pc,       \* pc[c]: running, probing (begun in HALF_OPEN), or its answer
    thrown    \* how many exceptions there were

vars == <<state, failures, cool, pc, thrown>>

-----------------------------------------------------------------------------
InFlight == {"running", "probing"}
Answers == {"none", "ok", "failed", "exempt", "fallback"}

Init ==
    /\ state = "CLOSED"
    /\ failures = 0
    /\ cool = 0
    /\ pc = [c \in Call |-> "none"]
    /\ thrown = 0

Goto(c, next) == pc' = [pc EXCEPT ![c] = next]

\* OPEN, and the recovery timeout has not passed.
Cooling == state = "OPEN" /\ cool > 0

\* execute throws CircuitBreakerOpenException; the decorator calls the fallback.
Reject(c) ==
    /\ pc[c] \notin InFlight
    /\ Cooling
    /\ Goto(c, "fallback")
    /\ UNCHANGED <<state, failures, cool, thrown>>

\* Mutant of Pass: an open circuit stays open when a call is let through.
PassStaysOpen(c) ==
    /\ pc[c] \notin InFlight
    /\ ~Cooling
    /\ Goto(c, IF state = "CLOSED" THEN "running" ELSE "probing")
    /\ UNCHANGED <<state, failures, cool, thrown>>

\* fn is called; an open circuit becomes half open with that.
Pass(c) ==
    /\ pc[c] \notin InFlight
    /\ ~Cooling
    /\ state' = IF state = "OPEN" THEN "HALF_OPEN" ELSE state
    /\ Goto(c, IF state = "CLOSED" THEN "running" ELSE "probing")
    /\ UNCHANGED <<failures, cool, thrown>>

\* Mutant of Succeed: any success closes the circuit.
SucceedAlwaysCloses(c) ==
    /\ pc[c] \in InFlight
    /\ Goto(c, "ok")
    /\ state' = "CLOSED" /\ failures' = 0
    /\ UNCHANGED <<cool, thrown>>

\* fn returns: a half-open circuit is closed and its count reset.  The count of a
\* closed one is left as it is, though it is documented as that of consecutive
\* failures.
Succeed(c) ==
    /\ pc[c] \in InFlight
    /\ Goto(c, "ok")
    /\ \/ state = "HALF_OPEN" /\ state' = "CLOSED" /\ failures' = 0
       \/ state # "HALF_OPEN" /\ UNCHANGED <<state, failures>>
    /\ UNCHANGED <<cool, thrown>>

Throws(c, answer) ==
    /\ pc[c] \in InFlight
    /\ thrown < MaxThrown
    /\ thrown' = thrown + 1
    /\ Goto(c, answer)

\* An exception of one of exemptErrors is passed on.
Exempt(c) ==
    /\ Throws(c, "exempt")
    /\ UNCHANGED <<state, failures, cool>>

Opens == state' = "OPEN" /\ cool' = Recovery

\* Any other exception counts: it reopens a half-open circuit, and opens a closed
\* one at the threshold.
Fail(c) ==
    /\ Throws(c, "failed")
    /\ \/ state = "HALF_OPEN" /\ failures' = 1 /\ Opens
       \/ /\ state # "HALF_OPEN"
          /\ failures' = failures + 1
          /\ \/ state = "CLOSED" /\ failures' >= Threshold /\ Opens
             \/ ~(state = "CLOSED" /\ failures' >= Threshold) /\ UNCHANGED <<state, cool>>

\* Date.now() moves on.
Tick ==
    /\ cool > 0
    /\ cool' = cool - 1
    /\ UNCHANGED <<state, failures, pc, thrown>>

Begin(c) == Reject(c) \/ Pass(c)

Settle(c) == Succeed(c) \/ Exempt(c) \/ Fail(c)

Next == (\E c \in Call : Begin(c) \/ Settle(c)) \/ Tick

Spec == Init /\ [][Next]_vars

\* The clock runs, fn settles, and the method is called again and again.
FairSpec ==
    /\ Spec
    /\ WF_vars(Tick)
    /\ \A c \in Call : WF_vars(Pass(c)) /\ WF_vars(Settle(c))

-----------------------------------------------------------------------------
TypeOK ==
    /\ state \in {"CLOSED", "OPEN", "HALF_OPEN"}
    /\ failures \in Nat
    /\ cool \in 0..Recovery
    /\ pc \in [Call -> InFlight \cup Answers]
    /\ thrown \in 0..MaxThrown

\* "Give the downstream a rest" (class comment): until the recovery timeout has
\* passed the circuit stays open, whatever the calls let through earlier do, and
\* their late failures do not extend the time.
CooldownHolds ==
    [][Cooling => state' = "OPEN" /\ (cool' = cool \/ cool' = cool - 1)]_vars

\* Once fn no longer fails, the circuit is closed again and again, or remains so.
Recovers == []<>(state = "CLOSED")
=============================================================================
