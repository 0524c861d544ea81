---------------------------- MODULE Idempotency ----------------------------
(***************************************************************************)
(* IdempotencyService.execute: a Redis key is claimed with SET NX, fn runs *)
(* and its result replaces the claim; a call that finds the key taken      *)
(* reads it, waits 50 ms, reads it again and, when there still is no       *)
(* result, runs fn itself.  One key is modelled; every await is a step.    *)
(* The result of an execution of fn is named by the call that ran it (in   *)
(* the code it holds a fresh UUID).  @Idempotent and createPayment of the  *)
(* billing service are calls of it.                                        *)
(***************************************************************************)
EXTENDS Naturals

CONSTANTS
    Caller,    \* calls of execute with the key
    MaxFaults  \* bound: failing Redis commands, crashed calls and expiries

ASSUME IdempotencyAssumption ==
    /\ {"none", "pending"} \cap Caller = {}
    /\ MaxFaults \in Nat

VARIABLES
    cell,    \* the Redis key: "none", "pending", or the call whose result it holds
    pc,      \* pc[c]: what c does or awaits, or how it ended
    data,    \* data[c]: the result c returned
    effects, \* calls whose fn was executed successfully
    late,    \* history: calls that began after another call had returned
    fellBack,\* history: calls that ran fn without a claim
    faults

vars == <<cell, pc, data, effects, late, fellBack, faults>>

-----------------------------------------------------------------------------
Claimed == {"running", "store", "clear"}     \* after SET NX was OK
Fallback == {"again", "storeAgain"}          \* in step 4
Active == {"get", "wait"} \cup Claimed \cup Fallback
Returned == {"fresh", "replayed"}
PCs == {"idle", "threw", "crashed"} \cup Active \cup Returned

Init ==
    /\ cell = "none"
    /\ pc = [c \in Caller |-> "idle"]
    /\ data = [c \in Caller |-> "none"]
    /\ effects = {}
    /\ late = {}
    /\ fellBack = {}
    /\ faults = 0

Goto(c, next) == pc' = [pc EXCEPT ![c] = next]

Returns(c, how, result) ==
    /\ Goto(c, how)
    /\ data' = [data EXCEPT ![c] = result]

Fault == faults < MaxFaults /\ faults' = faults + 1

Begins(c) ==
    /\ pc[c] = "idle"
    /\ late' = IF \E d \in Caller : pc[d] \in Returned THEN late \cup {c} ELSE late

-----------------------------------------------------------------------------
\* Mutant of Claim: SET without NX.
ClaimAlways(c) ==
    /\ Begins(c)
    /\ cell' = "pending"
    /\ Goto(c, "running")
    /\ UNCHANGED <<data, effects, fellBack, faults>>

\* 1. SET key 'pending' EX ttl NX.
Claim(c) ==
    /\ Begins(c)
    /\ \/ cell = "none" /\ cell' = "pending" /\ Goto(c, "running")
       \/ cell # "none" /\ UNCHANGED cell /\ Goto(c, "get")
    /\ UNCHANGED <<data, effects, fellBack, faults>>

\* The command rejects, whether or not Redis has executed it.
ClaimFails(c) ==
    /\ Begins(c)
    /\ Fault
    /\ Goto(c, "threw")
    /\ cell' \in {cell, IF cell = "none" THEN "pending" ELSE cell}
    /\ UNCHANGED <<data, effects, fellBack>>

\* The SET is executed, its reply is lost and the client sends it again: the call
\* finds the key taken by its own claim.
ClaimResent(c) ==
    /\ Begins(c)
    /\ cell = "none"
    /\ Fault
    /\ cell' = "pending"
    /\ Goto(c, "get")
    /\ UNCHANGED <<data, effects, fellBack>>

\* fn returns: its effect is there once and its result is to be stored.
FnReturns(c) ==
    /\ \/ pc[c] = "running" /\ Goto(c, "store")
       \/ pc[c] = "again" /\ Goto(c, "storeAgain")
    /\ effects' = effects \cup {c}
    /\ UNCHANGED <<cell, data, late, fellBack, faults>>

\* fn throws and has had no effect: the claimed execution deletes the key first, the fallback not.
FnFails(c) ==
    /\ \/ pc[c] = "running" /\ Goto(c, "clear")
       \/ pc[c] = "again" /\ Goto(c, "threw")
    /\ UNCHANGED <<cell, data, effects, late, fellBack, faults>>

\* Mutant of Store: the result is returned and not written.
StoreForgotten(c) ==
    /\ pc[c] \in {"store", "storeAgain"}
    /\ Returns(c, "fresh", c)
    /\ UNCHANGED <<cell, effects, late, fellBack, faults>>

\* SET key result EX ttl, and the result is returned.
Store(c) ==
    /\ pc[c] \in {"store", "storeAgain"}
    /\ cell' = c
    /\ Returns(c, "fresh", c)
    /\ UNCHANGED <<effects, late, fellBack, faults>>

\* Mutant of StoreFails: the failing write is not swallowed.
StoreFailsThrows(c) ==
    /\ pc[c] \in {"store", "storeAgain"}
    /\ Fault
    /\ Goto(c, "threw")
    /\ cell' \in {cell, c}
    /\ UNCHANGED <<data, effects, late, fellBack>>

\* The write, or only its reply, fails, which is swallowed: the result is returned all the same.
StoreFails(c) ==
    /\ pc[c] \in {"store", "storeAgain"}
    /\ Fault
    /\ Returns(c, "fresh", c)
    /\ cell' \in {cell, c}
    /\ UNCHANGED <<effects, late, fellBack>>

\* DEL key, whatever it holds by now, and the exception is rethrown.
Clear(c) ==
    /\ pc[c] = "clear"
    /\ cell' = "none"
    /\ Goto(c, "threw")
    /\ UNCHANGED <<data, effects, late, fellBack, faults>>

\* The DEL, or only its reply, fails, which is swallowed.
ClearFails(c) ==
    /\ pc[c] = "clear"
    /\ Fault
    /\ Goto(c, "threw")
    /\ cell' \in {cell, "none"}
    /\ UNCHANGED <<data, effects, late, fellBack>>

\* 2. GET key: a result is returned, otherwise c waits.
Get(c) ==
    /\ pc[c] = "get"
    /\ \/ cell \in Caller /\ Returns(c, "replayed", cell)
       \/ cell \notin Caller /\ Goto(c, "wait") /\ UNCHANGED data
    /\ UNCHANGED <<cell, effects, late, fellBack, faults>>

\* 3. After 50 ms the key is read again, and 4. fn is run without a claim.
GetAgain(c) ==
    /\ pc[c] = "wait"
    /\ \/ cell \in Caller /\ Returns(c, "replayed", cell) /\ UNCHANGED fellBack
       \/ /\ cell \notin Caller
          /\ Goto(c, "again")
          /\ fellBack' = fellBack \cup {c}
          /\ UNCHANGED data
    /\ UNCHANGED <<cell, effects, late, faults>>

\* A GET rejects, and execute with it.
GetFails(c) ==
    /\ pc[c] \in {"get", "wait"}
    /\ Fault
    /\ Goto(c, "threw")
    /\ UNCHANGED <<cell, data, effects, late, fellBack>>

\* The process of c dies.
Crash(c) ==
    /\ pc[c] \in Active
    /\ Fault
    /\ Goto(c, "crashed")
    /\ UNCHANGED <<cell, data, effects, late, fellBack>>

\* The ttl of the key passes.
Expire ==
    /\ cell # "none"
    /\ Fault
    /\ cell' = "none"
    /\ UNCHANGED <<pc, data, effects, late, fellBack>>

Rest == (\A c \in Caller : pc[c] \notin Active \cup {"idle"}) /\ UNCHANGED vars

Step(c) ==
    Claim(c) \/ FnReturns(c) \/ FnFails(c) \/ Store(c) \/ Clear(c) \/ Get(c) \/ GetAgain(c)

Faulty(c) ==
    \/ ClaimFails(c) \/ ClaimResent(c) \/ StoreFails(c)
    \/ ClearFails(c) \/ GetFails(c) \/ Crash(c)

Next == (\E c \in Caller : Step(c) \/ Faulty(c)) \/ Expire \/ Rest

Spec == Init /\ [][Next]_vars

-----------------------------------------------------------------------------
TypeOK ==
    /\ cell \in {"none", "pending"} \cup Caller
    /\ pc \in [Caller -> PCs]
    /\ data \in [Caller -> {"none"} \cup Caller]
    /\ effects \subseteq Caller
    /\ late \subseteq Caller
    /\ fellBack \subseteq Caller
    /\ faults \in 0..MaxFaults

\* What is returned, fresh or replayed, is the result of an execution of fn that
\* did take effect, through failures of fn and of Redis, crashes and expiry.
AnswersAreGenuine == \A c \in Caller : pc[c] \in Returned => data[c] \in effects

\* Without faults the placeholder does not outlive its execution: "when fn throws
\* the placeholder is removed, so that it may be retried" (class comment).
PendingHasOwner ==
    faults = 0 => (cell = "pending" => \E c \in Caller : pc[c] \in Claimed)

\* Redis has not failed, the key has not expired and no fn has thrown.
Calm == faults = 0 /\ \A c \in Caller : pc[c] \notin {"clear", "threw"}

\* Then a call that began after another one had returned does not execute fn
\* again, fast or slow: it is a replay (comments of IdempotencyModule and of
\* @Idempotent).
LaterCallsReplay == Calm => \A c \in late : c \notin effects

\* "fn is not executed again" (class comment): without faults a second effect can
\* only come from the fallback of step 4, even when fn throws and its DEL wipes
\* out what a fallback has stored meanwhile.
OneEffect == faults = 0 => \A c, d \in effects \ fellBack : c = d
=============================================================================
