------------------------------ MODULE Billing ------------------------------
(***************************************************************************)
(* The billing service and the payments of one order: createPayment is     *)
(* @Retryable, each attempt an execution of the idempotency service on the *)
(* key of the order, whose fn puts a payment into a Map in memory;         *)
(* confirm and refund look payments up there.  A restart of the process    *)
(* empties the Map, while the key in Redis stays.  Extends Idempotency,    *)
(* whose callers are the attempts; a payment is named by the attempt that  *)
(* made it.                                                                *)
(***************************************************************************)
EXTENDS Idempotency, Sequences, FiniteSets

CONSTANTS
    Call,        \* PAYMENT_CREATE requests for the order
    Attempts,    \* Attempts[c]: the attempts of c, in the order of @Retryable
    MaxRestarts  \* bound: restarts of the process

ASSUME BillingAssumption ==
    /\ Attempts \in [Call -> Seq(Caller) \ {<<>>}]
    /\ \A c, d \in Call : \A i \in DOMAIN Attempts[c], j \in DOMAIN Attempts[d] :
          Attempts[c][i] = Attempts[d][j] => c = d /\ i = j
    /\ MaxRestarts \in Nat

VARIABLES
    attempt,   \* attempt[c]: the number of the attempt c makes
    cut,       \* calls whose backoff was cut short by a restart
    payment,   \* payment[a]: the status of a's payment in the Map, or "none"
    charged,   \* history: payments that were confirmed
    forgotten, \* history: payments made before the last restart
    down,      \* the process is going down
    restarts

paymentVars == <<attempt, cut, payment, charged, forgotten, down, restarts>>
billingVars == <<vars, paymentVars>>

-----------------------------------------------------------------------------
Current(c) == Attempts[c][attempt[c]]
First(c) == Attempts[c][1]

BillingInit ==
    /\ Init
    /\ attempt = [c \in Call |-> 1]
    /\ payment = [a \in Caller |-> "none"]
    /\ cut = {} /\ charged = {} /\ forgotten = {}
    /\ down = FALSE
    /\ restarts = 0

Exhausted(c) == attempt[c] = Len(Attempts[c])

Answered(c) == pc[Current(c)] \in {"fresh", "replayed"}
Failed(c) == pc[Current(c)] = "threw" /\ Exhausted(c)
BacksOff(c) == pc[Current(c)] = "threw" /\ ~Exhausted(c) /\ c \notin cut
Ended(c) == Answered(c) \/ Failed(c) \/ pc[Current(c)] = "crashed" \/ c \in cut

\* An attempt goes through the idempotency service.
Attempt(c) ==
    LET a == Current(c) IN
    /\ ~down
    /\ \/ Claim(a) \/ Get(a) \/ GetAgain(a) \/ Store(a)
       \/ ClaimFails(a) \/ ClaimResent(a) \/ GetFails(a) \/ StoreFails(a)
    /\ UNCHANGED paymentVars

\* Mutant of DoCreatePayment: the payment is not put into the Map.
DoCreatePaymentUnstored(c) ==
    /\ ~down
    /\ FnReturns(Current(c))
    /\ UNCHANGED paymentVars

\* fn puts a new payment into the Map; it cannot throw.
DoCreatePayment(c) ==
    /\ ~down
    /\ FnReturns(Current(c))
    /\ payment' = [payment EXCEPT ![Current(c)] = "CREATED"]
    /\ UNCHANGED <<attempt, cut, charged, forgotten, down, restarts>>

\* Mutant of Retry: the backoff does not end.
RetryStuck(c) == ~down /\ BacksOff(c) /\ UNCHANGED billingVars

\* After the backoff the next attempt may begin.
Retry(c) ==
    /\ ~down
    /\ BacksOff(c)
    /\ attempt' = [attempt EXCEPT ![c] = @ + 1]
    /\ UNCHANGED <<vars, cut, payment, charged, forgotten, down, restarts>>

-----------------------------------------------------------------------------
\* What c was answered; confirm and refund throw when the Map does not have it.
Id(c) == data[Current(c)]
Known(c) == ~down /\ Answered(c) /\ payment[Id(c)] # "none"

\* confirmPayment charges, whether it then returns or (simulateFailure) throws.
Confirm(c) ==
    /\ Known(c)
    /\ payment' = [payment EXCEPT ![Id(c)] = "SUCCEEDED"]
    /\ charged' = charged \cup {Id(c)}
    /\ UNCHANGED <<vars, attempt, cut, forgotten, down, restarts>>

Refund(c) ==
    /\ Known(c) /\ payment[Id(c)] = "SUCCEEDED"
    /\ payment' = [payment EXCEPT ![Id(c)] = "REFUNDED"]
    /\ UNCHANGED <<vars, attempt, cut, charged, forgotten, down, restarts>>

-----------------------------------------------------------------------------
Busy == {c \in Call : pc[Current(c)] \in Active}

\* The process dies: the Map is gone and nothing moves until its attempts are.
GoDown ==
    /\ ~down
    /\ restarts < MaxRestarts /\ faults + Cardinality(Busy) <= MaxFaults
    /\ down' = TRUE
    /\ restarts' = restarts + 1
    /\ payment' = [a \in Caller |-> "none"]
    /\ forgotten' = effects
    /\ cut' = cut \cup {c \in Call : BacksOff(c)}
    /\ UNCHANGED <<vars, attempt, charged>>

Die(c) == down /\ Crash(Current(c)) /\ UNCHANGED paymentVars

GoUp ==
    /\ down /\ Busy = {}
    /\ down' = FALSE
    /\ UNCHANGED <<vars, attempt, cut, payment, charged, forgotten, restarts>>

\* The key may expire, while the process is down as well, within the bound.
ExpireKey ==
    /\ down => faults + Cardinality(Busy) < MaxFaults
    /\ Expire
    /\ UNCHANGED paymentVars

BillingRest == ~down /\ (\A c \in Call : Ended(c)) /\ UNCHANGED billingVars

Creates(c) == Attempt(c) \/ DoCreatePayment(c) \/ Retry(c) \/ Die(c)

BillingNext ==
    \/ \E c \in Call : Creates(c) \/ Confirm(c) \/ Refund(c)
    \/ GoDown \/ GoUp \/ ExpireKey \/ BillingRest

BillingSpec == BillingInit /\ [][BillingNext]_billingVars

\* Redis answers, the backoff ends, a process that goes down is gone and starts again.
FairBillingSpec ==
    /\ BillingSpec
    /\ \A c \in Call : WF_billingVars(pc[First(c)] # "idle" /\ Creates(c))
    /\ WF_billingVars(GoUp)

-----------------------------------------------------------------------------
\* "Idempotency guarantees that retries make no second payment" (createPayment): at
\* most one attempt of a call takes effect, even where a retry meets the pending key
\* its own predecessor left behind.
RetriesCreateOnce ==
    \A c \in Call : \A i, j \in DOMAIN Attempts[c] :
        Attempts[c][i] \in effects /\ Attempts[c][j] \in effects => i = j

\* A payment that a caller was told of can be confirmed and refunded, unless a restart
\* has emptied the Map since it was made.
AnswerIsKnown ==
    \A c \in Call : Answered(c) /\ Id(c) \notin forgotten => payment[Id(c)] # "none"

\* "One order is charged once" (class comment of IdempotencyService), as far as it
\* goes: without faults all payments that are ever confirmed are one, but for those
\* of the fallback.
ChargedOnce == faults = 0 => \A a, b \in charged \ fellBack : a = b

\* A call that has begun ends: answered, failed, or lost with its process.
CallsEnd == \A c \in Call : pc[First(c)] # "idle" ~> Ended(c)
=============================================================================
