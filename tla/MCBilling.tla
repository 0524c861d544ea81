----------------------------- MODULE MCBilling -----------------------------
(* An instance of Billing: two calls of three attempts (maxAttempts: 3). *)
EXTENDS Billing

CONSTANTS c1, c2, a1, a2, a3, b1, b2, b3

MCAttempts == [c \in {c1, c2} |-> IF c = c1 THEN <<a1, a2, a3>> ELSE <<b1, b2, b3>>]
=============================================================================
