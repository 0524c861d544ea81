--------------------------- MODULE MCPaymentSaga ---------------------------
(* Instances of PaymentSaga: who pays which order.  All runs are runs of one *)
(* api-gateway process, as the repository's README starts it.                *)
EXTENDS PaymentSaga

CONSTANTS s1, s2, o1, o2, g1

MCSagas == {s1, s2}
MCGateway == [s \in MCSagas |-> g1]

\* Two runs for the same order.
MCSameOrder == [s \in MCSagas |-> o1]

\* The second run pays an order of its own, which has no items.
MCOwnOrder == [s \in MCSagas |-> IF s = s1 THEN o1 ELSE o2]
=============================================================================
