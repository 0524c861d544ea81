-------------------------- MODULE MCOrderListCache --------------------------
(* One order, a payment event for it and its auto-cancel job; two callers *)
(* of the same page.                                                       *)
EXTENDS OrderListCache, TLC

CONSTANTS o1, p1, j1, r1, r2, q1

MCTask == {p1, j1}
MCKind == [t \in MCTask |-> IF t = p1 THEN "paid" ELSE "timeout"]
MCTarget == [t \in MCTask |-> o1]
MCQueryOf == [r \in {r1, r2} |-> q1]
MCSymmetry == Permutations({r1, r2})
=============================================================================
