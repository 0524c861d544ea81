--------------------------- MODULE MCOrderStore ---------------------------
(* Small instances of OrderStore: the deliveries that can meet on an order. *)
EXTENDS OrderStore

CONSTANTS o1, cancel1, paid1, paid2, timeout1

\* Four deliveries that all meet on one order.
MCTask == {cancel1, paid1, paid2, timeout1}

KindOf(t) ==
    CASE t = cancel1 -> "cancel"
      [] t \in {paid1, paid2} -> "paid"
      [] OTHER -> "timeout"

MCKind == [t \in MCTask |-> KindOf(t)]
MCTarget == [t \in MCTask |-> o1]
=============================================================================
