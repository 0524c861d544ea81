------------------------------ MODULE MCOutbox ------------------------------
(* Instances of Outbox: two messages and two overlapping drains. *)
EXTENDS Outbox

CONSTANTS m1, m2, d1, d2
=============================================================================
