-------------------------- MODULE MCCircuitBreaker --------------------------
(* An instance of CircuitBreaker with callers that overlap. *)
EXTENDS CircuitBreaker

CONSTANTS c1, c2, c3

MCCall == {c1, c2, c3}
=============================================================================
