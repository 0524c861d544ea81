-------------------------- MODULE MCOrderCreation --------------------------
(* Instances of OrderCreation: calls that all carry the same key. *)
EXTENDS OrderCreation, TLC

CONSTANTS c1, c2, c3, c4

MCCaller == {c1, c2, c3, c4}

\* The calls are interchangeable.
CallerSymmetry == Permutations(MCCaller)
=============================================================================
