----------------------------- MODULE MCThrottle -----------------------------
(* Throttle with two interchangeable connections.                          *)
EXTENDS Throttle, TLC

Symmetry == Permutations(Connections)
=============================================================================
