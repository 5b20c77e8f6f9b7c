-------------------------- MODULE MCCircuitBreaker --------------------------
(* The gateway's options (3 failures, 60 s, 30 s) with 30 s as the unit. *)
EXTENDS CircuitBreaker, TLC

CallerSymmetry == Permutations(Callers)
=============================================================================
