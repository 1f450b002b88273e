-------------------------- MODULE MCCircuitBreaker --------------------------
(***************************************************************************)
(* Small instances of CircuitBreaker.                                      *)
(***************************************************************************)
EXTENDS CircuitBreaker, TLC

\* Request goroutines are interchangeable in every safety property.
RequestSymmetry == Permutations(Requests)
=============================================================================
