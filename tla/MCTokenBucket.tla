--------------------------- MODULE MCTokenBucket ---------------------------
(***************************************************************************)
(* Small instances of TokenBucket.                                         *)
(***************************************************************************)
EXTENDS TokenBucket, TLC

\* Callers are interchangeable.
CallerSymmetry == Permutations(Callers)
=============================================================================
