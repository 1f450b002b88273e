----------------------- MODULE MCWeightedRoundRobin -----------------------
(***************************************************************************)
(* Small instances of WeightedRoundRobin: three targets with distinct URLs *)
(* and uneven weights.                                                     *)
(***************************************************************************)
EXTENDS WeightedRoundRobin, Sequences

DistinctUrls == <<"a", "b", "c">>
Weights == <<3, 1, 2>>
=============================================================================
