--------------------------- MODULE MCRoundRobin ---------------------------
(***************************************************************************)
(* A small instance of RoundRobin: three targets with distinct URLs.       *)
(***************************************************************************)
EXTENDS RoundRobin

DistinctUrls == <<"a", "b", "c">>
=============================================================================
