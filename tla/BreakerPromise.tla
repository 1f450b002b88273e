--------------------------- MODULE BreakerPromise ---------------------------
(***************************************************************************)
(* What a circuit breaker promises its route, without requests in flight,  *)
(* failure windows or statistics: a tripped breaker stays open for more    *)
(* than ResetTimeout, it can only close again through a half-open trial    *)
(* that somebody's result settles, a trial admits a bounded number of      *)
(* requests, and only an operator's Reset cuts any of this short.          *)
(***************************************************************************)
EXTENDS Integers

CONSTANTS ResetTimeout, HalfOpenMaxReqs, AgeCap

VARIABLES
    state,        \* "Closed", "Open" or "HalfOpen"
    sinceChange,  \* ticks since the last change of state, up to AgeCap
    trial,        \* requests the present half-open trial has admitted
    resets        \* 0 or 1, flips with every Reset: nothing else may pass for one

vars == <<state, sinceChange, trial, resets>>

Init ==
    /\ state = "Closed"
    /\ sinceChange = 0
    /\ trial = 0
    /\ resets = 0

Enter(new, admitted) ==
    /\ state' = new
    /\ sinceChange' = 0
    /\ trial' = admitted

Trip ==
    /\ state = "Closed"
    /\ Enter("Open", 0)
    /\ UNCHANGED resets

StartTrial ==
    /\ state = "Open"
    /\ sinceChange > ResetTimeout
    /\ Enter("HalfOpen", 1)
    /\ UNCHANGED resets

\* The request that starts a trial comes on top of HalfOpenMaxReqs.
Admit ==
    /\ state = "HalfOpen"
    /\ trial < HalfOpenMaxReqs + 1
    /\ trial' = trial + 1
    /\ UNCHANGED <<state, sinceChange, resets>>

Settle ==
    /\ state = "HalfOpen"
    /\ Enter("Closed", 0) \/ Enter("Open", 0)
    /\ UNCHANGED resets

Reset ==
    /\ Enter("Closed", 0)
    /\ resets' = 1 - resets

Tick ==
    /\ sinceChange < AgeCap
    /\ sinceChange' = sinceChange + 1
    /\ UNCHANGED <<state, trial, resets>>

Next == Trip \/ StartTrial \/ Admit \/ Settle \/ Reset \/ Tick

Spec == Init /\ [][Next]_vars
=============================================================================
