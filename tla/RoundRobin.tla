---------------------------- MODULE RoundRobin ----------------------------
(***************************************************************************)
(* The round-robin balancer of internal/balancer/roundrobin.go, called by  *)
(* the requests while the route's health checker changes its flags.  Next  *)
(* holds the read lock and takes its index with one atomic addition: calls *)
(* that overlap get different indices, and no flag changes under them, so  *)
(* a call is one action.                                                   *)
(***************************************************************************)
EXTENDS HealthChecker

CONSTANT CounterMod     \* the counter's range, 2^64 in the code

ASSUME CounterAssumption == CounterMod \in Nat /\ CounterMod >= N

VARIABLES
    counter,
    picked,     \* what the last call returned: a target or NoTarget
    waited      \* history: the calls since each target was returned, or down

vars == <<hcVars, counter, picked, waited>>

NoTarget == 0   \* ErrNoHealthyTargets

Init ==
    /\ HCInit
    /\ counter = 0
    /\ picked = NoTarget
    /\ waited = [i \in Targets |-> 0]

\* Slip: the scan restarts at the first target.
PositionFromZero(idx, i) == i + 1

\* The i-th position a call with index idx tries; the sum wraps around.
Position(idx, i) == 1 + (((idx + i) % CounterMod) % N)

\* Slip: the scan stops one target short.
ScanShort(idx) == {i \in 0 .. N - 2 : healthy[Position(idx, i)]}

\* The offsets at which a call with index idx finds a healthy target.
Scan(idx) == {i \in 0 .. N - 1 : healthy[Position(idx, i)]}

NextTarget ==
    /\ counter' = (counter + 1) % CounterMod
    /\ picked' = IF Scan(counter) = {} THEN NoTarget
                 ELSE Position(counter,
                               CHOOSE i \in Scan(counter) :
                                   \A j \in Scan(counter) : i <= j)
    /\ waited' = [i \in Targets |->
                    IF healthy[i] /\ i # picked' THEN waited[i] + 1 ELSE 0]
    /\ UNCHANGED hcVars

CheckHealth ==
    /\ HCNext
    /\ waited' = [i \in Targets |-> IF healthy'[i] THEN waited[i] ELSE 0]
    /\ UNCHANGED <<counter, picked>>

Next == NextTarget \/ CheckHealth

Spec == Init /\ [][Next]_vars

\* The health checker runs, whether or not anybody calls Next.
FairSpec == Spec /\ HCFairness

-----------------------------------------------------------------------------
TypeOK ==
    /\ HCTypeOK
    /\ counter \in 0 .. CounterMod - 1
    /\ picked \in Targets \cup {NoTarget}
    /\ waited \in [Targets -> Nat]

\* "Balancer selects the next healthy upstream target": a call never returns a
\* target whose URL the health checker reports as down, and returns
\* ErrNoHealthyTargets only if every URL is down.
SelectsHealthy ==
    [][NextTarget => IF \E i \in Targets : up[UrlOf[i]]
                       THEN picked' # NoTarget /\ up[UrlOf[picked']]
                       ELSE picked' = NoTarget]_vars

\* No target is starved: one that stays healthy is returned at least once in any
\* N calls, however the others go down and come back between them, so that with
\* all of them healthy N calls return each exactly once.
NoTargetPassedOver == \A i \in Targets : waited[i] < N
=============================================================================
