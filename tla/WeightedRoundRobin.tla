------------------------ MODULE WeightedRoundRobin ------------------------
(***************************************************************************)
(* The smooth weighted round-robin balancer of                             *)
(* internal/balancer/weighted.go, called by the requests while the route's *)
(* health checker changes its flags.  Next and SetHealthy hold the same    *)
(* mutex, so each is one step; SetHealthy also forgets the current weight  *)
(* of a target that goes down.                                             *)
(***************************************************************************)
EXTENDS HealthChecker, FiniteSetsExt

CONSTANT Weight     \* the configured weight of each target

ASSUME WeightAssumption == Weight \in [Targets -> Nat \ {0}]

VARIABLES
    currentWeights,
    picked,     \* what the last call returned: a target or NoTarget
    settled,    \* history: no target has gone down yet
    share       \* history: while settled, the calls each target got, counted
                \* anew when they add up to the total weight

history == <<settled, share>>
vars == <<hcVars, currentWeights, picked, history>>

NoTarget == 0   \* ErrNoHealthyTargets

\* Slip: a target that is down still counts.
AvailableAll == Targets

Available == {i \in Targets : healthy[i]}

WeightOf(S) == MapThenSumSet(LAMBDA i : Weight[i], S)

\* Slip: the weight of all targets, available or not, is taken off.
TotalOfAll == WeightOf(Targets)

TotalWeight == WeightOf(Available)

Calls == MapThenSumSet(LAMBDA i : share[i], Targets)
NoCalls == [i \in Targets |-> 0]
Served(i) ==
    [(IF Calls = WeightOf(Targets) THEN NoCalls ELSE share) EXCEPT ![i] = @ + 1]

Init ==
    /\ HCInit
    /\ currentWeights = [i \in Targets |-> 0]
    /\ picked = NoTarget
    /\ settled = TRUE
    /\ share = NoCalls

Raised == [i \in Targets |-> IF i \in Available
                               THEN currentWeights[i] + Weight[i]
                               ELSE currentWeights[i]]

\* Slip: the heaviest target wins, whatever it was given before.
BestByWeight ==
    CHOOSE i \in Available :
        \A j \in Available : Weight[j] < Weight[i] \/ (Weight[j] = Weight[i] /\ i <= j)

\* The first of the available targets with the highest raised weight.
Best ==
    CHOOSE i \in Available :
        \A j \in Available : Raised[j] < Raised[i] \/ (Raised[j] = Raised[i] /\ i <= j)

NextTarget ==
    /\ IF Available = {}
         THEN picked' = NoTarget /\ UNCHANGED <<currentWeights, share>>
         ELSE /\ picked' = Best
              /\ currentWeights' = [Raised EXCEPT ![Best] = @ - TotalWeight]
              /\ share' = IF settled THEN Served(Best) ELSE share
    /\ UNCHANGED <<hcVars, settled>>

\* SetHealthy(url, false) zeroes the weight of the target it changes.
WeightsOfUp ==
    [i \in Targets |-> IF healthy[i] /\ ~healthy'[i] THEN 0 ELSE currentWeights[i]]

CheckHealth ==
    /\ HCNext
    /\ currentWeights' = WeightsOfUp
    /\ settled' = (settled /\ healthy' = healthy)
    /\ share' = IF settled' THEN share ELSE NoCalls
    /\ UNCHANGED picked

Next == NextTarget \/ CheckHealth

Spec == Init /\ [][Next]_vars

-----------------------------------------------------------------------------
TypeOK ==
    /\ HCTypeOK
    /\ currentWeights \in [Targets -> Int]
    /\ picked \in Targets \cup {NoTarget}
    /\ settled \in BOOLEAN
    /\ share \in [Targets -> Nat]

\* A call never returns a target whose URL the health checker reports as down,
\* and returns ErrNoHealthyTargets only if every URL is down.
SelectsHealthy ==
    [][NextTarget => IF \E i \in Targets : up[UrlOf[i]]
                       THEN picked' # NoTarget /\ up[UrlOf[picked']]
                       ELSE picked' = NoTarget]_vars

\* "Distributes requests evenly across backends proportional to weights", with
\* "no request clustering": as long as no target has gone down, a target is
\* never a whole call ahead of its exact share, nor more than half a call
\* behind it for each of the others, and has exactly its weight in calls when
\* the cycle ends.
Smooth ==
    settled => \A i \in Targets :
                   LET ahead == share[i] * WeightOf(Targets) - Calls * Weight[i]
                   IN  /\ ahead < WeightOf(Targets)
                       /\ -((N - 1) * WeightOf(Targets)) <= 2 * ahead
                       /\ Calls = WeightOf(Targets) => share[i] = Weight[i]

\* Targets that go down and come back, in any order and between any two calls,
\* do not make the current weights drift: what a target is owed or owes, and
\* so how long it is favoured or passed over, stays bounded.
DriftBounded ==
    LET bound == N * WeightOf(Targets)
    IN  \A i \in Targets : currentWeights[i] \in -bound .. bound
=============================================================================
