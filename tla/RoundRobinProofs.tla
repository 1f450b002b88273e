-------------------------- MODULE RoundRobinProofs --------------------------
(***************************************************************************)
(* For any number of targets, the round-robin balancer never returns one   *)
(* that is down; and as long as no scan straddles the end of the counter's *)
(* range, it errs only when all are down and passes no healthy target over *)
(* in N calls.                                                             *)
(***************************************************************************)
EXTENDS RoundRobin, HealthCheckerProofs, ArithmeticLemmas

\* The call made now tries every target once.  2^64 is no multiple of most
\* numbers of targets: the scan that straddles the counter's wrap tries one
\* target twice, and misses another.
Seamless == CounterMod % N = 0 \/ counter + N <= CounterMod

\* A target that has waited for some calls had its turn no later, and so will
\* have it again before it has waited for N.
WaitsForTurn ==
    \A t \in Targets : \E d \in 0 .. N - 1 :
        waited[t] <= d /\ (t + d) % N = counter % N

-----------------------------------------------------------------------------
\* The balancer changes none of the checker's variables on its own.
LEMMA CheckerRuns == Spec => HCSpec
  <1>1. Init => HCInit
    BY DEF Init
  <1>2. [Next]_vars => [HCNext]_hcVars
    BY DEF Next, NextTarget, CheckHealth, vars
  <1> QED
    BY <1>1, <1>2, PTL DEF Spec, HCSpec

\* Every position tried is one of a target.
LEMMA PositionType ==
    ASSUME NEW idx \in Nat, NEW i \in Nat
    PROVE  Position(idx, i) \in Targets
  <1> USE TargetsAssumption, CounterAssumption
  <1>1. PICK a \in Nat : a = (idx + i) % CounterMod
    BY ModFacts
  <1>2. a % N \in 0 .. N - 1
    BY ModFacts
  <1> QED
    BY <1>1, <1>2 DEF Position, Targets

\* A call returns the healthy target it meets first, if it meets any.
LEMMA PicksFirst ==
    ASSUME counter \in Nat, NextTarget, Scan(counter) # {}
    PROVE  \E i \in Scan(counter) :
              /\ \A j \in Scan(counter) : i <= j
              /\ picked' = Position(counter, i)
  <1>1. Scan(counter) \subseteq Nat
    BY TargetsAssumption DEF Scan
  <1>2. \E i \in Scan(counter) : \A j \in Scan(counter) : i <= j
    BY <1>1, LeastNatural
  <1> DEFINE first == CHOOSE i \in Scan(counter) :
                          \A j \in Scan(counter) : i <= j
  <1>3. first \in Scan(counter) /\ \A j \in Scan(counter) : first <= j
    BY <1>2
  <1>4. picked' = Position(counter, first)
    BY DEF NextTarget
  <1> QED
    BY <1>3, <1>4

\* What a call returns is a target, if not the error.
LEMMA PickedType ==
    ASSUME counter \in Nat, NextTarget
    PROVE  picked' \in Targets \cup {NoTarget}
  <1>1. CASE Scan(counter) = {}
    BY <1>1 DEF NextTarget
  <1>2. CASE Scan(counter) # {}
    <2>1. PICK i \in Scan(counter) : picked' = Position(counter, i)
      BY <1>2, PicksFirst
    <2>2. i \in Nat
      BY TargetsAssumption DEF Scan
    <2> QED
      BY <2>1, <2>2, PositionType
  <1> QED
    BY <1>1, <1>2

\* Every step keeps the balancer's state in its types.
LEMMA TypeStep == TypeOK /\ [Next]_vars => TypeOK'
  <1> SUFFICES ASSUME TypeOK, [Next]_vars
               PROVE  TypeOK'
    OBVIOUS
  <1> USE TargetsAssumption, CounterAssumption
  <1>1. HCTypeOK'
    <2>1. [HCNext]_hcVars
      BY DEF Next, NextTarget, CheckHealth, vars
    <2> QED
      BY <2>1, HCTypeStep DEF TypeOK
  <1>2. CASE NextTarget
    <2>1. counter' \in 0 .. CounterMod - 1
      BY <1>2, ModFacts DEF TypeOK, NextTarget
    <2>2. picked' \in Targets \cup {NoTarget}
      BY <1>2, PickedType DEF TypeOK
    <2>3. waited' \in [Targets -> Nat]
      BY <1>2 DEF TypeOK, NextTarget
    <2> QED
      BY <1>1, <2>1, <2>2, <2>3 DEF TypeOK
  <1>3. CASE CheckHealth
    <2>1. waited' \in [Targets -> Nat]
      BY <1>3 DEF TypeOK, CheckHealth
    <2> QED
      BY <1>1, <1>3, <2>1 DEF TypeOK, CheckHealth
  <1>4. CASE UNCHANGED vars
    BY <1>1, <1>4 DEF TypeOK, vars
  <1> QED
    BY <1>2, <1>3, <1>4 DEF Next

\* While the counter does not wrap within a scan, the i-th position tried is
\* the one i places on.
LEMMA SeamlessPosition ==
    ASSUME TypeOK, Seamless, NEW i \in 0 .. N - 1
    PROVE  Position(counter, i) = 1 + ((counter + i) % N)
  <1>0. N \in Nat \ {0} /\ CounterMod \in Nat \ {0}
    BY TargetsAssumption, CounterAssumption
  <1>1. PICK a \in Nat : a = counter + i
    BY <1>0 DEF TypeOK
  <1>2. CASE CounterMod % N = 0
    <2>1. (a % CounterMod) % N = a % N
      BY <1>0, <1>2, ModOfMultiple
    <2> QED
      BY <1>1, <2>1 DEF Position
  <1>3. CASE counter + N <= CounterMod
    <2>1. a < CounterMod
      BY <1>0, <1>1, <1>3 DEF TypeOK
    <2>2. a % CounterMod = a
      BY <1>0, <2>1
    <2> QED
      BY <1>1, <2>2 DEF Position
  <1> QED
    BY <1>2, <1>3 DEF Seamless

\* Such a scan tries every target.
LEMMA ScanReaches ==
    ASSUME TypeOK, Seamless, NEW t \in Targets
    PROVE  \E i \in 0 .. N - 1 : Position(counter, i) = t
  <1>1. N \in Nat \ {0} /\ counter \in Nat
    BY TargetsAssumption DEF TypeOK
  <1>2. PICK place \in 0 .. N - 1 : t = 1 + place
    BY <1>1 DEF Targets
  <1>3. PICK i \in 0 .. N - 1 : (counter + i) % N = place
    BY <1>1, ModReaches
  <1>4. Position(counter, i) = 1 + place
    BY <1>3, SeamlessPosition
  <1> QED
    BY <1>2, <1>4

\* A call returns a healthy target or none.
LEMMA PicksHealthy ==
    ASSUME TypeOK, NextTarget
    PROVE  /\ picked' # NoTarget => picked' \in Targets /\ healthy[picked']
           /\ Scan(counter) # {} => picked' # NoTarget
  <1>1. counter \in Nat
    BY CounterAssumption, TargetsAssumption DEF TypeOK
  <1>2. CASE Scan(counter) = {}
    BY <1>2 DEF NextTarget
  <1>3. CASE Scan(counter) # {}
    <2>1. PICK i \in Scan(counter) : picked' = Position(counter, i)
      BY <1>1, <1>3, PicksFirst
    <2>2. i \in Nat /\ healthy[Position(counter, i)]
      BY TargetsAssumption DEF Scan
    <2>3. Position(counter, i) \in Targets
      BY <1>1, <2>2, PositionType
    <2> QED
      BY <2>1, <2>2, <2>3, TargetsAssumption DEF Targets, NoTarget
  <1> QED
    BY <1>2, <1>3

\* Whatever the counter is, a call returns no target that is down.
LEMMA NeverDownStep ==
    TypeOK /\ FlagsFollowStatus /\ [Next]_vars
        => [NextTarget /\ picked' # NoTarget => up[UrlOf[picked']]]_vars
  BY PicksHealthy DEF FlagsFollowStatus

\* A call with a seamless scan returns a target that is up, if there is one.
LEMMA SelectStep ==
    TypeOK /\ FlagsFollowStatus /\ Seamless /\ [Next]_vars
        => [NextTarget => IF \E i \in Targets : up[UrlOf[i]]
                            THEN picked' # NoTarget /\ up[UrlOf[picked']]
                            ELSE picked' = NoTarget]_vars
  <1> SUFFICES ASSUME TypeOK, FlagsFollowStatus, Seamless, NextTarget
               PROVE  IF \E i \in Targets : up[UrlOf[i]]
                        THEN picked' # NoTarget /\ up[UrlOf[picked']]
                        ELSE picked' = NoTarget
    OBVIOUS
  <1>1. ASSUME NEW t \in Targets, up[UrlOf[t]]
        PROVE  picked' # NoTarget
    <2>1. healthy[t]
      BY <1>1 DEF FlagsFollowStatus
    <2>2. PICK i \in 0 .. N - 1 : Position(counter, i) = t
      BY ScanReaches
    <2>3. i \in Scan(counter)
      BY <2>1, <2>2 DEF Scan
    <2> QED
      BY <2>3, PicksHealthy
  <1>2. picked' # NoTarget => picked' \in Targets /\ up[UrlOf[picked']]
    BY PicksHealthy DEF FlagsFollowStatus
  <1> QED
    BY <1>1, <1>2

\* The target whose turn it is answers the call, if it is healthy.
LEMMA TurnAnswers ==
    ASSUME TypeOK, NextTarget, Seamless, healthy[1 + (counter % N)]
    PROVE  picked' = 1 + (counter % N)
  <1> USE TargetsAssumption
  <1>1. counter \in Nat /\ 0 \in 0 .. N - 1
    BY DEF TypeOK
  <1>2. Position(counter, 0) = 1 + (counter % N)
    BY <1>1, SeamlessPosition
  <1>3. 0 \in Scan(counter)
    BY <1>1, <1>2 DEF Scan
  <1>4. PICK i \in Scan(counter) :
            (\A j \in Scan(counter) : i <= j) /\ picked' = Position(counter, i)
    BY <1>1, <1>3, PicksFirst
  <1>5. i = 0
    BY <1>3, <1>4 DEF Scan
  <1> QED
    BY <1>2, <1>4, <1>5

\* A call moves the turns on by one, also over the counter's wrap.
LEMMA CounterTurns ==
    ASSUME TypeOK, NextTarget, Seamless, NEW b \in Nat
    PROVE  (counter' + b) % N = (counter + 1 + b) % N
  <1>0. N \in Nat \ {0} /\ CounterMod \in Nat \ {0} /\ counter \in Nat
    BY TargetsAssumption, CounterAssumption DEF TypeOK
  <1>1. PICK a \in Nat : a = counter + 1
    BY <1>0
  <1>2. counter' = a % CounterMod /\ counter' \in Nat
    BY <1>0, <1>1, ModFacts DEF NextTarget
  <1>3. counter' % N = a % N
    <2>1. CASE CounterMod % N = 0
      BY <1>0, <1>2, <2>1, ModOfMultiple
    <2>2. CASE counter + N <= CounterMod /\ N # 1
      <3>1. a < CounterMod
        BY <1>0, <1>1, <2>2
      <3> QED
        BY <1>0, <1>2, <3>1
    <2>3. CASE N = 1
      BY <1>0, <1>2, <2>3, ModFacts
    <2> QED
      BY <2>1, <2>2, <2>3 DEF Seamless
  <1>4. ((counter' % N) + b) % N = (counter' + b) % N
    BY <1>0, <1>2, ModAdd
  <1>5. ((a % N) + b) % N = (a + b) % N
    BY <1>0, ModAdd
  <1> QED
    BY <1>1, <1>3, <1>4, <1>5

\* A call brings every target nearer to its turn, or was its turn.
LEMMA TurnsStep ==
    ASSUME TypeOK, Seamless, WaitsForTurn, NextTarget
    PROVE  WaitsForTurn'
  <1>0. N \in Nat \ {0} /\ counter \in Nat /\ counter' \in Nat
    BY TargetsAssumption, CounterAssumption, ModFacts DEF TypeOK, NextTarget
  <1>1. SUFFICES ASSUME NEW t \in Targets
                 PROVE  \E d \in 0 .. N - 1 :
                            waited'[t] <= d /\ (t + d) % N = counter' % N
    BY DEF WaitsForTurn
  <1>2. t \in 1 .. N /\ waited[t] \in Nat
    BY <1>0 DEF Targets, TypeOK
  <1>3. counter' % N = (counter + 1) % N
    <2>1. (counter' + 0) % N = (counter + 1 + 0) % N
      BY CounterTurns
    <2> QED
      BY <1>0, <2>1
  <1>4. waited'[t] = IF healthy[t] /\ t # picked' THEN waited[t] + 1 ELSE 0
    BY DEF NextTarget
  <1>5. CASE t = 1 + (counter % N)
    <2>1. waited'[t] = 0
      BY <1>4, <1>5, TurnAnswers
    <2>2. PICK turn \in 0 .. N - 1 : turn = counter' % N
      BY <1>0, ModFacts
    <2>3. t \in Nat
      BY <1>2
    <2>4. PICK d \in 0 .. N - 1 : (t + d) % N = turn
      BY <1>0, <2>3, ModReaches
    <2> QED
      BY <1>0, <2>1, <2>2, <2>4
  <1>6. CASE t # 1 + (counter % N)
    <2>1. PICK d \in 0 .. N - 1 : waited[t] <= d /\ (t + d) % N = counter % N
      BY DEF WaitsForTurn
    <2>2. d # N - 1
      <3>1. SUFFICES ASSUME d = N - 1 PROVE FALSE
        OBVIOUS
      <3>2. PICK a \in Nat : a = t - 1
        BY <1>2
      <3>3. t + d = a + N
        BY <1>0, <1>2, <3>1, <3>2
      <3>4. (a + N) % N = a % N
        BY <1>0, AddedModulus
      <3>5. a % N = a
        BY <1>0, <1>2, <3>2
      <3> QED
        BY <1>2, <1>6, <2>1, <3>2, <3>3, <3>4, <3>5
    <2>3. PICK b \in Nat : b = t + d /\ b % N = counter % N
      BY <1>2, <2>1
    <2>4. (b + 1) % N = (counter + 1) % N
      <3>1. \A a \in Nat : ((a % N) + 1) % N = (a + 1) % N
        <4>1. 1 \in Nat /\ N \in Nat \ {0}
          BY TargetsAssumption
        <4> QED
          BY <4>1, ModAdd, Zenon
      <3> QED
        BY <1>0, <2>3, <3>1
    <2>5. t + (d + 1) = b + 1 /\ d + 1 \in 0 .. N - 1
      BY <1>0, <1>2, <2>2, <2>3
    <2>6. waited'[t] <= d + 1
      BY <1>2, <1>4, <2>1
    <2> QED
      BY <1>3, <2>4, <2>5, <2>6
  <1> QED
    BY <1>5, <1>6

\* A check of a target's health makes nobody wait longer.
LEMMA TurnsCheck ==
    ASSUME TypeOK, WaitsForTurn, CheckHealth
    PROVE  WaitsForTurn'
  <1>1. counter' = counter
    BY DEF CheckHealth
  <1>2. \A t \in Targets : waited[t] \in Nat /\ waited'[t] \in {waited[t], 0}
    BY DEF CheckHealth, TypeOK
  <1>3. ASSUME NEW t \in Targets
        PROVE  \E d \in 0 .. N - 1 :
                   waited'[t] <= d /\ (t + d) % N = counter' % N
    <2>1. PICK d \in 0 .. N - 1 : waited[t] <= d /\ (t + d) % N = counter % N
      BY DEF WaitsForTurn
    <2>2. waited'[t] <= d
      BY <1>2, <2>1
    <2> QED
      BY <1>1, <2>1, <2>2
  <1> QED
    BY <1>3 DEF WaitsForTurn

-----------------------------------------------------------------------------
\* For any number of targets and any range of the counter, the state of the
\* balancer stays in its types: it returns its targets or the error.
THEOREM TypeCorrect == Spec => []TypeOK
  <1>1. Init => TypeOK
    <2> SUFFICES ASSUME Init PROVE TypeOK
      OBVIOUS
    <2>1. HCTypeOK
      BY HCInitType DEF Init
    <2>2. counter \in 0 .. CounterMod - 1
      BY TargetsAssumption, CounterAssumption DEF Init
    <2>3. waited \in [Targets -> Nat]
      BY DEF Init
    <2> QED
      BY <2>1, <2>2, <2>3 DEF Init, TypeOK
  <1> QED
    BY <1>1, TypeStep, PTL DEF Spec

\* Whatever becomes of the counter, a call of Next never returns a target whose
\* URL the health checker reports as down, if no URL is configured twice.
THEOREM NeverSelectsDown ==
    DistinctUrls =>
        (Spec => [][NextTarget /\ picked' # NoTarget => up[UrlOf[picked']]]_vars)
  <1> SUFFICES ASSUME DistinctUrls
               PROVE  Spec => [][NextTarget /\ picked' # NoTarget
                                    => up[UrlOf[picked']]]_vars
    OBVIOUS
  <1>1. HCSpec => []FlagsFollowStatus
    BY FlagsFollow
  <1> QED
    BY <1>1, TypeCorrect, CheckerRuns, NeverDownStep, PTL DEF Spec

\* For any number of targets with distinct URLs, a call of Next returns a
\* target that is up, and the error only if all are down, as long as no scan
\* straddles the end of the counter's range.
THEOREM AlwaysSelectsHealthy ==
    DistinctUrls => (Spec /\ []Seamless => SelectsHealthy)
  <1> SUFFICES ASSUME DistinctUrls
               PROVE  Spec /\ []Seamless => SelectsHealthy
    OBVIOUS
  <1>1. HCSpec => []FlagsFollowStatus
    BY FlagsFollow
  <1> QED
    BY <1>1, TypeCorrect, CheckerRuns, SelectStep, PTL DEF Spec, SelectsHealthy

\* For any number of targets, one that stays healthy is returned at least once in
\* any N calls, whatever becomes of the others, as long as no scan straddles the
\* end of the counter's range.  By itself this does not follow from step to step:
\* what a target has waited for has to be tied to the counter.
THEOREM NeverPassedOver == Spec /\ []Seamless => []NoTargetPassedOver
  <1>1. Init => WaitsForTurn
    <2> SUFFICES ASSUME Init, NEW t \in Targets
                 PROVE  \E d \in 0 .. N - 1 :
                            waited[t] <= d /\ (t + d) % N = counter % N
      BY DEF WaitsForTurn
    <2>1. N \in Nat \ {0} /\ t \in Nat
      BY TargetsAssumption DEF Targets
    <2>2. counter = 0 /\ waited[t] = 0
      BY DEF Init
    <2>3. PICK turn \in 0 .. N - 1 : turn = counter % N
      BY <2>1, <2>2, ModFacts
    <2>4. PICK d \in 0 .. N - 1 : (t + d) % N = turn
      BY <2>1, ModReaches
    <2> QED
      BY <2>2, <2>3, <2>4
  <1>2. TypeOK /\ Seamless /\ WaitsForTurn /\ [Next]_vars => WaitsForTurn'
    <2>1. UNCHANGED vars /\ WaitsForTurn => WaitsForTurn'
      BY DEF vars, WaitsForTurn
    <2> QED
      BY <2>1, TurnsStep, TurnsCheck DEF Next
  <1>3. TypeOK /\ WaitsForTurn => NoTargetPassedOver
    BY TargetsAssumption DEF TypeOK, WaitsForTurn, NoTargetPassedOver
  <1> QED
    BY <1>1, <1>2, <1>3, TypeCorrect, PTL DEF Spec
=============================================================================
