---------------------- MODULE WeightedRoundRobinProofs ----------------------
(***************************************************************************)
(* For any number of targets and any weights, the weighted balancer keeps  *)
(* each target close to its share of the calls, and its current weights do *)
(* not drift, however targets go down and come back.                       *)
(***************************************************************************)
EXTENDS WeightedRoundRobin, HealthCheckerProofs, ArithmeticLemmas

W == WeightOf(Targets)

\* The room that twice the sum of k targets' current weights has on either side
\* of zero: none for no target and for m, the most in between.
Room(m, k) == k * (m - k) * W

\* What any of the targets are owed together is within their room.
OwedWithin(m, c, S) ==
    \A A \in SUBSET S : 2 * Total(c, A) <= Room(m, Cardinality(A))

\* What any of the targets owe together is within their room.
OwingWithin(m, c, S) ==
    \A A \in SUBSET S : -Room(m, Cardinality(A)) <= 2 * Total(c, A)

-----------------------------------------------------------------------------
\* The balancer changes none of the checker's variables on its own.
LEMMA CheckerRuns == Spec => HCSpec
  <1>1. Init => HCInit
    BY DEF Init
  <1>2. [Next]_vars => [HCNext]_hcVars
    BY DEF Next, NextTarget, CheckHealth, vars
  <1> QED
    BY <1>1, <1>2, PTL DEF Spec, HCSpec

\* The targets are finitely many, and so are any of them.
LEMMA TargetsFinite ==
    /\ IsFiniteSet(Targets)
    /\ Cardinality(Targets) = N
    /\ \A A \in SUBSET Targets : /\ IsFiniteSet(A)
                                 /\ Cardinality(A) \in 0 .. N
  <1>1. N \in Nat \ {0}
    BY TargetsAssumption
  <1>2. IsFiniteSet(1 .. N) /\ Cardinality(1 .. N) = N
    BY <1>1, FS_Interval
  <1>3. IsFiniteSet(Targets) /\ Cardinality(Targets) = N
    BY <1>2 DEF Targets
  <1>4. ASSUME NEW A \in SUBSET Targets
        PROVE  IsFiniteSet(A) /\ Cardinality(A) \in 0 .. N
    <2>1. IsFiniteSet(A) /\ Cardinality(A) <= Cardinality(Targets)
      BY <1>3, FS_Subset
    <2> QED
      BY <1>3, <2>1, FS_CardinalityType
  <1> QED
    BY <1>3, <1>4

\* The model's sums are sums over the targets.
LEMMA SumsAreTotals ==
    /\ \A S : WeightOf(S) = Total(Weight, S)
    /\ Calls = Total(share, Targets)
  BY DEF WeightOf, Calls, Total

\* Some targets weigh no more than all of them, and all weigh something.
LEMMA WeightFacts ==
    /\ W \in Nat \ {0}
    /\ \A A \in SUBSET Targets : WeightOf(A) \in Nat /\ WeightOf(A) <= W
    /\ \A i \in Targets : Weight[i] \in Nat \ {0}
  <1>0. N \in Nat \ {0}
    BY TargetsAssumption
  <1>1. \A i \in Targets : Weight[i] \in Nat \ {0}
    BY WeightAssumption
  <1>2. ASSUME NEW A \in SUBSET Targets
        PROVE  WeightOf(A) \in Nat /\ WeightOf(A) <= W
    <2>1. IsFiniteSet(A) /\ \A i \in A : Weight[i] \in Int /\ Weight[i] >= 0
      BY <1>1, TargetsFinite
    <2>2. Total(Weight, A) >= Cardinality(A) * 0
      BY <2>1, TotalAtLeast
    <2>3. Total(Weight, A) \in Int /\ Cardinality(A) \in Nat
      BY <2>1, TotalType, TargetsFinite
    <2>4. Total(Weight, A) <= Total(Weight, Targets)
      BY <1>1, TargetsFinite, TotalSubset
    <2> QED
      BY <2>2, <2>3, <2>4, SumsAreTotals DEF W
  <1>3. Total(Weight, Targets) >= Cardinality(Targets) * 1
    <2>1. \A i \in Targets : Weight[i] \in Int /\ Weight[i] >= 1
      BY <1>1
    <2> QED
      BY <2>1, TargetsFinite, TotalAtLeast
  <1>4. W >= N * 1
    BY <1>3, TargetsFinite, SumsAreTotals DEF W
  <1>5. W \in Nat
    BY <1>2 DEF W
  <1>6. W \in Nat \ {0}
    BY <1>0, <1>4, <1>5
  <1> QED
    BY <1>1, <1>2, <1>6

\* The target chosen is available, and none has a higher raised weight.
LEMMA BestIsHighest ==
    ASSUME currentWeights \in [Targets -> Int], Available # {}
    PROVE  /\ Best \in Available
           /\ Raised \in [Targets -> Int]
           /\ \A j \in Available : Raised[j] <= Raised[Best]
  <1>1. Available \in SUBSET Targets
    BY DEF Available
  <1>2. Raised \in [Targets -> Int]
    BY WeightFacts DEF Raised
  <1>3. IsFiniteSet(Available) /\ Available \subseteq Int
    BY <1>1, TargetsFinite DEF Targets
  <1>4. \A i \in Available : Raised[i] \in Int
    BY <1>1, <1>2
  <1>5. \E i \in Available : \A j \in Available :
            Raised[j] < Raised[i] \/ (Raised[j] = Raised[i] /\ i <= j)
    BY <1>3, <1>4, FirstHighest
  <1>6. /\ Best \in Available
        /\ \A j \in Available :
            Raised[j] < Raised[Best] \/ (Raised[j] = Raised[Best] /\ Best <= j)
    BY <1>5 DEF Best
  <1> QED
    BY <1>2, <1>4, <1>6

-----------------------------------------------------------------------------
\* If none of k elements is above another one, r, and with it they have at
\* most the room of k + 1 and one W more, then they have the room of k.
LEMMA RoomBelowHighest ==
    ASSUME NEW w \in Nat, NEW m \in Int, NEW k \in Nat \ {0},
           NEW s \in Int, NEW r \in Int, NEW t \in Int,
           s <= k * r, s + r <= t + w,
           2 * t <= (k + 1) * (m - (k + 1)) * w
    PROVE  2 * s <= k * (m - k) * w
  <1>1. PICK x \in Int : x = (m - k) * w
    OBVIOUS
  <1>2. (k + 1) * (m - (k + 1)) * w = (k + 1) * x - (k + 1) * w
    BY <1>1
  <1>3. k * (m - k) * w = k * x
    BY <1>1
  <1>4. (k + 1) * w >= 2 * w
    OBVIOUS
  <1>5. 2 * (s + r) <= (k + 1) * x
    BY <1>2, <1>4
  <1>6. k * (2 * (s + r)) <= k * ((k + 1) * x)
    BY <1>5
  <1>7. (k + 1) * (2 * s) <= k * (2 * (s + r))
    OBVIOUS
  <1>8. (k + 1) * (2 * s) <= (k + 1) * (k * x)
    BY <1>6, <1>7
  <1>9. 2 * s <= k * x
    BY <1>8
  <1> QED
    BY <1>3, <1>9

\* If r is the highest of q + 1 elements, and s the sum of k - 1 more, then
\* s + r - w keeps the room of k when s and all of them together have theirs.
LEMMA RoomWithHighest ==
    ASSUME NEW w \in Nat, NEW m \in Int, NEW k \in Nat, NEW q \in Nat \ {0},
           NEW s \in Int, NEW r \in Int, NEW v \in Nat, NEW t \in Int,
           v <= w, t + v - s <= (q + 1) * r,
           -((k - 1) * (m - (k - 1)) * w) <= 2 * s,
           -((k + q) * (m - (k + q)) * w) <= 2 * t
    PROVE  -(k * (m - k) * w) <= 2 * (s + r - v)
  <1>1. PICK x \in Int : x = k * (m - k) * w
    OBVIOUS
  <1>2. PICK y \in Int : y = (m - 2 * k) * w
    OBVIOUS
  <1>3. (k - 1) * (m - (k - 1)) * w = x - y - w
    BY <1>1, <1>2
  <1>4. (k + q) * (m - (k + q)) * w = x + q * y - q * q * w
    BY <1>1, <1>2
  <1>5. q * q * w >= q * w
    OBVIOUS
  <1>6. q * (x - y - w) = q * x - q * y - q * w
    OBVIOUS
  <1>7. -(q * (x - y - w)) <= q * (2 * s)
    BY <1>3
  <1>8. q * (2 * v) <= q * (2 * w)
    OBVIOUS
  <1>9. (q + 1) * (2 * (s + r - v)) >= q * (2 * s) + 2 * t - q * (2 * v)
    OBVIOUS
  <1>10. (q + 1) * (2 * (s + r - v)) >= -(q * x + x)
    BY <1>4, <1>5, <1>6, <1>7, <1>8, <1>9
  <1>11. (q + 1) * (2 * (s + r - v) + x) >= 0
    BY <1>10
  <1> QED
    BY <1>1, <1>11

-----------------------------------------------------------------------------
\* Weights c, each raised by the target's weight.
Lifted(c) == [i \in Targets |-> c[i] + Weight[i]]

\* A call that finds the targets in V available chooses b, and turns the
\* weights c into d.
Chooses(b, V, c, d) ==
    /\ V \in SUBSET Targets
    /\ b \in V
    /\ c \in [Targets -> Int] /\ d \in [Targets -> Int]
    /\ \A j \in V : Lifted(c)[j] <= Lifted(c)[b]
    /\ \A i \in V : d[i] = IF i = b THEN Lifted(c)[i] - WeightOf(V)
                                   ELSE Lifted(c)[i]

\* Raised weights add up to the weights and what they are raised by.
LEMMA LiftedTotal ==
    ASSUME NEW c \in [Targets -> Int], NEW A \in SUBSET Targets
    PROVE  /\ Lifted(c) \in [Targets -> Int]
           /\ Total(c, A) \in Int
           /\ Total(Lifted(c), A) \in Int
           /\ Total(Lifted(c), A) = Total(c, A) + WeightOf(A)
  <1>1. \A i \in Targets : Weight[i] \in Int
    BY WeightFacts
  <1>2. Lifted(c) \in [Targets -> Int]
    BY <1>1 DEF Lifted
  <1>3. \A i \in A : /\ c[i] \in Int /\ Weight[i] \in Int
                     /\ Lifted(c)[i] = c[i] + Weight[i]
    BY <1>1 DEF Lifted
  <1>4. IsFiniteSet(A)
    BY TargetsFinite
  <1>5. Total(Lifted(c), A) = Total(c, A) + Total(Weight, A)
    BY <1>3, <1>4, TotalSum
  <1>6. Total(c, A) \in Int
    BY <1>3, <1>4, TotalType
  <1>7. WeightOf(A) \in Int
    BY WeightFacts
  <1> QED
    BY <1>2, <1>5, <1>6, <1>7, SumsAreTotals

\* A call raises what targets are owed by their weights, and takes the weight
\* of all that are available from the one chosen.
LEMMA ChosenTotal ==
    ASSUME NEW b, NEW V, NEW c, NEW d, Chooses(b, V, c, d), NEW A \in SUBSET V
    PROVE  Total(d, A) = IF b \in A THEN Total(Lifted(c), A) - WeightOf(V)
                                    ELSE Total(Lifted(c), A)
  <1>1. /\ A \in SUBSET Targets /\ V \in SUBSET Targets
        /\ c \in [Targets -> Int] /\ d \in [Targets -> Int]
        /\ IsFiniteSet(A)
    BY TargetsFinite DEF Chooses
  <1>2. Lifted(c) \in [Targets -> Int] /\ WeightOf(V) \in Int
    BY <1>1, LiftedTotal, WeightFacts
  <1>3. \A i \in A : Lifted(c)[i] \in Int /\ d[i] \in Int
    BY <1>1, <1>2
  <1>4. CASE b \notin A
    <2>1. \A i \in A : Lifted(c)[i] \in Int /\ d[i] = Lifted(c)[i]
      BY <1>3, <1>4 DEF Chooses
    <2> QED
      BY <1>1, <1>4, <2>1, TotalSame
  <1>5. CASE b \in A
    <2>1. PICK B \in SUBSET A : B = A \ {b}
      OBVIOUS
    <2>2. \A i \in B : Lifted(c)[i] \in Int /\ d[i] = Lifted(c)[i]
      BY <1>3, <2>1 DEF Chooses
    <2>3. Total(d, B) = Total(Lifted(c), B)
      BY <1>1, <2>2, FS_Subset, TotalSame
    <2>4. Total(d, A) = d[b] + Total(d, A \ {b})
      BY <1>1, <1>3, <1>5, TotalRemove
    <2>5. Total(Lifted(c), A) = Lifted(c)[b] + Total(Lifted(c), A \ {b})
      BY <1>1, <1>3, <1>5, TotalRemove
    <2>6. d[b] = Lifted(c)[b] - WeightOf(V)
      BY <1>5 DEF Chooses
    <2>7. Total(Lifted(c), B) \in Int
      BY <1>1, <2>1, LiftedTotal
    <2> QED
      BY <1>2, <1>3, <1>5, <2>1, <2>3, <2>4, <2>5, <2>6, <2>7
  <1> QED
    BY <1>4, <1>5

\* No target that a call passes over takes its group out of its room.
LEMMA OwedStep ==
    ASSUME NEW b, NEW V, NEW c, NEW d, Chooses(b, V, c, d),
           NEW m \in Int, OwedWithin(m, c, V)
    PROVE  OwedWithin(m, d, V)
  <1> SUFFICES ASSUME NEW A \in SUBSET V
               PROVE  2 * Total(d, A) <= Room(m, Cardinality(A))
    BY DEF OwedWithin
  <1>1. /\ A \in SUBSET Targets /\ V \in SUBSET Targets /\ b \in V
        /\ c \in [Targets -> Int]
        /\ IsFiniteSet(A) /\ IsFiniteSet(V)
    BY TargetsFinite DEF Chooses
  <1>2. /\ Total(Lifted(c), A) = Total(c, A) + WeightOf(A)
        /\ Total(c, A) \in Int
        /\ Total(Lifted(c), A) \in Int
        /\ Lifted(c) \in [Targets -> Int]
    BY <1>1, LiftedTotal
  <1>3. CASE b \in A
    <2>1. WeightOf(A) <= WeightOf(V) /\ WeightOf(A) \in Nat /\ WeightOf(V) \in Nat
      <3>1. \A i \in V : Weight[i] \in Nat
        BY <1>1, WeightFacts
      <3> QED
        BY <1>1, <3>1, TotalSubset, SumsAreTotals, WeightFacts
    <2>2. Total(d, A) <= Total(c, A)
      BY <1>2, <1>3, <2>1, ChosenTotal
    <2>3. Total(d, A) \in Int
      BY <1>2, <1>3, <2>1, ChosenTotal
    <2>4. 2 * Total(c, A) <= Room(m, Cardinality(A))
      BY DEF OwedWithin
    <2>5. Room(m, Cardinality(A)) \in Int
      BY <1>1, TargetsFinite, WeightFacts DEF Room
    <2> QED
      BY <1>2, <2>2, <2>3, <2>4, <2>5
  <1>4. CASE b \notin A /\ A = {}
    <2>1. Total(d, A) = 0 /\ Cardinality(A) = 0
      BY <1>4, TotalEmpty, FS_EmptySet
    <2> QED
      BY <2>1, WeightFacts DEF Room
  <1>5. CASE b \notin A /\ A # {}
    <2>1. PICK k \in Nat \ {0} : k = Cardinality(A)
      BY <1>1, <1>5, FS_EmptySet, TargetsFinite
    <2>2. PICK B \in SUBSET V : B = A \cup {b}
      BY <1>1
    <2>3. Cardinality(B) = k + 1
      BY <1>1, <1>5, <2>1, <2>2, FS_AddElement
    <2>4. /\ Total(Lifted(c), B) = Total(c, B) + WeightOf(B)
          /\ Total(c, B) \in Int
      BY <1>1, LiftedTotal
    <2>5. Total(Lifted(c), B) = Lifted(c)[b] + Total(Lifted(c), A)
      <3>1. \A i \in V : Lifted(c)[i] \in Int
        BY <1>1, <1>2
      <3> QED
        BY <1>1, <1>5, <2>2, <3>1, TotalAdd
    <2>6. Total(Lifted(c), A) <= k * Lifted(c)[b]
      <3>1. \A i \in A : Lifted(c)[i] \in Int /\ Lifted(c)[i] <= Lifted(c)[b]
        BY <1>1, <1>2 DEF Chooses
      <3> QED
        BY <1>1, <1>2, <2>1, <3>1, TotalAtMost
    <2>7. WeightOf(B) \in Nat /\ WeightOf(B) <= W /\ W \in Nat
      BY <1>1, WeightFacts
    <2>8. 2 * Total(c, B) <= (k + 1) * (m - (k + 1)) * W
      BY <2>3 DEF OwedWithin, Room
    <2>9. Lifted(c)[b] \in Int
      BY <1>1, <1>2
    <2>10. Total(Lifted(c), A) + Lifted(c)[b] <= Total(c, B) + W
      BY <1>2, <2>4, <2>5, <2>7, <2>9
    <2>11. 2 * Total(Lifted(c), A) <= k * (m - k) * W
      BY <1>2, <2>4, <2>6, <2>7, <2>8, <2>9, <2>10, RoomBelowHighest
    <2> QED
      BY <1>5, <2>1, <2>11, ChosenTotal DEF Room
  <1> QED
    BY <1>3, <1>4, <1>5

\* Choosing a target takes no group that it belongs to out of its room.
LEMMA OwingStep ==
    ASSUME NEW b, NEW V, NEW c, NEW d, Chooses(b, V, c, d),
           NEW m \in Int, OwingWithin(m, c, V)
    PROVE  OwingWithin(m, d, V)
  <1> SUFFICES ASSUME NEW A \in SUBSET V
               PROVE  -Room(m, Cardinality(A)) <= 2 * Total(d, A)
    BY DEF OwingWithin
  <1>1. /\ A \in SUBSET Targets /\ V \in SUBSET Targets /\ b \in V
        /\ c \in [Targets -> Int]
        /\ IsFiniteSet(A) /\ IsFiniteSet(V)
    BY TargetsFinite DEF Chooses
  <1>2. /\ Total(Lifted(c), A) = Total(c, A) + WeightOf(A)
        /\ Total(c, A) \in Int
        /\ Total(Lifted(c), A) \in Int
        /\ Lifted(c) \in [Targets -> Int]
    BY <1>1, LiftedTotal
  <1>3. WeightOf(A) \in Nat /\ WeightOf(V) \in Nat /\ WeightOf(V) <= W /\ W \in Nat
    BY <1>1, WeightFacts
  <1>4. -Room(m, Cardinality(A)) <= 2 * Total(c, A)
    BY DEF OwingWithin
  <1>5. Room(m, Cardinality(A)) \in Int
    BY <1>1, TargetsFinite, WeightFacts DEF Room
  <1>6. CASE b \notin A \/ A = V
    <2>1. Total(d, A) >= Total(c, A) /\ Total(d, A) \in Int
      BY <1>1, <1>2, <1>3, <1>6, ChosenTotal
    <2> QED
      BY <1>2, <1>4, <1>5, <2>1
  <1>7. CASE b \in A /\ A # V
    <2>1. PICK k \in Nat : k = Cardinality(A)
      BY <1>1, TargetsFinite
    <2>2. PICK B \in SUBSET V : B = A \ {b}
      OBVIOUS
    <2>3. PICK R \in SUBSET V : R = V \ B
      OBVIOUS
    <2>4. Cardinality(B) = k - 1 /\ Cardinality(B) \in Nat
      BY <1>1, <1>7, <2>1, <2>2, FS_RemoveElement, TargetsFinite
    <2>5. PICK q \in Nat \ {0} : Cardinality(V) = k + q
      <3>1. Cardinality(A) <= Cardinality(V) /\ Cardinality(V) \in Nat
        BY <1>1, FS_Subset, TargetsFinite
      <3>2. Cardinality(A) # Cardinality(V)
        BY <1>1, <1>7, FS_Subset
      <3>3. Cardinality(V) - k \in Nat \ {0} /\ Cardinality(V) = k + (Cardinality(V) - k)
        BY <2>1, <3>1, <3>2
      <3> QED
        BY <3>3
    <2>6. Cardinality(R) = q + 1
      <3>1. Cardinality(R) = Cardinality(V) - Cardinality(V \cap B)
        BY <1>1, <2>3, FS_Difference
      <3>2. V \cap B = B
        OBVIOUS
      <3>3. Cardinality(R) = Cardinality(V) - Cardinality(B)
        BY <3>1, <3>2, Zenon
      <3> QED
        BY <2>4, <2>5, <3>3
    <2>7. /\ Total(Lifted(c), B) = Total(c, B) + WeightOf(B)
          /\ Total(Lifted(c), B) \in Int /\ Total(c, B) \in Int
          /\ Total(Lifted(c), V) = Total(c, V) + WeightOf(V)
          /\ Total(c, V) \in Int
          /\ Total(Lifted(c), R) \in Int
      BY <1>1, LiftedTotal
    <2>8. \A i \in V : Lifted(c)[i] \in Int
      BY <1>1, <1>2
    <2>9. Total(Lifted(c), A) = Lifted(c)[b] + Total(Lifted(c), B)
      BY <1>1, <1>7, <2>2, <2>8, TotalRemove
    <2>10. Total(Lifted(c), V) = Total(Lifted(c), B) + Total(Lifted(c), R)
      BY <1>1, <2>3, <2>8, TotalApart
    <2>11. Total(Lifted(c), R) <= (q + 1) * Lifted(c)[b]
      <3>1. \A i \in R : Lifted(c)[i] \in Int /\ Lifted(c)[i] <= Lifted(c)[b]
        BY <1>1, <2>8 DEF Chooses
      <3>2. IsFiniteSet(R) /\ Lifted(c)[b] \in Int
        BY <1>1, <2>8, FS_Subset
      <3> QED
        BY <2>6, <3>1, <3>2, TotalAtMost
    <2>12. -((k - 1) * (m - (k - 1)) * W) <= 2 * Total(c, B)
      BY <2>4 DEF OwingWithin, Room
    <2>13. -((k + q) * (m - (k + q)) * W) <= 2 * Total(c, V)
      BY <2>5 DEF OwingWithin, Room
    <2>14. WeightOf(B) \in Nat
      BY <1>1, WeightFacts
    <2>15. (k - 1) * (m - (k - 1)) * W \in Int
      BY <1>3
    <2>16. -((k - 1) * (m - (k - 1)) * W) <= 2 * Total(Lifted(c), B)
      BY <2>7, <2>12, <2>14, <2>15
    <2>17. /\ Lifted(c)[b] \in Int
           /\ Total(c, V) + WeightOf(V) - Total(Lifted(c), B)
                   <= (q + 1) * Lifted(c)[b]
      BY <1>1, <1>3, <2>7, <2>8, <2>10, <2>11
    <2>18. -(k * (m - k) * W)
               <= 2 * (Total(Lifted(c), B) + Lifted(c)[b] - WeightOf(V))
      BY <1>3, <2>7, <2>13, <2>16, <2>17, RoomWithHighest
    <2>19. Total(d, A) = Total(Lifted(c), B) + Lifted(c)[b] - WeightOf(V)
      BY <1>3, <1>7, <2>7, <2>9, <2>17, ChosenTotal
    <2> QED
      BY <2>1, <2>18, <2>19 DEF Room
  <1> QED
    BY <1>6, <1>7

\* More targets have more room, when m is twice their number.
LEMMA RoomGrows ==
    ASSUME NEW j \in 0 .. N, NEW k \in j .. N
    PROVE  /\ Room(2 * N, j) <= Room(2 * N, k)
           /\ Room(2 * N, j) \in Int
           /\ Room(2 * N, k) \in Int
  <1>0. N \in Nat /\ W \in Nat
    BY TargetsAssumption, WeightFacts
  <1>1. k * (2 * N - k) - j * (2 * N - j) = (k - j) * ((N - k) + (N - j))
    BY <1>0
  <1>2. (k - j) * ((N - k) + (N - j)) >= 0
    BY <1>0
  <1>3. PICK x \in Int, y \in Int : x = j * (2 * N - j) /\ y = k * (2 * N - k)
    BY <1>0
  <1>4. x * W <= y * W
    BY <1>0, <1>1, <1>2, <1>3
  <1> QED
    BY <1>0, <1>3, <1>4 DEF Room

\* Forgetting the weights of some targets keeps the rest within their room.
LEMMA ZeroedWithin ==
    ASSUME NEW c \in [Targets -> Int], NEW d, NEW D,
           \A i \in Targets : d[i] = IF i \in D THEN 0 ELSE c[i],
           OwedWithin(2 * N, c, Targets \ D), OwingWithin(2 * N, c, Targets \ D)
    PROVE  OwedWithin(2 * N, d, Targets) /\ OwingWithin(2 * N, d, Targets)
  <1> SUFFICES ASSUME NEW A \in SUBSET Targets
               PROVE  /\ 2 * Total(d, A) <= Room(2 * N, Cardinality(A))
                      /\ -Room(2 * N, Cardinality(A)) <= 2 * Total(d, A)
    BY DEF OwedWithin, OwingWithin
  <1>1. PICK B \in SUBSET (Targets \ D) : B = A \ D
    OBVIOUS
  <1>2. \A i \in A : c[i] \in Int /\ d[i] = IF i \in D THEN 0 ELSE c[i]
    OBVIOUS
  <1>3. Total(d, A) = Total(c, B)
    BY <1>1, <1>2, TargetsFinite, TotalWithout
  <1>4. /\ IsFiniteSet(A) /\ B \in SUBSET A /\ B \in SUBSET Targets
        /\ Cardinality(A) \in 0 .. N /\ Cardinality(B) \in 0 .. N
    BY <1>1, TargetsFinite
  <1>5. Cardinality(B) <= Cardinality(A)
    BY <1>4, FS_Subset
  <1>6. Cardinality(A) \in Cardinality(B) .. N
    BY <1>4, <1>5
  <1>7. /\ Room(2 * N, Cardinality(B)) <= Room(2 * N, Cardinality(A))
        /\ Room(2 * N, Cardinality(B)) \in Int
        /\ Room(2 * N, Cardinality(A)) \in Int
    BY <1>4, <1>6, RoomGrows
  <1>8. /\ 2 * Total(c, B) <= Room(2 * N, Cardinality(B))
        /\ -Room(2 * N, Cardinality(B)) <= 2 * Total(c, B)
    BY DEF OwedWithin, OwingWithin
  <1>9. Total(c, B) \in Int
    BY <1>4, LiftedTotal
  <1> QED
    BY <1>3, <1>7, <1>8, <1>9

-----------------------------------------------------------------------------
\* A call with a target available is a step of the weights as above.
LEMMA NextChooses ==
    ASSUME currentWeights \in [Targets -> Int], NextTarget, Available # {}
    PROVE  /\ Chooses(Best, Available, currentWeights, currentWeights')
           /\ \A i \in Targets \ Available : currentWeights'[i] = currentWeights[i]
           /\ picked' = Best
           /\ share' = IF settled THEN Served(Best) ELSE share
  <1>1. /\ Best \in Available
        /\ Raised \in [Targets -> Int]
        /\ \A j \in Available : Raised[j] <= Raised[Best]
    BY BestIsHighest
  <1>2. currentWeights' = [Raised EXCEPT ![Best] = @ - TotalWeight]
    BY DEF NextTarget
  <1>3. Available \in SUBSET Targets
    BY DEF Available
  <1>4. TotalWeight = WeightOf(Available) /\ TotalWeight \in Int
    BY <1>3, WeightFacts DEF TotalWeight
  <1>5. currentWeights' \in [Targets -> Int]
    BY <1>1, <1>2, <1>3, <1>4
  <1>6. \A i \in Available : Raised[i] = Lifted(currentWeights)[i]
    BY <1>3 DEF Raised, Lifted
  <1>7. \A i \in Targets \ Available : currentWeights'[i] = currentWeights[i]
    BY <1>1, <1>2 DEF Raised
  <1>8. \A i \in Available :
            currentWeights'[i] = IF i = Best
                                   THEN Lifted(currentWeights)[i] - WeightOf(Available)
                                   ELSE Lifted(currentWeights)[i]
    BY <1>1, <1>2, <1>3, <1>4, <1>6
  <1>9. \A j \in Available : Lifted(currentWeights)[j] <= Lifted(currentWeights)[Best]
    BY <1>1, <1>6
  <1>10. Chooses(Best, Available, currentWeights, currentWeights')
    BY <1>1, <1>3, <1>5, <1>8, <1>9 DEF Chooses
  <1> QED
    BY <1>7, <1>10 DEF NextTarget

\* The counts of the cycle are those of numbered calls.
LEMMA ServedType ==
    ASSUME share \in [Targets -> Nat], NEW b \in Targets
    PROVE  Served(b) \in [Targets -> Nat]
  <1>1. NoCalls \in [Targets -> Nat]
    BY DEF NoCalls
  <1>2. PICK s \in [Targets -> Nat] :
            s = IF Calls = WeightOf(Targets) THEN NoCalls ELSE share
    BY <1>1
  <1>3. Served(b) = [s EXCEPT ![b] = @ + 1]
    BY <1>2 DEF Served
  <1> QED
    BY <1>3

\* Every step keeps the types.
LEMMA TypeStep == TypeOK /\ HCTypeOK' /\ [Next]_vars => TypeOK'
  <1> SUFFICES ASSUME TypeOK, HCTypeOK', [Next]_vars
               PROVE  TypeOK'
    OBVIOUS
  <1>0. currentWeights \in [Targets -> Int] /\ share \in [Targets -> Nat]
    BY DEF TypeOK
  <1>1. CASE NextTarget /\ Available = {}
    BY <1>1 DEF NextTarget, TypeOK
  <1>2. CASE NextTarget /\ Available # {}
    <2>1. /\ Chooses(Best, Available, currentWeights, currentWeights')
          /\ picked' = Best
          /\ share' = IF settled THEN Served(Best) ELSE share
      BY <1>0, <1>2, NextChooses
    <2>2. Best \in Targets /\ currentWeights' \in [Targets -> Int]
      BY <2>1 DEF Chooses
    <2>3. share' \in [Targets -> Nat]
      BY <1>0, <2>1, <2>2, ServedType
    <2>4. settled' \in BOOLEAN
      BY <1>2 DEF NextTarget, TypeOK
    <2> QED
      BY <2>1, <2>2, <2>3, <2>4 DEF TypeOK
  <1>3. CASE CheckHealth
    <2>1. currentWeights' \in [Targets -> Int]
      <3>1. currentWeights' = [i \in Targets |->
                IF healthy[i] /\ ~healthy'[i] THEN 0 ELSE currentWeights[i]]
        BY <1>3 DEF CheckHealth, WeightsOfUp
      <3> QED
        BY <1>0, <3>1
    <2>2. share' \in [Targets -> Nat]
      <3>1. NoCalls \in [Targets -> Nat]
        BY DEF NoCalls
      <3>2. share' = share \/ share' = NoCalls
        BY <1>3 DEF CheckHealth
      <3> QED
        BY <1>0, <3>1, <3>2
    <2>3. settled' \in BOOLEAN
      BY <1>3, Zenon DEF CheckHealth
    <2>4. picked' \in Targets \cup {NoTarget}
      BY <1>3 DEF CheckHealth, TypeOK
    <2> QED
      BY <2>1, <2>2, <2>3, <2>4 DEF TypeOK
  <1>4. CASE UNCHANGED vars
    BY <1>4 DEF vars, history, TypeOK
  <1> QED
    BY <1>1, <1>2, <1>3, <1>4 DEF Next

\* The weighted balancer's variables keep their types: in particular, a call
\* returns one of the targets or an error, and the current weights are those
\* of the targets.
THEOREM TypeCorrect == Spec => []TypeOK
  <1>1. Init => TypeOK
    <2> SUFFICES ASSUME Init PROVE TypeOK
      OBVIOUS
    <2>1. HCTypeOK
      BY HCInitType DEF Init
    <2>2. /\ currentWeights \in [Targets -> Int]
          /\ share \in [Targets -> Nat]
          /\ picked \in Targets \cup {NoTarget}
      BY DEF Init, NoCalls
    <2>3. settled \in BOOLEAN
      BY DEF Init
    <2> QED
      BY <2>1, <2>2, <2>3 DEF TypeOK
  <1> QED
    BY <1>1, TypeStep, CheckerRuns, HCTypeCorrect, PTL DEF Spec

-----------------------------------------------------------------------------
\* A call returns a target that is up, if any is.
LEMMA SelectStep ==
    ASSUME TypeOK, FlagsFollowStatus, NextTarget
    PROVE  IF \E i \in Targets : up[UrlOf[i]]
             THEN picked' # NoTarget /\ up[UrlOf[picked']]
             ELSE picked' = NoTarget
  <1>0. currentWeights \in [Targets -> Int]
    BY DEF TypeOK
  <1>1. \A i \in Targets : i \in Available <=> up[UrlOf[i]]
    BY Zenon DEF Available, FlagsFollowStatus
  <1>2. CASE Available = {}
    <2>1. picked' = NoTarget
      BY <1>2 DEF NextTarget
    <2>2. ~ \E i \in Targets : up[UrlOf[i]]
      BY <1>1, <1>2, Zenon
    <2> QED
      BY <2>1, <2>2
  <1>3. CASE Available # {}
    <2>1. picked' = Best /\ Best \in Available
      BY <1>0, <1>3, NextChooses, BestIsHighest
    <2>2. picked' \in Targets
      BY <2>1 DEF Available
    <2>3. up[UrlOf[picked']]
      BY <1>1, <2>1, <2>2, Zenon
    <2>4. picked' # NoTarget
      BY <2>2, TargetsAssumption DEF NoTarget, Targets
    <2> QED
      BY <2>2, <2>3, <2>4, Zenon
  <1> QED
    BY <1>2, <1>3

\* For any number of targets with distinct URLs and any weights, the weighted
\* balancer never returns a target that is down, and errs only when all are.
THEOREM AlwaysSelectsHealthy == DistinctUrls => (Spec => SelectsHealthy)
  <1> SUFFICES ASSUME DistinctUrls
               PROVE  Spec => SelectsHealthy
    OBVIOUS
  <1>1. TypeOK /\ FlagsFollowStatus /\ [Next]_vars
            => [NextTarget => IF \E i \in Targets : up[UrlOf[i]]
                                THEN picked' # NoTarget /\ up[UrlOf[picked']]
                                ELSE picked' = NoTarget]_vars
    BY SelectStep
  <1>2. HCSpec => []FlagsFollowStatus
    BY FlagsFollow
  <1> QED
    BY <1>1, <1>2, TypeCorrect, CheckerRuns, PTL DEF Spec, SelectsHealthy

-----------------------------------------------------------------------------
\* SetHealthy(url, false) leaves a target no claim from before it went down.
DownForgotten == \A i \in Targets : ~healthy[i] => currentWeights[i] = 0

\* However targets went down and came back, what any group of them is owed or
\* owes is within its room.
Spread ==
    /\ OwedWithin(2 * N, currentWeights, Targets)
    /\ OwingWithin(2 * N, currentWeights, Targets)

\* Calls and checks keep what is owed within its room.
LEMMA SpreadStep ==
    TypeOK /\ DownForgotten /\ Spread /\ TypeOK' /\ [Next]_vars
        => DownForgotten' /\ Spread'
  <1> SUFFICES ASSUME TypeOK, DownForgotten, Spread, TypeOK', [Next]_vars
               PROVE  DownForgotten' /\ Spread'
    OBVIOUS
  <1>0. /\ currentWeights \in [Targets -> Int]
        /\ currentWeights' \in [Targets -> Int]
        /\ 2 * N \in Int
    BY TargetsAssumption DEF TypeOK
  <1>1. CASE (NextTarget /\ Available = {}) \/ UNCHANGED vars
    <2>1. UNCHANGED <<currentWeights, healthy>>
      BY <1>1 DEF NextTarget, vars, hcVars
    <2> QED
      BY <2>1 DEF DownForgotten, Spread, OwedWithin, OwingWithin
  <1>2. CASE NextTarget /\ Available # {}
    <2>1. /\ Chooses(Best, Available, currentWeights, currentWeights')
          /\ \A i \in Targets \ Available : currentWeights'[i] = currentWeights[i]
      BY <1>0, <1>2, NextChooses
    <2>2. \A i \in Targets \ Available : currentWeights[i] = 0
      BY DEF DownForgotten, Available
    <2>3. DownForgotten'
      <3>1. healthy' = healthy
        BY <1>2 DEF NextTarget, hcVars
      <3>2. \A i \in Targets : ~healthy[i] => currentWeights'[i] = 0
        BY <2>1, <2>2 DEF Available
      <3> QED
        BY <3>1, <3>2 DEF DownForgotten
    <2>4. /\ OwedWithin(2 * N, currentWeights, Available)
          /\ OwingWithin(2 * N, currentWeights, Available)
      BY DEF Spread, OwedWithin, OwingWithin, Available
    <2>5. /\ OwedWithin(2 * N, currentWeights', Available)
          /\ OwingWithin(2 * N, currentWeights', Available)
      BY <1>0, <2>1, <2>4, OwedStep, OwingStep
    <2>6. PICK D \in SUBSET Targets : D = Targets \ Available
      OBVIOUS
    <2>7. Targets \ D = Available
      BY <2>6 DEF Available
    <2>8. \A i \in Targets : currentWeights'[i] = IF i \in D THEN 0 ELSE currentWeights'[i]
      BY <2>1, <2>2, <2>6
    <2>9. /\ OwedWithin(2 * N, currentWeights', Targets \ D)
          /\ OwingWithin(2 * N, currentWeights', Targets \ D)
      BY <2>5, <2>7
    <2>10. /\ OwedWithin(2 * N, currentWeights', Targets)
           /\ OwingWithin(2 * N, currentWeights', Targets)
      BY <1>0, <2>8, <2>9, ZeroedWithin
    <2> QED
      BY <2>3, <2>10 DEF Spread, OwedWithin, OwingWithin
  <1>3. CASE CheckHealth
    <2>1. PICK D \in SUBSET Targets : D = {i \in Targets : healthy[i] /\ ~healthy'[i]}
      OBVIOUS
    <2>2. \A i \in Targets : currentWeights'[i] = IF i \in D THEN 0 ELSE currentWeights[i]
      BY <1>3, <2>1, Zenon DEF CheckHealth, WeightsOfUp
    <2>3. DownForgotten'
      <3>1. \A i \in Targets : ~healthy'[i] => currentWeights'[i] = 0
        BY <2>1, <2>2, Zenon DEF DownForgotten
      <3> QED
        BY <3>1 DEF DownForgotten
    <2>4. /\ OwedWithin(2 * N, currentWeights, Targets \ D)
          /\ OwingWithin(2 * N, currentWeights, Targets \ D)
      BY DEF Spread, OwedWithin, OwingWithin
    <2>5. /\ OwedWithin(2 * N, currentWeights', Targets)
          /\ OwingWithin(2 * N, currentWeights', Targets)
      BY <1>0, <2>2, <2>4, ZeroedWithin
    <2> QED
      BY <2>3, <2>5 DEF Spread, OwedWithin, OwingWithin
  <1> QED
    BY <1>1, <1>2, <1>3 DEF Next

\* Weights that are all zero are within any group's room.
LEMMA ZeroWithin ==
    ASSUME NEW c, NEW m \in Int, m >= N, \A i \in Targets : c[i] = 0
    PROVE  /\ \A A \in SUBSET Targets : Total(c, A) = 0
           /\ OwedWithin(m, c, Targets)
           /\ OwingWithin(m, c, Targets)
  <1>1. ASSUME NEW A \in SUBSET Targets
        PROVE  /\ Total(c, A) = 0
               /\ 0 <= Room(m, Cardinality(A))
               /\ Room(m, Cardinality(A)) \in Int
    <2>1. \A i \in A : /\ c[i] \in Int /\ c[i] <= 0 /\ c[i] >= 0
      OBVIOUS
    <2>2. Total(c, A) = 0
      <3>1. IsFiniteSet(A) /\ Cardinality(A) \in Nat
        BY TargetsFinite
      <3>2. PICK z \in Int : z = 0
        OBVIOUS
      <3>3. \A i \in A : c[i] \in Int /\ c[i] <= z /\ c[i] >= z
        BY <2>1, <3>2
      <3>4. Total(c, A) <= Cardinality(A) * z
        BY <3>1, <3>3, TotalAtMost
      <3>5. Total(c, A) >= Cardinality(A) * z
        BY <3>1, <3>3, TotalAtLeast
      <3>6. Total(c, A) \in Int
        BY <3>1, <3>3, TotalType
      <3> QED
        BY <3>1, <3>2, <3>4, <3>5, <3>6
    <2>3. PICK k \in 0 .. N : k = Cardinality(A)
      BY TargetsFinite
    <2>4. N \in Nat /\ W \in Nat
      BY TargetsAssumption, WeightFacts
    <2>5. PICK x \in Nat : x = k * (m - k)
      BY <2>4
    <2>6. x * W >= 0 /\ x * W \in Int
      BY <2>4
    <2> QED
      BY <2>2, <2>3, <2>4, <2>5, <2>6 DEF Room
  <1> QED
    BY <1>1 DEF OwedWithin, OwingWithin

\* However targets go down and come back, the current weight of a target stays
\* within N times the weight of all.
THEOREM NoDrift == Spec => []DriftBounded
  <1>1. Init => DownForgotten /\ Spread
    <2> SUFFICES ASSUME Init PROVE DownForgotten /\ Spread
      OBVIOUS
    <2>1. \A i \in Targets : currentWeights[i] = 0
      BY DEF Init
    <2>2. 2 * N \in Int /\ 2 * N >= N
      BY TargetsAssumption
    <2> QED
      BY <2>1, <2>2, ZeroWithin DEF DownForgotten, Spread
  <1>2. TypeOK /\ Spread => DriftBounded
    <2> SUFFICES ASSUME TypeOK, Spread, NEW i \in Targets
                 PROVE  currentWeights[i] \in -(N * W) .. (N * W)
      BY DEF DriftBounded, W
    <2>0. N \in Nat \ {0} /\ W \in Nat
      BY TargetsAssumption, WeightFacts
    <2>1. currentWeights[i] \in Int
      BY DEF TypeOK
    <2>2. Total(currentWeights, {i}) = currentWeights[i]
      BY <2>1, TotalOne
    <2>3. Cardinality({i}) = 1 /\ {i} \in SUBSET Targets
      BY FS_Singleton
    <2>4. /\ 2 * currentWeights[i] <= Room(2 * N, 1)
          /\ -Room(2 * N, 1) <= 2 * currentWeights[i]
      BY <2>2, <2>3 DEF Spread, OwedWithin, OwingWithin
    <2>5. Room(2 * N, 1) = 2 * (N * W) - W
      BY <2>0 DEF Room
    <2> QED
      BY <2>0, <2>1, <2>4, <2>5
  <1> QED
    BY <1>1, <1>2, SpreadStep, TypeCorrect, PTL DEF Spec

-----------------------------------------------------------------------------
\* As long as no target has gone down, a current weight is what the target's
\* exact share of the cycle's calls exceeds the calls it got by, in units of
\* one call's W; nobody owes a whole call, and any group is owed within the
\* room of a balancer that has known only these targets.
Cycle ==
    settled =>
        /\ \A i \in Targets : healthy[i]
        /\ \A i \in Targets : currentWeights[i] = Calls * Weight[i] - share[i] * W
        /\ \A i \in Targets : -W < currentWeights[i]
        /\ Calls \in 0 .. W
        /\ Total(currentWeights, Targets) = 0
        /\ OwedWithin(N, currentWeights, Targets)

\* The calls after a step are the sum of the shares after it.
LEMMA CallsTotal == Calls' = Total(share', Targets)
  <1>1. (Calls = Total(share, Targets))'
    BY SumsAreTotals, PTL
  <1> QED
    BY <1>1

\* At the end of the cycle each target has had its weight in calls.
LEMMA FullCycle ==
    ASSUME TypeOK, Cycle, settled, Calls = W
    PROVE  \A i \in Targets : share[i] = Weight[i]
  <1>0. W \in Nat \ {0} /\ \A i \in Targets : Weight[i] \in Nat
    BY WeightFacts
  <1>1. \A i \in Targets : share[i] \in Int /\ Weight[i] \in Int /\ share[i] <= Weight[i]
    <2> SUFFICES ASSUME NEW i \in Targets
                 PROVE  share[i] \in Int /\ Weight[i] \in Int /\ share[i] <= Weight[i]
      OBVIOUS
    <2>1. PICK x \in Int, y \in Int : x = share[i] /\ y = Weight[i]
      BY <1>0 DEF TypeOK
    <2>2. -W < W * y - x * W
      BY <2>1 DEF Cycle
    <2>3. (x - y) * W < 1 * W
      BY <1>0, <2>2
    <2>4. x - y < 1
      BY <1>0, <2>3
    <2> QED
      BY <2>1, <2>4
  <1>2. Total(share, Targets) = Total(Weight, Targets)
    BY SumsAreTotals DEF W
  <1>3. ASSUME NEW i \in Targets PROVE share[i] = Weight[i]
    BY <1>1, <1>2, TargetsFinite, TotalEqual
  <1> QED
    BY <1>3

\* A call counts in a cycle that has not had all its calls yet.
LEMMA CycleServes ==
    ASSUME TypeOK, Cycle, settled, NEW b \in Targets
    PROVE  \E s \in [Targets -> Nat], n \in Nat :
              /\ n < W
              /\ n = Total(s, Targets)
              /\ \A i \in Targets : currentWeights[i] = n * Weight[i] - s[i] * W
              /\ Served(b) = [s EXCEPT ![b] = @ + 1]
  <1>0. W \in Nat \ {0} /\ \A i \in Targets : Weight[i] \in Nat
    BY WeightFacts
  <1>1. CASE Calls = W
    <2>1. \A i \in Targets : share[i] = Weight[i]
      BY <1>1, FullCycle
    <2>2. \A i \in Targets : currentWeights[i] = W * Weight[i] - Weight[i] * W
      BY <1>1, <2>1 DEF Cycle
    <2>3. \A i \in Targets : W * Weight[i] - Weight[i] * W = 0
      BY <1>0
    <2>4. NoCalls \in [Targets -> Nat] /\ \A i \in Targets : NoCalls[i] = 0
      BY DEF NoCalls
    <2>5. \A i \in Targets : currentWeights[i] = 0 * Weight[i] - NoCalls[i] * W
      BY <1>0, <2>2, <2>3, <2>4
    <2>6. N \in Int /\ N >= N
      BY TargetsAssumption
    <2>7. Total(NoCalls, Targets) = 0
      BY <2>4, <2>6, ZeroWithin
    <2>8. Served(b) = [NoCalls EXCEPT ![b] = @ + 1]
      BY <1>1 DEF Served, W
    <2>9. NoCalls \in [Targets -> Nat] /\ 0 \in Nat /\ 0 < W
      BY <1>0, <2>4
    <2> USE <2>9
    <2> WITNESS NoCalls \in [Targets -> Nat], 0 \in Nat
    <2> QED
      BY <2>5, <2>7, <2>8, <2>9
  <1>2. CASE Calls # W
    <2>1. share \in [Targets -> Nat]
      BY DEF TypeOK
    <2>2. Calls \in Nat /\ Calls < W
      BY <1>0, <1>2 DEF Cycle
    <2>3. Served(b) = [share EXCEPT ![b] = @ + 1]
      BY <1>2 DEF Served, W
    <2>4. Calls = Total(share, Targets)
      BY SumsAreTotals
    <2>5. \A i \in Targets : currentWeights[i] = Calls * Weight[i] - share[i] * W
      BY DEF Cycle
    <2> QED
      BY <2>1, <2>2, <2>3, <2>4, <2>5
  <1> QED
    BY <1>1, <1>2

\* One call more for one target is one call more.
LEMMA OneMoreCall ==
    ASSUME NEW s \in [Targets -> Nat], NEW b \in Targets, NEW t,
           t = [s EXCEPT ![b] = @ + 1]
    PROVE  Total(t, Targets) = Total(s, Targets) + 1
  <1>1. /\ \A i \in Targets : s[i] \in Int /\ t[i] \in Int
        /\ t[b] = s[b] + 1
    OBVIOUS
  <1>2. PICK B \in SUBSET Targets : B = Targets \ {b}
    OBVIOUS
  <1>3. \A i \in B : s[i] \in Int /\ t[i] = s[i]
    BY <1>2
  <1>4. Total(t, B) = Total(s, B)
    BY <1>3, TargetsFinite, TotalSame
  <1>5. Total(t, Targets) = t[b] + Total(t, B)
    BY <1>1, <1>2, TargetsFinite, TotalRemove
  <1>6. Total(s, Targets) = s[b] + Total(s, B)
    BY <1>1, <1>2, TargetsFinite, TotalRemove
  <1>7. Total(s, B) \in Int
    BY <1>3, TargetsFinite, TotalType
  <1> QED
    BY <1>1, <1>4, <1>5, <1>6, <1>7

\* Calls and checks keep the cycle even.
LEMMA CycleStep == TypeOK /\ Cycle /\ TypeOK' /\ [Next]_vars => Cycle'
  <1> SUFFICES ASSUME TypeOK, Cycle, TypeOK', [Next]_vars, settled'
               PROVE  /\ \A i \in Targets : healthy'[i]
                      /\ \A i \in Targets :
                             currentWeights'[i] = Calls' * Weight[i] - share'[i] * W
                      /\ \A i \in Targets : -W < currentWeights'[i]
                      /\ Calls' \in 0 .. W
                      /\ Total(currentWeights', Targets) = 0
                      /\ OwedWithin(N, currentWeights', Targets)
    BY DEF Cycle
  <1>0. /\ currentWeights \in [Targets -> Int]
        /\ currentWeights' \in [Targets -> Int]
        /\ share \in [Targets -> Nat]
        /\ N \in Nat \ {0} /\ W \in Nat \ {0}
        /\ \A i \in Targets : Weight[i] \in Nat \ {0}
    BY TargetsAssumption, WeightFacts DEF TypeOK
  <1>1. settled
    BY DEF Next, NextTarget, CheckHealth, vars, history
  <1>2. Available = Targets
    BY <1>1, Zenon DEF Cycle, Available
  <1>3. CASE UNCHANGED <<currentWeights, healthy, share>>
    <2>1. Calls' = Calls
      BY <1>3, CallsTotal, SumsAreTotals
    <2> QED
      BY <1>1, <1>3, <2>1 DEF Cycle
  <1>4. CASE NextTarget
    <2>1. 1 \in Targets
      BY <1>0 DEF Targets
    <2>2. /\ Chooses(Best, Targets, currentWeights, currentWeights')
          /\ share' = Served(Best)
      BY <1>0, <1>1, <1>2, <1>4, <2>1, NextChooses
    <2>3. PICK b \in Targets : b = Best
      BY <2>2 DEF Chooses
    <2>4. Chooses(b, Targets, currentWeights, currentWeights')
      BY <2>2, <2>3
    <2>5. PICK s \in [Targets -> Nat], n \in Nat :
              /\ n < W
              /\ n = Total(s, Targets)
              /\ \A i \in Targets : currentWeights[i] = n * Weight[i] - s[i] * W
              /\ Served(b) = [s EXCEPT ![b] = @ + 1]
      BY <1>1, CycleServes
    <2>6. share' = [s EXCEPT ![b] = @ + 1]
      BY <2>2, <2>3, <2>5
    <2>7. Calls' = n + 1
      <3>1. Calls' = Total(share', Targets)
        BY CallsTotal
      <3> QED
        BY <2>5, <2>6, <3>1, OneMoreCall
    <2>8. healthy' = healthy
      BY <1>4 DEF NextTarget, hcVars
    <2>9. \A i \in Targets :
              currentWeights'[i] = IF i = b THEN currentWeights[i] + Weight[i] - W
                                            ELSE currentWeights[i] + Weight[i]
      <3>1. \A i \in Targets : Lifted(currentWeights)[i] = currentWeights[i] + Weight[i]
        BY DEF Lifted
      <3>2. \A i \in Targets :
                currentWeights'[i] = IF i = b THEN Lifted(currentWeights)[i] - W
                                              ELSE Lifted(currentWeights)[i]
        BY <2>4, Zenon DEF Chooses, W
      <3> QED
        BY <1>0, <3>1, <3>2
    <2>10. ASSUME NEW i \in Targets
           PROVE  currentWeights'[i] = Calls' * Weight[i] - share'[i] * W
      <3>1. PICK x \in Int, y \in Int : x = Weight[i] /\ y = s[i]
        BY <1>0
      <3>2. currentWeights[i] = n * x - y * W
        BY <2>5, <3>1
      <3>3. (n + 1) * x = n * x + x /\ (y + 1) * W = y * W + W
        BY <1>0
      <3>4. CASE i = b
        <4>1. currentWeights'[i] = currentWeights[i] + x - W /\ share'[i] = y + 1
          BY <2>6, <2>9, <3>1, <3>4
        <4>2. currentWeights'[i] = (n + 1) * x - (y + 1) * W
          BY <1>0, <3>2, <3>3, <4>1
        <4> QED
          BY <2>7, <3>1, <4>1, <4>2
      <3>5. CASE i # b
        <4>1. currentWeights'[i] = currentWeights[i] + x /\ share'[i] = y
          BY <2>6, <2>9, <3>1, <3>5
        <4>2. currentWeights'[i] = (n + 1) * x - y * W
          BY <1>0, <3>2, <3>3, <4>1
        <4> QED
          BY <2>7, <3>1, <4>1, <4>2
      <3> QED
        BY <3>4, <3>5
    <2>11. /\ Total(Lifted(currentWeights), Targets) = W
           /\ Total(currentWeights', Targets) = 0
      <3>1. Total(Lifted(currentWeights), Targets) = Total(currentWeights, Targets) + W
        BY <1>0, LiftedTotal DEF W
      <3>2. Total(currentWeights', Targets)
                = Total(Lifted(currentWeights), Targets) - W
        BY <2>4, ChosenTotal DEF W
      <3>3. Total(currentWeights, Targets) = 0
        BY <1>1 DEF Cycle
      <3> QED
        BY <1>0, <3>1, <3>2, <3>3
    <2>12. currentWeights[b] + Weight[b] > 0
      <3>1. PICK r \in Int : r = Lifted(currentWeights)[b]
        BY <1>0, LiftedTotal
      <3>2. \A i \in Targets : /\ Lifted(currentWeights)[i] \in Int
                               /\ Lifted(currentWeights)[i] <= r
        BY <1>0, <2>4, <3>1, LiftedTotal DEF Chooses
      <3>3. Total(Lifted(currentWeights), Targets) <= N * r
        BY <3>2, TargetsFinite, TotalAtMost
      <3>4. r > 0
        BY <1>0, <2>11, <3>3
      <3> QED
        BY <3>1, <3>4 DEF Lifted
    <2>13. ASSUME NEW i \in Targets PROVE -W < currentWeights'[i]
      <3>1. currentWeights[i] \in Int /\ Weight[i] \in Int /\ Weight[i] > 0
        BY <1>0
      <3>2. -W < currentWeights[i]
        BY <1>1 DEF Cycle
      <3> QED
        BY <1>0, <2>9, <2>12, <3>1, <3>2
    <2>14. OwedWithin(N, currentWeights', Targets)
      <3>1. OwedWithin(N, currentWeights, Targets) /\ N \in Int
        BY <1>0, <1>1 DEF Cycle
      <3> QED
        BY <2>4, <3>1, OwedStep
    <2>15. Calls' \in 0 .. W
      BY <1>0, <2>5, <2>7
    <2>16. \A i \in Targets : healthy'[i]
      BY <1>1, <2>8 DEF Cycle
    <2> QED
      BY <2>10, <2>11, <2>13, <2>14, <2>15, <2>16
  <1>5. CASE CheckHealth
    <2>1. healthy' = healthy /\ share' = share
      BY <1>5 DEF CheckHealth
    <2>2. \A i \in Targets : currentWeights'[i] = currentWeights[i]
      BY <1>5, <2>1, Zenon DEF CheckHealth, WeightsOfUp
    <2>3. currentWeights' = currentWeights
      BY <1>0, <2>2
    <2> QED
      BY <1>3, <2>1, <2>3
  <1> QED
    BY <1>3, <1>4, <1>5 DEF Next, vars, history, hcVars

\* For any number of targets and any weights: as long as no target has gone
\* down, none is a whole call ahead of its share, none is further behind than
\* half a call for each of the others, and each has had its weight in calls
\* when the cycle ends.
THEOREM AlwaysSmooth == Spec => []Smooth
  <1>1. Init => Cycle
    <2> SUFFICES ASSUME Init PROVE Cycle
      OBVIOUS
    <2>0. W \in Nat \ {0} /\ N \in Int /\ N >= N
      BY WeightFacts, TargetsAssumption
    <2>1. \A i \in Targets : currentWeights[i] = 0 /\ share[i] = 0 /\ healthy[i]
      BY DEF Init, NoCalls, HCInit
    <2>2. Total(currentWeights, Targets) = 0 /\ OwedWithin(N, currentWeights, Targets)
      BY <2>0, <2>1, ZeroWithin
    <2>3. Calls = 0
      BY <2>0, <2>1, ZeroWithin, SumsAreTotals
    <2>4. \A i \in Targets : currentWeights[i] = 0 * Weight[i] - share[i] * W
      BY <2>0, <2>1, WeightFacts
    <2> QED
      BY <2>0, <2>1, <2>2, <2>3, <2>4 DEF Cycle
  <1>2. TypeOK /\ Cycle => Smooth
    <2> SUFFICES ASSUME TypeOK, Cycle, settled, NEW i \in Targets
                 PROVE  /\ share[i] * W - Calls * Weight[i] < W
                        /\ -((N - 1) * W) <= 2 * (share[i] * W - Calls * Weight[i])
                        /\ Calls = W => share[i] = Weight[i]
      BY DEF Smooth, W
    <2>0. N \in Nat \ {0} /\ W \in Nat /\ Weight[i] \in Int
      BY TargetsAssumption, WeightFacts
    <2>1. currentWeights[i] \in Int /\ share[i] \in Int /\ Calls \in Int
      BY DEF TypeOK, Cycle
    <2>2. /\ currentWeights[i] = Calls * Weight[i] - share[i] * W
          /\ -W < currentWeights[i]
      BY DEF Cycle
    <2>3. PICK ahead \in Int : ahead = share[i] * W - Calls * Weight[i]
      BY <2>0, <2>1
    <2>4. currentWeights[i] = -ahead
      BY <2>0, <2>1, <2>2, <2>3
    <2>5. 2 * currentWeights[i] <= Room(N, 1)
      <3>1. Total(currentWeights, {i}) = currentWeights[i]
        BY <2>1, TotalOne
      <3>2. Cardinality({i}) = 1 /\ {i} \in SUBSET Targets
        BY FS_Singleton
      <3> QED
        BY <3>1, <3>2 DEF Cycle, OwedWithin
    <2>6. Room(N, 1) = (N - 1) * W
      BY <2>0 DEF Room
    <2>7. PICK x \in Int : x = (N - 1) * W
      BY <2>0
    <2>8. ahead < W /\ -x <= 2 * ahead
      BY <2>0, <2>2, <2>4, <2>5, <2>6, <2>7
    <2>9. Calls = W => share[i] = Weight[i]
      BY FullCycle
    <2> QED
      BY <2>3, <2>7, <2>8, <2>9
  <1> QED
    BY <1>1, <1>2, CycleStep, TypeCorrect, PTL DEF Spec
=============================================================================
