------------------------ MODULE CircuitBreakerProofs ------------------------
(***************************************************************************)
(* Proofs about CircuitBreaker, for every set of requests, every breaker   *)
(* configuration and every bound.                                          *)
(***************************************************************************)
EXTENDS CircuitBreaker, ArithmeticLemmas

\* The first n natural numbers from 1 are n.
LEMMA UpTo ==
    ASSUME NEW n \in Nat
    PROVE  IsFiniteSet(1..n) /\ Cardinality(1..n) = n
<1>1. /\ IsFiniteSet(1..n)
      /\ Cardinality(1..n) = IF 1 > n THEN 0 ELSE n - 1 + 1
  BY FS_Interval
<1> QED
  BY <1>1

-----------------------------------------------------------------------------
(***************************************************************************)
(* The sliding window.                                                     *)
(***************************************************************************)

\* The failure list is in the order of its time stamps, the oldest first:
\* onFailure appends under cb.mu, and the clock does not go back.
FailuresInOrder ==
    \A i, j \in DOMAIN failures : i <= j => failures[j] <= failures[i]

\* How many entries of a list have expired: between none and all.
LEMMA ExpiredCount ==
    ASSUME NEW fs \in Seq(Ages)
    PROVE  /\ IsFiniteSet(Expired(fs))
           /\ Cardinality(Expired(fs)) \in 0..Len(fs)
<1>1. Expired(fs) \subseteq 1..Len(fs)
  BY DEF Expired
<1>2. IsFiniteSet(1..Len(fs)) /\ Cardinality(1..Len(fs)) = Len(fs)
  BY UpTo
<1>3. IsFiniteSet(Expired(fs)) /\ Cardinality(Expired(fs)) <= Len(fs)
  BY <1>1, <1>2, FS_Subset
<1> QED
  BY <1>3, FS_CardinalityType

\* onFailure's cleanup yields a list of time stamps, no longer than before.
LEMMA CleanedType ==
    ASSUME NEW fs \in Seq(Ages)
    PROVE  /\ Cleaned(fs) \in Seq(Ages)
           /\ DOMAIN Cleaned(fs) = 1..(Len(fs) - Cardinality(Expired(fs)))
           /\ \A i \in DOMAIN Cleaned(fs) :
                 Cleaned(fs)[i] = fs[i + Cardinality(Expired(fs))]
<1> DEFINE k == Cardinality(Expired(fs))
<1>1. k \in 0..Len(fs)
  BY ExpiredCount
<1> HIDE DEF k
<1>2. /\ SubSeq(fs, k + 1, Len(fs)) \in Seq(Ages)
      /\ DOMAIN SubSeq(fs, k + 1, Len(fs)) = 1..(Len(fs) - k)
      /\ \A i \in 1..(Len(fs) - k) : SubSeq(fs, k + 1, Len(fs))[i] = fs[i + k]
  BY <1>1
<1> QED
  BY <1>2 DEF Cleaned, k

\* In a list in time order, the entries that expired are the first ones.
LEMMA ExpiredFirst ==
    ASSUME NEW fs \in Seq(Ages),
           \A i, j \in DOMAIN fs : i <= j => fs[j] <= fs[i],
           NEW n \in DOMAIN fs
    PROVE  fs[n] < FailureWindow <=> n > Cardinality(Expired(fs))
<1> DEFINE k == Cardinality(Expired(fs))
<1>1. k \in 0..Len(fs) /\ IsFiniteSet(Expired(fs))
  BY ExpiredCount
<1>2. \A m \in DOMAIN fs : fs[m] \in Int /\ FailureWindow \in Int
  BY ConfigAssumption, BoundsAssumption DEF Ages
<1>3. CASE fs[n] < FailureWindow
  <2>1. Expired(fs) \subseteq 1..(n - 1)
    <3> SUFFICES ASSUME NEW m \in Expired(fs) PROVE m \in 1..(n - 1)
      OBVIOUS
    <3>1. m \in DOMAIN fs /\ fs[m] >= FailureWindow
      BY DEF Expired
    <3>2. n <= m => fs[m] <= fs[n]
      BY <3>1
    <3>3. ~(n <= m)
      BY <1>2, <1>3, <3>1, <3>2
    <3> QED
      BY <3>1, <3>3
  <2>2. n - 1 \in Nat
    OBVIOUS
  <2>3. IsFiniteSet(1..(n - 1)) /\ Cardinality(1..(n - 1)) = n - 1
    BY <2>2, UpTo
  <2>4. k <= n - 1
    BY <2>1, <2>3, FS_Subset
  <2> QED
    BY <1>1, <1>3, <2>4
<1>4. CASE ~(fs[n] < FailureWindow)
  <2>1. 1..n \subseteq Expired(fs)
    <3> SUFFICES ASSUME NEW m \in 1..n PROVE m \in Expired(fs)
      OBVIOUS
    <3>1. m \in DOMAIN fs /\ m <= n
      OBVIOUS
    <3>2. fs[n] <= fs[m]
      BY <3>1
    <3>3. fs[m] >= FailureWindow
      BY <1>2, <1>4, <3>1, <3>2
    <3> QED
      BY <3>1, <3>3 DEF Expired
  <2>2. Cardinality(1..n) = n
    BY UpTo
  <2>3. n <= k
    BY <1>1, <2>1, <2>2, FS_Subset
  <2> QED
    BY <1>1, <1>4, <2>3
<1> QED
  BY <1>3, <1>4

\* What the cleanup leaves of a list in time order lies within the window, and
\* is in time order again.
LEMMA CleanedRecent ==
    ASSUME NEW fs \in Seq(Ages),
           \A i, j \in DOMAIN fs : i <= j => fs[j] <= fs[i]
    PROVE  /\ \A i \in DOMAIN Cleaned(fs) : Cleaned(fs)[i] < FailureWindow
           /\ \A i, j \in DOMAIN Cleaned(fs) :
                 i <= j => Cleaned(fs)[j] <= Cleaned(fs)[i]
<1> DEFINE k == Cardinality(Expired(fs))
<1>1. k \in 0..Len(fs) /\ IsFiniteSet(Expired(fs))
  BY ExpiredCount
<1>2. \A n \in 1..Len(fs) : n > k => fs[n] < FailureWindow
  BY ExpiredFirst
<1> HIDE DEF k
<1>3. /\ DOMAIN Cleaned(fs) = 1..(Len(fs) - k)
      /\ \A i \in DOMAIN Cleaned(fs) : Cleaned(fs)[i] = fs[i + k]
  BY CleanedType DEF k
<1>4. \A i \in DOMAIN Cleaned(fs) : i + k \in 1..Len(fs) /\ i + k > k
  BY <1>1, <1>3
<1>5. ASSUME NEW i \in DOMAIN Cleaned(fs) PROVE Cleaned(fs)[i] < FailureWindow
  BY <1>2, <1>3, <1>4
<1>6. ASSUME NEW i \in DOMAIN Cleaned(fs), NEW j \in DOMAIN Cleaned(fs), i <= j
      PROVE  Cleaned(fs)[j] <= Cleaned(fs)[i]
  <2>1. i + k \in DOMAIN fs /\ j + k \in DOMAIN fs
    BY <1>4
  <2>2. i + k <= j + k
    BY <1>1, <1>3, <1>6
  <2>3. fs[j + k] <= fs[i + k]
    BY <2>1, <2>2
  <2> QED
    BY <1>3, <2>3
<1> QED
  BY <1>5, <1>6

\* What onFailure's loop makes of entry n, if f is what it made of those before.
KeptAt(fs, f, n) ==
    IF n = 0 THEN <<>>
    ELSE IF fs[n] < FailureWindow THEN Append(f[n - 1], fs[n])
    ELSE f[n - 1]

\* f is what the loop has kept after each number of entries.
IsKept(fs, f) == f = [n \in 0..Len(fs) |-> KeptAt(fs, f, n)]

\* The first n entries but the first k.
Between(fs, k, n) == [i \in 1..(n - k) |-> fs[i + k]]

\* One entry more.
LEMMA BetweenNext ==
    ASSUME NEW fs \in Seq(Ages), NEW k \in Nat, NEW n \in 1..Len(fs), n > k
    PROVE  Between(fs, k, n) = Append(Between(fs, k, n - 1), fs[n])
<1>1. PICK m \in Nat : m = n - 1 - k
  OBVIOUS
<1>2. PICK b : b = Between(fs, k, n - 1)
  OBVIOUS
<1>3. b = [i \in 1..m |-> fs[i + k]]
  BY <1>1, <1>2 DEF Between
<1>4. \A i \in 1..m : fs[i + k] \in Ages
  BY <1>1
<1>5. b \in Seq(Ages) /\ Len(b) = m /\ \A i \in 1..m : b[i] = fs[i + k]
  BY <1>3, <1>4
<1>6. fs[n] \in Ages
  OBVIOUS
<1>7. /\ Append(b, fs[n]) \in Seq(Ages)
      /\ Len(Append(b, fs[n])) = m + 1
      /\ \A i \in 1..(m + 1) : Append(b, fs[n])[i] = IF i = m + 1 THEN fs[n] ELSE b[i]
  BY <1>5, <1>6
<1>8. \A i \in 1..(m + 1) : Append(b, fs[n])[i] = fs[i + k]
  BY <1>1, <1>5, <1>7
<1>9. Append(b, fs[n]) = [i \in 1..(m + 1) |-> fs[i + k]]
  BY <1>7, <1>8
<1>10. m + 1 = n - k
  BY <1>1
<1> QED
  BY <1>2, <1>9, <1>10 DEF Between

\* Of a list in time order, onFailure's loop keeps what the cleanup does.
LEMMA KeptIsCleaned ==
    ASSUME NEW fs \in Seq(Ages),
           \A i, j \in DOMAIN fs : i <= j => fs[j] <= fs[i]
    PROVE  Kept(fs)[Len(fs)] = Cleaned(fs)
<1>0. PICK k \in 0..Len(fs) : k = Cardinality(Expired(fs))
  BY ExpiredCount
<1>1. PICK g : g = [n \in 0..Len(fs) |-> Between(fs, k, n)]
  OBVIOUS
<1>2. ASSUME NEW n \in 0..Len(fs), NEW f, n > 0 => f[n - 1] = Between(fs, k, n - 1)
      PROVE  KeptAt(fs, f, n) = Between(fs, k, n)
  <2>1. ASSUME NEW m \in 0..k PROVE Between(fs, k, m) = <<>>
    <3>1. 1..(m - k) = {}
      OBVIOUS
    <3>2. Between(fs, k, m) = [i \in {} |-> fs[i + k]]
      BY <3>1 DEF Between
    <3> QED
      BY <3>2
  <2>2. CASE n = 0
    BY <2>1, <2>2 DEF KeptAt
  <2>3. CASE n > 0 /\ n <= k
    <3>1. n \in DOMAIN fs /\ ~(fs[n] < FailureWindow)
      BY <1>0, <2>3, ExpiredFirst
    <3>2. n - 1 \in 0..k /\ n \in 0..k
      BY <2>3
    <3> QED
      BY <1>2, <2>1, <2>3, <3>1, <3>2 DEF KeptAt
  <2>4. CASE n > k
    <3>1. n \in DOMAIN fs /\ n \in 1..Len(fs) /\ n # 0 /\ n > 0
      BY <2>4
    <3>2. fs[n] < FailureWindow
      BY <1>0, <2>4, <3>1, ExpiredFirst
    <3>3. KeptAt(fs, f, n) = Append(Between(fs, k, n - 1), fs[n])
      BY <1>2, <3>1, <3>2 DEF KeptAt
    <3>4. k \in Nat
      OBVIOUS
    <3>5. Between(fs, k, n) = Append(Between(fs, k, n - 1), fs[n])
      BY <2>4, <3>1, <3>4, BetweenNext
    <3> QED
      BY <3>3, <3>5
  <2> QED
    BY <2>2, <2>3, <2>4
<1>3. IsKept(fs, g)
  <2>1. ASSUME NEW n \in 0..Len(fs) PROVE g[n] = KeptAt(fs, g, n)
    <3>1. n > 0 => g[n - 1] = Between(fs, k, n - 1)
      BY <1>1
    <3>2. KeptAt(fs, g, n) = Between(fs, k, n)
      BY <1>2, <3>1
    <3> QED
      BY <1>1, <3>2
  <2> QED
    BY <1>1, <2>1 DEF IsKept
<1>4. Kept(fs) = CHOOSE f : IsKept(fs, f)
  BY Zenon DEF Kept, IsKept, KeptAt
<1>5. PICK f : f = Kept(fs) /\ IsKept(fs, f)
  BY <1>3, <1>4
<1>6. \A n \in 0..Len(fs) : f[n] = KeptAt(fs, f, n)
  BY <1>5 DEF IsKept
<1> DEFINE P == {n \in Nat : n <= Len(fs) => f[n] = Between(fs, k, n)}
<1>7. 0 \in P
  <2>1. 0 \in 0..Len(fs) /\ ~(0 > 0)
    OBVIOUS
  <2>2. KeptAt(fs, f, 0) = Between(fs, k, 0)
    BY <1>2, <2>1
  <2> QED
    BY <1>6, <2>1, <2>2
<1>8. ASSUME NEW n \in Nat, n \in P PROVE n + 1 \in P
  <2> SUFFICES ASSUME n + 1 <= Len(fs) PROVE f[n + 1] = Between(fs, k, n + 1)
    OBVIOUS
  <2>1. PICK m \in 0..Len(fs) : m = n + 1
    OBVIOUS
  <2>2. m > 0 => f[m - 1] = Between(fs, k, m - 1)
    BY <1>8, <2>1
  <2>3. KeptAt(fs, f, m) = Between(fs, k, m)
    BY <1>2, <2>2
  <2> QED
    BY <1>6, <2>1, <2>3
<1> HIDE DEF P
<1>9. Nat \subseteq P
  BY <1>7, <1>8, NaturalInduction
<1>10. f[Len(fs)] = Between(fs, k, Len(fs))
  BY <1>9 DEF P
<1>11. Cleaned(fs) = Between(fs, k, Len(fs))
  BY <1>0, CleanedType DEF Between
<1> QED
  BY <1>5, <1>10, <1>11

-----------------------------------------------------------------------------
(***************************************************************************)
(* Type correctness.                                                       *)
(***************************************************************************)

\* What arithmetic on ages and saturating counters yields.
LEMMA CountingType ==
    /\ \A a \in Ages : Older(a) \in Ages
    /\ \A c \in Counts : Bump(c) \in Counts
    /\ 0 \in Ages /\ 0 \in Counts /\ 0 \in 0..Limit
BY ConfigAssumption, BoundsAssumption DEF Older, Ages, Bump, Counts, Limit

\* Moving one request along keeps pc a function of the requests.
LEMMA StepType ==
    ASSUME TypeOK, NEW r \in Requests, NEW from,
           NEW to \in {"idle", "admitted", "running", "rejected"},
           Step(r, from, to)
    PROVE  pc' \in [Requests -> {"idle", "admitted", "running", "rejected"}]
BY DEF TypeOK, Step

\* Every step of every goroutine keeps the types.
LEMMA TypeStep == TypeOK /\ [Next]_vars => TypeOK'
<1> SUFFICES ASSUME TypeOK, [Next]_vars
             PROVE  TypeOK'
  OBVIOUS
<1> USE CountingType
<1>1. ASSUME NEW r \in Requests, AdmitClosed(r)
      PROVE  TypeOK'
  BY <1>1, StepType DEF TypeOK, AdmitClosed, stats, trial
<1>2. ASSUME NEW r \in Requests, AdmitFirstProbe(r)
      PROVE  TypeOK'
  BY <1>2, StepType DEF TypeOK, AdmitFirstProbe, TransitionTo, FreeSlots, stats
<1>3. ASSUME NEW r \in Requests, AdmitProbe(r)
      PROVE  TypeOK'
  <2>1. halfOpenReqs' \in 0..Limit
    BY <1>3, ConfigAssumption
       DEF TypeOK, AdmitProbe, SlotFree, TakeSlot, Limit
  <2> QED
    BY <1>3, <2>1, StepType DEF TypeOK, AdmitProbe, stats
<1>4. ASSUME NEW r \in Requests, Reject(r)
      PROVE  TypeOK'
  BY <1>4, StepType DEF TypeOK, Reject, stats, trial
<1>5. ASSUME NEW r \in Requests, ReturnRejected(r)
      PROVE  TypeOK'
  BY <1>5, StepType DEF TypeOK, ReturnRejected, stats, trial
<1>6. ASSUME NEW r \in Requests, CountRequest(r)
      PROVE  TypeOK'
  BY <1>6, StepType DEF TypeOK, CountRequest, trial
<1>7. ASSUME NEW r \in Requests, OnSuccess(r)
      PROVE  TypeOK'
  <2>1. /\ state' \in {"Closed", "Open", "HalfOpen"}
        /\ sinceChange' \in Ages
        /\ failures' \in Seq(Ages)
    <3>1. CASE SuccessCloses
      BY <1>7, <3>1 DEF OnSuccess, TransitionTo, ClearWindow
    <3>2. CASE ~SuccessCloses
      BY <1>7, <3>2 DEF TypeOK, OnSuccess
    <3> QED
      BY <3>1, <3>2
  <2> QED
    BY <1>7, <2>1, StepType DEF TypeOK, OnSuccess, EndTrial
<1>8. ASSUME NEW r \in Requests, OnFailure(r)
      PROVE  TypeOK'
  <2>1. failures' \in Seq(Ages)
    <3>1. Append(failures, 0) \in Seq(Ages)
      BY DEF TypeOK
    <3> QED
      BY <1>8, <3>1, CleanedType DEF OnFailure
  <2>2. state' \in {"Closed", "Open", "HalfOpen"} /\ sinceChange' \in Ages
    BY <1>8 DEF TypeOK, OnFailure, TransitionTo
  <2> QED
    BY <1>8, <2>1, <2>2, StepType DEF TypeOK, OnFailure, EndTrial
<1>9. ASSUME NEW r \in Requests, Panic(r)
      PROVE  TypeOK'
  BY <1>9, StepType DEF TypeOK, Panic, stats
<1>10. CASE Reset
  BY <1>10
     DEF TypeOK, Reset, TransitionTo, FreeSlots, ClearWindow, EndTrial
<1>11. CASE Tick
  <2>1. [i \in DOMAIN failures |-> Older(failures[i])] \in Seq(Ages)
    BY DEF TypeOK
  <2> QED
    BY <1>11, <2>1 DEF TypeOK, Tick, stats, trial
<1>12. CASE UNCHANGED vars
  BY <1>12 DEF TypeOK, vars, stats, trial
<1> QED
  BY <1>1, <1>2, <1>3, <1>4, <1>5, <1>6, <1>7, <1>8, <1>9, <1>10, <1>11,
     <1>12 DEF Next, Execute, BeforeRequest, Finish

\* The fields of the breaker keep their types, and halfOpenReqs stays within
\* the configured limit, for every number of concurrent requests.
THEOREM TypeCorrect == Spec => []TypeOK
<1>1. Init => TypeOK
  BY CountingType DEF Init, TypeOK
<1> QED
  BY <1>1, TypeStep, PTL DEF Spec

-----------------------------------------------------------------------------
(***************************************************************************)
(* The window and the state.  ClosedBelowThreshold and                     *)
(* CountsThisPeriodOnly need no strengthening; that what the cleanup       *)
(* leaves is recent needs the order of the list.                           *)
(***************************************************************************)
WindowInv == FailuresInOrder /\ ClosedBelowThreshold /\ CountsThisPeriodOnly

\* A failure recorded now keeps the list in order, and all of it recent.
LEMMA RecordedFailure ==
    ASSUME TypeOK, FailuresInOrder, NEW r, OnFailure(r)
    PROVE  /\ failures' \in Seq(Ages)
           /\ FailuresInOrder'
           /\ \A i \in DOMAIN failures' : failures'[i] < FailureWindow
           /\ \A i \in DOMAIN failures' :
                 failures'[i] = 0 \/ \E j \in DOMAIN failures :
                                        failures'[i] = failures[j]
<1> DEFINE fs == Append(failures, 0)
<1>1. /\ fs \in Seq(Ages)
      /\ \A i, j \in DOMAIN fs : i <= j => fs[j] <= fs[i]
      /\ \A i \in DOMAIN fs : fs[i] = 0 \/ \E j \in DOMAIN failures :
                                              fs[i] = failures[j]
  BY BoundsAssumption DEF TypeOK, FailuresInOrder, Ages
<1>2. failures' = Cleaned(fs)
  BY DEF OnFailure
<1> HIDE DEF fs
<1>3. Cleaned(fs) \in Seq(Ages)
  BY <1>1, CleanedType
<1>4. /\ \A i \in DOMAIN Cleaned(fs) : Cleaned(fs)[i] < FailureWindow
      /\ \A i, j \in DOMAIN Cleaned(fs) :
            i <= j => Cleaned(fs)[j] <= Cleaned(fs)[i]
  BY <1>1, CleanedRecent
<1>5. \A i \in DOMAIN Cleaned(fs) :
         \E n \in DOMAIN fs : Cleaned(fs)[i] = fs[n]
  <2> DEFINE k == Cardinality(Expired(fs))
  <2>1. k \in 0..Len(fs)
    BY <1>1, ExpiredCount
  <2>2. /\ DOMAIN Cleaned(fs) = 1..(Len(fs) - k)
        /\ \A i \in DOMAIN Cleaned(fs) : Cleaned(fs)[i] = fs[i + k]
    BY <1>1, CleanedType
  <2> HIDE DEF k
  <2>3. \A i \in DOMAIN Cleaned(fs) : i + k \in DOMAIN fs
    BY <1>1, <2>1, <2>2
  <2> QED
    BY <2>2, <2>3
<1> QED
  BY <1>1, <1>2, <1>3, <1>4, <1>5 DEF FailuresInOrder

\* Every step keeps the failures in order, below the threshold while closed,
\* and of the current closed period only.
LEMMA WindowStep == TypeOK /\ WindowInv /\ [Next]_vars => WindowInv'
<1> SUFFICES ASSUME TypeOK, WindowInv, [Next]_vars
             PROVE  WindowInv'
  OBVIOUS
<1> USE DEF WindowInv
<1>1. ASSUME UNCHANGED <<state, sinceChange, failures>>
      PROVE  WindowInv'
  BY <1>1 DEF FailuresInOrder, ClosedBelowThreshold, CountsThisPeriodOnly
<1>2. ASSUME NEW r \in Requests, AdmitFirstProbe(r)
      PROVE  WindowInv'
  BY <1>2 DEF AdmitFirstProbe, TransitionTo, FailuresInOrder,
              ClosedBelowThreshold, CountsThisPeriodOnly
<1>3. ASSUME failures' = <<>>
      PROVE  WindowInv'
  BY <1>3 DEF FailuresInOrder, ClosedBelowThreshold, CountsThisPeriodOnly
<1>4. ASSUME NEW r \in Requests, OnSuccess(r)
      PROVE  WindowInv'
  <2>1. CASE SuccessCloses
    BY <1>3, <1>4, <2>1 DEF OnSuccess, ClearWindow
  <2>2. CASE ~SuccessCloses
    BY <1>1, <1>4, <2>2 DEF OnSuccess
  <2> QED
    BY <2>1, <2>2
<1>5. ASSUME NEW r \in Requests, OnFailure(r)
      PROVE  WindowInv'
  <2>1. FailuresInOrder'
    BY <1>5, RecordedFailure
  <2>2. ClosedBelowThreshold'
    <3>1. Len(failures') \in Nat
      BY <1>5, RecordedFailure
    <3> QED
      BY <1>5, <3>1, ConfigAssumption
         DEF OnFailure, FailureOpens, Full, TransitionTo, TypeOK,
             ClosedBelowThreshold
  <2>3. CountsThisPeriodOnly'
    <3> SUFFICES ASSUME state' = "Closed", NEW i \in DOMAIN failures'
                 PROVE  failures'[i] <= sinceChange'
      BY DEF CountsThisPeriodOnly
    <3>1. state = "Closed" /\ sinceChange' = sinceChange
      BY <1>5 DEF OnFailure, FailureOpens, TransitionTo, TypeOK
    <3>2. failures'[i] = 0 \/ \E j \in DOMAIN failures :
                                 failures'[i] = failures[j]
      BY <1>5, RecordedFailure
    <3> QED
      BY <3>1, <3>2 DEF CountsThisPeriodOnly, TypeOK, Ages
  <2> QED
    BY <2>1, <2>2, <2>3
<1>6. CASE Reset
  BY <1>3, <1>6 DEF Reset, ClearWindow
<1>7. CASE Tick
  <2>1. /\ failures' = [i \in DOMAIN failures |-> Older(failures[i])]
        /\ sinceChange' = Older(sinceChange)
        /\ state' = state
    BY <1>7 DEF Tick
  <2>2. \A a, b \in Ages : a <= b => Older(a) <= Older(b)
    BY BoundsAssumption DEF Ages, Older
  <2>3. /\ \A i \in DOMAIN failures : failures[i] \in Ages
        /\ sinceChange \in Ages
    BY DEF TypeOK
  <2>4. FailuresInOrder' /\ CountsThisPeriodOnly'
    BY <2>1, <2>2, <2>3 DEF FailuresInOrder, CountsThisPeriodOnly
  <2>5. Len(failures') = Len(failures) /\ (failures = <<>> => failures' = <<>>)
    BY <2>1 DEF TypeOK
  <2> QED
    BY <2>1, <2>4, <2>5 DEF ClosedBelowThreshold
<1>8. CASE UNCHANGED vars
  BY <1>1, <1>8 DEF vars
<1> QED
  BY <1>1, <1>2, <1>4, <1>5, <1>6, <1>7, <1>8
     DEF Next, Execute, BeforeRequest, Finish, AdmitClosed, AdmitProbe, Reject,
         ReturnRejected, CountRequest, Panic

\* Closed, a breaker has room in its window, and counts nothing that happened
\* before it closed.
THEOREM ClosedWindow == Spec => [](ClosedBelowThreshold /\ CountsThisPeriodOnly)
<1>1. Init => WindowInv
  BY DEF Init, WindowInv, FailuresInOrder, ClosedBelowThreshold,
         CountsThisPeriodOnly
<1>2. WindowInv => ClosedBelowThreshold /\ CountsThisPeriodOnly
  BY DEF WindowInv
<1> QED
  BY <1>1, <1>2, WindowStep, TypeCorrect, PTL DEF Spec

\* Whatever the window holds when a request fails, dropping its expired front is
\* what onFailure's loop computes.
THEOREM CleanupAlwaysFilters == Spec => []CleanupIsFilter
<1>1. TypeOK /\ WindowInv => CleanupIsFilter
  <2> SUFFICES ASSUME TypeOK, FailuresInOrder
               PROVE  Cleaned(Append(failures, 0))
                        = Kept(Append(failures, 0))[Len(Append(failures, 0))]
    BY DEF WindowInv, CleanupIsFilter
  <2>1. failures \in Seq(Ages) /\ 0 \in Ages /\ \A a \in Ages : a \in Int /\ 0 <= a
    BY BoundsAssumption DEF TypeOK, Ages
  <2>2. PICK fs \in Seq(Ages) : fs = Append(failures, 0)
    <3>1. Append(failures, 0) \in Seq(Ages)
      BY <2>1
    <3> QED
      BY <3>1, Zenon
  <2>3. /\ DOMAIN fs = 1..(Len(failures) + 1)
        /\ fs[Len(failures) + 1] = 0
        /\ \A i \in DOMAIN failures : fs[i] = failures[i]
    BY <2>1, <2>2
  <2>4. ASSUME NEW i \in DOMAIN fs, NEW j \in DOMAIN fs, i <= j
        PROVE  fs[j] <= fs[i]
    <3>1. CASE j = Len(failures) + 1
      BY <2>1, <2>3, <3>1
    <3>2. CASE j # Len(failures) + 1
      <4>1. i \in DOMAIN failures /\ j \in DOMAIN failures
        BY <2>1, <2>3, <2>4, <3>2
      <4>2. failures[j] <= failures[i]
        BY <2>4, <4>1 DEF FailuresInOrder
      <4> QED
        BY <2>3, <4>1, <4>2
    <3> QED
      BY <3>1, <3>2
  <2>5. Kept(fs)[Len(fs)] = Cleaned(fs)
    BY <2>4, KeptIsCleaned
  <2> QED
    BY <2>2, <2>5
<1>2. Init => WindowInv
  BY DEF Init, WindowInv, FailuresInOrder, ClosedBelowThreshold, CountsThisPeriodOnly
<1> QED
  BY <1>1, <1>2, WindowStep, TypeCorrect, PTL DEF Spec

\* A breaker trips only on a window full of recent failures.
THEOREM RecentFailuresTrip == Spec => TripsOnRecentFailures
<1> DEFINE Trip == state = "Closed" /\ state' = "Open" =>
                     /\ Len(failures') >= FailureThreshold
                     /\ \A i \in DOMAIN failures' : failures'[i] < FailureWindow
<1>1. TypeOK /\ WindowInv /\ [Next]_vars => [Trip]_vars
  <2> SUFFICES ASSUME TypeOK, WindowInv, Next, state = "Closed", state' = "Open"
               PROVE  Trip
    OBVIOUS
  <2>1. PICK r \in Requests : OnFailure(r)
    BY DEF Next, Execute, BeforeRequest, Finish, AdmitClosed, AdmitFirstProbe,
           AdmitProbe, Reject, ReturnRejected, CountRequest, OnSuccess, Panic,
           SuccessCloses, TransitionTo, Reset, Tick
  <2>2. Len(failures') >= FailureThreshold
    BY <2>1 DEF OnFailure, FailureOpens, Full
  <2>3. \A i \in DOMAIN failures' : failures'[i] < FailureWindow
    BY <2>1, RecordedFailure DEF WindowInv
  <2> QED
    BY <2>2, <2>3
<1>2. Init => WindowInv
  BY DEF Init, WindowInv, FailuresInOrder, ClosedBelowThreshold,
         CountsThisPeriodOnly
<1> QED
  BY <1>1, <1>2, WindowStep, TypeCorrect, PTL DEF Spec, TripsOnRecentFailures

-----------------------------------------------------------------------------
(***************************************************************************)
(* The half-open trial.  The slots are accounted for only because probes   *)
(* holds no request that could be admitted again, and because nothing of a *)
(* trial is left when the breaker is not half-open.                        *)
(***************************************************************************)
InFlight == {r \in Requests : pc[r] \in {"admitted", "running"}}

TrialInv ==
    /\ SlotsAccountedFor
    /\ probes \subseteq InFlight
    /\ state # "HalfOpen" => probes = {} /\ lost = 0

\* Every step keeps the account of the half-open slots.
LEMMA TrialStep == TypeOK /\ TrialInv /\ [Next]_vars => TrialInv'
<1> SUFFICES ASSUME TypeOK, TrialInv, [Next]_vars
             PROVE  TrialInv'
  OBVIOUS
<1> USE DEF TrialInv, SlotsAccountedFor
<1>0. /\ IsFiniteSet(probes)
      /\ Cardinality(probes) \in Nat
  BY RequestsAssumption, FS_Subset, FS_CardinalityType DEF TypeOK
<1>2. ASSUME NEW r \in Requests, AdmitClosed(r)
      PROVE  TrialInv'
  BY <1>2 DEF AdmitClosed, Step, InFlight, TypeOK, trial
<1>3. ASSUME NEW r \in Requests, AdmitFirstProbe(r)
      PROVE  TrialInv'
  <2>1. Cardinality(probes') = 1
    BY <1>3, FS_Singleton DEF AdmitFirstProbe
  <2>2. probes' \subseteq InFlight'
    BY <1>3 DEF AdmitFirstProbe, Step, InFlight, TypeOK
  <2> QED
    BY <1>3, <2>1, <2>2 DEF AdmitFirstProbe, TransitionTo, FreeSlots
<1>4. ASSUME NEW r \in Requests, AdmitProbe(r)
      PROVE  TrialInv'
  <2>1. r \notin probes
    BY <1>4 DEF AdmitProbe, Step, InFlight
  <2>2. Cardinality(probes') = Cardinality(probes) + 1
    BY <1>0, <1>4, <2>1, FS_AddElement DEF AdmitProbe
  <2>3. probes' \subseteq InFlight'
    BY <1>4 DEF AdmitProbe, Step, InFlight, TypeOK
  <2> QED
    BY <1>0, <1>4, <2>2, <2>3 DEF AdmitProbe, TakeSlot, TypeOK
<1>5. ASSUME NEW r \in Requests, Reject(r)
      PROVE  TrialInv'
  BY <1>5 DEF Reject, Step, InFlight, TypeOK, trial
<1>6. ASSUME NEW r \in Requests, ReturnRejected(r)
      PROVE  TrialInv'
  BY <1>6 DEF ReturnRejected, Step, InFlight, TypeOK, trial
<1>7. ASSUME NEW r \in Requests, CountRequest(r)
      PROVE  TrialInv'
  BY <1>7 DEF CountRequest, Step, InFlight, TypeOK, trial
<1>8. ASSUME NEW r \in Requests, OnSuccess(r)
      PROVE  TrialInv'
  BY <1>8 DEF OnSuccess, SuccessCloses, TransitionTo, EndTrial
<1>9. ASSUME NEW r \in Requests, OnFailure(r)
      PROVE  TrialInv'
  BY <1>9 DEF OnFailure, FailureOpens, TransitionTo, EndTrial
<1>10. ASSUME NEW r \in Requests, Panic(r)
       PROVE  TrialInv'
  <2>1. Cardinality(probes') + lost' = Cardinality(probes) + lost
    <3>1. Cardinality(probes \ {r}) =
             IF r \in probes THEN Cardinality(probes) - 1
                            ELSE Cardinality(probes)
      BY <1>0, FS_RemoveElement
    <3>2. /\ probes' = probes \ {r}
          /\ lost' = IF r \in probes THEN lost + 1 ELSE lost
      BY <1>10 DEF Panic
    <3> QED
      BY <1>0, <3>1, <3>2 DEF TypeOK
  <2>2. probes' \subseteq InFlight'
    BY <1>10 DEF Panic, Step, InFlight, TypeOK
  <2>3. state # "HalfOpen" => probes' = {} /\ lost' = 0
    BY <1>10 DEF Panic
  <2> QED
    BY <1>10, <2>1, <2>2, <2>3 DEF Panic
<1>11. CASE Reset
  BY <1>11 DEF Reset, TransitionTo, EndTrial
<1>12. CASE Tick
  BY <1>12 DEF Tick, InFlight, trial
<1>13. CASE UNCHANGED vars
  BY <1>13 DEF vars, InFlight, trial
<1> QED
  BY <1>2, <1>3, <1>4, <1>5, <1>6, <1>7, <1>8, <1>9, <1>10, <1>11, <1>12,
     <1>13 DEF Next, Execute, BeforeRequest, Finish

\* A new breaker has handed out no slot.
LEMMA TrialInitially == Init => TrialInv
BY DEF Init, TrialInv, SlotsAccountedFor, InFlight

\* No half-open slot is leaked, except to a panic.
THEOREM SlotsAccounted == Spec => []SlotsAccountedFor
<1>1. TrialInv => SlotsAccountedFor
  BY DEF TrialInv
<1> QED
  BY <1>1, TrialInitially, TrialStep, TypeCorrect, PTL DEF Spec

\* However many requests race, a half-open period has at most one more than
\* HalfOpenMaxReqs in flight.
THEOREM ProbesLimited == Spec => []ProbeLimit
<1>1. TypeOK /\ TrialInv => ProbeLimit
  <2> SUFFICES ASSUME TypeOK, TrialInv
               PROVE  Cardinality(probes) <= Limit + 1
    BY DEF ProbeLimit
  <2>1. Cardinality(probes) \in Nat
    BY RequestsAssumption, FS_Subset, FS_CardinalityType DEF TypeOK
  <2>2. Limit \in Nat
    BY ConfigAssumption DEF Limit
  <2>3. CASE state = "HalfOpen"
    BY <2>1, <2>2, <2>3 DEF TypeOK, TrialInv, SlotsAccountedFor
  <2>4. CASE state # "HalfOpen"
    BY <2>2, <2>4, FS_EmptySet DEF TrialInv
  <2> QED
    BY <2>3, <2>4
<1> QED
  BY <1>1, TrialInitially, TrialStep, TypeCorrect, PTL DEF Spec

-----------------------------------------------------------------------------
(***************************************************************************)
(* The statistics.                                                         *)
(***************************************************************************)

\* How a step of one request changes the number of calls of fn under way.
LEMMA RunningCount ==
    ASSUME TypeOK, NEW r \in Requests, NEW from, NEW to, Step(r, from, to)
    PROVE  /\ Cardinality(Running) \in Nat
           /\ from # "running" /\ to = "running"
                => Cardinality(Running') = Cardinality(Running) + 1
           /\ from = "running" /\ to # "running"
                => Cardinality(Running) = Cardinality(Running') + 1
                   /\ Cardinality(Running') \in Nat
           /\ from # "running" /\ to # "running" => Running' = Running
<1>1. IsFiniteSet(Running) /\ Cardinality(Running) \in Nat
  BY RequestsAssumption, FS_Subset, FS_CardinalityType DEF Running
<1>2. ASSUME from # "running", to = "running"
      PROVE  Cardinality(Running') = Cardinality(Running) + 1
  <2>1. Running' = Running \cup {r} /\ r \notin Running
    BY <1>2 DEF Running, Step, TypeOK
  <2> QED
    BY <1>1, <2>1, FS_AddElement
<1>3. ASSUME from = "running", to # "running"
      PROVE  /\ Cardinality(Running) = Cardinality(Running') + 1
             /\ Cardinality(Running') \in Nat
  <2>1. Running' = Running \ {r} /\ r \in Running
    BY <1>3 DEF Running, Step, TypeOK
  <2>2. /\ IsFiniteSet(Running')
        /\ Cardinality(Running') = Cardinality(Running) - 1
    BY <1>1, <2>1, FS_RemoveElement
  <2> QED
    BY <1>1, <2>2, FS_CardinalityType
<1>4. from # "running" /\ to # "running" => Running' = Running
  BY DEF Running, Step, TypeOK
<1> QED
  BY <1>1, <1>2, <1>3, <1>4

\* Every step keeps the totals consistent with the calls under way.
LEMMA StatsStep == TypeOK /\ StatsConsistent /\ [Next]_vars => StatsConsistent'
<1> SUFFICES ASSUME TypeOK, StatsConsistent, [Next]_vars
             PROVE  StatsConsistent'
  OBVIOUS
<1> USE BoundsAssumption DEF StatsConsistent, Counts
<1>1. ASSUME UNCHANGED stats, Running' = Running
      PROVE  StatsConsistent'
  BY <1>1 DEF stats
<1>2. ASSUME NEW r \in Requests, NEW from \in {"idle", "rejected"},
             NEW to \in {"idle", "admitted", "rejected"}, Step(r, from, to),
             UNCHANGED stats
      PROVE  StatsConsistent'
  BY <1>1, <1>2, RunningCount
<1>3. ASSUME NEW r \in Requests, CountRequest(r)
      PROVE  StatsConsistent'
  <2>1. Cardinality(Running') = Cardinality(Running) + 1
        /\ Cardinality(Running) \in Nat
    BY <1>3, RunningCount DEF CountRequest
  <2> QED
    BY <1>3, <2>1 DEF CountRequest, Bump, TypeOK
<1>4. ASSUME NEW r \in Requests, OnSuccess(r)
      PROVE  StatsConsistent'
  <2>1. Cardinality(Running) = Cardinality(Running') + 1
        /\ Cardinality(Running') \in Nat
    BY <1>4, RunningCount DEF OnSuccess
  <2>2. consecutiveFails' = 0 /\ UNCHANGED <<totalRequests, totalFailures>>
    BY <1>4 DEF OnSuccess
  <2> QED
    BY <2>1, <2>2 DEF TypeOK
<1>5. ASSUME NEW r \in Requests, OnFailure(r)
      PROVE  StatsConsistent'
  <2>1. Cardinality(Running) = Cardinality(Running') + 1
        /\ Cardinality(Running') \in Nat
    BY <1>5, RunningCount DEF OnFailure
  <2>2. /\ totalFailures' = Bump(totalFailures)
        /\ consecutiveFails' = Bump(consecutiveFails)
        /\ totalRequests' = totalRequests
    BY <1>5 DEF OnFailure
  <2> QED
    BY <2>1, <2>2 DEF Bump, TypeOK
<1>6. ASSUME NEW r \in Requests, Panic(r)
      PROVE  StatsConsistent'
  <2>1. Cardinality(Running) = Cardinality(Running') + 1
        /\ Cardinality(Running') \in Nat
    BY <1>6, RunningCount DEF Panic
  <2> QED
    BY <1>6, <2>1 DEF Panic, stats, TypeOK
<1>7. CASE Reset
  <2>1. Running' = Running
    BY <1>7 DEF Reset, Running
  <2>2. consecutiveFails' = 0 /\ UNCHANGED <<totalRequests, totalFailures>>
    BY <1>7 DEF Reset
  <2> QED
    BY <2>1, <2>2 DEF TypeOK
<1>8. CASE Tick
  BY <1>1, <1>8 DEF Tick, Running
<1>9. CASE UNCHANGED vars
  BY <1>1, <1>9 DEF vars, Running
<1> QED
  BY <1>2, <1>3, <1>4, <1>5, <1>6, <1>7, <1>8, <1>9
     DEF Next, Execute, BeforeRequest, Finish, AdmitClosed, AdmitFirstProbe,
         AdmitProbe, Reject, ReturnRejected

\* Stats is consistent at every moment, although Execute updates it under
\* three separate locks.
THEOREM StatsAlwaysConsistent == Spec => []StatsConsistent
<1>1. Init => StatsConsistent
  <2>1. ASSUME Init PROVE Running = {}
    BY <2>1 DEF Init, Running
  <2> QED
    BY <2>1, FS_EmptySet, BoundsAssumption DEF Init, StatsConsistent
<1> QED
  BY <1>1, StatsStep, TypeCorrect, PTL DEF Spec

-----------------------------------------------------------------------------
(***************************************************************************)
(* The refinement: every step of the breaker is a step of BreakerPromise   *)
(* or leaves state, age and trial alone.                                   *)
(***************************************************************************)
\* One step of the breaker is one step of its promise, or none.
LEMMA PromiseStep == TypeOK /\ [Next]_vars => [Promise!Next]_(Promise!vars)
<1> SUFFICES ASSUME TypeOK, [Next]_vars
             PROVE  [Promise!Next]_(Promise!vars)
  OBVIOUS
<1>1. ASSUME UNCHANGED <<state, sinceChange, halfOpenReqs, resets>>
      PROVE  UNCHANGED Promise!vars
  BY <1>1 DEF Promise!vars
<1>2. ASSUME NEW r \in Requests, AdmitFirstProbe(r)
      PROVE  Promise!StartTrial
  BY <1>2 DEF AdmitFirstProbe, TransitionTo, FreeSlots,
              Promise!StartTrial, Promise!Enter
<1>3. ASSUME NEW r \in Requests, AdmitProbe(r)
      PROVE  Promise!Admit
  BY <1>3, ConfigAssumption
     DEF AdmitProbe, SlotFree, TakeSlot, TypeOK, Promise!Admit
<1>4. ASSUME NEW r \in Requests, OnSuccess(r)
      PROVE  Promise!Settle \/ UNCHANGED Promise!vars
  <2>1. CASE SuccessCloses
    BY <1>4, <2>1 DEF OnSuccess, SuccessCloses, TransitionTo,
                      Promise!Settle, Promise!Enter
  <2>2. CASE ~SuccessCloses
    BY <1>1, <1>4, <2>2 DEF OnSuccess
  <2> QED
    BY <2>1, <2>2
<1>5. ASSUME NEW r \in Requests, OnFailure(r)
      PROVE  Promise!Trip \/ Promise!Settle \/ UNCHANGED Promise!vars
  <2>1. CASE FailureOpens(failures')
    BY <1>5, <2>1 DEF OnFailure, FailureOpens, TransitionTo,
                      Promise!Trip, Promise!Settle, Promise!Enter
  <2>2. CASE ~FailureOpens(failures')
    BY <1>1, <1>5, <2>2 DEF OnFailure
  <2> QED
    BY <2>1, <2>2
<1>6. CASE Reset
  <2>1. Promise!Reset
    BY <1>6 DEF Reset, TransitionTo, FreeSlots, Promise!Reset, Promise!Enter
  <2> QED
    BY <2>1 DEF Promise!Next
<1>7. CASE Tick
  <2>1. CASE sinceChange < AgeCap
    <3>1. Promise!Tick
      BY <1>7, <2>1 DEF Tick, Older, Promise!Tick
    <3> QED
      BY <3>1 DEF Promise!Next
  <2>2. CASE ~(sinceChange < AgeCap)
    BY <1>1, <1>7, <2>2 DEF Tick, Older
  <2> QED
    BY <2>1, <2>2
<1>8. CASE UNCHANGED vars
  BY <1>1, <1>8 DEF vars
<1>9. CASE \E r \in Requests : Execute(r)
  <2> PICK r \in Requests : Execute(r)
    BY <1>9
  <2>1. CASE AdmitClosed(r) \/ Reject(r) \/ ReturnRejected(r)
             \/ CountRequest(r) \/ Panic(r)
    BY <1>1, <2>1 DEF AdmitClosed, Reject, ReturnRejected, CountRequest, Panic
  <2> QED
    BY <1>2, <1>3, <1>4, <1>5, <2>1
       DEF Execute, BeforeRequest, Finish, Promise!Next
<1> QED
  BY <1>6, <1>7, <1>8, <1>9 DEF Next

\* The concurrent breaker implements BreakerPromise: an open breaker stays open
\* past ResetTimeout, and closes only through a bounded trial or a Reset.
THEOREM KeepsItsPromise == Spec => KeepsPromise
<1>1. Init => Promise!Init
  BY DEF Init, Promise!Init
<1> QED
  BY <1>1, PromiseStep, TypeCorrect, PTL DEF Spec, KeepsPromise, Promise!Spec
=============================================================================
