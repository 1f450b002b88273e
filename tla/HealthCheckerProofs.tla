------------------------ MODULE HealthCheckerProofs ------------------------
(***************************************************************************)
(* For any number of targets and any threshold, the health checker counts  *)
(* right; and, if no URL is configured twice, the balancer's flags are     *)
(* always the statuses the checker reports.                                *)
(***************************************************************************)
EXTENDS HealthChecker, TLAPS

\* No two targets have the same URL.
DistinctUrls == \A i, j \in Targets : UrlOf[i] = UrlOf[j] => i = j

\* SetHealthy finds the target a check was about, if its URL is its own.
LEMMA FirstIsOnly ==
    ASSUME DistinctUrls, NEW i \in Targets
    PROVE  FirstWith(UrlOf[i]) = i
  <1>1. \A k \in Targets :
            (UrlOf[k] = UrlOf[i]
              /\ \A j \in Targets : UrlOf[j] = UrlOf[i] => k <= j) <=> k = i
    BY TargetsAssumption DEF DistinctUrls, Targets
  <1>2. FirstWith(UrlOf[i]) \in Targets
            /\ UrlOf[FirstWith(UrlOf[i])] = UrlOf[i]
    BY <1>1 DEF FirstWith
  <1> QED
    BY <1>2 DEF DistinctUrls

\* The checker starts in its types.
LEMMA HCInitType == HCInit => HCTypeOK
  <1> SUFFICES ASSUME HCInit PROVE HCTypeOK
    OBVIOUS
  <1>1. fails \in [URLs -> 0..Threshold] /\ checking \in 0..N
    BY TargetsAssumption, ThresholdAssumption DEF HCInit
  <1>2. /\ healthy \in [Targets -> BOOLEAN]
        /\ up \in [URLs -> BOOLEAN]
        /\ cancelled \in BOOLEAN /\ answered \in BOOLEAN /\ exited \in BOOLEAN
    BY DEF HCInit
  <1> QED
    BY <1>1, <1>2 DEF HCTypeOK

\* Every step of the checker keeps its variables in their types.
LEMMA HCTypeStep == HCTypeOK /\ [HCNext]_hcVars => HCTypeOK'
  <1> SUFFICES ASSUME HCTypeOK, [HCNext]_hcVars
               PROVE  HCTypeOK'
    OBVIOUS
  <1> USE TargetsAssumption, ThresholdAssumption DEF Targets
  <1>1. CASE StartRound
    BY <1>1 DEF HCTypeOK, StartRound
  <1>2. ASSUME NEW i \in Targets, RecordSuccess(i)
        PROVE  HCTypeOK'
    <2>1. /\ fails' \in [URLs -> 0..Threshold]
          /\ checking' \in 0..N
          /\ answered' = FALSE /\ UNCHANGED <<cancelled, exited>>
      BY <1>2 DEF HCTypeOK, RecordSuccess, Forgive, NextCheck
    <2>2. up' \in [URLs -> BOOLEAN] /\ healthy' \in [Targets -> BOOLEAN]
      BY <1>2 DEF HCTypeOK, RecordSuccess, SetHealthy
    <2> QED
      BY <2>1, <2>2 DEF HCTypeOK
  <1>3. ASSUME NEW i \in Targets, RecordFailure(i)
        PROVE  HCTypeOK'
    <2>1. /\ fails' \in [URLs -> 0..Threshold]
          /\ checking' \in 0..N
          /\ UNCHANGED <<cancelled, answered, exited>>
      BY <1>3 DEF HCTypeOK, RecordFailure, NextCheck
    <2>2. up' \in [URLs -> BOOLEAN] /\ healthy' \in [Targets -> BOOLEAN]
      BY <1>3 DEF HCTypeOK, RecordFailure, SetHealthy
    <2> QED
      BY <2>1, <2>2 DEF HCTypeOK
  <1>4. CASE Cancel
    BY <1>4 DEF HCTypeOK, Cancel
  <1>5. CASE Exit
    BY <1>5 DEF HCTypeOK, Exit
  <1>6. CASE UNCHANGED hcVars
    BY <1>6 DEF HCTypeOK, hcVars, checker
  <1> QED
    BY <1>1, <1>2, <1>3, <1>4, <1>5, <1>6 DEF HCNext, Check

\* Every step keeps each URL's status in line with its count of failures.
LEMMA ThresholdStep ==
    HCTypeOK /\ DownMeansThreshold /\ [HCNext]_hcVars => DownMeansThreshold'
  <1> SUFFICES ASSUME HCTypeOK, DownMeansThreshold, [HCNext]_hcVars
               PROVE  DownMeansThreshold'
    OBVIOUS
  <1> USE TargetsAssumption, ThresholdAssumption DEF HCTypeOK, DownMeansThreshold
  <1>1. ASSUME NEW i \in Targets, RecordSuccess(i)
        PROVE  DownMeansThreshold'
    BY <1>1 DEF RecordSuccess, Forgive
  <1>2. ASSUME NEW i \in Targets, RecordFailure(i)
        PROVE  DownMeansThreshold'
    <2> DEFINE u == UrlOf[i]
    <2>1. u \in URLs /\ fails[u] \in 0..Threshold
      OBVIOUS
    <2>2. /\ fails'[u] = IF fails[u] < Threshold THEN fails[u] + 1 ELSE fails[u]
          /\ \A v \in URLs \ {u} : fails'[v] = fails[v]
      BY <1>2, <2>1 DEF RecordFailure
    <2>3. CASE MarkedDown(u)
      <3>1. ~up'[u] /\ \A v \in URLs \ {u} : up'[v] = up[v]
        BY <1>2, <2>1, <2>3 DEF RecordFailure
      <3>2. ~(fails'[u] < Threshold)
        BY <2>1, <2>2, <2>3 DEF MarkedDown
      <3> QED
        BY <2>2, <3>1, <3>2
    <2>4. CASE ~MarkedDown(u)
      <3>1. up' = up
        BY <1>2, <2>4 DEF RecordFailure
      <3>2. up[u] <=> fails'[u] < Threshold
        BY <2>1, <2>2, <2>4 DEF MarkedDown
      <3> QED
        BY <2>2, <3>1, <3>2
    <2> QED
      BY <2>3, <2>4
  <1>3. CASE UNCHANGED <<up, fails>>
    BY <1>3
  <1> QED
    BY <1>1, <1>2, <1>3
    DEF HCNext, Check, StartRound, Cancel, Exit, hcVars, checker

\* Every step keeps each flag equal to the status, as SetHealthy changes the
\* flag of the target that was checked.
LEMMA FlagsStep ==
    DistinctUrls /\ HCTypeOK /\ FlagsFollowStatus /\ [HCNext]_hcVars
        => FlagsFollowStatus'
  <1> SUFFICES ASSUME DistinctUrls, HCTypeOK, FlagsFollowStatus, [HCNext]_hcVars
               PROVE  FlagsFollowStatus'
    OBVIOUS
  <1> USE TargetsAssumption DEF HCTypeOK, FlagsFollowStatus
  <1>1. ASSUME NEW i \in Targets, NEW h \in BOOLEAN,
               up' = [up EXCEPT ![UrlOf[i]] = h], SetHealthy(UrlOf[i], h)
        PROVE  FlagsFollowStatus'
    <2>1. healthy' = [healthy EXCEPT ![i] = h]
      BY <1>1, FirstIsOnly DEF SetHealthy
    <2> QED
      BY <1>1, <2>1 DEF DistinctUrls
  <1>2. ASSUME NEW i \in Targets, RecordSuccess(i)
        PROVE  FlagsFollowStatus'
    BY <1>1, <1>2 DEF RecordSuccess
  <1>3. CASE UNCHANGED <<up, healthy>>
    BY <1>3
  <1>4. ASSUME NEW i \in Targets, RecordFailure(i)
        PROVE  FlagsFollowStatus'
    <2>1. CASE MarkedDown(UrlOf[i])
      BY <1>1, <1>4, <2>1 DEF RecordFailure
    <2>2. CASE ~MarkedDown(UrlOf[i])
      BY <1>3, <1>4, <2>2 DEF RecordFailure
    <2> QED
      BY <2>1, <2>2
  <1> QED
    BY <1>2, <1>3, <1>4
    DEF HCNext, Check, StartRound, Cancel, Exit, hcVars, checker

-----------------------------------------------------------------------------
\* The checker's state stays in its types.
THEOREM HCTypeCorrect == HCSpec => []HCTypeOK
  BY HCInitType, HCTypeStep, PTL DEF HCSpec

\* For every threshold, a URL is reported down exactly when its last Threshold
\* checks failed.
THEOREM DownExactly == HCSpec => []DownMeansThreshold
  <1>1. HCInit => DownMeansThreshold
    BY ThresholdAssumption DEF HCInit, DownMeansThreshold
  <1> QED
    BY <1>1, ThresholdStep, HCTypeCorrect, PTL DEF HCSpec

\* For any number of targets with distinct URLs, the balancer's flags are the
\* statuses the checker reports.
THEOREM FlagsFollow == DistinctUrls => (HCSpec => []FlagsFollowStatus)
  <1> SUFFICES ASSUME DistinctUrls
               PROVE  HCSpec => []FlagsFollowStatus
    OBVIOUS
  <1>1. HCInit => FlagsFollowStatus
    BY TargetsAssumption DEF HCInit, FlagsFollowStatus
  <1>2. HCTypeOK /\ FlagsFollowStatus /\ [HCNext]_hcVars => FlagsFollowStatus'
    BY FlagsStep
  <1> QED
    BY <1>1, <1>2, HCTypeCorrect, PTL DEF HCSpec
=============================================================================
