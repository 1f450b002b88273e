--------------------------- MODULE PipelineProofs ---------------------------
(***************************************************************************)
(* Proofs about Pipeline, for every set of requests, every configuration   *)
(* of the route and of its breaker, and every status an upstream may send. *)
(***************************************************************************)
EXTENDS Pipeline, CircuitBreakerProofs

(***************************************************************************)
(* The breaker in the chain.                                               *)
(***************************************************************************)

\* What the chain does to its breaker is a step of the breaker, or none.
LEMMA BreakerStep == [PipelineNext]_pipelineVars => [Next]_vars
<1> SUFFICES ASSUME PipelineNext PROVE [Next]_vars
  BY DEF pipelineVars
<1>1. CASE Clock
  BY <1>1 DEF Clock, Next
<1>2. ASSUME NEW r \in Requests, Execute(r) PROVE [Next]_vars
  BY <1>2 DEF Next
<1>3. ASSUME NEW r \in Requests, Receive(r) \/ Upstream(r) PROVE UNCHANGED vars
  BY <1>3 DEF Receive, Upstream, Inform, Respond, RoundTripFails, CopyDone, CopyFails
<1>4. ASSUME NEW r \in Requests, Passage(r) PROVE UNCHANGED vars \/ Execute(r)
  <2>1. CASE Preflight(r) \/ RateLimited(r) \/ Allowed(r) \/ ReadState(r)
               \/ SetGauge(r) \/ NoTarget(r) \/ Forward(r) \/ Return(r)
    BY <2>1 DEF Preflight, RateLimited, Allowed, ReadState, SetGauge, NoTarget,
                Forward, Return
  <2>2. CASE Enter(r) \/ EnterCounted(r) \/ Unavailable(r) \/ Judge(r) \/ Recover(r)
    BY <2>2 DEF Enter, EnterCounted, Unavailable, Judge, Recover, Execute, Finish
  <2> QED
    BY <1>4, <2>1, <2>2 DEF Passage
<1> QED
  BY <1>1, <1>2, <1>3, <1>4 DEF PipelineNext

\* CircuitBreak and the proxy drive the breaker as its specification allows.
THEOREM BreakerUsed == PipelineSpec => UsesBreaker
<1>1. PipelineInit => Init
  BY DEF PipelineInit
<1> QED
  BY <1>1, BreakerStep, PTL DEF PipelineSpec, UsesBreaker, Spec

\* What holds of a breaker in isolation holds of a route's: its half-open
\* slots are accounted for, and it keeps the promise of BreakerPromise.
THEOREM RouteKeepsPromise == PipelineSpec => []SlotsAccountedFor /\ KeepsPromise
BY BreakerUsed, SlotsAccounted, KeepsItsPromise, PTL DEF UsesBreaker

-----------------------------------------------------------------------------
(***************************************************************************)
(* The answer to a request.                                                *)
(***************************************************************************)

Final == Codes \ {EarlyHints}

\* Nothing is written before the proxy runs or another link answers; then one
\* final code is, and the responseWriters hold it, or the informational one
\* that came first.
Answered(r) ==
    /\ stage[r] \in {"received", "allowed", "observed", "entering", "executing"}
         => status[r] = 0 /\ sent[r] = 0 /\ answers[r] = 0
    /\ stage[r] = "forwarded"
         => status[r] \in {0, EarlyHints} /\ sent[r] = 0 /\ answers[r] = 0
    /\ stage[r] \in {"copying", "served", "aborted", "unwinding", "done"}
         => /\ answers[r] = 1
            /\ sent[r] \in Final
            /\ status[r] \in {sent[r], EarlyHints}
    /\ stage[r] = "idle" => answers[r] = 0
    /\ stage[r] = "recovered" => answers[r] = 2

AnswerInv == PipelineTypeOK /\ \A r \in Requests : Answered(r)

\* The final codes are codes that commit a response.
LEMMA FinalCodes ==
    /\ UpstreamCodes \subseteq Final
    /\ {204, 429, 500, 502, 503} \subseteq Final
    /\ \A code \in Final : code \in Nat \ {0} /\ ~Informational(code)
    /\ Informational(EarlyHints) /\ ~Informational(0)
BY RouteAssumption DEF Final, Codes, EarlyHints, Informational

\* A final code written for a request that has none yet is the one sent, and
\* the one recorded unless an informational code was; no other request is
\* touched.
LEMMA FirstFinal ==
    ASSUME PipelineTypeOK, NEW r \in Requests, NEW code \in Final,
           status[r] \in {0, EarlyHints}, sent[r] = 0, answers[r] = 0,
           WriteHeader(r, code)
    PROVE  /\ status' \in [Requests -> {0} \cup Codes]
           /\ sent' \in [Requests -> {0} \cup (Codes \ {EarlyHints})]
           /\ answers' \in [Requests -> 0..2]
           /\ sent'[r] = code /\ answers'[r] = 1
           /\ status'[r] \in {code, EarlyHints}
           /\ \A q \in Requests \ {r} :
                /\ status'[q] = status[q]
                /\ sent'[q] = sent[q]
                /\ answers'[q] = answers[q]
<1>1. code \in Codes /\ code # EarlyHints /\ code # 0 /\ ~Informational(code)
  BY FinalCodes DEF Final
<1>2. Committed(sent[r], code) = code
  BY <1>1 DEF Committed
<1>3. Recorded(status[r], code) \in {code, EarlyHints} \cap Codes
  BY <1>1 DEF Recorded, Codes
<1>4. (IF Informational(code) THEN answers[r] ELSE answers[r] + 1) = 1
  BY <1>1
<1>5. /\ status' = [status EXCEPT ![r] = Recorded(status[r], code)]
      /\ sent' = [sent EXCEPT ![r] = code]
      /\ answers' = [answers EXCEPT ![r] = 1]
  BY <1>2, <1>4, Zenon DEF WriteHeader, WriteBare
<1> HIDE DEF Codes, EarlyHints, Recorded
<1> QED
  BY <1>1, <1>3, <1>5 DEF PipelineTypeOK

\* The states have the numbers 0, 1 and 2.
LEMMA StateNumbers == \A s \in {"Closed", "Open", "HalfOpen"} : StateNumber(s) \in 0..2
<1>1. DOMAIN States = 1..3
  BY DEF States
<1>2. \A s \in {"Closed", "Open", "HalfOpen"} : \E i \in 1..3 : States[i] = s
  BY DEF States
<1>3. \A s \in {"Closed", "Open", "HalfOpen"} :
        (CHOOSE i \in 1..3 : States[i] = s) \in 1..3
  BY <1>2
<1> QED
  BY <1>1, <1>3 DEF StateNumber

\* Every step of the chain keeps the answers in order.
LEMMA AnswerStep ==
    TypeOK /\ AnswerInv /\ [PipelineNext]_pipelineVars => AnswerInv'
<1> SUFFICES ASSUME TypeOK, AnswerInv, [PipelineNext]_pipelineVars PROVE AnswerInv'
  OBVIOUS
<1> USE DEF AnswerInv
<1>1. CASE UNCHANGED <<stage, response, meters>>
  BY <1>1 DEF response, meters, PipelineTypeOK, Answered
<1>2. ASSUME NEW r \in Requests, NEW from, NEW to \in {"served", "copying", "unwinding"},
             from \in {"received", "executing", "forwarded"},
             Go(r, from, to), NEW code \in Final, WriteHeader(r, code),
             UNCHANGED meters
      PROVE  AnswerInv'
  <2>1. status[r] \in {0, EarlyHints} /\ sent[r] = 0 /\ answers[r] = 0
    BY <1>2 DEF Answered, Go
  <2>2. PipelineTypeOK'
    BY <1>2, <2>1, FirstFinal DEF PipelineTypeOK, meters, Go, Going
  <2>3. ASSUME NEW q \in Requests PROVE Answered(q)'
    BY <1>2, <2>1, FirstFinal DEF PipelineTypeOK, Answered, Go
  <2> QED
    BY <2>2, <2>3
<1>3. ASSUME NEW r \in Requests, Receive(r) PROVE AnswerInv'
  BY <1>3 DEF Receive, PipelineTypeOK, Answered, Going, Over
<1>4. ASSUME NEW r \in Requests, Passage(r) PROVE AnswerInv'
  <2>1. CASE Preflight(r) \/ RateLimited(r) \/ NoTarget(r) \/ Unavailable(r)
    BY <2>1, <1>2, FinalCodes DEF Preflight, RateLimited, NoTarget, Unavailable
  <2>2. CASE Allowed(r) \/ Enter(r) \/ Forward(r)
    BY <2>2 DEF Allowed, Enter, Forward, Go, response, meters,
                PipelineTypeOK, Answered, Going
  <2>7. CASE SetGauge(r)
    <3>1. observed[r] \in {"Closed", "Open", "HalfOpen"}
      BY <2>7 DEF SetGauge, Go, PipelineTypeOK
    <3>2. StateNumber(observed[r]) \in NoSample .. 2
      BY <3>1, StateNumbers DEF NoSample
    <3> QED
      BY <2>7, <3>2 DEF SetGauge, Go, response, PipelineTypeOK, Answered, Going
  <2>3. CASE ReadState(r)
    BY <2>3 DEF ReadState, TypeOK, Go, response, PipelineTypeOK, Answered, Going
  <2>4. CASE EnterCounted(r)
    BY <1>1, <2>4 DEF EnterCounted
  <2>5. CASE Judge(r) \/ Return(r)
    BY <2>5 DEF Judge, Return, Go, response, meters, PipelineTypeOK, Answered,
                Going, Over
  <2>6. CASE Recover(r)
    BY <2>6, FinalCodes DEF Recover, Go, WriteBare, Committed, PipelineTypeOK,
                Answered, Going, Over
  <2> QED
    BY <1>4, <2>1, <2>2, <2>3, <2>4, <2>5, <2>6, <2>7 DEF Passage
<1>5. ASSUME NEW r \in Requests, Upstream(r) PROVE AnswerInv'
  <2>1. CASE Respond(r) \/ RoundTripFails(r)
    BY <2>1, <1>2, FinalCodes DEF Respond, RoundTripFails
  <2>2. CASE CopyDone(r) \/ CopyFails(r)
    BY <2>2 DEF CopyDone, CopyFails, Go, response, meters, PipelineTypeOK,
                Answered, Going
  <2>3. CASE Inform(r)
    <3>1. /\ Committed(sent[r], EarlyHints) = sent[r]
          /\ (IF Informational(EarlyHints) THEN answers[r] ELSE answers[r] + 1)
                 = answers[r]
      BY FinalCodes DEF Committed
    <3>2. /\ sent' = [sent EXCEPT ![r] = sent[r]]
          /\ answers' = [answers EXCEPT ![r] = answers[r]]
      BY <2>3, <3>1, Zenon DEF Inform, WriteHeader, WriteBare
    <3>3. sent' = sent /\ answers' = answers
      BY <3>2 DEF PipelineTypeOK
    <3>4. /\ stage[r] = "forwarded" /\ UNCHANGED <<stage, observed, gauge, active>>
          /\ status' = [status EXCEPT ![r] = Recorded(status[r], EarlyHints)]
      BY <2>3 DEF Inform, WriteHeader, meters
    <3>5. Recorded(status[r], EarlyHints) = EarlyHints
      BY <3>4 DEF Answered, Recorded
    <3> QED
      BY <3>3, <3>4, <3>5 DEF PipelineTypeOK, Answered, Codes
  <2> QED
    BY <1>5, <2>1, <2>2, <2>3 DEF Upstream
<1> QED
  BY <1>1, <1>3, <1>4, <1>5 DEF PipelineNext, Clock, pipelineVars

\* In every reachable state the answers are in order.
LEMMA AnswersInOrder == PipelineSpec => []AnswerInv
<1>1. PipelineInit => AnswerInv
  BY DEF PipelineInit, AnswerInv, PipelineTypeOK, Answered, Over, NoSample
<1>2. PipelineSpec => []TypeOK
  BY BreakerUsed, TypeCorrect, PTL DEF UsesBreaker
<1> QED
  BY <1>1, <1>2, AnswerStep, PTL DEF PipelineSpec

\* The links of the chain keep their types.
THEOREM PipelineTypeCorrect == PipelineSpec => []PipelineTypeOK
<1>1. AnswerInv => PipelineTypeOK
  BY DEF AnswerInv
<1> QED
  BY <1>1, AnswersInOrder, PTL

\* Only one link of the chain answers a request.
THEOREM OneAnswer == PipelineSpec => []AnsweredOnce
<1>1. AnswerInv => AnsweredOnce
  BY DEF AnswerInv, PipelineTypeOK, Answered, AnsweredOnce, Going, Over
<1> QED
  BY <1>1, AnswersInOrder, PTL

\* Metrics and Logging report the status the client got.
THEOREM TrueRecords == PipelineSpec => []RecordedAsSent
<1>1. ASSUME AnswerInv, NEW r \in Requests, stage[r] = "done",
             ~Informational(status[r])
      PROVE  StatusCode(r) = sent[r]
  <2>1. sent[r] \in Final /\ status[r] \in {sent[r], EarlyHints}
    BY <1>1 DEF AnswerInv, Answered
  <2> QED
    BY <1>1, <2>1, FinalCodes DEF StatusCode
<1>2. AnswerInv => RecordedAsSent
  BY <1>1 DEF RecordedAsSent
<1> QED
  BY <1>2, AnswersInOrder, PTL

-----------------------------------------------------------------------------
\* The breaker learns what the client got.
LEMMA JudgeStep ==
    ASSUME AnswerInv, [PipelineNext]_pipelineVars, NEW r \in Requests,
           stage[r] = "served", stage'[r] # "served"
    PROVE  IF sent[r] >= 500 /\ ~Informational(status[r])
             THEN OnFailure(r)
             ELSE OnSuccess(r)
<1>1. /\ stage \in [Requests -> Going \cup Over]
      /\ sent[r] \in Final /\ status[r] \in {sent[r], EarlyHints}
  BY DEF AnswerInv, PipelineTypeOK, Answered
<1>2. Judge(r)
  <2>1. PICK q \in Requests : Receive(q) \/ Passage(q) \/ Upstream(q)
    BY DEF PipelineNext, Clock, pipelineVars
  <2>2. CASE Receive(q) \/ EnterCounted(q) \/ Inform(q)
    BY <1>1, <2>2 DEF Receive, EnterCounted, Inform, Over
  <2>3. ASSUME NEW from, NEW to, Go(q, from, to)
        PROVE  q = r /\ from = "served"
    BY <1>1, <2>3 DEF Go
  <2>4. CASE Preflight(q) \/ RateLimited(q) \/ Allowed(q) \/ ReadState(q)
               \/ SetGauge(q) \/ Enter(q) \/ Unavailable(q)
    BY <2>3, <2>4 DEF Preflight, RateLimited, Allowed, ReadState, SetGauge, Enter,
                 Unavailable
  <2>5. CASE NoTarget(q) \/ Forward(q) \/ Return(q) \/ Recover(q)
    BY <2>3, <2>5 DEF NoTarget, Forward, Return, Recover
  <2>6. CASE Respond(q) \/ RoundTripFails(q) \/ CopyDone(q) \/ CopyFails(q)
    BY <2>3, <2>6 DEF Respond, RoundTripFails, CopyDone, CopyFails
  <2>7. CASE Judge(q)
    BY <2>3, <2>7 DEF Judge
  <2> QED
    BY <2>1, <2>2, <2>4, <2>5, <2>6, <2>7 DEF Passage, Upstream
<1>3. IF IsFailure(StatusCode(r)) THEN OnFailure(r) ELSE OnSuccess(r)
  BY <1>2 DEF Judge
<1>4. IsFailure(StatusCode(r)) <=> sent[r] >= 500 /\ ~Informational(status[r])
  <2>1. CASE status[r] = EarlyHints
    BY <2>1, FinalCodes DEF IsFailure, StatusCode, EarlyHints
  <2>2. CASE status[r] # EarlyHints
    BY <1>1, <2>2, FinalCodes DEF IsFailure, StatusCode
  <2> QED
    BY <2>1, <2>2
<1> QED
  BY <1>3, <1>4

\* The breaker is told of a failure exactly when the client got one, unless an
\* informational response hid it.
THEOREM TrueJudgement == PipelineSpec => JudgedAsSent
<1> DEFINE Judged == \A r \in Requests : stage[r] = "served" /\ stage'[r] # "served" =>
                        IF sent[r] >= 500 /\ ~Informational(status[r])
                          THEN OnFailure(r)
                          ELSE OnSuccess(r)
<1>1. AnswerInv /\ [PipelineNext]_pipelineVars => [Judged]_pipelineVars
  BY JudgeStep
<1> QED
  BY <1>1, AnswersInOrder, PTL DEF PipelineSpec, JudgedAsSent

-----------------------------------------------------------------------------
(***************************************************************************)
(* The gauge of active requests.                                           *)
(***************************************************************************)

Inside == {r \in Requests : stage[r] \in Going}

\* The requests inside the chain can be counted.
LEMMA InsideFinite == IsFiniteSet(Inside) /\ Cardinality(Inside) \in Nat
BY RequestsAssumption, FS_Subset, FS_CardinalityType DEF Inside

\* Every step that takes a request into the chain or out of it moves the gauge.
LEMMA ActiveStep ==
    AnswerInv /\ ActiveIsExact /\ [PipelineNext]_pipelineVars => ActiveIsExact'
<1> SUFFICES ASSUME AnswerInv, ActiveIsExact, [PipelineNext]_pipelineVars
             PROVE  active' = Cardinality(Inside')
  BY DEF ActiveIsExact, Inside
<1>1. active = Cardinality(Inside) /\ stage \in [Requests -> Going \cup Over]
  BY DEF ActiveIsExact, Inside, AnswerInv, PipelineTypeOK
<1>2. ASSUME UNCHANGED active, Inside' = Inside PROVE active' = Cardinality(Inside')
  BY <1>1, <1>2
<1>3. ASSUME NEW r \in Requests, Receive(r) PROVE active' = Cardinality(Inside')
  <2>1. Inside' = Inside \cup {r} /\ r \notin Inside
    BY <1>1, <1>3 DEF Receive, Inside, Going, Over
  <2>2. Cardinality(Inside') = Cardinality(Inside) + 1
    BY <2>1, InsideFinite, FS_AddElement
  <2> QED
    BY <1>1, <1>3, <2>2 DEF Receive
<1>4. ASSUME NEW r \in Requests, Return(r) \/ Recover(r)
      PROVE  active' = Cardinality(Inside')
  <2>1. Inside' = Inside \ {r} /\ r \in Inside
    BY <1>1, <1>4 DEF Return, Recover, Go, Inside, Going, Over
  <2>2. Cardinality(Inside') = Cardinality(Inside) - 1
    BY <2>1, InsideFinite, FS_RemoveElement
  <2> QED
    BY <1>1, <1>4, <2>2 DEF Return, Recover
<1>5. ASSUME NEW r \in Requests, NEW from \in Going, NEW to \in Going, Go(r, from, to)
      PROVE  Inside' = Inside
  BY <1>1, <1>5 DEF Go, Inside
<1>6. ASSUME NEW r \in Requests, Passage(r), ~Return(r), ~Recover(r)
      PROVE  UNCHANGED active /\ Inside' = Inside
  <2>1. CASE Preflight(r) \/ RateLimited(r) \/ Allowed(r) \/ ReadState(r) \/ SetGauge(r)
    BY <1>5, <2>1 DEF Preflight, RateLimited, Allowed, ReadState, SetGauge, meters, Going
  <2>2. CASE Enter(r) \/ Unavailable(r) \/ NoTarget(r) \/ Forward(r) \/ Judge(r)
    BY <1>5, <2>2 DEF Enter, Unavailable, NoTarget, Forward, Judge, meters, Going
  <2>3. CASE EnterCounted(r)
    BY <2>3 DEF EnterCounted, meters, Inside
  <2> QED
    BY <1>6, <2>1, <2>2, <2>3 DEF Passage
<1>7. ASSUME NEW r \in Requests, Upstream(r) PROVE UNCHANGED active /\ Inside' = Inside
  <2>1. CASE Respond(r) \/ RoundTripFails(r) \/ CopyDone(r) \/ CopyFails(r)
    BY <1>5, <2>1 DEF Respond, RoundTripFails, CopyDone, CopyFails, meters, Going
  <2>2. CASE Inform(r)
    BY <2>2 DEF Inform, meters, Inside
  <2> QED
    BY <1>7, <2>1, <2>2 DEF Upstream
<1>8. CASE Clock \/ UNCHANGED pipelineVars
  BY <1>2, <1>8 DEF Clock, pipelineVars, meters, Inside
<1> QED
  BY <1>2, <1>3, <1>4, <1>6, <1>7, <1>8 DEF PipelineNext

\* The gauge of active requests is exact, panics included.
THEOREM ActiveExact == PipelineSpec => []ActiveIsExact
<1>1. ASSUME PipelineInit PROVE ActiveIsExact
  <2>1. {r \in Requests : stage[r] \in Going} = {}
    BY <1>1 DEF PipelineInit, Going
  <2> QED
    BY <1>1, <2>1, FS_EmptySet DEF PipelineInit, ActiveIsExact
<1> QED
  BY <1>1, ActiveStep, AnswersInOrder, PTL DEF PipelineSpec
=============================================================================
