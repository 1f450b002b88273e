------------------------------ MODULE Pipeline ------------------------------
(***************************************************************************)
(* The life of a request on one route: the middleware chain that           *)
(* BuildRouter composes (Recovery, RequestID, Logging, Metrics, CORS,      *)
(* RateLimit, CircuitBreak) around the reverse proxy, run by several       *)
(* requests at once and composed with the route's CircuitBreaker: the      *)
(* steps of Execute are the breaker's own actions, taken where CircuitBreak*)
(* takes them.  The route configures a rate limit and a breaker, so that   *)
(* the chain has all of its links.                                         *)
(*                                                                         *)
(* A request is a goroutine that goes down the chain, does or does not     *)
(* reach the upstream, and comes back up, or is unwound by a panic.  Of a  *)
(* response only the status codes are kept.  What the limiter and the      *)
(* balancer answer is chosen freely: TokenBucket, RoundRobin and           *)
(* WeightedRoundRobin say what it may be.                                  *)
(***************************************************************************)
EXTENDS CircuitBreaker

CONSTANTS
    RouteTimeout,      \* the route's timeout; nothing checks that it is positive
    UpstreamCodes      \* the final status codes an upstream answers with

ASSUME RouteAssumption ==
    /\ RouteTimeout \in Int
    /\ UpstreamCodes \subseteq 200..599

VARIABLES
    stage,             \* where each request is in the chain
    status,            \* the first code its responseWriters saw, 0 for none
    sent,              \* the final code net/http sends its client, 0 for none
    answers,           \* history: how many final codes were written for it
    observed,          \* the state CircuitBreak read for the gauge
    gauge,             \* gateforge_circuit_breaker_state of the route, a number
    active             \* gateforge_http_active_requests of the route

response == <<status, sent, answers>>
meters == <<observed, gauge, active>>
pipelineVars == <<vars, stage, response, meters>>

Going == {"received", "allowed", "observed", "entering", "executing",
          "forwarded", "copying", "served", "aborted", "unwinding"}
Over == {"idle", "done", "recovered"}

EarlyHints == 103
Codes == {EarlyHints, 204, 429, 500, 502, 503} \cup UpstreamCodes

-----------------------------------------------------------------------------
(***************************************************************************)
(* The response writers.  Logging, Metrics and CircuitBreak each wrap the  *)
(* writer below in a responseWriter; the ones that matter to a request see *)
(* the same codes, so one status stands for them.                          *)
(***************************************************************************)

Informational(code) == code \in 100..199

\* Slip: the status is captured in Write only, as 200.
RecordedNever(first, code) == first

\* responseWriter.WriteHeader keeps the first code, informational or not.
Recorded(first, code) == IF first = 0 THEN code ELSE first

\* net/http sends the first final code; a later one is superfluous.
Committed(final, code) ==
    IF final # 0 \/ Informational(code) THEN final ELSE code

\* The code goes through the writer of net/http only, as Recovery's does.
WriteBare(r, code) ==
    /\ sent' = [sent EXCEPT ![r] = Committed(@, code)]
    /\ answers' = [answers EXCEPT ![r] = IF Informational(code) THEN @ ELSE @ + 1]

WriteHeader(r, code) ==
    /\ status' = [status EXCEPT ![r] = Recorded(@, code)]
    /\ WriteBare(r, code)

\* What newResponseWriter starts from when no header is written.
StatusCode(r) == IF status[r] = 0 THEN 200 ELSE status[r]

Go(r, from, to) ==
    /\ stage[r] = from
    /\ stage' = [stage EXCEPT ![r] = to]

-----------------------------------------------------------------------------
\* circuit.State is an integer: its constants, in the order of their iota.
States == <<"Closed", "Open", "HalfOpen">>

StateNumber(s) == (CHOOSE i \in DOMAIN States : States[i] = s) - 1

\* The gauge of a route that CircuitBreak has not set yet has no sample.
NoSample == -1

PipelineInit ==
    /\ Init
    /\ stage = [r \in Requests |-> "idle"]
    /\ status = [r \in Requests |-> 0]
    /\ sent = [r \in Requests |-> 0]
    /\ answers = [r \in Requests |-> 0]
    /\ observed = [r \in Requests |-> "none"]
    /\ gauge = NoSample
    /\ active = 0

\* A request arrives: Recovery's defer, RequestID, Logging and Metrics on the
\* way down.
Receive(r) ==
    /\ stage[r] \in Over
    /\ stage' = [stage EXCEPT ![r] = "received"]
    /\ status' = [status EXCEPT ![r] = 0]
    /\ sent' = [sent EXCEPT ![r] = 0]
    /\ answers' = [answers EXCEPT ![r] = 0]
    /\ active' = active + 1
    /\ UNCHANGED <<vars, observed, gauge>>

\* CORS answers every OPTIONS request itself.
Preflight(r) ==
    /\ Go(r, "received", "unwinding")
    /\ WriteHeader(r, 204)
    /\ UNCHANGED <<vars, meters>>

\* Slip: no return after the 429.
RateLimitedFallsThrough(r) ==
    /\ Go(r, "received", "allowed")
    /\ WriteHeader(r, 429)
    /\ UNCHANGED <<vars, meters>>

\* The limiter refuses the request.
RateLimited(r) ==
    /\ Go(r, "received", "unwinding")
    /\ WriteHeader(r, 429)
    /\ UNCHANGED <<vars, meters>>

Allowed(r) ==
    /\ Go(r, "received", "allowed")
    /\ UNCHANGED <<vars, response, meters>>

\* Slip: CircuitBreak reads the state once, when the route is built.
ReadStateOnce(r) ==
    /\ Go(r, "allowed", "observed")
    /\ observed' = [observed EXCEPT ![r] = "Closed"]
    /\ UNCHANGED <<vars, response, gauge, active>>

\* CircuitBreak reads the breaker's state under its lock ...
ReadState(r) ==
    /\ Go(r, "allowed", "observed")
    /\ observed' = [observed EXCEPT ![r] = state]
    /\ UNCHANGED <<vars, response, gauge, active>>

\* ... and sets the gauge to its number after it.
SetGauge(r) ==
    /\ Go(r, "observed", "entering")
    /\ gauge' = StateNumber(observed[r])
    /\ observed' = [observed EXCEPT ![r] = "none"]
    /\ UNCHANGED <<vars, response, active>>

\* Slip: the proxy is called without asking the breaker.
EnterUnasked(r) ==
    /\ Go(r, "entering", "executing")
    /\ pc' = [pc EXCEPT ![r] = "running"]
    /\ UNCHANGED <<state, sinceChange, halfOpenReqs, failures, stats, trial, resets>>
    /\ UNCHANGED <<response, meters>>

\* Execute, up to the call of the proxy.
Enter(r) ==
    /\ Go(r, "entering", "executing")
    /\ BeforeRequest(r)
    /\ UNCHANGED <<response, meters>>

EnterCounted(r) ==
    /\ CountRequest(r)
    /\ UNCHANGED <<stage, response, meters>>

\* ErrCircuitOpen becomes a 503.
Unavailable(r) ==
    /\ Go(r, "executing", "unwinding")
    /\ ReturnRejected(r)
    /\ WriteHeader(r, 503)
    /\ UNCHANGED meters

-----------------------------------------------------------------------------
(***************************************************************************)
(* The proxy.                                                              *)
(***************************************************************************)

Proxying(r) == stage[r] = "executing" /\ pc[r] = "running"

\* The balancer has no healthy target.
NoTarget(r) ==
    /\ Proxying(r)
    /\ Go(r, "executing", "served")
    /\ WriteHeader(r, 502)
    /\ UNCHANGED <<vars, meters>>

Forward(r) ==
    /\ Proxying(r)
    /\ Go(r, "executing", "forwarded")
    /\ UNCHANGED <<vars, response, meters>>

\* An informational response: ReverseProxy passes it on at once.
Inform(r) ==
    /\ stage[r] = "forwarded"
    /\ WriteHeader(r, EarlyHints)
    /\ UNCHANGED <<vars, stage, meters>>

\* The upstream's header: ReverseProxy passes it on and copies the body.
Respond(r) ==
    /\ Go(r, "forwarded", "copying")
    /\ \E code \in UpstreamCodes : WriteHeader(r, code)
    /\ UNCHANGED <<vars, meters>>

\* The round trip fails: no connection, no header in time, a client that goes
\* away, an upgrade that the response writers cannot take.
RoundTripFails(r) ==
    /\ Go(r, "forwarded", "served")
    /\ WriteHeader(r, 502)
    /\ UNCHANGED <<vars, meters>>

\* NewTransport waits for a header for 30 seconds at most.
RoundTripTimesOut(r) == RoundTripFails(r)

CopyDone(r) ==
    /\ Go(r, "copying", "served")
    /\ UNCHANGED <<vars, response, meters>>

\* The body breaks off on either side: ReverseProxy panics with ErrAbortHandler.
CopyFails(r) ==
    /\ MayPanic
    /\ Go(r, "copying", "aborted")
    /\ UNCHANGED <<vars, response, meters>>

\* Slip: the timeout applies only where there is none.
NoDeadline == RouteTimeout <= 0

\* Whether the round trip and the copy run under a deadline.
HasDeadline == RouteTimeout > 0

CopyTimesOut(r) == HasDeadline /\ CopyFails(r)

-----------------------------------------------------------------------------
(***************************************************************************)
(* The way back up.                                                        *)
(***************************************************************************)

\* Slip: 500 itself does not count.
IsFailureOffByOne(code) == code > 500

\* What CircuitBreak reports to the breaker as an error.
IsFailure(code) == code >= 500

Judge(r) ==
    /\ Go(r, "served", "unwinding")
    /\ IF IsFailure(StatusCode(r)) THEN OnFailure(r) ELSE OnSuccess(r)
    /\ UNCHANGED <<response, meters>>

\* Metrics counts the request under StatusCode, Logging logs it.
Return(r) ==
    /\ Go(r, "unwinding", "done")
    /\ active' = active - 1
    /\ UNCHANGED <<vars, response, observed, gauge>>

\* Slip: Dec is called after next.ServeHTTP instead of being deferred.
RecoverNoDefer(r) ==
    /\ Go(r, "aborted", "recovered")
    /\ Panic(r)
    /\ WriteBare(r, 500)
    /\ UNCHANGED <<status, meters>>

\* The panic passes through CircuitBreak, Metrics and Logging, which run only
\* what they deferred, and Recovery writes its 500.
Recover(r) ==
    /\ Go(r, "aborted", "recovered")
    /\ Panic(r)
    /\ WriteBare(r, 500)
    /\ active' = active - 1
    /\ UNCHANGED <<status, observed, gauge>>

Passage(r) ==
    \/ Preflight(r) \/ RateLimited(r) \/ Allowed(r)
    \/ ReadState(r) \/ SetGauge(r)
    \/ Enter(r) \/ EnterCounted(r) \/ Unavailable(r)
    \/ NoTarget(r) \/ Forward(r)
    \/ Judge(r) \/ Return(r) \/ Recover(r)

Upstream(r) ==
    \/ Inform(r) \/ Respond(r) \/ RoundTripFails(r)
    \/ CopyDone(r) \/ CopyFails(r)

Clock == Tick /\ UNCHANGED <<stage, response, meters>>

PipelineNext ==
    \/ \E r \in Requests : Receive(r) \/ Passage(r) \/ Upstream(r)
    \/ Clock

PipelineSpec == PipelineInit /\ [][PipelineNext]_pipelineVars

\* A goroutine that can run runs and time passes.  An upstream owes nothing: a
\* round trip ends at the latest when the transport's ResponseHeaderTimeout
\* expires, the copy of a body when the route's deadline does, if it has one.
PipelineFairness ==
    /\ WF_pipelineVars(Clock)
    /\ \A r \in Requests :
        /\ WF_pipelineVars(Passage(r))
        /\ WF_pipelineVars(RoundTripTimesOut(r))
        /\ WF_pipelineVars(CopyTimesOut(r))

PipelineFairSpec == PipelineSpec /\ PipelineFairness

-----------------------------------------------------------------------------
PipelineTypeOK ==
    /\ stage \in [Requests -> Going \cup Over]
    /\ status \in [Requests -> {0} \cup Codes]
    /\ sent \in [Requests -> {0} \cup (Codes \ {EarlyHints})]
    /\ answers \in [Requests -> 0..2]
    /\ observed \in [Requests -> {"none", "Closed", "Open", "HalfOpen"}]
    /\ \A r \in Requests : stage[r] = "observed" => observed[r] # "none"
    /\ gauge \in NoSample .. 2
    /\ active \in Int

\* The gauge of active requests counts exactly the requests inside the chain:
\* no way out, a panic included, forgets to take its request off.
ActiveIsExact == active = Cardinality({r \in Requests : stage[r] \in Going})

\* No link of the chain answers a request that another has answered: a final
\* status is written once, except by Recovery after a body that broke off.
AnsweredOnce ==
    \A r \in Requests :
        /\ stage[r] # "recovered" => answers[r] <= 1
        /\ stage[r] = "done" => answers[r] = 1

\* Whatever link or upstream produced it, the status that Metrics counts and
\* Logging logs is the one the client got, unless an informational response
\* came first.
RecordedAsSent ==
    \A r \in Requests :
        stage[r] = "done" /\ ~Informational(status[r]) => StatusCode(r) = sent[r]

\* The breaker is told of a failure exactly when the client got a server error,
\* and of a success otherwise, except that an informational response hides the
\* server error that follows it.
JudgedAsSent ==
    [][\A r \in Requests : stage[r] = "served" /\ stage'[r] # "served" =>
         IF sent[r] >= 500 /\ ~Informational(status[r])
           THEN OnFailure(r)
           ELSE OnSuccess(r)]_pipelineVars

\* The route uses its breaker as the breaker expects to be used: every step of
\* the chain is a step of CircuitBreaker or none of its business, so all that
\* is true of a breaker in isolation is true of the one in the chain.
UsesBreaker == Spec

\* Every request that arrives is done with: no upstream, however slow or
\* broken, holds a request for ever on a route that has a timeout.
EveryRequestEnds == \A r \in Requests : stage[r] \in Going ~> stage[r] \in Over

\* Requests keep reaching the breaker.
Traffic == []<><<\E r \in Requests : Allowed(r)>>_pipelineVars

HalfOpenIsLeft == state = "HalfOpen" ~> state # "HalfOpen"

\* A half-open period that loses no request to a panic ends: whatever the
\* upstream does with the requests it admitted, one of them is judged.
TrialSettles == [](lost = 0) => HalfOpenIsLeft

\* The breaker's promise of automatic recovery, without conditions: while
\* requests keep coming, no half-open period lasts for ever.
TrialAlwaysSettles == Traffic => HalfOpenIsLeft

\* Auto recovery: a route whose upstream stops failing closes its breaker for
\* good, as long as no half-open request is lost to a panic.
RouteRecovers ==
    /\ Traffic
    /\ [](lost = 0)
    /\ <>[][~\E r \in Requests : OnFailure(r)]_pipelineVars
    => <>[](state = "Closed")

\* What the help text of the metric says its values mean:
\* "0=closed, 1=open, 2=half-open".  (The Grafana dashboard of the repository has
\* 1 for half-open and 2 for open, and so shows these two the other way round.)
HelpText == {<<0, "Closed">>, <<1, "Open">>, <<2, "HalfOpen">>}

\* The breaker's gauge, set before Execute from a state read earlier, lags
\* behind, but once the state stays the gauge has, for good, the number that the
\* metric's help text gives for that state.
GaugeSettles ==
    \A s \in {"Closed", "Open", "HalfOpen"} :
        Traffic /\ <>[](state = s) => <>[](<<gauge, s>> \in HelpText)

\* What Recovery promises: a request whose handler panics is answered 500.
PanicGets500 == \A r \in Requests : stage[r] = "recovered" => sent[r] = 500
=============================================================================
