# GateForge in TLA+

A verification project for the GateForge API gateway (Go, under `src/`): TLA+
modules of its components, TLC runs on small instances, and theorems checked by
TLAPS for every value of the constants.  `PROJECT.json` maps each definition to
the lines it models and lists the runs, mutants, findings, hazards and theorems.

## 1. The system

GateForge reads `gateway.yaml`, builds one handler chain per route and serves
it, and rebuilds the chains when the file changes.

| Part | Source | State | Operations |
|:--|:--|:--|:--|
| Circuit breaker | `internal/circuit` | state, time of last change, half-open count, failure window, totals | `Execute`, `Reset` |
| Rate limiter | `internal/ratelimit` | `sync.Map` of token buckets, each with a lock | `Allow`, the sweep, `Stop` |
| Health checker | `internal/balancer/health.go` | status and failure count per URL | rounds of checks, cancellation |
| Balancers | `internal/balancer/{roundrobin,weighted}.go` | healthy flags; a counter, or current weights | `Next`, `SetHealthy` |
| Configuration | `internal/config/{config,loader}.go` | none | `Load`: parse, environment, defaults, `Validate` |
| Watcher | `internal/config/watcher.go` | `closed`, a mutex, the fsnotify watch | `watch`, `reload`, `Close` |
| Router | `internal/server/router.go` | the `ServeMux` | `BuildRouter` |
| Server, main | `internal/server/server.go`, `cmd/gateforge` | the handler, the listener | start, `SetHandler`, signal, `Shutdown`, exit |
| Middleware, proxy | `internal/middleware`, `internal/proxy` | per request: status seen, status sent; two gauges | the chain around `ReverseProxy` |

How they interact: a request passes Recovery, RequestID, Logging, Metrics, CORS,
RateLimit (`Allow`), CircuitBreak (`Execute`) and the proxy (`Next`).  One
goroutine per route checks the health of its targets and calls `SetHealthy`; one
per limiter sweeps stale buckets; the watcher's goroutine reloads and calls
`SetHandler`; a goroutine of main waits for a signal and calls `Shutdown`.

What makes it hard, and what should hold:

- *Breaker*: `Execute` takes the lock three times, so results arrive in a state
  other than the one that admitted the request, and a panic skips the last
  step.  It should trip exactly on recent failures, admit a bounded number of
  probes, leak none, and recover.
- *Limiter*: the clock is read before the lock, and the sweep deletes after it
  has let go of the lock.  It should enforce burst plus rate whatever the order.
- *Health and balancing*: flags change between calls.  Only healthy targets
  should be chosen, none starved, and the weighted distribution smooth.
- *Request path*: a response may begin and break off, a panic unwinds links that
  have work left to do, and a slow upstream holds everything above it.  Each
  request should be answered once, recorded and judged by what it was answered,
  and end; the breaker should see matching calls only.
- *Reload and shutdown*: files are read half-written, replaced by renames, or
  accepted and then refused by the mux; reload races `Close`, and main races
  `Shutdown`.  Only valid configurations should run, every valid change should
  arrive, and requests in flight should finish.

The full list, line by line, is under `hazards` in `PROJECT.json`.

## 2. Modules

| Module | Models |
|:--|:--|
| `CircuitBreaker` | the breaker, one action per critical section and way out |
| `BreakerPromise` | what a breaker promises: abstract specification, implemented by `CircuitBreaker` |
| `TokenBucket` | `Allow` in three steps (clock, map, lock), the sweep in two per key |
| `HealthChecker` | the checker's goroutine and the balancer's flags |
| `RoundRobin`, `WeightedRoundRobin` | the balancers, each composed with `HealthChecker` |
| `Pipeline` | a request's way through the chain and the proxy; extends `CircuitBreaker` and takes its steps where `CircuitBreak` does |
| `RouterConfig` | `Load`'s overrides, defaults and validation, `NewFromConfig`, and the patterns of `BuildRouter` with `ServeMux`'s rules on parsing and conflicts |
| `Gateway` | main, watcher, shutdown goroutine, operator and requests; extends `RouterConfig` |
| `*Proofs` | the theorems about the module they extend |
| `ArithmeticLemmas` | lemmas on remainders, sums over finite sets and induction that the proofs share |
| `MC*` | the instances for TLC |

Conventions.  A critical section under one mutex is one action.  Variables keep
the names of the Go fields; those marked *history* only record what the
properties speak of and guard nothing.  A definition commented "Slip" is a
plausible mistake in the definition that follows it; no action uses it, and the
mutants of `PROJECT.json` put it in its place to show that a property notices.

**CircuitBreaker.**  `pc[r]` is where request `r` is in `Execute`:
`AdmitClosed`, `AdmitFirstProbe`, `AdmitProbe` and `Reject` are the ways out of
`beforeRequest`; `CountRequest` is the separate `totalRequests++`; `OnSuccess`,
`OnFailure` and `Panic` end the call.  Times are ages, which saturate at
`AgeCap`, above every limit they are compared with; totals saturate at
`StatsCap`.  `probes`, `lost` and `resets` are history.

**TokenBucket.**  Tokens are counted in ticks: a token is worth `TokenTicks`
(one over the rate), so any rational rate is an instance.  `float64` rounding is
left out.  `heap` holds every bucket ever stored, so that a caller can go on with
one that the sweep has taken out of the map.  `Range` comes to each key once, in
any order, and looks at the bucket that is there at that moment: one that is
stored while it runs is visited if its key's place has not been passed.  `owner`
and `dropped` are history: whose each bucket was, and which were deleted since
the interval began.

**HealthChecker.**  A check is one action, taken when its result is recorded.
A cancelled context makes the remaining checks of a round fail, except that the
check under way may have had its answer before (`answered`).  Several targets
may share a URL, as in a file that repeats one.

**RoundRobin.**  The 64-bit counter is folded to `CounterMod`, a multiple of
`N` in the runs, where `counter mod N`, all the code uses of it, is unchanged.
**WeightedRoundRobin** keeps signed current weights as the code does.

**Pipeline.**  `stage[r]` is where the goroutine of request `r` is: `received`
(below Metrics), `allowed` (below RateLimit), `observed` and `entering` (around
the gauge), `executing` (in `Execute`, where `pc[r]` of the breaker goes on),
`forwarded`, `copying`, `served`, then `unwinding` to `done`, or `aborted` to
`recovered`.  A step is one access to shared state or one answer.  Of a response
its codes are kept: `status` is what a `responseWriter` holds (the first code,
informational ones included), `sent` what net/http sends (the first final one).
The breaker's gauge holds the number of a state in the code's `iota` order.
What the limiter and the balancer decide is chosen freely, so the results hold
for whatever `TokenBucket` and the balancers do.  The `ReverseProxy` is external:
it forwards 1xx responses, calls the error handler when the round trip fails and
panics with `ErrAbortHandler` when the copy of a body fails.

**RouterConfig and Gateway.**  A configuration is a record of the fields the
code looks at; optional parts and environment variables are sequences of none or
one value, and strings of which only a few are told apart are members of small
sets.  `Completed` is `Load` up to `Validate`.  `Buildable` says that no call of
`mux.Handle` panics: each pattern parses (`Parses`: the method is a token, a path
with a method is clean, braces are wildcards; a metrics path starts with a slash)
and no two conflict.  The operator saves in place
(truncate, then route by route) or, with `MayReplace`, by renaming.  Saving in
place raises write events, merged above `MaxEvents`; renaming takes the watch
away.  `Reload`, `Load` and `Apply` are `reload` under its mutex, `MainClose`
waits for that mutex.  A panic of `BuildRouter` crashes the process.

How the modules fit: `ComponentsFed` says that a route that is served hands its
balancer, checker and store what their modules assume (distinct targets apart,
see below), and `UsesBreaker` that the chain uses the breaker as its module says.

## 3. Runs

| Run | Result | Distinct states | What it shows |
|:--|:--|--:|:--|
| `breaker` | pass | 40 598 | window, probes, slots, totals and `BreakerPromise`, with three requests, panics and Reset |
| `token_bucket` | pass | 1 415 428 | rate bound, no debt and honest Retry-After per bucket; per client, the bound once more for each bucket deleted |
| `token_bucket_sweep_race` | violation | | the sweep deletes a bucket in use: a second burst |
| `round_robin` | pass | 14 688 | with the health checker: status, count and flag agree, outages and recoveries are noticed; healthy targets only, none starved by the others' flapping |
| `weighted_round_robin` | pass | 23 520 | healthy targets only, smooth, exact per cycle, no drift |
| `pipeline` | pass | 138 229 | answered once, recorded and judged as answered, active gauge exact, breaker's gauge settles on the number its help text gives, breaker used as it expects; every request ends, the route recovers |
| `pipeline_abort` | violation | | bodies that break off use up the half-open slots, and the route answers 503 for good |
| `pipeline_panic` | violation | | Recovery's 500 comes after the upstream's header |
| `gateway` | pass | 129 108 | never an invalid configuration, components fed as they assume, no swap after Close; changes saved in place arrive, a signal ends the process |
| `gateway_replace` | violation | | a change saved by renaming is never seen |
| `gateway_conflict` | violation | | a file that passes `Validate` panics in the reload |
| `gateway_drain` | violation | | main returns while requests are active |

A violation run states what a document, comment or test says and shows that the
code does otherwise; `findings` quotes the line.

Smaller differences between documents and code have no run of their own:

- The probe that starts a half-open period is not counted, so `ProbeLimit` allows
  one more than `half_open_max_requests`.
- A caller of `Allow` that is overtaken between the clock and the lock can be
  refused before the burst is used up.
- With a URL configured twice, only its first entry leaves the rotation.
- A reload does not apply a changed `server.port`.
- The Grafana dashboard (`deployments/grafana/dashboards/gateforge.json:419`)
  decodes the breaker's gauge as 1=half-open and 2=open; the code, and the help
  text in `metrics.go:45`, have 1=open and 2=half-open.  `GaugeSettles` is about
  the help text's numbers: on the dashboard, an open breaker is shown as half-open
  and the other way round.
- A 1xx response hides the status that follows it from the log, the counters and
  the breaker (`RecordedAsSent` and `JudgedAsSent` state the exception).
- Metrics that are switched off without a path come back on
  (`MetricsDefaults`), although the `README.md` lists a switch.
- The upstream is never logged, `gateforge_upstream_healthy` is never set,
  `X-Forwarded-Host` is the target's host, and a route whose methods lack OPTIONS
  answers a preflight with 405: data that the modules leave out.

Bounds and why they are enough:

- *Breaker*: threshold 2 needs two failures that can age apart; one half-open
  slot and three requests give the uncounted probe, a counted one and a late
  result of an earlier period; ages reach the window and go past the timeout.
- *Limiter*: two callers overtake each other at one bucket, burst 2 leaves a
  token to take away, and four ticks span the interval counted, one bucket going
  stale, its deletion and the next bucket.  Buckets of different keys share
  nothing, so one key is enough.  Deletions before the interval, which
  `ClientBound` does not count, need a longer clock: they are left to the theorem.
- *Balancers*: three targets are the first number at which skipping a target
  differs from alternating; weights 3, 1, 2 give unequal turns; threshold 2 has a
  failure that does not yet count (1 in the weighted run, where only the flags
  matter).
- *Pipeline*: two requests are enough for one to be unwound, rejected or judged
  while the other holds the slot, for two to set the gauge in the wrong order and,
  one after the other, for the uncounted probe and the counted one to be lost.
  Each request runs over and over.  A threshold of 1 opens the breaker with one
  failure, the window being the business of `breaker`; a timeout of 1 needs two
  ticks, so that something may restart it; the upstream answers 200 or 500, the
  two sides of the breaker's test, besides 103 and its failures.
- *Gateway*: a two-route file can be read when only its first route is there,
  which is valid by itself; the set of files holds two valid ones, one with a
  limit without a burst, a conflicting one and one with a method that is no token;
  two merged events outlast one
  reload.  Requests do not affect each other, so one is enough.

Fairness.  Request goroutines that can run do; the clock ticks; a round trip ends
with the transport's `ResponseHeaderTimeout` and the copy of a body with the
route's deadline, when it has one (`RoundTripTimesOut`, `CopyTimesOut`), and no
other step of an upstream is owed; that new requests keep coming is a premise of
the properties that need it (`Traffic`); the ticker of the health checker fires
and each check ends with its timeout; main, the watcher and `Shutdown`'s deadline make progress.  Only
`MainClose` is strongly fair: `reload` takes the mutex again and again, and a Go
mutex hands over to a waiter after 1 ms.  The operator, signals, clients and
`Reset` are under no obligation.  Deadlock checking is off where the process
really stops (`gateway*`).
Symmetry is used in safety runs only.

## 4. Proofs

All theorems hold for every number of requests, callers, keys and targets and
every configuration that meets the named assumptions, which TLC evaluates in the
runs: `RequestsAssumption` (finitely many requests), `ConfigAssumption` and
`BoundsAssumption` of the breaker (thresholds and limits may be any integers,
as `Validate` does not look at them), `ConfigAssumption`, `IntervalAssumption`
and `BoundAssumption` of the limiter (rate and burst positive, as `Validate`
requires), `TargetsAssumption` and `ThresholdAssumption` of the checker,
`CounterAssumption` and `WeightAssumption` of the balancers (the counter's range
is at least the number of targets; weights are positive, as `NewFromConfig`
makes them), `RouteAssumption` of the pipeline (any timeout, final upstream
codes), and `GatewayAssumption`, `NamesAssumption`, `TokensAssumption` and
`EnvAssumption` (files, paths, methods and environment are typed).

| Module | Theorems |
|:--|:--|
| `CircuitBreakerProofs` | `TypeCorrect`, `ClosedWindow`, `RecentFailuresTrip`, `CleanupAlwaysFilters`, `SlotsAccounted`, `ProbesLimited`, `StatsAlwaysConsistent`, `KeepsItsPromise` |
| `TokenBucketProofs` | `TypeCorrect`, `BucketsBounded`, `AlwaysSolvent`, `QuotesHonoured`, `ClientsBounded` |
| `HealthCheckerProofs` | `HCTypeCorrect`, `DownExactly`, `FlagsFollow` |
| `RoundRobinProofs` | `TypeCorrect`, `NeverSelectsDown`, `AlwaysSelectsHealthy`, `NeverPassedOver` |
| `WeightedRoundRobinProofs` | `TypeCorrect`, `AlwaysSelectsHealthy`, `NoDrift`, `AlwaysSmooth` |
| `PipelineProofs` | `PipelineTypeCorrect`, `ActiveExact`, `OneAnswer`, `TrueRecords`, `TrueJudgement`, `BreakerUsed`, `RouteKeepsPromise` |
| `GatewayProofs` | `TypeCorrect`, `AlwaysValid`, `CloseEndsSwaps`, `ComponentsAlwaysFed`, `PlainBuilds`, `PlainNeverCrashes` |

Some theorems have a hypothesis of their own, as the property is false in
general:

- `DistinctUrls` (`FlagsFollow` and what rests on it): no URL is configured twice.
- `[]Seamless` (round robin): no scan straddles the end of the counter's range.
  The 64-bit range is no multiple of most numbers of targets, so the one call
  that does tries a target twice and misses another.  `NeverSelectsDown`
  needs no such hypothesis.
- `SavesPlain` (`PlainNeverCrashes`): every file saved is `Plain`, which is enough
  but not necessary; `gateway_conflict` shows a crash with one that is not.

The arguments:

- *Failure window* (`WindowInv`).  That the window holds recent failures only is
  not inductive: the cleanup drops a prefix, which is right only because the
  list is in time order (`FailuresInOrder`).  `CleanedRecent` shows that what
  remains is recent and in order again.  For the same reason `Cleaned`, which
  drops a prefix, is what the code's loop computes (`Kept`, entry by entry):
  in order, the expired failures come first (`ExpiredFirst`), the loop keeps
  nothing of them and everything after them (`KeptIsCleaned`, by induction on the
  entries seen).
- *Half-open slots* (`TrialInv`).  The count of slots says something about
  requests only if the probes are in flight and none survives its period; with
  both, `halfOpenReqs + 1` is the number of probes plus the panics, and
  `ProbesLimited` follows from the type of `halfOpenReqs`.
- *Totals*.  `StatsConsistent` is inductive with the calls under way included;
  `RunningCount` says how each step changes their number.
- *Refinement* (`PromiseStep`).  Each step of the breaker is one step of
  `BreakerPromise`, or a stutter.  The mapping reads the promise's count of
  admitted requests off `halfOpenReqs`, plus the one the code does not count.
- *Token buckets* (`LedgerInv`).  A late caller makes time run backwards, so
  neither the balance nor its growth is bounded step by step.  What is kept is
  `tokens - lastRefill + spent`: a refill adds as much to `tokens` as to
  `lastRefill`, backwards too, and a grant moves a token from `tokens` to
  `spent`.  With the cap at the burst this bounds the grants of any interval;
  that stamps are never ahead of the clock gives solvency.
- *Clients* (`OwnBuckets`, `CountedInv`, `SumInv`).  A client's grants are spread
  over the buckets it has had, each within its own bound, so what is left is to
  count those that can have granted anything in the interval.  A caller holds a
  bucket of its own key (`OwnBuckets`), and a bucket that has granted, or that a
  caller with a stamp in the interval holds, is the one in the map or was dropped
  since the interval began (`CountedInv`): one that was deleted before is held
  only with earlier stamps.  What the client has spent is the sum over its
  buckets (`SumInv`).
- *Health*.  `DownMeansThreshold` is inductive; `FlagsFollow` needs distinct
  URLs, without which it is false: `SetHealthy` stops at the first match.
- *Round robin* (`WaitsForTurn`).  N consecutive positions of the counter are all
  the targets (`ScanReaches`), so a scan finds a healthy one.  That a healthy
  target waits for fewer than N calls is not inductive: what is kept is that it has
  waited no longer than since its last turn, whose distance the counter tells.
  Other targets' flags play no part in that.
- *Weighted, no drift* (`Spread`).  A bound on single current weights is not
  inductive: all the others may be ahead at once, and then one is chosen.  What
  is kept is a bound on every *group*: with W the weight of all targets, k of
  them are owed, or owe, at most `k * (m - k) * W / 2` together (`Room`).  A call
  chooses the highest.  A group without it that came out of its room would, with
  it, have been out of the room of `k + 1` before (`RoomBelowHighest`); a group
  with it is held by the rest, none of which is higher (`RoomWithHighest`).  With
  m twice the number of targets, room grows with the group, so that a target may
  leave or rejoin with its weight forgotten (`ZeroedWithin`).
- *Weighted, smooth* (`Cycle`).  Until a target goes down a current weight is
  the distance from the exact share, no one owes a whole call, and m is the
  number of targets itself, so that bounds on weights are bounds on shares.  After
  W calls every distance is a multiple of W above -W, and they sum to zero
  (`CycleServes`).  How far behind a target may be grows with the number of
  targets, as it must: with weights 1, 1, 1, 5, 5, 5 one falls more than a whole
  call behind.
- *Gateway*.  `NeverInvalid` is strengthened by what `reload` and main carry
  between validating and using it; no swap after Close holds because a closed
  watcher is never inside its critical section and `Close` comes after serving.
  Neither argument looks inside `Validate`.  `ComponentsFed` does: with the type
  of configurations, which the completion of half-written files keeps
  (`CompletedType`, `ConfigurationStep`), a valid route has targets that all
  parse and positive limits (`ValidRouteFeeds`).
- *Patterns*.  A configuration is `Plain` if its patterns parse, no path ends in a
  slash, no route lists a method twice, the metrics have a path of their own, and a route that lists methods is neither nested with
  another nor a prefix of a system path (routes for every method may be nested,
  with different paths).  Patterns that cover each other's paths are the same path
  (`CoverFacts`), and the cases by who registered the two patterns (`SameRoute`,
  `TwoRoutes`, `RouteAndSystem`, `TwoOfSystem`) give `PlainBuilds`.  A file that
  is only partly written is plain if the whole is (`PlainPart`), and `TypeOK` says
  that nothing else is ever loaded: hence `PlainNeverCrashes`.  (The panics meant
  are those of `mux.Handle` on the patterns modelled, see section 5.)
- *Pipeline*.  `AnswersInOrder` ties the number of answers to the stage and the
  recorded status to the one sent: before any answer nothing is sent, after the
  first the two agree unless the first code was informational.  `AnsweredOnce`,
  `RecordedAsSent` and `JudgedAsSent` follow.  `BreakerStep` shows that each step
  of the chain is a step of the breaker or leaves it alone, so `BreakerUsed`, and
  with it every theorem about `CircuitBreaker`, holds of the route.  `ActiveStep`
  follows the set of requests inside the chain through each step.

The prover cannot instantiate the library's induction theorems, which take an
operator.  `ArithmeticLemmas` states induction for sets instead (a least
counterexample, found with the library's `WFMin`), which is enough for sums over
targets (`Total` and its lemmas) and for the loop of the cleanup.

Only model-checked: the liveness properties (`EveryRequestEnds`, `TrialSettles`,
`RouteRecovers`, `GaugeSettles`, `OutageNoticed`, `RecoveryNoticed`, `EditsApply`,
`SignalStops`), as liveness under fairness is out of the prover's reach.  Every
other property of a passing run is a theorem.

## 5. What is not modelled

- Data that nothing decides on: headers, request IDs, the rewriting of the
  outgoing request (`stripPrefix`, forwarding headers), CORS and server settings,
  log records, counters and histograms that only grow, `Stats` and the times and
  texts of health statuses.
- The bytes of a response: whether an answer still reaches the client after the
  server's write timeout is outside `Pipeline`, and so are upgraded connections,
  which the response writers do not support (the error handler answers 502).
- YAML, `${VAR}` expansion, rates that are not integers, paths with `{wildcard}`
  segments, methods with blanks in them and metrics paths with a host.
- `float64` rounding of tokens, the headers of rate-limit decisions, the
  extraction of the client key.
- What a reload leaves behind: old health checkers and sweepers go on until the
  process ends, unreachable from the new handler; and that breakers and buckets
  start again from the initial state of their modules.
- A data race on `http.Server.Handler`: `SetHandler` is taken as atomic.
- Metric registration, loggers, `internal/domain` (unused by the gateway) and the
  demo upstream.

## 6. Plan

Done: every component that changes state at run time, the request path that
connects them, configuration from file to components, and the theorems of
section 4.

Next: a bound on how far behind a target can be that is exact for its weights,
and the limiter and a balancer composed with `Pipeline` in place of free choices.
