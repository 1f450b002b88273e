--------------------------- MODULE GatewayProofs ---------------------------
(***************************************************************************)
(* For any set of configurations the operator may save, in place or by     *)
(* renaming, the gateway only ever serves one that passed Validate, and    *)
(* never swaps its handler once main has closed the watcher.               *)
(***************************************************************************)
EXTENDS Gateway, TLAPS

\* What main and the watcher carry from Load to the handler is valid.
CarriesValid ==
    /\ main = "building" => Validate(cfg)
    /\ reloader = "loaded" => Validate(loaded)

\* No reload is past its look at closed when the watcher is closed.
CloseIsAlone == closed => reloader \in {"idle", "woken", "gone"}

\* The watcher is closed after main has started everything.
LateClose == closed => main \notin {"loading", "building", "watching"}

ValidInv == CarriesValid /\ NeverInvalid

\* Every step keeps what is carried, and what is served, valid.
LEMMA ValidStep == ValidInv /\ [Next]_vars => ValidInv'
  <1> SUFFICES ASSUME ValidInv, [Next]_vars
               PROVE  ValidInv'
    OBVIOUS
  <1> USE DEF ValidInv, CarriesValid, NeverInvalid
  <1>1. CASE UNCHANGED <<main, cfg, active, reloader, loaded>>
    BY <1>1
  <1>2. CASE MainLoad
    BY <1>2 DEF MainLoad, watcher
  <1>3. CASE MainBuild
    BY <1>3 DEF MainBuild, watcher
  <1>4. CASE MainWatch
    BY <1>4 DEF MainWatch
  <1>5. CASE MainFails \/ MainClose \/ MainExit
    BY <1>5 DEF MainFails, MainClose, MainExit, watcher
  <1>6. CASE Receive \/ Reload
    BY <1>6 DEF Receive, Reload, server
  <1>7. CASE Load
    BY <1>7 DEF Load, server
  <1>8. CASE Apply
    BY <1>8 DEF Apply, SetHandler, Alive
  <1>9. Operator => UNCHANGED <<main, cfg, active, reloader, loaded>>
    BY DEF Operator, Truncate, WritePart, Replace, server
  <1>10. \/ Signal \/ Deadline \/ Drained
         \/ \E r \in Requests : Accept(r) \/ Answer(r)
         \/ UNCHANGED vars
         => UNCHANGED <<main, cfg, active, reloader, loaded>>
    BY DEF Signal, Deadline, Drained, Accept, Answer, vars, server, watcher
  <1> QED
    BY <1>1, <1>2, <1>3, <1>4, <1>5, <1>6, <1>7, <1>8, <1>9, <1>10
    DEF Next, Main, Reloader

\* Every step keeps a closed watcher out of its critical section.
LEMMA CloseStep == CloseIsAlone /\ [Next]_vars => CloseIsAlone'
  <1> SUFFICES ASSUME CloseIsAlone, [Next]_vars
               PROVE  CloseIsAlone'
    OBVIOUS
  <1> USE DEF CloseIsAlone
  <1>1. CASE UNCHANGED <<reloader, closed>>
    BY <1>1
  <1>2. CASE MainWatch \/ MainClose
    BY <1>2 DEF MainWatch, MainClose
  <1>3. CASE Reloader
    BY <1>3 DEF Reloader, Receive, Reload, Load, Apply
  <1>4. \/ MainLoad \/ MainBuild \/ MainFails \/ MainExit \/ Operator
        \/ Signal \/ Deadline \/ Drained
        \/ \E r \in Requests : Accept(r) \/ Answer(r)
        \/ UNCHANGED vars
        => UNCHANGED <<reloader, closed>>
    BY DEF MainLoad, MainBuild, MainFails, MainExit, Operator, Truncate,
           WritePart, Replace, Signal, Deadline, Drained, Accept, Answer, vars,
           watcher
  <1> QED
    BY <1>1, <1>2, <1>3, <1>4 DEF Next, Main

\* Only Apply, and main before it serves, change the handler: neither does
\* after Close.
LEMMA SwapStep ==
    CloseIsAlone /\ LateClose /\ [Next]_vars
        => [closed => UNCHANGED active]_vars
  <1> SUFFICES ASSUME CloseIsAlone, LateClose, closed, [Next]_vars
               PROVE  UNCHANGED active
    OBVIOUS
  <1>1. ~Apply /\ ~MainBuild
    BY DEF Apply, MainBuild, CloseIsAlone, LateClose
  <1> QED
    BY <1>1 DEF Next, Main, Reloader, MainLoad, MainWatch, MainFails, MainClose,
        MainExit, Receive, Reload, Load, Operator, Truncate, WritePart, Replace,
        Signal, Deadline, Drained, Accept, Answer, vars, server

\* No step closes the watcher early, or takes main back.
LEMMA LateStep == LateClose /\ [Next]_vars => LateClose'
  <1> SUFFICES ASSUME LateClose, [Next]_vars
               PROVE  LateClose'
    OBVIOUS
  <1> USE DEF LateClose
  <1>1. CASE UNCHANGED <<main, closed>>
    BY <1>1
  <1>2. CASE MainLoad \/ MainBuild \/ MainWatch
    BY <1>2 DEF MainLoad, MainBuild, MainWatch, watcher
  <1>3. CASE MainFails \/ MainClose \/ MainExit
    BY <1>3 DEF MainFails, MainClose, MainExit
  <1>4. CASE Apply
    BY <1>4 DEF Apply
  <1>5. \/ Receive \/ Reload \/ Load \/ Operator
        \/ Signal \/ Deadline \/ Drained
        \/ \E r \in Requests : Accept(r) \/ Answer(r)
        \/ UNCHANGED vars
        => UNCHANGED <<main, closed>>
    BY DEF Receive, Reload, Load, Operator, Truncate, WritePart, Replace, Signal,
           Deadline, Drained, Accept, Answer, vars, watcher, server
  <1> QED
    BY <1>1, <1>2, <1>3, <1>4, <1>5 DEF Next, Main, Reloader

-----------------------------------------------------------------------------
\* The gateway never serves a configuration that does not pass Validate,
\* however the file is saved and whenever it is read.
THEOREM AlwaysValid == Spec => []NeverInvalid
  <1>1. Init => ValidInv
    BY DEF Init, ValidInv, CarriesValid, NeverInvalid
  <1>2. ValidInv => NeverInvalid
    BY DEF ValidInv
  <1> QED
    BY <1>1, <1>2, ValidStep, PTL DEF Spec

\* Once the watcher is closed, the handler stays.
THEOREM CloseEndsSwaps == Spec => NoSwapAfterClose
  <1>1. Init => CloseIsAlone /\ LateClose
    BY DEF Init, CloseIsAlone, LateClose
  <1> QED
    BY <1>1, SwapStep, CloseStep, LateStep, PTL DEF Spec, NoSwapAfterClose

-----------------------------------------------------------------------------
(***************************************************************************)
(* What the configuration hands to the components.                         *)
(***************************************************************************)

\* Defaults and overrides keep a configuration a configuration.
LEMMA CompletedType ==
    ASSUME NEW c \in GatewayConfig
    PROVE  Completed(c) \in GatewayConfig
<1>1. /\ Override(EnvPort, c.port) \in Int
      /\ Override(EnvLevel, c.logging.level) \in Levels
      /\ Override(EnvFormat, c.logging.format) \in Formats
      /\ Override(EnvMetrics, c.metrics.enabled) \in BOOLEAN
  <2>1. /\ c.port \in Int /\ c.metrics.enabled \in BOOLEAN
        /\ c.logging.level \in Levels /\ c.logging.format \in Formats
    BY DEF GatewayConfig, MetricsConfig
  <2>2. Override(EnvPort, c.port) \in Int
    BY <2>1, EnvAssumption DEF Override
  <2>3. Override(EnvLevel, c.logging.level) \in Levels
    BY <2>1, EnvAssumption DEF Override
  <2>4. Override(EnvFormat, c.logging.format) \in Formats
    BY <2>1, EnvAssumption DEF Override
  <2>5. Override(EnvMetrics, c.metrics.enabled) \in BOOLEAN
    BY <2>1, EnvAssumption DEF Override
  <2> QED
    BY <2>2, <2>3, <2>4, <2>5
<1>2. applyEnvOverrides(c) \in GatewayConfig
  BY <1>1 DEF applyEnvOverrides, GatewayConfig, MetricsConfig
<1>3. ASSUME NEW cb \in CircuitBreakerConfig
      PROVE  BreakerDefaults(cb) \in CircuitBreakerConfig
  BY DEF BreakerDefaults, CircuitBreakerConfig, Default
<1>4. ASSUME NEW t \in TargetConfig
      PROVE  TargetDefaults(t) \in TargetConfig
  BY DEF TargetDefaults, TargetConfig, Default
<1>5. ASSUME NEW route \in RouteConfig
      PROVE  RouteDefaults(route) \in RouteConfig
  <2> DEFINE ts == [j \in DOMAIN route.targets |-> TargetDefaults(route.targets[j])]
             bs == [j \in DOMAIN route.breaker |-> BreakerDefaults(route.breaker[j])]
             dt == Default(route.timeout, 0, 30)
             st == Default(route.strategy, "unset", "round-robin")
  <2>1. /\ route.targets \in Seq(TargetConfig)
        /\ route.breaker \in Seq(CircuitBreakerConfig)
        /\ route.timeout \in Int /\ route.strategy \in Strategies
    BY DEF RouteConfig
  <2>2. ts \in Seq(TargetConfig)
    BY <1>4, <2>1
  <2>3. bs \in Seq(CircuitBreakerConfig)
    BY <1>3, <2>1
  <2>4. dt \in Int
    BY <2>1 DEF Default
  <2>5. st \in Strategies
    BY <2>1 DEF Default, Strategies
  <2>6. RouteDefaults(route) = [route EXCEPT
            !.timeout = dt, !.strategy = st, !.targets = ts, !.breaker = bs]
    BY DEF RouteDefaults
  <2> HIDE DEF ts, bs, dt, st
  <2> QED
    BY <2>2, <2>3, <2>4, <2>5, <2>6 DEF RouteConfig
<1>6. ASSUME NEW m \in MetricsConfig
      PROVE  MetricsDefaults(m) \in MetricsConfig
  <2>1. "metrics" \in Names
    BY NamesAssumption
  <2>2. [enabled |-> TRUE, path |-> <<"metrics">>, rooted |-> TRUE, slash |-> FALSE]
          \in MetricsConfig
    BY <2>1 DEF MetricsConfig
  <2> QED
    BY <2>2, Zenon DEF MetricsDefaults
<1>7. ASSUME NEW l \in [level : Levels, format : Formats]
      PROVE  LoggingDefaults(l) \in [level : Levels, format : Formats]
  BY DEF LoggingDefaults, Default, Levels, Formats
<1>8. ASSUME NEW d \in GatewayConfig
      PROVE  ApplyDefaults(d) \in GatewayConfig
  <2> DEFINE rs == [i \in DOMAIN d.routes |-> RouteDefaults(d.routes[i])]
  <2>1. /\ d.routes \in Seq(RouteConfig) /\ d.port \in Int
        /\ MetricsDefaults(d.metrics) \in MetricsConfig
        /\ LoggingDefaults(d.logging) \in [level : Levels, format : Formats]
    BY <1>6, <1>7 DEF GatewayConfig
  <2>2. rs \in Seq(RouteConfig)
    BY <1>5, <2>1
  <2>3. Default(d.port, 0, 8080) \in Int
    BY <2>1 DEF Default
  <2>4. ApplyDefaults(d) =
            [port |-> Default(d.port, 0, 8080), metrics |-> MetricsDefaults(d.metrics),
             logging |-> LoggingDefaults(d.logging), routes |-> rs]
    BY DEF ApplyDefaults
  <2> HIDE DEF rs
  <2> QED
    BY <2>1, <2>2, <2>3, <2>4 DEF GatewayConfig
<1> QED
  BY <1>2, <1>8 DEF Completed

\* Whatever main, the watcher and the operator hold is a configuration.
Configurations ==
    {file, saving, cfg, loaded, active} \subseteq GatewayConfig

\* Every step, a write that leaves the file unfinished included, keeps them so.
LEMMA ConfigurationStep ==
    Configurations /\ [Next]_vars => Configurations'
<1> SUFFICES ASSUME Configurations, [Next]_vars PROVE Configurations'
  OBVIOUS
<1>0. {EmptyConfig, NoConfig, Completed(file)} \subseteq GatewayConfig
  <2>1. EmptyConfig \in GatewayConfig
    BY DEF EmptyConfig, GatewayConfig, MetricsConfig, Levels, Formats
  <2> QED
    BY <2>1, CompletedType DEF NoConfig, Configurations
<1>1. CASE MainLoad \/ MainBuild \/ MainWatch \/ MainFails \/ MainClose \/ MainExit
  BY <1>0, <1>1 DEF Configurations, MainLoad, MainBuild, MainWatch, MainFails,
     MainClose, MainExit, disk, watcher
<1>2. CASE Receive \/ Reload \/ Load \/ Apply
  BY <1>0, <1>2 DEF Configurations, Receive, Reload, Load, Apply, SetHandler, disk,
     server
<1>3. ASSUME NEW c \in Configs, Truncate(c) \/ Replace(c) PROVE Configurations'
  BY <1>0, <1>3, GatewayAssumption DEF Configurations, Truncate, Replace, Written, server
<1>4. ASSUME NEW n \in DOMAIN saving.routes, WritePart(n) PROVE Configurations'
  <2>1. saving \in GatewayConfig /\ saving.routes \in Seq(RouteConfig)
    BY DEF Configurations, GatewayConfig
  <2>2. SubSeq(saving.routes, 1, n) \in Seq(RouteConfig)
    BY <2>1
  <2>3. [saving EXCEPT !.routes = SubSeq(saving.routes, 1, n)] \in GatewayConfig
    BY <2>1, <2>2 DEF GatewayConfig
  <2> QED
    BY <1>0, <1>4, <2>3 DEF Configurations, WritePart, Written, server
<1>5. CASE \/ Signal \/ Deadline \/ Drained
           \/ \E r \in Requests : Accept(r) \/ Answer(r)
           \/ UNCHANGED vars
  BY <1>5 DEF Configurations, Signal, Deadline, Drained, Accept, Answer, vars, disk,
     watcher, server
<1> QED
  BY <1>1, <1>2, <1>3, <1>4, <1>5 DEF Next, Operator, Main, Reloader

\* A configuration may be the whole content of the file, or what is written
\* of it so far.
LEMMA ContentsOf ==
    ASSUME NEW c \in Configs
    PROVE  /\ c \in Contents
           /\ \A n \in DOMAIN c.routes :
                [c EXCEPT !.routes = SubSeq(c.routes, 1, n)] \in Contents
<1>1. c \in GatewayConfig /\ c.routes \in Seq(RouteConfig)
  BY GatewayAssumption DEF GatewayConfig
<1>2. \A n \in 0 .. Len(c.routes) :
        [c EXCEPT !.routes = SubSeq(c.routes, 1, n)] \in Contents
  BY DEF Contents
<1>3. DOMAIN c.routes \subseteq 0 .. Len(c.routes) /\ Len(c.routes) \in 0 .. Len(c.routes)
  BY <1>1
<1>4. SubSeq(c.routes, 1, Len(c.routes)) = c.routes
  BY <1>1
<1>5. [c EXCEPT !.routes = c.routes] = c
  BY <1>1 DEF GatewayConfig
<1> QED
  BY <1>2, <1>3, <1>4, <1>5

\* What config.Load makes of some content, or nothing yet.
Loadable == {Completed(c) : c \in Contents} \cup {NoConfig}

\* A write leaves the file with the content written, and one event more at
\* the most.
LEMMA WrittenType ==
    ASSUME TypeOK, NEW content \in Contents, Written(content)
    PROVE  /\ file' \in Contents
           /\ changed' \in BOOLEAN
           /\ events' \in 0..MaxEvents
<1>1. events \in 0..MaxEvents /\ MaxEvents \in Nat
  BY GatewayAssumption DEF TypeOK
<1>2. events' = events \/ (events < MaxEvents /\ events' = events + 1)
  BY DEF Written
<1>3. file' \in Contents /\ changed' \in BOOLEAN
  BY Zenon DEF Written
<1> QED
  BY <1>1, <1>2, <1>3

\* Every step keeps the types.
LEMMA TypeStep == TypeOK /\ [Next]_vars => TypeOK'
<1> SUFFICES ASSUME TypeOK, [Next]_vars PROVE TypeOK'
  OBVIOUS
<1>0. Completed(file) \in Loadable /\ NoConfig \in Loadable
  BY DEF TypeOK, Loadable
<1>1. loaded \in Loadable /\ cfg \in Loadable /\ active \in Loadable
  BY DEF TypeOK, Loadable
<1>2. CASE MainLoad \/ MainBuild \/ MainWatch \/ MainFails \/ MainClose \/ MainExit
  <2>1. cfg' \in Loadable /\ active' \in Loadable /\ loaded' \in Loadable
    BY <1>0, <1>1, <1>2 DEF MainLoad, MainBuild, MainWatch, MainFails, MainClose,
       MainExit, watcher
  <2>2. changed' \in BOOLEAN /\ closed' \in BOOLEAN /\ expired' \in BOOLEAN
    BY <1>2, Zenon DEF TypeOK, MainLoad, MainBuild, MainWatch, MainFails,
       MainClose, MainExit, disk, watcher, shutdown
  <2> QED
    BY <1>2, <2>1, <2>2 DEF TypeOK, Loadable, MainLoad, MainBuild, MainWatch, MainFails,
       MainClose, MainExit, disk, watcher, shutdown
<1>3. CASE Receive
  <2>1. events' \in 0..MaxEvents
    BY <1>3, GatewayAssumption DEF TypeOK, Receive
  <2> QED
    BY <1>3, <2>1 DEF TypeOK, Receive, disk, server, shutdown
<1>4. CASE Reload \/ Load \/ Apply
  <2>1. cfg' \in Loadable /\ active' \in Loadable /\ loaded' \in Loadable
    BY <1>0, <1>1, <1>4 DEF Reload, Load, Apply, SetHandler, server
  <2> QED
    BY <1>4, <2>1 DEF TypeOK, Loadable, Reload, Load, Apply, disk, server, shutdown
<1>5. ASSUME NEW c \in Configs, Truncate(c) PROVE TypeOK'
  <2>1. EmptyConfig \in Contents
    BY DEF Contents
  <2>2. file' \in Contents /\ changed' \in BOOLEAN /\ events' \in 0..MaxEvents
    BY <1>5, <2>1, WrittenType DEF Truncate
  <2> QED
    BY <1>5, <2>2 DEF TypeOK, Truncate, server, shutdown
<1>6. ASSUME NEW c \in Configs, Replace(c) PROVE TypeOK'
  <2>1. file' \in Contents
    BY <1>6, ContentsOf DEF Replace
  <2>2. changed' \in BOOLEAN
    BY <1>6, Zenon DEF Replace
  <2> QED
    BY <1>6, <2>1, <2>2 DEF TypeOK, Replace, server, shutdown
<1>7. ASSUME NEW n \in DOMAIN saving.routes, WritePart(n) PROVE TypeOK'
  <2>1. saving \in Configs
    BY <1>7 DEF TypeOK, WritePart
  <2>2. [saving EXCEPT !.routes = SubSeq(saving.routes, 1, n)] \in Contents
    BY <2>1, ContentsOf
  <2>3. file' \in Contents /\ changed' \in BOOLEAN /\ events' \in 0..MaxEvents
    BY <1>7, <2>2, WrittenType DEF WritePart
  <2> QED
    BY <1>7, <2>3 DEF TypeOK, WritePart, server, shutdown
<1>8. CASE Signal \/ Deadline \/ Drained
  <2>1. expired' \in BOOLEAN
    BY <1>8, Zenon DEF TypeOK, Signal, Deadline, Drained
  <2> QED
    BY <1>8, <2>1 DEF TypeOK, Signal, Deadline, Drained, disk, watcher, server
<1>9. ASSUME NEW r \in Requests, Accept(r) \/ Answer(r) PROVE TypeOK'
  BY <1>9 DEF TypeOK, Accept, Answer, disk, watcher, server
<1>10. CASE UNCHANGED vars
  BY <1>10 DEF TypeOK, vars, disk, watcher, server, shutdown
<1> QED
  BY <1>2, <1>3, <1>4, <1>5, <1>6, <1>7, <1>8, <1>9, <1>10
  DEF Next, Operator, Main, Reloader

\* The gateway's variables keep their types: whatever is carried to the handler
\* is what Load makes of a content the file had, half-written ones included.
THEOREM TypeCorrect == Spec => []TypeOK
<1>1. Init => TypeOK
  <2> SUFFICES ASSUME Init PROVE TypeOK
    OBVIOUS
  <2>1. file \in Contents
    BY ContentsOf DEF Init
  <2>2. events \in 0..MaxEvents
    BY GatewayAssumption DEF Init
  <2> QED
    BY <2>1, <2>2 DEF Init, TypeOK
<1> QED
  BY <1>1, TypeStep, PTL DEF Spec

\* What a valid route hands to its balancer and its store.
LEMMA ValidRouteFeeds ==
    ASSUME NEW route \in RouteConfig, ValidRoute(route)
    PROVE  /\ DOMAIN NewFromConfig(route) = DOMAIN route.targets
           /\ DOMAIN NewFromConfig(route) # {}
           /\ \A j \in DOMAIN NewFromConfig(route) : NewFromConfig(route)[j] > 0
           /\ \A j \in DOMAIN route.limit :
                route.limit[j].rate > 0 /\ route.limit[j].burst > 0
<1>1. /\ route.targets \in Seq(TargetConfig) /\ route.targets # <<>>
      /\ \A j \in DOMAIN route.targets : route.targets[j].url = "good"
  BY DEF RouteConfig, ValidRoute
<1>2. DOMAIN NewFromConfig(route) = DOMAIN route.targets
  BY <1>1 DEF NewFromConfig
<1>3. DOMAIN route.targets # {}
  BY <1>1
<1>4. ASSUME NEW j \in DOMAIN route.targets
      PROVE  /\ route.targets[j].weight \in Int
             /\ NewFromConfig(route)[j] =
                  IF route.targets[j].weight <= 0 THEN 1 ELSE route.targets[j].weight
  <2>1. route.targets[j] \in TargetConfig /\ route.targets[j].url # "bad"
    BY <1>1
  <2>2. route.targets[j].weight \in Int
    BY <2>1 DEF TargetConfig
  <2> QED
    BY <2>1, <2>2 DEF NewFromConfig
<1>5. \A j \in DOMAIN route.limit :
        route.limit[j].rate > 0 /\ route.limit[j].burst > 0
  BY DEF ValidRoute, ValidLimit
<1> QED
  BY <1>2, <1>3, <1>4, <1>5

\* Every route that is served has its balancer, its health checker and its
\* token buckets run under the assumptions they are verified with.
THEOREM ComponentsAlwaysFed == Spec => []ComponentsFed
<1>1. Init => Configurations
  <2>1. EmptyConfig \in GatewayConfig
    BY DEF EmptyConfig, GatewayConfig, MetricsConfig, Levels, Formats
  <2> QED
    BY <2>1, GatewayAssumption DEF Init, Configurations, NoConfig
<1>2. ASSUME Configurations, NeverInvalid PROVE ComponentsFed
  <2> SUFFICES ASSUME main \in {"watching", "serving", "returning"},
                      NEW i \in DOMAIN active.routes
               PROVE  LET route == active.routes[i]
                          weights == NewFromConfig(route)
                      IN  /\ DOMAIN weights = DOMAIN route.targets /\ DOMAIN weights # {}
                          /\ \A j \in DOMAIN weights : weights[j] > 0
                          /\ \A j \in DOMAIN route.limit :
                               route.limit[j].rate > 0 /\ route.limit[j].burst > 0
    BY DEF ComponentsFed
  <2>1. active.routes[i] \in RouteConfig
    BY <1>2 DEF Configurations, GatewayConfig
  <2>2. ValidRoute(active.routes[i])
    <3>1. Validate(active)
      BY <1>2 DEF NeverInvalid
    <3> QED
      BY <3>1 DEF Validate
  <2> QED
    BY <2>1, <2>2, ValidRouteFeeds
<1> QED
  BY <1>1, <1>2, ConfigurationStep, AlwaysValid, PTL DEF Spec

-----------------------------------------------------------------------------
(***************************************************************************)
(* Which configurations cannot take the gateway down.                      *)
(***************************************************************************)
SystemPaths(c) == {<<"health">>, <<"ready">>, c.metrics.path}

Nested(r, s) == IsPrefix(r, s) \/ IsPrefix(s, r)

\* Routes that serve every method may be nested in each other, and in the way of
\* the system's paths; others may not.  No path ends in a slash, no route lists a
\* method twice, and the pattern of every route and of the metrics can be parsed.
Plain(c) ==
    /\ c.metrics.path \notin {<<"health">>, <<"ready">>}
    /\ MetricsParse(c.metrics) /\ ~c.metrics.slash
    /\ \A i \in DOMAIN c.routes : RouteParses(c.routes[i])
    /\ \A i \in DOMAIN c.routes :
        LET route == c.routes[i]
        IN  /\ ~route.slash
            /\ \A m, n \in DOMAIN route.methods :
                 route.methods[m] = route.methods[n] => m = n
            /\ \/ route.methods = <<>>
               \/ \A path \in SystemPaths(c) : ~IsPrefix(route.path, path)
    /\ \A i, j \in DOMAIN c.routes : i # j =>
        \/ ~Nested(c.routes[i].path, c.routes[j].path)
        \/ /\ c.routes[i].path # c.routes[j].path
           /\ c.routes[i].methods = <<>> /\ c.routes[j].methods = <<>>

\* A path is a prefix of itself, and of no other that is a prefix of it.
LEMMA PrefixFacts ==
    ASSUME NEW r \in Seq(Names), NEW s \in Seq(Names)
    PROVE  /\ IsPrefix(r, r)
           /\ IsPrefix(r, s) /\ IsPrefix(s, r) => r = s
<1>1. IsPrefix(r, r)
  BY DEF IsPrefix
<1>2. ASSUME IsPrefix(r, s), IsPrefix(s, r) PROVE r = s
  <2>1. Len(r) = Len(s) /\ SubSeq(r, 1, Len(r)) = SubSeq(s, 1, Len(s))
    BY <1>2 DEF IsPrefix
  <2>2. SubSeq(r, 1, Len(r)) = r /\ SubSeq(s, 1, Len(s)) = s
    OBVIOUS
  <2> QED
    BY <2>1, <2>2
<1> QED
  BY <1>1, <1>2

\* Paths that cover each other are nested, and the same if each covers the other.
LEMMA CoverFacts ==
    ASSUME NEW p, NEW q, p.path \in Seq(Names), q.path \in Seq(Names)
    PROVE  /\ PathCovers(p, q) => IsPrefix(p.path, q.path)
           /\ PathCovers(p, q) /\ PathCovers(q, p) => p.path = q.path
           /\ p.path = q.path /\ PathCovers(p, q) => (p.subtree <=> q.subtree)
           /\ p.path = q.path /\ (p.subtree <=> q.subtree) => PathCovers(p, q)
<1>1. /\ IsPrefix(p.path, p.path) /\ IsPrefix(q.path, q.path)
      /\ IsPrefix(p.path, q.path) /\ IsPrefix(q.path, p.path) => p.path = q.path
      /\ p.path = q.path => ~(Len(p.path) < Len(q.path))
  BY PrefixFacts
<1> QED
  BY <1>1, Zenon DEF PathCovers

\* Pattern p is what the i-th route registers for its m-th method: its path as it
\* is, or the subtree below it.
RegisteredFor(p, i, route, m) ==
    /\ \/ route.methods = <<>> /\ m = 1 /\ p.method = AnyMethod
       \/ /\ route.methods # <<>> /\ m \in DOMAIN route.methods
          /\ p.method = route.methods[m]
    /\ \/ p.by = <<i, m, TRUE>> /\ ~p.subtree
       \/ p.by = <<i, m, FALSE>> /\ p.subtree

\* What is registered on behalf of a route whose path has no trailing slash.
LEMMA OfRoute ==
    ASSUME NEW i, NEW route, ~route.slash, NEW p \in RoutePatterns(i, route)
    PROVE  p.path = route.path /\ \E m : RegisteredFor(p, i, route, m)
<1> DEFINE methods == RouteMethods(route)
<1>1. PICK m \in DOMAIN methods, asis \in BOOLEAN :
        p = Pattern(<<i, m, asis>>, methods[m], route.path, asis => route.slash)
  BY DEF RoutePatterns
<1>2. /\ p.by = <<i, m, asis>> /\ p.method = methods[m] /\ p.path = route.path
      /\ p.subtree = (asis => route.slash)
  BY <1>1, Zenon DEF Pattern
<1>3. route.methods = <<>> => m = 1 /\ p.method = AnyMethod
  <2>1. SUFFICES ASSUME route.methods = <<>> PROVE m = 1 /\ p.method = AnyMethod
    OBVIOUS
  <2>2. methods = <<AnyMethod>>
    BY <2>1 DEF RouteMethods
  <2> QED
    BY <1>2, <2>2
<1>4. route.methods # <<>> =>
        m \in DOMAIN route.methods /\ p.method = route.methods[m]
  BY <1>2 DEF RouteMethods
<1>5. \/ p.by = <<i, m, TRUE>> /\ ~p.subtree
      \/ p.by = <<i, m, FALSE>> /\ p.subtree
  <2>1. CASE asis = TRUE
    BY <1>2, <2>1, Zenon
  <2>2. CASE asis = FALSE
    BY <1>2, <2>2, Zenon
  <2> QED
    BY <2>1, <2>2, Zenon
<1>6. RegisteredFor(p, i, route, m)
  BY <1>3, <1>4, <1>5, Zenon DEF RegisteredFor
<1> QED
  BY <1>2, <1>6, Zenon

\* What is registered for the gateway itself.
LEMMA OfSystem ==
    ASSUME NEW c, ~c.metrics.slash, NEW p \in SystemPatterns(c)
    PROVE  /\ p.method = "GET" /\ ~p.subtree /\ p.path \in SystemPaths(c)
           /\ \/ p.by = <<0, p.path>> /\ p.path \in {<<"health">>, <<"ready">>}
              \/ p.by = <<0>> /\ p.path = c.metrics.path
<1>1. CASE p \in {Pattern(<<0, path>>, "GET", path, FALSE) :
                    path \in {<<"health">>, <<"ready">>}}
  <2>1. PICK path \in {<<"health">>, <<"ready">>} :
          p = Pattern(<<0, path>>, "GET", path, FALSE)
    BY <1>1, Zenon
  <2>2. p.by = <<0, path>> /\ p.method = "GET" /\ p.path = path /\ ~p.subtree
    BY <2>1, Zenon DEF Pattern
  <2> QED
    BY <2>2, Zenon DEF SystemPaths
<1>2. CASE p \in {Pattern(<<0>>, "GET", m.path, m.slash) :
                    m \in {m \in {c.metrics} : m.enabled}}
  <2>1. p = Pattern(<<0>>, "GET", c.metrics.path, c.metrics.slash)
    BY <1>2, Zenon
  <2>2. p.by = <<0>> /\ p.method = "GET" /\ p.path = c.metrics.path /\ ~p.subtree
    BY <2>1, Zenon DEF Pattern
  <2> QED
    BY <2>2, Zenon DEF SystemPaths
<1> QED
  BY <1>1, <1>2, Zenon DEF SystemPatterns

\* Of two methods, each covers the other only if they are the same.
LEMMA MutualMethods ==
    ASSUME NEW p, NEW q, MethodCovers(p, q), MethodCovers(q, p)
    PROVE  p.method = q.method
<1>1. AnyMethod # "GET" /\ AnyMethod # "HEAD"
  BY Zenon DEF AnyMethod
<1> QED
  BY <1>1 DEF MethodCovers

\* Two registrations on behalf of one route do not conflict.
LEMMA SameRoute ==
    ASSUME NEW i, NEW route, route.path \in Seq(Names), ~route.slash,
           \A m, n \in DOMAIN route.methods :
              route.methods[m] = route.methods[n] => m = n,
           NEW p \in RoutePatterns(i, route), NEW q \in RoutePatterns(i, route),
           p.by # q.by
    PROVE  ~Conflict(p, q)
<1>1. p.path = route.path /\ \E m : RegisteredFor(p, i, route, m)
  BY OfRoute, Zenon
<1>2. q.path = route.path /\ \E m : RegisteredFor(q, i, route, m)
  BY OfRoute, Zenon
<1>3. PICK m : RegisteredFor(p, i, route, m)
  BY <1>1, Zenon
<1>4. PICK n : RegisteredFor(q, i, route, n)
  BY <1>2, Zenon
<1>5. p.path \in Seq(Names) /\ q.path \in Seq(Names) /\ p.path = q.path
  BY <1>1, <1>2, Zenon
<1>6. PathCovers(p, q) => (p.subtree <=> q.subtree)
  BY <1>5, CoverFacts, Zenon
<1>7. PathCovers(q, p) => (p.subtree <=> q.subtree)
  BY <1>5, CoverFacts, Zenon
<1>8. (p.subtree <=> q.subtree) => PathCovers(p, q) /\ PathCovers(q, p)
  BY <1>5, CoverFacts, Zenon
<1>9. SUFFICES ASSUME Conflict(p, q) PROVE FALSE
  OBVIOUS
<1>10. (p.subtree <=> q.subtree) /\ MethodCovers(p, q) /\ MethodCovers(q, p)
  BY <1>6, <1>7, <1>8, <1>9, Zenon DEF Conflict, Covers
<1>11. p.method = q.method
  BY <1>10, MutualMethods
<1>12. m = n
  BY <1>3, <1>4, <1>11, Zenon DEF RegisteredFor
<1> QED
  BY <1>3, <1>4, <1>10, <1>12, Zenon DEF RegisteredFor

\* Conflict is symmetric.
LEMMA ConflictBothWays ==
    ASSUME NEW p, NEW q
    PROVE  Conflict(p, q) <=> Conflict(q, p)
BY Zenon DEF Conflict

\* The registrations of two routes do not conflict if their paths are not nested,
\* nor if both serve every method and their paths differ.
LEMMA TwoRoutes ==
    ASSUME NEW i, NEW r, r.path \in Seq(Names), ~r.slash,
           NEW j, NEW s, s.path \in Seq(Names), ~s.slash,
           \/ ~Nested(r.path, s.path)
           \/ r.path # s.path /\ r.methods = <<>> /\ s.methods = <<>>,
           NEW p \in RoutePatterns(i, r), NEW q \in RoutePatterns(j, s)
    PROVE  ~Conflict(p, q)
<1>1. p.path = r.path /\ \E m : RegisteredFor(p, i, r, m)
  BY OfRoute, Zenon
<1>2. q.path = s.path /\ \E m : RegisteredFor(q, j, s, m)
  BY OfRoute, Zenon
<1>3. p.path \in Seq(Names) /\ q.path \in Seq(Names)
  BY <1>1, <1>2, Zenon
<1>4. PathCovers(p, q) => IsPrefix(p.path, q.path)
  BY <1>3, CoverFacts, Zenon
<1>5. PathCovers(q, p) => IsPrefix(q.path, p.path)
  BY <1>3, CoverFacts, Zenon
<1>6. PathCovers(p, q) /\ PathCovers(q, p) => p.path = q.path
  BY <1>3, CoverFacts, Zenon
<1>7. CASE ~Nested(r.path, s.path)
  BY <1>1, <1>2, <1>4, <1>5, <1>7, Zenon DEF Nested, Conflict
<1>8. CASE r.path # s.path /\ r.methods = <<>> /\ s.methods = <<>>
  <2>1. p.method = AnyMethod /\ q.method = AnyMethod
    BY <1>1, <1>2, <1>8, Zenon DEF RegisteredFor
  <2>2. MethodCovers(p, q) /\ MethodCovers(q, p)
    BY <2>1, Zenon DEF MethodCovers
  <2> QED
    BY <1>1, <1>2, <1>6, <1>8, <2>2, Zenon DEF Conflict, Covers
<1> QED
  BY <1>7, <1>8, Zenon

\* A route's registrations do not conflict with the gateway's own if it serves
\* every method, nor if its path leads to none of theirs.
LEMMA RouteAndSystem ==
    ASSUME NEW c, ~c.metrics.slash, NEW i, NEW r, r.path \in Seq(Names), ~r.slash,
           \A path \in SystemPaths(c) : path \in Seq(Names),
           \/ r.methods = <<>>
           \/ \A path \in SystemPaths(c) : ~IsPrefix(r.path, path),
           NEW p \in RoutePatterns(i, r), NEW q \in SystemPatterns(c)
    PROVE  ~Conflict(p, q)
<1>1. p.path = r.path /\ \E m : RegisteredFor(p, i, r, m)
  BY OfRoute, Zenon
<1>2. q.method = "GET" /\ ~q.subtree /\ q.path \in SystemPaths(c)
  BY OfSystem, Zenon
<1>3. p.path \in Seq(Names) /\ q.path \in Seq(Names)
  BY <1>1, <1>2, Zenon
<1>4. PathCovers(p, q) => IsPrefix(p.path, q.path)
  BY <1>3, CoverFacts, Zenon
<1>5. PathCovers(q, p) => q.path = p.path /\ ~p.subtree
  BY <1>2, Zenon DEF PathCovers
<1>6. q.path = p.path /\ ~p.subtree => PathCovers(p, q)
  BY <1>2, Zenon DEF PathCovers
<1>7. CASE r.methods = <<>>
  <2>1. p.method = AnyMethod
    BY <1>1, <1>7, Zenon DEF RegisteredFor
  <2>2. MethodCovers(p, q) /\ ~MethodCovers(q, p)
    BY <1>2, <2>1 DEF MethodCovers, AnyMethod
  <2> QED
    BY <1>5, <1>6, <2>2, Zenon DEF Conflict, Covers
<1>8. CASE \A path \in SystemPaths(c) : ~IsPrefix(r.path, path)
  BY <1>1, <1>2, <1>4, <1>5, <1>6, <1>8, Zenon DEF Conflict
<1> QED
  BY <1>7, <1>8, Zenon

\* The gateway's own registrations do not conflict with each other.
LEMMA TwoOfSystem ==
    ASSUME NEW c, c.metrics.path \notin {<<"health">>, <<"ready">>}, ~c.metrics.slash,
           NEW p \in SystemPatterns(c), NEW q \in SystemPatterns(c), p.by # q.by
    PROVE  ~Conflict(p, q)
<1>1. /\ ~p.subtree
      /\ \/ p.by = <<0, p.path>> /\ p.path \in {<<"health">>, <<"ready">>}
         \/ p.by = <<0>> /\ p.path = c.metrics.path
  BY OfSystem, Zenon
<1>2. /\ ~q.subtree
      /\ \/ q.by = <<0, q.path>> /\ q.path \in {<<"health">>, <<"ready">>}
         \/ q.by = <<0>> /\ q.path = c.metrics.path
  BY OfSystem, Zenon
<1>3. p.path # q.path
  BY <1>1, <1>2, Zenon
<1> QED
  BY <1>1, <1>2, <1>3, Zenon DEF Conflict, PathCovers

\* BuildRouter returns for every plain configuration: http.ServeMux can parse
\* each pattern it registers, and no two of them conflict.
THEOREM PlainBuilds ==
    ASSUME NEW c \in GatewayConfig, Plain(c)
    PROVE  Buildable(c)
<1>1. /\ c.metrics.path \notin {<<"health">>, <<"ready">>} /\ ~c.metrics.slash
      /\ MetricsParse(c.metrics)
      /\ \A i \in DOMAIN c.routes : RouteParses(c.routes[i])
      /\ \A i \in DOMAIN c.routes :
            /\ ~c.routes[i].slash
            /\ \A m, n \in DOMAIN c.routes[i].methods :
                 c.routes[i].methods[m] = c.routes[i].methods[n] => m = n
            /\ \/ c.routes[i].methods = <<>>
               \/ \A path \in SystemPaths(c) : ~IsPrefix(c.routes[i].path, path)
      /\ \A i, j \in DOMAIN c.routes : i # j =>
            \/ ~Nested(c.routes[i].path, c.routes[j].path)
            \/ /\ c.routes[i].path # c.routes[j].path
               /\ c.routes[i].methods = <<>> /\ c.routes[j].methods = <<>>
  BY Zenon DEF Plain
<1>2. \A i \in DOMAIN c.routes : c.routes[i].path \in Seq(Names)
  <2>1. c.routes \in Seq(RouteConfig)
    BY DEF GatewayConfig
  <2>2. \A i \in DOMAIN c.routes : c.routes[i] \in RouteConfig
    BY <2>1
  <2> QED
    BY <2>2 DEF RouteConfig
<1>3. \A path \in SystemPaths(c) : path \in Seq(Names)
  <2>1. c.metrics.path \in Seq(Names)
    BY DEF GatewayConfig, MetricsConfig
  <2>2. <<"health">> \in Seq(Names) /\ <<"ready">> \in Seq(Names)
    BY NamesAssumption
  <2> QED
    BY <2>1, <2>2, Zenon DEF SystemPaths
<1>4. SUFFICES ASSUME NEW p \in Patterns(c), NEW q \in Patterns(c), p.by # q.by
               PROVE  ~Conflict(p, q)
  BY <1>1, Zenon DEF Buildable
<1>5. \/ p \in SystemPatterns(c)
      \/ \E i \in DOMAIN c.routes : p \in RoutePatterns(i, c.routes[i])
  BY Zenon DEF Patterns
<1>6. \/ q \in SystemPatterns(c)
      \/ \E i \in DOMAIN c.routes : q \in RoutePatterns(i, c.routes[i])
  BY Zenon DEF Patterns
<1>7. CASE p \in SystemPatterns(c) /\ q \in SystemPatterns(c)
  BY <1>1, <1>4, <1>7, TwoOfSystem, Zenon
<1>8. ASSUME NEW i \in DOMAIN c.routes, p \in RoutePatterns(i, c.routes[i]),
             q \in SystemPatterns(c)
      PROVE  ~Conflict(p, q)
  BY <1>1, <1>2, <1>3, <1>8, RouteAndSystem, Zenon
<1>9. ASSUME NEW i \in DOMAIN c.routes, q \in RoutePatterns(i, c.routes[i]),
             p \in SystemPatterns(c)
      PROVE  ~Conflict(p, q)
  <2>1. ~Conflict(q, p)
    BY <1>1, <1>2, <1>3, <1>9, RouteAndSystem, Zenon
  <2> QED
    BY <2>1, ConflictBothWays, Zenon
<1>10. ASSUME NEW i \in DOMAIN c.routes, p \in RoutePatterns(i, c.routes[i]),
              NEW j \in DOMAIN c.routes, q \in RoutePatterns(j, c.routes[j])
       PROVE  ~Conflict(p, q)
  <2>1. CASE i = j
    <3>1. q \in RoutePatterns(i, c.routes[i])
      BY <1>10, <2>1, Zenon
    <3> QED
      BY <1>1, <1>2, <1>4, <1>10, <3>1, SameRoute, Zenon
  <2>2. CASE i # j
    BY <1>1, <1>2, <1>10, <2>2, TwoRoutes, Zenon
  <2> QED
    BY <2>1, <2>2, Zenon
<1> QED
  BY <1>5, <1>6, <1>7, <1>8, <1>9, <1>10, Zenon

\* A configuration with only some of a plain one's routes is plain.
LEMMA PlainFewer ==
    ASSUME NEW c, NEW d, Plain(c), d.metrics = c.metrics,
           DOMAIN d.routes \subseteq DOMAIN c.routes,
           \A i \in DOMAIN d.routes : d.routes[i] = c.routes[i]
    PROVE  Plain(d)
<1>1. SystemPaths(d) = SystemPaths(c)
  BY Zenon DEF SystemPaths
<1>2. /\ d.metrics.path \notin {<<"health">>, <<"ready">>}
      /\ MetricsParse(d.metrics) /\ ~d.metrics.slash
      /\ \A i \in DOMAIN d.routes : RouteParses(d.routes[i])
  BY Zenon DEF Plain
<1>3. ASSUME NEW i \in DOMAIN d.routes
      PROVE  LET route == d.routes[i]
             IN  /\ ~route.slash
                 /\ \A m, n \in DOMAIN route.methods :
                      route.methods[m] = route.methods[n] => m = n
                 /\ \/ route.methods = <<>>
                    \/ \A path \in SystemPaths(d) : ~IsPrefix(route.path, path)
  <2>1. i \in DOMAIN c.routes /\ d.routes[i] = c.routes[i]
    BY <1>3, Zenon
  <2>2. LET route == c.routes[i]
        IN  /\ ~route.slash
            /\ \A m, n \in DOMAIN route.methods :
                 route.methods[m] = route.methods[n] => m = n
            /\ \/ route.methods = <<>>
               \/ \A path \in SystemPaths(c) : ~IsPrefix(route.path, path)
    BY <2>1, Zenon DEF Plain
  <2> QED
    BY <1>1, <2>1, <2>2, Zenon
<1>4. ASSUME NEW i \in DOMAIN d.routes, NEW j \in DOMAIN d.routes, i # j
      PROVE  \/ ~Nested(d.routes[i].path, d.routes[j].path)
             \/ /\ d.routes[i].path # d.routes[j].path
                /\ d.routes[i].methods = <<>> /\ d.routes[j].methods = <<>>
  <2>1. /\ i \in DOMAIN c.routes /\ d.routes[i] = c.routes[i]
        /\ j \in DOMAIN c.routes /\ d.routes[j] = c.routes[j]
    BY <1>4, Zenon
  <2>2. \/ ~Nested(c.routes[i].path, c.routes[j].path)
        \/ /\ c.routes[i].path # c.routes[j].path
           /\ c.routes[i].methods = <<>> /\ c.routes[j].methods = <<>>
    BY <1>4, <2>1, Zenon DEF Plain
  <2> QED
    BY <2>1, <2>2, Zenon
<1> QED
  BY <1>2, <1>3, <1>4, Zenon DEF Plain

\* So is what is loaded of a file that is only partly written.
LEMMA PlainPart ==
    ASSUME NEW c \in GatewayConfig, NEW n \in 0 .. Len(c.routes), Plain(Completed(c))
    PROVE  Plain(Completed([c EXCEPT !.routes = SubSeq(c.routes, 1, n)]))
<1>1. PICK d : d = [c EXCEPT !.routes = SubSeq(c.routes, 1, n)]
  OBVIOUS
<1>2. c.routes \in Seq(RouteConfig) /\ d.metrics = c.metrics
      /\ d.routes = SubSeq(c.routes, 1, n)
  BY <1>1 DEF GatewayConfig
<1>3. /\ DOMAIN d.routes \subseteq DOMAIN c.routes
      /\ \A i \in DOMAIN d.routes : d.routes[i] = c.routes[i]
  BY <1>2
<1>4. d \in GatewayConfig
  <2>1. d.routes \in Seq(RouteConfig)
    BY <1>2
  <2> QED
    BY <1>1, <1>2, <2>1 DEF GatewayConfig
<1>5. ASSUME NEW e \in GatewayConfig
      PROVE  /\ Completed(e).routes = [i \in DOMAIN e.routes |-> RouteDefaults(e.routes[i])]
             /\ Completed(e).metrics = MetricsDefaults(
                  [e.metrics EXCEPT !.enabled = Override(EnvMetrics, e.metrics.enabled)])
  <2>1. /\ applyEnvOverrides(e).routes = e.routes
        /\ applyEnvOverrides(e).metrics =
             [e.metrics EXCEPT !.enabled = Override(EnvMetrics, e.metrics.enabled)]
    BY DEF applyEnvOverrides, GatewayConfig, MetricsConfig
  <2>2. PICK f : f = applyEnvOverrides(e)
    OBVIOUS
  <2>3. /\ ApplyDefaults(f).routes = [i \in DOMAIN f.routes |-> RouteDefaults(f.routes[i])]
        /\ ApplyDefaults(f).metrics = MetricsDefaults(f.metrics)
    BY DEF ApplyDefaults
  <2> QED
    BY <2>1, <2>2, <2>3, Zenon DEF Completed
<1>6. Completed(d).metrics = Completed(c).metrics
  BY <1>2, <1>4, <1>5, Zenon
<1>7. /\ DOMAIN Completed(d).routes \subseteq DOMAIN Completed(c).routes
      /\ \A i \in DOMAIN Completed(d).routes :
            Completed(d).routes[i] = Completed(c).routes[i]
  <2>1. /\ Completed(d).routes = [i \in DOMAIN d.routes |-> RouteDefaults(d.routes[i])]
        /\ Completed(c).routes = [i \in DOMAIN c.routes |-> RouteDefaults(c.routes[i])]
    BY <1>4, <1>5, Zenon
  <2> QED
    BY <1>3, <2>1
<1>8. Plain(Completed(d))
  BY <1>6, <1>7, PlainFewer, Zenon
<1> QED
  BY <1>1, <1>8, Zenon

\* The operator saves plain configurations only.
SavesPlain == \A c \in Configs : Plain(Completed(c))

\* Without routes, and with the metrics nowhere or where they are by default, the
\* router can be built.
LEMMA EmptyBuilds ==
    ASSUME NEW c, c.routes = <<>>,
           c.metrics.enabled => /\ c.metrics.path = <<"metrics">>
                                /\ c.metrics.rooted /\ ~c.metrics.slash
    PROVE  Buildable(c)
<1>1. DOMAIN c.routes = {}
  OBVIOUS
<1>2. Patterns(c) = SystemPatterns(c)
  BY <1>1, Zenon DEF Patterns
<1>3. CASE ~c.metrics.enabled
  <2>1. \A p \in SystemPatterns(c) : \E path \in {<<"health">>, <<"ready">>} :
           p = Pattern(<<0, path>>, "GET", path, FALSE)
    BY <1>3, Zenon DEF SystemPatterns
  <2>2. ASSUME NEW p \in SystemPatterns(c)
        PROVE  p.by = <<0, p.path>> /\ ~p.subtree
    <3>1. PICK path : p = Pattern(<<0, path>>, "GET", path, FALSE)
      BY <2>1, Zenon
    <3>2. p.by = <<0, path>> /\ p.path = path /\ p.subtree = FALSE
      BY <3>1, Zenon DEF Pattern
    <3> QED
      BY <3>2, Zenon
  <2>3. \A p, q \in SystemPatterns(c) : p.by # q.by => ~Conflict(p, q)
    BY <2>2, Zenon DEF Conflict, PathCovers
  <2> QED
    BY <1>1, <1>2, <1>3, <2>3, Zenon DEF Buildable
<1>4. CASE c.metrics.enabled
  <2>1. Parses("GET", <<"metrics">>)
    <3>1. "GET" \in Tokens /\ "metrics" \notin BraceNames
      BY NamesAssumption, TokensAssumption
    <3>2. \A n \in DOMAIN <<"metrics">> : <<"metrics">>[n] = "metrics"
      OBVIOUS
    <3>3. \A n \in DOMAIN <<"metrics">> : <<"metrics">>[n] \notin {"", ".", ".."}
      BY <3>2, Zenon
    <3> QED
      BY <3>1, <3>2, <3>3, Zenon DEF Parses
  <2>2. <<"metrics">> \notin {<<"health">>, <<"ready">>}
    OBVIOUS
  <2>3. MetricsParse(c.metrics)
    BY <1>4, <2>1, Zenon DEF MetricsParse
  <2>4. Plain(c)
    BY <1>1, <1>4, <2>2, <2>3, Zenon DEF Plain
  <2> QED
    BY <2>4, TwoOfSystem, <1>1, <1>2, Zenon DEF Plain, Buildable
<1> QED
  BY <1>3, <1>4

\* Then the router can be built for whatever the file contains.
LEMMA LoadableBuilds ==
    ASSUME SavesPlain, NEW c \in Loadable
    PROVE  Buildable(c)
<1>1. CASE c = NoConfig
  <2>1. c.routes = <<>> /\ c.metrics.enabled = FALSE
    BY <1>1 DEF NoConfig, EmptyConfig
  <2> QED
    BY <2>1, EmptyBuilds, Zenon
<1>2. CASE c = Completed(EmptyConfig)
  <2>1. PICK e : e = applyEnvOverrides(EmptyConfig)
    OBVIOUS
  <2>2. e.routes = <<>> /\ e.metrics.path = <<>> /\ e.metrics.rooted = FALSE
    BY <2>1 DEF applyEnvOverrides, EmptyConfig
  <2>3. MetricsDefaults(e.metrics) =
          [enabled |-> TRUE, path |-> <<"metrics">>, rooted |-> TRUE, slash |-> FALSE]
    BY <2>2, Zenon DEF MetricsDefaults
  <2>4. c = ApplyDefaults(e)
    BY <1>2, <2>1 DEF Completed
  <2>5. c.routes = <<>>
    BY <2>2, <2>4 DEF ApplyDefaults
  <2>6. c.metrics = MetricsDefaults(e.metrics)
    BY <2>4 DEF ApplyDefaults
  <2>7. c.metrics.path = <<"metrics">> /\ c.metrics.rooted = TRUE /\ c.metrics.slash = FALSE
    BY <2>3, <2>6
  <2> QED
    BY <2>5, <2>7, EmptyBuilds, Zenon
<1>3. ASSUME NEW d \in Configs, NEW n \in 0 .. Len(d.routes),
             c = Completed([d EXCEPT !.routes = SubSeq(d.routes, 1, n)])
      PROVE  Buildable(c)
  <2>1. d \in GatewayConfig /\ d.routes \in Seq(RouteConfig)
    BY GatewayAssumption DEF GatewayConfig
  <2>2. SubSeq(d.routes, 1, n) \in Seq(RouteConfig)
    BY <2>1
  <2>3. [d EXCEPT !.routes = SubSeq(d.routes, 1, n)] \in GatewayConfig
    BY <2>1, <2>2 DEF GatewayConfig
  <2>4. c \in GatewayConfig
    BY <1>3, <2>3, CompletedType, Zenon
  <2>5. Plain(c)
    BY <1>3, <2>1, PlainPart, Zenon DEF SavesPlain
  <2> QED
    BY <2>4, <2>5, PlainBuilds, Zenon
<1> QED
  BY <1>1, <1>2, <1>3, Zenon DEF Loadable, Contents

\* No step crashes the gateway then: only BuildRouter's panic would.
LEMMA CrashStep ==
    SavesPlain /\ TypeOK /\ main # "crashed" /\ [Next]_vars => main' # "crashed"
<1> SUFFICES ASSUME SavesPlain, TypeOK, main # "crashed", [Next]_vars
             PROVE  main' # "crashed"
  OBVIOUS
<1>1. Buildable(cfg) /\ Buildable(loaded)
  <2>1. cfg \in Loadable /\ loaded \in Loadable
    BY DEF TypeOK, Loadable
  <2> QED
    BY <2>1, LoadableBuilds, Zenon
<1>2. CASE MainLoad \/ MainBuild \/ MainWatch \/ MainFails \/ MainClose \/ MainExit
  BY <1>1, <1>2 DEF MainLoad, MainBuild, MainWatch, MainFails, MainClose, MainExit
<1>3. CASE Receive \/ Reload \/ Load \/ Apply
  BY <1>1, <1>3 DEF Receive, Reload, Load, Apply, server
<1>4. ASSUME NEW c \in Configs, Truncate(c) \/ Replace(c) PROVE main' # "crashed"
  BY <1>4 DEF Truncate, Replace, Written, server
<1>5. ASSUME NEW n \in DOMAIN saving.routes, WritePart(n) PROVE main' # "crashed"
  BY <1>5 DEF WritePart, Written, server
<1>6. CASE \/ Signal \/ Deadline \/ Drained
           \/ \E r \in Requests : Accept(r) \/ Answer(r)
           \/ UNCHANGED vars
  BY <1>6 DEF Signal, Deadline, Drained, Accept, Answer, vars, server
<1> QED
  BY <1>2, <1>3, <1>4, <1>5, <1>6 DEF Next, Operator, Main, Reloader

\* If every configuration the operator saves is plain, neither the start nor a
\* reload takes the gateway down, however the file is written, read half
\* written, or changed while a reload is on its way.  (For others, it may: the
\* watcher's goroutine does not recover from BuildRouter's panic.)
THEOREM PlainNeverCrashes ==
    SavesPlain => (Spec => [](main # "crashed") /\ []ReloadNeverCrashes)
<1> SUFFICES ASSUME SavesPlain
             PROVE  Spec => [](main # "crashed") /\ []ReloadNeverCrashes
  OBVIOUS
<1>1. Init => main # "crashed"
  BY DEF Init
<1>2. TypeOK /\ main # "crashed" /\ [Next]_vars => (main # "crashed")'
  BY CrashStep
<1>3. main # "crashed" => ReloadNeverCrashes
  BY DEF ReloadNeverCrashes
<1> QED
  BY <1>1, <1>2, <1>3, TypeCorrect, PTL DEF Spec
=============================================================================
