--------------------------- MODULE RouterConfig ---------------------------
(***************************************************************************)
(* What a configuration file turns into: config.Load (defaults, overrides  *)
(* and validation, internal/config) and the patterns server.BuildRouter    *)
(* registers with http.ServeMux, which panics if it cannot parse one or    *)
(* two of them conflict.                                                   *)
(*                                                                         *)
(* A field the file does not set has its zero value; an optional part is a *)
(* sequence of none or one.  Durations and rates are integers.  Paths are  *)
(* the sequences of their segments, without {wildcards}; a method has no   *)
(* blanks, and a metrics path no host before its first slash.  Server      *)
(* timeouts and CORS settings are only handed on, and are left out.        *)
(***************************************************************************)
EXTENDS Integers, Sequences, SequencesExt

\* "other" stands for every value that is not supported.
Levels == {"unset", "debug", "info", "warn", "error", "other"}
Formats == {"unset", "json", "text", "other"}
Strategies == {"unset", "round-robin", "weighted", "other"}

\* The environment is given by sequences of none or one value.
CONSTANTS
    Names,          \* the segments of paths
    BlankNames,     \* those with a blank or a tab in them
    BraceNames,     \* those with a { that begins no wildcard
    Tokens,         \* the methods that are tokens (RFC 9110)
    EnvPort,        \* GATEFORGE_PORT, none if it is not a number
    EnvLevel,       \* GATEFORGE_LOG_LEVEL, in lower case
    EnvFormat,      \* GATEFORGE_LOG_FORMAT, in lower case
    EnvMetrics      \* GATEFORGE_METRICS_ENABLED: is it "true" or "1"

ASSUME NamesAssumption ==
    /\ BlankNames \subseteq Names /\ BraceNames \subseteq Names
    /\ {"health", "ready", "metrics"} \subseteq Names \ (BlankNames \cup BraceNames)

ASSUME TokensAssumption ==
    Tokens \subseteq STRING /\ {"GET", "CONNECT"} \subseteq Tokens /\ "" \notin Tokens

ASSUME EnvAssumption ==
    /\ EnvPort \in Seq(Int) /\ EnvMetrics \in Seq(BOOLEAN)
    /\ EnvLevel \in Seq(Levels) /\ EnvFormat \in Seq(Formats)

\* A URL parses, does not, or is missing.
TargetConfig == [url : {"good", "bad", "unset"}, weight : Int]

RateLimitConfig == [rate : Int, burst : Int]

CircuitBreakerConfig == [threshold : Int, reset : Int, halfOpen : Int]

\* wellFormed: the path starts with a slash and has no ".."; slash: it ends in one.
RouteConfig ==
    [path : Seq(Names), wellFormed : BOOLEAN, slash : BOOLEAN,
     methods : Seq(STRING), targets : Seq(TargetConfig), strategy : Strategies,
     timeout : Int, limit : Seq(RateLimitConfig),
     breaker : Seq(CircuitBreakerConfig)]

\* rooted: the path starts with a slash.  It is empty if it has no segment either.
MetricsConfig ==
    [enabled : BOOLEAN, path : Seq(Names), rooted : BOOLEAN, slash : BOOLEAN]

GatewayConfig ==
    [port : Int, metrics : MetricsConfig,
     logging : [level : Levels, format : Formats], routes : Seq(RouteConfig)]

\* An empty file parses to the zero configuration.
EmptyConfig ==
    [port |-> 0,
     metrics |-> [enabled |-> FALSE, path |-> <<>>, rooted |-> FALSE, slash |-> FALSE],
     logging |-> [level |-> "unset", format |-> "unset"], routes |-> <<>>]

Override(env, value) == IF env = <<>> THEN value ELSE env[1]

\* The environment overrides the file.
applyEnvOverrides(c) ==
    [c EXCEPT !.port = Override(EnvPort, @),
              !.logging.level = Override(EnvLevel, @),
              !.logging.format = Override(EnvFormat, @),
              !.metrics.enabled = Override(EnvMetrics, @)]

Default(value, unset, default) == IF value = unset THEN default ELSE value

BreakerDefaults(cb) ==
    [threshold |-> Default(cb.threshold, 0, 5), reset |-> Default(cb.reset, 0, 30),
     halfOpen |-> Default(cb.halfOpen, 0, 3)]

TargetDefaults(target) == [target EXCEPT !.weight = Default(target.weight, 0, 1)]

RouteDefaults(route) ==
    LET targets == route.targets
        breaker == route.breaker
    IN  [route EXCEPT
            !.timeout = Default(route.timeout, 0, 30),
            !.strategy = Default(route.strategy, "unset", "round-robin"),
            !.targets = [j \in DOMAIN targets |-> TargetDefaults(targets[j])],
            !.breaker = [j \in DOMAIN breaker |-> BreakerDefaults(breaker[j])]]

\* Metrics that are disabled come back on, unless their path is set.
MetricsDefaults(metrics) ==
    IF metrics.path = <<>> /\ ~metrics.rooted
      THEN [enabled |-> TRUE, path |-> <<"metrics">>, rooted |-> TRUE, slash |-> FALSE]
      ELSE metrics

LoggingDefaults(logging) ==
    [level |-> Default(logging.level, "unset", "info"),
     format |-> Default(logging.format, "unset", "json")]

ApplyDefaults(c) ==
    [port |-> Default(c.port, 0, 8080),
     metrics |-> MetricsDefaults(c.metrics),
     logging |-> LoggingDefaults(c.logging),
     routes |-> [i \in DOMAIN c.routes |-> RouteDefaults(c.routes[i])]]

\* Load, up to Validate.
Completed(c) == ApplyDefaults(applyEnvOverrides(c))

\* Slip: only the rate is checked, not the burst.
ValidLimitRateOnly(limit) == limit.rate > 0

ValidLimit(limit) == limit.rate > 0 /\ limit.burst > 0

ValidRoute(route) ==
    /\ route.wellFormed
    /\ route.targets # <<>>
    /\ \A j \in DOMAIN route.targets : route.targets[j].url = "good"
    /\ route.strategy \in {"unset", "round-robin", "weighted"}
    /\ \A j \in DOMAIN route.limit : ValidLimit(route.limit[j])

Ports == 1..65535

Validate(c) ==
    /\ c.port \in Ports
    /\ c.routes # <<>>
    /\ \A i \in DOMAIN c.routes : ValidRoute(c.routes[i])
    /\ c.logging.level \in {"debug", "info", "warn", "error"}
    /\ c.logging.format \in {"json", "text"}

\* The targets a balancer is built with, and their weights: a URL that does not
\* parse is skipped (an empty one parses), a weight that is not positive is 1.
NewFromConfig(route) ==
    [j \in {j \in DOMAIN route.targets : route.targets[j].url # "bad"} |->
        IF route.targets[j].weight <= 0 THEN 1 ELSE route.targets[j].weight]

-----------------------------------------------------------------------------
\* A pattern whose method is empty, or that has none, is for every method.
AnyMethod == ""

\* What one call of mux.Handle registers; "by" tells the calls apart.
Pattern(by, method, path, subtree) ==
    [by |-> by, method |-> method, path |-> path, subtree |-> subtree]

SystemPatterns(c) ==
    {Pattern(<<0, path>>, "GET", path, FALSE) : path \in {<<"health">>, <<"ready">>}}
    \cup {Pattern(<<0>>, "GET", m.path, m.slash) : m \in {m \in {c.metrics} : m.enabled}}

RouteMethods(route) == IF route.methods = <<>> THEN <<AnyMethod>> ELSE route.methods

\* For each of its methods, a route registers its path with a trailing slash,
\* and its path as it is.
RoutePatterns(i, route) ==
    {Pattern(<<i, m, asis>>, RouteMethods(route)[m], route.path, asis => route.slash) :
        m \in DOMAIN RouteMethods(route), asis \in BOOLEAN}

Patterns(c) ==
    SystemPatterns(c) \cup
        UNION {RoutePatterns(i, c.routes[i]) : i \in DOMAIN c.routes}

\* net/http: every method, or path, that q matches, p matches too.
MethodCovers(p, q) ==
    \/ p.method \in {AnyMethod, q.method}
    \/ p.method = "GET" /\ q.method = "HEAD"

PathCovers(p, q) ==
    IF p.subtree THEN /\ IsPrefix(p.path, q.path)
                      /\ q.subtree \/ Len(p.path) < Len(q.path)
                 ELSE p.path = q.path /\ ~q.subtree

Covers(p, q) == MethodCovers(p, q) /\ PathCovers(p, q)

\* net/http: some request matches both, and neither pattern is the more
\* specific one.  (Literal paths that overlap are nested.)
Conflict(p, q) ==
    /\ MethodCovers(p, q) \/ MethodCovers(q, p)
    /\ PathCovers(p, q) \/ PathCovers(q, p)
    /\ Covers(p, q) <=> Covers(q, p)

\* net/http parses a pattern: its method is a token, its braces are wildcards, and
\* it can match (a path is cleaned before it is matched, but not for CONNECT).
Parses(method, path) ==
    /\ method \in Tokens \cup {AnyMethod}
    /\ \A n \in DOMAIN path : path[n] \notin BraceNames
    /\ \/ method \in {AnyMethod, "CONNECT"}
       \/ \A n \in DOMAIN path : path[n] \notin {"", ".", ".."}

\* Without a method in front, what precedes a blank in the path is taken for one.
RouteParses(route) ==
    /\ \A m \in DOMAIN RouteMethods(route) : Parses(RouteMethods(route)[m], route.path)
    /\ \/ route.methods # <<>>
       \/ \A n \in DOMAIN route.path : route.path[n] \notin BlankNames

MetricsParse(metrics) == metrics.rooted /\ Parses("GET", metrics.path)

\* BuildRouter returns, rather than panics.
Buildable(c) ==
    /\ c.metrics.enabled => MetricsParse(c.metrics)
    /\ \A i \in DOMAIN c.routes : RouteParses(c.routes[i])
    /\ \A p, q \in Patterns(c) : p.by # q.by => ~Conflict(p, q)
=============================================================================
