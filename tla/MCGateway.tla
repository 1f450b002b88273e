----------------------------- MODULE MCGateway -----------------------------
(***************************************************************************)
(* Small instances of Gateway.  A two-route configuration can be read when *)
(* only its first route is written.                                        *)
(***************************************************************************)
EXTENDS Gateway

Route(path, slash, methods) ==
    [path |-> path, wellFormed |-> TRUE, slash |-> slash, methods |-> methods,
     targets |-> <<[url |-> "good", weight |-> 0]>>, strategy |-> "unset",
     timeout |-> 0, limit |-> <<>>, breaker |-> <<>>]

File(port, routes) == [EmptyConfig EXCEPT !.port = port, !.routes = routes]

Users == [Route(<<"api", "users">>, FALSE, <<>>) EXCEPT
    !.targets = <<[url |-> "good", weight |-> 3], [url |-> "good", weight |-> -1]>>,
    !.strategy = "weighted",
    !.breaker = <<[threshold |-> 0, reset |-> 0, halfOpen |-> 2]>>]
Reads == Route(<<"api">>, FALSE, <<"GET">>)
Api == [Route(<<"api">>, FALSE, <<>>) EXCEPT !.limit = <<[rate |-> 2, burst |-> 4]>>]

OneRoute == File(0, <<Users>>)
TwoRoutes == File(9090, <<Api, Users>>)
NoBurst == File(0, <<[Api EXCEPT !.limit[1].burst = 0]>>)
Conflicting == File(0, <<Users, Reads>>)
Listed == File(0, <<Route(<<"api">>, FALSE, <<"GET,POST">>)>>)
Slashed == File(0, <<Route(<<"api">>, TRUE, <<>>)>>)

PathNames == {"health", "ready", "metrics", "api", "users", "a b", "a{b", ""}
WithBlank == {"a b"}
WithBrace == {"a{b"}
Methods == {"GET", "HEAD", "POST", "CONNECT"}

NoPort == <<>>
NoFormat == <<>>
Warn == <<"warn">>
MetricsOff == <<FALSE>>

AllConfigs == {OneRoute, TwoRoutes, NoBurst, Conflicting, Listed}
SavedConfigs == {OneRoute, TwoRoutes}
ConflictingConfigs == {OneRoute, Slashed}
=============================================================================
