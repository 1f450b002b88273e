------------------------------ MODULE Gateway ------------------------------
(***************************************************************************)
(* The gateway process: cmd/gateforge/main.go, internal/server/server.go   *)
(* and internal/config/watcher.go.  Three goroutines share the server and  *)
(* the watcher: main, which starts everything, serves, and takes it down   *)
(* when ListenAndServe returns; the watcher's, which reloads the file on   *)
(* every write event; and the one that waits for a signal and drains the   *)
(* server.  Around them are the operator, who saves the file, and the      *)
(* requests in flight.                                                     *)
(*                                                                         *)
(* Saving in place takes several writes, and the watcher may read between  *)
(* them.  Saving by renaming a new file over the old one, as many editors  *)
(* and a mounted Kubernetes ConfigMap do, removes the file that is being   *)
(* watched; that event is neither a write nor a create, and is ignored.    *)
(***************************************************************************)
EXTENDS RouterConfig

CONSTANTS
    Configs,     \* the configurations the operator saves
    Requests,
    MayReplace,  \* the operator may also save by renaming
    MaxEvents    \* write events waiting; the kernel merges equal ones

ASSUME GatewayAssumption ==
    /\ Configs \subseteq GatewayConfig
    /\ MayReplace \in BOOLEAN
    /\ MaxEvents \in Nat \ {0}

NoConfig == EmptyConfig

VARIABLES
    file,       \* the content of the configuration file
    saving,     \* the configuration being written in place, or NoConfig
    changed,    \* history: the last change of the file was made while serving
    watch,      \* the file is "unwatched", "watched" or "replaced"
    events,     \* write events not yet received
    reloader,   \* the watcher: "idle", "woken", "locked", "loaded", "gone"
    loaded,     \* reload's cfg
    closed,     \* Watcher.closed
    main,       \* where main is
    cfg,        \* main's cfg: the one the listener was started with
    active,     \* the configuration of the server's handler
    drain,      \* the shutdown goroutine: "waiting", "draining", "done"
    expired,    \* the 15 seconds of the shutdown's context are over
    request     \* each request: "new", "active", "done"

disk == <<file, saving, changed>>
watcher == <<watch, events, reloader, loaded, closed>>
server == <<main, cfg, active>>
shutdown == <<drain, expired, request>>
vars == <<disk, watcher, server, shutdown>>

Init ==
    /\ file \in Configs
    /\ saving = NoConfig
    /\ changed = FALSE
    /\ watch = "unwatched"
    /\ events = 0
    /\ reloader = "idle"
    /\ loaded = NoConfig
    /\ closed = FALSE
    /\ main = "loading"
    /\ cfg = NoConfig
    /\ active = NoConfig
    /\ drain = "waiting"
    /\ expired = FALSE
    /\ request = [r \in Requests |-> "new"]

Alive == main \notin {"exited", "crashed"}

-----------------------------------------------------------------------------
\* The operator.  A content the file already has may be saved again.
Written(content) ==
    /\ file' = content
    /\ changed' = (main = "serving")
    /\ events' = IF watch = "watched" /\ events < MaxEvents THEN events + 1 ELSE events

Truncate(c) ==
    /\ Alive
    /\ saving = NoConfig
    /\ saving' = c
    /\ Written(EmptyConfig)
    /\ UNCHANGED <<watch, reloader, loaded, closed, server, shutdown>>

\* The file ends after the first n routes for now.
WritePart(n) ==
    /\ Alive
    /\ saving # NoConfig
    /\ Written([saving EXCEPT !.routes = SubSeq(@, 1, n)])
    /\ Len(file.routes) < n
    /\ saving' = IF n = Len(saving.routes) THEN NoConfig ELSE saving
    /\ UNCHANGED <<watch, reloader, loaded, closed, server, shutdown>>

Replace(c) ==
    /\ Alive
    /\ MayReplace
    /\ saving = NoConfig
    /\ file' = c
    /\ changed' = (main = "serving")
    /\ watch' = IF watch = "watched" THEN "replaced" ELSE watch
    /\ UNCHANGED <<saving, events, reloader, loaded, closed, server, shutdown>>

-----------------------------------------------------------------------------
\* main: config.Load, or os.Exit(1).
MainLoad ==
    /\ main = "loading"
    /\ IF Validate(Completed(file))
         THEN main' = "building" /\ cfg' = Completed(file)
         ELSE main' = "exited" /\ UNCHANGED cfg
    /\ UNCHANGED <<disk, watcher, active, shutdown>>

\* main: BuildRouter and server.New.
MainBuild ==
    /\ main = "building"
    /\ IF Buildable(cfg)
         THEN main' = "watching" /\ active' = cfg
         ELSE main' = "crashed" /\ UNCHANGED active
    /\ UNCHANGED <<disk, watcher, cfg, shutdown>>

\* main: NewWatcher.  Without a watcher, the gateway goes on.
MainWatch ==
    /\ main = "watching"
    /\ main' = "serving"
    /\ \/ watch' = "watched" /\ UNCHANGED reloader
       \/ watch' = "unwatched" /\ reloader' = "gone"
    /\ UNCHANGED <<disk, events, loaded, closed, cfg, active, shutdown>>

\* main: ListenAndServe fails, and os.Exit(1) skips what is deferred.
MainFails ==
    /\ main = "serving"
    /\ drain = "waiting"
    /\ \A r \in Requests : request[r] = "new"
    /\ main' = "exited"
    /\ UNCHANGED <<disk, watcher, cfg, active, shutdown>>

\* main: ListenAndServe returns as soon as Shutdown has closed the listener,
\* and the deferred watcher.Close waits for a reload under way.
MainClose ==
    /\ main = "serving"
    /\ drain # "waiting"
    /\ reloader \in {"idle", "woken", "gone"}
    /\ main' = "returning"
    /\ closed' = TRUE
    /\ UNCHANGED <<disk, watch, events, reloader, loaded, cfg, active, shutdown>>

\* main: the deferred appCancel, and the process ends.
MainExit ==
    /\ main = "returning"
    /\ main' = "exited"
    /\ UNCHANGED <<disk, watcher, cfg, active, shutdown>>

-----------------------------------------------------------------------------
\* Slip: reload is called without an event.
ReceiveNothing ==
    /\ Alive
    /\ reloader = "idle"
    /\ ~closed
    /\ events' = events - 1
    /\ reloader' = "woken"
    /\ UNCHANGED <<disk, watch, loaded, closed, server, shutdown>>

\* watch receives a write event, and calls reload.
Receive ==
    /\ Alive
    /\ reloader = "idle"
    /\ events > 0
    /\ ~closed
    /\ events' = events - 1
    /\ reloader' = "woken"
    /\ UNCHANGED <<disk, watch, loaded, closed, server, shutdown>>

\* Slip: reload does not look at closed.
ReloadUnchecked ==
    /\ Alive
    /\ reloader = "woken"
    /\ reloader' = "locked"
    /\ UNCHANGED <<disk, watch, events, loaded, closed, server, shutdown>>

\* reload takes the lock, and returns if the watcher was closed meanwhile.
Reload ==
    /\ Alive
    /\ reloader = "woken"
    /\ reloader' = IF closed THEN "idle" ELSE "locked"
    /\ UNCHANGED <<disk, watch, events, loaded, closed, server, shutdown>>

\* Slip: a reload that fails keeps the lock.
LoadKeepsLock ==
    /\ Alive
    /\ reloader = "locked"
    /\ Validate(Completed(file))
    /\ reloader' = "loaded"
    /\ loaded' = Completed(file)
    /\ UNCHANGED <<disk, watch, events, closed, server, shutdown>>

\* Slip: the file is parsed and not validated.
LoadUnvalidated ==
    /\ Alive
    /\ reloader = "locked"
    /\ reloader' = "loaded"
    /\ loaded' = Completed(file)
    /\ UNCHANGED <<disk, watch, events, closed, server, shutdown>>

\* reload: Load.  An invalid file changes nothing.
Load ==
    /\ Alive
    /\ reloader = "locked"
    /\ IF Validate(Completed(file))
         THEN reloader' = "loaded" /\ loaded' = Completed(file)
         ELSE reloader' = "idle" /\ UNCHANGED loaded
    /\ UNCHANGED <<disk, watch, events, closed, server, shutdown>>

\* A request already accepted stays with the handler it got.
SetHandler(c) == active' = c

\* Slip: the callback builds the router from main's configuration.
ApplyFirst ==
    /\ Alive
    /\ reloader = "loaded"
    /\ reloader' = "idle"
    /\ loaded' = NoConfig
    /\ active' = cfg
    /\ UNCHANGED <<disk, watch, events, closed, main, cfg, shutdown>>

\* reload: the callback builds a router and swaps it in.  No one recovers from
\* a panic in the watcher's goroutine.
Apply ==
    /\ Alive
    /\ reloader = "loaded"
    /\ reloader' = "idle"
    /\ loaded' = NoConfig
    /\ IF Buildable(loaded)
         THEN SetHandler(loaded) /\ UNCHANGED main
         ELSE main' = "crashed" /\ UNCHANGED active
    /\ UNCHANGED <<disk, watch, events, closed, cfg, shutdown>>

-----------------------------------------------------------------------------
\* SIGTERM or SIGINT: Shutdown closes the listener.
Signal ==
    /\ main = "serving"
    /\ drain = "waiting"
    /\ drain' = "draining"
    /\ UNCHANGED <<disk, watcher, server, expired, request>>

Deadline ==
    /\ Alive
    /\ drain = "draining"
    /\ ~expired
    /\ expired' = TRUE
    /\ UNCHANGED <<disk, watcher, server, drain, request>>

\* Shutdown returns once no request is active, or at the deadline.
Drained ==
    /\ Alive
    /\ drain = "draining"
    /\ expired \/ \A r \in Requests : request[r] # "active"
    /\ drain' = "done"
    /\ UNCHANGED <<disk, watcher, server, expired, request>>

Accept(r) ==
    /\ main = "serving"
    /\ drain = "waiting"
    /\ request[r] = "new"
    /\ request' = [request EXCEPT ![r] = "active"]
    /\ UNCHANGED <<disk, watcher, server, drain, expired>>

Answer(r) ==
    /\ Alive
    /\ request[r] = "active"
    /\ request' = [request EXCEPT ![r] = "done"]
    /\ UNCHANGED <<disk, watcher, server, drain, expired>>

-----------------------------------------------------------------------------
Operator ==
    \/ \E c \in Configs : Truncate(c) \/ Replace(c)
    \/ \E n \in DOMAIN saving.routes : WritePart(n)

Main ==
    MainLoad \/ MainBuild \/ MainWatch \/ MainClose \/ MainExit

Reloader == Receive \/ Reload \/ Load \/ Apply

Next ==
    \/ Operator
    \/ Main
    \/ MainFails
    \/ Reloader
    \/ Signal \/ Deadline \/ Drained
    \/ \E r \in Requests : Accept(r) \/ Answer(r)

Spec == Init /\ [][Next]_vars

\* Goroutines that can run do, and fifteen seconds pass.  Close gets the mutex
\* that reload takes again and again: a Go mutex starves no one.
Fairness ==
    /\ WF_vars(Main)
    /\ SF_vars(MainClose)
    /\ WF_vars(Reloader)
    /\ WF_vars(Deadline)
    /\ WF_vars(Drained)

FairSpec == Spec /\ Fairness

-----------------------------------------------------------------------------
Contents ==
    {EmptyConfig}
      \cup UNION {{[c EXCEPT !.routes = SubSeq(@, 1, n)] : n \in 0..Len(c.routes)} :
                    c \in Configs}

TypeOK ==
    /\ file \in Contents
    /\ saving \in Configs \cup {NoConfig}
    /\ changed \in BOOLEAN
    /\ watch \in {"unwatched", "watched", "replaced"}
    /\ events \in 0..MaxEvents
    /\ reloader \in {"idle", "woken", "locked", "loaded", "gone"}
    /\ closed \in BOOLEAN
    /\ main \in {"loading", "building", "watching", "serving", "returning",
                 "exited", "crashed"}
    /\ {loaded, cfg, active} \subseteq {Completed(c) : c \in Contents} \cup {NoConfig}
    /\ drain \in {"waiting", "draining", "done"}
    /\ expired \in BOOLEAN
    /\ request \in [Requests -> {"new", "active", "done"}]

\* "The validate-then-swap pattern ensures the gateway never runs with invalid
\* configuration": whatever the watcher reads while the file is being written,
\* the handler in use was built from a configuration that passes Validate.
NeverInvalid ==
    main \in {"watching", "serving", "returning"} => Validate(active)

\* What NewFromConfig makes of a route of the active configuration, and the
\* limits its store gets, are what the balancers, the health checker and the
\* token buckets are verified for: Validate, ApplyDefaults and NewFromConfig
\* between them let through no route that would be served without one of its
\* targets, with a weight that is not positive, or with a limit that is not.
ComponentsFed ==
    main \in {"watching", "serving", "returning"} =>
        \A i \in DOMAIN active.routes :
            LET route == active.routes[i]
                weights == NewFromConfig(route)
            IN  /\ DOMAIN weights = DOMAIN route.targets /\ DOMAIN weights # {}
                /\ \A j \in DOMAIN weights : weights[j] > 0
                /\ \A j \in DOMAIN route.limit :
                        route.limit[j].rate > 0 /\ route.limit[j].burst > 0

\* Once main has closed the watcher, no reload that was on its way swaps the
\* handler.
NoSwapAfterClose == [][closed => UNCHANGED active]_vars

\* The file holds a valid configuration, saved while the gateway serves, and
\* another one is active.
Unapplied ==
    /\ main = "serving" /\ drain = "waiting"
    /\ watch # "unwatched"
    /\ changed /\ saving = NoConfig
    /\ Validate(Completed(file))
    /\ active # Completed(file)

\* "Valid changes apply instantly": a valid configuration saved while the
\* gateway serves becomes the active one, unless the operator starts to save
\* again or the gateway stops.
ChangesApply == Unapplied ~> ~Unapplied

\* The same as long as the file is written in place, and not replaced: although
\* it is read half-written on the way, what is active in the end is the file.
EditsApply == Unapplied /\ watch = "watched" ~> ~Unapplied \/ watch = "replaced"

\* After a signal the process ends, whatever the watcher and the requests do.
SignalStops == drain = "draining" ~> ~Alive

\* "Zero-downtime configuration changes": no saved file takes a gateway that
\* has started down.
ReloadNeverCrashes == active # NoConfig => main # "crashed"

\* "Graceful shutdown": the process ends only when no request is active, or the
\* deadline has passed.
GracefulShutdown ==
    main = "exited" => expired \/ \A r \in Requests : request[r] # "active"
=============================================================================
