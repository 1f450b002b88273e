--------------------------- MODULE HealthChecker ---------------------------
(***************************************************************************)
(* The health checker of internal/balancer/health.go and the part of a     *)
(* balancer it writes to.  One goroutine per route checks the targets one  *)
(* after the other, round after round; the result of a check is recorded   *)
(* under hc.mu, and the balancer's healthy flags change under hc.mu and    *)
(* the balancer's own lock, taken in that order: one action per result.    *)
(*                                                                         *)
(* Targets are numbered as in the balancer's slice, and several may have   *)
(* the same URL; the checker's statuses are kept per URL.  The time and    *)
(* the error of the last check are only reported and are left out.         *)
(***************************************************************************)
EXTENDS Integers

CONSTANTS
    N,          \* the number of targets
    URLs,
    UrlOf,      \* the URL of each target
    Threshold   \* consecutive failures before a target is marked unhealthy

Targets == 1..N

ASSUME TargetsAssumption == N \in Nat \ {0} /\ UrlOf \in [Targets -> URLs]
ASSUME ThresholdAssumption == Threshold \in Nat \ {0}

VARIABLES
    healthy,    \* the balancer's flags, one per target
    up,         \* statuses: Healthy, by URL
    fails,      \* statuses: ConsecutiveFailures, by URL, up to Threshold
    checking,   \* the target being checked, 0 between rounds
    cancelled,  \* the application's context is cancelled
    answered,   \* when it was, the check under way had its 2xx answer
    exited      \* Start has returned

checker == <<up, fails, checking, cancelled, answered, exited>>
hcVars == <<healthy, checker>>

HCInit ==
    /\ healthy = [i \in Targets |-> TRUE]
    /\ up = [u \in URLs |-> TRUE]
    /\ fails = [u \in URLs |-> 0]
    /\ checking = 0
    /\ cancelled = FALSE
    /\ answered = FALSE
    /\ exited = FALSE

\* SetHealthy updates the first target that has the URL, and returns.
FirstWith(u) ==
    CHOOSE i \in Targets :
        UrlOf[i] = u /\ \A j \in Targets : UrlOf[j] = u => i <= j

\* Slip: the recovered target stays out of rotation.
SetHealthyDownOnly(u, h) ==
    healthy' = [healthy EXCEPT ![FirstWith(u)] = @ /\ h]

SetHealthy(u, h) == healthy' = [healthy EXCEPT ![FirstWith(u)] = h]

\* Slip: one failure too many is waited for.
DownAfterOneMore(u) == fails[u] >= Threshold /\ up[u]

\* ConsecutiveFailures, this failure included, reaches the threshold.
MarkedDown(u) == fails[u] + 1 >= Threshold /\ up[u]

Forgive(u) == fails' = [fails EXCEPT ![u] = 0]

\* Slip: the round does not end after the last target.
NextCheckRunsOn == checking' = checking + 1

\* checkAll: the last target ends the round.
NextCheck == checking' = IF checking = N THEN 0 ELSE checking + 1

-----------------------------------------------------------------------------
\* The ticker fires, or Start has just been called.
StartRound ==
    /\ ~exited
    /\ checking = 0
    /\ checking' = 1
    /\ UNCHANGED <<healthy, up, fails, cancelled, answered, exited>>

\* A 2xx answer.  Once the context is cancelled no request gets one, but the
\* check under way may have got it before.
RecordSuccess(i) ==
    /\ checking = i
    /\ cancelled => answered
    /\ up' = [up EXCEPT ![UrlOf[i]] = TRUE]
    /\ Forgive(UrlOf[i])
    /\ SetHealthy(UrlOf[i], TRUE)
    /\ NextCheck
    /\ answered' = FALSE
    /\ UNCHANGED <<cancelled, exited>>

\* Slip: the status changes and the balancer is not told.
RecordFailureStatusOnly(i) ==
    /\ checking = i
    /\ ~answered
    /\ fails' = [fails EXCEPT ![UrlOf[i]] = IF @ < Threshold THEN @ + 1 ELSE @]
    /\ up' = [up EXCEPT ![UrlOf[i]] = @ /\ ~MarkedDown(UrlOf[i])]
    /\ NextCheck
    /\ UNCHANGED <<healthy, cancelled, answered, exited>>

\* Any other answer, an error, a timeout, or a cancelled context.
RecordFailure(i) ==
    LET u == UrlOf[i]
    IN  /\ checking = i
        /\ ~answered
        /\ fails' = [fails EXCEPT ![u] = IF @ < Threshold THEN @ + 1 ELSE @]
        /\ IF MarkedDown(u)
             THEN /\ up' = [up EXCEPT ![u] = FALSE]
                  /\ SetHealthy(u, FALSE)
             ELSE UNCHANGED <<up, healthy>>
        /\ NextCheck
        /\ UNCHANGED <<cancelled, answered, exited>>

\* Shutdown.  A round under way goes on, with checks that fail, all but perhaps
\* the one under way.
Cancel ==
    /\ ~cancelled
    /\ cancelled' = TRUE
    /\ answered' \in {FALSE, checking # 0}
    /\ UNCHANGED <<healthy, up, fails, checking, exited>>

\* select takes the ctx.Done case, if not the ticker's that may be ready too.
Exit ==
    /\ cancelled
    /\ checking = 0
    /\ ~exited
    /\ exited' = TRUE
    /\ UNCHANGED <<healthy, up, fails, checking, cancelled, answered>>

Check(i) == RecordSuccess(i) \/ RecordFailure(i)

HCNext ==
    \/ StartRound
    \/ \E i \in Targets : Check(i)
    \/ Cancel
    \/ Exit

HCSpec == HCInit /\ [][HCNext]_hcVars

\* The checker's goroutine runs: the ticker keeps firing, and every check ends,
\* at the latest with the client's timeout.
HCFairness == WF_hcVars(StartRound) /\ WF_hcVars(\E i \in Targets : Check(i))

-----------------------------------------------------------------------------
HCTypeOK ==
    /\ healthy \in [Targets -> BOOLEAN]
    /\ up \in [URLs -> BOOLEAN]
    /\ fails \in [URLs -> 0..Threshold]
    /\ checking \in 0..N
    /\ cancelled \in BOOLEAN
    /\ answered \in BOOLEAN
    /\ exited \in BOOLEAN

\* A URL is down exactly when its last Threshold checks failed: no sequence of
\* results, and no cancellation in the middle of a round, separates the two.
DownMeansThreshold == \A u \in URLs : up[u] <=> fails[u] < Threshold

\* The balancer routes by what the checker found: each target's flag is the
\* status of its URL.
FlagsFollowStatus == \A i \in Targets : healthy[i] = up[UrlOf[i]]

\* An outage is noticed: a target whose checks no longer succeed leaves the
\* rotation.  (Unless the gateway shuts down first.)
OutageNoticed ==
    \A i \in Targets :
        <>[][~RecordSuccess(i)]_hcVars => <>[](~healthy[i] \/ cancelled)

\* A recovery is noticed: a target whose checks no longer fail is back for good.
RecoveryNoticed ==
    \A i \in Targets :
        <>[][~RecordFailure(i)]_hcVars => <>[](healthy[i] \/ cancelled)
=============================================================================
