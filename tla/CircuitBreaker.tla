--------------------------- MODULE CircuitBreaker ---------------------------
(***************************************************************************)
(* The per-route circuit breaker of internal/circuit/breaker.go, used by   *)
(* any number of request goroutines at once.                               *)
(*                                                                         *)
(* Every critical section of cb.mu is one action.  Execute takes the lock  *)
(* three times (beforeRequest, totalRequests++, onSuccess or onFailure)    *)
(* and runs fn between the second and the third, so another request, a     *)
(* Reset or the passing of time may come between any two of them.  What fn *)
(* returns is chosen when its result is recorded: nothing reads it before. *)
(*                                                                         *)
(* Time stamps are kept as ages, in clock ticks: a stamp t is the number   *)
(* of ticks since t, and stops growing at AgeCap, past which the code      *)
(* cannot tell two ages apart.  lastFailure and lastSuccess are only       *)
(* reported by Stats and are left out.                                     *)
(***************************************************************************)
EXTENDS Integers, Sequences, FiniteSets

CONSTANTS
    Requests,          \* the goroutines that call Execute, over and over
    FailureThreshold,  \* BreakerConfig; the configuration does not check
    ResetTimeout,      \*   that the first three are positive
    HalfOpenMaxReqs,
    FailureWindow,
    MayPanic,          \* whether fn may panic instead of returning
    AgeCap,            \* bound: ages are counted up to here
    StatsCap           \* bound: the statistics are counted up to here

ASSUME RequestsAssumption == IsFiniteSet(Requests)

ASSUME ConfigAssumption ==
    /\ FailureThreshold \in Int
    /\ ResetTimeout \in Int
    /\ HalfOpenMaxReqs \in Int
    /\ FailureWindow \in Nat \ {0}
    /\ MayPanic \in BOOLEAN

ASSUME BoundsAssumption ==
    /\ AgeCap \in Nat
    /\ AgeCap > ResetTimeout
    /\ AgeCap >= FailureWindow
    /\ StatsCap \in Nat

VARIABLES
    state,             \* "Closed", "Open" or "HalfOpen"
    sinceChange,       \* the age of lastStateChange
    halfOpenReqs,
    failures,          \* the ages of the failures in the sliding window
    consecutiveFails,
    totalRequests,
    totalFailures,
    pc,                \* where each request is in Execute
    probes,            \* history: the requests in flight that the present
                       \*   half-open period admitted
    lost,              \* history: how many of its requests panicked
    resets             \* history: 0 or 1, flips with every call of Reset

stats == <<consecutiveFails, totalRequests, totalFailures>>
trial == <<probes, lost>>
vars == <<state, sinceChange, halfOpenReqs, failures, stats, pc, trial, resets>>

Ages == 0..AgeCap
Counts == 0..StatsCap

Bump(count) == IF count < StatsCap THEN count + 1 ELSE count
Older(a) == IF a < AgeCap THEN a + 1 ELSE a

-----------------------------------------------------------------------------
(***************************************************************************)
(* The decisions of the breaker.  A definition introduced by "Slip" is a   *)
(* plausible mistake in the one that follows it, used by no action.        *)
(***************************************************************************)

\* Slip: the failure exactly FailureWindow old still counts.
ExpiredLate(fs) == {i \in DOMAIN fs : fs[i] > FailureWindow}

\* The entries of a failure list that left the window: ft.After(cutoff) fails.
Expired(fs) == {i \in DOMAIN fs : fs[i] >= FailureWindow}

\* Slip: the window is never cleaned.
CleanedNever(fs) == fs

\* What onFailure's loop has kept of a list after each number of its entries.
Kept(fs) ==
    LET kept[n \in 0..Len(fs)] ==
            IF n = 0 THEN <<>>
            ELSE IF fs[n] < FailureWindow THEN Append(kept[n - 1], fs[n])
            ELSE kept[n - 1]
    IN  kept

\* The window's cleanup.  The list is in the order of its time stamps, so that
\* the entries the loop drops come first (CleanupIsFilter).
Cleaned(fs) == SubSeq(fs, Cardinality(Expired(fs)) + 1, Len(fs))

\* Slip: the threshold itself does not trip the breaker.
FullOffByOne(fs) == Len(fs) > FailureThreshold

Full(fs) == Len(fs) >= FailureThreshold

\* Slip: a failed half-open request leaves the breaker half-open.
FailureOpensClosedOnly(fs) == state = "Closed" /\ Full(fs)

\* onFailure's switch: the states a failure opens the breaker from.
FailureOpens(fs) ==
    \/ state = "Closed" /\ Full(fs)
    \/ state = "HalfOpen"

\* Slip: a late success closes a breaker that is still open.
SuccessClosesOpen == state # "Closed"

SuccessCloses == state = "HalfOpen"

\* Slip: the limit is compared with > instead of >=.
SlotFreeOffByOne == halfOpenReqs <= HalfOpenMaxReqs

SlotFree == halfOpenReqs < HalfOpenMaxReqs

\* Slip: halfOpenReqs is left alone, where it should grow or restart.
SameSlots == UNCHANGED halfOpenReqs

TakeSlot == halfOpenReqs' = halfOpenReqs + 1

FreeSlots == halfOpenReqs' = 0

\* Slip: the failures of the last outage stay in the window.
KeepWindow == UNCHANGED failures

ClearWindow == failures' = <<>>

TransitionTo(new) ==
    /\ state' = new
    /\ sinceChange' = 0

EndTrial ==
    /\ probes' = {}
    /\ lost' = 0

Step(r, from, to) ==
    /\ pc[r] = from
    /\ pc' = [pc EXCEPT ![r] = to]

-----------------------------------------------------------------------------
Init ==
    /\ state = "Closed"
    /\ sinceChange = 0
    /\ halfOpenReqs = 0
    /\ failures = <<>>
    /\ consecutiveFails = 0
    /\ totalRequests = 0
    /\ totalFailures = 0
    /\ pc = [r \in Requests |-> "idle"]
    /\ probes = {}
    /\ lost = 0
    /\ resets = 0

\* beforeRequest, one action for each way out of it.
AdmitClosed(r) ==
    /\ state = "Closed"
    /\ Step(r, "idle", "admitted")
    /\ UNCHANGED <<state, sinceChange, halfOpenReqs, failures, stats, trial,
                   resets>>

\* The first request after the timeout starts the half-open period.  It does
\* not count as one of the period's requests.
AdmitFirstProbe(r) ==
    /\ state = "Open"
    /\ sinceChange > ResetTimeout
    /\ Step(r, "idle", "admitted")
    /\ TransitionTo("HalfOpen")
    /\ FreeSlots
    /\ probes' = {r}
    /\ lost' = 0
    /\ UNCHANGED <<failures, stats, resets>>

AdmitProbe(r) ==
    /\ state = "HalfOpen"
    /\ SlotFree
    /\ Step(r, "idle", "admitted")
    /\ TakeSlot
    /\ probes' = probes \cup {r}
    /\ UNCHANGED <<state, sinceChange, failures, stats, lost, resets>>

\* Slip: each rejection restarts the reset timeout.
RejectRestartsTimeout(r) ==
    /\ \/ state = "Open" /\ sinceChange <= ResetTimeout
       \/ state = "HalfOpen" /\ ~SlotFree
    /\ Step(r, "idle", "rejected")
    /\ TransitionTo(state)
    /\ UNCHANGED <<halfOpenReqs, failures, stats, trial, resets>>

\* ErrCircuitOpen.
Reject(r) ==
    /\ \/ state = "Open" /\ sinceChange <= ResetTimeout
       \/ state = "HalfOpen" /\ ~SlotFree
    /\ Step(r, "idle", "rejected")
    /\ UNCHANGED <<state, sinceChange, halfOpenReqs, failures, stats, trial,
                   resets>>

BeforeRequest(r) ==
    \/ AdmitClosed(r)
    \/ AdmitFirstProbe(r)
    \/ AdmitProbe(r)
    \/ Reject(r)

\* Execute returns ErrCircuitOpen to its caller without having called fn.
ReturnRejected(r) ==
    /\ Step(r, "rejected", "idle")
    /\ UNCHANGED <<state, sinceChange, halfOpenReqs, failures, stats, trial,
                   resets>>

\* Slip: totalRequests is not counted before fn runs.
CountRequestMissing(r) ==
    /\ Step(r, "admitted", "running")
    /\ UNCHANGED <<state, sinceChange, halfOpenReqs, failures, stats, trial,
                   resets>>

\* totalRequests++, under a lock of its own.
CountRequest(r) ==
    /\ Step(r, "admitted", "running")
    /\ totalRequests' = Bump(totalRequests)
    /\ UNCHANGED <<state, sinceChange, halfOpenReqs, failures,
                   consecutiveFails, totalFailures, trial, resets>>

\* fn returned nil, in whatever state the breaker is by then.
OnSuccess(r) ==
    /\ Step(r, "running", "idle")
    /\ consecutiveFails' = 0
    /\ IF SuccessCloses
         THEN TransitionTo("Closed") /\ ClearWindow
         ELSE UNCHANGED <<state, sinceChange, failures>>
    /\ EndTrial
    /\ UNCHANGED <<halfOpenReqs, totalRequests, totalFailures, resets>>

\* fn returned an error, in whatever state the breaker is by then.
OnFailure(r) ==
    /\ Step(r, "running", "idle")
    /\ totalFailures' = Bump(totalFailures)
    /\ consecutiveFails' = Bump(consecutiveFails)
    /\ failures' = Cleaned(Append(failures, 0))
    /\ IF FailureOpens(failures')
         THEN TransitionTo("Open")
         ELSE UNCHANGED <<state, sinceChange>>
    /\ EndTrial
    /\ UNCHANGED <<halfOpenReqs, totalRequests, resets>>

\* fn panics.  Execute has no deferred call: it unwinds past both onSuccess and
\* onFailure, and the breaker is told nothing.
Panic(r) ==
    /\ MayPanic
    /\ Step(r, "running", "idle")
    /\ probes' = probes \ {r}
    /\ lost' = IF r \in probes THEN lost + 1 ELSE lost
    /\ UNCHANGED <<state, sinceChange, halfOpenReqs, failures, stats, resets>>

Reset ==
    /\ TransitionTo("Closed")
    /\ FreeSlots
    /\ ClearWindow
    /\ consecutiveFails' = 0
    /\ EndTrial
    /\ resets' = 1 - resets
    /\ UNCHANGED <<totalRequests, totalFailures, pc>>

\* Time passes.
Tick ==
    /\ sinceChange' = Older(sinceChange)
    /\ failures' = [i \in DOMAIN failures |-> Older(failures[i])]
    /\ UNCHANGED <<state, halfOpenReqs, stats, pc, trial, resets>>

Finish(r) == OnSuccess(r) \/ OnFailure(r) \/ Panic(r)

Execute(r) ==
    \/ BeforeRequest(r)
    \/ ReturnRejected(r)
    \/ CountRequest(r)
    \/ Finish(r)

Next ==
    \/ \E r \in Requests : Execute(r)
    \/ Reset
    \/ Tick

Spec == Init /\ [][Next]_vars

-----------------------------------------------------------------------------
\* The half-open requests that halfOpenReqs may count.
Limit == IF HalfOpenMaxReqs > 0 THEN HalfOpenMaxReqs ELSE 0

Running == {r \in Requests : pc[r] = "running"}

\* The fields of CircuitBreaker and the places of Execute have their types;
\* halfOpenReqs never passes the configured limit, whatever the interleaving.
TypeOK ==
    /\ state \in {"Closed", "Open", "HalfOpen"}
    /\ sinceChange \in Ages
    /\ halfOpenReqs \in 0..Limit
    /\ failures \in Seq(Ages)
    /\ consecutiveFails \in Counts
    /\ totalRequests \in Counts
    /\ totalFailures \in Counts
    /\ pc \in [Requests -> {"idle", "admitted", "running", "rejected"}]
    /\ probes \subseteq Requests
    /\ lost \in Nat
    /\ resets \in 0..1

\* A closed breaker never sits on a full window: the failure that fills it is
\* the one that trips it, late results and Reset included.  (With a threshold
\* below one, a closed breaker has recorded no failure at all.)
ClosedBelowThreshold ==
    state = "Closed" => failures = <<>> \/ Len(failures) < FailureThreshold

\* The failures a closed breaker counts all happened after it last closed: none
\* that an earlier outage left behind can trip it again.
CountsThisPeriodOnly ==
    state = "Closed" => \A i \in DOMAIN failures : failures[i] <= sinceChange

\* Dropping as many entries from the front as have expired is what onFailure's
\* loop comes to, which looks at each: none that has expired is behind one that
\* has not, however late requests fail.
CleanupIsFilter ==
    LET window == Append(failures, 0)
    IN  Cleaned(window) = Kept(window)[Len(window)]

\* However requests interleave, at most one more than HalfOpenMaxReqs of those
\* that a half-open period admitted are in flight together.
ProbeLimit == Cardinality(probes) <= Limit + 1

\* Every half-open slot taken, and the one the period began with, is held by a
\* request in flight or was lost to a panic: no interleaving of probes, late
\* results and resets leaks one, and while fn returns a result is on its way.
SlotsAccountedFor ==
    state = "HalfOpen" => Cardinality(probes) + lost = halfOpenReqs + 1

\* Stats never shows more failures than requests, nor a longer run of failures
\* than failures, although the three are updated under different locks; until
\* the count saturates, the calls of fn under way are accounted for too.
StatsConsistent ==
    /\ consecutiveFails <= totalFailures
    /\ totalFailures <= totalRequests
    /\ \/ totalRequests = StatsCap
       \/ totalFailures + Cardinality(Running) <= totalRequests

\* A closed breaker opens only on a full window whose failures are all recent:
\* the threshold is about the last FailureWindow, not about all time.
TripsOnRecentFailures ==
    [][state = "Closed" /\ state' = "Open" =>
         /\ Len(failures') >= FailureThreshold
         /\ \A i \in DOMAIN failures' : failures'[i] < FailureWindow]_vars

\* The breaker keeps BreakerPromise, whatever its requests do: while nobody
\* calls Reset, it closes again only through a trial.
Promise == INSTANCE BreakerPromise
    WITH trial <- IF state = "HalfOpen" THEN halfOpenReqs + 1 ELSE 0

KeepsPromise == Promise!Spec
=============================================================================
