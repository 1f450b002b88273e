CONSTANTS
    r1 = r1
    r2 = r2
    r3 = r3
    Requests = {r1, r2, r3}
    FailureThreshold = 2
    ResetTimeout = 1
    HalfOpenMaxReqs = 1
    FailureWindow = 3
    MayPanic = TRUE
    AgeCap = 3
    StatsCap = 3
SPECIFICATION Spec
SYMMETRY RequestSymmetry
INVARIANTS
    TypeOK
    ClosedBelowThreshold
    CountsThisPeriodOnly
    CleanupIsFilter
    ProbeLimit
    SlotsAccountedFor
    StatsConsistent
PROPERTIES
    TripsOnRecentFailures
    KeepsPromise
