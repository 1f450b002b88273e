CONSTANTS
    r1 = r1
    r2 = r2
    Requests = {r1, r2}
    FailureThreshold = 1
    ResetTimeout = 1
    HalfOpenMaxReqs = 1
    FailureWindow = 1
    MayPanic = TRUE
    AgeCap = 2
    StatsCap = 0
    RouteTimeout = 1
    UpstreamCodes = {200, 500}
SPECIFICATION PipelineFairSpec
INVARIANTS
    PipelineTypeOK
    ActiveIsExact
    AnsweredOnce
    RecordedAsSent
PROPERTIES
    JudgedAsSent
    UsesBreaker
    EveryRequestEnds
    TrialSettles
    RouteRecovers
    GaugeSettles
