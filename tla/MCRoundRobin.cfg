CONSTANTS
    N = 3
    URLs = {"a", "b", "c"}
    UrlOf <- DistinctUrls
    Threshold = 2
    CounterMod = 6
SPECIFICATION FairSpec
INVARIANTS
    TypeOK
    DownMeansThreshold
    FlagsFollowStatus
    NoTargetPassedOver
PROPERTIES
    SelectsHealthy
    OutageNoticed
    RecoveryNoticed
