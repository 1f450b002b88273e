CONSTANTS
    Names <- PathNames
    BlankNames <- WithBlank
    BraceNames <- WithBrace
    Tokens <- Methods
    EnvPort <- NoPort
    EnvLevel <- Warn
    EnvFormat <- NoFormat
    EnvMetrics <- MetricsOff
    Configs <- AllConfigs
    Requests = {r1}
    MayReplace = TRUE
    MaxEvents = 2
SPECIFICATION FairSpec
CHECK_DEADLOCK FALSE
INVARIANTS
    TypeOK
    NeverInvalid
    ComponentsFed
PROPERTIES
    NoSwapAfterClose
    EditsApply
    SignalStops
