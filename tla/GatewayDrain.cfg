CONSTANTS
    Names <- PathNames
    BlankNames <- WithBlank
    BraceNames <- WithBrace
    Tokens <- Methods
    EnvPort <- NoPort
    EnvLevel <- Warn
    EnvFormat <- NoFormat
    EnvMetrics <- MetricsOff
    Configs <- SavedConfigs
    Requests = {r1}
    MayReplace = FALSE
    MaxEvents = 2
SPECIFICATION Spec
CHECK_DEADLOCK FALSE
INVARIANT GracefulShutdown
