CONSTANTS
    Names <- PathNames
    BlankNames <- WithBlank
    BraceNames <- WithBrace
    Tokens <- Methods
    EnvPort <- NoPort
    EnvLevel <- Warn
    EnvFormat <- NoFormat
    EnvMetrics <- MetricsOff
    Configs <- ConflictingConfigs
    Requests = {}
    MayReplace = FALSE
    MaxEvents = 2
SPECIFICATION Spec
CHECK_DEADLOCK FALSE
INVARIANT ReloadNeverCrashes
