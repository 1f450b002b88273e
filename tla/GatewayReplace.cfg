CONSTANTS
    Names <- PathNames
    BlankNames <- WithBlank
    BraceNames <- WithBrace
    Tokens <- Methods
    EnvPort <- NoPort
    EnvLevel <- Warn
    EnvFormat <- NoFormat
    EnvMetrics <- MetricsOff
    Configs <- SavedConfigs
    Requests = {}
    MayReplace = TRUE
    MaxEvents = 2
SPECIFICATION FairSpec
CHECK_DEADLOCK FALSE
PROPERTY ChangesApply
