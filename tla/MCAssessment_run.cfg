CONSTANTS
    Files <- MCFiles
    Overrides <- MCOverrides
    OverrideFile = "etc"
    MaxRuns = 2
SPECIFICATION MCSpec
CHECK_DEADLOCK FALSE
INVARIANTS
    CompleteCredentialsAreUsed
    PriorityIsKept
    NamedServerIsAsked
    RegistrationHasDbus
    OverridesAreHonoured
    OverridesOnlySilenceInhibitors
    ReportsAgree
