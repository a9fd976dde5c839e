SPECIFICATION Spec
CONSTANTS
    None = None
    t1 = t1
    t2 = t2
    Task = {t1, t2}
    Configured = TRUE
    Coded = {t1}
    Error <- Errors
    MaxCalls = 3
    MaxFaults = 1
    MaxCrashes = 1
INVARIANTS
    SuccessWasVerified
    ExperiencesMatchHistory
    OutcomeIsAnnounced
    FailureIsHandedOver
PROPERTIES
    TerminalIsFinal
    RecoveriesEnd
CHECK_DEADLOCK FALSE
