SPECIFICATION Spec
CONSTANTS
    s1 = s1
    s2 = s2
    Sandbox = {s1, s2}
    worker_id <- OneWorker
    Policies <- TwoPolicies
    MaxCreated = 3
    MaxExecs = 2
    MaxFaults = 2
INVARIANTS
    AnswersAreOwn
    CleanupIsTruthful
    OnlyFaultsLeaveContainers
PROPERTIES
    ExecReturns
CHECK_DEADLOCK FALSE
