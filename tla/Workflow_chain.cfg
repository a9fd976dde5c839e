SPECIFICATION Spec
CONSTANTS
    None = None
    Task <- FiveTasks
    Workflows <- Chain
    MaxConcurrent = 2
    MaxRetry = 3
    MaxIterations = {10}
    MaxRetries = 0
    Recoveries = {"none"}
    DurableStates = {FALSE}
    MaxCrashes = 0
    MaxFaults = 0
INVARIANTS
    FailsOnlyWhenTried
