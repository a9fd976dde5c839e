SPECIFICATION Spec
CONSTANTS
    None = None
    Task <- TwoTasks
    Workflows <- Pairs
    MaxConcurrent = 1
    MaxRetry = 3
    MaxIterations = {10}
    MaxRetries = 0
    Recoveries = {"none"}
    DurableStates = {TRUE}
    MaxCrashes = 1
    MaxFaults = 0
INVARIANTS
    InterruptedReexecutes
