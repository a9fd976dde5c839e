SPECIFICATION FairSpec
CONSTANTS
    None = None
    Task <- ThreeTasks
    Workflows <- Shapes
    MaxConcurrent = 2
    MaxRetry = 3
    MaxIterations = {1, 10}
    MaxRetries = 1
    Recoveries = {"none", "engine", "repair"}
    DurableStates = {FALSE, TRUE}
    MaxCrashes = 1
    MaxFaults = 1
INVARIANTS
    ViewsAgree
    RunsAfterDependencies
    NoRunnableTaskLeft
PROPERTIES
    CheckpointedNotRerun
    Termination
    ImplementsProgress
