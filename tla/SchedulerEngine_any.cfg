SPECIFICATION FairSpec
CONSTANTS
    Task <- TwoTasks
    Priority = {0, 1}
    DependencySet <- NoneOrOne
    MaxConcurrent = 1
    MaxRetry = 2
INVARIANTS
    RunningSetExact
    NoPendingTaskLost
PROPERTIES
    NoOvertaking
    EventuallyEnds
