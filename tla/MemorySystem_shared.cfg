SPECIFICATION Spec
CONSTANTS
    None = None
    m1 = m1
    worker = worker
    Id <- OneId
    Layer <- Layers
    Thread <- OneThread
    MaxStores = 3
    MaxClock = 2
INVARIANTS
    ResultsAreOfTheLayer
    IndexFollowsTable
    CleanupIsComplete
PROPERTIES
    OnlyExpiredAreDeleted
