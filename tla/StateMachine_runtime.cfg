SPECIFICATION RuntimeSpec
CONSTANTS
    None = None
    t1 = t1
    w1 = w1
    Task <- OneTask
    Thread <- OneThread
    MaxTransitions = 5
INVARIANTS
    StateIsDurable
    HistoryIsPossible
PROPERTIES
    ImplementsLifecycle
