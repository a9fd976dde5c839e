SPECIFICATION SchedulingFairSpec
CONSTANTS
    None = None
    t1 = t1
    t2 = t2
    t3 = t3
    o1 = o1
    Task <- ThreeTasks
    Priority = {0, 1}
    Amount = {1, 3}
    Capacity = 2
    Other <- OneOther
    Limit = {1, None}
    MaxDepth = 2
    MaxOthers = 1
INVARIANTS
    BooksAgree
PROPERTIES
    StartsInOrder
    EventuallyExecuted
