SPECIFICATION Spec
CONSTANTS
    None = None
    t1 = t1
    t2 = t2
    t3 = t3
    w1 = w1
    w2 = w2
    Task <- ThreeTasks
    Thread <- TwoThreads
    MaxRequests = 5
SYMMETRY Renamings
CHECK_DEADLOCK FALSE
INVARIANTS
    NoCircularWait
    NeverStuck
    ViewsAgree
