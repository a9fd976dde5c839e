SPECIFICATION BusSpec
CONSTANTS
    None = None
    l1 = l1
    l2 = l2
    n1 = n1
    c1 = c1
    c2 = c2
    Loop <- TwoLoops
    Name = {n1}
    Callback <- TwoCallbacks
    BatchSize = 2
    MaxRetries = 0
    MaxMessages = 2
    MaxSubscribers = 2
    MaxFaults = 1
SYMMETRY Renamings
INVARIANTS
    RepeatedOnlyAfterFailure
    AckedAfterCallbacks
    HandledInOrder
PROPERTIES
    ReceivedAreSettled
