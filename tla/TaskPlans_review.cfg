SPECIFICATION FairSpec
CONSTANTS
    None = None
    a = a
    b = b
    Plan = {p1}
    ItemId <- Ids
    ItemList <- Lists
    Thread = {w1, w2, w3}
    MaxRequests = 5
CHECK_DEADLOCK FALSE
INVARIANTS
    ConfirmedEventIsTrue
PROPERTIES
    ImplementsReview
    ConfirmationIsAnnounced
