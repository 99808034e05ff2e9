SPECIFICATION FairSpec
CONSTANTS
    h1 = h1
    h2 = h2
    Handler <- TwoHandlers
    Knowing <- SomeKnow
    Kind <- AllKinds
    Offer <- Offers
    Asked <- Limits
    DefaultLimit = 2
    MaxLimit = 3
    PageSize = 1
    MaxPages = 2
    MaxRetries = 2
    MaxFaults = 1
INVARIANTS
    EndIsTold
    CompletedIsWhole
    FailedStoredNothing
PROPERTIES
    CollectionEnds
CHECK_DEADLOCK FALSE
