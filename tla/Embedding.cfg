SPECIFICATION FairSpec
CONSTANTS
    k1 = k1
    k2 = k2
    k3 = k3
    HeadNode = HeadNode
    TailNode = TailNode
    Nil = Nil
    Keys = {k1, k2, k3}
    Capacity = 2
    Clients = {c1, c2}
    TextLists <- Asked
    MaxBatchSize = 2
    MaxRetries = 2
    MaxFaults = 2
    MaxRequests = 3
INVARIANTS
    AnswersMatchTexts
    CacheHoldsTrueVectors
PROPERTIES
    KeepsMostRecent
    RequestsEnd
CHECK_DEADLOCK FALSE
