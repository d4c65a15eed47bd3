SPECIFICATION Spec
CONSTANTS
    QueueNum = 1
    CacheNum = 1
    MaxThread = 1
    MaxItems = 3
    MaxStarts = 2
INVARIANTS
    TypeOK
    ItemsAccounted
    HandlersWithinLimit
CHECK_DEADLOCK FALSE
