SPECIFICATION FairSpec
CONSTANTS
    QueueNum = 2
    CacheNum = 1
    MaxThread = 1
    MaxItems = 5
    MaxStarts = 1
PROPERTIES
    SentItemsAreHandled
CHECK_DEADLOCK FALSE
