SPECIFICATION FairChunkSpec
CONSTANTS
    Texts <- SmallTexts
    Configs <- SmallConfigs
INVARIANTS
    ContentKept
    NothingTwice
    SpansHoldTheirText
    ChunksBounded
PROPERTIES
    ChunkingEnds
CHECK_DEADLOCK FALSE
