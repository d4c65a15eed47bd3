SPECIFICATION Spec
CONSTANTS
    Names = {"read_file", "web_fetch"}
    Results <- SmallResults
    KeepRecentToolResults = 2
    SummarizeThreshold = 9
    SummaryMaxTokens = 4
    MaxReferences = 2
    MaxResult = 3
    Shown = 2
    MaxCalls = 3
    MaxRecords = 3
INVARIANTS
    ReferencesAreKept
    NewestRecordsAreShown
    AnswersAreBounded
CHECK_DEADLOCK FALSE
