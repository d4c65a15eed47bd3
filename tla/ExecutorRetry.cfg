SPECIFICATION RetrySpec
CONSTANTS
    Runs = {r1}
    Plans <- AnyPlans
    Nil = Nil
    Absent = Absent
    Shared = Shared
    Corrupt = Corrupt
    NPhases = 2
    NSteps = 1
    Threshold = 2
    Statuses = {"pending", "in_progress", "complete", "failed"}
    MaxDecisions = 1
    MaxCalls = 1
    MaxFaults = 2
PROPERTIES
    RetriedRunsFinish
