SPECIFICATION Spec
CONSTANTS
    Runs = {r1, r2}
    Plans <- OtherPlans
    Nil = Nil
    Absent = Absent
    Shared = Shared
    Corrupt = Corrupt
    NPhases = 1
    NSteps = 1
    Threshold = 2
    Statuses = {"pending", "complete"}
    MaxDecisions = 0
    MaxCalls = 1
    MaxFaults = 1
SYMMETRY RunSymmetry
INVARIANTS
    MarkedPhasesAreDone
PROPERTIES
    SavedStepsStayDone
