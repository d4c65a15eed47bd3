SPECIFICATION Spec
CONSTANTS
    Callers = {c1, c2}
    Keys = {"k"}
    NPhases = 2
    NSteps = 1
    Threshold = 2
    Nil = Nil
    MaxRetries = 2
    Mixes <- RulesThatMeet
    MaxLog = 5
    MaxChanges = 2
SYMMETRY CallerSymmetry
INVARIANTS
    PlanIsReread
    StrikesAreCounted
    FailuresAreOnRecord
PROPERTIES
    StopIsJustified
CHECK_DEADLOCK FALSE
