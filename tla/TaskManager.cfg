SPECIFICATION Spec
CONSTANTS
    Tasks = {t1}
    Nil = Nil
    Corrupt = Corrupt
    NPhases = 2
    NSteps = 1
    Threshold = 2
    MaxLog = 2
    MaxFaults = 2
INVARIANTS
    TypeOK
    SavedPartsMatchMemory
    AckedErrorsKept
    CreatedTasksAreWhole
    DeletedStaysDeleted
PROPERTIES
    CompletedWithAllPhases
