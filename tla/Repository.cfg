SPECIFICATION Spec
CONSTANTS
    Procs = {c1, c2}
    NoProc = NoProc
    Tasks = {t1, t2}
    NoRow = NoRow
    Statuses = {"pending", "completed", "cancelled"}
    Versions = {"v1", "v2"}
    Pages <- SmallPages
    MaxFaults = 1
SYMMETRY Symmetry
INVARIANTS
    OneRow
    PagesMatchTotals
    StatsAddUp
PROPERTIES
    KeepsPromise
CHECK_DEADLOCK FALSE
