SPECIFICATION FairSpec
CONSTANTS
    NoProc = NoProc
    Procs = {l1, r1, m1, m2, s1}
    Listers = {l1}
    Readers = {r1}
    Mutators = {m1, m2}
    Planners = {s1}
    MaxOps = 4
INVARIANTS
    TypeOK
    NoTornReads
    ManagerLoadsWhole
    ReaderAheadByOne
PROPERTY
    CallsEndOrStandStill
CHECK_DEADLOCK FALSE
