SPECIFICATION HybridSpec
CONSTANTS
    MaxVersion = 3
    MaxPending = 4
    MaxFaults = 2
INVARIANTS
    HybridTypeOK
    MirrorConverges
CHECK_DEADLOCK FALSE
