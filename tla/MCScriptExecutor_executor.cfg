SPECIFICATION Spec
CONSTANTS
    a1 = a1
    a2 = a2
    k1 = k1
    k2 = k2
    None = None
    Attempt <- Attempts
    Cancel <- Cancels
    MaxCrashes = 1
SYMMETRY Symmetry
INVARIANTS
    TypeOK
    TerminatedMeansLeaderGone
    KilledMeansTreeGone
    OneProcessPerId
PROPERTIES
    ImplementsAgent
CHECK_DEADLOCK FALSE
