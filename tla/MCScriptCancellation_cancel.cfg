SPECIFICATION FairSpec
CONSTANTS
    a1 = a1
    k1 = k1
    k2 = k2
    None = None
    Attempt <- OneAttempt
    Cancel <- TwoCancels
    MaxCrashes = 1
    Events = {"reportedFailed", "persistFails", "rowCancel"}
INVARIANTS
    TypeOK
    ConfirmedByDevice
    CountedAtMostOnce
    OutputKept
PROPERTIES
    DecidedStays
    ExecutionCloses
CHECK_DEADLOCK FALSE
