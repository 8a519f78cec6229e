SPECIFICATION FairSpec
CONSTANTS
    a1 = a1
    k1 = k1
    k2 = k2
    None = None
    Attempt <- OneAttempt
    Cancel <- TwoCancels
    MaxCrashes = 1
    Events = {}
INVARIANTS
    TerminalIsCounted
CHECK_DEADLOCK FALSE
