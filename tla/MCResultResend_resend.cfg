SPECIFICATION FairSpec
CONSTANTS
    a = a
    b = b
    None = None
    Result <- Results
    Size <- Sizes
    Durable <- KeptResults
    MaxEntries = 2
    MaxBytes = 2
    MaxAttempts = 1
    Capacity = 1
    MaxPending = 2
    MaxFailures = 2
    MaxDiskErrors = 1
INVARIANTS
    TypeOK
    Bounded
    CapHolds
    DurableAccounted
PROPERTIES
    BackoffKept
    ScheduledFires
CHECK_DEADLOCK FALSE
