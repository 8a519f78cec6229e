SPECIFICATION FairSpec
CONSTANTS
    a = a
    b = b
    script = script
    waited = waited
    backup = backup
    probe = probe
    pam = pam
    Command <- Kinds
    Sync <- WaitedKinds
    Power <- None
    Queued <- BackupKinds
    Diagnostic <- ProbeKinds
    Pam <- PamKinds
    Script <- ScriptKinds
    Events = {"cancel", "sweep", "ineligible", "unprepared", "reportedFailed", "agentRefuses", "persistFails", "rollback"}
    MaxCommands = 1
    MaxClaims = 2
    MaxForgets = 1
INVARIANTS
    TypeOK
    RecordedExactlyOnce
    ReapsOnlyDueRows
    OwnerFollowsResult
    ExecutedOncePerLife
PROPERTIES
    ReleaseOnlyOwnClaim
    FinalRowsFrozen
    ImplementsOutcome
    Settles
    ExecutionSettles
CHECK_DEADLOCK FALSE
