SPECIFICATION FairSpec
CONSTANTS
    a = a
    b = b
    script = script
    waited = waited
    backup = backup
    probe = probe
    pam = pam
    Command <- Two
    Sync <- None
    Power <- One
    Queued <- None
    Diagnostic <- None
    Pam <- None
    Script <- None
    Events = {}
    MaxCommands = 2
    MaxClaims = 1
    MaxForgets = 0
PROPERTIES
    PowerClaimedAlone
CHECK_DEADLOCK FALSE
