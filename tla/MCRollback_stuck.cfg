SPECIFICATION FairSpec
CONSTANTS
    d1 = d1
    d2 = d2
    v0 = v0
    v1 = v1
    v2 = v2
    None = None
    Directive = {d1, d2}
    Version = {v0, v1, v2}
    Components = 2
    Agent = 1
    Current <- Chain
    Target <- ChainTarget
    Installed <- First
    MaxCrashes = 1
    MaxFaults = 0
PROPERTIES
    EndsAsReported
