SPECIFICATION PortalSpec
CONSTANTS
    a = a  b = b  c = c
    Pids <- ThreePids
    NoPid = NoPid
    Kinds <- AllKinds
    MaxPortals = 3
    MaxRequests = 2
    MaxSessions = 3
    MaxLines = 3
    MaxWork = 4
CHECK_DEADLOCK FALSE
SYMMETRY PidSymmetry
INVARIANTS
    OnePortalUntilStolen
    NoLineMissed
    PartIsSpoiled
PROPERTY
    KillsItsOwn
