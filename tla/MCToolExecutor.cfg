SPECIFICATION FairSpec
CONSTANTS
    u = u  w = w  e = e  x = x  s = s  t = t  p = p
    Calls <- MCCalls
    Class <- MCClass
    Gated <- MCGated
    MaxConcurrency = 2
    MaxBlocks = 3
INVARIANTS
    TypeOK
    RequestOrder
    SlotBound
    SiblingAbort
    RefusedOnce
    CallDirectory
PROPERTY
    EveryResponseAnswered
