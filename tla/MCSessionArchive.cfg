SPECIFICATION Spec
CONSTANTS
    p = p  q = q
    Workers <- TwoWorkers
    MaxOps = 4
    MaxEntries = 3
    MaxCrashes = 2
CHECK_DEADLOCK FALSE
SYMMETRY WorkerSymmetry
INVARIANT
    NothingLost
PROPERTY
    ResumesWhole
