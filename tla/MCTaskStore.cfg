CONSTANTS
    Callers = {main}
    TaskIds = {t1, t2}
    MaxVersion = 2
    MaxResumes = 1
SPECIFICATION FairSpec
PROPERTY EveryChangeSaved
CHECK_DEADLOCK FALSE
