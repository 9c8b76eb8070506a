SPECIFICATION Spec
CONSTANTS
    p = p  q = q
    Prompts <- OnePrompt
    Keep = 1
    Blank <- FirstCalls
    MaxFail = 1
    MaxTurns = 2
    Env <- BusyEnv
    MaxReplies = 3
    MaxUses = 2
    MaxStarts = 2
INVARIANTS
    
    NothingComesBack
    BreakerSurvives
CHECK_DEADLOCK FALSE
