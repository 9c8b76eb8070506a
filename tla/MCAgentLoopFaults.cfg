SPECIFICATION FairSpec
CONSTANTS
    p = p  q = q
    Prompts <- TwoPrompts
    Keep = 2
    Blank <- FirstCalls
    MaxFail = 2
    MaxTurns = 2
    Env <- FaultyEnv
    MaxReplies = 2
    MaxUses = 2
    MaxStarts = 2
INVARIANTS
    PromptOnFile
    ResultsFollowUses
PROPERTY
    EveryQueryEnds
CHECK_DEADLOCK FALSE
