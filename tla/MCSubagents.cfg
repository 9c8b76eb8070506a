SPECIFICATION SubagentsSpec
CONSTANTS
    a1 = a1  a2 = a2  Parent = Parent
    Agents <- MCAgents
    MaxTurns = 2
    MaxSpend = 1
    MaxRuns = 2
SYMMETRY Interchangeable
CHECK_DEADLOCK FALSE
INVARIANTS
    Counted
    LeavesNoTrace
