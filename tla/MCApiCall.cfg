SPECIFICATION Spec
CONSTANTS
    Answers <- MCAnswers
    Errors <- MCErrors
    MaxRetries = 2
    Max529 = 1
    PipeCap = 1
INVARIANTS
    
    OneSource
    WithinLimits
PROPERTIES
    OnlyWanted
    EveryQuestionEnds
