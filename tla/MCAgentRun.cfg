CONSTANTS
    MaxRounds = 3
    MaxAttempts = 2
    MaxTurns = 4
    MaxSteps = 2
    MaxCalls = 2
    MaxRequests = 3
SPECIFICATION Spec
INVARIANTS
    HistoryPaired
    PlanIsSpent
    PromptsBounded
    FinalAfterWriteCall
    AnswerWasShown
CHECK_DEADLOCK FALSE
