CONSTANTS
    Text = text
    Versions <- AroundTheGates
    MaxCalls = 3
SPECIFICATION Spec
CHECK_DEADLOCK FALSE
INVARIANTS
    NothingLeft
    TargetMount
    AnswerIsTrue
    
