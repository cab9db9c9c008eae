CONSTANTS
    WordBits = 2
    LastCap = 2
    SetPCap = 0
    MaxCalls = 3
SPECIFICATION Spec
CHECK_DEADLOCK FALSE
INVARIANTS
    ReadersAgree
    AppliedTakesEffect
    FailedApplyKeepsCaps
    FileHasSets
