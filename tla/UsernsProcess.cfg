CONSTANTS
    Attempts = 3
    Callers = {"probe", "pause"}
SPECIFICATION FairSpec
CHECK_DEADLOCK FALSE
INVARIANTS
    ExecHasUidMap
    NoChildLeft
    YesIsTrue
PROPERTIES
    CallReturns
    OrphanEnds
