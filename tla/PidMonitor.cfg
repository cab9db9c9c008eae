CONSTANTS
    Pids = {p1}
    BadEvent = bad
    Clients = {c1, c2, c3}
    Editors = {c1, c3}
    Waiters = {c1, c2}
    Closers = {c3}
    MaxList = 2
    EventChCap = 1
    StatErrors = TRUE
SPECIFICATION FairSpec
INVARIANTS
    TypeOK
    NoUnaskedEvent
PROPERTIES
    NotifierSpec
    ListCallsReturn
    ExitNotified
    CloseStopsMonitor
    CloseWakesAWaiter
