CONSTANTS
    Files = {f1, f2}
    Threads = {t1, t2}
    NoThread = none
    EventBufSizes = {0, 1}
    StatErrors = TRUE
SPECIFICATION FairSpec
INVARIANTS
    TypeOK
    OneMonitor
    NoUnaskedEvent
PROPERTIES
    NotifierSpec
    MutexReleased
    ServedRemovalNotified
    CloseStopsMonitor
