CONSTANTS
    Files = {f1, f2}
    Threads = {t1, t2}
    NoThread = none
    EventBufSizes = {1}
    StatErrors = TRUE
SPECIFICATION FairSpec
PROPERTIES RemovalNotified
