CONSTANTS
    Threads = {t1, t2, t3}
SPECIFICATION FairSpec
INVARIANTS
    NoWriteWhileRead
PROPERTIES
    LazilyInitialized
    EveryCallReturns
