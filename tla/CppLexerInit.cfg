CONSTANTS
    Threads = {t1, t2, t3}
    MaxThrows = 2
SPECIFICATION FairSpec
INVARIANTS
    AssertionHolds
    DereferencesAreSafe
PROPERTIES
    LazilyInitialized
    EveryCallReturns
