SPECIFICATION FairSpec
CONSTANTS
    Tasks = {t1, t2}
    PoolSize = 1
    MaxChecks = 1
INVARIANTS
    TypeOK
    NeverTwice
    NeverLost
    PendingExact
PROPERTIES
    LeavesOnlyFromQueue
    CheckedForever
