SPECIFICATION FairSpec
CONSTANTS
    Checks = 3
    PoolSize = 1
    MaxChanges = 2
INVARIANTS
    ProtectedChannels
    StoresOutliveLoops
PROPERTIES
    StopsOrSticks
    StaysStuck
CHECK_DEADLOCK FALSE
