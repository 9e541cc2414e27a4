SPECIFICATION FairSpec
CONSTANTS
    Clients = {c1, c2}
    Keys = {1, 2}
    Values = {v1, v2}
    None = None
INVARIANTS
    TypeOK
PROPERTIES
    Refines
    LockReleased
