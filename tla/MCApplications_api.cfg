SPECIFICATION Spec
CONSTANTS
    Clients = {c1, c2}
    Posts <- Bodies
    ValidNames <- Names
    MaxRequests = 3
SYMMETRY Symmetry
INVARIANTS
    NoSlaIsStored
    ShownWasPosted
PROPERTIES
    SavedIsStored
    OverwriteNeedsDash
    DeleteOnce
