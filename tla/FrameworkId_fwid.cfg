SPECIFICATION Spec
CONSTANTS
    Clients = {c1, c2}
    MaxStarts = 3
INVARIANTS
    OrphansBound
    ShownIsRegistered
PROPERTIES
    StopIsFinal
