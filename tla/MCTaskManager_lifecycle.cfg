SPECIFICATION Spec
CONSTANTS
    Clients = {c1}
    TaskIds = {t1, t2}
    Apps <- CheckedApp
    Offers = {1}
    Monitor = "noop"
    Delivery = "ordered"
    MaxInstances = 2
    MaxInputs = 6
SYMMETRY Symmetry
INVARIANTS
    TypeOK
    StartedIsAlive
PROPERTIES
    LaunchIsTracked
    FinishedIsOverwritten
