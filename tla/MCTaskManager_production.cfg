SPECIFICATION Spec
CONSTANTS
    Clients = {c1, c2, c3}
    TaskIds = {t1}
    Apps <- TwoApps
    Offers = {1}
    Monitor = "simple"
    Delivery = "ordered"
    MaxInstances = 2
    MaxInputs = 6
SYMMETRY Symmetry
INVARIANTS
    QueueOvershootBound
    ProductionLaunchesNothing
