SPECIFICATION FairSpec
CONSTANTS
    Clients = {c1}
    TaskIds = {t1, t2}
    Apps <- CheckedApp
    Offers = {1}
    Monitor = "noop"
    Delivery = "unordered"
    MaxInstances = 2
    MaxInputs = 5
INVARIANTS
    RegisteredIsStored
    UnhealthyKeepsRunning
PROPERTIES
    QueueDrains
    HealthLoopReturns
