SPECIFICATION Spec
CONSTANTS
    Tasks = {t1}
    PoolSize = 1
    MaxChecks = 2
INVARIANTS
    PoolSurvives
