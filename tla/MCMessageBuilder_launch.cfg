SPECIFICATION Spec
CONSTANTS
    worker = worker
    web = web
    plain = plain
    Apps = {worker, web, plain}
    Docker = {web}
    TaskIds = {t1, t2, t3}
    Resources <- MCResources
    PortsOf <- MCPortsOf
SYMMETRY Symmetry
INVARIANTS
    GrantsDisjoint
    PublicPortsDistinct
    PanicsOnExactFit
CHECK_DEADLOCK FALSE
