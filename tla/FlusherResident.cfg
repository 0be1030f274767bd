\* Every project fits in the cache; no query is served.
CONSTANTS
    Projects = {p1, p2}
    Capacity = 2
    Clients = {c1}
    Workers = {w}
    Readers = {}
    Driver = d
    Free = Free
    MaxApplies = 2
    IoFails = TRUE
SPECIFICATION Spec
INVARIANTS SafetyInv TypeOK NoLostUpdate AckDurable MarkerHonest
