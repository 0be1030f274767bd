\* Room for one project, two applies at a time: what the cache pages out is
\* written back without the paged-out project's lock.
CONSTANTS
    Projects = {p1, p2}
    Capacity = 1
    Clients = {}
    Workers = {w1, w2}
    Readers = {}
    Driver = d
    Free = Free
    MaxApplies = 2
    IoFails = FALSE
SPECIFICATION Spec
INVARIANTS NoLostUpdate
