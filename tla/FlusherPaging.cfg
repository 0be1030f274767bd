\* Two projects, room for one: a query loads and builds a view outside the cache mutex, beside the applies.
CONSTANTS
    Projects = {p1, p2}
    Capacity = 1
    Clients = {}
    Workers = {w}
    Readers = {r}
    Driver = d
    Free = Free
    MaxApplies = 1
    IoFails = TRUE
SPECIFICATION Spec
INVARIANTS CacheCoherent
