\* A process may start while another one goes down.
CONSTANTS
    d1 = d1
    d2 = d2
    c1 = c1
    c2 = c2
    Daemons = {d1, d2}
    Clients = {c1}
    None = None
    MaxStarts = 4
    Overlap = TRUE
    ReconcileFails = FALSE
SPECIFICATION LifeSpec
INVARIANTS CheapStartsAreSafe
