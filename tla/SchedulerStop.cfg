\* One permit: a recluster may have to wait for it.
CONSTANTS
    p1 = p1
    p2 = p2
    Projects = {p1, p2}
    Permits = 1
    LaneOf <- MCLaneOf
    MaxEvents <- MCTwoEvents
    Endless = FALSE
    Faults = FALSE
SPECIFICATION Spec
INVARIANTS StopPaysDebts
