\* One permit, and a project whose events never stop.
CONSTANTS
    p1 = p1
    p2 = p2
    Projects = {p1, p2}
    Permits = 1
    LaneOf <- MCLaneOf
    MaxEvents <- MCOnePending
    Endless = TRUE
    Faults = FALSE
SPECIFICATION FairSpec
INVARIANTS PoolBounds
PROPERTIES DeferredJobsRun DebtsPaid
