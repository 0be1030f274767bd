\* Producer lane: a permit for every project, jobs that do not fail.
\* Cadence: the cap is longer than the window, the window longer than a poll.
\* Life cycle: two processes and two clients; starts and stops do not overlap.
\* Paging: two projects, room for one, one worker, write-backs that succeed.
CONSTANTS
    p1 = p1
    p2 = p2
    Permits = 2
    LaneOf <- MCLaneOf
    MaxEvents <- MCMaxEvents
    Endless = FALSE
    Faults = FALSE
    d1 = d1
    d2 = d2
    c1 = c1
    c2 = c2
    w = w
    d = d
    Free = Free
    Projects = {p1, p2}
    Held = {p1, p2}
    Quiescence = 3
    MaxDirtyAge = 5
    Poll = 1
    MaxHold = 1
    IoFails = TRUE
    Daemons = {d1, d2}
    Clients = {c1, c2}
    None = None
    MaxStarts = 4
    Overlap = FALSE
    ReconcileFails = FALSE
SPECIFICATION DaemonSpec
INVARIANTS DaemonTypeOK DebtKept EndsOrderly AloneSafe UnsavedIsTracked OneReachableDaemon MarkerVouches
PROPERTIES AppliedInOrder ReclusterWhenQuiet WritesAreTimely StopJoins ClientReturns
