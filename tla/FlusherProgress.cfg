\* Room for one project, two applies at a time, under fairness.
CONSTANTS
    Projects = {p1, p2}
    Capacity = 1
    Clients = {}
    Workers = {w1, w2}
    Readers = {}
    Driver = d
    Free = Free
    MaxApplies = 1
    IoFails = FALSE
SPECIFICATION FairSpec
PROPERTIES EveryOperationReturns
