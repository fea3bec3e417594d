SPECIFICATION FairSpec
CONSTANTS
    Null = Null
    reducer = reducer
    p1 = p1
    p2 = p2
    w1 = w1
    w2 = w2
    Jobs = {reducer, p1}
    PartsOf <- MCPartsOf
    MaxAttempts = 2
    Workers = {w1}
    WorkerIds = {"host"}
    IdOf <- MCIdOf
    Reliable = {w1}
    LeaseTicks = 1
    Reconcilers = {r1}
PROPERTIES EveryJobSettles
CHECK_DEADLOCK FALSE
