SPECIFICATION FairSpec
CONSTANTS
    Null = Null
    reducer = reducer
    p1 = p1
    p2 = p2
    single = single
    w1 = w1
    w2 = w2
    Jobs = {reducer, p1}
    PartsOf <- MCPartsOf
    MaxAttempts = 2
    Workers = {w1, w2}
    WorkerIds = {"host"}
    IdOf <- MCIdOf
    Reliable = {w1}
    LeaseTicks = 2
PROPERTIES EveryJobSettles
