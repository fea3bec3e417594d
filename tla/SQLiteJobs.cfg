SPECIFICATION Spec
CONSTANTS
    Null = Null
    reducer = reducer
    p1 = p1
    p2 = p2
    single = single
    Jobs = {reducer, p1, p2}
    PartsOf <- MCPartsOf
    MaxAttempts = 2
    Workers = {w1, w2}
    WorkerIds = {"host"}
    IdOf <- MCIdOf
    Reliable = {}
    LeaseTicks = 2
SYMMETRY Symmetry
INVARIANTS OneHolder LastClaimPublishes PublishedWhole ReducerOverConfirmed NoVainWait GivenUpForCause
PROPERTIES LapsedStaysLapsed FailedBeatVetoes KeepsContract
