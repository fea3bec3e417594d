SPECIFICATION Spec
CONSTANTS
    Null = Null
    reducer = reducer
    p1 = p1
    p2 = p2
    Jobs = {reducer, p1}
    PartsOf <- MCPartsOf
    MaxAttempts = 2
    Workers = {w1, w2}
    WorkerIds = {"host"}
    IdOf <- MCIdOf
    Reliable = {}
    LeaseTicks = 1
    Reconcilers = {r1}
SYMMETRY Symmetry
INVARIANTS OneHolder LastClaimPublishes
PROPERTIES OnlyLapsedAreTaken KeepsContract
