SPECIFICATION Spec
CONSTANTS
    Null = Null
    Jobs = {j1, j2, j3}
    PartsOf <- MCPartsOf
    MaxAttempts = 2
    Workers = {w1, w2}
    WorkerIds = {"api"}
    IdOf <- MCIdOf
    Reliable = {w1, w2}
    LeaseTicks = 1
SYMMETRY Symmetry
INVARIANTS QueueExact OneHolder
PROPERTIES NoOvertaking KeepsContract
