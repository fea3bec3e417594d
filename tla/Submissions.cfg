SPECIFICATION Spec
CONSTANTS
    Calls = {c1, c2, c3}
    Keys = {"k", "bad key"}
    BadKeys = {"bad key"}
    NoKey = NoKey
    Requests <- MCRequests
    Normal <- MCNormal
    NoWord = 0
    None = None
SYMMETRY Symmetry
INVARIANTS TypeOK StoredWhole
PROPERTIES KeepsPromise
CHECK_DEADLOCK FALSE
