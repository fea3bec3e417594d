SPECIFICATION Spec
CONSTANTS
    Versions = {v1, v2}
    MaxRuns = 3
    None = None
SYMMETRY Symmetry
INVARIANTS TypeOK GreenMeansStopped LeftRunningForCause OpenIsChecked
PROPERTIES StopsOnlyOwn
CHECK_DEADLOCK FALSE
