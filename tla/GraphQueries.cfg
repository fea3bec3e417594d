SPECIFICATION QueriesSpec
CONSTANTS
    Nodes <- MCNodes
    Thresholds <- MCThresholds
    None = None
    Start = Start
INVARIANTS CoreFound RegionsExact FirstOfShortest
CHECK_DEADLOCK FALSE
