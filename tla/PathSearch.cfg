SPECIFICATION BoundedSpec
CONSTANTS
    Nodes <- MCNodes
    Limits <- MCLimits
    None = None
INVARIANTS FirstInOrder ReportExact BestOfMet
CHECK_DEADLOCK FALSE
