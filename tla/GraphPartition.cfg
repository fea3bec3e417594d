SPECIFICATION Spec
CONSTANTS
    Letters <- MCLetters
    Words <- MCWords
    Partitions = 2
INVARIANTS PartsExact MergedWhole
