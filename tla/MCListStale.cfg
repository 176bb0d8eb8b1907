\* A list of which most cells are not numbers.
SPECIFICATION Spec
CONSTANTS
    Cells <- MCCells
    IntVals = {1}
    DoubleVals = {2}
    Boxed = TRUE
    MaxLen = 4
    MaxValue = 5
    MaxVersion = 2
    ChunkMin = 4
    Exact = 100
CHECK_DEADLOCK FALSE
INVARIANT ReduceSumCorrect
