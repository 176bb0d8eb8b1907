SPECIFICATION ExecutionSpec
CONSTANTS
    Names = {1, 2, 3, 4, 5, 6, 7, 8, 9}
    MaxTurns = 12
    NarrowBits = 3
    ProbeLimit = 3
    FirstTemp = 10
    Programs <- NoPrograms
    Statements <- TwiceStatements
    Environments <- TwiceEnvironments
    p1 = p1
    p2 = p2
    Procs = {}
    Jobs <- NoJobs
    MaxVersion = 1
    CheckedPrograms <- NoCheckedPrograms
    MaxItems = 0
    MostTurns = 0
INVARIANTS
    SameForEveryRange
CHECK_DEADLOCK FALSE
