SPECIFICATION ExecutionSpec
CONSTANTS
    Names = {1, 2, 3, 4, 5, 6, 7, 8, 9}
    MaxTurns = 12
    NarrowBits = 5
    ProbeLimit = 3
    FirstTemp = 10
    Programs <- MCPrograms
    Statements <- MCStatements
    Environments <- MCEnvironments
    p1 = p1
    p2 = p2
    Procs = {p1, p2}
    Jobs <- MCJobs
    MaxVersion = 2
    CheckedPrograms <- MCCheckedPrograms
    MaxItems = 2
    MostTurns = 1
CHECK_DEADLOCK FALSE
INVARIANTS
    TypesHold
    RegistersTyped
    NothingUndefined
    PrintsWhatInterpreterPrints
    SameAsInterpreter
    OwnBinary
    OwnTuning
PROPERTIES
    FallsBack
    Ends
