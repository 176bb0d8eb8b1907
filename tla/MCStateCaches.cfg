SPECIFICATION CachesSpec
CONSTANTS
    Cells <- ListCells
    MaxLen = 4
    MaxValue = 5
    MaxVersion = 2
    ChunkMin = 4
    Exact = 8
    Chains <- MCChains
    ChainSize = 4
    ChainVersions = 1
    va = va
    vb = vb
    m1 = m1
    m2 = m2
    m3 = m3
    MatVars = {va, vb}
    Addrs = {m1, m2, m3}
    Shapes <- Vectors
    MatCells <- NumberCells
    Modes = {FALSE, TRUE}
    SumMax = 2
    Coarse = 4
    Step = 2
    MaxCells = 3
    MatMaxValue = 6
    MaxOps = 3
    xv = xv
    pv = pv
    qv = qv
    Threads = {va, vb}
    Names = {xv, pv, qv}
    Visible = {xv, pv}
    Assigned = {xv}
    Params = {pv}
    Nodes <- Statements
    Globals = Globals
    Capture = Capture
    Nowhere = Nowhere
    VarMaxValue = 1
    MaxCalls = 3
SYMMETRY Interchangeable
CHECK_DEADLOCK FALSE
INVARIANTS PlansFresh SumsKept ChainsCorrect OwnSumCorrect ProbedPackCorrect SumCacheCorrect LookupsFresh OwnVariables
