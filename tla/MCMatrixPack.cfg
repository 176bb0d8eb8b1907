SPECIFICATION Spec
CONSTANTS
    va = va
    vb = vb
    m1 = m1
    m2 = m2
    m3 = m3
    Vars = {va, vb}
    Addrs = {m1, m2, m3}
    Shapes <- Square
    Cells <- MCCells
    Modes = {FALSE}
    SumMax = 2
    Coarse = 4
    Step = 2
    MaxCells = 4
    MaxValue = 6
    MaxOps = 4
SYMMETRY Interchangeable
CHECK_DEADLOCK FALSE
INVARIANT PackCorrect
