---------------------------- MODULE StateCaches -----------------------------
(***************************************************************************)
(* The values of a program with the caches the interpreter keeps of them.  *)
(* A list, with or without chains of methods on it, keeps its cache to     *)
(* itself, the caches of matmul know matrices only and those of the        *)
(* environments know where a name is found: they share no state, so that a *)
(* run is about one of them, which is fixed at its start.                  *)
(***************************************************************************)
EXTENDS Pipeline

CONSTANTS
    ChainSize,      \* bound: the cells of a list that chains are called on, numbers twice
    ChainVersions   \* bound: its ListCache::version
CONSTANTS MatVars, Addrs, Shapes, MatCells, Modes, SumMax, Coarse, Step, MaxCells,
          MatMaxValue, MaxOps,
          Threads, Names, Visible, Assigned, Params, Nodes, Globals, Capture, Nowhere,
          VarMaxValue, MaxCalls

VARIABLES
    subject,                                      \* what the program computes with
    heap, var, packs, sums, foreign, births, ops, \* those of MatrixCache
    env, calls, frame, slot, pending, bound       \* those of Closures

matrixVars == <<heap, var, packs, sums, foreign, births, ops>>
scopeVars == <<env, calls, frame, slot, pending, bound>>
allVars == <<subject, streamVars, matrixVars, scopeVars>>

Mat == INSTANCE MatrixCache WITH
            Vars <- MatVars, Cells <- MatCells, MaxValue <- MatMaxValue

Scopes == INSTANCE Closures WITH None <- Nowhere, MaxValue <- VarMaxValue

ASSUME MatrixAssumption == Mat!MatrixParameters
ASSUME ClosureAssumption == Scopes!ClosureParameters

\* Whatever the program does not compute with may as well be as simple as it gets.
IdleList == cells = <<>>
IdleMatrices == \A a \in Addrs : heap[a] \in
    {Mat!NoMatrix, Mat!Filled(CHOOSE s \in Shapes : TRUE, CHOOSE c \in MatCells : TRUE)}

IdleScopes == \A n \in Visible : env[Globals].vals[n] = 0

\* Bounds of a list that chains are called on.
ChainBounds ==
    /\ Len(cells) + Len(Numbers(cells)) <= ChainSize /\ cache.version <= ChainVersions
    /\ \A i \in DOMAIN cells : cells[i] \in Cells

CachesInit ==
    /\ subject \in {"list", "chains", "matrix", "scopes"}
    /\ StreamInit /\ (subject \notin {"list", "chains"} => IdleList)
    /\ subject = "chains" => ChainBounds
    /\ Mat!Init /\ (subject # "matrix" => IdleMatrices)
    /\ Scopes!Init /\ (subject # "scopes" => IdleScopes)

CachesNext ==
    \/ /\ subject = "list" /\ Next
       /\ UNCHANGED <<subject, stats, reassigned, boxedSum, matrixVars, scopeVars>>
    \/ /\ subject = "chains" /\ StreamNext /\ ChainBounds'
       /\ UNCHANGED <<subject, matrixVars, scopeVars>>
    \/ subject = "matrix" /\ Mat!Next /\ UNCHANGED <<subject, streamVars, scopeVars>>
    \/ subject = "scopes" /\ Scopes!Next /\ UNCHANGED <<subject, streamVars, matrixVars>>

CachesSpec == CachesInit /\ [][CachesNext]_allVars

-----------------------------------------------------------------------------
\* A chain answers, fused or not, what its stages answer one by one.
ChainsCorrect == subject = "chains" => PipelineCorrect

\* The sum that reduce_sum finds in the cache of a matrix is that of its cells.
OwnSumCorrect == subject = "matrix" => Mat!OwnSumCorrect

\* A packed operand that matmul would use again holds the probed cells.
ProbedPackCorrect == subject = "matrix" => Mat!ProbedPackCorrect

\* matmul_sum answers from its cache what the product adds up to.
SumCacheCorrect == subject = "matrix" => Mat!SumCacheCorrect

\* Every cache of the environments finds a name where the walk up finds it.
LookupsFresh == subject = "scopes" => Scopes!LookupsFresh

\* What a call has bound itself nobody else writes.
OwnVariables == subject = "scopes" => Scopes!OwnVariables
=============================================================================
