---------------------------- MODULE MatrixCache ----------------------------
(***************************************************************************)
(* Matrix variables, the layout cache each of them carries                 *)
(* (Value::MatrixCache) and the two process-wide caches of matmul: packed  *)
(* operands (02_pack_cache.cpp) and sums of products (04_matmul_entry.cpp).*)
(*                                                                         *)
(* Assigning a matrix copies the cache and shares the cells.  The caches   *)
(* of matmul know a matrix by the address of its cells, which the          *)
(* allocator may hand out again once no variable refers to them.  Cells    *)
(* are numbers, small naturals held as int or as double; the kernels and   *)
(* the choice of schedule are left out, but for whether B is packed        *)
(* transposed.                                                             *)
(***************************************************************************)
EXTENDS Integers, Sequences, FiniteSets

CONSTANTS
    Vars,       \* the variables of the program
    Addrs,      \* where the cells of a matrix may live
    Shapes,     \* the shapes of literals, <<rows, columns>>
    Cells,      \* the cells a program may store
    Modes,      \* the values of use_f32 that occur
    SumMax,     \* SPARK_MATMUL_SUM_CACHE_MAX
    Coarse,     \* the numbers from which the text of a key is rounded, 10^6
    Step,       \* to multiples of what
    MaxCells,   \* bound: the cells of a result
    MaxValue,   \* bound: a cell
    MaxOps      \* bound: the operations of a run

\* What the parameters are.
MatrixParameters ==
    /\ Shapes \subseteq (Nat \ {0}) \X (Nat \ {0})
    /\ Cells \subseteq [int : BOOLEAN, val : 0..MaxValue]
    /\ Modes \subseteq BOOLEAN
    /\ SumMax \in Nat \ {0} /\ Coarse \in Nat /\ Step \in Nat \ {0}
    /\ Coarse % Step = 0
    /\ MaxCells \in Nat /\ MaxValue \in Nat /\ MaxOps \in Nat

VARIABLES
    heap,     \* Value::MatrixValue by address
    var,      \* each variable: the address of its cells and its cache
    packs,    \* pack_cache_store()
    sums,     \* matmul_sum_cache_store()
    foreign,  \* history: cells were written through another variable
    births,   \* history: how often an address was handed out, up to 2
    ops       \* how many operations have run

vars == <<heap, var, packs, sums, foreign, births, ops>>

None == -1
NoMatrix == [shape |-> <<0, 0>>, data |-> <<>>]
Cold == [version |-> 0, analyzed |-> None, materialized |-> None,
         plan |-> "Unknown", live |-> FALSE, promoted |-> <<>>,
         sumVersion |-> None, sum |-> 0, sumIsInt |-> FALSE]

Plans == {"Unknown", "PackedInt", "PackedDouble", "PromotedPackedDouble"}
Matrix(v) == heap[var[v].at]
Values(data) == [i \in DOMAIN data |-> data[i].val]
Total(s) == LET sum[i \in 0..Len(s)] == IF i = 0 THEN 0 ELSE sum[i - 1] + s[i]
            IN  sum[Len(s)]
Doubles(s) == [i \in DOMAIN s |-> [int |-> FALSE, val |-> s[i]]]
AllInt(data) == \A i \in DOMAIN data : data[i].int

-----------------------------------------------------------------------------
(* The layout cache *)

ChooseMatrixPlan(data) ==
    IF AllInt(data) THEN "PackedInt"
    ELSE IF \A i \in DOMAIN data : ~data[i].int THEN "PackedDouble"
    ELSE "PromotedPackedDouble"

EnsureMatrixPlan(c, data) ==
    IF c.analyzed = c.version /\ c.plan # "Unknown" THEN c
    ELSE [c EXCEPT !.plan = ChooseMatrixPlan(data), !.live = TRUE,
                   !.analyzed = c.version, !.materialized = None, !.promoted = <<>>]

MaterializeIfNeeded(c, data) ==
    IF c.materialized = c.version THEN c
    ELSE [c EXCEPT !.materialized = c.version,
                   !.promoted = IF c.plan = "PromotedPackedDouble"
                                THEN @ \o Values(data) ELSE @]

\* The packed doubles of a matrix, when its cache holds them.
HasDense(c, data) ==
    /\ c.plan = "PackedDouble" /\ c.materialized = c.version
    /\ Len(c.promoted) = Len(data)
Numbers(c, data) == IF HasDense(c, data) THEN c.promoted ELSE Values(data)

ReduceSumOf(c, data) ==
    IF c.sumVersion = c.version
    THEN [cache |-> c, int |-> c.sumIsInt, val |-> c.sum]
    ELSE LET p == MaterializeIfNeeded(EnsureMatrixPlan(c, data), data)
             total == Total(CASE p.plan = "PackedInt" -> Values(data)
                              [] p.plan = "PackedDouble" -> Numbers(p, data)
                              [] OTHER -> p.promoted)
             isInt == p.plan = "PackedInt"
         IN  [cache |-> [p EXCEPT !.sumVersion = p.version, !.sum = total,
                                  !.sumIsInt = isInt],
              int |-> isInt, val |-> total]

BadInvalidateMatrixCache(c) == IF ~c.live THEN c ELSE [c EXCEPT !.live = FALSE]
InvalidateMatrixCache(c) ==
    IF ~c.live THEN c ELSE [Cold EXCEPT !.version = c.version + 1]

\* The cache of a result that is computed as packed doubles, or as ints.
ResultCache(s, isInt) ==
    [Cold EXCEPT !.plan = IF isInt THEN "PackedInt" ELSE "PackedDouble",
                 !.live = TRUE, !.analyzed = 0,
                 !.materialized = IF isInt THEN None ELSE 0,
                 !.promoted = IF isInt THEN <<>> ELSE s,
                 !.sumVersion = 0, !.sum = Total(s), !.sumIsInt = isInt]

-----------------------------------------------------------------------------
(* The caches of matmul *)

\* The first, the middle and the last number of a matrix.
BadProbe(s) == <<s[1], s[1], s[Len(s)]>>
Probe(s) == <<s[1], s[Len(s) \div 2 + 1], s[Len(s)]>>

PackKey(v, transpose, f32) ==
    <<var[v].at, Matrix(v).shape, var[v].cache.version, transpose, f32>>

\* What acquire_packed_matrix hands to a kernel, and the cache it leaves.
Acquire(store, v, transpose, f32) ==
    LET c == var[v].cache
        s == Numbers(c, Matrix(v).data)
        key == PackKey(v, transpose, f32)
    IN  IF ~transpose /\ ~f32 /\ HasDense(c, Matrix(v).data)
        THEN [store |-> store, packed |-> c.promoted]
        ELSE IF key \in DOMAIN store /\ store[key].probe = Probe(s)
        THEN [store |-> store, packed |-> store[key].packed]
        ELSE [store |-> [k \in DOMAIN store \cup {key} |->
                           IF k = key THEN [probe |-> Probe(s), packed |-> s]
                           ELSE store[k]],
              packed |-> s]

Rows(v) == Matrix(v).shape[1]
Cols(v) == Matrix(v).shape[2]
Fits(x, y) == Cols(x) = Rows(y)

Product(x, y, a, b) ==
    LET k == Cols(x)
        n == Cols(y)
        cell(i) == Total([j \in 1..k |-> a[((i - 1) \div n) * k + j]
                                         * b[(j - 1) * n + ((i - 1) % n) + 1]])
    IN  [i \in 1..(Rows(x) * n) |-> cell(i)]

\* run_matmul_f64_kernel and run_matmul_f32_kernel.
Kernel(x, y, f32, transpose) ==
    LET a == Acquire(packs, x, FALSE, f32)
        b == Acquire(a.store, y, transpose, f32)
    IN  [store |-> b.store, out |-> Product(x, y, a.packed, b.packed)]

\* A number in the text of a key: ostream prints six digits of a double.
Printed(n) == IF n < Coarse THEN n ELSE ((n + Step \div 2) \div Step) * Step

\* A key has no shapes.
BadSumKey(x, y, f32) ==
    LET part(v) == <<var[v].at, var[v].cache.version>>
    IN  <<f32, part(x), part(y)>>
SumKey(x, y, f32) ==
    LET probe(v) == Probe(Numbers(var[v].cache, Matrix(v).data))
        part(v) == <<var[v].at, var[v].cache.version,
                     [i \in 1..3 |-> Printed(probe(v)[i])]>>
    IN  <<f32, part(x), part(y)>>

\* The sums that stay when another one is stored.
BadKept == DOMAIN sums
Kept == IF Cardinality(DOMAIN sums) >= SumMax THEN {} ELSE DOMAIN sums

MatmulSumOf(x, y, f32, transpose) ==
    IF SumKey(x, y, f32) \in DOMAIN sums
    THEN [store |-> packs, sums |-> sums, val |-> sums[SumKey(x, y, f32)]]
    ELSE LET run == Kernel(x, y, f32, transpose)
             key == SumKey(x, y, f32)
         IN  [store |-> run.store, val |-> Total(run.out),
              sums |-> [k \in Kept \cup {key} |->
                          IF k = key THEN Total(run.out) ELSE sums[k]]]

-----------------------------------------------------------------------------
(* Operations *)

Filled(shape, x) == [shape |-> shape, data |-> [i \in 1..(shape[1] * shape[2]) |-> x]]
Fresh == {a \in Addrs : \A v \in Vars : var[v].at # a}

\* The variable gets another value; cells nobody refers to are freed.
Bind(v, at, cache, h) ==
    /\ var' = [var EXCEPT ![v] = [at |-> at, cache |-> cache]]
    /\ heap' = [a \in Addrs |-> IF \E u \in Vars : var'[u].at = a THEN h[a]
                                ELSE NoMatrix]

\* v = <a new matrix>
BindNew(v, matrix, cache) ==
    \E a \in Fresh :
        /\ Bind(v, a, cache, [heap EXCEPT ![a] = matrix])
        /\ births' = [births EXCEPT ![a] = IF @ = 2 THEN 2 ELSE @ + 1]
        /\ foreign' = [foreign EXCEPT ![v] = FALSE]

Literal(v) ==
    /\ \E shape \in Shapes, x \in Cells : BindNew(v, Filled(shape, x), Cold)
    /\ UNCHANGED <<packs, sums>>

\* v = u
Assign(v, u) ==
    /\ u # v
    /\ Bind(v, var[u].at, var[u].cache, heap)
    /\ foreign' = [foreign EXCEPT ![v] = foreign[u]]
    /\ UNCHANGED <<packs, sums, births>>

\* Cells of v are assigned: only the cache of v itself is invalidated.
Write(v, data) ==
    /\ heap' = [heap EXCEPT ![var[v].at].data = data]
    /\ var' = [var EXCEPT ![v].cache = InvalidateMatrixCache(@)]
    /\ foreign' = [u \in Vars |-> foreign[u] \/ (u # v /\ var[u].at = var[v].at)]
    /\ UNCHANGED <<packs, sums, births>>

SetCell(v) ==
    \E i \in DOMAIN Matrix(v).data, x \in Cells :
        Write(v, [Matrix(v).data EXCEPT ![i] = x])

SetRow(v) ==
    \E r \in 1..Rows(v), x \in Cells :
        Write(v, [i \in DOMAIN Matrix(v).data |->
                    IF (i - 1) \div Cols(v) = r - 1 THEN x ELSE Matrix(v).data[i]])

ReduceSum(v) ==
    /\ var' = [var EXCEPT ![v].cache = ReduceSumOf(@, Matrix(v).data).cache]
    /\ UNCHANGED <<heap, packs, sums, foreign, births>>

Integral(v) ==
    \/ HasDense(var[v].cache, Matrix(v).data)
    \/ var[v].cache.plan = "PackedInt" /\ var[v].cache.analyzed = var[v].cache.version
    \/ AllInt(Matrix(v).data)

\* z = x.matmul(y), or matmul_f32
Matmul(z, x, y) ==
    /\ Fits(x, y) /\ Rows(x) * Cols(y) <= MaxCells
    /\ \E f32 \in Modes, transpose \in BOOLEAN :
          LET run == Kernel(x, y, f32, transpose)
              isInt == ~f32 /\ Integral(x) /\ Integral(y)
          IN  /\ \A i \in DOMAIN run.out : run.out[i] <= MaxValue
              /\ BindNew(z, [shape |-> <<Rows(x), Cols(y)>>,
                             data |-> IF isInt
                                      THEN [i \in DOMAIN run.out |-> [int |-> TRUE, val |-> run.out[i]]]
                                      ELSE Doubles(run.out)],
                         ResultCache(run.out, isInt))
              /\ packs' = run.store
    /\ UNCHANGED sums

\* x.matmul_sum(y), or matmul_sum_f32
MatmulSum(x, y) ==
    /\ Fits(x, y)
    /\ \E f32 \in Modes, transpose \in BOOLEAN :
          LET run == MatmulSumOf(x, y, f32, transpose)
          IN  packs' = run.store /\ sums' = run.sums
    /\ UNCHANGED <<heap, var, foreign, births>>

\* z = x + 1
AddScalar(z, x) ==
    /\ LET c == var[x].cache
           data == Matrix(x).data
           out == [i \in DOMAIN data |-> Numbers(c, data)[i] + 1]
       IN  /\ \A i \in DOMAIN out : out[i] <= MaxValue
           /\ IF HasDense(c, data) \/ ~AllInt(data)
              THEN BindNew(z, [shape |-> Matrix(x).shape, data |-> Doubles(out)],
                           ResultCache(out, FALSE))
              ELSE BindNew(z, [shape |-> Matrix(x).shape,
                               data |-> [i \in DOMAIN data |-> [int |-> TRUE, val |-> out[i]]]],
                           Cold)
    /\ UNCHANGED <<packs, sums>>

-----------------------------------------------------------------------------
Init ==
    /\ \E at \in [Vars -> Addrs], shape \in [Vars -> Shapes], x \in [Vars -> Cells] :
          /\ \A v, u \in Vars : v # u => at[v] # at[u]
          /\ var = [v \in Vars |-> [at |-> at[v], cache |-> Cold]]
          /\ heap = [m \in Addrs |->
                IF \E v \in Vars : at[v] = m
                THEN LET v == CHOOSE v \in Vars : at[v] = m IN Filled(shape[v], x[v])
                ELSE NoMatrix]
          /\ births = [m \in Addrs |-> IF \E v \in Vars : at[v] = m THEN 1 ELSE 0]
    /\ packs = <<>>
    /\ sums = <<>>
    /\ foreign = [v \in Vars |-> FALSE]
    /\ ops = 0

Next ==
    /\ ops < MaxOps
    /\ ops' = ops + 1
    /\ \/ \E v \in Vars : Literal(v) \/ SetCell(v) \/ SetRow(v) \/ ReduceSum(v)
       \/ \E v, u \in Vars : Assign(v, u) \/ MatmulSum(v, u) \/ AddScalar(v, u)
       \/ \E v, x, y \in Vars : Matmul(v, x, y)

Spec == Init /\ [][Next]_vars

-----------------------------------------------------------------------------
TypeOK ==
    /\ \A a \in Addrs :
          /\ Len(heap[a].data) = heap[a].shape[1] * heap[a].shape[2]
          /\ \A i \in DOMAIN heap[a].data :
                heap[a].data[i] \in [int : BOOLEAN, val : 0..MaxValue]
    /\ \A v \in Vars :
          /\ var[v].at \in Addrs
          /\ var[v].cache.version \in 0..MaxOps
          /\ var[v].cache.plan \in Plans
    /\ \A k \in DOMAIN packs : Len(packs[k].packed) = k[2][1] * k[2][2]
    /\ Cardinality(DOMAIN sums) <= SumMax

\* "invalidate on mutation": the sum a variable answers, in value and in kind,
\* is the sum of its cells, whatever was analysed, packed, copied or computed
\* before, as long as nobody else wrote those cells.
OwnSumCorrect ==
    \A v \in Vars : ~foreign[v] =>
        LET answer == ReduceSumOf(var[v].cache, Matrix(v).data)
        IN  /\ answer.val = Total(Values(Matrix(v).data))
            /\ answer.int <=> AllInt(Matrix(v).data)

\* The numbers a kernel receives are the numbers of the matrix.
PackCorrect ==
    \A v \in Vars, transpose \in BOOLEAN, f32 \in Modes : ~foreign[v] =>
        Acquire(packs, v, transpose, f32).packed = Values(Matrix(v).data)

\* They are for every matrix of up to three cells: writes to a matrix that was
\* never analysed do not change its version, and another matrix may come to
\* live at its address, but the probe sees every cell.
ProbedPackCorrect ==
    (\A v \in Vars : Len(Matrix(v).data) <= 3) => PackCorrect

\* matmul_sum answers the sum of the product, of matrices that the probe sees
\* whole, that print exactly and that live where no other matrix lived before.
SumCacheCorrect ==
    \A x, y \in Vars, transpose \in BOOLEAN, f32 \in Modes :
        LET plain(v) == /\ ~foreign[v] /\ births[var[v].at] = 1
                        /\ Len(Matrix(v).data) <= 3
                        /\ \A i \in DOMAIN Matrix(v).data : Matrix(v).data[i].val < Coarse
        IN  Fits(x, y) /\ plain(x) /\ plain(y) =>
                MatmulSumOf(x, y, f32, transpose).val =
                    Total(Product(x, y, Values(Matrix(x).data), Values(Matrix(y).data)))
=============================================================================
