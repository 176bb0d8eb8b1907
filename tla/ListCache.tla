----------------------------- MODULE ListCache -----------------------------
(***************************************************************************)
(* A list variable, its layout cache (Value::ListCache) and the operations *)
(* of the language on it: the mutations of expr_attribute.cpp and          *)
(* index_assign.cpp, reduce_sum and map_add with their plans               *)
(* (01_hetero_plan_common.cpp, 02_hetero_list_ops.cpp).                    *)
(*                                                                         *)
(* A cell is an int, a double or something else.  Numbers are small        *)
(* naturals; a double holds a number exactly up to Exact (2^53 in the      *)
(* code) and every second one from there to twice that.  The dense-only    *)
(* switches of the environment are off, as they are by default.            *)
(***************************************************************************)
EXTENDS Integers, Sequences, FiniteSets, SequencesExt

CONSTANTS
    Cells,       \* the cells a program may store
    MaxLen,      \* bound: the length of the list
    MaxValue,    \* bound: map_add makes no number larger than this
    MaxVersion,  \* bound: ListCache::version
    ChunkMin,    \* the length from which a plan may be ChunkedUnion, 8
    Exact        \* the largest integer below which every integer is a double

Tags == {"int", "double", "other"}

ASSUME ListAssumption ==
    /\ Cells \subseteq [tag : Tags, val : Nat]
    /\ MaxLen \in Nat /\ MaxValue \in Nat /\ MaxVersion \in Nat
    /\ ChunkMin \in Nat /\ Exact \in Nat

VARIABLES
    cells,   \* Value::list_value
    cache,   \* Value::list_cache; operation "" and version None as in the code
    answer   \* what the last operation returned, if it was reduce_sum

vars == <<cells, cache, answer>>

None == -1
NoAnswer == [int |-> FALSE, val |-> None]
Plans == {"Unknown", "PackedInt", "PackedDouble", "PromotedPackedDouble",
          "GatherScatter", "ChunkedUnion", "BoxedAny"}

ColdCache ==
    [version |-> 0, analyzed |-> None, materialized |-> None, plan |-> "Unknown",
     live |-> FALSE, operation |-> "", promoted |-> <<>>, gather |-> <<>>,
     sumVersion |-> None, sum |-> 0, sumIsInt |-> FALSE]

Numeric(cell) == cell.tag # "other"
\* The nearest double, ties to even.
Double(n) == IF n <= Exact \/ n % 2 = 0 THEN n
             ELSE IF n % 4 = 1 THEN n - 1 ELSE n + 1
SumInt(s) == LET sum[i \in 0..Len(s)] == IF i = 0 THEN 0 ELSE sum[i - 1] + s[i]
             IN  sum[Len(s)]
SumDouble(s) ==
    LET sum[i \in 0..Len(s)] == IF i = 0 THEN 0 ELSE Double(sum[i - 1] + Double(s[i]))
    IN  sum[Len(s)]
Values(s) == [i \in DOMAIN s |-> s[i].val]
Doubles(s) == [i \in DOMAIN s |-> Double(s[i].val)]
\* gather_indices and gather_values_f64: the numeric cells with their index.
Gather(s) ==
    LET got[i \in 0..Len(s)] ==
          IF i = 0 THEN <<>>
          ELSE IF Numeric(s[i]) THEN Append(got[i - 1], <<i, s[i]>>) ELSE got[i - 1]
    IN  got[Len(s)]
GatherValues(g) == [k \in DOMAIN g |-> Double(g[k][2].val)]
\* The numbers among the cells, in order.
NumbersOf(s) == LET g == Gather(s) IN [k \in DOMAIN g |-> g[k][2].val]

TypeOK ==
    /\ cells \in Seq([tag : Tags, val : 0..MaxValue]) /\ Len(cells) <= MaxLen
    /\ cache.version \in 0..MaxVersion
    /\ cache.analyzed \in {None} \cup 0..MaxVersion
    /\ cache.materialized \in {None} \cup 0..MaxVersion
    /\ cache.sumVersion \in {None} \cup 0..MaxVersion
    /\ cache.plan \in Plans
    /\ cache.operation \in {"", "reduce_sum", "map_add", "pipeline"}

-----------------------------------------------------------------------------
(* Plans *)

ChooseListPlan(s, operation) ==
    LET count(tag) == Cardinality({i \in DOMAIN s : s[i].tag = tag})
        ints == count("int")
        doubles == count("double")
        numeric == ints + doubles
    IN  IF count("other") = 0
        THEN IF doubles = 0 THEN "PackedInt"
             ELSE IF ints = 0 THEN "PackedDouble" ELSE "PromotedPackedDouble"
        ELSE IF operation \in {"reduce_sum", "map_add"} /\ numeric > 0
                  /\ numeric * 2 >= Len(s)
             THEN "GatherScatter"
        ELSE IF Len(s) >= ChunkMin /\ numeric > 0 THEN "ChunkedUnion" ELSE "BoxedAny"

EnsureListPlan(c, s, operation) ==
    IF c.analyzed = c.version /\ c.operation = operation THEN c
    ELSE [c EXCEPT !.plan = ChooseListPlan(s, operation), !.operation = operation,
                   !.live = TRUE, !.analyzed = c.version, !.materialized = None,
                   !.promoted = <<>>, !.gather = <<>>, !.sumVersion = None,
                   !.sum = 0, !.sumIsInt = FALSE]

MaterializeIfNeeded(c, s) ==
    IF c.materialized = c.version THEN c
    ELSE [c EXCEPT !.materialized = c.version,
                   !.promoted = IF c.plan = "PromotedPackedDouble"
                                THEN @ \o Doubles(s) ELSE @,
                   !.gather = IF c.plan \in {"GatherScatter", "ChunkedUnion"}
                              THEN @ \o Gather(s) ELSE @]

Planned(s, c, operation) ==
    MaterializeIfNeeded(EnsureListPlan(c, s, operation), s)

-----------------------------------------------------------------------------
(* reduce_sum *)

\* The sum a planned list yields.
PlanSum(s, c) ==
    CASE c.plan = "PackedInt" -> SumInt(Values(s))
      [] c.plan = "PackedDouble" /\ c.promoted # <<>> -> SumDouble(c.promoted)
      [] c.plan = "PromotedPackedDouble" -> SumDouble(c.promoted)
      [] c.plan \in {"GatherScatter", "ChunkedUnion"} -> SumDouble(GatherValues(c.gather))
      [] OTHER -> SumDouble(NumbersOf(s))

ReduceSumOf(s, c) ==
    IF c.sumVersion = c.version
    THEN [cache |-> c, answer |-> [int |-> c.sumIsInt, val |-> c.sum]]
    ELSE LET p == Planned(s, c, "reduce_sum")
             isInt == p.plan = "PackedInt"
             total == PlanSum(s, p)
         IN  [cache |-> [p EXCEPT !.sumVersion = p.version, !.sum = Double(total),
                                  !.sumIsInt = isInt],
              answer |-> [int |-> isInt, val |-> total]]

ReduceSum ==
    LET r == ReduceSumOf(cells, cache) IN
    /\ cache' = r.cache
    /\ answer' = r.answer
    /\ UNCHANGED cells

-----------------------------------------------------------------------------
(* map_add *)

BadMapCell(cell, delta) ==
    IF Numeric(cell) THEN [tag |-> "double", val |-> cell.val + 2 * delta] ELSE cell
MapCell(cell, delta) ==
    IF Numeric(cell) THEN [tag |-> "double", val |-> Double(Double(cell.val) + delta)]
    ELSE cell

\* The result of map_add on a planned list, and the cache it is born with.
Mapped(s, delta) == [i \in DOMAIN s |-> MapCell(s[i], delta)]
MappedCache(s, c, delta) ==
    LET out == Mapped(s, delta)
        doubles == NumbersOf(out)
        summed == [ColdCache EXCEPT !.sumVersion = 0, !.sum = SumDouble(doubles)]
        planned == [summed EXCEPT !.live = TRUE, !.operation = "map_add",
                                  !.analyzed = 0, !.materialized = 0]
    IN  CASE c.plan \in {"PackedInt", "PackedDouble", "PromotedPackedDouble"} ->
               [planned EXCEPT !.plan = "PackedDouble", !.promoted = doubles]
          [] c.plan \in {"GatherScatter", "ChunkedUnion"} ->
               [planned EXCEPT !.plan = c.plan, !.gather = Gather(out)]
          [] OTHER -> IF doubles # <<>> THEN summed ELSE ColdCache

\* xs.map_add(delta): the receiver keeps the plan, the result is a new list.
MapOnly(delta) ==
    /\ \A i \in DOMAIN cells : cells[i].val + delta <= MaxValue
    /\ cache' = Planned(cells, cache, "map_add")
    /\ answer' = NoAnswer
    /\ UNCHANGED cells

\* xs = xs.map_add(delta)
MapAssigned(delta) ==
    /\ \A i \in DOMAIN cells : cells[i].val + delta <= MaxValue
    /\ cells' = Mapped(cells, delta)
    /\ cache' = MappedCache(cells, Planned(cells, cache, "map_add"), delta)
    /\ answer' = NoAnswer

MapAdd(delta) == MapOnly(delta) \/ MapAssigned(delta)

-----------------------------------------------------------------------------
(* Mutations *)

\* Whether there is something to invalidate.
BadHasLivePlan(c) == c.live /\ c.operation = "reduce_sum"
HasLivePlan(c) == c.live

BadInvalidateListCache(c) ==
    IF ~HasLivePlan(c) THEN c ELSE [c EXCEPT !.version = @ + 1]
InvalidateListCache(c) ==
    IF ~HasLivePlan(c) THEN c
    ELSE [ColdCache EXCEPT !.version = c.version + 1]

Mutate(s) ==
    /\ Len(s) <= MaxLen /\ cache.version < MaxVersion
    /\ cells' = s
    /\ cache' = InvalidateListCache(cache)
    /\ answer' = NoAnswer

ListAppend == \E x \in Cells : Mutate(Append(cells, x))
ListInsert == \E x \in Cells, i \in 1..(Len(cells) + 1) : Mutate(InsertAt(cells, i, x))
ListPop == \E i \in DOMAIN cells : Mutate(RemoveAt(cells, i))
ListSetIndex == \E x \in Cells, i \in DOMAIN cells : Mutate([cells EXCEPT ![i] = x])

\* Value::equals compares numbers of different kinds by value.
Equals(x, y) == IF Numeric(x) /\ Numeric(y) THEN x.val = y.val ELSE x = y

\* remove(x): the first cell equal to x.
ListRemove ==
    \E i \in DOMAIN cells :
        /\ \A j \in 1..(i - 1) : ~Equals(cells[j], cells[i])
        /\ Mutate(RemoveAt(cells, i))

-----------------------------------------------------------------------------
Init ==
    /\ cells \in UNION {[1..n -> Cells] : n \in 0..MaxLen}
    /\ cache = ColdCache
    /\ answer = NoAnswer

Next ==
    \/ ReduceSum
    \/ MapAdd(1)
    \/ ListAppend \/ ListInsert \/ ListPop \/ ListSetIndex \/ ListRemove

Spec == Init /\ [][Next]_vars

-----------------------------------------------------------------------------
\* What reduce_sum answers for the same cells in a list nobody has looked at.
ColdAnswer(s) == ReduceSumOf(s, ColdCache).answer

\* "mutation operations invalidate cached plans": after whatever sequence of
\* mutations, maps and sums, reduce_sum answers what it would answer on a fresh
\* list with the same cells.  (Only the sum of an empty list may differ, in its
\* type: 0 or 0.0.)
ReduceSumCorrect ==
    answer # NoAnswer =>
        LET cold == ColdAnswer(cells)
        IN  answer.val = cold.val /\ (cells # <<>> => answer.int = cold.int)

\* It does for every list whose cache has a live plan, with ints, doubles and
\* other cells, whichever plan the sum, the copies and the list came through;
\* but a sum of ints is kept as a double, so it must be one.
LiveSumCorrect ==
    cache.live /\ (cells # <<>> /\ ColdAnswer(cells).int => ColdAnswer(cells).val <= Exact)
        => ReduceSumCorrect

\* A list with a live plan describes its present cells: the plan fits their
\* tags and the packed copies are the cells' values.
LivePlanFresh ==
    cache.live =>
        /\ cache.analyzed = cache.version
        /\ cache.plan \in {"PackedInt", "PackedDouble", "PromotedPackedDouble"} =>
              \A i \in DOMAIN cells : Numeric(cells[i])
        /\ cache.materialized = cache.version /\ cache.promoted # <<>> =>
              cache.promoted = Doubles(cells)
        /\ cache.materialized = cache.version /\ cache.gather # <<>> =>
              cache.gather = Gather(cells)
        /\ cache.sumVersion = cache.version =>
              cache.sum = Double(ColdAnswer(cells).val)
=============================================================================
