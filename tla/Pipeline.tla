------------------------------ MODULE Pipeline ------------------------------
(***************************************************************************)
(* Method chains over a list or matrix, such as                            *)
(* xs.map_add(1).filter_gt(2).sum() (stream_pipeline/runtime).  A chain is *)
(* fused into one loop, over a numeric copy of the cells that is kept by   *)
(* the name of the variable, or run stage by stage.  The variable is also  *)
(* mutated, summed and assigned to as in ListCache.  Numbers are exact.    *)
(***************************************************************************)
EXTENDS ListCache

CONSTANT Chains     \* the chains a program may contain

VARIABLES
    stats,          \* PipelineStats of the variable, without the counters
    reassigned,     \* history: assigned to since stats were last renewed
    boxedSum        \* history: the sum is one that map_add left without a plan

streamVars == <<cells, cache, answer, stats, reassigned, boxedSum>>

-----------------------------------------------------------------------------
(* Chains *)

\* A stage has a name and arguments, cells or lists of cells.  Two have two names.
Kind(stage) ==
    CASE stage.name = "sum" -> "reduce_sum"
      [] stage.name = "collect" -> "to_list"
      [] OTHER -> stage.name
Terminals == {"reduce_sum", "scan_sum", "to_list"}
Filters == {"filter_gt", "filter_lt", "filter_nonzero"}
Maps == {"map_add", "map_mul"}
Changing == Maps \cup {"zip_add"}

StageNames == {"sum", "collect"} \cup Terminals \cup Filters \cup Changing
ListArgs == [tag : {"list"}, items : Seq([tag : Tags, val : Nat])]
\* A chain is called on the variable: one call or more.
ASSUME ChainsAssumption ==
    \A chain \in Chains :
        /\ chain \in Seq([name : StageNames, args : Seq([tag : Tags, val : Nat] \cup ListArgs)])
        /\ chain # <<>>

\* should_intercept_chain: a single map_add or reduce_sum is a method of the list.
Intercepted(chain) ==
    \/ Len(chain) > 1
    \/ \E i \in DOMAIN chain : chain[i].name \notin {"map_add", "reduce_sum"}

List(items) == [tag |-> "list", items |-> items]
Number(x) == x.tag \in {"int", "double"}
GoodArgs(stage) ==
    CASE Kind(stage) \in Maps \cup {"filter_gt", "filter_lt"} ->
            stage.args # <<>> /\ Number(stage.args[1])
      [] Kind(stage) = "zip_add" ->
            /\ Len(stage.args) = 1 /\ stage.args[1].tag = "list"
            /\ \A i \in DOMAIN stage.args[1].items : Number(stage.args[1].items[i])
      [] OTHER -> stage.args = <<>>
\* build_runtime_stages accepts the chain.
GoodStages(chain) ==
    \A i \in DOMAIN chain :
        GoodArgs(chain[i]) /\ (i < Len(chain) => Kind(chain[i]) \notin Terminals)

Terminal(chain) ==
    LET last == Kind(chain[Len(chain)]) IN IF last \in Terminals THEN last ELSE "to_list"
Transforms(chain) ==
    IF Kind(chain[Len(chain)]) \in Terminals THEN SubSeq(chain, 1, Len(chain) - 1) ELSE chain
Signature(chain) == [i \in DOMAIN chain |-> Kind(chain[i])]
Kinds(ts) == Signature(ts)
Scalar(stage) == stage.args[1].val
Zipped(stage) == Values(stage.args[1].items)

\* apply_runtime_stage: what becomes of a number at an index.
Applied(p, stage, index) ==
    CASE Kind(stage) = "map_add" -> [p EXCEPT !.val = @ + Scalar(stage)]
      [] Kind(stage) = "map_mul" -> [p EXCEPT !.val = @ * Scalar(stage)]
      [] Kind(stage) = "filter_gt" -> [p EXCEPT !.keep = @ /\ p.val > Scalar(stage)]
      [] Kind(stage) = "filter_lt" -> [p EXCEPT !.keep = @ /\ p.val < Scalar(stage)]
      [] Kind(stage) = "filter_nonzero" -> [p EXCEPT !.keep = @ /\ p.val # 0]
      [] Kind(stage) = "zip_add" ->
            IF index > Len(Zipped(stage)) THEN [p EXCEPT !.keep = FALSE]
            ELSE [p EXCEPT !.val = @ + Zipped(stage)[index]]

\* What is left of a sequence where a test is passed, in order.
Kept(s, passes) ==
    LET kept[i \in 0..Len(s)] ==
          IF i = 0 THEN <<>> ELSE IF passes[i] THEN Append(kept[i - 1], s[i]) ELSE kept[i - 1]
    IN  kept[Len(s)]

\* materialize_numeric_cache_for_plan.
Numbers(s) == Kept(Values(s), [i \in DOMAIN s |-> Number(s[i])])

-----------------------------------------------------------------------------
(* Stage by stage *)

ZipLength(s, stage) == IF Len(s) < Len(Zipped(stage)) THEN Len(s) ELSE Len(Zipped(stage))
ZippedList(s, stage) ==
    [i \in 1..ZipLength(s, stage) |-> [tag |-> "double", val |-> s[i].val + Zipped(stage)[i]]]
MappedList(s, stage) ==
    [i \in DOMAIN s |->
        IF Number(s[i])
        THEN [tag |-> "double", val |-> Applied([keep |-> TRUE, val |-> s[i].val], stage, 1).val]
        ELSE s[i]]
FilteredList(s, stage) ==
    Kept(s, [i \in DOMAIN s |->
               Number(s[i]) /\ Applied([keep |-> TRUE, val |-> s[i].val], stage, 1).keep])
StageOn(s, stage) ==
    CASE Kind(stage) = "zip_add" -> ZippedList(s, stage)
      [] Kind(stage) \in Maps -> MappedList(s, stage)
      [] Kind(stage) \in Filters -> FilteredList(s, stage)

\* Zipping a list that has anything but numbers up to the shorter length fails.
StageFails(s, stage) ==
    /\ Kind(stage) = "zip_add"
    /\ \E i \in DOMAIN s : i <= Len(Zipped(stage)) /\ ~Number(s[i])

Failure == [tag |-> "error"]
RunningSums(s) == [i \in DOMAIN s |-> [tag |-> "double", val |-> SumInt(SubSeq(s, 1, i))]]
Cell(isInt, v) == [tag |-> IF isInt THEN "int" ELSE "double", val |-> v]

Finished(s, terminal) ==
    CASE terminal = "reduce_sum" ->
            LET sum == ReduceSumOf(s, ColdCache).answer IN Cell(sum.int, sum.val)
      [] terminal = "scan_sum" -> List(RunningSums(Numbers(s)))
      [] OTHER -> List(s)

\* The list after each stage.
Staged(s, ts) ==
    LET after[i \in 0..Len(ts)] == IF i = 0 THEN s ELSE StageOn(after[i - 1], ts[i]) IN after

\* materialize_non_fused_list.
Unfused(s, chain) ==
    LET ts == Transforms(chain)
        after == Staged(s, ts)
    IN  IF \E i \in DOMAIN ts : StageFails(after[i - 1], ts[i])
        THEN Failure
        ELSE Finished(after[Len(ts)], Terminal(chain))

-----------------------------------------------------------------------------
(* In one loop *)

\* The sums that need no look at the stages for every cell.
AffineSum(src, ts) ==
    CASE Kinds(ts) = <<"map_add">> -> SumInt(src) + Scalar(ts[1]) * Len(src)
      [] Kinds(ts) = <<"map_mul">> -> SumInt(src) * Scalar(ts[1])
      [] Kinds(ts) = <<"map_add", "map_mul">> ->
            (SumInt(src) + Scalar(ts[1]) * Len(src)) * Scalar(ts[2])
Affine(ts) == Kinds(ts) \in {<<"map_add">>, <<"map_mul">>, <<"map_add", "map_mul">>}

\* The numbers that come out of the loop; it ends with the shortest zipped list.
LoopLength(src, ts) ==
    CHOOSE n \in 0..Len(src) :
        /\ \A i \in DOMAIN ts : Kind(ts[i]) = "zip_add" => n <= Len(Zipped(ts[i]))
        /\ \/ n = Len(src)
           \/ \E i \in DOMAIN ts : Kind(ts[i]) = "zip_add" /\ n = Len(Zipped(ts[i]))
\* What becomes of the number at an index with each stage.
Through(src, ts, index) ==
    LET at[k \in 0..Len(ts)] ==
          IF k = 0 THEN [keep |-> TRUE, val |-> src[index]] ELSE Applied(at[k - 1], ts[k], index)
    IN  at
Looped(src, ts) ==
    LET all == [i \in 1..LoopLength(src, ts) |-> Through(src, ts, i)[Len(ts)]]
    IN  Kept(Values(all), [i \in DOMAIN all |-> all[i].keep])

FusedOn(src, plan, chain) ==
    LET ts == Transforms(chain)
        terminal == Terminal(chain)
        out == Looped(src, ts)
        asInts == plan = "PackedInt" /\ \A i \in DOMAIN ts : Kind(ts[i]) \notin Changing
    IN  CASE terminal = "reduce_sum" ->
                Cell(asInts, IF Affine(ts) THEN AffineSum(src, ts) ELSE SumInt(out))
          [] terminal = "scan_sum" -> List(RunningSums(out))
          [] OTHER -> List([i \in DOMAIN out |-> Cell(asInts, out[i])])

Heterogeneous == {"GatherScatter", "ChunkedUnion"}
Copied == Heterogeneous \cup {"PromotedPackedDouble"}

\* can_fuse, with SPARK_PIPELINE_FUSION on as it is by default.
Fusable(plan, chain) ==
    /\ plan # "BoxedAny"
    /\ ~(plan \in Heterogeneous /\ Terminal(chain) # "reduce_sum")
    /\ ~(plan \in Copied /\ \E i \in DOMAIN chain : Kind(chain[i]) = "zip_add")

-----------------------------------------------------------------------------
NoStats == [signature |-> <<>>, version |-> None, numbers |-> <<>>]

\* Mutant: the entry is taken for the same list whatever its version.
BadKnown(signature) == stats.signature = signature
\* Whether the entry of the variable is about this chain and this version.
Known(signature) == stats.signature = signature /\ stats.version = cache.version

PlanFor(chain) ==
    ChooseListPlan(cells, IF Terminal(chain) = "reduce_sum" THEN "reduce_sum" ELSE "map_add")

Entry(chain) ==
    IF Known(Signature(chain)) THEN stats
    ELSE [signature |-> Signature(chain), version |-> cache.version, numbers |-> <<>>]

\* The copy of the cells that the loop runs over, kept or made.
Copy(chain) == IF Entry(chain).numbers # <<>> THEN Entry(chain).numbers ELSE Numbers(cells)

\* What the chain answers in the present state.
Answered(chain) ==
    LET plan == PlanFor(chain)
    IN  IF Fusable(plan, chain)
        THEN FusedOn(IF plan \in Copied THEN Copy(chain) ELSE Values(cells), plan, chain)
        ELSE Unfused(cells, chain)

\* try_execute_pipeline_call on the variable: the cells are left alone.  A
\* chain that build_runtime_stages refuses throws before anything is kept.
RunPipeline(chain) ==
    /\ Intercepted(chain) /\ GoodStages(chain)
    /\ LET plan == PlanFor(chain)
       IN  /\ cache' = [cache EXCEPT !.live = TRUE, !.plan = plan, !.operation = "pipeline",
                                     !.analyzed = cache.version]
           /\ stats' = IF Fusable(plan, chain) /\ plan \in Copied
                       THEN [Entry(chain) EXCEPT !.numbers = Copy(chain)] ELSE Entry(chain)
    /\ reassigned' = (reassigned /\ Known(Signature(chain)))
    /\ answer' = NoAnswer
    /\ UNCHANGED <<cells, boxedSum>>

\* An assignment of a list that nobody has looked at.
AssignList ==
    /\ cells' \in {<<x, y>> : x, y \in Cells} \* bound: lists of two cells
    /\ cache' = ColdCache /\ answer' = NoAnswer

\* The other operations of the variable, which know nothing of the entry.
Otherwise ==
    /\ UNCHANGED stats
    /\ \/ /\ ReduceSum \/ MapOnly(1) \/ ListAppend \/ ListInsert \/ ListPop \/ ListSetIndex \/ ListRemove
          /\ boxedSum' = (boxedSum /\ cache'.sumVersion # None)
          /\ UNCHANGED reassigned
       \/ /\ MapAssigned(1) \/ AssignList
          /\ boxedSum' = (~cache'.live /\ cache'.sumVersion # None)
          /\ reassigned' = (stats # NoStats)

StreamInit == Init /\ stats = NoStats /\ reassigned = FALSE /\ boxedSum = FALSE

StreamNext == (\E chain \in Chains : RunPipeline(chain)) \/ Otherwise

StreamSpec == StreamInit /\ [][StreamNext]_streamVars

-----------------------------------------------------------------------------
(* The same chain over a matrix: only maps, and no copy is kept *)

MatrixStages(chain) ==
    /\ GoodStages(chain)
    /\ \A i \in DOMAIN chain : Kind(chain[i]) \in Maps \cup {"reduce_sum", "to_list"}
    /\ \A i \in DOMAIN chain : Kind(chain[i]) \in Maps => Len(chain[i].args) = 1

\* execute_matrix_pipeline, on cells that are numbers.
FusedMatrix(s, chain) ==
    LET ts == Transforms(chain)
        ints == \A i \in DOMAIN s : s[i].tag = "int"
        mapped == [i \in DOMAIN s |-> Through(Values(s), ts, i)[Len(ts)].val]
    IN  IF Terminal(chain) = "reduce_sum"
        THEN Cell(ints /\ ts = <<>>, IF Affine(ts) THEN AffineSum(Values(s), ts) ELSE SumInt(mapped))
        ELSE List([i \in DOMAIN s |-> Cell(FALSE, mapped[i])])

-----------------------------------------------------------------------------
\* The same answer, but for whether a number is an int or a double.
SameCell(x, y) == IF Number(x) /\ Number(y) THEN x.val = y.val ELSE x = y
Agree(r, t) ==
    IF r.tag = "list" /\ t.tag = "list"
    THEN Len(r.items) = Len(t.items) /\ \A i \in DOMAIN r.items : SameCell(r.items[i], t.items[i])
    ELSE SameCell(r, t)

\* A zip after a filter pairs by the index in the variable when the chain is
\* fused, by the place in the filtered list when it is not.
ZipAfterFilter(chain) ==
    \E i, j \in DOMAIN chain : i < j /\ Kind(chain[i]) \in Filters /\ Kind(chain[j]) = "zip_add"

\* A sum that the stages lose nothing of: the loop is not rounded here.
ExactSum(chain) ==
    LET ts == Transforms(chain)
    IN  Terminal(chain) = "reduce_sum" => SumInt(Numbers(Staged(cells, ts)[Len(ts)])) <= Exact

\* "allow deterministic fallback": a chain answers what its stages answer one
\* by one on the present cells, whether it is fused or not and whatever was
\* copied, mutated or summed before; but for zips after filters, for sums that are
\* rounded, and for a variable that was assigned to since the copy was made.
PipelineCorrect ==
    \A chain \in Chains :
        Intercepted(chain) /\ GoodStages(chain) /\ ~ZipAfterFilter(chain) /\ ExactSum(chain) =>
            LET staged == Unfused(cells, chain)
            IN  /\ ~(reassigned /\ Known(Signature(chain))) => Agree(Answered(chain), staged)
                /\ MatrixStages(chain) /\ (\A i \in DOMAIN cells : Number(cells[i])) =>
                      Agree(FusedMatrix(cells, chain), staged)

\* Chains too leave the list with a plan that describes its present cells; but
\* to a sum that map_add left without a plan a chain gives one.
PlansFresh == ~boxedSum => LivePlanFresh

\* And with a sum that is the one of its present cells.
SumsKept == ~boxedSum => LiveSumCorrect
=============================================================================
