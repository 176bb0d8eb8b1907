------------------------------ MODULE ForPlans ------------------------------
(***************************************************************************)
(* The paths a for loop over a range may take: the dispatch on the         *)
(* remainder of the loop variable, and the loop in which every statement   *)
(* is a numeric operation that is repeated on its own, one after the       *)
(* other.  A path gives [done, st] as those of the while loop do.          *)
(***************************************************************************)
EXTENDS WhilePlans

RECURSIVE Reads(_, _), OnlyReads(_), Collected(_, _, _), LoopVarTurns(_, _, _, _, _), AssignTurns(_, _, _, _)

\* The range of the loop in whole numbers, <<>> when parse_range_spec throws.
RangeFrom(ws) ==
    LET whole(k) == Truncated(ws[k].v) \div 2
    IN  IF (\E k \in 1..3 : ~Numeric(ws[k])) \/ whole(3) = 0 THEN <<>>
        ELSE <<[from |-> whole(1), step |-> whole(3), n |-> RangeCount(whole(1), whole(2), whole(3))]>>
RangeOf(s, st) == RangeFrom(ValuesOf(s.es, st.env, <<>>))

\* The loop variable holds the last value of the range.
AtLast(s, r, st) == [st EXCEPT !.env[s.x] = Value("Int", 2 * (r.from + r.step * (r.n - 1)))]

\* The target is read before the loop variable is bound, and written after.
ForDispatched(p, s, r, st) ==
    LET total == st.env[p.target].v + DispatchDelta(p, 2 * r.from, 2 * r.step, r.n)
        last == 2 * (r.from + r.step * (r.n - 1))
        counted == [AtLast(s, r, st) EXCEPT !.env[p.target] = PutInt(@, total, FALSE)[1]]
    IN  [counted EXCEPT !.env[p.selector] = Value("Int", Remainder(last, p.base))]
ForDispatch(plans, s, r, st) ==
    IF plans = <<>> THEN Declined(st)
    ELSE IF ~IntLike(st.env[plans[1].target]) THEN Declined(st)
    ELSE IF r.n = 0 THEN Done(st)
    ELSE Done(ForDispatched(plans[1], s, r, st))

RunForDispatch(s, r, st) ==
    IF Len(s.bodies[1]) # 2 THEN Declined(st)
    ELSE ForDispatch(DispatchPlan(s.bodies[1][1], s.bodies[1][2], s.x), s, r, st)

-----------------------------------------------------------------------------
(* Every statement on its own. *)

\* expr_depends_on_variable_for and expr_is_side_effect_free_for
Reads(e, x) == IsVar(e, x) \/ \E k \in DOMAIN e.args : Reads(e.args[k], x)
OnlyReads(e) == e.op \notin {"call", "narrow", "index", "len"} /\ \A k \in DOMAIN e.args : OnlyReads(e.args[k])

\* x = x op r, x = l op x, or an operation on others.
ForAssign(s) ==
    LET e == s.es[1]
        mode == IF IsVar(e.args[1], s.x) THEN "left" ELSE IF IsVar(e.args[2], s.x) THEN "right" ELSE "invariant"
        other == IF mode = "left" THEN e.args[2] ELSE e.args[1]
    IN  IF ~IsOperation(s) THEN <<>>
        ELSE <<[target |-> s.x, op |-> e.op, l |-> e.args[1], r |-> e.args[2], mode |-> mode, other |-> other]>>

Plans(outcome, plans) == [outcome |-> outcome, plans |-> plans]

\* The assignments of the branches that are taken now, "none" when a statement
\* is not one, "throws" when a condition does.  A condition is evaluated here,
\* before the first turn, and never again.
TakenBranch(s, x, st, test) ==
    LET k == IF Truthy(test) THEN 1 ELSE 2
    IN  IF test.kind = "Error" THEN Plans("throws", <<>>)
        ELSE IF k \in DOMAIN s.bodies THEN Collected(s.bodies[k], x, st) ELSE Plans("all", <<>>)
PlansOf(s, x, st) ==
    CASE s.op = "assign" /\ ForAssign(s) # <<>> -> Plans("all", ForAssign(s))
      [] s.op = "if" /\ Len(s.es) = 1 /\ OnlyReads(s.es[1]) /\ ~Reads(s.es[1], x) ->
            TakenBranch(s, x, st, Evaluate(s.es[1], st.env, <<>>))
      [] OTHER -> Plans("none", <<>>)
WithRest(here, rest) == IF rest.outcome # "all" THEN rest ELSE Plans("all", here.plans \o rest.plans)
ThenRest(here, body, x, st) == IF here.outcome # "all" THEN here ELSE WithRest(here, Collected(Tail(body), x, st))
Collected(body, x, st) ==
    IF body = <<>> THEN Plans("all", <<>>) ELSE ThenRest(PlansOf(Head(body), x, st), body, x, st)

\* Different targets that hold numbers, and operands that hold still.
Aggregates(plans, x, st) ==
    LET targets == {plans[k].target : k \in DOMAIN plans}
        still(e) == e.op = "num" \/ (e.v # x /\ e.v \notin targets)
        ready(e) == e.op = "num" \/ Numeric(st.env[e.v])
    IN  /\ x \notin targets /\ Cardinality(targets) = Len(plans)
        /\ \A k \in DOMAIN plans :
              LET a == plans[k]
              IN  /\ Numeric(st.env[a.target])
                  /\ IF a.mode = "invariant" THEN still(a.l) /\ still(a.r) /\ ready(a.l) /\ ready(a.r)
                     ELSE IsVar(a.other, x) \/ (still(a.other) /\ ready(a.other))

\* eval_numeric_binary_value_inplace into the left operand: only a number with a
\* kind of its own, which is the kind of the result, is written in place.
InPlace(op, w, r, boxed) ==
    (w.kind = "Narrow" \/ (boxed /\ w.kind # "Nil")) /\ ResultKind(op, w, r) = w.kind

\* x = x op i and x = l op x, turn by turn: [done, w].
LoopVarTurns(a, w, r, k, boxed) ==
    LET i == IF a.other.op = "var" /\ a.other.v = r.x THEN Value("Int", 2 * (r.from + k * r.step))
             ELSE r.operand
        next == IF a.mode = "left" THEN EvalNumeric(a.op, w, i) ELSE EvalNumeric(a.op, i, w)
    IN  IF k = r.n \/ w = Failure THEN [done |-> TRUE, w |-> w]
        ELSE IF a.mode = "left" /\ ~InPlace(a.op, w, i, boxed) THEN [done |-> FALSE, w |-> w]
        ELSE LoopVarTurns(a, next, r, k + 1, boxed)

\* One assignment, all of its turns.
AssignResult(a, r, st, boxed) ==
    LET w == st.env[a.target]
    IN  CASE a.mode = "invariant" -> [done |-> TRUE, w |-> EvalNumeric(a.op, r.env[a.target].l, r.env[a.target].r)]
          [] a.mode # "invariant" /\ ~IsVar(a.other, r.x) /\ (a.mode = "left" \/ a.op \in {"add", "mul"}) ->
                [done |-> TRUE, w |-> Repeat(a.op, w, r.env[a.target].other, r.n)]
          [] OTHER -> LoopVarTurns(a, w, [x |-> r.x, from |-> r.from, step |-> r.step, n |-> r.n,
                                          operand |-> r.env[a.target].other], 0, boxed)

AfterAssign(plans, r, st, boxed, result) ==
    LET after == Bind(st, Head(plans).target, result.w)
    IN  IF result.w = Failure THEN Done(Fail(st))
        ELSE IF ~result.done THEN Declined(after)
        ELSE AssignTurns(Tail(plans), r, after, boxed)
AssignTurns(plans, r, st, boxed) ==
    IF plans = <<>> THEN Done(st)
    ELSE AfterAssign(plans, r, st, boxed, AssignResult(Head(plans), r, st, boxed))

\* The operands are read before the loop variable is bound; boxed tells whether
\* the ints and doubles of the targets are i64 and f64.
RangeOperands(plans, x, r, st) ==
    [x |-> x, from |-> r.from, step |-> r.step, n |-> r.n,
     env |-> [y \in {plans[k].target : k \in DOMAIN plans} |->
                LET a == plans[CHOOSE k \in DOMAIN plans : plans[k].target = y]
                IN  [l |-> Get(a.l, st), r |-> Get(a.r, st), other |-> Get(a.other, st)]]]
ForAggregate(s, r, st, boxed, collected) ==
    IF collected.outcome = "throws" THEN Done(Fail(st))
    ELSE IF collected.outcome = "none" \/ collected.plans = <<>> THEN Declined(st)
    ELSE IF r.n = 0 THEN Done(st)
    ELSE IF ~Aggregates(collected.plans, s.x, st) THEN Declined(st)
    ELSE AssignTurns(collected.plans, RangeOperands(collected.plans, s.x, r, st), AtLast(s, r, st), boxed)
RunForAggregate(s, r, st, boxed) == ForAggregate(s, r, st, boxed, Collected(s.bodies[1], s.x, st))
=============================================================================
