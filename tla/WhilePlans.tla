------------------------------ MODULE WhilePlans ------------------------------
(***************************************************************************)
(* The paths a while loop may take instead of the walk over its body.  A   *)
(* path gives [done, st]: when it is not done the loop goes on with the    *)
(* next path, from the state this one has left behind.                     *)
(***************************************************************************)
EXTENDS PlanShapes

RECURSIVE SingleTurns(_, _, _, _), PreparedSlots(_, _), FusedBody(_, _, _), FusedTurns(_, _, _, _),
          BlockBody(_, _), BlockTurns(_, _, _), IntEval(_, _), FixedTurns(_, _, _, _),
          TailTurns(_, _, _, _, _), LoopTurns(_, _, _, _)

Done(st) == [done |-> TRUE, st |-> st]
Declined(st) == [done |-> FALSE, st |-> st]

\* An operand, which is a variable or a number.
Get(e, st) ==
    IF e.op = "num" THEN Value(e.kind, e.v) ELSE IF st.env[e.v] = Nil THEN Failure ELSE st.env[e.v]

\* <<w>> when an int can be put into the variable that held old.
PutInt(old, v, forced) ==
    CASE forced \/ old.kind = "Narrow" -> <<Saturated(v)>>
      [] ~forced /\ old.kind = "Int" -> <<Value("Int", v)>>
      [] OTHER -> <<>>

\* increment_index_checked
Counted(st, x, step) ==
    IF IntLike(st.env[x]) THEN [st EXCEPT !.env[x] = PutInt(@, @.v + step, FALSE)[1]] ELSE Fail(st)

PlanLimit(e) == IF e.op = "var" \/ (e.op = "num" /\ e.v % 2 = 0) THEN <<e>> ELSE <<>>
\* The limit of a double is truncated.
ResolvedLimit(limit, st) == IF Numeric(Get(limit, st)) THEN <<Truncated(Get(limit, st).v)>> ELSE <<>>

-----------------------------------------------------------------------------
(* A step and one operation. *)

SinglePlan(s) ==
    LET c == s.es[1]
        body == s.bodies[1]
        x == c.args[1].v
        increments == {k \in 1..2 : StepOf(body[k], x) # <<>>}
        k == CHOOSE k \in increments : TRUE
        a == NumericAssign(body[3 - k], x)
    IN  IF Len(body) # 2 \/ c.op # "lt" THEN <<>>
        ELSE IF c.args[1].op # "var" \/ PlanLimit(c.args[2]) = <<>> THEN <<>>
        ELSE IF Cardinality(increments) # 1 THEN <<>>
        ELSE IF a = <<>> \/ StepOf(body[k], x)[1] <= 0 THEN <<>>
        ELSE IF a[1].target = x \/ IsVar(c.args[2], x) \/ IsVar(c.args[2], a[1].target) THEN <<>>
        ELSE <<[index |-> x, limit |-> c.args[2], step |-> StepOf(body[k], x)[1], a |-> a[1], last |-> k = 2]>>

SingleTurns(p, limit, st, fuel) ==
    LET before == IF p.last THEN st ELSE Counted(st, p.index, p.step)
        a == p.a
        w == IF a.recurrence THEN EvalScalars(a.op, before.env[a.target], Get(a.r, before))
             ELSE EvalNumeric(a.op, Get(a.l, before), Get(a.r, before))
        after == Bind(before, a.target, w)
    IN  IF ~Going(st) \/ st.env[p.index].v >= limit THEN st
        ELSE IF fuel = 0 THEN Endless(st)
        ELSE SingleTurns(p, limit, IF p.last /\ Going(after) THEN Counted(after, p.index, p.step) ELSE after,
                         fuel - 1)

\* An operation whose operands stay is done at once, and the index jumps to its end.
RunSingle(p, st) ==
    LET a == p.a
        limit == ResolvedLimit(p.limit, st)
        operands == IF a.recurrence THEN {Get(a.r, st)} ELSE {Get(a.l, st), Get(a.r, st)}
        index == st.env[p.index]
        n == IF index.v >= limit[1] THEN 0 ELSE CeilDiv(limit[1] - index.v, p.step)
        value == IF a.recurrence THEN Repeat(a.op, st.env[a.target], Get(a.r, st), n)
                 ELSE EvalNumeric(a.op, Get(a.l, st), Get(a.r, st))
        ended(w) == IF w = Failure THEN Fail(st)
                    ELSE [st EXCEPT !.env[a.target] = w, !.env[p.index].v = @ + n * p.step]
    IN  IF ~(/\ index.kind = "Int" /\ Numeric(st.env[a.target])
             /\ limit # <<>> /\ \A o \in operands : Numeric(o)) THEN Declined(st)
        ELSE IF ~p.last \/ IsVar(a.r, p.index) \/ IsVar(a.r, a.target)
             THEN Done(SingleTurns(p, limit[1], st, MaxTurns))
        ELSE IF n = 0 THEN Done(st)
        ELSE Done(ended(value))

-----------------------------------------------------------------------------
(* A block of operations, expressions of ints and guards. *)

BlockStep(s, index) ==
    LET step == IF s.op = "assign" THEN StepOf(s, index) ELSE <<>>
        operation == IF s.op = "assign" THEN NumericAssign(s, index) ELSE <<>>
        expression == IF s.op = "assign" THEN IntExprAssign(s, index) ELSE <<>>
        made(kind, plan) == <<[kind |-> kind, plan |-> plan, source |-> s]>>
    IN  IF step # <<>> THEN made("step", [target |-> index, by |-> step[1]])
        ELSE IF operation # <<>> THEN made("operation", operation[1])
        ELSE IF expression # <<>> THEN made("expression", expression[1])
        ELSE IF GuardIfZero(s) # <<>> THEN made("guard", GuardIfZero(s)[1])
        ELSE <<>>

BlockPlan(s) ==
    LET c == s.es[1]
        body == s.bodies[1]
        x == c.args[1].v
        steps == MapAll([k \in DOMAIN body |-> BlockStep(body[k], x)])
        of(kind) == {k \in DOMAIN body : steps[1][k].kind = kind}
        others == DOMAIN body \ of("step")
    IN  IF Len(body) < 3 \/ c.op # "lt" THEN <<>>
        ELSE IF c.args[1].op # "var" \/ PlanLimit(c.args[2]) = <<>> \/ steps = <<>> THEN <<>>
        ELSE IF Cardinality(of("step")) # 1 \/ of("operation") \cup of("expression") = {} THEN <<>>
        ELSE IF \E k \in of("step") : steps[1][k].plan.by <= 0 THEN <<>>
        ELSE IF IsVar(c.args[2], x) \/ \E k \in others : \/ steps[1][k].plan.target = x
                                                       \/ IsVar(c.args[2], steps[1][k].plan.target) THEN <<>>
        ELSE <<[index |-> x, limit |-> c.args[2], steps |-> steps[1]]>>

Kind(steps, kind) == SelectSeq(steps, LAMBDA step : step.kind = kind)

\* Every operation has a number to work on, now or from an operation of the block.
OperandsReady(p, st) ==
    LET operations == Kind(p.steps, "operation")
        written == {p.index} \cup {operations[k].plan.target : k \in DOMAIN operations}
        ready(e) == (e.op = "var" /\ e.v \in written) \/ Numeric(Get(e, st))
    IN  \A k \in DOMAIN operations :
            LET a == operations[k].plan
            IN  Numeric(st.env[a.target]) /\ ready(a.l) /\ ready(a.r)

\* A target that is not defined is defined, and must then hold an int.
PreparedSlots(steps, st) ==
    LET step == Head(steps)
        x == step.plan.target
        zero == IF step.plan.forced THEN Saturated(0) ELSE Value("Int", 0)
        defined == IF st.env[x] = Nil THEN [st EXCEPT !.env[x] = zero] ELSE st
    IN  IF steps = <<>> THEN Done(st)
        ELSE IF ~IntLike(defined.env[x]) THEN Declined(defined)
        ELSE IF step.kind = "expression" /\ ~Integral(step.plan.e) THEN Declined(defined)
        ELSE PreparedSlots(Tail(steps), defined)

\* The operations all work on one narrow int, with operands that stay as they are.
Fuses(p, st) ==
    LET operations == Kind(p.steps, "operation")
        target == operations[1].plan.target
    IN  /\ operations # <<>>
        /\ st.env[target].kind = "Narrow"
        /\ \A k \in DOMAIN operations :
              LET a == operations[k].plan
              IN  /\ a.target = target /\ a.recurrence /\ a.op # "div"
                  /\ ~IsVar(a.r, target) /\ ~IsVar(a.r, p.index)
                  /\ Get(a.r, st).kind = "Narrow"

\* One turn of the fused loop, with the value of the target in acc.  A step
\* that is not an operation ends it where it is.
FusedBody(steps, st, acc) ==
    LET step == Head(steps)
        w == EvalNumeric(step.plan.op, acc, Get(step.plan.r, st))
    IN  CASE steps = <<>> -> [done |-> TRUE, st |-> st, acc |-> acc]
          [] steps # <<>> /\ step.kind = "step" ->
                FusedBody(Tail(steps), Counted(st, step.plan.target, step.plan.by), acc)
          [] steps # <<>> /\ step.kind = "operation" ->
                IF w = Failure THEN [done |-> TRUE, st |-> Fail(st), acc |-> acc]
                ELSE FusedBody(Tail(steps), st, w)
          [] OTHER -> [done |-> FALSE, st |-> st, acc |-> acc]

FusedTurns(p, st, acc, fuel) ==
    LET turn == FusedBody(p.steps, st, acc)
        target == Kind(p.steps, "operation")[1].plan.target
    IN  IF st.env[p.index].v >= ResolvedLimit(p.limit, st)[1] THEN Done([st EXCEPT !.env[target] = acc])
        ELSE IF fuel = 0 THEN Done(Endless(st))
        ELSE IF ~turn.done THEN Declined(turn.st)
        ELSE IF ~Going(turn.st) THEN Done(turn.st)
        ELSE FusedTurns(p, turn.st, turn.acc, fuel - 1)

Quotient(a, b) == LET m(x) == IF x < 0 THEN -x ELSE x
                  IN  IF (a < 0) = (b < 0) THEN 2 * (m(a) \div m(b)) ELSE -2 * (m(a) \div m(b))

\* The compiled expression on ints of any width: an Int, Failure when it
\* throws, Nil when a variable holds no int.  A constructor inside does nothing.
IntEval(e, env) ==
    LET arg(k) == IntEval(e.args[k], env)
        l == arg(1)
        r == arg(2)
    IN  CASE e.op = "num" -> Value("Int", e.v)
          [] e.op = "var" -> IF IntLike(env[e.v]) THEN Value("Int", env[e.v].v) ELSE Nil
          [] e.op = "narrow" -> l
          [] e.op = "neg" -> IF l.kind = "Int" THEN Value("Int", -l.v) ELSE l
          [] OTHER ->
                IF l.kind # "Int" THEN l
                ELSE IF r.kind # "Int" THEN r
                ELSE IF e.op \in {"div", "mod"} /\ r.v = 0 THEN Failure
                ELSE Value("Int", IF e.op = "div" THEN Quotient(l.v, r.v) ELSE Compute(e.op, l.v, r.v))

RunExpression(step, st) ==
    LET p == step.plan
        w == IntEval(p.e, st.env)
        put == PutInt(st.env[p.target], w.v, p.forced)
    IN  IF w = Failure THEN Fail(st)
        ELSE IF w = Nil \/ put = <<>> THEN Execute(<<step.source>>, st, <<>>)
        ELSE [st EXCEPT !.env[p.target] = put[1]]

RunGuard(step, st) ==
    LET p == step.plan
        w == st.env[p.target]
    IN  IF ~IntLike(w) THEN Execute(<<step.source>>, st, <<>>)
        ELSE IF w.v # 0 THEN st
        ELSE [st EXCEPT !.env[p.target] = PutInt(w, p.replacement, p.forced)[1]]

BlockBody(steps, st) ==
    LET step == Head(steps)
        a == step.plan
    IN  IF steps = <<>> \/ ~Going(st) THEN st
        ELSE BlockBody(Tail(steps),
            CASE step.kind = "step" -> Counted(st, a.target, a.by)
              [] step.kind = "operation" -> Bind(st, a.target, EvalNumeric(a.op, Get(a.l, st), Get(a.r, st)))
              [] step.kind = "expression" -> RunExpression(step, st)
              [] step.kind = "guard" -> RunGuard(step, st))

BlockTurns(p, st, fuel) ==
    IF ~Going(st) THEN st
    ELSE IF st.env[p.index].v >= ResolvedLimit(p.limit, st)[1] THEN st
    ELSE IF fuel = 0 THEN Endless(st)
    ELSE BlockTurns(p, BlockBody(p.steps, st), fuel - 1)

RunBlock(p, st) ==
    LET prepared == PreparedSlots(Kind(p.steps, "expression") \o Kind(p.steps, "guard"), st)
        ready == prepared.st
        target == Kind(p.steps, "operation")[1].plan.target
        fused == FusedTurns(p, ready, ready.env[target], MaxTurns)
    IN  IF st.env[p.index].kind # "Int" \/ ~OperandsReady(p, st) THEN Declined(st)
        ELSE IF ~prepared.done \/ ResolvedLimit(p.limit, ready) = <<>> THEN Declined(ready)
        ELSE IF ~Fuses(p, ready) THEN Done(BlockTurns(p, ready, MaxTurns))
        ELSE IF fused.done THEN fused
        ELSE Done(BlockTurns(p, fused.st, MaxTurns))

-----------------------------------------------------------------------------
(* A tail increment, and the loop that walks its body. *)

ButLast(body) == SubSeq(body, 1, Len(body) - 1)

\* The limit of a condition that no statement before the increment may change.
StableLimit(c, body, st) ==
    LET front == ButLast(body)
        limit == Get(c.limit, st)
    IN  IF \E k \in DOMAIN front : \/ MayAssign(front[k], c.index)
                                   \/ c.limit.op = "var" /\ MayAssign(front[k], c.limit.v) THEN <<>>
        ELSE IF IntLike(limit) THEN <<limit.v>> ELSE <<>>

TripsTo(limits, c, step, st) ==
    IF limits = <<>> THEN <<>> ELSE TripCount(c.op, st.env[c.index].v \div 2, limits[1] \div 2, step \div 2)
Trips(c, step, body, st) == TripsTo(StableLimit(c, body, st), c, step, st)

\* The step of a tail increment of the index of the condition.
TailStep(s, st) ==
    LET c == ConditionPlan(s.es[1])
        body == s.bodies[1]
        step == StepOf(body[Len(body)], c[1].index)
    IN  IF c = <<>> \/ Len(body) < 2 THEN <<>>
        ELSE IF step \in {<<>>, <<0>>} \/ ~IntLike(st.env[c[1].index]) THEN <<>>
        ELSE step

\* The target gets the sum of the deltas, the index its end, the selector its last value.
Dispatched(p, x, step, n, st) ==
    LET from == st.env[x].v
        end == from + n * step
        counted == [st EXCEPT !.env[p.target] = PutInt(@, @.v + DispatchDelta(p, from, step, n), FALSE)[1],
                              !.env[x] = PutInt(@, end, FALSE)[1]]
    IN  IF n = 0 THEN counted
        ELSE [counted EXCEPT !.env[p.selector] = Value("Int", Remainder(end - step, p.base))]
DispatchOn(plans, trips, x, step, st) ==
    IF plans = <<>> \/ trips = <<>> THEN Declined(st)
    ELSE IF ~IntLike(st.env[plans[1].target]) THEN Declined(st)
    ELSE Done(Dispatched(plans[1], x, step, trips[1], st))

RunDispatch(s, step, st) ==
    LET c == ConditionPlan(s.es[1])[1]
        body == s.bodies[1]
    IN  IF Len(body) # 3 THEN Declined(st)
        ELSE DispatchOn(DispatchPlan(body[1], body[2], c.index), Trips(c, step, body, st), c.index, step, st)

FixedTurns(s, step, st, n) ==
    LET body == s.bodies[1]
        after == Execute(ButLast(body), st, <<>>)
    IN  IF n = 0 \/ ~Going(st) THEN st
        ELSE FixedTurns(s, step, IF Going(after) THEN Counted(after, s.es[1].args[1].v, step) ELSE after, n - 1)

\* The condition on two ints, or as the evaluator takes it.
Holds(c, e, st) ==
    LET ints == {k \in DOMAIN c : IntLike(st.env[c[k].index]) /\ IntLike(Get(c[k].limit, st))}
    IN  IF ints = {} THEN Evaluate(e, st.env, <<>>)
        ELSE Truth(Compare(c[1].op, st.env[c[1].index].v, Get(c[1].limit, st).v))

TailTurns(s, c, step, st, fuel) ==
    LET test == Holds(c, s.es[1], st)
        after == Execute(ButLast(s.bodies[1]), st, <<>>)
    IN  IF ~Going(st) THEN st
        ELSE IF test = Failure THEN Fail(st)
        ELSE IF ~Truthy(test) THEN st
        ELSE IF fuel = 0 THEN Endless(st)
        ELSE TailTurns(s, c, step, IF Going(after) THEN Counted(after, c[1].index, step) ELSE after, fuel - 1)

TailOf(s, c, step, trips, st) ==
    IF trips = <<>> THEN TailTurns(s, c, step, st, MaxTurns)
    ELSE IF trips[1] > MaxTurns THEN Endless(st)
    ELSE FixedTurns(s, step, st, trips[1])
RunTail(s, step, st) ==
    LET c == ConditionPlan(s.es[1]) IN TailOf(s, c, step, Trips(c[1], step, s.bodies[1], st), st)

\* The body statement by statement; break and continue are caught here.
LoopTurns(s, c, st, fuel) ==
    LET test == Holds(c, s.es[1], st)
    IN  IF ~Going(st) THEN LoopOver(st)
        ELSE IF test = Failure THEN Fail(st)
        ELSE IF ~Truthy(test) THEN st
        ELSE IF fuel = 0 THEN Endless(st)
        ELSE LoopTurns(s, c, AfterBody(Execute(s.bodies[1], st, <<>>)), fuel - 1)
=============================================================================
