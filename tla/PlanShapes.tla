------------------------------ MODULE PlanShapes ------------------------------
(***************************************************************************)
(* What the fast paths of the loops recognize in the syntax tree: literal  *)
(* steps and limits, assignments of a numeric operation, assignments of an *)
(* expression of ints, the guard of a zero, and the dispatch on the        *)
(* remainder of the index.  A recognizer gives <<plan>>, or <<>>.          *)
(***************************************************************************)
EXTENDS NumericRepeat, FiniteSets

RECURSIVE LiteralOf(_), MayAssign(_, _), HasLoopControl(_), IntExprOk(_), Promotes(_), Integral(_)

IsVar(e, x) == e.op = "var" /\ e.v = x
NumberNode(v) == Node("num", "Int", v, <<>>)

\* The kind of the literal, a double or a narrow int, is not looked at.
LiteralOf(e) ==
    CASE e.op = "num" -> IF e.v % 2 = 0 THEN <<e.v>> ELSE <<>>
      [] e.op = "neg" ->
            IF LiteralOf(e.args[1]) = <<>> THEN <<>> ELSE << -LiteralOf(e.args[1])[1] >>
      [] e.op = "narrow" -> LiteralOf(e.args[1])
      [] OTHER -> <<>>

\* The comparison of a variable with a variable or a literal.
ConditionPlan(e) ==
    IF e.op \notin Comparisons THEN <<>>
    ELSE IF e.args[1].op # "var" THEN <<>>
    ELSE IF e.args[2].op = "var" THEN <<[op |-> e.op, index |-> e.args[1].v, limit |-> e.args[2]]>>
    ELSE IF LiteralOf(e.args[2]) = <<>> THEN <<>>
    ELSE <<[op |-> e.op, index |-> e.args[1].v, limit |-> NumberNode(LiteralOf(e.args[2])[1])]>>

\* The k of x = x + k, x = k + x and x = x - k.
StepOf(s, x) ==
    LET e == s.es[1]
        right == LiteralOf(e.args[2])
    IN  CASE s.op # "assign" \/ s.x # x \/ e.op \notin {"add", "sub"} -> <<>>
          [] s.op = "assign" /\ s.x = x /\ e.op = "add" ->
                IF IsVar(e.args[1], x) THEN right
                ELSE IF IsVar(e.args[2], x) THEN LiteralOf(e.args[1]) ELSE <<>>
          [] s.op = "assign" /\ s.x = x /\ e.op = "sub" ->
                IF IsVar(e.args[1], x) /\ right # <<>> THEN << -right[1] >> ELSE <<>>

\* An assignment to a cell assigns no variable.
MayAssign(s, x) ==
    CASE s.op = "assign" -> s.x = x
      [] s.op \in {"break", "continue", "set"} -> FALSE
      [] s.op \in {"if", "switch"} ->
            \E k \in DOMAIN s.bodies : \E j \in DOMAIN s.bodies[k] : MayAssign(s.bodies[k][j], x)
      [] OTHER -> TRUE

\* A break or a continue that is not inside a loop of the body.
HasLoopControl(body) ==
    \E j \in DOMAIN body :
        \/ body[j].op \in {"break", "continue"}
        \/ /\ body[j].op \in {"if", "switch"}
           /\ \E k \in DOMAIN body[j].bodies : HasLoopControl(body[j].bodies[k])

\* The turns of a loop whose index goes from start by step.
TripCount(op, start, limit, step) ==
    CASE op = "lt" /\ step > 0 -> << IF start >= limit THEN 0 ELSE CeilDiv(limit - start, step) >>
      [] op = "le" /\ step > 0 -> << IF start > limit THEN 0 ELSE (limit - start) \div step + 1 >>
      [] op = "gt" /\ step < 0 -> << IF start <= limit THEN 0 ELSE CeilDiv(start - limit, -step) >>
      [] op = "ge" /\ step < 0 -> << IF start < limit THEN 0 ELSE (start - limit) \div (-step) + 1 >>
      [] OTHER -> <<>>

-----------------------------------------------------------------------------
(* Assignments. *)

Operands(e) == {e.args[k] : k \in {j \in DOMAIN e.args : e.args[j].op \in {"var", "num"}}}
IsOperation(s) == s.op = "assign" /\ s.es[1].op \in Arithmetic
                  /\ \A k \in DOMAIN s.es[1].args : s.es[1].args[k].op \in {"var", "num"}

\* x = x op r, or x = l op r that neither the target nor the index appears in.
NumericAssign(s, index) ==
    LET e == s.es[1]
        plan(recurrence) == <<[target |-> s.x, op |-> e.op, l |-> e.args[1], r |-> e.args[2],
                               recurrence |-> recurrence]>>
    IN  IF ~IsOperation(s) THEN <<>>
        ELSE IF IsVar(e.args[1], s.x) THEN plan(TRUE)
        ELSE IF \E o \in Operands(e) : IsVar(o, s.x) \/ IsVar(o, index) THEN <<>>
        ELSE plan(FALSE)

IntExprOk(e) == \/ e.op \in {"num", "var"}
                \/ e.op \in Arithmetic \cup {"neg", "narrow"} /\ \A k \in DOMAIN e.args : IntExprOk(e.args[k])
Promotes(e) == e.op = "div" \/ \E k \in DOMAIN e.args : Promotes(e.args[k])
\* The expression compiles: every number is whole.
Integral(e) == IF e.op = "num" THEN e.v % 2 = 0 ELSE \A k \in DOMAIN e.args : Integral(e.args[k])

\* A division is taken only when a constructor makes an int of it again.
IntExprAssign(s, index) ==
    LET forced == s.es[1].op = "narrow"
        e == IF forced THEN s.es[1].args[1] ELSE s.es[1]
    IN  IF s.op # "assign" \/ s.x = index THEN <<>>
        ELSE IF IntExprOk(e) /\ (forced \/ ~Promotes(e)) THEN <<[target |-> s.x, e |-> e, forced |-> forced]>>
        ELSE <<>>

\* if x == 0: x = literal.  A constructor around the zero forces the kind, too.
GuardIfZero(s) ==
    LET e == s.es[1]
        onLeft == e.args[1].op = "var"
        x == IF onLeft THEN e.args[1].v ELSE e.args[2].v
        zero == IF onLeft THEN e.args[2] ELSE e.args[1]
        then == s.bodies[1][1]
    IN  IF s.op # "if" THEN <<>>
        ELSE IF Len(s.es) # 1 \/ Len(s.bodies) # 1 \/ Len(s.bodies[1]) # 1 \/ e.op # "eq" THEN <<>>
        ELSE IF ~(onLeft \/ e.args[2].op = "var") \/ LiteralOf(zero) # <<0>> THEN <<>>
        ELSE IF then.op # "assign" \/ then.x # x THEN <<>>
        ELSE IF LiteralOf(then.es[1]) = <<>> THEN <<>>
        ELSE <<[target |-> x, replacement |-> LiteralOf(then.es[1])[1],
                forced |-> "narrow" \in {then.es[1].op, zero.op}]>>

-----------------------------------------------------------------------------
(* The dispatch on the remainder of the index. *)

\* x == literal, or literal == x
EqLiteral(e) ==
    LET onLeft == e.args[1].op = "var"
        x == IF onLeft THEN e.args[1] ELSE e.args[2]
        v == LiteralOf(IF onLeft THEN e.args[2] ELSE e.args[1])
    IN  IF e.op # "eq" THEN <<>>
        ELSE IF x.op # "var" \/ v = <<>> THEN <<>>
        ELSE <<[x |-> x.v, v |-> v[1]]>>

BranchDelta(body, x) == IF Len(body) = 1 THEN StepOf(body[1], x) ELSE <<>>
\* A case of a switch may be empty, and may end with a break.
CaseDelta(body, x) ==
    IF body = <<>> THEN <<0>>
    ELSE IF Len(body) > 2 \/ (Len(body) = 2 /\ body[Len(body)].op # "break") THEN <<>>
    ELSE StepOf(body[1], x)

\* <<values>> when every one of the options has one
MapAll(options) ==
    IF \E k \in DOMAIN options : options[k] = <<>> THEN <<>>
    ELSE << [k \in DOMAIN options |-> options[k][1]] >>

\* The delta of each key; the first of two branches with one key is taken.
DeltaTable(keys, deltas) ==
    LET first(key) == CHOOSE k \in DOMAIN keys : keys[k] = key /\ \A j \in 1..(k - 1) : keys[j] # key
    IN  [key \in {keys[k] : k \in DOMAIN keys} |-> deltas[first(key)]]

IfTable(target, selector, conditions, deltas) ==
    IF conditions = <<>> \/ deltas = <<>> THEN <<>>
    ELSE IF \E k \in DOMAIN conditions[1] : conditions[1][k].x # selector THEN <<>>
    ELSE <<[target |-> target, otherwise |-> deltas[1][Len(deltas[1])],
            table |-> DeltaTable([k \in DOMAIN conditions[1] |-> conditions[1][k].v], deltas[1])]>>
IfDispatch(s, selector) ==
    LET target == s.bodies[1][1].x
    IN  IF Len(s.bodies) # Len(s.es) + 1 \/ s.bodies[1] = <<>> THEN <<>>
        ELSE IF s.bodies[1][1].op # "assign" THEN <<>>
        ELSE IfTable(target, selector, MapAll([k \in DOMAIN s.es |-> EqLiteral(s.es[k])]),
                     MapAll([k \in DOMAIN s.bodies |-> BranchDelta(s.bodies[k], target)]))

\* The branch behind the cases is the default.
SwitchTable(target, keys, deltas) ==
    IF keys = <<>> \/ deltas = <<>> THEN <<>>
    ELSE LET n == Len(keys[1])
         IN  <<[target |-> target, table |-> DeltaTable(keys[1], deltas[1]),
                otherwise |-> IF Len(deltas[1]) > n THEN deltas[1][n + 1] ELSE 0]>>
SwitchDispatch(s, selector) ==
    LET cases == 1..Len(s.es) - 1
        target == s.bodies[1][1].x
    IN  IF ~IsVar(s.es[1], selector) \/ cases = {} THEN <<>>
        ELSE IF s.bodies[1] = <<>> THEN <<>>
        ELSE IF s.bodies[1][1].op # "assign" THEN <<>>
        ELSE SwitchTable(target, MapAll([k \in cases |-> LiteralOf(s.es[k + 1])]),
                         MapAll([k \in DOMAIN s.bodies |-> CaseDelta(s.bodies[k], target)]))

Dispatch(selector, base, branches) ==
    IF base \in {<<>>, <<0>>} \/ branches = <<>> THEN <<>>
    ELSE <<[selector |-> selector, base |-> base[1], target |-> branches[1].target,
            table |-> branches[1].table, otherwise |-> branches[1].otherwise]>>

\* selector = index % base, then the branches: the plan of the two statements.
DispatchPlan(first, second, index) ==
    LET e == first.es[1]
    IN  IF first.op # "assign" \/ e.op # "mod" \/ second.op \notin {"if", "switch"} THEN <<>>
        ELSE IF ~IsVar(e.args[1], index) THEN <<>>
        ELSE Dispatch(first.x, LiteralOf(e.args[2]),
                      IF second.op = "if" THEN IfDispatch(second, first.x) ELSE SwitchDispatch(second, first.x))

DeltaOf(plan, selector) ==
    IF selector \in DOMAIN plan.table THEN plan.table[selector] ELSE plan.otherwise

RECURSIVE SumOver(_, _, _)
\* The sum of f over a set, and the total of a dispatch turn by turn.
SumOver(f, keys, total) ==
    IF keys = {} THEN total
    ELSE LET k == CHOOSE k \in keys : TRUE IN SumOver(f, keys \ {k}, total + f[k])

IteratedDelta(plan, index, step, n) ==
    SumOver([k \in 0..n - 1 |-> DeltaOf(plan, Remainder(index + k * step, plan.base))], 0..n - 1, 0)

\* How often the remainder is met in n turns from index by one.
ResidueCount(plan, index, n, residue) ==
    LET base == plan.base \div 2
        offset == ((residue - Remainder(index, plan.base)) \div 2 + base) % base
    IN  IF residue < 0 \/ residue >= plan.base THEN 0
        ELSE n \div base + (IF offset < n % base THEN 1 ELSE 0)

\* The total without a turn: each key as often as its remainder is met.
ClosedDelta(plan, index, n) ==
    LET keys == DOMAIN plan.table
        count == [k \in keys |-> ResidueCount(plan, index, n, k)]
    IN  SumOver([k \in keys |-> count[k] * plan.table[k]], keys, 0)
        + (n - SumOver(count, keys, 0)) * plan.otherwise

\* The total of n turns, from a non-negative index by one in closed form.
DispatchDelta(plan, index, step, n) ==
    IF plan.base > 0 /\ step = 2 /\ index >= 0 THEN ClosedDelta(plan, index, n)
    ELSE IteratedDelta(plan, index, step, n)
=============================================================================
