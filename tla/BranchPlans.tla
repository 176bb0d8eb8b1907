----------------------------- MODULE BranchPlans -----------------------------
(***************************************************************************)
(* The if statement, with the conditions it evaluates on plain ints and    *)
(* the chain of x == literal whose branches add a literal to a variable.   *)
(***************************************************************************)
EXTENDS PlanShapes

RECURSIVE IntCondition(_), IntOf(_, _), FirstTrue(_, _, _)

\* expr_supports_fast_int_eval_if
IntCondition(e) ==
    \/ e.op = "num" /\ e.v % 2 = 0
    \/ e.op = "var"
    \/ e.op \in {"neg", "narrow", "add", "sub", "mul", "mod"} /\ \A k \in DOMAIN e.args : IntCondition(e.args[k])

\* try_eval_fast_int_expr_if, <<>> when it gives up.  A constructor does nothing.
IntOf(e, env) ==
    LET args == MapAll([k \in DOMAIN e.args |-> IntOf(e.args[k], env)])
    IN  CASE e.op = "num" -> <<e.v>>
          [] e.op = "var" -> IF env[e.v].kind = "Int" THEN <<env[e.v].v>> ELSE <<>>
          [] OTHER ->
                IF args = <<>> THEN <<>>
                ELSE IF e.op = "neg" THEN << -args[1][1] >>
                ELSE IF e.op = "narrow" THEN args[1]
                ELSE IF e.op = "mod" /\ args[1][2] = 0 THEN <<>>
                ELSE << Compute(e.op, args[1][1], args[1][2]) >>

\* The condition on plain ints, or as the evaluator takes it.
TestOf(e, st) ==
    LET fast == e.op \in Comparisons /\ \A k \in 1..2 : IntCondition(e.args[k])
        ints == IF fast THEN MapAll([k \in 1..2 |-> IntOf(e.args[k], st.env)]) ELSE <<>>
    IN  IF ints = <<>> THEN Evaluate(e, st.env, <<>>)
        ELSE Truth(Compare(e.op, ints[1][1], ints[1][2]))

\* The first condition that holds: <<k>>, with one more for the else, or <<>> when one throws.
FirstTrue(es, k, st) ==
    IF k > Len(es) THEN <<k>>
    ELSE LET test == TestOf(es[k], st)
         IN  IF test.kind = "Error" THEN <<>> ELSE IF Truthy(test) THEN <<k>> ELSE FirstTrue(es, k + 1, st)

\* x == literal in every condition, with one x.
EqChain(s) ==
    LET conditions == MapAll([k \in DOMAIN s.es |-> EqLiteral(s.es[k])])
    IN  IF conditions = <<>> THEN <<>>
        ELSE IF \E k \in DOMAIN s.es : conditions[1][k].x # conditions[1][1].x THEN <<>>
        ELSE <<[x |-> conditions[1][1].x, values |-> [k \in DOMAIN s.es |-> conditions[1][k].v]]>>

\* Every branch, the else too, adds a literal to the same variable.
ChainDeltas(s) ==
    LET target == s.bodies[1][1].x
        deltas == MapAll([k \in DOMAIN s.bodies |-> BranchDelta(s.bodies[k], target)])
    IN  IF Len(s.bodies) # Len(s.es) + 1 \/ Len(s.bodies[1]) # 1 THEN <<>>
        ELSE IF s.bodies[1][1].op # "assign" \/ deltas = <<>> THEN <<>>
        ELSE <<[target |-> target, deltas |-> deltas[1]]>>

RunBranch(s, k, st) == IF k \in DOMAIN s.bodies THEN Execute(s.bodies[k], st, <<>>) ELSE st
Walk(s, first, st) == IF first = <<>> THEN Fail(st) ELSE RunBranch(s, first[1], st)

RunIf(s, st) ==
    LET chain == EqChain(s)
        current == st.env[chain[1].x]
        matches == {k \in DOMAIN s.es : chain[1].values[k] = current.v}
        branch == FirstOf(matches, Len(s.es) + 1)
        added == ChainDeltas(s)
    IN  IF chain = <<>> THEN Walk(s, FirstTrue(s.es, 1, st), st)
        ELSE IF current.kind # "Int" THEN Walk(s, FirstTrue(s.es, 1, st), st)
        ELSE IF added = <<>> THEN RunBranch(s, branch, st)
        ELSE IF st.env[added[1].target].kind # "Int" THEN RunBranch(s, branch, st)
        ELSE [st EXCEPT !.env[added[1].target].v = @ + added[1].deltas[branch]]
=============================================================================
