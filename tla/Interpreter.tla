----------------------------- MODULE Interpreter -----------------------------
(***************************************************************************)
(* The language and the evaluator that walks its syntax tree: what a       *)
(* program means.  The modules of the fast paths and of the code generator *)
(* are compared with it.                                                   *)
(*                                                                         *)
(* Numbers are counted in halves, so that 2 is 4 and 0.5 is 1: that is     *)
(* enough to tell an int from a double that was truncated.  An Int stands  *)
(* for an int and for an i64, a Float for a double and for an f64, and a   *)
(* Narrow for an int of few bits, which saturates.  Names and functions    *)
(* are numbers.  A run of a program is a state with the environment, what  *)
(* was printed and the signal that is under way.                           *)
(***************************************************************************)
EXTENDS Integers, Sequences

CONSTANTS
    Names,      \* the variables of a program, 1..n
    MaxTurns,   \* bound: the turns of one loop
    NarrowBits  \* the width of a narrow int

ASSUME InterpreterAssumption ==
    /\ MaxTurns \in Nat
    /\ NarrowBits \in Nat \ {0}
    /\ Names \subseteq Nat \ {0}

-----------------------------------------------------------------------------
(* Syntax. *)

Node(op, kind, v, args) == [op |-> op, kind |-> kind, v |-> v, args |-> args]
Stmt(op, x, es, bodies) == [op |-> op, x |-> x, es |-> es, bodies |-> bodies]

Whole(n) == Node("num", "Int", 2 * n, <<>>)
Half(h) == Node("num", "Float", h, <<>>)
Var(x) == Node("var", "", x, <<>>)
Un(op, e) == Node(op, "", 0, <<e>>)
Bin(op, l, r) == Node(op, "", 0, <<l, r>>)
ListOf(es) == Node("list", "", 0, es)
IndexOf(x, e) == Node("index", "", 0, <<Var(x), e>>)
Call(f, es) == Node("call", "", f, es)
\* The constructor of a narrow int.
Narrow(e) == Node("narrow", "", 0, <<e>>)

Assign(x, e) == Stmt("assign", x, <<e>>, <<>>)
SetIndex(x, i, e) == Stmt("set", x, <<i, e>>, <<>>)
Method(m, x, es) == Stmt(m, x, es, <<>>)
Show(e) == Stmt("print", 0, <<e>>, <<>>)
Return(e) == Stmt("return", 0, <<e>>, <<>>)
Break == Stmt("break", 0, <<>>, <<>>)
Continue == Stmt("continue", 0, <<>>, <<>>)
While(e, body) == Stmt("while", 0, <<e>>, <<body>>)
\* range(start, stop, step)
ForRange(x, start, stop, step, body) == Stmt("range", x, <<start, stop, step>>, <<body>>)
ForIn(x, e, body) == Stmt("for", x, <<e>>, <<body>>)
\* A condition for each body; one body more when there is an else.
If(es, bodies) == Stmt("if", 0, es, bodies)
\* The selector and the case values; one body more when there is a default.
Switch(es, bodies) == Stmt("switch", 0, es, bodies)

Comparisons == {"lt", "le", "gt", "ge", "eq", "ne"}
Arithmetic == {"add", "sub", "mul", "div", "mod"}

-----------------------------------------------------------------------------
(* Values. *)

Value(kind, v) == [kind |-> kind, v |-> v, cells |-> <<>>]
Nil == Value("Nil", 0)
Failure == Value("Error", 0)
Truth(b) == Value("Bool", IF b THEN 2 ELSE 0)
ItemList(s) == [kind |-> "List", v |-> 0, cells |-> s]

Clamped(i, low, high) == IF i < low THEN low ELSE IF i > high THEN high ELSE i
NarrowMin == -(2 ^ NarrowBits)      \* in halves
NarrowMax == 2 ^ NarrowBits - 2
Saturated(h) == Value("Narrow", Clamped(h, NarrowMin, NarrowMax))
IntLike(w) == w.kind \in {"Int", "Narrow"}
Numeric(w) == w.kind \in {"Int", "Narrow", "Float"}

Truncated(h) == IF h >= 0 THEN 2 * (h \div 2) ELSE -(2 * ((-h) \div 2))
\* The remainder of C++: it has the sign of the dividend.
Remainder(a, b) ==
    LET m(x) == IF x < 0 THEN -x ELSE x
    IN  IF a >= 0 THEN m(a) % m(b) ELSE -(m(a) % m(b))

Truthy(w) == IF w.kind = "List" THEN w.cells # <<>> ELSE w.v # 0

Compare(op, l, r) ==
    CASE op = "lt" -> l < r [] op = "le" -> l <= r [] op = "gt" -> l > r
      [] op = "ge" -> l >= r [] op = "eq" -> l = r [] op = "ne" -> l # r

Compute(op, l, r) ==
    CASE op = "add" -> l + r [] op = "sub" -> l - r [] op = "mul" -> (l * r) \div 2
      [] op = "div" -> (2 * l) \div r [] op = "mod" -> Remainder(l, r)

\* promote_result_kind, for an operation that is not a comparison
ResultKind(op, l, r) ==
    IF op = "div" \/ "Float" \in {l.kind, r.kind} THEN "Float"
    ELSE IF {l.kind, r.kind} = {"Narrow"} THEN "Narrow"
    ELSE "Int"

\* eval_numeric_binary_value, which takes the remainder of doubles too
EvalNumeric(op, l, r) ==
    LET kind == ResultKind(op, l, r)
    IN  IF op \in Comparisons THEN Truth(Compare(op, l.v, r.v))
        ELSE IF op \in {"div", "mod"} /\ r.v = 0 THEN Failure
        ELSE IF kind = "Narrow" THEN Saturated(Compute(op, l.v, r.v))
        ELSE Value(kind, Compute(op, l.v, r.v))

\* eval_binary_scalar_controller on ints and doubles, eval_numeric_binary_value
\* when one of the operands has a kind of its own
EvalScalars(op, l, r) ==
    IF op = "mod" /\ "Float" \in {l.kind, r.kind} /\ "Narrow" \notin {l.kind, r.kind} THEN Failure
    ELSE EvalNumeric(op, l, r)

EvalBinary(op, l, r) ==
    IF "Error" \in {l.kind, r.kind} THEN Failure
    ELSE IF op = "and" THEN Truth(Truthy(l) /\ Truthy(r))
    ELSE IF op = "or" THEN Truth(Truthy(l) \/ Truthy(r))
    ELSE IF Numeric(l) /\ Numeric(r) THEN EvalScalars(op, l, r)
    ELSE IF op = "eq" THEN Truth(l = r)
    ELSE IF op = "ne" THEN Truth(l # r)
    ELSE Failure

EvalUnary(op, w) ==
    IF op = "not" /\ w.kind # "Error" THEN Truth(~Truthy(w))
    ELSE IF op = "neg" /\ w.kind \in {"Int", "Float"} THEN [w EXCEPT !.v = -@]
    ELSE Failure

\* A cell of a list, counted from the end when the index is negative.
CellAt(w, i) ==
    LET k == (IF i.v < 0 THEN i.v + 2 * Len(w.cells) ELSE i.v) \div 2
    IN  IF w.kind = "List" /\ i.kind = "Int" /\ k \in 0..Len(w.cells) - 1 THEN w.cells[k + 1]
        ELSE Failure

-----------------------------------------------------------------------------
(* Expressions and statements. *)

RECURSIVE Evaluate(_, _, _), Execute(_, _, _), ExecuteWhile(_, _, _, _), ExecuteTurns(_, _, _, _, _)

Going(st) == st.signal = "go"
Fail(st) == [st EXCEPT !.signal = "error"]
Endless(st) == [st EXCEPT !.signal = "endless"]     \* more turns than MaxTurns
Undefined == [x \in Names |-> Nil]
Start(env) == [env |-> env, out |-> <<>>, signal |-> "go", value |-> Nil]

\* A call binds the arguments; it prints nothing here.
CallOf(f, ws, fns) ==
    LET args == [x \in Names |-> IF x \in DOMAIN f.params THEN ws[f.params[x]] ELSE Nil]
        end == Execute(f.body, Start(args), fns)
    IN  IF end.signal = "error" \/ \E k \in DOMAIN ws : ws[k].kind = "Error" THEN Failure ELSE end.value

\* An operation on the values of its operands.
Apply(e, ws, fns) ==
    CASE e.op \in {"neg", "not"} -> EvalUnary(e.op, ws[1])
      [] e.op = "narrow" -> IF Numeric(ws[1]) THEN Saturated(Truncated(ws[1].v)) ELSE Failure
      [] e.op = "list" -> ItemList(ws)
      [] e.op = "index" -> CellAt(ws[1], ws[2])
      [] e.op = "len" -> Value("Int", 2 * Len(ws[1].cells))
      [] e.op = "call" -> CallOf(fns[e.v], ws, fns)
      [] OTHER -> EvalBinary(e.op, ws[1], ws[2])

ValuesOf(es, env, fns) == [k \in DOMAIN es |-> Evaluate(es[k], env, fns)]

Evaluate(e, env, fns) ==
    CASE e.op = "num" -> Value(e.kind, e.v)
      [] e.op = "var" -> IF env[e.v] = Nil THEN Failure ELSE env[e.v]
      [] OTHER -> Apply(e, ValuesOf(e.args, env, fns), fns)

\* The list methods, on the cells of a list.
AfterInsert(s, i, w) ==
    LET k == Clamped(IF i < 0 THEN i + Len(s) ELSE i, 0, Len(s))
    IN  SubSeq(s, 1, k) \o <<w>> \o SubSeq(s, k + 1, Len(s))
Without(s, k) == SubSeq(s, 1, k - 1) \o SubSeq(s, k + 1, Len(s))
FirstIn(s, w) ==
    LET at == {k \in DOMAIN s : s[k].v = w.v}
    IN  IF at = {} THEN 0 ELSE CHOOSE k \in at : \A j \in at : k <= j

CeilDiv(n, d) == (n + d - 1) \div d
\* range_iteration_count
RangeCount(from, to, step) ==
    IF step > 0 THEN (IF from >= to THEN 0 ELSE CeilDiv(to - from, step))
    ELSE (IF from <= to THEN 0 ELSE CeilDiv(from - to, -step))

Bind(st, x, w) == IF w.kind = "Error" THEN Fail(st) ELSE [st EXCEPT !.env[x] = w]

\* A change of a list: its place is counted from the end when it is negative.
ExecuteMethod(s, st, ws) ==
    LET old == st.env[s.x].cells
        h == ws[1].v \div 2
        place == IF h < 0 THEN h + Len(old) + 1 ELSE h + 1
        bad == \/ s.op \in {"pop", "set"} /\ CellAt(st.env[s.x], ws[1]) = Failure
               \/ s.op = "remove" /\ FirstIn(old, ws[1]) = 0
               \/ s.op = "set" /\ ws[2].kind = "Error"
        new == CASE s.op = "append" -> Append(old, ws[1])
                 [] s.op = "insert" -> AfterInsert(old, h, ws[2])
                 [] s.op = "pop" -> Without(old, place)
                 [] s.op = "remove" -> Without(old, FirstIn(old, ws[1]))
                 [] s.op = "set" -> [old EXCEPT ![place] = ws[2]]
    IN  IF bad THEN Fail(st) ELSE Bind(st, s.x, ItemList(new))

FirstOf(ks, otherwise) == IF ks = {} THEN otherwise ELSE CHOOSE k \in ks : \A j \in ks : k <= j

\* The first condition that holds, when none before it fails.
ExecuteIf(s, st, fns, ws) ==
    LET first == FirstOf({k \in DOMAIN ws : Truthy(ws[k])}, Len(ws) + 1)
    IN  IF \E k \in DOMAIN ws : k <= first /\ ws[k].kind = "Error" THEN Fail(st)
        ELSE IF first \in DOMAIN s.bodies THEN Execute(s.bodies[first], st, fns)
        ELSE st

\* The cases are compared in order; a break leaves the switch.
AfterCase(st) == IF st.signal = "break" THEN [st EXCEPT !.signal = "go"] ELSE st
ExecuteSwitch(s, st, fns, ws) ==
    LET cases == 1..Len(ws) - 1
        same(l, r) == l = r \/ (Numeric(l) /\ Numeric(r) /\ l.v = r.v)
        first == FirstOf({k \in cases : same(ws[1], ws[k + 1])}, Len(ws))
    IN  IF ws[1].kind = "Error" \/ \E k \in cases : k <= first /\ ws[k + 1].kind = "Error" THEN Fail(st)
        ELSE IF first \in DOMAIN s.bodies THEN AfterCase(Execute(s.bodies[first], st, fns))
        ELSE st

\* The list that range() returns, cut off behind the bound.
RangeItems(from, to, step) ==
    [k \in 1..Clamped(RangeCount(from, to, step), 0, MaxTurns + 1) |-> Value("Int", 2 * (from + (k - 1) * step))]
ExecuteRange(s, st, fns, ws) ==
    LET whole(k) == Truncated(ws[k].v) \div 2
    IN  IF (\E k \in 1..3 : ~Numeric(ws[k])) \/ whole(3) = 0 THEN Fail(st)
        ELSE ExecuteTurns(s, RangeItems(whole(1), whole(2), whole(3)), st, fns, MaxTurns)

\* A statement on the values of its expressions.
ExecuteOn(s, st, fns, ws) ==
    CASE s.op = "assign" -> Bind(st, s.x, ws[1])
      [] s.op = "print" -> IF ws[1].kind = "Error" THEN Fail(st) ELSE [st EXCEPT !.out = Append(@, ws[1].v)]
      [] s.op = "return" -> [st EXCEPT !.signal = "return", !.value = ws[1]]
      [] s.op \in {"break", "continue"} -> [st EXCEPT !.signal = s.op]
      [] s.op \in {"append", "insert", "pop", "remove", "set"} -> ExecuteMethod(s, st, ws)
      [] s.op = "if" -> ExecuteIf(s, st, fns, ws)
      [] s.op = "switch" -> ExecuteSwitch(s, st, fns, ws)
      [] s.op = "while" -> ExecuteWhile(s, st, fns, MaxTurns)
      [] s.op = "for" -> ExecuteTurns(s, ws[1].cells, st, fns, MaxTurns)
      [] s.op = "range" -> ExecuteRange(s, st, fns, ws)

ExecuteOne(s, st, fns) == ExecuteOn(s, st, fns, ValuesOf(s.es, st.env, fns))

\* A loop ends with break, and goes on after continue.
AfterBody(st) ==
    CASE st.signal = "break" -> [st EXCEPT !.signal = "done"]
      [] st.signal = "continue" -> [st EXCEPT !.signal = "go"]
      [] OTHER -> st
LoopOver(st) == IF st.signal = "done" THEN [st EXCEPT !.signal = "go"] ELSE st

Turn(s, st, fns, fuel, test) ==
    CASE test.kind = "Error" -> Fail(st)
      [] test.kind # "Error" /\ ~Truthy(test) -> st
      [] test.kind # "Error" /\ Truthy(test) ->
            IF fuel = 0 THEN Endless(st)
            ELSE ExecuteWhile(s, AfterBody(Execute(s.bodies[1], st, fns)), fns, fuel - 1)
ExecuteWhile(s, st, fns, fuel) ==
    IF ~Going(st) THEN LoopOver(st) ELSE Turn(s, st, fns, fuel, Evaluate(s.es[1], st.env, fns))

ExecuteTurns(s, items, st, fns, fuel) ==
    IF ~Going(st) \/ items = <<>> THEN LoopOver(st)
    ELSE IF fuel = 0 THEN Endless(st)
    ELSE ExecuteTurns(s, Tail(items),
                      AfterBody(Execute(s.bodies[1], [st EXCEPT !.env[s.x] = Head(items)], fns)),
                      fns, fuel - 1)

Execute(body, st, fns) ==
    IF body = <<>> \/ ~Going(st) THEN st
    ELSE Execute(Tail(body), ExecuteOne(Head(body), st, fns), fns)

\* Interpreter::run
Run(program) == Execute(program.main, Start(Undefined), program.fns)
=============================================================================
