------------------------------- MODULE Codegen -------------------------------
(***************************************************************************)
(* CodeGenerator: a program is lowered to a list of instructions for each  *)
(* function, over variables, temporaries and labels.  The state of the     *)
(* generator is a record: the code emitted so far, the counters of the     *)
(* temporaries and labels, the kind of every variable in the scope of the  *)
(* function, and whether the code emitted so far has terminated (done).    *)
(* ok becomes FALSE with the first diagnostic: such a program is rejected. *)
(***************************************************************************)
EXTENDS Interpreter, SequencesExt

CONSTANT FirstTemp      \* the registers from here on are temporaries

Lists == {"ListInt", "ListFloat"}
NoKinds == [x \in Names |-> "Invalid"]
UnknownKinds == [x \in Names |-> "Unknown"]

\* Instructions.
Instr(op, dst, rhs, yes, no) == [op |-> op, dst |-> dst, rhs |-> rhs, yes |-> yes, no |-> no]
Absent == Node("none", "", 0, <<>>)
Reg(r) == Node("reg", "", r, <<>>)
Lit(kind, h) == Node("num", kind, h, <<>>)
SetTo(r, rhs) == Instr("set", r, rhs, 0, 0)
Do(rhs) == Instr("do", 0, rhs, 0, 0)
BrIf(test, yes, no) == Instr("br", 0, test, yes, no)
Goto(l) == Instr("goto", 0, Absent, l, 0)
LabelAt(l) == Instr("label", 0, Absent, l, 0)
Decl(x, kind) == Instr("var", x, Node("kind", kind, 0, <<>>), 0, 0)
Ret(rhs) == Instr("ret", 0, rhs, 0, 0)

\* What an expression was lowered to: an operand and its kind.
Code(g, val, kind) == [g |-> g, val |-> val, kind |-> kind]
Reject(g) == [g EXCEPT !.ok = FALSE]
Nothing(g) == Code(Reject(g), Absent, "Invalid")

Emit(g, instr) == [g EXCEPT !.code = Append(@, instr)]
EmitAll(g, instrs) == [g EXCEPT !.code = @ \o instrs]
\* next_temp, next_label
NextTemp(g) == FirstTemp + g.temps
WithTemp(g) == [g EXCEPT !.temps = @ + 1]
NextLabel(g, k) == g.labels + k
WithLabels(g, n) == [g EXCEPT !.labels = @ + n]
\* A fresh temporary that holds rhs.
Put(g, rhs, kind) == Code(Emit(WithTemp(g), SetTo(NextTemp(g), rhs)), Reg(NextTemp(g)), kind)
Op(op, kind, args) == Node(op, kind, 0, args)

-----------------------------------------------------------------------------
(* Kinds. *)

CoerceNumeric(l, r) ==
    IF "Float" \in {l, r} THEN "Float" ELSE IF l = "Int" /\ r = "Int" THEN "Int" ELSE "Invalid"

MergeTypes(l, r) ==
    CASE "Invalid" \in {l, r} -> "Invalid"
      [] l = "Unknown" -> r
      [] r = "Unknown" -> l
      [] l = r -> l
      [] {l, r} = {"Int", "Float"} -> "Float"
      [] OTHER -> "Invalid"

NoneIsVoid(kind) == IF kind = "Unknown" THEN "Void" ELSE kind
FinalizeReturn(kinds) == NoneIsVoid(FoldLeft(MergeTypes, "Unknown", kinds))

\* set_var_type: the first kind is taken as it is, "Invalid" stands for absent.
SetKind(g, x, kind) ==
    [g EXCEPT !.kinds[x] = IF @ = "Invalid" THEN kind ELSE MergeTypes(@, kind)]

\* Mutant: the kind of a variable is kept, but no declaration is emitted.
BadDeclareIfNeeded(g, x, kind) == IF g.kinds[x] # "Invalid" THEN g ELSE SetKind(g, x, kind)
DeclareIfNeeded(g, x, kind) ==
    IF g.kinds[x] # "Invalid" THEN g
    ELSE SetKind(Emit(g, Decl(x, IF kind = "Unknown" THEN "Int" ELSE kind)), x, kind)

\* merge_scopes: what a branch found out about the variables.
MergeScopes(kinds, branch) ==
    [x \in Names |-> IF kinds[x] = "Invalid" THEN branch[x]
                     ELSE IF branch[x] = "Invalid" THEN kinds[x]
                     ELSE MergeTypes(kinds[x], branch[x])]

Cast(c, from, to) ==
    IF c.kind = from THEN Put(c.g, Op("cast", to, <<c.val>>), to) ELSE c

EnsureBool(c) ==
    CASE c.kind = "Bool" -> c
      [] c.kind \in {"Int", "Float"} -> Put(c.g, Op("ne", c.kind, <<c.val, Lit(c.kind, 0)>>), "Bool")
      [] OTHER -> Nothing(c.g)

-----------------------------------------------------------------------------
(* infer_top_level: the kinds of the parameters, from the calls, and of the *)
(* results, from the return statements.                                     *)

RECURSIVE AstKind(_), Infer(_, _, _), SeedExprs(_, _, _), SeedBody(_, _, _), SeedBlocks(_, _, _),
          ReturnKind(_, _, _, _), ReturnKindOf(_, _, _, _)

\* infer_ast_expr_kind: without an environment.
AstKind(e) ==
    CASE e.op = "num" -> e.kind
      [] e.op = "list" -> "ListAny"
      [] e.op \in {"neg", "not"} -> AstKind(e.args[1])
      [] e.op \in {"var", "call", "index", "len"} -> "Unknown"
      [] OTHER -> LET l == AstKind(e.args[1])
                      r == AstKind(e.args[2])
                  IN  IF l = "Unknown" THEN r ELSE IF r \in {"Unknown", l} THEN l ELSE "Float"

\* infer_list_expression_kind
ListKind(es) ==
    LET kind == FoldLeft(LAMBDA k, e : MergeTypes(k, AstKind(e)), "Unknown", es)
    IN  IF kind = "Float" THEN "ListFloat" ELSE "ListInt"

Infer(e, env, sigs) ==
    LET kind(i) == Infer(e.args[i], env, sigs)
    IN  CASE e.op = "num" -> e.kind
          [] e.op = "var" -> env[e.v]
          [] e.op = "not" \/ e.op \in Comparisons \cup {"and", "or"} -> "Bool"
          [] e.op = "neg" -> kind(1)
          [] e.op = "div" -> "Float"
          [] e.op \in Arithmetic \ {"div"} ->
                IF "Float" \in {kind(1), kind(2)} THEN "Float"
                ELSE IF {kind(1), kind(2)} \subseteq {"Int", "Bool"} THEN "Int" ELSE "Unknown"
          [] e.op = "len" -> "Int"
          [] e.op = "call" -> sigs[e.v].ret
          [] e.op = "list" ->
                IF \E i \in DOMAIN e.args : kind(i) = "Float" THEN "ListFloat" ELSE "ListInt"
          [] e.op = "index" ->
                CASE kind(1) = "ListFloat" -> "Float" [] kind(1) = "ListInt" -> "Int"
                  [] OTHER -> "Unknown"

\* What a call says of the parameters of a function.
SeedCall(e, env, sigs) ==
    LET kind(i) == Infer(e.args[i], env, sigs)
    IN  IF e.op # "call" THEN sigs
        ELSE [sigs EXCEPT ![e.v].params =
                 [i \in DOMAIN @ |-> IF kind(i) \in Lists THEN @[i] ELSE MergeTypes(@[i], kind(i))]]

\* Expressions from left to right, each before its operands.
SeedExprs(es, env, sigs) ==
    IF es = <<>> \/ sigs = <<>> THEN sigs
    ELSE SeedExprs(Head(es).args \o Tail(es), env, SeedCall(Head(es), env, sigs))

\* The statements of a block, in an environment of kinds; a nested block works
\* on a copy of it, and the else-if branches are not visited.
Visited(s) ==
    IF s.op # "if" THEN s.bodies
    ELSE <<s.bodies[1]>> \o SubSeq(s.bodies, Len(s.es) + 1, Len(s.bodies))
After(s, env, sigs) ==
    IF s.op = "assign" THEN [env EXCEPT ![s.x] = Infer(s.es[1], env, sigs)] ELSE env

SeedBody(body, env, sigs) ==
    IF body = <<>> \/ sigs = <<>> THEN sigs
    ELSE LET s == Head(body)
             es == IF s.op = "if" THEN SubSeq(s.es, 1, 1) ELSE s.es
             mine == SeedExprs(es, env, sigs)
         IN  SeedBody(Tail(body), After(s, env, sigs), SeedBlocks(Visited(s), env, mine))
SeedBlocks(blocks, env, sigs) ==
    IF blocks = <<>> \/ sigs = <<>> THEN sigs
    ELSE SeedBlocks(Tail(blocks), env, SeedBody(Head(blocks), env, sigs))

\* The kinds of the return statements of a block, merged into kind.
ReturnKind(body, env, sigs, kind) ==
    IF body = <<>> \/ kind = "Invalid" THEN kind
    ELSE LET s == Head(body)
         IN  ReturnKind(Tail(body), After(s, env, sigs), sigs,
                        IF s.op = "return" THEN MergeTypes(kind, Infer(s.es[1], env, sigs))
                        ELSE ReturnKindOf(Visited(s), env, sigs, kind))
ReturnKindOf(blocks, env, sigs, kind) ==
    IF blocks = <<>> \/ kind = "Invalid" THEN kind
    ELSE ReturnKindOf(Tail(blocks), env, sigs, ReturnKind(Head(blocks), env, sigs, kind))

ParamKinds(f, sig) ==
    [x \in Names |-> IF x \in DOMAIN f.params THEN sig.params[f.params[x]] ELSE "Unknown"]

RECURSIVE SeedFunctions(_, _, _), InferReturns(_, _, _)
SeedFunctions(fns, i, sigs) ==
    IF sigs = <<>> \/ i > Len(fns) THEN sigs
    ELSE SeedFunctions(fns, i + 1, SeedBody(fns[i].body, ParamKinds(fns[i], sigs[i]), sigs))
InferReturns(fns, i, sigs) ==
    IF sigs = <<>> \/ i > Len(fns) THEN sigs
    ELSE LET kind == ReturnKind(fns[i].body, ParamKinds(fns[i], sigs[i]), sigs, "Unknown")
         IN  InferReturns(fns, i + 1, [sigs EXCEPT ![i].ret = NoneIsVoid(kind)])

InferTopLevel(program) ==
    LET none == [i \in DOMAIN program.fns |->
                    [params |-> [k \in 1..program.fns[i].arity |-> "Unknown"], ret |-> "Unknown"]]
        fromMain == SeedBody(program.main, UnknownKinds, none)
    IN  InferReturns(program.fns, 1, SeedFunctions(program.fns, 1, fromMain))

-----------------------------------------------------------------------------
(* Expressions. *)

\* try_pow2_mod_mask: the literal operands whose remainder is a mask.
IsPow2(e) == e.op = "num" /\ e.kind = "Int" /\ e.v \in {2, 4, 8, 16}

Known(c) == IF c.kind = "Unknown" THEN [c EXCEPT !.kind = "Int"] ELSE c

RECURSIVE EmitExpr(_, _, _), EmitArgs(_, _), EmitItems(_, _, _, _)

\* Two operands; a failure of one rejects the program.
Paired(l, r) == [l |-> Known([l EXCEPT !.g = r.g]), r |-> Known(r)]
PairWith(l, e, want) == Paired(l, EmitExpr(e, l.g, want))
EmitPair(e, g, want) == PairWith(EmitExpr(e.args[1], g, want), e.args[2], want)

\* Both operands brought to kind, the left one first.
EmitOperands(l, r, kind, op, result) ==
    LET left == IF kind = "Float" THEN Cast([l EXCEPT !.g = r.g], "Int", "Float") ELSE [l EXCEPT !.g = r.g]
        right == IF kind = "Float" THEN Cast([r EXCEPT !.g = left.g], "Int", "Float")
                 ELSE [r EXCEPT !.g = left.g]
    IN  Put(right.g, Op(op, kind, <<left.val, right.val>>), result)

Logical(op, p) ==
    LET l == EnsureBool([p.l EXCEPT !.g = p.r.g])
        r == EnsureBool([p.r EXCEPT !.g = l.g])
    IN  Put(r.g, Op(op, "Bool", <<l.val, r.val>>), "Bool")
EmitLogical(e, g) == Logical(e.op, EmitPair(e, g, "Bool"))

Compared(op, p) ==
    LET bools == "Bool" \in {p.l.kind, p.r.kind}
        kind == IF bools THEN "Bool"
                ELSE IF op \notin {"eq", "ne"} THEN CoerceNumeric(p.l.kind, p.r.kind)
                ELSE IF "Float" \in {p.l.kind, p.r.kind} THEN "Float" ELSE "Int"
    IN  IF (bools /\ p.l.kind # p.r.kind) \/ kind = "Invalid" THEN Nothing(p.r.g)
        ELSE EmitOperands(p.l, p.r, kind, op, "Bool")
EmitComparison(e, g) == Compared(e.op, EmitPair(e, g, "None"))

Computed(op, p) ==
    LET both == CoerceNumeric(p.l.kind, p.r.kind)
        kind == IF op = "div" THEN "Float" ELSE both
    IN  IF "Bool" \in {p.l.kind, p.r.kind} \/ both = "Invalid" THEN Nothing(p.r.g)
        ELSE EmitOperands(p.l, p.r, kind, op, kind)
EmitArithmetic(e, g) == Computed(e.op, EmitPair(e, g, "None"))

\* A remainder by a power of two becomes a mask, when the left side is an int.
Masked(e, l) ==
    IF l.kind = "Int" THEN Put(l.g, Node("mod_pow2", "Int", e.args[2].v - 2, <<l.val>>), "Int")
    ELSE EmitArithmetic(e, l.g)
EmitModulo(e, g) ==
    IF IsPow2(e.args[2]) THEN Masked(e, Known(EmitExpr(e.args[1], g, "Int"))) ELSE EmitArithmetic(e, g)

ElementKind(kind) == IF kind = "ListFloat" THEN "Float" ELSE "Int"
WithItem(c, list, kind) ==
    LET d == IF kind = "ListFloat" /\ c.kind # "Float" THEN Put(c.g, Op("cast", "Float", <<c.val>>), "Float")
             ELSE c
    IN  Emit(d.g, Do(Op("append", kind, <<list, d.val>>)))
EmitItems(es, g, list, kind) ==
    IF es = <<>> \/ ~g.ok THEN g
    ELSE EmitItems(Tail(es), WithItem(EmitExpr(Head(es), g, ElementKind(kind)), list, kind), list, kind)

\* Mutant: the list is created for ints, whatever its elements.
BadEmitList(es, g) ==
    LET new == Put(g, Op("new", "ListInt", <<>>), "ListInt")
    IN  Code(EmitItems(es, new.g, new.val, ListKind(es)), new.val, ListKind(es))
EmitList(es, g) ==
    LET kind == ListKind(es)
        new == Put(g, Op("new", kind, <<>>), kind)
    IN  Code(EmitItems(es, new.g, new.val, kind), new.val, kind)

Indexed(base, at) ==
    IF base.kind \notin Lists \/ at.kind \notin {"Int", "Bool"} THEN Nothing(at.g)
    ELSE Put(at.g, Op("get", base.kind, <<base.val, at.val>>), ElementKind(base.kind))
IndexWith(base, e) == Indexed(base, EmitExpr(e, base.g, "Int"))
EmitIndex(e, g) == IndexWith(EmitExpr(e.args[1], g, "None"), e.args[2])

\* A call of a function of the program.
Called(e, want, args) ==
    LET sig == args.g.sigs[e.v]
        wanted(i) == sig.params[i]
        kindOf(i) == IF args.kinds[i] = "Unknown" THEN "Int" ELSE args.kinds[i]
        fits(i) == \/ wanted(i) \in {"Unknown", kindOf(i)}
                   \/ wanted(i) = "Float" /\ kindOf(i) = "Int"
        h == [args.g EXCEPT !.sigs[e.v].params =
                [i \in DOMAIN @ |-> IF @[i] = "Unknown" THEN kindOf(i) ELSE @[i]]]
        rhs == Node("call", "", e.v, args.vals)
    IN  IF Len(args.vals) # Len(sig.params) \/ \E i \in DOMAIN args.kinds : ~fits(i) THEN Nothing(args.g)
        ELSE IF sig.ret = "Void"
        THEN IF want = "None" THEN Code(Emit(h, Do(rhs)), Absent, "Void") ELSE Nothing(h)
        ELSE Put(h, rhs, IF sig.ret = "Unknown" THEN "Int" ELSE sig.ret)
EmitCall(e, g, want) == Called(e, want, EmitArgs(e.args, [g |-> g, vals |-> <<>>, kinds |-> <<>>]))

WithArg(done, c) == [g |-> c.g, vals |-> Append(done.vals, c.val), kinds |-> Append(done.kinds, c.kind)]
EmitArgs(es, done) ==
    IF es = <<>> THEN done ELSE EmitArgs(Tail(es), WithArg(done, EmitExpr(Head(es), done.g, "None")))

EmitVariable(x, g, want) ==
    LET known == g.kinds[x]
        kind == IF known # "Unknown" THEN known ELSE IF want \in {"Float", "Bool"} THEN want ELSE "Int"
    IN  IF known = "Invalid" THEN Nothing(g) ELSE Code(SetKind(g, x, kind), Reg(x), kind)

EmitNumber(e, g, want) ==
    LET kind == IF want \in {"Int", "Float"} THEN want ELSE e.kind
    IN  Put(g, Lit(kind, IF kind = "Int" THEN Truncated(e.v) ELSE e.v), kind)

Negated(c) ==
    IF c.kind \notin {"Int", "Float"} THEN Nothing(c.g) ELSE Put(c.g, Op("neg", c.kind, <<c.val>>), c.kind)
EmitNegation(e, g, want) == Negated(EmitExpr(e.args[1], g, IF want = "Float" THEN "Float" ELSE "Int"))
PutOp(op, kind, c) == Put(c.g, Op(op, kind, <<c.val>>), kind)

EmitExpr(e, g, want) ==
    CASE g.done -> Nothing(g)
      [] e.op = "num" -> EmitNumber(e, g, want)
      [] e.op = "var" -> EmitVariable(e.v, g, want)
      [] e.op = "neg" -> EmitNegation(e, g, want)
      [] e.op = "not" -> PutOp("not", "Bool", EnsureBool(EmitExpr(e.args[1], g, "Bool")))
      [] e.op \in {"and", "or"} -> EmitLogical(e, g)
      [] e.op \in Comparisons -> EmitComparison(e, g)
      [] e.op = "mod" -> EmitModulo(e, g)
      [] e.op \in Arithmetic \ {"mod"} -> EmitArithmetic(e, g)
      [] e.op = "list" -> EmitList(e.args, g)
      [] e.op = "index" -> EmitIndex(e, g)
      [] e.op = "len" -> PutOp("len", "Int", EmitExpr(e.args[1], g, "None"))
      [] e.op = "call" -> EmitCall(e, g, want)

-----------------------------------------------------------------------------
(* Statements. *)

RECURSIVE EmitBlock(_, _), EmitBranches(_, _, _, _)

HasValue(c) == c.kind \notin {"Invalid", "Void"}

AssignTo(s, c) ==
    LET h == SetKind(c.g, s.x, IF c.kind = "Unknown" THEN "Int" ELSE c.kind)
    IN  IF ~HasValue(c) THEN Reject(c.g) ELSE Emit(DeclareIfNeeded(h, s.x, h.kinds[s.x]), SetTo(s.x, c.val))
EmitAssign(s, g) == AssignTo(s, EmitExpr(s.es[1], g, "None"))

\* a list cell: emit_indexed_assignment
PutCell(s, kind, c, at) ==
    LET d == IF kind = "ListInt" THEN Cast([c EXCEPT !.g = at.g], "Float", "Int")
             ELSE Cast([c EXCEPT !.g = at.g], "Int", "Float")
    IN  IF c.kind \notin {"Int", "Float", "Bool"} \/ kind \notin Lists \/ at.kind \notin {"Int", "Bool"}
        THEN Reject(at.g)
        ELSE Emit(d.g, Do(Op("put", kind, <<Reg(s.x), at.val, d.val>>)))
CellWith(s, kind, c) == PutCell(s, kind, c, EmitExpr(s.es[1], c.g, "Int"))
EmitSetIndex(s, g) == CellWith(s, g.kinds[s.x], EmitExpr(s.es[2], g, "None"))

ToElement(kind, c) == IF kind = "ListFloat" THEN Cast(c, "Int", "Float") ELSE Cast(c, "Float", "Int")

\* the methods of a list
MethodOn(s, op, kind, before, item) == Emit(item.g, Do(Op(op, kind, <<Reg(s.x)>> \o before \o <<item.val>>)))
EmitInsertAt(s, kind, at) == MethodOn(s, "insert", kind, <<at.val>>, ToElement(kind, EmitExpr(s.es[2], at.g, "None")))
PopAt(s, kind, at) == Put(at.g, Op("pop", kind, <<Reg(s.x), at.val>>), "Int").g
EmitMethod(s, g) ==
    LET kind == g.kinds[s.x]
        op == IF s.op = "append" /\ s.x \in g.unchecked THEN "append_raw" ELSE s.op
    IN  CASE kind \notin Lists -> Reject(g)
          [] kind \in Lists /\ s.op = "pop" -> PopAt(s, kind, EmitExpr(s.es[1], g, "Int"))
          [] kind \in Lists /\ s.op = "insert" -> EmitInsertAt(s, kind, EmitExpr(s.es[1], g, "Int"))
          [] OTHER -> MethodOn(s, op, kind, <<>>, ToElement(kind, EmitExpr(s.es[1], g, "None")))

PrintOf(c) == IF HasValue(c) THEN Emit(c.g, Do(Op("print", "", <<c.val>>))) ELSE c.g
EmitPrint(s, g) == PrintOf(EmitExpr(s.es[1], g, "None"))

ReturnOf(c) ==
    LET kind == IF c.kind = "Unknown" THEN "Int" ELSE c.kind
    IN  IF ~HasValue(c) THEN Reject(c.g)
        ELSE Emit([c.g EXCEPT !.done = TRUE, !.rets = Append(@, kind)], Ret(c.val))
EmitReturn(s, g) == ReturnOf(EmitExpr(s.es[1], g, "None"))

\* A test of a condition, and the label behind it.
TestFor(c, yes, no) == EmitAll(c.g, <<BrIf(c.val, yes, no), LabelAt(yes)>>)

\* A branch that was emitted behind head is joined with what is known there.  It
\* has worked on a copy of the context, of which only the kinds are merged: the
\* results it returns do not count for the function.
Joined(branch, head, end, more, returns) ==
    LET joined == [branch EXCEPT !.kinds = MergeScopes(head.kinds, @), !.rets = head.rets, !.done = FALSE]
        left == IF branch.done THEN joined ELSE Emit(joined, Goto(end))
    IN  [g |-> EmitAll(left, more), returns |-> returns /\ branch.done]
BranchFrom(s, i, labels, returns, head) ==
    Joined(EmitBlock(s.bodies[i], head), head, labels,
           IF i < Len(s.es) THEN <<LabelAt(labels + 2 * i + 1)>> ELSE <<>>, returns)

\* The branches of an if, from the i-th on: acc is the state so far and
\* whether every path so far returns.
EmitBranches(s, i, labels, acc) ==
    LET tests == Len(s.es)
        elseLabel == IF Len(s.bodies) > tests THEN labels + 2 * tests + 1 ELSE labels
        falseLabel == IF i < tests THEN labels + 2 * i + 1 ELSE elseLabel
        head == IF i > tests THEN Emit(acc.g, LabelAt(elseLabel))
                ELSE TestFor(EnsureBool(EmitExpr(s.es[i], acc.g, "None")), labels + 2 * i, falseLabel)
    IN  IF i > Len(s.bodies) THEN acc
        ELSE EmitBranches(s, i + 1, labels, BranchFrom(s, i, labels, acc.returns, head))

AfterIf(acc, end) == [Emit(acc.g, LabelAt(end)) EXCEPT !.done = acc.returns]
EmitIf(s, g) ==
    LET labels == NextLabel(g, 0)
        fresh == WithLabels(g, Len(s.es) * 2 + 1 + (IF Len(s.bodies) > Len(s.es) THEN 1 ELSE 0))
    IN  AfterIf(EmitBranches(s, 1, labels, [g |-> Emit(fresh, LabelAt(labels + 1)), returns |-> TRUE]), labels)

\* while i < n, with a step of one: i, or 0 when the loop has another shape.
CountedBy(s) ==
    LET e == s.es[1]
        x == e.args[1].v
        unit(b) == b.op = "assign" /\ b.x = x
                   /\ b.es[1] \in {Bin("add", Var(x), Whole(1)), Bin("add", Whole(1), Var(x))}
    IN  IF /\ e.op = "lt" /\ e.args[1].op = "var" /\ e.args[2].op \in {"var", "num"}
           /\ \E k \in DOMAIN s.bodies[1] : unit(s.bodies[1][k])
        THEN x ELSE 0

\* detect_numeric_repeat_pattern: the body is the step and one x = x op rhs.
IsRepeat(s) ==
    LET i == CountedBy(s)
        body == s.bodies[1]
        bound == s.es[1].args[2]
        update(b) == /\ b.op = "assign" /\ b.x # i /\ b.es[1].op \in Arithmetic
                     /\ b.es[1].args[1] = Var(b.x)
                     /\ b.es[1].args[2].op \in {"var", "num"}
                     /\ b.es[1].args[2] \notin {Var(i), Var(b.x)}
                     /\ bound # Var(b.x)
    IN  /\ i # 0 /\ Len(body) = 2
        /\ \E k \in 1..2 : update(body[k]) /\ body[3 - k].op = "assign" /\ body[3 - k].x = i

\* A float that is updated by the same operation n times: one call.
RepeatCall(update, i, rhs, bound) ==
    LET turns == Put(bound.g, Op("sub", "Int", <<bound.val, Reg(i)>>), "Int")
        positive == Put(turns.g, Op("gt", "Int", <<turns.val, Lit("Int", 0)>>), "Bool")
        l == NextLabel(positive.g, 0)
        call == Node("repeat", update.es[1].op, 0, <<Reg(update.x), rhs.val, turns.val>>)
    IN  EmitAll(WithLabels(positive.g, 2),
                <<BrIf(positive.val, l, l + 1), LabelAt(l), SetTo(update.x, call),
                  SetTo(i, bound.val), Goto(l + 1), LabelAt(l + 1)>>)
RepeatTo(s, update, rhs) ==
    RepeatCall(update, CountedBy(s), rhs, Cast(EmitExpr(s.es[1].args[2], rhs.g, "None"), "Float", "Int"))
EmitRepeat(s, g) ==
    LET update == CHOOSE b \in {s.bodies[1][1], s.bodies[1][2]} : b.x # CountedBy(s)
    IN  RepeatTo(s, update, EmitExpr(update.es[1].args[2], g, "None"))

\* The list that the body of a counted loop appends to, when it is one list.
AppendTarget(s) ==
    LET body == s.bodies[1]
        lists == {body[k].x : k \in {j \in DOMAIN body : body[j].op = "append"}}
    IN  IF CountedBy(s) # 0 /\ \E x \in lists : lists = {x} THEN CHOOSE x \in lists : TRUE ELSE 0

\* Mutant: the appends of the loop are taken for reserved, and are not.
BadEmitReserve(s, g) == [g EXCEPT !.unchecked = @ \cup {AppendTarget(s)}]
ReserveFor(x, kind, c) ==
    IF c.kind \in {"Int", "Bool", "Unknown"}
    THEN [Emit(c.g, Do(Op("reserve", kind, <<Reg(x), c.val>>))) EXCEPT !.unchecked = @ \cup {x}]
    ELSE c.g
EmitReserve(s, g) ==
    LET x == AppendTarget(s)
    IN  IF x = 0 THEN g
        ELSE IF g.kinds[x] \notin Lists THEN g
        ELSE ReserveFor(x, g.kinds[x], EmitExpr(s.es[1].args[2], g, "None"))

\* Mutant: the step of a loop comes behind the jump to its top.
BadCloseLoop(body, last, l) ==
    Emit(IF body.done THEN body ELSE EmitAll(body, <<Goto(l)>> \o last), LabelAt(l + 2))
\* The body ends with a jump to the top, unless it has terminated.
CloseLoop(body, last, l) == Emit(IF body.done THEN body ELSE EmitAll(body, last \o <<Goto(l)>>), LabelAt(l + 2))
LoopFrom(s, g, unchecked) ==
    LET l == NextLabel(g, 0)
        top == EmitAll(WithLabels(g, 3), <<Goto(l), LabelAt(l)>>)
        test == TestFor(EnsureBool(EmitExpr(s.es[1], top, "None")), l + 1, l + 2)
    IN  CloseLoop([EmitBlock(s.bodies[1], test) EXCEPT !.unchecked = unchecked], <<>>, l)
EmitWhile(s, g) ==
    IF IsRepeat(s) /\ \E b \in {s.bodies[1][1], s.bodies[1][2]} :
                          b.x # CountedBy(s) /\ g.kinds[b.x] = "Float"
    THEN EmitRepeat(s, g)
    ELSE LoopFrom(s, EmitReserve(s, g), g.unchecked)

\* The loop that for statements end up as: x is set by the caller at the top
\* of a turn, and counter is advanced by step.
EmitLoop(s, g, counter, stop, step, first) ==
    LET l == NextLabel(g, 0)
        top == EmitAll(WithLabels(g, 3), <<Goto(l), LabelAt(l)>>)
        c == Put(top, Op(IF step > 0 THEN "lt" ELSE "gt", "Int", <<Reg(counter), stop>>), "Bool")
        next == SetTo(counter, Op("add", "Int", <<Reg(counter), Lit("Int", step)>>))
    IN  CloseLoop(EmitBlock(s.bodies[1], EmitAll(TestFor(c, l + 1, l + 2), first)), <<next>>, l)

\* for x in range(start, stop, step), the step a literal
RangeLoop(s, start, stop) ==
    LET step == s.es[3].v
        h == SetKind(DeclareIfNeeded(stop.g, s.x, "Int"), s.x, "Int")
    IN  IF start.kind # "Int" \/ stop.kind # "Int" \/ s.es[3].op # "num" \/ step = 0 THEN Reject(stop.g)
        ELSE EmitLoop(s, Emit(h, SetTo(s.x, start.val)), s.x, stop.val, step, <<>>)
RangeTo(s, start) == RangeLoop(s, start, Known(EmitExpr(s.es[2], start.g, "Int")))
EmitRange(s, g) == RangeTo(s, Known(EmitExpr(s.es[1], g, "Int")))

\* for x in list: the list and its length are read once.
ListLoop(s, c) ==
    LET elem == IF c.kind = "ListFloat" THEN "Float" ELSE "Int"
        h == SetKind(DeclareIfNeeded(c.g, s.x, elem), s.x, elem)
        list == NextTemp(h)
        setup == EmitAll([h EXCEPT !.temps = @ + 3],
                    <<Decl(list, c.kind), SetTo(list, c.val),
                      SetTo(list + 1, Op("len", "Int", <<Reg(list)>>)), SetTo(list + 2, Lit("Int", 0))>>)
    IN  IF c.kind \notin Lists THEN Reject(c.g)
        ELSE EmitLoop(s, setup, list + 2, Reg(list + 1), 2,
                      <<SetTo(s.x, Op("get", c.kind, <<Reg(list), Reg(list + 2)>>))>>)
EmitForList(s, g) == ListLoop(s, EmitExpr(s.es[1], g, "None"))

EmitStmt(s, g) ==
    CASE s.op = "assign" -> EmitAssign(s, g)
      [] s.op = "set" -> EmitSetIndex(s, g)
      [] s.op \in {"append", "insert", "pop", "remove"} -> EmitMethod(s, g)
      [] s.op = "print" -> EmitPrint(s, g)
      [] s.op = "return" -> EmitReturn(s, g)
      [] s.op = "if" -> EmitIf(s, g)
      [] s.op = "while" -> EmitWhile(s, g)
      [] s.op = "range" -> EmitRange(s, g)
      [] s.op = "for" -> EmitForList(s, g)
      [] s.op \in {"break", "continue"} -> Reject(g)

\* compile_block: nothing is emitted behind a return.
EmitBlock(body, g) ==
    IF body = <<>> \/ g.done \/ ~g.ok THEN g ELSE EmitBlock(Tail(body), EmitStmt(Head(body), g))

-----------------------------------------------------------------------------
(* Functions. *)

DefaultReturn(kind) ==
    Ret(IF kind \in {"Int", "Float", "Bool"} THEN Lit(kind, 0) ELSE Absent)

Entering(g, kinds) == [g EXCEPT !.code = <<>>, !.kinds = kinds, !.done = FALSE, !.rets = <<>>]

\* A function gets its return, unless it has terminated.
Ended(g, ret) == IF g.done THEN g ELSE Emit(g, ret)
Made(g, params, kinds, ret) ==
    [g EXCEPT !.made = Append(@, [params |-> params, kinds |-> kinds, ret |-> ret, code |-> g.code])]
WithReturn(g, i) == [g EXCEPT !.sigs[i].ret = FinalizeReturn(g.rets)]

EmitFunction(fns, i, g) ==
    LET f == fns[i]
        sig == g.sigs[i]
        kind(x) == sig.params[f.params[x]]
        kinds == [x \in Names |-> IF x \notin DOMAIN f.params THEN "Invalid"
                                  ELSE IF kind(x) = "Unknown" THEN "Int" ELSE kind(x)]
        full == Ended(EmitBlock(f.body, Entering(g, kinds)), DefaultReturn(sig.ret))
    IN  WithReturn(Made(full, f.params, kinds, sig.ret), i)

EmitMain(body, g) == Made(Ended(EmitBlock(body, Entering(g, NoKinds)), Ret(Lit("Int", 0))), <<>>, NoKinds, "Int")

RECURSIVE EmitFunctions(_, _, _)
EmitFunctions(fns, i, g) ==
    IF i > Len(fns) \/ ~g.ok THEN g ELSE EmitFunctions(fns, i + 1, EmitFunction(fns, i, g))

\* The functions of the program in order, main last.
Generate(program) ==
    LET fresh == [code |-> <<>>, temps |-> 0, labels |-> 1, kinds |-> NoKinds, done |-> FALSE,
                  ok |-> TRUE, sigs |-> InferTopLevel(program), rets |-> <<>>, unchecked |-> {},
                  made |-> <<>>]
    IN  EmitMain(program.main, EmitFunctions(program.fns, 1, fresh))
=============================================================================
