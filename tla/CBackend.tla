------------------------------- MODULE CBackend -------------------------------
(***************************************************************************)
(* IRToCGenerator and the program it writes.  The instructions of each     *)
(* function are turned into C: a local variable gets the type of the first *)
(* line that mentions it, temporaries that are used once are substituted   *)
(* into their use, and labels and jumps without a use are dropped.  The    *)
(* specification below runs the C program, with the lists of its runtime,  *)
(* on one program of Programs.                                             *)
(***************************************************************************)
EXTENDS Codegen

CONSTANT Programs       \* a sequence of programs

VARIABLES
    source,     \* the program that was compiled: an index of Programs
    binary,     \* its C functions, main last
    meaning,    \* what the interpreter prints
    stack,      \* the frames of the C functions that are running, innermost last
    heap,       \* the lists: capacity and cells
    out,        \* what was printed
    status      \* "run", "done", or "undefined" once the behaviour of the C is undefined

vars == <<source, binary, meaning, stack, heap, out, status>>

-----------------------------------------------------------------------------
(* The C text. *)

IsTemp(r) == r >= FirstTemp
ElementOf(kind) == IF kind = "ListFloat" THEN "Float" ELSE "Int"

\* parse_pseudo_expression: the type of a right-hand side.  A runtime function
\* that returns a scalar is no function of the program: it counts as i64.
TypeOf(rhs, types, rets) ==
    CASE rhs.op = "num" -> rhs.kind
      [] rhs.op = "reg" -> types[rhs.v]
      [] rhs.op = "new" -> rhs.kind
      [] rhs.op \in Comparisons \cup {"and", "or", "not"} -> "Bool"
      [] rhs.op \in {"len", "get", "pop", "mod_pow2", "repeat"} -> "Int"
      [] rhs.op = "call" -> rets[rhs.v]
      [] OTHER -> rhs.kind

\* register_local: the first line that mentions a register gives its type.
RECURSIVE LocalTypes(_, _, _, _)
LocalTypes(code, i, types, rets) ==
    IF i > Len(code) THEN types
    ELSE IF code[i].op \notin {"set", "var"} \/ code[i].dst \in DOMAIN types
    THEN LocalTypes(code, i + 1, types, rets)
    ELSE LocalTypes(code, i + 1, (code[i].dst :> TypeOf(code[i].rhs, types, rets)) @@ types, rets)
Given(params) == [x \in {y \in DOMAIN params : params[y] # "Invalid"} |-> params[x]]

\* A right-hand side that is the call of a C function.
IsCall(rhs) ==
    \/ rhs.op \in {"new", "len", "get", "pop", "mod_pow2", "repeat", "call"}
    \/ rhs.op \in Arithmetic /\ rhs.kind = "Float"

Blank == Instr("blank", 0, Absent, 0, 0)

RECURSIVE Uses(_, _), Replaced(_, _, _), Inlined(_)

\* How often an expression mentions a register, and the register replaced.
Uses(e, r) ==
    IF e.op = "reg" THEN (IF e.v = r THEN 1 ELSE 0)
    ELSE CASE e.args = <<>> -> 0
           [] Len(e.args) = 1 -> Uses(e.args[1], r)
           [] OTHER -> Uses(Head(e.args), r) + Uses([e EXCEPT !.args = Tail(@)], r)
Replaced(e, r, by) ==
    IF e.op = "reg" THEN (IF e.v = r THEN by ELSE e)
    ELSE [e EXCEPT !.args = [k \in DOMAIN @ |-> Replaced(@[k], r, by)]]

Unused(code, i, r) == \A k \in i..Len(code) : Uses(code[k].rhs, r) = 0
UsedOnce(code, r) ==
    \E i \in DOMAIN code : Uses(code[i].rhs, r) = 1
                           /\ \A k \in DOMAIN code \ {i} : Uses(code[k].rhs, r) = 0

\* An assignment directly before the only branch that reads it.
Fuse(code) ==
    LET fused(i) == /\ i < Len(code) /\ code[i].op = "set" /\ code[i + 1].op = "br"
                    /\ code[i + 1].rhs = Reg(code[i].dst) /\ code[i].rhs.op # "call"
                    /\ Unused(code, i + 2, code[i].dst)
    IN  [i \in DOMAIN code |->
            IF fused(i) THEN Blank
            ELSE IF i > 1 /\ fused(i - 1) THEN [code[i] EXCEPT !.rhs = code[i - 1].rhs]
            ELSE code[i]]

\* canonicalize_c_lines: the first temporary that is used once, in whatever
\* line, is replaced there; the search then starts again.
Inlined(code) ==
    LET once == {i \in DOMAIN code : /\ code[i].op = "set" /\ IsTemp(code[i].dst)
                                     /\ ~IsCall(code[i].rhs) /\ UsedOnce(code, code[i].dst)}
        i == CHOOSE j \in once : \A k \in once : j <= k
    IN  IF once = {} THEN code
        ELSE Inlined([k \in DOMAIN code |->
                        IF k = i THEN Blank
                        ELSE [code[k] EXCEPT !.rhs = Replaced(@, code[i].dst, code[i].rhs)]])

ReferencedLabels(code) ==
    UNION {IF code[i].op \in {"br", "goto"} THEN {code[i].yes, code[i].no} ELSE {} : i \in DOMAIN code}

\* Jumps to the next line and labels without a jump are dropped.
Pruned(code) ==
    LET keeps(i) == CASE code[i].op \in {"blank", "var"} -> FALSE
                      [] code[i].op = "goto" ->
                            ~(i < Len(code) /\ code[i + 1] = LabelAt(code[i].yes))
                      [] code[i].op = "label" -> code[i].yes \in ReferencedLabels(code)
                      [] OTHER -> TRUE
        kept == SelectSeq([i \in DOMAIN code |-> i], keeps)
    IN  [k \in DOMAIN kept |-> code[kept[k]]]

\* The functions in C: the return type is the one in the header of the IR.
Translate(made) ==
    LET rets == [i \in DOMAIN made |-> IF made[i].ret = "Unknown" THEN "Int" ELSE made[i].ret]
    IN  [i \in DOMAIN made |->
            [params |-> made[i].params, ret |-> rets[i],
             types |-> LocalTypes(made[i].code, 1, Given(made[i].kinds), rets),
             lines |-> Pruned(Inlined(Fuse(made[i].code)))]]

\* A program with a diagnostic is rejected, and a local of type void by the C compiler.
WellTyped(fns) == \A i \in DOMAIN fns : \A r \in DOMAIN fns[i].types : fns[i].types[r] # "Void"
Built(fns) == IF WellTyped(fns) THEN fns ELSE <<>>
Accepted(g) == IF g.ok THEN Built(Translate(g.made)) ELSE <<>>
Compile(program) == Accepted(Generate(program))

-----------------------------------------------------------------------------
(* The C runtime. *)

\* The conversion of a number to a C type.
Convert(kind, h) ==
    CASE kind = "Int" -> Truncated(h) [] kind = "Bool" -> IF h = 0 THEN 0 ELSE 2 [] OTHER -> h

RECURSIVE CValue(_, _), Doubled(_, _), Repeated(_, _, _, _)

\* A pure expression in a frame.  The power of two is a mask on the magnitude.
CValue(e, mem) ==
    LET arg(i) == CValue(e.args[i], mem)
        bit(b) == IF b THEN 2 ELSE 0
    IN  CASE e.op = "num" -> e.v
          [] e.op = "reg" -> mem[e.v]
          [] e.op = "cast" -> Convert(e.kind, arg(1))
          [] e.op = "neg" -> -arg(1)
          [] e.op = "not" -> bit(arg(1) = 0)
          [] e.op = "and" -> bit(arg(1) # 0 /\ arg(2) # 0)
          [] e.op = "or" -> bit(arg(1) # 0 \/ arg(2) # 0)
          [] e.op \in Comparisons -> bit(Compare(e.op, arg(1), arg(2)))
          [] e.op = "mod_pow2" ->
                IF arg(1) < 0 THEN -((-arg(1)) % (e.v + 2)) ELSE arg(1) % (e.v + 2)
          [] e.op \in {"div", "mod"} /\ arg(2) = 0 -> 0
          [] OTHER -> Compute(e.op, arg(1), arg(2))

\* __spark_num_repeat_*: stops early at a fixed point.
Repeated(op, a, b, n) ==
    IF n <= 0 THEN a
    ELSE LET next == IF op \in {"div", "mod"} /\ b = 0 THEN 0 ELSE Compute(op, a, b)
         IN  IF next = a THEN a ELSE Repeated(op, next, b, n - 1)

\* __spark_list_ensure
Doubled(cap, n) == IF cap >= n THEN cap ELSE Doubled(2 * cap, n)
Ensured(l, n) ==
    IF n <= l.cap THEN l ELSE [l EXCEPT !.cap = Doubled(IF l.cap > 0 THEN l.cap ELSE 4, n)]

\* An index from the end, then held inside the list.
Position(i, n, high) == Clamped(IF i < 0 THEN i + n ELSE i, 0, high)

\* What a runtime function does with a list and the numbers it is given.
AfterOp(op, l, args) ==
    LET n == Len(l.cells)
        i == args[1] \div 2
        at == {k \in 1..n : l.cells[k] = args[1]}
        cell(h) == Convert(ElementOf(l.kind), h)
        store(m, s) == [m EXCEPT !.cells = s]
    IN  CASE op = "append" -> store(Ensured(l, n + 1), Append(l.cells, cell(args[1])))
          [] op = "append_raw" -> store(l, Append(l.cells, cell(args[1])))
          [] op = "reserve" -> Ensured(l, i)
          [] op = "put" -> store(l, [l.cells EXCEPT ![i + 1] = cell(args[2])])
          [] op = "pop" ->
                IF n = 0 THEN l ELSE store(l, Without(l.cells, Position(i, n, n - 1) + 1))
          [] op = "insert" ->
                LET k == Position(i, n, n)
                IN  store(Ensured(l, n + 1),
                          SubSeq(l.cells, 1, k) \o <<cell(args[2])>> \o SubSeq(l.cells, k + 1, n))
          [] op = "remove" ->
                IF at = {} THEN l ELSE store(l, Without(l.cells, CHOOSE k \in at : \A j \in at : k <= j))

\* No bound is checked when a cell is read or written, and append_unchecked
\* takes the capacity for granted.
Strays(op, l, args) ==
    \/ op \in {"get", "put"} /\ args[1] \div 2 \notin 0..Len(l.cells) - 1
    \/ op = "append_raw" /\ Len(l.cells) >= l.cap

ReadOf(op, l, args) ==
    LET n == Len(l.cells)
        i == args[1] \div 2
    IN  CASE op = "len" -> 2 * n
          [] op = "get" -> l.cells[i + 1]
          [] op = "pop" -> IF n = 0 THEN 0 ELSE l.cells[Position(i, n, n - 1) + 1]

-----------------------------------------------------------------------------
(* Running the program. *)

Top == stack[Len(stack)]
Fn == binary[Top.fn]
Line == Fn.lines[Top.pc]
AtEnd == Top.pc > Len(Fn.lines)
Val(e) == CValue(e, Top.mem)
LineOf(l) == CHOOSE i \in DOMAIN Fn.lines : Fn.lines[i] = LabelAt(l)

Frame(f, args) ==
    LET fn == binary[f]
    IN  [fn |-> f, pc |-> 1, dst |-> 0,
         mem |-> [r \in DOMAIN fn.types |->
                    IF r \in DOMAIN fn.params THEN Convert(fn.types[r], args[fn.params[r]]) ELSE 0]]

ListOps == {"len", "get", "pop", "append", "append_raw", "insert", "remove", "put", "reserve"}

Advance(top) == [stack EXCEPT ![Len(stack)] = top]
Store(top, r, h) == [top EXCEPT !.mem[r] = Convert(Fn.types[r], h), !.pc = @ + 1]

\* A program that is accepted and that the interpreter runs without an error.
Init ==
    /\ source \in DOMAIN Programs
    /\ binary = Compile(Programs[source]) /\ binary # <<>>
    /\ LET end == Run(Programs[source]) IN end.signal = "go" /\ meaning = end.out
    /\ stack = <<Frame(Len(binary), <<>>)>>
    /\ heap = <<>>
    /\ out = <<>>
    /\ status = "run"

Running(op) == status = "run" /\ ~AtEnd /\ Line.op = op

\* An assignment whose right-hand side touches no list and calls nothing.
Assigns ==
    /\ Running("set") /\ Line.rhs.op \notin ListOps \cup {"new", "call"}
    /\ LET rhs == Line.rhs
           h == IF rhs.op = "repeat"
                THEN Repeated(rhs.kind, Val(rhs.args[1]), Val(rhs.args[2]), Val(rhs.args[3]) \div 2)
                ELSE Val(rhs)
       IN  stack' = Advance(Store(Top, Line.dst, h))
    /\ UNCHANGED <<source, binary, meaning, heap, out, status>>

NewList ==
    /\ Running("set") /\ Line.rhs.op = "new"
    /\ heap' = Append(heap, [kind |-> Line.rhs.kind, cap |-> 0, cells |-> <<>>])
    /\ stack' = Advance(Store(Top, Line.dst, Len(heap) + 1))
    /\ UNCHANGED <<source, binary, meaning, out, status>>

\* A runtime function on a list, with or without a result.
ListStep ==
    /\ status = "run" /\ ~AtEnd /\ Line.op \in {"set", "do"} /\ Line.rhs.op \in ListOps
    /\ LET op == Line.rhs.op
           at == Val(Line.rhs.args[1])
           l == heap[at]
           args == [k \in 1..Len(Line.rhs.args) - 1 |-> Val(Line.rhs.args[k + 1])]
       IN  IF Strays(op, l, args)
           THEN status' = "undefined" /\ UNCHANGED <<stack, heap>>
           ELSE /\ heap' = IF op \in {"len", "get"} THEN heap ELSE [heap EXCEPT ![at] = AfterOp(op, l, args)]
                /\ stack' = Advance(IF Line.op = "set" THEN Store(Top, Line.dst, ReadOf(op, l, args))
                                    ELSE [Top EXCEPT !.pc = @ + 1])
                /\ UNCHANGED status
    /\ UNCHANGED <<source, binary, meaning, out>>

Prints ==
    /\ Running("do") /\ Line.rhs.op = "print"
    /\ out' = Append(out, Val(Line.rhs.args[1]))
    /\ stack' = Advance([Top EXCEPT !.pc = @ + 1])
    /\ UNCHANGED <<source, binary, meaning, heap, status>>

Calls ==
    /\ status = "run" /\ ~AtEnd /\ Line.op \in {"set", "do"} /\ Line.rhs.op = "call"
    /\ stack' = Append(Advance([Top EXCEPT !.dst = Line.dst]),
                       Frame(Line.rhs.v, [k \in DOMAIN Line.rhs.args |-> Val(Line.rhs.args[k])]))
    /\ UNCHANGED <<source, binary, meaning, heap, out, status>>

Branches ==
    /\ Running("br")
    /\ stack' = Advance([Top EXCEPT !.pc = LineOf(IF Val(Line.rhs) # 0 THEN Line.yes ELSE Line.no)])
    /\ UNCHANGED <<source, binary, meaning, heap, out, status>>

Jumps ==
    /\ status = "run" /\ ~AtEnd /\ Line.op \in {"goto", "label"}
    /\ stack' = Advance([Top EXCEPT !.pc = IF Line.op = "goto" THEN LineOf(Line.yes) ELSE @ + 1])
    /\ UNCHANGED <<source, binary, meaning, heap, out, status>>

\* A function is left by a return statement or at its end.  A caller that uses
\* the result of a function that came to its end reads an unspecified value; main
\* has a result then, too.
Leaves ==
    /\ status = "run" /\ (~AtEnd => Line.op = "ret")
    /\ IF Len(stack) = 1 THEN status' = "done" /\ UNCHANGED stack
       ELSE LET caller == stack[Len(stack) - 1]
                types == binary[caller.fn].types
                h == IF AtEnd \/ Line.rhs = Absent THEN 0 ELSE Convert(Fn.ret, Val(Line.rhs))
                back == IF caller.dst = 0 THEN [caller EXCEPT !.pc = @ + 1]
                        ELSE [caller EXCEPT !.mem[caller.dst] = Convert(types[caller.dst], h), !.pc = @ + 1]
            IN  IF AtEnd /\ caller.dst # 0 THEN status' = "undefined" /\ UNCHANGED stack
                ELSE stack' = Append(SubSeq(stack, 1, Len(stack) - 2), back) /\ UNCHANGED status
    /\ UNCHANGED <<source, binary, meaning, heap, out>>

Next == \/ Assigns \/ NewList \/ ListStep \/ Prints \/ Calls \/ Branches \/ Jumps \/ Leaves

Spec == Init /\ [][Next]_vars /\ WF_vars(Next)

-----------------------------------------------------------------------------
(* Properties. *)

\* The registers hold what their C types say: an i64 has no fraction, and a
\* pointer to a list of ints or floats points to a list of that kind, or has not
\* been assigned (register_local, emit_list_expression, emit_function_call).
RegistersTyped ==
    \A k \in DOMAIN stack :
        LET frame == stack[k]
            types == binary[frame.fn].types
        IN  \A r \in DOMAIN frame.mem :
                /\ types[r] = "Int" => frame.mem[r] = Truncated(frame.mem[r])
                /\ types[r] \in Lists => frame.mem[r] = 0 \/ heap[frame.mem[r]].kind = types[r]

\* Programs that are compiled to something else: the result of a function is
\* lost when it returns in branches of ifs only (emit_if_statement compiles them
\* on copies of the context), and what follows an if without else is dropped when
\* all its branches return.
EndsInReturn(body) == body # <<>> /\ body[Len(body)].op = "return"
ReturnsOutsideIf(body) ==
    \E k \in DOMAIN body :
        LET s == body[k]
        IN  \/ s.op = "return"
            \/ s.op \in {"while", "range", "for"}
               /\ \E j \in DOMAIN s.bodies[1] : s.bodies[1][j].op = "return"
DropsRest(body) ==
    \E k \in 1..Len(body) - 1 :
        LET s == body[k]
        IN  s.op = "if" /\ Len(s.bodies) = Len(s.es) /\ \A i \in DOMAIN s.bodies : EndsInReturn(s.bodies[i])
LosesRest(program) == \E i \in DOMAIN program.fns : DropsRest(program.fns[i].body)
LosesReturn(program) == \E i \in DOMAIN program.fns : ~ReturnsOutsideIf(program.fns[i].body)

\* A counted loop reserves a capacity of its limit: enough for one append in a
\* turn to a list that was empty, and for no other.
Outgrows(program) ==
    \E k \in DOMAIN program.main :
        LET s == program.main[k]
            appends == {j \in DOMAIN s.bodies[1] : s.bodies[1][j].op = "append"}
        IN  /\ s.op = "while" /\ AppendTarget(s) # 0
            /\ \/ Cardinality(appends) > 1
               \/ k = 1 \/ program.main[k - 1] # Assign(AppendTarget(s), ListOf(<<>>))

\* The compiled program never does what C leaves undefined: it touches no cell
\* outside a list, appends nothing behind the capacity that the loop reserved
\* for it, and no result is read of a function that ended without a return
\* (emit_while_statement and its unchecked appends, emit_function and its default
\* return).
NothingUndefined == status = "undefined" => Outgrows(Programs[source])

\* What is printed so far is what the interpreter prints first, and in the end
\* it is all of it: the compiled program means what the evaluator says.
PrintsWhatInterpreterPrints ==
    \/ IsPrefix(out, meaning) /\ (status = "done" => out = meaning)
    \/ source # 0 /\ (LosesReturn(Programs[source]) \/ LosesRest(Programs[source]))
=============================================================================
