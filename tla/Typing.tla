------------------------------- MODULE Typing -------------------------------
(***************************************************************************)
(* A program that is checked and run: the type checker of Semantic reads   *)
(* the next statement, and unless the program is rejected the interpreter  *)
(* runs it.  The whole program is checked before any of it runs; as the    *)
(* check does not depend on the run and a statement's check does not on    *)
(* the ones after it, the two may as well go statement by statement.       *)
(*                                                                         *)
(* Of a value only its kind is kept, of a list or a matrix that of each    *)
(* item; Int, Double and the sized numbers are one kind.  What depends on  *)
(* the numbers themselves is left open: which item an index finds, how     *)
(* often a loop turns, which branch is taken.  A statement whose numbers   *)
(* make it fail is not taken.  The indexes of an index expression are      *)
(* taken to change nothing.                                                *)
(***************************************************************************)
EXTENDS Semantic

CONSTANTS
    Programs,           \* the statements each program may consist of
    MaxItems,           \* bound: no list of a program is longer
    MostTurns           \* bound: no while loop turns more often

VARIABLES
    program,            \* which of Programs this one is, never changed
    checker,            \* the checker after the statements so far
    globals             \* the values of the global variables

typingVars == <<program, checker, globals>>

-----------------------------------------------------------------------------
\* Values.
Number == [k |-> "number"]
Text == [k |-> "string"]
Truth == [k |-> "bool"]
Nothing == [k |-> "nil"]
Failure == [k |-> "failure"]
Items(items) == [k |-> "list", items |-> items]
Grid(rows) == [k |-> "matrix", rows |-> rows]
\* A function reads its parameters only: it runs on a snapshot of the other names.
Closure(params, body) == [k |-> "function", params |-> params, body |-> body]
Opaque(k) == [k |-> k]                      \* a channel, a task, a task group

NumbersIn(items) == \A k \in DOMAIN items : items[k] = Number
Columns(m) == Len(m.rows[1])
NumbersOnly(v) ==
    CASE v.k = "list" -> NumbersIn(v.items)
      [] v.k = "matrix" -> \A k \in DOMAIN v.rows : NumbersIn(v.rows[k])
      [] OTHER -> v = Number
Mapped(items, F(_)) == [k \in DOMAIN items |-> F(items[k])]
Transposed(m) == Grid([l \in 1..Columns(m) |-> [k \in DOMAIN m.rows |-> m.rows[k][l]]])
MappedRows(m, F(_)) == Grid([k \in DOMAIN m.rows |-> Mapped(m.rows[k], F)])
FailsIn(items) == \E k \in DOMAIN items : items[k] = Failure
OrFailure(v) ==
    CASE v.k = "list" /\ FailsIn(v.items) -> Failure
      [] v.k = "matrix" /\ \E k \in DOMAIN v.rows : FailsIn(v.rows[k]) -> Failure
      [] OTHER -> v

\* Two cells of containers that hold more than numbers.
CellsCombined(op, left, right) ==
    CASE left = Number /\ right = Number -> Number
      [] op = "+" -> Text
      [] op = "*" /\ {left, right} = {Text, Number} -> Text
      [] OTHER -> Failure

\* A list, or a matrix, combined with something that is neither: + and * also take
\* what is no number, cell by cell.
NumbersNeeded(op, v, scalar) == op \notin {"+", "*"} /\ ~(scalar = Number /\ NumbersOnly(v))
CellWith(op, scalar, onLeft, c) ==
    IF onLeft THEN CellsCombined(op, c, scalar) ELSE CellsCombined(op, scalar, c)
ListWithScalar(op, v, scalar, onLeft) ==
    IF NumbersNeeded(op, v, scalar) THEN Failure
    ELSE OrFailure(Items(Mapped(v.items, LAMBDA c : CellWith(op, scalar, onLeft, c))))
MatrixWithScalar(op, v, scalar, onLeft) ==
    IF NumbersNeeded(op, v, scalar) THEN Failure
    ELSE OrFailure(MappedRows(v, LAMBDA c : CellWith(op, scalar, onLeft, c)))
WithScalar(op, v, scalar, onLeft) ==
    IF v.k = "list" THEN ListWithScalar(op, v, scalar, onLeft) ELSE MatrixWithScalar(op, v, scalar, onLeft)

ListsCombined(op, left, right) ==
    CASE op = "+" -> Items(left.items \o right.items)
      [] Len(left.items) # Len(right.items) -> Failure
      [] NumbersOnly(left) /\ NumbersOnly(right) -> left
      [] op # "*" -> Failure
      [] OTHER -> OrFailure(Items([k \in DOMAIN left.items |->
                                      CellsCombined(op, left.items[k], right.items[k])]))

Zeros(count, width) == Grid([k \in 1..count |-> [l \in 1..width |-> Number]])

MatricesMultiplied(left, right) ==
    IF Columns(left) = Len(right.rows) /\ NumbersOnly(left) /\ NumbersOnly(right)
    THEN Zeros(Len(left.rows), Columns(right)) ELSE Failure

MatricesCombined(op, left, right) ==
    CASE op = "*" -> MatricesMultiplied(left, right)
      [] Len(left.rows) # Len(right.rows) \/ Columns(left) # Columns(right) -> Failure
      [] NumbersOnly(left) /\ NumbersOnly(right) -> left
      [] op # "+" -> Failure
      [] OTHER -> OrFailure(Grid([k \in DOMAIN left.rows |-> [l \in DOMAIN left.rows[k] |->
                                      CellsCombined(op, left.rows[k][l], right.rows[k][l])]]))

HoldsItems(v) == v.k \in {"list", "matrix"}

\* eval_binary_orchestrator.
Combined(op, left, right) ==
    CASE op \in Boolean \cup Equality -> Truth
      [] left = Number /\ right = Number -> IF op \in Arithmetic THEN Number ELSE Truth
      [] left.k = right.k /\ left.k = "list" ->
            IF op \in Arithmetic THEN ListsCombined(op, left, right) ELSE Failure
      [] left.k = right.k /\ left.k = "matrix" ->
            IF op \in Arithmetic THEN MatricesCombined(op, left, right) ELSE Failure
      [] HoldsItems(left) /\ HoldsItems(right) -> Failure
      [] HoldsItems(left) -> IF op \in Arithmetic THEN WithScalar(op, left, right, TRUE) ELSE Failure
      [] HoldsItems(right) -> IF op \in Arithmetic THEN WithScalar(op, right, left, FALSE) ELSE Failure
      [] left = Text /\ right = Text /\ op = "+" -> Text
      [] left = Text /\ right = Text /\ op \notin Arithmetic -> Truth
      [] OTHER -> Failure

UnaryOf(op, v) == IF op = "not" THEN Truth ELSE IF v = Number THEN Number ELSE Failure

\* Rows of equal length are a matrix.
MatrixOfRows(rows) ==
    IF \E k \in DOMAIN rows : Len(rows[k].items) # Len(rows[1].items) THEN Failure
    ELSE Grid(Mapped(rows, LAMBDA row : row.items))

\* What an index, or a slice, of a value may be.
ItemsAt(v) ==
    CASE v.k = "list" -> {v.items[k] : k \in DOMAIN v.items}
      [] v.k = "matrix" -> {Items(v.rows[k]) : k \in DOMAIN v.rows}
      [] v = Text -> {Text}
      [] OTHER -> {}
SlicesOf(v) ==
    CASE v.k = "list" -> {Items(SubSeq(v.items, k, l)) : k, l \in 1..Len(v.items)} \cup {Items(<<>>)}
      [] v.k = "matrix" -> {Grid(SubSeq(v.rows, k, l)) : k, l \in 1..Len(v.rows)} \ {Grid(<<>>)}
      [] v = Text -> {Text}
      [] OTHER -> {}

IsSlice(item) == item.op = "slice"
\* A slice of a matrix takes the index or the slice behind it for its columns.
ColumnsOf(rows, item) ==
    IF IsSlice(item) THEN {Transposed(cols) : cols \in SlicesOf(Transposed(rows))}
    ELSE ItemsAt(Transposed(rows))

RECURSIVE FoundAt(_, _)
FoundAt(v, items) ==
    CASE items = <<>> -> {v}
      [] v.k = "matrix" /\ Len(items) > 1 /\ IsSlice(items[1]) ->
            UNION {ColumnsOf(rows, items[2]) : rows \in SlicesOf(v)}
      [] IsSlice(Head(items)) -> UNION {FoundAt(next, Tail(items)) : next \in SlicesOf(v)}
      [] OTHER -> UNION {FoundAt(next, Tail(items)) : next \in ItemsAt(v)}

\* What is left of v once value is stored below the given number of indexes.
RowFor(m, value) ==
    CASE value.k = "list" -> value.items
      [] value.k = "matrix" /\ Len(value.rows) = 1 -> value.rows[1]
      [] OTHER -> <<>>
RECURSIVE StoredAt(_, _, _)
StoredAt(v, depth, value) ==
    CASE v.k = "list" /\ depth = 1 -> {Items([v.items EXCEPT ![k] = value]) : k \in DOMAIN v.items}
      [] v.k = "list" ->
            UNION {{Items([v.items EXCEPT ![k] = w]) : w \in StoredAt(v.items[k], depth - 1, value)} :
                       k \in DOMAIN v.items}
      [] v.k = "matrix" /\ depth = 1 ->
            {Grid([v.rows EXCEPT ![k] = RowFor(v, value)]) :
                 k \in {l \in DOMAIN v.rows : HoldsItems(value) /\ Len(RowFor(v, value)) = Columns(v)}}
      [] v.k = "matrix" /\ depth = 2 ->
            {Grid([v.rows EXCEPT ![k][l] = value]) : k \in DOMAIN v.rows, l \in 1..Columns(v)}
      [] OTHER -> {}

-----------------------------------------------------------------------------
\* Methods: the receiver after the call and what it answers.
Answer(v, value) == [receiver |-> v, value |-> value]
Without(items, k) == SubSeq(items, 1, k - 1) \o SubSeq(items, k + 1, Len(items))
With(items, k, v) == SubSeq(items, 1, k) \o <<v>> \o SubSeq(items, k + 1, Len(items))
Received == {Number, Text, Nothing}         \* what a task or a channel may give
NumberList(count) == Items([k \in 1..count |-> Number])
NumbersOf(v) == SelectSeq(v.items, LAMBDA c : c = Number)

ListAnswers(v, name, args) ==
    CASE name = "append" -> {Answer(Items(Append(v.items, args[1])), Nothing)}
      [] name = "insert" -> {Answer(Items(With(v.items, k, args[2])), Nothing) : k \in 0..Len(v.items)}
      [] name = "remove" ->
            {Answer(Items(Without(v.items, k)), Nothing) : k \in {l \in DOMAIN v.items : v.items[l] = args[1]}}
      [] name = "pop" ->
            {Answer(Items(Without(v.items, k)), v.items[k]) :
                 k \in IF args = <<>> THEN {Len(v.items)} \ {0} ELSE DOMAIN v.items}
      [] name \in Maps -> {Answer(v, v)}
      [] name \in Filters \cup {"filter_nonzero"} ->
            {Answer(v, NumberList(count)) : count \in 0..Len(NumbersOf(v))}
      [] name = "scan_sum" -> {Answer(v, NumberList(Len(NumbersOf(v))))}
      [] name = "zip_add" ->
            {Answer(v, NumberList(count)) :
                 count \in IF args[1].k = "list" /\ NumbersOnly(args[1]) /\ NumbersOnly(v)
                           THEN {IF Len(args[1].items) < Len(v.items) THEN Len(args[1].items)
                                                                     ELSE Len(v.items)} ELSE {}}
      [] OTHER -> {}

Answers(v, name, args) ==
    CASE HoldsItems(v) /\ name \in Sums \cup CacheIds -> {Answer(v, Number)}
      [] HoldsItems(v) /\ name \in Collects -> {Answer(v, v)}
      [] HoldsItems(v) /\ name \in CacheStats -> {Answer(v, NumberList(1))}
      [] v.k = "list" -> ListAnswers(v, name, args)
      [] v.k = "matrix" /\ name \in Products ->
            IF args[1].k = "matrix" THEN {Answer(v, MatricesMultiplied(v, args[1]))} ELSE {}
      [] v.k = "matrix" /\ name \in ProductStats -> {Answer(v, NumberList(1))}
      [] v.k = "channel" /\ name = "send" -> {Answer(v, Nothing)}
      [] v.k = "channel" /\ name \in Receives -> {Answer(v, w) : w \in Received}
      [] v.k = "channel" /\ name = "has_next" -> {Answer(v, Truth)}
      [] v.k = "channel" /\ name = "stats" -> {Answer(v, NumberList(1))}
      [] v.k = "channel" /\ name = "close" -> {Answer(v, Nothing)}
      [] v.k = "task" /\ name = "join" -> {Answer(v, w) : w \in Received}
      [] v.k = "task" /\ name = "cancel" -> {Answer(v, Nothing)}
      [] v.k = "group" /\ name = "spawn" -> {Answer(v, Opaque("task"))}
      [] v.k = "group" /\ name = "cancel_all" -> {Answer(v, Nothing)}
      [] v.k = "group" /\ name = "join_all" -> {Answer(v, Items(<<w>>)) : w \in Received}
      [] OTHER -> {}

-----------------------------------------------------------------------------
\* Expressions: the ways to evaluate them in an environment, none when they fail.
NoValues == [n \in {} |-> Nothing]
Result(env, value) == [env |-> env, value |-> value]
Results(env, found) == {Result(env, v) : v \in found \ {Failure}}
Literals == [Int |-> Number, Float |-> Number, String |-> Text, Bool |-> Truth, Nil |-> Nothing]

\* What a builtin that changes nothing answers.
BuiltinAnswers(name, args) ==
    CASE name \in DOMAIN Builtins /\ Builtins[name].result.k \in {"Int", "Float"} -> {Number}
      [] name = "range" -> {NumberList(count) : count \in 0..MaxItems}
      [] name \in {"print", "send", "close", "cancel", "parallel_for"} -> {Nothing}
      [] name = "string" -> {Text}
      [] name \in {"matrix_i64", "matrix_f64"} -> {Zeros(k, l) : k, l \in 1..MaxItems}
      [] name = "spawn" -> {Opaque("task")}
      [] name \in {"join", "par_reduce"} \cup Receives -> Received
      [] name = "par_map" -> {Items([k \in DOMAIN args[1].items |-> w]) : w \in Received}
      [] name = "task_group" -> {Opaque("group")}
      [] name \in {"channel", "stream"} -> {Opaque("channel")}
      [] OTHER -> {}

Kept(v) == v.k = "list" => Len(v.items) <= MaxItems
KeepsBound(env) == \A n \in DOMAIN env : Kept(env[n])

RECURSIVE Eval(_, _), EvalAll(_, _), EvalRows(_, _), RunBody(_, _), RunStmt(_, _)
RECURSIVE RunWhile(_, _, _), RunFor(_, _, _)

EvalAll(env, exprs) ==
    IF exprs = <<>> THEN {Result(env, <<>>)}
    ELSE UNION {{Result(rest.env, <<first.value>> \o rest.value) : rest \in EvalAll(first.env, Tail(exprs))} :
                    first \in Eval(env, Head(exprs))}

\* The items of a literal are evaluated a second time, up to the first that is no
\* row: they make a matrix if all are rows.
EvalRows(env, exprs) ==
    IF exprs = <<>> THEN {Result(env, <<>>)}
    ELSE UNION {IF first.value.k # "list" THEN {Result(first.env, <<first.value>>)}
                ELSE {Result(rest.env, <<first.value>> \o rest.value) : rest \in EvalRows(first.env, Tail(exprs))} :
                    first \in Eval(env, Head(exprs))}
AreRows(rows) == rows # <<>> /\ \A k \in DOMAIN rows : rows[k].k = "list"
ListLiteralOf(rows, items) ==
    Results(rows.env, {IF AreRows(rows.value) THEN MatrixOfRows(rows.value) ELSE Items(items)})

\* Calls: a mutating method changes the variable it is called on.
CallOn(env, receiver, name, args) ==
    LET v == env[receiver.name]
        named == receiver.op = "name"
    IN  IF named
        THEN {Result([env EXCEPT ![receiver.name] = a.receiver], a.value) :
                  a \in {b \in Answers(v, name, args) : b.value # Failure}}
        ELSE UNION {Results(r.env, {a.value : a \in Answers(r.value, name, args)}) : r \in Eval(env, receiver)}

CallFunctionValue(env, f, args) ==
    LET own == [n \in {f.params[k].name : k \in DOMAIN f.params} |->
                    args[CHOOSE k \in DOMAIN f.params : f.params[k].name = n]]
    IN  {Result(env, r.value) : r \in RunBody(own, f.body)}

CallValue(env, callee, args) ==
    CASE callee.op = "attribute" -> CallOn(env, callee.args[1], callee.name, args)
      [] callee.name \in DOMAIN env /\ env[callee.name].k = "function" ->
            CallFunctionValue(env, env[callee.name], args)
      [] callee.name \in DOMAIN env -> Results(env, FoundAt(env[callee.name], [k \in DOMAIN args |-> Ex("at", "", <<>>)]))
      [] OTHER -> Results(env, BuiltinAnswers(callee.name, args))

Eval(env, e) ==
    CASE e.op = "literal" -> {Result(env, Literals[e.name])}
      [] e.op = "name" -> IF e.name \in DOMAIN env THEN {Result(env, env[e.name])} ELSE {}
      [] e.op = "list" ->
            UNION {UNION {ListLiteralOf(rows, r.value) : rows \in EvalRows(r.env, e.args)} :
                       r \in EvalAll(env, e.args)}
      [] e.op \in {"neg", "not"} ->
            UNION {Results(r.env, {UnaryOf(e.op, r.value)}) : r \in Eval(env, e.args[1])}
      [] e.op = "await" -> {Result(r.env, v) : r \in Eval(env, e.args[1]), v \in Received}
      [] e.op = "binary" ->
            UNION {Results(r.env, {Combined(e.name, r.value[1], r.value[2])}) : r \in EvalAll(env, e.args)}
      [] e.op = "index" ->
            UNION {Results(r.env, FoundAt(r.value, Tail(e.args))) : r \in Eval(env, e.args[1])}
      [] e.op = "attribute" ->
            {Result(r.env, Transposed(r.value)) : r \in {q \in Eval(env, e.args[1]) : q.value.k = "matrix"}}
      [] e.op = "call" ->
            UNION {CallValue(r.env, e.args[1], r.value) : r \in EvalAll(env, Tail(e.args))}

-----------------------------------------------------------------------------
\* Statements: how they end and what they leave, a value for a return.
Ended(env, how, value) == [env |-> env, how |-> how, value |-> value]
Onward(env) == Ended(env, "next", Nothing)
Put(env, n, v) == (n :> v) @@ env

RunBody(env, body) ==
    IF body = <<>> THEN {Onward(env)}
    ELSE UNION {IF r.how = "next" THEN RunBody(r.env, Tail(body)) ELSE {r} : r \in RunStmt(env, Head(body))}

\* break and continue end a turn, break and return the loop.
RunWhile(env, s, turns) ==
    UNION {{Onward(test.env)} \cup
           IF turns = 0 THEN {}
           ELSE UNION {CASE r.how \in {"next", "continue"} -> RunWhile(r.env, s, turns - 1)
                         [] r.how = "break" -> {Onward(r.env)}
                         [] OTHER -> {r} : r \in RunBody(test.env, s.bodies[1])} :
              test \in Eval(env, s.args[1])}

\* What a loop over a list or a matrix runs through: of a matrix the rows, or the
\* cells of its only column.
ItemsOf(v) ==
    CASE v.k = "list" -> v.items
      [] Columns(v) = 1 -> Mapped(v.rows, LAMBDA row : row[1])
      [] OTHER -> Mapped(v.rows, Items)

\* An async loop also takes the messages of a channel, up to the first None.
Sequences(v) ==
    CASE v.k = "channel" -> {<<>>} \cup {<<w>> : w \in Received \ {Nothing}}
      [] HoldsItems(v) -> {ItemsOf(v)}
      [] OTHER -> {}

RunFor(env, s, items) ==
    IF items = <<>> THEN {Onward(env)}
    ELSE UNION {CASE r.how \in {"next", "continue"} -> RunFor(r.env, s, Tail(items))
                  [] r.how = "break" -> {Onward(r.env)}
                  [] OTHER -> {r} : r \in RunBody(Put(env, s.name, Head(items)), s.bodies[1])}

\* One of the bodies, or none when there is no else.
RunOneOf(env, s, tests) ==
    UNION {UNION {RunBody(test.env, s.bodies[k]) : k \in DOMAIN s.bodies}
           \cup IF Len(s.bodies) = Len(tests) THEN {Onward(test.env)} ELSE {} : test \in EvalAll(env, tests)}

\* The try body may fail at any of its statements.
RunTry(env, s) ==
    RunBody(env, s.bodies[1]) \cup
    UNION {UNION {RunBody(IF s.name = "" THEN r.env ELSE Put(r.env, s.name, Text), s.bodies[2]) :
                      r \in {q \in RunBody(env, SubSeq(s.bodies[1], 1, k)) : q.how = "next"}} :
               k \in 0..Len(s.bodies[1]) - 1}

RunStmt(env, s) ==
    CASE s.op = "expression" -> {Onward(r.env) : r \in Eval(env, s.args[1])}
      [] s.op = "return" ->
            IF s.args = <<>> THEN {Ended(env, "return", Nothing)}
            ELSE {Ended(r.env, "return", r.value) : r \in Eval(env, s.args[1])}
      [] s.op = "assign" -> {Onward(Put(r.env, s.name, r.value)) : r \in Eval(env, s.args[1])}
      [] s.op = "assign_item" ->
            LET root == RootOf(s.args[1])
                depth == Len(s.args[1].args) - 1
            IN  UNION {{Onward(Put(r.env, root.name, v)) : v \in StoredAt(r.env[root.name], depth, r.value)} :
                           r \in Eval(env, s.args[2])}
      [] s.op \in {"break", "continue"} -> {Ended(env, s.op, Nothing)}
      [] s.op = "if" -> RunOneOf(env, s, s.args)
      [] s.op = "switch" -> RunOneOf(env, s, Tail(s.args))
      [] s.op = "try" -> RunTry(env, s)
      [] s.op = "while" -> RunWhile(env, s, MostTurns)
      [] s.op = "for" ->
            UNION {RunFor(r.env, s, ItemsOf(r.value)) : r \in {q \in Eval(env, s.args[1]) : HoldsItems(q.value)}}
      [] s.op = "async_for" ->
            UNION {UNION {RunFor(r.env, s, items) : items \in Sequences(r.value)} : r \in Eval(env, s.args[1])}
      [] s.op \in {"def", "async_def"} -> {Onward(Put(env, s.name, Closure(s.args, s.bodies[1])))}
      [] s.op = "with" -> RunBody(Put(env, s.name, Opaque("group")), s.bodies[1])

-----------------------------------------------------------------------------
TypingInit == program \in DOMAIN Programs /\ checker = NewChecker /\ globals = NoValues

\* The next statement is checked and, unless the program is rejected, run.
NextLine(s) ==
    /\ checker.clean
    /\ checker' = Typed(CheckStmt(checker, s), Unknown)     \* no expression is under way
    /\ IF checker'.clean
       THEN \E r \in RunStmt(globals, s) : globals' = r.env /\ r.how = "next" /\ KeepsBound(r.env)
       ELSE UNCHANGED globals

TypingNext == \E s \in Programs[program] : NextLine(s) /\ UNCHANGED program

TypingSpec == TypingInit /\ [][TypingNext]_typingVars

-----------------------------------------------------------------------------
\* A value is what its type says.  Unknown and Any say nothing.
RECURSIVE Conforms(_, _)
Conforms(v, t) ==
    CASE Unsettled(t) -> TRUE
      [] v = Number -> IsNumeric(t)
      [] v.k = "list" -> t.k = "List" /\ \A k \in DOMAIN v.items : Conforms(v.items[k], t.of)
      [] v.k = "matrix" ->
            /\ t.k = "Matrix" /\ t.rows \in {0, Len(v.rows)} /\ t.cols \in {0, Columns(v)}
            /\ \A k \in DOMAIN v.rows : \A l \in 1..Columns(v) : Conforms(v.rows[k][l], t.of)
      [] OTHER -> t.k = [string |-> "String", bool |-> "Bool", nil |-> "Nil", function |-> "Function",
                         channel |-> "Channel", task |-> "Task", group |-> "TaskGroup"][v.k]

Mixed(v) == v.k = "list" /\ \E k, l \in DOMAIN v.items : v.items[k].k # v.items[l].k

\* A variable first assigned in the body of a for is unknown to the checker after it.
Known == {n \in DOMAIN globals : ScopeOf(checker, n) > 0}

\* While a program is not rejected, what the checker says of a variable is true
\* of its value, and its main function is not in the tier of stable element
\* types once a list holds items of several kinds (set_name, normalize_list_elements
\* and the reasons of fold_tier, against what the interpreter does).
TypesHold ==
    checker.clean =>
        /\ \A n \in Known : Conforms(globals[n], NameType(checker, n))
        /\ (\E n \in DOMAIN globals : Mixed(globals[n])) => FoldTier(checker.functions[1]) # "T4"
=============================================================================
