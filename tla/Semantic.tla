------------------------------ MODULE Semantic ------------------------------
(***************************************************************************)
(* The type checker of semantic_runtime: the types of a program's names    *)
(* and expressions, whether the program is rejected, and the tier of each  *)
(* function and loop.  A checker is a record: the scopes of names, clean   *)
(* (no error so far), the reasons of the open loops and functions, the     *)
(* reports of the closed ones, and the type of the last expression.  The   *)
(* reasons of a rejected program are left out.  Every float is a Float.    *)
(***************************************************************************)
EXTENDS Integers, Sequences, FiniteSets, TLC

\* Syntax.
Ex(op, name, args) == [op |-> op, name |-> name, args |-> args]
Do(op, name, args, bodies) == [op |-> op, name |-> name, args |-> args, bodies |-> bodies]

\* Types.
Plain(k) == [k |-> k]
Unknown == Plain("Unknown")
AnyType == Plain("Any")
ErrorType == Plain("Error")
NilType == Plain("Nil")
IntType == Plain("Int")
FloatType == Plain("Float")
TextType == Plain("String")
BoolType == Plain("Bool")
ListType(t) == [k |-> "List", of |-> t]
MatrixType(t, r, c) == [k |-> "Matrix", of |-> t, rows |-> r, cols |-> c]
TaskType(t) == [k |-> "Task", of |-> t]
ChannelType(t) == [k |-> "Channel", of |-> t]
Callable(k, params, least, result) == [k |-> k, params |-> params, least |-> least, result |-> result]
AnyMatrix == MatrixType(AnyType, 0, 0)

IsNumeric(t) == t.k \in {"Int", "Float"}
NumericOrUnknown(t) == IsNumeric(t) \/ t.k = "Unknown"
IsBoolLike(t) == t.k \in {"Bool", "String", "Int", "Float", "Unknown"}
IsContainer(t) == t.k \in {"List", "Matrix"}
SameOrUnknown(t, u) == t.k = "Unknown" \/ u.k = "Unknown" \/ t.k = u.k
Unsettled(t) == t.k \in {"Any", "Unknown"}

RECURSIVE Assignable(_, _)
Assignable(source, target) ==
    \/ {source.k, target.k} \cap {"Unknown", "Error", "Any"} # {}
    \/ target.k = "Float" /\ IsNumeric(source)
    \/ /\ source.k = target.k
       /\ source.k \in {"List", "Matrix", "Task", "Channel"} => Assignable(source.of, target.of)
       /\ source.k = "Matrix" => source.cols = target.cols \/ 0 \in {source.cols, target.cols}

\* The type of the items of a list that holds items of both types.
RECURSIVE Normalized(_, _)
Normalized(current, next) ==
    CASE current.k = "Unknown" -> next
      [] next.k = "Unknown" -> current
      [] "Any" \in {current.k, next.k} -> AnyType
      [] IsNumeric(current) /\ IsNumeric(next) -> IF current = next THEN current ELSE FloatType
      [] current.k # next.k -> AnyType
      [] current.k = "List" -> ListType(Normalized(current.of, next.of))
      [] current.k = "Matrix" ->
            MatrixType(Normalized(current.of, next.of),
                       IF current.rows > next.rows THEN current.rows ELSE next.rows,
                       IF current.cols = next.cols THEN current.cols ELSE 0)
      [] OTHER -> current

RECURSIVE WidenCandidate(_, _)
WidenCandidate(left, right) ==
    \/ IsNumeric(left) /\ IsNumeric(right) /\ left # right
    \/ left.k = right.k /\ IsContainer(left) /\ WidenCandidate(left.of, right.of)

-----------------------------------------------------------------------------
\* The names every program starts with.
Builtin(params, least, result) == Callable("Builtin", params, least, result)
All(names, type) == [n \in names |-> type]
Builtins ==
    All({"i8", "i16", "i32", "i64", "i128", "i256", "i512", "len"}, Builtin(<<AnyType>>, 1, IntType))
    @@ All({"f8", "f16", "bf16", "f32", "f64", "f128", "f256", "f512"}, Builtin(<<AnyType>>, 1, FloatType))
    @@ All({"utf8_len", "utf16_len"}, Builtin(<<TextType>>, 1, IntType))
    @@ All({"bench_tick", "bench_tick_raw", "bench_tick_scale_num", "bench_tick_scale_den"},
           Builtin(<<>>, 0, IntType))
    @@ All({"matmul_sum", "matmul_sum_f32", "matmul_expected_sum"},
           Builtin(<<AnyMatrix, AnyMatrix>>, 2, FloatType))
    @@ All({"matmul4_sum", "matmul4_sum_f32"},
           Builtin(<<AnyMatrix, AnyMatrix, AnyMatrix, AnyMatrix>>, 4, FloatType))
    @@ All({"recv", "anext"}, Builtin(<<ChannelType(AnyType), IntType>>, 1, AnyType))
    @@ [print |-> Builtin(<<AnyType>>, 1, NilType),
        range |-> Builtin(<<IntType, IntType, IntType>>, 1, ListType(IntType)),
        append |-> Builtin(<<ListType(AnyType), AnyType>>, 2, NilType),
        bench_mixed_numeric_op |->
            Builtin(<<TextType, TextType, IntType, IntType, IntType>>, 3, AnyType),
        string |-> Builtin(<<AnyType>>, 0, TextType),
        matrix_i64 |-> Builtin(<<IntType, IntType>>, 2, MatrixType(IntType, 0, 0)),
        matrix_f64 |-> Builtin(<<IntType, IntType>>, 2, MatrixType(FloatType, 0, 0)),
        matrix_fill_affine |->
            Builtin(<<IntType, IntType, IntType, IntType, IntType, FloatType, FloatType>>, 6,
                    MatrixType(FloatType, 0, 0)),
        accumulate_sum |-> Builtin(<<FloatType, AnyType>>, 2, FloatType),
        spawn |-> Builtin(<<AnyType, AnyType>>, 1, TaskType(AnyType)),
        join |-> Builtin(<<TaskType(AnyType), IntType>>, 1, AnyType),
        deadline |-> Builtin(<<IntType>>, 1, IntType),
        cancel |-> Builtin(<<TaskType(AnyType)>>, 1, NilType),
        task_group |-> Builtin(<<IntType>>, 0, Plain("TaskGroup")),
        parallel_for |-> Builtin(<<IntType, IntType, AnyType, AnyType>>, 3, NilType),
        par_map |-> Builtin(<<ListType(AnyType), AnyType>>, 2, ListType(AnyType)),
        par_reduce |-> Builtin(<<ListType(AnyType), AnyType, AnyType>>, 3, AnyType),
        scheduler_stats |-> Builtin(<<>>, 0, ListType(IntType)),
        channel |-> Builtin(<<IntType>>, 0, ChannelType(AnyType)),
        send |-> Builtin(<<ChannelType(AnyType), AnyType>>, 2, NilType),
        close |-> Builtin(<<ChannelType(AnyType)>>, 1, NilType),
        stream |-> Builtin(<<ChannelType(AnyType)>>, 1, ChannelType(AnyType)),
        None |-> NilType]

NoNames == [n \in {} |-> Unknown]

\* check() before the first statement.
NewChecker == [scopes |-> <<NoNames>>, clean |-> TRUE, loops |-> <<>>, functions |-> <<{}>>,
               reports |-> {}, type |-> Unknown]

\* Scopes: the innermost one that has a name, 0 when none has.
Having(c, n) == {k \in 1..Len(c.scopes) : n \in DOMAIN c.scopes[k]}
Innermost(having) == IF having = {} THEN 0 ELSE CHOOSE k \in having : \A l \in having : l <= k
ScopeOf(c, n) == Innermost(Having(c, n))
HasName(c, n) == ScopeOf(c, n) > 0 \/ n \in DOMAIN Builtins
TypeIn(c, n, scope, builtins) ==
    CASE scope > 0 -> c.scopes[scope][n]
      [] n \in DOMAIN builtins -> builtins[n]
      [] OTHER -> ErrorType
NameType(c, n) == TypeIn(c, n, ScopeOf(c, n), Builtins)
PutName(c, k, n, t) == [c EXCEPT !.scopes[k] = (n :> t) @@ @]
DefineName(c, n, t) == PutName(c, Len(c.scopes), n, t)
SetName(c, n, t) ==
    CASE ScopeOf(c, n) > 0 -> PutName(c, ScopeOf(c, n), n, t)
      [] n \in DOMAIN Builtins -> PutName(c, 1, n, t)
      [] OTHER -> c
PushScope(c) == [c EXCEPT !.scopes = Append(@, NoNames)]
PopScope(c) == [c EXCEPT !.scopes = SubSeq(@, 1, Len(@) - 1)]

\* Reasons against the fastest tier go to the innermost loop and function.
AddReason(c, reason) ==
    [c EXCEPT !.loops = IF @ = <<>> THEN @ ELSE [@ EXCEPT ![Len(@)] = @ \cup {reason}],
              !.functions = IF @ = <<>> THEN @ ELSE [@ EXCEPT ![Len(@)] = @ \cup {reason}]]
SoftIf(c, condition) == IF condition THEN AddReason(c, "soft") ELSE c
HardIf(c, condition) == IF condition THEN AddReason(c, "hard") ELSE c
Soft(c) == AddReason(c, "soft")
Typed(c, t) == [c EXCEPT !.type = t]
Rejected(c) == [c EXCEPT !.clean = FALSE]
RejectedIf(c, condition) == IF condition THEN Rejected(c) ELSE c

FoldTier(reasons) ==
    CASE "hard" \in reasons -> "T8"
      [] "soft" \in reasons -> "T5"
      [] OTHER -> "T4"

PushLoop(c) == [c EXCEPT !.loops = Append(@, {})]
PopLoop(c) ==
    [c EXCEPT !.loops = SubSeq(@, 1, Len(@) - 1),
              !.reports = @ \cup {<<"loop", FoldTier(c.loops[Len(c.loops)])>>}]
PushFunction(c) == [c EXCEPT !.functions = Append(@, {})]
PopFunction(c) ==
    [c EXCEPT !.functions = SubSeq(@, 1, Len(@) - 1),
              !.reports = @ \cup {<<"function", FoldTier(c.functions[Len(c.functions)])>>}]

\* An expression whose type is not settled needs normalization.
NeedsNormalization(t) == t.k = "Any" \/ (IsContainer(t) /\ t.of.k = "Any")
Analyzed(c) == SoftIf(c, NeedsNormalization(c.type))
AnalyzedAll(c, types) == SoftIf(c, \E k \in DOMAIN types : NeedsNormalization(types[k]))

-----------------------------------------------------------------------------
\* Unary operators.
CheckUnary(c, op) ==
    RejectedIf(c, \/ op = "neg" /\ ~NumericOrUnknown(c.type)
                  \/ op = "not" /\ ~IsBoolLike(c.type)
                  \/ op = "await" /\ c.type.k \notin {"Task", "Unknown"})
UnaryType(op, t) ==
    CASE op = "not" -> BoolType
      [] op = "neg" /\ IsNumeric(t) -> t
      [] op = "await" /\ t.k = "Task" -> t.of
      [] OTHER -> Unknown

\* Binary operators.
Arithmetic == {"+", "-", "*", "/", "%", "^"}
Boolean == {"and", "or"}
Equality == {"==", "!="}

MatrixOf(left, right) == IF left.k = "Matrix" THEN left ELSE right
OtherThanMatrix(left, right) == IF left.k = "Matrix" THEN right ELSE left
ListIn(left, right) == IF left.k = "List" THEN left ELSE right
OtherThanList(left, right) == IF left.k = "List" THEN right ELSE left
Differ(m, n) == m # 0 /\ n # 0 /\ m # n

MatrixArithmeticError(op, left, right) ==
    IF left.k = "Matrix" /\ right.k = "Matrix"
    THEN \/ IF op = "*" THEN Differ(left.cols, right.rows)
                        ELSE Differ(left.cols, right.cols) \/ Differ(left.rows, right.rows)
         \/ /\ op # "+"
            /\ left.of.k # "Unknown" /\ right.of.k # "Unknown"
            /\ ~(IsNumeric(left.of) /\ IsNumeric(right.of))
    ELSE op \notin {"+", "*"} /\ ~NumericOrUnknown(OtherThanMatrix(left, right))

ListArithmeticError(op, left, right) ==
    LET odd(t) == t.k = "List" /\ ~NumericOrUnknown(t.of)
    IN  /\ op \notin {"+", "*"}
        /\ \/ odd(left)
           \/ odd(right)
           \/ OtherThanList(left, right).k # "List" /\ ~NumericOrUnknown(OtherThanList(left, right))

ArithmeticError(op, left, right) ==
    CASE "Unknown" \in {left.k, right.k} -> FALSE
      [] "Matrix" \in {left.k, right.k} -> MatrixArithmeticError(op, left, right)
      [] "List" \in {left.k, right.k} -> ListArithmeticError(op, left, right)
      [] op = "+" /\ left.k = "String" /\ right.k = "String" -> FALSE
      [] OTHER -> ~IsNumeric(left) \/ ~IsNumeric(right)

ComparisonError(left, right) ==
    /\ "Unknown" \notin {left.k, right.k}
    /\ ~(left.k = "String" /\ right.k = "String")
    /\ ~(IsNumeric(left) /\ IsNumeric(right))

BinaryError(op, left, right) ==
    CASE op \in Arithmetic -> ArithmeticError(op, left, right)
      [] op \in Boolean -> ~IsBoolLike(left) \/ ~IsBoolLike(right)
      [] op \in Equality -> FALSE
      [] OTHER -> ComparisonError(left, right)

CheckBinary(c, op, left, right) ==
    SoftIf(RejectedIf(AnalyzedAll(c, <<left, right>>), BinaryError(op, left, right)),
           op = "*" /\ left.k = "Matrix" /\ right.k = "Matrix")

\* The element type of a container combined with something else.
CombinedElement(op, element, other) ==
    CASE other.k = "Matrix" -> Normalized(element, other.of)
      [] IsNumeric(other) -> Normalized(element, other)
      [] op \in {"+", "*"} /\ other.k # "Unknown" -> TextType
      [] OTHER -> element

MatrixArithmeticType(op, left, right) ==
    LET m == MatrixOf(left, right)
        other == OtherThanMatrix(left, right)
        element == CombinedElement(op, m.of, other)
        text == other.k = "Matrix" /\ op = "+" /\ ~NumericOrUnknown(element)
    IN  CASE other.k # "Matrix" -> MatrixType(element, m.rows, m.cols)
          [] op = "*" -> MatrixType(element, left.rows, right.cols)
          [] OTHER -> MatrixType(IF text THEN TextType ELSE element,
                                 IF m.rows = 0 THEN other.rows ELSE m.rows,
                                 IF m.cols = 0 THEN other.cols ELSE m.cols)

ListArithmeticType(op, left, right) ==
    LET other == OtherThanList(left, right)
        own == ListIn(left, right).of
        element == IF other.k = "List" THEN Normalized(own, other.of)
                                       ELSE CombinedElement(op, own, other)
    IN  CASE other.k = "List" /\ op = "+" -> left
          [] other.k \notin {"List", "Unknown"} /\ ~IsNumeric(other) /\ op \notin {"+", "*"} -> Unknown
          [] op \in {"/", "^"} -> ListType(FloatType)
          [] OTHER -> ListType(element)

ArithmeticType(op, left, right) ==
    CASE "String" \in {left.k, right.k} ->
            IF left.k = right.k /\ op = "+" THEN TextType ELSE Unknown
      [] "Matrix" \in {left.k, right.k} -> MatrixArithmeticType(op, left, right)
      [] "List" \in {left.k, right.k} -> ListArithmeticType(op, left, right)
      [] ~IsNumeric(left) \/ ~IsNumeric(right) -> Unknown
      [] op \in {"/", "^"} \/ "Float" \in {left.k, right.k} -> FloatType
      [] OTHER -> IntType

BinaryType(op, left, right) ==
    IF op \in Arithmetic THEN ArithmeticType(op, left, right) ELSE BoolType

-----------------------------------------------------------------------------
\* Attributes: the methods of each type.
Mutators == {"append", "pop", "insert", "remove"}
Filters == {"filter_gt", "filter_lt"}
Sums == {"sum", "reduce_sum"}
Maps == {"map_add", "map_mul"}
Collects == {"to_list", "collect"}
Products == {"matmul", "matmul_f32", "matmul_f64", "matmul_add", "matmul_axpby"}
ProductStats == {"matmul_stats", "matmul_schedule"}
CacheIds == {"plan_id", "cache_bytes", "pipeline_plan_id"}
CacheStats == {"cache_stats", "pipeline_stats"}
GroupMethods == {"spawn", "join_all", "cancel_all"}
TaskMethods == {"join", "cancel"}
Receives == {"recv", "anext", "next"}
ChannelMethods == Receives \cup {"send", "close", "stats", "has_next"}
ListMethods == Mutators \cup Filters \cup {"filter_nonzero", "zip_add", "scan_sum"}
EitherMethods == Sums \cup Maps \cup Collects \cup CacheIds \cup CacheStats
MatrixMethods == Products \cup ProductStats
Methods ==
    ListMethods \cup EitherMethods \cup MatrixMethods \cup GroupMethods \cup TaskMethods \cup ChannelMethods
Transposes == {"T", "transpose"}

Accepts(name, t) ==
    CASE name \in ListMethods -> t.k = "List"
      [] name \in EitherMethods -> IsContainer(t)
      [] name \in MatrixMethods \cup Transposes -> t.k = "Matrix"
      [] name \in GroupMethods -> t.k = "TaskGroup"
      [] name \in TaskMethods -> t.k = "Task"
      [] name \in ChannelMethods -> t.k = "Channel"
      [] OTHER -> Unsettled(t)

SumType(t) == IF t.of.k = "Int" THEN IntType ELSE FloatType
FloatsLike(t) == IF t.k = "Matrix" THEN MatrixType(FloatType, t.rows, t.cols) ELSE ListType(FloatType)

\* The parameters and the result of a method that is not called at once.
MethodParams(name, t) ==
    CASE name = "append" -> <<t.of>>
      [] name = "insert" -> <<IntType, AnyType>>
      [] name = "remove" -> <<AnyType>>
      [] name \in Maps \cup Filters -> <<FloatType>>
      [] name = "zip_add" -> <<ListType(AnyType)>>
      [] name = "matmul_add" -> <<AnyMatrix, AnyType>>
      [] name = "matmul_axpby" -> <<AnyMatrix, FloatType, FloatType, AnyMatrix>>
      [] name \in Products -> <<AnyMatrix>>
      [] name = "spawn" -> <<AnyType, AnyType>>
      [] name = "send" -> <<t.of>>
      [] OTHER -> <<>>
MethodResult(name, t) ==
    CASE name \in Sums -> SumType(t)
      [] name \in Maps -> FloatsLike(t)
      [] name \in Filters \cup {"filter_nonzero", "zip_add", "scan_sum"} -> ListType(FloatType)
      [] name \in Collects -> t
      [] name \in Products -> MatrixType(FloatType, t.rows, 0)
      [] name \in ProductStats \cup CacheStats \cup {"stats"} -> ListType(IntType)
      [] name \in CacheIds -> IntType
      [] name = "spawn" -> TaskType(AnyType)
      [] name = "join_all" -> ListType(AnyType)
      [] name \in {"join"} \cup Receives -> t.of
      [] name = "has_next" -> BoolType
      [] OTHER -> NilType

Bound(params, result) == Callable("Function", params, Len(params), result)

AttributeType(name, t) ==
    CASE name = "pop" -> t.of
      [] name \in Transposes -> MatrixType(t.of, t.cols, t.rows)
      [] name \in Methods -> Bound(MethodParams(name, t), MethodResult(name, t))
      [] OTHER -> Unknown

InferAttribute(c, name) ==
    IF Accepts(name, c.type) THEN Typed(c, AttributeType(name, c.type)) ELSE Typed(Rejected(c), Unknown)

-----------------------------------------------------------------------------
\* Calls of methods, with the types of the arguments that are looked at.
TakesArguments(name, count) ==
    CASE name \in {"append", "remove", "zip_add", "send", "matmul", "matmul_f32", "matmul_f64"}
                  \cup Maps \cup Filters -> count = 1
      [] name \in {"insert", "matmul_add"} -> count = 2
      [] name = "matmul_axpby" -> count = 4
      [] name \in {"pop", "recv"} -> count <= 1
      [] name = "spawn" -> count >= 1
      [] OTHER -> count = 0

\* The arguments whose types are inferred.
LookedAt(name, passed) ==
    CASE name \in {"remove", "send", "recv"} -> <<>>
      [] name = "spawn" -> SubSeq(passed, 2, Len(passed))
      [] OTHER -> passed

Sendable(t) ==
    t.k \in {"Nil", "Int", "Float", "String", "Bool", "Task", "Channel", "Unknown", "Any", "Error"}

\* Mutant: the first item of a list settles the type of its items.
BadAppended(c, n, elem, item) ==
    HardIf(Soft(IF elem.k = "Unknown" THEN SetName(c, n, ListType(item)) ELSE c), ~Assignable(item, elem))

\* An item is put into the list n: the checker follows the type of its items.
Appended(c, n, elem, item) ==
    LET next == Normalized(elem, item)
        becameAny == elem.k # "Any" /\ next.k = "Any"
        odd == becameAny \/ ~Assignable(next, elem)
        widened == ~becameAny /\ WidenCandidate(elem, next)
        keeps == elem.k # "Unknown" /\ SameOrUnknown(next, elem)
    IN  HardIf(Soft(SetName(c, n, ListType(IF keeps THEN elem ELSE next))), odd /\ ~widened)

Inserted(c, n, elem, index, item) ==
    LET next == Normalized(elem, item)
        odd == ~SameOrUnknown(next, elem)
        widened == IsNumeric(elem) /\ IsNumeric(next) /\ IsNumeric(item)
        put == IF elem.k = "Unknown" \/ odd THEN SetName(c, n, ListType(next)) ELSE c
    IN  HardIf(Soft(RejectedIf(put, index.k \notin {"Int", "Unknown"})), odd /\ ~widened)

ProductError(name, t, types) ==
    \/ types[1].k \notin {"Matrix", "Unknown"}
    \/ types[1].k = "Matrix" /\ Differ(t.cols, types[1].rows)
    \/ name = "matmul_add" /\ ~(IsContainer(types[2]) \/ NumericOrUnknown(types[2]))
    \/ /\ name = "matmul_axpby"
       /\ \/ ~NumericOrUnknown(types[2]) \/ ~NumericOrUnknown(types[3])
          \/ types[4].k \notin {"Matrix", "Unknown"}

Multiplied(c, name, t, types) ==
    Typed(Soft(RejectedIf(c, ProductError(name, t, types))),
          MatrixType(FloatType, t.rows, IF types[1].k = "Matrix" THEN types[1].cols ELSE 0))

GroupSpawned(c, passed, types) ==
    Typed(SoftIf(RejectedIf(c, passed[1].op # "name" \/ \E k \in DOMAIN types : ~Sendable(types[k])),
                 passed[1].op = "name"),
          TaskType(AnyType))

\* Methods that add a soft reason whatever they are called with.
SoftMethods == Sums \cup {"remove", "join_all", "cancel_all", "join", "cancel", "send"} \cup Receives

CallMethod(asked, name, n, t, passed, types) ==
    LET c == AnalyzedAll(asked, types)
        misused == \/ ~Accepts(name, t)
                   \/ ~TakesArguments(name, Len(passed))
                   \/ n = "" /\ name \in Mutators \cup CacheIds \cup CacheStats
        scalar == RejectedIf(c, ~NumericOrUnknown(types[1]))
    IN  CASE misused -> Typed(Rejected(asked), Unknown)
          [] name = "append" -> Typed(Appended(c, n, t.of, types[1]), NilType)
          [] name = "insert" -> Typed(Inserted(c, n, t.of, types[1], types[2]), NilType)
          [] name = "pop" ->
                Typed(RejectedIf(c, types # <<>> /\ types[1].k \notin {"Int", "Unknown"}), t.of)
          [] name = "map_add" -> Typed(SoftIf(scalar, Unsettled(t.of)), FloatsLike(t))
          [] name \in {"map_mul"} \cup Filters -> Typed(scalar, FloatsLike(t))
          [] name = "zip_add" ->
                Typed(RejectedIf(c, types[1].k \notin {"List", "Unknown"}), FloatsLike(t))
          [] name \in Products -> Multiplied(c, name, t, types)
          [] name = "spawn" -> GroupSpawned(c, passed, types)
          [] OTHER -> Typed(SoftIf(c, name \in SoftMethods), MethodResult(name, t))

-----------------------------------------------------------------------------
\* Calls of containers: each argument is an index.
RECURSIVE CallIndexed(_, _)
CallIndexed(t, k) ==
    CASE k = 0 -> t
      [] t.k = "Matrix" -> CallIndexed(ListType(t.of), k - 1)
      [] t.k = "List" -> CallIndexed(t.of, k - 1)
      [] t.k = "String" -> CallIndexed(t, k - 1)
      [] Unsettled(t) -> Unknown
      [] OTHER -> ErrorType

CallContainer(c, t, types) ==
    LET found == CallIndexed(t, Len(types))
        wrong == \/ types = <<>> \/ found.k = "Error"
                 \/ \E k \in DOMAIN types : ~NumericOrUnknown(types[k])
    IN  Typed(RejectedIf(Soft(AnalyzedAll(c, types)), wrong), found)

\* Calls of functions and builtins.
Concurrent ==
    {"append", "spawn", "parallel_for", "par_map", "par_reduce", "task_group", "join", "cancel",
     "channel", "send", "recv", "close", "stream", "anext"}
CalledBack == [spawn |-> 1, parallel_for |-> 3, par_map |-> 2, par_reduce |-> 3]
FirstCapture == [spawn |-> 2, parallel_for |-> 4]

BuiltinError(name, passed, types) ==
    /\ name \in DOMAIN CalledBack
    /\ \/ CalledBack[name] \in DOMAIN passed /\ passed[CalledBack[name]].op # "name"
       \/ name \in DOMAIN FirstCapture /\ \E k \in FirstCapture[name]..Len(types) : ~Sendable(types[k])

CallFunction(c, t, callee, passed, types) ==
    LET name == IF t.k = "Builtin" /\ callee.op = "name" THEN callee.name ELSE ""
        settled == SelectSeq([k \in DOMAIN types |-> <<types[k], t.params[k]>>],
                             LAMBDA p : p[2].k # "Unknown")
        wrong == \/ Len(passed) < t.least
                 \/ \E k \in DOMAIN settled : ~Assignable(settled[k][1], settled[k][2])
                 \/ BuiltinError(name, passed, types)
    IN  Typed(SoftIf(RejectedIf(c, wrong),
                     \/ name \in Concurrent
                     \/ \E k \in DOMAIN settled : NeedsNormalization(settled[k][1])),
              t.result)

-----------------------------------------------------------------------------
\* Literals of lists: rows make a matrix.
RECURSIVE RowType(_, _)
RowType(types, k) ==
    IF k = 0 THEN types[1].of ELSE Normalized(RowType(types, k - 1), types[k].of)

MatrixLiteral(c, rows, types) ==
    LET even(k) == \A l \in 1..k : rows[l].op = "list" /\ Len(rows[l].args) = Len(rows[1].args)
        width(k) == IF even(k) THEN Len(rows[1].args) ELSE 0
        uneven == \E k \in 2..Len(rows) : rows[k].op = "list" /\ Len(rows[k].args) # width(k - 1)
    IN  Typed(SoftIf(c, uneven), MatrixType(RowType(types, Len(types)), Len(rows), width(Len(rows))))

\* The element type so far, and whether it had to be widened.
RECURSIVE ItemType(_, _)
ItemType(types, k) ==
    IF k = 0 THEN [type |-> Unknown, mixed |-> FALSE]
    ELSE LET before == ItemType(types, k - 1)
             next == Normalized(before.type, types[k])
             mixed == ~SameOrUnknown(next, before.type) /\ ~WidenCandidate(before.type, types[k])
         IN  [type |-> IF mixed THEN AnyType ELSE next, mixed |-> before.mixed \/ mixed]

ListLiteral(c, items, types) ==
    IF items # <<>> /\ \A k \in DOMAIN types : types[k].k = "List"
    THEN MatrixLiteral(c, items, types)
    ELSE LET found == ItemType(types, Len(types))
         IN  Typed(SoftIf(c, found.mixed), ListType(found.type))

-----------------------------------------------------------------------------
\* Expressions.  InferAll: the types of several expressions, in their order.
RECURSIVE Infer(_, _), InferAll(_, _), IndexInto(_, _, _)

Preceded(t, rest) == [c |-> rest.c, types |-> <<t>> \o rest.types]
InferRest(first, exprs) == Preceded(first.type, InferAll(first, exprs))
InferAll(c, exprs) ==
    IF exprs = <<>> THEN [c |-> c, types |-> <<>>] ELSE InferRest(Infer(c, Head(exprs)), Tail(exprs))

\* The type of an item of what c has the type of.
Inside(t) == IF t.k = "Matrix" THEN ListType(t.of) ELSE IF t.k = "List" THEN t.of ELSE t
Sliced(t) == IF t.k = "Matrix" THEN ListType(ListType(t.of)) ELSE t
Indexable(t) == t.k \in {"List", "Matrix", "String"}

IndexAt(c, item, read, assigning) ==
    LET wrong == \/ ~Indexable(c.type)
                 \/ item.op = "slice" /\ assigning
                 \/ \E k \in DOMAIN read.types : ~NumericOrUnknown(read.types[k])
    IN  IF wrong THEN Typed(Rejected(c), ErrorType)
        ELSE Typed(AnalyzedAll(read.c, read.types),
                   IF item.op = "slice" THEN Sliced(c.type) ELSE Inside(c.type))

IndexInto(c, items, assigning) ==
    IF items = <<>> \/ c.type.k = "Error" THEN c
    ELSE LET parts == IF Head(items).op = "slice" THEN Head(items).args ELSE <<Head(items)>>
         IN  IndexInto(IndexAt(c, Head(items), InferAll(c, parts), assigning), Tail(items), assigning)

InferIndex(target, items, assigning) ==
    IF target.type.k \in {"Unknown", "Error"} THEN target ELSE IndexInto(target, items, assigning)

CallNamed(read, callee, passed, t) ==
    CallMethod(read.c, callee.name, IF callee.args[1].op = "name" THEN callee.args[1].name ELSE "", t,
               passed, read.types)

InferCalled(read, t, callee, passed) ==
    CASE Indexable(t) -> CallContainer(read.c, t, read.types)
      [] t.k \in {"Function", "Builtin"} /\ Len(passed) <= Len(t.params) ->
            CallFunction(read.c, t, callee, passed, read.types)
      [] OTHER -> Typed(Rejected(read.c), IF t.k \in {"Function", "Builtin"} THEN t.result ELSE Unknown)

InferCall(c, callee, passed) ==
    IF callee.op = "attribute" /\ callee.name \in Methods
    THEN CallNamed(InferAll(c, LookedAt(callee.name, passed)), callee, passed, Infer(c, callee.args[1]).type)
    ELSE InferCalled(InferAll(c, passed), c.type, callee, passed)

InferUnary(operand, op) == Typed(CheckUnary(operand, op), UnaryType(op, operand.type))
InferBinary(both, op) ==
    Typed(CheckBinary(both.c, op, both.types[1], both.types[2]),
          BinaryType(op, both.types[1], both.types[2]))
InferList(items, exprs) == ListLiteral(items.c, exprs, items.types)

Infer(c, e) ==
    CASE e.op = "literal" -> Typed(c, Plain(e.name))
      [] e.op = "name" ->
            IF HasName(c, e.name) THEN Typed(c, NameType(c, e.name)) ELSE Typed(Rejected(c), ErrorType)
      [] e.op = "attribute" -> InferAttribute(Infer(c, e.args[1]), e.name)
      [] e.op = "list" -> InferList(InferAll(c, e.args), e.args)
      [] e.op \in {"neg", "not", "await"} ->
            InferUnary(Infer(c, e.args[1]), e.op)
      [] e.op = "binary" ->
            InferBinary(InferAll(c, e.args), e.name)
      [] e.op = "index" -> InferIndex(Infer(c, e.args[1]), Tail(e.args), FALSE)
      [] e.op = "call" -> InferCall(Infer(c, e.args[1]), e.args[1], Tail(e.args))

-----------------------------------------------------------------------------
\* Statements.
AssignName(c, n, rhs) ==
    LET current == NameType(c, n)
        merged == Normalized(current.of, rhs.of)
        odd == current.k = "List" /\ rhs.k = "List" /\ ~SameOrUnknown(current.of, rhs.of)
    IN  CASE current.k = "Error" -> DefineName(c, n, rhs)
          [] ~Assignable(rhs, current) -> Rejected(c)
          [] odd -> SoftIf(SetName(c, n, ListType(merged)), ~SameOrUnknown(merged, current.of))
          [] OTHER -> SetName(c, n, rhs)

RECURSIVE RootOf(_)
RootOf(e) == IF e.op = "index" THEN RootOf(e.args[1]) ELSE e

\* c has the type of the place assigned to.
AssignItem(c, root, rhs) ==
    LET current == NameType(c, root.name)
        merged == Normalized(current.of, rhs)
        t == IF current.k = "List" THEN ListType(merged) ELSE MatrixType(merged, current.rows, current.cols)
    IN  CASE c.type.k = "Error" -> c
          [] root.op # "name" \/ current.k = "Error" \/ ~Assignable(rhs, c.type) -> Rejected(c)
          [] IsContainer(current) ->
                SoftIf(SetName(c, root.name, t), ~SameOrUnknown(merged, current.of))
          [] OTHER -> c

\* An attribute can be assigned to what may be an object only.
RejectedUnlessOpen(owner) == RejectedIf(owner, ~Unsettled(owner.type))

\* The type of the loop variable.
LoopVariable(t) ==
    CASE t.k \in {"List", "Channel"} -> t.of
      [] t.k = "Matrix" -> ListType(t.of)
      [] OTHER -> Unknown

RECURSIVE CheckStmt(_, _), CheckBody(_, _), CheckBranches(_, _, _, _)

CheckBody(c, body) == IF body = <<>> THEN c ELSE CheckBody(CheckStmt(c, Head(body)), Tail(body))

\* Each test and its body; the bodies left over are an else or a default.
Tested(test, boolean) == RejectedIf(test, boolean /\ ~IsBoolLike(test.type))
CheckBranches(c, tests, bodies, boolean) ==
    IF tests = <<>> THEN IF bodies = <<>> THEN c ELSE CheckBody(c, Head(bodies))
    ELSE CheckBranches(CheckBody(Tested(Analyzed(Infer(c, Head(tests))), boolean), Head(bodies)),
                       Tail(tests), Tail(bodies), boolean)

RECURSIVE DefineAll(_, _)
DefineAll(c, params) ==
    IF params = <<>> THEN c ELSE DefineAll(DefineName(c, Head(params).name, Unknown), Tail(params))

CheckFunction(c, s) ==
    LET params == [k \in DOMAIN s.args |-> Unknown]
        result == IF s.op = "async_def" THEN TaskType(Unknown) ELSE Unknown
        defined == DefineName(SoftIf(c, s.op = "async_def"), s.name, Bound(params, result))
        entered == DefineAll(PushFunction(PushScope(defined)), s.args)
    IN  PopScope(PopFunction(CheckBody(entered, s.bodies[1])))

CheckFor(iterable, s, async) ==
    LET t == iterable.type
        wrong == ~(IsContainer(t) \/ t.k = "Unknown" \/ (async /\ t.k = "Channel"))
        entered == SoftIf(RejectedIf(PushLoop(iterable), wrong),
                          async \/ (t.k = "List" /\ t.of.k = "Any"))
        bound == DefineName(PushScope(entered), s.name, LoopVariable(t))
    IN  PopLoop(PopScope(CheckBody(bound, s.bodies[1])))

CheckWhile(test, s) ==
    PopLoop(CheckBody(HardIf(PushLoop(test), ~IsBoolLike(test.type)), s.bodies[1]))

NamedIf(c, n, t) == IF n = "" THEN c ELSE DefineName(c, n, t)
CheckTry(c, s) ==
    PopScope(CheckBody(NamedIf(PushScope(CheckBody(c, s.bodies[1])), s.name, TextType), s.bodies[2]))

Timed(timeout) ==
    RejectedIf(AnalyzedAll(timeout.c, timeout.types),
               timeout.types # <<>> /\ ~NumericOrUnknown(timeout.types[1]))
CheckGroup(c, s) ==
    LET entered == PushScope(DefineName(c, s.name, Plain("TaskGroup")))
    IN  PopScope(CheckBody(Soft(Timed(InferAll(entered, s.args))), s.bodies[1]))

\* The statements that first evaluate an expression.
Valued == {"expression", "return", "assign", "assign_item", "assign_attribute", "switch", "while", "for",
           "async_for"}
ValueIn(s) == s.args[IF s.op \in {"assign_item", "assign_attribute"} THEN 2 ELSE 1]

CheckValued(value, s) ==
    CASE s.op \in {"expression", "return"} -> value
      [] s.op = "assign" -> AssignName(value, s.name, value.type)
      [] s.op = "assign_item" ->
            AssignItem(InferIndex(Infer(value, s.args[1].args[1]), Tail(s.args[1].args), TRUE),
                       RootOf(s.args[1]), value.type)
      [] s.op = "assign_attribute" -> RejectedUnlessOpen(Infer(value, s.args[1].args[1]))
      [] s.op = "switch" -> CheckBranches(value, Tail(s.args), s.bodies, FALSE)
      [] s.op = "while" -> CheckWhile(value, s)
      [] s.op \in {"for", "async_for"} -> CheckFor(value, s, s.op = "async_for")

CheckStmt(c, s) ==
    CASE s.op \in Valued -> IF s.args = <<>> THEN c ELSE CheckValued(Analyzed(Infer(c, ValueIn(s))), s)
      [] s.op \in {"break", "continue"} -> RejectedIf(c, c.loops = <<>>)
      [] s.op = "if" -> CheckBranches(c, s.args, s.bodies, TRUE)
      [] s.op = "try" -> CheckTry(c, s)
      [] s.op \in {"def", "async_def"} -> CheckFunction(c, s)
      [] s.op = "with" -> CheckGroup(c, s)
=============================================================================
