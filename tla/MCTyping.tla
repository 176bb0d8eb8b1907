------------------------------ MODULE MCTyping ------------------------------
(* Programs for Typing, for TLC. *)
LOCAL INSTANCE Semantic

LOCAL Lit(k) == Ex("literal", k, <<>>)
LOCAL One == Lit("Int")
LOCAL Half == Lit("Float")
LOCAL Word == Lit("String")
LOCAL Yes == Lit("Bool")
LOCAL Name(n) == Ex("name", n, <<>>)
LOCAL Seq1(e) == Ex("list", "", <<e>>)
LOCAL Seq2(e, d) == Ex("list", "", <<e, d>>)
LOCAL Op(o, l, r) == Ex("binary", o, <<l, r>>)
LOCAL At(e, k) == Ex("index", "", <<e, k>>)
LOCAL At2(e, k, l) == Ex("index", "", <<e, k, l>>)
LOCAL Every == Ex("slice", "", <<>>)
LOCAL Attr(e, n) == Ex("attribute", n, <<e>>)
LOCAL Called(f, args) == Ex("call", "", <<f>> \o args)
LOCAL Method(n, name, args) == Called(Attr(Name(n), name), args)
LOCAL Let(n, e) == Do("assign", n, <<e>>, <<>>)
LOCAL Set(place, e) == Do("assign_item", "", <<place, e>>, <<>>)
LOCAL Just(e) == Do("expression", "", <<e>>, <<>>)
LOCAL While(test, body) == Do("while", "", <<test>>, <<body>>)
LOCAL For(n, e, body) == Do("for", n, <<e>>, <<body>>)
LOCAL If(test, yes, no) == Do("if", "", <<test>>, <<yes, no>>)
LOCAL Def(name, n, e) == Do("def", name, <<Name(n)>>, <<<<Do("return", "", <<e>>, <<>>)>>>>)

LOCAL Scalars == {Let("s", One), Let("s", Half), Let("s", Word)}

\* A scalar and a list.
LOCAL ListLines == Scalars \cup
    {Let("s", Op("+", Name("s"), Name("s"))), Let("s", Op("/", Name("s"), One)),
     Let("s", At(Name("u"), One)), Let("s", Method("u", "pop", <<>>)), Let("s", Method("u", "sum", <<>>)),
     Let("u", Seq1(One)), Let("u", Seq2(One, Word)), Let("u", Seq1(Name("s"))), Let("u", Ex("list", "", <<>>)),
     Let("s", At(Seq1(Method("u", "pop", <<>>)), One)),
     Let("u", Op("+", Name("u"), One)), Let("u", Op("*", Name("u"), Half)), Let("u", Op("+", Name("u"), Yes)),
     Let("u", Method("u", "map_add", <<Half>>)), Set(At(Name("u"), One), Name("s")),
     Just(Method("u", "append", <<One>>)), Just(Method("u", "append", <<Name("s")>>)),
     Just(Method("u", "insert", <<One, Half>>)),
     While(Name("s"), <<Just(Method("u", "append", <<Word>>))>>),
     For("v", Name("u"), <<Just(Method("u", "append", <<Name("v")>>))>>)}

\* A scalar, a row and a matrix.
LOCAL MatrixLines == {Let("s", One), Let("s", Word)} \cup
    {Let("s", At2(Name("m"), One, One)), Let("s", Method("m", "reduce_sum", <<>>)),
     Let("u", Seq2(Half, One)), Let("u", At(Name("m"), One)),
     Let("m", Seq2(Seq2(One, One), Seq2(One, One))), Let("m", Seq1(Seq2(One, Half))),
     Let("m", Op("*", Name("m"), Name("m"))), Let("m", Op("+", Name("m"), One)),
     Let("m", Attr(Name("m"), "T")), Let("m", Method("m", "matmul", <<Attr(Name("m"), "T")>>)),
     Let("m", Method("m", "to_list", <<>>)),
     Set(At(Name("m"), One), Name("u")), Set(At2(Name("m"), One, One), Name("s"))}

\* The rows of a matrix of two columns.
LOCAL RowLines ==
    {Let("m", Seq2(Seq2(One, One), Seq2(One, One))), Let("m", Op("+", Name("m"), Half)),
     Let("u", Seq2(One, Half)), Set(At(Name("m"), One), Name("u")),
     For("v", Name("m"), <<Let("u", Name("v"))>>),
     Let("u", Ex("index", "", <<Name("m"), Every, One>>)),
     Let("s", At(Name("u"), One))}

\* Branches, failures and functions.
LOCAL ControlLines == Scalars \cup
    {Let("u", Seq1(One)),
     Do("def", "f", <<Name("n")>>, <<<<Do("return", "", <<Op("+", Name("n"), One)>>, <<>>)>>>>),
     Let("s", Called(Name("f"), <<Name("s")>>)),
     Do("if", "", <<Name("s")>>, <<<<Let("s", Half)>>, <<Just(Method("u", "append", <<Name("s")>>))>>>>),
     Do("switch", "", <<Name("s"), One>>, <<<<Just(Method("u", "append", <<Name("s")>>))>>>>),
     Do("try", "e", <<>>, <<<<Let("s", Op("-", Name("s"), One)), Let("t", Yes)>>,
                            <<Let("t", Ex("not", "", <<Name("e")>>))>>>>),
     While(Op("<", Name("s"), One), <<Do("break", "", <<>>, <<>>)>>),
     Do("break", "", <<>>, <<>>),
     Let("s", Ex("neg", "", <<Name("s")>>)), Let("t", Ex("not", "", <<Name("s")>>))}

\* Tasks, groups and channels.
LOCAL TaskLines ==
    {Let("s", One), Let("u", Ex("list", "", <<>>)), Just(Method("u", "append", <<Name("s")>>)),
     Do("def", "f", <<>>, <<<<Do("return", "", <<One>>, <<>>)>>>>),
     Let("t", Called(Name("spawn"), <<Name("f")>>)), Let("s", Ex("await", "", <<Name("t")>>)),
     Let("s", Called(Name("join"), <<Name("t")>>)),
     Do("with", "g", <<>>, <<<<Let("t", Method("g", "spawn", <<Name("f")>>)),
                              Let("u", Method("g", "join_all", <<>>))>>>>),
     Let("c", Called(Name("channel"), <<One>>)), Just(Called(Name("send"), <<Name("c"), Name("s")>>)),
     Let("s", Method("c", "recv", <<>>)),
     Do("async_for", "v", <<Name("c")>>, <<<<Just(Method("u", "append", <<Name("v")>>))>>>>)}

MCCheckedPrograms == <<ListLines, MatrixLines, RowLines, ControlLines, TaskLines>>
NoCheckedPrograms == <<{}>>
=============================================================================
