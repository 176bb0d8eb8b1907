----------------------------- MODULE MCExecution -----------------------------
(* Programs of a fixed beginning, two parts from a pool and a fixed end; and  *)
(* single statements: loops of two and three statements from a pool, loops    *)
(* with a dispatch, ranges, ifs; and the commands of MCDriver.                *)
EXTENDS Execution, MCTyping, TLC

CONSTANTS p1, p2

Commands == INSTANCE MCDriver WITH Jobs <- [p \in Procs |-> {}]
MCJobs == Commands!MCJobs
NoJobs == [p \in {} |-> {}]

a == 1
b == 2
i == 3
n == 4
s == 5
x == 6
f == 7
t == 8
y == 9
g == 1      \* functions
h == 2

V(v) == Var(v)
Plus(l, r) == Bin("add", l, r)
Minus(l, r) == Bin("sub", l, r)
Count == Assign(i, Plus(V(i), Whole(1)))
Until(v) == Bin("lt", V(i), V(v))

Begin == << Assign(a, Whole(1)), Assign(b, Whole(3)), Assign(f, Half(1)), Assign(n, Whole(3)),
            Assign(i, Whole(0)), Assign(s, ListOf(<<Whole(1), V(b)>>)) >>
End == << Show(V(a)), Show(V(b)), Show(V(i)), Show(V(f)), Show(Un("len", V(s))),
          Show(Call(g, <<Whole(3)>>)), Show(Call(h, <<V(f), Whole(1)>>)) >>

Parts == <<
  << Assign(a, Bin("sub", Bin("mul", V(a), Whole(2)), V(b))) >>,
  << If(<<Bin("lt", V(a), V(b))>>, << <<Assign(a, Plus(V(a), Whole(1)))>>, <<Assign(b, Un("neg", V(b)))>> >>) >>,
  << If(<<Bin("eq", V(a), Whole(7)), Bin("and", Bin("ge", V(b), V(a)), Un("not", Bin("eq", V(b), V(n))))>>,
        << <<Show(V(a))>>, <<Assign(i, V(n))>>, <<Assign(f, Bin("div", V(a), Whole(2)))>> >>) >>,
  << While(Until(n), <<Assign(a, Plus(V(a), V(i))), Show(V(a)), Count>>) >>,
  << Assign(s, ListOf(<<>>)), While(Until(n), <<Method("append", s, <<V(i)>>), Count>>) >>,
  << Assign(i, Whole(0)), While(Until(n), <<Assign(f, Bin("sub", V(f), Half(3))), Count>>) >>,
  << ForRange(x, V(i), Whole(6), Whole(2), <<Assign(a, Plus(V(a), V(x))), Show(V(x))>>) >>,
  << ForRange(x, V(n), Whole(-1), Whole(-1), <<Assign(b, Bin("sub", V(b), V(x)))>>) >>,
  << ForIn(x, V(s), <<Method("append", s, <<V(x)>>), Assign(a, Plus(V(a), V(x)))>>) >>,
  << Method("insert", s, <<Whole(-1), V(a)>>), Method("pop", s, <<Whole(0)>>) >>,
  << SetIndex(s, Whole(0), V(a)), Show(IndexOf(s, Whole(1))) >>,
  << Assign(a, Call(g, <<V(n)>>)), Method("remove", s, <<Whole(1)>>) >>,
  << Assign(f, Call(h, <<V(f), V(a)>>)) >>,
  << Assign(a, Bin("mod", Un("neg", Plus(V(b), Whole(2))), Whole(4))), Assign(b, Bin("mod", V(b), Whole(3))) >>,
  << While(Bin("or", Until(n), Bin("gt", V(f), Whole(1))),
           << If(<<V(i)>>, << <<Assign(f, Bin("div", V(f), Whole(2)))>>, <<Show(V(f))>> >>), Count >>) >>,
  << Assign(t, ListOf(<<Half(1), V(b), Half(4)>>)), Method("append", t, <<V(a)>>),
     ForIn(y, V(t), <<Assign(f, Plus(V(f), V(y)))>>) >> >>

\* g(a) = a when a < 2, else g(a - 1) + 1; h(f, a) = f when f > a, else f + a
Functions_ ==
  << [params |-> (a :> 1), arity |-> 1, body |->
        << If(<<Bin("lt", V(a), Whole(2))>>,
              << <<Return(V(a))>>, <<Assign(b, Plus(Call(g, <<Bin("sub", V(a), Whole(1))>>), Whole(1)))>> >>),
           Return(V(b)) >>],
     [params |-> (f :> 1) @@ (a :> 2), arity |-> 2, body |->
        << Assign(x, V(f)),
           If(<<Bin("le", V(f), V(a))>>, << <<Assign(x, Plus(V(x), V(a)))>> >>),
           Return(V(x)) >>] >>

\* The same functions, g with all returns inside the if.
Branching ==
  [Functions_ EXCEPT ![g].body =
        << If(<<Bin("lt", V(a), Whole(2))>>,
              << <<Return(V(a))>>, <<Return(Plus(Call(g, <<Bin("sub", V(a), Whole(1))>>), Whole(1)))>> >>) >>]
\* ... and with nothing behind the return of the if.
OneArmed ==
  [Functions_ EXCEPT ![g].body =
        << If(<<Bin("lt", V(a), Whole(2))>>, << <<Return(V(a))>> >>),
           Return(Plus(Call(g, <<Bin("sub", V(a), Whole(1))>>), Whole(1))) >>]

ProgramOf(main, fns) == [main |-> Begin \o main \o End, fns |-> fns]

\* Programs that are compiled to something else, or that write behind a list.
Lossy == << ProgramOf(<<>>, Branching), ProgramOf(<<>>, OneArmed),
            ProgramOf(<< While(Until(n), <<Method("append", s, <<V(i)>>), Count>>) >>, Functions_),
            ProgramOf(<< Assign(s, ListOf(<<>>)),
                      While(Until(n), <<Method("append", s, <<V(i)>>), Method("append", s, <<V(a)>>), Count>>) >>,
                   Functions_) >>

\* A loop that comes back to the same values.
Idle == ProgramOf(<< ForRange(x, Whole(0), V(n), Whole(1), <<Assign(b, Minus(V(n), V(a)))>>) >>, Functions_)

\* Every part followed by every part, and those.
MCPrograms == [p \in 1..Len(Parts) * Len(Parts) |->
                 ProgramOf(Parts[((p - 1) \div Len(Parts)) + 1] \o Parts[((p - 1) % Len(Parts)) + 1], Functions_)]
              \o <<Idle>> \o Lossy

-----------------------------------------------------------------------------
Add(v, k) == Assign(v, Plus(V(v), Whole(k)))
Is(v, k) == Bin("eq", V(v), Whole(k))

Others == << Add(a, 1), Assign(a, Plus(V(a), V(b))), Assign(b, Minus(V(a), V(i))),
             Assign(a, Bin("mod", Plus(V(a), V(i)), Whole(3))), Assign(b, Narrow(Plus(V(a), Whole(3)))),
             If(<<Is(a, 0)>>, << <<Assign(a, Whole(2))>> >>),
             If(<<Bin("eq", Narrow(Whole(0)), V(a))>>, << <<Assign(a, Whole(2))>> >>),
             If(<<Bin("lt", V(a), V(b))>>, << <<Add(b, 1)>>, <<Add(a, -1)>> >>),
             Assign(b, Minus(V(n), V(b))), Show(V(a)), Add(n, -1), Break >>

Sequences(pool, sizes) == UNION {[1..k -> {pool[j] : j \in DOMAIN pool}] : k \in sizes}
Counts == {Add(i, 1), Add(i, 2)}
Around(count) == {<<count, z>> : z \in {Others[j] : j \in DOMAIN Others}}
                 \cup {<<z, count>> : z \in {Others[j] : j \in DOMAIN Others}}
                 \cup {<<q[1], q[2], count>> : q \in [1..2 -> {Others[j] : j \in DOMAIN Others}]}
                 \cup {<<q[1], count, q[2]>> : q \in [1..2 -> {Others[j] : j \in DOMAIN Others}]}

Loops == {While(Bin("lt", V(i), e), body) : e \in {V(n), Whole(7)}, body \in UNION {Around(count) : count \in Counts}}

\* A count and one operation, with what it may do to its target.
Operations == {Assign(a, Bin(op, V(a), e)) : op \in Arithmetic, e \in {V(b), V(i), V(n), Whole(2)}}
              \cup {Assign(a, Bin(op, V(b), e)) : op \in {"sub", "mod"}, e \in {V(b), V(i), V(n)}}
Singles == {While(Bin("lt", V(i), V(n)), body) :
               body \in UNION {{<<Add(i, k), z>>, <<z, Add(i, k)>>} : k \in {1, 2}, z \in Operations}}

\* The remainder of the index, then a step of the target that depends on it.
Selectors(v) ==
    {If(<<Is(s, 0)>>, <<<<Add(v, 1)>>, <<Add(v, -1)>>>>),
     If(<<Bin("eq", Whole(1), V(s)), Is(s, 2), Is(s, 1)>>, <<<<Add(v, 2)>>, <<Add(v, -3)>>, <<Add(v, 5)>>, <<Add(v, 0)>>>>),
     Switch(<<V(s), Whole(0), Un("neg", Whole(1))>>, <<<<Add(v, 1)>>, <<Assign(v, Minus(V(v), Whole(2)))>>>>),
     Switch(<<V(s), Whole(1), Whole(0)>>, <<<<Add(v, 1)>>, <<>>, <<Add(v, 7)>>>>),
     Switch(<<V(s), Whole(1)>>, <<<<Add(v, 1), Break>>>>)}
Bases == {Whole(2), Whole(3), Un("neg", Whole(2))}
Dispatches(v) == {<<Assign(s, Bin("mod", V(i), base)), z>> : base \in Bases, z \in Selectors(v)}

WhileDispatches ==
    {While(c[1], body \o <<Add(i, c[2])>>) :
        c \in {<<Bin("lt", V(i), Whole(7)), 1>>, <<Bin("le", V(i), V(n)), 2>>, <<Bin("gt", V(i), Whole(-4)), -1>>,
              <<Bin("lt", V(i), V(s)), 1>>, <<Bin("ge", V(i), V(b)), -2>>},
        body \in Dispatches(a) \cup Dispatches(s) \cup Dispatches(n)}

Ranges == {<<Whole(0), V(n), Whole(1)>>, <<Whole(0), Whole(7), Whole(1)>>, <<Whole(5), Whole(-4), Whole(-2)>>,
           <<Whole(-3), Whole(4), Whole(1)>>, <<V(n), V(n), Whole(1)>>, <<V(b), V(n), V(i)>>}

Repeats == << Add(a, 1), Assign(a, Plus(V(a), V(i))), Assign(a, Minus(V(i), V(a))), Assign(a, Bin("mul", V(b), Whole(2))),
              Add(b, 1), Assign(b, Plus(V(a), V(b))), Assign(b, Plus(V(b), V(n))), Assign(b, Minus(V(n), V(b))),
              If(<<Bin("lt", V(n), Whole(4))>>, << <<Add(b, 1)>> >>),
              If(<<Bin("lt", V(b), V(n))>>, << <<Assign(a, Bin("mul", V(a), Whole(-1)))>>, <<Assign(a, Minus(V(n), V(a)))>> >>),
              If(<<Bin("gt", V(i), Whole(1))>>, << <<Add(a, 2)>> >>),
              Show(V(a)), Break >>
RangeLoops == {ForRange(i, e[1], e[2], e[3], body) :
                  e \in Ranges,
                  body \in Dispatches(a) \cup Dispatches(s) \cup Sequences(Repeats, {1, 2})}

Conditions == {Is(a, 1), Is(a, 2), Bin("eq", Un("neg", Whole(1)), V(a)), Bin("lt", V(a), V(b)), Bin("ge", Plus(V(a), V(b)), V(n)),
               Bin("ne", Bin("mod", V(n), V(a)), Whole(0)), Bin("eq", Narrow(Bin("mul", V(a), Whole(2))), V(b)),
               Bin("gt", V(n), Half(3)), V(i)}
Ifs == {If(<<c>>, <<<<z>>>>) : c \in Conditions, z \in {Add(b, 1), Show(V(a))}}
       \cup {If(<<c, d>>, <<<<Add(b, 1)>>, <<Add(b, -2)>>, <<z>>>>) :
               c \in Conditions, d \in Conditions, z \in {Assign(b, Plus(Whole(3), V(b))), Add(n, 1), Break}}

WholeOf(k) == Value("Int", 2 * k)
Before(wa, wb, wi, wn) == [v \in Names |-> CASE v = a -> wa [] v = b -> wb [] v = i -> wi [] v = n -> wn [] OTHER -> Nil]

MCEnvironments ==
    {Before(wa, wb, WholeOf(0), WholeOf(3)) :
        wa \in {WholeOf(1), Value("Narrow", 2), Value("Float", 1)}, wb \in {WholeOf(2), Value("Narrow", 4), Nil}}
    \cup {Before(WholeOf(1), wb, WholeOf(-3), WholeOf(3)) : wb \in {WholeOf(2), Value("Narrow", 4)}}
    \cup {[Before(WholeOf(1), WholeOf(2), WholeOf(0), WholeOf(3)) EXCEPT ![s] = WholeOf(2)]}
MCStatements == Loops \cup Singles \cup WhileDispatches \cup RangeLoops \cup Ifs

\* A range in which the second statement cannot be repeated on its own.
NoPrograms == <<>>
TwiceStatements == {ForRange(i, Whole(0), V(n), Whole(1), <<Add(b, 1), Assign(a, Plus(V(a), V(i)))>>)}
TwiceEnvironments == {Before(WholeOf(0), WholeOf(0), Nil, WholeOf(5))}
=============================================================================
