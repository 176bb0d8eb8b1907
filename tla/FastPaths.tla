------------------------------ MODULE FastPaths ------------------------------
(***************************************************************************)
(* One statement of a program, run by the paths that the evaluator tries   *)
(* in order: a while loop as a block, as a step and one operation, as a    *)
(* dispatch, with a tail increment and statement by statement; a for loop  *)
(* over a range as a dispatch, as operations repeated on their own and     *)
(* value by value; an if on plain ints.  A path that declines hands the    *)
(* state it leaves to the next one.  The statement means what the          *)
(* evaluator that walks the tree makes of it.                              *)
(***************************************************************************)
EXTENDS ForPlans, BranchPlans, SequencesExt

CONSTANTS
    Statements,     \* the statements that are run
    Environments    \* the values of the variables before

VARIABLES
    stmt, given,    \* the statement and the variables before
    isBoxed,         \* the accumulators of a for loop are i64 and f64, not int and double
    path,           \* the path that is tried next
    now,            \* the state of the run
    meant,          \* the state that the evaluator ends with
    again           \* the operations of a range had begun when they were declined

fastVars == <<stmt, given, isBoxed, path, now, meant, again>>

FirstPath(s) ==
    IF s.op = "if" THEN "branch"
    ELSE IF s.op = "while" THEN (IF HasLoopControl(s.bodies[1]) THEN "walk" ELSE "block")
    ELSE IF HasLoopControl(s.bodies[1]) THEN "values" ELSE "range dispatch"

FastInit ==
    /\ stmt \in Statements /\ given \in Environments
    /\ isBoxed \in IF stmt.op = "range" THEN BOOLEAN ELSE {FALSE}
    /\ path = FirstPath(stmt)
    /\ now = Start(given)
    /\ meant = ExecuteOne(stmt, Start(given), <<>>)
    /\ again = FALSE

Keeps == UNCHANGED <<stmt, given, isBoxed, meant>>

\* The result of a path, and the path that comes after it.
Goes(result, next) ==
    /\ now' = result.st
    /\ path' = IF result.done THEN "done" ELSE next
    /\ Keeps
Follow(result, next) == Goes(result, next) /\ UNCHANGED again

Plan(plans, Do(_)) == IF plans = <<>> THEN Declined(now) ELSE Do(plans[1])

TryBlock ==
    /\ path = "block"
    /\ Follow(Plan(BlockPlan(stmt), LAMBDA p : RunBlock(p, now)), "single")

TrySingle ==
    /\ path = "single"
    /\ Follow(Plan(SinglePlan(stmt), LAMBDA p : RunSingle(p, now)), "dispatch")

TryDispatch ==
    /\ path = "dispatch"
    /\ Follow(Plan(TailStep(stmt, now), LAMBDA k : RunDispatch(stmt, k, now)), "tail")

TryTail ==
    /\ path = "tail"
    /\ Follow(Plan(TailStep(stmt, now), LAMBDA k : Done(RunTail(stmt, k, now))), "walk")

WalkWhile ==
    /\ path = "walk"
    /\ Follow(Done(LoopTurns(stmt, ConditionPlan(stmt.es[1]), now, MaxTurns)), "done")

OnRange(st, Do(_)) ==
    LET ranges == RangeOf(stmt, st) IN IF ranges = <<>> THEN Done(Fail(now)) ELSE Do(ranges[1])

TryRangeDispatch ==
    /\ path = "range dispatch"
    /\ Follow(OnRange(now, LAMBDA r : RunForDispatch(stmt, r, now)), "aggregate")

TryAggregate ==
    /\ path = "aggregate"
    /\ Goes(OnRange(now, LAMBDA r : RunForAggregate(stmt, r, now, isBoxed)), "turns")
    /\ again' = (path' = "turns" /\ \E x \in Names \ {stmt.x} : now'.env[x] # given[x])

Turns(r) ==
    LET items == [k \in 1..Clamped(r.n, 0, MaxTurns + 1) |-> Value("Int", 2 * (r.from + (k - 1) * r.step))]
    IN  ExecuteTurns(stmt, items, now, <<>>, MaxTurns)

\* The range is not evaluated again.
WalkRange ==
    /\ path = "turns"
    /\ Follow(OnRange(Start(given), LAMBDA r : Done(Turns(r))), "done")

\* The list that range() returns.
WalkValues ==
    /\ path = "values"
    /\ Follow(Done(ExecuteOne(stmt, now, <<>>)), "done")

Branch ==
    /\ path = "branch"
    /\ Follow(Done(RunIf(stmt, now)), "done")

FastNext == \/ TryBlock \/ TrySingle \/ TryDispatch \/ TryTail \/ WalkWhile
            \/ TryRangeDispatch \/ TryAggregate \/ WalkRange \/ WalkValues \/ Branch

FastSpec == FastInit /\ [][FastNext]_fastVars

-----------------------------------------------------------------------------
\* The steps of a kind of the loop as a block.
StepsIn(plans, kinds) ==
    UNION {{p.steps[k].plan : k \in {j \in DOMAIN p.steps : p.steps[j].kind \in kinds}} : p \in ToSet(plans)}
Chosen == StepsIn(BlockPlan(stmt), {"expression", "guard"})

\* The dispatch of the loop, whose index is the loop variable or that of the condition.
DispatchOf ==
    LET body == stmt.bodies[1]
        index == IF stmt.op = "range" THEN stmt.x ELSE stmt.es[1].args[1].v
    IN  IF (stmt.op = "range" /\ Len(body) = 2) \/ (stmt.op = "while" /\ Len(body) = 3)
        THEN ToSet(DispatchPlan(body[1], body[2], index)) ELSE {}

RECURSIVE AssignmentsIn(_)
AssignmentsIn(body) ==
    UNION {IF body[k].op = "assign" THEN {body[k]}
           ELSE UNION {AssignmentsIn(body[k].bodies[j]) : j \in DOMAIN body[k].bodies} : k \in DOMAIN body}

MayBeNarrow(x) == \/ given[x].kind = "Narrow"
                  \/ \E s \in AssignmentsIn(stmt.bodies[1]) : s.x = x /\ s.es[1].op = "narrow"

\* A narrow int that an expression, a guard or a dispatch assigns stays narrow.
KeepsNarrow ==
    \/ \E p \in Chosen : ~p.forced /\ MayBeNarrow(p.target)
    \/ \E p \in DispatchOf : given[p.target].kind = "Narrow"

\* A guard whose constructor stands only in its condition makes a narrow int.
ForcesKind ==
    \E p \in ToSet(BlockPlan(stmt)) : \E k \in DOMAIN p.steps :
        /\ p.steps[k].kind = "guard" /\ p.steps[k].plan.forced
        /\ p.steps[k].source.bodies[1][1].es[1].op # "narrow"

\* A block that is fused up to a step it cannot take, behind the increment,
\* goes on with the next turn, and what it computed in the first is not stored.
LosesTurn ==
    \E p \in ToSet(BlockPlan(stmt)) :
        /\ Fuses(p, Start(given))
        /\ \E j, k \in DOMAIN p.steps :
              /\ j < k /\ p.steps[j].kind = "step"
              /\ p.steps[k].kind \notin {"operation", "step"}
              /\ \A i \in 1..k - 1 : p.steps[i].kind \in {"operation", "step"}

\* What is not defined before the loop starts as 0.
StartsAtZero == \E p \in Chosen : given[p.target] = Nil

\* A remainder of doubles, which the evaluator refuses, is computed.
RemainderOfFloats ==
    \E s \in AssignmentsIn(stmt.bodies[1]) : s.es[1].op = "mod" /\ given[s.x].kind = "Float"

\* The target of a dispatch is its selector or the loop variable.
TargetNotApart == \E p \in DispatchOf : p.target = p.selector \/ (stmt.op = "range" /\ stmt.x \in {p.target, p.selector})

\* A condition in a range loop is evaluated once, before the first turn, though
\* the body assigns a variable it reads, or it has no value and there is no turn.
ConditionDecidedOnce ==
    /\ stmt.op = "range"
    /\ LET body == stmt.bodies[1]
           conditions == {body[k].es[1] : k \in {j \in DOMAIN body : body[j].op = "if"}}
       IN  \/ \E e \in conditions, s \in AssignmentsIn(body) : Reads(e, s.x)
           \/ RangeOf(stmt, Start(given)) # <<>> /\ Collected(body, stmt.x, Start(given)).outcome = "throws"

Diverges == \/ TargetNotApart \/ KeepsNarrow \/ ForcesKind \/ LosesTurn \/ StartsAtZero
            \/ RemainderOfFloats \/ ConditionDecidedOnce \/ again

\* Whatever path a statement takes, it ends as the evaluator that walks the tree
\* ends it, with the same values, output and error: the same is meant by the
\* plans of execute_case_while, execute_case_for and stmt_if, with their limits,
\* counts and sums.
SameAsInterpreter ==
    path = "done" /\ ~Diverges /\ meant.signal # "endless" =>
        /\ now.signal = meant.signal /\ now.out = meant.out
        /\ now.signal # "error" => now.env = meant.env

\* "Speed optimizations are only acceptable when semantics are preserved exactly"
\* (doc/decisions.md): also for a loop that declines half way.
SameForEveryRange ==
    path = "done" /\ stmt.op = "range" /\ meant.signal = "go" => now.env = meant.env
=============================================================================
