# Verification project for the KozmikaDil (Spark) language

TLA+ modules, TLC configurations and TLAPS proofs kept beside the Spark
compiler, interpreter and runtime (`src/src/core`, headers in
`src/include/spark`).  Paths are relative to the directory that holds `src/`.
Short for long ones: `async/` is `src/src/core/logic/pipeline/async_runtime/runtime/`,
`stream/` is `src/src/core/logic/pipeline/stream_pipeline/runtime/`, `hetero/` is
`src/src/core/logic/runtime/hetero_runtime/runtime/`, `scalar/` is
`src/src/core/logic/runtime/scalar_runtime/runtime/`, `gpu/` is
`src/src/core/logic/schedule/schedule_gpu/runtime/`, `expr/` and `stmt/` are those of
`src/src/core/manager/typecheck/semantic_runtime/evaluator_parts/`, `semantic/` is
`src/src/core/manager/typecheck/semantic_runtime/semantic_parts/`, `codegen/` is
`src/src/core/servis/codegen/lowering/codegen_parts/` and `driver/` is
`src/src/core/driver/parsing/bootstrap/sparkc_main_parts/`.

## 1. Inventory

Spark is a small Python-like language with a type checker, an interpreter, a
compiler to C, a runtime with tasks and channels, and containers that keep typed
copies of their contents to be fast.  What can go wrong in it falls in four
groups: threads (tasks, channels, the scheduler, the data-parallel builtins,
several processes at one cache of binaries), caches (list and matrix layouts,
packed operands, pipelines, variable lookups), two ways to do the same thing
(fast paths against the walk over the tree, fused against staged chains,
compiled C against the interpreter), and what is promised ahead (types, tiers,
the binary under a key).

| Component | State | Operations | What makes it correct |
|---|---|---|---|
| Channels (`async/03`) | queue, closed, two condition variables, one mutex | send, recv with and without timeout, close, has_next | FIFO, once each, bounded, never all who wait sleep on what has come, close releases everybody, nil is final |
| `async for` over channels (`stmt/stmt_for.cpp`, `async/05`) | the loop variable | one recv per turn; ends at None, a break or an exception of the body | every message is seen by one body, the loops end |
| Scheduler (`async/01`) | a deque and a mutex per worker, pending_, done_, one condition variable | enqueue, local pop, steal, assist, run, shutdown | a task runs once, is not lost, the program ends, no thread waits for itself |
| Tasks (`async/02`) | future, cancellation token, queue hint | spawn, await/join with timeout, cancel | await returns the value or rethrows, a cancelled task does not start |
| Task groups (`async/02`, `stmt/stmt_with_task_group.cpp`) | list of tasks, token, timeout | spawn, join_all, cancel_all, the scope | the scope joins, nothing starts after a failure |
| Data-parallel builtins (`async/04`) | BatchState: remaining, first error, condition variable | parallel_for, par_map, par_reduce | each item once, errors surface, order of the reduction, no task outlives the call |
| List caches (`hetero/01`, `hetero/02`, `expr/expr_attribute.cpp`, `scalar/index_assign.cpp`) | version, plan, packed copies, cached sum | reduce_sum, map_add, every mutation | the cache describes the cells it is next to |
| Matrix caches and products (`hetero/01`, `hetero/03`, `gpu/02`, `gpu/04`) | the same per variable; process-wide packs and sums keyed by address and version | matmul, matmul_sum, writes, assignment (shares the cells) | a kernel receives the numbers of the matrix, a cached sum is the sum |
| Stream pipelines (`stream/`) | numeric copy of the source, keyed by environment, name and version | map, filter, zip, scan, reduce, fused or not | fused = stage by stage, the copy is that of the present list |
| Environments and calls (`scalar/environment.cpp`, `stmt/stmt_function.cpp`, `async/02`) | bindings, parent, frozen flag, owner cache; a table of assignment targets per thread | define, set, get, capture, call | a lookup finds the innermost binding, what a call binds is its own |
| Statements (`stmt/`) | the variables | while, for, if, assignment with their fast paths | each path, and each sequence of paths that decline, ends as the walk over the tree does |
| Expressions (`expr/`, `scalar/`) | caches of operands and callees | evaluation | numbers, promotion, saturation, kinds of values |
| Semantic analysis (`semantic/`) | scopes, types, stacks of functions and loops with their reasons | inference, check of statements, tiers | the values are what their types say, the first tier keeps its promise |
| Code generation (`codegen/`) | kinds of variables, temporaries, labels, C types | lowering, IR to C, and the C that results | compiled = interpreted, no undefined behaviour |
| Driver (`driver/`) | the source, the cache of binaries, files, the environment | run, build, compile, check, analyze, PGO | a run executes the binary of its own text and flags, shows its output once, falls back |
| Lexer, parser (`src/src/core/driver/parsing/parsing/`) | tokens, indentation | tokenise, parse | not modelled |
| Numeric primitives (`scalar/primitives/`) | cached MPFR values | arithmetic of all kinds | widths, promotion, repetition in place |

Interactions.  `spawn`, `parallel_for`, `par_map`, `par_reduce` and
`TaskGroup.spawn` enqueue closures on one process-wide scheduler.  A thread that
awaits runs other tasks on its own stack (assist); a thread in `wait_batch` or
in a channel operation blocks.  Tasks talk through channels.  Lists and matrices
carry their caches inside the value, so copying a variable copies the cache;
the cells of a matrix are shared by the copies, those of a list are not.  The
caches of matmul are shared by everything in the process and are not locked.
The driver checks a program, then compiles it or hands it to the interpreter;
runs of several processes share one directory of binaries.  PROJECT.json lists
under `hazards` what is hard to test, each at its line.

## 2. Modules

Threads:

| Module | Models | State and actions |
|---|---|---|
| `Channel` | one channel and its threads | `queue`, `closed` and the counters are the fields of ChannelHandle; `pc` says where each thread is. What is done under the mutex is one action (SendPush, RecvPop), a notification after the unlock another; send, recv with and without timeout, has_next, close. `sent`, `received` are history |
| `BoundedFifo` | what a channel promises | Put, Take, Shut; `Channel` implements it |
| `ChannelStream` | producers, a closer that joins them, `async for` loops over one channel | EXTENDS Channel; LoopTurn runs the body and asks again, LoopLeave leaves by a break or an exception of the body, LoopEnd at None |
| `Scripts` | the programs of the scheduler | each task is a sequence of spawn, await, wait_batch (a parallel call) and, for the main program, exit |
| `Scheduler` | workers, thieves, assisting threads, spawn, await, wait_batch, shutdown | a program is a script per task; `stack[t]` is the C++ stack of thread t as the tasks it has begun; every mutex section, atomic access and notification is an action |
| `ForkJoin` | what the scheduler promises | ForkTask, JoinTasks, BeginTask, EndTask, Leave, on the state of each task and the operation it is at; `Scheduler` implements it |
| `Runtime` | the runtime below the language constructs | EXTENDS Channel and Scheduler, `part` says which a run is about |
| `ParallelBatch` | one call of parallel_for, par_map or par_reduce | the program counters of the caller and the chunk tasks over BatchState |
| `TaskGroup` | one `with task_group` scope | the body, the tasks, join_all on its copy of the list, the catch block with its second join |
| `Concurrency` | the constructs in which a thread waits | composes ParallelBatch, TaskGroup and ChannelStream, `construct` says which runs |

Caches:

| Module | Models | State and actions |
|---|---|---|
| `ListCache` | a list variable with its cache | operators named as in the code (ChooseListPlan, EnsureListPlan, MaterializeIfNeeded, InvalidateListCache), one action per operation of the language |
| `MatrixCache` | matrix variables, the heap of their cells, the packs and the product sums | Acquire, Kernel, MatmulSumOf as in `gpu/02` and `gpu/04`; addresses are handed out again once no variable uses them |
| `Closures` | a function, what it captured and its calls on several threads | `env` holds the environments by stable_id with their owner caches, `slot` each thread's table of assignment targets, `pending` an assignment between finding its target and writing it |
| `Pipeline` | chains of methods on a list | EXTENDS ListCache: the list is mutated, assigned to and summed as there; RunPipeline answers a chain, fused (over the numeric copy) or not, and Unfused says what the stages answer one by one |
| `StateCaches` | a program that computes with a list, with chains on a list, with matrices or with closures | EXTENDS Pipeline, composes it with MatrixCache and Closures; `subject` says which |

Execution of a program:

| Module | Models | State and actions |
|---|---|---|
| `Interpreter` | the language and the walk over its tree | Evaluate and Execute as functions of a state with variables, output and signal; numbers in halves |
| `Codegen`, `CBackend` | CodeGenerator and IRToCGenerator | the first lowers a program to instructions, the second turns them into C and its specification runs that C step by step with the lists of its runtime |
| `NumericRepeat` | eval_numeric_repeat_inplace | x op r, n times, without n steps |
| `PlanShapes`, `WhilePlans`, `ForPlans`, `BranchPlans` | the recognizers and the fast paths of while, for and if | a path gives [done, st] from the state the one before has left |
| `FastPaths` | one statement run by the paths in their order | one step per path; `meant` is where the walk over the tree ends |
| `Driver` | sparkc with its files | processes at one source that is edited; a step per part of the tool chain, which may fail; Kill |
| `Semantic` | TypeChecker | the checker is a record (scopes, stacks of reasons, reports, verdict), every check is a function from one to the next |
| `Typing` | a program that is checked and run | NextLine checks the next statement and, unless it is rejected, runs it on the kinds of the values |
| `Execution` | how a program is run | EXTENDS CBackend, FastPaths and Driver and composes them with Typing; `subject` says which |

Proofs, each about the modules it extends (section 5):

| Module | Proves of |
|---|---|
| `ChannelProofs` | Channel and ChannelStream |
| `SchedulerProofs` | Scheduler |
| `TaskGroupProofs` | TaskGroup |
| `ConcurrencyProofs` | ParallelBatch, and Concurrency by way of the two above |
| `ClosureProofs` | Closures |
| `MatrixCacheProofs` | MatrixCache |
| `StateCachesProofs` | ListCache and Pipeline, and StateCaches by way of the two above |
| `DriverProofs` | Driver |

Each component has an `MC` module with the values TLC gives the constants.
`PROJECT.json` maps every definition to the lines it translates.  Definitions
named `Bad...` or `Worse...` are plausible faults: none is used by a
specification; each is put in the place of the definition that follows it, to
see that a property notices.

Compositions whose parts share no state fix at the start which part runs: the
parts are then checked side by side by one run, and a part has its own
variables only.

Abstractions.  Payloads are model values, numbers are small; time is left out (a
timeout may expire at any moment of a wait); statistics no branch reads are left
out.  Relaxed atomics are read and written one at a time: the token and
`pending_` carry no data between threads that is not also under a mutex.  A
number that is kept in a double is rounded (`Double`, with `Exact` in the place
of 2^53), a number in the text of a key is rounded to six digits (`Printed`).
In Interpreter a narrow int saturates at `NarrowBits`, and half numbers tell a
double from an int that was truncated.  Typing keeps of a value its kind only,
so it leaves open which item an index finds, how often a loop turns and which
branch is taken; a statement that fails is not taken.

Semantic was compared with the program itself: `sparkc analyze --dump-types
--dump-tiers` on 1550 generated programs, of which 1240 are accepted, gave the
same verdicts, types of variables and tiers as the model.

## 3. Runs

Four runs pass and eight show a violation.  Deadlock is not checked anywhere:
the programs end (scopes are left, loops end, bounds are reached), and that they
do not end early is stated by the liveness properties.

* `runtime` (`MCRuntime`): two parts.
  * Channel: two senders of two messages, one receiver that may give timeouts or
    ask has_next first, one closer, spurious wakeups, two slots.  Two slots are the
    least at which a push or a pop need not cross a boundary and therefore notifies
    nobody; two senders of two messages are the least that wait together at a full
    queue of that size.
  * Tasks: a nested await of three tasks, and a parallel call within a task, each on
    one worker and on two, and a parallel call of two chunks on two, against the
    fork-join program.  One worker is where notifications are lost, two are enough
    for stealing in both directions, and one parallel call within a task keeps the
    only worker there is.
* `concurrency` (`MCConcurrency`): calls of up to five items in chunks of two
  (none, one chunk, a short last chunk), every set of failing items; a group of
  three tasks of the body or of one another, with failures, cancellation,
  timeouts and the name rebound; two loops, whose bodies go on, break or throw, over
  a channel of two slots with two producers of two messages, a None among them, so
  that both sides of the channel lose wakeups.  The tasks of a group are made in one
  order, since which name a new task gets is all one.
* `state_caches` (`MCStateCaches`): a list of up to four cells of three kinds, an
  int, a double and one that is no number, values up to 5 and two mutations;
  `ChunkMin` 4 and `Exact` 8 so that every plan and the rounding occur.  Or such a
  list with seven chains, one for every form of the loop, one that is a method
  and one that is refused: `ChainSize` 4 bounds the number of cells plus that of
  the numbers among them, and `ChainVersions` 1 allows one mutation after each
  assignment, since a copy is stale or not after one.  A `ChunkMin` above the
  length of a list of three kinds keeps it out of the plans in chunks, so that
  map_add also leaves a sum in a cache without a plan.  Or two
  matrix variables over three addresses with vectors of three cells and three
  operations, two kept sums so that the store is emptied; two threads with three
  calls, so that a call begins after another has left its entries in the table,
  over a captured name, one that is captured and a parameter, and a new one.
* `programs` (`MCExecution`): four subjects.
  * Compiled: 256 programs of two out of sixteen parts and five of their own
    (arithmetic, if chains, loops, lists with their methods, recursive and typed
    functions, functions that return in branches; a loop that comes back to the same
    values, and lists that outgrow their reserve), with nine variables and at most
    twelve turns of a loop.
  * Interpreted: 3106 loops and ifs from up to twelve environments of ints, narrow
    ints, doubles and undefined names.  Narrow ints have five bits (`NarrowBits`), so
    that a loop of three turns does not saturate at once and a lost turn is seen.
    `ProbeLimit` 3 in the place of 2048 makes repetition leave the probes behind
    within twelve turns.  Pairs that do not end within `MaxTurns` are not compared.
  * Command: two processes, seven commands for one and a `run` of the same or of
    another build of sparkc for the other, the text edited once (`MaxVersion` 2),
    any part of the tool chain failing, either process killed.
  * Typed: five pools of statements (lists; matrices; rows; branches, failures
    and functions; tasks, groups and channels), any number of statements, lists
    of up to `MaxItems` 2 items, loops of up to `MostTurns` 1 turn: two items are
    what a list needs to mix kinds, and one turn to make the checker's single
    pass over a body differ from none.
* `channel_two_slots` (violation): two senders wait at a full channel of two slots;
  two pops notify once, and a sender sleeps beside a free slot for good.
* `scheduler_assist_lock` (violation): an assisting thread runs a task that
  spawns while it holds the mutex of a queue.
* `scheduler_batch_one_worker` (violation): a batch on one worker.
* `task_group_join` (violation): a failed scope stops joining at the first task
  that failed.
* `list_stale_sum` (violation): a sum kept in a cache without a live plan.
* `matrix_stale_pack` (violation): a 2x2 matrix, multiplied, written in the one
  cell the probe does not read, multiplied again.
* `run_without_cache` (violation): with the cache of binaries switched off, the
  run executes the empty file that was made for its name.
* `range_runs_twice` (violation): a range loop whose second statement cannot be
  repeated on its own begins again after the first was repeated.

What the properties of the passing runs say:

| Run | Properties |
|---|---|
| runtime | FifoDelivery, ImplementsFifo (bounded FIFO); EndIsFinal; CloseReleasesAll; NoLostWakeup; Delivery, SendReturns (liveness); RunOnce; PendingSettles; NoSleepingOnWork; ImplementsForkJoin (fork-join program); RunEnds (liveness) |
| concurrency | NothingLeftRunning, EachItemOnce, ErrorsSurface, ReduceInOrder (batches); NormalExitJoinsBody, NoLateStart (groups); DrainedAtEnd, AllConsumed (loops); WaitsEnd (liveness of all three) |
| state_caches | PlansFresh, SumsKept (lists, with chains or without); ChainsCorrect (chains); OwnSumCorrect, ProbedPackCorrect, SumCacheCorrect (matrices); LookupsFresh, OwnVariables (scopes) |
| programs | RegistersTyped, NothingUndefined, PrintsWhatInterpreterPrints, Ends (compiled); SameAsInterpreter (interpreted); OwnBinary, OwnTuning, FallsBack (command); TypesHold (typed) |

Fairness.  Each thread inside the runtime is weakly fair: the operating system
runs it.  In `runtime` a receiver asks again, as a loop does; nobody is obliged
to call send or close, no timeout must expire, no wait must end by itself.  The
chunk tasks of a batch are strongly fair, because the mutex they need may be
taken again and again by a caller that wakes up spuriously.  Functions of the
program terminate.  The steps of a compiled program are weakly fair: it is one
thread of one process.  Nothing is assumed of commands, which may be killed, and
nothing of the other subjects.

What the channel promises of wakeups.  `send` and `recv` notify one thread, and
only when the queue crosses empty or full, so that with two slots or more a thread
can be passed over: it sleeps although what it waits for has come, until the next
crossing, or close().  `channel_two_slots` shows the sender to whom this happens for
good.  What the code does keep, at every capacity and for any number of threads, is
NoLostWakeup: never do all senders sleep beside a free slot, nor all receivers on
a message, unless a notification is on its way.  (With one sender and one receiver
this says that nobody oversleeps.)  SendReturns says that being passed over
(`PassedOver`) is the only way in which a send does not return, Delivery that what
was pushed arrives all the same, and WaitsEnd that only such a sender or receiver
(`SomebodyOversleeps`) keeps the loops of a program from ending.

What the scheduler promises of its end.  RunEnds says that the program ends and
the scheduler is destroyed, and names the two ways in which the code does not get
there.  `TaskMissed`: a task is queued, every worker sleeps or waits in a parallel
call of its own, and somebody waits in one; wait_batch runs nothing meanwhile
(`async/04_parallel_runtime.cpp:67`).  `ShutdownMissed`: the destructor notifies
once and without the mutex (`async/01_scheduler.cpp:46-54`), which a worker between its
predicate and its wait does not hear, and joins it.  `scheduler_batch_one_worker` is
the first without nesting, against a test of the repository.

## 4. Findings and known divergences

The eight violation runs are the findings, each quoted in PROJECT.json against
the line it contradicts.  What follows was met while modelling and has no run of
its own.  The properties above are stated for the programs that avoid it, or say
so in their definition (`Diverges` of FastPaths names every exemption).

Threads, lists and matrices:

* the destructor of the scheduler can join a worker that has missed its only
  notification, and a parallel call within a task can keep the last worker (section 3);
  both are exempted by name in RunEnds;
* a None that is sent ends an `async for` over the channel like its end does;
* a sum of ints above 2^53 is answered exactly the first time and rounded on the
  second (`hetero/02_hetero_list_ops.cpp:191,206`);
* after `b = a; b[0,0] = 9` the matrices share the cells but only b's cache is
  invalidated, so `a.reduce_sum()` may answer the old sum
  (`scalar/index_assign.cpp:76`);
* the sum that map_add leaves in a cache without a plan
  (`hetero/02_hetero_list_ops.cpp`, shown by `list_stale_sum`) outlives the
  mutations after it, and a chain gives the cache a plan without asking for the
  sum (`stream/03_pipeline_exec_list.cpp:307-310`), so that the next `reduce_sum`
  of a list with a live plan answers it too.  PlansFresh and SumsKept exempt this
  sum (`boxedSum` says where it is).  It was found by the proof: the run had lists
  of two cells and missed it;
* the key of a product sum has no shapes and six-digit numbers (`gpu/04:145`), and
  the caches of matmul are unlocked static maps (`gpu/02:222`);
* an assignment in a function writes in place into the captured environment,
  because `get_ptr` (`stmt/stmt_assign.cpp:1292`) does not ask for `frozen`: after
  `x = 0; def f(): x = x + 1` the calls of f see one another's x, although
  `src/doc/memory_model.md:30` says "concurrent closures execute with frozen
  capture environments".

Expressions and chains:

* a list literal evaluates its items and then again as rows, up to the first
  that is no list (`expr/expr_list.cpp:15-18`, `scalar/matrix_literal.cpp:43`):
  `y = [xs.pop(), 0]` pops twice.  Typing evaluates as often as the code;
* `get_var_ref_cached` (`expr/expr_binary.cpp:816`) keeps the pointer to an operand
  without an epoch: in `x = 1; def f(n)` a loop that reads `x + 1` and then runs
  `for x in [10]` reads 1 for x in `x + 1` for ever, where `print(x)` shows 10;
  `try_lookup_builtin_callee` (`expr/expr_call.cpp`) caches a callee the same way;
* the numeric copy of a pipeline outlives an assignment to the variable:
  `xs = [1, 2.5]; xs.map_add(1).sum(); xs = [3, 4.5]` and the same chain again
  answers 5.5 for 9.5 (ChainsCorrect asks that the variable was not assigned to);
  a fused sum is added up in doubles, so that ChainsCorrect asks for a sum below
  `Exact`: `reduce_sum` of the list a stage leaves may be rounded at another place;
  `zip_add` after a filter pairs by the index in the source when fused and in the
  filtered list when not; the arguments of a chain that is not intercepted are
  evaluated twice (`stream/02_pipeline_parse.cpp:58`).

Fast paths of the statements (against the walk over the tree, exempted by
`Diverges`): a target that is narrow stays narrow; one that is undefined starts
as 0; the remainder of floats is computed where the evaluator refuses it; a
dispatch whose target is its selector or the loop variable loses the write; the
condition of an if in a range loop is decided once, before the loop
(`stmt/stmt_for.cpp:850`); a range that declines half way begins again.
A block that is fused up to a statement it cannot take goes on with the next turn
when that statement stands behind the increment, and what it computed in the turn
is not stored (`LosesTurn`; `stmt/stmt_while.cpp:2676-2683, 2820-2830`): with
`a = i8(1)`, `b = i8(2)` and `i < 3`, the body `a = a + b; i = i + 1; b = i8(a + 3)`
ends with a at 21 by the walk and at 9 by the fast path.  A guard whose condition
compares with a typed zero forces that kind on its target (`ForcesKind`;
`stmt/stmt_while.cpp:1749-1750`).  Left out
of the models: loops whose index becomes a non-int ("expects integer loop
index"), one-instruction forms that decline in mid-turn
(`stmt/stmt_while.cpp:2905-2945`), nested constructors.

Compiled programs (against the interpreter).  The first three are in the pool of
programs and exempted by name, the others are avoided:

* the branches of an if are compiled in copies of the function's context and only
  their scopes are merged back (`codegen/04_codegen_front.cpp:761, 778`,
  `codegen/06_codegen_expr.cpp:391-406`): a function that returns in branches only has
  no return type, becomes void (`codegen/04_codegen_front.cpp:593`), and print of its
  call shows nothing (`LosesReturn`);
* an if without else all of whose branches return, or a loop whose body ends in
  return, leaves has_terminated set, and the code that follows is dropped
  (`LosesRest`; `codegen/04_codegen_front.cpp:725-795, 797-1165`);
* a counting loop reserves room for one append a turn on an empty list: with two
  appends, or a list that has items, it writes beyond what it reserved (`Outgrows`;
  `codegen/04_codegen_front.cpp:1117`);
* a C variable has the type of its first line (`codegen/03_ir_to_c.cpp:1811-1866`);
  the results of list_get_f64 and pop_f64 are typed i64; `[x]` with a float x is a
  list of ints; the stop of a range is read again in each turn and the loop variable
  ends one step further; negative indexes are not checked; assigning a list
  aliases it and `==` compares pointers; removing a missing item is silent.

Driver: automatic PGO that falls back builds inside the environment block of the
profiled build; a link that is killed leaves a partial binary in the cache for good,
and one that fails or is under way in another process can be executed (`Spoiled`:
the run then ends with 126 or 127); a binary that ends with status 1 after a build
of its own has failed is taken for one that did not run, the program is interpreted
as well and its output appears twice (`driver/03_execute.cpp:359`; ShownOnce allows
just that); the key of a binary has neither SPARK_CC nor LDFLAGS nor the environment
forms of LTO, PGO and target (`Unnamed`); SPARK_LDFLAGS and SPARK_TARGET_LDFLAGS join
the same compiler command behind the strict filter (`driver/02_pipeline.cpp:131-156`),
although `driver/01_common.cpp:324-325` states the policy for the build, so that no
property claims strict precision; `compile` reads the source twice.

The type checker is unsound for these, and the pools of `typed` avoid them:

1. list + list keeps the type of the left list (`semantic/05_expr_infer.cpp:409`),
   although `src/doc/decisions.md:64` says "mixed container element types map to
   `Any`" and T4 "requires: stable element types inside hot loops"
   (`src/doc/tier_model.md:20-21`);
2. a matrix of mixed cells plus a matrix is typed as text;
3. a loop or catch variable named like an outer variable: the checker shadows it,
   the interpreter writes it;
4. branches, loops and try bodies are merged by the last write;
5. values of unknown type (results of functions) enter typed lists unseen;
6. map_add of a list of several kinds is a list of floats; a slice of a matrix is
   typed as a list of lists;
7. a store into a list of Any gives no reason to the loop around it;
8. append and insert compare kinds only: a list of lists of ints takes a list of
   texts;
9. rows of a matrix of one column are scalars (`stmt/stmt_for.cpp:1289`) where the
   checker says List (`semantic/04_analysis.cpp:457`) and `src/doc/decisions.md:130`
   "binds `row` as `List[T]` (row view/value semantics), not scalar element": the
   program `m = [[1], [2]]`, `for r in m: print(r[0])` passes the check and fails.

It also looks at the operands of a binary expression twice at each level
(`semantic/04_analysis.cpp:111`, `semantic/05_expr_infer.cpp:351`), so that the time
it takes is exponential in the depth of an expression.

## 5. Proofs

Each theorem holds for every value of the constants that the named assumption of
its module allows.  Where a run checks a composition, the composition has theorems
of its own (`...Composed`) beside those of its parts.  A type invariant is proved
first and used by the rest; no run checks it again.

**Channel** (`ChannelProofs`).  For any sets of threads, capacity and bound:
FIFO, capacity and statistics hold together (`DataInv`; a pop keeps
`sent = received \o queue` only if the counters are known to agree with the
queue, lemmas `PushConcat` and `PopConcat`); closed stays and nothing is pushed
then (an action property), hence EndIsFinal; a waiter on a closed channel is owed
a notification by a closer that has not reached that notify_all, hence
CloseReleasesAll.  NoLostWakeup is proved without conditions, its two halves apart
(`RecvOwed`, `SendOwed`): while all receivers sleep on messages somebody owes a
notification, because the push that ended the emptiness they saw notifies, and no
pop can have taken that notification while all sleep; and likewise for the senders
and the room in the queue.  `ImplementsFifoCorrect` maps
the push to Put, the pop to Take, the close to Shut, every other action to a
stutter.  The loops of ChannelStream use the channel as Channel says
(`StreamIsChannel`), so all of this carries over; DrainedAtEnd and AllConsumed
need that a message popped is either at hand in one loop or was seen by one turn
of one body (`SeenInv`), which in turn needs that no message is sent twice.

**Scheduler** (`SchedulerProofs`).  RunOnce is not inductive: it takes that the
queues hold the queued tasks and the call stacks the tasks that have begun, each
once (`PlaceInv`), and that what a task is in the middle of is the operation at
its `ip` (`OpInv`), so that the task it is about to push is unborn.  For
PendingSettles, `PendingInv` says by how much `pending_` is off while threads are
between a queue and the counter, as an equation between cardinalities.
NoSleepingOnWork needs `AwakeInv`: a queued task that nobody is about to
announce has a worker that is not asleep nor about to be.  A worker about to sleep
has read pending_ = 0, which `PendingInv` turns into a task that is yet to be
counted and announced; and since one worker at a time is between its predicate
and its wait (`OneBlocking`), a notification that misses it wakes another, if
there are two.

`ImplementsForkJoinCorrect` maps a task to unborn, queued, running (from the moment
it is taken) or done (from the moment its promise is set), and its `ip` to the
operation it is at, already the next one when the task it spawns has been pushed.
SpawnPush is then ForkTask, a pop, a theft or an assist that finds a task BeginTask,
RunFinish EndTask, the await or the batch that returns JoinTasks, ShutdownJoin Leave;
the other actions are stutters.  That nothing runs or begins after Leave takes
`ThreadInv`: a worker that is not in run_item has an empty call stack, the main
program is at the bottom of the stack of the main thread, and once it has left it is
alone there and the workers have exited (`MainAlone`, `RunningThread`); that Leave
is at an exit takes `ExitInv`.  Queued tasks may be left behind, as the destructor
does leave them.
Assumed: finitely many tasks, at least one worker, and that a task is the result
of one spawn (`SpawnsOnce`), as every call of spawn makes a new one.

**Batches, groups, loops** (`TaskGroupProofs`, `ConcurrencyProofs`).  The chunks cut
the items without gap or overlap (`ChunksCover`, `ChunksApart`, from integer
division).  `CountInv` makes `remaining` the number of tasks that have not
completed, so that NothingLeftRunning follows when the wait ends; `PosInv` and
`CallsInv` say for which items the function has been called, by the place of each
task in its chunk; `FoldInv` and `SerialInv` what the caller has combined. In a
group, what the body has spawned is listed but for the one task it has not listed
yet (`ListedInv`), a scope that joins has all of it in its snapshot, and an
exception that leaves has cancelled the group.  Concurrency takes steps of one part
and leaves the others alone: `BatchImplemented`, `GroupImplemented` and
`LoopsImplemented` show that each of its behaviours is one of each part, and the
theorems are instances.

**Closures** (`ClosureProofs`).  An entry of an owner cache and a slot of a
thread's table hold only while the epoch of their environment stands: `FrameInv`
and `SlotInv` say that what they name is where the walk up ends, `PendingInv`
that an assignment which has found its target and not yet written still has the
right one, although other threads write into the captured environment between;
`ApartInv` that no two threads are in one call.  Assumed: finitely many names,
and that the marks for "none" and the environments differ from the values.

**Caches of lists and matrices** (`StateCachesProofs`, `MatrixCacheProofs`).  A
cache knows nothing, or has a plan and describes the present cells: its plan
fits, its copies are theirs, its sum is theirs (`LiveInv`, `PlannedInv`).  That a
map keeps a sum by adding to it is arithmetic over the whole list, proved by
induction over its length.  The library's induction theorems cannot be cited (a
parameter that is an operator), but the set of lengths at which a fact fails has
a least element, which the next one below contradicts (`LeastNat`, `Least`, from
the well-foundedness of Nat).  A packed operand is kept with its own probe, of up
to three cells the probe is all (`UnprobedFacts`), and a kept sum is that of the
product as long as its addresses have been used once (`SumTrue`).  Assumed of
MatrixCache: a kept sum at least (`SumMax`), and that the
numbers from `Coarse` on, which the text of a key gives to six digits only, begin
on the grid of `Step` they are rounded to (`Coarse % Step = 0`).

**Chains** (`StateCachesProofs`).  PlansFresh, SumsKept, CopiesFresh and
PipelineCorrect for every set of chains.  A chain replaces the plan of a cache and
leaves its copies and its sum, so `LiveInv` has a clause for a cache that a chain
has planned, and `ChainListInv` has three cases: a cache without a plan, which may
have a sum from map_add (`boxedSum`); one with a plan, all of it true; and one to
which a chain has given a plan although it had such a sum, true but for the sum.
A kept copy is never of a later version, and one of the present version is of the
present cells (`StatsInv`), because a list with a plan gets a new version by a
mutation and one that a chain has run over has a plan.

PipelineCorrect then is about the present cells only (`ChainAnswers`): the loop
runs over the numbers of the list, from a copy or not, and what is to be shown is
that one loop with all stages inside does what a list per stage does
(`FusedCorrect`, `MatrixCorrect`).  The invariant of the loop, `LoopAt`, says that
after k stages the numbers of the staged list are the values the loop has kept, in
order, and is carried over one stage by one lemma per kind of stage: a map changes
the kept values (`KeptMap`), a filter drops from what is kept (`KeptTwice`), a zip
meets them only where nothing has been dropped, which is why ZipAfterFilter is
exempted.  The loop that ends with the shortest zipped list is the staged list cut
at each zip.  The closed forms of the affine sums follow from the sums of a mapped
list (`SumMaps`).  `Kept`, `Through`, `Staged` and `SumInt` are recursive functions
on 0..n: that such a function exists is proved once (`Recursion`), and facts about
them by induction over an interval (`Induct`, again from a least element).

StateCaches runs one of its parts, as Concurrency does: `ListsInv` is the invariant
of the list or of the chains, and PlansFreshComposed, SumsKeptComposed and
ChainsCorrectTheorem are the properties the run checks.

**Driver** (`DriverProofs`).  For any set of processes and command lines.  Assumed
is that the environment of a command has the variables the driver reads
(`JobsAssumption`).  `ProcInv` says that a process builds under a key of its own text,
build and environment, and what it has shown so far; `FileInv` that a whole binary in
the cache was made of the C source that its key has, with the flags of the variables
in the key; `CacheInv` that a binary which is not whole is being written or somebody
was killed over it; `ReadyInv` that a process about to execute has put a
binary there or found one.  OwnBinary follows from the first two.  OwnTuning needs in
addition that two environments with one key, which agree in what the key leaves out,
resolve to the same flags (`SameFlags`).  FallsBack is an action property, about the
step with which a run ends: a run that does not end by showing its output ends as
its binary does, or another process has spoiled the binary.

The inductive invariants were checked by TLC on the instances of the runs before
they were proved.  Two proofs found that the model or a property had to change:
PlansFresh (section 4), and RunOnce, which needs SpawnsOnce.  That of PipelineCorrect
brought the exemption of sums that are rounded: the loop of the model is exact, the
list that the stages leave is not.

What stays with TLC: liveness and what rests on ENABLED (Delivery, SendReturns,
RunEnds, WaitsEnd, Ends, and the two violated ones); the modules that are recursive
over trees, for which the prover has no backend (Interpreter, Codegen, CBackend,
NumericRepeat, PlanShapes, WhilePlans, ForPlans, BranchPlans, FastPaths, Semantic,
Typing and therefore Execution: RegistersTyped, NothingUndefined,
PrintsWhatInterpreterPrints, SameAsInterpreter, TypesHold); the type invariant of
ListCache, which bounds values by `MaxValue` for TLC's sake.  The theorems of
DriverProofs are of DriverSpec, the specification that Execution composes.

## 6. Plan

Done: channels, scheduler, batches, groups, caches, scopes, driver, chains, with
their proofs; interpreter, compiler, fast paths and type checker.  To come, in
this order:

1. The table of numeric operands in Closures, the recurrence caches of
   assignment (`stmt/stmt_assign.cpp:833-1267`).
2. Tasks that block a worker on a channel: Runtime has Channel and Scheduler side by
   side only.
3. The layout of lines and blocks in the lexer and the parser.

## 7. Not modelled

MPFR and floating-point arithmetic beyond rounding to a grid, and kernels with
their schedules (out of reach of TLC); classes and objects; in the compiler
strings, matrices, slices and the numeric constructors
(`codegen/05_codegen_flow.cpp:266-562`, `codegen/03_ir_to_c.cpp:1227-1262,
1376-1750`); in the fast paths the shortcuts of the high-precision kinds; the plan
caches keyed by node, which hold what the recognizers give again; printing of
CPU features and the two-step programs under `mode/`; the formatting of values
and errors; the lexer and the parser, since the models begin with trees;
benchmarks, scripts and vendored data.
