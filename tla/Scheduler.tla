----------------------------- MODULE Scheduler -----------------------------
(***************************************************************************)
(* The work-stealing scheduler (01_scheduler.cpp) under the threads that   *)
(* use it: the worker threads and the main thread of the program, which    *)
(* spawns tasks, awaits them (await_task_value, assisting), waits for a    *)
(* batch (wait_batch, not assisting), reads the counters and finally       *)
(* destroys the scheduler.                                                 *)
(*                                                                         *)
(* A task is a script of operations (Scripts); the main program is the     *)
(* script Main.  stack[t] is the call stack of thread t as the tasks it    *)
(* has begun: an awaiting task that assists has another task on top of it. *)
(* Each mutex section, atomic access and notification is a step.           *)
(***************************************************************************)
EXTENDS Integers, Scripts

VARIABLE setup    \* the member of Setups this run of the program is

NumWorkers == setup.workers
\* Script[k]: what task k does, a sequence of operations.
Script == setup.script
Workers == 0..(NumWorkers - 1)
MainThread == -1
Threads == Workers \cup {MainThread}
Programs == Tasks \cup {Main}

VARIABLES
    deque,      \* queue[w]: Worker::queue of worker w
    holder,     \* holder[w]: the task whose run holds Worker::mutex of w
    rrIndex,    \* rr_index_ modulo the number of workers
    pending,    \* pending_, as an integer; see Pending below
    spawned,    \* spawned_
    executed,   \* executed_
    done,       \* done_
    wpc,        \* where each worker is in worker_loop
    offset,     \* the victim steal_remote tries next
    stack,      \* the tasks each thread is in the middle of
    tpc,        \* where each task is
    ip,         \* the operation of its script a task is at
    hint,       \* TaskHandle::scheduler_queue_hint
    scan,       \* the queue assist_one tries next, for an awaiting task
    runs        \* history: how often each task was begun

threadVars == <<deque, holder, rrIndex, pending, spawned, executed, done, wpc,
                offset, stack, tpc, ip, hint, scan, runs>>
poolVars == <<setup, threadVars>>

queueVars == <<deque, holder>>
counters == <<pending, spawned, executed>>
workerVars == <<wpc, offset>>
taskVars == <<stack, tpc, ip, hint, scan, runs>>

WorkerPC == {"check", "pop", "steal", "predicate", "blocking", "sleep", "run",
             "exited"}
TaskPC == {"unborn", "queued", "popped", "step", "push", "count", "notify",
           "await", "assistHint", "assistAny", "blocked", "finish", "tally",
           "over", "stop", "wakeAll", "join"}

PoolTypeOK ==
    /\ setup \in Setups
    /\ deque \in [Workers -> Seq(Tasks)]
    /\ holder \in [Workers -> Tasks \cup {NoTask}]
    /\ rrIndex \in Workers
    /\ pending \in Int
    /\ spawned \in Nat /\ executed \in Nat
    /\ done \in BOOLEAN
    /\ wpc \in [Workers -> WorkerPC]
    /\ offset \in [Workers -> 1..NumWorkers]
    /\ stack \in [Threads -> Seq(Programs)]
    /\ tpc \in [Programs -> TaskPC]
    /\ ip \in [Programs -> Nat \ {0}]
    /\ hint \in [Tasks -> Workers]
    /\ scan \in [Programs -> 0..NumWorkers]
    /\ runs \in [Tasks -> Nat]

PoolInit ==
    /\ setup \in Setups
    /\ deque = [w \in Workers |-> <<>>]
    /\ holder = [w \in Workers |-> NoTask]
    /\ rrIndex = 0
    /\ pending = 0 /\ spawned = 0 /\ executed = 0
    /\ done = FALSE
    /\ wpc = [w \in Workers |-> "check"]
    /\ offset = [w \in Workers |-> 1]
    /\ stack = [t \in Threads |-> IF t = MainThread THEN <<Main>> ELSE <<>>]
    /\ tpc = [k \in Programs |-> IF k = Main THEN "step" ELSE "unborn"]
    /\ ip = [k \in Programs |-> 1]
    /\ hint = [k \in Tasks |-> 0]
    /\ scan = [k \in Programs |-> 0]
    /\ runs = [k \in Tasks |-> 0]

Top(t) == stack[t][Len(stack[t])]
Running(t, k) == stack[t] # <<>> /\ Top(t) = k
\* Definitions named Bad... are faults a change of the code could introduce;
\* nothing uses them but the experiments that put one in the place of the
\* definition that follows it.
\* What pop_back leaves.
BadFront(s) == Tail(s)
Front(s) == SubSeq(s, 1, Len(s) - 1)
BadNextIndex == rrIndex + 1
NextIndex == (rrIndex + 1) % NumWorkers
Free(w) == holder[w] = NoTask
\* pending_ is a size_t: a task taken before enqueue_item has counted it wraps
\* the counter around, and the wrapped value is still "> 0".
Pending == pending # 0
\* The promise is set, or the batch counted down, when the body is over.
BadReady(k) == tpc[k] \in {"step", "tally", "over"}
Ready(k) == tpc[k] \in {"tally", "over"}
Op(k) == Script[k][ip[k]]
Target(k) == CHOOSE c \in Op(k).tasks : TRUE

\* Thread t begins task k, taken from a queue.
Begin(t, k) ==
    /\ stack' = [stack EXCEPT ![t] = Append(@, k)]
    /\ tpc' = [tpc EXCEPT ![k] = "popped"]
    /\ runs' = [runs EXCEPT ![k] = @ + 1]

Step(k, label) == tpc' = [tpc EXCEPT ![k] = label]
NextOp(k) ==
    /\ ip' = [ip EXCEPT ![k] = @ + 1]
    /\ tpc' = [tpc EXCEPT ![k] = "step"]

\* notify_one and notify_all on cv_, where the workers asleep are waiting.
BadWakeOne == wpc' = wpc
WakeOne ==
    LET asleep == {w \in Workers : wpc[w] = "sleep"} IN
    \/ asleep = {} /\ wpc' = wpc
    \/ \E w \in asleep : wpc' = [wpc EXCEPT ![w] = "predicate"]
WakeAll == wpc' = [w \in Workers |-> IF wpc[w] = "sleep" THEN "predicate"
                                     ELSE wpc[w]]

-----------------------------------------------------------------------------
(* worker_loop *)

WorkerCheck(w) ==
    /\ wpc[w] = "check"
    /\ wpc' = [wpc EXCEPT ![w] = IF done THEN "exited" ELSE "pop"]
    /\ UNCHANGED <<queueVars, rrIndex, counters, done, offset, taskVars>>

PopLocal(w) ==
    /\ wpc[w] = "pop" /\ Free(w)
    /\ IF deque[w] = <<>>
       THEN /\ wpc' = [wpc EXCEPT ![w] = "steal"]
            /\ offset' = [offset EXCEPT ![w] = 1]
            /\ UNCHANGED <<deque, taskVars>>
       ELSE /\ Begin(w, deque[w][Len(deque[w])])
            /\ deque' = [deque EXCEPT ![w] = Front(@)]
            /\ wpc' = [wpc EXCEPT ![w] = "run"]
            /\ UNCHANGED <<offset, ip, hint, scan>>
    /\ UNCHANGED <<holder, rrIndex, counters, done>>

StealRemote(w) ==
    /\ wpc[w] = "steal"
    /\ IF offset[w] = NumWorkers
       THEN /\ wpc' = [wpc EXCEPT ![w] = "predicate"]
            /\ UNCHANGED <<deque, offset, taskVars>>
       ELSE LET v == (w + offset[w]) % NumWorkers IN
            /\ Free(v)
            /\ IF deque[v] = <<>>
               THEN /\ offset' = [offset EXCEPT ![w] = @ + 1]
                    /\ UNCHANGED <<deque, wpc, taskVars>>
               ELSE /\ Begin(w, Head(deque[v]))
                    /\ deque' = [deque EXCEPT ![v] = Tail(@)]
                    /\ wpc' = [wpc EXCEPT ![w] = "run"]
                    /\ UNCHANGED <<offset, ip, hint, scan>>
    /\ UNCHANGED <<holder, rrIndex, counters, done>>

\* cv_.wait(lock, predicate): cv_mutex_ is held from here to Block, but neither
\* pending_ nor done_ is written under it.
Predicate(w) ==
    /\ wpc[w] = "predicate"
    /\ \A v \in Workers : wpc[v] # "blocking"
    /\ wpc' = [wpc EXCEPT ![w] = IF done \/ Pending THEN "check" ELSE "blocking"]
    /\ UNCHANGED <<queueVars, rrIndex, counters, done, offset, taskVars>>

Block(w) ==
    /\ wpc[w] = "blocking"
    /\ wpc' = [wpc EXCEPT ![w] = "sleep"]
    /\ UNCHANGED <<queueVars, rrIndex, counters, done, offset, taskVars>>

SpuriousWakeup(w) ==
    /\ wpc[w] = "sleep"
    /\ wpc' = [wpc EXCEPT ![w] = "predicate"]
    /\ UNCHANGED <<queueVars, rrIndex, counters, done, offset, taskVars>>

-----------------------------------------------------------------------------
(* run_item: pending_ - 1, the body, the promise, executed_ + 1 *)

BadRunStart(t, k) ==
    /\ Running(t, k) /\ tpc[k] = "popped"
    /\ Step(k, "step")
    /\ UNCHANGED <<queueVars, rrIndex, counters, done, workerVars, stack, ip,
                   hint, scan, runs>>
RunStart(t, k) ==
    /\ Running(t, k) /\ tpc[k] = "popped"
    /\ pending' = pending - 1
    /\ Step(k, "step")
    /\ UNCHANGED <<queueVars, rrIndex, spawned, executed, done, workerVars,
                   stack, ip, hint, scan, runs>>

\* The body returns and the promise is set: Ready(k).  A batch task has no
\* promise; its completion is counted at the same point.
RunFinish(t, k) ==
    /\ Running(t, k) /\ k # Main
    /\ tpc[k] = "step" /\ ip[k] > Len(Script[k])
    /\ Step(k, "tally")
    /\ UNCHANGED <<queueVars, rrIndex, counters, done, workerVars,
                   stack, ip, hint, scan, runs>>

\* Counted and back in the caller, which is worker_loop or the assisting task;
\* a mutex that assist_one held while the item ran is unlocked.
RunTally(t, k) ==
    /\ Running(t, k) /\ tpc[k] = "tally"
    /\ executed' = executed + 1
    /\ stack' = [stack EXCEPT ![t] = Front(@)]
    /\ Step(k, "over")
    /\ holder' = [w \in Workers |-> IF holder[w] = k THEN NoTask ELSE holder[w]]
    /\ wpc' = IF Len(stack[t]) = 1 THEN [wpc EXCEPT ![t] = "check"] ELSE wpc
    /\ UNCHANGED <<deque, rrIndex, pending, spawned, done, offset, ip, hint,
                   scan, runs>>

-----------------------------------------------------------------------------
(* enqueue_item, called by submit and submit_fire_and_forget *)

SpawnPick(t, k) ==
    /\ Running(t, k) /\ tpc[k] = "step" /\ ip[k] <= Len(Script[k])
    /\ Op(k).op = "spawn" /\ tpc[Target(k)] = "unborn"
    /\ hint' = [hint EXCEPT ![Target(k)] = rrIndex]
    /\ rrIndex' = NextIndex
    /\ Step(k, "push")
    /\ UNCHANGED <<queueVars, counters, done, workerVars, stack, ip, scan, runs>>

SpawnPush(t, k) ==
    /\ Running(t, k) /\ tpc[k] = "push"
    /\ Free(hint[Target(k)])
    /\ deque' = [deque EXCEPT ![hint[Target(k)]] = Append(@, Target(k))]
    /\ tpc' = [tpc EXCEPT ![k] = "count", ![Target(k)] = "queued"]
    /\ UNCHANGED <<holder, rrIndex, counters, done, workerVars, stack, ip,
                   hint, scan, runs>>

SpawnCount(t, k) ==
    /\ Running(t, k) /\ tpc[k] = "count"
    /\ pending' = pending + 1
    /\ spawned' = spawned + 1
    /\ Step(k, "notify")
    /\ UNCHANGED <<queueVars, rrIndex, executed, done, workerVars, stack, ip,
                   hint, scan, runs>>

SpawnNotify(t, k) ==
    /\ Running(t, k) /\ tpc[k] = "notify"
    /\ WakeOne
    /\ NextOp(k)
    /\ UNCHANGED <<queueVars, rrIndex, counters, done, offset, stack, hint,
                   scan, runs>>

-----------------------------------------------------------------------------
(* await_task_value without a timeout, assist_one_from_queue, assist_one *)

\* What an await whose future is not ready does first: assist, never block.
BadUnready == "blocked"
Unready == "assistHint"

AwaitPoll(t, k) ==
    /\ Running(t, k)
    /\ \/ tpc[k] = "step" /\ ip[k] <= Len(Script[k]) /\ Op(k).op = "await"
       \/ tpc[k] = "await"
    /\ IF Ready(Target(k)) THEN NextOp(k)
       ELSE Step(k, Unready) /\ UNCHANGED ip
    /\ UNCHANGED <<queueVars, rrIndex, counters, done, workerVars, stack, hint,
                   scan, runs>>

AssistHint(t, k) ==
    /\ Running(t, k) /\ tpc[k] = "assistHint"
    /\ LET w == hint[Target(k)] IN
       /\ Free(w)
       /\ IF deque[w] = <<>>
          THEN /\ Step(k, "assistAny")
               /\ scan' = [scan EXCEPT ![k] = 0]
               /\ UNCHANGED <<deque, stack, runs>>
          ELSE LET c == deque[w][Len(deque[w])] IN
               /\ deque' = [deque EXCEPT ![w] = Front(@)]
               /\ stack' = [stack EXCEPT ![t] = Append(@, c)]
               /\ tpc' = [tpc EXCEPT ![k] = "await", ![c] = "popped"]
               /\ runs' = [runs EXCEPT ![c] = @ + 1]
               /\ UNCHANGED scan
    /\ UNCHANGED <<holder, rrIndex, counters, done, workerVars, ip, hint>>

\* assist_one runs the item inside the scope of the lock_guard.
AssistAny(t, k) ==
    /\ Running(t, k) /\ tpc[k] = "assistAny"
    /\ IF scan[k] = NumWorkers
       THEN Step(k, "blocked") /\ UNCHANGED <<queueVars, stack, scan, runs>>
       ELSE LET w == scan[k] IN
            /\ Free(w)
            /\ IF deque[w] = <<>>
               THEN /\ scan' = [scan EXCEPT ![k] = @ + 1]
                    /\ UNCHANGED <<queueVars, stack, tpc, runs>>
               ELSE LET c == deque[w][Len(deque[w])] IN
                    /\ deque' = [deque EXCEPT ![w] = Front(@)]
                    /\ holder' = [holder EXCEPT ![w] = c]
                    /\ stack' = [stack EXCEPT ![t] = Append(@, c)]
                    /\ tpc' = [tpc EXCEPT ![k] = "await", ![c] = "popped"]
                    /\ runs' = [runs EXCEPT ![c] = @ + 1]
                    /\ UNCHANGED scan
    /\ UNCHANGED <<rrIndex, counters, done, workerVars, ip, hint>>

\* future.wait()
AwaitBlocked(t, k) ==
    /\ Running(t, k) /\ tpc[k] = "blocked"
    /\ Ready(Target(k))
    /\ NextOp(k)
    /\ UNCHANGED <<queueVars, rrIndex, counters, done, workerVars, stack, hint,
                   scan, runs>>

\* wait_batch: the thread blocks until every task of the batch has completed
\* and runs nothing in the meantime.
BatchWait(t, k) ==
    /\ Running(t, k) /\ tpc[k] = "step" /\ ip[k] <= Len(Script[k])
    /\ Op(k).op = "batch"
    /\ \A c \in Op(k).tasks : Ready(c)
    /\ NextOp(k)
    /\ UNCHANGED <<queueVars, rrIndex, counters, done, workerVars, stack, hint,
                   scan, runs>>

-----------------------------------------------------------------------------
(* ~WorkStealingScheduler, when the program ends *)

Shutdown(k) ==
    /\ Running(MainThread, k) /\ tpc[k] = "step" /\ ip[k] <= Len(Script[k])
    /\ Op(k).op = "exit"
    /\ done' = TRUE
    /\ Step(k, "wakeAll")
    /\ UNCHANGED <<queueVars, rrIndex, counters, workerVars, stack, ip, hint,
                   scan, runs>>

ShutdownNotify(k) ==
    /\ Running(MainThread, k) /\ tpc[k] = "wakeAll"
    /\ WakeAll
    /\ Step(k, "join")
    /\ UNCHANGED <<queueVars, rrIndex, counters, done, offset, stack, ip, hint,
                   scan, runs>>

ShutdownJoin(k) ==
    /\ Running(MainThread, k) /\ tpc[k] = "join"
    /\ \A w \in Workers : wpc[w] = "exited"
    /\ Step(k, "over")
    /\ UNCHANGED <<queueVars, rrIndex, counters, done, workerVars, stack, ip,
                   hint, scan, runs>>

-----------------------------------------------------------------------------
WorkerStep(w) == WorkerCheck(w) \/ PopLocal(w) \/ StealRemote(w)
                   \/ Predicate(w) \/ Block(w)

TaskStep(t, k) ==
    \/ RunStart(t, k) \/ RunFinish(t, k) \/ RunTally(t, k)
    \/ SpawnPick(t, k) \/ SpawnPush(t, k) \/ SpawnCount(t, k) \/ SpawnNotify(t, k)
    \/ AwaitPoll(t, k) \/ AssistHint(t, k) \/ AssistAny(t, k) \/ AwaitBlocked(t, k)
    \/ BatchWait(t, k)

ShutdownStep(k) == Shutdown(k) \/ ShutdownNotify(k) \/ ShutdownJoin(k)

PoolNext ==
    /\ \/ \E w \in Workers : WorkerStep(w) \/ SpuriousWakeup(w)
       \/ \E t \in Threads, k \in Programs : TaskStep(t, k)
       \/ ShutdownStep(Main)
    /\ UNCHANGED setup

PoolSpec == PoolInit /\ [][PoolNext]_poolVars

\* The operating system runs every thread that is not blocked.
PoolFairness ==
    /\ \A w \in UNION {0..(s.workers - 1) : s \in Setups} :
          WF_threadVars(w \in Workers /\ (WorkerStep(w)
                                            \/ \E k \in Programs : TaskStep(w, k)))
    /\ WF_threadVars((\E k \in Programs : TaskStep(MainThread, k)) \/ ShutdownStep(Main))

FairPoolSpec == PoolSpec /\ PoolFairness

-----------------------------------------------------------------------------
(* Safety *)

\* Where a task is: in a queue or on the call stack of a thread.
Places(k) ==
    (UNION {{<<w, i>> : i \in {j \in DOMAIN deque[w] : deque[w][j] = k}} : w \in Workers})
      \cup (UNION {{<<t, -i>> : i \in {j \in DOMAIN stack[t] : stack[t][j] = k}} : t \in Threads})

\* The owner takes from the back of its queue while thieves take from the front
\* and assisting threads from either end of anybody's: a task is still in one
\* place only, is begun once, and is not forgotten before it is over.
RunOnce ==
    \A k \in Tasks :
        /\ runs[k] <= 1
        /\ Cardinality(Places(k)) = IF tpc[k] \in {"unborn", "over"} THEN 0 ELSE 1

\* pending_ is counted after the push and may be decremented before it is
\* incremented; whenever nobody is in between it is exactly the number of
\* queued tasks, so the wrapped values never accumulate.
PendingSettles ==
    (\A k \in Programs : tpc[k] \notin {"popped", "count"})
        => pending = Cardinality({k \in Tasks : tpc[k] = "queued"})

\* With two workers or more, they do not all sleep while a task is queued and
\* nobody is about to notify: one of them at a time is between the predicate and
\* the wait of worker_loop, where a notification is lost.
NoSleepingOnWork ==
    NumWorkers > 1 /\ (\E k \in Tasks : tpc[k] = "queued") /\ (\A w \in Workers : wpc[w] = "sleep")
        => \E k \in Programs : tpc[k] \in {"count", "notify", "wakeAll"}

\* "waiting threads can execute pending tasks": a thread that assists never
\* waits for a worker mutex it is itself holding.
NoSelfDeadlock ==
    \A t \in Threads : stack[t] # <<>> =>
        LET k == Top(t) IN
        tpc[k] = "push" =>
            \A i \in 1..Len(stack[t]) : holder[hint[Target(k)]] # stack[t][i]

-----------------------------------------------------------------------------
(* Refinement *)

\* A task has moved on from a spawn once it has pushed what it spawns, runs from
\* when it is taken from a queue, and is over when its promise is set.
TaskState(k) ==
    CASE tpc[k] \in {"unborn", "queued"} -> tpc[k]
      [] tpc[k] \in {"tally", "over"} -> "done"
      [] OTHER -> "running"
Position(k) == IF tpc[k] \in {"count", "notify"} THEN ip[k] + 1 ELSE ip[k]

Forks == INSTANCE ForkJoin
           WITH Scripts <- {s.script : s \in Setups}, script <- Script,
                state <- [k \in Programs |-> TaskState(k)], at <- [k \in Programs |-> Position(k)]

\* Seen through its tasks, the scheduler runs a fork-join program: whoever takes
\* a task from which end of whose queue, and on top of which others, it begins
\* once, every await outlasts the task it names, and the destructor returns when
\* no task runs and none can begin.
ImplementsForkJoin == Forks!ForkSpec

-----------------------------------------------------------------------------
(* Liveness *)

\* A task stays in its queue although it was submitted: every worker sleeps or
\* waits for a batch itself, and so may the main thread, which then runs nothing.
InBatch(t) ==
    /\ stack[t] # <<>>
    /\ LET k == Top(t) IN tpc[k] = "step" /\ ip[k] <= Len(Script[k]) /\ Op(k).op = "batch"
TaskMissed ==
    /\ \E k \in Tasks : tpc[k] = "queued"
    /\ \A w \in Workers : wpc[w] = "sleep" \/ InBatch(w)
    /\ \E t \in Threads : InBatch(t)

\* The destructor joins a worker that sleeps: its notification came while the
\* worker was between the predicate and the wait.
ShutdownMissed == tpc[Main] = "join" /\ \E w \in Workers : wpc[w] = "sleep"

\* The program ends and its scheduler is destroyed: each await returns, even when
\* every wakeup of the workers is lost, as whoever awaits a queued task finds it
\* and runs it.  Only a wait_batch, which runs nothing, and the destructor, which
\* notifies once, can be left waiting for ever.
ProgramEnds == <>(tpc[Main] = "over") \/ <>[](TaskMissed \/ ShutdownMissed)

\* The program comes to its end whatever it waits for.
ScriptEnds == <>done
=============================================================================
