--------------------------- MODULE ParallelBatch ---------------------------
(***************************************************************************)
(* One call of parallel_for, par_map or par_reduce                         *)
(* (04_parallel_runtime.cpp): the caller cuts the items into chunks,       *)
(* submits one task per chunk and blocks in wait_batch; each task calls    *)
(* the function on its items and completes; the last one notifies.         *)
(*                                                                         *)
(* When a task is begun and by whom is left to the scheduler.  The         *)
(* function of the user is a black box that throws on the items in faulty; *)
(* the reducer is concatenation, associative but not commutative.          *)
(* parallel_for and par_map differ only in what they do with the results   *)
(* of the function, which the model does not keep.                         *)
(***************************************************************************)
EXTENDS Naturals, Sequences, FiniteSets

CONSTANTS
    MaxTotal,  \* bound: the items of a call
    EnvChunk   \* SPARK_PHASE9_CHUNK, 0 when it is not set

ASSUME BatchAssumption == MaxTotal \in Nat /\ EnvChunk \in Nat

VARIABLES
    kind,       \* which function is called: "map" also stands for parallel_for
    total,      \* the number of items
    faulty,     \* the items on which the function throws
    caller,     \* where the calling thread is
    submitted,  \* the tasks submitted so far, task_index of the loop
    remaining,  \* BatchState::remaining
    firstError, \* BatchState::first_error, as the items it came from
    tpc,        \* where each chunk task is
    pos,        \* the item a chunk task is at, i of its loop
    local,      \* what a task of par_reduce has combined
    partials,   \* partials of par_reduce
    folded,     \* the partial results the caller has combined
    result,     \* acc of par_reduce
    calls       \* history: how often the function was called for an item

vars == <<kind, total, faulty, caller, submitted, remaining, firstError, tpc,
          pos, local, partials, folded, result, calls>>
call == <<kind, total, faulty>>
taskVars == <<tpc, pos, local, partials>>
outcome == <<folded, result, calls>>

Items == 0..(total - 1)

DefaultChunkSize ==
    IF EnvChunk > 0 THEN EnvChunk
    ELSE IF total <= 64 THEN total
    ELSE IF total <= 4096 THEN 64 ELSE 512

Chunk == IF DefaultChunkSize > 1 THEN DefaultChunkSize ELSE 1
BadTaskCount == total \div Chunk
TaskCount == (total + Chunk - 1) \div Chunk
ChunkTasks == 0..(TaskCount - 1)
First(t) == t * Chunk
BadStop(t) == (t + 1) * Chunk
Stop(t) == IF (t + 1) * Chunk < total THEN (t + 1) * Chunk ELSE total

Parallel == TaskCount > 1
CallerPC == {"start", "serial", "submit", "predicate", "blocking", "wait",
             "fold", "returned", "threw"}
TaskPC == {"absent", "queued", "running", "error", "complete", "notify", "over"}

TypeOK ==
    /\ kind \in {"map", "reduce"}
    /\ total \in Nat
    /\ faulty \subseteq Items
    /\ caller \in CallerPC
    /\ submitted \in 0..TaskCount
    /\ remaining \in 0..TaskCount
    /\ firstError \subseteq Items
    /\ tpc \in [ChunkTasks -> TaskPC]
    /\ pos \in [ChunkTasks -> 0..total]
    /\ local \in [ChunkTasks -> Seq(Items)]
    /\ partials \in [ChunkTasks -> Seq(Items)]
    /\ folded \in 0..TaskCount
    /\ result \in Seq(Items)
    /\ calls \in [Items -> Nat]

Init ==
    /\ kind \in {"map", "reduce"}
    /\ total \in 0..MaxTotal
    /\ faulty \in SUBSET Items
    /\ caller = "start"
    /\ submitted = 0
    /\ remaining = 0
    /\ firstError = {}
    /\ tpc = [t \in ChunkTasks |-> "absent"]
    /\ pos = [t \in ChunkTasks |-> First(t)]
    /\ local = [t \in ChunkTasks |-> <<>>]
    /\ partials = [t \in ChunkTasks |-> <<>>]
    /\ folded = 0
    /\ result = <<>>
    /\ calls = [i \in Items |-> 0]

Called(i) == calls' = [calls EXCEPT ![i] = @ + 1]

-----------------------------------------------------------------------------
(* The caller *)

\* No item: nil, the empty list, or init.
CallEmpty ==
    /\ caller = "start" /\ total = 0
    /\ caller' = "returned"
    /\ UNCHANGED <<call, submitted, remaining, firstError, taskVars, outcome>>

\* One chunk only: the caller does the work itself.
CallSerial ==
    /\ caller = "start" /\ TaskCount = 1
    /\ caller' = "serial"
    /\ UNCHANGED <<call, submitted, remaining, firstError, taskVars, outcome>>

SerialItem ==
    /\ caller = "serial" /\ pos[0] < total
    /\ Called(pos[0])
    /\ IF pos[0] \in faulty
       THEN /\ caller' = "threw"
            /\ firstError' = {pos[0]}
            /\ UNCHANGED <<pos, result>>
       ELSE /\ pos' = [pos EXCEPT ![0] = @ + 1]
            /\ result' = Append(result, pos[0])
            /\ UNCHANGED <<caller, firstError>>
    /\ UNCHANGED <<call, submitted, remaining, tpc, local, partials, folded>>

SerialReturn ==
    /\ caller = "serial" /\ pos[0] = total
    /\ caller' = "returned"
    /\ UNCHANGED <<call, submitted, remaining, firstError, taskVars, outcome>>

CallParallel ==
    /\ caller = "start" /\ Parallel
    /\ remaining' = TaskCount
    /\ caller' = "submit"
    /\ UNCHANGED <<call, submitted, firstError, taskVars, outcome>>

Submit ==
    /\ caller = "submit" /\ submitted < TaskCount
    /\ tpc' = [tpc EXCEPT ![submitted] = "queued"]
    /\ submitted' = submitted + 1
    /\ UNCHANGED <<call, caller, remaining, firstError, pos, local, partials, outcome>>

SubmitEnd ==
    /\ caller = "submit" /\ submitted = TaskCount
    /\ caller' = "predicate"
    /\ UNCHANGED <<call, submitted, remaining, firstError, taskVars, outcome>>

\* Definitions named Bad... are faults a change of the code could introduce;
\* nothing uses them but the experiments that put one in the place of the
\* definition that follows it.
\* Whether wait_batch may return: here, as soon as one task has failed.
BadBatchOver == remaining = 0 \/ firstError # {}
BatchOver == remaining = 0

AfterWait == IF firstError # {} THEN "threw"
             ELSE IF kind = "reduce" THEN "fold" ELSE "returned"

\* wait_batch: the predicate is evaluated under BatchState::mutex, which the
\* caller gives up only by blocking.
WaitPredicate ==
    /\ caller = "predicate"
    /\ caller' = IF BatchOver THEN AfterWait ELSE "blocking"
    /\ UNCHANGED <<call, submitted, remaining, firstError, taskVars, outcome>>

WaitBlock ==
    /\ caller = "blocking"
    /\ caller' = "wait"
    /\ UNCHANGED <<call, submitted, remaining, firstError, taskVars, outcome>>

WaitSpurious ==
    /\ caller = "wait"
    /\ caller' = "predicate"
    /\ UNCHANGED <<call, submitted, remaining, firstError, taskVars, outcome>>

\* par_reduce combines the partial results in the order of the chunks; this is
\* the call of the reducer for the first item of each chunk.
FoldNext ==
    /\ caller = "fold" /\ folded < TaskCount
    /\ Called(First(folded))
    /\ IF First(folded) \in faulty
       THEN /\ caller' = "threw"
            /\ firstError' = {First(folded)}
            /\ UNCHANGED <<result, folded>>
       ELSE /\ result' = result \o partials[folded]
            /\ folded' = folded + 1
            /\ UNCHANGED <<caller, firstError>>
    /\ UNCHANGED <<call, submitted, remaining, taskVars>>

FoldReturn ==
    /\ caller = "fold" /\ folded = TaskCount
    /\ caller' = "returned"
    /\ UNCHANGED <<call, submitted, remaining, firstError, taskVars, outcome>>

-----------------------------------------------------------------------------
(* The chunk tasks *)

MutexFree == caller # "blocking"

\* A task of par_reduce starts from the first item of its chunk.
TaskBegin(t) ==
    /\ tpc[t] = "queued"
    /\ tpc' = [tpc EXCEPT ![t] = "running"]
    /\ IF kind = "reduce"
       THEN /\ local' = [local EXCEPT ![t] = <<First(t)>>]
            /\ pos' = [pos EXCEPT ![t] = First(t) + 1]
       ELSE UNCHANGED <<local, pos>>
    /\ UNCHANGED <<call, caller, submitted, remaining, firstError, partials, outcome>>

TaskItem(t) ==
    /\ tpc[t] = "running" /\ pos[t] < Stop(t)
    /\ Called(pos[t])
    /\ IF pos[t] \in faulty
       THEN /\ tpc' = [tpc EXCEPT ![t] = "error"]
            /\ UNCHANGED <<pos, local>>
       ELSE /\ pos' = [pos EXCEPT ![t] = @ + 1]
            /\ local' = [local EXCEPT ![t] = Append(@, pos[t])]
            /\ UNCHANGED tpc
    /\ UNCHANGED <<call, caller, submitted, remaining, firstError, partials,
                   folded, result>>

\* Where a task puts its partial result: here, in the order they finish.
BadSlot(t) == Cardinality({u \in ChunkTasks : tpc[u] \in {"complete", "notify", "over"}})
Slot(t) == t

TaskEnd(t) ==
    /\ tpc[t] = "running" /\ pos[t] = Stop(t)
    /\ tpc' = [tpc EXCEPT ![t] = "complete"]
    /\ partials' = [partials EXCEPT ![Slot(t)] = local[t]]
    /\ UNCHANGED <<call, caller, submitted, remaining, firstError, pos, local,
                   outcome>>

\* The error is recorded after the task has completed.
BadTaskComplete(t) ==
    /\ tpc[t] \in {"complete", "error"}
    /\ remaining' = remaining - 1
    /\ tpc' = [tpc EXCEPT ![t] = IF remaining = 1 THEN "notify" ELSE "over"]
    /\ UNCHANGED <<call, caller, submitted, firstError, pos, local, partials,
                   outcome>>

\* record_batch_error
TaskError(t) ==
    /\ tpc[t] = "error" /\ MutexFree
    /\ firstError' = IF firstError = {} THEN {pos[t]} ELSE firstError
    /\ tpc' = [tpc EXCEPT ![t] = "complete"]
    /\ UNCHANGED <<call, caller, submitted, remaining, pos, local, partials,
                   outcome>>

\* complete_batch_task: remaining is decremented without the mutex, the
\* notification of the last task takes it.
TaskComplete(t) ==
    /\ tpc[t] = "complete"
    /\ remaining' = remaining - 1
    /\ tpc' = [tpc EXCEPT ![t] = IF remaining = 1 THEN "notify" ELSE "over"]
    /\ UNCHANGED <<call, caller, submitted, firstError, pos, local, partials,
                   outcome>>

\* Notifies without the mutex.
BadTaskNotify(t) ==
    /\ tpc[t] = "notify"
    /\ tpc' = [tpc EXCEPT ![t] = "over"]
    /\ caller' = IF caller = "wait" THEN "predicate" ELSE caller
    /\ UNCHANGED <<call, submitted, remaining, firstError, pos, local,
                   partials, outcome>>

TaskNotify(t) ==
    /\ tpc[t] = "notify" /\ MutexFree
    /\ tpc' = [tpc EXCEPT ![t] = "over"]
    /\ caller' = IF caller = "wait" THEN "predicate" ELSE caller
    /\ UNCHANGED <<call, submitted, remaining, firstError, pos, local,
                   partials, outcome>>

-----------------------------------------------------------------------------
CallerStep ==
    \/ CallEmpty \/ CallSerial \/ SerialItem \/ SerialReturn \/ CallParallel
    \/ Submit \/ SubmitEnd \/ WaitPredicate \/ WaitBlock \/ FoldNext \/ FoldReturn

TaskStep(t) == TaskBegin(t) \/ TaskItem(t) \/ TaskEnd(t) \/ TaskError(t)
                 \/ TaskComplete(t) \/ TaskNotify(t)

Next == CallerStep \/ WaitSpurious \/ \E t \in ChunkTasks : TaskStep(t)

Spec == Init /\ [][Next]_vars

\* The caller runs when it is not blocked, and the scheduler runs every task
\* that was submitted (for two workers or more, see Scheduler).  Strong: a task
\* gets the mutex if the caller, waking up spuriously, frees it time and again.
FairSpec ==
    /\ Spec
    /\ WF_vars(CallerStep)
    /\ \A t \in 0..MaxTotal : SF_vars(t \in ChunkTasks /\ TaskStep(t))

-----------------------------------------------------------------------------
Done == caller \in {"returned", "threw"}

\* The tasks hold references to the items, to out and to partials, which live
\* on the stack of the caller: once wait_batch is left, normally or by an
\* exception, no task will touch them again.
NothingLeftRunning ==
    Parallel /\ caller \in {"fold", "returned", "threw"} =>
        \A t \in ChunkTasks : tpc[t] \in {"notify", "over"}

\* The chunks cover the items without a gap or an overlap: no item is processed
\* twice, and a call that returns has processed every one.
EachItemOnce ==
    \A i \in Items : calls[i] <= 1 /\ (caller = "returned" => calls[i] = 1)

\* Whichever task fails, the caller gets an exception, of an item that did
\* fail; and it gets none when nothing failed.
ErrorsSurface ==
    /\ caller = "returned" => \A i \in faulty : calls[i] = 0
    /\ caller = "threw" =>
          firstError # {} /\ \A i \in firstError : i \in faulty /\ calls[i] = 1

\* par_reduce equals the serial fold for every associative reducer, in whatever
\* order the tasks finish.
ReduceInOrder ==
    kind = "reduce" /\ caller = "returned" => result = [i \in 1..total |-> i - 1]

\* The call returns or throws: the last task cannot notify between the
\* predicate and the wait of the caller.
Completes == <>Done
=============================================================================
