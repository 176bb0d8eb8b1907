------------------------------ MODULE ForkJoin ------------------------------
(***************************************************************************)
(* What the scheduler promises a program, without queues, workers, stacks  *)
(* or locks: a task that was spawned begins at most once, does its         *)
(* operations once each and in order, and goes past an await or a batch    *)
(* only when the tasks it waits for have ended; when the program has left, *)
(* no task is running and none begins.  Queued tasks may be left behind.   *)
(***************************************************************************)
EXTENDS Integers, Sequences

CONSTANTS
    Tasks, Main,
    Scripts     \* the programs: what each task does, as in Scheduler

VARIABLES
    script,     \* the one of Scripts that is run
    state,      \* "unborn", "queued", "running" or "done"
    at          \* the operation each task is at

forkVars == <<script, state, at>>

ForkInit ==
    /\ script \in Scripts
    /\ state = [k \in Tasks \cup {Main} |-> IF k = Main THEN "running" ELSE "unborn"]
    /\ at = [k \in Tasks \cup {Main} |-> 1]

\* Task k is about to do an operation of a kind.
AtOp(k, kinds) ==
    state[k] = "running" /\ at[k] <= Len(script[k]) /\ script[k][at[k]].op \in kinds
Named(k) == script[k][at[k]].tasks
Proceed(k) == at' = [at EXCEPT ![k] = @ + 1]

ForkTask(k) ==
    /\ AtOp(k, {"spawn"})
    /\ \E c \in Named(k) : state[c] = "unborn" /\ state' = [state EXCEPT ![c] = "queued"]
    /\ Proceed(k)

JoinTasks(k) ==
    /\ AtOp(k, {"await", "batch"})
    /\ \A c \in Named(k) : state[c] = "done"
    /\ Proceed(k) /\ UNCHANGED state

BeginTask(k) ==
    /\ state[Main] # "done"
    /\ state[k] = "queued" /\ state' = [state EXCEPT ![k] = "running"]
    /\ UNCHANGED at

EndTask(k) ==
    /\ state[k] = "running" /\ at[k] > Len(script[k])
    /\ state' = [state EXCEPT ![k] = "done"]
    /\ UNCHANGED at

Leave ==
    /\ AtOp(Main, {"exit"})
    /\ \A k \in Tasks : state[k] # "running"
    /\ state' = [state EXCEPT ![Main] = "done"]
    /\ UNCHANGED at

ForkNext ==
    /\ \/ \E k \in Tasks \cup {Main} : ForkTask(k) \/ JoinTasks(k)
       \/ \E k \in Tasks : BeginTask(k) \/ EndTask(k)
       \/ Leave
    /\ UNCHANGED script

ForkSpec == ForkInit /\ [][ForkNext]_forkVars
=============================================================================
