----------------------------- MODULE TaskGroup -----------------------------
(***************************************************************************)
(* with task_group(...) as g: ...  (stmt_with_task_group.cpp and the task  *)
(* group functions of 02_task_runtime.cpp).  The body spawns tasks on g,   *)
(* may cancel and may throw; a task that was given g spawns on it as well. *)
(* When the body ends, or throws, the scope joins the tasks it can see in  *)
(* the group.  When a spawned task is begun is left to the scheduler.      *)
(***************************************************************************)
EXTENDS Naturals, Sequences, FiniteSets

CONSTANTS
    Tasks,       \* the tasks that may be spawned
    MayThrow,    \* whether the body and the tasks may throw
    MayRebind    \* whether the body may assign something else to g

Body == "body"
Nobody == "nobody"
NoTask == "no task"

\* What the constants must be.
GroupParameters == MayThrow \in BOOLEAN /\ MayRebind \in BOOLEAN /\ {Body, NoTask} \cap Tasks = {}

VARIABLES
    timed,      \* whether TaskGroupHandle::timeout_ms was given
    tasks,      \* TaskGroupHandle::tasks
    cancelled,  \* TaskGroupHandle::cancelled, the token of every task in it
    state,      \* the future of each task
    spawner,    \* history: who spawned each task
    spawning,   \* the task each spawner has submitted but not yet listed
    named,      \* whether the name g still denotes the group
    scope,      \* where the thread of the with statement is
    snapshot,   \* tasks, the local copy of join_all
    results     \* results of join_all

vars == <<timed, tasks, cancelled, state, spawner, spawning, named, scope, snapshot,
          results>>

Spawners == Tasks \cup {Body}
Ready == {"value", "nil", "error"}

TypeOK ==
    /\ timed \in BOOLEAN
    /\ tasks \in Seq(Tasks)
    /\ cancelled \in BOOLEAN
    /\ state \in [Tasks -> {"unborn", "queued", "running"} \cup Ready]
    /\ spawner \in [Tasks -> Spawners \cup {Nobody}]
    /\ spawning \in [Spawners -> Tasks \cup {NoTask}]
    /\ named \in BOOLEAN
    /\ scope \in {"body", "join", "joinAgain", "exited", "threw"}
    /\ snapshot \in Seq(Tasks)
    /\ results \in Seq({"value", "nil"})

Init ==
    /\ timed \in BOOLEAN
    /\ tasks = <<>>
    /\ cancelled = FALSE
    /\ state = [t \in Tasks |-> "unborn"]
    /\ spawner = [t \in Tasks |-> Nobody]
    /\ spawning = [s \in Spawners |-> NoTask]
    /\ named = TRUE
    /\ scope = "body"
    /\ snapshot = <<>>
    /\ results = <<>>

Listed == {tasks[i] : i \in DOMAIN tasks}
Running(s) == IF s = Body THEN scope = "body" ELSE state[s] = "running"
Free(s) == Running(s) /\ spawning[s] = NoTask

-----------------------------------------------------------------------------
(* g.spawn: the task is submitted first and listed in the group afterwards *)

\* Each call makes a new task; which of those not yet made is all one.
NewTask(t) == state[t] = "unborn" /\ t = CHOOSE u \in Tasks : state[u] = "unborn"

SpawnSubmit(s) ==
    /\ Free(s)
    /\ \E t \in Tasks :
          /\ NewTask(t)
          /\ state' = [state EXCEPT ![t] = "queued"]
          /\ spawner' = [spawner EXCEPT ![t] = s]
          /\ spawning' = [spawning EXCEPT ![s] = t]
    /\ UNCHANGED <<timed, tasks, cancelled, named, scope, snapshot, results>>

SpawnList(s) ==
    /\ spawning[s] # NoTask
    /\ tasks' = Append(tasks, spawning[s])
    /\ spawning' = [spawning EXCEPT ![s] = NoTask]
    /\ UNCHANGED <<timed, cancelled, state, spawner, named, scope, snapshot, results>>

-----------------------------------------------------------------------------
(* A task: the token is looked at once, before the function is called *)

Finish(t) == IF MayThrow THEN {"value", "error"} ELSE {"value"}

\* Definitions named Bad... are faults a change of the code could introduce;
\* nothing uses them but the experiments that put one in the place of the
\* definition that follows it.
\* A cancelled task is dropped, its promise never set.
BadTaskBegin(t) ==
    /\ state[t] = "queued" /\ ~cancelled
    /\ state' = [state EXCEPT ![t] = "running"]
    /\ UNCHANGED <<timed, tasks, cancelled, spawner, spawning, named, scope, snapshot,
                   results>>

TaskBegin(t) ==
    /\ state[t] = "queued"
    /\ state' = [state EXCEPT ![t] = IF cancelled THEN "nil" ELSE "running"]
    /\ UNCHANGED <<timed, tasks, cancelled, spawner, spawning, named, scope, snapshot,
                   results>>

TaskEnd(t) ==
    /\ Free(t)
    /\ \E outcome \in Finish(t) : state' = [state EXCEPT ![t] = outcome]
    /\ UNCHANGED <<timed, tasks, cancelled, spawner, spawning, named, scope, snapshot,
                   results>>

-----------------------------------------------------------------------------
(* The body *)

\* g.cancel_all(); also cancel(t) of any one task of the group, whose token is
\* the token of the group.
Cancel ==
    /\ Free(Body)
    /\ cancelled' = TRUE
    /\ UNCHANGED <<timed, tasks, state, spawner, spawning, named, scope, snapshot,
                   results>>

Rebind ==
    /\ Free(Body) /\ MayRebind
    /\ named' = FALSE
    /\ UNCHANGED <<timed, tasks, cancelled, state, spawner, spawning, scope, snapshot,
                   results>>

\* Joins without cancelling.
BadRecover == /\ scope' = IF named THEN "joinAgain" ELSE "threw"
              /\ snapshot' = tasks
              /\ results' = <<>>
              /\ UNCHANGED cancelled

\* The catch block of the with statement: cancel, join once more, rethrow.
Recover ==
    IF named
    THEN /\ cancelled' = TRUE
         /\ scope' = "joinAgain"
         /\ snapshot' = tasks
         /\ results' = <<>>
    ELSE /\ scope' = "threw"
         /\ UNCHANGED <<cancelled, snapshot, results>>

BodyThrow ==
    /\ Free(Body) /\ MayThrow
    /\ Recover
    /\ UNCHANGED <<timed, tasks, state, spawner, spawning, named>>

BodyEnd ==
    /\ Free(Body)
    /\ IF named THEN scope' = "join" /\ snapshot' = tasks
       ELSE scope' = "exited" /\ UNCHANGED snapshot
    /\ UNCHANGED <<timed, tasks, cancelled, state, spawner, spawning, named, results>>

-----------------------------------------------------------------------------
(* join_all on the snapshot: the tasks are awaited one after the other *)

Joining == scope \in {"join", "joinAgain"}
Awaited == snapshot[Len(results) + 1]
BadAllJoined == Len(results) + 1 >= Len(snapshot)
AllJoined == Len(results) = Len(snapshot)
\* What await_task_value does not rethrow.
BadReturned == Ready
Returned == {"value", "nil"}

JoinResult ==
    /\ Joining /\ Len(results) < Len(snapshot)
    /\ state[Awaited] \in Returned
    /\ results' = Append(results, state[Awaited])
    /\ UNCHANGED <<timed, tasks, cancelled, state, spawner, spawning, named, scope, snapshot>>

JoinDone ==
    /\ Joining /\ AllJoined
    /\ scope' = IF scope = "join" THEN "exited" ELSE "threw"
    /\ UNCHANGED <<timed, tasks, cancelled, state, spawner, spawning, named, snapshot,
                   results>>

\* The awaited task threw, or the timeout, which each task has for itself, has
\* expired.  The second join swallows either and stops there.
JoinThrow ==
    /\ Joining /\ Len(results) < Len(snapshot)
    /\ \/ state[Awaited] = "error"
       \/ timed /\ state[Awaited] \notin Ready
    /\ IF scope = "join" THEN Recover
       ELSE scope' = "threw" /\ UNCHANGED <<cancelled, snapshot, results>>
    /\ UNCHANGED <<timed, tasks, state, spawner, spawning, named>>

-----------------------------------------------------------------------------
ScopeStep == BodyThrow \/ BodyEnd \/ JoinResult \/ JoinDone \/ JoinThrow
TaskStep(t) == TaskBegin(t) \/ SpawnList(t) \/ TaskEnd(t)

Next ==
    \/ ScopeStep \/ Cancel \/ Rebind
    \/ \E s \in Spawners : SpawnSubmit(s) \/ SpawnList(s)
    \/ \E t \in Tasks : TaskBegin(t) \/ TaskEnd(t)

Spec == Init /\ [][Next]_vars

\* The thread of the scope and the tasks run; the functions terminate.
FairSpec ==
    /\ Spec
    /\ WF_vars(ScopeStep \/ SpawnList(Body))
    /\ \A t \in Tasks : WF_vars(TaskStep(t))

-----------------------------------------------------------------------------
Over == scope \in {"exited", "threw"}

\* "structured concurrency scope enables cooperative cancellation + join": no
\* task of a group without a timeout runs on after the scope.
ScopeJoins == Over /\ ~timed => \A t \in Listed : state[t] \in Ready

\* What does hold: a scope that ends normally, with g still naming the group,
\* has waited for every task its body spawned, and none of those failed.
NormalExitJoinsBody ==
    scope = "exited" /\ named =>
        \A t \in Tasks : spawner[t] = Body => state[t] \in {"value", "nil"}

\* After a scope was left by an exception no task of the group begins its
\* function any more, whoever spawned it and whenever.
NoLateStart ==
    [][scope = "threw" /\ named =>
         \A t \in Tasks : state'[t] = "running" => state[t] = "running"]_vars

\* The scope is left.
ScopeEnds == <>Over
=============================================================================
