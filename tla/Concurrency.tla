---------------------------- MODULE Concurrency ----------------------------
(***************************************************************************)
(* The constructs in which a thread waits for others: the data-parallel    *)
(* calls, with task_group and async for over a channel.  They share no     *)
(* state of their own, so that a run is about one of them.                 *)
(***************************************************************************)
EXTENDS ParallelBatch

CONSTANTS
    Tasks, MayThrow, MayRebind,                             \* of TaskGroup
    Senders, Receivers, Closers, Capacity, MaxSends,        \* of ChannelStream
    NoneMessages

VARIABLES
    construct,                                              \* what a run is about
    timed, tasks, cancelled, state, spawner, spawning, named, scope, snapshot, results,
    queue, closed, sendCount, recvCount, pc, sends, limited, ret, item, sent, received,
    loop, consumed

groupVars == <<timed, tasks, cancelled, state, spawner, spawning, named, scope, snapshot, results>>
loopVars == <<queue, closed, sendCount, recvCount, pc, sends, limited, ret, item, sent, received,
              loop, consumed>>
concurrencyVars == <<construct, vars, groupVars, loopVars>>

Group == INSTANCE TaskGroup
Loops == INSTANCE ChannelStream WITH AllowTimeout <- FALSE, calls <- sends, timed <- limited

ASSUME GroupAssumption == Group!GroupParameters
ASSUME LoopsAssumption == Loops!ChannelAssumption /\ Loops!StreamParameters

\* What the run is not about is in one of its initial states, and stays there.
ConcurrencyInit ==
    /\ construct \in {"batch", "group", "loops"}
    /\ Init
    /\ construct # "batch" => kind = "map" /\ total = 0
    /\ Group!Init
    /\ construct # "group" => ~timed
    /\ Loops!StreamInit

OfBatch(A) == construct = "batch" /\ A /\ UNCHANGED <<construct, groupVars, loopVars>>
OfGroup(A) == construct = "group" /\ A /\ UNCHANGED <<construct, vars, loopVars>>
OfLoops(A) == construct = "loops" /\ A /\ UNCHANGED <<construct, vars, groupVars>>

ConcurrencyNext ==
    OfBatch(Next) \/ OfGroup(Group!Next) \/ OfLoops(Loops!StreamNext)

\* The fairness of ParallelBatch, TaskGroup and ChannelStream.
ConcurrencySpec ==
    /\ ConcurrencyInit /\ [][ConcurrencyNext]_concurrencyVars
    /\ WF_concurrencyVars(OfBatch(CallerStep))
    /\ \A t \in 0..MaxTotal : SF_concurrencyVars(OfBatch(t \in ChunkTasks /\ TaskStep(t)))
    /\ WF_concurrencyVars(OfGroup(Group!ScopeStep \/ Group!SpawnList(Group!Body)))
    /\ \A t \in Tasks : WF_concurrencyVars(OfGroup(Group!TaskStep(t)))
    /\ \A s \in Senders : WF_concurrencyVars(OfLoops(Loops!Produce(s)))
    /\ \A r \in Receivers : WF_concurrencyVars(OfLoops(Loops!Turn(r) \/ Loops!Runtime(r)))
    /\ \A c \in Closers : WF_concurrencyVars(OfLoops(Loops!Close(c)))

-----------------------------------------------------------------------------
\* A task_group scope that ends normally, with its name still bound to the
\* group, has joined every task its body spawned.
NormalExitJoinsBody == Group!NormalExitJoinsBody

\* After an exception has left the scope no task of the group begins.
NoLateStart == Group!NoLateStart

\* An async for that has come to the end of its stream has left nothing behind in
\* its channel, unless it received a None that a producer sent.
DrainedAtEnd == Loops!DrainedAtEnd

\* The bodies of the loops together see each message once.
AllConsumed == Loops!AllConsumed

\* Whichever construct a run is about, the threads that wait get out of it: the
\* caller of a batch, the scope of a group, the loops over a channel.  The loops
\* do not when a wakeup of the channel is lost for good, and only then.
WaitsEnd ==
    \/ <>(\/ construct = "batch" /\ Done
          \/ construct = "group" /\ Group!Over
          \/ construct = "loops" /\ Loops!LoopsOver)
    \/ <>[](construct = "loops" /\ Loops!SomebodyOversleeps)
=============================================================================
