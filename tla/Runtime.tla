------------------------------ MODULE Runtime ------------------------------
(***************************************************************************)
(* The two parts of the async runtime that threads meet in: a channel,     *)
(* and the scheduler under a program.  A task that sends or receives only  *)
(* blocks its thread in the channel; the parts share no state, so that a   *)
(* run is about one of them.                                               *)
(***************************************************************************)
EXTENDS Channel, Scheduler

CONSTANT Parts    \* what the runs are about, of "channel" and "tasks"

VARIABLE part     \* what a run is about

runtimeVars == <<part, vars, poolVars>>

\* What the run is not about is in one of its initial states, and stays there.
RuntimeInit ==
    /\ part \in Parts
    /\ Init
    /\ PoolInit
    /\ part = "channel" => setup = CHOOSE s \in Setups : TRUE

OfChannel(A) == part = "channel" /\ A /\ UNCHANGED <<part, poolVars>>
OfTasks(A) == part = "tasks" /\ A /\ UNCHANGED <<part, vars>>

RuntimeNext == OfChannel(Next) \/ OfTasks(PoolNext)

\* The fairness of Channel and of Scheduler.
WorkerRuns(w) ==
    /\ w \in Workers
    /\ WorkerStep(w) \/ \E k \in Programs : TaskStep(w, k)
    /\ UNCHANGED setup
MainRuns ==
    /\ ShutdownStep(Main) \/ \E k \in Programs : TaskStep(MainThread, k)
    /\ UNCHANGED setup

RuntimeSpec ==
    /\ RuntimeInit /\ [][RuntimeNext]_runtimeVars
    /\ \A s \in Senders : WF_runtimeVars(OfChannel(SendStep(s)))
    /\ \A r \in Receivers : WF_runtimeVars(OfChannel(RecvStep(r) \/ CallRecv(r)))
    /\ \A c \in Closers : WF_runtimeVars(OfChannel(CloseStep(c)))
    /\ \A w \in UNION {0..(s.workers - 1) : s \in Setups} :
          WF_runtimeVars(OfTasks(WorkerRuns(w)))
    /\ WF_runtimeVars(OfTasks(MainRuns))

-----------------------------------------------------------------------------
(* The properties are those of Channel and of Scheduler, but that a program *)
(* ends in the runs that are about one. *)

\* The program ends and its scheduler is destroyed, unless a wait_batch or the
\* destructor waits for ever.
RunEnds == part = "tasks" => ProgramEnds
=============================================================================
