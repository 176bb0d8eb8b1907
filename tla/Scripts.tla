------------------------------ MODULE Scripts ------------------------------
(***************************************************************************)
(* Programs that use the scheduler, as far as it can see them: each task,  *)
(* and the main program, is a sequence of spawn, await, wait_batch (a      *)
(* parallel call) and, at the end of the main program, exit.               *)
(***************************************************************************)
EXTENDS Naturals, Sequences, FiniteSets

CONSTANTS
    Tasks,    \* the tasks a program may spawn
    Main,     \* the main program, run by the main thread
    Setups,   \* the number of workers, env_thread_count(), and the program
    NoTask    \* no task holds the mutex

\* The operations of a script.
Spawn(k) == [op |-> "spawn", tasks |-> {k}]
Await(k) == [op |-> "await", tasks |-> {k}]
WaitBatch(K) == [op |-> "batch", tasks |-> K]
Exit == [op |-> "exit", tasks |-> {}]
Ops == {Spawn(k) : k \in Tasks} \cup {Await(k) : k \in Tasks}
         \cup {WaitBatch(K) : K \in SUBSET Tasks} \cup {Exit}

\* A task is what one call of spawn made.
SpawnsOnce(script) ==
    \A k, l \in Tasks \cup {Main} :
        \A i \in DOMAIN script[k], j \in DOMAIN script[l] :
            script[k][i].op = "spawn" /\ script[l][j] = script[k][i] => l = k /\ j = i

ASSUME SchedulerAssumption ==
    /\ IsFiniteSet(Tasks)
    /\ Main \notin Tasks
    /\ NoTask \notin Tasks \cup {Main}
    /\ \A s \in Setups : /\ s.workers \in Nat \ {0}
                         /\ s.script \in [Tasks \cup {Main} -> Seq(Ops)]
                         /\ SpawnsOnce(s.script)
=============================================================================
