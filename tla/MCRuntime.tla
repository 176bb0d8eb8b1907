----------------------------- MODULE MCRuntime -----------------------------
(* Instances of Runtime for TLC; the programs are scripts that exercise the *)
(* scheduler. *)
EXTENDS Runtime, TLC

CONSTANTS s1, s2, r1, c1, main, ta, tb, tc, td

Leaf == <<>>

\* main awaits two tasks, the first of which awaits a task of its own.
AwaitScript ==
    main :> <<Spawn(ta), Spawn(tb), Await(ta), Await(tb), Exit>>
      @@ ta :> <<Spawn(tc), Await(tc)>> @@ tb :> Leaf @@ tc :> Leaf

\* A parallel_for of two chunks.
BatchScript ==
    main :> <<Spawn(ta), Spawn(tb), WaitBatch({ta, tb}), Exit>>
      @@ ta :> Leaf @@ tb :> Leaf @@ tc :> Leaf

\* A task with a parallel_for of its own.
NestedScript ==
    main :> <<Spawn(ta), Await(ta), Exit>>
      @@ ta :> <<Spawn(tb), WaitBatch({tb})>> @@ tb :> Leaf @@ tc :> Leaf

\* main awaits a task while another one spawns two.
AssistScript ==
    main :> <<Spawn(ta), Spawn(tb), Await(ta), Await(tb), Exit>>
      @@ ta :> Leaf @@ tb :> <<Spawn(tc), Spawn(td), Await(tc), Await(td)>>
      @@ tc :> Leaf @@ td :> Leaf

MCSetups == {[workers |-> 1, script |-> AwaitScript],
             [workers |-> 2, script |-> AwaitScript],
             [workers |-> 2, script |-> BatchScript],
             [workers |-> 1, script |-> NestedScript],
             [workers |-> 2, script |-> NestedScript]}
AssistSetup == {[workers |-> 2, script |-> AssistScript]}
OneWorkerSetup == {[workers |-> 1, script |-> BatchScript]}
=============================================================================
