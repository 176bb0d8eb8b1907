-------------------------- MODULE TaskGroupProofs --------------------------
(***************************************************************************)
(* Safety of TaskGroup, for every set of tasks: a normal exit has joined   *)
(* what the body spawned, and nothing of the group begins after an         *)
(* exception has left the scope.                                           *)
(***************************************************************************)
EXTENDS TaskGroup, SequenceTheorems, TLAPS

InSnapshot(t) == \E i \in 1..Len(snapshot) : snapshot[i] = t

\* What the body spawned is in the group, but for the one task it has not
\* listed yet.
ListedInv ==
    \A t \in Tasks : spawner[t] = Body =>
        /\ state[t] # "unborn"
        /\ spawning[Body] = t \/ \E i \in 1..Len(tasks) : tasks[i] = t

\* A scope that joins without an exception has all of it in its snapshot.
SnapshotInv ==
    /\ scope \in {"join", "joinAgain"} => named
    /\ scope = "join" \/ (scope = "exited" /\ named) =>
          /\ spawning[Body] = NoTask
          /\ \A t \in Tasks : spawner[t] = Body => InSnapshot(t)

\* The results collected so far are those of the first tasks of the snapshot.
ResultsInv ==
    /\ scope = "body" => results = <<>>
    /\ Len(results) <= Len(snapshot)
    /\ \A i \in 1..Len(results) :
          results[i] = state[snapshot[i]] /\ state[snapshot[i]] \in Returned
    /\ scope = "exited" /\ named => Len(results) = Len(snapshot)

\* An exception that leaves the scope has cancelled the group.
CancelledInv == scope = "joinAgain" \/ (scope = "threw" /\ named) => cancelled

IInv == TypeOK /\ ListedInv /\ SnapshotInv /\ ResultsInv /\ CancelledInv
-----------------------------------------------------------------------------
(* Type correctness *)

\* The first state has the types.
LEMMA TypeInit == Init => TypeOK
<1> SUFFICES ASSUME Init PROVE TypeOK
  OBVIOUS
<1>1. tasks \in Seq(Tasks) /\ snapshot \in Seq(Tasks) /\ results \in Seq({"value", "nil"})
  BY EmptySeq DEF Init
<1>2. QED
  BY <1>1 DEF Init, TypeOK

\* The task a join waits for is one of the group.
LEMMA AwaitedIsTask ==
  ASSUME TypeOK, Len(results) < Len(snapshot)
  PROVE  /\ Len(results) + 1 \in 1..Len(snapshot)
         /\ Awaited \in Tasks
<1>1. snapshot \in Seq(Tasks) /\ Len(results) \in Nat /\ Len(snapshot) \in Nat
  BY DEF TypeOK
<1>2. Len(results) + 1 \in 1..Len(snapshot)
  BY <1>1
<1>3. QED
  BY <1>1, <1>2, ElementOfSeq DEF Awaited

\* Every step keeps the types.
LEMMA TypeStep == TypeOK /\ [Next]_vars => TypeOK'
<1> SUFFICES ASSUME TypeOK, [Next]_vars PROVE TypeOK'
  OBVIOUS
<1> USE DEF TypeOK, Ready
<1>0. Recover => /\ scope' \in {"joinAgain", "threw"} /\ cancelled' \in BOOLEAN
                 /\ snapshot' \in Seq(Tasks) /\ results' \in Seq({"value", "nil"})
  <2>1. <<>> \in Seq({"value", "nil"})
    BY EmptySeq
  <2>2. QED
    BY <2>1 DEF Recover
<1>1. CASE UNCHANGED vars
  BY <1>1 DEF vars
<1>2. ASSUME NEW s \in Spawners, SpawnSubmit(s) PROVE TypeOK'
  BY <1>2 DEF NewTask, SpawnSubmit
<1>3. ASSUME NEW s \in Spawners, SpawnList(s) PROVE TypeOK'
  <2>1. spawning[s] \in Tasks
    BY <1>3 DEF SpawnList
  <2>2. QED
    BY <1>3, <2>1, AppendProperties DEF SpawnList
<1>4. ASSUME NEW t \in Tasks, TaskBegin(t) PROVE TypeOK'
  BY <1>4 DEF TaskBegin
<1>5. ASSUME NEW t \in Tasks, TaskEnd(t) PROVE TypeOK'
  BY <1>5 DEF TaskEnd, Finish
<1>6. CASE Cancel
  BY <1>6 DEF Cancel
<1>7. CASE Rebind
  BY <1>7 DEF Rebind
<1>8. CASE BodyThrow
  BY <1>0, <1>8 DEF BodyThrow
<1>9. CASE BodyEnd
  BY <1>9 DEF BodyEnd
<1>10. CASE JoinResult
  <2>1. results' \in Seq({"value", "nil"})
    BY <1>10, AppendProperties DEF JoinResult, Returned
  <2>2. QED
    BY <1>10, <2>1 DEF JoinResult
<1>11. CASE JoinDone
  BY <1>11 DEF JoinDone
<1>12. CASE JoinThrow
  BY <1>0, <1>12 DEF JoinThrow
<1>13. QED
  BY <1>1, <1>2, <1>3, <1>4, <1>5, <1>6, <1>7, <1>8, <1>9, <1>10, <1>11, <1>12
     DEF Next, ScopeStep

-----------------------------------------------------------------------------
(* What a step leaves as it is *)

\* A task that has returned keeps its result, and one that was spawned stays so.
LEMMA FuturesSettle ==
  ASSUME GroupParameters, TypeOK, [Next]_vars
  PROVE  \A t \in Tasks : /\ state[t] \in Returned => state'[t] = state[t]
                          /\ state[t] # "unborn" => state'[t] # "unborn" /\ spawner'[t] = spawner[t]
<1> USE DEF TypeOK, Returned
<1>1. ASSUME NEW s \in Spawners, SpawnSubmit(s)
      PROVE  \A t \in Tasks :
               /\ state[t] \in Returned => state'[t] = state[t]
               /\ state[t] # "unborn" => state'[t] # "unborn" /\ spawner'[t] = spawner[t]
  BY <1>1 DEF NewTask, SpawnSubmit
<1>2. ASSUME NEW u \in Tasks, TaskBegin(u)
      PROVE  \A t \in Tasks :
               /\ state[t] \in Returned => state'[t] = state[t]
               /\ state[t] # "unborn" => state'[t] # "unborn" /\ spawner'[t] = spawner[t]
  BY <1>2 DEF TaskBegin
<1>3. ASSUME NEW u \in Tasks, TaskEnd(u)
      PROVE  \A t \in Tasks :
               /\ state[t] \in Returned => state'[t] = state[t]
               /\ state[t] # "unborn" => state'[t] # "unborn" /\ spawner'[t] = spawner[t]
  <2>1. state[u] = "running" /\ spawner' = spawner
    BY <1>3 DEF TaskEnd, Free, Running, GroupParameters
  <2>2. PICK l \in {"value", "error"} : state' = [state EXCEPT ![u] = l]
    BY <1>3 DEF TaskEnd, Finish
  <2>3. QED
    BY <2>1, <2>2
<1>4. CASE UNCHANGED <<state, spawner>>
  BY <1>4
<1>5. QED
  BY <1>1, <1>2, <1>3, <1>4
     DEF Next, vars, SpawnList, Cancel, Rebind, ScopeStep, BodyThrow, BodyEnd, JoinResult,
         JoinDone, JoinThrow

\* A spawner lists what it has submitted; nobody else touches that.
LEMMA ListedStep ==
  ASSUME GroupParameters, TypeOK, ListedInv, [Next]_vars
  PROVE  ListedInv'
<1> USE DEF TypeOK, ListedInv
<1>1. ASSUME NEW s \in Spawners, SpawnSubmit(s) PROVE ListedInv'
  <2>1. /\ spawning[s] = NoTask /\ tasks' = tasks
        /\ \E t \in Tasks : /\ state[t] = "unborn"
                            /\ state' = [state EXCEPT ![t] = "queued"]
                            /\ spawner' = [spawner EXCEPT ![t] = s]
                            /\ spawning' = [spawning EXCEPT ![s] = t]
    BY <1>1 DEF NewTask, SpawnSubmit, Free
  <2>2. PICK u \in Tasks : /\ state[u] = "unborn"
                           /\ state' = [state EXCEPT ![u] = "queued"]
                           /\ spawner' = [spawner EXCEPT ![u] = s]
                           /\ spawning' = [spawning EXCEPT ![s] = u]
    BY <2>1
  <2>3. ASSUME NEW t \in Tasks, spawner'[t] = Body
        PROVE  /\ state'[t] # "unborn"
               /\ spawning'[Body] = t \/ \E i \in 1..Len(tasks) : tasks[i] = t
    <3>1. CASE t = u
      BY <2>2, <2>3, <3>1 DEF Spawners
    <3>2. CASE t # u
      <4>1. spawner[t] = Body /\ state'[t] = state[t] /\ state[t] # "unborn"
        BY <2>2, <2>3, <3>2
      <4>2. spawning[Body] # t \/ s # Body
        BY <2>1 DEF GroupParameters
      <4>3. QED
        BY <2>2, <4>1, <4>2 DEF Spawners
    <3>3. QED
      BY <3>1, <3>2
  <2>4. QED
    BY <2>1, <2>3
<1>2. ASSUME NEW s \in Spawners, SpawnList(s) PROVE ListedInv'
  <2>1. /\ spawning[s] \in Tasks /\ tasks' = Append(tasks, spawning[s])
        /\ spawning' = [spawning EXCEPT ![s] = NoTask]
        /\ state' = state /\ spawner' = spawner
    BY <1>2 DEF SpawnList
  <2>2. /\ Len(tasks') = Len(tasks) + 1 /\ tasks'[Len(tasks) + 1] = spawning[s]
        /\ \A i \in 1..Len(tasks) : tasks'[i] = tasks[i]
        /\ Len(tasks) \in Nat
    BY <2>1, AppendProperties
  <2>3. ASSUME NEW t \in Tasks, spawner[t] = Body
        PROVE  spawning'[Body] = t \/ \E i \in 1..Len(tasks') : tasks'[i] = t
    <3>1. CASE \E i \in 1..Len(tasks) : tasks[i] = t
      BY <2>2, <3>1
    <3>2. CASE spawning[Body] = t /\ s # Body
      BY <2>1, <3>2 DEF Spawners
    <3>3. CASE spawning[Body] = t /\ s = Body
      <4>1. Len(tasks) + 1 \in 1..Len(tasks')
        BY <2>2
      <4>2. QED
        BY <2>2, <3>3, <4>1
    <3>4. QED
      BY <2>3, <3>1, <3>2, <3>3
  <2>4. QED
    BY <2>1, <2>3
<1>3. CASE UNCHANGED <<tasks, spawning>> /\ spawner' = spawner
  BY <1>3, FuturesSettle
<1>4. QED
  BY <1>1, <1>2, <1>3
     DEF Next, vars, TaskBegin, TaskEnd, Cancel, Rebind, ScopeStep, BodyThrow, BodyEnd,
         JoinResult, JoinDone, JoinThrow

\* The snapshot is taken with everything the body spawned in it.
LEMMA SnapshotStep ==
  ASSUME GroupParameters, TypeOK, ListedInv, SnapshotInv, [Next]_vars
  PROVE  SnapshotInv'
<1> USE DEF TypeOK, SnapshotInv, InSnapshot
<1>1. ASSUME NEW s \in Spawners, SpawnSubmit(s) PROVE SnapshotInv'
  <2>1. /\ Running(s) /\ UNCHANGED <<scope, named, snapshot>>
        /\ \E t \in Tasks : /\ spawner' = [spawner EXCEPT ![t] = s]
                            /\ spawning' = [spawning EXCEPT ![s] = t]
    BY <1>1 DEF NewTask, SpawnSubmit, Free
  <2>2. CASE s = Body
    BY <2>1, <2>2 DEF Running
  <2>3. CASE s # Body
    <3>1. spawning'[Body] = spawning[Body]
      BY <2>1, <2>3 DEF Spawners
    <3>2. \A t \in Tasks : spawner'[t] = Body => spawner[t] = Body
      BY <2>1, <2>3
    <3>3. QED
      BY <2>1, <3>1, <3>2
  <2>4. QED
    BY <2>2, <2>3
<1>2. ASSUME NEW s \in Spawners, SpawnList(s) PROVE SnapshotInv'
  <2>1. spawning[Body] = NoTask => spawning'[Body] = NoTask
    BY <1>2 DEF SpawnList, Spawners
  <2>2. QED
    BY <1>2, <2>1 DEF SpawnList
<1>3. CASE BodyEnd
  <2>1. spawning[Body] = NoTask /\ scope = "body" /\ spawner' = spawner /\ spawning' = spawning
    BY <1>3 DEF BodyEnd, Free, Running
  <2>2. CASE named
    <3>1. scope' = "join" /\ snapshot' = tasks /\ named' = named
      BY <1>3, <2>2 DEF BodyEnd
    <3>2. \A t \in Tasks : spawner[t] = Body => \E i \in 1..Len(tasks) : tasks[i] = t
      BY <2>1 DEF ListedInv, GroupParameters
    <3>3. QED
      BY <2>1, <2>2, <3>1, <3>2
  <2>3. CASE ~named
    BY <1>3, <2>3 DEF BodyEnd
  <2>4. QED
    BY <2>2, <2>3
<1>4. CASE Cancel \/ Rebind
  BY <1>4 DEF Cancel, Rebind, Free, Running
<1>5. CASE BodyThrow \/ JoinThrow
  BY <1>5 DEF BodyThrow, JoinThrow, Recover, Joining
<1>6. CASE JoinDone
  BY <1>6 DEF JoinDone, Joining
<1>7. CASE UNCHANGED <<spawner, spawning, named, scope, snapshot>>
  BY <1>7
<1>8. QED
  BY <1>1, <1>2, <1>3, <1>4, <1>5, <1>6, <1>7
     DEF Next, vars, TaskBegin, TaskEnd, ScopeStep, JoinResult

\* Collected results stay those of the tasks: a task that has returned keeps
\* its result.
LEMMA ResultsStep ==
  ASSUME GroupParameters, TypeOK, ResultsInv, [Next]_vars
  PROVE  ResultsInv'
<1> DEFINE R == \A i \in 1..Len(results) :
                   results[i] = state[snapshot[i]] /\ state[snapshot[i]] \in Returned
<1>1. Len(results) \in Nat /\ Len(snapshot) \in Nat /\ Len(tasks) \in Nat
  BY DEF TypeOK
<1>2. ASSUME UNCHANGED <<snapshot, results>> PROVE R'
  <2>1. ASSUME NEW i \in 1..Len(results)
        PROVE  results[i] = state'[snapshot[i]] /\ state'[snapshot[i]] \in Returned
    <3>1. i \in 1..Len(snapshot)
      BY <1>1 DEF ResultsInv
    <3>2. snapshot[i] \in Tasks
      BY <3>1, ElementOfSeq DEF TypeOK
    <3>3. QED
      BY <2>1, <3>2, FuturesSettle DEF ResultsInv
  <2>2. QED
    BY <1>2, <2>1 DEF Returned
<1>3. ASSUME results' = <<>>, scope' # "exited" PROVE ResultsInv'
  <2>1. Len(results') = 0
    BY <1>3
  <2>2. Len(snapshot') \in Nat
    BY TypeStep DEF TypeOK
  <2>3. QED
    BY <1>3, <2>1, <2>2 DEF ResultsInv
<1>4. ASSUME UNCHANGED <<snapshot, results, scope, named>> PROVE ResultsInv'
  BY <1>2, <1>4 DEF ResultsInv
<1>5. CASE BodyThrow \/ JoinThrow
  <2>1. scope \in {"body", "join", "joinAgain"} /\ scope' \in {"joinAgain", "threw"}
    BY <1>5 DEF BodyThrow, JoinThrow, Recover, Free, Running, Joining
  <2>2. results' = <<>> \/ UNCHANGED <<snapshot, results>>
    BY <1>5 DEF BodyThrow, JoinThrow, Recover
  <2>3. QED
    BY <1>2, <1>3, <2>1, <2>2 DEF ResultsInv
<1>6. CASE BodyEnd
  <2>1. results' = results /\ results = <<>> /\ named' = named
    BY <1>6 DEF BodyEnd, Free, Running, ResultsInv
  <2>2. CASE named
    BY <1>3, <1>6, <2>1, <2>2 DEF BodyEnd
  <2>3. CASE ~named
    <3>1. UNCHANGED <<snapshot, results>> /\ ~named' /\ scope' = "exited"
      BY <1>6, <2>1, <2>3 DEF BodyEnd
    <3>2. QED
      BY <1>2, <3>1 DEF ResultsInv
  <2>4. QED
    BY <2>2, <2>3
<1>7. CASE JoinResult
  <2>1. /\ results' = Append(results, state[Awaited]) /\ state[Awaited] \in Returned
        /\ Len(results) < Len(snapshot) /\ scope \in {"join", "joinAgain"}
        /\ UNCHANGED <<snapshot, scope, state>>
    BY <1>7 DEF JoinResult, Joining
  <2>2. /\ Len(results') = Len(results) + 1 /\ results'[Len(results) + 1] = state[Awaited]
        /\ \A i \in 1..Len(results) : results'[i] = results[i]
    BY <2>1, AppendProperties DEF TypeOK, Returned
  <2>3. ASSUME NEW i \in 1..Len(results')
        PROVE  results'[i] = state[snapshot[i]] /\ state[snapshot[i]] \in Returned
    <3>1. i \in 1..Len(results) \/ i = Len(results) + 1
      BY <1>1, <2>2
    <3>2. QED
      BY <2>1, <2>2, <3>1 DEF Awaited, ResultsInv
  <2>4. Len(results') <= Len(snapshot)
    BY <1>1, <2>1, <2>2
  <2>5. R'
    BY <2>1, <2>3 DEF Returned
  <2>6. QED
    BY <2>1, <2>4, <2>5 DEF ResultsInv
<1>8. CASE JoinDone
  <2>1. UNCHANGED <<snapshot, results>> /\ Len(results) = Len(snapshot) /\ scope' # "body"
    BY <1>8 DEF JoinDone, AllJoined
  <2>2. QED
    BY <1>2, <2>1 DEF ResultsInv
<1>9. CASE Rebind
  BY <1>2, <1>9 DEF Rebind, Free, Running, ResultsInv
<1>10. QED
  BY <1>4, <1>5, <1>6, <1>7, <1>8, <1>9
     DEF Next, vars, NewTask, SpawnSubmit, SpawnList, TaskBegin, TaskEnd, Cancel, ScopeStep

\* The handlers of an exception cancel before they join.
LEMMA CancelledStep ==
  ASSUME TypeOK, CancelledInv, [Next]_vars
  PROVE  CancelledInv'
BY DEF TypeOK, CancelledInv, Next, vars, NewTask, SpawnSubmit, SpawnList, TaskBegin, TaskEnd, Cancel, Rebind,
       Free, Running, ScopeStep, BodyThrow, BodyEnd, JoinResult, JoinDone, JoinThrow, Joining, Recover

-----------------------------------------------------------------------------
(* The theorems *)

\* The inductive invariant holds in every reachable state.
LEMMA InductiveInvariant ==
  ASSUME GroupParameters
  PROVE  Spec => []IInv
<1>1. Init => IInv
  <2> SUFFICES ASSUME Init PROVE IInv
    OBVIOUS
  <2>1. TypeOK /\ results = <<>> /\ Len(results) = 0 /\ Len(snapshot) = 0
    BY TypeInit DEF Init
  <2>2. QED
    BY <2>1 DEF Init, IInv, ListedInv, SnapshotInv, ResultsInv, CancelledInv, Body, Nobody
<1>2. IInv /\ [Next]_vars => IInv'
  BY TypeStep, ListedStep, SnapshotStep, ResultsStep, CancelledStep DEF IInv
<1>3. QED
  BY <1>1, <1>2, PTL DEF Spec

\* The state of a group, of its tasks and of its scope has its type.
THEOREM TypeCorrect ==
  ASSUME GroupParameters
  PROVE  Spec => []TypeOK
<1>1. IInv => TypeOK
  BY DEF IInv
<1>2. QED
  BY <1>1, InductiveInvariant, PTL

\* A scope that ends normally, with its name still bound to the group, has
\* joined every task its body spawned: the one the body spawned last is in the
\* snapshot too, whatever the tasks of the group spawn meanwhile.
THEOREM NormalExitCorrect ==
  ASSUME GroupParameters
  PROVE  Spec => []NormalExitJoinsBody
<1>1. ASSUME IInv, scope = "exited", named, NEW t \in Tasks, spawner[t] = Body
      PROVE  state[t] \in {"value", "nil"}
  <2>1. PICK i \in 1..Len(snapshot) : snapshot[i] = t
    BY <1>1 DEF IInv, SnapshotInv, InSnapshot
  <2>2. i \in 1..Len(results)
    BY <1>1 DEF IInv, ResultsInv
  <2>3. QED
    BY <1>1, <2>1, <2>2 DEF IInv, ResultsInv, Returned
<1>2. IInv => NormalExitJoinsBody
  BY <1>1 DEF NormalExitJoinsBody
<1>3. QED
  BY <1>2, InductiveInvariant, PTL

\* Once an exception has left the scope no task of the group begins, not even
\* one that a task of the group spawns afterwards.
THEOREM NoLateStartCorrect ==
  ASSUME GroupParameters
  PROVE  Spec => NoLateStart
<1> DEFINE A == scope = "threw" /\ named =>
                  \A t \in Tasks : state'[t] = "running" => state[t] = "running"
<1>1. ASSUME IInv, [Next]_vars PROVE A
  <2> SUFFICES ASSUME scope = "threw", named, NEW t \in Tasks, state'[t] = "running"
               PROVE  state[t] = "running"
    OBVIOUS
  <2>1. cancelled
    BY <1>1 DEF IInv, CancelledInv
  <2>2. QED
    BY <1>1, <2>1 DEF IInv, TypeOK, Next, vars, NewTask, SpawnSubmit, SpawnList, TaskBegin, TaskEnd, Finish,
         Cancel, Rebind, ScopeStep, BodyThrow, BodyEnd, JoinResult, JoinDone, JoinThrow
<1>2. IInv /\ [Next]_vars => [A]_vars
  BY <1>1
<1> HIDE DEF A
<1>3. Spec => [][A]_vars
  BY <1>2, InductiveInvariant, PTL DEF Spec
<1>4. QED
  BY <1>3 DEF A, NoLateStart

=============================================================================
