-------------------------- MODULE SchedulerProofs --------------------------
(***************************************************************************)
(* Safety of Scheduler, for every number of workers and every program: a   *)
(* task is in one place and begun once, pending_ agrees with the queues,   *)
(* and two workers or more do not all sleep on a queued task.              *)
(***************************************************************************)
EXTENDS Scheduler, SequenceTheorems, FiniteSetTheorems, TLAPS

\* The labels of a task that is in no call stack.
Outside == {"unborn", "queued", "over"}
Begun == TaskPC \ Outside

\* What the operation at ip is while a task is in the middle of it: a spawned
\* task is unborn until it is pushed.
OpInv ==
    \A k \in Programs :
        /\ tpc[k] = "push" =>
              ip[k] <= Len(Script[k]) /\ Op(k).op = "spawn" /\ tpc[Target(k)] = "unborn"
        /\ tpc[k] \in {"await", "assistHint", "assistAny", "blocked"} =>
              ip[k] <= Len(Script[k]) /\ Op(k).op = "await"

\* The main program is never queued and never begun as a task.
MainInv == tpc[Main] \notin {"unborn", "queued", "popped", "tally"}

\* The queues hold the queued tasks, each once.
QueueInv ==
    /\ \A w \in Workers : \A i \in 1..Len(deque[w]) : tpc[deque[w][i]] = "queued"
    /\ \A w, v \in Workers : \A i \in 1..Len(deque[w]), j \in 1..Len(deque[v]) :
          deque[w][i] = deque[v][j] => w = v /\ i = j
    /\ \A k \in Tasks : tpc[k] = "queued" =>
          \E w \in Workers : \E i \in 1..Len(deque[w]) : deque[w][i] = k

\* The call stacks hold the tasks that have begun, each once.
StackInv ==
    /\ \A t \in Threads : \A i \in 1..Len(stack[t]) :
          stack[t][i] \in Tasks => tpc[stack[t][i]] \in Begun
    /\ \A t, u \in Threads : \A i \in 1..Len(stack[t]), j \in 1..Len(stack[u]) :
          stack[t][i] = stack[u][j] => t = u /\ i = j
    /\ \A k \in Tasks : tpc[k] \in Begun =>
          \E t \in Threads : \E i \in 1..Len(stack[t]) : stack[t][i] = k

RunsInv == \A k \in Tasks : runs[k] = IF tpc[k] \in {"unborn", "queued"} THEN 0 ELSE 1

PlaceInv == OpInv /\ MainInv /\ QueueInv /\ StackInv /\ RunsInv

\* The tasks that pending_ counts and run_item has not taken off it, and those
\* it does not count yet.
Popped == {k \in Tasks : tpc[k] = "popped"}
Queued == {k \in Tasks : tpc[k] = "queued"}
Uncounted == {k \in Programs : tpc[k] = "count"}

\* pending_ off by the threads that are between a queue and the counter.
PendingInv ==
    pending = Cardinality(Queued) + Cardinality(Popped) - Cardinality(Uncounted)

\* cv_mutex_ is held from the predicate to the wait.
OneBlocking ==
    \A v, w \in Workers : wpc[v] = "blocking" /\ wpc[w] = "blocking" => v = w

\* A queued task that nobody is about to announce has a worker that will look
\* at pending_ before it sleeps.
AwakeInv ==
    /\ NumWorkers > 1
    /\ \E k \in Tasks : tpc[k] = "queued"
    /\ \A k \in Programs : tpc[k] \notin {"count", "notify", "wakeAll"}
    => \E w \in Workers : wpc[w] \notin {"sleep", "blocking"}

IInv == PoolTypeOK /\ PlaceInv /\ PendingInv /\ OneBlocking /\ AwakeInv
-----------------------------------------------------------------------------
(* Lemmas about the operators *)

\* The operation a task is at; a spawn and an await name one task.
LEMMA OpFacts ==
  ASSUME PoolTypeOK, NEW k \in Programs, ip[k] <= Len(Script[k])
  PROVE  /\ Script[k] \in Seq(Ops) /\ ip[k] \in 1..Len(Script[k])
         /\ Op(k) \in Ops
         /\ Op(k).op = "spawn" => Target(k) \in Tasks /\ Op(k) = Spawn(Target(k))
         /\ Op(k).op = "await" => Target(k) \in Tasks /\ Op(k) = Await(Target(k))
<1>1. Script[k] \in Seq(Ops)
  BY SchedulerAssumption DEF PoolTypeOK, Script, Programs
<1>2. ip[k] \in 1..Len(Script[k])
  BY <1>1, LenProperties DEF PoolTypeOK
<1>3. Op(k) \in Ops
  BY <1>1, <1>2, ElementOfSeq DEF Op
<1>4. ASSUME Op(k).op = "spawn" PROVE Target(k) \in Tasks /\ Op(k) = Spawn(Target(k))
  <2>1. PICK c \in Tasks : Op(k) = Spawn(c)
    BY <1>3, <1>4 DEF Ops, Await, WaitBatch, Exit, Spawn
  <2>2. Target(k) = c
    BY <2>1 DEF Target, Spawn
  <2>3. QED
    BY <2>1, <2>2
<1>5. ASSUME Op(k).op = "await" PROVE Target(k) \in Tasks /\ Op(k) = Await(Target(k))
  <2>1. PICK c \in Tasks : Op(k) = Await(c)
    BY <1>3, <1>5 DEF Ops, Await, WaitBatch, Exit, Spawn
  <2>2. Target(k) = c
    BY <2>1 DEF Target, Await
  <2>3. QED
    BY <2>1, <2>2
<1>6. QED
  BY <1>1, <1>2, <1>3, <1>4, <1>5

\* What is left of a sequence without its last element.
LEMMA FrontFacts ==
  ASSUME NEW S, NEW s \in Seq(S), s # <<>>
  PROVE  /\ Front(s) \in Seq(S)
         /\ Len(Front(s)) = Len(s) - 1
         /\ \A i \in 1..(Len(s) - 1) : Front(s)[i] = s[i]
         /\ Len(s) \in Nat \ {0}
         /\ s[Len(s)] \in S
<1>1. Len(s) \in Nat \ {0} /\ \A i \in 1..Len(s) : s[i] \in S
  BY EmptySeq, LenProperties, ElementOfSeq
<1>2. \A i \in 1..(Len(s) - 1) : s[i] \in S
  BY <1>1
<1> DEFINE n == Len(s) - 1
<1>3. n \in Nat /\ \A i \in 1..n : s[i] \in S
  BY <1>1, <1>2
<1> HIDE DEF n
<1>4. /\ SubSeq(s, 1, n) \in Seq(S)
      /\ Len(SubSeq(s, 1, n)) = IF 1 <= n THEN n - 1 + 1 ELSE 0
      /\ \A i \in 1..(n - 1 + 1) : SubSeq(s, 1, n)[i] = s[1 + i - 1]
  BY <1>3, SubSeqProperties
<1>5. Front(s) = SubSeq(s, 1, n)
  BY DEF Front, n
<1>6. /\ SubSeq(s, 1, n) \in Seq(S)
      /\ Len(SubSeq(s, 1, n)) = n
      /\ \A i \in 1..n : SubSeq(s, 1, n)[i] = s[i]
  BY <1>3, <1>4
<1>7. QED
  BY <1>1, <1>5, <1>6 DEF n

\* The thread that runs a task has it on its call stack.
LEMMA RunningFacts ==
  ASSUME PoolTypeOK, NEW t \in Threads, NEW k \in Programs, Running(t, k)
  PROVE  /\ stack[t] \in Seq(Programs)
         /\ Len(stack[t]) \in Nat \ {0}
         /\ stack[t][Len(stack[t])] = k
BY EmptySeq DEF PoolTypeOK, Running, Top

\* There is a worker at least.
LEMMA WorkersFinite == PoolTypeOK => NumWorkers \in Nat \ {0}
BY SchedulerAssumption DEF PoolTypeOK, NumWorkers

\* A remainder is smaller than what it is taken of.
LEMMA Remainder ==
  ASSUME NEW a \in Nat, NEW n \in Nat \ {0}
  PROVE  a % n \in 0..(n - 1)
OBVIOUS

-----------------------------------------------------------------------------
(* Type correctness *)

TypeInv == PoolTypeOK /\ OpInv

\* Thread t begins task c, on top of task k that assists.
Assisted(t, k, c) ==
    /\ stack' = [stack EXCEPT ![t] = Append(@, c)]
    /\ tpc' = [tpc EXCEPT ![k] = "await", ![c] = "popped"]
    /\ runs' = [runs EXCEPT ![c] = @ + 1]

\* A task begins on top of what the thread runs.
LEMMA PushTyped ==
  ASSUME PoolTypeOK, NEW t \in Threads, NEW c \in Tasks,
         stack' = [stack EXCEPT ![t] = Append(@, c)],
         runs' = [runs EXCEPT ![c] = @ + 1]
  PROVE  stack' \in [Threads -> Seq(Programs)] /\ runs' \in [Tasks -> Nat]
<1>1. stack[t] \in Seq(Programs) /\ c \in Programs
  BY DEF PoolTypeOK, Programs
<1>2. Append(stack[t], c) \in Seq(Programs)
  BY <1>1, AppendProperties
<1>3. QED
  BY <1>2 DEF PoolTypeOK

\* A worker begins a task.
LEMMA BeginTyped ==
  ASSUME PoolTypeOK, NEW t \in Threads, NEW c \in Tasks, Begin(t, c)
  PROVE  /\ stack' \in [Threads -> Seq(Programs)] /\ runs' \in [Tasks -> Nat]
         /\ tpc' \in [Programs -> TaskPC]
BY PushTyped DEF PoolTypeOK, Begin, TaskPC

\* A thread that assists begins a task above the one that awaits.
LEMMA AssistedTyped ==
  ASSUME PoolTypeOK, NEW t \in Threads, NEW k, NEW c \in Tasks, Assisted(t, k, c)
  PROVE  /\ stack' \in [Threads -> Seq(Programs)] /\ runs' \in [Tasks -> Nat]
         /\ tpc' \in [Programs -> TaskPC]
BY PushTyped DEF PoolTypeOK, Assisted, TaskPC

\* The first state has the types, and what strengthens them.
LEMMA TypeInit == PoolInit => TypeInv
<1> SUFFICES ASSUME PoolInit PROVE TypeInv
  OBVIOUS
<1> USE DEF PoolInit
<1>1. NumWorkers \in Nat \ {0} /\ 0 \in Workers
  BY SchedulerAssumption DEF NumWorkers, Workers
<1>2. \A k \in Programs : tpc[k] \in {"step", "unborn"} /\ tpc[k] \in TaskPC
  BY DEF TaskPC
<1>3. stack \in [Threads -> Seq(Programs)]
  <2>1. <<>> \in Seq(Programs) /\ <<Main>> \in Seq(Programs)
    BY DEF Programs
  <2>2. QED
    BY <2>1
<1>4. /\ deque \in [Workers -> Seq(Tasks)]
      /\ holder \in [Workers -> Tasks \cup {NoTask}]
      /\ rrIndex \in Workers /\ hint \in [Tasks -> Workers]
  BY <1>1
<1>5. /\ wpc \in [Workers -> WorkerPC] /\ offset \in [Workers -> 1..NumWorkers]
      /\ tpc \in [Programs -> TaskPC]
      /\ ip \in [Programs -> Nat \ {0}] /\ scan \in [Programs -> 0..NumWorkers]
      /\ runs \in [Tasks -> Nat]
  BY <1>1, <1>2 DEF WorkerPC
<1>6. OpInv
  BY <1>2 DEF OpInv
<1>7. setup \in Setups /\ pending = 0 /\ spawned = 0 /\ executed = 0 /\ done = FALSE
  OBVIOUS
<1> HIDE DEF PoolInit
<1>8. pending \in Int /\ spawned \in Nat /\ executed \in Nat
  BY <1>7
<1>9. done \in BOOLEAN
  BY <1>7
<1>10. QED
  BY <1>3, <1>4, <1>5, <1>6, <1>7, <1>8, <1>9 DEF TypeInv, PoolTypeOK

\* The queue that steal_remote tries next.
LEMMA VictimIsWorker ==
  ASSUME PoolTypeOK, NEW w \in Workers
  PROVE  (w + offset[w]) % NumWorkers \in Workers
<1>1. NumWorkers \in Nat \ {0} /\ offset[w] \in 1..NumWorkers /\ w \in 0..(NumWorkers - 1)
  <2>1. offset[w] \in 1..NumWorkers
    BY DEF PoolTypeOK
  <2>2. QED
    BY <2>1, WorkersFinite DEF Workers
<1>2. w + offset[w] \in Nat
  BY <1>1
<1>3. QED
  BY <1>1, <1>2, Remainder DEF Workers

\* Every step keeps the types.
LEMMA TypeStep == TypeInv /\ [PoolNext]_poolVars => PoolTypeOK'
<1> SUFFICES ASSUME TypeInv, [PoolNext]_poolVars PROVE PoolTypeOK'
  OBVIOUS
<1>1. CASE UNCHANGED poolVars
  BY <1>1 DEF TypeInv, PoolTypeOK, poolVars, threadVars, Workers, Threads, NumWorkers
<1>2. CASE PoolNext
  <2>1. /\ setup' = setup /\ Workers' = Workers /\ Threads' = Threads
        /\ NumWorkers' = NumWorkers /\ NumWorkers \in Nat \ {0} /\ PoolTypeOK
    BY <1>2, WorkersFinite DEF PoolNext, Workers, Threads, NumWorkers, TypeInv
  <2> DEFINE Typed ==
          /\ deque' \in [Workers -> Seq(Tasks)]
          /\ holder' \in [Workers -> Tasks \cup {NoTask}]
          /\ rrIndex' \in Workers
          /\ pending' \in Int
          /\ spawned' \in Nat /\ executed' \in Nat
          /\ done' \in BOOLEAN
          /\ wpc' \in [Workers -> WorkerPC]
          /\ offset' \in [Workers -> 1..NumWorkers]
          /\ stack' \in [Threads -> Seq(Programs)]
          /\ tpc' \in [Programs -> TaskPC]
          /\ ip' \in [Programs -> Nat \ {0}]
          /\ hint' \in [Tasks -> Workers]
          /\ scan' \in [Programs -> 0..NumWorkers]
          /\ runs' \in [Tasks -> Nat]
  <2>2. SUFFICES Typed
    BY <2>1 DEF PoolTypeOK
  <2> USE DEF PoolTypeOK, queueVars, counters, workerVars, taskVars, Step, NextOp, Begin
  <2>3. ASSUME NEW w \in Workers, WorkerCheck(w) PROVE Typed
    BY <2>1, <2>3 DEF WorkerCheck, WorkerPC
  <2>4. ASSUME NEW w \in Workers, PopLocal(w) PROVE Typed
    <3>1. CASE deque[w] = <<>>
      <4>1. /\ wpc' = [wpc EXCEPT ![w] = "steal"] /\ offset' = [offset EXCEPT ![w] = 1]
            /\ UNCHANGED <<queueVars, rrIndex, counters, done, taskVars>>
        BY <2>4, <3>1 DEF PopLocal
      <4>2. QED
        BY <2>1, <4>1 DEF WorkerPC
    <3>2. CASE deque[w] # <<>>
      <4> DEFINE c == deque[w][Len(deque[w])]
                 q == Front(deque[w])
      <4>1. q \in Seq(Tasks) /\ c \in Tasks
        BY <2>1, <3>2, FrontFacts
      <4>2. /\ Begin(w, c) /\ deque' = [deque EXCEPT ![w] = q]
            /\ wpc' = [wpc EXCEPT ![w] = "run"]
            /\ UNCHANGED <<holder, rrIndex, counters, done, offset, ip, hint, scan>>
        BY <2>4, <3>2 DEF PopLocal
      <4> HIDE DEF c, q
      <4>3. QED
        BY <2>1, <4>1, <4>2, BeginTyped DEF WorkerPC, Threads
    <3>3. QED
      BY <3>1, <3>2
  <2>5. ASSUME NEW w \in Workers, StealRemote(w) PROVE Typed
    <3> DEFINE v == (w + offset[w]) % NumWorkers
    <3>1. CASE offset[w] = NumWorkers
      BY <2>1, <2>5, <3>1 DEF StealRemote, WorkerPC
    <3>2. CASE offset[w] # NumWorkers /\ deque[v] = <<>>
      <4>1. /\ offset' = [offset EXCEPT ![w] = @ + 1]
            /\ UNCHANGED <<queueVars, rrIndex, counters, done, wpc, taskVars>>
        BY <2>5, <3>2 DEF StealRemote
      <4>2. offset[w] + 1 \in 1..NumWorkers
        <5>1. offset[w] \in 1..NumWorkers /\ offset[w] # NumWorkers
          BY <2>1, <3>2
        <5>2. QED
          BY <2>1, <5>1
      <4>3. QED
        BY <2>1, <4>1, <4>2
    <3>3. CASE offset[w] # NumWorkers /\ deque[v] # <<>>
      <4>1. v \in Workers
        BY <2>1, VictimIsWorker
      <4> DEFINE c == Head(deque[v])
                 q == Tail(deque[v])
      <4>2. c \in Tasks /\ q \in Seq(Tasks)
        BY <2>1, <3>3, <4>1, HeadTailProperties
      <4>3. /\ Begin(w, c) /\ deque' = [deque EXCEPT ![v] = q]
            /\ wpc' = [wpc EXCEPT ![w] = "run"]
            /\ UNCHANGED <<holder, rrIndex, counters, done, offset, ip, hint, scan>>
        BY <2>5, <3>3 DEF StealRemote
      <4> HIDE DEF c, q, v
      <4>4. QED
        BY <2>1, <4>1, <4>2, <4>3, BeginTyped DEF WorkerPC, Threads
    <3>4. QED
      BY <3>1, <3>2, <3>3
  <2>6. ASSUME NEW w \in Workers, Predicate(w) PROVE Typed
    BY <2>1, <2>6 DEF Predicate, WorkerPC
  <2>7. ASSUME NEW w \in Workers, Block(w) PROVE Typed
    BY <2>1, <2>7 DEF Block, WorkerPC
  <2>8. ASSUME NEW w \in Workers, SpuriousWakeup(w) PROVE Typed
    BY <2>1, <2>8 DEF SpuriousWakeup, WorkerPC
  <2>9. ASSUME NEW t \in Threads, NEW k \in Programs, TaskStep(t, k) PROVE Typed
    <3>1. CASE RunStart(t, k)
      BY <2>1, <3>1 DEF RunStart, TaskPC
    <3>2. CASE RunFinish(t, k)
      BY <2>1, <3>2 DEF RunFinish, TaskPC
    <3>3. CASE RunTally(t, k)
      <4>1. Front(stack[t]) \in Seq(Programs)
        BY <2>1, <3>3, RunningFacts, FrontFacts DEF RunTally, Running
      <4>2. /\ executed' = executed + 1
            /\ stack' = [stack EXCEPT ![t] = Front(@)]
            /\ tpc' = [tpc EXCEPT ![k] = "over"]
            /\ holder' = [w \in Workers |-> IF holder[w] = k THEN NoTask ELSE holder[w]]
            /\ wpc' = wpc \/ wpc' = [wpc EXCEPT ![t] = "check"]
            /\ UNCHANGED <<deque, rrIndex, pending, spawned, done, offset, ip, hint, scan, runs>>
        BY <3>3 DEF RunTally
      <4>3. holder' \in [Workers -> Tasks \cup {NoTask}] /\ wpc' \in [Workers -> WorkerPC]
        BY <2>1, <4>2 DEF WorkerPC
      <4>4. QED
        BY <2>1, <4>1, <4>2, <4>3 DEF TaskPC
    <3>4. CASE SpawnPick(t, k)
      <4>1. rrIndex' \in Workers
        <5>1. rrIndex + 1 \in Nat
          BY <2>1 DEF Workers
        <5>2. QED
          BY <2>1, <3>4, <5>1, Remainder DEF SpawnPick, NextIndex, Workers
      <4>2. QED
        BY <2>1, <3>4, <4>1 DEF SpawnPick, TaskPC
    <3>5. CASE SpawnPush(t, k)
      <4>1. Target(k) \in Tasks
        BY <2>1, <3>5, OpFacts DEF SpawnPush, TypeInv, OpInv
      <4>2. hint[Target(k)] \in Workers
        BY <2>1, <4>1
      <4>3. deque' \in [Workers -> Seq(Tasks)]
        BY <2>1, <3>5, <4>1, <4>2, AppendProperties DEF SpawnPush
      <4>4. tpc' \in [Programs -> TaskPC]
        BY <2>1, <3>5 DEF SpawnPush, TaskPC
      <4>5. QED
        BY <2>1, <3>5, <4>3, <4>4 DEF SpawnPush
    <3>6. CASE SpawnCount(t, k)
      BY <2>1, <3>6 DEF SpawnCount, TaskPC
    <3>7. CASE SpawnNotify(t, k)
      <4>1. wpc' \in [Workers -> WorkerPC]
        <5>1. wpc' = wpc \/ \E w \in Workers : wpc' = [wpc EXCEPT ![w] = "predicate"]
          BY <3>7 DEF SpawnNotify, WakeOne
        <5>2. QED
          BY <2>1, <5>1 DEF WorkerPC
      <4>2. /\ ip' = [ip EXCEPT ![k] = @ + 1] /\ tpc' = [tpc EXCEPT ![k] = "step"]
            /\ UNCHANGED <<queueVars, rrIndex, counters, done, offset, stack, hint, scan, runs>>
        BY <3>7 DEF SpawnNotify
      <4>3. ip' \in [Programs -> Nat \ {0}] /\ tpc' \in [Programs -> TaskPC]
        BY <2>1, <4>2 DEF TaskPC
      <4>4. QED
        BY <2>1, <4>1, <4>2, <4>3
    <3>8. CASE AwaitPoll(t, k)
      <4>1. /\ \/ NextOp(k)
               \/ tpc' = [tpc EXCEPT ![k] = "assistHint"] /\ UNCHANGED ip
            /\ UNCHANGED <<queueVars, rrIndex, counters, done, workerVars, stack, hint, scan, runs>>
        BY <3>8 DEF AwaitPoll, Unready
      <4>2. ip' \in [Programs -> Nat \ {0}]
        <5>1. ip' = ip \/ ip' = [ip EXCEPT ![k] = @ + 1]
          BY <4>1
        <5>2. CASE ip' = [ip EXCEPT ![k] = @ + 1]
          BY <2>1, <5>2
        <5>3. QED
          BY <2>1, <5>1, <5>2
      <4>3. tpc' \in [Programs -> TaskPC]
        BY <2>1, <4>1 DEF TaskPC
      <4>4. QED
        BY <2>1, <4>1, <4>2, <4>3
    <3>9. CASE AssistHint(t, k)
      <4> DEFINE w == hint[Target(k)]
      <4>1. Target(k) \in Tasks /\ w \in Workers
        BY <2>1, <3>9, OpFacts DEF AssistHint, TypeInv, OpInv
      <4>2. CASE deque[w] = <<>>
        <5>1. /\ tpc' = [tpc EXCEPT ![k] = "assistAny"] /\ scan' = [scan EXCEPT ![k] = 0]
              /\ UNCHANGED <<queueVars, rrIndex, counters, done, workerVars, stack, ip, hint, runs>>
          BY <3>9, <4>2 DEF AssistHint
        <5>2. QED
          BY <2>1, <5>1 DEF TaskPC
      <4>3. CASE deque[w] # <<>>
        <5> DEFINE c == deque[w][Len(deque[w])]
                   q == Front(deque[w])
        <5>1. q \in Seq(Tasks) /\ c \in Tasks
          BY <2>1, <4>1, <4>3, FrontFacts
        <5>2. /\ deque' = [deque EXCEPT ![w] = q]
              /\ Assisted(t, k, c)
              /\ UNCHANGED <<holder, rrIndex, counters, done, workerVars, ip, hint, scan>>
          BY <3>9, <4>3 DEF AssistHint, Assisted
        <5> HIDE DEF c, q, w
        <5>3. QED
          BY <2>1, <4>1, <5>1, <5>2, AssistedTyped
      <4>4. QED
        BY <4>2, <4>3
    <3>10. CASE AssistAny(t, k)
      <4> DEFINE w == scan[k]
      <4>1. CASE scan[k] = NumWorkers
        BY <2>1, <3>10, <4>1 DEF AssistAny, TaskPC
      <4>2. CASE scan[k] # NumWorkers /\ deque[w] = <<>>
        <5>1. /\ scan' = [scan EXCEPT ![k] = @ + 1]
              /\ UNCHANGED <<queueVars, rrIndex, counters, done, workerVars, stack, tpc, ip, hint, runs>>
          BY <3>10, <4>2 DEF AssistAny
        <5>2. scan[k] \in 0..NumWorkers
          BY <2>1
        <5>3. QED
          BY <2>1, <4>2, <5>1, <5>2
      <4>3. CASE scan[k] # NumWorkers /\ deque[w] # <<>>
        <5>1. w \in Workers
          BY <2>1, <4>3 DEF Workers
        <5> DEFINE c == deque[w][Len(deque[w])]
                   q == Front(deque[w])
        <5>2. q \in Seq(Tasks) /\ c \in Tasks
          BY <2>1, <4>3, <5>1, FrontFacts
        <5>3. /\ deque' = [deque EXCEPT ![w] = q] /\ holder' = [holder EXCEPT ![w] = c]
              /\ Assisted(t, k, c)
              /\ UNCHANGED <<rrIndex, counters, done, workerVars, ip, hint, scan>>
          BY <3>10, <4>3 DEF AssistAny, Assisted
        <5> HIDE DEF c, q, w
        <5>4. QED
          BY <2>1, <5>1, <5>2, <5>3, AssistedTyped
      <4>4. QED
        BY <4>1, <4>2, <4>3
    <3>11. CASE AwaitBlocked(t, k)
      BY <2>1, <3>11 DEF AwaitBlocked, TaskPC
    <3>12. CASE BatchWait(t, k)
      BY <2>1, <3>12 DEF BatchWait, TaskPC
    <3>13. QED
      BY <2>9, <3>1, <3>2, <3>3, <3>4, <3>5, <3>6, <3>7, <3>8, <3>9, <3>10, <3>11,
         <3>12 DEF TaskStep
  <2>10. CASE ShutdownStep(Main)
    <3>1. CASE Shutdown(Main)
      BY <2>1, <3>1 DEF Shutdown, TaskPC
    <3>2. CASE ShutdownNotify(Main)
      BY <2>1, <3>2 DEF ShutdownNotify, WakeAll, TaskPC, WorkerPC
    <3>3. CASE ShutdownJoin(Main)
      BY <2>1, <3>3 DEF ShutdownJoin, TaskPC
    <3>4. QED
      BY <2>10, <3>1, <3>2, <3>3 DEF ShutdownStep
  <2>11. QED
    BY <1>2, <2>3, <2>4, <2>5, <2>6, <2>7, <2>8, <2>9, <2>10 DEF PoolNext, WorkerStep
<1>3. QED
  BY <1>1, <1>2

-----------------------------------------------------------------------------
(* Where the tasks are *)

\* Task c is taken from the queue of worker v, from one end or the other.
Takes(v, c) ==
    /\ deque[v] # <<>>
    /\ \/ c = deque[v][Len(deque[v])] /\ deque' = [deque EXCEPT ![v] = Front(@)]
       \/ c = Head(deque[v]) /\ deque' = [deque EXCEPT ![v] = Tail(@)]

\* The elements that stay move by d.
LEMMA TakesFacts ==
  ASSUME PoolTypeOK, NEW v \in Workers, NEW c, Takes(v, c)
  PROVE  /\ c \in Tasks
         /\ Len(deque[v]) \in Nat \ {0}
         /\ \A w \in Workers \ {v} : deque'[w] = deque[w]
         /\ Len(deque'[v]) = Len(deque[v]) - 1
         /\ \E d \in {0, 1} :
               /\ \A i \in 1..(Len(deque[v]) - 1) : deque'[v][i] = deque[v][i + d]
               /\ c = deque[v][IF d = 0 THEN Len(deque[v]) ELSE 1]
<1>1. deque[v] \in Seq(Tasks) /\ deque[v] # <<>> /\ v \in DOMAIN deque
  BY DEF PoolTypeOK, Takes
<1>2. Len(deque[v]) \in Nat \ {0} /\ Head(deque[v]) = deque[v][1]
  BY <1>1, EmptySeq
<1>3. \A w \in Workers \ {v} : deque'[w] = deque[w]
  BY DEF PoolTypeOK, Takes
<1>4. CASE c = deque[v][Len(deque[v])] /\ deque' = [deque EXCEPT ![v] = Front(@)]
  <2>1. deque'[v] = Front(deque[v])
    BY <1>1, <1>4
  <2>2. /\ c \in Tasks /\ Len(deque'[v]) = Len(deque[v]) - 1
        /\ \A i \in 1..(Len(deque[v]) - 1) : deque'[v][i] = deque[v][i]
    BY <1>1, <1>4, <2>1, FrontFacts
  <2>3. \A i \in 1..(Len(deque[v]) - 1) : deque'[v][i] = deque[v][i + 0]
    BY <2>2
  <2>4. QED
    BY <1>2, <1>3, <1>4, <2>2, <2>3
<1>5. CASE c = Head(deque[v]) /\ deque' = [deque EXCEPT ![v] = Tail(@)]
  <2>1. deque'[v] = Tail(deque[v])
    BY <1>1, <1>5
  <2>2. /\ c \in Tasks /\ Len(deque'[v]) = Len(deque[v]) - 1
        /\ \A i \in 1..(Len(deque[v]) - 1) : deque'[v][i] = deque[v][i + 1]
    BY <1>1, <1>5, <2>1, HeadTailProperties
  <2>3. QED
    BY <1>2, <1>3, <1>5, <2>2
<1>6. QED
  BY <1>4, <1>5 DEF Takes

\* A task leaves the queue it was in, and is in no other.
LEMMA TakeKeepsQueues ==
  ASSUME PoolTypeOK, QueueInv, NEW v \in Workers, NEW c, Takes(v, c), Workers' = Workers,
         tpc'[c] # "queued",
         \A j \in Tasks \ {c} : tpc'[j] = "queued" <=> tpc[j] = "queued"
  PROVE  QueueInv'
<1>1. PICK d \in {0, 1} :
        /\ \A i \in 1..(Len(deque[v]) - 1) : deque'[v][i] = deque[v][i + d]
        /\ c = deque[v][IF d = 0 THEN Len(deque[v]) ELSE 1]
  BY TakesFacts
<1> DEFINE n == Len(deque[v])
           r == IF d = 0 THEN n ELSE 1
           Old(w, i) == IF w = v THEN i + d ELSE i
<1>2. /\ c \in Tasks /\ n \in Nat \ {0} /\ Len(deque'[v]) = n - 1 /\ r \in 1..n
      /\ \A w \in Workers \ {v} : deque'[w] = deque[w]
  BY TakesFacts
<1>3. \A w \in Workers : Len(deque[w]) \in Nat /\ \A i \in 1..Len(deque[w]) : deque[w][i] \in Tasks
  BY LenProperties, ElementOfSeq DEF PoolTypeOK
<1>4. ASSUME NEW w \in Workers, NEW i \in 1..Len(deque'[w])
      PROVE  /\ Old(w, i) \in 1..Len(deque[w])
             /\ deque'[w][i] = deque[w][Old(w, i)]
             /\ w = v => Old(w, i) # r
             /\ deque'[w][i] \in Tasks \ {c}
  <2>1. CASE w = v
    <3>1. i \in 1..(n - 1)
      BY <1>2, <2>1
    <3>2. i + d \in 1..n /\ i + d # r /\ deque'[v][i] = deque[v][i + d]
      BY <1>1, <1>2, <3>1
    <3>3. deque[v][i + d] # c
      BY <1>1, <1>2, <3>2 DEF QueueInv
    <3>4. QED
      BY <1>3, <2>1, <3>2, <3>3
  <2>2. CASE w # v
    <3>1. deque'[w] = deque[w] /\ i \in 1..Len(deque[w])
      BY <1>2, <2>2
    <3>2. deque[w][i] # c
      BY <1>1, <1>2, <2>2, <3>1 DEF QueueInv
    <3>3. QED
      BY <1>3, <2>2, <3>1, <3>2
  <2>3. QED
    BY <2>1, <2>2
<1>5. ASSUME NEW w \in Workers, NEW i \in 1..Len(deque'[w])
      PROVE  tpc'[deque'[w][i]] = "queued"
  <2> HIDE DEF Old
  <2>1. tpc[deque[w][Old(w, i)]] = "queued"
    BY <1>4 DEF QueueInv
  <2>2. QED
    BY <1>4, <2>1
<1>6. ASSUME NEW w \in Workers, NEW u \in Workers,
             NEW i \in 1..Len(deque'[w]), NEW j \in 1..Len(deque'[u]),
             deque'[w][i] = deque'[u][j]
      PROVE  w = u /\ i = j
  <2> HIDE DEF Old
  <2>0. /\ Old(w, i) \in 1..Len(deque[w]) /\ Old(u, j) \in 1..Len(deque[u])
        /\ deque[w][Old(w, i)] = deque[u][Old(u, j)]
    BY <1>4, <1>6
  <2>1. w = u /\ Old(w, i) = Old(u, j)
    BY <2>0 DEF QueueInv
  <2> USE DEF Old
  <2>2. Len(deque'[w]) \in Nat
    BY <1>2, <1>3
  <2>3. QED
    BY <2>1, <2>2
<1>7. ASSUME NEW k \in Tasks, tpc'[k] = "queued"
      PROVE  \E w \in Workers : \E i \in 1..Len(deque'[w]) : deque'[w][i] = k
  <2>1. k # c /\ tpc[k] = "queued"
    BY <1>2, <1>7
  <2>2. PICK w \in Workers : \E i \in 1..Len(deque[w]) : deque[w][i] = k
    BY <2>1 DEF QueueInv
  <2>3. PICK i \in 1..Len(deque[w]) : deque[w][i] = k
    BY <2>2
  <2>4. CASE w = v
    <3>1. i # r /\ i \in 1..n
      BY <1>1, <2>1, <2>3, <2>4
    <3>2. i - d \in 1..(n - 1)
      BY <1>2, <3>1
    <3>3. deque'[v][i - d] = deque[v][i]
      BY <1>1, <1>2, <3>1, <3>2
    <3>4. QED
      BY <1>2, <2>3, <2>4, <3>2, <3>3
  <2>5. CASE w # v
    BY <1>2, <2>3, <2>5
  <2>6. QED
    BY <2>4, <2>5
<1>8. QED
  BY <1>5, <1>6, <1>7 DEF QueueInv

\* Task c goes on top of the call stack of thread t.
LEMMA BeginKeepsStacks ==
  ASSUME PoolTypeOK, StackInv, NEW t \in Threads, NEW c \in Tasks, Threads' = Threads,
         stack' = [stack EXCEPT ![t] = Append(@, c)],
         tpc[c] \notin Begun, tpc'[c] \in Begun,
         \A j \in Tasks \ {c} : tpc'[j] \in Begun <=> tpc[j] \in Begun
  PROVE  StackInv'
<1> DEFINE n == Len(stack[t])
<1>1. \A u \in Threads : /\ Len(stack[u]) \in Nat
                         /\ \A i \in 1..Len(stack[u]) : stack[u][i] \in Programs
  BY LenProperties, ElementOfSeq DEF PoolTypeOK
<1>2. stack[t] \in Seq(Programs) /\ c \in Programs /\ stack'[t] = Append(stack[t], c)
  BY DEF PoolTypeOK, Programs
<1>3. /\ Len(stack'[t]) = n + 1 /\ stack'[t][n + 1] = c
      /\ \A i \in 1..n : stack'[t][i] = stack[t][i]
      /\ \A u \in Threads \ {t} : stack'[u] = stack[u]
  BY <1>2, AppendProperties DEF PoolTypeOK
<1>4. \A u \in Threads : \A i \in 1..Len(stack[u]) : stack[u][i] # c
  BY DEF StackInv
<1>5. ASSUME NEW u \in Threads, NEW i \in 1..Len(stack'[u])
      PROVE  \/ u = t /\ i = n + 1 /\ stack'[u][i] = c
             \/ i \in 1..Len(stack[u]) /\ stack'[u][i] = stack[u][i]
  BY <1>1, <1>3
<1>6. ASSUME NEW u \in Threads, NEW i \in 1..Len(stack'[u]), stack'[u][i] \in Tasks
      PROVE  tpc'[stack'[u][i]] \in Begun
  BY <1>4, <1>5, <1>6 DEF StackInv
<1>7. ASSUME NEW u \in Threads, NEW x \in Threads,
             NEW i \in 1..Len(stack'[u]), NEW j \in 1..Len(stack'[x]),
             stack'[u][i] = stack'[x][j]
      PROVE  u = x /\ i = j
  BY <1>4, <1>5, <1>7 DEF StackInv
<1>8. ASSUME NEW k \in Tasks, tpc'[k] \in Begun
      PROVE  \E u \in Threads : \E i \in 1..Len(stack'[u]) : stack'[u][i] = k
  <2>1. CASE k = c
    BY <1>1, <1>3, <2>1
  <2>2. CASE k # c
    <3>1. PICK u \in Threads : \E i \in 1..Len(stack[u]) : stack[u][i] = k
      BY <1>8, <2>2 DEF StackInv
    <3>2. PICK i \in 1..Len(stack[u]) : stack[u][i] = k
      BY <3>1
    <3>3. i \in 1..Len(stack'[u]) /\ stack'[u][i] = k
      BY <1>1, <1>3, <3>2
    <3>4. QED
      BY <3>3
  <2>3. QED
    BY <2>1, <2>2
<1>9. QED
  BY <1>6, <1>7, <1>8 DEF StackInv

\* Steps that leave the queues alone leave their invariant alone, if no task
\* becomes or ceases to be queued; and so for the stacks.
LEMMA KeepsQueues ==
  ASSUME QueueInv, deque' = deque, Workers' = Workers,
         \A j \in Tasks : tpc'[j] = "queued" <=> tpc[j] = "queued",
         \A w \in Workers : \A i \in 1..Len(deque[w]) : deque[w][i] \in Tasks
  PROVE  QueueInv'
BY DEF QueueInv

\* A step that leaves the stacks alone, and who has begun.
LEMMA KeepsStacks ==
  ASSUME StackInv, stack' = stack, Threads' = Threads,
         \A j \in Tasks : tpc'[j] \in Begun <=> tpc[j] \in Begun
  PROVE  StackInv'
BY DEF StackInv

\* Thread t pushes a task that was in no queue on the queue of worker v.
LEMMA PushKeepsQueues ==
  ASSUME PoolTypeOK, QueueInv, NEW v \in Workers, NEW c \in Tasks, Workers' = Workers,
         deque' = [deque EXCEPT ![v] = Append(@, c)],
         tpc[c] # "queued", tpc'[c] = "queued",
         \A j \in Tasks \ {c} : tpc'[j] = "queued" <=> tpc[j] = "queued"
  PROVE  QueueInv'
<1> DEFINE n == Len(deque[v])
<1>1. \A w \in Workers : /\ Len(deque[w]) \in Nat
                         /\ \A i \in 1..Len(deque[w]) : deque[w][i] \in Tasks \ {c}
  <2>1. \A w \in Workers : /\ Len(deque[w]) \in Nat
                           /\ \A i \in 1..Len(deque[w]) : deque[w][i] \in Tasks
    BY LenProperties, ElementOfSeq DEF PoolTypeOK
  <2>2. \A w \in Workers : \A i \in 1..Len(deque[w]) : deque[w][i] # c
    BY DEF QueueInv
  <2>3. QED
    BY <2>1, <2>2
<1>2. deque[v] \in Seq(Tasks) /\ deque'[v] = Append(deque[v], c)
  BY DEF PoolTypeOK
<1>3. /\ Len(deque'[v]) = n + 1 /\ deque'[v][n + 1] = c
      /\ \A i \in 1..n : deque'[v][i] = deque[v][i]
      /\ \A w \in Workers \ {v} : deque'[w] = deque[w]
  BY <1>2, AppendProperties DEF PoolTypeOK
<1>4. ASSUME NEW w \in Workers, NEW i \in 1..Len(deque'[w])
      PROVE  \/ w = v /\ i = n + 1 /\ deque'[w][i] = c
             \/ i \in 1..Len(deque[w]) /\ deque'[w][i] = deque[w][i]
  BY <1>1, <1>3
<1>5. ASSUME NEW w \in Workers, NEW i \in 1..Len(deque'[w])
      PROVE  tpc'[deque'[w][i]] = "queued"
  BY <1>1, <1>4 DEF QueueInv
<1>6. ASSUME NEW w \in Workers, NEW u \in Workers,
             NEW i \in 1..Len(deque'[w]), NEW j \in 1..Len(deque'[u]),
             deque'[w][i] = deque'[u][j]
      PROVE  w = u /\ i = j
  BY <1>1, <1>4, <1>6 DEF QueueInv
<1>7. ASSUME NEW k \in Tasks, tpc'[k] = "queued"
      PROVE  \E w \in Workers : \E i \in 1..Len(deque'[w]) : deque'[w][i] = k
  <2>1. CASE k = c
    BY <1>1, <1>3, <2>1
  <2>2. CASE k # c
    <3>1. PICK w \in Workers : \E i \in 1..Len(deque[w]) : deque[w][i] = k
      BY <1>7, <2>2 DEF QueueInv
    <3>2. PICK i \in 1..Len(deque[w]) : deque[w][i] = k
      BY <3>1
    <3>3. i \in 1..Len(deque'[w]) /\ deque'[w][i] = k
      BY <1>1, <1>3, <3>2
    <3>4. QED
      BY <3>3
  <2>3. QED
    BY <2>1, <2>2
<1>8. QED
  BY <1>5, <1>6, <1>7 DEF QueueInv

\* Thread t returns from task k, the last of its call stack.
LEMMA ReturnKeepsStacks ==
  ASSUME PoolTypeOK, StackInv, NEW t \in Threads, NEW k \in Programs, Running(t, k),
         Threads' = Threads,
         stack' = [stack EXCEPT ![t] = Front(@)],
         k \in Tasks, tpc'[k] \notin Begun,
         \A j \in Tasks \ {k} : tpc'[j] \in Begun <=> tpc[j] \in Begun
  PROVE  StackInv'
<1> DEFINE n == Len(stack[t])
<1>1. \A u \in Threads : /\ Len(stack[u]) \in Nat
                         /\ \A i \in 1..Len(stack[u]) : stack[u][i] \in Programs
  BY LenProperties, ElementOfSeq DEF PoolTypeOK
<1>2. /\ stack[t] \in Seq(Programs) /\ stack[t] # <<>> /\ stack'[t] = Front(stack[t])
      /\ n \in Nat \ {0} /\ stack[t][n] = k
  BY RunningFacts DEF PoolTypeOK, Running
<1>3. /\ Len(stack'[t]) = n - 1 /\ \A i \in 1..(n - 1) : stack'[t][i] = stack[t][i]
      /\ \A u \in Threads \ {t} : stack'[u] = stack[u]
  BY <1>2, FrontFacts DEF PoolTypeOK
<1>4. ASSUME NEW u \in Threads, NEW i \in 1..Len(stack'[u])
      PROVE  i \in 1..Len(stack[u]) /\ stack'[u][i] = stack[u][i] /\ stack'[u][i] # k
  <2>1. i \in 1..Len(stack[u]) /\ stack'[u][i] = stack[u][i] /\ ~(u = t /\ i = n)
    BY <1>1, <1>2, <1>3
  <2>2. n \in 1..Len(stack[t])
    BY <1>2
  <2>3. stack[u][i] # stack[t][n]
    BY <2>1, <2>2 DEF StackInv
  <2>4. QED
    BY <1>2, <2>1, <2>3
<1>5. ASSUME NEW u \in Threads, NEW i \in 1..Len(stack'[u]), stack'[u][i] \in Tasks
      PROVE  tpc'[stack'[u][i]] \in Begun
  BY <1>4, <1>5 DEF StackInv
<1>6. ASSUME NEW u \in Threads, NEW x \in Threads,
             NEW i \in 1..Len(stack'[u]), NEW j \in 1..Len(stack'[x]),
             stack'[u][i] = stack'[x][j]
      PROVE  u = x /\ i = j
  BY <1>4, <1>6 DEF StackInv
<1>7. ASSUME NEW j \in Tasks, tpc'[j] \in Begun
      PROVE  \E u \in Threads : \E i \in 1..Len(stack'[u]) : stack'[u][i] = j
  <2>1. j # k /\ tpc[j] \in Begun
    BY <1>7
  <2>2. PICK u \in Threads : \E i \in 1..Len(stack[u]) : stack[u][i] = j
    BY <2>1 DEF StackInv
  <2>3. PICK i \in 1..Len(stack[u]) : stack[u][i] = j
    BY <2>2
  <2>4. i \in 1..Len(stack'[u]) /\ stack'[u][i] = j
    BY <1>1, <1>2, <1>3, <2>1, <2>3
  <2>5. QED
    BY <2>4
<1>8. QED
  BY <1>5, <1>6, <1>7 DEF StackInv

\* A task, or the main program, goes on to label l: the other steps of a call.
LEMMA StepKeepsPlaces ==
  ASSUME PoolTypeOK, PoolTypeOK', PlaceInv, UNCHANGED <<setup, deque, stack, runs>>,
         NEW k \in Programs, NEW l,
         tpc' = [tpc EXCEPT ![k] = l],
         tpc[k] \notin Outside, l \notin Outside \/ (k = Main /\ l = "over"),
         l # "popped", k = Main => l # "tally",
         \A j \in Programs \ {k} : ip'[j] = ip[j],
         l = "push" => /\ ip' = ip /\ ip[k] <= Len(Script[k])
                       /\ Op(k).op = "spawn" /\ tpc[Target(k)] = "unborn",
         l \in {"await", "assistHint", "assistAny", "blocked"} =>
            ip' = ip /\ ip[k] <= Len(Script[k]) /\ Op(k).op = "await"
  PROVE  PlaceInv'
<1>1. /\ Workers' = Workers /\ Threads' = Threads /\ Script' = Script
      /\ \A j \in Programs \ {k} : tpc'[j] = tpc[j] /\ Op(j)' = Op(j) /\ Target(j)' = Target(j)
      /\ tpc'[k] = l /\ l \in TaskPC
      /\ ip' = ip => Op(k)' = Op(k) /\ Target(k)' = Target(k)
  BY DEF Workers, Threads, NumWorkers, Script, Op, Target, PoolTypeOK
<1>2. ASSUME NEW j \in Tasks
      PROVE  /\ tpc'[j] = "queued" <=> tpc[j] = "queued"
             /\ tpc'[j] \in Begun <=> tpc[j] \in Begun
             /\ tpc'[j] \in {"unborn", "queued"} <=> tpc[j] \in {"unborn", "queued"}
  <2>1. j \in Programs /\ j # Main /\ tpc[j] \in TaskPC
    BY SchedulerAssumption DEF Programs, PoolTypeOK
  <2>2. CASE j = k
    BY <1>1, <2>1, <2>2 DEF Outside, Begun
  <2>3. CASE j # k
    <3>1. tpc'[j] = tpc[j]
      BY <1>1, <2>1, <2>3
    <3>2. QED
      BY <3>1
  <2>4. QED
    BY <2>2, <2>3
<1>3. OpInv'
  <2>1. ASSUME NEW j \in Programs, tpc'[j] = "push"
        PROVE  ip'[j] <= Len(Script[j]) /\ Op(j)'.op = "spawn" /\ tpc'[Target(j)'] = "unborn"
    <3>1. /\ ip'[j] = ip[j] /\ Op(j)' = Op(j) /\ Target(j)' = Target(j)
          /\ ip[j] <= Len(Script[j]) /\ Op(j).op = "spawn" /\ tpc[Target(j)] = "unborn"
      BY <1>1, <2>1 DEF PlaceInv, OpInv
    <3>2. Target(j) \in Programs \ {k}
      BY <3>1, OpFacts DEF Programs, Outside
    <3>3. QED
      BY <1>1, <3>1, <3>2
  <2>2. ASSUME NEW j \in Programs, tpc'[j] \in {"await", "assistHint", "assistAny", "blocked"}
        PROVE  ip'[j] <= Len(Script[j]) /\ Op(j)'.op = "await"
    BY <1>1, <2>2 DEF PlaceInv, OpInv
  <2>3. QED
    BY <1>1, <2>1, <2>2 DEF OpInv
<1>4. MainInv'
  BY <1>1 DEF PlaceInv, MainInv, Outside, Programs
<1>5. QueueInv'
  <2>1. \A w \in Workers : \A i \in 1..Len(deque[w]) : deque[w][i] \in Tasks
    BY ElementOfSeq DEF PoolTypeOK
  <2>2. \A j \in Tasks : tpc'[j] = "queued" <=> tpc[j] = "queued"
    BY <1>2
  <2>3. QueueInv /\ deque' = deque /\ Workers' = Workers
    BY <1>1 DEF PlaceInv
  <2>4. QED
    BY <2>1, <2>2, <2>3, KeepsQueues
<1>6. StackInv'
  <2>1. \A j \in Tasks : tpc'[j] \in Begun <=> tpc[j] \in Begun
    BY <1>2
  <2>2. StackInv /\ stack' = stack /\ Threads' = Threads
    BY <1>1 DEF PlaceInv
  <2>3. QED
    BY <2>1, <2>2, KeepsStacks
<1>7. RunsInv'
  <2>1. \A j \in Tasks : tpc'[j] \in {"unborn", "queued"} <=> tpc[j] \in {"unborn", "queued"}
    BY <1>2
  <2>2. RunsInv /\ runs' = runs
    BY DEF PlaceInv
  <2>3. QED
    BY <2>1, <2>2 DEF RunsInv
<1>8. QED
  BY <1>3, <1>4, <1>5, <1>6, <1>7 DEF PlaceInv

\* Thread t begins task c, taken from the queue of worker v; a task that
\* assists goes back to its await.
LEMMA TakeKeepsPlaces ==
  ASSUME PoolTypeOK, PoolTypeOK', PlaceInv, UNCHANGED <<setup, ip>>,
         NEW v \in Workers, NEW t \in Threads, NEW c, Takes(v, c),
         stack' = [stack EXCEPT ![t] = Append(@, c)],
         runs' = [runs EXCEPT ![c] = @ + 1],
         tpc'[c] = "popped",
         \A j \in Programs \ {c} : \/ tpc'[j] = tpc[j]
                                   \/ tpc[j] \in {"assistHint", "assistAny"} /\ tpc'[j] = "await"
  PROVE  PlaceInv' /\ tpc[c] = "queued"
<1>1. /\ Workers' = Workers /\ Threads' = Threads /\ Script' = Script
      /\ \A j \in Programs : Op(j)' = Op(j) /\ Target(j)' = Target(j)
  BY DEF Workers, Threads, NumWorkers, Script, Op, Target
<1>2. c \in Tasks /\ tpc[c] = "queued"
  <2>1. c \in Tasks /\ \E i \in 1..Len(deque[v]) : c = deque[v][i]
    BY TakesFacts
  <2>2. QED
    BY <2>1 DEF PlaceInv, QueueInv
<1>3. ASSUME NEW j \in Tasks \ {c}
      PROVE  /\ tpc'[j] = "queued" <=> tpc[j] = "queued"
             /\ tpc'[j] \in Begun <=> tpc[j] \in Begun
             /\ tpc'[j] \in {"unborn", "queued"} <=> tpc[j] \in {"unborn", "queued"}
  BY DEF Programs, Begun, Outside, TaskPC
<1>4. OpInv'
  <2>1. ASSUME NEW j \in Programs, tpc'[j] = "push"
        PROVE  ip[j] <= Len(Script[j]) /\ Op(j).op = "spawn" /\ tpc'[Target(j)] = "unborn"
    <3>1. ip[j] <= Len(Script[j]) /\ Op(j).op = "spawn" /\ tpc[Target(j)] = "unborn"
      BY <2>1 DEF PlaceInv, OpInv
    <3>2. Target(j) \in Programs \ {c}
      BY <1>2, <3>1, OpFacts DEF Programs
    <3>3. QED
      BY <3>1, <3>2
  <2>2. ASSUME NEW j \in Programs, tpc'[j] \in {"await", "assistHint", "assistAny", "blocked"}
        PROVE  ip[j] <= Len(Script[j]) /\ Op(j).op = "await"
    BY <2>2 DEF PlaceInv, OpInv
  <2>3. QED
    BY <1>1, <2>1, <2>2 DEF OpInv
<1>5. MainInv'
  BY <1>2, SchedulerAssumption DEF PlaceInv, MainInv, Programs
<1>6. QueueInv'
  <2>1. \A j \in Tasks \ {c} : tpc'[j] = "queued" <=> tpc[j] = "queued"
    BY <1>3
  <2>2. QueueInv /\ tpc'[c] # "queued"
    BY DEF PlaceInv
  <2>3. QED
    BY <1>1, <2>1, <2>2, TakeKeepsQueues
<1>7. StackInv'
  <2>1. tpc[c] \notin Begun /\ tpc'[c] \in Begun
    BY <1>2 DEF Begun, Outside, TaskPC
  <2>2. \A j \in Tasks \ {c} : tpc'[j] \in Begun <=> tpc[j] \in Begun
    BY <1>3
  <2>3. StackInv
    BY DEF PlaceInv
  <2>4. QED
    BY <1>1, <1>2, <2>1, <2>2, <2>3, BeginKeepsStacks
<1>8. RunsInv'
  <2>1. \A j \in Tasks \ {c} :
          /\ runs'[j] = runs[j]
          /\ tpc'[j] \in {"unborn", "queued"} <=> tpc[j] \in {"unborn", "queued"}
    BY <1>3 DEF PoolTypeOK
  <2>2. RunsInv /\ runs'[c] = runs[c] + 1 /\ runs[c] = 0
    BY <1>2 DEF PlaceInv, RunsInv, PoolTypeOK
  <2>3. QED
    BY <2>1, <2>2 DEF RunsInv
<1>9. QED
  BY <1>2, <1>4, <1>5, <1>6, <1>7, <1>8 DEF PlaceInv

\* The same for a worker.
LEMMA BeginKeepsPlaces ==
  ASSUME PoolTypeOK, PoolTypeOK', PlaceInv, UNCHANGED <<setup, ip>>,
         NEW v \in Workers, NEW t \in Threads, NEW c, Takes(v, c), Begin(t, c)
  PROVE  PlaceInv' /\ tpc[c] = "queued"
<1>1. c \in Programs
  BY TakesFacts DEF Programs
<1>2. tpc'[c] = "popped" /\ \A j \in Programs \ {c} : tpc'[j] = tpc[j]
  BY <1>1 DEF Begin, PoolTypeOK
<1>3. stack' = [stack EXCEPT ![t] = Append(@, c)] /\ runs' = [runs EXCEPT ![c] = @ + 1]
  BY DEF Begin
<1>4. QED
  BY <1>2, <1>3, TakeKeepsPlaces

\* The same for a thread that assists.
LEMMA AssistedKeepsPlaces ==
  ASSUME PoolTypeOK, PoolTypeOK', PlaceInv, UNCHANGED <<setup, ip>>,
         NEW v \in Workers, NEW t \in Threads, NEW k \in Programs,
         tpc[k] \in {"assistHint", "assistAny"},
         NEW c, Takes(v, c), Assisted(t, k, c)
  PROVE  PlaceInv' /\ tpc[c] = "queued"
<1>1. c \in Programs
  BY TakesFacts DEF Programs
<1>2. /\ tpc'[c] = "popped"
      /\ \A j \in Programs \ {c} : \/ tpc'[j] = tpc[j]
                                   \/ tpc[j] \in {"assistHint", "assistAny"} /\ tpc'[j] = "await"
  BY <1>1 DEF Assisted, PoolTypeOK
<1>3. stack' = [stack EXCEPT ![t] = Append(@, c)] /\ runs' = [runs EXCEPT ![c] = @ + 1]
  BY DEF Assisted
<1>4. QED
  BY <1>2, <1>3, TakeKeepsPlaces

\* What a step of an awaiting task that looks for a task to run can be.
LEMMA AssistCases ==
  ASSUME PoolTypeOK, OpInv, NEW t \in Threads, NEW k \in Programs,
         AssistHint(t, k) \/ AssistAny(t, k)
  PROVE  /\ tpc[k] \in {"assistHint", "assistAny"}
         /\ ip[k] <= Len(Script[k]) /\ Op(k).op = "await"
         /\ UNCHANGED <<pending, wpc, ip>>
         /\ \/ UNCHANGED <<deque, stack, tpc, runs>>
            \/ /\ \E l \in {"assistAny", "blocked"} : tpc' = [tpc EXCEPT ![k] = l]
               /\ UNCHANGED <<deque, stack, runs>>
            \/ \E w \in Workers : \E c : Takes(w, c) /\ Assisted(t, k, c)
<1> USE DEF queueVars, counters, workerVars, taskVars, Step
<1>1. CASE AssistHint(t, k)
  <2> DEFINE w == hint[Target(k)]
             c == deque[w][Len(deque[w])]
  <2>1. ip[k] <= Len(Script[k]) /\ Op(k).op = "await" /\ tpc[k] = "assistHint"
    BY <1>1 DEF AssistHint, OpInv
  <2>2. w \in Workers
    BY <2>1, OpFacts DEF PoolTypeOK
  <2>3. UNCHANGED <<pending, wpc, ip>>
    BY <1>1 DEF AssistHint
  <2>4. CASE deque[w] = <<>>
    BY <1>1, <2>1, <2>3, <2>4 DEF AssistHint
  <2>5. CASE deque[w] # <<>>
    <3>1. Takes(w, c) /\ Assisted(t, k, c)
      BY <1>1, <2>5 DEF AssistHint, Takes, Assisted
    <3> HIDE DEF w, c
    <3>2. QED
      BY <2>1, <2>2, <2>3, <3>1
  <2>6. QED
    BY <2>4, <2>5
<1>2. CASE AssistAny(t, k)
  <2> DEFINE w == scan[k]
             c == deque[w][Len(deque[w])]
  <2>1. ip[k] <= Len(Script[k]) /\ Op(k).op = "await" /\ tpc[k] = "assistAny"
    BY <1>2 DEF AssistAny, OpInv
  <2>2. UNCHANGED <<pending, wpc, ip>>
    BY <1>2 DEF AssistAny
  <2>3. CASE w = NumWorkers
    BY <1>2, <2>1, <2>2, <2>3 DEF AssistAny
  <2>4. CASE w # NumWorkers /\ deque[w] = <<>>
    BY <1>2, <2>1, <2>2, <2>4 DEF AssistAny
  <2>5. CASE w # NumWorkers /\ deque[w] # <<>>
    <3>1. Takes(w, c) /\ Assisted(t, k, c)
      BY <1>2, <2>5 DEF AssistAny, Takes, Assisted
    <3>2. w \in Workers
      <4>1. w \in 0..NumWorkers /\ NumWorkers \in Nat /\ w # NumWorkers
        BY <2>5, WorkersFinite DEF PoolTypeOK
      <4>2. QED
        BY <4>1 DEF Workers
    <3> HIDE DEF c, w
    <3>3. QED
      BY <2>1, <2>2, <3>1, <3>2
  <2>6. QED
    BY <2>3, <2>4, <2>5
<1>3. QED
  BY <1>1, <1>2

\* Steps that move no task.
LEMMA IdleKeepsPlaces ==
  ASSUME PlaceInv, UNCHANGED <<setup, deque, stack, tpc, ip, runs>>
  PROVE  PlaceInv'
<1>1. /\ Workers' = Workers /\ Threads' = Threads /\ Script' = Script
      /\ \A j \in Programs : Op(j)' = Op(j) /\ Target(j)' = Target(j)
  BY DEF Workers, Threads, NumWorkers, Script, Op, Target
<1>2. OpInv'
  BY <1>1 DEF PlaceInv, OpInv
<1>3. QED
  BY <1>1, <1>2 DEF PlaceInv, MainInv, QueueInv, StackInv, RunsInv

\* enqueue_item pushes the task that SpawnPick chose: no other thread can have
\* pushed it, as no other operation spawns it.
LEMMA PushKeepsPlaces ==
  ASSUME PoolTypeOK, PoolTypeOK', PlaceInv, setup' = setup,
         NEW t \in Threads, NEW k \in Programs, SpawnPush(t, k)
  PROVE  PlaceInv' /\ Target(k) \in Tasks /\ Target(k) # k /\ tpc[Target(k)] = "unborn"
<1> DEFINE c == Target(k)
<1>1. /\ Workers' = Workers /\ Threads' = Threads /\ Script' = Script
      /\ \A j \in Programs : Op(j)' = Op(j) /\ Target(j)' = Target(j)
      /\ deque' = [deque EXCEPT ![hint[c]] = Append(@, c)]
      /\ tpc' = [tpc EXCEPT ![k] = "count", ![c] = "queued"]
      /\ UNCHANGED <<ip, stack, runs>> /\ tpc[k] = "push"
  BY DEF SpawnPush, Workers, Threads, NumWorkers, Script, Op, Target
<1>2. /\ ip[k] <= Len(Script[k]) /\ Op(k).op = "spawn" /\ tpc[c] = "unborn"
      /\ c \in Tasks /\ c # k /\ Op(k) = Spawn(c) /\ hint[c] \in Workers
      /\ ip[k] \in DOMAIN Script[k]
  <2>1. ip[k] <= Len(Script[k]) /\ Op(k).op = "spawn" /\ tpc[c] = "unborn"
    BY <1>1 DEF PlaceInv, OpInv
  <2>2. c \in Tasks /\ Op(k) = Spawn(c) /\ ip[k] \in DOMAIN Script[k]
    BY <2>1, OpFacts, LenProperties
  <2>3. QED
    BY <1>1, <2>1, <2>2 DEF PoolTypeOK
<1>3. /\ tpc'[k] = "count" /\ tpc'[c] = "queued"
      /\ \A j \in Programs \ {k, c} : tpc'[j] = tpc[j]
  BY <1>1, <1>2 DEF PoolTypeOK, Programs
<1>4. OpInv'
  <2>1. ASSUME NEW j \in Programs, tpc'[j] = "push"
        PROVE  ip[j] <= Len(Script[j]) /\ Op(j).op = "spawn" /\ tpc'[Target(j)] = "unborn"
    <3>1. j # k /\ j # c /\ tpc[j] = "push"
      BY <1>3, <2>1
    <3>2. ip[j] <= Len(Script[j]) /\ Op(j).op = "spawn" /\ tpc[Target(j)] = "unborn"
      BY <3>1 DEF PlaceInv, OpInv
    <3>3. Target(j) \in Tasks /\ Op(j) = Spawn(Target(j)) /\ ip[j] \in DOMAIN Script[j]
      BY <3>2, OpFacts, LenProperties
    <3>4. Target(j) # c
      <4>1. SpawnsOnce(Script)
        BY SchedulerAssumption DEF PoolTypeOK, Script
      <4>2. Op(j) # Op(k)
        BY <1>2, <3>1, <3>2, <3>3, <4>1 DEF SpawnsOnce, Op, Programs
      <4>3. QED
        BY <1>2, <3>3, <4>2
    <3>5. Target(j) # k
      BY <1>1, <3>2
    <3>6. QED
      BY <1>3, <3>2, <3>3, <3>4, <3>5 DEF Programs
  <2>2. ASSUME NEW j \in Programs, tpc'[j] \in {"await", "assistHint", "assistAny", "blocked"}
        PROVE  ip[j] <= Len(Script[j]) /\ Op(j).op = "await"
    <3>1. j # k /\ j # c
      BY <1>3, <2>2
    <3>2. tpc[j] \in {"await", "assistHint", "assistAny", "blocked"}
      BY <1>3, <2>2, <3>1
    <3>3. QED
      BY <3>2 DEF PlaceInv, OpInv
  <2>3. QED
    BY <1>1, <2>1, <2>2 DEF OpInv
<1>5. MainInv'
  <2>1. Main \in Programs /\ Main # c
    BY <1>2, SchedulerAssumption DEF Programs
  <2>2. QED
    BY <1>3, <2>1 DEF PlaceInv, MainInv
<1>6. ASSUME NEW j \in Tasks \ {c}
      PROVE  /\ tpc'[j] = "queued" <=> tpc[j] = "queued"
             /\ tpc'[j] \in Begun <=> tpc[j] \in Begun
             /\ tpc'[j] \in {"unborn", "queued"} <=> tpc[j] \in {"unborn", "queued"}
  BY <1>1, <1>3 DEF Programs, Begun, Outside, TaskPC
<1>7. QueueInv'
  <2>1. \A j \in Tasks \ {c} : tpc'[j] = "queued" <=> tpc[j] = "queued"
    BY <1>6
  <2>2. QueueInv /\ tpc[c] # "queued" /\ tpc'[c] = "queued"
    BY <1>2, <1>3 DEF PlaceInv
  <2>3. QED
    BY <1>1, <1>2, <2>1, <2>2, PushKeepsQueues
<1>8. StackInv'
  <2>1. \A j \in Tasks \ {c} : tpc'[j] \in Begun <=> tpc[j] \in Begun
    BY <1>6
  <2>2. \A j \in Tasks : tpc'[j] \in Begun <=> tpc[j] \in Begun
    BY <1>2, <1>3, <2>1 DEF Begun, Outside
  <2>3. StackInv /\ stack' = stack
    BY <1>1 DEF PlaceInv
  <2>4. QED
    BY <1>1, <2>2, <2>3, KeepsStacks
<1>9. RunsInv'
  <2>1. \A j \in Tasks \ {c} : tpc'[j] \in {"unborn", "queued"} <=> tpc[j] \in {"unborn", "queued"}
    BY <1>6
  <2>2. RunsInv /\ runs' = runs
    BY <1>1 DEF PlaceInv
  <2>3. QED
    BY <1>2, <1>3, <2>1, <2>2 DEF RunsInv
<1>10. QED
  BY <1>2, <1>4, <1>5, <1>7, <1>8, <1>9 DEF PlaceInv

\* A task that is over leaves its stack.
LEMMA TallyKeepsPlaces ==
  ASSUME PoolTypeOK, PoolTypeOK', PlaceInv, setup' = setup,
         NEW t \in Threads, NEW k \in Programs, RunTally(t, k)
  PROVE  PlaceInv'
<1>1. /\ Workers' = Workers /\ Threads' = Threads /\ Script' = Script
      /\ \A j \in Programs : Op(j)' = Op(j) /\ Target(j)' = Target(j)
      /\ Running(t, k) /\ tpc[k] = "tally"
      /\ stack' = [stack EXCEPT ![t] = Front(@)]
      /\ tpc' = [tpc EXCEPT ![k] = "over"]
      /\ UNCHANGED <<ip, deque, runs>>
  BY DEF RunTally, Step, Workers, Threads, NumWorkers, Script, Op, Target
<1>2. k \in Tasks /\ k # Main /\ Main \in Programs
  BY <1>1 DEF PlaceInv, MainInv, Programs
<1>3. tpc'[k] = "over" /\ \A j \in Programs \ {k} : tpc'[j] = tpc[j]
  BY <1>1 DEF PoolTypeOK
<1>4. OpInv'
  <2>1. ASSUME NEW j \in Programs, tpc'[j] = "push"
        PROVE  ip[j] <= Len(Script[j]) /\ Op(j).op = "spawn" /\ tpc'[Target(j)] = "unborn"
    <3>1. ip[j] <= Len(Script[j]) /\ Op(j).op = "spawn" /\ tpc[Target(j)] = "unborn"
      BY <1>3, <2>1 DEF PlaceInv, OpInv
    <3>2. Target(j) \in Programs \ {k}
      BY <1>1, <3>1, OpFacts DEF Programs
    <3>3. QED
      BY <1>3, <3>1, <3>2
  <2>2. ASSUME NEW j \in Programs, tpc'[j] \in {"await", "assistHint", "assistAny", "blocked"}
        PROVE  ip[j] <= Len(Script[j]) /\ Op(j).op = "await"
    BY <1>3, <2>2 DEF PlaceInv, OpInv
  <2>3. QED
    BY <1>1, <2>1, <2>2 DEF OpInv
<1>5. MainInv'
  BY <1>2, <1>3 DEF PlaceInv, MainInv
<1>6. ASSUME NEW j \in Tasks \ {k} PROVE tpc'[j] = tpc[j]
  BY <1>3 DEF Programs
<1>7. QueueInv'
  <2>1. \A j \in Tasks : tpc'[j] = "queued" <=> tpc[j] = "queued"
    BY <1>1, <1>3, <1>6
  <2>2. \A w \in Workers : \A i \in 1..Len(deque[w]) : deque[w][i] \in Tasks
    BY ElementOfSeq DEF PoolTypeOK
  <2>3. QueueInv
    BY DEF PlaceInv
  <2>4. QED
    BY <1>1, <2>1, <2>2, <2>3, KeepsQueues
<1>8. StackInv'
  <2>1. \A j \in Tasks \ {k} : tpc'[j] \in Begun <=> tpc[j] \in Begun
    BY <1>6
  <2>2. tpc'[k] \notin Begun
    BY <1>3 DEF Begun, Outside
  <2>3. StackInv
    BY DEF PlaceInv
  <2>4. QED
    BY <1>1, <1>2, <2>1, <2>2, <2>3, ReturnKeepsStacks
<1>9. RunsInv'
  <2>1. \A j \in Tasks : tpc'[j] \in {"unborn", "queued"} <=> tpc[j] \in {"unborn", "queued"}
    BY <1>1, <1>3, <1>6
  <2>2. RunsInv /\ runs' = runs
    BY <1>1 DEF PlaceInv
  <2>3. QED
    BY <2>1, <2>2 DEF RunsInv
<1>10. QED
  BY <1>4, <1>5, <1>7, <1>8, <1>9 DEF PlaceInv

\* Nothing but the main program is anywhere at the start.
LEMMA PlaceInit == PoolInit => PlaceInv
<1> SUFFICES ASSUME PoolInit PROVE PlaceInv
  OBVIOUS
<1>1. /\ \A k \in Tasks : tpc[k] = "unborn" /\ runs[k] = 0
      /\ \A k \in Programs : tpc[k] \in {"unborn", "step"}
      /\ tpc[Main] = "step"
      /\ \A w \in Workers : deque[w] = <<>>
  BY SchedulerAssumption DEF PoolInit, Programs
<1>2. OpInv /\ MainInv /\ RunsInv
  BY <1>1 DEF OpInv, MainInv, RunsInv
<1>3. QueueInv
  <2>1. \A w \in Workers : \A i \in 1..Len(deque[w]) : FALSE
    BY <1>1
  <2>2. QED
    BY <1>1, <2>1 DEF QueueInv
<1>4. StackInv
  <2>1. \A t \in Threads : stack[t] = IF t = MainThread THEN <<Main>> ELSE <<>>
    BY DEF PoolInit
  <2>2. ASSUME NEW t \in Threads, NEW i \in 1..Len(stack[t])
        PROVE  t = MainThread /\ i = 1 /\ stack[t][i] = Main
    <3>1. CASE t = MainThread
      <4>1. stack[t] = <<Main>>
        BY <2>1, <3>1
      <4>2. Len(stack[t]) = 1 /\ stack[t][1] = Main
        BY <4>1
      <4>3. QED
        BY <3>1, <4>2
    <3>2. CASE t # MainThread
      BY <2>1, <3>2
    <3>3. QED
      BY <3>1, <3>2
  <2>3. \A k \in Tasks : tpc[k] \notin Begun
    BY <1>1 DEF Begun, Outside
  <2>4. QED
    BY <2>2, <2>3, SchedulerAssumption DEF StackInv
<1>5. QED
  BY <1>2, <1>3, <1>4 DEF PlaceInv

\* Every step keeps each task in one place.
LEMMA PlaceStep == PoolTypeOK /\ PoolTypeOK' /\ PlaceInv /\ [PoolNext]_poolVars => PlaceInv'
<1> SUFFICES ASSUME PoolTypeOK, PoolTypeOK', PlaceInv, [PoolNext]_poolVars PROVE PlaceInv'
  OBVIOUS
<1>1. CASE UNCHANGED poolVars
  BY <1>1, IdleKeepsPlaces DEF poolVars, threadVars
<1>2. CASE PoolNext
  <2>1. setup' = setup
    BY <1>2 DEF PoolNext
  <2> USE DEF queueVars, counters, workerVars, taskVars, Step, NextOp
  <2>2. ASSUME NEW w \in Workers, WorkerCheck(w) \/ Predicate(w) \/ Block(w) \/ SpuriousWakeup(w)
        PROVE  PlaceInv'
    BY <2>1, <2>2, IdleKeepsPlaces DEF WorkerCheck, Predicate, Block, SpuriousWakeup
  <2>3. ASSUME NEW w \in Workers, PopLocal(w) PROVE PlaceInv'
    <3>1. CASE deque[w] = <<>>
      BY <2>1, <2>3, <3>1, IdleKeepsPlaces DEF PopLocal
    <3>2. CASE deque[w] # <<>>
      <4> DEFINE c == deque[w][Len(deque[w])]
      <4>1. Takes(w, c) /\ Begin(w, c) /\ ip' = ip
        BY <2>3, <3>2 DEF PopLocal, Takes
      <4> HIDE DEF c
      <4>2. QED
        BY <2>1, <4>1, BeginKeepsPlaces DEF Threads
    <3>3. QED
      BY <3>1, <3>2
  <2>4. ASSUME NEW w \in Workers, StealRemote(w) PROVE PlaceInv'
    <3> DEFINE v == (w + offset[w]) % NumWorkers
    <3>1. CASE offset[w] = NumWorkers \/ deque[v] = <<>>
      BY <2>1, <2>4, <3>1, IdleKeepsPlaces DEF StealRemote
    <3>2. CASE offset[w] # NumWorkers /\ deque[v] # <<>>
      <4> DEFINE c == Head(deque[v])
      <4>1. v \in Workers
        BY VictimIsWorker
      <4>2. Takes(v, c) /\ Begin(w, c) /\ ip' = ip
        BY <2>4, <3>2 DEF StealRemote, Takes
      <4> HIDE DEF c, v
      <4>3. QED
        BY <2>1, <4>1, <4>2, BeginKeepsPlaces DEF Threads
    <3>3. QED
      BY <3>1, <3>2
  <2>5. ASSUME NEW t \in Threads, NEW k \in Programs, TaskStep(t, k) PROVE PlaceInv'
    <3> USE DEF Outside
    <3>1. CASE RunStart(t, k)
      BY <2>1, <3>1, StepKeepsPlaces DEF RunStart
    <3>2. CASE RunFinish(t, k)
      BY <2>1, <3>2, StepKeepsPlaces DEF RunFinish
    <3>3. CASE RunTally(t, k)
      BY <2>1, <3>3, TallyKeepsPlaces
    <3>4. CASE SpawnPick(t, k)
      BY <2>1, <3>4, StepKeepsPlaces DEF SpawnPick
    <3>5. CASE SpawnPush(t, k)
      BY <2>1, <3>5, PushKeepsPlaces
    <3>6. CASE SpawnCount(t, k)
      BY <2>1, <3>6, StepKeepsPlaces DEF SpawnCount
    <3>7. CASE SpawnNotify(t, k)
      <4>1. \A j \in Programs \ {k} : ip'[j] = ip[j]
        BY <3>7 DEF SpawnNotify, PoolTypeOK
      <4>2. QED
        BY <2>1, <3>7, <4>1, StepKeepsPlaces DEF SpawnNotify
    <3>8. CASE AwaitPoll(t, k)
      <4>1. ip[k] <= Len(Script[k]) /\ Op(k).op = "await" /\ tpc[k] \in {"step", "await"}
        BY <3>8 DEF AwaitPoll, PlaceInv, OpInv
      <4>2. CASE NextOp(k)
        <5>1. \A j \in Programs \ {k} : ip'[j] = ip[j]
          BY <4>2 DEF PoolTypeOK
        <5>2. UNCHANGED <<deque, stack, runs>>
          BY <3>8 DEF AwaitPoll
        <5>3. QED
          BY <2>1, <4>1, <4>2, <5>1, <5>2, StepKeepsPlaces
      <4>3. CASE tpc' = [tpc EXCEPT ![k] = "assistHint"] /\ ip' = ip
        <5>1. UNCHANGED <<deque, stack, runs>>
          BY <3>8 DEF AwaitPoll
        <5>2. QED
          BY <2>1, <4>1, <4>3, <5>1, StepKeepsPlaces
      <4>4. QED
        BY <3>8, <4>2, <4>3 DEF AwaitPoll, Unready
    <3>9. CASE AssistHint(t, k) \/ AssistAny(t, k)
      <4>1. /\ tpc[k] \in {"assistHint", "assistAny"} /\ ip' = ip
            /\ ip[k] <= Len(Script[k]) /\ Op(k).op = "await"
        BY <3>9, AssistCases DEF PlaceInv
      <4>2. CASE UNCHANGED <<deque, stack, tpc, runs>>
        BY <2>1, <4>1, <4>2, IdleKeepsPlaces
      <4>3. ASSUME NEW l \in {"assistAny", "blocked"}, tpc' = [tpc EXCEPT ![k] = l],
                   UNCHANGED <<deque, stack, runs>>
            PROVE  PlaceInv'
        BY <2>1, <4>1, <4>3, StepKeepsPlaces
      <4>4. ASSUME NEW w \in Workers, NEW c, Takes(w, c), Assisted(t, k, c)
            PROVE  PlaceInv'
        BY <2>1, <4>1, <4>4, AssistedKeepsPlaces
      <4>5. QED
        BY <3>9, <4>2, <4>3, <4>4, AssistCases DEF PlaceInv
    <3>10. CASE AwaitBlocked(t, k)
      <4>1. \A j \in Programs \ {k} : ip'[j] = ip[j]
        BY <3>10 DEF AwaitBlocked, PoolTypeOK
      <4>2. QED
        BY <2>1, <3>10, <4>1, StepKeepsPlaces DEF AwaitBlocked
    <3>11. CASE BatchWait(t, k)
      <4>1. \A j \in Programs \ {k} : ip'[j] = ip[j]
        BY <3>11 DEF BatchWait, PoolTypeOK
      <4>2. QED
        BY <2>1, <3>11, <4>1, StepKeepsPlaces DEF BatchWait
    <3>12. QED
      BY <2>5, <3>1, <3>2, <3>3, <3>4, <3>5, <3>6, <3>7, <3>8, <3>9, <3>10, <3>11 DEF TaskStep
  <2>6. CASE ShutdownStep(Main)
    <3> USE DEF Outside
    <3>0. Main \in Programs
      BY DEF Programs
    <3>1. CASE Shutdown(Main)
      BY <2>1, <3>0, <3>1, StepKeepsPlaces DEF Shutdown
    <3>2. CASE ShutdownNotify(Main)
      BY <2>1, <3>0, <3>2, StepKeepsPlaces DEF ShutdownNotify
    <3>3. CASE ShutdownJoin(Main)
      BY <2>1, <3>0, <3>3, StepKeepsPlaces DEF ShutdownJoin
    <3>4. QED
      BY <2>6, <3>1, <3>2, <3>3 DEF ShutdownStep
  <2>7. QED
    BY <1>2, <2>2, <2>3, <2>4, <2>5, <2>6 DEF PoolNext, WorkerStep
<1>3. QED
  BY <1>1, <1>2

-----------------------------------------------------------------------------
(* The counter of pending tasks *)

\* What pending counts is finite.
LEMMA FinitelyMany ==
  /\ IsFiniteSet(Queued) /\ IsFiniteSet(Popped) /\ IsFiniteSet(Uncounted)
  /\ Cardinality(Queued) \in Nat /\ Cardinality(Popped) \in Nat /\ Cardinality(Uncounted) \in Nat
<1>1. IsFiniteSet(Tasks) /\ IsFiniteSet(Programs)
  BY SchedulerAssumption, FS_AddElement DEF Programs
<1>2. IsFiniteSet(Queued) /\ IsFiniteSet(Popped) /\ IsFiniteSet(Uncounted)
  BY <1>1, FS_Subset DEF Queued, Popped, Uncounted
<1>3. QED
  BY <1>2, FS_CardinalityType

\* Steps that take no part in the count.
LEMMA PendingKept ==
  ASSUME PendingInv, pending' = pending,
         \A j \in Tasks : /\ tpc'[j] = "queued" <=> tpc[j] = "queued"
                          /\ tpc'[j] = "popped" <=> tpc[j] = "popped",
         \A j \in Programs : tpc'[j] = "count" <=> tpc[j] = "count"
  PROVE  PendingInv'
<1>1. Queued' = Queued /\ Popped' = Popped /\ Uncounted' = Uncounted
  BY DEF Queued, Popped, Uncounted
<1>2. QED
  BY <1>1 DEF PendingInv

\* A step of a program that is not counted before or after it.
LEMMA PendingStepped ==
  ASSUME PoolTypeOK, PendingInv, pending' = pending, NEW k \in Programs, NEW l,
         tpc' = [tpc EXCEPT ![k] = l],
         tpc[k] \notin {"queued", "popped", "count"}, l \notin {"queued", "popped", "count"}
  PROVE  PendingInv'
<1>1. tpc'[k] = l /\ \A j \in Programs \ {k} : tpc'[j] = tpc[j]
  BY DEF PoolTypeOK
<1>2. \A j \in Programs : /\ tpc'[j] = "queued" <=> tpc[j] = "queued"
                          /\ tpc'[j] = "popped" <=> tpc[j] = "popped"
                          /\ tpc'[j] = "count" <=> tpc[j] = "count"
  BY <1>1
<1>3. QED
  BY <1>2, PendingKept DEF Programs

\* A task that leaves its queue is popped until run_item has counted it.
LEMMA PendingTaken ==
  ASSUME PendingInv, pending' = pending, NEW c \in Tasks, tpc[c] = "queued", tpc'[c] = "popped",
         \A j \in Programs \ {c} : \/ tpc'[j] = tpc[j]
                                   \/ /\ tpc[j] \in {"assistHint", "assistAny"}
                                      /\ tpc'[j] = "await"
  PROVE  PendingInv'
<1>1. /\ Queued' = Queued \ {c} /\ c \in Queued
      /\ Popped' = Popped \cup {c} /\ c \notin Popped
      /\ Uncounted' = Uncounted
  BY DEF Queued, Popped, Uncounted, Programs
<1>2. /\ Cardinality(Queued') = Cardinality(Queued) - 1
      /\ Cardinality(Popped') = Cardinality(Popped) + 1
      /\ Cardinality(Uncounted') = Cardinality(Uncounted)
  BY <1>1, FinitelyMany, FS_AddElement, FS_RemoveElement
<1>3. QED
  BY <1>2, FinitelyMany DEF PendingInv

\* The same for a worker.
LEMMA PendingBegun ==
  ASSUME PoolTypeOK, PoolTypeOK', PlaceInv, UNCHANGED <<setup, ip>>, PendingInv, pending' = pending,
         NEW v \in Workers, NEW t \in Threads, NEW c, Takes(v, c), Begin(t, c)
  PROVE  PendingInv'
<1>1. c \in Tasks /\ tpc[c] = "queued"
  BY TakesFacts, BeginKeepsPlaces
<1>2. tpc'[c] = "popped" /\ \A j \in Programs \ {c} : tpc'[j] = tpc[j]
  BY <1>1 DEF Begin, PoolTypeOK, Programs
<1>3. QED
  BY <1>1, <1>2, PendingTaken

\* The same for a thread that assists.
LEMMA PendingAssisted ==
  ASSUME PoolTypeOK, PoolTypeOK', PlaceInv, UNCHANGED <<setup, ip>>, PendingInv, pending' = pending,
         NEW v \in Workers, NEW t \in Threads, NEW k \in Programs,
         tpc[k] \in {"assistHint", "assistAny"},
         NEW c, Takes(v, c), Assisted(t, k, c)
  PROVE  PendingInv'
<1>1. c \in Tasks /\ tpc[c] = "queued"
  BY TakesFacts, AssistedKeepsPlaces
<1>2. /\ tpc'[c] = "popped"
      /\ \A j \in Programs \ {c} : \/ tpc'[j] = tpc[j]
                                   \/ /\ tpc[j] \in {"assistHint", "assistAny"}
                                      /\ tpc'[j] = "await"
  BY <1>1 DEF Assisted, PoolTypeOK, Programs
<1>3. QED
  BY <1>1, <1>2, PendingTaken

\* pending is decremented when the task starts.
LEMMA PendingStarted ==
  ASSUME PoolTypeOK, MainInv, PendingInv, NEW t \in Threads, NEW k \in Programs, RunStart(t, k)
  PROVE  PendingInv'
<1>1. /\ k \in Tasks /\ tpc[k] = "popped" /\ tpc'[k] = "step" /\ pending' = pending - 1
      /\ \A j \in Programs \ {k} : tpc'[j] = tpc[j]
  BY DEF RunStart, Step, MainInv, Programs, PoolTypeOK
<1>2. Queued' = Queued /\ Popped' = Popped \ {k} /\ k \in Popped /\ Uncounted' = Uncounted
  BY <1>1 DEF Queued, Popped, Uncounted, Programs
<1>3. /\ Cardinality(Popped') = Cardinality(Popped) - 1
      /\ Cardinality(Queued') = Cardinality(Queued)
      /\ Cardinality(Uncounted') = Cardinality(Uncounted)
  BY <1>2, FinitelyMany, FS_RemoveElement
<1>4. QED
  BY <1>1, <1>3, FinitelyMany DEF PendingInv

\* A task is in its queue before it is counted.
LEMMA PendingPushed ==
  ASSUME PoolTypeOK, PoolTypeOK', PlaceInv, setup' = setup, PendingInv,
         NEW t \in Threads, NEW k \in Programs, SpawnPush(t, k)
  PROVE  PendingInv'
<1> DEFINE c == Target(k)
<1>1. c \in Tasks /\ c # k /\ tpc[c] = "unborn"
  BY PushKeepsPlaces
<1>2. /\ tpc[k] = "push" /\ tpc'[k] = "count" /\ tpc'[c] = "queued" /\ pending' = pending
      /\ \A j \in Programs \ {k, c} : tpc'[j] = tpc[j]
  BY <1>1 DEF SpawnPush, counters, PoolTypeOK, Programs
<1> HIDE DEF c
<1>3. /\ Queued' = Queued \cup {c} /\ c \notin Queued
      /\ Popped' = Popped
      /\ Uncounted' = Uncounted \cup {k} /\ k \notin Uncounted
  BY <1>1, <1>2 DEF Queued, Popped, Uncounted, Programs
<1>4. /\ Cardinality(Queued') = Cardinality(Queued) + 1
      /\ Cardinality(Popped') = Cardinality(Popped)
      /\ Cardinality(Uncounted') = Cardinality(Uncounted) + 1
  BY <1>3, FinitelyMany, FS_AddElement
<1>5. QED
  BY <1>2, <1>4, FinitelyMany DEF PendingInv

\* pending is incremented after the push.
LEMMA PendingCounted ==
  ASSUME PoolTypeOK, PendingInv, NEW t \in Threads, NEW k \in Programs, SpawnCount(t, k)
  PROVE  PendingInv'
<1>1. /\ tpc[k] = "count" /\ tpc'[k] = "notify" /\ pending' = pending + 1
      /\ \A j \in Programs \ {k} : tpc'[j] = tpc[j]
  BY DEF SpawnCount, Step, PoolTypeOK
<1>2. Queued' = Queued /\ Popped' = Popped /\ Uncounted' = Uncounted \ {k} /\ k \in Uncounted
  BY <1>1 DEF Queued, Popped, Uncounted, Programs
<1>3. /\ Cardinality(Popped') = Cardinality(Popped)
      /\ Cardinality(Queued') = Cardinality(Queued)
      /\ Cardinality(Uncounted') = Cardinality(Uncounted) - 1
  BY <1>2, FinitelyMany, FS_RemoveElement
<1>4. QED
  BY <1>1, <1>3, FinitelyMany DEF PendingInv

\* Nothing is counted at the start.
LEMMA PendingInit == PoolInit => PendingInv
<1> SUFFICES ASSUME PoolInit PROVE PendingInv
  OBVIOUS
<1>1. Queued = {} /\ Popped = {} /\ Uncounted = {}
  BY SchedulerAssumption DEF PoolInit, Queued, Popped, Uncounted, Programs
<1>2. QED
  BY <1>1, FS_EmptySet DEF PoolInit, PendingInv

\* Every step keeps pending in account with the tasks.
LEMMA PendingStep ==
  PoolTypeOK /\ PoolTypeOK' /\ PlaceInv /\ PendingInv /\ [PoolNext]_poolVars => PendingInv'
<1> SUFFICES ASSUME PoolTypeOK, PoolTypeOK', PlaceInv, PendingInv, [PoolNext]_poolVars PROVE PendingInv'
  OBVIOUS
<1> USE DEF queueVars, counters, workerVars, taskVars, Step, NextOp
<1>1. CASE UNCHANGED poolVars
  BY <1>1, PendingKept DEF poolVars, threadVars
<1>2. CASE PoolNext
  <2>1. setup' = setup /\ MainInv
    BY <1>2 DEF PoolNext, PlaceInv
  <2>2. ASSUME NEW w \in Workers, WorkerCheck(w) \/ Predicate(w) \/ Block(w) \/ SpuriousWakeup(w)
        PROVE  PendingInv'
    BY <2>2, PendingKept DEF WorkerCheck, Predicate, Block, SpuriousWakeup
  <2>3. ASSUME NEW w \in Workers, PopLocal(w) PROVE PendingInv'
    <3>1. CASE deque[w] = <<>>
      BY <2>3, <3>1, PendingKept DEF PopLocal
    <3>2. CASE deque[w] # <<>>
      <4> DEFINE c == deque[w][Len(deque[w])]
      <4>1. Takes(w, c) /\ Begin(w, c) /\ ip' = ip /\ pending' = pending
        BY <2>3, <3>2 DEF PopLocal, Takes
      <4> HIDE DEF c
      <4>2. QED
        BY <2>1, <4>1, PendingBegun DEF Threads
    <3>3. QED
      BY <3>1, <3>2
  <2>4. ASSUME NEW w \in Workers, StealRemote(w) PROVE PendingInv'
    <3> DEFINE v == (w + offset[w]) % NumWorkers
    <3>1. CASE offset[w] = NumWorkers \/ deque[v] = <<>>
      BY <2>4, <3>1, PendingKept DEF StealRemote
    <3>2. CASE offset[w] # NumWorkers /\ deque[v] # <<>>
      <4> DEFINE c == Head(deque[v])
      <4>1. v \in Workers
        BY VictimIsWorker
      <4>2. Takes(v, c) /\ Begin(w, c) /\ ip' = ip /\ pending' = pending
        BY <2>4, <3>2 DEF StealRemote, Takes
      <4> HIDE DEF c, v
      <4>3. QED
        BY <2>1, <4>1, <4>2, PendingBegun DEF Threads
    <3>3. QED
      BY <3>1, <3>2
  <2>5. ASSUME NEW t \in Threads, NEW k \in Programs, TaskStep(t, k) PROVE PendingInv'
    <3>1. CASE RunStart(t, k)
      BY <2>1, <3>1, PendingStarted
    <3>2. CASE RunFinish(t, k)
      BY <3>2, PendingStepped DEF RunFinish
    <3>3. CASE RunTally(t, k)
      BY <3>3, PendingStepped DEF RunTally
    <3>4. CASE SpawnPick(t, k)
      BY <3>4, PendingStepped DEF SpawnPick
    <3>5. CASE SpawnPush(t, k)
      BY <2>1, <3>5, PendingPushed
    <3>6. CASE SpawnCount(t, k)
      BY <3>6, PendingCounted
    <3>7. CASE SpawnNotify(t, k)
      BY <3>7, PendingStepped DEF SpawnNotify
    <3>8. CASE AwaitPoll(t, k)
      <4>1. /\ tpc[k] \in {"step", "await"} /\ pending' = pending
            /\ \/ tpc' = [tpc EXCEPT ![k] = "step"]
               \/ tpc' = [tpc EXCEPT ![k] = "assistHint"]
        BY <3>8 DEF AwaitPoll, Unready
      <4>2. QED
        BY <4>1, PendingStepped
    <3>9. CASE AssistHint(t, k) \/ AssistAny(t, k)
      <4>1. tpc[k] \in {"assistHint", "assistAny"} /\ ip' = ip /\ pending' = pending
        BY <3>9, AssistCases DEF PlaceInv
      <4>2. CASE tpc' = tpc
        BY <4>1, <4>2, PendingKept
      <4>3. ASSUME NEW l \in {"assistAny", "blocked"}, tpc' = [tpc EXCEPT ![k] = l]
            PROVE  PendingInv'
        BY <4>1, <4>3, PendingStepped
      <4>4. ASSUME NEW w \in Workers, NEW c, Takes(w, c), Assisted(t, k, c)
            PROVE  PendingInv'
        BY <2>1, <4>1, <4>4, PendingAssisted
      <4>5. QED
        BY <3>9, <4>2, <4>3, <4>4, AssistCases DEF PlaceInv
    <3>10. CASE AwaitBlocked(t, k)
      BY <3>10, PendingStepped DEF AwaitBlocked
    <3>11. CASE BatchWait(t, k)
      BY <3>11, PendingStepped DEF BatchWait
    <3>12. QED
      BY <2>5, <3>1, <3>2, <3>3, <3>4, <3>5, <3>6, <3>7, <3>8, <3>9, <3>10, <3>11 DEF TaskStep
  <2>6. CASE ShutdownStep(Main)
    <3>1. Main \in Programs
      BY DEF Programs
    <3>2. QED
      BY <2>6, <3>1, PendingStepped DEF ShutdownStep, Shutdown, ShutdownNotify, ShutdownJoin
  <2>7. QED
    BY <1>2, <2>2, <2>3, <2>4, <2>5, <2>6 DEF PoolNext, WorkerStep
<1>3. QED
  BY <1>1, <1>2

-----------------------------------------------------------------------------
(* Sleeping workers *)

Announced == {"count", "notify", "wakeAll"}

\* Steps that put no worker to sleep, queue no task and announce nothing.
LEMMA AwakeKept ==
  ASSUME OneBlocking, AwakeInv, setup' = setup,
         \A w \in Workers : wpc'[w] \in {"sleep", "blocking"} => wpc'[w] = wpc[w],
         \A j \in Tasks : tpc'[j] = "queued" => tpc[j] = "queued",
         \A j \in Programs : tpc[j] \in Announced => tpc'[j] \in Announced
  PROVE  OneBlocking' /\ AwakeInv'
<1>1. Workers' = Workers /\ NumWorkers' = NumWorkers
  BY DEF Workers, NumWorkers
<1>2. OneBlocking'
  BY <1>1 DEF OneBlocking
<1>3. AwakeInv'
  BY <1>1 DEF AwakeInv, Announced
<1>4. QED
  BY <1>2, <1>3

\* A step of one task, which leaves the workers and the queues alone.
LEMMA AwakeStepped ==
  ASSUME PoolTypeOK, OneBlocking, AwakeInv, setup' = setup, wpc' = wpc,
         NEW k \in Programs, NEW l, tpc' = [tpc EXCEPT ![k] = l], l # "queued",
         tpc[k] \in Announced => l \in Announced
  PROVE  OneBlocking' /\ AwakeInv'
<1>1. tpc'[k] = l /\ \A j \in Programs \ {k} : tpc'[j] = tpc[j]
  BY DEF PoolTypeOK
<1>2. /\ \A j \in Programs : tpc'[j] = "queued" => tpc[j] = "queued"
      /\ \A j \in Programs : tpc[j] \in Announced => tpc'[j] \in Announced
  BY <1>1
<1>3. QED
  BY <1>2, AwakeKept DEF Programs

\* Steps that announce the task they queue, or that leave a worker awake.
LEMMA AwakeAnnounced ==
  ASSUME OneBlocking, setup' = setup,
         \A w \in Workers : wpc'[w] = "blocking" => wpc[w] = "blocking",
         \/ \E k \in Programs : tpc'[k] \in Announced
         \/ \E w \in Workers : wpc'[w] \notin {"sleep", "blocking"}
  PROVE  OneBlocking' /\ AwakeInv'
<1>1. Workers' = Workers /\ NumWorkers' = NumWorkers
  BY DEF Workers, NumWorkers
<1>2. OneBlocking'
  BY <1>1 DEF OneBlocking
<1>3. AwakeInv'
  BY <1>1 DEF AwakeInv, Announced
<1>4. QED
  BY <1>2, <1>3

\* Of two workers one is awake when none sleeps.
LEMMA AwakeNotified ==
  ASSUME PoolTypeOK, OneBlocking, setup' = setup,
         \A w \in Workers : wpc'[w] = "blocking" => wpc[w] = "blocking",
         \/ \A w \in Workers : wpc'[w] # "sleep"
         \/ \E w \in Workers : wpc'[w] \notin {"sleep", "blocking"}
  PROVE  OneBlocking' /\ AwakeInv'
<1>1. CASE \E w \in Workers : wpc'[w] \notin {"sleep", "blocking"}
  BY <1>1, AwakeAnnounced
<1>2. CASE \A w \in Workers : wpc'[w] # "sleep"
  <2>1. Workers' = Workers /\ NumWorkers' = NumWorkers /\ NumWorkers \in Nat
    BY WorkersFinite DEF Workers, NumWorkers
  <2>2. OneBlocking'
    BY <2>1 DEF OneBlocking
  <2>3. ASSUME NumWorkers > 1 PROVE \E w \in Workers : wpc'[w] # "blocking"
    <3>1. 0 \in Workers /\ 1 \in Workers
      BY <2>1, <2>3 DEF Workers
    <3>2. wpc[0] # "blocking" \/ wpc[1] # "blocking"
      BY <3>1 DEF OneBlocking
    <3>3. QED
      BY <3>1, <3>2
  <2>4. AwakeInv'
    BY <1>2, <2>1, <2>3 DEF AwakeInv
  <2>5. QED
    BY <2>2, <2>4
<1>3. QED
  BY <1>1, <1>2

\* A worker that finds pending_ at zero leaves no announced task behind.
LEMMA AwakePredicate ==
  ASSUME PoolTypeOK, PendingInv, OneBlocking, setup' = setup,
         NEW w \in Workers, Predicate(w)
  PROVE  OneBlocking' /\ AwakeInv'
<1> USE DEF PoolTypeOK
<1>1. /\ \A v \in Workers : wpc[v] # "blocking"
      /\ wpc' = [wpc EXCEPT ![w] = IF done \/ Pending THEN "check" ELSE "blocking"]
      /\ tpc' = tpc
  BY DEF Predicate, taskVars
<1>2. CASE done \/ Pending
  <2>1. wpc'[w] = "check" /\ \A v \in Workers \ {w} : wpc'[v] = wpc[v]
    BY <1>1, <1>2
  <2>2. QED
    BY <1>1, <2>1, AwakeAnnounced
<1>3. CASE ~(done \/ Pending)
  <2>1. wpc'[w] = "blocking" /\ \A v \in Workers \ {w} : wpc'[v] = wpc[v]
    BY <1>1, <1>3
  <2>2. Workers' = Workers
    BY DEF Workers, NumWorkers
  <2>3. OneBlocking'
    BY <1>1, <2>1, <2>2 DEF OneBlocking
  <2>4. ASSUME NEW k \in Tasks, tpc[k] = "queued"
        PROVE  \E j \in Programs : tpc[j] = "count"
    <3>1. pending = 0
      BY <1>3 DEF Pending
    <3>2. k \in Queued
      BY <2>4 DEF Queued
    <3>3. Cardinality(Queued) # 0
      BY <3>2, FinitelyMany, FS_EmptySet
    <3>4. Cardinality(Uncounted) # 0
      BY <3>1, <3>3, FinitelyMany DEF PendingInv
    <3>5. Uncounted # {}
      BY <3>4, FS_EmptySet
    <3>6. QED
      BY <3>5 DEF Uncounted
  <2>5. AwakeInv'
    BY <1>1, <2>4 DEF AwakeInv
  <2>6. QED
    BY <2>3, <2>5
<1>4. QED
  BY <1>2, <1>3

\* A worker that goes to sleep was not the one that is awake.
LEMMA AwakeBlock ==
  ASSUME PoolTypeOK, OneBlocking, AwakeInv, setup' = setup, NEW w \in Workers, Block(w)
  PROVE  OneBlocking' /\ AwakeInv'
<1>1. /\ wpc[w] = "blocking" /\ wpc'[w] = "sleep" /\ tpc' = tpc
      /\ \A v \in Workers \ {w} : wpc'[v] = wpc[v]
  BY DEF Block, taskVars, PoolTypeOK
<1>2. Workers' = Workers /\ NumWorkers' = NumWorkers
  BY DEF Workers, NumWorkers
<1>3. OneBlocking'
  BY <1>1, <1>2 DEF OneBlocking
<1>4. AwakeInv'
  BY <1>1, <1>2 DEF AwakeInv
<1>5. QED
  BY <1>3, <1>4

\* Nothing is queued at first and no worker sleeps.
LEMMA AwakeInit == PoolInit => OneBlocking /\ AwakeInv
BY DEF PoolInit, OneBlocking, AwakeInv, Programs

\* Every step keeps a worker awake, or about to be woken, for the queued tasks.
LEMMA AwakeStep ==
  /\ PoolTypeOK /\ PoolTypeOK' /\ PlaceInv /\ PendingInv /\ OneBlocking /\ AwakeInv
  /\ [PoolNext]_poolVars
  => OneBlocking' /\ AwakeInv'
<1> SUFFICES ASSUME PoolTypeOK, PoolTypeOK', PlaceInv, PendingInv, OneBlocking, AwakeInv, [PoolNext]_poolVars
             PROVE  OneBlocking' /\ AwakeInv'
  OBVIOUS
<1> USE DEF queueVars, counters, workerVars, taskVars, Step, NextOp
<1>1. CASE UNCHANGED poolVars
  BY <1>1, AwakeKept DEF poolVars, threadVars
<1>2. CASE PoolNext
  <2>1. setup' = setup
    BY <1>2 DEF PoolNext
  <2>2. ASSUME NEW w \in Workers, NEW l, wpc' = [wpc EXCEPT ![w] = l],
               l \notin {"sleep", "blocking"}
        PROVE  OneBlocking' /\ AwakeInv'
    <3>1. wpc'[w] = l /\ \A v \in Workers \ {w} : wpc'[v] = wpc[v]
      BY <2>2 DEF PoolTypeOK
    <3>2. QED
      BY <2>1, <2>2, <3>1, AwakeAnnounced
  <2>3. ASSUME NEW w \in Workers, WorkerCheck(w) \/ SpuriousWakeup(w)
        PROVE  OneBlocking' /\ AwakeInv'
    BY <2>2, <2>3 DEF WorkerCheck, SpuriousWakeup
  <2>4. ASSUME NEW w \in Workers, PopLocal(w) PROVE OneBlocking' /\ AwakeInv'
    BY <2>2, <2>4 DEF PopLocal
  <2>5. ASSUME NEW w \in Workers, StealRemote(w) PROVE OneBlocking' /\ AwakeInv'
    <3> DEFINE v == (w + offset[w]) % NumWorkers
    <3>1. CASE offset[w] # NumWorkers /\ deque[v] = <<>>
      BY <2>1, <2>5, <3>1, AwakeKept DEF StealRemote
    <3>2. CASE ~(offset[w] # NumWorkers /\ deque[v] = <<>>)
      BY <2>2, <2>5, <3>2 DEF StealRemote
    <3>3. QED
      BY <3>1, <3>2
  <2>6. ASSUME NEW t \in Threads, NEW k \in Programs, TaskStep(t, k)
        PROVE  OneBlocking' /\ AwakeInv'
    <3> USE DEF Announced
    <3>1. CASE RunStart(t, k) \/ RunFinish(t, k)
      BY <2>1, <3>1, AwakeStepped DEF RunStart, RunFinish
    <3>2. CASE RunTally(t, k)
      <4>1. /\ tpc[k] = "tally" /\ tpc' = [tpc EXCEPT ![k] = "over"]
            /\ wpc' = wpc \/ wpc' = [wpc EXCEPT ![t] = "check"]
        BY <3>2 DEF RunTally
      <4>2. CASE wpc' = wpc
        BY <2>1, <4>1, <4>2, AwakeStepped
      <4>3. CASE wpc' = [wpc EXCEPT ![t] = "check"]
        <5>1. /\ tpc'[k] = "over" /\ \A j \in Programs \ {k} : tpc'[j] = tpc[j]
              /\ \A w \in Workers : wpc'[w] = IF w = t THEN "check" ELSE wpc[w]
          BY <4>1, <4>3 DEF PoolTypeOK
        <5>2. /\ \A j \in Programs : tpc'[j] = "queued" => tpc[j] = "queued"
              /\ \A j \in Programs : tpc[j] \in Announced => tpc'[j] \in Announced
          BY <4>1, <5>1
        <5>3. QED
          BY <2>1, <5>1, <5>2, AwakeKept DEF Programs
      <4>4. QED
        BY <4>1, <4>2, <4>3
    <3>3. CASE SpawnPick(t, k)
      BY <2>1, <3>3, AwakeStepped DEF SpawnPick
    <3>4. CASE SpawnPush(t, k)
      <4>1. Target(k) # k
        BY <2>1, <3>4, PushKeepsPlaces
      <4>2. tpc'[k] = "count" /\ wpc' = wpc
        BY <3>4, <4>1 DEF SpawnPush, PoolTypeOK
      <4>3. QED
        BY <2>1, <4>2, AwakeAnnounced
    <3>5. CASE SpawnCount(t, k)
      BY <2>1, <3>5, AwakeStepped DEF SpawnCount
    <3>6. CASE SpawnNotify(t, k)
      <4> DEFINE asleep == {w \in Workers : wpc[w] = "sleep"}
      <4>1. \/ asleep = {} /\ wpc' = wpc
            \/ \E w \in asleep : wpc' = [wpc EXCEPT ![w] = "predicate"]
        BY <3>6 DEF SpawnNotify, WakeOne
      <4>2. CASE asleep = {} /\ wpc' = wpc
        BY <2>1, <4>2, AwakeNotified
      <4>3. CASE \E w \in asleep : wpc' = [wpc EXCEPT ![w] = "predicate"]
        <5>1. PICK w \in Workers : wpc' = [wpc EXCEPT ![w] = "predicate"]
          BY <4>3
        <5>2. QED
          BY <2>2, <5>1
      <4>4. QED
        BY <4>1, <4>2, <4>3
    <3>7. CASE AwaitPoll(t, k)
      <4>1. /\ tpc[k] \in {"step", "await"} /\ wpc' = wpc
            /\ \/ tpc' = [tpc EXCEPT ![k] = "step"]
               \/ tpc' = [tpc EXCEPT ![k] = "assistHint"]
        BY <3>7 DEF AwaitPoll, Unready
      <4>2. QED
        BY <2>1, <4>1, AwakeStepped
    <3>8. CASE AssistHint(t, k) \/ AssistAny(t, k)
      <4>1. tpc[k] \in {"assistHint", "assistAny"} /\ UNCHANGED <<ip, wpc>>
        BY <3>8, AssistCases DEF PlaceInv
      <4>2. CASE tpc' = tpc
        BY <2>1, <4>1, <4>2, AwakeKept
      <4>3. ASSUME NEW l \in {"assistAny", "blocked"}, tpc' = [tpc EXCEPT ![k] = l]
            PROVE  OneBlocking' /\ AwakeInv'
        BY <2>1, <4>1, <4>3, AwakeStepped
      <4>4. ASSUME NEW w \in Workers, NEW c, Takes(w, c), Assisted(t, k, c)
            PROVE  OneBlocking' /\ AwakeInv'
        <5>1. c \in Programs /\ tpc[c] = "queued"
          BY <2>1, <4>1, <4>4, TakesFacts, AssistedKeepsPlaces DEF Programs
        <5>2. /\ tpc'[k] = "await" /\ tpc'[c] = "popped"
              /\ \A j \in Programs \ {k, c} : tpc'[j] = tpc[j]
          BY <4>1, <4>4, <5>1 DEF Assisted, PoolTypeOK
        <5>3. /\ \A j \in Programs : tpc'[j] = "queued" => tpc[j] = "queued"
              /\ \A j \in Programs : tpc[j] \in Announced => tpc'[j] \in Announced
          BY <4>1, <5>1, <5>2
        <5>4. QED
          BY <2>1, <4>1, <5>3, AwakeKept DEF Programs
      <4>5. QED
        BY <3>8, <4>2, <4>3, <4>4, AssistCases DEF PlaceInv
    <3>9. CASE AwaitBlocked(t, k)
      BY <2>1, <3>9, AwakeStepped DEF AwaitBlocked
    <3>10. CASE BatchWait(t, k)
      BY <2>1, <3>10, AwakeStepped DEF BatchWait
    <3>11. QED
      BY <2>6, <3>1, <3>2, <3>3, <3>4, <3>5, <3>6, <3>7, <3>8, <3>9, <3>10 DEF TaskStep
  <2>7. CASE ShutdownStep(Main)
    <3> USE DEF Announced
    <3>1. Main \in Programs
      BY DEF Programs
    <3>2. CASE Shutdown(Main) \/ ShutdownJoin(Main)
      BY <2>1, <3>1, <3>2, AwakeStepped DEF Shutdown, ShutdownJoin
    <3>3. CASE ShutdownNotify(Main)
      <4>1. \A w \in Workers : wpc'[w] = IF wpc[w] = "sleep" THEN "predicate" ELSE wpc[w]
        BY <3>3 DEF ShutdownNotify, WakeAll
      <4>2. QED
        BY <2>1, <4>1, AwakeNotified
    <3>4. QED
      BY <2>7, <3>2, <3>3 DEF ShutdownStep
  <2>8. QED
    BY <1>2, <2>1, <2>3, <2>4, <2>5, <2>6, <2>7, AwakePredicate, AwakeBlock DEF PoolNext, WorkerStep
<1>3. QED
  BY <1>1, <1>2

-----------------------------------------------------------------------------
(* The threads and what they run *)

\* A worker that is not running an item has an empty call stack; the main
\* program is at the bottom of that of the main thread, and leaves when the
\* workers have and nothing is on top of it.
WorkerInv == \A w \in Workers : wpc[w] = "run" \/ stack[w] = <<>>
LeaveInv ==
    /\ stack[MainThread] # <<>> /\ stack[MainThread][1] = Main
    /\ tpc[Main] = "over" => Len(stack[MainThread]) = 1 /\ \A w \in Workers : wpc[w] = "exited"
ThreadInv == WorkerInv /\ LeaveInv

\* The main program leaves at an exit.
ExitInv ==
    tpc[Main] \in {"wakeAll", "join"} => ip[Main] <= Len(Script[Main]) /\ Op(Main).op = "exit"

\* The main thread is no worker.
LEMMA MainThreadFacts ==
  ASSUME PoolTypeOK
  PROVE  /\ MainThread \in Threads /\ MainThread \notin Workers
         /\ \A t \in Threads : t \in Workers \/ t = MainThread
<1>1. NumWorkers \in Nat
  BY WorkersFinite
<1>2. QED
  BY <1>1 DEF Threads, MainThread, Workers

\* The first state.
LEMMA ThreadInit == PoolInit => ThreadInv
<1> SUFFICES ASSUME PoolInit PROVE ThreadInv
  OBVIOUS
<1>1. PoolTypeOK
  BY TypeInit DEF TypeInv
<1>2. MainThread \in Threads /\ MainThread \notin Workers /\ Workers \subseteq Threads /\ Main \in Programs
  BY <1>1, MainThreadFacts DEF Threads, Programs
<1>3. stack[MainThread] = <<Main>> /\ \A w \in Workers : stack[w] = <<>>
  BY <1>2 DEF PoolInit
<1>4. tpc[Main] = "step"
  BY <1>2 DEF PoolInit
<1>5. QED
  BY <1>3, <1>4 DEF ThreadInv, WorkerInv, LeaveInv

\* Steps that leave the stacks alone, and nobody ceases to run or comes back.
LEMMA ThreadKept ==
  ASSUME ThreadInv, setup' = setup, stack' = stack,
         \A w \in Workers : wpc[w] \in {"run", "exited"} => wpc'[w] = wpc[w],
         \/ tpc'[Main] = "over" => tpc[Main] = "over"
         \/ Len(stack[MainThread]) = 1 /\ \A w \in Workers : wpc[w] = "exited"
  PROVE  ThreadInv'
<1>1. Workers' = Workers /\ MainThread' = MainThread
  BY DEF Workers, NumWorkers, MainThread
<1>2. QED
  BY <1>1 DEF ThreadInv, WorkerInv, LeaveInv

\* A thread that begins a task is a worker that looked for one, or assists.
LEMMA ThreadBegun ==
  ASSUME PoolTypeOK, ThreadInv, setup' = setup, NEW t \in Threads, NEW c \in Tasks,
         stack' = [stack EXCEPT ![t] = Append(@, c)],
         t \in Workers => wpc[t] # "exited" /\ wpc'[t] = "run",
         \A w \in Workers : w # t => wpc'[w] = wpc[w],
         tpc'[Main] # "over"
  PROVE  ThreadInv'
<1>1. Workers' = Workers /\ Workers \subseteq Threads /\ MainThread \in Threads /\ MainThread \notin Workers
  BY MainThreadFacts DEF Workers, NumWorkers, Threads
<1>2. stack[t] \in Seq(Programs) /\ c \in Programs
  BY DEF PoolTypeOK, Programs
<1>3. stack'[t] = Append(stack[t], c) /\ \A u \in Threads \ {t} : stack'[u] = stack[u]
  BY DEF PoolTypeOK
<1>4. WorkerInv'
  BY <1>1, <1>3 DEF ThreadInv, WorkerInv
<1>5. stack'[MainThread] # <<>> /\ stack'[MainThread][1] = Main
  <2>1. CASE t = MainThread
    <3>1. Len(stack[t]) \in Nat \ {0} /\ stack[t][1] = Main
      BY <1>2, <2>1, EmptySeq DEF ThreadInv, LeaveInv
    <3>2. Len(stack'[t]) = Len(stack[t]) + 1 /\ stack'[t][1] = stack[t][1] /\ stack'[t] \in Seq(Programs)
      BY <1>2, <1>3, <3>1, AppendProperties
    <3>3. QED
      BY <2>1, <3>1, <3>2
  <2>2. CASE t # MainThread
    BY <1>1, <1>3, <2>2 DEF ThreadInv, LeaveInv
  <2>3. QED
    BY <2>1, <2>2
<1>6. QED
  BY <1>1, <1>4, <1>5 DEF ThreadInv, LeaveInv

\* A thread runs what it has begun: a worker is then in run_item, and the main
\* thread returns from an item to the main program at last.
LEMMA RunningThread ==
  ASSUME PoolTypeOK, ThreadInv, NEW t \in Threads, NEW k \in Programs, Running(t, k)
  PROVE  /\ t \in Workers => wpc[t] = "run"
         /\ tpc[Main] = "over" => k = Main
         /\ t = MainThread /\ k # Main => Len(stack[t]) > 1
<1>1. t \in Workers => wpc[t] = "run"
  BY DEF Running, ThreadInv, WorkerInv
<1>2. ASSUME tpc[Main] = "over" PROVE k = Main
  <2>1. t = MainThread
    BY <1>1, <1>2, MainThreadFacts DEF ThreadInv, LeaveInv
  <2>2. QED
    BY <1>2, <2>1 DEF Running, Top, ThreadInv, LeaveInv
<1>3. t = MainThread /\ k # Main => Len(stack[t]) > 1
  <2>1. Len(stack[t]) \in Nat \ {0}
    BY RunningFacts
  <2>2. QED
    BY <2>1 DEF Running, Top, ThreadInv, LeaveInv
<1>4. QED
  BY <1>1, <1>2, <1>3

\* run_item returns.
LEMMA ThreadReturned ==
  ASSUME PoolTypeOK, MainInv, ThreadInv, setup' = setup, NEW t \in Threads, NEW k \in Programs, RunTally(t, k)
  PROVE  ThreadInv'
<1> DEFINE n == Len(stack[t])
<1>1. Workers' = Workers /\ Workers \subseteq Threads /\ MainThread \in Threads /\ MainThread \notin Workers
  BY MainThreadFacts DEF Workers, NumWorkers, Threads
<1>2. Running(t, k) /\ k # Main /\ tpc' = [tpc EXCEPT ![k] = "over"]
  BY DEF RunTally, Step, MainInv
<1>3. stack[t] \in Seq(Programs) /\ n \in Nat \ {0}
  BY <1>2, RunningFacts
<1>4. stack'[t] = Front(stack[t]) /\ \A u \in Threads \ {t} : stack'[u] = stack[u]
  BY DEF RunTally, PoolTypeOK
<1>5. Len(stack'[t]) = n - 1 /\ stack'[t] \in Seq(Programs) /\ \A i \in 1..(n - 1) : stack'[t][i] = stack[t][i]
  <2>1. stack[t] # <<>>
    BY <1>3, EmptySeq
  <2>2. QED
    BY <1>3, <1>4, <2>1, FrontFacts
<1>6. wpc' = IF n = 1 THEN [wpc EXCEPT ![t] = "check"] ELSE wpc
  BY DEF RunTally
<1>7. t \in Workers => wpc[t] = "run"
  BY <1>2, RunningThread
<1>8. ASSUME NEW w \in Workers PROVE wpc'[w] = "run" \/ stack'[w] = <<>>
  <2>1. CASE w = t
    <3>1. CASE n = 1
      BY <1>5, <2>1, <3>1, EmptySeq
    <3>2. CASE n # 1
      BY <1>6, <1>7, <2>1, <3>2
    <3>3. QED
      BY <3>1, <3>2
  <2>2. CASE w # t
    <3>1. wpc'[w] = wpc[w] /\ stack'[w] = stack[w]
      BY <1>1, <1>4, <1>6, <2>2 DEF PoolTypeOK
    <3>2. QED
      BY <3>1 DEF ThreadInv, WorkerInv
  <2>3. QED
    BY <2>1, <2>2
<1>9. stack'[MainThread] # <<>> /\ stack'[MainThread][1] = Main
  <2>1. CASE t = MainThread
    <3>1. n > 1
      BY <1>2, <2>1, RunningThread
    <3>2. 1 \in 1..(n - 1)
      BY <1>3, <3>1
    <3>3. Len(stack'[t]) > 0 /\ stack'[t][1] = stack[t][1]
      BY <1>3, <1>5, <3>1, <3>2
    <3>4. QED
      BY <2>1, <3>3 DEF ThreadInv, LeaveInv
  <2>2. CASE t # MainThread
    BY <1>1, <1>4, <2>2 DEF ThreadInv, LeaveInv
  <2>3. QED
    BY <2>1, <2>2
<1>10. tpc'[Main] # "over"
  BY <1>2, RunningThread DEF PoolTypeOK
<1>11. QED
  BY <1>1, <1>8, <1>9, <1>10 DEF ThreadInv, WorkerInv, LeaveInv

\* What a worker that looks for a task does: nothing to it, or it takes one.
LEMMA WorkerTakes ==
  ASSUME PoolTypeOK, NEW w \in Workers, PopLocal(w) \/ StealRemote(w)
  PROVE  \/ UNCHANGED <<stack, tpc, ip>>
         \/ /\ \E v \in Workers : \E c : Takes(v, c) /\ Begin(w, c)
            /\ wpc' = [wpc EXCEPT ![w] = "run"] /\ ip' = ip
<1> USE DEF taskVars
<1>1. CASE PopLocal(w)
  <2> DEFINE c == deque[w][Len(deque[w])]
  <2>1. CASE deque[w] = <<>>
    BY <1>1, <2>1 DEF PopLocal
  <2>2. CASE deque[w] # <<>>
    <3>1. Takes(w, c) /\ Begin(w, c) /\ wpc' = [wpc EXCEPT ![w] = "run"] /\ ip' = ip
      BY <1>1, <2>2 DEF PopLocal, Takes
    <3> HIDE DEF c
    <3>2. QED
      BY <3>1
  <2>3. QED
    BY <2>1, <2>2
<1>2. CASE StealRemote(w)
  <2> DEFINE v == (w + offset[w]) % NumWorkers
             c == Head(deque[v])
  <2>1. CASE offset[w] = NumWorkers \/ deque[v] = <<>>
    BY <1>2, <2>1 DEF StealRemote
  <2>2. CASE offset[w] # NumWorkers /\ deque[v] # <<>>
    <3>1. v \in Workers
      BY VictimIsWorker
    <3>2. Takes(v, c) /\ Begin(w, c) /\ wpc' = [wpc EXCEPT ![w] = "run"] /\ ip' = ip
      BY <1>2, <2>2 DEF StealRemote, Takes
    <3> HIDE DEF c, v
    <3>3. QED
      BY <3>1, <3>2
  <2>3. QED
    BY <2>1, <2>2
<1>3. QED
  BY <1>1, <1>2

\* When the main thread runs the main program, nothing is on top of it.
LEMMA MainAlone ==
  ASSUME PoolTypeOK, PlaceInv, ThreadInv, Running(MainThread, Main)
  PROVE  Len(stack[MainThread]) = 1
<1>1. MainThread \in Threads /\ Main \in Programs
  BY MainThreadFacts DEF Programs
<1>2. /\ Len(stack[MainThread]) \in Nat \ {0}
      /\ stack[MainThread][1] = Main /\ stack[MainThread][Len(stack[MainThread])] = Main
  BY <1>1, RunningFacts DEF Running, Top, ThreadInv, LeaveInv
<1>3. 1 \in 1..Len(stack[MainThread]) /\ Len(stack[MainThread]) \in 1..Len(stack[MainThread])
  BY <1>2
<1>4. \A i, j \in 1..Len(stack[MainThread]) : stack[MainThread][i] = stack[MainThread][j] => i = j
  BY <1>1 DEF PlaceInv, StackInv
<1>5. QED
  BY <1>2, <1>3, <1>4

\* Every step keeps it.
LEMMA ThreadStep == PoolTypeOK /\ PlaceInv /\ ThreadInv /\ [PoolNext]_poolVars => ThreadInv'
<1> SUFFICES ASSUME PoolTypeOK, PlaceInv, ThreadInv, [PoolNext]_poolVars PROVE ThreadInv'
  OBVIOUS
<1>0. Main \notin Tasks /\ Main \in Programs /\ MainInv /\ OpInv
  BY SchedulerAssumption DEF Programs, PlaceInv
<1> USE DEF queueVars, counters, workerVars, taskVars, Step, NextOp
<1>1. CASE UNCHANGED poolVars
  BY <1>1, ThreadKept DEF poolVars, threadVars
<1>2. CASE PoolNext
  <2>1. setup' = setup
    BY <1>2 DEF PoolNext
  <2>2. ASSUME NEW w \in Workers, WorkerCheck(w) \/ Predicate(w) \/ Block(w) \/ SpuriousWakeup(w)
        PROVE  ThreadInv'
    <3>1. /\ stack' = stack /\ tpc' = tpc /\ wpc[w] \notin {"run", "exited"}
          /\ \E l : wpc' = [wpc EXCEPT ![w] = l]
      BY <2>2 DEF WorkerCheck, Predicate, Block, SpuriousWakeup
    <3>2. \A v \in Workers : wpc[v] \in {"run", "exited"} => wpc'[v] = wpc[v]
      BY <3>1 DEF PoolTypeOK
    <3>3. QED
      BY <2>1, <3>1, <3>2, ThreadKept
  <2>3. ASSUME NEW w \in Workers, PopLocal(w) \/ StealRemote(w) PROVE ThreadInv'
    <3>1. wpc[w] \in {"pop", "steal"} /\ w \in Threads
      BY <2>3 DEF PopLocal, StealRemote, Threads
    <3>2. CASE UNCHANGED <<stack, tpc>>
      <4>1. wpc' = wpc \/ \E l : wpc' = [wpc EXCEPT ![w] = l]
        BY <2>3 DEF PopLocal, StealRemote
      <4>2. \A v \in Workers : wpc[v] \in {"run", "exited"} => wpc'[v] = wpc[v]
        BY <3>1, <4>1 DEF PoolTypeOK
      <4>3. QED
        BY <2>1, <3>2, <4>2, ThreadKept
    <3>3. ASSUME NEW v \in Workers, NEW c, Takes(v, c), Begin(w, c), wpc' = [wpc EXCEPT ![w] = "run"]
          PROVE  ThreadInv'
      <4>1. c \in Tasks
        BY <3>3, TakesFacts
      <4>2. tpc'[Main] = tpc[Main] /\ tpc[Main] # "over"
        BY <1>0, <3>1, <3>3, <4>1 DEF Begin, PoolTypeOK, ThreadInv, LeaveInv
      <4>3. /\ stack' = [stack EXCEPT ![w] = Append(@, c)] /\ wpc'[w] = "run"
            /\ \A x \in Workers : x # w => wpc'[x] = wpc[x]
        BY <3>3 DEF Begin, PoolTypeOK
      <4>4. QED
        BY <2>1, <3>1, <4>1, <4>2, <4>3, ThreadBegun
    <3>4. QED
      BY <2>3, <3>2, <3>3, WorkerTakes
  <2>4. ASSUME NEW t \in Threads, NEW k \in Programs, TaskStep(t, k) PROVE ThreadInv'
    <3>1. CASE RunTally(t, k)
      BY <1>0, <2>1, <3>1, ThreadReturned
    <3>2. CASE AssistHint(t, k) \/ AssistAny(t, k)
      <4>1. /\ tpc[k] \in {"assistHint", "assistAny"} /\ wpc' = wpc
            /\ \/ UNCHANGED <<deque, stack, tpc, runs>>
               \/ /\ \E l \in {"assistAny", "blocked"} : tpc' = [tpc EXCEPT ![k] = l]
                  /\ UNCHANGED <<deque, stack, runs>>
               \/ \E w \in Workers : \E c : Takes(w, c) /\ Assisted(t, k, c)
        BY <1>0, <3>2, AssistCases
      <4>2. CASE UNCHANGED stack
        <5>1. tpc'[Main] = "over" => tpc[Main] = "over"
          <6>1. tpc' = tpc \/ \E l \in {"assistAny", "blocked"} : tpc' = [tpc EXCEPT ![k] = l]
                  \/ \E w \in Workers : \E c : Takes(w, c) /\ Assisted(t, k, c)
            BY <4>1
          <6>2. ASSUME NEW w \in Workers, NEW c, Takes(w, c), Assisted(t, k, c)
                PROVE  tpc'[Main] = "over" => tpc[Main] = "over"
            BY <1>0, <6>2, TakesFacts DEF Assisted, PoolTypeOK
          <6>3. QED
            BY <1>0, <6>1, <6>2 DEF PoolTypeOK
        <5>2. QED
          BY <2>1, <4>1, <4>2, <5>1, ThreadKept
      <4>3. ASSUME NEW w \in Workers, NEW c, Takes(w, c), Assisted(t, k, c) PROVE ThreadInv'
        <5>1. Running(t, k)
          BY <3>2 DEF AssistHint, AssistAny
        <5>2. c \in Tasks
          BY <4>3, TakesFacts
        <5>3. t \in Workers => wpc[t] = "run"
          BY <5>1, RunningThread
        <5>4. tpc'[Main] # "over"
          <6>1. tpc[Main] # "over"
            BY <4>1, <5>1, RunningThread
          <6>2. QED
            BY <1>0, <4>3, <5>2, <6>1 DEF Assisted, PoolTypeOK
        <5>5. QED
          BY <2>1, <4>1, <4>3, <5>2, <5>3, <5>4, ThreadBegun DEF Assisted
      <4>4. QED
        BY <4>1, <4>2, <4>3
    <3>3. CASE SpawnPush(t, k)
      <4>1. stack' = stack /\ wpc' = wpc /\ tpc' = [tpc EXCEPT ![k] = "count", ![Target(k)] = "queued"]
        BY <3>3 DEF SpawnPush
      <4>2. tpc'[Main] = "over" => tpc[Main] = "over"
        BY <1>0, <4>1 DEF PoolTypeOK
      <4>3. QED
        BY <2>1, <4>1, <4>2, ThreadKept
    <3>4. CASE SpawnNotify(t, k)
      <4>1. stack' = stack /\ tpc' = [tpc EXCEPT ![k] = "step"]
        BY <3>4 DEF SpawnNotify
      <4>2. \A w \in Workers : wpc[w] \in {"run", "exited"} => wpc'[w] = wpc[w]
        BY <3>4 DEF SpawnNotify, WakeOne, PoolTypeOK
      <4>3. tpc'[Main] = "over" => tpc[Main] = "over"
        BY <1>0, <4>1 DEF PoolTypeOK
      <4>4. QED
        BY <2>1, <4>1, <4>2, <4>3, ThreadKept
    <3>5. CASE \/ RunStart(t, k) \/ RunFinish(t, k) \/ SpawnPick(t, k) \/ SpawnCount(t, k)
               \/ AwaitPoll(t, k) \/ AwaitBlocked(t, k) \/ BatchWait(t, k)
      <4>1. stack' = stack /\ wpc' = wpc /\ \E l \in TaskPC \ {"over"} : tpc' = [tpc EXCEPT ![k] = l]
        BY <3>5 DEF RunStart, RunFinish, SpawnPick, SpawnCount, AwaitPoll, Unready, AwaitBlocked,
                    BatchWait, TaskPC
      <4>2. tpc'[Main] = "over" => tpc[Main] = "over"
        BY <1>0, <4>1 DEF PoolTypeOK
      <4>3. QED
        BY <2>1, <4>1, <4>2, ThreadKept
    <3>6. QED
      BY <2>4, <3>1, <3>2, <3>3, <3>4, <3>5 DEF TaskStep
  <2>5. CASE Shutdown(Main)
    <3>1. stack' = stack /\ wpc' = wpc /\ tpc'[Main] = "wakeAll"
      BY <1>0, <2>5 DEF Shutdown, PoolTypeOK
    <3>2. QED
      BY <2>1, <3>1, ThreadKept
  <2>6. CASE ShutdownNotify(Main)
    <3>1. stack' = stack /\ tpc'[Main] = "join"
      BY <1>0, <2>6 DEF ShutdownNotify, PoolTypeOK
    <3>2. \A w \in Workers : wpc[w] \in {"run", "exited"} => wpc'[w] = wpc[w]
      BY <2>6 DEF ShutdownNotify, WakeAll
    <3>3. QED
      BY <2>1, <3>1, <3>2, ThreadKept
  <2>7. CASE ShutdownJoin(Main)
    <3>1. Running(MainThread, Main) /\ stack' = stack /\ wpc' = wpc /\ \A w \in Workers : wpc[w] = "exited"
      BY <2>7 DEF ShutdownJoin
    <3>2. Len(stack[MainThread]) = 1
      BY <3>1, MainAlone
    <3>3. QED
      BY <2>1, <3>1, <3>2, ThreadKept
  <2>8. QED
    BY <1>2, <2>2, <2>3, <2>4, <2>5, <2>6, <2>7 DEF PoolNext, WorkerStep, ShutdownStep
<1>3. QED
  BY <1>1, <1>2

-----------------------------------------------------------------------------
(* Refinement *)

\* The labels of a task that is running and is not past its operation.
Busy == {"popped", "step", "push", "await", "assistHint", "assistAny", "blocked",
         "finish", "stop", "wakeAll", "join"}

\* What the mapping makes of the labels.
LEMMA TaskStates ==
  ASSUME PoolTypeOK, NEW k \in Programs
  PROVE  /\ TaskState(k) \in {"unborn", "queued", "running", "done"}
         /\ TaskState(k) = "unborn" <=> tpc[k] = "unborn"
         /\ TaskState(k) = "queued" <=> tpc[k] = "queued"
         /\ TaskState(k) = "done" <=> Ready(k)
         /\ TaskState(k) = "running" <=> tpc[k] \in Busy \cup {"count", "notify"}
         /\ tpc[k] \in Busy => Position(k) = ip[k]
<1>1. tpc[k] \in TaskPC
  BY DEF PoolTypeOK
<1>2. QED
  BY <1>1 DEF TaskState, Position, Ready, Busy, TaskPC

\* The mapped state, task by task.
LEMMA ForkValues ==
  /\ \A k \in Programs : [j \in Programs |-> TaskState(j)][k] = TaskState(k)
  /\ \A k \in Programs : [j \in Programs |-> Position(j)][k] = Position(k)
  /\ Tasks \subseteq Programs /\ Main \in Programs /\ Main \notin Tasks
  /\ Programs = Tasks \cup {Main}
BY SchedulerAssumption DEF Programs

\* A step that no task's state or position shows is a stutter.
LEMMA ForkKept ==
  ASSUME setup' = setup,
         \A j \in Programs : TaskState(j)' = TaskState(j) /\ Position(j)' = Position(j)
  PROVE  UNCHANGED Forks!forkVars
BY DEF Forks!forkVars, Script

\* A task whose labels do not show is at the same operation.
LEMMA ForkStutter ==
  ASSUME PoolTypeOK, setup' = setup, ip' = ip, NEW k \in Programs, NEW l \in Busy, tpc[k] \in Busy,
         tpc' = [tpc EXCEPT ![k] = l]
  PROVE  UNCHANGED Forks!forkVars
<1>1. \A j \in Programs : tpc'[j] = IF j = k THEN l ELSE tpc[j]
  BY DEF PoolTypeOK
<1>2. ASSUME NEW j \in Programs PROVE TaskState(j)' = TaskState(j) /\ Position(j)' = Position(j)
  <2>1. CASE j = k
    BY <1>1, <2>1 DEF TaskState, Position, Ready, Busy
  <2>2. CASE j # k
    BY <1>1, <2>2 DEF TaskState, Position, Ready
  <2>3. QED
    BY <2>1, <2>2
<1>3. QED
  BY <1>2, ForkKept

\* The await or the batch of task k has been waited for.
LEMMA ForkJoined ==
  ASSUME PoolTypeOK, setup' = setup, NEW k \in Programs, tpc[k] \in Busy, NextOp(k),
         ip[k] <= Len(Script[k]), Op(k).op \in {"await", "batch"},
         \A c \in Op(k).tasks : c \in Programs /\ Ready(c)
  PROVE  Forks!ForkNext
<1> DEFINE st == [j \in Programs |-> TaskState(j)]
           pos == [j \in Programs |-> Position(j)]
<1>1. \A j \in Programs : /\ tpc'[j] = IF j = k THEN "step" ELSE tpc[j]
                          /\ ip'[j] = IF j = k THEN ip[k] + 1 ELSE ip[j]
  BY DEF PoolTypeOK, NextOp
<1>2. ASSUME NEW j \in Programs
      PROVE  TaskState(j)' = TaskState(j) /\ Position(j)' = IF j = k THEN Position(k) + 1 ELSE Position(j)
  <2>1. CASE j = k
    BY <1>1, <2>1 DEF TaskState, Position, Ready, Busy
  <2>2. CASE j # k
    BY <1>1, <2>2 DEF TaskState, Position, Ready
  <2>3. QED
    BY <2>1, <2>2
<1>3. st' = st /\ pos' = [pos EXCEPT ![k] = @ + 1]
  BY <1>2
<1>4. st[k] = "running" /\ pos[k] = ip[k] /\ \A c \in Op(k).tasks : st[c] = "done"
  BY TaskStates
<1>5. Script' = Script
  BY DEF Script
<1> HIDE DEF st, pos
<1>6. Forks!JoinTasks(k)
  BY <1>3, <1>4 DEF Forks!JoinTasks, Forks!AtOp, Forks!Named, Forks!Proceed, Op, st, pos
<1>7. QED
  BY <1>5, <1>6, ForkValues DEF Forks!ForkNext

\* Somebody takes task c from a queue and begins it.
LEMMA ForkBegun ==
  ASSUME PoolTypeOK, setup' = setup, ip' = ip, NEW c \in Tasks, tpc[c] = "queued", tpc'[c] = "popped",
         \A j \in Programs \ {c} : tpc'[j] = tpc[j] \/ (tpc[j] \in Busy /\ tpc'[j] \in Busy),
         tpc[Main] # "over", MainInv
  PROVE  Forks!ForkNext
<1> DEFINE st == [j \in Programs |-> TaskState(j)]
           pos == [j \in Programs |-> Position(j)]
<1>1. ASSUME NEW j \in Programs
      PROVE  TaskState(j)' = (IF j = c THEN "running" ELSE TaskState(j)) /\ Position(j)' = Position(j)
  <2>1. CASE j = c
    BY <2>1 DEF TaskState, Position, Ready
  <2>2. CASE j # c /\ tpc'[j] = tpc[j]
    BY <2>2 DEF TaskState, Position, Ready
  <2>3. CASE j # c /\ tpc[j] \in Busy /\ tpc'[j] \in Busy
    BY <2>3 DEF TaskState, Position, Ready, Busy
  <2>4. QED
    BY <2>1, <2>2, <2>3
<1>2. st' = [st EXCEPT ![c] = "running"] /\ pos' = pos
  BY <1>1
<1>3. st[c] = "queued" /\ st[Main] # "done"
  BY TaskStates, ForkValues DEF MainInv, Ready
<1>4. Script' = Script
  BY DEF Script
<1> HIDE DEF st, pos
<1>5. Forks!BeginTask(c)
  BY <1>2, <1>3 DEF Forks!BeginTask, st, pos
<1>6. QED
  BY <1>4, <1>5, ForkValues DEF Forks!ForkNext

\* The body of task k is over.
LEMMA ForkEnded ==
  ASSUME PoolTypeOK, setup' = setup, NEW t \in Threads, NEW k \in Programs, RunFinish(t, k)
  PROVE  Forks!ForkNext
<1> DEFINE st == [j \in Programs |-> TaskState(j)]
           pos == [j \in Programs |-> Position(j)]
<1>1. /\ k \in Tasks /\ tpc[k] = "step" /\ ip[k] > Len(Script[k]) /\ ip' = ip
      /\ \A j \in Programs : tpc'[j] = IF j = k THEN "tally" ELSE tpc[j]
  BY DEF RunFinish, Step, Programs, PoolTypeOK
<1>2. ASSUME NEW j \in Programs
      PROVE  TaskState(j)' = (IF j = k THEN "done" ELSE TaskState(j)) /\ Position(j)' = Position(j)
  BY <1>1 DEF TaskState, Position, Ready
<1>3. st' = [st EXCEPT ![k] = "done"] /\ pos' = pos
  BY <1>2
<1>4. st[k] = "running" /\ pos[k] = ip[k]
  BY <1>1, TaskStates DEF Busy
<1>5. Script' = Script
  BY DEF Script
<1> HIDE DEF st, pos
<1>6. Forks!EndTask(k)
  BY <1>1, <1>3, <1>4 DEF Forks!EndTask, st, pos
<1>7. QED
  BY <1>1, <1>5, <1>6, ForkValues DEF Forks!ForkNext

\* Task k pushes the task it spawns.
LEMMA ForkForked ==
  ASSUME PoolTypeOK, OpInv, setup' = setup, NEW t \in Threads, NEW k \in Programs, SpawnPush(t, k)
  PROVE  Forks!ForkNext
<1> DEFINE st == [j \in Programs |-> TaskState(j)]
           pos == [j \in Programs |-> Position(j)]
           c == Target(k)
<1>1. /\ tpc[k] = "push" /\ ip' = ip
      /\ ip[k] <= Len(Script[k]) /\ Op(k).op = "spawn" /\ tpc[c] = "unborn"
  BY DEF SpawnPush, OpInv
<1>2. c \in Tasks /\ c \in Op(k).tasks /\ c # k
  BY <1>1, OpFacts DEF Spawn
<1> HIDE DEF c
<1>3. \A j \in Programs : tpc'[j] = IF j = k THEN "count" ELSE IF j = c THEN "queued" ELSE tpc[j]
  BY <1>2 DEF SpawnPush, PoolTypeOK, c
<1>4. ASSUME NEW j \in Programs
      PROVE  /\ TaskState(j)' = IF j = c THEN "queued" ELSE TaskState(j)
             /\ Position(j)' = IF j = k THEN Position(k) + 1 ELSE Position(j)
  BY <1>1, <1>2, <1>3 DEF TaskState, Position, Ready
<1>5. st' = [st EXCEPT ![c] = "queued"] /\ pos' = [pos EXCEPT ![k] = @ + 1]
  BY <1>4
<1>6. st[k] = "running" /\ pos[k] = ip[k] /\ st[c] = "unborn"
  BY <1>1, <1>2, TaskStates, ForkValues DEF Busy, c
<1>7. Script' = Script
  BY DEF Script
<1> HIDE DEF st, pos
<1>8. Forks!ForkTask(k)
  BY <1>1, <1>2, <1>5, <1>6
     DEF Forks!ForkTask, Forks!AtOp, Forks!Named, Forks!Proceed, Op, st, pos
<1>9. QED
  BY <1>7, <1>8, ForkValues DEF Forks!ForkNext

\* When the workers have been joined, no task is on a call stack.
LEMMA NobodyRuns ==
  ASSUME PoolTypeOK, PlaceInv, ThreadInv, Running(MainThread, Main), \A w \in Workers : wpc[w] = "exited",
         NEW k \in Tasks
  PROVE  tpc[k] \notin Begun
<1> SUFFICES ASSUME tpc[k] \in Begun PROVE FALSE
  OBVIOUS
<1>1. PICK t \in Threads : \E i \in 1..Len(stack[t]) : stack[t][i] = k
  BY DEF PlaceInv, StackInv
<1>2. PICK i \in 1..Len(stack[t]) : stack[t][i] = k
  BY <1>1
<1>3. t = MainThread
  <2>1. t \in Workers => stack[t] = <<>>
    BY DEF ThreadInv, WorkerInv
  <2>2. QED
    BY <1>2, <2>1, MainThreadFacts, EmptySeq
<1>4. Len(stack[t]) = 1 /\ stack[t][1] = Main
  BY <1>3, MainAlone DEF ThreadInv, LeaveInv
<1>5. QED
  BY <1>2, <1>4, ForkValues

\* The main program leaves.
LEMMA ForkLeft ==
  ASSUME PoolTypeOK, PlaceInv, ThreadInv, ExitInv, setup' = setup, ShutdownJoin(Main)
  PROVE  Forks!ForkNext
<1> DEFINE st == [j \in Programs |-> TaskState(j)]
           pos == [j \in Programs |-> Position(j)]
<1>1. /\ tpc[Main] = "join" /\ ip' = ip /\ Running(MainThread, Main) /\ \A w \in Workers : wpc[w] = "exited"
      /\ \A j \in Programs : tpc'[j] = IF j = Main THEN "over" ELSE tpc[j]
  BY DEF ShutdownJoin, Step, PoolTypeOK, taskVars
<1>2. ip[Main] <= Len(Script[Main]) /\ Op(Main).op = "exit"
  BY <1>1 DEF ExitInv
<1>3. ASSUME NEW j \in Programs
      PROVE  TaskState(j)' = (IF j = Main THEN "done" ELSE TaskState(j)) /\ Position(j)' = Position(j)
  BY <1>1 DEF TaskState, Position, Ready
<1>4. st' = [st EXCEPT ![Main] = "done"] /\ pos' = pos
  BY <1>3
<1>5. st[Main] = "running" /\ pos[Main] = ip[Main]
  BY <1>1, TaskStates, ForkValues DEF Busy
<1>6. \A k \in Tasks : st[k] # "running"
  <2> SUFFICES ASSUME NEW k \in Tasks PROVE TaskState(k) # "running"
    BY ForkValues
  <2>1. tpc[k] \notin Begun
    BY <1>1, NobodyRuns
  <2>2. QED
    BY <2>1, TaskStates, ForkValues DEF Begun, Outside, Busy, TaskPC
<1>7. Script' = Script
  BY DEF Script
<1> HIDE DEF st, pos
<1>8. Forks!Leave
  BY <1>2, <1>4, <1>5, <1>6 DEF Forks!Leave, Forks!AtOp, Op, st, pos
<1>9. QED
  BY <1>7, <1>8 DEF Forks!ForkNext

\* A task that is taken from a queue was queued.
LEMMA TakenQueued ==
  ASSUME PoolTypeOK, QueueInv, NEW v \in Workers, NEW c, Takes(v, c)
  PROVE  c \in Tasks /\ tpc[c] = "queued"
<1>1. c \in Tasks /\ Len(deque[v]) \in Nat \ {0} /\ \E i \in 1..Len(deque[v]) : c = deque[v][i]
  BY TakesFacts
<1>2. QED
  BY <1>1 DEF QueueInv

\* Steps that do not begin the exit.
LEMMA ExitKept ==
  ASSUME ExitInv, setup' = setup,
         tpc'[Main] \in {"wakeAll", "join"} => tpc[Main] \in {"wakeAll", "join"} /\ ip'[Main] = ip[Main]
  PROVE  ExitInv'
BY DEF ExitInv, Op, Script

\* Every step keeps ExitInv and is a step of the fork-join program, or none.
LEMMA ForkStep ==
  PoolTypeOK /\ PlaceInv /\ ThreadInv /\ ExitInv /\ [PoolNext]_poolVars =>
    ExitInv' /\ [Forks!ForkNext]_(Forks!forkVars)
<1> SUFFICES ASSUME PoolTypeOK, PlaceInv, ThreadInv, ExitInv, [PoolNext]_poolVars
             PROVE  ExitInv' /\ [Forks!ForkNext]_(Forks!forkVars)
  OBVIOUS
<1> DEFINE Same == UNCHANGED Forks!forkVars
<1>0. Main \notin Tasks /\ Main \in Programs /\ MainInv /\ OpInv
  BY SchedulerAssumption DEF Programs, PlaceInv
<1> USE DEF queueVars, counters, workerVars, taskVars, Step
<1>i. ASSUME UNCHANGED <<setup, tpc, ip>> PROVE ExitInv' /\ Same
  <2>1. \A j \in Programs : TaskState(j)' = TaskState(j) /\ Position(j)' = Position(j)
    BY <1>i DEF TaskState, Position, Ready
  <2>2. QED
    BY <1>i, <2>1, ExitKept, ForkKept
<1>1. CASE UNCHANGED poolVars
  BY <1>1, <1>i DEF poolVars, threadVars
<1>2. CASE PoolNext
  <2>1. setup' = setup
    BY <1>2 DEF PoolNext
  <2> HIDE DEF Same
  <2>2. ASSUME NEW w \in Workers, WorkerCheck(w) \/ Predicate(w) \/ Block(w) \/ SpuriousWakeup(w)
        PROVE  ExitInv' /\ Same
    BY <2>1, <2>2, <1>i DEF WorkerCheck, Predicate, Block, SpuriousWakeup
  <2>b. ASSUME NEW v \in Workers, NEW c, Takes(v, c), ip' = ip, tpc[Main] # "over",
               tpc'[c] = "popped",
               \A j \in Programs \ {c} : tpc'[j] = tpc[j] \/ (tpc[j] \in Busy /\ tpc'[j] = "await")
        PROVE  ExitInv' /\ Forks!ForkNext
    <3>1. c \in Tasks /\ tpc[c] = "queued"
      BY <1>0, <2>b, TakenQueued DEF PlaceInv
    <3>2. \A j \in Programs \ {c} : tpc'[j] = tpc[j] \/ (tpc[j] \in Busy /\ tpc'[j] \in Busy)
      BY <2>b DEF Busy
    <3>3. Forks!ForkNext
      BY <1>0, <2>1, <2>b, <3>1, <3>2, ForkBegun
    <3>4. tpc'[Main] \in {"wakeAll", "join"} => tpc[Main] \in {"wakeAll", "join"}
      BY <1>0, <2>b, <3>1
    <3>5. QED
      BY <2>1, <2>b, <3>3, <3>4, ExitKept
  <2>3. ASSUME NEW w \in Workers, PopLocal(w) \/ StealRemote(w)
        PROVE  ExitInv' /\ (Same \/ Forks!ForkNext)
    <3>1. CASE UNCHANGED <<stack, tpc, ip>>
      BY <1>i, <2>1, <3>1
    <3>2. ASSUME NEW v \in Workers, NEW c, Takes(v, c), Begin(w, c), ip' = ip
          PROVE  ExitInv' /\ Forks!ForkNext
      <4>1. c \in Tasks
        BY <3>2, TakesFacts
      <4>2. /\ tpc'[c] = "popped"
            /\ \A j \in Programs \ {c} : tpc'[j] = tpc[j] \/ (tpc[j] \in Busy /\ tpc'[j] = "await")
        BY <3>2, <4>1 DEF Begin, PoolTypeOK, Programs
      <4>3. tpc[Main] # "over"
        BY <2>3 DEF PopLocal, StealRemote, ThreadInv, LeaveInv
      <4>4. QED
        BY <2>b, <3>2, <4>1, <4>2, <4>3
    <3>3. QED
      BY <2>3, <3>1, <3>2, WorkerTakes
  <2>4. ASSUME NEW t \in Threads, NEW k \in Programs, TaskStep(t, k)
        PROVE  ExitInv' /\ (Same \/ Forks!ForkNext)
    <3>a. ASSUME NEW l \in Busy \ {"wakeAll", "join"}, tpc[k] \in Busy, tpc' = [tpc EXCEPT ![k] = l], ip' = ip
          PROVE  ExitInv' /\ Same
      <4>1. tpc'[Main] \in {"wakeAll", "join"} => tpc[Main] \in {"wakeAll", "join"}
        BY <1>0, <3>a DEF PoolTypeOK
      <4>2. Same
        BY <2>1, <3>a, ForkStutter DEF Same
      <4>3. QED
        BY <2>1, <3>a, <4>1, <4>2, ExitKept
    <3>b. ASSUME NextOp(k), tpc[k] \notin {"wakeAll", "join"} PROVE ExitInv'
      <4>1. tpc'[Main] \in {"wakeAll", "join"} => tpc[Main] \in {"wakeAll", "join"} /\ ip'[Main] = ip[Main]
        BY <1>0, <3>b DEF NextOp, PoolTypeOK
      <4>2. QED
        BY <2>1, <4>1, ExitKept
    <3>c. ASSUME NEW l, l \notin {"wakeAll", "join"}, tpc' = [tpc EXCEPT ![k] = l], ip' = ip PROVE ExitInv'
      <4>1. tpc'[Main] \in {"wakeAll", "join"} => tpc[Main] \in {"wakeAll", "join"}
        BY <1>0, <3>c DEF PoolTypeOK
      <4>2. QED
        BY <2>1, <3>c, <4>1, ExitKept
    <3>1. CASE RunStart(t, k)
      BY <3>1, <3>a DEF RunStart, Busy
    <3>2. CASE RunFinish(t, k)
      BY <2>1, <3>2, <3>c, ForkEnded DEF RunFinish
    <3>3. CASE RunTally(t, k)
      <4>1. tpc[k] = "tally" /\ tpc' = [tpc EXCEPT ![k] = "over"] /\ ip' = ip
        BY <3>3 DEF RunTally
      <4>2. \A j \in Programs : tpc'[j] = IF j = k THEN "over" ELSE tpc[j]
        BY <4>1 DEF PoolTypeOK
      <4>3. \A j \in Programs : TaskState(j)' = TaskState(j) /\ Position(j)' = Position(j)
        BY <4>1, <4>2 DEF TaskState, Position, Ready
      <4>4. QED
        BY <2>1, <3>c, <4>1, <4>3, ForkKept DEF Same
    <3>4. CASE SpawnPick(t, k)
      BY <3>4, <3>a DEF SpawnPick, Busy
    <3>5. CASE SpawnPush(t, k)
      <4>1. ip' = ip /\ tpc' = [tpc EXCEPT ![k] = "count", ![Target(k)] = "queued"]
        BY <3>5 DEF SpawnPush
      <4>2. tpc'[Main] \in {"wakeAll", "join"} => tpc[Main] \in {"wakeAll", "join"}
        BY <1>0, <4>1 DEF PoolTypeOK
      <4>3. QED
        BY <1>0, <2>1, <3>5, <4>1, <4>2, ExitKept, ForkForked
    <3>6. CASE SpawnCount(t, k)
      <4>1. tpc[k] = "count" /\ tpc' = [tpc EXCEPT ![k] = "notify"] /\ ip' = ip
        BY <3>6 DEF SpawnCount
      <4>2. \A j \in Programs : tpc'[j] = IF j = k THEN "notify" ELSE tpc[j]
        BY <4>1 DEF PoolTypeOK
      <4>3. \A j \in Programs : TaskState(j)' = TaskState(j) /\ Position(j)' = Position(j)
        BY <4>1, <4>2 DEF TaskState, Position, Ready
      <4>4. QED
        BY <2>1, <3>c, <4>1, <4>3, ForkKept DEF Same
    <3>7. CASE SpawnNotify(t, k)
      <4>1. tpc[k] = "notify" /\ NextOp(k)
        BY <3>7 DEF SpawnNotify
      <4>2. \A j \in Programs : /\ tpc'[j] = IF j = k THEN "step" ELSE tpc[j]
                                /\ ip'[j] = IF j = k THEN ip[k] + 1 ELSE ip[j]
        BY <4>1 DEF NextOp, PoolTypeOK
      <4>3. \A j \in Programs : TaskState(j)' = TaskState(j) /\ Position(j)' = Position(j)
        BY <4>1, <4>2 DEF TaskState, Position, Ready
      <4>4. QED
        BY <2>1, <3>b, <4>1, <4>3, ForkKept DEF Same
    <3>8. CASE AwaitPoll(t, k)
      <4>1. ip[k] <= Len(Script[k]) /\ Op(k).op = "await" /\ tpc[k] \in {"step", "await"}
        BY <1>0, <3>8 DEF AwaitPoll, OpInv
      <4>2. CASE Ready(Target(k))
        <5>1. NextOp(k)
          BY <3>8, <4>2 DEF AwaitPoll
        <5>2. \A c \in Op(k).tasks : c \in Programs /\ Ready(c)
          BY <4>1, <4>2, OpFacts DEF Await, Programs
        <5>3. Forks!ForkNext
          BY <2>1, <4>1, <5>1, <5>2, ForkJoined DEF Busy
        <5>4. QED
          BY <3>b, <4>1, <5>1, <5>3
      <4>3. CASE ~Ready(Target(k))
        BY <3>8, <3>a, <4>1, <4>3 DEF AwaitPoll, Unready, Busy
      <4>4. QED
        BY <4>2, <4>3
    <3>9. CASE AssistHint(t, k) \/ AssistAny(t, k)
      <4>1. /\ tpc[k] \in {"assistHint", "assistAny"} /\ ip' = ip
            /\ \/ UNCHANGED <<deque, stack, tpc, runs>>
               \/ \E l \in {"assistAny", "blocked"} : tpc' = [tpc EXCEPT ![k] = l]
               \/ \E w \in Workers : \E c : Takes(w, c) /\ Assisted(t, k, c)
        BY <1>0, <3>9, AssistCases
      <4>2. CASE UNCHANGED tpc
        BY <1>i, <2>1, <4>1, <4>2
      <4>3. ASSUME NEW l \in {"assistAny", "blocked"}, tpc' = [tpc EXCEPT ![k] = l] PROVE ExitInv' /\ Same
        BY <3>a, <4>1, <4>3 DEF Busy
      <4>4. ASSUME NEW w \in Workers, NEW c, Takes(w, c), Assisted(t, k, c)
            PROVE  ExitInv' /\ Forks!ForkNext
        <5>1. c \in Tasks
          BY <4>4, TakesFacts
        <5>2. /\ tpc'[c] = "popped"
              /\ \A j \in Programs \ {c} : tpc'[j] = tpc[j] \/ (tpc[j] \in Busy /\ tpc'[j] = "await")
          <6>1. tpc' = [tpc EXCEPT ![k] = "await", ![c] = "popped"] /\ c \in Programs
            BY <4>4, <5>1 DEF Assisted, Programs
          <6>2. \A j \in Programs : tpc'[j] = IF j = c THEN "popped" ELSE IF j = k THEN "await" ELSE tpc[j]
            BY <6>1 DEF PoolTypeOK
          <6>3. tpc[k] \in Busy
            BY <4>1 DEF Busy
          <6>4. QED
            BY <6>1, <6>2, <6>3
        <5>3. Running(t, k)
          BY <3>9 DEF AssistHint, AssistAny
        <5>4. tpc[Main] # "over"
          BY <4>1, <5>3, RunningThread
        <5>5. QED
          BY <2>b, <4>1, <4>4, <5>2, <5>4
      <4>5. QED
        BY <4>1, <4>2, <4>3, <4>4
    <3>10. CASE AwaitBlocked(t, k)
      <4>1. /\ tpc[k] = "blocked" /\ ip[k] <= Len(Script[k]) /\ Op(k).op = "await"
            /\ Ready(Target(k)) /\ NextOp(k)
        BY <1>0, <3>10 DEF AwaitBlocked, OpInv
      <4>2. \A c \in Op(k).tasks : c \in Programs /\ Ready(c)
        BY <4>1, OpFacts DEF Await, Programs
      <4>3. Forks!ForkNext
        BY <2>1, <4>1, <4>2, ForkJoined DEF Busy
      <4>4. QED
        BY <3>b, <4>1, <4>3
    <3>11. CASE BatchWait(t, k)
      <4>1. /\ tpc[k] = "step" /\ ip[k] <= Len(Script[k]) /\ Op(k).op = "batch"
            /\ (\A c \in Op(k).tasks : Ready(c)) /\ NextOp(k)
        BY <3>11 DEF BatchWait
      <4>2. Op(k).tasks \subseteq Programs
        <5>1. Op(k) \in Ops
          BY <4>1, OpFacts
        <5>2. ASSUME NEW K \in SUBSET Tasks, Op(k) = WaitBatch(K) PROVE Op(k).tasks \subseteq Tasks
          BY <5>2 DEF WaitBatch
        <5>3. Op(k).tasks \subseteq Tasks
          BY <4>1, <5>1, <5>2 DEF Ops, Spawn, Await, Exit
        <5>4. QED
          BY <5>3 DEF Programs
      <4>3. Forks!ForkNext
        BY <2>1, <4>1, <4>2, ForkJoined DEF Busy
      <4>4. QED
        BY <3>b, <4>1, <4>3
    <3>12. QED
      BY <2>4, <3>1, <3>2, <3>3, <3>4, <3>5, <3>6, <3>7, <3>8, <3>9, <3>10, <3>11 DEF TaskStep
  <2>5. CASE Shutdown(Main)
    <3>1. /\ tpc[Main] = "step" /\ tpc' = [tpc EXCEPT ![Main] = "wakeAll"] /\ ip' = ip
          /\ ip[Main] <= Len(Script[Main]) /\ Op(Main).op = "exit"
      BY <2>5 DEF Shutdown
    <3>2. Same
      BY <1>0, <2>1, <3>1, ForkStutter DEF Same, Busy
    <3>3. ip'[Main] <= Len(Script'[Main]) /\ Op(Main)'.op = "exit"
      BY <2>1, <3>1 DEF Op, Script
    <3>4. QED
      BY <3>2, <3>3 DEF ExitInv, Same
  <2>6. CASE ShutdownNotify(Main)
    <3>1. tpc[Main] = "wakeAll" /\ tpc' = [tpc EXCEPT ![Main] = "join"] /\ ip' = ip
      BY <2>6 DEF ShutdownNotify
    <3>2. Same
      BY <1>0, <2>1, <3>1, ForkStutter DEF Same, Busy
    <3>3. tpc[Main] \in {"wakeAll", "join"} /\ ip'[Main] = ip[Main]
      BY <3>1
    <3>4. ExitInv'
      BY <2>1, <3>3, ExitKept
    <3>5. QED
      BY <3>2, <3>4 DEF Same
  <2>7. CASE ShutdownJoin(Main)
    <3>1. tpc' = [tpc EXCEPT ![Main] = "over"] /\ ip' = ip
      BY <2>7 DEF ShutdownJoin
    <3>2. tpc'[Main] = "over"
      BY <1>0, <3>1 DEF PoolTypeOK
    <3>3. QED
      BY <2>1, <2>7, <3>1, <3>2, ExitKept, ForkLeft
  <2>8. QED
    BY <1>2, <2>2, <2>3, <2>4, <2>5, <2>6, <2>7 DEF PoolNext, WorkerStep, ShutdownStep, Same
<1>3. QED
  BY <1>1, <1>2, <1>i DEF poolVars, threadVars

\* The first state is one of the fork-join program.
LEMMA ForkInitially == PoolInit => Forks!ForkInit /\ ExitInv
<1> SUFFICES ASSUME PoolInit PROVE Forks!ForkInit /\ ExitInv
  OBVIOUS
<1>1. \A k \in Programs : tpc[k] = (IF k = Main THEN "step" ELSE "unborn") /\ ip[k] = 1
  BY DEF PoolInit
<1>2. \A k \in Programs : TaskState(k) = (IF k = Main THEN "running" ELSE "unborn") /\ Position(k) = 1
  BY <1>1 DEF TaskState, Position, Ready
<1>3. Script \in {s.script : s \in Setups}
  BY DEF PoolInit, Script
<1>4. QED
  BY <1>1, <1>2, <1>3, ForkValues DEF Forks!ForkInit, ExitInv

-----------------------------------------------------------------------------
(* The theorems *)

\* All the invariants together are inductive.
LEMMA InductiveInvariant ==
  /\ PoolInit => IInv
  /\ IInv /\ [PoolNext]_poolVars => IInv'
<1>1. PoolInit => IInv
  BY TypeInit, PlaceInit, PendingInit, AwakeInit DEF IInv, TypeInv
<1>2. IInv /\ [PoolNext]_poolVars => IInv'
  <2> SUFFICES ASSUME IInv, [PoolNext]_poolVars PROVE IInv'
    OBVIOUS
  <2>1. PoolTypeOK /\ PlaceInv /\ PendingInv /\ OneBlocking /\ AwakeInv
    BY DEF IInv
  <2>2. PoolTypeOK'
    BY <2>1, TypeStep DEF TypeInv, PlaceInv
  <2>3. PlaceInv'
    BY <2>1, <2>2, PlaceStep
  <2>4. PendingInv'
    BY <2>1, <2>2, PendingStep
  <2>5. OneBlocking' /\ AwakeInv'
    BY <2>1, <2>2, AwakeStep
  <2>6. QED
    BY <2>2, <2>3, <2>4, <2>5 DEF IInv
<1>3. QED
  BY <1>1, <1>2

\* It holds in every reachable state.
LEMMA IInvCorrect == PoolSpec => []IInv
BY InductiveInvariant, PTL DEF PoolSpec

\* The state of the queues, the workers and the tasks has its type, whatever
\* the number of workers and the program.
THEOREM TypeCorrect == PoolSpec => []PoolTypeOK
<1>1. IInv => PoolTypeOK
  BY DEF IInv
<1>2. QED
  BY <1>1, IInvCorrect, PTL

\* A task is in one queue or on one call stack, once, from its push to its
\* end, and is begun once: no interleaving of the owner of a queue, of the
\* thieves and of the threads that assist loses it or runs it twice.
THEOREM RunOnceCorrect == PoolSpec => []RunOnce
<1>1. ASSUME IInv, NEW k \in Tasks
      PROVE  /\ runs[k] <= 1
             /\ Cardinality(Places(k)) = IF tpc[k] \in {"unborn", "over"} THEN 0 ELSE 1
  <2>1. PoolTypeOK /\ QueueInv /\ StackInv /\ RunsInv
    BY <1>1 DEF IInv, PlaceInv
  <2>2. runs[k] <= 1
    BY <2>1 DEF RunsInv
  <2>3. /\ \A w \in Workers : deque[w] \in Seq(Tasks) /\ DOMAIN deque[w] = 1..Len(deque[w])
        /\ \A t \in Threads : stack[t] \in Seq(Programs) /\ DOMAIN stack[t] = 1..Len(stack[t])
    BY <2>1 DEF PoolTypeOK
  <2>4. \A p : p \in Places(k) <=>
               \/ \E w \in Workers : \E i \in 1..Len(deque[w]) : deque[w][i] = k /\ p = <<w, i>>
               \/ \E t \in Threads : \E i \in 1..Len(stack[t]) : stack[t][i] = k /\ p = <<t, -i>>
    <3> DEFINE q == UNION {{<<w, i>> : i \in {j \in DOMAIN deque[w] : deque[w][j] = k}} : w \in Workers}
               s == UNION {{<<t, -i>> : i \in {j \in DOMAIN stack[t] : stack[t][j] = k}} : t \in Threads}
    <3>1. \A p : p \in q <=> \E w \in Workers : \E i \in DOMAIN deque[w] : deque[w][i] = k /\ p = <<w, i>>
      OBVIOUS
    <3>2. \A p : p \in s <=> \E t \in Threads : \E i \in DOMAIN stack[t] : stack[t][i] = k /\ p = <<t, -i>>
      OBVIOUS
    <3>3. Places(k) = q \cup s
      BY DEF Places
    <3> HIDE DEF q, s
    <3>4. QED
      BY <2>3, <3>1, <3>2, <3>3
  <2>5. CASE tpc[k] \in {"unborn", "over"}
    <3>1. Places(k) = {}
      BY <2>1, <2>4, <2>5 DEF QueueInv, StackInv, Begun, Outside
    <3>2. QED
      BY <2>2, <2>5, <3>1, FS_EmptySet
  <2>6. CASE tpc[k] = "queued"
    <3>1. PICK w \in Workers : \E i \in 1..Len(deque[w]) : deque[w][i] = k
      BY <2>1, <2>6 DEF QueueInv
    <3>2. PICK i \in 1..Len(deque[w]) : deque[w][i] = k
      BY <3>1
    <3>3. \A t \in Threads : \A j \in 1..Len(stack[t]) : stack[t][j] # k
      BY <2>1, <2>6 DEF StackInv, Begun, Outside
    <3>4. Places(k) = {<<w, i>>}
      BY <2>1, <2>4, <3>2, <3>3 DEF QueueInv
    <3>5. QED
      BY <2>2, <2>6, <3>4, FS_Singleton
  <2>7. CASE tpc[k] \notin {"unborn", "over", "queued"}
    <3>1. tpc[k] \in Begun
      BY <2>1, <2>7 DEF PoolTypeOK, Begun, Outside, Programs
    <3>2. PICK t \in Threads : \E i \in 1..Len(stack[t]) : stack[t][i] = k
      BY <2>1, <3>1 DEF StackInv
    <3>3. PICK i \in 1..Len(stack[t]) : stack[t][i] = k
      BY <3>2
    <3>4. \A w \in Workers : \A j \in 1..Len(deque[w]) : deque[w][j] # k
      BY <2>1, <2>7 DEF QueueInv
    <3>5. \A u \in Threads : \A j \in 1..Len(stack[u]) : stack[u][j] = k <=> u = t /\ j = i
      BY <2>1, <3>3 DEF StackInv
    <3>6. Places(k) = {<<t, -i>>}
      BY <2>4, <3>2, <3>3, <3>4, <3>5
    <3>7. QED
      BY <2>2, <2>7, <3>6, FS_Singleton
  <2>8. QED
    BY <2>5, <2>6, <2>7
<1>2. IInv => RunOnce
  BY <1>1 DEF RunOnce
<1>3. QED
  BY <1>2, IInvCorrect, PTL

\* pending_ is the number of queued tasks whenever no thread is between a
\* queue and the counter, so what it wraps around to never stays.
THEOREM PendingSettlesCorrect == PoolSpec => []PendingSettles
<1>1. ASSUME IInv, \A k \in Programs : tpc[k] \notin {"popped", "count"}
      PROVE  pending = Cardinality({k \in Tasks : tpc[k] = "queued"})
  <2>1. Popped = {} /\ Uncounted = {}
    BY <1>1 DEF Popped, Uncounted, Programs
  <2>2. Cardinality(Popped) = 0 /\ Cardinality(Uncounted) = 0
    BY <2>1, FS_EmptySet
  <2>3. QED
    BY <1>1, <2>2, FinitelyMany DEF IInv, PendingInv, Queued
<1>2. IInv => PendingSettles
  BY <1>1 DEF PendingSettles
<1>3. QED
  BY <1>2, IInvCorrect, PTL

\* Two workers or more never all sleep on a queued task that nobody is about
\* to announce, although the predicate of cv_.wait reads counters that no
\* thread writes under cv_mutex_.
THEOREM NoSleepingOnWorkCorrect == PoolSpec => []NoSleepingOnWork
<1>1. IInv => NoSleepingOnWork
  BY DEF IInv, AwakeInv, NoSleepingOnWork
<1>2. QED
  BY <1>1, IInvCorrect, PTL

\* The scheduler runs its tasks as a fork-join program says: whatever the number
\* of workers and the interleaving of owners, thieves and threads that assist, a
\* task begins once, an await or a batch outlasts what it waits for, and when the
\* destructor returns no task is running and none begins.
THEOREM ImplementsForkJoinCorrect == PoolSpec => ImplementsForkJoin
<1>1. PoolInit => ThreadInv /\ ExitInv /\ Forks!ForkInit
  BY ThreadInit, ForkInitially
<1>2. IInv /\ (ThreadInv /\ ExitInv) /\ [PoolNext]_poolVars =>
        (ThreadInv /\ ExitInv)' /\ [Forks!ForkNext]_(Forks!forkVars)
  BY ThreadStep, ForkStep DEF IInv
<1>3. QED
  BY <1>1, <1>2, IInvCorrect, PTL DEF PoolSpec, ImplementsForkJoin, Forks!ForkSpec

=============================================================================
