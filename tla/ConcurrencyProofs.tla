------------------------- MODULE ConcurrencyProofs -------------------------
(***************************************************************************)
(* Safety of ParallelBatch, for every number of items and every chunk      *)
(* size: the chunks cut the items without a gap or an overlap, a call that *)
(* is left leaves no task running, errors surface, and par_reduce combines *)
(* the partial results in order.  And safety of Concurrency: what is       *)
(* proved of a data-parallel call, of a task group and of the loops over a *)
(* channel holds in the system that composes them.  Each step of the       *)
(* composition is a step of a component or leaves it alone.                *)
(***************************************************************************)
EXTENDS Concurrency, SequenceTheorems, FiniteSetTheorems, TLAPS

\* The items of chunk t.
Span(t) == First(t)..(Stop(t) - 1)

\* The items from a up to b, in order.
Run(a, b) == [j \in 1..(b - a) |-> a + j - 1]

NotBegun == {"absent", "queued"}
Stopped == {"error", "complete", "notify", "over"}
Completed == {"complete", "notify", "over"}
Left == {t \in ChunkTasks : tpc[t] \notin {"notify", "over"}}

\* remaining counts the tasks that have not completed; the ones to submit are
\* among them.
CountInv ==
    /\ \A t \in ChunkTasks : t >= submitted => tpc[t] = "absent"
    /\ caller = "start" => submitted = 0
    /\ Parallel /\ caller # "start" => remaining = Cardinality(Left)
    /\ Parallel /\ caller \in {"fold", "returned", "threw"} => Left = {}
    /\ Parallel => caller # "serial"
    /\ ~Parallel => caller \in {"start", "serial", "returned", "threw"} /\ submitted = 0

\* Where a task is in its chunk and what it has combined.
PosInv ==
    \A t \in ChunkTasks :
        /\ tpc[t] \in NotBegun => pos[t] = First(t) \/ ~Parallel
        /\ pos[t] \in First(t)..Stop(t)
        /\ kind = "reduce" /\ tpc[t] \notin NotBegun => pos[t] > First(t)
        /\ tpc[t] = "error" => pos[t] < Stop(t) /\ pos[t] \in faulty
        /\ tpc[t] \in Completed =>
              firstError # {} \/ (pos[t] = Stop(t) /\ partials[t] = Run(First(t), Stop(t)))
        /\ Parallel => local[t] = Run(First(t), pos[t])

\* Which items the function has been called for, by the tasks of a batch and,
\* for the first item of each chunk of par_reduce, by the fold.
CallsInv ==
    Parallel =>
        \A t \in ChunkTasks : \A i \in Span(t) :
            IF kind = "reduce" /\ i = First(t)
            THEN /\ t < folded => calls[i] = 1 /\ i \notin faulty
                 /\ t > folded => calls[i] = 0
                 /\ t = folded => calls[i] = 0 \/ (calls[i] = 1 /\ caller = "threw")
            ELSE /\ i < pos[t] => calls[i] = 1 /\ i \notin faulty
                 /\ i > pos[t] => calls[i] = 0
                 /\ i = pos[t] => calls[i] = IF tpc[t] \in Stopped THEN 1 ELSE 0

\* A call of one chunk: the caller runs through the items itself.
SerialInv ==
    TaskCount = 1 =>
        /\ \A i \in Items : /\ i < pos[0] => calls[i] = 1 /\ i \notin faulty
                            /\ i > pos[0] => calls[i] = 0
                            /\ i = pos[0] => calls[i] = IF caller = "threw" THEN 1 ELSE 0
        /\ caller = "start" => pos[0] = 0
        /\ caller = "returned" => pos[0] = total
        /\ result = Run(0, pos[0])

\* The items whose partial results the fold has combined.
Combined == IF folded < TaskCount THEN First(folded) ELSE total

FoldInv ==
    Parallel =>
        /\ caller \notin {"fold", "returned", "threw"} => folded = 0 /\ result = <<>>
        /\ caller = "fold" => kind = "reduce" /\ firstError = {} /\ result = Run(0, Combined)
        /\ caller = "returned" => firstError = {}
        /\ caller = "returned" /\ kind = "reduce" => folded = TaskCount /\ result = Run(0, total)
        /\ kind = "map" => folded = 0

\* What the caller rethrows comes from an item that failed.
ErrorInv ==
    /\ \A i \in firstError : i \in faulty /\ calls[i] = 1
    /\ caller = "threw" => firstError # {}
    /\ total = 0 => caller \in {"start", "returned"} /\ result = <<>>

IInv == TypeOK /\ CountInv /\ PosInv /\ CallsInv /\ SerialInv /\ FoldInv /\ ErrorInv
-----------------------------------------------------------------------------
(* The chunks *)

\* What integer division returns.
LEMMA Division ==
  ASSUME NEW a \in Nat, NEW c \in Nat \ {0}
  PROVE  /\ a \div c \in Nat
         /\ (a \div c) * c <= a
         /\ a < (a \div c) * c + c
OBVIOUS

\* Multiples of the chunk size are ordered as their factors.
LEMMA Multiples ==
  ASSUME NEW c \in Nat \ {0}, NEW a \in Nat, NEW b \in Nat
  PROVE  /\ a * c \in Nat
         /\ (a + 1) * c = a * c + c
         /\ a < b => a * c + c <= b * c
         /\ a * c < b * c => a < b
         /\ 0 * c = 0
<1>1. a * c \in Nat /\ b * c \in Nat /\ (a + 1) * c = a * c + c /\ 0 * c = 0
  OBVIOUS
<1>2. ASSUME a < b PROVE a * c + c <= b * c
  <2>1. PICK d \in Nat : b = a + 1 + d
    <3>1. b - a - 1 \in Nat /\ b = a + 1 + (b - a - 1)
      BY <1>2
    <3>2. QED
      BY <3>1
  <2>2. b * c = a * c + c + d * c /\ d * c \in Nat
    BY <2>1
  <2>3. QED
    BY <1>1, <2>2
<1>3. ASSUME a * c < b * c PROVE a < b
  <2>1. CASE b < a
    <3>1. PICK d \in Nat : a = b + d
      <4>1. a - b \in Nat /\ a = b + (a - b)
        BY <2>1
      <4>2. QED
        BY <4>1
    <3>2. a * c = b * c + d * c /\ d * c \in Nat
      BY <3>1
    <3>3. QED
      BY <1>1, <1>3, <3>2
  <2>2. CASE a = b
    BY <1>1, <1>3, <2>2
  <2>3. QED
    BY <2>1, <2>2
<1>4. QED
  BY <1>1, <1>2, <1>3

\* A chunk has an item at least; the chunks suffice, and none is empty.
LEMMA ChunkSize ==
  ASSUME total \in Nat
  PROVE  /\ Chunk \in Nat \ {0}
         /\ TaskCount \in Nat
         /\ TaskCount = 0 <=> total = 0
         /\ total <= TaskCount * Chunk
         /\ \A t \in Nat : t < TaskCount => t * Chunk < total
<1>1. Chunk \in Nat \ {0}
  BY BatchAssumption DEF Chunk, DefaultChunkSize
<1> DEFINE c == Chunk
           a == total + c - 1
<1>2. c \in Nat \ {0} /\ a \in Nat
  BY <1>1
<1>3. TaskCount = a \div c
  BY DEF TaskCount
<1>4. TaskCount \in Nat /\ TaskCount * c <= a /\ a < TaskCount * c + c
  <2> HIDE DEF a, c
  <2>1. QED
    BY <1>2, <1>3, Division
<1>5. TaskCount * c \in Nat /\ a = total + c - 1
  BY <1>2, <1>4
<1>6. total <= TaskCount * c
  <2> HIDE DEF c
  <2>1. QED
    BY <1>2, <1>4, <1>5
<1>7. ASSUME NEW t \in Nat, t < TaskCount PROVE t * c < total
  <2> HIDE DEF a, c
  <2>1. t * c \in Nat /\ t * c + c <= TaskCount * c
    BY <1>2, <1>4, <1>7, Multiples
  <2>2. QED
    BY <1>2, <1>4, <1>5, <2>1
<1>8. TaskCount = 0 <=> total = 0
  <2>1. TaskCount = 0 => total = 0
    BY <1>2, <1>6
  <2>2. TaskCount # 0 => total # 0
    <3>1. TaskCount # 0 => 0 * c < total
      BY <1>4, <1>7
    <3>2. QED
      BY <1>2, <3>1
  <2>3. QED
    BY <2>1, <2>2
<1>9. QED
  BY <1>1, <1>4, <1>6, <1>7, <1>8

\* The chunks follow one another from the first item to the last.
LEMMA ChunkFacts ==
  ASSUME total \in Nat
  PROVE  /\ \A t \in ChunkTasks : /\ t \in Nat
                                  /\ First(t) \in Nat /\ Stop(t) \in Nat
                                  /\ First(t) < Stop(t) /\ Stop(t) <= total
                                  /\ Stop(t) = IF t + 1 < TaskCount THEN First(t + 1) ELSE total
                                  /\ t < TaskCount
         /\ \A t, u \in ChunkTasks : t < u => Stop(t) <= First(u)
         /\ TaskCount # 0 => 0 \in ChunkTasks /\ First(0) = 0
         /\ TaskCount = 1 => ChunkTasks = {0} /\ Stop(0) = total
         /\ TaskCount = 0 => ChunkTasks = {}
<1> DEFINE c == Chunk
           n == TaskCount
<1>1. /\ c \in Nat \ {0} /\ n \in Nat /\ total <= n * c /\ n * c \in Nat
      /\ \A t \in Nat : t < n => t * c < total
  BY ChunkSize, Multiples
<1>2. /\ \A t : First(t) = t * c
      /\ \A t : Stop(t) = IF (t + 1) * c < total THEN (t + 1) * c ELSE total
      /\ ChunkTasks = 0..(n - 1)
  BY DEF First, Stop, ChunkTasks
<1> HIDE DEF c, n
<1>3. ASSUME NEW t \in ChunkTasks
      PROVE  /\ t \in Nat /\ t < n
             /\ First(t) \in Nat /\ Stop(t) \in Nat
             /\ First(t) < Stop(t) /\ Stop(t) <= total /\ Stop(t) <= First(t) + c
             /\ Stop(t) = IF t + 1 < n THEN First(t + 1) ELSE total
  <2>1. t \in Nat /\ t + 1 \in Nat /\ t < n
    BY <1>1, <1>2
  <2>2. t * c \in Nat /\ t * c < total /\ (t + 1) * c = t * c + c
    BY <1>1, <2>1, Multiples
  <2>3. t + 1 < n => (t + 1) * c < total
    BY <1>1, <2>1
  <2>4. t + 1 = n => (t + 1) * c >= total
    BY <1>1
  <2>5. t + 1 < n \/ t + 1 = n
    BY <1>1, <2>1
  <2> DEFINE f == t * c
             g == (t + 1) * c
  <2>6. f \in Nat /\ f < total /\ g = f + c
    BY <2>2
  <2>7. First(t) = f /\ First(t + 1) = g /\ Stop(t) = IF g < total THEN g ELSE total
    BY <1>2
  <2>8. (t + 1 < n => g < total) /\ (t + 1 = n => g >= total)
    BY <2>3, <2>4
  <2> HIDE DEF f, g
  <2>9. QED
    BY <1>1, <2>1, <2>5, <2>6, <2>7, <2>8
<1>4. ASSUME NEW t \in ChunkTasks, NEW u \in ChunkTasks, t < u
      PROVE  Stop(t) <= First(u)
  <2>1. t * c + c <= u * c /\ u * c \in Nat /\ t * c \in Nat
    BY <1>1, <1>3, <1>4, Multiples
  <2>2. Stop(t) <= First(t) + c /\ First(t) = t * c /\ First(u) = u * c /\ Stop(t) \in Nat
    BY <1>2, <1>3
  <2>3. QED
    BY <1>1, <2>1, <2>2
<1>5. n # 0 => 0 \in ChunkTasks /\ First(0) = 0
  BY <1>1, <1>2
<1>6. n = 1 => ChunkTasks = {0} /\ Stop(0) = total
  <2>1. n = 1 => ChunkTasks = {0}
    BY <1>2
  <2>2. QED
    BY <1>3, <2>1
<1>7. n = 0 => ChunkTasks = {}
  BY <1>2
<1>8. QED
  BY <1>3, <1>4, <1>5, <1>6, <1>7 DEF n

\* Each item is in one chunk, and in no other.
LEMMA ChunksCover ==
  ASSUME total \in Nat, NEW i \in Items
  PROVE  \E t \in ChunkTasks : i \in Span(t)
<1> DEFINE c == Chunk
           t == i \div c
<1>1. /\ c \in Nat \ {0} /\ TaskCount \in Nat /\ total <= TaskCount * c /\ TaskCount * c \in Nat
      /\ i \in Nat /\ i < total
  BY ChunkSize, Multiples DEF Items
<1>2. t \in Nat /\ t * c <= i /\ i < t * c + c
  <2> HIDE DEF c
  <2>1. QED
    BY <1>1, Division
<1>3. First(t) = t * c /\ Stop(t) = IF (t + 1) * c < total THEN (t + 1) * c ELSE total
  BY DEF First, Stop
<1> HIDE DEF c, t
<1>4. t * c \in Nat /\ (t + 1) * c = t * c + c
  BY <1>1, <1>2, Multiples
<1>5. t * c < TaskCount * c
  BY <1>1, <1>2, <1>4
<1>6. t < TaskCount
  BY <1>1, <1>2, <1>5, Multiples
<1>7. t \in ChunkTasks
  BY <1>1, <1>2, <1>6 DEF ChunkTasks
<1>8. First(t) <= i /\ i < Stop(t) /\ First(t) \in Nat /\ Stop(t) \in Nat
  BY <1>1, <1>2, <1>3, <1>4
<1>9. QED
  BY <1>1, <1>7, <1>8 DEF Span

\* No item is in two chunks.
LEMMA ChunksApart ==
  ASSUME total \in Nat, NEW t \in ChunkTasks, NEW u \in ChunkTasks, NEW i \in Span(t), i \in Span(u)
  PROVE  t = u /\ i \in Items
<1>1. /\ t \in Nat /\ u \in Nat
      /\ First(t) \in Nat /\ Stop(t) \in Nat /\ First(u) \in Nat /\ Stop(u) \in Nat
      /\ t < u => Stop(t) <= First(u)
      /\ u < t => Stop(u) <= First(t)
      /\ Stop(t) <= total
  BY ChunkFacts
<1>2. QED
  BY <1>1 DEF Span, Items

-----------------------------------------------------------------------------
(* Runs of items *)

\* The length and the elements of a run of items.
LEMMA RunTyped ==
  ASSUME NEW a \in Nat, NEW b \in Nat, a <= b
  PROVE  /\ Run(a, b) \in Seq(a..(b - 1))
         /\ Len(Run(a, b)) = b - a
         /\ \A j \in 1..(b - a) : Run(a, b)[j] = a + j - 1
         /\ a = b => Run(a, b) = <<>>
<1>1. b - a \in Nat
  OBVIOUS
<1>2. \A j \in 1..(b - a) : a + j - 1 \in a..(b - 1)
  OBVIOUS
<1>3. Run(a, b) \in Seq(a..(b - 1)) /\ Len(Run(a, b)) = b - a
  BY <1>1, <1>2 DEF Run
<1>4. a = b => Run(a, b) = <<>>
  BY <1>3, EmptySeq
<1>5. QED
  BY <1>3, <1>4 DEF Run

\* A run goes on with the next item.
LEMMA RunAppend ==
  ASSUME NEW a \in Nat, NEW b \in Nat, a <= b
  PROVE  Append(Run(a, b), b) = Run(a, b + 1)
<1>1. Run(a, b) \in Seq(Nat) /\ Len(Run(a, b)) = b - a
  <2>1. \A j \in 1..(b - a) : a + j - 1 \in Nat
    OBVIOUS
  <2>2. b - a \in Nat
    OBVIOUS
  <2>3. QED
    BY <2>1, <2>2 DEF Run
<1>2. Run(a, b + 1) \in Seq(Nat) /\ Len(Run(a, b + 1)) = b - a + 1
  <2>1. \A j \in 1..(b + 1 - a) : a + j - 1 \in Nat
    OBVIOUS
  <2>2. b + 1 - a \in Nat
    OBVIOUS
  <2>3. QED
    BY <2>1, <2>2 DEF Run
<1> DEFINE l == Append(Run(a, b), b)
<1>3. /\ l \in Seq(Nat) /\ Len(l) = b - a + 1 /\ l[b - a + 1] = b
      /\ \A j \in 1..(b - a) : l[j] = Run(a, b)[j]
  BY <1>1, AppendProperties
<1> HIDE DEF l
<1>4. ASSUME NEW j \in 1..(b - a + 1) PROVE l[j] = Run(a, b + 1)[j]
  <2>1. Run(a, b + 1)[j] = a + j - 1
    BY DEF Run
  <2>2. j \in 1..(b - a) => Run(a, b)[j] = a + j - 1
    BY DEF Run
  <2>3. j \in 1..(b - a) \/ j = b - a + 1
    OBVIOUS
  <2>4. QED
    BY <1>3, <2>1, <2>2, <2>3
<1>5. QED
  BY <1>2, <1>3, <1>4, SeqEqual DEF l

\* Two runs that meet are one run.
LEMMA RunConcat ==
  ASSUME NEW a \in Nat, NEW b \in Nat, NEW c \in Nat, a <= b, b <= c
  PROVE  Run(a, b) \o Run(b, c) = Run(a, c)
<1>0. \A x, y \in Nat : x <= y =>
        /\ Run(x, y) \in Seq(Nat) /\ Len(Run(x, y)) = y - x
        /\ \A j \in 1..(y - x) : Run(x, y)[j] = x + j - 1
  <2> TAKE x \in Nat, y \in Nat
  <2> HAVE x <= y
  <2>1. y - x \in Nat /\ \A j \in 1..(y - x) : x + j - 1 \in Nat
    OBVIOUS
  <2>2. QED
    BY <2>1 DEF Run
<1> DEFINE l == Run(a, b) \o Run(b, c)
<1>1. /\ Run(a, b) \in Seq(Nat) /\ Len(Run(a, b)) = b - a
      /\ Run(b, c) \in Seq(Nat) /\ Len(Run(b, c)) = c - b
  BY <1>0
<1>2. /\ l \in Seq(Nat) /\ Len(l) = c - a
      /\ \A j \in 1..(c - a) :
            l[j] = IF j <= b - a THEN Run(a, b)[j] ELSE Run(b, c)[j - (b - a)]
  <2>1. /\ l \in Seq(Nat) /\ Len(l) = Len(Run(a, b)) + Len(Run(b, c))
        /\ \A j \in 1..(Len(Run(a, b)) + Len(Run(b, c))) :
              l[j] = IF j <= Len(Run(a, b)) THEN Run(a, b)[j]
                     ELSE Run(b, c)[j - Len(Run(a, b))]
    BY <1>1, ConcatProperties
  <2>2. Len(Run(a, b)) + Len(Run(b, c)) = c - a
    BY <1>1
  <2>3. QED
    BY <1>1, <2>1, <2>2
<1> HIDE DEF l
<1>3. ASSUME NEW j \in 1..(c - a) PROVE l[j] = Run(a, c)[j]
  <2>1. Run(a, c)[j] = a + j - 1
    BY <1>0
  <2>2. CASE j <= b - a
    BY <1>0, <1>2, <2>1, <2>2
  <2>3. CASE ~(j <= b - a)
    <3>1. j - (b - a) \in 1..(c - b)
      BY <2>3
    <3>2. Run(b, c)[j - (b - a)] = b + (j - (b - a)) - 1
      BY <1>0, <3>1
    <3>3. QED
      BY <1>2, <2>1, <2>3, <3>2
  <2>4. QED
    BY <2>2, <2>3
<1>4. Run(a, c) \in Seq(Nat) /\ Len(Run(a, c)) = c - a
  BY <1>0
<1>5. QED
  BY <1>2, <1>3, <1>4, SeqEqual DEF l

-----------------------------------------------------------------------------
(* The steps of the caller *)

\* The chunks depend on the call alone, which no step changes.
LEMMA SameCall ==
  ASSUME UNCHANGED call
  PROVE  /\ Items' = Items /\ TaskCount' = TaskCount /\ ChunkTasks' = ChunkTasks
         /\ Parallel' = Parallel
         /\ \A t : First(t)' = First(t) /\ Stop(t)' = Stop(t) /\ Span(t)' = Span(t)
BY DEF call, Items, TaskCount, ChunkTasks, Parallel, First, Stop, Span, Chunk, DefaultChunkSize

\* There are finitely many tasks, so that they can be counted.
LEMMA TasksFinite ==
  ASSUME TypeOK
  PROVE  /\ IsFiniteSet(ChunkTasks) /\ Cardinality(ChunkTasks) = TaskCount /\ TaskCount \in Nat
         /\ IsFiniteSet(Left) /\ Cardinality(Left) \in 0..TaskCount
         /\ Cardinality(Left) = 0 => Left = {}
<1>1. TaskCount \in Nat
  BY ChunkSize DEF TypeOK
<1>2. IsFiniteSet(ChunkTasks) /\ Cardinality(ChunkTasks) = TaskCount
  BY <1>1, FS_Interval DEF ChunkTasks
<1>3. IsFiniteSet(Left) /\ Cardinality(Left) <= TaskCount /\ Cardinality(Left) \in Nat
  BY <1>2, FS_Subset, FS_CardinalityType DEF Left
<1>4. QED
  BY <1>1, <1>2, <1>3, FS_EmptySet

\* Steps in which the caller goes on without touching an item.
LEMMA CallerMoves ==
  ASSUME TypeOK, PosInv, CallsInv,
         UNCHANGED <<call, submitted, firstError, taskVars, outcome>>,
         caller' \in CallerPC, remaining' \in 0..TaskCount,
         caller = "threw" => caller' = "threw"
  PROVE  TypeOK' /\ PosInv' /\ CallsInv'
<1>1. /\ Items' = Items /\ TaskCount' = TaskCount /\ ChunkTasks' = ChunkTasks
      /\ Parallel' = Parallel
      /\ \A t : First(t)' = First(t) /\ Stop(t)' = Stop(t) /\ Span(t)' = Span(t)
  BY SameCall
<1>2. TypeOK'
  BY <1>1 DEF TypeOK, call, taskVars, outcome
<1>3. PosInv'
  BY <1>1 DEF PosInv, call, taskVars, Run
<1>4. CallsInv'
  BY <1>1 DEF CallsInv, call, taskVars, outcome
<1>5. QED
  BY <1>2, <1>3, <1>4

\* The caller takes one of the three ways through the call.
LEMMA CallerStarts ==
  ASSUME IInv, CallEmpty \/ CallSerial \/ SerialReturn \/ CallParallel
  PROVE  IInv'
<1> USE DEF IInv
<1>1. /\ UNCHANGED <<call, submitted, firstError, taskVars, outcome>>
      /\ caller' \in CallerPC /\ caller \in {"start", "serial"}
  BY DEF CallEmpty, CallSerial, SerialReturn, CallParallel, CallerPC
<1>2. /\ Items' = Items /\ TaskCount' = TaskCount /\ ChunkTasks' = ChunkTasks
      /\ Parallel' = Parallel
      /\ \A t : First(t)' = First(t) /\ Stop(t)' = Stop(t) /\ Span(t)' = Span(t)
  BY <1>1, SameCall
<1>3. TaskCount \in Nat /\ (TaskCount = 0 <=> total = 0) /\ remaining \in 0..TaskCount
  BY ChunkSize DEF TypeOK
<1>4. remaining' \in 0..TaskCount
  BY <1>3 DEF CallEmpty, CallSerial, SerialReturn, CallParallel
<1>5. TypeOK' /\ PosInv' /\ CallsInv'
  BY <1>1, <1>4, CallerMoves
<1>6. CountInv'
  <2>1. ASSUME CallParallel PROVE remaining' = Cardinality(Left)'
    <3>1. Left = ChunkTasks
      <4>1. \A t \in ChunkTasks : t >= 0
        BY <1>3 DEF ChunkTasks
      <4>2. QED
        BY <2>1, <4>1 DEF Left, CountInv, CallParallel
    <3>2. Left' = Left
      BY <1>1, <1>2 DEF Left, taskVars
    <3>3. QED
      BY <2>1, <3>1, <3>2, TasksFinite DEF CallParallel
  <2>2. \A t \in ChunkTasks : t >= submitted => tpc'[t] = "absent"
    BY <1>1 DEF CountInv, taskVars
  <2>3. submitted' = submitted /\ (caller = "start" => submitted = 0)
    BY <1>1 DEF CountInv
  <2>4. CASE CallParallel
    BY <1>2, <2>1, <2>2, <2>3, <2>4 DEF CountInv, CallParallel
  <2>5. CASE CallEmpty \/ CallSerial \/ SerialReturn
    <3>1. ~Parallel
      BY <1>3, <2>5 DEF CallEmpty, CallSerial, SerialReturn, CountInv, Parallel
    <3>2. caller' \in {"start", "serial", "returned", "threw"} /\ caller' # "start"
      BY <2>5 DEF CallEmpty, CallSerial, SerialReturn
    <3>3. QED
      BY <1>2, <2>2, <2>3, <3>1, <3>2 DEF CountInv
  <2>6. QED
    BY <2>4, <2>5
<1>7. SerialInv'
  <2>1. UNCHANGED <<calls, pos, result, faulty, total>>
    BY <1>1 DEF taskVars, outcome, call
  <2>2. caller # "threw" /\ caller' \notin {"threw", "start"}
    BY <1>1 DEF CallEmpty, CallSerial, SerialReturn, CallParallel
  <2>3. TaskCount = 1 /\ caller' = "returned" => pos[0] = total
    BY <1>1, <1>3 DEF CallEmpty, CallSerial, SerialReturn, CallParallel
  <2>4. QED
    BY <1>2, <2>1, <2>2, <2>3 DEF SerialInv, Run
<1>8. FoldInv'
  <2>1. UNCHANGED <<folded, result, kind, total, firstError>>
    BY <1>1 DEF outcome, call
  <2>2. Parallel => caller = "start" /\ caller' = "submit"
    BY <1>3 DEF CallEmpty, CallSerial, SerialReturn, CallParallel, Parallel, CountInv
  <2>3. QED
    BY <1>2, <2>1, <2>2 DEF FoldInv
<1>9. ErrorInv'
  <2>1. UNCHANGED <<firstError, faulty, calls, total, result>>
    BY <1>1 DEF call, outcome
  <2>2. caller' # "threw" /\ (total = 0 => caller' = "returned")
    BY <1>3 DEF CallEmpty, CallSerial, SerialReturn, CallParallel, Parallel, ErrorInv
  <2>3. QED
    BY <2>1, <2>2 DEF ErrorInv
<1>10. QED
  BY <1>5, <1>6, <1>7, <1>8, <1>9

\* The caller calls the function on the next item of its one chunk.
LEMMA CallerItem ==
  ASSUME IInv, SerialItem
  PROVE  IInv'
<1> USE DEF IInv
<1>1. /\ caller = "serial" /\ pos[0] < total
      /\ calls' = [calls EXCEPT ![pos[0]] = @ + 1]
      /\ UNCHANGED <<call, submitted, remaining, tpc, local, partials, folded>>
  BY DEF SerialItem, Called
<1>2. /\ Items' = Items /\ TaskCount' = TaskCount /\ ChunkTasks' = ChunkTasks
      /\ Parallel' = Parallel
      /\ \A t : First(t)' = First(t) /\ Stop(t)' = Stop(t) /\ Span(t)' = Span(t)
  BY <1>1, SameCall
<1>3. /\ TaskCount = 1 /\ ~Parallel /\ total \in Nat /\ total # 0
      /\ ChunkTasks = {0} /\ First(0) = 0 /\ Stop(0) = total
  <2>1. /\ TaskCount \in Nat /\ (TaskCount = 0 <=> total = 0)
    BY ChunkSize DEF TypeOK
  <2>2. ~Parallel /\ total # 0
    BY <1>1 DEF CountInv, ErrorInv
  <2>3. TaskCount = 1
    BY <2>1, <2>2 DEF Parallel
  <2>4. QED
    BY <2>1, <2>2, <2>3, ChunkFacts DEF TypeOK
<1>4. pos[0] \in Nat /\ pos[0] \in Items
  BY <1>1, <1>3 DEF TypeOK, Items
<1>5. calls[pos[0]] = 0
  BY <1>1, <1>3, <1>4 DEF SerialInv
<1>6. calls'[pos[0]] = 1 /\ \A i \in Items \ {pos[0]} : calls'[i] = calls[i]
  BY <1>1, <1>4, <1>5 DEF TypeOK
<1>7. calls' \in [Items -> Nat]
  BY <1>1, <1>4 DEF TypeOK
<1>8. tpc[0] = "absent"
  BY <1>3 DEF CountInv
<1>9. CASE pos[0] \in faulty
  <2>1. /\ caller' = "threw" /\ firstError' = {pos[0]}
        /\ UNCHANGED <<pos, result>>
    BY <1>9 DEF SerialItem
  <2>2. TypeOK'
    BY <1>1, <1>2, <1>4, <1>7, <2>1 DEF TypeOK, call, CallerPC
  <2>3. CountInv'
    BY <1>1, <1>2, <1>3, <2>1 DEF CountInv, call
  <2>4. PosInv'
    BY <1>1, <1>2, <1>3, <1>8, <2>1 DEF PosInv, call, Completed, NotBegun
  <2>5. CallsInv' /\ FoldInv'
    BY <1>2, <1>3 DEF CallsInv, FoldInv
  <2>6. SerialInv'
    <3>1. \A i \in Items : /\ i < pos[0] => calls'[i] = 1 /\ i \notin faulty
                           /\ i > pos[0] => calls'[i] = 0
                           /\ i = pos[0] => calls'[i] = 1
      BY <1>3, <1>4, <1>6 DEF SerialInv
    <3>2. result = Run(0, pos[0])
      BY <1>3 DEF SerialInv
    <3>3. QED
      BY <1>1, <1>2, <2>1, <3>1, <3>2 DEF SerialInv, call, Run
  <2>7. ErrorInv'
    BY <1>1, <1>3, <1>6, <1>9, <2>1 DEF ErrorInv, call
  <2>8. QED
    BY <2>2, <2>3, <2>4, <2>5, <2>6, <2>7
<1>10. CASE pos[0] \notin faulty
  <2>1. /\ pos' = [pos EXCEPT ![0] = @ + 1] /\ result' = Append(result, pos[0])
        /\ UNCHANGED <<caller, firstError>>
    BY <1>10 DEF SerialItem
  <2>2. pos'[0] = pos[0] + 1 /\ pos' \in [ChunkTasks -> 0..total]
    <3>1. pos[0] + 1 \in 0..total /\ 0 \in ChunkTasks
      BY <1>1, <1>3, <1>4
    <3>2. QED
      BY <2>1, <3>1 DEF TypeOK
  <2>3. result' \in Seq(Items)
    BY <1>4, <2>1, AppendProperties DEF TypeOK
  <2>4. TypeOK'
    BY <1>1, <1>2, <1>7, <2>1, <2>2, <2>3 DEF TypeOK, call
  <2>5. CountInv'
    BY <1>1, <1>2, <1>3, <2>1 DEF CountInv, call
  <2>6. PosInv'
    <3>1. pos'[0] \in First(0)..Stop(0)
      BY <1>1, <1>3, <1>4, <2>2
    <3>2. QED
      BY <1>1, <1>2, <1>3, <1>8, <3>1 DEF PosInv, call, Completed, NotBegun
  <2>7. CallsInv' /\ FoldInv'
    BY <1>2, <1>3 DEF CallsInv, FoldInv
  <2>8. SerialInv'
    <3>1. \A i \in Items : /\ i < pos[0] + 1 => calls'[i] = 1 /\ i \notin faulty
                           /\ i > pos[0] + 1 => calls'[i] = 0
                           /\ i = pos[0] + 1 => calls'[i] = 0
      <4>1. \A i \in Items : i \in Nat
        BY <1>3 DEF Items
      <4>2. QED
        BY <1>3, <1>4, <1>6, <1>10, <4>1 DEF SerialInv
    <3>2. result' = Run(0, pos[0] + 1)
      <4>1. result = Run(0, pos[0])
        BY <1>3 DEF SerialInv
      <4>2. 0 \in Nat /\ pos[0] \in Nat /\ 0 <= pos[0]
        BY <1>4
      <4>3. QED
        BY <2>1, <4>1, <4>2, RunAppend
    <3>3. QED
      BY <1>1, <1>2, <2>1, <2>2, <3>1, <3>2 DEF SerialInv, call, Run
  <2>9. ErrorInv'
    BY <1>1, <1>3, <1>5, <1>6, <2>1 DEF ErrorInv, TypeOK, call
  <2>10. QED
    BY <2>4, <2>5, <2>6, <2>7, <2>8, <2>9
<1>11. QED
  BY <1>9, <1>10

\* The caller submits the tasks one after the other.
LEMMA CallerSubmits ==
  ASSUME IInv, Submit
  PROVE  IInv'
<1> USE DEF IInv
<1>1. /\ caller = "submit" /\ submitted < TaskCount
      /\ tpc' = [tpc EXCEPT ![submitted] = "queued"]
      /\ submitted' = submitted + 1
      /\ UNCHANGED <<call, caller, remaining, firstError, pos, local, partials, outcome>>
  BY DEF Submit
<1>2. /\ Items' = Items /\ TaskCount' = TaskCount /\ ChunkTasks' = ChunkTasks
      /\ Parallel' = Parallel
      /\ \A t : First(t)' = First(t) /\ Stop(t)' = Stop(t) /\ Span(t)' = Span(t)
  BY <1>1, SameCall
<1>3. TaskCount \in Nat /\ submitted \in Nat /\ submitted \in ChunkTasks
  <2>1. TaskCount \in Nat /\ submitted \in Nat
    BY TasksFinite DEF TypeOK
  <2>2. QED
    BY <1>1, <2>1 DEF ChunkTasks
<1>4. /\ tpc[submitted] = "absent" /\ tpc'[submitted] = "queued"
      /\ \A t \in ChunkTasks \ {submitted} : tpc'[t] = tpc[t]
  BY <1>1, <1>3 DEF CountInv, TypeOK
<1>5. TypeOK'
  <2>1. submitted' \in 0..TaskCount
    BY <1>1, <1>3
  <2>2. tpc' \in [ChunkTasks -> TaskPC]
    BY <1>1 DEF TypeOK, TaskPC
  <2>3. QED
    BY <1>1, <1>2, <2>1, <2>2 DEF TypeOK, call, outcome
<1>6. CountInv'
  <2>1. \A t \in ChunkTasks : t >= submitted + 1 => tpc'[t] = "absent"
    <3>1. ASSUME NEW t \in ChunkTasks, t >= submitted + 1 PROVE tpc'[t] = "absent"
      <4>1. t >= submitted /\ t # submitted
        BY <1>3, <3>1 DEF ChunkTasks
      <4>2. QED
        BY <1>4, <4>1 DEF CountInv
    <3>2. QED
      BY <3>1
  <2>2. Left' = Left
    BY <1>2, <1>4 DEF Left
  <2>3. Parallel
    BY <1>1 DEF CountInv
  <2>4. QED
    BY <1>1, <1>2, <2>1, <2>2, <2>3 DEF CountInv
<1>7. PosInv'
  <2>1. \A t \in ChunkTasks : /\ tpc'[t] \in NotBegun <=> tpc[t] \in NotBegun
                              /\ tpc'[t] \in Completed <=> tpc[t] \in Completed
                              /\ tpc'[t] = "error" <=> tpc[t] = "error"
    BY <1>4 DEF NotBegun, Completed
  <2>2. QED
    BY <1>1, <1>2, <2>1 DEF PosInv, call, Run
<1>8. CallsInv'
  <2>1. \A t \in ChunkTasks : tpc'[t] \in Stopped <=> tpc[t] \in Stopped
    BY <1>4 DEF Stopped
  <2>2. QED
    BY <1>1, <1>2, <2>1 DEF CallsInv, call, outcome
<1>9. SerialInv' /\ FoldInv' /\ ErrorInv'
  <2>1. UNCHANGED <<caller, kind, total, faulty, folded, result, calls, pos, firstError>>
    BY <1>1 DEF call, outcome
  <2>2. SerialInv'
    BY <1>2, <2>1 DEF SerialInv, Run
  <2>3. FoldInv'
    BY <1>2, <2>1 DEF FoldInv, Combined, Run
  <2>4. ErrorInv'
    BY <2>1 DEF ErrorInv
  <2>5. QED
    BY <2>2, <2>3, <2>4
<1>10. QED
  BY <1>5, <1>6, <1>7, <1>8, <1>9

\* The caller waits: it gets out when no task is left.
LEMMA CallerWaits ==
  ASSUME IInv, SubmitEnd \/ WaitPredicate \/ WaitBlock \/ WaitSpurious
  PROVE  IInv'
<1> USE DEF IInv
<1>1. /\ UNCHANGED <<call, submitted, remaining, firstError, taskVars, outcome>>
      /\ caller \in {"submit", "predicate", "blocking", "wait"}
      /\ \/ caller' \in {"predicate", "blocking", "wait"}
         \/ remaining = 0 /\ caller' = AfterWait
  BY DEF SubmitEnd, WaitPredicate, WaitBlock, WaitSpurious, BatchOver
<1>2. /\ Items' = Items /\ TaskCount' = TaskCount /\ ChunkTasks' = ChunkTasks
      /\ Parallel' = Parallel
      /\ \A t : First(t)' = First(t) /\ Stop(t)' = Stop(t) /\ Span(t)' = Span(t)
  BY <1>1, SameCall
<1>3. Parallel /\ TaskCount \in Nat /\ TaskCount > 1 /\ total # 0
  <2>1. Parallel
    BY <1>1 DEF CountInv
  <2>2. QED
    BY <2>1, ChunkSize DEF Parallel, TypeOK
<1>4. caller' \in CallerPC /\ caller' \in {"predicate", "blocking", "wait", "fold", "returned", "threw"}
  BY <1>1 DEF CallerPC, AfterWait
<1>5. TypeOK' /\ PosInv' /\ CallsInv'
  BY <1>1, <1>4, CallerMoves DEF TypeOK
<1>6. CountInv'
  <2>1. Left' = Left
    BY <1>1, <1>2 DEF Left, taskVars
  <2>2. caller' \in {"fold", "returned", "threw"} => Left = {}
    BY <1>1, <1>3, TasksFinite DEF CountInv
  <2>3. \A t \in ChunkTasks : t >= submitted => tpc'[t] = "absent"
    BY <1>1 DEF CountInv, taskVars
  <2>4. remaining' = Cardinality(Left)
    BY <1>1, <1>3 DEF CountInv
  <2>5. QED
    BY <1>1, <1>2, <1>3, <1>4, <2>1, <2>2, <2>3, <2>4 DEF CountInv
<1>7. SerialInv'
  BY <1>2, <1>3 DEF SerialInv
<1>8. FoldInv'
  <2>1. UNCHANGED <<kind, total, firstError, folded, result>>
    BY <1>1 DEF call, outcome
  <2>2. folded = 0 /\ result = <<>>
    BY <1>1, <1>3 DEF FoldInv
  <2>3. caller' = "fold" => kind = "reduce" /\ firstError = {}
    BY <1>1 DEF AfterWait
  <2>4. caller' = "returned" => kind # "reduce" /\ firstError = {}
    BY <1>1 DEF AfterWait
  <2>5. Combined = 0 /\ Combined' = 0
    BY <1>2, <1>3, <2>1, <2>2, ChunkFacts DEF Combined, TypeOK
  <2>6. Run(0, 0) = <<>>
    BY RunTyped
  <2>7. QED
    BY <2>1, <2>2, <2>3, <2>4, <2>5, <2>6 DEF FoldInv, Run
<1>9. ErrorInv'
  <2>1. UNCHANGED <<total, firstError, faulty, calls>>
    BY <1>1 DEF call, outcome
  <2>2. caller' = "threw" => firstError # {}
    BY <1>1 DEF AfterWait
  <2>3. QED
    BY <1>3, <2>1, <2>2 DEF ErrorInv
<1>10. QED
  BY <1>5, <1>6, <1>7, <1>8, <1>9

\* The fold calls the reducer on the next chunk, in which every item is done.
LEMMA CallerFolds ==
  ASSUME IInv, FoldNext
  PROVE  IInv'
<1> USE DEF IInv
<1> DEFINE f == First(folded)
<1>1. /\ caller = "fold" /\ folded < TaskCount
      /\ calls' = [calls EXCEPT ![f] = @ + 1]
      /\ UNCHANGED <<call, submitted, remaining, taskVars>>
  BY DEF FoldNext, Called
<1>2. /\ Items' = Items /\ TaskCount' = TaskCount /\ ChunkTasks' = ChunkTasks
      /\ Parallel' = Parallel
      /\ \A t : First(t)' = First(t) /\ Stop(t)' = Stop(t) /\ Span(t)' = Span(t)
  BY <1>1, SameCall
<1>3. /\ Parallel /\ TaskCount \in Nat /\ TaskCount > 1 /\ total # 0 /\ total \in Nat
      /\ folded \in Nat /\ folded \in ChunkTasks
  <2>1. Parallel
    BY <1>1 DEF CountInv
  <2>2. TaskCount \in Nat /\ folded \in Nat /\ total \in Nat
    BY TasksFinite DEF TypeOK
  <2>3. QED
    BY <1>1, <2>1, <2>2, ChunkSize DEF Parallel, ChunkTasks
<1>4. /\ f \in Nat /\ Stop(folded) \in Nat /\ f < Stop(folded) /\ Stop(folded) <= total
      /\ Stop(folded) = IF folded + 1 < TaskCount THEN First(folded + 1) ELSE total
  BY <1>3, ChunkFacts
<1>5. f \in Span(folded) /\ f \in Items
  BY <1>3, <1>4 DEF Span, Items
<1>6. kind = "reduce" /\ firstError = {} /\ result = Run(0, f)
  BY <1>1, <1>3 DEF FoldInv, Combined
<1>7. calls[f] = 0
  BY <1>1, <1>3, <1>5, <1>6 DEF CallsInv
<1>8. calls'[f] = 1 /\ \A i \in Items \ {f} : calls'[i] = calls[i]
  BY <1>1, <1>5, <1>7 DEF TypeOK
<1>9. calls' \in [Items -> Nat]
  BY <1>1, <1>5 DEF TypeOK
<1>10. Left' = Left /\ Left = {}
  BY <1>1, <1>2, <1>3 DEF Left, taskVars, CountInv
<1>11. UNCHANGED <<kind, total, faulty, tpc, pos, local, partials>>
  BY <1>1 DEF call, taskVars
<1>12. ASSUME NEW t \in ChunkTasks, NEW i \in Span(t), i = f PROVE t = folded
  BY <1>3, <1>5, <1>12, ChunksApart
<1>13. ASSUME NEW t \in ChunkTasks, NEW i \in Span(t) PROVE i \in Items
  BY <1>3, ChunksApart
<1> HIDE DEF f
<1>14. CASE f \in faulty
  <2>1. caller' = "threw" /\ firstError' = {f} /\ UNCHANGED <<result, folded>>
    BY <1>14 DEF FoldNext, f
  <2>2. TypeOK'
    BY <1>1, <1>2, <1>5, <1>9, <1>11, <2>1 DEF TypeOK, CallerPC
  <2>3. CountInv'
    BY <1>1, <1>2, <1>3, <1>10, <1>11, <2>1 DEF CountInv
  <2>4. PosInv'
    BY <1>2, <1>11, <2>1 DEF PosInv, Run
  <2>5. CallsInv'
    <3>1. ASSUME NEW t \in ChunkTasks, NEW i \in Span(t), i = First(t)
          PROVE  /\ t < folded => calls'[i] = 1 /\ i \notin faulty
                 /\ t > folded => calls'[i] = 0
                 /\ t = folded => calls'[i] = 1
      BY <1>1, <1>3, <1>6, <1>8, <1>12, <1>13, <3>1 DEF CallsInv, f, ChunkTasks
    <3>2. ASSUME NEW t \in ChunkTasks, NEW i \in Span(t), i # First(t)
          PROVE  /\ i < pos[t] => calls'[i] = 1 /\ i \notin faulty
                 /\ i > pos[t] => calls'[i] = 0
                 /\ i = pos[t] => calls'[i] = IF tpc[t] \in Stopped THEN 1 ELSE 0
      <4>1. calls'[i] = calls[i]
        BY <1>8, <1>12, <1>13, <3>2 DEF f
      <4>2. QED
        BY <1>3, <3>2, <4>1 DEF CallsInv
    <3>3. QED
      BY <1>2, <1>6, <1>11, <2>1, <3>1, <3>2 DEF CallsInv
  <2>6. SerialInv' /\ FoldInv'
    BY <1>2, <1>3, <1>6, <1>11, <2>1 DEF SerialInv, FoldInv
  <2>7. ErrorInv'
    BY <1>3, <1>8, <1>11, <1>14, <2>1 DEF ErrorInv
  <2>8. QED
    BY <2>2, <2>3, <2>4, <2>5, <2>6, <2>7
<1>15. CASE f \notin faulty
  <2>1. /\ result' = result \o partials[folded] /\ folded' = folded + 1
        /\ UNCHANGED <<caller, firstError>>
    BY <1>15 DEF FoldNext, f
  <2>2. result' = Run(0, Stop(folded))
    <3>1. partials[folded] = Run(f, Stop(folded))
      BY <1>3, <1>6, <1>10 DEF Left, PosInv, Completed, f
    <3>2. 0 \in Nat /\ 0 <= f /\ f <= Stop(folded)
      BY <1>4 DEF f
    <3>3. Run(0, f) \o Run(f, Stop(folded)) = Run(0, Stop(folded))
      BY <1>4, <3>2, RunConcat DEF f
    <3>4. QED
      BY <1>6, <2>1, <3>1, <3>3
  <2>3. TypeOK'
    <3>1. result' \in Seq(Items)
      BY <1>3, <2>1, ConcatProperties DEF TypeOK
    <3>2. folded' \in 0..TaskCount
      BY <1>1, <1>3, <2>1
    <3>3. QED
      BY <1>1, <1>2, <1>9, <1>11, <2>1, <3>1, <3>2 DEF TypeOK
  <2>4. CountInv'
    BY <1>1, <1>2, <1>3, <1>10, <1>11, <2>1 DEF CountInv
  <2>5. PosInv'
    BY <1>2, <1>11, <2>1 DEF PosInv, Run
  <2>6. CallsInv'
    <3>1. ASSUME NEW t \in ChunkTasks, NEW i \in Span(t), i = First(t)
          PROVE  /\ t < folded + 1 => calls'[i] = 1 /\ i \notin faulty
                 /\ t > folded + 1 => calls'[i] = 0
                 /\ t = folded + 1 => calls'[i] = 0
      <4>1. t \in Nat
        BY <1>3, ChunkFacts
      <4>2. CASE t = folded
        BY <1>3, <1>8, <1>15, <3>1, <4>2 DEF f
      <4>3. CASE t # folded
        <5>1. calls'[i] = calls[i]
          BY <1>8, <1>12, <1>13, <3>1, <4>3
        <5>2. /\ t < folded => calls[i] = 1 /\ i \notin faulty
              /\ t > folded => calls[i] = 0
          BY <1>3, <1>6, <3>1 DEF CallsInv
        <5>3. QED
          BY <1>3, <4>1, <4>3, <5>1, <5>2
      <4>4. QED
        BY <4>2, <4>3
    <3>2. ASSUME NEW t \in ChunkTasks, NEW i \in Span(t), i # First(t)
          PROVE  /\ i < pos[t] => calls'[i] = 1 /\ i \notin faulty
                 /\ i > pos[t] => calls'[i] = 0
                 /\ i = pos[t] => calls'[i] = IF tpc[t] \in Stopped THEN 1 ELSE 0
      <4>1. calls'[i] = calls[i]
        BY <1>8, <1>12, <1>13, <3>2 DEF f
      <4>2. QED
        BY <1>3, <3>2, <4>1 DEF CallsInv
    <3>3. QED
      BY <1>2, <1>6, <1>11, <2>1, <3>1, <3>2 DEF CallsInv
  <2>7. FoldInv'
    <3>1. Combined' = Stop(folded)
      BY <1>2, <1>4, <1>11, <2>1 DEF Combined
    <3>2. QED
      BY <1>1, <1>2, <1>6, <1>11, <2>1, <2>2, <3>1 DEF FoldInv, Run
  <2>8. SerialInv' /\ ErrorInv'
    BY <1>1, <1>2, <1>3, <1>6, <1>11, <2>1 DEF SerialInv, ErrorInv
  <2>9. QED
    BY <2>3, <2>4, <2>5, <2>6, <2>7, <2>8
<1>16. QED
  BY <1>14, <1>15

\* The caller returns what the fold has combined.
LEMMA CallerReturns ==
  ASSUME IInv, FoldReturn
  PROVE  IInv'
<1> USE DEF IInv
<1>1. /\ UNCHANGED <<call, submitted, remaining, firstError, taskVars, outcome>>
      /\ caller = "fold" /\ folded = TaskCount /\ caller' = "returned"
  BY DEF FoldReturn
<1>2. /\ Items' = Items /\ TaskCount' = TaskCount /\ ChunkTasks' = ChunkTasks
      /\ Parallel' = Parallel
      /\ \A t : First(t)' = First(t) /\ Stop(t)' = Stop(t) /\ Span(t)' = Span(t)
  BY <1>1, SameCall
<1>3. Parallel /\ TaskCount \in Nat /\ TaskCount > 1 /\ total # 0
  <2>1. Parallel
    BY <1>1 DEF CountInv
  <2>2. QED
    BY <2>1, ChunkSize DEF Parallel, TypeOK
<1>4. TypeOK' /\ PosInv' /\ CallsInv'
  BY <1>1, CallerMoves DEF TypeOK, CallerPC
<1>5. Left' = Left /\ Left = {}
  BY <1>1, <1>2, <1>3 DEF Left, taskVars, CountInv
<1>6. CountInv'
  BY <1>1, <1>2, <1>3, <1>5 DEF CountInv, taskVars
<1>7. UNCHANGED <<kind, total, faulty, firstError, folded, result, calls>>
  BY <1>1 DEF call, outcome
<1>8. SerialInv' /\ ErrorInv'
  BY <1>1, <1>2, <1>3, <1>7 DEF SerialInv, ErrorInv
<1>9. FoldInv'
  <2>1. kind = "reduce" /\ firstError = {} /\ result = Run(0, total)
    BY <1>1, <1>3 DEF FoldInv, Combined
  <2>2. QED
    BY <1>1, <1>2, <1>7, <2>1 DEF FoldInv, Run
<1>10. QED
  BY <1>4, <1>6, <1>8, <1>9

-----------------------------------------------------------------------------
(* The steps of the tasks *)

\* Where the call is while a task is still in it.
LEMMA TaskFacts ==
  ASSUME IInv, NEW t \in ChunkTasks, tpc[t] # "absent"
  PROVE  /\ Parallel /\ TaskCount \in Nat /\ TaskCount > 1
         /\ total \in Nat /\ total # 0
         /\ caller \notin {"start", "serial"}
         /\ tpc[t] \notin {"notify", "over"} =>
               t \in Left /\ caller \notin {"fold", "returned", "threw"} /\ folded = 0
         /\ remaining = Cardinality(Left)
         /\ First(t) \in Nat /\ Stop(t) \in Nat /\ First(t) < Stop(t) /\ Stop(t) <= total
         /\ pos[t] \in Nat /\ First(t) <= pos[t] /\ pos[t] <= Stop(t)
         /\ First(t) \in Items
<1> USE DEF IInv
<1>1. TaskCount \in Nat /\ total \in Nat
  BY TasksFinite DEF TypeOK
<1>2. /\ First(t) \in Nat /\ Stop(t) \in Nat /\ First(t) < Stop(t) /\ Stop(t) <= total
      /\ t \in Nat
  BY <1>1, ChunkFacts
<1>3. submitted # 0
  <2>1. ~(t >= submitted)
    BY DEF CountInv
  <2>2. QED
    BY <1>2, <2>1
<1>4. Parallel /\ caller # "start"
  BY <1>3 DEF CountInv
<1>5. TaskCount > 1 /\ total # 0
  BY <1>1, <1>2, <1>4 DEF Parallel
<1>6. caller # "serial" /\ remaining = Cardinality(Left)
  BY <1>4 DEF CountInv
<1>7. tpc[t] \notin {"notify", "over"} =>
         t \in Left /\ caller \notin {"fold", "returned", "threw"} /\ folded = 0
  BY <1>4 DEF Left, CountInv, FoldInv
<1>8. pos[t] \in Nat /\ First(t) <= pos[t] /\ pos[t] <= Stop(t)
  BY <1>2 DEF PosInv
<1>9. First(t) \in Items
  BY <1>1, <1>2 DEF Items
<1>10. QED
  BY <1>1, <1>2, <1>4, <1>5, <1>6, <1>7, <1>8, <1>9

\* A task begins its chunk; a task of par_reduce at the second item of it.
LEMMA TaskBegins ==
  ASSUME IInv, NEW t \in ChunkTasks, TaskBegin(t)
  PROVE  IInv'
<1> USE DEF IInv
<1>1. /\ tpc[t] = "queued" /\ tpc' = [tpc EXCEPT ![t] = "running"]
      /\ UNCHANGED <<call, caller, submitted, remaining, firstError, partials, outcome>>
  BY DEF TaskBegin
<1>2. /\ Items' = Items /\ TaskCount' = TaskCount /\ ChunkTasks' = ChunkTasks
      /\ Parallel' = Parallel
      /\ \A u : First(u)' = First(u) /\ Stop(u)' = Stop(u) /\ Span(u)' = Span(u)
  BY <1>1, SameCall
<1>3. /\ Parallel /\ TaskCount \in Nat /\ TaskCount > 1 /\ total # 0 /\ total \in Nat
      /\ caller \notin {"start", "serial", "fold", "returned", "threw"} /\ folded = 0
      /\ First(t) \in Nat /\ Stop(t) \in Nat /\ First(t) < Stop(t) /\ Stop(t) <= total
      /\ First(t) \in Items
  BY <1>1, TaskFacts
<1>4. UNCHANGED <<kind, total, faulty, folded, result, calls>>
  BY <1>1 DEF call, outcome
<1>5. tpc'[t] = "running" /\ \A u \in ChunkTasks \ {t} : tpc'[u] = tpc[u]
  BY <1>1 DEF TypeOK
<1>6. pos[t] = First(t) /\ local[t] = <<>>
  <2>1. pos[t] = First(t) /\ local[t] = Run(First(t), First(t))
    BY <1>1, <1>3 DEF PosInv, NotBegun
  <2>2. QED
    BY <1>3, <2>1, RunTyped
<1>7. /\ \A u \in ChunkTasks \ {t} : pos'[u] = pos[u] /\ local'[u] = local[u]
      /\ pos'[t] = IF kind = "reduce" THEN First(t) + 1 ELSE First(t)
      /\ local'[t] = Run(First(t), pos'[t])
      /\ pos' \in [ChunkTasks -> 0..total] /\ local' \in [ChunkTasks -> Seq(Items)]
  <2>1. CASE kind = "reduce"
    <3>1. /\ local' = [local EXCEPT ![t] = <<First(t)>>]
          /\ pos' = [pos EXCEPT ![t] = First(t) + 1]
      BY <2>1 DEF TaskBegin
    <3>2. First(t) + 1 \in 0..total
      BY <1>3
    <3>3. Run(First(t), First(t) + 1) = <<First(t)>>
      <4>1. Append(Run(First(t), First(t)), First(t)) = Run(First(t), First(t) + 1)
        <5>1. First(t) <= First(t)
          BY <1>3
        <5>2. QED
          BY <1>3, <5>1, RunAppend
      <4>2. Run(First(t), First(t)) = <<>>
        BY <1>3, RunTyped
      <4>3. Append(<<>>, First(t)) = <<First(t)>>
        OBVIOUS
      <4>4. QED
        BY <4>1, <4>2, <4>3
    <3>4. <<First(t)>> \in Seq(Items)
      BY <1>3
    <3>5. QED
      BY <2>1, <3>1, <3>2, <3>3, <3>4 DEF TypeOK
  <2>2. CASE kind # "reduce"
    <3>1. local' = local /\ pos' = pos
      BY <2>2 DEF TaskBegin
    <3>2. Run(First(t), First(t)) = <<>>
      BY <1>3, RunTyped
    <3>3. QED
      BY <1>6, <2>2, <3>1, <3>2 DEF TypeOK
  <2>3. QED
    BY <2>1, <2>2
<1>8. TypeOK'
  BY <1>1, <1>2, <1>4, <1>7 DEF TypeOK, TaskPC
<1>9. CountInv'
  <2>1. Left' = Left
    BY <1>1, <1>2, <1>5 DEF Left
  <2>2. \A u \in ChunkTasks : u >= submitted => tpc'[u] = "absent"
    BY <1>1, <1>5 DEF CountInv
  <2>3. QED
    BY <1>1, <1>2, <1>3, <2>1, <2>2 DEF CountInv
<1>10. PosInv'
  <2>1. ASSUME NEW u \in ChunkTasks
        PROVE  /\ tpc'[u] \in NotBegun => pos'[u] = First(u) \/ ~Parallel
               /\ pos'[u] \in First(u)..Stop(u)
               /\ kind = "reduce" /\ tpc'[u] \notin NotBegun => pos'[u] > First(u)
               /\ tpc'[u] = "error" => pos'[u] < Stop(u) /\ pos'[u] \in faulty
               /\ tpc'[u] \in Completed =>
                     firstError # {} \/ (pos'[u] = Stop(u) /\ partials[u] = Run(First(u), Stop(u)))
               /\ local'[u] = Run(First(u), pos'[u])
    <3>1. CASE u = t
      BY <1>3, <1>5, <1>7, <3>1 DEF NotBegun, Completed
    <3>2. CASE u # t
      BY <1>3, <1>5, <1>7, <3>2 DEF PosInv
    <3>3. QED
      BY <3>1, <3>2
  <2>2. QED
    BY <1>1, <1>2, <1>4, <2>1 DEF PosInv, Run
<1>11. CallsInv'
  <2>1. ASSUME NEW u \in ChunkTasks, NEW i \in Span(u), ~(kind = "reduce" /\ i = First(u))
        PROVE  /\ i < pos'[u] => calls[i] = 1 /\ i \notin faulty
               /\ i > pos'[u] => calls[i] = 0
               /\ i = pos'[u] => calls[i] = IF tpc'[u] \in Stopped THEN 1 ELSE 0
    <3>1. CASE u # t
      <4>1. /\ i < pos[u] => calls[i] = 1 /\ i \notin faulty
            /\ i > pos[u] => calls[i] = 0
            /\ i = pos[u] => calls[i] = IF tpc[u] \in Stopped THEN 1 ELSE 0
        BY <1>3, <2>1 DEF CallsInv
      <4>2. pos'[u] = pos[u] /\ tpc'[u] = tpc[u]
        BY <1>5, <1>7, <3>1
      <4>3. QED
        BY <4>1, <4>2
    <3>2. CASE u = t
      <4>1. i \in Nat /\ i >= First(t)
        BY <1>3, <3>2 DEF Span
      <4>2. /\ i > First(t) => calls[i] = 0
            /\ i = First(t) => calls[i] = 0
        BY <1>1, <1>3, <1>6, <2>1, <3>2 DEF CallsInv, Stopped
      <4>3. i >= pos'[t]
        BY <1>3, <1>7, <2>1, <3>2, <4>1
      <4>4. pos'[t] \in Nat
        BY <1>3, <1>7
      <4>5. QED
        BY <1>3, <1>5, <3>2, <4>1, <4>2, <4>3, <4>4 DEF Stopped
    <3>3. QED
      BY <3>1, <3>2
  <2>2. QED
    BY <1>1, <1>2, <1>3, <1>4, <2>1 DEF CallsInv
<1>12. SerialInv' /\ ErrorInv' /\ FoldInv'
  BY <1>1, <1>2, <1>3, <1>4 DEF SerialInv, ErrorInv, FoldInv
<1>13. QED
  BY <1>8, <1>9, <1>10, <1>11, <1>12

\* A task calls the function on its next item.
LEMMA TaskCalls ==
  ASSUME IInv, NEW t \in ChunkTasks, TaskItem(t)
  PROVE  IInv'
<1> USE DEF IInv
<1> DEFINE p == pos[t]
<1>1. /\ tpc[t] = "running" /\ p < Stop(t)
      /\ calls' = [calls EXCEPT ![p] = @ + 1]
      /\ UNCHANGED <<call, caller, submitted, remaining, firstError, partials, folded, result>>
  BY DEF TaskItem, Called
<1>2. /\ Items' = Items /\ TaskCount' = TaskCount /\ ChunkTasks' = ChunkTasks
      /\ Parallel' = Parallel
      /\ \A u : First(u)' = First(u) /\ Stop(u)' = Stop(u) /\ Span(u)' = Span(u)
  BY <1>1, SameCall
<1>3. /\ Parallel /\ TaskCount \in Nat /\ TaskCount > 1 /\ total # 0 /\ total \in Nat
      /\ caller \notin {"start", "serial", "fold", "returned", "threw"} /\ folded = 0
      /\ First(t) \in Nat /\ Stop(t) \in Nat /\ First(t) < Stop(t) /\ Stop(t) <= total
      /\ p \in Nat /\ First(t) <= p
  BY <1>1, TaskFacts
<1>4. UNCHANGED <<kind, total, faulty>>
  BY <1>1 DEF call
<1>5. p \in Span(t) /\ p \in Items
  BY <1>1, <1>3 DEF Span, Items
<1>6. ~(kind = "reduce" /\ p = First(t))
  BY <1>1, <1>3 DEF PosInv, NotBegun
<1>7. calls[p] = 0
  BY <1>1, <1>3, <1>5, <1>6 DEF CallsInv, Stopped
<1>8. calls'[p] = 1 /\ \A i \in Items \ {p} : calls'[i] = calls[i]
  BY <1>1, <1>5, <1>7 DEF TypeOK
<1>9. calls' \in [Items -> Nat]
  BY <1>1, <1>5 DEF TypeOK
<1>10. ASSUME NEW u \in ChunkTasks, NEW i \in Span(u), i = p PROVE u = t
  BY <1>3, <1>5, <1>10, ChunksApart
<1>11. ASSUME NEW u \in ChunkTasks, NEW i \in Span(u) PROVE i \in Items
  BY <1>3, ChunksApart
<1>12. /\ \A u \in ChunkTasks \ {t} : pos'[u] = pos[u] /\ local'[u] = local[u] /\ tpc'[u] = tpc[u]
       /\ \/ /\ p \in faulty /\ tpc'[t] = "error" /\ pos'[t] = p /\ local'[t] = Run(First(t), p)
          \/ /\ p \notin faulty /\ tpc'[t] = "running" /\ pos'[t] = p + 1
             /\ local'[t] = Run(First(t), p + 1)
       /\ tpc' \in [ChunkTasks -> TaskPC] /\ pos' \in [ChunkTasks -> 0..total]
       /\ local' \in [ChunkTasks -> Seq(Items)]
  <2>1. local[t] = Run(First(t), p)
    BY <1>3 DEF PosInv
  <2>2. CASE p \in faulty
    <3>1. tpc' = [tpc EXCEPT ![t] = "error"] /\ UNCHANGED <<pos, local>>
      BY <2>2 DEF TaskItem
    <3>2. QED
      BY <2>1, <2>2, <3>1 DEF TypeOK, TaskPC
  <2>3. CASE p \notin faulty
    <3>1. /\ tpc' = tpc
          /\ pos' = [pos EXCEPT ![t] = p + 1]
          /\ local' = [local EXCEPT ![t] = Append(local[t], p)]
      BY <2>3 DEF TaskItem
    <3>2. Append(local[t], p) = Run(First(t), p + 1)
      BY <1>3, <2>1, RunAppend
    <3>3. Append(local[t], p) \in Seq(Items)
      BY <1>5, AppendProperties DEF TypeOK
    <3>4. p + 1 \in 0..total
      BY <1>1, <1>3
    <3> HIDE DEF p
    <3>5. QED
      BY <1>1, <2>3, <3>1, <3>2, <3>3, <3>4 DEF TypeOK
  <2>4. QED
    BY <2>2, <2>3
<1> HIDE DEF p
<1>13. TypeOK'
  BY <1>1, <1>2, <1>4, <1>9, <1>12 DEF TypeOK
<1>14. CountInv'
  <2>1. Left' = Left
    BY <1>1, <1>2, <1>12 DEF Left
  <2>2. \A u \in ChunkTasks : u >= submitted => tpc'[u] = "absent"
    BY <1>1, <1>12 DEF CountInv
  <2>3. QED
    BY <1>1, <1>2, <1>3, <2>1, <2>2 DEF CountInv
<1>15. PosInv'
  <2>1. ASSUME NEW u \in ChunkTasks
        PROVE  /\ tpc'[u] \in NotBegun => pos'[u] = First(u) \/ ~Parallel
               /\ pos'[u] \in First(u)..Stop(u)
               /\ kind = "reduce" /\ tpc'[u] \notin NotBegun => pos'[u] > First(u)
               /\ tpc'[u] = "error" => pos'[u] < Stop(u) /\ pos'[u] \in faulty
               /\ tpc'[u] \in Completed =>
                     firstError # {} \/ (pos'[u] = Stop(u) /\ partials[u] = Run(First(u), Stop(u)))
               /\ local'[u] = Run(First(u), pos'[u])
    <3>1. CASE u = t
      BY <1>1, <1>3, <1>6, <1>12, <3>1 DEF NotBegun, Completed
    <3>2. CASE u # t
      BY <1>3, <1>12, <3>2 DEF PosInv
    <3>3. QED
      BY <3>1, <3>2
  <2>2. QED
    BY <1>1, <1>2, <1>4, <2>1 DEF PosInv, Run
<1>16. CallsInv'
  <2>1. ASSUME NEW u \in ChunkTasks, NEW i \in Span(u), ~(kind = "reduce" /\ i = First(u))
        PROVE  /\ i < pos'[u] => calls'[i] = 1 /\ i \notin faulty
               /\ i > pos'[u] => calls'[i] = 0
               /\ i = pos'[u] => calls'[i] = IF tpc'[u] \in Stopped THEN 1 ELSE 0
    <3>1. /\ i < pos[u] => calls[i] = 1 /\ i \notin faulty
          /\ i > pos[u] => calls[i] = 0
          /\ i = pos[u] => calls[i] = IF tpc[u] \in Stopped THEN 1 ELSE 0
      BY <1>3, <2>1 DEF CallsInv
    <3>2. CASE u # t
      <4>1. pos'[u] = pos[u] /\ tpc'[u] = tpc[u] /\ calls'[i] = calls[i]
        BY <1>8, <1>10, <1>11, <1>12, <3>2
      <4>2. QED
        BY <3>1, <4>1
    <3>3. CASE u = t /\ i = p
      BY <1>3, <1>8, <1>12, <3>3 DEF Stopped
    <3>4. CASE u = t /\ i # p
      <4>1. calls'[i] = calls[i] /\ pos[t] = p
        BY <1>8, <1>11, <3>4 DEF p
      <4>2. i \in Nat
        BY <1>3, <3>4 DEF Span
      <4>3. QED
        BY <1>3, <1>12, <3>1, <3>4, <4>1, <4>2 DEF Stopped
    <3>5. QED
      BY <3>2, <3>3, <3>4
  <2>2. ASSUME NEW u \in ChunkTasks, NEW i \in Span(u), kind = "reduce" /\ i = First(u)
        PROVE  calls'[i] = calls[i]
    <3>1. i # p
      BY <1>6, <1>10, <2>2
    <3>2. QED
      BY <1>8, <1>11, <3>1
  <2>3. QED
    BY <1>1, <1>2, <1>3, <1>4, <2>1, <2>2 DEF CallsInv
<1>17. SerialInv' /\ FoldInv'
  BY <1>1, <1>2, <1>3, <1>4 DEF SerialInv, FoldInv
<1>18. ErrorInv'
  BY <1>1, <1>3, <1>4, <1>7, <1>8 DEF ErrorInv, TypeOK
<1>19. QED
  BY <1>13, <1>14, <1>15, <1>16, <1>17, <1>18

\* Steps of a task that calls no function.
LEMMA CallsKept ==
  ASSUME IInv, UNCHANGED <<call, pos, calls, folded>>,
         caller = "threw" => caller' = "threw",
         \A u \in ChunkTasks : (tpc'[u] \in Stopped <=> tpc[u] \in Stopped) \/ pos[u] = Stop(u)
  PROVE  CallsInv'
<1> USE DEF IInv
<1>1. /\ ChunkTasks' = ChunkTasks /\ Parallel' = Parallel
      /\ \A u : First(u)' = First(u) /\ Stop(u)' = Stop(u) /\ Span(u)' = Span(u)
  BY SameCall
<1>2. ASSUME NEW u \in ChunkTasks, NEW i \in Span(u), i = pos[u], Parallel
      PROVE  tpc'[u] \in Stopped <=> tpc[u] \in Stopped
  <2>1. i < Stop(u) /\ i \in Nat
    BY ChunkFacts DEF Span, TypeOK
  <2>2. i # Stop(u)
    BY <2>1
  <2>3. QED
    BY <1>2, <2>2
<1>3. QED
  BY <1>1, <1>2 DEF CallsInv, call

\* A task that is through its chunk stores what it has combined.
LEMMA TaskEnds ==
  ASSUME IInv, NEW t \in ChunkTasks, TaskEnd(t) \/ TaskError(t)
  PROVE  IInv'
<1> USE DEF IInv
<1>1. /\ tpc[t] \in {"running", "error"} /\ tpc' = [tpc EXCEPT ![t] = "complete"]
      /\ UNCHANGED <<call, caller, submitted, remaining, pos, local, outcome>>
      /\ \/ /\ tpc[t] = "running" /\ pos[t] = Stop(t) /\ firstError' = firstError
            /\ partials' = [partials EXCEPT ![t] = local[t]]
         \/ /\ tpc[t] = "error" /\ partials' = partials
            /\ firstError' = IF firstError = {} THEN {pos[t]} ELSE firstError
  BY DEF TaskEnd, TaskError, Slot
<1>2. /\ Items' = Items /\ TaskCount' = TaskCount /\ ChunkTasks' = ChunkTasks
      /\ Parallel' = Parallel
      /\ \A u : First(u)' = First(u) /\ Stop(u)' = Stop(u) /\ Span(u)' = Span(u)
  BY <1>1, SameCall
<1>3. /\ Parallel /\ TaskCount \in Nat /\ TaskCount > 1 /\ total # 0 /\ total \in Nat
      /\ caller \notin {"start", "serial", "fold", "returned", "threw"} /\ folded = 0
      /\ First(t) \in Nat /\ Stop(t) \in Nat /\ First(t) < Stop(t) /\ Stop(t) <= total
      /\ pos[t] \in Nat /\ First(t) <= pos[t]
  BY <1>1, TaskFacts
<1>4. UNCHANGED <<kind, total, faulty, folded, result, calls>>
  BY <1>1 DEF call, outcome
<1>5. tpc'[t] = "complete" /\ \A u \in ChunkTasks \ {t} : tpc'[u] = tpc[u]
  BY <1>1 DEF TypeOK
<1>6. tpc[t] = "error" =>
         pos[t] \in faulty /\ pos[t] \in Items /\ pos[t] \in Span(t) /\ calls[pos[t]] = 1
  <2>1. SUFFICES ASSUME tpc[t] = "error"
                 PROVE  pos[t] \in faulty /\ pos[t] \in Items /\ pos[t] \in Span(t) /\ calls[pos[t]] = 1
    OBVIOUS
  <2>2. pos[t] < Stop(t) /\ pos[t] \in faulty
    BY <2>1 DEF PosInv
  <2>3. pos[t] \in Items /\ pos[t] \in Span(t)
    BY <1>3, <2>2 DEF Items, Span
  <2>4. ~(kind = "reduce" /\ pos[t] = First(t))
    BY <1>3, <2>1 DEF PosInv, NotBegun
  <2>5. calls[pos[t]] = 1
    BY <1>3, <2>1, <2>3, <2>4 DEF CallsInv, Stopped
  <2>6. QED
    BY <2>2, <2>3, <2>5
<1>7. /\ partials' \in [ChunkTasks -> Seq(Items)]
      /\ \A u \in ChunkTasks \ {t} : partials'[u] = partials[u]
      /\ tpc[t] = "running" => partials'[t] = Run(First(t), Stop(t))
  <2>1. tpc[t] = "running" => local[t] = Run(First(t), Stop(t))
    BY <1>1, <1>3 DEF PosInv
  <2>2. QED
    BY <1>1, <2>1 DEF TypeOK
<1>8. /\ firstError' \subseteq Items
      /\ firstError # {} => firstError' # {}
      /\ tpc[t] = "error" => firstError' # {}
      /\ \A i \in firstError' : i \in faulty /\ calls[i] = 1
  BY <1>1, <1>6 DEF TypeOK, ErrorInv
<1>9. TypeOK'
  BY <1>1, <1>2, <1>4, <1>7, <1>8 DEF TypeOK, TaskPC
<1>10. CountInv'
  <2>1. Left' = Left
    BY <1>1, <1>2, <1>5 DEF Left
  <2>2. \A u \in ChunkTasks : u >= submitted => tpc'[u] = "absent"
    BY <1>1, <1>5 DEF CountInv
  <2>3. QED
    BY <1>1, <1>2, <1>3, <2>1, <2>2 DEF CountInv
<1>11. PosInv'
  <2>1. ASSUME NEW u \in ChunkTasks
        PROVE  /\ tpc'[u] \in NotBegun => pos[u] = First(u) \/ ~Parallel
               /\ pos[u] \in First(u)..Stop(u)
               /\ kind = "reduce" /\ tpc'[u] \notin NotBegun => pos[u] > First(u)
               /\ tpc'[u] = "error" => pos[u] < Stop(u) /\ pos[u] \in faulty
               /\ tpc'[u] \in Completed =>
                     firstError' # {} \/ (pos[u] = Stop(u) /\ partials'[u] = Run(First(u), Stop(u)))
               /\ local[u] = Run(First(u), pos[u])
    <3>1. CASE u = t
      <4>1. pos[t] \in First(t)..Stop(t) /\ local[t] = Run(First(t), pos[t])
        BY <1>3 DEF PosInv
      <4>2. kind = "reduce" => pos[t] > First(t)
        BY <1>1 DEF PosInv, NotBegun
      <4>3. firstError' # {} \/ (pos[t] = Stop(t) /\ partials'[t] = Run(First(t), Stop(t)))
        BY <1>1, <1>7, <1>8
      <4>4. QED
        BY <1>5, <3>1, <4>1, <4>2, <4>3 DEF NotBegun
    <3>2. CASE u # t
      BY <1>3, <1>5, <1>7, <1>8, <3>2 DEF PosInv
    <3>3. QED
      BY <3>1, <3>2
  <2>2. QED
    BY <1>1, <1>2, <1>4, <2>1 DEF PosInv, Run
<1>12. CallsInv'
  <2>1. \A u \in ChunkTasks : (tpc'[u] \in Stopped <=> tpc[u] \in Stopped) \/ pos[u] = Stop(u)
    BY <1>1, <1>5 DEF Stopped
  <2>2. QED
    BY <1>1, <1>4, <2>1, CallsKept
<1>13. SerialInv' /\ FoldInv' /\ ErrorInv'
  BY <1>1, <1>2, <1>3, <1>4, <1>8 DEF SerialInv, FoldInv, ErrorInv
<1>14. QED
  BY <1>9, <1>10, <1>11, <1>12, <1>13

\* complete_batch_task: the count is of the tasks that are left.
LEMMA TaskCompletes ==
  ASSUME IInv, NEW t \in ChunkTasks, TaskComplete(t) \/ TaskNotify(t)
  PROVE  IInv'
<1> USE DEF IInv
<1>1. /\ tpc[t] \in {"complete", "notify"}
      /\ UNCHANGED <<call, submitted, firstError, pos, local, partials, outcome>>
      /\ \/ /\ tpc[t] = "complete" /\ remaining' = remaining - 1 /\ caller' = caller
            /\ tpc' = [tpc EXCEPT ![t] = IF remaining = 1 THEN "notify" ELSE "over"]
         \/ /\ tpc[t] = "notify" /\ remaining' = remaining
            /\ caller' = IF caller = "wait" THEN "predicate" ELSE caller
            /\ tpc' = [tpc EXCEPT ![t] = "over"]
  BY DEF TaskComplete, TaskNotify
<1>2. /\ Items' = Items /\ TaskCount' = TaskCount /\ ChunkTasks' = ChunkTasks
      /\ Parallel' = Parallel
      /\ \A u : First(u)' = First(u) /\ Stop(u)' = Stop(u) /\ Span(u)' = Span(u)
  BY <1>1, SameCall
<1>3. /\ Parallel /\ TaskCount \in Nat /\ TaskCount > 1 /\ total # 0
      /\ caller \notin {"start", "serial"} /\ remaining = Cardinality(Left)
      /\ tpc[t] = "complete" => t \in Left
  BY <1>1, TaskFacts
<1>4. UNCHANGED <<kind, total, faulty, folded, result, calls>>
  BY <1>1 DEF call, outcome
<1>5. tpc'[t] \in {"notify", "over"} /\ \A u \in ChunkTasks \ {t} : tpc'[u] = tpc[u]
  BY <1>1 DEF TypeOK
<1>6. Left' = Left \ {t}
  BY <1>2, <1>5 DEF Left
<1>7. remaining' = Cardinality(Left') /\ remaining' \in 0..TaskCount
  <2>1. IsFiniteSet(Left) /\ Cardinality(Left) \in 0..TaskCount
    BY TasksFinite
  <2>2. CASE tpc[t] = "complete"
    <3>1. Cardinality(Left \ {t}) = Cardinality(Left) - 1 /\ Cardinality(Left \ {t}) \in Nat
      <4>1. Cardinality(Left \ {t}) = Cardinality(Left) - 1
        BY <1>3, <2>1, <2>2, FS_RemoveElement
      <4>2. IsFiniteSet(Left \ {t})
        BY <2>1, FS_Subset
      <4>3. QED
        BY <4>1, <4>2, FS_CardinalityType
    <3>2. QED
      BY <1>1, <1>3, <1>6, <2>1, <2>2, <3>1
  <2>3. CASE tpc[t] = "notify"
    <3>1. t \notin Left
      BY <2>3 DEF Left
    <3>2. Left' = Left
      BY <1>6, <3>1
    <3>3. QED
      BY <1>1, <1>3, <2>1, <2>3, <3>2
  <2>4. QED
    BY <1>1, <2>2, <2>3
<1>8. /\ caller' \in CallerPC /\ caller' \notin {"start", "serial"}
      /\ caller' \in {"fold", "returned", "threw"} => caller' = caller
      /\ caller \in {"fold", "returned", "threw"} => caller' = caller
  BY <1>1, <1>3 DEF TypeOK, CallerPC
<1>9. TypeOK'
  <2>1. tpc' \in [ChunkTasks -> TaskPC]
    BY <1>1 DEF TypeOK, TaskPC
  <2>2. QED
    BY <1>1, <1>2, <1>4, <1>7, <1>8, <2>1 DEF TypeOK
<1>10. CountInv'
  <2>1. \A u \in ChunkTasks : u >= submitted => tpc'[u] = "absent"
    BY <1>1, <1>5 DEF CountInv
  <2>2. caller' \in {"fold", "returned", "threw"} => Left' = {}
    BY <1>3, <1>6, <1>8 DEF CountInv
  <2>3. QED
    BY <1>1, <1>2, <1>3, <1>7, <1>8, <2>1, <2>2 DEF CountInv
<1>11. PosInv'
  <2>1. \A u \in ChunkTasks : /\ tpc'[u] \in NotBegun <=> tpc[u] \in NotBegun
                              /\ tpc'[u] \in Completed <=> tpc[u] \in Completed
                              /\ tpc'[u] = "error" <=> tpc[u] = "error"
    BY <1>1, <1>5 DEF NotBegun, Completed
  <2>2. QED
    BY <1>1, <1>2, <1>4, <2>1 DEF PosInv, Run
<1>12. CallsInv'
  <2>1. \A u \in ChunkTasks : tpc'[u] \in Stopped <=> tpc[u] \in Stopped
    BY <1>1, <1>5 DEF Stopped
  <2>2. QED
    BY <1>1, <1>4, <1>8, <2>1, CallsKept
<1>13. SerialInv' /\ ErrorInv'
  BY <1>1, <1>2, <1>3, <1>4, <1>8 DEF SerialInv, ErrorInv
<1>14. FoldInv'
  BY <1>1, <1>2, <1>4, <1>8 DEF FoldInv, Combined, Run
<1>15. QED
  BY <1>9, <1>10, <1>11, <1>12, <1>13, <1>14

-----------------------------------------------------------------------------
(* The theorems *)

\* The invariant holds before the call.
LEMMA InitInv == Init => IInv
<1> SUFFICES ASSUME Init PROVE IInv
  OBVIOUS
<1>1. /\ kind \in {"map", "reduce"} /\ total \in Nat /\ faulty \subseteq Items /\ caller = "start"
      /\ submitted = 0 /\ remaining = 0 /\ firstError = {} /\ folded = 0 /\ result = <<>>
      /\ tpc = [t \in ChunkTasks |-> "absent"] /\ pos = [t \in ChunkTasks |-> First(t)]
      /\ local = [t \in ChunkTasks |-> <<>>] /\ partials = [t \in ChunkTasks |-> <<>>]
      /\ calls = [i \in Items |-> 0]
  BY BatchAssumption DEF Init
<1>2. TaskCount \in Nat /\ \A t \in ChunkTasks : t \in Nat
  BY <1>1, ChunkSize DEF ChunkTasks
<1>3. \A t \in ChunkTasks :
        /\ First(t) \in Nat /\ Stop(t) \in Nat /\ First(t) < Stop(t) /\ Stop(t) <= total
  BY <1>1, ChunkFacts
<1>4. TypeOK
  <2>1. pos \in [ChunkTasks -> 0..total]
    <3>1. \A t \in ChunkTasks : First(t) \in 0..total
      BY <1>1, <1>3
    <3>2. QED
      BY <1>1, <3>1
  <2>2. <<>> \in Seq(Items)
    BY EmptySeq
  <2>3. local \in [ChunkTasks -> Seq(Items)] /\ partials \in [ChunkTasks -> Seq(Items)]
    BY <1>1, <2>2
  <2>4. 0 \in 0..TaskCount
    BY <1>2
  <2>5. tpc \in [ChunkTasks -> TaskPC] /\ calls \in [Items -> Nat] /\ caller \in CallerPC
    BY <1>1 DEF TaskPC, CallerPC
  <2>6. firstError \subseteq Items
    BY <1>1
  <2>7. QED
    BY <1>1, <2>1, <2>2, <2>3, <2>4, <2>5, <2>6 DEF TypeOK
<1>5. CountInv
  BY <1>1 DEF CountInv
<1>6. PosInv
  <2>1. \A t \in ChunkTasks : Run(First(t), First(t)) = <<>>
    BY <1>3, RunTyped
  <2>2. QED
    BY <1>1, <1>3, <2>1 DEF PosInv, NotBegun, Completed
<1>7. CallsInv
  <2>1. ASSUME NEW t \in ChunkTasks, NEW i \in Span(t)
        PROVE  calls[i] = 0 /\ ~(t < folded) /\ ~(i < pos[t]) /\ tpc[t] \notin Stopped
    <3>1. i \in Items
      BY <1>1, <2>1, ChunksApart
    <3>2. i >= First(t)
      BY <1>3 DEF Span
    <3>3. QED
      BY <1>1, <1>2, <1>3, <3>1, <3>2 DEF Stopped, Span
  <2>2. QED
    BY <2>1 DEF CallsInv
<1>8. SerialInv
  <2>1. SUFFICES ASSUME TaskCount = 1 PROVE SerialInv
    BY DEF SerialInv
  <2>2. ChunkTasks = {0} /\ First(0) = 0
    BY <1>1, <2>1, ChunkFacts
  <2>3. pos[0] = 0 /\ Run(0, 0) = <<>>
    BY <1>1, <2>2, RunTyped
  <2>4. \A i \in Items : calls[i] = 0 /\ ~(i < 0)
    BY <1>1 DEF Items
  <2>5. QED
    BY <1>1, <2>3, <2>4 DEF SerialInv
<1>9. FoldInv /\ ErrorInv
  BY <1>1 DEF FoldInv, ErrorInv
<1>10. QED
  BY <1>4, <1>5, <1>6, <1>7, <1>8, <1>9 DEF IInv

\* Every step of the caller and of a task preserves the invariant.
LEMMA StepInv == IInv /\ [Next]_vars => IInv'
<1> SUFFICES ASSUME IInv, [Next]_vars PROVE IInv'
  OBVIOUS
<1>1. CASE UNCHANGED vars
  <2>1. UNCHANGED call
    BY <1>1 DEF vars, call
  <2>2. /\ Items' = Items /\ TaskCount' = TaskCount /\ ChunkTasks' = ChunkTasks
        /\ Parallel' = Parallel
        /\ \A u : First(u)' = First(u) /\ Stop(u)' = Stop(u) /\ Span(u)' = Span(u)
    BY <2>1, SameCall
  <2>3. TypeOK' /\ PosInv' /\ CallsInv'
    BY <1>1, <2>2 DEF vars, IInv, TypeOK, PosInv, CallsInv, Run
  <2>4. CountInv' /\ SerialInv' /\ FoldInv' /\ ErrorInv'
    BY <1>1, <2>2 DEF vars, IInv, CountInv, Left, SerialInv, FoldInv, Combined, ErrorInv, Run
  <2>5. QED
    BY <2>3, <2>4 DEF IInv
<1>2. CASE Next
  BY <1>2, CallerStarts, CallerItem, CallerSubmits, CallerWaits, CallerFolds, CallerReturns,
     TaskBegins, TaskCalls, TaskEnds, TaskCompletes DEF Next, CallerStep, TaskStep
<1>3. QED
  BY <1>1, <1>2

\* The inductive invariant holds in every reachable state.
LEMMA IInvCorrect == Spec => []IInv
BY InitInv, StepInv, PTL DEF Spec

\* The counters and the positions of the tasks stay in their ranges, for every
\* number of items and every chunk size.
THEOREM TypeCorrect == Spec => []TypeOK
<1>1. IInv => TypeOK
  BY DEF IInv
<1>2. QED
  BY <1>1, IInvCorrect, PTL

\* When wait_batch has been left no task will touch what lives on the stack of
\* the caller, whichever of the tasks have failed.
THEOREM NothingLeftRunningCorrect == Spec => []NothingLeftRunning
<1>1. IInv => NothingLeftRunning
  BY DEF IInv, CountInv, Left, NothingLeftRunning
<1>2. QED
  BY <1>1, IInvCorrect, PTL

\* What a call has done with each item; a call that returns had no faulty one.
LEMMA ItemsOnce ==
  ASSUME IInv, NEW i \in Items
  PROVE  calls[i] <= 1 /\ (caller = "returned" => calls[i] = 1 /\ i \notin faulty)
<1> USE DEF IInv
<1>1. TaskCount \in Nat /\ total \in Nat /\ total # 0 /\ i \in Nat /\ i < total
  BY TasksFinite DEF TypeOK, Items
<1>2. CASE TaskCount = 1
  <2>1. pos[0] \in Nat
    BY <1>1, <1>2, ChunkFacts DEF TypeOK
  <2>2. QED
    BY <1>1, <1>2, <2>1 DEF SerialInv
<1>3. CASE TaskCount # 1
  <2>1. Parallel
    BY <1>1, <1>3, ChunkSize DEF Parallel
  <2>2. PICK t \in ChunkTasks : i \in Span(t)
    BY <1>1, ChunksCover
  <2>3. /\ First(t) \in Nat /\ Stop(t) \in Nat /\ i < Stop(t) /\ t \in Nat /\ t < TaskCount
        /\ pos[t] \in Nat
    BY <1>1, <2>2, ChunkFacts DEF Span, TypeOK
  <2>4. folded \in Nat
    BY DEF TypeOK
  <2>5. calls[i] <= 1
    BY <1>1, <2>1, <2>2, <2>3, <2>4 DEF CallsInv
  <2>6. ASSUME caller = "returned" PROVE calls[i] = 1 /\ i \notin faulty
    <3>1. tpc[t] \in Completed
      BY <2>1, <2>6 DEF CountInv, Left, Completed
    <3>2. firstError = {} /\ (kind = "reduce" => folded = TaskCount)
      BY <2>1, <2>6 DEF FoldInv
    <3>3. pos[t] = Stop(t)
      BY <3>1, <3>2 DEF PosInv
    <3>4. QED
      BY <2>1, <2>2, <2>3, <3>2, <3>3 DEF CallsInv
  <2>7. QED
    BY <2>5, <2>6
<1>4. QED
  BY <1>2, <1>3

\* The function is never called twice for an item; if the call returns it has
\* been called for each, whatever the chunk size and the number of items.
THEOREM EachItemOnceCorrect == Spec => []EachItemOnce
<1>1. IInv => EachItemOnce
  BY ItemsOnce DEF EachItemOnce
<1>2. QED
  BY <1>1, IInvCorrect, PTL

\* A call returns only if no item failed, and what it throws comes from an item
\* that did.
THEOREM ErrorsSurfaceCorrect == Spec => []ErrorsSurface
<1>1. ASSUME IInv PROVE ErrorsSurface
  <2>1. faulty \subseteq Items
    BY <1>1 DEF IInv, TypeOK
  <2>2. caller = "returned" => \A i \in faulty : calls[i] = 0
    BY <1>1, <2>1, ItemsOnce
  <2>3. caller = "threw" =>
          firstError # {} /\ \A i \in firstError : i \in faulty /\ calls[i] = 1
    BY <1>1 DEF IInv, ErrorInv
  <2>4. QED
    BY <2>2, <2>3 DEF ErrorsSurface
<1>2. QED
  BY <1>1, IInvCorrect, PTL

\* par_reduce returns what a serial fold returns, in whatever order the tasks
\* finish and wherever the chunks are cut.
THEOREM ReduceInOrderCorrect == Spec => []ReduceInOrder
<1>1. ASSUME IInv, kind = "reduce", caller = "returned"
      PROVE  result = Run(0, total)
  <2> USE <1>1 DEF IInv
  <2>1. total \in Nat /\ TaskCount \in Nat /\ (TaskCount = 0 <=> total = 0)
    BY ChunkSize DEF TypeOK
  <2>2. CASE TaskCount = 1
    BY <2>2 DEF SerialInv
  <2>3. CASE TaskCount = 0
    BY <2>1, <2>3, RunTyped DEF ErrorInv
  <2>4. CASE TaskCount > 1
    BY <2>4 DEF FoldInv, Parallel
  <2>5. QED
    BY <2>1, <2>2, <2>3, <2>4
<1>2. ASSUME IInv PROVE Run(0, total) = [i \in 1..total |-> i - 1]
  <2>1. total - 0 = total /\ \A i \in 1..total : 0 + i - 1 = i - 1
    BY <1>2 DEF IInv, TypeOK
  <2>2. QED
    BY <2>1 DEF Run
<1>3. IInv => ReduceInOrder
  BY <1>1, <1>2 DEF ReduceInOrder
<1>4. QED
  BY <1>3, IInvCorrect, PTL

-----------------------------------------------------------------------------
(* The composition *)

GroupProofs == INSTANCE TaskGroupProofs
LoopProofs == INSTANCE ChannelProofs
                WITH AllowTimeout <- FALSE, calls <- sends, timed <- limited

-----------------------------------------------------------------------------
(* The composition implements each of its components *)

\* The data-parallel call of the composition is one.
LEMMA BatchImplemented == ConcurrencySpec => Spec
<1>1. ConcurrencyInit => Init
  BY DEF ConcurrencyInit
<1>2. [ConcurrencyNext]_concurrencyVars => [Next]_vars
  BY DEF ConcurrencyNext, OfBatch, OfGroup, OfLoops, concurrencyVars
<1>3. QED
  BY <1>1, <1>2, PTL DEF ConcurrencySpec, Spec

\* The task group of the composition is a task group.
LEMMA GroupImplemented == ConcurrencySpec => GroupProofs!Spec
<1>1. ConcurrencyInit => GroupProofs!Init
  BY DEF ConcurrencyInit, Group!Init, GroupProofs!Init, Group!Body, GroupProofs!Body, Group!Nobody, GroupProofs!Nobody,
         Group!NoTask, GroupProofs!NoTask, Group!Spawners, GroupProofs!Spawners
<1>2. Group!Next => GroupProofs!Next
  BY DEF Group!Body, GroupProofs!Body, Group!Nobody, GroupProofs!Nobody,
         Group!NoTask, GroupProofs!NoTask, Group!vars, GroupProofs!vars,
         Group!Spawners, GroupProofs!Spawners, Group!Ready, GroupProofs!Ready,
         Group!Running, GroupProofs!Running, Group!Free, GroupProofs!Free,
         Group!NewTask, GroupProofs!NewTask, Group!SpawnSubmit, GroupProofs!SpawnSubmit, Group!SpawnList,
         GroupProofs!SpawnList, Group!Finish, GroupProofs!Finish, Group!TaskBegin,
         GroupProofs!TaskBegin, Group!TaskEnd, GroupProofs!TaskEnd, Group!Cancel,
         GroupProofs!Cancel, Group!Rebind, GroupProofs!Rebind, Group!Recover,
         GroupProofs!Recover, Group!BodyThrow, GroupProofs!BodyThrow, Group!BodyEnd,
         GroupProofs!BodyEnd, Group!Joining, GroupProofs!Joining, Group!Awaited,
         GroupProofs!Awaited, Group!AllJoined, GroupProofs!AllJoined,
         Group!Returned, GroupProofs!Returned, Group!JoinResult,
         GroupProofs!JoinResult, Group!JoinDone, GroupProofs!JoinDone,
         Group!JoinThrow, GroupProofs!JoinThrow, Group!ScopeStep,
         GroupProofs!ScopeStep, Group!Next, GroupProofs!Next
<1>3. [ConcurrencyNext]_concurrencyVars => [GroupProofs!Next]_(GroupProofs!vars)
  BY <1>2 DEF ConcurrencyNext, OfBatch, OfGroup, OfLoops, concurrencyVars, groupVars,
              GroupProofs!vars
<1>4. QED
  BY <1>1, <1>3, PTL DEF ConcurrencySpec, GroupProofs!Spec

\* The loops of the composition are loops over a channel.
LEMMA LoopsImplemented == ConcurrencySpec => LoopProofs!StreamSpec
<1>1. ConcurrencyInit => LoopProofs!StreamInit
  BY DEF ConcurrencyInit, Loops!StreamInit, LoopProofs!StreamInit, Loops!Init, LoopProofs!Init,
         Loops!Callers, LoopProofs!Callers, Loops!NoMessage, LoopProofs!NoMessage
<1>2. Loops!StreamNext => LoopProofs!StreamNext
  BY DEF Loops!Callers, LoopProofs!Callers, Loops!Full, LoopProofs!Full,
         Loops!Admits, LoopProofs!Admits, Loops!AfterPush, LoopProofs!AfterPush,
         Loops!AfterPop, LoopProofs!AfterPop, Loops!Rest, LoopProofs!Rest,
         Loops!NoMessage, LoopProofs!NoMessage, Loops!SendWaiters,
         LoopProofs!SendWaiters, Loops!RecvWaiters, LoopProofs!RecvWaiters,
         Loops!Goto, LoopProofs!Goto, Loops!Return, LoopProofs!Return,
         Loops!NotifyOne, LoopProofs!NotifyOne, Loops!NotifyAll,
         LoopProofs!NotifyAll, Loops!CallSend, LoopProofs!CallSend, Loops!SendWait,
         LoopProofs!SendWait, Loops!SendClosed, LoopProofs!SendClosed,
         Loops!SendPush, LoopProofs!SendPush, Loops!SendNotify,
         LoopProofs!SendNotify, Loops!SendSpurious, LoopProofs!SendSpurious,
         Loops!CallRecv, LoopProofs!CallRecv, Loops!RecvWait, LoopProofs!RecvWait,
         Loops!RecvNil, LoopProofs!RecvNil, Loops!RecvPop, LoopProofs!RecvPop,
         Loops!RecvNotify, LoopProofs!RecvNotify, Loops!RecvResume,
         LoopProofs!RecvResume, Loops!RecvSpurious, LoopProofs!RecvSpurious,
         Loops!CloseSet, LoopProofs!CloseSet, Loops!CloseNotifyRecv,
         LoopProofs!CloseNotifyRecv, Loops!CloseNotifySend,
         LoopProofs!CloseNotifySend, Loops!SendStep, LoopProofs!SendStep,
         Loops!RecvStep, LoopProofs!RecvStep, Loops!CloseStep, LoopProofs!CloseStep,
         Loops!vars, LoopProofs!vars, Loops!GotNone, LoopProofs!GotNone, Loops!Body,
         LoopProofs!Body, Loops!LoopTurn, LoopProofs!LoopTurn, Loops!LoopLeave,
         LoopProofs!LoopLeave, Loops!LoopEnd, LoopProofs!LoopEnd, Loops!Turn,
         LoopProofs!Turn, Loops!CloseAfterProducers, LoopProofs!CloseAfterProducers, Loops!Runtime, LoopProofs!Runtime,
         Loops!Produce, LoopProofs!Produce, Loops!Close, LoopProofs!Close,
         Loops!Spurious, LoopProofs!Spurious, Loops!StreamNext,
         LoopProofs!StreamNext
<1>3. [ConcurrencyNext]_concurrencyVars => [LoopProofs!StreamNext]_(LoopProofs!streamVars)
  BY <1>2 DEF ConcurrencyNext, OfBatch, OfGroup, OfLoops, concurrencyVars, loopVars,
              LoopProofs!streamVars, LoopProofs!vars
<1>4. QED
  BY <1>1, <1>3, PTL DEF ConcurrencySpec, LoopProofs!StreamSpec

-----------------------------------------------------------------------------
(* What the components promise *)

\* The composition gives the components constants they accept.
LEMMA GroupConstants == GroupProofs!GroupParameters
BY GroupAssumption
   DEF Group!GroupParameters, GroupProofs!GroupParameters, Group!Body, GroupProofs!Body,
       Group!NoTask, GroupProofs!NoTask

\* So it does for the loops.
LEMMA LoopConstants == LoopProofs!ChannelAssumption
BY LoopsAssumption DEF Loops!ChannelAssumption, LoopProofs!ChannelAssumption

\* A task_group scope that ends normally, with its name still bound to the
\* group, has joined every task its body spawned.
THEOREM NormalExitComposed == ConcurrencySpec => []NormalExitJoinsBody
<1>1. GroupProofs!Spec => []GroupProofs!NormalExitJoinsBody
  BY GroupConstants, GroupProofs!NormalExitCorrect
<1>2. GroupProofs!NormalExitJoinsBody => NormalExitJoinsBody
  BY DEF GroupProofs!NormalExitJoinsBody, NormalExitJoinsBody, Group!NormalExitJoinsBody,
         Group!Body, GroupProofs!Body
<1>3. QED
  BY GroupImplemented, <1>1, <1>2, PTL

\* After an exception has left the scope no task of the group begins.
THEOREM NoLateStartComposed == ConcurrencySpec => NoLateStart
<1>1. GroupProofs!Spec => GroupProofs!NoLateStart
  BY GroupConstants, GroupProofs!NoLateStartCorrect
<1>2. GroupProofs!NoLateStart => NoLateStart
  BY DEF GroupProofs!NoLateStart, NoLateStart, Group!NoLateStart, Group!vars, GroupProofs!vars
<1>3. QED
  BY GroupImplemented, <1>1, <1>2, PTL

\* An async for that has ended has left nothing behind in its channel, unless
\* it received a None that a producer sent.
THEOREM DrainedComposed == ConcurrencySpec => []DrainedAtEnd
<1>1. LoopProofs!StreamSpec => []LoopProofs!DrainedAtEnd
  BY LoopConstants, LoopProofs!DrainedCorrect
<1>2. LoopProofs!DrainedAtEnd => DrainedAtEnd
  BY DEF LoopProofs!DrainedAtEnd, DrainedAtEnd, Loops!DrainedAtEnd
<1>3. QED
  BY LoopsImplemented, <1>1, <1>2, PTL

\* The bodies of the loops together see each message once.
THEOREM AllConsumedComposed == ConcurrencySpec => []AllConsumed
<1>1. LoopProofs!StreamSpec => []LoopProofs!AllConsumed
  BY LoopConstants, LoopProofs!AllConsumedCorrect
<1>2. LoopProofs!AllConsumed => AllConsumed
  BY DEF LoopProofs!AllConsumed, AllConsumed, Loops!AllConsumed, LoopProofs!Cardinality, Loops!Cardinality
<1>3. QED
  BY LoopsImplemented, <1>1, <1>2, PTL

\* When wait_batch has been left no task touches the stack of the caller.
THEOREM NothingLeftRunningComposed == ConcurrencySpec => []NothingLeftRunning
BY BatchImplemented, NothingLeftRunningCorrect, PTL

\* The function is called once for every item of a call that returns.
THEOREM EachItemOnceComposed == ConcurrencySpec => []EachItemOnce
BY BatchImplemented, EachItemOnceCorrect, PTL

\* A call throws if and only if an item failed that it came to.
THEOREM ErrorsSurfaceComposed == ConcurrencySpec => []ErrorsSurface
BY BatchImplemented, ErrorsSurfaceCorrect, PTL

\* par_reduce equals the serial fold.
THEOREM ReduceInOrderComposed == ConcurrencySpec => []ReduceInOrder
BY BatchImplemented, ReduceInOrderCorrect, PTL

=============================================================================
