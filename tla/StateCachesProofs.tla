------------------------- MODULE StateCachesProofs -------------------------
(***************************************************************************)
(* Safety of ListCache, for every set of cells: a live plan describes the  *)
(* present cells, and reduce_sum answers of a list with one what it would  *)
(* answer of a new list with the same cells.  The same of Pipeline, where  *)
(* chains give the list plans too, and of the copies that chains keep.     *)
(* And safety of StateCaches: what is proved of lists, matrices and        *)
(* environments holds in the composition, where a step is one of theirs or *)
(* leaves them alone.                                                      *)
(***************************************************************************)
EXTENDS StateCaches, SequenceTheorems, FiniteSetTheorems, WellFoundedInduction, TLAPS

ListCells == [tag : Tags, val : Nat]
Versions == Nat \cup {None}
Operations == {"", "reduce_sum", "map_add", "pipeline"}
ListCaches == [version : Nat, analyzed : Versions, materialized : Versions, plan : Plans,
               live : BOOLEAN, operation : Operations, promoted : Seq(Nat),
               gather : Seq(Nat \X ListCells), sumVersion : Versions, sum : Nat,
               sumIsInt : BOOLEAN]

PackedPlans == {"PackedInt", "PackedDouble", "PromotedPackedDouble"}
GatherPlans == {"GatherScatter", "ChunkedUnion"}
ColdPlan(s) == ChooseListPlan(s, "reduce_sum")
ColdSum(s) == ColdAnswer(s).val

\* The copies of the cells that a plan makes.
PromotedOf(plan, s) == IF plan = "PromotedPackedDouble" THEN Doubles(s) ELSE <<>>
GatherOf(plan, s) == IF plan \in GatherPlans THEN Gather(s) ELSE <<>>

\* What a live cache says of the cells.  A list that map_add made keeps its
\* packed doubles, but not under reduce_sum; a chain changes the plan and leaves
\* the copies as they were.
LiveInv(c, s) ==
    /\ c.live /\ c.analyzed = c.version
    /\ c.plan \in PackedPlans => \A i \in DOMAIN s : Numeric(s[i])
    /\ c.operation = "reduce_sum" => c.plan = ColdPlan(s)
    /\ c.materialized = None => c.promoted = <<>> /\ c.gather = <<>>
    /\ c.materialized # None =>
          /\ c.materialized = c.version
          /\ c.operation = "pipeline" =>
                c.promoted \in {<<>>, Doubles(s)} /\ c.gather \in {<<>>, Gather(s)}
          /\ c.operation # "pipeline" =>
                /\ \/ c.promoted = PromotedOf(c.plan, s)
                   \/ c.operation # "reduce_sum" /\ c.plan = "PackedDouble" /\ c.promoted = Doubles(s)
                /\ c.gather = GatherOf(c.plan, s)
    /\ c.sumVersion # None =>
          /\ c.sumVersion = c.version /\ c.sum = Double(ColdSum(s))
          /\ s # <<>> => (c.sumIsInt <=> ColdPlan(s) = "PackedInt")

\* A cache that is not live has no plan and no copies.
DeadInv(c) ==
    /\ ~c.live /\ c.analyzed = None /\ c.materialized = None
    /\ c.promoted = <<>> /\ c.gather = <<>>

ListInv ==
    /\ cells \in Seq(ListCells) /\ cache \in ListCaches
    /\ DeadInv(cache) \/ LiveInv(cache, cells)

\* The answer about a list whose cache is live.
AnswerInv ==
    cache.live /\ answer # NoAnswer =>
        /\ answer.val \in {ColdSum(cells), Double(ColdSum(cells))}
        /\ cells # <<>> => answer.int = (ColdPlan(cells) = "PackedInt")

ListIInv == ListInv /\ AnswerInv

-----------------------------------------------------------------------------
(* Sums and gathered cells *)

\* A set of natural numbers has a least element: what the inductions use.
LEMMA LeastNat ==
  ASSUME NEW T \in SUBSET Nat, T # {}
  PROVE  \E x \in T : \A y \in T : x <= y
<1> DEFINE R == {p \in Nat \X Nat : p[1] < p[2]}
<1>1. IsWellFoundedOn(R, Nat)
  BY NatLessThanWellFounded DEF OpToRel
<1>2. \A x, y \in Nat : x < y => <<x, y>> \in R
  OBVIOUS
<1> HIDE DEF R
<1>3. PICK x \in T : \A y \in T : <<y, x>> \notin R
  BY <1>1, WFMin
<1>4. \A y \in T : ~(y < x)
  BY <1>2, <1>3
<1>5. QED
  BY <1>4

\* Rounding to a double: what is one stays as it is.
LEMMA DoubleFacts ==
  ASSUME NEW n \in Nat
  PROVE  /\ Double(n) \in Nat /\ Double(Double(n)) = Double(n)
         /\ n <= Exact => Double(n) = n
         /\ Double(0) = 0
BY ListAssumption DEF Double

\* The partial sums that SumInt adds up exist.
LEMMA PartialInts ==
  ASSUME NEW s, NEW n \in Nat
  PROVE  \E g : g = [i \in 0..n |-> IF i = 0 THEN 0 ELSE g[i - 1] + s[i]]
<1> DEFINE Made(m) == \E g : g = [i \in 0..m |-> IF i = 0 THEN 0 ELSE g[i - 1] + s[i]]
           T == {m \in Nat : ~Made(m)}
<1> SUFFICES ASSUME T # {} PROVE FALSE
  OBVIOUS
<1>1. PICK m \in T : \A k \in T : m <= k
  BY LeastNat
<1>2. CASE m = 0
  <2> DEFINE g == [i \in 0..0 |-> 0]
  <2>1. g = [i \in 0..0 |-> IF i = 0 THEN 0 ELSE g[i - 1] + s[i]]
    OBVIOUS
  <2>2. Made(0)
    BY <2>1
  <2>3. QED
    BY <1>2, <2>2
<1>3. CASE m # 0
  <2>1. m - 1 \in Nat /\ m \in Nat /\ Made(m - 1)
    BY <1>1, <1>3
  <2>2. PICK g : g = [i \in 0..(m - 1) |-> IF i = 0 THEN 0 ELSE g[i - 1] + s[i]]
    BY <2>1
  <2> DEFINE h == [i \in 0..m |-> IF i = 0 THEN 0 ELSE g[i - 1] + s[i]]
  <2>3. \A j \in 0..(m - 1) : h[j] = g[j]
    BY <2>1, <2>2
  <2>4. \A i \in 0..m : i # 0 => i - 1 \in 0..(m - 1)
    BY <2>1
  <2>5. h = [i \in 0..m |-> IF i = 0 THEN 0 ELSE h[i - 1] + s[i]]
    BY <2>3, <2>4
  <2>6. Made(m)
    BY <2>5
  <2>7. QED
    BY <2>6
<1>4. QED
  BY <1>2, <1>3

\* The partial sums that SumDouble adds up exist.
LEMMA PartialDoubles ==
  ASSUME NEW s, NEW n \in Nat
  PROVE  \E g : g = [i \in 0..n |-> IF i = 0 THEN 0 ELSE Double(g[i - 1] + Double(s[i]))]
<1> DEFINE Made(m) == \E g : g = [i \in 0..m |-> IF i = 0 THEN 0 ELSE Double(g[i - 1] + Double(s[i]))]
           T == {m \in Nat : ~Made(m)}
<1> SUFFICES ASSUME T # {} PROVE FALSE
  OBVIOUS
<1>1. PICK m \in T : \A k \in T : m <= k
  BY LeastNat
<1>2. CASE m = 0
  <2> DEFINE g == [i \in 0..0 |-> 0]
  <2>1. g = [i \in 0..0 |-> IF i = 0 THEN 0 ELSE Double(g[i - 1] + Double(s[i]))]
    OBVIOUS
  <2>2. Made(0)
    BY <2>1
  <2>3. QED
    BY <1>2, <2>2
<1>3. CASE m # 0
  <2>1. m - 1 \in Nat /\ m \in Nat /\ Made(m - 1)
    BY <1>1, <1>3
  <2>2. PICK g : g = [i \in 0..(m - 1) |-> IF i = 0 THEN 0 ELSE Double(g[i - 1] + Double(s[i]))]
    BY <2>1
  <2> DEFINE h == [i \in 0..m |-> IF i = 0 THEN 0 ELSE Double(g[i - 1] + Double(s[i]))]
  <2>3. \A j \in 0..(m - 1) : h[j] = g[j]
    BY <2>1, <2>2
  <2>4. \A i \in 0..m : i # 0 => i - 1 \in 0..(m - 1)
    BY <2>1
  <2>5. h = [i \in 0..m |-> IF i = 0 THEN 0 ELSE Double(h[i - 1] + Double(s[i]))]
    BY <2>3, <2>4
  <2>6. Made(m)
    BY <2>5
  <2>7. QED
    BY <2>6
<1>4. QED
  BY <1>2, <1>3

\* What Gather has gathered up to a cell, after what it had before.
Gathered(g, s, i) ==
    IF i = 0 THEN <<>>
    ELSE IF Numeric(s[i]) THEN Append(g[i - 1], <<i, s[i]>>) ELSE g[i - 1]

\* The cells that Gather has gathered so far exist.
LEMMA PartialGathers ==
  ASSUME NEW s, NEW n \in Nat
  PROVE  \E g : g = [i \in 0..n |-> Gathered(g, s, i)]
<1> DEFINE Made(m) == \E g : g = [i \in 0..m |-> Gathered(g, s, i)]
           T == {m \in Nat : ~Made(m)}
<1> SUFFICES ASSUME T # {} PROVE FALSE
  OBVIOUS
<1>1. PICK m \in T : \A k \in T : m <= k
  BY LeastNat
<1>2. CASE m = 0
  <2> DEFINE g == [i \in 0..0 |-> <<>>]
  <2>1. \A i \in 0..0 : Gathered(g, s, i) = <<>>
    BY DEF Gathered
  <2>2. g = [i \in 0..0 |-> Gathered(g, s, i)]
    BY <2>1
  <2>3. Made(0)
    BY <2>2
  <2>4. QED
    BY <1>2, <2>3
<1>3. CASE m # 0
  <2>1. m - 1 \in Nat /\ m \in Nat /\ m - 1 \notin T
    BY <1>1, <1>3
  <2>2. Made(m - 1)
    BY <2>1
  <2>3. PICK g : g = [i \in 0..(m - 1) |-> Gathered(g, s, i)]
    BY <2>2
  <2> DEFINE h == [i \in 0..m |-> Gathered(g, s, i)]
  <2>4. \A j \in 0..(m - 1) : h[j] = g[j]
    BY <2>1, <2>3
  <2>5. ASSUME NEW i \in 0..m PROVE Gathered(h, s, i) = Gathered(g, s, i)
    <3>1. i # 0 => i - 1 \in 0..(m - 1)
      BY <2>1
    <3>2. i # 0 => h[i - 1] = g[i - 1]
      BY <2>4, <3>1
    <3> HIDE DEF h
    <3>3. QED
      BY <3>2 DEF Gathered
  <2>6. h = [i \in 0..m |-> Gathered(h, s, i)]
    BY <2>5
  <2>7. Made(m)
    BY <2>6
  <2>8. QED
    BY <2>7
<1>4. QED
  BY <1>2, <1>3

\* A sum of ints is a number.
LEMMA SumIntType ==
  ASSUME NEW s \in Seq(Nat)
  PROVE  SumInt(s) \in Nat
<1> DEFINE n == Len(s)
           sum == CHOOSE g : g = [i \in 0..n |-> IF i = 0 THEN 0 ELSE g[i - 1] + s[i]]
<1>1. n \in Nat /\ \A i \in 1..n : s[i] \in Nat
  OBVIOUS
<1>2. sum = [i \in 0..n |-> IF i = 0 THEN 0 ELSE sum[i - 1] + s[i]]
  BY <1>1, PartialInts
<1>3. SumInt(s) = sum[n]
  BY DEF SumInt
<1> HIDE DEF sum, n
<1> DEFINE T == {i \in 0..n : sum[i] \notin Nat}
<1>4. T = {}
  <2> SUFFICES ASSUME T # {} PROVE FALSE
    OBVIOUS
  <2> T \in SUBSET Nat
    BY <1>1
  <2>1. PICK m \in T : \A k \in T : m <= k
    BY LeastNat
  <2>2. CASE m = 0
    BY <1>1, <1>2, <2>1, <2>2
  <2>3. CASE m # 0
    <3>1. m - 1 \in 0..n /\ m \in 1..n /\ m - 1 \notin T
      BY <1>1, <2>1, <2>3
    <3>2. sum[m - 1] \in Nat /\ s[m] \in Nat
      BY <1>1, <3>1
    <3>3. sum[m] = sum[m - 1] + s[m]
      BY <1>2, <3>1
    <3>4. QED
      BY <2>1, <3>2, <3>3
  <2>4. QED
    BY <2>2, <2>3
<1>5. QED
  BY <1>1, <1>3, <1>4

\* Nothing sums to zero, as ints and as doubles.
LEMMA EmptySums ==
  ASSUME NEW s, Len(s) = 0
  PROVE  SumInt(s) = 0 /\ SumDouble(s) = 0
<1> DEFINE ints == CHOOSE g : g = [i \in 0..0 |-> IF i = 0 THEN 0 ELSE g[i - 1] + s[i]]
           doubles == CHOOSE g : g = [i \in 0..0 |-> IF i = 0 THEN 0 ELSE Double(g[i - 1] + Double(s[i]))]
<1>1. SumInt(s) = ints[0] /\ SumDouble(s) = doubles[0]
  BY DEF SumInt, SumDouble
<1>2. ints = [i \in 0..0 |-> IF i = 0 THEN 0 ELSE ints[i - 1] + s[i]]
  BY PartialInts
<1>3. doubles = [i \in 0..0 |-> IF i = 0 THEN 0 ELSE Double(doubles[i - 1] + Double(s[i]))]
  BY PartialDoubles
<1> HIDE DEF ints, doubles
<1>4. QED
  BY <1>1, <1>2, <1>3

\* A sum of doubles is a double, and rounding its terms first changes nothing.
LEMMA SumDoubleFacts ==
  ASSUME NEW s \in Seq(Nat)
  PROVE  /\ SumDouble(s) \in Nat /\ Double(SumDouble(s)) = SumDouble(s)
         /\ \A t \in Seq(Nat) : Len(t) = Len(s) /\ (\A i \in 1..Len(s) : Double(t[i]) = Double(s[i]))
              => SumDouble(t) = SumDouble(s)
<1> DEFINE n == Len(s)
           sum(u) == CHOOSE g : g = [i \in 0..n |-> IF i = 0 THEN 0 ELSE Double(g[i - 1] + Double(u[i]))]
<1>1. n \in Nat /\ \A i \in 1..n : s[i] \in Nat
  OBVIOUS
<1>2. \A u : sum(u) = [i \in 0..n |-> IF i = 0 THEN 0 ELSE Double(sum(u)[i - 1] + Double(u[i]))]
  BY <1>1, PartialDoubles
<1>3. \A u : Len(u) = n => SumDouble(u) = sum(u)[n]
  BY DEF SumDouble
<1> HIDE DEF sum, n
<1>4. ASSUME NEW u PROVE sum(u)[0] = 0 /\ \A i \in 1..n : sum(u)[i] = Double(sum(u)[i - 1] + Double(u[i]))
  <2>1. sum(u) = [i \in 0..n |-> IF i = 0 THEN 0 ELSE Double(sum(u)[i - 1] + Double(u[i]))]
    BY <1>2
  <2> DEFINE f == sum(u)
  <2> HIDE DEF f
  <2>2. f = [i \in 0..n |-> IF i = 0 THEN 0 ELSE Double(f[i - 1] + Double(u[i]))]
    BY <2>1 DEF f
  <2>3. QED
    BY <1>1, <2>2 DEF f
<1> DEFINE T == {i \in 0..n : ~(sum(s)[i] \in Nat /\ Double(sum(s)[i]) = sum(s)[i])}
<1>5. T = {}
  <2> SUFFICES ASSUME T # {} PROVE FALSE
    OBVIOUS
  <2> T \in SUBSET Nat
    BY <1>1
  <2>1. PICK m \in T : \A k \in T : m <= k
    BY LeastNat
  <2>2. CASE m = 0
    BY <1>1, <1>4, <2>1, <2>2, DoubleFacts
  <2>3. CASE m # 0
    <3>1. m - 1 \in 0..n /\ m \in 1..n /\ m - 1 \notin T
      BY <1>1, <2>1, <2>3
    <3>2. sum(s)[m - 1] \in Nat /\ s[m] \in Nat
      BY <1>1, <3>1
    <3>3. Double(s[m]) \in Nat
      BY <3>2, DoubleFacts
    <3>4. sum(s)[m - 1] + Double(s[m]) \in Nat
      BY <3>2, <3>3
    <3>5. sum(s)[m] = Double(sum(s)[m - 1] + Double(s[m]))
      BY <1>4, <3>1
    <3>6. sum(s)[m] \in Nat /\ Double(sum(s)[m]) = sum(s)[m]
      BY <3>4, <3>5, DoubleFacts
    <3>7. QED
      BY <2>1, <3>6
  <2>4. QED
    BY <2>2, <2>3
<1>6. ASSUME NEW t \in Seq(Nat), Len(t) = n, \A i \in 1..n : Double(t[i]) = Double(s[i])
      PROVE  SumDouble(t) = SumDouble(s)
  <2> DEFINE U == {i \in 0..n : sum(t)[i] # sum(s)[i]}
  <2>1. U = {}
    <3> SUFFICES ASSUME U # {} PROVE FALSE
      OBVIOUS
    <3> U \in SUBSET Nat
      BY <1>1
    <3>1. PICK m \in U : \A k \in U : m <= k
      BY LeastNat
    <3>2. CASE m = 0
      BY <1>4, <3>1, <3>2
    <3>3. CASE m # 0
      <4>1. m - 1 \in 0..n /\ m \in 1..n /\ m - 1 \notin U
        BY <1>1, <3>1, <3>3
      <4>2. sum(t)[m - 1] = sum(s)[m - 1]
        BY <4>1
      <4>3. sum(t)[m] = Double(sum(t)[m - 1] + Double(t[m]))
        BY <1>4, <4>1
      <4>4. sum(s)[m] = Double(sum(s)[m - 1] + Double(s[m]))
        BY <1>4, <4>1
      <4>5. Double(t[m]) = Double(s[m])
        BY <1>6, <4>1
      <4>6. sum(t)[m] = sum(s)[m]
        BY <4>2, <4>3, <4>4, <4>5
      <4>7. QED
        BY <3>1, <4>6
    <3>4. QED
      BY <3>2, <3>3
  <2>2. n \in 0..n
    BY <1>1
  <2>3. SumDouble(t) = sum(t)[n] /\ SumDouble(s) = sum(s)[n]
    BY <1>3, <1>6 DEF n
  <2>4. QED
    BY <2>1, <2>2, <2>3
<1>7. SumDouble(s) = sum(s)[n] /\ n \in 0..n
  BY <1>1, <1>3 DEF n
<1>8. QED
  BY <1>5, <1>6, <1>7 DEF n

\* What is gathered is numbered cells, all of them when all are numbers.
LEMMA GatherFacts ==
  ASSUME NEW s \in Seq(ListCells)
  PROVE  /\ Gather(s) \in Seq(Nat \X ListCells)
         /\ (\A i \in DOMAIN s : Numeric(s[i])) => Gather(s) = [i \in 1..Len(s) |-> <<i, s[i]>>]
<1> DEFINE n == Len(s)
           got == CHOOSE g : g = [i \in 0..n |-> Gathered(g, s, i)]
           all(m) == [i \in 1..m |-> <<i, s[i]>>]
<1>1. n \in Nat /\ DOMAIN s = 1..n /\ \A i \in 1..n : s[i] \in ListCells
  BY LenProperties, ElementOfSeq
<1>2. got = [i \in 0..n |-> Gathered(got, s, i)]
  BY <1>1, PartialGathers
<1>3. Gather(s) = got[n]
  BY DEF Gather, Gathered
<1> HIDE DEF got, n
<1>4. got[0] = <<>> /\ \A i \in 1..n :
         got[i] = IF Numeric(s[i]) THEN Append(got[i - 1], <<i, s[i]>>) ELSE got[i - 1]
  <2>1. \A i \in 0..n : got[i] = Gathered(got, s, i)
    BY <1>2
  <2>2. 0 \in 0..n /\ \A i \in 1..n : i \in 0..n /\ i # 0
    BY <1>1
  <2>3. QED
    BY <2>1, <2>2 DEF Gathered
<1> DEFINE T == {i \in 0..n : got[i] \notin Seq(Nat \X ListCells)}
<1>5. T = {}
  <2> SUFFICES ASSUME T # {} PROVE FALSE
    OBVIOUS
  <2> T \in SUBSET Nat
    BY <1>1
  <2>1. PICK m \in T : \A k \in T : m <= k
    BY LeastNat
  <2>2. CASE m = 0
    BY <1>4, <2>1, <2>2, EmptySeq
  <2>3. CASE m # 0
    <3>1. m - 1 \in 0..n /\ m \in 1..n /\ m - 1 \notin T
      BY <1>1, <2>1, <2>3
    <3>2. got[m - 1] \in Seq(Nat \X ListCells) /\ <<m, s[m]>> \in Nat \X ListCells
      BY <1>1, <3>1
    <3>3. got[m] \in Seq(Nat \X ListCells)
      <4>1. Append(got[m - 1], <<m, s[m]>>) \in Seq(Nat \X ListCells)
        BY <3>2, AppendProperties
      <4>2. got[m] = Append(got[m - 1], <<m, s[m]>>) \/ got[m] = got[m - 1]
        BY <1>4, <3>1
      <4>3. QED
        BY <3>2, <4>1, <4>2
    <3>4. QED
      BY <2>1, <3>3
  <2>4. QED
    BY <2>2, <2>3
<1>6. ASSUME \A i \in 1..n : Numeric(s[i]) PROVE got[n] = all(n)
  <2> DEFINE U == {i \in 0..n : got[i] # all(i)}
  <2>1. U = {}
    <3> SUFFICES ASSUME U # {} PROVE FALSE
      OBVIOUS
    <3> U \in SUBSET Nat
      BY <1>1
    <3>1. PICK m \in U : \A k \in U : m <= k
      BY LeastNat
    <3>2. CASE m = 0
      BY <1>4, <3>1, <3>2, SeqDef
    <3>3. CASE m # 0
      <4>1. m - 1 \in 0..n /\ m \in 1..n /\ m - 1 \notin U /\ m - 1 \in Nat
        BY <1>1, <3>1, <3>3
      <4>2. got[m - 1] = all(m - 1)
        BY <4>1
      <4>3. all(m - 1) \in Seq(Nat \X ListCells) /\ Len(all(m - 1)) = m - 1
        <5>1. all(m - 1) \in [1..(m - 1) -> Nat \X ListCells]
          BY <1>1, <4>1
        <5>2. all(m - 1) \in Seq(Nat \X ListCells)
          BY <4>1, <5>1, SeqDef
        <5>3. QED
          BY <4>1, <5>2, LenProperties
      <4>4. Append(all(m - 1), <<m, s[m]>>) = all(m)
        BY <1>1, <4>1, <4>3
      <4>5. got[m] = all(m)
        BY <1>4, <1>6, <4>1, <4>2, <4>4
      <4>6. QED
        BY <3>1, <4>5
    <3>4. QED
      BY <3>2, <3>3
  <2>2. n \in 0..n
    BY <1>1
  <2>3. QED
    BY <2>1, <2>2
<1>7. QED
  BY <1>1, <1>3, <1>5, <1>6 DEF n

-----------------------------------------------------------------------------
(* Plans *)

\* What the plan of a list says of its cells.
LEMMA PlanFacts ==
  ASSUME NEW s \in Seq(ListCells), NEW operation
  PROVE  LET plan == ChooseListPlan(s, operation)
         IN  /\ plan \in Plans /\ plan # "Unknown"
             /\ plan \in PackedPlans <=> \A i \in DOMAIN s : Numeric(s[i])
             /\ plan = "PackedInt" <=> \A i \in DOMAIN s : s[i].tag = "int"
             /\ plan \in {"PackedDouble", "PromotedPackedDouble"} => s # <<>>
<1> DEFINE with(tag) == {i \in DOMAIN s : s[i].tag = tag}
           count(tag) == Cardinality(with(tag))
<1>1. ASSUME NEW tag PROVE count(tag) \in Nat /\ (count(tag) = 0 <=> with(tag) = {})
  <2>1. IsFiniteSet(1..Len(s)) /\ DOMAIN s = 1..Len(s)
    BY FS_Interval, LenProperties
  <2>2. with(tag) \in SUBSET (1..Len(s))
    BY <2>1
  <2>3. IsFiniteSet(with(tag))
    BY <2>1, <2>2, FS_Subset
  <2>4. QED
    BY <2>3, FS_CardinalityType, FS_EmptySet
<1>2. ASSUME NEW i \in DOMAIN s PROVE s[i].tag \in Tags
  <2>1. s[i] \in ListCells
    BY ElementOfSeq, LenProperties
  <2>2. QED
    BY <2>1 DEF ListCells
<1>3. count("other") = 0 <=> \A i \in DOMAIN s : Numeric(s[i])
  BY <1>1 DEF Numeric
<1>4. count("double") = 0 <=> \A i \in DOMAIN s : s[i].tag # "double"
  BY <1>1
<1>5. ChooseListPlan(s, operation) =
        IF count("other") = 0
        THEN IF count("double") = 0 THEN "PackedInt"
             ELSE IF count("int") = 0 THEN "PackedDouble" ELSE "PromotedPackedDouble"
        ELSE IF operation \in {"reduce_sum", "map_add"} /\ count("int") + count("double") > 0
                  /\ (count("int") + count("double")) * 2 >= Len(s)
             THEN "GatherScatter"
        ELSE IF Len(s) >= ChunkMin /\ count("int") + count("double") > 0 THEN "ChunkedUnion" ELSE "BoxedAny"
  BY DEF ChooseListPlan
<1> HIDE DEF count, with
<1> DEFINE plan == ChooseListPlan(s, operation)
<1>6. CASE count("other") # 0
  <2>1. plan \in {"GatherScatter", "ChunkedUnion", "BoxedAny"}
    BY <1>5, <1>6
  <2>2. \E i \in DOMAIN s : s[i].tag = "other"
    BY <1>3, <1>6 DEF Numeric
  <2> HIDE DEF plan
  <2>3. QED
    BY <1>3, <1>6, <2>1, <2>2 DEF plan, Plans, PackedPlans
<1>7. CASE count("other") = 0 /\ count("double") = 0
  <2>1. plan = "PackedInt"
    BY <1>5, <1>7
  <2>2. \A i \in DOMAIN s : s[i].tag = "int"
    BY <1>2, <1>3, <1>4, <1>7 DEF Tags, Numeric
  <2>3. QED
    BY <1>3, <1>7, <2>1, <2>2 DEF Plans, PackedPlans
<1>8. CASE count("other") = 0 /\ count("double") # 0
  <2>1. plan \in {"PackedDouble", "PromotedPackedDouble"}
    BY <1>5, <1>8
  <2>2. PICK i \in DOMAIN s : s[i].tag = "double"
    BY <1>4, <1>8
  <2>3. s # <<>>
    BY <2>2
  <2>4. s[i].tag # "int"
    BY <2>2
  <2> HIDE DEF plan
  <2>5. QED
    BY <1>3, <1>8, <2>1, <2>3, <2>4 DEF plan, Plans, PackedPlans
<1>9. QED
  BY <1>6, <1>7, <1>8

\* The numbers of a list, and its values as doubles.
LEMMA NumberFacts ==
  ASSUME NEW s \in Seq(ListCells)
  PROVE  /\ Values(s) \in Seq(Nat) /\ Len(Values(s)) = Len(s)
         /\ Doubles(s) \in Seq(Nat) /\ Len(Doubles(s)) = Len(s)
         /\ NumbersOf(s) \in Seq(Nat)
         /\ GatherValues(Gather(s)) \in Seq(Nat)
         /\ (\A i \in DOMAIN s : Numeric(s[i])) => NumbersOf(s) = Values(s)
         /\ SumDouble(GatherValues(Gather(s))) = SumDouble(NumbersOf(s))
         /\ SumDouble(Doubles(s)) = SumDouble(Values(s))
<1>1. Len(s) \in Nat /\ DOMAIN s = 1..Len(s) /\ \A i \in 1..Len(s) : s[i].val \in Nat
  <2>1. Len(s) \in Nat /\ DOMAIN s = 1..Len(s) /\ \A i \in 1..Len(s) : s[i] \in ListCells
    BY LenProperties, ElementOfSeq
  <2>2. QED
    BY <2>1 DEF ListCells
<1>2. ASSUME NEW f, NEW n \in Nat, DOMAIN f = 1..n, \A i \in 1..n : f[i] \in Nat,
             f = [i \in 1..n |-> f[i]]
      PROVE  f \in Seq(Nat) /\ Len(f) = n
  <2>1. f \in [1..n -> Nat]
    BY <1>2
  <2>2. f \in Seq(Nat)
    BY <2>1, SeqDef
  <2>3. QED
    BY <1>2, <2>2, LenProperties
<1>3. Values(s) \in Seq(Nat) /\ Len(Values(s)) = Len(s) /\ \A i \in 1..Len(s) : Values(s)[i] = s[i].val
  <2>1. Values(s) = [i \in 1..Len(s) |-> s[i].val]
    BY <1>1 DEF Values
  <2>2. QED
    BY <1>1, <1>2, <2>1
<1>4. Doubles(s) \in Seq(Nat) /\ Len(Doubles(s)) = Len(s)
        /\ \A i \in 1..Len(s) : Doubles(s)[i] = Double(s[i].val)
  <2>1. Doubles(s) = [i \in 1..Len(s) |-> Double(s[i].val)]
    BY <1>1 DEF Doubles
  <2>2. \A i \in 1..Len(s) : Double(s[i].val) \in Nat
    BY <1>1, DoubleFacts
  <2>3. QED
    BY <1>1, <1>2, <2>1, <2>2
<1> DEFINE g == Gather(s)
<1>5. g \in Seq(Nat \X ListCells)
  BY GatherFacts
<1>6. Len(g) \in Nat /\ DOMAIN g = 1..Len(g) /\ \A k \in 1..Len(g) : g[k][2].val \in Nat
  <2> HIDE DEF g
  <2>1. Len(g) \in Nat /\ DOMAIN g = 1..Len(g) /\ \A k \in 1..Len(g) : g[k] \in Nat \X ListCells
    BY <1>5, LenProperties, ElementOfSeq
  <2>2. \A k \in 1..Len(g) : g[k][2] \in ListCells
    BY <2>1
  <2>3. QED
    BY <2>1, <2>2 DEF ListCells
<1>7. NumbersOf(s) \in Seq(Nat) /\ Len(NumbersOf(s)) = Len(g)
        /\ \A k \in 1..Len(g) : NumbersOf(s)[k] = g[k][2].val
  <2>1. NumbersOf(s) = [k \in 1..Len(g) |-> g[k][2].val]
    BY <1>6 DEF NumbersOf
  <2> HIDE DEF g
  <2>2. QED
    BY <1>2, <1>6, <2>1
<1>8. GatherValues(g) \in Seq(Nat) /\ Len(GatherValues(g)) = Len(g)
        /\ \A k \in 1..Len(g) : GatherValues(g)[k] = Double(g[k][2].val)
  <2> HIDE DEF g
  <2>1. GatherValues(g) = [k \in 1..Len(g) |-> Double(g[k][2].val)]
    BY <1>6 DEF GatherValues
  <2>2. \A k \in 1..Len(g) : Double(g[k][2].val) \in Nat
    BY <1>6, DoubleFacts
  <2>3. QED
    BY <1>2, <1>6, <2>1, <2>2
<1>9. ASSUME \A i \in DOMAIN s : Numeric(s[i]) PROVE NumbersOf(s) = Values(s)
  <2>1. g = [i \in 1..Len(s) |-> <<i, s[i]>>]
    BY <1>9, GatherFacts
  <2> HIDE DEF g
  <2>2. DOMAIN g = 1..Len(s) /\ \A i \in 1..Len(s) : g[i][2].val = s[i].val
    BY <2>1
  <2>3. NumbersOf(s) = [k \in DOMAIN g |-> g[k][2].val]
    BY DEF NumbersOf, g
  <2>4. QED
    BY <1>1, <2>2, <2>3 DEF Values
<1>10. SumDouble(GatherValues(g)) = SumDouble(NumbersOf(s))
  <2> HIDE DEF g
  <2>1. \A k \in 1..Len(g) : Double(GatherValues(g)[k]) = Double(NumbersOf(s)[k])
    BY <1>6, <1>7, <1>8, DoubleFacts
  <2>2. QED
    BY <1>7, <1>8, <2>1, SumDoubleFacts
<1>11. SumDouble(Doubles(s)) = SumDouble(Values(s))
  <2>1. \A k \in 1..Len(s) : Double(Doubles(s)[k]) = Double(Values(s)[k])
    BY <1>1, <1>3, <1>4, DoubleFacts
  <2>2. QED
    BY <1>3, <1>4, <2>1, SumDoubleFacts
<1>12. QED
  BY <1>3, <1>4, <1>7, <1>8, <1>9, <1>10, <1>11

\* A list nobody has looked at has a cache that knows nothing.
LEMMA ColdCacheFacts == ColdCache \in ListCaches /\ DeadInv(ColdCache)
<1>1. <<>> \in Seq(Nat) /\ <<>> \in Seq(Nat \X ListCells)
  BY EmptySeq
<1>2. QED
  BY <1>1 DEF ColdCache, ListCaches, Versions, Plans, Operations, DeadInv, None

\* What the sum of a list is under the plan of a new one.
LEMMA PlanSums ==
  ASSUME NEW s \in Seq(ListCells), NEW p, p.plan = ColdPlan(s),
         p.promoted = PromotedOf(p.plan, s), p.gather = GatherOf(p.plan, s)
  PROVE  PlanSum(s, p) = IF p.plan = "PackedInt" THEN SumInt(Values(s))
                         ELSE SumDouble(NumbersOf(s))
<1> DEFINE plan == ColdPlan(s)
<1>1. plan \in Plans /\ plan # "Unknown" /\ (plan \in PackedPlans <=> \A i \in DOMAIN s : Numeric(s[i]))
  BY PlanFacts DEF ColdPlan
<1>2. p.plan = plan /\ p.promoted = PromotedOf(plan, s) /\ p.gather = GatherOf(plan, s)
  OBVIOUS
<1> HIDE DEF plan
<1>3. CASE plan = "PackedInt"
  BY <1>2, <1>3 DEF PlanSum
<1>4. CASE plan = "PackedDouble"
  BY <1>2, <1>4 DEF PlanSum, PromotedOf
<1>5. CASE plan = "PromotedPackedDouble"
  <2>1. NumbersOf(s) = Values(s)
    BY <1>1, <1>5, NumberFacts DEF PackedPlans
  <2>2. PlanSum(s, p) = SumDouble(Doubles(s))
    BY <1>2, <1>5 DEF PlanSum, PromotedOf
  <2>3. QED
    BY <1>2, <1>5, <2>1, <2>2, NumberFacts
<1>6. CASE plan \in GatherPlans
  <2>1. PlanSum(s, p) = SumDouble(GatherValues(Gather(s)))
    BY <1>2, <1>6 DEF PlanSum, GatherOf, GatherPlans
  <2>2. QED
    BY <1>2, <1>6, <2>1, NumberFacts DEF GatherPlans
<1>7. CASE plan = "BoxedAny"
  BY <1>2, <1>7 DEF PlanSum
<1>8. QED
  BY <1>1, <1>3, <1>4, <1>5, <1>6, <1>7 DEF Plans, GatherPlans

\* What a new list with these cells is summed from.
LEMMA ColdFacts ==
  ASSUME NEW s \in Seq(ListCells)
  PROVE  /\ ColdAnswer(s).int = (ColdPlan(s) = "PackedInt")
         /\ ColdSum(s) = IF ColdPlan(s) = "PackedInt" THEN SumInt(Values(s))
                         ELSE SumDouble(NumbersOf(s))
         /\ ColdSum(s) \in Nat
         /\ ColdPlan(s) # "PackedInt" => Double(ColdSum(s)) = ColdSum(s)
<1> DEFINE plan == ColdPlan(s)
           p == Planned(s, ColdCache, "reduce_sum")
<1>1. EnsureListPlan(ColdCache, s, "reduce_sum") =
        [ColdCache EXCEPT !.plan = plan, !.operation = "reduce_sum",
                          !.live = TRUE, !.analyzed = 0, !.materialized = None,
                          !.promoted = <<>>, !.gather = <<>>, !.sumVersion = None,
                          !.sum = 0, !.sumIsInt = FALSE]
  BY DEF EnsureListPlan, ColdCache, ColdPlan, None
<1> HIDE DEF plan
<1>2. p.plan = plan /\ p.promoted = PromotedOf(plan, s) /\ p.gather = GatherOf(plan, s)
  <2> DEFINE e == EnsureListPlan(ColdCache, s, "reduce_sum")
  <2>1. e = [version |-> 0, analyzed |-> 0, materialized |-> None, plan |-> plan,
             live |-> TRUE, operation |-> "reduce_sum", promoted |-> <<>>, gather |-> <<>>,
             sumVersion |-> None, sum |-> 0, sumIsInt |-> FALSE]
    BY <1>1 DEF ColdCache
  <2>2. None # 0
    BY DEF None
  <2>3. p = MaterializeIfNeeded(e, s)
    BY DEF Planned
  <2> HIDE DEF e, p
  <2>4. p.plan = plan
        /\ p.promoted = (IF plan = "PromotedPackedDouble" THEN <<>> \o Doubles(s) ELSE <<>>)
        /\ p.gather = (IF plan \in GatherPlans THEN <<>> \o Gather(s) ELSE <<>>)
    BY <2>1, <2>2, <2>3 DEF MaterializeIfNeeded, GatherPlans
  <2>5. <<>> \o Doubles(s) = Doubles(s) /\ <<>> \o Gather(s) = Gather(s)
    BY NumberFacts, GatherFacts, ConcatEmptySeq
  <2>6. QED
    BY <2>4, <2>5 DEF PromotedOf, GatherOf
<1>3. ColdAnswer(s) = [int |-> plan = "PackedInt", val |-> PlanSum(s, p)]
  <2>1. ColdCache.sumVersion # ColdCache.version
    BY DEF ColdCache, None
  <2>2. ColdAnswer(s) = [int |-> p.plan = "PackedInt", val |-> PlanSum(s, p)]
    BY <2>1 DEF ColdAnswer, ReduceSumOf
  <2>3. QED
    BY <1>2, <2>2
<1> HIDE DEF p
<1>4. PlanSum(s, p) = IF plan = "PackedInt" THEN SumInt(Values(s)) ELSE SumDouble(NumbersOf(s))
  BY <1>2, PlanSums DEF plan
<1>5. ColdSum(s) = PlanSum(s, p) /\ ColdAnswer(s).int = (plan = "PackedInt")
  BY <1>3 DEF ColdSum
<1>6. SumInt(Values(s)) \in Nat /\ SumDouble(NumbersOf(s)) \in Nat
        /\ Double(SumDouble(NumbersOf(s))) = SumDouble(NumbersOf(s))
  BY NumberFacts, SumIntType, SumDoubleFacts
<1>7. QED
  BY <1>4, <1>5, <1>6 DEF plan

\* Analysing the list makes its cache live.
LEMMA EnsureFacts ==
  ASSUME NEW s \in Seq(ListCells), NEW c \in ListCaches,
         NEW operation \in {"reduce_sum", "map_add"}, DeadInv(c) \/ LiveInv(c, s)
  PROVE  LET e == EnsureListPlan(c, s, operation)
         IN  /\ e \in ListCaches /\ LiveInv(e, s)
             /\ e.version = c.version /\ e.operation = operation
<1> DEFINE e == EnsureListPlan(c, s, operation)
           plan == ChooseListPlan(s, operation)
<1>1. CASE c.analyzed = c.version /\ c.operation = operation
  <2>1. e = c
    BY <1>1 DEF EnsureListPlan
  <2>2. LiveInv(c, s)
    BY <1>1 DEF DeadInv, None, ListCaches
  <2> HIDE DEF e
  <2>3. QED
    BY <1>1, <2>1, <2>2 DEF e
<1>2. CASE ~(c.analyzed = c.version /\ c.operation = operation)
  <2>1. e = [c EXCEPT !.plan = plan, !.operation = operation,
                      !.live = TRUE, !.analyzed = c.version, !.materialized = None,
                      !.promoted = <<>>, !.gather = <<>>, !.sumVersion = None,
                      !.sum = 0, !.sumIsInt = FALSE]
    BY <1>2 DEF EnsureListPlan
  <2>2. plan \in Plans /\ (plan \in PackedPlans => \A i \in DOMAIN s : Numeric(s[i]))
    BY PlanFacts
  <2>3. operation = "reduce_sum" => plan = ColdPlan(s)
    BY DEF ColdPlan
  <2> HIDE DEF e, plan
  <2>4. e = [version |-> c.version, analyzed |-> c.version, materialized |-> None, plan |-> plan,
             live |-> TRUE, operation |-> operation, promoted |-> <<>>, gather |-> <<>>,
             sumVersion |-> None, sum |-> 0, sumIsInt |-> FALSE]
    BY <2>1 DEF ListCaches
  <2>5. <<>> \in Seq(Nat) /\ <<>> \in Seq(Nat \X ListCells)
    BY EmptySeq
  <2>6. e \in ListCaches
    BY <2>2, <2>4, <2>5 DEF ListCaches, Operations, Versions
  <2>7. LiveInv(e, s)
    BY <2>2, <2>3, <2>4 DEF LiveInv
  <2>8. QED
    BY <2>4, <2>6, <2>7 DEF e
<1>3. QED
  BY <1>1, <1>2

\* So does planning it, which makes the copies too.
LEMMA PlannedFacts ==
  ASSUME NEW s \in Seq(ListCells), NEW c \in ListCaches,
         NEW operation \in {"reduce_sum", "map_add"}, DeadInv(c) \/ LiveInv(c, s)
  PROVE  LET p == Planned(s, c, operation)
         IN  /\ p \in ListCaches /\ LiveInv(p, s)
             /\ p.version = c.version /\ p.operation = operation
             /\ p.materialized = c.version
<1> DEFINE e == EnsureListPlan(c, s, operation)
           p == Planned(s, c, operation)
<1>1. e \in ListCaches /\ LiveInv(e, s) /\ e.version = c.version /\ e.operation = operation
  BY EnsureFacts
<1>2. p = MaterializeIfNeeded(e, s)
  BY DEF Planned
<1> HIDE DEF e, p
<1>3. CASE e.materialized = e.version
  <2>1. p = e
    BY <1>2, <1>3 DEF MaterializeIfNeeded
  <2>2. QED
    BY <1>1, <1>3, <2>1 DEF p
<1>4. CASE e.materialized # e.version
  <2>1. e.materialized = None /\ e.promoted = <<>> /\ e.gather = <<>>
    BY <1>1, <1>4 DEF LiveInv
  <2>2. <<>> \o Doubles(s) = Doubles(s) /\ <<>> \o Gather(s) = Gather(s)
    BY NumberFacts, GatherFacts, ConcatEmptySeq
  <2>3. p = [e EXCEPT !.materialized = e.version,
                      !.promoted = IF e.plan = "PromotedPackedDouble" THEN e.promoted \o Doubles(s)
                                   ELSE e.promoted,
                      !.gather = IF e.plan \in GatherPlans THEN e.gather \o Gather(s) ELSE e.gather]
    BY <1>2, <1>4 DEF MaterializeIfNeeded, GatherPlans
  <2>4. p = [e EXCEPT !.materialized = e.version, !.promoted = PromotedOf(e.plan, s),
                      !.gather = GatherOf(e.plan, s)]
    BY <2>1, <2>2, <2>3 DEF PromotedOf, GatherOf
  <2>5. PromotedOf(e.plan, s) \in Seq(Nat) /\ GatherOf(e.plan, s) \in Seq(Nat \X ListCells)
    BY NumberFacts, GatherFacts, EmptySeq DEF PromotedOf, GatherOf
  <2>6. /\ p.version = e.version /\ p.analyzed = e.analyzed /\ p.plan = e.plan /\ p.live = e.live
        /\ p.operation = e.operation /\ p.sumVersion = e.sumVersion /\ p.sum = e.sum
        /\ p.sumIsInt = e.sumIsInt /\ p.materialized = e.version
        /\ p.promoted = PromotedOf(e.plan, s) /\ p.gather = GatherOf(e.plan, s)
    BY <1>1, <2>4 DEF ListCaches
  <2>7. p \in ListCaches
    BY <1>1, <2>4, <2>5 DEF ListCaches, Versions
  <2>8. e.version # None
    BY <1>1 DEF ListCaches, None
  <2>9. LiveInv(p, s)
    BY <1>1, <2>6, <2>8 DEF LiveInv
  <2>10. QED
    BY <1>1, <2>6, <2>7, <2>9 DEF p
<1>5. QED
  BY <1>3, <1>4

\* The sum of a planned list is that of a new one.
LEMMA ReduceSumFacts ==
  ASSUME NEW s \in Seq(ListCells), NEW c \in ListCaches, DeadInv(c) \/ LiveInv(c, s)
  PROVE  LET r == ReduceSumOf(s, c)
         IN  /\ r.cache \in ListCaches
             /\ DeadInv(r.cache) \/ LiveInv(r.cache, s)
             /\ r.cache.live => /\ r.answer.val \in {ColdSum(s), Double(ColdSum(s))}
                                /\ s # <<>> => r.answer.int = (ColdPlan(s) = "PackedInt")
<1> DEFINE r == ReduceSumOf(s, c)
           p == Planned(s, c, "reduce_sum")
           isInt == p.plan = "PackedInt"
           total == PlanSum(s, p)
<1>1. CASE c.sumVersion = c.version
  <2>1. r = [cache |-> c, answer |-> [int |-> c.sumIsInt, val |-> c.sum]]
    BY <1>1 DEF ReduceSumOf
  <2>2. LiveInv(c, s) => c.sum = Double(ColdSum(s)) /\ (s # <<>> => (c.sumIsInt <=> ColdPlan(s) = "PackedInt"))
    BY <1>1 DEF LiveInv, ListCaches, None
  <2>3. DeadInv(c) => ~c.live
    BY DEF DeadInv
  <2> HIDE DEF r
  <2>4. r.cache = c /\ r.answer.val = c.sum /\ r.answer.int = c.sumIsInt /\ c.sumIsInt \in BOOLEAN
    BY <2>1 DEF ListCaches
  <2>5. LiveInv(c, s) /\ s # <<>> => c.sumIsInt = (ColdPlan(s) = "PackedInt")
    BY <2>2, <2>4
  <2>6. QED
    BY <2>2, <2>3, <2>4, <2>5 DEF r
<1>2. CASE c.sumVersion # c.version
  <2>1. r = [cache |-> [p EXCEPT !.sumVersion = p.version, !.sum = Double(total), !.sumIsInt = isInt],
             answer |-> [int |-> isInt, val |-> total]]
    BY <1>2 DEF ReduceSumOf
  <2>2. p \in ListCaches /\ LiveInv(p, s) /\ p.operation = "reduce_sum" /\ p.materialized = p.version
    BY PlannedFacts
  <2> HIDE DEF p
  <2>3. p.plan = ColdPlan(s) /\ p.promoted = PromotedOf(p.plan, s) /\ p.gather = GatherOf(p.plan, s)
    BY <2>2 DEF LiveInv, ListCaches, None
  <2>4. total = ColdSum(s)
    BY <2>3, PlanSums, ColdFacts
  <2> HIDE DEF total
  <2>5. total \in Nat /\ Double(total) \in Nat
    BY <2>4, ColdFacts, DoubleFacts
  <2> DEFINE q == r.cache
  <2>6. q = [p EXCEPT !.sumVersion = p.version, !.sum = Double(total), !.sumIsInt = isInt]
        /\ r.answer = [int |-> isInt, val |-> total]
    BY <2>1
  <2> HIDE DEF r, isInt
  <2>7. isInt \in BOOLEAN
    BY DEF isInt
  <2> HIDE DEF q
  <2>8. /\ q.version = p.version /\ q.analyzed = p.analyzed /\ q.plan = p.plan /\ q.live = p.live
        /\ q.operation = p.operation /\ q.materialized = p.materialized
        /\ q.promoted = p.promoted /\ q.gather = p.gather
        /\ q.sumVersion = p.version /\ q.sum = Double(total) /\ q.sumIsInt = isInt
    BY <2>2, <2>6 DEF ListCaches
  <2>9. q \in ListCaches
    BY <2>2, <2>5, <2>6, <2>7 DEF ListCaches, Versions
  <2>10. LiveInv(q, s)
    BY <2>2, <2>3, <2>4, <2>8 DEF LiveInv, isInt
  <2>11. r.cache \in ListCaches /\ LiveInv(r.cache, s)
    BY <2>9, <2>10 DEF q
  <2>12. r.answer.val = ColdSum(s) /\ r.answer.int = isInt
    BY <2>4, <2>6
  <2>13. isInt = (ColdPlan(s) = "PackedInt")
    BY <2>3 DEF isInt
  <2>14. QED
    BY <2>11, <2>12, <2>13 DEF r
<1>3. QED
  BY <1>1, <1>2

-----------------------------------------------------------------------------
(* map_add and the mutations *)

\* The cells of a mapped list are the cells' numbers, as doubles.
LEMMA MappedFacts ==
  ASSUME NEW s \in Seq(ListCells), NEW delta \in Nat
  PROVE  LET out == Mapped(s, delta)
         IN  /\ out \in Seq(ListCells) /\ DOMAIN out = DOMAIN s
             /\ \A i \in DOMAIN s : /\ Numeric(out[i]) <=> Numeric(s[i])
                                    /\ out[i].tag # "int"
                                    /\ Numeric(out[i]) => Double(out[i].val) = out[i].val
             /\ ColdSum(out) = SumDouble(NumbersOf(out))
             /\ out # <<>> => ColdPlan(out) # "PackedInt"
<1> DEFINE out == Mapped(s, delta)
<1>1. Len(s) \in Nat /\ DOMAIN s = 1..Len(s) /\ \A i \in 1..Len(s) : s[i] \in ListCells
  BY LenProperties, ElementOfSeq
<1>2. out = [i \in 1..Len(s) |-> MapCell(s[i], delta)]
  BY <1>1 DEF Mapped
<1> HIDE DEF out
<1>3. ASSUME NEW x \in ListCells
      PROVE  LET y == MapCell(x, delta)
             IN  /\ y \in ListCells /\ y.tag # "int" /\ (Numeric(y) <=> Numeric(x))
                 /\ Numeric(y) => Double(y.val) = y.val
  <2>1. x.val \in Nat /\ x.tag \in Tags
    BY DEF ListCells
  <2>2. CASE Numeric(x)
    <3>1. Double(x.val) \in Nat
      BY <2>1, DoubleFacts
    <3>2. Double(x.val) + delta \in Nat
      BY <3>1
    <3> DEFINE v == Double(Double(x.val) + delta)
    <3>3. v \in Nat /\ Double(v) = v
      BY <3>2, DoubleFacts
    <3>4. MapCell(x, delta) = [tag |-> "double", val |-> v]
      BY <2>2 DEF MapCell
    <3> HIDE DEF v
    <3>5. QED
      BY <2>2, <3>3, <3>4 DEF ListCells, Numeric, Tags
  <2>3. CASE ~Numeric(x)
    BY <2>3 DEF MapCell, Numeric
  <2>4. QED
    BY <2>2, <2>3
<1>4. \A i \in 1..Len(s) : out[i] \in ListCells
  BY <1>1, <1>2, <1>3
<1>5. out \in Seq(ListCells) /\ Len(out) = Len(s) /\ DOMAIN out = DOMAIN s
  <2>1. out \in [1..Len(s) -> ListCells]
    BY <1>2, <1>4
  <2>2. out \in Seq(ListCells)
    BY <1>1, <2>1, SeqDef
  <2>3. QED
    BY <1>1, <1>2, <2>2, LenProperties
<1>6. \A i \in DOMAIN s : /\ Numeric(out[i]) <=> Numeric(s[i])
                          /\ out[i].tag # "int"
                          /\ Numeric(out[i]) => Double(out[i].val) = out[i].val
  BY <1>1, <1>2, <1>3
<1>7. ASSUME out # <<>> PROVE ColdPlan(out) # "PackedInt"
  <2>1. 1 \in DOMAIN out
    BY <1>1, <1>5, <1>7, EmptySeq
  <2>2. ColdPlan(out) = "PackedInt" => \A i \in DOMAIN out : out[i].tag = "int"
    BY <1>5, PlanFacts DEF ColdPlan
  <2>3. QED
    BY <1>5, <1>6, <2>1, <2>2
<1>8. ColdSum(out) = SumDouble(NumbersOf(out))
  <2>1. CASE out = <<>>
    <3>1. \A i \in DOMAIN out : out[i].tag = "int" /\ Numeric(out[i])
      BY <2>1
    <3>2. ColdPlan(out) = "PackedInt"
      BY <1>5, <3>1, PlanFacts DEF ColdPlan
    <3>3. ColdSum(out) = SumInt(Values(out))
      BY <1>5, <3>2, ColdFacts
    <3>4. NumbersOf(out) = Values(out) /\ Values(out) \in Seq(Nat) /\ Len(Values(out)) = 0
      BY <1>5, <2>1, <3>1, NumberFacts
    <3>5. QED
      BY <3>3, <3>4, EmptySums
  <2>2. CASE out # <<>>
    BY <1>5, <1>7, <2>2, ColdFacts
  <2>3. QED
    BY <2>1, <2>2
<1>9. QED
  BY <1>5, <1>6, <1>7, <1>8 DEF out

\* The cache a mapped list is born with is live, or knows nothing.
LEMMA MappedCacheFacts ==
  ASSUME NEW s \in Seq(ListCells), NEW c \in ListCaches, LiveInv(c, s), NEW delta \in Nat
  PROVE  LET d == MappedCache(s, c, delta)
         IN  /\ d \in ListCaches /\ (DeadInv(d) \/ LiveInv(d, Mapped(s, delta)))
             /\ DeadInv(d) => d.sumVersion \in {None, d.version}
<1> DEFINE out == Mapped(s, delta)
           d == MappedCache(s, c, delta)
<1>1. PICK doubles, total : doubles = NumbersOf(out) /\ total = SumDouble(doubles)
  OBVIOUS
<1> DEFINE summed == [ColdCache EXCEPT !.sumVersion = 0, !.sum = total]
           planned == [summed EXCEPT !.live = TRUE, !.operation = "map_add",
                                     !.analyzed = 0, !.materialized = 0]
<1>2. /\ c.plan \in PackedPlans => d = [planned EXCEPT !.plan = "PackedDouble", !.promoted = doubles]
      /\ c.plan \in GatherPlans => d = [planned EXCEPT !.plan = c.plan, !.gather = Gather(out)]
      /\ c.plan \notin PackedPlans \cup GatherPlans => d \in {summed, ColdCache}
  BY <1>1 DEF MappedCache, PackedPlans, GatherPlans
<1>3. /\ out \in Seq(ListCells) /\ DOMAIN out = DOMAIN s
      /\ \A i \in DOMAIN s : /\ Numeric(out[i]) <=> Numeric(s[i])
                             /\ Numeric(out[i]) => Double(out[i].val) = out[i].val
      /\ ColdSum(out) = total
      /\ out # <<>> => ColdPlan(out) # "PackedInt"
  BY <1>1, MappedFacts
<1> HIDE DEF out
<1>4. /\ doubles \in Seq(Nat) /\ Gather(out) \in Seq(Nat \X ListCells)
      /\ total \in Nat /\ Double(total) = total
  BY <1>1, <1>3, NumberFacts, GatherFacts, SumDoubleFacts
<1>5. summed = [version |-> 0, analyzed |-> None, materialized |-> None, plan |-> "Unknown",
                live |-> FALSE, operation |-> "", promoted |-> <<>>, gather |-> <<>>,
                sumVersion |-> 0, sum |-> total, sumIsInt |-> FALSE]
  <2>1. /\ ColdCache \in ListCaches /\ ColdCache.version = 0 /\ ColdCache.analyzed = None
        /\ ColdCache.materialized = None /\ ColdCache.plan = "Unknown" /\ ColdCache.live = FALSE
        /\ ColdCache.operation = "" /\ ColdCache.promoted = <<>> /\ ColdCache.gather = <<>>
        /\ ColdCache.sumIsInt = FALSE
    BY ColdCacheFacts DEF ColdCache
  <2>2. summed = [ColdCache EXCEPT !.sumVersion = 0, !.sum = total]
    OBVIOUS
  <2> HIDE DEF summed
  <2>3. QED
    BY <1>4, <2>1, <2>2 DEF ListCaches
<1> HIDE DEF summed
<1>6. planned = [version |-> 0, analyzed |-> 0, materialized |-> 0, plan |-> "Unknown",
                 live |-> TRUE, operation |-> "map_add", promoted |-> <<>>, gather |-> <<>>,
                 sumVersion |-> 0, sum |-> total, sumIsInt |-> FALSE]
  <2>1. planned = [summed EXCEPT !.live = TRUE, !.operation = "map_add", !.analyzed = 0, !.materialized = 0]
    OBVIOUS
  <2> HIDE DEF planned
  <2>2. QED
    BY <1>5, <2>1
<1>7. <<>> \in Seq(Nat) /\ <<>> \in Seq(Nat \X ListCells)
  BY EmptySeq
<1> HIDE DEF planned, d
<1>8. CASE c.plan \in PackedPlans
  <2>1. d = [planned EXCEPT !.plan = "PackedDouble", !.promoted = doubles]
    BY <1>2, <1>8
  <2>2. d = [version |-> 0, analyzed |-> 0, materialized |-> 0, plan |-> "PackedDouble",
             live |-> TRUE, operation |-> "map_add", promoted |-> doubles, gather |-> <<>>,
             sumVersion |-> 0, sum |-> total, sumIsInt |-> FALSE]
    BY <1>6, <2>1
  <2>3. d \in ListCaches
    BY <1>4, <1>7, <2>2 DEF ListCaches, Versions, Plans, Operations
  <2>4. \A i \in DOMAIN out : Numeric(out[i])
    BY <1>3, <1>8 DEF LiveInv
  <2>5. doubles = Doubles(out)
    <3>1. doubles = Values(out)
      BY <1>1, <1>3, <2>4, NumberFacts
    <3>2. \A i \in DOMAIN out : Double(out[i].val) = out[i].val
      BY <1>3, <2>4
    <3>3. QED
      BY <3>1, <3>2 DEF Values, Doubles
  <2>6. /\ d.live /\ d.analyzed = d.version /\ d.plan = "PackedDouble" /\ d.operation = "map_add"
        /\ d.materialized = 0 /\ d.version = 0 /\ d.sumVersion = 0
        /\ d.promoted = Doubles(out) /\ d.gather = <<>>
        /\ d.sum = Double(ColdSum(out)) /\ d.sumIsInt = FALSE
    BY <1>3, <1>4, <2>2, <2>5
  <2>7. LiveInv(d, out) /\ ~DeadInv(d)
    BY <1>3, <2>4, <2>6 DEF LiveInv, DeadInv, GatherOf, GatherPlans, None
  <2>8. QED
    BY <2>3, <2>7 DEF d, out
<1>9. CASE c.plan \in GatherPlans
  <2>1. d = [planned EXCEPT !.plan = c.plan, !.gather = Gather(out)]
    BY <1>2, <1>9
  <2>2. d = [version |-> 0, analyzed |-> 0, materialized |-> 0, plan |-> c.plan,
             live |-> TRUE, operation |-> "map_add", promoted |-> <<>>, gather |-> Gather(out),
             sumVersion |-> 0, sum |-> total, sumIsInt |-> FALSE]
    BY <1>6, <2>1
  <2>3. d \in ListCaches
    BY <1>4, <1>7, <1>9, <2>2 DEF ListCaches, Versions, Plans, Operations, GatherPlans
  <2>4. d.plan \notin PackedPlans /\ d.plan \in GatherPlans /\ d.plan # "PromotedPackedDouble"
    BY <1>9, <2>2 DEF PackedPlans, GatherPlans
  <2>5. /\ d.live /\ d.analyzed = d.version /\ d.operation = "map_add"
        /\ d.materialized = 0 /\ d.version = 0 /\ d.sumVersion = 0
        /\ d.promoted = PromotedOf(d.plan, out) /\ d.gather = GatherOf(d.plan, out)
        /\ d.sum = Double(ColdSum(out)) /\ d.sumIsInt = FALSE
    BY <1>3, <1>4, <2>2, <2>4 DEF PromotedOf, GatherOf
  <2>6. LiveInv(d, out) /\ ~DeadInv(d)
    BY <1>3, <2>4, <2>5 DEF LiveInv, DeadInv, None
  <2>7. QED
    BY <2>3, <2>6 DEF d, out
<1>10. CASE c.plan \notin PackedPlans /\ c.plan \notin GatherPlans
  <2>1. d = summed \/ d = ColdCache
    BY <1>2, <1>10
  <2>2. summed \in ListCaches /\ DeadInv(summed) /\ summed.sumVersion = summed.version
    BY <1>4, <1>5, <1>7 DEF ListCaches, Versions, Plans, Operations, DeadInv, None
  <2>3. ColdCache.sumVersion = None
    BY DEF ColdCache
  <2>4. QED
    BY <2>1, <2>2, <2>3, ColdCacheFacts DEF d
<1>11. QED
  BY <1>8, <1>9, <1>10

\* What the mutations make of the cells is a list of cells: an insertion or an
\* assignment,
LEMMA MutatedCells ==
  ASSUME NEW s \in Seq(ListCells), NEW x \in ListCells
  PROVE  /\ Append(s, x) \in Seq(ListCells)
         /\ \A i \in 1..(Len(s) + 1) : InsertAt(s, i, x) \in Seq(ListCells)
         /\ \A i \in DOMAIN s : [s EXCEPT ![i] = x] \in Seq(ListCells)
<1>1. Len(s) \in Nat /\ DOMAIN s = 1..Len(s)
  BY LenProperties
<1>2. Append(s, x) \in Seq(ListCells)
  BY AppendProperties
<1>3. ASSUME NEW i \in 1..(Len(s) + 1) PROVE InsertAt(s, i, x) \in Seq(ListCells)
  <2>1. SubSeq(s, 1, i - 1) \in Seq(ListCells) /\ SubSeq(s, i, Len(s)) \in Seq(ListCells)
    BY <1>1, SubSeqProperties
  <2>2. <<x>> \in Seq(ListCells)
    OBVIOUS
  <2>3. SubSeq(s, 1, i - 1) \o <<x>> \in Seq(ListCells)
    BY <2>1, <2>2, ConcatProperties
  <2>4. (SubSeq(s, 1, i - 1) \o <<x>>) \o SubSeq(s, i, Len(s)) \in Seq(ListCells)
    BY <2>1, <2>3, ConcatProperties
  <2>5. QED
    BY <2>4 DEF InsertAt
<1>4. \A i \in DOMAIN s : [s EXCEPT ![i] = x] \in Seq(ListCells)
  BY <1>1, ExceptSeq
<1>5. QED
  BY <1>2, <1>3, <1>4

\* or a removal.
LEMMA RemovedCells ==
  ASSUME NEW s \in Seq(ListCells), NEW i \in DOMAIN s
  PROVE  RemoveAt(s, i) \in Seq(ListCells)
<1>1. Len(s) \in Nat /\ DOMAIN s = 1..Len(s)
  BY LenProperties
<1>2. SubSeq(s, 1, i - 1) \in Seq(ListCells) /\ SubSeq(s, i + 1, Len(s)) \in Seq(ListCells)
  BY <1>1, SubSeqProperties
<1>3. SubSeq(s, 1, i - 1) \o SubSeq(s, i + 1, Len(s)) \in Seq(ListCells)
  BY <1>2, ConcatProperties
<1>4. QED
  BY <1>3 DEF RemoveAt

-----------------------------------------------------------------------------
(* The invariant *)

\* A list starts with a cache that knows nothing.
LEMMA ListInit == Init => ListIInv
<1> SUFFICES ASSUME Init PROVE ListIInv
  OBVIOUS
<1>1. cells \in Seq(ListCells)
  <2>1. PICK n \in 0..MaxLen : cells \in [1..n -> Cells]
    BY DEF Init
  <2>2. n \in Nat /\ Cells \subseteq ListCells
    BY ListAssumption DEF ListCells
  <2>3. cells \in [1..n -> ListCells]
    BY <2>1, <2>2
  <2>4. QED
    BY <2>2, <2>3, SeqDef
<1>2. QED
  BY <1>1, ColdCacheFacts DEF Init, ListIInv, ListInv, AnswerInv

\* A mutation leaves a cache without a plan.
LEMMA MutateStep ==
  ASSUME ListIInv, NEW s \in Seq(ListCells), Mutate(s)
  PROVE  ListIInv'
<1>1. cells' = s /\ cache' = InvalidateListCache(cache) /\ answer' = NoAnswer
  BY DEF Mutate
<1>2. cache \in ListCaches /\ (DeadInv(cache) \/ LiveInv(cache, cells))
  BY DEF ListIInv, ListInv
<1>3. CASE cache.live
  <2> DEFINE v == cache.version + 1
  <2>1. v \in Nat
    BY <1>2 DEF ListCaches
  <2>2. cache' = [ColdCache EXCEPT !.version = v]
    BY <1>1, <1>3 DEF InvalidateListCache, HasLivePlan
  <2> HIDE DEF v
  <2>3. ColdCache \in ListCaches /\ DeadInv(ColdCache)
    BY ColdCacheFacts
  <2>4. cache' \in ListCaches
    BY <2>1, <2>2, <2>3 DEF ListCaches
  <2>5. /\ cache'.live = ColdCache.live /\ cache'.analyzed = ColdCache.analyzed
        /\ cache'.materialized = ColdCache.materialized
        /\ cache'.promoted = ColdCache.promoted /\ cache'.gather = ColdCache.gather
    BY <2>2, <2>3 DEF ListCaches
  <2>6. DeadInv(cache')
    BY <2>3, <2>5 DEF DeadInv
  <2>7. QED
    BY <1>1, <2>4, <2>6 DEF ListIInv, ListInv, AnswerInv
<1>4. CASE ~cache.live
  <2>1. cache' = cache /\ DeadInv(cache)
    BY <1>1, <1>2, <1>4 DEF InvalidateListCache, HasLivePlan, LiveInv
  <2>2. QED
    BY <1>1, <1>2, <2>1 DEF ListIInv, ListInv, AnswerInv
<1>5. QED
  BY <1>3, <1>4

\* Every operation on the list keeps what its cache says of it true.
LEMMA ListStep == ListIInv /\ [Next]_vars => ListIInv'
<1> SUFFICES ASSUME ListIInv, [Next]_vars PROVE ListIInv'
  OBVIOUS
<1>1. cells \in Seq(ListCells) /\ cache \in ListCaches /\ (DeadInv(cache) \/ LiveInv(cache, cells))
  BY DEF ListIInv, ListInv
<1>2. Cells \subseteq ListCells
  BY ListAssumption DEF ListCells
<1>3. CASE ReduceSum
  <2> DEFINE r == ReduceSumOf(cells, cache)
  <2>1. cache' = r.cache /\ answer' = r.answer /\ cells' = cells
    BY <1>3 DEF ReduceSum
  <2>2. /\ r.cache \in ListCaches /\ (DeadInv(r.cache) \/ LiveInv(r.cache, cells))
        /\ r.cache.live => /\ r.answer.val \in {ColdSum(cells), Double(ColdSum(cells))}
                           /\ cells # <<>> => r.answer.int = (ColdPlan(cells) = "PackedInt")
    BY <1>1, ReduceSumFacts
  <2> HIDE DEF r
  <2>3. ListInv'
    BY <1>1, <2>1, <2>2 DEF ListInv
  <2>4. AnswerInv'
    BY <2>1, <2>2 DEF AnswerInv
  <2>5. QED
    BY <2>3, <2>4 DEF ListIInv
<1>4. CASE MapAdd(1)
  <2> DEFINE p == Planned(cells, cache, "map_add")
  <2>1. p \in ListCaches /\ LiveInv(p, cells)
    BY <1>1, PlannedFacts
  <2> HIDE DEF p
  <2>2. CASE MapOnly(1)
    <3>1. cache' = p /\ cells' = cells /\ answer' = NoAnswer
      BY <2>2 DEF MapOnly, p
    <3>2. QED
      BY <1>1, <2>1, <3>1 DEF ListIInv, ListInv, AnswerInv
  <2>3. CASE MapAssigned(1)
    <3>1. cells' = Mapped(cells, 1) /\ cache' = MappedCache(cells, p, 1) /\ answer' = NoAnswer
      BY <2>3 DEF MapAssigned, p
    <3>2. Mapped(cells, 1) \in Seq(ListCells)
      BY <1>1, MappedFacts
    <3>3. /\ MappedCache(cells, p, 1) \in ListCaches
          /\ DeadInv(MappedCache(cells, p, 1)) \/ LiveInv(MappedCache(cells, p, 1), Mapped(cells, 1))
      BY <1>1, <2>1, MappedCacheFacts
    <3>4. QED
      BY <3>1, <3>2, <3>3 DEF ListIInv, ListInv, AnswerInv
  <2>4. QED
    BY <1>4, <2>2, <2>3 DEF MapAdd
<1>5. CASE ListAppend
  <2>1. PICK x \in Cells : Mutate(Append(cells, x))
    BY <1>5 DEF ListAppend
  <2>2. QED
    BY <1>1, <1>2, <2>1, MutatedCells, MutateStep
<1>6. CASE ListInsert
  <2>1. PICK x \in Cells, i \in 1..(Len(cells) + 1) : Mutate(InsertAt(cells, i, x))
    BY <1>6 DEF ListInsert
  <2>2. InsertAt(cells, i, x) \in Seq(ListCells)
    BY <1>1, <1>2, MutatedCells
  <2>3. QED
    BY <2>1, <2>2, MutateStep
<1>7. CASE ListPop
  <2>1. PICK i \in DOMAIN cells : Mutate(RemoveAt(cells, i))
    BY <1>7 DEF ListPop
  <2>2. RemoveAt(cells, i) \in Seq(ListCells)
    BY <1>1, RemovedCells
  <2>3. QED
    BY <2>1, <2>2, MutateStep
<1>8. CASE ListSetIndex
  <2>1. PICK x \in Cells, i \in DOMAIN cells : Mutate([cells EXCEPT ![i] = x])
    BY <1>8 DEF ListSetIndex
  <2>2. [cells EXCEPT ![i] = x] \in Seq(ListCells)
    BY <1>1, <1>2, MutatedCells
  <2>3. QED
    BY <2>1, <2>2, MutateStep
<1>9. CASE ListRemove
  <2>1. PICK i \in DOMAIN cells : Mutate(RemoveAt(cells, i))
    BY <1>9 DEF ListRemove
  <2>2. RemoveAt(cells, i) \in Seq(ListCells)
    BY <1>1, RemovedCells
  <2>3. QED
    BY <2>1, <2>2, MutateStep
<1>10. CASE UNCHANGED vars
  BY <1>10 DEF vars, ListIInv, ListInv, AnswerInv
<1>11. QED
  BY <1>3, <1>4, <1>5, <1>6, <1>7, <1>8, <1>9, <1>10 DEF Next

\* The invariant tells that a live plan describes the cells.
LEMMA ListFresh == ListIInv => LivePlanFresh
<1> SUFFICES ASSUME ListIInv, cache.live PROVE LivePlanFresh
  BY DEF LivePlanFresh
<1>1. cache \in ListCaches /\ LiveInv(cache, cells)
  BY DEF ListIInv, ListInv, DeadInv
<1>2. cache.version # None
  BY <1>1 DEF ListCaches, None
<1>3. cache.promoted # <<>> /\ cache.materialized = cache.version => cache.promoted = Doubles(cells)
  BY <1>1, <1>2 DEF LiveInv, PromotedOf
<1>4. cache.gather # <<>> /\ cache.materialized = cache.version => cache.gather = Gather(cells)
  BY <1>1, <1>2 DEF LiveInv, GatherOf
<1>5. cache.sumVersion = cache.version => cache.sum = Double(ColdAnswer(cells).val)
  BY <1>1, <1>2 DEF LiveInv, ColdSum
<1>6. QED
  BY <1>1, <1>3, <1>4, <1>5 DEF LivePlanFresh, LiveInv, PackedPlans

\* It tells that the answer is that of a new list.
LEMMA ListSummed == ListIInv => LiveSumCorrect
<1> SUFFICES ASSUME ListIInv, cache.live, answer # NoAnswer,
                    cells # <<>> /\ ColdAnswer(cells).int => ColdAnswer(cells).val <= Exact
             PROVE  answer.val = ColdAnswer(cells).val /\ (cells # <<>> => answer.int = ColdAnswer(cells).int)
  BY DEF LiveSumCorrect, ReduceSumCorrect
<1>1. cells \in Seq(ListCells)
  BY DEF ListIInv, ListInv
<1>2. answer.val \in {ColdSum(cells), Double(ColdSum(cells))}
  BY DEF ListIInv, AnswerInv
<1>3. ColdSum(cells) \in Nat /\ ColdAnswer(cells).int = (ColdPlan(cells) = "PackedInt")
  BY <1>1, ColdFacts
<1>4. Double(ColdSum(cells)) = ColdSum(cells)
  <2>1. CASE ColdPlan(cells) # "PackedInt"
    BY <1>1, <2>1, ColdFacts
  <2>2. CASE ColdPlan(cells) = "PackedInt" /\ cells # <<>>
    BY <1>3, <2>2, DoubleFacts DEF ColdSum
  <2>3. CASE ColdPlan(cells) = "PackedInt" /\ cells = <<>>
    <3>1. Values(cells) \in Seq(Nat) /\ Len(Values(cells)) = 0
      BY <1>1, <2>3, NumberFacts
    <3>2. ColdSum(cells) = 0
      BY <1>1, <2>3, <3>1, ColdFacts, EmptySums
    <3>3. QED
      BY <3>2, DoubleFacts
  <2>4. QED
    BY <2>1, <2>2, <2>3
<1>5. answer.val = ColdAnswer(cells).val
  BY <1>2, <1>4 DEF ColdSum
<1>6. cells # <<>> => answer.int = (ColdPlan(cells) = "PackedInt")
  BY DEF ListIInv, AnswerInv
<1>7. QED
  BY <1>3, <1>5, <1>6

\* A list with a live plan describes its present cells: after any sequence of
\* mutations, maps and sums, the copies and the sum kept are those of the cells.
THEOREM LivePlanFreshTheorem == Spec => []LivePlanFresh
BY ListInit, ListStep, ListFresh, PTL DEF Spec

\* What reduce_sum answers of a list with a live plan is what it would answer of
\* a new list with the same cells.
THEOREM LiveSumTheorem == Spec => []LiveSumCorrect
BY ListInit, ListStep, ListSummed, PTL DEF Spec

-----------------------------------------------------------------------------
(* Chains *)

WithoutSum(c) == [c EXCEPT !.sumVersion = None]

\* The cache of the variable between two operations.  A sum that map_add has left
\* without a plan stays when the list is mutated, and when a chain gives it a plan.
ChainCacheInv ==
    \/ /\ DeadInv(cache) /\ cache.sumVersion \in {None, cache.version}
       /\ boxedSum = (cache.sumVersion # None)
    \/ LiveInv(cache, cells) /\ ~boxedSum
    \/ /\ boxedSum /\ cache.live /\ cache.operation = "pipeline"
       /\ cache.sumVersion = cache.version /\ LiveInv(WithoutSum(cache), cells)

ChainListInv ==
    /\ cells \in Seq(ListCells) /\ cache \in ListCaches /\ boxedSum \in BOOLEAN
    /\ ChainCacheInv
    /\ ~boxedSum => AnswerInv

\* The copy that is kept for the variable is never of a later version, and one
\* of the present version is of the present cells.
StatsInv ==
    /\ stats = [signature |-> stats.signature, version |-> stats.version, numbers |-> stats.numbers]
    /\ ~reassigned =>
           /\ stats.version \in Int /\ stats.version <= cache.version
           /\ stats.version = cache.version => cache.live /\ stats.numbers \in {<<>>, Numbers(cells)}

\* The loop of a chain runs over the numbers of the present list.
CopiesFresh ==
    \A chain \in Chains : ~(reassigned /\ Known(Signature(chain))) => Copy(chain) = Numbers(cells)

\* What remains of a cache without its sum.
LEMMA WithoutSumFacts ==
  ASSUME NEW s \in Seq(ListCells), NEW c \in ListCaches
  PROVE  /\ WithoutSum(c) \in ListCaches
         /\ WithoutSum(c) = [version |-> c.version, analyzed |-> c.analyzed,
              materialized |-> c.materialized, plan |-> c.plan, live |-> c.live,
              operation |-> c.operation, promoted |-> c.promoted, gather |-> c.gather,
              sumVersion |-> None, sum |-> c.sum, sumIsInt |-> c.sumIsInt]
         /\ LiveInv(c, s) => LiveInv(WithoutSum(c), s)
<1> DEFINE d == WithoutSum(c)
<1>1. d = [c EXCEPT !.sumVersion = None]
  BY DEF WithoutSum
<1> HIDE DEF d
<1>2. d = [version |-> c.version, analyzed |-> c.analyzed,
           materialized |-> c.materialized, plan |-> c.plan, live |-> c.live,
           operation |-> c.operation, promoted |-> c.promoted, gather |-> c.gather,
           sumVersion |-> None, sum |-> c.sum, sumIsInt |-> c.sumIsInt]
  BY <1>1 DEF ListCaches
<1>3. d \in ListCaches
  BY <1>1 DEF ListCaches, Versions
<1>4. LiveInv(c, s) => LiveInv(d, s)
  BY <1>2 DEF LiveInv
<1>5. QED
  BY <1>2, <1>3, <1>4 DEF d

\* Planning a list after a chain starts anew, whatever its sum.
LEMMA PlannedAfterChain ==
  ASSUME NEW s \in Seq(ListCells), NEW c \in ListCaches, c.operation = "pipeline",
         NEW operation \in {"reduce_sum", "map_add"}
  PROVE  /\ Planned(s, c, operation) = Planned(s, WithoutSum(c), operation)
         /\ Planned(s, c, operation).sumVersion = None
<1> DEFINE plan == ChooseListPlan(s, operation)
           new == [version |-> c.version, analyzed |-> c.version, materialized |-> None, plan |-> plan,
                   live |-> TRUE, operation |-> operation, promoted |-> <<>>, gather |-> <<>>,
                   sumVersion |-> None, sum |-> 0, sumIsInt |-> FALSE]
<1> HIDE DEF plan
<1>1. ASSUME NEW d \in ListCaches, d.operation = "pipeline", d.version = c.version
      PROVE  EnsureListPlan(d, s, operation) = new
  <2>1. EnsureListPlan(d, s, operation) =
           [d EXCEPT !.plan = plan, !.operation = operation, !.live = TRUE, !.analyzed = d.version,
                     !.materialized = None, !.promoted = <<>>, !.gather = <<>>,
                     !.sumVersion = None, !.sum = 0, !.sumIsInt = FALSE]
    BY <1>1 DEF EnsureListPlan, plan
  <2>2. QED
    BY <1>1, <2>1 DEF ListCaches
<1>2. /\ WithoutSum(c) \in ListCaches
      /\ WithoutSum(c).operation = "pipeline" /\ WithoutSum(c).version = c.version
  BY WithoutSumFacts
<1>3. /\ EnsureListPlan(c, s, operation) = new
      /\ EnsureListPlan(WithoutSum(c), s, operation) = new
  BY <1>1, <1>2
<1>4. new.sumVersion = None
  OBVIOUS
<1>5. MaterializeIfNeeded(new, s).sumVersion = None
  <2>1. MaterializeIfNeeded(new, s) = new \/ MaterializeIfNeeded(new, s) =
           [new EXCEPT !.materialized = new.version,
                       !.promoted = IF new.plan = "PromotedPackedDouble"
                                    THEN new.promoted \o Doubles(s) ELSE new.promoted,
                       !.gather = IF new.plan \in {"GatherScatter", "ChunkedUnion"}
                                  THEN new.gather \o Gather(s) ELSE new.gather]
    BY DEF MaterializeIfNeeded
  <2>2. QED
    BY <1>4, <2>1
<1>6. QED
  BY <1>3, <1>5 DEF Planned

\* A chain gives the cache a plan that fits the cells and leaves the rest of it.
LEMMA ChainCache ==
  ASSUME NEW s \in Seq(ListCells), NEW c \in ListCaches, NEW plan \in Plans,
         plan \in PackedPlans => \A i \in DOMAIN s : Numeric(s[i]),
         DeadInv(c) \/ LiveInv(WithoutSum(c), s)
  PROVE  LET d == [c EXCEPT !.live = TRUE, !.plan = plan, !.operation = "pipeline",
                            !.analyzed = c.version]
         IN  /\ d \in ListCaches /\ d.live /\ d.operation = "pipeline"
             /\ d.version = c.version /\ d.sumVersion = c.sumVersion
             /\ LiveInv(WithoutSum(d), s)
             /\ c.sumVersion = None \/ LiveInv(c, s) => LiveInv(d, s)
<1> DEFINE d == [c EXCEPT !.live = TRUE, !.plan = plan, !.operation = "pipeline",
                          !.analyzed = c.version]
<1>1. d = [c EXCEPT !.live = TRUE, !.plan = plan, !.operation = "pipeline", !.analyzed = c.version]
  OBVIOUS
<1> HIDE DEF d
<1>2. d = [version |-> c.version, analyzed |-> c.version, materialized |-> c.materialized,
           plan |-> plan, live |-> TRUE, operation |-> "pipeline", promoted |-> c.promoted,
           gather |-> c.gather, sumVersion |-> c.sumVersion, sum |-> c.sum, sumIsInt |-> c.sumIsInt]
  BY <1>1 DEF ListCaches
<1>3. d \in ListCaches
  BY <1>1 DEF ListCaches, Versions, Operations
<1>4. /\ c.materialized = None => c.promoted = <<>> /\ c.gather = <<>>
      /\ c.materialized # None =>
            /\ c.materialized = c.version
            /\ c.promoted \in {<<>>, Doubles(s)} /\ c.gather \in {<<>>, Gather(s)}
  <2>1. CASE DeadInv(c)
    BY <2>1 DEF DeadInv
  <2>2. CASE LiveInv(WithoutSum(c), s)
    BY <2>2, WithoutSumFacts DEF LiveInv, PromotedOf, GatherOf
  <2>3. QED
    BY <2>1, <2>2
<1>5. /\ WithoutSum(d).live /\ WithoutSum(d).analyzed = WithoutSum(d).version
      /\ WithoutSum(d).plan = plan /\ WithoutSum(d).operation = "pipeline"
      /\ WithoutSum(d).materialized = c.materialized /\ WithoutSum(d).version = c.version
      /\ WithoutSum(d).promoted = c.promoted /\ WithoutSum(d).gather = c.gather
      /\ WithoutSum(d).sumVersion = None
  BY <1>2, <1>3, WithoutSumFacts
<1>6. LiveInv(WithoutSum(d), s)
  BY <1>4, <1>5 DEF LiveInv
<1>7. ASSUME c.sumVersion = None \/ LiveInv(c, s) PROVE LiveInv(d, s)
  <2>1. c.sumVersion # None =>
          /\ c.sumVersion = c.version /\ c.sum = Double(ColdSum(s))
          /\ s # <<>> => (c.sumIsInt <=> ColdPlan(s) = "PackedInt")
    BY <1>7 DEF LiveInv
  <2>2. QED
    BY <1>2, <1>4, <2>1 DEF LiveInv
<1>8. QED
  BY <1>2, <1>3, <1>6, <1>7 DEF d

\* A chain keeps what is true of the cache.
LEMMA RunPipelineStep ==
  ASSUME ChainListInv, NEW chain \in Chains, RunPipeline(chain)
  PROVE  ChainListInv'
<1> DEFINE plan == PlanFor(chain)
           d == [cache EXCEPT !.live = TRUE, !.plan = plan, !.operation = "pipeline",
                              !.analyzed = cache.version]
<1>1. cache' = d /\ cells' = cells /\ boxedSum' = boxedSum /\ answer' = NoAnswer
  BY DEF RunPipeline
<1>2. cells \in Seq(ListCells) /\ cache \in ListCaches /\ boxedSum \in BOOLEAN
  BY DEF ChainListInv
<1>3. plan \in Plans /\ (plan \in PackedPlans => \A i \in DOMAIN cells : Numeric(cells[i]))
  BY <1>2, PlanFacts DEF PlanFor
<1> HIDE DEF plan
<1>4. DeadInv(cache) \/ LiveInv(WithoutSum(cache), cells)
  BY <1>2, WithoutSumFacts DEF ChainListInv, ChainCacheInv
<1>5. /\ d \in ListCaches /\ d.live /\ d.operation = "pipeline"
      /\ d.version = cache.version /\ d.sumVersion = cache.sumVersion
      /\ LiveInv(WithoutSum(d), cells)
      /\ cache.sumVersion = None \/ LiveInv(cache, cells) => LiveInv(d, cells)
  BY <1>2, <1>3, <1>4, ChainCache
<1> HIDE DEF d
<1>6. CASE ~boxedSum
  <2>1. cache.sumVersion = None \/ LiveInv(cache, cells)
    BY <1>6 DEF ChainListInv, ChainCacheInv
  <2>2. ChainCacheInv'
    BY <1>1, <1>5, <1>6, <2>1 DEF ChainCacheInv
  <2>3. QED
    BY <1>1, <1>2, <1>5, <2>2 DEF ChainListInv, AnswerInv
<1>7. CASE boxedSum
  <2>1. cache.sumVersion = cache.version
    BY <1>7 DEF ChainListInv, ChainCacheInv
  <2>2. ChainCacheInv'
    BY <1>1, <1>5, <1>7, <2>1 DEF ChainCacheInv
  <2>3. QED
    BY <1>1, <1>2, <1>5, <1>7, <2>2 DEF ChainListInv
<1>8. QED
  BY <1>2, <1>6, <1>7

\* Planning gives the variable a cache that is true of the cells, whatever sum it
\* has had.
LEMMA PlannedFromChain ==
  ASSUME ChainListInv, NEW operation \in {"reduce_sum", "map_add"}
  PROVE  /\ Planned(cells, cache, operation) \in ListCaches
         /\ LiveInv(Planned(cells, cache, operation), cells)
         /\ Planned(cells, cache, operation).version = cache.version
         /\ boxedSum /\ cache.live => Planned(cells, cache, operation).sumVersion = None
<1>1. cells \in Seq(ListCells) /\ cache \in ListCaches
  BY DEF ChainListInv
<1>2. CASE DeadInv(cache) \/ (LiveInv(cache, cells) /\ ~boxedSum)
  BY <1>1, <1>2, PlannedFacts DEF DeadInv
<1>3. CASE boxedSum /\ cache.operation = "pipeline" /\ LiveInv(WithoutSum(cache), cells)
  <2>1. /\ WithoutSum(cache) \in ListCaches /\ WithoutSum(cache).version = cache.version
        /\ Planned(cells, cache, operation) = Planned(cells, WithoutSum(cache), operation)
        /\ Planned(cells, cache, operation).sumVersion = None
    BY <1>1, <1>3, WithoutSumFacts, PlannedAfterChain
  <2>2. QED
    BY <1>1, <1>3, <2>1, PlannedFacts
<1>4. QED
  BY <1>2, <1>3 DEF ChainListInv, ChainCacheInv

\* So does a mutation: a cache without a plan stays, with the sum it may have.
LEMMA ChainMutateStep ==
  ASSUME ChainListInv, NEW s \in Seq(ListCells), Mutate(s),
         boxedSum' = (boxedSum /\ cache'.sumVersion # None)
  PROVE  ChainListInv'
<1>1. cells' = s /\ cache' = InvalidateListCache(cache) /\ answer' = NoAnswer
  BY DEF Mutate
<1>2. cache \in ListCaches /\ boxedSum \in BOOLEAN
  BY DEF ChainListInv
<1>3. CASE cache.live
  <2> DEFINE v == cache.version + 1
  <2>1. v \in Nat
    BY <1>2 DEF ListCaches
  <2>2. cache' = [ColdCache EXCEPT !.version = v]
    BY <1>1, <1>3 DEF InvalidateListCache, HasLivePlan
  <2> HIDE DEF v
  <2>3. ColdCache \in ListCaches /\ DeadInv(ColdCache) /\ ColdCache.sumVersion = None
    BY ColdCacheFacts DEF ColdCache
  <2>4. cache' \in ListCaches
    BY <2>1, <2>2, <2>3 DEF ListCaches
  <2>5. /\ cache'.live = ColdCache.live /\ cache'.analyzed = ColdCache.analyzed
        /\ cache'.materialized = ColdCache.materialized /\ cache'.sumVersion = ColdCache.sumVersion
        /\ cache'.promoted = ColdCache.promoted /\ cache'.gather = ColdCache.gather
    BY <2>2, <2>3 DEF ListCaches
  <2>6. DeadInv(cache') /\ cache'.sumVersion = None /\ boxedSum' = FALSE
    BY <2>3, <2>5 DEF DeadInv
  <2>7. QED
    BY <1>1, <2>4, <2>6 DEF ChainListInv, ChainCacheInv, AnswerInv
<1>4. CASE ~cache.live
  <2>1. cache' = cache
    BY <1>1, <1>4 DEF InvalidateListCache, HasLivePlan
  <2>2. /\ DeadInv(cache) /\ cache.sumVersion \in {None, cache.version}
        /\ boxedSum = (cache.sumVersion # None)
    BY <1>4 DEF ChainListInv, ChainCacheInv, LiveInv
  <2>3. boxedSum' = (cache'.sumVersion # None) /\ boxedSum' \in BOOLEAN
    BY <2>1, <2>2
  <2>4. QED
    BY <1>1, <1>2, <2>1, <2>2, <2>3 DEF ChainListInv, ChainCacheInv, AnswerInv
<1>5. QED
  BY <1>3, <1>4

\* A list that is assigned is born with a cache that is true of it, or with a sum
\* and no plan, or knowing nothing.
LEMMA ChainAssignStep ==
  ASSUME cells' \in Seq(ListCells), cache' \in ListCaches, answer' = NoAnswer,
         DeadInv(cache') \/ LiveInv(cache', cells'),
         DeadInv(cache') => cache'.sumVersion \in {None, cache'.version},
         boxedSum' = (~cache'.live /\ cache'.sumVersion # None)
  PROVE  ChainListInv'
<1>1. CASE DeadInv(cache')
  <2>1. boxedSum' = (cache'.sumVersion # None) /\ boxedSum' \in BOOLEAN
    BY <1>1 DEF DeadInv
  <2>2. QED
    BY <1>1, <2>1 DEF ChainListInv, ChainCacheInv, AnswerInv
<1>2. CASE LiveInv(cache', cells')
  <2>1. ~boxedSum' /\ boxedSum' \in BOOLEAN
    BY <1>2 DEF LiveInv
  <2>2. QED
    BY <1>2, <2>1 DEF ChainListInv, ChainCacheInv, AnswerInv
<1>3. QED
  BY <1>1, <1>2

\* A sum that is asked for is kept, but for one that is there already.
LEMMA ChainSumStep ==
  ASSUME ChainListInv, ReduceSum, boxedSum' = (boxedSum /\ cache'.sumVersion # None)
  PROVE  ChainListInv'
<1> DEFINE r == ReduceSumOf(cells, cache)
<1>1. cache' = r.cache /\ answer' = r.answer /\ cells' = cells
  BY DEF ReduceSum
<1>2. cells \in Seq(ListCells) /\ cache \in ListCaches /\ boxedSum \in BOOLEAN
  BY DEF ChainListInv
<1>3. CASE boxedSum
  <2> cache.version # None
    BY <1>2 DEF ListCaches, None
  <2>1. cache.sumVersion = cache.version /\ cache.sumVersion # None
    BY <1>3 DEF ChainListInv, ChainCacheInv
  <2>2. r.cache = cache
    BY <2>1 DEF ReduceSumOf
  <2> HIDE DEF r
  <2>3. boxedSum' = TRUE /\ cache' = cache
    BY <1>1, <1>3, <2>1, <2>2
  <2>4. ChainCacheInv'
    BY <1>1, <1>3, <2>3 DEF ChainListInv, ChainCacheInv
  <2>5. QED
    BY <1>1, <1>2, <2>3, <2>4 DEF ChainListInv
<1>4. CASE ~boxedSum
  <2>1. DeadInv(cache) \/ LiveInv(cache, cells)
    BY <1>4 DEF ChainListInv, ChainCacheInv
  <2>2. /\ r.cache \in ListCaches /\ (DeadInv(r.cache) \/ LiveInv(r.cache, cells))
        /\ r.cache.live => /\ r.answer.val \in {ColdSum(cells), Double(ColdSum(cells))}
                           /\ cells # <<>> => r.answer.int = (ColdPlan(cells) = "PackedInt")
    BY <1>2, <2>1, ReduceSumFacts
  <2>3. LiveInv(r.cache, cells)
    <3>1. CASE cache.sumVersion = cache.version
      <4>1. r.cache = cache
        BY <3>1 DEF ReduceSumOf
      <4>2. cache.sumVersion # None
        BY <1>2, <3>1 DEF ListCaches, None
      <4>3. QED
        BY <1>4, <4>1, <4>2 DEF ChainListInv, ChainCacheInv
    <3>2. CASE cache.sumVersion # cache.version
      <4> DEFINE p == Planned(cells, cache, "reduce_sum")
      <4>1. p \in ListCaches /\ LiveInv(p, cells)
        BY <1>2, <2>1, PlannedFacts
      <4>2. PICK total, isInt :
               r.cache = [p EXCEPT !.sumVersion = p.version, !.sum = total, !.sumIsInt = isInt]
        BY <3>2 DEF ReduceSumOf
      <4> HIDE DEF p, r
      <4>3. r.cache.live
        BY <4>1, <4>2 DEF LiveInv, ListCaches
      <4>4. QED
        BY <2>2, <4>3 DEF DeadInv
    <3>3. QED
      BY <3>1, <3>2
  <2> HIDE DEF r
  <2>4. boxedSum' = FALSE
    BY <1>4
  <2>5. ChainCacheInv'
    BY <1>1, <2>3, <2>4 DEF ChainCacheInv
  <2>6. AnswerInv'
    BY <1>1, <2>2 DEF AnswerInv
  <2>7. QED
    BY <1>1, <1>2, <2>2, <2>4, <2>5, <2>6 DEF ChainListInv
<1>5. QED
  BY <1>2, <1>3, <1>4

\* Every operation on the variable keeps what is true of its cache.
LEMMA ChainListStep == ChainListInv /\ [StreamNext]_streamVars => ChainListInv'
<1> SUFFICES ASSUME ChainListInv, [StreamNext]_streamVars PROVE ChainListInv'
  OBVIOUS
<1>1. cells \in Seq(ListCells) /\ cache \in ListCaches /\ boxedSum \in BOOLEAN
  BY DEF ChainListInv
<1>2. Cells \subseteq ListCells
  BY ListAssumption DEF ListCells
<1>3. ASSUME NEW chain \in Chains, RunPipeline(chain) PROVE ChainListInv'
  BY <1>3, RunPipelineStep
<1>4. ASSUME boxedSum' = (boxedSum /\ cache'.sumVersion # None), MapOnly(1)
      PROVE  ChainListInv'
  <2> DEFINE p == Planned(cells, cache, "map_add")
  <2>1. /\ p \in ListCaches /\ LiveInv(p, cells)
        /\ boxedSum /\ cache.live => p.sumVersion = None
    BY PlannedFromChain
  <2>2. cache' = p /\ cells' = cells /\ answer' = NoAnswer
    BY <1>4 DEF MapOnly
  <2>3. ~boxedSum' /\ boxedSum' \in BOOLEAN
    <3>1. CASE cache.live
      BY <1>4, <2>1, <2>2, <3>1
    <3>2. CASE ~cache.live
      <4>1. cache.analyzed # cache.version
        BY <1>1, <3>2 DEF ChainListInv, ChainCacheInv, DeadInv, LiveInv, ListCaches, None
      <4> DEFINE e == EnsureListPlan(cache, cells, "map_add")
      <4>2. e.sumVersion = None
        <5>1. e = [cache EXCEPT !.plan = ChooseListPlan(cells, "map_add"), !.operation = "map_add",
                     !.live = TRUE, !.analyzed = cache.version, !.materialized = None,
                     !.promoted = <<>>, !.gather = <<>>, !.sumVersion = None,
                     !.sum = 0, !.sumIsInt = FALSE]
          BY <4>1 DEF EnsureListPlan
        <5> HIDE DEF e
        <5>2. QED
          BY <1>1, <5>1 DEF ListCaches
      <4>3. e \in ListCaches
        BY <1>1, <3>2, EnsureFacts DEF ChainListInv, ChainCacheInv, LiveInv
      <4>4. p = MaterializeIfNeeded(e, cells)
        BY DEF Planned
      <4> HIDE DEF e, p
      <4>5. \/ p = e
            \/ \E g, h : p = [e EXCEPT !.materialized = e.version, !.promoted = g, !.gather = h]
        BY <4>4 DEF MaterializeIfNeeded
      <4>6. p.sumVersion = None
        BY <4>2, <4>3, <4>5 DEF ListCaches
      <4>7. QED
        BY <1>4, <2>2, <4>6 DEF p
    <3>3. QED
      BY <3>1, <3>2
  <2> HIDE DEF p
  <2>4. QED
    BY <1>1, <2>1, <2>2, <2>3 DEF ChainListInv, ChainCacheInv, AnswerInv
<1>5. ASSUME boxedSum' = (~cache'.live /\ cache'.sumVersion # None), MapAssigned(1)
      PROVE  ChainListInv'
  <2> DEFINE p == Planned(cells, cache, "map_add")
  <2>1. p \in ListCaches /\ LiveInv(p, cells)
    BY PlannedFromChain
  <2>2. cells' = Mapped(cells, 1) /\ cache' = MappedCache(cells, p, 1) /\ answer' = NoAnswer
    BY <1>5 DEF MapAssigned
  <2> HIDE DEF p
  <2>3. /\ MappedCache(cells, p, 1) \in ListCaches
        /\ DeadInv(MappedCache(cells, p, 1)) \/ LiveInv(MappedCache(cells, p, 1), Mapped(cells, 1))
        /\ DeadInv(MappedCache(cells, p, 1)) =>
              MappedCache(cells, p, 1).sumVersion \in {None, MappedCache(cells, p, 1).version}
    BY <1>1, <2>1, MappedCacheFacts
  <2>4. Mapped(cells, 1) \in Seq(ListCells)
    BY <1>1, MappedFacts
  <2>5. QED
    BY <1>5, <2>2, <2>3, <2>4, ChainAssignStep
<1>6. ASSUME boxedSum' = (~cache'.live /\ cache'.sumVersion # None), AssignList
      PROVE  ChainListInv'
  <2>1. PICK x \in Cells, y \in Cells : cells' = <<x, y>>
    BY <1>6 DEF AssignList
  <2>2. cells' \in Seq(ListCells)
    BY <1>2, <2>1
  <2>3. /\ cache' = ColdCache /\ answer' = NoAnswer
        /\ ColdCache \in ListCaches /\ DeadInv(ColdCache) /\ ColdCache.sumVersion = None
    BY <1>6, ColdCacheFacts DEF AssignList, ColdCache
  <2>4. QED
    BY <1>6, <2>2, <2>3, ChainAssignStep
<1>7. ASSUME boxedSum' = (boxedSum /\ cache'.sumVersion # None),
             ListAppend \/ ListInsert \/ ListPop \/ ListSetIndex \/ ListRemove
      PROVE  ChainListInv'
  <2>1. CASE ListAppend
    <3>1. PICK x \in Cells : Mutate(Append(cells, x))
      BY <2>1 DEF ListAppend
    <3>2. Append(cells, x) \in Seq(ListCells)
      BY <1>1, <1>2, MutatedCells
    <3>3. QED
      BY <1>7, <3>1, <3>2, ChainMutateStep
  <2>2. CASE ListInsert
    <3>1. PICK x \in Cells, i \in 1..(Len(cells) + 1) : Mutate(InsertAt(cells, i, x))
      BY <2>2 DEF ListInsert
    <3>2. InsertAt(cells, i, x) \in Seq(ListCells)
      BY <1>1, <1>2, MutatedCells
    <3>3. QED
      BY <1>7, <3>1, <3>2, ChainMutateStep
  <2>3. CASE ListPop
    <3>1. PICK i \in DOMAIN cells : Mutate(RemoveAt(cells, i))
      BY <2>3 DEF ListPop
    <3>2. RemoveAt(cells, i) \in Seq(ListCells)
      BY <1>1, RemovedCells
    <3>3. QED
      BY <1>7, <3>1, <3>2, ChainMutateStep
  <2>4. CASE ListSetIndex
    <3>1. PICK x \in Cells, i \in DOMAIN cells : Mutate([cells EXCEPT ![i] = x])
      BY <2>4 DEF ListSetIndex
    <3>2. [cells EXCEPT ![i] = x] \in Seq(ListCells)
      BY <1>1, <1>2, MutatedCells
    <3>3. QED
      BY <1>7, <3>1, <3>2, ChainMutateStep
  <2>5. CASE ListRemove
    <3>1. PICK i \in DOMAIN cells : Mutate(RemoveAt(cells, i))
      BY <2>5 DEF ListRemove
    <3>2. RemoveAt(cells, i) \in Seq(ListCells)
      BY <1>1, RemovedCells
    <3>3. QED
      BY <1>7, <3>1, <3>2, ChainMutateStep
  <2>6. QED
    BY <1>7, <2>1, <2>2, <2>3, <2>4, <2>5
<1>8. CASE UNCHANGED streamVars
  BY <1>8 DEF streamVars, ChainListInv, ChainCacheInv, AnswerInv
<1>9. CASE Otherwise
  BY <1>4, <1>5, <1>6, <1>7, <1>9, ChainSumStep DEF Otherwise
<1>10. QED
  BY <1>3, <1>8, <1>9 DEF StreamNext

\* The variable starts with no plan, no sum and no copy.
LEMMA ChainInit == StreamInit => ChainListInv /\ StatsInv
<1> SUFFICES ASSUME StreamInit PROVE ChainListInv /\ StatsInv
  OBVIOUS
<1>1. cells \in Seq(ListCells) /\ cache = ColdCache /\ ~boxedSum /\ boxedSum \in BOOLEAN
  BY ListInit DEF StreamInit, ListIInv, ListInv, Init
<1>2. /\ ColdCache \in ListCaches /\ DeadInv(ColdCache)
      /\ ColdCache.sumVersion = None /\ ColdCache.version = 0
  BY ColdCacheFacts DEF ColdCache
<1>3. AnswerInv
  BY ListInit DEF StreamInit, ListIInv
<1>4. ChainListInv
  BY <1>1, <1>2, <1>3 DEF ChainListInv, ChainCacheInv
<1>5. /\ stats = [signature |-> stats.signature, version |-> stats.version, numbers |-> stats.numbers]
      /\ stats.version = -1
  BY DEF StreamInit, NoStats, None
<1>6. StatsInv
  BY <1>1, <1>2, <1>5 DEF StatsInv
<1>7. QED
  BY <1>4, <1>6

\* A sum or a map that is not assigned leaves the version, and a plan.
LEMMA AnswersKeepVersion ==
  ASSUME ChainListInv, ReduceSum \/ MapOnly(1)
  PROVE  cells' = cells /\ cache'.version = cache.version /\ (cache.live => cache'.live)
<1>1. CASE MapOnly(1)
  <2>1. cache' = Planned(cells, cache, "map_add") /\ cells' = cells
    BY <1>1 DEF MapOnly
  <2>2. QED
    BY <2>1, PlannedFromChain DEF LiveInv
<1>2. CASE ReduceSum
  <2>1. cache' = ReduceSumOf(cells, cache).cache /\ cells' = cells
    BY <1>2 DEF ReduceSum
  <2>2. CASE cache.sumVersion = cache.version
    BY <2>1, <2>2 DEF ReduceSumOf
  <2>3. CASE cache.sumVersion # cache.version
    <3> DEFINE p == Planned(cells, cache, "reduce_sum")
    <3>1. p \in ListCaches /\ p.live /\ p.version = cache.version
      BY PlannedFromChain DEF LiveInv
    <3>2. PICK total, isInt :
             cache' = [p EXCEPT !.sumVersion = p.version, !.sum = total, !.sumIsInt = isInt]
      BY <2>1, <2>3 DEF ReduceSumOf
    <3> HIDE DEF p
    <3>3. QED
      BY <2>1, <3>1, <3>2 DEF ListCaches
  <2>4. QED
    BY <2>2, <2>3
<1>3. QED
  BY <1>1, <1>2

\* A mutation makes every copy one of an earlier version, if the list had a plan.
LEMMA MutationVersion ==
  ASSUME ChainListInv, NEW s, Mutate(s)
  PROVE  IF cache.live THEN cache'.version = cache.version + 1 ELSE cache' = cache
<1>1. cache \in ListCaches /\ cache' = InvalidateListCache(cache)
  BY DEF ChainListInv, Mutate
<1>2. CASE cache.live
  <2> DEFINE v == cache.version + 1
  <2>1. cache' = [ColdCache EXCEPT !.version = v]
    BY <1>1, <1>2 DEF InvalidateListCache, HasLivePlan
  <2> HIDE DEF v
  <2>2. cache'.version = v
    BY <2>1, ColdCacheFacts DEF ListCaches
  <2>3. QED
    BY <1>2, <2>2 DEF v
<1>3. CASE ~cache.live
  BY <1>1, <1>3 DEF InvalidateListCache, HasLivePlan
<1>4. QED
  BY <1>2, <1>3

\* A chain renews the copy or finds it of the present version.
LEMMA RunPipelineStats ==
  ASSUME ChainListInv, StatsInv, NEW chain \in Chains, RunPipeline(chain)
  PROVE  StatsInv'
<1> DEFINE e == Entry(chain)
           known == Known(Signature(chain))
<1>1. cache'.live /\ cache'.version = cache.version /\ cells' = cells
  <2>1. cache' = [cache EXCEPT !.live = TRUE, !.plan = PlanFor(chain),
                               !.operation = "pipeline", !.analyzed = cache.version]
    BY DEF RunPipeline
  <2>2. QED
    BY <2>1 DEF RunPipeline, ChainListInv, ListCaches
<1>2. e = [signature |-> e.signature, version |-> e.version, numbers |-> e.numbers]
  BY DEF StatsInv, Entry
<1>3. stats' \in {e, [e EXCEPT !.numbers = Copy(chain)]}
  BY DEF RunPipeline
<1>4. Copy(chain) = IF e.numbers # <<>> THEN e.numbers ELSE Numbers(cells)
  BY DEF Copy
<1>5. known => e = stats /\ e.version = cache.version
  BY DEF Known, Entry
<1>6. ~known => e.version = cache.version /\ e.numbers = <<>>
  BY DEF Entry
<1>7. reassigned' = (reassigned /\ known)
  BY DEF RunPipeline
<1> HIDE DEF e, known
<1>8. stats'.version = e.version /\ stats'.numbers \in {e.numbers, Copy(chain)}
  BY <1>2, <1>3
<1>9. stats' = [signature |-> stats'.signature, version |-> stats'.version, numbers |-> stats'.numbers]
  BY <1>2, <1>3
<1>10. cache.version \in Nat
  BY DEF ChainListInv, ListCaches
<1>11. ~reassigned' => e.numbers \in {<<>>, Numbers(cells)}
  <2>1. CASE known
    BY <1>5, <1>7, <2>1 DEF StatsInv
  <2>2. CASE ~known
    BY <1>6, <2>2
  <2>3. QED
    BY <2>1, <2>2
<1>12. e.version = cache.version
  BY <1>5, <1>6
<1>13. Numbers(cells)' = Numbers(cells)
  BY <1>1 DEF Numbers
<1>14. QED
  BY <1>1, <1>4, <1>8, <1>9, <1>10, <1>11, <1>12, <1>13 DEF StatsInv

\* Nothing else makes a copy pass for one of other cells, unless the variable is
\* assigned to.
LEMMA StatsStep ==
  ChainListInv /\ ChainListInv' /\ StatsInv /\ [StreamNext]_streamVars => StatsInv'
<1> SUFFICES ASSUME ChainListInv, ChainListInv', StatsInv, [StreamNext]_streamVars PROVE StatsInv'
  OBVIOUS
<1>1. ASSUME NEW chain \in Chains, RunPipeline(chain) PROVE StatsInv'
  BY <1>1, RunPipelineStats
<1>2. cache.version \in Nat /\ cache'.version \in Nat
  BY DEF ChainListInv, ListCaches
<1>3. ASSUME UNCHANGED <<stats, reassigned>>, ReduceSum \/ MapOnly(1) PROVE StatsInv'
  <2>1. cells' = cells /\ cache'.version = cache.version /\ (cache.live => cache'.live)
    BY <1>3, AnswersKeepVersion
  <2>2. Numbers(cells)' = Numbers(cells)
    BY <2>1 DEF Numbers
  <2>3. QED
    BY <1>3, <2>1, <2>2 DEF StatsInv
<1>4. ASSUME UNCHANGED <<stats, reassigned>>, NEW s, Mutate(s) PROVE StatsInv'
  <2>1. IF cache.live THEN cache'.version = cache.version + 1 ELSE cache' = cache
    BY <1>4, MutationVersion
  <2>2. CASE cache.live
    <3>1. ~reassigned' => stats'.version \in Int /\ stats'.version < cache'.version
      BY <1>2, <1>4, <2>1, <2>2 DEF StatsInv
    <3>2. QED
      BY <1>2, <1>4, <3>1 DEF StatsInv
  <2>3. CASE ~cache.live
    BY <1>4, <2>1, <2>3 DEF StatsInv
  <2>4. QED
    BY <2>2, <2>3
<1>5. ASSUME UNCHANGED <<stats, reassigned>>,
             ListAppend \/ ListInsert \/ ListPop \/ ListSetIndex \/ ListRemove
      PROVE  StatsInv'
  <2>1. \E s : Mutate(s)
    BY <1>5 DEF ListAppend, ListInsert, ListPop, ListSetIndex, ListRemove
  <2>2. QED
    BY <1>4, <1>5, <2>1
<1>6. ASSUME UNCHANGED stats, reassigned' = (stats # NoStats) PROVE StatsInv'
  <2>1. CASE stats = NoStats
    <3>1. stats.version = -1
      BY <2>1 DEF NoStats, None
    <3>2. QED
      BY <1>2, <1>6, <3>1 DEF StatsInv
  <2>2. CASE stats # NoStats
    BY <1>6, <2>2 DEF StatsInv
  <2>3. QED
    BY <2>1, <2>2
<1>7. CASE UNCHANGED streamVars
  <2>1. cells' = cells /\ cache' = cache /\ stats' = stats /\ reassigned' = reassigned
    BY <1>7 DEF streamVars
  <2>2. Numbers(cells)' = Numbers(cells)
    BY <2>1 DEF Numbers
  <2>3. QED
    BY <2>1, <2>2 DEF StatsInv
<1>8. CASE Otherwise
  BY <1>3, <1>5, <1>6, <1>8 DEF Otherwise
<1>9. QED
  BY <1>1, <1>7, <1>8 DEF StreamNext

\* The invariant tells that the plan and the sum are those of the list, but for a
\* sum that map_add has left without a plan.
LEMMA ChainPlans == ChainListInv => PlansFresh /\ SumsKept
<1> SUFFICES ASSUME ChainListInv, ~boxedSum PROVE LivePlanFresh /\ LiveSumCorrect
  BY DEF PlansFresh, SumsKept
<1>1. ListIInv
  BY DEF ChainListInv, ChainCacheInv, ListIInv, ListInv
<1>2. QED
  BY <1>1, ListFresh, ListSummed

\* It tells that a copy that a chain takes for the list's own is so.
LEMMA ChainCopies == StatsInv => CopiesFresh
<1> SUFFICES ASSUME StatsInv, NEW chain \in Chains, ~(reassigned /\ Known(Signature(chain)))
             PROVE  Copy(chain) = Numbers(cells)
  BY DEF CopiesFresh
<1>1. CASE Known(Signature(chain))
  <2>1. Entry(chain) = stats /\ stats.numbers \in {<<>>, Numbers(cells)}
    BY <1>1 DEF Known, Entry, StatsInv
  <2>2. QED
    BY <2>1 DEF Copy
<1>2. CASE ~Known(Signature(chain))
  BY <1>2 DEF Entry, Copy
<1>3. QED
  BY <1>1, <1>2

\* Whatever chains, mutations, maps, sums and assignments a program makes of a
\* list, a live plan describes its present cells and its sum is theirs; the one
\* exception is a sum that map_add left in a cache without a plan.
THEOREM ChainPlansTheorem == StreamSpec => [](PlansFresh /\ SumsKept)
<1>1. StreamInit => ChainListInv
  BY ChainInit
<1>2. QED
  BY <1>1, ChainListStep, ChainPlans, PTL DEF StreamSpec

\* A chain that runs over a kept copy of the numbers runs over those that are in
\* the list now, unless the variable has been assigned another list since.
THEOREM CopiesFreshTheorem == StreamSpec => []CopiesFresh
<1>1. StreamInit => ChainListInv /\ StatsInv
  BY ChainInit
<1>2. ChainListInv /\ StatsInv /\ [StreamNext]_streamVars => ChainListInv' /\ StatsInv'
  BY ChainListStep, StatsStep
<1>3. ChainListInv /\ StatsInv => CopiesFresh
  BY ChainCopies
<1>4. QED
  BY <1>1, <1>2, <1>3, PTL DEF StreamSpec

-----------------------------------------------------------------------------
(* What is kept of a sequence *)

\* Induction over an interval.
LEMMA Induct ==
  ASSUME NEW n \in Nat, NEW T, 0 \in T, \A i \in 0..(n - 1) : i \in T => i + 1 \in T
  PROVE  \A i \in 0..n : i \in T
<1> DEFINE U == {i \in 0..n : i \notin T}
<1> SUFFICES ASSUME U # {} PROVE FALSE
  OBVIOUS
<1>1. U \in SUBSET Nat
  OBVIOUS
<1>2. PICK m \in U : \A k \in U : m <= k
  BY <1>1, LeastNat
<1>3. m - 1 \in 0..(n - 1) /\ m - 1 \notin U
  BY <1>2
<1>4. m - 1 \in T
  BY <1>3
<1>5. QED
  BY <1>2, <1>3, <1>4

\* A member of such an interval is zero or comes after it.
LEMMA ZeroOrNot ==
  ASSUME NEW n \in Nat
  PROVE  \A i \in 0..n : i = 0 \/ i \in 1..n
OBVIOUS

\* The first value of f is b, and each other what step makes of the one before.
Follows(f, n, b, step) == f[0] = b /\ \A i \in 1..n : f[i] = step[<<i, f[i - 1]>>]

\* There is such an f.
LEMMA Recursion ==
  ASSUME NEW n \in Nat, NEW S, NEW b \in S, NEW step \in [(1..n) \X S -> S]
  PROVE  \E f \in [0..n -> S] : Follows(f, n, b, step)
<1> DEFINE Made(m) == \E f \in [0..m -> S] : f[0] = b /\ \A i \in 1..m : f[i] = step[<<i, f[i - 1]>>]
           T == {m \in Nat : Made(m)}
<1>1. 0 \in T
  <2> DEFINE f == [i \in 0..0 |-> b]
  <2>1. f \in [0..0 -> S] /\ f[0] = b /\ \A i \in 1..0 : f[i] = step[<<i, f[i - 1]>>]
    OBVIOUS
  <2>2. QED
    BY <2>1
<1>2. ASSUME NEW m \in 0..(n - 1), m \in T PROVE m + 1 \in T
  <2>1. PICK f \in [0..m -> S] : f[0] = b /\ \A i \in 1..m : f[i] = step[<<i, f[i - 1]>>]
    BY <1>2
  <2> DEFINE x == step[<<m + 1, f[m]>>]
             h == [i \in 0..(m + 1) |-> IF i = m + 1 THEN x ELSE f[i]]
  <2>2. x \in S
    BY <2>1
  <2> HIDE DEF x
  <2>3. h \in [0..(m + 1) -> S] /\ \A i \in 0..m : h[i] = f[i]
    BY <2>1, <2>2
  <2>4. h[m + 1] = x /\ h[0] = b
    BY <2>1
  <2>5. ASSUME NEW i \in 1..(m + 1) PROVE h[i] = step[<<i, h[i - 1]>>]
    <3>1. i - 1 \in 0..m /\ h[i - 1] = f[i - 1]
      BY <2>3
    <3>2. CASE i = m + 1
      <4>1. i - 1 = m /\ m \in 0..m
        BY <3>2
      <4>2. h[i] = x /\ h[i - 1] = f[m]
        BY <2>3, <2>4, <3>2, <4>1
      <4>3. QED
        BY <3>2, <4>2 DEF x
    <3>3. CASE i # m + 1
      BY <2>1, <2>3, <3>1, <3>3
    <3>4. QED
      BY <3>2, <3>3
  <2> HIDE DEF h
  <2>6. Made(m + 1)
    BY <2>3, <2>4, <2>5
  <2>7. QED
    BY <2>6
<1> HIDE DEF T
<1>3. n \in T
  BY <1>1, <1>2, Induct
<1>4. QED
  BY <1>3 DEF T, Follows

\* f has what Kept has kept up to each place.
KeptUpTo(f, v, keep) ==
    /\ f[0] = <<>> /\ Kept(v, keep) = f[Len(v)]
    /\ \A i \in 1..Len(v) :
          /\ keep[i] => f[i] = Append(f[i - 1], v[i])
          /\ ~keep[i] => f[i] = f[i - 1]

\* There is such an f.
LEMMA KeptSteps ==
  ASSUME NEW R, NEW v \in Seq(R), NEW keep \in [1..Len(v) -> BOOLEAN]
  PROVE  \E f \in [0..Len(v) -> Seq(R)] : KeptUpTo(f, v, keep)
<1> DEFINE n == Len(v)
           step == [p \in (1..n) \X Seq(R) |-> IF keep[p[1]] THEN Append(p[2], v[p[1]]) ELSE p[2]]
           Grown(u, i) == IF keep[i] THEN Append(u, v[i]) ELSE u
           Is(f) == f = [i \in 0..n |-> IF i = 0 THEN <<>> ELSE Grown(f[i - 1], i)]
           kept == CHOOSE f : Is(f)
<1>1. n \in Nat /\ \A i \in 1..n : v[i] \in R
  OBVIOUS
<1>2. step \in [(1..n) \X Seq(R) -> Seq(R)] /\ <<>> \in Seq(R)
  BY <1>1
<1>b. \A i \in 1..n, u \in Seq(R) : step[<<i, u>>] = Grown(u, i)
  OBVIOUS
<1>c. \A i \in 0..n : i = 0 \/ i \in 1..n
  BY <1>1, ZeroOrNot
<1> HIDE DEF step, n, Grown
<1>3. PICK f \in [0..n -> Seq(R)] : Follows(f, n, <<>>, step)
  BY <1>1, <1>2, Recursion
<1>4. \A i \in 1..n : f[i] = Grown(f[i - 1], i)
  <2> TAKE i \in 1..n
  <2>1. i - 1 \in 0..n /\ f[i - 1] \in Seq(R) /\ f[i] = step[<<i, f[i - 1]>>]
    BY <1>1, <1>3 DEF Follows
  <2>2. QED
    BY <1>b, <2>1
<1>a. f[0] = <<>>
  BY <1>3 DEF Follows
<1>5. Is(f)
  <2>1. \A i \in 0..n : f[i] = IF i = 0 THEN <<>> ELSE Grown(f[i - 1], i)
    BY <1>4, <1>a, <1>c
  <2>2. QED
    BY <1>3, <2>1
<1>6. Is(kept)
  BY <1>5
<1>7. Kept(v, keep) = kept[n]
  BY DEF Kept, n, Grown
<1> HIDE DEF kept
<1> DEFINE T == {i \in 0..n : kept[i] = f[i]}
<1>8. 0 \in T
  BY <1>1, <1>a, <1>6
<1>9. ASSUME NEW i \in 0..(n - 1), i \in T PROVE i + 1 \in T
  <2>1. i + 1 \in 1..n /\ i + 1 \in 0..n /\ (i + 1) - 1 = i /\ i + 1 # 0 /\ kept[i] = f[i]
    BY <1>1, <1>9
  <2>2. kept[i + 1] = Grown(kept[i], i + 1)
    BY <1>6, <2>1
  <2>3. QED
    BY <1>4, <2>1, <2>2
<1> HIDE DEF T
<1>10. \A i \in 0..n : i \in T
  BY <1>1, <1>8, <1>9, Induct
<1>11. kept[n] = f[n]
  BY <1>1, <1>10 DEF T
<1>12. QED
  BY <1>3, <1>4, <1>7, <1>11, <1>a DEF n, KeptUpTo, Grown

\* Keeping everything.
LEMMA KeptAll ==
  ASSUME NEW R, NEW v \in Seq(R), NEW keep \in [1..Len(v) -> BOOLEAN], \A i \in 1..Len(v) : keep[i]
  PROVE  Kept(v, keep) = v
<1>a. PICK f \in [0..Len(v) -> Seq(R)] : KeptUpTo(f, v, keep)
  BY KeptSteps
<1>1. /\ f[0] = <<>> /\ Kept(v, keep) = f[Len(v)]
      /\ \A i \in 1..Len(v) :
            /\ keep[i] => f[i] = Append(f[i - 1], v[i])
            /\ ~keep[i] => f[i] = f[i - 1]
  BY <1>a DEF KeptUpTo
<1> DEFINE n == Len(v)
           Same(i) == Len(f[i]) = i /\ \A j \in 1..i : f[i][j] = v[j]
           T == {i \in 0..n : Same(i)}
<1>2. n \in Nat /\ \A i \in 1..n : v[i] \in R
  OBVIOUS
<1>3. 0 \in T
  BY <1>1, <1>2
<1>4. ASSUME NEW i \in 0..(n - 1), i \in T PROVE i + 1 \in T
  <2>1. i + 1 \in 1..n /\ (i + 1) - 1 = i /\ f[i] \in Seq(R) /\ v[i + 1] \in R
    BY <1>2
  <2>2. f[i + 1] = Append(f[i], v[i + 1])
    BY <1>1, <2>1
  <2>3. Len(f[i]) = i /\ \A j \in 1..i : f[i][j] = v[j]
    BY <1>4
  <2>4. Len(f[i + 1]) = i + 1 /\ f[i + 1][i + 1] = v[i + 1] /\ \A j \in 1..i : f[i + 1][j] = f[i][j]
    BY <2>1, <2>2, <2>3
  <2>5. \A j \in 1..(i + 1) : f[i + 1][j] = v[j]
    BY <2>1, <2>3, <2>4
  <2>6. Same(i + 1)
    BY <2>4, <2>5
  <2> HIDE DEF Same
  <2>7. QED
    BY <2>1, <2>6
<1> HIDE DEF T, n
<1>b. \A i \in 0..n : i \in T
  BY <1>2, <1>3, <1>4, Induct
<1>5. n \in T
  BY <1>2, <1>b
<1>6. f[n] \in Seq(R) /\ Len(f[n]) = n /\ \A j \in 1..n : f[n][j] = v[j]
  BY <1>1, <1>2, <1>5 DEF T, n
<1>7. QED
  BY <1>1, <1>6, SeqEqual DEF n

\* What is kept was there and passed.
LEMMA KeptMembers ==
  ASSUME NEW R, NEW v \in Seq(R), NEW keep \in [1..Len(v) -> BOOLEAN]
  PROVE  /\ Kept(v, keep) \in Seq(R)
         /\ \A j \in 1..Len(Kept(v, keep)) : \E i \in 1..Len(v) : keep[i] /\ Kept(v, keep)[j] = v[i]
<1>a. PICK f \in [0..Len(v) -> Seq(R)] : KeptUpTo(f, v, keep)
  BY KeptSteps
<1>1. /\ f[0] = <<>> /\ Kept(v, keep) = f[Len(v)]
      /\ \A i \in 1..Len(v) :
            /\ keep[i] => f[i] = Append(f[i - 1], v[i])
            /\ ~keep[i] => f[i] = f[i - 1]
  BY <1>a DEF KeptUpTo
<1> DEFINE n == Len(v)
           From(x) == \E i \in 1..n : keep[i] /\ x = v[i]
           T == {i \in 0..n : \A j \in 1..Len(f[i]) : From(f[i][j])}
<1>2. n \in Nat /\ \A i \in 1..n : v[i] \in R
  OBVIOUS
<1>3. 0 \in T
  BY <1>1, <1>2
<1>4. ASSUME NEW i \in 0..(n - 1), i \in T PROVE i + 1 \in T
  <2>a. i + 1 \in 1..n /\ (i + 1) - 1 = i /\ i \in 0..Len(v)
    BY <1>2
  <2>b. f[i] \in Seq(R)
    BY <2>a
  <2>1. i + 1 \in 1..n /\ (i + 1) - 1 = i /\ f[i] \in Seq(R) /\ v[i + 1] \in R
    BY <1>2, <2>a, <2>b
  <2>2. \A j \in 1..Len(f[i]) : From(f[i][j])
    BY <1>4
  <2>3. keep[i + 1] => From(v[i + 1])
    BY <2>1
  <2> HIDE DEF From
  <2>4. CASE keep[i + 1]
    <3>1. f[i + 1] = Append(f[i], v[i + 1])
      BY <1>1, <2>1, <2>4
    <3>2. ASSUME NEW j \in 1..Len(f[i + 1]) PROVE From(f[i + 1][j])
      <4>1. j \in 1..Len(f[i]) \/ f[i + 1][j] = v[i + 1]
        BY <2>1, <3>1
      <4>2. CASE j \in 1..Len(f[i])
        BY <2>1, <2>2, <3>1, <4>2
      <4>3. QED
        BY <2>3, <2>4, <4>1, <4>2
    <3>3. QED
      BY <2>1, <3>2
  <2>5. CASE ~keep[i + 1]
    BY <1>1, <2>1, <2>2, <2>5
  <2>6. QED
    BY <2>4, <2>5
<1> HIDE DEF T, n
<1>b. \A i \in 0..n : i \in T
  BY <1>2, <1>3, <1>4, Induct
<1>5. n \in T
  BY <1>2, <1>b
<1>6. \A j \in 1..Len(f[n]) : From(f[n][j])
  BY <1>5 DEF T
<1>7. f[n] \in Seq(R) /\ Kept(v, keep) = f[n]
  <2>1. n \in 0..Len(v)
    BY <1>2 DEF n
  <2>2. f[n] \in Seq(R)
    BY <2>1
  <2>3. QED
    BY <1>1, <2>2 DEF n
<1>8. QED
  BY <1>6, <1>7 DEF n

\* w is g of every member of v, or of those that are kept.
MapsTo(g, v, w) == Len(w) = Len(v) /\ \A j \in 1..Len(v) : w[j] = g[v[j]]
MapsWhere(g, v, w, keep) == Len(w) = Len(v) /\ \A j \in 1..Len(v) : keep[j] => w[j] = g[v[j]]

\* Keeping the same places of two sequences.
LEMMA KeptMap ==
  ASSUME NEW R, NEW Q, NEW v \in Seq(R), NEW w \in Seq(Q),
         NEW keep \in [1..Len(v) -> BOOLEAN], NEW g, MapsWhere(g, v, w, keep)
  PROVE  MapsTo(g, Kept(v, keep), Kept(w, keep))
<1>0. Len(w) = Len(v) /\ \A j \in 1..Len(v) : keep[j] => w[j] = g[v[j]]
  BY DEF MapsWhere
<1>1. PICK f \in [0..Len(v) -> Seq(R)] : KeptUpTo(f, v, keep)
  BY KeptSteps
<1>2. keep \in [1..Len(w) -> BOOLEAN]
  BY <1>0
<1>3. PICK h \in [0..Len(w) -> Seq(Q)] : KeptUpTo(h, w, keep)
  BY <1>2, KeptSteps
<1> DEFINE n == Len(v)
           Same(i) == Len(h[i]) = Len(f[i]) /\ \A j \in 1..Len(f[i]) : h[i][j] = g[f[i][j]]
           T == {i \in 0..n : Same(i)}
<1>a. n \in Nat /\ Len(w) = n /\ f \in [0..n -> Seq(R)]
  BY <1>0
<1>b. h \in [0..n -> Seq(Q)]
  BY <1>a
<1>c. \A i \in 1..n : v[i] \in R
  OBVIOUS
<1>d. \A i \in 1..n : w[i] \in Q
  BY <1>a
<1>4. /\ n \in Nat /\ \A i \in 1..n : v[i] \in R /\ w[i] \in Q
      /\ \A i \in 0..n : f[i] \in Seq(R) /\ h[i] \in Seq(Q)
  BY <1>a, <1>b, <1>c, <1>d
<1>5. /\ f[0] = <<>> /\ h[0] = <<>> /\ Kept(v, keep) = f[n] /\ Kept(w, keep) = h[n]
      /\ \A i \in 1..n :
            /\ keep[i] => f[i] = Append(f[i - 1], v[i]) /\ h[i] = Append(h[i - 1], w[i])
            /\ ~keep[i] => f[i] = f[i - 1] /\ h[i] = h[i - 1]
  BY <1>0, <1>1, <1>3 DEF KeptUpTo
<1> HIDE DEF n
<1>6. 0 \in T
  BY <1>4, <1>5
<1>7. ASSUME NEW i \in 0..(n - 1), i \in T PROVE i + 1 \in T
  <2>1. i + 1 \in 1..n /\ (i + 1) - 1 = i
    BY <1>4
  <2>2. Same(i)
    BY <1>7
  <2>3. f[i] \in Seq(R) /\ h[i] \in Seq(Q) /\ v[i + 1] \in R /\ w[i + 1] \in Q
    BY <1>4, <2>1
  <2>4. CASE keep[i + 1]
    <3>1. f[i + 1] = Append(f[i], v[i + 1]) /\ h[i + 1] = Append(h[i], w[i + 1])
      BY <1>5, <2>1, <2>4
    <3>2. w[i + 1] = g[v[i + 1]]
      BY <1>0, <2>1, <2>4 DEF n
    <3>3. Len(h[i + 1]) = Len(f[i + 1]) /\ Len(f[i + 1]) = Len(f[i]) + 1 /\ Len(f[i]) \in Nat
      <4>1. Len(h[i + 1]) = Len(h[i]) + 1 /\ Len(f[i + 1]) = Len(f[i]) + 1 /\ Len(f[i]) \in Nat
        BY <2>3, <3>1
      <4>2. QED
        BY <2>2, <4>1
    <3>4. ASSUME NEW j \in 1..Len(f[i + 1]) PROVE h[i + 1][j] = g[f[i + 1][j]]
      <4>1. CASE j = Len(f[i]) + 1
        BY <2>2, <2>3, <3>1, <3>2, <4>1
      <4>2. CASE j # Len(f[i]) + 1
        <5>1. j \in 1..Len(f[i])
          BY <3>3, <4>2
        <5>2. f[i + 1][j] = f[i][j] /\ h[i + 1][j] = h[i][j]
          BY <2>2, <2>3, <3>1, <5>1
        <5>3. QED
          BY <2>2, <5>1, <5>2
      <4>3. QED
        BY <4>1, <4>2
    <3>5. Same(i + 1)
      BY <3>3, <3>4
    <3> HIDE DEF Same
    <3>6. QED
      BY <2>1, <3>5
  <2>5. CASE ~keep[i + 1]
    <3>1. f[i + 1] = f[i] /\ h[i + 1] = h[i]
      BY <1>5, <2>1, <2>5
    <3>2. Same(i + 1)
      BY <2>2, <3>1
    <3> HIDE DEF Same
    <3>3. QED
      BY <2>1, <3>2
  <2>6. QED
    BY <2>4, <2>5
<1> HIDE DEF T
<1>8. \A i \in 0..n : i \in T
  BY <1>4, <1>6, <1>7, Induct
<1>9. n \in T
  BY <1>4, <1>8
<1>10. QED
  BY <1>5, <1>9 DEF T, MapsTo

\* One more member is kept or not.
LEMMA KeptAppend ==
  ASSUME NEW R, NEW v \in Seq(R), NEW x \in R, NEW keep \in [1..(Len(v) + 1) -> BOOLEAN],
         NEW first \in [1..Len(v) -> BOOLEAN], \A i \in 1..Len(v) : first[i] = keep[i]
  PROVE  /\ keep[Len(v) + 1] => Kept(Append(v, x), keep) = Append(Kept(v, first), x)
         /\ ~keep[Len(v) + 1] => Kept(Append(v, x), keep) = Kept(v, first)
<1> DEFINE n == Len(v)
           w == Append(v, x)
<1>1. PICK f \in [0..Len(v) -> Seq(R)] : KeptUpTo(f, v, first)
  BY KeptSteps
<1>2. /\ w \in Seq(R) /\ Len(w) = n + 1 /\ n \in Nat /\ w[n + 1] = x
      /\ \A i \in 1..n : w[i] = v[i]
  OBVIOUS
<1> HIDE DEF w
<1>3. keep \in [1..Len(w) -> BOOLEAN]
  BY <1>2
<1>4. PICK h \in [0..Len(w) -> Seq(R)] : KeptUpTo(h, w, keep)
  BY <1>2, <1>3, KeptSteps
<1> DEFINE T == {i \in 0..n : h[i] = f[i]}
<1>5. /\ f[0] = <<>> /\ Kept(v, first) = f[n]
      /\ \A i \in 1..n :
            /\ first[i] => f[i] = Append(f[i - 1], v[i])
            /\ ~first[i] => f[i] = f[i - 1]
  BY <1>1 DEF KeptUpTo
<1>6. /\ h[0] = <<>> /\ Kept(w, keep) = h[n + 1]
      /\ \A i \in 1..(n + 1) :
            /\ keep[i] => h[i] = Append(h[i - 1], w[i])
            /\ ~keep[i] => h[i] = h[i - 1]
  BY <1>2, <1>4 DEF KeptUpTo
<1>7. \A i \in 1..n : first[i] = keep[i]
  OBVIOUS
<1> HIDE DEF n
<1>8. 0 \in T
  BY <1>2, <1>5, <1>6
<1>9. ASSUME NEW i \in 0..(n - 1), i \in T PROVE i + 1 \in T
  <2>1. i + 1 \in 1..n /\ i + 1 \in 1..(n + 1) /\ (i + 1) - 1 = i
    BY <1>2
  <2>2. h[i] = f[i] /\ w[i + 1] = v[i + 1] /\ first[i + 1] = keep[i + 1]
    BY <1>2, <1>7, <1>9, <2>1
  <2>3. /\ keep[i + 1] => h[i + 1] = Append(h[i], w[i + 1])
        /\ ~keep[i + 1] => h[i + 1] = h[i]
    BY <1>6, <2>1
  <2>a. /\ first[i + 1] => f[i + 1] = Append(f[i], v[i + 1])
        /\ ~first[i + 1] => f[i + 1] = f[i]
    BY <1>5, <2>1
  <2>b. h[i + 1] = f[i + 1]
    BY <2>2, <2>3, <2>a
  <2>4. QED
    BY <2>1, <2>b
<1> HIDE DEF T
<1>10. \A i \in 0..n : i \in T
  BY <1>2, <1>8, <1>9, Induct
<1>11. h[n] = f[n] /\ (n + 1) - 1 = n /\ n + 1 \in 1..(n + 1)
  BY <1>2, <1>10 DEF T
<1>12. /\ keep[n + 1] => h[n + 1] = Append(f[n], x)
       /\ ~keep[n + 1] => h[n + 1] = f[n]
  BY <1>2, <1>6, <1>11
<1>13. QED
  BY <1>5, <1>6, <1>12 DEF n, w

\* The members that are in T pass.
Passing(v, T) == [i \in 1..Len(v) |-> v[i] \in T]

LEMMA PassingAppend ==
  ASSUME NEW R, NEW u \in Seq(R), NEW x \in R, NEW T
  PROVE  Kept(Append(u, x), Passing(Append(u, x), T)) =
           IF x \in T THEN Append(Kept(u, Passing(u, T)), x) ELSE Kept(u, Passing(u, T))
<1> DEFINE w == Append(u, x)
           now == Passing(w, T)
           first == Passing(u, T)
<1>1. /\ w \in Seq(R) /\ Len(w) = Len(u) + 1 /\ Len(u) \in Nat /\ w[Len(u) + 1] = x
      /\ \A i \in 1..Len(u) : w[i] = u[i]
  OBVIOUS
<1> HIDE DEF w
<1>2. /\ now \in [1..(Len(u) + 1) -> BOOLEAN] /\ first \in [1..Len(u) -> BOOLEAN]
      /\ now[Len(u) + 1] = (x \in T)
      /\ \A i \in 1..Len(u) : first[i] = now[i]
  BY <1>1 DEF Passing
<1> HIDE DEF now, first
<1>3. /\ now[Len(u) + 1] => Kept(Append(u, x), now) = Append(Kept(u, first), x)
      /\ ~now[Len(u) + 1] => Kept(Append(u, x), now) = Kept(u, first)
  BY <1>2, KeptAppend
<1>4. QED
  BY <1>2, <1>3 DEF w, now, first

\* Those that were kept and are in T.
KeptAndPassing(v, keep, T) == [i \in 1..Len(v) |-> keep[i] /\ v[i] \in T]

\* Keeping some and then, of these, those in T.
LEMMA KeptTwice ==
  ASSUME NEW R, NEW v \in Seq(R), NEW T, NEW keep \in [1..Len(v) -> BOOLEAN]
  PROVE  Kept(v, KeptAndPassing(v, keep, T)) = Kept(Kept(v, keep), Passing(Kept(v, keep), T))
<1> DEFINE n == Len(v)
           both == KeptAndPassing(v, keep, T)
           Of(u) == Kept(u, Passing(u, T))
<1>1. PICK f \in [0..Len(v) -> Seq(R)] : KeptUpTo(f, v, keep)
  BY KeptSteps
<1>a. both \in [1..Len(v) -> BOOLEAN] /\ \A i \in 1..n : both[i] = (keep[i] /\ v[i] \in T)
  BY DEF KeptAndPassing
<1> HIDE DEF both
<1>2. PICK h \in [0..Len(v) -> Seq(R)] : KeptUpTo(h, v, both)
  BY <1>a, KeptSteps
<1>3. /\ n \in Nat /\ \A i \in 1..n : v[i] \in R
      /\ \A i \in 0..n : f[i] \in Seq(R) /\ h[i] \in Seq(R)
  OBVIOUS
<1>4. /\ f[0] = <<>> /\ h[0] = <<>> /\ Kept(v, keep) = f[n] /\ Kept(v, both) = h[n]
      /\ \A i \in 1..n :
            /\ keep[i] => f[i] = Append(f[i - 1], v[i])
            /\ ~keep[i] => f[i] = f[i - 1]
            /\ both[i] => h[i] = Append(h[i - 1], v[i])
            /\ ~both[i] => h[i] = h[i - 1]
  BY <1>1, <1>2 DEF KeptUpTo
<1>5. \A u \in Seq(R), x \in R : Of(Append(u, x)) = IF x \in T THEN Append(Of(u), x) ELSE Of(u)
  BY PassingAppend
<1>6. Of(<<>>) = <<>>
  <2>1. <<>> \in Seq(R) /\ Len(<<>>) = 0 /\ Passing(<<>>, T) \in [1..Len(<<>>) -> BOOLEAN]
    BY DEF Passing
  <2>2. PICK e \in [0..Len(<<>>) -> Seq(R)] : KeptUpTo(e, <<>>, Passing(<<>>, T))
    BY <2>1, KeptSteps
  <2>3. QED
    BY <2>1, <2>2 DEF KeptUpTo
<1> HIDE DEF n, Of
<1> DEFINE U == {i \in 0..n : h[i] = Of(f[i])}
<1>7. 0 \in U
  BY <1>3, <1>4, <1>6
<1>8. ASSUME NEW i \in 0..(n - 1), i \in U PROVE i + 1 \in U
  <2>1. i + 1 \in 1..n /\ (i + 1) - 1 = i /\ f[i] \in Seq(R) /\ v[i + 1] \in R
    BY <1>3
  <2>2. h[i] = Of(f[i]) /\ both[i + 1] = (keep[i + 1] /\ v[i + 1] \in T)
    BY <1>a, <1>8, <2>1
  <2>3. Of(Append(f[i], v[i + 1])) = IF v[i + 1] \in T THEN Append(Of(f[i]), v[i + 1]) ELSE Of(f[i])
    BY <1>5, <2>1
  <2>4. h[i + 1] = Of(f[i + 1])
    <3>1. CASE keep[i + 1]
      BY <1>4, <2>1, <2>2, <2>3, <3>1
    <3>2. CASE ~keep[i + 1]
      BY <1>4, <2>1, <2>2, <3>2
    <3>3. QED
      BY <3>1, <3>2
  <2>5. QED
    BY <2>1, <2>4
<1> HIDE DEF U
<1>9. \A i \in 0..n : i \in U
  BY <1>3, <1>7, <1>8, Induct
<1>10. h[n] = Of(f[n])
  BY <1>3, <1>9 DEF U
<1>11. QED
  BY <1>4, <1>10 DEF Of, both

-----------------------------------------------------------------------------
(* Sums of sequences that are one another's images *)

\* t has what SumInt has added up to each place.
AddedUpTo(t, v) ==
    /\ t[0] = 0 /\ SumInt(v) = t[Len(v)]
    /\ \A i \in 1..Len(v) : t[i] = t[i - 1] + v[i]

\* There is such a t.
LEMMA SumSteps ==
  ASSUME NEW v \in Seq(Nat)
  PROVE  \E t \in [0..Len(v) -> Nat] : AddedUpTo(t, v)
<1> DEFINE n == Len(v)
           t == CHOOSE g : g = [i \in 0..n |-> IF i = 0 THEN 0 ELSE g[i - 1] + v[i]]
<1>1. n \in Nat /\ \A i \in 1..n : v[i] \in Nat
  OBVIOUS
<1>2. t = [i \in 0..n |-> IF i = 0 THEN 0 ELSE t[i - 1] + v[i]]
  BY <1>1, PartialInts
<1>3. SumInt(v) = t[n]
  BY DEF SumInt
<1> HIDE DEF t, n
<1>4. t[0] = 0 /\ DOMAIN t = 0..n
  BY <1>1, <1>2
<1>5. ASSUME NEW i \in 1..n PROVE t[i] = t[i - 1] + v[i]
  BY <1>1, <1>2
<1> DEFINE T == {i \in 0..n : t[i] \in Nat}
<1>6. 0 \in T
  BY <1>1, <1>4
<1>7. ASSUME NEW i \in 0..(n - 1), i \in T PROVE i + 1 \in T
  <2>1. i + 1 \in 1..n /\ (i + 1) - 1 = i
    BY <1>1
  <2>2. t[i + 1] = t[i] + v[i + 1] /\ v[i + 1] \in Nat /\ t[i] \in Nat
    BY <1>1, <1>5, <1>7, <2>1
  <2>3. QED
    BY <2>1, <2>2
<1> HIDE DEF T
<1>8. \A i \in 0..n : i \in T
  BY <1>1, <1>6, <1>7, Induct
<1>9. t \in [0..n -> Nat]
  <2>1. \A i \in 0..n : t[i] \in Nat
    BY <1>8 DEF T
  <2>2. t = [i \in 0..n |-> t[i]]
    BY <1>2, <1>4
  <2>3. QED
    BY <2>1, <2>2
<1>10. QED
  BY <1>3, <1>4, <1>5, <1>9 DEF n, AddedUpTo

\* Adding the same to every term, or multiplying every term by the same.
LEMMA SumMaps ==
  ASSUME NEW v \in Seq(Nat), NEW w \in Seq(Nat), Len(w) = Len(v), NEW a \in Nat
  PROVE  /\ (\A i \in 1..Len(v) : w[i] = v[i] + a) => SumInt(w) = SumInt(v) + a * Len(v)
         /\ (\A i \in 1..Len(v) : w[i] = v[i] * a) => SumInt(w) = SumInt(v) * a
<1>1. PICK t \in [0..Len(v) -> Nat] : AddedUpTo(t, v)
  BY SumSteps
<1>2. PICK u \in [0..Len(w) -> Nat] : AddedUpTo(u, w)
  BY SumSteps
<1> DEFINE n == Len(v)
<1>a. n \in Nat /\ Len(w) = n /\ t \in [0..n -> Nat]
  OBVIOUS
<1>b. u \in [0..n -> Nat]
  BY <1>a
<1>3. n \in Nat /\ \A i \in 0..n : t[i] \in Nat /\ u[i] \in Nat
  BY <1>a, <1>b
<1>4. /\ t[0] = 0 /\ u[0] = 0 /\ SumInt(v) = t[n] /\ SumInt(w) = u[n]
      /\ \A i \in 1..n : t[i] = t[i - 1] + v[i] /\ u[i] = u[i - 1] + w[i]
  BY <1>1, <1>2 DEF AddedUpTo
<1>5. \A i \in 1..n : v[i] \in Nat
  OBVIOUS
<1> HIDE DEF n
<1>6. ASSUME \A i \in 1..n : w[i] = v[i] + a PROVE SumInt(w) = SumInt(v) + a * n
  <2> DEFINE T == {i \in 0..n : u[i] = t[i] + a * i}
  <2>1. 0 \in T
    BY <1>3, <1>4
  <2>2. ASSUME NEW i \in 0..(n - 1), i \in T PROVE i + 1 \in T
    <3>1. i + 1 \in 1..n /\ (i + 1) - 1 = i /\ i \in 0..n
      BY <1>3
    <3>2. u[i] = t[i] + a * i /\ t[i + 1] = t[i] + v[i + 1] /\ u[i + 1] = u[i] + (v[i + 1] + a)
      BY <1>4, <1>6, <2>2, <3>1
    <3>3. a * (i + 1) = a * i + a /\ a * i \in Nat
      BY <3>1
    <3>4. t[i] \in Nat /\ u[i] \in Nat /\ v[i + 1] \in Nat
      BY <1>3, <1>5, <3>1
    <3>5. u[i + 1] = t[i + 1] + a * (i + 1)
      <4> DEFINE x == t[i]
                 y == a * i
                 z == v[i + 1]
                 y1 == a * (i + 1)
                 u1 == u[i + 1]
                 t1 == t[i + 1]
      <4>1. /\ x \in Nat /\ y \in Nat /\ z \in Nat /\ u1 = (x + y) + (z + a) /\ t1 = x + z
            /\ y1 = y + a
        BY <3>2, <3>3, <3>4
      <4> HIDE DEF x, y, z, y1, u1, t1
      <4>2. u1 = t1 + y1
        BY <4>1
      <4>3. QED
        BY <4>2 DEF u1, t1, y1
    <3>6. QED
      BY <3>1, <3>5
  <2> HIDE DEF T
  <2>3. \A i \in 0..n : i \in T
    BY <1>3, <2>1, <2>2, Induct
  <2>4. n \in T
    BY <1>3, <2>3
  <2>5. QED
    BY <1>4, <2>4 DEF T
<1>7. ASSUME \A i \in 1..n : w[i] = v[i] * a PROVE SumInt(w) = SumInt(v) * a
  <2> DEFINE T == {i \in 0..n : u[i] = t[i] * a}
  <2>1. 0 \in T
    BY <1>3, <1>4
  <2>2. ASSUME NEW i \in 0..(n - 1), i \in T PROVE i + 1 \in T
    <3>1. i + 1 \in 1..n /\ (i + 1) - 1 = i /\ i \in 0..n
      BY <1>3
    <3>2. u[i] = t[i] * a /\ t[i + 1] = t[i] + v[i + 1] /\ u[i + 1] = u[i] + v[i + 1] * a
      BY <1>4, <1>7, <2>2, <3>1
    <3>3. t[i] \in Nat /\ v[i + 1] \in Nat
      BY <1>3, <1>5, <3>1
    <3>4. (t[i] + v[i + 1]) * a = t[i] * a + v[i + 1] * a
      BY <3>3
    <3>5. QED
      BY <3>1, <3>2, <3>4
  <2> HIDE DEF T
  <2>3. \A i \in 0..n : i \in T
    BY <1>3, <2>1, <2>2, Induct
  <2>4. n \in T
    BY <1>3, <2>3
  <2>5. QED
    BY <1>4, <2>4 DEF T
<1>8. QED
  BY <1>6, <1>7 DEF n

\* A sum is no less than what it is a sum of.
LEMMA TermLess ==
  ASSUME NEW x \in Nat, NEW y \in Nat, NEW z \in Nat, NEW most \in Nat, x <= most, x = y + z
  PROVE  y <= most
OBVIOUS

\* A sum that is a double is not rounded on the way.
LEMMA SumExact ==
  ASSUME NEW v \in Seq(Nat), SumInt(v) <= Exact
  PROVE  SumDouble(v) = SumInt(v)
<1>1. PICK t \in [0..Len(v) -> Nat] : AddedUpTo(t, v)
  BY SumSteps
<1> DEFINE n == Len(v)
           d == CHOOSE g : g = [i \in 0..n |-> IF i = 0 THEN 0 ELSE Double(g[i - 1] + Double(v[i]))]
<1>2. n \in Nat /\ \A i \in 1..n : v[i] \in Nat
  OBVIOUS
<1>3. d = [i \in 0..n |-> IF i = 0 THEN 0 ELSE Double(d[i - 1] + Double(v[i]))]
  BY <1>2, PartialDoubles
<1>4. SumDouble(v) = d[n]
  BY DEF SumDouble
<1>5. /\ t[0] = 0 /\ SumInt(v) = t[n] /\ \A i \in 1..n : t[i] = t[i - 1] + v[i]
      /\ \A i \in 0..n : t[i] \in Nat
  BY <1>1 DEF AddedUpTo
<1> HIDE DEF d, n
<1>6. d[0] = 0
  BY <1>2, <1>3
<1>7. ASSUME NEW i \in 1..n PROVE d[i] = Double(d[i - 1] + Double(v[i]))
  BY <1>2, <1>3
\* From the end: what is added up before it is no more.
<1> DEFINE D == {i \in 0..n : t[n - i] <= t[n]}
<1>8. 0 \in D
  BY <1>2, <1>5
<1>9. ASSUME NEW i \in 0..(n - 1), i \in D PROVE i + 1 \in D
  <2>1. n - i \in 1..n /\ n - i - 1 = n - (i + 1) /\ n - (i + 1) \in 0..n /\ i + 1 \in 0..n
    BY <1>2
  <2>2. t[n - i] <= t[n] /\ t[n - i] = t[n - (i + 1)] + v[n - i]
    BY <1>5, <1>9, <2>1
  <2>a. n - i \in 0..n /\ n \in 0..n
    BY <1>2, <2>1
  <2>b. t[n - i] \in Nat /\ t[n - (i + 1)] \in Nat /\ t[n] \in Nat
    BY <1>5, <2>1, <2>a
  <2>c. v[n - i] \in Nat
    BY <1>2, <2>1
  <2>3. t[n - i] \in Nat /\ t[n - (i + 1)] \in Nat /\ v[n - i] \in Nat /\ t[n] \in Nat
    BY <2>b, <2>c
  <2>4. t[n - (i + 1)] <= t[n]
    BY <2>2, <2>3, TermLess
  <2>5. QED
    BY <2>1, <2>4
<1> HIDE DEF D
<1>10. \A i \in 0..n : i \in D
  BY <1>2, <1>8, <1>9, Induct
<1>11. ASSUME NEW i \in 0..n PROVE t[i] <= Exact
  <2>1. n - i \in 0..n /\ n - (n - i) = i
    BY <1>2
  <2>2. t[i] <= t[n]
    BY <1>10, <2>1 DEF D
  <2>3. QED
    BY <1>2, <1>5, <2>2, ListAssumption
<1> DEFINE T == {i \in 0..n : d[i] = t[i]}
<1>12. 0 \in T
  BY <1>2, <1>5, <1>6
<1>13. ASSUME NEW i \in 0..(n - 1), i \in T PROVE i + 1 \in T
  <2>1. i + 1 \in 1..n /\ (i + 1) - 1 = i /\ i + 1 \in 0..n /\ i \in 0..n
    BY <1>2
  <2>2. /\ d[i] = t[i] /\ d[i + 1] = Double(d[i] + Double(v[i + 1]))
        /\ t[i + 1] = t[i] + v[i + 1]
    BY <1>5, <1>7, <1>13, <2>1
  <2>3. t[i] \in Nat /\ v[i + 1] \in Nat /\ t[i + 1] \in Nat /\ t[i + 1] <= Exact
    BY <1>2, <1>5, <1>11, <2>1
  <2>4. v[i + 1] <= Exact
    BY <2>2, <2>3, ListAssumption
  <2>5. Double(v[i + 1]) = v[i + 1] /\ Double(t[i + 1]) = t[i + 1]
    BY <2>3, <2>4, DoubleFacts
  <2>6. QED
    BY <2>1, <2>2, <2>5
<1> HIDE DEF T
<1>14. \A i \in 0..n : i \in T
  BY <1>2, <1>12, <1>13, Induct
<1>15. n \in T
  BY <1>2, <1>14
<1>16. QED
  BY <1>4, <1>5, <1>15 DEF T

-----------------------------------------------------------------------------
(* The numbers of a list *)

\* What a sequence is with one more member.
LEMMA Appended ==
  ASSUME NEW R, NEW u \in Seq(R), NEW x \in R
  PROVE  /\ Append(u, x) \in Seq(R) /\ Len(u) \in Nat /\ Len(Append(u, x)) = Len(u) + 1
         /\ Append(u, x)[Len(u) + 1] = x
         /\ \A j \in 1..Len(u) : Append(u, x)[j] = u[j]
OBVIOUS

\* Where the numbers of a list are.
NumberPlaces(s) == [i \in 1..Len(s) |-> Number(s[i])]

\* The numbers of a list, of which there are as many as gathered cells.
LEMMA NumbersFacts ==
  ASSUME NEW s \in Seq(ListCells)
  PROVE  /\ Numbers(s) = Kept(Values(s), NumberPlaces(s))
         /\ NumberPlaces(s) \in [1..Len(Values(s)) -> BOOLEAN]
         /\ Numbers(s) \in Seq(Nat)
         /\ (\A i \in DOMAIN s : Number(s[i])) => Numbers(s) = Values(s)
         /\ NumbersOf(s) = Numbers(s)
<1>1. /\ Len(s) \in Nat /\ DOMAIN s = 1..Len(s) /\ \A i \in 1..Len(s) : s[i] \in ListCells
      /\ Values(s) \in Seq(Nat) /\ Len(Values(s)) = Len(s)
  BY LenProperties, ElementOfSeq, NumberFacts
<1>2. NumberPlaces(s) \in [1..Len(Values(s)) -> BOOLEAN]
  BY <1>1 DEF NumberPlaces, Number
<1>3. Numbers(s) = Kept(Values(s), NumberPlaces(s))
  BY <1>1 DEF Numbers, NumberPlaces
<1>4. Numbers(s) \in Seq(Nat)
  BY <1>1, <1>2, <1>3, KeptMembers
<1>5. ASSUME \A i \in DOMAIN s : Number(s[i]) PROVE Numbers(s) = Values(s)
  <2>1. \A i \in 1..Len(Values(s)) : NumberPlaces(s)[i]
    BY <1>1, <1>5 DEF NumberPlaces
  <2>2. QED
    BY <1>1, <1>2, <1>3, <2>1, KeptAll
<1>6. NumbersOf(s) = Numbers(s)
  <2> DEFINE n == Len(s)
             v == Values(s)
             keep == NumberPlaces(s)
             got == CHOOSE g : g = [i \in 0..n |-> Gathered(g, s, i)]
  <2>1. PICK f \in [0..n -> Seq(Nat)] : KeptUpTo(f, v, keep)
    BY <1>1, <1>2, KeptSteps
  <2>2. Gather(s) = got[n]
    BY DEF Gather, Gathered
  <2>3. got = [i \in 0..n |-> Gathered(got, s, i)]
    BY <1>1, PartialGathers
  <2> HIDE DEF got
  <2>a. \A i \in 0..n : got[i] = Gathered(got, s, i)
    BY <2>3
  <2>4. got[0] = <<>>
    <3>1. got[0] = Gathered(got, s, 0)
      BY <1>1, <2>a
    <3>2. QED
      BY <3>1 DEF Gathered
  <2>5. ASSUME NEW i \in 1..n
        PROVE  got[i] = IF Numeric(s[i]) THEN Append(got[i - 1], <<i, s[i]>>) ELSE got[i - 1]
    <3>1. i \in 0..n /\ i # 0
      BY <1>1
    <3>2. got[i] = Gathered(got, s, i)
      BY <2>a, <3>1
    <3>3. QED
      BY <3>1, <3>2 DEF Gathered
  <2>6. \A i \in 1..n : v[i] = s[i].val /\ v[i] \in Nat /\ keep[i] = Numeric(s[i])
    BY <1>1 DEF Values, NumberPlaces, Number, Numeric, ListCells, Tags
  <2>7. /\ f[0] = <<>> /\ Numbers(s) = f[n]
        /\ \A i \in 1..n :
              /\ keep[i] => f[i] = Append(f[i - 1], v[i])
              /\ ~keep[i] => f[i] = f[i - 1]
    BY <1>1, <1>3, <2>1 DEF KeptUpTo
  <2> HIDE DEF n, v, keep
  <2> DEFINE R == Nat \X ListCells
  <2> DEFINE Same(i) == /\ got[i] \in Seq(R) /\ Len(got[i]) = Len(f[i])
                        /\ \A k \in 1..Len(f[i]) : got[i][k][2].val = f[i][k]
             T == {i \in 0..n : Same(i)}
  <2>8. 0 \in T
    BY <1>1, <2>4, <2>7 DEF n
  <2>9. ASSUME NEW i \in 0..(n - 1), i \in T PROVE i + 1 \in T
    <3>a. i + 1 \in 1..n /\ (i + 1) - 1 = i /\ i \in 0..n
      BY <1>1 DEF n
    <3>b. f[i] \in Seq(Nat)
      BY <2>1, <3>a
    <3>c. Same(i)
      BY <2>9
    <3>1. i + 1 \in 1..n /\ (i + 1) - 1 = i /\ Same(i) /\ f[i] \in Seq(Nat)
      BY <3>a, <3>b, <3>c
    <3>2. CASE keep[i + 1]
      <4>1. /\ f[i + 1] = Append(f[i], v[i + 1])
            /\ got[i + 1] = Append(got[i], <<i + 1, s[i + 1]>>)
        BY <2>5, <2>6, <2>7, <3>1, <3>2
      <4>2. <<i + 1, s[i + 1]>> \in Nat \X ListCells /\ v[i + 1] = s[i + 1].val /\ v[i + 1] \in Nat
        BY <1>1, <2>6, <3>1 DEF n
      <4> DEFINE x == <<i + 1, s[i + 1]>>
      <4>3. x \in R /\ x[2].val = v[i + 1] /\ got[i + 1] = Append(got[i], x)
        BY <4>1, <4>2
      <4> HIDE DEF x, R
      <4>a. /\ Append(got[i], x) \in Seq(R) /\ Len(Append(got[i], x)) = Len(got[i]) + 1
            /\ Append(got[i], x)[Len(got[i]) + 1] = x
            /\ \A j \in 1..Len(got[i]) : Append(got[i], x)[j] = got[i][j]
        <5> DEFINE u == got[i]
        <5>1. u \in Seq(R) /\ x \in R
          BY <3>1, <4>3
        <5> HIDE DEF u
        <5>2. QED
          BY <5>1, Appended DEF u
      <4>b. /\ Len(f[i]) \in Nat /\ Len(f[i + 1]) = Len(f[i]) + 1 /\ f[i + 1][Len(f[i]) + 1] = v[i + 1]
            /\ \A j \in 1..Len(f[i]) : f[i + 1][j] = f[i][j]
        <5> DEFINE u == f[i]
                   y == v[i + 1]
        <5>1. u \in Seq(Nat) /\ y \in Nat /\ f[i + 1] = Append(u, y)
          BY <3>1, <4>1, <4>2
        <5> HIDE DEF u, y
        <5>2. QED
          BY <5>1, Appended DEF u, y
      <4>4. /\ got[i + 1] \in Seq(R) /\ Len(got[i + 1]) = Len(f[i + 1])
            /\ Len(f[i + 1]) = Len(f[i]) + 1 /\ Len(f[i]) \in Nat
        BY <3>1, <4>3, <4>a, <4>b
      <4>5. ASSUME NEW k \in 1..Len(f[i + 1]) PROVE got[i + 1][k][2].val = f[i + 1][k]
        <5>1. CASE k = Len(f[i]) + 1
          <6>1. got[i + 1][k] = x /\ f[i + 1][k] = v[i + 1]
            BY <3>1, <4>3, <4>a, <4>b, <5>1
          <6>2. QED
            BY <4>3, <6>1
        <5>2. CASE k # Len(f[i]) + 1
          <6>1. k \in 1..Len(f[i])
            BY <4>4, <5>2
          <6>2. got[i + 1][k] = got[i][k] /\ f[i + 1][k] = f[i][k]
            BY <3>1, <4>3, <4>a, <4>b, <6>1
          <6>3. QED
            BY <3>1, <6>1, <6>2
        <5>3. QED
          BY <5>1, <5>2
      <4>6. QED
        BY <3>1, <4>4, <4>5
    <3>3. CASE ~keep[i + 1]
      <4>1. f[i + 1] = f[i]
        BY <2>7, <3>1, <3>3
      <4>2. got[i + 1] = got[i]
        BY <2>5, <2>6, <3>1, <3>3
      <4>3. Same(i + 1)
        BY <3>1, <4>1, <4>2
      <4>4. QED
        BY <3>1, <4>3
    <3>4. QED
      BY <3>2, <3>3
  <2> HIDE DEF T
  <2>10. \A i \in 0..n : i \in T
    BY <1>1, <2>8, <2>9, Induct DEF n
  <2>11. Same(n)
    BY <1>1, <2>10 DEF T, n
  <2>12. NumbersOf(s) = [k \in 1..Len(got[n]) |-> got[n][k][2].val]
    BY <2>2, <2>11 DEF NumbersOf, n
  <2>13. f[n] \in Seq(Nat) /\ Len(f[n]) = Len(got[n])
    BY <1>1, <2>1, <2>11 DEF n
  <2>14. f[n] = [k \in 1..Len(f[n]) |-> f[n][k]]
    <3> DEFINE u == f[n]
    <3>1. u \in Seq(Nat)
      BY <2>13
    <3> HIDE DEF u
    <3>2. u = [k \in 1..Len(u) |-> u[k]]
      BY <3>1
    <3>3. QED
      BY <3>2 DEF u
  <2>15. NumbersOf(s) = f[n]
    BY <2>11, <2>12, <2>13, <2>14
  <2>16. QED
    BY <2>7, <2>15
<1>7. QED
  BY <1>2, <1>3, <1>4, <1>5, <1>6

\* The sum of a new list is that of its numbers, if that is a double.
LEMMA ColdSums ==
  ASSUME NEW s \in Seq(ListCells), SumInt(Numbers(s)) <= Exact
  PROVE  ColdSum(s) = SumInt(Numbers(s))
<1>1. Numbers(s) \in Seq(Nat) /\ NumbersOf(s) = Numbers(s)
  BY NumbersFacts
<1>2. CASE ColdPlan(s) = "PackedInt"
  <2>1. \A i \in DOMAIN s : s[i].tag = "int"
    BY <1>2, PlanFacts DEF ColdPlan
  <2>2. Numbers(s) = Values(s)
    BY <2>1, NumbersFacts DEF Number
  <2>3. QED
    BY <1>2, <2>2, ColdFacts
<1>3. CASE ColdPlan(s) # "PackedInt"
  BY <1>1, <1>3, ColdFacts, SumExact
<1>4. QED
  BY <1>2, <1>3

-----------------------------------------------------------------------------
(* Stages, of a number and of a list *)

\* A number on its way through the stages.
Points == [keep : BOOLEAN, val : Nat]

\* What a map makes of the numbers, and those a filter lets pass.
MapOf(stage) == [x \in Nat |-> IF Kind(stage) = "map_add" THEN x + Scalar(stage) ELSE x * Scalar(stage)]
PassOf(stage) ==
    {x \in Nat : /\ Kind(stage) = "filter_gt" => x > Scalar(stage)
                 /\ Kind(stage) = "filter_lt" => x < Scalar(stage)
                 /\ Kind(stage) = "filter_nonzero" => x # 0}

\* A stage before the terminal of a chain that is not refused.
GoodStage(stage) ==
    /\ Kind(stage) \in Maps \cup Filters \cup {"zip_add"}
    /\ Kind(stage) \in Maps \cup {"filter_gt", "filter_lt"} => Scalar(stage) \in Nat
    /\ Kind(stage) = "zip_add" => Zipped(stage) \in Seq(Nat)

\* The stages of a chain, and what follows them.
LEMMA ChainFacts ==
  ASSUME NEW chain \in Chains, GoodStages(chain)
  PROVE  LET ts == Transforms(chain)
         IN  /\ Len(ts) \in Nat /\ DOMAIN ts = 1..Len(ts)
             /\ \A i \in 1..Len(ts) : i \in DOMAIN chain /\ ts[i] = chain[i] /\ GoodStage(ts[i])
             /\ Terminal(chain) \in Terminals
             /\ DOMAIN Kinds(ts) = 1..Len(ts) /\ \A i \in 1..Len(ts) : Kinds(ts)[i] = Kind(ts[i])
<1> DEFINE ts == Transforms(chain)
           n == Len(chain)
           Cells0 == [tag : Tags, val : Nat]
           Names0 == [name : StageNames, args : Seq(Cells0 \cup ListArgs)]
<1>1. /\ chain \in Seq(Names0) /\ n \in Nat /\ n # 0 /\ DOMAIN chain = 1..n
      /\ \A i \in 1..n : chain[i] \in Names0
  <2>1. chain \in Seq(Names0) /\ chain # <<>>
    BY ChainsAssumption
  <2> HIDE DEF Names0
  <2>2. QED
    BY <2>1
<1>2. \A i \in 1..n : GoodArgs(chain[i]) /\ (i < n => Kind(chain[i]) \notin Terminals)
  BY <1>1 DEF GoodStages
<1>3. ASSUME NEW i \in 1..n, Kind(chain[i]) \notin Terminals PROVE GoodStage(chain[i])
  <2> DEFINE stage == chain[i]
  <2>1. stage \in Names0 /\ GoodArgs(stage) /\ Kind(stage) \notin Terminals
    BY <1>1, <1>2, <1>3
  <2>2. stage.name \in StageNames /\ stage.args \in Seq(Cells0 \cup ListArgs)
    BY <2>1
  <2> HIDE DEF stage, Cells0
  <2>3. Kind(stage) \in Maps \cup Filters \cup {"zip_add"}
    BY <2>1, <2>2 DEF Kind, StageNames, Terminals, Filters, Changing, Maps
  <2>4. CASE Kind(stage) \in Maps \cup {"filter_gt", "filter_lt"}
    <3>1. stage.args # <<>> /\ Number(stage.args[1])
      BY <2>1, <2>4 DEF GoodArgs, Maps
    <3>2. stage.args[1] \in Cells0 \cup ListArgs
      BY <2>2, <3>1
    <3>3. stage.args[1] \in Cells0
      BY <3>1, <3>2 DEF ListArgs, Number
    <3>4. Scalar(stage) \in Nat /\ Kind(stage) # "zip_add"
      BY <2>4, <3>3 DEF Scalar, Cells0, Maps
    <3>5. QED
      BY <2>3, <3>4 DEF GoodStage, stage
  <2>5. CASE Kind(stage) = "zip_add"
    <3>1. Len(stage.args) = 1 /\ stage.args[1].tag = "list"
      BY <2>1, <2>5 DEF GoodArgs, Maps
    <3>2. stage.args[1] \in Cells0 \cup ListArgs
      BY <2>2, <3>1
    <3>3. stage.args[1].items \in Seq(ListCells)
      BY <3>1, <3>2 DEF ListArgs, Cells0, Tags, ListCells
    <3>4. Zipped(stage) \in Seq(Nat)
      BY <3>3, NumberFacts DEF Zipped
    <3>5. QED
      BY <2>3, <2>5, <3>4 DEF GoodStage, Maps, stage
  <2>6. CASE Kind(stage) = "filter_nonzero"
    BY <2>3, <2>6 DEF GoodStage, Maps, stage
  <2>7. QED
    BY <2>3, <2>4, <2>5, <2>6 DEF Filters, stage
<1>4. Terminal(chain) \in Terminals
  BY DEF Terminal, Terminals
<1>5. /\ Len(ts) \in Nat /\ DOMAIN ts = 1..Len(ts)
      /\ \A i \in 1..Len(ts) : i \in 1..n /\ ts[i] = chain[i] /\ Kind(chain[i]) \notin Terminals
  <2>1. CASE Kind(chain[n]) \in Terminals
    <3>1. ts = SubSeq(chain, 1, n - 1)
      BY <2>1 DEF Transforms
    <3> HIDE DEF ts, Names0
    <3>2. Len(ts) = n - 1 /\ DOMAIN ts = 1..(n - 1) /\ \A i \in 1..(n - 1) : ts[i] = chain[i]
      BY <1>1, <3>1
    <3>3. QED
      BY <1>1, <1>2, <3>2
  <2>2. CASE Kind(chain[n]) \notin Terminals
    <3>1. ts = chain
      BY <2>2 DEF Transforms
    <3> HIDE DEF ts
    <3>2. QED
      BY <1>1, <1>2, <2>2, <3>1
  <2>3. QED
    BY <2>1, <2>2
<1> HIDE DEF ts, Names0
<1>6. DOMAIN Kinds(ts) = 1..Len(ts) /\ \A i \in 1..Len(ts) : Kinds(ts)[i] = Kind(ts[i])
  BY <1>5 DEF Kinds, Signature
<1>7. QED
  BY <1>1, <1>3, <1>4, <1>5, <1>6 DEF ts

\* What a stage makes of a number.
LEMMA AppliedFacts ==
  ASSUME NEW p \in Points, NEW stage, GoodStage(stage), NEW index \in Nat \ {0}
  PROVE  /\ Applied(p, stage, index) \in Points
         /\ Kind(stage) \in Maps => /\ Applied(p, stage, index).keep = p.keep
                                    /\ Applied(p, stage, index).val = MapOf(stage)[p.val]
         /\ Kind(stage) \in Filters => /\ Applied(p, stage, index).keep = (p.keep /\ p.val \in PassOf(stage))
                                       /\ Applied(p, stage, index).val = p.val
         /\ Kind(stage) = "zip_add" /\ index \in 1..Len(Zipped(stage)) =>
               /\ Applied(p, stage, index).keep = p.keep
               /\ Applied(p, stage, index).val = p.val + Zipped(stage)[index]
<1> DEFINE a == Applied(p, stage, index)
           k == p.keep
           v == p.val
<1>1. p = [keep |-> k, val |-> v] /\ k \in BOOLEAN /\ v \in Nat
  BY DEF Points
<1> HIDE DEF k, v
<1>2. CASE Kind(stage) \in Maps
  <2> DEFINE y == IF Kind(stage) = "map_add" THEN v + Scalar(stage) ELSE v * Scalar(stage)
  <2>1. a = [keep |-> k, val |-> y]
    BY <1>1, <1>2 DEF Applied, Maps
  <2>2. y = MapOf(stage)[v]
    BY <1>1 DEF MapOf
  <2>3. Scalar(stage) \in Nat
    BY <1>2 DEF GoodStage
  <2>4. y \in Nat
    BY <1>1, <2>3
  <2> HIDE DEF a, y
  <2>5. QED
    BY <1>1, <1>2, <2>1, <2>2, <2>4 DEF Points, Maps, Filters, a, k, v
<1>3. CASE Kind(stage) \in Filters
  <2> DEFINE t == v \in PassOf(stage)
  <2>a. Kind(stage) # "filter_nonzero" => Scalar(stage) \in Nat
    BY <1>3 DEF GoodStage, Filters
  <2>1. a = [keep |-> k /\ t, val |-> v]
    <3>1. CASE Kind(stage) = "filter_gt"
      BY <1>1, <2>a, <3>1 DEF Applied, PassOf
    <3>2. CASE Kind(stage) = "filter_lt"
      BY <1>1, <2>a, <3>2 DEF Applied, PassOf
    <3>3. CASE Kind(stage) = "filter_nonzero"
      BY <1>1, <2>a, <3>3 DEF Applied, PassOf
    <3>4. QED
      BY <1>3, <3>1, <3>2, <3>3 DEF Filters
  <2> HIDE DEF a
  <2>2. a.keep = (k /\ t) /\ a.val = v /\ a \in Points
    BY <1>1, <2>1 DEF Points
  <2>3. QED
    BY <1>3, <2>2 DEF Maps, Filters, a, k, v
<1>4. CASE Kind(stage) = "zip_add"
  <2>1. Zipped(stage) \in Seq(Nat)
    BY <1>4 DEF GoodStage
  <2>2. CASE index > Len(Zipped(stage))
    <3>1. a = [keep |-> FALSE, val |-> v]
      BY <1>1, <1>4, <2>2 DEF Applied
    <3> HIDE DEF a
    <3>2. a \in Points /\ index \notin 1..Len(Zipped(stage))
      BY <1>1, <2>1, <2>2, <3>1 DEF Points
    <3>3. QED
      BY <1>4, <3>2 DEF Maps, Filters, a
  <2>3. CASE ~(index > Len(Zipped(stage)))
    <3> DEFINE z == Zipped(stage)[index]
    <3>1. a = [keep |-> k, val |-> v + z]
      BY <1>1, <1>4, <2>3 DEF Applied
    <3>2. z \in Nat
      BY <1>4, <2>1, <2>3
    <3> HIDE DEF a
    <3>3. QED
      BY <1>1, <1>4, <3>1, <3>2 DEF Points, Maps, Filters, a, k, v
  <2>4. QED
    BY <2>2, <2>3
<1>5. QED
  BY <1>2, <1>3, <1>4 DEF GoodStage

AllNumbers(s) == \A i \in DOMAIN s : Number(s[i])

\* What a map makes of a list.
LEMMA MapStage ==
  ASSUME NEW s \in Seq(ListCells), NEW stage, GoodStage(stage), Kind(stage) \in Maps
  PROVE  /\ StageOn(s, stage) \in Seq(ListCells)
         /\ AllNumbers(s) => AllNumbers(StageOn(s, stage))
         /\ MapsTo(MapOf(stage), Numbers(s), Numbers(StageOn(s, stage)))
<1> DEFINE out == StageOn(s, stage)
           New(i) == [tag |-> "double", val |-> MapOf(stage)[s[i].val]]
<1>1. Len(s) \in Nat /\ DOMAIN s = 1..Len(s) /\ \A i \in 1..Len(s) : s[i] \in ListCells
  BY LenProperties, ElementOfSeq
<1>2. ASSUME NEW x \in Nat
      PROVE  /\ MapOf(stage)[x] \in Nat
             /\ Applied([keep |-> TRUE, val |-> x], stage, 1).val = MapOf(stage)[x]
  <2> DEFINE p == [keep |-> TRUE, val |-> x]
  <2>1. p \in Points /\ p.val = x
    BY DEF Points
  <2> HIDE DEF p
  <2>2. Applied(p, stage, 1).val = MapOf(stage)[x] /\ Applied(p, stage, 1) \in Points
    BY <2>1, AppliedFacts
  <2>3. Applied(p, stage, 1).val \in Nat
    BY <2>2 DEF Points
  <2>4. QED
    BY <2>2, <2>3 DEF p
<1>3. out = [i \in 1..Len(s) |-> IF Number(s[i]) THEN New(i) ELSE s[i]]
  <2>1. out = [i \in 1..Len(s) |->
                 IF Number(s[i])
                 THEN [tag |-> "double", val |-> Applied([keep |-> TRUE, val |-> s[i].val], stage, 1).val]
                 ELSE s[i]]
    <3>1. Kind(stage) # "zip_add" /\ Kind(stage) \in Maps /\ Kind(stage) \notin Filters
      BY DEF Maps, Filters
    <3>2. out = MappedList(s, stage)
      BY <3>1 DEF StageOn
    <3> HIDE DEF out
    <3>3. QED
      BY <1>1, <3>2 DEF MappedList
  <2>2. \A i \in 1..Len(s) : s[i].val \in Nat
    BY <1>1 DEF ListCells
  <2>3. QED
    BY <1>2, <2>1, <2>2
<1>4. ASSUME NEW i \in 1..Len(s) PROVE New(i) \in ListCells /\ Number(New(i))
  <2>1. s[i].val \in Nat
    BY <1>1 DEF ListCells
  <2>2. QED
    BY <1>2, <2>1 DEF ListCells, Number, Tags
<1>5. out \in Seq(ListCells) /\ Len(out) = Len(s)
  <2>1. out \in [1..Len(s) -> ListCells]
    BY <1>1, <1>3, <1>4
  <2> HIDE DEF out
  <2>2. QED
    BY <1>1, <2>1, SeqDef
<1>6. \A i \in 1..Len(s) : /\ Number(out[i]) = Number(s[i])
                           /\ Number(s[i]) => out[i].val = MapOf(stage)[s[i].val]
  <2> TAKE i \in 1..Len(s)
  <2>1. CASE Number(s[i])
    <3>1. out[i] = New(i)
      BY <1>3, <2>1
    <3>2. Number(out[i])
      BY <1>4, <3>1
    <3>3. QED
      BY <2>1, <3>1, <3>2
  <2>2. CASE ~Number(s[i])
    <3>1. out[i] = s[i]
      BY <1>3, <2>2
    <3>2. QED
      BY <2>2, <3>1
  <2>3. QED
    BY <2>1, <2>2
<1> HIDE DEF out, New
<1> DEFINE v == Values(s)
           w == Values(out)
           keep == NumberPlaces(s)
<1>7. /\ v \in Seq(Nat) /\ Len(v) = Len(s) /\ w \in Seq(Nat) /\ Len(w) = Len(v)
      /\ keep \in [1..Len(v) -> BOOLEAN]
      /\ Numbers(s) = Kept(v, keep) /\ Numbers(out) = Kept(w, NumberPlaces(out))
  BY <1>5, NumberFacts, NumbersFacts
<1>8. NumberPlaces(out) = keep
  BY <1>5, <1>6 DEF NumberPlaces
<1>9. MapsWhere(MapOf(stage), v, w, keep)
  <2> SUFFICES ASSUME NEW i \in 1..Len(v) PROVE keep[i] => w[i] = MapOf(stage)[v[i]]
    BY <1>7 DEF MapsWhere
  <2>1. i \in 1..Len(s) /\ i \in DOMAIN s /\ i \in DOMAIN out
    BY <1>1, <1>5, <1>7
  <2>2. w[i] = out[i].val /\ v[i] = s[i].val /\ keep[i] = Number(s[i])
    BY <2>1 DEF Values, NumberPlaces
  <2>3. QED
    BY <1>6, <2>1, <2>2
<1> HIDE DEF v, w, keep
<1>10. MapsTo(MapOf(stage), Kept(v, keep), Kept(w, keep))
  BY <1>7, <1>9, KeptMap
<1>11. AllNumbers(s) => AllNumbers(out)
  BY <1>1, <1>5, <1>6 DEF AllNumbers
<1>12. QED
  BY <1>5, <1>7, <1>8, <1>10, <1>11 DEF out

\* What a filter makes of a list.
LEMMA FilterStage ==
  ASSUME NEW s \in Seq(ListCells), NEW stage, GoodStage(stage), Kind(stage) \in Filters
  PROVE  /\ StageOn(s, stage) \in Seq(ListCells)
         /\ AllNumbers(StageOn(s, stage))
         /\ Numbers(StageOn(s, stage)) = Kept(Numbers(s), Passing(Numbers(s), PassOf(stage)))
<1> DEFINE out == StageOn(s, stage)
           P == PassOf(stage)
           v == Values(s)
           keep == NumberPlaces(s)
           both == KeptAndPassing(v, keep, P)
<1>1. Len(s) \in Nat /\ DOMAIN s = 1..Len(s) /\ \A i \in 1..Len(s) : s[i] \in ListCells
  BY LenProperties, ElementOfSeq
<1>2. /\ v \in Seq(Nat) /\ Len(v) = Len(s) /\ keep \in [1..Len(v) -> BOOLEAN]
      /\ Numbers(s) = Kept(v, keep)
  BY NumberFacts, NumbersFacts
<1>3. ASSUME NEW x \in Nat PROVE Applied([keep |-> TRUE, val |-> x], stage, 1).keep = (x \in P)
  <2> DEFINE p == [keep |-> TRUE, val |-> x]
  <2>1. p \in Points /\ p.val = x /\ p.keep = TRUE
    BY DEF Points
  <2> HIDE DEF p
  <2>2. Applied(p, stage, 1).keep = (p.keep /\ p.val \in P)
    BY <2>1, AppliedFacts
  <2>3. QED
    BY <2>1, <2>2 DEF p
<1>4. \A i \in 1..Len(s) : v[i] = s[i].val /\ v[i] \in Nat /\ keep[i] = Number(s[i])
  BY <1>1, <1>2 DEF Values, NumberPlaces
<1> HIDE DEF P
<1>5. both = [i \in 1..Len(s) |-> keep[i] /\ v[i] \in P]
  BY <1>2 DEF KeptAndPassing
<1> HIDE DEF v, keep, both
<1>6. out = Kept(s, both)
  <2>1. out = Kept(s, [i \in 1..Len(s) |->
               Number(s[i]) /\ Applied([keep |-> TRUE, val |-> s[i].val], stage, 1).keep])
    <3>1. Kind(stage) # "zip_add" /\ Kind(stage) \notin Maps /\ Kind(stage) \in Filters
      BY DEF Maps, Filters
    <3>2. out = FilteredList(s, stage)
      BY <3>1 DEF StageOn
    <3> HIDE DEF out
    <3>3. QED
      BY <1>1, <3>2 DEF FilteredList
  <2>2. [i \in 1..Len(s) |->
               Number(s[i]) /\ Applied([keep |-> TRUE, val |-> s[i].val], stage, 1).keep] = both
    BY <1>3, <1>4, <1>5
  <2>3. QED
    BY <2>1, <2>2
<1>7. both \in [1..Len(s) -> BOOLEAN] /\ \A i \in 1..Len(s) : both[i] => Number(s[i])
  BY <1>2, <1>4, <1>5
<1> HIDE DEF out
<1>8. /\ out \in Seq(ListCells)
      /\ \A j \in 1..Len(out) : \E i \in 1..Len(s) : both[i] /\ out[j] = s[i]
  BY <1>6, <1>7, KeptMembers
<1>9. \A j \in DOMAIN out : Number(out[j])
  BY <1>7, <1>8
<1>10. Numbers(out) = Values(out) /\ Values(out) \in Seq(Nat) /\ Len(Values(out)) = Len(out)
  BY <1>8, <1>9, NumbersFacts, NumberFacts
<1> DEFINE g == [c \in ListCells |-> c.val]
<1>11. MapsWhere(g, s, v, both)
  BY <1>1, <1>2, <1>4 DEF MapsWhere
<1> HIDE DEF g
<1>12. Len(Kept(v, both)) = Len(out) /\ \A j \in 1..Len(out) : Kept(v, both)[j] = g[out[j]]
  <2> DEFINE R == ListCells
  <2>1. s \in Seq(R) /\ v \in Seq(Nat) /\ Len(v) = Len(s) /\ both \in [1..Len(s) -> BOOLEAN]
    BY <1>2, <1>7
  <2> HIDE DEF R
  <2>2. MapsTo(g, Kept(s, both), Kept(v, both))
    BY <1>11, <2>1, KeptMap
  <2>3. QED
    BY <1>6, <2>2 DEF MapsTo
<1>13. Kept(v, both) \in Seq(Nat)
  BY <1>2, <1>7, KeptMembers
<1>14. \A j \in 1..Len(out) : out[j] \in ListCells /\ Values(out)[j] = g[out[j]]
  BY <1>8 DEF Values, g
<1>15. Kept(v, both) = Values(out)
  BY <1>8, <1>10, <1>12, <1>13, <1>14, SeqEqual
<1>16. Kept(v, both) = Kept(Kept(v, keep), Passing(Kept(v, keep), P))
  BY <1>2, KeptTwice DEF both
<1>17. QED
  BY <1>2, <1>8, <1>9, <1>10, <1>15, <1>16 DEF AllNumbers, out, P

\* What a zip makes of a list of numbers.
LEMMA ZipStage ==
  ASSUME NEW s \in Seq(ListCells), NEW stage, GoodStage(stage), Kind(stage) = "zip_add"
  PROVE  /\ StageOn(s, stage) \in Seq(ListCells)
         /\ AllNumbers(StageOn(s, stage))
         /\ ZipLength(s, stage) \in Nat
         /\ AllNumbers(s) =>
              /\ Len(Numbers(s)) = Len(s)
              /\ Len(Numbers(StageOn(s, stage))) = ZipLength(s, stage)
              /\ \A j \in 1..ZipLength(s, stage) :
                    Numbers(StageOn(s, stage))[j] = Numbers(s)[j] + Zipped(stage)[j]
<1> DEFINE out == StageOn(s, stage)
           z == Zipped(stage)
           m == ZipLength(s, stage)
<1>1. Len(s) \in Nat /\ DOMAIN s = 1..Len(s) /\ \A i \in 1..Len(s) : s[i] \in ListCells
  BY LenProperties, ElementOfSeq
<1>2. z \in Seq(Nat)
  BY DEF GoodStage
<1>3. out = [i \in 1..m |-> [tag |-> "double", val |-> s[i].val + z[i]]]
  <2>1. Kind(stage) = "zip_add" /\ Kind(stage) \notin Maps /\ Kind(stage) \notin Filters
    BY DEF Maps, Filters
  <2>2. out = ZippedList(s, stage)
    BY <2>1 DEF StageOn
  <2>3. QED
    BY <2>2 DEF ZippedList
<1> HIDE DEF z, out
<1>a. m \in Nat /\ m <= Len(s) /\ m <= Len(z)
  <2>1. Len(s) \in Nat /\ Len(z) \in Nat
    BY <1>1, <1>2
  <2>2. m = IF Len(s) < Len(z) THEN Len(s) ELSE Len(z)
    BY DEF ZipLength, z
  <2>3. QED
    BY <2>1, <2>2
<1> HIDE DEF m
<1>4. \A i \in 1..m : i \in 1..Len(s) /\ i \in 1..Len(z) /\ s[i].val \in Nat /\ z[i] \in Nat
  <2> TAKE i \in 1..m
  <2>0. Len(z) \in Nat /\ Len(s) \in Nat
    BY <1>1, <1>2
  <2>1. i \in 1..Len(s) /\ i \in 1..Len(z)
    BY <1>a, <2>0
  <2>2. QED
    <3>1. s[i] \in ListCells /\ z[i] \in Nat
      BY <1>1, <1>2, <2>1
    <3>2. QED
      BY <2>1, <3>1 DEF ListCells
<1>5. ASSUME NEW i \in 1..m PROVE out[i] \in ListCells /\ Number(out[i]) /\ out[i].val = s[i].val + z[i]
  <2>1. out[i] = [tag |-> "double", val |-> s[i].val + z[i]]
    BY <1>3
  <2>2. s[i].val + z[i] \in Nat
    BY <1>4
  <2>3. QED
    BY <2>1, <2>2 DEF ListCells, Tags, Number
<1>6. out \in Seq(ListCells) /\ Len(out) = m /\ DOMAIN out = 1..m
  <2>1. out \in [1..m -> ListCells] /\ DOMAIN out = 1..m
    BY <1>3, <1>5
  <2>2. QED
    BY <1>a, <2>1
<1>7. AllNumbers(out)
  BY <1>5, <1>6 DEF AllNumbers
<1>8. /\ Numbers(out) = Values(out) /\ Len(Values(out)) = m
      /\ AllNumbers(s) => Numbers(s) = Values(s) /\ Len(Values(s)) = Len(s)
  BY <1>6, <1>7, NumbersFacts, NumberFacts DEF AllNumbers
<1>9. \A j \in 1..m : Values(out)[j] = out[j].val /\ Values(s)[j] = s[j].val
  BY <1>1, <1>4, <1>6 DEF Values
<1>10. QED
  BY <1>5, <1>6, <1>7, <1>8, <1>9, <1>a DEF out, z, m

Stages(ts) == Len(ts) \in Nat /\ DOMAIN ts = 1..Len(ts) /\ \A i \in 1..Len(ts) : GoodStage(ts[i])

\* at is what becomes of a number with each stage.
Passes(at, src, ts, index) ==
    /\ at \in [0..Len(ts) -> Points]
    /\ at[0] = [keep |-> TRUE, val |-> src[index]]
    /\ \A k \in 1..Len(ts) : at[k] = Applied(at[k - 1], ts[k], index)

\* A number passes the stages one after the other.
LEMMA ThroughFacts ==
  ASSUME NEW src \in Seq(Nat), NEW ts, Stages(ts), NEW index \in 1..Len(src)
  PROVE  Passes(Through(src, ts, index), src, ts, index)
<1> DEFINE n == Len(ts)
           b == [keep |-> TRUE, val |-> src[index]]
           step == [p \in (1..n) \X Points |-> Applied(p[2], ts[p[1]], index)]
           Is(f) == f = [k \in 0..n |-> IF k = 0 THEN b ELSE Applied(f[k - 1], ts[k], index)]
           at == CHOOSE f : Is(f)
<1>1. n \in Nat /\ index \in Nat \ {0} /\ \A i \in 1..n : GoodStage(ts[i])
  BY DEF Stages
<1>2. b \in Points
  BY DEF Points
<1>3. step \in [(1..n) \X Points -> Points]
  <2>1. ASSUME NEW p \in (1..n) \X Points PROVE Applied(p[2], ts[p[1]], index) \in Points
    BY <1>1, AppliedFacts
  <2>2. QED
    BY <2>1
<1>a. \A k \in 1..n, p \in Points : step[<<k, p>>] = Applied(p, ts[k], index)
  OBVIOUS
<1> HIDE DEF step, b
<1>4. PICK f \in [0..n -> Points] : Follows(f, n, b, step)
  BY <1>1, <1>2, <1>3, Recursion
<1>5. f[0] = b
  BY <1>4 DEF Follows
<1>6. \A k \in 1..n : f[k] = Applied(f[k - 1], ts[k], index)
  <2> TAKE k \in 1..n
  <2>1. k - 1 \in 0..n /\ f[k - 1] \in Points /\ f[k] = step[<<k, f[k - 1]>>]
    BY <1>1, <1>4 DEF Follows
  <2>2. QED
    BY <1>a, <2>1
<1>7. Is(f)
  <2>1. \A k \in 0..n : f[k] = IF k = 0 THEN b ELSE Applied(f[k - 1], ts[k], index)
    <3> TAKE k \in 0..n
    <3>1. k = 0 \/ k \in 1..n
      BY <1>1
    <3>2. QED
      BY <1>5, <1>6, <3>1
  <2>2. QED
    BY <1>4, <2>1
<1>8. Is(at)
  BY <1>7
<1>9. Through(src, ts, index) = at
  BY DEF Through, b
<1> HIDE DEF at
<1>10. at[0] = b
  BY <1>1, <1>8
<1>11. \A k \in 1..n : at[k] = Applied(at[k - 1], ts[k], index)
  <2> TAKE k \in 1..n
  <2>1. k \in 0..n /\ k # 0
    BY <1>1
  <2>2. QED
    BY <1>8, <2>1
<1> DEFINE T == {k \in 0..n : at[k] \in Points}
<1>12. 0 \in T
  BY <1>1, <1>2, <1>10
<1>13. ASSUME NEW k \in 0..(n - 1), k \in T PROVE k + 1 \in T
  <2>1. k + 1 \in 1..n /\ (k + 1) - 1 = k
    BY <1>1
  <2>2. at[k + 1] = Applied(at[k], ts[k + 1], index) /\ at[k] \in Points /\ GoodStage(ts[k + 1])
    BY <1>1, <1>11, <1>13, <2>1
  <2>3. at[k + 1] \in Points
    BY <1>1, <2>2, AppliedFacts
  <2>4. QED
    BY <2>1, <2>3
<1> HIDE DEF T
<1>14. \A k \in 0..n : k \in T
  BY <1>1, <1>12, <1>13, Induct
<1>15. at \in [0..n -> Points]
  <2>1. \A k \in 0..n : at[k] \in Points
    BY <1>14 DEF T
  <2>2. at = [k \in 0..n |-> at[k]]
    BY <1>8
  <2>3. QED
    BY <2>1, <2>2
<1>16. QED
  BY <1>9, <1>10, <1>11, <1>15 DEF b, Passes

\* A list passes the stages one after the other.
LEMMA StagedFacts ==
  ASSUME NEW s \in Seq(ListCells), NEW ts, Stages(ts)
  PROVE  /\ Staged(s, ts) \in [0..Len(ts) -> Seq(ListCells)]
         /\ Staged(s, ts)[0] = s
         /\ \A k \in 1..Len(ts) : Staged(s, ts)[k] = StageOn(Staged(s, ts)[k - 1], ts[k])
<1> DEFINE n == Len(ts)
           Lists == Seq(ListCells)
           step == [p \in (1..n) \X Lists |-> StageOn(p[2], ts[p[1]])]
           Is(f) == f = [k \in 0..n |-> IF k = 0 THEN s ELSE StageOn(f[k - 1], ts[k])]
           after == CHOOSE f : Is(f)
<1>1. n \in Nat /\ s \in Lists /\ \A i \in 1..n : GoodStage(ts[i])
  BY DEF Stages
<1>2. \A t \in Lists, i \in 1..n : StageOn(t, ts[i]) \in Lists
  <2> TAKE t \in Lists, i \in 1..n
  <2>1. GoodStage(ts[i])
    BY <1>1
  <2>2. QED
    BY <2>1, MapStage, FilterStage, ZipStage DEF GoodStage
<1> HIDE DEF Lists
<1>3. step \in [(1..n) \X Lists -> Lists] /\ \A k \in 1..n, t \in Lists : step[<<k, t>>] = StageOn(t, ts[k])
  BY <1>2
<1> HIDE DEF step
<1>4. PICK f \in [0..n -> Lists] : Follows(f, n, s, step)
  BY <1>1, <1>3, Recursion
<1>5. f[0] = s
  BY <1>4 DEF Follows
<1>6. \A k \in 1..n : f[k] = StageOn(f[k - 1], ts[k])
  <2> TAKE k \in 1..n
  <2>a. k - 1 \in 0..n /\ f \in [0..n -> Lists]
    BY <1>1, <1>4
  <2>b. f[k - 1] \in Lists
    BY <2>a
  <2>1. f[k] = step[<<k, f[k - 1]>>]
    BY <1>4 DEF Follows
  <2>2. QED
    BY <1>3, <2>b, <2>1
<1>7. Is(f)
  <2>1. \A k \in 0..n : f[k] = IF k = 0 THEN s ELSE StageOn(f[k - 1], ts[k])
    <3> TAKE k \in 0..n
    <3>1. k = 0 \/ k \in 1..n
      BY <1>1
    <3>2. QED
      BY <1>5, <1>6, <3>1
  <2>2. QED
    BY <1>4, <2>1
<1>8. Is(after)
  BY <1>7
<1>9. Staged(s, ts) = after
  BY DEF Staged
<1> HIDE DEF after
<1>10. after[0] = s
  BY <1>1, <1>8
<1>11. \A k \in 1..n : after[k] = StageOn(after[k - 1], ts[k])
  <2> TAKE k \in 1..n
  <2>1. k \in 0..n /\ k # 0
    BY <1>1
  <2>2. QED
    BY <1>8, <2>1
<1> DEFINE T == {k \in 0..n : after[k] \in Lists}
<1>12. 0 \in T
  BY <1>1, <1>10
<1>13. ASSUME NEW k \in 0..(n - 1), k \in T PROVE k + 1 \in T
  <2>1. k + 1 \in 1..n /\ (k + 1) - 1 = k
    BY <1>1
  <2>2. after[k + 1] = StageOn(after[k], ts[k + 1]) /\ after[k] \in Lists
    BY <1>11, <1>13, <2>1
  <2>3. QED
    BY <1>2, <2>1, <2>2
<1> HIDE DEF T
<1>14. \A k \in 0..n : k \in T
  BY <1>1, <1>12, <1>13, Induct
<1>15. after \in [0..n -> Lists]
  <2>1. \A k \in 0..n : after[k] \in Lists
    BY <1>14 DEF T
  <2>2. after = [k \in 0..n |-> after[k]]
    BY <1>8
  <2>3. QED
    BY <2>1, <2>2
<1>16. QED
  BY <1>9, <1>10, <1>11, <1>15 DEF Lists

-----------------------------------------------------------------------------
(* The loop *)

\* The numbers after a stage, with those that are no longer kept, and whether they are.
Vals(src, ts, n, k) == [i \in 1..n |-> Through(src, ts, i)[k].val]
Keeps(src, ts, n, k) == [i \in 1..n |-> Through(src, ts, i)[k].keep]

\* Where a loop over the first stages ends.
IsLength(n, src, ts, k) ==
    /\ n \in Nat /\ n <= Len(src)
    /\ \A i \in 1..k : Kind(ts[i]) = "zip_add" => n <= Len(Zipped(ts[i]))
    /\ n = Len(src) \/ \E i \in 1..k : Kind(ts[i]) = "zip_add" /\ n = Len(Zipped(ts[i]))

\* What a loop over the first stages has in common with the list after them.
LoopAt(s, src, ts, n, k) ==
    /\ IsLength(n, src, ts, k)
    /\ Numbers(Staged(s, ts)[k]) = Kept(Vals(src, ts, n, k), Keeps(src, ts, n, k))
    /\ (\A i \in 1..k : Kind(ts[i]) \notin Filters) => \A j \in 1..n : Keeps(src, ts, n, k)[j]

\* Zips come before filters, and do not meet anything but numbers.
ZipsFirst(ts) ==
    \A i, j \in 1..Len(ts) : i < j /\ Kind(ts[i]) \in Filters => Kind(ts[j]) # "zip_add"
NumbersZipped(s, ts) == AllNumbers(s) \/ \A i \in 1..Len(ts) : Kind(ts[i]) # "zip_add"

\* The next stage, of a number and of a list.
LEMMA NextStage ==
  ASSUME NEW s \in Seq(ListCells), NEW src \in Seq(Nat), NEW ts, Stages(ts), NEW k \in 0..(Len(ts) - 1)
  PROVE  /\ k + 1 \in 1..Len(ts) /\ GoodStage(ts[k + 1])
         /\ Staged(s, ts)[k] \in Seq(ListCells)
         /\ Staged(s, ts)[k + 1] = StageOn(Staged(s, ts)[k], ts[k + 1])
         /\ \A i \in 1..Len(src) :
              /\ Through(src, ts, i)[k] \in Points
              /\ Through(src, ts, i)[k + 1] = Applied(Through(src, ts, i)[k], ts[k + 1], i)
<1>1. k + 1 \in 1..Len(ts) /\ (k + 1) - 1 = k /\ k \in 0..Len(ts) /\ GoodStage(ts[k + 1])
  BY DEF Stages
<1>2. Staged(s, ts)[k] \in Seq(ListCells) /\ Staged(s, ts)[k + 1] = StageOn(Staged(s, ts)[k], ts[k + 1])
  <2> DEFINE f == Staged(s, ts)
             Lists == Seq(ListCells)
  <2>1. f \in [0..Len(ts) -> Lists] /\ \A j \in 1..Len(ts) : f[j] = StageOn(f[j - 1], ts[j])
    BY StagedFacts
  <2> HIDE DEF f, Lists
  <2>2. f[k] \in Lists /\ f[k + 1] = StageOn(f[k], ts[k + 1])
    BY <1>1, <2>1
  <2>3. QED
    BY <2>2 DEF f, Lists
<1>3. ASSUME NEW i \in 1..Len(src)
      PROVE  /\ Through(src, ts, i)[k] \in Points
             /\ Through(src, ts, i)[k + 1] = Applied(Through(src, ts, i)[k], ts[k + 1], i)
  <2> DEFINE f == Through(src, ts, i)
  <2>a. Passes(f, src, ts, i)
    BY ThroughFacts
  <2> HIDE DEF f
  <2>1. f \in [0..Len(ts) -> Points] /\ \A j \in 1..Len(ts) : f[j] = Applied(f[j - 1], ts[j], i)
    BY <2>a DEF Passes
  <2>2. f[k] \in Points /\ f[k + 1] = Applied(f[k], ts[k + 1], i)
    BY <1>1, <2>1
  <2>3. QED
    BY <2>2 DEF f
<1>4. QED
  BY <1>1, <1>2, <1>3

\* Numbers stay numbers.
LEMMA StagedNumbers ==
  ASSUME NEW s \in Seq(ListCells), NEW ts, Stages(ts), AllNumbers(s), NEW k \in 0..Len(ts)
  PROVE  AllNumbers(Staged(s, ts)[k])
<1> DEFINE n == Len(ts)
           T == {i \in 0..n : AllNumbers(Staged(s, ts)[i])}
<1>1. n \in Nat /\ \A i \in 1..n : GoodStage(ts[i])
  BY DEF Stages
<1>2. 0 \in T
  BY <1>1, StagedFacts
<1>3. ASSUME NEW i \in 0..(n - 1), i \in T PROVE i + 1 \in T
  <2> DEFINE a == Staged(s, ts)[i]
             st == ts[i + 1]
  <2>1. i + 1 \in 1..n /\ (i + 1) - 1 = i /\ AllNumbers(a)
    BY <1>1, <1>3
  <2>2. a \in Seq(ListCells) /\ Staged(s, ts)[i + 1] = StageOn(a, st) /\ GoodStage(st)
    <3>1. <<>> \in Seq(Nat)
      OBVIOUS
    <3>2. QED
      BY <1>1, <3>1, NextStage
  <2> HIDE DEF a, st
  <2>3. AllNumbers(StageOn(a, st))
    BY <2>1, <2>2, MapStage, FilterStage, ZipStage DEF GoodStage
  <2>4. QED
    BY <2>1, <2>2, <2>3
<1> HIDE DEF T
<1>4. \A i \in 0..n : i \in T
  BY <1>1, <1>2, <1>3, Induct
<1>5. QED
  BY <1>4 DEF T

\* The loop before the first stage.
LEMMA LoopStart ==
  ASSUME NEW s \in Seq(ListCells), NEW ts, Stages(ts)
  PROVE  LoopAt(s, Numbers(s), ts, Len(Numbers(s)), 0)
<1> DEFINE src == Numbers(s)
           n == Len(src)
           v == Vals(src, ts, n, 0)
           keep == Keeps(src, ts, n, 0)
<1>1. src \in Seq(Nat) /\ n \in Nat /\ Staged(s, ts)[0] = s
  BY NumbersFacts, StagedFacts
<1> HIDE DEF src
<1>2. \A i \in 1..n : Through(src, ts, i)[0] = [keep |-> TRUE, val |-> src[i]]
  BY <1>1, ThroughFacts DEF Passes
<1>a. \A i \in 1..n : keep[i] = TRUE /\ v[i] = src[i]
  <2> TAKE i \in 1..n
  <2>1. Through(src, ts, i)[0].keep = TRUE /\ Through(src, ts, i)[0].val = src[i]
    <3> DEFINE p == Through(src, ts, i)[0]
               x == src[i]
    <3>1. p = [keep |-> TRUE, val |-> x]
      BY <1>2
    <3> HIDE DEF p, x
    <3>2. p.keep = TRUE /\ p.val = x
      BY <3>1
    <3>3. QED
      BY <3>2 DEF p, x
  <2>2. QED
    BY <2>1 DEF Keeps, Vals
<1>3. keep \in [1..n -> BOOLEAN] /\ \A i \in 1..n : keep[i] = TRUE
  <2>1. keep = [i \in 1..n |-> keep[i]]
    BY DEF Keeps
  <2> HIDE DEF keep
  <2>2. QED
    BY <1>a, <2>1
<1>4. v = src
  <2>1. v = [i \in 1..n |-> v[i]]
    BY DEF Vals
  <2>2. src = [i \in 1..n |-> src[i]]
    BY <1>1
  <2> HIDE DEF v
  <2>3. QED
    BY <1>a, <2>1, <2>2
<1>5. Kept(v, keep) = src
  BY <1>1, <1>3, <1>4, KeptAll
<1>6. IsLength(n, src, ts, 0)
  BY <1>1 DEF IsLength
<1>7. QED
  BY <1>1, <1>3, <1>5, <1>6 DEF LoopAt, src

\* What g makes of a sequence is one sequence.
LEMMA MapsToOne ==
  ASSUME NEW R, NEW g, NEW v, NEW w \in Seq(R), NEW u \in Seq(R), MapsTo(g, v, w), MapsTo(g, v, u)
  PROVE  w = u
<1>1. Len(w) = Len(u) /\ \A j \in 1..Len(w) : w[j] = u[j]
  BY DEF MapsTo
<1>2. QED
  BY <1>1, SeqEqual

\* One more stage.
LEMMA LoopStep ==
  ASSUME NEW s \in Seq(ListCells), NEW src \in Seq(Nat), NEW ts, Stages(ts), ZipsFirst(ts),
         NumbersZipped(s, ts), NEW k \in 0..(Len(ts) - 1), NEW n, LoopAt(s, src, ts, n, k)
  PROVE  \E m : LoopAt(s, src, ts, m, k + 1)
<1> DEFINE st == ts[k + 1]
           a == Staged(s, ts)[k]
           b == Staged(s, ts)[k + 1]
           v == Vals(src, ts, n, k)
           keep == Keeps(src, ts, n, k)
<1>1. Len(ts) \in Nat /\ k + 1 \in 1..Len(ts) /\ (k + 1) - 1 = k /\ GoodStage(st)
  BY DEF Stages
<1>2. a \in Seq(ListCells) /\ b = StageOn(a, st)
  BY NextStage
<1>3. /\ IsLength(n, src, ts, k) /\ n \in Nat /\ n <= Len(src) /\ Len(src) \in Nat
      /\ Numbers(a) = Kept(v, keep)
      /\ (\A i \in 1..k : Kind(ts[i]) \notin Filters) => \A j \in 1..n : keep[j]
  BY DEF LoopAt, IsLength
<1>4. ASSUME NEW i \in 1..n
      PROVE  /\ Through(src, ts, i)[k] \in Points /\ i \in Nat \ {0}
             /\ Through(src, ts, i)[k + 1] = Applied(Through(src, ts, i)[k], st, i)
  <2>1. i \in 1..Len(src) /\ i \in Nat \ {0}
    BY <1>3
  <2>2. QED
    BY <2>1, NextStage
<1>5. \A i \in 1..n : /\ v[i] = Through(src, ts, i)[k].val /\ keep[i] = Through(src, ts, i)[k].keep
                      /\ v[i] \in Nat /\ keep[i] \in BOOLEAN
  <2> TAKE i \in 1..n
  <2>1. v[i] = Through(src, ts, i)[k].val /\ keep[i] = Through(src, ts, i)[k].keep
    BY DEF Vals, Keeps
  <2>2. QED
    BY <1>4, <2>1 DEF Points
<1>6. v \in Seq(Nat) /\ Len(v) = n /\ keep \in [1..Len(v) -> BOOLEAN]
  <2>1. v \in [1..n -> Nat] /\ keep \in [1..n -> BOOLEAN]
    BY <1>5 DEF Vals, Keeps
  <2>2. QED
    BY <1>3, <2>1
<1>7. \A i \in 1..(k + 1) : i \in 1..k \/ i = k + 1
  BY <1>1
<1>a. \A i \in 1..k : i \in 1..(k + 1) /\ i \in 1..Len(ts) /\ i < k + 1
  BY <1>1
<1>8. ASSUME Kind(st) # "zip_add" PROVE IsLength(n, src, ts, k + 1)
  BY <1>3, <1>7, <1>8, <1>a DEF IsLength
<1> DEFINE w == Vals(src, ts, n, k + 1)
           both == Keeps(src, ts, n, k + 1)
<1>9. \A i \in 1..n : /\ w[i] = Applied(Through(src, ts, i)[k], st, i).val
                      /\ both[i] = Applied(Through(src, ts, i)[k], st, i).keep
                      /\ w[i] \in Nat /\ both[i] \in BOOLEAN
  <2> TAKE i \in 1..n
  <2>1. w[i] = Applied(Through(src, ts, i)[k], st, i).val /\ both[i] = Applied(Through(src, ts, i)[k], st, i).keep
    BY <1>4 DEF Vals, Keeps
  <2>2. Applied(Through(src, ts, i)[k], st, i) \in Points
    BY <1>1, <1>4, AppliedFacts
  <2>3. QED
    BY <2>1, <2>2 DEF Points
<1>10. w \in Seq(Nat) /\ Len(w) = n /\ both \in [1..n -> BOOLEAN] /\ both = [i \in 1..n |-> both[i]]
  <2>1. w \in [1..n -> Nat] /\ both \in [1..n -> BOOLEAN]
    BY <1>9 DEF Vals, Keeps
  <2> HIDE DEF w, both
  <2>2. QED
    BY <1>3, <2>1
<1> HIDE DEF st, a, b, v, keep, w, both
<1>11. CASE Kind(st) \in Maps
  <2>1. \A i \in 1..n : w[i] = MapOf(st)[v[i]] /\ both[i] = keep[i]
    <3> TAKE i \in 1..n
    <3> DEFINE p == Through(src, ts, i)[k]
    <3>1. p \in Points /\ i \in Nat \ {0} /\ v[i] = p.val /\ keep[i] = p.keep
          /\ w[i] = Applied(p, st, i).val /\ both[i] = Applied(p, st, i).keep
      BY <1>4, <1>5, <1>9
    <3> HIDE DEF p
    <3>2. QED
      BY <1>1, <1>11, <3>1, AppliedFacts
  <2>2. both = keep
    BY <1>6, <1>10, <2>1
  <2>3. MapsWhere(MapOf(st), v, w, keep)
    BY <1>6, <1>10, <2>1 DEF MapsWhere
  <2>4. MapsTo(MapOf(st), Kept(v, keep), Kept(w, keep))
    BY <1>6, <1>10, <2>3, KeptMap
  <2>5. MapsTo(MapOf(st), Numbers(a), Numbers(b)) /\ b \in Seq(ListCells)
    BY <1>1, <1>2, <1>11, MapStage
  <2>6. Kept(w, keep) \in Seq(Nat) /\ Numbers(b) \in Seq(Nat)
    BY <1>6, <1>10, <2>5, KeptMembers, NumbersFacts
  <2>7. Numbers(b) = Kept(w, both)
    BY <1>3, <2>2, <2>4, <2>5, <2>6, MapsToOne
  <2>8. (\A i \in 1..(k + 1) : Kind(ts[i]) \notin Filters) => \A j \in 1..n : both[j]
    BY <1>3, <1>a, <2>2
  <2>9. IsLength(n, src, ts, k + 1)
    BY <1>8, <1>11 DEF Maps
  <2>10. QED
    BY <2>7, <2>8, <2>9 DEF LoopAt, b, w, both
<1>12. CASE Kind(st) \in Filters
  <2> DEFINE P == PassOf(st)
  <2>1. \A i \in 1..n : w[i] = v[i] /\ both[i] = (keep[i] /\ v[i] \in P)
    <3> TAKE i \in 1..n
    <3> DEFINE p == Through(src, ts, i)[k]
    <3>1. p \in Points /\ i \in Nat \ {0} /\ v[i] = p.val /\ keep[i] = p.keep
          /\ w[i] = Applied(p, st, i).val /\ both[i] = Applied(p, st, i).keep
      BY <1>4, <1>5, <1>9
    <3> HIDE DEF p, P
    <3>2. Applied(p, st, i).keep = (p.keep /\ p.val \in P) /\ Applied(p, st, i).val = p.val
      BY <1>1, <1>12, <3>1, AppliedFacts DEF P
    <3>3. QED
      BY <3>1, <3>2
  <2> HIDE DEF P
  <2>2. w = v
    BY <1>6, <1>10, <2>1, SeqEqual
  <2>3. both = KeptAndPassing(v, keep, P)
    <3>1. both = [i \in 1..n |-> keep[i] /\ v[i] \in P]
      BY <1>10, <2>1
    <3>2. QED
      BY <1>6, <3>1 DEF KeptAndPassing
  <2>4. Kept(w, both) = Kept(Kept(v, keep), Passing(Kept(v, keep), P))
    BY <1>6, <2>2, <2>3, KeptTwice
  <2>5. Numbers(b) = Kept(Numbers(a), Passing(Numbers(a), P))
    BY <1>1, <1>2, <1>12, FilterStage DEF P
  <2>6. Numbers(b) = Kept(w, both)
    BY <1>3, <2>4, <2>5
  <2>7. ~ \A i \in 1..(k + 1) : Kind(ts[i]) \notin Filters
    BY <1>1, <1>12 DEF st
  <2>8. IsLength(n, src, ts, k + 1)
    BY <1>8, <1>12 DEF Filters
  <2>9. QED
    BY <2>6, <2>7, <2>8 DEF LoopAt, b, w, both
<1>13. CASE Kind(st) = "zip_add"
  <2> DEFINE z == Zipped(st)
             m == ZipLength(a, st)
             x == Vals(src, ts, m, k + 1)
             all == Keeps(src, ts, m, k + 1)
  <2>1. AllNumbers(a)
    <3>1. AllNumbers(s)
      BY <1>1, <1>13 DEF NumbersZipped, st
    <3>2. QED
      BY <1>1, <3>1, StagedNumbers DEF a
  <2>2. \A i \in 1..k : Kind(ts[i]) \notin Filters
    BY <1>1, <1>13, <1>a DEF ZipsFirst, st
  <2>3. Numbers(a) = v /\ \A j \in 1..n : keep[j]
    <3>1. \A j \in 1..n : keep[j]
      BY <1>3, <2>2
    <3>2. QED
      BY <1>3, <1>6, <3>1, KeptAll
  <2>4. /\ Len(Numbers(a)) = Len(a) /\ m \in Nat /\ Len(Numbers(b)) = m /\ b \in Seq(ListCells)
        /\ \A j \in 1..m : Numbers(b)[j] = Numbers(a)[j] + z[j]
    BY <1>1, <1>2, <1>13, <2>1, ZipStage
  <2>5. z \in Seq(Nat) /\ Len(z) \in Nat
    BY <1>1, <1>13 DEF GoodStage
  <2>6. m = IF n < Len(z) THEN n ELSE Len(z)
    BY <1>6, <2>3, <2>4 DEF ZipLength
  <2> HIDE DEF m, z
  <2>7. m <= n /\ m <= Len(z) /\ (m = n \/ m = Len(z))
    BY <1>3, <2>5, <2>6
  <2>8. \A i \in 1..m : /\ x[i] = Numbers(b)[i] /\ all[i] = TRUE
    <3> TAKE i \in 1..m
    <3> DEFINE p == Through(src, ts, i)[k]
    <3>0. i \in 1..n /\ i \in 1..Len(z)
      BY <1>3, <2>4, <2>5, <2>7
    <3>1. p \in Points /\ i \in Nat \ {0} /\ v[i] = p.val /\ keep[i] = p.keep
          /\ Through(src, ts, i)[k + 1] = Applied(p, st, i)
      BY <1>4, <1>5, <3>0
    <3>2. x[i] = Applied(p, st, i).val /\ all[i] = Applied(p, st, i).keep
      BY <3>1 DEF Vals, Keeps
    <3> HIDE DEF p, x, all
    <3>3. Applied(p, st, i).keep = p.keep /\ Applied(p, st, i).val = p.val + z[i]
      BY <1>1, <1>13, <3>0, <3>1, AppliedFacts DEF z
    <3>4. keep[i] = TRUE
      BY <1>5, <2>3, <3>0
    <3>5. QED
      BY <2>3, <2>4, <3>1, <3>2, <3>3, <3>4
  <2>9. Numbers(b) \in Seq(Nat)
    BY <2>4, NumbersFacts
  <2>10. x \in Seq(Nat) /\ Len(x) = m /\ all \in [1..m -> BOOLEAN]
    <3> DEFINE c == Numbers(b)
    <3>0. c \in Seq(Nat) /\ Len(c) = m
      BY <2>4, <2>9
    <3> HIDE DEF c
    <3>a. \A i \in 1..m : c[i] \in Nat
      BY <3>0
    <3>1. \A i \in 1..m : x[i] \in Nat /\ all[i] \in BOOLEAN
      BY <2>8, <3>a DEF c
    <3>2. x \in [1..m -> Nat] /\ all \in [1..m -> BOOLEAN]
      BY <3>1 DEF Vals, Keeps
    <3>3. QED
      BY <2>4, <3>2
  <2> HIDE DEF x, all
  <2>11. x = Numbers(b)
    BY <2>4, <2>8, <2>9, <2>10, SeqEqual
  <2>12. Kept(x, all) = x
    BY <2>8, <2>10, KeptAll
  <2>13. IsLength(m, src, ts, k + 1)
    <3>1. \A i \in 1..(k + 1) : Kind(ts[i]) = "zip_add" => m <= Len(Zipped(ts[i]))
      <4> TAKE i \in 1..(k + 1)
      <4>1. CASE i = k + 1
        BY <2>7, <4>1 DEF z, st
      <4>2. CASE i \in 1..k
        <5> HAVE Kind(ts[i]) = "zip_add"
        <5>1. n <= Len(Zipped(ts[i]))
          BY <1>3, <4>2 DEF IsLength
        <5>2. Zipped(ts[i]) \in Seq(Nat)
          BY <1>a, <4>2 DEF Stages, GoodStage
        <5>3. Len(Zipped(ts[i])) \in Nat
          BY <5>2
        <5>4. QED
          BY <1>3, <2>4, <2>7, <5>1, <5>3
      <4>3. QED
        BY <1>7, <4>1, <4>2
    <3>2. m = Len(src) \/ \E i \in 1..(k + 1) : Kind(ts[i]) = "zip_add" /\ m = Len(Zipped(ts[i]))
      <4>1. CASE m = n
        BY <1>3, <1>a, <4>1 DEF IsLength
      <4>2. CASE m = Len(z)
        BY <1>1, <1>13, <4>2 DEF z, st
      <4>3. QED
        BY <2>7, <4>1, <4>2
    <3>3. m \in Nat /\ m <= Len(src)
      BY <1>3, <2>4, <2>7
    <3>4. QED
      BY <3>1, <3>2, <3>3 DEF IsLength
  <2>14. LoopAt(s, src, ts, m, k + 1)
    BY <2>8, <2>11, <2>12, <2>13 DEF LoopAt, b, x, all
  <2>15. QED
    BY <2>14
<1>14. QED
  BY <1>1, <1>11, <1>12, <1>13 DEF GoodStage

\* The loop over all stages.
LEMMA LoopEnd ==
  ASSUME NEW s \in Seq(ListCells), NEW ts, Stages(ts), ZipsFirst(ts), NumbersZipped(s, ts)
  PROVE  \E n : LoopAt(s, Numbers(s), ts, n, Len(ts))
<1> DEFINE src == Numbers(s)
           T == {k \in 0..Len(ts) : \E n : LoopAt(s, src, ts, n, k)}
<1>1. Len(ts) \in Nat /\ src \in Seq(Nat)
  BY NumbersFacts DEF Stages
<1>2. 0 \in T
  BY <1>1, LoopStart
<1> HIDE DEF src
<1>3. ASSUME NEW k \in 0..(Len(ts) - 1), k \in T PROVE k + 1 \in T
  <2>1. PICK n : LoopAt(s, src, ts, n, k)
    BY <1>3
  <2>2. \E m : LoopAt(s, src, ts, m, k + 1)
    BY <1>1, <2>1, LoopStep
  <2>3. k + 1 \in 0..Len(ts)
    BY <1>1
  <2>4. QED
    BY <2>2, <2>3
<1> HIDE DEF T
<1>4. \A k \in 0..Len(ts) : k \in T
  BY <1>1, <1>2, <1>3, Induct
<1>5. Len(ts) \in T
  BY <1>1, <1>4
<1>6. QED
  BY <1>5 DEF T, src

\* What comes out of the loop are the numbers of the list after the stages.
LEMMA LoopedFacts ==
  ASSUME NEW s \in Seq(ListCells), NEW ts, Stages(ts), ZipsFirst(ts), NumbersZipped(s, ts)
  PROVE  Looped(Numbers(s), ts) = Numbers(Staged(s, ts)[Len(ts)])
<1> DEFINE src == Numbers(s)
           k == Len(ts)
           Ends(m) == /\ \A i \in DOMAIN ts : Kind(ts[i]) = "zip_add" => m <= Len(Zipped(ts[i]))
                      /\ \/ m = Len(src)
                         \/ \E i \in DOMAIN ts : Kind(ts[i]) = "zip_add" /\ m = Len(Zipped(ts[i]))
<1>1. k \in Nat /\ DOMAIN ts = 1..k /\ src \in Seq(Nat)
  BY NumbersFacts DEF Stages
<1>2. PICK n : LoopAt(s, src, ts, n, k)
  BY LoopEnd
<1> HIDE DEF src, k
<1>3. n \in 0..Len(src) /\ Ends(n)
  <2>1. IsLength(n, src, ts, k)
    BY <1>2 DEF LoopAt
  <2>2. /\ \A i \in 1..k : Kind(ts[i]) = "zip_add" => n <= Len(Zipped(ts[i]))
        /\ n = Len(src) \/ \E i \in 1..k : Kind(ts[i]) = "zip_add" /\ n = Len(Zipped(ts[i]))
    BY <2>1 DEF IsLength
  <2>3. n \in 0..Len(src)
    BY <1>1, <2>1 DEF IsLength
  <2>4. Ends(n)
    BY <1>1, <2>2
  <2>5. QED
    BY <2>3, <2>4
<1>4. ASSUME NEW m \in 0..Len(src), Ends(m) PROVE m = n
  <2>1. m <= n
    <3>1. CASE n = Len(src)
      BY <3>1
    <3>2. CASE n # Len(src)
      BY <1>3, <1>4, <3>2
    <3>3. QED
      BY <3>1, <3>2
  <2>2. n <= m
    <3>1. CASE m = Len(src)
      BY <1>3, <3>1
    <3>2. CASE m # Len(src)
      BY <1>3, <1>4, <3>2
    <3>3. QED
      BY <3>1, <3>2
  <2>3. QED
    BY <1>3, <2>1, <2>2
<1>5. LoopLength(src, ts) = n
  <2>1. LoopLength(src, ts) = CHOOSE m \in 0..Len(src) : Ends(m)
    BY DEF LoopLength
  <2> HIDE DEF Ends
  <2>2. QED
    BY <1>3, <1>4, <2>1
<1> DEFINE all == [i \in 1..n |-> Through(src, ts, i)[k]]
<1>6. Looped(src, ts) = Kept(Values(all), [i \in DOMAIN all |-> all[i].keep])
  BY <1>5 DEF Looped, k
<1>7. Values(all) = Vals(src, ts, n, k) /\ [i \in DOMAIN all |-> all[i].keep] = Keeps(src, ts, n, k)
  BY DEF Values, Vals, Keeps
<1>8. QED
  BY <1>2, <1>6, <1>7 DEF LoopAt, src, k

\* With nothing but maps the loop keeps every number.
LEMMA MappedNumbers ==
  ASSUME NEW s \in Seq(ListCells), NEW ts, Stages(ts), \A i \in 1..Len(ts) : Kind(ts[i]) \in Maps
  PROVE  Numbers(Staged(s, ts)[Len(ts)]) =
           [i \in 1..Len(Numbers(s)) |-> Through(Numbers(s), ts, i)[Len(ts)].val]
<1> DEFINE src == Numbers(s)
           k == Len(ts)
<1>1. k \in Nat /\ DOMAIN ts = 1..k /\ src \in Seq(Nat)
  BY NumbersFacts DEF Stages
<1>2. \A i \in 1..k : Kind(ts[i]) # "zip_add" /\ Kind(ts[i]) \notin Filters
  BY DEF Maps, Filters
<1>3. PICK n : LoopAt(s, src, ts, n, k)
  BY <1>2, LoopEnd DEF ZipsFirst, NumbersZipped
<1> DEFINE v == Vals(src, ts, n, k)
           keep == Keeps(src, ts, n, k)
<1>4. n = Len(src) /\ n \in Nat /\ \A j \in 1..n : keep[j]
  BY <1>2, <1>3 DEF LoopAt, IsLength
<1>5. ASSUME NEW i \in 1..n PROVE v[i] \in Nat /\ keep[i] \in BOOLEAN
  <2> DEFINE p == Through(src, ts, i)
  <2>1. Passes(p, src, ts, i)
    BY <1>1, <1>4, ThroughFacts
  <2>2. v[i] = p[k].val /\ keep[i] = p[k].keep
    BY DEF Vals, Keeps
  <2> HIDE DEF p
  <2>3. p[k] \in Points
    BY <1>1, <2>1 DEF Passes
  <2>4. QED
    BY <2>2, <2>3 DEF Points
<1>6. v = [i \in 1..n |-> v[i]] /\ keep = [i \in 1..n |-> keep[i]]
  BY DEF Vals, Keeps
<1> HIDE DEF v, keep
<1>7. v \in Seq(Nat) /\ Len(v) = n /\ keep \in [1..Len(v) -> BOOLEAN]
  <2>1. v \in [1..n -> Nat]
    BY <1>5, <1>6
  <2>2. v \in Seq(Nat) /\ Len(v) = n
    BY <1>4, <2>1
  <2>3. QED
    BY <1>5, <1>6, <2>2
<1>8. Kept(v, keep) = v
  BY <1>4, <1>7, KeptAll
<1>9. QED
  BY <1>3, <1>4, <1>8 DEF LoopAt, Vals, v, keep

\* What a map makes of the sum of the numbers.
LEMMA MapSums ==
  ASSUME NEW s \in Seq(ListCells), NEW stage, GoodStage(stage), Kind(stage) \in Maps
  PROVE  /\ Kind(stage) = "map_add" =>
              SumInt(Numbers(StageOn(s, stage))) = SumInt(Numbers(s)) + Scalar(stage) * Len(Numbers(s))
         /\ Kind(stage) = "map_mul" =>
              SumInt(Numbers(StageOn(s, stage))) = SumInt(Numbers(s)) * Scalar(stage)
         /\ Len(Numbers(StageOn(s, stage))) = Len(Numbers(s))
<1> DEFINE v == Numbers(s)
           w == Numbers(StageOn(s, stage))
           a == Scalar(stage)
<1>1. v \in Seq(Nat) /\ w \in Seq(Nat) /\ MapsTo(MapOf(stage), v, w)
  BY MapStage, NumbersFacts
<1>2. a \in Nat
  BY DEF GoodStage
<1> HIDE DEF v, w
<1>3. Len(w) = Len(v) /\ \A j \in 1..Len(v) : v[j] \in Nat /\ w[j] = MapOf(stage)[v[j]]
  BY <1>1 DEF MapsTo
<1>4. \A j \in 1..Len(v) : w[j] = IF Kind(stage) = "map_add" THEN v[j] + a ELSE v[j] * a
  BY <1>3 DEF MapOf
<1> HIDE DEF a
<1>5. Kind(stage) = "map_add" => \A j \in 1..Len(v) : w[j] = v[j] + a
  BY <1>4
<1>6. Kind(stage) = "map_mul" => \A j \in 1..Len(v) : w[j] = v[j] * a
  BY <1>4
<1>7. QED
  BY <1>1, <1>2, <1>3, <1>5, <1>6, SumMaps DEF v, w, a

\* How long an interval is, told from its members.
LEMMA LastOf ==
  ASSUME NEW n \in Nat
  PROVE  /\ 1 \in 1..n /\ 2 \notin 1..n => n = 1
         /\ 2 \in 1..n /\ 3 \notin 1..n => n = 2
OBVIOUS

\* The sums of maps that need no loop.
LEMMA AffineFacts ==
  ASSUME NEW s \in Seq(ListCells), NEW ts, Stages(ts), Affine(ts)
  PROVE  AffineSum(Numbers(s), ts) = SumInt(Numbers(Staged(s, ts)[Len(ts)]))
<1> DEFINE K == Kinds(ts)
           a == Staged(s, ts)[1]
<1>1. Len(ts) \in Nat /\ DOMAIN K = 1..Len(ts) /\ \A i \in 1..Len(ts) : K[i] = Kind(ts[i])
  BY DEF Stages, Kinds, Signature
<1>2. K \in {<<"map_add">>, <<"map_mul">>, <<"map_add", "map_mul">>}
  BY DEF Affine
<1> HIDE DEF K
<1>3. 1 \in DOMAIN K /\ K[1] \in Maps
  BY <1>2 DEF Maps
<1>4. /\ 0 \in 0..(Len(ts) - 1) /\ GoodStage(ts[1]) /\ Kind(ts[1]) = K[1]
      /\ a = StageOn(s, ts[1]) /\ a \in Seq(ListCells)
  <2>1. 1 \in 1..Len(ts) /\ 1 - 1 = 0 /\ 1 \in 0..Len(ts)
    BY <1>1, <1>3
  <2>2. GoodStage(ts[1])
    BY <2>1 DEF Stages
  <2>3. a = StageOn(s, ts[1]) /\ a \in Seq(ListCells)
    BY <2>1, StagedFacts
  <2>4. QED
    BY <1>1, <2>1, <2>2, <2>3
<1>5. CASE K \in {<<"map_add">>, <<"map_mul">>}
  <2>1. 2 \notin DOMAIN K
    BY <1>5
  <2>2. Len(ts) = 1
    <3>1. Len(ts) \in Nat /\ 1 \in 1..Len(ts) /\ 2 \notin 1..Len(ts)
      BY <1>1, <1>3, <2>1
    <3>2. QED
      BY <3>1, LastOf
  <2>3. CASE K = <<"map_add">>
    <3>1. AffineSum(Numbers(s), ts) = SumInt(Numbers(s)) + Scalar(ts[1]) * Len(Numbers(s))
      BY <2>3 DEF AffineSum, K
    <3>2. Kind(ts[1]) = "map_add" /\ Kind(ts[1]) \in Maps
      BY <1>3, <1>4, <2>3
    <3>3. QED
      BY <1>4, <2>2, <3>1, <3>2, MapSums
  <2>4. CASE K = <<"map_mul">>
    <3>1. AffineSum(Numbers(s), ts) = SumInt(Numbers(s)) * Scalar(ts[1])
      BY <2>4 DEF AffineSum, K
    <3>2. Kind(ts[1]) = "map_mul" /\ Kind(ts[1]) \in Maps
      BY <1>3, <1>4, <2>4
    <3>3. QED
      BY <1>4, <2>2, <3>1, <3>2, MapSums
  <2>5. QED
    BY <1>5, <2>3, <2>4
<1>6. CASE K = <<"map_add", "map_mul">>
  <2>1. 2 \in DOMAIN K /\ 3 \notin DOMAIN K /\ K[1] = "map_add" /\ K[2] = "map_mul"
    BY <1>6
  <2>2. Len(ts) = 2
    <3>1. Len(ts) \in Nat /\ 2 \in 1..Len(ts) /\ 3 \notin 1..Len(ts)
      BY <1>1, <2>1
    <3>2. QED
      BY <3>1, LastOf
  <2>3. GoodStage(ts[2]) /\ Kind(ts[2]) = "map_mul" /\ Staged(s, ts)[2] = StageOn(a, ts[2])
    <3>1. 2 \in 1..Len(ts) /\ 2 - 1 = 1
      BY <2>2
    <3>2. GoodStage(ts[2]) /\ Kind(ts[2]) = "map_mul"
      BY <1>1, <2>1, <3>1 DEF Stages
    <3>3. Staged(s, ts)[2] = StageOn(a, ts[2])
      BY <3>1, StagedFacts
    <3>4. QED
      BY <3>2, <3>3
  <2>4. AffineSum(Numbers(s), ts) = (SumInt(Numbers(s)) + Scalar(ts[1]) * Len(Numbers(s))) * Scalar(ts[2])
    BY <1>6 DEF AffineSum, K
  <2>5. SumInt(Numbers(a)) = SumInt(Numbers(s)) + Scalar(ts[1]) * Len(Numbers(s))
    BY <1>4, <2>1, MapSums DEF Maps
  <2>6. SumInt(Numbers(StageOn(a, ts[2]))) = SumInt(Numbers(a)) * Scalar(ts[2])
    BY <1>4, <2>3, MapSums DEF Maps
  <2>7. QED
    BY <2>2, <2>3, <2>4, <2>5, <2>6
<1>7. QED
  BY <1>2, <1>5, <1>6

-----------------------------------------------------------------------------
(* Chains answer what their stages answer *)

\* What stages before a zip leave are numbers, so that none fails.
LEMMA UnfusedFacts ==
  ASSUME NEW s \in Seq(ListCells), NEW chain, Stages(Transforms(chain)),
         NumbersZipped(s, Transforms(chain))
  PROVE  Unfused(s, chain) =
           Finished(Staged(s, Transforms(chain))[Len(Transforms(chain))], Terminal(chain))
<1> DEFINE ts == Transforms(chain)
           after == Staged(s, ts)
<1>1. Len(ts) \in Nat /\ DOMAIN ts = 1..Len(ts)
  BY DEF Stages
<1>2. ASSUME NEW i \in DOMAIN ts PROVE ~StageFails(after[i - 1], ts[i])
  <2>1. i \in 1..Len(ts) /\ i - 1 \in 0..Len(ts)
    BY <1>1
  <2>2. CASE AllNumbers(s)
    <3>1. AllNumbers(after[i - 1])
      BY <2>1, <2>2, StagedNumbers
    <3>2. QED
      BY <3>1 DEF AllNumbers, StageFails
  <2>3. CASE ~AllNumbers(s)
    BY <2>1, <2>3 DEF NumbersZipped, StageFails
  <2>4. QED
    BY <2>2, <2>3
<1> HIDE DEF ts, after
<1>3. Unfused(s, chain) = IF \E i \in DOMAIN ts : StageFails(after[i - 1], ts[i])
                          THEN Failure ELSE Finished(after[Len(ts)], Terminal(chain))
  BY DEF Unfused, ts, after
<1>4. Unfused(s, chain) = Finished(after[Len(ts)], Terminal(chain))
  BY <1>2, <1>3
<1>5. QED
  BY <1>4 DEF ts, after

\* An answer agrees with itself, and so do two sums of one value.
LEMMA AgreeFacts ==
  ASSUME NEW r, NEW a \in BOOLEAN, NEW b \in BOOLEAN, NEW x
  PROVE  Agree(r, r) /\ Agree(Cell(a, x), Cell(b, x))
<1>1. Agree(r, r)
  BY DEF Agree, SameCell
<1>2. /\ Cell(a, x).val = x /\ Cell(b, x).val = x
      /\ Cell(a, x).tag \in {"int", "double"} /\ Cell(b, x).tag \in {"int", "double"}
  BY DEF Cell
<1>3. QED
  BY <1>1, <1>2 DEF Agree, SameCell, Number

\* Lists of the same numbers agree.
LEMMA AgreeLists ==
  ASSUME NEW t \in Seq(ListCells), AllNumbers(t), NEW r, DOMAIN r = 1..Len(t), Len(r) = Len(t),
         \A i \in 1..Len(t) : Number(r[i]) /\ r[i].val = Numbers(t)[i]
  PROVE  Agree(List(r), List(t))
<1>1. Numbers(t) = Values(t)
  BY NumbersFacts DEF AllNumbers
<1>2. DOMAIN t = 1..Len(t)
  OBVIOUS
<1>3. \A i \in 1..Len(t) : Number(t[i]) /\ Numbers(t)[i] = t[i].val
  BY <1>1, <1>2 DEF AllNumbers, Values
<1>4. \A i \in DOMAIN r : SameCell(r[i], t[i])
  BY <1>3 DEF SameCell
<1>5. List(r).tag = "list" /\ List(t).tag = "list" /\ List(r).items = r /\ List(t).items = t
  BY DEF List
<1>6. QED
  BY <1>4, <1>5 DEF Agree

\* The sum at the end of the stages.
LEMMA FinishedSum ==
  ASSUME NEW t \in Seq(ListCells), SumInt(Numbers(t)) <= Exact, NEW a \in BOOLEAN, NEW x,
         x = SumInt(Numbers(t))
  PROVE  Agree(Cell(a, x), Finished(t, "reduce_sum"))
<1>1. ColdAnswer(t).int \in BOOLEAN /\ ColdAnswer(t).val = x
  BY ColdFacts, ColdSums DEF ColdSum
<1>2. Finished(t, "reduce_sum") = Cell(ColdAnswer(t).int, ColdAnswer(t).val)
  BY DEF Finished, ColdAnswer
<1>3. QED
  BY <1>1, <1>2, AgreeFacts

\* The tags of a list.
LEMMA CellTags ==
  ASSUME NEW s \in Seq(ListCells)
  PROVE  \A i \in DOMAIN s : s[i].tag \in Tags
<1>1. DOMAIN s = 1..Len(s) /\ \A i \in 1..Len(s) : s[i] \in ListCells
  BY LenProperties, ElementOfSeq
<1>2. QED
  BY <1>1 DEF ListCells

\* A chain that is fused answers what its stages answer one by one.
LEMMA FusedCorrect ==
  ASSUME cells \in Seq(ListCells), NEW chain \in Chains, GoodStages(chain), ~ZipAfterFilter(chain),
         ExactSum(chain), NEW plan, plan = PlanFor(chain), Fusable(plan, chain), NEW src,
         src = Numbers(cells)
  PROVE  Agree(FusedOn(src, plan, chain), Unfused(cells, chain))
<1> DEFINE ts == Transforms(chain)
           last == Staged(cells, ts)[Len(ts)]
           out == Looped(src, ts)
           asInts == plan = "PackedInt" /\ \A i \in DOMAIN ts : Kind(ts[i]) \notin Changing
<1>1. /\ Stages(ts) /\ Terminal(chain) \in Terminals
      /\ \A i \in 1..Len(ts) : i \in DOMAIN chain /\ ts[i] = chain[i]
  BY ChainFacts DEF Stages
<1>2. ZipsFirst(ts)
  BY <1>1 DEF ZipsFirst, ZipAfterFilter
<1>3. plan \in Plans /\ plan # "Unknown" /\ (plan \in PackedPlans <=> \A i \in DOMAIN cells : Numeric(cells[i]))
  BY PlanFacts DEF PlanFor
<1>4. (\A i \in DOMAIN cells : Numeric(cells[i])) => AllNumbers(cells)
  <2>1. \A i \in DOMAIN cells : cells[i].tag \in Tags
    BY CellTags
  <2>2. QED
    BY <2>1 DEF Tags, Numeric, Number, AllNumbers
<1>5. plan \in PackedPlans => AllNumbers(cells)
  BY <1>3, <1>4
<1>6. plan \notin PackedPlans => plan \in Heterogeneous
  BY <1>3 DEF Fusable, Plans, PackedPlans, Heterogeneous
<1>7. NumbersZipped(cells, ts)
  <2>1. CASE plan \in PackedPlans
    BY <1>5, <2>1 DEF NumbersZipped
  <2>2. CASE plan \notin PackedPlans
    BY <1>1, <1>6, <2>2 DEF NumbersZipped, Fusable, Copied
  <2>3. QED
    BY <2>1, <2>2
<1>8. out = Numbers(last)
  BY <1>1, <1>2, <1>7, LoopedFacts
<1>9. Unfused(cells, chain) = Finished(last, Terminal(chain))
  BY <1>1, <1>7, UnfusedFacts
<1>10. last \in Seq(ListCells)
  BY <1>1, StagedFacts DEF Stages
<1> HIDE DEF ts, last, out, asInts
<1>11. asInts \in BOOLEAN
  BY DEF asInts
<1>12. FusedOn(src, plan, chain) =
         CASE Terminal(chain) = "reduce_sum" ->
                Cell(asInts, IF Affine(ts) THEN AffineSum(src, ts) ELSE SumInt(out))
          [] Terminal(chain) = "scan_sum" -> List(RunningSums(out))
          [] OTHER -> List([i \in DOMAIN out |-> Cell(asInts, out[i])])
  BY DEF FusedOn, ts, out, asInts
<1>13. CASE Terminal(chain) = "reduce_sum"
  <2> DEFINE x == IF Affine(ts) THEN AffineSum(src, ts) ELSE SumInt(out)
  <2>1. FusedOn(src, plan, chain) = Cell(asInts, x)
    BY <1>12, <1>13
  <2>2. x = SumInt(Numbers(last))
    BY <1>1, <1>8, AffineFacts DEF last
  <2>3. SumInt(Numbers(last)) <= Exact
    BY <1>13 DEF ExactSum, last, ts
  <2> HIDE DEF x
  <2>4. QED
    BY <1>9, <1>10, <1>11, <1>13, <2>1, <2>2, <2>3, FinishedSum
<1>14. CASE Terminal(chain) = "scan_sum"
  <2>1. FusedOn(src, plan, chain) = List(RunningSums(out))
    BY <1>12, <1>14
  <2>2. Unfused(cells, chain) = List(RunningSums(Numbers(last)))
    BY <1>9, <1>14 DEF Finished
  <2>3. QED
    BY <1>8, <2>1, <2>2, AgreeFacts
<1>15. CASE Terminal(chain) = "to_list"
  <2> DEFINE r == [i \in DOMAIN out |-> Cell(asInts, out[i])]
  <2>1. FusedOn(src, plan, chain) = List(r)
    BY <1>12, <1>15
  <2>2. Unfused(cells, chain) = List(last)
    BY <1>9, <1>15 DEF Finished
  <2>3. AllNumbers(last)
    <3>1. AllNumbers(cells)
      BY <1>5, <1>6, <1>15 DEF Fusable
    <3>2. QED
      BY <1>1, <3>1, StagedNumbers DEF last, Stages
  <2>4. out \in Seq(Nat) /\ Len(out) = Len(last)
    BY <1>8, <1>10, <2>3, NumbersFacts, NumberFacts DEF AllNumbers
  <2>5. DOMAIN r = 1..Len(last) /\ Len(r) = Len(last)
    BY <2>4
  <2>6. \A i \in 1..Len(last) : Number(r[i]) /\ r[i].val = Numbers(last)[i]
    <3> TAKE i \in 1..Len(last)
    <3>1. r[i] = Cell(asInts, out[i])
      BY <2>4
    <3> HIDE DEF r
    <3>2. QED
      BY <1>8, <3>1 DEF Cell, Number
  <2> HIDE DEF r
  <2>7. QED
    BY <1>10, <2>1, <2>2, <2>3, <2>5, <2>6, AgreeLists
<1>16. QED
  BY <1>1, <1>13, <1>14, <1>15 DEF Terminals

\* So does one that is fused over a matrix.
LEMMA MatrixCorrect ==
  ASSUME cells \in Seq(ListCells), NEW chain \in Chains, MatrixStages(chain), ExactSum(chain),
         AllNumbers(cells)
  PROVE  Agree(FusedMatrix(cells, chain), Unfused(cells, chain))
<1> DEFINE ts == Transforms(chain)
           k == Len(ts)
           last == Staged(cells, ts)[k]
           src == Values(cells)
           ints == \A i \in DOMAIN cells : cells[i].tag = "int"
           mapped == [i \in DOMAIN cells |-> Through(src, ts, i)[k].val]
<1>1. /\ GoodStages(chain)
      /\ \A i \in DOMAIN chain : Kind(chain[i]) \in Maps \cup {"reduce_sum", "to_list"}
  BY DEF MatrixStages
<1>2. /\ Stages(ts) /\ Terminal(chain) \in Terminals
      /\ \A i \in 1..k : i \in DOMAIN chain /\ ts[i] = chain[i] /\ GoodStage(ts[i])
  BY <1>1, ChainFacts DEF Stages
<1>3. \A i \in 1..k : Kind(ts[i]) \in Maps
  BY <1>1, <1>2 DEF GoodStage, Filters
<1>4. Terminal(chain) # "scan_sum"
  <2>1. chain # <<>> /\ chain \in Seq([name : StageNames, args : Seq([tag : Tags, val : Nat] \cup ListArgs)])
    BY ChainsAssumption
  <2> DEFINE S == [name : StageNames, args : Seq([tag : Tags, val : Nat] \cup ListArgs)]
  <2>2. chain # <<>> /\ chain \in Seq(S)
    BY <2>1
  <2> HIDE DEF S
  <2>3. Len(chain) \in DOMAIN chain
    BY <2>2
  <2>4. Kind(chain[Len(chain)]) # "scan_sum"
    BY <1>1, <2>3 DEF Maps
  <2>5. QED
    BY <2>4 DEF Terminal
<1>5. src = Numbers(cells) /\ Len(src) = Len(cells) /\ DOMAIN cells = 1..Len(cells) /\ src \in Seq(Nat)
  BY NumbersFacts, NumberFacts, LenProperties DEF AllNumbers
<1>6. mapped = Numbers(last)
  <2>1. Numbers(last) = [i \in 1..Len(Numbers(cells)) |-> Through(Numbers(cells), ts, i)[k].val]
    BY <1>2, <1>3, MappedNumbers
  <2> HIDE DEF last, src, k, ts
  <2>2. QED
    BY <1>5, <2>1
<1>7. last \in Seq(ListCells) /\ AllNumbers(last)
  BY <1>2, StagedFacts, StagedNumbers DEF Stages
<1>8. Unfused(cells, chain) = Finished(last, Terminal(chain))
  BY <1>2, UnfusedFacts DEF NumbersZipped
<1>9. ints \in BOOLEAN
  OBVIOUS
<1> HIDE DEF ts, k, last, src, ints, mapped
<1>10. FusedMatrix(cells, chain) =
         IF Terminal(chain) = "reduce_sum"
         THEN Cell(ints /\ ts = <<>>, IF Affine(ts) THEN AffineSum(src, ts) ELSE SumInt(mapped))
         ELSE List([i \in DOMAIN cells |-> Cell(FALSE, mapped[i])])
  BY DEF FusedMatrix, ts, k, src, ints, mapped
<1>11. CASE Terminal(chain) = "reduce_sum"
  <2> DEFINE x == IF Affine(ts) THEN AffineSum(src, ts) ELSE SumInt(mapped)
             a == ints /\ ts = <<>>
  <2>1. FusedMatrix(cells, chain) = Cell(a, x) /\ a \in BOOLEAN
    BY <1>10, <1>11
  <2>2. x = SumInt(Numbers(last))
    BY <1>2, <1>5, <1>6, AffineFacts DEF last, k
  <2>3. SumInt(Numbers(last)) <= Exact
    BY <1>11 DEF ExactSum, last, ts, k
  <2> HIDE DEF x, a
  <2>4. QED
    BY <1>7, <1>8, <1>11, <2>1, <2>2, <2>3, FinishedSum
<1>12. CASE Terminal(chain) = "to_list"
  <2> DEFINE r == [i \in DOMAIN cells |-> Cell(FALSE, mapped[i])]
  <2>1. FusedMatrix(cells, chain) = List(r)
    BY <1>10, <1>12
  <2>2. Unfused(cells, chain) = List(last)
    BY <1>8, <1>12 DEF Finished
  <2>3. Len(last) = Len(Numbers(last)) /\ Len(last) \in Nat
    BY <1>7, NumbersFacts, NumberFacts, LenProperties DEF AllNumbers
  <2>4. Len(mapped) = Len(cells)
    BY <1>5 DEF mapped
  <2>5. Len(last) = Len(cells)
    BY <1>6, <2>3, <2>4
  <2>6. DOMAIN r = 1..Len(last) /\ Len(r) = Len(last)
    BY <1>5, <2>3, <2>5
  <2>7. \A i \in 1..Len(last) : Number(r[i]) /\ r[i].val = Numbers(last)[i]
    <3> TAKE i \in 1..Len(last)
    <3>1. r[i] = Cell(FALSE, mapped[i])
      BY <1>5, <2>5
    <3> HIDE DEF r
    <3>2. QED
      BY <1>6, <3>1 DEF Cell, Number
  <2> HIDE DEF r
  <2>8. QED
    BY <1>7, <2>1, <2>2, <2>6, <2>7, AgreeLists
<1>13. QED
  BY <1>2, <1>4, <1>11, <1>12 DEF Terminals

\* The invariants tell that chains answer what their stages answer one by one.
LEMMA ChainAnswers == cells \in Seq(ListCells) /\ CopiesFresh => PipelineCorrect
<1> SUFFICES ASSUME cells \in Seq(ListCells), CopiesFresh, NEW chain \in Chains,
                    Intercepted(chain), GoodStages(chain), ~ZipAfterFilter(chain), ExactSum(chain)
             PROVE  /\ ~(reassigned /\ Known(Signature(chain))) =>
                         Agree(Answered(chain), Unfused(cells, chain))
                    /\ MatrixStages(chain) /\ (\A i \in DOMAIN cells : Number(cells[i])) =>
                         Agree(FusedMatrix(cells, chain), Unfused(cells, chain))
  BY DEF PipelineCorrect
<1>1. ASSUME ~(reassigned /\ Known(Signature(chain)))
      PROVE  Agree(Answered(chain), Unfused(cells, chain))
  <2> DEFINE plan == PlanFor(chain)
             src == IF plan \in Copied THEN Copy(chain) ELSE Values(cells)
  <2>1. CASE ~Fusable(plan, chain)
    <3>1. Answered(chain) = Unfused(cells, chain)
      BY <2>1 DEF Answered
    <3>2. QED
      BY <3>1, AgreeFacts
  <2>2. CASE Fusable(plan, chain)
    <3>1. Answered(chain) = FusedOn(src, plan, chain)
      BY <2>2 DEF Answered
    <3>2. src = Numbers(cells)
      <4>1. CASE plan \in Copied
        BY <1>1, <4>1 DEF CopiesFresh
      <4>2. CASE plan \notin Copied
        <5>1. plan \in {"PackedInt", "PackedDouble"}
          BY <2>2, <4>2, PlanFacts DEF PlanFor, Fusable, Plans, Copied, Heterogeneous
        <5>2. \A i \in DOMAIN cells : Numeric(cells[i])
          BY <5>1, PlanFacts DEF PlanFor, PackedPlans
        <5>3. \A i \in DOMAIN cells : cells[i].tag \in Tags
          BY CellTags
        <5>4. \A i \in DOMAIN cells : Number(cells[i])
          BY <5>2, <5>3 DEF Tags, Numeric, Number
        <5>5. QED
          BY <4>2, <5>4, NumbersFacts
      <4>3. QED
        BY <4>1, <4>2
    <3> HIDE DEF plan, src
    <3>3. plan = PlanFor(chain)
      BY DEF plan
    <3>4. QED
      BY <2>2, <3>1, <3>2, <3>3, FusedCorrect
  <2>3. QED
    BY <2>1, <2>2
<1>2. ASSUME MatrixStages(chain), \A i \in DOMAIN cells : Number(cells[i])
      PROVE  Agree(FusedMatrix(cells, chain), Unfused(cells, chain))
  BY <1>2, MatrixCorrect DEF AllNumbers
<1>3. QED
  BY <1>1, <1>2

\* A chain of methods on a list answers what its stages answer one by one on the
\* present cells, whether it is fused or not, and whatever the program has done
\* with the list before: a kept copy of the numbers is one of the present cells.
THEOREM PipelineCorrectTheorem == StreamSpec => []PipelineCorrect
<1>1. StreamInit => ChainListInv /\ StatsInv
  BY ChainInit
<1>2. ChainListInv /\ StatsInv /\ [StreamNext]_streamVars => ChainListInv' /\ StatsInv'
  BY ChainListStep, StatsStep
<1>3. ChainListInv /\ StatsInv => PipelineCorrect
  BY ChainCopies, ChainAnswers DEF ChainListInv
<1>4. QED
  BY <1>1, <1>2, <1>3, PTL DEF StreamSpec

-----------------------------------------------------------------------------
(* The composition *)

ScopeProofs == INSTANCE ClosureProofs WITH None <- Nowhere, MaxValue <- VarMaxValue
MatProofs == INSTANCE MatrixCacheProofs
               WITH Vars <- MatVars, Cells <- MatCells, MaxValue <- MatMaxValue

\* A run about a list or about chains keeps their invariants.
ListsInv ==
    IF subject = "chains" THEN ChainListInv /\ StatsInv ELSE ListIInv /\ ~boxedSum

\* The lists of the composition are those of ListCache and Pipeline.
LEMMA ListsImplemented == CachesSpec => []ListsInv
<1>1. CachesInit => ListsInv
  BY ChainInit, ListInit DEF CachesInit, StreamInit, ListsInv
<1>2. ASSUME ListsInv, [CachesNext]_allVars PROVE ListsInv'
  <2>1. subject' = subject
    BY <1>2 DEF CachesNext, allVars
  <2>2. CASE subject = "chains"
    <3>1. [StreamNext]_streamVars
      BY <1>2, <2>2 DEF CachesNext, allVars
    <3>2. QED
      BY <1>2, <2>1, <2>2, <3>1, ChainListStep, StatsStep DEF ListsInv
  <2>3. CASE subject # "chains"
    <3>1. [Next]_vars /\ boxedSum' = boxedSum
      BY <1>2, <2>3 DEF CachesNext, allVars, streamVars, vars
    <3>2. QED
      BY <1>2, <2>1, <2>3, <3>1, ListStep DEF ListsInv
  <2>4. QED
    BY <2>2, <2>3
<1>3. QED
  BY <1>1, <1>2, PTL DEF CachesSpec

\* A list with a live plan describes its present cells, but for the sum that
\* map_add left without a plan.
THEOREM PlansFreshComposed == CachesSpec => []PlansFresh
<1>1. ListsInv => PlansFresh
  BY ChainPlans, ListFresh DEF ListsInv, PlansFresh
<1>2. QED
  BY <1>1, ListsImplemented, PTL

\* What reduce_sum answers of a list with a live plan is right, with the same exception.
THEOREM SumsKeptComposed == CachesSpec => []SumsKept
<1>1. ListsInv => SumsKept
  BY ChainPlans, ListSummed DEF ListsInv, SumsKept
<1>2. QED
  BY <1>1, ListsImplemented, PTL

\* A chain answers, fused or not, what its stages answer one by one.
THEOREM ChainsCorrectTheorem == CachesSpec => []ChainsCorrect
<1>1. ListsInv => ChainsCorrect
  BY ChainCopies, ChainAnswers DEF ListsInv, ChainListInv, ChainsCorrect
<1>2. QED
  BY <1>1, ListsImplemented, PTL

\* The environments of the composition are those of Closures.
LEMMA ScopesImplemented == CachesSpec => ScopeProofs!Spec
<1>1. CachesInit => ScopeProofs!Init
  BY DEF CachesInit, Scopes!Init, ScopeProofs!Init, Scopes!Values, ScopeProofs!Values, Scopes!Calls,
         ScopeProofs!Calls, Scopes!EnvIds, ScopeProofs!EnvIds, Scopes!Unbound,
         ScopeProofs!Unbound, Scopes!NoSlot, ScopeProofs!NoSlot, Scopes!NoWrite,
         ScopeProofs!NoWrite, Scopes!MadeEnv, ScopeProofs!MadeEnv, Scopes!DefineAll,
         ScopeProofs!DefineAll, Scopes!Cardinality, ScopeProofs!Cardinality
<1>2. Scopes!Next => ScopeProofs!Next
  BY DEF Scopes!vars, ScopeProofs!vars, Scopes!Values, ScopeProofs!Values, Scopes!Calls,
         ScopeProofs!Calls, Scopes!EnvIds, ScopeProofs!EnvIds, Scopes!Unbound,
         ScopeProofs!Unbound, Scopes!NoSlot, ScopeProofs!NoSlot, Scopes!NoWrite,
         ScopeProofs!NoWrite, Scopes!MadeEnv, ScopeProofs!MadeEnv, Scopes!Define,
         ScopeProofs!Define, Scopes!DefineAll, ScopeProofs!DefineAll, Scopes!Owner,
         ScopeProofs!Owner, Scopes!CachedOwner, ScopeProofs!CachedOwner,
         Scopes!Remembered, ScopeProofs!Remembered, Scopes!Defined, ScopeProofs!Defined,
         Scopes!DefineFunction, ScopeProofs!DefineFunction, Scopes!AssignGlobal,
         ScopeProofs!AssignGlobal, Scopes!Parent, ScopeProofs!Parent, Scopes!Call,
         ScopeProofs!Call, Scopes!Leave, ScopeProofs!Leave, Scopes!Throw,
         ScopeProofs!Throw, Scopes!Running, ScopeProofs!Running, Scopes!Return,
         ScopeProofs!Return, Scopes!Hit, ScopeProofs!Hit, Scopes!Target,
         ScopeProofs!Target, Scopes!ResolveTarget, ScopeProofs!ResolveTarget,
         Scopes!Missing, ScopeProofs!Missing, Scopes!Value, ScopeProofs!Value,
         Scopes!LookedUp, ScopeProofs!LookedUp, Scopes!AssignRead, ScopeProofs!AssignRead,
         Scopes!AssignFails, ScopeProofs!AssignFails, Scopes!WrittenEnv,
         ScopeProofs!WrittenEnv, Scopes!AssignWrite, ScopeProofs!AssignWrite,
         Scopes!Settable, ScopeProofs!Settable, Scopes!BindTo, ScopeProofs!BindTo,
         Scopes!Bind, ScopeProofs!Bind, Scopes!IndexAssign, ScopeProofs!IndexAssign,
         Scopes!Next, ScopeProofs!Next, Scopes!Cardinality, ScopeProofs!Cardinality
<1>3. [CachesNext]_allVars => [ScopeProofs!Next]_(ScopeProofs!vars)
  BY <1>2 DEF CachesNext, allVars, scopeVars, ScopeProofs!vars
<1>4. QED
  BY <1>1, <1>3, PTL DEF CachesSpec, ScopeProofs!Spec

\* The composition gives the environments constants they accept.
LEMMA ScopeConstants == ScopeProofs!ClosureParameters
BY ClosureAssumption
   DEF Scopes!ClosureParameters, ScopeProofs!ClosureParameters, Scopes!Kinds, ScopeProofs!Kinds,
       Scopes!IsFiniteSet, ScopeProofs!IsFiniteSet

\* Every cache of the environments finds a name where the walk up finds it.
THEOREM LookupsFreshComposed == CachesSpec => []LookupsFresh
<1>1. ScopeProofs!Spec => []ScopeProofs!LookupsFresh
  BY ScopeConstants, ScopeProofs!LookupsFreshCorrect
<1>2. ScopeProofs!LookupsFresh => LookupsFresh
  BY DEF ScopeProofs!LookupsFresh, LookupsFresh, Scopes!LookupsFresh, Scopes!CachedOwner,
         ScopeProofs!CachedOwner, Scopes!Owner, ScopeProofs!Owner, Scopes!Hit,
         ScopeProofs!Hit
<1>3. QED
  BY ScopesImplemented, <1>1, <1>2, PTL

\* What a call has bound itself nobody else writes.
THEOREM OwnVariablesComposed == CachesSpec => []OwnVariables
<1>1. ScopeProofs!Spec => []ScopeProofs!OwnVariables
  BY ScopeConstants, ScopeProofs!OwnVariablesCorrect
<1>2. ScopeProofs!OwnVariables => OwnVariables
  BY DEF ScopeProofs!OwnVariables, OwnVariables, Scopes!OwnVariables, Scopes!Owner, ScopeProofs!Owner
<1>3. QED
  BY ScopesImplemented, <1>1, <1>2, PTL

-----------------------------------------------------------------------------
\* An operator of MatrixCache means the same in the composition and in the proofs.
LEMMA SameOperators ==
  /\ \A data : Mat!Values(data) = MatProofs!Values(data)
  /\ \A s : Mat!Total(s) = MatProofs!Total(s) /\ Mat!Probe(s) = MatProofs!Probe(s)
  /\ \A c, data : Mat!HasDense(c, data) <=> MatProofs!HasDense(c, data)
  /\ \A c, data : Mat!Numbers(c, data) = MatProofs!Numbers(c, data)
  /\ \A c, data : Mat!ReduceSumOf(c, data) = MatProofs!ReduceSumOf(c, data)
  /\ \A s, isInt : Mat!ResultCache(s, isInt) = MatProofs!ResultCache(s, isInt)
  /\ \A store, v, transpose, f32 :
        Mat!Acquire(store, v, transpose, f32) = MatProofs!Acquire(store, v, transpose, f32)
  /\ \A x, y, f32, transpose : Mat!Kernel(x, y, f32, transpose) = MatProofs!Kernel(x, y, f32, transpose)
  /\ \A x, y, a, b : Mat!Product(x, y, a, b) = MatProofs!Product(x, y, a, b)
  /\ \A x, y, f32, transpose :
        Mat!MatmulSumOf(x, y, f32, transpose) = MatProofs!MatmulSumOf(x, y, f32, transpose)
<1>1. \A data : Mat!Values(data) = MatProofs!Values(data)
  BY DEF Mat!Values, MatProofs!Values
<1>2. \A s : Mat!Total(s) = MatProofs!Total(s)
  BY DEF Mat!Total, MatProofs!Total
<1>3. \A s : Mat!Probe(s) = MatProofs!Probe(s)
  BY DEF Mat!Probe, MatProofs!Probe
<1>4. \A c, data : Mat!HasDense(c, data) <=> MatProofs!HasDense(c, data)
  BY DEF Mat!HasDense, MatProofs!HasDense
<1>5. \A c, data : Mat!Numbers(c, data) = MatProofs!Numbers(c, data)
  BY <1>1, <1>4 DEF Mat!Numbers, MatProofs!Numbers
<1>6. \A c, data : Mat!EnsureMatrixPlan(c, data) = MatProofs!EnsureMatrixPlan(c, data)
  BY DEF Mat!None, MatProofs!None, Mat!AllInt, MatProofs!AllInt, Mat!ChooseMatrixPlan,
         MatProofs!ChooseMatrixPlan, Mat!EnsureMatrixPlan, MatProofs!EnsureMatrixPlan
<1>7. \A c, data : Mat!MaterializeIfNeeded(c, data) = MatProofs!MaterializeIfNeeded(c, data)
  BY <1>1 DEF Mat!MaterializeIfNeeded, MatProofs!MaterializeIfNeeded
<1>8. \A c, data : Mat!ReduceSumOf(c, data) = MatProofs!ReduceSumOf(c, data)
  <2> TAKE c, data
  <2> DEFINE p == Mat!MaterializeIfNeeded(Mat!EnsureMatrixPlan(c, data), data)
             added == CASE p.plan = "PackedInt" -> Mat!Values(data)
                        [] p.plan = "PackedDouble" -> Mat!Numbers(p, data)
                        [] OTHER -> p.promoted
  <2>1. MatProofs!MaterializeIfNeeded(MatProofs!EnsureMatrixPlan(c, data), data) = p
    BY <1>6, <1>7
  <2>2. MatProofs!Values(data) = Mat!Values(data)
        /\ MatProofs!Numbers(p, data) = Mat!Numbers(p, data)
    BY <1>1, <1>5
  <2> DEFINE other == CASE p.plan = "PackedInt" -> MatProofs!Values(data)
                        [] p.plan = "PackedDouble" -> MatProofs!Numbers(p, data)
                        [] OTHER -> p.promoted
  <2>3. other = added
    BY <2>2
  <2>4. Mat!ReduceSumOf(c, data) =
          IF c.sumVersion = c.version
          THEN [cache |-> c, int |-> c.sumIsInt, val |-> c.sum]
          ELSE [cache |-> [p EXCEPT !.sumVersion = p.version, !.sum = Mat!Total(added),
                                    !.sumIsInt = p.plan = "PackedInt"],
                int |-> p.plan = "PackedInt", val |-> Mat!Total(added)]
    BY DEF Mat!ReduceSumOf
  <2> HIDE DEF p, added, other
  <2>5. MatProofs!ReduceSumOf(c, data) =
          IF c.sumVersion = c.version
          THEN [cache |-> c, int |-> c.sumIsInt, val |-> c.sum]
          ELSE [cache |-> [p EXCEPT !.sumVersion = p.version, !.sum = MatProofs!Total(other),
                                    !.sumIsInt = p.plan = "PackedInt"],
                int |-> p.plan = "PackedInt", val |-> MatProofs!Total(other)]
    BY <2>1 DEF MatProofs!ReduceSumOf, other
  <2>6. QED
    BY <1>2, <2>3, <2>4, <2>5
<1>9. \A s, isInt : Mat!ResultCache(s, isInt) = MatProofs!ResultCache(s, isInt)
  BY <1>2 DEF Mat!ResultCache, MatProofs!ResultCache, Mat!Cold, MatProofs!Cold, Mat!None, MatProofs!None
<1>10. \A store, v, transpose, f32 :
         Mat!Acquire(store, v, transpose, f32) = MatProofs!Acquire(store, v, transpose, f32)
  <2> TAKE store, v, transpose, f32
  <2> DEFINE c == var[v].cache
             data == heap[var[v].at].data
             s == Mat!Numbers(c, data)
             dense == Mat!HasDense(c, data)
             key == Mat!PackKey(v, transpose, f32)
             probe == Mat!Probe(s)
             got == IF ~transpose /\ ~f32 /\ dense THEN [store |-> store, packed |-> c.promoted]
                    ELSE IF key \in DOMAIN store /\ store[key].probe = probe
                    THEN [store |-> store, packed |-> store[key].packed]
                    ELSE [store |-> [k \in DOMAIN store \cup {key} |->
                                       IF k = key THEN [probe |-> probe, packed |-> s] ELSE store[k]],
                          packed |-> s]
  <2>1. MatProofs!Numbers(c, data) = s /\ (MatProofs!HasDense(c, data) <=> dense)
        /\ MatProofs!Probe(s) = probe
    BY <1>3, <1>4, <1>5
  <2>2. MatProofs!PackKey(v, transpose, f32) = key
    BY DEF Mat!PackKey, MatProofs!PackKey, Mat!Matrix, MatProofs!Matrix
  <2>3. Mat!Acquire(store, v, transpose, f32) = got
    BY DEF Mat!Acquire, Mat!Matrix
  <2> HIDE DEF s, dense, key, probe
  <2>4. MatProofs!Acquire(store, v, transpose, f32) = got
    BY <2>1, <2>2 DEF MatProofs!Acquire, MatProofs!Matrix
  <2>5. QED
    BY <2>3, <2>4
<1>11. \A x, y, a, b : Mat!Product(x, y, a, b) = MatProofs!Product(x, y, a, b)
  BY DEF Mat!Matrix, MatProofs!Matrix, Mat!Total, MatProofs!Total, Mat!Rows, MatProofs!Rows,
         Mat!Cols, MatProofs!Cols, Mat!Product, MatProofs!Product
<1>12. \A x, y, f32, transpose :
         Mat!Kernel(x, y, f32, transpose) = MatProofs!Kernel(x, y, f32, transpose)
  BY <1>10, <1>11 DEF Mat!Kernel, MatProofs!Kernel
<1>13. \A x, y, f32 : Mat!SumKey(x, y, f32) = MatProofs!SumKey(x, y, f32)
  BY DEF Mat!Matrix, MatProofs!Matrix, Mat!Values, MatProofs!Values, Mat!HasDense,
         MatProofs!HasDense, Mat!Numbers, MatProofs!Numbers, Mat!Probe, MatProofs!Probe,
         Mat!Printed, MatProofs!Printed, Mat!SumKey, MatProofs!SumKey
<1>14. Mat!Kept = MatProofs!Kept
  BY DEF Mat!Kept, MatProofs!Kept, Mat!Cardinality, MatProofs!Cardinality
<1>15. \A x, y, f32, transpose :
         Mat!MatmulSumOf(x, y, f32, transpose) = MatProofs!MatmulSumOf(x, y, f32, transpose)
  BY <1>2, <1>12, <1>13, <1>14 DEF Mat!MatmulSumOf, MatProofs!MatmulSumOf
<1>16. QED
  BY <1>1, <1>2, <1>3, <1>4, <1>5, <1>8, <1>9, <1>10, <1>11, <1>12, <1>15

\* The matrices of the composition are those of MatrixCache.
LEMMA MatricesImplemented == CachesSpec => MatProofs!Spec
<1>1. CachesInit => MatProofs!Init
  BY DEF CachesInit, Mat!Init, MatProofs!Init, Mat!NoMatrix, MatProofs!NoMatrix, Mat!Cold, MatProofs!Cold,
         Mat!Filled, MatProofs!Filled, Mat!None, MatProofs!None
<1>2. Mat!Next => MatProofs!Next
  <2>1. \A v \in MatVars : Mat!Literal(v) => MatProofs!Literal(v)
    BY DEF Mat!None, MatProofs!None, Mat!NoMatrix, MatProofs!NoMatrix, Mat!Cold, MatProofs!Cold,
           Mat!Filled, MatProofs!Filled, Mat!Fresh, MatProofs!Fresh, Mat!Bind, MatProofs!Bind,
           Mat!BindNew, MatProofs!BindNew, Mat!Literal, MatProofs!Literal
  <2>2. \A v, data : Mat!Write(v, data) => MatProofs!Write(v, data)
    BY DEF Mat!Write, MatProofs!Write, Mat!InvalidateMatrixCache, MatProofs!InvalidateMatrixCache,
           Mat!Cold, MatProofs!Cold, Mat!None, MatProofs!None
  <2>3. \A v \in MatVars : Mat!SetCell(v) \/ Mat!SetRow(v) => MatProofs!SetCell(v) \/ MatProofs!SetRow(v)
    BY <2>2 DEF Mat!SetCell, MatProofs!SetCell, Mat!SetRow, MatProofs!SetRow, Mat!Matrix, MatProofs!Matrix,
                Mat!Rows, MatProofs!Rows, Mat!Cols, MatProofs!Cols
  <2>4. \A v \in MatVars : Mat!ReduceSum(v) => MatProofs!ReduceSum(v)
    BY SameOperators DEF Mat!ReduceSum, MatProofs!ReduceSum, Mat!Matrix, MatProofs!Matrix
  <2>5. \A v, u \in MatVars : Mat!Assign(v, u) => MatProofs!Assign(v, u)
    BY DEF Mat!NoMatrix, MatProofs!NoMatrix, Mat!Bind, MatProofs!Bind, Mat!Assign, MatProofs!Assign
  <2>6. \A v, u \in MatVars : Mat!MatmulSum(v, u) => MatProofs!MatmulSum(v, u)
    BY SameOperators DEF Mat!MatmulSum, MatProofs!MatmulSum, Mat!Fits, MatProofs!Fits, Mat!Rows,
           MatProofs!Rows, Mat!Cols, MatProofs!Cols, Mat!Matrix, MatProofs!Matrix
  <2>7. \A v, matrix, born : Mat!BindNew(v, matrix, born) => MatProofs!BindNew(v, matrix, born)
    BY DEF Mat!BindNew, MatProofs!BindNew, Mat!Bind, MatProofs!Bind, Mat!Fresh, MatProofs!Fresh,
           Mat!NoMatrix, MatProofs!NoMatrix
  <2>8. ASSUME NEW v \in MatVars, NEW u \in MatVars, Mat!AddScalar(v, u) PROVE MatProofs!AddScalar(v, u)
    <3> DEFINE m == heap[var[u].at]
               c == var[u].cache
               old == Mat!Numbers(c, m.data)
               out == [i \in DOMAIN m.data |-> old[i] + 1]
               ints == [i \in DOMAIN m.data |-> [int |-> TRUE, val |-> out[i]]]
               doubles == [shape |-> m.shape, data |-> Mat!Doubles(out)]
               whole == [shape |-> m.shape, data |-> ints]
               dense == Mat!HasDense(c, m.data) \/ ~Mat!AllInt(m.data)
    <3>1. /\ MatProofs!Numbers(c, m.data) = old /\ MatProofs!Doubles(out) = Mat!Doubles(out)
          /\ (MatProofs!HasDense(c, m.data) \/ ~MatProofs!AllInt(m.data)) <=> dense
          /\ MatProofs!ResultCache(out, FALSE) = Mat!ResultCache(out, FALSE)
          /\ MatProofs!Cold = Mat!Cold
      BY SameOperators
         DEF Mat!Doubles, MatProofs!Doubles, Mat!AllInt, MatProofs!AllInt, Mat!Cold, MatProofs!Cold,
             Mat!None, MatProofs!None
    <3> HIDE DEF old, dense
    <3>2. /\ \A i \in DOMAIN out : out[i] <= MatMaxValue
          /\ dense => Mat!BindNew(v, doubles, Mat!ResultCache(out, FALSE))
          /\ ~dense => Mat!BindNew(v, whole, Mat!Cold)
          /\ packs' = packs /\ sums' = sums
      BY <2>8 DEF Mat!AddScalar, Mat!Matrix, old, dense
    <3> HIDE DEF doubles, whole, out
    <3>3. /\ dense => MatProofs!BindNew(v, doubles, Mat!ResultCache(out, FALSE))
          /\ ~dense => MatProofs!BindNew(v, whole, Mat!Cold)
      BY <2>7, <3>2
    <3>4. QED
      BY <3>1, <3>2, <3>3 DEF MatProofs!AddScalar, MatProofs!Matrix, doubles, whole, out
  <2>9. ASSUME NEW z \in MatVars, NEW x \in MatVars, NEW y \in MatVars, Mat!Matmul(z, x, y)
        PROVE  MatProofs!Matmul(z, x, y)
    <3> DEFINE r == heap[var[x].at].shape[1]
               n == heap[var[y].at].shape[2]
               run(f32, transpose) == Mat!Kernel(x, y, f32, transpose)
               int(f32) == ~f32 /\ Mat!Integral(x) /\ Mat!Integral(y)
               cells_(s, isInt) == IF isInt THEN [i \in DOMAIN s |-> [int |-> TRUE, val |-> s[i]]]
                                   ELSE Mat!Doubles(s)
    <3>1. PICK f32 \in Modes, transpose \in BOOLEAN :
             /\ \A i \in DOMAIN run(f32, transpose).out : run(f32, transpose).out[i] <= MatMaxValue
             /\ Mat!BindNew(z, [shape |-> <<r, n>>,
                                data |-> cells_(run(f32, transpose).out, int(f32))],
                            Mat!ResultCache(run(f32, transpose).out, int(f32)))
             /\ packs' = run(f32, transpose).store
      BY <2>9 DEF Mat!Matmul, Mat!Rows, Mat!Cols, Mat!Matrix
    <3>2. Mat!Fits(x, y) /\ r * n <= MaxCells /\ sums' = sums
      BY <2>9 DEF Mat!Matmul, Mat!Rows, Mat!Cols, Mat!Matrix
    <3> DEFINE made == run(f32, transpose)
               isInt == int(f32)
               matrix == [shape |-> <<r, n>>, data |-> cells_(made.out, isInt)]
    <3>3. /\ MatProofs!Kernel(x, y, f32, transpose) = made
          /\ MatProofs!ResultCache(made.out, isInt) = Mat!ResultCache(made.out, isInt)
          /\ MatProofs!Doubles(made.out) = Mat!Doubles(made.out)
      BY SameOperators DEF Mat!Doubles, MatProofs!Doubles
    <3>4. \A v \in MatVars : MatProofs!Integral(v) <=> Mat!Integral(v)
      BY SameOperators
         DEF Mat!Integral, MatProofs!Integral, Mat!AllInt, MatProofs!AllInt, Mat!Matrix, MatProofs!Matrix
    <3>5. (~f32 /\ MatProofs!Integral(x) /\ MatProofs!Integral(y)) = isInt
      BY <3>4
    <3>6. /\ \A i \in DOMAIN made.out : made.out[i] <= MatMaxValue
          /\ Mat!BindNew(z, matrix, Mat!ResultCache(made.out, isInt))
          /\ packs' = made.store
      BY <3>1
    <3> HIDE DEF matrix, made, isInt
    <3>7. MatProofs!BindNew(z, matrix, Mat!ResultCache(made.out, isInt))
      BY <2>7, <3>6
    <3>8. MatProofs!Fits(x, y) /\ MatProofs!Rows(x) = r /\ MatProofs!Cols(y) = n
      BY <3>2 DEF Mat!Fits, MatProofs!Fits, Mat!Rows, MatProofs!Rows, Mat!Cols, MatProofs!Cols, Mat!Matrix,
                  MatProofs!Matrix
    <3>9. QED
      BY <3>2, <3>3, <3>5, <3>6, <3>7, <3>8 DEF MatProofs!Matmul, matrix
  <2>10. QED
    BY <2>1, <2>3, <2>4, <2>5, <2>6, <2>8, <2>9 DEF Mat!Next, MatProofs!Next
<1>3. [CachesNext]_allVars => [MatProofs!Next]_(MatProofs!vars)
  BY <1>2 DEF CachesNext, allVars, matrixVars, MatProofs!vars
<1>4. QED
  BY <1>1, <1>3, PTL DEF CachesSpec, MatProofs!Spec

\* The composition gives the matrices constants they accept.
LEMMA MatrixConstants == MatProofs!MatrixParameters
BY MatrixAssumption DEF Mat!MatrixParameters, MatProofs!MatrixParameters

\* The sum that a matrix variable answers is the sum of its cells.
THEOREM OwnSumComposed == CachesSpec => []OwnSumCorrect
<1>1. MatProofs!Spec => []MatProofs!OwnSumCorrect
  BY MatrixConstants, MatProofs!OwnSumTheorem
<1>2. MatProofs!OwnSumCorrect => OwnSumCorrect
  BY SameOperators
     DEF MatProofs!OwnSumCorrect, OwnSumCorrect, Mat!OwnSumCorrect, Mat!Matrix, MatProofs!Matrix,
         Mat!AllInt, MatProofs!AllInt
<1>3. QED
  BY MatricesImplemented, <1>1, <1>2, PTL

\* A packed operand that matmul uses again holds the cells of the matrix, when
\* the probe sees them all.
THEOREM ProbedPackComposed == CachesSpec => []ProbedPackCorrect
<1>1. MatProofs!Spec => []MatProofs!ProbedPackCorrect
  BY MatrixConstants, MatProofs!ProbedPackTheorem
<1>2. MatProofs!ProbedPackCorrect => ProbedPackCorrect
  BY SameOperators
     DEF MatProofs!ProbedPackCorrect, ProbedPackCorrect, Mat!ProbedPackCorrect, MatProofs!PackCorrect,
         Mat!PackCorrect, Mat!Matrix, MatProofs!Matrix
<1>3. QED
  BY MatricesImplemented, <1>1, <1>2, PTL

\* matmul_sum answers from its cache what the product adds up to.
THEOREM SumCacheComposed == CachesSpec => []SumCacheCorrect
<1>1. MatProofs!Spec => []MatProofs!SumCacheCorrect
  BY MatrixConstants, MatProofs!SumCacheTheorem
<1>2. MatProofs!SumCacheCorrect => SumCacheCorrect
  BY SameOperators
     DEF MatProofs!SumCacheCorrect, SumCacheCorrect, Mat!SumCacheCorrect, Mat!Matrix, MatProofs!Matrix,
         Mat!Rows, MatProofs!Rows, Mat!Cols, MatProofs!Cols, Mat!Fits, MatProofs!Fits
<1>3. QED
  BY MatricesImplemented, <1>1, <1>2, PTL
=============================================================================
