------------------------- MODULE MatrixCacheProofs -------------------------
(***************************************************************************)
(* Safety of MatrixCache, for every set of variables, addresses, shapes    *)
(* and cells: what the cache of a matrix answers is true of its cells, and *)
(* so is what matmul takes from its own caches, as far as it can be.       *)
(***************************************************************************)
EXTENDS MatrixCache, SequenceTheorems, FiniteSetTheorems, WellFoundedInduction, TLAPS

Dims == Nat \ {0}
MatrixCells == [int : BOOLEAN, val : 0..MaxValue]
Size(shape) == shape[1] * shape[2]
Versions == Nat \cup {None}
Caches == [version : Nat, analyzed : Versions, materialized : Versions, plan : Plans,
           live : BOOLEAN, promoted : Seq(Nat), sumVersion : Versions, sum : Nat,
           sumIsInt : BOOLEAN]

\* A matrix has as many cells as its shape says.
IsMatrix(m) ==
    /\ m \in [shape : Dims \X Dims, data : Seq(MatrixCells)]
    /\ Len(m.data) = Size(m.shape)

\* What a cache with a plan says of the cells of its matrix.
PlannedInv(c, data) ==
    /\ c.live /\ c.analyzed = c.version /\ c.plan = ChooseMatrixPlan(data)
    /\ c.materialized = None => c.promoted = <<>>
    /\ c.materialized # None =>
          /\ c.materialized = c.version
          /\ c.promoted \in {<<>>, Values(data)}
          /\ c.plan = "PromotedPackedDouble" => c.promoted = Values(data)
    /\ c.sumVersion # None =>
          /\ c.sumVersion = c.version
          /\ c.sum = Total(Values(data)) /\ (c.sumIsInt <=> AllInt(data))

\* A cold cache says nothing.
ColdInv(c) == c = [Cold EXCEPT !.version = c.version]
CacheInv(c, data) == ColdInv(c) \/ PlannedInv(c, data)

\* A variable refers to a matrix that was made at some time.
VarInv(v) ==
    /\ var[v] \in [at : Addrs, cache : Caches] /\ var[v].cache.version <= ops
    /\ IsMatrix(Matrix(v)) /\ births[var[v].at] # 0
    /\ ~foreign[v] => CacheInv(var[v].cache, Matrix(v).data)

\* A packed operand is kept with its own probe and has the size its key says.
PackInv(store) ==
    \A k \in DOMAIN store :
        /\ k[2] \in Dims \X Dims
        /\ store[k].packed \in Seq(Nat) /\ Len(store[k].packed) = Size(k[2])
        /\ store[k].probe = Probe(store[k].packed)

\* The numbers that a probe is of, when there are at most three.
Unprobed(probe, n) ==
    [i \in 1..n |-> IF i = 1 THEN probe[1] ELSE IF i = n THEN probe[3] ELSE probe[2]]

\* The numbers of a matrix as the text of a key gives them.
PrintedProbe(s) == [i \in 1..3 |-> Printed(Probe(s)[i])]

\* The product of matrices with these shapes.
ProductOf(r, s, a, b) ==
    [i \in 1..(r[1] * s[2]) |->
        Total([j \in 1..r[2] |-> a[((i - 1) \div s[2]) * r[2] + j]
                                 * b[(j - 1) * s[2] + ((i - 1) % s[2]) + 1]])]

\* A sum is kept under the addresses of its operands.  While no other matrix
\* lived there, it is the sum of the product of the operands the key stands for.
SumTrue(part, other, total) ==
    LET r == heap[part[1]].shape
        s == heap[other[1]].shape
    IN  /\ births[part[1]] = 1 /\ births[other[1]] = 1
        /\ Size(r) \in 1..3 /\ Size(s) \in 1..3
        /\ \A i \in 1..3 : part[3][i] < Coarse /\ other[3][i] < Coarse
        => total = Total(ProductOf(r, s, Unprobed(part[3], Size(r)), Unprobed(other[3], Size(s))))
SumInv ==
    \A k \in DOMAIN sums :
        /\ k[2][1] \in Addrs /\ births[k[2][1]] # 0
        /\ k[3][1] \in Addrs /\ births[k[3][1]] # 0
        /\ SumTrue(k[2], k[3], sums[k])

DataInv ==
    /\ ops \in 0..MaxOps
    /\ foreign \in [Vars -> BOOLEAN] /\ births \in [Addrs -> 0..2]
    /\ DOMAIN heap = Addrs /\ DOMAIN var = Vars
    /\ \A a \in Addrs : IsMatrix(heap[a]) \/ heap[a] = NoMatrix
    /\ \A v \in Vars : VarInv(v)

SumsBounded == IsFiniteSet(DOMAIN sums) /\ Cardinality(DOMAIN sums) <= SumMax

IInv == DataInv /\ PackInv(packs) /\ SumInv /\ SumsBounded

-----------------------------------------------------------------------------
(* Induction *)

\* A set of natural numbers has a least element: what the inductions below use.
LEMMA Least ==
  ASSUME NEW T \in SUBSET Nat, T # {}
  PROVE  \E x \in T : \A y \in T : x <= y
<1> DEFINE R == {p \in Nat \X Nat : p[1] < p[2]}
<1>1. IsWellFoundedOn(R, Nat)
  BY NatLessThanWellFounded DEF OpToRel
<1>2. \A x, y \in Nat : x < y => <<x, y>> \in R
  OBVIOUS
<1> HIDE DEF R
<1>3. PICK x \in T : \A y \in T : <<y, x>> \notin R
  BY <1>1, WFMin
<1>4. \A y \in T : ~(y < x)
  BY <1>2, <1>3
<1>5. QED
  BY <1>4

\* The partial sums that Total adds up exist.
LEMMA PartialSums ==
  ASSUME NEW s, NEW n \in Nat
  PROVE  \E g : g = [i \in 0..n |-> IF i = 0 THEN 0 ELSE g[i - 1] + s[i]]
<1> DEFINE Sums(m) == \E g : g = [i \in 0..m |-> IF i = 0 THEN 0 ELSE g[i - 1] + s[i]]
           T == {m \in Nat : ~Sums(m)}
<1> SUFFICES ASSUME T # {} PROVE FALSE
  OBVIOUS
<1>1. PICK m \in T : \A k \in T : m <= k
  BY Least
<1>2. CASE m = 0
  <2> DEFINE g == [i \in 0..0 |-> 0]
  <2>1. g = [i \in 0..0 |-> IF i = 0 THEN 0 ELSE g[i - 1] + s[i]]
    OBVIOUS
  <2>2. Sums(0)
    BY <2>1
  <2>3. QED
    BY <1>2, <2>2
<1>3. CASE m # 0
  <2>1. m - 1 \in Nat /\ m \in Nat /\ Sums(m - 1)
    BY <1>1, <1>3
  <2>2. PICK g : g = [i \in 0..(m - 1) |-> IF i = 0 THEN 0 ELSE g[i - 1] + s[i]]
    BY <2>1
  <2> DEFINE h == [i \in 0..m |-> IF i = 0 THEN 0 ELSE g[i - 1] + s[i]]
  <2>3. \A j \in 0..(m - 1) : h[j] = g[j]
    BY <2>1, <2>2
  <2>4. \A i \in 0..m : i # 0 => i - 1 \in 0..(m - 1)
    BY <2>1
  <2>5. h = [i \in 0..m |-> IF i = 0 THEN 0 ELSE h[i - 1] + s[i]]
    BY <2>3, <2>4
  <2>6. Sums(m)
    BY <2>5
  <2>7. QED
    BY <2>6
<1>4. QED
  BY <1>2, <1>3

\* A sum of naturals is one.
LEMMA TotalType ==
  ASSUME NEW s \in Seq(Nat)
  PROVE  Total(s) \in Nat
<1> DEFINE n == Len(s)
           sum == CHOOSE g : g = [i \in 0..n |-> IF i = 0 THEN 0 ELSE g[i - 1] + s[i]]
<1>1. n \in Nat /\ \A i \in 1..n : s[i] \in Nat
  OBVIOUS
<1>2. sum = [i \in 0..n |-> IF i = 0 THEN 0 ELSE sum[i - 1] + s[i]]
  BY <1>1, PartialSums
<1>3. Total(s) = sum[n]
  BY DEF Total
<1> HIDE DEF sum, n
<1> DEFINE T == {i \in 0..n : sum[i] \notin Nat}
<1>4. T = {}
  <2> SUFFICES ASSUME T # {} PROVE FALSE
    OBVIOUS
  <2> T \in SUBSET Nat
    BY <1>1
  <2>1. PICK m \in T : \A k \in T : m <= k
    BY Least
  <2>2. CASE m = 0
    BY <1>1, <1>2, <2>1, <2>2
  <2>3. CASE m # 0
    <3>1. m - 1 \in 0..n /\ m \in 1..n /\ m - 1 \notin T
      BY <1>1, <2>1, <2>3
    <3>2. sum[m - 1] \in Nat /\ s[m] \in Nat
      BY <1>1, <3>1
    <3>3. sum[m] = sum[m - 1] + s[m]
      BY <1>2, <3>1
    <3>4. QED
      BY <2>1, <3>2, <3>3
  <2>4. QED
    BY <2>2, <2>3
<1>5. QED
  BY <1>1, <1>3, <1>4

-----------------------------------------------------------------------------
(* Matrices and their caches *)

\* The sizes of shapes.
LEMMA SizeType ==
  ASSUME NEW r \in Dims \X Dims
  PROVE  Size(r) \in Nat \ {0}
<1>1. r[1] \in Nat /\ r[2] \in Nat /\ r[1] > 0 /\ r[2] > 0
  BY DEF Dims
<1>2. \A x, y \in Nat : x > 0 /\ y > 0 => x * y \in Nat /\ x * y > 0
  OBVIOUS
<1>3. QED
  BY <1>1, <1>2 DEF Size

\* A function on 1..n is a sequence of that length.
LEMMA FunctionIsSeq ==
  ASSUME NEW S, NEW n \in Nat, NEW f \in [1..n -> S]
  PROVE  f \in Seq(S) /\ Len(f) = n
<1>1. f \in Seq(S)
  BY SeqDef
<1>2. 1..Len(f) = 1..n /\ Len(f) \in Nat
  BY <1>1, LenProperties
<1>3. QED
  BY <1>2

\* The numbers of some cells.
LEMMA ValuesFacts ==
  ASSUME NEW data \in Seq(MatrixCells)
  PROVE  /\ Values(data) \in Seq(Nat) /\ Len(Values(data)) = Len(data)
         /\ DOMAIN Values(data) = 1..Len(data) /\ DOMAIN data = 1..Len(data)
         /\ \A i \in 1..Len(data) : Values(data)[i] = data[i].val
<1>1. Len(data) \in Nat /\ DOMAIN data = 1..Len(data) /\ \A i \in 1..Len(data) : data[i] \in MatrixCells
  BY LenProperties, ElementOfSeq
<1>2. Values(data) \in [1..Len(data) -> Nat]
  BY <1>1 DEF Values, MatrixCells
<1>3. QED
  BY <1>1, <1>2, FunctionIsSeq DEF Values

\* What a cache that is typed hands out has as many numbers as the matrix.
LEMMA NumbersFacts ==
  ASSUME NEW data \in Seq(MatrixCells), NEW c \in Caches
  PROVE  /\ Numbers(c, data) \in Seq(Nat) /\ Len(Numbers(c, data)) = Len(data)
         /\ CacheInv(c, data) => Numbers(c, data) = Values(data)
<1>1. Numbers(c, data) \in Seq(Nat) /\ Len(Numbers(c, data)) = Len(data)
  BY ValuesFacts DEF Numbers, HasDense, Caches
<1>2. ASSUME CacheInv(c, data), HasDense(c, data) PROVE c.promoted = Values(data)
  <2>1. c.materialized = c.version /\ c.version # None /\ c.plan = "PackedDouble"
        /\ Len(c.promoted) = Len(data)
    BY <1>2 DEF HasDense, Caches, None
  <2>2. c # [Cold EXCEPT !.version = c.version]
    BY <2>1 DEF Cold, ColdInv
  <2>3. c.promoted \in {<<>>, Values(data)}
    BY <1>2, <2>1, <2>2 DEF CacheInv, ColdInv, PlannedInv
  <2>4. CASE c.promoted = <<>>
    <3>1. Len(data) = 0
      BY <2>1, <2>4
    <3>2. Len(Values(data)) = 0 /\ Values(data) \in Seq(Nat)
      BY <3>1, ValuesFacts
    <3>3. QED
      BY <2>4, <3>2, EmptySeq
  <2>5. QED
    BY <2>3, <2>4
<1>3. QED
  BY <1>1, <1>2 DEF Numbers

\* The plan of some cells is one of three, the first for ints only.
LEMMA PlanFacts ==
  ASSUME NEW data
  PROVE  /\ ChooseMatrixPlan(data) \in {"PackedInt", "PackedDouble", "PromotedPackedDouble"}
         /\ ChooseMatrixPlan(data) = "PackedInt" <=> AllInt(data)
BY DEF ChooseMatrixPlan

\* EnsureMatrixPlan gives a cache a plan that is right.
LEMMA EnsureFacts ==
  ASSUME NEW data \in Seq(MatrixCells), NEW c \in Caches
  PROVE  LET p == EnsureMatrixPlan(c, data)
         IN  /\ p \in Caches /\ p.version = c.version
             /\ CacheInv(c, data) => PlannedInv(p, data)
<1> DEFINE new == [c EXCEPT !.plan = ChooseMatrixPlan(data), !.live = TRUE,
                            !.analyzed = c.version, !.materialized = None, !.promoted = <<>>]
<1>1. ChooseMatrixPlan(data) \in Plans /\ ChooseMatrixPlan(data) # "Unknown"
  BY PlanFacts DEF Plans
<1>2. new \in Caches /\ new.version = c.version
  BY <1>1, EmptySeq DEF Caches, Versions
<1>3. CASE c.analyzed = c.version /\ c.plan # "Unknown"
  <2>1. ~ColdInv(c)
    BY <1>3 DEF ColdInv, Cold
  <2>2. QED
    BY <1>3, <2>1 DEF EnsureMatrixPlan, CacheInv
<1>4. CASE ~(c.analyzed = c.version /\ c.plan # "Unknown")
  <2>1. EnsureMatrixPlan(c, data) = new
    BY <1>4 DEF EnsureMatrixPlan
  <2>2. CacheInv(c, data) => c.sumVersion = None
    BY <1>1, <1>4 DEF CacheInv, ColdInv, Cold, PlannedInv
  <2>3. /\ new.live /\ new.analyzed = new.version /\ new.plan = ChooseMatrixPlan(data)
        /\ new.materialized = None /\ new.promoted = <<>> /\ new.sumVersion = c.sumVersion
    BY DEF Caches
  <2> HIDE DEF new
  <2>4. CacheInv(c, data) => PlannedInv(new, data)
    BY <2>2, <2>3 DEF PlannedInv
  <2>5. QED
    BY <1>2, <2>1, <2>4
<1>5. QED
  BY <1>3, <1>4

\* MaterializeIfNeeded packs the cells of a promoted matrix.
LEMMA MaterializeFacts ==
  ASSUME NEW data \in Seq(MatrixCells), NEW c \in Caches
  PROVE  LET p == MaterializeIfNeeded(c, data)
         IN  /\ p \in Caches /\ p.version = c.version /\ p.plan = c.plan
             /\ PlannedInv(c, data) => PlannedInv(p, data) /\ p.materialized # None
<1> DEFINE packed == IF c.plan = "PromotedPackedDouble" THEN c.promoted \o Values(data)
                     ELSE c.promoted
           new == [c EXCEPT !.materialized = c.version, !.promoted = packed]
<1>1. packed \in Seq(Nat)
  BY ValuesFacts, ConcatProperties DEF Caches
<1>2. c.promoted = <<>> =>
         packed = IF c.plan = "PromotedPackedDouble" THEN Values(data) ELSE <<>>
  BY ValuesFacts, ConcatEmptySeq
<1>3. CASE c.materialized = c.version
  BY <1>3 DEF MaterializeIfNeeded, Caches, None
<1>4. CASE c.materialized # c.version
  <2>1. MaterializeIfNeeded(c, data) = new
    BY <1>4 DEF MaterializeIfNeeded
  <2>2. PlannedInv(c, data) => c.promoted = <<>>
    BY <1>4 DEF PlannedInv
  <2> HIDE DEF packed
  <2>3. new \in Caches
    BY <1>1 DEF Caches, Versions
  <2>4. /\ new.version = c.version /\ new.plan = c.plan /\ new.materialized = c.version
        /\ new.promoted = packed /\ new.live = c.live /\ new.analyzed = c.analyzed
        /\ new.sumVersion = c.sumVersion /\ new.sum = c.sum /\ new.sumIsInt = c.sumIsInt
        /\ c.version # None
    BY DEF Caches, None
  <2> HIDE DEF new
  <2>5. PlannedInv(c, data) => PlannedInv(new, data) /\ new.materialized # None
    BY <1>2, <2>2, <2>4 DEF PlannedInv
  <2>6. QED
    BY <2>1, <2>3, <2>4, <2>5
<1>5. QED
  BY <1>3, <1>4

\* What reduce_sum answers, and the cache it leaves.
LEMMA ReduceSumFacts ==
  ASSUME NEW data \in Seq(MatrixCells), NEW c \in Caches
  PROVE  LET r == ReduceSumOf(c, data)
         IN  /\ r.cache \in Caches /\ r.cache.version = c.version
             /\ CacheInv(c, data) => /\ CacheInv(r.cache, data)
                                     /\ r.val = Total(Values(data)) /\ (r.int <=> AllInt(data))
<1>1. CASE c.sumVersion = c.version
  <2>1. ReduceSumOf(c, data) = [cache |-> c, int |-> c.sumIsInt, val |-> c.sum]
    BY <1>1 DEF ReduceSumOf
  <2>2. ASSUME CacheInv(c, data)
        PROVE  c.sum = Total(Values(data)) /\ (c.sumIsInt <=> AllInt(data))
    <3>1. c.sumVersion # None
      BY <1>1 DEF Caches, None
    <3>2. ~ColdInv(c)
      BY <3>1 DEF ColdInv, Cold
    <3>3. QED
      BY <2>2, <3>1, <3>2 DEF CacheInv, PlannedInv
  <2>3. QED
    BY <2>1, <2>2
<1>2. CASE c.sumVersion # c.version
  <2> DEFINE p == MaterializeIfNeeded(EnsureMatrixPlan(c, data), data)
             isInt == p.plan = "PackedInt"
             total == Total(CASE p.plan = "PackedInt" -> Values(data)
                              [] p.plan = "PackedDouble" -> Numbers(p, data)
                              [] OTHER -> p.promoted)
             new == [p EXCEPT !.sumVersion = p.version, !.sum = total, !.sumIsInt = isInt]
  <2>1. ReduceSumOf(c, data) = [cache |-> new, int |-> isInt, val |-> total]
    BY <1>2 DEF ReduceSumOf
  <2>2. p \in Caches /\ p.version = c.version
        /\ (CacheInv(c, data) => PlannedInv(p, data) /\ p.materialized # None)
    BY EnsureFacts, MaterializeFacts
  <2> HIDE DEF p
  <2>3. total \in Nat
    <3>1. Values(data) \in Seq(Nat) /\ Numbers(p, data) \in Seq(Nat) /\ p.promoted \in Seq(Nat)
      BY <2>2, ValuesFacts, NumbersFacts DEF Caches
    <3>2. QED
      BY <3>1, TotalType
  <2>4. CacheInv(c, data) => total = Total(Values(data)) /\ (isInt <=> AllInt(data))
    <3> SUFFICES ASSUME CacheInv(c, data)
                 PROVE  total = Total(Values(data)) /\ (isInt <=> AllInt(data))
      OBVIOUS
    <3>1. PlannedInv(p, data) /\ p.materialized # None
      BY <2>2
    <3>2. p.plan = ChooseMatrixPlan(data)
      BY <3>1 DEF PlannedInv
    <3>3. p.plan = "PackedDouble" => Numbers(p, data) = Values(data)
      BY <2>2, <3>1, NumbersFacts DEF CacheInv
    <3>4. p.plan = "PromotedPackedDouble" => p.promoted = Values(data)
      BY <3>1 DEF PlannedInv
    <3>5. QED
      BY <3>2, <3>3, <3>4, PlanFacts
  <2> HIDE DEF total, isInt
  <2>5. new \in Caches
    BY <2>2, <2>3 DEF Caches, Versions, isInt
  <2>6. /\ new.version = p.version /\ new.plan = p.plan /\ new.materialized = p.materialized
        /\ new.promoted = p.promoted /\ new.live = p.live /\ new.analyzed = p.analyzed
        /\ new.sumVersion = p.version /\ new.sum = total /\ new.sumIsInt = isInt
    BY <2>2 DEF Caches
  <2> HIDE DEF new
  <2>7. CacheInv(c, data) => PlannedInv(new, data)
    BY <2>2, <2>4, <2>6 DEF PlannedInv
  <2>8. QED
    BY <2>1, <2>2, <2>4, <2>5, <2>6, <2>7 DEF CacheInv
<1>3. QED
  BY <1>1, <1>2

\* The cells of a result and the cache it is born with.
LEMMA ResultFacts ==
  ASSUME NEW s \in Seq(Nat), Len(s) # 0, \A i \in DOMAIN s : s[i] <= MaxValue,
         NEW isInt \in BOOLEAN
  PROVE  LET data == IF isInt THEN [i \in DOMAIN s |-> [int |-> TRUE, val |-> s[i]]] ELSE Doubles(s)
         IN  /\ data \in Seq(MatrixCells) /\ Len(data) = Len(s)
             /\ ResultCache(s, isInt) \in Caches /\ ResultCache(s, isInt).version = 0
             /\ CacheInv(ResultCache(s, isInt), data)
<1> DEFINE data == [i \in 1..Len(s) |-> [int |-> isInt, val |-> s[i]]]
           c == ResultCache(s, isInt)
<1>1. /\ DOMAIN s = 1..Len(s) /\ Len(s) \in Nat \ {0} /\ s \in [1..Len(s) -> Nat]
      /\ \A i \in 1..Len(s) : s[i] \in 0..MaxValue
  BY LenProperties
<1>2. data = IF isInt THEN [i \in DOMAIN s |-> [int |-> TRUE, val |-> s[i]]] ELSE Doubles(s)
  BY <1>1 DEF Doubles
<1>3. data \in Seq(MatrixCells) /\ Len(data) = Len(s) /\ DOMAIN data = 1..Len(s)
  <2>1. data \in [1..Len(s) -> MatrixCells]
    BY <1>1 DEF MatrixCells
  <2>2. QED
    BY <1>1, <2>1, FunctionIsSeq
<1>4. Values(data) = s
  BY <1>1 DEF Values
<1>5. 1 \in DOMAIN data
  BY <1>1
<1>6. (AllInt(data) <=> isInt) /\ ChooseMatrixPlan(data) = IF isInt THEN "PackedInt" ELSE "PackedDouble"
  BY <1>5 DEF AllInt, ChooseMatrixPlan
<1> HIDE DEF data
<1>7. /\ c.plan = IF isInt THEN "PackedInt" ELSE "PackedDouble"
      /\ c.version = 0 /\ c.live /\ c.analyzed = 0 /\ c.materialized = IF isInt THEN None ELSE 0
      /\ c.promoted = IF isInt THEN <<>> ELSE s
      /\ c.sumVersion = 0 /\ c.sum = Total(s) /\ c.sumIsInt = isInt
  BY DEF ResultCache, Cold
<1>8. c \in Caches
  <2>1. Total(s) \in Nat /\ <<>> \in Seq(Nat)
    BY TotalType, EmptySeq
  <2>2. QED
    BY <2>1 DEF ResultCache, Cold, Caches, Versions, Plans, None
<1> HIDE DEF c
<1>9. PlannedInv(c, data)
  BY <1>4, <1>6, <1>7 DEF PlannedInv, None
<1>10. QED
  BY <1>2, <1>3, <1>7, <1>8, <1>9 DEF CacheInv, c

-----------------------------------------------------------------------------
(* The caches of matmul *)

\* Up to three numbers are what their probe says.
LEMMA UnprobedFacts ==
  ASSUME NEW s \in Seq(Nat), Len(s) \in 1..3
  PROVE  /\ Unprobed(Probe(s), Len(s)) = s
         /\ \A t \in Seq(Nat) : Len(t) = Len(s) /\ Probe(t) = Probe(s) => t = s
<1>1. \A t \in Seq(Nat) : Len(t) = Len(s) => Unprobed(Probe(t), Len(t)) = t
  <2> TAKE t \in Seq(Nat)
  <2> HAVE Len(t) = Len(s)
  <2>1. t = [i \in 1..Len(t) |-> t[i]]
    BY LenProperties
  <2>2. Probe(t) = <<t[1], t[Len(t) \div 2 + 1], t[Len(t)]>>
    BY DEF Probe
  <2>3. \A i \in 1..Len(t) :
           t[i] = IF i = 1 THEN Probe(t)[1] ELSE IF i = Len(t) THEN Probe(t)[3] ELSE Probe(t)[2]
    <3>1. CASE Len(t) = 1
      BY <2>2, <3>1
    <3>2. CASE Len(t) = 2
      BY <2>2, <3>2
    <3>3. CASE Len(t) = 3
      <4>1. Len(t) \div 2 + 1 = 2
        BY <3>3
      <4>2. QED
        BY <2>2, <3>3, <4>1
    <3>4. Len(t) = 1 \/ Len(t) = 2 \/ Len(t) = 3
      OBVIOUS
    <3>5. QED
      BY <3>1, <3>2, <3>3, <3>4
  <2>4. QED
    BY <2>1, <2>3 DEF Unprobed
<1>2. QED
  BY <1>1

\* acquire_packed_matrix hands out as many numbers as the matrix has, and up to
\* three are the right ones.
LEMMA AcquireFacts ==
  ASSUME NEW store, PackInv(store), NEW v \in Vars, IsMatrix(Matrix(v)), var[v].cache \in Caches,
         NEW transpose, NEW f32
  PROVE  LET r == Acquire(store, v, transpose, f32)
             s == Numbers(var[v].cache, Matrix(v).data)
         IN  /\ PackInv(r.store)
             /\ r.packed \in Seq(Nat) /\ Len(r.packed) = Len(s)
             /\ Len(s) <= 3 => r.packed = s
<1> DEFINE c == var[v].cache
           data == Matrix(v).data
           s == Numbers(c, data)
           key == PackKey(v, transpose, f32)
           r == Acquire(store, v, transpose, f32)
           stored == [k \in DOMAIN store \cup {key} |->
                        IF k = key THEN [probe |-> Probe(s), packed |-> s] ELSE store[k]]
<1>1. s \in Seq(Nat) /\ Len(s) = Size(Matrix(v).shape) /\ Matrix(v).shape \in Dims \X Dims
      /\ data \in Seq(MatrixCells) /\ Len(s) \in Nat \ {0}
  <2>1. data \in Seq(MatrixCells) /\ Len(data) = Size(Matrix(v).shape) /\ Matrix(v).shape \in Dims \X Dims
    BY DEF IsMatrix
  <2>2. QED
    BY <2>1, NumbersFacts, SizeType
<1>2. key[2] = Matrix(v).shape
  BY DEF PackKey
<1>3. r = IF ~transpose /\ ~f32 /\ HasDense(c, data) THEN [store |-> store, packed |-> c.promoted]
          ELSE IF key \in DOMAIN store /\ store[key].probe = Probe(s)
          THEN [store |-> store, packed |-> store[key].packed]
          ELSE [store |-> stored, packed |-> s]
  BY DEF Acquire
<1>4. HasDense(c, data) => c.promoted = s
  BY DEF Numbers
<1> HIDE DEF s, key, r, data, c
<1>5. CASE r = [store |-> store, packed |-> s]
  BY <1>1, <1>5 DEF r, s, c, data
<1>6. CASE /\ key \in DOMAIN store /\ store[key].probe = Probe(s)
           /\ r = [store |-> store, packed |-> store[key].packed]
  <2> DEFINE p == store[key].packed
  <2>1. p \in Seq(Nat) /\ Len(p) = Len(s) /\ Probe(p) = Probe(s)
    BY <1>1, <1>2, <1>6 DEF PackInv
  <2>2. Len(s) <= 3 => p = s
    <3> SUFFICES ASSUME Len(s) <= 3 PROVE p = s
      OBVIOUS
    <3>1. Len(s) \in 1..3
      BY <1>1
    <3> HIDE DEF p
    <3>2. \A t \in Seq(Nat) : Len(t) = Len(s) /\ Probe(t) = Probe(s) => t = s
      BY <1>1, <3>1, UnprobedFacts
    <3>3. QED
      BY <2>1, <3>2
  <2> HIDE DEF p
  <2>3. r.store = store /\ r.packed = p
    BY <1>6 DEF p
  <2>4. QED
    BY <2>1, <2>2, <2>3 DEF r, s, c, data
<1>7. CASE r = [store |-> stored, packed |-> s]
  <2>1. PackInv(stored)
    BY <1>1, <1>2 DEF PackInv
  <2>2. r.store = stored /\ r.packed = s
    BY <1>7
  <2>3. QED
    BY <1>1, <2>1, <2>2 DEF r, s, c, data
<1>8. QED
  BY <1>3, <1>4, <1>5, <1>6, <1>7

\* Where the numbers of a cell of the product are.
LEMMA Indices ==
  ASSUME NEW r \in Nat \ {0}, NEW k \in Nat \ {0}, NEW n \in Nat \ {0},
         NEW i \in 1..(r * n), NEW j \in 1..k
  PROVE  /\ ((i - 1) \div n) * k + j \in 1..(r * k)
         /\ (j - 1) * n + ((i - 1) % n) + 1 \in 1..(k * n)
<1> DEFINE q == (i - 1) \div n
           m == (i - 1) % n
<1>1. q \in Nat /\ m \in 0..(n - 1) /\ i - 1 = q * n + m
  OBVIOUS
<1> HIDE DEF q, m
<1>2. q < r
  <2> SUFFICES ASSUME q >= r PROVE FALSE
    BY <1>1
  <2>1. q * n >= r * n
    BY <1>1
  <2>2. r * n \in Nat /\ q * n \in Nat
    BY <1>1
  <2>3. i - 1 < r * n /\ i - 1 >= q * n
    BY <1>1, <2>2
  <2>4. QED
    BY <1>1, <2>1, <2>2, <2>3
<1>3. q * k + j \in 1..(r * k)
  <2>1. (r - q) \in Nat /\ r - q >= 1
    BY <1>1, <1>2
  <2>2. (r - q) * k >= k
    BY <2>1
  <2>3. r * k = q * k + (r - q) * k
    BY <1>1
  <2>4. q * k \in Nat
    BY <1>1
  <2>5. QED
    BY <2>2, <2>3, <2>4, <2>1
<1>4. (j - 1) * n + m + 1 \in 1..(k * n)
  <2>1. (k - j) \in Nat /\ (k - j) * n \in Nat /\ (j - 1) * n \in Nat
    OBVIOUS
  <2>2. k * n = (j - 1) * n + (k - j) * n + n
    OBVIOUS
  <2>3. QED
    BY <1>1, <2>1, <2>2
<1>5. QED
  BY <1>3, <1>4 DEF q, m

\* A product of numbers is made of numbers.
LEMMA ProductFacts ==
  ASSUME NEW r \in Dims \X Dims, NEW s \in Dims \X Dims, r[2] = s[1],
         NEW a \in Seq(Nat), Len(a) = Size(r), NEW b \in Seq(Nat), Len(b) = Size(s)
  PROVE  ProductOf(r, s, a, b) \in Seq(Nat) /\ Len(ProductOf(r, s, a, b)) = r[1] * s[2]
<1> DEFINE k == r[2]
           n == s[2]
           p(i, j) == a[((i - 1) \div n) * k + j] * b[(j - 1) * n + ((i - 1) % n) + 1]
           row(i) == [j \in 1..k |-> p(i, j)]
<1>1. r[1] \in Nat \ {0} /\ k \in Nat \ {0} /\ n \in Nat \ {0} /\ r[1] * n \in Nat
  BY DEF Dims
<1>2. \A i \in 1..Len(a) : a[i] \in Nat
  OBVIOUS
<1>3. \A i \in 1..Len(b) : b[i] \in Nat
  OBVIOUS
<1>4. Len(a) = r[1] * k /\ Len(b) = k * n
  BY DEF Size
<1>5. ASSUME NEW i \in 1..(r[1] * n) PROVE Total(row(i)) \in Nat
  <2>1. ASSUME NEW j \in 1..k PROVE p(i, j) \in Nat
    <3>1. /\ ((i - 1) \div n) * k + j \in 1..(r[1] * k)
          /\ (j - 1) * n + ((i - 1) % n) + 1 \in 1..(k * n)
      BY <1>1, Indices
    <3>2. /\ a[((i - 1) \div n) * k + j] \in Nat
          /\ b[(j - 1) * n + ((i - 1) % n) + 1] \in Nat
      BY <1>2, <1>3, <1>4, <3>1
    <3>3. \A x, y \in Nat : x * y \in Nat
      OBVIOUS
    <3>4. QED
      BY <3>2, <3>3
  <2> HIDE DEF p
  <2>2. row(i) \in [1..k -> Nat]
    BY <2>1
  <2>3. row(i) \in Seq(Nat)
    BY <1>1, <2>2, FunctionIsSeq
  <2>4. QED
    BY <2>3, TotalType
<1>6. ProductOf(r, s, a, b) = [i \in 1..(r[1] * n) |-> Total(row(i))]
  BY DEF ProductOf
<1> HIDE DEF row, n
<1>7. ProductOf(r, s, a, b) \in [1..(r[1] * n) -> Nat]
  BY <1>5, <1>6
<1>8. QED
  BY <1>1, <1>7, FunctionIsSeq DEF n

\* A kernel keeps what it packs, and multiplies the numbers of small matrices.
LEMMA KernelFacts ==
  ASSUME PackInv(packs), NEW x \in Vars, NEW y \in Vars, IsMatrix(Matrix(x)), IsMatrix(Matrix(y)),
         var[x].cache \in Caches, var[y].cache \in Caches, Fits(x, y), NEW f32, NEW transpose
  PROVE  LET run == Kernel(x, y, f32, transpose)
             nx == Numbers(var[x].cache, Matrix(x).data)
             ny == Numbers(var[y].cache, Matrix(y).data)
         IN  /\ PackInv(run.store)
             /\ run.out \in Seq(Nat) /\ Len(run.out) = Rows(x) * Cols(y)
             /\ Len(nx) <= 3 /\ Len(ny) <= 3 =>
                   run.out = ProductOf(Matrix(x).shape, Matrix(y).shape, nx, ny)
<1> DEFINE a == Acquire(packs, x, FALSE, f32)
           b == Acquire(a.store, y, transpose, f32)
           r == Matrix(x).shape
           s == Matrix(y).shape
           nx == Numbers(var[x].cache, Matrix(x).data)
           ny == Numbers(var[y].cache, Matrix(y).data)
<1>1. PackInv(a.store) /\ a.packed \in Seq(Nat) /\ Len(a.packed) = Len(nx)
      /\ (Len(nx) <= 3 => a.packed = nx)
  BY AcquireFacts
<1>2. PackInv(b.store) /\ b.packed \in Seq(Nat) /\ Len(b.packed) = Len(ny)
      /\ (Len(ny) <= 3 => b.packed = ny)
  <2>1. PackInv(a.store) /\ IsMatrix(Matrix(y)) /\ var[y].cache \in Caches
    BY <1>1
  <2> HIDE DEF a
  <2>2. QED
    BY <2>1, AcquireFacts
<1>3. r \in Dims \X Dims /\ s \in Dims \X Dims /\ Len(nx) = Size(r) /\ Len(ny) = Size(s) /\ r[2] = s[1]
  <2>1. Matrix(x).data \in Seq(MatrixCells) /\ Matrix(y).data \in Seq(MatrixCells)
    BY DEF IsMatrix
  <2>2. QED
    BY <2>1, NumbersFacts DEF IsMatrix, Fits, Rows, Cols
<1>4. Kernel(x, y, f32, transpose) = [store |-> b.store, out |-> ProductOf(r, s, a.packed, b.packed)]
  BY DEF Kernel, Product, ProductOf, Rows, Cols
<1> HIDE DEF a, b, nx, ny
<1>5. ProductOf(r, s, a.packed, b.packed) \in Seq(Nat)
      /\ Len(ProductOf(r, s, a.packed, b.packed)) = r[1] * s[2]
  <2> DEFINE p == a.packed
             q == b.packed
  <2>1. p \in Seq(Nat) /\ Len(p) = Size(r) /\ q \in Seq(Nat) /\ Len(q) = Size(s)
        /\ r \in Dims \X Dims /\ s \in Dims \X Dims /\ r[2] = s[1]
    BY <1>1, <1>2, <1>3
  <2> HIDE DEF p, q, r, s
  <2>2. ProductOf(r, s, p, q) \in Seq(Nat) /\ Len(ProductOf(r, s, p, q)) = r[1] * s[2]
    BY <2>1, ProductFacts
  <2>3. QED
    BY <2>2 DEF p, q
<1>6. Kernel(x, y, f32, transpose).store = b.store
      /\ Kernel(x, y, f32, transpose).out = ProductOf(r, s, a.packed, b.packed)
  BY <1>4
<1>7. QED
  BY <1>1, <1>2, <1>5, <1>6 DEF nx, ny, Rows, Cols

\* A number below Coarse is printed as it is, and no other one is printed so.
LEMMA PrintedFacts ==
  ASSUME MatrixParameters, NEW n \in Nat
  PROVE  /\ n < Coarse => Printed(n) = n
         /\ Printed(n) < Coarse => n < Coarse
<1>1. Coarse \in Nat /\ Step \in Nat \ {0} /\ Coarse % Step = 0
  BY DEF MatrixParameters
<1>2. ASSUME n >= Coarse PROVE Printed(n) >= Coarse
  <2> DEFINE h == Step \div 2
             q == (n + h) \div Step
             c == Coarse \div Step
  <2>1. h \in Nat
    BY <1>1
  <2>2. c \in Nat /\ Coarse = c * Step
    BY <1>1
  <2> HIDE DEF h
  <2>3. q \in Nat /\ n + h < (q + 1) * Step
    BY <1>1, <2>1
  <2> HIDE DEF q, c
  <2>4. q >= c
    <3> SUFFICES ASSUME q + 1 <= c PROVE FALSE
      BY <2>2, <2>3
    <3>1. (q + 1) * Step <= c * Step
      BY <1>1, <2>2, <2>3
    <3>2. (q + 1) * Step \in Nat /\ c * Step \in Nat
      BY <1>1, <2>2, <2>3
    <3>3. QED
      BY <1>1, <1>2, <2>1, <2>2, <2>3, <3>1, <3>2
  <2>5. q * Step >= c * Step
    BY <1>1, <2>2, <2>3, <2>4
  <2>6. Printed(n) = q * Step
    BY <1>1, <1>2 DEF Printed, q, h
  <2>7. QED
    BY <2>2, <2>5, <2>6
<1>3. n < Coarse => Printed(n) = n
  BY DEF Printed
<1>4. Printed(n) \in Int
  BY <1>1 DEF Printed
<1>5. Printed(n) < Coarse => n < Coarse
  BY <1>1, <1>2, <1>4
<1>6. QED
  BY <1>3, <1>5

\* What the numbers in the text of a key say of up to three numbers.
LEMMA PartFacts ==
  ASSUME MatrixParameters, NEW s \in Seq(Nat), Len(s) \in 1..3
  PROVE  /\ (\A i \in 1..3 : PrintedProbe(s)[i] < Coarse) => Unprobed(PrintedProbe(s), Len(s)) = s
         /\ (\A i \in 1..Len(s) : s[i] < Coarse) => \A i \in 1..3 : PrintedProbe(s)[i] < Coarse
<1> DEFINE part == PrintedProbe(s)
           mid == Len(s) \div 2 + 1
<1>1. mid \in 1..Len(s) /\ 1 \in 1..Len(s) /\ Len(s) \in 1..Len(s)
  <2> DEFINE n == Len(s)
  <2>1. n \in 1..3
    OBVIOUS
  <2> HIDE DEF n
  <2>2. n \div 2 + 1 \in 1..n /\ 1 \in 1..n /\ n \in 1..n
    BY <2>1
  <2>3. QED
    BY <2>2 DEF n
<1>2. Probe(s)[1] = s[1] /\ Probe(s)[2] = s[mid] /\ Probe(s)[3] = s[Len(s)]
  BY DEF Probe
<1>3. part[1] = Printed(s[1]) /\ part[2] = Printed(s[mid]) /\ part[3] = Printed(s[Len(s)])
  BY <1>2 DEF PrintedProbe
<1>4. s[1] \in Nat /\ s[mid] \in Nat /\ s[Len(s)] \in Nat
  BY <1>1
<1> HIDE DEF part, mid
<1>5. ASSUME \A i \in 1..3 : part[i] < Coarse PROVE Unprobed(part, Len(s)) = s
  <2>1. part[1] = s[1] /\ part[2] = s[mid] /\ part[3] = s[Len(s)]
    BY <1>3, <1>4, <1>5, PrintedFacts
  <2>2. part[1] = Probe(s)[1] /\ part[2] = Probe(s)[2] /\ part[3] = Probe(s)[3]
    BY <1>2, <2>1
  <2>3. Unprobed(part, Len(s)) = Unprobed(Probe(s), Len(s))
    BY <2>2 DEF Unprobed
  <2>4. QED
    BY <2>3, UnprobedFacts
<1>6. ASSUME \A i \in 1..Len(s) : s[i] < Coarse PROVE \A i \in 1..3 : part[i] < Coarse
  <2>1. s[1] < Coarse /\ s[mid] < Coarse /\ s[Len(s)] < Coarse
    BY <1>1, <1>6
  <2>2. part[1] < Coarse /\ part[2] < Coarse /\ part[3] < Coarse
    BY <1>3, <1>4, <2>1, PrintedFacts
  <2>3. QED
    BY <2>2
<1>7. QED
  BY <1>5, <1>6 DEF part

-----------------------------------------------------------------------------
(* Steps *)

\* Sums stay true when matrices are only born where none lived, or freed.
LEMMA SumKept ==
  ASSUME SumInv, sums' = sums,
         \A a \in Addrs : births[a] # 0 =>
            /\ births'[a] # 0
            /\ births'[a] = 1 => births[a] = 1 /\ heap'[a].shape \in {heap[a].shape, <<0, 0>>}
  PROVE  SumInv'
<1>1. ASSUME NEW k \in DOMAIN sums
      PROVE  /\ k[2][1] \in Addrs /\ births[k[2][1]] # 0
             /\ k[3][1] \in Addrs /\ births[k[3][1]] # 0
             /\ SumTrue(k[2], k[3], sums[k])
  BY DEF SumInv
<1>2. \A m : Size(heap'[m].shape) \in 1..3 => heap'[m].shape # <<0, 0>>
  BY DEF Size
<1>3. ASSUME NEW k \in DOMAIN sums PROVE SumTrue(k[2], k[3], sums[k])'
  <2> DEFINE p == k[2][1]
             q == k[3][1]
  <2>1. p \in Addrs /\ q \in Addrs /\ births[p] # 0 /\ births[q] # 0
    BY <1>1
  <2>2. SUFFICES ASSUME births'[p] = 1, births'[q] = 1,
                        Size(heap'[p].shape) \in 1..3, Size(heap'[q].shape) \in 1..3,
                        \A i \in 1..3 : k[2][3][i] < Coarse /\ k[3][3][i] < Coarse
                 PROVE  sums[k] = Total(ProductOf(heap'[p].shape, heap'[q].shape,
                                          Unprobed(k[2][3], Size(heap'[p].shape)),
                                          Unprobed(k[3][3], Size(heap'[q].shape))))
    BY DEF SumTrue
  <2>3. births[p] = 1 /\ births[q] = 1 /\ heap'[p].shape = heap[p].shape
        /\ heap'[q].shape = heap[q].shape
    BY <1>2, <2>1, <2>2
  <2>4. SumTrue(k[2], k[3], sums[k])
    BY <1>1
  <2>5. QED
    BY <2>2, <2>3, <2>4 DEF SumTrue
<1>4. QED
  BY <1>1, <1>3 DEF SumInv

\* What a step that leaves a variable and its matrix alone keeps.
LEMMA VarKept ==
  ASSUME NEW u \in Vars, VarInv(u), var'[u] = var[u], heap'[var[u].at] = heap[var[u].at],
         births'[var[u].at] # 0, ~foreign'[u] => ~foreign[u],
         ops \in Nat, ops' = ops + 1
  PROVE  VarInv(u)'
<1>1. Matrix(u)' = Matrix(u)
  BY DEF Matrix
<1>2. var[u].cache.version \in Nat /\ var[u].cache.version <= ops
  BY DEF VarInv, Caches
<1>3. var[u].cache.version <= ops'
  BY <1>2
<1>4. QED
  BY <1>1, <1>3 DEF VarInv

\* A variable gets a new matrix.
LEMMA BindNewStep ==
  ASSUME MatrixParameters, DataInv, SumInv, ops' = ops + 1, ops < MaxOps, sums' = sums,
         NEW v \in Vars, NEW matrix, IsMatrix(matrix),
         NEW cache \in Caches, cache.version = 0, CacheInv(cache, matrix.data),
         BindNew(v, matrix, cache)
  PROVE  DataInv' /\ SumInv'
<1>1. PICK a \in Fresh :
          /\ Bind(v, a, cache, [heap EXCEPT ![a] = matrix])
          /\ births' = [births EXCEPT ![a] = IF @ = 2 THEN 2 ELSE @ + 1]
          /\ foreign' = [foreign EXCEPT ![v] = FALSE]
  BY DEF BindNew
<1>2. a \in Addrs /\ \A u \in Vars : var[u].at # a
  BY DEF Fresh
<1>3. DOMAIN heap = Addrs /\ DOMAIN var = Vars /\ births \in [Addrs -> 0..2]
      /\ foreign \in [Vars -> BOOLEAN] /\ ops \in Nat /\ ops' \in 0..MaxOps
  BY DEF DataInv, MatrixParameters
<1>4. /\ DOMAIN var' = Vars /\ var'[v] = [at |-> a, cache |-> cache]
      /\ \A u \in Vars : u # v => var'[u] = var[u]
  BY <1>1, <1>3 DEF Bind
<1>5. /\ DOMAIN heap' = Addrs /\ heap'[a] = matrix
      /\ \A b \in Addrs : b # a => heap'[b] \in {heap[b], NoMatrix}
      /\ \A u \in Vars : u # v /\ var[u].at \in Addrs => heap'[var[u].at] = heap[var[u].at]
  <2> DEFINE h == [heap EXCEPT ![a] = matrix]
  <2>1. heap' = [b \in Addrs |-> IF \E u \in Vars : var'[u].at = b THEN h[b] ELSE NoMatrix]
    BY <1>1 DEF Bind
  <2>2. h[a] = matrix /\ \A b \in Addrs : b # a => h[b] = heap[b]
    BY <1>2, <1>3
  <2> HIDE DEF h
  <2>3. var'[v].at = a
    BY <1>4
  <2>4. QED
    BY <1>2, <1>4, <2>1, <2>2, <2>3
<1>6. /\ births' \in [Addrs -> 0..2] /\ births'[a] # 0
      /\ \A b \in Addrs : births[b] # 0 => births'[b] # 0 /\ (births'[b] = 1 => births[b] = 1 /\ b # a)
  <2>1. births'[a] = (IF births[a] = 2 THEN 2 ELSE births[a] + 1) /\ births[a] \in 0..2
        /\ \A b \in Addrs : b # a => births'[b] = births[b]
    BY <1>1, <1>2, <1>3
  <2>2. births'[a] \in 1..2 /\ (births[a] # 0 => births'[a] = 2)
    BY <2>1
  <2>3. DOMAIN births' = Addrs /\ births' = [b \in Addrs |-> births'[b]]
    BY <1>1, <1>3
  <2>4. \A b \in Addrs : births'[b] \in 0..2
    BY <1>3, <2>1, <2>2
  <2>5. births' \in [Addrs -> 0..2]
    BY <2>3, <2>4
  <2>6. QED
    BY <2>1, <2>2, <2>5
<1>7. foreign' \in [Vars -> BOOLEAN] /\ \A u \in Vars : u # v => foreign'[u] = foreign[u]
  BY <1>1, <1>3
<1>8. VarInv(v)'
  <2>1. Matrix(v)' = matrix
    BY <1>4, <1>5 DEF Matrix
  <2>2. var'[v].cache = cache /\ var'[v].at = a /\ 0 <= ops'
    BY <1>3, <1>4
  <2>3. QED
    BY <1>2, <1>4, <1>6, <2>1, <2>2 DEF VarInv
<1>9. ASSUME NEW u \in Vars, u # v PROVE VarInv(u)'
  <2>1. VarInv(u) /\ var[u].at \in Addrs /\ births[var[u].at] # 0
    BY DEF DataInv, VarInv
  <2>2. heap'[var[u].at] = heap[var[u].at] /\ births'[var[u].at] # 0 /\ var'[u] = var[u]
        /\ foreign'[u] = foreign[u]
    BY <1>4, <1>5, <1>6, <1>7, <1>9, <2>1
  <2>3. QED
    BY <1>3, <2>1, <2>2, VarKept
<1>10. \A b \in Addrs : IsMatrix(heap'[b]) \/ heap'[b] = NoMatrix
  BY <1>5 DEF DataInv
<1>11. DataInv'
  BY <1>3, <1>4, <1>5, <1>6, <1>7, <1>8, <1>9, <1>10 DEF DataInv
<1>12. SumInv'
  <2>1. NoMatrix.shape = <<0, 0>>
    BY DEF NoMatrix
  <2>2. \A b \in Addrs : births[b] # 0 =>
            /\ births'[b] # 0
            /\ births'[b] = 1 => births[b] = 1 /\ heap'[b].shape \in {heap[b].shape, <<0, 0>>}
    BY <1>5, <1>6, <2>1
  <2>3. QED
    BY <2>2, SumKept
<1>13. QED
  BY <1>11, <1>12

\* A cold cache is one, and is true of any cells.
LEMMA ColdFacts ==
  /\ Cold \in Caches /\ Cold.version = 0
  /\ \A c \in Caches : ColdInv(c) => ~c.live
  /\ \A n \in Nat : [Cold EXCEPT !.version = n] \in Caches /\ ColdInv([Cold EXCEPT !.version = n])
<1>1. Cold \in Caches /\ Cold.version = 0
  BY EmptySeq DEF Cold, Caches, Versions, Plans
<1>2. \A c \in Caches : ColdInv(c) => ~c.live
  BY DEF ColdInv, Cold
<1>3. ASSUME NEW n \in Nat
      PROVE  [Cold EXCEPT !.version = n] \in Caches /\ ColdInv([Cold EXCEPT !.version = n])
  BY <1>1 DEF ColdInv, Cold, Caches
<1>4. QED
  BY <1>1, <1>2, <1>3

\* A filled matrix is one.
LEMMA FilledIsMatrix ==
  ASSUME NEW shape \in Dims \X Dims, NEW x \in MatrixCells
  PROVE  IsMatrix(Filled(shape, x))
<1> DEFINE data == [i \in 1..(shape[1] * shape[2]) |-> x]
<1>1. shape[1] * shape[2] \in Nat
  BY SizeType DEF Size
<1>2. data \in [1..(shape[1] * shape[2]) -> MatrixCells]
  OBVIOUS
<1>3. data \in Seq(MatrixCells) /\ Len(data) = Size(shape)
  BY <1>1, <1>2, FunctionIsSeq DEF Size
<1> HIDE DEF data
<1>4. Filled(shape, x) = [shape |-> shape, data |-> data]
  BY DEF Filled, data
<1>5. QED
  BY <1>3, <1>4 DEF IsMatrix

\* Literal keeps what holds.
LEMMA LiteralStep ==
  ASSUME MatrixParameters, DataInv, SumInv, ops' = ops + 1, ops < MaxOps,
         NEW v \in Vars, Literal(v)
  PROVE  DataInv' /\ SumInv' /\ packs' = packs /\ sums' = sums
<1>1. PICK shape \in Shapes, x \in Cells : BindNew(v, Filled(shape, x), Cold)
  BY DEF Literal
<1>2. shape \in Dims \X Dims /\ x \in MatrixCells
  BY DEF MatrixParameters, Dims, MatrixCells
<1>3. IsMatrix(Filled(shape, x))
  BY <1>2, FilledIsMatrix
<1>4. Cold \in Caches /\ Cold.version = 0
  BY ColdFacts
<1>5. CacheInv(Cold, Filled(shape, x).data)
  BY DEF CacheInv, ColdInv, Cold
<1>6. packs' = packs /\ sums' = sums
  BY DEF Literal
<1>7. QED
  BY <1>1, <1>3, <1>4, <1>5, <1>6, BindNewStep

\* Matmul keeps what holds.
LEMMA MatmulStep ==
  ASSUME MatrixParameters, DataInv, SumInv, PackInv(packs), ops' = ops + 1, ops < MaxOps,
         NEW z \in Vars, NEW x \in Vars, NEW y \in Vars, Matmul(z, x, y)
  PROVE  DataInv' /\ SumInv' /\ PackInv(packs') /\ sums' = sums
<1> DEFINE run(f32, transpose) == Kernel(x, y, f32, transpose)
           int(f32) == ~f32 /\ Integral(x) /\ Integral(y)
           cells(s, isInt) == IF isInt THEN [i \in DOMAIN s |-> [int |-> TRUE, val |-> s[i]]]
                              ELSE Doubles(s)
<1>1. PICK f32 \in Modes, transpose \in BOOLEAN :
          /\ \A i \in DOMAIN run(f32, transpose).out : run(f32, transpose).out[i] <= MaxValue
          /\ BindNew(z, [shape |-> <<Rows(x), Cols(y)>>,
                         data |-> cells(run(f32, transpose).out, int(f32))],
                     ResultCache(run(f32, transpose).out, int(f32)))
          /\ packs' = run(f32, transpose).store
  BY DEF Matmul
<1> DEFINE out == run(f32, transpose).out
           isInt == int(f32)
           matrix == [shape |-> <<Rows(x), Cols(y)>>, data |-> cells(out, isInt)]
<1>2. IsMatrix(Matrix(x)) /\ IsMatrix(Matrix(y)) /\ var[x].cache \in Caches /\ var[y].cache \in Caches
  BY DEF DataInv, VarInv
<1>3. Fits(x, y) /\ sums' = sums
  BY DEF Matmul
<1>4. PackInv(run(f32, transpose).store) /\ out \in Seq(Nat) /\ Len(out) = Rows(x) * Cols(y)
  BY <1>2, <1>3, KernelFacts
<1>5. isInt \in BOOLEAN
  OBVIOUS
<1>6. <<Rows(x), Cols(y)>> \in Dims \X Dims /\ Len(out) = Size(<<Rows(x), Cols(y)>>)
  BY <1>2, <1>4 DEF IsMatrix, Rows, Cols, Size
<1>7. Len(out) # 0
  BY <1>6, SizeType
<1>8. \A i \in DOMAIN out : out[i] <= MaxValue
  BY <1>1
<1>9. BindNew(z, matrix, ResultCache(out, isInt))
  BY <1>1
<1> HIDE DEF out, isInt, run, int
<1>10. /\ cells(out, isInt) \in Seq(MatrixCells) /\ Len(cells(out, isInt)) = Len(out)
       /\ ResultCache(out, isInt) \in Caches /\ ResultCache(out, isInt).version = 0
       /\ CacheInv(ResultCache(out, isInt), cells(out, isInt))
  BY <1>4, <1>5, <1>7, <1>8, ResultFacts
<1> HIDE DEF cells
<1>11. IsMatrix(matrix) /\ matrix.data = cells(out, isInt)
  BY <1>6, <1>10 DEF IsMatrix
<1> HIDE DEF matrix
<1>12. DataInv' /\ SumInv'
  BY <1>3, <1>9, <1>10, <1>11, BindNewStep
<1>13. QED
  BY <1>1, <1>3, <1>4, <1>12

\* AddScalar keeps what holds.
LEMMA AddScalarStep ==
  ASSUME MatrixParameters, DataInv, SumInv, ops' = ops + 1, ops < MaxOps,
         NEW z \in Vars, NEW x \in Vars, AddScalar(z, x)
  PROVE  DataInv' /\ SumInv' /\ packs' = packs /\ sums' = sums
<1> DEFINE c == var[x].cache
           data == Matrix(x).data
           shape == Matrix(x).shape
           out == [i \in DOMAIN data |-> Numbers(c, data)[i] + 1]
           ints == [i \in DOMAIN data |-> [int |-> TRUE, val |-> out[i]]]
<1>1. data \in Seq(MatrixCells) /\ shape \in Dims \X Dims /\ Len(data) = Size(shape) /\ c \in Caches
  BY DEF DataInv, VarInv, IsMatrix
<1>2. Len(data) \in Nat /\ Len(data) # 0 /\ DOMAIN data = 1..Len(data)
  BY <1>1, SizeType, LenProperties
<1>3. Numbers(c, data) \in Seq(Nat) /\ Len(Numbers(c, data)) = Len(data)
  BY <1>1, NumbersFacts
<1>4. out \in [1..Len(data) -> Nat]
  <2>1. \A i \in 1..Len(data) : Numbers(c, data)[i] \in Nat
    BY <1>3
  <2>2. QED
    BY <1>2, <2>1
<1>5. out \in Seq(Nat) /\ Len(out) = Len(data)
  BY <1>2, <1>4, FunctionIsSeq
<1>6. /\ \A i \in DOMAIN out : out[i] <= MaxValue
      /\ \/ BindNew(z, [shape |-> shape, data |-> Doubles(out)], ResultCache(out, FALSE))
         \/ BindNew(z, [shape |-> shape, data |-> ints], Cold)
      /\ packs' = packs /\ sums' = sums
  BY DEF AddScalar
<1>7. DOMAIN out = DOMAIN data
  OBVIOUS
<1> HIDE DEF out, c, data, shape
<1>8. CASE BindNew(z, [shape |-> shape, data |-> Doubles(out)], ResultCache(out, FALSE))
  <2> DEFINE matrix == [shape |-> shape, data |-> Doubles(out)]
             cache == ResultCache(out, FALSE)
  <2>1. Len(out) # 0
    BY <1>2, <1>5
  <2>2. /\ Doubles(out) \in Seq(MatrixCells) /\ Len(Doubles(out)) = Len(out)
        /\ cache \in Caches /\ cache.version = 0 /\ CacheInv(cache, Doubles(out))
    BY <1>5, <1>6, <2>1, ResultFacts
  <2>3. IsMatrix(matrix) /\ matrix.data = Doubles(out)
    BY <1>1, <1>5, <2>2 DEF IsMatrix
  <2>4. BindNew(z, matrix, cache)
    BY <1>8
  <2> HIDE DEF matrix, cache
  <2>5. QED
    BY <1>6, <2>2, <2>3, <2>4, BindNewStep
<1>9. CASE BindNew(z, [shape |-> shape, data |-> ints], Cold)
  <2> DEFINE matrix == [shape |-> shape, data |-> ints]
  <2>1. ints \in [1..Len(data) -> MatrixCells]
    <3>1. \A i \in 1..Len(data) : out[i] \in 0..MaxValue
      BY <1>2, <1>4, <1>6, <1>7 DEF MatrixParameters
    <3>2. QED
      BY <1>2, <3>1 DEF MatrixCells
  <2>2. ints \in Seq(MatrixCells) /\ Len(ints) = Len(data)
    BY <1>2, <2>1, FunctionIsSeq
  <2> HIDE DEF ints
  <2>3. IsMatrix(matrix)
    BY <1>1, <2>2 DEF IsMatrix
  <2>4. CacheInv(Cold, matrix.data)
    BY DEF CacheInv, ColdInv, Cold
  <2>5. BindNew(z, matrix, Cold)
    BY <1>9
  <2> HIDE DEF matrix
  <2>6. QED
    BY <1>6, <2>3, <2>4, <2>5, ColdFacts, BindNewStep
<1>10. QED
  BY <1>6, <1>8, <1>9

\* Assign keeps what holds: the cache is copied with the address.
LEMMA AssignStep ==
  ASSUME MatrixParameters, DataInv, SumInv, ops' = ops + 1, ops < MaxOps,
         NEW v \in Vars, NEW u \in Vars, Assign(v, u)
  PROVE  DataInv' /\ SumInv' /\ packs' = packs /\ sums' = sums
<1>1. DOMAIN heap = Addrs /\ DOMAIN var = Vars /\ births \in [Addrs -> 0..2]
      /\ foreign \in [Vars -> BOOLEAN] /\ ops \in Nat /\ ops' \in 0..MaxOps
  BY DEF DataInv, MatrixParameters
<1>2. /\ u # v /\ births' = births /\ packs' = packs /\ sums' = sums
      /\ var' = [var EXCEPT ![v] = [at |-> var[u].at, cache |-> var[u].cache]]
      /\ heap' = [a \in Addrs |-> IF \E w \in Vars : var'[w].at = a THEN heap[a] ELSE NoMatrix]
      /\ foreign' = [foreign EXCEPT ![v] = foreign[u]]
  BY DEF Assign, Bind
<1>3. /\ DOMAIN var' = Vars /\ var'[v] = [at |-> var[u].at, cache |-> var[u].cache]
      /\ \A w \in Vars : w # v => var'[w] = var[w]
  BY <1>1, <1>2
<1>4. /\ DOMAIN heap' = Addrs
      /\ \A b \in Addrs : heap'[b] \in {heap[b], NoMatrix}
      /\ \A w \in Vars : w # v /\ var[w].at \in Addrs => heap'[var[w].at] = heap[var[w].at]
  BY <1>2, <1>3
<1>5. foreign' \in [Vars -> BOOLEAN] /\ foreign'[v] = foreign[u]
      /\ \A w \in Vars : w # v => foreign'[w] = foreign[w]
  BY <1>1, <1>2
<1>6. ASSUME NEW w \in Vars
      PROVE  var[w].at \in Addrs /\ births[var[w].at] # 0 /\ VarInv(w)
             /\ var[w] \in [at : Addrs, cache : Caches]
  BY DEF DataInv, VarInv
<1>7. ASSUME NEW w \in Vars, w # v PROVE VarInv(w)'
  <2>1. heap'[var[w].at] = heap[var[w].at] /\ births'[var[w].at] # 0 /\ var'[w] = var[w]
        /\ foreign'[w] = foreign[w]
    BY <1>2, <1>3, <1>4, <1>5, <1>6, <1>7
  <2>2. QED
    BY <1>1, <1>6, <2>1, VarKept
<1>8. VarInv(v)'
  <2>1. VarInv(u)'
    BY <1>2, <1>7
  <2>2. var'[v] = var'[u] /\ foreign'[v] = foreign'[u]
    <3>1. var[u] = [at |-> var[u].at, cache |-> var[u].cache]
      BY <1>6
    <3>2. QED
      BY <1>2, <1>3, <1>5, <3>1
  <2>3. QED
    BY <2>1, <2>2 DEF VarInv, Matrix
<1>9. \A b \in Addrs : IsMatrix(heap'[b]) \/ heap'[b] = NoMatrix
  BY <1>4 DEF DataInv
<1>10. DataInv'
  BY <1>1, <1>2, <1>3, <1>4, <1>5, <1>7, <1>8, <1>9 DEF DataInv
<1>11. SumInv'
  <2>1. \A b \in Addrs : heap'[b].shape \in {heap[b].shape, <<0, 0>>}
    BY <1>4 DEF NoMatrix
  <2>2. QED
    BY <1>2, <2>1, SumKept
<1>12. QED
  BY <1>2, <1>10, <1>11

\* A write keeps what holds: only the writer learns of it.
LEMMA WriteStep ==
  ASSUME MatrixParameters, DataInv, SumInv, ops' = ops + 1, ops < MaxOps,
         NEW v \in Vars, NEW data \in Seq(MatrixCells), Len(data) = Len(Matrix(v).data),
         Write(v, data)
  PROVE  DataInv' /\ SumInv' /\ packs' = packs /\ sums' = sums
<1> DEFINE p == var[v].at
           c == var[v].cache
           new == InvalidateMatrixCache(c)
<1>1. DOMAIN heap = Addrs /\ DOMAIN var = Vars /\ births \in [Addrs -> 0..2]
      /\ foreign \in [Vars -> BOOLEAN] /\ ops \in Nat /\ ops' \in 0..MaxOps
  BY DEF DataInv, MatrixParameters
<1>2. /\ births' = births /\ packs' = packs /\ sums' = sums
      /\ heap' = [heap EXCEPT ![p].data = data]
      /\ var' = [var EXCEPT ![v].cache = new]
      /\ foreign' = [u \in Vars |-> foreign[u] \/ (u # v /\ var[u].at = p)]
  BY DEF Write
<1>3. ASSUME NEW w \in Vars
      PROVE  var[w].at \in Addrs /\ births[var[w].at] # 0 /\ VarInv(w)
             /\ var[w] \in [at : Addrs, cache : Caches]
             /\ IsMatrix(heap[var[w].at]) /\ var[w].cache.version <= ops
             /\ (~foreign[w] => CacheInv(var[w].cache, heap[var[w].at].data))
  BY DEF DataInv, VarInv, Matrix
<1>4. /\ heap'[p] = [heap[p] EXCEPT !.data = data]
      /\ DOMAIN heap' = Addrs /\ \A b \in Addrs : b # p => heap'[b] = heap[b]
  BY <1>1, <1>2, <1>3
<1>5. IsMatrix(heap'[p]) /\ heap'[p].data = data /\ heap'[p].shape = heap[p].shape
  BY <1>3, <1>4 DEF IsMatrix, Matrix
<1>6. DOMAIN var' = Vars /\ var'[v] = [var[v] EXCEPT !.cache = new]
      /\ \A w \in Vars : w # v => var'[w] = var[w]
  BY <1>1, <1>2
<1>7. foreign' \in [Vars -> BOOLEAN] /\ foreign'[v] = foreign[v]
  BY <1>1, <1>2
<1>8. c \in Caches /\ c.version \in Nat /\ c.version <= ops
  BY <1>3 DEF Caches
<1>9. new \in Caches /\ new.version <= ops' /\ (~foreign[v] => ColdInv(new))
  <2>1. CASE ~c.live
    <3>1. new = c
      BY <2>1 DEF InvalidateMatrixCache
    <3>2. ~foreign[v] => ColdInv(c)
      BY <1>3, <2>1 DEF CacheInv, PlannedInv
    <3>3. QED
      BY <1>1, <1>8, <3>1, <3>2
  <2>2. CASE c.live
    <3>1. new = [Cold EXCEPT !.version = c.version + 1]
      BY <2>2 DEF InvalidateMatrixCache
    <3>2. new.version = c.version + 1
      BY <3>1 DEF Cold
    <3> DEFINE n == c.version + 1
    <3>3. n \in Nat /\ n <= ops' /\ new.version = n
      BY <1>1, <1>8, <3>2
    <3>4. new = [Cold EXCEPT !.version = n]
      BY <3>1
    <3> HIDE DEF new, n
    <3>5. new \in Caches /\ ColdInv(new)
      BY <3>3, <3>4, ColdFacts
    <3>6. QED
      BY <3>3, <3>5
  <2>3. QED
    BY <2>1, <2>2
<1> HIDE DEF new
<1>10. VarInv(v)'
  <2>1. var'[v].at = p /\ var'[v].cache = new /\ var'[v] \in [at : Addrs, cache : Caches]
    BY <1>3, <1>6, <1>9
  <2>2. Matrix(v)' = heap'[p]
    BY <2>1 DEF Matrix
  <2>3. QED
    BY <1>2, <1>3, <1>5, <1>7, <1>9, <2>1, <2>2 DEF VarInv, CacheInv
<1>11. ASSUME NEW w \in Vars, w # v PROVE VarInv(w)'
  <2>1. CASE var[w].at = p
    <3>1. foreign'[w] /\ var'[w] = var[w] /\ Matrix(w)' = heap'[p]
      BY <1>2, <1>6, <1>11, <2>1 DEF Matrix
    <3>2. var[w].cache.version <= ops'
      BY <1>1, <1>3 DEF Caches
    <3>3. QED
      BY <1>2, <1>3, <1>5, <2>1, <3>1, <3>2 DEF VarInv
  <2>2. CASE var[w].at # p
    <3>1. heap'[var[w].at] = heap[var[w].at] /\ births'[var[w].at] # 0 /\ var'[w] = var[w]
          /\ foreign'[w] = foreign[w]
      BY <1>1, <1>2, <1>3, <1>4, <1>6, <1>11, <2>2
    <3>2. QED
      BY <1>1, <1>3, <3>1, VarKept
  <2>3. QED
    BY <2>1, <2>2
<1>12. \A b \in Addrs : IsMatrix(heap'[b]) \/ heap'[b] = NoMatrix
  BY <1>4, <1>5 DEF DataInv
<1>13. DataInv'
  BY <1>1, <1>2, <1>4, <1>6, <1>7, <1>10, <1>11, <1>12 DEF DataInv
<1>14. SumInv'
  <2>1. \A b \in Addrs : heap'[b].shape = heap[b].shape
    BY <1>4, <1>5
  <2>2. QED
    BY <1>2, <2>1, SumKept
<1>15. QED
  BY <1>2, <1>13, <1>14

\* SetCell and SetRow keep what holds.
LEMMA SetStep ==
  ASSUME MatrixParameters, DataInv, SumInv, ops' = ops + 1, ops < MaxOps,
         NEW v \in Vars, SetCell(v) \/ SetRow(v)
  PROVE  DataInv' /\ SumInv' /\ packs' = packs /\ sums' = sums
<1> DEFINE data == Matrix(v).data
<1>1. data \in Seq(MatrixCells) /\ Len(data) \in Nat /\ DOMAIN data = 1..Len(data)
      /\ data \in [1..Len(data) -> MatrixCells]
  BY LenProperties DEF DataInv, VarInv, IsMatrix
<1>2. Cells \subseteq MatrixCells
  BY DEF MatrixParameters, MatrixCells
<1>3. CASE SetCell(v)
  <2>1. PICK i \in DOMAIN data, x \in Cells : Write(v, [data EXCEPT ![i] = x])
    BY <1>3 DEF SetCell
  <2>2. [data EXCEPT ![i] = x] \in [1..Len(data) -> MatrixCells]
    BY <1>1, <1>2, <2>1
  <2>3. [data EXCEPT ![i] = x] \in Seq(MatrixCells) /\ Len([data EXCEPT ![i] = x]) = Len(data)
    BY <1>1, <2>2, FunctionIsSeq
  <2>4. QED
    BY <2>1, <2>3, WriteStep
<1>4. CASE SetRow(v)
  <2>1. PICK r \in 1..Rows(v), x \in Cells :
           Write(v, [i \in DOMAIN data |-> IF (i - 1) \div Cols(v) = r - 1 THEN x ELSE data[i]])
    BY <1>4 DEF SetRow
  <2> DEFINE new == [i \in DOMAIN data |-> IF (i - 1) \div Cols(v) = r - 1 THEN x ELSE data[i]]
  <2>2. new \in [1..Len(data) -> MatrixCells]
    BY <1>1, <1>2, <2>1
  <2>3. new \in Seq(MatrixCells) /\ Len(new) = Len(data)
    BY <1>1, <2>2, FunctionIsSeq
  <2>4. Write(v, new)
    BY <2>1
  <2> HIDE DEF new
  <2>5. QED
    BY <2>3, <2>4, WriteStep
<1>5. QED
  BY <1>3, <1>4

\* ReduceSum keeps what holds.
LEMMA ReduceSumStep ==
  ASSUME MatrixParameters, DataInv, SumInv, ops' = ops + 1, ops < MaxOps,
         NEW v \in Vars, ReduceSum(v)
  PROVE  DataInv' /\ SumInv' /\ packs' = packs /\ sums' = sums
<1> DEFINE new == ReduceSumOf(var[v].cache, Matrix(v).data).cache
<1>1. DOMAIN heap = Addrs /\ DOMAIN var = Vars /\ births \in [Addrs -> 0..2]
      /\ foreign \in [Vars -> BOOLEAN] /\ ops \in Nat /\ ops' \in 0..MaxOps
  BY DEF DataInv, MatrixParameters
<1>2. /\ births' = births /\ packs' = packs /\ sums' = sums /\ heap' = heap /\ foreign' = foreign
      /\ var' = [var EXCEPT ![v].cache = new]
  BY DEF ReduceSum
<1>3. VarInv(v) /\ var[v] \in [at : Addrs, cache : Caches] /\ IsMatrix(Matrix(v))
      /\ var[v].cache.version <= ops
  BY DEF DataInv, VarInv
<1>4. new \in Caches /\ new.version = var[v].cache.version
      /\ (CacheInv(var[v].cache, Matrix(v).data) => CacheInv(new, Matrix(v).data))
  <2>1. Matrix(v).data \in Seq(MatrixCells) /\ var[v].cache \in Caches
    BY <1>3 DEF IsMatrix
  <2>2. QED
    BY <2>1, ReduceSumFacts
<1> HIDE DEF new
<1>5. DOMAIN var' = Vars /\ var'[v] = [var[v] EXCEPT !.cache = new]
      /\ \A w \in Vars : w # v => var'[w] = var[w]
  BY <1>1, <1>2
<1>6. VarInv(v)'
  <2>1. var'[v].at = var[v].at /\ var'[v].cache = new /\ var'[v] \in [at : Addrs, cache : Caches]
    BY <1>3, <1>4, <1>5
  <2>2. Matrix(v)' = Matrix(v)
    BY <1>2, <2>1 DEF Matrix
  <2>3. new.version <= ops'
    BY <1>1, <1>3, <1>4 DEF Caches
  <2>4. QED
    BY <1>2, <1>3, <1>4, <2>1, <2>2, <2>3 DEF VarInv
<1>7. ASSUME NEW w \in Vars, w # v PROVE VarInv(w)'
  <2>1. VarInv(w) /\ births[var[w].at] # 0
    BY DEF DataInv, VarInv
  <2>2. QED
    BY <1>1, <1>2, <1>5, <1>7, <2>1, VarKept
<1>8. DataInv'
  BY <1>1, <1>2, <1>5, <1>6, <1>7 DEF DataInv
<1>9. SumInv'
  BY <1>2, SumKept
<1>10. QED
  BY <1>2, <1>8, <1>9

\* What the cache of sums answers, and keeps.
LEMMA MatmulSumFacts ==
  ASSUME MatrixParameters, DataInv, PackInv(packs), SumInv, SumsBounded,
         NEW x \in Vars, NEW y \in Vars, Fits(x, y), NEW f32, NEW transpose
  PROVE  LET r == Matrix(x).shape
             s == Matrix(y).shape
             nx == Numbers(var[x].cache, Matrix(x).data)
             ny == Numbers(var[y].cache, Matrix(y).data)
             run == MatmulSumOf(x, y, f32, transpose)
         IN  /\ PackInv(run.store)
             /\ \A k \in DOMAIN run.sums :
                   /\ k[2][1] \in Addrs /\ births[k[2][1]] # 0
                   /\ k[3][1] \in Addrs /\ births[k[3][1]] # 0
                   /\ SumTrue(k[2], k[3], run.sums[k])
             /\ IsFiniteSet(DOMAIN run.sums) /\ Cardinality(DOMAIN run.sums) <= SumMax
             /\ /\ births[var[x].at] = 1 /\ births[var[y].at] = 1
                /\ Len(nx) <= 3 /\ \A i \in 1..Len(nx) : nx[i] < Coarse
                /\ Len(ny) <= 3 /\ \A i \in 1..Len(ny) : ny[i] < Coarse
                => run.val = Total(ProductOf(r, s, nx, ny))
<1> DEFINE r == Matrix(x).shape
           s == Matrix(y).shape
           nx == Numbers(var[x].cache, Matrix(x).data)
           ny == Numbers(var[y].cache, Matrix(y).data)
           run == MatmulSumOf(x, y, f32, transpose)
           px == PrintedProbe(nx)
           py == PrintedProbe(ny)
           key == SumKey(x, y, f32)
           plain == /\ births[var[x].at] = 1 /\ births[var[y].at] = 1
                    /\ Len(nx) <= 3 /\ \A i \in 1..Len(nx) : nx[i] < Coarse
                    /\ Len(ny) <= 3 /\ \A i \in 1..Len(ny) : ny[i] < Coarse
           printed == \A i \in 1..3 : px[i] < Coarse /\ py[i] < Coarse
           small == Len(nx) <= 3 /\ Len(ny) <= 3
           truth == Total(ProductOf(r, s, nx, ny))
<1>1. /\ nx \in Seq(Nat) /\ Len(nx) = Size(r) /\ Len(nx) \in Nat \ {0}
      /\ ny \in Seq(Nat) /\ Len(ny) = Size(s) /\ Len(ny) \in Nat \ {0}
  <2>1. /\ Matrix(x).data \in Seq(MatrixCells) /\ Len(Matrix(x).data) = Size(r) /\ var[x].cache \in Caches
        /\ Matrix(y).data \in Seq(MatrixCells) /\ Len(Matrix(y).data) = Size(s) /\ var[y].cache \in Caches
        /\ r \in Dims \X Dims /\ s \in Dims \X Dims
    BY DEF DataInv, VarInv, IsMatrix
  <2>2. QED
    BY <2>1, NumbersFacts, SizeType
<1>2. key = <<f32, <<var[x].at, var[x].cache.version, px>>, <<var[y].at, var[y].cache.version, py>>>>
  BY DEF SumKey, PrintedProbe
<1>3. /\ key[2][1] = var[x].at /\ key[3][1] = var[y].at /\ key[2][3] = px /\ key[3][3] = py
      /\ heap[var[x].at].shape = r /\ heap[var[y].at].shape = s
      /\ var[x].at \in Addrs /\ births[var[x].at] # 0 /\ var[y].at \in Addrs /\ births[var[y].at] # 0
  <2>1. key[2][1] = var[x].at /\ key[3][1] = var[y].at /\ key[2][3] = px /\ key[3][3] = py
    <3> HIDE DEF key, px, py
    <3>1. QED
      BY <1>2
  <2>2. VarInv(x) /\ VarInv(y)
    BY DEF DataInv
  <2>3. var[x].at \in Addrs /\ births[var[x].at] # 0 /\ var[y].at \in Addrs /\ births[var[y].at] # 0
    BY <2>2 DEF VarInv
  <2>4. heap[var[x].at].shape = r /\ heap[var[y].at].shape = s
    BY DEF Matrix
  <2>5. QED
    BY <2>1, <2>3, <2>4
<1>4. small /\ printed => Unprobed(px, Size(r)) = nx /\ Unprobed(py, Size(s)) = ny
  <2> SUFFICES ASSUME small, printed PROVE Unprobed(px, Size(r)) = nx /\ Unprobed(py, Size(s)) = ny
    OBVIOUS
  <2>1. Len(nx) \in 1..3 /\ Len(ny) \in 1..3
    BY <1>1
  <2>2. Unprobed(px, Len(nx)) = nx
    BY <1>1, <2>1, PartFacts
  <2>3. Unprobed(py, Len(ny)) = ny
    BY <1>1, <2>1, PartFacts
  <2>4. QED
    BY <1>1, <2>2, <2>3
<1>5. plain => small /\ printed
  <2> SUFFICES ASSUME plain PROVE small /\ printed
    OBVIOUS
  <2>1. Len(nx) \in 1..3 /\ Len(ny) \in 1..3
    BY <1>1
  <2>2. \A i \in 1..3 : px[i] < Coarse
    BY <1>1, <2>1, PartFacts
  <2>3. \A i \in 1..3 : py[i] < Coarse
    BY <1>1, <2>1, PartFacts
  <2>4. QED
    BY <2>2, <2>3
<1> HIDE DEF nx, ny, r, s, px, py, key
<1>6. ASSUME NEW total
      PROVE  SumTrue(key[2], key[3], total) <=>
               (births[var[x].at] = 1 /\ births[var[y].at] = 1 /\ small /\ printed => total = truth)
  BY <1>1, <1>3, <1>4 DEF SumTrue
<1>7. CASE key \in DOMAIN sums
  <2>1. run = [store |-> packs, sums |-> sums, val |-> sums[key]]
    BY <1>7 DEF MatmulSumOf, key
  <2>2. SumTrue(key[2], key[3], sums[key])
    BY <1>7 DEF SumInv
  <2>3. plain => sums[key] = truth
    BY <1>5, <1>6, <2>2
  <2>4. run.store = packs /\ run.sums = sums /\ run.val = sums[key]
    BY <2>1
  <2> HIDE DEF run, truth
  <2>5. QED
    BY <2>3, <2>4 DEF SumInv, SumsBounded, r, s, nx, ny, run, truth
<1>8. CASE key \notin DOMAIN sums
  <2> DEFINE out == Kernel(x, y, f32, transpose).out
             new == [k \in Kept \cup {key} |-> IF k = key THEN Total(out) ELSE sums[k]]
  <2>1. run = [store |-> Kernel(x, y, f32, transpose).store, val |-> Total(out), sums |-> new]
    BY <1>8 DEF MatmulSumOf, key
  <2>2. /\ PackInv(Kernel(x, y, f32, transpose).store)
        /\ Len(nx) <= 3 /\ Len(ny) <= 3 => out = ProductOf(r, s, nx, ny)
    <3>1. IsMatrix(Matrix(x)) /\ IsMatrix(Matrix(y)) /\ var[x].cache \in Caches /\ var[y].cache \in Caches
      BY DEF DataInv, VarInv
    <3>2. QED
      BY <3>1, KernelFacts DEF nx, ny, r, s
  <2> HIDE DEF out
  <2>3. small => Total(out) = truth
    BY <2>2
  <2>4. SumTrue(key[2], key[3], Total(out))
    BY <1>6, <2>3
  <2>5. Kept \subseteq DOMAIN sums
    BY DEF Kept
  <2>6. \A k \in DOMAIN new : (k = key /\ new[k] = Total(out)) \/ (k \in DOMAIN sums /\ new[k] = sums[k])
    BY <1>8, <2>5
  <2>7. DOMAIN new = Kept \cup {key} /\ key \notin Kept
    BY <1>8, <2>5
  <2> HIDE DEF new
  <2>8. ASSUME NEW k \in DOMAIN new
        PROVE  /\ k[2][1] \in Addrs /\ births[k[2][1]] # 0
               /\ k[3][1] \in Addrs /\ births[k[3][1]] # 0
               /\ SumTrue(k[2], k[3], new[k])
    BY <1>3, <2>4, <2>6 DEF SumInv
  <2>9. IsFiniteSet(DOMAIN new) /\ Cardinality(DOMAIN new) <= SumMax
    <3>1. IsFiniteSet(Kept) /\ Cardinality(Kept) \in Nat /\ Cardinality(Kept) < SumMax
      <4>1. CASE Cardinality(DOMAIN sums) >= SumMax
        <5>1. Kept = {}
          BY <4>1 DEF Kept
        <5>2. QED
          BY <5>1, FS_EmptySet DEF MatrixParameters
      <4>2. CASE ~(Cardinality(DOMAIN sums) >= SumMax)
        <5>1. Kept = DOMAIN sums
          BY <4>2 DEF Kept
        <5>2. IsFiniteSet(DOMAIN sums) /\ Cardinality(DOMAIN sums) \in Nat
          BY FS_CardinalityType DEF SumsBounded
        <5>3. QED
          BY <4>2, <5>1, <5>2 DEF MatrixParameters
      <4>3. QED
        BY <4>1, <4>2
    <3>2. IsFiniteSet(Kept \cup {key}) /\ Cardinality(Kept \cup {key}) = Cardinality(Kept) + 1
      BY <2>7, <3>1, FS_AddElement
    <3>3. QED
      BY <2>7, <3>1, <3>2 DEF MatrixParameters
  <2>10. run.store = Kernel(x, y, f32, transpose).store /\ run.sums = new /\ run.val = Total(out)
    BY <2>1
  <2>11. plain => run.val = truth
    BY <1>5, <2>3, <2>10
  <2> HIDE DEF run, truth
  <2>12. QED
    BY <2>2, <2>8, <2>9, <2>10, <2>11 DEF r, s, nx, ny, run, truth
<1>9. QED
  BY <1>7, <1>8

\* MatmulSum keeps what holds.
LEMMA MatmulSumStep ==
  ASSUME MatrixParameters, IInv, ops' = ops + 1, ops < MaxOps,
         NEW x \in Vars, NEW y \in Vars, MatmulSum(x, y)
  PROVE  IInv'
<1>1. PICK f32 \in Modes, transpose \in BOOLEAN :
          /\ packs' = MatmulSumOf(x, y, f32, transpose).store
          /\ sums' = MatmulSumOf(x, y, f32, transpose).sums
  BY DEF MatmulSum
<1>2. Fits(x, y) /\ heap' = heap /\ var' = var /\ foreign' = foreign /\ births' = births
  BY DEF MatmulSum
<1>3. DataInv /\ PackInv(packs) /\ SumInv /\ SumsBounded
  BY DEF IInv
<1> DEFINE run == MatmulSumOf(x, y, f32, transpose)
<1>4. /\ PackInv(run.store)
      /\ \A k \in DOMAIN run.sums :
            /\ k[2][1] \in Addrs /\ births[k[2][1]] # 0
            /\ k[3][1] \in Addrs /\ births[k[3][1]] # 0
            /\ SumTrue(k[2], k[3], run.sums[k])
      /\ IsFiniteSet(DOMAIN run.sums) /\ Cardinality(DOMAIN run.sums) <= SumMax
  BY <1>2, <1>3, MatmulSumFacts
<1> HIDE DEF run
<1>5. packs' = run.store /\ sums' = run.sums
  BY <1>1 DEF run
<1>6. SumInv'
  BY <1>2, <1>4, <1>5 DEF SumInv, SumTrue
<1>7. PackInv(packs)' /\ SumsBounded'
  BY <1>4, <1>5 DEF PackInv, SumsBounded
<1>8. ops \in Nat /\ ops' \in 0..MaxOps
  BY <1>3 DEF DataInv, MatrixParameters
<1>9. ASSUME NEW w \in Vars PROVE VarInv(w)'
  <2>1. VarInv(w) /\ births[var[w].at] # 0
    BY <1>3 DEF DataInv, VarInv
  <2>2. QED
    BY <1>2, <1>8, <2>1, VarKept
<1>10. DataInv'
  BY <1>2, <1>3, <1>8, <1>9 DEF DataInv
<1>11. QED
  BY <1>6, <1>7, <1>10 DEF IInv

\* It holds at first: every variable has a matrix of its own.
LEMMA InitIInv ==
  ASSUME MatrixParameters, Init
  PROVE  IInv
<1>1. PICK at \in [Vars -> Addrs], shape \in [Vars -> Shapes], x \in [Vars -> Cells] :
          /\ \A v, u \in Vars : v # u => at[v] # at[u]
          /\ var = [v \in Vars |-> [at |-> at[v], cache |-> Cold]]
          /\ heap = [m \in Addrs |->
                IF \E v \in Vars : at[v] = m
                THEN LET v == CHOOSE v \in Vars : at[v] = m IN Filled(shape[v], x[v])
                ELSE NoMatrix]
          /\ births = [m \in Addrs |-> IF \E v \in Vars : at[v] = m THEN 1 ELSE 0]
  BY Zenon DEF Init
<1>2. packs = <<>> /\ sums = <<>> /\ foreign = [v \in Vars |-> FALSE] /\ ops = 0
  BY DEF Init
<1>3. \A v \in Vars : IsMatrix(Filled(shape[v], x[v]))
  <2>1. \A v \in Vars : shape[v] \in Dims \X Dims /\ x[v] \in MatrixCells
    BY DEF MatrixParameters, Dims, MatrixCells
  <2>2. QED
    BY <2>1, FilledIsMatrix
<1>4. ASSUME NEW m \in Addrs
      PROVE  IsMatrix(heap[m]) \/ (heap[m] = NoMatrix /\ \A v \in Vars : at[v] # m)
  <2>1. CASE \E v \in Vars : at[v] = m
    <3> DEFINE v == CHOOSE v \in Vars : at[v] = m
    <3>1. v \in Vars
      BY <2>1
    <3>2. heap[m] = Filled(shape[v], x[v])
      BY <1>1, <2>1
    <3>3. QED
      BY <1>3, <3>1, <3>2
  <2>2. CASE ~\E v \in Vars : at[v] = m
    <3>1. heap[m] = NoMatrix
      BY <1>1, <2>2
    <3>2. QED
      BY <2>2, <3>1
  <2>3. QED
    BY <2>1, <2>2
<1>5. ASSUME NEW v \in Vars PROVE VarInv(v)
  <2>1. var[v].at = at[v] /\ var[v].cache = Cold /\ at[v] \in Addrs
        /\ var[v] \in [at : Addrs, cache : Caches]
    BY <1>1, ColdFacts
  <2>2. IsMatrix(Matrix(v))
    BY <1>4, <2>1 DEF Matrix
  <2>3. births[at[v]] = 1
    BY <1>1
  <2>4. CacheInv(Cold, Matrix(v).data)
    BY DEF CacheInv, ColdInv, Cold
  <2>5. QED
    BY <1>2, <2>1, <2>2, <2>3, <2>4, ColdFacts DEF VarInv
<1>6. ops \in 0..MaxOps /\ foreign \in [Vars -> BOOLEAN] /\ births \in [Addrs -> 0..2]
      /\ DOMAIN heap = Addrs /\ DOMAIN var = Vars
  <2>1. births \in [Addrs -> 0..2] /\ DOMAIN heap = Addrs /\ DOMAIN var = Vars
    BY <1>1
  <2>2. QED
    BY <1>2, <2>1 DEF MatrixParameters
<1>7. DataInv
  BY <1>4, <1>5, <1>6 DEF DataInv
<1>8. DOMAIN packs = {} /\ DOMAIN sums = {}
  BY <1>2
<1>9. PackInv(packs) /\ SumInv
  BY <1>8 DEF PackInv, SumInv
<1>10. SumsBounded
  BY <1>8, FS_EmptySet DEF SumsBounded, MatrixParameters
<1>11. QED
  BY <1>7, <1>9, <1>10 DEF IInv

\* Every step keeps it.
LEMMA NextIInv ==
  ASSUME MatrixParameters, IInv, [Next]_vars
  PROVE  IInv'
<1>1. DataInv /\ PackInv(packs) /\ SumInv /\ SumsBounded
  BY DEF IInv
<1>2. ASSUME DataInv', SumInv', PackInv(packs)', sums' = sums PROVE IInv'
  BY <1>1, <1>2 DEF IInv, SumsBounded
<1>3. CASE UNCHANGED vars
  <2>1. /\ heap' = heap /\ var' = var /\ packs' = packs /\ sums' = sums
        /\ foreign' = foreign /\ births' = births /\ ops' = ops
    BY <1>3 DEF vars
  <2>2. QED
    BY <1>1, <2>1 DEF IInv, DataInv, PackInv, SumInv, SumsBounded, VarInv, Matrix, SumTrue
<1>4. CASE Next
  <2>1. ops' = ops + 1 /\ ops < MaxOps
    BY <1>4 DEF Next
  <2>2. \/ \E v \in Vars : Literal(v) \/ SetCell(v) \/ SetRow(v) \/ ReduceSum(v)
        \/ \E v, u \in Vars : Assign(v, u) \/ MatmulSum(v, u) \/ AddScalar(v, u)
        \/ \E v, x, y \in Vars : Matmul(v, x, y)
    BY <1>4 DEF Next
  <2>3. packs' = packs => PackInv(packs)'
    BY <1>1 DEF PackInv
  <2>4. ASSUME NEW v \in Vars, Literal(v) PROVE IInv'
    BY <1>1, <1>2, <2>1, <2>3, <2>4, LiteralStep
  <2>5. ASSUME NEW v \in Vars, SetCell(v) \/ SetRow(v) PROVE IInv'
    BY <1>1, <1>2, <2>1, <2>3, <2>5, SetStep
  <2>6. ASSUME NEW v \in Vars, ReduceSum(v) PROVE IInv'
    BY <1>1, <1>2, <2>1, <2>3, <2>6, ReduceSumStep
  <2>7. ASSUME NEW v \in Vars, NEW u \in Vars, Assign(v, u) PROVE IInv'
    BY <1>1, <1>2, <2>1, <2>3, <2>7, AssignStep
  <2>8. ASSUME NEW v \in Vars, NEW u \in Vars, MatmulSum(v, u) PROVE IInv'
    BY <2>1, <2>8, MatmulSumStep
  <2>9. ASSUME NEW v \in Vars, NEW u \in Vars, AddScalar(v, u) PROVE IInv'
    BY <1>1, <1>2, <2>1, <2>3, <2>9, AddScalarStep
  <2>10. ASSUME NEW v \in Vars, NEW x \in Vars, NEW y \in Vars, Matmul(v, x, y) PROVE IInv'
    BY <1>1, <1>2, <2>1, <2>10, MatmulStep DEF PackInv
  <2>11. QED
    BY <2>2, <2>4, <2>5, <2>6, <2>7, <2>8, <2>9, <2>10
<1>5. QED
  BY <1>3, <1>4

-----------------------------------------------------------------------------
(* What follows *)

\* IInv has the types.
LEMMA IInvTypeOK ==
  ASSUME MatrixParameters, IInv
  PROVE  TypeOK
<1>1. DataInv /\ PackInv(packs) /\ SumsBounded
  BY DEF IInv
<1>2. ASSUME NEW a \in Addrs
      PROVE  /\ Len(heap[a].data) = heap[a].shape[1] * heap[a].shape[2]
             /\ \A i \in DOMAIN heap[a].data :
                   heap[a].data[i] \in [int : BOOLEAN, val : 0..MaxValue]
  <2>1. CASE IsMatrix(heap[a])
    <3> DEFINE d == heap[a].data
    <3>1. d \in Seq(MatrixCells) /\ Len(d) = heap[a].shape[1] * heap[a].shape[2]
      BY <2>1 DEF IsMatrix, Size
    <3> HIDE DEF d
    <3>2. \A i \in DOMAIN d : d[i] \in MatrixCells
      BY <3>1
    <3>3. QED
      BY <3>1, <3>2 DEF d, MatrixCells
  <2>2. CASE heap[a] = NoMatrix
    <3>1. heap[a].data = <<>> /\ heap[a].shape[1] = 0 /\ heap[a].shape[2] = 0
      BY <2>2 DEF NoMatrix
    <3>2. Len(<<>>) = 0 /\ DOMAIN <<>> = {}
      OBVIOUS
    <3>3. QED
      BY <3>1, <3>2
  <2>3. QED
    BY <1>1, <2>1, <2>2 DEF DataInv
<1>3. ASSUME NEW v \in Vars
      PROVE  var[v].at \in Addrs /\ var[v].cache.version \in 0..MaxOps /\ var[v].cache.plan \in Plans
  <2>1. var[v].at \in Addrs /\ var[v].cache \in Caches /\ var[v].cache.version <= ops /\ ops \in 0..MaxOps
    BY <1>1 DEF DataInv, VarInv
  <2>2. var[v].cache.version \in Nat /\ var[v].cache.plan \in Plans
    BY <2>1 DEF Caches
  <2>3. QED
    BY <2>1, <2>2 DEF MatrixParameters
<1>4. \A k \in DOMAIN packs : Len(packs[k].packed) = k[2][1] * k[2][2]
  BY <1>1 DEF PackInv, Size
<1>5. QED
  BY <1>1, <1>2, <1>3, <1>4 DEF TypeOK, SumsBounded

\* The sums that variables answer are right.
LEMMA IInvOwnSum ==
  ASSUME IInv
  PROVE  OwnSumCorrect
<1> SUFFICES ASSUME NEW v \in Vars, ~foreign[v]
             PROVE  LET answer == ReduceSumOf(var[v].cache, Matrix(v).data)
                    IN  /\ answer.val = Total(Values(Matrix(v).data))
                        /\ answer.int <=> AllInt(Matrix(v).data)
  BY DEF OwnSumCorrect
<1>1. Matrix(v).data \in Seq(MatrixCells) /\ var[v].cache \in Caches
      /\ CacheInv(var[v].cache, Matrix(v).data)
  BY DEF IInv, DataInv, VarInv, IsMatrix
<1>2. QED
  BY <1>1, ReduceSumFacts

\* What kernels receive is right, for small matrices.
LEMMA IInvProbedPack ==
  ASSUME IInv
  PROVE  ProbedPackCorrect
<1> SUFFICES ASSUME \A v \in Vars : Len(Matrix(v).data) <= 3,
                    NEW v \in Vars, NEW transpose \in BOOLEAN, NEW f32 \in Modes, ~foreign[v]
             PROVE  Acquire(packs, v, transpose, f32).packed = Values(Matrix(v).data)
  BY DEF ProbedPackCorrect, PackCorrect
<1> DEFINE s == Numbers(var[v].cache, Matrix(v).data)
<1>1. PackInv(packs) /\ IsMatrix(Matrix(v)) /\ var[v].cache \in Caches
      /\ CacheInv(var[v].cache, Matrix(v).data)
  BY DEF IInv, DataInv, VarInv
<1>2. Matrix(v).data \in Seq(MatrixCells)
  BY <1>1 DEF IsMatrix
<1>3. s = Values(Matrix(v).data) /\ Len(s) = Len(Matrix(v).data)
  BY <1>1, <1>2, NumbersFacts
<1>4. Len(s) <= 3 => Acquire(packs, v, transpose, f32).packed = s
  BY <1>1, AcquireFacts
<1>5. QED
  BY <1>3, <1>4

\* The sums that matmul_sum answers are right, for plain matrices.
LEMMA IInvSumCache ==
  ASSUME MatrixParameters, IInv
  PROVE  SumCacheCorrect
<1> DEFINE plain(v) == /\ ~foreign[v] /\ births[var[v].at] = 1
                       /\ Len(Matrix(v).data) <= 3
                       /\ \A i \in DOMAIN Matrix(v).data : Matrix(v).data[i].val < Coarse
<1> SUFFICES ASSUME NEW x \in Vars, NEW y \in Vars, NEW transpose \in BOOLEAN, NEW f32 \in Modes,
                    Fits(x, y), plain(x), plain(y)
             PROVE  MatmulSumOf(x, y, f32, transpose).val =
                        Total(Product(x, y, Values(Matrix(x).data), Values(Matrix(y).data)))
  BY DEF SumCacheCorrect
<1> DEFINE n(v) == Numbers(var[v].cache, Matrix(v).data)
<1>1. ASSUME NEW v \in Vars, plain(v)
      PROVE  /\ n(v) = Values(Matrix(v).data)
             /\ births[var[v].at] = 1 /\ Len(n(v)) <= 3 /\ \A i \in 1..Len(n(v)) : n(v)[i] < Coarse
  <2>1. Matrix(v).data \in Seq(MatrixCells) /\ var[v].cache \in Caches
        /\ CacheInv(var[v].cache, Matrix(v).data)
    BY <1>1 DEF IInv, DataInv, VarInv, IsMatrix
  <2>2. n(v) = Values(Matrix(v).data)
    BY <2>1, NumbersFacts
  <2>3. /\ Len(n(v)) = Len(Matrix(v).data) /\ DOMAIN Matrix(v).data = 1..Len(Matrix(v).data)
        /\ \A i \in 1..Len(Matrix(v).data) : n(v)[i] = Matrix(v).data[i].val
    BY <2>1, <2>2, ValuesFacts
  <2>4. QED
    BY <1>1, <2>2, <2>3
<1>2. DataInv /\ PackInv(packs) /\ SumInv /\ SumsBounded
  BY DEF IInv
<1>3. /\ births[var[x].at] = 1 /\ births[var[y].at] = 1
      /\ Len(n(x)) <= 3 /\ \A i \in 1..Len(n(x)) : n(x)[i] < Coarse
      /\ Len(n(y)) <= 3 /\ \A i \in 1..Len(n(y)) : n(y)[i] < Coarse
      /\ n(x) = Values(Matrix(x).data) /\ n(y) = Values(Matrix(y).data)
  BY <1>1
<1>4. MatmulSumOf(x, y, f32, transpose).val = Total(ProductOf(Matrix(x).shape, Matrix(y).shape, n(x), n(y)))
  BY <1>2, <1>3, MatmulSumFacts
<1>5. Product(x, y, n(x), n(y)) = ProductOf(Matrix(x).shape, Matrix(y).shape, n(x), n(y))
  BY DEF Product, ProductOf, Rows, Cols
<1>6. QED
  BY <1>3, <1>4, <1>5

-----------------------------------------------------------------------------
\* The inductive invariant holds.
LEMMA Invariance ==
  ASSUME MatrixParameters
  PROVE  Spec => []IInv
<1>1. Init => IInv
  BY InitIInv
<1>2. IInv /\ [Next]_vars => IInv'
  BY NextIInv
<1>3. QED
  BY <1>1, <1>2, PTL DEF Spec

\* Every matrix has as many cells as its shape says, in range, every packed
\* operand as many numbers as its key says, and the cache of sums stays within
\* SPARK_MATMUL_SUM_CACHE_MAX.
THEOREM TypeCorrect ==
  ASSUME MatrixParameters
  PROVE  Spec => []TypeOK
<1>1. IInv => TypeOK
  BY IInvTypeOK
<1>2. QED
  BY <1>1, Invariance, PTL

\* "invalidate on mutation": whatever was analysed, packed, copied or computed
\* before, the sum a variable answers is the sum of its cells, as long as nobody
\* else wrote them (reduce_sum, invalidate_matrix_cache).
THEOREM OwnSumTheorem ==
  ASSUME MatrixParameters
  PROVE  Spec => []OwnSumCorrect
<1>1. IInv => OwnSumCorrect
  BY IInvOwnSum
<1>2. QED
  BY <1>1, Invariance, PTL

\* acquire_packed_matrix hands the numbers of the matrix to a kernel, when no
\* matrix has more than the three cells that the probe of an entry sees.
THEOREM ProbedPackTheorem ==
  ASSUME MatrixParameters
  PROVE  Spec => []ProbedPackCorrect
<1>1. IInv => ProbedPackCorrect
  BY IInvProbedPack
<1>2. QED
  BY <1>1, Invariance, PTL

\* matmul_sum answers the sum of the product, from its cache or not, of
\* matrices that the key tells apart.
THEOREM SumCacheTheorem ==
  ASSUME MatrixParameters
  PROVE  Spec => []SumCacheCorrect
<1>1. IInv => SumCacheCorrect
  BY IInvSumCache
<1>2. QED
  BY <1>1, Invariance, PTL

=============================================================================
