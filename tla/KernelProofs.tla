---------------------------- MODULE KernelProofs ----------------------------
(***************************************************************************)
(* What the kernels of the area filters compute, for every window, matrix, *)
(* divisor and shift.                                                      *)
(***************************************************************************)
EXTENDS Kernels, Recursion, FiniteSetTheorems

(* The partial sums of the loop.                                           *)
PartialSums(s, f, n) ==
  /\ s \in [0..n -> Int]
  /\ s[0] = 0
  /\ \A k \in 1..n : s[k] = s[k - 1] + f[k - 1]
  /\ SumUpTo(f, n) = s[n]

LEMMA SumUpToPartial ==
  ASSUME NEW n \in Nat, NEW f \in [0..(n - 1) -> Int]
  PROVE  \E s : PartialSums(s, f, n)
<1>. DEFINE G == [x \in (1..n) \X Int |-> x[2] + f[x[1] - 1]]
            Sum == CHOOSE s : s = [k \in 0..n |-> IF k = 0 THEN 0 ELSE s[k - 1] + f[k - 1]]
<1>1. \A k \in 1..n, i \in Int : G[<<k, i>>] = i + f[k - 1] /\ i + f[k - 1] \in Int
  OBVIOUS
<1>2. SumUpTo(f, n) = Sum[n]
  BY DEF SumUpTo
<1>3. PICK s : Repeats(s, n, Int, 0, G)
  <2>. DEFINE S == Int
  <2>1. 0 \in S /\ \A k \in 1..n, i \in S : G[<<k, i>>] \in S
    BY <1>1
  <2>. HIDE DEF G, S
  <2>2. \E s : Repeats(s, n, S, 0, G)
    BY <2>1, BoundedIteration
  <2>. QED BY <2>2 DEF S
<1>4. s = [k \in 0..n |-> IF k = 0 THEN 0 ELSE s[k - 1] + f[k - 1]]
  <2>. HIDE DEF G
  <2>1. s \in [0..n -> Int] /\ s = [k \in 0..n |-> IF k = 0 THEN 0 ELSE G[<<k, s[k - 1]>>]]
    BY <1>3 DEF Repeats
  <2>2. \A k \in 0..n : s[k] = IF k = 0 THEN 0 ELSE s[k - 1] + f[k - 1]
    BY <2>1, <1>1
  <2>. QED BY <2>1, <2>2
<1>5. Sum = [k \in 0..n |-> IF k = 0 THEN 0 ELSE Sum[k - 1] + f[k - 1]]
  <2>. HIDE DEF G
  <2>. QED BY <1>4
<1>. HIDE DEF Sum
<1>6. 0..n \subseteq {k \in 0..n : Sum[k] \in Int}
  <2>. DEFINE T == {k \in 0..n : Sum[k] \in Int}
  <2>1. 0 \in T
    BY <1>5
  <2>2. ASSUME NEW k \in 0..(n - 1), k \in T PROVE k + 1 \in T
    <3>1. k + 1 \in 0..n /\ k + 1 # 0 /\ (k + 1) - 1 = k /\ f[k] \in Int /\ Sum[k] \in Int
      BY <2>2
    <3>2. Sum[k + 1] = Sum[k] + f[k]
      BY <3>1, <1>5
    <3>. QED BY <3>1, <3>2
  <2>. HIDE DEF T
  <2>3. 0..n \subseteq T
    BY <2>1, <2>2, Induction
  <2>. QED BY <2>3 DEF T
<1>7. Sum \in [0..n -> Int]
  BY <1>5, <1>6
<1>8. PartialSums(Sum, f, n)
  BY <1>2, <1>5, <1>7 DEF PartialSums
<1>. QED
  BY <1>8

LEMMA SumUpToType ==
  ASSUME NEW n \in Nat, NEW f \in [0..(n - 1) -> Int]
  PROVE  SumUpTo(f, n) \in Int
<1>1. PICK s : PartialSums(s, f, n)
  BY SumUpToPartial
<1>. QED
  BY <1>1 DEF PartialSums

(* A sum lies between n times the bounds of what is added.                 *)
LEMMA SumUpToBounds ==
  ASSUME NEW n \in Nat, NEW f \in [0..(n - 1) -> Int], NEW lo \in Int, NEW hi \in Int,
         \A k \in 0..(n - 1) : lo <= f[k] /\ f[k] <= hi
  PROVE  lo * n <= SumUpTo(f, n) /\ SumUpTo(f, n) <= hi * n
<1>1. PICK s : PartialSums(s, f, n)
  BY SumUpToPartial
<1>. DEFINE T == {k \in 0..n : lo * k <= s[k] /\ s[k] <= hi * k}
<1>2. 0 \in T
  BY <1>1 DEF PartialSums
<1>3. ASSUME NEW k \in 0..(n - 1), k \in T PROVE k + 1 \in T
  <2>1. /\ k + 1 \in 1..n /\ k \in Int /\ s[k] \in Int /\ f[k] \in Int
        /\ s[k + 1] = s[k] + f[k]
    BY <1>1 DEF PartialSums
  <2>2. lo * (k + 1) = lo * k + lo /\ hi * (k + 1) = hi * k + hi /\ lo * k \in Int /\ hi * k \in Int
    BY <2>1
  <2>3. lo * k + lo <= s[k + 1] /\ s[k + 1] <= hi * k + hi
    BY <1>3, <2>1, <2>2
  <2>. QED BY <2>1, <2>2, <2>3
<1>. HIDE DEF T
<1>4. n \in T
  <2>1. 0..n \subseteq T
    BY <1>2, <1>3, Induction
  <2>. QED BY <2>1
<1>. QED
  BY <1>1, <1>4 DEF T, PartialSums
-----------------------------------------------------------------------------
(* The rule C gives for integer division: the quotient whose remainder is  *)
(* smaller than the divisor and has the sign of the dividend.              *)
LEMMA CDivQuotient ==
  ASSUME NEW a \in Int, NEW b \in Nat \ {0}
  PROVE  /\ CDiv(a, b) \in Int
         /\ a - CDiv(a, b) * b < b
         /\ 0 - (a - CDiv(a, b) * b) < b
         /\ \/ a - CDiv(a, b) * b = 0
            \/ (a - CDiv(a, b) * b > 0) = (a > 0)
  BY DEF CDiv

LEMMA CDivType ==
  ASSUME NEW a \in Int, NEW b \in Int, b # 0
  PROVE  CDiv(a, b) \in Int
  BY DEF CDiv

LEMMA ClampType ==
  ASSUME NEW v \in Int
  PROVE  Clamp(v) \in Level
  BY DEF Clamp, Level

(* The n-th cell of a window is one of its cells.                          *)
LEMMA CellAtIn ==
  ASSUME NEW side \in Nat, NEW n \in 0..(side * side - 1)
  PROVE  CellAt(side, n) \in Cells(side)
<1>1. side > 0
  OBVIOUS
<1>2. n \div side \in Int /\ n % side \in 0..(side - 1)
  BY <1>1
<1>3. n \div side >= 0 /\ n \div side < side
  BY <1>1
<1>. QED
  BY <1>2, <1>3 DEF CellAt, Cells

LEMMA ConvKernelType ==
  ASSUME NEW side \in Nat, NEW w \in [Cells(side) -> Level], NEW matrix \in [Cells(side) -> Int],
         NEW div \in Int, div # 0, NEW shift \in Int
  PROVE  ConvKernel(w, matrix, side, div, shift) \in Level
<1>. DEFINE f == [n \in 0..(side * side - 1) |-> w[CellAt(side, n)] * matrix[CellAt(side, n)]]
<1>1. f \in [0..(side * side - 1) -> Int]
  <2>1. ASSUME NEW n \in 0..(side * side - 1)
        PROVE  w[CellAt(side, n)] * matrix[CellAt(side, n)] \in Int
    <3>1. CellAt(side, n) \in Cells(side)
      BY CellAtIn
    <3>2. w[CellAt(side, n)] \in Level /\ matrix[CellAt(side, n)] \in Int
      BY <3>1
    <3>. QED BY <3>2 DEF Level
  <2>. QED BY <2>1
<1>2. WeightedSum(w, matrix, side) \in Int
  <2>1. side * side \in Nat
    OBVIOUS
  <2>2. WeightedSum(w, matrix, side) = SumUpTo(f, side * side)
    BY DEF WeightedSum
  <2>. HIDE DEF f
  <2>. QED BY <1>1, <2>1, <2>2, SumUpToType
<1>3. shift + CDiv(WeightedSum(w, matrix, side), div) \in Int
  BY <1>2, CDivType
<1>. QED
  BY <1>3, ClampType DEF ConvKernel
-----------------------------------------------------------------------------
LEMMA CellsFinite ==
  ASSUME NEW side \in Nat
  PROVE  IsFiniteSet(Cells(side)) /\ Cardinality(Cells(side)) = side * side
<1>1. IsFiniteSet(0..(side - 1)) /\ Cardinality(0..(side - 1)) = side
  BY FS_Interval
<1>. QED
  BY <1>1, FS_Product DEF Cells

(* There is an element at every index of the sorted samples.               *)
LEMMA SortedAtIs ==
  ASSUME NEW S, IsFiniteSet(S), NEW w \in [S -> Level], NEW k \in 0..(Cardinality(S) - 1)
  PROVE  /\ SortedAt(w, k) \in Range(w)
         /\ Cardinality({p \in S : w[p] < SortedAt(w, k)}) <= k
         /\ k < Cardinality({p \in S : w[p] <= SortedAt(w, k)})
<1>. DEFINE upto(v) == {p \in S : w[p] <= v}
            below(v) == {p \in S : w[p] < v}
            T == {v \in Level : k < Cardinality(upto(v))}
<1>1. T # {}
  <2>1. upto(255) = S
    BY DEF Level
  <2>2. 255 \in Level /\ k < Cardinality(S)
    BY FS_CardinalityType DEF Level
  <2>. QED BY <2>1, <2>2
<1>2. PICK v \in T : \A u \in T : v <= u
  <2>1. T \in SUBSET Nat
    BY DEF Level
  <2>. HIDE DEF T
  <2>. QED BY <1>1, <2>1, LeastElement
<1>3. Cardinality(below(v)) <= k
  <2>1. CASE v = 0
    <3>1. below(v) = {}
      BY <2>1 DEF Level
    <3>. QED BY <3>1, FS_EmptySet
  <2>2. CASE v # 0
    <3>1. v - 1 \in Level /\ v - 1 \notin T
      BY <2>2, <1>2 DEF Level
    <3>2. below(v) = upto(v - 1)
      BY DEF Level
    <3>3. Cardinality(upto(v - 1)) \in Nat
      BY FS_Subset, FS_CardinalityType
    <3>. QED BY <3>1, <3>2, <3>3
  <2>. QED BY <2>1, <2>2
<1>4. v \in Range(w)
  <2>1. SUFFICES ASSUME v \notin Range(w) PROVE FALSE
    OBVIOUS
  <2>2. below(v) = upto(v)
    BY <2>1 DEF Range, Level
  <2>3. Cardinality(upto(v)) \in Nat
    BY FS_Subset, FS_CardinalityType
  <2>. QED BY <1>3, <2>2, <2>3
<1>. QED
  BY <1>2, <1>3, <1>4 DEF SortedAt

LEMMA MedianKernelType ==
  ASSUME NEW side \in Nat, side > 2, NEW w \in [Cells(side) -> Level]
  PROVE  MedianKernel(w, side) \in Level
<1>1. MiddleIndex(side) \in 0..(side * side - 1)
  <2>1. side * side >= 3 * side
    OBVIOUS
  <2>. QED BY <2>1 DEF MiddleIndex
<1>2. MedianKernel(w, side) \in Range(w)
  BY <1>1, CellsFinite, SortedAtIs DEF MedianKernel
<1>. QED
  BY <1>2 DEF Range

(* A window whose samples are all the same but for the middle one: the     *)
(* element at the index that algo_med takes is the sample of the others.   *)
THEOREM MedianRemovesImpulses ==
  ASSUME NEW side \in Nat, side > 2, NEW w \in [Cells(side) -> Level], NEW x \in Level,
         NEW centre \in Cells(side),
         \A o \in Cells(side) \ {centre} : w[o] = x
  PROVE  MedianKernel(w, side) = x
<1>. DEFINE S == Cells(side)
            v == MedianKernel(w, side)
            k == MiddleIndex(side)
<1>1. k \in 0..(side * side - 1) /\ k > 4 /\ k < side * side - 1
  <2>1. side * side >= 3 * side
    OBVIOUS
  <2>. QED BY <2>1 DEF MiddleIndex
<1>2. IsFiniteSet(S) /\ Cardinality(S) = side * side
  BY CellsFinite
<1>3. v \in Level /\ Cardinality({p \in S : w[p] < v}) <= k /\ k < Cardinality({p \in S : w[p] <= v})
  BY <1>1, <1>2, SortedAtIs, MedianKernelType DEF MedianKernel
<1>4. ~ (v > x)
  <2>1. SUFFICES ASSUME v > x PROVE FALSE
    OBVIOUS
  <2>2. S \ {centre} \subseteq {p \in S : w[p] < v}
    BY <2>1
  <2>3. IsFiniteSet({p \in S : w[p] < v})
    BY <1>2, FS_Subset
  <2>4. Cardinality(S \ {centre}) = side * side - 1
    BY <1>2, FS_RemoveElement
  <2>5. Cardinality(S \ {centre}) <= Cardinality({p \in S : w[p] < v})
    BY <2>2, <2>3, FS_Subset
  <2>6. Cardinality({p \in S : w[p] < v}) \in Nat
    BY <2>3, FS_CardinalityType
  <2>. QED BY <1>1, <1>3, <2>4, <2>5, <2>6
<1>5. ~ (v < x)
  <2>1. SUFFICES ASSUME v < x PROVE FALSE
    OBVIOUS
  <2>2. {p \in S : w[p] <= v} \subseteq {centre}
    BY <2>1, <1>3 DEF Level
  <2>3. Cardinality({p \in S : w[p] <= v}) <= 1
    <3>1. IsFiniteSet({centre}) /\ Cardinality({centre}) = 1
      BY FS_Singleton
    <3>. QED BY <2>2, <3>1, FS_Subset
  <2>4. Cardinality({p \in S : w[p] <= v}) \in Nat
    BY <1>2, FS_Subset, FS_CardinalityType
  <2>. QED BY <1>1, <1>3, <2>3, <2>4
<1>. QED
  BY <1>3, <1>4, <1>5 DEF Level
-----------------------------------------------------------------------------
LEMMA MorphologyType ==
  ASSUME NEW side, NEW w, NEW matrix
  PROVE  /\ DilateKernel(w, matrix, side) \in [Channels -> {0, 255}]
         /\ ErodeKernel(w, matrix, side) \in [Channels -> {0, 255}]
  BY DEF DilateKernel, ErodeKernel, Grey

Opposite(c) == [k \in Channels |-> 255 - c[k]]

(* Erosion is the dual of dilation for every matrix, on images whose       *)
(* channels are 0 or 255: the negative of a window, eroded, is the         *)
(* negative of the window dilated.  (Any other level counts as set for     *)
(* both of them.)                                                          *)
THEOREM ErodeIsDualOfDilate ==
  ASSUME NEW side, NEW matrix, NEW w \in [Cells(side) -> [Channels -> {0, 255}]]
  PROVE  ErodeKernel([o \in Cells(side) |-> Opposite(w[o])], matrix, side)
           = Opposite(DilateKernel(w, matrix, side))
<1>. DEFINE negative == [o \in Cells(side) |-> Opposite(w[o])]
<1>1. ASSUME NEW o \in Cells(side), NEW c \in Channels
      PROVE  negative[o][c] \in {0} <=> w[o][c] \in Level \ {0}
  <2>1. w[o][c] \in {0, 255} /\ negative[o][c] = 255 - w[o][c]
    BY DEF Opposite
  <2>. QED BY <2>1 DEF Level
<1>. HIDE DEF negative
<1>2. Detected(negative, matrix, side, {0}) <=> Detected(w, matrix, side, Level \ {0})
  BY <1>1 DEF Detected
<1>3. Opposite(Grey(255)) = Grey(0) /\ Opposite(Grey(0)) = Grey(255)
  BY DEF Opposite, Grey
<1>4. ErodeKernel(negative, matrix, side) = Opposite(DilateKernel(w, matrix, side))
  BY <1>2, <1>3 DEF ErodeKernel, DilateKernel
<1>. QED
  BY <1>4 DEF negative
=============================================================================
