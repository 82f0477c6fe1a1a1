------------------------------ MODULE Kernels ------------------------------
(***************************************************************************)
(* What the area filters of imsh.c compute for one pixel from the window   *)
(* around it.  A window of side s is a function on (0..s-1) \X (0..s-1),   *)
(* indexed by row and column as the loops over j and i index it.  The      *)
(* channels of conv and med are filtered independently, so a sample is one *)
(* channel; dilation and erosion look at the three channels together.      *)
(***************************************************************************)
EXTENDS Integers, FiniteSets, Functions

Level == 0..255
Channels == {"r", "g", "b"}
Grey(v) == [c \in Channels |-> v]
Cells(side) == (0..(side - 1)) \X (0..(side - 1))
Centre(side) == <<side \div 2, side \div 2>>
-----------------------------------------------------------------------------
(* Mutation: the quotient rounds down.                                     *)
CDiv_Floor(a, b) == IF b > 0 THEN a \div b ELSE (0 - a) \div (0 - b)

(* The quotient of C rounds towards zero.                                  *)
CDiv(a, b) ==
  LET Abs(n) == IF n < 0 THEN 0 - n ELSE n
      q == Abs(a) \div Abs(b)
  IN  IF (a < 0) = (b < 0) THEN q ELSE 0 - q

(* Mutation: the bounds are not applied.                                   *)
Clamp_None(v) == v

Clamp(v) == IF v < 0 THEN 0 ELSE IF v > 255 THEN 255 ELSE v

(* f[0] + ... + f[n - 1], as a loop adds them up.                          *)
SumUpTo(f, n) ==
  LET sum[k \in 0..n] == IF k = 0 THEN 0 ELSE sum[k - 1] + f[k - 1] IN sum[n]

(* The cells of a window in the order of the loops over j and i.           *)
CellAt(side, n) == <<n \div side, n % side>>

(* algo_conv: the weighted sum, divided, shifted and clamped.              *)
WeightedSum(w, matrix, side) ==
  SumUpTo([n \in 0..(side * side - 1) |-> w[CellAt(side, n)] * matrix[CellAt(side, n)]],
          side * side)
ConvKernel(w, matrix, side, div, shift) == Clamp(shift + CDiv(WeightedSum(w, matrix, side), div))
-----------------------------------------------------------------------------
(* The element at index k, from zero, of the sorted samples of w.          *)
SortedAt(w, k) ==
  CHOOSE v \in Range(w) :
    /\ Cardinality({p \in DOMAIN w : w[p] < v}) <= k
    /\ k < Cardinality({p \in DOMAIN w : w[p] <= v})

(* Mutation: the last element of the sorted window.                        *)
MiddleIndex_Last(side) == side * side - 1

(* algo_med: the index it calls the middle of the sorted window.           *)
MiddleIndex(side) == 1 + (side * side) \div 2
MedianKernel(w, side) == SortedAt(w, MiddleIndex(side))
-----------------------------------------------------------------------------
(* Mutation: only the red channel is looked at.                            *)
Detected_RedOnly(w, matrix, side, seen) ==
  \E p \in Cells(side) \ {Centre(side)} : matrix[p] # 0 /\ w[p]["r"] \in seen

(* _ERODE_DILATE_GENERIC_ALGO: some cell of the matrix other than its      *)
(* centre lies over a pixel with a channel at one of the levels that       *)
(* __ISCOND holds for.                                                     *)
Detected(w, matrix, side, seen) ==
  \E p \in Cells(side) \ {Centre(side)} :
    matrix[p] # 0 /\ \E c \in Channels : w[p][c] \in seen

DilateKernel(w, matrix, side) ==
  IF Detected(w, matrix, side, Level \ {0}) THEN Grey(255) ELSE Grey(0)

(* Mutation: __RESYES and __RESNO are those of dilation.                   *)
ErodeKernel_Unswapped(w, matrix, side) ==
  IF Detected(w, matrix, side, {0}) THEN Grey(255) ELSE Grey(0)

ErodeKernel(w, matrix, side) ==
  IF Detected(w, matrix, side, {0}) THEN Grey(0) ELSE Grey(255)
=============================================================================
