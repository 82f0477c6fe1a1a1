------------------------------- MODULE AreaMC -------------------------------
(***************************************************************************)
(* algo_conv and algo_bindilate on small images.  An image of levels is    *)
(* given to algo_conv and one of colours to algo_bindilate.                *)
(*   algo_conv        the matrix emboss1-matrix of imsh.scm, a divisor     *)
(*                    that leaves remainders of both signs and a shift     *)
(*                    that keeps them visible, on images with at most two  *)
(*                    pixels that are not 100                              *)
(*   algo_bindilate   the full matrix that test10.scm passes, one corner   *)
(*                    left out so that the orientation of the matrix       *)
(*                    shows, on drawings in black and white or blue        *)
(***************************************************************************)
EXTENDS AreaFilter, Kernels

Sample(v) == [level |-> v]
Samples == {Sample(v) : v \in Level}
Spots == {[x \in Point |-> Sample(IF x = p THEN a ELSE IF x = q THEN b ELSE 100)] :
            p \in Point, q \in Point, a \in {0, 37, 255}, b \in {0, 101, 255}}

Black == Grey(0)
White == Grey(255)
Blue == [Black EXCEPT !["b"] = 255]
Inks == {Black, White, Blue}
(* Every drawing in black and one other colour; the rows below the third   *)
(* repeat it.                                                              *)
Drawings == UNION {{[x \in Point |-> d[<<x[1] % 3, x[2]>>]] : d \in [Cells(3) -> {Black, c}]} :
                     c \in {White, Blue}}

Mixed == Samples \cup Inks
MixedImages == Spots \cup Drawings
Drawn(pixel) == DOMAIN pixel = Channels

Emboss1 ==
  LET m == <<-2, -1, 0, -1, 1, 1, 0, 1, 2>> IN [p \in Cells(3) |-> m[3 * p[1] + p[2] + 1]]
Div == 2
Shift == 100
Corner == [p \in Cells(3) |-> IF p = <<0, 0>> THEN 0 ELSE 1]
MCKernel(w) ==
  IF Drawn(w[Centre(3)]) THEN DilateKernel(w, Corner, 3)
  ELSE Sample(ConvKernel([o \in Cells(3) |-> w[o]["level"]], Emboss1, 3, Div, Shift))

(* The pixels that a call of a filter that has returned has replaced.      *)
Convolved == IF ret = 0 /\ ~Drawn(orig[<<0, 0>>]) THEN Central ELSE {}
Dilated == IF ret = 0 /\ Drawn(orig[<<0, 0>>]) THEN Central ELSE {}
-----------------------------------------------------------------------------
(* The rule C gives for integer division: the quotient whose remainder is  *)
(* smaller than the divisor and has the sign of the dividend.              *)
IsQuotient(q, a, b) ==
  LET r == a - q * b IN
  /\ r < b /\ 0 - r < b
  /\ r = 0 \/ (r > 0) = (a > 0)

Quotients == -1000..1000   \* more than the sums of a window give

(* A filtered pixel is the weighted sum of its eight neighbours and itself *)
(* in the original image, divided and shifted; a result below 0 is 0 and   *)
(* one above 255 is 255 (test02.scm.desc).                                 *)
Normalised ==
  \A p \in Convolved :
    LET at(i, j) == orig[<<p[1] + i, p[2] + j>>]["level"]
        new == img[p]["level"]
        sum == (2 * at(1, 1) + at(1, 0) + at(0, 1) + at(0, 0))
                 - (2 * at(-1, -1) + at(-1, 0) + at(0, -1))
    IN  \E q \in Quotients :
          /\ IsQuotient(q, sum, Div)
          /\ \/ q + Shift \in Level /\ new = q + Shift
             \/ q + Shift < 0 /\ new = 0
             \/ q + Shift > 255 /\ new = 255

(* A pixel becomes white exactly when one of the neighbours the matrix     *)
(* names is not black in the original image; otherwise it becomes black.   *)
Spread ==
  \A p \in Dilated :
    LET near == {n \in Point : /\ n # p /\ n # <<p[1] - 1, p[2] - 1>>
                               /\ n[1] - p[1] \in -1..1 /\ n[2] - p[2] \in -1..1}
    IN  img[p] = IF \E n \in near : orig[n] # Black THEN White ELSE Black

(* Erosion is the dual of dilation: eroding the negative of an image gives *)
(* the negative of dilating it.                                            *)
Dual ==
  \A p \in Dilated :
    LET Negative(c) == [k \in Channels |-> 255 - c[k]]
        w == Window(orig, p[1], p[2])
    IN  ErodeKernel([o \in Cells(3) |-> Negative(w[o])], Corner, 3) = Negative(img[p])

(* Dilation spreads what is not black along the matrix, and erosion is its *)
(* dual: together they are the pair of filters the matrix stands for.      *)
Morphology == Spread /\ Dual
=============================================================================
