---------------------------- MODULE PointFilters ----------------------------
(***************************************************************************)
(* The filters of imsh.c that compute a pixel from the pixel itself, from  *)
(* the same pixel of another image, or from its square.  An image is a     *)
(* function from points <<row, col>>, both from zero, to colours.  Lengths *)
(* of colour vectors are compared and rounded as the code's doubles are,   *)
(* but by their squares.                                                   *)
(***************************************************************************)
EXTENDS Kernels, FiniteSetsExt

Black == Grey(0)
White == Grey(255)

Colour == [Channels -> Level]

Height(img) == 1 + Max({p[1] : p \in DOMAIN img})
Width(img) == 1 + Max({p[2] : p \in DOMAIN img})

(* A bitmap has at least one pixel, and its points are a rectangle.        *)
IsImage(img) ==
  /\ Height(img) \in Nat \ {0} /\ Width(img) \in Nat \ {0}
  /\ img \in [(0..(Height(img) - 1)) \X (0..(Width(img) - 1)) -> Colour]

(* The square of RGBLEN, at most 3 * 255^2.                                *)
Length2(c) == c["r"] * c["r"] + c["g"] * c["g"] + c["b"] * c["b"]
MaxLength2 == 195075
Isqrt(n) == CHOOSE k \in 0..n : k * k <= n /\ n < (k + 1) * (k + 1)
-----------------------------------------------------------------------------
(* algo_bw: lighter than threshold percent of the length of white.         *)
Light(c, threshold) ==
  \/ threshold < 0
  \/ threshold < 100 /\ 10000 * Length2(c) > threshold * threshold * MaxLength2
Bw(img, threshold) ==
  [p \in DOMAIN img |-> IF Light(img[p], threshold) THEN White ELSE Black]

Gr(img) == [p \in DOMAIN img |-> Grey(Isqrt(Length2(img[p]) \div 3))]

Negative(c) == [k \in Channels |-> 255 - c[k]]
Neg(img) == [p \in DOMAIN img |-> Negative(img[p])]

(* algo_ch: the bits of chans are ...RGB.                                  *)
Chosen(chans, k) == (chans \div (CASE k = "r" -> 4 [] k = "g" -> 2 [] k = "b" -> 1)) % 2 = 1
Ch(img, chans) ==
  [p \in DOMAIN img |-> [k \in Channels |-> IF Chosen(chans, k) THEN img[p][k] ELSE 0]]

(* algo_grl: the length is rounded down to a multiple of the band.  The    *)
(* band is zero, and the division traps, above 441 levels.                 *)
Band(nlevels) == Isqrt(MaxLength2) \div nlevels

(* Mutation: the remainder for the quotient.                               *)
GreyLevel_Remainder(c, band) == Isqrt(((Isqrt(Length2(c)) % band) ^ 2) \div 3)

GreyLevel(c, band) ==
  LET l == band * (Isqrt(Length2(c)) \div band) IN Isqrt((l * l) \div 3)
Grl(img, nlevels) == [p \in DOMAIN img |-> Grey(GreyLevel(img[p], Band(nlevels)))]
-----------------------------------------------------------------------------
(* algo_pix: the squares at the right and at the bottom reach out of the   *)
(* image.  FreeImage_GetPixelColor leaves rgb alone there, so the colour   *)
(* read last is summed once more, and the sum is divided by the full area. *)
Square(p, side) == <<p[1] - (p[1] % side), p[2] - (p[2] % side)>>

(* Mutation: rgb still holds the colour of the square before.              *)
LastRead_Stale(img, o, side, p) ==
  IF p \in DOMAIN img THEN p ELSE <<0, 0>>

(* The point whose colour rgb holds when the loops over the square at o    *)
(* have come to p.                                                         *)
LastRead(img, o, side, p) ==
  LET right == Min({o[2] + side, Width(img)}) - 1
      bottom == Height(img) - 1
  IN  IF p[1] > bottom THEN <<bottom, right>> ELSE <<p[1], Min({p[2], right})>>

Mean(img, o, side) ==
  LET read(n) == LastRead(img, o, side, <<o[1] + (n \div side), o[2] + (n % side)>>)
  IN  [k \in Channels |->
         SumUpTo([n \in 0..(side * side - 1) |-> img[read(n)][k]], side * side) \div (side * side)]

Pix(img, side, color) ==
  LET c == [o \in {Square(p, side) : p \in DOMAIN img} |-> Mean(img, o, side)]
      half == Isqrt(MaxLength2) \div 2
      shade(m) == IF color # 0 THEN m ELSE IF Length2(m) > half * half THEN White ELSE Black
  IN  [p \in DOMAIN img |-> shade(c[Square(p, side)])]
-----------------------------------------------------------------------------
(* Binary images: a pixel is in the set when its red channel is not zero   *)
(* (__GETBIT); the result is white or black (__SETBIT).                    *)
Bit(c) == c["r"] # 0
Paint(bit) == IF bit THEN White ELSE Black

BinNot(img) == [p \in DOMAIN img |-> Paint(~Bit(img[p]))]

(* Mutation: subtraction is a symmetric difference.                        *)
BinOp_SubIsXor(op, a, b) ==
  CASE op = "and" -> a /\ b [] op = "or" -> a \/ b [] op \in {"xor", "sub"} -> a # b

BinOp(op, a, b) ==
  CASE op = "and" -> a /\ b
    [] op = "or"  -> a \/ b
    [] op = "xor" -> a # b
    [] op = "sub" -> a /\ (a # b)

(* algo_binop2: the points both images have; the rest of img1 is kept.     *)
BinOp2(op, img1, img2) ==
  [p \in DOMAIN img1 |->
     IF p \in DOMAIN img2 THEN Paint(BinOp(op, Bit(img1[p]), Bit(img2[p]))) ELSE img1[p]]
=============================================================================
