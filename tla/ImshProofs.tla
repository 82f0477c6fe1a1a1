----------------------------- MODULE ImshProofs -----------------------------
(***************************************************************************)
(* What the img_* functions do, for every set of images, arguments and     *)
(* matrices: lemmas about the filters first, then the invariants and the   *)
(* action properties of Imsh.                                              *)
(***************************************************************************)
EXTENDS Imsh, KernelProofs

(* Points, images of bytes, and the entries of a dithering matrix.         *)
Points(img) == (0..(Height(img) - 1)) \X (0..(Width(img) - 1))
Entries == [dx : Int, dy : Int, n : Int, d : Nat \ {0}]

LEMMA MinOfTwo ==
  ASSUME NEW a \in Int, NEW b \in Int
  PROVE  Min({a, b}) = IF a <= b THEN a ELSE b
<1>1. CASE a <= b
  <2>1. \A x \in {a, b} : (\A y \in {a, b} : x <= y) => x = a
    BY <1>1
  <2>. QED BY <1>1, <2>1 DEF Min
<1>2. CASE ~ (a <= b)
  <2>1. \A x \in {a, b} : (\A y \in {a, b} : x <= y) => x = b
    BY <1>2
  <2>. QED BY <1>2, <2>1 DEF Min
<1>. QED
  BY <1>1, <1>2

(* The size of an image is that of its points.                             *)
LEMMA ImageOfPoints ==
  ASSUME NEW img, IsImage(img), NEW new \in [DOMAIN img -> Colour]
  PROVE  /\ IsImage(new)
         /\ DOMAIN new = DOMAIN img
         /\ Height(new) = Height(img) /\ Width(new) = Width(img)
<1>1. DOMAIN new = DOMAIN img
  OBVIOUS
<1>2. Height(new) = Height(img) /\ Width(new) = Width(img)
  BY <1>1 DEF Height, Width
<1>3. DOMAIN img = Points(img)
  BY DEF IsImage, Points
<1>. QED
  BY <1>1, <1>2, <1>3 DEF IsImage, Points

LEMMA ImageType ==
  ASSUME NEW img, IsImage(img)
  PROVE  /\ Height(img) \in Nat \ {0} /\ Width(img) \in Nat \ {0}
         /\ DOMAIN img = Points(img)
         /\ img \in [Points(img) -> Colour]
         /\ img \in [DOMAIN img -> Colour]
  BY DEF IsImage, Points

LEMMA ColourType ==
  ASSUME NEW c \in Colour, NEW k \in Channels
  PROVE  c[k] \in Level /\ c[k] \in 0..255 /\ c[k] \in Int
  BY DEF Colour, Level

LEMMA GreyType ==
  ASSUME NEW v \in Level
  PROVE  Grey(v) \in Colour
  BY DEF Grey, Colour

LEMMA BlackAndWhite ==
  /\ Black \in Colour /\ White \in Colour
  /\ Black # White
  BY DEF Black, White, Grey, Colour, Level, Channels
-----------------------------------------------------------------------------
(* The square root is that of algo_gr, rounded down.                       *)
LEMMA IsqrtIs ==
  ASSUME NEW n \in Nat
  PROVE  /\ Isqrt(n) \in Nat
         /\ Isqrt(n) * Isqrt(n) <= n
         /\ n < (Isqrt(n) + 1) * (Isqrt(n) + 1)
<1>. DEFINE T == {k \in Nat : n < (k + 1) * (k + 1)}
<1>1. n \in T
  OBVIOUS
<1>2. PICK k \in T : \A j \in T : k <= j
  <2>1. T \in SUBSET Nat
    OBVIOUS
  <2>. HIDE DEF T
  <2>. QED BY <1>1, <2>1, LeastElement
<1>3. k * k <= n
  <2>1. CASE k = 0
    BY <2>1
  <2>2. CASE k # 0
    <3>1. k - 1 \in Nat /\ k - 1 \notin T
      BY <2>2, <1>2
    <3>. QED BY <3>1
  <2>. QED BY <2>1, <2>2
<1>4. k \in 0..n
  BY <1>1, <1>2
<1>5. \E j \in 0..n : j * j <= n /\ n < (j + 1) * (j + 1)
  BY <1>2, <1>3, <1>4
<1>6. Isqrt(n) \in 0..n /\ Isqrt(n) * Isqrt(n) <= n /\ n < (Isqrt(n) + 1) * (Isqrt(n) + 1)
  BY <1>5, Zenon DEF Isqrt
<1>. QED
  BY <1>6

LEMMA IsqrtMonotone ==
  ASSUME NEW m \in Nat, NEW n \in Nat, m <= n
  PROVE  Isqrt(m) <= Isqrt(n)
<1>. DEFINE a == Isqrt(m)
            b == Isqrt(n)
<1>1. a \in Nat /\ b \in Nat /\ a * a <= m /\ n < (b + 1) * (b + 1)
  BY IsqrtIs
<1>. HIDE DEF a, b
<1>2. SUFFICES ASSUME a > b PROVE FALSE
  BY <1>1 DEF a, b
<1>3. a * a >= (b + 1) * (b + 1)
  <2>1. a >= b + 1 /\ b + 1 >= 0
    BY <1>1, <1>2
  <2>2. a * a >= (b + 1) * a /\ (b + 1) * a >= (b + 1) * (b + 1)
    BY <1>1, <2>1
  <2>. QED BY <1>1, <2>2
<1>. QED
  BY <1>1, <1>3

LEMMA IsqrtBound ==
  ASSUME NEW n \in Nat, NEW k \in Nat, n <= k * k
  PROVE  Isqrt(n) <= k
<1>. DEFINE a == Isqrt(n)
<1>1. a \in Nat /\ a * a <= n
  BY IsqrtIs
<1>. HIDE DEF a
<1>2. SUFFICES ASSUME a >= k + 1 PROVE FALSE
  BY <1>1 DEF a
<1>3. a * a >= (k + 1) * a /\ (k + 1) * a >= (k + 1) * (k + 1)
  BY <1>1, <1>2
<1>. QED
  BY <1>1, <1>3

LEMMA MaxLength2Type ==
  MaxLength2 \in Nat
  BY SMT DEF MaxLength2

LEMMA Length2Type ==
  ASSUME NEW c \in Colour
  PROVE  Length2(c) \in Nat /\ Length2(c) <= MaxLength2
<1>1. "r" \in Channels /\ "g" \in Channels /\ "b" \in Channels
  BY DEF Channels
<1>2. c["r"] \in 0..255 /\ c["g"] \in 0..255 /\ c["b"] \in 0..255
  BY <1>1, ColourType
<1>3. ASSUME NEW v \in 0..255 PROVE v * v \in Nat /\ v * v <= 65025
  <2>1. v * v <= 255 * v /\ v * v >= 0
    OBVIOUS
  <2>. QED BY <2>1
<1>4. /\ c["r"] * c["r"] \in Nat /\ c["r"] * c["r"] <= 65025
      /\ c["g"] * c["g"] \in Nat /\ c["g"] * c["g"] <= 65025
      /\ c["b"] * c["b"] \in Nat /\ c["b"] * c["b"] <= 65025
  BY <1>2, <1>3
<1>5. \A i, j, k \in Nat : i <= 65025 /\ j <= 65025 /\ k <= 65025 => i + j + k \in Nat /\ i + j + k <= 195075
  OBVIOUS
<1>. QED
  BY <1>4, <1>5 DEF Length2, MaxLength2
-----------------------------------------------------------------------------
(* Every filter makes bytes: an image of the same points.                  *)
LEMMA NegativeType ==
  ASSUME NEW c \in Colour
  PROVE  Negative(c) \in Colour
<1>1. \A k \in Channels : 255 - c[k] \in Level
  BY ColourType DEF Level
<1>. QED
  BY <1>1 DEF Negative, Colour

(* A third of a squared length is at most the square of 255.               *)
LEMMA GreyOfLength ==
  ASSUME NEW n \in Nat, n <= MaxLength2
  PROVE  n \div 3 \in Nat /\ Isqrt(n \div 3) \in Level
<1>1. n \div 3 \in Nat /\ n \div 3 <= 255 * 255
  BY DEF MaxLength2
<1>2. Isqrt(n \div 3) \in Nat /\ Isqrt(n \div 3) <= 255
  BY <1>1, IsqrtIs, IsqrtBound
<1>. QED
  BY <1>1, <1>2 DEF Level

(* The rounded length that algo_grl keeps.                                 *)
Rounded(c, band) == band * (Isqrt(Length2(c)) \div band)

LEMMA RoundedIs ==
  ASSUME NEW c \in Colour, NEW band \in Nat \ {0}
  PROVE  /\ Rounded(c, band) \in Nat
         /\ Rounded(c, band) <= Isqrt(Length2(c))
         /\ Rounded(c, band) * Rounded(c, band) \in Nat
         /\ Rounded(c, band) * Rounded(c, band) <= Length2(c)
         /\ GreyLevel(c, band) = Isqrt((Rounded(c, band) * Rounded(c, band)) \div 3)
<1>. DEFINE a == Isqrt(Length2(c))
            l == Rounded(c, band)
<1>1. Length2(c) \in Nat /\ a \in Nat /\ a * a <= Length2(c)
  BY Length2Type, IsqrtIs
<1>2. l = band * (a \div band)
  BY DEF Rounded
<1>. HIDE DEF a, l
<1>3. l \in Nat /\ l <= a
  BY <1>1, <1>2
<1>4. l * l \in Nat /\ l * l <= l * a /\ l * a <= a * a
  BY <1>1, <1>3
<1>5. l * l <= Length2(c)
  <2>1. l * a \in Int /\ a * a \in Int
    BY <1>1, <1>3
  <2>. QED BY <1>1, <1>4, <2>1
<1>6. GreyLevel(c, band) = Isqrt((l * l) \div 3)
  BY DEF GreyLevel, Rounded, l
<1>. QED
  BY <1>3, <1>4, <1>5, <1>6 DEF a, l

LEMMA GreyLevelType ==
  ASSUME NEW c \in Colour, NEW band \in Nat \ {0}
  PROVE  GreyLevel(c, band) \in Level
<1>1. Rounded(c, band) * Rounded(c, band) <= MaxLength2
  <2>1. Length2(c) \in Nat /\ Length2(c) <= MaxLength2 /\ MaxLength2 \in Nat
    BY Length2Type, MaxLength2Type
  <2>. QED BY <2>1, RoundedIs
<1>. QED
  BY <1>1, RoundedIs, GreyOfLength

(* The band of levels is at least one.                                     *)
LEMMA BandType ==
  ASSUME NEW n \in Int, n > 0, Band(n) # 0
  PROVE  Band(n) \in Nat \ {0}
<1>1. Isqrt(MaxLength2) \in Nat
  BY IsqrtIs, MaxLength2Type
<1>2. Band(n) \in Nat
  BY <1>1 DEF Band
<1>. QED
  BY <1>2

LEMMA PointFilterTypes ==
  ASSUME NEW img, img \in [DOMAIN img -> Colour], NEW n
  PROVE  /\ Bw(img, n) \in [DOMAIN img -> Colour]
         /\ Gr(img) \in [DOMAIN img -> Colour]
         /\ Neg(img) \in [DOMAIN img -> Colour]
         /\ Ch(img, n) \in [DOMAIN img -> Colour]
         /\ BinNot(img) \in [DOMAIN img -> Colour]
<1>1. Bw(img, n) \in [DOMAIN img -> Colour]
  BY BlackAndWhite DEF Bw
<1>2. Gr(img) \in [DOMAIN img -> Colour]
  <2>1. ASSUME NEW p \in DOMAIN img PROVE Grey(Isqrt(Length2(img[p]) \div 3)) \in Colour
    <3>1. img[p] \in Colour
      OBVIOUS
    <3>. QED BY <3>1, Length2Type, GreyOfLength, GreyType
  <2>. QED BY <2>1 DEF Gr
<1>3. Neg(img) \in [DOMAIN img -> Colour]
  BY NegativeType DEF Neg
<1>4. Ch(img, n) \in [DOMAIN img -> Colour]
  <2>1. ASSUME NEW p \in DOMAIN img, NEW k \in Channels
        PROVE  (IF Chosen(n, k) THEN img[p][k] ELSE 0) \in Level
    <3>1. img[p][k] \in Level
      BY ColourType
    <3>. QED BY <3>1 DEF Level
  <2>. QED BY <2>1 DEF Ch, Colour
<1>5. BinNot(img) \in [DOMAIN img -> Colour]
  BY BlackAndWhite DEF BinNot, Paint
<1>. QED
  BY <1>1, <1>2, <1>3, <1>4, <1>5

LEMMA GrlType ==
  ASSUME NEW img, img \in [DOMAIN img -> Colour], NEW n \in Int, n > 0, Band(n) # 0
  PROVE  Grl(img, n) \in [DOMAIN img -> Colour]
BY BandType, GreyLevelType, GreyType DEF Grl

LEMMA BinOp2Type ==
  ASSUME NEW img1, img1 \in [DOMAIN img1 -> Colour], NEW img2, NEW op
  PROVE  BinOp2(op, img1, img2) \in [DOMAIN img1 -> Colour]
BY BlackAndWhite DEF BinOp2, Paint
-----------------------------------------------------------------------------
(* The squares of algo_pix.                                                *)
LEMMA ModMultiple ==
  ASSUME NEW s \in Nat \ {0}, NEW a \in Nat
  PROVE  s * a \in Nat /\ (s * a) % s = 0
  OBVIOUS

LEMMA ModOffset ==
  ASSUME NEW s \in Nat \ {0}, NEW a \in Nat, a % s = 0, NEW i \in 0..(s - 1)
  PROVE  (a + i) % s = i
<1>. DEFINE k == a \div s
            q == (a + i) \div s
            r == (a + i) % s
<1>1. a = s * k /\ k \in Int
  OBVIOUS
<1>2. a + i = s * q + r /\ q \in Int /\ r \in 0..(s - 1)
  OBVIOUS
<1>. HIDE DEF k, q, r
<1>3. s * (q - k) = i - r
  BY <1>1, <1>2
<1>4. ~ (q - k >= 1)
  <2>1. SUFFICES ASSUME q - k >= 1 PROVE FALSE
    OBVIOUS
  <2>2. s * (q - k) >= s
    BY <2>1, <1>1, <1>2
  <2>. QED BY <2>2, <1>2, <1>3
<1>5. ~ (q - k <= -1)
  <2>1. SUFFICES ASSUME q - k <= -1 PROVE FALSE
    OBVIOUS
  <2>2. s * (q - k) <= 0 - s
    BY <2>1, <1>1, <1>2
  <2>. QED BY <2>2, <1>2, <1>3
<1>6. q - k = 0
  BY <1>1, <1>2, <1>4, <1>5
<1>7. i = r
  BY <1>2, <1>3, <1>6
<1>. QED
  BY <1>7 DEF r

LEMMA SquareIs ==
  ASSUME NEW side \in Nat \ {0}, NEW p \in Nat \X Nat
  PROVE  LET o == Square(p, side) IN
         /\ o = <<o[1], o[2]>> /\ o[1] \in Nat /\ o[2] \in Nat
         /\ o[1] % side = 0 /\ o[2] % side = 0
         /\ o[1] <= p[1] /\ p[1] < o[1] + side
         /\ o[2] <= p[2] /\ p[2] < o[2] + side
<1>1. ASSUME NEW a \in Nat
      PROVE  a - (a % side) \in Nat /\ (a - (a % side)) % side = 0
               /\ a - (a % side) <= a /\ a < a - (a % side) + side
  <2>. DEFINE q == a \div side
  <2>1. a % side \in 0..(side - 1) /\ a = side * q + (a % side) /\ q \in Nat
    OBVIOUS
  <2>. HIDE DEF q
  <2>2. a - (a % side) = side * q
    BY <2>1
  <2>3. (side * q) % side = 0 /\ side * q \in Nat
    BY <2>1
  <2>. QED BY <2>1, <2>2, <2>3
<1>. QED
  BY <1>1 DEF Square

(* The points of the square that p is in are those with the same corner.   *)
LEMMA InSquare ==
  ASSUME NEW side \in Nat \ {0}, NEW p \in Nat \X Nat, NEW q \in Nat \X Nat,
         Square(p, side)[1] <= q[1], q[1] < Square(p, side)[1] + side,
         Square(p, side)[2] <= q[2], q[2] < Square(p, side)[2] + side
  PROVE  Square(q, side) = Square(p, side)
<1>. DEFINE o == Square(p, side)
<1>1. /\ o = <<o[1], o[2]>> /\ o[1] \in Nat /\ o[2] \in Nat
      /\ o[1] % side = 0 /\ o[2] % side = 0
  BY SquareIs
<1>. HIDE DEF o
<1>2. q[1] - o[1] \in 0..(side - 1) /\ q[2] - o[2] \in 0..(side - 1)
  BY <1>1 DEF o
<1>3. (o[1] + (q[1] - o[1])) % side = q[1] - o[1]
  BY <1>1, <1>2, ModOffset
<1>4. (o[2] + (q[2] - o[2])) % side = q[2] - o[2]
  BY <1>1, <1>2, ModOffset
<1>5. q[1] - (q[1] % side) = o[1] /\ q[2] - (q[2] % side) = o[2]
  BY <1>1, <1>2, <1>3, <1>4
<1>6. Square(q, side) = o
  BY <1>1, <1>5 DEF Square
<1>. QED
  BY <1>6 DEF o

(* The points whose colours algo_pix sums are points of the square, inside *)
(* the image.                                                              *)
LEMMA LastReadIn ==
  ASSUME NEW img, IsImage(img), NEW side \in Nat \ {0}, NEW p \in DOMAIN img,
         NEW i \in 0..(side - 1), NEW j \in 0..(side - 1)
  PROVE  LET o == Square(p, side)
             q == LastRead(img, o, side, <<o[1] + i, o[2] + j>>)
         IN  q \in DOMAIN img /\ Square(q, side) = o
<1>. DEFINE o == Square(p, side)
            right == Min({o[2] + side, Width(img)}) - 1
            bottom == Height(img) - 1
            q == LastRead(img, o, side, <<o[1] + i, o[2] + j>>)
<1>1. /\ Height(img) \in Nat \ {0} /\ Width(img) \in Nat \ {0}
      /\ DOMAIN img = (0..(Height(img) - 1)) \X (0..(Width(img) - 1))
  BY ImageType DEF Points
<1>2. p \in Nat \X Nat /\ p[1] <= bottom /\ p[2] <= Width(img) - 1
  BY <1>1
<1>3. /\ o[1] \in Nat /\ o[2] \in Nat
      /\ o[1] <= p[1] /\ p[1] < o[1] + side /\ o[2] <= p[2] /\ p[2] < o[2] + side
  BY <1>2, SquareIs
<1>4. q = IF o[1] + i > bottom THEN <<bottom, right>> ELSE <<o[1] + i, Min({o[2] + j, right})>>
  BY DEF LastRead
<1>. HIDE DEF o, q
<1>5. right \in Nat /\ o[2] <= right /\ right < o[2] + side /\ right <= Width(img) - 1
  <2>1. o[2] + side \in Int /\ Width(img) \in Int
    BY <1>1, <1>3
  <2>2. Min({o[2] + side, Width(img)}) = IF o[2] + side <= Width(img) THEN o[2] + side ELSE Width(img)
    BY <2>1, MinOfTwo
  <2>. QED BY <2>2, <1>1, <1>2, <1>3
<1>. HIDE DEF right
<1>6. Min({o[2] + j, right}) = IF o[2] + j <= right THEN o[2] + j ELSE right
  BY <1>3, <1>5, MinOfTwo
<1>7. /\ q \in (0..(Height(img) - 1)) \X (0..(Width(img) - 1))
      /\ o[1] <= q[1] /\ q[1] < o[1] + side /\ o[2] <= q[2] /\ q[2] < o[2] + side
  BY <1>1, <1>2, <1>3, <1>4, <1>5, <1>6
<1>8. q \in Nat \X Nat
  BY <1>1, <1>7
<1>9. Square(q, side) = o
  BY <1>2, <1>7, <1>8, InSquare DEF o
<1>. QED
  BY <1>1, <1>7, <1>9 DEF o, q

(* A mean lies between bounds of what algo_pix sums for it.                *)
LEMMA MeanBounds ==
  ASSUME NEW img, IsImage(img), NEW side \in Nat \ {0}, NEW p \in DOMAIN img, NEW k \in Channels,
         NEW lo \in Int, NEW hi \in Int,
         \A q \in DOMAIN img : Square(q, side) = Square(p, side) => lo <= img[q][k] /\ img[q][k] <= hi
  PROVE  LET mean == Mean(img, Square(p, side), side)[k] IN
         mean \in Int /\ lo <= mean /\ mean <= hi
<1>. DEFINE o == Square(p, side)
            read(n) == LastRead(img, o, side, <<o[1] + (n \div side), o[2] + (n % side)>>)
            N == side * side
            f == [n \in 0..(N - 1) |-> img[read(n)][k]]
            mean == Mean(img, o, side)[k]
<1>1. mean = SumUpTo(f, N) \div N
  BY DEF Mean
<1>2. N \in Nat \ {0}
  OBVIOUS
<1>3. ASSUME NEW n \in 0..(N - 1)
      PROVE  img[read(n)][k] \in Int /\ lo <= img[read(n)][k] /\ img[read(n)][k] <= hi
  <2>1. n \div side \in 0..(side - 1) /\ n % side \in 0..(side - 1)
    BY CellAtIn DEF CellAt, Cells
  <2>2. read(n) \in DOMAIN img /\ Square(read(n), side) = o
    BY <2>1, LastReadIn
  <2>. HIDE DEF read, o
  <2>3. img[read(n)] \in Colour
    BY <2>2, ImageType
  <2>4. img[read(n)][k] \in Int
    BY <2>3, ColourType
  <2>. QED BY <2>2, <2>4 DEF o
<1>. HIDE DEF read, N, mean
<1>4. f \in [0..(N - 1) -> Int] /\ \A n \in 0..(N - 1) : lo <= f[n] /\ f[n] <= hi
  BY <1>3
<1>. HIDE DEF f
<1>5. SumUpTo(f, N) \in Int /\ lo * N <= SumUpTo(f, N) /\ SumUpTo(f, N) <= hi * N
  BY <1>2, <1>4, SumUpToType, SumUpToBounds
<1>6. mean \in Int /\ lo <= mean /\ mean <= hi
  <2>. DEFINE s == SumUpTo(f, N)
  <2>1. s \in Int /\ lo * N <= s /\ s <= hi * N /\ mean = s \div N
    BY <1>1, <1>5
  <2>. HIDE DEF s
  <2>2. mean \in Int /\ N * mean <= s /\ s < N * mean + N
    BY <1>2, <2>1
  <2>3. ~ (mean <= lo - 1)
    <3>1. SUFFICES ASSUME mean <= lo - 1 PROVE FALSE
      OBVIOUS
    <3>2. N * mean <= N * (lo - 1)
      BY <1>2, <2>2, <3>1
    <3>. QED BY <1>2, <2>1, <2>2, <3>2
  <2>4. ~ (mean >= hi + 1)
    <3>1. SUFFICES ASSUME mean >= hi + 1 PROVE FALSE
      OBVIOUS
    <3>2. N * mean >= N * (hi + 1)
      BY <1>2, <2>2, <3>1
    <3>. QED BY <1>2, <2>1, <2>2, <3>2
  <2>. QED BY <2>2, <2>3, <2>4
<1>. QED
  BY <1>6 DEF mean

LEMMA MeanType ==
  ASSUME NEW img, IsImage(img), NEW side \in Nat \ {0}, NEW p \in DOMAIN img
  PROVE  Mean(img, Square(p, side), side) \in Colour
<1>1. ASSUME NEW k \in Channels PROVE Mean(img, Square(p, side), side)[k] \in Level
  <2>1. \A q \in DOMAIN img : 0 <= img[q][k] /\ img[q][k] <= 255
    BY ImageType, ColourType
  <2>2. 0 \in Int /\ 255 \in Int
    OBVIOUS
  <2>. DEFINE mean == Mean(img, Square(p, side), side)[k]
  <2>3. mean \in Int /\ 0 <= mean /\ mean <= 255
    BY <2>1, <2>2, MeanBounds
  <2>. HIDE DEF mean
  <2>4. mean \in Level
    BY <2>3 DEF Level
  <2>. QED BY <2>4 DEF mean
<1>2. Mean(img, Square(p, side), side) = [k \in Channels |-> Mean(img, Square(p, side), side)[k]]
  BY DEF Mean
<1>. QED
  BY <1>1, <1>2 DEF Colour

(* What algo_pix makes of a pixel.                                         *)
PixShade(m, color) ==
  LET half == Isqrt(MaxLength2) \div 2
  IN  IF color # 0 THEN m ELSE IF Length2(m) > half * half THEN White ELSE Black

LEMMA PixIs ==
  ASSUME NEW img, NEW side, NEW color
  PROVE  Pix(img, side, color)
           = [p \in DOMAIN img |-> PixShade(Mean(img, Square(p, side), side), color)]
BY DEF Pix, PixShade

LEMMA PixType ==
  ASSUME NEW img, IsImage(img), NEW side \in Nat \ {0}, NEW color
  PROVE  Pix(img, side, color) \in [DOMAIN img -> Colour]
<1>1. \A p \in DOMAIN img : PixShade(Mean(img, Square(p, side), side), color) \in Colour
  BY MeanType, BlackAndWhite DEF PixShade
<1>. QED
  BY <1>1, PixIs
-----------------------------------------------------------------------------
(* The area filters.                                                       *)
Central(img, side) ==
  LET m == side \div 2
  IN  {p \in DOMAIN img : /\ m <= p[1] /\ p[1] + m < Height(img)
                          /\ m <= p[2] /\ p[2] + m < Width(img)}
WindowAt(img, side, p) ==
  [o \in Cells(side) |-> img[<<p[1] - (side \div 2) + o[1], p[2] - (side \div 2) + o[2]>>]]
ChannelAt(img, side, p, k) == [o \in Cells(side) |-> WindowAt(img, side, p)[o][k]]

(* The window of a central pixel lies in the image.                        *)
LEMMA WindowIn ==
  ASSUME NEW img, IsImage(img), NEW side \in Nat, side % 2 = 1, NEW p \in Central(img, side)
  PROVE  \A o \in Cells(side) :
           /\ <<p[1] - (side \div 2) + o[1], p[2] - (side \div 2) + o[2]>> \in DOMAIN img
           /\ WindowAt(img, side, p)[o]
                = img[<<p[1] - (side \div 2) + o[1], p[2] - (side \div 2) + o[2]>>]
           /\ WindowAt(img, side, p)[o] \in Colour
<1>. DEFINE m == side \div 2
<1>1. /\ Height(img) \in Nat \ {0} /\ Width(img) \in Nat \ {0}
      /\ DOMAIN img = (0..(Height(img) - 1)) \X (0..(Width(img) - 1))
  BY ImageType DEF Points
<1>2. /\ p \in (0..(Height(img) - 1)) \X (0..(Width(img) - 1))
      /\ m <= p[1] /\ p[1] + m < Height(img) /\ m <= p[2] /\ p[2] + m < Width(img)
  BY <1>1 DEF Central
<1>3. side = 2 * m + 1 /\ m \in Nat
  OBVIOUS
<1>. HIDE DEF m
<1>4. ASSUME NEW o \in Cells(side)
      PROVE <<p[1] - m + o[1], p[2] - m + o[2]>> \in DOMAIN img
  <2>1. o[1] \in 0..(side - 1) /\ o[2] \in 0..(side - 1)
    BY DEF Cells
  <2>2. p[1] - m + o[1] \in 0..(Height(img) - 1) /\ p[2] - m + o[2] \in 0..(Width(img) - 1)
    BY <1>1, <1>2, <1>3, <2>1
  <2>. QED BY <1>1, <2>2
<1>. QED
  BY <1>4, ImageType DEF WindowAt, m

LEMMA ChannelType ==
  ASSUME NEW img, IsImage(img), NEW side \in Nat, side % 2 = 1, NEW p \in Central(img, side),
         NEW k \in Channels
  PROVE  ChannelAt(img, side, p, k) \in [Cells(side) -> Level]
BY WindowIn, ColourType DEF ChannelAt

LEMMA MedIs ==
  ASSUME NEW img, NEW side
  PROVE  Med(img, side) =
           [p \in DOMAIN img |-> IF p \in Central(img, side)
              THEN [k \in Channels |-> MedianKernel(ChannelAt(img, side, p, k), side)] ELSE img[p]]
BY DEF Med, AreaFiltered, PerChannel, Central, ChannelAt, WindowAt

LEMMA ConvIs ==
  ASSUME NEW img, NEW list, NEW div, NEW shift
  PROVE  Conv(img, list, div, shift) =
           [p \in DOMAIN img |-> IF p \in Central(img, Side(list))
              THEN [k \in Channels |-> ConvKernel(ChannelAt(img, Side(list), p, k),
                                                  Matrix(list), Side(list), div, shift)]
              ELSE img[p]]
BY DEF Conv, AreaFiltered, PerChannel, Central, ChannelAt, WindowAt

LEMMA MorphologyIs ==
  ASSUME NEW img, NEW list
  PROVE  /\ BinDilate(img, list) =
              [p \in DOMAIN img |-> IF p \in Central(img, Side(list))
                 THEN DilateKernel(WindowAt(img, Side(list), p), Matrix(list), Side(list)) ELSE img[p]]
         /\ BinErode(img, list) =
              [p \in DOMAIN img |-> IF p \in Central(img, Side(list))
                 THEN ErodeKernel(WindowAt(img, Side(list), p), Matrix(list), Side(list)) ELSE img[p]]
BY DEF BinDilate, BinErode, AreaFiltered, Central, WindowAt

LEMMA MedType ==
  ASSUME NEW img, IsImage(img), NEW side \in Nat, side > 2, side % 2 = 1
  PROVE  Med(img, side) \in [DOMAIN img -> Colour]
<1>1. ASSUME NEW p \in Central(img, side)
      PROVE  [k \in Channels |-> MedianKernel(ChannelAt(img, side, p, k), side)] \in Colour
  BY ChannelType, MedianKernelType DEF Colour
<1>. QED
  BY <1>1, ImageType, MedIs

(* The matrix that a list makes, when it holds numbers only.               *)
LEMMA MatrixType ==
  ASSUME NEW list \in Seq(Int \cup {NotNum}), NotNum \notin Range(list)
  PROVE  Side(list) \in Nat /\ Matrix(list) \in [Cells(Side(list)) -> Int]
<1>. DEFINE s == Side(list)
<1>1. s \in Nat /\ s * s <= Len(list) /\ Len(list) \in Nat
  BY IsqrtIs DEF Side
<1>. HIDE DEF s
<1>2. ASSUME NEW o \in Cells(s) PROVE list[o[1] * s + o[2] + 1] \in Int
  <2>1. o[1] \in 0..(s - 1) /\ o[2] \in 0..(s - 1)
    BY DEF Cells
  <2>2. o[1] * s <= (s - 1) * s /\ o[1] * s \in Nat /\ (s - 1) * s = s * s - s
    BY <1>1, <2>1
  <2>3. o[1] * s + o[2] + 1 \in 1..Len(list)
    BY <1>1, <2>1, <2>2
  <2>. DEFINE n == o[1] * s + o[2] + 1
  <2>4. n \in 1..Len(list)
    BY <2>3
  <2>. HIDE DEF n
  <2>5. list[n] \in Int \cup {NotNum} /\ list[n] \in Range(list)
    BY <2>4 DEF Range
  <2>. QED BY <2>5 DEF n
<1>. QED
  BY <1>1, <1>2 DEF s, Matrix

LEMMA WithMatrixTypes ==
  ASSUME NEW img, IsImage(img), NEW list \in Seq(Int \cup {NotNum}), NotNum \notin Range(list),
         Side(list) > 2, Side(list) % 2 = 1
  PROVE  /\ BinDilate(img, list) \in [DOMAIN img -> Colour]
         /\ BinErode(img, list) \in [DOMAIN img -> Colour]
         /\ \A div \in Int, shift \in Int :
              div # 0 => Conv(img, list, div, shift) \in [DOMAIN img -> Colour]
<1>1. \A w : DilateKernel(w, Matrix(list), Side(list)) \in Colour
              /\ ErodeKernel(w, Matrix(list), Side(list)) \in Colour
  BY GreyType DEF DilateKernel, ErodeKernel, Level
<1>2. ASSUME NEW div \in Int, NEW shift \in Int, div # 0
      PROVE  Conv(img, list, div, shift) \in [DOMAIN img -> Colour]
  <2>1. ASSUME NEW p \in Central(img, Side(list)), NEW k \in Channels
        PROVE  ConvKernel(ChannelAt(img, Side(list), p, k), Matrix(list), Side(list), div, shift) \in Level
    <3>1. /\ Side(list) \in Nat /\ Matrix(list) \in [Cells(Side(list)) -> Int]
          /\ ChannelAt(img, Side(list), p, k) \in [Cells(Side(list)) -> Level]
      BY MatrixType, ChannelType
    <3>. QED BY <1>2, <3>1, ConvKernelType
  <2>2. ASSUME NEW p \in Central(img, Side(list))
        PROVE  [k \in Channels |-> ConvKernel(ChannelAt(img, Side(list), p, k),
                                              Matrix(list), Side(list), div, shift)] \in Colour
    BY <2>1 DEF Colour
  <2>. QED BY <2>2, ImageType, ConvIs
<1>3. BinDilate(img, list) \in [DOMAIN img -> Colour] /\ BinErode(img, list) \in [DOMAIN img -> Colour]
  <2>1. img \in [DOMAIN img -> Colour]
    BY ImageType
  <2>. QED BY <1>1, <2>1, MorphologyIs
<1>. QED
  BY <1>2, <1>3
-----------------------------------------------------------------------------
(* Dithering.  Errors are bytes added to bytes.                            *)
LEMMA BrightnessType ==
  ASSUME NEW c \in Colour
  PROVE  Brightness(c) \in Int
<1>1. "r" \in Channels /\ "g" \in Channels /\ "b" \in Channels
  BY DEF Channels
<1>. QED
  BY <1>1, ColourType DEF Brightness

LEMMA AddErrorType ==
  ASSUME NEW D, NEW img \in [D -> Colour], NEW p, NEW e \in Entries, NEW qerr \in Int
  PROVE  AddError(img, p, e, qerr) \in [D -> Colour]
<1>. DEFINE q == <<p[1] + e.dy, p[2] + e.dx>>
            sum == CDiv(Brightness(img[q]) * e.d + e.n * qerr, e.d)
<1>1. AddError(img, p, e, qerr)
        = IF q \in DOMAIN img THEN [img EXCEPT ![q] = Grey(Byte(sum))] ELSE img
  BY DEF AddError
<1>2. CASE q \in D
  <2>1. Brightness(img[q]) \in Int
    BY <1>2, BrightnessType
  <2>2. e.d \in Int /\ e.d # 0 /\ e.n \in Int
    BY DEF Entries
  <2>3. Brightness(img[q]) * e.d + e.n * qerr \in Int
    BY <2>1, <2>2
  <2>4. sum \in Int
    BY <2>2, <2>3, CDivType
  <2>. HIDE DEF sum, q
  <2>5. Byte(sum) \in Level
    BY <2>4 DEF Byte, Level
  <2>6. Grey(Byte(sum)) \in Colour
    BY <2>5, GreyType
  <2>. QED BY <1>1, <2>6
<1>3. CASE q \notin D
  BY <1>1, <1>3
<1>. QED
  BY <1>2, <1>3

(* The images between the entries of the matrix.                           *)
SpreadSteps(after, img, matrix, p, qerr) ==
  /\ after \in [0..Len(matrix) -> [DOMAIN img -> Colour]]
  /\ after[0] = img
  /\ \A i \in 1..Len(matrix) : after[i] = AddError(after[i - 1], p, matrix[i], qerr)
  /\ Spread(img, matrix, p, qerr) = after[Len(matrix)]

LEMMA SpreadHasSteps ==
  ASSUME NEW img, img \in [DOMAIN img -> Colour], NEW matrix \in Seq(Entries), NEW p, NEW qerr \in Int
  PROVE  \E after : SpreadSteps(after, img, matrix, p, qerr)
<1>. DEFINE S == [DOMAIN img -> Colour]
            N == Len(matrix)
            G == [x \in (1..N) \X S |-> AddError(x[2], p, matrix[x[1]], qerr)]
            Run == CHOOSE after : after = [i \in 0..N |-> IF i = 0 THEN img
                                             ELSE AddError(after[i - 1], p, matrix[i], qerr)]
<1>1. N \in Nat /\ img \in S
  OBVIOUS
<1>2. \A i \in 1..N, s \in S :
        G[<<i, s>>] = AddError(s, p, matrix[i], qerr) /\ AddError(s, p, matrix[i], qerr) \in S
  <2>1. ASSUME NEW i \in 1..N, NEW s \in S PROVE AddError(s, p, matrix[i], qerr) \in S
    <3>1. matrix[i] \in Entries
      OBVIOUS
    <3>. QED BY <3>1, AddErrorType
  <2>. QED BY <2>1
<1>3. Spread(img, matrix, p, qerr) = Run[N]
  BY DEF Spread
<1>. HIDE DEF S, G, N
<1>4. PICK f : Repeats(f, N, S, img, G)
  BY <1>1, <1>2, BoundedIteration
<1>5. f = [i \in 0..N |-> IF i = 0 THEN img ELSE AddError(f[i - 1], p, matrix[i], qerr)]
  <2>1. f \in [0..N -> S] /\ f = [i \in 0..N |-> IF i = 0 THEN img ELSE G[<<i, f[i - 1]>>]]
    BY <1>4 DEF Repeats
  <2>2. ASSUME NEW i \in 0..N
        PROVE  f[i] = IF i = 0 THEN img ELSE AddError(f[i - 1], p, matrix[i], qerr)
    <3>1. CASE i = 0
      BY <2>1, <3>1
    <3>2. CASE i # 0
      <4>1. i \in 1..N /\ i - 1 \in 0..N
        BY <1>1, <3>2
      <4>2. f[i] = G[<<i, f[i - 1]>>] /\ f[i - 1] \in S
        BY <2>1, <3>2, <4>1
      <4>. QED BY <1>2, <3>2, <4>1, <4>2
    <3>. QED BY <3>1, <3>2
  <2>. QED BY <2>1, <2>2
<1>6. Run = [i \in 0..N |-> IF i = 0 THEN img ELSE AddError(Run[i - 1], p, matrix[i], qerr)]
  BY <1>5
<1>. HIDE DEF Run
<1>7. 0..N \subseteq {i \in 0..N : Run[i] \in S}
  <2>. DEFINE T == {i \in 0..N : Run[i] \in S}
  <2>1. 0 \in T
    BY <1>1, <1>6
  <2>2. ASSUME NEW i \in 0..(N - 1), i \in T PROVE i + 1 \in T
    <3>1. i + 1 \in 1..N /\ i + 1 \in 0..N /\ (i + 1) - 1 = i /\ i + 1 # 0 /\ Run[i] \in S
      BY <1>1, <2>2
    <3>2. Run[i + 1] = AddError(Run[i], p, matrix[i + 1], qerr)
      BY <1>6, <3>1
    <3>. QED BY <1>2, <3>1, <3>2
  <2>. HIDE DEF T
  <2>3. 0..N \subseteq T
    BY <1>1, <2>1, <2>2, Induction
  <2>. QED BY <2>3 DEF T
<1>8. /\ Run \in [0..N -> S]
      /\ Run[0] = img
      /\ \A i \in 1..N : Run[i] = AddError(Run[i - 1], p, matrix[i], qerr)
  <2>1. Run \in [0..N -> S]
    BY <1>6, <1>7
  <2>2. Run[0] = img
    BY <1>1, <1>6
  <2>3. ASSUME NEW i \in 1..N PROVE Run[i] = AddError(Run[i - 1], p, matrix[i], qerr)
    <3>1. i \in 0..N /\ i # 0
      BY <1>1
    <3>. QED BY <1>6, <3>1
  <2>. QED BY <2>1, <2>2, <2>3
<1>9. SpreadSteps(Run, img, matrix, p, qerr)
  BY <1>3, <1>8 DEF SpreadSteps, N, S
<1>. QED
  BY <1>9

LEMMA SpreadType ==
  ASSUME NEW D, NEW img \in [D -> Colour], NEW matrix \in Seq(Entries), NEW p, NEW qerr \in Int
  PROVE  Spread(img, matrix, p, qerr) \in [D -> Colour]
<1>1. PICK after : SpreadSteps(after, img, matrix, p, qerr)
  BY SpreadHasSteps
<1>2. Len(matrix) \in 0..Len(matrix) /\ DOMAIN img = D
  OBVIOUS
<1>. QED
  BY <1>1, <1>2 DEF SpreadSteps

(* The scan meets every point of the image once.                           *)
LEMMA ScanIs ==
  ASSUME NEW img, IsImage(img)
  PROVE  /\ Len(Scan(img)) \in Nat
         /\ DOMAIN Scan(img) = 1..Len(Scan(img))
         /\ \A i \in 1..Len(Scan(img)) : Scan(img)[i] \in DOMAIN img
         /\ \A i, j \in 1..Len(Scan(img)) : Scan(img)[i] = Scan(img)[j] => i = j
         /\ \A p \in DOMAIN img : \E i \in 1..Len(Scan(img)) : Scan(img)[i] = p
<1>. DEFINE w == Width(img)
            h == Height(img)
            N == w * h
<1>1. /\ h \in Nat \ {0} /\ w \in Nat \ {0} /\ N \in Nat
      /\ DOMAIN img = (0..(h - 1)) \X (0..(w - 1))
  <2>1. h \in Nat \ {0} /\ w \in Nat \ {0}
    BY ImageType
  <2>2. DOMAIN img = (0..(h - 1)) \X (0..(w - 1))
    BY ImageType DEF Points
  <2>. HIDE DEF w, h
  <2>. QED BY <2>1, <2>2
<1>2. Scan(img) = [i \in 1..N |-> <<(i - 1) \div w, (i - 1) % w>>]
  BY DEF Scan
<1>. HIDE DEF w, h
<1>3. Len(Scan(img)) = N /\ DOMAIN Scan(img) = 1..N
  BY <1>1, <1>2
<1>4. ASSUME NEW i \in 1..N
      PROVE  /\ Scan(img)[i] = <<(i - 1) \div w, (i - 1) % w>>
             /\ (i - 1) \div w \in 0..(h - 1) /\ (i - 1) % w \in 0..(w - 1)
             /\ i - 1 = w * ((i - 1) \div w) + ((i - 1) % w)
  <2>1. i - 1 \in Nat /\ i - 1 < w * h
    BY <1>1
  <2>. DEFINE q == (i - 1) \div w
  <2>2. q \in Nat /\ (i - 1) % w \in 0..(w - 1) /\ i - 1 = w * q + ((i - 1) % w)
    BY <1>1, <2>1
  <2>. HIDE DEF q
  <2>3. ~ (q >= h)
    <3>1. SUFFICES ASSUME q >= h PROVE FALSE
      OBVIOUS
    <3>2. w * q >= w * h
      BY <1>1, <2>2, <3>1
    <3>. QED BY <1>1, <2>1, <2>2, <3>2
  <2>4. q \in 0..(h - 1)
    BY <1>1, <2>2, <2>3
  <2>. QED BY <1>2, <2>2, <2>4 DEF q
<1>5. ASSUME NEW p \in DOMAIN img PROVE \E i \in 1..N : Scan(img)[i] = p
  <2>1. p \in (0..(h - 1)) \X (0..(w - 1))
    BY <1>1
  <2>. DEFINE n == w * p[1] + p[2]
  <2>2. n \in Nat /\ n + 1 \in 1..N
    <3>1. p[1] \in Nat /\ p[1] <= h - 1 /\ p[2] \in Nat /\ p[2] <= w - 1
      BY <1>1, <2>1
    <3>2. w * p[1] <= w * (h - 1) /\ w * (h - 1) = w * h - w /\ w * p[1] \in Nat
      BY <1>1, <3>1
    <3>. QED BY <1>1, <3>1, <3>2
  <2>3. n % w = p[2]
    <3>1. w * p[1] \in Nat /\ p[2] \in 0..(w - 1) /\ p[1] \in Nat
      BY <1>1, <2>1
    <3>2. (w * p[1]) % w = 0
      BY <1>1, <3>1, ModMultiple
    <3>. QED BY <1>1, <3>1, <3>2, ModOffset
  <2>4. n \div w = p[1]
    <3>1. n = w * (n \div w) + (n % w) /\ n \div w \in Int
      BY <1>1, <2>2
    <3>2. w * (n \div w) = w * p[1]
      BY <1>1, <2>1, <2>3, <3>1
    <3>3. p[1] \in Int
      BY <1>1, <2>1
    <3>. HIDE DEF n
    <3>. QED BY <1>1, <3>1, <3>2, <3>3
  <2>5. Scan(img)[n + 1] = <<n \div w, n % w>>
    BY <1>2, <2>2
  <2>. HIDE DEF n
  <2>6. Scan(img)[n + 1] = p
    BY <2>1, <2>3, <2>4, <2>5
  <2>. QED BY <2>2, <2>6
<1>6. ASSUME NEW i \in 1..N, NEW j \in 1..N, Scan(img)[i] = Scan(img)[j] PROVE i = j
  <2>1. (i - 1) \div w = (j - 1) \div w /\ (i - 1) % w = (j - 1) % w
    BY <1>4, <1>6
  <2>2. i - 1 = j - 1
    BY <1>4, <2>1
  <2>. QED BY <1>1, <2>2
<1>7. \A i \in 1..N : Scan(img)[i] \in DOMAIN img
  BY <1>1, <1>4
<1>. HIDE DEF N
<1>. QED
  BY <1>1, <1>3, <1>5, <1>6, <1>7

(* The states between the points.                                          *)
DitherState(D) == [img : [D -> Colour], tmp : [D -> {0, 255}]]

LEMMA DitheredType ==
  ASSUME NEW D, NEW s \in DitherState(D), NEW matrix \in Seq(Entries), NEW p \in D
  PROVE  Dithered(s, matrix, p) \in DitherState(D)
<1>1. s.img \in [D -> Colour] /\ s.tmp \in [D -> {0, 255}] /\ s.img[p] \in Colour
  BY DEF DitherState
<1>2. ASSUME NEW new \in {0, 255}
      PROVE [img |-> Spread([s.img EXCEPT ![p] = Grey(new)], matrix, p, Brightness(s.img[p]) - new),
             tmp |-> [s.tmp EXCEPT ![p] = new]] \in DitherState(D)
  <2>1. [s.img EXCEPT ![p] = Grey(new)] \in [D -> Colour]
    <3>1. new \in Level
      BY DEF Level
    <3>2. Grey(new) \in Colour
      BY <3>1, GreyType
    <3>. QED BY <1>1, <3>2
  <2>2. Brightness(s.img[p]) - new \in Int
    BY <1>1, BrightnessType
  <2>3. Spread([s.img EXCEPT ![p] = Grey(new)], matrix, p, Brightness(s.img[p]) - new) \in [D -> Colour]
    BY <2>1, <2>2, SpreadType
  <2>4. [s.tmp EXCEPT ![p] = new] \in [D -> {0, 255}]
    BY <1>1
  <2>. QED BY <2>3, <2>4 DEF DitherState
<1>. QED
  BY <1>2 DEF Dithered

DitherStart(img) == [img |-> img, tmp |-> [p \in DOMAIN img |-> 0]]

DitherSteps(at, img, matrix) ==
  /\ at \in [0..Len(Scan(img)) -> DitherState(DOMAIN img)]
  /\ at[0] = DitherStart(img)
  /\ \A i \in 1..Len(Scan(img)) : at[i] = Dithered(at[i - 1], matrix, Scan(img)[i])
  /\ DitheredTo(img, matrix, Len(Scan(img))) = at[Len(Scan(img))]

LEMMA DitherHasSteps ==
  ASSUME NEW img, IsImage(img), NEW matrix \in Seq(Entries)
  PROVE  \E at : DitherSteps(at, img, matrix)
<1>. DEFINE S == DitherState(DOMAIN img)
            N == Len(Scan(img))
            start == DitherStart(img)
            G == [x \in (1..N) \X S |-> Dithered(x[2], matrix, Scan(img)[x[1]])]
            Run == CHOOSE at : at = [i \in 0..N |-> IF i = 0 THEN start
                                       ELSE Dithered(at[i - 1], matrix, Scan(img)[i])]
<1>1. N \in Nat /\ start \in S
  <2>1. N \in Nat
    BY ScanIs
  <2>2. img \in [DOMAIN img -> Colour]
    BY ImageType
  <2>. QED BY <2>1, <2>2 DEF DitherStart, DitherState
<1>2. \A i \in 1..N, s \in S :
        /\ G[<<i, s>>] = Dithered(s, matrix, Scan(img)[i])
        /\ Dithered(s, matrix, Scan(img)[i]) \in S
  <2>1. ASSUME NEW i \in 1..N, NEW s \in S PROVE Dithered(s, matrix, Scan(img)[i]) \in S
    BY ScanIs, DitheredType
  <2>. QED BY <2>1
<1>3. DitheredTo(img, matrix, N) = Run[N]
  BY DEF DitheredTo, DitherStart
<1>. HIDE DEF S, G, N, start
<1>4. PICK f : Repeats(f, N, S, start, G)
  BY <1>1, <1>2, BoundedIteration
<1>5. f = [i \in 0..N |-> IF i = 0 THEN start ELSE Dithered(f[i - 1], matrix, Scan(img)[i])]
  <2>1. f \in [0..N -> S] /\ f = [i \in 0..N |-> IF i = 0 THEN start ELSE G[<<i, f[i - 1]>>]]
    BY <1>4 DEF Repeats
  <2>2. ASSUME NEW i \in 0..N
        PROVE  f[i] = IF i = 0 THEN start ELSE Dithered(f[i - 1], matrix, Scan(img)[i])
    <3>1. CASE i = 0
      BY <2>1, <3>1
    <3>2. CASE i # 0
      <4>1. i \in 1..N /\ i - 1 \in 0..N
        BY <1>1, <3>2
      <4>2. f[i] = G[<<i, f[i - 1]>>] /\ f[i - 1] \in S
        BY <2>1, <3>2, <4>1
      <4>. QED BY <1>2, <3>2, <4>1, <4>2
    <3>. QED BY <3>1, <3>2
  <2>. QED BY <2>1, <2>2
<1>6. Run = [i \in 0..N |-> IF i = 0 THEN start ELSE Dithered(Run[i - 1], matrix, Scan(img)[i])]
  BY <1>5
<1>. HIDE DEF Run
<1>7. 0..N \subseteq {i \in 0..N : Run[i] \in S}
  <2>. DEFINE T == {i \in 0..N : Run[i] \in S}
  <2>1. 0 \in T
    BY <1>1, <1>6
  <2>2. ASSUME NEW i \in 0..(N - 1), i \in T PROVE i + 1 \in T
    <3>1. i + 1 \in 1..N /\ i + 1 \in 0..N /\ (i + 1) - 1 = i /\ i + 1 # 0 /\ Run[i] \in S
      BY <1>1, <2>2
    <3>2. Run[i + 1] = Dithered(Run[i], matrix, Scan(img)[i + 1])
      BY <1>6, <3>1
    <3>. QED BY <1>2, <3>1, <3>2
  <2>. HIDE DEF T
  <2>3. 0..N \subseteq T
    BY <1>1, <2>1, <2>2, Induction
  <2>. QED BY <2>3 DEF T
<1>8. /\ Run \in [0..N -> S]
      /\ Run[0] = start
      /\ \A i \in 1..N : Run[i] = Dithered(Run[i - 1], matrix, Scan(img)[i])
  <2>1. Run \in [0..N -> S]
    BY <1>6, <1>7
  <2>2. Run[0] = start
    BY <1>1, <1>6
  <2>3. ASSUME NEW i \in 1..N PROVE Run[i] = Dithered(Run[i - 1], matrix, Scan(img)[i])
    <3>1. i \in 0..N /\ i # 0
      BY <1>1
    <3>. QED BY <1>6, <3>1
  <2>. QED BY <2>1, <2>2, <2>3
<1>9. DitherSteps(Run, img, matrix)
  BY <1>3, <1>8 DEF DitherSteps, N, S, start
<1>. QED
  BY <1>9

(* A diffused image is black and white.                                    *)
LEMMA DiffusedIs ==
  ASSUME NEW img, IsImage(img), NEW matrix \in Seq(Entries), NEW at, DitherSteps(at, img, matrix)
  PROVE  /\ at[Len(Scan(img))].tmp \in [DOMAIN img -> {0, 255}]
         /\ Diffused(img, matrix) = [p \in DOMAIN img |-> Grey(at[Len(Scan(img))].tmp[p])]
<1>1. Len(Scan(img)) \in 0..Len(Scan(img))
  BY ScanIs
<1>2. at[Len(Scan(img))] \in DitherState(DOMAIN img)
  BY <1>1 DEF DitherSteps
<1>3. Diffused(img, matrix) = [p \in DOMAIN img |-> Grey(at[Len(Scan(img))].tmp[p])]
  BY DEF Diffused, DitherSteps
<1>. QED
  BY <1>2, <1>3 DEF DitherState

LEMMA DiffusedType ==
  ASSUME NEW img, IsImage(img), NEW matrix \in Seq(Entries)
  PROVE  Diffused(img, matrix) \in [DOMAIN img -> {Black, White}]
<1>1. PICK at : DitherSteps(at, img, matrix)
  BY DitherHasSteps
<1>. DEFINE tmp == at[Len(Scan(img))].tmp
<1>2. tmp \in [DOMAIN img -> {0, 255}] /\ Diffused(img, matrix) = [p \in DOMAIN img |-> Grey(tmp[p])]
  BY <1>1, DiffusedIs
<1>. HIDE DEF tmp
<1>. QED
  BY <1>2 DEF Black, White
-----------------------------------------------------------------------------
(* A black and white image has no error to diffuse.                        *)
LEMMA BrightnessOfBlackAndWhite ==
  /\ Brightness(Black) = 0 /\ Brightness(White) = 255
  /\ Black = Grey(0) /\ White = Grey(255)
  BY DEF Brightness, Black, White, Grey, Channels

LEMMA AddNoError ==
  ASSUME NEW D, NEW img \in [D -> {Black, White}], NEW p, NEW e \in Entries
  PROVE  AddError(img, p, e, 0) = img
<1>. DEFINE q == <<p[1] + e.dy, p[2] + e.dx>>
            sum == CDiv(Brightness(img[q]) * e.d + e.n * 0, e.d)
<1>1. AddError(img, p, e, 0)
        = IF q \in DOMAIN img THEN [img EXCEPT ![q] = Grey(Byte(sum))] ELSE img
  BY DEF AddError
<1>2. CASE q \in D
  <2>1. e.d \in Nat /\ e.d # 0 /\ e.n \in Int
    BY DEF Entries
  <2>. DEFINE b == Brightness(img[q])
  <2>2. b \in {0, 255} /\ Grey(b) = img[q]
    BY <1>2, BrightnessOfBlackAndWhite
  <2>3. sum = CDiv(b * e.d + e.n * 0, e.d)
    OBVIOUS
  <2>. HIDE DEF b, sum, q
  <2>4. b * e.d + e.n * 0 = b * e.d /\ b * e.d \in Nat
    BY <2>1, <2>2
  <2>5. (b * e.d) \div e.d = b
    BY <2>1, <2>2
  <2>6. sum = b
    BY <2>1, <2>3, <2>4, <2>5 DEF CDiv
  <2>7. Byte(sum) = b
    BY <2>2, <2>6 DEF Byte
  <2>. QED BY <1>1, <1>2, <2>2, <2>7
<1>3. CASE q \notin D
  BY <1>1, <1>3
<1>. QED
  BY <1>2, <1>3

LEMMA SpreadNothing ==
  ASSUME NEW D, D # {}, NEW img \in [D -> {Black, White}], NEW matrix \in Seq(Entries), NEW p
  PROVE  Spread(img, matrix, p, 0) = img
<1>1. img \in [DOMAIN img -> Colour] /\ 0 \in Int
  BY BlackAndWhite
<1>2. PICK after : SpreadSteps(after, img, matrix, p, 0)
  BY <1>1, SpreadHasSteps
<1>. DEFINE N == Len(matrix)
            T == {i \in 0..N : after[i] = img}
<1>3. N \in Nat /\ 0 \in T
  BY <1>2 DEF SpreadSteps
<1>4. ASSUME NEW i \in 0..(N - 1), i \in T PROVE i + 1 \in T
  <2>1. i + 1 \in 1..N /\ (i + 1) - 1 = i /\ after[i] = img /\ matrix[i + 1] \in Entries
    BY <1>3, <1>4
  <2>2. after[i + 1] = AddError(img, p, matrix[i + 1], 0)
    BY <1>2, <2>1 DEF SpreadSteps
  <2>. QED BY <2>1, <2>2, AddNoError
<1>. HIDE DEF T
<1>5. 0..N \subseteq T
  BY <1>3, <1>4, Induction
<1>. QED
  BY <1>2, <1>3, <1>5 DEF T, SpreadSteps

New(s, p) == Closest(Brightness(s.img[p]))

LEMMA DitheredIs ==
  ASSUME NEW s, NEW matrix, NEW p
  PROVE  Dithered(s, matrix, p)
           = [img |-> Spread([s.img EXCEPT ![p] = Grey(New(s, p))], matrix, p, Brightness(s.img[p]) - New(s, p)),
              tmp |-> [s.tmp EXCEPT ![p] = New(s, p)]]
  BY DEF Dithered, New, Closest

LEMMA DitheredStable ==
  ASSUME NEW D, NEW img \in [D -> {Black, White}], NEW matrix \in Seq(Entries), NEW p \in D, NEW s, s.img = img
  PROVE  /\ Dithered(s, matrix, p).img = img
         /\ Dithered(s, matrix, p).tmp = [s.tmp EXCEPT ![p] = Brightness(img[p])]
<1>. DEFINE new == Brightness(img[p])
<1>1. new \in {0, 255} /\ Grey(new) = img[p]
  BY BrightnessOfBlackAndWhite
<1>. HIDE DEF new
<1>2. [img EXCEPT ![p] = Grey(new)] = img
  BY <1>1
<1>3. Spread(img, matrix, p, 0) = img
  BY SpreadNothing
<1>4. New(s, p) = new /\ Brightness(s.img[p]) = new
  BY <1>1 DEF New, Closest, new
<1>5. new - new = 0
  BY <1>1
<1>6. Dithered(s, matrix, p)
        = [img |-> Spread([s.img EXCEPT ![p] = Grey(New(s, p))], matrix, p, Brightness(s.img[p]) - New(s, p)),
           tmp |-> [s.tmp EXCEPT ![p] = New(s, p)]]
  BY DitheredIs, Zenon
<1>7. Dithered(s, matrix, p) = [img |-> img, tmp |-> [s.tmp EXCEPT ![p] = new]]
  BY <1>2, <1>3, <1>4, <1>5, <1>6, Zenon
<1>8. Dithered(s, matrix, p).img = img
  BY <1>7
<1>9. Dithered(s, matrix, p).tmp = [s.tmp EXCEPT ![p] = new]
  BY <1>7
<1>. QED
  BY <1>8, <1>9, Zenon DEF new

(* Every filter that diffuses errors, with any matrix, leaves a black and  *)
(* white image alone.                                                      *)
THEOREM DiffusedStable ==
  ASSUME NEW img, IsImage(img), img \in [DOMAIN img -> {Black, White}], NEW matrix \in Seq(Entries)
  PROVE  Diffused(img, matrix) = img
<1>1. PICK at : DitherSteps(at, img, matrix)
  BY DitherHasSteps
<1>. DEFINE N == Len(Scan(img))
            scan == Scan(img)
            D == DOMAIN img
            T == {i \in 0..N : /\ at[i].img = img
                               /\ \A j \in 1..i : at[i].tmp[scan[j]] = Brightness(img[scan[j]])}
<1>2. N \in Nat
  BY ScanIs
<1>3. 0 \in T
  BY <1>1, <1>2 DEF DitherSteps, DitherStart
<1>4. ASSUME NEW i \in 0..(N - 1), i \in T PROVE i + 1 \in T
  <2>1. i + 1 \in 1..N /\ i + 1 \in 0..N /\ (i + 1) - 1 = i /\ i \in 0..N
    BY <1>2
  <2>2. /\ at[i].img = img
        /\ \A j \in 1..i : at[i].tmp[scan[j]] = Brightness(img[scan[j]])
    BY <1>4
  <2>3. at[i + 1] = Dithered(at[i], matrix, scan[i + 1])
    BY <1>1, <2>1 DEF DitherSteps
  <2>4. scan[i + 1] \in D
    BY <2>1, ScanIs
  <2>5. at[i].tmp \in [D -> {0, 255}]
    BY <1>1, <2>1 DEF DitherSteps, DitherState
  <2>6. /\ at[i + 1].img = img
        /\ at[i + 1].tmp = [at[i].tmp EXCEPT ![scan[i + 1]] = Brightness(img[scan[i + 1]])]
    BY <2>2, <2>3, <2>4, DitheredStable
  <2>7. ASSUME NEW j \in 1..(i + 1) PROVE at[i + 1].tmp[scan[j]] = Brightness(img[scan[j]])
    <3>1. CASE j = i + 1
      BY <2>4, <2>5, <2>6, <3>1
    <3>2. CASE j # i + 1
      <4>1. j \in 1..i /\ j \in 1..N
        BY <2>1, <3>2
      <4>2. scan[j] \in D
        BY <4>1, ScanIs
      <4>. QED BY <2>2, <2>5, <2>6, <4>1, <4>2
    <3>. QED BY <3>1, <3>2
  <2>. QED BY <2>1, <2>6, <2>7
<1>. HIDE DEF T
<1>5. 0..N \subseteq T
  BY <1>2, <1>3, <1>4, Induction
<1>6. \A j \in 1..N : at[N].tmp[scan[j]] = Brightness(img[scan[j]])
  BY <1>2, <1>5 DEF T
<1>7. ASSUME NEW p \in D PROVE Grey(at[N].tmp[p]) = img[p]
  <2>1. PICK j \in 1..N : scan[j] = p
    BY ScanIs
  <2>2. at[N].tmp[p] = Brightness(img[p])
    BY <1>6, <2>1
  <2>. QED BY <2>2, BrightnessOfBlackAndWhite
<1>8. Diffused(img, matrix) = [p \in D |-> Grey(at[N].tmp[p])]
  BY <1>1, DiffusedIs
<1>. QED
  BY <1>7, <1>8
-----------------------------------------------------------------------------
(* Two images that agree but at x go on doing so while other points are    *)
(* dithered.                                                               *)
Agree(D, a, b, x) ==
  /\ a \in [D -> Colour] /\ b \in [D -> Colour]
  /\ \A q \in D \ {x} : a[q] = b[q]

LEMMA AddErrorLocal ==
  ASSUME NEW D, NEW a, NEW b, NEW x, Agree(D, a, b, x), NEW p, NEW e \in Entries, NEW qerr \in Int
  PROVE  Agree(D, AddError(a, p, e, qerr), AddError(b, p, e, qerr), x)
<1>. DEFINE q == <<p[1] + e.dy, p[2] + e.dx>>
            new(c) == Grey(Byte(CDiv(Brightness(c) * e.d + e.n * qerr, e.d)))
<1>1. a \in [D -> Colour] /\ b \in [D -> Colour] /\ \A r \in D \ {x} : a[r] = b[r]
  BY DEF Agree
<1>2. AddError(a, p, e, qerr) \in [D -> Colour] /\ AddError(b, p, e, qerr) \in [D -> Colour]
  BY <1>1, AddErrorType
<1>3. AddError(a, p, e, qerr) = IF q \in DOMAIN a THEN [a EXCEPT ![q] = new(a[q])] ELSE a
  BY DEF AddError
<1>4. AddError(b, p, e, qerr) = IF q \in DOMAIN b THEN [b EXCEPT ![q] = new(b[q])] ELSE b
  BY DEF AddError
<1>. HIDE DEF q, new
<1>5. ASSUME NEW r \in D \ {x} PROVE AddError(a, p, e, qerr)[r] = AddError(b, p, e, qerr)[r]
  <2>1. CASE r = q
    BY <1>1, <1>3, <1>4, <2>1
  <2>2. CASE r # q
    BY <1>1, <1>3, <1>4, <2>2
  <2>. QED BY <2>1, <2>2
<1>. QED
  BY <1>2, <1>5 DEF Agree

LEMMA SpreadLocal ==
  ASSUME NEW D, NEW a, NEW b, NEW x, Agree(D, a, b, x), NEW matrix \in Seq(Entries), NEW p, NEW qerr \in Int
  PROVE  Agree(D, Spread(a, matrix, p, qerr), Spread(b, matrix, p, qerr), x)
<1>1. a \in [D -> Colour] /\ b \in [D -> Colour]
  BY DEF Agree
<1>2. PICK f : SpreadSteps(f, a, matrix, p, qerr)
  BY <1>1, SpreadHasSteps
<1>3. PICK g : SpreadSteps(g, b, matrix, p, qerr)
  BY <1>1, SpreadHasSteps
<1>. DEFINE N == Len(matrix)
            T == {i \in 0..N : Agree(D, f[i], g[i], x)}
<1>4. N \in Nat /\ 0 \in T
  BY <1>2, <1>3 DEF SpreadSteps
<1>5. ASSUME NEW i \in 0..(N - 1), i \in T PROVE i + 1 \in T
  <2>1. i + 1 \in 1..N /\ i + 1 \in 0..N /\ (i + 1) - 1 = i /\ matrix[i + 1] \in Entries /\ Agree(D, f[i], g[i], x)
    BY <1>4, <1>5
  <2>2. f[i + 1] = AddError(f[i], p, matrix[i + 1], qerr) /\ g[i + 1] = AddError(g[i], p, matrix[i + 1], qerr)
    BY <1>2, <1>3, <2>1 DEF SpreadSteps
  <2>3. Agree(D, f[i + 1], g[i + 1], x)
    BY <2>1, <2>2, AddErrorLocal
  <2>. QED BY <2>1, <2>3
<1>. HIDE DEF T
<1>6. 0..N \subseteq T
  BY <1>4, <1>5, Induction
<1>. QED
  BY <1>2, <1>3, <1>4, <1>6 DEF T, SpreadSteps

LEMMA DitheredLocal ==
  ASSUME NEW D, NEW s \in DitherState(D), NEW t \in DitherState(D), NEW x, NEW p \in D, p # x,
         Agree(D, s.img, t.img, x), s.tmp = t.tmp, NEW matrix \in Seq(Entries)
  PROVE  /\ Agree(D, Dithered(s, matrix, p).img, Dithered(t, matrix, p).img, x)
         /\ Dithered(s, matrix, p).tmp = Dithered(t, matrix, p).tmp
<1>. DEFINE c == s.img[p]
            new == New(s, p)
            a == [s.img EXCEPT ![p] = Grey(new)]
            b == [t.img EXCEPT ![p] = Grey(new)]
            qerr == Brightness(c) - new
<1>1. s.img \in [D -> Colour] /\ t.img \in [D -> Colour] /\ t.img[p] = c /\ c \in Colour
  BY DEF Agree
<1>2. New(t, p) = new /\ new \in {0, 255}
  BY <1>1 DEF New, Closest
<1>3. Dithered(s, matrix, p)
        = [img |-> Spread([s.img EXCEPT ![p] = Grey(New(s, p))], matrix, p, Brightness(s.img[p]) - New(s, p)),
           tmp |-> [s.tmp EXCEPT ![p] = New(s, p)]]
  BY DitheredIs, Zenon
<1>4. Dithered(t, matrix, p)
        = [img |-> Spread([t.img EXCEPT ![p] = Grey(New(t, p))], matrix, p, Brightness(t.img[p]) - New(t, p)),
           tmp |-> [t.tmp EXCEPT ![p] = New(t, p)]]
  BY DitheredIs, Zenon
<1>5. Dithered(t, matrix, p) = [img |-> Spread(b, matrix, p, qerr), tmp |-> [s.tmp EXCEPT ![p] = new]]
  BY <1>1, <1>2, <1>4, Zenon
<1>6. qerr \in Int
  BY <1>1, <1>2, BrightnessType
<1>7. Agree(D, a, b, x)
  <2>1. Grey(new) \in Colour
    <3>1. new \in Level
      BY <1>2 DEF Level
    <3>. QED BY <3>1, GreyType
  <2>. HIDE DEF new
  <2>. QED BY <1>1, <2>1 DEF Agree
<1>8. Dithered(s, matrix, p) = [img |-> Spread(a, matrix, p, qerr), tmp |-> [s.tmp EXCEPT ![p] = new]]
  BY <1>3
<1>. HIDE DEF a, b, qerr, new, c
<1>9. Agree(D, Spread(a, matrix, p, qerr), Spread(b, matrix, p, qerr), x)
  BY <1>6, <1>7, SpreadLocal
<1>. QED
  BY <1>5, <1>8, <1>9

(* Once a point is dithered, tmp keeps what was noted for it.              *)
LEMMA NotedOnce ==
  ASSUME NEW img, IsImage(img), NEW matrix \in Seq(Entries), NEW at, DitherSteps(at, img, matrix),
         NEW j \in 1..Len(Scan(img))
  PROVE  at[Len(Scan(img))].tmp[Scan(img)[j]] = at[j].tmp[Scan(img)[j]]
<1>. DEFINE N == Len(Scan(img))
            q == Scan(img)[j]
            T == {k \in 0..N : k >= j => at[k].tmp[q] = at[j].tmp[q]}
<1>1. N \in Nat
  BY ScanIs
<1>2. 0 \in T
  OBVIOUS
<1>3. ASSUME NEW k \in 0..(N - 1), k \in T PROVE k + 1 \in T
  <2>1. k + 1 \in 1..N /\ k + 1 \in 0..N /\ (k + 1) - 1 = k /\ k \in 0..N
    BY <1>1
  <2>2. CASE k + 1 <= j
    BY <1>1, <2>1, <2>2
  <2>3. CASE k + 1 > j
    <3>1. k >= j /\ k + 1 # j
      BY <2>1, <2>3
    <3>2. at[k].tmp[q] = at[j].tmp[q]
      BY <1>3, <3>1
    <3>3. at[k + 1] = Dithered(at[k], matrix, Scan(img)[k + 1])
      BY <2>1 DEF DitherSteps
    <3>4. q # Scan(img)[k + 1] /\ q \in DOMAIN img
      BY <2>1, <3>1, ScanIs
    <3>5. at[k].tmp \in [DOMAIN img -> {0, 255}]
      BY <2>1 DEF DitherSteps, DitherState
    <3>. DEFINE p == Scan(img)[k + 1]
    <3>6. Dithered(at[k], matrix, p)
            = [img |-> Spread([at[k].img EXCEPT ![p] = Grey(New(at[k], p))], matrix, p,
                              Brightness(at[k].img[p]) - New(at[k], p)),
               tmp |-> [at[k].tmp EXCEPT ![p] = New(at[k], p)]]
      BY DitheredIs, Zenon
    <3>7. at[k + 1].tmp = [at[k].tmp EXCEPT ![p] = New(at[k], p)]
      BY <3>3, <3>6
    <3>8. at[k + 1].tmp[q] = at[k].tmp[q]
      BY <3>4, <3>5, <3>7
    <3>. QED BY <2>1, <3>2, <3>8
  <2>. QED BY <2>1, <2>2, <2>3
<1>. HIDE DEF T
<1>4. 0..N \subseteq T
  BY <1>1, <1>2, <1>3, Induction
<1>. QED
  BY <1>1, <1>4 DEF T

(* Diffusing errors, with any matrix, does not go back in the scan: what a *)
(* pixel was is not seen in those before it.                               *)
THEOREM DiffusedCausal ==
  ASSUME NEW img, IsImage(img), NEW other \in [DOMAIN img -> Colour], NEW matrix \in Seq(Entries),
         NEW i \in 1..Len(Scan(img)), \A q \in DOMAIN img \ {Scan(img)[i]} : other[q] = img[q],
         NEW j \in 1..(i - 1)
  PROVE  Diffused(other, matrix)[Scan(img)[j]] = Diffused(img, matrix)[Scan(img)[j]]
<1>. DEFINE D == DOMAIN img
            N == Len(Scan(img))
            x == Scan(img)[i]
<1>1. IsImage(other) /\ DOMAIN other = D /\ Scan(other) = Scan(img)
  BY ImageOfPoints DEF Scan
<1>2. PICK f : DitherSteps(f, img, matrix)
  BY DitherHasSteps
<1>3. PICK g : DitherSteps(g, other, matrix)
  BY <1>1, DitherHasSteps
<1>4. /\ f \in [0..N -> DitherState(D)] /\ f[0] = DitherStart(img)
      /\ \A k \in 1..N : f[k] = Dithered(f[k - 1], matrix, Scan(img)[k])
  BY <1>2 DEF DitherSteps
<1>5. /\ g \in [0..N -> DitherState(D)] /\ g[0] = DitherStart(other)
      /\ \A k \in 1..N : g[k] = Dithered(g[k - 1], matrix, Scan(img)[k])
  BY <1>1, <1>3 DEF DitherSteps
<1>6. N \in Nat /\ i - 1 \in Nat /\ i <= N /\ j \in 1..N /\ j \in 0..(i - 1) /\ Scan(img)[j] \in D
  BY ScanIs
<1>. DEFINE T == {k \in 0..(i - 1) : Agree(D, f[k].img, g[k].img, x) /\ f[k].tmp = g[k].tmp}
<1>7. 0 \in T
  <2>1. img \in [D -> Colour]
    BY ImageType
  <2>2. Agree(D, img, other, x)
    BY <2>1 DEF Agree
  <2>3. f[0].img = img /\ g[0].img = other /\ f[0].tmp = g[0].tmp
    BY <1>1, <1>4, <1>5 DEF DitherStart
  <2>. QED BY <1>6, <2>2, <2>3
<1>8. ASSUME NEW k \in 0..((i - 1) - 1), k \in T PROVE k + 1 \in T
  <2>1. k + 1 \in 1..N /\ (k + 1) - 1 = k /\ k \in 0..N /\ k + 1 # i /\ k + 1 \in 0..(i - 1)
    BY <1>6
  <2>. DEFINE p == Scan(img)[k + 1]
  <2>2. p \in D /\ p # x
    BY <2>1, ScanIs
  <2>3. f[k] \in DitherState(D) /\ g[k] \in DitherState(D)
    BY <1>4, <1>5, <2>1
  <2>4. f[k + 1] = Dithered(f[k], matrix, p) /\ g[k + 1] = Dithered(g[k], matrix, p)
    BY <1>4, <1>5, <2>1
  <2>5. Agree(D, f[k].img, g[k].img, x) /\ f[k].tmp = g[k].tmp
    BY <1>8
  <2>. HIDE DEF p, x
  <2>6. /\ Agree(D, Dithered(f[k], matrix, p).img, Dithered(g[k], matrix, p).img, x)
        /\ Dithered(f[k], matrix, p).tmp = Dithered(g[k], matrix, p).tmp
    BY <2>2, <2>3, <2>5, DitheredLocal
  <2>. QED BY <2>1, <2>4, <2>6
<1>. HIDE DEF T
<1>9. 0..(i - 1) \subseteq T
  BY <1>6, <1>7, <1>8, Induction
<1>10. f[j].tmp = g[j].tmp
  BY <1>6, <1>9 DEF T
<1>11. f[N].tmp[Scan(img)[j]] = g[N].tmp[Scan(img)[j]]
  <2>1. f[N].tmp[Scan(img)[j]] = f[j].tmp[Scan(img)[j]]
    BY <1>2, <1>6, NotedOnce
  <2>2. g[N].tmp[Scan(img)[j]] = g[j].tmp[Scan(img)[j]]
    BY <1>1, <1>3, <1>6, NotedOnce
  <2>. QED BY <1>10, <2>1, <2>2
<1>12. Diffused(img, matrix) = [p \in D |-> Grey(f[N].tmp[p])]
  BY <1>2, DiffusedIs
<1>13. Diffused(other, matrix) = [p \in D |-> Grey(g[N].tmp[p])]
  BY <1>1, <1>3, DiffusedIs
<1>. QED
  BY <1>6, <1>11, <1>12, <1>13
-----------------------------------------------------------------------------
(* The matrices of the filters, and of img_gendith.                        *)
LEMMA EntryType ==
  ASSUME NEW dx \in Int, NEW dy \in Int, NEW n \in Int, NEW d \in Nat \ {0}
  PROVE  Entry(dx, dy, n, d) \in Entries
  BY DEF Entry, Entries

LEMMA GenPointsType ==
  ASSUME NEW list \in Seq((Int \X (Nat \ {0})) \cup {NotNum}), NotNum \notin GenRead(list)
  PROVE  GenPoints(list) \in Seq(Entries)
<1>. DEFINE len == Len(list) \div 3
            N == len \div 3
            e(i) == Entry(CDiv(list[3 * i - 2][1], list[3 * i - 2][2]),
                          CDiv(list[3 * i - 1][1], list[3 * i - 1][2]), list[3 * i][1], list[3 * i][2])
<1>1. Len(list) \in Nat /\ len \in Nat /\ N \in Nat /\ 3 * N <= len /\ len <= Len(list)
  OBVIOUS
<1>2. GenPoints(list) = [i \in 1..N |-> e(i)]
  BY DEF GenPoints
<1>3. ASSUME NEW k \in 1..len PROVE list[k] \in Int \X (Nat \ {0})
  <2>1. k \in 1..Len(list) /\ list[k] \in GenRead(list)
    BY <1>1 DEF GenRead
  <2>. QED BY <2>1
<1>. HIDE DEF len, N
<1>4. ASSUME NEW i \in 1..N PROVE e(i) \in Entries
  <2>1. 3 * i - 2 \in 1..len /\ 3 * i - 1 \in 1..len /\ 3 * i \in 1..len
    BY <1>1
  <2>2. ASSUME NEW k \in 1..len
        PROVE list[k][1] \in Int /\ list[k][2] \in Nat \ {0} /\ CDiv(list[k][1], list[k][2]) \in Int
    <3>1. list[k][1] \in Int /\ list[k][2] \in Nat \ {0}
      BY <1>3
    <3>2. list[k][2] \in Int /\ list[k][2] # 0
      BY <3>1
    <3>3. CDiv(list[k][1], list[k][2]) \in Int
      BY <3>1, <3>2, CDivType
    <3>. QED BY <3>1, <3>3
  <2>. QED BY <2>1, <2>2, EntryType
<1>. HIDE DEF e
<1>. QED
  BY <1>1, <1>2, <1>4


AtkinsonMatrix ==
  << Entry(1, 0, 1, 8), Entry(-1, 1, 1, 8), Entry(0, 1, 1, 8),
     Entry(1, 1, 1, 8), Entry(2, 0, 1, 8), Entry(0, 2, 1, 8) >>
StuckiMatrix ==
  << Entry(1, 0, 8, 42), Entry(2, 0, 4, 42),
     Entry(-2, 1, 2, 42), Entry(-1, 1, 4, 42), Entry(0, 1, 8, 42), Entry(1, 1, 4, 42), Entry(2, 1, 2, 42),
     Entry(-2, 2, 1, 42), Entry(-1, 2, 2, 42), Entry(0, 2, 4, 42), Entry(1, 2, 2, 42), Entry(2, 2, 1, 42) >>
FloydSteinbergMatrix ==
  << Entry(1, 0, 7, 16), Entry(-1, 1, 3, 16), Entry(0, 1, 5, 16), Entry(1, 1, 1, 16) >>
GeneralMatrix == << Entry(1, 0, 1, 2), Entry(-1, 0, 1, 2) >>

LEMMA MatrixTypes ==
  /\ AtkinsonMatrix \in Seq(Entries) /\ StuckiMatrix \in Seq(Entries)
  /\ FloydSteinbergMatrix \in Seq(Entries) /\ GeneralMatrix \in Seq(Entries)
<1>1. AtkinsonMatrix \in Seq(Entries)
  BY DEF AtkinsonMatrix, Entry, Entries
<1>2. StuckiMatrix \in Seq(Entries)
  BY DEF StuckiMatrix, Entry, Entries
<1>3. FloydSteinbergMatrix \in Seq(Entries)
  BY DEF FloydSteinbergMatrix, Entry, Entries
<1>4. GeneralMatrix \in Seq(Entries)
  BY DEF GeneralMatrix, Entry, Entries
<1>. QED
  BY <1>1, <1>2, <1>3, <1>4

LEMMA DiffusersAre ==
  ASSUME NEW img
  PROVE  /\ AtkinsonDith(img) = Diffused(img, AtkinsonMatrix)
         /\ StuckiDith(img) = Diffused(img, StuckiMatrix)
         /\ FloydSteinbergDith(img) = Diffused(img, FloydSteinbergMatrix)
         /\ GeneralDith(img, <<Entry(1, 0, 1, 2), Entry(-1, 0, 1, 2)>>) = Diffused(img, GeneralMatrix)
<1>1. AtkinsonDith(img) = Diffused(img, AtkinsonMatrix)
  BY DEF AtkinsonDith, AtkinsonMatrix
<1>2. StuckiDith(img) = Diffused(img, StuckiMatrix)
  BY DEF StuckiDith, StuckiMatrix
<1>3. FloydSteinbergDith(img) = Diffused(img, FloydSteinbergMatrix)
  BY DEF FloydSteinbergDith, FloydSteinbergMatrix
<1>4. GeneralDith(img, <<Entry(1, 0, 1, 2), Entry(-1, 0, 1, 2)>>) = Diffused(img, GeneralMatrix)
  BY DEF GeneralDith, GeneralMatrix
<1>. QED
  BY <1>1, <1>2, <1>3, <1>4

(* Each of the diffusing filters works with one matrix, whatever the image.*)
LEMMA DitherIs ==
  ASSUME NEW alg \in Diffusers
  PROVE  \E matrix \in Seq(Entries) : \A img : Dither(img, alg) = Diffused(img, matrix)
<1>1. CASE alg = "atkinson"
  BY <1>1, MatrixTypes, DiffusersAre DEF Dither
<1>2. CASE alg = "floyd"
  BY <1>2, MatrixTypes, DiffusersAre DEF Dither
<1>3. CASE alg = "stucki"
  BY <1>3, MatrixTypes, DiffusersAre DEF Dither
<1>4. CASE alg = "general"
  BY <1>4, MatrixTypes, DiffusersAre DEF Dither
<1>. QED
  BY <1>1, <1>2, <1>3, <1>4 DEF Diffusers

(* Every dithering makes a black and white image.                          *)
LEMMA DithersBlackAndWhite ==
  ASSUME NEW img, IsImage(img)
  PROVE  /\ AtkinsonDith(img) \in [DOMAIN img -> {Black, White}]
         /\ StuckiDith(img) \in [DOMAIN img -> {Black, White}]
         /\ FloydSteinbergDith(img) \in [DOMAIN img -> {Black, White}]
         /\ OrderedDith(img) \in [DOMAIN img -> {Black, White}]
         /\ \A r, s, turn : RandomDith(img, r, s, turn) \in [DOMAIN img -> {Black, White}]
<1>1. \A v : Grey(Closest(v)) \in {Black, White}
  BY DEF Closest, Black, White
<1>2. AtkinsonDith(img) \in [DOMAIN img -> {Black, White}]
  BY MatrixTypes, DiffusersAre, DiffusedType
<1>3. StuckiDith(img) \in [DOMAIN img -> {Black, White}]
  BY MatrixTypes, DiffusersAre, DiffusedType
<1>4. FloydSteinbergDith(img) \in [DOMAIN img -> {Black, White}]
  BY MatrixTypes, DiffusersAre, DiffusedType
<1>5. OrderedDith(img) \in [DOMAIN img -> {Black, White}]
  BY <1>1 DEF OrderedDith, Ordered
<1>6. ASSUME NEW r, NEW s, NEW turn PROVE RandomDith(img, r, s, turn) \in [DOMAIN img -> {Black, White}]
  BY <1>1 DEF RandomDith
<1>. QED
  BY <1>2, <1>3, <1>4, <1>5, <1>6
-----------------------------------------------------------------------------
(* The inductive invariant: what TypeOK says, with the blocks counted by   *)
(* the calls, and that what was dithered last is black and white.          *)
Dithers == {"img_dith", "img_gendith"}
IInv ==
  /\ DOMAIN bitmap = Handles
  /\ \A h \in Handles : \E img \in Bitmaps : bitmap[h] \in [DOMAIN img -> Colour]
  /\ calls \in 0..MaxCalls
  /\ blocks \in 0..calls
  /\ result \in {"t", "nil", "err"} \cup Ended
  /\ result = "t" /\ call.fn \in Dithers =>
       /\ call.on[1] \in Handles
       /\ bitmap[call.on[1]] \in [DOMAIN bitmap[call.on[1]] -> {Black, White}]

LEMMA BitmapIs ==
  ASSUME IInv, NEW h \in Handles
  PROVE  IsImage(bitmap[h]) /\ bitmap[h] \in [DOMAIN bitmap[h] -> Colour]
<1>1. PICK img \in Bitmaps : bitmap[h] \in [DOMAIN img -> Colour]
  BY DEF IInv
<1>2. IsImage(img)
  BY ImshAssumption
<1>. QED
  BY <1>1, <1>2, ImageOfPoints

(* What a call on x may do, and what a call that returns t has done.       *)
Outcome(x) ==
  /\ call'.on[1] = x
  /\ calls < MaxCalls /\ calls' = calls + 1
  /\ \/ /\ x \in Handles
        /\ \E img \in [DOMAIN bitmap[x] -> Colour] :
             /\ Returns(x, img)
             /\ call'.fn \in Dithers => img \in [DOMAIN bitmap[x] -> {Black, White}]
     \/ result' \in {"nil"} \cup Ended /\ UNCHANGED <<bitmap, blocks>>
     \/ Raises(0) \/ Raises(1)

LEMMA PlainReturns ==
  ASSUME NEW fn, NEW x \in Object, NEW args, NEW stop, NEW img, stop # "t",
         Plain(fn, x, args, stop, img), result' = "t"
  PROVE  /\ x \in Handles /\ NotNum \notin Range(args) /\ stop = "no"
         /\ Calls(fn, <<x>>, args) /\ Returns(x, img)
  BY DEF Plain, Raises, Ends, Object

LEMMA PlainOutcome ==
  ASSUME IInv, NEW fn, fn \notin Dithers, NEW x \in Object, NEW args, NEW stop, NEW img,
         stop \in {"no"} \cup Ended, Plain(fn, x, args, stop, img),
         x \in Handles /\ NotNum \notin Range(args) /\ stop = "no" => img \in [DOMAIN bitmap[x] -> Colour]
  PROVE  Outcome(x)
<1>1. call'.on[1] = x /\ call'.fn = fn /\ calls < MaxCalls /\ calls' = calls + 1
  BY DEF Plain, Calls
<1>2. CASE x = NotImg \/ NotNum \in Range(args)
  BY <1>1, <1>2 DEF Plain, Outcome
<1>3. CASE x # NotImg /\ NotNum \notin Range(args)
  <2>1. x \in Handles
    BY <1>3 DEF Object
  <2>2. CASE stop # "no"
    BY <1>1, <1>3, <2>2 DEF Plain, Outcome, Ends
  <2>3. CASE stop = "no"
    BY <1>1, <1>3, <2>1, <2>3 DEF Plain, Outcome
  <2>. QED BY <2>2, <2>3
<1>. QED
  BY <1>2, <1>3

LEMMA WithMatrixOutcome ==
  ASSUME IInv, NEW fn, fn \notin Dithers, NEW x \in Object, NEW list, NEW args, NEW stop, NEW img,
         stop \in {"no"} \cup Ended, WithMatrix(fn, x, list, args, stop, img),
         x \in Handles /\ list # NotList /\ NotNum \notin Range(list) \cup Range(args) /\ stop = "no"
           => img \in [DOMAIN bitmap[x] -> Colour]
  PROVE  Outcome(x)
<1>1. call'.on[1] = x /\ call'.fn = fn /\ calls < MaxCalls /\ calls' = calls + 1
  BY DEF WithMatrix, Calls
<1>2. CASE Raises(0) \/ Raises(1)
  BY <1>1, <1>2 DEF Outcome
<1>3. CASE ~ (Raises(0) \/ Raises(1))
  <2>1. /\ list # NotList /\ NotNum \notin Range(list) \cup Range(args) /\ x # NotImg
        /\ \/ IF stop # "no" THEN Ends(stop) ELSE Returns(x, img)
           \/ Ends("undefined")
    BY <1>3 DEF WithMatrix
  <2>2. x \in Handles
    BY <2>1 DEF Object
  <2>3. CASE Ends("undefined")
    BY <1>1, <2>3 DEF Outcome, Ends, Ended
  <2>4. CASE stop # "no" /\ Ends(stop)
    BY <1>1, <2>4 DEF Outcome, Ends
  <2>5. CASE stop = "no" /\ Returns(x, img)
    BY <1>1, <2>1, <2>2, <2>5 DEF Outcome
  <2>. QED BY <2>1, <2>3, <2>4, <2>5
<1>. QED
  BY <1>2, <1>3
-----------------------------------------------------------------------------
(* The outcome of each call.                                               *)
LEMMA PointOutcome ==
  ASSUME IInv, NEW x \in Object,
         \/ ImgGr(x) \/ ImgNeg(x) \/ ImgBinNot(x)
         \/ \E n \in Number : ImgBw(x, n) \/ ImgCh(x, n)
  PROVE  Outcome(x)
<1>1. ASSUME x \in Handles, NEW n
      PROVE  /\ Bw(bitmap[x], n) \in [DOMAIN bitmap[x] -> Colour]
             /\ Gr(bitmap[x]) \in [DOMAIN bitmap[x] -> Colour]
             /\ Neg(bitmap[x]) \in [DOMAIN bitmap[x] -> Colour]
             /\ Ch(bitmap[x], n) \in [DOMAIN bitmap[x] -> Colour]
             /\ BinNot(bitmap[x]) \in [DOMAIN bitmap[x] -> Colour]
  BY <1>1, BitmapIs, PointFilterTypes
<1>2. CASE ImgGr(x)
  BY <1>1, <1>2, PlainOutcome DEF ImgGr, Dithers
<1>3. CASE ImgNeg(x)
  BY <1>1, <1>3, PlainOutcome DEF ImgNeg, Dithers
<1>4. CASE ImgBinNot(x)
  BY <1>1, <1>4, PlainOutcome DEF ImgBinNot, Dithers
<1>5. ASSUME NEW n \in Number, ImgBw(x, n) PROVE Outcome(x)
  BY <1>1, <1>5, PlainOutcome DEF ImgBw, Dithers
<1>6. ASSUME NEW n \in Number, ImgCh(x, n) PROVE Outcome(x)
  BY <1>1, <1>6, PlainOutcome DEF ImgCh, Dithers
<1>. QED
  BY <1>2, <1>3, <1>4, <1>5, <1>6

LEMMA GrlOutcome ==
  ASSUME IInv, NEW x \in Object, NEW n \in Levels \cup {NotNum}, ImgGrl(x, n)
  PROVE  Outcome(x)
<1>. DEFINE stop == IF n < 2 THEN "abort" ELSE IF Band(n) = 0 THEN "sigfpe" ELSE "no"
<1>1. stop \in {"no"} \cup Ended
  BY DEF Ended
<1>2. ASSUME x \in Handles, NotNum \notin Range(<<n>>), stop = "no"
      PROVE  Grl(bitmap[x], n) \in [DOMAIN bitmap[x] -> Colour]
  <2>1. n \in Int /\ ~ (n < 2) /\ Band(n) # 0
    BY <1>2, ImshAssumption DEF Range
  <2>2. n > 0
    BY <2>1
  <2>. QED BY <1>2, <2>1, <2>2, BitmapIs, GrlType
<1>3. Plain("img_grl", x, <<n>>, stop, Grl(bitmap[x], n))
  BY DEF ImgGrl
<1>. HIDE DEF stop
<1>. QED
  BY <1>1, <1>2, <1>3, PlainOutcome DEF Dithers

LEMMA PixOutcome ==
  ASSUME IInv, NEW x \in Object, NEW side \in Sides \cup {NotNum}, NEW color \in {0, 1, NotNum},
         ImgPix(x, side, color)
  PROVE  Outcome(x)
<1>. DEFINE stop == IF side <= 0 THEN "abort" ELSE "no"
<1>1. stop \in {"no"} \cup Ended
  BY DEF Ended
<1>2. ASSUME x \in Handles, NotNum \notin Range(<<side, color>>), stop = "no"
      PROVE  Pix(bitmap[x], side, color) \in [DOMAIN bitmap[x] -> Colour]
  <2>1. side \in Int /\ ~ (side <= 0)
    BY <1>2, ImshAssumption DEF Range
  <2>2. side \in Nat \ {0}
    BY <2>1
  <2>. QED BY <1>2, <2>2, BitmapIs, PixType
<1>3. Plain("img_pix", x, <<side, color>>, stop, Pix(bitmap[x], side, color))
  BY DEF ImgPix
<1>. HIDE DEF stop
<1>. QED
  BY <1>1, <1>2, <1>3, PlainOutcome DEF Dithers

LEMMA BinOpOutcome ==
  ASSUME IInv, NEW x \in Object, NEW y \in Object,
         ImgBinAnd(x, y) \/ ImgBinOr(x, y) \/ ImgBinXor(x, y) \/ ImgBinSub(x, y)
  PROVE  Outcome(x)
<1>1. PICK fn \in {"img_binand", "img_binor", "img_binxor", "img_binsub"},
           op \in {"and", "or", "xor", "sub"} : ImgBinOp(fn, op, x, y)
  BY DEF ImgBinAnd, ImgBinOr, ImgBinXor, ImgBinSub
<1>2. call'.on[1] = x /\ call'.fn \notin Dithers /\ calls < MaxCalls /\ calls' = calls + 1
  BY <1>1 DEF ImgBinOp, Calls, Dithers
<1>3. CASE NotImg \in {x, y}
  BY <1>1, <1>2, <1>3 DEF ImgBinOp, Outcome
<1>4. CASE NotImg \notin {x, y}
  <2>1. x \in Handles
    BY <1>4 DEF Object
  <2>2. BinOp2(op, bitmap[x], bitmap[y]) \in [DOMAIN bitmap[x] -> Colour]
    BY <2>1, BitmapIs, BinOp2Type
  <2>3. Returns(x, BinOp2(op, bitmap[x], bitmap[y]))
    BY <1>1, <1>4 DEF ImgBinOp
  <2>. QED BY <1>2, <2>1, <2>2, <2>3 DEF Outcome
<1>. QED
  BY <1>3, <1>4

LEMMA AreaStopIs ==
  ASSUME NEW img, NEW side
  PROVE  /\ AreaStop(img, side) \in {"no"} \cup Ended
         /\ AreaStop(img, side) = "no" => ~ (side <= 2) /\ side % 2 # 0
  BY DEF AreaStop, Ended

LEMMA OddSide ==
  ASSUME NEW side \in Int, ~ (side <= 2), side % 2 # 0
  PROVE  side \in Nat /\ side > 2 /\ side % 2 = 1
  OBVIOUS

LEMMA MedOutcome ==
  ASSUME IInv, NEW x \in Object, NEW side \in Sides \cup {NotNum}, ImgMed(x, side)
  PROVE  Outcome(x)
<1>1. ASSUME x \in Handles, NotNum \notin Range(<<side>>), AreaStop(bitmap[x], side) = "no"
      PROVE  Med(bitmap[x], side) \in [DOMAIN bitmap[x] -> Colour]
  <2>1. side \in Int
    BY <1>1, ImshAssumption DEF Range
  <2>2. side \in Nat /\ side > 2 /\ side % 2 = 1
    BY <1>1, <2>1, AreaStopIs, OddSide
  <2>. QED BY <1>1, <2>2, BitmapIs, MedType
<1>2. CASE Plain("img_med", x, <<side>>, AreaStop(bitmap[x], side), Med(bitmap[x], side))
  BY <1>1, <1>2, AreaStopIs, PlainOutcome DEF Dithers
<1>3. CASE Calls("img_med", <<x>>, <<side>>) /\ ReturnsNil
  BY <1>3 DEF Calls, ReturnsNil, Outcome
<1>. QED
  BY <1>2, <1>3 DEF ImgMed

LEMMA MatrixOutcome ==
  ASSUME IInv, NEW x \in Object, NEW list \in Lists \cup {NotList},
         \/ ImgBinDilate(x, list) \/ ImgBinErode(x, list)
         \/ \E scale \in Scales : ImgConv(x, list, scale[1], scale[2])
  PROVE  Outcome(x)
<1>1. ASSUME x \in Handles, list # NotList, NotNum \notin Range(list),
             AreaStop(bitmap[x], Side(list)) = "no"
      PROVE  /\ BinDilate(bitmap[x], list) \in [DOMAIN bitmap[x] -> Colour]
             /\ BinErode(bitmap[x], list) \in [DOMAIN bitmap[x] -> Colour]
             /\ \A div \in Int, shift \in Int :
                  div # 0 => Conv(bitmap[x], list, div, shift) \in [DOMAIN bitmap[x] -> Colour]
  <2>1. list \in Seq(Int \cup {NotNum})
    BY <1>1, ImshAssumption
  <2>2. Side(list) \in Int
    BY <1>1, <2>1, MatrixType
  <2>3. Side(list) > 2 /\ Side(list) % 2 = 1
    BY <1>1, <2>2, AreaStopIs, OddSide
  <2>. QED BY <1>1, <2>1, <2>3, BitmapIs, WithMatrixTypes
<1>2. CASE ImgBinDilate(x, list)
  <2>1. WithMatrix("img_bindilate", x, list, <<>>, AreaStop(bitmap[x], Side(list)),
                   BinDilate(bitmap[x], list))
    BY <1>2 DEF ImgBinDilate
  <2>. QED BY <1>1, <2>1, AreaStopIs, WithMatrixOutcome DEF Dithers
<1>3. CASE ImgBinErode(x, list)
  <2>1. WithMatrix("img_binerode", x, list, <<>>, AreaStop(bitmap[x], Side(list)),
                   BinErode(bitmap[x], list))
    BY <1>3 DEF ImgBinErode
  <2>. QED BY <1>1, <2>1, AreaStopIs, WithMatrixOutcome DEF Dithers
<1>4. ASSUME NEW scale \in Scales, ImgConv(x, list, scale[1], scale[2])
      PROVE  Outcome(x)
  <2>. DEFINE stop == IF scale[1] = 0 THEN "abort" ELSE AreaStop(bitmap[x], Side(list))
              args == <<scale[1], scale[2]>>
  <2>1. stop \in {"no"} \cup Ended
    BY AreaStopIs DEF Ended
  <2>2. ASSUME x \in Handles, list # NotList, NotNum \notin Range(list) \cup Range(args), stop = "no"
        PROVE  Conv(bitmap[x], list, scale[1], scale[2]) \in [DOMAIN bitmap[x] -> Colour]
    <3>1. scale[1] \in Int \cup {NotNum} /\ scale[2] \in Int \cup {NotNum}
      BY ImshAssumption
    <3>2. scale[1] \in Range(args) /\ scale[2] \in Range(args)
      BY DEF Range
    <3>3. scale[1] \in Int /\ scale[2] \in Int
      BY <2>2, <3>1, <3>2
    <3>4. scale[1] # 0 /\ AreaStop(bitmap[x], Side(list)) = "no"
      BY <2>2
    <3>. QED BY <1>1, <2>2, <3>3, <3>4
  <2>3. WithMatrix("img_conv", x, list, args, stop, Conv(bitmap[x], list, scale[1], scale[2]))
    BY <1>4 DEF ImgConv
  <2>. HIDE DEF stop, args
  <2>. QED BY <2>1, <2>2, <2>3, WithMatrixOutcome DEF Dithers
<1>. QED
  BY <1>2, <1>3, <1>4

LEMMA PaintedIsColoured ==
  ASSUME NEW D, NEW img \in [D -> {Black, White}]
  PROVE  img \in [D -> Colour]
  BY BlackAndWhite

LEMMA GenDithOutcome ==
  ASSUME IInv, NEW x \in Object, NEW list \in DithLists \cup {NotList}, ImgGenDith(x, list)
  PROVE  Outcome(x)
<1>1. call'.on[1] = x /\ calls < MaxCalls /\ calls' = calls + 1
  BY DEF ImgGenDith, Calls
<1>2. CASE Raises(0) \/ Raises(1) \/ ReturnsNil
  BY <1>1, <1>2 DEF Outcome, ReturnsNil
<1>3. CASE /\ NotNum \notin GenRead(list) /\ x # NotImg /\ list # NotList
           /\ Returns(x, GeneralDith(bitmap[x], GenPoints(list)))
  <2>1. x \in Handles /\ list \in Seq((Int \X (Nat \ {0})) \cup {NotNum})
    BY <1>3, ImshAssumption DEF Object
  <2>2. GeneralDith(bitmap[x], GenPoints(list)) \in [DOMAIN bitmap[x] -> {Black, White}]
    BY <1>3, <2>1, BitmapIs, GenPointsType, DiffusedType DEF GeneralDith
  <2>. QED BY <1>1, <1>3, <2>1, <2>2, PaintedIsColoured DEF Outcome
<1>. QED
  BY <1>2, <1>3 DEF ImgGenDith

LEMMA DithOutcome ==
  ASSUME IInv, NEW x \in Object, NEW alg \in Number, ImgDith(x, alg)
  PROVE  Outcome(x)
<1>1. call'.on[1] = x /\ calls < MaxCalls /\ calls' = calls + 1
  BY DEF ImgDith, Calls
<1>2. CASE Raises(0) \/ ReturnsNil
  BY <1>1, <1>2 DEF Outcome, ReturnsNil
<1>3. CASE ~ (Raises(0) \/ ReturnsNil)
  <2>1. x \in Handles
    BY <1>3 DEF ImgDith, Object
  <2>2. PICK img : /\ Returns(x, img)
                   /\ \/ img \in {AtkinsonDith(bitmap[x]), FloydSteinbergDith(bitmap[x]),
                                  OrderedDith(bitmap[x]), StuckiDith(bitmap[x])}
                      \/ \E r, s, turn : img = RandomDith(bitmap[x], r, s, turn)
    BY <1>3 DEF ImgDith
  <2>3. img \in [DOMAIN bitmap[x] -> {Black, White}]
    BY <2>1, <2>2, BitmapIs, DithersBlackAndWhite
  <2>. QED BY <1>1, <2>1, <2>2, <2>3, PaintedIsColoured DEF Outcome
<1>. QED
  BY <1>2, <1>3

LEMMA NextOutcome ==
  ASSUME IInv, Next
  PROVE  \E x \in Object : Outcome(x)
<1>1. PICK x \in Object :
        \/ ImgGr(x) \/ ImgNeg(x) \/ ImgBinNot(x)
        \/ \E n \in Number : ImgBw(x, n) \/ ImgCh(x, n) \/ ImgDith(x, n)
        \/ \E n \in Levels \cup {NotNum} : ImgGrl(x, n)
        \/ \E side \in Sides \cup {NotNum} :
             ImgMed(x, side) \/ \E color \in {0, 1, NotNum} : ImgPix(x, side, color)
        \/ \E y \in Object : ImgBinAnd(x, y) \/ ImgBinOr(x, y) \/ ImgBinXor(x, y) \/ ImgBinSub(x, y)
        \/ \E list \in Lists \cup {NotList} :
             \/ ImgBinDilate(x, list) \/ ImgBinErode(x, list)
             \/ \E scale \in Scales : ImgConv(x, list, scale[1], scale[2])
        \/ \E list \in DithLists \cup {NotList} : ImgGenDith(x, list)
  BY DEF Next
<1>. QED
  BY <1>1, PointOutcome, DithOutcome, GrlOutcome, MedOutcome, PixOutcome, BinOpOutcome,
     MatrixOutcome, GenDithOutcome
-----------------------------------------------------------------------------
(* The invariant.                                                          *)
LEMMA InitIInv == Init => IInv
<1>. SUFFICES ASSUME Init PROVE IInv
  OBVIOUS
<1>1. DOMAIN bitmap = Handles
  BY DEF Init
<1>2. ASSUME NEW h \in Handles PROVE \E img \in Bitmaps : bitmap[h] \in [DOMAIN img -> Colour]
  <2>1. bitmap[h] \in Bitmaps /\ IsImage(bitmap[h])
    BY ImshAssumption DEF Init
  <2>. QED BY <2>1, ImageType
<1>3. calls \in 0..MaxCalls /\ blocks \in 0..calls /\ result = "nil"
  BY ImshAssumption DEF Init
<1>. QED
  BY <1>1, <1>2, <1>3 DEF IInv

LEMMA NextIInv == IInv /\ [Next]_vars => IInv'
<1>. SUFFICES ASSUME IInv, [Next]_vars PROVE IInv'
  OBVIOUS
<1>1. CASE UNCHANGED vars
  BY <1>1 DEF vars, IInv
<1>2. CASE Next
  <2>1. PICK x \in Object : Outcome(x)
    BY <1>2, NextOutcome
  <2>2. calls' \in 0..MaxCalls /\ calls' = calls + 1 /\ calls \in 0..MaxCalls /\ blocks \in 0..calls
    BY <2>1, ImshAssumption DEF Outcome, IInv
  <2>3. CASE x \in Handles /\ \E img \in [DOMAIN bitmap[x] -> Colour] :
                /\ Returns(x, img)
                /\ call'.fn \in Dithers => img \in [DOMAIN bitmap[x] -> {Black, White}]
    <3>1. PICK img \in [DOMAIN bitmap[x] -> Colour] :
                /\ Returns(x, img)
                /\ call'.fn \in Dithers => img \in [DOMAIN bitmap[x] -> {Black, White}]
      BY <2>3
    <3>2. bitmap' = [bitmap EXCEPT ![x] = img] /\ result' = "t" /\ blocks' = blocks
      BY <3>1 DEF Returns
    <3>3. DOMAIN bitmap = Handles /\ DOMAIN bitmap' = Handles /\ bitmap'[x] = img
          /\ \A h \in Handles \ {x} : bitmap'[h] = bitmap[h]
      BY <2>3, <3>2 DEF IInv
    <3>4. ASSUME NEW h \in Handles PROVE \E i \in Bitmaps : bitmap'[h] \in [DOMAIN i -> Colour]
      <4>1. PICK i \in Bitmaps : bitmap[h] \in [DOMAIN i -> Colour]
        BY DEF IInv
      <4>. QED BY <4>1, <3>1, <3>3
    <3>5. blocks' \in 0..calls'
      BY <2>2, <3>2
    <3>6. call'.on[1] = x
      BY <2>1 DEF Outcome
    <3>7. call'.fn \in Dithers => bitmap'[call'.on[1]] \in [DOMAIN bitmap'[call'.on[1]] -> {Black, White}]
      BY <3>1, <3>3, <3>6
    <3>. QED BY <2>2, <2>3, <3>2, <3>3, <3>4, <3>5, <3>6, <3>7 DEF IInv
  <2>4. CASE result' \in {"nil"} \cup Ended /\ UNCHANGED <<bitmap, blocks>>
    <3>1. blocks' \in 0..calls' /\ result' # "t"
      BY <2>2, <2>4 DEF Ended
    <3>. QED BY <2>2, <2>4, <3>1 DEF IInv
  <2>5. CASE Raises(0) \/ Raises(1)
    <3>1. bitmap' = bitmap /\ result' = "err" /\ blocks' \in 0..calls'
      BY <2>2, <2>5 DEF Raises
    <3>. QED BY <2>2, <3>1 DEF IInv
  <2>. QED BY <2>1, <2>3, <2>4, <2>5 DEF Outcome
<1>. QED
  BY <1>1, <1>2

(* Between the calls, the images keep their sizes and channels, there are  *)
(* no more blocks than calls, and what was dithered last is black and      *)
(* white: the invariant, which every call preserves.                       *)
THEOREM Invariance == Spec => []IInv
<1>. QED
  BY InitIInv, NextIInv, PTL DEF Spec

(* Whatever the script calls, every channel of every image stays a byte    *)
(* and every result is one of those that the img_* functions return.       *)
THEOREM TypeCorrect == Spec => []TypeOK
<1>1. IInv => TypeOK
  <2>1. calls \in 0..MaxCalls /\ blocks \in 0..calls => blocks \in 0..MaxCalls
    BY ImshAssumption
  <2>. QED BY <2>1 DEF IInv, TypeOK
<1>. QED
  BY Invariance, <1>1, PTL
-----------------------------------------------------------------------------
(* A call that fails leaves every image as it was, and no call leaves a    *)
(* block behind but through err.                                           *)
THEOREM FailuresAreClean == Spec => CleanFailure
<1>1. ASSUME IInv, [Next]_vars PROVE [OnlyTheFirstOperand /\ LeakOnlyByErr]_vars
  <2>1. CASE UNCHANGED vars
    BY <2>1
  <2>2. CASE Next
    <3>1. PICK x \in Object : Outcome(x)
      BY <1>1, <2>2, NextOutcome
    <3>2. call'.on[1] = x /\ DOMAIN bitmap = Handles /\ blocks \in Int
      BY <1>1, <3>1 DEF Outcome, IInv
    <3>3. CASE x \in Handles /\ \E img \in [DOMAIN bitmap[x] -> Colour] : Returns(x, img)
      BY <3>2, <3>3 DEF Returns, OnlyTheFirstOperand, LeakOnlyByErr
    <3>4. CASE result' \in {"nil"} \cup Ended /\ UNCHANGED <<bitmap, blocks>>
      BY <3>4 DEF OnlyTheFirstOperand, LeakOnlyByErr
    <3>5. CASE Raises(0) \/ Raises(1)
      BY <3>2, <3>5 DEF Raises, OnlyTheFirstOperand, LeakOnlyByErr
    <3>. QED BY <3>1, <3>3, <3>4, <3>5 DEF Outcome
  <2>. QED BY <1>1, <2>1, <2>2
<1>. QED
  BY Invariance, <1>1, PTL DEF Spec, CleanFailure
-----------------------------------------------------------------------------
(* Which function was called.                                              *)
LEMMA PlainCall ==
  ASSUME NEW fn, NEW x, NEW args, NEW stop, NEW img, Plain(fn, x, args, stop, img)
  PROVE  call'.fn = fn /\ call'.on = <<x>> /\ call'.args = args
  BY DEF Plain, Calls

LEMMA WithMatrixCall ==
  ASSUME NEW fn, NEW x, NEW list, NEW args, NEW stop, NEW img,
         WithMatrix(fn, x, list, args, stop, img)
  PROVE  call'.fn = fn
  BY DEF WithMatrix, Calls

LEMMA CalledIs ==
  ASSUME Next
  PROVE  /\ call'.fn = "img_pix" =>
              \E x \in Object, side \in Sides \cup {NotNum}, color \in {0, 1, NotNum} :
                ImgPix(x, side, color)
         /\ call'.fn = "img_grl" =>
              \E x \in Object, n \in Levels \cup {NotNum} : ImgGrl(x, n)
         /\ call'.fn = "img_med" =>
              \E x \in Object, side \in Sides \cup {NotNum} : ImgMed(x, side)
         /\ call'.fn \in {"img_binand", "img_binor", "img_binxor", "img_binsub"} =>
              \E x, y \in Object :
                ImgBinAnd(x, y) \/ ImgBinOr(x, y) \/ ImgBinXor(x, y) \/ ImgBinSub(x, y)
<1>1. ASSUME NEW x \in Object
      PROVE  /\ ImgGr(x) => call'.fn = "img_gr"
             /\ ImgNeg(x) => call'.fn = "img_neg"
             /\ ImgBinNot(x) => call'.fn = "img_binnot"
  BY PlainCall DEF ImgGr, ImgNeg, ImgBinNot
<1>2. ASSUME NEW x \in Object, NEW n
      PROVE  /\ ImgBw(x, n) => call'.fn = "img_bw"
             /\ ImgCh(x, n) => call'.fn = "img_ch"
             /\ ImgDith(x, n) => call'.fn = "img_dith"
             /\ ImgGrl(x, n) => call'.fn = "img_grl"
             /\ ImgMed(x, n) => call'.fn = "img_med"
             /\ ImgGenDith(x, n) => call'.fn = "img_gendith"
             /\ ImgBinDilate(x, n) => call'.fn = "img_bindilate"
             /\ ImgBinErode(x, n) => call'.fn = "img_binerode"
  <2>1. ImgBw(x, n) => call'.fn = "img_bw"
    BY PlainCall DEF ImgBw
  <2>2. ImgCh(x, n) => call'.fn = "img_ch"
    BY PlainCall DEF ImgCh
  <2>3. ImgDith(x, n) => call'.fn = "img_dith"
    BY DEF ImgDith, Calls
  <2>4. ImgGrl(x, n) => call'.fn = "img_grl"
    BY PlainCall DEF ImgGrl
  <2>5. ImgMed(x, n) => call'.fn = "img_med"
    BY PlainCall DEF ImgMed, Calls
  <2>6. ImgGenDith(x, n) => call'.fn = "img_gendith"
    BY DEF ImgGenDith, Calls
  <2>7. ImgBinDilate(x, n) => call'.fn = "img_bindilate"
    BY WithMatrixCall DEF ImgBinDilate
  <2>8. ImgBinErode(x, n) => call'.fn = "img_binerode"
    BY WithMatrixCall DEF ImgBinErode
  <2>. QED BY <2>1, <2>2, <2>3, <2>4, <2>5, <2>6, <2>7, <2>8
<1>3. ASSUME NEW x \in Object, NEW a, NEW b
      PROVE  /\ ImgPix(x, a, b) => call'.fn = "img_pix"
             /\ ImgBinAnd(x, a) => call'.fn = "img_binand"
             /\ ImgBinOr(x, a) => call'.fn = "img_binor"
             /\ ImgBinXor(x, a) => call'.fn = "img_binxor"
             /\ ImgBinSub(x, a) => call'.fn = "img_binsub"
  <2>1. ImgPix(x, a, b) => call'.fn = "img_pix"
    BY PlainCall DEF ImgPix
  <2>. QED BY <2>1 DEF ImgBinAnd, ImgBinOr, ImgBinXor, ImgBinSub, ImgBinOp, Calls
<1>4. ASSUME NEW x \in Object, NEW list, NEW div, NEW shift, ImgConv(x, list, div, shift)
      PROVE  call'.fn = "img_conv"
  BY <1>4, WithMatrixCall DEF ImgConv
<1>5. PICK x \in Object :
        \/ ImgGr(x) \/ ImgNeg(x) \/ ImgBinNot(x)
        \/ \E n \in Number : ImgBw(x, n) \/ ImgCh(x, n) \/ ImgDith(x, n)
        \/ \E n \in Levels \cup {NotNum} : ImgGrl(x, n)
        \/ \E side \in Sides \cup {NotNum} :
             ImgMed(x, side) \/ \E color \in {0, 1, NotNum} : ImgPix(x, side, color)
        \/ \E y \in Object : ImgBinAnd(x, y) \/ ImgBinOr(x, y) \/ ImgBinXor(x, y) \/ ImgBinSub(x, y)
        \/ \E list \in Lists \cup {NotList} :
             \/ ImgBinDilate(x, list) \/ ImgBinErode(x, list)
             \/ \E scale \in Scales : ImgConv(x, list, scale[1], scale[2])
        \/ \E list \in DithLists \cup {NotList} : ImgGenDith(x, list)
  BY DEF Next
<1>6. call'.fn = "img_pix" =>
        \E side \in Sides \cup {NotNum}, color \in {0, 1, NotNum} : ImgPix(x, side, color)
  BY <1>1, <1>2, <1>3, <1>4, <1>5
<1>7. call'.fn = "img_grl" => \E n \in Levels \cup {NotNum} : ImgGrl(x, n)
  BY <1>1, <1>2, <1>3, <1>4, <1>5
<1>8. call'.fn = "img_med" => \E side \in Sides \cup {NotNum} : ImgMed(x, side)
  BY <1>1, <1>2, <1>3, <1>4, <1>5
<1>9. call'.fn \in {"img_binand", "img_binor", "img_binxor", "img_binsub"} =>
        \E y \in Object : ImgBinAnd(x, y) \/ ImgBinOr(x, y) \/ ImgBinXor(x, y) \/ ImgBinSub(x, y)
  BY <1>1, <1>2, <1>3, <1>4, <1>5
<1>. QED
  BY <1>6, <1>7, <1>8, <1>9
-----------------------------------------------------------------------------
(* The binary operations are those on the sets of pixels.                  *)
LEMMA BitOfPaint ==
  Bit(Paint(TRUE)) /\ ~ Bit(Paint(FALSE))
  BY DEF Bit, Paint, Black, White, Grey, Channels

Both(img1, img2) == DOMAIN img1 \cap DOMAIN img2
BinOpSet(op, img1, img2) ==
  {p \in Both(img1, img2) : BinOp(op, p \in Set(img1), p \in Set(img2)) = TRUE}

LEMMA BinOpOnSets ==
  ASSUME NEW img1, NEW img2, NEW op
  PROVE  Set(BinOp2(op, img1, img2)) \cap Both(img1, img2) = BinOpSet(op, img1, img2)
<1>. DEFINE new == BinOp2(op, img1, img2)
<1>1. DOMAIN new = DOMAIN img1
  BY DEF BinOp2
<1>2. ASSUME NEW p \in Both(img1, img2)
      PROVE  new[p] = Paint(BinOp(op, Bit(img1[p]), Bit(img2[p])))
  BY DEF BinOp2, Both
<1>3. ASSUME NEW p \in Both(img1, img2)
      PROVE  p \in Set(new) <=> BinOp(op, p \in Set(img1), p \in Set(img2)) = TRUE
  <2>1. p \in Set(new) <=> Bit(new[p])
    BY <1>1 DEF Set, Both
  <2>2. (p \in Set(img1)) = Bit(img1[p]) /\ (p \in Set(img2)) = Bit(img2[p])
    BY DEF Set, Bit, Both
  <2>3. new[p] = Paint(BinOp(op, p \in Set(img1), p \in Set(img2)))
    BY <1>2, <2>2
  <2>. QED BY <2>1, <2>3, BitOfPaint DEF Paint
<1>. QED
  BY <1>3 DEF BinOpSet

LEMMA BinOpSetIs ==
  ASSUME NEW img1, NEW img2
  PROVE  /\ BinOpSet("and", img1, img2) = Both(img1, img2) \cap (Set(img1) \cap Set(img2))
         /\ BinOpSet("or", img1, img2) = Both(img1, img2) \cap (Set(img1) \cup Set(img2))
         /\ BinOpSet("xor", img1, img2)
              = Both(img1, img2) \cap ((Set(img1) \cup Set(img2)) \ (Set(img1) \cap Set(img2)))
         /\ BinOpSet("sub", img1, img2) = Both(img1, img2) \cap (Set(img1) \ Set(img2))
  BY DEF BinOpSet, BinOp

LEMMA BinOpReturns ==
  ASSUME NEW fn, NEW op, NEW x \in Object, NEW y \in Object, ImgBinOp(fn, op, x, y), result' = "t",
         IInv
  PROVE  /\ x \in Handles /\ y \in Handles
         /\ call'.fn = fn /\ call'.on[1] = x /\ call'.on[2] = y
         /\ bitmap'[x] = BinOp2(op, bitmap[x], bitmap[y])
<1>1. call'.fn = fn /\ call'.on = <<x, y>>
  BY DEF ImgBinOp, Calls
<1>2. NotImg \notin {x, y} /\ Returns(x, BinOp2(op, bitmap[x], bitmap[y]))
  BY DEF ImgBinOp, Raises
<1>3. x \in Handles /\ y \in Handles
  BY <1>2 DEF Object
<1>4. bitmap'[x] = BinOp2(op, bitmap[x], bitmap[y])
  BY <1>2, <1>3 DEF Returns, IInv
<1>. QED
  BY <1>1, <1>3, <1>4

LEMMA SetAlgebraStep ==
  ASSUME IInv, Next
  PROVE  SetAlgebra
<1>. SUFFICES ASSUME result' = "t",
                     call'.fn \in {"img_binand", "img_binor", "img_binxor", "img_binsub"}
              PROVE  SetAlgebra
  BY DEF SetAlgebra
<1>1. PICK x \in Object, y \in Object :
        ImgBinAnd(x, y) \/ ImgBinOr(x, y) \/ ImgBinXor(x, y) \/ ImgBinSub(x, y)
  BY CalledIs
<1>. DEFINE A == Set(bitmap[x])
            B == Set(bitmap[y])
            Is(fn, set) ==
              /\ call'.fn = fn /\ call'.on[1] = x /\ call'.on[2] = y
              /\ Set(bitmap'[x]) \cap Both(bitmap[x], bitmap[y]) = set
<1>2. ASSUME NEW fn, NEW op, ImgBinOp(fn, op, x, y)
      PROVE  Is(fn, BinOpSet(op, bitmap[x], bitmap[y]))
  BY <1>2, BinOpReturns, BinOpOnSets
<1>3. ASSUME NEW fn, NEW set, Is(fn, Both(bitmap[x], bitmap[y]) \cap set),
             set = CASE fn = "img_binand" -> A \cap B
                     [] fn = "img_binor"  -> A \cup B
                     [] fn = "img_binxor" -> (A \cup B) \ (A \cap B)
                     [] fn = "img_binsub" -> A \ B
      PROVE  SetAlgebra
  BY <1>3 DEF SetAlgebra, Both
<1>4. CASE ImgBinAnd(x, y)
  <2>1. Is("img_binand", Both(bitmap[x], bitmap[y]) \cap (A \cap B))
    BY <1>2, <1>4, BinOpSetIs DEF ImgBinAnd
  <2>. QED BY <1>3, <2>1
<1>5. CASE ImgBinOr(x, y)
  <2>1. Is("img_binor", Both(bitmap[x], bitmap[y]) \cap (A \cup B))
    BY <1>2, <1>5, BinOpSetIs DEF ImgBinOr
  <2>. QED BY <1>3, <2>1
<1>6. CASE ImgBinXor(x, y)
  <2>1. Is("img_binxor", Both(bitmap[x], bitmap[y]) \cap ((A \cup B) \ (A \cap B)))
    BY <1>2, <1>6, BinOpSetIs DEF ImgBinXor
  <2>. QED BY <1>3, <2>1
<1>7. CASE ImgBinSub(x, y)
  <2>1. Is("img_binsub", Both(bitmap[x], bitmap[y]) \cap (A \ B))
    BY <1>2, <1>7, BinOpSetIs DEF ImgBinSub
  <2>. QED BY <1>3, <2>1
<1>. QED
  BY <1>1, <1>4, <1>5, <1>6, <1>7
-----------------------------------------------------------------------------
(* The grey levels of algo_grl.                                            *)
LEMMA RoundedMonotone ==
  ASSUME NEW c \in Colour, NEW d \in Colour, NEW band \in Nat \ {0}, Length2(c) <= Length2(d)
  PROVE  Rounded(c, band) * Rounded(c, band) <= Rounded(d, band) * Rounded(d, band)
<1>. DEFINE a == Isqrt(Length2(c))
            b == Isqrt(Length2(d))
<1>1. a \in Nat /\ b \in Nat /\ a <= b
  BY Length2Type, IsqrtIs, IsqrtMonotone
<1>2. Rounded(c, band) = band * (a \div band) /\ Rounded(d, band) = band * (b \div band)
  BY DEF Rounded
<1>. HIDE DEF a, b
<1>. DEFINE i == a \div band
            j == b \div band
<1>3. i \in Nat /\ j \in Nat /\ i <= j
  <2>1. i \in Nat /\ j \in Nat /\ band * i <= a /\ b < band * j + band
    BY <1>1
  <2>. HIDE DEF i, j
  <2>2. ~ (i >= j + 1)
    <3>1. SUFFICES ASSUME i >= j + 1 PROVE FALSE
      OBVIOUS
    <3>2. band * i >= band * (j + 1) /\ band * (j + 1) = band * j + band
      BY <2>1, <3>1
    <3>. QED BY <1>1, <2>1, <3>2
  <2>. QED BY <2>1, <2>2
<1>. HIDE DEF i, j
<1>4. band * i \in Nat /\ band * j \in Nat /\ band * i <= band * j
  BY <1>3
<1>5. \A u, v \in Nat : u <= v => u * u <= v * v
  <2>1. ASSUME NEW u \in Nat, NEW v \in Nat, u <= v PROVE u * u <= v * v
    <3>1. u * u <= u * v /\ u * v <= v * v
      BY <2>1
    <3>. QED BY <3>1
  <2>. QED BY <2>1
<1>. QED
  BY <1>2, <1>4, <1>5 DEF i, j

LEMMA GreyLevelsStep ==
  ASSUME IInv, Next
  PROVE  GreyLevels
<1>. SUFFICES ASSUME result' = "t", call'.fn = "img_grl" PROVE GreyLevels
  BY DEF GreyLevels
<1>1. PICK x \in Object, n \in Levels \cup {NotNum} : ImgGrl(x, n)
  BY CalledIs
<1>. DEFINE stop == IF n < 2 THEN "abort" ELSE IF Band(n) = 0 THEN "sigfpe" ELSE "no"
            img == bitmap[x]
            band == Band(n)
<1>2. Plain("img_grl", x, <<n>>, stop, Grl(img, n)) /\ stop # "t"
  BY <1>1 DEF ImgGrl
<1>3. /\ x \in Handles /\ n # NotNum /\ ~ (n < 2) /\ Band(n) # 0
      /\ call'.on[1] = x /\ bitmap'[x] = Grl(img, n)
  <2>1. stop = "no" => ~ (n < 2) /\ Band(n) # 0
    OBVIOUS
  <2>. HIDE DEF stop
  <2>2. x \in Handles /\ NotNum \notin Range(<<n>>) /\ stop = "no" /\ Calls("img_grl", <<x>>, <<n>>)
        /\ Returns(x, Grl(img, n))
    BY <1>2, PlainReturns
  <2>. QED BY <2>1, <2>2 DEF Range, Calls, Returns, IInv
<1>4. band \in Nat \ {0} /\ IsImage(img) /\ img \in [DOMAIN img -> Colour]
  <2>1. n \in Int
    BY <1>3, ImshAssumption
  <2>2. n > 0
    BY <1>3, <2>1
  <2>. QED BY <1>3, <2>1, <2>2, BandType, BitmapIs
<1>. DEFINE new == bitmap'[x]
<1>5. \A p \in DOMAIN img : new[p]["r"] = GreyLevel(img[p], band)
                             /\ Gr(img)[p]["r"] = Isqrt(Length2(img[p]) \div 3)
  BY <1>3 DEF Grl, Gr, Grey, Channels
<1>. HIDE DEF new, img, band
<1>6. \A u, v \in Nat : u <= v => Isqrt(u \div 3) <= Isqrt(v \div 3)
  <2>1. ASSUME NEW u \in Nat, NEW v \in Nat, u <= v PROVE Isqrt(u \div 3) <= Isqrt(v \div 3)
    <3>1. u \div 3 \in Nat /\ v \div 3 \in Nat /\ u \div 3 <= v \div 3
      BY <2>1
    <3>. QED BY <3>1, IsqrtMonotone
  <2>. QED BY <2>1
<1>7. ASSUME NEW p \in DOMAIN img PROVE new[p]["r"] <= Gr(img)[p]["r"]
  <2>1. img[p] \in Colour /\ Length2(img[p]) \in Nat
    BY <1>4, Length2Type
  <2>2. /\ Rounded(img[p], band) * Rounded(img[p], band) \in Nat
        /\ Rounded(img[p], band) * Rounded(img[p], band) <= Length2(img[p])
        /\ GreyLevel(img[p], band) = Isqrt((Rounded(img[p], band) * Rounded(img[p], band)) \div 3)
    BY <1>4, <2>1, RoundedIs
  <2>. QED BY <1>5, <1>6, <2>1, <2>2
<1>8. ASSUME NEW p \in DOMAIN img, NEW q \in DOMAIN img, Length2(img[p]) <= Length2(img[q])
      PROVE  new[p]["r"] <= new[q]["r"]
  <2>1. img[p] \in Colour /\ img[q] \in Colour
    BY <1>4
  <2>2. /\ Rounded(img[p], band) * Rounded(img[p], band) \in Nat
        /\ Rounded(img[q], band) * Rounded(img[q], band) \in Nat
        /\ GreyLevel(img[p], band) = Isqrt((Rounded(img[p], band) * Rounded(img[p], band)) \div 3)
        /\ GreyLevel(img[q], band) = Isqrt((Rounded(img[q], band) * Rounded(img[q], band)) \div 3)
    BY <1>4, <2>1, RoundedIs
  <2>3. Rounded(img[p], band) * Rounded(img[p], band) <= Rounded(img[q], band) * Rounded(img[q], band)
    BY <1>4, <1>8, <2>1, RoundedMonotone
  <2>. QED BY <1>5, <1>6, <2>2, <2>3
<1>. QED
  BY <1>3, <1>7, <1>8 DEF GreyLevels, new, img
-----------------------------------------------------------------------------
(* The squares of algo_pix: one colour, between the darkest and the        *)
(* lightest of the square.                                                 *)
SameSquare(img, side, p) == {q \in DOMAIN img : Square(q, side) = Square(p, side)}

LEMMA MeanWithin ==
  ASSUME NEW img, IsImage(img), NEW side \in Nat \ {0}, NEW p \in DOMAIN img, NEW k \in Channels
  PROVE  /\ \E q \in SameSquare(img, side, p) : img[q][k] <= Mean(img, Square(p, side), side)[k]
         /\ \E q \in SameSquare(img, side, p) : img[q][k] >= Mean(img, Square(p, side), side)[k]
<1>. DEFINE S == SameSquare(img, side, p)
            T == {img[q][k] : q \in S}
            U == {255 - img[q][k] : q \in S}
<1>1. S \subseteq DOMAIN img /\ p \in S
  BY DEF SameSquare
<1>2. \A q \in DOMAIN img : img[q][k] \in 0..255
  BY ImageType, ColourType
<1>3. PICK lo \in T : \A v \in T : lo <= v
  <2>1. T \in SUBSET Nat /\ T # {}
    BY <1>1, <1>2
  <2>. HIDE DEF T
  <2>. QED BY <2>1, LeastElement
<1>4. PICK least \in U : \A v \in U : least <= v
  <2>1. U \in SUBSET Nat /\ U # {}
    BY <1>1, <1>2
  <2>. HIDE DEF U
  <2>. QED BY <2>1, LeastElement
<1>. DEFINE hi == 255 - least
<1>5. lo \in Int /\ hi \in Int /\ \E q \in S : img[q][k] = lo /\ \E r \in S : img[r][k] = hi
  BY <1>1, <1>2, <1>3, <1>4
<1>6. \A q \in DOMAIN img : Square(q, side) = Square(p, side) => lo <= img[q][k] /\ img[q][k] <= hi
  <2>1. ASSUME NEW q \in DOMAIN img, Square(q, side) = Square(p, side)
        PROVE lo <= img[q][k] /\ img[q][k] <= hi
    <3>1. q \in S
      BY <2>1 DEF SameSquare
    <3>2. lo <= img[q][k] /\ least <= 255 - img[q][k]
      BY <1>3, <1>4, <3>1
    <3>3. img[q][k] \in Int /\ least \in Int
      BY <1>1, <1>2, <1>4
    <3>. QED BY <3>2, <3>3
  <2>. QED BY <2>1
<1>. DEFINE mean == Mean(img, Square(p, side), side)[k]
<1>. HIDE DEF hi, S
<1>7. mean \in Int /\ lo <= mean /\ mean <= hi
  BY <1>5, <1>6, MeanBounds
<1>. HIDE DEF mean
<1>8. (\E q \in S : img[q][k] <= mean) /\ (\E q \in S : img[q][k] >= mean)
  BY <1>5, <1>7
<1>. QED
  BY <1>8 DEF S, mean

LEMMA PixWithinSquareStep ==
  ASSUME IInv, Next
  PROVE  PixWithinSquare
<1>. SUFFICES ASSUME result' = "t", call'.fn = "img_pix" PROVE PixWithinSquare
  BY DEF PixWithinSquare
<1>1. PICK x \in Object, side \in Sides \cup {NotNum}, color \in {0, 1, NotNum} : ImgPix(x, side, color)
  BY CalledIs
<1>. DEFINE stop == IF side <= 0 THEN "abort" ELSE "no"
            img == bitmap[x]
<1>2. Plain("img_pix", x, <<side, color>>, stop, Pix(img, side, color)) /\ stop # "t"
  BY <1>1 DEF ImgPix
<1>3. /\ x \in Handles /\ side # NotNum /\ ~ (side <= 0)
      /\ call'.on[1] = x /\ call'.args[1] = side /\ call'.args[2] = color
      /\ bitmap'[x] = Pix(img, side, color)
  <2>1. stop = "no" => ~ (side <= 0)
    OBVIOUS
  <2>. HIDE DEF stop
  <2>2. x \in Handles /\ NotNum \notin Range(<<side, color>>) /\ stop = "no"
        /\ Calls("img_pix", <<x>>, <<side, color>>) /\ Returns(x, Pix(img, side, color))
    BY <1>2, PlainReturns
  <2>. QED BY <2>1, <2>2 DEF Range, Calls, Returns, IInv
<1>4. side \in Nat \ {0} /\ IsImage(img)
  <2>1. side \in Int
    BY <1>3, ImshAssumption
  <2>. QED BY <1>3, <2>1, BitmapIs
<1>. DEFINE new == bitmap'[x]
<1>5. \A p \in DOMAIN img : new[p] = PixShade(Mean(img, Square(p, side), side), color)
  BY <1>3, PixIs
<1>. HIDE DEF new, img
<1>6. ASSUME NEW p \in DOMAIN img, NEW q \in SameSquare(img, side, p)
      PROVE  new[q] = new[p]
  BY <1>5 DEF SameSquare
<1>7. ASSUME NEW p \in DOMAIN img, color # 0, NEW k \in Channels
      PROVE  /\ \E q \in SameSquare(img, side, p) : img[q][k] <= new[p][k]
             /\ \E q \in SameSquare(img, side, p) : img[q][k] >= new[p][k]
  <2>1. new[p] = Mean(img, Square(p, side), side)
    BY <1>5, <1>7 DEF PixShade
  <2>. QED BY <1>4, <2>1, MeanWithin
<1>. QED
  BY <1>3, <1>6, <1>7 DEF PixWithinSquare, SameSquare, new, img
-----------------------------------------------------------------------------
(* The median filter removes impulses.                                     *)
Around(m, p) == {<<p[1] + o[1], p[2] + o[2]>> : o \in (-m..m) \X (-m..m)} \ {p}

LEMMA AroundIsCentral ==
  ASSUME NEW img, IsImage(img), NEW side \in Nat, side > 2, side % 2 = 1, NEW p \in DOMAIN img,
         Around(side \div 2, p) \subseteq DOMAIN img
  PROVE  p \in Central(img, side)
<1>. DEFINE m == side \div 2
<1>1. m \in Nat /\ m >= 1
  OBVIOUS
<1>2. /\ Height(img) \in Nat /\ Width(img) \in Nat
      /\ DOMAIN img = (0..(Height(img) - 1)) \X (0..(Width(img) - 1))
  BY ImageType DEF Points
<1>. HIDE DEF m
<1>3. p[1] \in Int /\ p[2] \in Int /\ p = <<p[1], p[2]>>
  BY <1>2
<1>4. ASSUME NEW o \in (-m..m) \X (-m..m), o[1] # 0
      PROVE  <<p[1] + o[1], p[2] + o[2]>> \in DOMAIN img
  <2>1. <<p[1] + o[1], p[2] + o[2]>> # p
    BY <1>1, <1>3, <1>4
  <2>. QED BY <2>1 DEF Around, m
<1>5. <<-m, -m>> \in (-m..m) \X (-m..m) /\ <<m, m>> \in (-m..m) \X (-m..m)
  BY <1>1
<1>6. <<p[1] + (-m), p[2] + (-m)>> \in DOMAIN img /\ <<p[1] + m, p[2] + m>> \in DOMAIN img
  BY <1>1, <1>4, <1>5
<1>7. m <= p[1] /\ p[1] + m < Height(img) /\ m <= p[2] /\ p[2] + m < Width(img)
  BY <1>1, <1>2, <1>3, <1>6
<1>. QED
  BY <1>7 DEF Central, m

(* All cells of the window but its centre lie over the pixels around p.    *)
LEMMA WindowAround ==
  ASSUME NEW img, IsImage(img), NEW side \in Nat, side > 2, side % 2 = 1,
         NEW p \in Central(img, side), NEW k \in Channels,
         NEW o \in Cells(side) \ {Centre(side)}
  PROVE  \E q \in Around(side \div 2, p) : ChannelAt(img, side, p, k)[o] = img[q][k]
<1>. DEFINE m == side \div 2
            q == <<p[1] - m + o[1], p[2] - m + o[2]>>
<1>1. side = 2 * m + 1 /\ m \in Nat
  OBVIOUS
<1>2. p[1] \in Int /\ p[2] \in Int /\ p = <<p[1], p[2]>>
  <2>1. p \in DOMAIN img /\ DOMAIN img = (0..(Height(img) - 1)) \X (0..(Width(img) - 1))
    BY ImageType DEF Points, Central
  <2>. QED BY <2>1
<1>3. ChannelAt(img, side, p, k)[o] = img[q][k]
  BY WindowIn DEF ChannelAt
<1>4. o = <<o[1], o[2]>> /\ o[1] \in 0..(side - 1) /\ o[2] \in 0..(side - 1) /\ o # <<m, m>>
  BY DEF Cells, Centre
<1>. HIDE DEF m
<1>5. <<o[1] - m, o[2] - m>> \in (-m..m) \X (-m..m)
  BY <1>1, <1>4
<1>6. q = <<p[1] + (o[1] - m), p[2] + (o[2] - m)>>
  BY <1>1, <1>2, <1>4
<1>7. q # p
  <2>1. o[1] - m # 0 \/ o[2] - m # 0
    <3>1. o[1] # m \/ o[2] # m
      BY <1>4
    <3>2. o[1] \in Int /\ o[2] \in Int /\ m \in Int
      BY <1>1, <1>4
    <3>3. \A a, b \in Int : a # b => a - b # 0
      OBVIOUS
    <3>. QED BY <3>1, <3>2, <3>3
  <2>2. p[1] + (o[1] - m) # p[1] \/ p[2] + (o[2] - m) # p[2]
    BY <1>1, <1>2, <1>4, <2>1
  <2>. HIDE DEF q
  <2>3. q[1] = p[1] + (o[1] - m) /\ q[2] = p[2] + (o[2] - m)
    BY <1>6
  <2>. QED BY <2>2, <2>3
<1>. HIDE DEF q
<1>8. q \in Around(m, p)
  BY <1>5, <1>6, <1>7 DEF Around
<1>. QED
  BY <1>3, <1>8 DEF m

LEMMA ImpulseRemovedStep ==
  ASSUME IInv, Next
  PROVE  ImpulseRemoved
<1>. SUFFICES ASSUME result' = "t", call'.fn = "img_med" PROVE ImpulseRemoved
  BY DEF ImpulseRemoved
<1>1. PICK x \in Object, side \in Sides \cup {NotNum} : ImgMed(x, side)
  BY CalledIs
<1>. DEFINE img == bitmap[x]
            new == bitmap'[x]
            m == side \div 2
<1>2. Plain("img_med", x, <<side>>, AreaStop(img, side), Med(img, side)) /\ AreaStop(img, side) # "t"
  BY <1>1, AreaStopIs DEF ImgMed, ReturnsNil, Ended
<1>3. /\ x \in Handles /\ side # NotNum /\ AreaStop(img, side) = "no"
      /\ call'.on[1] = x /\ call'.args[1] = side /\ new = Med(img, side)
  <2>1. x \in Handles /\ NotNum \notin Range(<<side>>) /\ AreaStop(img, side) = "no"
        /\ Calls("img_med", <<x>>, <<side>>) /\ Returns(x, Med(img, side))
    BY <1>2, PlainReturns
  <2>. QED BY <2>1 DEF Range, Calls, Returns, IInv
<1>4. side \in Nat /\ side > 2 /\ side % 2 = 1 /\ IsImage(img)
  <2>1. side \in Int
    BY <1>3, ImshAssumption
  <2>. QED BY <1>3, <2>1, AreaStopIs, OddSide, BitmapIs
<1>. HIDE DEF img, new
<1>5. ASSUME NEW p \in DOMAIN img, NEW k \in Channels,
             Around(m, p) \subseteq DOMAIN img,
             Cardinality({img[q][k] : q \in Around(m, p)}) = 1
      PROVE  new[p][k] \in {img[q][k] : q \in Around(m, p)}
  <2>. DEFINE samples == {img[q][k] : q \in Around(m, p)}
              w == ChannelAt(img, side, p, k)
  <2>1. p \in Central(img, side)
    BY <1>4, <1>5, AroundIsCentral
  <2>2. samples \subseteq Level
    BY <1>4, <1>5, ImageType, ColourType
  <2>3. IsFiniteSet(samples)
    <3>1. IsFiniteSet(Level)
      <4>1. 0 \in Int /\ 255 \in Int
        OBVIOUS
      <4>. QED BY <4>1, FS_Interval, Zenon DEF Level
    <3>. HIDE DEF samples
    <3>. QED BY <2>2, <3>1, FS_Subset
  <2>4. PICK v : samples = {v}
    BY <1>5, <2>3, FS_Singleton
  <2>5. \A o \in Cells(side) \ {Centre(side)} : w[o] = v
    BY <1>4, <2>1, <2>4, WindowAround
  <2>6. v \in Level /\ w \in [Cells(side) -> Level]
    BY <1>4, <2>1, <2>2, <2>4, ChannelType
  <2>7. Centre(side) \in Cells(side)
    BY <1>4 DEF Centre, Cells
  <2>8. MedianKernel(w, side) = v
    BY <1>4, <2>5, <2>6, <2>7, MedianRemovesImpulses
  <2>9. new[p][k] = MedianKernel(w, side)
    BY <1>3, <2>1, MedIs DEF new
  <2>. QED BY <2>4, <2>8, <2>9
<1>6. \A p \in DOMAIN img, k \in Channels :
        /\ Around(m, p) \subseteq DOMAIN img
        /\ Cardinality({img[q][k] : q \in Around(m, p)}) = 1
        => new[p][k] \in {img[q][k] : q \in Around(m, p)}
  BY <1>5
<1>. QED
  BY <1>3, <1>6 DEF ImpulseRemoved, Around, img, new
-----------------------------------------------------------------------------
(* The filters do what their names promise: sets are combined as sets, a   *)
(* square becomes one colour of its range, levels are grey and keep their  *)
(* order, impulses are removed.                                            *)
THEOREM FiltersKeepPromises == Spec => FiltersAsPromised
<1>1. ASSUME IInv, [Next]_vars
      PROVE  [SetAlgebra /\ PixWithinSquare /\ GreyLevels /\ ImpulseRemoved]_vars
  BY <1>1, SetAlgebraStep, PixWithinSquareStep, GreyLevelsStep, ImpulseRemovedStep
<1>. QED
  BY Invariance, <1>1, PTL DEF Spec, FiltersAsPromised
-----------------------------------------------------------------------------
(* What was dithered stays as it is, and no pixel depends on those after   *)
(* it.                                                                     *)
LEMMA StableWhenDithered ==
  ASSUME IInv
  PROVE  DitherStable
<1>. SUFFICES ASSUME result = "t", call.fn \in Dithers, NEW alg \in Diffusers
              PROVE  Dither(bitmap[call.on[1]], alg) = bitmap[call.on[1]]
  BY DEF DitherStable, Dithers
<1>. DEFINE img == bitmap[call.on[1]]
<1>1. call.on[1] \in Handles /\ img \in [DOMAIN img -> {Black, White}]
  BY DEF IInv
<1>2. IsImage(img)
  BY <1>1, BitmapIs
<1>3. PICK matrix \in Seq(Entries) : \A i : Dither(i, alg) = Diffused(i, matrix)
  BY DitherIs
<1>. QED
  BY <1>1, <1>2, <1>3, DiffusedStable

LEMMA CausalFromTheStart ==
  ASSUME IInv
  PROVE  DitherCausal
<1>. SUFFICES ASSUME NEW h \in Handles, NEW alg \in Diffusers,
                     NEW i \in DOMAIN Scan(bitmap[h]), NEW j \in 1..(i - 1)
              PROVE  Dither([bitmap[h] EXCEPT ![Scan(bitmap[h])[i]] = Negative(@)], alg)[Scan(bitmap[h])[j]]
                       = Dither(bitmap[h], alg)[Scan(bitmap[h])[j]]
  BY DEF DitherCausal
<1>. DEFINE img == bitmap[h]
            scan == Scan(img)
            other == [img EXCEPT ![scan[i]] = Negative(@)]
<1>1. IsImage(img) /\ img \in [DOMAIN img -> Colour]
  BY BitmapIs
<1>2. PICK matrix \in Seq(Entries) : \A g : Dither(g, alg) = Diffused(g, matrix)
  BY DitherIs
<1>. HIDE DEF img
<1>3. i \in 1..Len(scan) /\ scan[i] \in DOMAIN img
  BY <1>1, ScanIs DEF img
<1>4. other \in [DOMAIN img -> Colour]
  BY <1>1, <1>3, NegativeType
<1>5. \A q \in DOMAIN img \ {scan[i]} : other[q] = img[q]
  OBVIOUS
<1>. HIDE DEF other
<1>6. Diffused(other, matrix)[scan[j]] = Diffused(img, matrix)[scan[j]]
  BY <1>1, <1>3, <1>4, <1>5, DiffusedCausal
<1>. QED
  BY <1>2, <1>6 DEF img, other

(* Dithering gives black and white, leaves an image alone that already is, *)
(* and, where errors are diffused, does not go back in the scan.           *)
THEOREM DitheringIsSound == Spec => []DitherSound
<1>1. IInv => DitherSound
  BY StableWhenDithered, CausalFromTheStart DEF DitherSound
<1>. QED
  BY Invariance, <1>1, PTL
=============================================================================
