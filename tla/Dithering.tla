----------------------------- MODULE Dithering ------------------------------
(***************************************************************************)
(* The dithering filters of imsh.c.  The error-diffusing ones are one      *)
(* loop with different matrices: the pixel becomes black or white, which   *)
(* is noted in tmp, and the error is added to the pixels the matrix names; *)
(* the image is painted from tmp in the end.  A sum is cut to a byte, not  *)
(* clamped: a float out of range is undefined in C, and becomes its low    *)
(* byte in the instructions compilers choose.  The sums themselves are     *)
(* exact: rounding the floats changes none of the bytes.                   *)
(***************************************************************************)
EXTENDS PointFilters, SequencesExt

(* Mutation: the sum of the channels is divided by shifting it.            *)
Brightness_Shifted(c) == (c["r"] + c["g"] + c["b"]) \div 4

Brightness(c) == (c["r"] + c["g"] + c["b"]) \div 3

Byte(v) == v % 256

(* The points in the order of the loops over row and col.                  *)
Scan(img) ==
  LET w == Width(img)
  IN  [i \in 1..(w * Height(img)) |-> <<(i - 1) \div w, (i - 1) % w>>]

(* An entry of a matrix: where to, relative to the pixel, and n/d of the   *)
(* error.                                                                  *)
Entry(dx, dy, n, d) == [dx |-> dx, dy |-> dy, n |-> n, d |-> d]

(* __DITH_SET: outside the image nothing is read and nothing is written.   *)
AddError(img, p, e, qerr) ==
  LET q == <<p[1] + e.dy, p[2] + e.dx>>
  IN  IF q \in DOMAIN img
      THEN [img EXCEPT ![q] = Grey(Byte(CDiv(Brightness(@) * e.d + e.n * qerr, e.d)))]
      ELSE img

(* The nearer of black and white (__DITH_FNDCLOSEST).                      *)
Closest(brightness) == IF brightness < 128 THEN 0 ELSE 255

(* The loop over the entries of the matrix, at p.                          *)
Spread(img, matrix, p, qerr) ==
  LET after[i \in 0..Len(matrix)] ==
        IF i = 0 THEN img ELSE AddError(after[i - 1], p, matrix[i], qerr)
  IN  after[Len(matrix)]

(* The step of the loops at p: the pixel becomes black or white, which is  *)
(* noted in tmp, and its error is added to the pixels the matrix names.    *)
Dithered(s, matrix, p) ==
  LET Becomes(new) == [img |-> Spread([s.img EXCEPT ![p] = Grey(new)], matrix, p,
                                      Brightness(s.img[p]) - new),
                       tmp |-> [s.tmp EXCEPT ![p] = new]]
  IN  IF Brightness(s.img[p]) < 128 THEN Becomes(0) ELSE Becomes(255)

(* The loops over row and col, up to the n-th point.                       *)
DitheredTo(img, matrix, n) ==
  LET at[i \in 0..n] ==
        IF i = 0 THEN [img |-> img, tmp |-> [p \in DOMAIN img |-> 0]]
        ELSE Dithered(at[i - 1], matrix, Scan(img)[i])
  IN  at[n]

(* Mutation: the image is not painted from tmp.                            *)
Diffused_InPlace(img, matrix) == DitheredTo(img, matrix, Len(Scan(img))).img

Diffused(img, matrix) ==
  LET done == DitheredTo(img, matrix, Len(Scan(img))) IN [p \in DOMAIN img |-> Grey(done.tmp[p])]
-----------------------------------------------------------------------------
AtkinsonDith(img) ==
  Diffused(img, << Entry(1, 0, 1, 8), Entry(-1, 1, 1, 8), Entry(0, 1, 1, 8),
                   Entry(1, 1, 1, 8), Entry(2, 0, 1, 8), Entry(0, 2, 1, 8) >>)

StuckiDith(img) ==
  Diffused(img, << Entry(1, 0, 8, 42), Entry(2, 0, 4, 42),
                   Entry(-2, 1, 2, 42), Entry(-1, 1, 4, 42), Entry(0, 1, 8, 42),
                   Entry(1, 1, 4, 42), Entry(2, 1, 2, 42),
                   Entry(-2, 2, 1, 42), Entry(-1, 2, 2, 42), Entry(0, 2, 4, 42),
                   Entry(1, 2, 2, 42), Entry(2, 2, 1, 42) >>)

FloydSteinbergDith(img) ==
  Diffused(img, << Entry(1, 0, 7, 16), Entry(-1, 1, 3, 16),
                   Entry(0, 1, 5, 16), Entry(1, 1, 1, 16) >>)

GeneralDith(img, pts) == Diffused(img, pts)
-----------------------------------------------------------------------------
OrderedMatrix == << <<1, 9, 3, 11>>, <<13, 5, 15, 7>>, <<4, 12, 2, 10>>, <<16, 8, 14, 6>> >>

(* algo_ordered_dith: 255/5 of a 17th of the matrix element is 3 of it.    *)
Ordered(b, p) == Closest(Byte(b + 3 * OrderedMatrix[1 + (p[2] % 4)][1 + (p[1] % 4)]))
OrderedDith(img) == [p \in DOMAIN img |-> Grey(Ordered(Brightness(img[p]), p))]

(* algo_random_dith: random_range starts the generator from the seconds of *)
(* the clock at every call, so the offset changes only with them: at most  *)
(* once, after the pixel number turn, in an image done within a second.    *)
RandomDith(img, first, second, turn) ==
  LET place(p) == p[1] * Width(img) + p[2]
  IN  [p \in DOMAIN img |->
         Grey(Closest(Byte(Brightness(img[p]) + (IF place(p) < turn THEN first ELSE second))))]
=============================================================================
