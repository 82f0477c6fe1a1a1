-------------------------------- MODULE Imsh --------------------------------
(***************************************************************************)
(* The img_* functions of imsh.c as a script calls them: a wrapper checks  *)
(* and converts its Lisp arguments, copies a list into memory from malloc, *)
(* runs the filter on the bitmap of the image object and returns t or NIL. *)
(* A call is one step: nothing else runs during it.  What it may be        *)
(* interrupted by is err, which does not return, so memory from malloc     *)
(* stays behind; an assert, a division by zero or an access outside the    *)
(* image ends the program.                                                 *)
(***************************************************************************)
EXTENDS Dithering

CONSTANTS Handles,     \* Lisp objects that are images
          NotImg,      \* a Lisp object that is not
          NotNum,      \* a Lisp object that is not a number
          NotList,     \* a Lisp object that is not a list
          Bitmaps,     \* the images a script may open
          Numbers,     \* numbers a script passes: thresholds, channels, algorithms
          Levels,      \* numbers of levels it passes
          Scales,      \* divisors and shifts it passes
          Sides,       \* sides of squares and windows it passes
          Lists,       \* lists of numbers a script passes as a matrix
          DithLists,   \* lists of fractions it passes as a dithering matrix
          MaxCalls     \* bound: number of calls

ASSUME ImshAssumption ==
  /\ NotImg \notin Handles /\ NotList \notin Lists /\ NotList \notin DithLists
  /\ NotNum \notin Int
  /\ Numbers \cup Levels \cup Sides \subseteq Int
  /\ \A img \in Bitmaps : IsImage(img)
  /\ Scales \subseteq (Int \cup {NotNum}) \X (Int \cup {NotNum})
  /\ Lists \subseteq Seq(Int \cup {NotNum})
  /\ DithLists \subseteq Seq((Int \X (Nat \ {0})) \cup {NotNum})
  /\ MaxCalls \in Nat

VARIABLES
  bitmap,   \* the bitmap of each image object
  blocks,   \* blocks from malloc not given back
  call,     \* the function called last, the image objects and other arguments it got
  result,   \* "t", "nil", "err", or "abort", "sigfpe", "undefined"
  calls     \* number of calls made

vars == <<bitmap, blocks, call, result, calls>>

Ended == {"abort", "sigfpe", "undefined"}
Object == Handles \cup {NotImg}
Number == Numbers \cup {NotNum}

Init ==
  /\ bitmap \in [Handles -> Bitmaps]
  /\ blocks = 0
  /\ call = [fn |-> "none", on |-> <<>>, args |-> <<>>]
  /\ result = "nil"
  /\ calls = 0
-----------------------------------------------------------------------------
(* The ways a call ends.                                                   *)
Returns(x, img) ==
  /\ bitmap' = [bitmap EXCEPT ![x] = img]
  /\ result' = "t"
  /\ UNCHANGED blocks
ReturnsNil == result' = "nil" /\ UNCHANGED <<bitmap, blocks>>
Ends(how) == result' = how /\ UNCHANGED <<bitmap, blocks>>

(* err with a number of blocks allocated by the call and not freed.        *)
Raises(leaked) == /\ blocks' = blocks + leaked
                  /\ result' = "err"
                  /\ UNCHANGED bitmap

Calls(fn, on, args) == /\ calls < MaxCalls /\ result \notin Ended
                       /\ call' = [fn |-> fn, on |-> on, args |-> args]
                       /\ calls' = calls + 1

(* A filter that allocates nothing, with arguments that are checked before *)
(* the image is touched.  stop is how it ends instead of filtering.        *)
Plain(fn, x, args, stop, img) ==
  /\ Calls(fn, <<x>>, args)
  /\ IF x = NotImg \/ NotNum \in Range(args) THEN Raises(0)
     ELSE IF stop # "no" THEN Ends(stop)
     ELSE Returns(x, img)

ImgBw(x, t) == Plain("img_bw", x, <<t>>, "no", Bw(bitmap[x], t))
ImgGr(x) == Plain("img_gr", x, <<>>, "no", Gr(bitmap[x]))
ImgNeg(x) == Plain("img_neg", x, <<>>, "no", Neg(bitmap[x]))
ImgCh(x, n) == Plain("img_ch", x, <<n>>, "no", Ch(bitmap[x], n))
ImgGrl(x, n) ==
  Plain("img_grl", x, <<n>>,
        IF n < 2 THEN "abort" ELSE IF Band(n) = 0 THEN "sigfpe" ELSE "no", Grl(bitmap[x], n))
ImgPix(x, side, color) ==
  Plain("img_pix", x, <<side, color>>, IF side <= 0 THEN "abort" ELSE "no",
        Pix(bitmap[x], side, color))
ImgBinNot(x) == Plain("img_binnot", x, <<>>, "no", BinNot(bitmap[x]))

(* _GENERAL_BINOP; x and y may be the same object.                         *)
ImgBinOp(fn, op, x, y) ==
  /\ Calls(fn, <<x, y>>, <<>>)
  /\ IF NotImg \in {x, y} THEN Raises(0)
     ELSE Returns(x, BinOp2(op, bitmap[x], bitmap[y]))
ImgBinAnd(x, y) == ImgBinOp("img_binand", "and", x, y)
ImgBinOr(x, y) == ImgBinOp("img_binor", "or", x, y)
ImgBinXor(x, y) == ImgBinOp("img_binxor", "xor", x, y)
ImgBinSub(x, y) == ImgBinOp("img_binsub", "sub", x, y)
-----------------------------------------------------------------------------
(* The area filters.  The bounds of their loops wrap when the image is     *)
(* smaller than the margin; if both loops then run, they leave the image.  *)
(* A malloc that fails makes algo_med return 1 and the other three free    *)
(* what was never allocated.                                               *)
Wraps(n, side) == n < side \div 2
Runs(n, side) == Wraps(n, side) \/ n > 2 * (side \div 2)
Leaves(img, side) ==
  /\ Runs(Height(img), side) /\ Runs(Width(img), side)
  /\ Wraps(Height(img), side) \/ Wraps(Width(img), side)
AreaStop(img, side) ==
  IF side <= 2 \/ side % 2 = 0 THEN "abort" ELSE IF Leaves(img, side) THEN "undefined" ELSE "no"

AreaFiltered(img, side, Kernel(_)) ==
  LET m == side \div 2
      central == {p \in DOMAIN img : /\ m <= p[1] /\ p[1] + m < Height(img)
                                     /\ m <= p[2] /\ p[2] + m < Width(img)}
  IN  [p \in DOMAIN img |->
         IF p \in central
         THEN Kernel([o \in Cells(side) |-> img[<<p[1] - m + o[1], p[2] - m + o[2]>>]])
         ELSE img[p]]

PerChannel(w, Kernel(_)) == [k \in Channels |-> Kernel([o \in DOMAIN w |-> w[o][k]])]

Med(img, side) ==
  AreaFiltered(img, side, LAMBDA w : PerChannel(w, LAMBDA s : MedianKernel(s, side)))

ImgMed(x, side) ==
  \/ Plain("img_med", x, <<side>>, AreaStop(bitmap[x], side), Med(bitmap[x], side))
  \/ /\ Calls("img_med", <<x>>, <<side>>)
     /\ x # NotImg /\ side # NotNum
     /\ side > 2 /\ side % 2 = 1
     /\ ReturnsNil

(* The matrix as the filters index it; side is a double cut to an int.     *)
Side(list) == Isqrt(Len(list))
Matrix(list) == [o \in Cells(Side(list)) |-> list[o[1] * Side(list) + o[2] + 1]]

(* Mutation: the image is filtered before the numbers are checked.         *)
WithMatrix_Eager(fn, x, list, args, stop, img) ==
  /\ Calls(fn, <<x>>, <<list>> \o args)
  /\ list # NotList /\ x # NotImg /\ NotNum \notin Range(list)
  /\ IF stop # "no" THEN Ends(stop)
     ELSE /\ bitmap' = [bitmap EXCEPT ![x] = IF NotNum \in Range(args) THEN Neg(@) ELSE img]
          /\ result' = IF NotNum \in Range(args) THEN "err" ELSE "t"
          /\ UNCHANGED blocks

(* A filter that takes a matrix: the list is copied first, then the image  *)
(* and the numbers are checked, all with the copy allocated.               *)
WithMatrix(fn, x, list, args, stop, img) ==
  /\ Calls(fn, <<x>>, <<list>> \o args)
  /\ IF list = NotList THEN Raises(0)
     ELSE \/ Raises(0)                            \* malloc fails
          \/ /\ NotNum \in Range(list) \cup Range(args) \/ x = NotImg
             /\ Raises(1)
          \/ /\ NotNum \notin Range(list) \cup Range(args) /\ x # NotImg
             /\ \/ IF stop # "no" THEN Ends(stop) ELSE Returns(x, img)
                \/ stop # "abort" /\ Ends("undefined")   \* malloc in the filter fails

Conv(img, list, div, shift) ==
  AreaFiltered(img, Side(list),
    LAMBDA w : PerChannel(w, LAMBDA s : ConvKernel(s, Matrix(list), Side(list), div, shift)))
ImgConv(x, list, div, shift) ==
  WithMatrix("img_conv", x, list, <<div, shift>>,
             IF div = 0 THEN "abort" ELSE AreaStop(bitmap[x], Side(list)),
             Conv(bitmap[x], list, div, shift))

BinDilate(img, list) ==
  AreaFiltered(img, Side(list), LAMBDA w : DilateKernel(w, Matrix(list), Side(list)))
ImgBinDilate(x, list) ==
  WithMatrix("img_bindilate", x, list, <<>>, AreaStop(bitmap[x], Side(list)),
             BinDilate(bitmap[x], list))

BinErode(img, list) ==
  AreaFiltered(img, Side(list), LAMBDA w : ErodeKernel(w, Matrix(list), Side(list)))
ImgBinErode(x, list) ==
  WithMatrix("img_binerode", x, list, <<>>, AreaStop(bitmap[x], Side(list)),
             BinErode(bitmap[x], list))
-----------------------------------------------------------------------------
(* img_gendith divides the length by three before it reads the list, and   *)
(* again when it passes the points on: only a third of the list is read.   *)
GenPoints(list) ==
  LET matrix_len == Len(list) \div 3
      int(v) == CDiv(v[1], v[2])
  IN  [i \in 1..(matrix_len \div 3) |->
         Entry(int(list[3 * i - 2]), int(list[3 * i - 1]), list[3 * i][1], list[3 * i][2])]
GenRead(list) == {list[i] : i \in 1..(Len(list) \div 3)}

(* Mutation: the copy is not freed after the filter.                       *)
ImgGenDith_Leaks(x, list) ==
  /\ Calls("img_gendith", <<x>>, <<list>>)
  /\ x # NotImg /\ list # NotList /\ NotNum \notin GenRead(list)
  /\ bitmap' = [bitmap EXCEPT ![x] = GeneralDith(@, GenPoints(list))]
  /\ result' = "t" /\ blocks' = blocks + 1

ImgGenDith(x, list) ==
  /\ Calls("img_gendith", <<x>>, <<list>>)
  /\ IF list = NotList THEN Raises(0)
     ELSE \/ Raises(0)
          \/ /\ NotNum \in GenRead(list) \/ x = NotImg
             /\ Raises(1)
          \/ /\ NotNum \notin GenRead(list) /\ x # NotImg
             /\ ReturnsNil \/ Returns(x, GeneralDith(bitmap[x], GenPoints(list)))

(* img_dith: the algorithm by its number.  The three that diffuse errors   *)
(* need tmp from malloc.                                                   *)
ImgDith(x, alg) ==
  /\ Calls("img_dith", <<x>>, <<alg>>)
  /\ IF x = NotImg \/ alg = NotNum THEN Raises(0)
     ELSE \/ alg \notin {0, 1, 2, 3, 4} /\ ReturnsNil
          \/ alg \in {0, 1, 4} /\ ReturnsNil
          \/ alg = 0 /\ Returns(x, AtkinsonDith(bitmap[x]))
          \/ alg = 1 /\ Returns(x, FloydSteinbergDith(bitmap[x]))
          \/ alg = 2 /\ Returns(x, OrderedDith(bitmap[x]))
          \/ /\ alg = 3
             /\ \E r, s \in {-64, 64}, turn \in {0, 1} :
                  Returns(x, RandomDith(bitmap[x], r, s, turn))
          \/ alg = 4 /\ Returns(x, StuckiDith(bitmap[x]))
-----------------------------------------------------------------------------
Next ==
  \E x \in Object :
    \/ ImgGr(x) \/ ImgNeg(x) \/ ImgBinNot(x)
    \/ \E n \in Number : ImgBw(x, n) \/ ImgCh(x, n) \/ ImgDith(x, n)
    \/ \E n \in Levels \cup {NotNum} : ImgGrl(x, n)
    \/ \E side \in Sides \cup {NotNum} :
         ImgMed(x, side) \/ \E color \in {0, 1, NotNum} : ImgPix(x, side, color)
    \/ \E y \in Object : ImgBinAnd(x, y) \/ ImgBinOr(x, y) \/ ImgBinXor(x, y) \/ ImgBinSub(x, y)
    \/ \E list \in Lists \cup {NotList} :
         \/ ImgBinDilate(x, list) \/ ImgBinErode(x, list)
         \/ \E scale \in Scales : ImgConv(x, list, scale[1], scale[2])
    \/ \E list \in DithLists \cup {NotList} : ImgGenDith(x, list)

Spec == Init /\ [][Next]_vars
-----------------------------------------------------------------------------
(* A bitmap keeps its size, and its colours are bytes.                     *)
TypeOK ==
  /\ DOMAIN bitmap = Handles
  /\ \A h \in Handles : \E img \in Bitmaps : bitmap[h] \in [DOMAIN img -> Colour]
  /\ blocks \in 0..MaxCalls
  /\ result \in {"t", "nil", "err"} \cup Ended

(* A call that does not return t has changed no image, and a call that     *)
(* does has changed none but its first operand: an argument of the wrong   *)
(* type, found late by get_c_long or LISP2IMG, finds the images untouched. *)
OnlyTheFirstOperand ==
  \A h \in Handles : bitmap'[h] # bitmap[h] => result' = "t" /\ h = call'.on[1]

(* A copy of a matrix outlives the call only if err was called with it     *)
(* allocated: every return of img_conv, img_bindilate, img_binerode and    *)
(* img_gendith passes free(_matrix), and the filters free tmp.             *)
LeakOnlyByErr == blocks' # blocks => result' = "err" /\ blocks' = blocks + 1

(* A call that fails, wherever it does, leaves every image as it was, and  *)
(* no call leaves a block behind but through err.                          *)
CleanFailure == [][OnlyTheFirstOperand /\ LeakOnlyByErr]_vars
-----------------------------------------------------------------------------
Set(img) == {p \in DOMAIN img : Bit(img[p])}

(* The binary operations are the operations on the sets of pixels, over    *)
(* the points both images have (imsh.c:607, 644-649), also when an image   *)
(* is combined with itself.                                                *)
SetAlgebra ==
  result' = "t" /\ call'.fn \in {"img_binand", "img_binor", "img_binxor", "img_binsub"} =>
    LET x == call'.on[1]
        A == Set(bitmap[x])
        B == Set(bitmap[call'.on[2]])
        common == DOMAIN bitmap[x] \cap DOMAIN bitmap[call'.on[2]]
    IN  Set(bitmap'[x]) \cap common = common \cap
          (CASE call'.fn = "img_binand" -> A \cap B
             [] call'.fn = "img_binor"  -> A \cup B
             [] call'.fn = "img_binxor" -> (A \cup B) \ (A \cap B)
             [] call'.fn = "img_binsub" -> A \ B)

(* algo_pix gives every square one colour, between the darkest and the     *)
(* lightest of its pixels in each channel: what it sums for the points     *)
(* outside the image is a colour of the same square.                       *)
PixWithinSquare ==
  result' = "t" /\ call'.fn = "img_pix" =>
    LET img == bitmap[call'.on[1]]
        new == bitmap'[call'.on[1]]
        side == call'.args[1]
        Same(p) == {q \in DOMAIN img : Square(q, side) = Square(p, side)}
    IN  \A p \in DOMAIN img :
          /\ \A q \in Same(p) : new[q] = new[p]
          /\ call'.args[2] # 0 =>
               \A k \in Channels :
                 /\ \E q \in Same(p) : img[q][k] <= new[p][k]
                 /\ \E q \in Same(p) : img[q][k] >= new[p][k]

(* algo_grl makes grey levels only, keeps the order of lengths and makes   *)
(* nothing lighter than algo_gr does.                                      *)
GreyLevels ==
  result' = "t" /\ call'.fn = "img_grl" =>
    LET img == bitmap[call'.on[1]]
        new == bitmap'[call'.on[1]]
    IN  \A p, q \in DOMAIN img :
          /\ new[p]["r"] <= Gr(img)[p]["r"]
          /\ Length2(img[p]) <= Length2(img[q]) => new[p]["r"] <= new[q]["r"]

(* algo_med removes impulses (test09.scm.desc): where all samples of a     *)
(* window but the middle one are the same, the middle one becomes like     *)
(* them, though the element that algo_med picks is the one after it.       *)
ImpulseRemoved ==
  result' = "t" /\ call'.fn = "img_med" =>
    LET img == bitmap[call'.on[1]]
        new == bitmap'[call'.on[1]]
        m == call'.args[1] \div 2
        Around(p) == {<<p[1] + o[1], p[2] + o[2]>> : o \in (-m..m) \X (-m..m)} \ {p}
    IN  \A p \in DOMAIN img, k \in Channels :
          LET samples == {img[q][k] : q \in Around(p)}
          IN  Around(p) \subseteq DOMAIN img /\ Cardinality(samples) = 1 => new[p][k] \in samples

(* The filters do what their names promise, at the edge of an image, with  *)
(* images of different sizes and with an image combined with itself.       *)
FiltersAsPromised == [][SetAlgebra /\ PixWithinSquare /\ GreyLevels /\ ImpulseRemoved]_vars
-----------------------------------------------------------------------------
Diffusers == {"atkinson", "floyd", "stucki", "general"}
Dither(img, alg) ==
  CASE alg = "atkinson" -> AtkinsonDith(img)
    [] alg = "floyd"    -> FloydSteinbergDith(img)
    [] alg = "stucki"   -> StuckiDith(img)
    [] alg = "general"  -> GeneralDith(img, <<Entry(1, 0, 1, 2), Entry(-1, 0, 1, 2)>>)

(* An image that was dithered is left alone by every filter that diffuses  *)
(* errors: it is black and white, so there is no error to diffuse.         *)
DitherStable ==
  result = "t" /\ call.fn \in {"img_dith", "img_gendith"} =>
    \A alg \in Diffusers : Dither(bitmap[call.on[1]], alg) = bitmap[call.on[1]]

(* A pixel does not depend on the pixels after it, even if the matrix of   *)
(* img_gendith names pixels already done (stated for the images opened).   *)
DitherCausal ==
  calls = 0 =>
    \A h \in Handles, alg \in Diffusers :
      LET img == bitmap[h]
          scan == Scan(img)
          new == Dither(img, alg)
      IN  \A i \in DOMAIN scan :
            LET other == Dither([img EXCEPT ![scan[i]] = Negative(@)], alg)
            IN  \A j \in 1..(i - 1) : other[scan[j]] = new[scan[j]]

(* The error diffused in bytes neither goes back in the scan nor is left   *)
(* over in an image that is done.                                          *)
DitherSound == DitherStable /\ DitherCausal

(* The general filter with floyd-dith-matrix of imsh.scm does what the     *)
(* special one does: test15.scm.desc calls them two implementations.       *)
FloydMatrix ==
  << <<1, 1>>, <<0, 1>>, <<7, 16>>, <<-1, 1>>, <<1, 1>>, <<3, 16>>,
     <<0, 1>>, <<1, 1>>, <<5, 16>>, <<1, 1>>, <<1, 1>>, <<1, 16>> >>
GeneralIsFloyd ==
  \A h \in Handles : GeneralDith(bitmap[h], GenPoints(FloydMatrix)) = FloydSteinbergDith(bitmap[h])
=============================================================================
