------------------------------ MODULE Machine ------------------------------
(***************************************************************************)
(* The values of SIOD, the cells they live in, and what every primitive    *)
(* does when it returns or raises (src/siod/slib.c).                       *)
(*                                                                         *)
(* A machine m is a record: cell, the allocated cells (the collector is    *)
(* the module Storage, so here cells are only added); vcell, the values of *)
(* the symbols that the program has set; catch, the frames of *catch; out, *)
(* what was printed; v, the value last returned; esc, Running or the frame *)
(* a longjmp is on its way to (TopLevel is errjmp).  A C function is an    *)
(* operator from the machine and the arguments to the machine that it      *)
(* leaves.  Texts are sequences of byte codes, names are TLA+ strings.     *)
(***************************************************************************)
EXTENDS Integers, Sequences, FiniteSets
LOCAL SX == INSTANCE SequencesExt

CONSTANTS InumsDim,   \* inums_dim: numbers below it are shared
          StackLimit, \* how many calls of leval fit between the stack limits
          TkBufferN   \* TKBUFFERN: the size of the buffer of a token

-----------------------------------------------------------------------------
(* Byte codes *)

(* A back quote cannot stand in a TLA+ string: \f is written for it. *)
Printable == "\t\n !\"#$%&'()*+,-./0123456789:;<=>?@ABCDEFGHIJKLMNOPQRSTUVWXYZ[\\]^_\fabcdefghijklmnopqrstuvwxyz{|}~"
Codes == {9, 10} \union 32..126
Letter == [k \in Codes |-> LET j == IF k < 32 THEN k - 8 ELSE k - 29 IN SubSeq(Printable, j, j)]
CodeOf == [c \in {Letter[k] : k \in Codes} |-> CHOOSE k \in Codes : Letter[k] = c]
Chr(k) == IF k \in Codes THEN Letter[k] ELSE "?"
Bytes(name) == [j \in 1..Len(name) |-> CodeOf[SubSeq(name, j, j)]]
Name(bytes) == SX!FoldLeft(LAMBDA s, k : s \o Chr(k), "", bytes)

-----------------------------------------------------------------------------
(* Values *)

NIL == [t |-> "tc_nil"]
Sym(name) == [t |-> "tc_symbol", name |-> name]
SymT == Sym("t")
Ref(k) == [t |-> "ref", at |-> k]

(* NULLP is the comparison with NIL; Cell is what the macros TYPE, CAR and *)
(* CDR look at, the small numbers, symbols and primitives being their own. *)
Cell(m, x) == IF x.t = "ref" THEN m.cell[x.at] ELSE x
Type(m, x) == Cell(m, x).t
Consp(m, x) == Type(m, x) = "tc_cons"
Symbolp(x) == x.t = "tc_symbol"
Flonump(m, x) == Type(m, x) = "tc_flonum"
CAR(m, x) == Cell(m, x).car
CDR(m, x) == Cell(m, x).cdr
FLONM(m, x) == Cell(m, x).n
IsType(m, x, types) == Type(m, x) \in types

-----------------------------------------------------------------------------
(* Returning, failing and going on *)

Running == -1
TopLevel == 0

Ret(m, v) == [m EXCEPT !.v = v]
Bool(m, p) == Ret(m, IF p THEN SymT ELSE NIL)
Then(m, K(_)) == IF m.esc = Running THEN K(m) ELSE m

New(m, c) == [m EXCEPT !.cell = Append(@, c), !.v = Ref(Len(m.cell) + 1)]
Cons(m, x, y) == New(m, [t |-> "tc_cons", car |-> x, cdr |-> y])
Set(m, x, c) == [m EXCEPT !.cell[x.at] = c]
SetCAR(m, x, y) == [m EXCEPT !.cell[x.at].car = y, !.v = y]
SetCDR(m, x, y) == [m EXCEPT !.cell[x.at].cdr = y, !.v = y]

(* A tc_string has one byte more than its dim, for the final zero. *)
Strcons(m, bytes) == New(m, [t |-> "tc_string", data |-> Append(bytes, 0)])
Flocons(m, n) == IF 0 <= n /\ n < InumsDim THEN Ret(m, [t |-> "tc_flonum", n |-> n])
                 ELSE New(m, [t |-> "tc_flonum", n |-> n])

Closure(m, env, code) == New(m, [t |-> "tc_closure", env |-> env, code |-> code])

SetVcell(m, name, v) == [m EXCEPT !.vcell = [n \in DOMAIN @ \union {name} |-> IF n = name THEN v ELSE @[n]],
                                  !.v = v]

Escape(m, k, v) == [m EXCEPT !.esc = k, !.v = v]
Frames(m, tags) == {k \in DOMAIN m.catch : m.catch[k].tag \in tags}
Newest(frames) == CHOOSE k \in frames : \A j \in frames : j <= k

(* err: errobj is set, and the newest frame whose tag is errobj or all     *)
(* gets the list of the message and the object; else errjmp is taken.      *)
Longjmp(m, frames, new, v) ==
    IF frames = {} THEN [m EXCEPT !.esc = TopLevel, !.v = NIL]
    ELSE [m EXCEPT !.cell = @ \o new, !.esc = Newest(frames), !.v = v]
ErrTo(m, x, new, v) == Longjmp(SetVcell(m, "errobj", x), Frames(m, {Sym("errobj"), Sym("all")}), new, v)
ErrText(m, text, x) ==
    ErrTo(m, x, <<[t |-> "tc_string", data |-> Append(text, 0)], [t |-> "tc_cons", car |-> Ref(Len(m.cell) + 1), cdr |-> x]>>,
          Ref(Len(m.cell) + 2))
Err(m, message, x) == ErrText(m, Bytes(message), x)

(* quit is err without a message: errjmp gets 2, but a frame catches it.   *)
Quit(m) == LET e == Err(m, "quit", NIL) IN [e EXCEPT !.quit = (e.esc = TopLevel)]

(* A division of integers by zero is a signal, whose handler fails. *)
HandleSigfpe(m) == Err(m, "floating point exception", NIL)

(* What the model does not follow: a read outside an object, a number that *)
(* is not an integer.  The machine stops, and beyond says why.             *)
Beyond(m, why) == [m EXCEPT !.esc = TopLevel, !.v = NIL, !.beyond = @ \union {why}]

-----------------------------------------------------------------------------
(* Conses *)

Car(m, x) == IF x = NIL THEN Ret(m, NIL)
             ELSE IF Consp(m, x) THEN Ret(m, CAR(m, x)) ELSE Err(m, "wta to car", x)
Cdr(m, x) == IF x = NIL THEN Ret(m, NIL)
             ELSE IF Consp(m, x) THEN Ret(m, CDR(m, x)) ELSE Err(m, "wta to cdr", x)
Setcar(m, x, y) == IF Consp(m, x) THEN SetCAR(m, x, y) ELSE Err(m, "wta to setcar", x)
Setcdr(m, x, y) == IF Consp(m, x) THEN SetCDR(m, x, y) ELSE Err(m, "wta to setcdr", x)

nullp(m, x) == Bool(m, x = NIL)
consp(m, x) == Bool(m, Consp(m, x))
symbolp(m, x) == Bool(m, Symbolp(x))
numberp(m, x) == Bool(m, Flonump(m, x))

(* caar, cadr, ... cdddr: a path of a's and d's, the last applied first. *)
Cxr(m, x, path) ==
    SX!FoldRight(LAMBDA step, n : Then(n, LAMBDA k : IF step = "a" THEN Car(k, k.v) ELSE Cdr(k, k.v)),
              path, Ret(m, x))
A == <<"a">>
D == <<"d">>
AD == <<"a", "d">>
DD == <<"d", "d">>
ADD == <<"a", "d", "d">>
ADDD == <<"a", "d", "d", "d">>

(* The pairs of a list, and what follows the last of them. *)
RECURSIVE Pairs(_, _)
Pairs(m, l) == IF Consp(m, l) THEN <<l>> \o Pairs(m, CDR(m, l)) ELSE <<>>
CarOfEach(m, p) == [j \in DOMAIN p |-> CAR(m, p[j])]
Items(m, l) == CarOfEach(m, Pairs(m, l))
RECURSIVE After(_, _)
After(m, l) == IF Consp(m, l) THEN After(m, CDR(m, l)) ELSE l

(* A loop `for(l = list; NNULLP(l); l = cdr(l))' that reads car(l) fails   *)
(* on an improper tail, after its last element.                            *)
OverList(m, l, K(_, _)) ==
    IF After(m, l) = NIL THEN K(m, Items(m, l)) ELSE Err(m, "wta to car", After(m, l))

(* cons from the last element to the first: the list of the elements. *)
ListWith(m, elements, tail) == SX!FoldRight(LAMBDA e, n : Cons(n, e, n.v), elements, Ret(m, tail))
List(m, elements) == ListWith(m, elements, NIL)


-----------------------------------------------------------------------------
(* Numbers, integers only *)

Eq(x, y) == x = y
Eql(m, x, y) == x = y \/ (Flonump(m, x) /\ Flonump(m, y) /\ FLONM(m, x) = FLONM(m, y))

Numeric(m, x, y, who, K(_, _)) ==
    CASE ~Flonump(m, x) -> Err(m, "wta(1st) to " \o who, x)
      [] ~Flonump(m, y) -> Err(m, "wta(2nd) to " \o who, y)
      [] OTHER -> K(FLONM(m, x), FLONM(m, y))

Plus(m, x, y) ==
    IF y = NIL THEN (IF x = NIL THEN Flocons(m, 0) ELSE Ret(m, x))
    ELSE Numeric(m, x, y, "plus", LAMBDA a, b : Flocons(m, a + b))
Ltimes(m, x, y) ==
    IF y = NIL THEN (IF x = NIL THEN Flocons(m, 1) ELSE Ret(m, x))
    ELSE Numeric(m, x, y, "times", LAMBDA a, b : Flocons(m, a * b))
Difference(m, x, y) ==
    IF Flonump(m, x) /\ y = NIL THEN Flocons(m, -FLONM(m, x))
    ELSE Numeric(m, x, y, "difference", LAMBDA a, b : Flocons(m, a - b))
Lllabs(m, x) ==
    CASE ~Flonump(m, x) -> Err(m, "wta to abs", x)
      [] FLONM(m, x) < 0 -> Flocons(m, -FLONM(m, x))
      [] OTHER -> Ret(m, x)
Greaterp(m, x, y) == Numeric(m, x, y, "greaterp", LAMBDA a, b : Bool(m, a > b))
Lessp(m, x, y) == Numeric(m, x, y, "lessp", LAMBDA a, b : Bool(m, a < b))
GreaterEp(m, x, y) == Numeric(m, x, y, "greaterp", LAMBDA a, b : Bool(m, a >= b))
LessEp(m, x, y) == Numeric(m, x, y, "lessp", LAMBDA a, b : Bool(m, a <= b))
Lmax(m, x, y) == IF y = NIL THEN Ret(m, x)
                 ELSE Numeric(m, x, y, "max", LAMBDA a, b : Ret(m, IF a > b THEN x ELSE y))
Lmin(m, x, y) == IF y = NIL THEN Ret(m, x)
                 ELSE Numeric(m, x, y, "min", LAMBDA a, b : Ret(m, IF a < b THEN x ELSE y))

(* What of the real functions is an integer; nothing else is followed. *)
Exactly(m, numbers) == IF numbers = {} THEN Beyond(m, "not an integer") ELSE Flocons(m, CHOOSE n \in numbers : TRUE)
Sign(n) == IF n < 0 THEN -1 ELSE 1
Over(a, b) == IF b = 0 \/ (Sign(b) * a) % (Sign(b) * b) # 0 THEN {} ELSE {(Sign(b) * a) \div (Sign(b) * b)}
Quotient(m, x, y) ==
    IF Flonump(m, x) /\ y = NIL THEN Exactly(m, Over(1, FLONM(m, x)))
    ELSE Numeric(m, x, y, "quotient", LAMBDA a, b : Exactly(m, Over(a, b)))
Lsqrt(m, x) == IF Flonump(m, x) THEN Exactly(m, {n \in 0..FLONM(m, x) : n * n = FLONM(m, x)}) ELSE Err(m, "wta to sqrt", x)
(* The remainder has the sign of the dividend. *)
Lfmod(m, x, y) ==
    Numeric(m, x, y, "fmod", LAMBDA a, b :
        Exactly(m, IF b = 0 THEN {} ELSE {Sign(a) * ((Sign(a) * a) % (Sign(b) * b))}))
Lpow(m, x, y) ==
    Numeric(m, x, y, "pow", LAMBDA a, b :
        Exactly(m, CASE b >= 0 -> {a ^ b} [] a * a = 1 -> {a ^ (b % 2)} [] OTHER -> {}))
IntegerAt == [exp |-> <<0, 1>>, log |-> <<1, 0>>, sin |-> <<0, 0>>, cos |-> <<0, 1>>, tan |-> <<0, 0>>,
              asin |-> <<0, 0>>, acos |-> <<1, 0>>, atan |-> <<0, 0>>]

(* get_c_long *)
Long(m, x, K(_)) == IF Flonump(m, x) THEN K(FLONM(m, x)) ELSE Err(m, "not a number", x)
Elementary(m, name, x) ==
    Long(m, x, LAMBDA n : Exactly(m, IF n = IntegerAt[name][1] THEN {IntegerAt[name][2]} ELSE {}))
=============================================================================
