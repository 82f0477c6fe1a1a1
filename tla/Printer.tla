------------------------------ MODULE Printer ------------------------------
(***************************************************************************)
(* The printer: lprin1g of src/siod/slib.c, array_prin1, print-to-string   *)
(* and writes of src/siod/sliba.c, ct_prin1 of src/siod/trace.c.           *)
(***************************************************************************)
EXTENDS Strings
LOCAL SX == INSTANCE SequencesExt

(* A backslash printed as it is. *)
Escaped_NoBackslash(b) ==
    CASE b = 34 -> <<92, b>>
      [] b = 10 -> Bytes("\\n")
      [] b = 13 -> Bytes("\\r")
      [] b = 9 -> Bytes("\\t")
      [] OTHER -> <<b>>
Escaped(b) ==
    CASE b \in {34, 92} -> <<92, b>>   \* a double quote, a backslash
      [] b = 10 -> Bytes("\\n")
      [] b = 13 -> Bytes("\\r")
      [] b = 9 -> Bytes("\\t")
      [] OTHER -> <<b>>
Each1(s, F(_)) == SX!FlattenSeq([j \in DOMAIN s |-> F(s[j])])
Spaced(texts) == SX!FlattenSeq([j \in DOMAIN texts |-> (IF j = 1 THEN <<>> ELSE <<32>>) \o texts[j]])
InParens(texts) == Bytes("#(") \o Spaced(texts) \o Bytes(")")
Hex(b) == <<LowerHex(b \div 16), LowerHex(b % 16)>>
ByteArrayText(d) == Bytes("#") \o Decimal(Len(d)) \o Bytes("\"") \o Each1(d, Hex) \o Bytes("\"")

(* array_prin1 of the arrays of bytes and numbers.  The case of a long     *)
(* array has no break: its first dim bytes follow, as those of an array of *)
(* bytes.                                                                  *)
LongArrayText(d) ==
    InParens([j \in DOMAIN d |-> Decimal(d[j])])
    \o ByteArrayText(SubSeq(Each1(d, LongBytes), 1, Len(d)))
ArrayText(m, x) ==
    LET d == Data(m, x) IN
    CASE Type(m, x) = "tc_string" -> <<34>> \o Each1(Until0(d), Escaped) \o <<34>>
      [] Type(m, x) = "tc_double_array" -> InParens([j \in DOMAIN d |-> FormatG(d[j])])
      [] Type(m, x) = "tc_long_array" -> LongArrayText(d)
      [] OTHER -> ByteArrayText(d)

SubrTypes == HashedByName \union {"tc_subr_2n"}

RECURSIVE Printed(_, _)
PrintedAll(m, s) == [j \in DOMAIN s |-> Printed(m, s[j])]
CodeText(m, code) == IF Consp(m, code) THEN Spaced(PrintedAll(m, <<CAR(m, code), CDR(m, code)>>)) ELSE Printed(m, code)
CtPrin1(m, c) == Bytes("#<CLOSURE(TRACED) ") \o CodeText(m, c.code) \o Bytes(">")
Printed(m, x) ==
    CASE x = NIL -> Bytes("()")
      [] Consp(m, x) ->
             Bytes("(") \o Spaced(PrintedAll(m, Items(m, x)))
             \o (IF After(m, x) = NIL THEN <<>> ELSE Bytes(" . ") \o Printed(m, After(m, x))) \o Bytes(")")
      [] Flonump(m, x) -> Decimal(FLONM(m, x))
      [] Symbolp(x) -> Bytes(x.name)
      [] IsType(m, x, SubrTypes) -> Bytes("#<") \o SubSeq(Bytes(Type(m, x)), 4, Len(Type(m, x))) \o <<32>>
                                    \o Bytes(x.name) \o Bytes(">")
      [] Type(m, x) = "tc_closure" -> Bytes("#<CLOSURE ") \o CodeText(m, Cell(m, x).code) \o Bytes(">")
      [] Type(m, x) = "tc_closure_traced" -> CtPrin1(m, Cell(m, x))
      [] Type(m, x) = "tc_lisp_array" -> InParens(PrintedAll(m, Data(m, x)))
      [] IsType(m, x, Arrays) -> ArrayText(m, x)
      [] OTHER -> Bytes("#<FILE>")

Put(m, text) == [m EXCEPT !.out = @ \o text, !.v = NIL]

RECURSIVE WritesText(_, _)
WritesText(m, x) ==
    Each1(Items(m, x), LAMBDA e : WritesText(m, e))
    \o (LET rest == After(m, x) IN
        CASE rest = NIL -> <<>>
          [] HasText(m, rest) -> TextOf(m, rest)
          [] OTHER -> Printed(m, rest))

(* What fits is stored, and then it fails.  (An object is not printed into *)
(* a string that is part of it.)                                           *)
PtsPuts(m, into, from) ==
    LET old == Until0(Data(m, into))
        room == Dim(m, into) - Len(old)
        stored == Store(m, into, Len(old) + 1, SubSeq(from, 1, IF Len(from) < room THEN Len(from) ELSE room))
    IN  IF Len(from) > room THEN Then(stored, LAMBDA k : Err(k, "print to string overflow", NIL)) ELSE stored
PrintToString(m, x, str, nostart) ==
    IF Type(m, str) # "tc_string" THEN Err(m, "not a string", str)
    ELSE Then(IF nostart = NIL THEN Store(m, str, 1, <<>>) ELSE m, LAMBDA k :
         Then(PtsPuts(k, str, Printed(k, x)), LAMBDA r : Ret(r, str)))
=============================================================================
