------------------------------- MODULE Reader -------------------------------
(***************************************************************************)
(* The reader (lreadr and what it calls in src/siod/slib.c, lreadstring    *)
(* and lreadsharp of src/siod/sliba.c) on a text s: a string, or what a    *)
(* file has (m.file).  m.pos is the place of the next byte.  The forms   *)
(* are with the evaluator, which #. calls while it reads.                  *)
(***************************************************************************)
EXTENDS Printer

EOF == -1
At(s, p) == IF p <= Len(s) THEN s[p] ELSE EOF
IsSpace(b) == b \in {9, 10, 11, 12, 13, 32}
Semicolon == 59
Terminators == {40, 41, 39, 96, 44, 59, 34}   \* ()'`,;"

(* flush_ws: where the next byte is that is neither blank nor commented. *)
RECURSIVE FlushWs(_, _, _)
FlushWs(s, p, commentp) ==
    LET c == At(s, p) IN
    CASE c = EOF -> p
      [] commentp -> FlushWs(s, p + 1, c # 10)
      [] c = Semicolon -> FlushWs(s, p + 1, TRUE)
      [] IsSpace(c) -> FlushWs(s, p + 1, FALSE)
      [] OTHER -> p

-----------------------------------------------------------------------------
(* Tokens *)

(* A sign, digits, a point and digits, an exponent: a digit in one of the  *)
(* first two, and nothing after.                                           *)
PastSign(t, p, signs) == IF At(t, p) \in signs THEN p + 1 ELSE p
PastDigits(t, p) == p + Spn(SubSeq(t, p, Len(t)), IsDigit)
DigitsToEnd(t, p) == PastDigits(t, p) > p /\ PastDigits(t, p) > Len(t)
EndOfNumber(t, p) == IF At(t, p) = 101 THEN DigitsToEnd(t, PastSign(t, p + 1, {43, 45})) ELSE p > Len(t)
Fractional(t, point, p, adigit) == (adigit \/ p > point + 1) /\ EndOfNumber(t, p)
AfterWhole(t, start, p) == IF At(t, p) = 46 THEN Fractional(t, p, PastDigits(t, p + 1), p > start)
                           ELSE p > start /\ EndOfNumber(t, p)
PlainNumber(t, start) == AfterWhole(t, start, PastDigits(t, start))
NumberLike(t) == PlainNumber(t, PastSign(t, 1, {45}))
Lreadtk(m, t) == IF NumberLike(t) THEN FromAtof(m, t) ELSE Ret(m, Sym(Name(t)))

EndsToken(s, p) == At(s, p) = EOF \/ IsSpace(At(s, p)) \/ At(s, p) \in Terminators
RECURSIVE TokenEnd(_, _)
TokenEnd(s, p) == IF EndsToken(s, p) THEN p ELSE TokenEnd(s, p + 1)
TokenBetween(m, s, p, e) ==
    IF e - p >= TkBufferN THEN Err([m EXCEPT !.pos = p + TkBufferN], "token larger than TKBUFFERN", NIL)
    ELSE Lreadtk([m EXCEPT !.pos = IF IsSpace(At(s, e)) THEN e + 1 ELSE e], SubSeq(s, p, e - 1))
ReadToken(m, s, p) == TokenBetween(m, s, p, TokenEnd(s, p + 1))

(* lreadstring.  A text that ends before the closing quote is accepted. *)
EscapeCode(c) ==
    CASE c = 110 -> 10     \* n
      [] c = 116 -> 9      \* t
      [] c = 114 -> 13     \* r
      [] c = 100 -> 4      \* d
      [] c = 78 -> 0       \* N
      [] c = 115 -> 32     \* s
      [] OTHER -> c
RECURSIVE Lreadstring(_, _, _, _)
Lreadstring(m, s, p, read) ==
    LET c == At(s, p)
        c2 == At(s, p + 1)
        octal == Spn(SubSeq(s, p + 2, Len(s)), IsDigit)
        value == Value(SubSeq(s, p + 2, p + 1 + octal), 8) % 256
        Next(q, b) == IF Len(read) + 1 >= TkBufferN THEN Err([m EXCEPT !.pos = q], "read string overflow", NIL)
                      ELSE Lreadstring(m, s, q, Append(read, b))
    IN  CASE c = EOF -> Strcons([m EXCEPT !.pos = p], read)
          [] c = 34 -> Strcons([m EXCEPT !.pos = p + 1], read)
          [] c # 92 -> Next(p + 1, c)
          [] c2 = EOF -> Err([m EXCEPT !.pos = p + 1], "eof after \\", NIL)
          [] c2 # 48 -> Next(p + 2, EscapeCode(c2))
          [] At(s, p + 2 + octal) = EOF -> Err([m EXCEPT !.pos = p + 2 + octal], "eof after \\0", NIL)
          [] OTHER -> Next(p + 2 + octal, value)

EofVal == Ref(1)
=============================================================================
