------------------------------ MODULE Strings ------------------------------
(***************************************************************************)
(* The primitives of SIOD on strings and byte arrays (src/siod/sliba.c).   *)
(* A string of dim n has n+1 bytes; as a C string it ends at its first     *)
(* zero.                                                                   *)
(***************************************************************************)
EXTENDS Lists, Codecs
LOCAL SX == INSTANCE SequencesExt
LOCAL FS == INSTANCE FiniteSetsExt

-----------------------------------------------------------------------------
(* get_c_string, get_c_string_dim *)

Zeros(bytes) == {j \in DOMAIN bytes : bytes[j] = 0}
Until0(bytes) == IF Zeros(bytes) = {} THEN bytes ELSE SubSeq(bytes, 1, FS!Min(Zeros(bytes)) - 1)

HasText(m, x) == IsType(m, x, {"tc_symbol", "tc_string"})
TextOf(m, x) == IF Symbolp(x) THEN Bytes(x.name) ELSE Until0(Data(m, x))
Str(m, x, K(_)) == IF HasText(m, x) THEN K(TextOf(m, x)) ELSE Err(m, "not a symbol or string", x)

SizeofLong == 4
LongBytes(n) == [j \in 1..SizeofLong |-> (n \div (256 ^ (j - 1))) % 256]

HasBytes(m, x) == HasText(m, x) \/ IsType(m, x, {"tc_byte_array", "tc_long_array"})
BytesOf(m, x) ==
    CASE Symbolp(x) -> Bytes(x.name)
      [] Type(m, x) = "tc_long_array" -> SX!FlattenSeq([j \in 1..Dim(m, x) |-> LongBytes(Data(m, x)[j])])
      [] OTHER -> SubSeq(Data(m, x), 1, Dim(m, x))
StrDim(m, x, K(_)) == IF HasBytes(m, x) THEN K(BytesOf(m, x)) ELSE Err(m, "not a symbol or string", x)

ChkString(m, x, K(_)) == IF Type(m, x) = "tc_string" THEN K(Data(m, x)) ELSE Err(m, "not a string", x)

(* The texts of a list in one, or the error of the first element without. *)
Texts(m, items, Has(_, _), Of(_, _), K(_)) ==
    LET bad == {j \in DOMAIN items : ~Has(m, items[j])}
    IN  IF bad # {} THEN Err(m, "not a symbol or string", items[FS!Min(bad)])
        ELSE K(SX!FlattenSeq([j \in DOMAIN items |-> Of(m, items[j])]))

StringAppend(m, args) ==
    OverList(m, args, LAMBDA k, items : Texts(k, items, HasText, TextOf, LAMBDA s : Strcons(k, s)))
BytesAppend(m, args) ==
    OverList(m, args, LAMBDA k, items :
        Texts(k, items, HasBytes, BytesOf, LAMBDA s : New(k, [t |-> "tc_byte_array", data |-> s])))
stringp(m, x) == Bool(m, Type(m, x) = "tc_string")
StringLength(m, x) == ChkString(m, x, LAMBDA d : Flocons(m, Len(Until0(d))))
StringDim(m, x) == ChkString(m, x, LAMBDA d : Flocons(m, Len(d) - 1))

-----------------------------------------------------------------------------
(* Parts of strings *)

Substring(m, x, start, end) ==
    StrDim(m, x, LAMBDA d : Long(m, start, LAMBDA s :
        LET Cut(e) == CASE s < 0 \/ s > e -> Err(m, "bad start index", start)
                        [] e < 0 \/ e > Len(d) -> Err(m, "bad end index", end)
                        [] OTHER -> Strcons(m, SubSeq(d, s + 1, e))
        IN  IF end = NIL THEN Cut(Len(d)) ELSE Long(m, end, Cut)))

(* strstr from position j: the position of the match, or 0. *)
Strstr(s, token, j) ==
    LET hits == {i \in j..(Len(s) - Len(token) + 1) : SubSeq(s, i, i + Len(token) - 1) = token}
    IN  IF hits = {} THEN 0 ELSE FS!Min(hits)
StringSearch(m, token, x) ==
    Str(m, x, LAMBDA s : Str(m, token, LAMBDA t :
        IF Strstr(s, t, 1) = 0 THEN Ret(m, NIL) ELSE Flocons(m, Strstr(s, t, 1) - 1)))

IsTrimSpace(b) == b \in {32, 9, 13, 10}
TrimLeft(s) == LET kept == {j \in DOMAIN s : ~IsTrimSpace(s[j])}
               IN  IF kept = {} THEN <<>> ELSE SubSeq(s, FS!Min(kept), Len(s))
TrimRight(s) == LET kept == {j \in DOMAIN s : ~IsTrimSpace(s[j])}
                IN  IF kept = {} THEN <<>> ELSE SubSeq(s, 1, FS!Max(kept))
StringTrim(m, x) == Str(m, x, LAMBDA s : Strcons(m, TrimRight(TrimLeft(s))))
StringTrimLeft(m, x) == Str(m, x, LAMBDA s : Strcons(m, TrimLeft(s)))
StringTrimRight(m, x) == Str(m, x, LAMBDA s : Strcons(m, TrimRight(s)))

Tolower(b) == IF b \in 65..90 THEN b + 32 ELSE b
MapBytes(s, F(_)) == [j \in DOMAIN s |-> F(s[j])]
StringUpcase(m, x) == Str(m, x, LAMBDA s : Strcons(m, MapBytes(s, Toupper)))
StringDowncase(m, x) == Str(m, x, LAMBDA s : Strcons(m, MapBytes(s, Tolower)))

Order(a, b) ==
    LET x == Append(a, 0)   y == Append(b, 0)
        n == FS!Min({Len(x), Len(y)})
        differ == {j \in 1..n : x[j] # y[j]}
    IN  CASE differ = {} -> 0
          [] OTHER -> IF x[FS!Min(differ)] < y[FS!Min(differ)] THEN -1 ELSE 1
Lstrcmp(m, x, y) == Str(m, x, LAMBDA a : Str(m, y, LAMBDA b : Flocons(m, Order(a, b))))
StringLessp(m, x, y) == Str(m, x, LAMBDA a : Str(m, y, LAMBDA b : Bool(m, Order(a, b) < 0)))

Spn(s, P(_)) == LET out == {j \in DOMAIN s : ~P(s[j])} IN IF out = {} THEN Len(s) ELSE FS!Min(out) - 1
Lstrspn(m, x, y) == Str(m, x, LAMBDA a : Str(m, y, LAMBDA b : Flocons(m, Spn(a, LAMBDA c : c \in SX!ToSet(b)))))
Lstrcspn(m, x, y) == Str(m, x, LAMBDA a : Str(m, y, LAMBDA b : Flocons(m, Spn(a, LAMBDA c : c \notin SX!ToSet(b)))))

SubstringSame(m, x, y, start, end, Key(_)) ==
    StrDim(m, x, LAMBDA a : StrDim(m, y, LAMBDA b :
        LET Between(s, e) == Bool(m, /\ 0 <= s /\ s <= e /\ e <= Len(b) /\ e - s = Len(a)
                                     /\ MapBytes(SubSeq(b, s + 1, e), Key) = MapBytes(a, Key))
            From(s) == IF end = NIL THEN Between(s, Len(a)) ELSE Long(m, end, LAMBDA e : Between(s, e))
        IN  IF start = NIL THEN From(0) ELSE Long(m, start, From)))
SubstringEqual(m, x, y, start, end) == SubstringSame(m, x, y, start, end, LAMBDA b : b)
(* strncasecmp stops at a zero, which no argument of the runs holds. *)
SubstringEqualcase(m, x, y, start, end) == SubstringSame(m, x, y, start, end, Tolower)

LkeyDefault(m, l, key, dval) ==
    Str(m, key, LAMBDA k :
        LET Is(e) == /\ Type(m, e) = "tc_string"
                     /\ SX!IsPrefix(<<58>> \o k \o <<61>>, Until0(Data(m, e)))
            hits == SelectSeq(Items(m, l), Is)
        IN  IF hits # <<>> THEN LET d == Until0(Data(m, hits[1])) IN Strcons(m, SubSeq(d, Len(k) + 3, Len(d)))
            ELSE OverList(m, l, LAMBDA n, items : Ret(n, dval)))

-----------------------------------------------------------------------------
(* Storing into a string *)

(* memcpy and the final zero, from position j of the data. *)
Store(m, x, j, s) ==
    IF j + Len(s) > Len(Data(m, x)) THEN Beyond(m, "write past the end of a string")
    ELSE [m EXCEPT !.cell[x.at].data = SubSeq(@, 1, j - 1) \o s \o <<0>> \o SubSeq(@, j + Len(s) + 1, Len(@)),
                   !.v = NIL]
Lstrcpy(m, x, y) ==
    ChkString(m, x, LAMBDA d : Str(m, y, LAMBDA s :
        IF Len(s) > Len(d) - 1 THEN Err(m, "string too long", y) ELSE Store(m, x, 1, s)))
(* The final zero forgotten in the check. *)
Lstrcat_OffByOne(m, x, y) ==
    ChkString(m, x, LAMBDA d : Str(m, y, LAMBDA s :
        LET dlen == Len(Until0(d)) IN
        IF Len(s) + dlen > Len(d) THEN Err(m, "string too long", y) ELSE Store(m, x, dlen + 1, s)))
Lstrcat(m, x, y) ==
    ChkString(m, x, LAMBDA d : Str(m, y, LAMBDA s :
        LET dlen == Len(Until0(d)) IN
        IF Len(s) + dlen > Len(d) - 1 THEN Err(m, "string too long", y) ELSE Store(m, x, dlen + 1, s)))

-----------------------------------------------------------------------------
(* Taking apart and putting together *)

RECURSIVE Pieces(_, _)
Pieces(s, marker) ==
    IF s = <<>> THEN <<>>
    ELSE LET e == Strstr(s, marker, 1) IN
         IF e = 0 THEN <<s>>
         ELSE <<SubSeq(s, 1, e - 1)>> \o Pieces(SubSeq(s, e + Len(marker), Len(s)), marker)

(* strcons of each text, from the last to the first. *)
StringList(m, texts) ==
    SX!FoldRight(LAMBDA s, n : LET c == Strcons(n, s) IN Cons(c, c.v, n.v), texts, Ret(m, NIL))

(* An empty marker is found at once for ever, and each turn conses. *)
Lstrbreakup(m, x, marker) ==
    Str(m, x, LAMBDA s : Str(m, marker, LAMBDA k :
        IF k = <<>> /\ s # <<>> THEN Beyond(m, "strbreakup without end") ELSE StringList(m, Pieces(s, k))))
Lstrunbreakup(m, elems, marker) ==
    OverList(m, elems, LAMBDA k, items :
        LET l == List(k, [j \in 1..(2 * Len(items) - 1) |-> IF j % 2 = 1 THEN items[(j + 1) \div 2] ELSE marker])
        IN  StringAppend(l, l.v))

-----------------------------------------------------------------------------
(* Numbers in strings *)

Digits == "0123456789ABCDEF"

RECURSIVE InBase(_, _)
InBase(n, base) == (IF n < base THEN <<>> ELSE InBase(n \div base, base)) \o Bytes(SubSeq(Digits, (n % base) + 1, (n % base) + 1))
Decimal(n) == IF n < 0 THEN <<45>> \o InBase(-n, 10) ELSE InBase(n, 10)

(* %g keeps six significant digits: with more the number is rounded (half  *)
(* to even) and written with an exponent.                                  *)
RECURSIVE Trimmed(_)
Trimmed(k) == IF k % 10 = 0 /\ k > 9 THEN Trimmed(k \div 10) ELSE k
Rounded(a, unit) ==
    LET twice == 2 * (a % unit)   down == a \div unit
    IN  IF twice > unit \/ (twice = unit /\ down % 2 = 1) THEN down + 1 ELSE down
Pointed(digits) == IF Len(digits) = 1 THEN digits ELSE <<digits[1], 46>> \o Tail(digits)
WithExponent(mantissa, exponent) ==
    Pointed(InBase(Trimmed(mantissa), 10)) \o <<101, 43>> \o (IF exponent < 10 THEN <<48>> ELSE <<>>) \o InBase(exponent, 10)
SixDigits(mantissa, exponent) == WithExponent(mantissa, IF mantissa = 1000000 THEN exponent + 1 ELSE exponent)
Scientific(a, size) == SixDigits(Rounded(a, 10 ^ (size - 6)), size - 1)
FormatG(n) ==
    LET a == IF n < 0 THEN -n ELSE n IN
    IF a < 1000000 THEN Decimal(n) ELSE (IF n < 0 THEN <<45>> ELSE <<>>) \o Scientific(a, Len(InBase(a, 10)))

(* Widths and precisions are wording, and left out. *)
Number2string(m, x, base) ==
    CASE ~Flonump(m, x) -> Err(m, "wta", x)
      [] base = NIL -> Strcons(m, FormatG(FLONM(m, x)))
      [] Flonump(m, base) /\ FLONM(m, base) = 10 -> Strcons(m, Decimal(FLONM(m, x)))
      [] Flonump(m, base) /\ FLONM(m, base) \in {8, 16} ->
             IF FLONM(m, x) < 0 THEN Beyond(m, "negative number in base 8 or 16")
             ELSE Strcons(m, InBase(FLONM(m, x), FLONM(m, base)))
      [] OTHER -> Long(m, base, LAMBDA b : Err(m, "number base not handled", base))

(* atof, of the numbers whose value is an integer: digits, point, digits,  *)
(* exponent.                                                               *)
Value(digits, base) == SX!FoldLeft(LAMBDA v, d : v * base + DigitValue(d), 0, digits)
Negative(t) == t # <<>> /\ t[1] = 45
WithoutSign(t) == IF t # <<>> /\ t[1] \in {43, 45} THEN Tail(t) ELSE t
LeadingDigits(t) == SubSeq(t, 1, Spn(t, IsDigit))
Power(rest) ==
    IF rest = <<>> \/ Tolower(rest[1]) # 101 THEN 0
    ELSE Value(LeadingDigits(WithoutSign(Tail(rest))), 10) * (IF Negative(Tail(rest)) THEN -1 ELSE 1)
Scaled(v, scale) ==
    IF scale >= 0 THEN [exact |-> TRUE, n |-> v * (10 ^ scale)]
    ELSE [exact |-> v % (10 ^ (-scale)) = 0, n |-> v \div (10 ^ (-scale))]
WithFraction(whole, after) ==
    IF after = <<>> \/ after[1] # 46 THEN Scaled(Value(whole, 10), Power(after))
    ELSE LET frac == LeadingDigits(Tail(after))
         IN  Scaled(Value(whole \o frac, 10), Power(SubSeq(after, Len(frac) + 2, Len(after))) - Len(frac))
Magnitude(body) == WithFraction(LeadingDigits(body), SubSeq(body, Spn(body, IsDigit) + 1, Len(body)))
SignedAtof(t) == [Magnitude(WithoutSign(t)) EXCEPT !.n = IF Negative(t) THEN -@ ELSE @]
Atof(s) == SignedAtof(TrimLeft(s))
FromNumber(m, number) == IF number.exact THEN Flocons(m, number.n) ELSE Beyond(m, "fraction")
FromAtof(m, s) == FromNumber(m, Atof(s))
ParseNumber(m, x) == Str(m, x, LAMBDA s : FromAtof(m, s))

(* sscanf reads a prefix of the text, the loop for the other bases skips   *)
(* what is no digit.                                                       *)
String2number(m, x, base) ==
    Str(m, x, LAMBDA s :
        IF base = NIL THEN FromAtof(m, s)
        ELSE Long(m, base, LAMBDA b :
            LET t == TrimLeft(s)
                neg == t # <<>> /\ t[1] = 45
                body == IF neg THEN Tail(t) ELSE t
                Ok(c) == IsXdigit(c) /\ DigitValue(c) < b
                prefix == Value(SubSeq(body, 1, Spn(body, Ok)), b)
            IN  CASE b \in {8, 10, 16} -> Flocons(m, IF neg THEN -prefix ELSE prefix)
                  [] b \in 1..16 -> Flocons(m, Value(SelectSeq(s, IsXdigit), b))
                  [] OTHER -> Err(m, "number base not handled", base)))

-----------------------------------------------------------------------------
(* base64 and hexadecimal *)

Base64encode(m, x) == StrDim(m, x, LAMBDA d : Strcons(m, Encoded(d)))
Base64decode(m, x) ==
    Str(m, x, LAMBDA s :
        CASE Len(s) = 0 -> Strcons(m, <<>>)
          [] Len(s) % 4 # 0 -> Err(m, "illegal base64 data length", x)
          [] Len(s) > 0 /\ Len(s) % 4 = 0 ->
                 IF Legal(s) THEN Strcons(m, Decoded(s)) ELSE Ret(m, NIL))

Hexstr(m, x) == StrDim(m, x, LAMBDA d : Strcons(m, HexEncoded(d)))
Hexstr2bytes(m, x) == Str(m, x, LAMBDA s : New(m, [t |-> "tc_byte_array", data |-> HexDecoded(s)]))

-----------------------------------------------------------------------------
(* Symbols, bits *)

Intern(m, x) == Str(m, x, LAMBDA s : Ret(m, Sym(Name(s))))
Symbolconc(m, args) ==
    OverList(m, args, LAMBDA k, items :
        LET bad == {j \in DOMAIN items : ~Symbolp(items[j])}
            text == SX!FlattenSeq([j \in DOMAIN items |-> TextOf(k, items[j])])
        IN  CASE bad # {} -> Err(k, "wta(non-symbol) to symbolconc", items[FS!Min(bad)])
              [] Len(text) > TkBufferN -> Err(k, "symbolconc buffer overflow", NIL)
              [] OTHER -> Ret(k, Sym(Name(text))))

Bits(m, x, y, Op(_, _)) ==
    Long(m, x, LAMBDA a : Long(m, y, LAMBDA b :
        IF a < 0 \/ b < 0 THEN Beyond(m, "bits of a negative number") ELSE Flocons(m, Op(a, b))))
Bitand(m, x, y) == Bits(m, x, y, LAMBDA a, b : a & b)
Bitor(m, x, y) == Bits(m, x, y, LAMBDA a, b : a | b)
Bitxor(m, x, y) == Bits(m, x, y, LAMBDA a, b : a ^^ b)
Bitnot(m, x) == Long(m, x, LAMBDA a : Flocons(m, -a - 1))
Ash(m, x, y) == Long(m, x, LAMBDA a : Long(m, y, LAMBDA k :
    Flocons(m, IF k > 0 THEN a * (2 ^ k) ELSE a \div (2 ^ (-k)))))
=============================================================================
