-------------------------------- MODULE Libu --------------------------------
(***************************************************************************)
(* The primitives of src/siod/slibu.c that compute, or that only need the  *)
(* files: the interpreter siod has them, imsh does not.  Local time is     *)
(* UTC here.                                                               *)
(***************************************************************************)
EXTENDS Md5
LOCAL SX == INSTANCE SequencesExt
LOCAL FS == INSTANCE FiniteSetsExt

CONSTANT GetsN   \* the size of the buffer of lgets

-----------------------------------------------------------------------------
(* Texts for the web.  A text that needs no change is its own code.        *)
(* isalnum is asked about a char: beyond 127 only EOF (255) is in its      *)
(* domain.                                                                 *)

Percent == 37
PlusSign == 43
Blank == 32
Regular(b) == IsAlnum(b) \/ b \in {42, 45, 46, 95, 64}   \* *-._@
UrlCode(b) == CASE b = Blank -> <<PlusSign>>
                [] Regular(b) -> <<b>>
                [] OTHER -> <<Percent>> \o Bytes(SubSeq(Digits, (b \div 16) + 1, (b \div 16) + 1))
                                        \o Bytes(SubSeq(Digits, (b % 16) + 1, (b % 16) + 1))
UrlEncode(m, x) ==
    Str(m, x, LAMBDA s :
        CASE \E j \in DOMAIN s : s[j] \in 128..254 -> Beyond(m, "isalnum of a negative char")
          [] \A j \in DOMAIN s : Regular(s[j]) -> Ret(m, x)
          [] OTHER -> Strcons(m, SX!FlattenSeq([j \in DOMAIN s |-> UrlCode(s[j])])))

Hex2(s, j) == IsXdigit(At(s, j)) /\ IsXdigit(At(s, j + 1))
RECURSIVE UrlDecoded(_, _)
UrlDecoded(s, j) ==
    CASE j > Len(s) -> <<>>
      [] s[j] = PlusSign -> <<Blank>> \o UrlDecoded(s, j + 1)
      [] s[j] = Percent -> <<(16 * DigitValue(s[j + 1])) + DigitValue(s[j + 2])>> \o UrlDecoded(s, j + 3)
      [] OTHER -> <<s[j]>> \o UrlDecoded(s, j + 1)
RECURSIVE UrlLegal(_, _)
UrlLegal(s, j) == CASE j > Len(s) -> TRUE
                    [] s[j] = Percent -> Hex2(s, j + 1) /\ UrlLegal(s, j + 1)
                    [] OTHER -> UrlLegal(s, j + 1)
UrlDecode(m, x) ==
    Str(m, x, LAMBDA s :
        CASE ~UrlLegal(s, 1) -> Ret(m, NIL)
          [] \A j \in DOMAIN s : s[j] \notin {PlusSign, Percent} -> Ret(m, x)
          [] OTHER -> Strcons(m, UrlDecoded(s, 1)))

(* An ampersand stays as it is. *)
HtmlCode_NoAmp(b) == CASE b = 62 -> Bytes("&gt;") [] b = 60 -> Bytes("&lt;") [] b = 34 -> Bytes("&quot;") [] OTHER -> <<b>>
HtmlCode(b) == CASE b = 62 -> Bytes("&gt;") [] b = 60 -> Bytes("&lt;") [] b = 38 -> Bytes("&amp;") [] b = 34 -> Bytes("&quot;")
                 [] OTHER -> <<b>>
HtmlEncode(m, x) ==
    IF ~HasText(m, x) \/ \A j \in DOMAIN TextOf(m, x) : TextOf(m, x)[j] \notin {62, 60, 38, 34} THEN Ret(m, x)
    ELSE LET s == TextOf(m, x) IN Strcons(m, SX!FlattenSeq([j \in DOMAIN s |-> HtmlCode(s[j])]))

-----------------------------------------------------------------------------
(* Lines of a file *)

Lgets(m, p, buffn) ==
    CFile(m, p, Stdin, LAMBDA k :
        LET Gets(n) ==
                LET f == Filled(m, k)
                    a == Ahead(f, k)
                    newline == {j \in DOMAIN a : a[j] = 10}
                    size == FS!Min({n - 1, Len(a)} \union newline)
                IN  IF n = 0 \/ (n > 1 /\ a = <<>>) THEN Ret(f, NIL) ELSE Strcons(Skip(f, k, size), Until0(SubSeq(a, 1, size)))
        IN  IF buffn = NIL THEN Gets(GetsN)
            ELSE Long(m, buffn, LAMBDA n : CASE n < 0 -> Err(m, "size must be >= 0", buffn)
                                             [] n > GetsN -> LET size == Flocons(m, GetsN)
                                                                 l == List(size, <<buffn, size.v>>)
                                                             IN  Err(l, "not handling buffer of size", l.v)
                                             [] OTHER -> Gets(n)))
(* The last byte taken for a newline. *)
Readline_DropsLast(m, p) ==
    Then(Lgets(m, p, NIL), LAMBDA k :
        IF k.v = NIL THEN k
        ELSE LET s == TextOf(k, k.v) IN IF s # <<>> THEN Set(k, k.v, [t |-> "tc_string", data |-> Append(SX!Front(s), 0)]) ELSE k)
(* The newline becomes the final zero, and the dim smaller. *)
Readline(m, p) ==
    Then(Lgets(m, p, NIL), LAMBDA k :
        IF k.v = NIL THEN k
        ELSE LET s == TextOf(k, k.v) IN
             IF s # <<>> /\ s[Len(s)] = 10 THEN Set(k, k.v, [t |-> "tc_string", data |-> Append(SX!Front(s), 0)]) ELSE k)

(* Unix keeps a file that is deleted while a stream has it open. *)
DeleteFile(m, fname) ==
    Str(m, fname, LAMBDA s :
        CASE ~Exists(m, Name(s)) -> Strcons(m, Bytes("No such file or directory"))
          [] \E k \in Opened(m) : m.streams[k].name = Name(s) -> Beyond(m, "an open file deleted")
          [] OTHER -> Ret([m EXCEPT !.files = [n \in DOMAIN @ \ {Name(s)} |-> @[n]]], NIL))

(* position_script: where #!/ is, and what stands between the blank after  *)
(* it and the end of the line (100 bytes fit), unless that is blank too.   *)
ScriptLimit == 250000
FlagBuff == 100
PositionScript(s) ==
    LET marks == {j \in 1..(FS!Min({Len(s), ScriptLimit}) - 2) : SubSeq(s, j, j + 2) = <<Hash, 33, Slash>>}
        pos == FS!Min(marks)
        after == SubSeq(s, pos + 3, Len(s))
        rest == SubSeq(after, Spn(after, LAMBDA b : b # Blank) + 2, Len(after))
        flags == SubSeq(rest, 1, FS!Min({Spn(rest, LAMBDA b : b # 10), FlagBuff}))
    IN  IF marks = {} THEN [pos |-> -1, flags |-> <<>>, read |-> Len(s)]
        ELSE [pos |-> pos - 1, flags |-> IF \A j \in DOMAIN flags : flags[j] \in {Blank, 9, 13} THEN <<>> ELSE flags,
              read |-> FS!Min({Len(s), Len(s) - Len(rest) + Len(flags) + 1})]
PositionIn(m, k, found) ==
    LET read == Skip(m, k, found.read)
        n == Flocons(read, found.pos)
        flags == Strcons(n, found.flags)
    IN  CASE found.pos < 0 -> Ret(read, NIL)
          [] Len(found.flags) = FlagBuff -> Beyond(m, "write past the end of the flags")
          [] OTHER -> Cons(flags, n.v, flags.v)
LpositionScript(m, p) ==
    CFile(m, p, Stdin, LAMBDA k :
        LET f == Filled(m, k) IN PositionIn(f, k, PositionScript(Ahead(f, k))))

(* __cgi-main: what main gave below a frame for errobj is a failure when  *)
(* it begins with a message; the page that says so is abstracted to that.  *)
PrintIfAny(m, x) == IF x = NIL THEN m ELSE Lprint(m, x, NIL)
CgiMain(m, flag, result) ==
    IF ~(Consp(m, result) /\ IsType(m, CAR(m, result), {"tc_string"})) THEN Ret(m, NIL)
    ELSE Err(PrintIfAny(Lprint(m, CAR(m, result), NIL), CDR(m, result)), "cgi-main", NIL)

-----------------------------------------------------------------------------
(* Options: a symbol or a list of symbols for a number.  memq gives the    *)
(* place of each option that is known; the other places must be known too. *)

AssembleOptions(m, l, value, K(_)) ==
    LET items == Items(m, l)
        Found(name) == IF Consp(m, l) THEN \E j \in DOMAIN items : items[j] = Sym(name) ELSE l = Sym(name)
        known == {name \in DOMAIN value : Found(name)}
        First(name) == FS!Min({j \in DOMAIN items : items[j] = Sym(name)})
    IN  CASE l = NIL -> K(0)
          [] Consp(m, l) /\ After(m, l) # NIL -> Err(m, "improper list to length", l)
          [] IF Consp(m, l) THEN {First(name) : name \in known} # DOMAIN items ELSE known = {} ->
                 Err(m, "contains undefined options", l)
          [] OTHER -> K(FS!SumSet({value[name] : name \in known}))

Permissions == <<"SUID", "SGID", "RUSR", "WUSR", "XUSR", "RGRP", "WGRP", "XGRP", "ROTH", "WOTH", "XOTH">>
PermissionBit == [name \in SX!ToSet(Permissions) |->
    LET j == CHOOSE j \in DOMAIN Permissions : Permissions[j] = name
    IN  IF j <= 2 THEN 2 ^ (12 - j) ELSE 2 ^ (11 - j)]
FileKind == [FIFO |-> 1, CHR |-> 2, DIR |-> 4, BLK |-> 6, REG |-> 8, LNK |-> 10, SOCK |-> 12]
EncodeStMode(m, l) == AssembleOptions(m, l, PermissionBit, LAMBDA n : Flocons(m, n))
DecodeStMode_NoKind(m, x) ==
    Long(m, x, LAMBDA n :
        LET names == SelectSeq(Permissions, LAMBDA name : (n \div PermissionBit[name]) % 2 = 1)
        IN  List(m, [j \in DOMAIN names |-> Sym(SX!Reverse(names)[j])]))
DecodeStMode(m, x) ==
    Long(m, x, LAMBDA n :
        LET set == SelectSeq(Permissions, LAMBDA name : (n \div PermissionBit[name]) % 2 = 1)
            kind == {name \in DOMAIN FileKind : FileKind[name] = (n \div 4096) % 16}
            names == set \o (IF kind = {} THEN <<>> ELSE <<CHOOSE name \in kind : TRUE>>)
        IN  List(m, [j \in DOMAIN names |-> Sym(SX!Reverse(names)[j])]))
OpenFlags == [NONBLOCK |-> 2048, APPEND |-> 1024, RDONLY |-> 0, WRONLY |-> 1, RDWR |-> 2, CREAT |-> 64, TRUNC |-> 512, EXCL |-> 128]
EncodeOpenFlags(m, l) == AssembleOptions(m, l, OpenFlags, LAMBDA n : Flocons(m, n))

-----------------------------------------------------------------------------
(* Dates.  A struct tm is an association list with all of its fields.      *)

Fields == <<"sec", "min", "hour", "mday", "mon", "year", "wday", "yday", "isdst">>
Symalist(m, names, values) ==
    LET pairs == SX!FoldLeft(LAMBDA n, j : LET x == Flocons(n, values[j])
                                               p == Cons(x, Sym(names[j]), x.v)
                                           IN  [p EXCEPT !.v = Append(n.v, p.v)], [m EXCEPT !.v = <<>>], [j \in DOMAIN names |-> j])
    IN  List(pairs, pairs.v)
DecodeTm(m, tm) == Symalist(m, Fields, [j \in DOMAIN Fields |-> tm[Fields[j]]])
RECURSIVE EncodeTm(_, _, _, _)
EncodeTm(m, alist, j, tm) ==
    IF j > Len(Fields) THEN [m EXCEPT !.v = tm]
    ELSE Then(Assq(m, Sym(Fields[j]), alist), LAMBDA k : Then(Cdr(k, k.v), LAMBDA n :
             LET Field(i) == EncodeTm(n, alist, j + 1, [tm EXCEPT ![Fields[j]] = i]) IN
             IF n.v = NIL THEN Field(IF Fields[j] = "isdst" THEN -1 ELSE 0) ELSE Long(n, n.v, Field)))
NoTm == [name \in SX!ToSet(Fields) |-> 0]

(* The C library: the day of a date, days counted from March, in years     *)
(* that begin with it, from 0 on (29 February being the last of its year). *)
LeapDays(y) == ((y \div 4) - (y \div 100)) + (y \div 400)
DaysBefore(mon) == ((153 * mon) + 2) \div 5   \* of the months March, April, ... before month mon
DayOf(year, mon, mday) ==
    LET m1 == mon - 2
        y == year + (m1 \div 12)
    IN  (365 * y) + LeapDays(y) + DaysBefore(m1 % 12) + (mday - 1) - 719468
Gmtime(t) ==
    LET days == t \div 86400
        s == t % 86400
        y0 == ((days + 719468) * 400) \div 146097
        From(y) == DayOf(y, 2, 1)
        y == CHOOSE y \in (y0 - 1)..(y0 + 1) : From(y) <= days /\ days < From(y + 1)
        day == days - From(y)
        m1 == ((5 * day) + 2) \div 153
        year == IF m1 > 9 THEN y + 1 ELSE y
    IN  [sec |-> s % 60, min |-> (s \div 60) % 60, hour |-> s \div 3600, mday |-> (day - DaysBefore(m1)) + 1,
         mon |-> (m1 + 2) % 12, year |-> year - 1900, wday |-> (days + 4) % 7, yday |-> days - DayOf(year, 0, 1), isdst |-> 0]
Mktime(tm) == (((((DayOf(tm.year + 1900, tm.mon, tm.mday) * 24) + tm.hour) * 60) + tm.min) * 60) + tm.sec

(* Without an argument these ask the clock. *)
AtTime(m, x, K(_)) == IF x = NIL THEN Beyond(m, "the time of day") ELSE Long(m, x, LAMBDA t : K(Gmtime(t)))
Lgmtime(m, x) == AtTime(m, x, LAMBDA tm : DecodeTm(m, tm))
Lmktime(m, alist) == Then(EncodeTm(m, alist, 1, NoTm), LAMBDA k : Flocons(k, Mktime(k.v)))

Padded(n, size) == LET d == Decimal(n) IN [j \in 1..(size - Len(d)) |-> 48] \o d
Names3 == "SunMonTueWedThuFriSatJanFebMarAprMayJunJulAugSepOctNovDec"
Name3(j) == Bytes(SubSeq(Names3, (3 * j) + 1, (3 * j) + 3))
HttpDate(m, x) ==
    AtTime(m, x, LAMBDA tm :
        Strcons(m, Name3(tm.wday) \o <<44, Blank>> \o Padded(tm.mday, 2) \o <<Blank>> \o Name3(7 + tm.mon) \o <<Blank>>
                   \o Padded(tm.year + 1900, 4) \o <<Blank>> \o Padded(tm.hour, 2) \o <<58>> \o Padded(tm.min, 2)
                   \o <<58>> \o Padded(tm.sec, 2) \o Bytes(" GMT")))
Utime2str(m, x) ==
    AtTime(m, x, LAMBDA tm :
        Strcons(m, Padded(tm.year + 1900, 4) \o SX!FlattenSeq(
            LET n == <<tm.mon + 1, tm.mday, tm.hour, tm.min, tm.sec, 0>> IN [j \in DOMAIN n |-> Padded(n[j], 2)])))

-----------------------------------------------------------------------------
(* The bytes of an object as an array of a C type: float 1, double 2, and  *)
(* from 3 on char, short, int and long, each signed and then unsigned.     *)

SizeOf(ctype) == <<4, 8, 1, 1, 2, 2, 4, 4, SizeofLong, SizeofLong>>[ctype]
CtypeOf(m, x, K(_)) == Long(m, x, LAMBDA c : IF c \in 1..10 THEN K(c) ELSE Err(m, "unknown CTYPE", x))

Unsigned8(b) == SX!FoldRight(LAMBDA d, v : (256 * v) + d, b, 0)
Element(m, ctype, b) ==
    CASE ctype = 1 -> IF Unsigned8(SubSeq(b, 1, 3)) = 0 /\ b[4] = 0 THEN Flocons(m, 0) ELSE Beyond(m, "float")
      [] ctype = 2 -> FromDouble(m, b)
      [] Len(b) = 4 -> IF b[4] < 128 THEN Flocons(m, Unsigned8(b))
                       ELSE IF ctype % 2 = 1 THEN Flocons(m, -1 - Unsigned8([j \in DOMAIN b |-> 255 - b[j]]))
                       ELSE Beyond(m, "number above 2^31")
      [] OTHER -> LET n == Unsigned8(b)   range == 256 ^ Len(b) IN
                  Flocons(m, IF ctype % 2 = 1 /\ 2 * n >= range THEN n - range ELSE n)
Datref(m, dat, ctype, ind) ==
    StrDim(m, dat, LAMBDA d : Long(m, ind, LAMBDA i :
        IF i < 0 THEN Err(m, "negative index", ind)
        ELSE CtypeOf(m, ctype, LAMBDA c :
                 IF (i + 1) * SizeOf(c) > Len(d) THEN Err(m, "index too large", ind)
                 ELSE Element(m, c, SubSeq(d, (i * SizeOf(c)) + 1, (i + 1) * SizeOf(c))))))
Sdatref(m, spec, dat) ==
    Then(Cdr(m, spec), LAMBDA k : Then(Car(k, spec), LAMBDA n : Datref(n, dat, n.v, k.v)))
Datlength(m, dat, ctype) ==
    StrDim(m, dat, LAMBDA d : CtypeOf(m, ctype, LAMBDA c : Flocons(m, Len(d) \div SizeOf(c))))
Ltrunc(m, x) == IF Flonump(m, x) THEN Flocons(m, FLONM(m, x)) ELSE Err(m, "wta to trunc", x)
SoExt(m, x) ==
    LET ext == Strcons(m, Bytes(".so")) IN
    IF x = NIL THEN ext ELSE LET l == List(ext, <<x, ext.v>>) IN StringAppend(l, l.v)

-----------------------------------------------------------------------------
(* pratt_read_token (src/siod/parser_pratt.c): chars says of each byte     *)
(* what it is: a word of these, nothing for a token of its own, or the     *)
(* list of what may follow in an operator.  The token is put into buffer.  *)

Whitespace == Sym("whitespace")
NlWhitespace == Sym("nl-whitespace")
RegularByte == Sym("regular")
StringDelim == Sym("string-delim")
BackSlash == Sym("back-slash")

(* A further byte c, a number, in the buffer after j others. *)
PrattPut(m, buffer, c, j, K(_, _)) ==
    IF j >= Dim(m, buffer) THEN Err(m, "token_overflow", NIL)
    ELSE Long(m, c, LAMBDA b : K([m EXCEPT !.cell[buffer.at].data[j + 1] = b % 256], j + 1))
PrattTake(m, buffer, j) == SubSeq(Data(m, buffer), 1, j)
PrattToken(m, buffer, j) == Lreadtk([m EXCEPT !.cell[buffer.at].data[j + 1] = 0], PrattTake(m, buffer, j))
PrattEnd_Swallows(m, buffer, chars, stream, c, j) == PrattToken(m, buffer, j)
(* The token ends before c, which is left for the next one unless blank. *)
PrattEnd(m, buffer, chars, stream, c, j) ==
    Then(Aref1(m, chars, c), LAMBDA k :
        Then(IF k.v = Whitespace THEN k ELSE Lungetc(k, c, stream), LAMBDA n : PrattToken(n, buffer, j)))

(* The first byte of the token and what it is, or the end of the file. *)
RECURSIVE PrattSkip(_, _, _)
RECURSIVE PrattComment(_, _)
PrattComment(m, stream) ==
    Then(Lgetc(m, stream), LAMBDA c : IF c.v = NIL \/ FLONM(c, c.v) = 10 THEN c ELSE PrattComment(c, stream))
PrattSkip(m, chars, stream) ==
    Then(Lgetc(m, stream), LAMBDA c :
        IF c.v = NIL THEN [c EXCEPT !.v = <<NIL, EofVal>>]
        ELSE Then(Aref1(c, chars, c.v), LAMBDA kind :
                 CASE kind.v = NlWhitespace -> Then(PrattComment(kind, stream), LAMBDA k : PrattSkip(k, chars, stream))
                   [] kind.v = Whitespace -> PrattSkip(kind, chars, stream)
                   [] OTHER -> [kind EXCEPT !.v = <<c.v, kind.v>>]))

(* In a string \n is a newline, \t a tabulator and \c any other byte c.     *)
PrattEscape(m, stream) ==
    Then(Lgetc(m, stream), LAMBDA e : Long(e, e.v, LAMBDA b :
        CASE b = 110 -> Flocons(e, 10) [] b = 116 -> Flocons(e, 9) [] OTHER -> e))
RECURSIVE PrattString(_, _, _, _, _)
PrattString(m, buffer, chars, stream, j) ==
    Then(Lgetc(m, stream), LAMBDA c : Then(IF c.v = NIL THEN c ELSE Aref1(c, chars, c.v), LAMBDA kind :
        IF c.v # NIL /\ kind.v = StringDelim THEN Strcons(kind, PrattTake(kind, buffer, j))
        ELSE Then(IF c.v # NIL /\ kind.v = BackSlash THEN PrattEscape(kind, stream) ELSE Ret(kind, c.v), LAMBDA k :
                 PrattPut(k, buffer, k.v, j, LAMBDA n, i : PrattString(n, buffer, chars, stream, i)))))

RECURSIVE PrattOperator(_, _, _, _, _, _)
PrattOperator(m, buffer, chars, stream, tail, j) ==
    Then(Lgetc(m, stream), LAMBDA c :
        IF c.v = NIL THEN PrattToken(c, buffer, j)
        ELSE Then(Assq(c, c.v, tail), LAMBDA next :
                 IF next.v = NIL THEN PrattEnd(next, buffer, chars, stream, c.v, j)
                 ELSE PrattPut(next, buffer, c.v, j, LAMBDA n, i : PrattOperator(n, buffer, chars, stream, next.v, i))))

RECURSIVE PrattWord(_, _, _, _, _)
PrattWord(m, buffer, chars, stream, j) ==
    Then(Lgetc(m, stream), LAMBDA c :
        IF c.v = NIL THEN PrattToken(c, buffer, j)
        ELSE Then(Aref1(c, chars, c.v), LAMBDA kind :
                 IF kind.v \notin {BackSlash, RegularByte} THEN PrattEnd(kind, buffer, chars, stream, c.v, j)
                 ELSE Then(IF kind.v = BackSlash THEN Lgetc(kind, stream) ELSE Ret(kind, c.v), LAMBDA k :
                          PrattPut(k, buffer, k.v, j, LAMBDA n, i : PrattWord(n, buffer, chars, stream, i)))))

PrattReadToken(m, buffer, chars, stream) ==
    Then(PrattSkip(m, chars, stream), LAMBDA k :
        LET c == k.v[1]   kind == k.v[2]
            first == IF kind = BackSlash THEN Lgetc(k, stream) ELSE Ret(k, c)
        IN  CASE Type(m, buffer) # "tc_string" -> Beyond(m, "a token put into something that is no string")
              [] c = NIL -> Ret(k, kind)
              [] kind = StringDelim -> PrattString(k, buffer, chars, stream, 0)
              [] OTHER -> Then(first, LAMBDA f : PrattPut(f, buffer, f.v, 0, LAMBDA n, j :
                     CASE kind = NIL -> PrattToken(n, buffer, j)
                       [] Consp(n, kind) -> PrattOperator(n, buffer, chars, stream, kind, j)
                       [] OTHER -> PrattWord(n, buffer, chars, stream, j))))
=============================================================================
