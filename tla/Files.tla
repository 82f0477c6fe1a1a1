-------------------------------- MODULE Files --------------------------------
(***************************************************************************)
(* Files: the streams of src/siod/slib.c (fopen ... fseek), load, require  *)
(* and save-forms, and the binary format of fast-save and fast-load        *)
(* (src/siod/sliba.c).                                                     *)
(*                                                                         *)
(* m.files has the bytes of every file that exists.  m.streams has a       *)
(* record for every stream that was opened, the first being stdin: text is *)
(* what has been read into its buffer, pos the place in it; buf is what    *)
(* was written and is not in the file yet, off the place in the file where *)
(* it will go.  The cell of a stream has its number, 0 when it is closed.  *)
(***************************************************************************)
EXTENDS Reader
LOCAL SX == INSTANCE SequencesExt
LOCAL FS == INSTANCE FiniteSetsExt

Stdout == 0
Stdin == 1
Stream(mode, name, text) ==
    [mode |-> mode, name |-> name, text |-> text, pos |-> 1, buf |-> <<>>, off |-> 0]
Opened(m) == {k \in DOMAIN m.streams : k # Stdin /\ m.streams[k].mode # "closed"}

-----------------------------------------------------------------------------
(* The C library: what it does to a stream *)

(* A read takes into the buffer what the file has beyond it. *)
Filled(m, k) ==
    LET s == m.streams[k] IN
    IF s.mode # "r" THEN m
    ELSE [m EXCEPT !.streams[k].text = @ \o SubSeq(m.files[s.name], Len(@) + 1, Len(m.files[s.name]))]
Ahead(m, k) == LET s == m.streams[k] IN SubSeq(s.text, s.pos, Len(s.text))
Skip(m, k, n) == [m EXCEPT !.streams[k].pos = FS!Min({@ + n, Len(m.streams[k].text) + 1})]

(* What is written beyond the end of the file comes after zeros; a stream  *)
(* that appends writes at the end.                                         *)
Written(old, off, new) ==
    [j \in 1..FS!Max({Len(old), off + Len(new)}) |->
        CASE off < j /\ j <= off + Len(new) -> new[j - off] [] j <= Len(old) -> old[j] [] OTHER -> 0]
Flush(m, k) ==
    LET s == m.streams[k]
        old == m.files[s.name]
        off == IF s.mode = "a" THEN Len(old) ELSE s.off
    IN  IF s.mode \notin {"w", "a"} \/ s.buf = <<>> THEN m
        ELSE [m EXCEPT !.files[s.name] = Written(old, off, s.buf), !.streams[k].off = off + Len(s.buf),
                       !.streams[k].buf = <<>>]
CloseStream(m, k) == [Flush(m, k) EXCEPT !.streams[k] = Stream("closed", "", <<>>)]

(* A stream that only reads takes nothing. *)
PutTo(m, k, text) ==
    CASE k = Stdout -> Put(m, text)
      [] m.streams[k].mode \in {"w", "a"} -> Ret([m EXCEPT !.streams[k].buf = @ \o text], NIL)
      [] OTHER -> Ret(m, NIL)

(* fopen makes the file of a stream that writes exist, and empties it for  *)
(* "w", before anything has been written.                                  *)
ModeOf(how) == CASE how \in {"r", "rb"} -> "r" [] how \in {"w", "wb"} -> "w" [] how \in {"a", "ab"} -> "a" [] OTHER -> "?"
Exists(m, name) == name \in DOMAIN m.files
Emptied(m, name) == [m EXCEPT !.files = [n \in DOMAIN @ \union {name} |-> IF n = name THEN <<>> ELSE @[n]]]
Fopen(m, name, how) ==
    LET mode == ModeOf(how)
        made == IF mode = "w" \/ (mode = "a" /\ ~Exists(m, name)) THEN Emptied(m, name) ELSE m
    IN  CASE mode = "?" -> Beyond(m, "a stream that reads and writes")
          [] mode = "r" /\ ~Exists(m, name) -> Err(m, "could not open " \o name, Sym("No such file or directory"))
          [] OTHER -> New([made EXCEPT !.streams = Append(@, Stream(mode, name, <<>>))],
                          [t |-> "tc_c_file", at |-> Len(m.streams) + 1])

-----------------------------------------------------------------------------
(* The primitives on streams *)

NoDefault == -1
CFile(m, p, default, K(_)) ==
    CASE p = NIL /\ default # NoDefault -> K(default)
      [] Type(m, p) # "tc_c_file" -> Err(m, "not a file", p)
      [] Cell(m, p).at = 0 -> Err(m, "file is closed", p)
      [] OTHER -> K(Cell(m, p).at)

StrOr(m, x, default, K(_)) == IF x = NIL THEN K(default) ELSE Str(m, x, K)
FopenL(m, name, how) ==
    Str(m, name, LAMBDA n : StrOr(m, how, Bytes("r"), LAMBDA h : Fopen(m, Name(n), Name(h))))
FileGcFree(m, p) == LET k == Cell(m, p).at IN IF k = 0 THEN m ELSE Set(CloseStream(m, k), p, [Cell(m, p) EXCEPT !.at = 0])
FcloseL(m, p) == IF Type(m, p) # "tc_c_file" THEN Err(m, "not a file", p) ELSE Ret(FileGcFree(m, p), NIL)

Lgetc(m, p) ==
    CFile(m, p, Stdin, LAMBDA k : LET f == Filled(m, k)
                                      a == Ahead(f, k)
                                  IN  IF a = <<>> THEN Ret(f, NIL) ELSE Flocons(Skip(f, k, 1), a[1]))
Lungetc(m, ii, p) ==
    IF ii = NIL THEN Ret(m, NIL)
    ELSE Long(m, ii, LAMBDA c : CFile(m, p, Stdin, LAMBDA k :
             CASE c = EOF -> Ret(m, NIL)
               [] m.streams[k].pos = 1 -> Beyond(m, "ungetc at the beginning")
               [] OTHER -> Ret([m EXCEPT !.streams[k].pos = @ - 1, !.streams[k].text[m.streams[k].pos - 1] = c % 256], NIL)))
Lputc(m, c, p) ==
    CFile(m, p, Stdout, LAMBDA k :
        IF Flonump(m, c) THEN PutTo(m, k, <<FLONM(m, c) % 256>>) ELSE Str(m, c, LAMBDA s : PutTo(m, k, <<Append(s, 0)[1]>>)))
Lputs(m, str, p) == CFile(m, p, Stdout, LAMBDA k : Str(m, str, LAMBDA s : PutTo(m, k, s)))
Lftell(m, p) ==
    CFile(m, p, NoDefault, LAMBDA k : LET s == m.streams[k] IN
        Flocons(m, IF s.mode = "r" THEN s.pos - 1 ELSE s.off + Len(s.buf)))
Lfseek(m, p, offset, direction) ==
    CFile(m, p, NoDefault, LAMBDA k : Long(m, offset, LAMBDA o : Long(m, direction, LAMBDA d :
        LET f == Filled(m, k)
            s == f.streams[k]
            to == o + (CASE d = 0 -> 0 [] d = 1 -> s.pos - 1 [] OTHER -> Len(s.text))
        IN  CASE s.mode # "r" \/ to > Len(s.text) -> Beyond(f, "fseek of what is written, or beyond the end")
              [] to < 0 \/ d \notin 0..2 -> Ret(f, NIL)
              [] OTHER -> Ret([f EXCEPT !.streams[k].pos = to + 1], SymT))))
Lfflush(m, p) == CFile(m, p, Stdout, LAMBDA k : Ret(IF k = Stdout THEN m ELSE Flush(m, k), NIL))

(* fread into a string or byte array, or into a new string. *)
Lfread(m, size, p) ==
    CFile(m, p, Stdin, LAMBDA k :
        LET f == Filled(m, k)
            Take(n) == SubSeq(Ahead(f, k), 1, FS!Min({n, Len(Ahead(f, k))}))
            into == Dim(m, size)
        IN  IF IsType(m, size, Bytish)
            THEN LET got == Take(into)
                     full == [Skip(f, k, Len(got)) EXCEPT !.cell[size.at].data = got \o SubSeq(@, Len(got) + 1, Len(@))]
                 IN  IF got = <<>> THEN Ret(f, NIL) ELSE Flocons(full, Len(got))
            ELSE Long(f, size, LAMBDA n :
                     CASE n < 0 -> Beyond(f, "fread of a negative size")
                       [] Take(n) = <<>> -> Ret(f, NIL)
                       [] OTHER -> Strcons(Skip(f, k, Len(Take(n))), Take(n))))
Lfwrite(m, string, p) ==
    CFile(m, p, Stdout, LAMBDA k : Then(IF Consp(m, string) THEN Car(m, string) ELSE Ret(m, string), LAMBDA x :
        StrDim(x, x.v, LAMBDA d :
            LET Send(len) == CASE len <= 0 -> Ret(m, NIL)
                               [] len > Len(d) -> Err(m, "write length too long", string)
                               [] OTHER -> PutTo(m, k, SubSeq(d, 1, len))
            IN  IF ~Consp(m, string) THEN Send(Len(d)) ELSE Then(Cxr(m, string, AD), LAMBDA l : Long(l, l.v, Send)))))

Lprint(m, x, p) == CFile(m, p, Stdout, LAMBDA k : PutTo(m, k, Append(Printed(m, x), 10)))
Lprin1(m, x, p) == CFile(m, p, Stdout, LAMBDA k : PutTo(m, k, Printed(m, x)))
Writes(m, args) ==
    Then(Car(m, args), LAMBDA p : Then(Cdr(p, args), LAMBDA l :
        CFile(l, p.v, Stdout, LAMBDA k : PutTo(l, k, WritesText(l, l.v)))))

-----------------------------------------------------------------------------
(* load, require, save-forms *)

BufferN == 512
SiodLib == "/usr/local/lib/siod"
Hash == 35
Bar == 124
Slash == 47

(* The lines that begin with # or ; come first: what is in them after that *)
(* byte, and where they end.                                               *)
RECURSIVE Header(_, _, _)
Header(s, p, read) ==
    IF At(s, p) \notin {Hash, Semicolon} THEN [text |-> Until0(SubSeq(read, 1, FS!Min({Len(read), BufferN - 1}))), next |-> p]
    ELSE LET line == Spn(SubSeq(s, p, Len(s)), LAMBDA b : b # 10)
         IN  Header(s, FS!Min({p + line + 1, Len(s) + 1}), read \o SubSeq(s, p + 1, p + line - 1))

(* LENGTH|NAME: the file NAME, LENGTH bytes of it left out. *)
Offset(s) == LET bar == Strstr(s, <<Bar>>, 1) IN
             IF bar = 0 THEN [skip |-> 0, name |-> s]
             ELSE [skip |-> Value(SubSeq(s, 1, Spn(s, IsDigit)), 10), name |-> SubSeq(s, bar + 1, Len(s))]
InLibrary(m, name) ==
    LET there == SiodLib \o "/" \o Name(name) IN
    IF ~Exists(m, Name(name)) /\ At(name, 1) # Slash /\ Exists(m, there) THEN there ELSE Name(name)

Key == Bytes("parser:")
IsAlnum(b) == IsDigit(b) \/ Toupper(b) \in 65..90

(* *NAME-loaded* is set after the load. *)
Preloaded == {"*parser_read.scm-loaded*", "*parser_fasl.scm-loaded*"}
IsLoaded(m, sym) == IF sym.name \in DOMAIN m.vcell THEN m.vcell[sym.name] # NIL ELSE sym.name \in Preloaded
PutLines(m, lf, items) ==
    PutTo(m, Cell(m, lf).at, SX!FlattenSeq([j \in DOMAIN items |-> Append(Printed(m, items[j]), 10)]))
(* The stream left to the collector. *)
SaveForms_LeavesOpen(m, fname, forms, how) ==
    Str(m, fname, LAMBDA s : Then(Fopen(m, Name(s), IF how = NIL THEN "w" ELSE "a"), LAMBDA open :
        OverList(PutLines(open, open.v, Items(open, forms)), forms, LAMBDA k, l : Ret(k, SymT))))
SaveForms(m, fname, forms, how) ==
    Str(m, fname, LAMBDA s :
        IF how \notin {NIL, Sym("a")} THEN Err(m, "bad argument to save-forms", how)
        ELSE Then(Fopen(m, Name(s), IF how = NIL THEN "w" ELSE "a"), LAMBDA open :
             OverList(PutLines(open, open.v, Items(open, forms)), forms, LAMBDA k, l : Ret(FileGcFree(k, open.v), SymT))))

-----------------------------------------------------------------------------
(* Objects as bytes.  A table is the list of the stream, a hash table that *)
(* numbers the symbols (or nil) and the next number.                       *)

OpFetch == 127
OpStore == 126
OpList == 125
OpListd == 124
TypeCode == [tc_nil |-> 0, tc_cons |-> 1, tc_flonum |-> 2, tc_symbol |-> 3, tc_string |-> 13, tc_double_array |-> 14,
             tc_long_array |-> 15, tc_lisp_array |-> 16, tc_byte_array |-> 18]
TcTableDim == 100

(* A double of an integer: sign, exponent and fraction, the bits from the  *)
(* least significant byte.                                                 *)
Exponent(a) == CHOOSE e \in 0..30 : 2 ^ e <= a /\ a \div (2 ^ e) = 1
DoubleBits(n) ==
    LET a == IF n < 0 THEN -n ELSE n
        e == Exponent(a)
        Fraction(j) == IF j <= e THEN (a \div (2 ^ (e - j))) % 2 ELSE 0
    IN  IF n = 0 THEN [j \in 1..64 |-> 0]
        ELSE [j \in 1..64 |-> CASE j = 1 -> (IF n < 0 THEN 1 ELSE 0)
                                [] j <= 12 -> ((1023 + e) \div (2 ^ (12 - j))) % 2
                                [] OTHER -> Fraction(j - 12)]
FromBits(bits) == SX!FoldLeft(LAMBDA v, b : 2 * v + b, 0, bits)
DoubleBytes(n) == LET bits == DoubleBits(n) IN [k \in 1..8 |-> FromBits(SubSeq(bits, 65 - (8 * k), 72 - (8 * k)))]

Emit(m, k, bytes, v) == Ret(PutTo(m, k, bytes), v)
Counted(code, n) == <<code>> \o LongBytes(n)

(* Each symbol stored under the same number. *)
FastPrintTable_SameNumber(m, x, table, k) ==
    Then(Cxr(m, table, AD), LAMBDA ht :
        IF ht.v = NIL THEN Ret(ht, SymT)
        ELSE Then(Href(ht, ht.v, x), LAMBDA index :
             IF index.v # NIL THEN Long(index, index.v, LAMBDA n : Emit(index, k, Counted(OpFetch, n), NIL))
             ELSE Then(Cxr(index, table, ADD), LAMBDA next : Then(Hset(next, ht.v, x, next.v), LAMBDA kept :
                      Long(kept, next.v, LAMBDA n : Emit(kept, k, Counted(OpStore, n), SymT))))))
(* fast_print_table: whether the symbol itself must follow. *)
FastPrintTable(m, x, table, k) ==
    Then(Cxr(m, table, AD), LAMBDA ht :
        IF ht.v = NIL THEN Ret(ht, SymT)
        ELSE Then(Href(ht, ht.v, x), LAMBDA index :
             IF index.v # NIL THEN Long(index, index.v, LAMBDA n : Emit(index, k, Counted(OpFetch, n), NIL))
             ELSE Then(Cxr(index, table, ADD), LAMBDA next :
                  IF next.v = NIL THEN Ret(next, SymT)
                  ELSE Then(Hset(next, ht.v, x, next.v), LAMBDA kept : Then(Cxr(kept, table, DD), LAMBDA place :
                       LET one == Flocons(place, 1) IN
                       Then(Plus(one, next.v, one.v), LAMBDA sum : Then(Setcar(sum, place.v, sum.v), LAMBDA done :
                           Long(done, next.v, LAMBDA n : Emit(done, k, Counted(OpStore, n), SymT)))))))))

RECURSIVE FastPrint(_, _, _)
RECURSIVE FastPrintAll(_, _, _)
FastPrintAll(m, items, table) ==
    IF items = <<>> THEN Ret(m, NIL)
    ELSE Then(FastPrint(m, Head(items), table), LAMBDA k : FastPrintAll(k, Tail(items), table))
ArrayFastPrint(m, x, table, k) ==
    LET type == Type(m, x) IN
    CASE type \in Bytish -> Emit(m, k, Counted(TypeCode[type], Dim(m, x)) \o SubSeq(Data(m, x), 1, Dim(m, x)), NIL)
      [] type = "tc_double_array" ->
             Emit(m, k, Counted(TypeCode[type], 8 * Dim(m, x)) \o Each1(Data(m, x), DoubleBytes), NIL)
      [] type = "tc_long_array" ->
             Emit(m, k, Counted(TypeCode[type], SizeofLong * Dim(m, x)) \o Each1(Data(m, x), LongBytes), NIL)
      [] OTHER -> FastPrintAll(PutTo(m, k, Counted(TypeCode[type], Dim(m, x))), Data(m, x), table)
(* The opcode of a list, and what follows it. *)
ListFastPrint(m, items, rest, table, k) ==
    LET code == IF Len(items) = 1 THEN <<TypeCode.tc_cons>>
                ELSE Counted(IF rest = NIL THEN OpList ELSE OpListd, Len(items))
    IN  FastPrintAll(PutTo(m, k, code), IF Len(items) > 1 /\ rest = NIL THEN items ELSE Append(items, rest), table)
FastPrint(m, x, table) ==
    Then(Car(m, table), LAMBDA s : CFile(s, s.v, NoDefault, LAMBDA k :
        CASE x = NIL -> Emit(m, k, <<TypeCode.tc_nil>>, NIL)
          [] Consp(m, x) -> ListFastPrint(m, Items(m, x), After(m, x), table, k)
          [] Flonump(m, x) -> Emit(m, k, <<TypeCode.tc_flonum>> \o DoubleBytes(FLONM(m, x)), NIL)
          [] Symbolp(x) ->
                 Then(FastPrintTable(m, x, table, k), LAMBDA n :
                     CASE n.v = NIL -> n
                       [] Len(x.name) >= TkBufferN -> Err(PutTo(n, k, <<TypeCode.tc_symbol>>), "symbol name too long", x)
                       [] OTHER -> Emit(n, k, Counted(TypeCode.tc_symbol, Len(x.name)) \o Bytes(x.name), SymT))
          [] IsType(m, x, Arrays) -> ArrayFastPrint(m, x, table, k)
          [] OTHER -> Err(m, "cannot fast-print", x)))

(* fread of n bytes, and of a long. *)
Take(m, k, n, K(_, _)) ==
    IF n < 0 \/ n > Len(Ahead(m, k)) THEN Beyond(m, "bytes that the file does not have")
    ELSE K(Skip(m, k, n), SubSeq(Ahead(m, k), 1, n))
FromLong(b) == LET u == SX!FoldRight(LAMBDA d, v : (v * 256) + d, SubSeq(b, 1, 3), 0)
               IN  u + (256 * 65536 * Signed(b[4]))
TakeLong(m, k, K(_, _)) == Take(m, k, SizeofLong, LAMBDA n, b : K(n, FromLong(b)))
FromDouble(m, b) ==
    LET bits == SX!FlattenSeq([j \in 1..8 |-> [i \in 1..8 |-> (b[9 - j] \div (2 ^ (8 - i))) % 2]])
        e == FromBits(SubSeq(bits, 2, 12)) - 1023
        fraction == SubSeq(bits, 13, 64)
        a == FromBits(<<1>> \o SubSeq(fraction, 1, e))
    IN  CASE \A j \in 2..64 : bits[j] = 0 -> Flocons(m, 0)
          [] e \notin 0..30 \/ \E j \in (e + 1)..52 : fraction[j] = 1 -> Beyond(m, "fraction")
          [] OTHER -> Flocons(m, IF bits[1] = 1 THEN -a ELSE a)

RECURSIVE FastRead(_, _)
RECURSIVE FastReadAll(_, _, _, _)
FastReadAll(m, n, table, done) ==
    IF n = 0 THEN [m EXCEPT !.v = done]
    ELSE Then(FastRead(m, table), LAMBDA k : FastReadAll(k, n - 1, table, Append(done, k.v)))
FastFetch(m, table, k) ==
    TakeLong(m, k, LAMBDA t, n : Then(Cxr(t, table, AD), LAMBDA ht : LET index == Flocons(ht, n) IN Href(index, ht.v, index.v)))

(* The count of an array of numbers is of bytes, and as many numbers are   *)
(* read.                                                                   *)
ArrayCodes == {TypeCode[type] : type \in Arrays}
ArrayFastRead(m, code, table, k) ==
    TakeLong(m, k, LAMBDA t, len :
        CASE code = TypeCode.tc_string -> Take(t, k, len, LAMBDA r, b : Strcons(r, b))
          [] code = TypeCode.tc_byte_array ->
                 Take(t, k, len, LAMBDA r, b : New(r, [t |-> "tc_byte_array", data |-> b]))
          [] code = TypeCode.tc_lisp_array ->
                 Then(FastReadAll(t, len, table, <<>>), LAMBDA all : New(all, [t |-> "tc_lisp_array", data |-> all.v]))
          [] len # 0 -> Beyond(t, "array of numbers in a fasl file")
          [] OTHER -> New(t, [t |-> IF code = TypeCode.tc_long_array THEN "tc_long_array" ELSE "tc_double_array",
                              data |-> <<>>]))

StoreUnder(m, table, number, x) ==
    Then(Cxr(m, table, AD), LAMBDA ht : LET index == Flocons(ht, number) IN
        Then(Hset(index, ht.v, index.v, x), LAMBDA kept : Ret(kept, x)))
UnknownOpcode(c) == Err(c, "unknown fast-read opcode", c.v)
FastReadCode(m, code, table, k) ==
    CASE code = OpFetch -> FastFetch(m, table, k)
      [] code = OpStore ->
             TakeLong(m, k, LAMBDA t, number : Then(FastRead(t, table), LAMBDA x : StoreUnder(x, table, number, x.v)))
      [] code = TypeCode.tc_nil -> Ret(m, NIL)
      [] code = TypeCode.tc_cons -> Then(FastReadAll(m, 2, table, <<>>), LAMBDA t : Cons(t, t.v[1], t.v[2]))
      [] code \in {OpList, OpListd} ->
             TakeLong(m, k, LAMBDA t, len :
                 IF len < 1 THEN Beyond(t, "list without elements")
                 ELSE Then(FastReadAll(t, IF code = OpList THEN len ELSE len + 1, table, <<>>), LAMBDA all :
                      ListWith(all, SubSeq(all.v, 1, len), IF code = OpList THEN NIL ELSE all.v[len + 1])))
      [] code = TypeCode.tc_flonum -> Take(m, k, 8, LAMBDA t, b : FromDouble(t, b))
      [] code = TypeCode.tc_symbol ->
             TakeLong(m, k, LAMBDA t, len :
                 IF len >= TkBufferN THEN Err(t, "symbol name too long", NIL)
                 ELSE Take(t, k, len, LAMBDA r, b : Ret(r, Sym(Name(Until0(b))))))
      [] code \in ArrayCodes -> ArrayFastRead(m, code, table, k)
      [] code >= TcTableDim -> Err(m, "type number out of range", NIL)
      [] OTHER -> UnknownOpcode(Flocons(m, code))

(* At the end of the file the value is the table itself.  A comment ends   *)
(* with its line; a zero in it goes on as FO_fetch.                        *)
AfterComment(m, ended, table, k) ==
    CASE ended = <<>> -> Ret(m, table)
      [] ended[1] = 10 -> FastRead(m, table)
      [] OTHER -> FastFetch(m, table, k)
FastReadFrom(m, table, k) ==
    LET a == Ahead(m, k)
        line == Spn(a, LAMBDA b : b \notin {0, 10})
    IN  CASE a = <<>> -> Ret(m, table)
          [] a[1] = Hash -> AfterComment(Skip(m, k, line + 1), SubSeq(a, line + 1, line + 1), table, k)
          [] OTHER -> FastReadCode(Skip(m, k, 1), a[1], table, k)
FastRead(m, table) ==
    Then(Car(m, table), LAMBDA s : CFile(s, s.v, NoDefault, LAMBDA k : FastReadFrom(Filled(m, k), table, k)))

-----------------------------------------------------------------------------
(* Files of such objects *)

HashDim == 100
NewTable(m, file, hashed) ==
    LET ht == IF hashed THEN NewArray(m, "tc_lisp_array", HashDim, NIL) ELSE Ret(m, NIL)
        zero == Flocons(ht, 0)
    IN  List(zero, <<file, ht.v, zero.v>>)

(* The comment comes as it is: unless it is lines that begin with # the    *)
(* file cannot be read.                                                    *)
SaveHeader == Bytes("# Siod Binary Object Save File\n# sizeof(long) = 4\n# sizeof(double) = 8\n# 1 = 01000000\n# 1.0 = 000000000000F03F\n")
FastSaveTo(table, lf, forms, comment) ==
    StrOr(table, comment, <<>>, LAMBDA text :
        Then(FastPrintAll(PutTo(table, Cell(table, lf).at, text \o SaveHeader), Items(table, forms), table.v), LAMBDA done :
            OverList(done, forms, LAMBDA k, l : Ret(FileGcFree(k, lf), NIL))))
FastSave(m, fname, forms, nohash, comment, fmode) ==
    Str(m, fname, LAMBDA s :
        StrOr(m, fmode, Bytes("wb"), LAMBDA how : Then(Fopen(m, Name(s), Name(how)), LAMBDA open :
            FastSaveTo(NewTable(open, open.v, nohash = NIL), open.v, forms, comment))))

ParserFaslHook(m, env, f) ==
    Then(Setcar(m, env, f), LAMBDA k : Then(FastRead(k, env), LAMBDA r : IF r.v = env THEN Ret(r, EofVal) ELSE r))

-----------------------------------------------------------------------------
(* swrite: a template, its symbols looked up in a table *)

Swrite1(m, stream, x) ==
    CFile(m, stream, Stdout, LAMBDA k : PutTo(m, k, IF HasText(m, x) THEN TextOf(m, x) ELSE Printed(m, x)))
(* A list gives its next element each time, the last for ever; .NAME       *)
(* looks at the element of NAME without taking it.                         *)
SwriteKey(m, name, table, key, dotted) ==
    Then(Href(m, table, key), LAMBDA k :
        LET value == k.v IN
        CASE value = NIL -> Ret(k, name)
          [] Consp(k, value) /\ Consp(k, CDR(k, value)) /\ ~dotted ->
                 Then(Hset(k, table, key, CDR(k, value)), LAMBDA n : Ret(n, CAR(n, value)))
          [] Consp(k, value) -> Ret(k, CAR(k, value))
          [] OTHER -> k)
Swrite2(m, name, table) ==
    LET dotted == Symbolp(name) /\ Len(name.name) > 0 /\ SubSeq(name.name, 1, 1) = "."
    IN  SwriteKey(m, name, table, IF dotted THEN Sym(SubSeq(name.name, 2, Len(name.name))) ELSE name, dotted)

RECURSIVE Swrite(_, _, _, _)
RECURSIVE SwriteAll(_, _, _, _)
SwriteAll(m, stream, table, items) ==
    IF items = <<>> THEN Ret(m, NIL)
    ELSE Then(Swrite(m, stream, table, Head(items)), LAMBDA k : SwriteAll(k, stream, table, Tail(items)))
Swrite(m, stream, table, x) ==
    CASE Type(m, x) = "tc_lisp_array" /\ Dim(m, x) < 1 -> Err(m, "no object repeat count", x)
      [] Consp(m, x) -> Ret(m, NIL)
      [] Symbolp(x) \/ Type(m, x) = "tc_lisp_array" ->
             Then(Swrite2(m, IF Symbolp(x) THEN x ELSE Data(m, x)[1], table), LAMBDA k :
                 IF Symbolp(x) THEN Ret(Swrite1(k, stream, k.v), NIL)
                 ELSE Long(k, k.v, LAMBDA n :
                          SwriteAll(k, stream, table, SX!FlattenSeq([j \in 1..n |-> Tail(Data(k, x))]))))
      [] OTHER -> Swrite1(m, stream, x)
=============================================================================
