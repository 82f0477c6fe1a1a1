------------------------------- MODULE LispMC -------------------------------
(***************************************************************************)
(* Programs for the evaluator: expressions made of a context and what      *)
(* stands in its holes, each defined once and evaluated twice; loops by    *)
(* tail calls; sessions that fail and go on.                               *)
(***************************************************************************)
EXTENDS Session
LOCAL SX == INSTANCE SequencesExt

Core == INSTANCE Meaning

-----------------------------------------------------------------------------
(* Expressions over x and y, put where x and y are bound *)

Leaves == {Core!Num(1), Core!Nil, Core!Var("x"), Core!Var("y")}
Small == Leaves
         \union {Core!Lam(<<"x">>, a) : a \in Leaves}
         \union {Core!Assign("x", a) : a \in Leaves} \union {Core!Assign("y", a) : a \in Leaves}
         \union {Core!Throw("a", a) : a \in Leaves}
         \union {Core!Add(a, Core!Num(1)) : a \in Leaves}
         \union {Core!App(a, <<Core!Num(1)>>) : a \in Leaves}
         \union {Core!Catch("errobj", Core!App(a, <<Core!Var("y")>>)) : a \in Leaves}

X == Core!Var("x")
Y == Core!Var("y")
One == Core!Num(1)
Contexts(a, b) ==
    { (* two names at once, then an assignment seen by what follows *)
      Core!Let("let", <<<<"x", One>>, <<"y", Core!Nil>>>>, Core!Seq2("begin", a, b)),
      (* a function that keeps its x when it is called below another one *)
      Core!Let("let", <<<<"x", Core!Num(5)>>>>,
          Core!Let("let", <<<<"y", Core!Lam(<<"z">>, Core!Assign("x", X))>>>>,
              Core!Let("let", <<<<"f", Core!Lam(<<"y">>, b)>>>>,
                  Core!Let("let", <<<<"x", a>>>>, Core!Add(X, Core!App(Core!Var("f"), <<X>>)))))),
      (* frames inside each other *)
      Core!Let("let", <<<<"x", One>>, <<"y", Core!Nil>>>>,
          Core!Catch("a", Core!Add(Core!Catch("b", a), Core!Catch("errobj", Core!Seq2("prog1", b, Core!Throw("b", Y)))))),
      Core!Let("let", <<<<"x", One>>, <<"y", Core!Num(2)>>>>,
          Core!Seq2("or", Core!Catch("a", Core!Seq2("and", a, Core!Throw("a", b))), Y)),
      (* each name of let* sees the one before *)
      Core!Let("let*", <<<<"x", One>>, <<"y", Core!Add(X, X)>>, <<"x", a>>>>, Core!If(b, X, Y)),
      (* a function that calls itself in the last place *)
      Core!Let("let", <<<<"x", One>>>>,
          Core!Let("letrec", <<<<"f", Core!Lam(<<"y">>, Core!If(Y, a, Core!Seq2("begin", b, Core!App(Core!Var("f"), <<One>>))))>>>>,
              Core!App(Core!Var("f"), <<Core!Nil>>))) }
Plain == UNION {Contexts(a, b) : a \in Leaves, b \in Leaves}
Second == Leaves \union {Core!Lam(<<"x">>, Y), Core!Assign("x", Y), Core!Assign("y", X), Core!Throw("a", X),
                         Core!Add(X, One), Core!App(Y, <<One>>), Core!Catch("errobj", Core!App(X, <<Y>>))}
Expressions == UNION {Contexts(a, b) : a \in Small, b \in Second}

Define(e) == [kind |-> "define", e |-> e, text |-> "(define program '" \o Core!Text(e) \o ")"]
Gc == [kind |-> "gc"]
Rerun(e) == [kind |-> "program", e |-> e, text |-> "(eval program nil)"]

-----------------------------------------------------------------------------
(* Sessions: what may come first, and what may follow *)

Quiet(text) == [kind |-> "quiet", text |-> text]

(* Forms that fail, at the top level or in a frame: in a call without end, *)
(* in the reader, in the middle of their arguments.                        *)
Spoilers == {Quiet(text) : text \in {"(*throw 'nowhere 1)", "(list 1 (*catch 'b (car 1)) 2)", "(+ 1 2)) (", 
                                     "(define (g n) (+ 1 (g n))) (g 1)", "(*catch 'a (*catch 'errobj (g 1)) (*throw 'a 2))"}}
AfterSpoiler == UNION {Contexts(a, Core!Throw("a", X)) : a \in {Core!Lam(<<"x">>, Y), Core!Assign("x", Y)}}

(* A loop in the last place of each form that has one. *)
Loops == {[kind |-> "loop", text |-> "(define (f n) " \o body \o ") (f 16)"] : body \in
             {"(if (= n 0) 'end (f (- n 1)))", "(cond ((= n 0) 'end) (t (f (- n 1))))", "(or (and (= n 0) 'end) (f (- n 1)))",
              "(let ((k (- n 1))) (begin 1 (if (< k 0) 'end (f k))))", "(cond ((> n 0) 1 (f (- n 1))) ((and t 'end)))"}}

(* Data of every kind that has a notation. *)
Atoms == {"7", "-3", "sym", "\"\"", "\"a\\\"b\"", "\"\\t\\n\\\\r\"", "()"}
Flat == Atoms \union {"'" \o a : a \in Atoms}
        \union UNION {{"(" \o a \o " " \o b \o ")", "(" \o a \o " . " \o b \o ")", "#(" \o a \o " " \o b \o ")"} : a, b \in Atoms}
Inner == Atoms \union {"'sym", "(7 . sym)", "#(7 ())", "(() \"\")"}
Data2 == Flat \union {"(" \o d \o " . (sym . " \o d \o "))" : d \in Inner} \union {"#(" \o d \o " #(7))" : d \in Inner}
Datum(text) == [kind |-> "datum", text |-> "'" \o text]

(* Strings of a comma, a letter and the byte 255, of a blank and a plus,   *)
(* or of what HTML gives a meaning.                                        *)
SeqsUpTo(S, n) == UNION {[1..k -> S] : k \in 0..n}
Literal(bytes) == SX!FoldLeft(LAMBDA t, b : t \o (CASE b = 255 -> "\\0377" [] b = 34 -> "\\\"" [] OTHER -> Chr(b)), "", bytes)
Marked == SeqsUpTo({34, 38, 62}, 2) \union {<<60, 97, 62>>, <<38, 103, 116, 59>>, <<38, 97, 109, 112, 59>>}
Coded(bytes) == [kind |-> "coded", text |-> "\"" \o Literal(bytes) \o "\""]

SampleNumbers == {0, 1, 255, 4095, 16877, 33261, 65535, 68169600, 951868799, 951868800, 1078012799, 2147483647}
Number(n) == [kind |-> "number", n |-> n, text |-> ToString(n)]

(* A file, read by lines or by tokens when it is there. *)
FileOf(bytes) == [kind |-> "file", bytes |-> bytes, text |-> "()"]
ByteFiles == {FileOf(b) : b \in SeqsUpTo({0, 10, 97}, 5) \union SeqsUpTo({32, 60, 61, 97}, 5)}

(* A text digested in pieces. *)
Digest == [kind |-> "digest", text |-> "(define c (md5-init))"]
Filler == "The digest of a text is the same however it comes, in one or more"
Piece(text) == [kind |-> "piece", arg |-> text, text |-> "(md5-update c \"" \o Filler \o "\" " \o ToString(Len(text)) \o ")"]
Pieces2 == {Piece(SubSeq(Filler, 1, n)) : n \in {1, 8, 55, 64}}
Final == [kind |-> "final", text |-> "(array->hexstr (md5-final c))"]

ListText(s) == "(" \o SX!FoldLeft(LAMBDA t, n : t \o " " \o ToString(n), "", s) \o ")"
Sorting(s) == [kind |-> "sort", items |-> s, text |-> "(qsort '" \o ListText(s) \o " < nil)"]

Table == [kind |-> "table", text |-> "(define h (cons-array 2 'lisp))"]
TableKeys == {"'a", "1", "\"a\"", "'(1 . a)"}
Hsets == {[kind |-> "hset", key |-> k, value |-> v, text |-> "(hset h " \o k \o " " \o v \o ")"] : k \in TableKeys, v \in {"3", "4"}}

Buffer == [kind |-> "buffer", text |-> "(define s (cons-array 3 'string))"]
Stores == {[kind |-> "strcpy", arg |-> a, text |-> "(strcpy s \"" \o a \o "\")"] : a \in {"", "ab", "abc", "abcd"}}
          \union {[kind |-> "strcat", arg |-> a, text |-> "(strcat s \"" \o a \o "\")"] : a \in {"c", "cd"}}
          \union {[kind |-> "clear", text |-> "(aset s 0 0)"], [kind |-> "double", text |-> "(strcat s s)"]}
          \union {[kind |-> "print", arg |-> a, text |-> "(print-to-string '" \o a \o " s nil)"] : a \in {"abc", "abcd"}}

Traceable == [kind |-> "traceable", text |-> "(define f (let ((k 'kept)) (lambda (n) (if (= n 0) k (f (- n 1))))))"]
Traces == {[kind |-> "trace", text |-> "(trace f)"], [kind |-> "untrace", text |-> "(untrace f)"],
           [kind |-> "call", text |-> "(let ((k 'shadow)) (f 2))"], Quiet("(*catch 'errobj (mapcar f '(1)))")}

(* Libraries: a loads b and may fail after that; c loads itself. *)
Libraries == [kind |-> "libraries", text |-> "(begin (define n 0) (define k 0) (define broken ()) "
    \o "(save-forms \"a\" '((set! n (+ n 1)) (require \"b\") (if broken (car 1)))) "
    \o "(save-forms \"b\" '((set! k (+ k 1)))) (save-forms \"c\" '((require \"c\"))))"]
Requires == {[kind |-> "require", file |-> f, text |-> "(require \"" \o f \o "\")"] : f \in {"a", "b", "c"}}
            \union {[kind |-> "break", broken |-> b, text |-> "(set! broken " \o (IF b THEN "t" ELSE "nil") \o ")"] : b \in BOOLEAN}

Save(forms, how, ok, text) == [kind |-> "save", forms |-> forms, append |-> how = "'a", ok |-> ok,
                               text |-> "(" \o text \o " \"a\" '" \o forms \o " " \o how \o ")"]
Saves == {Save("(1 (b))", "nil", TRUE, "save-forms"), Save("(\"c\")", "'a", TRUE, "save-forms"),
          Save("(3 . 4)", "nil", FALSE, "save-forms"), Save("(5 . 6)", "'a", FALSE, "save-forms")}

(* Scripts of up to three forms, and pieces that are none. *)
Statements == {"(define x 1)", "(set! x (+ x x))", "(print x)", "(car 1)", "(*throw 'errobj 3)", "(quit)", "; x", "(", ")",
               "(define (f n) (if (= n 0) x (f (- n 1))))", "(f 2)", "'(a\n\\nb)"}
ScriptOf(s) == [kind |-> "script", lines |-> s, text |-> SX!FoldLeft(LAMBDA t, l : t \o l \o "\n", "", s)]
Scripts == {ScriptOf(s) : s \in SeqsUpTo(Statements, 3)}

(* Commands of up to three arguments, for the command siod or one that     *)
(* holds a script.                                                         *)
CommandFiles == ("a" :> "(define x 1) (define (main) (set! x (* x 2)))\n") @@ ("q\"" :> "; note\n(set! x (+ x 100))\n")
                @@ ("own" :> "junk #!/siod -m1,-v01\n; note\n(define x 7)\n(define (main) (car x))")
CommandBytes == [name \in DOMAIN CommandFiles |-> Bytes(CommandFiles[name])]
Arguments == {"a", "q\"", "(set! x (+ x 5)) ignored", "(begin (set! x 3) (car x))", "repl", "-m1", "-m2", "-n70,-m3", "-iq\""}
CommandOf(name, args) == [kind |-> "command", files |-> CommandBytes, stdin |-> "(set! x (* x 3)) (car x) (set! y x)", name |-> name, args |-> args,
                          argv |-> <<Bytes(name)>> \o [j \in DOMAIN args |-> Bytes(args[j])]]
Commands == {CommandOf("siod", s) : s \in SeqsUpTo(Arguments, 3)} \union {CommandOf("own", s) : s \in SeqsUpTo(Arguments, 1)}

(* A program that gives two texts to repl_c_string, in a buffer of eight.  *)
EmbeddedTexts == {"(define x 'abcdefg)", "(define x \"abcdef\")", "(list x)", "x", "", "(car 1)", "(quit)"}
Embedded == {[kind |-> "embedded", texts |-> s, size |-> 8] : s \in SeqsUpTo(EmbeddedTexts, 2) \ {<<>>}}

Openings == {Libraries} \union Commands \union Embedded \union Saves \union Scripts \union Spoilers \union Loops \union {Table, Buffer, Traceable} \union {Define(e) : e \in Expressions}
            \union {Datum(t) : t \in Data2} \union {Coded(b) : b \in SeqsUpTo({44, 97, 255}, 4) \union SeqsUpTo({32, 37, 43, 97}, 3) \union Marked}
            \union {Number(n) : n \in SampleNumbers} \union ByteFiles \union {Digest}
            \union {Sorting(s) : s \in SeqsUpTo(1..3, 4)}
Copied == {Libraries} \union Saves \union Spoilers \union {Table, Traceable} \union {Define(e) : e \in Plain}

(* A collection at most once, anywhere in the longer sessions. *)
Once(given) == IF \E j \in DOMAIN given : given[j].kind = "gc" THEN {} ELSE {Gc}
Follow(given) ==
    LET kind == given[1].kind
        forms == SelectSeq(given, LAMBDA job : job.kind # "gc")
        last == forms[Len(forms)]
    IN  CASE kind = "quiet" /\ last.kind = "quiet" -> {Define(e) : e \in AfterSpoiler} \union (IF Len(given) = 1 THEN Spoilers ELSE {})
          [] last.kind = "define" -> {Rerun(last.e)} \union (IF last.e \in Plain THEN Once(given) ELSE {})
          [] last.kind = "program" /\ forms[Len(forms) - 1].kind = "define" -> {Rerun(last.e)}
          [] kind = "digest" /\ last.kind # "final" -> {Final} \union
                 (IF Len(given) = 1 \/ (Len(given) <= 3 /\ given[2] = Piece(SubSeq(Filler, 1, 64))) THEN Pieces2
                  ELSE IF Len(given) = 2 THEN {Piece(SubSeq(Filler, 1, n)) : n \in {1, 8}} ELSE {})
          [] kind = "table" /\ Len(given) < 4 -> Hsets \union Once(given)
          [] kind = "libraries" /\ Len(given) < 4 -> Requires \union Once(given)
          [] kind = "save" /\ Len(given) < 4 -> Saves \union Once(given)
          [] kind = "buffer" /\ Len(given) < 4 -> Stores
          [] kind = "traceable" /\ Len(given) < 5 -> Traces \union Once(given)
          [] OTHER -> {}
(* The order of evaluation matters to the primitives with three arguments, *)
(* the seed to qsort.                                                      *)
Sessions(machine, given) ==
    CASE given # <<>> -> Follow(given)
      [] machine.copying -> IF machine.rand = 1 /\ machine.fromRight THEN Copied ELSE {}
      [] machine.rand = 1 /\ machine.fromRight -> Openings
      [] machine.rand = 1 -> {Table, Buffer}
      [] OTHER -> {Sorting(s) : s \in SeqsUpTo(1..3, 4)}
TraceSessions(machine, given) == IF given = <<>> THEN {Traceable} ELSE Follow(given)

-----------------------------------------------------------------------------
(* What the form means is what the evaluator answers, the first time and   *)
(* again, when the macros have rewritten the form, and whatever has failed *)
(* before.                                                                 *)
AnswersMean ==
    Answered /\ Job.kind = "program" =>
        LET meant == Core!Meaning(Job.e) IN m.beyond = {} /\ Failed = meant.failed /\ Seen(Result) = meant.seen

(* A form that has returned has taken all its frames off catch_framep and  *)
(* has left all its calls of leval, however many longjmps it took.         *)
Unwound == m.esc = Running => m.catch = <<>> /\ m.depth = 0

(* A loop by calls in the last place needs no stack, whichever of the      *)
(* forms that end in a `goto loop' it goes through.                        *)
LoopsStayFlat == Answered /\ Job.kind = "loop" => ~Failed /\ Seen(Result) = "end"

(* The reader makes of what the printer prints an object equal to the      *)
(* first.                                                                  *)
ReadAgain(k) == Readtl([k EXCEPT !.pos = 1], Printed(k, k.v))
ReadsWhatItPrints(after, job) ==
    job.kind = "datum" => LET k == ReadAgain(after) IN k.esc = Running /\ Equal(k, k.v, after.v) /\ Printed(k, k.v) = Printed(after, after.v)

(* Objects that equal? takes for the same have the same hash, in tables of *)
(* every size; without it href would look in the wrong bucket.             *)
EqualsHashAlike(after, job) ==
    job.kind = "datum" =>
        LET k == ReadAgain(after)
            all == {Ref(j) : j \in DOMAIN k.cell}
        IN  \A x, y \in all : Equal(k, x, y) => \A n \in {2, 7} : Sxhash(k, x, n) = Sxhash(k, y, n)

(* What a reader of HTML makes of a text.                                  *)
Entity == ("&lt;" :> 60) @@ ("&gt;" :> 62) @@ ("&amp;" :> 38) @@ ("&quot;" :> 34)
RECURSIVE FromHtml(_)
FromHtml(s) ==
    LET names == {n \in DOMAIN Entity : SX!IsPrefix(Bytes(n), s)} IN
    CASE s = <<>> -> <<>>
      [] names = {} -> <<Head(s)>> \o FromHtml(Tail(s))
      [] OTHER -> LET n == CHOOSE n \in names : TRUE IN <<Entity[n]>> \o FromHtml(SubSeq(s, Len(n) + 1, Len(s)))

(* base64decode, hexstr->bytes and url-decode give back what was encoded,  *)
(* and unbreakupstr the text that strbreakup took apart, unless it ended   *)
(* with the marker; html-encode gives a text without marks that is read as *)
(* the one it was given, entities in it included.                          *)
CodecsInvert(after, job) ==
    job.kind = "coded" =>
        LET text == TextOf(after, after.v)
            comma == Strcons(after, <<44>>)
            packed == Base64encode(after, after.v)   unpacked == Base64decode(packed, packed.v)
            hex == Hexstr(after, after.v)            bytes == Hexstr2bytes(hex, hex.v)
            pieces == Lstrbreakup(comma, after.v, comma.v)
            whole == Lstrunbreakup(pieces, pieces.v, comma.v)
            url == UrlEncode(after, after.v)         plain == UrlDecode(url, url.v)
            page == HtmlEncode(after, after.v)       marks == TextOf(page, page.v)
        IN  /\ TextOf(unpacked, unpacked.v) = text
            /\ TextOf(plain, plain.v) = text
            /\ FromHtml(marks) = text /\ \A j \in DOMAIN marks : marks[j] \notin {34, 60, 62}
            /\ Cell(bytes, bytes.v).data = text
            /\ (text = <<>> \/ text[Len(text)] # 44) => TextOf(whole, whole.v) = text

(* The number that digits of a text write, and the time that a date in the *)
(* form "Sun, 06 Nov 1994 08:49:37 GMT" or "19941106084937" names.         *)
NumberIn(s, from, to) == SX!FoldLeft(LAMBDA n, b : (10 * n) + (b - 48), 0, SubSeq(s, from, to))
Months == [j \in 1..12 |-> Bytes(SubSeq("JanFebMarAprMayJunJulAugSepOctNovDec", (3 * j) - 2, 3 * j))]
TimeOf(year, mon, mday, hour, min, sec) ==
    Mktime([year |-> year - 1900, mon |-> mon - 1, mday |-> mday, hour |-> hour, min |-> min, sec |-> sec])
FromHttp(s) == TimeOf(NumberIn(s, 13, 16), CHOOSE j \in 1..12 : Months[j] = SubSeq(s, 9, 11), NumberIn(s, 6, 7),
                      NumberIn(s, 18, 19), NumberIn(s, 21, 22), NumberIn(s, 24, 25))
FromStrtime(s) == TimeOf(NumberIn(s, 1, 4), NumberIn(s, 5, 6), NumberIn(s, 7, 8),
                         NumberIn(s, 9, 10), NumberIn(s, 11, 12), NumberIn(s, 13, 14))

(* A number comes back from the date, from what http-date and              *)
(* unix-time->strtime write of it, from the options of a file mode (which  *)
(* lose the sticky bit, and fail when they name the kind of the file, as   *)
(* encode-file-mode does not know it), from its bytes, and from its        *)
(* quotient and remainder.                                                 *)
NumbersInvert(after, job) ==
    job.kind = "number" =>
        LET date == Lgmtime(after, after.v)          time == Lmktime(date, date.v)
            http == HttpDate(after, after.v)         strtime == Utime2str(after, after.v)
            names == DecodeStMode(after, after.v)    mode == EncodeStMode(names, names.v)
            kind == (job.n \div 4096) % 16
            bytes == New(after, [t |-> "tc_byte_array", data |-> [j \in 1..4 |-> (job.n \div (256 ^ (j - 1))) % 256]])
            At16(j) == Datref(bytes, bytes.v, [t |-> "tc_flonum", n |-> 6], [t |-> "tc_flonum", n |-> j])
            Divided(b) == LET by == Flocons(after, b)
                              rest == Lfmod(by, after.v, by.v)
                              exact == Difference(rest, after.v, rest.v)
                              times == Quotient(exact, exact.v, by.v)
                              product == Ltimes(times, times.v, by.v)
                              whole == Plus(product, product.v, rest.v)
                          IN  whole.beyond = {} /\ FLONM(rest, rest.v) < FLONM(Lllabs(by, by.v), Lllabs(by, by.v).v) /\ FLONM(whole, whole.v) = job.n
            at32 == Datref(bytes, bytes.v, [t |-> "tc_flonum", n |-> 9], [t |-> "tc_flonum", n |-> 0])
        IN  /\ FLONM(time, time.v) = job.n
            /\ FromHttp(TextOf(http, http.v)) = job.n /\ FromStrtime(TextOf(strtime, strtime.v)) = job.n
            /\ IF kind \in {FileKind[k] : k \in DOMAIN FileKind} THEN mode.esc = TopLevel ELSE FLONM(mode, mode.v) = (job.n % 512) + (((job.n % 4096) \div 1024) * 1024)
            /\ FLONM(at32, at32.v) = job.n
            /\ Divided(2) /\ Divided(-3) /\ Divided(7)
            /\ job.n = FLONM(At16(0), At16(0).v) + (65536 * FLONM(At16(1), At16(1).v))

(* readline gives the lines of a file one after the other, the last one    *)
(* too when no newline ends it; but a line that fills the buffer comes in  *)
(* pieces, and what follows a zero in one is lost.                         *)
Opened1(k, bytes) == LET f == Strcons([k EXCEPT !.files = [name \in {"f"} |-> bytes]], Bytes("f")) IN FopenL(f, f.v, NIL)
RECURSIVE AllLines(_, _)
AllLines(k, f) == LET r == Readline(k, f) IN IF r.v = NIL THEN <<>> ELSE <<TextOf(r, r.v)>> \o AllLines(r, f)
SplitLines(bytes) ==
    LET cut == SX!FoldLeft(LAMBDA s, b :
                   LET line == IF b = 10 THEN s.line ELSE Append(s.line, b) IN
                   IF b = 10 \/ Len(line) = GetsN - 1 THEN [done |-> Append(s.done, line), line |-> <<>>] ELSE [s EXCEPT !.line = line],
               [done |-> <<>>, line |-> <<>>], bytes)
    IN  IF cut.line = <<>> THEN cut.done ELSE Append(cut.done, cut.line)
LinesOfFile(after, job) ==
    job.kind = "file" =>
        LET f == Opened1(after, job.bytes)
            lines == SplitLines(job.bytes)
        IN  AllLines(f, f.v) = [j \in DOMAIN lines |-> Until0(lines[j])]

(* pratt_read_token leaves no byte of a file out but blanks: a word as     *)
(* long as it is, an operator as long as one is made of what follows, all  *)
(* else for itself; the first word that its buffer cannot hold fails.      *)
TokenBuffer == 2
Kinds2 == (32 :> Whitespace) @@ (97 :> RegularByte)
RECURSIVE AllTokens(_, _, _, _)
AllTokens(k, buffer, chars, f) ==
    LET r == PrattReadToken(k, buffer, chars, f) IN
    CASE r.esc = TopLevel -> <<"token_overflow">>
      [] r.v = EofVal -> <<>>
      [] OTHER -> <<Name(Printed(r, r.v))>> \o AllTokens(r, buffer, chars, f)
RECURSIVE SplitTokens(_)
SplitTokens(bytes) ==
    LET word == Spn(bytes, LAMBDA b : b = 97)
        From(j) == SplitTokens(SubSeq(bytes, j, Len(bytes)))
    IN  CASE bytes = <<>> -> <<>>
          [] word > TokenBuffer -> <<"token_overflow">>
          [] word > 0 -> <<Name(SubSeq(bytes, 1, word))>> \o From(word + 1)
          [] bytes[1] = 32 -> From(2)
          [] Len(bytes) > 1 /\ bytes[1] = 60 /\ bytes[2] = 61 -> <<"<=">> \o From(3)
          [] OTHER -> <<Chr(bytes[1])>> \o From(2)
TokensKeepBytes(after, job) ==
    job.kind = "file" /\ (\A j \in DOMAIN job.bytes : job.bytes[j] \in {32, 60, 61, 97}) =>
        LET f == Opened1(after, job.bytes)
            buffer == NewArray(f, "tc_string", TokenBuffer, 32)
            equals == List(buffer, <<[t |-> "tc_flonum", n |-> 61]>>)
            operators == List(equals, <<equals.v>>)
            chars == New(operators, [t |-> "tc_lisp_array", data |->
                [j \in 1..128 |-> CASE j - 1 = 60 -> operators.v [] j - 1 \in DOMAIN Kinds2 -> Kinds2[j - 1] [] OTHER -> NIL]])
        IN  AllTokens(chars, buffer.v, chars.v, f.v) = SplitTokens(job.bytes)

(* The digest of a text is that of the text padded as a whole, in whatever *)
(* pieces it has come.                                                     *)
Digested(jobs) == SX!FoldLeft(LAMBDA t, job : IF job.kind = "piece" THEN t \o job.arg ELSE t, "", jobs)
PaddedWhole(text) ==
    LET fill == (119 - (Len(text) % 64)) % 64
        bits == Len(text) * 8
    IN  Bytes(text) \o <<128>> \o [j \in 1..fill |-> 0] \o <<bits % 256, bits \div 256, 0, 0, 0, 0, 0, 0>>
DigestOfPieces(after, jobs) ==
    jobs[Len(jobs)].kind = "final" =>
        LET whole == PaddedWhole(Digested(jobs))
            state == SX!FoldLeft(LAMBDA s, j : MD5Transform(s, SubSeq(whole, (64 * j) - 63, 64 * j)), MD5Init(<<>>).state,
                                 [j \in 1..(Len(whole) \div 64) |-> j])
            hex == New(after, [t |-> "tc_byte_array", data |-> Encode(state)])
        IN  TextOf(after, after.v) = TextOf(Hexstr(hex, hex.v), Hexstr(hex, hex.v).v)

(* qsort returns the elements of its list in order, whatever rand() gives  *)
(* for the marks.                                                          *)
QsortSorts ==
    Answered /\ Job.kind = "sort" =>
        LET numbers == [j \in DOMAIN Items(m, m.v) |-> FLONM(m, Items(m, m.v)[j])]
        IN  /\ ~Failed
            /\ \A j, k \in DOMAIN numbers : j < k => numbers[j] <= numbers[k]
            /\ \A n \in 1..3 : Len(SelectSeq(numbers, LAMBDA e : e = n)) = Len(SelectSeq(Job.items, LAMBDA e : e = n))

(* A key of a hash table has the value of the last hset of an equal key,   *)
(* and one entry; a key that was never set has none.                       *)
Writes2(jobs, key) == {j \in DOMAIN jobs : jobs[j].kind = "hset" /\ jobs[j].key = key}
LastWriteWins(after, jobs) ==
    jobs[1].kind = "table" =>
        /\ \A key \in TableKeys :
               LET k == Turn(Given(after, Bytes("(href h " \o key \o ")")))
               IN  Name(Printed(k, k.v)) = IF Writes2(jobs, key) = {} THEN "()" ELSE jobs[Newest(Writes2(jobs, key))].value
        /\ LET buckets == Cell(after, Vcell(after, "h")).data
           IN  Len(Items(after, buckets[1])) + Len(Items(after, buckets[2])) = Cardinality({key \in TableKeys : Writes2(jobs, key) # {}})

(* strcpy, strcat and print-to-string leave in the string what they were   *)
(* told to when it fits, with its final zero; strcpy and strcat leave it   *)
(* alone when it does not, print-to-string as much as fits.                *)
Fits(old, new) == IF Len(new) <= 3 THEN new ELSE old
Stored(jobs) == SX!FoldLeft(LAMBDA old, job :
    CASE job.kind = "buffer" -> "   "
      [] job.kind = "strcpy" -> Fits(old, job.arg)
      [] job.kind = "strcat" -> Fits(old, old \o job.arg)
      [] job.kind = "double" -> Fits(old, old \o old)
      [] job.kind = "clear" -> ""
      [] job.kind = "print" -> SubSeq(job.arg, 1, 3), "", jobs)
TextAsStored(after, jobs) ==
    jobs[1].kind = "buffer" =>
        LET s == Vcell(after, "s")
        IN  after.beyond = {} /\ Name(TextOf(after, s)) = Stored(jobs) /\ Cell(after, s).data[4] = 0

(* A traced closure answers as it does untraced, in the environment where  *)
(* it was made, and reports each call and each return.  But marking and    *)
(* sweeping while it is traced frees that environment.                     *)
Changes(upTo) == {j \in 1..upTo : past[j].kind \in {"trace", "untrace"}}
TracedAt(k) == Changes(k) # {} /\ past[Newest(Changes(k))].kind = "trace"
Lines(mark) == Cardinality({j \in 1..(Len(m.out) - 1) : <<m.out[j], m.out[j + 1]>> = Bytes(mark)})
Swept == \E j \in DOMAIN past : past[j].kind = "gc" /\ TracedAt(j)
AnswersAsUntraced == ~Failed /\ Seen(Result) = "kept"
TracedAnswers ==
    Answered /\ Job.kind = "call" =>
        IF Swept THEN Failed /\ Lines("<-") = 0
        ELSE AnswersAsUntraced /\ Lines("->") = Lines("<-") /\ Lines("<-") = (IF TracedAt(Len(past)) THEN 3 ELSE 0)

(* What siod.html:1903 says of a user_mark: that it may return a part of   *)
(* its object for gc_mark to mark.  Then a traced closure would keep its   *)
(* environment whenever the collector runs.                                *)
TracedSurvives == Answered /\ Job.kind = "call" => AnswersAsUntraced

(* The copying collector leaves the objects as they were, equal and shared *)
(* as before, at new places, and nothing else: it moves exactly what the   *)
(* symbols lead to, each cell once.                                        *)
CopyKeepsTheGraph ==
    Answered /\ Job.kind \in {"datum", "hset", "trace"} =>
        LET twice == List(m, <<m.v, m.v>>)
            k == SetVcell(twice, "twice", twice.v)
        IN  /\ IsHeap(k.cell)
            /\ AreRegisters(k.cell, Registers(k))
            /\ KeepsTheGraph(k.cell, Registers(k), Newspace(k.cell, Registers(k)))

(* load gives back what save-forms wrote and fast-load what fast-save      *)
(* wrote, with and without its table of symbols, and load that too when    *)
(* the comment asks for the parser.  But load takes a first line that      *)
(* begins with # for a comment.                                            *)
Loads(k, datum, Saved(_, _, _), Loaded(_, _)) ==
    LET f == Strcons(k, Bytes("f"))
        l == List(f, <<datum, Sym("between"), datum>>)
        r == Loaded(Saved(l, f.v, l.v), f.v)
    IN  r.esc = Running /\ r.beyond = {} /\ Opened(r) = {} /\ Equal(r, r.v, l.v)
SavedReadsBack(after, job) ==
    job.kind = "datum" =>
        LET parser == Strcons(after, Bytes("#parser:fasl\n"))
            Fasl(k, f, l) == FastSave(k, f, l, NIL, NIL, NIL)
        IN  /\ Printed(after, after.v)[1] # Hash =>
                  Loads(after, after.v, LAMBDA k, f, l : SaveForms(k, f, l, NIL), LAMBDA k, f : Load(k, f, SymT, NIL))
            /\ Loads(after, after.v, LAMBDA k, f, l : FastSave(k, f, l, NIL, NIL, NIL), LAMBDA k, f : FastLoad(k, f, SymT))
            /\ Loads(after, after.v, LAMBDA k, f, l : FastSave(k, f, l, SymT, NIL, NIL), LAMBDA k, f : FastLoad(k, f, SymT))
            /\ Loads(parser, after.v, LAMBDA k, f, l : FastSave(k, f, l, NIL, parser.v, NIL), LAMBDA k, f : Load(k, f, SymT, NIL))

(* require runs a file until it has run to its end once, and never after   *)
(* that; a file that asks for itself fails; each load that failed, and no  *)
(* other, has left its stream open, until the collector closes it.         *)
Libs == SX!FoldLeft(LAMBDA r, job :
    CASE job.kind = "libraries" -> [n |-> 0, k |-> 0, broken |-> FALSE, a |-> FALSE, b |-> FALSE, failures |-> 0, failed |-> FALSE]
      [] job.kind = "gc" -> r
      [] job.kind = "break" -> [r EXCEPT !.broken = job.broken, !.failed = FALSE]
      [] job.file = "a" /\ ~r.a -> [r EXCEPT !.n = @ + 1, !.k = IF r.b THEN @ ELSE @ + 1, !.b = TRUE, !.a = ~r.broken,
                                             !.failed = r.broken, !.failures = IF r.broken THEN @ + 1 ELSE @]
      [] job.file = "b" /\ ~r.b -> [r EXCEPT !.k = @ + 1, !.b = TRUE, !.failed = FALSE]
      [] job.file = "c" -> [r EXCEPT !.failed = TRUE, !.failures = @ + StackLimit - 1]
      [] OTHER -> [r EXCEPT !.failed = FALSE], [n |-> 0], past)
RequiredOnce ==
    Answered /\ past[1].kind = "libraries" =>
        /\ FLONM(m, m.vcell["n"]) = Libs.n /\ FLONM(m, m.vcell["k"]) = Libs.k
        /\ Failed = Libs.failed
        /\ Cardinality(Opened(m)) <= Libs.failures
        /\ Job.kind = "gc" => Opened(m) = {}

(* As long as no save has failed, a file that was saved has all that was   *)
(* saved and its stream is closed.  What a save that fails has written     *)
(* comes when the collector closes its stream, over what was saved since.  *)
SavedText == SX!FoldLeft(LAMBDA text, job : IF job.kind = "gc" THEN text ELSE (IF job.append THEN text ELSE "") \o
    (CASE job.forms = "(1 (b))" -> "1\n(b)\n" [] job.forms = "(\"c\")" -> "\"c\"\n" [] OTHER -> ""), "", past)
SavedStays ==
    Answered /\ past[1].kind = "save" =>
        /\ Job.kind = "save" => Failed = ~Job.ok
        /\ (\A j \in DOMAIN past : past[j].kind = "save" => past[j].ok) => Name(m.files["a"]) = SavedText /\ Opened(m) = {}

(* A script does what its forms do when they are typed one after the other *)
(* up to the first that fails, and its exit status is 0 even then.  But    *)
(* one with a comment, or with a list left open, does nothing and its exit *)
(* status is 2; and what follows the parenthesis that closes the wrapper   *)
(* is left out, without a word.                                            *)
RECURSIVE Typed(_)
Typed(k) == LET n == Turn(k) IN IF n.v = NoForm \/ n.esc = TopLevel THEN n ELSE Typed(n)
Values(k) == [name \in DOMAIN k.vcell \ {"errobj"} |-> Name(Printed(k, k.vcell[name]))]
Count(lines, line) == Cardinality({j \in DOMAIN lines : lines[j] = line})
Balance(lines) == Count(lines, "(") - Count(lines, ")")
ScriptAsTyped(after, job) ==
    job.kind = "script" =>
        LET typed == Typed(Given(m, Bytes(job.text)))
            Prefix(j) == SubSeq(job.lines, 1, j)
            closing == {j \in DOMAIN job.lines : Balance(Prefix(j)) = -2}
        IN  CASE Count(job.lines, ")") = 0 /\ Count(job.lines, "; x") + Balance(job.lines) > 0 ->
                   after.status = 2 /\ Values(after) = Values(m)
              [] Count(job.lines, ")") + Count(job.lines, "(") = 0 /\ Count(job.lines, "; x") = 0 ->
                   after.status = 0 /\ Values(after) = Values(typed) /\ SX!IsPrefix(typed.out, after.out)
              [] closing # {} ->
                   LET j == CHOOSE j \in closing : \A k \in closing : j <= k
                   IN  Values(after) = Values(Served(Main([m EXCEPT !.files = [name \in {"script"} |-> Bytes(ScriptOf(Prefix(j)).text)]], "script")))
              [] OTHER -> TRUE

(* A command does what its forms and those of its files do when they are   *)
(* typed one after the other up to the first that fails, each file once;   *)
(* 2 is the status when one failed.  With -m1 main is called after that in *)
(* any case, and the status is that of main alone; with -m2 the same, but  *)
(* only the first two arguments are looked at.  A script that is its own   *)
(* command is a file like any other.                                       *)
FileText == [name \in DOMAIN CommandFiles |-> IF name = "own" THEN "(define x 7) (define (main) (car x))" ELSE CommandFiles[name]]
FirstForm(arg) == IF arg = "(set! x (+ x 5)) ignored" THEN "(set! x (+ x 5))" ELSE arg
Type2(k, text) == Typed(Given([k EXCEPT !.esc = Running], Bytes(text)))
RECURSIVE TypeOn(_)
TypeOn(k) == LET n == Typed(k) IN IF n.esc = TopLevel THEN TypeOn(n) ELSE n
TypeRepl(r, init) ==
    LET k == IF init THEN Type2(r.m, FileText["q\""]) ELSE r.m
    IN  [r EXCEPT !.m = TypeOn(Given([k EXCEPT !.esc = Running], Bytes(r.stdin))), !.stdin = ""]
TypeArgument(r, arg, init) ==
    LET file == arg \in DOMAIN FileText
        k == Type2(r.m, IF file THEN FileText[arg] ELSE FirstForm(arg))
        failed == k.esc = TopLevel
    IN  CASE r.failed \/ arg \in r.loaded -> r
          [] arg = "repl" -> TypeRepl(r, init)
          [] OTHER -> [r EXCEPT !.m = k, !.failed = failed, !.loaded = IF file /\ ~failed THEN @ \union {arg} ELSE @]
MainOf(arg) == CASE arg \in {"-m1", "-m1,-v01"} -> 1 [] arg = "-m2" -> 2 [] arg = "-n70,-m3" -> 3 [] OTHER -> 0
CommandAsTyped(after, job) ==
    job.kind = "command" =>
        LET given == (IF job.name = "own" THEN <<"-m1,-v01", "own">> ELSE <<>>) \o job.args
            mains == SelectSeq(given, LAMBDA arg : MainOf(arg) > 0)
            main == IF mains = <<>> THEN 0 ELSE MainOf(mains[Len(mains)])
            plain == SelectSeq(IF main >= 2 /\ Len(given) > 2 THEN SubSeq(given, 1, 2) ELSE given, LAMBDA arg : At(Bytes(arg), 1) # Dash)
            start == [m |-> m, stdin |-> job.stdin, failed |-> FALSE, loaded |-> {}]
            init == "-iq\"" \in SX!ToSet(given)
            alone == \A j \in DOMAIN given : At(Bytes(given[j]), 1) = Dash
            done == IF alone THEN TypeRepl(start, init)
                    ELSE SX!FoldLeft(LAMBDA r, arg : TypeArgument(r, arg, init), start, plain)
            last == IF main = 0 \/ alone THEN done ELSE LET k == Type2(done.m, "(main)") IN [done EXCEPT !.m = k, !.failed = k.esc = TopLevel]
            Shown(k) == [name \in DOMAIN k.vcell \intersect {"x", "y"} |-> Name(Printed(k, k.vcell[name]))]
        IN  after.status = (IF last.failed THEN 2 ELSE 0) /\ Shown(after) = Shown(last.m)

(* repl_c_string leaves in the buffer what the form in it prints when that *)
(* fits there with its final zero, and as much of it as fits, and a        *)
(* status of 2, when it does not; nothing when the form fails; and the     *)
(* next text is not hurt by what came before.                              *)
ReplyOf(k, size) == LET reply == Printed(k, k.v) IN SubSeq(reply, 1, IF Len(reply) < size THEN Len(reply) ELSE size - 1)
RepliesFit(after, job) ==
    job.kind = "embedded" =>
        LET typed == SX!FoldLeft(LAMBDA k, text : Turn(Given(k, Bytes(text))), m, job.texts)
            answered == typed.esc = Running /\ job.texts[Len(job.texts)] # ""
        IN  IF answered THEN Name(after.reply) = Name(ReplyOf(typed, job.size)) /\ after.status = (IF Len(Printed(typed, typed.v)) < job.size THEN 0 ELSE 2)
            ELSE after.reply = <<>> /\ after.status = 2
-----------------------------------------------------------------------------
(* What a form takes of the C stack and of catch_framep it gives back,     *)
(* and a loop takes no more of it the longer it runs.                      *)
StackReturned == Unwound /\ LoopsStayFlat

(* What is printed reads back, from a text as from a file of any kind.     *)
ReadsBack ==
    [][Answered' => \A after \in {m'}, job \in {Job'} : ReadsWhatItPrints(after, job) /\ SavedReadsBack(after, job)]_vars

(* Tables and strings remember what was put into them last: a table finds  *)
(* a key by equal?, so the hash must agree with it.                        *)
StoresRemember ==
    [][Answered' => \A after \in {m'}, jobs \in {past'} :
           EqualsHashAlike(after, jobs[Len(jobs)]) /\ LastWriteWins(after, jobs) /\ TextAsStored(after, jobs)]_vars

(* Decoding is the inverse of encoding, for texts and for numbers.         *)
CodingsInvert ==
    [][Answered' => \A after \in {m'}, job \in {Job'} : CodecsInvert(after, job) /\ NumbersInvert(after, job)]_vars

(* What goes through a buffer in pieces is the whole: the lines and the    *)
(* tokens of a file, the digest of a text.                                 *)
PiecesMakeTheWhole ==
    [][Answered' => \A after \in {m'}, jobs \in {past'} :
           LinesOfFile(after, jobs[Len(jobs)]) /\ TokensKeepBytes(after, jobs[Len(jobs)]) /\ DigestOfPieces(after, jobs)]_vars

(* A script, a command and a text from a program do what their forms do    *)
(* when they are typed, and say so in the exit status.                     *)
RunsAsTyped ==
    [][past = <<>> => \A after \in {m'}, job \in {Job'} :
           ScriptAsTyped(after, job) /\ CommandAsTyped(after, job) /\ RepliesFit(after, job)]_vars
=============================================================================
