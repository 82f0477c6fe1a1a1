---------------------------- MODULE Environments ----------------------------
(***************************************************************************)
(* What the evaluator of SIOD is made of and does not evaluate by itself:  *)
(* the primitives by kind, the values of the symbols, the environments,    *)
(* the macros of let, and the names of traced closures (src/siod/slib.c,   *)
(* src/siod/sliba.c, src/siod/trace.c).                                    *)
(***************************************************************************)
EXTENDS Libu, TLC

-----------------------------------------------------------------------------
(* The primitives by kind: init_subrs_1, init_subrs_a and init_trace, of   *)
(* which the ones that the model leaves out are missing.  From md5-init,   *)
(* url-encode, md5-update, pratt_read_token on they are those of the       *)
(* interpreter siod: init_slibu and, once loaded, init_parser_pratt.       *)

Subr0s == {"eof-val", "quit", "os-classification", "md5-init"}
Subr1s == {"car", "cdr", "abs", "copy-list", "pair?", "symbol?", "number?", "let-internal-macro", "let*-macro",
           "letrec-macro", "not", "null?", "reverse", "intern", "%%closure-code", "%%closure-env", "nreverse",
           "parse-number", "caar", "cadr", "cdar", "cddr", "caaar", "caadr", "cadar", "caddr", "cdaar", "cdadr",
           "cddar", "cdddr", "srand", "string-length", "string-dimension", "read-from-string", "length",
           "string-trim", "string-trim-left", "string-trim-right", "string-upcase", "string-downcase", "string?",
           "base64encode", "base64decode", "typeof", "array->hexstr", "hexstr->bytes", "bit-not", "butlast",
           "last", "rand", "read", "require", "fclose", "getc", "ftell", "fast-read", "fflush", "parser_read",
           "parser_fasl",
           "url-encode", "url-decode", "html-encode", "html-decode", "readline", "delete-file", "position-script",
           "encode-file-mode", "decode-file-mode", "encode-open-flags", "gmtime", "localtime", "mktime", "http-date",
           "unix-time->strtime", "md5-final", "trunc", "so-ext", "first", "rest", "sqrt", "exp", "log", "sin", "cos", "tan", "asin",
           "acos", "atan"}
Subr2s == {"cons", "set-car!", "set-cdr!", ">", "<", ">=", "<=", "eq?", "eqv?", "=", "assq", "delq", "print",
           "prin1", "eval", "apply", "*throw", "symbol-bound?", "symbol-value", "error", "env-lookup",
           "%%closure", "aref", "cons-array", "sxhash", "equal?", "href", "assoc", "assv", "make-list",
           "string->number", "string-search", "strcmp", "strcat", "strcpy", "strbreakup", "unbreakupstr",
           "string-lessp", "mapcar1", "subset", "append2", "bit-and", "bit-or", "bit-xor", "strspn", "strcspn",
           "ash", "get", "memq", "memv", "member", "nth", "nconc", "set-eval-history",
           "fopen", "ungetc", "putc", "puts", "fast-print", "fread", "fwrite", "fast-load", "parser_fasl_hook",
           "gets", "sdatref", "mkdatref", "datlength", "fmod", "pow", "__cgi-main"}
Subr2ns == {"+", "-", "*", "/", "min", "max"}
Subr3s == {"set-symbol-value!", "aset", "print-to-string", "hset", "substring", "lref-default", "larg-default",
           "lkey-default", "qsort", "mapcar2", "ass", "setprop", "putprop", "benchmark-funcall1", "benchmark-eval",
           "load", "save-forms", "fseek", "swrite",
           "md5-update", "datref", "pratt_read_token"}
Subr4s == {"number->string", "substring-equal?", "substring-equalcase?"}
Subr5s == {"fast-save"}
Lsubrs == {"symbolconc", "string-append", "bytes-append", "list", "writes", "mapcar", "append", "untrace",
           "benchmark-funcall2"}
Fsubrs == {"define", "lambda", "while", "set!", "*catch", "quote", "the-environment", "prog1", "trace"}
Msubrs == {"if", "begin", "or", "and", "cond", "let-internal"}

Kinds == ("tc_subr_0" :> Subr0s) @@ ("tc_subr_1" :> Subr1s) @@ ("tc_subr_2" :> Subr2s) @@ ("tc_subr_2n" :> Subr2ns)
         @@ ("tc_subr_3" :> Subr3s) @@ ("tc_subr_4" :> Subr4s) @@ ("tc_subr_5" :> Subr5s) @@ ("tc_lsubr" :> Lsubrs) @@ ("tc_fsubr" :> Fsubrs)
         @@ ("tc_msubr" :> Msubrs)
KindOf == [name \in UNION {Kinds[k] : k \in DOMAIN Kinds} |-> CHOOSE k \in DOMAIN Kinds : name \in Kinds[k]]

(* init_storage_1: the symbols with a value before any program has run. *)
Standard == ("t" :> SymT) @@ ("nil" :> NIL) @@ ("errobj" :> NIL) @@ ("let" :> Sym("let-internal-macro"))
            @@ ("let*" :> Sym("let*-macro")) @@ ("letrec" :> Sym("letrec-macro")) @@ ("*traced*" :> NIL)
            @@ ("*eval-history-ptr*" :> NIL) @@ [name \in Preloaded |-> SymT]
Boundp(m, name) == name \in DOMAIN m.vcell \union DOMAIN Standard \union DOMAIN KindOf
Subrcons(type, name) == [t |-> type, name |-> name]
Vcell(m, name) == CASE name \in DOMAIN m.vcell -> m.vcell[name]
                    [] name \in DOMAIN Standard -> Standard[name]
                    [] OTHER -> Subrcons(KindOf[name], name)

(* The machine that init_storage and init_subrs leave; cell 1 is eof_val. *)
Fresh(seed, fromRight, copying) ==
    [cell |-> <<[t |-> "tc_cons", car |-> Sym("eof"), cdr |-> NIL]>>, vcell |-> <<>>, catch |-> <<>>, out |-> <<>>,
     v |-> NIL, esc |-> Running, depth |-> 0, quit |-> FALSE, beyond |-> {}, pos |-> 1,
     rand |-> seed, fromRight |-> fromRight, copying |-> copying, file |-> FALSE, files |-> <<>>, status |-> -1, reply |-> <<>>,
     streams |-> <<Stream("stdin", "", <<>>)>>]

-----------------------------------------------------------------------------
(* Environments: a list of frames, each the pair of the names and values.  *)
(* A dotted tail takes the rest of the values, in a pair that is made at   *)
(* every lookup (ENVLOOKUP_TRICK).                                         *)

NewFrame(values, names, env) == Then(Cons(values, names, values.v), LAMBDA frame : Cons(frame, frame.v, env))
ExtendEnv(m, actuals, formals, env) ==
    IF Symbolp(formals) THEN Then(List(m, <<formals>>), LAMBDA names : NewFrame(List(names, <<actuals>>), names.v, env))
    ELSE NewFrame(Ret(m, actuals), formals, env)

RECURSIVE InFrame(_, _, _, _, _)
InFrame(m, var, frame, fl, al) ==
    CASE Consp(m, fl) /\ ~Consp(m, al) -> Err(m, "too few arguments", frame)
      [] Consp(m, fl) -> IF CAR(m, fl) = var THEN Ret(m, al) ELSE InFrame(m, var, frame, CDR(m, fl), CDR(m, al))
      [] fl = var -> Cons(m, al, NIL)
      [] OTHER -> Ret(m, NIL)

RECURSIVE Envlookup(_, _, _)
Envlookup(m, var, env) ==
    CASE env = NIL -> Ret(m, NIL)
      [] ~Consp(m, env) -> Err(m, "damaged env", env)
      [] ~Consp(m, CAR(m, env)) -> Err(m, "damaged frame", CAR(m, env))
      [] OTHER -> LET frame == CAR(m, env) IN
                  Then(InFrame(m, var, frame, CAR(m, frame), CDR(m, frame)), LAMBDA k :
                      IF k.v # NIL THEN k ELSE Envlookup(k, var, CDR(k, env)))

SymbolValue(m, x, env) ==
    IF ~Symbolp(x) THEN Err(m, "not a symbol", x)
    ELSE Then(Envlookup(m, x, env), LAMBDA k :
             CASE k.v # NIL -> Ret(k, CAR(k, k.v))
               [] ~Boundp(k, x.name) -> Err(k, "unbound variable", x)
               [] OTHER -> Ret(k, Vcell(k, x.name)))
SymbolBoundp(m, x, env) ==
    IF ~Symbolp(x) THEN Err(m, "not a symbol", x)
    ELSE Then(Envlookup(m, x, env), LAMBDA k : Bool(k, k.v # NIL \/ Boundp(k, x.name)))
(* The global variable assigned, whatever the frames bind. *)
Setvar_Global(m, var, val, env) ==
    IF ~Symbolp(var) THEN Err(m, "wta(non-symbol) to setvar", var) ELSE SetVcell(m, var.name, val)
Setvar(m, var, val, env) ==
    IF ~Symbolp(var) THEN Err(m, "wta(non-symbol) to setvar", var)
    ELSE Then(Envlookup(m, var, env), LAMBDA k :
             IF k.v = NIL THEN SetVcell(k, var.name, val) ELSE SetCAR(k, k.v, val))

(* The exact position of the loop in a list: its nth argument by car of    *)
(* cdr of ... of cdr, both of which take the empty list for granted.       *)
Nthcar(m, l, n) == Cxr(m, l, A \o [j \in 1..n |-> "d"])

-----------------------------------------------------------------------------
(* The macros rewrite the form that they get, so that the next evaluation  *)
(* of the same form finds it expanded.                                     *)
Rewritten(m, form, name, rest) == Ret(SetCAR(SetCDR(m, form, rest), form, Sym(name)), form)
RECURSIVE Bindings(_, _, _)
Bindings(m, l, done) ==
    IF l = NIL THEN [m EXCEPT !.v = done]
    ELSE Then(Car(m, l), LAMBDA b :
         LET At2(path) == Cxr(b, b.v, path)
             name == IF Symbolp(b.v) THEN b ELSE At2(A)
             value == IF Symbolp(b.v) THEN Ret(b, NIL) ELSE At2(AD)
         IN  Then(name, LAMBDA n : Then(value, LAMBDA e : Then(Cdr(e, l), LAMBDA r :
                 Bindings(r, r.v, Append(done, <<n.v, e.v>>))))))
LetMacro(m, form) ==
    Then(Cxr(m, form, AD), LAMBDA l : Then(Bindings(l, l.v, <<>>), LAMBDA b : Then(Cxr(b, form, DD), LAMBDA body :
    Then(Cdr(body, body.v), LAMBDA more :
        LET names == List(more, [j \in DOMAIN b.v |-> b.v[j][1]])
            values == List(names, [j \in DOMAIN b.v |-> b.v[j][2]])
            form1 == IF more.v = NIL THEN Car(values, body.v) ELSE Cons(values, Sym("begin"), body.v)
            rest == List(form1, <<names.v, values.v, form1.v>>)
        IN  Rewritten(rest, form, "let-internal", rest.v)))))
LetstarMacro(m, form) ==
    Then(Cxr(m, form, AD), LAMBDA l : Then(Cdr(l, l.v), LAMBDA more : Then(Cxr(more, form, DD), LAMBDA body :
        IF more.v = NIL THEN Rewritten(body, form, "let", CDR(body, form))
        ELSE LET first == List(body, <<CAR(body, l.v)>>)
                 inner == ListWith(first, <<Sym("let*"), more.v>>, body.v)
                 rest == List(inner, <<first.v, inner.v>>)
             IN  Rewritten(rest, form, "let", rest.v))))

RECURSIVE Letrec(_, _, _, _)
Letrec(m, l, letb, setb) ==
    IF l = NIL THEN Cons(m, letb, setb)
    ELSE Then(Cxr(m, l, <<"a", "a">>), LAMBDA n : Then(Cxr(n, l, <<"a", "d", "a">>), LAMBDA e :
         LET b == List(e, <<n.v>>)
             lb == Cons(b, b.v, letb)
             s == List(lb, <<Sym("set!"), n.v, e.v>>)
             sb == Cons(s, s.v, setb)
         IN  Then(Cdr(sb, l), LAMBDA r : Letrec(r, r.v, lb.v, sb.v))))
LetrecMacro(m, form) ==
    Then(Cxr(m, form, DD), LAMBDA body : Then(Cxr(body, form, AD), LAMBDA l :
        Then(Letrec(l, l.v, NIL, body.v), LAMBDA rest : Rewritten(rest, form, "let", rest.v))))

-----------------------------------------------------------------------------
(* The rest *)

TcClosureTraced == 50   \* tc_user_min: trace allocates the first user type

LtraceFcnName(m, body) ==
    LET p == Items(m, body) IN
    IF Len(p) >= 2 /\ p[1] = Sym("begin") /\ Consp(m, p[2]) /\ CAR(m, p[2]) = Sym("quote") /\ Consp(m, CDR(m, p[2]))
    THEN CAR(m, CDR(m, p[2])) ELSE NIL
Retype(m, f, type) == Ret(Set(m, f, [Cell(m, f) EXCEPT !.t = type]), NIL)

(* *eval-history-ptr*: the next pair of a list of the last forms. *)
Remember(m, x) ==
    LET at == Vcell(m, "*eval-history-ptr*") IN
    IF Consp(m, at) THEN LET k == SetCAR(m, at, x) IN SetVcell(k, "*eval-history-ptr*", CDR(k, at)) ELSE m
=============================================================================
