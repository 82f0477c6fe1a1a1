-------------------------------- MODULE Eval --------------------------------
(***************************************************************************)
(* The evaluator of SIOD: leval and lapply with the environments, the      *)
(* special forms and macros of src/siod/slib.c and src/siod/sliba.c, and   *)
(* the traced closures of src/siod/trace.c.                                *)
(*                                                                         *)
(* A call of leval is a call of Leval, and its `goto loop' one of Loop;    *)
(* m.depth counts the calls of leval that are under way.                   *)
(***************************************************************************)
EXTENDS Environments
LOCAL SX == INSTANCE SequencesExt

(* leval, its loop, lapply, the call of a primitive through its pointer,   *)
(* the reader (for #.) and load (for require) call each other: they are    *)
(* one recursion.                                                          *)
RECURSIVE Evaluator(_, _, _, _)
Leval(m, x, env) == Evaluator("leval", m, x, env)     \* the machine, the form, the environment
Loop(m, x, env) == Evaluator("loop", m, x, env)
Lapply(m, f, args) == Evaluator("lapply", m, f, args) \* the machine, the function, the list of arguments
Subr(m, name, a) == Evaluator("subr", m, name, a)     \* the machine, the name of a primitive, its arguments
Lreadr(m, s) == Evaluator("lreadr", m, s, NIL)        \* the machine, the text
Vload(m, ofname, cflag, rflag) == Evaluator("vload", m, ofname, [cflag |-> cflag, rflag |-> rflag])
Repl(m, from, text) == Evaluator("repl", m, from, text) \* the machine, where the form is, its text or the file

-----------------------------------------------------------------------------
(* Arguments *)

RECURSIVE LevalArgs1(_, _, _, _)
LevalArgs1(m, l, env, done) ==
    IF ~Consp(m, l) THEN [m EXCEPT !.v = done]
    ELSE Then(Leval(m, CAR(m, l), env), LAMBDA k : LevalArgs1(k, CDR(k, l), env, Append(done, k.v)))
LevalArgs(m, l, env) ==
    IF l # NIL /\ ~Consp(m, l) THEN Err(m, "bad syntax argument list", l)
    ELSE Then(LevalArgs1(m, l, env, <<>>), LAMBDA k :
             IF After(k, l) # NIL THEN Err(k, "bad syntax argument list", l) ELSE List(k, k.v))

(* The arguments of a primitive of n: the first is evaluated first, the    *)
(* others in the order in which the compiler evaluates those of a call.    *)
RECURSIVE ArgsInOrder(_, _, _, _, _)
ArgsInOrder(m, l, env, order, done) ==
    IF order = <<>> THEN [m EXCEPT !.v = done]
    ELSE LET j == Head(order)
         IN  Then(Nthcar(m, l, j - 1), LAMBDA k : Then(Leval(k, k.v, env), LAMBDA n :
                 ArgsInOrder(n, l, env, Tail(order), [done EXCEPT ![j] = n.v])))
PositionalArgs(m, l, env, n) ==
    ArgsInOrder(m, l, env, [j \in 1..n |-> IF m.fromRight /\ j > 1 THEN n + 2 - j ELSE j],
                SubSeq(<<NIL, NIL, NIL, NIL, NIL>>, 1, n))

(* A tc_subr_2n is applied to the value so far and each further argument.  *)
RECURSIVE Rest2n(_, _, _, _, _)
Rest2n(m, name, acc, l, Arg) ==
    IF ~Consp(m, l) THEN Ret(m, acc)
    ELSE Then(IF Arg.evaluated THEN Ret(m, CAR(m, l)) ELSE Leval(m, CAR(m, l), Arg.env), LAMBDA k :
         Then(Subr(k, name, <<acc, k.v>>), LAMBDA n : Rest2n(n, name, n.v, CDR(n, l), Arg)))
Evaluated == [evaluated |-> TRUE]
ToEvaluate(env) == [evaluated |-> FALSE, env |-> env]

-----------------------------------------------------------------------------
(* Special forms that return their value (tc_fsubr) *)

RECURSIVE EachForm(_, _, _, _)
EachForm(m, l, env, last) ==
    IF l = NIL THEN Ret(m, last)
    ELSE Then(Car(m, l), LAMBDA k : Then(Leval(k, k.v, env), LAMBDA n :
         LET value == n.v IN Then(Cdr(n, l), LAMBDA r : EachForm(r, r.v, env, value))))

RECURSIVE Lwhile(_, _, _)
Lwhile(m, args, env) ==
    Then(Car(m, args), LAMBDA k : Then(Leval(k, k.v, env), LAMBDA n :
        IF n.v = NIL THEN n
        ELSE Then(EachForm(n, CDR(n, args), env, NIL), LAMBDA r : Lwhile(r, args, env))))

LevalSetq(m, args, env) ==
    Then(Cxr(m, args, AD), LAMBDA k : Then(Leval(k, k.v, env), LAMBDA val :
    Then(Car(val, args), LAMBDA var : Setvar(var, var.v, val.v, env))))

(* (define (name . formals) . body) is (define name (lambda formals . body)). *)
RECURSIVE SyntaxDefine(_, _)
SyntaxDefine(m, args) ==
    Then(Car(m, args), LAMBDA head :
        IF Symbolp(head.v) THEN Ret(head, args)
        ELSE Then(Car(head, head.v), LAMBDA name : Then(Cdr(name, head.v), LAMBDA formals :
             Then(Cdr(formals, args), LAMBDA body :
                 LET code == Cons(body, formals.v, body.v)
                     lambda == Cons(code, Sym("lambda"), code.v)
                     value == Cons(lambda, lambda.v, NIL)
                     whole == Cons(value, name.v, value.v)
                 IN  IF head.v = NIL THEN Beyond(head, "define without a name") ELSE SyntaxDefine(whole, whole.v)))))

LevalDefine(m, args, env) ==
    Then(SyntaxDefine(m, args), LAMBDA k : Then(Cxr(k, k.v, AD), LAMBDA e : Then(Leval(e, e.v, env), LAMBDA val :
        LET var == CAR(k, k.v)
            frame == CAR(val, env)
        IN  Then(Envlookup(val, var, env), LAMBDA at :
                CASE at.v # NIL -> SetCAR(at, at.v, val.v)
                  [] env = NIL -> SetVcell(at, var.name, val.v)
                  [] OTHER -> LET names == Cons(at, var, CAR(at, frame))
                                  a == SetCAR(names, frame, names.v)
                                  values == Cons(a, val.v, CDR(a, frame))
                              IN  Ret(SetCDR(values, frame, values.v), val.v)))))

LevalLambda(m, args, env) ==
    Then(Cxr(m, args, DD), LAMBDA more : Then(Cxr(more, args, AD), LAMBDA first :
        LET body == IF more.v = NIL THEN first ELSE Cons(first, Sym("begin"), CDR(first, args))
        IN  Then(Car(body, args), LAMBDA formals :
                LET code == Cons(formals, formals.v, body.v)
                IN  Closure(code, env, code.v))))

LevalQuote(m, args, env) == Car(m, args)
LevalTenv(m, args, env) == Ret(m, env)

LevalProg1(m, args, env) ==
    Then(Car(m, args), LAMBDA k : Then(Leval(k, k.v, env), LAMBDA first : Then(Cdr(first, args), LAMBDA l :
        Then(EachForm(l, l.v, env, NIL), LAMBDA r : Ret(r, first.v)))))

(* *catch: the frame is on catch_framep while the body runs.  A longjmp to *)
(* it comes back with the value, and takes the frame off with all newer.   *)
(* catch_framep put back only after a longjmp. *)
LevalCatch_StaysLinked(m, args, env) ==
    Then(Car(m, args), LAMBDA k : Then(Leval(k, k.v, env), LAMBDA tag :
        LET here == Len(tag.catch) + 1
            framed == [tag EXCEPT !.catch = Append(@, [tag |-> tag.v])]
            r == Then(Cdr(framed, args), LAMBDA body : EachForm(body, body.v, env, NIL))
        IN  IF r.esc = here
            THEN [r EXCEPT !.esc = Running, !.catch = SubSeq(@, 1, here - 1), !.depth = tag.depth]
            ELSE r))
LevalCatch(m, args, env) ==
    Then(Car(m, args), LAMBDA k : Then(Leval(k, k.v, env), LAMBDA tag :
        LET here == Len(tag.catch) + 1
            framed == [tag EXCEPT !.catch = Append(@, [tag |-> tag.v])]
            r == Then(Cdr(framed, args), LAMBDA body : EachForm(body, body.v, env, NIL))
        IN  IF r.esc \in {Running, here}
            THEN [r EXCEPT !.esc = Running, !.catch = SubSeq(@, 1, here - 1), !.depth = tag.depth]
            ELSE r))
Lthrow(m, tag, value) ==
    LET frames == Frames(m, {tag, Sym("all")}) IN
    IF frames = {} THEN Err(m, "no *catch found with this tag", tag) ELSE Escape(m, Newest(frames), value)

-----------------------------------------------------------------------------
(* Special forms that leave a form to go on with (tc_msubr): they end in   *)
(* Loop, and NULLP of their result ends in the value itself.               *)

(* All but the last form of l, which is evaluated in the loop. *)
RECURSIVE Sequel(_, _, _)
Sequel(m, l, env) ==
    Then(Cdr(m, l), LAMBDA next :
        IF next.v = NIL THEN Then(Car(next, l), LAMBDA k : Loop(k, k.v, env))
        ELSE Then(Car(next, l), LAMBDA k : Then(Leval(k, k.v, env), LAMBDA n : Sequel(n, next.v, env))))

LevalIf(m, args, env) ==
    Then(Car(m, args), LAMBDA k : Then(Leval(k, k.v, env), LAMBDA test :
        Then(Cxr(test, args, IF test.v # NIL THEN AD ELSE ADD), LAMBDA form : Loop(form, form.v, env))))

(* or and and: evaluate until a value decides. *)
RECURSIVE Deciding(_, _, _, _)
Deciding(m, l, env, Stops) ==
    Then(Cdr(m, l), LAMBDA next : Then(Car(next, l), LAMBDA k :
        IF next.v = NIL THEN Loop(k, k.v, env)
        ELSE Then(Leval(k, k.v, env), LAMBDA n :
                 IF (n.v # NIL) = Stops THEN n ELSE Deciding(n, next.v, env, Stops))))
LevalOr(m, args, env) == Deciding(m, args, env, TRUE)
LevalAnd(m, args, env) == IF args = NIL THEN Ret(m, SymT) ELSE Deciding(m, args, env, FALSE)

(* cond: the test of the last clause is evaluated in the loop when it is   *)
(* all of its clause.                                                      *)
RECURSIVE LevalCond(_, _, _)
LevalCond(m, args, env) ==
    IF args = NIL THEN Ret(m, NIL)
    ELSE Then(Cdr(m, args), LAMBDA more : Then(Car(more, args), LAMBDA clause :
         Then(Car(clause, clause.v), LAMBDA test : Then(Cdr(test, clause.v), LAMBDA body :
         IF more.v = NIL /\ body.v = NIL THEN Loop(body, test.v, env)
         ELSE Then(Leval(body, test.v, env), LAMBDA value :
                  CASE value.v = NIL -> IF more.v = NIL THEN value ELSE LevalCond(value, more.v, env)
                    [] body.v = NIL -> value
                    [] OTHER -> Sequel(value, body.v, env))))))

(* The body evaluated in a call of leval. *)
LevalLet_Calls(m, args, env) ==
    Then(Cxr(m, args, AD), LAMBDA exprs : Then(LevalArgs(exprs, exprs.v, env), LAMBDA actuals :
    Then(Car(actuals, args), LAMBDA formals :
        Then(ExtendEnv(formals, actuals.v, formals.v, env), LAMBDA inner :
             Then(Cxr(inner, args, ADD), LAMBDA body : Leval(body, body.v, inner.v))))))
LevalLet(m, args, env) ==
    Then(Cxr(m, args, AD), LAMBDA exprs : Then(LevalArgs(exprs, exprs.v, env), LAMBDA actuals :
    Then(Car(actuals, args), LAMBDA formals :
        Then(ExtendEnv(formals, actuals.v, formals.v, env), LAMBDA inner :
             Then(Cxr(inner, args, ADD), LAMBDA body : Loop(body, body.v, inner.v))))))

-----------------------------------------------------------------------------
(* Traced closures: the code of one is (formals begin (quote name) body).  *)

Ltrace1(m, name, env) ==
    Then(Leval(m, name, env), LAMBDA k :
        LET f == k.v
            code == Cell(k, f).code
            body == CDR(k, code)
            quoted == List(k, <<Sym("quote"), name>>)
            named == List(quoted, <<Sym("begin"), quoted.v, body>>)
        IN  CASE Type(k, f) = "tc_closure" /\ LtraceFcnName(k, body) = NIL ->
                     Retype(SetCDR(named, code, named.v), f, "tc_closure_traced")
              [] Type(k, f) = "tc_closure" -> Retype(k, f, "tc_closure_traced")
              [] Type(k, f) = "tc_closure_traced" -> Ret(k, NIL)
              [] OTHER -> Err(k, "not a closure, cannot trace", f))
RECURSIVE Ltrace(_, _, _)
Ltrace(m, names, env) ==
    IF names = NIL THEN Ret(m, NIL)
    ELSE Then(Car(m, names), LAMBDA k : Then(Ltrace1(k, k.v, env), LAMBDA n : Ltrace(n, CDR(n, names), env)))
Luntrace(m, fcns) ==
    OverList(m, fcns, LAMBDA k, items : LET RECURSIVE Each2(_, _)
        Each2(n, left) ==
            IF left = <<>> THEN Ret(n, NIL)
            ELSE CASE Type(n, left[1]) = "tc_closure" -> Each2(n, Tail(left))
                   [] Type(n, left[1]) = "tc_closure_traced" -> Each2(Retype(n, left[1], "tc_closure"), Tail(left))
                   [] OTHER -> Err(n, "not a closure, cannot untrace", left[1])
        IN  Each2(k, items))

Said(m, arrow, f, items) ==
    Put(m, Bytes(arrow) \o Spaced(PrintedAll(m, <<LtraceFcnName(m, CDR(m, Cell(m, f).code))>> \o items)) \o <<10>>)
CtBody(m, f) ==
    Then(Leval(m, CDR(m, Cell(m, f).code), m.v), LAMBDA r : Ret(Said(r, "<-", f, <<r.v>>), r.v))
(* The body evaluated in the environment of the call. *)
CtEval_Dynamic(m, f, x, env) ==
    Then(LevalArgs(m, CDR(m, x), env), LAMBDA args :
        CtBody(ExtendEnv(Said(args, "->", f, Items(args, args.v)), args.v, CAR(args, Cell(m, f).code), env), f))
CtEval(m, f, x, env) ==
    Then(LevalArgs(m, CDR(m, x), env), LAMBDA args :
        CtBody(ExtendEnv(Said(args, "->", f, Items(args, args.v)), args.v, CAR(args, Cell(m, f).code), Cell(m, f).env), f))

-----------------------------------------------------------------------------
(* leval *)

Operator(m, head, env) ==
    CASE Symbolp(head) -> SymbolValue(m, head, env)
      [] Consp(m, head) -> Leval(m, head, env)
      [] OTHER -> Ret(m, head)

Fsubr(m, name, args, env) ==
    CASE name = "quote" -> LevalQuote(m, args, env)
      [] name = "lambda" -> LevalLambda(m, args, env)
      [] name = "define" -> LevalDefine(m, args, env)
      [] name = "set!" -> LevalSetq(m, args, env)
      [] name = "while" -> Lwhile(m, args, env)
      [] name = "prog1" -> LevalProg1(m, args, env)
      [] name = "*catch" -> LevalCatch(m, args, env)
      [] name = "the-environment" -> LevalTenv(m, args, env)
      [] name = "trace" -> Ltrace(m, args, env)
Msubr(m, name, args, env) ==
    CASE name = "if" -> LevalIf(m, args, env)
      [] name = "begin" -> Sequel(m, args, env)
      [] name = "or" -> LevalOr(m, args, env)
      [] name = "and" -> LevalAnd(m, args, env)
      [] name = "cond" -> LevalCond(m, args, env)
      [] name = "let-internal" -> LevalLet(m, args, env)

Arity == ("tc_subr_0" :> 0) @@ ("tc_subr_1" :> 1) @@ ("tc_subr_2" :> 2) @@ ("tc_subr_2n" :> 2) @@ ("tc_subr_3" :> 3)
         @@ ("tc_subr_4" :> 4) @@ ("tc_subr_5" :> 5)

(* A closure of a primitive: its environment is the first argument. *)
Further == [type \in {"tc_subr_1", "tc_subr_2", "tc_subr_3", "tc_subr_4", "tc_subr_5"} |-> Arity[type] - 1]

Call(m, f, x, env) ==
    LET l == CDR(m, x)
        type == Type(m, f)
    IN  CASE type \in DOMAIN Arity ->
                 Then(PositionalArgs(m, l, env, Arity[type]), LAMBDA k : Then(Subr(k, f.name, k.v), LAMBDA n :
                     IF type # "tc_subr_2n" THEN n
                     ELSE Then(Cxr(n, l, DD), LAMBDA r : Rest2n(r, f.name, n.v, r.v, ToEvaluate(env)))))
          [] type = "tc_lsubr" -> Then(LevalArgs(m, l, env), LAMBDA k : Subr(k, f.name, <<k.v>>))
          [] type = "tc_fsubr" -> Fsubr(m, f.name, l, env)
          [] type = "tc_msubr" -> Msubr(m, f.name, l, env)
          [] type = "tc_closure" ->
                 LET c == Cell(m, f)
                     native == Type(m, c.code)
                 IN  CASE Consp(m, c.code) -> Then(LevalArgs(m, l, env), LAMBDA k :
                              Then(ExtendEnv(k, k.v, CAR(k, c.code), c.env), LAMBDA inner : Loop(inner, CDR(inner, c.code), inner.v)))
                       [] native \in DOMAIN Further -> Then(PositionalArgs(m, l, env, Further[native]), LAMBDA k :
                              Subr(k, c.code.name, <<c.env>> \o k.v))
                       [] native = "tc_lsubr" -> Then(LevalArgs(m, l, env), LAMBDA k :
                              LET args == Cons(k, c.env, k.v) IN Subr(args, c.code.name, <<args.v>>))
                       [] OTHER -> Err(m, "closure code type not valid", f)
          [] type = "tc_closure_traced" -> CtEval(m, f, x, env)
          [] type = "tc_symbol" ->   \* a macro: the value of (f 'x) takes the place of x
                 LET quoted == List(m, <<Sym("quote"), x>>)
                     form == List(quoted, <<f, quoted.v>>)
                 IN  Then(Leval(form, form.v, NIL), LAMBDA k : Loop(k, k.v, env))
          [] OTHER -> Err(m, "bad function", f)

DoLoop(m, x, env) ==
    LET k == Remember(m, x) IN
    CASE Symbolp(x) -> SymbolValue(k, x, env)
      [] Consp(k, x) -> Then(Operator(k, CAR(k, x), env), LAMBDA n : Call(n, n.v, x, env))
      [] OTHER -> Ret(k, x)

DoLeval(m, x, env) ==
    IF m.depth >= StackLimit THEN Err(m, "the currently assigned stack limit has been exceded", NIL)
    ELSE [Loop([m EXCEPT !.depth = @ + 1], x, env) EXCEPT !.depth = m.depth]

(* The argument that is furthest decides what fails. *)
AppliedTo(m, name, args, first, n) ==
    Then(IF n = 0 THEN Ret(m, NIL) ELSE Nthcar(m, args, n - 1), LAMBDA k :
        Subr(k, name, first \o [j \in 1..n |-> Nthcar(m, args, j - 1).v]))
DoLapply(m, f, args) ==
    LET type == Type(m, f) IN
    CASE m.depth >= StackLimit -> Err(m, "the currently assigned stack limit has been exceded", NIL)
      [] type \in DOMAIN Arity ->
             Then(AppliedTo(m, f.name, args, <<>>, Arity[type]), LAMBDA r :
                 IF type # "tc_subr_2n" THEN r
                 ELSE Then(Cxr(r, args, DD), LAMBDA rest : Rest2n(rest, f.name, r.v, rest.v, Evaluated)))
      [] type = "tc_lsubr" -> Subr(m, f.name, <<args>>)
      [] type = "tc_closure" ->
             LET c == Cell(m, f)
                 native == Type(m, c.code)
             IN  CASE Consp(m, c.code) -> Then(ExtendEnv(m, args, CAR(m, c.code), c.env), LAMBDA inner :
                                               Leval(inner, CDR(inner, c.code), inner.v))
                   [] native \in DOMAIN Further -> AppliedTo(m, c.code.name, args, <<c.env>>, Further[native])
                   [] native = "tc_lsubr" -> LET all == Cons(m, c.env, args) IN Subr(all, c.code.name, <<all.v>>)
                   [] OTHER -> Err(m, "closure code type not valid", f)
      [] type = "tc_closure_traced" -> Err(m, "have eval, dont know apply", f)
      [] OTHER -> Err(m, "cannot be applied", f)
-----------------------------------------------------------------------------
(* Functions that call functions *)

Funcall1(m, f, a1) ==
    IF Type(m, f) = "tc_subr_1" THEN Subr(m, f.name, <<a1>>)
    ELSE LET args == List(m, <<a1>>) IN Lapply(args, f, args.v)
Funcall2(m, f, a1, a2) ==
    IF Type(m, f) \in {"tc_subr_2", "tc_subr_2n"} THEN Subr(m, f.name, <<a1, a2>>)
    ELSE LET args == List(m, <<a1, a2>>) IN Lapply(args, f, args.v)

(* The loop of mapcar1 and mapcar2: the next pairs are read after the call. *)
RECURSIVE Each(_, _, _, _)
Each(m, f, at, done) ==
    IF \E j \in DOMAIN at : ~Consp(m, at[j]) THEN List(m, done)
    ELSE Then(IF Len(at) = 1 THEN Funcall1(m, f, CAR(m, at[1])) ELSE Funcall2(m, f, CAR(m, at[1]), CAR(m, at[2])),
              LAMBDA k : Each(k, f, [j \in DOMAIN at |-> CDR(k, at[j])], Append(done, k.v)))

OnLists(m, f, at) ==
    CASE \E j \in DOMAIN at : at[j] = NIL -> Ret(m, NIL)
      [] \E j \in DOMAIN at : ~Consp(m, at[j]) ->
             Err(m, "wta to car", at[CHOOSE j \in DOMAIN at : ~Consp(m, at[j])])
      [] OTHER -> Each(m, f, at, <<>>)
Mapcar1(m, f, l) == OnLists(m, f, <<l>>)
Mapcar2(m, f, l1, l2) == OnLists(m, f, <<l1, l2>>)
Mapcar(m, l) ==
    LET a == Items(m, l) IN
    CASE Len(a) = 2 -> Mapcar1(m, a[1], a[2])
      [] Len(a) = 3 -> Mapcar2(m, a[1], a[2], a[3])
      [] OTHER -> Err(m, "mapcar case not handled", l)

RECURSIVE Subset(_, _, _, _)
Subset(m, f, l, done) ==
    IF ~Consp(m, l) THEN List(m, done)
    ELSE Then(Funcall1(m, f, CAR(m, l)), LAMBDA k :
             Subset(k, f, CDR(k, l), IF k.v # NIL THEN Append(done, CAR(k, l)) ELSE done))
Lsubset(m, f, l) == Subset(m, f, l, <<>>)

RECURSIVE Ass(_, _, _, _)
Ass(m, x, l, f) ==
    CASE l = NIL -> Ret(m, NIL)
      [] ~Consp(m, l) -> Err(m, "improper list to ass", l)
      [] ~Consp(m, CAR(m, l)) -> Ass(m, x, CDR(m, l), f)
      [] OTHER -> Then(Funcall2(m, f, CAR(m, CAR(m, l)), x), LAMBDA k :
                      IF k.v # NIL THEN Ret(k, CAR(m, l)) ELSE Ass(k, x, CDR(k, l), f))

LrefDefault(m, l, x, fcn) ==
    Long(m, x, LAMBDA n : LET p == Pairs(m, l)
                              j == IF n < 0 THEN 1 ELSE n + 1
                          IN  CASE j \in DOMAIN p -> Ret(m, CAR(m, p[j]))
                                [] fcn # NIL -> Lapply(m, fcn, NIL)
                                [] OTHER -> Ret(m, NIL))

-----------------------------------------------------------------------------
(* qsort *)

(* A comparison that rewrites the list while it is sorted is not modelled. *)
Keys(m, g, x, y, K(_, _, _)) ==
    IF g = NIL THEN K(m, x, y)
    ELSE Then(Funcall1(m, g, x), LAMBDA k : Then(Funcall1(k, g, y), LAMBDA n : K(n, k.v, n.v)))

RECURSIVE Split(_, _, _, _, _, _)
Split(m, f, g, items, mark, parts) ==
    IF items = <<>> THEN [m EXCEPT !.v = parts]
    ELSE LET e == Head(items)
         IN  Then(Keys(m, g, e, mark, LAMBDA k, a, b : Funcall2(k, f, a, b)), LAMBDA k :
                  Split(k, f, g, Tail(items), mark, [parts EXCEPT ![Side(k.v)] = <<e>> \o @]))

RECURSIVE Qsorted(_, _, _, _)
Qsorted(m, items, f, g) ==
    IF items = <<>> THEN Ret(m, NIL)
    ELSE LET j == (m.rand % Len(items)) + 1
             mark == items[j]
             rolled == [m EXCEPT !.rand = Rand(@)]
         IN  Then(Split(rolled, f, g, SX!RemoveAt(items, j), mark, <<<<>>, <<>>>>), LAMBDA k :
             Then(Qsorted(k, k.v[1], f, g), LAMBDA less :
             Then(Qsorted(less, k.v[2], f, g), LAMBDA notless :
             LET tail == Cons(notless, mark, notless.v) IN Nconc(tail, less.v, tail.v))))

Lqsort(m, l, f, g) == IF After(m, l) # NIL THEN Err(m, "bad list to qsort", l)
                      ELSE Qsorted(m, Items(m, l), f, g)

-----------------------------------------------------------------------------
(* The forms of the reader *)

CloseParen(m, s) ==
    LET p == FlushWs(s, m.pos, FALSE) IN
    CASE At(s, p) = EOF -> Err(m, "end of file inside list", NIL)
      [] At(s, p) # 41 -> Err([m EXCEPT !.pos = p + 1], "missing close paren", NIL)
      [] OTHER -> [m EXCEPT !.pos = p + 1]
RECURSIVE Lreadparen(_, _)

Comma(m, s) ==
    LET c == At(s, m.pos)
        (* rfs_ungetc, of a string, steps back even after its end. *)
        mark == CASE c = 64 -> [name |-> "+internal-comma-atsign", pos |-> m.pos + 1]
                  [] c = 46 -> [name |-> "+internal-comma-dot", pos |-> m.pos + 1]
                  [] c = EOF /\ ~m.file -> [name |-> "+internal-comma", pos |-> m.pos - 1]
                  [] OTHER -> [name |-> "+internal-comma", pos |-> m.pos]
    IN  Then(Lreadr([m EXCEPT !.pos = mark.pos], s), LAMBDA k : Cons(k, Sym(mark.name), k.v))

Lreadsharp(m, s) ==
    LET c == At(s, m.pos)
        next == [m EXCEPT !.pos = @ + 1]
    IN  CASE c = 40 -> Then(Lreadr(m, s), LAMBDA k : Then(Llength(k, k.v), LAMBDA n :
                           New(k, [t |-> "tc_lisp_array", data |-> Items(k, k.v)])))
          [] c = 46 -> Then(Lreadr(next, s), LAMBDA k : [Leval(k, k.v, NIL) EXCEPT !.pos = k.pos, !.file = k.file])
          [] c = 102 -> Ret(next, NIL)
          [] c = 116 -> Flocons(next, 1)
          [] OTHER -> Err(next, "readsharp syntax not handled", NIL)

(* The form that begins with the byte c, the one before the next. *)
ReadForm(m, s, c) ==
    CASE c = 40 -> Lreadparen(m, s)
      [] c = 41 -> Err(m, "unexpected close paren", NIL)
      [] c = 39 -> Then(Lreadr(m, s), LAMBDA k : List(k, <<Sym("quote"), k.v>>))
      [] c = 96 -> Then(Lreadr(m, s), LAMBDA k : Cons(k, Sym("+internal-backquote"), k.v))
      [] c = 44 -> Comma(m, s)
      [] c = 34 -> Lreadstring(m, s, m.pos, <<>>)
      [] c = 35 -> Lreadsharp(m, s)
      [] OTHER -> ReadToken(m, s, m.pos - 1)
DoLreadr(m, s) ==
    LET p == FlushWs(s, m.pos, FALSE) IN
    CASE m.depth >= StackLimit -> Err(m, "the currently assigned stack limit has been exceded", NIL)
      [] At(s, p) = EOF -> Err([m EXCEPT !.pos = p], "end of file inside read", NIL)
      [] OTHER -> [ReadForm([m EXCEPT !.pos = p + 1, !.depth = @ + 1], s, At(s, p)) EXCEPT !.depth = m.depth]

Lreadparen(m, s) ==
    LET p == FlushWs(s, m.pos, FALSE) IN
    CASE At(s, p) = EOF -> Err([m EXCEPT !.pos = p], "end of file inside list", NIL)
      [] At(s, p) = 41 -> Ret([m EXCEPT !.pos = p + 1], NIL)
      [] OTHER -> Then(Lreadr([m EXCEPT !.pos = p], s), LAMBDA k :
                      IF k.v = Sym(".") THEN Then(Lreadr(k, s), LAMBDA n : CloseParen(n, s))
                      ELSE Then(Lreadparen(k, s), LAMBDA n : Cons(n, k.v, n.v)))

(* readtl: the next form, or the end of the text. *)
Readtl(m, s) == IF At(s, FlushWs(s, m.pos, FALSE)) = EOF THEN [Ret(m, EofVal) EXCEPT !.pos = Len(s) + 1]
                ELSE Lreadr(m, s)
ReadFromString(m, x) ==
    Str(m, x, LAMBDA s : [Readtl([m EXCEPT !.pos = 1, !.file = FALSE], s) EXCEPT !.pos = m.pos, !.file = m.file])

-----------------------------------------------------------------------------
(* load, require, fast-load; the readers that they ask for *)

(* read.  A form that reads from its own stream, by #. in it, is left out. *)
HasRead(m, k, before) == [m EXCEPT !.streams[k].pos = m.pos, !.pos = before.pos, !.file = before.file]
ReadStream(m, s, k, before) == HasRead(Readtl([m EXCEPT !.pos = s.pos, !.file = TRUE], s.text), k, before)
Lreadf(m, k) == LET f == Filled(m, k) IN ReadStream(f, f.streams[k], k, m)
Lread(m, p) == CFile(m, p, Stdin, LAMBDA k : Lreadf(m, k))

(* The body of the loop in repl: read a form from stdin or from the text   *)
(* and evaluate it, unless the input ends; or the init file before that.   *)
NoForm == [t |-> "none"]
DoRepl(m, from, text) ==
    IF from = "init" THEN Vload(m, text, FALSE, TRUE)
    ELSE Then(IF from = "stdin" THEN Lreadf(m, Stdin) ELSE Then(Strcons(m, text), LAMBDA s : ReadFromString(s, s.v)), LAMBDA k :
             IF k.v = EofVal THEN Ret(k, NoForm) ELSE Leval(k, k.v, NIL))

RECURSIVE LoadForms(_, _, _, _, _)
LoadForms(m, lf, reader, cflag, forms) ==
    Then(IF reader = NIL THEN Lread(m, lf) ELSE Funcall1(m, reader, lf), LAMBDA k :
        CASE k.v = EofVal -> List(k, forms)
          [] cflag -> LoadForms(k, lf, reader, cflag, Append(forms, k.v))
          [] OTHER -> Then(Leval(k, k.v, NIL), LAMBDA n : LoadForms(n, lf, reader, cflag, <<>>)))

Load(m, fname, cflag, rflag) == Str(m, fname, LAMBDA s : Vload(m, s, cflag # NIL, rflag # NIL))

(* The symbol set before the load. *)
Require_MarksFirst(m, fname) ==
    LET parts == List(m, <<Sym("*"), fname, Sym("-loaded*")>>) IN
    Then(StringAppend(parts, parts.v), LAMBDA s : Then(Intern(s, s.v), LAMBDA sym :
        IF IsLoaded(sym, sym.v) THEN sym
        ELSE Then(Load(SetVcell(sym, sym.v.name, SymT), fname, NIL, SymT), LAMBDA k : Ret(k, sym.v))))
Require(m, fname) ==
    LET parts == List(m, <<Sym("*"), fname, Sym("-loaded*")>>) IN
    Then(StringAppend(parts, parts.v), LAMBDA s : Then(Intern(s, s.v), LAMBDA sym :
        IF IsLoaded(sym, sym.v) THEN sym
        ELSE Then(Load(sym, fname, NIL, SymT), LAMBDA k : Ret(SetVcell(k, sym.v.name, SymT), sym.v))))

Parser(m, text) ==
    LET start == Strstr(text, Key, 1)
        after == SubSeq(text, start + Len(Key), Len(text))
        name == Bytes("parser_") \o SubSeq(after, 1, Spn(after, IsAlnum))
        file == Strcons(m, name \o Bytes(".scm"))
    IN  IF start = 0 THEN Ret(m, NIL)
        ELSE Then(Require(file, file.v), LAMBDA k : Then(Leval(k, Sym(Name(name)), NIL), LAMBDA f :
                 Funcall1(f, f.v, Sym(Name(name)))))
(* The stream is closed when all has gone well, and only then. *)
DoVload(m, ofname, cflag, rflag) ==
    LET place == Offset(ofname) IN
    Then(Fopen(m, IF rflag THEN InLibrary(m, place.name) ELSE Name(place.name), "r"), LAMBDA open :
        LET lf == open.v
            k == Cell(open, lf).at
            body == Skip(Filled(open, k), k, place.skip)
            header == Header(body.streams[k].text, body.streams[k].pos, <<>>)
        IN  Then(Parser([body EXCEPT !.streams[k].pos = header.next], header.text), LAMBDA p :
            Then(LoadForms(p, lf, p.v, cflag, <<>>), LAMBDA r : Ret(FileGcFree(r, lf), r.v))))

RECURSIVE FastLoadForms(_, _, _, _)
FastLoadForms(m, table, noeval, forms) ==
    Then(FastRead(m, table), LAMBDA k :
        CASE k.v = table -> List(k, forms)
          [] noeval -> FastLoadForms(k, table, noeval, Append(forms, k.v))
          [] OTHER -> Then(Leval(k, k.v, NIL), LAMBDA n : FastLoadForms(n, table, noeval, <<>>)))
FastLoad(m, lfname, noeval) ==
    Str(m, lfname, LAMBDA s : Then(Fopen(m, Name(s), "rb"), LAMBDA open :
        LET table == NewTable(open, open.v, TRUE) IN
        Then(FastLoadForms(table, table.v, noeval # NIL, <<>>), LAMBDA r : Ret(FileGcFree(r, open.v), r.v))))

(* The reader that "parser:fasl" in the header of a file asks load for:    *)
(* parser_fasl gives a closure of parser_fasl_hook over a table.           *)
ParserFasl(m) ==
    LET table == NewTable(m, NIL, TRUE) IN
    Then(Leval(table, Sym("parser_fasl_hook"), NIL), LAMBDA k : Closure(k, table.v, k.v))
ParserRead(m) == Leval(m, Sym("read"), NIL)

(* mkdatref: a closure of sdatref over the type and the index. *)
Mkdatref(m, ctype, ind) ==
    LET spec == Cons(m, ctype, ind) IN
    Then(Leval(spec, Sym("sdatref"), NIL), LAMBDA k : Closure(k, spec.v, k.v))

-----------------------------------------------------------------------------
(* The primitives that take their arguments evaluated *)

Lerr(m, message, x) ==
    IF Consp(m, message) /\ Type(m, CAR(m, message)) = "tc_string"
    THEN ErrTo(m, CDR(m, message), <<>>, message)
    ELSE Str(m, message, LAMBDA s : ErrText(m, s, x))

Ltypeof(m, x) == IF Type(m, x) = "tc_closure_traced" THEN Flocons(m, TcClosureTraced) ELSE Ret(m, Sym(Type(m, x)))
SubrRand(m, x) == LET k == [m EXCEPT !.rand = Rand(@)] IN
    IF x = NIL THEN Flocons(k, k.rand)
    ELSE Long(k, x, LAMBDA n : IF n = 0 THEN HandleSigfpe(k) ELSE Flocons(k, k.rand % n))
Lsrand(m, x) == Long(m, x, LAMBDA n : Ret([m EXCEPT !.rand = n], NIL))

(* A circular list when circ is given; *eval-history-ptr* moves along it. *)
SetEvalHistory(m, len, circ) ==
    Then(IF len = NIL THEN Ret(m, NIL) ELSE MakeList(m, len, NIL), LAMBDA k :
    Then(IF circ = NIL THEN k ELSE Nconc(k, k.v, k.v), LAMBDA n :
        Ret(SetVcell(SetVcell(n, "*eval-history-ptr*", n.v), "*eval-history*", n.v), len)))

ClosurePart(m, f, Part(_)) ==
    IF Type(m, f) \in {"tc_closure", "tc_closure_traced"} THEN Ret(m, Part(Cell(m, f)))
    ELSE Beyond(m, "part of something that is no closure")

RECURSIVE Repeat(_, _, _)
Repeat(m, n, call) ==
    IF n <= 0 THEN m
    ELSE Then(CASE call.kind = "1" -> Funcall1(m, call.f, call.a)
                [] call.kind = "2" -> Funcall2(m, call.f, call.a, call.b)
                [] OTHER -> Leval(m, call.f, call.a),
              LAMBDA k : Repeat(k, n - 1, call))
BenchmarkFuncall1(m, ln, f, a1) ==
    Long(m, ln, LAMBDA n : Repeat(Ret(m, NIL), n, [kind |-> "1", f |-> f, a |-> a1]))
BenchmarkFuncall2(m, l) ==
    Then(Car(m, l), LAMBDA ln : Then(Cxr(ln, l, AD), LAMBDA f : Then(Cxr(f, l, ADD), LAMBDA a : Then(Cxr(a, l, ADDD), LAMBDA b :
        Long(b, ln.v, LAMBDA n : Repeat(Ret(b, NIL), n, [kind |-> "2", f |-> f.v, a |-> a.v, b |-> b.v]))))))
BenchmarkEval(m, ln, exp, env) ==
    Long(m, ln, LAMBDA n : Repeat(Ret(m, NIL), n, [kind |-> "eval", f |-> exp, a |-> env]))

Path(name) == [j \in 1..(Len(name) - 2) |-> SubSeq(name, j + 1, j + 1)]
Cxrs == {"car", "cdr", "caar", "cadr", "cdar", "cddr", "caaar", "caadr", "cadar", "caddr", "cdaar", "cdadr",
         "cddar", "cdddr"}

Subr1(m, name, x) ==
    CASE name \in Cxrs -> Cxr(m, x, Path(name))
      [] name \in {"not", "null?"} -> nullp(m, x)
      [] name = "pair?" -> consp(m, x)
      [] name = "symbol?" -> symbolp(m, x)
      [] name = "number?" -> numberp(m, x)
      [] name = "string?" -> stringp(m, x)
      [] name = "typeof" -> Ltypeof(m, x)
      [] name = "abs" -> Lllabs(m, x)
      [] name = "sqrt" -> Lsqrt(m, x)
      [] name \in DOMAIN IntegerAt -> Elementary(m, name, x)
      [] name = "rand" -> SubrRand(m, x)
      [] name = "srand" -> Lsrand(m, x)
      [] name = "bit-not" -> Bitnot(m, x)
      [] name = "let-internal-macro" -> LetMacro(m, x)
      [] name = "let*-macro" -> LetstarMacro(m, x)
      [] name = "letrec-macro" -> LetrecMacro(m, x)
      [] name = "%%closure-code" -> ClosurePart(m, x, LAMBDA c : c.code)
      [] name = "%%closure-env" -> ClosurePart(m, x, LAMBDA c : c.env)
      [] name = "copy-list" -> CopyList(m, x)
      [] name = "reverse" -> Reverse(m, x)
      [] name = "nreverse" -> Nreverse(m, x)
      [] name = "length" -> Llength(m, x)
      [] name = "last" -> LastPair(m, x)
      [] name = "butlast" -> Butlast(m, x)
      [] name = "intern" -> Intern(m, x)
      [] name = "parse-number" -> ParseNumber(m, x)
      [] name = "read-from-string" -> ReadFromString(m, x)
      [] name = "string-length" -> StringLength(m, x)
      [] name = "string-dimension" -> StringDim(m, x)
      [] name = "string-trim" -> StringTrim(m, x)
      [] name = "string-trim-left" -> StringTrimLeft(m, x)
      [] name = "string-trim-right" -> StringTrimRight(m, x)
      [] name = "string-upcase" -> StringUpcase(m, x)
      [] name = "string-downcase" -> StringDowncase(m, x)
      [] name = "base64encode" -> Base64encode(m, x)
      [] name = "base64decode" -> Base64decode(m, x)
      [] name = "array->hexstr" -> Hexstr(m, x)
      [] name = "hexstr->bytes" -> Hexstr2bytes(m, x)
      [] name = "read" -> Lread(m, x)
      [] name = "require" -> Require(m, x)
      [] name = "fclose" -> FcloseL(m, x)
      [] name = "getc" -> Lgetc(m, x)
      [] name = "ftell" -> Lftell(m, x)
      [] name = "fflush" -> Lfflush(m, x)
      [] name = "fast-read" -> FastRead(m, x)
      [] name = "parser_read" -> ParserRead(m)
      [] name = "parser_fasl" -> ParserFasl(m)
      [] name = "url-encode" -> UrlEncode(m, x)
      [] name = "url-decode" -> UrlDecode(m, x)
      [] name = "html-encode" -> HtmlEncode(m, x)
      [] name = "html-decode" -> Ret(m, x)
      [] name = "readline" -> Readline(m, x)
      [] name = "delete-file" -> DeleteFile(m, x)
      [] name = "position-script" -> LpositionScript(m, x)
      [] name = "encode-file-mode" -> EncodeStMode(m, x)
      [] name = "decode-file-mode" -> DecodeStMode(m, x)
      [] name = "encode-open-flags" -> EncodeOpenFlags(m, x)
      [] name \in {"gmtime", "localtime"} -> Lgmtime(m, x)
      [] name = "mktime" -> Lmktime(m, x)
      [] name = "http-date" -> HttpDate(m, x)
      [] name = "unix-time->strtime" -> Utime2str(m, x)
      [] name = "md5-final" -> Md5Final(m, x)
      [] name = "trunc" -> Ltrunc(m, x)
      [] name = "so-ext" -> SoExt(m, x)
      [] name = "first" -> Car(m, x)
      [] name = "rest" -> Cdr(m, x)

Subr2(m, name, x, y) ==
    CASE name = "cons" -> Cons(m, x, y)
      [] name = "set-car!" -> Setcar(m, x, y)
      [] name = "set-cdr!" -> Setcdr(m, x, y)
      [] name = "eq?" -> Bool(m, Eq(x, y))
      [] name \in {"eqv?", "="} -> Bool(m, Eql(m, x, y))
      [] name = "equal?" -> Bool(m, Equal(m, x, y))
      [] name = "+" -> Plus(m, x, y)
      [] name = "-" -> Difference(m, x, y)
      [] name = "*" -> Ltimes(m, x, y)
      [] name = "/" -> Quotient(m, x, y)
      [] name = "fmod" -> Lfmod(m, x, y)
      [] name = "pow" -> Lpow(m, x, y)
      [] name = "min" -> Lmin(m, x, y)
      [] name = "max" -> Lmax(m, x, y)
      [] name = ">" -> Greaterp(m, x, y)
      [] name = "<" -> Lessp(m, x, y)
      [] name = ">=" -> GreaterEp(m, x, y)
      [] name = "<=" -> LessEp(m, x, y)
      [] name = "eval" -> Leval(m, x, y)
      [] name = "apply" -> Lapply(m, x, y)
      [] name = "error" -> Lerr(m, x, y)
      [] name = "*throw" -> Lthrow(m, x, y)
      [] name = "print" -> Lprint(m, x, y)
      [] name = "prin1" -> Lprin1(m, x, y)
      [] name = "symbol-bound?" -> SymbolBoundp(m, x, y)
      [] name = "symbol-value" -> SymbolValue(m, x, y)
      [] name = "env-lookup" -> Envlookup(m, x, y)
      [] name = "%%closure" -> Closure(m, x, y)
      [] name = "set-eval-history" -> SetEvalHistory(m, x, y)
      [] name = "assq" -> Assq(m, x, y)
      [] name = "assv" -> Assv(m, x, y)
      [] name = "assoc" -> Assoc(m, x, y)
      [] name = "memq" -> Memq(m, x, y)
      [] name = "memv" -> Memv(m, x, y)
      [] name = "member" -> Member(m, x, y)
      [] name = "nth" -> Nth(m, x, y)
      [] name = "get" -> Getprop(m, x, y)
      [] name = "delq" -> Delq(m, x, y)
      [] name = "nconc" -> Nconc(m, x, y)
      [] name = "append2" -> Append2(m, x, y)
      [] name = "make-list" -> MakeList(m, x, y)
      [] name = "mapcar1" -> Mapcar1(m, x, y)
      [] name = "subset" -> Lsubset(m, x, y)
      [] name = "cons-array" -> ConsArray(m, x, y)
      [] name = "aref" -> Aref1(m, x, y)
      [] name = "href" -> Href(m, x, y)
      [] name = "sxhash" -> LispSxhash(m, x, y)
      [] name = "string->number" -> String2number(m, x, y)
      [] name = "string-search" -> StringSearch(m, x, y)
      [] name = "string-lessp" -> StringLessp(m, x, y)
      [] name = "strcmp" -> Lstrcmp(m, x, y)
      [] name = "strcat" -> Lstrcat(m, x, y)
      [] name = "strcpy" -> Lstrcpy(m, x, y)
      [] name = "strspn" -> Lstrspn(m, x, y)
      [] name = "strcspn" -> Lstrcspn(m, x, y)
      [] name = "strbreakup" -> Lstrbreakup(m, x, y)
      [] name = "unbreakupstr" -> Lstrunbreakup(m, x, y)
      [] name = "bit-and" -> Bitand(m, x, y)
      [] name = "bit-or" -> Bitor(m, x, y)
      [] name = "bit-xor" -> Bitxor(m, x, y)
      [] name = "ash" -> Ash(m, x, y)
      [] name = "fopen" -> FopenL(m, x, y)
      [] name = "ungetc" -> Lungetc(m, x, y)
      [] name = "putc" -> Lputc(m, x, y)
      [] name = "puts" -> Lputs(m, x, y)
      [] name = "fread" -> Lfread(m, x, y)
      [] name = "fwrite" -> Lfwrite(m, x, y)
      [] name = "fast-print" -> FastPrint(m, x, y)
      [] name = "fast-load" -> FastLoad(m, x, y)
      [] name = "parser_fasl_hook" -> ParserFaslHook(m, x, y)
      [] name = "gets" -> Lgets(m, x, y)
      [] name = "__cgi-main" -> CgiMain(m, x, y)
      [] name = "sdatref" -> Sdatref(m, x, y)
      [] name = "mkdatref" -> Mkdatref(m, x, y)
      [] name = "datlength" -> Datlength(m, x, y)

Subr3(m, name, x, y, z) ==
    CASE name = "set-symbol-value!" -> Setvar(m, x, y, z)
      [] name = "aset" -> Aset1(m, x, y, z)
      [] name = "hset" -> Hset(m, x, y, z)
      [] name = "print-to-string" -> PrintToString(m, x, y, z)
      [] name = "substring" -> Substring(m, x, y, z)
      [] name = "lref-default" -> LrefDefault(m, x, y, z)
      [] name = "larg-default" -> LargDefault(m, x, y, z)
      [] name = "lkey-default" -> LkeyDefault(m, x, y, z)
      [] name = "qsort" -> Lqsort(m, x, y, z)
      [] name = "mapcar2" -> Mapcar2(m, x, y, z)
      [] name = "ass" -> Ass(m, x, y, z)
      [] name = "setprop" -> Setprop(m, x, y, z)
      [] name = "putprop" -> Putprop(m, x, y, z)
      [] name = "benchmark-funcall1" -> BenchmarkFuncall1(m, x, y, z)
      [] name = "benchmark-eval" -> BenchmarkEval(m, x, y, z)
      [] name = "load" -> Load(m, x, y, z)
      [] name = "save-forms" -> SaveForms(m, x, y, z)
      [] name = "fseek" -> Lfseek(m, x, y, z)
      [] name = "swrite" -> Swrite(m, x, y, z)
      [] name = "md5-update" -> Md5Update(m, x, y, z)
      [] name = "datref" -> Datref(m, x, y, z)
      [] name = "pratt_read_token" -> PrattReadToken(m, x, y, z)

SubrL(m, name, l) ==
    CASE name = "list" -> Ret(m, l)
      [] name = "append" -> AppendAll(m, Items(m, l))
      [] name = "mapcar" -> Mapcar(m, l)
      [] name = "symbolconc" -> Symbolconc(m, l)
      [] name = "string-append" -> StringAppend(m, l)
      [] name = "bytes-append" -> BytesAppend(m, l)
      [] name = "writes" -> Writes(m, l)
      [] name = "untrace" -> Luntrace(m, l)
      [] name = "benchmark-funcall2" -> BenchmarkFuncall2(m, l)

DoSubr(m, name, a) ==
    CASE name \in Subr1s -> Subr1(m, name, a[1])
      [] name \in Subr2s \union Subr2ns -> Subr2(m, name, a[1], a[2])
      [] name \in Subr3s -> Subr3(m, name, a[1], a[2], a[3])
      [] name = "number->string" -> Number2string(m, a[1], a[2])
      [] name = "substring-equal?" -> SubstringEqual(m, a[1], a[2], a[3], a[4])
      [] name = "substring-equalcase?" -> SubstringEqualcase(m, a[1], a[2], a[3], a[4])
      [] name \in Lsubrs -> SubrL(m, name, a[1])
      [] name = "fast-save" -> FastSave(m, a[1], a[2], a[3], a[4], a[5])
      [] name = "quit" -> Quit(m)
      [] name = "md5-init" -> Md5Init(m)
      [] name = "os-classification" -> Ret(m, Sym("unix"))
      [] name = "eof-val" -> Ret(m, EofVal)

Evaluator(call, m, x, y) ==
    CASE call = "leval" -> DoLeval(m, x, y)
      [] call = "loop" -> DoLoop(m, x, y)
      [] call = "lapply" -> DoLapply(m, x, y)
      [] call = "subr" -> DoSubr(m, x, y)
      [] call = "lreadr" -> DoLreadr(m, x)
      [] call = "vload" -> DoVload(m, x, y.cflag, y.rflag)
      [] call = "repl" -> DoRepl(m, x, y)
=============================================================================
