------------------------------ MODULE Meaning ------------------------------
(***************************************************************************)
(* What an expression of the core of SIOD's Lisp means: a reference        *)
(* definition in the manner of a textbook, with an environment from names  *)
(* to places and a store from places to values, and nothing of cells,      *)
(* frames or jump buffers.  The evaluator is compared with it (Session).   *)
(*                                                                         *)
(* An outcome has k = "value", "throw" (to a frame with the tag) or "err"  *)
(* (to a frame for errors), and the store.                                 *)
(***************************************************************************)
EXTENDS Integers, Sequences, FiniteSets, TLC
LOCAL SX == INSTANCE SequencesExt

Num(n) == [e |-> "num", n |-> n]
Nil == [e |-> "nil"]
Var(x) == [e |-> "var", x |-> x]
Lam(xs, b) == [e |-> "lam", xs |-> xs, b |-> b]
App(f, as) == [e |-> "app", f |-> f, as |-> as]
Add(a, b) == [e |-> "add", a |-> a, b |-> b]
If(c, a, b) == [e |-> "if", c |-> c, a |-> a, b |-> b]
Seq2(kind, a, b) == [e |-> kind, a |-> a, b |-> b]    \* begin, and, or, prog1
Let(kind, bs, b) == [e |-> kind, bs |-> bs, b |-> b]  \* let, let*, letrec (of one name)
Assign(x, a) == [e |-> "set!", x |-> x, a |-> a]
Catch(tag, a) == [e |-> "*catch", tag |-> tag, a |-> a]
Throw(tag, a) == [e |-> "*throw", tag |-> tag, a |-> a]

-----------------------------------------------------------------------------
(* The text of an expression *)

Joined(texts) == SX!FoldLeft(LAMBDA s, t : IF s = "" THEN t ELSE s \o " " \o t, "", texts)
RECURSIVE Text(_)
Text(e) ==
    CASE e.e = "num" -> ToString(e.n)
      [] e.e = "nil" -> "nil"
      [] e.e = "var" -> e.x
      [] e.e = "lam" -> "(lambda (" \o Joined(e.xs) \o ") " \o Text(e.b) \o ")"
      [] e.e = "app" -> "(" \o Joined(<<Text(e.f)>> \o [j \in DOMAIN e.as |-> Text(e.as[j])]) \o ")"
      [] e.e = "add" -> "(+ " \o Text(e.a) \o " " \o Text(e.b) \o ")"
      [] e.e = "if" -> "(if " \o Text(e.c) \o " " \o Text(e.a) \o " " \o Text(e.b) \o ")"
      [] e.e \in {"begin", "and", "or", "prog1"} -> "(" \o e.e \o " " \o Text(e.a) \o " " \o Text(e.b) \o ")"
      [] e.e \in {"let", "let*", "letrec"} ->
             "(" \o e.e \o " ("
             \o Joined([j \in DOMAIN e.bs |-> "(" \o e.bs[j][1] \o " " \o Text(e.bs[j][2]) \o ")"])
             \o ") " \o Text(e.b) \o ")"
      [] e.e = "set!" -> "(set! " \o e.x \o " " \o Text(e.a) \o ")"
      [] e.e \in {"*catch", "*throw"} -> "(" \o e.e \o " '" \o e.tag \o " " \o Text(e.a) \o ")"

-----------------------------------------------------------------------------
(* Values, outcomes, stores *)

NilV == [k |-> "nil"]
NumV(n) == [k |-> "num", n |-> n]
Report(what, obj) == [k |-> "report", what |-> what, obj |-> obj]   \* what a frame for errors returns
SymV(x) == [k |-> "sym", x |-> x]
Done(v, st) == [k |-> "value", v |-> v, st |-> st]
Fail(what, obj, st) == [k |-> "err", v |-> Report(what, obj), st |-> st]
AndThen(o, K(_)) == IF o.k = "value" THEN K(o) ELSE o

(* A place for each value, and the environment with the names on them. *)
Extend(env, names, st) == SX!FoldLeft(LAMBDA n, j : (names[j] :> (Len(st) + j)) @@ n, env, [j \in DOMAIN names |-> j])

RECURSIVE Mean(_, _, _, _)   \* the expression, the environment, the store, the tags of the frames around
RECURSIVE Values(_, _, _, _, _)
Values(es, env, st, tags, done) ==
    IF es = <<>> THEN Done(done, st)
    ELSE AndThen(Mean(Head(es), env, st, tags), LAMBDA o : Values(Tail(es), env, o.st, tags, Append(done, o.v)))

Catches(tag, o) == CASE o.k = "throw" -> tag \in {o.tag, "all"}
                     [] o.k = "err" -> tag \in {"errobj", "all"}
                     [] OTHER -> FALSE

Mean(e, env, st, tags) ==
    LET At(a) == Mean(a, env, st, tags)
        Names == [j \in DOMAIN e.bs |-> e.bs[j][1]]
        Exprs == [j \in DOMAIN e.bs |-> e.bs[j][2]]
    IN
    CASE e.e = "num" -> Done(NumV(e.n), st)
      [] e.e = "nil" -> Done(NilV, st)
      [] e.e = "var" -> IF e.x \in DOMAIN env THEN Done(st[env[e.x]], st) ELSE Fail("unbound variable", SymV(e.x), st)
      [] e.e = "lam" -> Done([k |-> "fun", xs |-> e.xs, b |-> e.b, env |-> env], st)
      [] e.e = "app" -> AndThen(At(e.f), LAMBDA f :
                            IF f.v.k # "fun" THEN Fail("bad function", f.v, f.st)
                            ELSE AndThen(Values(e.as, env, f.st, tags, <<>>), LAMBDA vs :
                                     Mean(f.v.b, Extend(f.v.env, f.v.xs, vs.st), vs.st \o vs.v, tags)))
      [] e.e = "add" -> AndThen(Values(<<e.a, e.b>>, env, st, tags, <<>>), LAMBDA vs :
                            LET x == vs.v[1]   y == vs.v[2] IN
                            CASE y = NilV -> Done(IF x = NilV THEN NumV(0) ELSE x, vs.st)
                              [] x.k # "num" -> Fail("wta(1st) to plus", x, vs.st)
                              [] y.k # "num" -> Fail("wta(2nd) to plus", y, vs.st)
                              [] OTHER -> Done(NumV(x.n + y.n), vs.st))
      [] e.e = "if" -> AndThen(At(e.c), LAMBDA c : Mean(IF c.v # NilV THEN e.a ELSE e.b, env, c.st, tags))
      [] e.e = "begin" -> AndThen(At(e.a), LAMBDA a : Mean(e.b, env, a.st, tags))
      [] e.e = "prog1" -> AndThen(At(e.a), LAMBDA a : AndThen(Mean(e.b, env, a.st, tags), LAMBDA b : Done(a.v, b.st)))
      [] e.e = "and" -> AndThen(At(e.a), LAMBDA a : IF a.v = NilV THEN a ELSE Mean(e.b, env, a.st, tags))
      [] e.e = "or" -> AndThen(At(e.a), LAMBDA a : IF a.v # NilV THEN a ELSE Mean(e.b, env, a.st, tags))
      [] e.e = "let" -> AndThen(Values(Exprs, env, st, tags, <<>>), LAMBDA vs :
                            Mean(e.b, Extend(env, Names, vs.st), vs.st \o vs.v, tags))
      [] e.e = "let*" -> LET first == Let("let", <<Head(e.bs)>>, IF Len(e.bs) = 1 THEN e.b ELSE Let("let*", Tail(e.bs), e.b))
                         IN  At(first)
      [] e.e = "letrec" -> LET inner == Extend(env, Names, st)
                               knot == Seq2("begin", Assign(Names[1], Exprs[1]), e.b)
                           IN  Mean(knot, inner, Append(st, NilV), tags)
      [] e.e = "set!" -> AndThen(At(e.a), LAMBDA a :
                             IF e.x \in DOMAIN env THEN Done(a.v, [a.st EXCEPT ![env[e.x]] = a.v])
                             ELSE Fail("set! of a global variable", SymV(e.x), a.st))
      [] e.e = "*catch" -> LET o == Mean(e.a, env, st, tags \union {e.tag})
                           IN  IF Catches(e.tag, o) THEN Done(o.v, o.st) ELSE o
      [] e.e = "*throw" -> AndThen(At(e.a), LAMBDA a :
                               IF tags \intersect {e.tag, "all"} # {} THEN [k |-> "throw", tag |-> e.tag, v |-> a.v, st |-> a.st]
                               ELSE Fail("no *catch found with this tag", SymV(e.tag), a.st))

-----------------------------------------------------------------------------
(* What is seen of a value: a function is one *)

RECURSIVE Seen(_)
Seen(v) == CASE v.k = "nil" -> "()"
             [] v.k = "num" -> ToString(v.n)
             [] v.k = "sym" -> v.x
             [] v.k = "fun" -> "a function"
             [] v.k = "report" -> "(" \o "\"" \o v.what \o "\" . " \o Seen(v.obj) \o ")"

Meaning(e) == LET o == Mean(e, <<>>, <<>>, {}) IN
              [failed |-> o.k = "err", seen |-> Seen(IF o.k = "err" THEN o.v.obj ELSE o.v)]
=============================================================================
