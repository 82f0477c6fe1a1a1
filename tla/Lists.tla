------------------------------- MODULE Lists -------------------------------
(***************************************************************************)
(* The primitives of SIOD on lists, arrays and hash tables                 *)
(* (src/siod/sliba.c, and assq, delq, reverse, nreverse, copy-list of      *)
(* src/siod/slib.c).  Those that take a function are with the evaluator.   *)
(***************************************************************************)
EXTENDS Machine, Bitwise
LOCAL SX == INSTANCE SequencesExt
LOCAL FS == INSTANCE FiniteSetsExt

-----------------------------------------------------------------------------
(* Arrays *)

Bytish == {"tc_string", "tc_byte_array"}
Numbers == {"tc_long_array", "tc_double_array"}
Arrays == Bytish \union Numbers \union {"tc_lisp_array"}
Data(m, a) == Cell(m, a).data
Dim(m, a) == Len(Data(m, a)) - (IF Type(m, a) = "tc_string" THEN 1 ELSE 0)
Strlen(m, s) == FS!Min({j \in DOMAIN Data(m, s) : Data(m, s)[j] = 0}) - 1

NewArray(m, type, n, fill) ==
    New(m, [t |-> type, data |-> [j \in 1..n |-> fill] \o (IF type = "tc_string" THEN <<0>> ELSE <<>>)])

ConsArray(m, dim, kind) ==
    CASE ~Flonump(m, dim) \/ (Flonump(m, dim) /\ FLONM(m, dim) < 0) -> Err(m, "bad dimension to cons-array", dim)
      [] kind = Sym("double") -> NewArray(m, "tc_double_array", FLONM(m, dim), 0)
      [] kind = Sym("long") -> NewArray(m, "tc_long_array", FLONM(m, dim), 0)
      [] kind = Sym("string") -> NewArray(m, "tc_string", FLONM(m, dim), 32)
      [] kind = Sym("byte") -> NewArray(m, "tc_byte_array", FLONM(m, dim), 0)
      [] kind \in {Sym("lisp"), NIL} -> NewArray(m, "tc_lisp_array", FLONM(m, dim), NIL)
      [] OTHER -> Err(m, "bad type of array", kind)

Signed(b) == IF b > 127 THEN b - 256 ELSE b

Aref1(m, a, i) ==
    CASE ~Flonump(m, i) -> Err(m, "bad index to aref", i)
      [] FLONM(m, i) < 0 -> Err(m, "negative index to aref", i)
      [] ~IsType(m, a, Arrays) -> Err(m, "invalid argument to aref", a)
      [] FLONM(m, i) >= Dim(m, a) -> Err(m, "index too large", i)
      [] OTHER -> LET e == Data(m, a)[FLONM(m, i) + 1] IN
                  CASE Type(m, a) = "tc_lisp_array" -> Ret(m, e)
                    [] Type(m, a) = "tc_byte_array" -> Flocons(m, Signed(e))
                    [] OTHER -> Flocons(m, e)

Aset1(m, a, i, v) ==
    CASE ~Flonump(m, i) -> Err(m, "bad index to aset", i)
      [] FLONM(m, i) < 0 -> Err(m, "negative index to aset", i)
      [] ~IsType(m, a, Arrays) -> Err(m, "invalid argument to aset", a)
      [] ~IsType(m, a, {"tc_lisp_array"}) /\ ~Flonump(m, v) -> Err(m, "bad value to store in array", v)
      [] FLONM(m, i) >= Dim(m, a) -> Err(m, "index to aset too large", i)
      [] OTHER -> LET e == CASE Type(m, a) = "tc_lisp_array" -> v
                             [] Type(m, a) \in Bytish -> FLONM(m, v) % 256
                             [] OTHER -> FLONM(m, v)
                  IN  [m EXCEPT !.cell[a.at].data[FLONM(m, i) + 1] = e, !.v = v]

Llength(m, x) ==
    CASE x = NIL -> Flocons(m, 0)
      [] Type(m, x) = "tc_string" -> Flocons(m, Strlen(m, x))
      [] IsType(m, x, Arrays) -> Flocons(m, Dim(m, x))
      [] Consp(m, x) -> IF After(m, x) # NIL THEN Err(m, "improper list to length", x)
                        ELSE Flocons(m, Len(Pairs(m, x)))
      [] OTHER -> Err(m, "wta to length", x)

-----------------------------------------------------------------------------
(* Equality and hashing *)

(* memcmp of what both have, without a look at the lengths. *)
SameBytes_Prefix(m, a, b) ==
    \A j \in 1..FS!Min({Dim(m, a), Dim(m, b)}) : Data(m, a)[j] = Data(m, b)[j]
SameBytes(m, a, b) == Dim(m, a) = Dim(m, b) /\ \A j \in 1..Dim(m, a) : Data(m, a)[j] = Data(m, b)[j]

RECURSIVE Equal(_, _, _)
ArrayEqual(m, a, b) ==
    CASE IsType(m, a, Bytish) -> SameBytes(m, a, b)
      [] IsType(m, a, Numbers) -> Data(m, a) = Data(m, b)
      [] OTHER -> Dim(m, a) = Dim(m, b) /\ \A j \in 1..Dim(m, a) : Equal(m, Data(m, a)[j], Data(m, b)[j])
Equal(m, a, b) ==
    CASE a = b -> TRUE
      [] Type(m, a) # Type(m, b) -> FALSE
      [] Consp(m, a) -> Equal(m, CAR(m, a), CAR(m, b)) /\ Equal(m, CDR(m, a), CDR(m, b))
      [] Flonump(m, a) -> FLONM(m, a) = FLONM(m, b)
      [] IsType(m, a, Arrays) -> ArrayEqual(m, a, b)
      [] OTHER -> FALSE

HashCombine(h1, h2, mod) == ((h1 * 17 + 1) ^^ h2) % mod
(* (unsigned long) of a negative double: the build adds 2^32. *)
Unsigned(n, mod) == ((n % mod) + (IF n < 0 THEN ((65536 % mod) * (65536 % mod)) ELSE 0)) % mod
HashAll(hashes, start, mod) == SX!FoldLeft(LAMBDA h, e : HashCombine(h, e, mod), start, hashes)

(* c_sxhash forgets tc_subr_2n, so those all have the hash 0. *)
HashedByName == {"tc_symbol", "tc_subr_0", "tc_subr_1", "tc_subr_2", "tc_subr_3", "tc_subr_4", "tc_subr_5",
                 "tc_lsubr", "tc_fsubr", "tc_msubr"}

HashList(hashes, n) == HashAll(Tail(hashes), Head(hashes), n)
RECURSIVE Sxhash(_, _, _)
ArraySxhash(m, a, n) ==
    HashAll([j \in 1..Dim(m, a) |-> CASE IsType(m, a, Bytish) -> Data(m, a)[j]
                                      [] IsType(m, a, Numbers) -> Unsigned(Data(m, a)[j], n)
                                      [] OTHER -> Sxhash(m, Data(m, a)[j], n)], 0, n)
Sxhash(m, x, n) ==
    CASE Consp(m, x) -> HashCombine(HashList([j \in DOMAIN Items(m, x) |-> Sxhash(m, Items(m, x)[j], n)], n),
                                    Sxhash(m, After(m, x), n), n)
      [] IsType(m, x, HashedByName) -> HashAll(Bytes(x.name), 0, n)
      [] Flonump(m, x) -> Unsigned(FLONM(m, x), n)
      [] IsType(m, x, Arrays) -> ArraySxhash(m, x, n)
      [] OTHER -> 0

(* Whether the hash of x takes a remainder, which raises SIGFPE for n = 0. *)
Divides(m, x) == \/ Consp(m, x) \/ Flonump(m, x) \/ (IsType(m, x, HashedByName) /\ x.name # "")
                 \/ (IsType(m, x, Arrays) /\ Dim(m, x) > 0)

(* The primitive: without a number the hash is below 10000. *)
LispSxhash(m, x, y) ==
    LET n == IF Flonump(m, y) THEN FLONM(m, y) ELSE 10000 IN
    IF n = 0 /\ Divides(m, x) THEN HandleSigfpe(m) ELSE Flocons(m, IF n = 0 THEN 0 ELSE Sxhash(m, x, n))

-----------------------------------------------------------------------------
(* Looking along a list *)

(* A loop over the pairs of l that stops at the first that Test accepts,   *)
(* and fails on an improper list.                                          *)
Seek(m, l, who, Test(_), Found(_)) ==
    LET p == Pairs(m, l)
        hits == {j \in DOMAIN p : Test(CAR(m, p[j]))}
    IN  CASE hits # {} -> Ret(m, Found(p[FS!Min(hits)]))
          [] After(m, l) = NIL -> Ret(m, NIL)
          [] OTHER -> Err(m, "improper list to " \o who, l)

Memq(m, x, l) == Seek(m, l, "memq", LAMBDA e : e = x, LAMBDA p : p)
Memv(m, x, l) == Seek(m, l, "memv", LAMBDA e : Eql(m, x, e), LAMBDA p : p)
Member(m, x, l) == Seek(m, l, "member", LAMBDA e : Equal(m, x, e), LAMBDA p : p)
Assq(m, x, l) == Seek(m, l, "assq", LAMBDA e : Consp(m, e) /\ CAR(m, e) = x, LAMBDA p : CAR(m, p))
Assv(m, x, l) == Seek(m, l, "assv", LAMBDA e : Consp(m, e) /\ Eql(m, CAR(m, e), x), LAMBDA p : CAR(m, p))
Assoc(m, x, l) == Seek(m, l, "assoc", LAMBDA e : Consp(m, e) /\ Equal(m, CAR(m, e), x), LAMBDA p : CAR(m, p))

Nth(m, x, l) ==
    Long(m, x, LAMBDA n : LET p == Pairs(m, l)
                              j == IF n < 0 THEN 1 ELSE n + 1
                          IN  IF j \in DOMAIN p THEN Ret(m, CAR(m, p[j])) ELSE Err(m, "bad arg to nth", x))
(* larg-default skips the strings whose first byte strchr finds in "-:",   *)
(* and strchr finds the final zero: an empty string is skipped too.        *)
LargDefault(m, l, x, dval) ==
    Long(m, x, LAMBDA n :
        LET kept == SelectSeq(Items(m, l), LAMBDA e : ~(Type(m, e) = "tc_string" /\ Data(m, e)[1] \in {45, 58, 0}))
        IN  IF n + 1 \in DOMAIN kept THEN Ret(m, kept[n + 1])
            ELSE OverList(m, l, LAMBDA k, items : Ret(k, dval)))

Getprop(m, plist, key) ==
    Then(Cdr(m, plist), LAMBDA k :
        LET p == Pairs(k, k.v)
            hits == {j \in DOMAIN p : j % 2 = 1 /\ CAR(k, p[j]) = key}
        IN  IF hits # {} THEN Cxr(k, p[FS!Min(hits)], AD) ELSE OverList(k, k.v, LAMBDA n, items : Ret(n, NIL)))

Setprop(m, plist, key, value) == Err(m, "not implemented", NIL)
Putprop(m, plist, value, key) == Setprop(m, plist, key, value)

-----------------------------------------------------------------------------
(* Building and cutting lists *)

MakeList(m, x, v) == Long(m, x, LAMBDA n : List(m, [j \in 1..n |-> v]))
Reverse(m, l) == OverList(m, l, LAMBDA k, items : List(k, SX!Reverse(items)))
Nreverse(m, l) ==
    LET p == Pairs(m, l) IN
    SX!FoldLeft(LAMBDA n, j : [SetCDR(n, p[j], IF j = 1 THEN NIL ELSE p[j - 1]) EXCEPT !.v = p[j]],
                Ret(m, NIL), [j \in DOMAIN p |-> j])
CopyList(m, l) == OverList(m, l, LAMBDA k, items : List(k, items))
LastPair(m, l) == IF Consp(m, l) THEN Ret(m, Pairs(m, l)[Len(Pairs(m, l))]) ELSE Err(m, "bad arg to last", l)
Butlast(m, l) ==
    CASE l = NIL -> Err(m, "list is empty", l)
      [] After(m, l) # NIL -> Err(m, "not a list", After(m, l))
      [] OTHER -> List(m, SX!Front(Items(m, l)))
Nconc(m, a, b) == IF a = NIL THEN Ret(m, b)
                  ELSE Then(LastPair(m, a), LAMBDA k : [Setcdr(k, k.v, b) EXCEPT !.v = a])

(* delq shares what it keeps: it stores the cdr of every pair again. *)
RECURSIVE Delq(_, _, _)
Delq(m, x, l) ==
    CASE l = NIL -> Ret(m, NIL)
      [] ~Consp(m, l) -> Err(m, "wta to car", l)
      [] CAR(m, l) = x -> Delq(m, x, CDR(m, l))
      [] OTHER -> Then(Delq(m, x, CDR(m, l)), LAMBDA k : [SetCDR(k, l, k.v) EXCEPT !.v = l])

Append2(m, a, b) ==
    Then(Llength(m, a), LAMBDA k : Then(Llength(k, b), LAMBDA n :
        CASE a # NIL /\ ~Consp(n, a) -> Err(n, "wta to car", a)
          [] b # NIL /\ ~Consp(n, b) -> Err(n, "wta to car", b)
          [] OTHER -> List(n, Items(n, a) \o Items(n, b))))
RECURSIVE AppendAll(_, _)
AppendAll(m, lists) ==
    CASE lists = <<>> -> Ret(m, NIL)
      [] Len(lists) = 1 -> Ret(m, lists[1])
      [] OTHER -> Then(AppendAll(m, Tail(lists)), LAMBDA k : Append2(k, lists[1], k.v))

-----------------------------------------------------------------------------
(* Hash tables: a lisp array of association lists *)

AtIndex(m, table, key, K(_)) ==
    IF Type(m, table) # "tc_lisp_array" THEN Err(m, "not a hash table", table)
    ELSE CASE Dim(m, table) = 0 /\ Divides(m, key) -> HandleSigfpe(m)
           [] Dim(m, table) = 0 -> Err(m, "sxhash inconsistency", table)
           [] OTHER -> K(Sxhash(m, key, Dim(m, table)) + 1)

Href(m, table, key) ==
    AtIndex(m, table, key, LAMBDA j :
        Then(Assoc(m, key, Data(m, table)[j]), LAMBDA k : Cdr(k, k.v)))

(* The entry looked up by identity, as assq does. *)
Hset_ByIdentity(m, table, key, value) ==
    AtIndex(m, table, key, LAMBDA j :
        Then(Assq(m, key, Data(m, table)[j]), LAMBDA k :
            IF k.v # NIL THEN Setcdr(k, k.v, value)
            ELSE LET cell == Cons(k, key, value)
                     l == Cons(cell, cell.v, Data(m, table)[j])
                 IN  [l EXCEPT !.cell[table.at].data[j] = l.v, !.v = value]))
Hset(m, table, key, value) ==
    AtIndex(m, table, key, LAMBDA j :
        Then(Assoc(m, key, Data(m, table)[j]), LAMBDA k :
            IF k.v # NIL THEN Setcdr(k, k.v, value)
            ELSE LET cell == Cons(k, key, value)
                     l == Cons(cell, cell.v, Data(m, table)[j])
                 IN  [l EXCEPT !.cell[table.at].data[j] = l.v, !.v = value]))

-----------------------------------------------------------------------------
(* qsort: the mark is the element that rand() chooses *)

(* The generator of the C library. *)
Rand(seed) == ((seed * 5) + 3) % 97

Side_Swapped(verdict) == IF verdict # NIL THEN 2 ELSE 1
Side(verdict) == IF verdict # NIL THEN 1 ELSE 2   \* less, notless

=============================================================================
