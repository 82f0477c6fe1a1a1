--------------------------------- MODULE Md5 ---------------------------------
(***************************************************************************)
(* The message digest of src/siod/md5.c and its primitives in              *)
(* src/siod/slibu.c.                                                       *)
(*                                                                         *)
(* Digests has the contexts; the Lisp program holds one as the bytes of an *)
(* MD5_CTX.                                                                *)
(***************************************************************************)
EXTENDS Files, Words
LOCAL SX == INSTANCE SequencesExt
LOCAL FS == INSTANCE FiniteSetsExt

(* x << n and the bits that fall off it, for n below 16. *)
Shifted(x, n) == LET high == x[1] * (2 ^ n)   low == x[2] * (2 ^ n)
                 IN  <<(high % Half) + (low \div Half), (low % Half) + (high \div Half)>>
RotateLeft(x, n) == IF n < 16 THEN Shifted(x, n) ELSE Shifted(<<x[2], x[1]>>, n - 16)

-----------------------------------------------------------------------------
(* MD5Transform: 64 steps in four rounds.  Each step replaces a; then the  *)
(* words change places, d becoming a.                                      *)

Flipped(x) == Half - 1 - x
MixHalf(round, x, y, z) ==
    CASE round = 1 -> (x & y) | (Flipped(x) & z)
      [] round = 2 -> (x & z) | (y & Flipped(z))
      [] round = 3 -> (x ^^ y) ^^ z
      [] round = 4 -> y ^^ (x | Flipped(z))
Mix(round, x, y, z) == <<MixHalf(round, x[1], y[1], z[1]), MixHalf(round, x[2], y[2], z[2])>>
Shifts == <<<<7, 12, 17, 22>>, <<5, 9, 14, 20>>, <<4, 11, 16, 23>>, <<6, 10, 15, 21>>>>
(* Which word of the block the step k of a round takes. *)
Chosen(round, k) == (CASE round = 1 -> k [] round = 2 -> 1 + (5 * k) [] round = 3 -> 5 + (3 * k) [] round = 4 -> 7 * k) % 16
Added == <<
  <<\hd76a, \ha478>>, <<\he8c7, \hb756>>, <<\h2420, \h70db>>, <<\hc1bd, \hceee>>, <<\hf57c, \h0faf>>, <<\h4787, \hc62a>>,
  <<\ha830, \h4613>>, <<\hfd46, \h9501>>, <<\h6980, \h98d8>>, <<\h8b44, \hf7af>>, <<\hffff, \h5bb1>>, <<\h895c, \hd7be>>,
  <<\h6b90, \h1122>>, <<\hfd98, \h7193>>, <<\ha679, \h438e>>, <<\h49b4, \h0821>>, <<\hf61e, \h2562>>, <<\hc040, \hb340>>,
  <<\h265e, \h5a51>>, <<\he9b6, \hc7aa>>, <<\hd62f, \h105d>>, <<\h0244, \h1453>>, <<\hd8a1, \he681>>, <<\he7d3, \hfbc8>>,
  <<\h21e1, \hcde6>>, <<\hc337, \h07d6>>, <<\hf4d5, \h0d87>>, <<\h455a, \h14ed>>, <<\ha9e3, \he905>>, <<\hfcef, \ha3f8>>,
  <<\h676f, \h02d9>>, <<\h8d2a, \h4c8a>>, <<\hfffa, \h3942>>, <<\h8771, \hf681>>, <<\h6d9d, \h6122>>, <<\hfde5, \h380c>>,
  <<\ha4be, \hea44>>, <<\h4bde, \hcfa9>>, <<\hf6bb, \h4b60>>, <<\hbebf, \hbc70>>, <<\h289b, \h7ec6>>, <<\heaa1, \h27fa>>,
  <<\hd4ef, \h3085>>, <<\h0488, \h1d05>>, <<\hd9d4, \hd039>>, <<\he6db, \h99e5>>, <<\h1fa2, \h7cf8>>, <<\hc4ac, \h5665>>,
  <<\hf429, \h2244>>, <<\h432a, \hff97>>, <<\hab94, \h23a7>>, <<\hfc93, \ha039>>, <<\h655b, \h59c3>>, <<\h8f0c, \hcc92>>,
  <<\hffef, \hf47d>>, <<\h8584, \h5dd1>>, <<\h6fa8, \h7e4f>>, <<\hfe2c, \he6e0>>, <<\ha301, \h4314>>, <<\h4e08, \h11a1>>,
  <<\hf753, \h7e82>>, <<\hbd3a, \hf235>>, <<\h2ad7, \hd2bb>>, <<\heb86, \hd391>> >>

MD5Step(s, x, j) ==
    LET round == ((j - 1) \div 16) + 1
        k == (j - 1) % 16
    IN  <<s[4],
          Sum2(RotateLeft(Sum2(Sum2(s[1], Mix(round, s[2], s[3], s[4])), Sum2(x[Chosen(round, k) + 1], Added[j])),
                          Shifts[round][(k % 4) + 1]), s[2]),
          s[2], s[3]>>
SumOfStates(s, t) == [j \in 1..4 |-> Sum2(s[j], t[j])]
MD5Transform(state, block) ==
    LET x == Decode(block)
    IN  SumOfStates(state, SX!FoldLeft(LAMBDA s, j : MD5Step(s, x, j), state, [j \in 1..64 |-> j]))

-----------------------------------------------------------------------------
(* Contexts *)

MD5Init(buffer) ==
    [state |-> <<<<\h6745, \h2301>>, <<\hefcd, \hab89>>, <<\h98ba, \hdcfe>>, <<\h1032, \h5476>>>>,
     count |-> <<<<0, 0>>, <<0, 0>>>>, buffer |-> buffer]

LOCAL Digest == INSTANCE Digests WITH Transform <- MD5Transform

-----------------------------------------------------------------------------
(* The primitives.  MD5Final leaves the context all zero. *)

SizeofCtx == 88
CtxBytes(ctx) == Encode(ctx.state \o ctx.count) \o ctx.buffer
CtxOf(bytes) == LET w == Decode(SubSeq(bytes, 1, 24))
                IN  [state |-> SubSeq(w, 1, 4), count |-> SubSeq(w, 5, 6), buffer |-> SubSeq(bytes, 25, SizeofCtx)]
GetMd5Ctx(m, a, K(_)) ==
    IF Type(m, a) = "tc_byte_array" /\ Dim(m, a) = SizeofCtx THEN K(CtxOf(Data(m, a))) ELSE Err(m, "not an MD5_CTX array", a)
PutCtx(m, a, bytes) == Ret([m EXCEPT !.cell[a.at].data = bytes], NIL)

Md5Init(m) == New(m, [t |-> "tc_byte_array", data |-> CtxBytes(MD5Init([j \in 1..64 |-> 0]))])

(* A file is read through the bytes of the string, what it had is lost;    *)
(* the string is left with the last of the pieces.                         *)
RECURSIVE Md5UpdateFromFile(_, _, _, _)
Md5UpdateWith(m, ctx, k, buff, got) ==
    IF got = <<>> THEN Ret(m, ctx)
    ELSE Md5UpdateFromFile([Skip(m, k, Len(got)) EXCEPT !.cell[buff.at].data = got \o SubSeq(@, Len(got) + 1, Len(@))],
                           Digest!MD5Update(ctx, got), k, buff)
Md5UpdateFromFile(m, ctx, k, buff) ==
    Then(Filled(m, k), LAMBDA f : Md5UpdateWith(f, ctx, k, buff, SubSeq(Ahead(f, k), 1, FS!Min({Dim(f, buff), Len(Ahead(f, k))}))))
Md5Update(m, a, str, len) ==
    StrDim(m, str, LAMBDA d :
        CASE str = a -> Beyond(m, "a context that is its own input")
          [] Type(m, len) = "tc_c_file" ->
                 GetMd5Ctx(m, a, LAMBDA ctx : CFile(m, len, NoDefault, LAMBDA k :
                     IF ~IsType(m, str, Bytish) THEN Beyond(m, "a file read into something that is no string")
                     ELSE Then(Md5UpdateFromFile(m, ctx, k, str), LAMBDA r : PutCtx(r, a, CtxBytes(r.v)))))
          [] OTHER -> Long(m, IF len = NIL THEN [t |-> "tc_flonum", n |-> Len(d)] ELSE len, LAMBDA n :
                          IF n < 0 \/ n > Len(d) THEN Err(m, "invalid length for string", len)
                          ELSE GetMd5Ctx(m, a, LAMBDA ctx : PutCtx(m, a, CtxBytes(Digest!MD5Update(ctx, SubSeq(d, 1, n)))))))
Md5Final(m, a) ==
    LET result == New(m, [t |-> "tc_byte_array", data |-> [j \in 1..16 |-> 0]]) IN
    GetMd5Ctx(result, a, LAMBDA ctx :
        Ret(Set(PutCtx(result, a, [j \in 1..SizeofCtx |-> 0]), result.v, [t |-> "tc_byte_array", data |-> Digest!MD5Final(ctx)]), result.v))
=============================================================================
