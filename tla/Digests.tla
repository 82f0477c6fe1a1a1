------------------------------ MODULE Digests ------------------------------
(***************************************************************************)
(* How src/siod/md5.c takes a text in pieces: what a context keeps between *)
(* two calls of MD5Update, and how MD5Final pads the text.  Transform is   *)
(* the function of a state and a block of 64 bytes.                        *)
(* A context has the state, the count of bits (the low word first) and the *)
(* 64 bytes of the buffer.                                                 *)
(***************************************************************************)
EXTENDS Words

CONSTANT Transform(_, _)

Index(ctx) == (ctx.count[1][2] \div 8) % 64
(* The number of bits of n bytes, n below 2^29. *)
BitCount(n) == <<n \div 8192, (n % 8192) * 8>>
Counting(count, low, added) == <<low, IF Exceeds(added, low) THEN Sum2(count[2], <<0, 1>>) ELSE count[2]>>

Full(bytes) == Len(bytes) \div 64
Block(bytes, j) == SubSeq(bytes, (64 * j) - 63, 64 * j)
Transformed(state, bytes) ==
    LET after[j \in 0..Full(bytes)] == IF j = 0 THEN state ELSE Transform(after[j - 1], Block(bytes, j))
    IN  after[Full(bytes)]

(* Full blocks are transformed; what remains is put at the beginning of    *)
(* the buffer, or after what it had.                                       *)
Pending(ctx) == SubSeq(ctx.buffer, 1, Index(ctx))
Remaining(bytes) == SubSeq(bytes, (64 * Full(bytes)) + 1, Len(bytes))
MD5Update(ctx, input) ==
    LET all == Pending(ctx) \o input
        rest == Remaining(all)
    IN  [state |-> Transformed(ctx.state, all),
         count |-> Counting(ctx.count, Sum2(ctx.count[1], BitCount(Len(input))), BitCount(Len(input))),
         buffer |-> rest \o SubSeq(IF Full(all) > 0 THEN Block(all, 1) ELSE ctx.buffer, Len(rest) + 1, 64)]

(* No room left for the length of a text that ends at the byte 56. *)
PadLen_OffByOne(index) == IF index <= 56 THEN 56 - index ELSE 120 - index
PadLen(index) == IF index < 56 THEN 56 - index ELSE 120 - index
Padding == [j \in 1..64 |-> IF j = 1 THEN 128 ELSE 0]
MD5Final(ctx) ==
    Encode(MD5Update(MD5Update(ctx, SubSeq(Padding, 1, PadLen(Index(ctx)))), Encode(ctx.count)).state)
=============================================================================
