------------------------------- MODULE Words -------------------------------
(***************************************************************************)
(* The words of src/siod/md5.c: a UINT4 is the pair of its halves, the     *)
(* high one first.                                                         *)
(***************************************************************************)
EXTENDS Integers, Sequences

Half == 65536
Sum2(x, y) == <<(x[1] + y[1] + ((x[2] + y[2]) \div Half)) % Half, (x[2] + y[2]) % Half>>
Exceeds(x, y) == x[1] > y[1] \/ (x[1] = y[1] /\ x[2] > y[2])

(* Decode and Encode: words and their bytes, the lowest first. *)
Decode(bytes) ==
    [w \in 1..(Len(bytes) \div 4) |-> <<bytes[(4 * w) - 1] + (256 * bytes[4 * w]), bytes[(4 * w) - 3] + (256 * bytes[(4 * w) - 2])>>]
Encode(words) ==
    [j \in 1..(4 * Len(words)) |->
        LET w == words[((j - 1) \div 4) + 1]
        IN  <<w[2] % 256, w[2] \div 256, w[1] % 256, w[1] \div 256>>[((j - 1) % 4) + 1]]
=============================================================================
