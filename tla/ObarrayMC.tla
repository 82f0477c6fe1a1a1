----------------------------- MODULE ObarrayMC -----------------------------
(***************************************************************************)
(* A table of two buckets, with names that share a bucket and names whose  *)
(* bytes are above 127.                                                    *)
(***************************************************************************)
EXTENDS Obarray

CONSTANT LongBits   \* the bits of a long
ASSUME LongAssumption == LongBits \in Nat \ {0}

(* C's long: ^ on the bits of two's complement, of which the last is the   *)
(* sign; % with the sign of its left operand.                              *)
NextBit(low, a, b) ==   \* the lowest bits found, and the weight of the next
    LET differ == (a \div low.weight + b \div low.weight) % 2 = 1
    IN  [bits |-> IF differ THEN low.bits + low.weight ELSE low.bits, weight |-> 2 * low.weight]
CXor(a, b) ==
    LET low[k \in 0..LongBits] ==
            IF k = 0 THEN [bits |-> 0, weight |-> 1] ELSE NextBit(low[k - 1], a, b)
        x == low[LongBits]
    IN  IF 2 * x.bits < x.weight THEN x.bits ELSE x.bits - x.weight
Rem(a, n) == IF a < 0 THEN -((-a) % n) ELSE a % n
Signed(byte) == IF byte < 128 THEN byte ELSE byte - 256

Hashed(hash, byte, n) == Rem(CXor(hash * 17, Signed(byte)), n)
(* Mutation: the hash left as it comes.                                    *)
HashOf_NoRem(name, n) ==
    LET hash[i \in 0..Len(name)] == IF i = 0 THEN 0 ELSE CXor(hash[i - 1] * 17, Signed(name[i]))
    IN  hash[Len(name)]
HashOf(name, n) ==
    LET hash[i \in 0..Len(name)] == IF i = 0 THEN 0 ELSE Hashed(hash[i - 1], name[i], n)
    IN  hash[Len(name)]

MCNames == {<<97>>, <<98>>, <<99>>, <<233>>}
MCHash == [name \in MCNames |-> HashOf(name, Dim)]

(* Names of one to three 7-bit bytes.                                      *)
Ascii == UNION {[1..k -> {33, 65, 97, 122, 126}] : k \in 1..3}

(* Names of 7-bit bytes never take gen_intern outside the table: not the   *)
(* names of this run, and (asked once, at the start) none with SIOD's own  *)
(* 100 buckets.                                                            *)
InsideForAscii ==
    /\ \A name \in outside : \E j \in DOMAIN name : name[j] > 127
    /\ pname = <<>> /\ calls = <<>> => \A name \in Ascii : HashOf(name, 100) \in 0..99
=============================================================================
