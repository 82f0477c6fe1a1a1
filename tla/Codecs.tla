------------------------------- MODULE Codecs -------------------------------
(***************************************************************************)
(* The codes of src/siod/sliba.c for strings of bytes: base64 and          *)
(* hexadecimal.  A string is the sequence of its bytes.                    *)
(***************************************************************************)
EXTENDS Integers, Sequences

-----------------------------------------------------------------------------
(* Digits *)

IsDigit(b) == b \in 48..57
IsXdigit(b) == IsDigit(b) \/ b \in 65..70 \/ b \in 97..102
Toupper(b) == IF b \in 97..122 THEN b - 32 ELSE b
DigitValue(b) == IF IsDigit(b) THEN b - 48 ELSE Toupper(b) - 55

-----------------------------------------------------------------------------
(* base64 *)

EncodeTable ==
    [j \in 1..65 |-> CASE j \in 1..26  -> 64 + j   \* A to Z
                       [] j \in 27..52 -> 70 + j   \* a to z
                       [] j \in 53..62 -> j - 5    \* 0 to 9
                       [] j = 63 -> 43  [] j = 64 -> 47  [] j = 65 -> 61]
DecodeTable == [b \in {EncodeTable[j] : j \in 1..65} |-> CHOOSE j \in 0..64 : EncodeTable[j + 1] = b]
Pad == EncodeTable[65]

Item1(x) == EncodeTable[(x \div 4) + 1]
Item2(x, y) == EncodeTable[((x % 4) * 16) + (y \div 16) + 1]
Item3(x, y) == EncodeTable[((x % 16) * 4) + (y \div 64) + 1]
Item4(x) == EncodeTable[(x % 64) + 1]

(* The chunks of three bytes; the last one may lack some. *)
OrZero(d, k) == IF k <= Len(d) THEN d[k] ELSE 0
Encoded(d) ==
    [j \in 1..(4 * ((Len(d) + 2) \div 3)) |->
        LET k == 3 * ((j - 1) \div 4)
        IN  CASE j % 4 = 1 -> Item1(d[k + 1])
              [] j % 4 = 2 -> Item2(d[k + 1], OrZero(d, k + 2))
              [] j % 4 = 3 -> IF k + 2 <= Len(d) THEN Item3(d[k + 2], OrZero(d, k + 3)) ELSE Pad
              [] OTHER -> IF k + 3 <= Len(d) THEN Item4(d[k + 3]) ELSE Pad]

Out1(a, b) == ((a * 4) + (b \div 16)) % 256
Out2_Narrow(b, c) == ((b * 16) + (c \div 16)) % 256
Out2(b, c) == ((b * 16) + (c \div 4)) % 256
Out3(c, d) == ((c * 64) + d) % 256

(* How many bytes the last chunk lacks, of a string that is not empty. *)
Lacking(s) == IF s[Len(s)] # Pad THEN 0 ELSE IF s[Len(s) - 1] = Pad THEN 2 ELSE 1
Legal(s) == \A j \in 1..(Len(s) - Lacking(s)) : s[j] \in DOMAIN DecodeTable \ {Pad}
Decoded(s) ==
    [k \in 1..(((Len(s) \div 4) * 3) - Lacking(s)) |->
        LET j == 4 * ((k - 1) \div 3)
            Item(i) == DecodeTable[s[j + i]]
        IN  CASE k % 3 = 1 -> Out1(Item(1), Item(2))
              [] k % 3 = 2 -> Out2(Item(2), Item(3))
              [] OTHER -> Out3(Item(3), Item(4))]

-----------------------------------------------------------------------------
(* Hexadecimal *)

LowerHex(h) == IF h < 10 THEN 48 + h ELSE 87 + h
HexEncoded(d) ==
    [j \in 1..(2 * Len(d)) |->
        LET b == d[(j + 1) \div 2] IN LowerHex(IF j % 2 = 1 THEN b \div 16 ELSE b % 16)]
Xdigitvalue(b) == IF IsXdigit(b) THEN DigitValue(b) ELSE 0
HexDecoded(s) == [j \in 1..(Len(s) \div 2) |-> (Xdigitvalue(s[(2 * j) - 1]) * 16) + Xdigitvalue(s[2 * j])]
=============================================================================
