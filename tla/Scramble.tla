------------------------------ MODULE Scramble ------------------------------
(***************************************************************************)
(* connection::scramble (NetCommon/net_connection.h): the transformation   *)
(* of 64-bit words whose result proves that a client is one.               *)
(*                                                                         *)
(* A word is eight bytes, byte 0 the lowest, of two nibbles of four bits:  *)
(* the code's masks and shifts move nibbles.                               *)
(***************************************************************************)
EXTENDS Naturals, Sequences

Nibble == [0..3 -> BOOLEAN]
Byte == [hi : Nibble, lo : Nibble]
Word == [0..7 -> Byte]

\* The nibble, and the word, of the given hexadecimal digits, highest first.
Hex(digit) == [k \in 0..3 |-> (digit \div 2^k) % 2 = 1]

HexWord(digits) ==
    [i \in 0..7 |-> [hi |-> Hex(digits[15 - 2 * i]), lo |-> Hex(digits[16 - 2 * i])]]

\* 0xDEADBEEFC0DECAFE and 0xC0DEFACE12345678
KeyIn == HexWord(<<13, 14, 10, 13, 11, 14, 14, 15, 12, 0, 13, 14, 12, 10, 15, 14>>)
KeyOut == HexWord(<<12, 0, 13, 14, 15, 10, 12, 14, 1, 2, 3, 4, 5, 6, 7, 8>>)

XorNibble(a, b) == [k \in 0..3 |-> a[k] # b[k]]

Xor(v, w) ==
    [i \in 0..7 |-> [hi |-> XorNibble(v[i].hi, w[i].hi), lo |-> XorNibble(v[i].lo, w[i].lo)]]

\* (w & 0xF0F0F0F0F0F0F0) >> 4 | (w & 0x0F0F0F0F0F0F0F) << 4: the masks have 14
\* digits, for seven bytes, so that the highest byte is cleared.
SwapNibbles(w) ==
    [i \in 0..7 |-> IF i = 7 THEN [hi |-> Hex(0), lo |-> Hex(0)]
                    ELSE [hi |-> w[i].lo, lo |-> w[i].hi]]

scramble(nInput) == Xor(SwapNibbles(Xor(nInput, KeyIn)), KeyOut)

\* Do two words agree but for the highest byte?
SameLowBytes(v, w) == \A i \in 0..6 : v[i] = w[i]
=============================================================================
