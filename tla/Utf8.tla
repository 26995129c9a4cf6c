-------------------------------- MODULE Utf8 --------------------------------
(***************************************************************************)
(* The validation of text messages (src/include/wscpp/detail/utf8.hpp).    *)
(* Bytes are numbers, data is a sequence of them.                          *)
(***************************************************************************)
EXTENDS Integers, Sequences

(* The number of bytes of the character that starts at data[i], 0 when     *)
(* there is no well-formed character there.                                *)
CharLength(data, i) ==
    LET c == data[i]
        Continues(n) ==          \* (data[i + k] & 0xC0) == 0x80 for k up to n
            /\ i + n <= Len(data)
            /\ \A k \in 1..n : data[i + k] \div 64 = 2
    IN CASE c <= 127 -> 1
         [] c \in 194..223 /\ Continues(1) -> 2
         [] /\ c \in 224..239 /\ Continues(2)
            /\ c = 224 => data[i + 1] >= 160
            /\ c = 237 => data[i + 1] < 160 -> 3
         [] /\ c \in 240..244 /\ Continues(3)
            /\ c = 240 => data[i + 1] >= 144
            /\ c = 244 => data[i + 1] < 144 -> 4
         [] OTHER -> 0

(* The first loop skips eight ASCII bytes at a time, the second one goes   *)
(* from character to character.                                            *)
is_valid_utf8(data) ==
    LET end == Len(data) + 1
        ascii[i \in 1..end] ==
            IF i + 8 <= end /\ \A k \in 0..7 : data[i + k] < 128
            THEN ascii[i + 8] ELSE i
        valid[i \in 1..end] ==
            i < end => CharLength(data, i) > 0 /\ valid[i + CharLength(data, i)]
    IN valid[ascii[1]]

-----------------------------------------------------------------------------
(* A character of UTF-8, from the scalar values: the shortest encoding of  *)
(* a number below 0x110000 that is not a surrogate.                        *)
Scalar(b) ==
    LET low(i) == b[i] % 64
    IN CASE Len(b) = 1 -> b[1]
         [] Len(b) = 2 -> (b[1] % 32) * 64 + low(2)
         [] Len(b) = 3 -> (b[1] % 16) * 4096 + low(2) * 64 + low(3)
         [] Len(b) = 4 -> (b[1] % 8) * 262144 + low(2) * 4096 + low(3) * 64 + low(4)

Utf8Encode(c) ==
    LET low(k) == 128 + ((c \div k) % 64)
    IN CASE c < 128 -> <<c>>
         [] c \in 128..2047 -> <<192 + (c \div 64), low(1)>>
         [] c \in 2048..65535 -> <<224 + (c \div 4096), low(64), low(1)>>
         [] OTHER -> <<240 + (c \div 262144), low(4096), low(64), low(1)>>

Character(b) ==
    /\ Scalar(b) \notin 55296..57343 /\ Scalar(b) <= 1114111
    /\ b = Utf8Encode(Scalar(b))

WellFormed(s) ==
    LET from[i \in 1..(Len(s) + 1)] ==
            \/ i = Len(s) + 1
            \/ \E n \in 1..4 : /\ i + n <= Len(s) + 1
                               /\ Character(SubSeq(s, i, i + n - 1))
                               /\ from[i + n]
    IN from[1]
=============================================================================
