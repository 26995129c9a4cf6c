----------------------------- MODULE MCFraming ------------------------------
(***************************************************************************)
(* A small instance of Framing for TLC, and reference definitions of the   *)
(* masking and of UTF-8 that the code's own loops are compared with.       *)
(***************************************************************************)
EXTENDS Framing, Utf8

Key == <<17, 34, 68, 136>>

Bytes(n) == [i \in 1..n |-> (37 * i + n) % 256]

Built(op, fin, rsv1, mask, n) ==
    [op |-> op, fin |-> fin, rsv1 |-> rsv1, mask |-> mask, key |-> Key,
     payload |-> Bytes(n)]

Masks(d) == CASE d = "server" -> {TRUE} [] d = "client" -> {FALSE}
              [] OTHER -> BOOLEAN

(* With MaxShort = 2 and MaxMedium = 5 the three forms of the length, each *)
(* at its edges, and payloads longer than one and two words of the masking *)
(* loops; and an empty frame.                                              *)
MCSendable(d) ==
    {Built(1, n = 5, FALSE, mask, n) : mask \in Masks(d), n \in {2, 3, 5, 6}}
    \cup {Built(2, TRUE, TRUE, mask, 11) : mask \in Masks(d)}
    \cup {Built(8, TRUE, FALSE, mask, 4) : mask \in Masks(d)}
    \cup {Built(9, TRUE, FALSE, d = "server", 0)}

(* Short frames, with a payload.                                           *)
ShortFrames(d) == {Built(1, TRUE, FALSE, mask, 2) : mask \in Masks(d)}

WellFormedOnly(d) == {}

(* A reserved opcode; a mask flag that is wrong for the role; for the      *)
(* parser, a 64-bit length with its first bit set.                         *)
MCMalformed(d) ==
    {<<131, 1, 7>>}
    \cup IF d = "parser" THEN {<<130, 127, 128, 0, 0, 0, 0, 0, 0, 1>>}
         ELSE {build_into(Built(1, TRUE, FALSE, d = "client", 1))}

MCHttpHead == <<72, 13, 10, 13, 10>>

-----------------------------------------------------------------------------
(* RFC 6455: byte i of the payload meets byte i mod 4 of the key.          *)
Masked(data_, off, key) ==
    [i \in 1..Len(data_) |-> Xor(data_[i], key[1 + ((off + i - 1) % 4)])]

ASSUME MaskLoops ==
    /\ \A n \in 0..140 : apply_mask(Bytes(n), Key) = Masked(Bytes(n), 0, Key)
    /\ \A n \in 0..20, off \in 0..9 :
          copy_and_unmask(Bytes(n), off, Key) = Masked(Bytes(n), off, Key)

(* The bytes at the edges of the ranges the code tells apart.              *)
Edges == {65, 127, 128, 143, 144, 159, 160, 191, 192, 193, 194, 223, 224, 237,
          239, 240, 244, 245}

Ascii(n) == [i \in 1..n |-> 65]

ASSUME Utf8Loops ==
    /\ \A n \in 0..3 : \A s \in [1..n -> Edges] : is_valid_utf8(s) = WellFormed(s)
    /\ \A a, b \in Edges, c \in {240, 244}, d \in {128, 191, 192} :
          is_valid_utf8(<<c, a, b, d>>) = WellFormed(<<c, a, b, d>>)
    /\ \A n \in 5..9, a, b \in Edges :
          is_valid_utf8(Ascii(n) \o <<a, b>>) = WellFormed(Ascii(n) \o <<a, b>>)
=============================================================================
