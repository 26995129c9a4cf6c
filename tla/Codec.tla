------------------------------- MODULE Codec --------------------------------
(***************************************************************************)
(* Frames as bytes: the frame builder (src/src/frame/builder.cpp) and the  *)
(* two masking loops (src/include/wscpp/detail/mask.hpp).                  *)
(***************************************************************************)
EXTENDS Integers, Sequences

CONSTANTS
    MaxShort,   \* the longest payload with a 7-bit length: 125
    MaxMedium   \* the longest payload with a 16-bit length: 65535

ASSUME CodecAssumption ==
    MaxShort \in 1..125 /\ MaxMedium \in MaxShort..65535

Byte == 0..255

(* A frame: opcode, flags, the masking key (used when mask is set) and the *)
(* payload before masking.                                                 *)
Frame == [op : 0..15, fin : BOOLEAN, rsv1 : BOOLEAN, mask : BOOLEAN,
          key : [1..4 -> Byte], payload : Seq(Byte)]

Bit(b) == IF b THEN 1 ELSE 0

(* The k-th byte of a big-endian n-byte number.                            *)
BigEndian(v, n) ==
    LET shifted[k \in 1..n] == IF k = n THEN v ELSE shifted[k + 1] \div 256
    IN [k \in 1..n |-> shifted[k] % 256]

(* The number with these bytes, two or eight of them.                      *)
FromBytes(bytes) ==
    LET pair(k) == bytes[k] * 256 + bytes[k + 1]
    IN IF Len(bytes) = 2 THEN pair(1)
       ELSE ((pair(1) * 65536 + pair(3)) * 65536 + pair(5)) * 65536 + pair(7)

Xor(a, b) ==
    LET bit(p) == ((a \div p + b \div p) % 2) * p
    IN bit(1) + bit(2) + bit(4) + bit(8) + bit(16) + bit(32) + bit(64) + bit(128)

-----------------------------------------------------------------------------
(* A masking loop goes over the data in words of 64, 32, 8, 4 or 1 bytes,  *)
(* counted here from i = 0: the word at i has width[i] bytes.  The bytes   *)
(* of a longer word meet the key from its first byte on; a single byte     *)
(* meets the key byte that its position, offset + i, selects.              *)
Words(data, key, width, offset) ==
    LET n == Len(data)
        from[i \in 0..n] ==
            IF i = n THEN <<>>
            ELSE LET w == width[i]
                     k0 == IF w = 1 THEN offset + i ELSE 0
                 IN [j \in 1..w |-> Xor(data[i + j], key[1 + ((k0 + j - 1) % 4)])]
                    \o from[i + w]
    IN from[0]

apply_mask(data, key) ==
    LET Fits(i, w) == i + w <= Len(data)
        width == [i \in 0..(Len(data) - 1) |->
                    CASE Fits(i, 64) -> 64 [] Fits(i, 32) -> 32
                      [] Fits(i, 8) -> 8 [] Fits(i, 4) -> 4 [] OTHER -> 1]
    IN Words(data, key, width, 0)

(* The bytes src come at dst_offset of the payload.                        *)
copy_and_unmask(src, dst_offset, key) ==
    LET Fits(i, w) == (dst_offset + i) % w = 0 /\ i + w <= Len(src)
        width == [i \in 0..(Len(src) - 1) |->
                    IF Fits(i, 8) THEN 8 ELSE IF Fits(i, 4) THEN 4 ELSE 1]
    IN Words(src, key, width, dst_offset)

-----------------------------------------------------------------------------
append_payload_length(mask, size) ==
    IF size <= MaxShort THEN <<mask * 128 + size>>
    ELSE IF size <= MaxMedium THEN <<mask * 128 + 126>> \o BigEndian(size, 2)
    ELSE <<mask * 128 + 127>> \o BigEndian(size, 8)

build_into(f) ==
    <<128 * Bit(f.fin) + 64 * Bit(f.rsv1) + f.op>>
        \o append_payload_length(Bit(f.mask), Len(f.payload))
        \o (IF f.mask THEN f.key \o apply_mask(f.payload, f.key) ELSE f.payload)

(* The frame of a close code and a reason; the code takes its own path     *)
(* when there is a reason.                                                 *)
build_close_into(code, reason, mask, key) ==
    LET payload == BigEndian(code, 2) \o reason
    IN IF reason = <<>>
       THEN build_into([op |-> 8, fin |-> TRUE, rsv1 |-> FALSE, mask |-> mask,
                        key |-> key, payload |-> payload])
       ELSE <<128 + 8>> \o append_payload_length(Bit(mask), Len(payload))
            \o (IF mask THEN key \o apply_mask(payload, key) ELSE payload)
=============================================================================
