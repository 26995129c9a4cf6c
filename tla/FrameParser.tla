---------------------------- MODULE FrameParser -----------------------------
(***************************************************************************)
(* The incremental parser frame::parser (src/src/frame/parser.cpp).  The   *)
(* caller hands parse() one chunk of bytes after the other; a call is a    *)
(* loop whose iterations are the steps of this module.  A frame is the     *)
(* record of header and payload that a call returning COMPLETE hands back. *)
(***************************************************************************)
EXTENDS Codec

CONSTANT Chunks   \* what the caller may pass to one call of parse()

VARIABLES
    state, header, buffer, payload_remaining,   \* class parser
    data,        \* what is left of the chunk the call in progress was given
    result,      \* what the last call returned, "parsing" during a call
    reported     \* the frames handed back by the calls that returned COMPLETE

parser == <<state, header, buffer, payload_remaining>>
vars == <<parser, data, result, reported>>

NoKey == [k \in 1..4 |-> 0]
Cleared == [op |-> 0, fin |-> FALSE, rsv1 |-> FALSE, rsv2 |-> FALSE,
            rsv3 |-> FALSE, mask |-> FALSE, payload_len |-> 0,
            masking_key |-> NoKey]

Init ==
    /\ state = "HEADER" /\ header = Cleared
    /\ buffer = <<>> /\ payload_remaining = 0
    /\ data = <<>> /\ result = "INCOMPLETE" /\ reported = <<>>

KnownOpcode(op) == op \in (0..2) \cup (8..10)

Drop(s, n) == SubSeq(s, n + 1, Len(s))
First(s, n) == SubSeq(s, 1, n)

(* What the two bytes of a header say; a length of 126 or 127 announces    *)
(* the real one.                                                           *)
HeaderOf(first_byte, second_byte, key) ==
    [op |-> first_byte % 16,
     fin |-> first_byte \div 128 = 1, rsv1 |-> (first_byte \div 64) % 2 = 1,
     rsv2 |-> (first_byte \div 32) % 2 = 1, rsv3 |-> (first_byte \div 16) % 2 = 1,
     mask |-> second_byte \div 128 = 1, payload_len |-> second_byte % 128,
     masking_key |-> key]

(* The bytes of the extended length.                                       *)
LengthBytes == IF header.payload_len = 126 THEN 2 ELSE 8

bytes_needed ==
    CASE state = "HEADER" -> 2
      [] state = "PAYLOAD_LENGTH_EXT" ->
            IF header.payload_len <= 125 THEN 0
            ELSE IF header.payload_len <= 65535 THEN 2 ELSE 8
      [] state = "MASKING_KEY" -> IF header.mask THEN 4 ELSE 0
      [] state = "PAYLOAD" -> payload_remaining

is_frame_complete == state = "HEADER" /\ buffer = <<>>

-----------------------------------------------------------------------------
reset ==
    /\ state' = "HEADER" /\ header' = Cleared
    /\ buffer' = <<>> /\ payload_remaining' = 0

(* The application calls reset() between two calls of parse().             *)
Reset ==
    /\ result # "parsing"
    /\ reset
    /\ UNCHANGED <<data, result, reported>>

parse(chunk) ==
    /\ result # "parsing"
    /\ data' = chunk /\ result' = "parsing"
    /\ UNCHANGED <<parser, reported>>

Parsing(s) == result = "parsing" /\ data # <<>> /\ state = s

(* The end of a call: what is left of the chunk is gone.                   *)
Return(r) == result' = r /\ data' = <<>>

(* The header, and the length in it, are known: the payload is to come.    *)
ExpectPayload(h) ==
    /\ state' = IF h.mask THEN "MASKING_KEY" ELSE "PAYLOAD"
    /\ payload_remaining' = h.payload_len
    /\ buffer' = <<>>

parse_header ==
    /\ Parsing("HEADER") /\ Len(data) >= 2
    /\ header' = HeaderOf(data[1], data[2], header.masking_key)
    /\ \/ /\ ~KnownOpcode(header'.op)
          /\ Return("ERROR")
          /\ UNCHANGED <<state, buffer, payload_remaining>>
       \/ /\ KnownOpcode(header'.op)
          /\ data' = Drop(data, 2)
          /\ IF header'.payload_len <= 125
             THEN ExpectPayload(header')
             ELSE /\ state' = "PAYLOAD_LENGTH_EXT" /\ payload_remaining' = 0
                  /\ UNCHANGED buffer
          /\ UNCHANGED result
    /\ UNCHANGED reported

(* A 64-bit length with its first bit set is an error; TooLong stands for  *)
(* the number that is then left in header_.                                *)
TooLong == 65536

parse_payload_length ==
    /\ Parsing("PAYLOAD_LENGTH_EXT") /\ Len(data) >= LengthBytes
    /\ \/ /\ LengthBytes = 8 /\ data[1] >= 128
          /\ header' = [header EXCEPT !.payload_len = TooLong]
          /\ Return("ERROR")
          /\ UNCHANGED <<state, buffer, payload_remaining>>
       \/ /\ LengthBytes = 8 => data[1] < 128
          /\ header' = [header EXCEPT !.payload_len = FromBytes(First(data, LengthBytes))]
          /\ ExpectPayload(header')
          /\ data' = Drop(data, LengthBytes)
          /\ UNCHANGED result
    /\ UNCHANGED reported

parse_masking_key ==
    /\ Parsing("MASKING_KEY") /\ Len(data) >= 4
    /\ header' = [header EXCEPT !.masking_key = [k \in 1..4 |-> data[k]]]
    /\ data' = Drop(data, 4)
    /\ state' = "PAYLOAD" /\ payload_remaining' = header.payload_len
    /\ UNCHANGED <<buffer, result, reported>>

(* The bytes of the chunk that belong to the payload ...                   *)
to_read == IF payload_remaining < Len(data) THEN payload_remaining ELSE Len(data)

(* ... are written, unmasked, to the end of the buffer, which is made      *)
(* longer by their number first.                                           *)
Filled ==
    LET bytes == First(data, to_read)
        plain == IF header.mask
                 THEN copy_and_unmask(bytes, Len(buffer), header.masking_key)
                 ELSE bytes
    IN [i \in 1..(Len(buffer) + to_read) |->
           IF i <= Len(buffer) THEN buffer[i] ELSE plain[i - Len(buffer)]]

(* parse() hands the frame back, resets itself and returns: the bytes that *)
(* follow the frame in the same chunk are not looked at.                   *)
Complete(payload) ==
    /\ reported' = Append(reported, [op |-> header.op, fin |-> header.fin,
                                     rsv1 |-> header.rsv1, mask |-> header.mask,
                                     len |-> header.payload_len,
                                     payload |-> payload])
    /\ reset
    /\ Return("COMPLETE")

(* Mutated form: the end of the payload is noticed in the next iteration,  *)
(* which there is only if the chunk goes on.                               *)
parse_payload_late ==
    /\ Parsing("PAYLOAD")
    /\ \/ /\ payload_remaining = 0
          /\ Complete(buffer)
       \/ /\ payload_remaining > 0
          /\ buffer' = Filled
          /\ payload_remaining' = payload_remaining - to_read
          /\ data' = Drop(data, to_read)
          /\ UNCHANGED <<state, header, result, reported>>

parse_payload ==
    /\ Parsing("PAYLOAD")
    /\ \/ /\ payload_remaining = to_read
          /\ Complete(Filled)
       \/ /\ payload_remaining > to_read
          /\ buffer' = Filled
          /\ payload_remaining' = payload_remaining - to_read
          /\ data' = Drop(data, to_read)
          /\ UNCHANGED <<state, header, result, reported>>

(* The chunk is used up, or too short for the next unit: its last bytes    *)
(* are not kept.                                                           *)
parse_incomplete ==
    /\ result = "parsing"
    /\ \/ data = <<>>
       \/ state = "HEADER" /\ Len(data) < 2
       \/ state = "PAYLOAD_LENGTH_EXT" /\ Len(data) < LengthBytes
       \/ state = "MASKING_KEY" /\ Len(data) < 4
    /\ Return("INCOMPLETE")
    /\ UNCHANGED <<parser, reported>>

(* The iterations of a call.                                               *)
Parse ==
    \/ parse_header \/ parse_payload_length \/ parse_masking_key
    \/ parse_payload \/ parse_incomplete

Next == (\E chunk \in Chunks : parse(chunk)) \/ Reset \/ Parse

Spec == Init /\ [][Next]_vars
=============================================================================
