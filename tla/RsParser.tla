------------------------------ MODULE RsParser ------------------------------
(***************************************************************************)
(* The incremental frame parser of the Rust companion, ws-rs (struct       *)
(* Parser of src/rust/ws-rs/src/frame/parser.rs), as operators.            *)
(*                                                                         *)
(* In the byte stream a header, with its extended length and masking key,  *)
(* is one unit and a payload byte another: until the whole header is there *)
(* the parser only remembers its parts.                                    *)
(***************************************************************************)
EXTENDS Integers, Sequences

Byte == 0..255
DataOp == {"TEXT", "BINARY", "CONTINUATION"}
Opcode == DataOp \cup {"CLOSE", "PING", "PONG"}

(* A frame from the peer; rsv stands for any of the three RSV bits, and    *)
(* RESERVED for a header the parser refuses.                               *)
InFrame == [op : Opcode \cup {"RESERVED"}, fin : BOOLEAN, rsv : BOOLEAN,
            mask : BOOLEAN, pl : Seq(Byte)]

(* The stream is made of units: a header and the bytes of a payload.       *)
HeaderUnit == [op : Opcode \cup {"RESERVED"}, fin : BOOLEAN, rsv : BOOLEAN,
               mask : BOOLEAN, len : Nat]
Unit == HeaderUnit \cup [byte : Byte]

(* The header of no frame: what the parser holds before the first.         *)
NoHeader == [op |-> "TEXT", fin |-> FALSE, rsv |-> FALSE, mask |-> FALSE, len |-> 0]

(* struct Parser.                                                          *)
Parser == [state : {"Header", "Payload"}, header : HeaderUnit, remaining : Nat,
           buffer : Seq(Byte)]

(* A call of parse gives its result, the parser after it and the units it  *)
(* did not consume.                                                        *)
Parsed(result, p, rest) == [result |-> result, parser |-> p, rest |-> rest]

parse_header(p, unit) ==
    [p EXCEPT !.state = "Payload", !.header = unit, !.remaining = unit.len,
              !.buffer = <<>>]

(* Mutated form: all the data is counted as payload of this frame.         *)
parse_payload_all(p, data) ==
    LET to_read == IF p.remaining < Len(data) THEN p.remaining ELSE Len(data)
        bytes == [i \in 1..to_read |-> data[i].byte]
        filled == [p EXCEPT !.buffer = @ \o bytes, !.remaining = @ - Len(data)]
    IN IF data # <<>> /\ filled.remaining <= 0
       THEN Parsed("Complete", [filled EXCEPT !.state = "Header"],
                   SubSeq(data, to_read + 1, Len(data)))
       ELSE Parsed("Incomplete", filled, SubSeq(data, to_read + 1, Len(data)))

(* The end of an empty payload is noticed only when more bytes are there.  *)
parse_payload(p, data) ==
    LET to_read == IF p.remaining < Len(data) THEN p.remaining ELSE Len(data)
        bytes == [i \in 1..to_read |-> data[i].byte]
        filled == [p EXCEPT !.buffer = @ \o bytes, !.remaining = @ - to_read]
    IN IF data # <<>> /\ filled.remaining = 0
       THEN Parsed("Complete", [filled EXCEPT !.state = "Header"],
                   SubSeq(data, to_read + 1, Len(data)))
       ELSE Parsed("Incomplete", filled, SubSeq(data, to_read + 1, Len(data)))

parse(p, data) ==
    IF data = <<>> THEN Parsed("Incomplete", p, data)
    ELSE IF p.state = "Payload" THEN parse_payload(p, data)
    ELSE IF data[1].op = "RESERVED" THEN Parsed("Error", p, data)
    ELSE parse_payload(parse_header(p, data[1]), Tail(data))

take_frame(p) ==
    [op |-> p.header.op, fin |-> p.header.fin, rsv |-> p.header.rsv,
     mask |-> p.header.mask, pl |-> p.buffer]

(* A frame as units of the stream.                                         *)
Units(f) ==
    <<[op |-> f.op, fin |-> f.fin, rsv |-> f.rsv, mask |-> f.mask, len |-> Len(f.pl)]>>
        \o [i \in 1..Len(f.pl) |-> [byte |-> f.pl[i]]]

(* The stream of a sequence of frames.                                     *)
Stream(fs) ==
    LET from[i \in 1..(Len(fs) + 1)] ==
            IF i > Len(fs) THEN <<>> ELSE Units(fs[i]) \o from[i + 1]
    IN from[1]
=============================================================================
