---------------------------- MODULE FrameReader -----------------------------
(***************************************************************************)
(* How a connection gets its frames off the socket: read_until takes the   *)
(* HTTP head of the handshake byte by byte, then read_one_frame takes the  *)
(* parts of a frame with read_exact, each of which loops over recv() calls *)
(* that return any number of bytes (src/src/net/linux_socket.cpp,          *)
(* src/src/connection.cpp).                                                *)
(***************************************************************************)
EXTENDS Codec

VARIABLES
    role, permessage_deflate,   \* role_ and permessage_deflate_, fixed by now
    stage,           \* what is being read; "failed" once the reader has given up
    got,             \* the bytes of it that recv() has returned so far
    current_header,
    payload_buffer,
    frames,          \* the frames handed to handle_frame
    channel          \* the bytes the kernel holds for this socket

settings == <<role, permessage_deflate>>
vars == <<settings, stage, got, current_header, payload_buffer, frames, channel>>

Delimiter == <<13, 10, 13, 10>>

Init ==
    /\ stage = "upgrade" /\ got = <<>>
    /\ current_header = [op |-> 0, fin |-> FALSE, rsv |-> <<FALSE, FALSE, FALSE>>,
                         mask |-> FALSE, payload_len |-> 0,
                         masking_key |-> <<0, 0, 0, 0>>]
    /\ payload_buffer = <<>> /\ frames = <<>>

validate_frame_header(h) ==
    /\ h.rsv[1] => permessage_deflate /\ h.op \in {1, 2}
    /\ ~h.rsv[2] /\ ~h.rsv[3]
    /\ h.op \in (0..2) \cup (8..10)
    /\ h.mask = (role = "server")

(* How many bytes the read in progress asks for.                           *)
Wanted ==
    CASE stage = "upgrade" -> Len(got) + 1
      [] stage = "header" -> 2
      [] stage = "length" -> IF current_header.payload_len = 126 THEN 2 ELSE 8
      [] stage = "key" -> 4
      [] stage = "payload" -> current_header.payload_len

(* recv() returns n bytes, appended to what the loop already has.          *)
Recv(n) == got \o SubSeq(channel, 1, n)

Consume(n) == channel' = SubSeq(channel, n + 1, Len(channel))

(* The loop of read_raw goes on: fewer bytes have come than were asked for. *)
read_raw(n) ==
    /\ stage # "failed"
    /\ n \in 1..Len(channel) /\ Len(got) + n < Wanted
    /\ got' = Recv(n) /\ Consume(n)
    /\ UNCHANGED <<stage, current_header, payload_buffer, frames, settings>>

(* The last bytes of the read have come.                                   *)
read_exact(s, n) ==
    /\ stage = s
    /\ n \in 1..Len(channel) /\ Len(got) + n = Wanted
    /\ Consume(n)

(* Mutated form: whatever has arrived is taken with the head.              *)
read_until_all(n) ==
    /\ stage = "upgrade" /\ channel # <<>> /\ n = Len(channel)
    /\ channel' = <<>>
    /\ IF \E k \in 1..Len(Recv(n)) : k >= 4 /\ SubSeq(Recv(n), k - 3, k) = Delimiter
       THEN stage' = "header" /\ got' = <<>>
       ELSE got' = Recv(n) /\ UNCHANGED stage
    /\ UNCHANGED <<current_header, payload_buffer, frames, settings>>

read_until(n) ==
    /\ read_exact("upgrade", n)
    /\ LET k == Len(Recv(n))
       IN IF k >= Len(Delimiter) /\ SubSeq(Recv(n), k - 3, k) = Delimiter
          THEN stage' = "header" /\ got' = <<>>
          ELSE got' = Recv(n) /\ UNCHANGED stage
    /\ UNCHANGED <<current_header, payload_buffer, frames, settings>>

handle_frame(h, payload) ==
    frames' = Append(frames, [op |-> h.op, fin |-> h.fin, rsv1 |-> h.rsv[1],
                              len |-> h.payload_len, payload |-> payload])

(* Mutated form: an empty payload is read as any other.                    *)
Checked_then_read(h) ==
    /\ stage' = IF validate_frame_header(h) THEN "payload" ELSE "failed"
    /\ UNCHANGED frames

(* The header is complete: it is checked, and an empty payload is not read *)
(* (payload_buffer_ then still holds the payload of an earlier frame).     *)
Checked(h) ==
    \/ /\ ~validate_frame_header(h)
       /\ stage' = "failed"
       /\ UNCHANGED frames
    \/ /\ validate_frame_header(h) /\ h.payload_len = 0
       /\ stage' = "header"
       /\ handle_frame(h, payload_buffer)
    \/ /\ validate_frame_header(h) /\ h.payload_len > 0
       /\ stage' = "payload"
       /\ UNCHANGED frames

KeyOrCheck(h) ==
    IF h.mask THEN stage' = "key" /\ UNCHANGED frames ELSE Checked(h)

parse_header(n) ==
    /\ read_exact("header", n)
    /\ LET b == Recv(n)
           bit(k) == (b[1] \div 2^k) % 2 = 1
       IN current_header' =
            [current_header EXCEPT
                !.op = b[1] % 16, !.fin = bit(7), !.rsv = <<bit(6), bit(5), bit(4)>>,
                !.mask = b[2] >= 128, !.payload_len = b[2] % 128]
    /\ IF current_header'.payload_len \in {126, 127}
       THEN stage' = "length" /\ UNCHANGED frames
       ELSE KeyOrCheck(current_header')
    /\ got' = <<>>
    /\ UNCHANGED <<payload_buffer, settings>>

parse_extended_length(n) ==
    /\ read_exact("length", n)
    /\ current_header' = [current_header EXCEPT !.payload_len = FromBytes(Recv(n))]
    /\ KeyOrCheck(current_header')
    /\ got' = <<>>
    /\ UNCHANGED <<payload_buffer, settings>>

parse_masking_key(n) ==
    /\ read_exact("key", n)
    /\ current_header' = [current_header EXCEPT !.masking_key = Recv(n)]
    /\ Checked(current_header')
    /\ got' = <<>>
    /\ UNCHANGED <<payload_buffer, settings>>

read_payload(n) ==
    /\ read_exact("payload", n)
    /\ payload_buffer' =
          IF current_header.mask THEN apply_mask(Recv(n), current_header.masking_key)
                                 ELSE Recv(n)
    /\ handle_frame(current_header, payload_buffer')
    /\ stage' = "header" /\ got' = <<>>
    /\ UNCHANGED <<current_header, settings>>

(* recv() says that the peer has gone, or fails: the reader stops, with    *)
(* what it has read of a frame thrown away.                                *)
ReadFails ==
    /\ stage # "failed" /\ channel = <<>>
    /\ stage' = "failed"
    /\ UNCHANGED <<got, current_header, payload_buffer, frames, channel, settings>>

Step(n) ==
    \/ read_raw(n) \/ read_until(n)
    \/ parse_header(n) \/ parse_extended_length(n) \/ parse_masking_key(n)
    \/ read_payload(n)
=============================================================================
