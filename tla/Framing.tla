------------------------------ MODULE Framing -------------------------------
(***************************************************************************)
(* The way of a frame from the builder of one endpoint to the handler of   *)
(* the other: build_into makes bytes of it, linux_socket::write hands them *)
(* to the kernel in pieces of any size, and one of the library's two       *)
(* decoders takes them off again: the reader of a connection (module       *)
(* FrameReader) or frame::parser, fed by an application (FrameParser).     *)
(***************************************************************************)
EXTENDS Codec, FiniteSetsExt

CONSTANTS
    Decoders,      \* the decoders looked at
    Sendable(_),   \* the frames the sender builds for a decoder
    Malformed(_),  \* byte sequences no decoder accepts
    HttpHead,      \* the HTTP head that comes before the first frame
    Capacity,      \* the number of bytes the kernel holds
    MaxFrames,     \* bound: frames sent
    MaxLoose       \* bound: chunks for the parser once one was not well cut

VARIABLES
    decoder,         \* "client" or "server": a connection's reader; "parser"
    sent,            \* the frames built
    outbound,        \* the bytes write() has not handed to the kernel yet
    link,            \* "up", or "gone"
    foul,            \* malformed bytes have been sent
    \* a connection's reader
    role, permessage_deflate, stage, got, current_header, payload_buffer, frames,
    channel,
    \* a parser and its caller: bytes passed, chunks from the first that was
    \* not well cut
    state, header, buffer, payload_remaining, data, result, reported,
    fed, loose

R == INSTANCE FrameReader
P == INSTANCE FrameParser WITH Chunks <- {}

sender == <<decoder, sent, outbound, link, foul>>
reader == <<role, permessage_deflate, stage, got, current_header, payload_buffer,
            frames>>
parser == <<state, header, buffer, payload_remaining, data, result, reported>>
caller == <<fed, loose>>
vars == <<sender, reader, channel, parser, caller>>

Decoder == {"client", "server", "parser"}

Content(f) == [op |-> f.op, fin |-> f.fin, rsv1 |-> f.rsv1, payload |-> f.payload]

Init ==
    /\ decoder \in Decoders \cap Decoder
    /\ sent = <<>> /\ link = "up" /\ foul = FALSE
    /\ outbound = IF decoder = "parser" THEN <<>> ELSE HttpHead
    /\ channel = <<>>
    /\ role = (IF decoder = "client" THEN "client" ELSE "server")
    /\ permessage_deflate = (decoder # "client")
    /\ R!Init /\ P!Init
    /\ fed = 0 /\ loose = 0

-----------------------------------------------------------------------------
(* One operation of the sender builds a frame; the next one comes after    *)
(* write() has returned.                                                   *)
Encode(f) ==
    IF f.op = 8
    THEN build_close_into(FromBytes(SubSeq(f.payload, 1, 2)),
                          SubSeq(f.payload, 3, Len(f.payload)), f.mask, f.key)
    ELSE build_into(f)

Send(f) ==
    /\ link = "up" /\ ~foul /\ outbound = <<>>
    /\ Len(sent) < MaxFrames
    /\ f.rsv1 => permessage_deflate
    /\ outbound' = Encode(f)
    /\ sent' = Append(sent, f)
    /\ UNCHANGED <<decoder, link, foul, reader, channel, parser, caller>>

SendMalformed(bytes) ==
    /\ link = "up" /\ ~foul /\ outbound = <<>>
    /\ outbound' = bytes /\ foul' = TRUE
    /\ UNCHANGED <<decoder, sent, link, reader, channel, parser, caller>>

(* send() accepts n bytes.                                                 *)
write(n) ==
    /\ link = "up"
    /\ n \in 1..Len(outbound) /\ Len(channel) + n <= Capacity
    /\ channel' = channel \o SubSeq(outbound, 1, n)
    /\ outbound' = SubSeq(outbound, n + 1, Len(outbound))
    /\ UNCHANGED <<decoder, sent, link, foul, reader, parser, caller>>

(* The connection is closed or reset; a reset discards what was in flight. *)
LinkBreaks ==
    /\ link = "up" /\ link' = "gone"
    /\ outbound' = <<>>
    /\ channel' \in {channel, <<>>}
    /\ UNCHANGED <<decoder, sent, foul, reader, parser, caller>>

-----------------------------------------------------------------------------
Reading == decoder # "parser" /\ UNCHANGED <<sender, parser, caller>>

Receive(n) == Reading /\ R!Step(n)

ReceiveFails == Reading /\ link = "gone" /\ R!ReadFails

(* How far the caller of the parser is: the frames passed from their first *)
(* byte to their last, and the bytes passed of the next one.               *)
LengthSize(f) ==
    IF Len(f.payload) <= MaxShort THEN 0
    ELSE IF Len(f.payload) <= MaxMedium THEN 2 ELSE 8

HeaderSize(f) == 2 + LengthSize(f) + 4 * Bit(f.mask)

Size(f) == HeaderSize(f) + Len(f.payload)

Sizes ==
    LET upto[k \in 0..Len(sent)] == IF k = 0 THEN 0 ELSE upto[k - 1] + Size(sent[k])
    IN upto

Passed == Cardinality({k \in DOMAIN sent : Sizes[k] <= fed})

Offset == fed - Sizes[Passed]

(* The units of a frame (the two header bytes, the length, the key, the    *)
(* payload) end here.                                                      *)
UnitEnds(f) == {2, 2 + LengthSize(f), HeaderSize(f), Size(f)}

(* The last frame passed was an empty one.                                 *)
AfterEmpty == Passed > 0 /\ Offset = 0 /\ sent[Passed].payload = <<>>

(* A chunk of n bytes is well cut: it belongs to one frame, ends between   *)
(* units or inside the payload, and does not follow an empty frame.        *)
WellCut(n) ==
    /\ Passed < Len(sent) /\ ~AfterEmpty
    /\ LET f == sent[Passed + 1]
       IN Offset + n \in UnitEnds(f) \cup (HeaderSize(f)..Size(f))

(* The caller passes the next n bytes it has received, wherever they end.  *)
(* Bytes that follow the last frame are malformed ones.                    *)
Feed(n) ==
    /\ decoder = "parser" /\ result # "ERROR"
    /\ n \in 1..Len(channel)
    /\ loose < MaxLoose
    /\ P!parse(SubSeq(channel, 1, n))
    /\ channel' = SubSeq(channel, n + 1, Len(channel))
    /\ fed' = fed + n
    /\ loose' = IF loose = 0 /\ (WellCut(n) \/ fed >= Sizes[Len(sent)])
                THEN 0 ELSE loose + 1
    /\ UNCHANGED <<sender, reader>>

Parse == P!Parse /\ UNCHANGED <<sender, reader, channel, caller>>

(* After an error the caller resets the parser and gives up the stream.    *)
GiveUp ==
    /\ result = "ERROR" /\ link = "up"
    /\ link' = "gone" /\ outbound' = <<>>
    /\ P!Reset
    /\ UNCHANGED <<decoder, sent, foul, reader, channel, caller>>

-----------------------------------------------------------------------------
Sending ==
    \/ \E f \in Sendable(decoder) : Send(f)
    \/ \E bytes \in Malformed(decoder) : SendMalformed(bytes)

Transfer == \E n \in 1..Capacity : write(n)

Decode ==
    \/ \E n \in 1..Capacity : Receive(n) \/ Feed(n)
    \/ ReceiveFails \/ Parse \/ GiveUp

Next == Sending \/ Transfer \/ Decode \/ LinkBreaks

Spec == Init /\ [][Next]_vars

-----------------------------------------------------------------------------
(* A frame as a decoder hands it over.  The payload of a frame that says   *)
(* it is empty is not looked at: the connection's reader leaves the bytes  *)
(* of an earlier frame there.                                              *)
Heard(f) ==
    [op |-> f.op, fin |-> f.fin, rsv1 |-> f.rsv1,
     payload |-> IF f.len = 0 THEN <<>> ELSE f.payload]

Contents(s) == [n \in DOMAIN s |-> Content(s[n])]

Handed(s) == [n \in DOMAIN s |-> Heard(s[n])]

OfReader(s) == IF decoder = "parser" THEN <<>> ELSE s

Stream == INSTANCE FrameStream WITH
    sent <- OfReader(Contents(sent)),
    received <- OfReader(Handed(frames)),
    intact <- stage # "failed" /\ result # "ERROR"

(* The reader of a connection implements the stream of frames: whatever    *)
(* the sizes in which send() and recv() move the bytes and wherever the    *)
(* HTTP head ends in them, the frames come out as they were built, in      *)
(* order, none lost, repeated or made up of the bytes of others.           *)
Implements == Stream!Spec

(* read_one_frame holds no frame back until more bytes come: once every    *)
(* byte written has been taken off the socket, every frame sent, an empty  *)
(* one too, has been handed to handle_frame.                               *)
NothingHeldBack ==
    decoder # "parser" /\ link = "up" /\ ~foul /\ outbound = <<>> /\ channel = <<>>
        => Len(frames) = Len(sent)

(* What a caller of frame::parser can rely on.  If all its chunks so far   *)
(* were well cut then, between two calls, parse() has handed back exactly  *)
(* the frames whose bytes it was given, with their contents, but for an    *)
(* empty frame at the very end, which it still holds; is_frame_complete()  *)
(* says whether it is between frames; and bytes_needed() is the number of  *)
(* bytes up to the end of the unit, but for a length of eight bytes, where *)
(* it says 2.                                                              *)
ParserExact ==
    decoder = "parser" /\ ~foul /\ loose = 0 /\ result # "parsing" =>
        /\ Handed(reported) =
              SubSeq(Contents(sent), 1, IF AfterEmpty THEN Passed - 1 ELSE Passed)
        /\ P!is_frame_complete <=> Offset = 0 /\ ~AfterEmpty
        /\ Offset > 0 =>
              LET f == sent[Passed + 1]
                  missing == Min({u \in UnitEnds(f) : u > Offset}) - Offset
              IN P!bytes_needed = IF Offset = 2 /\ LengthSize(f) = 8 THEN 2 ELSE missing

(* frame::parser is incremental: in whatever chunks the bytes of a frame   *)
(* are fed to it, parse() has handed the frame back when it has been given *)
(* the last of them, and not before.                                       *)
ParserIncremental ==
    decoder = "parser" /\ ~foul /\ result # "parsing" => Len(reported) = Passed
=============================================================================
