--------------------------- MODULE MCRsConnection ---------------------------
(***************************************************************************)
(* Small instances of RsConnection for TLC, and the property that compares *)
(* the messages returned with those the peer sent.                         *)
(***************************************************************************)
EXTENDS RsConnection, Messages

(* A frame as the peer may send it to this side.                           *)
From(op, fin, pl) ==
    [op |-> op, fin |-> fin, rsv |-> FALSE, mask |-> Role = "server", pl |-> pl]

(* The two bytes of one character (C3 A9) in two frames, and the first     *)
(* alone; empty payloads; headers that are not accepted.                   *)
Start == From("TEXT", FALSE, <<195>>)
Middle == From("CONTINUATION", FALSE, <<>>)
End == From("CONTINUATION", TRUE, <<169>>)
Ping == From("PING", TRUE, <<1>>)
Close == From("CLOSE", TRUE, <<3, 237>>)
Text == From("TEXT", TRUE, <<195>>)

(* What ends a session, after a ping or a frame with no payload; messages  *)
(* in several frames, with others between them or cut short.               *)
LastFrames ==
    {Text, Close, End, [Text EXCEPT !.mask = ~@], [Text EXCEPT !.op = "RESERVED"]}

Empty == From("BINARY", TRUE, <<>>)

SessionBursts ==
    {<<Ping, f>> : f \in LastFrames} \cup {<<Empty, f>> : f \in {Empty, Close}}
        \cup {<<Start, f, End>> : f \in {Ping, From("PONG", TRUE, <<2>>), Middle}}
        \cup {<<Start, f, Start>> : f \in {End, Middle}}

-----------------------------------------------------------------------------
Data(f) == validate_incoming(f) /\ f.op \in DataOp

Deliverable(m) == m.op = "TEXT" => WellFormed(m.pl)

(* read_message returns exactly the messages in the frames that read_frame *)
(* has given it, in order: fragments are put together, control frames may  *)
(* come between them, and a call that is dropped while it waits for the    *)
(* next fragment leaves the ones before it in place.                       *)
Reassembly ==
    LET expected == SelectSeq(MessagesIn(SelectSeq(taken, Data)), Deliverable)
    IN /\ IsPrefix(delivered, expected)
       /\ (\A t \in Task : pc[t] \notin {"handle", "fragment"}) => delivered = expected
=============================================================================
