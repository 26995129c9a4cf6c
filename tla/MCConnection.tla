---------------------------- MODULE MCConnection ----------------------------
(***************************************************************************)
(* Small instances of Connection for TLC, and the properties that compare  *)
(* what the application is given with what the peer sent.                  *)
(***************************************************************************)
EXTENDS Connection, Messages

(* Payload words: Good and Other are text; Euro1 and Euro2 are the two     *)
(* halves of a text whose first character (E2 82 AC) they divide.          *)
Good == 16706
Other == 77
Euro1 == 57986
Euro2 == 44097

(* A frame as a client may send it to this side.                           *)
From(op, fin, pl) ==
    [op |-> op, fin |-> fin, rsv |-> FALSE, mask |-> Role = "server", pl |-> pl]

BadHeader == [From("TEXT", TRUE, <<Good>>) EXCEPT !.rsv = TRUE]
BadOpcode == [From("TEXT", TRUE, <<Good>>) EXCEPT !.op = "RESERVED"]
BadMask == [From("PING", TRUE, <<Good>>) EXCEPT !.mask = ~@]

(* Messages in one frame and in several, and every way to break the rules. *)
SessionFrames ==
    {From("TEXT", TRUE, <<w>>) : w \in {Good, Euro1}}
        \cup {From("TEXT", FALSE, <<Euro1>>), From("BINARY", TRUE, <<Euro1>>),
              From("BINARY", FALSE, <<Good>>)}
        \cup {From("CONTINUATION", fin, <<Euro2>>) : fin \in BOOLEAN}
        \cup {From("CONTINUATION", TRUE, <<Good>>), From("PING", TRUE, <<Good>>),
              From("PING", TRUE, <<Other>>), From("CLOSE", TRUE, <<Other>>),
              BadHeader}

(* One frame of each kind, for the runs about threads.                     *)
KindFrames ==
    {From("TEXT", TRUE, <<Good>>), From("PING", TRUE, <<Other>>),
     From("PONG", TRUE, <<Other>>), From("CLOSE", TRUE, <<Other>>), BadMask,
     BadOpcode}

EmptyFrames ==
    {From(op, TRUE, pl) : op \in {"TEXT", "PING", "CLOSE"}, pl \in {<<>>, <<Good>>}}

(* The application threads are interchangeable when all of them are active. *)
AppSymmetry == Permutations(App)

-----------------------------------------------------------------------------
Data(f) == validate_frame_header(f) /\ f.op \in DataOp

(* The message handle_frame has ready for on_message_.                     *)
Pending ==
    IF pc[Reader] = "deliver"
    THEN <<[op |-> arg[Reader].op, pl |-> arg[Reader].pl]>> ELSE <<>>

Deliverable(m) == m.op = "TEXT" => WellFormed(Bytes(m.pl))

(* on_message_ is called with exactly the messages the peer sent, in       *)
(* order: handle_frame reassembles fragments, lets control frames come     *)
(* between them and keeps nothing from one message to the next.            *)
Reassembly ==
    delivered \o Pending = SelectSeq(MessagesIn(SelectSeq(rx, Data)), Deliverable)

(* The pongs written carry the payloads of the pings read, in order, and   *)
(* only the last ones may be missing (handle_ping_frame).                  *)
PongsEchoPings ==
    LET pongs == SelectSeq(wire, LAMBDA w : w.by = "pong")
        pings == SelectSeq(rx, LAMBDA f : validate_frame_header(f) /\ f.op = "PING")
    IN /\ Len(pongs) <= Len(pings)
       /\ \A n \in DOMAIN pongs :
             pongs[n].frame = [op |-> "PONG", fin |-> TRUE, pl |-> pings[n].pl]
=============================================================================
