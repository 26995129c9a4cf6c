---------------------------- MODULE RsConnection ----------------------------
(***************************************************************************)
(* The connection of the Rust companion, ws-rs (struct Connection of       *)
(* src/rust/ws-rs/src/connection.rs): any number of tasks that read        *)
(* messages, send frames and close, and the mutexes between them.          *)
(*                                                                         *)
(* A step ends where a task can be suspended with other tasks seeing what  *)
(* it did.  The mutexes of open, last_close and permessage_deflate are     *)
(* held for one access each, and that of the parser is only ever taken by  *)
(* the holder of read_state; the other four are modelled as locks.  The    *)
(* blocking connection (src/rust/ws-rs/src/blocking/connection.rs) is the  *)
(* same code over mutexes that do not queue: Fifo = FALSE.                 *)
(*                                                                         *)
(* The session has not negotiated permessage-deflate.  The byte stream is  *)
(* that of RsParser, in units.                                             *)
(***************************************************************************)
EXTENDS Utf8, CloseStatus, RsParser

CONSTANTS
    Task, NoTask,
    Readers,      \* the tasks that loop on read_message
    Callers,      \* the tasks that send and close
    Echo,         \* the messages a reader sends back, by opcode (echo_session)
    Cancelled,    \* the readers that may give up waiting for a frame
    Fifo,         \* TRUE for tokio's mutexes, which are granted in turn
    Role,         \* "client" or "server"
    Bursts,       \* the sequences of frames the peer may send at once
    Ops,          \* what callers call: opcodes, "RAW" for send_raw
    CloseCodes,   \* the codes they pass to close
    MaxCalls,     \* bound: calls of send_* and close
    MaxBursts     \* bound: how often the peer sends

MaxU16 == 65535
U16 == 0..MaxU16
ASSUME TaskAssumption == NoTask \notin Task

ASSUME OpsAssumption == Ops \subseteq DataOp \cup {"PING", "PONG", "RAW"}

ASSUME RsAssumption ==
    /\ Readers \subseteq Task /\ Callers \subseteq Task /\ Cancelled \subseteq Readers
    /\ Echo \subseteq {"TEXT", "BINARY"}
    /\ Fifo \in BOOLEAN
    /\ Role \in {"client", "server"}
    /\ Bursts \subseteq Seq(InFrame)
    /\ CloseCodes \subseteq U16
    /\ MaxCalls \in Nat /\ MaxBursts \in Nat

VARIABLES
    \* struct Connection, with the ReadState and FragmentState inside it
    open, last_close, parser, buf, fragment, outbound,
    \* the locks and the tasks
    holder, queue,
    pc,
    frame,        \* the frame read_frame has returned to each task
    out, after,   \* the frame each task sends, and what it does next
    over,         \* the readers whose loop has ended
    calls,
    \* the stream, and what the peer did
    written,      \* the pieces of the frame being written that are out
    socket, link, bursts,
    wire,         \* the pieces written, each with the frame it was meant for
    sent,
    \* what the application saw
    taken,        \* the frames read_frame has taken off the stream
    delivered,    \* the messages read_message has returned
    ahead         \* the reads that finished while a task waits to write

state == <<open, last_close, parser, buf, fragment, outbound>>
tasks == <<holder, queue, pc, frame, out, after, over, calls>>
peer == <<bursts, sent>>
stream == <<written, socket, link, wire, peer>>
seen == <<taken, delivered, ahead>>
vars == <<state, tasks, stream, seen>>

Lock == {"read_state", "fragment", "outbound", "stream"}

(* The lock a task waits for at each suspension point.                     *)
Awaits(p) ==
    CASE p = "read_state" -> "read_state" [] p = "want_read" -> "stream"
      [] p = "fragment" -> "fragment" [] p = "outbound" -> "outbound"
      [] p = "want_write" -> "stream" [] OTHER -> "none"

Sending == {"outbound", "want_write", "writing"}
Point == {"idle", "is_open", "read_state", "parse", "want_read", "reading",
          "handle", "fragment", "clear_open"} \cup Sending

(* A frame this side sends, as far as anything here tells two apart.       *)
OutFrame == [op : Opcode, pl : Seq(Byte)]

NoFragment == [active |-> FALSE, op |-> "TEXT", buffer |-> <<>>]
NoFrame == [op |-> "PONG", fin |-> TRUE, rsv |-> FALSE, mask |-> FALSE, pl |-> <<>>]
Nothing == [op |-> "PONG", pl |-> <<>>]

Init ==
    /\ open = TRUE /\ last_close = 0 /\ buf = <<>>
    /\ parser = [state |-> "Header", header |-> NoHeader, remaining |-> 0,
                 buffer |-> <<>>]
    /\ fragment = NoFragment /\ outbound = Nothing
    /\ holder = [l \in Lock |-> NoTask] /\ queue = [l \in Lock |-> <<>>]
    /\ pc = [t \in Task |-> "idle"] /\ frame = [t \in Task |-> NoFrame]
    /\ out = [t \in Task |-> Nothing] /\ after = [t \in Task |-> "return"]
    /\ over = {} /\ calls = 0
    /\ written = 0 /\ socket = <<>> /\ link = "up" /\ wire = <<>>
    /\ sent = <<>> /\ bursts = 0
    /\ taken = <<>> /\ delivered = <<>> /\ ahead = [t \in Task |-> 0]

-----------------------------------------------------------------------------
(* Close codes (src/rust/ws-rs/src/close.rs) *)

is_valid_close_code(code) ==
    code \in (1000..1003) \cup (1007..1011) \cup (3000..4999)

sanitize_close_code(code) == IF is_valid_close_code(code) THEN code ELSE 1002

(* Mutated form: the peer's code is sent back as it is.                    *)
parse_close_payload_raw(pl) ==
    IF Len(pl) < 2 THEN 1000 ELSE pl[1] * 256 + pl[2]

parse_close_payload(pl) ==
    IF Len(pl) < 2 THEN 1000 ELSE sanitize_close_code(pl[1] * 256 + pl[2])

build_close(code) == [op |-> "CLOSE", pl |-> <<code \div 256, code % 256>>]

-----------------------------------------------------------------------------
(* Locks and control *)

(* Mutated form: whoever asks first gets the lock.                         *)
Granted_unfair(t, l) == holder[l] = NoTask

Granted(t, l) == holder[l] = NoTask /\ (Fifo => Head(queue[l]) = t)

(* The queue q once t has left it.                                         *)
Without(q, t) ==
    LET i == CHOOSE i \in DOMAIN q : q[i] = t
    IN SubSeq(q, 1, i - 1) \o SubSeq(q, i + 1, Len(q))

(* Task t leaves the queue it stands in and joins that of the lock it      *)
(* waits for at p.                                                         *)
Requeue(t, p) ==
    queue' = [l \in Lock |->
                 LET left == IF l = Awaits(pc[t])
                             THEN Without(queue[l], t)
                             ELSE queue[l]
                 IN IF l = Awaits(p) THEN Append(left, t) ELSE left]

(* Task t takes the locks in take and drops those of its own in free.      *)
Relock(t, take, free) ==
    holder' = [l \in Lock |-> IF l \in free /\ holder[l] \in {t, NoTask} THEN NoTask
                              ELSE IF l \in take THEN t ELSE holder[l]]

Move(t, p, take, free) ==
    pc' = [pc EXCEPT ![t] = p] /\ Relock(t, take, free) /\ Requeue(t, p)

(* The frame a task sends, and the one it has read, until it is done.      *)
SendDone(t) ==
    /\ out' = [out EXCEPT ![t] = Nothing]
    /\ after' = [after EXCEPT ![t] = "return"]
    /\ ahead' = [ahead EXCEPT ![t] = 0]

FrameDone(t) == frame' = [frame EXCEPT ![t] = NoFrame]

(* The call returns, and the locks it still holds are dropped with it.     *)
Return(t, ends) ==
    /\ Move(t, "idle", {}, Lock)
    /\ SendDone(t)
    /\ over' = IF ends THEN over \cup {t} ELSE over

(* send_frame_into is called for f.                                        *)
send_frame_into(t, f, next, take, free) ==
    /\ out' = [out EXCEPT ![t] = f]
    /\ after' = [after EXCEPT ![t] = next]
    /\ Move(t, "outbound", take, free)

(* close(code) from within the library, the caller's error to follow.      *)
fail(t, code, take, free) ==
    send_frame_into(t, build_close(sanitize_close_code(code)), "clear_open", take, free)

-----------------------------------------------------------------------------
(* Sending *)

(* send_text, send_binary, send_continuation, send_ping, send_pong.        *)
send(t, op) ==
    /\ pc[t] = "idle" /\ t \in Callers /\ calls < MaxCalls /\ op \in Ops \ {"RAW"}
    /\ calls' = calls + 1
    /\ send_frame_into(t, [op |-> op, pl |-> <<calls % 256>>], "return", {}, {})
    /\ UNCHANGED <<state, frame, over, stream, seen>>

(* send_raw called by the application: the frame is its own.               *)
send_raw(t) ==
    /\ pc[t] = "idle" /\ t \in Callers /\ calls < MaxCalls /\ "RAW" \in Ops
    /\ calls' = calls + 1
    /\ out' = [out EXCEPT ![t] = [op |-> "BINARY", pl |-> <<calls % 256>>]]
    /\ after' = [after EXCEPT ![t] = "raw"]
    /\ Move(t, "want_write", {}, {})
    /\ UNCHANGED <<state, frame, over, stream, seen>>

close(t, code) ==
    /\ pc[t] = "idle" /\ t \in Callers /\ calls < MaxCalls
    /\ calls' = calls + 1
    /\ send_frame_into(t, build_close(sanitize_close_code(code)), "clear_open", {}, {})
    /\ UNCHANGED <<state, frame, over, stream, seen>>

(* Mutated form: the buffer is unlocked as soon as the frame is built.     *)
LockOutbound_built(t) ==
    /\ pc[t] = "outbound" /\ Granted(t, "outbound")
    /\ outbound' = out[t]
    /\ Move(t, "want_write", {"outbound"}, {"outbound"})
    /\ UNCHANGED <<open, last_close, parser, buf, fragment, frame, out, after,
                   over, calls, stream, seen>>

(* The frame is built in the shared buffer; then send_raw asks for the     *)
(* stream.                                                                 *)
LockOutbound(t) ==
    /\ pc[t] = "outbound" /\ Granted(t, "outbound")
    /\ outbound' = out[t]
    /\ Move(t, "want_write", {"outbound"}, {})
    /\ UNCHANGED <<open, last_close, parser, buf, fragment, frame, out, after,
                   over, calls, stream, seen>>

LockStreamWrite(t) ==
    /\ pc[t] = "want_write" /\ Granted(t, "stream")
    /\ written' = 0
    /\ Move(t, "writing", {"stream"}, {})
    /\ UNCHANGED <<state, frame, out, after, over, calls, socket, link, wire, peer, seen>>

Raw(t) == after[t] = "raw"

(* write_all hands the frame over in pieces, here two.                     *)
write_all(t) ==
    /\ pc[t] = "writing" /\ written < 2 /\ link # "reset"
    /\ written' = written + 1
    /\ wire' = Append(wire, [frame |-> IF Raw(t) THEN out[t] ELSE outbound,
                             meant |-> out[t], part |-> written + 1])
    /\ UNCHANGED <<state, tasks, socket, link, peer, seen>>

Written(t) ==
    /\ pc[t] = "writing" /\ written = 2
    /\ \/ /\ after[t] \in {"return", "raw"} /\ Return(t, FALSE)
       \/ /\ after[t] \in {"is_open", "clear_open"}
          /\ Move(t, after[t], {}, {"outbound", "stream"})
          /\ SendDone(t)
          /\ UNCHANGED over
    /\ written' = 0
    /\ UNCHANGED <<state, frame, calls, socket, link, wire, peer, taken, delivered>>

(* No write succeeds after one that failed.                                *)
WriteFails(t) ==
    /\ pc[t] = "writing" /\ written < 2 /\ link # "up"
    /\ link' = "reset"
    /\ Return(t, TRUE)
    /\ written' = 0
    /\ UNCHANGED <<state, frame, calls, socket, wire, peer, taken, delivered>>

(* The end of close, of handle_close_frame and of a stream: open is        *)
(* cleared and the call returns.                                           *)
ClearOpen(t) ==
    /\ pc[t] = "clear_open"
    /\ open' = FALSE
    /\ Return(t, TRUE)
    /\ UNCHANGED <<last_close, parser, buf, fragment, outbound, frame, calls, stream,
                   taken, delivered>>

-----------------------------------------------------------------------------
(* Reading *)

read_message(t) ==
    /\ pc[t] = "idle" /\ t \in Readers \ over
    /\ Move(t, "is_open", {}, {})
    /\ UNCHANGED <<state, frame, out, after, over, calls, stream, seen>>

read_frame(t) ==
    /\ pc[t] = "is_open"
    /\ \/ /\ open /\ Move(t, "read_state", {}, {})
          /\ UNCHANGED <<out, after, over, ahead>>
       \/ ~open /\ Return(t, TRUE)
    /\ UNCHANGED <<state, frame, calls, stream, taken, delivered>>

LockReadState(t) ==
    /\ pc[t] = "read_state" /\ Granted(t, "read_state")
    /\ Move(t, "parse", {"read_state"}, {})
    /\ UNCHANGED <<state, frame, out, after, over, calls, stream, seen>>

validate_incoming(f) == ~f.rsv /\ (f.mask <=> Role = "server")

(* One turn of the loop of read_frame.                                     *)
ParseComplete(t, parsed) ==
    /\ parsed.result = "Complete"
    /\ LET f == take_frame(parsed.parser)
       IN /\ taken' = Append(taken, f)
          /\ \/ /\ validate_incoming(f)
                /\ frame' = [frame EXCEPT ![t] = f]
                /\ Move(t, "handle", {}, {"read_state"})
                /\ UNCHANGED <<out, after, over, ahead>>
             \/ /\ ~validate_incoming(f)
                /\ Return(t, TRUE) /\ UNCHANGED frame
    /\ parser' = [parsed.parser EXCEPT !.buffer = <<>>]

ParseError(t, parsed) ==
    /\ parsed.result = "Error"
    /\ fail(t, 1002, {}, {"read_state"})
    /\ parser' = parsed.parser
    /\ UNCHANGED <<frame, over, taken, ahead>>

ParseIncomplete(t, parsed) ==
    /\ parsed.result = "Incomplete"
    /\ Move(t, "want_read", {}, {})
    /\ parser' = parsed.parser
    /\ UNCHANGED <<frame, out, after, over, taken, ahead>>

(* Mutated form: what follows a complete frame in the buffer is cleared.   *)
Parse_cleared(t) ==
    /\ pc[t] = "parse"
    /\ LET parsed == parse(parser, buf)
       IN /\ buf' = IF parsed.result = "Complete" THEN <<>> ELSE parsed.rest
          /\ \/ ParseComplete(t, parsed) \/ ParseError(t, parsed)
             \/ ParseIncomplete(t, parsed)
    /\ UNCHANGED <<open, last_close, fragment, outbound, calls, stream, delivered>>

Parse(t) ==
    /\ pc[t] = "parse"
    /\ LET parsed == parse(parser, buf)
       IN /\ buf' = parsed.rest
          /\ \/ ParseComplete(t, parsed) \/ ParseError(t, parsed)
             \/ ParseIncomplete(t, parsed)
    /\ UNCHANGED <<open, last_close, fragment, outbound, calls, stream, delivered>>

LockStreamRead(t) ==
    /\ pc[t] = "want_read" /\ Granted(t, "stream")
    /\ Move(t, "reading", {"stream"}, {})
    /\ UNCHANGED <<state, frame, out, after, over, calls, stream, seen>>

(* The stream holds something to read: it goes to the buffer.              *)
Received(n) ==
    /\ link # "reset" /\ n \in 1..Len(socket)
    /\ buf' = buf \o SubSeq(socket, 1, n)
    /\ socket' = SubSeq(socket, n + 1, Len(socket))
    /\ ahead' = [u \in Task |-> IF pc[u] = "want_write" THEN ahead[u] + 1 ELSE ahead[u]]
    /\ UNCHANGED <<open, last_close, parser, fragment, outbound, frame, out, after,
                   over, calls, written, link, wire, peer, taken, delivered>>

(* Mutated form: the stream stays locked for the rest of the loop.         *)
StreamRead_held(t, n) ==
    /\ pc[t] = "reading"
    /\ Received(n)
    /\ Move(t, "parse", {}, {})

(* read() returns as soon as there is something; the stream is held until  *)
(* then.                                                                   *)
StreamRead(t, n) ==
    /\ pc[t] = "reading"
    /\ Received(n)
    /\ Move(t, "parse", {}, {"stream"})

StreamEnds(t) ==
    /\ pc[t] = "reading" /\ link = "ended" /\ socket = <<>>
    /\ Move(t, "clear_open", {}, {"stream", "read_state"})
    /\ UNCHANGED <<state, frame, out, after, over, calls, stream, seen>>

StreamFails(t) ==
    /\ pc[t] = "reading" /\ link = "reset"
    /\ Return(t, TRUE)
    /\ UNCHANGED <<state, frame, calls, stream, taken, delivered>>

(* The application drops the call while it waits for a frame (a timeout).  *)
Cancel(t) ==
    /\ t \in Cancelled /\ pc[t] \in {"read_state", "want_read", "reading"}
    /\ Return(t, FALSE)
    /\ UNCHANGED <<state, frame, calls, stream, taken, delivered>>

-----------------------------------------------------------------------------
(* Handling a frame *)

handle_close_frame(t) ==
    /\ pc[t] = "handle" /\ frame[t].op = "CLOSE"
    /\ last_close' = parse_close_payload(frame[t].pl)
    /\ send_frame_into(t, build_close(last_close'), "clear_open", {}, {})
    /\ FrameDone(t)
    /\ UNCHANGED <<open, parser, buf, fragment, outbound, over, calls, stream, seen>>

HandlePing(t) ==
    /\ pc[t] = "handle" /\ frame[t].op = "PING"
    /\ send_frame_into(t, [op |-> "PONG", pl |-> frame[t].pl], "is_open", {}, {})
    /\ FrameDone(t)
    /\ UNCHANGED <<state, over, calls, stream, seen>>

HandlePong(t) ==
    /\ pc[t] = "handle" /\ frame[t].op = "PONG"
    /\ Move(t, "is_open", {}, {})
    /\ FrameDone(t)
    /\ UNCHANGED <<state, out, after, over, calls, stream, seen>>

HandleData(t) ==
    /\ pc[t] = "handle" /\ frame[t].op \in DataOp
    /\ Move(t, "fragment", {}, {})
    /\ UNCHANGED <<state, frame, out, after, over, calls, stream, seen>>

LockFragment(t) == pc[t] = "fragment" /\ Granted(t, "fragment")

(* The loop around read_message has a message: it sends it back, or not.   *)
echo_session(t, message) ==
    \/ /\ message.op \in Echo
       /\ send_frame_into(t, message, "return", {"fragment"}, {"fragment"})
    \/ /\ message.op \notin Echo
       /\ Move(t, "idle", {"fragment"}, {"fragment"})
       /\ UNCHANGED <<out, after>>

(* A message is complete; free tells whether the guard of fragment has     *)
(* been dropped.  A text that is not UTF-8 closes the connection.          *)
deliver_message(t, message, free) ==
    \/ /\ message.op = "TEXT" /\ ~is_valid_utf8(message.pl)
       /\ fail(t, 1007, {"fragment"}, free)
       /\ UNCHANGED <<over, delivered>>
    \/ /\ message.op = "TEXT" => is_valid_utf8(message.pl)
       /\ delivered' = Append(delivered, message)
       /\ echo_session(t, message)
       /\ UNCHANGED over

(* Continuation, or a new message, out of place: the guard is held while   *)
(* the close frame is sent.                                                *)
FragmentError(t) ==
    /\ LockFragment(t)
    /\ fragment.active <=> frame[t].op # "CONTINUATION"
    /\ fail(t, 1002, {"fragment"}, {})
    /\ FrameDone(t)
    /\ UNCHANGED <<state, over, calls, stream, seen>>

FragmentStarts(t) ==
    /\ LockFragment(t)
    /\ frame[t].op # "CONTINUATION" /\ ~fragment.active /\ ~frame[t].fin
    /\ fragment' = [active |-> TRUE, op |-> frame[t].op, buffer |-> frame[t].pl]
    /\ Move(t, "is_open", {"fragment"}, {"fragment"})
    /\ FrameDone(t)
    /\ UNCHANGED <<open, last_close, parser, buf, outbound, out, after, over,
                   calls, stream, seen>>

FragmentGoesOn(t) ==
    /\ LockFragment(t)
    /\ frame[t].op = "CONTINUATION" /\ fragment.active /\ ~frame[t].fin
    /\ fragment' = [fragment EXCEPT !.buffer = @ \o frame[t].pl]
    /\ Move(t, "is_open", {"fragment"}, {"fragment"})
    /\ FrameDone(t)
    /\ UNCHANGED <<open, last_close, parser, buf, outbound, out, after, over,
                   calls, stream, seen>>

(* Mutated form: the bytes of the last fragment are left out.              *)
FragmentEnds_short(t) ==
    /\ LockFragment(t)
    /\ frame[t].op = "CONTINUATION" /\ fragment.active /\ frame[t].fin
    /\ deliver_message(t, [op |-> fragment.op, pl |-> fragment.buffer], {"fragment"})
    /\ fragment' = NoFragment
    /\ FrameDone(t)
    /\ UNCHANGED <<open, last_close, parser, buf, outbound, calls, stream, taken, ahead>>

FragmentEnds(t) ==
    /\ LockFragment(t)
    /\ frame[t].op = "CONTINUATION" /\ fragment.active /\ frame[t].fin
    /\ deliver_message(t, [op |-> fragment.op, pl |-> fragment.buffer \o frame[t].pl],
                       {"fragment"})
    /\ fragment' = NoFragment
    /\ FrameDone(t)
    /\ UNCHANGED <<open, last_close, parser, buf, outbound, calls, stream,
                   taken, ahead>>

WholeMessage(t) ==
    /\ LockFragment(t)
    /\ frame[t].op # "CONTINUATION" /\ ~fragment.active /\ frame[t].fin
    /\ deliver_message(t, [op |-> frame[t].op, pl |-> frame[t].pl], {})
    /\ FrameDone(t)
    /\ UNCHANGED <<state, calls, stream, taken, ahead>>

-----------------------------------------------------------------------------
(* The peer *)

(* A burst of frames arrives, to be read in pieces of any size.            *)
PeerSends ==
    \E fs \in Bursts :
        /\ link = "up" /\ bursts < MaxBursts
        /\ bursts' = bursts + 1
        /\ sent' = sent \o fs /\ socket' = socket \o Stream(fs)
        /\ UNCHANGED <<state, tasks, written, link, wire, seen>>

PeerLeaves ==
    /\ link = "up" /\ link' \in {"ended", "reset"}
    /\ UNCHANGED <<state, tasks, written, socket, wire, peer, seen>>

-----------------------------------------------------------------------------
Call(t) ==
    \/ (\E op \in Ops : send(t, op)) \/ send_raw(t)
    \/ (\E code \in CloseCodes : close(t, code))
    \/ read_message(t) \/ Cancel(t)

Send(t) ==
    \/ LockOutbound(t) \/ LockStreamWrite(t) \/ write_all(t) \/ Written(t)
    \/ WriteFails(t) \/ ClearOpen(t)

Read(t) ==
    \/ read_frame(t) \/ LockReadState(t) \/ Parse(t) \/ LockStreamRead(t)
    \/ (\E n \in 1..Len(socket) : StreamRead(t, n)) \/ StreamEnds(t) \/ StreamFails(t)

Handle(t) ==
    \/ handle_close_frame(t) \/ HandlePing(t) \/ HandlePong(t) \/ HandleData(t)
    \/ FragmentError(t) \/ FragmentStarts(t) \/ FragmentGoesOn(t)
    \/ FragmentEnds(t) \/ WholeMessage(t)

Next ==
    \/ (\E t \in Task : Call(t) \/ Send(t) \/ Read(t) \/ Handle(t))
    \/ PeerSends \/ PeerLeaves

Spec == Init /\ [][Next]_vars

(* A task that is not suspended goes on.  No task has to make a call.      *)
FairTasks == \A t \in Task : WF_vars(Send(t) \/ Read(t) \/ Handle(t))

(* The peer does not stay connected and silent for ever.                   *)
LeavingSpec == Spec /\ FairTasks /\ WF_vars(PeerLeaves)

-----------------------------------------------------------------------------
TypeOK ==
    /\ open \in BOOLEAN /\ last_close \in U16
    /\ parser.state \in {"Header", "Payload"} /\ parser.remaining \in Nat
    /\ parser.buffer \in Seq(Byte) /\ buf \in Seq(Unit)
    /\ fragment.active \in BOOLEAN /\ fragment.op \in {"TEXT", "BINARY"}
    /\ fragment.buffer \in Seq(Byte)
    /\ outbound \in OutFrame
    /\ holder \in [Lock -> Task \cup {NoTask}] /\ queue \in [Lock -> Seq(Task)]
    /\ pc \in [Task -> Point] /\ frame \in [Task -> InFrame]
    /\ out \in [Task -> OutFrame]
    /\ after \in [Task -> {"return", "raw", "is_open", "clear_open"}]
    /\ over \subseteq Task /\ calls \in 0..MaxCalls
    /\ written \in 0..2 /\ socket \in Seq(Unit) /\ link \in {"up", "ended", "reset"}
    /\ \A i \in DOMAIN wire : /\ wire[i].frame \in OutFrame
                              /\ wire[i].meant \in OutFrame /\ wire[i].part \in {1, 2}
    /\ taken \in Seq(InFrame) /\ sent \in Seq(InFrame) /\ bursts \in 0..MaxBursts
    /\ ahead \in [Task -> Nat]

(* A task that waits for a mutex holds only mutexes that come before it in *)
(* the order read_state, fragment, outbound, stream: no two tasks of       *)
(* connection.rs can wait for each other.                                  *)
Rank == [l \in Lock |-> CASE l = "read_state" -> 1 [] l = "fragment" -> 2
                          [] l = "outbound" -> 3 [] l = "stream" -> 4]

LockOrder ==
    \A t \in Task, l, m \in Lock :
        Awaits(pc[t]) = l /\ holder[m] = t => Rank[m] < Rank[l]

(* Frames leave one after the other and each as it was built, whichever    *)
(* tasks send, answer a ping or close at the same time: send_frame_into    *)
(* keeps the buffer locked until send_raw is done with it, and send_raw    *)
(* the stream.                                                             *)
FramesWhole ==
    \A i \in DOMAIN wire :
        /\ wire[i].frame = wire[i].meant
        /\ wire[i].part = 2 - (i % 2)
        /\ wire[i].part = 2 => wire[i].frame = wire[i - 1].frame

(* Every close frame that goes out has a code that RFC 6455 lets an        *)
(* endpoint send, whatever the application passes to close and whatever    *)
(* the peer's frame holds: both are put through sanitize_close_code.       *)
CloseCodesValid ==
    \A i \in DOMAIN wire :
        wire[i].frame.op = "CLOSE" =>
            MaySendCode(wire[i].frame.pl[1] * 256 + wire[i].frame.pl[2])

(* read_frame returns the frames of the peer whole and in order, however   *)
(* the reads cut them and whoever reads, also after a call was dropped     *)
(* while it waited; and a reader that waits for the peer with nothing to   *)
(* read has returned all of them, but for a last one with no payload,      *)
(* whose end the parser notices when the next frame comes.                 *)
NoFrameLost ==
    LET n == Len(taken)
    IN /\ n <= Len(sent) /\ taken = SubSeq(sent, 1, n)
       /\ (\E t \in Task : pc[t] = "reading") /\ socket = <<>> =>
             \/ n = Len(sent)
             \/ n = Len(sent) - 1 /\ sent[n + 1].pl = <<>>

(* With mutexes that are granted in turn, a task that waits to write sees  *)
(* at most one read finish before its turn comes.                          *)
OneReadAhead == \A t \in Task : pc[t] = "want_write" => ahead[t] <= 1

(* A call that sends returns, whatever the other tasks do: it waits behind *)
(* a task in read_frame, which keeps the stream while it waits for bytes.  *)
SendReturns == \A t \in Task : pc[t] \in Sending ~> pc[t] \notin Sending
=============================================================================
