----------------------------- MODULE Connection -----------------------------
(***************************************************************************)
(* One WebSocket connection object (class connection::impl of              *)
(* src/src/connection.cpp): the application threads that call its API, the *)
(* background reader thread it starts, the shared flags and buffers they   *)
(* use, the write mutex, and the socket with the peer behind it.           *)
(*                                                                         *)
(* Every access to shared state that another thread can separate from the  *)
(* next one is a step of its own: the flags is_open_, is_closing_ and      *)
(* reader_running_ are plain bools and the frame buffer outbound_frame_ is *)
(* filled before write_mutex_ is taken.  Reader-only state (the payload    *)
(* and reassembly buffers) changes in the step that reads a frame.         *)
(*                                                                         *)
(* The model is the connection that has not negotiated permessage-deflate  *)
(* (permessage_deflate_ = false), over the POSIX socket transport.  A      *)
(* payload is a sequence of 16-bit words, its bytes taken two at a time,   *)
(* so that the bytes a handler reads as a close code are the first word.   *)
(***************************************************************************)
EXTENDS Integers, Sequences, Utf8, CloseStatus

CONSTANTS
    App,           \* the application threads
    Reader,        \* the reader thread (reader_thread_)
    NoThread,      \* nobody: the value of a free mutex
    Role,          \* "client" or "server" (role_)
    PeerFrames,    \* the frames the peer may send
    ApiOps,        \* the opcodes of the frames the application sends
    Fins,          \* the fin flags it passes to send_*
    CloseCodes,    \* the codes the application passes to close()
    Active,        \* the application threads that send and close by themselves
    CallbackCalls, \* the callbacks from which the application sends and closes
    Starters,      \* where it calls start_reading: callbacks, or "idle"
    MaxCalls,      \* bound: calls of send_* and start_reading
    MaxReads,      \* bound: frames read
    MaxOpens       \* bound: calls of connect that reach the socket

Thread == App \cup {Reader}

MaxWord == 65535
Word == 0..MaxWord
DataOp == {"TEXT", "BINARY", "CONTINUATION"}
Opcode == DataOp \cup {"CLOSE", "PING", "PONG"}

(* A frame from the peer: the header bits validate_frame_header looks at   *)
(* (rsv stands for any of the three RSV bits) and the unmasked payload.    *)
InFrame == [op : Opcode \cup {"RESERVED"}, fin : BOOLEAN, rsv : BOOLEAN,
            mask : BOOLEAN, pl : Seq(Word)]

(* A frame in outbound_frame_; TORN are bytes no builder meant to produce. *)
OutFrame == [op : Opcode \cup {"TORN"}, fin : BOOLEAN, pl : Seq(Word)]
Torn == [op |-> "TORN", fin |-> TRUE, pl |-> <<>>]

(* Where a callback runs: on_error is called from three places.            *)
Callback == {"on_open", "on_message",
             "on_error_fail", "on_error_read", "on_error_pong"}

ASSUME ConnectionAssumption ==
    /\ Reader \notin App
    /\ NoThread \notin Thread
    /\ Role \in {"client", "server"}
    /\ PeerFrames \subseteq InFrame
    /\ ApiOps \subseteq DataOp \cup {"PING"}
    /\ Fins \subseteq BOOLEAN
    /\ CloseCodes \subseteq Word
    /\ Active \subseteq App
    /\ CallbackCalls \subseteq Callback
    /\ Starters \subseteq Callback \cup {"idle"}
    /\ MaxCalls \in Word
    /\ MaxReads \in Nat
    /\ MaxOpens \in Nat

VARIABLES
    \* connection::impl
    is_open, is_closing, reader_running,
    reader_thread,   \* "none" or "joinable": what reader_thread_.joinable() tells
    alive,           \* FALSE once ~impl has returned
    outbound_frame,
    builder,         \* the last thread to enter build_into, until a build ends
    write_mutex,
    payload_buffer, fragmented, message_buffer, message_opcode,
    \* the threads
    pc, ret,         \* next step; where the API call in progress returns to
    call, arg,       \* the operation in progress and the frame it sends
    fail_code,       \* the code argument of fail_with_close
    \* the socket and the peer
    sock, peer,
    wire,            \* frames written since connect: operation, bytes, frame built
    \* what the application and the peer have seen since connect
    rx,              \* frames read
    delivered,       \* on_message_ calls
    closes,          \* on_close_ codes
    calls, opens     \* calls made, for the bounds

flags == <<is_open, is_closing, reader_running, reader_thread, alive>>
buffer == <<outbound_frame, builder>>
inbound == <<payload_buffer, fragmented, message_buffer, message_opcode>>
session == <<rx, delivered, closes>>
bounds == <<calls, opens>>
vars == <<flags, buffer, write_mutex, inbound, pc, ret, call, arg, fail_code,
          sock, peer, wire, session, bounds>>

Label == Callback \cup
    {"off", "idle", "opened", "start", "claim", "spawn", "assign", "loop", "read",
     "deliver", "ping_check", "fail_check", "mark", "build", "building", "lock", "write",
     "shut_open", "shut_sock", "join", "join_wait", "joined", "notify", "free",
     "exited", "aborted"}

Call == {"none", "start", "send", "close", "fail", "echo", "pong", "read_error",
         "destroy"}

Init ==
    /\ is_open = FALSE /\ is_closing = FALSE
    /\ reader_running = FALSE /\ reader_thread = "none"
    /\ alive = TRUE
    /\ outbound_frame = Torn /\ builder = NoThread
    /\ write_mutex = NoThread
    /\ payload_buffer = <<>> /\ message_buffer = <<>>
    /\ fragmented = FALSE /\ message_opcode = "TEXT"
    /\ pc = [t \in Thread |-> IF t = Reader THEN "off" ELSE "idle"]
    /\ ret = [t \in Thread |-> "idle"]
    /\ call = [t \in Thread |-> "none"]
    /\ arg = [t \in Thread |-> Torn]
    /\ fail_code = 1002
    /\ sock = "closed" /\ peer = "gone"
    /\ wire = <<>>
    /\ rx = <<>> /\ delivered = <<>> /\ closes = <<>>
    /\ calls = 0 /\ opens = 0

-----------------------------------------------------------------------------
(* Helpers *)

is_valid_close_code(code) == code \in (1000..1003) \cup (1007..1011) \cup (3000..4999)

CloseFrame(code) == [op |-> "CLOSE", fin |-> TRUE, pl |-> <<code>>]

(* What handle_close_frame answers: the code of the payload, 1000 when     *)
(* there is none, 1002 when it is not a valid one.                         *)
EchoCode(pl) ==
    IF pl = <<>> THEN 1000
    ELSE IF is_valid_close_code(pl[1]) THEN pl[1] ELSE 1002

(* The bytes of a payload.                                                 *)
Bytes(pl) ==
    [i \in 1..(2 * Len(pl)) |->
        LET word == pl[(i + 1) \div 2]
        IN IF i % 2 = 1 THEN word \div 256 ELSE word % 256]

IsText(pl) == is_valid_utf8(Bytes(pl))

validate_frame_header(f) ==
    /\ ~f.rsv
    /\ f.op # "RESERVED"
    /\ f.mask = (Role = "server")

(* The operations that look at the flags again once they hold the mutex.   *)
Guarded == {"send", "pong"}

(* The operations the application calls: they return where it called them. *)
ApiCall == {"start", "send", "close"}

Goto(t, label) == pc' = [pc EXCEPT ![t] = label]

Begin(t, operation, frame, label) ==
    /\ Goto(t, label)
    /\ ret' = [ret EXCEPT ![t] = pc[t]]
    /\ call' = [call EXCEPT ![t] = operation]
    /\ arg' = [arg EXCEPT ![t] = frame]

Finish(t) ==
    /\ Goto(t, IF call[t] \in ApiCall THEN ret[t] ELSE "loop")
    /\ ret' = [ret EXCEPT ![t] = "idle"]
    /\ call' = [call EXCEPT ![t] = "none"]
    /\ arg' = [arg EXCEPT ![t] = Torn]

local == <<ret, call, arg>>

(* The reader enters a handler: there is no caller to return to.           *)
Handle(operation, frame, label) ==
    /\ Goto(Reader, label)
    /\ call' = [call EXCEPT ![Reader] = operation]
    /\ arg' = [arg EXCEPT ![Reader] = frame]
    /\ UNCHANGED ret

(* No application thread has destroyed the object or is destroying it.     *)
Usable == alive /\ \A u \in App : call[u] # "destroy"

(* The application may call the API: an active thread that is not in a     *)
(* call, or a callback that makes calls.                                   *)
MayCall(t) ==
    \/ pc[t] = "idle" /\ t \in Active /\ Usable
    \/ pc[t] \in CallbackCalls

(* t is inside connect or start_reading.                                   *)
Opening(t) ==
    \/ pc[t] \in {"opened", "on_open", "start", "claim", "spawn", "assign"}
    \/ ret[t] = "on_open"

-----------------------------------------------------------------------------
(* Opening: connect (or adopt, then activate) on an application thread.    *)
(* The application opens while none of its threads is in another call.     *)

connect(t) ==
    /\ pc[t] = "idle" /\ t \in App /\ Usable
    /\ \A u \in App : pc[u] = "idle"
    /\ ~is_open
    /\ opens < MaxOpens
    /\ opens' = opens + 1
    /\ \/ /\ sock' = "open" /\ peer' = "up"
          /\ wire' = <<>> /\ rx' = <<>> /\ delivered' = <<>> /\ closes' = <<>>
          /\ Goto(t, "opened")
       \/ /\ sock' = "closed"               \* connect_host failed
          /\ UNCHANGED <<peer, wire, session, pc>>
    /\ UNCHANGED <<flags, buffer, write_mutex, inbound, local, fail_code, calls>>

(* Mutated form: the reader runs before on_open_ is called.                *)
open_and_start_reader_early(t) ==
    /\ pc[t] = "opened"
    /\ is_open' = TRUE
    /\ reader_running' = TRUE /\ reader_thread' = "joinable"
    /\ pc' = [pc EXCEPT ![t] = "on_open", ![Reader] = "loop"]
    /\ UNCHANGED <<is_closing, alive, buffer, write_mutex, inbound, local,
                   fail_code, sock, peer, wire, session, bounds>>

open_and_start_reader(t) ==
    /\ pc[t] = "opened"
    /\ is_open' = TRUE
    /\ Goto(t, "on_open")
    /\ UNCHANGED <<is_closing, reader_running, reader_thread, alive, buffer,
                   write_mutex, inbound, local, fail_code, sock, peer, wire,
                   session, bounds>>

start_reading(t) ==
    /\ MayCall(t) /\ pc[t] \in Starters
    /\ calls < MaxCalls
    /\ calls' = calls + 1
    /\ Begin(t, "start", Torn, "start")
    /\ UNCHANGED <<flags, buffer, write_mutex, inbound, fail_code, sock, peer,
                   wire, session, opens>>

(* Mutated form: reader_running_ is not looked at.                         *)
start_reader_thread_again(t) ==
    /\ pc[t] = "start"
    /\ IF is_open THEN Goto(t, "claim") /\ UNCHANGED local ELSE Finish(t)
    /\ UNCHANGED <<flags, buffer, write_mutex, inbound, fail_code, sock, peer,
                   wire, session, bounds>>

(* The flags are looked at; another thread may do so before reader_running_ *)
(* is set.                                                                 *)
start_reader_thread(t) ==
    /\ pc[t] = "start"
    /\ \/ /\ ~is_open \/ reader_running
          /\ Finish(t)
       \/ /\ is_open /\ ~reader_running
          /\ Goto(t, "claim")
          /\ UNCHANGED local
    /\ UNCHANGED <<flags, buffer, write_mutex, inbound, fail_code, sock, peer,
                   wire, session, bounds>>

(* reader_running_ = true                                                  *)
ClaimReader(t) ==
    /\ pc[t] = "claim"
    /\ reader_running' = TRUE
    /\ Goto(t, "spawn")
    /\ UNCHANGED <<is_open, is_closing, reader_thread, alive, buffer, write_mutex,
                   inbound, local, fail_code, sock, peer, wire, session, bounds>>

(* std::thread starts running read_loop before it is moved into            *)
(* reader_thread_; the move ends the program if reader_thread_ is joinable. *)
(* A second reader beside one that runs comes from starts that overlap; it *)
(* is not followed any further and counts as the end of the program, which *)
(* the second of the two moves is unless a join comes between them.        *)
Spawn(t) ==
    /\ pc[t] = "spawn"
    /\ \/ /\ pc[Reader] = "off"
          /\ pc' = [pc EXCEPT ![t] = "assign", ![Reader] = "loop"]
       \/ /\ pc[Reader] # "off"
          /\ Goto(t, "aborted")
    /\ UNCHANGED <<flags, buffer, write_mutex, inbound, local, fail_code, sock,
                   peer, wire, session, bounds>>

Assign(t) ==
    /\ pc[t] = "assign"
    /\ \/ /\ reader_thread = "none"
          /\ reader_thread' = "joinable"
          /\ Finish(t)
       \/ /\ reader_thread = "joinable"
          /\ Goto(t, "aborted")
          /\ UNCHANGED <<reader_thread, local>>
    /\ UNCHANGED <<is_open, is_closing, reader_running, alive, buffer, write_mutex,
                   inbound, fail_code, sock, peer, wire, session, bounds>>

-----------------------------------------------------------------------------
(* Sending.  The frame is built into outbound_frame_ with no lock held;    *)
(* a build that overlaps another thread's leaves either frame or a mix.    *)

Send(t, op, fin) ==
    /\ MayCall(t) /\ op \in ApiOps
    /\ is_open
    /\ calls < MaxCalls
    /\ calls' = calls + 1
    /\ Begin(t, "send", [op |-> op, fin |-> fin, pl |-> <<calls'>>], "build")
    /\ UNCHANGED <<flags, buffer, write_mutex, inbound, fail_code, sock, peer,
                   wire, session, opens>>

send_data_frame(t, op, fin) == op \in DataOp /\ Send(t, op, fin)

send_ping(t) == Send(t, "PING", TRUE)

BuildStart(t) ==
    /\ pc[t] = "build"
    /\ outbound_frame' = Torn
    /\ builder' = t
    /\ Goto(t, "building")
    /\ UNCHANGED <<flags, write_mutex, inbound, local, fail_code, sock, peer,
                   wire, session, bounds>>

Undisturbed(t) ==
    /\ builder = t
    /\ \A u \in Thread \ {t} : pc[u] # "building"

BuildEnd(t) ==
    /\ pc[t] = "building"
    /\ outbound_frame' \in {arg[t]} \cup (IF Undisturbed(t) THEN {} ELSE {Torn})
    /\ builder' = NoThread
    /\ Goto(t, "lock")
    /\ UNCHANGED <<flags, write_mutex, inbound, local, fail_code, sock, peer,
                   wire, session, bounds>>

(* Mutated form: the flags are not looked at again under the lock.         *)
LockWrite_unchecked(t) ==
    /\ pc[t] = "lock"
    /\ write_mutex = NoThread
    /\ write_mutex' = t
    /\ Goto(t, "write")
    /\ UNCHANGED <<flags, buffer, inbound, local, fail_code, sock, peer, wire,
                   session, bounds>>

(* Takes write_mutex_; a guarded operation gives up if the connection is   *)
(* no longer open or is closing.                                           *)
LockWrite(t) ==
    /\ pc[t] = "lock"
    /\ write_mutex = NoThread
    /\ \/ /\ call[t] \in Guarded /\ (~is_open \/ is_closing)
          /\ Finish(t)
          /\ UNCHANGED write_mutex
       \/ /\ call[t] \in Guarded => is_open /\ ~is_closing
          /\ write_mutex' = t
          /\ Goto(t, "write")
          /\ UNCHANGED local
    /\ UNCHANGED <<flags, buffer, inbound, fail_code, sock, peer, wire, session,
                   bounds>>

(* socket_.write and the end of the critical section.  A pong that cannot  *)
(* be written reports the error with the mutex still held.                 *)
WriteFrame(t) ==
    /\ pc[t] = "write"
    /\ \/ /\ sock = "open"
          /\ wire' = Append(wire, [by |-> call[t], frame |-> outbound_frame,
                                   built |-> arg[t]])
          /\ write_mutex' = NoThread
          /\ IF call[t] \in Guarded
             THEN Finish(t)
             ELSE Goto(t, "shut_open") /\ UNCHANGED local
       \/ /\ sock = "closed" \/ peer = "gone"
          /\ UNCHANGED wire
          /\ \/ /\ call[t] = "pong"
                /\ Goto(t, "on_error_pong")
                /\ UNCHANGED <<local, write_mutex>>
             \/ /\ call[t] = "send"
                /\ Finish(t)
                /\ write_mutex' = NoThread
             \/ /\ call[t] \notin Guarded
                /\ Goto(t, "shut_open")
                /\ write_mutex' = NoThread
                /\ UNCHANGED local
    /\ UNCHANGED <<flags, buffer, inbound, fail_code, sock, peer, session, bounds>>

-----------------------------------------------------------------------------
(* Closing: close(), fail_with_close, the echo of a close frame and ~impl  *)
(* run through the same statements; call[t] tells which.                   *)

(* Mutated form: close() runs whatever the flags say.                      *)
close_unguarded(t, code) ==
    /\ MayCall(t)
    /\ Len(closes) < 3
    /\ Begin(t, "close",
             CloseFrame(IF is_valid_close_code(code) THEN code ELSE 1000), "mark")
    /\ UNCHANGED <<flags, buffer, write_mutex, inbound, fail_code, sock, peer,
                   wire, session, bounds>>

(* Mutated form: close() sends the code it was given.                      *)
close_any_code(t, code) ==
    /\ MayCall(t)
    /\ is_open /\ ~is_closing
    /\ Begin(t, "close", CloseFrame(code), "mark")
    /\ UNCHANGED <<flags, buffer, write_mutex, inbound, fail_code, sock, peer,
                   wire, session, bounds>>

close(t, code) ==
    /\ MayCall(t)
    /\ is_open /\ ~is_closing
    /\ Begin(t, "close",
             CloseFrame(IF is_valid_close_code(code) THEN code ELSE 1000), "mark")
    /\ UNCHANGED <<flags, buffer, write_mutex, inbound, fail_code, sock, peer,
                   wire, session, bounds>>

(* fail_with_close, after on_error_ has returned.                          *)
fail_with_close ==
    /\ pc[Reader] = "fail_check"
    /\ Goto(Reader, IF is_open /\ ~is_closing THEN "mark" ELSE "shut_open")
    /\ UNCHANGED <<flags, buffer, write_mutex, inbound, local, fail_code, sock,
                   peer, wire, session, bounds>>

MarkClosing(t) ==
    /\ pc[t] = "mark"
    /\ is_closing' = TRUE
    /\ Goto(t, "build")
    /\ UNCHANGED <<is_open, reader_running, reader_thread, alive, buffer,
                   write_mutex, inbound, local, fail_code, sock, peer, wire,
                   session, bounds>>

(* Mutated form: a close frame from the peer leaves is_open_ set.          *)
ClearOpen_not_on_echo(t) ==
    /\ pc[t] = "shut_open"
    /\ is_open' = (is_open /\ call[t] = "echo")
    /\ Goto(t, CASE call[t] \in {"close", "fail", "destroy"} -> "shut_sock"
                 [] call[t] = "echo" -> "notify"
                 [] OTHER -> "exited")
    /\ UNCHANGED <<is_closing, reader_running, reader_thread, alive, buffer,
                   write_mutex, inbound, local, fail_code, sock, peer, wire,
                   session, bounds>>

(* Mutated form: a failed read leaves is_open_ set.                        *)
ClearOpen_not_on_error(t) ==
    /\ pc[t] = "shut_open"
    /\ is_open' = (is_open /\ call[t] = "read_error")
    /\ Goto(t, CASE call[t] \in {"close", "fail", "destroy"} -> "shut_sock"
                 [] call[t] = "echo" -> "notify"
                 [] OTHER -> "exited")
    /\ UNCHANGED <<is_closing, reader_running, reader_thread, alive, buffer,
                   write_mutex, inbound, local, fail_code, sock, peer, wire,
                   session, bounds>>

(* is_open_ = false                                                        *)
ClearOpen(t) ==
    /\ pc[t] = "shut_open"
    /\ is_open' = FALSE
    /\ Goto(t, CASE call[t] \in {"close", "fail", "destroy"} -> "shut_sock"
                 [] call[t] = "echo" -> "notify"
                 [] OTHER -> "exited")
    /\ UNCHANGED <<is_closing, reader_running, reader_thread, alive, buffer,
                   write_mutex, inbound, local, fail_code, sock, peer, wire,
                   session, bounds>>

(* Mutated form: the socket is not closed.                                 *)
CloseSocket_left_open(t) ==
    /\ pc[t] = "shut_sock"
    /\ sock' = sock
    /\ Goto(t, IF call[t] = "fail" THEN "notify" ELSE "join")
    /\ UNCHANGED <<flags, buffer, write_mutex, inbound, local, fail_code, peer,
                   wire, session, bounds>>

(* Mutated form: fail_with_close does not call on_close_.                  *)
CloseSocket_silent_fail(t) ==
    /\ pc[t] = "shut_sock"
    /\ sock' = "closed"
    /\ Goto(t, IF call[t] = "fail" THEN "loop" ELSE "join")
    /\ UNCHANGED <<flags, buffer, write_mutex, inbound, local, fail_code, peer,
                   wire, session, bounds>>

(* Mutated form: ~impl does not join the reader.                           *)
CloseSocket_no_join(t) ==
    /\ pc[t] = "shut_sock"
    /\ sock' = "closed"
    /\ Goto(t, CASE call[t] = "fail" -> "notify"
                 [] call[t] = "destroy" -> "free"
                 [] OTHER -> "join")
    /\ UNCHANGED <<flags, buffer, write_mutex, inbound, local, fail_code, peer,
                   wire, session, bounds>>

(* socket_.close()                                                         *)
CloseSocket(t) ==
    /\ pc[t] = "shut_sock"
    /\ sock' = "closed"
    /\ Goto(t, IF call[t] = "fail" THEN "notify" ELSE "join")
    /\ UNCHANGED <<flags, buffer, write_mutex, inbound, local, fail_code, peer,
                   wire, session, bounds>>

AfterJoin(t) == IF call[t] = "destroy" THEN "free" ELSE "notify"

(* Mutated form: joins without asking joinable().                          *)
join_reader_unchecked(t) ==
    /\ pc[t] = "join"
    /\ Goto(t, IF t = Reader THEN AfterJoin(t) ELSE "join_wait")
    /\ UNCHANGED <<flags, buffer, write_mutex, inbound, local, fail_code, sock,
                   peer, wire, session, bounds>>

(* Mutated form: the reader joins itself.                                  *)
join_reader_itself(t) ==
    /\ pc[t] = "join"
    /\ Goto(t, IF reader_thread = "none" THEN AfterJoin(t) ELSE "join_wait")
    /\ UNCHANGED <<flags, buffer, write_mutex, inbound, local, fail_code, sock,
                   peer, wire, session, bounds>>

join_reader_if_needed(t) ==
    /\ pc[t] = "join"
    /\ Goto(t, IF reader_thread = "none" \/ t = Reader
               THEN AfterJoin(t) ELSE "join_wait")
    /\ UNCHANGED <<flags, buffer, write_mutex, inbound, local, fail_code, sock,
                   peer, wire, session, bounds>>

(* reader_thread_.join(): waits for the reader, and throws if another      *)
(* thread has joined it meanwhile.                                         *)
JoinReader(t) ==
    /\ pc[t] = "join_wait"
    /\ \/ /\ reader_thread = "joinable" /\ pc[Reader] = "exited"
          /\ reader_thread' = "none"
          /\ pc' = [pc EXCEPT ![t] = "joined", ![Reader] = "off"]
       \/ /\ reader_thread = "none"
          /\ Goto(t, "aborted")
          /\ UNCHANGED reader_thread
    /\ UNCHANGED <<is_open, is_closing, reader_running, alive, buffer, write_mutex,
                   inbound, local, fail_code, sock, peer, wire, session, bounds>>

ReaderJoined(t) ==
    /\ pc[t] = "joined"
    /\ reader_running' = FALSE
    /\ Goto(t, AfterJoin(t))
    /\ UNCHANGED <<is_open, is_closing, reader_thread, alive, buffer, write_mutex,
                   inbound, local, fail_code, sock, peer, wire, session, bounds>>

(* on_close_(code, reason)                                                 *)
NotifyClose(t) ==
    /\ pc[t] = "notify"
    /\ closes' = Append(closes, arg[t].pl[1])
    /\ Finish(t)
    /\ UNCHANGED <<flags, buffer, write_mutex, inbound, fail_code, sock, peer,
                   wire, rx, delivered, bounds>>

(* ~impl, by an application thread, when no other one uses the object.     *)
destroy(t) ==
    /\ pc[t] = "idle" /\ t \in App /\ alive
    /\ \A u \in App : pc[u] = "idle"
    /\ Goto(t, "shut_open")
    /\ call' = [call EXCEPT ![t] = "destroy"]
    /\ UNCHANGED <<flags, buffer, write_mutex, inbound, ret, arg, fail_code, sock,
                   peer, wire, session, bounds>>

Free(t) ==
    /\ pc[t] = "free"
    /\ alive' = FALSE
    /\ Goto(t, "idle")
    /\ call' = [call EXCEPT ![t] = "none"]
    /\ UNCHANGED <<is_open, is_closing, reader_running, reader_thread, buffer,
                   write_mutex, inbound, ret, arg, fail_code, sock, peer, wire,
                   session, bounds>>

-----------------------------------------------------------------------------
(* The reader thread *)

read_loop ==
    /\ pc[Reader] = "loop"
    /\ Goto(Reader, IF is_open /\ ~is_closing THEN "read" ELSE "exited")
    /\ UNCHANGED <<flags, buffer, write_mutex, inbound, local, fail_code, sock,
                   peer, wire, session, bounds>>

(* read_exact fails: the socket is closed or the peer has gone.            *)
ReadError ==
    /\ pc[Reader] = "read"
    /\ sock = "closed" \/ peer = "gone"
    /\ Goto(Reader, "on_error_read")
    /\ UNCHANGED <<flags, buffer, write_mutex, inbound, local, fail_code, sock,
                   peer, wire, session, bounds>>

(* read_one_frame has the whole of frame f.  read_payload leaves           *)
(* payload_buffer_ as it is when the payload is empty.                     *)
Receive(f) ==
    /\ pc[Reader] = "read"
    /\ sock = "open" /\ peer = "up"
    /\ Len(rx) < MaxReads
    /\ rx' = Append(rx, f)

NewPayload(f) == IF f.pl = <<>> THEN payload_buffer ELSE f.pl

Unaffected == <<flags, buffer, write_mutex, sock, peer, wire, closes, bounds>>

Fail(code) ==
    /\ fail_code' = code
    /\ Goto(Reader, "on_error_fail")
    /\ UNCHANGED <<local, delivered>>

(* deliver_message: a text that is not UTF-8 fails the connection; another *)
(* message is on its way to on_message_, in the reader's arg.              *)
deliver_message(message, op) ==
    IF op = "TEXT" /\ ~IsText(message)
    THEN Fail(1007)
    ELSE /\ Handle("none", [op |-> op, fin |-> TRUE, pl |-> message], "deliver")
         /\ UNCHANGED <<fail_code, delivered>>

(* Mutated form: fragmented_ stays set.                                    *)
reset_fragment_buffer ==
    /\ UNCHANGED fragmented /\ message_buffer' = <<>> /\ message_opcode' = "TEXT"

(* Mutated form: the opcode of the last frame is kept.                     *)
reset_fragment_opcode ==
    /\ fragmented' = FALSE /\ message_buffer' = <<>> /\ message_opcode' = "CONTINUATION"

reset_fragment_state ==
    /\ fragmented' = FALSE /\ message_buffer' = <<>> /\ message_opcode' = "TEXT"

ReceiveInvalid(f) ==
    /\ Receive(f)
    /\ ~validate_frame_header(f)
    /\ Fail(1002)
    /\ UNCHANGED <<Unaffected, inbound>>

ReceiveData(f) ==
    /\ Receive(f)
    /\ validate_frame_header(f) /\ f.op \in {"TEXT", "BINARY"}
    /\ payload_buffer' = NewPayload(f)
    /\ \/ /\ fragmented
          /\ Fail(1002)
          /\ UNCHANGED <<fragmented, message_buffer, message_opcode>>
       \/ /\ ~fragmented /\ ~f.fin
          /\ fragmented' = TRUE
          /\ message_buffer' = payload_buffer'
          /\ message_opcode' = f.op
          /\ Goto(Reader, "loop")
          /\ UNCHANGED <<local, fail_code, delivered>>
       \/ /\ ~fragmented /\ f.fin
          /\ deliver_message(payload_buffer', f.op)
          /\ UNCHANGED <<fragmented, message_buffer, message_opcode>>
    /\ UNCHANGED Unaffected

ReceiveContinuation(f) ==
    /\ Receive(f)
    /\ validate_frame_header(f) /\ f.op = "CONTINUATION"
    /\ payload_buffer' = NewPayload(f)
    /\ \/ /\ ~fragmented
          /\ Fail(1002)
          /\ UNCHANGED <<fragmented, message_buffer, message_opcode>>
       \/ /\ fragmented /\ ~f.fin
          /\ message_buffer' = message_buffer \o payload_buffer'
          /\ Goto(Reader, "loop")
          /\ UNCHANGED <<fragmented, message_opcode, local, fail_code, delivered>>
       \/ /\ fragmented /\ f.fin
          /\ deliver_message(message_buffer \o payload_buffer', message_opcode)
          /\ reset_fragment_state
    /\ UNCHANGED Unaffected

handle_close_frame(f) ==
    /\ Receive(f)
    /\ validate_frame_header(f) /\ f.op = "CLOSE"
    /\ payload_buffer' = NewPayload(f)
    /\ Handle("echo", CloseFrame(EchoCode(payload_buffer')), "build")
    /\ UNCHANGED <<Unaffected, fragmented, message_buffer, message_opcode,
                   fail_code, delivered>>

ReceivePing(f) ==
    /\ Receive(f)
    /\ validate_frame_header(f) /\ f.op = "PING"
    /\ payload_buffer' = NewPayload(f)
    /\ Goto(Reader, "ping_check")
    /\ UNCHANGED <<Unaffected, fragmented, message_buffer, message_opcode, local,
                   fail_code, delivered>>

ReceivePong(f) ==
    /\ Receive(f)
    /\ validate_frame_header(f) /\ f.op = "PONG"
    /\ payload_buffer' = NewPayload(f)
    /\ Goto(Reader, "loop")
    /\ UNCHANGED <<Unaffected, fragmented, message_buffer, message_opcode, local,
                   fail_code, delivered>>

(* on_message_(payload, op)                                                *)
CallOnMessage ==
    /\ pc[Reader] = "deliver"
    /\ delivered' = Append(delivered, [op |-> arg[Reader].op, pl |-> arg[Reader].pl])
    /\ Handle("none", Torn, "on_message")
    /\ UNCHANGED <<flags, buffer, write_mutex, inbound, fail_code, sock, peer,
                   wire, rx, closes, bounds>>

(* Mutated form: answers with the reassembly buffer.                       *)
handle_ping_frame_other_buffer ==
    /\ pc[Reader] = "ping_check"
    /\ IF is_closing \/ ~is_open
       THEN Goto(Reader, "loop") /\ UNCHANGED local
       ELSE Handle("pong", [op |-> "PONG", fin |-> TRUE, pl |-> message_buffer], "build")
    /\ UNCHANGED <<flags, buffer, write_mutex, inbound, fail_code, sock, peer,
                   wire, session, bounds>>

handle_ping_frame ==
    /\ pc[Reader] = "ping_check"
    /\ IF is_closing \/ ~is_open
       THEN Goto(Reader, "loop") /\ UNCHANGED local
       ELSE Handle("pong", [op |-> "PONG", fin |-> TRUE, pl |-> payload_buffer], "build")
    /\ UNCHANGED <<flags, buffer, write_mutex, inbound, fail_code, sock, peer,
                   wire, session, bounds>>

-----------------------------------------------------------------------------
(* A callback returns to the code that called it.                          *)

ReturnFromOpen(t) ==
    /\ pc[t] = "on_open"
    /\ Goto(t, "start")
    /\ call' = [call EXCEPT ![t] = "start"]
    /\ UNCHANGED <<flags, buffer, write_mutex, inbound, ret, arg, fail_code, sock,
                   peer, wire, session, bounds>>

ReturnFromMessage ==
    /\ pc[Reader] = "on_message"
    /\ Goto(Reader, "loop")
    /\ UNCHANGED <<flags, buffer, write_mutex, inbound, local, fail_code, sock,
                   peer, wire, session, bounds>>

ReturnFromError ==
    /\ \/ /\ pc[Reader] = "on_error_fail"
          /\ Handle("fail", CloseFrame(fail_code), "fail_check")
          /\ UNCHANGED write_mutex
       \/ /\ pc[Reader] = "on_error_read"
          /\ Handle("read_error", Torn, "shut_open")
          /\ UNCHANGED write_mutex
       \/ /\ pc[Reader] = "on_error_pong"
          /\ Handle("none", Torn, "loop")
          /\ write_mutex' = NoThread
    /\ UNCHANGED <<flags, buffer, inbound, fail_code, sock, peer, wire, session,
                   bounds>>

(* The peer's side of the TCP connection goes away.                        *)
PeerGone ==
    /\ peer = "up"
    /\ peer' = "gone"
    /\ UNCHANGED <<flags, buffer, write_mutex, inbound, pc, local, fail_code, sock,
                   wire, session, bounds>>

-----------------------------------------------------------------------------
(* Calls the application chooses to make.                                  *)
Application(t) ==
    \/ connect(t)
    \/ start_reading(t)
    \/ \E op \in DataOp, fin \in Fins : send_data_frame(t, op, fin)
    \/ send_ping(t)
    \/ \E code \in CloseCodes : close(t, code)
    \/ destroy(t)

(* Steps of a thread inside an operation.                                  *)
Proceed(t) ==
    \/ open_and_start_reader(t) \/ start_reader_thread(t) \/ ClaimReader(t)
    \/ Spawn(t) \/ Assign(t)
    \/ BuildStart(t) \/ BuildEnd(t) \/ LockWrite(t) \/ WriteFrame(t)
    \/ MarkClosing(t) \/ ClearOpen(t) \/ CloseSocket(t)
    \/ join_reader_if_needed(t) \/ JoinReader(t) \/ ReaderJoined(t)
    \/ NotifyClose(t) \/ Free(t) \/ ReturnFromOpen(t)

(* Steps of the reader that need nothing from the peer.                    *)
ReaderProceeds ==
    \/ read_loop \/ ReadError \/ handle_ping_frame \/ fail_with_close
    \/ CallOnMessage \/ ReturnFromMessage \/ ReturnFromError

(* The peer sends a frame, or leaves.                                      *)
Peer ==
    \/ \E f \in PeerFrames :
          \/ ReceiveInvalid(f) \/ ReceiveData(f) \/ ReceiveContinuation(f)
          \/ handle_close_frame(f) \/ ReceivePing(f) \/ ReceivePong(f)
    \/ PeerGone

Next ==
    \/ \E t \in Thread : Application(t) \/ Proceed(t)
    \/ ReaderProceeds
    \/ Peer

Spec == Init /\ [][Next]_vars

(* Every thread inside the library keeps running and every callback        *)
(* returns.  Nothing is owed by the application's own calls or by the      *)
(* peer.  The steps of one thread are mutually exclusive, so a condition   *)
(* per thread is one per step; MaxCalls and MaxReads keep the mutex from   *)
(* being taken for ever, so that weak fairness of LockWrite is enough.     *)
FairSpec ==
    /\ Spec
    /\ \A t \in Thread : WF_vars(Proceed(t))
    /\ WF_vars(ReaderProceeds)

-----------------------------------------------------------------------------
Write == [by : Call, frame : OutFrame, built : OutFrame]
Delivery == [op : Opcode \cup {"TORN"}, pl : Seq(Word)]

FlagTypes ==
    /\ is_open \in BOOLEAN /\ is_closing \in BOOLEAN
    /\ reader_running \in BOOLEAN
    /\ reader_thread \in {"none", "joinable"}
    /\ alive \in BOOLEAN

BufferTypes ==
    /\ outbound_frame \in OutFrame
    /\ builder \in Thread \cup {NoThread}
    /\ write_mutex \in Thread \cup {NoThread}

InboundTypes ==
    /\ payload_buffer \in Seq(Word) /\ message_buffer \in Seq(Word)
    /\ fragmented \in BOOLEAN
    /\ message_opcode \in {"TEXT", "BINARY"}

ThreadTypes ==
    /\ pc \in [Thread -> Label]
    /\ ret \in [Thread -> {"idle"} \cup Callback]
    /\ call \in [Thread -> Call]
    /\ arg \in [Thread -> OutFrame]
    /\ fail_code \in {1002, 1007}

SessionTypes ==
    /\ sock \in {"open", "closed"} /\ peer \in {"up", "gone"}
    /\ wire \in Seq(Write)
    /\ rx \in Seq(InFrame)
    /\ delivered \in Seq(Delivery)
    /\ closes \in Seq(Word)
    /\ calls \in 0..MaxCalls /\ opens \in 0..MaxOpens

TypeOK ==
    FlagTypes /\ BufferTypes /\ InboundTypes /\ ThreadTypes /\ SessionTypes

(* Once this side's own close frame (close() or fail_with_close) is on the *)
(* wire, no data frame, ping or pong follows it, whatever the threads that *)
(* were already building one do: is_closing_ is set before the close frame *)
(* is written and every sender looks at it again under write_mutex_.       *)
OwnCloseLast ==
    \A i, j \in DOMAIN wire :
        i < j /\ wire[i].by \in {"close", "fail"} => wire[j].by \notin Guarded

(* Every close code this side puts in a close frame or hands to on_close_  *)
(* is one that may be sent, whatever code the application passed to        *)
(* close() or the peer sent: is_valid_close_code lets none of the codes    *)
(* through that RFC 6455 keeps for local use or leaves undefined.          *)
CloseCodesValid ==
    /\ \A i \in DOMAIN closes : MaySendCode(closes[i])
    /\ \A i \in DOMAIN wire :
          wire[i].built.op = "CLOSE" => MaySendCode(wire[i].built.pl[1])

(* The reader thread never outlives the object: when ~impl has returned it *)
(* has been joined, and no thread is left inside the object's code.        *)
NoReaderAfterDestroy ==
    ~alive => pc[Reader] = "off" /\ \A t \in App : pc[t] = "idle"

(* std::thread's own rules hold: a joinable reader_thread_ is never        *)
(* assigned to and a reader is never joined twice.                         *)
NoAbort == \A t \in Thread : pc[t] # "aborted"

(* While the connection is open, nobody is closing it and no thread is     *)
(* still opening it, the reader thread is there to read the next frame.    *)
ReaderServes ==
    is_open /\ ~is_closing /\ (\A t \in Thread : ~Opening(t))
        => pc[Reader] \notin {"off", "exited"}

(* No thread waits for write_mutex_ while it holds it.                     *)
NoSelfDeadlock == \A t \in Thread : pc[t] = "lock" => write_mutex # t

(* The bytes written are those of the frame the operation built, although  *)
(* all operations build into the same outbound_frame_.                     *)
WireIntact == \A i \in DOMAIN wire : wire[i].frame = wire[i].built

(* on_close_ is called at most once per connection.                        *)
OnCloseOnce == Len(closes) <= 1

(* on_message_ is not called any more once on_close_ has been.             *)
NoMessageAfterClose ==
    [][Len(closes) > 0 /\ closes' # <<>> => delivered' = delivered]_vars

(* close() returns on every thread it is called on.                        *)
CloseReturns == \A t \in Thread : call[t] = "close" ~> call[t] # "close"

(* Once is_closing_ is set the reader leaves read_loop.                    *)
ReaderStops == is_closing ~> pc[Reader] \in {"off", "exited"}

(* Once is_closing_ is set the application is told through on_close_.      *)
CloseNotified == is_closing ~> closes # <<>>
=============================================================================
