-------------------------- MODULE ConnectionProofs --------------------------
(***************************************************************************)
(* Theorems about module Connection, for any number of application         *)
(* threads, any frames from the peer and any bounds: every step keeps the  *)
(* types; no frame follows an own CLOSE; every CLOSE carries a valid code; *)
(* the reader thread is gone when ~impl has returned.  When two threads do *)
(* not start the reader at the same time, no joinable std::thread is       *)
(* assigned to, and with one thread that closes none is joined twice.      *)
(* Then one session: what holds when the object connects once besides (the *)
(* reader serves; with one thread that calls, on_message_ does not follow  *)
(* on_close_), and when the application calls it from callbacks only       *)
(* (frames are written whole, on_close_ is called once).                   *)
(***************************************************************************)
EXTENDS Connection, TLAPS

(* Zenon first: the leaves that need arithmetic, records or sequences name *)
(* the SMT solver.                                                         *)
USE Zenon

-----------------------------------------------------------------------------
(* Facts about the operators of the model *)

(* The labels of the steps.                                                *)
LEMMA Labels ==
    /\ "off" \in Label /\ "idle" \in Label /\ "opened" \in Label
    /\ "start" \in Label /\ "claim" \in Label /\ "spawn" \in Label
    /\ "assign" \in Label /\ "deliver" \in Label
    /\ "loop" \in Label /\ "read" \in Label /\ "ping_check" \in Label
    /\ "fail_check" \in Label /\ "mark" \in Label /\ "build" \in Label
    /\ "building" \in Label /\ "lock" \in Label /\ "write" \in Label
    /\ "shut_open" \in Label /\ "shut_sock" \in Label /\ "join" \in Label
    /\ "join_wait" \in Label /\ "joined" \in Label /\ "notify" \in Label
    /\ "free" \in Label /\ "exited" \in Label /\ "aborted" \in Label
    /\ Callback \subseteq Label
  BY DEF Label

(* The callbacks are steps too.                                            *)
LEMMA Callbacks ==
    /\ "on_open" \in Callback /\ "on_message" \in Callback
    /\ "on_error_fail" \in Callback /\ "on_error_read" \in Callback
    /\ "on_error_pong" \in Callback
  BY DEF Callback

(* The reader is one of the threads.                                       *)
LEMMA ReaderIsThread == Reader \in Thread
  BY DEF Thread

(* The bounds are numbers, and MaxCalls keeps the payloads within a word.  *)
LEMMA WordType == ASSUME NEW n \in Word PROVE n \in Nat /\ (0..n) \subseteq Word
<1>1. MaxWord \in Nat
  BY SMT DEF MaxWord
<1> QED
  BY <1>1, SMT DEF Word

(* The bounds are numbers, and the count of calls fits a payload word.     *)
LEMMA BoundTypes == MaxCalls \in Nat /\ (0..MaxCalls) \subseteq Word /\ MaxOpens \in Nat
<1>1. MaxCalls \in Word /\ MaxOpens \in Nat
  BY ConnectionAssumption
<1> QED
  BY <1>1, WordType

(* A call more, below the bound.                                           *)
LEMMA CountType ==
    ASSUME NEW max \in Nat, NEW n \in 0..max, n < max
    PROVE  n + 1 \in 0..max
  BY SMT

(* Appending an element of a set to a sequence over it.                    *)
LEMMA AppendType ==
    ASSUME NEW S, NEW s \in Seq(S), NEW e \in S PROVE Append(s, e) \in Seq(S)
  BY SMT

(* What a sequence holds after an element has been appended.               *)
LEMMA AppendParts ==
    ASSUME NEW S, NEW s \in Seq(S), NEW e
    PROVE  /\ \A i \in DOMAIN Append(s, e) :
                 (i \in DOMAIN s /\ Append(s, e)[i] = s[i]) \/ Append(s, e)[i] = e
           /\ \A i, j \in DOMAIN Append(s, e) :
                 i < j => i \in DOMAIN s /\ Append(s, e)[i] = s[i]
<1>1. /\ Len(s) \in Nat /\ DOMAIN s = 1..Len(s)
      /\ DOMAIN Append(s, e) = 1..(Len(s) + 1)
      /\ \A i \in 1..Len(s) : Append(s, e)[i] = s[i]
      /\ Append(s, e)[Len(s) + 1] = e
  BY SMT
<1> QED
  BY <1>1, SMT

(* Torn bytes and a close frame with a 16-bit code are outbound frames.    *)
LEMMA TornType == Torn \in OutFrame
  BY SMT DEF Torn, OutFrame

(* A close frame with a 16-bit code is a frame.                            *)
LEMMA CloseFrameType == ASSUME NEW code \in Word PROVE CloseFrame(code) \in OutFrame
  BY SMT DEF CloseFrame, OutFrame, Opcode, DataOp

(* The code of a close frame is its first word.                            *)
LEMMA CloseFrameCode == ASSUME NEW code PROVE CloseFrame(code).pl[1] = code
  BY DEF CloseFrame

(* The data frames and pings the application sends are frames.             *)
LEMMA SentType ==
    ASSUME NEW op \in DataOp \cup {"PING"}, NEW fin \in BOOLEAN, NEW word \in Word
    PROVE  [op |-> op, fin |-> fin, pl |-> <<word>>] \in OutFrame
  BY SMT DEF OutFrame, Opcode

(* The codes this side chooses by itself may be sent.                      *)
LEMMA OwnCodes ==
    /\ 1000 \in Word /\ is_valid_close_code(1000)
    /\ 1002 \in Word /\ is_valid_close_code(1002)
    /\ 1007 \in Word /\ is_valid_close_code(1007)
  BY SMT DEF Word, MaxWord, is_valid_close_code

(* What is_valid_close_code accepts may be sent.                           *)
LEMMA SendableCode ==
    ASSUME NEW code \in Word, is_valid_close_code(code) PROVE MaySendCode(code)
<1>1. code \in Nat
  BY WordType
<1> QED
  BY <1>1, SMT DEF is_valid_close_code, MaySendCode

(* So may the code handle_close_frame answers, whatever the peer sent.     *)
LEMMA EchoCodeValid ==
    ASSUME NEW pl \in Seq(Word)
    PROVE  EchoCode(pl) \in Word /\ is_valid_close_code(EchoCode(pl))
<1>1. CASE pl = <<>>
  BY <1>1, OwnCodes, SMT DEF EchoCode
<1>2. CASE pl # <<>>
  <2>1. pl[1] \in Word
    BY <1>2, SMT
  <2> QED
    BY <1>2, <2>1, OwnCodes, SMT DEF EchoCode
<1> QED
  BY <1>1, <1>2

-----------------------------------------------------------------------------
(* The types.  First what the building blocks of the actions do to them.   *)

(* A jump of one thread.                                                   *)
LEMMA GotoType ==
    ASSUME ThreadTypes, NEW t \in Thread, NEW label \in Label, Goto(t, label)
    PROVE  pc' \in [Thread -> Label]
  BY SMT DEF ThreadTypes, Goto

(* The start of an API call.                                               *)
LEMMA BeginType ==
    ASSUME ThreadTypes, NEW t \in Thread, NEW operation \in Call,
           NEW frame \in OutFrame, NEW label \in Label,
           MayCall(t), Begin(t, operation, frame, label), UNCHANGED fail_code
    PROVE  ThreadTypes'
<1>1. CallbackCalls \subseteq Callback
  BY ConnectionAssumption
<1>2. pc[t] \in {"idle"} \cup Callback
  BY <1>1 DEF MayCall
<1> QED
  BY <1>2, SMT DEF ThreadTypes, Begin, Goto

(* The return of a call or a handler.                                      *)
LEMMA FinishType ==
    ASSUME ThreadTypes, NEW t \in Thread, Finish(t), UNCHANGED fail_code
    PROVE  ThreadTypes'
<1>1. ret[t] \in Label
  BY Labels, SMT DEF ThreadTypes
<1>2. pc' \in [Thread -> Label]
  BY <1>1, Labels, SMT DEF ThreadTypes, Finish, Goto
<1>3. call' \in [Thread -> Call]
  BY SMT DEF ThreadTypes, Finish, Call
<1> QED
  BY <1>2, <1>3, TornType, SMT DEF ThreadTypes, Finish

(* The start of a handler on the reader thread.                            *)
LEMMA HandleType ==
    ASSUME ThreadTypes, NEW operation \in Call, NEW frame \in OutFrame,
           NEW label \in Label, Handle(operation, frame, label), UNCHANGED fail_code
    PROVE  ThreadTypes'
  BY ReaderIsThread, SMT DEF ThreadTypes, Handle, Goto

(* A jump that leaves the rest of the thread's state alone.                *)
LEMMA JumpType ==
    ASSUME ThreadTypes, NEW t \in Thread, NEW label \in Label, Goto(t, label),
           UNCHANGED <<local, fail_code>>
    PROVE  ThreadTypes'
  BY GotoType, SMT DEF ThreadTypes, local

(* What is left alone keeps its type.                                      *)
LEMMA SameFlags == ASSUME FlagTypes, UNCHANGED flags PROVE FlagTypes'
  BY DEF FlagTypes, flags

(* A step that leaves outbound_frame_ and write_mutex_ alone.              *)
LEMMA SameBuffer ==
    ASSUME BufferTypes, UNCHANGED <<buffer, write_mutex>> PROVE BufferTypes'
  BY DEF BufferTypes, buffer

(* A step that leaves the reassembly state alone.                          *)
LEMMA SameInbound == ASSUME InboundTypes, UNCHANGED inbound PROVE InboundTypes'
  BY DEF InboundTypes, inbound

(* A step that leaves the socket, the peer and what they saw alone.        *)
LEMMA SameSession ==
    ASSUME SessionTypes, UNCHANGED <<sock, peer, wire, session, bounds>>
    PROVE  SessionTypes'
  BY DEF SessionTypes, session, bounds

(* The four together.                                                      *)
LEMMA SameParts ==
    ASSUME TypeOK
    PROVE  /\ UNCHANGED flags => FlagTypes'
           /\ UNCHANGED <<buffer, write_mutex>> => BufferTypes'
           /\ UNCHANGED inbound => InboundTypes'
           /\ UNCHANGED <<sock, peer, wire, session, bounds>> => SessionTypes'
  BY SameFlags, SameBuffer, SameInbound, SameSession DEF TypeOK

(* A step that only moves threads.                                         *)
LEMMA OnlyThreads ==
    ASSUME TypeOK, ThreadTypes',
           UNCHANGED <<flags, buffer, write_mutex, inbound, sock, peer, wire,
                       session, bounds>>
    PROVE  TypeOK'
  BY SameParts DEF TypeOK

-----------------------------------------------------------------------------
(* Which operations pass through which steps, and what the operations that *)
(* close carry: a close frame with a code that may be sent.                *)

Closer == {"close", "fail", "echo"}

Stage(label, operation) ==
    /\ label \in {"mark", "fail_check"} => operation \in {"close", "fail"}
    /\ label \in {"build", "building", "lock", "write"}
          => operation \in Closer \cup Guarded
    /\ label = "shut_open" => operation \in Closer \cup {"read_error", "destroy"}
    /\ label = "shut_sock" => operation \in {"close", "fail", "destroy"}
    /\ label \in {"join", "join_wait", "joined"} => operation \in {"close", "destroy"}
    /\ label = "notify" => operation \in Closer

Carries(operation, frame) ==
    /\ operation \in Closer =>
          \E code \in Word : is_valid_close_code(code) /\ frame = CloseFrame(code)
    /\ operation \in Guarded => frame.op # "CLOSE"

CallInv == \A t \in Thread : Stage(pc[t], call[t]) /\ Carries(call[t], arg[t])

(* Opening a connection keeps the types.                                   *)
LEMMA OpenType ==
    ASSUME TypeOK, NEW t \in Thread,
           \/ connect(t) \/ open_and_start_reader(t) \/ start_reading(t)
           \/ start_reader_thread(t) \/ ClaimReader(t) \/ Spawn(t) \/ Assign(t)
           \/ ReturnFromOpen(t)
    PROVE  TypeOK'
<1> USE DEF TypeOK
<1>1. CASE connect(t)
  <2>1. ThreadTypes'
    BY <1>1, JumpType, Labels, SMT DEF connect, ThreadTypes, local
  <2>2. SessionTypes'
    <3>1. opens' \in 0..MaxOpens
      BY <1>1, BoundTypes, CountType DEF connect, SessionTypes
    <3>2. calls' = calls /\ sock' \in {"open", "closed"} /\ peer' \in {"up", "gone"}
      BY <1>1 DEF connect, SessionTypes
    <3>3. /\ wire' \in Seq(Write) /\ rx' \in Seq(InFrame)
          /\ delivered' \in Seq(Delivery) /\ closes' \in Seq(Word)
      <4>1. CASE wire' = <<>> /\ rx' = <<>> /\ delivered' = <<>> /\ closes' = <<>>
        BY <4>1, SMT
      <4>2. CASE UNCHANGED <<wire, rx, delivered, closes>>
        BY <4>2 DEF SessionTypes
      <4> QED
        BY <1>1, <4>1, <4>2 DEF connect, session
    <3> QED
      BY <3>1, <3>2, <3>3 DEF SessionTypes
  <2> QED
    BY <1>1, <2>1, <2>2, SameParts DEF connect
<1>2. CASE open_and_start_reader(t)
  <2>1. ThreadTypes'
    BY <1>2, JumpType, Labels, Callbacks DEF open_and_start_reader
  <2>2. FlagTypes'
    BY <1>2 DEF open_and_start_reader, FlagTypes
  <2> QED
    BY <1>2, <2>1, <2>2, SameParts DEF open_and_start_reader
<1>3. CASE start_reading(t)
  <2>1. ThreadTypes'
    BY <1>3, BeginType, TornType, Labels DEF start_reading, Call
  <2>2. SessionTypes'
    <3>1. calls' \in 0..MaxCalls
      BY <1>3, BoundTypes, CountType DEF start_reading, SessionTypes
    <3> QED
      BY <1>3, <3>1 DEF start_reading, SessionTypes, session
  <2> QED
    BY <1>3, <2>1, <2>2, SameParts DEF start_reading
<1>4. CASE start_reader_thread(t)
  <2>1. ThreadTypes'
    BY <1>4, JumpType, FinishType, Labels DEF start_reader_thread
  <2> QED
    BY <1>4, <2>1, OnlyThreads DEF start_reader_thread
<1>5. CASE Spawn(t)
  <2>1. ThreadTypes'
    BY <1>5, ReaderIsThread, Labels, SMT DEF Spawn, ThreadTypes, Goto, local
  <2> QED
    BY <1>5, <2>1, OnlyThreads DEF Spawn
<1>6. CASE Assign(t)
  <2>1. ThreadTypes'
    BY <1>6, JumpType, FinishType, Labels DEF Assign
  <2>2. FlagTypes'
    BY <1>6 DEF Assign, FlagTypes
  <2> QED
    BY <1>6, <2>1, <2>2, SameParts DEF Assign
<1>7. CASE ReturnFromOpen(t)
  <2>1. ThreadTypes'
    BY <1>7, Labels, SMT DEF ReturnFromOpen, ThreadTypes, Goto, Call
  <2> QED
    BY <1>7, <2>1, OnlyThreads DEF ReturnFromOpen
<1>8. CASE ClaimReader(t)
  <2>1. ThreadTypes'
    BY <1>8, JumpType, Labels DEF ClaimReader
  <2>2. FlagTypes'
    BY <1>8 DEF ClaimReader, FlagTypes
  <2> QED
    BY <1>8, <2>1, <2>2, SameParts DEF ClaimReader
<1> QED
  BY <1>1, <1>2, <1>3, <1>4, <1>5, <1>6, <1>7, <1>8

(* Sending keeps the types.                                                *)
LEMMA SendType ==
    ASSUME TypeOK, CallInv, NEW t \in Thread,
           \/ \E op \in DataOp \cup {"PING"}, fin \in BOOLEAN : Send(t, op, fin)
           \/ BuildStart(t) \/ BuildEnd(t) \/ LockWrite(t) \/ WriteFrame(t)
    PROVE  TypeOK'
<1> USE DEF TypeOK
<1>1. ASSUME NEW op \in DataOp \cup {"PING"}, NEW fin \in BOOLEAN, Send(t, op, fin)
      PROVE  TypeOK'
  <2>1. calls' \in Word /\ calls' \in 0..MaxCalls
    BY <1>1, BoundTypes, CountType DEF Send, SessionTypes
  <2>2. [op |-> op, fin |-> fin, pl |-> <<calls'>>] \in OutFrame
    BY <2>1, SentType
  <2>3. ThreadTypes'
    BY <1>1, <2>2, BeginType, Labels DEF Send, Call
  <2>4. SessionTypes'
    BY <1>1, <2>1 DEF Send, SessionTypes, session
  <2> QED
    BY <1>1, <2>3, <2>4, SameParts DEF Send
<1>2. CASE BuildStart(t)
  <2>1. ThreadTypes'
    BY <1>2, JumpType, Labels DEF BuildStart
  <2>2. BufferTypes'
    BY <1>2, TornType DEF BuildStart, BufferTypes
  <2> QED
    BY <1>2, <2>1, <2>2, SameParts DEF BuildStart
<1>3. CASE BuildEnd(t)
  <2>1. ThreadTypes'
    BY <1>3, JumpType, Labels DEF BuildEnd
  <2>2. BufferTypes'
    BY <1>3, TornType, SMT DEF BuildEnd, BufferTypes, ThreadTypes
  <2> QED
    BY <1>3, <2>1, <2>2, SameParts DEF BuildEnd
<1>4. CASE LockWrite(t)
  <2>1. ThreadTypes'
    BY <1>4, JumpType, FinishType, Labels DEF LockWrite
  <2>2. BufferTypes'
    BY <1>4 DEF LockWrite, BufferTypes, buffer
  <2> QED
    BY <1>4, <2>1, <2>2, SameParts DEF LockWrite
<1>5. CASE WriteFrame(t)
  <2>1. ThreadTypes'
    BY <1>5, JumpType, FinishType, Labels, Callbacks DEF WriteFrame
  <2>2. BufferTypes'
    BY <1>5 DEF WriteFrame, BufferTypes, buffer
  <2>3. [by |-> call[t], frame |-> outbound_frame, built |-> arg[t]] \in Write
    BY SMT DEF Write, BufferTypes, ThreadTypes
  <2>4. SessionTypes'
    <3>1. wire' \in Seq(Write)
      BY <1>5, <2>3, AppendType DEF WriteFrame, SessionTypes
    <3> QED
      BY <1>5, <3>1 DEF WriteFrame, SessionTypes, session, bounds
  <2> QED
    BY <1>5, <2>1, <2>2, <2>4, SameParts DEF WriteFrame
<1> QED
  BY <1>1, <1>2, <1>3, <1>4, <1>5

(* The frame close() sends has a code that may be sent.                    *)
LEMMA CloseArgument ==
    ASSUME NEW code \in CloseCodes
    PROVE  \E valid \in Word :
              /\ is_valid_close_code(valid)
              /\ CloseFrame(IF is_valid_close_code(code) THEN code ELSE 1000)
                    = CloseFrame(valid)
<1>1. code \in Word
  BY ConnectionAssumption
<1> QED
  BY <1>1, OwnCodes, SMT

(* Closing keeps the types.                                                *)
LEMMA CloseType ==
    ASSUME TypeOK, CallInv, NEW t \in Thread,
           \/ (\E code \in CloseCodes : close(t, code)) \/ destroy(t)
           \/ MarkClosing(t) \/ ClearOpen(t) \/ CloseSocket(t)
           \/ join_reader_if_needed(t) \/ JoinReader(t) \/ ReaderJoined(t)
           \/ NotifyClose(t) \/ Free(t)
    PROVE  TypeOK'
<1> USE DEF TypeOK
<1>1. ASSUME NEW code \in CloseCodes, close(t, code) PROVE TypeOK'
  <2>1. CloseFrame(IF is_valid_close_code(code) THEN code ELSE 1000) \in OutFrame
    BY CloseArgument, CloseFrameType, SMT
  <2>2. ThreadTypes'
    BY <1>1, <2>1, BeginType, Labels, SMT DEF close, Call
  <2> QED
    BY <1>1, <2>2, OnlyThreads DEF close
<1>2. CASE destroy(t)
  <2>1. ThreadTypes'
    BY <1>2, Labels, SMT DEF destroy, ThreadTypes, Goto, Call
  <2> QED
    BY <1>2, <2>1, OnlyThreads DEF destroy
<1>3. CASE MarkClosing(t)
  <2>1. ThreadTypes'
    BY <1>3, JumpType, Labels DEF MarkClosing
  <2>2. FlagTypes'
    BY <1>3 DEF MarkClosing, FlagTypes
  <2> QED
    BY <1>3, <2>1, <2>2, SameParts DEF MarkClosing
<1>4. CASE ClearOpen(t)
  <2>1. ThreadTypes'
    BY <1>4, JumpType, Labels DEF ClearOpen
  <2>2. FlagTypes'
    BY <1>4 DEF ClearOpen, FlagTypes
  <2> QED
    BY <1>4, <2>1, <2>2, SameParts DEF ClearOpen
<1>5. CASE CloseSocket(t)
  <2>1. ThreadTypes'
    BY <1>5, JumpType, Labels DEF CloseSocket
  <2>2. SessionTypes'
    BY <1>5 DEF CloseSocket, SessionTypes, session, bounds
  <2> QED
    BY <1>5, <2>1, <2>2, SameParts DEF CloseSocket
<1>6. CASE join_reader_if_needed(t)
  <2>1. ThreadTypes'
    BY <1>6, JumpType, Labels DEF join_reader_if_needed, AfterJoin
  <2> QED
    BY <1>6, <2>1, OnlyThreads DEF join_reader_if_needed
<1>7. CASE JoinReader(t)
  <2>1. ThreadTypes'
    BY <1>7, ReaderIsThread, Labels, SMT DEF JoinReader, ThreadTypes, Goto, local
  <2>2. FlagTypes'
    BY <1>7 DEF JoinReader, FlagTypes
  <2> QED
    BY <1>7, <2>1, <2>2, SameParts DEF JoinReader
<1>8. CASE ReaderJoined(t)
  <2>1. ThreadTypes'
    BY <1>8, JumpType, Labels DEF ReaderJoined, AfterJoin
  <2>2. FlagTypes'
    BY <1>8 DEF ReaderJoined, FlagTypes
  <2> QED
    BY <1>8, <2>1, <2>2, SameParts DEF ReaderJoined
<1>9. CASE NotifyClose(t)
  <2>1. ThreadTypes'
    BY <1>9, FinishType DEF NotifyClose
  <2>2. arg[t].pl[1] \in Word
    <3>1. PICK code \in Word : arg[t] = CloseFrame(code)
      BY <1>9 DEF NotifyClose, CallInv, Stage, Carries
    <3> QED
      BY <3>1, CloseFrameCode
  <2>3. closes' \in Seq(Word)
    BY <1>9, <2>2, AppendType DEF NotifyClose, SessionTypes
  <2>4. SessionTypes'
    BY <1>9, <2>3 DEF NotifyClose, SessionTypes, bounds
  <2> QED
    BY <1>9, <2>1, <2>4, SameParts DEF NotifyClose
<1>10. CASE Free(t)
  <2>1. ThreadTypes'
    BY <1>10, Labels, SMT DEF Free, ThreadTypes, Goto, Call
  <2>2. FlagTypes'
    BY <1>10 DEF Free, FlagTypes
  <2> QED
    BY <1>10, <2>1, <2>2, SameParts DEF Free
<1> QED
  BY <1>1, <1>2, <1>3, <1>4, <1>5, <1>6, <1>7, <1>8, <1>9, <1>10

(* The reader's own steps keep the types.                                  *)
LEMMA ReaderType ==
    ASSUME TypeOK, ReaderProceeds PROVE TypeOK'
<1> USE ReaderIsThread DEF TypeOK
<1>1. CASE read_loop \/ ReadError \/ fail_with_close \/ ReturnFromMessage
  <2>1. ThreadTypes'
    BY <1>1, JumpType, Labels, Callbacks
    DEF read_loop, ReadError, fail_with_close, ReturnFromMessage
  <2> QED
    BY <1>1, <2>1, OnlyThreads
    DEF read_loop, ReadError, fail_with_close, ReturnFromMessage
<1>2. CASE handle_ping_frame
  <2>1. [op |-> "PONG", fin |-> TRUE, pl |-> payload_buffer] \in OutFrame
    BY DEF InboundTypes, OutFrame, Opcode
  <2>2. ThreadTypes'
    BY <1>2, <2>1, JumpType, HandleType, Labels DEF handle_ping_frame, Call
  <2> QED
    BY <1>2, <2>2, OnlyThreads DEF handle_ping_frame
<1>3. CASE ReturnFromError
  <2>1. fail_code \in Word
    BY OwnCodes, SMT DEF ThreadTypes
  <2>2. ThreadTypes'
    BY <1>3, <2>1, HandleType, TornType, CloseFrameType, Labels
    DEF ReturnFromError, Call
  <2>3. BufferTypes'
    BY <1>3 DEF ReturnFromError, BufferTypes, buffer
  <2> QED
    BY <1>3, <2>2, <2>3, SameParts DEF ReturnFromError
<1>4. CASE CallOnMessage
  <2>1. ThreadTypes'
    BY <1>4, HandleType, TornType, Labels, Callbacks DEF CallOnMessage, Call
  <2>2. arg[Reader] \in OutFrame
    BY SMT DEF ThreadTypes
  <2>3. [op |-> arg[Reader].op, pl |-> arg[Reader].pl] \in Delivery
    BY <2>2 DEF OutFrame, Delivery
  <2>4. delivered' \in Seq(Delivery)
    BY <1>4, <2>3, AppendType DEF CallOnMessage, SessionTypes
  <2>5. SessionTypes'
    BY <1>4, <2>4 DEF CallOnMessage, SessionTypes, bounds
  <2> QED
    BY <1>4, <2>1, <2>5, SameParts DEF CallOnMessage
<1> QED
  BY <1>1, <1>2, <1>3, <1>4 DEF ReaderProceeds

(* What read_one_frame does with a frame keeps the types.                  *)
LEMMA FailType ==
    ASSUME ThreadTypes, NEW code \in {1002, 1007}, Fail(code) PROVE ThreadTypes'
  BY GotoType, ReaderIsThread, Labels, Callbacks, SMT DEF ThreadTypes, Fail, local

(* deliver_message hands on a text or a binary, or fails the connection.   *)
LEMMA DeliverType ==
    ASSUME ThreadTypes, SessionTypes, NEW message \in Seq(Word),
           NEW op \in {"TEXT", "BINARY"}, deliver_message(message, op)
    PROVE  ThreadTypes' /\ delivered' \in Seq(Delivery)
<1>1. CASE Fail(1007) /\ UNCHANGED delivered
  BY <1>1, FailType, SMT DEF SessionTypes
<1>2. CASE /\ Handle("none", [op |-> op, fin |-> TRUE, pl |-> message], "deliver")
           /\ UNCHANGED <<fail_code, delivered>>
  <2>1. [op |-> op, fin |-> TRUE, pl |-> message] \in OutFrame
    BY SMT DEF OutFrame, Opcode, DataOp
  <2>2. delivered' \in Seq(Delivery)
    BY <1>2 DEF SessionTypes
  <2> QED
    BY <1>2, <2>1, <2>2, HandleType, Labels DEF Call
<1> QED
  BY <1>1, <1>2, SMT DEF deliver_message, Fail

(* Reading a frame only changes what the reader owns.                      *)
LEMMA ReceivedType ==
    ASSUME TypeOK, NEW f \in PeerFrames, Receive(f), delivered' \in Seq(Delivery),
           UNCHANGED Unaffected
    PROVE  /\ FlagTypes' /\ BufferTypes' /\ SessionTypes'
           /\ NewPayload(f) \in Seq(Word) /\ f.op \in Opcode \cup {"RESERVED"}
<1>1. f \in InFrame
  BY ConnectionAssumption
<1>2. rx' \in Seq(InFrame)
  BY <1>1, AppendType DEF Receive, TypeOK, SessionTypes
<1>3. NewPayload(f) \in Seq(Word) /\ f.op \in Opcode \cup {"RESERVED"}
  BY <1>1 DEF NewPayload, InFrame, TypeOK, InboundTypes
<1>4. SessionTypes'
  BY <1>2 DEF TypeOK, SessionTypes, Unaffected, bounds
<1> QED
  BY <1>3, <1>4, SameFlags, SameBuffer DEF TypeOK, Unaffected

(* Every frame of the peer, and its going away, keeps the types.           *)
LEMMA PeerType == ASSUME TypeOK, Peer PROVE TypeOK'
<1> USE ReaderIsThread, Labels, Callbacks DEF TypeOK
<1>1. ASSUME NEW f \in PeerFrames, ReceiveInvalid(f) PROVE TypeOK'
  <2>1. ThreadTypes' /\ delivered' \in Seq(Delivery)
    BY <1>1, FailType, SMT DEF ReceiveInvalid, Fail, SessionTypes
  <2> QED
    BY <1>1, <2>1, ReceivedType, SameInbound, SMT DEF ReceiveInvalid
<1>2. ASSUME NEW f \in PeerFrames, ReceiveData(f) PROVE TypeOK'
  <2>1. NewPayload(f) \in Seq(Word)
    BY ConnectionAssumption DEF NewPayload, InFrame, InboundTypes
  <2>2. f.op \in {"TEXT", "BINARY"}
    BY <1>2 DEF ReceiveData
  <2>3. ThreadTypes' /\ delivered' \in Seq(Delivery)
    BY <1>2, <2>1, <2>2, FailType, DeliverType, JumpType, SMT
    DEF ReceiveData, Fail, SessionTypes
  <2>4. InboundTypes'
    BY <1>2, <2>1, <2>2 DEF ReceiveData, InboundTypes
  <2> QED
    BY <1>2, <2>3, <2>4, ReceivedType DEF ReceiveData
<1>3. ASSUME NEW f \in PeerFrames, ReceiveContinuation(f) PROVE TypeOK'
  <2>1. NewPayload(f) \in Seq(Word)
    BY ConnectionAssumption DEF NewPayload, InFrame, InboundTypes
  <2>2. /\ payload_buffer' = NewPayload(f)
        /\ message_buffer \o payload_buffer' \in Seq(Word)
    BY <1>3, <2>1, SMT DEF ReceiveContinuation, InboundTypes
  <2>3. ThreadTypes' /\ delivered' \in Seq(Delivery)
    <3>1. CASE Fail(1002)
      BY <3>1, FailType, SMT DEF Fail, SessionTypes
    <3>2. CASE Goto(Reader, "loop") /\ UNCHANGED <<local, fail_code, delivered>>
      BY <3>2, JumpType DEF SessionTypes
    <3>3. CASE deliver_message(message_buffer \o payload_buffer', message_opcode)
      BY <2>2, <3>3, DeliverType DEF InboundTypes
    <3> QED
      BY <1>3, <3>1, <3>2, <3>3, SMT DEF ReceiveContinuation
  <2>4. InboundTypes'
    <3>1. payload_buffer' \in Seq(Word)
      BY <2>1, <2>2
    <3>2. CASE UNCHANGED <<fragmented, message_buffer, message_opcode>>
      BY <3>1, <3>2 DEF InboundTypes
    <3>3. CASE /\ message_buffer' = message_buffer \o payload_buffer'
               /\ UNCHANGED <<fragmented, message_opcode>>
      BY <2>2, <3>1, <3>3 DEF InboundTypes
    <3>4. CASE reset_fragment_state
      <4>1. message_buffer' \in Seq(Word) /\ message_opcode' \in {"TEXT", "BINARY"}
        BY <3>4, SMT DEF reset_fragment_state
      <4>2. fragmented' \in BOOLEAN
        BY <3>4 DEF reset_fragment_state
      <4> QED
        BY <3>1, <4>1, <4>2 DEF InboundTypes
    <3> QED
      BY <1>3, <3>2, <3>3, <3>4, SMT DEF ReceiveContinuation
  <2> QED
    BY <1>3, <2>3, <2>4, ReceivedType DEF ReceiveContinuation
<1>4. ASSUME NEW f \in PeerFrames, handle_close_frame(f) PROVE TypeOK'
  <2>1. NewPayload(f) \in Seq(Word) /\ delivered' \in Seq(Delivery)
    BY <1>4, ConnectionAssumption
    DEF handle_close_frame, NewPayload, InFrame, InboundTypes, SessionTypes
  <2>2. CloseFrame(EchoCode(payload_buffer')) \in OutFrame
    BY <1>4, <2>1, EchoCodeValid, CloseFrameType DEF handle_close_frame
  <2>3. ThreadTypes'
    BY <1>4, <2>2, HandleType DEF handle_close_frame, Call
  <2>4. InboundTypes'
    BY <1>4, <2>1 DEF handle_close_frame, InboundTypes
  <2> QED
    BY <1>4, <2>1, <2>3, <2>4, ReceivedType DEF handle_close_frame
<1>5. ASSUME NEW f \in PeerFrames, ReceivePing(f) \/ ReceivePong(f) PROVE TypeOK'
  <2>1. NewPayload(f) \in Seq(Word) /\ delivered' \in Seq(Delivery)
    BY <1>5, ConnectionAssumption
    DEF ReceivePing, ReceivePong, NewPayload, InFrame, InboundTypes, SessionTypes
  <2>2. ThreadTypes'
    BY <1>5, JumpType DEF ReceivePing, ReceivePong
  <2>3. InboundTypes'
    BY <1>5, <2>1 DEF ReceivePing, ReceivePong, InboundTypes
  <2> QED
    BY <1>5, <2>1, <2>2, <2>3, ReceivedType DEF ReceivePing, ReceivePong
<1>6. CASE PeerGone
  <2>1. SessionTypes'
    BY <1>6 DEF PeerGone, SessionTypes, session, bounds
  <2>2. ThreadTypes'
    BY <1>6, SMT DEF PeerGone, ThreadTypes, local
  <2> QED
    BY <1>6, <2>1, <2>2, SameFlags, SameBuffer, SameInbound DEF PeerGone
<1> QED
  BY <1>1, <1>2, <1>3, <1>4, <1>5, <1>6 DEF Peer

(* Every step keeps the types.                                             *)
LEMMA NextType == ASSUME TypeOK, CallInv, [Next]_vars PROVE TypeOK'
<1>1. ASSUME NEW t \in Thread, Application(t) PROVE TypeOK'
  <2>1. ASSUME NEW op \in DataOp, NEW fin \in Fins, send_data_frame(t, op, fin)
        PROVE  TypeOK'
    <3>1. fin \in BOOLEAN
      BY ConnectionAssumption
    <3> QED
      BY <2>1, <3>1, SendType DEF send_data_frame
  <2>2. CASE send_ping(t)
    BY <2>2, SendType DEF send_ping
  <2> QED
    BY <1>1, <2>1, <2>2, OpenType, CloseType DEF Application
<1>2. ASSUME NEW t \in Thread, Proceed(t) PROVE TypeOK'
  BY <1>2, OpenType, SendType, CloseType DEF Proceed
<1>3. CASE UNCHANGED vars
  <2>1. ThreadTypes'
    BY <1>3, SMT DEF vars, TypeOK, ThreadTypes
  <2> QED
    BY <1>3, <2>1, OnlyThreads DEF vars
<1> QED
  BY <1>1, <1>2, <1>3, ReaderType, PeerType DEF Next


-----------------------------------------------------------------------------
(* The control skeleton of module Connection: what each step does to the   *)
(* threads, one by one, and to the state they share.  The invariants of    *)
(* the threads are proved from it.                                         *)

out == <<outbound_frame, builder, write_mutex, wire>>
net == <<sock, opens, closes>>

Still(u) ==
    pc'[u] = pc[u] /\ ret'[u] = ret[u] /\ call'[u] = call[u] /\ arg'[u] = arg[u]

Others(t) == \A u \in Thread \ {t} : Still(u)

(* t goes on inside an operation.                                          *)
Jump(t, from, to) ==
    /\ pc[t] = from /\ pc'[t] = to
    /\ ret'[t] = ret[t] /\ call'[t] = call[t] /\ arg'[t] = arg[t]
    /\ Others(t)

(* t calls the API.                                                        *)
Enter(t, operation, to) ==
    /\ MayCall(t)
    /\ pc'[t] = to /\ ret'[t] = pc[t] /\ call'[t] = operation
    /\ Carries(operation, arg'[t])
    /\ Others(t)

(* t begins another operation where it is.                                 *)
Turn(t, from, operation, to) ==
    /\ pc[t] = from /\ pc'[t] = to
    /\ ret'[t] = ret[t] /\ call'[t] = operation
    /\ Carries(operation, arg'[t])
    /\ Others(t)

(* The operation of t ends.                                                *)
Leave(t, from) ==
    /\ pc[t] = from
    /\ pc'[t] = IF call[t] \in ApiCall THEN ret[t] ELSE "loop"
    /\ ret'[t] = "idle" /\ call'[t] = "none" /\ arg'[t] = Torn
    /\ Others(t)

(* Calls of the application, and of ~impl.                                 *)
Calls(t) ==
    /\ UNCHANGED <<flags, out, net, delivered>>
    /\ \/ Enter(t, "start", "start") /\ pc[t] \in Starters
       \/ Enter(t, "send", "build") /\ is_open
       \/ Enter(t, "close", "mark") /\ is_open /\ ~is_closing
       \/ Turn(t, "on_open", "start", "start")
       \/ /\ Turn(t, "idle", "destroy", "shut_open")
          /\ t \in App /\ alive /\ \A u \in App : pc[u] = "idle"

Connects(t) ==
    /\ t \in App /\ Usable
    /\ \A u \in App : pc[u] = "idle"
    /\ ~is_open /\ opens < MaxOpens /\ opens' = opens + 1
    /\ UNCHANGED <<flags, outbound_frame, builder, write_mutex>>
    /\ \/ Jump(t, "idle", "opened") /\ sock' = "open" /\ wire' = <<>> /\ closes' = <<>>
       \/ /\ \A u \in Thread : Still(u)
          /\ sock' = "closed" /\ UNCHANGED <<wire, closes, delivered>>

(* Steps inside an operation that leave the shared state alone.            *)
Passes(t) ==
    /\ UNCHANGED <<flags, out, net, delivered>>
    /\ \/ Leave(t, "start") /\ (~is_open \/ reader_running)
       \/ Jump(t, "start", "claim") /\ is_open /\ ~reader_running
       \/ Jump(t, "spawn", "aborted") /\ pc[Reader] # "off"
       \/ Leave(t, "lock") /\ call[t] \in Guarded
       \/ Jump(t, "assign", "aborted") /\ reader_thread = "joinable"
       \/ /\ Jump(t, "join", AfterJoin(t))
          /\ reader_thread = "none" \/ t = Reader
       \/ Jump(t, "join", "join_wait") /\ reader_thread = "joinable" /\ t # Reader
       \/ Jump(t, "join_wait", "aborted") /\ reader_thread = "none"

(* Steps of the reader that leave the shared state alone.                  *)
Reads ==
    /\ UNCHANGED <<flags, out, net>>
    /\ \/ /\ UNCHANGED delivered
          /\ \/ Jump(Reader, "loop", "read") /\ is_open /\ ~is_closing
             \/ Jump(Reader, "loop", "exited") /\ (~is_open \/ is_closing)
             \/ Jump(Reader, "read", "on_error_read")
             \/ Jump(Reader, "on_message", "loop")
             \/ Jump(Reader, "ping_check", "loop")
             \/ Jump(Reader, "fail_check", "mark")
             \/ Jump(Reader, "fail_check", "shut_open")
             \/ Turn(Reader, "ping_check", "pong", "build")
             \/ Turn(Reader, "on_error_fail", "fail", "fail_check")
             \/ Turn(Reader, "on_error_read", "read_error", "shut_open")
       \/ /\ sock = "open" /\ UNCHANGED delivered
          /\ \/ Turn(Reader, "read", "echo", "build")
             \/ Turn(Reader, "read", "none", "deliver")
             \/ \E to \in {"on_error_fail", "loop", "ping_check"} : Jump(Reader, "read", to)
       \/ Turn(Reader, "deliver", "none", "on_message")

(* Nobody moves: the peer goes away.                                       *)
Rests == UNCHANGED <<flags, out, net, delivered, pc, ret, call, arg>>

Opens(t) ==
    /\ Jump(t, "opened", "on_open")
    /\ is_open' = TRUE
    /\ UNCHANGED <<is_closing, reader_running, reader_thread, alive, out, net, delivered>>

Claims(t) ==
    /\ Jump(t, "claim", "spawn")
    /\ reader_running' = TRUE
    /\ UNCHANGED <<is_open, is_closing, reader_thread, alive, out, net, delivered>>

Spawns(t) ==
    /\ pc[t] = "spawn" /\ pc'[t] = "assign"
    /\ pc[Reader] = "off" /\ pc'[Reader] = "loop"
    /\ \A u \in Thread \ {t, Reader} : pc'[u] = pc[u]
    /\ UNCHANGED <<ret, call, arg, flags, out, net, delivered>>

Assigns(t) ==
    /\ Leave(t, "assign")
    /\ reader_thread = "none" /\ reader_thread' = "joinable"
    /\ UNCHANGED <<is_open, is_closing, reader_running, alive, out, net, delivered>>

Builds(t) ==
    /\ Jump(t, "build", "building")
    /\ builder' = t
    /\ UNCHANGED <<flags, write_mutex, wire, net, delivered>>

Built(t) ==
    /\ Jump(t, "building", "lock")
    /\ Undisturbed(t) => outbound_frame' = arg[t]
    /\ UNCHANGED <<flags, write_mutex, wire, net, delivered>>

Locks(t) ==
    /\ Jump(t, "lock", "write")
    /\ write_mutex = NoThread /\ write_mutex' = t
    /\ call[t] \in Guarded => is_open /\ ~is_closing
    /\ UNCHANGED <<flags, outbound_frame, builder, wire, net, delivered>>

Writes(t) ==
    /\ \/ wire' = wire
       \/ wire' = Append(wire, [by |-> call[t], frame |-> outbound_frame, built |-> arg[t]])
    /\ \/ Leave(t, "write") /\ call[t] \in Guarded /\ write_mutex' = NoThread
       \/ Jump(t, "write", "shut_open") /\ call[t] \notin Guarded /\ write_mutex' = NoThread
       \/ Jump(t, "write", "on_error_pong") /\ call[t] = "pong" /\ UNCHANGED <<wire, write_mutex>>
    /\ UNCHANGED <<flags, outbound_frame, builder, net, delivered>>

Releases ==
    /\ Turn(Reader, "on_error_pong", "none", "loop")
    /\ write_mutex' = NoThread
    /\ UNCHANGED <<flags, outbound_frame, builder, wire, net, delivered>>

Marks(t) ==
    /\ Jump(t, "mark", "build")
    /\ is_closing' = TRUE
    /\ UNCHANGED <<is_open, reader_running, reader_thread, alive, out, net, delivered>>

Clears(t) ==
    /\ \/ Jump(t, "shut_open", "shut_sock") /\ call[t] \in {"close", "fail", "destroy"}
       \/ Jump(t, "shut_open", "notify") /\ call[t] = "echo"
       \/ /\ Jump(t, "shut_open", "exited")
          /\ call[t] \notin {"close", "fail", "destroy", "echo"}
    /\ is_open' = FALSE
    /\ UNCHANGED <<is_closing, reader_running, reader_thread, alive, out, net, delivered>>

Shuts(t) ==
    /\ Jump(t, "shut_sock", IF call[t] = "fail" THEN "notify" ELSE "join")
    /\ sock' = "closed"
    /\ UNCHANGED <<flags, out, opens, closes, delivered>>

Joins(t) ==
    /\ pc[t] = "join_wait" /\ pc[Reader] = "exited" /\ t # Reader
    /\ reader_thread = "joinable" /\ reader_thread' = "none"
    /\ pc'[t] = "joined" /\ pc'[Reader] = "off"
    /\ \A u \in Thread \ {t, Reader} : pc'[u] = pc[u]
    /\ UNCHANGED <<ret, call, arg, is_open, is_closing, reader_running, alive, out, net,
                   delivered>>

LetsGo(t) ==
    /\ Jump(t, "joined", AfterJoin(t))
    /\ reader_running' = FALSE
    /\ UNCHANGED <<is_open, is_closing, reader_thread, alive, out, net, delivered>>

Notifies(t) ==
    /\ Leave(t, "notify")
    /\ closes' = Append(closes, arg[t].pl[1])
    /\ UNCHANGED <<flags, out, sock, opens, delivered>>

Frees(t) ==
    /\ Turn(t, "free", "none", "idle")
    /\ alive' = FALSE
    /\ UNCHANGED <<is_open, is_closing, reader_running, reader_thread, out, net, delivered>>

(* A step of t that changes the shared state.                              *)
Changes(t) ==
    \/ Opens(t) \/ Claims(t) \/ Spawns(t) \/ Assigns(t)
    \/ Builds(t) \/ Built(t) \/ Locks(t) \/ Writes(t)
    \/ Marks(t) \/ Clears(t) \/ Shuts(t) \/ Joins(t) \/ LetsGo(t)
    \/ Notifies(t) \/ Frees(t)

Step ==
    \/ \E t \in Thread : Calls(t) \/ Connects(t) \/ Passes(t) \/ Changes(t)
    \/ Reads \/ Releases \/ Rests

(* The building blocks of the actions, thread by thread.                   *)
LEMMA GotoJump ==
    ASSUME ThreadTypes, NEW t \in Thread, NEW label, Goto(t, label), UNCHANGED local
    PROVE  Jump(t, pc[t], label)
  BY SMT DEF ThreadTypes, Goto, local, Jump, Others, Still

(* The start of an API call.                                               *)
LEMMA BeginEnter ==
    ASSUME ThreadTypes, NEW t \in Thread, NEW operation, NEW frame, NEW label,
           MayCall(t), Begin(t, operation, frame, label), Carries(operation, frame)
    PROVE  Enter(t, operation, label)
  BY SMT DEF ThreadTypes, Begin, Goto, Enter, Others, Still

(* The return of a call or a handler.                                      *)
LEMMA FinishLeave ==
    ASSUME ThreadTypes, NEW t \in Thread, Finish(t) PROVE Leave(t, pc[t])
  BY SMT DEF ThreadTypes, Finish, Goto, Leave, Others, Still

(* The start of a handler on the reader thread.                            *)
LEMMA HandleTurn ==
    ASSUME ThreadTypes, NEW operation, NEW frame, NEW label,
           Handle(operation, frame, label), Carries(operation, frame)
    PROVE  Turn(Reader, pc[Reader], operation, label)
  BY ReaderIsThread, SMT DEF ThreadTypes, Handle, Goto, Turn, Others, Still

(* The application's calls are steps of the skeleton.                      *)
LEMMA ApplicationSteps ==
    ASSUME TypeOK, NEW t \in Thread, Application(t) PROVE Calls(t) \/ Connects(t)
<1> ThreadTypes
  BY DEF TypeOK
<1> USE DEF out, net, buffer, session, bounds
<1>1. CASE connect(t)
  <2>1. CASE sock' = "open" /\ wire' = <<>> /\ closes' = <<>> /\ Goto(t, "opened")
    <3>1. Jump(t, "idle", "opened")
      BY <1>1, <2>1, GotoJump DEF connect
    <3> QED
      BY <1>1, <2>1, <3>1 DEF connect, Connects
  <2>2. CASE sock' = "closed" /\ UNCHANGED <<wire, session, pc>>
    <3>1. \A u \in Thread : Still(u)
      BY <1>1, <2>2 DEF connect, Still, local
    <3> QED
      BY <1>1, <2>2, <3>1 DEF connect, Connects
  <2> QED
    BY <1>1, <2>1, <2>2 DEF connect
<1>2. CASE start_reading(t)
  <2>1. Enter(t, "start", "start")
    BY <1>2, BeginEnter DEF start_reading, Carries, Closer, Guarded
  <2> QED
    BY <1>2, <2>1 DEF start_reading, Calls
<1>3. ASSUME NEW op \in DataOp \cup {"PING"}, NEW fin, Send(t, op, fin) PROVE Calls(t)
  <2>1. Carries("send", [op |-> op, fin |-> fin, pl |-> <<calls'>>])
    BY DEF Carries, Closer, Guarded, DataOp
  <2>2. Enter(t, "send", "build")
    BY <1>3, <2>1, BeginEnter DEF Send
  <2> QED
    BY <1>3, <2>2 DEF Send, Calls
<1>4. ASSUME NEW code \in CloseCodes, close(t, code) PROVE Calls(t)
  <2>1. Carries("close", CloseFrame(IF is_valid_close_code(code) THEN code ELSE 1000))
    BY CloseArgument, SMT DEF Carries, Closer, Guarded
  <2>2. Enter(t, "close", "mark")
    BY <1>4, <2>1, BeginEnter, SMT DEF close
  <2> QED
    BY <1>4, <2>2 DEF close, Calls
<1>5. CASE destroy(t)
  <2>1. Turn(t, "idle", "destroy", "shut_open")
    BY <1>5, SMT DEF destroy, ThreadTypes, Goto, Turn, Others, Still, Carries, Closer, Guarded
  <2> QED
    BY <1>5, <2>1 DEF destroy, Calls
<1> QED
  BY <1>1, <1>2, <1>3, <1>4, <1>5 DEF Application, send_data_frame, send_ping

(* The steps of open_and_start_reader and start_reader_thread.             *)
LEMMA OpeningSteps ==
    ASSUME TypeOK, NEW t \in Thread,
           \/ open_and_start_reader(t) \/ start_reader_thread(t) \/ ClaimReader(t)
           \/ Spawn(t) \/ Assign(t) \/ ReturnFromOpen(t)
    PROVE  Calls(t) \/ Passes(t) \/ Changes(t)
<1> ThreadTypes
  BY DEF TypeOK
<1> USE DEF out, net, flags, buffer, session, bounds
<1>1. CASE open_and_start_reader(t)
  BY <1>1, GotoJump DEF open_and_start_reader, Opens, Changes
<1>2. CASE start_reader_thread(t)
  <2>1. CASE (~is_open \/ reader_running) /\ Finish(t)
    BY <1>2, <2>1, FinishLeave DEF start_reader_thread, Passes
  <2>2. CASE is_open /\ ~reader_running /\ Goto(t, "claim") /\ UNCHANGED local
    BY <1>2, <2>2, GotoJump DEF start_reader_thread, Passes
  <2> QED
    BY <1>2, <2>1, <2>2 DEF start_reader_thread
<1>3. CASE Spawn(t)
  <2>1. CASE pc[Reader] = "off" /\ pc' = [pc EXCEPT ![t] = "assign", ![Reader] = "loop"]
    <3>1. t # Reader
      BY <1>3, <2>1 DEF Spawn
    <3>2. /\ pc'[t] = "assign" /\ pc'[Reader] = "loop"
          /\ \A u \in Thread \ {t, Reader} : pc'[u] = pc[u]
      BY <2>1, <3>1, ReaderIsThread, SMT DEF ThreadTypes
    <3> QED
      BY <1>3, <2>1, <3>2 DEF Spawn, local, Spawns, Changes
  <2>2. CASE pc[Reader] # "off" /\ Goto(t, "aborted")
    BY <1>3, <2>2, GotoJump DEF Spawn, Passes
  <2> QED
    BY <1>3, <2>1, <2>2 DEF Spawn
<1>4. CASE Assign(t)
  <2>1. CASE reader_thread = "none" /\ reader_thread' = "joinable" /\ Finish(t)
    BY <1>4, <2>1, FinishLeave DEF Assign, Assigns, Changes
  <2>2. CASE /\ reader_thread = "joinable"
             /\ Goto(t, "aborted") /\ UNCHANGED <<reader_thread, local>>
    BY <1>4, <2>2, GotoJump DEF Assign, Passes
  <2> QED
    BY <1>4, <2>1, <2>2 DEF Assign
<1>5. CASE ReturnFromOpen(t)
  <2>1. Turn(t, "on_open", "start", "start")
    BY <1>5, SMT
    DEF ReturnFromOpen, ThreadTypes, Goto, Turn, Others, Still, Carries, Closer, Guarded
  <2> QED
    BY <1>5, <2>1 DEF ReturnFromOpen, Calls
<1>6. CASE ClaimReader(t)
  BY <1>6, GotoJump DEF ClaimReader, Claims, Changes
<1> QED
  BY <1>1, <1>2, <1>3, <1>4, <1>5, <1>6

(* The steps of sending a frame.                                           *)
LEMMA SendingSteps ==
    ASSUME TypeOK, NEW t \in Thread,
           BuildStart(t) \/ BuildEnd(t) \/ LockWrite(t) \/ WriteFrame(t)
    PROVE  Passes(t) \/ Changes(t)
<1> ThreadTypes
  BY DEF TypeOK
<1> USE DEF out, net, buffer, session, bounds
<1>1. CASE BuildStart(t)
  BY <1>1, GotoJump DEF BuildStart, Builds, Changes
<1>2. CASE BuildEnd(t)
  <2>1. Undisturbed(t) => outbound_frame' = arg[t]
    BY <1>2 DEF BuildEnd
  <2> QED
    BY <1>2, <2>1, GotoJump DEF BuildEnd, Built, Changes
<1>3. CASE LockWrite(t)
  <2>1. CASE call[t] \in Guarded /\ Finish(t) /\ UNCHANGED write_mutex
    BY <1>3, <2>1, FinishLeave DEF LockWrite, Passes
  <2>2. CASE /\ call[t] \in Guarded => is_open /\ ~is_closing
             /\ write_mutex' = t /\ Goto(t, "write") /\ UNCHANGED local
    BY <1>3, <2>2, GotoJump DEF LockWrite, Locks, Changes
  <2> QED
    BY <1>3, <2>1, <2>2 DEF LockWrite
<1>4. CASE WriteFrame(t)
  <2>1. CASE Finish(t) /\ call[t] \in Guarded /\ write_mutex' = NoThread
    BY <1>4, <2>1, FinishLeave DEF WriteFrame, Writes, Changes
  <2>2. CASE /\ Goto(t, "shut_open") /\ UNCHANGED local
             /\ call[t] \notin Guarded /\ write_mutex' = NoThread
    BY <1>4, <2>2, GotoJump DEF WriteFrame, Writes, Changes
  <2>3. CASE /\ Goto(t, "on_error_pong") /\ UNCHANGED <<local, write_mutex, wire>>
             /\ call[t] = "pong"
    BY <1>4, <2>3, GotoJump DEF WriteFrame, Writes, Changes
  <2> QED
    BY <1>4, <2>1, <2>2, <2>3 DEF WriteFrame, Guarded
<1> QED
  BY <1>1, <1>2, <1>3, <1>4

(* The steps of closing and of ~impl.                                      *)
LEMMA ClosingSteps ==
    ASSUME TypeOK, NEW t \in Thread,
           \/ MarkClosing(t) \/ ClearOpen(t) \/ CloseSocket(t)
           \/ join_reader_if_needed(t) \/ JoinReader(t) \/ ReaderJoined(t)
           \/ NotifyClose(t) \/ Free(t)
    PROVE  Passes(t) \/ Changes(t)
<1> ThreadTypes
  BY DEF TypeOK
<1> USE DEF out, net, buffer, session, bounds
<1>1. CASE MarkClosing(t)
  BY <1>1, GotoJump DEF MarkClosing, Marks, Changes
<1>2. CASE ClearOpen(t)
  BY <1>2, GotoJump DEF ClearOpen, Clears, Changes
<1>3. CASE CloseSocket(t)
  BY <1>3, GotoJump DEF CloseSocket, Shuts, Changes
<1>4. CASE join_reader_if_needed(t)
  <2>1. CASE reader_thread = "none" \/ t = Reader
    BY <1>4, <2>1, GotoJump DEF join_reader_if_needed, Passes
  <2>2. CASE ~(reader_thread = "none" \/ t = Reader)
    <3>1. reader_thread = "joinable"
      BY <2>2 DEF TypeOK, FlagTypes
    <3> QED
      BY <1>4, <2>2, <3>1, GotoJump DEF join_reader_if_needed, Passes
  <2> QED
    BY <2>1, <2>2
<1>5. CASE JoinReader(t)
  <2>1. CASE /\ reader_thread = "joinable" /\ pc[Reader] = "exited"
             /\ reader_thread' = "none"
             /\ pc' = [pc EXCEPT ![t] = "joined", ![Reader] = "off"]
    <3>1. t # Reader
      BY <1>5, <2>1 DEF JoinReader
    <3>2. /\ pc'[t] = "joined" /\ pc'[Reader] = "off"
          /\ \A u \in Thread \ {t, Reader} : pc'[u] = pc[u]
      BY <2>1, <3>1, ReaderIsThread, SMT DEF ThreadTypes
    <3> QED
      BY <1>5, <2>1, <3>1, <3>2 DEF JoinReader, local, Joins, Changes
  <2>2. CASE reader_thread = "none" /\ Goto(t, "aborted") /\ UNCHANGED reader_thread
    BY <1>5, <2>2, GotoJump DEF JoinReader, flags, Passes
  <2> QED
    BY <1>5, <2>1, <2>2 DEF JoinReader
<1>6. CASE ReaderJoined(t)
  BY <1>6, GotoJump DEF ReaderJoined, LetsGo, Changes
<1>7. CASE NotifyClose(t)
  BY <1>7, FinishLeave DEF NotifyClose, Notifies, Changes
<1>8. CASE Free(t)
  <2>1. Turn(t, "free", "none", "idle")
    BY <1>8, SMT DEF Free, ThreadTypes, Goto, Turn, Others, Still, Carries, Closer, Guarded
  <2> QED
    BY <1>8, <2>1 DEF Free, Frees, Changes
<1> QED
  BY <1>1, <1>2, <1>3, <1>4, <1>5, <1>6, <1>7, <1>8

(* The reader's own steps.                                                 *)
LEMMA ReaderSteps == ASSUME TypeOK, ReaderProceeds PROVE Reads \/ Releases
<1> ThreadTypes
  BY DEF TypeOK
<1> USE ReaderIsThread DEF out, net, buffer, session, bounds
<1>1. CASE read_loop \/ ReadError \/ fail_with_close \/ ReturnFromMessage
  BY <1>1, GotoJump DEF read_loop, ReadError, fail_with_close, ReturnFromMessage, Reads
<1>2. CASE handle_ping_frame
  <2>1. Carries("pong", [op |-> "PONG", fin |-> TRUE, pl |-> payload_buffer])
    BY DEF Carries, Closer, Guarded
  <2> QED
    BY <1>2, <2>1, GotoJump, HandleTurn DEF handle_ping_frame, Reads
<1>3. CASE ReturnFromError
  <2>1. Carries("fail", CloseFrame(fail_code))
    BY OwnCodes, SMT DEF ThreadTypes, Carries, Closer, Guarded
  <2>2. Carries("read_error", Torn) /\ Carries("none", Torn)
    BY DEF Carries, Closer, Guarded
  <2> QED
    BY <1>3, <2>1, <2>2, HandleTurn DEF ReturnFromError, Reads, Releases
<1>4. CASE CallOnMessage
  <2>1. Carries("none", Torn)
    BY DEF Carries, Closer, Guarded
  <2> QED
    BY <1>4, <2>1, HandleTurn DEF CallOnMessage, Reads
<1> QED
  BY <1>1, <1>2, <1>3, <1>4 DEF ReaderProceeds

(* What the reader does with a frame, and the peer's going away.           *)
LEMMA PeerSteps == ASSUME TypeOK, Peer PROVE Reads \/ Rests
<1> ThreadTypes
  BY DEF TypeOK
<1> USE ReaderIsThread DEF out, net, buffer, session, bounds
<1>1. ASSUME NEW f \in PeerFrames, handle_close_frame(f) PROVE Reads
  <2>1. NewPayload(f) \in Seq(Word)
    BY ConnectionAssumption DEF NewPayload, InFrame, TypeOK, InboundTypes
  <2>2. Carries("echo", CloseFrame(EchoCode(payload_buffer')))
    BY <1>1, <2>1, EchoCodeValid DEF handle_close_frame, Carries, Closer, Guarded
  <2> QED
    BY <1>1, <2>2, HandleTurn DEF handle_close_frame, Receive, Unaffected, Reads
<1>2. ASSUME NEW f \in PeerFrames, Receive(f), UNCHANGED <<Unaffected, delivered>>,
             \/ \E to \in {"on_error_fail", "loop", "ping_check"} :
                   Goto(Reader, to) /\ UNCHANGED local
             \/ \E frame : Handle("none", frame, "deliver")
      PROVE  Reads
  <2>1. \A frame : Carries("none", frame)
    BY DEF Carries, Closer, Guarded
  <2> QED
    BY <1>2, <2>1, GotoJump, HandleTurn DEF Receive, Unaffected, Reads
<1>3. ASSUME NEW f \in PeerFrames,
             \/ ReceiveInvalid(f) \/ ReceiveData(f) \/ ReceiveContinuation(f)
             \/ ReceivePing(f) \/ ReceivePong(f)
      PROVE  Reads
  BY <1>2, <1>3, SMT
  DEF ReceiveInvalid, ReceiveData, ReceiveContinuation, ReceivePing, ReceivePong, Fail,
      deliver_message
<1>4. CASE PeerGone
  BY <1>4 DEF PeerGone, local, Rests
<1> QED
  BY <1>1, <1>3, <1>4 DEF Peer

(* Every step of the connection is a step of the skeleton.                 *)
LEMMA Skeleton == ASSUME TypeOK, [Next]_vars PROVE Step
<1>1. ASSUME NEW t \in Thread, Application(t) PROVE Step
  BY <1>1, ApplicationSteps DEF Step
<1>2. ASSUME NEW t \in Thread, Proceed(t) PROVE Step
  BY <1>2, OpeningSteps, SendingSteps, ClosingSteps DEF Proceed, Step
<1>3. CASE UNCHANGED vars
  BY <1>3 DEF vars, Step, Rests, out, net, buffer, local, session, bounds
<1> QED
  BY <1>1, <1>2, <1>3, ReaderSteps, PeerSteps DEF Next, Step

-----------------------------------------------------------------------------
(* What the operations carry.                                              *)

(* Where a call or a handler returns to, no operation is in progress.      *)
LEMMA LeaveTo ==
    ASSUME ThreadTypes, NEW t \in Thread, NEW from, Leave(t, from)
    PROVE  pc'[t] \in {"idle", "loop"} \cup Callback
  BY SMT DEF ThreadTypes, Leave

(* Every step keeps the operations in their places.                        *)
LEMMA StepCall == ASSUME ThreadTypes, CallInv, Step PROVE CallInv'
<1> DEFINE OK(u) == Stage(pc'[u], call'[u]) /\ Carries(call'[u], arg'[u])
<1> USE ReaderIsThread
<1>1. ASSUME NEW u \in Thread, Still(u) PROVE OK(u)
  BY <1>1 DEF CallInv, Still
<1>2. ASSUME NEW t \in Thread, OK(t), Others(t) PROVE CallInv'
  BY <1>1, <1>2 DEF CallInv, Others
<1>3. ASSUME NEW t \in Thread, NEW from, NEW to, Jump(t, from, to),
             \A operation : Stage(from, operation) => Stage(to, operation)
      PROVE  CallInv'
  BY <1>2, <1>3 DEF Jump, CallInv
<1>4. ASSUME NEW t \in Thread, NEW from, Leave(t, from) PROVE CallInv'
  <2>1. pc'[t] \in {"idle", "loop"} \cup Callback /\ call'[t] = "none"
    BY <1>4, LeaveTo DEF Leave
  <2>2. OK(t)
    BY <2>1 DEF Stage, Carries, Closer, Guarded, Callback
  <2> QED
    BY <1>2, <1>4, <2>2 DEF Leave
<1>5. ASSUME NEW t \in Thread, NEW from, NEW operation, NEW to,
             Turn(t, from, operation, to) \/ Enter(t, operation, to),
             Stage(to, operation)
      PROVE  CallInv'
  BY <1>2, <1>5 DEF Turn, Enter
<1>6. ASSUME NEW t \in Thread, Calls(t) PROVE CallInv'
  BY <1>5, <1>6, SMT DEF Calls, Stage, Guarded
<1>7. ASSUME NEW t \in Thread, Connects(t) PROVE CallInv'
  <2>1. CASE Jump(t, "idle", "opened")
    BY <1>3, <2>1 DEF Stage
  <2>2. CASE \A u \in Thread : Still(u)
    BY <1>1, <2>2 DEF CallInv
  <2> QED
    BY <1>7, <2>1, <2>2 DEF Connects
<1>8. ASSUME NEW t \in Thread, Passes(t) PROVE CallInv'
  <2>1. ASSUME Jump(t, "join", AfterJoin(t)) PROVE CallInv'
    BY <1>2, <2>1 DEF Jump, CallInv, AfterJoin, Stage, Closer
  <2> QED
    BY <1>3, <1>4, <1>8, <2>1 DEF Passes, Stage
<1>9. CASE Reads \/ Releases
  BY <1>3, <1>5, <1>9 DEF Reads, Releases, Stage, Closer, Guarded
<1>10. CASE Rests
  BY <1>10 DEF Rests, CallInv
<1>11. ASSUME NEW t \in Thread, Opens(t) \/ Claims(t) \/ Assigns(t) \/ Builds(t) \/ Built(t)
                  \/ Locks(t) \/ Marks(t) \/ Notifies(t) \/ Frees(t)
       PROVE  CallInv'
  BY <1>3, <1>4, <1>5, <1>11
  DEF Opens, Claims, Assigns, Builds, Built, Locks, Marks, Notifies, Frees, Stage, Closer
<1>12. ASSUME NEW t \in Thread, Spawns(t) \/ Joins(t) PROVE CallInv'
  BY <1>12 DEF Spawns, Joins, CallInv, Stage
<1>13. ASSUME NEW t \in Thread, Writes(t) \/ Clears(t) \/ Shuts(t) \/ LetsGo(t)
       PROVE  CallInv'
  <2>1. CASE Leave(t, "write")
    BY <1>4, <2>1
  <2>2. CASE Jump(t, pc[t], pc'[t]) /\ Stage(pc'[t], call[t])
    BY <1>2, <2>2 DEF Jump, CallInv
  <2>3. Stage(pc[t], call[t])
    BY DEF CallInv
  <2> QED
    BY <1>13, <2>1, <2>2, <2>3
    DEF Writes, Clears, Shuts, LetsGo, Jump, AfterJoin, Stage, Closer, Guarded
<1> QED
  BY <1>6, <1>7, <1>8, <1>9, <1>10, <1>11, <1>12, <1>13 DEF Step, Changes

-----------------------------------------------------------------------------
(* The order of the frames on the wire.  OwnCloseLast is not inductive.    *)
(* What keeps a data frame or a pong off the wire after this side's close  *)
(* frame is that the sender holds write_mutex_ from its second look at     *)
(* is_closing_ until it has written, and that is_closing_ is set before    *)
(* the close frame can be written and never cleared.                       *)

Own == {"close", "fail"}

(* t is in the on_error_ callback that handle_ping_frame calls with        *)
(* write_mutex_ held, or in a call made from there.                        *)
InPongError(t) == pc[t] = "on_error_pong" \/ ret[t] = "on_error_pong"

Sending == {"build", "building", "lock", "write"}

OrderInv ==
    /\ \A t \in Thread : pc[t] = "write" \/ InPongError(t) => write_mutex = t
    /\ \A t \in Thread : pc[t] = "write" => ~InPongError(t)
    /\ \A t \in Thread : ~(pc[t] = "on_error_pong" /\ ret[t] = "on_error_pong")
    /\ \A t \in Thread : pc[t] \in Sending /\ call[t] \in Own => is_closing
    /\ \A t \in Thread : pc[t] = "write" /\ call[t] \in Guarded
          => \A i \in DOMAIN wire : wire[i].by \notin Own
    /\ \A i \in DOMAIN wire : wire[i].by \in Own => is_closing
    /\ OwnCloseLast

(* What a step that neither writes nor touches the mutex may do to one     *)
(* thread: nothing, or a move to a place that needs neither.               *)
QuietMove(u) ==
    /\ pc'[u] # "write"
    /\ pc'[u] = "on_error_pong" \/ ret'[u] = "on_error_pong" => InPongError(u)
    /\ ~(pc'[u] = "on_error_pong" /\ ret'[u] = "on_error_pong")
    /\ pc'[u] \in Sending /\ call'[u] \in Own => is_closing'

(* Such a step keeps the order of the frames.                              *)
LEMMA QuietOrder ==
    ASSUME OrderInv, \A u \in Thread : Still(u) \/ QuietMove(u),
           UNCHANGED write_mutex, wire' = wire \/ wire' = <<>>, is_closing => is_closing'
    PROVE  OrderInv'
<1>1. OwnCloseLast'
  BY SMT DEF OrderInv, OwnCloseLast
<1>2. \A t \in Thread : /\ (pc[t] = "write" \/ InPongError(t) => write_mutex = t)'
                        /\ (pc[t] = "write" => ~InPongError(t))'
                        /\ (~(pc[t] = "on_error_pong" /\ ret[t] = "on_error_pong"))'
  BY DEF OrderInv, Still, QuietMove, InPongError
<1>3. \A t \in Thread : (pc[t] \in Sending /\ call[t] \in Own => is_closing)'
  BY DEF OrderInv, Still, QuietMove
<1>4. \A t \in Thread : (pc[t] = "write" /\ call[t] \in Guarded
          => \A i \in DOMAIN wire : wire[i].by \notin Own)'
  BY SMT DEF OrderInv, Still, QuietMove
<1>5. (\A i \in DOMAIN wire : wire[i].by \in Own => is_closing)'
  BY SMT DEF OrderInv
<1> QED
  BY <1>1, <1>2, <1>3, <1>4, <1>5 DEF OrderInv

(* Taking the mutex: a guarded operation finds is_closing_ unset, so that  *)
(* no close frame of this side is on the wire.                             *)
LEMMA LockOrder ==
    ASSUME TypeOK, CallInv, OrderInv, NEW t \in Thread, Locks(t) PROVE OrderInv'
<1>1. \A u \in Thread : pc[u] # "write" /\ ~InPongError(u)
  BY ConnectionAssumption DEF Locks, OrderInv, Thread
<1>2. /\ pc'[t] = "write" /\ ret'[t] = ret[t] /\ call'[t] = call[t] /\ pc[t] = "lock"
      /\ \A u \in Thread \ {t} : Still(u)
      /\ write_mutex' = t /\ UNCHANGED <<is_closing, wire>>
      /\ call[t] \in Guarded => ~is_closing
  BY DEF Locks, Jump, Others, flags
<1>3. \A u \in Thread : /\ (pc[u] = "write" \/ InPongError(u) => write_mutex = u)'
                        /\ (pc[u] = "write" => ~InPongError(u))'
                        /\ (~(pc[u] = "on_error_pong" /\ ret[u] = "on_error_pong"))'
                        /\ (pc[u] \in Sending /\ call[u] \in Own => is_closing)'
  BY <1>1, <1>2 DEF OrderInv, InPongError, Still, Sending
<1>4. \A u \in Thread : (pc[u] = "write" /\ call[u] \in Guarded
          => \A i \in DOMAIN wire : wire[i].by \notin Own)'
  BY <1>1, <1>2 DEF OrderInv, Still
<1>5. OwnCloseLast' /\ (\A i \in DOMAIN wire : wire[i].by \in Own => is_closing)'
  BY <1>2 DEF OrderInv, OwnCloseLast
<1> QED
  BY <1>3, <1>4, <1>5 DEF OrderInv

(* Giving it back: nobody else is at the write.                            *)
LEMMA WriteOrder ==
    ASSUME TypeOK, CallInv, OrderInv, NEW t \in Thread,
           Writes(t) \/ (t = Reader /\ Releases)
    PROVE  OrderInv'
<1>1. /\ \A u \in Thread \ {t} : pc[u] # "write" /\ ~InPongError(u) /\ Still(u)
      /\ pc[t] = "write" \/ pc[t] = "on_error_pong"
      /\ write_mutex = t /\ is_closing' = is_closing
      /\ pc[t] = "on_error_pong" => wire' = wire
  BY DEF OrderInv, InPongError, Writes, Releases, Leave, Jump, Turn, Others, flags
<1>2. /\ pc'[t] \notin Sending /\ ret'[t] # "on_error_pong"
      /\ pc'[t] = "on_error_pong" => write_mutex' = t
  <2>1. pc[t] = "write" => ret[t] # "on_error_pong" /\ ret[t] \in {"idle"} \cup Callback
    <3>1. ret[t] \in {"idle"} \cup Callback
      BY SMT DEF TypeOK, ThreadTypes
    <3> QED
      BY <3>1 DEF OrderInv, InPongError
  <2>2. pc[t] = "on_error_pong" => ret[t] # "on_error_pong"
    BY DEF OrderInv
  <2>3. CASE Leave(t, "write")
    BY <2>1, <2>3 DEF Leave, Sending, Callback
  <2>4. CASE Jump(t, "write", "shut_open")
    BY <2>1, <2>4 DEF Jump, Sending
  <2>5. CASE Jump(t, "write", "on_error_pong") /\ UNCHANGED write_mutex
    BY <1>1, <2>1, <2>5 DEF Jump, Sending
  <2>6. CASE t = Reader /\ Releases
    BY <2>2, <2>6 DEF Releases, Turn, Sending
  <2> QED
    BY <2>3, <2>4, <2>5, <2>6 DEF Writes
<1>3. \A u \in Thread : /\ (pc[u] = "write" \/ InPongError(u) => write_mutex = u)'
                        /\ (pc[u] = "write" => ~InPongError(u))'
                        /\ (~(pc[u] = "on_error_pong" /\ ret[u] = "on_error_pong"))'
                        /\ (pc[u] \in Sending /\ call[u] \in Own => is_closing)'
                        /\ pc'[u] # "write"
  BY <1>1, <1>2 DEF OrderInv, InPongError, Still, Sending
<1>4. CASE wire' = wire
  <2>1. OwnCloseLast' /\ (\A i \in DOMAIN wire : wire[i].by \in Own => is_closing)'
    BY <1>1, <1>4 DEF OrderInv, OwnCloseLast
  <2> QED
    BY <1>3, <2>1 DEF OrderInv
<1>5. CASE wire' # wire
  <2> DEFINE entry == [by |-> call[t], frame |-> outbound_frame, built |-> arg[t]]
  <2>1. wire' = Append(wire, entry) /\ pc[t] = "write"
    BY <1>1, <1>5 DEF Writes, Releases
  <2>2. wire \in Seq(Write) /\ entry.by = call[t]
    BY DEF TypeOK, SessionTypes
  <2> HIDE DEF entry
  <2>3. /\ \A i \in DOMAIN wire' :
              (i \in DOMAIN wire /\ wire'[i] = wire[i]) \/ wire'[i].by = call[t]
        /\ \A i, j \in DOMAIN wire' :
              i < j => i \in DOMAIN wire /\ wire'[i] = wire[i]
    <3>1. /\ \A i \in DOMAIN Append(wire, entry) :
                \/ i \in DOMAIN wire /\ Append(wire, entry)[i] = wire[i]
                \/ Append(wire, entry)[i] = entry
          /\ \A i, j \in DOMAIN Append(wire, entry) :
                i < j => i \in DOMAIN wire /\ Append(wire, entry)[i] = wire[i]
      BY <2>2, AppendParts
    <3> QED
      BY <2>1, <2>2, <3>1
  <2>4. call[t] \in Guarded => \A i \in DOMAIN wire : wire[i].by \notin Own
    BY <2>1 DEF OrderInv
  <2>5. OwnCloseLast'
    BY <2>3, <2>4 DEF OrderInv, OwnCloseLast, Own
  <2>6. (\A i \in DOMAIN wire : wire[i].by \in Own => is_closing)'
    BY <1>1, <2>1, <2>3 DEF OrderInv, Sending
  <2> QED
    BY <1>3, <2>5, <2>6 DEF OrderInv
<1> QED
  BY <1>4, <1>5

(* Every step keeps the order of the frames.                               *)
LEMMA StepOrder == ASSUME TypeOK, CallInv, OrderInv, Step PROVE OrderInv'
<1> DEFINE Mutex == UNCHANGED write_mutex /\ (wire' = wire \/ wire' = <<>>)
                    /\ (is_closing => is_closing')
<1> USE ReaderIsThread
<1>1. ASSUME NEW t \in Thread, QuietMove(t), Others(t), Mutex PROVE OrderInv'
  BY <1>1, QuietOrder DEF Others
<1>2. ASSUME NEW t \in Thread, NEW from, NEW to, Jump(t, from, to), Mutex,
             to \notin {"write", "on_error_pong"},
             to \in Sending /\ call[t] \in Own => is_closing'
      PROVE  OrderInv'
  BY <1>1, <1>2 DEF Jump, QuietMove, InPongError
<1>3. ASSUME NEW t \in Thread, NEW from, Leave(t, from), Mutex PROVE OrderInv'
  <2>1. pc'[t] \in {"idle", "loop"} \cup Callback /\ call'[t] = "none"
    BY <1>3, LeaveTo DEF TypeOK, Leave
  <2>2. QuietMove(t)
    BY <1>3, <2>1 DEF Leave, QuietMove, InPongError, Own, Callback
  <2> QED
    BY <1>1, <1>3, <2>2 DEF Leave
<1>4. ASSUME NEW t \in Thread, NEW from, NEW operation, NEW to, Mutex,
             Turn(t, from, operation, to),
             to \notin {"write", "on_error_pong"},
             to \in Sending => operation \notin Own
      PROVE  OrderInv'
  BY <1>1, <1>4 DEF Turn, QuietMove, InPongError
<1>5. /\ UNCHANGED <<flags, out>> => Mutex
      /\ UNCHANGED <<is_closing, out>> => Mutex
      /\ UNCHANGED out /\ is_closing' => Mutex
  BY SMT DEF out, flags
<1>6. ASSUME NEW t \in Thread, Calls(t) PROVE OrderInv'
  <2>1. Mutex
    BY <1>5, <1>6 DEF Calls
  <2>2. ASSUME NEW operation, NEW to, Enter(t, operation, to),
               to \notin {"write", "on_error_pong"}, to \in Sending => operation \notin Own
        PROVE  OrderInv'
    BY <1>1, <2>1, <2>2 DEF Enter, QuietMove, InPongError
  <2> QED
    BY <1>4, <1>6, <2>1, <2>2, SMT DEF Calls, Sending, Own
<1>7. ASSUME NEW t \in Thread, Connects(t) PROVE OrderInv'
  <2>1. Mutex
    BY <1>7 DEF Connects, flags
  <2>2. CASE Jump(t, "idle", "opened")
    BY <1>2, <2>1, <2>2 DEF Sending
  <2>3. CASE \A u \in Thread : Still(u)
    BY <2>1, <2>3, QuietOrder
  <2> QED
    BY <1>7, <2>2, <2>3 DEF Connects
<1>8. ASSUME NEW t \in Thread, Passes(t) PROVE OrderInv'
  BY <1>2, <1>3, <1>5, <1>8 DEF Passes, AfterJoin, Sending
<1>9. CASE Reads
  BY <1>2, <1>4, <1>5, <1>9, SMT DEF Reads, Sending, Own
<1>10. CASE Rests
  BY <1>5, <1>10, QuietOrder DEF Rests, Still
<1>11. ASSUME NEW t \in Thread,
              Opens(t) \/ Claims(t) \/ Marks(t) \/ Clears(t) \/ Shuts(t) \/ LetsGo(t)
       PROVE  OrderInv'
  BY <1>2, <1>5, <1>11 DEF Opens, Claims, Marks, Clears, Shuts, LetsGo, AfterJoin, Sending
<1>12. ASSUME NEW t \in Thread, Assigns(t) \/ Notifies(t) \/ Frees(t) PROVE OrderInv'
  BY <1>3, <1>4, <1>5, <1>12, SMT DEF Assigns, Notifies, Frees, Sending
<1>13. ASSUME NEW t \in Thread, Builds(t) \/ Built(t) PROVE OrderInv'
  <2>1. pc[t] \in Sending /\ call[t] \in Own => is_closing
    BY DEF OrderInv
  <2>2. Mutex /\ is_closing' = is_closing
    BY <1>13, SMT DEF Builds, Built, flags
  <2>3. pc[t] \in Sending
    BY <1>13 DEF Builds, Built, Jump, Sending
  <2> QED
    BY <1>2, <1>13, <2>1, <2>2, <2>3 DEF Builds, Built
<1>14. ASSUME NEW t \in Thread, Spawns(t) \/ Joins(t) PROVE OrderInv'
  <2>1. \A u \in Thread : Still(u) \/ QuietMove(u)
    BY <1>14 DEF Spawns, Joins, Still, QuietMove, InPongError, Sending
  <2> QED
    BY <1>5, <1>14, <2>1, QuietOrder DEF Spawns, Joins
<1> QED
  BY <1>6, <1>7, <1>8, <1>9, <1>10, <1>11, <1>12, <1>13, <1>14, LockOrder, WriteOrder
  DEF Step, Changes

-----------------------------------------------------------------------------
(* The inductive invariant: the types, what each operation carries, and    *)
(* the order of the frames.                                                *)
Inv == TypeOK /\ CallInv /\ OrderInv

(* It holds when the object has been constructed.                          *)
LEMMA InitInv == ASSUME Init PROVE Inv
<1>1. FlagTypes /\ BufferTypes /\ InboundTypes
  <2>1. FlagTypes
    BY DEF Init, FlagTypes
  <2>2. BufferTypes
    BY TornType DEF Init, BufferTypes
  <2>3. InboundTypes
    <3>1. fragmented \in BOOLEAN
      BY DEF Init
    <3>2. /\ payload_buffer \in Seq(Word) /\ message_buffer \in Seq(Word)
          /\ message_opcode \in {"TEXT", "BINARY"}
      BY SMT DEF Init
    <3> QED
      BY <3>1, <3>2 DEF InboundTypes
  <2> QED
    BY <2>1, <2>2, <2>3
<1>2. ThreadTypes
  BY TornType, Labels DEF Init, ThreadTypes, Call
<1>3. SessionTypes
  BY BoundTypes, SMT DEF Init, SessionTypes
<1>4. CallInv
  BY DEF Init, CallInv, Stage, Carries, Closer, Guarded
<1>5. OrderInv
  BY SMT DEF Init, OrderInv, OwnCloseLast, InPongError, Sending
<1> QED
  BY <1>1, <1>2, <1>3, <1>4, <1>5 DEF Inv, TypeOK

(* Every step keeps it.                                                    *)
LEMMA NextInv == ASSUME Inv, [Next]_vars PROVE Inv' /\ Step
<1>1. Step
  BY Skeleton DEF Inv
<1>2. ThreadTypes
  BY DEF Inv, TypeOK
<1>3. TypeOK' /\ CallInv' /\ OrderInv'
  BY <1>1, <1>2, NextType, StepCall, StepOrder DEF Inv
<1> QED
  BY <1>1, <1>3 DEF Inv

-----------------------------------------------------------------------------
(* The variables always have their types: in particular every frame that   *)
(* reaches outbound_frame_ or the socket is one of a builder or a torn     *)
(* one, and a reassembled message is always a text or a binary one.        *)
THEOREM ConnectionTypeOK == Spec => []TypeOK
<1>1. Init => Inv
  BY InitInv
<1>2. Inv /\ [Next]_vars => Inv'
  BY NextInv
<1>3. Inv => TypeOK
  BY DEF Inv
<1> QED
  BY <1>1, <1>2, <1>3, PTL DEF Spec

(* For any number of application threads, calls, frames and reconnections: *)
(* nothing but close frames follows the close frame of close() or          *)
(* fail_with_close.                                                        *)
THEOREM NoFrameAfterOwnClose == Spec => []OwnCloseLast
<1>1. Init => Inv
  BY InitInv
<1>2. Inv /\ [Next]_vars => Inv'
  BY NextInv
<1>3. Inv => OwnCloseLast
  BY DEF Inv, OrderInv
<1> QED
  BY <1>1, <1>2, <1>3, PTL DEF Spec

(* A close frame that is written, or a code handed to on_close_, is that   *)
(* of the operation in progress, which carries a valid one.                *)
LEMMA StepCodes == ASSUME Inv, CloseCodesValid, Step PROVE CloseCodesValid'
<1> USE DEF CloseCodesValid, Inv, TypeOK
<1>1. CASE UNCHANGED <<wire, closes>>
  BY <1>1
<1>2. ASSUME NEW t \in Thread, Connects(t) PROVE CloseCodesValid'
  BY <1>2, SMT DEF Connects
<1>3. ASSUME NEW t \in Thread, Writes(t) PROVE CloseCodesValid'
  <2> DEFINE entry == [by |-> call[t], frame |-> outbound_frame, built |-> arg[t]]
  <2>1. closes' = closes
    BY <1>3 DEF Writes, net
  <2>2. arg[t].op = "CLOSE" => MaySendCode(arg[t].pl[1])
    <3>1. CASE call[t] \in Closer
      <4>1. PICK code \in Word : is_valid_close_code(code) /\ arg[t] = CloseFrame(code)
        BY <3>1 DEF CallInv, Carries
      <4> QED
        BY <4>1, CloseFrameCode, SendableCode
    <3>2. CASE call[t] \in Guarded
      BY <3>2 DEF CallInv, Carries
    <3>3. pc[t] = "write"
      BY <1>3 DEF Writes, Leave, Jump
    <3> QED
      BY <3>1, <3>2, <3>3 DEF CallInv, Stage
  <2>3. CASE wire' = wire
    BY <2>1, <2>3
  <2>4. CASE wire' = Append(wire, entry)
    <3>1. \A i \in DOMAIN wire' :
             (i \in DOMAIN wire /\ wire'[i] = wire[i]) \/ wire'[i].built = arg[t]
      <4>1. wire \in Seq(Write) /\ entry.built = arg[t]
        BY DEF SessionTypes
      <4> HIDE DEF entry
      <4> QED
        BY <2>4, <4>1, AppendParts, SMT
    <3> QED
      BY <2>1, <2>2, <3>1
  <2> QED
    BY <1>3, <2>3, <2>4 DEF Writes
<1>4. ASSUME NEW t \in Thread, Notifies(t) PROVE CloseCodesValid'
  <2>1. wire' = wire /\ closes' = Append(closes, arg[t].pl[1]) /\ pc[t] = "notify"
    BY <1>4 DEF Notifies, Leave, out
  <2>2. PICK code \in Word : is_valid_close_code(code) /\ arg[t] = CloseFrame(code)
    BY <2>1 DEF CallInv, Stage, Carries
  <2>3. arg[t].pl[1] = code /\ MaySendCode(code)
    BY <2>2, CloseFrameCode, SendableCode
  <2>4. \A i \in DOMAIN closes' :
           (i \in DOMAIN closes /\ closes'[i] = closes[i]) \/ closes'[i] = code
    <3>1. \A i \in DOMAIN Append(closes, code) :
             \/ i \in DOMAIN closes /\ Append(closes, code)[i] = closes[i]
             \/ Append(closes, code)[i] = code
      BY AppendParts DEF SessionTypes
    <3> QED
      BY <2>1, <2>3, <3>1
  <2> QED
    BY <2>1, <2>3, <2>4
<1>5. /\ UNCHANGED <<out, net>> => UNCHANGED <<wire, closes>>
      /\ UNCHANGED <<wire, net>> => UNCHANGED <<wire, closes>>
      /\ UNCHANGED <<out, closes>> => UNCHANGED <<wire, closes>>
  BY DEF out, net
<1>6. ASSUME NEW t \in Thread, Calls(t) \/ Passes(t) PROVE CloseCodesValid'
  BY <1>1, <1>5, <1>6 DEF Calls, Passes
<1>7. CASE Reads \/ Releases \/ Rests
  BY <1>1, <1>5, <1>7 DEF Reads, Releases, Rests
<1>8. ASSUME NEW t \in Thread, Changes(t), ~Writes(t), ~Notifies(t) PROVE CloseCodesValid'
  BY <1>1, <1>5, <1>8
  DEF Changes, Opens, Claims, Spawns, Assigns, Builds, Built, Locks, Marks, Clears, Shuts,
      Joins, LetsGo, Frees
<1> QED
  BY <1>2, <1>3, <1>4, <1>6, <1>7, <1>8 DEF Step

(* Whatever 16-bit code the application passes to close() and whatever     *)
(* close payload the peer sends, every close frame built for the socket    *)
(* and every call of on_close_ has a code that RFC 6455 lets an endpoint   *)
(* send.                                                                   *)
THEOREM ValidCloseCodes == Spec => []CloseCodesValid
<1>1. Init => Inv /\ CloseCodesValid
  <2>1. Init => CloseCodesValid
    <3>1. DOMAIN <<>> = {}
      BY SMT
    <3> QED
      BY <3>1 DEF Init, CloseCodesValid
  <2> QED
    BY <2>1, InitInv
<1>2. Inv /\ CloseCodesValid /\ [Next]_vars => (Inv /\ CloseCodesValid)'
  BY NextInv, StepCodes
<1> QED
  BY <1>1, <1>2, PTL DEF Spec

-----------------------------------------------------------------------------
(* The life of the reader thread.                                          *)

(* The reader is in reader_thread_ or, when it has just been started, on   *)
(* its way there.                                                          *)
LifeInv ==
    /\ \A u \in Thread :
          pc[u] = "assign" => u # Reader /\ pc[Reader] # "off" /\ reader_thread # "joinable"
    /\ \A u, w \in Thread : pc[u] = "assign" /\ pc[w] = "assign" => u = w
    /\ reader_thread = "joinable" => pc[Reader] # "off"
    /\ pc[Reader] # "off" =>
          reader_thread = "joinable" \/ \E u \in Thread : pc[u] = "assign"

(* The reader is not an application thread.                                *)
LEMMA ReaderApart == Reader \notin App /\ Thread = App \cup {Reader}
  BY ConnectionAssumption DEF Thread

(* The application calls from idle or from a callback.                     *)
LEMMA CallsFrom ==
    ASSUME NEW t, MayCall(t)
    PROVE  \/ pc[t] = "idle" /\ t \in Active /\ Usable
           \/ pc[t] \in Callback \cap CallbackCalls
<1>1. CallbackCalls \subseteq Callback
  BY ConnectionAssumption
<1> QED
  BY <1>1 DEF MayCall

(* A step that neither starts nor joins a reader.                          *)
LEMMA CalmLife ==
    ASSUME LifeInv, UNCHANGED reader_thread,
           \A u \in Thread : \/ pc'[u] = pc[u]
                             \/ {pc[u], pc'[u]} \cap {"assign", "off"} = {}
    PROVE  LifeInv'
<1>1. /\ \A u \in Thread : pc'[u] = "assign" <=> pc[u] = "assign"
      /\ pc'[Reader] = "off" <=> pc[Reader] = "off"
  BY ReaderIsThread
<1> QED
  BY <1>1 DEF LifeInv

(* Every step keeps the reader's life.                                     *)
LEMMA StepLife == ASSUME ThreadTypes, LifeInv, Step PROVE LifeInv'
<1> DEFINE Kept == UNCHANGED reader_thread
           Far(label) == label \notin {"assign", "off"}
<1> USE ReaderIsThread
<1>1. ASSUME NEW t \in Thread, Others(t), Kept, Far(pc[t]), Far(pc'[t]) PROVE LifeInv'
  <2>1. \A u \in Thread : \/ pc'[u] = pc[u]
                          \/ {pc[u], pc'[u]} \cap {"assign", "off"} = {}
    BY <1>1 DEF Others, Still
  <2> QED
    BY <1>1, <2>1, CalmLife
<1>2. ASSUME NEW t \in Thread, NEW from, NEW to, Jump(t, from, to), Kept, Far(from), Far(to)
      PROVE  LifeInv'
  BY <1>1, <1>2 DEF Jump
<1>3. ASSUME NEW t \in Thread, NEW from, Leave(t, from), Kept, Far(from) PROVE LifeInv'
  <2>1. Far(pc'[t])
    BY <1>3, LeaveTo DEF Callback
  <2> QED
    BY <1>1, <1>3, <2>1 DEF Leave
<1>4. ASSUME NEW t \in Thread, NEW from, NEW operation, NEW to,
             Turn(t, from, operation, to), Kept, Far(from), Far(to)
      PROVE  LifeInv'
  BY <1>1, <1>4 DEF Turn
<1>5. ASSUME NEW t \in Thread, NEW operation, NEW to,
             Enter(t, operation, to), Kept, Far(to)
      PROVE  LifeInv'
  <2>1. Far(pc[t])
    BY <1>5, CallsFrom DEF Enter, Callback
  <2> QED
    BY <1>1, <1>5, <2>1 DEF Enter
<1>6. UNCHANGED flags => Kept
  BY DEF flags
<1>7. ASSUME NEW t \in Thread, Calls(t) PROVE LifeInv'
  BY <1>4, <1>5, <1>6, <1>7, SMT DEF Calls
<1>8. ASSUME NEW t \in Thread, Connects(t) PROVE LifeInv'
  <2>1. CASE Jump(t, "idle", "opened")
    BY <1>2, <1>6, <1>8, <2>1 DEF Connects
  <2>2. CASE \A u \in Thread : Still(u)
    BY <1>6, <1>8, <2>2, CalmLife DEF Connects, Still
  <2> QED
    BY <1>8, <2>1, <2>2 DEF Connects
<1>9. ASSUME NEW t \in Thread, Passes(t) PROVE LifeInv'
  <2>1. pc[t] = "assign" => reader_thread # "joinable"
    BY DEF LifeInv
  <2> QED
    BY <1>2, <1>3, <1>6, <1>9, <2>1 DEF Passes, Jump, AfterJoin
<1>10. CASE Reads \/ Releases
  BY <1>2, <1>4, <1>6, <1>10, SMT DEF Reads, Releases
<1>11. CASE Rests
  BY <1>6, <1>11, CalmLife DEF Rests
<1>12. ASSUME NEW t \in Thread, Opens(t) \/ Claims(t) \/ Builds(t) \/ Built(t) \/ Locks(t)
                  \/ Writes(t)
       PROVE  LifeInv'
  BY <1>2, <1>3, <1>6, <1>12 DEF Opens, Claims, Builds, Built, Locks, Writes
<1>13. ASSUME NEW t \in Thread, Marks(t) \/ Clears(t) \/ Shuts(t) \/ LetsGo(t)
                  \/ Notifies(t) \/ Frees(t)
       PROVE  LifeInv'
  BY <1>2, <1>3, <1>4, <1>6, <1>13, SMT
  DEF Marks, Clears, Shuts, LetsGo, AfterJoin, Notifies, Frees
<1>14. ASSUME NEW t \in Thread, Spawns(t) PROVE LifeInv'
  <2>1. /\ t # Reader /\ reader_thread' # "joinable"
        /\ \A u \in Thread : pc[u] # "assign"
    BY <1>6, <1>14 DEF Spawns, LifeInv
  <2>2. /\ pc'[t] = "assign" /\ pc'[Reader] = "loop"
        /\ \A u \in Thread \ {t} : pc'[u] # "assign"
    BY <1>14, <2>1 DEF Spawns
  <2> QED
    BY <2>1, <2>2 DEF LifeInv
<1>15. ASSUME NEW t \in Thread, Assigns(t) PROVE LifeInv'
  <2>1. /\ t # Reader /\ pc[Reader] # "off"
        /\ \A u \in Thread \ {t} : pc[u] # "assign"
    BY <1>15 DEF Assigns, Leave, LifeInv
  <2>2. /\ pc'[t] # "assign" /\ \A u \in Thread \ {t} : pc'[u] = pc[u]
        /\ reader_thread' = "joinable"
    BY <1>15, LeaveTo DEF Assigns, Leave, Others, Still, Callback
  <2> QED
    BY <2>1, <2>2 DEF LifeInv
<1>16. ASSUME NEW t \in Thread, Joins(t) PROVE LifeInv'
  <2>1. \A u \in Thread : pc[u] # "assign"
    BY <1>16 DEF Joins, LifeInv
  <2>2. /\ pc'[Reader] = "off" /\ reader_thread' = "none"
        /\ \A u \in Thread : pc'[u] # "assign"
    BY <1>16, <2>1 DEF Joins
  <2> QED
    BY <2>2 DEF LifeInv
<1> QED
  BY <1>7, <1>8, <1>9, <1>10, <1>11, <1>12, <1>13, <1>14, <1>15, <1>16 DEF Step, Changes

(* The steps of ~impl.                                                     *)
Destroying ==
    {"shut_open", "shut_sock", "join", "join_wait", "joined", "free", "aborted"}

(* While ~impl runs no other application thread is in the object, and when *)
(* it is about to return there is no reader either.                        *)
DestroyInv ==
    /\ \A t \in Thread : call[t] = "destroy" =>
          /\ alive /\ t \in App /\ pc[t] \in Destroying
          /\ \A u \in App \ {t} : pc[u] = "idle"
    /\ \A t \in Thread : pc[t] = "free" => call[t] = "destroy"
    /\ \A t \in Thread :
          pc[t] \in {"joined", "free"} /\ call[t] = "destroy" => pc[Reader] = "off"
    /\ NoReaderAfterDestroy

(* A step of t that does not enter an object that is being destroyed and   *)
(* does not end ~impl.                                                     *)
LEMMA CalmDestroy ==
    ASSUME DestroyInv, NEW t \in Thread, Others(t), UNCHANGED alive, pc[t] # "off",
           pc[t] = "idle" => Usable,
           pc'[t] = "free" => call'[t] = "destroy",
           pc'[t] \in {"joined", "free"} /\ call'[t] = "destroy" => pc'[Reader] = "off",
           call'[t] = "destroy" => call[t] = "destroy" /\ pc'[t] \in Destroying
    PROVE  DestroyInv'
<1> USE ReaderApart DEF Others, Still
<1>1. alive
  BY DEF DestroyInv, NoReaderAfterDestroy, Usable
<1>2. ASSUME NEW u \in Thread, call'[u] = "destroy"
      PROVE  u \in App /\ pc'[u] \in Destroying /\ \A w \in App \ {u} : pc'[w] = "idle"
  <2>1. /\ call[u] = "destroy" /\ u \in App /\ pc[u] \in Destroying
        /\ \A w \in App \ {u} : pc[w] = "idle"
    BY <1>2, SMT DEF DestroyInv
  <2>2. t \notin App \ {u}
    BY <2>1 DEF Usable
  <2> QED
    BY <1>2, <2>1, <2>2
<1>3. ASSUME NEW u \in Thread, pc'[u] = "free" PROVE call'[u] = "destroy"
  BY <1>3 DEF DestroyInv
<1>4. ASSUME NEW u \in Thread, pc'[u] \in {"joined", "free"}, call'[u] = "destroy"
      PROVE  pc'[Reader] = "off"
  <2>1. CASE u # t
    <3>1. pc[u] \in {"joined", "free"} /\ call[u] = "destroy"
      BY <1>4, <2>1
    <3>2. pc[Reader] = "off" /\ u \in App /\ \A w \in App \ {u} : pc[w] = "idle"
      BY <3>1 DEF DestroyInv
    <3> QED
      BY <2>1, <3>1, <3>2 DEF Usable
  <2>2. CASE u = t
    BY <1>4, <2>2, SMT
  <2> QED
    BY <2>1, <2>2
<1> QED
  BY <1>1, <1>2, <1>3, <1>4 DEF DestroyInv, NoReaderAfterDestroy

(* When ~impl leaves join_reader_if_needed without a join there is no      *)
(* reader: the only thread that could be starting one is its own.          *)
LEMMA NothingToJoin ==
    ASSUME LifeInv, DestroyInv, NEW t \in Thread, pc[t] = "join", call[t] = "destroy",
           reader_thread = "none" \/ t = Reader
    PROVE  t # Reader /\ pc[Reader] = "off"
<1>1. t \in App /\ \A u \in App \ {t} : pc[u] = "idle"
  BY DEF DestroyInv
<1>2. \A u \in Thread : pc[u] # "assign"
  BY <1>1, ReaderApart DEF LifeInv
<1> QED
  BY <1>1, <1>2, ReaderApart DEF LifeInv

(* Every step keeps what ~impl relies on.                                  *)
LEMMA StepDestroy ==
    ASSUME ThreadTypes, LifeInv, DestroyInv, Step PROVE DestroyInv'
<1> DEFINE Kept == UNCHANGED alive
           Far(label) == label \notin {"off", "idle", "joined", "free"}
<1> USE ReaderIsThread
<1>1. ASSUME NEW t \in Thread, NEW from, NEW to, Jump(t, from, to), Kept,
             Far(from), Far(to), call[t] = "destroy" /\ from \in Destroying => to \in Destroying
      PROVE  DestroyInv'
  <2>1. call[t] = "destroy" => pc[t] \in Destroying
    BY DEF DestroyInv
  <2> QED
    BY <1>1, <2>1, CalmDestroy DEF Jump
<1>2. ASSUME NEW t \in Thread, NEW from, Leave(t, from), Kept, Far(from) PROVE DestroyInv'
  <2>1. pc'[t] # "free" /\ call'[t] # "destroy"
    BY <1>2, LeaveTo DEF Leave, Callback
  <2> QED
    BY <1>2, <2>1, CalmDestroy DEF Leave
<1>3. ASSUME NEW t \in Thread, NEW from, NEW operation, NEW to,
             Turn(t, from, operation, to), Kept, Far(from), Far(to), operation # "destroy"
      PROVE  DestroyInv'
  BY <1>3, CalmDestroy DEF Turn
<1>4. ASSUME NEW t \in Thread, NEW operation, NEW to,
             Enter(t, operation, to), Kept, Far(to), operation # "destroy"
      PROVE  DestroyInv'
  <2>1. pc[t] # "off" /\ (pc[t] = "idle" => Usable)
    BY <1>4, CallsFrom DEF Enter, Callback
  <2> QED
    BY <1>4, <2>1, CalmDestroy DEF Enter
<1>5. UNCHANGED flags => Kept
  BY DEF flags
<1>6. ASSUME NEW t \in Thread, Calls(t) PROVE DestroyInv'
  <2>1. CASE /\ Turn(t, "idle", "destroy", "shut_open")
             /\ t \in App /\ alive /\ \A u \in App : pc[u] = "idle"
    <3>1. /\ pc'[t] = "shut_open" /\ alive'
          /\ \A u \in Thread \ {t} : pc'[u] = pc[u] /\ call'[u] = call[u]
      BY <1>5, <1>6, <2>1 DEF Calls, Turn, Others, Still
    <3>2. \A u \in Thread : pc[u] # "free" /\ call[u] # "destroy"
      BY <2>1, ReaderApart DEF DestroyInv, Destroying
    <3> QED
      <4>1. \A u \in Thread : call'[u] = "destroy" => u = t
        BY <3>1, <3>2
      <4>2. \A u \in Thread : pc'[u] # "free"
        BY <3>1, <3>2
      <4>3. \A u \in App \ {t} : pc'[u] = "idle"
        BY <2>1, <3>1, ReaderApart
      <4> QED
        BY <2>1, <3>1, <4>1, <4>2, <4>3 DEF DestroyInv, NoReaderAfterDestroy, Destroying
  <2> QED
    BY <1>3, <1>4, <1>5, <1>6, <2>1 DEF Calls
<1>7. ASSUME NEW t \in Thread, Connects(t) PROVE DestroyInv'
  <2>1. CASE Jump(t, "idle", "opened")
    <3>1. call[t] # "destroy"
      BY <1>7 DEF Connects, Usable
    <3> QED
      BY <1>5, <1>7, <2>1, <3>1, CalmDestroy DEF Connects, Jump
  <2>2. CASE \A u \in Thread : Still(u)
    <3>1. alive' = alive /\ \A u \in Thread : pc'[u] = pc[u] /\ call'[u] = call[u]
      BY <1>5, <1>7, <2>2 DEF Connects, Still
    <3> QED
      BY <3>1, ReaderApart DEF DestroyInv, NoReaderAfterDestroy
  <2> QED
    BY <1>7, <2>1, <2>2 DEF Connects
<1>8. ASSUME NEW t \in Thread, Passes(t) PROVE DestroyInv'
  <2>1. CASE /\ Jump(t, "join", AfterJoin(t)) /\ call[t] = "destroy"
             /\ reader_thread = "none" \/ t = Reader
    <3>1. t # Reader /\ pc[Reader] = "off"
      BY <2>1, NothingToJoin DEF Jump
    <3> QED
      BY <1>5, <1>8, <2>1, <3>1, CalmDestroy
      DEF Passes, Jump, Others, Still, AfterJoin, Destroying
  <2> QED
    BY <1>1, <1>2, <1>5, <1>8, <2>1 DEF Passes, AfterJoin, Destroying
<1>9. CASE Reads \/ Releases
  BY <1>1, <1>3, <1>5, <1>9 DEF Reads, Releases, Destroying
<1>10. CASE Rests
  <2>1. UNCHANGED <<alive, pc, call>>
    BY <1>5, <1>10 DEF Rests
  <2> QED
    BY <2>1 DEF DestroyInv, NoReaderAfterDestroy
<1>11. ASSUME NEW t \in Thread, Opens(t) \/ Claims(t) \/ Assigns(t) \/ Builds(t) \/ Built(t)
                  \/ Locks(t) \/ Writes(t)
       PROVE  DestroyInv'
  BY <1>1, <1>2, <1>5, <1>11
  DEF Opens, Claims, Assigns, Builds, Built, Locks, Writes, Destroying
<1>12. ASSUME NEW t \in Thread, Marks(t) \/ Clears(t) \/ Shuts(t) \/ Notifies(t)
       PROVE  DestroyInv'
  BY <1>1, <1>2, <1>5, <1>12 DEF Marks, Clears, Shuts, Notifies, Destroying
<1>13. ASSUME NEW t \in Thread, Spawns(t) PROVE DestroyInv'
  <2>1. /\ t \in App /\ pc[t] = "spawn" /\ pc[Reader] = "off"
        /\ alive /\ \A u \in Thread : call[u] # "destroy" /\ pc[u] # "free"
    BY <1>13, ReaderApart DEF Spawns, DestroyInv, NoReaderAfterDestroy, Destroying
  <2>2. /\ call' = call /\ alive' = alive
        /\ \A u \in Thread : pc'[u] = pc[u] \/ pc'[u] \in {"assign", "loop"}
    BY <1>5, <1>13 DEF Spawns
  <2> QED
    BY <2>1, <2>2 DEF DestroyInv, NoReaderAfterDestroy
<1>14. ASSUME NEW t \in Thread, Joins(t) PROVE DestroyInv'
  <2>1. alive' /\ alive /\ call' = call /\ pc'[t] = "joined" /\ t \in App /\ pc'[Reader] = "off"
    BY <1>14, ReaderApart DEF Joins, DestroyInv, NoReaderAfterDestroy
  <2>2. \A u \in App \ {t} : pc'[u] = pc[u]
    BY <1>14, ReaderApart DEF Joins
  <2> QED
    BY <1>14, <2>1, <2>2, ReaderApart, SMT DEF Joins, DestroyInv, NoReaderAfterDestroy, Destroying
<1>15. ASSUME NEW t \in Thread, LetsGo(t) PROVE DestroyInv'
  <2>1. call[t] = "destroy" => t # Reader /\ pc[Reader] = "off"
    BY <1>15, ReaderApart DEF LetsGo, Jump, DestroyInv
  <2> QED
    BY <1>15, <2>1, CalmDestroy DEF LetsGo, Jump, Others, Still, AfterJoin, Destroying
<1>16. ASSUME NEW t \in Thread, Frees(t) PROVE DestroyInv'
  <2>1. /\ pc[Reader] = "off" /\ t \in App /\ \A u \in App \ {t} : pc[u] = "idle"
    BY <1>16 DEF Frees, Turn, DestroyInv
  <2>2. /\ pc'[t] = "idle" /\ call'[t] = "none"
        /\ \A u \in Thread \ {t} : pc'[u] = pc[u] /\ call'[u] = call[u]
    BY <1>16 DEF Frees, Turn, Others, Still
  <2> QED
    BY <2>1, <2>2, ReaderApart, SMT DEF DestroyInv, NoReaderAfterDestroy, Destroying
<1> QED
  BY <1>6, <1>7, <1>8, <1>9, <1>10, <1>11, <1>12, <1>13, <1>14, <1>15, <1>16 DEF Step, Changes

-----------------------------------------------------------------------------
(* Which thread does what: connect, start_reading, send and close run on   *)
(* any thread, ~impl on an application thread, the handlers on the reader; *)
(* an API call from a callback returns to it.                              *)

Place(t, label, back, operation) ==
    /\ t \in App =>
          /\ operation \in {"none", "start", "send", "close", "destroy"}
          /\ back \in {"idle", "on_open"}
          /\ label \notin {"off", "loop", "read", "deliver", "ping_check", "fail_check",
                           "exited"}
          /\ label \in Callback => label = "on_open"
    /\ t = Reader =>
          /\ operation # "destroy" /\ back # "on_open"
          /\ label \notin {"idle", "opened", "on_open", "free"}
          /\ operation \in ApiCall => back # "idle"
    /\ label \in {"start", "claim", "spawn", "assign"} => operation = "start"
    /\ operation \in ApiCall =>
          label \in {"start", "claim", "spawn", "assign", "mark", "shut_open", "shut_sock",
                     "join", "join_wait", "joined", "notify", "aborted"} \cup Sending
    /\ back # "idle" => operation \in ApiCall

PlaceInv == \A t \in Thread : Place(t, pc[t], ret[t], call[t])

(* Every step keeps the threads in their roles.                            *)
LEMMA StepPlace ==
    ASSUME ThreadTypes, CallInv, PlaceInv, Step PROVE PlaceInv'
<1> DEFINE OK(u) == Place(u, pc'[u], ret'[u], call'[u])
<1> USE ReaderIsThread
<1>1. ASSUME NEW t \in Thread, OK(t), Others(t) PROVE PlaceInv'
  BY <1>1 DEF PlaceInv, Others, Still
<1>2. ASSUME NEW t \in Thread, NEW from, NEW to, Jump(t, from, to),
             Place(t, from, ret[t], call[t]) => Place(t, to, ret[t], call[t])
      PROVE  PlaceInv'
  BY <1>1, <1>2 DEF Jump, PlaceInv
<1>3. ASSUME NEW t \in Thread, NEW from, Leave(t, from), from # "free",
             call[t] \in ApiCall \/ t = Reader
      PROVE  PlaceInv'
  <2>1. OK(t)
    <3>1. Place(t, pc[t], ret[t], call[t]) /\ ret[t] \in {"idle"} \cup Callback
      <4>1. ret[t] \in {"idle"} \cup Callback
        BY SMT DEF ThreadTypes
      <4> QED
        BY <4>1 DEF PlaceInv
    <3>2. pc'[t] = IF call[t] \in ApiCall THEN ret[t] ELSE "loop"
      BY <1>3 DEF Leave
    <3>3. ret'[t] = "idle" /\ call'[t] = "none"
      BY <1>3 DEF Leave
    <3>4. CASE t \in App
      <4>1. pc'[t] \in {"idle", "on_open"}
        BY <1>3, <3>1, <3>2, <3>4, ReaderApart DEF Place
      <4> QED
        BY <3>3, <3>4, <4>1, ReaderApart DEF Place, ApiCall, Callback
    <3>5. CASE t = Reader
      <4>1. pc'[t] \in Callback \cup {"loop"} /\ pc'[t] # "on_open"
        BY <3>1, <3>2, <3>5 DEF Place, Callback
      <4> QED
        BY <3>3, <3>5, <4>1, ReaderApart DEF Place, ApiCall, Callback
    <3> QED
      BY <3>4, <3>5, ReaderApart
  <2> QED
    BY <1>1, <1>3, <2>1 DEF Leave
<1>4. ASSUME NEW from \in {"read", "deliver", "ping_check", "on_error_fail",
                           "on_error_read", "on_error_pong"},
             NEW operation \in {"none", "pong", "fail", "echo", "read_error"},
             NEW to \in {"build", "loop", "deliver", "on_message", "shut_open", "fail_check"},
             Turn(Reader, from, operation, to)
      PROVE  PlaceInv'
  <2>1. OK(Reader)
    BY <1>4, ReaderApart DEF Turn, PlaceInv, Place, ApiCall, Callback, Sending
  <2> QED
    BY <1>1, <1>4, <2>1 DEF Turn
<1>5. ASSUME NEW t \in Thread, Calls(t) PROVE PlaceInv'
  <2>1. ASSUME NEW operation \in ApiCall, NEW to \in {"start", "build", "mark"},
               operation = "start" \/ to # "start", Enter(t, operation, to)
        PROVE  PlaceInv'
    <3>1. OK(t)
      BY <2>1, CallsFrom, ReaderApart DEF Enter, PlaceInv, Place, ApiCall, Callback, Sending
    <3> QED
      BY <1>1, <2>1, <3>1 DEF Enter
  <2>2. CASE Turn(t, "on_open", "start", "start")
    <3>1. OK(t)
      BY <2>2, ReaderApart DEF Turn, PlaceInv, Place, ApiCall, Callback, Sending
    <3> QED
      BY <1>1, <2>2, <3>1 DEF Turn
  <2>3. CASE Turn(t, "idle", "destroy", "shut_open") /\ t \in App
    <3>1. OK(t)
      BY <2>3, ReaderApart DEF Turn, PlaceInv, Place, ApiCall, Callback, Sending
    <3> QED
      BY <1>1, <2>3, <3>1 DEF Turn
  <2> QED
    BY <1>5, <2>1, <2>2, <2>3 DEF Calls, ApiCall
<1>6. ASSUME NEW t \in Thread, Connects(t) PROVE PlaceInv'
  <2>1. CASE Jump(t, "idle", "opened")
    BY <1>2, <1>6, <2>1, ReaderApart DEF Connects, Place, ApiCall, Sending, Callback
  <2>2. CASE \A u \in Thread : Still(u)
    BY <2>2 DEF Still, PlaceInv
  <2> QED
    BY <1>6, <2>1, <2>2 DEF Connects
<1>7. ASSUME NEW t \in Thread, Passes(t) PROVE PlaceInv'
  <2>1. Place(t, pc[t], ret[t], call[t]) /\ Stage(pc[t], call[t])
    BY DEF PlaceInv, CallInv
  <2>2. CASE Leave(t, "start") \/ (Leave(t, "lock") /\ call[t] \in Guarded)
    <3>1. call[t] \in ApiCall \/ t = Reader
      BY <2>1, <2>2, ReaderApart DEF Leave, Place, ApiCall, Guarded
    <3> QED
      BY <1>3, <2>2, <3>1
  <2>3. CASE \/ Jump(t, "start", "claim") \/ Jump(t, "spawn", "aborted")
             \/ Jump(t, "assign", "aborted") \/ Jump(t, "join", "join_wait")
             \/ Jump(t, "join_wait", "aborted")
    BY <1>2, <2>3 DEF Place, ApiCall, Sending, Callback
  <2>4. CASE Jump(t, "join", AfterJoin(t))
    BY <1>2, <2>1, <2>4, SMT DEF Jump, AfterJoin, Place, Stage, ApiCall, Sending, Callback
  <2> QED
    BY <1>7, <2>2, <2>3, <2>4 DEF Passes
<1>8. CASE Reads \/ Releases
  <2>1. ASSUME NEW from \in {"loop", "read", "on_message", "ping_check", "fail_check"},
               NEW to \in {"loop", "read", "exited", "on_error_read", "on_error_fail",
                           "ping_check", "mark", "shut_open"},
               Jump(Reader, from, to)
        PROVE  PlaceInv'
    BY <1>2, <2>1, ReaderApart DEF Place, ApiCall, Sending, Callback
  <2> QED
    BY <1>4, <1>8, <2>1 DEF Reads, Releases
<1>9. CASE Rests
  BY <1>9 DEF Rests, PlaceInv
<1>10. ASSUME NEW t \in Thread, Opens(t) \/ Claims(t) \/ Builds(t) \/ Built(t) \/ Locks(t)
                  \/ Marks(t)
       PROVE  PlaceInv'
  BY <1>2, <1>10, ReaderApart
  DEF Opens, Claims, Builds, Built, Locks, Marks, Place, ApiCall, Sending, Callback
<1>11. ASSUME NEW t \in Thread, Assigns(t) \/ Notifies(t) \/ Frees(t) PROVE PlaceInv'
  <2>1. Place(t, pc[t], ret[t], call[t]) /\ Stage(pc[t], call[t])
    BY DEF PlaceInv, CallInv
  <2>2. CASE Assigns(t) \/ Notifies(t)
    <3>1. call[t] \in ApiCall \/ t = Reader
      BY <2>1, <2>2, ReaderApart
      DEF Assigns, Notifies, Leave, Place, Stage, ApiCall, Closer
    <3> QED
      BY <1>3, <2>2, <3>1 DEF Assigns, Notifies
  <2>3. CASE Frees(t)
    <3>1. OK(t)
      BY <2>1, <2>3, ReaderApart DEF Frees, Turn, Place, ApiCall, Sending, Callback
    <3> QED
      BY <1>1, <2>3, <3>1 DEF Frees, Turn
  <2> QED
    BY <1>11, <2>2, <2>3
<1>12. ASSUME NEW t \in Thread, Writes(t) \/ Clears(t) \/ Shuts(t) \/ LetsGo(t)
       PROVE  PlaceInv'
  <2>1. Place(t, pc[t], ret[t], call[t]) /\ Stage(pc[t], call[t])
    BY DEF PlaceInv, CallInv
  <2>2. CASE Leave(t, "write") /\ call[t] \in Guarded
    <3>1. call[t] \in ApiCall \/ t = Reader
      BY <2>1, <2>2, ReaderApart DEF Place, ApiCall, Guarded
    <3> QED
      BY <1>3, <2>2, <3>1
  <2>3. CASE Jump(t, pc[t], pc'[t]) /\ Place(t, pc'[t], ret[t], call[t])
    BY <1>2, <2>3
  <2>4. CASE Writes(t)
    BY <2>1, <2>2, <2>3, <2>4, ReaderApart
    DEF Writes, Jump, Place, Stage, ApiCall, Guarded, Sending, Closer, Callback
  <2>5. CASE Clears(t) \/ Shuts(t) \/ LetsGo(t)
    BY <2>1, <2>3, <2>5, ReaderApart
    DEF Clears, Shuts, LetsGo, AfterJoin, Jump, Place, Stage, ApiCall, Sending, Closer,
        Callback
  <2> QED
    BY <1>12, <2>4, <2>5
<1>13. ASSUME NEW t \in Thread, Spawns(t) PROVE PlaceInv'
  <2>1. t # Reader /\ pc[Reader] = "off"
    BY <1>13 DEF Spawns
  <2>2. OK(t) /\ OK(Reader)
    BY <1>13, <2>1, ReaderApart DEF Spawns, PlaceInv, Place, ApiCall, Sending, Callback
  <2> QED
    BY <1>13, <2>2 DEF Spawns, PlaceInv
<1>14. ASSUME NEW t \in Thread, Joins(t) PROVE PlaceInv'
  <2>1. OK(t) /\ OK(Reader)
    BY <1>14, ReaderApart DEF Joins, PlaceInv, Place, ApiCall, Sending, Callback
  <2> QED
    BY <1>14, <2>1 DEF Joins, PlaceInv
<1> QED
  BY <1>5, <1>6, <1>7, <1>8, <1>9, <1>10, <1>11, <1>12, <1>13, <1>14 DEF Step, Changes

-----------------------------------------------------------------------------
(* Starting the reader.  start_reader_thread looks at reader_running_ and  *)
(* sets it in two steps, so that it keeps one reader only when two threads *)
(* are never inside it together.                                           *)

(* The thread that calls the object by itself, if there is one, is the     *)
(* only thread of the application.                                         *)
SerialCalls == \A a \in Active, b \in App : a = b

(* start_reading() is called from callbacks, or with no other thread of    *)
(* the application that could be in connect() or start_reading().          *)
StartsInTurn == "idle" \in Starters => SerialCalls

OneOpener == \A u, w \in App : Opening(u) /\ Opening(w) => u = w

(* The steps of connect and start_reading.                                 *)
Open == {"opened", "on_open", "start", "claim", "spawn", "assign"}

(* connect() runs when no other call does, and a callback that starts the  *)
(* reader is on_open_ or runs on the reader itself.                        *)
LEMMA StepOpener ==
    ASSUME ThreadTypes, PlaceInv, OneOpener, Step,
           \A t \in Thread : Calls(t) /\ pc[t] = "idle" /\ pc'[t] = "start" => SerialCalls
    PROVE  OneOpener'
<1> USE ReaderApart
<1>1. \A t \in Thread : /\ Opening(t) <=> pc[t] \in Open \/ ret[t] = "on_open"
                        /\ Opening(t)' <=> pc'[t] \in Open \/ ret'[t] = "on_open"
  BY DEF Opening, Open
<1>2. ASSUME NEW t \in Thread, Others(t), t \in App /\ Opening(t)' => Opening(t)
      PROVE  OneOpener'
  BY <1>1, <1>2 DEF OneOpener, Others, Still
<1>3. ASSUME NEW t \in Thread, NEW from, NEW to, Jump(t, from, to), to \in Open => from \in Open
      PROVE  OneOpener'
  BY <1>1, <1>2, <1>3 DEF Jump
<1>4. ASSUME NEW t \in Thread, NEW from, Leave(t, from) PROVE OneOpener'
  <2>1. ret[t] \in {"idle"} \cup Callback
    BY SMT DEF ThreadTypes
  <2>2. pc'[t] \in Open => ret[t] = "on_open"
    BY <1>4, <2>1 DEF Leave, Open, Callback
  <2> QED
    BY <1>1, <1>2, <1>4, <2>2 DEF Leave
<1>5. ASSUME NEW t \in Thread, NEW from, NEW operation, NEW to,
             Turn(t, from, operation, to), to \in Open => from \in Open
      PROVE  OneOpener'
  BY <1>1, <1>2, <1>5 DEF Turn
<1>6. ASSUME NEW t \in Thread, Calls(t) PROVE OneOpener'
  <2>1. ASSUME NEW operation, NEW to, Enter(t, operation, to), pc[t] = "idle" => to \notin Open
        PROVE  OneOpener'
    <3>1. pc[t] = "idle" \/ (t \in App => pc[t] = "on_open")
      BY <2>1, CallsFrom DEF Enter, PlaceInv, Place
    <3> QED
      BY <1>1, <1>2, <2>1, <3>1 DEF Enter, Open
  <2>2. CASE Enter(t, "start", "start") /\ pc[t] = "idle"
    <3>1. t \in Active /\ pc'[t] = "start"
      BY <2>2, CallsFrom DEF Enter, Callback
    <3> QED
      BY <1>6, <2>2, <3>1 DEF SerialCalls, OneOpener
  <2> QED
    BY <1>5, <1>6, <2>1, <2>2 DEF Calls, Open
<1>7. ASSUME NEW t \in Thread, Connects(t) PROVE OneOpener'
  <2>1. CASE Jump(t, "idle", "opened")
    <3>1. ASSUME NEW u \in App \ {t} PROVE ~Opening(u)'
      <4>1. pc[u] = "idle" /\ pc'[u] = pc[u] /\ ret'[u] = ret[u]
        BY <1>7, <2>1 DEF Connects, Jump, Others, Still
      <4>2. ret[u] = "idle"
        BY <4>1 DEF PlaceInv, Place, Sending
      <4> QED
        BY <1>1, <4>1, <4>2 DEF Open
    <3> QED
      BY <3>1 DEF OneOpener
  <2>2. CASE \A u \in Thread : Still(u)
    BY <1>1, <2>2 DEF Still, OneOpener
  <2> QED
    BY <1>7, <2>1, <2>2 DEF Connects
<1>8. ASSUME NEW t \in Thread, Passes(t) PROVE OneOpener'
  BY <1>3, <1>4, <1>8 DEF Passes, AfterJoin, Open
<1>9. CASE Reads \/ Releases
  BY <1>3, <1>5, <1>9 DEF Reads, Releases, Open
<1>10. CASE Rests
  BY <1>1, <1>10 DEF Rests, OneOpener
<1>11. ASSUME NEW t \in Thread, Opens(t) \/ Claims(t) \/ Assigns(t) \/ Builds(t) \/ Built(t)
                  \/ Locks(t) \/ Writes(t)
       PROVE  OneOpener'
  BY <1>3, <1>4, <1>11 DEF Opens, Claims, Assigns, Builds, Built, Locks, Writes, Open
<1>12. ASSUME NEW t \in Thread, Marks(t) \/ Clears(t) \/ Shuts(t) \/ LetsGo(t)
                  \/ Notifies(t) \/ Frees(t)
       PROVE  OneOpener'
  BY <1>3, <1>4, <1>5, <1>12
  DEF Marks, Clears, Shuts, LetsGo, AfterJoin, Notifies, Frees, Open
<1>13. ASSUME NEW t \in Thread, Spawns(t) \/ Joins(t) PROVE OneOpener'
  <2>1. \A u \in App : Opening(u)' => Opening(u)
    BY <1>1, <1>13 DEF Spawns, Joins, Open
  <2> QED
    BY <2>1 DEF OneOpener
<1> QED
  BY <1>6, <1>7, <1>8, <1>9, <1>10, <1>11, <1>12, <1>13 DEF Step, Changes

(* The steps at which a thread has the reader in its hands: it has claimed *)
(* reader_running_ and not assigned reader_thread_ yet, or it has joined   *)
(* and not cleared reader_running_ yet.                                    *)
Holding == {"spawn", "assign", "joined"}

(* reader_running_ is a lock on the reader: it is set as long as there is  *)
(* a reader or a thread that starts or has joined one, of which there is   *)
(* one at most.                                                            *)
RunInv ==
    /\ ~reader_running => pc[Reader] = "off" /\ \A u \in Thread : pc[u] \notin Holding
    /\ \A u \in Thread : pc[u] = "claim" => ~reader_running
    /\ \A u \in Thread : pc[u] \in {"spawn", "joined"} => pc[Reader] = "off"
    /\ \A u, w \in Thread : pc[u] \in Holding /\ pc[w] \in Holding => u = w

(* A step that takes no reader and lets none go.                           *)
LEMMA CalmRun ==
    ASSUME RunInv, UNCHANGED reader_running,
           \A u \in Thread : \/ pc'[u] = pc[u]
                             \/ /\ {pc[u], pc'[u]} \cap (Holding \cup {"off"}) = {}
                                /\ pc'[u] = "claim" => ~reader_running
    PROVE  RunInv'
<1>1. /\ \A u \in Thread : pc'[u] \in Holding <=> pc[u] \in Holding
      /\ \A u \in Thread : pc[u] \in Holding => pc'[u] = pc[u]
      /\ \A u \in Thread : pc'[u] = "claim" => ~reader_running
      /\ pc'[Reader] = "off" <=> pc[Reader] = "off"
  BY ReaderIsThread DEF RunInv
<1> QED
  BY <1>1 DEF RunInv, Holding

(* Every step keeps the lock.                                              *)
LEMMA StepRun ==
    ASSUME ThreadTypes, LifeInv, OneOpener, RunInv, Step PROVE RunInv'
<1> DEFINE Kept == UNCHANGED reader_running
           Far(label) == label \notin Holding \cup {"off"}
<1> USE ReaderIsThread
<1>1. ASSUME NEW t \in Thread, Others(t), Kept, Far(pc[t]), Far(pc'[t]),
             pc'[t] = "claim" => ~reader_running
      PROVE  RunInv'
  <2>1. \A u \in Thread : \/ pc'[u] = pc[u]
                          \/ /\ {pc[u], pc'[u]} \cap (Holding \cup {"off"}) = {}
                             /\ pc'[u] = "claim" => ~reader_running
    BY <1>1 DEF Others, Still
  <2> QED
    BY <1>1, <2>1, CalmRun
<1>2. ASSUME NEW t \in Thread, NEW from, NEW to, Jump(t, from, to), Kept, Far(from), Far(to),
             to = "claim" => ~reader_running
      PROVE  RunInv'
  BY <1>1, <1>2 DEF Jump
<1>3. ASSUME NEW t \in Thread, NEW from, Leave(t, from), Kept, Far(from) PROVE RunInv'
  <2>1. Far(pc'[t]) /\ pc'[t] # "claim"
    BY <1>3, LeaveTo DEF Holding, Callback
  <2> QED
    BY <1>1, <1>3, <2>1 DEF Leave
<1>4. ASSUME NEW t \in Thread, NEW from, NEW operation, NEW to,
             Turn(t, from, operation, to), Kept, Far(from), Far(to), to # "claim"
      PROVE  RunInv'
  BY <1>1, <1>4 DEF Turn
<1>5. ASSUME NEW t \in Thread, NEW operation, NEW to,
             Enter(t, operation, to), Kept, Far(to), to # "claim"
      PROVE  RunInv'
  <2>1. Far(pc[t])
    BY <1>5, CallsFrom DEF Enter, Holding, Callback
  <2> QED
    BY <1>1, <1>5, <2>1 DEF Enter
<1>6. UNCHANGED flags => Kept
  BY DEF flags
<1>7. ASSUME NEW t \in Thread, Calls(t) PROVE RunInv'
  BY <1>4, <1>5, <1>6, <1>7 DEF Calls, Holding
<1>8. ASSUME NEW t \in Thread, Connects(t) PROVE RunInv'
  <2>1. CASE Jump(t, "idle", "opened")
    BY <1>2, <1>6, <1>8, <2>1 DEF Connects, Holding
  <2>2. CASE \A u \in Thread : Still(u)
    BY <1>6, <1>8, <2>2, CalmRun DEF Connects, Still
  <2> QED
    BY <1>8, <2>1, <2>2 DEF Connects
<1>9. ASSUME NEW t \in Thread, Passes(t) PROVE RunInv'
  <2>1. /\ pc[t] = "assign" => reader_thread # "joinable"
        /\ pc[t] = "spawn" => pc[Reader] = "off"
    BY DEF LifeInv, RunInv
  <2> QED
    BY <1>2, <1>3, <1>6, <1>9, <2>1 DEF Passes, Jump, AfterJoin, Holding
<1>10. CASE Reads \/ Releases
  BY <1>2, <1>4, <1>6, <1>10 DEF Reads, Releases, Holding
<1>11. CASE Rests
  BY <1>6, <1>11, CalmRun DEF Rests
<1>12. ASSUME NEW t \in Thread, Opens(t) \/ Builds(t) \/ Built(t) \/ Locks(t) \/ Writes(t)
       PROVE  RunInv'
  BY <1>2, <1>3, <1>6, <1>12 DEF Opens, Builds, Built, Locks, Writes, Holding
<1>13. ASSUME NEW t \in Thread, Marks(t) \/ Clears(t) \/ Shuts(t) \/ Notifies(t) \/ Frees(t)
       PROVE  RunInv'
  BY <1>2, <1>3, <1>4, <1>6, <1>13 DEF Marks, Clears, Shuts, Notifies, Frees, Holding
<1>14. ASSUME NEW t \in Thread, Claims(t) PROVE RunInv'
  <2>1. /\ pc[t] = "claim" /\ pc'[t] = "spawn" /\ reader_running'
        /\ \A u \in Thread \ {t} : pc'[u] = pc[u]
    BY <1>14 DEF Claims, Jump, Others, Still
  <2>2. pc[Reader] = "off" /\ t # Reader /\ \A u \in Thread : pc[u] \notin Holding
    BY <2>1 DEF RunInv
  <2>3. \A u \in Thread \ {t} : pc[u] # "claim"
    BY <2>1, <2>2, ReaderApart DEF OneOpener, Opening
  <2> QED
    BY <2>1, <2>2, <2>3 DEF RunInv, Holding
<1>15. ASSUME NEW t \in Thread, Spawns(t) PROVE RunInv'
  <2>1. /\ t # Reader /\ reader_running /\ reader_running'
        /\ \A u \in Thread \ {t} : pc[u] \notin Holding
    BY <1>6, <1>15 DEF Spawns, RunInv, Holding
  <2>2. /\ pc'[t] = "assign" /\ pc'[Reader] = "loop"
        /\ \A u \in Thread \ {t} : pc'[u] \notin Holding
        /\ \A u \in Thread : pc'[u] # "claim"
    BY <1>15, <2>1 DEF Spawns, RunInv, Holding
  <2> QED
    BY <2>1, <2>2 DEF RunInv, Holding
<1>16. ASSUME NEW t \in Thread, Assigns(t) PROVE RunInv'
  <2>1. reader_running /\ \A u \in Thread \ {t} : pc[u] \notin Holding
    BY <1>16 DEF Assigns, Leave, RunInv, Holding
  <2>2. /\ pc'[t] \notin Holding \cup {"claim"} /\ \A u \in Thread \ {t} : pc'[u] = pc[u]
        /\ reader_running' = reader_running
    BY <1>16, LeaveTo DEF Assigns, Leave, Others, Still, Holding, Callback
  <2> QED
    BY <2>1, <2>2 DEF RunInv, Holding
<1>17. ASSUME NEW t \in Thread, Joins(t) PROVE RunInv'
  <2>1. reader_running /\ \A u \in Thread : pc[u] \notin Holding \cup {"claim"}
    BY <1>17 DEF Joins, LifeInv, RunInv, Holding
  <2>2. /\ pc'[t] = "joined" /\ pc'[Reader] = "off" /\ t # Reader
        /\ \A u \in Thread \ {t} : pc'[u] \notin Holding \cup {"claim"}
        /\ reader_running' = reader_running
    BY <1>17, <2>1 DEF Joins, Holding
  <2> QED
    BY <2>1, <2>2 DEF RunInv, Holding
<1>18. ASSUME NEW t \in Thread, LetsGo(t) PROVE RunInv'
  <2>1. /\ t # Reader /\ pc[Reader] = "off"
        /\ \A u \in Thread \ {t} : pc[u] \notin Holding
    BY <1>18 DEF LetsGo, Jump, RunInv, Holding
  <2>2. /\ pc'[t] \notin Holding /\ \A u \in Thread \ {t} : pc'[u] = pc[u]
        /\ reader_running' = FALSE
    BY <1>18, <2>1 DEF LetsGo, Jump, Others, Still, AfterJoin, Holding
  <2> QED
    BY <2>1, <2>2 DEF RunInv, Holding
<1> QED
  BY <1>7, <1>8, <1>9, <1>10, <1>11, <1>12, <1>13, <1>14, <1>15, <1>16, <1>17, <1>18
  DEF Step, Changes

-----------------------------------------------------------------------------
(* Joining the reader.                                                     *)

(* The application threads that may call close().                          *)
Closers == Active \cup (IF "on_open" \in CallbackCalls THEN App ELSE {})

OneCloser == \A t, u \in Closers : t = u

(* A thread that waits in reader_thread_.join() is the only one, so that   *)
(* reader_thread_ stays joinable until it has joined.                      *)
JoinInv ==
    /\ \A t \in App : call[t] = "close" => t \in Closers
    /\ \A t \in Thread : pc[t] = "join_wait" => t # Reader /\ reader_thread = "joinable"
    /\ NoAbort

(* Two threads never wait in reader_thread_.join() together.               *)
LEMMA OneJoins ==
    ASSUME OneCloser, CallInv, DestroyInv, JoinInv,
           NEW t \in Thread, NEW u \in Thread, pc[t] = "join_wait", pc[u] = "join_wait"
    PROVE  t = u
<1>1. t \in App /\ u \in App
  BY ReaderApart DEF JoinInv
<1>2. call[t] \in {"close", "destroy"} /\ call[u] \in {"close", "destroy"}
  BY DEF CallInv, Stage
<1>3. CASE call[t] = "destroy" \/ call[u] = "destroy"
  BY <1>1, <1>3 DEF DestroyInv
<1>4. CASE call[t] = "close" /\ call[u] = "close"
  BY <1>1, <1>4 DEF JoinInv, OneCloser
<1> QED
  BY <1>2, <1>3, <1>4

(* Every step keeps it.                                                    *)
LEMMA StepJoin ==
    ASSUME OneCloser, ThreadTypes, CallInv, LifeInv, RunInv, DestroyInv, PlaceInv, JoinInv,
           Step
    PROVE  JoinInv'
<1> DEFINE OK(u) == /\ call'[u] = "close" /\ u \in App => u \in Closers
                    /\ pc'[u] \notin {"join_wait", "aborted"}
<1> USE ReaderIsThread
<1>1. ASSUME NEW t \in Thread, OK(t), Others(t), UNCHANGED reader_thread PROVE JoinInv'
  BY <1>1, ReaderApart DEF JoinInv, NoAbort, Others, Still
<1>2. ASSUME NEW t \in Thread, NEW from, NEW to, Jump(t, from, to),
             to \notin {"join_wait", "aborted"}, UNCHANGED reader_thread
      PROVE  JoinInv'
  BY <1>1, <1>2 DEF Jump, JoinInv
<1>3. ASSUME NEW t \in Thread, NEW from, Leave(t, from), UNCHANGED reader_thread
      PROVE  JoinInv'
  <2>1. OK(t)
    BY <1>3, LeaveTo DEF Leave, Callback
  <2> QED
    BY <1>1, <1>3, <2>1 DEF Leave
<1>4. ASSUME NEW t \in Thread, NEW from, NEW operation, NEW to,
             Turn(t, from, operation, to), operation # "close",
             to \notin {"join_wait", "aborted"}, UNCHANGED reader_thread
      PROVE  JoinInv'
  BY <1>1, <1>4 DEF Turn
<1>5. UNCHANGED flags => UNCHANGED reader_thread
  BY DEF flags
<1>6. ASSUME NEW t \in Thread, Calls(t) PROVE JoinInv'
  <2>1. ASSUME NEW operation, NEW to \in {"start", "build", "mark"}, Enter(t, operation, to)
        PROVE  JoinInv'
    <3>1. t \in App => t \in Closers
      BY <2>1, CallsFrom DEF Enter, PlaceInv, Place, Closers, Callback
    <3> QED
      BY <1>1, <1>5, <1>6, <2>1, <3>1 DEF Calls, Enter
  <2> QED
    BY <1>4, <1>5, <1>6, <2>1, SMT DEF Calls
<1>7. ASSUME NEW t \in Thread, Connects(t) PROVE JoinInv'
  <2>1. CASE Jump(t, "idle", "opened")
    BY <1>2, <1>5, <1>7, <2>1 DEF Connects
  <2>2. CASE \A u \in Thread : Still(u)
    BY <1>5, <1>7, <2>2, ReaderApart DEF Connects, Still, JoinInv, NoAbort
  <2> QED
    BY <1>7, <2>1, <2>2 DEF Connects
<1>8. ASSUME NEW t \in Thread, Passes(t) PROVE JoinInv'
  <2>1. /\ ~Jump(t, "assign", "aborted") \/ reader_thread # "joinable"
        /\ ~Jump(t, "spawn", "aborted") \/ pc[Reader] = "off"
    BY DEF Jump, LifeInv, RunInv
  <2>2. ~Jump(t, "join_wait", "aborted") \/ reader_thread # "none"
    BY DEF Jump, JoinInv
  <2>3. CASE Jump(t, "join", "join_wait") /\ reader_thread = "joinable" /\ t # Reader
    BY <1>5, <1>8, <2>3, ReaderApart DEF Passes, Jump, Others, Still, JoinInv, NoAbort
  <2> QED
    BY <1>2, <1>3, <1>5, <1>8, <2>1, <2>2, <2>3 DEF Passes, AfterJoin
<1>9. CASE Reads \/ Releases
  BY <1>2, <1>4, <1>5, <1>9, SMT DEF Reads, Releases
<1>10. CASE Rests
  BY <1>5, <1>10 DEF Rests, JoinInv, NoAbort
<1>11. ASSUME NEW t \in Thread, Opens(t) \/ Claims(t) \/ Builds(t) \/ Built(t)
                  \/ Locks(t) \/ Writes(t)
       PROVE  JoinInv'
  BY <1>2, <1>3, <1>5, <1>11 DEF Opens, Claims, Builds, Built, Locks, Writes
<1>12. ASSUME NEW t \in Thread, Marks(t) \/ Clears(t) \/ Shuts(t) \/ LetsGo(t)
                  \/ Notifies(t) \/ Frees(t)
       PROVE  JoinInv'
  BY <1>2, <1>3, <1>4, <1>5, <1>12, SMT DEF Marks, Clears, Shuts, LetsGo, Notifies, Frees, AfterJoin
<1>13. ASSUME NEW t \in Thread, Assigns(t) PROVE JoinInv'
  <2>1. \A u \in Thread : pc[u] # "join_wait"
    BY <1>13 DEF Assigns, JoinInv
  <2>2. OK(t)
    BY <1>13, LeaveTo DEF Assigns, Leave, Callback
  <2> QED
    BY <1>13, <2>1, <2>2, ReaderApart DEF Assigns, Leave, Others, Still, JoinInv, NoAbort
<1>14. ASSUME NEW t \in Thread, Spawns(t) PROVE JoinInv'
  <2>1. reader_thread' = reader_thread /\ call' = call
    BY <1>5, <1>14 DEF Spawns
  <2>2. \A u \in Thread : pc'[u] = pc[u] \/ pc'[u] \in {"assign", "loop"}
    BY <1>14 DEF Spawns
  <2> QED
    BY <2>1, <2>2 DEF JoinInv, NoAbort
<1>15. ASSUME NEW t \in Thread, Joins(t) PROVE JoinInv'
  <2>1. \A u \in Thread \ {t} : pc[u] # "join_wait"
    BY <1>15, OneJoins DEF Joins
  <2>2. call' = call /\ \A u \in Thread : pc'[u] \notin {"join_wait", "aborted"}
    BY <1>15, <2>1 DEF Joins, JoinInv, NoAbort
  <2> QED
    BY <2>2 DEF JoinInv, NoAbort
<1> QED
  BY <1>6, <1>7, <1>8, <1>9, <1>10, <1>11, <1>12, <1>13, <1>14, <1>15 DEF Step, Changes

-----------------------------------------------------------------------------
(* The invariants of the threads, whatever the application does.           *)
ThreadInv == Inv /\ LifeInv /\ DestroyInv /\ PlaceInv

(* They hold when the object has been constructed.                         *)
LEMMA InitThread == ASSUME Init PROVE ThreadInv
<1>1. LifeInv
  BY ReaderIsThread DEF Init, LifeInv
<1>2. DestroyInv
  BY DEF Init, DestroyInv, NoReaderAfterDestroy
<1>3. PlaceInv
  BY ReaderApart DEF Init, PlaceInv, Place, ApiCall, Callback
<1> QED
  BY <1>1, <1>2, <1>3, InitInv DEF ThreadInv

(* Every step keeps them.                                                  *)
LEMMA NextThread == ASSUME ThreadInv, [Next]_vars PROVE ThreadInv' /\ Step
<1>1. Inv' /\ Step /\ TypeOK /\ CallInv
  BY NextInv DEF ThreadInv, Inv
<1>2. ThreadTypes
  BY <1>1 DEF TypeOK
<1>3. LifeInv' /\ DestroyInv' /\ PlaceInv'
  BY <1>1, <1>2, StepLife, StepDestroy, StepPlace DEF ThreadInv
<1> QED
  BY <1>1, <1>3 DEF ThreadInv

(* For any number of application threads, calls, frames and reconnections: *)
(* when ~impl has returned the reader has been joined and no thread is     *)
(* left in the object's code. If two starts overlap, it says nothing of    *)
(* what follows the second Spawn.                                          *)
THEOREM ReaderNeverOutlives == Spec => []NoReaderAfterDestroy
<1>1. Init => ThreadInv
  BY InitThread
<1>2. ThreadInv /\ [Next]_vars => ThreadInv'
  BY NextThread
<1>3. ThreadInv => NoReaderAfterDestroy
  BY DEF ThreadInv, DestroyInv
<1> QED
  BY <1>1, <1>2, <1>3, PTL DEF Spec

(* The invariants of the threads when starts do not overlap.               *)
StartInv == ThreadInv /\ OneOpener /\ RunInv

(* They hold when the object has been constructed.                         *)
LEMMA InitStart == ASSUME Init PROVE StartInv
<1>1. \A t \in Thread : pc[t] \in {"off", "idle"} /\ ret[t] = "idle"
  BY DEF Init
<1>2. OneOpener
  BY <1>1, ReaderApart DEF OneOpener, Opening
<1>3. RunInv
  BY <1>1, ReaderIsThread DEF Init, RunInv, Holding
<1> QED
  BY <1>2, <1>3, InitThread DEF StartInv

(* Every step keeps them.                                                  *)
LEMMA NextStart ==
    ASSUME StartsInTurn, StartInv, [Next]_vars PROVE StartInv' /\ Step
<1>1. ThreadInv' /\ Step
  BY NextThread DEF StartInv
<1>2. ThreadTypes
  BY DEF StartInv, ThreadInv, Inv, TypeOK
<1>3. ASSUME NEW t \in Thread, Calls(t), pc[t] = "idle", pc'[t] = "start" PROVE SerialCalls
  BY <1>3 DEF Calls, Enter, Turn, StartsInTurn
<1>4. OneOpener' /\ RunInv'
  BY <1>1, <1>2, <1>3, StepOpener, StepRun DEF StartInv, ThreadInv
<1> QED
  BY <1>1, <1>4 DEF StartInv

(* A thread that is about to start a reader finds none, and one that is    *)
(* about to assign reader_thread_ does not find it joinable.               *)
SingleReader ==
    /\ \A t \in Thread : pc[t] = "spawn" => pc[Reader] = "off"
    /\ \A t \in Thread : pc[t] \in {"spawn", "assign"} => reader_thread = "none"

(* When start_reading() is called from callbacks only, or by the one       *)
(* thread of the application, reader_running_ is enough to keep one        *)
(* reader: start_reader_thread never starts a second one nor moves it into *)
(* a reader_thread_ that is joinable, whichever of connect(), the          *)
(* callbacks' starts and a join by another thread come together.  Without  *)
(* the hypothesis it is not: two threads in start_reader_thread can both   *)
(* find the flag clear before either sets it.                              *)
THEOREM ReaderNeverReplaced ==
    ASSUME StartsInTurn PROVE Spec => []SingleReader
<1>1. Init => StartInv
  BY InitStart
<1>2. StartInv /\ [Next]_vars => StartInv'
  BY NextStart
<1>3. StartInv => SingleReader
  <2> SUFFICES ASSUME StartInv PROVE SingleReader
    OBVIOUS
  <2>1. reader_thread \in {"none", "joinable"}
    BY DEF StartInv, ThreadInv, Inv, TypeOK, FlagTypes
  <2> QED
    BY <2>1 DEF StartInv, ThreadInv, LifeInv, RunInv, SingleReader
<1> QED
  BY <1>1, <1>2, <1>3, PTL DEF Spec

(* When starts do not overlap and one application thread at most calls     *)
(* close(), be it by itself or from on_open, no thread of the object ever  *)
(* reaches std::terminate or std::system_error: reader_thread_ is never    *)
(* assigned to while it is joinable, and never joined by two threads.      *)
(* (Two threads in close() can both pass the joinable() test of            *)
(* join_reader_if_needed.)                                                 *)
THEOREM NoAbortWithOneCloser ==
    ASSUME StartsInTurn, OneCloser PROVE Spec => []NoAbort
<1>1. Init => StartInv /\ JoinInv
  <2> SUFFICES ASSUME Init PROVE JoinInv
    BY InitStart
  <2>1. \A t \in Thread : call[t] = "none" /\ pc[t] \in {"off", "idle"}
    BY DEF Init
  <2> QED
    BY <2>1, ReaderApart DEF JoinInv, NoAbort
<1>2. StartInv /\ JoinInv /\ [Next]_vars => (StartInv /\ JoinInv)'
  <2> SUFFICES ASSUME StartInv, JoinInv, [Next]_vars PROVE StartInv' /\ JoinInv'
    OBVIOUS
  <2>1. StartInv' /\ Step
    BY NextStart
  <2>2. ThreadTypes /\ CallInv
    BY DEF StartInv, ThreadInv, Inv, TypeOK
  <2> QED
    BY <2>1, <2>2, StepJoin DEF StartInv, ThreadInv
<1>3. JoinInv => NoAbort
  BY DEF JoinInv
<1> QED
  BY <1>1, <1>2, <1>3, PTL DEF Spec

-----------------------------------------------------------------------------
(* An object that connects once.                                           *)

(* is_open_ has not been set.                                              *)
NotYet == opens = 0 \/ \E t \in Thread : pc[t] = "opened"

(* Where a thread may be while connect has not been called.                *)
Waiting(label, back, operation) ==
    /\ back = "idle"
    /\ label \in {"idle", "off", "start"} \/ operation = "destroy"

(* Before open_and_start_reader there is nothing to read, to close or to   *)
(* report, and the thread in connect() is alone in the object.             *)
BeginInv ==
    /\ NotYet => ~is_open /\ ~reader_running /\ closes = <<>>
    /\ opens = 0 => \A t \in Thread : Waiting(pc[t], ret[t], call[t])
    /\ \A t \in Thread : pc[t] = "opened" =>
          \A u \in Thread \ {t} : pc[u] \in {"idle", "off"}

(* Only connect() opens.                                                   *)
LEMMA OnlyConnects ==
    ASSUME ThreadTypes, Step, \A t \in Thread : ~Connects(t)
    PROVE  /\ opens' = opens
           /\ \A u \in Thread : pc'[u] = "opened" => pc[u] = "opened"
<1> DEFINE Fine == \A u \in Thread : pc'[u] = "opened" => pc[u] = "opened"
<1> USE ReaderIsThread
<1>1. ASSUME NEW t \in Thread, NEW from, NEW to, Jump(t, from, to), to # "opened" PROVE Fine
  BY <1>1 DEF Jump, Others, Still
<1>2. ASSUME NEW t \in Thread, NEW from, NEW operation, NEW to,
             Turn(t, from, operation, to), to # "opened"
      PROVE  Fine
  BY <1>2 DEF Turn, Others, Still
<1>3. ASSUME NEW t \in Thread, NEW operation, NEW to, Enter(t, operation, to), to # "opened"
      PROVE  Fine
  BY <1>3 DEF Enter, Others, Still
<1>4. ASSUME NEW t \in Thread, NEW from, Leave(t, from) PROVE Fine
  <2>1. pc'[t] # "opened"
    BY <1>4, LeaveTo DEF Callback
  <2> QED
    BY <1>4, <2>1 DEF Leave, Others, Still
<1>5. UNCHANGED net => opens' = opens
  BY DEF net
<1>6. ASSUME NEW t \in Thread, Calls(t) PROVE Fine /\ opens' = opens
  BY <1>2, <1>3, <1>5, <1>6 DEF Calls
<1>7. ASSUME NEW t \in Thread, Passes(t) PROVE Fine /\ opens' = opens
  BY <1>1, <1>4, <1>5, <1>7 DEF Passes, AfterJoin
<1>8. CASE Reads \/ Releases
  BY <1>1, <1>2, <1>5, <1>8 DEF Reads, Releases
<1>9. CASE Rests
  BY <1>5, <1>9 DEF Rests
<1>10. ASSUME NEW t \in Thread, Opens(t) \/ Claims(t) \/ Assigns(t) \/ Builds(t) \/ Built(t)
                  \/ Locks(t) \/ Writes(t)
       PROVE  Fine /\ opens' = opens
  BY <1>1, <1>4, <1>5, <1>10 DEF Opens, Claims, Assigns, Builds, Built, Locks, Writes
<1>11. ASSUME NEW t \in Thread, Marks(t) \/ Clears(t) \/ Shuts(t) \/ LetsGo(t)
                  \/ Notifies(t) \/ Frees(t)
       PROVE  Fine /\ opens' = opens
  BY <1>1, <1>2, <1>4, <1>5, <1>11
  DEF Marks, Clears, Shuts, LetsGo, Notifies, Frees, AfterJoin
<1>12. ASSUME NEW t \in Thread, Spawns(t) \/ Joins(t) PROVE Fine /\ opens' = opens
  BY <1>5, <1>12 DEF Spawns, Joins
<1> QED
  BY <1>6, <1>7, <1>8, <1>9, <1>10, <1>11, <1>12 DEF Step, Changes

(* Before connect() has been called the threads can only call              *)
(* start_reading(), which does nothing, and destroy the object.            *)
LEMMA BeforeConnect ==
    ASSUME ThreadInv, BeginInv, opens = 0, Step, \A t \in Thread : ~Connects(t)
    PROVE  /\ UNCHANGED <<reader_running, closes>> /\ ~is_open'
           /\ \A u \in Thread : Waiting(pc'[u], ret'[u], call'[u])
<1> DEFINE Calm == UNCHANGED <<reader_running, closes>> /\ ~is_open'
           OK(u) == Waiting(pc'[u], ret'[u], call'[u])
           Goal == Calm /\ \A u \in Thread : OK(u)
<1> USE ReaderIsThread
<1>1. /\ ~is_open /\ \A t \in Thread : Waiting(pc[t], ret[t], call[t])
      /\ \A t \in Thread : Stage(pc[t], call[t]) /\ Place(t, pc[t], ret[t], call[t])
      /\ \A t \in Thread : call[t] = "destroy" => pc[t] \in Destroying
      /\ call[Reader] # "destroy" /\ pc[Reader] \in {"off", "start"}
  BY ReaderApart DEF BeginInv, NotYet, ThreadInv, Inv, CallInv, PlaceInv, DestroyInv, Waiting, Place
<1>2. ASSUME NEW t \in Thread, Others(t), OK(t) PROVE \A u \in Thread : OK(u)
  BY <1>1, <1>2 DEF Others, Still
<1>3. UNCHANGED <<flags, net>> => Calm
  BY <1>1, SMT DEF flags, net
<1>4. ASSUME NEW t \in Thread, Calls(t) PROVE Goal
  <2>1. pc[t] \notin Callback
    BY <1>1 DEF Waiting, Callback, Destroying
  <2>2. CASE Enter(t, "start", "start")
    <3>1. pc[t] = "idle"
      BY <2>1, <2>2, CallsFrom DEF Enter
    <3>2. OK(t)
      BY <2>2, <3>1 DEF Enter, Waiting
    <3> QED
      BY <1>2, <1>3, <1>4, <2>2, <3>2 DEF Calls, Enter
  <2>3. CASE Turn(t, "idle", "destroy", "shut_open")
    <3>1. OK(t)
      BY <1>1, <2>3 DEF Turn, Waiting
    <3> QED
      BY <1>2, <1>3, <1>4, <2>3, <3>1 DEF Calls, Turn
  <2> QED
    BY <1>1, <1>4, <2>1, <2>2, <2>3 DEF Calls, Turn, Callback
<1>5. ASSUME NEW t \in Thread, NEW to, Jump(t, "join", to) \/ Jump(t, "join_wait", to)
                 \/ Jump(t, "joined", to) \/ Jump(t, "shut_sock", to) \/ Jump(t, "shut_open", to)
      PROVE \A u \in Thread : OK(u)
  <2>1. OK(t)
    BY <1>1, <1>5 DEF Jump, Waiting
  <2> QED
    BY <1>2, <1>5, <2>1 DEF Jump
<1>6. ASSUME NEW t \in Thread, Passes(t) PROVE Goal
  <2>1. CASE Leave(t, "start")
    <3>1. OK(t)
      BY <1>1, <2>1 DEF Leave, Waiting, Place, ApiCall
    <3> QED
      BY <1>2, <1>3, <1>6, <2>1, <3>1 DEF Passes, Leave
  <2>2. ~Leave(t, "lock") /\ ~Jump(t, "assign", "aborted") /\ ~Jump(t, "spawn", "aborted")
    BY <1>1 DEF Leave, Jump, Waiting, Destroying
  <2> QED
    BY <1>1, <1>3, <1>5, <1>6, <2>1, <2>2 DEF Passes
<1>7. ~Reads /\ ~Releases
  BY <1>1 DEF Reads, Releases, Jump, Turn
<1>8. CASE Rests
  BY <1>1, <1>3, <1>8 DEF Rests
<1>9. ASSUME NEW t \in Thread
      PROVE  /\ ~Opens(t) /\ ~Claims(t) /\ ~Assigns(t) /\ ~Builds(t) /\ ~Built(t)
             /\ ~Locks(t) /\ ~Writes(t) /\ ~Marks(t) /\ ~Spawns(t) /\ ~Joins(t)
  BY <1>1 DEF Opens, Claims, Assigns, Builds, Built, Locks, Writes, Marks, Spawns, Joins,
              Jump, Leave, Waiting, Destroying
<1>10. ASSUME NEW t \in Thread PROVE ~Notifies(t)
  BY <1>1 DEF Notifies, Leave, Waiting, Destroying
<1>11. ASSUME NEW t \in Thread, LetsGo(t) PROVE Goal
  <2>1. reader_running = FALSE
    BY DEF BeginInv, NotYet, ThreadInv, Inv, TypeOK, FlagTypes
  <2> QED
    BY <1>1, <1>5, <1>11, <2>1 DEF LetsGo, net
<1>12. ASSUME NEW t \in Thread, Clears(t) \/ Shuts(t) PROVE Goal
  <2>1. Clears(t) => Calm
    BY SMTT(20) DEF Clears, net
  <2>2. Shuts(t) => Calm
    BY <1>1, SMT DEF Shuts, flags
  <2> QED
    BY <1>5, <1>12, <2>1, <2>2 DEF Clears, Shuts
<1>13. ASSUME NEW t \in Thread, Frees(t) PROVE Goal
  <2>1. OK(t)
    BY <1>1, <1>13 DEF Frees, Turn, Waiting
  <2> QED
    BY <1>1, <1>2, <1>13, <2>1 DEF Frees, Turn, net
<1> QED
  BY <1>4, <1>6, <1>7, <1>8, <1>9, <1>10, <1>11, <1>12, <1>13 DEF Step, Changes

(* While a thread is in connect() nobody else moves.                       *)
LEMMA WhileOpened ==
    ASSUME StartsInTurn, ThreadInv, BeginInv, NEW t \in Thread, pc[t] = "opened", Step
    PROVE  Opens(t) \/ Rests
<1> USE ReaderIsThread
<1>1. /\ ~is_open /\ t \in App /\ pc[Reader] = "off"
      /\ \A u \in Thread \ {t} : pc[u] \in {"idle", "off"}
  BY ReaderApart DEF BeginInv, NotYet, ThreadInv, PlaceInv, Place
<1>2. ASSUME NEW u \in Thread PROVE ~Connects(u)
  BY <1>1 DEF Connects
<1>3. ASSUME NEW u \in Thread PROVE ~Calls(u)
  <2>1. ASSUME NEW operation, NEW to, Enter(u, operation, to) PROVE u # t
    BY <2>1, CallsFrom DEF Enter, Callback
  <2>2. ~Turn(u, "on_open", "start", "start")
    BY <1>1 DEF Turn
  <2>3. ~(Enter(u, "start", "start") /\ pc[u] \in Starters)
    BY <1>1, <2>1, CallsFrom DEF Enter, Callback, StartsInTurn, SerialCalls
  <2> QED
    BY <1>1, <2>2, <2>3 DEF Calls
<1>4. ASSUME NEW u \in Thread PROVE ~Passes(u)
  BY <1>1 DEF Passes, Leave, Jump
<1>5. ~Reads /\ ~Releases
  BY <1>1 DEF Reads, Releases, Jump, Turn
<1>6. ASSUME NEW u \in Thread, Changes(u) PROVE u = t /\ Opens(u)
  BY <1>1, <1>6 DEF Changes, Opens, Claims, Spawns, Assigns, Builds, Built, Locks, Writes, Marks,
     Clears, Shuts, Joins, LetsGo, Notifies, Frees, Leave, Jump, Turn
<1> QED
  BY <1>2, <1>3, <1>4, <1>5, <1>6 DEF Step

(* Every step keeps it, as connect() is called once.                       *)
LEMMA StepBegin ==
    ASSUME StartsInTurn, MaxOpens = 1, ThreadInv, BeginInv, Step, ThreadInv'
    PROVE  BeginInv'
<1> USE ReaderIsThread
<1>1. ThreadTypes /\ opens \in Nat
  BY ConnectionAssumption, SMT DEF ThreadInv, Inv, TypeOK, SessionTypes
<1>2. CASE \E t \in Thread : Connects(t)
  <2>1. PICK t \in Thread : Connects(t)
    BY <1>2
  <2>2. opens = 0 /\ opens' = 1
    BY <1>1, <2>1, SMT DEF Connects
  <2>3. ~is_open /\ ~is_open' /\ ~reader_running' /\ closes = <<>>
    BY <2>1, <2>2 DEF BeginInv, NotYet, Connects, flags
  <2>4. \A u \in Thread \ {t} : pc[u] \in {"idle", "off"}
    <3>1. pc[Reader] = "off"
      BY <2>1, <2>2, ReaderApart, SMT
      DEF BeginInv, Waiting, Connects, ThreadInv, DestroyInv, PlaceInv, Place, ApiCall
    <3> QED
      BY <2>1, <3>1, ReaderApart DEF Connects
  <2>5. opens' # 0
    BY <2>2, SMT
  <2>6. CASE Jump(t, "idle", "opened") /\ closes' = <<>>
    BY <2>3, <2>4, <2>5, <2>6 DEF Jump, Others, Still, BeginInv
  <2>7. CASE \A u \in Thread : Still(u)
    <3>1. \A u \in Thread : pc'[u] # "opened"
      <4>1. \A u \in Thread : Waiting(pc[u], ret[u], call[u])
        BY <2>2 DEF BeginInv
      <4>2. \A u \in Thread : call[u] = "destroy" => pc[u] # "opened"
        BY DEF ThreadInv, DestroyInv, Destroying
      <4> QED
        BY <2>7, <4>1, <4>2 DEF Still, Waiting
    <3> QED
      BY <2>5, <3>1 DEF BeginInv, NotYet
  <2> QED
    BY <2>1, <2>6, <2>7 DEF Connects
<1>3. CASE \A t \in Thread : ~Connects(t)
  <2>1. /\ opens' = opens
        /\ \A u \in Thread : pc'[u] = "opened" => pc[u] = "opened"
    BY <1>1, <1>3, OnlyConnects
  <2>2. CASE opens = 0
    <3>1. /\ UNCHANGED <<reader_running, closes>> /\ ~is_open'
          /\ \A u \in Thread : Waiting(pc'[u], ret'[u], call'[u])
      BY <1>3, <2>2, BeforeConnect
    <3>2. \A u \in Thread : pc'[u] # "opened"
      BY <3>1 DEF Waiting, ThreadInv, DestroyInv, Destroying
    <3> QED
      BY <2>2, <3>1, <3>2 DEF BeginInv, NotYet
  <2>3. ASSUME opens # 0, NEW t \in Thread, pc[t] = "opened" PROVE BeginInv'
    <3>1. CASE Opens(t)
      <4>1. \A u \in Thread : pc'[u] # "opened"
        BY <2>3, <3>1 DEF BeginInv, Opens, Jump, Others, Still
      <4> QED
        BY <2>1, <2>3, <4>1 DEF BeginInv, NotYet
    <3>2. CASE Rests
      BY <3>2 DEF Rests, flags, net, BeginInv, NotYet
    <3> QED
      BY <2>3, <3>1, <3>2, WhileOpened
  <2>4. CASE ~NotYet
    BY <2>1, <2>4 DEF NotYet, BeginInv
  <2> QED
    BY <2>2, <2>3, <2>4 DEF NotYet
<1> QED
  BY <1>2, <1>3

-----------------------------------------------------------------------------
(* Closing.                                                                *)

(* The steps after is_open_ has been cleared.                              *)
Past == {"shut_sock", "join", "join_wait", "joined", "notify", "free"}

(* The steps after the socket has been shut down.                          *)
Shut(label, operation) ==
    \/ label \in {"join", "join_wait", "joined", "free"}
    \/ label = "notify" /\ operation # "echo"

(* on_close_ is called with is_open_ cleared, and with the socket closed   *)
(* or the reader out of the read.                                          *)
CloseInv ==
    /\ \A t \in Thread : pc[t] \in Past => ~is_open
    /\ closes # <<>> => ~is_open
    /\ \A t \in Thread : Shut(pc[t], call[t]) => sock = "closed"
    /\ closes # <<>> => sock = "closed" \/ pc[Reader] # "read"
    /\ pc[Reader] = "exited" => ~is_open \/ is_closing

(* A step that neither opens nor closes.                                   *)
LEMMA QuietClose ==
    ASSUME CloseInv, UNCHANGED <<is_open, sock, closes>>, is_closing => is_closing',
           \A u \in Thread :
              \/ Still(u)
              \/ /\ pc'[u] \in Past => pc[u] \in Past
                 /\ Shut(pc'[u], call'[u]) => Shut(pc[u], call[u])
                 /\ pc'[u] = "read" => is_open
                 /\ pc'[u] = "exited" => ~is_open \/ is_closing
    PROVE  CloseInv'
<1> USE ReaderIsThread DEF CloseInv, Still
<1>1. \A u \in Thread : pc'[u] \in Past => ~is_open'
  OBVIOUS
<1>2. \A u \in Thread : Shut(pc'[u], call'[u]) => sock' = "closed"
  OBVIOUS
<1>3. closes' # <<>> => sock' = "closed" \/ pc'[Reader] # "read"
  OBVIOUS
<1>4. pc'[Reader] = "exited" => ~is_open' \/ is_closing'
  OBVIOUS
<1> QED
  BY <1>1, <1>2, <1>3, <1>4

(* Every step keeps it.                                                    *)
LEMMA StepClose ==
    ASSUME MaxOpens = 1, ThreadInv, BeginInv, CloseInv, Step PROVE CloseInv'
<1> DEFINE Kept == UNCHANGED <<is_open, sock, closes>> /\ (is_closing => is_closing')
           Far(label) == label \notin Past \cup {"read", "exited"}
<1> USE ReaderIsThread
<1>1. ThreadTypes /\ CallInv /\ PlaceInv /\ opens \in Nat
  BY ConnectionAssumption, SMT DEF ThreadInv, Inv, TypeOK, SessionTypes
<1>2. ASSUME NEW t \in Thread, Others(t), Kept,
             /\ pc'[t] \in Past => pc[t] \in Past
             /\ Shut(pc'[t], call'[t]) => Shut(pc[t], call[t])
             /\ pc'[t] = "read" => is_open
             /\ pc'[t] = "exited" => ~is_open \/ is_closing
      PROVE  CloseInv'
  BY <1>2, QuietClose DEF Others
<1>3. ASSUME NEW t \in Thread, Others(t), Kept, Far(pc'[t]) PROVE CloseInv'
  BY <1>2, <1>3 DEF Past, Shut
<1>4. ASSUME NEW t \in Thread, NEW from, NEW to, Jump(t, from, to), Kept, Far(to)
      PROVE  CloseInv'
  BY <1>3, <1>4 DEF Jump
<1>5. ASSUME NEW t \in Thread, NEW from, Leave(t, from), Kept PROVE CloseInv'
  <2>1. Far(pc'[t])
    BY <1>1, <1>5, LeaveTo DEF Past, Callback
  <2> QED
    BY <1>3, <1>5, <2>1 DEF Leave
<1>6. ASSUME NEW t \in Thread, NEW from, NEW operation, NEW to,
             Turn(t, from, operation, to), Kept, Far(to)
      PROVE  CloseInv'
  BY <1>3, <1>6 DEF Turn
<1>7. ASSUME NEW t \in Thread, NEW operation, NEW to, Enter(t, operation, to), Kept, Far(to)
      PROVE  CloseInv'
  BY <1>3, <1>7 DEF Enter
<1>8. UNCHANGED <<flags, net>> => Kept
  BY SMT DEF flags, net
<1>9. ASSUME NEW t \in Thread, Calls(t) PROVE CloseInv'
  BY <1>6, <1>7, <1>8, <1>9 DEF Calls, Past
<1>10. ASSUME NEW t \in Thread, Passes(t) PROVE CloseInv'
  <2>1. CASE Jump(t, "join", AfterJoin(t)) \/ Jump(t, "join", "join_wait")
    BY <1>2, <1>8, <1>10, <2>1 DEF Passes, Jump, AfterJoin, Past, Shut
  <2> QED
    BY <1>4, <1>5, <1>8, <1>10, <2>1 DEF Passes, Past
<1>11. CASE Reads
  <2>1. CASE \/ Jump(Reader, "loop", "read") /\ is_open /\ ~is_closing
             \/ Jump(Reader, "loop", "exited") /\ (~is_open \/ is_closing)
    BY <1>2, <1>8, <1>11, <2>1 DEF Reads, Jump, Past, Shut
  <2> QED
    BY <1>4, <1>6, <1>8, <1>11, <2>1 DEF Reads, Past
<1>12. CASE Releases
  BY <1>6, <1>8, <1>12 DEF Releases, Past
<1>13. CASE Rests
  BY <1>8, <1>13, QuietClose DEF Rests, Still
<1>14. ASSUME NEW t \in Thread, Connects(t) PROVE CloseInv'
  <2>1. opens = 0
    BY <1>1, <1>14, SMT DEF Connects
  <2>2. /\ closes = <<>> /\ ~is_open'
        /\ \A u \in Thread : Waiting(pc[u], ret[u], call[u]) /\ (u = Reader => pc[u] # "read")
    BY <1>14, <2>1, ReaderApart
    DEF Connects, flags, BeginInv, NotYet, Waiting, ThreadInv, DestroyInv
  <2>3. closes' = <<>>
    BY <1>14, <2>2 DEF Connects
  <2>4. \A u \in Thread : ~Shut(pc'[u], call'[u])
    <3>1. \A u \in Thread : pc[u] \in {"idle", "off", "start"}
      BY <1>14, <2>2, ReaderApart DEF Connects, Waiting, ThreadInv, DestroyInv
    <3> QED
      BY <1>14, <3>1 DEF Connects, Jump, Others, Still, Shut
  <2> QED
    BY <2>2, <2>3, <2>4 DEF CloseInv
<1>15. ASSUME NEW t \in Thread, Opens(t) PROVE CloseInv'
  <2>1. \A u \in Thread : pc'[u] \in {"idle", "off", "on_open"}
    BY <1>15 DEF Opens, Jump, Others, Still, BeginInv
  <2>2. closes' = <<>>
    BY <1>15 DEF Opens, Jump, net, BeginInv, NotYet
  <2> QED
    BY <2>1, <2>2 DEF CloseInv, Past, Shut
<1>16. ASSUME NEW t \in Thread, Clears(t) PROVE CloseInv'
  <2>1. ~is_open' /\ UNCHANGED <<sock, closes>> /\ Others(t)
    BY <1>16 DEF Clears, Jump, net
  <2>2. ~Shut(pc'[t], call'[t]) /\ pc'[t] # "read"
    BY <1>16 DEF Clears, Jump, Shut
  <2> QED
    BY <2>1, <2>2 DEF CloseInv, Others, Still
<1>17. ASSUME NEW t \in Thread, Shuts(t) PROVE CloseInv'
  <2>1. sock' = "closed" /\ UNCHANGED <<is_open, is_closing, closes>> /\ ~is_open
    BY <1>17 DEF Shuts, Jump, flags, CloseInv, Past
  <2> QED
    BY <2>1 DEF CloseInv
<1>18. ASSUME NEW t \in Thread, Notifies(t) PROVE CloseInv'
  <2>1. /\ UNCHANGED <<is_open, is_closing, sock>> /\ ~is_open /\ Others(t)
        /\ pc'[t] \notin Past \cup {"read", "exited"}
    BY <1>1, <1>18, LeaveTo DEF Notifies, Leave, flags, CloseInv, Past, Callback
  <2>2. sock = "closed" \/ t = Reader
    BY <1>1, <1>18, ReaderApart DEF Notifies, Leave, PlaceInv, Place, CloseInv, Shut
  <2> QED
    BY <2>1, <2>2 DEF CloseInv, Others, Still, Past, Shut
<1>19. ASSUME NEW t \in Thread, Claims(t) \/ Assigns(t) \/ Builds(t) \/ Built(t)
                  \/ Locks(t) \/ Writes(t)
       PROVE  CloseInv'
  <2>1. CASE Claims(t) \/ Assigns(t)
    BY <1>4, <1>5, <2>1, SMT DEF Claims, Assigns, Past, net
  <2>2. CASE Builds(t) \/ Built(t) \/ Locks(t)
    BY <1>4, <1>8, <2>2 DEF Builds, Built, Locks, Past
  <2>3. CASE Writes(t)
    BY <1>4, <1>5, <1>8, <2>3 DEF Writes, Past
  <2> QED
    BY <1>19, <2>1, <2>2, <2>3
<1>20. ASSUME NEW t \in Thread, Marks(t) \/ Frees(t) PROVE CloseInv'
  BY <1>4, <1>6, <1>20, SMT DEF Marks, Frees, Past, net
<1>21. ASSUME NEW t \in Thread, LetsGo(t) PROVE CloseInv'
  BY <1>2, <1>21 DEF LetsGo, Jump, AfterJoin, Past, Shut, net
<1>22. ASSUME NEW t \in Thread, Spawns(t) \/ Joins(t) PROVE CloseInv'
  <2>1. Kept /\ call' = call
    BY <1>22, SMT DEF Spawns, Joins, flags, net
  <2>2. ASSUME NEW u \in Thread
        PROVE  \/ Still(u)
               \/ pc'[u] \in {"assign", "loop", "off"}
               \/ pc[u] = "join_wait" /\ pc'[u] = "joined"
    BY <1>22 DEF Spawns, Joins, Still
  <2> QED
    BY <2>1, <2>2, QuietClose DEF Past, Shut
<1> QED
  BY <1>9, <1>10, <1>11, <1>12, <1>13, <1>14, <1>15, <1>16, <1>17, <1>18, <1>19, <1>20,
     <1>21, <1>22
  DEF Step, Changes

-----------------------------------------------------------------------------
(* Serving.                                                                *)

(* is_open_ without reader_running_ is the business of a thread that is    *)
(* still opening, and reader_running_ is set for a reader, or for a thread *)
(* that has it in its hands.                                               *)
ServeInv ==
    /\ is_open /\ ~reader_running => \E t \in Thread : Opening(t)
    /\ reader_running => pc[Reader] # "off" \/ \E t \in Thread : pc[t] \in Holding

(* A step of t that neither starts nor stops the reader.                   *)
LEMMA QuietServe ==
    ASSUME ServeInv, UNCHANGED <<is_open, reader_running>>, NEW t \in Thread, Others(t),
           pc[t] \notin Holding, pc'[t] # "off",
           is_open /\ ~reader_running /\ Opening(t) => Opening(t)'
    PROVE  ServeInv'
<1> USE ReaderIsThread
<1>1. CASE is_open /\ ~reader_running
  <2>1. PICK u \in Thread : Opening(u)
    BY <1>1 DEF ServeInv
  <2>2. Opening(u)'
    BY <1>1, <2>1 DEF Others, Still, Opening
  <2> QED
    BY <1>1, <2>2 DEF ServeInv
<1>2. CASE reader_running
  BY <1>2 DEF ServeInv, Others, Still
<1>3. CASE ~is_open /\ ~reader_running
  BY <1>3 DEF ServeInv
<1> QED
  BY <1>1, <1>2, <1>3

(* Every step keeps it.                                                    *)
LEMMA StepServe ==
    ASSUME ThreadInv, RunInv, CloseInv, ServeInv, Step PROVE ServeInv'
<1> DEFINE Kept == UNCHANGED <<is_open, reader_running>>
<1> USE ReaderIsThread
<1>1. ThreadTypes /\ LifeInv /\ \A t \in Thread : Place(t, pc[t], ret[t], call[t])
  BY DEF ThreadInv, Inv, TypeOK, PlaceInv
<1>2. ASSUME NEW t \in Thread, NEW from, NEW to, Jump(t, from, to), Kept,
             from \notin Open \cup Holding, to # "off"
      PROVE  ServeInv'
  BY <1>2, QuietServe DEF Jump, Opening, Open
<1>3. ASSUME NEW t \in Thread, NEW from, Leave(t, from), Kept, from \notin Open \cup Holding
      PROVE  ServeInv'
  <2>1. Opening(t) => Opening(t)'
    BY <1>1, <1>3 DEF Leave, Opening, Open, Place
  <2>2. pc'[t] # "off"
    BY <1>1, <1>3, LeaveTo DEF Callback
  <2> QED
    BY <1>3, <2>1, <2>2, QuietServe DEF Leave
<1>4. ASSUME NEW t \in Thread, NEW from, NEW operation, NEW to,
             Turn(t, from, operation, to), Kept, from \notin Open \cup Holding, to # "off"
      PROVE  ServeInv'
  BY <1>4, QuietServe DEF Turn, Opening, Open
<1>5. ASSUME NEW t \in Thread, NEW operation, NEW to, Enter(t, operation, to), Kept, to # "off"
      PROVE  ServeInv'
  <2>1. pc[t] \in {"idle"} \cup Callback
    BY <1>5, CallsFrom DEF Enter
  <2>2. Opening(t) => Opening(t)'
    BY <1>1, <1>5, <2>1 DEF Enter, Opening, Place, Callback, ApiCall, Sending
  <2> QED
    BY <1>5, <2>1, <2>2, QuietServe DEF Enter, Holding, Callback
<1>6. UNCHANGED flags => Kept
  BY DEF flags
<1>7. ASSUME NEW t \in Thread, Calls(t) PROVE ServeInv'
  <2>1. CASE Turn(t, "on_open", "start", "start")
    BY <1>6, <1>7, <2>1, QuietServe DEF Calls, Turn, Opening, Holding
  <2> QED
    BY <1>4, <1>5, <1>6, <1>7, <2>1 DEF Calls, Open, Holding
<1>8. ASSUME NEW t \in Thread, Connects(t) PROVE ServeInv'
  <2>1. CASE Jump(t, "idle", "opened")
    BY <1>2, <1>6, <1>8, <2>1 DEF Connects, Open, Holding
  <2>2. CASE \A u \in Thread : Still(u)
    BY <1>6, <1>8, <2>2, SMT DEF Connects, Still, ServeInv, Opening
  <2> QED
    BY <1>8, <2>1, <2>2 DEF Connects
<1>9. ASSUME NEW t \in Thread, Passes(t) PROVE ServeInv'
  <2>1. CASE Leave(t, "start") /\ (~is_open \/ reader_running)
    <3>1. pc'[t] # "off"
      BY <1>1, <2>1, LeaveTo DEF Callback
    <3> QED
      BY <1>6, <1>9, <2>1, <3>1, QuietServe DEF Passes, Leave, Holding
  <2>2. /\ ~Jump(t, "assign", "aborted") \/ reader_thread # "joinable"
        /\ ~Jump(t, "spawn", "aborted") \/ pc[Reader] = "off"
    BY <1>1 DEF Jump, LifeInv, RunInv
  <2>3. CASE Jump(t, "start", "claim")
    BY <1>6, <1>9, <2>3, QuietServe DEF Passes, Jump, Opening, Holding
  <2> QED
    BY <1>2, <1>3, <1>6, <1>9, <2>1, <2>2, <2>3 DEF Passes, AfterJoin, Open, Holding
<1>10. CASE Reads \/ Releases
  BY <1>2, <1>4, <1>6, <1>10 DEF Reads, Releases, Open, Holding
<1>11. CASE Rests
  BY <1>6, <1>11, SMT DEF Rests, ServeInv, Opening
<1>12. ASSUME NEW t \in Thread, Opens(t) PROVE ServeInv'
  <2>1. Opening(t)' /\ UNCHANGED reader_running
    BY <1>12 DEF Opens, Jump, Opening
  <2>2. pc[t] = "opened" /\ \A u \in Thread : pc'[u] = pc[u] \/ (u = t /\ pc'[u] = "on_open")
    BY <1>12, SMT DEF Opens, Jump, Others, Still
  <2>3. reader_running => pc'[Reader] # "off" \/ \E u \in Thread : pc'[u] \in Holding
    <3>1. ASSUME NEW u \in Thread, pc[u] \in Holding PROVE pc'[u] \in Holding
      BY <2>2, <3>1 DEF Holding
    <3> QED
      BY <2>2, <3>1 DEF ServeInv
  <2> QED
    BY <2>1, <2>3 DEF ServeInv
<1>13. ASSUME NEW t \in Thread, Claims(t) PROVE ServeInv'
  BY <1>13 DEF Claims, Jump, ServeInv, Holding
<1>14. ASSUME NEW t \in Thread, Spawns(t) PROVE ServeInv'
  <2>1. reader_running
    BY <1>14 DEF Spawns, RunInv, Holding
  <2> QED
    BY <1>6, <1>14, <2>1 DEF Spawns, ServeInv
<1>15. ASSUME NEW t \in Thread, Assigns(t) PROVE ServeInv'
  <2>1. reader_running /\ t # Reader /\ pc[Reader] # "off"
    BY <1>1, <1>15 DEF Assigns, Leave, LifeInv, RunInv, Holding
  <2> QED
    BY <1>15, <2>1 DEF Assigns, Leave, Others, Still, ServeInv
<1>16. ASSUME NEW t \in Thread, Builds(t) \/ Built(t) \/ Locks(t) \/ Writes(t) \/ Marks(t)
       PROVE  ServeInv'
  BY <1>2, <1>3, <1>6, <1>16 DEF Builds, Built, Locks, Writes, Marks, Open, Holding
<1>17. ASSUME NEW t \in Thread, Shuts(t) \/ Notifies(t) \/ Frees(t) PROVE ServeInv'
  BY <1>2, <1>3, <1>4, <1>6, <1>17 DEF Shuts, Notifies, Frees, Open, Holding
<1>18. ASSUME NEW t \in Thread, Clears(t) PROVE ServeInv'
  <2>1. ~is_open' /\ UNCHANGED reader_running
    BY <1>18 DEF Clears
  <2>2. pc[t] = "shut_open" /\ pc'[t] # "off" /\ Others(t)
    BY <1>18 DEF Clears, Jump
  <2> QED
    BY <2>1, <2>2 DEF ServeInv, Others, Still, Holding
<1>19. ASSUME NEW t \in Thread, Joins(t) PROVE ServeInv'
  <2>1. reader_running
    BY <1>19 DEF Joins, RunInv
  <2> QED
    BY <1>19, <2>1 DEF Joins, ServeInv, Holding
<1>20. ASSUME NEW t \in Thread, LetsGo(t) PROVE ServeInv'
  BY <1>20 DEF LetsGo, Jump, CloseInv, Past, ServeInv
<1> QED
  BY <1>7, <1>8, <1>9, <1>10, <1>11, <1>12, <1>13, <1>14, <1>15, <1>16, <1>17, <1>18, <1>19,
     <1>20
  DEF Step, Changes

(* The invariants of an object that connects once.                         *)
SessionInv == ThreadInv /\ OneOpener /\ RunInv /\ BeginInv /\ CloseInv /\ ServeInv

(* They hold when the object has been constructed.                         *)
LEMMA InitSession == ASSUME Init PROVE SessionInv
<1>1. /\ ~is_open /\ ~reader_running /\ closes = <<>>
      /\ \A t \in Thread : pc[t] \in {"off", "idle"} /\ ret[t] = "idle"
  BY DEF Init
<1>2. BeginInv
  BY <1>1 DEF BeginInv, Waiting
<1>3. CloseInv
  BY <1>1, ReaderIsThread DEF CloseInv, Past, Shut
<1>4. ServeInv
  BY <1>1 DEF ServeInv
<1> QED
  BY <1>2, <1>3, <1>4, InitStart DEF SessionInv, StartInv

(* Every step keeps them.                                                  *)
LEMMA NextSession ==
    ASSUME StartsInTurn, MaxOpens = 1, SessionInv, [Next]_vars PROVE SessionInv' /\ Step
<1>1. StartInv' /\ Step
  BY NextStart DEF SessionInv, StartInv
<1>2. BeginInv' /\ CloseInv' /\ ServeInv'
  BY <1>1, StepBegin, StepClose, StepServe DEF SessionInv, StartInv
<1> QED
  BY <1>1, <1>2 DEF SessionInv, StartInv

-----------------------------------------------------------------------------
(* For any number of application threads, callbacks and calls, when the    *)
(* object connects once and starts do not overlap: while the connection is *)
(* open, nobody is closing it and no thread is still opening it, the       *)
(* reader thread is there to read the next frame.                          *)
THEOREM ReaderServesOneSession ==
    ASSUME StartsInTurn, MaxOpens = 1 PROVE Spec => []ReaderServes
<1>1. Init => SessionInv
  BY InitSession
<1>2. SessionInv /\ [Next]_vars => SessionInv'
  BY NextSession
<1>3. SessionInv => ReaderServes
  <2> SUFFICES ASSUME SessionInv, is_open, ~is_closing, \A t \in Thread : ~Opening(t)
               PROVE  pc[Reader] \notin {"off", "exited"}
    BY DEF ReaderServes
  <2>1. \A t \in Thread : pc[t] \notin Holding
    BY DEF SessionInv, CloseInv, Past, Opening, Holding
  <2> QED
    BY <2>1 DEF SessionInv, ServeInv, CloseInv
<1> QED
  BY <1>1, <1>2, <1>3, PTL DEF Spec

-----------------------------------------------------------------------------
(* close() on an application thread: when it gets to on_close_ the reader  *)
(* has ended, or was never started.                                        *)

NotifyInv ==
    /\ \A t \in App : call[t] = "close" => t \in Active \/ ret[t] = "on_open"
    /\ \A t \in App : pc[t] = "notify" => pc[Reader] = "off"
    /\ closes # <<>> => pc[Reader] # "deliver"

(* While an application thread is in close() no other one opens.           *)
LEMMA NobodyOpens ==
    ASSUME SerialCalls, OneOpener, NotifyInv, NEW t \in App, call[t] = "close",
           NEW u \in App, Opening(u)
    PROVE  u = t
<1>1. CASE t \in Active
  BY <1>1 DEF SerialCalls
<1>2. CASE ret[t] = "on_open"
  BY <1>2 DEF OneOpener, Opening
<1> QED
  BY <1>1, <1>2 DEF NotifyInv

(* A step that starts no reader and does not call on_close_.               *)
LEMMA QuietNotify ==
    ASSUME NotifyInv, closes' = closes, NEW t \in Thread, Others(t), pc[t] # "off",
           t \in App => /\ call'[t] = "close" => t \in Active \/ ret'[t] = "on_open"
                        /\ pc'[t] = "notify" => pc[Reader] = "off",
           t = Reader /\ pc'[t] = "deliver" => closes = <<>>
    PROVE  NotifyInv'
<1> USE ReaderApart DEF Others, Still
<1>1. pc'[Reader] = "off" \/ pc[Reader] # "off"
  OBVIOUS
<1>2. \A u \in App : call'[u] = "close" => u \in Active \/ ret'[u] = "on_open"
  BY DEF NotifyInv
<1>3. \A u \in App : pc'[u] = "notify" => pc'[Reader] = "off"
  BY DEF NotifyInv
<1>4. closes' # <<>> => pc'[Reader] # "deliver"
  BY DEF NotifyInv
<1> QED
  BY <1>2, <1>3, <1>4 DEF NotifyInv

(* Every step keeps it.                                                    *)
LEMMA StepNotify ==
    ASSUME SerialCalls, SessionInv, NotifyInv, Step PROVE NotifyInv'
<1> DEFINE Kept == closes' = closes
<1> USE ReaderIsThread
<1>1. /\ ThreadTypes /\ LifeInv /\ RunInv /\ OneOpener
      /\ \A t \in Thread : Place(t, pc[t], ret[t], call[t]) /\ Stage(pc[t], call[t])
      /\ closes # <<>> => sock = "closed" \/ pc[Reader] # "read"
  BY DEF SessionInv, ThreadInv, Inv, TypeOK, PlaceInv, CallInv, CloseInv
<1>2. UNCHANGED net => Kept
  BY DEF net
<1>3. ASSUME NEW t \in Thread, NEW from, NEW to, Jump(t, from, to), Kept, from # "off",
             to \notin {"notify", "deliver"}
      PROVE  NotifyInv'
  BY <1>3, QuietNotify DEF Jump, NotifyInv
<1>4. ASSUME NEW t \in Thread, NEW from, Leave(t, from) PROVE pc'[t] \notin {"notify", "deliver"}
  BY <1>1, <1>4, LeaveTo DEF Callback
<1>5. ASSUME NEW t \in Thread, NEW from, Leave(t, from), Kept, from # "off" PROVE NotifyInv'
  BY <1>4, <1>5, QuietNotify DEF Leave
<1>6. ASSUME NEW t \in Thread, NEW from, NEW operation, NEW to, Turn(t, from, operation, to),
             Kept, from # "off", operation # "close", to \notin {"notify", "deliver"}
      PROVE  NotifyInv'
  BY <1>6, QuietNotify DEF Turn
<1>7. ASSUME NEW t \in Thread, t \in App, call[t] = "close", reader_thread = "none",
             pc[t] # "assign"
      PROVE  pc[Reader] = "off"
  <2>1. ASSUME NEW u \in Thread, pc[u] = "assign" PROVE FALSE
    <3>1. u \in App /\ Opening(u)
      BY <1>1, <2>1, ReaderApart DEF LifeInv, Opening
    <3> QED
      BY <1>1, <1>7, <2>1, <3>1, NobodyOpens
  <2> QED
    BY <1>1, <1>7, <2>1 DEF LifeInv
<1>8. ASSUME NEW t \in Thread, Calls(t) PROVE NotifyInv'
  <2>1. ASSUME NEW operation, NEW to \in {"start", "build", "mark"}, Enter(t, operation, to)
        PROVE  NotifyInv'
    <3>1. (pc[t] = "idle" /\ t \in Active) \/ pc[t] \in Callback
      BY <2>1, CallsFrom DEF Enter
    <3>2. t \in App => t \in Active \/ ret'[t] = "on_open"
      BY <1>1, <2>1, <3>1 DEF Enter, Place
    <3> QED
      BY <1>2, <1>8, <2>1, <3>1, <3>2, QuietNotify DEF Calls, Enter, Callback
  <2> QED
    BY <1>2, <1>6, <1>8, <2>1, SMT DEF Calls
<1>9. ASSUME NEW t \in Thread, Connects(t) PROVE NotifyInv'
  <2>1. CASE Jump(t, "idle", "opened") /\ closes' = <<>>
    <3>1. \A u \in App : pc'[u] # "notify" /\ (call'[u] = "close" => call[u] = "close")
      BY <1>9, <2>1, ReaderApart DEF Connects, Jump, Others, Still
    <3>2. ret'[t] = ret[t] /\ \A u \in App \ {t} : ret'[u] = ret[u]
      BY <2>1, ReaderApart DEF Jump, Others, Still
    <3> QED
      BY <2>1, <3>1, <3>2 DEF NotifyInv
  <2>2. CASE (\A u \in Thread : Still(u)) /\ Kept
    BY <2>2, ReaderApart DEF Still, NotifyInv
  <2> QED
    BY <1>9, <2>1, <2>2 DEF Connects
<1>10. ASSUME NEW t \in Thread, Passes(t) PROVE NotifyInv'
  <2>1. CASE Jump(t, "join", AfterJoin(t)) /\ (reader_thread = "none" \/ t = Reader)
    <3>1. call'[t] = call[t] /\ ret'[t] = ret[t] /\ pc'[t] = AfterJoin(t) /\ pc[t] = "join"
      BY <2>1 DEF Jump
    <3>2. AfterJoin(t) # "deliver" /\ (AfterJoin(t) = "notify" => call[t] = "close")
      BY <1>1, <3>1 DEF AfterJoin, Stage, Closer
    <3>3. t \in App /\ pc'[t] = "notify" => pc[Reader] = "off"
      BY <1>7, <2>1, <3>1, <3>2, ReaderApart
    <3> QED
      BY <1>2, <1>10, <2>1, <3>1, <3>2, <3>3, QuietNotify DEF Passes, Jump, NotifyInv
  <2> QED
    BY <1>2, <1>3, <1>5, <1>10, <2>1 DEF Passes
<1>11. CASE Reads
  <2>1. CASE Turn(Reader, "read", "none", "deliver") /\ sock = "open"
    BY <1>1, <1>2, <1>11, <2>1, QuietNotify, ReaderApart DEF Reads, Turn
  <2> QED
    BY <1>2, <1>3, <1>6, <1>11, <2>1, SMT DEF Reads
<1>12. CASE Releases
  BY <1>2, <1>6, <1>12, SMT DEF Releases
<1>13. CASE Rests
  BY <1>2, <1>13 DEF Rests, NotifyInv
<1>14. ASSUME NEW t \in Thread, Opens(t) \/ Claims(t) \/ Assigns(t) \/ Builds(t) \/ Built(t)
                  \/ Locks(t) \/ Writes(t)
       PROVE  NotifyInv'
  BY <1>2, <1>3, <1>5, <1>14 DEF Opens, Claims, Assigns, Builds, Built, Locks, Writes
<1>15. ASSUME NEW t \in Thread, Marks(t) \/ Frees(t) PROVE NotifyInv'
  BY <1>2, <1>3, <1>6, <1>15, SMT DEF Marks, Frees
<1>16. ASSUME NEW t \in Thread, Clears(t) \/ Shuts(t) PROVE NotifyInv'
  <2>1. call'[t] = call[t] /\ ret'[t] = ret[t] /\ pc[t] # "off" /\ Others(t) /\ Kept
    BY <1>2, <1>16 DEF Clears, Shuts, Jump
  <2>2. pc'[t] # "deliver" /\ (pc'[t] = "notify" => call[t] \in {"echo", "fail"})
    BY <1>16 DEF Clears, Shuts, Jump
  <2>3. t \in App => call[t] \notin {"echo", "fail"}
    BY <1>1 DEF Place
  <2> QED
    BY <2>1, <2>2, <2>3, QuietNotify DEF NotifyInv
<1>17. ASSUME NEW t \in Thread, LetsGo(t) PROVE NotifyInv'
  <2>1. /\ call'[t] = call[t] /\ ret'[t] = ret[t] /\ pc[t] = "joined" /\ Others(t) /\ Kept
        /\ pc'[t] # "deliver"
    BY <1>2, <1>17 DEF LetsGo, Jump, AfterJoin
  <2>2. pc[Reader] = "off"
    BY <1>1, <2>1 DEF RunInv
  <2> QED
    BY <2>1, <2>2, QuietNotify DEF NotifyInv
<1>18. ASSUME NEW t \in Thread, Spawns(t) PROVE NotifyInv'
  <2>1. t \in App /\ Opening(t) /\ Kept /\ UNCHANGED <<call, ret>> /\ pc'[Reader] = "loop"
    BY <1>2, <1>18, ReaderApart DEF Spawns, Opening
  <2>2. ASSUME NEW u \in App, pc[u] = "notify" PROVE FALSE
    <3>1. call[u] = "close"
      BY <1>1, <2>2, ReaderApart DEF Stage, Place, Closer
    <3> QED
      BY <1>1, <1>18, <2>1, <2>2, <3>1, NobodyOpens DEF Spawns
  <2>3. \A u \in App : pc'[u] # "notify"
    BY <1>18, <2>2, ReaderApart DEF Spawns
  <2> QED
    BY <2>1, <2>3 DEF NotifyInv
<1>19. ASSUME NEW t \in Thread, Joins(t) PROVE NotifyInv'
  <2>1. Kept /\ UNCHANGED <<call, ret>> /\ pc'[Reader] = "off"
    BY <1>2, <1>19 DEF Joins
  <2> QED
    BY <2>1 DEF NotifyInv
<1>20. ASSUME NEW t \in Thread, Notifies(t) PROVE NotifyInv'
  <2>1. pc[t] = "notify" /\ Others(t) /\ call'[t] = "none" /\ pc'[t] \notin {"notify", "deliver"}
    BY <1>4, <1>20 DEF Notifies, Leave
  <2>2. pc'[Reader] # "deliver"
    BY <2>1, ReaderApart DEF NotifyInv, Others, Still
  <2>3. \A u \in App : pc'[u] = "notify" => pc'[Reader] = "off"
    BY <2>1, ReaderApart DEF NotifyInv, Others, Still
  <2> QED
    BY <2>1, <2>2, <2>3, ReaderApart DEF NotifyInv, Others, Still
<1> QED
  BY <1>8, <1>9, <1>10, <1>11, <1>12, <1>13, <1>14, <1>15, <1>16, <1>17, <1>18, <1>19, <1>20
  DEF Step, Changes

(* Likewise when the application calls close() from callbacks, or has one  *)
(* thread: once on_close_ has been called on_message_ is not called any    *)
(* more.  handle_close_frame and fail_with_close run on the reader, and    *)
(* close() on the application's thread has joined it.  Without the         *)
(* hypothesis it is not so: a second thread's close() that comes before    *)
(* reader_thread_ is assigned finds nothing to join, and calls on_close_   *)
(* while the reader may have a message in its hands.                       *)
THEOREM NoMessageAfterCloseOneSession ==
    ASSUME SerialCalls, MaxOpens = 1 PROVE Spec => NoMessageAfterClose
<1> DEFINE Kept == Len(closes) > 0 /\ closes' # <<>> => delivered' = delivered
           All == SessionInv /\ NotifyInv
<1>1. Init => All
  <2> SUFFICES ASSUME Init PROVE NotifyInv
    BY InitSession
  <2>1. \A t \in Thread : call[t] = "none" /\ pc[t] \in {"off", "idle"}
    BY DEF Init
  <2> QED
    BY <2>1, ReaderApart DEF NotifyInv
<1>2. All /\ [Next]_vars => All' /\ [Kept]_vars
  <2> SUFFICES ASSUME All, [Next]_vars PROVE All' /\ Kept
    OBVIOUS
  <2>1. SessionInv' /\ Step
    BY NextSession DEF StartsInTurn
  <2>2. NotifyInv'
    BY <2>1, StepNotify
  <2>3. Len(closes) > 0 => pc[Reader] # "deliver"
    BY SMT DEF SessionInv, ThreadInv, Inv, TypeOK, SessionTypes, NotifyInv
  <2>4. CASE Reads
    BY <2>1, <2>2, <2>3, <2>4 DEF Reads, Turn
  <2>5. ASSUME NEW t \in Thread, Connects(t) PROVE closes' = <<>> \/ delivered' = delivered
    BY <2>5 DEF Connects
  <2>6. ASSUME NEW t \in Thread, Calls(t) \/ Passes(t) PROVE delivered' = delivered
    BY <2>6 DEF Calls, Passes
  <2>7. CASE Releases \/ Rests
    BY <2>1, <2>2, <2>7 DEF Releases, Rests
  <2>8. ASSUME NEW t \in Thread, Changes(t) PROVE delivered' = delivered
    BY <2>8
    DEF Changes, Opens, Claims, Spawns, Assigns, Builds, Built, Locks, Writes, Marks, Clears,
        Shuts, Joins, LetsGo, Notifies, Frees
  <2> QED
    BY <2>1, <2>2, <2>4, <2>5, <2>6, <2>7, <2>8 DEF Step
<1> QED
  BY <1>1, <1>2, PTL DEF Spec, NoMessageAfterClose

-----------------------------------------------------------------------------
(* An application that calls send and close from callbacks only, and       *)
(* leaves the start of the reader to connect().                            *)

CallsFromCallbacks == Active = {} /\ Starters = {}

(* At most one application thread is in the object, and it sends, if it    *)
(* does, in on_open, before there is a reader.                             *)
AloneInv ==
    /\ \A t, u \in App : pc[t] # "idle" /\ pc[u] # "idle" => t = u
    /\ \A t \in App :
          pc[t] \in {"opened", "on_open"} \/ call[t] \in {"send", "close"} => ~reader_running
    /\ \A t \in App : /\ call[t] \in {"send", "close"} => ret[t] = "on_open"
                      /\ call[t] = "start" => ret[t] = "idle"

(* What one thread may be at, when the flag is reader_running_.            *)
Early(t, label, back, operation, running) ==
    t \in App =>
       /\ label \in {"opened", "on_open"} \/ operation \in {"send", "close"} => ~running
       /\ operation \in {"send", "close"} => back = "on_open"
       /\ operation = "start" => back = "idle"

(* A step of t, alone among the application threads.                       *)
LEMMA QuietAlone ==
    ASSUME AloneInv, NEW t \in Thread, Others(t), reader_running' => reader_running,
           t \in App /\ pc[t] = "idle" /\ pc'[t] # "idle" => \A u \in App : pc[u] = "idle",
           Early(t, pc'[t], ret'[t], call'[t], reader_running)
    PROVE  AloneInv'
<1> USE ReaderApart DEF Others, Still
<1>1. \A u, w \in App : pc'[u] # "idle" /\ pc'[w] # "idle" => u = w
  BY DEF AloneInv
<1>2. \A u \in App : Early(u, pc'[u], ret'[u], call'[u], reader_running)
  BY DEF AloneInv, Early
<1> QED
  BY <1>1, <1>2 DEF AloneInv, Early

(* Every step keeps it.                                                    *)
LEMMA StepAlone ==
    ASSUME CallsFromCallbacks, MaxOpens = 1, SessionInv, AloneInv, Step PROVE AloneInv'
<1> DEFINE Kept == reader_running' = reader_running
           OK(t) == Early(t, pc'[t], ret'[t], call'[t], reader_running)
<1> USE ReaderIsThread
<1>1. /\ ThreadTypes /\ RunInv /\ opens \in Nat
      /\ \A t \in Thread : Place(t, pc[t], ret[t], call[t]) /\ Stage(pc[t], call[t])
  BY ConnectionAssumption, SMT
  DEF SessionInv, ThreadInv, Inv, TypeOK, SessionTypes, PlaceInv, CallInv
<1>2. \A t \in Thread : Early(t, pc[t], ret[t], call[t], reader_running)
  BY DEF AloneInv, Early
<1>3. ASSUME NEW t \in Thread, NEW from, NEW to, Jump(t, from, to), Kept,
             from # "idle", to \notin {"opened", "on_open"}
      PROVE  AloneInv'
  BY <1>2, <1>3, QuietAlone DEF Jump, Early
<1>4. ASSUME NEW t \in Thread, NEW from, Leave(t, from), Kept, from # "idle" PROVE AloneInv'
  <2>1. OK(t)
    BY <1>1, <1>2, <1>4, ReaderApart DEF Leave, Early, ApiCall
  <2> QED
    BY <1>4, <2>1, QuietAlone DEF Leave
<1>5. ASSUME NEW from, NEW operation, NEW to, Turn(Reader, from, operation, to), Kept
      PROVE  AloneInv'
  BY <1>5, QuietAlone, ReaderApart DEF Turn, Early
<1>6. UNCHANGED flags => Kept
  BY DEF flags
<1>7. ASSUME NEW t \in Thread, Calls(t) PROVE AloneInv'
  <2>1. Kept
    BY <1>6, <1>7 DEF Calls
  <2>2. ASSUME NEW operation \in {"send", "close"}, NEW to \in {"build", "mark"},
               Enter(t, operation, to)
        PROVE  AloneInv'
    <3>1. pc[t] \in Callback
      BY <2>2, CallsFrom DEF Enter, CallsFromCallbacks
    <3>2. OK(t)
      BY <1>1, <1>2, <2>2, <3>1 DEF Enter, Early, Place
    <3>3. pc[t] # "idle"
      BY <3>1 DEF Callback
    <3> QED
      BY <2>1, <2>2, <3>2, <3>3, QuietAlone DEF Enter
  <2>3. CASE Turn(t, "on_open", "start", "start")
    <3>1. OK(t)
      BY <1>1, <2>3 DEF Turn, Early, Place, ApiCall, Sending
    <3> QED
      BY <2>1, <2>3, <3>1, QuietAlone DEF Turn
  <2>4. CASE Turn(t, "idle", "destroy", "shut_open") /\ \A u \in App : pc[u] = "idle"
    <3>1. OK(t)
      BY <2>4 DEF Turn, Early
    <3> QED
      BY <2>1, <2>4, <3>1, QuietAlone DEF Turn
  <2> QED
    BY <1>7, <2>2, <2>3, <2>4 DEF Calls, CallsFromCallbacks
<1>8. ASSUME NEW t \in Thread, Connects(t) PROVE AloneInv'
  <2>1. CASE Jump(t, "idle", "opened")
    <3>1. opens = 0
      BY <1>1, <1>8, SMT DEF Connects
    <3>2. ~reader_running
      BY <3>1 DEF SessionInv, BeginInv, NotYet
    <3>3. OK(t)
      BY <1>2, <2>1, <3>2 DEF Jump, Early
    <3>4. Kept /\ \A u \in App : pc[u] = "idle"
      BY <1>6, <1>8 DEF Connects
    <3> QED
      BY <2>1, <3>3, <3>4, QuietAlone DEF Jump
  <2>2. CASE \A u \in Thread : Still(u)
    <3>1. Kept
      BY <1>6, <1>8 DEF Connects
    <3> QED
      BY <2>2, <3>1, ReaderApart DEF Still, AloneInv
  <2> QED
    BY <1>8, <2>1, <2>2 DEF Connects
<1>9. ASSUME NEW t \in Thread, Passes(t) PROVE AloneInv'
  BY <1>3, <1>4, <1>6, <1>9 DEF Passes, AfterJoin
<1>10. CASE Reads \/ Releases
  BY <1>3, <1>5, <1>6, <1>10 DEF Reads, Releases
<1>11. CASE Rests
  <2>1. Kept /\ UNCHANGED <<pc, ret, call>>
    BY <1>6, <1>11 DEF Rests
  <2> QED
    BY <2>1 DEF AloneInv
<1>12. ASSUME NEW t \in Thread, Opens(t) PROVE AloneInv'
  <2>1. OK(t) /\ pc[t] # "idle"
    BY <1>2, <1>12 DEF Opens, Jump, Early
  <2> QED
    BY <1>12, <2>1, QuietAlone DEF Opens, Jump
<1>13. ASSUME NEW t \in Thread, Claims(t) PROVE AloneInv'
  <2>1. /\ pc[t] = "claim" /\ pc'[t] = "spawn" /\ call'[t] = "start" /\ ret'[t] = ret[t]
        /\ call[t] = "start" /\ t # Reader /\ Others(t)
    BY <1>1, <1>13 DEF Claims, Jump, RunInv, Place
  <2>2. \A u \in App \ {t} : pc[u] = "idle" /\ call[u] \notin ApiCall
    BY <1>1, <2>1, ReaderApart DEF AloneInv, Place, Sending
  <2>3. \A u \in App \ {t} : pc'[u] = "idle" /\ call'[u] \notin {"send", "close", "start"}
    BY <2>1, <2>2, ReaderApart DEF Others, Still, ApiCall
  <2>4. ret'[t] = "idle"
    BY <2>1, ReaderApart DEF AloneInv
  <2>5. \A u \in App : \/ u = t
                       \/ pc'[u] = "idle" /\ call'[u] \notin {"send", "close", "start"}
    BY <2>3
  <2>6. \A u, v \in App : pc'[u] # "idle" /\ pc'[v] # "idle" => u = v
    BY <2>5
  <2>7. \A u \in App : pc'[u] \notin {"opened", "on_open"} /\ call'[u] \notin {"send", "close"}
    BY <2>1, <2>5
  <2>8. \A u \in App : call'[u] = "start" => ret'[u] = "idle"
    BY <2>4, <2>5
  <2> QED
    BY <2>6, <2>7, <2>8 DEF AloneInv
<1>14. ASSUME NEW t \in Thread, Assigns(t) \/ Builds(t) \/ Built(t) \/ Locks(t) \/ Writes(t)
       PROVE  AloneInv'
  BY <1>3, <1>4, <1>6, <1>14 DEF Assigns, Builds, Built, Locks, Writes
<1>15. ASSUME NEW t \in Thread, Marks(t) \/ Clears(t) \/ Shuts(t) \/ Notifies(t)
       PROVE  AloneInv'
  BY <1>3, <1>4, <1>6, <1>15 DEF Marks, Clears, Shuts, Notifies
<1>16. ASSUME NEW t \in Thread, Spawns(t) \/ Joins(t) PROVE AloneInv'
  <2>1. call' = call /\ ret' = ret /\ Kept
    BY <1>6, <1>16 DEF Spawns, Joins
  <2>2. \A u \in App : \/ pc'[u] = pc[u]
                       \/ pc[u] # "idle" /\ pc'[u] \notin {"opened", "on_open"}
    BY <1>16, ReaderApart DEF Spawns, Joins
  <2> QED
    BY <2>1, <2>2 DEF AloneInv
<1>17. ASSUME NEW t \in Thread, LetsGo(t) PROVE AloneInv'
  <2>1. OK(t)
    BY <1>2, <1>17 DEF LetsGo, Jump, AfterJoin, Early
  <2> QED
    BY <1>17, <2>1, QuietAlone DEF LetsGo, Jump
<1>18. ASSUME NEW t \in Thread, Frees(t) PROVE AloneInv'
  <2>1. OK(t)
    BY <1>18 DEF Frees, Turn, Early
  <2> QED
    BY <1>18, <2>1, QuietAlone DEF Frees, Turn
<1> QED
  BY <1>7, <1>8, <1>9, <1>10, <1>11, <1>12, <1>13, <1>14, <1>15, <1>16, <1>17, <1>18
  DEF Step, Changes

(* The operations that send follow one another.                            *)
LEMMA OneSends ==
    ASSUME SessionInv, AloneInv, NEW t \in Thread, NEW u \in Thread,
           pc[t] \in Sending, pc[u] \in Sending
    PROVE  t = u
<1>1. ASSUME NEW a \in App, pc[a] \in Sending PROVE call[a] \in {"send", "close"}
  BY <1>1, ReaderApart
  DEF SessionInv, ThreadInv, Inv, CallInv, Stage, PlaceInv, Place, Sending, Closer, Guarded
<1>2. ASSUME NEW a \in App, pc[a] \in Sending PROVE pc[Reader] = "off"
  BY <1>1, <1>2 DEF AloneInv, SessionInv, RunInv
<1> QED
  BY <1>2, ReaderApart DEF AloneInv, Sending

(* outbound_frame_ holds the frame of the thread that has built one.       *)
BufferInv ==
    /\ \A t \in Thread : pc[t] = "building" => builder = t
    /\ \A t \in Thread : pc[t] \in {"lock", "write"} => outbound_frame = arg[t]
    /\ WireIntact

(* Every step keeps it.                                                    *)
LEMMA StepBuffer ==
    ASSUME SessionInv, AloneInv, BufferInv, Step PROVE BufferInv'
<1> DEFINE Kept == UNCHANGED <<outbound_frame, builder>> /\ (wire' = wire \/ wire' = <<>>)
           Far(label) == label \notin {"building", "lock", "write"}
<1> USE ReaderIsThread
<1>1. ThreadTypes /\ wire \in Seq(Write)
  BY SMT DEF SessionInv, ThreadInv, Inv, TypeOK, SessionTypes
<1>2. ASSUME Kept, \A u \in Thread : Still(u) \/ Far(pc'[u]) PROVE BufferInv'
  <2>1. WireIntact'
    BY <1>2, SMT DEF BufferInv, WireIntact
  <2> QED
    BY <1>2, <2>1 DEF BufferInv, Still
<1>3. ASSUME NEW t \in Thread, NEW from, NEW to, Jump(t, from, to), Kept, Far(to)
      PROVE  BufferInv'
  BY <1>2, <1>3 DEF Jump, Others
<1>4. ASSUME NEW t \in Thread, NEW from, Leave(t, from), Kept PROVE BufferInv'
  <2>1. Far(pc'[t])
    BY <1>1, <1>4, LeaveTo DEF Callback
  <2> QED
    BY <1>2, <1>4, <2>1 DEF Leave, Others
<1>5. ASSUME NEW t \in Thread, NEW from, NEW operation, NEW to,
             Turn(t, from, operation, to), Kept, Far(to)
      PROVE  BufferInv'
  BY <1>2, <1>5 DEF Turn, Others
<1>6. ASSUME NEW t \in Thread, NEW operation, NEW to, Enter(t, operation, to), Kept, Far(to)
      PROVE  BufferInv'
  BY <1>2, <1>6 DEF Enter, Others
<1>7. UNCHANGED out => Kept
  BY DEF out
<1>8. ASSUME NEW t \in Thread, Calls(t) PROVE BufferInv'
  BY <1>5, <1>6, <1>7, <1>8 DEF Calls
<1>9. ASSUME NEW t \in Thread, Connects(t) PROVE BufferInv'
  <2>1. CASE Jump(t, "idle", "opened") /\ wire' = <<>>
    BY <1>3, <1>9, <2>1 DEF Connects
  <2>2. CASE (\A u \in Thread : Still(u)) /\ wire' = wire
    BY <1>2, <1>9, <2>2 DEF Connects
  <2> QED
    BY <1>9, <2>1, <2>2 DEF Connects
<1>10. ASSUME NEW t \in Thread, Passes(t) PROVE BufferInv'
  BY <1>3, <1>4, <1>7, <1>10 DEF Passes, AfterJoin
<1>11. CASE Reads \/ Releases
  BY <1>3, <1>5, <1>7, <1>11 DEF Reads, Releases
<1>12. CASE Rests
  BY <1>2, <1>7, <1>12 DEF Rests, Still
<1>13. ASSUME NEW t \in Thread, Builds(t) PROVE BufferInv'
  <2>1. /\ builder' = t /\ pc'[t] = "building" /\ wire' = wire /\ Others(t)
        /\ \A u \in Thread \ {t} : pc[u] \notin Sending
    BY <1>13, OneSends DEF Builds, Jump, Sending
  <2>2. WireIntact'
    BY <2>1 DEF BufferInv, WireIntact
  <2> QED
    BY <2>1, <2>2 DEF BufferInv, Others, Still, Sending
<1>14. ASSUME NEW t \in Thread, Built(t) PROVE BufferInv'
  <2>1. /\ pc'[t] = "lock" /\ arg'[t] = arg[t] /\ wire' = wire /\ Others(t)
        /\ \A u \in Thread \ {t} : pc[u] \notin Sending
    BY <1>14, OneSends DEF Built, Jump, Sending
  <2>2. Undisturbed(t)
    BY <1>14, <2>1 DEF Built, Jump, Undisturbed, BufferInv, Sending
  <2>3. WireIntact'
    BY <2>1 DEF BufferInv, WireIntact
  <2> QED
    BY <1>14, <2>1, <2>2, <2>3 DEF Built, BufferInv, Others, Still, Sending
<1>15. ASSUME NEW t \in Thread, Locks(t) PROVE BufferInv'
  <2>1. /\ UNCHANGED <<outbound_frame, builder, wire>> /\ Others(t)
        /\ pc[t] = "lock" /\ pc'[t] = "write" /\ arg'[t] = arg[t]
    BY <1>15 DEF Locks, Jump
  <2> QED
    BY <2>1 DEF BufferInv, WireIntact, Others, Still
<1>16. ASSUME NEW t \in Thread, Writes(t) PROVE BufferInv'
  <2> DEFINE entry == [by |-> call[t], frame |-> outbound_frame, built |-> arg[t]]
  <2>1. /\ UNCHANGED <<outbound_frame, builder>> /\ Others(t) /\ pc[t] = "write"
        /\ pc'[t] \notin {"building", "lock", "write"}
    BY <1>1, <1>16, LeaveTo DEF Writes, Leave, Jump, Callback
  <2>2. WireIntact'
    <3>1. CASE wire' = wire
      BY <3>1 DEF BufferInv, WireIntact
    <3>2. CASE wire' = Append(wire, entry)
      <4>1. entry.frame = entry.built
        BY <2>1 DEF BufferInv
      <4> HIDE DEF entry
      <4>2. \A i \in DOMAIN wire' : (i \in DOMAIN wire /\ wire'[i] = wire[i]) \/ wire'[i] = entry
        BY <1>1, <3>2, AppendParts
      <4> QED
        BY <4>1, <4>2 DEF BufferInv, WireIntact
    <3> QED
      BY <1>16, <3>1, <3>2 DEF Writes
  <2> QED
    BY <2>1, <2>2 DEF BufferInv, Others, Still
<1>17. ASSUME NEW t \in Thread, Opens(t) \/ Claims(t) \/ Assigns(t) \/ Marks(t) \/ Clears(t)
       PROVE  BufferInv'
  BY <1>3, <1>4, <1>7, <1>17 DEF Opens, Claims, Assigns, Marks, Clears
<1>18. ASSUME NEW t \in Thread, Shuts(t) \/ LetsGo(t) \/ Notifies(t) \/ Frees(t)
       PROVE  BufferInv'
  BY <1>3, <1>4, <1>5, <1>7, <1>18 DEF Shuts, LetsGo, Notifies, Frees, AfterJoin
<1>19. ASSUME NEW t \in Thread, Spawns(t) \/ Joins(t) PROVE BufferInv'
  BY <1>2, <1>7, <1>19 DEF Spawns, Joins, Still
<1> QED
  BY <1>8, <1>9, <1>10, <1>11, <1>12, <1>13, <1>14, <1>15, <1>16, <1>17, <1>18, <1>19
  DEF Step, Changes

(* When the application calls the object from its callbacks only, every    *)
(* frame on the wire is the one its operation built, for any number of     *)
(* application threads: what keeps the shared outbound_frame_ whole is     *)
(* that on_open_ returns before the reader runs.                           *)
THEOREM WireIntactFromCallbacks ==
    ASSUME CallsFromCallbacks, MaxOpens = 1 PROVE Spec => []WireIntact
<1> DEFINE All == SessionInv /\ AloneInv /\ BufferInv
<1>1. Init => All
  <2> SUFFICES ASSUME Init PROVE All
    OBVIOUS
  <2>1. /\ \A t \in App : pc[t] = "idle" /\ call[t] = "none"
        /\ \A t \in Thread : pc[t] \in {"off", "idle"} /\ wire = <<>>
    BY ReaderApart DEF Init
  <2>2. AloneInv
    BY <2>1 DEF AloneInv
  <2>3. WireIntact
    BY SMT DEF Init, WireIntact
  <2> QED
    BY <2>1, <2>2, <2>3, InitSession DEF BufferInv
<1>2. All /\ [Next]_vars => All'
  <2> SUFFICES ASSUME All, [Next]_vars PROVE All'
    OBVIOUS
  <2>1. SessionInv' /\ Step
    BY NextSession DEF CallsFromCallbacks, StartsInTurn
  <2> QED
    BY <2>1, StepAlone, StepBuffer
<1>3. All => WireIntact
  BY DEF BufferInv
<1> QED
  BY <1>1, <1>2, <1>3, PTL DEF Spec

-----------------------------------------------------------------------------
(* on_close_ is called once.                                               *)

(* A thread at this step, in this operation, calls on_close_ no more.      *)
Over(label, operation) ==
    \/ label \in {"idle", "off", "on_open", "start", "assign", "loop", "exited", "on_message",
                  "on_error_read", "on_error_pong"}
    \/ label = "shut_open" /\ operation = "read_error"
    \/ operation = "destroy"

(* Once on_close_ has been called every thread is past its own call of it. *)
EndInv ==
    /\ Len(closes) <= 1
    /\ closes # <<>> => \A t \in Thread : Over(pc[t], call[t])
    /\ \A t \in Thread : ret[t] # "idle" => ret[t] \in CallbackCalls
    /\ \A t \in Thread : pc[t] = "aborted" => call[t] \in {"close", "destroy"}

(* The thread that is about to call on_close_ is the only one that can.    *)
LEMMA OneNotifies ==
    ASSUME SessionInv, AloneInv, EndInv, NEW t \in Thread, pc[t] = "notify",
           NEW u \in Thread, u # t
    PROVE  Over(pc[u], call[u])
<1>1. /\ ThreadTypes /\ RunInv /\ Stage(pc[t], call[t]) /\ Stage(pc[u], call[u])
      /\ Place(t, pc[t], ret[t], call[t]) /\ Place(u, pc[u], ret[u], call[u])
      /\ pc[u] = "free" => call[u] = "destroy"
  BY DEF SessionInv, ThreadInv, Inv, TypeOK, CallInv, PlaceInv, DestroyInv
<1>2. CASE t \in App
  <2>1. pc[Reader] = "off"
    BY <1>1, <1>2, ReaderApart DEF AloneInv, RunInv, Stage, Place, Closer
  <2> QED
    BY <1>2, <2>1, ReaderApart DEF AloneInv, Over
<1>3. CASE t = Reader
  <2>1. u \in App /\ reader_running /\ pc[u] \notin {"claim", "spawn"}
    BY <1>1, <1>3, ReaderApart DEF RunInv
  <2>2. pc[u] \notin {"opened", "on_open"} /\ call[u] \notin {"send", "close"}
    BY <2>1 DEF AloneInv
  <2>3. pc[u] = "aborted" => call[u] = "destroy"
    BY <2>2 DEF EndInv
  <2>4. call[u] \in {"none", "start", "destroy"}
    BY <1>1, <2>1, <2>2 DEF Place
  <2>5. pc[u] \in Label
    BY <1>1, SMT DEF ThreadTypes
  <2>6. CASE call[u] \in {"none", "start"}
    BY <1>1, <2>1, <2>2, <2>3, <2>5, <2>6
    DEF Stage, Place, Label, Over, Closer, Guarded, Callback
  <2> QED
    BY <2>4, <2>6 DEF Over
<1> QED
  BY <1>2, <1>3, ReaderApart

(* A step that does not call on_close_.                                    *)
LEMMA QuietEnd ==
    ASSUME EndInv, closes' = closes,
           \A u \in Thread :
              \/ Still(u)
              \/ /\ closes # <<>> /\ Over(pc[u], call[u]) => Over(pc'[u], call'[u])
                 /\ ret'[u] # "idle" => ret'[u] = ret[u] \/ ret'[u] \in CallbackCalls
                 /\ pc'[u] = "aborted" => call'[u] \in {"close", "destroy"}
    PROVE  EndInv'
<1>1. \A u \in Thread : closes' # <<>> => Over(pc'[u], call'[u])
  BY DEF EndInv, Still
<1>2. \A u \in Thread : /\ ret'[u] # "idle" => ret'[u] \in CallbackCalls
                        /\ pc'[u] = "aborted" => call'[u] \in {"close", "destroy"}
  BY DEF EndInv, Still
<1> QED
  BY <1>1, <1>2 DEF EndInv

(* Every step keeps it.                                                    *)
LEMMA StepEnd ==
    ASSUME CallsFromCallbacks, "on_error_fail" \notin CallbackCalls,
           SessionInv, AloneInv, EndInv, Step
    PROVE  EndInv'
<1> DEFINE Kept == closes' = closes
           Lets(t, to, operation) ==
              closes # <<>> /\ Over(pc[t], call[t]) => Over(to, operation)
<1> USE ReaderIsThread
<1>1. /\ ThreadTypes /\ LifeInv /\ RunInv /\ (closes # <<>> => ~is_open)
      /\ \A t \in Thread : Place(t, pc[t], ret[t], call[t]) /\ Stage(pc[t], call[t])
  BY DEF SessionInv, ThreadInv, Inv, TypeOK, PlaceInv, CallInv, CloseInv
<1>2. ASSUME NEW t \in Thread, NEW from, NEW to, Jump(t, from, to), Kept,
             Lets(t, to, call[t]), to # "aborted"
      PROVE  EndInv'
  BY <1>2, QuietEnd DEF Jump, Others
<1>3. ASSUME NEW t \in Thread, NEW from, Leave(t, from) PROVE Over(pc'[t], call'[t])
  <2>1. ret[t] # "on_error_fail"
    BY DEF EndInv
  <2>2. ret[t] \in {"idle"} \cup Callback
    BY <1>1, SMT DEF ThreadTypes
  <2> QED
    BY <1>3, <2>1, <2>2 DEF Leave, Over, Callback
<1>4. ASSUME NEW t \in Thread, NEW from, Leave(t, from), Kept PROVE EndInv'
  <2>1. pc'[t] # "aborted"
    BY <1>1, <1>4, LeaveTo DEF Callback
  <2> QED
    BY <1>3, <1>4, <2>1, QuietEnd DEF Leave, Others
<1>5. ASSUME NEW t \in Thread, NEW from, NEW operation, NEW to,
             Turn(t, from, operation, to), Kept, Lets(t, to, operation), to # "aborted"
      PROVE  EndInv'
  BY <1>5, QuietEnd DEF Turn, Others
<1>6. UNCHANGED net => Kept
  BY DEF net
<1>7. ASSUME NEW t \in Thread, Calls(t) PROVE EndInv'
  <2>1. ASSUME NEW operation, NEW to \in {"build", "mark"}, is_open, Enter(t, operation, to)
        PROVE  EndInv'
    <3>1. pc[t] \in CallbackCalls
      BY <2>1, CallsFrom DEF Enter, CallsFromCallbacks
    <3> QED
      BY <1>1, <1>6, <1>7, <2>1, <3>1, QuietEnd DEF Calls, Enter, Others
  <2> QED
    BY <1>5, <1>6, <1>7, <2>1 DEF Calls, CallsFromCallbacks, Over
<1>8. ASSUME NEW t \in Thread, Connects(t) PROVE EndInv'
  <2>1. CASE Jump(t, "idle", "opened") /\ closes' = <<>>
    <3>1. Len(closes') <= 1
      BY <2>1, SMT
    <3> QED
      BY <2>1, <3>1 DEF Jump, Others, Still, EndInv
  <2>2. CASE (\A u \in Thread : Still(u)) /\ closes' = closes
    BY <2>2, QuietEnd
  <2> QED
    BY <1>8, <2>1, <2>2 DEF Connects
<1>9. ASSUME NEW t \in Thread, Passes(t) PROVE EndInv'
  <2>1. /\ ~Jump(t, "assign", "aborted") \/ reader_thread # "joinable"
        /\ ~Jump(t, "spawn", "aborted") \/ pc[Reader] = "off"
    BY <1>1 DEF Jump, LifeInv, RunInv
  <2>2. CASE Jump(t, "join_wait", "aborted")
    <3>1. call'[t] \in {"close", "destroy"} /\ Lets(t, "aborted", call[t])
      BY <1>1, <2>2 DEF Jump, Stage, Over
    <3> QED
      BY <1>6, <1>9, <2>2, <3>1, QuietEnd DEF Passes, Jump, Others
  <2>3. pc[t] = "join" => \A to : Lets(t, to, call[t])
    BY DEF Over
  <2> QED
    BY <1>1, <1>2, <1>4, <1>6, <1>9, <2>1, <2>2, <2>3 DEF Passes, AfterJoin, Jump
<1>10. CASE Reads
  <2>1. pc[Reader] \in {"read", "deliver", "ping_check", "on_error_fail", "fail_check"}
           => \A to, operation : Lets(Reader, to, operation)
    BY <1>1, ReaderApart DEF Place, Over
  <2>2. ASSUME NEW to, Jump(Reader, "loop", to) \/ Jump(Reader, "on_message", to)
        PROVE  closes # <<>> => to \in {"loop", "exited"}
    BY <1>1, <1>10, <2>2 DEF Reads, Jump, Turn
  <2>3. /\ Over("loop", call[Reader]) /\ Over("exited", call[Reader])
        /\ Over("shut_open", "read_error")
    BY DEF Over
  <2>4. ASSUME NEW to, NEW from \in {"loop", "on_message"}, Jump(Reader, from, to), Kept,
               to # "aborted"
        PROVE  EndInv'
    BY <1>2, <2>2, <2>3, <2>4
  <2>5. ASSUME NEW to, NEW from \in {"read", "ping_check", "fail_check"}, Jump(Reader, from, to),
               Kept, to # "aborted"
        PROVE  EndInv'
    BY <1>2, <2>1, <2>5 DEF Jump
  <2>6. ASSUME NEW to, NEW operation,
               NEW from \in {"read", "deliver", "ping_check", "on_error_fail"},
               Turn(Reader, from, operation, to), Kept, to # "aborted"
        PROVE  EndInv'
    BY <1>5, <2>1, <2>6 DEF Turn
  <2> QED
    BY <1>5, <1>6, <1>10, <2>3, <2>4, <2>5, <2>6 DEF Reads
<1>11. CASE Releases
  BY <1>5, <1>6, <1>11 DEF Releases, Over
<1>12. CASE Rests
  BY <1>6, <1>12, QuietEnd DEF Rests, Still
<1>13. ASSUME NEW t \in Thread, Opens(t) PROVE EndInv'
  BY <1>2, <1>6, <1>13 DEF Opens, Over
<1>14. ASSUME NEW t \in Thread, Claims(t) PROVE EndInv'
  <2>1. call[t] = "start" /\ pc[t] = "claim"
    BY <1>1, <1>14 DEF Claims, Jump, Place
  <2>2. Lets(t, "spawn", call[t])
    BY <2>1 DEF Over
  <2> QED
    BY <1>2, <1>6, <1>14, <2>2 DEF Claims
<1>15. ASSUME NEW t \in Thread, Spawns(t) \/ Joins(t) PROVE EndInv'
  <2>1. Kept /\ UNCHANGED <<call, ret, arg>>
    BY <1>6, <1>15 DEF Spawns, Joins
  <2>2. \A u \in Thread : \/ pc'[u] = pc[u]
                          \/ pc'[u] \in {"assign", "loop", "off"}
                          \/ pc[u] = "join_wait" /\ pc'[u] = "joined"
    BY <1>15 DEF Spawns, Joins
  <2> QED
    BY <2>1, <2>2, QuietEnd DEF Over, Still
<1>16. ASSUME NEW t \in Thread, Assigns(t) \/ Locks(t) \/ Writes(t) PROVE EndInv'
  <2>1. pc[t] \in {"lock", "write"} => \A to : Lets(t, to, call[t])
    BY <1>1 DEF Stage, Over, Closer, Guarded
  <2> QED
    BY <1>2, <1>4, <1>6, <1>16, <2>1 DEF Assigns, Locks, Writes, Jump
<1>17. ASSUME NEW t \in Thread, Builds(t) \/ Built(t) \/ Marks(t) PROVE EndInv'
  <2>1. pc[t] \in {"build", "building", "mark"} => \A to : Lets(t, to, call[t])
    BY <1>1 DEF Stage, Over, Closer, Guarded
  <2> QED
    BY <1>2, <1>6, <1>17, <2>1 DEF Builds, Built, Marks, Jump
<1>18. ASSUME NEW t \in Thread, Clears(t) PROVE EndInv'
  <2>1. call[t] \in {"close", "fail", "echo"} => \A to : Lets(t, to, call[t]) \/ pc[t] # "shut_open"
    BY DEF Over
  <2> QED
    BY <1>2, <1>6, <1>18, <2>1 DEF Clears, Over, Jump
<1>19. ASSUME NEW t \in Thread, Shuts(t) \/ LetsGo(t) PROVE EndInv'
  <2>1. pc[t] \in {"shut_sock", "joined"} => \A to : Lets(t, to, call[t])
    BY DEF Over
  <2> QED
    BY <1>2, <1>6, <1>19, <2>1 DEF Shuts, LetsGo, AfterJoin, Jump
<1>20. ASSUME NEW t \in Thread, Frees(t) PROVE EndInv'
  BY <1>5, <1>6, <1>20 DEF Frees, Over
<1>21. ASSUME NEW t \in Thread, Notifies(t) PROVE EndInv'
  <2>1. pc[t] = "notify" /\ Others(t) /\ Over(pc'[t], call'[t]) /\ ret'[t] = "idle"
    BY <1>3, <1>21 DEF Notifies, Leave
  <2>2. closes = <<>>
    BY <1>1, <2>1 DEF EndInv, Over, Stage, Closer
  <2>3. Len(closes') <= 1
    BY <1>21, <2>2, SMT DEF Notifies
  <2>4. \A u \in Thread : Over(pc'[u], call'[u])
    BY <2>1, OneNotifies DEF Others, Still
  <2>5. pc'[t] # "aborted"
    BY <1>1, <1>21, LeaveTo DEF Notifies, Callback
  <2> QED
    BY <2>1, <2>3, <2>4, <2>5 DEF EndInv, Others, Still
<1> QED
  BY <1>7, <1>8, <1>9, <1>10, <1>11, <1>12, <1>13, <1>14, <1>15, <1>16, <1>17, <1>18, <1>19,
     <1>20, <1>21
  DEF Step, Changes

(* When the application calls the object from its callbacks only, and not  *)
(* from the on_error_ of a protocol error (after which the reader goes on  *)
(* to fail_with_close), on_close_ is called at most once, for any number   *)
(* of application threads.                                                 *)
THEOREM OnCloseOnceFromCallbacks ==
    ASSUME CallsFromCallbacks, MaxOpens = 1, "on_error_fail" \notin CallbackCalls
    PROVE  Spec => []OnCloseOnce
<1> DEFINE All == SessionInv /\ AloneInv /\ EndInv
<1>1. Init => All
  <2> SUFFICES ASSUME Init PROVE All
    OBVIOUS
  <2>1. /\ \A t \in App : pc[t] = "idle" /\ call[t] = "none"
        /\ \A t \in Thread : pc[t] # "aborted" /\ ret[t] = "idle"
        /\ closes = <<>>
    BY ReaderApart DEF Init
  <2>2. AloneInv
    BY <2>1 DEF AloneInv
  <2>3. Len(closes) <= 1
    BY <2>1, SMT
  <2> QED
    BY <2>1, <2>2, <2>3, InitSession DEF EndInv
<1>2. All /\ [Next]_vars => All'
  <2> SUFFICES ASSUME All, [Next]_vars PROVE All'
    OBVIOUS
  <2>1. SessionInv' /\ Step
    BY NextSession DEF CallsFromCallbacks, StartsInTurn
  <2> QED
    BY <2>1, StepAlone, StepEnd
<1>3. All => OnCloseOnce
  BY DEF EndInv, OnCloseOnce
<1> QED
  BY <1>1, <1>2, <1>3, PTL DEF Spec
=============================================================================
