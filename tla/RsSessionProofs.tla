--------------------------- MODULE RsSessionProofs --------------------------
(***************************************************************************)
(* Theorems about what a connection of module RsConnection reads, for any  *)
(* number of tasks, any bursts of the peer and any sizes of its reads:     *)
(* read_frame gives every frame of the peer once and in order, although it *)
(* keeps what a read brought too much for the next call; and every field   *)
(* keeps its type.                                                         *)
(***************************************************************************)
EXTENDS RsConnectionProofs, RsParserProofs

(* As in RsConnectionProofs: the leaves that need it name the SMT solver.  *)
USE Zenon

-----------------------------------------------------------------------------
(* The stream *)

(* What the peer has sent is what was taken, and frames of which the       *)
(* parser, the buffer and the socket hold the rest.  A task that waits for *)
(* bytes has given the parser all there was.                               *)
Waiting == {"want_read", "reading"}

StreamInv ==
    /\ parser \in Parser /\ buf \in Seq(Unit) /\ socket \in Seq(Unit)
    /\ taken \in Seq(InFrame)
    /\ \E fs \in Seq(InFrame) : sent = taken \o fs /\ Pending(parser, fs, buf \o socket)
    /\ \A t \in Task : pc[t] \in Waiting => buf = <<>>

(* A step that leaves the stream alone, and makes no task wait for bytes.  *)
QuietStep ==
    /\ UNCHANGED <<parser, buf, socket, taken, sent>>
    /\ \A u \in Task : pc'[u] \in Waiting => pc[u] \in Waiting

(* Such a step keeps the invariant.                                        *)
LEMMA QuietKeepsStream == ASSUME StreamInv, QuietStep PROVE StreamInv'
  BY DEF StreamInv, QuietStep

(* At first nothing was sent.                                              *)
LEMMA InitStream == Init => StreamInv
  <1> SUFFICES ASSUME Init PROVE StreamInv
    OBVIOUS
  <1>1. parser \in Parser
    <2>1. NoHeader \in HeaderUnit /\ <<>> \in Seq(Byte) /\ 0 \in Nat
      BY SMT DEF NoHeader, HeaderUnit, Opcode, DataOp
    <2>2. parser = [state |-> "Header", header |-> NoHeader, remaining |-> 0, buffer |-> <<>>]
      BY DEF Init
    <2> QED BY <2>1, <2>2 DEF Parser
  <1>2. /\ <<>> \in Seq(Unit) /\ <<>> \in Seq(InFrame) /\ <<>> \o <<>> = <<>>
    BY SMT
  <1>3. parser.state = "Header"
    BY DEF Init
  <1>4. Pending(parser, <<>>, <<>> \o <<>>)
    BY <1>2, <1>3, StreamEmpty DEF Pending
  <1>5. /\ buf = <<>> /\ socket = <<>> /\ taken = <<>> /\ sent = <<>>
        /\ \A t \in Task : pc[t] \notin Waiting
    BY DEF Init, Waiting
  <1> QED BY <1>1, <1>2, <1>4, <1>5 DEF StreamInv

(* Only one task is in the loop of read_frame.                             *)
LEMMA OneReader ==
    ASSUME LockInv, NEW t \in Task, NEW u \in Task, pc[t] \in {"parse", "reading"},
           pc[u] \in Waiting
    PROVE  u = t
  BY DEF LockInv, Owns, Waiting

(* read_frame: the parser is given the buffer.                             *)
LEMMA ParseStream == ASSUME LockInv, StreamInv, NEW t \in Task, Parse(t) PROVE StreamInv'
  <1> DEFINE r == parse(parser, buf)
  <1>1. PICK fs \in Seq(InFrame) : sent = taken \o fs /\ Pending(parser, fs, buf \o socket)
    BY DEF StreamInv
  <1>2. /\ parser \in Parser /\ buf \in Seq(Unit) /\ socket \in Seq(Unit)
        /\ taken \in Seq(InFrame) /\ pc \in [Task -> Point]
    BY DEF StreamInv, LockInv, ControlType
  <1>3. Decodes(r, fs, socket)
    BY <1>1, <1>2, ParseDecodes
  <1>4. /\ buf' = r.rest /\ socket' = socket /\ sent' = sent /\ pc[t] = "parse"
        /\ ParseComplete(t, r) \/ ParseError(t, r) \/ ParseIncomplete(t, r)
    BY DEF Parse, stream, peer
  <1> HIDE DEF r
  <1>5. r.rest \in Seq(Unit) /\ r.parser \in Parser
    BY <1>3 DEF Decodes
  <1>6. ASSUME NEW p \in Point, pc' = [pc EXCEPT ![t] = p], p \in Waiting => buf' = <<>>
        PROVE  \A u \in Task : pc'[u] \in Waiting => buf' = <<>>
    <2> SUFFICES ASSUME NEW u \in Task, pc'[u] \in Waiting PROVE buf' = <<>>
      OBVIOUS
    <2>1. CASE u = t
      BY <1>2, <1>6, <2>1
    <2>2. CASE u # t
      <3>1. pc'[u] = pc[u]
        BY <1>2, <1>6, <2>2
      <3> QED BY <1>4, <2>2, <3>1, OneReader
    <2> QED BY <2>1, <2>2
  <1>7. CASE ParseComplete(t, r)
    <2>1. /\ r.result = "Complete" /\ taken' = Append(taken, take_frame(r.parser))
          /\ parser' = [r.parser EXCEPT !.buffer = <<>>]
          /\ pc' = [pc EXCEPT ![t] = "handle"] \/ pc' = [pc EXCEPT ![t] = "idle"]
      BY <1>7 DEF ParseComplete, Move, Return
    <2>2. /\ fs # <<>> /\ take_frame(r.parser) = fs[1] /\ r.parser.state = "Header"
          /\ r.rest \o socket = Stream(Tail(fs))
      BY <1>3, <2>1 DEF Decodes
    <2>3. /\ taken' \in Seq(InFrame) /\ Tail(fs) \in Seq(InFrame)
          /\ sent = taken' \o Tail(fs)
      <3>1. /\ Append(taken, fs[1]) \in Seq(InFrame) /\ Tail(fs) \in Seq(InFrame)
            /\ Append(taken, fs[1]) \o Tail(fs) = taken \o fs
        BY <1>2, <2>2, SMT
      <3> QED BY <1>1, <2>1, <2>2, <3>1
    <2>4. parser' \in Parser /\ parser'.state = "Header"
      <3>1. <<>> \in Seq(Byte) /\ "Header" \in {"Header", "Payload"} /\ 0 \in Nat
        BY SMT
      <3>2. parser' \in Parser
        BY <1>5, <2>1, <3>1, ParserFields
      <3>3. parser'.state = r.parser.state
        BY <1>5, <2>1, SMT DEF Parser
      <3> QED BY <2>2, <3>2, <3>3
    <2>5. Pending(parser', Tail(fs), buf' \o socket')
      BY <1>4, <2>2, <2>4 DEF Pending
    <2>6. \A u \in Task : pc'[u] \in Waiting => buf' = <<>>
      BY <1>6, <2>1 DEF Waiting, Point
    <2> QED BY <1>2, <1>4, <1>5, <2>3, <2>4, <2>5, <2>6 DEF StreamInv
  <1>8. CASE ParseError(t, r) \/ ParseIncomplete(t, r)
    <2>1. /\ r.result # "Complete" /\ taken' = taken /\ parser' = r.parser
          /\ \/ pc' = [pc EXCEPT ![t] = "outbound"]
             \/ r.result = "Incomplete" /\ pc' = [pc EXCEPT ![t] = "want_read"]
      BY <1>8 DEF ParseError, ParseIncomplete, fail, send_frame_into, Move
    <2>2. Pending(parser', fs, buf' \o socket')
      BY <1>3, <1>4, <2>1 DEF Decodes
    <2>3. \A u \in Task : pc'[u] \in Waiting => buf' = <<>>
      BY <1>3, <1>4, <1>6, <2>1 DEF Waiting, Point, Sending, Decodes
    <2> QED BY <1>1, <1>2, <1>4, <1>5, <2>1, <2>2, <2>3 DEF StreamInv
  <1> QED BY <1>4, <1>7, <1>8

(* read(): bytes go from the socket to the buffer.                         *)
LEMMA ReadStream ==
    ASSUME LockInv, StreamInv, NEW t \in Task, NEW n, StreamRead(t, n)
    PROVE  StreamInv'
  <1>1. /\ n \in 1..Len(socket) /\ buf' = buf \o SubSeq(socket, 1, n)
        /\ socket' = SubSeq(socket, n + 1, Len(socket))
        /\ UNCHANGED <<parser, taken, sent>> /\ pc[t] = "reading"
        /\ pc' = [pc EXCEPT ![t] = "parse"]
    BY DEF StreamRead, Received, Move, peer
  <1>2. buf \in Seq(Unit) /\ socket \in Seq(Unit) /\ pc \in [Task -> Point]
    BY DEF StreamInv, LockInv, ControlType
  <1>3. /\ buf' \in Seq(Unit) /\ socket' \in Seq(Unit)
        /\ buf' \o socket' = buf \o socket
    <2> DEFINE a == SubSeq(socket, 1, n)
               b == SubSeq(socket, n + 1, Len(socket))
    <2>1. a \in Seq(Unit) /\ b \in Seq(Unit) /\ a \o b = socket
      BY <1>1, <1>2, SMT
    <2> HIDE DEF a, b
    <2>2. buf \o a \in Seq(Unit)
      BY <1>2, <2>1, SMT
    <2>3. (buf \o a) \o b = buf \o (a \o b)
      BY <1>2, <2>1, Regroup
    <2>4. buf' = buf \o a /\ socket' = b
      BY <1>1 DEF a, b
    <2> QED BY <2>1, <2>2, <2>3, <2>4
  <1>4. \A u \in Task : pc'[u] \notin Waiting
    <2> SUFFICES ASSUME NEW u \in Task, pc'[u] \in Waiting PROVE FALSE
      OBVIOUS
    <2>1. u # t
      BY <1>1, <1>2 DEF Waiting
    <2>2. pc'[u] = pc[u]
      BY <1>1, <1>2, <2>1
    <2> QED BY <1>1, <2>1, <2>2, OneReader
  <1> QED BY <1>1, <1>3, <1>4 DEF StreamInv

(* The peer sends a burst.                                                 *)
LEMMA PeerStream == ASSUME StreamInv, PeerSends PROVE StreamInv'
  <1>1. PICK gs \in Bursts : sent' = sent \o gs /\ socket' = socket \o Stream(gs)
    BY DEF PeerSends
  <1>2. gs \in Seq(InFrame)
    <2>1. Bursts \subseteq Seq(InFrame)
      BY RsAssumption, SMT
    <2> QED BY <2>1
  <1>3. UNCHANGED <<parser, buf, taken, pc>>
    BY DEF PeerSends, state, tasks, seen
  <1>4. PICK fs \in Seq(InFrame) : sent = taken \o fs /\ Pending(parser, fs, buf \o socket)
    BY DEF StreamInv
  <1>5. /\ parser \in Parser /\ buf \in Seq(Unit) /\ socket \in Seq(Unit)
        /\ taken \in Seq(InFrame)
    BY DEF StreamInv
  <1> DEFINE w == Stream(gs)
  <1>6. w \in Seq(Unit)
    BY <1>2, StreamType
  <1> HIDE DEF w
  <1>7. /\ socket \o w \in Seq(Unit) /\ buf \o socket \in Seq(Unit)
        /\ (buf \o socket) \o w = buf \o (socket \o w)
    BY <1>5, <1>6, SMT
  <1>8. Pending(parser, fs \o gs, (buf \o socket) \o w)
    BY <1>2, <1>4, <1>5, <1>7, MorePending DEF w
  <1>9. fs \o gs \in Seq(InFrame) /\ (taken \o fs) \o gs = taken \o (fs \o gs)
    BY <1>2, <1>4, <1>5, SMT
  <1>10. Pending(parser', fs \o gs, buf' \o socket')
    BY <1>1, <1>3, <1>7, <1>8 DEF w
  <1>11. socket' \in Seq(Unit)
    BY <1>1, <1>7 DEF w
  <1>12. sent' = taken' \o (fs \o gs)
    BY <1>1, <1>3, <1>4, <1>9
  <1> QED BY <1>3, <1>5, <1>9, <1>10, <1>11, <1>12 DEF StreamInv

(* A call leaves the stream that is read alone.                            *)
LEMMA CallQuiet == ASSUME ControlType, NEW t \in Task, Call(t) PROVE QuietStep
  <1> USE DEF ControlType, QuietStep, Waiting, Move, state, stream, seen, peer
  <1>1. CASE \E op \in Ops : send(t, op)
    BY <1>1 DEF send, send_frame_into
  <1>2. CASE send_raw(t)
    BY <1>2 DEF send_raw
  <1>3. CASE \E code \in CloseCodes : close(t, code)
    BY <1>3 DEF close, send_frame_into
  <1>4. CASE read_message(t)
    BY <1>4 DEF read_message
  <1>5. CASE Cancel(t)
    BY <1>5 DEF Cancel, Return
  <1> QED BY <1>1, <1>2, <1>3, <1>4, <1>5 DEF Call

(* Sending a frame leaves the stream alone.                                *)
LEMMA SendQuiet == ASSUME ControlType, NEW t \in Task, Send(t) PROVE QuietStep
  <1> USE DEF ControlType, QuietStep, Waiting, Move, state, tasks, stream, seen, peer
  <1>1. CASE LockOutbound(t)
    BY <1>1 DEF LockOutbound
  <1>2. CASE LockStreamWrite(t)
    BY <1>2 DEF LockStreamWrite
  <1>3. CASE write_all(t)
    BY <1>3 DEF write_all
  <1>4. CASE Written(t)
    <2>1. \/ pc' = [pc EXCEPT ![t] = "idle"]
          \/ after[t] \in {"is_open", "clear_open"} /\ pc' = [pc EXCEPT ![t] = after[t]]
      BY <1>4 DEF Written, Return
    <2>2. \A u \in Task : pc'[u] \in Waiting => pc[u] \in Waiting
      BY <2>1
    <2> QED BY <1>4, <2>2 DEF Written
  <1>5. CASE WriteFails(t)
    BY <1>5 DEF WriteFails, Return
  <1>6. CASE ClearOpen(t)
    BY <1>6 DEF ClearOpen, Return
  <1> QED BY <1>1, <1>2, <1>3, <1>4, <1>5, <1>6 DEF Send

(* Once a message is complete its reader sends, or is done.                *)
LEMMA DeliverMoves ==
    ASSUME NEW t, NEW message, NEW free, deliver_message(t, message, free)
    PROVE  \E p \in {"outbound", "idle"} : \E take, drop : Move(t, p, take, drop)
  <1>1. \/ \E code : fail(t, code, {"fragment"}, free)
        \/ echo_session(t, message)
    BY SMT DEF deliver_message
  <1>2. CASE \E code : fail(t, code, {"fragment"}, free)
    BY <1>2 DEF fail, send_frame_into
  <1>3. CASE echo_session(t, message)
    BY <1>3 DEF echo_session, send_frame_into
  <1> QED BY <1>1, <1>2, <1>3

(* So does dispatching a frame that was read.                              *)
LEMMA HandleQuiet == ASSUME ControlType, NEW t \in Task, Handle(t) PROVE QuietStep
  <1> USE DEF ControlType, QuietStep, Waiting, Move, state, stream, seen, peer
  <1>0. ASSUME NEW message, NEW free, deliver_message(t, message, free)
        PROVE  \A u \in Task : pc'[u] \in Waiting => pc[u] \in Waiting
    <2>1. PICK p \in {"outbound", "idle"} : \E take, drop : Move(t, p, take, drop)
      BY <1>0, DeliverMoves
    <2> QED BY <2>1
  <1>1. CASE handle_close_frame(t)
    BY <1>1 DEF handle_close_frame, send_frame_into
  <1>2. CASE HandlePing(t)
    BY <1>2 DEF HandlePing, send_frame_into
  <1>3. CASE HandlePong(t)
    BY <1>3 DEF HandlePong
  <1>4. CASE HandleData(t)
    BY <1>4 DEF HandleData
  <1>5. CASE FragmentError(t)
    BY <1>5 DEF FragmentError, fail, send_frame_into
  <1>6. CASE FragmentStarts(t)
    BY <1>6 DEF FragmentStarts
  <1>7. CASE FragmentGoesOn(t)
    BY <1>7 DEF FragmentGoesOn
  <1>8. CASE FragmentEnds(t)
    BY <1>0, <1>8 DEF FragmentEnds
  <1>9. CASE WholeMessage(t)
    BY <1>0, <1>9 DEF WholeMessage
  <1> QED BY <1>1, <1>2, <1>3, <1>4, <1>5, <1>6, <1>7, <1>8, <1>9 DEF Handle

(* A task in read_frame.                                                   *)
LEMMA ReadStreams ==
    ASSUME LockInv, StreamInv, NEW t \in Task, Read(t)
    PROVE  StreamInv'
  <1>0. ControlType
    BY DEF LockInv
  <1>1. CASE Parse(t)
    BY <1>1, ParseStream
  <1>2. CASE \E n \in 1..Len(socket) : StreamRead(t, n)
    BY <1>2, ReadStream
  <1>3. CASE read_frame(t) \/ LockReadState(t)
    <2>1. QuietStep
      BY <1>0, <1>3 DEF read_frame, LockReadState, ControlType, QuietStep, Waiting, Move,
         Return, state, stream, seen, peer
    <2> QED BY <2>1, QuietKeepsStream
  <1>4. CASE LockStreamRead(t) \/ StreamEnds(t) \/ StreamFails(t)
    <2>1. QuietStep
      BY <1>0, <1>4 DEF LockStreamRead, StreamEnds, StreamFails, ControlType, QuietStep,
         Waiting, Move, Return, state, stream, seen, peer
    <2> QED BY <2>1, QuietKeepsStream
  <1> QED BY <1>1, <1>2, <1>3, <1>4 DEF Read

(* Any step.                                                               *)
LEMMA NextStream == LockInv /\ StreamInv /\ [Next]_vars => StreamInv'
  <1> SUFFICES ASSUME LockInv, StreamInv, [Next]_vars PROVE StreamInv'
    OBVIOUS
  <1>0. ControlType
    BY DEF LockInv
  <1>1. ASSUME NEW t \in Task, Call(t) \/ Send(t) \/ Handle(t) PROVE StreamInv'
    BY <1>0, <1>1, CallQuiet, SendQuiet, HandleQuiet, QuietKeepsStream
  <1>2. ASSUME NEW t \in Task, Read(t) PROVE StreamInv'
    BY <1>2, ReadStreams
  <1>3. CASE PeerSends
    BY <1>3, PeerStream
  <1>4. CASE PeerLeaves \/ UNCHANGED vars
    <2>1. QuietStep
      BY <1>4 DEF PeerLeaves, QuietStep, vars, state, tasks, stream, peer, seen
    <2> QED BY <2>1, QuietKeepsStream
  <1> QED BY <1>1, <1>2, <1>3, <1>4 DEF Next

(* read_frame gives the frames as the peer sent them, in order and each    *)
(* once, however the stream is cut and whichever tasks read, give up or    *)
(* wait in turn; a task that waits for bytes while none are on their way   *)
(* has taken every frame, or all but a last one with no payload.           *)
THEOREM NoFrameIsLost == Spec => []NoFrameLost
  <1>1. StreamInv => NoFrameLost
    <2> SUFFICES ASSUME StreamInv PROVE NoFrameLost
      OBVIOUS
    <2>1. PICK fs \in Seq(InFrame) : sent = taken \o fs /\ Pending(parser, fs, buf \o socket)
      BY DEF StreamInv
    <2>2. taken \in Seq(InFrame) /\ parser \in Parser
      BY DEF StreamInv
    <2> DEFINE n == Len(taken)
    <2>3. /\ n <= Len(sent) /\ taken = SubSeq(sent, 1, n)
          /\ fs = <<>> => n = Len(sent)
          /\ Len(fs) = 1 => n = Len(sent) - 1 /\ sent[n + 1] = fs[1]
      BY <2>1, <2>2, SMT
    <2>4. ASSUME NEW t \in Task, pc[t] = "reading", socket = <<>>
          PROVE  fs = <<>> \/ (Len(fs) = 1 /\ fs[1].pl = <<>>)
      <3>1. buf = <<>>
        BY <2>4 DEF StreamInv, Waiting
      <3>2. <<>> \o <<>> = <<>>
        BY SMT
      <3> QED BY <2>1, <2>2, <2>4, <3>1, <3>2, NothingPending
    <2> QED BY <2>3, <2>4 DEF NoFrameLost
  <1> QED BY InitLocks, NextLocks, InitStream, NextStream, <1>1, PTL DEF Spec
-----------------------------------------------------------------------------
(* Types *)

(* Who waits for a lock stands in its queue, once, and nobody else does.   *)
Queue(l) ==
    /\ queue[l] \in Seq(Task) /\ Once(queue[l])
    /\ \A t \in Task : In(queue[l], t) <=> Awaits(pc[t]) = l

QueueInv == queue = [l \in Lock |-> queue[l]] /\ \A l \in Lock : Queue(l)

(* A task that moves on leaves one queue and joins another.                *)
LEMMA MoveQueues ==
    ASSUME ControlType, QueueInv, NEW t \in Task, NEW p, NEW take, NEW free,
           Move(t, p, take, free)
    PROVE  QueueInv'
  <1>1. pc'[t] = p /\ \A u \in Task \ {t} : pc'[u] = pc[u]
    BY DEF Move, ControlType
  <1>2. ASSUME NEW l \in Lock PROVE Queue(l)'
    <2> DEFINE q == queue[l]
               left == IF l = Awaits(pc[t]) THEN Without(q, t) ELSE q
    <2>1. q \in Seq(Task) /\ Once(q) /\ \A u \in Task : In(q, u) <=> Awaits(pc[u]) = l
      BY DEF QueueInv, Queue
    <2>2. queue'[l] = IF l = Awaits(p) THEN Append(left, t) ELSE left
      BY DEF Move, Requeue
    <2> HIDE DEF q
    <2>3. /\ left \in Seq(Task) /\ Once(left)
          /\ \A u \in Task : In(left, u) <=> In(q, u) /\ u # t
      <3>1. CASE l = Awaits(pc[t])
        BY <2>1, <3>1, Leaves
      <3>2. CASE l # Awaits(pc[t])
        BY <2>1, <3>2
      <3> QED BY <3>1, <3>2
    <2> HIDE DEF left
    <2> DEFINE r == queue'[l]
    <2>4. /\ r \in Seq(Task) /\ Once(r)
          /\ \A u \in Task : In(r, u) <=> Awaits(pc'[u]) = l
      <3>1. CASE l = Awaits(p)
        <4>1. ~In(left, t)
          BY <2>3
        <4>2. r = Append(left, t)
          BY <2>2, <3>1
        <4> HIDE DEF r
        <4>3. /\ Append(left, t) \in Seq(Task) /\ Once(Append(left, t))
              /\ \A u : In(Append(left, t), u) <=> In(left, u) \/ u = t
          BY <2>3, <4>1, Joins
        <4> QED BY <1>1, <2>1, <2>3, <3>1, <4>2, <4>3
      <3>2. CASE l # Awaits(p)
        <4>1. r = left
          BY <2>2, <3>2
        <4> HIDE DEF r
        <4> QED BY <1>1, <2>1, <2>3, <3>2, <4>1
      <3> QED BY <3>1, <3>2
    <2> QED BY <2>4 DEF Queue, In, Once
  <1>3. queue' = [l \in Lock |-> queue'[l]]
    BY DEF Move, Requeue
  <1> QED BY <1>2, <1>3 DEF QueueInv

(* A task moves, or the queues stay as they are.                           *)
Moves(t) == \E p, take, free : Move(t, p, take, free)
Stays == UNCHANGED <<pc, queue>>

(* Every step of a task is one or the other.                               *)
LEMMA StepMoves ==
    ASSUME NEW t \in Task, Call(t) \/ Send(t) \/ Read(t) \/ Handle(t)
    PROVE  Moves(t) \/ Stays
  <1>1. CASE Call(t)
    BY <1>1 DEF Call, send, send_raw, close, read_message, Cancel, send_frame_into,
       Return, Moves
  <1>2. CASE Send(t)
    BY <1>2 DEF Send, LockOutbound, LockStreamWrite, write_all, Written, WriteFails,
       ClearOpen, Return, tasks, Moves, Stays
  <1>3. CASE Read(t)
    BY <1>3 DEF Read, read_frame, LockReadState, Parse, ParseComplete, ParseError,
       ParseIncomplete, fail, LockStreamRead, StreamRead, StreamEnds, StreamFails,
       send_frame_into, Return, Moves
  <1>4. CASE Handle(t)
    <2>1. CASE FragmentEnds(t) \/ WholeMessage(t)
      BY <2>1, DeliverMoves DEF FragmentEnds, WholeMessage, Moves
    <2>2. CASE FragmentError(t) \/ FragmentStarts(t) \/ FragmentGoesOn(t)
      BY <2>2 DEF FragmentError, FragmentStarts, FragmentGoesOn, fail, send_frame_into, Moves
    <2> QED BY <1>4, <2>1, <2>2 DEF Handle, handle_close_frame, HandlePing, HandlePong,
               HandleData, send_frame_into, Moves
  <1> QED BY <1>1, <1>2, <1>3, <1>4

(* At first nobody waits.                                                  *)
LEMMA InitQueues == Init => QueueInv
  <1> SUFFICES ASSUME Init PROVE QueueInv
    OBVIOUS
  <1>1. queue = [l \in Lock |-> <<>>] /\ \A t \in Task : pc[t] = "idle"
    BY DEF Init
  <1>2. <<>> \in Seq(Task) /\ Once(<<>>) /\ \A t : ~In(<<>>, t)
    BY SMT DEF Once, In
  <1>3. \A l \in Lock : Awaits("idle") # l
    BY DEF Awaits, Lock
  <1>4. ASSUME NEW l \in Lock PROVE Queue(l)
    <2>1. queue[l] = <<>>
      BY <1>1
    <2> QED BY <1>1, <1>2, <1>3, <2>1 DEF Queue
  <1>5. queue = [l \in Lock |-> queue[l]]
    BY <1>1
  <1> QED BY <1>4, <1>5 DEF QueueInv

(* Any step keeps the queues.                                              *)
LEMMA NextQueues == LockInv /\ QueueInv /\ [Next]_vars => QueueInv'
  <1> SUFFICES ASSUME LockInv, QueueInv, [Next]_vars PROVE QueueInv'
    OBVIOUS
  <1>1. CASE Stays
    BY <1>1 DEF Stays, QueueInv, Queue, In, Once
  <1>2. ASSUME NEW t \in Task, Call(t) \/ Send(t) \/ Read(t) \/ Handle(t)
        PROVE  QueueInv'
    BY <1>1, <1>2, StepMoves, MoveQueues DEF Moves, LockInv
  <1>3. CASE PeerSends \/ PeerLeaves \/ UNCHANGED vars
    <2>1. Stays
      BY <1>3 DEF PeerSends, PeerLeaves, vars, tasks, Stays
    <2> QED BY <1>1, <2>1
  <1> QED BY <1>2, <1>3 DEF Next
-----------------------------------------------------------------------------
(* struct FragmentState, and a piece of a frame on the wire.               *)
Fragment == [active : BOOLEAN, op : {"TEXT", "BINARY"}, buffer : Seq(Byte)]
Piece == [frame : OutFrame, meant : OutFrame, part : {1, 2}]

(* What the tasks have in hand, and what the locks guard.                  *)
DataInv ==
    /\ open \in BOOLEAN /\ last_close \in U16
    /\ fragment \in Fragment /\ outbound \in OutFrame
    /\ frame \in [Task -> InFrame] /\ out \in [Task -> OutFrame]
    /\ over \subseteq Task /\ calls \in 0..MaxCalls /\ bursts \in 0..MaxBursts
    /\ wire \in Seq(Piece) /\ ahead \in [Task -> Nat]

(* The frames and values the steps write.                                  *)
LEMMA WrittenValues ==
    /\ Nothing \in OutFrame /\ NoFrame \in InFrame /\ NoFragment \in Fragment
    /\ TRUE \in BOOLEAN /\ FALSE \in BOOLEAN
    /\ \A n \in Nat, op \in Opcode : [op |-> op, pl |-> <<n % 256>>] \in OutFrame
    /\ \A op \in Opcode, pl \in Seq(Byte) : [op |-> op, pl |-> pl] \in OutFrame
  <1>1. <<>> \in Seq(Byte)
    BY SMT
  <1>2. "PONG" \in Opcode
    BY DEF Opcode
  <1>3. \A op \in Opcode, pl \in Seq(Byte) : [op |-> op, pl |-> pl] \in OutFrame
    BY DEF OutFrame
  <1>4. \A n \in Nat : <<n % 256>> \in Seq(Byte)
    <2>1. \A n \in Nat : n % 256 \in Byte
      BY SMT DEF Byte
    <2>2. \A b \in Byte : <<b>> \in Seq(Byte)
      BY SMT
    <2> QED BY <2>1, <2>2
  <1>5. NoFrame \in InFrame
    BY <1>1, <1>2, SMT DEF NoFrame, InFrame
  <1>6. NoFragment \in Fragment
    BY <1>1, SMT DEF NoFragment, Fragment
  <1> QED BY <1>1, <1>2, <1>3, <1>4, <1>5, <1>6 DEF Nothing

(* A code that may be sent fits two bytes.                                 *)
LEMMA CodeFits ==
    ASSUME NEW code, is_valid_close_code(code)
    PROVE  code \in U16 /\ build_close(code) \in OutFrame
  <1>1. code \in Int /\ 1000 <= code /\ code <= 4999
    BY SMT DEF is_valid_close_code
  <1>2. code \in U16
    <2>1. MaxU16 \in Int /\ MaxU16 >= 5000
      BY SMT DEF MaxU16
    <2> QED BY <1>1, <2>1, SMT DEF U16
  <1>3. code \div 256 \in Byte /\ code % 256 \in Byte
    BY <1>1, SMT DEF Byte
  <1>4. \A a, b \in Byte : <<a, b>> \in Seq(Byte)
    BY SMT
  <1>5. "CLOSE" \in Opcode
    BY DEF Opcode
  <1>6. <<code \div 256, code % 256>> \in Seq(Byte)
    BY <1>3, <1>4
  <1>7. build_close(code) \in OutFrame
    BY <1>5, <1>6, WrittenValues DEF build_close
  <1> QED BY <1>2, <1>7

(* The close frames this side builds, and the codes it keeps.              *)
LEMMA BuiltFits ==
    /\ \A code : build_close(sanitize_close_code(code)) \in OutFrame
    /\ \A pl : /\ parse_close_payload(pl) \in U16
               /\ build_close(parse_close_payload(pl)) \in OutFrame
  <1>1. is_valid_close_code(1000)
    BY SMT DEF is_valid_close_code
  <1>2. \A pl : is_valid_close_code(parse_close_payload(pl))
    BY <1>1, SanitizedIsValid DEF parse_close_payload
  <1> QED BY <1>2, SanitizedIsValid, CodeFits

(* Counting up to a bound.                                                 *)
LEMMA CountsOn == ASSUME NEW m \in Nat, NEW n \in 0..m, n < m PROVE n + 1 \in 0..m
  BY SMT

(* A frame, and the close frame of an error, is sent.                      *)
LEMMA SendsData ==
    ASSUME out \in [Task -> OutFrame], NEW t \in Task, NEW take, NEW free
    PROVE  /\ \A f \in OutFrame : \A next :
                  send_frame_into(t, f, next, take, free) => out' \in [Task -> OutFrame]
           /\ \A code : fail(t, code, take, free) => out' \in [Task -> OutFrame]
  BY BuiltFits DEF send_frame_into, fail

(* What an error, or a message that is not valid, leads to.                *)
LEMMA ErrorsSend ==
    ASSUME out \in [Task -> OutFrame], NEW t \in Task
    PROVE  /\ \A parsed : ParseError(t, parsed) => out' \in [Task -> OutFrame]
           /\ FragmentError(t) => out' \in [Task -> OutFrame]
           /\ \A message, free :
                  \/ ~deliver_message(t, message, free)
                  \/ UNCHANGED over /\ echo_session(t, message)
                  \/ UNCHANGED over /\ out' \in [Task -> OutFrame]
  <1> DEFINE Fails == \E code, take, free : fail(t, code, take, free)
  <1>1. Fails => out' \in [Task -> OutFrame]
    BY SendsData
  <1>2. \A parsed : ParseError(t, parsed) => Fails
    BY SMT DEF ParseError
  <1>3. FragmentError(t) => Fails
    BY SMT DEF FragmentError
  <1>4. \A message, free : \/ ~deliver_message(t, message, free)
                           \/ UNCHANGED over /\ echo_session(t, message)
                           \/ UNCHANGED over /\ Fails
    BY SMT DEF deliver_message
  <1> QED BY <1>1, <1>2, <1>3, <1>4

(* The initial values.                                                     *)
LEMMA InitData == Init => DataInv
  <1> SUFFICES ASSUME Init PROVE DataInv
    OBVIOUS
  <1>1. 0 \in 0..MaxCalls /\ 0 \in 0..MaxBursts /\ 0 \in Nat
    BY RsAssumption, SMT
  <1>3. 0 \in U16
    <2>1. MaxU16 \in Nat
      BY SMT DEF MaxU16
    <2> QED BY <2>1, SMT DEF U16
  <1>2. <<>> \in Seq(Piece)
    BY SMT
  <1> QED BY <1>1, <1>2, <1>3, WrittenValues DEF Init, DataInv

(* A call of the application.                                              *)
LEMMA CallData == ASSUME DataInv, NEW t \in Task, Call(t) PROVE DataInv'
  <1> USE DEF DataInv, state, stream, peer, seen
  <1>1. ASSUME calls < MaxCalls PROVE calls + 1 \in 0..MaxCalls
    BY <1>1, RsAssumption, CountsOn
  <1>2. calls \in Nat
    BY SMT
  <1>3. CASE \E op \in Ops : send(t, op)
    <2>1. PICK op : send(t, op)
      BY <1>3
    <2>2. op \in Opcode
      BY <2>1, OpsAssumption, SMT DEF send, Opcode, DataOp
    <2>3. [op |-> op, pl |-> <<calls % 256>>] \in OutFrame
      BY <1>2, <2>2, WrittenValues
    <2> QED BY <1>1, <2>1, <2>3 DEF send, send_frame_into
  <1>4. CASE send_raw(t)
    <2>1. [op |-> "BINARY", pl |-> <<calls % 256>>] \in OutFrame
      BY <1>2, WrittenValues DEF Opcode, DataOp
    <2> QED BY <1>1, <1>4, <2>1 DEF send_raw
  <1>5. CASE \E code \in CloseCodes : close(t, code)
    <2>1. PICK code : close(t, code)
      BY <1>5
    <2>2. out' \in [Task -> OutFrame]
      BY <2>1, BuiltFits, SendsData DEF close
    <2> QED BY <1>1, <2>1, <2>2 DEF close
  <1>6. CASE read_message(t)
    BY <1>6 DEF read_message
  <1>7. CASE Cancel(t)
    <2>1. 0 \in Nat
      BY SMT
    <2> QED BY <1>7, <2>1, WrittenValues DEF Cancel, Return, SendDone
  <1> QED BY <1>3, <1>4, <1>5, <1>6, <1>7 DEF Call

(* The end of a call.                                                      *)
LEMMA ReturnData ==
    ASSUME DataInv, NEW t \in Task, NEW ends, Return(t, ends)
    PROVE  /\ out' \in [Task -> OutFrame] /\ ahead' \in [Task -> Nat]
           /\ over' \subseteq Task
  <1>1. 0 \in Nat
    BY SMT
  <1> QED BY <1>1, WrittenValues DEF Return, SendDone, DataInv

(* The steps of send_frame_into and write_all.                             *)
LEMMA SendData ==
    ASSUME LockInv, WireInv, DataInv, NEW t \in Task, Send(t)
    PROVE  DataInv'
  <1> USE DEF DataInv, state, tasks, stream, peer, seen
  <1>1. CASE LockOutbound(t)
    BY <1>1 DEF LockOutbound
  <1>2. CASE LockStreamWrite(t)
    BY <1>2 DEF LockStreamWrite
  <1>3. CASE write_all(t)
    <2> DEFINE piece == [frame |-> IF Raw(t) THEN out[t] ELSE outbound,
                         meant |-> out[t], part |-> written + 1]
    <2>1. piece \in Piece
      <3>1. written + 1 \in {1, 2}
        BY <1>3, SMT DEF write_all, WireInv
      <3> QED BY <3>1 DEF Piece
    <2>2. wire' = Append(wire, piece)
      BY <1>3 DEF write_all
    <2> HIDE DEF piece
    <2>3. wire' \in Seq(Piece)
      BY <2>1, <2>2, SMT
    <2> QED BY <1>3, <2>3 DEF write_all
  <1>4. CASE Written(t)
    <2>1. 0 \in Nat
      BY SMT
    <2> QED BY <1>4, <2>1, ReturnData, WrittenValues DEF Written, SendDone
  <1>5. CASE WriteFails(t)
    BY <1>5, ReturnData DEF WriteFails
  <1>6. CASE ClearOpen(t)
    BY <1>6, ReturnData, WrittenValues DEF ClearOpen
  <1> QED BY <1>1, <1>2, <1>3, <1>4, <1>5, <1>6 DEF Send

(* The steps of read_frame.                                                *)
LEMMA ReadData ==
    ASSUME StreamInv, DataInv, NEW t \in Task, Read(t)
    PROVE  DataInv'
  <1> USE DEF DataInv, state, stream, peer, seen
  <1>1. CASE read_frame(t)
    BY <1>1, ReturnData DEF read_frame
  <1>2. CASE LockReadState(t)
    BY <1>2 DEF LockReadState
  <1>3. CASE Parse(t)
    <2> DEFINE r == parse(parser, buf)
    <2>1. r.parser \in Parser
      <3>1. PICK fs \in Seq(InFrame) : Pending(parser, fs, buf \o socket)
        BY DEF StreamInv
      <3>2. Decodes(r, fs, socket)
        BY <3>1, ParseDecodes DEF StreamInv
      <3> QED BY <3>2 DEF Decodes
    <2>2. /\ UNCHANGED <<open, last_close, fragment, outbound, calls, bursts, wire>>
          /\ ParseComplete(t, r) \/ ParseError(t, r) \/ ParseIncomplete(t, r)
      BY <1>3 DEF Parse
    <2> HIDE DEF r
    <2>3. CASE ParseComplete(t, r)
      <3>1. take_frame(r.parser) \in InFrame
        BY <2>1, TakenFrame
      <3>2. /\ frame' \in [Task -> InFrame]
            /\ \/ UNCHANGED <<out, over, ahead>>
               \/ \E ends : Return(t, ends)
        BY <2>3, <3>1 DEF ParseComplete
      <3> QED BY <2>2, <3>2, ReturnData
    <2>4. CASE ParseError(t, r)
      BY <2>2, <2>4, ErrorsSend DEF ParseError
    <2>5. CASE ParseIncomplete(t, r)
      BY <2>2, <2>5 DEF ParseIncomplete
    <2> QED BY <2>2, <2>3, <2>4, <2>5
  <1>4. CASE LockStreamRead(t)
    BY <1>4 DEF LockStreamRead
  <1>5. CASE \E n \in 1..Len(socket) : StreamRead(t, n)
    <2>1. \A n \in Nat : n + 1 \in Nat
      BY SMT
    <2> QED BY <1>5, <2>1 DEF StreamRead, Received
  <1>6. CASE StreamEnds(t)
    BY <1>6 DEF StreamEnds
  <1>7. CASE StreamFails(t)
    BY <1>7, ReturnData DEF StreamFails
  <1> QED BY <1>1, <1>2, <1>3, <1>4, <1>5, <1>6, <1>7 DEF Read

(* A complete message.                                                     *)
LEMMA DeliverData ==
    ASSUME DataInv, NEW t \in Task, NEW message \in OutFrame, NEW free,
           deliver_message(t, message, free)
    PROVE  out' \in [Task -> OutFrame] /\ over' \subseteq Task
  BY SendsData, ErrorsSend DEF DataInv, echo_session

(* The steps that dispatch a frame.                                        *)
LEMMA HandleKeepsData ==
    ASSUME CodeInv, DataInv, NEW t \in Task, Handle(t)
    PROVE  DataInv'
  <1> USE DEF DataInv, state, stream, peer, seen
  <1>1. FrameDone(t) => frame' \in [Task -> InFrame]
    BY WrittenValues DEF FrameDone
  <1>2. frame[t].pl \in Seq(Byte)
    BY FrameFields
  <1>3. /\ fragment.op \in {"TEXT", "BINARY"} /\ fragment.buffer \in Seq(Byte)
        /\ {"TEXT", "BINARY"} \subseteq Opcode
    BY SMT DEF Fragment, Opcode, DataOp
  <1>4. pc[t] = "fragment" /\ frame[t].op # "CONTINUATION" =>
            frame[t].op \in {"TEXT", "BINARY"}
    BY DEF CodeInv, DataOp
  <1>5. CASE handle_close_frame(t)
    BY <1>1, <1>5, BuiltFits DEF handle_close_frame, send_frame_into
  <1>6. CASE HandlePing(t)
    <2>1. [op |-> "PONG", pl |-> frame[t].pl] \in OutFrame
      BY <1>2, WrittenValues DEF Opcode
    <2> QED BY <1>1, <1>6, <2>1 DEF HandlePing, send_frame_into
  <1>7. CASE HandlePong(t)
    BY <1>1, <1>7 DEF HandlePong
  <1>8. CASE HandleData(t)
    BY <1>8 DEF HandleData
  <1>9. CASE FragmentError(t)
    BY <1>1, <1>9, ErrorsSend DEF FragmentError
  <1>10. CASE FragmentStarts(t)
    <2>1. [active |-> TRUE, op |-> frame[t].op, buffer |-> frame[t].pl] \in Fragment
      BY <1>2, <1>4, <1>10 DEF FragmentStarts, LockFragment, Fragment
    <2> QED BY <1>1, <1>10, <2>1 DEF FragmentStarts
  <1>11. CASE FragmentGoesOn(t)
    <2>1. fragment.buffer \o frame[t].pl \in Seq(Byte)
      BY <1>2, <1>3, SMT
    <2>2. [fragment EXCEPT !.buffer = @ \o frame[t].pl] \in Fragment
      BY <2>1 DEF Fragment
    <2> QED BY <1>1, <1>11, <2>2 DEF FragmentGoesOn
  <1>12. CASE FragmentEnds(t)
    <2>1. fragment.buffer \o frame[t].pl \in Seq(Byte)
      BY <1>2, <1>3, SMT
    <2>2. [op |-> fragment.op, pl |-> fragment.buffer \o frame[t].pl] \in OutFrame
      BY <1>3, <2>1, WrittenValues
    <2> QED BY <1>1, <1>12, <2>2, DeliverData, WrittenValues DEF FragmentEnds
  <1>13. CASE WholeMessage(t)
    <2>1. [op |-> frame[t].op, pl |-> frame[t].pl] \in OutFrame
      BY <1>2, <1>3, <1>4, <1>13, WrittenValues DEF WholeMessage, LockFragment
    <2> QED BY <1>1, <1>13, <2>1, DeliverData DEF WholeMessage
  <1> QED BY <1>5, <1>6, <1>7, <1>8, <1>9, <1>10, <1>11, <1>12, <1>13 DEF Handle

(* Any step.                                                               *)
LEMMA NextData ==
    LockInv /\ WireInv /\ CodeInv /\ StreamInv /\ DataInv /\ [Next]_vars => DataInv'
  <1> SUFFICES ASSUME LockInv, WireInv, CodeInv, StreamInv, DataInv, [Next]_vars
               PROVE  DataInv'
    OBVIOUS
  <1>1. ASSUME NEW t \in Task, Call(t) \/ Send(t) \/ Read(t) \/ Handle(t) PROVE DataInv'
    BY <1>1, CallData, SendData, ReadData, HandleKeepsData
  <1>2. CASE PeerSends
    <2>1. bursts + 1 \in 0..MaxBursts
      BY <1>2, RsAssumption, CountsOn DEF PeerSends, DataInv
    <2> QED BY <1>2, <2>1 DEF PeerSends, DataInv, state, tasks, seen
  <1>3. CASE PeerLeaves \/ UNCHANGED vars
    BY <1>3 DEF PeerLeaves, DataInv, vars, state, tasks, stream, peer, seen
  <1> QED BY <1>1, <1>2, <1>3 DEF Next

(* The fields of struct Connection, of its parser and its fragments, and   *)
(* the frames in hand keep the types the code declares: a close code fits  *)
(* 16 bits, a fragment is text or binary and has bytes, and each mutex is  *)
(* held by one task and waited for by tasks.                               *)
THEOREM TypesAreKept == Spec => []TypeOK
  <1> DEFINE I == LockInv /\ WireInv /\ CodeInv /\ StreamInv /\ QueueInv /\ DataInv
  <1>1. I => TypeOK
    <2> SUFFICES ASSUME I PROVE TypeOK
      OBVIOUS
    <2>1. /\ parser.state \in {"Header", "Payload"} /\ parser.remaining \in Nat
          /\ parser.buffer \in Seq(Byte) /\ buf \in Seq(Unit) /\ socket \in Seq(Unit)
      BY SMT DEF StreamInv, Parser
    <2>2. taken \in Seq(InFrame) /\ sent \in Seq(InFrame)
      <3>1. PICK fs \in Seq(InFrame) : sent = taken \o fs
        BY DEF StreamInv
      <3>2. taken \in Seq(InFrame)
        BY DEF StreamInv
      <3> QED BY <3>1, <3>2, SMT
    <2>3. /\ fragment.active \in BOOLEAN /\ fragment.op \in {"TEXT", "BINARY"}
          /\ fragment.buffer \in Seq(Byte)
      BY DEF DataInv, Fragment
    <2>4. queue \in [Lock -> Seq(Task)]
      BY DEF QueueInv, Queue
    <2>5. ASSUME NEW i \in DOMAIN wire
          PROVE  /\ wire[i].frame \in OutFrame
                 /\ wire[i].meant \in OutFrame /\ wire[i].part \in {1, 2}
      <3>1. wire[i] \in Piece
        <4>1. wire \in Seq(Piece)
          BY DEF DataInv
        <4> QED BY <4>1, SMT
      <3> QED BY <3>1 DEF Piece
    <2> QED BY <2>1, <2>2, <2>3, <2>4, <2>5 DEF TypeOK, LockInv, ControlType, After,
               WireInv, DataInv
  <1>2. Init => I
    BY InitLocks, InitWire, InitCodes, InitStream, InitQueues, InitData
  <1>3. I /\ [Next]_vars => I'
    BY NextLocks, NextWire, NextCodes, NextStream, NextQueues, NextData
  <1> QED BY <1>1, <1>2, <1>3, PTL DEF Spec
=============================================================================
