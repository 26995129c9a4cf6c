------------------------ MODULE RsConnectionProofs ------------------------
(***************************************************************************)
(* Proofs about the ws-rs connection, for any number of tasks, frames and  *)
(* calls.  The invariant of the locks, and what ws-rs writes, hold for     *)
(* mutexes that queue as for those that do not; only the last theorem      *)
(* needs that a lock is granted in turn.                                   *)
(***************************************************************************)
EXTENDS RsConnection, TLAPS

(* As in ConnectionProofs: the leaves that need it name the SMT solver.    *)
USE Zenon

After == {"return", "raw", "is_open", "clear_open"}

(* The control state, as far as the argument needs it.                     *)
ControlType ==
    /\ holder \in [Lock -> Task \cup {NoTask}]
    /\ pc \in [Task -> Point] /\ after \in [Task -> After]
    /\ DOMAIN out = Task

(* Where a task may be while it holds each lock.                           *)
HeldAt(t) ==
    /\ holder["read_state"] = t => pc[t] \in {"parse", "want_read", "reading"}
    /\ holder["fragment"] = t =>
           pc[t] = "clear_open" \/ (pc[t] \in Sending /\ after[t] = "clear_open")
    /\ holder["outbound"] = t => pc[t] \in {"want_write", "writing"}
    /\ holder["stream"] = t => pc[t] \in {"reading", "writing"}

(* The locks a task has where it needs them, and the buffer with them.     *)
Owns(t) ==
    /\ pc[t] \in {"parse", "want_read", "reading"} => holder["read_state"] = t
    /\ pc[t] \in {"reading", "writing"} => holder["stream"] = t
    /\ pc[t] \in {"want_write", "writing"} /\ after[t] # "raw" =>
           holder["outbound"] = t /\ outbound = out[t]

LockInv == ControlType /\ \A t \in Task : HeldAt(t) /\ Owns(t)

(* At first no lock is held.                                               *)
LEMMA InitLocks == Init => LockInv
  BY TaskAssumption, SMT DEF Init, LockInv, ControlType, HeldAt, Owns, Point, Sending, After, Lock

(* A step of one task, by what it does to the locks.                       *)
LEMMA CallLocks == ASSUME LockInv, NEW t \in Task, Call(t) PROVE LockInv'
  <1> USE TaskAssumption DEF LockInv, ControlType, HeldAt, Owns, Point, Sending, After, Lock,
          Move, Relock, state, tasks, stream, seen, peer
  <1>1. CASE \E op \in Ops : send(t, op)
    BY <1>1, SMT DEF send, send_frame_into
  <1>2. CASE send_raw(t)
    BY <1>2, SMT DEF send_raw
  <1>3. CASE \E code \in CloseCodes : close(t, code)
    BY <1>3, SMT DEF close, send_frame_into
  <1>4. CASE read_message(t)
    BY <1>4, SMT DEF read_message
  <1>5. CASE Cancel(t)
    BY <1>5, SMT DEF Cancel, Return, SendDone
  <1> QED BY <1>1, <1>2, <1>3, <1>4, <1>5 DEF Call

(* A task on its way through send_frame_into and send_raw.                 *)
LEMMA SendLocks == ASSUME LockInv, NEW t \in Task, Send(t) PROVE LockInv'
  <1> USE TaskAssumption DEF LockInv, ControlType, HeldAt, Owns, Point, Sending, After, Lock,
          Move, Relock, state, tasks, stream, seen, peer
  <1>1. CASE LockOutbound(t)
    BY <1>1, SMT DEF LockOutbound, Granted
  <1>2. CASE LockStreamWrite(t)
    BY <1>2, SMT DEF LockStreamWrite, Granted
  <1>3. CASE write_all(t)
    BY <1>3 DEF write_all
  <1>4. CASE Written(t)
    BY <1>4, SMT DEF Written, Return, SendDone
  <1>5. CASE WriteFails(t)
    BY <1>5, SMT DEF WriteFails, Return, SendDone
  <1>6. CASE ClearOpen(t)
    BY <1>6, SMT DEF ClearOpen, Return, SendDone
  <1> QED BY <1>1, <1>2, <1>3, <1>4, <1>5, <1>6 DEF Send

(* A task in read_frame.                                                   *)
LEMMA ReadLocks == ASSUME LockInv, NEW t \in Task, Read(t) PROVE LockInv'
  <1> USE TaskAssumption DEF LockInv, ControlType, HeldAt, Owns, Point, Sending, After, Lock,
          Move, Relock, state, tasks, stream, seen, peer
  <1>1. CASE read_frame(t)
    BY <1>1, SMT DEF read_frame, Return, SendDone
  <1>2. CASE LockReadState(t)
    BY <1>2, SMT DEF LockReadState, Granted
  <1>3. CASE Parse(t)
    <2>0. PICK parsed : \/ ParseComplete(t, parsed) \/ ParseError(t, parsed)
                        \/ ParseIncomplete(t, parsed)
      BY <1>3 DEF Parse
    <2>1. CASE ParseComplete(t, parsed)
      <3>1. \/ Move(t, "handle", {}, {"read_state"}) /\ UNCHANGED <<out, after>>
            \/ Return(t, TRUE)
        BY <2>1 DEF ParseComplete
      <3>2. pc[t] = "parse" /\ UNCHANGED outbound
        BY <1>3 DEF Parse
      <3>3. CASE Move(t, "handle", {}, {"read_state"}) /\ UNCHANGED <<out, after>>
        BY <3>2, <3>3, SMT
      <3>4. CASE Return(t, TRUE)
        BY <3>2, <3>4, SMT DEF Return, SendDone
      <3> QED BY <3>1, <3>3, <3>4
    <2>2. CASE ParseError(t, parsed)
      BY <1>3, <2>2, SMT DEF Parse, ParseError, fail, send_frame_into
    <2>3. CASE ParseIncomplete(t, parsed)
      BY <1>3, <2>3, SMT DEF Parse, ParseIncomplete
    <2> QED BY <2>0, <2>1, <2>2, <2>3
  <1>4. CASE LockStreamRead(t)
    BY <1>4, SMT DEF LockStreamRead, Granted
  <1>5. CASE \E n \in 1..Len(socket) : StreamRead(t, n)
    BY <1>5, SMT DEF StreamRead, Received
  <1>6. CASE StreamEnds(t)
    BY <1>6, SMT DEF StreamEnds
  <1>7. CASE StreamFails(t)
    BY <1>7, SMT DEF StreamFails, Return, SendDone
  <1> QED BY <1>1, <1>2, <1>3, <1>4, <1>5, <1>6, <1>7 DEF Read

(* A task that handles the frame read_frame has returned.                  *)
LEMMA HandleLocks == ASSUME LockInv, NEW t \in Task, Handle(t) PROVE LockInv'
  <1> USE TaskAssumption DEF LockInv, ControlType, HeldAt, Owns, Point, Sending, After, Lock,
          Move, Relock, state, tasks, stream, seen, peer, LockFragment, Granted
  <1>0. ASSUME NEW message, NEW free \in SUBSET {"fragment"}, LockFragment(t),
               deliver_message(t, message, free), UNCHANGED outbound
        PROVE  LockInv'
    BY <1>0, SMT DEF deliver_message, echo_session, fail, send_frame_into
  <1>1. CASE handle_close_frame(t)
    BY <1>1, SMT DEF handle_close_frame, send_frame_into
  <1>2. CASE HandlePing(t)
    BY <1>2, SMT DEF HandlePing, send_frame_into
  <1>3. CASE HandlePong(t)
    BY <1>3, SMT DEF HandlePong
  <1>4. CASE HandleData(t)
    BY <1>4, SMT DEF HandleData
  <1>5. CASE FragmentError(t)
    BY <1>5, SMT DEF FragmentError, fail, send_frame_into
  <1>6. CASE FragmentStarts(t)
    BY <1>6, SMT DEF FragmentStarts
  <1>7. CASE FragmentGoesOn(t)
    BY <1>7, SMT DEF FragmentGoesOn
  <1>8. CASE FragmentEnds(t)
    BY <1>0, <1>8, SMT DEF FragmentEnds
  <1>9. CASE WholeMessage(t)
    BY <1>0, <1>9, SMT DEF WholeMessage
  <1> QED BY <1>1, <1>2, <1>3, <1>4, <1>5, <1>6, <1>7, <1>8, <1>9 DEF Handle

(* Any step.                                                               *)
LEMMA NextLocks == LockInv /\ [Next]_vars => LockInv'
  <1> SUFFICES ASSUME LockInv, [Next]_vars PROVE LockInv'
    OBVIOUS
  <1>1. ASSUME NEW t \in Task, Call(t) \/ Send(t) \/ Read(t) \/ Handle(t) PROVE LockInv'
    BY <1>1, CallLocks, SendLocks, ReadLocks, HandleLocks
  <1>2. CASE PeerSends \/ PeerLeaves
    BY <1>2, SMT DEF PeerSends, PeerLeaves, LockInv, ControlType, HeldAt, Owns, state, tasks
  <1>3. CASE UNCHANGED vars
    BY <1>3 DEF vars, LockInv, ControlType, HeldAt, Owns, state, tasks
  <1> QED BY <1>1, <1>2, <1>3 DEF Next

(* For any number of tasks that read, send, answer and close, and however  *)
(* the mutexes are granted, a task of connection.rs that waits for one     *)
(* holds only mutexes that come before it: none can wait in a circle.      *)
THEOREM NoCircleOfWaits == Spec => []LockOrder
  <1>1. LockInv => LockOrder
    BY SMT DEF LockInv, ControlType, HeldAt, LockOrder, Awaits, Rank, Lock, Sending, Point
  <1> QED BY InitLocks, NextLocks, <1>1, PTL DEF Spec
-----------------------------------------------------------------------------
(* Frames on the wire *)

(* The pieces on the wire alternate, and a frame that is half out is the   *)
(* frame of the task that writes; after a reset nothing more goes out.     *)
WireInv ==
    /\ \E S : wire \in Seq(S)
    /\ written \in 0..2 /\ link \in {"up", "ended", "reset"}
    /\ FramesWhole
    /\ link # "reset" =>
        /\ (\A t \in Task : pc[t] # "writing") => Len(wire) % 2 = 0
        /\ \A t \in Task : pc[t] = "writing" =>
               /\ Len(wire) % 2 = written % 2
               /\ written = 1 => wire[Len(wire)].frame = out[t]

(* A step that is not a write: the same task is writing, the same frame.   *)
NotAWrite ==
    /\ UNCHANGED <<written, wire, link>>
    /\ \A t \in Task : /\ (pc'[t] = "writing") = (pc[t] = "writing")
                       /\ pc[t] = "writing" => out'[t] = out[t]

(* At first nothing has been written.                                      *)
LEMMA InitWire == Init => WireInv
  <1> SUFFICES ASSUME Init PROVE WireInv
    OBVIOUS
  <1>1. wire \in Seq({})
    BY SMT DEF Init
  <1> QED BY <1>1, SMT DEF Init, WireInv, FramesWhole

(* Such a step keeps the invariant.                                        *)
LEMMA WireKept == ASSUME WireInv, NotAWrite PROVE WireInv'
  BY DEF WireInv, NotAWrite, FramesWhole

(* Appending to a sequence, whatever its elements are.                     *)
LEMMA AppendIsSeq ==
    ASSUME NEW S, NEW s \in Seq(S), NEW x
    PROVE  Append(s, x) \in Seq(S \cup {x})
  <1>1. s \in Seq(S \cup {x})
    BY SMT
  <1> QED BY <1>1, SMT

(* Odd and even numbers of pieces.                                         *)
LEMMA Parity ==
    /\ \A n \in Nat : n % 2 = 0 => (n + 1) % 2 = 1
    /\ \A n \in Nat : n % 2 = 1 => (n + 1) % 2 = 0 /\ n \in 1..n
    /\ \A n \in Nat : \A i \in 1..n : i % 2 = 0 => i - 1 \in 1..n
    /\ \A n \in Nat : \A i \in 1..n : 2 - (i % 2) = 2 => i % 2 = 0
  BY SMT

(* A call of the application does not write.                               *)
LEMMA CallWire == ASSUME ControlType, NEW t \in Task, Call(t) PROVE NotAWrite
  <1> USE DEF ControlType, NotAWrite, Move, stream
  <1>1. CASE \E op \in Ops : send(t, op)
    BY <1>1 DEF send, send_frame_into
  <1>2. CASE send_raw(t)
    BY <1>2 DEF send_raw
  <1>3. CASE \E code \in CloseCodes : close(t, code)
    BY <1>3 DEF close, send_frame_into
  <1>4. CASE read_message(t)
    BY <1>4 DEF read_message
  <1>5. CASE Cancel(t)
    BY <1>5 DEF Cancel, Return, SendDone
  <1> QED BY <1>1, <1>2, <1>3, <1>4, <1>5 DEF Call

(* read_frame does not write.                                              *)
LEMMA ReadWire == ASSUME ControlType, NEW t \in Task, Read(t) PROVE NotAWrite
  <1> USE DEF ControlType, NotAWrite, Move, stream
  <1>1. CASE read_frame(t)
    BY <1>1 DEF read_frame, Return, SendDone
  <1>2. CASE LockReadState(t)
    BY <1>2 DEF LockReadState
  <1>3. CASE Parse(t)
    <2>0. PICK parsed : \/ ParseComplete(t, parsed) \/ ParseError(t, parsed)
                        \/ ParseIncomplete(t, parsed)
      BY <1>3 DEF Parse
    <2>1. CASE ParseComplete(t, parsed)
      BY <1>3, <2>1 DEF Parse, ParseComplete, Return, SendDone
    <2>2. CASE ParseError(t, parsed)
      BY <1>3, <2>2, SMT DEF Parse, ParseError, fail, send_frame_into
    <2>3. CASE ParseIncomplete(t, parsed)
      BY <1>3, <2>3 DEF Parse, ParseIncomplete
    <2> QED BY <2>0, <2>1, <2>2, <2>3
  <1>4. CASE LockStreamRead(t)
    BY <1>4 DEF LockStreamRead
  <1>5. CASE \E n \in 1..Len(socket) : StreamRead(t, n)
    BY <1>5 DEF StreamRead, Received
  <1>6. CASE StreamEnds(t)
    BY <1>6 DEF StreamEnds
  <1>7. CASE StreamFails(t)
    BY <1>7 DEF StreamFails, Return, SendDone
  <1> QED BY <1>1, <1>2, <1>3, <1>4, <1>5, <1>6, <1>7 DEF Read

(* Handling a frame does not write; it may start to send.                  *)
LEMMA HandleWire == ASSUME ControlType, NEW t \in Task, Handle(t) PROVE NotAWrite
  <1> USE DEF ControlType, NotAWrite, Move, stream, LockFragment
  <1>0. ASSUME NEW message, NEW free, LockFragment(t), deliver_message(t, message, free),
               UNCHANGED stream
        PROVE  NotAWrite
    BY <1>0, SMT DEF deliver_message, echo_session, fail, send_frame_into
  <1>1. CASE handle_close_frame(t)
    BY <1>1 DEF handle_close_frame, send_frame_into
  <1>2. CASE HandlePing(t)
    BY <1>2 DEF HandlePing, send_frame_into
  <1>3. CASE HandlePong(t)
    BY <1>3 DEF HandlePong
  <1>4. CASE HandleData(t)
    BY <1>4 DEF HandleData
  <1>5. CASE FragmentError(t)
    BY <1>5, SMT DEF FragmentError, fail, send_frame_into
  <1>6. CASE FragmentStarts(t)
    BY <1>6 DEF FragmentStarts
  <1>7. CASE FragmentGoesOn(t)
    BY <1>7 DEF FragmentGoesOn
  <1>8. CASE FragmentEnds(t)
    BY <1>0, <1>8 DEF FragmentEnds
  <1>9. CASE WholeMessage(t)
    BY <1>0, <1>9 DEF WholeMessage
  <1> QED BY <1>1, <1>2, <1>3, <1>4, <1>5, <1>6, <1>7, <1>8, <1>9 DEF Handle

(* Only one task writes at a time.                                         *)
LEMMA OneWriter ==
    ASSUME LockInv, NEW t \in Task, pc[t] = "writing", NEW u \in Task, pc[u] = "writing"
    PROVE  u = t
  BY DEF LockInv, Owns

(* Only send_raw does, with the stream locked.                             *)
LEMMA SendWire == ASSUME LockInv, WireInv, NEW t \in Task, Send(t) PROVE WireInv'
  <1> USE DEF LockInv, ControlType
  <1>1. CASE LockOutbound(t)
    BY <1>1, WireKept DEF LockOutbound, NotAWrite, Move, stream
  <1>2. CASE LockStreamWrite(t)
    <2>1. \A u \in Task : pc[u] # "writing"
      BY <1>2, TaskAssumption DEF LockStreamWrite, Granted, Owns
    <2>2. /\ UNCHANGED <<wire, link, out>> /\ written' = 0
          /\ \A u \in Task : pc'[u] = "writing" => u = t
      BY <1>2, <2>1 DEF LockStreamWrite, Move
    <2> QED BY <2>1, <2>2, SMT DEF WireInv, FramesWhole
  <1>3. CASE write_all(t)
    <2>1. PICK S : wire \in Seq(S)
      BY DEF WireInv
    <2> DEFINE piece == [frame |-> IF Raw(t) THEN out[t] ELSE outbound,
                         meant |-> out[t], part |-> written + 1]
    <2>2. /\ pc[t] = "writing" /\ written < 2 /\ link # "reset"
          /\ written' = written + 1 /\ wire' = Append(wire, piece)
          /\ UNCHANGED <<pc, out, link>>
      BY <1>3 DEF write_all, tasks
    <2>3. piece.frame = out[t] /\ piece.meant = out[t] /\ piece.part = written + 1
      BY <2>2 DEF Raw, Owns
    <2> HIDE DEF piece
    <2>a. written \in {0, 1}
      <3>1. written \in 0..2
        BY DEF WireInv
      <3>2. written < 2
        BY <2>2
      <3> QED BY <3>1, <3>2, SMT
    <2>b. FramesWhole
      BY DEF WireInv
    <2>c. /\ Len(wire) % 2 = written % 2
          /\ written = 1 => wire[Len(wire)].frame = out[t]
      BY <2>2 DEF WireInv
    <2>4. /\ written = 0 => Len(wire) % 2 = 0
          /\ written = 1 => Len(wire) % 2 = 1 /\ wire[Len(wire)].frame = out[t]
      BY <2>a, <2>c, SMT
    <2>5. /\ Len(wire') = Len(wire) + 1 /\ Len(wire) \in Nat
          /\ DOMAIN wire' = DOMAIN wire \cup {Len(wire) + 1} /\ DOMAIN wire = 1..Len(wire)
          /\ \A i \in DOMAIN wire : wire'[i] = wire[i]
          /\ wire'[Len(wire) + 1] = piece
          /\ \E R : wire' \in Seq(R)
      <3>1. wire' = Append(wire, piece)
        BY <2>2
      <3>2. wire' \in Seq(S \cup {piece})
        BY <2>1, <3>1, AppendIsSeq
      <3> QED BY <2>1, <3>1, <3>2, SMT
    <2>6. FramesWhole'
      <3> SUFFICES ASSUME NEW i \in DOMAIN wire'
                   PROVE  /\ wire'[i].frame = wire'[i].meant
                          /\ wire'[i].part = 2 - (i % 2)
                          /\ wire'[i].part = 2 => wire'[i].frame = wire'[i - 1].frame
        BY DEF FramesWhole
      <3>1. CASE i \in DOMAIN wire
        <4>1. wire[i].part = 2 => i - 1 \in DOMAIN wire
          <5>1. wire[i].part = 2 - (i % 2)
            BY <2>b, <3>1 DEF FramesWhole
          <5> QED BY <2>5, <3>1, <5>1, Parity
        <4> QED BY <2>b, <2>5, <3>1, <4>1 DEF FramesWhole
      <3>2. CASE i = Len(wire) + 1
        <4>1. CASE written = 0
          BY <2>3, <2>4, <2>5, <3>2, <4>1, Parity, SMT
        <4>2. CASE written = 1
          <5>1. Len(wire) % 2 = 1 /\ Len(wire) \in DOMAIN wire
            BY <2>4, <2>5, <4>2, Parity
          <5> QED BY <2>3, <2>4, <2>5, <3>2, <4>2, <5>1, Parity, SMT
        <4> QED BY <2>a, <4>1, <4>2
      <3> QED BY <2>5, <3>1, <3>2
    <2>7. \A u \in Task : pc'[u] = "writing" => u = t
      BY <2>2, OneWriter
    <2>8. Len(wire') % 2 = written' % 2 /\ wire'[Len(wire')].frame = out[t]
      <3>1. wire'[Len(wire')].frame = out[t]
        BY <2>3, <2>5
      <3>2. Len(wire') % 2 = written' % 2
        BY <2>2, <2>a, <2>4, <2>5, Parity, SMT
      <3> QED BY <3>1, <3>2
    <2>9. written' \in 0..2 /\ link' \in {"up", "ended", "reset"}
      BY <2>2, <2>a, SMT DEF WireInv
    <2> QED BY <2>2, <2>5, <2>6, <2>7, <2>8, <2>9 DEF WireInv
  <1>4. CASE Written(t)
    <2>1. /\ pc[t] = "writing" /\ written = 2 /\ written' = 0 /\ UNCHANGED <<wire, link>>
          /\ \A u \in Task : u # t => pc'[u] = pc[u]
          /\ pc'[t] # "writing"
      BY <1>4 DEF Written, Return, Move
    <2>2. \A u \in Task : pc'[u] # "writing"
      BY <2>1, OneWriter
    <2>3. link # "reset" => Len(wire) % 2 = 0
      BY <2>1, SMT DEF WireInv
    <2> QED BY <2>1, <2>2, <2>3, SMT DEF WireInv, FramesWhole
  <1>5. CASE WriteFails(t)
    <2>1. UNCHANGED wire /\ written' = 0 /\ link' = "reset"
      BY <1>5 DEF WriteFails
    <2> QED BY <2>1, SMT DEF WireInv, FramesWhole
  <1>6. CASE ClearOpen(t)
    BY <1>6, WireKept DEF ClearOpen, Return, SendDone, NotAWrite, Move, stream
  <1> QED BY <1>1, <1>2, <1>3, <1>4, <1>5, <1>6 DEF Send

(* Any step.                                                               *)
LEMMA NextWire == LockInv /\ WireInv /\ [Next]_vars => WireInv'
  <1> SUFFICES ASSUME LockInv, WireInv, [Next]_vars PROVE WireInv'
    OBVIOUS
  <1>1. ASSUME NEW t \in Task, Call(t) \/ Send(t) \/ Read(t) \/ Handle(t) PROVE WireInv'
    BY <1>1, CallWire, SendWire, ReadWire, HandleWire, WireKept DEF LockInv
  <1>2. CASE PeerSends
    BY <1>2, WireKept DEF PeerSends, NotAWrite, tasks
  <1>3. CASE PeerLeaves
    BY <1>3 DEF PeerLeaves, WireInv, FramesWhole, tasks
  <1>4. CASE UNCHANGED vars
    BY <1>4, WireKept DEF vars, NotAWrite, tasks, stream
  <1> QED BY <1>1, <1>2, <1>3, <1>4 DEF Next

(* For any number of tasks that send, answer pings and close at the same   *)
(* time, the frames send_raw writes leave one after the other, each as     *)
(* send_frame_into built it, also if the peer leaves in the middle of one. *)
THEOREM FramesLeaveWhole == Spec => []FramesWhole
  <1>1. WireInv => FramesWhole
    BY DEF WireInv
  <1> QED BY InitLocks, NextLocks, InitWire, NextWire, <1>1, PTL DEF Spec
-----------------------------------------------------------------------------
(* Close codes *)

ValidClose(f) == f.op = "CLOSE" => MaySendCode(f.pl[1] * 256 + f.pl[2])

(* Every frame a task has in hand is one that may be sent; a frame that    *)
(* waits for the fragment lock, and the message put together so far, are   *)
(* data.                                                                   *)
CodeInv ==
    /\ DOMAIN frame = Task /\ DOMAIN fragment = {"active", "op", "buffer"}
    /\ fragment.op # "CLOSE"
    /\ \A t \in Task : pc[t] = "fragment" => frame[t].op \in DataOp
    /\ \A t \in Task : ValidClose(out[t])

(* sanitize_close_code gives a code that may be sent.                      *)
LEMMA SanitizedIsValid == \A code : is_valid_close_code(sanitize_close_code(code))
  BY SMT DEF sanitize_close_code, is_valid_close_code

(* The two bytes of a close payload are those of its code.                 *)
LEMMA ClosePayload ==
    ASSUME NEW code, is_valid_close_code(code) PROVE ValidClose(build_close(code))
  <1>0. MaySendCode(code)
    BY SMT DEF is_valid_close_code, MaySendCode
  <1>1. code \in 1000..4999
    BY SMT DEF is_valid_close_code
  <1>2. (code \div 256) * 256 + (code % 256) = code
    BY <1>1, SMT
  <1> DEFINE f == build_close(code)
  <1>3. f.pl[1] * 256 + f.pl[2] = code
    BY <1>2 DEF build_close
  <1> QED BY <1>0, <1>3 DEF ValidClose

(* What is built from the application's code and from the peer's payload.  *)
LEMMA BuiltIsValid ==
    /\ \A code : ValidClose(build_close(sanitize_close_code(code)))
    /\ \A pl : ValidClose(build_close(parse_close_payload(pl)))
  <1>1. is_valid_close_code(1000)
    BY SMT DEF is_valid_close_code
  <1>2. \A pl : is_valid_close_code(parse_close_payload(pl))
    BY <1>1, SanitizedIsValid DEF parse_close_payload
  <1> QED BY <1>2, SanitizedIsValid, ClosePayload

(* The empty outbound buffer is not a close frame.                         *)
LEMMA NothingIsValid == ValidClose(Nothing)
  BY DEF ValidClose, Nothing

(* What a step of t does to what CodeInv speaks of.                        *)
CodeStep(t) ==
    /\ \A u \in Task \ {t} : pc'[u] = pc[u] /\ out'[u] = out[u] /\ frame'[u] = frame[u]
    /\ ValidClose(out'[t])
    /\ pc'[t] = "fragment" => frame'[t].op \in DataOp
    /\ DOMAIN frame' = Task
    /\ DOMAIN fragment' = {"active", "op", "buffer"} /\ fragment'.op # "CLOSE"

(* A step after which the task has a valid frame keeps the invariant.      *)
LEMMA CodesKept ==
    ASSUME CodeInv, NEW t \in Task, CodeStep(t)
    PROVE  CodeInv'
  <1>1. \A u \in Task : ValidClose(out'[u])
    BY DEF CodeStep, CodeInv
  <1>2. \A u \in Task : pc'[u] = "fragment" => frame'[u].op \in DataOp
    BY DEF CodeStep, CodeInv
  <1>3. \A u \in Task : ValidClose(out[u])'
    BY <1>1 DEF ValidClose
  <1> QED BY <1>2, <1>3 DEF CodeInv, CodeStep

(* The task sends a frame that may be sent.                                *)
SendsValid(t) ==
    /\ \A u \in Task \ {t} : pc'[u] = pc[u] /\ out'[u] = out[u]
    /\ pc'[t] = "outbound" /\ ValidClose(out'[t])

(* send_frame_into changes the frame of its own task only.                 *)
LEMMA SendKeepsOthers ==
    ASSUME ControlType, NEW t \in Task, NEW f, ValidClose(f), NEW next, NEW take, NEW free,
           send_frame_into(t, f, next, take, free)
    PROVE  SendsValid(t)
  BY DEF send_frame_into, Move, ControlType, SendsValid

(* fail sends a close frame with a valid code.                             *)
LEMMA FailSendsValid ==
    ASSUME ControlType, NEW t \in Task, NEW code \in Int, NEW take, NEW free,
           fail(t, code, take, free)
    PROVE  SendsValid(t)
  BY BuiltIsValid, SendKeepsOthers DEF fail

(* So does what is refused, by the parser or for its place in a message.   *)
LEMMA ErrorsSendValid ==
    ASSUME ControlType, NEW t \in Task
    PROVE  /\ \A parsed : ParseError(t, parsed) => SendsValid(t)
           /\ FragmentError(t) => SendsValid(t)
  BY FailSendsValid, SMT DEF ParseError, FragmentError

(* At first no task has a close frame.                                     *)
LEMMA InitCodes == Init => CodeInv
  BY SMT DEF Init, CodeInv, ValidClose, NoFragment, Nothing

(* A call of the application.                                              *)
LEMMA CallCodes == ASSUME ControlType, CodeInv, NEW t \in Task, Call(t) PROVE CodeStep(t)
  <1> USE DEF ControlType, CodeInv, CodeStep, Move, state
  <1>1. CASE \E op \in Ops : send(t, op)
    <2>1. PICK op \in Ops : send(t, op)
      BY <1>1
    <2>2. ValidClose([op |-> op, pl |-> <<calls % 256>>])
      BY OpsAssumption, SMT DEF ValidClose, DataOp
    <2> QED BY <2>1, <2>2 DEF send, send_frame_into
  <1>2. CASE send_raw(t)
    <2>1. ValidClose([op |-> "BINARY", pl |-> <<calls % 256>>])
      BY DEF ValidClose
    <2> QED BY <1>2, <2>1 DEF send_raw
  <1>3. CASE \E code \in CloseCodes : close(t, code)
    <2>1. PICK code : close(t, code)
      BY <1>3
    <2>2. ValidClose(build_close(sanitize_close_code(code)))
      BY BuiltIsValid
    <2> QED BY <2>1, <2>2 DEF close, send_frame_into
  <1>4. CASE read_message(t)
    BY <1>4 DEF read_message
  <1>5. CASE Cancel(t)
    BY <1>5, NothingIsValid DEF Cancel, Return, SendDone
  <1> QED BY <1>1, <1>2, <1>3, <1>4, <1>5 DEF Call

(* A step of sending.                                                      *)
LEMMA SendCodes == ASSUME ControlType, CodeInv, NEW t \in Task, Send(t) PROVE CodeStep(t)
  <1> USE DEF ControlType, CodeInv, CodeStep, Move, state
  <1>1. CASE LockOutbound(t)
    BY <1>1 DEF LockOutbound
  <1>2. CASE LockStreamWrite(t)
    BY <1>2 DEF LockStreamWrite
  <1>3. CASE write_all(t)
    BY <1>3 DEF write_all, tasks
  <1>4. CASE Written(t)
    BY <1>4, NothingIsValid DEF Written, Return, SendDone
  <1>5. CASE WriteFails(t)
    BY <1>5, NothingIsValid DEF WriteFails, Return, SendDone
  <1>6. CASE ClearOpen(t)
    BY <1>6, NothingIsValid DEF ClearOpen, Return, SendDone
  <1> QED BY <1>1, <1>2, <1>3, <1>4, <1>5, <1>6 DEF Send

(* A step of read_frame.                                                   *)
LEMMA ReadCodes == ASSUME ControlType, CodeInv, NEW t \in Task, Read(t) PROVE CodeStep(t)
  <1> USE DEF ControlType, CodeInv, CodeStep, Move, state
  <1>1. CASE read_frame(t)
    BY <1>1, NothingIsValid DEF read_frame, Return, SendDone
  <1>2. CASE LockReadState(t)
    BY <1>2 DEF LockReadState
  <1>3. CASE Parse(t)
    <2>0. PICK parsed : \/ ParseComplete(t, parsed) \/ ParseError(t, parsed)
                        \/ ParseIncomplete(t, parsed)
      BY <1>3 DEF Parse
    <2>1. CASE ParseComplete(t, parsed)
      BY <1>3, <2>1, NothingIsValid DEF Parse, ParseComplete, Return, SendDone
    <2>2. CASE ParseError(t, parsed)
      <3>1. SendsValid(t)
        BY <2>2, ErrorsSendValid
      <3> QED BY <1>3, <2>2, <3>1 DEF Parse, ParseError, SendsValid
    <2>3. CASE ParseIncomplete(t, parsed)
      BY <1>3, <2>3 DEF Parse, ParseIncomplete
    <2> QED BY <2>0, <2>1, <2>2, <2>3
  <1>4. CASE LockStreamRead(t)
    BY <1>4 DEF LockStreamRead
  <1>5. CASE \E n \in 1..Len(socket) : StreamRead(t, n)
    BY <1>5 DEF StreamRead, Received
  <1>6. CASE StreamEnds(t)
    BY <1>6 DEF StreamEnds
  <1>7. CASE StreamFails(t)
    BY <1>7, NothingIsValid DEF StreamFails, Return, SendDone
  <1> QED BY <1>1, <1>2, <1>3, <1>4, <1>5, <1>6, <1>7 DEF Read

(* A complete message: delivered, echoed or refused.                       *)
LEMMA DeliverCodes ==
    ASSUME ControlType, CodeInv, NEW t \in Task, NEW message, NEW free, message.op # "CLOSE",
           FrameDone(t), deliver_message(t, message, free),
           fragment' = fragment \/ fragment' = NoFragment
    PROVE  CodeStep(t)
  <1>1. /\ DOMAIN frame' = Task /\ \A u \in Task \ {t} : frame'[u] = frame[u]
        /\ DOMAIN fragment' = {"active", "op", "buffer"} /\ fragment'.op # "CLOSE"
    BY SMT DEF FrameDone, NoFragment, CodeInv
  <1>2. ValidClose(message)
    BY DEF ValidClose
  <1>3. CASE fail(t, 1007, {"fragment"}, free)
    <2>1. SendsValid(t)
      BY <1>3, FailSendsValid, SMT
    <2> QED BY <1>1, <2>1 DEF SendsValid, CodeStep
  <1>4. CASE echo_session(t, message)
    <2>1. CASE send_frame_into(t, message, "return", {"fragment"}, {"fragment"})
      <3>1. SendsValid(t)
        BY <1>2, <2>1, SendKeepsOthers
      <3> QED BY <1>1, <3>1 DEF SendsValid, CodeStep
    <2>2. CASE Move(t, "idle", {"fragment"}, {"fragment"}) /\ UNCHANGED out
      BY <1>1, <2>2 DEF Move, CodeStep, CodeInv, ControlType
    <2> QED BY <1>4, <2>1, <2>2 DEF echo_session
  <1> QED BY <1>3, <1>4 DEF deliver_message

(* A step of handling a frame.                                             *)
LEMMA HandleCodes == ASSUME ControlType, CodeInv, NEW t \in Task, Handle(t) PROVE CodeStep(t)
  <1> USE DEF ControlType, CodeInv, CodeStep, Move, state, LockFragment, FrameDone
  <1>1. CASE handle_close_frame(t)
    <2>1. ValidClose(build_close(parse_close_payload(frame[t].pl)))
      BY BuiltIsValid
    <2> QED BY <1>1, <2>1 DEF handle_close_frame, send_frame_into
  <1>2. CASE HandlePing(t)
    <2>1. ValidClose([op |-> "PONG", pl |-> frame[t].pl])
      BY DEF ValidClose
    <2> QED BY <1>2, <2>1 DEF HandlePing, send_frame_into
  <1>3. CASE HandlePong(t)
    BY <1>3 DEF HandlePong
  <1>4. CASE HandleData(t)
    BY <1>4 DEF HandleData
  <1>5. CASE FragmentError(t)
    <2>1. SendsValid(t)
      BY <1>5, ErrorsSendValid
    <2> QED BY <1>5, <2>1 DEF FragmentError, SendsValid
  <1>6. CASE FragmentStarts(t)
    BY <1>6 DEF FragmentStarts, CodeInv, DataOp
  <1>7. CASE FragmentGoesOn(t)
    BY <1>7 DEF FragmentGoesOn, CodeInv
  <1>8. CASE FragmentEnds(t)
    BY <1>8, DeliverCodes DEF FragmentEnds
  <1>9. CASE WholeMessage(t)
    BY <1>9, DeliverCodes DEF WholeMessage, DataOp
  <1> QED BY <1>1, <1>2, <1>3, <1>4, <1>5, <1>6, <1>7, <1>8, <1>9 DEF Handle

(* Any step.                                                               *)
LEMMA NextCodes == LockInv /\ CodeInv /\ [Next]_vars => CodeInv'
  <1> SUFFICES ASSUME LockInv, CodeInv, [Next]_vars PROVE CodeInv'
    OBVIOUS
  <1>1. ASSUME NEW t \in Task, Call(t) \/ Send(t) \/ Read(t) \/ Handle(t) PROVE CodeInv'
    BY <1>1, CallCodes, SendCodes, ReadCodes, HandleCodes, CodesKept DEF LockInv
  <1>2. CASE PeerSends \/ PeerLeaves
    BY <1>2 DEF PeerSends, PeerLeaves, CodeInv, state, tasks
  <1>3. CASE UNCHANGED vars
    BY <1>3 DEF vars, CodeInv, state, tasks
  <1> QED BY <1>1, <1>2, <1>3 DEF Next

(* Only write_all adds to the wire, and only the frame its task sends.     *)
LEMMA WireCodes ==
    LockInv /\ WireInv /\ CodeInv /\ CloseCodesValid /\ [Next]_vars => CloseCodesValid'
  <1> SUFFICES ASSUME LockInv, WireInv, CodeInv, CloseCodesValid, [Next]_vars
               PROVE  CloseCodesValid'
    OBVIOUS
  <1>1. CASE UNCHANGED wire
    BY <1>1 DEF CloseCodesValid
  <1>2. ASSUME NEW t \in Task, write_all(t) PROVE CloseCodesValid'
    <2>1. PICK S : wire \in Seq(S)
      BY DEF WireInv
    <2> DEFINE piece == [frame |-> IF Raw(t) THEN out[t] ELSE outbound,
                         meant |-> out[t], part |-> written + 1]
    <2>2. pc[t] = "writing" /\ wire' = Append(wire, piece)
      BY <1>2 DEF write_all
    <2>3. piece.frame = out[t] /\ ValidClose(out[t])
      BY <2>2 DEF Raw, LockInv, Owns, CodeInv
    <2> HIDE DEF piece
    <2>4. \A i \in DOMAIN wire' : (i \in DOMAIN wire /\ wire'[i] = wire[i]) \/ wire'[i] = piece
      BY <2>1, <2>2, SMT
    <2> QED BY <2>3, <2>4 DEF CloseCodesValid, ValidClose
  <1>3. (\E t \in Task : write_all(t)) \/ UNCHANGED wire
    <2>1. ASSUME NEW t \in Task, Call(t) \/ Read(t) \/ Handle(t) PROVE UNCHANGED wire
      BY <2>1, CallWire, ReadWire, HandleWire DEF NotAWrite, LockInv
    <2>2. ASSUME NEW t \in Task, Send(t) PROVE write_all(t) \/ UNCHANGED wire
      BY <2>2 DEF Send, LockOutbound, LockStreamWrite, Written, WriteFails, ClearOpen, stream
    <2>3. CASE PeerSends \/ PeerLeaves
      BY <2>3 DEF PeerSends, PeerLeaves
    <2>4. CASE UNCHANGED vars
      BY <2>4 DEF vars, stream
    <2> QED BY <2>1, <2>2, <2>3, <2>4 DEF Next
  <1> QED BY <1>1, <1>2, <1>3

(* Whatever code the application passes to close and whatever payload the  *)
(* peer's close frame has, every close frame ws-rs writes has a code that  *)
(* RFC 6455 lets an endpoint send, for any number of tasks.                *)
THEOREM CloseCodesStayValid == Spec => []CloseCodesValid
  <1>1. Init => CloseCodesValid
    <2>1. Init => wire = <<>>
      BY DEF Init
    <2>2. wire = <<>> => CloseCodesValid
      BY SMT DEF CloseCodesValid
    <2> QED BY <2>1, <2>2
  <1> QED BY InitLocks, NextLocks, InitWire, NextWire, InitCodes, NextCodes, <1>1,
             WireCodes, PTL DEF Spec
-----------------------------------------------------------------------------
(* Queues *)

(* Standing in a queue, once, and before another task.                     *)
In(q, t) == \E i \in DOMAIN q : q[i] = t
Once(q) == \A i, j \in DOMAIN q : q[i] = q[j] => i = j
Before(q, t, u) == \E i, j \in DOMAIN q : i < j /\ q[i] = t /\ q[j] = u

(* Without moves up those that stand behind the task that leaves.          *)
LEMMA WithoutMovesUp ==
    ASSUME NEW q \in Seq(Task), NEW t, In(q, t)
    PROVE  \E k \in 1..Len(q) :
               /\ q[k] = t
               /\ Without(q, t) \in Seq(Task) /\ Len(Without(q, t)) = Len(q) - 1
               /\ \A i \in 1..(Len(q) - 1) :
                      Without(q, t)[i] = IF i < k THEN q[i] ELSE q[i + 1]
  <1> DEFINE k == CHOOSE i \in DOMAIN q : q[i] = t
  <1>1. k \in DOMAIN q /\ q[k] = t
    BY DEF In
  <1>2. Without(q, t) = SubSeq(q, 1, k - 1) \o SubSeq(q, k + 1, Len(q))
    BY DEF Without
  <1> HIDE DEF k
  <1>3. k \in 1..Len(q) /\ Len(q) \in Nat
    BY <1>1, SMT
  <1>4. /\ SubSeq(q, 1, k - 1) \in Seq(Task) /\ Len(SubSeq(q, 1, k - 1)) = k - 1
        /\ \A i \in 1..(k - 1) : SubSeq(q, 1, k - 1)[i] = q[i]
    BY <1>3, SMT
  <1>5. /\ SubSeq(q, k + 1, Len(q)) \in Seq(Task)
        /\ Len(SubSeq(q, k + 1, Len(q))) = Len(q) - k
        /\ \A i \in 1..(Len(q) - k) : SubSeq(q, k + 1, Len(q))[i] = q[k + i]
    BY <1>3, SMT
  <1>6. /\ Without(q, t) \in Seq(Task) /\ Len(Without(q, t)) = Len(q) - 1
        /\ \A i \in 1..(Len(q) - 1) :
               Without(q, t)[i] = IF i < k THEN q[i] ELSE q[i + 1]
    <2> DEFINE a == SubSeq(q, 1, k - 1)
               b == SubSeq(q, k + 1, Len(q))
    <2> HIDE DEF a, b
    <2>1. a \in Seq(Task) /\ Len(a) = k - 1 /\ \A i \in 1..(k - 1) : a[i] = q[i]
      BY <1>4 DEF a
    <2>2. b \in Seq(Task) /\ Len(b) = Len(q) - k /\ \A i \in 1..(Len(q) - k) : b[i] = q[k + i]
      BY <1>5 DEF b
    <2>3. Without(q, t) = a \o b
      BY <1>2 DEF a, b
    <2>4. a \o b \in Seq(Task) /\ Len(a \o b) = Len(q) - 1
      <3>1. a \in Seq(Task) /\ b \in Seq(Task)
        BY <2>1, <2>2
      <3>2. a \o b \in Seq(Task) /\ Len(a \o b) = Len(a) + Len(b)
        BY <3>1, SMT
      <3> QED BY <1>3, <2>1, <2>2, <3>2, SMT
    <2>5. ASSUME NEW i \in 1..(Len(q) - 1)
          PROVE  (a \o b)[i] = IF i < k THEN q[i] ELSE q[i + 1]
      <3>1. CASE i < k
        <4>1. i \in 1..(k - 1)
          BY <1>3, <3>1, SMT
        <4>2. (a \o b)[i] = a[i]
          BY <2>1, <2>2, <4>1, SMT
        <4> QED BY <2>1, <3>1, <4>1, <4>2
      <3>2. CASE ~(i < k)
        <4>1. i - (k - 1) \in 1..(Len(q) - k) /\ k + (i - (k - 1)) = i + 1
          BY <1>3, <3>2, SMT
        <4>2. (a \o b)[i] = b[i - (k - 1)]
          BY <1>3, <2>1, <2>2, <3>2, SMT
        <4>3. b[i - (k - 1)] = q[i + 1]
          BY <2>2, <4>1
        <4> QED BY <3>2, <4>2, <4>3
      <3> QED BY <3>1, <3>2
    <2> QED BY <2>3, <2>4, <2>5
  <1> QED BY <1>1, <1>3, <1>6

(* Who leaves a queue is gone from it, and the others keep their order.    *)
LEMMA Leaves ==
    ASSUME NEW q \in Seq(Task), Once(q), NEW t, In(q, t)
    PROVE  /\ Without(q, t) \in Seq(Task) /\ Once(Without(q, t))
           /\ \A u : In(Without(q, t), u) <=> In(q, u) /\ u # t
           /\ \A u, v : Before(q, u, v) /\ u # t /\ v # t => Before(Without(q, t), u, v)
  <1> DEFINE r == Without(q, t)
  <1>1. PICK k \in 1..Len(q) :
            /\ q[k] = t /\ r \in Seq(Task) /\ Len(r) = Len(q) - 1
            /\ \A i \in 1..(Len(q) - 1) : r[i] = IF i < k THEN q[i] ELSE q[i + 1]
    BY WithoutMovesUp, SMT
  <1> HIDE DEF r
  <1>a. /\ Len(q) \in Nat /\ DOMAIN q = 1..Len(q) /\ DOMAIN r = 1..(Len(q) - 1)
        /\ k \in 1..Len(q)
    BY <1>1, SMT
  <1>2. Once(r)
    <2> SUFFICES ASSUME NEW i \in DOMAIN r, NEW j \in DOMAIN r, r[i] = r[j] PROVE i = j
      BY DEF Once
    <2> DEFINE m == IF i < k THEN i ELSE i + 1
               n == IF j < k THEN j ELSE j + 1
    <2>1. m \in DOMAIN q /\ n \in DOMAIN q
      BY <1>a, SMT
    <2>2. q[m] = q[n]
      BY <1>1, <1>a
    <2>3. m = n
      BY <2>1, <2>2 DEF Once
    <2> QED BY <1>a, <2>3, SMT
  <1>3. ASSUME NEW i \in DOMAIN q, i # k
        PROVE  \E m \in DOMAIN r : r[m] = q[i] /\ (m = IF i < k THEN i ELSE i - 1)
    <2> DEFINE m == IF i < k THEN i ELSE i - 1
    <2>1. m \in DOMAIN r
      BY <1>a, <1>3, SMT
    <2>2. r[m] = q[i]
      BY <1>1, <1>a, <1>3, SMT
    <2> QED BY <2>1, <2>2
  <1>4. ASSUME NEW u, In(r, u) PROVE In(q, u) /\ u # t
    <2>1. PICK i \in DOMAIN r : r[i] = u
      BY <1>4 DEF In
    <2> DEFINE m == IF i < k THEN i ELSE i + 1
    <2>2. m \in DOMAIN q /\ m # k
      BY <1>a, SMT
    <2>3. q[m] = u
      BY <1>1, <1>a, <2>1
    <2> QED BY <1>1, <1>a, <2>2, <2>3 DEF In, Once
  <1>5. ASSUME NEW u, In(q, u), u # t PROVE In(r, u)
    <2>1. PICK i \in DOMAIN q : q[i] = u
      BY <1>5 DEF In
    <2> QED BY <1>1, <1>3, <1>5, <2>1 DEF In
  <1>6. ASSUME NEW u, NEW v, Before(q, u, v), u # t, v # t PROVE Before(r, u, v)
    <2>1. PICK i \in DOMAIN q, j \in DOMAIN q : i < j /\ q[i] = u /\ q[j] = v
      BY <1>6 DEF Before
    <2>2. i # k /\ j # k
      BY <1>1, <1>6, <2>1
    <2>3. PICK m \in DOMAIN r : r[m] = q[i] /\ (m = IF i < k THEN i ELSE i - 1)
      BY <1>3, <2>2
    <2>4. PICK n \in DOMAIN r : r[n] = q[j] /\ (n = IF j < k THEN j ELSE j - 1)
      BY <1>3, <2>2
    <2>5. m < n
      BY <1>1, <2>1, <2>2, <2>3, <2>4, SMT
    <2> QED BY <2>1, <2>3, <2>4, <2>5 DEF Before
  <1> QED BY <1>1, <1>2, <1>4, <1>5, <1>6 DEF r

(* Who joins a queue stands behind all who are in it.                      *)
LEMMA Joins ==
    ASSUME NEW q \in Seq(Task), Once(q), NEW t \in Task, ~In(q, t)
    PROVE  /\ Append(q, t) \in Seq(Task) /\ Once(Append(q, t))
           /\ \A u : In(Append(q, t), u) <=> In(q, u) \/ u = t
           /\ \A u, v : Before(q, u, v) => Before(Append(q, t), u, v)
           /\ \A u : In(q, u) => Before(Append(q, t), u, t)
  <1> DEFINE r == Append(q, t)
  <1>1. /\ r \in Seq(Task) /\ Len(r) = Len(q) + 1 /\ Len(q) \in Nat
        /\ DOMAIN q = 1..Len(q) /\ DOMAIN r = 1..(Len(q) + 1)
        /\ r[Len(q) + 1] = t /\ \A i \in 1..Len(q) : r[i] = q[i]
    BY SMT
  <1> HIDE DEF r
  <1>2. Once(r)
    BY <1>1, SMT DEF Once, In
  <1>3. \A u : In(r, u) <=> In(q, u) \/ u = t
    BY <1>1, SMT DEF In
  <1>4. \A u, v : Before(q, u, v) => Before(r, u, v)
    BY <1>1, SMT DEF Before
  <1>5. \A u : In(q, u) => Before(r, u, t)
    BY <1>1, SMT DEF In, Before
  <1> QED BY <1>1, <1>2, <1>3, <1>4, <1>5 DEF r

(* Who is at the head of a queue has nobody before it.                     *)
LEMMA NobodyBeforeHead ==
    ASSUME NEW q \in Seq(Task), Once(q), NEW t, In(q, t), Head(q) = t, NEW u
    PROVE  ~Before(q, u, t)
  <1>1. Len(q) \in Nat /\ DOMAIN q = 1..Len(q) /\ 1 \in DOMAIN q /\ q[1] = t
    BY SMT DEF In
  <1> QED BY <1>1, SMT DEF Before, Once
-----------------------------------------------------------------------------
(* The line of the stream *)

(* Those who wait for the stream stand in its line, each once.             *)
Line == queue["stream"]
AtStream == {"want_read", "want_write"}

LineInv ==
    /\ Line \in Seq(Task) /\ Once(Line)
    /\ \A t \in Task : In(Line, t) <=> pc[t] \in AtStream

(* A task that has seen one read finish while it waits to write sees no    *)
(* other: nobody reads, and who wants to read stands behind it.            *)
Turn(t) ==
    /\ ahead[t] \in {0, 1}
    /\ ahead[t] = 1 =>
           \A u \in Task : /\ pc[u] # "reading"
                           /\ pc[u] = "want_read" => Before(Line, t, u)

TurnInv ==
    /\ ahead \in [Task -> Nat] /\ LineInv
    /\ \A t \in Task : /\ pc[t] \notin {"want_write", "writing"} => ahead[t] = 0
                       /\ pc[t] = "want_write" => Turn(t)

(* What a step of t does to the line: who joins it stands behind all the   *)
(* others, and these keep their order.                                     *)
LineStep(t) ==
    /\ LineInv'
    /\ \A u \in Task \ {t} : pc'[u] = pc[u]
    /\ \A u, v \in Task \ {t} : Before(Line, u, v) => Before(Line', u, v)
    /\ pc'[t] \in AtStream => \A u \in Task \ {t} : In(Line, u) => Before(Line', u, t)

(* A step of t that finishes no read.                                      *)
TurnStep(t) ==
    /\ LineStep(t)
    /\ ahead' \in [Task -> Nat] /\ \A u \in Task \ {t} : ahead'[u] = ahead[u]
    /\ pc'[t] # "writing" => ahead'[t] = 0
    /\ pc'[t] = "reading" => pc[t] = "want_read" /\ Head(Line) = t

(* Move takes a task out of the line, or puts it at its end.               *)
LEMMA MoveLine ==
    ASSUME ControlType, LineInv, NEW t \in Task, NEW p \in Point, NEW take, NEW free,
           Move(t, p, take, free), pc[t] \notin AtStream \/ p \notin AtStream
    PROVE  LineStep(t) /\ pc'[t] = p
  <1>1. pc'[t] = p /\ \A u \in Task \ {t} : pc'[u] = pc[u]
    BY DEF Move, ControlType
  <1>2. \A r \in Point : Awaits(r) = "stream" <=> r \in AtStream
    BY DEF Awaits, AtStream, Point, Sending
  <1>3. pc[t] \in Point
    BY DEF ControlType
  <1>4. queue'["stream"] = LET left == IF "stream" = Awaits(pc[t]) THEN Without(Line, t)
                                       ELSE Line
                           IN IF "stream" = Awaits(p) THEN Append(left, t) ELSE left
    BY DEF Move, Requeue, Lock, Line
  <1>5. CASE pc[t] \notin AtStream /\ p \notin AtStream
    <2>1. Line' = Line
      BY <1>2, <1>3, <1>4, <1>5 DEF Line
    <2>2. LineInv'
      BY <1>1, <1>5, <2>1 DEF LineInv
    <2> QED BY <1>1, <1>5, <2>1, <2>2 DEF LineStep
  <1>6. CASE pc[t] \notin AtStream /\ p \in AtStream
    <2>1. Line' = Append(Line, t)
      BY <1>2, <1>3, <1>4, <1>6 DEF Line
    <2>2. ~In(Line, t) /\ Line \in Seq(Task) /\ Once(Line)
      BY <1>6 DEF LineInv
    <2>3. /\ Line' \in Seq(Task) /\ Once(Line')
          /\ \A u : In(Line', u) <=> In(Line, u) \/ u = t
          /\ \A u, v : Before(Line, u, v) => Before(Line', u, v)
          /\ \A u : In(Line, u) => Before(Line', u, t)
      BY <2>1, <2>2, Joins
    <2>4. \A u \in Task : In(Line', u) <=> pc'[u] \in AtStream
      BY <1>1, <1>6, <2>3 DEF LineInv
    <2>5. LineInv'
      BY <2>3, <2>4 DEF LineInv, In, Once
    <2> QED BY <1>1, <2>3, <2>5 DEF LineStep
  <1>7. CASE pc[t] \in AtStream /\ p \notin AtStream
    <2>1. Line' = Without(Line, t)
      BY <1>2, <1>3, <1>4, <1>7 DEF Line
    <2>2. In(Line, t) /\ Line \in Seq(Task) /\ Once(Line)
      BY <1>7 DEF LineInv
    <2>3. /\ Line' \in Seq(Task) /\ Once(Line')
          /\ \A u : In(Line', u) <=> In(Line, u) /\ u # t
          /\ \A u, v : Before(Line, u, v) /\ u # t /\ v # t => Before(Line', u, v)
      BY <2>1, <2>2, Leaves
    <2>4. \A u \in Task : In(Line', u) <=> pc'[u] \in AtStream
      BY <1>1, <1>7, <2>3 DEF LineInv
    <2>5. LineInv'
      BY <2>3, <2>4 DEF LineInv, In, Once
    <2> QED BY <1>1, <1>7, <2>3, <2>5 DEF LineStep
  <1> QED BY <1>5, <1>6, <1>7

(* A step that keeps ahead, of a task that is not done with a write ...    *)
LEMMA KeepsTurn ==
    ASSUME ControlType, TurnInv, NEW t \in Task, NEW p \in Point, NEW take, NEW free,
           Move(t, p, take, free), UNCHANGED ahead,
           pc[t] \in {"want_write", "writing"} => p = "writing",
           pc[t] = "want_read" => p \notin AtStream,
           p = "reading" => pc[t] = "want_read" /\ Head(Line) = t
    PROVE  TurnStep(t)
  <1>1. pc[t] \notin AtStream \/ p \notin AtStream
    BY DEF AtStream
  <1>2. LineStep(t) /\ pc'[t] = p
    BY <1>1, MoveLine DEF TurnInv
  <1>3. ahead' \in [Task -> Nat] /\ ahead' = ahead
    BY DEF TurnInv
  <1>4. p # "writing" => ahead[t] = 0
    BY DEF TurnInv
  <1> QED BY <1>2, <1>3, <1>4 DEF TurnStep

(* ... and one that ends a call or a write.                                *)
LEMMA EndsTurn ==
    ASSUME ControlType, TurnInv, NEW t \in Task, NEW p \in Point \ AtStream, p # "reading",
           NEW take, NEW free, Move(t, p, take, free), SendDone(t)
    PROVE  TurnStep(t)
  <1>1. LineStep(t) /\ pc'[t] = p
    BY MoveLine DEF TurnInv
  <1>2. /\ ahead' \in [Task -> Nat] /\ ahead'[t] = 0
        /\ \A u \in Task \ {t} : ahead'[u] = ahead[u]
    BY DEF TurnInv, SendDone
  <1> QED BY <1>1, <1>2 DEF TurnStep

(* Such a step lets no read pass a task that waits.                        *)
LEMMA TurnKept == ASSUME TurnInv, NEW t \in Task, TurnStep(t) PROVE TurnInv'
  <1>1. ahead' \in [Task -> Nat] /\ LineInv'
    BY DEF TurnStep, LineStep
  <1>2. ASSUME NEW u \in Task PROVE pc'[u] \notin {"want_write", "writing"} => ahead'[u] = 0
    BY DEF TurnStep, LineStep, TurnInv
  <1>3. ASSUME NEW u \in Task, pc'[u] = "want_write" PROVE Turn(u)'
    <2>1. CASE u = t
      BY <1>3, <2>1, SMT DEF TurnStep, Turn
    <2>2. CASE u # t
      <3>1. pc[u] = "want_write" /\ ahead'[u] = ahead[u] /\ Turn(u) /\ In(Line, u)
        BY <1>3, <2>2 DEF TurnStep, LineStep, TurnInv, LineInv, AtStream
      <3>2. ASSUME ahead'[u] = 1, NEW v \in Task
            PROVE  pc'[v] # "reading" /\ (pc'[v] = "want_read" => Before(Line', u, v))
        <4>1. pc[v] # "reading" /\ (pc[v] = "want_read" => Before(Line, u, v))
          BY <3>1, <3>2 DEF Turn
        <4>2. CASE v # t
          BY <2>2, <4>1, <4>2 DEF TurnStep, LineStep
        <4>3. CASE v = t
          <5>1. pc'[t] = "want_read" => Before(Line', u, t)
            BY <2>2, <3>1 DEF TurnStep, LineStep, AtStream
          <5>2. ASSUME pc'[t] = "reading" PROVE FALSE
            <6>1. pc[t] = "want_read" /\ Head(Line) = t
              BY <5>2 DEF TurnStep
            <6>2. Line \in Seq(Task) /\ Once(Line) /\ In(Line, t)
              BY <6>1 DEF TurnInv, LineInv, AtStream
            <6> QED BY <4>1, <4>3, <6>1, <6>2, NobodyBeforeHead
          <5> QED BY <4>3, <5>1, <5>2
        <4> QED BY <4>2, <4>3
      <3>3. ahead'[u] \in {0, 1}
        BY <3>1 DEF Turn
      <3> QED BY <3>2, <3>3 DEF Turn, Before
    <2> QED BY <2>1, <2>2
  <1> QED BY <1>1, <1>2, <1>3 DEF TurnInv

(* At first nobody stands in line.                                         *)
LEMMA InitTurns == Init => TurnInv
  <1> SUFFICES ASSUME Init PROVE TurnInv
    OBVIOUS
  <1>1. Line = <<>>
    BY DEF Init, Line, Lock
  <1>2. Line \in Seq(Task) /\ Once(Line) /\ \A t : ~In(Line, t)
    BY <1>1, SMT DEF Once, In
  <1>3. ahead \in [Task -> Nat] /\ \A t \in Task : ahead[t] = 0 /\ pc[t] = "idle"
    BY DEF Init
  <1> QED BY <1>2, <1>3 DEF TurnInv, LineInv, AtStream

(* A call of the application.                                              *)
LEMMA CallTurns == ASSUME ControlType, TurnInv, NEW t \in Task, Call(t) PROVE TurnStep(t)
  <1> USE DEF Point, Sending, AtStream, seen
  <1>1. CASE \E op \in Ops : send(t, op)
    BY <1>1, KeepsTurn DEF send, send_frame_into
  <1>2. CASE send_raw(t)
    BY <1>2, KeepsTurn DEF send_raw
  <1>3. CASE \E code \in CloseCodes : close(t, code)
    BY <1>3, KeepsTurn DEF close, send_frame_into
  <1>4. CASE read_message(t)
    BY <1>4, KeepsTurn DEF read_message
  <1>5. CASE Cancel(t)
    BY <1>5, EndsTurn DEF Cancel, Return
  <1> QED BY <1>1, <1>2, <1>3, <1>4, <1>5 DEF Call

(* A step of sending; write_all moves nobody.                              *)
LEMMA SendTurns ==
    ASSUME ControlType, TurnInv, NEW t \in Task, Send(t), ~write_all(t)
    PROVE  TurnStep(t)
  <1> USE DEF Point, Sending, AtStream, seen
  <1>1. CASE LockOutbound(t)
    BY <1>1, KeepsTurn DEF LockOutbound
  <1>2. CASE LockStreamWrite(t)
    BY <1>2, KeepsTurn DEF LockStreamWrite
  <1>3. CASE Written(t)
    BY <1>3, EndsTurn DEF Written, Return
  <1>4. CASE WriteFails(t)
    BY <1>4, EndsTurn DEF WriteFails, Return
  <1>5. CASE ClearOpen(t)
    BY <1>5, EndsTurn DEF ClearOpen, Return
  <1> QED BY <1>1, <1>2, <1>3, <1>4, <1>5 DEF Send

(* A step of read_frame that finishes no read; the stream goes to the      *)
(* first in line.                                                          *)
LEMMA ReadTurns ==
    ASSUME Fifo, ControlType, TurnInv, NEW t \in Task, Read(t), \A n : ~StreamRead(t, n)
    PROVE  TurnStep(t)
  <1> USE DEF Point, Sending, AtStream, seen
  <1>1. CASE read_frame(t)
    <2>1. CASE Move(t, "read_state", {}, {}) /\ UNCHANGED ahead
      BY <1>1, <2>1, KeepsTurn DEF read_frame
    <2>2. CASE Return(t, TRUE)
      BY <2>2, EndsTurn DEF Return
    <2> QED BY <1>1, <2>1, <2>2 DEF read_frame
  <1>2. CASE LockReadState(t)
    BY <1>2, KeepsTurn DEF LockReadState
  <1>3. CASE Parse(t)
    <2>0. PICK parsed : \/ ParseComplete(t, parsed) \/ ParseError(t, parsed)
                        \/ ParseIncomplete(t, parsed)
      BY <1>3 DEF Parse
    <2>a. pc[t] = "parse"
      BY <1>3 DEF Parse
    <2>1. CASE ParseComplete(t, parsed)
      <3>1. \/ Move(t, "handle", {}, {"read_state"}) /\ UNCHANGED ahead
            \/ Return(t, TRUE)
        BY <2>1 DEF ParseComplete
      <3> QED BY <2>a, <3>1, KeepsTurn, EndsTurn DEF Return
    <2>2. CASE ParseError(t, parsed)
      <3>1. Move(t, "outbound", {}, {"read_state"}) /\ UNCHANGED ahead
        BY <2>2 DEF ParseError, fail, send_frame_into
      <3> QED BY <2>a, <3>1, KeepsTurn
    <2>3. CASE ParseIncomplete(t, parsed)
      <3>1. Move(t, "want_read", {}, {}) /\ UNCHANGED ahead
        BY <2>3 DEF ParseIncomplete
      <3> QED BY <2>a, <3>1, KeepsTurn
    <2> QED BY <2>0, <2>1, <2>2, <2>3
  <1>4. CASE LockStreamRead(t)
    BY <1>4, KeepsTurn DEF LockStreamRead, Granted, Line
  <1>5. CASE StreamEnds(t)
    BY <1>5, KeepsTurn DEF StreamEnds
  <1>6. CASE StreamFails(t)
    BY <1>6, EndsTurn DEF StreamFails, Return
  <1> QED BY <1>1, <1>2, <1>3, <1>4, <1>5, <1>6 DEF Read

(* A step of handling a frame.                                             *)
LEMMA HandleTurns == ASSUME ControlType, TurnInv, NEW t \in Task, Handle(t) PROVE TurnStep(t)
  <1> USE DEF Point, Sending, AtStream, seen
  <1>0. ASSUME NEW message, NEW free, LockFragment(t), deliver_message(t, message, free),
               UNCHANGED ahead
        PROVE  TurnStep(t)
    <2>1. \E p \in {"outbound", "idle"} : \E take, drop : Move(t, p, take, drop)
      BY <1>0 DEF deliver_message, echo_session, fail, send_frame_into
    <2> QED BY <1>0, <2>1, KeepsTurn DEF LockFragment
  <1>1. CASE handle_close_frame(t)
    BY <1>1, KeepsTurn DEF handle_close_frame, send_frame_into
  <1>2. CASE HandlePing(t)
    BY <1>2, KeepsTurn DEF HandlePing, send_frame_into
  <1>3. CASE HandlePong(t)
    BY <1>3, KeepsTurn DEF HandlePong
  <1>4. CASE HandleData(t)
    BY <1>4, KeepsTurn DEF HandleData
  <1>5. CASE FragmentError(t)
    BY <1>5, KeepsTurn DEF FragmentError, LockFragment, fail, send_frame_into
  <1>6. CASE FragmentStarts(t)
    BY <1>6, KeepsTurn DEF FragmentStarts, LockFragment
  <1>7. CASE FragmentGoesOn(t)
    BY <1>7, KeepsTurn DEF FragmentGoesOn, LockFragment
  <1>8. CASE FragmentEnds(t)
    BY <1>0, <1>8 DEF FragmentEnds
  <1>9. CASE WholeMessage(t)
    BY <1>0, <1>9 DEF WholeMessage
  <1> QED BY <1>1, <1>2, <1>3, <1>4, <1>5, <1>6, <1>7, <1>8, <1>9 DEF Handle

(* A read that finishes: it was the only one, so no task that waits to     *)
(* write has seen another, and nobody else is about to read.               *)
LEMMA FinishedRead ==
    ASSUME LockInv, TurnInv, NEW t \in Task, NEW n, StreamRead(t, n)
    PROVE  TurnInv'
  <1>1. /\ pc[t] = "reading" /\ Move(t, "parse", {}, {"stream"})
        /\ ahead' = [u \in Task |-> IF pc[u] = "want_write" THEN ahead[u] + 1 ELSE ahead[u]]
    BY DEF StreamRead, Received
  <1>2. LineStep(t) /\ pc'[t] = "parse"
    BY <1>1, MoveLine DEF TurnInv, LockInv, Point, AtStream
  <1>3. \A u \in Task : pc[u] \in {"want_read", "reading"} => u = t
    BY <1>1 DEF LockInv, Owns
  <1>4. \A u \in Task : pc'[u] \notin {"want_read", "reading"}
    BY <1>2, <1>3 DEF LineStep
  <1>5. ahead' \in [Task -> Nat]
    BY <1>1, SMT DEF TurnInv
  <1>6. ASSUME NEW u \in Task
        PROVE  /\ pc'[u] \notin {"want_write", "writing"} => ahead'[u] = 0
               /\ pc'[u] = "want_write" => Turn(u)'
    <2>1. pc'[u] \in {"want_write", "writing"} => pc'[u] = pc[u]
      BY <1>2 DEF LineStep
    <2>2. pc'[u] \notin {"want_write", "writing"} => ahead'[u] = 0
      BY <1>1, <1>2 DEF LineStep, TurnInv
    <2>3. ASSUME pc'[u] = "want_write" PROVE ahead'[u] \in {0, 1}
      <3>1. Turn(u) /\ pc[u] = "want_write"
        BY <2>1, <2>3 DEF TurnInv
      <3>2. ahead[u] = 0
        BY <1>1, <3>1 DEF Turn
      <3> QED BY <1>1, <3>1, <3>2, SMT
    <2> QED BY <1>4, <2>2, <2>3 DEF Turn
  <1> QED BY <1>2, <1>5, <1>6 DEF TurnInv, LineStep

(* Any step.                                                               *)
LEMMA NextTurns == ASSUME Fifo PROVE LockInv /\ TurnInv /\ [Next]_vars => TurnInv'
  <1> SUFFICES ASSUME LockInv, TurnInv, [Next]_vars PROVE TurnInv'
    OBVIOUS
  <1>0. ControlType
    BY DEF LockInv
  <1>1. CASE UNCHANGED <<pc, queue, ahead>>
    <2>1. pc' = pc /\ ahead' = ahead /\ Line' = Line
      BY <1>1 DEF Line
    <2> QED BY <2>1 DEF TurnInv, LineInv, Turn
  <1>2. ASSUME NEW t \in Task, Call(t) \/ Handle(t) PROVE TurnInv'
    BY <1>0, <1>2, CallTurns, HandleTurns, TurnKept
  <1>3. ASSUME NEW t \in Task, Send(t) PROVE TurnInv'
    <2>1. CASE write_all(t)
      BY <1>1, <2>1 DEF write_all, tasks, seen
    <2> QED BY <1>0, <1>3, <2>1, SendTurns, TurnKept
  <1>4. ASSUME NEW t \in Task, Read(t) PROVE TurnInv'
    <2>1. ASSUME NEW n, StreamRead(t, n) PROVE TurnInv'
      BY <2>1, FinishedRead
    <2> QED BY <1>0, <1>4, <2>1, ReadTurns, TurnKept
  <1>5. CASE PeerSends \/ PeerLeaves
    BY <1>1, <1>5 DEF PeerSends, PeerLeaves, tasks, seen
  <1>6. CASE UNCHANGED vars
    <2>1. UNCHANGED <<pc, queue, ahead>>
      BY <1>6 DEF vars, tasks, seen
    <2> QED BY <1>1, <2>1
  <1> QED BY <1>2, <1>3, <1>4, <1>5, <1>6 DEF Next

(* With mutexes that are granted in turn (tokio's), a task of ws-rs that   *)
(* waits to write sees at most one read finish before its turn comes,      *)
(* however many tasks read, send, give up and close.                       *)
THEOREM AtMostOneReadAhead == Fifo => (Spec => []OneReadAhead)
  <1> SUFFICES ASSUME Fifo PROVE Spec => []OneReadAhead
    OBVIOUS
  <1>1. TurnInv => OneReadAhead
    BY SMT DEF TurnInv, Turn, OneReadAhead
  <1>2. LockInv /\ TurnInv /\ [Next]_vars => TurnInv'
    BY NextTurns
  <1> QED BY InitLocks, NextLocks, InitTurns, <1>1, <1>2, PTL DEF Spec
=============================================================================
