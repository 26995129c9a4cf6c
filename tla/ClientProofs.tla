---------------------------- MODULE ClientProofs ----------------------------
(***************************************************************************)
(* Theorems about module Client, for any number of application threads,    *)
(* any attempts of connect() and any servers: the upgrade precedes the     *)
(* frames, both ends agree on permessage-deflate, and close() is never     *)
(* shut out by the client's own flags.                                     *)
(***************************************************************************)
EXTENDS ConnectionProofs, Client

(* As in ConnectionProofs: the leaves that need it name the SMT solver.    *)
USE Zenon

-----------------------------------------------------------------------------
(* The connection inside the client.                                       *)

(* A step of the connection other than connect().  The client only starts  *)
(* a reader in activate(), and is not destroyed while an application       *)
(* thread is in a call of it.                                              *)
Move ==
    \/ \E t \in Thread :
          \/ /\ Calls(t)
             /\ call'[t] = "destroy" => \A u \in App : Idle(u)
             /\ call'[t] = "start" => pc[t] # "idle"
          \/ Passes(t) \/ Changes(t)
    \/ Reads \/ Releases \/ Rests

(* connect() of the client replaces the connection's: it opens the socket, *)
(* then, after the handshake, activates the connection.                    *)
Prepares(t) == \E attempt \in Attempts : connect_client(t, attempt)

Activates(t) ==
    /\ Answered(t)
    /\ "101" \in response.status /\ TakeUpDeflate /\ Activate(t)

(* The steps of the client that leave the connection alone.                *)
Waits ==
    /\ UNCHANGED vars
    /\ \/ \E t \in Thread :
             \/ enable_ssl(t) \/ ssl_handshake(t) \/ write_request(t) \/ set_open(t)
             \/ (Answered(t) /\ Refused(t))
             \/ close_client(t) \/ set_closing(t) \/ clear_open(t)
             \/ (call_close(t) /\ (~is_open \/ is_closing))
       \/ AnswerTls \/ perform_handshake \/ OtherServer
       \/ UNCHANGED <<client, setting, handshake>>

(* The connection takes a step, for the client's close() or by itself.     *)
Runs ==
    /\ [Next]_vars /\ Move
    /\ UNCHANGED <<client_open, client_closing, connecting, setting, handshake>>
    /\ \/ UNCHANGED closing
       \/ \E t \in Thread : /\ closing[t] = "call" /\ closing' = [closing EXCEPT ![t] = "clear"]
                            /\ Enter(t, "close", "mark") /\ is_open /\ ~is_closing

(* Every step of the client is one of these.                               *)
LEMMA ClientSteps ==
    ASSUME ThreadInv, [ClientNext]_cvars
    PROVE  Waits \/ Runs \/ \E t \in Thread : Prepares(t) \/ Activates(t)
<1> USE ReaderIsThread
<1>1. TypeOK /\ ThreadTypes /\ opens \in Nat
  BY ConnectionAssumption, SMT DEF ThreadInv, Inv, TypeOK, SessionTypes
<1>2. ASSUME NEW t \in Thread, Application(t), opens' = opens PROVE Calls(t)
  <2>1. ~Connects(t)
    BY <1>1, <1>2, SMT DEF Connects
  <2> QED
    BY <1>1, <1>2, <2>1, ApplicationSteps
<1>3. ASSUME NEW t \in Thread, ClientApplication(t) PROVE Waits \/ Runs \/ Prepares(t)
  <2>1. CASE \E attempt \in Attempts : connect_client(t, attempt)
    BY <2>1 DEF Prepares
  <2>2. CASE close_client(t)
    BY <2>2 DEF close_client, Waits
  <2>3. CASE OfConnection(\E op \in DataOp, fin \in Fins : send_data_frame(t, op, fin))
    <3>1. Application(t) /\ opens' = opens /\ call'[t] = "send"
      <4>1. PICK op \in DataOp, fin \in Fins : send_data_frame(t, op, fin)
        BY <2>3 DEF OfConnection
      <4>2. Application(t)
        BY <4>1 DEF Application
      <4>3. opens' = opens /\ call' = [call EXCEPT ![t] = "send"]
        BY <4>1 DEF send_data_frame, Send, Begin
      <4> QED
        BY <1>1, <4>2, <4>3, SMT DEF ThreadTypes
    <3>2. Next /\ UNCHANGED <<client, setting, handshake>>
      BY <2>3, <3>1 DEF OfConnection, Next
    <3> QED
      BY <1>2, <3>1, <3>2 DEF Runs, Move, client
  <2>4. CASE (\A u \in App : Idle(u)) /\ OfConnection(destroy(t))
    <3>1. Application(t) /\ opens' = opens /\ call'[t] = "destroy"
      BY <1>1, <2>4, SMT DEF ThreadTypes, OfConnection, Application, destroy, bounds
    <3>2. Next /\ UNCHANGED <<client, setting, handshake>>
      BY <2>4, <3>1 DEF OfConnection, Next
    <3> QED
      BY <1>2, <2>4, <3>1, <3>2 DEF Runs, Move, client
  <2> QED
    BY <1>3, <2>1, <2>2, <2>3, <2>4 DEF ClientApplication
<1>4. ASSUME NEW t \in Thread, call_close(t) PROVE Waits \/ Runs
  <2>1. CASE (~is_open \/ is_closing) /\ UNCHANGED vars
    BY <1>4, <2>1 DEF Waits
  <2>2. ASSUME NEW code \in CloseCodes, close(t, code) PROVE Runs
    <3>1. Application(t) /\ opens' = opens /\ call'[t] = "close"
      <4>1. Application(t)
        BY <2>2 DEF Application
      <4>2. opens' = opens /\ call' = [call EXCEPT ![t] = "close"]
        BY <2>2 DEF close, Begin, bounds
      <4> QED
        BY <1>1, <4>1, <4>2, SMT DEF ThreadTypes
    <3>2. Next /\ Calls(t)
      BY <1>2, <3>1 DEF Next
    <3>3. Enter(t, "close", "mark") /\ is_open /\ ~is_closing
      BY <3>1, <3>2 DEF Calls, Enter, Turn
    <3> QED
      BY <1>4, <3>1, <3>2, <3>3 DEF Runs, Move, call_close
  <2> QED
    BY <1>4, <2>1, <2>2 DEF call_close
<1>5. ASSUME NEW t \in Thread, Proceed(t), UNCHANGED <<client, setting, handshake>> PROVE Runs
  <2>1. Calls(t) \/ Passes(t) \/ Changes(t)
    BY <1>1, <1>5, OpeningSteps, SendingSteps, ClosingSteps DEF Proceed
  <2>2. pc[t] # "idle"
    BY <1>5 DEF Proceed, open_and_start_reader, start_reader_thread, ClaimReader, Spawn, Assign,
       BuildStart, BuildEnd, LockWrite, WriteFrame, MarkClosing, ClearOpen, CloseSocket,
       join_reader_if_needed, JoinReader, ReaderJoined, NotifyClose, Free, ReturnFromOpen
  <2>3. Calls(t) => call'[t] # "destroy" /\ pc[t] # "idle"
    BY <2>2 DEF Calls, Enter, Turn
  <2> QED
    BY <1>5, <2>1, <2>3 DEF Runs, Move, Next, client
<1>6. ASSUME ReaderProceeds, UNCHANGED <<client, setting, handshake>> PROVE Runs
  BY <1>1, <1>6, ReaderSteps DEF Runs, Move, Next, client
<1>7. CASE Peer /\ UNCHANGED <<client, setting, handshake>>
  BY <1>1, <1>7, PeerSteps DEF Runs, Move, Next, client
<1>8. ASSUME NEW t \in Thread, ClientProceeds(t) PROVE Waits \/ Runs \/ Activates(t)
  <2>1. CASE enable_ssl(t) \/ ssl_handshake(t) \/ write_request(t) \/ set_open(t)
               \/ set_closing(t) \/ clear_open(t)
    BY <2>1 DEF enable_ssl, ssl_handshake, write_request, set_open, set_closing, clear_open, Waits
  <2>2. CASE read_response(t)
    <3>1. Answered(t) /\ UNCHANGED pc => UNCHANGED vars
      BY DEF Answered, vars, flags, buffer, local, session, bounds
    <3> QED
      BY <2>2, <3>1 DEF read_response, Refused, Activates, Waits
  <2> QED
    BY <1>4, <1>5, <1>6, <1>8, <2>1, <2>2 DEF ClientProceeds, OfConnection
<1>9. CASE AnswerTls \/ perform_handshake \/ OtherServer
  BY <1>9 DEF AnswerTls, perform_handshake, OtherServer, Waits
<1>10. CASE UNCHANGED cvars
  BY <1>10 DEF cvars, Waits
<1> QED
  BY <1>3, <1>7, <1>8, <1>9, <1>10 DEF ClientNext, OfConnection

(* The client starts the reader in activate() only.                        *)
LEMMA MoveStarts ==
    ASSUME ThreadInv, Move, NEW u \in Thread, pc[u] = "idle", pc'[u] = "start" PROVE FALSE
<1> USE ReaderIsThread
<1>1. u # Reader
  BY DEF ThreadInv, PlaceInv, Place
<1>2. ASSUME NEW t \in Thread, Others(t) PROVE u = t
  BY <1>2 DEF Others, Still
<1>3. ASSUME NEW t \in Thread, Calls(t), call'[t] = "start" => pc[t] # "idle" PROVE FALSE
  <2>1. u = t
    BY <1>2, <1>3 DEF Calls, Enter, Turn
  <2> QED
    BY <1>3, <2>1 DEF Calls, Enter, Turn
<1>4. ASSUME NEW t \in Thread, Passes(t) PROVE FALSE
  <2>1. u = t
    BY <1>2, <1>4 DEF Passes, Jump, Leave
  <2> QED
    BY <1>4, <2>1 DEF Passes, Jump, Leave
<1>5. CASE Reads \/ Releases \/ Rests
  BY <1>1, <1>2, <1>5 DEF Reads, Releases, Rests, Jump, Turn
<1>6. ASSUME NEW t \in Thread, Spawns(t) \/ Joins(t) PROVE FALSE
  BY <1>1, <1>6 DEF Spawns, Joins
<1>7. ASSUME NEW t \in Thread, Changes(t), ~Spawns(t), ~Joins(t) PROVE FALSE
  <2>1. u = t
    BY <1>2, <1>7
    DEF Changes, Opens, Claims, Assigns, Builds, Built, Locks, Writes, Marks, Clears, Shuts,
        LetsGo, Notifies, Frees, Jump, Leave, Turn
  <2> QED
    BY <1>7, <2>1
    DEF Changes, Opens, Claims, Assigns, Builds, Built, Locks, Writes, Marks, Clears, Shuts,
        LetsGo, Notifies, Frees, Jump, Leave, Turn
<1> QED
  BY <1>3, <1>4, <1>5, <1>6, <1>7 DEF Move

-----------------------------------------------------------------------------
(* The connection has been activated.  It stays so: is_open_ is cleared    *)
(* under is_closing_ or by the reader, reader_running_ after a close().    *)
Begun == is_open \/ is_closing \/ reader_running \/ \E t \in Thread : pc[t] = "opened"

Held == Begun \/ ~Usable

HeldInv ==
    /\ \A t \in Thread : pc[t] \notin {"idle", "off"} => Held
    /\ \A t \in Thread : call[t] = "close" /\ pc[t] # "mark" => is_closing
    /\ wire # <<>> => Held

(* Only ~impl is at work on a connection that was not activated.           *)
LEMMA BusyBegun ==
    ASSUME ThreadInv, RunInv, HeldInv, NEW t \in Thread, pc[t] \notin {"idle", "off"},
           call[t] # "destroy"
    PROVE  Begun
<1>1. CASE ~Usable
  <2>1. alive
    BY ReaderApart DEF ThreadInv, DestroyInv, NoReaderAfterDestroy
  <2>2. PICK u \in App : call[u] = "destroy"
    BY <1>1, <2>1 DEF Usable
  <2>3. t = Reader
    BY <2>2, ReaderApart DEF ThreadInv, DestroyInv
  <2> QED
    BY <2>3 DEF RunInv, Begun
<1> QED
  BY <1>1 DEF HeldInv, Held

(* The destruction is not taken back.                                      *)
LEMMA StaysGone == ASSUME ThreadInv, Move, ~Usable PROVE ~Usable'
<1> USE ReaderIsThread
<1>1. alive' => alive
  BY DEF Move, Calls, Passes, Changes, Reads, Releases, Rests, Opens, Claims, Spawns, Assigns,
     Builds, Built, Locks, Writes, Marks, Clears, Shuts, Joins, LetsGo, Notifies, Frees, flags
<1>2. ASSUME NEW u \in App, call[u] = "destroy" PROVE ~alive' \/ call'[u] = "destroy"
  <2>1. u \in Thread /\ u # Reader /\ pc[u] \in Destroying
    BY <1>2, ReaderApart DEF ThreadInv, DestroyInv
  <2>2. ASSUME NEW t \in Thread, NEW operation, NEW to, Enter(t, operation, to)
        PROVE  call'[u] = "destroy"
    BY <1>2, <2>1, <2>2, CallsFrom DEF Enter, Others, Still, Destroying, Callback
  <2>3. ASSUME NEW t \in Thread, Calls(t) PROVE call'[u] = "destroy"
    BY <1>2, <2>1, <2>2, <2>3 DEF Calls, Turn, Others, Still, Destroying
  <2>4. ASSUME NEW t \in Thread, Passes(t) PROVE call'[u] = "destroy"
    BY <1>2, <2>1, <2>4 DEF Passes, Jump, Leave, Others, Still, Destroying
  <2>5. CASE Reads \/ Releases \/ Rests
    BY <1>2, <2>1, <2>5 DEF Reads, Releases, Rests, Jump, Turn, Others, Still
  <2>6. ASSUME NEW t \in Thread, Changes(t) PROVE ~alive' \/ call'[u] = "destroy"
    BY <1>2, <2>1, <2>6
    DEF Changes, Opens, Claims, Spawns, Assigns, Builds, Built, Locks, Writes, Marks, Clears,
        Shuts, Joins, LetsGo, Notifies, Frees, Jump, Leave, Others, Still, Destroying
  <2> QED
    BY <2>3, <2>4, <2>5, <2>6 DEF Move
<1> QED
  BY <1>1, <1>2 DEF Usable

(* What a step of the connection may do to the flags and the wire: what     *)
(* they become is due to a thread at the step that sets them.              *)
FlagsMove ==
    /\ is_closing => is_closing'
    /\ is_open /\ ~is_open' => is_closing' \/ reader_running' \/ ~Usable'
    /\ reader_running /\ ~reader_running' => is_closing' \/ ~Usable'
    /\ \A t \in Thread : pc'[t] = "opened" => pc[t] = "opened"
    /\ \A t \in Thread : pc[t] = "opened" /\ pc'[t] # "opened" => is_open'
    /\ is_open' => is_open \/ \E t \in Thread : pc[t] = "opened"
    /\ reader_running' => reader_running \/ \E t \in Thread : pc[t] = "claim"
    /\ is_closing' => is_closing \/ \E t \in Thread : pc[t] = "mark"
    /\ wire' # wire => \E t \in Thread : pc[t] = "write"

LEMMA MoveFlags == ASSUME ThreadInv, RunInv, HeldInv, Move PROVE FlagsMove
<1> DEFINE Quiet == UNCHANGED <<is_open, is_closing, reader_running>>
           Keeps == \A t \in Thread : pc'[t] = "opened" <=> pc[t] = "opened"
<1> USE ReaderIsThread
<1>1. ASSUME NEW t \in Thread, Others(t), pc[t] # "opened", pc'[t] # "opened" PROVE Keeps
  BY <1>1 DEF Others, Still
<1>2. ASSUME NEW t \in Thread, NEW from, NEW to, from # "opened", to # "opened",
             Jump(t, from, to)
      PROVE  Keeps
  BY <1>1, <1>2 DEF Jump
<1>3. ASSUME NEW t \in Thread, NEW from, NEW operation, NEW to, from # "opened",
             to # "opened", Turn(t, from, operation, to)
      PROVE  Keeps
  BY <1>1, <1>3 DEF Turn
<1>4. ASSUME NEW t \in Thread, NEW from, from # "opened", Leave(t, from) PROVE Keeps
  <2>1. ThreadTypes
    BY DEF ThreadInv, Inv, TypeOK
  <2> QED
    BY <1>1, <1>4, <2>1, LeaveTo DEF Leave, Callback
<1>5. ASSUME NEW t \in Thread, NEW operation, NEW to, to # "opened", Enter(t, operation, to)
      PROVE  Keeps
  BY <1>1, <1>5, CallsFrom DEF Enter, Callback
<1>6. ASSUME NEW t \in Thread, Calls(t) \/ Passes(t) PROVE Keeps
  BY <1>2, <1>3, <1>4, <1>5, <1>6 DEF Calls, Passes, AfterJoin
<1>7. CASE Reads \/ Releases \/ Rests
  <2>1. Keeps
    BY <1>2, <1>3, <1>7 DEF Reads, Releases, Rests
  <2>2. Quiet /\ wire' = wire
    BY <1>7 DEF Reads, Releases, Rests, flags, out
  <2> QED
    BY <2>1, <2>2 DEF FlagsMove
<1>8. ASSUME NEW t \in Thread, Changes(t), ~Opens(t) PROVE Keeps
  <2>1. CASE ~Spawns(t) /\ ~Joins(t)
    BY <1>2, <1>3, <1>4, <1>8, <2>1
    DEF Changes, Claims, Assigns, Builds, Built, Locks, Writes, Marks, Clears, Shuts, LetsGo,
        Notifies, Frees, AfterJoin
  <2>2. CASE Spawns(t) \/ Joins(t)
    <3>1. /\ pc[t] # "opened" /\ pc[Reader] # "opened" /\ pc'[Reader] # "opened"
          /\ t # Reader => pc'[t] # "opened"
      BY <2>2, ReaderApart DEF Spawns, Joins, ThreadInv, PlaceInv, Place
    <3> QED
      BY <2>2, <3>1 DEF Spawns, Joins
  <2> QED
    BY <2>1, <2>2
<1>9. ASSUME NEW t \in Thread, Clears(t) \/ LetsGo(t)
      PROVE  is_closing' \/ (Clears(t) /\ reader_running') \/ ~Usable'
  <2>1. call[t] = "close" => is_closing
    BY <1>9 DEF Clears, LetsGo, Jump, HeldInv
  <2>2. CASE call[t] = "destroy"
    <3>1. t \in App /\ call'[t] = "destroy"
      BY <1>9, <2>2 DEF Clears, LetsGo, Jump, ThreadInv, DestroyInv
    <3> QED
      BY <3>1 DEF Usable
  <2>3. CASE call[t] \notin {"close", "destroy"} /\ Clears(t)
    <3>1. t = Reader
      BY <2>3, ReaderApart
      DEF Clears, Jump, ThreadInv, Inv, CallInv, Stage, PlaceInv, Place, Closer
    <3>2. reader_running
      BY <2>3, <3>1 DEF Clears, Jump, RunInv
    <3> QED
      BY <2>3, <3>2 DEF Clears
  <2>4. CASE call[t] \notin {"close", "destroy"} /\ LetsGo(t)
    BY <2>4 DEF LetsGo, Jump, ThreadInv, Inv, CallInv, Stage
  <2>5. is_closing' = is_closing
    BY <1>9 DEF Clears, LetsGo
  <2> QED
    BY <1>9, <2>1, <2>2, <2>3, <2>4, <2>5
<1>10. ASSUME NEW t \in Thread, Changes(t)
       PROVE  \/ Opens(t) \/ Claims(t) \/ Marks(t) \/ Clears(t) \/ LetsGo(t) \/ Writes(t)
              \/ (Quiet /\ wire' = wire)
  BY <1>10 DEF Changes, Spawns, Assigns, Builds, Built, Locks, Shuts, Joins, Notifies, Frees,
     flags, out
<1>11. ASSUME NEW t \in Thread, Calls(t) \/ Passes(t) PROVE Quiet /\ wire' = wire
  BY <1>11 DEF Calls, Passes, flags, out
<1>12. ASSUME NEW t \in Thread, Calls(t) \/ Passes(t) \/ (Changes(t) /\ ~Opens(t)), Quiet,
              wire' = wire
       PROVE  FlagsMove
  BY <1>6, <1>8, <1>12 DEF FlagsMove
<1>13. ASSUME NEW t \in Thread, Opens(t) PROVE FlagsMove
  BY <1>13 DEF FlagsMove, Opens, Jump, Others, Still, out
<1>14. ASSUME NEW t \in Thread, Claims(t) \/ Marks(t) PROVE FlagsMove
  <2>1. Keeps
    BY <1>2, <1>14 DEF Claims, Marks
  <2> QED
    BY <1>14, <2>1, SMT DEF FlagsMove, Claims, Marks, Jump, out
<1>15. ASSUME NEW t \in Thread, Clears(t) \/ LetsGo(t) PROVE FlagsMove
  <2>1. Keeps
    BY <1>2, <1>15 DEF Clears, LetsGo, AfterJoin
  <2>2. /\ Clears(t) => ~is_open' /\ UNCHANGED <<is_closing, reader_running, wire>>
        /\ LetsGo(t) => ~reader_running' /\ UNCHANGED <<is_closing, is_open, wire>>
    BY DEF Clears, LetsGo, out
  <2> QED
    BY <1>9, <1>15, <2>1, <2>2, SMT DEF FlagsMove
<1>16. ASSUME NEW t \in Thread, Writes(t) PROVE FlagsMove
  <2>1. Keeps
    BY <1>2, <1>4, <1>16 DEF Writes
  <2>2. Quiet /\ pc[t] = "write"
    BY <1>16 DEF Writes, Leave, Jump, flags
  <2> QED
    BY <2>1, <2>2 DEF FlagsMove
<1> QED
  BY <1>7, <1>10, <1>11, <1>12, <1>13, <1>14, <1>15, <1>16 DEF Move

(* Once activated or destroyed, the connection stays so.                   *)
LEMMA HeldStays == ASSUME ThreadInv, RunInv, HeldInv, Move, Held PROVE Held'
<1>1. FlagsMove
  BY MoveFlags
<1>2. CASE ~Usable
  BY <1>2, StaysGone DEF Held
<1>3. CASE Begun
  BY <1>1, <1>3 DEF FlagsMove, Begun, Held
<1> QED
  BY <1>2, <1>3 DEF Held

(* No step but connect()'s activates it.                                   *)
LEMMA BegunBefore ==
    ASSUME ThreadInv, RunInv, HeldInv, Move
    PROVE  (Begun' => Begun) /\ (wire' # <<>> => wire # <<>> \/ Begun)
<1>1. FlagsMove
  BY MoveFlags
<1>2. ASSUME NEW t \in Thread, pc[t] \in {"claim", "mark", "write"} PROVE Begun
  <2>1. call[t] # "destroy"
    BY <1>2 DEF ThreadInv, DestroyInv, Destroying
  <2> QED
    BY <1>2, <2>1, BusyBegun
<1>3. Begun' => Begun
  BY <1>1, <1>2 DEF FlagsMove, Begun
<1> QED
  BY <1>1, <1>2, <1>3 DEF FlagsMove

(* With nobody in the object but a connect() about to activate it, only    *)
(* that connect(), ~impl and the peer move.                                *)
LEMMA NobodyMoves ==
    ASSUME Move, ~is_open, \A u \in Thread : pc[u] \in {"idle", "off", "opened"}
    PROVE  \/ (\A u \in App : Idle(u)) /\ ~Usable'
           \/ \E t \in Thread : Opens(t)
           \/ Rests
<1> USE ReaderIsThread
<1>1. ASSUME NEW t \in Thread, Calls(t), call'[t] = "destroy" => \A u \in App : Idle(u),
             call'[t] = "start" => pc[t] # "idle"
      PROVE  (\A u \in App : Idle(u)) /\ ~Usable'
  <2>1. pc[t] \notin Callback
    BY DEF Callback
  <2>2. ~Enter(t, "start", "start")
    BY <1>1, <2>1, CallsFrom DEF Enter
  <2>3. Turn(t, "idle", "destroy", "shut_open") /\ t \in App
    BY <1>1, <2>1, <2>2 DEF Calls, Turn, Callback
  <2> QED
    BY <1>1, <2>3 DEF Turn, Usable
<1>2. ASSUME NEW t \in Thread, Passes(t) PROVE FALSE
  BY <1>2 DEF Passes, Leave, Jump
<1>3. CASE Reads \/ Releases
  BY <1>3 DEF Reads, Releases, Jump, Turn
<1>4. ASSUME NEW t \in Thread, Changes(t), ~Opens(t) PROVE FALSE
  BY <1>4 DEF Changes, Claims, Spawns, Assigns, Builds, Built, Locks, Writes, Marks, Clears,
     Shuts, Joins, LetsGo, Notifies, Frees, Leave, Jump, Turn
<1> QED
  BY <1>1, <1>2, <1>3, <1>4 DEF Move

(* A thread that has passed the flags of connection_.close() sets          *)
(* is_closing_ next.                                                       *)
LEMMA CloseMarks ==
    ASSUME ThreadInv, RunInv, HeldInv, Move, NEW u \in Thread
    PROVE  /\ call'[u] = "close" /\ pc'[u] # "mark" => is_closing'
           /\ pc[u] = "mark" => call'[u] = call[u]
<1> DEFINE OK == /\ call'[u] = "close" /\ pc'[u] # "mark" => is_closing'
                 /\ pc[u] = "mark" => call'[u] = call[u]
<1> USE ReaderIsThread
<1>1. is_closing => is_closing'
  BY MoveFlags DEF FlagsMove
<1>2. call[u] = "close" /\ pc[u] # "mark" => is_closing
  BY DEF HeldInv
<1>3. ASSUME Still(u) PROVE OK
  BY <1>1, <1>2, <1>3 DEF Still
<1>4. ASSUME NEW t \in Thread, NEW from, NEW to, Jump(t, from, to), from = "mark" => is_closing'
      PROVE  OK
  BY <1>1, <1>2, <1>3, <1>4 DEF Jump, Others
<1>5. ASSUME NEW t \in Thread, NEW from, Leave(t, from), from # "mark" PROVE OK
  BY <1>3, <1>5 DEF Leave, Others
<1>6. ASSUME NEW t \in Thread, NEW from, NEW operation, NEW to, Turn(t, from, operation, to),
             from # "mark", operation # "close"
      PROVE  OK
  BY <1>3, <1>6 DEF Turn, Others
<1>7. ASSUME NEW t \in Thread, NEW operation, NEW to, Enter(t, operation, to),
             operation = "close" => to = "mark"
      PROVE  OK
  <2>1. pc[t] # "mark"
    BY <1>7, CallsFrom DEF Enter, Callback
  <2> QED
    BY <1>3, <1>7, <2>1 DEF Enter, Others
<1>8. ASSUME NEW t \in Thread, Calls(t) PROVE OK
  BY <1>6, <1>7, <1>8 DEF Calls
<1>9. ASSUME NEW t \in Thread, Passes(t) PROVE OK
  BY <1>4, <1>5, <1>9 DEF Passes
<1>10. CASE Reads \/ Releases
  BY <1>4, <1>6, <1>10 DEF Reads, Releases
<1>11. CASE Rests
  BY <1>3, <1>11 DEF Rests, Still
<1>12. ASSUME NEW t \in Thread, Spawns(t) \/ Joins(t) PROVE OK
  <2>1. pc[t] # "mark" /\ pc[Reader] # "mark"
    BY <1>12 DEF Spawns, Joins
  <2>2. call' = call /\ (u \in {t, Reader} \/ Still(u))
    BY <1>12 DEF Spawns, Joins, Still
  <2> QED
    BY <1>1, <1>2, <1>3, <2>1, <2>2
<1>13. ASSUME NEW t \in Thread, Changes(t), ~Spawns(t), ~Joins(t) PROVE OK
  BY <1>4, <1>5, <1>6, <1>13
  DEF Changes, Opens, Claims, Assigns, Builds, Built, Locks, Writes, Marks, Clears, Shuts,
      LetsGo, Notifies, Frees
<1> QED
  BY <1>8, <1>9, <1>10, <1>11, <1>12, <1>13 DEF Move

(* The connection's steps keep it.                                         *)
LEMMA MoveHeld == ASSUME ThreadInv, RunInv, HeldInv, Move PROVE HeldInv'
<1>1. ASSUME NEW t \in Thread, pc'[t] \notin {"idle", "off"} PROVE Held'
  <2>1. CASE Held
    BY <2>1, HeldStays
  <2>2. CASE ~Held
    <3>1. ~is_open /\ \A u \in Thread : pc[u] \in {"idle", "off"}
      BY <2>2 DEF HeldInv, Held, Begun
    <3> QED
      BY <1>1, <3>1, NobodyMoves DEF Held, Opens, Jump, Rests
  <2> QED
    BY <2>1, <2>2
<1>2. wire' # <<>> => Held'
  BY HeldStays, BegunBefore DEF HeldInv, Held
<1> QED
  BY <1>1, <1>2, CloseMarks DEF HeldInv

-----------------------------------------------------------------------------
(* Where the calls of the client are.                                      *)

Handshaking == {"tls", "tls_wait", "request", "response"}

ClientTypes ==
    /\ connecting \in [Thread -> Handshaking \cup {"no", "activate"}]
    /\ closing \in [Thread -> {"no", "mark", "call", "clear"}]

(* A connect() is alone until it has activated the connection, and what    *)
(* the client's flags record came after the activation.                    *)
ConnectInv ==
    /\ \A t \in Thread : closing[t] # "no" \/ connecting[t] = "activate" => Held
    /\ client_open \/ client_closing \/ permessage_deflate => Held
    /\ \A t \in Thread : connecting[t] \in Handshaking => ~Held
    /\ \A t \in Thread : connecting[t] # "no" =>
          t \in App /\ Usable /\ \A u \in Thread \ {t} : connecting[u] = "no"
    /\ \A t \in Thread : pc[t] = "opened" =>
          /\ connecting[t] = "activate" /\ ~is_open /\ ~is_closing /\ ~reader_running
          /\ \A u \in Thread \ {t} : pc[u] \in {"idle", "off"}
          /\ \A u \in Thread : closing[u] = "no"
          /\ ~client_open /\ ~client_closing

AccessInv == ThreadInv /\ OneOpener /\ RunInv /\ HeldInv /\ ClientTypes /\ ConnectInv

(* The activation of the connection, seen from the connection.             *)
LEMMA ActivatesJump ==
    ASSUME AccessInv, NEW t \in Thread, Activates(t)
    PROVE  /\ ~Held /\ Usable /\ t \in App /\ Jump(t, "idle", "opened")
           /\ UNCHANGED <<flags, out, net, delivered>>
           /\ \A u \in Thread : pc[u] \in {"idle", "off"}
<1>1. ~Held /\ t \in App /\ Usable
  BY DEF AccessInv, ConnectInv, Activates, Answered, Handshaking
<1>2. \A u \in Thread : pc[u] \in {"idle", "off"}
  BY <1>1 DEF AccessInv, HeldInv
<1>3. pc[t] = "idle"
  BY <1>1, <1>2 DEF AccessInv, ThreadInv, PlaceInv, Place
<1>4. ThreadTypes
  BY DEF AccessInv, ThreadInv, Inv, TypeOK
<1>5. Jump(t, "idle", "opened")
  BY <1>3, <1>4, GotoJump DEF Activates, Activate, Answered
<1>6. UNCHANGED <<flags, out, net, delivered>>
  BY DEF Activates, Answered, out, net, buffer, session, bounds
<1> QED
  BY <1>1, <1>2, <1>5, <1>6

(* The start of connect(): the threads and the flags of the connection are *)
(* left alone.                                                             *)
LEMMA PreparesStill ==
    ASSUME NEW t \in Thread, Prepares(t)
    PROVE  /\ \A u \in Thread : Still(u)
           /\ UNCHANGED <<flags, outbound_frame, builder, write_mutex, wire, closes, delivered>>
           /\ UNCHANGED <<client_open, client_closing, closing, permessage_deflate>>
           /\ Held <=> Held'
           /\ ~Held /\ Usable /\ \A u \in Thread : Idle(u) /\ pc[u] \in {"idle", "off"}
<1>1. /\ UNCHANGED <<flags, buffer, write_mutex, inbound, pc, local, wire, session>>
      /\ UNCHANGED <<client_open, client_closing, closing, permessage_deflate>>
      /\ Unused /\ Usable /\ \A u \in Thread : Idle(u) /\ pc[u] \in {"idle", "off"}
  BY DEF Prepares, connect_client
<1>2. Held <=> Held'
  BY <1>1 DEF Held, Begun, Usable, flags, local
<1>3. ~Held
  BY <1>1 DEF Held, Begun, Unused
<1> QED
  BY <1>1, <1>2, <1>3 DEF Still, local, buffer, session

(* The steps of the client itself keep the invariants of the threads.      *)
LEMMA ClientThread ==
    ASSUME AccessInv, [ClientNext]_cvars PROVE ThreadInv'
<1>1. ThreadInv /\ TypeOK /\ ThreadTypes
  BY DEF AccessInv, ThreadInv, Inv, TypeOK
<1>2. CASE Waits
  <2>1. UNCHANGED vars
    BY <1>2 DEF Waits
  <2> QED
    BY <1>1, <2>1, NextThread
<1>3. CASE Runs
  BY <1>1, <1>3, NextThread DEF Runs
<1>4. ASSUME NEW t \in Thread, Prepares(t) PROVE ThreadInv'
  <2>1. /\ \A u \in Thread : Still(u)
        /\ UNCHANGED <<flags, outbound_frame, builder, write_mutex, wire, closes, delivered>>
    BY <1>4, PreparesStill
  <2>2. /\ is_closing' = is_closing /\ alive' = alive
        /\ UNCHANGED <<reader_running, reader_thread>>
    BY <2>1 DEF flags
  <2>3. OrderInv'
    BY <1>1, <2>1, <2>2, QuietOrder DEF ThreadInv, Inv
  <2>4. LifeInv'
    BY <1>1, <2>1, <2>2, CalmLife DEF ThreadInv, Still
  <2>5. DestroyInv'
    BY <1>1, <2>1, <2>2, ReaderApart, SMT DEF ThreadInv, Still, DestroyInv, NoReaderAfterDestroy
  <2>6. PlaceInv' /\ CallInv'
    BY <1>1, <2>1 DEF ThreadInv, Inv, Still, PlaceInv, CallInv
  <2>7. TypeOK'
    <3>1. /\ UNCHANGED <<flags, buffer, write_mutex, inbound, pc, local, fail_code, wire,
                         session, calls>>
          /\ opens < MaxOpens /\ opens' = opens + 1
          /\ sock' = sock \/ sock' \in {"open", "closed"}
          /\ peer' = peer \/ peer' = "up"
      BY <1>4 DEF Prepares, connect_client, ensure_ssl_context, connect_host
    <3>2. FlagTypes' /\ BufferTypes' /\ InboundTypes'
      BY <1>1, <3>1, SameParts
    <3>3. ThreadTypes'
      BY <1>1, <3>1, SMT DEF ThreadTypes, local
    <3>4. SessionTypes'
      BY <1>1, <3>1, BoundTypes, SMT DEF TypeOK, SessionTypes, session
    <3> QED
      BY <3>2, <3>3, <3>4 DEF TypeOK
  <2> QED
    BY <2>3, <2>4, <2>5, <2>6, <2>7 DEF ThreadInv, Inv
<1>5. ASSUME NEW t \in Thread, Activates(t) PROVE ThreadInv'
  <2>1. /\ Jump(t, "idle", "opened") /\ Usable /\ t \in App
        /\ UNCHANGED <<flags, out, net, delivered>>
    BY <1>5, ActivatesJump
  <2>2. /\ is_closing' = is_closing /\ alive' = alive
        /\ UNCHANGED <<reader_running, reader_thread, write_mutex, wire>>
    BY <2>1 DEF flags, out
  <2>3. OrderInv'
    <3>1. \A u \in Thread : Still(u) \/ QuietMove(u)
      BY <2>1 DEF Jump, Others, QuietMove, InPongError, Sending
    <3> QED
      BY <1>1, <2>2, <3>1, QuietOrder DEF ThreadInv, Inv
  <2>4. LifeInv'
    <3>1. \A u \in Thread : \/ pc'[u] = pc[u]
                            \/ {pc[u], pc'[u]} \cap {"assign", "off"} = {}
      BY <2>1 DEF Jump, Others, Still
    <3> QED
      BY <1>1, <2>2, <3>1, CalmLife DEF ThreadInv
  <2>5. DestroyInv'
    <3>1. call[t] # "destroy"
      BY <2>1 DEF Usable
    <3> QED
      BY <1>1, <2>1, <2>2, <3>1, CalmDestroy DEF Jump, ThreadInv
  <2>6. PlaceInv'
    BY <1>1, <2>1, ReaderApart, SMT
    DEF Jump, Others, Still, ThreadInv, PlaceInv, Place, ApiCall, Sending, Callback
  <2>7. CallInv'
    BY <1>1, <2>1 DEF Jump, Others, Still, ThreadInv, Inv, CallInv, Stage
  <2>8. TypeOK'
    <3>1. /\ Goto(t, "opened")
          /\ UNCHANGED <<flags, buffer, write_mutex, inbound, local, fail_code, sock, peer,
                         wire, session, bounds>>
      BY <1>5 DEF Activates, Activate, Answered
    <3>2. ThreadTypes'
      BY <1>1, <3>1, JumpType, Labels
    <3> QED
      BY <1>1, <3>1, <3>2, OnlyThreads
  <2> QED
    BY <2>3, <2>4, <2>5, <2>6, <2>7, <2>8 DEF ThreadInv, Inv
<1> QED
  BY <1>1, <1>2, <1>3, <1>4, <1>5, ClientSteps

(* The client has one connect() at a time that starts the reader.          *)
LEMMA ClientStarts ==
    ASSUME AccessInv, [ClientNext]_cvars PROVE OneOpener' /\ RunInv'
<1>1. ThreadInv /\ OneOpener /\ RunInv /\ ThreadTypes
  BY DEF AccessInv, ThreadInv, Inv, TypeOK
<1>2. ASSUME pc' = pc, ret' = ret, reader_running' = reader_running PROVE OneOpener' /\ RunInv'
  BY <1>1, <1>2 DEF OneOpener, RunInv, Opening
<1>3. CASE Waits
  BY <1>2, <1>3 DEF Waits, vars, flags, local
<1>4. CASE Runs
  <2>1. Step
    BY <1>1, <1>4, NextThread DEF Runs
  <2>2. \A t \in Thread : ~(pc[t] = "idle" /\ pc'[t] = "start")
    BY <1>1, <1>4, MoveStarts DEF Runs
  <2> QED
    BY <1>1, <2>1, <2>2, StepOpener, StepRun DEF ThreadInv
<1>5. ASSUME NEW t \in Thread, Prepares(t) PROVE OneOpener' /\ RunInv'
  BY <1>2, <1>5 DEF Prepares, connect_client, flags, local
<1>6. ASSUME NEW t \in Thread, Activates(t) PROVE OneOpener' /\ RunInv'
  <2>1. /\ Jump(t, "idle", "opened") /\ reader_running' = reader_running
        /\ \A u \in Thread : pc[u] \in {"idle", "off"}
    BY <1>6, ActivatesJump DEF flags
  <2>2. \A u \in Thread : ret[u] = "idle"
    BY <1>1, <2>1 DEF ThreadInv, PlaceInv, Place, Sending
  <2>3. \A u \in Thread \ {t} : ~Opening(u)'
    BY <2>1, <2>2 DEF Jump, Others, Still, Opening
  <2>4. OneOpener'
    BY <2>3, ReaderApart DEF OneOpener
  <2>5. RunInv'
    BY <1>1, <2>1, CalmRun DEF Jump, Others, Still, Holding
  <2> QED
    BY <2>4, <2>5
<1> QED
  BY <1>1, <1>3, <1>4, <1>5, <1>6, ClientSteps

(* Every step keeps what is held.                                          *)
LEMMA ClientHeld == ASSUME AccessInv, [ClientNext]_cvars PROVE HeldInv'
<1>1. ThreadInv /\ RunInv /\ HeldInv
  BY DEF AccessInv
<1>2. CASE Waits
  BY <1>1, <1>2
  DEF Waits, vars, HeldInv, Held, Begun, Usable, flags
<1>3. CASE Runs
  BY <1>1, <1>3, MoveHeld DEF Runs
<1>4. ASSUME NEW t \in Thread, Prepares(t) PROVE HeldInv'
  BY <1>1, <1>4, PreparesStill, SMT DEF HeldInv, Still, flags
<1>5. ASSUME NEW t \in Thread, Activates(t) PROVE HeldInv'
  <2>1. Jump(t, "idle", "opened") /\ is_closing' = is_closing
    BY <1>5, ActivatesJump DEF flags
  <2>2. Held'
    BY <2>1 DEF Jump, Held, Begun
  <2> QED
    BY <1>1, <2>1, <2>2 DEF HeldInv, Jump, Others, Still
<1> QED
  BY <1>1, <1>2, <1>3, <1>4, <1>5, ClientSteps

(* The next step of the connect() or of the close() of one thread.         *)
ConnectGoes(t, from, to) ==
    /\ connecting[t] \in from /\ connecting'[t] \in to
    /\ \A u \in Thread \ {t} : connecting'[u] = connecting[u]
    /\ UNCHANGED <<client_closing, closing, permessage_deflate>>

CloseGoes(t, from, to) ==
    /\ closing[t] = from /\ closing'[t] = to
    /\ \A u \in Thread \ {t} : closing'[u] = closing[u]
    /\ UNCHANGED <<connecting, permessage_deflate>>

(* What the steps that leave the connection alone do to these.             *)
Turns ==
    \/ \E t \in Thread :
          \/ /\ ConnectGoes(t, Handshaking, {"no", "tls_wait", "request", "response"})
             /\ UNCHANGED client_open
          \/ ConnectGoes(t, {"activate"}, {"no"}) /\ pc[t] = "idle" /\ client_open'
          \/ /\ CloseGoes(t, "no", "mark") /\ client_open /\ ~client_closing
             /\ UNCHANGED <<client_open, client_closing>>
          \/ CloseGoes(t, "mark", "call") /\ client_closing' /\ UNCHANGED client_open
          \/ /\ CloseGoes(t, "call", "clear") /\ (~is_open \/ is_closing)
             /\ UNCHANGED <<client_open, client_closing>>
          \/ /\ CloseGoes(t, "clear", "no") /\ call[t] # "close"
             /\ ~client_open' /\ UNCHANGED client_closing
    \/ UNCHANGED <<client, permessage_deflate>>

(* They do nothing else to them, and keep their types.                     *)
LEMMA WaitsTurns == ASSUME ClientTypes, Waits PROVE Turns /\ ClientTypes'
<1> USE DEF ClientTypes
<1>1. ASSUME NEW t \in Thread, \/ enable_ssl(t) \/ ssl_handshake(t) \/ write_request(t)
                                \/ (Answered(t) /\ Refused(t))
      PROVE  Turns /\ ClientTypes'
  <2>1. /\ ConnectGoes(t, Handshaking, {"no", "tls_wait", "request", "response"})
        /\ UNCHANGED client_open
    BY <1>1, SMT
    DEF enable_ssl, ssl_handshake, write_request, Answered, Refused, ConnectStep, ConnectGoes,
        Handshaking, setting
  <2>2. ClientTypes'
    BY <1>1, SMT
    DEF enable_ssl, ssl_handshake, write_request, Answered, Refused, ConnectStep, Handshaking
  <2> QED
    BY <2>1, <2>2 DEF Turns
<1>2. ASSUME NEW t \in Thread, set_open(t) PROVE Turns /\ ClientTypes'
  <2>1. ConnectGoes(t, {"activate"}, {"no"}) /\ pc[t] = "idle" /\ client_open'
    BY <1>2, SMT DEF set_open, ConnectStep, ConnectGoes, setting
  <2>2. ClientTypes'
    BY <1>2, SMT DEF set_open, ConnectStep
  <2> QED
    BY <2>1, <2>2 DEF Turns
<1>3. ASSUME NEW t \in Thread, NEW from, NEW to \in {"no", "mark", "call", "clear"},
             closing[t] = from, closing' = [closing EXCEPT ![t] = to],
             UNCHANGED <<connecting, setting>>
      PROVE  CloseGoes(t, from, to) /\ ClientTypes'
  BY <1>3, SMT DEF CloseGoes, setting
<1>4. ASSUME NEW t \in Thread, close_client(t) PROVE Turns /\ ClientTypes'
  <2>1. CloseGoes(t, "no", "mark") /\ ClientTypes'
    BY <1>3, <1>4 DEF close_client, MayCallClient
  <2> QED
    BY <1>4, <2>1 DEF Turns, close_client
<1>5. ASSUME NEW t \in Thread, set_closing(t) PROVE Turns /\ ClientTypes'
  <2>1. CloseGoes(t, "mark", "call") /\ ClientTypes'
    BY <1>3, <1>5 DEF set_closing
  <2> QED
    BY <1>5, <2>1 DEF Turns, set_closing
<1>6. ASSUME NEW t \in Thread, call_close(t), ~is_open \/ is_closing PROVE Turns /\ ClientTypes'
  <2>1. CloseGoes(t, "call", "clear") /\ ClientTypes'
    BY <1>3, <1>6 DEF call_close
  <2> QED
    BY <1>6, <2>1 DEF Turns, call_close
<1>7. ASSUME NEW t \in Thread, clear_open(t) PROVE Turns /\ ClientTypes'
  <2>1. CloseGoes(t, "clear", "no") /\ ClientTypes'
    BY <1>3, <1>7 DEF clear_open
  <2> QED
    BY <1>7, <2>1 DEF Turns, clear_open
<1>8. CASE \/ AnswerTls \/ perform_handshake \/ OtherServer
           \/ UNCHANGED <<client, setting, handshake>>
  BY <1>8 DEF AnswerTls, perform_handshake, OtherServer, client, setting, Turns
<1> QED
  BY <1>1, <1>2, <1>4, <1>5, <1>6, <1>7, <1>8 DEF Waits

(* A step that leaves the connection alone keeps the calls apart.          *)
LEMMA WaitsConnect ==
    ASSUME ClientTypes, ConnectInv, Waits PROVE ConnectInv'
<1>1. Turns /\ UNCHANGED vars
  BY WaitsTurns DEF Waits
<1>2. /\ Held' <=> Held
      /\ Usable' <=> Usable
      /\ UNCHANGED <<pc, is_open, is_closing, reader_running>>
  BY <1>1 DEF vars, Held, Begun, Usable, flags
<1>3. ASSUME NEW t \in Thread, UNCHANGED client_open,
             ConnectGoes(t, Handshaking, {"no", "tls_wait", "request", "response"})
      PROVE  ConnectInv'
  BY <1>2, <1>3 DEF ConnectInv, ConnectGoes, Handshaking
<1>4. ASSUME NEW t \in Thread, ConnectGoes(t, {"activate"}, {"no"}), pc[t] = "idle"
      PROVE  ConnectInv'
  <2>1. Held /\ \A u \in Thread : pc[u] # "opened"
    BY <1>4 DEF ConnectInv, ConnectGoes
  <2> QED
    BY <1>2, <1>4, <2>1, SMT DEF ConnectInv, ConnectGoes, Handshaking
<1>5. ASSUME NEW t \in Thread, NEW from, NEW to, CloseGoes(t, from, to),
             Held, \A u \in Thread : pc[u] # "opened"
      PROVE  ConnectInv'
  BY <1>2, <1>5 DEF ConnectInv, CloseGoes
<1>6. ASSUME NEW t \in Thread, NEW from, NEW to, CloseGoes(t, from, to),
             from # "no" \/ client_open
      PROVE  ConnectInv'
  <2>1. Held /\ \A u \in Thread : pc[u] # "opened"
    BY <1>6 DEF ConnectInv, CloseGoes
  <2> QED
    BY <1>5, <1>6, <2>1
<1>7. CASE UNCHANGED <<client, permessage_deflate>>
  BY <1>2, <1>7 DEF ConnectInv, client
<1> QED
  BY <1>1, <1>3, <1>4, <1>6, <1>7 DEF Turns

(* A client is not destroyed while a thread is in a call of it.            *)
LEMMA UsableStays ==
    ASSUME ThreadInv, Move, Usable, NEW t \in App, ~Idle(t) PROVE Usable'
<1> USE ReaderIsThread, ReaderApart
<1>1. \A u \in Thread : pc[u] # "free"
  BY DEF ThreadInv, DestroyInv, Usable
<1>2. alive'
  BY <1>1
  DEF Move, Calls, Passes, Changes, Reads, Releases, Rests, Opens, Claims, Spawns, Assigns,
      Builds, Built, Locks, Writes, Marks, Clears, Shuts, Joins, LetsGo, Notifies, Frees, Turn,
      flags, Usable
<1>3. ASSUME NEW u \in App PROVE call'[u] # "destroy"
  <2>1. call[u] # "destroy"
    BY DEF Usable
  <2>2. ASSUME NEW w \in Thread, Calls(w), call'[w] = "destroy" => \A v \in App : Idle(v)
        PROVE  call'[u] # "destroy"
    <3>1. call'[w] # "destroy" /\ Others(w)
      BY <2>2 DEF Calls, Enter, Turn
    <3> QED
      BY <2>1, <3>1 DEF Others, Still
  <2>3. ASSUME NEW w \in Thread, Passes(w) PROVE call'[u] # "destroy"
    BY <2>1, <2>3 DEF Passes, Jump, Leave, Others, Still
  <2>4. CASE Reads \/ Releases \/ Rests
    BY <2>1, <2>4 DEF Reads, Releases, Rests, Jump, Turn, Others, Still
  <2>5. ASSUME NEW w \in Thread, Changes(w) PROVE call'[u] # "destroy"
    BY <2>1, <2>5
    DEF Changes, Opens, Claims, Spawns, Assigns, Builds, Built, Locks, Writes, Marks, Clears,
        Shuts, Joins, LetsGo, Notifies, Frees, Jump, Leave, Turn, Others, Still
  <2> QED
    BY <2>2, <2>3, <2>4, <2>5 DEF Move
<1> QED
  BY <1>2, <1>3 DEF Usable

(* So does a step of the connection.                                       *)
LEMMA RunsConnect ==
    ASSUME AccessInv, Runs PROVE ConnectInv' /\ ClientTypes'
<1> ThreadInv /\ RunInv /\ HeldInv /\ ClientTypes /\ ConnectInv /\ Move
  BY DEF AccessInv, Runs
<1>1. /\ UNCHANGED <<client_open, client_closing, connecting, permessage_deflate>>
      /\ \A t \in Thread : closing'[t] # "no" => closing[t] # "no"
      /\ ClientTypes'
  BY SMT DEF Runs, ClientTypes, setting
<1>2. Held => Held'
  BY HeldStays
<1>3. Rests => /\ UNCHANGED <<pc, is_open, is_closing, reader_running>>
               /\ Held' <=> Held
  BY SMT DEF Rests, Held, Begun, Usable, flags
<1>4. ASSUME NEW t \in Thread, connecting[t] # "no" PROVE t \in App /\ ~Idle(t) /\ Usable'
  <2>1. ~Idle(t) /\ t \in App /\ Usable
    BY <1>4 DEF Idle, ConnectInv
  <2> QED
    BY <2>1, UsableStays
<1>5. ASSUME NEW t \in Thread, connecting[t] \in Handshaking PROVE ~Held'
  <2>1. ~Held /\ ~Idle(t) /\ t \in App
    BY <1>4, <1>5 DEF ConnectInv, Handshaking
  <2>2. ~is_open /\ \A u \in Thread : pc[u] \in {"idle", "off"}
    BY <2>1 DEF HeldInv, Held, Begun
  <2>3. Rests
    BY <2>1, <2>2, NobodyMoves DEF Opens, Jump
  <2> QED
    BY <1>3, <2>1, <2>3
<1>6. ASSUME NEW t \in Thread, pc'[t] = "opened" PROVE pc[t] = "opened" /\ Rests
  <2>1. pc[t] = "opened"
    BY <1>6, MoveFlags DEF FlagsMove
  <2>2. /\ connecting[t] = "activate" /\ ~is_open
        /\ \A u \in Thread \ {t} : pc[u] \in {"idle", "off"}
    BY <2>1 DEF ConnectInv
  <2>3. ~(\A u \in App : Idle(u)) /\ ~(\E u \in Thread : Opens(u))
    BY <1>4, <1>6, <2>1, <2>2 DEF Opens, Jump
  <2> QED
    BY <2>1, <2>2, <2>3, NobodyMoves
<1> QED
  BY <1>1, <1>2, <1>3, <1>4, <1>5, <1>6, SMTT(20) DEF ConnectInv

(* So do the start of connect() and the activation.                        *)
LEMMA ConnectsConnect ==
    ASSUME AccessInv, NEW t \in Thread, Prepares(t) \/ Activates(t)
    PROVE  ConnectInv' /\ ClientTypes'
<1> ThreadInv /\ RunInv /\ HeldInv /\ ClientTypes /\ ConnectInv
  BY DEF AccessInv
<1>1. CASE Prepares(t)
  <2>1. /\ \A u \in Thread : Still(u)
        /\ UNCHANGED <<flags, client_open, client_closing, closing, permessage_deflate>>
        /\ ~Held' /\ ~Held /\ Usable
        /\ \A u \in Thread : connecting[u] = "no" /\ pc[u] \in {"idle", "off"}
    BY <1>1, PreparesStill DEF Idle
  <2>2. Usable'
    BY <2>1, ReaderApart DEF Usable, Still, flags
  <2>3. /\ t \in App
        /\ connecting' = connecting \/ \E step \in {"tls", "request"} : ConnectStep(t, step)
    BY <1>1 DEF Prepares, connect_client, ensure_ssl_context, connect_host
  <2>4. /\ connecting'[t] \in {"no", "tls", "request"}
        /\ \A u \in Thread \ {t} : connecting'[u] = "no"
        /\ ClientTypes'
    BY <2>1, <2>3, SMT DEF ClientTypes, ConnectStep, Handshaking
  <2> QED
    BY <2>1, <2>2, <2>3, <2>4 DEF ConnectInv, Still
<1>2. CASE Activates(t)
  <2>1. /\ ~Held /\ Usable /\ t \in App /\ Jump(t, "idle", "opened") /\ UNCHANGED flags
        /\ \A u \in Thread : pc[u] \in {"idle", "off"}
    BY <1>2, ActivatesJump
  <2>2. /\ connecting[t] = "response" /\ ConnectStep(t, "activate")
        /\ UNCHANGED <<client_open, client_closing, closing>>
    BY <1>2 DEF Activates, Answered, Activate
  <2>3. \A u \in Thread \ {t} : connecting[u] = "no"
    BY <2>2 DEF ConnectInv
  <2>4. /\ connecting'[t] = "activate" /\ \A u \in Thread \ {t} : connecting'[u] = "no"
        /\ ClientTypes'
    BY <2>2, <2>3, SMT DEF ClientTypes, ConnectStep
  <2>5. Held' /\ Usable'
    BY <2>1, ReaderApart DEF Held, Begun, Usable, Jump, Others, Still, flags
  <2>6. /\ ~is_open' /\ ~is_closing' /\ ~reader_running'
        /\ \A u \in Thread \ {t} : pc'[u] \in {"idle", "off"}
    BY <2>1 DEF Held, Begun, Jump, Others, Still, flags
  <2>7. ~client_open /\ ~client_closing /\ \A u \in Thread : closing[u] = "no"
    BY <2>1 DEF ConnectInv
  <2> QED
    BY <2>1, <2>2, <2>4, <2>5, <2>6, <2>7 DEF ConnectInv, Handshaking
<1> QED
  BY <1>1, <1>2

(* Every step of the client keeps all this.                                *)
LEMMA ClientAccess == ASSUME AccessInv, [ClientNext]_cvars PROVE AccessInv'
<1>1. ThreadInv' /\ OneOpener' /\ RunInv' /\ HeldInv'
  BY ClientThread, ClientStarts, ClientHeld
<1>2. ConnectInv' /\ ClientTypes'
  <2>1. Waits \/ Runs \/ \E t \in Thread : Prepares(t) \/ Activates(t)
    BY ClientSteps DEF AccessInv
  <2> QED
    BY <2>1, WaitsTurns, WaitsConnect, RunsConnect, ConnectsConnect DEF AccessInv
<1> QED
  BY <1>1, <1>2 DEF AccessInv

-----------------------------------------------------------------------------
(* The upgrade.                                                            *)

(* What parse_http_headers makes of a message whose only line on           *)
(* extensions is the last, if there is one.                                *)
LEMMA ParsedExtensions ==
    ASSUME NEW S, NEW base \in Seq(S), NEW words,
           \A i \in 1..Len(base) : base[i].name # "sec-websocket-extensions"
    PROVE  header_offers_permessage_deflate(parse_http_headers(base \o Extensions(words)))
              <=> "permessage-deflate" \in words
<1> DEFINE name == "sec-websocket-extensions"
           lines == base \o Extensions(words)
           headers == parse_http_headers(lines)
<1>1. DOMAIN headers = {lines[i].name : i \in DOMAIN lines} \ {""}
  BY DEF parse_http_headers
<1>2. CASE words = {}
  <2>1. DOMAIN lines = 1..Len(base) /\ \A i \in 1..Len(base) : lines[i] = base[i]
    BY <1>2, SMT DEF Extensions
  <2>2. name \notin DOMAIN headers
    BY <1>1, <2>1
  <2> QED
    BY <1>2, <2>2 DEF header_offers_permessage_deflate
<1>3. CASE words # {}
  <2> DEFINE n == Len(base) + 1
  <2>1. /\ DOMAIN lines = 1..n /\ Len(lines) = n /\ n \in 1..n /\ n \in Nat
        /\ lines[n] = Line(name, words)
        /\ \A i \in 1..n : i # n => i \in 1..Len(base) /\ lines[i] = base[i]
    BY <1>3, SMT DEF Extensions
  <2>2. lines[n].name = name /\ lines[n].words = words /\ name # ""
    BY <2>1, SMT DEF Line
  <2>3. name \in DOMAIN headers
    BY <1>1, <2>1, <2>2
  <2> DEFINE Last(i) == /\ lines[i].name = name
                        /\ \A j \in (i + 1)..Len(lines) : lines[j].name # name
  <2>4. Last(n) /\ \A i \in 1..n : Last(i) => i = n
    <3>1. (n + 1)..Len(lines) = {}
      BY <2>1, SMT
    <3> HIDE DEF n
    <3> QED
      BY <2>1, <2>2, <3>1
  <2>5. headers[name] = lines[CHOOSE i \in DOMAIN lines : Last(i)].words
    BY <1>1, <2>3 DEF parse_http_headers
  <2>6. (CHOOSE i \in DOMAIN lines : Last(i)) = n
    <3> HIDE DEF Last, n, lines
    <3> QED
      BY <2>1, <2>4
  <2>7. headers[name] = words
    BY <2>2, <2>5, <2>6
  <2> QED
    BY <2>3, <2>7 DEF header_offers_permessage_deflate
<1> QED
  BY <1>2, <1>3

(* The extensions of a message that offers deflate or not.                 *)
Offer(enabled) == IF enabled THEN permessage_deflate_offer ELSE {}

(* Whether the headers of a message offer or grant it.                     *)
Offers(lines) == header_offers_permessage_deflate(parse_http_headers(lines))

(* A request and an answer tell whether deflate was offered.               *)
LEMMA MessagesOffer ==
    ASSUME NEW words, NEW accept
    PROVE  /\ Offers(build_client_request(generate_key, words))
                 <=> "permessage-deflate" \in words
           /\ Offers(build_server_response(accept, words).lines)
                 <=> "permessage-deflate" \in words
<1> USE DEF Offers
<1>1. Offers(build_client_request(generate_key, words)) <=> "permessage-deflate" \in words
  <2> DEFINE base == <<Line("host", {"host"}), Line("upgrade", {"websocket"}),
                       Line("connection", {"upgrade"}), Line("sec-websocket-key", {generate_key}),
                       Line("sec-websocket-version", {"13"})>>
  <2>1. /\ base \in Seq({base[1], base[2], base[3], base[4], base[5]})
        /\ \A i \in 1..Len(base) : base[i].name # "sec-websocket-extensions"
    BY SMT DEF Line
  <2>2. build_client_request(generate_key, words) = base \o Extensions(words)
    BY DEF build_client_request
  <2> HIDE DEF base
  <2> QED
    BY <2>1, <2>2, ParsedExtensions
<1>2. Offers(build_server_response(accept, words).lines) <=> "permessage-deflate" \in words
  <2> DEFINE base == <<Line("upgrade", {"websocket"}), Line("connection", {"upgrade"}),
                       Line("sec-websocket-accept", {accept})>>
  <2>1. /\ base \in Seq({base[1], base[2], base[3]})
        /\ \A i \in 1..Len(base) : base[i].name # "sec-websocket-extensions"
    BY SMT DEF Line
  <2>2. build_server_response(accept, words).lines = base \o Extensions(words)
    BY DEF build_server_response
  <2> HIDE DEF base
  <2> QED
    BY <2>1, <2>2, ParsedExtensions
<1> QED
  BY <1>1, <1>2

(* An answer without headers grants nothing.                               *)
LEMMA NothingOffered == ~Offers(<<>>)
<1>1. DOMAIN parse_http_headers(<<>>) = {}
  BY SMT DEF parse_http_headers
<1> QED
  BY <1>1 DEF Offers, header_offers_permessage_deflate

Upgraded ==
    request # NoRequest /\ "101" \in response.status /\ (secure <=> tls = "done")

(* What connect() has established when the connection is activated, and    *)
(* at the steps before.                                                    *)
UpgradeInv ==
    /\ Begun \/ wire # <<>> => Upgraded
    /\ \A t \in Thread :
          /\ connecting[t] \in {"tls", "tls_wait"} => secure
          /\ connecting[t] \in {"request", "response"} => (secure <=> tls = "done")
          /\ connecting[t] = "response" => request # NoRequest

(* A handshake in progress or over: an answer is given once.               *)
LEMMA NotAnswered == "101" \notin NoResponse.status
  BY DEF NoResponse

(* Every step of the client keeps what the upgrade established.            *)
LEMMA ClientUpgrade ==
    ASSUME AccessInv, UpgradeInv, [ClientNext]_cvars PROVE UpgradeInv'
<1> ThreadInv /\ RunInv /\ HeldInv /\ ClientTypes /\ ConnectInv
  BY DEF AccessInv
<1>1. CASE Runs
  <2>1. UNCHANGED <<connecting, secure, tls, request, response>>
    BY <1>1 DEF Runs, setting, handshake
  <2>2. (Begun' => Begun) /\ (wire' # <<>> => wire # <<>> \/ Begun)
    BY <1>1, BegunBefore DEF Runs
  <2> QED
    BY <2>1, <2>2 DEF UpgradeInv, Upgraded
<1>2. ASSUME NEW t \in Thread, Prepares(t) PROVE UpgradeInv'
  <2>1. ~Held' /\ ~Held /\ wire' = wire /\ \A u \in Thread : connecting[u] = "no"
    BY <1>2, PreparesStill DEF Idle
  <2>2. wire' = <<>> /\ ~Begun'
    BY <2>1 DEF HeldInv, Held
  <2>3. /\ tls' = "none"
        /\ \/ connecting' = connecting
           \/ ConnectStep(t, IF secure' THEN "tls" ELSE "request")
    BY <1>2 DEF Prepares, connect_client, ensure_ssl_context, connect_host
  <2>4. \A u \in Thread : /\ connecting'[u] = "tls" => secure'
                          /\ connecting'[u] = "request" => ~secure'
                          /\ connecting'[u] \notin {"tls_wait", "response"}
    BY <2>1, <2>3, SMT DEF ConnectStep, ClientTypes
  <2> QED
    BY <2>2, <2>3, <2>4 DEF UpgradeInv
<1>3. ASSUME NEW t \in Thread, Activates(t) PROVE UpgradeInv'
  <2>1. /\ connecting[t] = "response" /\ "101" \in response.status
        /\ ConnectStep(t, "activate")
        /\ UNCHANGED <<secure, tls, request, response>>
    BY <1>3 DEF Activates, Answered, Activate, handshake
  <2>2. \A u \in Thread : connecting'[u] = connecting[u] \/ connecting'[u] = "activate"
    BY <2>1, SMT DEF ConnectStep, ClientTypes
  <2> QED
    BY <2>1, <2>2 DEF UpgradeInv, Upgraded
<1>4. CASE Waits
  <2>1. UNCHANGED vars /\ (Begun' <=> Begun) /\ wire' = wire
    BY <1>4 DEF Waits, vars, Begun, flags
  <2>2. ASSUME NEW t \in Thread, connecting[t] \in Handshaking PROVE ~Begun /\ wire = <<>>
    BY <2>2 DEF ConnectInv, HeldInv, Held
  <2>3. ASSUME NEW t \in Thread, enable_ssl(t) \/ ssl_handshake(t) PROVE UpgradeInv'
    <3>1. /\ UNCHANGED <<secure, tls>> /\ connecting[t] \in {"tls", "tls_wait"} /\ secure
          /\ \/ ConnectStep(t, "no") \/ ConnectStep(t, "tls_wait")
             \/ ConnectStep(t, "request") /\ tls = "done"
      BY <2>3 DEF enable_ssl, ssl_handshake, setting, handshake, UpgradeInv
    <3>2. \A u \in Thread \ {t} : connecting[u] = "no"
      BY <3>1 DEF ConnectInv
    <3>3. /\ \A u \in Thread \ {t} : connecting'[u] = "no"
          /\ \/ connecting'[t] \in {"no", "tls_wait"}
             \/ connecting'[t] = "request" /\ tls = "done"
      BY <3>1, <3>2, SMTT(20) DEF ClientTypes, ConnectStep
    <3> QED
      BY <2>1, <2>2, <3>1, <3>3 DEF UpgradeInv, Handshaking
  <2>4. ASSUME NEW t \in Thread, write_request(t) PROVE UpgradeInv'
    <3>1. /\ UNCHANGED <<secure, tls>> /\ connecting[t] = "request"
          /\ \/ ConnectStep(t, "no")
             \/ /\ ConnectStep(t, "response")
                /\ \E extensions : request' = build_client_request(generate_key, extensions)
      BY <2>4 DEF write_request, setting
    <3>2. \A u \in Thread \ {t} : connecting[u] = "no"
      BY <3>1 DEF ConnectInv
    <3>3. ASSUME NEW extensions
          PROVE  build_client_request(generate_key, extensions) # NoRequest
      BY SMT DEF build_client_request, NoRequest, Extensions
    <3>4. /\ \A u \in Thread \ {t} : connecting'[u] = "no"
          /\ connecting'[t] = "no" \/ (connecting'[t] = "response" /\ request' # NoRequest)
      BY <3>1, <3>2, <3>3, SMTT(20) DEF ClientTypes, ConnectStep
    <3> QED
      BY <2>1, <2>2, <3>1, <3>4 DEF UpgradeInv, Handshaking
  <2>5. CASE perform_handshake \/ OtherServer
    <3>1. /\ response = NoResponse /\ UNCHANGED <<connecting, secure, tls, request>>
      BY <2>5 DEF perform_handshake, OtherServer, MayAnswer, client, setting
    <3> QED
      BY <2>1, <3>1, NotAnswered DEF UpgradeInv, Upgraded
  <2>6. ASSUME UNCHANGED <<secure, tls, request, response>>,
               \A u \in Thread : connecting'[u] \in {connecting[u], "no"}
        PROVE  UpgradeInv'
    BY <2>1, <2>6 DEF UpgradeInv, Upgraded
  <2>7. ASSUME NEW t \in Thread, (Answered(t) /\ Refused(t)) \/ set_open(t) \/ close_client(t)
                 \/ set_closing(t) \/ clear_open(t) \/ call_close(t)
        PROVE  UpgradeInv'
    <3>1. /\ UNCHANGED <<secure, tls, request, response>>
          /\ connecting' = connecting \/ ConnectStep(t, "no")
      BY <2>7 DEF Answered, Refused, set_open, close_client, set_closing, clear_open, call_close,
         setting, handshake
    <3>2. \A u \in Thread : connecting'[u] \in {connecting[u], "no"}
      BY <3>1, SMT DEF ConnectStep, ClientTypes
    <3> QED
      BY <2>6, <3>1, <3>2
  <2>8. CASE UNCHANGED <<client, setting, handshake>>
    BY <2>6, <2>8 DEF client, setting, handshake
  <2>9. CASE AnswerTls
    <3>1. PICK t \in App : connecting[t] = "tls_wait"
      BY <2>9 DEF AnswerTls
    <3>2. \A u \in Thread : connecting[u] \in {"no", "tls_wait"}
      BY <3>1, ReaderApart DEF ConnectInv
    <3>3. UNCHANGED <<connecting, secure>>
      BY <2>9 DEF AnswerTls, client, setting
    <3>4. ~Begun /\ wire = <<>>
      BY <2>2, <3>1, ReaderApart DEF Handshaking
    <3> QED
      BY <2>1, <3>2, <3>3, <3>4 DEF UpgradeInv
  <2> QED
    BY <1>4, <2>3, <2>4, <2>5, <2>7, <2>8, <2>9 DEF Waits
<1> QED
  BY <1>1, <1>2, <1>3, <1>4, ClientSteps

(* Who offered and who granted permessage-deflate.                         *)
DeflateInv ==
    /\ request \in {NoRequest, build_client_request(generate_key, Offer(request_deflate))}
    /\ server_deflate => response # NoResponse /\ request_deflate
    /\ response # NoResponse => (Offers(response.lines) <=> server_deflate)
    /\ Begun => (permessage_deflate <=> server_deflate)

(* Every step of the client keeps the ends in agreement.                   *)
LEMMA ClientDeflate ==
    ASSUME AccessInv, UpgradeInv, DeflateInv, [ClientNext]_cvars PROVE DeflateInv'
<1> ThreadInv /\ RunInv /\ HeldInv /\ ClientTypes /\ ConnectInv
  BY DEF AccessInv
<1>1. CASE Runs
  <2>1. UNCHANGED <<request, response, request_deflate, permessage_deflate, server_deflate>>
    BY <1>1 DEF Runs, setting, handshake
  <2>2. Begun' => Begun
    BY <1>1, BegunBefore DEF Runs
  <2> QED
    BY <2>1, <2>2 DEF DeflateInv
<1>2. ASSUME NEW t \in Thread, Prepares(t) PROVE DeflateInv'
  <2>1. ~Begun'
    BY <1>2, PreparesStill DEF Held
  <2>2. request' = NoRequest /\ response' = NoResponse /\ server_deflate' = FALSE
    BY <1>2 DEF Prepares, connect_client
  <2> QED
    BY <2>1, <2>2, NotAnswered DEF DeflateInv
<1>3. ASSUME NEW t \in Thread, Activates(t) PROVE DeflateInv'
  <2>1. /\ response # NoResponse /\ TakeUpDeflate
        /\ UNCHANGED <<request, response, request_deflate, server_deflate>>
    BY <1>3, NotAnswered DEF Activates, Answered, handshake
  <2>3. Offers(response.lines) <=> server_deflate
    BY <2>1 DEF DeflateInv
  <2>4. ~permessage_deflate
    BY <1>3, ActivatesJump DEF ConnectInv
  <2>5. server_deflate => request_deflate
    BY <2>1 DEF DeflateInv
  <2>6. permessage_deflate' <=> server_deflate'
    BY <2>1, <2>3, <2>4, <2>5 DEF TakeUpDeflate, Offers
  <2> QED
    BY <2>1, <2>6 DEF DeflateInv
<1>4. CASE Waits
  <2>1. /\ UNCHANGED <<vars, permessage_deflate, request_deflate>>
        /\ Begun' <=> Begun
    BY <1>4 DEF Waits, vars, Begun, flags, enable_ssl, ssl_handshake, write_request, set_open,
       Answered, Refused, close_client, set_closing, call_close, clear_open, AnswerTls,
       perform_handshake, OtherServer, setting
  <2>2. ASSUME NEW t \in Thread, write_request(t) PROVE DeflateInv'
    <3>1. ~Begun
      BY <2>2 DEF write_request, ConnectInv, Held, Handshaking
    <3>2. /\ UNCHANGED <<response, server_deflate>>
          /\ \/ request' = request
             \/ request' = build_client_request(generate_key, Offer(request_deflate))
      BY <2>2 DEF write_request, Offer
    <3> QED
      BY <2>1, <3>1, <3>2 DEF DeflateInv
  <2>3. ASSUME MayAnswer
        PROVE  /\ ~Begun /\ ~server_deflate
               /\ request = build_client_request(generate_key, Offer(request_deflate))
               /\ Offers(request) <=> request_deflate
    <3>1. request # NoRequest /\ response = NoResponse
      BY <2>3 DEF MayAnswer
    <3>2. ~Begun /\ ~server_deflate
      BY <3>1, NotAnswered DEF UpgradeInv, Upgraded, DeflateInv
    <3>3. request = build_client_request(generate_key, Offer(request_deflate))
      BY <3>1 DEF DeflateInv
    <3>4. Offers(request) <=> "permessage-deflate" \in Offer(request_deflate)
      BY <3>3, MessagesOffer
    <3> QED
      BY <3>2, <3>3, <3>4 DEF Offer, permessage_deflate_offer
  <2>4. ASSUME MayAnswer, request' = request, server_deflate' = Offers(request),
               NEW accept, NEW words, response' = build_server_response(accept, words),
               "permessage-deflate" \in words <=> server_deflate'
        PROVE  DeflateInv'
    <3>1. response' # NoResponse
      BY <2>4, SMT DEF build_server_response, NoResponse
    <3>2. Offers(response'.lines) <=> server_deflate'
      BY <2>4, MessagesOffer
    <3> QED
      BY <2>1, <2>3, <2>4, <3>1, <3>2 DEF DeflateInv
  <2>5. CASE perform_handshake
    <3>1. /\ MayAnswer /\ request' = request /\ server_deflate' = Offers(request)
          /\ \E accept : response' = build_server_response(accept, Offer(server_deflate'))
      BY <2>5 DEF perform_handshake, Offer, Offers
    <3>2. "permessage-deflate" \in Offer(server_deflate') <=> server_deflate'
      BY DEF Offer, permessage_deflate_offer
    <3> QED
      BY <2>4, <3>1, <3>2
  <2>6. CASE OtherServer
    <3>1. MayAnswer /\ request' = request
      BY <2>6 DEF OtherServer
    <3>2. CASE /\ server_deflate' = Offers(request)
               /\ response' = build_server_response("other",
                                 IF server_deflate' THEN {"permessage-deflate"} ELSE {})
      <4>1. "permessage-deflate" \in (IF server_deflate' THEN {"permessage-deflate"} ELSE {})
               <=> server_deflate'
        OBVIOUS
      <4> QED
        BY <2>4, <3>1, <3>2, <4>1
    <3>3. ASSUME NEW status \in {{"400"}, {"400", "101"}},
                 response' = [status |-> status, lines |-> <<>>], UNCHANGED server_deflate
          PROVE  DeflateInv'
      <4>1. response' # NoResponse /\ response'.lines = <<>>
        BY <3>3, SMT DEF NoResponse
      <4> QED
        BY <2>1, <2>3, <3>1, <3>3, <4>1, NothingOffered DEF DeflateInv
    <3> QED
      BY <2>6, <3>2, <3>3 DEF OtherServer, Offers
  <2>7. CASE UNCHANGED <<request, response, server_deflate>>
    BY <2>1, <2>7 DEF DeflateInv
  <2>8. ASSUME NEW t \in Thread, \/ enable_ssl(t) \/ ssl_handshake(t) \/ set_open(t)
                 \/ (Answered(t) /\ Refused(t)) \/ close_client(t) \/ set_closing(t)
                 \/ call_close(t) \/ clear_open(t)
        PROVE  UNCHANGED <<request, response, server_deflate>>
    BY <2>8 DEF enable_ssl, ssl_handshake, set_open, Answered, close_client, set_closing,
       call_close, clear_open, handshake
  <2>9. AnswerTls => UNCHANGED <<request, response, server_deflate>>
    BY DEF AnswerTls
  <2> QED
    BY <1>4, <2>2, <2>5, <2>6, <2>7, <2>8, <2>9 DEF Waits, handshake
<1> QED
  BY <1>1, <1>2, <1>3, <1>4, ClientSteps

-----------------------------------------------------------------------------
(* The client's own flags follow the connection's: while the connection is *)
(* open and not closing, the client is open or a connect() is about to     *)
(* make it so, and it is marked as closing only by a close() that is       *)
(* still to close the connection.                                          *)
FlagInv ==
    /\ is_open /\ ~is_closing => client_open \/ \E t \in Thread : connecting[t] = "activate"
    /\ client_closing /\ is_open /\ ~is_closing =>
          \E t \in Thread : closing[t] = "call" \/ (closing[t] = "clear" /\ call[t] = "close")
    /\ \A t \in Thread : closing[t] = "clear" => ~is_open \/ is_closing \/ call[t] = "close"
    /\ \A t \in Thread : closing[t] = "call" => client_closing

(* A step of the connection keeps this.                                    *)
LEMMA RunsFlags == ASSUME AccessInv, FlagInv, Runs PROVE FlagInv'
<1> ThreadInv /\ RunInv /\ HeldInv /\ ClientTypes /\ ConnectInv /\ Move
  BY DEF AccessInv, Runs
<1>1. FlagsMove
  BY MoveFlags
<1>2. UNCHANGED <<client_open, client_closing, connecting>>
  BY DEF Runs
<1>3. \A t \in Thread : closing'[t] = closing[t]
                        \/ (closing[t] = "call" /\ closing'[t] = "clear" /\ call'[t] = "close")
  BY SMT DEF Runs, ClientTypes, Enter
<1>4. ASSUME NEW t \in Thread, call[t] = "close", ~is_closing PROVE call'[t] = "close"
  <2>1. pc[t] = "mark"
    BY <1>4 DEF HeldInv
  <2> QED
    BY <1>4, <2>1, CloseMarks
<1>5. ASSUME NEW t \in Thread, pc[t] = "opened"
      PROVE  /\ connecting[t] = "activate" /\ ~client_closing
             /\ \A u \in Thread : closing[u] = "no"
  BY <1>5 DEF ConnectInv
<1>6. (is_open /\ ~is_closing => client_open \/ \E t \in Thread : connecting[t] = "activate")'
  BY <1>1, <1>2, <1>5 DEF FlagsMove, FlagInv
<1>7. ASSUME client_closing', is_open', ~is_closing'
      PROVE  \E t \in Thread : closing'[t] = "call" \/ (closing'[t] = "clear" /\ call'[t] = "close")
  <2>1. is_open /\ ~is_closing /\ client_closing
    BY <1>1, <1>2, <1>5, <1>7 DEF FlagsMove
  <2>2. PICK t \in Thread : closing[t] = "call" \/ (closing[t] = "clear" /\ call[t] = "close")
    BY <2>1 DEF FlagInv
  <2> QED
    BY <1>3, <1>4, <2>1, <2>2
<1>8. ASSUME NEW t \in Thread, closing'[t] = "clear"
      PROVE  ~is_open' \/ is_closing' \/ call'[t] = "close"
  <2>1. CASE closing[t] = "clear"
    <3>1. ~is_open \/ is_closing \/ call[t] = "close"
      BY <2>1 DEF FlagInv
    <3>2. is_open' => is_open
      BY <1>1, <1>5, <2>1 DEF FlagsMove
    <3> QED
      BY <1>1, <1>4, <3>1, <3>2 DEF FlagsMove
  <2> QED
    BY <1>3, <1>8, <2>1
<1>9. \A t \in Thread : closing'[t] = "call" => client_closing'
  BY <1>2, <1>3 DEF FlagInv
<1> QED
  BY <1>6, <1>7, <1>8, <1>9 DEF FlagInv

(* So does every step of the client.                                       *)
LEMMA ClientFlags == ASSUME AccessInv, FlagInv, [ClientNext]_cvars PROVE FlagInv'
<1> ThreadInv /\ RunInv /\ HeldInv /\ ClientTypes /\ ConnectInv
  BY DEF AccessInv
<1>1. ASSUME NEW t \in Thread, Prepares(t) \/ Activates(t) PROVE FlagInv'
  <2>1. ~is_open /\ is_open' = is_open /\ UNCHANGED <<closing, client_closing>>
    <3>1. CASE Prepares(t)
      BY <3>1, PreparesStill DEF Held, Begun, flags
    <3>2. CASE Activates(t)
      BY <3>2, ActivatesJump DEF Held, Begun, flags, Activates, Answered
    <3> QED
      BY <1>1, <3>1, <3>2
  <2> QED
    BY <2>1 DEF FlagInv
<1>2. CASE Waits
  <2>1. Turns /\ UNCHANGED <<is_open, is_closing, call, pc>>
    BY <1>2, WaitsTurns DEF Waits, vars, flags
  <2>2. ASSUME NEW t \in Thread, UNCHANGED client_open,
               ConnectGoes(t, Handshaking, {"no", "tls_wait", "request", "response"})
        PROVE  FlagInv'
    BY <2>1, <2>2 DEF FlagInv, ConnectGoes, Handshaking
  <2>3. ASSUME NEW t \in Thread, ConnectGoes(t, {"activate"}, {"no"}), client_open'
        PROVE  FlagInv'
    BY <2>1, <2>3 DEF FlagInv, ConnectGoes
  <2>4. ASSUME NEW t \in Thread, CloseGoes(t, "no", "mark"),
               UNCHANGED <<client_open, client_closing>>
        PROVE  FlagInv'
    BY <2>1, <2>4 DEF FlagInv, CloseGoes
  <2>5. ASSUME NEW t \in Thread, CloseGoes(t, "mark", "call"), client_closing',
               UNCHANGED client_open
        PROVE  FlagInv'
    BY <2>1, <2>5 DEF FlagInv, CloseGoes
  <2>6. ASSUME NEW t \in Thread, CloseGoes(t, "call", "clear"), ~is_open \/ is_closing,
               UNCHANGED <<client_open, client_closing>>
        PROVE  FlagInv'
    BY <2>1, <2>6 DEF FlagInv, CloseGoes
  <2>7. ASSUME NEW t \in Thread, CloseGoes(t, "clear", "no"), call[t] # "close",
               ~client_open', UNCHANGED client_closing
        PROVE  FlagInv'
    <3>1. ~is_open \/ is_closing
      BY <2>7 DEF FlagInv, CloseGoes
    <3> QED
      BY <2>1, <2>7, <3>1 DEF FlagInv, CloseGoes
  <2>8. CASE UNCHANGED <<client, permessage_deflate>>
    BY <2>1, <2>8 DEF FlagInv, client
  <2> QED
    BY <2>1, <2>2, <2>3, <2>4, <2>5, <2>6, <2>7, <2>8 DEF Turns
<1> QED
  BY <1>1, <1>2, RunsFlags, ClientSteps

-----------------------------------------------------------------------------
(* The inductive invariant of the client.                                  *)
ClientInv == AccessInv /\ UpgradeInv /\ DeflateInv /\ FlagInv

(* It holds for a client that has just been constructed.                   *)
LEMMA InitClient == ASSUME ClientInit PROVE ClientInv
<1> USE DEF ClientInit
<1>1. ThreadInv /\ OneOpener /\ RunInv
  BY InitStart DEF StartInv
<1>2. /\ ~is_open /\ ~is_closing /\ ~reader_running /\ alive /\ wire = <<>>
      /\ \A t \in Thread : pc[t] \in {"idle", "off"} /\ call[t] = "none"
      /\ \A t \in Thread : connecting[t] = "no" /\ closing[t] = "no"
  BY DEF Init
<1>3. ~Begun /\ Usable /\ ~Held
  BY <1>2, ReaderApart DEF Begun, Usable, Held
<1>4. HeldInv /\ ConnectInv
  BY <1>2, <1>3 DEF HeldInv, ConnectInv, Handshaking
<1>5. ClientTypes
  BY SMT DEF ClientTypes
<1>6. UpgradeInv /\ DeflateInv
  BY <1>2, <1>3, NotAnswered DEF UpgradeInv, DeflateInv
<1>7. FlagInv
  BY <1>2 DEF FlagInv
<1> QED
  BY <1>1, <1>4, <1>5, <1>6, <1>7 DEF ClientInv, AccessInv

(* Every step of the client keeps it.                                      *)
LEMMA NextClient == ASSUME ClientInv, [ClientNext]_cvars PROVE ClientInv'
  BY ClientAccess, ClientUpgrade, ClientDeflate, ClientFlags DEF ClientInv

(* For any attempts of connect(), servers and application threads, and     *)
(* whatever an earlier attempt left behind: no WebSocket frame is written  *)
(* and no reader runs before the server of this very TCP connection has    *)
(* answered with 101 in its status line, over TLS if the URL asked for it. *)
THEOREM UpgradeBeforeFrames == ClientSpec => []FramesAfterUpgrade
<1>1. ClientInit => ClientInv
  BY InitClient
<1>2. ClientInv /\ [ClientNext]_cvars => ClientInv'
  BY NextClient
<1>3. ClientInv => FramesAfterUpgrade
  <2>1. ASSUME ClientInv PROVE pc[Reader] # "off" => Begun
    BY <2>1 DEF ClientInv, AccessInv, RunInv, Begun
  <2> QED
    BY <2>1 DEF ClientInv, UpgradeInv, Upgraded, FramesAfterUpgrade, Begun
<1> QED
  BY <1>1, <1>2, <1>3, PTL DEF ClientSpec

(* The client compresses exactly when the server's connection does: what   *)
(* the client takes from the answer is what perform_handshake granted, for *)
(* any server and whatever earlier attempts asked for.                     *)
THEOREM DeflateOnBothEnds == ClientSpec => []DeflateAgrees
<1>1. ClientInit => ClientInv
  BY InitClient
<1>2. ClientInv /\ [ClientNext]_cvars => ClientInv'
  BY NextClient
<1>3. ClientInv => DeflateAgrees
  BY DEF ClientInv, DeflateInv, DeflateAgrees, Begun
<1> QED
  BY <1>1, <1>2, <1>3, PTL DEF ClientSpec

(* The client's is_open_ and is_closing_ never shut out the only close()   *)
(* there is: with the connection open and no call of the client in         *)
(* progress, close() goes through to the connection.                       *)
THEOREM CloseTakesEffect == ClientSpec => []CloseEffective
<1>1. ClientInit => ClientInv
  BY InitClient
<1>2. ClientInv /\ [ClientNext]_cvars => ClientInv'
  BY NextClient
<1>3. ClientInv => CloseEffective
  BY DEF ClientInv, FlagInv, CloseEffective, Idle
<1> QED
  BY <1>1, <1>2, <1>3, PTL DEF ClientSpec

(* What the client does with the reader is safe too when one thread at     *)
(* most closes, although the check and the setting of the client's         *)
(* is_closing_ are two steps.  Nothing is assumed on starts: the client    *)
(* starts the reader in connect() only.                                    *)
THEOREM ClientNoAbort ==
    ASSUME OneCloser PROVE ClientSpec => []NoAbort
<1>1. ClientInit => ClientInv /\ JoinInv
  <2> SUFFICES ASSUME ClientInit PROVE JoinInv
    BY InitClient
  <2>1. \A t \in Thread : call[t] = "none" /\ pc[t] \in {"off", "idle"}
    BY DEF ClientInit, Init
  <2> QED
    BY <2>1, ReaderApart DEF JoinInv, NoAbort
<1>2. ClientInv /\ JoinInv /\ [ClientNext]_cvars => (ClientInv /\ JoinInv)'
  <2> SUFFICES ASSUME ClientInv, JoinInv, [ClientNext]_cvars PROVE JoinInv'
    BY NextClient
  <2>1. AccessInv /\ ThreadInv /\ RunInv /\ ThreadTypes /\ CallInv
    BY DEF ClientInv, AccessInv, ThreadInv, Inv, TypeOK
  <2>2. CASE Waits
    BY <2>2 DEF Waits, vars, flags, JoinInv, NoAbort
  <2>3. CASE Runs
    <3>1. Step
      BY <2>1, <2>3, NextThread DEF Runs
    <3> QED
      BY <2>1, <3>1, StepJoin DEF ThreadInv
  <2>4. ASSUME NEW t \in Thread, Prepares(t) PROVE JoinInv'
    BY <2>4, PreparesStill, ReaderApart DEF Still, flags, JoinInv, NoAbort
  <2>5. ASSUME NEW t \in Thread, Activates(t) PROVE JoinInv'
    BY <2>1, <2>5, ActivatesJump, ReaderApart, SMTT(20)
    DEF Jump, Others, Still, flags, JoinInv, NoAbort
  <2> QED
    BY <2>1, <2>2, <2>3, <2>4, <2>5, ClientSteps
<1>3. JoinInv => NoAbort
  BY DEF JoinInv
<1> QED
  BY <1>1, <1>2, <1>3, PTL DEF ClientSpec
=============================================================================
