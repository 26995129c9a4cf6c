---------------------------- MODULE ServerProofs ----------------------------
(***************************************************************************)
(* Proofs, for any set of connections, that stop() leaves nothing running  *)
(* (StopQuiesces of module Server) and that it finds every connection in   *)
(* one of the two tables (Reachable).                                      *)
(*                                                                         *)
(* StopQuiesces is not inductive.  What makes it true is where the worker  *)
(* threads are: one that is not over is in workers_, or still in the hands *)
(* of the accept thread, or in the vector stop() is joining.  The accept   *)
(* thread is over before stop() takes workers_, so the middle case is gone *)
(* by then and the last one when the vector is empty.                      *)
(***************************************************************************)
EXTENDS Server, TLAPS

Live(c) == handle_accept[c] \notin {"none", "done"}

(* Past the join of the accept thread.                                     *)
Alone == {"take_workers", "join_workers", "stopped", "destroyed"}

(* thread_ is joinable as long as the accept thread runs, and stop() goes  *)
(* past the join only when it does not.                                    *)
AcceptInv ==
    /\ main \in {"idle", "listening"} => accept_loop = "off"
    /\ thread = "none" => accept_loop \in {"off", "done"}
    /\ main \in Alone => accept_loop \in {"off", "done"}

(* Where the workers that are not over can be found.                       *)
WorkerInv ==
    /\ \A c \in Conn : Live(c) =>
          \/ c \in workers
          \/ accept_loop = "push" /\ c = accepted
          \/ main = "join_workers" /\ c \in todo
    /\ main \in {"join_workers", "stopped", "destroyed"} => workers = {}

(* Only a worker that is not over is in pending_handshakes_, and only one  *)
(* that is not over adds to connections_.                                  *)
TableInv ==
    /\ \A c \in pending_handshakes : Live(c)
    /\ main \in {"stopped", "destroyed"} => connections = {}

Inv == TypeOK /\ AcceptInv /\ WorkerInv /\ TableInv

(* The initial state satisfies the invariant: no thread has been started.  *)
LEMMA InitInv == Init => Inv
<1> SUFFICES ASSUME Init PROVE Inv
  OBVIOUS
<1>1. TypeOK
  BY DEF Init, TypeOK
<1>2. AcceptInv /\ TableInv
  BY DEF Init, AcceptInv, TableInv, Alone
<1>3. WorkerInv
  BY DEF Init, WorkerInv, Live
<1> QED
  BY <1>1, <1>2, <1>3 DEF Inv

(* Every step keeps the types.                                             *)
LEMMA NextTypeOK == TypeOK /\ AcceptInv /\ [Next]_vars => TypeOK'
<1> SUFFICES ASSUME TypeOK, AcceptInv, [Next]_vars PROVE TypeOK'
  OBVIOUS
<1> USE ServerAssumption DEF TypeOK, Stopping
<1>1. CASE listen \/ start \/ join \/ Joined \/ stop \/ Destroy
  <2>1. CASE listen
    BY <2>1 DEF listen, sessions
  <2>2. CASE start
    BY <2>2 DEF start, sessions, AcceptInv
  <2>3. CASE join
    BY <2>3 DEF join, sessions
  <2>4. CASE Joined
    BY <2>4 DEF Joined, sessions
  <2>5. CASE stop
    BY <2>5 DEF stop, sessions
  <2>6. CASE Destroy
    BY <2>6 DEF Destroy, sessions
  <2> QED
    BY <1>1, <2>1, <2>2, <2>3, <2>4, <2>5, <2>6
<1>2. CASE Stop
  <2>1. ASSUME NEW c \in Conn, CloseOne(c) \/ JoinWorker(c) PROVE TypeOK'
    BY <2>1 DEF CloseOne, JoinWorker, threads, sessions
  <2>2. CASE CloseAcceptor \/ TakePending \/ ListActive
    BY <2>2 DEF CloseAcceptor, TakePending, ListActive, sessions
  <2>3. CASE JoinAccept
    BY <2>3 DEF JoinAccept, sessions
  <2>4. CASE AcceptJoined \/ TakeWorkers \/ ClearConnections
    BY <2>4 DEF AcceptJoined, TakeWorkers, ClearConnections, sessions
  <2> QED
    BY <1>2, <2>1, <2>2, <2>3, <2>4 DEF Stop
<1>3. CASE Accept
  <2>1. CASE AcceptLoop \/ AcceptFails
    BY <2>1 DEF AcceptLoop, AcceptFails, sessions
  <2>2. CASE Poll
    BY <2>2 DEF Poll, sessions
  <2>3. ASSUME NEW c \in Conn, AcceptOne(c) PROVE TypeOK'
    BY <2>3 DEF AcceptOne
  <2>4. CASE PushWorker
    BY <2>4 DEF PushWorker, sessions
  <2> QED
    BY <1>3, <2>1, <2>2, <2>3, <2>4 DEF Accept
<1>4. ASSUME NEW c \in Conn, Work(c) PROVE TypeOK'
  BY <1>4 DEF Work, register_pending, adopt, perform_handshake, activate,
     add_connection, unregister_pending, Goto, threads
<1>5. ASSUME NEW c \in Conn, Read(c) \/ PeerCloses(c) \/ LocalClose(c) PROVE TypeOK'
  BY <1>5 DEF Read, ReaderFails, remove_connection, PeerCloses, LocalClose,
     Becomes, threads
<1>6. ASSUME NEW c \in Conn,
             ClientConnects(c) \/ ClientRequests(c) \/ ClientLeaves(c)
      PROVE TypeOK'
  BY <1>6 DEF ClientConnects, ClientRequests, ClientLeaves, threads
<1>7. CASE UNCHANGED vars
  BY <1>7 DEF vars, threads, sessions
<1> QED
  BY <1>1, <1>2, <1>3, <1>4, <1>5, <1>6, <1>7 DEF Next

(* The rest of the invariant, one step of the proof for each kind of step. *)
LEMMA NextInv == Inv /\ [Next]_vars => Inv'
<1> SUFFICES ASSUME Inv, [Next]_vars PROVE AcceptInv' /\ WorkerInv' /\ TableInv'
  BY NextTypeOK DEF Inv
<1> USE DEF Inv, AcceptInv, WorkerInv, TableInv, Live, Alone
<1>1. CASE listen
  BY <1>1 DEF listen, sessions
<1>2. CASE start
  BY <1>2 DEF start, sessions
<1>3. CASE join
  BY <1>3 DEF join, sessions
<1>4. CASE Joined
  BY <1>4 DEF Joined, sessions
<1>5. CASE stop
  BY <1>5 DEF stop, sessions
<1>6. CASE Destroy
  BY <1>6 DEF Destroy, sessions
<1>7. CASE Stop
  <2>1. CASE CloseAcceptor \/ TakePending \/ ListActive
    BY <2>1 DEF CloseAcceptor, TakePending, ListActive, sessions
  <2>2. ASSUME NEW c \in Conn, CloseOne(c) PROVE AcceptInv' /\ WorkerInv' /\ TableInv'
    BY <2>2 DEF CloseOne, threads, TypeOK
  <2>3. CASE JoinAccept
    BY <2>3 DEF JoinAccept, sessions, TypeOK
  <2>4. CASE AcceptJoined
    BY <2>4 DEF AcceptJoined, sessions
  <2>5. CASE TakeWorkers
    BY <2>5 DEF TakeWorkers, sessions
  <2>6. ASSUME NEW c \in Conn, JoinWorker(c)
        PROVE AcceptInv' /\ WorkerInv' /\ TableInv'
    BY <2>6 DEF JoinWorker, threads, sessions, TypeOK
  <2>7. CASE ClearConnections
    BY <2>7 DEF ClearConnections, sessions
  <2> QED
    BY <1>7, <2>1, <2>2, <2>3, <2>4, <2>5, <2>6, <2>7 DEF Stop
<1>8. CASE Accept
  <2>1. CASE AcceptLoop \/ Poll \/ AcceptFails
    BY <2>1 DEF AcceptLoop, Poll, AcceptFails, sessions
  <2>2. ASSUME NEW c \in Conn, AcceptOne(c) PROVE AcceptInv' /\ WorkerInv' /\ TableInv'
    BY <2>2 DEF AcceptOne, Waiting, TypeOK
  <2>3. CASE PushWorker
    BY <2>3 DEF PushWorker, sessions
  <2> QED
    BY <1>8, <2>1, <2>2, <2>3 DEF Accept
<1>9. ASSUME NEW c \in Conn, Work(c) PROVE AcceptInv' /\ WorkerInv' /\ TableInv'
  <2>1. CASE register_pending(c) \/ adopt(c) \/ perform_handshake(c) \/ activate(c)
    BY <2>1 DEF register_pending, adopt, perform_handshake, activate, Goto,
       threads, TypeOK
  <2>2. CASE add_connection(c)
    BY <2>2 DEF add_connection, Goto, threads, TypeOK
  <2>3. CASE unregister_pending(c)
    BY <2>3 DEF unregister_pending, Goto, threads, TypeOK
  <2> QED
    BY <1>9, <2>1, <2>2, <2>3 DEF Work
<1>10. ASSUME NEW c \in Conn,
              \/ Read(c) \/ PeerCloses(c) \/ LocalClose(c)
              \/ ClientConnects(c) \/ ClientRequests(c) \/ ClientLeaves(c)
       PROVE AcceptInv' /\ WorkerInv' /\ TableInv'
  BY <1>10 DEF Read, ReaderFails, remove_connection, PeerCloses, LocalClose,
     ClientConnects, ClientRequests, ClientLeaves, threads
<1>11. CASE UNCHANGED vars
  BY <1>11 DEF vars, threads, sessions
<1> QED
  BY <1>1, <1>2, <1>3, <1>4, <1>5, <1>6, <1>7, <1>8, <1>9, <1>10, <1>11 DEF Next

(* The state of the server keeps its types, whatever the interleaving of   *)
(* stop(), join(), the accept thread, the workers and the readers.         *)
THEOREM ServerTypeOK == Spec => []TypeOK
<1>1. Inv => TypeOK
  BY DEF Inv
<1> QED
  BY <1>1, InitInv, NextInv, PTL DEF Spec

(* stop() leaves nothing running: whenever it has returned, the accept     *)
(* thread and all workers are over and both tables are empty, for every    *)
(* number of connections and every moment at which stop() is called.       *)
THEOREM StopLeavesNothing == Spec => []StopQuiesces
<1>1. Inv => StopQuiesces
  BY DEF Inv, TypeOK, AcceptInv, WorkerInv, TableInv, StopQuiesces, Live, Alone
<1> QED
  BY <1>1, InitInv, NextInv, PTL DEF Spec

-----------------------------------------------------------------------------
(* What makes Reachable true: the server runs from listen() to stop(), no  *)
(* worker exists before, a reader only after activate(), and a connection  *)
(* is registered before it has a socket and until it has been added.       *)
RunInv ==
    /\ is_running => main \in {"listening", "started"}
    /\ main = "idle" => \A c \in Conn : handle_accept[c] = "none"

ReachInv ==
    /\ \A c \in Conn :
          handle_accept[c] \in {"none", "register", "adopt", "handshake", "activate"}
             => reader[c] = "off"
    /\ is_running => \A c \in Conn :
          /\ handle_accept[c] \in {"adopt", "handshake", "activate", "add"}
                => c \in pending_handshakes
          /\ handle_accept[c] \in {"unregister", "done"} /\ reader[c] = "reading"
                => c \in connections

(* Every step keeps them: only stop() takes a connection out of a table    *)
(* before its worker or its reader is done with it, and it has cleared     *)
(* is_running_ by then.                                                    *)
LEMMA NextReach == Inv /\ RunInv /\ ReachInv /\ [Next]_vars => RunInv' /\ ReachInv'
<1> SUFFICES ASSUME Inv, RunInv, ReachInv, [Next]_vars PROVE RunInv' /\ ReachInv'
  OBVIOUS
<1> USE DEF Inv, RunInv, ReachInv
<1>1. CASE listen \/ start \/ stop
  BY <1>1 DEF listen, start, stop, sessions
<1>2. CASE join \/ Joined \/ Destroy
  BY <1>2 DEF join, Joined, Destroy, sessions
<1>3. CASE Stop
  <2>1. CASE CloseAcceptor \/ TakePending \/ ListActive
    BY <2>1 DEF CloseAcceptor, TakePending, ListActive, sessions
  <2>2. ASSUME NEW c \in Conn, CloseOne(c) \/ JoinWorker(c) PROVE RunInv' /\ ReachInv'
    BY <2>2 DEF CloseOne, JoinWorker, threads, sessions
  <2>3. CASE JoinAccept
    BY <2>3 DEF JoinAccept, sessions
  <2>4. CASE AcceptJoined \/ TakeWorkers \/ ClearConnections
    BY <2>4 DEF AcceptJoined, TakeWorkers, ClearConnections, sessions
  <2> QED
    BY <1>3, <2>1, <2>2, <2>3, <2>4 DEF Stop
<1>4. CASE Accept
  <2>1. CASE AcceptLoop \/ Poll \/ AcceptFails \/ PushWorker
    BY <2>1 DEF AcceptLoop, Poll, AcceptFails, PushWorker, sessions
  <2>2. ASSUME NEW c \in Conn, AcceptOne(c) PROVE RunInv' /\ ReachInv'
    BY <2>2 DEF AcceptOne, Waiting, AcceptInv, TypeOK
  <2> QED
    BY <1>4, <2>1, <2>2 DEF Accept
<1>5. ASSUME NEW c \in Conn, Work(c) PROVE RunInv' /\ ReachInv'
  <2>1. CASE register_pending(c) \/ adopt(c)
    BY <2>1 DEF register_pending, adopt, Goto, threads, TypeOK
  <2>2. CASE perform_handshake(c)
    BY <2>2 DEF perform_handshake, Goto, threads, TypeOK
  <2>3. CASE activate(c)
    BY <2>3 DEF activate, Goto, threads, TypeOK
  <2>4. CASE add_connection(c) \/ unregister_pending(c)
    BY <2>4 DEF add_connection, unregister_pending, Goto, threads, TypeOK
  <2> QED
    BY <1>5, <2>1, <2>2, <2>3, <2>4 DEF Work
<1>6. ASSUME NEW c \in Conn, Read(c) \/ PeerCloses(c) \/ LocalClose(c)
      PROVE  RunInv' /\ ReachInv'
  <2>1. /\ reader[c] # "off" /\ reader'[c] # "reading"
        /\ \A d \in Conn \ {c} : reader'[d] = reader[d]
        /\ connections \ {c} \subseteq connections'
        /\ UNCHANGED <<is_running, main, handle_accept, pending_handshakes>>
    BY <1>6 DEF Read, ReaderFails, remove_connection, PeerCloses, LocalClose, Becomes,
       threads, TypeOK
  <2> QED
    BY <2>1
<1>7. ASSUME NEW c \in Conn,
             ClientConnects(c) \/ ClientRequests(c) \/ ClientLeaves(c)
      PROVE  RunInv' /\ ReachInv'
  BY <1>7 DEF ClientConnects, ClientRequests, ClientLeaves, threads
<1>8. CASE UNCHANGED vars
  BY <1>8 DEF vars, threads, sessions
<1> QED
  BY <1>1, <1>2, <1>3, <1>4, <1>5, <1>6, <1>7, <1>8 DEF Next

(* While the server runs, a worker that waits for its client is in         *)
(* pending_handshakes_ and a session in connections_, for every number of  *)
(* connections: shutdown_all_sockets misses none that has a socket then.   *)
THEOREM TablesComplete == Spec => []Reachable
<1>1. Init => RunInv /\ ReachInv
  BY DEF Init, RunInv, ReachInv
<1>2. ReachInv => Reachable
  BY DEF ReachInv, Reachable
<1> QED
  BY <1>1, <1>2, InitInv, NextInv, NextReach, PTL DEF Spec
=============================================================================
