------------------------------- MODULE Server -------------------------------
(***************************************************************************)
(* The server (class server::impl of src/src/server.cpp, the build without *)
(* ASIO): the application thread that calls listen, start and stop, a      *)
(* second one that may call join, the accept thread, and for every         *)
(* accepted connection the worker thread that runs handle_accept and the   *)
(* reader thread that activate() starts.                                   *)
(*                                                                         *)
(* A critical section of one of the server's three mutexes is one step.    *)
(* The inside of a connection is module Connection; here a session is only *)
(* its socket and what its reader thread is doing.                         *)
(***************************************************************************)
EXTENDS FiniteSets

CONSTANTS
    Conn,     \* the connections clients may open, one worker and reader each
    NoConn,
    Requests, \* what a client sends: an upgrade "request" or a "bad" one
    Leavers,  \* the clients that may disconnect
    Closers,  \* the sessions that either side may close before stop()
    Joins     \* TRUE if a second application thread calls join()

ASSUME ServerAssumption ==
    /\ NoConn \notin Conn /\ Joins \in BOOLEAN
    /\ Requests \subseteq {"request", "bad"}
    /\ Leavers \subseteq Conn /\ Closers \subseteq Conn

VARIABLES
    is_running,
    acceptor,        \* the listening socket: "closed" or "open"
    thread,          \* thread_.joinable(): "none" or "joinable"
    workers,         \* workers_
    pending_handshakes, connections,
    main, joiner,    \* next step of the threads in stop() and in join()
    accept_loop,     \* next step of the accept thread
    accepted,        \* the connection whose worker is not in workers_ yet
    handle_accept,   \* next step of each worker
    reader,          \* what each connection's reader thread is doing
    sock,            \* each connection's socket; "none" until it is adopted
    client,          \* what each client has done
    todo             \* the local vector stop() works through

threads == <<thread, workers, main, joiner, accept_loop, accepted>>
sessions == <<handle_accept, reader, sock, client>>
vars == <<is_running, acceptor, threads, pending_handshakes, connections,
          sessions, todo>>

Stopping == {"acceptor", "take_pending", "close_pending", "close_active",
             "join_wait", "take_workers", "join_workers"}

TypeOK ==
    /\ is_running \in BOOLEAN
    /\ acceptor \in {"closed", "open"}
    /\ thread \in {"none", "joinable"}
    /\ workers \subseteq Conn
    /\ pending_handshakes \subseteq Conn /\ connections \subseteq Conn
    /\ main \in {"idle", "listening", "started", "stopped", "destroyed", "aborted"}
                \cup Stopping
    /\ joiner \in {"idle", "wait", "aborted"}
    /\ accept_loop \in {"off", "loop", "poll", "accept", "push", "done"}
    /\ accepted \in IF accept_loop = "push" THEN Conn ELSE {NoConn}
    /\ handle_accept \in [Conn -> {"none", "register", "adopt", "handshake",
                                   "activate", "add", "unregister", "done"}]
    /\ reader \in [Conn -> {"off", "reading", "closing", "done"}]
    /\ sock \in [Conn -> {"none", "open", "closed"}]
    /\ client \in [Conn -> {"absent", "silent", "request", "bad", "gone", "left"}]
    /\ todo \subseteq Conn

Init ==
    /\ is_running = FALSE /\ acceptor = "closed"
    /\ thread = "none" /\ workers = {}
    /\ pending_handshakes = {} /\ connections = {}
    /\ main = "idle" /\ joiner = "idle"
    /\ accept_loop = "off" /\ accepted = NoConn
    /\ handle_accept = [c \in Conn |-> "none"]
    /\ reader = [c \in Conn |-> "off"]
    /\ sock = [c \in Conn |-> "none"]
    /\ client = [c \in Conn |-> "absent"]
    /\ todo = {}

-----------------------------------------------------------------------------
(* listen, start and join *)

listen ==
    /\ main = "idle"
    /\ acceptor' = "open" /\ is_running' = TRUE
    /\ main' = "listening"
    /\ UNCHANGED <<thread, workers, joiner, accept_loop, accepted,
                   pending_handshakes, connections, sessions, todo>>

start ==
    /\ main = "listening"
    /\ thread' = "joinable" /\ accept_loop' = "loop"
    /\ main' = "started"
    /\ UNCHANGED <<is_running, acceptor, workers, joiner, accepted,
                   pending_handshakes, connections, sessions, todo>>

(* thread_.join() throws when another thread is already waiting in it.     *)
join ==
    /\ Joins /\ joiner = "idle" /\ thread = "joinable"
    /\ joiner' = IF main = "join_wait" THEN "aborted" ELSE "wait"
    /\ UNCHANGED <<is_running, acceptor, thread, workers, main, accept_loop,
                   accepted, pending_handshakes, connections, sessions, todo>>

Joined ==
    /\ joiner = "wait" /\ accept_loop = "done"
    /\ thread' = "none" /\ joiner' = "idle"
    /\ UNCHANGED <<is_running, acceptor, workers, main, accept_loop, accepted,
                   pending_handshakes, connections, sessions, todo>>

-----------------------------------------------------------------------------
(* The accept thread *)

AcceptLoop ==
    /\ accept_loop = "loop"
    /\ accept_loop' = IF is_running /\ acceptor = "open" THEN "poll" ELSE "done"
    /\ UNCHANGED <<is_running, acceptor, thread, workers, main, joiner, accepted,
                   pending_handshakes, connections, sessions, todo>>

(* A client that has connected and waits in the listen queue.              *)
Waiting(c) == client[c] # "absent" /\ handle_accept[c] = "none"

(* poll() comes back when a client waits, after 200 ms, or because the     *)
(* listening socket was closed or has an error.                            *)
Poll ==
    /\ accept_loop = "poll"
    /\ \/ ~is_running /\ accept_loop' = "done"
       \/ is_running /\ accept_loop' = "loop"
       \/ is_running /\ accept_loop' = "done"      \* POLLERR, POLLHUP, POLLNVAL
       \/ is_running /\ (\E c \in Conn : Waiting(c)) /\ accept_loop' = "accept"
    /\ UNCHANGED <<is_running, acceptor, thread, workers, main, joiner, accepted,
                   pending_handshakes, connections, sessions, todo>>

(* Mutated form: goes on to start a worker.                                *)
AcceptFails_no_continue ==
    /\ accept_loop = "accept"
    /\ accept_loop' = IF acceptor = "open" /\ is_running THEN "push" ELSE "done"
    /\ UNCHANGED <<is_running, acceptor, thread, workers, main, joiner, accepted,
                   pending_handshakes, connections, sessions, todo>>

(* accept_one fails because stop() closed the socket, for a passing reason *)
(* or for one of those that end the loop.                                  *)
AcceptFails ==
    /\ accept_loop = "accept"
    /\ \/ acceptor = "open" /\ is_running /\ accept_loop' = "loop"
       \/ accept_loop' = "done"
    /\ UNCHANGED <<is_running, acceptor, thread, workers, main, joiner, accepted,
                   pending_handshakes, connections, sessions, todo>>

AcceptOne(c) ==
    /\ accept_loop = "accept" /\ acceptor = "open" /\ Waiting(c)
    /\ accept_loop' = "push" /\ accepted' = c
    /\ handle_accept' = [handle_accept EXCEPT ![c] = "register"]
    /\ UNCHANGED <<is_running, acceptor, thread, workers, main, joiner,
                   pending_handshakes, connections, reader, sock, client, todo>>

PushWorker ==
    /\ accept_loop = "push"
    /\ workers' = workers \cup {accepted}
    /\ accepted' = NoConn /\ accept_loop' = "loop"
    /\ UNCHANGED <<is_running, acceptor, thread, main, joiner,
                   pending_handshakes, connections, sessions, todo>>

-----------------------------------------------------------------------------
(* A worker: handle_accept *)

Goto(c, step) == handle_accept' = [handle_accept EXCEPT ![c] = step]

register_pending(c) ==
    /\ handle_accept[c] = "register"
    /\ pending_handshakes' = pending_handshakes \cup {c}
    /\ Goto(c, "adopt")
    /\ UNCHANGED <<is_running, acceptor, threads, connections, reader, sock,
                   client, todo>>

adopt(c) ==
    /\ handle_accept[c] = "adopt"
    /\ sock' = [sock EXCEPT ![c] = "open"]
    /\ Goto(c, "handshake")
    /\ UNCHANGED <<is_running, acceptor, threads, pending_handshakes, connections,
                   reader, client, todo>>

(* Mutated form: the end of the stream is not an error.                    *)
perform_handshake_no_eof(c) ==
    /\ handle_accept[c] = "handshake"
    /\ \/ /\ sock[c] = "closed" \/ client[c] = "bad"
          /\ Goto(c, "unregister")
       \/ /\ sock[c] = "open" /\ client[c] \in {"request", "left"}
          /\ Goto(c, "activate")
    /\ UNCHANGED <<is_running, acceptor, threads, pending_handshakes, connections,
                   reader, sock, client, todo>>

(* TLS and the HTTP upgrade, which wait for the client.  A handshake that  *)
(* fails returns without closing the socket.                               *)
perform_handshake(c) ==
    /\ handle_accept[c] = "handshake"
    /\ \/ /\ sock[c] = "closed" \/ client[c] \in {"bad", "gone", "left"}
          /\ Goto(c, "unregister")
       \/ /\ sock[c] = "open" /\ client[c] \in {"request", "left"}
          /\ Goto(c, "activate")
    /\ UNCHANGED <<is_running, acceptor, threads, pending_handshakes, connections,
                   reader, sock, client, todo>>

(* on_connection_, then activate(), which starts the reader.               *)
activate(c) ==
    /\ handle_accept[c] = "activate"
    /\ reader' = [reader EXCEPT ![c] = "reading"]
    /\ Goto(c, "add")
    /\ UNCHANGED <<is_running, acceptor, threads, pending_handshakes, connections,
                   sock, client, todo>>

(* Mutated form: a closed handshake guard also skips the registration.     *)
add_connection_skipped(c) ==
    /\ handle_accept[c] = "add"
    /\ connections' = IF c \in pending_handshakes THEN connections
                      ELSE connections \cup {c}
    /\ Goto(c, "unregister")
    /\ UNCHANGED <<is_running, acceptor, threads, pending_handshakes, reader,
                   sock, client, todo>>

add_connection(c) ==
    /\ handle_accept[c] = "add"
    /\ connections' = connections \cup {c}
    /\ Goto(c, "unregister")
    /\ UNCHANGED <<is_running, acceptor, threads, pending_handshakes, reader,
                   sock, client, todo>>

unregister_pending(c) ==
    /\ handle_accept[c] = "unregister"
    /\ pending_handshakes' = pending_handshakes \ {c}
    /\ Goto(c, "done")
    /\ UNCHANGED <<is_running, acceptor, threads, connections, reader, sock,
                   client, todo>>

-----------------------------------------------------------------------------
(* The session of an activated connection *)

Becomes(c, state) == reader' = [reader EXCEPT ![c] = state]

(* The read fails: is_open_ is cleared and on_close_ is not called.        *)
ReaderFails(c) ==
    /\ reader[c] = "reading"
    /\ sock[c] = "closed" \/ client[c] = "left"
    /\ Becomes(c, "done")
    /\ UNCHANGED <<is_running, acceptor, threads, pending_handshakes, connections,
                   handle_accept, sock, client, todo>>

(* The client's close frame is answered; the socket stays as it is.        *)
PeerCloses(c) ==
    /\ c \in Closers
    /\ reader[c] = "reading" /\ sock[c] = "open"
    /\ Becomes(c, "closing")
    /\ UNCHANGED <<is_running, acceptor, threads, pending_handshakes, connections,
                   handle_accept, sock, client, todo>>

(* close() by the application, or fail_with_close.                         *)
LocalClose(c) ==
    /\ c \in Closers
    /\ reader[c] = "reading"
    /\ Becomes(c, "closing")
    /\ sock' = [sock EXCEPT ![c] = "closed"]
    /\ UNCHANGED <<is_running, acceptor, threads, pending_handshakes, connections,
                   handle_accept, client, todo>>

(* The on_close_ handler that handle_accept installed.                     *)
remove_connection(c) ==
    /\ reader[c] = "closing"
    /\ connections' = connections \ {c}
    /\ Becomes(c, "done")
    /\ UNCHANGED <<is_running, acceptor, threads, pending_handshakes,
                   handle_accept, sock, client, todo>>

-----------------------------------------------------------------------------
(* The clients *)

ClientConnects(c) ==
    /\ client[c] = "absent" /\ acceptor = "open"
    /\ client' = [client EXCEPT ![c] = "silent"]
    /\ UNCHANGED <<is_running, acceptor, threads, pending_handshakes, connections,
                   handle_accept, reader, sock, todo>>

ClientRequests(c) ==
    /\ client[c] = "silent"
    /\ \E request \in Requests :
          client' = [client EXCEPT ![c] = request]
    /\ UNCHANGED <<is_running, acceptor, threads, pending_handshakes, connections,
                   handle_accept, reader, sock, todo>>

(* What a client sent before it left can still be read.                    *)
ClientLeaves(c) ==
    /\ c \in Leavers /\ client[c] \in {"silent", "request", "bad"}
    /\ client' = [client EXCEPT ![c] = IF @ = "request" THEN "left" ELSE "gone"]
    /\ UNCHANGED <<is_running, acceptor, threads, pending_handshakes, connections,
                   handle_accept, reader, sock, todo>>

-----------------------------------------------------------------------------
(* stop(), and ~impl, which calls it *)

stop ==
    /\ main \in {"listening", "started"}
    /\ is_running' = FALSE
    /\ main' = "acceptor"
    /\ UNCHANGED <<acceptor, thread, workers, joiner, accept_loop, accepted,
                   pending_handshakes, connections, sessions, todo>>

CloseAcceptor ==
    /\ main = "acceptor"
    /\ acceptor' = "closed"
    /\ main' = "take_pending"
    /\ UNCHANGED <<is_running, thread, workers, joiner, accept_loop, accepted,
                   pending_handshakes, connections, sessions, todo>>

(* shutdown_all_sockets takes the pending connections, closes their        *)
(* sockets, lists the active ones and closes theirs.                       *)
TakePending ==
    /\ main = "take_pending"
    /\ todo' = pending_handshakes /\ pending_handshakes' = {}
    /\ main' = "close_pending"
    /\ UNCHANGED <<is_running, acceptor, thread, workers, joiner, accept_loop,
                   accepted, connections, sessions>>

ListActive ==
    /\ main = "close_pending" /\ todo = {}
    /\ todo' = connections
    /\ main' = "close_active"
    /\ UNCHANGED <<is_running, acceptor, thread, workers, joiner, accept_loop,
                   accepted, pending_handshakes, connections, sessions>>

(* socket().close() does nothing to a connection that has no socket yet.   *)
CloseOne(c) ==
    /\ main \in {"close_pending", "close_active"} /\ c \in todo
    /\ sock' = [sock EXCEPT ![c] = IF @ = "none" THEN "none" ELSE "closed"]
    /\ todo' = todo \ {c}
    /\ UNCHANGED <<is_running, acceptor, threads, pending_handshakes, connections,
                   handle_accept, reader, client>>

(* Mutated form: stop() does not wait for the accept thread.               *)
JoinAccept_skipped ==
    /\ main = "close_active" /\ todo = {}
    /\ main' = "take_workers"
    /\ UNCHANGED <<is_running, acceptor, thread, workers, joiner, accept_loop,
                   accepted, pending_handshakes, connections, sessions, todo>>

JoinAccept ==
    /\ main = "close_active" /\ todo = {}
    /\ main' = CASE thread = "none" -> "take_workers"
                 [] thread = "joinable" /\ joiner = "wait" -> "aborted"
                 [] OTHER -> "join_wait"
    /\ UNCHANGED <<is_running, acceptor, thread, workers, joiner, accept_loop,
                   accepted, pending_handshakes, connections, sessions, todo>>

AcceptJoined ==
    /\ main = "join_wait" /\ accept_loop = "done"
    /\ thread' = "none"
    /\ main' = "take_workers"
    /\ UNCHANGED <<is_running, acceptor, workers, joiner, accept_loop, accepted,
                   pending_handshakes, connections, sessions, todo>>

(* join_workers *)
TakeWorkers ==
    /\ main = "take_workers"
    /\ todo' = workers /\ workers' = {}
    /\ main' = "join_workers"
    /\ UNCHANGED <<is_running, acceptor, thread, joiner, accept_loop, accepted,
                   pending_handshakes, connections, sessions>>

JoinWorker(c) ==
    /\ main = "join_workers" /\ c \in todo
    /\ handle_accept[c] = "done"
    /\ todo' = todo \ {c}
    /\ UNCHANGED <<is_running, acceptor, threads, pending_handshakes, connections,
                   sessions>>

ClearConnections ==
    /\ main = "join_workers" /\ todo = {}
    /\ connections' = {}
    /\ main' = "stopped"
    /\ UNCHANGED <<is_running, acceptor, thread, workers, joiner, accept_loop,
                   accepted, pending_handshakes, sessions, todo>>

Destroy ==
    /\ main = "stopped" /\ joiner # "wait"
    /\ main' = "destroyed"
    /\ UNCHANGED <<is_running, acceptor, thread, workers, joiner, accept_loop,
                   accepted, pending_handshakes, connections, sessions, todo>>

-----------------------------------------------------------------------------
Stop ==
    \/ CloseAcceptor \/ TakePending \/ ListActive
    \/ (\E c \in Conn : CloseOne(c))
    \/ JoinAccept \/ AcceptJoined \/ TakeWorkers
    \/ (\E c \in Conn : JoinWorker(c))
    \/ ClearConnections

Accept ==
    \/ AcceptLoop \/ Poll \/ AcceptFails
    \/ (\E c \in Conn : AcceptOne(c))
    \/ PushWorker

Work(c) ==
    \/ register_pending(c) \/ adopt(c) \/ perform_handshake(c)
    \/ activate(c) \/ add_connection(c) \/ unregister_pending(c)

Read(c) == ReaderFails(c) \/ remove_connection(c)

Next ==
    \/ listen \/ start \/ join \/ Joined \/ stop \/ Stop \/ Destroy
    \/ Accept
    \/ \E c \in Conn :
          \/ Work(c) \/ Read(c)
          \/ PeerCloses(c) \/ LocalClose(c)
          \/ ClientConnects(c) \/ ClientRequests(c) \/ ClientLeaves(c)

Spec == Init /\ [][Next]_vars

(* Every thread that stop() waits for keeps running.  Nothing is asked of  *)
(* the readers, the application owes no call and a client no request.      *)
FairSpec ==
    /\ Spec
    /\ WF_vars(Stop) /\ WF_vars(Accept)
    /\ \A c \in Conn : WF_vars(Work(c))

(* In addition, a client that has connected sends its request or leaves.   *)
ResponsiveSpec ==
    /\ FairSpec
    /\ \A c \in Conn :
          WF_vars(client[c] = "silent" /\ (ClientRequests(c) \/ ClientLeaves(c)))

-----------------------------------------------------------------------------
(* When stop() has returned, the accept thread and every worker it started *)
(* are over, and neither table holds a connection: a worker that was being *)
(* spawned, or was in its handshake, while stop() ran is joined too.       *)
StopQuiesces ==
    main \in {"stopped", "destroyed"} =>
        /\ accept_loop \in {"off", "done"}
        /\ \A c \in Conn : handle_accept[c] \in {"none", "done"}
        /\ pending_handshakes = {} /\ connections = {}

(* While the server runs, stop() can reach the socket of every worker that *)
(* waits for its client and of every session: the first are in             *)
(* pending_handshakes_, the others in connections_, with no gap between.   *)
Reachable ==
    is_running => \A c \in Conn :
        /\ handle_accept[c] \in {"handshake", "activate", "add"}
              => c \in pending_handshakes
        /\ handle_accept[c] \in {"unregister", "done"} /\ reader[c] = "reading"
              => c \in connections

(* stop() returns, wherever the accept thread and the workers are when it  *)
(* is called, if no client keeps a handshake waiting for ever.  The one    *)
(* way out is a second thread in join(): both join thread_, and the second *)
(* of two joins throws.                                                    *)
StopReturns == main \in Stopping ~>
    main \in {"stopped", "destroyed"} \/ (main = "aborted" /\ joiner = "wait")

(* When stop() has returned, no connection it accepted is still open.      *)
StopClosesAll == main = "stopped" => \A c \in Conn : sock[c] # "open"
=============================================================================
