------------------------------- MODULE Client -------------------------------
(***************************************************************************)
(* The client (class client::impl of src/src/client.cpp) on top of its     *)
(* connection: connect() with the TLS and HTTP handshakes, close(), the    *)
(* client's own is_open_ and is_closing_, and the destructor; and the      *)
(* server's side of the handshake (src/src/server.cpp).                    *)
(*                                                                         *)
(* A client is used for one session; a connect() that failed may be        *)
(* followed by another.  The calls of the client run through the steps of  *)
(* its connection: connecting[t] and closing[t] tell where the client's    *)
(* own code is, pc[t] where the connection's is.                           *)
(***************************************************************************)
EXTENDS Connection, Handshake

CONSTANTS
    Attempts       \* what connect() may be called for: the URL's scheme, who
                   \* listens there ("other" is another WebSocket server)
                   \* and whether deflate is enabled beforehand

ASSUME ClientAssumption ==
    /\ Role = "client"
    /\ Attempts \subseteq [scheme : {"ws", "wss"}, deflate : BOOLEAN,
                           server : {"wscpp", "other", "http"}]

VARIABLES
    client_open, client_closing,      \* client::impl is_open_, is_closing_
    connecting, closing,              \* the next step of connect() and of close()
    secure, request_deflate, permessage_deflate,
    tls,             \* how this server has answered the TLS handshake
    server,          \* who has accepted the TCP connection
    request, response,                \* the HTTP messages sent so far
    server_deflate   \* set_permessage_deflate on the server's connection

client == <<client_open, client_closing, connecting, closing>>
setting == <<secure, request_deflate, permessage_deflate>>
handshake == <<tls, server, request, response, server_deflate>>
cvars == <<vars, client, setting, handshake>>

NoRequest == <<>>
NoResponse == [status |-> {}, lines |-> <<>>]

ClientInit ==
    /\ Init
    /\ client_open = FALSE /\ client_closing = FALSE
    /\ connecting = [t \in Thread |-> "no"] /\ closing = [t \in Thread |-> "no"]
    /\ secure = FALSE /\ request_deflate = FALSE /\ permessage_deflate = FALSE
    /\ tls = "none" /\ server = "none" /\ server_deflate = FALSE
    /\ request = NoRequest /\ response = NoResponse

-----------------------------------------------------------------------------
(* connect() *)

Idle(t) == connecting[t] = "no" /\ closing[t] = "no"

ConnectStep(t, step) == connecting' = [connecting EXCEPT ![t] = step]

Unused == ~is_open /\ ~is_closing /\ ~reader_running

(* The part of the URL that decides the course of connect().               *)
parse_url(url) == [secure |-> url.scheme = "wss"]

(* There is no SSL context to be had: connect() returns.                   *)
ensure_ssl_context ==
    secure' /\ UNCHANGED <<sock, peer, server, connecting>>

(* A socket left open by an earlier attempt is closed; the new one is      *)
(* connected, or no address of the host accepts.                           *)
connect_host(t, who) ==
    \/ /\ sock' = "open" /\ peer' = "up" /\ server' = who
       /\ ConnectStep(t, IF secure' THEN "tls" ELSE "request")
    \/ /\ sock' = "closed" /\ server' = "none"
       /\ UNCHANGED <<peer, connecting>>

(* enable_permessage_deflate, then connect up to the open TCP connection.  *)
connect_client(t, attempt) ==
    /\ pc[t] = "idle" /\ t \in App /\ Usable
    /\ \A u \in Thread : Idle(u) /\ pc[u] \in {"idle", "off"}
    /\ Unused
    /\ opens < MaxOpens
    /\ opens' = opens + 1
    /\ request_deflate' = attempt.deflate
    /\ secure' = parse_url(attempt).secure
    /\ tls' = "none" /\ request' = NoRequest /\ response' = NoResponse
    /\ server_deflate' = FALSE
    /\ ensure_ssl_context \/ connect_host(t, attempt.server)
    /\ UNCHANGED <<flags, buffer, write_mutex, inbound, pc, local, fail_code, wire,
                   session, calls, client_open, client_closing, closing,
                   permessage_deflate>>

(* enable_ssl and set_ssl_hostname, then SSL_connect begins.  An error of  *)
(* these calls and of SSL_connect ends connect() and leaves the socket     *)
(* open.                                                                   *)
enable_ssl(t) ==
    /\ connecting[t] = "tls"
    /\ ConnectStep(t, "tls_wait") \/ ConnectStep(t, "no")
    /\ UNCHANGED <<vars, client_open, client_closing, closing, setting, handshake>>

(* SSL_connect waits for the server, without a timeout.                    *)
ssl_handshake(t) ==
    /\ connecting[t] = "tls_wait"
    /\ \/ tls = "done" /\ ConnectStep(t, "request")
       \/ (tls = "refused" \/ peer = "gone") /\ ConnectStep(t, "no")
    /\ UNCHANGED <<vars, client_open, client_closing, closing, setting, handshake>>

write_request(t) ==
    /\ connecting[t] = "request"
    /\ \/ /\ request' = build_client_request(generate_key,
                IF request_deflate THEN permessage_deflate_offer ELSE {})
          /\ ConnectStep(t, "response")
       \/ peer = "gone" /\ ConnectStep(t, "no") /\ UNCHANGED request
    /\ UNCHANGED <<vars, client_open, client_closing, closing, setting, tls, server,
                   response, server_deflate>>

(* set_permessage_deflate(true), if the extension was asked for and granted. *)
TakeUpDeflate ==
    permessage_deflate' = (permessage_deflate \/
        (request_deflate /\ header_offers_permessage_deflate(
                               parse_http_headers(response.lines))))

(* connection_.activate() follows a handshake that succeeded.              *)
Activate(t) == ConnectStep(t, "activate") /\ Goto(t, "opened")

Answered(t) ==
    /\ connecting[t] = "response"
    /\ UNCHANGED <<flags, buffer, write_mutex, inbound, local, fail_code, sock, peer,
                   wire, session, bounds, client_open, client_closing, closing,
                   secure, request_deflate, handshake>>

Rejected == response # NoResponse /\ "101" \notin response.status

Refused(t) == ConnectStep(t, "no") /\ UNCHANGED <<permessage_deflate, pc>>

(* Mutated form: the status line is not looked at.                         *)
read_response_any_status(t) ==
    /\ Answered(t)
    /\ \/ response # NoResponse /\ TakeUpDeflate /\ Activate(t)
       \/ peer = "gone" /\ Refused(t)

(* Mutated form: the extension is taken for granted.                       *)
read_response_any_extension(t) ==
    /\ Answered(t)
    /\ \/ /\ "101" \in response.status
          /\ permessage_deflate' = request_deflate
          /\ Activate(t)
       \/ (Rejected \/ peer = "gone") /\ Refused(t)

(* Mutated form: an error of read_until is not looked at.                  *)
read_response_no_error(t) ==
    /\ Answered(t)
    /\ \/ "101" \in response.status /\ TakeUpDeflate /\ Activate(t)
       \/ Rejected /\ Refused(t)

(* read_until and the search for 101 in the status line.                   *)
read_response(t) ==
    /\ Answered(t)
    /\ \/ "101" \in response.status /\ TakeUpDeflate /\ Activate(t)
       \/ (Rejected \/ peer = "gone") /\ Refused(t)

(* activate() has returned: is_open_ = true                                *)
set_open(t) ==
    /\ connecting[t] = "activate" /\ pc[t] = "idle"
    /\ client_open' = TRUE
    /\ ConnectStep(t, "no")
    /\ UNCHANGED <<vars, client_closing, closing, setting, handshake>>

-----------------------------------------------------------------------------
(* The other side of the handshake *)

(* The server ends the TLS handshake, one way or the other.                *)
AnswerTls ==
    /\ \E t \in App : connecting[t] = "tls_wait"
    /\ tls = "none" /\ sock = "open" /\ peer = "up"
    /\ tls' \in {"done", "refused"}
    /\ UNCHANGED <<vars, client, setting, server, request, response, server_deflate>>

MayAnswer ==
    request # NoRequest /\ response = NoResponse /\ sock = "open" /\ peer = "up"

(* perform_handshake of the server, for the socket it accepted.            *)
perform_handshake ==
    LET headers == parse_http_headers(request)
    IN /\ MayAnswer /\ server = "wscpp"
       /\ validate_client_request(headers)
       /\ server_deflate' = header_offers_permessage_deflate(headers)
       /\ response' = build_server_response(
                         compute_accept(headers["sec-websocket-key"]),
                         IF server_deflate' THEN permessage_deflate_offer ELSE {})
       /\ UNCHANGED <<vars, client, setting, tls, server, request>>

(* Another WebSocket server grants the extension if it was asked for; an   *)
(* HTTP server knows of none and answers with a status of its own, whose   *)
(* line may hold 101 elsewhere.                                            *)
OtherServer ==
    /\ MayAnswer
    /\ \/ /\ server = "other"
          /\ server_deflate' =
                header_offers_permessage_deflate(parse_http_headers(request))
          /\ response' = build_server_response("other",
                IF server_deflate' THEN {"permessage-deflate"} ELSE {})
       \/ /\ server = "http"
          /\ \E status \in {{"400"}, {"400", "101"}} :
                response' = [status |-> status, lines |-> <<>>]
          /\ UNCHANGED server_deflate
    /\ UNCHANGED <<vars, client, setting, tls, server, request>>

-----------------------------------------------------------------------------
(* close() *)

MayCallClient(t) ==
    MayCall(t) /\ closing[t] = "no" /\ (pc[t] = "idle" => connecting[t] = "no")

(* Mutated form: is_closing_ is set before is_open_ is looked at.          *)
close_client_early_mark(t) ==
    /\ MayCallClient(t)
    /\ ~client_closing
    /\ client_closing' = TRUE
    /\ closing' = [closing EXCEPT ![t] = IF client_open THEN "mark" ELSE "no"]
    /\ UNCHANGED <<vars, client_open, connecting, setting, handshake>>

(* The flags are looked at; another thread may do so before they are set.  *)
close_client(t) ==
    /\ MayCallClient(t)
    /\ client_open /\ ~client_closing
    /\ closing' = [closing EXCEPT ![t] = "mark"]
    /\ UNCHANGED <<vars, client_open, client_closing, connecting, setting, handshake>>

set_closing(t) ==
    /\ closing[t] = "mark"
    /\ client_closing' = TRUE
    /\ closing' = [closing EXCEPT ![t] = "call"]
    /\ UNCHANGED <<vars, client_open, connecting, setting, handshake>>

(* connection_.close(status_code, reason), which may find nothing to do.   *)
call_close(t) ==
    /\ closing[t] = "call"
    /\ \/ \E code \in CloseCodes : close(t, code)
       \/ (~is_open \/ is_closing) /\ UNCHANGED vars
    /\ closing' = [closing EXCEPT ![t] = "clear"]
    /\ UNCHANGED <<client_open, client_closing, connecting, setting, handshake>>

(* Mutated form: is_open_ is left set when the connection did not close.   *)
clear_open_if_closed(t) ==
    /\ closing[t] = "clear" /\ call[t] # "close"
    /\ client_open' = ~is_closing
    /\ closing' = [closing EXCEPT ![t] = "no"]
    /\ UNCHANGED <<vars, client_closing, connecting, setting, handshake>>

(* connection_.close has returned: is_open_ = false                        *)
clear_open(t) ==
    /\ closing[t] = "clear" /\ call[t] # "close"
    /\ client_open' = FALSE
    /\ closing' = [closing EXCEPT ![t] = "no"]
    /\ UNCHANGED <<vars, client_closing, connecting, setting, handshake>>

-----------------------------------------------------------------------------
OfConnection(A) == A /\ UNCHANGED <<client, setting, handshake>>

ClientApplication(t) ==
    \/ \E attempt \in Attempts : connect_client(t, attempt)
    \/ close_client(t)
    \/ /\ MayCallClient(t)
       /\ OfConnection(\E op \in DataOp, fin \in Fins : send_data_frame(t, op, fin))
    \/ /\ \A u \in App : Idle(u)
       /\ OfConnection(destroy(t))

(* A callback returns when the client call it makes has returned.          *)
ClientProceeds(t) ==
    \/ enable_ssl(t) \/ ssl_handshake(t) \/ write_request(t) \/ read_response(t)
    \/ set_open(t)
    \/ set_closing(t) \/ call_close(t) \/ clear_open(t)
    \/ /\ pc[t] \in Callback => closing[t] = "no"
       /\ OfConnection(Proceed(t) \/ (t = Reader /\ ReaderProceeds))

ClientNext ==
    \/ \E t \in Thread : ClientApplication(t) \/ ClientProceeds(t)
    \/ OfConnection(Peer)
    \/ AnswerTls \/ perform_handshake \/ OtherServer

(* As in FairSpec: the threads inside the library run and callbacks        *)
(* return; nothing is owed by the application or by the server.            *)
ClientSpec ==
    ClientInit /\ [][ClientNext]_cvars /\ \A t \in Thread : WF_cvars(ClientProceeds(t))

-----------------------------------------------------------------------------
(* WebSocket frames only travel after the upgrade: the connection is open, *)
(* has a reader or has written a frame only if the server of this very TCP *)
(* connection has answered this attempt's request with 101 in its status   *)
(* line, over TLS if the URL asked for it, whatever earlier attempts left  *)
(* behind.                                                                 *)
FramesAfterUpgrade ==
    is_open \/ wire # <<>> \/ pc[Reader] # "off"
        => /\ request # NoRequest /\ "101" \in response.status
           /\ secure <=> tls = "done"

(* Both ends agree on permessage-deflate while the connection is open.     *)
DeflateAgrees == is_open => (permessage_deflate <=> server_deflate)

(* close() takes effect: when the connection is open, nobody is closing it *)
(* and no connect() or close() of the client is in progress, the client's  *)
(* own flags let close() through.                                          *)
CloseEffective ==
    is_open /\ ~is_closing /\ (\A t \in Thread : Idle(t))
        => client_open /\ ~client_closing

AwaitsServer(t) ==
    /\ peer = "up"
    /\ \/ connecting[t] = "tls_wait" /\ tls = "none"
       \/ connecting[t] = "response" /\ response = NoResponse

(* connect() returns, unless it waits for a server that neither answers    *)
(* nor goes away: SSL_connect and read_until have no timeout.              *)
ConnectReturns ==
    \A t \in App : connecting[t] # "no" ~> connecting[t] = "no" \/ AwaitsServer(t)

(* A close() that got past the client's flags ends the session on both     *)
(* levels: neither the client nor its connection stays open.               *)
ClientEnds == client_closing ~> ~client_open /\ ~is_open
=============================================================================
