# A TLA+ model of wscpp

wscpp is a C++11 WebSocket library (RFC 6455) with a Rust companion, `ws-rs`.
These modules model the C++ library from the bytes of a frame to the server's
threads, and the connection of `ws-rs` with its tasks and locks. TLC checks them
on small instances; TLAPS proves the properties that matter most for every
instance.

Paths below are relative to the repository, whose root is `src/` here
(`src/src/connection.cpp` is the library's `src/connection.cpp`).

## Inventory

| part | source | state | module |
|---|---|---|---|
| connection | `src/src/connection.cpp` | four flags (plain `bool`), one outbound frame buffer, `write_mutex_`, the reassembly buffers, `reader_thread_` | `Connection`; `FrameReader` for the bytes of `read_one_frame` |
| client | `src/src/client.cpp` | a second `is_open_`/`is_closing_` pair over a connection | `Client`, which extends `Connection` |
| handshake, permessage-deflate negotiation | `src/src/handshake.cpp`, `src/src/extensions/` | none | `Handshake`, used by `Client` |
| server | `src/src/server.cpp` | `is_running_`, the acceptor, `thread_`, `workers_`, `pending_handshakes_`, `connections_` | `Server`; its HTTP answer in `Client` |
| frame codec | `src/src/frame/*.cpp`, `detail/mask.hpp`, `detail/utf8.hpp` | the parser's progress through a frame | `Codec`, `FrameParser`, `Utf8` |
| POSIX transport | `src/src/net/linux_socket.cpp` | the descriptor, the TLS session | partial reads and writes in `FrameReader` and `Framing`; elsewhere `sock`/`peer` |
| ws-rs connection | `src/rust/ws-rs/src/connection.rs`, `close.rs` | eight mutexes, a parser, a read buffer, a fragment | `RsConnection` |
| ws-rs frame parser | `src/rust/ws-rs/src/frame/parser.rs` | its progress through a frame | `RsParser` |

How they interact. An application thread opens a connection (`client::connect`
or, on the server, a worker in `handle_accept`), which starts a reader thread.
The reader calls the application back on its own thread, and a callback may
call the connection again. Any thread may send and close. The server's workers
create connections and install handlers that refer back to the server. In
`ws-rs` nothing runs by itself: tasks share a connection and its mutexes.

What is hard about it. The flags are not atomic. A frame is built into a
buffer shared by all operations before the lock is taken, and `is_open_` and
`is_closing_` are looked at before and again under the lock. `close()` may run
on the thread it has to join. `reader_running_` is looked at and set in two
steps, and the reader starts before `reader_thread_` holds it. `stop()` meets
connections that are accepted, registered, adopted, shaking hands or active. The client has flags of its own that change at other moments
than its connection's. Bytes arrive in pieces of any size. A task of `ws-rs`
keeps a lock while it waits for the peer, and may be dropped while it waits.
`PROJECT.json` lists these hazards at their lines.

## Modules

* `Connection` - `connection::impl`. One step per access to shared state that
  another thread can separate from the next one. `MCConnection` - its instances.
* `Handshake` - header lines and the acceptance conditions as operators.
  `Client` - `client::impl`: its steps wrapped around those of `Connection`, and
  the server's answer. `MCClient` - its instance.
* `Server` - `server::impl` of the build without ASIO. `MCServer` - its instances.
* `Codec` - masking and the frame builder on bytes. `FrameParser` -
  `frame::parser`, one step per iteration of `parse()`. `FrameReader` -
  `read_until` and `read_one_frame`, one step per `recv()`. `Framing` - a builder,
  a socket that moves any number of bytes, and one of the two decoders.
  `FrameStream` - what a stream of frames promises. `MCFraming` - its instances.
* `Utf8` - the validator of `detail/utf8.hpp` and a definition of UTF-8 by code
  points. `Messages` - "the messages in these frames" as a declarative
  definition; the deliveries of both connections are compared with it.
  `CloseStatus` - the close codes RFC 6455 lets an endpoint send; the checks of
  both connections are compared with it.
* `RsParser` - the parser of `ws-rs` as operators. `RsConnection` - `Connection` of
  `ws-rs`, over it. `MCRsConnection` - its instance.
* Proofs: `ConnectionProofs`, `ClientProofs` (over `ConnectionProofs` and
  `Client`), `ServerProofs`, `FrameParserProofs`; `SequenceFacts` and
  `RsParserProofs` (lemmas about sequences and the Rust parser),
  `RsConnectionProofs`, and `RsSessionProofs`, which extends the last two.

### Connection

The variables have the names of the members (`is_open` is `is_open_`, and so
on). `pc[t]` is the next step of thread `t`; `call[t]` the operation it is in
(`send`, `close`, `fail`, `echo`, `pong`, `read_error`, `destroy`, `start`),
`arg[t]` the frame that operation sends, and `ret[t]` the callback it was
called from, if any. The closing operations share their tail in the code
(build, lock, write, `is_open_ = false`, `socket_.close()`, join, `on_close_`)
and share it here; `call[t]` decides which of the steps apply.

`wire`, `rx`, `delivered` and `closes` record what was written, read, delivered
and reported since `connect`.

Choices:

* **Memory.** The flags are plain `bool`s and the data races on them are
  undefined in C++; the model gives each access its own step in a sequentially
  consistent order. For `outbound_frame_` the race matters, and a build that
  overlaps another one leaves either thread's frame or bytes of neither
  (`Torn`).
* **Callbacks.** `on_open`, `on_message` and the three places `on_error` is
  called from are steps during which the callback may make calls. `on_close` is
  one step: after it no flag is read by its caller. A message that has been read
  and put together waits in the reader's `arg` until `CallOnMessage`: another
  thread may close in between.
* **Application.** It opens and destroys the object while no other thread of
  its own is inside a call; sending and closing may happen on any thread at any
  time. `Active` and `CallbackCalls` say which threads and callbacks call the
  object, `Starters` from where `start_reading` is called.
* **Starting the reader.** `start_reader_thread` looks at the flags, `ClaimReader`
  sets `reader_running_`, `Spawn` starts the thread and `Assign` moves it. Two
  overlapping starts can both get past the check. The second of two readers is
  not followed: `Spawn` then goes to `"aborted"`, because the second of the two
  assignments ends the program, unless a join comes between them.
* **Payloads** are sequences of 16-bit words, so that the first word is what
  `handle_close_frame` reads as a code; `Bytes` gives the bytes that the UTF-8
  check looks at, so a character may be split between two fragments. A close
  payload of one byte is not represented.
* **Frames** arrive whole; a stream that breaks in the middle of one is
  `ReadError`, like one that breaks between two. `Framing` is about the pieces.
* **Left out**: permessage-deflate, TLS, writes that block, replacing a
  callback while the connection runs, and the unused `shutdown_reader` and
  `expecting_close_`.

### Server

`main` is the thread that calls `listen`, `start`, `stop` and the destructor;
`joiner` a second one in `join`; `accept_loop` the accept thread;
`handle_accept[c]` the worker of connection `c` and `reader[c]` its reader. A
critical section of one of the three mutexes is one step. A connection is here
only its socket and what its reader does, taken from `Connection`: a failed
read ends the reader without `on_close`; a close frame or a local close runs the
handler that calls `remove_connection`. Two threads in `thread_.join()` is an
exception in the second one (`"aborted"`). A second `listen` after `stop` is
left out, and so is `stop` called from a handler.

### Client and Handshake

`connecting[t]` and `closing[t]` say where a thread is in `client::connect` and
`client::close`; between those steps it takes steps of `Connection`. A header
line is a name and the set of the words found anywhere in its value, because the
code looks for words with `find`; a status line is likewise the set of the
three-digit numbers in it, and any line that contains 101 is accepted. The random
key is one value, and SHA-1 with base64 an operator on it. The server at the other
end is wscpp's own (`perform_handshake` of `server.cpp`), another WebSocket server
that grants the extension, or something that answers HTTP. `ssl_handshake` waits
for the server as `read_response` does, and neither wait has a timeout. A client is
used for one session, and a `connect` that failed may be repeated.

`close()` looks at the flags (`close_client`) and then sets `is_closing_`
(`set_closing`): two threads may both find it clear.

What the client's flags do, in the model as in the code: `close()` from
`on_open`, or from an `on_message` that comes before `connect()` has set
`is_open_`, returns without doing anything; after a close from the peer or a
read error `is_open()` stays true until the application calls `close()`.
`CloseEffective` and `ClientEnds` are what remains true.

### Framing

A sender builds a frame (`build_into`, `build_close_into`), `write` hands it to
the kernel in pieces, and a decoder takes it off: the reader of a connection, on
either side and behind the HTTP head of the handshake, or a `frame::parser` fed
by an application. The refinement `Implements` is about the first: it maps the
frames built to `sent` of `FrameStream`, the frames handed over to `received`, and
"the reader has not failed" to `intact`.

`Feed` passes `frame::parser` the next bytes in chunks that end anywhere. The parser
is less than `parser.hpp` says of it: it forgets the bytes of a header, length or
key that a chunk cuts in two, and what follows a frame in the same chunk; it hands
an empty frame back with the next call; and `bytes_needed()` is 2 where a length of
eight bytes is expected. `parser_incremental` shows the first of these. `ParserExact`
states, with the other two written out, what it does do: as long as every chunk
was `WellCut`, it has handed back exactly the frames it was given, and
`is_frame_complete()` and `bytes_needed()` tell where it is. `loose` counts the
chunks from the first that was not well cut, and `MaxLoose` bounds them.

`MaxShort` and `MaxMedium` are the limits of the short and the 16-bit length, 125
and 65535 in the code; the codec is parameterised by them so that all three forms
fit into small frames. The payload of a frame that says it is empty is not compared,
because `read_payload` leaves old bytes there (`connection_empty`).

### RsConnection

`pc[t]` is where a task is suspended. The mutexes of `read_state`, `fragment`,
`outbound` and `stream` are `holder` and `queue`; the others are held for one
access, or, the parser's, only by the holder of `read_state`. `Fifo` says whether
a free mutex goes to the task that has waited longest, as tokio's does. The
blocking connection (`blocking/connection.rs`) is the same code over mutexes
without that order. A write is two pieces, so that a second writer could come
between them; `wire` records each with the frame it was meant for. `Cancel` drops
a `read_message` where it waits, as `select!` or a timeout does.

In the byte stream a header with its length and key is one unit, because
`read_frame` keeps the bytes the Rust parser has not consumed; how bytes make up a
header is what `Codec` and `FrameParser` model for the same code in C++. The UTF-8 check is a port of the
C++ one, and so `Utf8` is used for both.

## Runs

| run | instance | checks |
|---|---|---|
| connection_callbacks | 1 thread that only opens, `on_open` and `on_message` send and close, 1 call besides close, 4 frames | `TypeOK`, `WireIntact`, `OnCloseOnce`, `PongsEchoPings`, `ReaderServes`, `Reassembly`, `NoMessageAfterClose` |
| connection_reconnect | 2 threads that open and destroy, one of them and the callbacks of the reader send and close, `on_message` may start the reader again, 1 call besides close, 1 frame, opened twice | `OwnCloseLast`, `CloseCodesValid`, `NoReaderAfterDestroy`, `NoAbort` |
| client_session | 1 thread, `on_open` and `on_message`, two attempts to connect of three kinds, 1 send, 1 frame, fairness | `NoAbort`, `FramesAfterUpgrade`, `DeflateAgrees`, `CloseEffective`, `ConnectReturns`, `ClientEnds`, `CloseReturns`, `ReaderStops`, `CloseNotified` |
| frame_decoding | 2 frames of every form and length, empty ones too, or malformed bytes, pieces of 1 to 8 bytes | `Implements`, `ParserExact`, `NothingHeldBack` |
| server_stop | 2 connections, a second thread in `join`, fairness | `TypeOK`, `StopQuiesces`, `Reachable`, `StopReturns` |
| rs_tasks | 1 task that reads, echoes texts and may give up, 1 that sends and closes, bursts of 2 or 3 frames, fairness | `TypeOK`, `LockOrder`, `FramesWhole`, `CloseCodesValid`, `NoFrameLost`, `OneReadAhead`, `Reassembly`, `SendReturns` |

Before `frame_decoding` starts, TLC evaluates two assumptions of `MCFraming`: the
masking loops, with their blocks of 64, 32, 8 and 4 bytes, do to every payload of
up to 140 bytes what RFC 6455 says, and the UTF-8 validator accepts the
well-formed strings and no others among all strings of up to three bytes from the
edges of the ranges it tells apart, and among longer ones behind an ASCII run.

Two pings with different payloads are among the frames of `connection_callbacks`,
so that `PongsEchoPings` sees pongs that are swapped or skipped.

Bounds. `MaxCalls` bounds the calls of `send_*` and `start_reading`, `MaxReads`
the frames read, `MaxOpens` the successful or failed connects; closing needs no
bound in C++. One call against one frame is enough for every pair of operations to
overlap at every step. Four frames hold a fragmented message of three with a
control frame in it, or a whole message between two broken ones. Two application
threads that both send and close are too many for TLC together with a second
`connect`; `OwnCloseLast`, `CloseCodesValid` and `NoReaderAfterDestroy` are proved
for any number. Two frames are enough for the bytes of one to be taken for the
other, and 8 bytes of the kernel hold a whole short frame and the start of the
next. Two connections let one worker be at each place while `stop()` is at each
place with another one to wait for; `Closers` says whose session may end before
`stop()` ends it. In `rs_tasks` one read finds several frames, part of one, or the
end of one and the start of the next; `MaxBursts` and `MaxCalls` count the
peer's bursts and the calls. `CHECK_DEADLOCK FALSE` everywhere: an application
that has stopped calling and a peer that has gone are an end.

Fairness. `Connection!FairSpec` and `Client!ClientSpec`: each thread inside the
library takes its next step and each callback returns, which is what the operating
system's scheduler gives a running thread. The application owes no call and the
peer no frame; a server need not answer, in the TLS handshake (`AnswerTls`) or in
the HTTP one, and `ConnectReturns` excludes just these two waits. Calls and frames
are bounded, so the mutex cannot be taken away for ever and weak fairness of
`LockWrite` is enough. `Server!ResponsiveSpec` asks the same
of the threads `stop()` waits for, and that a client that has connected sends a
request or leaves; without it `stop()` may wait for ever for a worker that was
accepted while `stop()` was closing the pending sockets. `RsConnection`: a task
that can go on is run (`FairTasks`), and the peer does not stay connected and silent
for ever (`LeavingSpec`). `SendReturns` needs that: `read_frame` keeps the stream
locked while it waits, so with a peer that only answers what it is sent, a send
behind a task that waits in `read_message` never returns.

### Where the code and its documentation disagree

Six runs expect a violation; each checks one property that a document or a
comment states, and TLC's counterexample is a behaviour of the code.

* `connection_shared_buffer` (`WireIntact`): the application's frame and the
  reader's pong are built in one buffer before the lock is taken, although the
  change log lists concurrent socket writes as fixed.
* `connection_close_in_error` (`NoSelfDeadlock`): `on_error` of a failed pong
  runs with `write_mutex_` held, and `close()` from it locks it again; the
  change log lists the deadlock of `close()` on the reader thread as fixed.
* `connection_empty` (`Reassembly`): a frame with an empty payload is handled
  with the bytes of the frame before it.
* `connection_reopen` (`ReaderServes`): after a read error `reader_running_`
  stays set, and the next `connect` starts no reader.
* `server_left_open` (`StopClosesAll`): `stop()` leaves the sockets of failed
  or late handshakes open.
* `parser_incremental` (`ParserIncremental`): `parser.hpp` calls `frame::parser`
  incremental and says that it is fed bytes; fed a frame whose header, length or
  masking key is cut in two by the end of a chunk, it loses those bytes and never
  hands the frame back.

## Proofs

The proofs are for any number of threads or tasks, any frames, codes and bounds.
The constants are restricted by the named assumptions of the modules that declare
them, and TLC evaluates those for every instance. Where a property does not hold
for every use of the object, the theorem has the use as a hypothesis: a condition
on the constants that the instance of the run satisfies. Most proof modules start
with `USE Zenon`: leaves go to Zenon, and those that need arithmetic, records or
sequences name `SMT`.

### Connection

`ConnectionProofs` first proves that every step keeps the types, and that it is a
step of a smaller machine (`Step`, lemma `Skeleton`) that has the places of the
threads, the flags, the outbound buffer and the reader, and forgets what is read.
The invariants about control are proved on that machine.

* `ConnectionTypeOK`: `Spec => []TypeOK`.
* `NoFrameAfterOwnClose`: `Spec => []OwnCloseLast`. The property is not
  inductive. `Inv` adds `CallInv` (at each step of the shared tail only the
  operations that reach it are in progress, and a closing operation carries a
  close frame with a valid code) and `OrderInv` (a thread about to write, or in
  the `on_error` of a failed pong, holds the mutex; `is_closing_` is set when an
  own close frame is being sent or is on the wire; a sender about to write has
  seen it clear under the lock, so no own close frame is on the wire). Most
  steps neither write nor touch the mutex: `QuietOrder` deals with those once,
  and each action only shows that it is quiet. What remains are `LockWrite`,
  `WriteFrame`, `connect` and the return from the callback of a failed pong.
* `ValidCloseCodes`: `Spec => []CloseCodesValid`, from `CallInv` and the fact
  that only three steps touch the frames written and the codes reported.

The life of the reader:

* `ReaderNeverOutlives`: `Spec => []NoReaderAfterDestroy`, for every use. `LifeInv`
  says that a reader that runs is in `reader_thread_` or on its way there, in the
  hands of one thread; `DestroyInv` adds that no other application thread is in the
  object while `~impl` runs, so that the reader has been joined when it frees it.
  If two starts overlap, the theorem says nothing of what follows the second `Spawn`.
* `ReaderNeverReplaced`: under `StartsInTurn`, `Spec => []SingleReader`: a thread that
  is about to start a reader finds none, and one that is about to assign
  `reader_thread_` does not find it joinable. `StartsInTurn` says that
  `start_reading()` is called from callbacks, or that the application has one thread.
  Without it two threads can both find `reader_running_` clear. `StartInv` adds to
  `ThreadInv` that one application thread at most is opening (`OneOpener`), and that
  `reader_running_` then works as a lock on the reader (`RunInv`): it is clear while a
  thread is about to claim it, and set as long as there is a reader, a thread that
  starts one or a thread that has just joined one, of which there is one at most.
* `NoAbortWithOneCloser`: under `StartsInTurn` and `OneCloser`, `Spec => []NoAbort`.
  The other way to abort is two threads in `reader_thread_.join()`. Two application
  threads in `close()` can both find it joinable, so the theorem is for one that
  closes, by itself or from `on_open`; the reader may close too, since it never joins
  itself. `JoinInv` says that who waits in `join()` is alone there and
  `reader_thread_` is still joinable.

An object that connects once (`MaxOpens = 1`; with a second `connect`
`connection_reopen` shows that the first of these fails). `SessionInv` adds to
`StartInv`: before `is_open_` is set there is nothing to read or to report and the
thread in `connect()` is alone (`BeginInv`); `on_close_` is called with `is_open_`
clear, and with the socket closed or the reader out of its read (`CloseInv`);
`is_open_` without `reader_running_` is the business of a thread that is still opening
(`ServeInv`).

* `ReaderServesOneSession`: under `StartsInTurn`, `Spec => []ReaderServes`.
* `NoMessageAfterCloseOneSession`: under `SerialCalls`, `Spec => NoMessageAfterClose`,
  an action property. `SerialCalls` says that the application calls the object from
  callbacks, or has one thread. `NotifyInv` says that an application thread about to
  call `on_close_` has joined the reader, and that once `on_close_` has been called
  the reader has no message in its hands. With a second thread this is not so: its
  `close()` may come before `reader_thread_` is assigned and find nothing to join.

The next two are for such an object and an application that sends and closes from
callbacks only, and leaves the start of the reader to `connect()`
(`CallsFromCallbacks`); `connection_shared_buffer` shows that the first fails as
soon as a thread of the application sends by itself.

* `WireIntactFromCallbacks`: `Spec => []WireIntact`. `AloneInv` says that
  one application thread at most is in the object, and that it sends or closes only
  in `on_open_`, before there is a reader; `BufferInv` that the buffer holds the
  frame of the thread that has built one until it is written.
* `OnCloseOnceFromCallbacks`: `Spec => []OnCloseOnce`. `EndInv` says that
  once `on_close_` has been called every thread is past its own call of it.
  `on_error_` of a protocol error must not close
  (`"on_error_fail" \notin CallbackCalls`): the reader goes on to `fail_with_close`
  when it returns, and reports the end again.

### Client

`ClientProofs` proves, for any attempts to connect, any servers and any number of
application threads:

* `UpgradeBeforeFrames`: `ClientSpec => []FramesAfterUpgrade`.
* `DeflateOnBothEnds`: `ClientSpec => []DeflateAgrees`.
* `CloseTakesEffect`: `ClientSpec => []CloseEffective`.
* `ClientNoAbort`: under `OneCloser`, `ClientSpec => []NoAbort`. Starts need no
  hypothesis: a client starts its reader in `connect()` only.

`ClientSteps` shows that what the client does to its connection are steps of the
machine of `ConnectionProofs`, where `connect()` is cut into opening the socket and
`activate()`; so `ThreadInv` and the facts about starting the reader carry over.
The invariant `ClientInv` has four parts. `AccessInv` says that no thread is in the connection and nothing is on the wire
before it is activated (`HeldInv`), and that a `connect()` is alone until it has
activated it (`ConnectInv`). `UpgradeInv` says what holds at each step of the
handshake, and that an activated connection has sent its request, got an answer with
101 in its status line and has TLS if the URL asked for it. `DeflateInv` says that
the request offers what the client asks for, that the server grants no more than
that, and that the client took up what was granted. `FlagInv` says that while the connection is open and not
closing the client is open, or a `connect()` is about to make it so, and that it is
marked as closing only by a `close()` that is still to close the connection.

### Server and parser

`ServerProofs` proves, for any set of connections:

* `ServerTypeOK`: `Spec => []TypeOK`.
* `StopLeavesNothing`: `Spec => []StopQuiesces`. The invariant follows every
  worker from the moment it is spawned to the moment it is joined: it is in
  `workers_`, in the hands of the accept thread, or in the vector `stop()`
  works through, and after the accept thread is joined no new one appears.
* `TablesComplete`: `Spec => []Reachable`. `RunInv` says where `main`
  is while the server runs, and `ReachInv` follows a connection from
  `pending_handshakes_` to `connections_`: it enters the second table before it
  leaves the first.

`FrameParserProofs` proves `PayloadAsAnnounced`, for any chunks of any bytes: a frame that `parse()` hands back has the length its
header announced. `Account` says that the buffer and `payload_remaining_` always
add up to it.

### ws-rs

For any number of tasks and any bursts, and all but the last for mutexes granted in
turn or not, and so for the blocking connection too. `RsConnectionProofs`:

* `NoCircleOfWaits`: `Spec => []LockOrder`. `LockInv` says which locks a task holds
  at each point where it can be suspended, and that `outbound` is the frame of the
  task that holds it.
* `FramesLeaveWhole`: `Spec => []FramesWhole`. `WireInv` adds, as long as
  the link is not reset, that the last piece on the wire is a first half exactly
  when a write is half done, and then of the frame the writing task sends. That
  one task writes at a time is `LockInv`.
* `CloseCodesStayValid`: `Spec => []CloseCodesValid`. `CodeInv` says that every
  frame a task has to send has a valid code if it is a close frame; with
  `FramesWhole` that is the frame that goes out.

`RsSessionProofs`:

* `NoFrameIsLost`: `Spec => []NoFrameLost`. `StreamInv` says that what the peer has
  sent is what was taken followed by frames of which the parser, `buf` and the socket
  hold the rest, and that a task that waits for bytes has given the parser all there
  was. `RsParserProofs` shows what one call of `parse` does to such a rest: it takes
  one frame off, or keeps it as it was. That the stream of a sequence of frames is
  what its recursive definition says needs induction over sequences, which
  `SequenceFacts` derives in a first-order form, for a set instead of a predicate.
* `TypesAreKept`: `Spec => []TypeOK`. `QueueInv` is about the tasks that wait for a
  mutex and `DataInv` about the frames in hand; the types of the stream come from
  `StreamInv`.

`RsConnectionProofs` again:

* `AtMostOneReadAhead`: `Fifo => (Spec => []OneReadAhead)`. `TurnInv` says that the
  queue of the stream holds the tasks that wait for it, each once, and that after
  one read has finished while a task waits to write, nobody is reading and whoever
  wants to read stands behind that task. `read_state` is why one read is enough:
  two tasks are never both about to read. The lemmas `Leaves` and `Joins` say how
  the order in a queue survives a task that leaves or joins.

### Only model-checked

* The liveness properties: fairness and `ENABLED` are outside the prover.
* `Reassembly` of both connections, `PongsEchoPings`, `ParserExact`,
  `NothingHeldBack` and the refinement `Implements`: each compares what the code
  adds up step by step with a definition over the whole sequence of frames or bytes.
  An invariant for them would have to relate the two at every cut, and is not part
  of this project.
* `WireIntact`, `OnCloseOnce`, `ReaderServes`, `NoMessageAfterClose` and `NoAbort`
  are not claimed beyond the uses named above, where they do not hold.

## Not modelled

* The ASIO transport and the ASIO branches of the client and the server: a second
  build of the same interface, where the library does the loops. One difference
  matters to the rest: `asio::read_until` may take bytes after the HTTP head off
  the socket. The mutated form `read_until_all` of `FrameReader` does that, and
  `Implements` then fails.
* `compress_message` and `decompress_message`: calls into zlib on one whole
  message. With them the compressed branches of `send_data_frame` and
  `deliver_message`, in both languages. The negotiation and the RSV1 rule are
  modelled.
* OpenSSL: that a TLS step may fail is part of `Client`, what happens inside is
  not; nor is the reuse of a descriptor number after `close`.
* Writes that block because the peer does not read, and allocations that fail
  because a header announces a huge length.
* A second `listen` or `start` of a server, `stop()` called from a handler, and
  readers that call the server's handlers after it is gone: `stop()` does not
  wait for readers, and the documents do not say that it does.
* `ws-rs`: the upgrade, TLS, the client's and the server's wrappers around a
  connection, which share no state between tasks. `read_until_headers_end` reads
  up to 1024 bytes and drops what follows the headers, as the ASIO transport may.
  `run_echo_server` completes one handshake after the other. Not in the instances:
  two tasks that read, whose fragments may be handled out of order, and a send
  that is dropped in the middle of a write.
* Error tables, logging, examples, benchmarks: no state of the system.
