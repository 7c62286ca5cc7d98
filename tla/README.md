# Kourier in TLA+

Kourier is an HTTP/1.1 server library in C++: epoll-driven sockets and timers
(`src/Src/Core`), a generic multi-threaded server (`src/Src/Server`) and the
HTTP server built from both (`src/Src/Http`). This directory models its
concurrent and event-driven logic in TLA+, checks the models with TLC on small
instances and proves the properties that matter most with TLAPS for all
instances.

To check a model: `tlc -workers 2 -config MCHttpServer_server.cfg MCHttpServer.tla`.
To check the proofs: `tlapm HttpServerProofs.tla`, and so for the other modules named `...Proofs`.

## The system

| Component | State it keeps | Operations | Talks to |
|---|---|---|---|
| HttpServer, HttpServerPrivate, Server | execution state, pending stop, failure, its workers | start, stop; the workers' started/stopped/failed | one AsyncServerWorker per worker; the user, through three signals |
| AsyncServerWorker, AsyncQObject | the main thread's copy of a worker's state; the worker's QThread | start, stop (posted to the thread); constructor and destructor that start and join the thread | the worker, through queued calls and queued signals |
| ServerWorker (HttpServerWorker) | state, listener, factory, repository, the shared connection counter | start, stop, onNewConnection, onHandlerFinished, onHandlerRepositoryStopped | its listener, its repository, every handler; the other workers, through the counter |
| QTcpServerBasedConnectionListener | listening socket, accepted descriptors, whether a call is queued | start, incomingConnection, processConnections | the worker, through newConnection |
| ConnectionHandlerRepository | an intrusive doubly linked list of handlers, isStopping | add, stop, onHandlerFinished, destruction | handlers (finish, finished), the worker (stopped) |
| HttpConnectionHandler, HttpBroker | parser, socket, current response, flags for complete request / written response / last response, one timer | onReceivedData, onWroteResponse, onTimeout, onDisconnected, finish; writeResponse, writeChunk, ... | its socket and timer, the user's request handlers (which may call back at once or later) |
| HttpRequestParser, HttpChunkMetadataParser | position in the request, limits | parse | the handler's socket buffer |
| TcpSocket, IOChannel | connection state, read/write buffers, timers, re-entrancy context id | connect, write, read, disconnectFromPeer, abort; onEvent | the epoll notifier, the user through signals called re-entrantly |
| TlsSocket, with its data source, sink and BIOs | the SSL object, two buffers of encrypted data, handshake timer | those of TcpSocket, overridden; the handshake | OpenSSL, and all that a TcpSocket talks to |
| EpollEventNotifier, EpollReadyEventSourceRegistrar, EpollObjectDeleter | registered sources, ready list, objects to delete | add, remove, post an event, process events, schedule a deletion | every event source of a thread |
| Timer, TimerNotifier, TimerWheel, TimerList, ClockTicker | timers in the slots of seven wheels and a list | add, remove, tick | the objects whose timers time out |
| RingBuffer | a circular buffer that is moved and resized | write, append, read, popFront, peek, resize, clear | sockets and TLS |
| Object | lists of connections per emitter and receiver | connect, disconnect, emit, destroy | every object, re-entrantly |
| HostAddressFetcher | lookups per name and their callbacks | add, remove, result | sockets that connect by name |
| HttpRequestRouter | routes of each method, in the order of their paths | addRoute, getHandler | the server's user; each connection, for the handler of a request |
| HttpServerOptions, TlsConfiguration, TlsContext, RingBufferBIO, UnixSignalListener, MetaTypeSystem, RuntimeError | options, OpenSSL objects, type tables | setters and lookups | |

What is hard about them:

- **Threads.** The main thread decides on copies of the workers' states that lag
  one queued signal behind; the workers share an atomic counter that is checked
  by incrementing it; `stop()` may arrive in every state of a start.
- **Re-entrancy.** Inside a thread everything is one event loop, but signals call
  their slots directly: a socket's slot may write, abort or delete the socket in
  the middle of the function that emitted, a user's request handler may answer
  before or after the request is complete, and a handler may finish while its
  repository walks over it.
- **Deferred work.** Ready events, deletions and queued calls run later, against
  objects that may have changed state or be scheduled twice.
- **Timeouts.** Idle, request, connect and disconnect timers race with the answers
  they wait for.
- **Data layout.** The ring buffer's two halves, the timer wheel's slots.

## Modules

| Module | Models | State ↔ code |
|---|---|---|
| `ServerWorker` | what runs in the worker threads: `HttpServerWorker`/`ServerWorkerImpl`, its listener, repository and handlers | `implState`, `hasAlreadyStarted`, `accepted`, `hasQueuedSlotCall`, `repoStopping`, `connectionCount` are the members of those names; `inbox`/`outbox` are the queued calls and signals of a thread; `batch`, `todo`, `owes` are what is left of the event handler that is running |
| `HttpServer` | `HttpServer`, `HttpServerPrivate`, `Server` and `AsyncServerWorker` in the main thread, composed with `ServerWorker` | `serverState`, `pendingStop`, `hasFailed`, `asyncState` are members; `signal` is the last signal emitted |
| `ServerContract` | what a user may assume of a server: its three signals and nothing else | abstract; `HttpServer` implements it |
| `HttpConnectionHandler` | one connection: `HttpConnectionHandler`, `HttpBroker`, the framing the parser gives to the bytes, the one timer, and the user's request handlers | a variable per member; `stack` is the call stack of `onReceivedData` and user code |
| `TcpSocket` | `TcpSocket`/`TcpSocketPrivate`, its descriptor, epoll and the two ways events reach `onEvent` | `sock` is the object's members, `kernel` the descriptor, `stack` the calls of `onEvent` and `setError`, `told` what the user has been told |
| `TlsSocket` | `TlsSocket`/`TlsSocketPrivate` above `TcpSocket`, which it EXTENDS: its own `onEvent`, `disconnectFromPeer`, `abort`, `read` and timeouts | `tls` is the members of `TlsSocketPrivate` and what is inside the SSL object; `inbound` the fragments that have been received |
| `BoundedFifo`, `RingBuffer` | a bounded byte queue, and the circular buffer that implements it: two blocks, growth to powers of two, moving, shrinking | `buf` has the members of `RingBuffer`; `mem` is the allocation |
| `HandlerSet`, `ConnectionHandlerRepository` | the set of handlers a repository is, and the intrusive list that implements it, with the walk of `stop()` that handlers leave meanwhile | `head`, `next`, `prev`, `nextToBeFinished` are the links; `asking` is where `stop()` is |
| `EventDelivery`, `EventLoop` | what a thread's loop promises its event sources, and `EpollEventNotifier`, `EpollReadyEventSourceRegistrar` and `EpollObjectDeleter`, which implement it | `fetched` is the rest of `m_epollEventsCache`; `pReadyEvents`, `pEventsBeingTriggered`, `pNext`, `pPrevious` are the lists of posted events; `objectsToDelete`, `deleted` the deleter's vector |
| `TimerDeadlines`, `TimerWheels` | deadlines with a tolerance, and `TimerNotifier` with its wheels, lists and two tickers, which implement them | `timer` is the `TimerPrivate` of every timer, `next` the index of every wheel, `lowAge`/`highAge` the time since the last ticks that were told of |
| `SignalsAndSlots`, `ObjectSignals` | which slots an emission calls, and `Object`, whose lists, counts and flags implement it | `connections`, `emitters`, `isEmitting`, `hasToCleanup`, `pIsDestroyed` are the members, a list being the set of its entries, in the order of their ids; `emissions` the calls of `emitSignal` |
| `RequestFraming`, `RequestShapes`, `HttpRequestParser` | what a parser must hand over of a stream of requests, the requests a client may send and what the grammar and the limits say of them, and `HttpRequestParser`, `HttpChunkMetadataParser`, `HttpRequestBody`, `HttpFieldBlock`, which implement it | `parser` has the members of those classes and the channel's read position; a step is a call of `parse()` |
| `HttpRequestRouter` | `HttpRequestRouter`: where a route is inserted, which one a request finds | operators on the lists of handlers, `m_handlers` |
| `MC...` | instances for TLC: sets of values, symmetry | |

`HttpServer` EXTENDS `ServerWorker`, which uses a repository as the set that
`HandlerSet` describes; a handler in `ServerWorker` is reduced to the states in
which `HttpConnectionHandler` and `TcpSocket` leave a connection. The two are not
composed with the server: a state is a connection's, and connections of one
worker meet only in its repository and the counter. `HttpConnectionHandler` in turn has the
parser as the status that a call of `parse()` returns, and the socket as three states.

**Atomicity.** An action of `ServerWorker` is an event handler of a thread, cut
wherever it touches what threads share (the counter and the main thread's
queue). `ConnectionHandlerRepository::onHandlerFinished` decrements the counter
in a slot of the signal it emits; since signals call the slot connected last
first, `stopped()` may reach the main thread before the last decrement: it is
`owes`. In the single-threaded modules, an action runs up to the next signal or
call of user code; `stack` keeps what is to be done afterwards, and user actions
are possible wherever user code runs.

**What is kept of the data.** Bytes are counted (`TcpSocket`), are pieces of a
request (`HttpConnectionHandler`), the classes that the parser's tables tell apart
(`HttpRequestParser`) or model values (`RingBuffer`). What a TLS peer sends is counted in
fragments: a flight of the handshake, a record, a part of one, a close_notify, nonsense. In
`HttpConnectionHandler` requests differ only in how they are framed: a head with no body, a
sized or chunked body, a bad one, one that no route matches.

## What is checked

| Run | Instance | States, about | Shows |
|---|---|---|---|
| `server` | 2 TLS workers, 2 connections, limit 1; a worker other than the first may fail to construct | 8,000 | `ProtocolInvariant`: the main thread's copy of each worker's state agrees with the worker up to the message under way; `CountExact`, `LiveWithinLimit`: the shared counter, tested by incrementing it, never lets more handlers live than the limit; `StartedMeansListening`; `StoppedMeansQuiet`; `StartAnswered`, `StopCompletesUnlessAborted`, `ImplementsContract`: each start gets one answer, each stop or failed start one end, but for a socket aborted silently (see below). It evaluates `RequestsAreRouted` too: up to three routes added in any order, compared with a table of them |
| `connection` | up to 4 pieces in bursts of up to 3, all four settings of the timeouts | 480,000 | `ResponsesInOrder`, `OneRequestAtATime`, `TimerFits`, `UserOfCurrentRequest`, `Consistent` under any re-entrancy; `EventuallyClosed` with both timeouts |
| `tcp_socket` | 2 connections of one socket, names with up to 2 addresses, 2 bytes each way, an unlimited read buffer and one of a byte | 184,000 | `Consistent`: nothing of one connection reaches the next; `SignalsFit`: every signal is one the user is waiting for, and `disconnected()` tells that the peer has gone or the disconnect timer has expired (not as documented, see below); `ReadsScheduled`, `WritesLeave`: no data is stuck; `AttemptsEnd`: connecting and disconnecting end |
| `tls_socket` | an accepted socket, or one with or without a context for two connections; 3 fragments from the peer, 1 byte to it | 1,770,000 | `TlsConsistent`: the SSL object, the handshake and its timer belong to the connection; `TlsSignalsFit`: connected, encrypted, data, disconnected, in this order; `TlsWritesScheduled`: what is to be encrypted or sent has an event under way; `TlsReadsScheduledOrBehind`: so has what was received, but for two cases |
| `tls_data` | one connection | violation | `TlsReadsScheduled` fails: see the findings |
| `ring_buffer` | default allocation 3, capacities none, 2 and 4, at most 4 bytes of 2 values | 7,100 | `LayoutInvariant`, `ImplementsFifo` |
| `repository` | 4 handlers, each of which disconnects or is silenced when it is asked to finish | 121,000 | `RepositoryInvariant`, `ImplementsHandlerSet`; `StopEnds`: `stop()` is left with no handler, and emits `stopped()`, but for handlers whose socket was aborted silently (see below) |
| `events` | 3 sources, one of them registered with epoll, one event type | 54,000 | `ListsExact`: the two lists of posted events, their flags and the event descriptors agree; `NoDanglingSource`: nothing that was deleted or disabled is still to be called; `ImplementsDelivery`; `EventuallyDelivered` |
| `timers` | a coarse and a precise timer, 3 wheels of 3 slots, a loop that lags up to 1 ms | 805,000 | `ListedOnce`: a running timer is in one slot or list; `ImplementsDeadlines`: it times out once, within the tolerance of its kind (how early, the run holds only the longest interval to, as the bound is beyond the others; how late, all. The theorem holds any interval to both) |
| `signals` | 2 objects, 2 signals, 3 connections, emissions nested twice | 99,000 | `ListsExact`: both ends of a connection agree, and nothing is left to clean up when nobody emits; `ImplementsSignals` |
| `signals_destroyed` | 2 objects, 1 signal, 2 connections | violation | `NeverTouchesDestroyed` fails: see the findings |
| `request_parser` | one request with each limit kept, or broken by one or two; pairs of requests, the second well formed or faulty; every division into pieces | 45,000 | `PositionsExact`: each request begins where the one before it ended, and a call gets on by what it counts; `NothingHeldBack`: no wait for bytes of the next request, nor for what is there; `FieldsReadable`: what is reported is delimited as the grammar has it, and every name finds what was sent; `ImplementsFraming` |

**Why the bounds are enough.** Two workers are the first number at which one can
fail, lag or hold the counter while another goes on; two connections with a
limit of one make both the overshoot of the counter and a rejected connection
possible. In a connection four pieces hold two pipelined requests with bodies, or
a chunked one behind an unfinished one, and a burst of three lets all of them be
in the buffer at a nested call. A socket needs two connections for anything stale
to matter, two addresses for a second attempt, a buffer of one byte for the second
to stay in the kernel, and two writes for one to find the other scheduled. A TLS server
awaits two flights, so that three fragments bring it beyond its handshake, and a client
gets two more: a record in two parts, or one and a close_notify. A
default allocation of three (128 in the code) with at most four bytes lets data wrap at
every position, and be moved, grow beyond the default and shrink back to it. Four handlers put the
one that leaves at the head, at the end, next to and away from the walk. Three sources
in a doubly linked list give it a first, a middle and a last one; one of them also
registered with epoll suffices for the batch, since sources meet there only in the order
in which they are handled. With three wheels of three slots there is one that is
driven by the high resolution ticker, one by the low one, and one that only the wheel below
moves on; the intervals go through every border. Three connections put the one that a
slot connects or disconnects before, at and behind the one whose slot runs, and
depth two is the first at which an emission finds what another has left.
The parser is tried with the smallest and next sizes at which it counts differently.

**Fairness.** Nothing is assumed of users, clients and peers unless named here.
The event loop of a thread dispatches what is posted (strong for `ServerWorker`,
where other events may come first; weak where a loop does nothing else, and in
`EventLoop`, where it is the loop itself), and a
handler or slot that runs returns (weak). A timer that is running expires: the
idle and request timeouts and the 10 s disconnect timer (strong, since it can be
stopped and started again), the connect timer (weak). A socket in its handshake or
disconnecting is closed at last by such a timer. A lookup ends (QHostInfo reports
every lookup), and a peer that stays takes what it is sent, without which
`WritesLeave` is false, as TCP makes it. `finish()` returns, and a handler it asked finishes
if its socket is disconnecting, by the disconnect timer at last; if its socket was aborted in
the TLS handshake it never does, and nothing is assumed of it (`Silenced`). Timers, signals, the parser and the TLS socket are checked for safety
only; that a timer is not late is safety, since time passes in the model.

`CHECK_DEADLOCK FALSE` is said where the program may stop: a server stopped by a
failure in the last state a bound allows, a closed connection, a deleted socket,
a destroyed repository.

### Findings

Each is the violation of a run; `PROJECT.json` quotes what the code's documents say.

- `tls_data`: the read buffer of a TLS socket makes room for as much as there is encrypted
  data. If a record came in parts, OpenSSL has taken the earlier ones already, and what
  the last one completes may not fit: the rest stays in the SSL object, uncounted and with no
  event under way, until the peer sends more (`TlsSocketPrivate_epoll.cpp:514`).
- `signals_destroyed`: a slot that destroys a receiver of the signal it is called for, and
  then the emitter, makes the emitter's destructor access the receiver (`Object.cpp:58`).

### Observed while modelling

No run is about these; where they would break a property, its definition or an input of the
model names the exception.

- **Server.** A socket in its TLS handshake is aborted without any signal when it is told to
  disconnect (`TlsSocketPrivate_epoll.cpp:95`), so that its handler never finishes and
  `stopped()` is never emitted, against `HttpServer.cpp:39-40`: the exception in
  `StopCompletesUnlessAborted` and in `StopEnds`. Descriptors the listener has accepted but not announced
  are neither announced nor closed when it is destroyed (`ServerWorker.cpp:171`). If the first
  worker cannot be constructed, `Server::start` goes on over workers that are released already
  (`Server.cpp:53`). An asynchronous stop while starting has a branch (`asyncPendingStop`) no
  composition of the modules reaches; a worker restarted after it failed would hang; a
  rejected connection may be due to another worker's increment that is taken back next
  (`ServerWorker.cpp:177`).
- **Connection.** Writing the response of a complete request resets the broker
  (`HttpConnectionHandler.cpp:209`), so that a second response of the same user code is written
  too, against `HttpBroker.cpp:161`; in the model user code stops with its response. A nested
  `onReceivedData` that refuses a request disconnects the socket while the outer loop goes on
  (`:139`). A handler that throws, or a timeout, while a chunked response is written ends it with
  a last chunk, as if it were complete (`HttpBrokerPrivate.h:136`).
- **TCP socket.** *TcpSocket only emits disconnected for graceful shutdowns. If any error occurs while
  disconnecting, TcpSocket emits the error signal* (`TcpSocket.cpp:53-55`); the code emits
  `disconnected()` also when the disconnect timer expires (`TcpSocketPrivate_epoll.cpp:653-669`), when
  `shutdown()` fails (`:435-448`, `:568-572`) and when the peer resets the connection, and `error()` only
  while connecting. `SignalsFit` names the timer and the failed shutdown as ends of their own (`TimesOut`,
  `ShutdownFails`), without which it is violated; a reset is not told from a close in the model. `abort()` drops a posted write event but not the flag that says it is posted
  (`TcpSocketPrivate_epoll.cpp:107`), so that writes of the next connection may post none:
  `WritesLeave` is about first connections. An `if` without braces makes `connectToHost`
  return silently when `socket()` fails for an IPv6 bind address (`:304`; with
  `BoundSocketFails` true `AttemptsEnd` is violated). When the peer closes, what the kernel has
  received beyond a full read buffer is dropped (`:617`); `sentData()` may follow
  `disconnected()` (`:614`); the documented 60 seconds are per address (`:385`).
- **TLS socket.** `setReadBufferCapacity()` that gives room posts no event (as for a TCP socket).
  The drain before `disconnected()` stops when the encrypted buffer is empty and drops what is
  still in OpenSSL (`:349`). A close_notify that comes with the last flight of the handshake is not
  acted on before the next event. A peer that closes during the handshake gives
  `disconnected()` rather than `error()`, and so does the disconnect timeout. `connect()` without a
  usable context tells the error before it has aborted the old connection. The
  `shutdown()` of `disconnectFromPeer` (`:109-131`) is not reached: SSL_shutdown has just put an alert
  into the buffer that it requires to be empty.
- **Timers.** A periodic timer starts over at the time it is handled, not at the one it was due, so
  that delays add up (`TimerNotifier.cpp:126`). A timer whose interval the wheels do not span is active, but
  in no slot and in no list: `pTimer->timeout() = ...` was to shorten its timeout (`:86-87`), but
  `timeout()` returns a copy (`TimerPrivate_epoll.h:47`). With milliseconds that takes more than a century.
- **Event loop.** The teardown at the end of a thread may delete an object twice that schedules
  itself (`EpollEventNotifier.cpp:72`).
- **Signals.** A function without a context object is deleted while it runs when it
  disconnects itself.
- **Parser.** A request without a body may exceed `maxRequestSize` by two bytes, depending on
  how it arrives (`HttpRequestParser.cpp:685`, `:692`, `:721-755`; against `HttpServer.cpp:76-77`); `*` is
  not held against `maxUrlSize`; the assertion at `HttpFieldBlock.cpp:30` is stricter than the 128
  lines that are allowed; *100 Continue* may precede the refusal of the same request
  (`:723`, `:744`).
- **Lookups.** A slot of `error()` that connects to the same name again is added to the set
  `HostAddressFetcher` is walking, and answered at once with the same empty result
  (`HostAddressFetcher.cpp:104`); that component is not modelled.

## What is proved

Each of the eight modules named `...Proofs` is checked by itself: the server with the repository (2,820
obligations), the connection with its router (2,360), the sockets (8,650), the event loop (1,240),
the ring buffer (960), the timers (3,260), the signals (1,980) and the parser (5,910). The assumptions
are the named ones on the constants: a positive number of workers, a
finite set of connections, natural bounds, positive sizes, and for the ring buffer a set
of powers of two in which each size has a least one that is enough. Two of the assumptions say
what the provers cannot compute: that the resolution of a wheel is the number of slots times that of
the one below, since they know nothing of exponents, and that a wheel has two slots or more.

- **The protocol of the server** (`ProtocolIsInvariant`, and from it
  `StartedIsListening`, `JoinsAreDrained`). `StartedMeansListening` is not
  inductive: the main thread calls itself started by its copies. `ProtocolInvariant` adds
  what the copies are worth, worker by worker: while a copy says *Starting*, either
  the start is still posted, or it was handled and its answer is in the outbox; while
  *Stopping*, the stop is posted, or handlers still live, or `stopped` is queued; otherwise
  nothing is under way (`Agrees`). `ServerAgrees` ties the server's own state to the
  copies, `QueuesExact` each accepted descriptor to the one queue that holds it. The
  proof has a lemma per action; those that change one worker's thread rest on
  `SameWorkerAgrees`: what another worker does disturbs neither.
- **The counter** (`CountIsExact`, `LiveIsWithinLimit`, `StoppedIsQuiet`). The counter
  equals the live handlers plus the decrements owed, by cardinality; a worker with
  nothing under way contributes none. The limit follows, since a handler is made
  only by a worker that saw its own increment within it.
- **The contract** (`ServerImplementsContract`): every step of the server is
  one of `ServerContract` or leaves its variables alone.
- **The ring buffer** (`LayoutIsInvariant`, `RingBufferImplementsFifo`). The layout
  invariant says that the right block begins at the data pointer and the left one at the
  buffer's start, that they and the free space fill the allocation, and that it
  never exceeds the capacity. Contents are the two blocks one after the other; a lemma per
  primitive (append, drop, move, grow) says what it does to the contents, and each
  operation follows from those.
- **The repository** (`RepositoryIsInvariant`, `RepositoryImplementsHandlerSet`). The list is
  linked in both directions in the order of a sequence that holds each member once; adding
  puts one first and unlinking removes one anywhere, and `stop()` goes on only with a
  member. For the refinement, what `stop()` has still to ask is what can be reached from the handler it
  goes on with; that unlinking one handler takes just that one out of it needs a
  well-founded minimum over the sequence, since nothing recursive can be unfolded.

- **The connection** (`ConnectionIsInvariant`, and from it `ConnectionIsConsistent`,
  `ResponsesAreInOrder`, `RequestsAreOneAtATime`, `TimersFit`, `UsersAreCurrent`). The stack of
  suspended calls is what has to be described: `Nested` says which call may be suspended
  under which, and `Answered` that each `onReceivedData` that was entered again, but for the innermost,
  had completed the request it goes on with, so that no response is left for it to
  write. `WireExact` ties the responses on the wire to the requests that were routed,
  `TimerExact` the timer to the flags, for the states within a handler too.
- **The router** (`RoutesAreKept`, `MostSpecificIsFound`): a request is given to the most
  specific route, as `AddingHandlers.md` says. The order of paths is total and
  transitive (the first byte at which two differ is a well-founded minimum), an insertion
  keeps a list in it, and of two routes a path begins with, the greater is the longer.
- **The socket** (`SocketIsInvariant`; `SocketIsConsistent`, `SignalsAreExpected`,
  `ReadsAreScheduled`). `SocketInvariant` says of every suspended call of `onEvent` and `setError` what it may
  assume when it goes on: `Calls` that its context id is the socket's only if the connection
  is still the one it began with, and what the user has been told; `ReadsComing` that
  data left in the kernel has an event under way or a call that will still ask for it; `Fits` that
  descriptor, timers and state go together. For `SignalsAreExpected` it is joined with `EndsHeard`: an
  event that tells of the end of the connection, fetched or given to a call that still goes on with the same
  connection, does so only of an end there is. `SocketIsConsistent` needs the assumption that a socket
  with an IPv6 bind address can be made (`~BoundSocketFails`): without it the property is false, see below.
- **The TLS socket** (`TlsIsInvariant`; `TlsSocketIsConsistent`, `TlsSignalsAreExpected`,
  `TlsWritesAreScheduled`, `TlsReadsAreScheduled`). `TlsInvariant` describes the TCP part anew, for
  here the buffers of `TcpSocket` hold records, and then what TLS adds: `Agrees`
  ties the SSL object, the handshake and its timer to the state of the socket and to what the user
  was told; `Units` counts the handshake's flights and the bytes of a record that is read piece by piece;
  `Ordered` that nothing is decrypted before the handshake is over and what is in memory is readable;
  `InContext` what a suspended call may assume of the context id it has kept, and
  `CaredFor` that what arrived, is to be encrypted or to be sent has an event under way
  or a call in the stack that will still see to it. How much one `SSL_read` shows is a recursive function;
  that it is bounded by what was received is shown by the least counterexample. The last
  theorem states `TlsReadsScheduledOrBehind`: with the two exceptions that its definition
  names, of which the run `tls_data` shows that they happen.
- **The event loop** (`LoopIsInvariant`, `NoneDangles`, `PostedAreListed`, `LoopImplementsDelivery`).
  The pointers of the two lists are chained: each source's successor names it as its predecessor,
  one source at most has none, the first; that is enough for pushing, unlinking and
  taking the whole list over, and spares the induction along it. `PostedAreListed` then says that
  a walk from the front of a list meets each source with its flag once and no other. With exact registrations, no deleted source
  is fetched or posted, and each step is one of `EventDelivery` or unseen by it.
- **The timers** (`WheelsAreInvariant`, `TimersAreListedOnce`, `WheelsImplementDeadlines`). What is left of a timer's timeout with
  the ticks that are added when it is put into a slot fits in the wheel it is in; the two tickers never
  tell of more than has passed. These are about intervals that the wheels span. For the deadlines,
  `DueIn` reads from where a timer stands when it will be told to time out: the turns of its wheel until its
  slot expires, less how far the wheel has got (`Phase`) and what has passed since the last tick, and
  what is left of its timeout then. `OnTime` says how far that may be from when it is due; every
  turn of the wheels and every millisecond keeps it, and a timer that moves on goes to no coarser
  wheel, where it stands as far from its timeout as before. That rests on the turns of the wheels
  being nested: a wheel turns only when every finer one does (`Multiples`, `FinerTurnsToo`), also
  when the counter of ticks wraps round. The theorem is about intervals of which the last wheel can still
  hold a turn more (`Longest`), since close to the end of its span the ticks are not added
  (`TimerNotifier.cpp:162`), and a timer is early by up to that turn. The tolerance was
  found by the proof: a timer may be late by twice the lag and a tick, the tick because restarting the only timer of
  the first wheel disables the high resolution ticker and enables it anew. TLC finds the smaller
  bound violated.
- **Signals** (`SignalsAreInvariant`, `ListsAreExact`, `ObjectsImplementSignals`). Every entry has an id
  of its own and belongs to a living object (`Entries`), the emitters' counts are the cardinalities of
  the connections that are left (`Counted`), who emits has a flag (`Flags`), and each suspended
  `emitSignal` reads the flag of the first call for the same emitter, which lives as long (`Calls`).
  For the refinement the slots still due to an emission are seen as a set of ids, and
  what `disconnect` and a destructor take out of it is just what they disconnect.
- **The parser** (`AccountedIsInvariant`; `NothingIsSkippedAhead`, `MovesAreCounted`, `NothingCompleteIsHeld`,
  `HeadersAreDelimited`, `SizesAreLimited`, `BodiesAreAccounted`), for any bytes, valid or not, in any pieces and under any
  limits. Each function of the parser has a lemma: given a parser that stands where the function may be
  called, the result waits for more within the limits, fails, or goes on where the next function may be
  called (`Stands`, `Proceeds`, `Continues`). The loops over field lines are a function of the number of
  passes; what each pass keeps holds after any number of them by the least counterexample. `Kept` relates the
  parser to what was handed over of the body under way, `Reported` to what the handler may conclude from
  it. That a body under way is exactly one that the counts say is not complete makes the three inductive
  together. Three more things have to be carried from call to call:
  - what was read of the header so far (`HeaderRead`: request line, field lines up to `requestSize`, what was
    heeded of them) or of the trailers (`LinesRead`), as a call resumes behind the lines of earlier ones;
  - that a piece of a body leaves the block and the header as they were reported (`SameHeader`);
  - that only a header, or the end of the last chunk, is reported as a request (`Delimits`).
  `NothingSkippedAhead` and `MovesAsCounted` are conjuncts of `PositionsExact`, `NothingCompleteWaits` is one of
  `NothingHeldBack` and `HeaderDelimited` one of `FieldsReadable`: each says for any bytes what its run says for
  the requests it tries. `SizesLimited` and `BodiesAccounted` say so of what the framing shows in the run.

Only model-checked: liveness (`StartAnswered`, `StopCompletesUnlessAborted`, `EventuallyClosed`,
`StopEnds`, `EventuallyDelivered`, `AttemptsEnd`, `WritesLeave`), which is out of the prover's
reach; and of the parser what compares it with the requests that were sent: the other conjuncts of
`PositionsExact` (each request begins where the one sent begins), `NothingHeldBack` (no wait beyond the end of
the request sent) and `FieldsReadable` (every name finds the values sent), and `ImplementsFraming`. They relate
the parser to a stream that is built from requests of any length by folds, so a proof is an
induction over that data. What is proved of the same code holds for every stream, and leaves open only
whether the grammar read is the grammar sent. `TlsReadsScheduled` is false of the code, and so has a
run that refutes it and a weaker property that is proved.

## What is not modelled

- A start that is refused because the server is running or its address is bad, and the
  destruction of a running `HttpServer`. A listener's bind that is retried for up to
  20 s is one step that succeeds or fails.
- The text of requests and responses, options, addresses and error messages: data
  on which the control modelled here does not depend.
- TLS contexts and their configuration; records, alerts and certificates are OpenSSL's. That
  SSL_new fails, and renegotiation, which the contexts forbid, are left out.
- Durations, but for `TimerWheels`: elsewhere a timer expires at any moment while it runs. In
  `TimerWheels` a loop that lags for a whole tick of the low resolution ticker is left out.
- `HostAddressFetcher`: to a socket a lookup is a later event that answers with addresses or none.
- The options and the request's accessors: sequential lookups over strings.
- The end of a thread (`EpollEventNotifier`'s teardown) and `EpollTimerRegistrar`, which nothing uses.
- The benchmarks and the tests (`*.bench.cpp`, `*.spec.cpp`): more than half of the lines under
  `src/Src`, but no part of the program.
- `UnixSignalListener`, `MetaTypeSystem`, `RuntimeError`: little state, or none. Qt, OpenSSL and
  the kernel are external, modelled by how they are used.

## Plan

The order was: the server's protocol, then the connection and the buffers that every
request passes through, then the socket, and then what everything runs on: the event
loop, timers, signals, the parser and TLS. Left:

1. `HostAddressFetcher` with its re-entrancy, composed with `TcpSocket`.
2. The refused start and the destruction of a running server, in `HttpServer`.
