---------------------------- MODULE ServerWorker ----------------------------
(***************************************************************************)
(* The part of a server that runs inside the worker threads: for every     *)
(* worker, one HttpServerWorker (ServerWorkerImpl) with its connection     *)
(* listener, its ConnectionHandlerRepository and the handlers in it.       *)
(*                                                                         *)
(* A thread runs one event handler at a time.  What such a handler does to *)
(* its own objects is invisible to the other threads, so a handler is cut  *)
(* only where it reads or writes what they share: the atomic connection    *)
(* counter and the messages queued to the main thread.  batch, todo and    *)
(* owes hold what is left of the handler that is running.                  *)
(***************************************************************************)
EXTENDS Integers, Sequences, FiniteSets

CONSTANTS
    WorkerCount,          \* workers per server, one thread each
    Conns,                \* connections (socket descriptors) open at a time
    MaxConnectionCount,   \* the MaxConnectionCount option; 0 is no limit
    Tls                   \* is the server configured with TLS?

ASSUME WorkerCountAssumption == WorkerCount \in Nat \ {0}
ASSUME ConnsAssumption == IsFiniteSet(Conns)
ASSUME MaxConnectionCountAssumption == MaxConnectionCount \in Nat
ASSUME TlsAssumption == Tls \in BOOLEAN

Workers == 1..WorkerCount

VARIABLES
    inbox,             \* events posted to a worker's thread, not yet dispatched
    outbox,            \* signals a worker queued to the main thread
    implState,         \* ServerWorkerImpl::m_state
    hasAlreadyStarted, \* ServerWorkerImpl::m_hasAlreadyStarted
    listening,         \* m_pListener exists and listens
    accepted,          \* the listener's m_connections
    hasQueuedSlotCall, \* the listener's m_hasQueuedSlotCall
    batch,             \* descriptors processConnections has still to announce
    todo,              \* handlers the repository's stop() has still to finish
    owes,              \* a --(*m_pConnectionCount) the thread has still to do
    repoStopping,      \* ConnectionHandlerRepository::m_isStopping
    conn,              \* where each connection is in its life
    owner,             \* the worker whose thread accepted it, 0 if none did
    connectionCount    \* the atomic counter all the workers share

threadVars == <<inbox, outbox, implState, hasAlreadyStarted, listening, accepted,
                hasQueuedSlotCall, batch, todo, owes, repoStopping, conn, owner,
                connectionCount>>

(***************************************************************************)
(* A connection is free until a listener accepts its descriptor.  Then a   *)
(* handler lives on it: its socket is in its TLS handshake, connected,     *)
(* disconnecting, or aborted (closed with no signal emitted).  Lost is a   *)
(* descriptor nobody holds any more and nobody has closed.                 *)
(***************************************************************************)
HandledStates == {"handshaking", "connected", "disconnecting", "aborted"}
ConnStates == {"free", "accepted", "lost"} \cup HandledStates

Handlers(w) == {c \in Conns : owner[c] = w /\ conn[c] \in HandledStates}
LiveHandlers == {c \in Conns : conn[c] \in HandledStates}

\* The thread is back in its event loop: no handler of an event is running.
Idle(w) == ~owes[w] /\ batch[w] = <<>> /\ todo[w] = {}

FreshThreads ==
    /\ inbox = [w \in Workers |-> {}]
    /\ outbox = [w \in Workers |-> <<>>]
    /\ implState = [w \in Workers |-> "Stopped"]
    /\ hasAlreadyStarted = [w \in Workers |-> FALSE]
    /\ listening = [w \in Workers |-> FALSE]
    /\ accepted = [w \in Workers |-> <<>>]
    /\ hasQueuedSlotCall = [w \in Workers |-> FALSE]
    /\ batch = [w \in Workers |-> <<>>]
    /\ todo = [w \in Workers |-> {}]
    /\ owes = [w \in Workers |-> FALSE]
    /\ repoStopping = [w \in Workers |-> FALSE]

InitThreads ==
    /\ FreshThreads
    /\ conn = [c \in Conns |-> "free"]
    /\ owner = [c \in Conns |-> 0]
    /\ connectionCount = 0

-----------------------------------------------------------------------------
\* The thread dispatches a posted event.  At most one start, one stop and one
\* processConnections call are pending at a time, and stop and processConnections
\* are posted by two threads, in either order: the pending ones form a set.
Takes(w, m) ==
    /\ Idle(w)
    /\ m \in inbox[w]

\* The worker's signal s is queued to the AsyncServerWorker in the main thread.
Emit(w, s) == outbox' = [outbox EXCEPT ![w] = Append(@, s)]

\* start(): the listener starts or, for any of the reasons the code lists, not.
StartWorker(w) ==
    /\ Takes(w, "start")
    /\ inbox' = [inbox EXCEPT ![w] = @ \ {"start"}]
    /\ hasAlreadyStarted' = [hasAlreadyStarted EXCEPT ![w] = TRUE]
    /\ IF hasAlreadyStarted[w]
       THEN UNCHANGED <<implState, listening, outbox>>
       ELSE \/ /\ implState' = [implState EXCEPT ![w] = "Started"]
               /\ listening' = [listening EXCEPT ![w] = TRUE]
               /\ Emit(w, "started")
            \/ /\ Emit(w, "failed")
               /\ UNCHANGED <<implState, listening>>
    /\ UNCHANGED <<accepted, hasQueuedSlotCall, batch, todo, owes, repoStopping,
                   conn, owner, connectionCount>>

\* QTcpServer accepted a connection: it is only queued, for processConnections.
IncomingConnection(w, c) ==
    /\ Idle(w)
    /\ listening[w]
    /\ conn[c] = "free"
    /\ conn' = [conn EXCEPT ![c] = "accepted"]
    /\ owner' = [owner EXCEPT ![c] = w]
    /\ accepted' = [accepted EXCEPT ![w] = Append(@, c)]
    /\ hasQueuedSlotCall' = [hasQueuedSlotCall EXCEPT ![w] = TRUE]
    /\ inbox' = IF hasQueuedSlotCall[w] THEN inbox
                ELSE [inbox EXCEPT ![w] = @ \cup {"process"}]
    /\ UNCHANGED <<outbox, implState, hasAlreadyStarted, listening, batch, todo,
                   owes, repoStopping, connectionCount>>

\* processConnections() begins; AnnounceConnection is one turn of its loop.
ProcessConnections(w) ==
    /\ Takes(w, "process")
    /\ inbox' = [inbox EXCEPT ![w] = @ \ {"process"}]
    /\ hasQueuedSlotCall' = [hasQueuedSlotCall EXCEPT ![w] = FALSE]
    /\ batch' = [batch EXCEPT ![w] = accepted[w]]
    /\ accepted' = [accepted EXCEPT ![w] = <<>>]
    /\ UNCHANGED <<outbox, implState, hasAlreadyStarted, listening, todo, owes,
                   repoStopping, conn, owner, connectionCount>>

\* Mutant of Admits: the comparison of a post-increment.
AdmitsOneMore(n) == n - 1 <= MaxConnectionCount \/ MaxConnectionCount = 0

\* The condition of onNewConnection on the value the pre-increment returns.
Admits(n) == n <= MaxConnectionCount \/ MaxConnectionCount = 0

\* The socket of a connection is closed and its number may be used again.
Released(c) ==
    /\ conn' = [conn EXCEPT ![c] = "free"]
    /\ owner' = [owner EXCEPT ![c] = 0]

\* Mutant of OweDecrement: the connection is never uncounted.
ForgetToUncount(w) == UNCHANGED owes

\* The handler that is running ends with a --(*m_pConnectionCount).
OweDecrement(w) == owes' = [owes EXCEPT ![w] = TRUE]

\* onNewConnection: count it, then make a handler; or close it and, later in
\* the same handler, uncount it (too many, or the factory returned null).
AnnounceConnection(w) ==
    /\ ~owes[w]
    /\ batch[w] # <<>>
    /\ batch' = [batch EXCEPT ![w] = Tail(@)]
    /\ connectionCount' = connectionCount + 1
    /\ LET c == Head(batch[w])
       IN  \/ /\ Admits(connectionCount + 1)
              /\ conn' = [conn EXCEPT ![c] = IF Tls THEN "handshaking" ELSE "connected"]
              /\ UNCHANGED <<owes, owner>>
           \/ /\ Released(c)
              /\ OweDecrement(w)
    /\ UNCHANGED <<inbox, outbox, implState, hasAlreadyStarted, listening, accepted,
                   hasQueuedSlotCall, todo, repoStopping>>

\* The decrement at the end of onNewConnection or of a finished() emission.
DecrementCount(w) ==
    /\ owes[w]
    /\ owes' = [owes EXCEPT ![w] = FALSE]
    /\ connectionCount' = connectionCount - 1
    /\ UNCHANGED <<inbox, outbox, implState, hasAlreadyStarted, listening, accepted,
                   hasQueuedSlotCall, batch, todo, repoStopping, conn, owner>>

-----------------------------------------------------------------------------
\* Mutant of RepositoryStops: stopped() is not passed on.
RepositoryStopsSilently(w) ==
    /\ implState' = [implState EXCEPT ![w] = "Stopped"]
    /\ UNCHANGED outbox

\* The repository of w emits stopped() and the worker does: onHandlerRepositoryStopped.
RepositoryStops(w) ==
    /\ implState' = [implState EXCEPT ![w] = "Stopped"]
    /\ Emit(w, "stopped")

\* The handler of c is the last one of a repository that is stopping.
IsLast(w, c) == repoStopping[w] /\ Handlers(w) = {c}

\* The handler of c emits finished(): first the repository drops it (and stops,
\* if it was the last one), then the worker owes the decrement.  Signals call
\* their slots latest connected first, and add() connects after onNewConnection.
HandlerFinishes(w, c) ==
    /\ Released(c)
    /\ OweDecrement(w)
    /\ IF IsLast(w, c)
       THEN RepositoryStops(w)
       ELSE UNCHANGED <<implState, outbox>>

\* disconnectFromPeer() on the socket of c: a connected socket disconnects, at
\* once if shutdown() fails; one that is in its handshake aborts, emitting nothing.
DisconnectFromPeer(w, c) ==
    \/ /\ conn[c] = "connected"
       /\ \/ HandlerFinishes(w, c)
          \/ /\ conn' = [conn EXCEPT ![c] = "disconnecting"]
             /\ UNCHANGED <<owner, owes, implState, outbox>>
    \/ /\ conn[c] = "handshaking"
       /\ conn' = [conn EXCEPT ![c] = "aborted"]
       /\ UNCHANGED <<owner, owes, implState, outbox>>
    \/ /\ conn[c] \in {"disconnecting", "aborted"}
       /\ UNCHANGED <<conn, owner, owes, implState, outbox>>

\* A handler closes its connection: the idle or request timeout, or a response
\* that has to be the last one.
HandlerCloses(w, c) ==
    /\ Idle(w)
    /\ c \in Handlers(w)
    /\ conn[c] \in {"connected", "handshaking"}
    /\ DisconnectFromPeer(w, c)
    /\ UNCHANGED <<inbox, hasAlreadyStarted, listening, accepted, hasQueuedSlotCall,
                   batch, todo, repoStopping, connectionCount>>

HandshakeCompletes(w, c) ==
    /\ Idle(w)
    /\ c \in Handlers(w)
    /\ conn[c] = "handshaking"
    /\ conn' = [conn EXCEPT ![c] = "connected"]
    /\ UNCHANGED <<inbox, outbox, implState, hasAlreadyStarted, listening, accepted,
                   hasQueuedSlotCall, batch, todo, owes, repoStopping, owner,
                   connectionCount>>

\* The socket emits disconnected() or error(): the peer closed, the handshake
\* failed or timed out, or the disconnect timer expired.
SocketCloses(w, c) ==
    /\ Idle(w)
    /\ c \in Handlers(w)
    /\ conn[c] # "aborted"
    /\ HandlerFinishes(w, c)
    /\ UNCHANGED <<inbox, hasAlreadyStarted, listening, accepted, hasQueuedSlotCall,
                   batch, todo, repoStopping, connectionCount>>

\* Mutant of DestroyListener: the listener goes on listening.
KeepListener(w) ==
    /\ inbox' = [inbox EXCEPT ![w] = @ \ {"stop"}]
    /\ UNCHANGED <<listening, accepted, hasQueuedSlotCall, conn>>

\* m_pListener = {}: with the listener go the descriptors it has queued, still
\* open, and the call of processConnections posted to it.
DestroyListener(w) ==
    /\ inbox' = [inbox EXCEPT ![w] = @ \ {"stop", "process"}]
    /\ listening' = [listening EXCEPT ![w] = FALSE]
    /\ accepted' = [accepted EXCEPT ![w] = <<>>]
    /\ hasQueuedSlotCall' = [hasQueuedSlotCall EXCEPT ![w] = FALSE]
    /\ conn' = [c \in Conns |-> IF conn[c] = "accepted" /\ owner[c] = w
                                THEN "lost" ELSE conn[c]]

\* stop(): destroy the listener, then stop the repository; FinishHandler is one
\* turn of the loop in which it finishes its handlers.
StopWorker(w) ==
    /\ Takes(w, "stop")
    /\ IF implState[w] # "Started"
       THEN /\ inbox' = [inbox EXCEPT ![w] = @ \ {"stop"}]
            /\ UNCHANGED <<outbox, implState, listening, accepted, hasQueuedSlotCall,
                           todo, repoStopping, conn>>
       ELSE /\ DestroyListener(w)
            /\ repoStopping' = [repoStopping EXCEPT ![w] = TRUE]
            /\ todo' = [todo EXCEPT ![w] = Handlers(w)]
            /\ IF Handlers(w) = {}
               THEN RepositoryStops(w)
               ELSE /\ implState' = [implState EXCEPT ![w] = "Stopping"]
                    /\ UNCHANGED outbox
    /\ UNCHANGED <<hasAlreadyStarted, batch, owes, owner, connectionCount>>

FinishHandler(w, c) ==
    /\ ~owes[w]
    /\ c \in todo[w]
    /\ todo' = [todo EXCEPT ![w] = @ \ {c}]
    /\ DisconnectFromPeer(w, c)
    /\ UNCHANGED <<inbox, hasAlreadyStarted, listening, accepted, hasQueuedSlotCall,
                   batch, repoStopping, connectionCount>>

-----------------------------------------------------------------------------
\* What the event loop dispatches from the thread's queue of posted events.
PostedEvent(w) ==
    \/ StartWorker(w)
    \/ StopWorker(w)
    \/ ProcessConnections(w)

\* What is left of the handler that is running.
RunningHandler(w) ==
    \/ AnnounceConnection(w)
    \/ DecrementCount(w)
    \/ \E c \in Conns : FinishHandler(w, c)

SocketEvent(w, c) ==
    \/ IncomingConnection(w, c)
    \/ HandshakeCompletes(w, c)
    \/ HandlerCloses(w, c)
    \/ SocketCloses(w, c)

ThreadStep(w) ==
    \/ PostedEvent(w)
    \/ RunningHandler(w)
    \/ \E c \in Conns : SocketEvent(w, c)

\* The event loop serves every posted event, a running handler runs on, and a
\* socket that is disconnecting or in its handshake has a timer running.
ThreadFairness ==
    /\ \A w \in Workers : /\ SF_threadVars(StartWorker(w))
                          /\ SF_threadVars(StopWorker(w))
                          /\ SF_threadVars(ProcessConnections(w))
    /\ \A w \in Workers : WF_threadVars(RunningHandler(w))
    /\ \A w \in Workers : \A c \in Conns :
           SF_threadVars(conn[c] \in {"disconnecting", "handshaking"} /\ SocketCloses(w, c))

-----------------------------------------------------------------------------
\* The variables of the threads have the types of what they stand for.
ThreadTypeOK ==
    /\ inbox \in [Workers -> SUBSET {"start", "stop", "process"}]
    /\ outbox \in [Workers -> Seq({"started", "stopped", "failed"})]
    /\ implState \in [Workers -> {"Stopped", "Started", "Stopping"}]
    /\ hasAlreadyStarted \in [Workers -> BOOLEAN]
    /\ listening \in [Workers -> BOOLEAN]
    /\ accepted \in [Workers -> Seq(Conns)]
    /\ hasQueuedSlotCall \in [Workers -> BOOLEAN]
    /\ batch \in [Workers -> Seq(Conns)]
    /\ todo \in [Workers -> SUBSET Conns]
    /\ owes \in [Workers -> BOOLEAN]
    /\ repoStopping \in [Workers -> BOOLEAN]
    /\ conn \in [Conns -> ConnStates]
    /\ owner \in [Conns -> Workers \cup {0}]
    /\ connectionCount \in Int
=============================================================================
