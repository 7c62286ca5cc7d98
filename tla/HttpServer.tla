----------------------------- MODULE HttpServer -----------------------------
(***************************************************************************)
(* A server as its user sees it: HttpServerPrivate, the Server it creates, *)
(* the AsyncServerWorker of every worker in the main thread, and the       *)
(* worker threads of module ServerWorker that these start, stop and join.  *)
(* The main thread runs one call or one queued signal at a time; it is     *)
(* blocked only in m_workers.clear(), which joins the threads (joining).   *)
(***************************************************************************)
EXTENDS ServerWorker

CONSTANT FailingConstructions \* the sets of workers whose constructor may throw
ASSUME FailingConstructionsAssumption ==
    FailingConstructions \subseteq SUBSET Workers

VARIABLES
    hasServer,         \* HttpServerPrivate::m_pServer is set
    serverState,       \* Server::m_state
    pendingStop,       \* Server::m_pendingStop
    hasFailed,         \* Server::m_hasFailed
    asyncState,        \* AsyncServerWorker::m_state of every worker
    asyncPendingStop,  \* AsyncServerWorker::m_pendingStop of every worker
    joining,           \* the main thread waits for the worker threads to end
    usesReleased,      \* a released AsyncServerWorker has been called
    signal             \* the last signal emitted since start()

mainVars == <<hasServer, serverState, pendingStop, hasFailed, asyncState,
              asyncPendingStop, joining, usesReleased, signal>>
vars == <<threadVars, mainVars>>

Init ==
    /\ InitThreads
    /\ hasServer = FALSE
    /\ serverState = "Stopped"
    /\ pendingStop = FALSE
    /\ hasFailed = FALSE
    /\ asyncState = [w \in Workers |-> "Stopped"]
    /\ asyncPendingStop = [w \in Workers |-> FALSE]
    /\ joining = FALSE
    /\ usesReleased = FALSE
    /\ signal = "none"

-----------------------------------------------------------------------------
\* Each worker of ws is asked to stop: AsyncServerWorker::doStop, as of async.
StopAsyncWorkers(ws, async) ==
    LET started == {w \in ws : async[w] = "Started"}
    IN  /\ asyncState' = [w \in Workers |-> IF w \in started THEN "Stopping" ELSE async[w]]
        /\ asyncPendingStop' = [w \in Workers |->
               asyncPendingStop[w] \/ (w \in ws /\ async[w] = "Starting")]
        /\ inbox' = [w \in Workers |->
               IF w \in started THEN inbox[w] \cup {"stop"} ELSE inbox[w]]

\* processStoppingServerWorkers, called in state: once all workers have stopped,
\* m_workers.clear() joins their threads; until then it does nothing.
ProcessStopping(async, state) ==
    LET allStopped == \A w \in Workers : async[w] = "Stopped"
    IN  /\ serverState' = IF allStopped THEN "Stopped" ELSE state
        /\ joining' = allStopped

\* Mutant of Undecided: workers that are still starting are not waited for.
OnlyStopping(async) == \E w \in Workers : async[w] = "Stopping"

Undecided(async) == \E w \in Workers : async[w] \in {"Starting", "Stopping"}

\* Mutant of MayRun: a stop() called while starting is forgotten.
ForgetsPendingStop(failed) == ~failed

MayRun(failed) == ~failed /\ ~pendingStop

\* processStartingServerWorkers, once a worker's start is decided.
ProcessStarting(async, failed) ==
    IF Undecided(async)
    THEN /\ asyncState' = async
         /\ UNCHANGED <<serverState, joining, signal, asyncPendingStop, inbox>>
    ELSE IF MayRun(failed)
    THEN /\ asyncState' = async
         /\ serverState' = "Started"
         /\ signal' = "started"
         /\ UNCHANGED <<joining, asyncPendingStop, inbox>>
    ELSE /\ StopAsyncWorkers({w \in Workers : async[w] = "Started"}, async)
         /\ ProcessStopping(async, "Stopping")
         /\ UNCHANGED signal

-----------------------------------------------------------------------------
\* start() with every worker constructed: new threads, and a start posted to each.
StartServer ==
    /\ ~hasServer
    /\ hasServer' = TRUE
    /\ serverState' = "Starting"
    /\ pendingStop' = FALSE
    /\ hasFailed' = FALSE
    /\ asyncState' = [w \in Workers |-> "Starting"]
    /\ asyncPendingStop' = [w \in Workers |-> FALSE]
    /\ signal' = "none"
    /\ inbox' = [w \in Workers |-> {"start"}]
    /\ hasAlreadyStarted' = [w \in Workers |-> FALSE]
    /\ repoStopping' = [w \in Workers |-> FALSE]
    /\ UNCHANGED <<outbox, implState, listening, accepted, hasQueuedSlotCall, batch,
                   todo, owes, conn, owner, connectionCount, joining, usesReleased>>

\* start() when the constructors of the workers in nulls throw: their start()
\* emits failed() in the middle of Server::start's loop over m_workers.  If the
\* first of them is the first worker, all workers are still Stopped: m_workers
\* is cleared, failed() emitted, and the loop goes on over released workers (from
\* there on, with usesReleased set, nothing can be said of the process).
StartServerFailing ==
    \E nulls \in FailingConstructions \ {{}} :
       /\ ~hasServer
       /\ pendingStop' = FALSE
       /\ hasFailed' = TRUE
       /\ asyncPendingStop' = [w \in Workers |-> FALSE]
       /\ IF 1 \in nulls
          THEN /\ serverState' = "Stopped"
               /\ usesReleased' = (WorkerCount > 1)
               /\ signal' = "failed"
               /\ connectionCount' = 0
               /\ UNCHANGED <<hasServer, asyncState, inbox, hasAlreadyStarted,
                              repoStopping>>
          ELSE /\ hasServer' = TRUE
               /\ serverState' = "Starting"
               /\ signal' = "none"
               /\ asyncState' = [w \in Workers |->
                      IF w \in nulls THEN "Stopped" ELSE "Starting"]
               /\ inbox' = [w \in Workers |-> IF w \in nulls THEN {} ELSE {"start"}]
               /\ hasAlreadyStarted' = [w \in Workers |-> FALSE]
               /\ repoStopping' = [w \in Workers |-> FALSE]
               /\ UNCHANGED <<usesReleased, connectionCount>>
       /\ UNCHANGED <<outbox, implState, listening, accepted, hasQueuedSlotCall,
                      batch, todo, owes, conn, owner, joining>>

\* stop(): remembered while the workers start, passed on to them once they have.
StopServer ==
    /\ hasServer
    /\ ~joining
    /\ \/ /\ serverState = "Starting"
          /\ pendingStop' = TRUE
          /\ UNCHANGED <<serverState, asyncState, asyncPendingStop, inbox>>
       \/ /\ serverState = "Started"
          /\ serverState' = "Stopping"
          /\ StopAsyncWorkers(Workers, asyncState)
          /\ UNCHANGED pendingStop
    /\ UNCHANGED <<outbox, implState, hasAlreadyStarted, listening, accepted,
                   hasQueuedSlotCall, batch, todo, owes, repoStopping, conn, owner,
                   connectionCount, hasServer, hasFailed, joining, usesReleased, signal>>

\* The main thread takes the signal s a worker thread has queued to it.
Receives(w, s) ==
    /\ hasServer
    /\ ~joining
    /\ outbox[w] # <<>>
    /\ Head(outbox[w]) = s
    /\ outbox' = [outbox EXCEPT ![w] = Tail(@)]
    /\ UNCHANGED <<implState, hasAlreadyStarted, listening, accepted,
                   hasQueuedSlotCall, batch, todo, owes, repoStopping, conn, owner,
                   connectionCount, hasServer, pendingStop, usesReleased>>

OnWorkerStarted(w) ==
    /\ Receives(w, "started")
    /\ IF asyncPendingStop[w]
       THEN /\ asyncState' = [asyncState EXCEPT ![w] = "Stopping"]
            /\ inbox' = [inbox EXCEPT ![w] = @ \cup {"stop"}]
            /\ UNCHANGED <<serverState, asyncPendingStop, joining, signal>>
       ELSE ProcessStarting([asyncState EXCEPT ![w] = "Started"], hasFailed)
    /\ UNCHANGED hasFailed

\* Mutant of OnWorkerFailed: the failure is recorded, the start never decided.
OnlyRecordFailure(w) ==
    /\ Receives(w, "failed")
    /\ hasFailed' = TRUE
    /\ asyncState' = [asyncState EXCEPT ![w] = "Stopped"]
    /\ UNCHANGED <<serverState, joining, signal, asyncPendingStop, inbox>>

OnWorkerFailed(w) ==
    /\ Receives(w, "failed")
    /\ hasFailed' = TRUE
    /\ ProcessStarting([asyncState EXCEPT ![w] = "Stopped"], TRUE)

OnWorkerStopped(w) ==
    /\ Receives(w, "stopped")
    /\ asyncState' = [asyncState EXCEPT ![w] = "Stopped"]
    /\ ProcessStopping([asyncState EXCEPT ![w] = "Stopped"], serverState)
    /\ UNCHANGED <<inbox, asyncPendingStop, hasFailed, signal>>

\* Mutant of ThreadsEnded: the threads are left behind running.
DoNotWait == TRUE

\* QThread::wait returns for every worker: its thread is between two events.
ThreadsEnded == \A w \in Workers : Idle(w)

FinalSignal == IF hasFailed THEN "failed" ELSE "stopped"

\* m_workers.clear() returns once every thread has ended.  Then Server emits
\* stopped() or failed(), on which HttpServerPrivate drops it.
ThreadsJoined ==
    /\ joining
    /\ ThreadsEnded
    /\ joining' = FALSE
    /\ hasServer' = FALSE
    /\ connectionCount' = 0
    /\ signal' = FinalSignal
    /\ inbox' = [w \in Workers |-> {}]
    /\ outbox' = [w \in Workers |-> <<>>]
    /\ implState' = [w \in Workers |-> "Stopped"]
    /\ listening' = [w \in Workers |-> FALSE]
    /\ UNCHANGED <<hasAlreadyStarted, accepted, hasQueuedSlotCall, batch, todo, owes,
                   repoStopping, conn, owner, serverState, pendingStop, hasFailed,
                   asyncState, asyncPendingStop, usesReleased>>

-----------------------------------------------------------------------------
OnWorkerSignal(w) ==
    \/ OnWorkerStarted(w)
    \/ OnWorkerFailed(w)
    \/ OnWorkerStopped(w)

MainStep ==
    \/ StartServer
    \/ StartServerFailing
    \/ StopServer
    \/ \E w \in Workers : OnWorkerSignal(w)
    \/ ThreadsJoined

Next ==
    \/ MainStep
    \/ \E w \in Workers : ThreadStep(w) /\ UNCHANGED mainVars

\* Nobody has to call start() or stop(); the rest of the main thread's work is
\* done by its event loop.
Fairness ==
    /\ ThreadFairness
    /\ \A w \in Workers : WF_vars(OnWorkerSignal(w))
    /\ WF_vars(ThreadsJoined)

Spec == Init /\ [][Next]_vars
FairSpec == Spec /\ Fairness

-----------------------------------------------------------------------------
ExecutionState == {"Stopped", "Starting", "Started", "Stopping"}

\* Every variable has the type of the member or queue it stands for.
TypeOK ==
    /\ ThreadTypeOK
    /\ hasServer \in BOOLEAN
    /\ serverState \in ExecutionState
    /\ pendingStop \in BOOLEAN
    /\ hasFailed \in BOOLEAN
    /\ asyncState \in [Workers -> ExecutionState]
    /\ asyncPendingStop \in [Workers -> BOOLEAN]
    /\ joining \in BOOLEAN
    /\ usesReleased \in BOOLEAN
    /\ signal \in {"none", "started", "stopped", "failed"}

\* The shared counter is the number of handlers alive in all threads plus the
\* decrements still owed: no path through accepting, rejecting, finishing,
\* stopping and restarting counts a connection twice or forgets to uncount it.
CountExact ==
    connectionCount = Cardinality(LiveHandlers) + Cardinality({w \in Workers : owes[w]})

\* However the workers' checks interleave, there are never more handlers than
\* the MaxConnectionCount option allows (ServerWorkerImpl::onNewConnection).
LiveWithinLimit ==
    MaxConnectionCount > 0 => Cardinality(LiveHandlers) <= MaxConnectionCount

\* When the main thread believes the server is Started, every worker thread
\* has really started: its listener listens or a stop is on its way to it.
StartedMeansListening ==
    hasServer /\ serverState = "Started" =>
        \A w \in Workers : listening[w] /\ implState[w] = "Started"

\* m_workers.clear() never destroys a worker that still has a handler, a
\* listener, or a signal or a call on its way (Server::processStoppingServerWorkers).
JoinsOnlyDrainedWorkers ==
    joining => \A w \in Workers : /\ Handlers(w) = {} /\ ~listening[w]
                                  /\ inbox[w] = {} /\ outbox[w] = <<>>

\* After stopped() or failed() nothing of the server is left: no handler, no
\* running event handler, and a counter from which a restart counts correctly.
StoppedMeansQuiet ==
    ~hasServer => /\ LiveHandlers = {}
                  /\ connectionCount = 0
                  /\ \A w \in Workers : Idle(w) /\ ~listening[w]

-----------------------------------------------------------------------------
(***************************************************************************)
(* The inductive invariant behind the safety properties: which worker, at  *)
(* which point of its life, may stand opposite which AsyncServerWorker.    *)
(***************************************************************************)
\* The worker in the thread has started and has not been asked to stop.
Running(w) ==
    /\ implState[w] = "Started"
    /\ listening[w]
    /\ hasAlreadyStarted[w]
    /\ ~repoStopping[w]
    /\ todo[w] = {}

\* It has no listener and no connection in its hands.
Detached(w) ==
    /\ ~listening[w]
    /\ accepted[w] = <<>>
    /\ ~hasQueuedSlotCall[w]
    /\ batch[w] = <<>>

\* It has not started, or has stopped; a decrement may still be owed.
Drained(w) ==
    /\ implState[w] = "Stopped"
    /\ Detached(w)
    /\ todo[w] = {}
    /\ Handlers(w) = {}

WhileStarting(w) ==
    \/ /\ inbox[w] = {"start"} /\ outbox[w] = <<>>
       /\ Drained(w) /\ ~hasAlreadyStarted[w] /\ ~repoStopping[w]
    \/ inbox[w] \subseteq {"process"} /\ outbox[w] = <<"started">> /\ Running(w)
    \/ inbox[w] = {} /\ outbox[w] = <<"failed">> /\ Drained(w)

WhileStarted(w) ==
    inbox[w] \subseteq {"process"} /\ outbox[w] = <<>> /\ Running(w)

WhileStopping(w) ==
    \/ /\ "stop" \in inbox[w] /\ "start" \notin inbox[w]
       /\ outbox[w] = <<>> /\ Running(w)
    \/ /\ inbox[w] = {} /\ outbox[w] = <<>>
       /\ implState[w] = "Stopping" /\ repoStopping[w] /\ Detached(w)
       /\ Handlers(w) # {} /\ todo[w] \subseteq Handlers(w)
    \/ inbox[w] = {} /\ outbox[w] = <<"stopped">> /\ Drained(w)

WhileStopped(w) == inbox[w] = {} /\ outbox[w] = <<>> /\ Drained(w)

\* What an AsyncServerWorker believes of its thread is what the thread does, up
\* to the one message that is on its way between them.
Agrees(w) ==
    /\ asyncState[w] = "Starting" => WhileStarting(w)
    /\ asyncState[w] = "Started" => WhileStarted(w)
    /\ asyncState[w] = "Stopping" => WhileStopping(w)
    /\ asyncState[w] = "Stopped" => WhileStopped(w)
    /\ ~asyncPendingStop[w]

WorkersAgree == \A w \in Workers : Agrees(w)

\* What the server believes of its workers.
ServerAgrees ==
    /\ hasServer /\ serverState = "Starting" =>
           \A w \in Workers : /\ asyncState[w] # "Stopping"
                              /\ asyncState[w] = "Stopped" => hasFailed
    /\ hasServer /\ serverState = "Started" =>
           \A w \in Workers : asyncState[w] = "Started"
    /\ hasServer /\ serverState = "Stopping" =>
           \A w \in Workers : asyncState[w] \in {"Stopping", "Stopped"}
    /\ hasServer /\ serverState = "Stopped" => joining
    /\ joining => hasServer /\ serverState = "Stopped"
    /\ joining \/ ~hasServer => \A w \in Workers : asyncState[w] = "Stopped"
    /\ ~hasServer => connectionCount = 0 /\ \A w \in Workers : ~owes[w]

\* The sequence q holds accepted, open descriptors of worker w, each one once.
HoldsAccepted(q, w) ==
    /\ \A i \in 1..Len(q) : conn[q[i]] = "accepted" /\ owner[q[i]] = w
    /\ \A i, j \in 1..Len(q) : i # j => q[i] # q[j]

QueuesExact ==
    \A w \in Workers :
        /\ HoldsAccepted(accepted[w], w)
        /\ HoldsAccepted(batch[w], w)
        /\ batch[w] = <<>> \/ accepted[w] = <<>>

\* Every handler belongs to the worker that accepted its connection.
OwnersKnown == \A c \in LiveHandlers : owner[c] \in Workers

\* The threads, their queues and the main thread agree on every worker's life,
\* so that no message finds its receiver in a state it is not meant for.
ProtocolInvariant == TypeOK /\ WorkersAgree /\ ServerAgrees /\ QueuesExact

-----------------------------------------------------------------------------
\* A connection was aborted in its TLS handshake (TlsSocketPrivate::disconnectFromPeer):
\* it emits nothing, and a stop that waits for its handler waits in vain.
SilentAbort == \E c \in Conns : conn[c] = "aborted"

\* start() is always answered by started(), stopped() or failed(), unless a silent
\* abort keeps a worker of a failed start from stopping.
StartAnswered == hasServer ~> (signal # "none" \/ SilentAbort)

\* A stop, requested while the server starts or runs, or following a failed worker, is
\* always answered by stopped() or failed(), with the server released, unless a silent
\* abort keeps a worker from stopping: no other order of the threads' events makes a
\* stop wait for ever.
StopCompletesUnlessAborted ==
    (hasServer /\ (pendingStop \/ serverState = "Stopping")) ~> (~hasServer \/ SilentAbort)

-----------------------------------------------------------------------------
\* What HttpServer promises its user about its signals.
Contract == INSTANCE ServerContract WITH
    phase <- IF ~hasServer THEN "Stopped" ELSE IF joining THEN "Stopping" ELSE serverState,
    stopRequested <- hasServer /\ pendingStop,
    failed <- hasServer /\ hasFailed

\* The server, with its threads and queues, implements the contract.
ImplementsContract == Contract!Spec
=============================================================================
