-------------------------- MODULE HttpServerProofs --------------------------
(***************************************************************************)
(* The safety properties of HttpServer for every number of workers, set of *)
(* connections and limit, TLS or not, whatever constructors may throw; and *)
(* those of the repository in which a worker keeps its handlers, for any   *)
(* set of them: its list stays exact, and its walk goes on with a member,  *)
(* whoever finishes.                                                       *)
(***************************************************************************)
EXTENDS HttpServer, ConnectionHandlerRepository, FiniteSetTheorems, WellFoundedInduction, TLAPS

\* The server starts from a state of the invariant.
LEMMA InitInvariant == Init => ProtocolInvariant
<1> SUFFICES ASSUME Init PROVE ProtocolInvariant
  OBVIOUS
<1> USE DEF Init, InitThreads, FreshThreads
<1>1. TypeOK
  <2>1. ThreadTypeOK
    BY DEF ThreadTypeOK, ConnStates
  <2>2. QED
    BY <2>1 DEF TypeOK, ExecutionState
<1>2. WorkersAgree
  BY DEF WorkersAgree, Agrees, WhileStopped, Drained, Detached, Handlers, HandledStates
<1>3. ServerAgrees
  BY DEF ServerAgrees
<1>4. QueuesExact
  BY DEF QueuesExact, HoldsAccepted
<1>5. QED
  BY <1>1, <1>2, <1>3, <1>4 DEF ProtocolInvariant

-----------------------------------------------------------------------------
\* Queuing one more signal keeps the type of a family of queues.
LEMMA AppendTyped ==
  ASSUME NEW S, NEW f \in [Workers -> Seq(S)], NEW w \in Workers, NEW s \in S
  PROVE  [f EXCEPT ![w] = Append(@, s)] \in [Workers -> Seq(S)]
  OBVIOUS

\* A step that may emit stopped() keeps the type of the queues of signals.
LEMMA StoppedTyped ==
  ASSUME ThreadTypeOK, NEW w \in Workers,
         outbox' = [outbox EXCEPT ![w] = Append(@, "stopped")] \/ outbox' = outbox
  PROVE  outbox' \in [Workers -> Seq({"started", "stopped", "failed"})]
<1> DEFINE S == {"started", "stopped", "failed"}
<1>1. outbox \in [Workers -> Seq(S)] /\ "stopped" \in S
  BY DEF ThreadTypeOK
<1> HIDE DEF S
<1>2. [outbox EXCEPT ![w] = Append(@, "stopped")] \in [Workers -> Seq(S)]
  BY <1>1, AppendTyped
<1>3. outbox' \in [Workers -> Seq(S)]
  BY <1>1, <1>2
<1>4. QED
  BY <1>3 DEF S

\* What a step leaves alone in a worker, its handlers included.
SameWorker(v) ==
    /\ inbox'[v] = inbox[v]
    /\ outbox'[v] = outbox[v]
    /\ implState'[v] = implState[v]
    /\ hasAlreadyStarted'[v] = hasAlreadyStarted[v]
    /\ listening'[v] = listening[v]
    /\ accepted'[v] = accepted[v]
    /\ hasQueuedSlotCall'[v] = hasQueuedSlotCall[v]
    /\ batch'[v] = batch[v]
    /\ todo'[v] = todo[v]
    /\ repoStopping'[v] = repoStopping[v]
    /\ Handlers(v)' = Handlers(v)

\* A worker that a step leaves alone stays in agreement with its AsyncServerWorker.
LEMMA SameWorkerAgrees ==
  ASSUME NEW v \in Workers, Agrees(v), SameWorker(v),
         asyncState'[v] = asyncState[v], asyncPendingStop'[v] = asyncPendingStop[v]
  PROVE  Agrees(v)'
  BY DEF Agrees, SameWorker, WhileStarting, WhileStarted, WhileStopping, WhileStopped,
         Running, Drained, Detached

\* A step that keeps the queues and every accepted descriptor keeps QueuesExact.
LEMMA QueuesKept ==
  ASSUME QueuesExact, UNCHANGED <<accepted, batch>>, ThreadTypeOK,
         \A c \in Conns : conn[c] = "accepted" =>
             conn'[c] = "accepted" /\ owner'[c] = owner[c]
  PROVE  QueuesExact'
<1> SUFFICES ASSUME NEW v \in Workers
             PROVE  /\ HoldsAccepted(accepted[v], v)'
                    /\ HoldsAccepted(batch[v], v)'
                    /\ (batch[v] = <<>> \/ accepted[v] = <<>>)'
  BY DEF QueuesExact
<1>1. accepted[v] \in Seq(Conns) /\ batch[v] \in Seq(Conns)
  BY DEF ThreadTypeOK
<1>2. HoldsAccepted(accepted[v], v) /\ HoldsAccepted(batch[v], v)
  BY DEF QueuesExact
<1>3. QED
  BY <1>1, <1>2 DEF HoldsAccepted, QueuesExact

-----------------------------------------------------------------------------
\* The steps of a worker thread, one lemma each.
LEMMA StartWorkerInvariant ==
  ASSUME ProtocolInvariant, NEW w \in Workers, StartWorker(w), UNCHANGED mainVars
  PROVE  ProtocolInvariant'
<1> USE DEF mainVars
<1>0. TypeOK /\ ThreadTypeOK /\ WorkersAgree /\ ServerAgrees /\ QueuesExact
  BY DEF ProtocolInvariant, TypeOK
<1>1. /\ asyncState[w] = "Starting" /\ inbox[w] = {"start"} /\ outbox[w] = <<>>
      /\ Drained(w) /\ ~hasAlreadyStarted[w] /\ ~repoStopping[w] /\ ~asyncPendingStop[w]
  BY <1>0 DEF WorkersAgree, Agrees, StartWorker, Takes, TypeOK, ExecutionState, WhileStarting,
         WhileStarted, WhileStopping, WhileStopped
<1>2. PICK s \in {"started", "failed"} :
         /\ outbox' = [outbox EXCEPT ![w] = Append(@, s)]
         /\ implState' = IF s = "started" THEN [implState EXCEPT ![w] = "Started"] ELSE implState
         /\ listening' = IF s = "started" THEN [listening EXCEPT ![w] = TRUE] ELSE listening
  BY <1>0, <1>1 DEF StartWorker, Emit, ThreadTypeOK
<1>3. Append(<<>>, s) = <<s>>
  OBVIOUS
<1>4. outbox'[w] = <<s>>
  BY <1>0, <1>1, <1>2, <1>3 DEF ThreadTypeOK
<1>5. \A v \in Workers \ {w} : SameWorker(v)
  BY <1>0, <1>2 DEF StartWorker, SameWorker, Handlers, ThreadTypeOK
<1>6. Agrees(w)'
  BY <1>0, <1>1, <1>2, <1>4 DEF StartWorker, Agrees, WhileStarting, Running, Drained, Detached, Handlers, ThreadTypeOK
<1>7. WorkersAgree'
  BY <1>0, <1>5, <1>6, SameWorkerAgrees DEF WorkersAgree
<1>8. TypeOK'
  <2>1. outbox' \in [Workers -> Seq({"started", "stopped", "failed"})]
    BY <1>0, <1>2 DEF ThreadTypeOK
  <2>2. implState' \in [Workers -> {"Stopped", "Started", "Stopping"}] /\ listening' \in [Workers -> BOOLEAN]
    BY <1>0, <1>2 DEF ThreadTypeOK
  <2>3. QED
    BY <1>0, <2>1, <2>2 DEF TypeOK, ThreadTypeOK, StartWorker
<1>9. ServerAgrees'
  BY <1>0 DEF ServerAgrees, StartWorker
<1>10. QueuesExact'
  BY <1>0, QueuesKept DEF StartWorker
<1>11. QED
  BY <1>7, <1>8, <1>9, <1>10 DEF ProtocolInvariant

\* A step of the handler on c: either it finishes, or it stays with its socket in
\* another state.  It leaves the todo list if the repository is working on it.
LEMMA HandlerStepInvariant ==
  ASSUME ProtocolInvariant, NEW w \in Workers, NEW c \in Handlers(w),
         \/ HandlerFinishes(w, c)
         \/ \E s \in HandledStates : /\ conn' = [conn EXCEPT ![c] = s]
                                    /\ UNCHANGED <<owner, owes, implState, outbox>>,
         todo' = [todo EXCEPT ![w] = @ \ {c}],
         UNCHANGED <<inbox, hasAlreadyStarted, listening, accepted, hasQueuedSlotCall,
                     batch, repoStopping, connectionCount, mainVars>>
  PROVE  ProtocolInvariant'
<1> USE DEF mainVars
<1>0. TypeOK /\ ThreadTypeOK /\ WorkersAgree /\ ServerAgrees /\ QueuesExact
  BY DEF ProtocolInvariant, TypeOK
<1>1. c \in Conns /\ owner[c] = w /\ conn[c] \in HandledStates
  BY DEF Handlers
<1>2. /\ asyncState[w] # "Stopped" /\ ~Drained(w) /\ ~asyncPendingStop[w]
      /\ \/ Running(w) /\ outbox[w] \in {<<>>, <<"started">>}
         \/ asyncState[w] = "Stopping" /\ outbox[w] = <<>> /\ repoStopping[w]
  BY <1>0 DEF WorkersAgree, Agrees, TypeOK, ExecutionState, WhileStarting, WhileStarted,
              WhileStopping, WhileStopped, Drained
<1>3. CASE HandlerFinishes(w, c)
  <2>1. /\ conn' = [conn EXCEPT ![c] = "free"]
        /\ owner' = [owner EXCEPT ![c] = 0]
        /\ owes' = [owes EXCEPT ![w] = TRUE]
    BY <1>3 DEF HandlerFinishes, Released, OweDecrement
  <2>2. Handlers(w)' = Handlers(w) \ {c}
    BY <1>0, <1>1, <2>1 DEF Handlers, HandledStates, ThreadTypeOK
  <2>3. \A v \in Workers \ {w} : Handlers(v)' = Handlers(v)
    BY <1>0, <1>1, <2>1 DEF Handlers, HandledStates, ThreadTypeOK, Workers
  <2>4. \/ /\ repoStopping[w] /\ Handlers(w) = {c}
           /\ implState' = [implState EXCEPT ![w] = "Stopped"]
           /\ outbox' = [outbox EXCEPT ![w] = Append(@, "stopped")]
        \/ /\ ~(repoStopping[w] /\ Handlers(w) = {c})
           /\ UNCHANGED <<implState, outbox>>
    BY <1>3 DEF HandlerFinishes, IsLast, RepositoryStops, Emit
  <2>5. \A v \in Workers \ {w} : SameWorker(v)
    BY <1>0, <2>3, <2>4 DEF SameWorker, ThreadTypeOK
  <2>6. Append(<<>>, "stopped") = <<"stopped">>
    OBVIOUS
  <2>7. Agrees(w)'
    <3>1. CASE Running(w)
      <4>1. outbox' = outbox /\ implState' = implState /\ todo'[w] = {}
        BY <1>0, <2>4, <3>1 DEF Running, ThreadTypeOK
      <4>2. QED
        BY <1>0, <1>2, <3>1, <4>1 DEF WorkersAgree, Agrees, Running, WhileStarting,
           WhileStarted, WhileStopping, WhileStopped, Drained
    <3>2. CASE ~Running(w)
      <4>1. /\ inbox[w] = {} /\ implState[w] = "Stopping" /\ Detached(w)
            /\ todo[w] \subseteq Handlers(w)
        BY <1>0, <1>2, <3>2 DEF WorkersAgree, Agrees, WhileStopping, Drained
      <4>2. todo'[w] = todo[w] \ {c}
        BY <1>0 DEF ThreadTypeOK
      <4>3. CASE Handlers(w) = {c}
        <5>1. outbox'[w] = <<"stopped">> /\ implState'[w] = "Stopped"
          BY <1>0, <1>2, <2>4, <2>6, <3>2, <4>3 DEF ThreadTypeOK
        <5>2. Drained(w)'
          BY <2>2, <4>1, <4>2, <4>3, <5>1 DEF Drained, Detached
        <5>3. QED
          BY <1>2, <3>2, <4>1, <5>1, <5>2 DEF Agrees, WhileStopping
      <4>4. CASE Handlers(w) # {c}
        <5>1. Handlers(w)' # {}
          BY <2>2, <4>4
        <5>2. QED
          BY <1>2, <2>2, <2>4, <3>2, <4>1, <4>2, <4>4, <5>1
             DEF Agrees, WhileStopping, Detached
      <4>5. QED
        BY <4>3, <4>4
    <3>3. QED
      BY <3>1, <3>2
  <2>8. WorkersAgree'
    BY <1>0, <2>5, <2>7, SameWorkerAgrees DEF WorkersAgree
  <2>9. TypeOK'
    <3>1. conn' \in [Conns -> ConnStates] /\ owner' \in [Conns -> Workers \cup {0}]
      BY <1>0, <2>1 DEF ThreadTypeOK, ConnStates
    <3>2. outbox' \in [Workers -> Seq({"started", "stopped", "failed"})]
      BY <1>0, <2>4, StoppedTyped
    <3>3. /\ implState' \in [Workers -> {"Stopped", "Started", "Stopping"}]
          /\ owes' \in [Workers -> BOOLEAN] /\ todo' \in [Workers -> SUBSET Conns]
      BY <1>0, <2>1, <2>4 DEF ThreadTypeOK
    <3>4. QED
      BY <1>0, <3>1, <3>2, <3>3 DEF TypeOK, ThreadTypeOK
  <2>10. ServerAgrees'
    BY <1>0, <1>2 DEF ServerAgrees
  <2>11. QueuesExact'
    BY <1>0, <1>1, <2>1, QueuesKept DEF HandledStates, ThreadTypeOK
  <2>12. QED
    BY <2>8, <2>9, <2>10, <2>11 DEF ProtocolInvariant
<1>4. CASE \E s \in HandledStates : /\ conn' = [conn EXCEPT ![c] = s]
                                   /\ UNCHANGED <<owner, owes, implState, outbox>>
  <2>1. PICK s \in HandledStates : /\ conn' = [conn EXCEPT ![c] = s]
                                  /\ UNCHANGED <<owner, owes, implState, outbox>>
    BY <1>4
  <2>2. \A v \in Workers : Handlers(v)' = Handlers(v)
    BY <1>0, <1>1, <2>1 DEF Handlers, ThreadTypeOK
  <2>3. \A v \in Workers \ {w} : SameWorker(v)
    BY <1>0, <2>1, <2>2 DEF SameWorker, ThreadTypeOK
  <2>4. todo'[w] = todo[w] \ {c} /\ Handlers(w) # {}
    BY <1>0 DEF ThreadTypeOK
  <2>5. Agrees(w)'
    BY <1>0, <1>2, <2>1, <2>2, <2>4 DEF WorkersAgree, Agrees, WhileStarting, WhileStarted,
       WhileStopping, WhileStopped, Running, Drained, Detached
  <2>6. WorkersAgree'
    BY <1>0, <2>3, <2>5, SameWorkerAgrees DEF WorkersAgree
  <2>7. TypeOK'
    <3>1. conn' \in [Conns -> ConnStates] /\ todo' \in [Workers -> SUBSET Conns]
      BY <1>0, <2>1 DEF ThreadTypeOK, ConnStates
    <3>2. QED
      BY <1>0, <2>1, <3>1 DEF TypeOK, ThreadTypeOK
  <2>8. ServerAgrees'
    BY <1>0, <2>1 DEF ServerAgrees
  <2>9. QueuesExact'
    BY <1>0, <1>1, <2>1, QueuesKept DEF HandledStates, ThreadTypeOK
  <2>10. QED
    BY <2>6, <2>7, <2>8, <2>9 DEF ProtocolInvariant
<1>5. QED
  BY <1>3, <1>4

LEMMA IncomingConnectionInvariant ==
  ASSUME ProtocolInvariant, NEW w \in Workers, NEW c \in Conns,
         IncomingConnection(w, c), UNCHANGED mainVars
  PROVE  ProtocolInvariant'
<1> USE DEF mainVars
<1>0. TypeOK /\ ThreadTypeOK /\ WorkersAgree /\ ServerAgrees /\ QueuesExact
  BY DEF ProtocolInvariant, TypeOK
<1>1. /\ Running(w) /\ ~asyncPendingStop[w] /\ batch[w] = <<>> /\ conn[c] = "free"
      /\ asyncState[w] # "Stopped"
  BY <1>0 DEF WorkersAgree, Agrees, TypeOK, ExecutionState, WhileStarting, WhileStarted,
              WhileStopping, WhileStopped, Drained, Detached, IncomingConnection, Idle
<1>2. /\ conn' = [conn EXCEPT ![c] = "accepted"]
      /\ owner' = [owner EXCEPT ![c] = w]
      /\ accepted' = [accepted EXCEPT ![w] = Append(@, c)]
      /\ UNCHANGED <<outbox, implState, hasAlreadyStarted, listening, batch, todo,
                     owes, repoStopping, connectionCount>>
  BY DEF IncomingConnection
<1>3. inbox' \in [Workers -> SUBSET {"start", "stop", "process"}]
  BY <1>0 DEF IncomingConnection, ThreadTypeOK
<1>4. /\ inbox'[w] \subseteq inbox[w] \cup {"process"} /\ inbox[w] \subseteq inbox'[w]
      /\ \A v \in Workers \ {w} : inbox'[v] = inbox[v]
  BY <1>0 DEF IncomingConnection, ThreadTypeOK
<1>5. \A v \in Workers \ {w} : SameWorker(v)
  <2>1. \A v \in Workers \ {w} : Handlers(v)' = Handlers(v)
    BY <1>0, <1>1, <1>2 DEF Handlers, HandledStates, ThreadTypeOK
  <2>2. \A v \in Workers \ {w} : hasQueuedSlotCall'[v] = hasQueuedSlotCall[v]
    BY <1>0 DEF IncomingConnection, ThreadTypeOK
  <2>3. QED
    BY <1>0, <1>2, <1>4, <2>1, <2>2 DEF SameWorker, ThreadTypeOK
<1>6. Agrees(w)'
  <2>1. Running(w)'
    BY <1>1, <1>2 DEF Running
  <2>2. QED
    BY <1>0, <1>1, <1>2, <1>4, <2>1 DEF WorkersAgree, Agrees, WhileStarting, WhileStarted,
       WhileStopping, Running, Drained
<1>7. WorkersAgree'
  BY <1>0, <1>5, <1>6, SameWorkerAgrees DEF WorkersAgree
<1>8. TypeOK'
  <2>1. conn' \in [Conns -> ConnStates] /\ owner' \in [Conns -> Workers \cup {0}]
    BY <1>0, <1>2 DEF ThreadTypeOK, ConnStates
  <2>2. accepted' \in [Workers -> Seq(Conns)]
    BY <1>0, <1>2, AppendTyped DEF ThreadTypeOK
  <2>3. hasQueuedSlotCall' \in [Workers -> BOOLEAN]
    BY <1>0 DEF IncomingConnection, ThreadTypeOK
  <2>4. QED
    BY <1>0, <1>2, <1>3, <2>1, <2>2, <2>3 DEF TypeOK, ThreadTypeOK
<1>9. ServerAgrees'
  BY <1>0, <1>2 DEF ServerAgrees
<1>10. QueuesExact'
  <2> SUFFICES ASSUME NEW v \in Workers
               PROVE  /\ HoldsAccepted(accepted[v], v)'
                      /\ HoldsAccepted(batch[v], v)'
                      /\ (batch[v] = <<>> \/ accepted[v] = <<>>)'
    BY DEF QueuesExact
  <2>1. /\ accepted[v] \in Seq(Conns) /\ batch[v] \in Seq(Conns)
        /\ HoldsAccepted(accepted[v], v) /\ HoldsAccepted(batch[v], v)
        /\ batch[v] = <<>> \/ accepted[v] = <<>>
    BY <1>0 DEF ThreadTypeOK, QueuesExact
  <2>2. HoldsAccepted(batch[v], v)'
    BY <1>0, <1>1, <1>2, <2>1 DEF HoldsAccepted, ThreadTypeOK
  <2>3. CASE v # w
    <3>1. accepted'[v] = accepted[v]
      BY <1>0, <1>2, <2>3 DEF ThreadTypeOK
    <3>2. QED
      BY <1>0, <1>1, <1>2, <2>1, <2>2, <3>1 DEF HoldsAccepted, ThreadTypeOK
  <2>4. CASE v = w
    <3>1. accepted'[w] = Append(accepted[w], c)
      BY <1>0, <1>2 DEF ThreadTypeOK
    <3>2. HoldsAccepted(accepted[w], w)'
      BY <1>0, <1>1, <1>2, <2>1, <2>4, <3>1 DEF HoldsAccepted, ThreadTypeOK
    <3>3. QED
      BY <1>1, <1>2, <2>2, <2>4, <3>2
  <2>5. QED
    BY <2>3, <2>4
<1>11. QED
  BY <1>7, <1>8, <1>9, <1>10 DEF ProtocolInvariant

LEMMA ProcessConnectionsInvariant ==
  ASSUME ProtocolInvariant, NEW w \in Workers, ProcessConnections(w), UNCHANGED mainVars
  PROVE  ProtocolInvariant'
<1> USE DEF mainVars
<1>0. TypeOK /\ ThreadTypeOK /\ WorkersAgree /\ ServerAgrees /\ QueuesExact
  BY DEF ProtocolInvariant, TypeOK
<1>1. /\ Running(w) /\ ~asyncPendingStop[w] /\ "process" \in inbox[w]
      /\ asyncState[w] # "Stopped"
  BY <1>0 DEF WorkersAgree, Agrees, TypeOK, ExecutionState, WhileStarting, WhileStarted,
              WhileStopping, WhileStopped, ProcessConnections, Takes
<1>2. \A v \in Workers : Handlers(v)' = Handlers(v)
  BY DEF Handlers, ProcessConnections
<1>3. \A v \in Workers \ {w} : SameWorker(v)
  BY <1>0, <1>2 DEF SameWorker, ThreadTypeOK, ProcessConnections
<1>4. Agrees(w)'
  <2>1. Running(w)'
    BY <1>1 DEF Running, ProcessConnections
  <2>2. inbox'[w] = inbox[w] \ {"process"} /\ outbox'[w] = outbox[w]
    BY <1>0 DEF ThreadTypeOK, ProcessConnections
  <2>3. QED
    BY <1>0, <1>1, <2>1, <2>2 DEF WorkersAgree, Agrees, WhileStarting, WhileStarted,
       WhileStopping, Running, Drained
<1>5. WorkersAgree'
  BY <1>0, <1>3, <1>4, SameWorkerAgrees DEF WorkersAgree
<1>6. TypeOK'
  BY <1>0 DEF TypeOK, ThreadTypeOK, ProcessConnections
<1>7. ServerAgrees'
  BY <1>0 DEF ServerAgrees, ProcessConnections
<1>8. QueuesExact'
  BY <1>0 DEF QueuesExact, HoldsAccepted, ThreadTypeOK, ProcessConnections
<1>9. QED
  BY <1>5, <1>6, <1>7, <1>8 DEF ProtocolInvariant

LEMMA DecrementCountInvariant ==
  ASSUME ProtocolInvariant, NEW w \in Workers, DecrementCount(w), UNCHANGED mainVars
  PROVE  ProtocolInvariant'
<1> USE DEF mainVars
<1>0. TypeOK /\ ThreadTypeOK /\ WorkersAgree /\ ServerAgrees /\ QueuesExact
  BY DEF ProtocolInvariant, TypeOK
<1>1. \A v \in Workers : SameWorker(v)
  BY DEF SameWorker, Handlers, DecrementCount
<1>2. WorkersAgree'
  BY <1>0, <1>1, SameWorkerAgrees DEF WorkersAgree
<1>3. TypeOK'
  BY <1>0 DEF TypeOK, ThreadTypeOK, DecrementCount
<1>4. ServerAgrees'
  BY <1>0 DEF ServerAgrees, DecrementCount
<1>5. QueuesExact'
  BY <1>0, QueuesKept DEF DecrementCount
<1>6. QED
  BY <1>2, <1>3, <1>4, <1>5 DEF ProtocolInvariant

LEMMA AnnounceConnectionInvariant ==
  ASSUME ProtocolInvariant, NEW w \in Workers, AnnounceConnection(w), UNCHANGED mainVars
  PROVE  ProtocolInvariant'
<1> USE DEF mainVars
<1>0. TypeOK /\ ThreadTypeOK /\ WorkersAgree /\ ServerAgrees /\ QueuesExact
  BY DEF ProtocolInvariant, TypeOK
<1>1. /\ Running(w) /\ ~asyncPendingStop[w] /\ asyncState[w] # "Stopped"
  BY <1>0 DEF WorkersAgree, Agrees, TypeOK, ExecutionState, WhileStarting, WhileStarted,
              WhileStopping, WhileStopped, AnnounceConnection, Drained, Detached
<1> DEFINE c == Head(batch[w])
<1>2. /\ batch[w] \in Seq(Conns) /\ batch[w] # <<>> /\ accepted[w] = <<>>
      /\ HoldsAccepted(batch[w], w)
  BY <1>0 DEF AnnounceConnection, ThreadTypeOK, QueuesExact
<1>3. c \in Conns /\ conn[c] = "accepted" /\ owner[c] = w
  BY <1>2 DEF HoldsAccepted
<1>4. /\ batch' = [batch EXCEPT ![w] = Tail(@)]
      /\ connectionCount' = connectionCount + 1
      /\ UNCHANGED <<inbox, outbox, implState, hasAlreadyStarted, listening, accepted,
                     hasQueuedSlotCall, todo, repoStopping>>
  BY DEF AnnounceConnection
<1>5. PICK s \in HandledStates \cup {"free"} :
         /\ conn' = [conn EXCEPT ![c] = s]
         /\ owner' = owner \/ owner' = [owner EXCEPT ![c] = 0]
  BY DEF AnnounceConnection, Released, HandledStates
<1>6. \A v \in Workers \ {w} : SameWorker(v)
  <2>1. \A v \in Workers \ {w} : Handlers(v)' = Handlers(v)
    <3>1. 0 \notin Workers
      BY DEF Workers
    <3>2. QED
      BY <1>0, <1>3, <1>5, <3>1 DEF Handlers, HandledStates, ThreadTypeOK
  <2>2. QED
    BY <1>0, <1>4, <2>1 DEF SameWorker, ThreadTypeOK
<1>7. Agrees(w)'
  <2>1. Running(w)'
    BY <1>1, <1>4 DEF Running
  <2>2. QED
    BY <1>0, <1>1, <1>4, <2>1 DEF WorkersAgree, Agrees, WhileStarting, WhileStarted,
       WhileStopping, Running, Drained
<1>8. WorkersAgree'
  BY <1>0, <1>6, <1>7, SameWorkerAgrees DEF WorkersAgree
<1>9. TypeOK'
  <2>1. conn' \in [Conns -> ConnStates] /\ owner' \in [Conns -> Workers \cup {0}]
    BY <1>0, <1>3, <1>5 DEF ThreadTypeOK, ConnStates
  <2>2. batch' \in [Workers -> Seq(Conns)]
    <3>1. Tail(batch[w]) \in Seq(Conns)
      BY <1>2
    <3>2. QED
      BY <1>0, <1>4, <3>1 DEF ThreadTypeOK
  <2>3. owes' \in [Workers -> BOOLEAN]
    BY <1>0 DEF AnnounceConnection, OweDecrement, ThreadTypeOK
  <2>4. connectionCount' \in Int
    BY <1>0, <1>4 DEF ThreadTypeOK
  <2>5. QED
    BY <1>0, <1>4, <2>1, <2>2, <2>3, <2>4 DEF TypeOK, ThreadTypeOK
<1>10. ServerAgrees'
  BY <1>0, <1>1, <1>4 DEF ServerAgrees
<1>11. QueuesExact'
  <2> SUFFICES ASSUME NEW v \in Workers
               PROVE  /\ HoldsAccepted(accepted[v], v)'
                      /\ HoldsAccepted(batch[v], v)'
                      /\ (batch[v] = <<>> \/ accepted[v] = <<>>)'
    BY DEF QueuesExact
  <2>1. /\ accepted[v] \in Seq(Conns) /\ batch[v] \in Seq(Conns)
        /\ HoldsAccepted(accepted[v], v) /\ HoldsAccepted(batch[v], v)
        /\ batch[v] = <<>> \/ accepted[v] = <<>>
    BY <1>0 DEF ThreadTypeOK, QueuesExact
  <2>2. \A d \in Conns : d # c => conn'[d] = conn[d] /\ owner'[d] = owner[d]
    BY <1>0, <1>3, <1>5 DEF ThreadTypeOK
  <2>3. CASE v # w
    <3>1. accepted'[v] = accepted[v] /\ batch'[v] = batch[v]
      BY <1>0, <1>4, <2>3 DEF ThreadTypeOK
    <3>2. QED
      BY <1>3, <2>1, <2>2, <2>3, <3>1 DEF HoldsAccepted
  <2>4. CASE v = w
    <3>1. accepted'[w] = <<>> /\ batch'[w] = Tail(batch[w])
      BY <1>0, <1>2, <1>4 DEF ThreadTypeOK
    <3>2. \A i \in 1..Len(Tail(batch[w])) :
             /\ i + 1 \in 2..Len(batch[w]) /\ Tail(batch[w])[i] = batch[w][i + 1]
      BY <1>2
    <3>3. \A i \in 2..Len(batch[w]) : batch[w][i] \in Conns /\ batch[w][i] # c
      BY <1>2 DEF HoldsAccepted
    <3>4. HoldsAccepted(batch[w], w)'
      <4>1. Len(Tail(batch[w])) \in Nat
        BY <1>2
      <4>2. \A i \in 1..Len(batch'[w]) : conn'[batch'[w][i]] = "accepted" /\ owner'[batch'[w][i]] = w
        BY <1>2, <2>2, <3>1, <3>2, <3>3 DEF HoldsAccepted
      <4>3. \A i, j \in 1..Len(batch'[w]) : i # j => batch'[w][i] # batch'[w][j]
        BY <1>2, <3>1, <3>2 DEF HoldsAccepted
      <4>4. QED
        BY <4>2, <4>3 DEF HoldsAccepted
    <3>5. QED
      BY <2>4, <3>1, <3>4 DEF HoldsAccepted
  <2>5. QED
    BY <2>3, <2>4
<1>12. QED
  BY <1>8, <1>9, <1>10, <1>11 DEF ProtocolInvariant

LEMMA StopWorkerInvariant ==
  ASSUME ProtocolInvariant, NEW w \in Workers, StopWorker(w), UNCHANGED mainVars
  PROVE  ProtocolInvariant'
<1> USE DEF mainVars
<1>0. TypeOK /\ ThreadTypeOK /\ WorkersAgree /\ ServerAgrees /\ QueuesExact
  BY DEF ProtocolInvariant, TypeOK
<1>1. /\ Running(w) /\ ~asyncPendingStop[w] /\ asyncState[w] = "Stopping"
      /\ outbox[w] = <<>> /\ "start" \notin inbox[w] /\ batch[w] = <<>>
  BY <1>0 DEF WorkersAgree, Agrees, TypeOK, ExecutionState, WhileStarting, WhileStarted,
              WhileStopping, WhileStopped, StopWorker, Takes, Idle
<1>2. /\ DestroyListener(w)
      /\ repoStopping' = [repoStopping EXCEPT ![w] = TRUE]
      /\ todo' = [todo EXCEPT ![w] = Handlers(w)]
      /\ UNCHANGED <<hasAlreadyStarted, batch, owes, owner, connectionCount>>
      /\ \/ /\ Handlers(w) = {}
            /\ implState' = [implState EXCEPT ![w] = "Stopped"]
            /\ outbox' = [outbox EXCEPT ![w] = Append(@, "stopped")]
         \/ /\ Handlers(w) # {}
            /\ implState' = [implState EXCEPT ![w] = "Stopping"]
            /\ UNCHANGED outbox
  BY <1>1 DEF StopWorker, Running, RepositoryStops, Emit
<1>3. \A v \in Workers : Handlers(v)' = Handlers(v)
  BY <1>0, <1>2 DEF Handlers, HandledStates, DestroyListener, ThreadTypeOK
<1>4. \A v \in Workers \ {w} : SameWorker(v)
  BY <1>0, <1>2, <1>3 DEF SameWorker, DestroyListener, ThreadTypeOK
<1>5. inbox'[w] = {} /\ Detached(w)' /\ todo'[w] = Handlers(w) /\ repoStopping'[w]
  BY <1>0, <1>1, <1>2 DEF DestroyListener, Detached, ThreadTypeOK
<1>6. Agrees(w)'
  <2>1. Append(<<>>, "stopped") = <<"stopped">>
    OBVIOUS
  <2>2. CASE Handlers(w) = {}
    <3>1. outbox'[w] = <<"stopped">> /\ implState'[w] = "Stopped"
      BY <1>0, <1>1, <1>2, <2>1, <2>2 DEF ThreadTypeOK
    <3>2. QED
      BY <1>1, <1>3, <1>5, <2>2, <3>1 DEF Agrees, WhileStopping, Drained
  <2>3. CASE Handlers(w) # {}
    <3>1. outbox'[w] = <<>> /\ implState'[w] = "Stopping"
      BY <1>0, <1>1, <1>2, <2>3 DEF ThreadTypeOK
    <3>2. QED
      BY <1>1, <1>3, <1>5, <2>3, <3>1 DEF Agrees, WhileStopping
  <2>4. QED
    BY <2>2, <2>3
<1>7. WorkersAgree'
  BY <1>0, <1>4, <1>6, SameWorkerAgrees DEF WorkersAgree
<1>8. TypeOK'
  <2>1. outbox' \in [Workers -> Seq({"started", "stopped", "failed"})]
    BY <1>0, <1>2, StoppedTyped
  <2>2. /\ inbox' \in [Workers -> SUBSET {"start", "stop", "process"}]
        /\ listening' \in [Workers -> BOOLEAN]
        /\ hasQueuedSlotCall' \in [Workers -> BOOLEAN]
        /\ accepted' \in [Workers -> Seq(Conns)]
        /\ conn' \in [Conns -> ConnStates]
    BY <1>0, <1>2 DEF DestroyListener, ThreadTypeOK, ConnStates
  <2>3. /\ implState' \in [Workers -> {"Stopped", "Started", "Stopping"}]
        /\ repoStopping' \in [Workers -> BOOLEAN]
        /\ todo' \in [Workers -> SUBSET Conns]
    BY <1>0, <1>2 DEF ThreadTypeOK, Handlers
  <2>4. QED
    BY <1>0, <1>2, <2>1, <2>2, <2>3 DEF TypeOK, ThreadTypeOK
<1>9. ServerAgrees'
  BY <1>0, <1>2 DEF ServerAgrees
<1>10. QueuesExact'
  <2> SUFFICES ASSUME NEW v \in Workers
               PROVE  /\ HoldsAccepted(accepted[v], v)'
                      /\ HoldsAccepted(batch[v], v)'
                      /\ (batch[v] = <<>> \/ accepted[v] = <<>>)'
    BY DEF QueuesExact
  <2>1. /\ accepted[v] \in Seq(Conns) /\ batch[v] \in Seq(Conns)
        /\ HoldsAccepted(accepted[v], v) /\ HoldsAccepted(batch[v], v)
        /\ batch[v] = <<>> \/ accepted[v] = <<>>
    BY <1>0 DEF ThreadTypeOK, QueuesExact
  <2>2. CASE v = w
    BY <1>0, <1>1, <1>2, <2>2 DEF DestroyListener, HoldsAccepted, ThreadTypeOK
  <2>3. CASE v # w
    <3>1. accepted'[v] = accepted[v] /\ batch'[v] = batch[v]
      BY <1>0, <1>2, <2>3 DEF DestroyListener, ThreadTypeOK
    <3>2. \A d \in Conns : owner[d] = v => conn'[d] = conn[d]
      BY <1>0, <1>2, <2>3 DEF DestroyListener, ThreadTypeOK
    <3>3. QED
      BY <1>2, <2>1, <3>1, <3>2 DEF HoldsAccepted
  <2>4. QED
    BY <2>2, <2>3
<1>11. QED
  BY <1>7, <1>8, <1>9, <1>10 DEF ProtocolInvariant

\* A connection's handler makes a step of its own, or one in its repository's stop().
LEMMA SocketStepInvariant ==
  ASSUME ProtocolInvariant, NEW w \in Workers, NEW c \in Conns, UNCHANGED mainVars,
         \/ HandshakeCompletes(w, c)
         \/ HandlerCloses(w, c)
         \/ SocketCloses(w, c)
         \/ FinishHandler(w, c)
  PROVE  ProtocolInvariant'
<1>0. TypeOK /\ ThreadTypeOK /\ WorkersAgree
  BY DEF ProtocolInvariant, TypeOK
<1>1. ASSUME Idle(w), todo' = todo PROVE todo' = [todo EXCEPT ![w] = @ \ {c}]
  BY <1>0, <1>1 DEF Idle, ThreadTypeOK
<1>2. ASSUME c \in Handlers(w), DisconnectFromPeer(w, c)
      PROVE  \/ HandlerFinishes(w, c)
             \/ \E s \in HandledStates : /\ conn' = [conn EXCEPT ![c] = s]
                                        /\ UNCHANGED <<owner, owes, implState, outbox>>
  <2>1. conn[c] \in HandledStates /\ conn = [conn EXCEPT ![c] = conn[c]]
    BY <1>0, <1>2 DEF Handlers, ThreadTypeOK
  <2>2. QED
    BY <1>2, <2>1 DEF DisconnectFromPeer, HandledStates
<1>3. CASE HandshakeCompletes(w, c)
  BY <1>1, <1>3, HandlerStepInvariant DEF HandshakeCompletes, HandledStates
<1>4. CASE HandlerCloses(w, c)
  BY <1>1, <1>2, <1>4, HandlerStepInvariant DEF HandlerCloses
<1>5. CASE SocketCloses(w, c)
  BY <1>1, <1>5, HandlerStepInvariant DEF SocketCloses
<1>6. CASE FinishHandler(w, c)
  <2>1. c \in Handlers(w)
    BY <1>0, <1>6 DEF FinishHandler, WorkersAgree, Agrees, TypeOK, ExecutionState,
       WhileStarting, WhileStarted, WhileStopping, WhileStopped, Running, Drained
  <2>2. QED
    BY <1>2, <1>6, <2>1, HandlerStepInvariant DEF FinishHandler
<1>7. QED
  BY <1>3, <1>4, <1>5, <1>6

-----------------------------------------------------------------------------
\* The steps of the main thread.
LEMMA StartServerInvariant ==
  ASSUME ProtocolInvariant, StartServer \/ StartServerFailing
  PROVE  ProtocolInvariant'
<1>0. TypeOK /\ ThreadTypeOK /\ WorkersAgree /\ ServerAgrees /\ QueuesExact
  BY DEF ProtocolInvariant, TypeOK
<1>1. /\ ~hasServer /\ ~joining
      /\ connectionCount = 0
      /\ \A v \in Workers : asyncState[v] = "Stopped" /\ WhileStopped(v) /\ ~owes[v]
  BY <1>0 DEF StartServer, StartServerFailing, ServerAgrees, WorkersAgree, Agrees
<1>2. \A v \in Workers : Handlers(v)' = Handlers(v)
  BY DEF StartServer, StartServerFailing, Handlers
<1>3. CASE StartServer
  <2>1. WorkersAgree'
    BY <1>1, <1>2, <1>3 DEF StartServer, WorkersAgree, Agrees, WhileStarting, WhileStopped,
       Drained, Detached
  <2>2. TypeOK'
    BY <1>0, <1>3 DEF StartServer, TypeOK, ThreadTypeOK, ExecutionState
  <2>3. ServerAgrees'
    BY <1>1, <1>3 DEF StartServer, ServerAgrees
  <2>4. QueuesExact'
    BY <1>0, <1>3, QueuesKept DEF StartServer
  <2>5. QED
    BY <2>1, <2>2, <2>3, <2>4 DEF ProtocolInvariant
<1>4. CASE StartServerFailing
  <2>1. PICK nulls \in FailingConstructions \ {{}} :
           \/ /\ UNCHANGED <<hasServer, asyncState, inbox, hasAlreadyStarted, repoStopping>>
              /\ serverState' = "Stopped" /\ signal' = "failed"
              /\ usesReleased' = (WorkerCount > 1) /\ connectionCount' = 0
           \/ /\ hasServer' = TRUE /\ serverState' = "Starting" /\ signal' = "none"
              /\ asyncState' = [w \in Workers |-> IF w \in nulls THEN "Stopped" ELSE "Starting"]
              /\ inbox' = [w \in Workers |-> IF w \in nulls THEN {} ELSE {"start"}]
              /\ hasAlreadyStarted' = [w \in Workers |-> FALSE]
              /\ repoStopping' = [w \in Workers |-> FALSE]
              /\ UNCHANGED <<usesReleased, connectionCount>>
    BY <1>4 DEF StartServerFailing
  <2>2. /\ pendingStop' = FALSE /\ hasFailed' = TRUE
        /\ asyncPendingStop' = [w \in Workers |-> FALSE]
        /\ UNCHANGED <<outbox, implState, listening, accepted, hasQueuedSlotCall,
                       batch, todo, owes, conn, owner, joining>>
    BY <1>4 DEF StartServerFailing
  <2>3. WorkersAgree'
    BY <1>1, <1>2, <2>1, <2>2 DEF WorkersAgree, Agrees, WhileStarting, WhileStopped,
       Drained, Detached
  <2>4. TypeOK'
    <3>1. usesReleased' \in BOOLEAN
      <4>1. (WorkerCount > 1) \in BOOLEAN
        OBVIOUS
      <4>2. QED
        BY <1>0, <2>1, <4>1, Zenon DEF TypeOK
    <3>2. connectionCount' \in Int
      BY <1>0, <2>1 DEF ThreadTypeOK
    <3>3. /\ hasServer' \in BOOLEAN /\ serverState' \in ExecutionState
          /\ signal' \in {"none", "started", "stopped", "failed"}
      BY <1>0, <2>1 DEF TypeOK, ExecutionState
    <3>4. /\ inbox' \in [Workers -> SUBSET {"start", "stop", "process"}]
          /\ hasAlreadyStarted' \in [Workers -> BOOLEAN]
          /\ repoStopping' \in [Workers -> BOOLEAN]
          /\ asyncState' \in [Workers -> ExecutionState]
      <4>1. CASE UNCHANGED <<inbox, hasAlreadyStarted, repoStopping, asyncState>>
        BY <1>0, <4>1 DEF TypeOK, ThreadTypeOK
      <4>2. CASE /\ asyncState' = [w \in Workers |-> IF w \in nulls THEN "Stopped" ELSE "Starting"]
                 /\ inbox' = [w \in Workers |-> IF w \in nulls THEN {} ELSE {"start"}]
                 /\ hasAlreadyStarted' = [w \in Workers |-> FALSE]
                 /\ repoStopping' = [w \in Workers |-> FALSE]
        BY <4>2 DEF ExecutionState
      <4>3. QED
        BY <2>1, <4>1, <4>2
    <3>5. QED
      BY <1>0, <2>2, <3>1, <3>2, <3>3, <3>4 DEF TypeOK, ThreadTypeOK
  <2>5. ServerAgrees'
    BY <1>1, <2>1, <2>2 DEF ServerAgrees
  <2>6. QueuesExact'
    BY <1>0, <2>2, QueuesKept
  <2>7. QED
    BY <2>3, <2>4, <2>5, <2>6 DEF ProtocolInvariant
<1>5. QED
  BY <1>3, <1>4

LEMMA StopServerInvariant ==
  ASSUME ProtocolInvariant, StopServer
  PROVE  ProtocolInvariant'
<1>0. TypeOK /\ ThreadTypeOK /\ WorkersAgree /\ ServerAgrees /\ QueuesExact
  BY DEF ProtocolInvariant, TypeOK
<1>1. /\ hasServer /\ ~joining
      /\ UNCHANGED <<outbox, implState, hasAlreadyStarted, listening, accepted,
                     hasQueuedSlotCall, batch, todo, owes, repoStopping, conn, owner,
                     connectionCount, hasServer, hasFailed, joining, usesReleased, signal>>
  BY DEF StopServer
<1>2. \A v \in Workers : Handlers(v)' = Handlers(v)
  BY <1>1 DEF Handlers
<1>3. QueuesExact'
  BY <1>0, <1>1, QueuesKept
<1>4. CASE /\ pendingStop' = TRUE
           /\ UNCHANGED <<serverState, asyncState, asyncPendingStop, inbox>>
  <2>1. \A v \in Workers : SameWorker(v)
    BY <1>1, <1>2, <1>4 DEF SameWorker
  <2>2. WorkersAgree'
    BY <1>0, <1>4, <2>1, SameWorkerAgrees DEF WorkersAgree
  <2>3. QED
    BY <1>0, <1>1, <1>3, <1>4, <2>2 DEF ProtocolInvariant, TypeOK, ThreadTypeOK, ServerAgrees
<1>5. CASE /\ serverState = "Started"
           /\ serverState' = "Stopping"
           /\ StopAsyncWorkers(Workers, asyncState)
           /\ UNCHANGED pendingStop
  <2>1. \A v \in Workers : asyncState[v] = "Started" /\ WhileStarted(v) /\ ~asyncPendingStop[v]
    BY <1>0, <1>1, <1>5 DEF ServerAgrees, WorkersAgree, Agrees
  <2>2. /\ asyncState' = [v \in Workers |-> "Stopping"]
        /\ asyncPendingStop' = [v \in Workers |-> FALSE]
        /\ inbox' = [v \in Workers |-> inbox[v] \cup {"stop"}]
    BY <1>5, <2>1 DEF StopAsyncWorkers
  <2>3. WorkersAgree'
    BY <1>1, <1>2, <2>1, <2>2 DEF WorkersAgree, Agrees, WhileStarted, WhileStopping, Running
  <2>4. TypeOK'
    BY <1>0, <1>1, <1>5, <2>2 DEF TypeOK, ThreadTypeOK, ExecutionState
  <2>5. ServerAgrees'
    BY <1>0, <1>1, <1>5, <2>2 DEF ServerAgrees
  <2>6. QED
    BY <1>3, <2>3, <2>4, <2>5 DEF ProtocolInvariant
<1>6. QED
  BY <1>4, <1>5 DEF StopServer

\* What taking a signal from a worker's queue leaves alone.
LEMMA ReceivesKeeps ==
  ASSUME ProtocolInvariant, NEW w \in Workers, NEW s, Receives(w, s)
  PROVE  /\ hasServer /\ ~joining /\ hasServer' /\ Head(outbox[w]) = s /\ outbox[w] # <<>>
         /\ outbox' = [outbox EXCEPT ![w] = Tail(@)]
         /\ outbox' \in [Workers -> Seq({"started", "stopped", "failed"})]
         /\ UNCHANGED <<implState, hasAlreadyStarted, listening, accepted,
                        hasQueuedSlotCall, batch, todo, owes, repoStopping, conn, owner,
                        connectionCount, hasServer, pendingStop, usesReleased>>
         /\ \A v \in Workers : Handlers(v)' = Handlers(v)
         /\ QueuesExact'
<1>0. TypeOK /\ ThreadTypeOK /\ QueuesExact
  BY DEF ProtocolInvariant, TypeOK
<1>1. /\ hasServer /\ ~joining /\ hasServer' /\ Head(outbox[w]) = s /\ outbox[w] # <<>>
      /\ outbox' = [outbox EXCEPT ![w] = Tail(@)]
      /\ UNCHANGED <<implState, hasAlreadyStarted, listening, accepted,
                     hasQueuedSlotCall, batch, todo, owes, repoStopping, conn, owner,
                     connectionCount, hasServer, pendingStop, usesReleased>>
  BY DEF Receives
<1>2. outbox' \in [Workers -> Seq({"started", "stopped", "failed"})]
  <2> DEFINE S == {"started", "stopped", "failed"}
  <2>1. outbox \in [Workers -> Seq(S)]
    BY <1>0 DEF ThreadTypeOK
  <2> HIDE DEF S
  <2>2. Tail(outbox[w]) \in Seq(S)
    BY <1>1, <2>1
  <2>3. outbox' \in [Workers -> Seq(S)]
    BY <1>1, <2>1, <2>2
  <2>4. QED
    BY <2>3 DEF S
<1>3. QED
  BY <1>0, <1>1, <1>2, QueuesKept DEF Handlers

LEMMA OnWorkerStoppedInvariant ==
  ASSUME ProtocolInvariant, NEW w \in Workers, OnWorkerStopped(w)
  PROVE  ProtocolInvariant'
<1>0. TypeOK /\ ThreadTypeOK /\ WorkersAgree /\ ServerAgrees /\ QueuesExact
  BY DEF ProtocolInvariant, TypeOK
<1>1. /\ hasServer /\ ~joining /\ hasServer' /\ Head(outbox[w]) = "stopped" /\ outbox[w] # <<>>
      /\ outbox' = [outbox EXCEPT ![w] = Tail(@)]
      /\ outbox' \in [Workers -> Seq({"started", "stopped", "failed"})]
      /\ UNCHANGED <<implState, hasAlreadyStarted, listening, accepted,
                     hasQueuedSlotCall, batch, todo, owes, repoStopping, conn, owner,
                     connectionCount, hasServer, pendingStop, usesReleased>>
      /\ \A v \in Workers : Handlers(v)' = Handlers(v)
      /\ QueuesExact'
  BY ReceivesKeeps DEF OnWorkerStopped
<1>2. /\ asyncState[w] = "Stopping" /\ inbox[w] = {} /\ outbox[w] = <<"stopped">> /\ Drained(w)
      /\ ~asyncPendingStop[w]
  BY <1>0, <1>1 DEF WorkersAgree, Agrees, TypeOK, ExecutionState, WhileStarting, WhileStarted,
                    WhileStopping, WhileStopped
<1>3. serverState = "Stopping"
  BY <1>0, <1>1, <1>2 DEF ServerAgrees, TypeOK, ExecutionState
<1>4. outbox'[w] = <<>> /\ \A v \in Workers \ {w} : outbox'[v] = outbox[v]
  BY <1>0, <1>1, <1>2 DEF ThreadTypeOK
<1>5. asyncState' = [asyncState EXCEPT ![w] = "Stopped"]
      /\ UNCHANGED <<inbox, asyncPendingStop, hasFailed, signal>>
  BY DEF OnWorkerStopped
<1>6. \A v \in Workers \ {w} : SameWorker(v) /\ asyncState'[v] = asyncState[v]
  BY <1>0, <1>1, <1>4, <1>5 DEF SameWorker, TypeOK
<1>7. Agrees(w)'
  <2>1. asyncState'[w] = "Stopped"
    BY <1>0, <1>5 DEF TypeOK
  <2>2. QED
    BY <1>1, <1>2, <1>4, <1>5, <2>1 DEF Agrees, WhileStopped, Drained, Detached
<1>8. WorkersAgree'
  BY <1>0, <1>5, <1>6, <1>7, SameWorkerAgrees DEF WorkersAgree
<1>9. /\ joining' = \A v \in Workers : asyncState'[v] = "Stopped"
      /\ serverState' = IF \A v \in Workers : asyncState'[v] = "Stopped" THEN "Stopped" ELSE "Stopping"
  BY <1>3, <1>5 DEF OnWorkerStopped, ProcessStopping
<1>10. TypeOK'
  <2>1. joining' \in BOOLEAN
    BY <1>9, Zenon
  <2>2. QED
    BY <1>0, <1>1, <1>5, <1>9, <2>1 DEF TypeOK, ThreadTypeOK, ExecutionState
<1>11. ServerAgrees'
  <2>1. \A v \in Workers : asyncState'[v] \in {"Stopping", "Stopped"}
    BY <1>0, <1>1, <1>3, <1>5 DEF ServerAgrees, TypeOK
  <2>2. QED
    BY <1>1, <1>9, <2>1 DEF ServerAgrees
<1>12. QED
  BY <1>1, <1>8, <1>10, <1>11 DEF ProtocolInvariant

\* The start of the last undecided worker is decided: the server has started, or
\* the workers that did start are stopped.
LEMMA StartDecidedInvariant ==
  ASSUME ProtocolInvariant, NEW w \in Workers, NEW s \in {"started", "failed"},
         Receives(w, s),
         NEW t, t = IF s = "started" THEN "Started" ELSE "Stopped",
         hasFailed' = (hasFailed \/ s = "failed"),
         ProcessStarting([asyncState EXCEPT ![w] = t], hasFailed')
  PROVE  ProtocolInvariant'
<1> DEFINE async == [asyncState EXCEPT ![w] = t]
<1>0. TypeOK /\ ThreadTypeOK /\ WorkersAgree /\ ServerAgrees /\ QueuesExact
  BY DEF ProtocolInvariant, TypeOK
<1>1. /\ hasServer /\ ~joining /\ hasServer' /\ Head(outbox[w]) = s /\ outbox[w] # <<>>
      /\ outbox' = [outbox EXCEPT ![w] = Tail(@)]
      /\ outbox' \in [Workers -> Seq({"started", "stopped", "failed"})]
      /\ UNCHANGED <<implState, hasAlreadyStarted, listening, accepted,
                     hasQueuedSlotCall, batch, todo, owes, repoStopping, conn, owner,
                     connectionCount, hasServer, pendingStop, usesReleased>>
      /\ \A v \in Workers : Handlers(v)' = Handlers(v)
      /\ QueuesExact'
  BY ReceivesKeeps
<1>2. /\ asyncState[w] = "Starting" /\ outbox[w] = <<s>>
      /\ s = "started" => inbox[w] \subseteq {"process"} /\ Running(w)
      /\ s = "failed" => inbox[w] = {} /\ Drained(w)
  BY <1>0, <1>1 DEF WorkersAgree, Agrees, TypeOK, ExecutionState, WhileStarting, WhileStarted,
                    WhileStopping, WhileStopped
<1>3. serverState = "Starting"
  BY <1>0, <1>1, <1>2 DEF ServerAgrees, TypeOK, ExecutionState
<1>4. /\ outbox'[w] = <<>>
      /\ \A v \in Workers \ {w} : outbox'[v] = outbox[v]
  BY <1>0, <1>1, <1>2 DEF ThreadTypeOK
<1>5. /\ \A v \in Workers : ~asyncPendingStop[v]
      /\ async \in [Workers -> ExecutionState]
      /\ async[w] = t
      /\ \A v \in Workers \ {w} : async[v] = asyncState[v] /\ Agrees(v)
  BY <1>0 DEF WorkersAgree, Agrees, TypeOK, ExecutionState
<1>6. \A v \in Workers : async[v] # "Stopping" /\ (async[v] = "Stopped" => hasFailed')
  BY <1>0, <1>1, <1>3, <1>5 DEF ServerAgrees
<1>7. hasFailed' \in BOOLEAN
  BY Zenon
\* The worker's half of the invariant, as if its new state were async[w].
<1>8. /\ t = "Started" => /\ inbox[w] \subseteq {"process"} /\ outbox'[w] = <<>>
                          /\ Running(w) /\ Running(w)'
      /\ t = "Stopped" => inbox[w] = {} /\ outbox'[w] = <<>> /\ Drained(w)'
  BY <1>1, <1>2, <1>4 DEF Running, Drained, Detached
<1> HIDE DEF async
<1>9. CASE ~Undecided(async) /\ ~MayRun(hasFailed')
  <2>1. /\ StopAsyncWorkers({v \in Workers : async[v] = "Started"}, async)
        /\ ProcessStopping(async, "Stopping")
        /\ UNCHANGED signal
    BY <1>9 DEF ProcessStarting, async
  <2>2. \A v \in Workers : async[v] \in {"Started", "Stopped"}
    BY <1>5, <1>9 DEF Undecided, ExecutionState
  <2>3. /\ asyncState' = [v \in Workers |-> IF async[v] = "Started" THEN "Stopping" ELSE "Stopped"]
        /\ asyncPendingStop' = [v \in Workers |-> FALSE]
        /\ inbox' = [v \in Workers |-> IF async[v] = "Started" THEN inbox[v] \cup {"stop"} ELSE inbox[v]]
    <3>1. asyncState' = [v \in Workers |-> IF async[v] = "Started" THEN "Stopping" ELSE "Stopped"]
      BY <2>1, <2>2 DEF StopAsyncWorkers
    <3>2. asyncPendingStop' = [v \in Workers |-> FALSE]
      BY <1>5, <2>1, <2>2 DEF StopAsyncWorkers
    <3>3. QED
      BY <2>1, <3>1, <3>2 DEF StopAsyncWorkers
  <2>4. /\ joining' = \A v \in Workers : async[v] = "Stopped"
        /\ serverState' = IF \A v \in Workers : async[v] = "Stopped" THEN "Stopped" ELSE "Stopping"
    BY <2>1 DEF ProcessStopping
  <2>5. ASSUME NEW v \in Workers PROVE Agrees(v)'
    <3>1. CASE async[v] = "Started"
      <4>1. inbox[v] \subseteq {"process"} /\ outbox'[v] = <<>> /\ Running(v)'
        BY <1>1, <1>4, <1>5, <1>8, <3>1 DEF Agrees, WhileStarted, Running
      <4>2. QED
        BY <2>3, <3>1, <4>1 DEF Agrees, WhileStopping
    <3>2. CASE async[v] = "Stopped"
      <4>1. inbox[v] = {} /\ outbox'[v] = <<>> /\ Drained(v)'
        BY <1>1, <1>4, <1>5, <1>8, <3>2 DEF Agrees, WhileStopped, Drained, Detached
      <4>2. QED
        BY <2>3, <3>2, <4>1 DEF Agrees, WhileStopped
    <3>3. QED
      BY <2>2, <3>1, <3>2
  <2>6. TypeOK'
    <3>1. joining' \in BOOLEAN
      BY <2>4, Zenon
    <3>2. QED
      BY <1>0, <1>1, <1>7, <2>1, <2>3, <2>4, <3>1 DEF TypeOK, ThreadTypeOK, ExecutionState
  <2>7. ServerAgrees'
    BY <1>1, <2>2, <2>3, <2>4 DEF ServerAgrees
  <2>8. QED
    BY <1>1, <2>5, <2>6, <2>7 DEF ProtocolInvariant, WorkersAgree
<1>10. CASE Undecided(async) \/ MayRun(hasFailed')
  <2>1. asyncState' = async /\ UNCHANGED <<joining, asyncPendingStop, inbox>>
    BY <1>10 DEF ProcessStarting, async
  <2>2. \/ serverState' = serverState /\ signal' = signal
        \/ /\ ~Undecided(async) /\ MayRun(hasFailed')
           /\ serverState' = "Started" /\ signal' = "started"
    BY <1>10 DEF ProcessStarting, async
  <2>3. \A v \in Workers \ {w} : SameWorker(v)
    BY <1>1, <1>4, <2>1 DEF SameWorker
  <2>4. Agrees(w)'
    BY <1>2, <1>5, <1>8, <2>1 DEF Agrees, WhileStarted, WhileStopped
  <2>5. WorkersAgree'
    BY <1>0, <1>5, <2>1, <2>3, <2>4, SameWorkerAgrees DEF WorkersAgree
  <2>6. TypeOK'
    BY <1>0, <1>1, <1>5, <1>7, <2>1, <2>2 DEF TypeOK, ThreadTypeOK, ExecutionState
  <2>7. ServerAgrees'
    <3>1. CASE serverState' = serverState
      BY <1>1, <1>3, <1>6, <2>1, <3>1 DEF ServerAgrees
    <3>2. CASE ~Undecided(async) /\ MayRun(hasFailed') /\ serverState' = "Started"
      <4>1. \A v \in Workers : async[v] = "Started"
        BY <1>5, <1>6, <3>2 DEF Undecided, MayRun, ExecutionState
      <4>2. QED
        BY <1>1, <2>1, <3>2, <4>1 DEF ServerAgrees
    <3>3. QED
      BY <2>2, <3>1, <3>2
  <2>8. QED
    BY <1>1, <2>5, <2>6, <2>7 DEF ProtocolInvariant
<1>11. QED
  BY <1>9, <1>10

LEMMA ThreadsJoinedInvariant ==
  ASSUME ProtocolInvariant, ThreadsJoined
  PROVE  ProtocolInvariant'
<1>0. TypeOK /\ ThreadTypeOK /\ WorkersAgree /\ ServerAgrees /\ QueuesExact
  BY DEF ProtocolInvariant, TypeOK
<1>1. \A v \in Workers : asyncState[v] = "Stopped" /\ WhileStopped(v) /\ ~asyncPendingStop[v] /\ ~owes[v]
  BY <1>0 DEF ThreadsJoined, ThreadsEnded, Idle, ServerAgrees, WorkersAgree, Agrees
<1>2. \A v \in Workers : Handlers(v)' = Handlers(v)
  BY DEF ThreadsJoined, Handlers
<1>3. WorkersAgree'
  BY <1>1, <1>2 DEF ThreadsJoined, WorkersAgree, Agrees, WhileStopped, Drained, Detached
<1>4. TypeOK'
  <2>1. outbox' \in [Workers -> Seq({"started", "stopped", "failed"})]
    BY DEF ThreadsJoined
  <2>2. signal' \in {"none", "started", "stopped", "failed"}
    BY DEF ThreadsJoined, FinalSignal
  <2>3. ThreadTypeOK'
    BY <1>0, <2>1 DEF ThreadsJoined, ThreadTypeOK
  <2>4. hasServer' \in BOOLEAN /\ joining' \in BOOLEAN
    BY DEF ThreadsJoined
  <2>5. UNCHANGED <<serverState, pendingStop, hasFailed, asyncState, asyncPendingStop, usesReleased>>
    BY DEF ThreadsJoined
  <2>6. QED
    BY <1>0, <2>2, <2>3, <2>4, <2>5 DEF TypeOK
<1>5. ServerAgrees'
  BY <1>1 DEF ThreadsJoined, ServerAgrees
<1>6. QueuesExact'
  BY <1>0, QueuesKept DEF ThreadsJoined
<1>7. QED
  BY <1>3, <1>4, <1>5, <1>6 DEF ProtocolInvariant

-----------------------------------------------------------------------------
\* Every step of the system, and every stuttering step, keeps the invariant.
LEMMA NextInvariant ==
  ASSUME ProtocolInvariant, [Next]_vars
  PROVE  ProtocolInvariant'
<1>1. CASE UNCHANGED vars
  <2>1. \A v \in Workers : SameWorker(v)
    BY <1>1 DEF vars, threadVars, mainVars, SameWorker, Handlers
  <2>2. TypeOK' /\ ServerAgrees' /\ QueuesExact'
    BY <1>1 DEF vars, threadVars, mainVars, ProtocolInvariant, TypeOK, ThreadTypeOK,
                ServerAgrees, QueuesExact, HoldsAccepted
  <2>3. WorkersAgree'
    BY <1>1, <2>1, SameWorkerAgrees DEF vars, mainVars, ProtocolInvariant, WorkersAgree
  <2>4. QED
    BY <2>2, <2>3 DEF ProtocolInvariant
<1>2. CASE MainStep
  <2>1. ASSUME NEW w \in Workers, OnWorkerStarted(w) PROVE ProtocolInvariant'
    <3>1. ~asyncPendingStop[w]
      BY DEF ProtocolInvariant, WorkersAgree, Agrees
    <3>2. /\ Receives(w, "started")
          /\ hasFailed' = hasFailed
          /\ ProcessStarting([asyncState EXCEPT ![w] = "Started"], hasFailed)
      BY <2>1, <3>1 DEF OnWorkerStarted
    <3>3. hasFailed' = (hasFailed \/ "started" = "failed")
      BY <3>2 DEF ProtocolInvariant, TypeOK
    <3>4. QED
      BY <3>2, <3>3, StartDecidedInvariant
  <2>2. ASSUME NEW w \in Workers, OnWorkerFailed(w) PROVE ProtocolInvariant'
    BY <2>2, StartDecidedInvariant DEF OnWorkerFailed
  <2>3. QED
    BY <1>2, <2>1, <2>2, StartServerInvariant, StopServerInvariant, OnWorkerStoppedInvariant,
       ThreadsJoinedInvariant DEF MainStep, OnWorkerSignal
<1>3. CASE \E w \in Workers : ThreadStep(w) /\ UNCHANGED mainVars
  BY <1>3, StartWorkerInvariant, StopWorkerInvariant, ProcessConnectionsInvariant,
     AnnounceConnectionInvariant, DecrementCountInvariant, IncomingConnectionInvariant,
     SocketStepInvariant DEF ThreadStep, PostedEvent, RunningHandler, SocketEvent
<1>4. QED
  BY <1>1, <1>2, <1>3 DEF Next

\* In every reachable state the threads, their queues and the main thread agree on
\* the life of every worker: no signal or call reaches its receiver in a state that
\* is not meant for it (Server, AsyncServerWorker, ServerWorkerImpl).
THEOREM ProtocolIsInvariant == Spec => []ProtocolInvariant
  BY InitInvariant, NextInvariant, PTL DEF Spec

\* The variables keep their types.
THEOREM TypesAreInvariant == Spec => []TypeOK
<1>1. ProtocolInvariant => TypeOK
  BY DEF ProtocolInvariant
<1>2. QED
  BY <1>1, ProtocolIsInvariant, PTL

\* started() is emitted only once every worker thread listens, and until stop() is
\* called they all do (Server::processStartingServerWorkers).
THEOREM StartedIsListening == Spec => []StartedMeansListening
<1>1. ProtocolInvariant => StartedMeansListening
  BY DEF ProtocolInvariant, ServerAgrees, WorkersAgree, Agrees, WhileStarted, Running,
         StartedMeansListening
<1>2. QED
  BY <1>1, ProtocolIsInvariant, PTL

\* The threads that m_workers.clear() joins have nothing left to do but to end.
THEOREM JoinsAreDrained == Spec => []JoinsOnlyDrainedWorkers
<1>1. ProtocolInvariant => JoinsOnlyDrainedWorkers
  BY DEF ProtocolInvariant, ServerAgrees, WorkersAgree, Agrees, WhileStopped, Drained, Detached,
         JoinsOnlyDrainedWorkers
<1>2. QED
  BY <1>1, ProtocolIsInvariant, PTL

-----------------------------------------------------------------------------
\* What the steps do to the set of handlers, the decrements owed and the counter.
Owing == {w \in Workers : owes[w]}

CountInvariant == OwnersKnown /\ CountExact /\ LiveWithinLimit

LEMMA CountedSetsFinite == IsFiniteSet(LiveHandlers) /\ IsFiniteSet(Owing)
<1>1. IsFiniteSet(Workers)
  BY WorkerCountAssumption, FS_Interval DEF Workers
<1>2. QED
  BY <1>1, ConnsAssumption, FS_Subset DEF LiveHandlers, Owing

\* The ways in which a step may change what is counted.
LEMMA CountedStep ==
  ASSUME ThreadTypeOK, CountExact, LiveWithinLimit,
         \/ /\ LiveHandlers' = LiveHandlers /\ Owing' = Owing
            /\ connectionCount' = connectionCount
         \/ /\ \E c \in Conns \ LiveHandlers : LiveHandlers' = LiveHandlers \cup {c}
            /\ Owing' = Owing /\ Admits(connectionCount + 1)
            /\ connectionCount' = connectionCount + 1
         \/ /\ LiveHandlers' = LiveHandlers
            /\ \E w \in Workers \ Owing : Owing' = Owing \cup {w}
            /\ connectionCount' = connectionCount + 1
         \/ /\ \E c \in LiveHandlers : LiveHandlers' = LiveHandlers \ {c}
            /\ \E w \in Workers \ Owing : Owing' = Owing \cup {w}
            /\ connectionCount' = connectionCount
         \/ /\ LiveHandlers' = LiveHandlers
            /\ \E w \in Owing : Owing' = Owing \ {w}
            /\ connectionCount' = connectionCount - 1
  PROVE  CountExact' /\ LiveWithinLimit'
<1> DEFINE live == Cardinality(LiveHandlers)
           owing == Cardinality(Owing)
<1>1. IsFiniteSet(LiveHandlers) /\ IsFiniteSet(Owing) /\ live \in Nat /\ owing \in Nat
  BY CountedSetsFinite, FS_CardinalityType
<1>2. connectionCount = live + owing
  BY DEF CountExact, Owing
<1>3. ASSUME NEW c \in Conns \ LiveHandlers
      PROVE  Cardinality(LiveHandlers \cup {c}) = live + 1
  BY <1>1, FS_AddElement
<1>4. ASSUME NEW w \in Workers \ Owing
      PROVE  Cardinality(Owing \cup {w}) = owing + 1
  BY <1>1, FS_AddElement
<1>5. ASSUME NEW c \in LiveHandlers
      PROVE  Cardinality(LiveHandlers \ {c}) = live - 1
  BY <1>1, FS_RemoveElement
<1>6. ASSUME NEW w \in Owing
      PROVE  Cardinality(Owing \ {w}) = owing - 1
  BY <1>1, FS_RemoveElement
<1>7. connectionCount' = Cardinality(LiveHandlers') + Cardinality(Owing')
  BY <1>1, <1>2, <1>3, <1>4, <1>5, <1>6
<1>8. MaxConnectionCount > 0 => Cardinality(LiveHandlers') <= MaxConnectionCount
  BY <1>1, <1>2, <1>3, <1>5, MaxConnectionCountAssumption DEF LiveWithinLimit, Admits
<1>9. QED
  BY <1>7, <1>8 DEF CountExact, LiveWithinLimit, Owing

\* A handler that finishes, or whose socket moves on.
LEMMA HandlerStepCounts ==
  ASSUME ThreadTypeOK, CountInvariant, NEW w \in Workers, NEW c \in Handlers(w), ~owes[w],
         connectionCount' = connectionCount,
         \/ HandlerFinishes(w, c)
         \/ \E s \in HandledStates : /\ conn' = [conn EXCEPT ![c] = s]
                                    /\ UNCHANGED <<owner, owes>>
  PROVE  CountInvariant'
<1>1. c \in Conns /\ conn[c] \in HandledStates /\ c \in LiveHandlers /\ w \notin Owing
  BY DEF Handlers, LiveHandlers, Owing
<1>2. CASE HandlerFinishes(w, c)
  <2>1. /\ conn' = [conn EXCEPT ![c] = "free"]
        /\ owner' = [owner EXCEPT ![c] = 0]
        /\ owes' = [owes EXCEPT ![w] = TRUE]
    BY <1>2 DEF HandlerFinishes, Released, OweDecrement
  <2>2. LiveHandlers' = LiveHandlers \ {c}
    BY <1>1, <2>1 DEF LiveHandlers, HandledStates, ThreadTypeOK
  <2>3. Owing' = Owing \cup {w}
    BY <2>1 DEF Owing, ThreadTypeOK
  <2>4. OwnersKnown'
    BY <2>1, <2>2 DEF CountInvariant, OwnersKnown, LiveHandlers, ThreadTypeOK
  <2>5. QED
    BY <1>1, <2>2, <2>3, <2>4, CountedStep DEF CountInvariant
<1>3. CASE \E s \in HandledStates : /\ conn' = [conn EXCEPT ![c] = s]
                                   /\ UNCHANGED <<owner, owes>>
  <2>1. LiveHandlers' = LiveHandlers
    BY <1>1, <1>3 DEF LiveHandlers, ThreadTypeOK
  <2>2. Owing' = Owing
    BY <1>3 DEF Owing
  <2>3. OwnersKnown'
    BY <1>3, <2>1 DEF CountInvariant, OwnersKnown
  <2>4. QED
    BY <2>1, <2>2, <2>3, CountedStep DEF CountInvariant
<1>4. QED
  BY <1>2, <1>3

LEMMA SocketStepCounts ==
  ASSUME ProtocolInvariant, CountInvariant, NEW w \in Workers, NEW c \in Conns,
         \/ HandshakeCompletes(w, c)
         \/ HandlerCloses(w, c)
         \/ SocketCloses(w, c)
         \/ FinishHandler(w, c)
  PROVE  CountInvariant'
<1>0. ThreadTypeOK
  BY DEF ProtocolInvariant, TypeOK
<1>1. c \in Handlers(w)
  <2>1. CASE FinishHandler(w, c)
    BY <2>1 DEF FinishHandler, ProtocolInvariant, WorkersAgree, Agrees, TypeOK, ExecutionState,
       WhileStarting, WhileStarted, WhileStopping, WhileStopped, Running, Drained
  <2>2. QED
    BY <2>1 DEF HandshakeCompletes, HandlerCloses, SocketCloses
<1>2. ~owes[w] /\ connectionCount' = connectionCount
  BY DEF HandshakeCompletes, HandlerCloses, SocketCloses, FinishHandler, Idle
<1>3. conn = [conn EXCEPT ![c] = conn[c]] /\ conn[c] \in HandledStates
  BY <1>0, <1>1 DEF Handlers, ThreadTypeOK
<1>4. \/ HandlerFinishes(w, c)
      \/ \E s \in HandledStates : /\ conn' = [conn EXCEPT ![c] = s]
                                 /\ UNCHANGED <<owner, owes>>
  BY <1>3 DEF HandshakeCompletes, HandlerCloses, SocketCloses, FinishHandler,
     DisconnectFromPeer, HandledStates
<1>5. QED
  BY <1>0, <1>1, <1>2, <1>4, HandlerStepCounts

LEMMA AnnounceConnectionCounts ==
  ASSUME ProtocolInvariant, CountInvariant, NEW w \in Workers, AnnounceConnection(w)
  PROVE  CountInvariant'
<1> DEFINE c == Head(batch[w])
<1>0. ThreadTypeOK
  BY DEF ProtocolInvariant, TypeOK
<1>1. c \in Conns /\ conn[c] = "accepted" /\ owner[c] = w
  <2>1. batch[w] \in Seq(Conns) /\ batch[w] # <<>> /\ HoldsAccepted(batch[w], w)
    BY <1>0 DEF ThreadTypeOK, ProtocolInvariant, QueuesExact, AnnounceConnection
  <2>2. QED
    BY <2>1 DEF HoldsAccepted
<1>2. c \notin LiveHandlers /\ w \notin Owing /\ connectionCount' = connectionCount + 1
  BY <1>1 DEF LiveHandlers, HandledStates, Owing, AnnounceConnection
<1>3. CASE /\ Admits(connectionCount + 1)
           /\ \E s \in {"handshaking", "connected"} : conn' = [conn EXCEPT ![c] = s]
           /\ UNCHANGED <<owes, owner>>
  <2>1. LiveHandlers' = LiveHandlers \cup {c} /\ Owing' = Owing
    BY <1>0, <1>1, <1>3 DEF LiveHandlers, HandledStates, Owing, ThreadTypeOK
  <2>2. OwnersKnown'
    BY <1>1, <1>3, <2>1 DEF CountInvariant, OwnersKnown
  <2>3. QED
    BY <1>0, <1>1, <1>2, <1>3, <2>1, <2>2, CountedStep DEF CountInvariant
<1>4. CASE Released(c) /\ OweDecrement(w)
  <2>1. LiveHandlers' = LiveHandlers /\ Owing' = Owing \cup {w}
    BY <1>0, <1>2, <1>4 DEF Released, OweDecrement, LiveHandlers, HandledStates, Owing, ThreadTypeOK
  <2>2. OwnersKnown'
    BY <1>0, <1>2, <1>4, <2>1 DEF Released, CountInvariant, OwnersKnown, LiveHandlers, ThreadTypeOK
  <2>3. QED
    BY <1>0, <1>2, <2>1, <2>2, CountedStep DEF CountInvariant
<1>5. QED
  BY <1>3, <1>4 DEF AnnounceConnection

\* A step that leaves the counted things alone, whatever it does to descriptors that
\* are no handler's yet.
LEMMA UncountedStep ==
  ASSUME ThreadTypeOK, CountInvariant, LiveHandlers' = LiveHandlers,
         UNCHANGED <<owes, connectionCount>>,
         \A c \in LiveHandlers : owner'[c] = owner[c]
  PROVE  CountInvariant'
<1>1. Owing' = Owing
  BY DEF Owing
<1>2. OwnersKnown'
  BY DEF CountInvariant, OwnersKnown
<1>3. QED
  BY <1>1, <1>2, CountedStep DEF CountInvariant

\* Nothing is counted once the workers have been drained.
LEMMA DrainedCountsNothing ==
  ASSUME ProtocolInvariant, CountInvariant, \A w \in Workers : asyncState[w] = "Stopped",
         \A w \in Workers : ~owes[w]
  PROVE  LiveHandlers = {} /\ connectionCount = 0
<1>1. \A w \in Workers : Handlers(w) = {}
  BY DEF ProtocolInvariant, WorkersAgree, Agrees, WhileStopped, Drained
<1>2. LiveHandlers = {}
  BY <1>1 DEF CountInvariant, OwnersKnown, LiveHandlers, Handlers
<1>3. Owing = {}
  BY DEF Owing
<1>4. connectionCount = Cardinality({}) + Cardinality({})
  BY <1>2, <1>3 DEF CountInvariant, CountExact, Owing
<1>5. QED
  BY <1>2, <1>4, FS_EmptySet

LEMMA InitCounts == Init => CountInvariant
<1> SUFFICES ASSUME Init PROVE CountInvariant
  OBVIOUS
<1>1. LiveHandlers = {} /\ Owing = {} /\ connectionCount = 0
  BY DEF Init, InitThreads, FreshThreads, LiveHandlers, HandledStates, Owing
<1>2. Cardinality({}) = 0
  BY FS_EmptySet
<1>3. QED
  BY <1>1, <1>2, MaxConnectionCountAssumption
     DEF CountInvariant, OwnersKnown, CountExact, LiveWithinLimit, Owing

LEMMA NextCounts ==
  ASSUME ProtocolInvariant, CountInvariant, [Next]_vars
  PROVE  CountInvariant'
<1>0. ThreadTypeOK
  BY DEF ProtocolInvariant, TypeOK
<1>1. CASE UNCHANGED <<conn, owner, owes, connectionCount>>
  <2>1. LiveHandlers' = LiveHandlers /\ \A c \in LiveHandlers : owner'[c] = owner[c]
    BY <1>1 DEF LiveHandlers
  <2>2. QED
    BY <1>0, <1>1, <2>1, UncountedStep
<1>2. CASE MainStep
  <2>1. UNCHANGED <<conn, owner, owes>>
    BY <1>2 DEF MainStep, StartServer, StartServerFailing, StopServer, OnWorkerSignal,
       OnWorkerStarted, OnWorkerFailed, OnWorkerStopped, Receives, ThreadsJoined
  <2>2. connectionCount' = connectionCount
    <3>1. CASE StartServerFailing
      <4>1. connectionCount = 0
        BY <3>1 DEF StartServerFailing, ProtocolInvariant, ServerAgrees
      <4>2. QED
        BY <3>1, <4>1 DEF StartServerFailing
    <3>2. CASE ThreadsJoined
      <4>1. \A w \in Workers : asyncState[w] = "Stopped" /\ ~owes[w]
        BY <3>2 DEF ThreadsJoined, ThreadsEnded, Idle, ProtocolInvariant, ServerAgrees
      <4>2. QED
        BY <3>2, <4>1, DrainedCountsNothing DEF ThreadsJoined
    <3>3. QED
      BY <1>2, <3>1, <3>2 DEF MainStep, StartServer, StopServer, OnWorkerSignal,
         OnWorkerStarted, OnWorkerFailed, OnWorkerStopped, Receives
  <2>3. QED
    BY <1>1, <2>1, <2>2
<1>3. ASSUME NEW w \in Workers, ThreadStep(w) PROVE CountInvariant'
  <2>1. CASE StartWorker(w) \/ ProcessConnections(w)
    BY <1>1, <2>1 DEF StartWorker, ProcessConnections
  <2>2. CASE StopWorker(w)
    <3>1. LiveHandlers' = LiveHandlers
      BY <1>0, <2>2 DEF StopWorker, DestroyListener, LiveHandlers, HandledStates, ThreadTypeOK
    <3>2. QED
      BY <1>0, <2>2, <3>1, UncountedStep DEF StopWorker
  <2>3. CASE DecrementCount(w)
    <3>1. LiveHandlers' = LiveHandlers /\ w \in Owing
      BY <2>3 DEF DecrementCount, LiveHandlers, Owing
    <3>2. Owing' = Owing \ {w}
      BY <1>0, <2>3 DEF DecrementCount, Owing, ThreadTypeOK
    <3>3. connectionCount' = connectionCount - 1 /\ UNCHANGED <<conn, owner>>
      BY <2>3 DEF DecrementCount
    <3>4. OwnersKnown'
      BY <3>1, <3>3 DEF CountInvariant, OwnersKnown
    <3>5. QED
      BY <1>0, <3>1, <3>2, <3>3, <3>4, CountedStep DEF CountInvariant
  <2>4. ASSUME NEW c \in Conns, IncomingConnection(w, c) PROVE CountInvariant'
    <3>1. /\ conn[c] = "free" /\ conn' = [conn EXCEPT ![c] = "accepted"]
          /\ owner' = [owner EXCEPT ![c] = w] /\ UNCHANGED <<owes, connectionCount>>
      BY <2>4 DEF IncomingConnection
    <3>2. LiveHandlers' = LiveHandlers /\ c \notin LiveHandlers
      BY <1>0, <3>1 DEF LiveHandlers, HandledStates, ThreadTypeOK
    <3>3. \A d \in LiveHandlers : owner'[d] = owner[d]
      BY <1>0, <3>1, <3>2 DEF LiveHandlers, ThreadTypeOK
    <3>4. QED
      BY <1>0, <3>1, <3>2, <3>3, UncountedStep
  <2>5. QED
    BY <1>3, <2>1, <2>2, <2>3, <2>4, AnnounceConnectionCounts, SocketStepCounts
       DEF ThreadStep, PostedEvent, RunningHandler, SocketEvent
<1>4. CASE UNCHANGED vars
  BY <1>1, <1>4 DEF vars, threadVars
<1>5. QED
  BY <1>2, <1>3, <1>4 DEF Next

\* The invariant about the counter, on top of the one about the protocol.
LEMMA CountIsInvariant == Spec => []CountInvariant
  BY ProtocolIsInvariant, InitCounts, NextCounts, PTL DEF Spec

\* The shared counter never drifts: it is always the number of handlers alive plus
\* the decrements still owed, through every restart (ServerWorkerImpl::onNewConnection,
\* ServerWorkerImpl::onFinishedConnection).
THEOREM CountIsExact == Spec => []CountExact
<1>1. CountInvariant => CountExact
  BY DEF CountInvariant
<1>2. QED
  BY <1>1, CountIsInvariant, PTL

\* Whatever the interleaving of the workers' increments, no more handlers are alive
\* than MaxConnectionCount (ServerWorkerImpl::onNewConnection).
THEOREM LiveIsWithinLimit == Spec => []LiveWithinLimit
<1>1. CountInvariant => LiveWithinLimit
  BY DEF CountInvariant
<1>2. QED
  BY <1>1, CountIsInvariant, PTL

\* After stopped() or failed() nothing of the server is left that a later start()
\* could run into.
THEOREM StoppedIsQuiet == Spec => []StoppedMeansQuiet
<1>1. ASSUME ProtocolInvariant, CountInvariant PROVE StoppedMeansQuiet
  <2> SUFFICES ASSUME ~hasServer
               PROVE  /\ LiveHandlers = {}
                      /\ connectionCount = 0
                      /\ \A w \in Workers : Idle(w) /\ ~listening[w]
    BY DEF StoppedMeansQuiet
  <2>1. \A w \in Workers : asyncState[w] = "Stopped" /\ Drained(w) /\ ~owes[w]
    BY <1>1 DEF ProtocolInvariant, ServerAgrees, WorkersAgree, Agrees, WhileStopped
  <2>2. QED
    BY <1>1, <2>1, DrainedCountsNothing DEF Drained, Detached, Idle
<1>2. QED
  BY <1>1, ProtocolIsInvariant, CountIsInvariant, PTL

-----------------------------------------------------------------------------
\* The implementation of the contract.  processStoppingServerWorkers either waits, or
\* joins the threads.
LEMMA StoppingJoinsOrWaits ==
  ASSUME NEW async, NEW state, ProcessStopping(async, state)
  PROVE  (serverState' = state /\ ~joining') \/ (serverState' = "Stopped" /\ joining')
<1> DEFINE allStopped == \A w \in Workers : async[w] = "Stopped"
<1>1. joining' = allStopped /\ serverState' = IF allStopped THEN "Stopped" ELSE state
  BY DEF ProcessStopping
<1> HIDE DEF allStopped
<1>2. CASE allStopped
  BY <1>1, <1>2, Zenon
<1>3. CASE ~allStopped
  BY <1>1, <1>3, Zenon
<1>4. QED
  BY <1>2, <1>3

\* What a worker's last outstanding start means to the user.
LEMMA StartDecidedImplements ==
  ASSUME ProtocolInvariant, NEW w \in Workers, NEW s, Receives(w, s),
         asyncState[w] = "Starting", NEW async,
         hasFailed' = hasFailed \/ hasFailed' = TRUE,
         ProcessStarting(async, hasFailed')
  PROVE  [Contract!Next]_(Contract!vars)
<1>1. /\ TypeOK /\ ServerAgrees
      /\ hasServer /\ hasServer' /\ ~joining /\ pendingStop' = pendingStop
  BY DEF ProtocolInvariant, Receives
<1>2. serverState = "Starting"
  BY <1>1 DEF ServerAgrees, TypeOK, ExecutionState
<1>3. CASE Undecided(async)
  <2>1. UNCHANGED <<serverState, joining, signal>>
    BY <1>3 DEF ProcessStarting
  <2>2. CASE hasFailed' = hasFailed
    BY <1>1, <2>1, <2>2 DEF Contract!vars
  <2>3. CASE hasFailed' = TRUE
    BY <1>1, <1>2, <2>1, <2>3 DEF Contract!Next, Contract!WorkerFails
  <2>4. QED
    BY <2>2, <2>3
<1>4. CASE ~Undecided(async) /\ MayRun(hasFailed')
  <2>1. serverState' = "Started" /\ signal' = "started" /\ joining' = joining
    BY <1>4 DEF ProcessStarting
  <2>2. ~hasFailed' /\ ~hasFailed /\ ~pendingStop
    BY <1>4 DEF MayRun
  <2>3. QED
    BY <1>1, <1>2, <2>1, <2>2 DEF Contract!Next, Contract!BecomeStarted
<1>5. CASE ~Undecided(async) /\ ~MayRun(hasFailed')
  <2>1. /\ signal' = signal
        /\ (serverState' = "Stopping" /\ ~joining') \/ (serverState' = "Stopped" /\ joining')
    BY <1>5, StoppingJoinsOrWaits DEF ProcessStarting
  <2>2. hasFailed' \/ pendingStop
    BY <1>5 DEF MayRun
  <2>3. (hasServer' /\ hasFailed') \in {hasServer /\ hasFailed, TRUE}
    <3>1. CASE hasFailed' = hasFailed
      <4>1. (hasServer' /\ hasFailed') = (hasServer /\ hasFailed)
        BY <1>1, <3>1
      <4>2. QED
        BY <4>1, Zenon
    <3>2. CASE hasFailed' = TRUE
      <4>1. (hasServer' /\ hasFailed') = TRUE
        BY <1>1, <3>2
      <4>2. QED
        BY <4>1, Zenon
    <3>3. QED
      BY <3>1, <3>2
  <2>4. /\ (IF ~hasServer THEN "Stopped"
            ELSE IF joining THEN "Stopping" ELSE serverState) = "Starting"
        /\ (IF ~hasServer' THEN "Stopped"
            ELSE IF joining' THEN "Stopping" ELSE serverState') = "Stopping"
    BY <1>1, <1>2, <2>1
  <2>5. /\ (hasServer /\ pendingStop) \/ (hasServer' /\ hasFailed')
        /\ (hasServer' /\ pendingStop') = (hasServer /\ pendingStop)
    BY <1>1, <2>2
  <2>6. Contract!GiveUp
    BY <2>1, <2>3, <2>4, <2>5, Zenon DEF Contract!GiveUp
  <2>7. QED
    BY <2>6 DEF Contract!Next
<1>6. QED
  BY <1>3, <1>4, <1>5

LEMMA StepImplements ==
  ASSUME ProtocolInvariant, [Next]_vars
  PROVE  [Contract!Next]_(Contract!vars)
<1>0. TypeOK /\ ServerAgrees /\ WorkersAgree
  BY DEF ProtocolInvariant
<1>1. CASE UNCHANGED mainVars
  BY <1>1 DEF mainVars, Contract!vars
<1>2. CASE StartServer
  <2>1. ~joining
    BY <1>0, <1>2 DEF StartServer, ServerAgrees
  <2>2. QED
    BY <1>2, <2>1 DEF StartServer, Contract!Next, Contract!Start
<1>3. CASE StartServerFailing
  <2>1. ~joining /\ ~joining' /\ ~hasServer
    BY <1>0, <1>3 DEF StartServerFailing, ServerAgrees
  <2>2. CASE signal' = "failed" /\ hasServer' = hasServer
    BY <2>1, <2>2 DEF Contract!Next, Contract!FailToStart
  <2>3. CASE hasServer' = TRUE /\ serverState' = "Starting" /\ signal' = "none"
    <3>1. pendingStop' = FALSE /\ hasFailed' = TRUE
      BY <1>3 DEF StartServerFailing
    <3>2. QED
      BY <2>1, <2>3, <3>1 DEF Contract!Next, Contract!Start
  <2>4. QED
    BY <1>3, <2>2, <2>3 DEF StartServerFailing
<1>4. CASE StopServer
  <2>1. hasServer /\ ~joining /\ UNCHANGED <<hasServer, joining, hasFailed, signal>>
    BY <1>4 DEF StopServer
  <2>2. CASE serverState = "Starting" /\ pendingStop' = TRUE /\ serverState' = serverState
    BY <2>1, <2>2 DEF Contract!Next, Contract!StopWhileStarting
  <2>3. CASE serverState = "Started" /\ serverState' = "Stopping" /\ pendingStop' = pendingStop
    BY <2>1, <2>3 DEF Contract!Next, Contract!Stop
  <2>4. QED
    BY <1>4, <2>2, <2>3 DEF StopServer
<1>5. ASSUME NEW w \in Workers, OnWorkerStarted(w) PROVE [Contract!Next]_(Contract!vars)
  <2>1. Receives(w, "started") /\ ~asyncPendingStop[w] /\ hasFailed' = hasFailed
    BY <1>0, <1>5 DEF OnWorkerStarted, WorkersAgree, Agrees
  <2>2. asyncState[w] = "Starting"
    BY <1>0, <2>1 DEF Receives, WorkersAgree, Agrees, TypeOK, ExecutionState, WhileStarting,
       WhileStarted, WhileStopping, WhileStopped
  <2>3. ProcessStarting([asyncState EXCEPT ![w] = "Started"], hasFailed')
    BY <1>5, <2>1 DEF OnWorkerStarted
  <2>4. QED
    BY <2>1, <2>2, <2>3, StartDecidedImplements
<1>6. ASSUME NEW w \in Workers, OnWorkerFailed(w) PROVE [Contract!Next]_(Contract!vars)
  <2>1. Receives(w, "failed") /\ hasFailed' = TRUE
    BY <1>6 DEF OnWorkerFailed
  <2>2. asyncState[w] = "Starting"
    BY <1>0, <2>1 DEF Receives, WorkersAgree, Agrees, TypeOK, ExecutionState, WhileStarting,
       WhileStarted, WhileStopping, WhileStopped
  <2>3. ProcessStarting([asyncState EXCEPT ![w] = "Stopped"], hasFailed')
    BY <1>6, <2>1 DEF OnWorkerFailed
  <2>4. QED
    BY <2>1, <2>2, <2>3, StartDecidedImplements
<1>7. ASSUME NEW w \in Workers, OnWorkerStopped(w) PROVE [Contract!Next]_(Contract!vars)
  <2>1. /\ hasServer /\ ~joining
        /\ UNCHANGED <<hasServer, pendingStop, hasFailed, signal>>
        /\ (serverState' = serverState /\ ~joining') \/ (serverState' = "Stopped" /\ joining')
    BY <1>7, StoppingJoinsOrWaits DEF OnWorkerStopped, Receives
  <2>2. asyncState[w] = "Stopping"
    BY <1>0, <1>7 DEF OnWorkerStopped, Receives, WorkersAgree, Agrees, TypeOK, ExecutionState,
       WhileStarting, WhileStarted, WhileStopping, WhileStopped
  <2>3. serverState = "Stopping"
    BY <1>0, <2>1, <2>2 DEF ServerAgrees, TypeOK, ExecutionState
  <2>4. QED
    BY <2>1, <2>3 DEF Contract!vars
<1>8. CASE ThreadsJoined
  <2>1. joining /\ hasServer /\ ~hasServer' /\ signal' = FinalSignal
    BY <1>0, <1>8 DEF ThreadsJoined, ServerAgrees
  <2>2. QED
    BY <2>1 DEF FinalSignal, Contract!Next, Contract!BecomeStopped
<1>9. QED
  BY <1>1, <1>2, <1>3, <1>4, <1>5, <1>6, <1>7, <1>8 DEF Next, MainStep, OnWorkerSignal, vars

\* The server, with its threads, queues and counters, keeps the promise it makes about
\* started(), stopped() and failed(), for any number of workers and connections.
THEOREM ServerImplementsContract == Spec => ImplementsContract
<1>1. Init => Contract!Init
  BY DEF Init, Contract!Init
<1>2. ProtocolInvariant /\ [Next]_vars => [Contract!Next]_(Contract!vars)
  BY StepImplements
<1>3. QED
  BY <1>1, <1>2, ProtocolIsInvariant, PTL DEF Spec, ImplementsContract, Contract!Spec

-----------------------------------------------------------------------------
(* The repository of a worker. *)

\* q numbers the members M from 1 to n, in the order in which hd, nx and pv link them.
Linked(q, n, hd, nx, pv, M) ==
    /\ q \in [1..n -> M]
    /\ M = {q[i] : i \in 1..n}
    /\ hd = IF n = 0 THEN None ELSE q[1]
    /\ \A i \in 1..n : /\ nx[q[i]] = IF i = n THEN None ELSE q[i + 1]
                       /\ pv[q[i]] = IF i = 1 THEN None ELSE q[i - 1]
    /\ \A i, j \in 1..n : i # j => q[i] # q[j]

\* The links nx1 and pv1 are nx and pv with h in front of hd, or with h taken out.
Pushed(h, hd, nx, pv, nx1, pv1) ==
    \A g \in AllHandlers :
        /\ nx1[g] = IF g = h THEN hd ELSE nx[g]
        /\ pv1[g] = IF g = h THEN None ELSE IF g = hd THEN h ELSE pv[g]

Removed(h, nx, pv, nx1, pv1) ==
    \A g \in AllHandlers :
        /\ nx1[g] = IF pv[h] = g THEN nx[h] ELSE nx[g]
        /\ pv1[g] = IF nx[h] = g THEN pv[h] ELSE pv[g]

Links0 == [AllHandlers -> AllHandlers \cup {None}]

LEMMA ListIsLinked ==
    ListExact <=> \E q : Linked(q, handlersCount, head, next, prev, Members)
  BY DEF ListExact, IsList, Linked

-----------------------------------------------------------------------------
(* What the two operations on the links do to a list. *)

\* A handler that is put in front of a list is its first one.
LEMMA PushLinks ==
    ASSUME NEW M \in SUBSET AllHandlers, NEW h \in AllHandlers \ M, NEW n \in Nat, NEW q,
           NEW hd, NEW nx, NEW pv, Linked(q, n, hd, nx, pv, M),
           NEW nx1, NEW pv1, Pushed(h, hd, nx, pv, nx1, pv1)
    PROVE  \E p : Linked(p, n + 1, h, nx1, pv1, M \cup {h})
<1> DEFINE N == M \cup {h}
           p == [i \in 1..(n + 1) |-> IF i = 1 THEN h ELSE q[i - 1]]
<1>0. /\ q \in [1..n -> M] /\ M = {q[i] : i \in 1..n}
      /\ hd = IF n = 0 THEN None ELSE q[1]
      /\ \A i \in 1..n : /\ nx[q[i]] = IF i = n THEN None ELSE q[i + 1]
                         /\ pv[q[i]] = IF i = 1 THEN None ELSE q[i - 1]
      /\ \A i, j \in 1..n : i # j => q[i] # q[j]
  BY DEF Linked
<1>1. \A i \in 1..(n + 1) : i # 1 => i - 1 \in 1..n /\ p[i] = q[i - 1] /\ p[i] \in M
  BY <1>0
<1>2. p[1] = h  OBVIOUS
<1>3. p \in [1..(n + 1) -> N]  BY <1>1
<1>4. N = {p[i] : i \in 1..(n + 1)}
  <2>1. ASSUME NEW g \in M PROVE \E i \in 1..(n + 1) : g = p[i]
    <3>1. PICK j \in 1..n : g = q[j]  BY <1>0
    <3>2. j + 1 \in 1..(n + 1) /\ p[j + 1] = g  BY <3>1
    <3> QED  BY <3>2
  <2>2. 1 \in 1..(n + 1)  OBVIOUS
  <2>3. \A i \in 1..(n + 1) : p[i] \in N  BY <1>3
  <2> HIDE DEF p
  <2> QED  BY <1>2, <2>1, <2>2, <2>3
<1>5. ASSUME NEW i \in 1..(n + 1)
      PROVE  /\ nx1[p[i]] = IF i = n + 1 THEN None ELSE p[i + 1]
             /\ pv1[p[i]] = IF i = 1 THEN None ELSE p[i - 1]
  <2>1. CASE i = 1
    <3>1. nx1[h] = hd /\ pv1[h] = None  BY DEF Pushed
    <3>2. n # 0 => p[2] = q[1]  BY <1>0
    <3> QED  BY <2>1, <3>1, <3>2, <1>0, <1>2
  <2>2. CASE i # 1
    <3>1. i - 1 \in 1..n /\ p[i] = q[i - 1] /\ p[i] \in M  BY <1>1, <2>2
    <3>2. p[i] # h /\ p[i] \in AllHandlers  BY <3>1
    <3>3. nx1[p[i]] = nx[q[i - 1]]  BY <3>1, <3>2 DEF Pushed
    <3>4. nx[q[i - 1]] = IF i = n + 1 THEN None ELSE p[i + 1]
      BY <3>1, <1>0
    <3>5. CASE i = 2
      <4>1. p[i] = hd  BY <3>1, <3>5, <1>0
      <4>2. pv1[p[i]] = h  BY <4>1, <3>2 DEF Pushed
      <4> QED  BY <4>2, <3>3, <3>4, <3>5, <1>2
    <3>6. CASE i # 2
      <4>1. i - 2 \in 1..n /\ p[i - 1] = q[i - 2]  BY <2>2, <3>6, <1>1
      <4>2. 1 \in 1..n /\ i - 1 # 1 /\ hd = q[1]  BY <3>1, <3>6, <1>0
      <4>3. p[i] # hd  BY <3>1, <4>2, <1>0
      <4>4. pv1[p[i]] = pv[q[i - 1]]  BY <3>1, <3>2, <4>3 DEF Pushed
      <4>5. pv[q[i - 1]] = q[i - 2]
        <5>1. pv[q[i - 1]] = q[(i - 1) - 1]  BY <3>1, <4>2, <1>0
        <5>2. (i - 1) - 1 = i - 2  OBVIOUS
        <5> QED  BY <5>1, <5>2
      <4> QED  BY <2>2, <3>3, <3>4, <4>1, <4>4, <4>5
    <3> QED  BY <3>5, <3>6
  <2> QED  BY <2>1, <2>2
<1>6. ASSUME NEW i \in 1..(n + 1), NEW j \in 1..(n + 1), i # j PROVE p[i] # p[j]
  <2>1. CASE i = 1  BY <1>1, <1>2, <1>6, <2>1
  <2>2. CASE j = 1  BY <1>1, <1>2, <1>6, <2>2
  <2>3. CASE i # 1 /\ j # 1
    <3>1. i - 1 \in 1..n /\ j - 1 \in 1..n /\ i - 1 # j - 1  BY <1>6, <2>3
    <3> QED  BY <3>1, <2>3, <1>0, <1>1
  <2> QED  BY <2>1, <2>2, <2>3
<1>7. h = IF n + 1 = 0 THEN None ELSE p[1]  BY <1>2
<1> HIDE DEF N, p
<1>8. Linked(p, n + 1, h, nx1, pv1, N)
  BY <1>3, <1>4, <1>5, <1>6, <1>7 DEF Linked
<1> QED  BY <1>8 DEF N

\* A handler that is taken out of a list leaves a list of the others.
LEMMA RemoveLinks ==
    ASSUME NEW M \in SUBSET AllHandlers, NEW h \in M, NEW n \in Nat, NEW q,
           NEW hd, NEW nx, NEW pv, Linked(q, n, hd, nx, pv, M),
           NEW nx1, NEW pv1, Removed(h, nx, pv, nx1, pv1)
    PROVE  /\ n - 1 \in Nat
           /\ \E p : Linked(p, n - 1, IF hd = h THEN nx[h] ELSE hd, nx1, pv1, M \ {h})
<1> DEFINE N == M \ {h}
           hd1 == IF hd = h THEN nx[h] ELSE hd
<1>0. /\ q \in [1..n -> M] /\ M = {q[i] : i \in 1..n}
      /\ hd = IF n = 0 THEN None ELSE q[1]
      /\ \A i \in 1..n : /\ nx[q[i]] = IF i = n THEN None ELSE q[i + 1]
                         /\ pv[q[i]] = IF i = 1 THEN None ELSE q[i - 1]
      /\ \A i, j \in 1..n : i # j => q[i] # q[j]
  BY DEF Linked
<1>1. PICK k \in 1..n : q[k] = h  BY <1>0
<1> DEFINE p == [i \in 1..(n - 1) |-> IF i < k THEN q[i] ELSE q[i + 1]]
           at(i) == IF i < k THEN i ELSE i + 1
<1>2. n - 1 \in Nat /\ n # 0  OBVIOUS
<1>3. \A i \in 1..n : q[i] \in M /\ q[i] \in AllHandlers /\ q[i] # None
  BY <1>0, NoneAssumption
<1>4. /\ nx[h] = IF k = n THEN None ELSE q[k + 1]
      /\ pv[h] = IF k = 1 THEN None ELSE q[k - 1]
  BY <1>0, <1>1
<1>5. \A i \in 1..(n - 1) : /\ at(i) \in 1..n /\ at(i) # k /\ p[i] = q[at(i)]
                            /\ p[i] \in N
  <2>1. ASSUME NEW i \in 1..(n - 1) PROVE at(i) \in 1..n /\ at(i) # k /\ p[i] = q[at(i)]
    BY <2>1
  <2>2. \A j \in 1..n : j # k => q[j] \in N  BY <1>0, <1>1, <1>3
  <2> HIDE DEF p, at, N
  <2> QED  BY <2>1, <2>2
<1>6. p \in [1..(n - 1) -> N]
  <2>1. p = [i \in 1..(n - 1) |-> p[i]]  OBVIOUS
  <2> HIDE DEF p, at, N
  <2> QED  BY <2>1, <1>5
<1>7. N = {p[i] : i \in 1..(n - 1)}
  <2>1. ASSUME NEW g \in N PROVE \E i \in 1..(n - 1) : g = p[i]
    <3>1. PICK j \in 1..n : g = q[j]  BY <1>0
    <3>2. j # k  BY <3>1, <1>1
    <3>3. CASE j < k
      <4>1. j \in 1..(n - 1) /\ p[j] = q[j]  BY <3>3
      <4> QED  BY <3>1, <4>1
    <3>4. CASE ~(j < k)
      <4>1. j - 1 \in 1..(n - 1) /\ ~(j - 1 < k) /\ (j - 1) + 1 = j  BY <3>2, <3>4
      <4>2. p[j - 1] = q[j]  BY <4>1
      <4> QED  BY <3>1, <4>1, <4>2
    <3> QED  BY <3>3, <3>4
  <2> HIDE DEF p, at, N
  <2> QED  BY <2>1, <1>5
<1>8. hd1 = IF n - 1 = 0 THEN None ELSE p[1]
  <2>1. hd = q[1] /\ 1 \in 1..n  BY <1>0, <1>2
  <2>2. CASE k = 1
    <3>1. hd1 = nx[h]  BY <2>1, <2>2, <1>1
    <3>2. n - 1 # 0 => p[1] = q[2]  BY <2>2
    <3> QED  BY <2>2, <3>1, <3>2, <1>4
  <2>3. CASE k # 1
    <3>1. hd # h  BY <2>1, <2>3, <1>0, <1>1
    <3>2. n - 1 # 0 /\ p[1] = q[1]  BY <2>3
    <3> QED  BY <2>1, <3>1, <3>2
  <2> QED  BY <2>2, <2>3
<1>9. ASSUME NEW i \in 1..(n - 1)
      PROVE  /\ nx1[p[i]] = IF i = n - 1 THEN None ELSE p[i + 1]
             /\ pv1[p[i]] = IF i = 1 THEN None ELSE p[i - 1]
  <2>1. CASE i < k
    <3>1. p[i] = q[i] /\ i \in 1..n /\ q[i] \in AllHandlers  BY <2>1, <1>3
    <3>2. nx1[p[i]] = IF i = n - 1 THEN None ELSE p[i + 1]
      <4>1. CASE i = k - 1
        <5>1. pv[h] = q[i]  BY <4>1, <1>4
        <5>2. nx1[p[i]] = IF k = n THEN None ELSE q[k + 1]  BY <3>1, <5>1, <1>4 DEF Removed
        <5>3. i # n - 1 => p[i + 1] = q[k + 1]  BY <4>1
        <5>4. (i = n - 1) <=> (k = n)  BY <4>1
        <5> QED  BY <5>2, <5>3, <5>4
      <4>2. CASE i # k - 1
        <5>1. i + 1 < k /\ i # n - 1 /\ i # n  BY <2>1, <4>2
        <5>2. p[i + 1] = q[i + 1]  BY <5>1
        <5>3. pv[h] # q[i]
          <6>1. k # 1 /\ k - 1 \in 1..n /\ k - 1 # i  BY <5>1
          <6> QED  BY <6>1, <3>1, <1>4, <1>0
        <5>4. nx1[p[i]] = nx[q[i]]  BY <3>1, <5>3 DEF Removed
        <5> QED  BY <5>1, <5>2, <5>4, <3>1, <1>0
      <4> QED  BY <4>1, <4>2
    <3>3. pv1[p[i]] = IF i = 1 THEN None ELSE p[i - 1]
      <4>1. nx[h] # q[i]
        <5>1. CASE k = n  BY <5>1, <3>1, <1>3, <1>4
        <5>2. CASE k # n
          <6>1. k + 1 \in 1..n /\ k + 1 # i  BY <5>2, <2>1
          <6> QED  BY <6>1, <5>2, <3>1, <1>4, <1>0
        <5> QED  BY <5>1, <5>2
      <4>2. pv1[p[i]] = IF i = 1 THEN None ELSE q[i - 1]
        BY <3>1, <4>1, <1>0 DEF Removed
      <4>3. i # 1 => p[i - 1] = q[i - 1]  BY <2>1
      <4> QED  BY <4>2, <4>3
    <3> QED  BY <3>2, <3>3
  <2>2. CASE ~(i < k)
    <3>1. p[i] = q[i + 1] /\ i + 1 \in 1..n /\ q[i + 1] \in AllHandlers  BY <2>2, <1>3
    <3>2. nx1[p[i]] = IF i = n - 1 THEN None ELSE p[i + 1]
      <4>1. pv[h] # q[i + 1]
        <5>1. CASE k = 1  BY <5>1, <3>1, <1>3, <1>4
        <5>2. CASE k # 1
          <6>1. k - 1 \in 1..n /\ k - 1 # i + 1  BY <5>2, <2>2
          <6> QED  BY <6>1, <5>2, <3>1, <1>4, <1>0
        <5> QED  BY <5>1, <5>2
      <4>2. nx1[p[i]] = nx[q[i + 1]]  BY <3>1, <4>1 DEF Removed
      <4>3. nx[q[i + 1]] = IF i + 1 = n THEN None ELSE q[(i + 1) + 1]  BY <3>1, <1>0
      <4>4. i # n - 1 => p[i + 1] = q[(i + 1) + 1]  BY <2>2
      <4>5. (i + 1 = n) <=> (i = n - 1)  OBVIOUS
      <4> QED  BY <4>2, <4>3, <4>4, <4>5
    <3>3. pv1[p[i]] = IF i = 1 THEN None ELSE p[i - 1]
      <4>1. CASE i = k
        <5>1. k # n /\ nx[h] = q[i + 1]  BY <4>1, <1>4
        <5>2. pv1[p[i]] = IF k = 1 THEN None ELSE q[k - 1]
          BY <3>1, <5>1, <1>4 DEF Removed
        <5>3. i # 1 => p[i - 1] = q[k - 1]  BY <4>1
        <5> QED  BY <4>1, <5>2, <5>3
      <4>2. CASE i # k
        <5>1. ~(i - 1 < k) /\ i - 1 \in 1..(n - 1) /\ i # 1 /\ i + 1 # 1 /\ (i - 1) + 1 = i
          BY <2>2, <4>2
        <5>2. p[i - 1] = q[i]  BY <5>1
        <5>3. nx[h] # q[i + 1]
          <6>1. k # n /\ k + 1 \in 1..n /\ k + 1 # i + 1  BY <2>2, <4>2
          <6> QED  BY <6>1, <3>1, <1>4, <1>0
        <5>4. pv1[p[i]] = pv[q[i + 1]]  BY <3>1, <5>3 DEF Removed
        <5>5. pv[q[i + 1]] = q[(i + 1) - 1]  BY <3>1, <5>1, <1>0
        <5>6. (i + 1) - 1 = i  OBVIOUS
        <5> QED  BY <5>1, <5>2, <5>4, <5>5, <5>6
      <4> QED  BY <4>1, <4>2
    <3> QED  BY <3>2, <3>3
  <2> QED  BY <2>1, <2>2
<1>10. ASSUME NEW i \in 1..(n - 1), NEW j \in 1..(n - 1), i # j PROVE p[i] # p[j]
  <2>1. at(i) # at(j)  BY <1>10
  <2> HIDE DEF p, at
  <2> QED  BY <2>1, <1>5, <1>0
<1> HIDE DEF N, p, hd1
<1>11. Linked(p, n - 1, hd1, nx1, pv1, N)
  BY <1>6, <1>7, <1>8, <1>9, <1>10 DEF Linked
<1> QED  BY <1>2, <1>11 DEF N, hd1

\* What a list says of its ends and links: who comes next is another member.
LEMMA LinkedFacts ==
    ASSUME NEW M \in SUBSET AllHandlers, NEW n \in Nat, NEW q, NEW hd, NEW nx, NEW pv,
           Linked(q, n, hd, nx, pv, M)
    PROVE  /\ n = 0 <=> M = {}
           /\ n # 0 => hd \in M
           /\ n = 0 => hd = None
           /\ \A h \in M : nx[h] \in (M \ {h}) \cup {None}
           /\ \A h \in M : n = 1 <=> M = {h}
<1>0. /\ q \in [1..n -> M] /\ M = {q[i] : i \in 1..n}
      /\ hd = IF n = 0 THEN None ELSE q[1]
      /\ \A i \in 1..n : nx[q[i]] = IF i = n THEN None ELSE q[i + 1]
      /\ \A i, j \in 1..n : i # j => q[i] # q[j]
  BY DEF Linked
<1>1. ASSUME n # 0 PROVE 1 \in 1..n /\ n \in 1..n /\ hd = q[1] /\ hd \in M
  BY <1>0, <1>1
<1>2. n = 0 => M = {}
  <2>1. n = 0 => 1..n = {}  OBVIOUS
  <2> QED  BY <1>0, <2>1
<1>3. ASSUME NEW h \in M PROVE nx[h] \in (M \ {h}) \cup {None}
  <2>1. PICK i \in 1..n : h = q[i]  BY <1>0
  <2>2. CASE i = n  BY <2>1, <2>2, <1>0
  <2>3. CASE i # n
    <3>1. i + 1 \in 1..n /\ i + 1 # i  BY <2>3
    <3> QED  BY <2>1, <2>3, <3>1, <1>0
  <2> QED  BY <2>2, <2>3
<1>4. ASSUME NEW h \in M PROVE n = 1 <=> M = {h}
  <2>1. ASSUME n = 1 PROVE M = {h}
    <3>1. \A i \in 1..n : i = 1  BY <2>1
    <3> QED  BY <3>1, <1>0
  <2>2. ASSUME n # 1 PROVE M # {h}
    <3>1. n # 0  BY <1>2
    <3>2. 1 \in 1..n /\ n \in 1..n /\ 1 # n  BY <2>2, <3>1
    <3>3. q[1] \in M /\ q[n] \in M /\ q[1] # q[n]  BY <3>2, <1>0
    <3> QED  BY <3>3
  <2> QED  BY <2>1, <2>2
<1> QED  BY <1>0, <1>1, <1>2, <1>3, <1>4

-----------------------------------------------------------------------------
(* The invariant. *)

\* A repository that exists: its list, its walk and its signal.
Alive ==
    /\ \E q : Linked(q, handlersCount, head, next, prev, Members)
    /\ nextToBeFinished \in Members \cup {None}
    /\ asking = None => nextToBeFinished = None
    /\ stopped = IF isStopping /\ Members = {} THEN 1 ELSE 0

LEMMA InvariantIsAlive == RepositoryInvariant <=> RepositoryTypeOK /\ (exists => Alive)
  BY ListIsLinked DEF RepositoryInvariant, Alive

\* Steps that change neither the links nor who is a member.
LEMMA AskKeeps ==
    ASSUME RepositoryTypeOK, Alive, exists, NEW h \in Members, Ask(h), isStopping' \in BOOLEAN,
           UNCHANGED <<head, next, prev, handlersCount, exists, stopped>>,
           stopped = 0
    PROVE  RepositoryTypeOK' /\ Alive'
<1>1. PICK q : Linked(q, handlersCount, head, next, prev, Members)  BY DEF Alive
<1>2. Members \in SUBSET AllHandlers /\ h \in AllHandlers  BY DEF Members, Silenced
<1>3. next[h] \in Members \cup {None}  BY <1>1, <1>2, LinkedFacts DEF RepositoryTypeOK
<1>4. Members' = Members  BY DEF Ask, Members, Silenced, RepositoryTypeOK, Lives
<1>5. h # None /\ asking' = h /\ nextToBeFinished' = next[h]
  BY <1>2, NoneAssumption DEF Ask
<1>6. life' \in [AllHandlers -> Lives]  BY DEF Ask, RepositoryTypeOK, Lives
<1>7. RepositoryTypeOK'  BY <1>2, <1>3, <1>5, <1>6 DEF RepositoryTypeOK, Members, Silenced
<1>8. Linked(q, handlersCount, head, next, prev, Members)'  BY <1>1, <1>4 DEF Linked
<1>9. Members # {}  OBVIOUS
<1> QED  BY <1>3, <1>4, <1>5, <1>7, <1>8, <1>9 DEF Alive

\* Whatever the order in which handlers are added and finish, also from inside the
\* finish() that stop() calls, add() and onHandlerFinished() keep the list exact
\* and stop() goes on with a member of it (ConnectionHandlerRepository.cpp 37-91).
THEOREM RepositoryIsInvariant == RepositorySpec => []RepositoryInvariant
<1>1. RepositoryInit => RepositoryTypeOK /\ Alive
  <2> SUFFICES ASSUME RepositoryInit PROVE RepositoryTypeOK /\ Alive  OBVIOUS
  <2>1. RepositoryTypeOK  BY DEF RepositoryInit, RepositoryTypeOK, Lives
  <2>2. Members = {}  BY DEF RepositoryInit, Members, Silenced
  <2>3. Linked([i \in 1..0 |-> None], handlersCount, head, next, prev, Members)
    BY <2>2 DEF RepositoryInit, Linked
  <2> QED  BY <2>1, <2>2, <2>3 DEF RepositoryInit, Alive
<1>2. RepositoryTypeOK /\ (exists => Alive) /\ [RepositoryNext]_repositoryVars => RepositoryTypeOK' /\ (exists' => Alive')
  <2> SUFFICES ASSUME RepositoryTypeOK, exists => Alive, [RepositoryNext]_repositoryVars
               PROVE  RepositoryTypeOK' /\ (exists' => Alive')
    OBVIOUS
  <2>0. Members \in SUBSET AllHandlers  BY DEF Members, Silenced
  <2>1. ASSUME NEW h \in AllHandlers, Add(h) PROVE RepositoryTypeOK' /\ (exists' => Alive')
    <3>1. exists /\ Alive /\ life[h] = "new" /\ h \notin Members  BY <2>1 DEF Add, Members, Silenced
    <3>2. PICK q : Linked(q, handlersCount, head, next, prev, Members)  BY <3>1 DEF Alive
    <3>3. CASE isStopping
      <4>1. Members' = Members  BY <2>1, <3>1, <3>3 DEF Add, Members, Silenced, RepositoryTypeOK
      <4>2. RepositoryTypeOK'  BY <2>1, <3>3 DEF Add, RepositoryTypeOK, Lives
      <4>3. Linked(q, handlersCount, head, next, prev, Members)'
        BY <2>1, <3>2, <3>3, <4>1 DEF Add, Linked
      <4> QED  BY <2>1, <3>1, <4>1, <4>2, <4>3 DEF Add, Alive
    <3>4. CASE ~isStopping
      <4>1. Members' = Members \cup {h}  BY <2>1, <3>1, <3>4 DEF Add, Members, Silenced, RepositoryTypeOK
      <4>2. RepositoryTypeOK'  BY <2>1, <3>4 DEF Add, Links, RepositoryTypeOK, Lives
      <4>3. next \in Links0 /\ prev \in Links0 /\ handlersCount \in Nat
        BY DEF RepositoryTypeOK, Links0
      <4>4. \E p : Linked(p, handlersCount', head', next', prev', Members')
        <5>1. /\ head' = h /\ handlersCount' = handlersCount + 1
              /\ Pushed(h, head, next, prev, next', prev')
          BY <2>1, <3>4, <4>3 DEF Add, Links, Links0, Pushed
        <5>2. h \in AllHandlers \ Members  BY <3>1
        <5>3. \E p : Linked(p, handlersCount + 1, h, next', prev', Members \cup {h})
          BY <2>0, <3>2, <4>3, <5>1, <5>2, PushLinks
        <5> QED  BY <4>1, <5>1, <5>3
      <4>5. stopped = 0 /\ stopped' = stopped /\ ~isStopping'
        BY <2>1, <3>1, <3>4 DEF Add, Alive
      <4> QED  BY <2>1, <3>1, <4>1, <4>2, <4>4, <4>5 DEF Add, Alive
    <3> QED  BY <3>3, <3>4
  <2>2. ASSUME NEW h \in AllHandlers, OnHandlerFinished(h) PROVE RepositoryTypeOK' /\ (exists' => Alive')
    <3>1. exists /\ Alive /\ h \in Members  BY <2>2 DEF OnHandlerFinished
    <3>2. PICK q : Linked(q, handlersCount, head, next, prev, Members)  BY <3>1 DEF Alive
    <3>3. next \in Links0 /\ prev \in Links0 /\ handlersCount \in Nat
      BY DEF RepositoryTypeOK, Links0
    <3>4. Members' = Members \ {h}  BY <2>2, <3>1 DEF OnHandlerFinished, Members, Silenced, RepositoryTypeOK
    <3>5. /\ head' = IF head = h THEN next[h] ELSE head
          /\ next' = [g \in AllHandlers |-> IF prev[h] = g THEN next[h] ELSE next[g]]
          /\ prev' = [g \in AllHandlers |-> IF next[h] = g THEN prev[h] ELSE prev[g]]
          /\ nextToBeFinished' = IF nextToBeFinished = h THEN next[h] ELSE nextToBeFinished
          /\ handlersCount' = handlersCount - 1
          /\ UNCHANGED <<isStopping, asking, exists>>
      BY <2>2 DEF OnHandlerFinished, Unlinks
    <3>6. /\ handlersCount - 1 \in Nat
          /\ \E p : Linked(p, handlersCount', head', next', prev', Members')
      <4>0. Removed(h, next, prev, next', prev')  BY <3>5 DEF Removed
      <4>1. /\ handlersCount - 1 \in Nat
            /\ \E p : Linked(p, handlersCount - 1, IF head = h THEN next[h] ELSE head,
                             next', prev', Members \ {h})
        BY <2>0, <3>1, <3>2, <3>3, <4>0, RemoveLinks
      <4> QED  BY <3>4, <3>5, <4>1
    <3>7. /\ next[h] \in Members' \cup {None}
          /\ handlersCount = 1 <=> Members = {h}
          /\ handlersCount # 0 /\ Members # {}
      BY <2>0, <3>1, <3>2, <3>3, <3>4, LinkedFacts
    <3>8. stopped = 0  BY <3>1, <3>7 DEF Alive
    <3>9. stopped' = IF isStopping' /\ Members' = {} THEN 1 ELSE 0
      <4>1. (handlersCount' = 0) <=> (Members' = {})
        BY <3>1, <3>3, <3>4, <3>5, <3>7
      <4>2. stopped' = IF isStopping /\ handlersCount' = 0 THEN stopped + 1 ELSE stopped
        BY <2>2 DEF OnHandlerFinished
      <4> QED  BY <3>5, <3>8, <4>1, <4>2
    <3>10. nextToBeFinished' \in Members' \cup {None}
      BY <3>1, <3>4, <3>5, <3>7 DEF Alive
    <3>11. asking' = None => nextToBeFinished' = None
      <4>1. h # None  BY <2>2, NoneAssumption
      <4> QED  BY <3>1, <3>5, <4>1 DEF Alive
    <3>12. RepositoryTypeOK'
      <4>1. life' \in [AllHandlers -> Lives]  BY <2>2 DEF OnHandlerFinished, RepositoryTypeOK, Lives
      <4>2. next' \in Links0 /\ prev' \in Links0  BY <2>2, <3>3, <3>5 DEF Links0
      <4>3. head' \in AllHandlers \cup {None}  BY <2>2, <3>5 DEF RepositoryTypeOK
      <4>4. stopped' \in Nat  BY <3>9
      <4>5. nextToBeFinished' \in AllHandlers \cup {None}  BY <3>10 DEF Members, Silenced
      <4>6. handlersCount' \in Nat  BY <3>5, <3>6
      <4> QED  BY <3>5, <4>1, <4>2, <4>3, <4>4, <4>5, <4>6 DEF RepositoryTypeOK, Links0
    <3> QED  BY <3>6, <3>9, <3>10, <3>11, <3>12 DEF Alive
  <2>3. CASE Stop
    <3>1. exists /\ Alive /\ ~isStopping /\ stopped = 0 /\ handlersCount \in Nat
      BY <2>3 DEF Stop, Alive, RepositoryTypeOK
    <3>2. PICK q : Linked(q, handlersCount, head, next, prev, Members)  BY <3>1 DEF Alive
    <3>3. CASE handlersCount = 0
      <4>1. Members = {}  BY <2>0, <3>1, <3>2, <3>3, LinkedFacts
      <4>2. Members' = Members  BY <2>3, <3>3 DEF Stop, Members, Silenced
      <4>3. RepositoryTypeOK'  BY <2>3, <3>3 DEF Stop, RepositoryTypeOK
      <4>4. Linked(q, handlersCount, head, next, prev, Members)'
        BY <2>3, <3>2, <3>3, <4>2 DEF Stop, Linked
      <4> QED  BY <2>3, <3>1, <3>3, <4>1, <4>2, <4>3, <4>4 DEF Stop, Alive
    <3>4. CASE handlersCount # 0
      <4>1. head \in Members  BY <2>0, <3>1, <3>2, <3>4, LinkedFacts
      <4>2. Ask(head) /\ isStopping' \in BOOLEAN
            /\ UNCHANGED <<head, next, prev, handlersCount, exists, stopped>>
        BY <2>3, <3>4 DEF Stop
      <4> QED  BY <3>1, <4>1, <4>2, AskKeeps
    <3> QED  BY <3>3, <3>4
  <2>4. CASE FinishReturns
    <3>1. CASE ~exists
      <4>1. RepositoryTypeOK'
        <5>1. CASE nextToBeFinished # None
          <6>1. nextToBeFinished \in AllHandlers  BY <5>1 DEF RepositoryTypeOK
          <6> QED  BY <2>4, <5>1, <6>1 DEF FinishReturns, Ask, RepositoryTypeOK, Lives
        <5>2. CASE nextToBeFinished = None
          BY <2>4, <5>2 DEF FinishReturns, RepositoryTypeOK
        <5> QED  BY <5>1, <5>2
      <4> QED  BY <2>4, <3>1, <4>1 DEF FinishReturns
    <3>2. CASE exists /\ nextToBeFinished # None
      <4>1. nextToBeFinished \in Members /\ Alive  BY <3>2 DEF Alive
      <4>2. stopped = 0  BY <4>1 DEF Alive
      <4>3. isStopping' \in BOOLEAN  BY <2>4 DEF FinishReturns, RepositoryTypeOK
      <4>4. Ask(nextToBeFinished) /\ UNCHANGED <<head, next, prev, handlersCount,
                                                isStopping, exists, stopped>>
        BY <2>4, <3>2 DEF FinishReturns
      <4> QED  BY <3>2, <4>1, <4>2, <4>3, <4>4, AskKeeps
    <3>3. CASE exists /\ nextToBeFinished = None
      <4>1. /\ asking' = None
            /\ UNCHANGED <<head, next, prev, handlersCount, isStopping, exists, life,
                           stopped, nextToBeFinished>>
        BY <2>4, <3>3 DEF FinishReturns
      <4>2. Members' = Members  BY <4>1 DEF Members, Silenced
      <4>3. RepositoryTypeOK'  BY <4>1 DEF RepositoryTypeOK
      <4>4. PICK q : Linked(q, handlersCount, head, next, prev, Members)
        BY <3>3 DEF Alive
      <4>5. Linked(q, handlersCount, head, next, prev, Members)'
        BY <4>1, <4>2, <4>4 DEF Linked
      <4> QED  BY <3>3, <4>1, <4>2, <4>3, <4>5 DEF Alive
    <3> QED  BY <3>1, <3>2, <3>3
  <2>5. CASE DeleteScheduled
    <3>1. Members' = Members  BY <2>5 DEF DeleteScheduled, Members, Silenced, RepositoryTypeOK
    <3>2. RepositoryTypeOK'  BY <2>5 DEF DeleteScheduled, RepositoryTypeOK, Lives
    <3>3. ASSUME exists PROVE Alive'
      <4>1. PICK q : Linked(q, handlersCount, head, next, prev, Members)
        BY <3>3 DEF Alive
      <4>2. Linked(q, handlersCount, head, next, prev, Members)'
        BY <2>5, <3>1, <4>1 DEF DeleteScheduled, Linked
      <4> QED  BY <2>5, <3>1, <3>3, <4>2 DEF DeleteScheduled, Alive
    <3> QED  BY <2>5, <3>2, <3>3 DEF DeleteScheduled
  <2>6. CASE Destroy
    BY <2>6 DEF Destroy, RepositoryTypeOK, Lives
  <2>7. CASE UNCHANGED repositoryVars
    <3>1. Members' = Members  BY <2>7 DEF repositoryVars, Members, Silenced
    <3>2. RepositoryTypeOK'  BY <2>7 DEF repositoryVars, RepositoryTypeOK
    <3>3. ASSUME exists PROVE Alive'
      <4>1. PICK q : Linked(q, handlersCount, head, next, prev, Members)
        BY <3>3 DEF Alive
      <4>2. Linked(q, handlersCount, head, next, prev, Members)'
        BY <2>7, <3>1, <4>1 DEF repositoryVars, Linked
      <4> QED  BY <2>7, <3>1, <3>3, <4>2 DEF repositoryVars, Alive
    <3> QED  BY <2>7, <3>2, <3>3 DEF repositoryVars
  <2> QED  BY <2>1, <2>2, <2>3, <2>4, <2>5, <2>6, <2>7 DEF RepositoryNext
<1> QED  BY <1>1, <1>2, InvariantIsAlive, PTL DEF RepositorySpec

-----------------------------------------------------------------------------
(* The walk: what the links lead to from a handler on. *)

\* S holds x, unless x is None, and whatever the links nx lead to from S.
Closed(S, x, nx) ==
    /\ S \in SUBSET AllHandlers
    /\ x \in S \cup {None}
    /\ \A f \in S : nx[f] \in S \cup {None}

Reach(x, nx) == {g \in AllHandlers : \A S \in SUBSET AllHandlers : Closed(S, x, nx) => g \in S}

LEMMA FromIsReach == From(nextToBeFinished) = Reach(nextToBeFinished, next)
  BY DEF From, Reach, Closed

LEMMA NothingFromNone == ASSUME NEW nx PROVE Reach(None, nx) = {}
<1>1. Closed({}, None, nx)  BY DEF Closed
<1> QED  BY <1>1 DEF Reach

\* From its head on, a list leads to all of its members.
LEMMA AllFromHead ==
    ASSUME NEW M \in SUBSET AllHandlers, NEW n \in Nat \ {0}, NEW q,
           NEW hd, NEW nx, NEW pv, Linked(q, n, hd, nx, pv, M)
    PROVE  Reach(hd, nx) = M
<1>0. /\ q \in [1..n -> M] /\ M = {q[i] : i \in 1..n}
      /\ hd = q[1] /\ 1 \in 1..n
      /\ \A i \in 1..n : nx[q[i]] = IF i = n THEN None ELSE q[i + 1]
  BY DEF Linked
<1>1. Closed(M, hd, nx)
  <2>1. hd \in M  BY <1>0
  <2>2. ASSUME NEW f \in M PROVE nx[f] \in M \cup {None}
    <3>1. PICK i \in 1..n : f = q[i]  BY <1>0
    <3>2. i # n => i + 1 \in 1..n  BY <3>1
    <3> QED  BY <1>0, <3>1, <3>2
  <2> QED  BY <2>1, <2>2 DEF Closed
<1>2. ASSUME NEW S, Closed(S, hd, nx), NEW j \in 1..n PROVE q[j] \in S
  <2> DEFINE T == {i \in 1..n : q[i] \notin S}
  <2>1. SUFFICES ASSUME T # {} PROVE FALSE  OBVIOUS
  <2>2. T \subseteq Nat  OBVIOUS
  <2>3. PICK k \in T : \A i \in T : ~(<<i, k>> \in OpToRel(<, Nat))
    <3> HIDE DEF T
    <3> QED  BY <2>1, <2>2, NatLessThanWellFounded, WFMin
  <2>4. k \in 1..n /\ q[k] \notin S  OBVIOUS
  <2>5. k # 1
    <3>1. hd # None  BY <1>0, NoneAssumption
    <3> QED  BY <1>0, <1>2, <2>4, <3>1 DEF Closed
  <2>6. k - 1 \in 1..n /\ k - 1 \in Nat /\ k - 1 < k /\ (k - 1) + 1 = k /\ k - 1 # n
    BY <2>4, <2>5
  <2>7. <<k - 1, k>> \in OpToRel(<, Nat)  BY <2>4, <2>6 DEF OpToRel
  <2>8. q[k - 1] \in S  BY <2>3, <2>6, <2>7
  <2>9. nx[q[k - 1]] = q[k]  BY <1>0, <2>6
  <2>10. q[k] \in S \cup {None}  BY <1>2, <2>8, <2>9 DEF Closed
  <2>11. q[k] # None  BY <1>0, <2>4, NoneAssumption
  <2> QED  BY <2>4, <2>10, <2>11
<1>3. M \subseteq Reach(hd, nx)  BY <1>0, <1>2 DEF Reach
<1> QED  BY <1>1, <1>3 DEF Reach

\* From the next handler on, a list leads to what it leads to from h on, without h.
LEMMA NextIsFromWithout ==
    ASSUME NEW M \in SUBSET AllHandlers, NEW n \in Nat, NEW q, NEW h \in M,
           NEW hd, NEW nx, NEW pv, Linked(q, n, hd, nx, pv, M)
    PROVE  Reach(nx[h], nx) = Reach(h, nx) \ {h} /\ h \in Reach(h, nx)
<1>0. /\ q \in [1..n -> M] /\ M = {q[i] : i \in 1..n}
      /\ \A i \in 1..n : nx[q[i]] = IF i = n THEN None ELSE q[i + 1]
      /\ \A i, j \in 1..n : i # j => q[i] # q[j]
      /\ h # None /\ h \in AllHandlers
  BY NoneAssumption DEF Linked
<1>1. h \in Reach(h, nx)  BY <1>0 DEF Reach, Closed
<1>2. ASSUME NEW g \in Reach(h, nx), g # h PROVE g \in Reach(nx[h], nx)
  <2> SUFFICES ASSUME NEW S \in SUBSET AllHandlers, Closed(S, nx[h], nx) PROVE g \in S
    BY DEF Reach
  <2>1. Closed(S \cup {h}, h, nx)  BY <1>0 DEF Closed
  <2> QED  BY <1>2, <2>1 DEF Reach, Closed
<1>3. ASSUME NEW g \in Reach(nx[h], nx) PROVE g \in Reach(h, nx)
  <2> SUFFICES ASSUME NEW S \in SUBSET AllHandlers, Closed(S, h, nx) PROVE g \in S
    BY <1>3 DEF Reach
  <2>1. Closed(S, nx[h], nx)  BY <1>0 DEF Closed
  <2> QED  BY <1>3, <2>1 DEF Reach
<1>4. h \notin Reach(nx[h], nx)
  <2>1. PICK k \in 1..n : h = q[k]  BY <1>0
  <2> DEFINE S == {q[i] : i \in (k + 1)..n}
  <2>2. \A i \in (k + 1)..n : i \in 1..n /\ i # k /\ q[i] \in AllHandlers  BY <1>0, <2>1
  <2>3. nx[h] \in S \cup {None}
    <3>1. k # n => k + 1 \in (k + 1)..n  BY <2>1
    <3> QED  BY <1>0, <2>1, <3>1
  <2>4. ASSUME NEW f \in S PROVE nx[f] \in S \cup {None}
    <3>1. PICK i \in (k + 1)..n : f = q[i]  OBVIOUS
    <3>2. i # n => i + 1 \in (k + 1)..n  BY <3>1
    <3> QED  BY <1>0, <2>2, <3>1, <3>2
  <2>5. S \in SUBSET AllHandlers /\ h \notin S  BY <1>0, <2>1, <2>2
  <2>6. Closed(S, nx[h], nx)  BY <2>3, <2>4, <2>5 DEF Closed
  <2> QED  BY <2>5, <2>6 DEF Reach
<1> QED  BY <1>1, <1>2, <1>3, <1>4

\* Who comes before h is who points to h.
LEMMA PreviousPoints ==
    ASSUME NEW M \in SUBSET AllHandlers, NEW n \in Nat, NEW q, NEW h \in M, NEW f \in M,
           NEW hd, NEW nx, NEW pv, Linked(q, n, hd, nx, pv, M)
    PROVE  pv[h] = f <=> nx[f] = h
<1>0. /\ q \in [1..n -> M] /\ M = {q[i] : i \in 1..n}
      /\ \A i \in 1..n : /\ nx[q[i]] = IF i = n THEN None ELSE q[i + 1]
                         /\ pv[q[i]] = IF i = 1 THEN None ELSE q[i - 1]
      /\ \A i, j \in 1..n : i # j => q[i] # q[j]
      /\ h # None /\ f # None
  BY NoneAssumption DEF Linked
<1>1. PICK k \in 1..n : h = q[k]  BY <1>0
<1>2. PICK i \in 1..n : f = q[i]  BY <1>0
<1>3. pv[h] = f => nx[f] = h
  <2> SUFFICES ASSUME pv[h] = f PROVE nx[f] = h  OBVIOUS
  <2>1. k # 1 /\ q[k - 1] = f  BY <1>0, <1>1
  <2>2. k - 1 \in 1..n /\ k - 1 # n /\ (k - 1) + 1 = k  BY <1>1, <2>1
  <2> QED  BY <1>0, <1>1, <2>1, <2>2
<1>4. nx[f] = h => pv[h] = f
  <2> SUFFICES ASSUME nx[f] = h PROVE pv[h] = f  OBVIOUS
  <2>1. i # n /\ q[i + 1] = h  BY <1>0, <1>2
  <2>2. i + 1 \in 1..n /\ i + 1 # 1 /\ (i + 1) - 1 = i  BY <1>2, <2>1
  <2> QED  BY <1>0, <1>2, <2>1, <2>2
<1> QED  BY <1>3, <1>4

\* Taking a handler out takes it out of what every place of the walk leads to.
LEMMA RemovalLeavesWalk ==
    ASSUME NEW M \in SUBSET AllHandlers, NEW n \in Nat, NEW q, NEW h \in M,
           NEW hd, NEW nx, NEW pv, Linked(q, n, hd, nx, pv, M),
           NEW nx1, NEW pv1, Removed(h, nx, pv, nx1, pv1),
           NEW x \in M \cup {None}
    PROVE  Reach(IF x = h THEN nx[h] ELSE x, nx1) = Reach(x, nx) \ {h}
<1> DEFINE y == IF x = h THEN nx[h] ELSE x
<1>1. h # None /\ h \in AllHandlers  BY NoneAssumption
<1>2. \A f \in M : nx[f] \in M \cup {None} /\ nx[f] # f
  BY LinkedFacts, NoneAssumption
<1>3. \A f \in M : nx1[f] = IF nx[f] = h THEN nx[h] ELSE nx[f]
  BY PreviousPoints DEF Removed
<1>4. y \in (M \ {h}) \cup {None}  BY <1>1, <1>2
<1>5. \A f \in M \ {h} : nx1[f] \in (M \ {h}) \cup {None}  BY <1>1, <1>2, <1>3
<1>6. ASSUME NEW S, Closed(S, x, nx) PROVE Closed((S \cap M) \ {h}, y, nx1)
  <2> DEFINE T == (S \cap M) \ {h}
  <2>1. h \in S => nx[h] \in S \cup {None}  BY <1>6 DEF Closed
  <2>2. y \in T \cup {None}  BY <1>1, <1>4, <1>6, <2>1 DEF Closed
  <2>3. ASSUME NEW f \in T PROVE nx1[f] \in T \cup {None}
    <3>1. nx[f] \in S \cup {None} /\ nx1[f] \in (M \ {h}) \cup {None}
      BY <1>5, <1>6 DEF Closed
    <3> QED  BY <1>1, <1>3, <2>1, <3>1
  <2>4. T \in SUBSET AllHandlers  OBVIOUS
  <2> QED  BY <2>2, <2>3, <2>4 DEF Closed
<1>7. ASSUME NEW g \in Reach(y, nx1) PROVE g \in Reach(x, nx) \ {h}
  <2>1. Closed(M, x, nx)  BY <1>2 DEF Closed
  <2>2. g # h  BY <1>6, <1>7, <2>1 DEF Reach, Closed
  <2>3. ASSUME NEW S \in SUBSET AllHandlers, Closed(S, x, nx) PROVE g \in S
    <3>1. Closed((S \cap M) \ {h}, y, nx1)  BY <1>6, <2>3
    <3>2. g \in (S \cap M) \ {h}  BY <1>7, <3>1 DEF Reach, Closed
    <3> QED  BY <3>2
  <2> QED  BY <1>7, <2>2, <2>3 DEF Reach
<1>8. ASSUME NEW g \in Reach(x, nx) \ {h} PROVE g \in Reach(y, nx1)
  <2> SUFFICES ASSUME NEW S \in SUBSET AllHandlers, Closed(S, y, nx1) PROVE g \in S
    BY <1>8 DEF Reach
  <2> DEFINE T == S \cap (M \ {h})
  <2>1. y \in T \cup {None}  BY <1>4 DEF Closed
  <2>2. \A f \in T : nx1[f] \in T \cup {None}  BY <1>5 DEF Closed
  <2>3. T \subseteq M \ {h} /\ T \subseteq S  OBVIOUS
  <2> HIDE DEF T
  <2>4. CASE nx[h] \in T \cup {None}
    <3>1. \A f \in T : nx[f] \in T \cup {h, None}  BY <1>3, <2>2, <2>3
    <3>2. x \in T \cup {h, None}  BY <2>1
    <3>3. T \cup {h} \in SUBSET AllHandlers  BY <1>1, <2>3
    <3>4. Closed(T \cup {h}, x, nx)  BY <2>4, <3>1, <3>2, <3>3 DEF Closed
    <3>5. g \in T \cup {h}  BY <1>8, <3>3, <3>4 DEF Reach
    <3> QED  BY <1>8, <2>3, <3>5
  <2>5. CASE nx[h] \notin T \cup {None}
    <3>1. x # h  BY <2>1, <2>5
    <3>2. \A f \in T : nx[f] # h  BY <1>3, <2>2, <2>3, <2>5
    <3>3. \A f \in T : nx[f] \in T \cup {None}  BY <1>3, <2>2, <2>3, <3>2
    <3>4. T \in SUBSET AllHandlers  BY <2>3
    <3>5. Closed(T, x, nx)  BY <2>1, <3>1, <3>3, <3>4 DEF Closed
    <3> QED  BY <1>8, <2>3, <3>4, <3>5 DEF Reach
  <2> QED  BY <2>4, <2>5
<1> QED  BY <1>7, <1>8

-----------------------------------------------------------------------------
(* The repository implements a set of handlers. *)

\* What the refinement needs beyond the invariant: a repository asks only while it
\* is stopping, and one that is destroyed has no members and asks nobody.
Walks ==
    /\ ~isStopping => asking = None /\ nextToBeFinished = None
    /\ ~exists => Members = {} /\ isStopping /\ asking = None /\ nextToBeFinished = None

LEMMA StepWalks == RepositoryInvariant /\ Walks /\ [RepositoryNext]_repositoryVars => Walks'
<1> SUFFICES ASSUME RepositoryTypeOK, exists => Alive, Walks, [RepositoryNext]_repositoryVars PROVE Walks'
  BY InvariantIsAlive
<1>1. ASSUME NEW h \in AllHandlers, Add(h) PROVE Walks'
  BY <1>1 DEF Add, Walks
<1>2. ASSUME NEW h \in AllHandlers, OnHandlerFinished(h) PROVE Walks'
  <2>1. h # None  BY NoneAssumption
  <2> QED  BY <1>2, <2>1 DEF OnHandlerFinished, Unlinks, Walks
<1>3. CASE Stop  BY <1>3 DEF Stop, Walks
<1>4. CASE FinishReturns  BY <1>4 DEF FinishReturns, Walks
<1>5. CASE DeleteScheduled
  <2>1. Members' = Members  BY <1>5 DEF DeleteScheduled, Members, Silenced, RepositoryTypeOK
  <2> QED  BY <1>5, <2>1 DEF DeleteScheduled, Walks
<1>6. CASE Destroy
  <2>1. Members' = {}  BY <1>6 DEF Destroy, Members, Silenced, RepositoryTypeOK
  <2>2. nextToBeFinished = None  BY <1>6 DEF Destroy, Alive
  <2> QED  BY <1>6, <2>1, <2>2 DEF Destroy, Walks
<1>7. CASE UNCHANGED repositoryVars
  <2>1. Members' = Members  BY <1>7 DEF repositoryVars, Members, Silenced
  <2> QED  BY <1>7, <2>1 DEF repositoryVars, Walks
<1> QED  BY <1>1, <1>2, <1>3, <1>4, <1>5, <1>6, <1>7 DEF RepositoryNext

\* What the walk has still to go is the same after a step that leaves it and the links.
LEMMA SameWalk ==
    ASSUME next' = next, nextToBeFinished' = nextToBeFinished
    PROVE  From(nextToBeFinished)' = From(nextToBeFinished)
  BY DEF From

LEMMA WalkOver ==
    ASSUME nextToBeFinished = None
    PROVE  From(nextToBeFinished) = {}
  BY FromIsReach, NothingFromNone

LEMMA WalkOverNext ==
    ASSUME nextToBeFinished' = None
    PROVE  From(nextToBeFinished)' = {}
<1>1. From(nextToBeFinished)' = Reach(None, next')  BY DEF From, Reach, Closed
<1> QED  BY <1>1, NothingFromNone

\* Each handler of the walk is asked by a step of the set.
LEMMA AskImplements ==
    ASSUME RepositoryTypeOK, Alive, NEW h \in Members, Ask(h), next' = next
    PROVE  /\ Members' = Members /\ asking' = h
           /\ From(nextToBeFinished)' = Reach(h, next) \ {h}
           /\ h \in Reach(h, next)
<1>1. PICK q : Linked(q, handlersCount, head, next, prev, Members)  BY DEF Alive
<1>2. Members \in SUBSET AllHandlers /\ handlersCount \in Nat  BY DEF Members, Silenced, RepositoryTypeOK
<1>3. Members' = Members  BY DEF Ask, Members, Silenced, RepositoryTypeOK, Lives
<1>4. asking' = h /\ nextToBeFinished' = next[h]  BY DEF Ask
<1>5. From(nextToBeFinished)' = Reach(next[h], next)
  BY <1>4 DEF From, Reach, Closed
<1> QED  BY <1>1, <1>2, <1>3, <1>4, <1>5, NextIsFromWithout

LEMMA RepositoryStepImplements ==
    RepositoryInvariant /\ Walks /\ [RepositoryNext]_repositoryVars => [Set!Next]_Set!vars
<1> SUFFICES ASSUME RepositoryTypeOK, exists => Alive, Walks, [RepositoryNext]_repositoryVars
             PROVE  [Set!Next]_Set!vars
  BY InvariantIsAlive
<1>0. Members \in SUBSET AllHandlers /\ handlersCount \in Nat  BY DEF Members, Silenced, RepositoryTypeOK
<1>1. ASSUME NEW h \in AllHandlers, Add(h) PROVE [Set!Next]_Set!vars
  <2>1. h \notin Members /\ exists  BY <1>1 DEF Add, Members, Silenced
  <2>2. CASE isStopping
    <3>1. Members' = Members  BY <1>1, <2>2 DEF Add, Members, Silenced, RepositoryTypeOK
    <3>2. From(nextToBeFinished)' = From(nextToBeFinished)
      BY <1>1, <2>2, SameWalk DEF Add
    <3> QED  BY <1>1, <3>1, <3>2 DEF Add, Set!vars
  <2>3. CASE ~isStopping
    <3>1. Members' = Members \cup {h}  BY <1>1, <2>3 DEF Add, Members, Silenced, RepositoryTypeOK
    <3>2. nextToBeFinished = None /\ nextToBeFinished' = None
      BY <1>1, <2>3 DEF Add, Walks
    <3>3. From(nextToBeFinished) = {} /\ From(nextToBeFinished)' = {}
      BY <3>2, WalkOver, WalkOverNext
    <3>4. Set!Add(h)  BY <1>1, <2>1, <2>3, <3>1, <3>3 DEF Add, Set!Add
    <3> QED  BY <3>4 DEF Set!Next
  <2> QED  BY <2>2, <2>3
<1>2. ASSUME NEW h \in AllHandlers, OnHandlerFinished(h) PROVE [Set!Next]_Set!vars
  <2>1. exists /\ Alive /\ h \in Members  BY <1>2 DEF OnHandlerFinished
  <2>2. PICK q : Linked(q, handlersCount, head, next, prev, Members)  BY <2>1 DEF Alive
  <2>3. Members' = Members \ {h}  BY <1>2, <2>1 DEF OnHandlerFinished, Members, Silenced, RepositoryTypeOK
  <2>4. /\ next' = [g \in AllHandlers |-> IF prev[h] = g THEN next[h] ELSE next[g]]
        /\ prev' = [g \in AllHandlers |-> IF next[h] = g THEN prev[h] ELSE prev[g]]
        /\ nextToBeFinished' = IF nextToBeFinished = h THEN next[h] ELSE nextToBeFinished
    BY <1>2 DEF OnHandlerFinished, Unlinks
  <2>5. From(nextToBeFinished)' = From(nextToBeFinished) \ {h}
    <3>1. Removed(h, next, prev, next', prev')  BY <2>4 DEF Removed
    <3>2. nextToBeFinished \in Members \cup {None}  BY <2>1 DEF Alive
    <3>3. Reach(nextToBeFinished', next') = Reach(nextToBeFinished, next) \ {h}
      <4>1. Reach(IF nextToBeFinished = h THEN next[h] ELSE nextToBeFinished, next')
              = Reach(nextToBeFinished, next) \ {h}
        BY <1>0, <2>1, <2>2, <3>1, <3>2, RemovalLeavesWalk
      <4> QED  BY <2>4, <4>1
    <3>4. From(nextToBeFinished)' = Reach(nextToBeFinished', next')
      BY DEF From, Reach, Closed
    <3> QED  BY <3>3, <3>4, FromIsReach
  <2>6. handlersCount = 1 <=> Members = {h}  BY <1>0, <2>1, <2>2, LinkedFacts
  <2>7. stopped' = IF isStopping /\ Members = {h} THEN stopped + 1 ELSE stopped
    <3>1. /\ handlersCount' = handlersCount - 1
          /\ stopped' = IF isStopping /\ handlersCount' = 0 THEN stopped + 1 ELSE stopped
      BY <1>2 DEF OnHandlerFinished
    <3>2. (handlersCount' = 0) <=> (handlersCount = 1)  BY <1>0, <3>1
    <3> QED  BY <2>6, <3>1, <3>2
  <2>8. Set!Finished(h)
    BY <1>2, <2>1, <2>3, <2>5, <2>7 DEF OnHandlerFinished, Set!Finished
  <2> QED  BY <2>8 DEF Set!Next
<1>3. CASE Stop
  <2>1. exists /\ Alive /\ ~isStopping /\ isStopping'  BY <1>3 DEF Stop
  <2>2. PICK q : Linked(q, handlersCount, head, next, prev, Members)  BY <2>1 DEF Alive
  <2>3. nextToBeFinished = None  BY <2>1 DEF Walks
  <2>4. CASE handlersCount = 0
    <3>1. Members = {}  BY <1>0, <2>2, <2>4, LinkedFacts
    <3>2. Members' = Members  BY <1>3, <2>4 DEF Stop, Members, Silenced
    <3>3. From(nextToBeFinished)' = From(nextToBeFinished)
      BY <1>3, <2>4, SameWalk DEF Stop
    <3>4. Set!StopEmpty  BY <1>3, <2>4, <3>1, <3>2, <3>3 DEF Stop, Set!StopEmpty
    <3> QED  BY <3>4 DEF Set!Next
  <2>5. CASE handlersCount # 0
    <3>1. head \in Members  BY <1>0, <2>2, <2>5, LinkedFacts
    <3>2. Ask(head) /\ next' = next /\ stopped' = stopped  BY <1>3, <2>5 DEF Stop
    <3>3. Reach(head, next) = Members  BY <1>0, <2>2, <2>5, AllFromHead
    <3>4. Set!Stop(head)
      BY <1>3, <2>1, <3>1, <3>2, <3>3, AskImplements DEF Stop, Set!Stop
    <3> QED  BY <1>0, <3>1, <3>4 DEF Set!Next
  <2> QED  BY <2>4, <2>5
<1>4. CASE FinishReturns
  <2>1. exists /\ Alive /\ asking # None  BY <1>4 DEF FinishReturns, Walks
  <2>2. CASE nextToBeFinished # None
    <3>1. nextToBeFinished \in Members  BY <2>1, <2>2 DEF Alive
    <3>2. Ask(nextToBeFinished) /\ next' = next /\ UNCHANGED <<isStopping, stopped>>
      BY <1>4, <2>2 DEF FinishReturns
    <3>3. /\ Members' = Members /\ asking' = nextToBeFinished
          /\ From(nextToBeFinished)' = From(nextToBeFinished) \ {nextToBeFinished}
          /\ nextToBeFinished \in From(nextToBeFinished)
      BY <2>1, <3>1, <3>2, AskImplements, FromIsReach
    <3>4. Set!AskNext(nextToBeFinished)  BY <2>1, <3>2, <3>3 DEF Set!AskNext
    <3> QED  BY <1>0, <3>1, <3>4 DEF Set!Next
  <2>3. CASE nextToBeFinished = None
    <3>1. Members' = Members  BY <1>4, <2>3 DEF FinishReturns, Members, Silenced
    <3>2. From(nextToBeFinished)' = {} /\ From(nextToBeFinished) = {}
      BY <1>4, <2>3, WalkOver, WalkOverNext DEF FinishReturns
    <3>3. Set!AllAsked  BY <1>4, <2>1, <2>3, <3>1, <3>2 DEF FinishReturns, Set!AllAsked
    <3> QED  BY <3>3 DEF Set!Next
  <2> QED  BY <2>2, <2>3
<1>5. CASE DeleteScheduled
  <2>1. Members' = Members  BY <1>5 DEF DeleteScheduled, Members, Silenced, RepositoryTypeOK
  <2>2. From(nextToBeFinished)' = From(nextToBeFinished)
    BY <1>5, SameWalk DEF DeleteScheduled
  <2> QED  BY <1>5, <2>1, <2>2 DEF DeleteScheduled, Set!vars
<1>6. CASE Destroy
  <2>1. Members' = {}  BY <1>6 DEF Destroy, Members, Silenced, RepositoryTypeOK
  <2>2. From(nextToBeFinished)' = From(nextToBeFinished)
    BY <1>6, SameWalk DEF Destroy
  <2>3. Set!Destroy  BY <1>6, <2>1, <2>2 DEF Destroy, Set!Destroy
  <2> QED  BY <2>3 DEF Set!Next
<1>7. CASE UNCHANGED repositoryVars
  <2>1. Members' = Members  BY <1>7 DEF repositoryVars, Members, Silenced
  <2>2. From(nextToBeFinished)' = From(nextToBeFinished)  BY <1>7, SameWalk DEF repositoryVars
  <2> QED  BY <1>7, <2>1, <2>2 DEF repositoryVars, Set!vars
<1> QED  BY <1>1, <1>2, <1>3, <1>4, <1>5, <1>6, <1>7 DEF RepositoryNext

\* The intrusive list, its walk and its count implement a set of handlers: stop()
\* asks each handler that was in the set and has not finished before, once, and
\* stopped() is emitted once, when the set has become empty
\* (ConnectionHandlerRepository.cpp 25-91).
THEOREM RepositoryImplementsHandlerSet == RepositorySpec => ImplementsHandlerSet
<1>1. RepositoryInit => Walks  BY DEF RepositoryInit, Walks
<1>2. RepositoryInit => Set!Init
  <2> SUFFICES ASSUME RepositoryInit PROVE Set!Init  OBVIOUS
  <2>1. Members = {}  BY DEF RepositoryInit, Members, Silenced
  <2>2. From(nextToBeFinished) = {}  BY WalkOver DEF RepositoryInit
  <2> QED  BY <2>1, <2>2 DEF RepositoryInit, Set!Init
<1> QED
  BY <1>1, <1>2, StepWalks, RepositoryStepImplements, RepositoryIsInvariant, PTL
     DEF RepositorySpec, ImplementsHandlerSet, Set!Spec
=============================================================================
