---------------------- MODULE ConnectionHandlerRepository ----------------------
(***************************************************************************)
(* Kourier::ConnectionHandlerRepository: the handlers of a worker in an    *)
(* intrusive doubly linked list.  stop() walks over the list and calls     *)
(* finish() on each handler, in which any handler may emit finished() and  *)
(* leave the list under the walk.  A handler that has finished is deleted  *)
(* later, by the event loop.                                               *)
(***************************************************************************)
EXTENDS Naturals, FiniteSets

CONSTANTS
    AllHandlers,  \* the handlers that are ever made
    None          \* nullptr

ASSUME NoneAssumption == None \notin AllHandlers

VARIABLES
    head,               \* m_pHandlers
    next,               \* m_pNext of every handler
    prev,               \* m_pPrevious of every handler
    nextToBeFinished,   \* m_pNextHandlerToBeFinished
    handlersCount,      \* m_handlersCount
    isStopping,         \* m_isStopping
    asking,             \* the handler whose finish() stop() is calling, or None
    exists,             \* the repository has not been destroyed
    life,               \* what has become of every handler
    stopped             \* how often stopped() was emitted

repositoryVars == <<head, next, prev, nextToBeFinished, handlersCount, isStopping, asking,
          exists, life, stopped>>

\* A member that was asked to finish is finishing, its socket disconnecting; or it was
\* silenced: its socket was in the TLS handshake and has aborted, and emits nothing any more.
Lives == {"new", "member", "finishing", "silenced", "finished", "deleted"}
Silenced == {h \in AllHandlers : life[h] = "silenced"}
Members == {h \in AllHandlers : life[h] \in {"member", "finishing"}} \cup Silenced

RepositoryInit ==
    /\ head = None
    /\ next = [h \in AllHandlers |-> None]
    /\ prev = [h \in AllHandlers |-> None]
    /\ nextToBeFinished = None
    /\ handlersCount = 0
    /\ isStopping = FALSE
    /\ asking = None
    /\ exists = TRUE
    /\ life = [h \in AllHandlers |-> "new"]
    /\ stopped = 0

-----------------------------------------------------------------------------
\* Mutant of Links: the handler that was first does not point back.
LinksForward(h) ==
    /\ next' = [next EXCEPT ![h] = head]
    /\ prev' = [prev EXCEPT ![h] = None]

\* The handler h becomes the first one of the list.
Links(h) ==
    /\ next' = [next EXCEPT ![h] = head]
    /\ prev' = [g \in AllHandlers |-> IF g = h THEN None ELSE IF g = head THEN h ELSE prev[g]]

\* add(): a repository that is stopping deletes the handler at once.
Add(h) ==
    /\ exists
    /\ life[h] = "new"
    /\ IF isStopping
       THEN /\ life' = [life EXCEPT ![h] = "deleted"]
            /\ UNCHANGED <<head, next, prev, handlersCount>>
       ELSE /\ Links(h)
            /\ head' = h
            /\ handlersCount' = handlersCount + 1
            /\ life' = [life EXCEPT ![h] = "member"]
    /\ UNCHANGED <<nextToBeFinished, isStopping, asking, exists, stopped>>

\* stop() goes on to the handler h, notes the one after it and calls finish().
Ask(h) ==
    /\ asking' = h
    /\ nextToBeFinished' = next[h]
    /\ \E outcome \in {"finishing", "silenced"} :
        life' = [life EXCEPT ![h] = IF @ = "member" THEN outcome ELSE @]

\* stop(), up to its first call of finish().
Stop ==
    /\ exists
    /\ ~isStopping
    /\ isStopping' = TRUE
    /\ IF handlersCount = 0
       THEN /\ stopped' = stopped + 1
            /\ UNCHANGED <<nextToBeFinished, asking, life>>
       ELSE /\ Ask(head)
            /\ UNCHANGED stopped
    /\ UNCHANGED <<head, next, prev, handlersCount, exists>>

\* Mutant of FinishReturns: the walk ends with its first handler.
FinishReturnsOnce ==
    /\ asking # None
    /\ asking' = None
    /\ nextToBeFinished' = None
    /\ UNCHANGED <<head, next, prev, handlersCount, isStopping, exists, life, stopped>>

\* finish() has returned to stop().
FinishReturns ==
    /\ asking # None
    /\ IF nextToBeFinished # None
       THEN Ask(nextToBeFinished)
       ELSE asking' = None /\ UNCHANGED <<nextToBeFinished, life>>
    /\ UNCHANGED <<head, next, prev, handlersCount, isStopping, exists, stopped>>

\* Mutant of Unlinks: the walk keeps pointing to the handler that has left.
UnlinksListOnly(h) ==
    /\ next' = [g \in AllHandlers |-> IF prev[h] = g THEN next[h] ELSE next[g]]
    /\ prev' = [g \in AllHandlers |-> IF next[h] = g THEN prev[h] ELSE prev[g]]
    /\ head' = IF head = h THEN next[h] ELSE head
    /\ UNCHANGED nextToBeFinished

\* The handler h leaves the list; the walk, if it is to go on with h, goes on
\* with the handler after it.
Unlinks(h) ==
    /\ next' = [g \in AllHandlers |-> IF prev[h] = g THEN next[h] ELSE next[g]]
    /\ prev' = [g \in AllHandlers |-> IF next[h] = g THEN prev[h] ELSE prev[g]]
    /\ head' = IF head = h THEN next[h] ELSE head
    /\ nextToBeFinished' = IF nextToBeFinished = h THEN next[h] ELSE nextToBeFinished

\* A handler emits finished(), in an event of its own or while some handler's
\* finish() runs: onHandlerFinished().
OnHandlerFinished(h) ==
    /\ exists
    /\ h \in Members \ Silenced
    /\ Unlinks(h)
    /\ handlersCount' = handlersCount - 1
    /\ life' = [life EXCEPT ![h] = "finished"]
    /\ stopped' = IF isStopping /\ handlersCount' = 0 THEN stopped + 1 ELSE stopped
    /\ UNCHANGED <<isStopping, asking, exists>>

\* The event loop deletes what was scheduled for deletion; no call is running.
DeleteScheduled ==
    /\ asking = None
    /\ \E h \in AllHandlers : life[h] = "finished"
    /\ life' = [h \in AllHandlers |-> IF life[h] = "finished" THEN "deleted" ELSE life[h]]
    /\ UNCHANGED <<head, next, prev, nextToBeFinished, handlersCount, isStopping,
                   asking, exists, stopped>>

\* The destructor deletes the handlers that are left, whose finished() it no
\* longer receives.
Destroy ==
    /\ exists
    /\ asking = None
    /\ exists' = FALSE
    /\ isStopping' = TRUE
    /\ head' = None
    /\ life' = [h \in AllHandlers |-> IF h \in Members THEN "deleted" ELSE life[h]]
    /\ UNCHANGED <<next, prev, nextToBeFinished, handlersCount, asking, stopped>>

RepositoryNext ==
    \/ \E h \in AllHandlers : Add(h) \/ OnHandlerFinished(h)
    \/ Stop
    \/ FinishReturns
    \/ DeleteScheduled
    \/ Destroy

\* finish() returns, and a handler whose socket is disconnecting finishes, at the
\* latest when the disconnect timer expires; one that was silenced never does.
RepositoryFairness ==
    /\ WF_repositoryVars(FinishReturns)
    /\ \A h \in AllHandlers : WF_repositoryVars(life[h] = "finishing" /\ OnHandlerFinished(h))

RepositorySpec == RepositoryInit /\ [][RepositoryNext]_repositoryVars
FairRepositorySpec == RepositorySpec /\ RepositoryFairness

-----------------------------------------------------------------------------
\* The handlers of q are the list, in this order.
IsList(q, n) ==
    /\ head = IF n = 0 THEN None ELSE q[1]
    /\ \A i \in 1..n : /\ next[q[i]] = IF i = n THEN None ELSE q[i + 1]
                       /\ prev[q[i]] = IF i = 1 THEN None ELSE q[i - 1]
    /\ \A i, j \in 1..n : i # j => q[i] # q[j]

\* Every variable has the type of its member.
RepositoryTypeOK ==
    /\ head \in AllHandlers \cup {None}
    /\ next \in [AllHandlers -> AllHandlers \cup {None}]
    /\ prev \in [AllHandlers -> AllHandlers \cup {None}]
    /\ nextToBeFinished \in AllHandlers \cup {None}
    /\ handlersCount \in Nat
    /\ isStopping \in BOOLEAN
    /\ asking \in AllHandlers \cup {None}
    /\ exists \in BOOLEAN
    /\ life \in [AllHandlers -> Lives]
    /\ stopped \in Nat

\* The list links exactly the handlers that have neither finished nor been
\* deleted, both ways and each one once, and the count is their number.
ListExact ==
    \E q \in [1..handlersCount -> Members] :
        IsList(q, handlersCount) /\ Members = {q[i] : i \in 1..handlersCount}

\* However handlers come and go, also under the walk of stop(), the list is exact
\* and the walk goes on with a handler that is in it, or ends; stopped() has been
\* emitted if and only if a repository that is stopping has become empty, once.
RepositoryInvariant ==
    /\ RepositoryTypeOK
    /\ exists => /\ ListExact
                 /\ nextToBeFinished \in Members \cup {None}
                 /\ asking = None => nextToBeFinished = None
                 /\ stopped = IF isStopping /\ Members = {} THEN 1 ELSE 0

\* The handlers of the list from h on: h and all that the links lead to.
From(h) ==
    {g \in AllHandlers : \A S \in SUBSET AllHandlers :
        (/\ h \in S \cup {None}
         /\ \A f \in S : next[f] \in S \cup {None}) => g \in S}

Set == INSTANCE HandlerSet WITH
    Handlers <- AllHandlers, members <- Members, stopping <- isStopping,
    toAsk <- From(nextToBeFinished)  \* where the walk has still to go

\* The list and the walk over it implement a set of handlers of which each one
\* is asked to finish, once, unless it has finished before.
ImplementsHandlerSet == Set!Spec

\* stop() ends, in whatever order handlers are added, finish and leave under its walk: a
\* repository that is not destroyed before is left by every handler but those whose socket
\* was aborted silently in its TLS handshake, and emits stopped() if there are none.
StopEnds ==
    isStopping /\ exists ~> ~exists \/ (Members = Silenced /\ (Silenced = {} => stopped = 1))
=============================================================================
