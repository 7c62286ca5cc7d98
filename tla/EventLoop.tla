------------------------------ MODULE EventLoop ------------------------------
(***************************************************************************)
(* The event loop of a thread: EpollEventNotifier, which fetches events    *)
(* from epoll and hands them to their sources, with two sources of its     *)
(* own: EpollReadyEventSourceRegistrar, which hands out posted events, and *)
(* EpollObjectDeleter, which deletes what was scheduled for deletion.      *)
(*                                                                         *)
(* User code, in the handlers that these three call and elsewhere in the   *)
(* thread, enables, disables, modifies and deletes any source, posts       *)
(* events, removes them, and schedules deletions.                          *)
(*                                                                         *)
(* epoll returns ready sources in an order nobody promises: the part of    *)
(* m_epollEventsCache from m_idx on is a set of events per source.  The    *)
(* lists of posted events are modelled with their pointers.                *)
(***************************************************************************)
EXTENDS Integers, Sequences, FiniteSets, SequencesExt

CONSTANTS
    Sources,     \* the event sources, but for the registrar and the deleter
    Registered,  \* those of them that register with epoll; to all of them events are posted
    Events,      \* event types
    Null         \* the null pointer

ASSUME NullAssumption == Null \notin Sources
ASSUME RegisteredAssumption == Registered \subseteq Sources

Dispatchers == {"registrar", "deleter"}

VARIABLES
    alive,             \* the sources that have not been deleted
    enabled,           \* m_enabled
    eventTypes,        \* m_eventTypes
    ready,             \* what epoll_wait would return for each source
    fetched,           \* what it has returned and processEvents has not come to
    eventIsSet,        \* the dispatchers whose event descriptor is set
    readyDispatchers,  \* the dispatchers among what epoll_wait would return
    fetchedDispatchers,
    running,           \* "loop" outside of processEvents, "events" in it, or a dispatcher
    userRuns,          \* in a handler or destructor that was called from there
    pReadyEvents,      \* heads of the two lists of posted events
    pEventsBeingTriggered,
    pNext,             \* null, as is pPrevious, for what is in no list: it is not read
    pPrevious,
    isInReadyList,
    postedEventTypes,
    objectsToDelete,   \* m_objectsToDelete
    deleted,           \* the index i of deleteScheduledObjects
    scheduled          \* m_hasBeenScheduledForDeletion

registration == <<enabled, eventTypes>>
epoll == <<ready, fetched, readyDispatchers, fetchedDispatchers>>
lists == <<pReadyEvents, pEventsBeingTriggered, pNext, pPrevious, isInReadyList,
           postedEventTypes>>
deletions == <<objectsToDelete, deleted, scheduled>>
control == <<running, userRuns>>
vars == <<alive, registration, epoll, eventIsSet, control, lists, deletions>>

Pointers == Sources \cup {Null}
Nothing == [s \in Sources |-> {}]

Init ==
    /\ alive = Sources
    /\ enabled = [s \in Sources |-> FALSE]
    /\ eventTypes = [s \in Sources |-> Events]
    /\ ready = Nothing
    /\ fetched = Nothing
    /\ eventIsSet = {}
    /\ readyDispatchers = {}
    /\ fetchedDispatchers = {}
    /\ running = "loop"
    /\ userRuns = FALSE
    /\ pReadyEvents = Null
    /\ pEventsBeingTriggered = Null
    /\ pNext = [s \in Sources |-> Null]
    /\ pPrevious = [s \in Sources |-> Null]
    /\ isInReadyList = [s \in Sources |-> FALSE]
    /\ postedEventTypes = Nothing
    /\ objectsToDelete = <<>>
    /\ deleted = 0
    /\ scheduled = [s \in Sources |-> FALSE]

\* The code that may call into the loop: a handler, or anything outside of it.
UserMayRun == running = "loop" \/ userRuns

-----------------------------------------------------------------------------
\* set() of dispatcher d.
Set(d) ==
    /\ eventIsSet' = eventIsSet \cup {d}
    /\ readyDispatchers' = IF d \in eventIsSet THEN readyDispatchers
                           ELSE readyDispatchers \cup {d}

\* Mutant of RemoveFromPending: what was fetched stays in the cache.
KeepPending(s) == fetched' = fetched

\* removeEventSourceFromPendingEvents
RemoveFromPending(s) == fetched' = [fetched EXCEPT ![s] = {}]

\* setEnabled(true): epoll reports what is ready already.
Enable(s) ==
    /\ UserMayRun
    /\ s \in alive /\ ~enabled[s]
    /\ enabled' = [enabled EXCEPT ![s] = TRUE]
    /\ \E es \in SUBSET eventTypes[s] : ready' = [ready EXCEPT ![s] = es]
    /\ UNCHANGED <<alive, eventTypes, fetched, readyDispatchers, fetchedDispatchers,
                   eventIsSet, control, lists, deletions>>

Disable(s) ==
    /\ UserMayRun
    /\ s \in alive /\ enabled[s]
    /\ enabled' = [enabled EXCEPT ![s] = FALSE]
    /\ ready' = [ready EXCEPT ![s] = {}]
    /\ RemoveFromPending(s)
    /\ UNCHANGED <<alive, eventTypes, readyDispatchers, fetchedDispatchers, eventIsSet,
                   control, lists, deletions>>

\* setEventTypes: epoll reports again what is still ready, so that dropping what was
\* fetched loses nothing.
SetEventTypes(s, es) ==
    /\ UserMayRun
    /\ s \in alive /\ eventTypes[s] # es
    /\ eventTypes' = [eventTypes EXCEPT ![s] = es]
    /\ IF enabled[s]
       THEN /\ ready' = [ready EXCEPT ![s] = (@ \cup fetched[s]) \cap es]
            /\ RemoveFromPending(s)
       ELSE UNCHANGED <<ready, fetched>>
    /\ UNCHANGED <<alive, enabled, readyDispatchers, fetchedDispatchers, eventIsSet,
                   control, lists, deletions>>

\* The descriptor of a source becomes ready.
Report(s) ==
    /\ enabled[s]
    /\ \E e \in eventTypes[s] : ready' = [ready EXCEPT ![s] = @ \cup {e}]
    /\ UNCHANGED <<alive, registration, fetched, readyDispatchers, fetchedDispatchers,
                   eventIsSet, control, lists, deletions>>

-----------------------------------------------------------------------------
\* p->field = value for a pointer that may be null: then it is left out.
With(field, p, value) == IF p = Null THEN field ELSE [field EXCEPT ![p] = value]

\* Mutant of Push: the event joins the list that is being handed out.
PushToTriggered(s) ==
    /\ pNext' = [pNext EXCEPT ![s] = pEventsBeingTriggered]
    /\ pPrevious' = [With(pPrevious, pEventsBeingTriggered, s) EXCEPT ![s] = Null]
    /\ pEventsBeingTriggered' = s
    /\ UNCHANGED pReadyEvents

\* s becomes the head of m_pReadyEvents.
Push(s) ==
    /\ pNext' = [pNext EXCEPT ![s] = pReadyEvents]
    /\ pPrevious' = [With(pPrevious, pReadyEvents, s) EXCEPT ![s] = Null]
    /\ pReadyEvents' = s
    /\ UNCHANGED pEventsBeingTriggered

\* postEvent, addReadyEvent
PostEvent(s, e) ==
    /\ UserMayRun
    /\ s \in alive
    /\ postedEventTypes' = [postedEventTypes EXCEPT ![s] = @ \cup {e}]
    /\ IF isInReadyList[s]
       THEN UNCHANGED <<isInReadyList, eventIsSet, readyDispatchers, pNext, pPrevious,
                        pReadyEvents, pEventsBeingTriggered>>
       ELSE /\ isInReadyList' = [isInReadyList EXCEPT ![s] = TRUE]
            /\ Set("registrar")
            /\ Push(s)
    /\ UNCHANGED <<alive, registration, ready, fetched, fetchedDispatchers, control, deletions>>

\* Mutant of Unlink: the head of the list that is being handed out stays.
UnlinkFromReady(s) ==
    /\ pNext' = [With(pNext, pPrevious[s], pNext[s]) EXCEPT ![s] = Null]
    /\ pPrevious' = [With(pPrevious, pNext[s], pPrevious[s]) EXCEPT ![s] = Null]
    /\ pReadyEvents' = IF pReadyEvents = s THEN pNext[s] ELSE pReadyEvents
    /\ UNCHANGED pEventsBeingTriggered

\* s leaves the list that it is in, whichever that is.
Unlink(s) ==
    /\ pNext' = [With(pNext, pPrevious[s], pNext[s]) EXCEPT ![s] = Null]
    /\ pPrevious' = [With(pPrevious, pNext[s], pPrevious[s]) EXCEPT ![s] = Null]
    /\ pReadyEvents' = IF pReadyEvents = s THEN pNext[s] ELSE pReadyEvents
    /\ pEventsBeingTriggered' =
           IF pReadyEvents # s /\ pEventsBeingTriggered = s THEN pNext[s]
           ELSE pEventsBeingTriggered

\* removeReadyEvent
RemoveReadyEvent(s) ==
    IF isInReadyList[s]
    THEN /\ isInReadyList' = [isInReadyList EXCEPT ![s] = FALSE]
         /\ postedEventTypes' = [postedEventTypes EXCEPT ![s] = {}]
         /\ Unlink(s)
    ELSE UNCHANGED lists

RemovePostedEvents(s) ==
    /\ UserMayRun
    /\ s \in alive /\ isInReadyList[s]
    /\ RemoveReadyEvent(s)
    /\ UNCHANGED <<alive, registration, epoll, eventIsSet, control, deletions>>

-----------------------------------------------------------------------------
\* Mutant of ScheduleForDeletion: every call is recorded.
ScheduleAgain(s) ==
    /\ UserMayRun
    /\ s \in alive
    /\ Len(objectsToDelete) < Cardinality(Sources)
    /\ scheduled' = [scheduled EXCEPT ![s] = TRUE]
    /\ Set("deleter")
    /\ objectsToDelete' = Append(objectsToDelete, s)
    /\ UNCHANGED <<alive, registration, ready, fetched, fetchedDispatchers, control, lists,
                   deleted>>

ScheduleForDeletion(s) ==
    /\ UserMayRun
    /\ s \in alive
    /\ ~scheduled[s]
    /\ scheduled' = [scheduled EXCEPT ![s] = TRUE]
    /\ Set("deleter")
    /\ objectsToDelete' = Append(objectsToDelete, s)
    /\ UNCHANGED <<alive, registration, ready, fetched, fetchedDispatchers, control, lists,
                   deleted>>

\* The destructor of a source disables it and removes its posted events, as that of
\* a TcpSocket does, which aborts first.
Destroy(s) ==
    /\ alive' = alive \ {s}
    /\ enabled' = [enabled EXCEPT ![s] = FALSE]
    /\ eventTypes' = [eventTypes EXCEPT ![s] = Events]
    /\ ready' = [ready EXCEPT ![s] = {}]
    /\ RemoveFromPending(s)
    /\ RemoveReadyEvent(s)

\* Its owner deletes a source at once; what is scheduled for deletion has no owner.
Delete(s) ==
    /\ UserMayRun
    /\ s \in alive
    /\ ~scheduled[s]
    /\ Destroy(s)
    /\ UNCHANGED <<readyDispatchers, fetchedDispatchers, eventIsSet, control, deletions>>

-----------------------------------------------------------------------------
\* processEvents fetches what is ready; it is not called again before it returns.
ProcessEvents ==
    /\ running = "loop"
    /\ ready # Nothing \/ readyDispatchers # {}
    /\ running' = "events"
    /\ fetched' = ready
    /\ ready' = Nothing
    /\ fetchedDispatchers' = readyDispatchers
    /\ readyDispatchers' = {}
    /\ UNCHANGED <<alive, registration, eventIsSet, userRuns, lists, deletions>>

\* onEvent of source s is called.
CallOnEvent(s) ==
    /\ running = "events" /\ ~userRuns
    /\ fetched[s] # {}
    /\ fetched' = [fetched EXCEPT ![s] = {}]
    /\ userRuns' = enabled[s]
    /\ UNCHANGED <<alive, registration, ready, readyDispatchers, fetchedDispatchers,
                   eventIsSet, running, lists, deletions>>

\* onEvent of dispatcher d begins: it resets its event.
CallDispatcher(d) ==
    /\ running = "events" /\ ~userRuns
    /\ d \in fetchedDispatchers
    /\ fetchedDispatchers' = fetchedDispatchers \ {d}
    /\ running' = d
    /\ eventIsSet' = eventIsSet \ {d}
    /\ IF d = "registrar"
       THEN /\ pEventsBeingTriggered' = pReadyEvents
            /\ pReadyEvents' = Null
       ELSE UNCHANGED <<pEventsBeingTriggered, pReadyEvents>>
    /\ UNCHANGED <<alive, registration, ready, fetched, readyDispatchers, userRuns,
                   pNext, pPrevious, isInReadyList, postedEventTypes, deletions>>

\* The registrar takes the head of its list and calls its onEvent.
TriggerNext ==
    /\ running = "registrar" /\ ~userRuns
    /\ pEventsBeingTriggered # Null
    /\ LET s == pEventsBeingTriggered
       IN  /\ pEventsBeingTriggered' = pNext[s]
           /\ pNext' = [pNext EXCEPT ![s] = Null]
           /\ pPrevious' = With(pPrevious, pNext[s], Null)
           /\ isInReadyList' = [isInReadyList EXCEPT ![s] = FALSE]
           /\ postedEventTypes' = [postedEventTypes EXCEPT ![s] = {}]
    /\ userRuns' = TRUE
    /\ UNCHANGED <<alive, registration, epoll, eventIsSet, running, pReadyEvents, deletions>>

\* The deleter deletes the next of its objects, whose destructor runs user code.
DeleteNext ==
    /\ running = "deleter" /\ ~userRuns
    /\ deleted < Len(objectsToDelete)
    /\ deleted' = deleted + 1
    /\ Destroy(objectsToDelete[deleted + 1])
    /\ scheduled' = [scheduled EXCEPT ![objectsToDelete[deleted']] = FALSE]
    /\ userRuns' = TRUE
    /\ UNCHANGED <<readyDispatchers, fetchedDispatchers, eventIsSet, running, objectsToDelete>>

DispatcherReturns ==
    /\ ~userRuns
    /\ \/ /\ running = "registrar" /\ pEventsBeingTriggered = Null
          /\ UNCHANGED <<objectsToDelete, deleted>>
       \/ /\ running = "deleter" /\ deleted = Len(objectsToDelete)
          /\ objectsToDelete' = <<>>
          /\ deleted' = 0
    /\ running' = "events"
    /\ UNCHANGED <<alive, registration, epoll, eventIsSet, userRuns, lists, scheduled>>

HandlerReturns ==
    /\ userRuns
    /\ userRuns' = FALSE
    /\ UNCHANGED <<alive, registration, epoll, eventIsSet, running, lists, deletions>>

ProcessEventsReturns ==
    /\ running = "events" /\ ~userRuns
    /\ fetched = Nothing /\ fetchedDispatchers = {}
    /\ running' = "loop"
    /\ UNCHANGED <<alive, registration, epoll, eventIsSet, userRuns, lists, deletions>>

User(s) ==
    \/ s \in Registered /\ Enable(s)
    \/ Disable(s)
    \/ s \in Registered /\ \E es \in SUBSET Events : SetEventTypes(s, es)
    \/ \E e \in Events : PostEvent(s, e)
    \/ RemovePostedEvents(s)
    \/ ScheduleForDeletion(s)
    \/ Delete(s)

Loop ==
    \/ ProcessEvents
    \/ \E s \in Sources : CallOnEvent(s)
    \/ \E d \in Dispatchers : CallDispatcher(d)
    \/ TriggerNext
    \/ DeleteNext
    \/ DispatcherReturns
    \/ HandlerReturns
    \/ ProcessEventsReturns

Next ==
    \/ \E s \in Sources : User(s) \/ Report(s)
    \/ Loop

\* The thread runs, its QSocketNotifier is activated while epoll has something to
\* report, and handlers return.
Fairness == WF_vars(Loop)

Spec == Init /\ [][Next]_vars
FairSpec == Spec /\ Fairness

-----------------------------------------------------------------------------
\* Every variable has the type of what it stands for.
TypeOK ==
    /\ alive \subseteq Sources
    /\ enabled \in [Sources -> BOOLEAN]
    /\ eventTypes \in [Sources -> SUBSET Events]
    /\ ready \in [Sources -> SUBSET Events]
    /\ fetched \in [Sources -> SUBSET Events]
    /\ eventIsSet \subseteq Dispatchers
    /\ readyDispatchers \subseteq Dispatchers
    /\ fetchedDispatchers \subseteq Dispatchers
    /\ running \in {"loop", "events"} \cup Dispatchers
    /\ userRuns \in BOOLEAN
    /\ pReadyEvents \in Pointers
    /\ pEventsBeingTriggered \in Pointers
    /\ pNext \in [Sources -> Pointers]
    /\ pPrevious \in [Sources -> Pointers]
    /\ isInReadyList \in [Sources -> BOOLEAN]
    /\ postedEventTypes \in [Sources -> SUBSET Events]
    /\ objectsToDelete \in Seq(Sources)
    /\ deleted \in 0..Len(objectsToDelete)
    /\ scheduled \in [Sources -> BOOLEAN]

\* What a walk along pNext from p meets: p and all that the pointers lead to.
Walk(p) ==
    {s \in Sources : \A S \in SUBSET Sources :
        (/\ p \in S \cup {Null}
         /\ \A t \in S : pNext[t] \in S \cup {Null}) => s \in S}

\* The list from p is doubly linked.
Linked(p) ==
    /\ p # Null => pPrevious[p] = Null
    /\ \A s \in Walk(p) : pNext[s] # Null => pPrevious[pNext[s]] = s

\* A dispatcher with work has its event set, and one whose event is set is about to be
\* called: no posted event and no deletion waits for the next one to be requested.
EventsSet ==
    /\ pReadyEvents # Null => "registrar" \in eventIsSet
    /\ running # "deleter" /\ objectsToDelete # <<>> => "deleter" \in eventIsSet
    /\ eventIsSet = readyDispatchers \cup fetchedDispatchers

\* A source with posted events is in one of the two lists, whatever was posted and
\* removed while one of them was being handed out, and nothing else is; and the lists
\* and the objects to delete have their dispatchers on the way.
ListsExact ==
    /\ TypeOK /\ EventsSet
    /\ Linked(pReadyEvents) /\ Linked(pEventsBeingTriggered)
    /\ Walk(pReadyEvents) \cap Walk(pEventsBeingTriggered) = {}
    /\ {s \in Sources : isInReadyList[s]} = Walk(pReadyEvents) \cup Walk(pEventsBeingTriggered)
    /\ \A s \in Sources : isInReadyList[s] <=> postedEventTypes[s] # {}
    /\ running # "registrar" => pEventsBeingTriggered = Null

\* No source that was deleted is in the cache, in a list or still to be deleted, and no
\* disabled source is in the cache.
NoDanglingSource ==
    LET toDelete == SubSeq(objectsToDelete, deleted + 1, Len(objectsToDelete))
    IN  /\ \A s \in Sources : ready[s] \cup fetched[s] # {} => enabled[s]
        /\ \A s \in Sources : enabled[s] \/ isInReadyList[s] => s \in alive
        /\ ToSet(toDelete) \subseteq alive
        /\ IsInjective(toDelete)

Contract == INSTANCE EventDelivery WITH
    wanted <- [s \in Sources |-> IF enabled[s] THEN eventTypes[s] ELSE {}],
    reported <- [s \in Sources |-> ready[s] \cup fetched[s]],
    posted <- postedEventTypes,
    scheduled <- {s \in Sources : scheduled[s]},
    handling <- userRuns

\* The batch, the lists and the event descriptors implement the contract: an event
\* reaches a source that is still registered for it, once, and is not lost to what
\* handlers of other sources do.
ImplementsDelivery == Contract!Spec

\* Whatever handlers post again, enable or schedule, an event that was reported or
\* posted is delivered, unless its source withdraws it, and what is scheduled for
\* deletion is deleted.
EventuallyDelivered ==
    \A s \in Sources :
        /\ ready[s] # {} ~> ready[s] = {}
        /\ fetched[s] # {} ~> fetched[s] = {}
        /\ isInReadyList[s] ~> ~isInReadyList[s]
        /\ scheduled[s] /\ s \in alive ~> s \notin alive
=============================================================================
