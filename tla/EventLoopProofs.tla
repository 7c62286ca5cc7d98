---------------------------- MODULE EventLoopProofs ----------------------------
(***************************************************************************)
(* Proofs about EventLoop for any set of sources and events: no source is  *)
(* called that is gone or no longer registered, and the batch, the lists   *)
(* and the deleter's vector implement EventDelivery.                       *)
(***************************************************************************)
EXTENDS EventLoop, SequenceTheorems, TLAPS

\* The lists that begin at hd1 and hd2 are disjoint, hold only sources that in marks,
\* and are linked in both directions; what in marks is behind another source or heads
\* a list.  This says nothing of cycles, which the contract does not need.
Chained(hd1, hd2, nx, pv, in) ==
    /\ \A s \in Sources : in[s] =>
           /\ nx[s] # Null => in[nx[s]] /\ pv[nx[s]] = s
           /\ pv[s] # Null => in[pv[s]] /\ nx[pv[s]] = s
           /\ pv[s] = Null => s = hd1 \/ s = hd2
    /\ hd1 # Null => in[hd1] /\ pv[hd1] = Null
    /\ hd2 # Null => in[hd2] /\ pv[hd2] = Null
    /\ hd1 = hd2 => hd1 = Null

\* The lists of posted events, the flags and the events agree, and nothing is being
\* handed out but by the registrar.
ListsChained ==
    /\ Chained(pReadyEvents, pEventsBeingTriggered, pNext, pPrevious, isInReadyList)
    /\ \A s \in Sources : isInReadyList[s] <=> postedEventTypes[s] # {}
    /\ running # "registrar" => pEventsBeingTriggered = Null

\* S holds p, if that is no null pointer, and all that nx leads to from what it holds.
Closed(S, p, nx) == p \in S \cup {Null} /\ \A t \in S : nx[t] \in S \cup {Null}

\* Whatever holds both heads and what follows holds all that in marks: a cycle that no
\* head leads to is ruled out.
Covered(hd1, hd2, nx, in) ==
    \A S \in SUBSET Sources : Closed(S, hd1, nx) /\ Closed(S, hd2, nx) =>
        \A s \in Sources : in[s] => s \in S

ListsCovered == Covered(pReadyEvents, pEventsBeingTriggered, pNext, isInReadyList)

\* A dispatcher whose event is set is ready or fetched, never both, and outside of
\* processEvents none is fetched.
DispatchersExact ==
    /\ EventsSet
    /\ readyDispatchers \cap fetchedDispatchers = {}
    /\ running = "loop" => fetchedDispatchers = {}

\* What is ready or fetched belongs to enabled sources, and what is enabled or in a
\* list has not been deleted.
RegistrationsExact ==
    \A s \in Sources :
        /\ ready[s] # {} \/ fetched[s] # {} => enabled[s]
        /\ enabled[s] \/ isInReadyList[s] => s \in alive

\* What the deleter has not come to is marked, not deleted, and there once.
DeletionsExact ==
    /\ \A i \in (deleted + 1)..Len(objectsToDelete) :
           objectsToDelete[i] \in alive /\ scheduled[objectsToDelete[i]]
    /\ \A i, j \in (deleted + 1)..Len(objectsToDelete) :
           objectsToDelete[i] = objectsToDelete[j] => i = j

\* Outside of processEvents the cache is empty.
NothingFetched == running = "loop" => \A s \in Sources : fetched[s] = {}

LoopInvariant ==
    /\ TypeOK /\ ListsChained /\ RegistrationsExact /\ DeletionsExact /\ NothingFetched
    /\ ListsCovered /\ DispatchersExact

-----------------------------------------------------------------------------
(* What the operations on the lists do to them. *)

\* addReadyEvent: s is put in front of the list of ready events.
LEMMA PushChains ==
    ASSUME TypeOK, NEW s \in Sources, ~isInReadyList[s], Push(s),
           Chained(pReadyEvents, pEventsBeingTriggered, pNext, pPrevious, isInReadyList),
           isInReadyList' = [isInReadyList EXCEPT ![s] = TRUE]
    PROVE  Chained(pReadyEvents, pEventsBeingTriggered, pNext, pPrevious, isInReadyList)'
<1>1. \A t \in Sources :
        /\ pNext'[t] = IF t = s THEN pReadyEvents ELSE pNext[t]
        /\ pPrevious'[t] = IF t = s THEN Null
                           ELSE IF t = pReadyEvents THEN s ELSE pPrevious[t]
        /\ isInReadyList'[t] = IF t = s THEN TRUE ELSE isInReadyList[t]
  BY NullAssumption DEF TypeOK, Push, With, Pointers
<1>2. pReadyEvents' = s /\ pEventsBeingTriggered' = pEventsBeingTriggered
  BY DEF Push
<1> QED
  BY <1>1, <1>2, NullAssumption DEF Chained, TypeOK, Pointers

\* removeReadyEvent: s is taken out of the list it is in.
LEMMA UnlinkChains ==
    ASSUME TypeOK, NEW s \in Sources, isInReadyList[s], Unlink(s),
           Chained(pReadyEvents, pEventsBeingTriggered, pNext, pPrevious, isInReadyList),
           isInReadyList' = [isInReadyList EXCEPT ![s] = FALSE]
    PROVE  Chained(pReadyEvents, pEventsBeingTriggered, pNext, pPrevious, isInReadyList)'
<1>1. \A t \in Sources :
        /\ pNext'[t] = IF t = s THEN Null ELSE IF t = pPrevious[s] THEN pNext[s] ELSE pNext[t]
        /\ pPrevious'[t] = IF t = s THEN Null
                           ELSE IF t = pNext[s] THEN pPrevious[s] ELSE pPrevious[t]
        /\ isInReadyList'[t] = IF t = s THEN FALSE ELSE isInReadyList[t]
  BY NullAssumption DEF TypeOK, Unlink, With, Pointers
<1>2. /\ pReadyEvents' = IF pReadyEvents = s THEN pNext[s] ELSE pReadyEvents
      /\ pEventsBeingTriggered' = IF pEventsBeingTriggered = s THEN pNext[s]
                                  ELSE pEventsBeingTriggered
  BY NullAssumption DEF Unlink, Chained
<1> QED
  BY <1>1, <1>2, NullAssumption DEF Chained, TypeOK, Pointers

\* onEvent of the registrar takes the head of the list it hands out.
LEMMA TriggerChains ==
    ASSUME TypeOK, TriggerNext,
           Chained(pReadyEvents, pEventsBeingTriggered, pNext, pPrevious, isInReadyList)
    PROVE  Chained(pReadyEvents, pEventsBeingTriggered, pNext, pPrevious, isInReadyList)'
<1> DEFINE s == pEventsBeingTriggered
<1>0. s \in Sources /\ isInReadyList[s] /\ pPrevious[s] = Null
  BY DEF TriggerNext, TypeOK, Pointers, Chained
<1>1. \A t \in Sources :
        /\ pNext'[t] = IF t = s THEN Null ELSE pNext[t]
        /\ pPrevious'[t] = IF t = pNext[s] THEN Null ELSE pPrevious[t]
        /\ isInReadyList'[t] = IF t = s THEN FALSE ELSE isInReadyList[t]
  BY <1>0, NullAssumption DEF TypeOK, TriggerNext, With, Pointers
<1>2. pReadyEvents' = pReadyEvents /\ pEventsBeingTriggered' = pNext[s]
  BY DEF TriggerNext
<1>3. pNext[s] # Null => pNext[s] \in Sources /\ isInReadyList[pNext[s]]
                         /\ pPrevious[pNext[s]] = s /\ pNext[s] # s
  BY <1>0, NullAssumption DEF Chained, TypeOK, Pointers
<1>4. pReadyEvents # s /\ (pReadyEvents # Null => pReadyEvents # pNext[s])
  BY <1>0, <1>3, NullAssumption DEF Chained
<1>5. ASSUME NEW t \in Sources, isInReadyList'[t]
      PROVE  /\ pNext'[t] # Null => isInReadyList'[pNext'[t]] /\ pPrevious'[pNext'[t]] = t
             /\ pPrevious'[t] # Null => isInReadyList'[pPrevious'[t]] /\ pNext'[pPrevious'[t]] = t
             /\ pPrevious'[t] = Null => t = pReadyEvents' \/ t = pEventsBeingTriggered'
  <2>1. t # s /\ isInReadyList[t]  BY <1>1, <1>5
  <2>2. /\ pNext[t] # Null => pNext[t] \in Sources /\ isInReadyList[pNext[t]]
                             /\ pPrevious[pNext[t]] = t
        /\ pPrevious[t] # Null => pPrevious[t] \in Sources /\ isInReadyList[pPrevious[t]]
                                 /\ pNext[pPrevious[t]] = t
        /\ pPrevious[t] = Null => t = pReadyEvents
    BY <2>1 DEF Chained, TypeOK, Pointers
  <2>3. pNext[t] # s  BY <1>0, <2>1, <2>2, NullAssumption
  <2>4. pNext'[t] # Null => isInReadyList'[pNext'[t]] /\ pPrevious'[pNext'[t]] = t
    <3>1. pNext'[t] = pNext[t]  BY <1>1, <2>1
    <3>2. ASSUME pNext[t] # Null PROVE pNext[t] # pNext[s]  BY <1>3, <2>1, <2>2, <3>2
    <3> QED  BY <1>1, <2>2, <2>3, <3>1, <3>2
  <2>5. pPrevious'[t] # Null => isInReadyList'[pPrevious'[t]] /\ pNext'[pPrevious'[t]] = t
    <3>1. CASE t = pNext[s]  BY <1>1, <3>1
    <3>2. CASE t # pNext[s]
      <4>1. pPrevious'[t] = pPrevious[t]  BY <1>1, <3>2
      <4>2. pPrevious[t] # Null => pPrevious[t] # s  BY <2>2, <3>2
      <4> QED  BY <1>1, <2>2, <4>1, <4>2
    <3> QED  BY <3>1, <3>2
  <2>6. pPrevious'[t] = Null => t = pReadyEvents' \/ t = pEventsBeingTriggered'
    BY <1>1, <1>2, <2>2
  <2> QED  BY <2>4, <2>5, <2>6
<1>6. /\ pReadyEvents' # Null => isInReadyList'[pReadyEvents'] /\ pPrevious'[pReadyEvents'] = Null
      /\ pEventsBeingTriggered' # Null =>
             isInReadyList'[pEventsBeingTriggered'] /\ pPrevious'[pEventsBeingTriggered'] = Null
      /\ pReadyEvents' = pEventsBeingTriggered' => pReadyEvents' = Null
  BY <1>0, <1>1, <1>2, <1>3, <1>4, NullAssumption DEF Chained, TypeOK, Pointers
<1> QED  BY <1>5, <1>6 DEF Chained

\* removeReadyEvent keeps all that is said of the lists, and drops the events of s.
LEMMA RemoveKeepsLists ==
    ASSUME TypeOK, ListsChained, NEW s \in Sources, RemoveReadyEvent(s), running' = running
    PROVE  /\ ListsChained'
           /\ postedEventTypes' = [postedEventTypes EXCEPT ![s] = {}]
           /\ isInReadyList' = [isInReadyList EXCEPT ![s] = FALSE]
<1>1. CASE isInReadyList[s]
  <2>1. /\ isInReadyList' = [isInReadyList EXCEPT ![s] = FALSE]
        /\ postedEventTypes' = [postedEventTypes EXCEPT ![s] = {}]
        /\ Unlink(s)
    BY <1>1 DEF RemoveReadyEvent
  <2>2. Chained(pReadyEvents, pEventsBeingTriggered, pNext, pPrevious, isInReadyList)'
    BY <1>1, <2>1, UnlinkChains DEF ListsChained
  <2>3. pEventsBeingTriggered = Null => pEventsBeingTriggered' = Null
    BY <2>1, NullAssumption DEF Unlink
  <2>4. \A t \in Sources : isInReadyList'[t] <=> postedEventTypes'[t] # {}
    BY <2>1 DEF ListsChained, TypeOK
  <2> QED  BY <2>1, <2>2, <2>3, <2>4 DEF ListsChained
<1>2. CASE ~isInReadyList[s]
  <2>1. UNCHANGED lists  BY <1>2 DEF RemoveReadyEvent
  <2>2. postedEventTypes[s] = {}  BY <1>2 DEF ListsChained
  <2> QED  BY <1>2, <2>1, <2>2 DEF lists, ListsChained, Chained, TypeOK
<1> QED  BY <1>1, <1>2

-----------------------------------------------------------------------------
(* The type of the variables. *)

LEMMA PushType ==
    ASSUME TypeOK, NEW s \in Sources, Push(s)
    PROVE  /\ pNext' \in [Sources -> Pointers] /\ pPrevious' \in [Sources -> Pointers]
           /\ pReadyEvents' \in Pointers /\ pEventsBeingTriggered' \in Pointers
  BY DEF TypeOK, Push, With, Pointers

LEMMA RemoveType ==
    ASSUME TypeOK, NEW s \in Sources, RemoveReadyEvent(s)
    PROVE  /\ pNext' \in [Sources -> Pointers] /\ pPrevious' \in [Sources -> Pointers]
           /\ pReadyEvents' \in Pointers /\ pEventsBeingTriggered' \in Pointers
           /\ isInReadyList' \in [Sources -> BOOLEAN]
           /\ postedEventTypes' \in [Sources -> SUBSET Events]
<1>1. CASE isInReadyList[s]
  <2>1. Unlink(s) /\ isInReadyList' = [isInReadyList EXCEPT ![s] = FALSE]
        /\ postedEventTypes' = [postedEventTypes EXCEPT ![s] = {}]
    BY <1>1 DEF RemoveReadyEvent
  <2>2. pNext' \in [Sources -> Pointers] /\ pPrevious' \in [Sources -> Pointers]
    BY <2>1 DEF TypeOK, Unlink, With, Pointers
  <2>3. pReadyEvents' \in Pointers /\ pEventsBeingTriggered' \in Pointers
    BY <2>1 DEF TypeOK, Unlink, Pointers
  <2> QED  BY <2>1, <2>2, <2>3 DEF TypeOK
<1>2. CASE ~isInReadyList[s]
  BY <1>2 DEF RemoveReadyEvent, lists, TypeOK
<1> QED  BY <1>1, <1>2

LEMMA DestroyType ==
    ASSUME TypeOK, NEW s \in Sources, Destroy(s)
    PROVE  /\ alive' \subseteq Sources
           /\ enabled' \in [Sources -> BOOLEAN] /\ eventTypes' \in [Sources -> SUBSET Events]
           /\ ready' \in [Sources -> SUBSET Events] /\ fetched' \in [Sources -> SUBSET Events]
  BY DEF TypeOK, Destroy, RemoveFromPending

LEMMA TypeStep == TypeOK /\ [Next]_vars => TypeOK'
<1> SUFFICES ASSUME TypeOK, [Next]_vars PROVE TypeOK'  OBVIOUS
<1> USE DEF registration, epoll, lists, deletions, control
<1>1. ASSUME NEW s \in Sources, Enable(s) PROVE TypeOK'
  BY <1>1 DEF TypeOK, Enable
<1>2. ASSUME NEW s \in Sources, Disable(s) PROVE TypeOK'
  BY <1>2 DEF TypeOK, Disable, RemoveFromPending
<1>3. ASSUME NEW s \in Sources, NEW es \in SUBSET Events, SetEventTypes(s, es) PROVE TypeOK'
  BY <1>3 DEF TypeOK, SetEventTypes, RemoveFromPending
<1>4. ASSUME NEW s \in Sources, NEW e \in Events, PostEvent(s, e) PROVE TypeOK'
  <2>1. CASE isInReadyList[s]
    BY <1>4, <2>1 DEF TypeOK, PostEvent
  <2>2. CASE ~isInReadyList[s]
    <3>1. Push(s)  BY <1>4, <2>2 DEF PostEvent
    <3>2. /\ isInReadyList' \in [Sources -> BOOLEAN]
          /\ postedEventTypes' \in [Sources -> SUBSET Events]
          /\ eventIsSet' \subseteq Dispatchers /\ readyDispatchers' \subseteq Dispatchers
      BY <1>4, <2>2 DEF TypeOK, PostEvent, Set, Dispatchers
    <3> QED  BY <1>4, <3>1, <3>2, PushType DEF TypeOK, PostEvent
  <2> QED  BY <2>1, <2>2
<1>5. ASSUME NEW s \in Sources, RemovePostedEvents(s) PROVE TypeOK'
  BY <1>5, RemoveType DEF TypeOK, RemovePostedEvents
<1>6. ASSUME NEW s \in Sources, ScheduleForDeletion(s) PROVE TypeOK'
  <2>1. eventIsSet' \subseteq Dispatchers /\ readyDispatchers' \subseteq Dispatchers
    BY <1>6 DEF TypeOK, ScheduleForDeletion, Set, Dispatchers
  <2>2. objectsToDelete' \in Seq(Sources) /\ deleted' \in 0..Len(objectsToDelete')
    BY <1>6 DEF TypeOK, ScheduleForDeletion
  <2> QED  BY <1>6, <2>1, <2>2 DEF TypeOK, ScheduleForDeletion
<1>7. ASSUME NEW s \in Sources, Delete(s) PROVE TypeOK'
  <2>1. Destroy(s) /\ RemoveReadyEvent(s)  BY <1>7 DEF Delete, Destroy
  <2> QED  BY <1>7, <2>1, DestroyType, RemoveType DEF TypeOK, Delete
<1>8. ASSUME NEW s \in Sources, Report(s) PROVE TypeOK'
  BY <1>8 DEF TypeOK, Report
<1>9. CASE ProcessEvents
  BY <1>9 DEF TypeOK, ProcessEvents, Nothing
<1>10. ASSUME NEW s \in Sources, CallOnEvent(s) PROVE TypeOK'
  BY <1>10 DEF TypeOK, CallOnEvent
<1>11. ASSUME NEW d \in Dispatchers, CallDispatcher(d) PROVE TypeOK'
  BY <1>11 DEF TypeOK, CallDispatcher, Pointers
<1>12. CASE TriggerNext
  <2>1. pEventsBeingTriggered \in Sources  BY <1>12 DEF TypeOK, TriggerNext, Pointers
  <2>2. pNext' \in [Sources -> Pointers] /\ pPrevious' \in [Sources -> Pointers]
        /\ pEventsBeingTriggered' \in Pointers
    BY <1>12, <2>1 DEF TypeOK, TriggerNext, With, Pointers
  <2> QED  BY <1>12, <2>1, <2>2 DEF TypeOK, TriggerNext
<1>13. CASE DeleteNext
  <2> DEFINE s == objectsToDelete[deleted + 1]
  <2>1. deleted + 1 \in 1..Len(objectsToDelete) /\ s \in Sources
    BY <1>13 DEF TypeOK, DeleteNext
  <2>2. Destroy(s) /\ RemoveReadyEvent(s)  BY <1>13 DEF DeleteNext, Destroy
  <2>3. deleted' \in 0..Len(objectsToDelete') /\ scheduled' \in [Sources -> BOOLEAN]
    BY <1>13, <2>1 DEF TypeOK, DeleteNext
  <2> HIDE DEF s
  <2> QED  BY <1>13, <2>1, <2>2, <2>3, DestroyType, RemoveType DEF TypeOK, DeleteNext
<1>14. CASE DispatcherReturns
  <2>1. objectsToDelete' \in Seq(Sources) /\ deleted' \in 0..Len(objectsToDelete')
    <3>1. CASE UNCHANGED <<objectsToDelete, deleted>>  BY <3>1 DEF TypeOK
    <3>2. CASE objectsToDelete' = <<>> /\ deleted' = 0  BY <3>2
    <3> QED  BY <1>14, <3>1, <3>2 DEF DispatcherReturns
  <2>2. running' = "events" /\ UNCHANGED <<alive, registration, epoll, eventIsSet, userRuns, lists, scheduled>>
    BY <1>14 DEF DispatcherReturns
  <2> QED  BY <2>1, <2>2 DEF TypeOK
<1>15. CASE HandlerReturns
  BY <1>15 DEF TypeOK, HandlerReturns
<1>16. CASE ProcessEventsReturns
  BY <1>16 DEF TypeOK, ProcessEventsReturns
<1>17. CASE UNCHANGED vars
  BY <1>17 DEF TypeOK, vars
<1> QED
  BY <1>1, <1>2, <1>3, <1>4, <1>5, <1>6, <1>7, <1>8, <1>9, <1>10, <1>11, <1>12, <1>13, <1>14,
     <1>15, <1>16, <1>17 DEF Next, User, Loop

-----------------------------------------------------------------------------
(* The lists of posted events. *)

LEMMA SameLists ==
    ASSUME ListsChained, UNCHANGED lists,
           running' = running \/ (running' # "registrar" /\ pEventsBeingTriggered = Null)
    PROVE  ListsChained'
  BY DEF ListsChained, Chained, lists

LEMMA ListsStep == TypeOK /\ ListsChained /\ [Next]_vars => ListsChained'
<1> SUFFICES ASSUME TypeOK, ListsChained, [Next]_vars PROVE ListsChained'  OBVIOUS
<1>1. ASSUME NEW s \in Sources, Enable(s) \/ Disable(s) \/ ScheduleForDeletion(s) \/ Report(s)
      PROVE  ListsChained'
  BY <1>1, SameLists DEF Enable, Disable, ScheduleForDeletion, Report, control, lists, ListsChained
<1>2. ASSUME NEW s \in Sources, NEW es \in SUBSET Events, SetEventTypes(s, es)
      PROVE  ListsChained'
  BY <1>2, SameLists DEF SetEventTypes, control, lists, ListsChained
<1>3. ASSUME NEW s \in Sources, NEW e \in Events, PostEvent(s, e) PROVE ListsChained'
  <2>1. postedEventTypes' = [postedEventTypes EXCEPT ![s] = @ \cup {e}] /\ running' = running
    BY <1>3 DEF PostEvent, control
  <2>2. CASE isInReadyList[s]
    BY <1>3, <2>1, <2>2 DEF PostEvent, ListsChained, Chained, TypeOK
  <2>3. CASE ~isInReadyList[s]
    <3>1. Push(s) /\ isInReadyList' = [isInReadyList EXCEPT ![s] = TRUE]
      BY <1>3, <2>3 DEF PostEvent
    <3>2. Chained(pReadyEvents, pEventsBeingTriggered, pNext, pPrevious, isInReadyList)'
      BY <2>3, <3>1, PushChains DEF ListsChained
    <3>3. \A t \in Sources : isInReadyList'[t] <=> postedEventTypes'[t] # {}
      BY <2>1, <3>1 DEF ListsChained, TypeOK
    <3>4. pEventsBeingTriggered' = pEventsBeingTriggered  BY <3>1 DEF Push
    <3> QED  BY <2>1, <3>2, <3>3, <3>4 DEF ListsChained
  <2> QED  BY <2>2, <2>3
<1>4. ASSUME NEW s \in Sources, RemovePostedEvents(s) \/ Delete(s) PROVE ListsChained'
  <2>1. RemoveReadyEvent(s) /\ running' = running
    BY <1>4 DEF RemovePostedEvents, Delete, Destroy, control
  <2> QED  BY <2>1, RemoveKeepsLists
<1>5. CASE ProcessEvents \/ HandlerReturns \/ ProcessEventsReturns \/ DispatcherReturns
  BY <1>5, SameLists
     DEF ProcessEvents, HandlerReturns, ProcessEventsReturns, DispatcherReturns, ListsChained, lists
<1>6. ASSUME NEW s \in Sources, CallOnEvent(s) PROVE ListsChained'
  BY <1>6, SameLists DEF CallOnEvent, lists, ListsChained
<1>7. ASSUME NEW d \in Dispatchers, CallDispatcher(d) PROVE ListsChained'
  <2>1. /\ running = "events" /\ pEventsBeingTriggered = Null /\ running' = d
        /\ UNCHANGED <<pNext, pPrevious, isInReadyList, postedEventTypes>>
    BY <1>7 DEF CallDispatcher, ListsChained
  <2>2. CASE d = "registrar"
    <3>1. pEventsBeingTriggered' = pReadyEvents /\ pReadyEvents' = Null
      BY <1>7, <2>2 DEF CallDispatcher
    <3> QED  BY <2>1, <2>2, <3>1 DEF ListsChained, Chained
  <2>3. CASE d # "registrar"
    <3>1. UNCHANGED <<pEventsBeingTriggered, pReadyEvents>>
      BY <1>7, <2>3 DEF CallDispatcher
    <3> QED  BY <2>1, <3>1 DEF ListsChained, Chained
  <2> QED  BY <2>2, <2>3
<1>8. CASE TriggerNext
  <2>1. pEventsBeingTriggered \in Sources  BY <1>8 DEF TypeOK, TriggerNext, Pointers
  <2>2. Chained(pReadyEvents, pEventsBeingTriggered, pNext, pPrevious, isInReadyList)'
    BY <1>8, TriggerChains DEF ListsChained
  <2>3. \A t \in Sources : isInReadyList'[t] <=> postedEventTypes'[t] # {}
    BY <1>8, <2>1 DEF TriggerNext, ListsChained, TypeOK
  <2> QED  BY <1>8, <2>2, <2>3 DEF ListsChained, TriggerNext
<1>9. CASE DeleteNext
  <2> DEFINE s == objectsToDelete[deleted + 1]
  <2>1. s \in Sources  BY <1>9 DEF TypeOK, DeleteNext
  <2>2. RemoveReadyEvent(s) /\ running' = running  BY <1>9 DEF DeleteNext, Destroy
  <2> HIDE DEF s
  <2> QED  BY <2>1, <2>2, RemoveKeepsLists
<1>10. CASE UNCHANGED vars
  BY <1>10, SameLists DEF vars, control, lists, ListsChained
<1> QED
  BY <1>1, <1>2, <1>3, <1>4, <1>5, <1>6, <1>7, <1>8, <1>9, <1>10 DEF Next, User, Loop

-----------------------------------------------------------------------------
(* Registrations, and what is enabled or in a list. *)

\* The destructor of s leaves nothing of s behind.
LEMMA DestroyLeavesNothing ==
    ASSUME TypeOK, ListsChained, RegistrationsExact, NEW s \in Sources, Destroy(s),
           running' = running
    PROVE  RegistrationsExact'
<1>1. isInReadyList' = [isInReadyList EXCEPT ![s] = FALSE]
  BY RemoveKeepsLists DEF Destroy
<1>2. /\ alive' = alive \ {s}
      /\ enabled' = [enabled EXCEPT ![s] = FALSE]
      /\ ready' = [ready EXCEPT ![s] = {}] /\ fetched' = [fetched EXCEPT ![s] = {}]
  BY DEF Destroy, RemoveFromPending
<1> QED  BY <1>1, <1>2 DEF RegistrationsExact, TypeOK

LEMMA RegistrationsStep ==
    TypeOK /\ ListsChained /\ RegistrationsExact /\ [Next]_vars => RegistrationsExact'
<1> SUFFICES ASSUME TypeOK, ListsChained, RegistrationsExact, [Next]_vars
             PROVE  RegistrationsExact'
  OBVIOUS
<1> USE DEF registration, epoll, lists, control
<1>1. ASSUME NEW s \in Sources, Enable(s) PROVE RegistrationsExact'
  BY <1>1 DEF Enable, RegistrationsExact, TypeOK
<1>2. ASSUME NEW s \in Sources, Disable(s) PROVE RegistrationsExact'
  BY <1>2 DEF Disable, RemoveFromPending, RegistrationsExact, TypeOK
<1>3. ASSUME NEW s \in Sources, NEW es \in SUBSET Events, SetEventTypes(s, es)
      PROVE  RegistrationsExact'
  BY <1>3 DEF SetEventTypes, RemoveFromPending, RegistrationsExact, TypeOK
<1>4. ASSUME NEW s \in Sources, NEW e \in Events, PostEvent(s, e) PROVE RegistrationsExact'
  <2>1. /\ s \in alive
        /\ isInReadyList' \in {isInReadyList, [isInReadyList EXCEPT ![s] = TRUE]}
        /\ UNCHANGED <<alive, enabled, ready, fetched>>
    BY <1>4 DEF PostEvent
  <2> QED  BY <2>1 DEF RegistrationsExact, TypeOK
<1>5. ASSUME NEW s \in Sources, RemovePostedEvents(s) PROVE RegistrationsExact'
  <2>1. isInReadyList' = [isInReadyList EXCEPT ![s] = FALSE]
    BY <1>5, RemoveKeepsLists DEF RemovePostedEvents
  <2> QED  BY <1>5, <2>1 DEF RemovePostedEvents, RegistrationsExact, TypeOK
<1>6. ASSUME NEW s \in Sources, ScheduleForDeletion(s) PROVE RegistrationsExact'
  BY <1>6 DEF ScheduleForDeletion, RegistrationsExact
<1>7. ASSUME NEW s \in Sources, Delete(s) PROVE RegistrationsExact'
  BY <1>7, DestroyLeavesNothing DEF Delete
<1>8. ASSUME NEW s \in Sources, Report(s) PROVE RegistrationsExact'
  BY <1>8 DEF Report, RegistrationsExact, TypeOK
<1>9. CASE ProcessEvents
  BY <1>9 DEF ProcessEvents, Nothing, RegistrationsExact
<1>10. ASSUME NEW s \in Sources, CallOnEvent(s) PROVE RegistrationsExact'
  BY <1>10 DEF CallOnEvent, RegistrationsExact, TypeOK
<1>11. ASSUME NEW d \in Dispatchers, CallDispatcher(d) PROVE RegistrationsExact'
  BY <1>11 DEF CallDispatcher, RegistrationsExact
<1>12. CASE TriggerNext
  <2>1. \A t \in Sources : isInReadyList'[t] => isInReadyList[t]
    BY <1>12 DEF TriggerNext, TypeOK, Pointers
  <2> QED  BY <1>12, <2>1 DEF TriggerNext, RegistrationsExact
<1>13. CASE DeleteNext
  <2> DEFINE s == objectsToDelete[deleted + 1]
  <2>1. s \in Sources /\ Destroy(s) /\ running' = running
    BY <1>13 DEF TypeOK, DeleteNext, Destroy
  <2> HIDE DEF s
  <2> QED  BY <2>1, DestroyLeavesNothing
<1>14. CASE DispatcherReturns \/ HandlerReturns \/ ProcessEventsReturns \/ UNCHANGED vars
  BY <1>14 DEF DispatcherReturns, HandlerReturns, ProcessEventsReturns, vars, RegistrationsExact
<1> QED
  BY <1>1, <1>2, <1>3, <1>4, <1>5, <1>6, <1>7, <1>8, <1>9, <1>10, <1>11, <1>12, <1>13, <1>14
     DEF Next, User, Loop

-----------------------------------------------------------------------------
(* Scheduled deletions. *)

LEMMA DeletionsStep == TypeOK /\ DeletionsExact /\ [Next]_vars => DeletionsExact'
<1> SUFFICES ASSUME TypeOK, DeletionsExact, [Next]_vars PROVE DeletionsExact'  OBVIOUS
<1>0. objectsToDelete \in Seq(Sources) /\ deleted \in 0..Len(objectsToDelete)
  BY DEF TypeOK
<1>1. CASE UNCHANGED <<deletions, alive>>
  BY <1>1 DEF deletions, DeletionsExact
<1>2. ASSUME NEW s \in Sources, ScheduleForDeletion(s) PROVE DeletionsExact'
  <2>1. /\ s \in alive /\ ~scheduled[s]
        /\ scheduled' = [scheduled EXCEPT ![s] = TRUE]
        /\ objectsToDelete' = Append(objectsToDelete, s)
        /\ deleted' = deleted /\ alive' = alive
    BY <1>2 DEF ScheduleForDeletion
  <2>2. \A i \in (deleted + 1)..Len(objectsToDelete) :
           /\ objectsToDelete'[i] = objectsToDelete[i]
           /\ objectsToDelete[i] \in Sources /\ objectsToDelete[i] # s
    BY <1>0, <2>1 DEF DeletionsExact
  <2>3. /\ Len(objectsToDelete') = Len(objectsToDelete) + 1
        /\ objectsToDelete'[Len(objectsToDelete) + 1] = s
    BY <1>0, <2>1
  <2>4. \A i \in (deleted + 1)..(Len(objectsToDelete) + 1) :
           i \in (deleted + 1)..Len(objectsToDelete) \/ i = Len(objectsToDelete) + 1
    BY <1>0
  <2> HIDE <2>1
  <2>5. /\ \A t \in Sources : scheduled'[t] = (IF t = s THEN TRUE ELSE scheduled[t])
        /\ s \in alive /\ deleted' = deleted /\ alive' = alive
    BY <2>1 DEF TypeOK
  <2>6. \A i \in (deleted + 1)..Len(objectsToDelete') :
           objectsToDelete'[i] \in alive' /\ scheduled'[objectsToDelete'[i]]
    BY <2>2, <2>3, <2>4, <2>5 DEF DeletionsExact
  <2>7. \A i, j \in (deleted + 1)..Len(objectsToDelete') :
           objectsToDelete'[i] = objectsToDelete'[j] => i = j
    BY <2>2, <2>3, <2>4 DEF DeletionsExact
  <2> QED  BY <2>5, <2>6, <2>7 DEF DeletionsExact
<1>3. ASSUME NEW s \in Sources, Delete(s) PROVE DeletionsExact'
  <2>1. ~scheduled[s] /\ alive' = alive \ {s} /\ UNCHANGED <<objectsToDelete, deleted, scheduled>>
    BY <1>3 DEF Delete, Destroy, deletions
  <2> QED  BY <2>1 DEF DeletionsExact
<1>4. CASE DeleteNext
  <2> DEFINE s == objectsToDelete[deleted + 1]
  <2>1. /\ deleted < Len(objectsToDelete) /\ deleted' = deleted + 1
        /\ alive' = alive \ {s} /\ objectsToDelete' = objectsToDelete
        /\ scheduled' = [scheduled EXCEPT ![s] = FALSE]
    BY <1>4 DEF DeleteNext, Destroy
  <2>2. deleted + 1 \in (deleted + 1)..Len(objectsToDelete)  BY <1>0, <2>1
  <2>3. \A i \in (deleted' + 1)..Len(objectsToDelete) :
           /\ i \in (deleted + 1)..Len(objectsToDelete) /\ i # deleted + 1
           /\ objectsToDelete[i] \in Sources
    BY <1>0, <2>1
  <2>4. \A i \in (deleted' + 1)..Len(objectsToDelete) : objectsToDelete[i] # s
    BY <2>2, <2>3 DEF DeletionsExact
  <2> QED  BY <2>1, <2>3, <2>4 DEF DeletionsExact, TypeOK
<1>5. CASE DispatcherReturns
  <2>1. CASE UNCHANGED <<objectsToDelete, deleted>>
    BY <1>5, <2>1 DEF DispatcherReturns, DeletionsExact
  <2>2. CASE objectsToDelete' = <<>> /\ deleted' = 0
    BY <2>2 DEF DeletionsExact
  <2> QED  BY <1>5, <2>1, <2>2 DEF DispatcherReturns
<1> QED
  BY <1>1, <1>2, <1>3, <1>4, <1>5
     DEF Next, User, Loop, Enable, Disable, SetEventTypes, PostEvent, RemovePostedEvents, Report,
         ProcessEvents, CallOnEvent, CallDispatcher, TriggerNext, HandlerReturns,
         ProcessEventsReturns, vars

LEMMA NothingFetchedStep == TypeOK /\ NothingFetched /\ [Next]_vars => NothingFetched'
<1> SUFFICES ASSUME TypeOK, NothingFetched, [Next]_vars PROVE NothingFetched'  OBVIOUS
<1>1. CASE UNCHANGED <<running, fetched>>
  BY <1>1 DEF NothingFetched
<1>2. ASSUME NEW s \in Sources, RemoveFromPending(s), running' = running PROVE NothingFetched'
  BY <1>2 DEF NothingFetched, RemoveFromPending, TypeOK
<1>3. CASE running' # "loop"
  BY <1>3 DEF NothingFetched
<1>4. CASE ProcessEventsReturns
  BY <1>4 DEF ProcessEventsReturns, NothingFetched, Nothing, epoll
<1>5. CASE DeleteNext
  BY <1>3, <1>5 DEF DeleteNext
<1> QED
  BY <1>1, <1>2, <1>3, <1>4, <1>5
     DEF Next, User, Loop, Enable, Disable, SetEventTypes, PostEvent, RemovePostedEvents, Report,
         ScheduleForDeletion, Delete, Destroy, ProcessEvents, CallOnEvent, CallDispatcher,
         TriggerNext, DispatcherReturns, HandlerReturns, Dispatchers, vars, control, epoll

-----------------------------------------------------------------------------
(* The heads of the lists lead to all that is in them. *)

\* The parts of a closed set that are in a list are closed.
LEMMA InLists ==
    ASSUME TypeOK, ListsChained, NEW hd, hd = pReadyEvents \/ hd = pEventsBeingTriggered
    PROVE  /\ hd \in Pointers /\ (hd # Null => isInReadyList[hd] /\ pPrevious[hd] = Null)
           /\ \A s \in Sources : isInReadyList[s] =>
                /\ pNext[s] \in Pointers /\ pPrevious[s] \in Pointers
                /\ pNext[s] # Null => isInReadyList[pNext[s]] /\ pPrevious[pNext[s]] = s
                /\ pPrevious[s] # Null => isInReadyList[pPrevious[s]] /\ pNext[pPrevious[s]] = s
                /\ pPrevious[s] = Null => s = pReadyEvents \/ s = pEventsBeingTriggered
  BY DEF TypeOK, ListsChained, Chained, Pointers

LEMMA PushCovers ==
    ASSUME TypeOK, ListsChained, ListsCovered, NEW s \in Sources, ~isInReadyList[s], Push(s),
           isInReadyList' = [isInReadyList EXCEPT ![s] = TRUE]
    PROVE  ListsCovered'
<1> DEFINE In == {t \in Sources : isInReadyList[t]}
<1>1. /\ \A t \in Sources : pNext'[t] = IF t = s THEN pReadyEvents ELSE pNext[t]
      /\ \A t \in Sources : isInReadyList'[t] => t = s \/ isInReadyList[t]
      /\ pReadyEvents' = s /\ pEventsBeingTriggered' = pEventsBeingTriggered
  BY DEF TypeOK, Push
<1>2. SUFFICES ASSUME NEW S \in SUBSET Sources, Closed(S, pReadyEvents, pNext)',
                      Closed(S, pEventsBeingTriggered, pNext)',
                      NEW t \in Sources, isInReadyList'[t]
               PROVE  t \in S
  <2>1. (SUBSET Sources)' = SUBSET Sources  OBVIOUS
  <2> QED  BY <2>1 DEF ListsCovered, Covered, Closed
<1>3. s \in S /\ pReadyEvents \in S \cup {Null} /\ pEventsBeingTriggered \in S \cup {Null}
  BY <1>1, <1>2, NullAssumption DEF Closed
<1>4. \A u \in S \cap In : pNext[u] \in (S \cap In) \cup {Null}
  <2> SUFFICES ASSUME NEW u \in S, u \in In PROVE pNext[u] \in (S \cap In) \cup {Null}
    OBVIOUS
  <2>1. pNext'[u] \in S \cup {Null} /\ pNext'[u] = pNext[u]  BY <1>1, <1>2 DEF Closed
  <2>2. pNext[u] # Null => isInReadyList[pNext[u]]  BY InLists
  <2> QED  BY <2>1, <2>2
<1>5. pReadyEvents \in (S \cap In) \cup {Null} /\ pEventsBeingTriggered \in (S \cap In) \cup {Null}
  BY <1>3, InLists
<1>6. Closed(S \cap In, pReadyEvents, pNext) /\ Closed(S \cap In, pEventsBeingTriggered, pNext)
  BY <1>4, <1>5 DEF Closed
<1>7. S \cap In \in SUBSET Sources  OBVIOUS
<1> HIDE DEF In
<1>8. \A u \in Sources : isInReadyList[u] => u \in S
  BY <1>6, <1>7 DEF ListsCovered, Covered
<1> QED  BY <1>1, <1>2, <1>3, <1>8

\* Taking s out of the list it is in, by removeReadyEvent or as the next one to trigger.
LEMMA TakenOutCovers ==
    ASSUME TypeOK, ListsChained, ListsCovered, NEW s \in Sources, isInReadyList[s],
           \A t \in Sources : t # s =>
               pNext'[t] = IF t = pPrevious[s] THEN pNext[s] ELSE pNext[t],
           pReadyEvents' = (IF pReadyEvents = s THEN pNext[s] ELSE pReadyEvents),
           pEventsBeingTriggered' = (IF pEventsBeingTriggered = s THEN pNext[s]
                                     ELSE pEventsBeingTriggered),
           isInReadyList' = [isInReadyList EXCEPT ![s] = FALSE]
    PROVE  ListsCovered'
<1>1. \A t \in Sources : isInReadyList'[t] <=> t # s /\ isInReadyList[t]  BY DEF TypeOK
<1>2. SUFFICES ASSUME NEW S \in SUBSET Sources, Closed(S, pReadyEvents, pNext)',
                      Closed(S, pEventsBeingTriggered, pNext)',
                      NEW u \in Sources, isInReadyList'[u]
               PROVE  u \in S
  <2>1. (SUBSET Sources)' = SUBSET Sources  OBVIOUS
  <2> QED  BY <2>1 DEF ListsCovered, Covered, Closed
<1> DEFINE R == {t \in S : t # s /\ isInReadyList[t]}
<1>3. /\ pReadyEvents' \in S \cup {Null} /\ pEventsBeingTriggered' \in S \cup {Null}
      /\ \A t \in S : pNext'[t] \in S \cup {Null}
  BY <1>2 DEF Closed
<1>4. pReadyEvents \in R \cup {s, Null} /\ pEventsBeingTriggered \in R \cup {s, Null}
  BY <1>3, InLists
<1>5. ASSUME NEW t \in R PROVE pNext[t] \in R \cup {s, Null}
  <2>1. pNext[t] # Null => pNext[t] \in Sources /\ isInReadyList[pNext[t]]
                           /\ pPrevious[pNext[t]] = t
    BY <1>5, InLists DEF Pointers
  <2>2. CASE pNext[t] # Null /\ pNext[t] # s
    <3>1. t # pPrevious[s]
      <4>1. SUFFICES ASSUME t = pPrevious[s] PROVE FALSE  OBVIOUS
      <4>2. t # Null  BY <1>5, NullAssumption
      <4>3. pNext[t] = s  BY <4>1, <4>2, InLists
      <4> QED  BY <2>2, <4>3
    <3>2. pNext[t] \in S \cup {Null}  BY <1>3, <1>5, <3>1
    <3> QED  BY <2>1, <2>2, <3>2
  <2> QED  BY <2>2
<1>6. CASE s \in {pReadyEvents, pEventsBeingTriggered} \/ \E t \in R : pNext[t] = s
  <2>1. pNext[s] \in S \cup {Null}
    <3>1. CASE s \in {pReadyEvents, pEventsBeingTriggered}
      BY <1>3, <3>1
    <3>2. ASSUME NEW t \in R, pNext[t] = s PROVE pNext[s] \in S \cup {Null}
      <4>1. t = pPrevious[s]  BY <3>2, InLists, NullAssumption
      <4>2. pNext'[t] = pNext[s]  BY <3>2, <4>1
      <4> QED  BY <1>3, <3>2, <4>2
    <3> QED  BY <1>6, <3>1, <3>2
  <2>2. pNext[s] \in R \cup {s, Null}  BY <2>1, InLists
  <2>3. R \cup {s} \in SUBSET Sources  OBVIOUS
  <2>4. Closed(R \cup {s}, pReadyEvents, pNext) /\ Closed(R \cup {s}, pEventsBeingTriggered, pNext)
    BY <1>4, <1>5, <2>2 DEF Closed
  <2> HIDE DEF R
  <2>5. u \in R \cup {s}  BY <1>1, <1>2, <2>3, <2>4 DEF ListsCovered, Covered
  <2> QED  BY <1>1, <1>2, <2>5 DEF R
<1>7. CASE ~(s \in {pReadyEvents, pEventsBeingTriggered} \/ \E t \in R : pNext[t] = s)
  <2>1. Closed(R, pReadyEvents, pNext) /\ Closed(R, pEventsBeingTriggered, pNext)
    BY <1>4, <1>5, <1>7 DEF Closed
  <2>2. R \in SUBSET Sources /\ s \notin R  OBVIOUS
  <2> HIDE DEF R
  <2>3. s \in R  BY <2>1, <2>2 DEF ListsCovered, Covered
  <2> QED  BY <2>2, <2>3
<1> QED  BY <1>6, <1>7

LEMMA RemoveCovers ==
    ASSUME TypeOK, ListsChained, ListsCovered, NEW s \in Sources, RemoveReadyEvent(s)
    PROVE  ListsCovered'
<1>1. CASE isInReadyList[s]
  <2>1. Unlink(s) /\ isInReadyList' = [isInReadyList EXCEPT ![s] = FALSE]
    BY <1>1 DEF RemoveReadyEvent
  <2>2. \A t \in Sources : t # s =>
            pNext'[t] = IF t = pPrevious[s] THEN pNext[s] ELSE pNext[t]
    BY <2>1, NullAssumption DEF TypeOK, Unlink, With, Pointers
  <2>3. /\ pReadyEvents' = IF pReadyEvents = s THEN pNext[s] ELSE pReadyEvents
        /\ pEventsBeingTriggered' = IF pEventsBeingTriggered = s THEN pNext[s]
                                    ELSE pEventsBeingTriggered
    BY <2>1, NullAssumption DEF Unlink, ListsChained, Chained
  <2> QED  BY <1>1, <2>1, <2>2, <2>3, TakenOutCovers
<1>2. CASE ~isInReadyList[s]
  BY <1>2 DEF RemoveReadyEvent, lists, ListsCovered, Covered, Closed
<1> QED  BY <1>1, <1>2

LEMMA CoveredStep == TypeOK /\ ListsChained /\ ListsCovered /\ [Next]_vars => ListsCovered'
<1> SUFFICES ASSUME TypeOK, ListsChained, ListsCovered, [Next]_vars PROVE ListsCovered'
  OBVIOUS
<1>1. CASE UNCHANGED lists  BY <1>1 DEF lists, ListsCovered, Covered, Closed
<1>2. ASSUME NEW s \in Sources, NEW e \in Events, PostEvent(s, e) PROVE ListsCovered'
  <2>1. CASE isInReadyList[s]
    BY <1>2, <2>1 DEF PostEvent, ListsCovered, Covered, Closed
  <2>2. CASE ~isInReadyList[s]
    BY <1>2, <2>2, PushCovers DEF PostEvent
  <2> QED  BY <2>1, <2>2
<1>3. ASSUME NEW s \in Sources, RemovePostedEvents(s) \/ Delete(s) PROVE ListsCovered'
  BY <1>3, RemoveCovers DEF RemovePostedEvents, Delete, Destroy
<1>4. CASE DeleteNext
  <2>1. objectsToDelete[deleted + 1] \in Sources  BY <1>4 DEF TypeOK, DeleteNext
  <2> QED  BY <1>4, <2>1, RemoveCovers DEF DeleteNext, Destroy
<1>5. ASSUME NEW d \in Dispatchers, CallDispatcher(d) PROVE ListsCovered'
  <2>1. CASE d = "registrar"
    <3>1. /\ pEventsBeingTriggered = Null /\ pReadyEvents' = Null
          /\ pEventsBeingTriggered' = pReadyEvents
          /\ pNext' = pNext /\ isInReadyList' = isInReadyList
      BY <1>5, <2>1 DEF CallDispatcher, ListsChained
    <3> QED  BY <3>1 DEF ListsCovered, Covered, Closed
  <2>2. CASE d # "registrar"
    BY <1>1, <1>5, <2>2 DEF CallDispatcher, lists
  <2> QED  BY <2>1, <2>2
<1>6. CASE TriggerNext
  <2> DEFINE s == pEventsBeingTriggered
  <2>1. s \in Sources /\ isInReadyList[s] /\ pPrevious[s] = Null /\ pReadyEvents # s
    BY <1>6 DEF TriggerNext, TypeOK, Pointers, ListsChained, Chained
  <2>2. \A t \in Sources : t # s =>
            pNext'[t] = IF t = pPrevious[s] THEN pNext[s] ELSE pNext[t]
    BY <1>6, <2>1, NullAssumption DEF TriggerNext, TypeOK
  <2>3. /\ pReadyEvents' = pReadyEvents /\ pEventsBeingTriggered' = pNext[s]
        /\ isInReadyList' = [isInReadyList EXCEPT ![s] = FALSE]
    BY <1>6 DEF TriggerNext
  <2> QED  BY <2>1, <2>2, <2>3, TakenOutCovers
<1> QED
  BY <1>1, <1>2, <1>3, <1>4, <1>5, <1>6
     DEF Next, User, Loop, Enable, Disable, SetEventTypes, ScheduleForDeletion, Report,
         ProcessEvents, CallOnEvent, DispatcherReturns, HandlerReturns,
         ProcessEventsReturns, vars

-----------------------------------------------------------------------------
(* The dispatchers. *)

LEMMA SetsEvent ==
    ASSUME NEW d \in Dispatchers, Set(d), DispatchersExact, UNCHANGED <<running, fetchedDispatchers>>
    PROVE  /\ d \in eventIsSet' /\ eventIsSet \subseteq eventIsSet'
           /\ eventIsSet' = readyDispatchers' \cup fetchedDispatchers'
           /\ readyDispatchers' \cap fetchedDispatchers' = {}
           /\ running' = "loop" => fetchedDispatchers' = {}
  BY DEF Set, DispatchersExact, EventsSet

\* A list may become empty, but only addReadyEvent begins one.
LEMMA NoneBegun ==
    ASSUME TypeOK, ListsChained, NEW s \in Sources, RemoveReadyEvent(s), pReadyEvents' # Null
    PROVE  pReadyEvents # Null
  BY NullAssumption DEF RemoveReadyEvent, Unlink, lists

LEMMA DispatchersStep ==
    TypeOK /\ ListsChained /\ DispatchersExact /\ [Next]_vars => DispatchersExact'
<1> SUFFICES ASSUME TypeOK, ListsChained, DispatchersExact, [Next]_vars
             PROVE  DispatchersExact'
  OBVIOUS
<1> USE DEF control, epoll, deletions
<1>1. CASE UNCHANGED <<pReadyEvents, eventIsSet, running, objectsToDelete, readyDispatchers,
                       fetchedDispatchers>>
  BY <1>1 DEF DispatchersExact, EventsSet
<1>2. ASSUME NEW s \in Sources, NEW e \in Events, PostEvent(s, e) PROVE DispatchersExact'
  <2>1. CASE isInReadyList[s]
    BY <1>1, <1>2, <2>1 DEF PostEvent
  <2>2. CASE ~isInReadyList[s]
    <3>1. Set("registrar") /\ UNCHANGED <<running, fetchedDispatchers, objectsToDelete>>
      BY <1>2, <2>2 DEF PostEvent
    <3>2. "registrar" \in Dispatchers  BY DEF Dispatchers
    <3> QED  BY <3>1, <3>2, SetsEvent DEF DispatchersExact, EventsSet
  <2> QED  BY <2>1, <2>2
<1>3. ASSUME NEW s \in Sources, ScheduleForDeletion(s) PROVE DispatchersExact'
  <2>1. Set("deleter") /\ UNCHANGED <<running, fetchedDispatchers, pReadyEvents>>
    BY <1>3 DEF ScheduleForDeletion, lists
  <2>2. "deleter" \in Dispatchers  BY DEF Dispatchers
  <2> QED  BY <2>1, <2>2, SetsEvent DEF DispatchersExact, EventsSet
<1>4. ASSUME NEW s \in Sources, RemovePostedEvents(s) \/ Delete(s) PROVE DispatchersExact'
  <2>1. /\ RemoveReadyEvent(s)
        /\ UNCHANGED <<eventIsSet, running, objectsToDelete, readyDispatchers, fetchedDispatchers>>
    BY <1>4 DEF RemovePostedEvents, Delete, Destroy
  <2> QED  BY <2>1, NoneBegun DEF DispatchersExact, EventsSet
<1>5. CASE DeleteNext
  <2>1. objectsToDelete[deleted + 1] \in Sources  BY <1>5 DEF TypeOK, DeleteNext
  <2>2. /\ RemoveReadyEvent(objectsToDelete[deleted + 1])
        /\ UNCHANGED <<eventIsSet, running, objectsToDelete, readyDispatchers, fetchedDispatchers>>
    BY <1>5 DEF DeleteNext, Destroy
  <2> QED  BY <2>1, <2>2, NoneBegun DEF DispatchersExact, EventsSet
<1>6. CASE ProcessEvents
  BY <1>6 DEF ProcessEvents, DispatchersExact, EventsSet, lists
<1>7. ASSUME NEW d \in Dispatchers, CallDispatcher(d) PROVE DispatchersExact'
  <2>1. /\ running = "events" /\ d \in fetchedDispatchers /\ running' = d
        /\ fetchedDispatchers' = fetchedDispatchers \ {d} /\ eventIsSet' = eventIsSet \ {d}
        /\ UNCHANGED <<readyDispatchers, objectsToDelete>>
        /\ IF d = "registrar" THEN pReadyEvents' = Null ELSE pReadyEvents' = pReadyEvents
    BY <1>7 DEF CallDispatcher
  <2> QED  BY <1>7, <2>1 DEF DispatchersExact, EventsSet, Dispatchers
<1>8. CASE TriggerNext
  BY <1>1, <1>8 DEF TriggerNext
<1>9. CASE DispatcherReturns
  <2>1. /\ running' = "events" /\ running \in Dispatchers
        /\ UNCHANGED <<pReadyEvents, eventIsSet, readyDispatchers, fetchedDispatchers>>
        /\ \/ objectsToDelete' = objectsToDelete /\ running = "registrar"
           \/ objectsToDelete' = <<>>
    BY <1>9 DEF DispatcherReturns, Dispatchers, lists
  <2> QED  BY <2>1 DEF DispatchersExact, EventsSet
<1>10. CASE ProcessEventsReturns
  BY <1>10 DEF ProcessEventsReturns, DispatchersExact, EventsSet, lists
<1> QED
  BY <1>1, <1>2, <1>3, <1>4, <1>5, <1>6, <1>7, <1>8, <1>9, <1>10
     DEF Next, User, Loop, Enable, Disable, SetEventTypes, Report,
         CallOnEvent, HandlerReturns, vars, lists

-----------------------------------------------------------------------------
(* The invariant. *)

LEMMA InitLoopInvariant == Init => LoopInvariant
<1> SUFFICES ASSUME Init PROVE LoopInvariant  OBVIOUS
<1>1. TypeOK
  <2>1. objectsToDelete \in Seq(Sources) /\ deleted \in 0..Len(objectsToDelete)
    BY DEF Init
  <2>2. /\ ready \in [Sources -> SUBSET Events] /\ fetched \in [Sources -> SUBSET Events]
        /\ eventTypes \in [Sources -> SUBSET Events]
        /\ postedEventTypes \in [Sources -> SUBSET Events]
    BY DEF Init, Nothing
  <2>3. /\ pNext \in [Sources -> Pointers] /\ pPrevious \in [Sources -> Pointers]
        /\ pReadyEvents \in Pointers /\ pEventsBeingTriggered \in Pointers
    BY DEF Init, Pointers
  <2>4. /\ enabled \in [Sources -> BOOLEAN] /\ isInReadyList \in [Sources -> BOOLEAN]
        /\ scheduled \in [Sources -> BOOLEAN] /\ userRuns \in BOOLEAN
    BY DEF Init
  <2>5. /\ alive \subseteq Sources /\ eventIsSet \subseteq Dispatchers
        /\ readyDispatchers \subseteq Dispatchers /\ fetchedDispatchers \subseteq Dispatchers
        /\ running \in {"loop", "events"} \cup Dispatchers
    BY DEF Init
  <2> QED  BY <2>1, <2>2, <2>3, <2>4, <2>5 DEF TypeOK
<1>2. ListsChained  BY DEF Init, ListsChained, Chained, Nothing
<1>3. RegistrationsExact  BY DEF Init, RegistrationsExact, Nothing
<1>4. DeletionsExact  BY DEF Init, DeletionsExact
<1>5. NothingFetched  BY DEF Init, NothingFetched, Nothing
<1>6. ListsCovered  BY DEF Init, ListsCovered, Covered
<1>7. DispatchersExact  BY DEF Init, DispatchersExact, EventsSet
<1> QED  BY <1>1, <1>2, <1>3, <1>4, <1>5, <1>6, <1>7 DEF LoopInvariant

LEMMA LoopInvariantStep == LoopInvariant /\ [Next]_vars => LoopInvariant'
  BY TypeStep, ListsStep, RegistrationsStep, DeletionsStep, NothingFetchedStep,
     CoveredStep, DispatchersStep
     DEF LoopInvariant

\* The pointers, the flags, the registrations and what is still to be deleted agree
\* in every reachable state, whatever handlers do while the batch, the list or the
\* vector is being gone through.
THEOREM LoopIsInvariant == Spec => []LoopInvariant
  BY InitLoopInvariant, LoopInvariantStep, PTL DEF Spec

\* From the head of a list pNext leads only to members of it, and so does pPrevious.
LEMMA WalkStays ==
    ASSUME TypeOK, ListsChained, NEW hd, NEW other,
           {hd, other} = {pReadyEvents, pEventsBeingTriggered}
    PROVE  /\ Closed(Walk(hd), hd, pNext)
           /\ \A S \in SUBSET Sources : Closed(S, hd, pNext) => Walk(hd) \subseteq S
           /\ \A s \in Walk(hd) : /\ s \in Sources /\ isInReadyList[s]
                                  /\ s = hd \/ (pPrevious[s] \in Walk(hd) /\ s # other)
<1>0. hd = pReadyEvents \/ hd = pEventsBeingTriggered  OBVIOUS
<1>1. ASSUME NEW S \in SUBSET Sources, Closed(S, hd, pNext) PROVE Walk(hd) \subseteq S
  BY <1>1 DEF Walk, Closed
<1>2. hd \in Walk(hd) \cup {Null}
  BY <1>0, InLists DEF Walk, Pointers
<1>3. ASSUME NEW t \in Walk(hd) PROVE pNext[t] \in Walk(hd) \cup {Null}
  <2>1. t \in Sources /\ pNext[t] \in Sources \cup {Null}  BY <1>3 DEF Walk, TypeOK, Pointers
  <2> SUFFICES ASSUME pNext[t] # Null, NEW S \in SUBSET Sources, Closed(S, hd, pNext)
               PROVE  pNext[t] \in S
    BY <2>1 DEF Walk, Closed
  <2>2. t \in S  BY <1>1, <1>3
  <2> QED  BY <2>2 DEF Closed
<1>4. Closed(Walk(hd), hd, pNext)  BY <1>2, <1>3 DEF Closed
<1> DEFINE In == {s \in Sources : isInReadyList[s]}
<1>5. Closed(In, hd, pNext)  BY <1>0, InLists DEF Closed, Pointers
<1>6. Walk(hd) \subseteq In  BY <1>1, <1>5
<1>7. ASSUME NEW s \in Walk(hd) PROVE s = hd \/ (pPrevious[s] \in Walk(hd) /\ s # other)
  <2> SUFFICES ASSUME s # hd, ~(pPrevious[s] \in Walk(hd) /\ s # other) PROVE FALSE
    OBVIOUS
  <2> DEFINE S == Walk(hd) \ {s}
  <2>1. s \in Sources /\ isInReadyList[s]  BY <1>6, <1>7
  <2>2. \A t \in S : t \in Sources /\ isInReadyList[t]  BY <1>6
  <2>3. \A t \in S : pNext[t] # s
    <3> SUFFICES ASSUME NEW t \in S, pNext[t] = s PROVE FALSE  OBVIOUS
    <3>1. pPrevious[s] = t /\ s # Null  BY <1>0, <2>1, <2>2, InLists, NullAssumption
    <3>2. s # other
      <4>1. other = pReadyEvents \/ other = pEventsBeingTriggered  OBVIOUS
      <4>2. t # Null  BY <2>2, NullAssumption
      <4> QED  BY <3>1, <4>1, <4>2, InLists
    <3> QED  BY <3>1, <3>2
  <2>4. \A t \in S : pNext[t] \in S \cup {Null}  BY <1>3, <2>3
  <2>5. hd \in S \cup {Null}  BY <1>2
  <2>6. S \in SUBSET Sources  BY <2>2
  <2>7. Closed(S, hd, pNext)  BY <2>4, <2>5 DEF Closed
  <2>8. Walk(hd) \subseteq S  BY <1>1, <2>6, <2>7
  <2> QED  BY <1>7, <2>8
<1> QED  BY <1>1, <1>4, <1>6, <1>7

LEMMA ListsAreExact == LoopInvariant => ListsExact
<1> SUFFICES ASSUME LoopInvariant PROVE ListsExact  OBVIOUS
<1> DEFINE A == Walk(pReadyEvents)
           B == Walk(pEventsBeingTriggered)
<1>0. TypeOK /\ ListsChained /\ ListsCovered /\ DispatchersExact  BY DEF LoopInvariant
<1>1. /\ Closed(A, pReadyEvents, pNext)
      /\ \A S \in SUBSET Sources : Closed(S, pReadyEvents, pNext) => A \subseteq S
      /\ \A s \in A : /\ s \in Sources /\ isInReadyList[s]
                      /\ s = pReadyEvents \/ (pPrevious[s] \in A /\ s # pEventsBeingTriggered)
  BY <1>0, WalkStays
<1>2. /\ Closed(B, pEventsBeingTriggered, pNext)
      /\ \A s \in B : /\ s \in Sources /\ isInReadyList[s]
                      /\ s = pEventsBeingTriggered \/ (pPrevious[s] \in B /\ s # pReadyEvents)
  <2>1. {pEventsBeingTriggered, pReadyEvents} = {pReadyEvents, pEventsBeingTriggered}  OBVIOUS
  <2> QED  BY <1>0, <2>1, WalkStays
<1> HIDE DEF A, B
<1>3. A \cap B = {}
  <2> DEFINE S == A \ B
  <2>1. ASSUME NEW t \in S PROVE pNext[t] \in S \cup {Null}
    <3>1. pNext[t] \in A \cup {Null} /\ t \in Sources /\ isInReadyList[t]
      BY <1>1 DEF Closed
    <3>2. ASSUME pNext[t] \in B PROVE FALSE
      <4>1. pPrevious[pNext[t]] = t
        BY <1>0, <1>2, <3>1, <3>2, InLists, NullAssumption
      <4>2. pNext[t] = pEventsBeingTriggered
        BY <1>2, <2>1, <3>2, <4>1
      <4>3. pPrevious[pEventsBeingTriggered] = Null
        BY <1>0, <1>2, <3>2, <4>2, InLists, NullAssumption
      <4> QED  BY <3>1, <4>1, <4>2, <4>3, NullAssumption
    <3> QED  BY <3>1, <3>2
  <2>2. pReadyEvents \notin B \/ pReadyEvents = Null
    <3>1. pReadyEvents = pEventsBeingTriggered => pReadyEvents = Null
      BY <1>0 DEF ListsChained, Chained
    <3> QED  BY <1>2, <3>1
  <2>3. Closed(S, pReadyEvents, pNext)  BY <1>1, <2>1, <2>2 DEF Closed
  <2>4. S \in SUBSET Sources  BY <1>1
  <2>5. A \subseteq S  BY <1>1, <2>3, <2>4
  <2> QED  BY <2>5
<1>4. {s \in Sources : isInReadyList[s]} = A \cup B
  <2>1. A \cup B \in SUBSET Sources  BY <1>1, <1>2
  <2>2. Closed(A \cup B, pReadyEvents, pNext) /\ Closed(A \cup B, pEventsBeingTriggered, pNext)
    BY <1>1, <1>2 DEF Closed
  <2>3. \A s \in Sources : isInReadyList[s] => s \in A \cup B
    BY <1>0, <2>1, <2>2 DEF ListsCovered, Covered
  <2> QED  BY <1>1, <1>2, <2>3
<1>5. Linked(pReadyEvents) /\ Linked(pEventsBeingTriggered)
  <2>1. \A s \in A \cup B : pNext[s] # Null => pPrevious[pNext[s]] = s
    BY <1>0, <1>1, <1>2, InLists
  <2>2. /\ pReadyEvents # Null => pPrevious[pReadyEvents] = Null
        /\ pEventsBeingTriggered # Null => pPrevious[pEventsBeingTriggered] = Null
    BY <1>0, InLists
  <2> QED  BY <2>1, <2>2 DEF Linked, A, B
<1>6. /\ EventsSet /\ (running # "registrar" => pEventsBeingTriggered = Null)
      /\ \A s \in Sources : isInReadyList[s] <=> postedEventTypes[s] # {}
  BY <1>0 DEF DispatchersExact, ListsChained
<1> QED  BY <1>0, <1>3, <1>4, <1>5, <1>6 DEF ListsExact, A, B

\* The two lists hold the sources with posted events, each once, whatever is posted and
\* removed while one of them is being handed out, and a dispatcher with work is on the
\* way.
THEOREM PostedAreListed == Spec => []ListsExact
  BY LoopIsInvariant, ListsAreExact, PTL

LEMMA NothingDangles == LoopInvariant => NoDanglingSource
<1> SUFFICES ASSUME LoopInvariant PROVE NoDanglingSource  OBVIOUS
<1> DEFINE first == deleted + 1
           last == Len(objectsToDelete)
           toDelete == SubSeq(objectsToDelete, first, last)
<1>1. /\ objectsToDelete \in Seq(Sources) /\ deleted \in 0..last
      /\ first \in Nat /\ last \in Nat /\ 1 <= first
  BY DEF LoopInvariant, TypeOK
<1>2. /\ Len(toDelete) = last - deleted
      /\ \A i \in 1..Len(toDelete) : toDelete[i] = objectsToDelete[deleted + i]
      /\ DOMAIN toDelete = 1..Len(toDelete)
  <2>1. CASE deleted = last
    <3>1. toDelete = <<>>  BY <1>1, <2>1, SubSeqProperties
    <3> QED  BY <1>1, <2>1, <3>1
  <2>2. CASE deleted < last
    BY <1>1, <2>2, SubSeqProperties
  <2> QED  BY <1>1, <2>1, <2>2
<1>3. ASSUME NEW i \in 1..Len(toDelete) PROVE deleted + i \in first..last
  BY <1>1, <1>2
<1>4. /\ \A i \in first..last : objectsToDelete[i] \in alive
      /\ \A i, j \in first..last : objectsToDelete[i] = objectsToDelete[j] => i = j
  BY DEF LoopInvariant, DeletionsExact
<1> HIDE DEF first, last, toDelete
<1>5. ToSet(toDelete) \subseteq alive
  <2>1. \A i \in DOMAIN toDelete : toDelete[i] \in alive  BY <1>2, <1>3, <1>4
  <2> QED  BY <2>1 DEF ToSet
<1>6. IsInjective(toDelete)
  <2>1. ASSUME NEW i \in 1..Len(toDelete), NEW j \in 1..Len(toDelete), toDelete[i] = toDelete[j]
        PROVE  i = j
    <3>1. deleted + i = deleted + j  BY <1>2, <1>3, <1>4, <2>1
    <3> QED  BY <1>1, <1>2, <3>1
  <2> QED  BY <1>2, <2>1 DEF IsInjective
<1> USE DEF first, last, toDelete
<1>7. \A s \in Sources : /\ ready[s] \cup fetched[s] # {} => enabled[s]
                         /\ enabled[s] \/ isInReadyList[s] => s \in alive
  BY DEF LoopInvariant, RegistrationsExact
<1> QED  BY <1>5, <1>6, <1>7 DEF NoDanglingSource

\* No source that was deleted or disabled is in the cache or in a list, and nothing is
\* deleted twice, whichever source the handlers delete, disable or schedule.
THEOREM NoneDangles == Spec => []NoDanglingSource
  BY LoopIsInvariant, NothingDangles, PTL

-----------------------------------------------------------------------------
(* The loop implements the contract: which of its actions each step is. *)

\* The contract's variables in terms of the loop's.
wantedTypes == [s \in Sources |-> IF enabled[s] THEN eventTypes[s] ELSE {}]
reportedEvents == [s \in Sources |-> ready[s] \cup fetched[s]]
scheduledSources == {s \in Sources : scheduled[s]}

LEMMA ContractNothing == Contract!Nothing = Nothing
  BY DEF Contract!Nothing, Nothing

\* A step that changes no event, registration or mark is none of the contract's.
LEMMA UnseenSteps ==
    ASSUME UNCHANGED <<alive, registration, postedEventTypes, scheduled, userRuns>>,
           UNCHANGED reportedEvents
    PROVE  UNCHANGED Contract!vars
  BY DEF registration, Contract!vars, wantedTypes, reportedEvents

LEMMA EnableIsRegister ==
    ASSUME LoopInvariant, NEW s \in Sources, Enable(s)
    PROVE  Contract!Register(s)
<1>1. /\ s \in alive /\ ~enabled[s] /\ ready[s] = {} /\ fetched[s] = {}
      /\ enabled' = [enabled EXCEPT ![s] = TRUE] /\ eventTypes' = eventTypes
      /\ fetched' = fetched
      /\ UNCHANGED <<alive, postedEventTypes, scheduled, userRuns>>
  BY DEF Enable, LoopInvariant, RegistrationsExact, control, lists, deletions
<1>2. PICK es \in SUBSET eventTypes[s] : ready' = [ready EXCEPT ![s] = es]
  BY DEF Enable
<1>3. TypeOK /\ eventTypes[s] \in SUBSET Events  BY DEF LoopInvariant, TypeOK
<1>4. wantedTypes' = [wantedTypes EXCEPT ![s] = eventTypes[s]]
  BY <1>1, <1>3 DEF TypeOK, wantedTypes
<1>5. reportedEvents' = [reportedEvents EXCEPT ![s] = es]
  BY <1>1, <1>2, <1>3 DEF TypeOK, reportedEvents
<1>6. reportedEvents[s] = {}  BY <1>1 DEF reportedEvents
<1> QED
  BY <1>1, <1>2, <1>3, <1>4, <1>5, <1>6
     DEF Contract!Register, wantedTypes, reportedEvents, scheduledSources

LEMMA DisableIsRegister ==
    ASSUME LoopInvariant, NEW s \in Sources, Disable(s)
    PROVE  Contract!Register(s)
<1>1. /\ s \in alive /\ enabled' = [enabled EXCEPT ![s] = FALSE] /\ eventTypes' = eventTypes
      /\ ready' = [ready EXCEPT ![s] = {}] /\ fetched' = [fetched EXCEPT ![s] = {}]
      /\ UNCHANGED <<alive, postedEventTypes, scheduled, userRuns>>
  BY DEF Disable, RemoveFromPending, LoopInvariant, RegistrationsExact, control, lists, deletions
<1>2. TypeOK  BY DEF LoopInvariant
<1>3. wantedTypes' = [wantedTypes EXCEPT ![s] = {}]  BY <1>1, <1>2 DEF TypeOK, wantedTypes
<1>4. reportedEvents' = [reportedEvents EXCEPT ![s] = {}]
  BY <1>1, <1>2 DEF TypeOK, reportedEvents
<1> QED
  BY <1>1, <1>3, <1>4 DEF Contract!Register, wantedTypes, reportedEvents, scheduledSources

\* Of a disabled source the types change unseen.
LEMMA SetEventTypesIsRegister ==
    ASSUME LoopInvariant, NEW s \in Sources, NEW es \in SUBSET Events, SetEventTypes(s, es)
    PROVE  Contract!Register(s) \/ UNCHANGED Contract!vars
<1>1. /\ s \in alive /\ eventTypes' = [eventTypes EXCEPT ![s] = es] /\ enabled' = enabled
      /\ UNCHANGED <<alive, postedEventTypes, scheduled, userRuns>>
  BY DEF SetEventTypes, control, lists, deletions
<1>2. TypeOK  BY DEF LoopInvariant
<1>3. CASE enabled[s]
  <2>1. /\ ready' = [ready EXCEPT ![s] = (ready[s] \cup fetched[s]) \cap es]
        /\ fetched' = [fetched EXCEPT ![s] = {}]
    BY <1>3 DEF SetEventTypes, RemoveFromPending
  <2>2. wantedTypes' = [wantedTypes EXCEPT ![s] = es]
    BY <1>1, <1>2, <1>3 DEF TypeOK, wantedTypes
  <2>3. reportedEvents' = [reportedEvents EXCEPT ![s] = reportedEvents[s] \cap es]
    BY <1>2, <2>1 DEF TypeOK, reportedEvents
  <2>4. reportedEvents[s] \cap es \in SUBSET es  OBVIOUS
  <2> HIDE DEF reportedEvents, wantedTypes
  <2>5. Contract!Register(s)
    <3>1. /\ Contract!Register(s) <=>
             /\ s \in alive
             /\ \E fs \in SUBSET Events :
                   /\ wantedTypes' = [wantedTypes EXCEPT ![s] = fs]
                   /\ \E rs \in SUBSET fs : /\ reportedEvents[s] \cap fs \subseteq rs
                                            /\ reportedEvents' = [reportedEvents EXCEPT ![s] = rs]
             /\ UNCHANGED <<alive, postedEventTypes, scheduledSources, userRuns>>
      BY DEF Contract!Register, wantedTypes, reportedEvents, scheduledSources
    <3>2. UNCHANGED scheduledSources  BY <1>1 DEF scheduledSources
    <3> QED  BY <1>1, <2>2, <2>3, <2>4, <3>1, <3>2
  <2> QED  BY <2>5
<1>4. CASE ~enabled[s]
  <2>1. UNCHANGED <<ready, fetched>>  BY <1>4 DEF SetEventTypes
  <2>2. wantedTypes' = wantedTypes  BY <1>1, <1>2, <1>4 DEF TypeOK, wantedTypes
  <2>3. reportedEvents' = reportedEvents  BY <2>1 DEF reportedEvents
  <2> QED  BY <1>1, <2>2, <2>3 DEF Contract!vars, wantedTypes, reportedEvents
<1> QED  BY <1>3, <1>4

LEMMA ReportIsReport ==
    ASSUME LoopInvariant, NEW s \in Sources, Report(s)
    PROVE  Contract!Report(s)
<1>1. PICK e \in eventTypes[s] : ready' = [ready EXCEPT ![s] = ready[s] \cup {e}]
  BY DEF Report
<1>2. enabled[s] /\ fetched' = fetched /\ UNCHANGED registration
      /\ UNCHANGED <<alive, postedEventTypes, scheduled, userRuns>>
  BY DEF Report, control, lists, deletions
<1>3. TypeOK  BY DEF LoopInvariant
<1>4. wantedTypes' = wantedTypes /\ {e} \in SUBSET wantedTypes[s]
  BY <1>1, <1>2 DEF wantedTypes, registration
<1>5. reportedEvents' = [reportedEvents EXCEPT ![s] = reportedEvents[s] \cup {e}]
  BY <1>1, <1>2, <1>3 DEF TypeOK, reportedEvents
<1> QED
  BY <1>2, <1>4, <1>5 DEF Contract!Report, wantedTypes, reportedEvents, scheduledSources

LEMMA PostIsPost ==
    ASSUME LoopInvariant, NEW s \in Sources, NEW e \in Events, PostEvent(s, e)
    PROVE  Contract!Post(s)
<1>1. /\ s \in alive /\ postedEventTypes' = [postedEventTypes EXCEPT ![s] = @ \cup {e}]
      /\ UNCHANGED <<alive, registration, ready, fetched, scheduled, userRuns>>
  BY DEF PostEvent, control, deletions
<1> QED  BY <1>1 DEF Contract!Post, registration

LEMMA RemoveIsRemovePosted ==
    ASSUME LoopInvariant, NEW s \in Sources, RemovePostedEvents(s)
    PROVE  Contract!RemovePosted(s)
<1>1. RemoveReadyEvent(s) /\ UNCHANGED <<alive, registration, epoll, running, userRuns, scheduled>>
  BY DEF RemovePostedEvents, control, deletions
<1>2. postedEventTypes' = [postedEventTypes EXCEPT ![s] = {}]
  BY <1>1, RemoveKeepsLists DEF LoopInvariant
<1> QED  BY <1>1, <1>2 DEF Contract!RemovePosted, registration, epoll

LEMMA ScheduleIsSchedule ==
    ASSUME LoopInvariant, NEW s \in Sources, ScheduleForDeletion(s)
    PROVE  Contract!Schedule(s)
<1>1. /\ s \in alive /\ scheduled' = [scheduled EXCEPT ![s] = TRUE]
      /\ UNCHANGED <<alive, registration, ready, fetched, postedEventTypes, userRuns>>
  BY DEF ScheduleForDeletion, control, lists
<1>2. scheduledSources' = scheduledSources \cup {s}
  BY <1>1 DEF LoopInvariant, TypeOK, scheduledSources
<1> QED  BY <1>1, <1>2 DEF Contract!Schedule, scheduledSources, registration

LEMMA DestroyIsGone ==
    ASSUME LoopInvariant, NEW s \in Sources, s \in alive, Destroy(s), running' = running
    PROVE  Contract!Gone(s)
<1>1. /\ alive' = alive \ {s} /\ enabled' = [enabled EXCEPT ![s] = FALSE]
      /\ eventTypes' = [eventTypes EXCEPT ![s] = Events]
      /\ ready' = [ready EXCEPT ![s] = {}] /\ fetched' = [fetched EXCEPT ![s] = {}]
      /\ RemoveReadyEvent(s)
  BY DEF Destroy, RemoveFromPending
<1>2. TypeOK  BY DEF LoopInvariant
<1>3. postedEventTypes' = [postedEventTypes EXCEPT ![s] = {}]
  BY <1>1, RemoveKeepsLists DEF LoopInvariant
<1>4. wantedTypes' = [wantedTypes EXCEPT ![s] = {}]  BY <1>1, <1>2 DEF TypeOK, wantedTypes
<1>5. reportedEvents' = [reportedEvents EXCEPT ![s] = {}]
  BY <1>1, <1>2 DEF TypeOK, reportedEvents
<1> QED  BY <1>1, <1>3, <1>4, <1>5 DEF Contract!Gone, wantedTypes, reportedEvents

LEMMA DeleteIsDelete ==
    ASSUME LoopInvariant, NEW s \in Sources, Delete(s)
    PROVE  Contract!Delete(s)
<1>1. s \in alive /\ ~scheduled[s] /\ Destroy(s) /\ UNCHANGED <<running, userRuns, scheduled>>
  BY DEF Delete, control, deletions
<1>2. Contract!Gone(s)  BY <1>1, DestroyIsGone
<1> QED  BY <1>1, <1>2 DEF Contract!Delete

LEMMA DeleteNextIsDeleteScheduled ==
    ASSUME LoopInvariant, DeleteNext
    PROVE  \E s \in Sources : Contract!DeleteScheduled(s)
<1>0. PICK s \in Sources : s = objectsToDelete[deleted + 1]
  BY DEF LoopInvariant, TypeOK, DeleteNext
<1>1. deleted + 1 \in (deleted + 1)..Len(objectsToDelete)
  BY DEF LoopInvariant, TypeOK, DeleteNext
<1>2. s \in alive /\ scheduled[s]
  BY <1>0, <1>1 DEF LoopInvariant, DeletionsExact
<1>3. /\ ~userRuns /\ userRuns' = TRUE /\ Destroy(s) /\ running' = running
      /\ scheduled' = [scheduled EXCEPT ![s] = FALSE]
  BY <1>0 DEF DeleteNext
<1>4. scheduledSources' = scheduledSources \ {s}
  BY <1>1, <1>3 DEF LoopInvariant, TypeOK, scheduledSources
<1>5. Contract!Gone(s)  BY <1>1, <1>2, <1>3, DestroyIsGone
<1> QED  BY <1>1, <1>2, <1>3, <1>4, <1>5 DEF Contract!DeleteScheduled, scheduledSources

LEMMA CallIsDeliver ==
    ASSUME LoopInvariant, NEW s \in Sources, CallOnEvent(s)
    PROVE  Contract!Deliver(s)
<1>1. /\ ~userRuns /\ fetched[s] # {} /\ fetched' = [fetched EXCEPT ![s] = {}]
      /\ ready' = ready /\ userRuns' = enabled[s]
      /\ UNCHANGED <<alive, registration, postedEventTypes, scheduled>>
  BY DEF CallOnEvent, lists, deletions
<1>2. enabled[s] = TRUE  BY <1>1 DEF LoopInvariant, RegistrationsExact, TypeOK
<1>3. reportedEvents' = [reportedEvents EXCEPT ![s] = ready[s]]
  BY <1>1 DEF LoopInvariant, TypeOK, reportedEvents
<1>4. reportedEvents[s] # {} /\ ready[s] \in SUBSET reportedEvents[s]
  BY <1>1 DEF reportedEvents
<1> QED
  BY <1>1, <1>2, <1>3, <1>4
     DEF Contract!Deliver, wantedTypes, reportedEvents, scheduledSources, registration

LEMMA TriggerIsDeliverPosted ==
    ASSUME LoopInvariant, TriggerNext
    PROVE  \E s \in Sources : Contract!DeliverPosted(s)
<1> DEFINE s == pEventsBeingTriggered
<1>1. s \in Sources /\ postedEventTypes[s] # {}
  BY DEF TriggerNext, LoopInvariant, TypeOK, Pointers, ListsChained, Chained
<1>2. /\ ~userRuns /\ userRuns' = TRUE /\ postedEventTypes' = [postedEventTypes EXCEPT ![s] = {}]
      /\ UNCHANGED <<alive, registration, epoll, scheduled>>
  BY DEF TriggerNext, deletions
<1> QED  BY <1>1, <1>2 DEF Contract!DeliverPosted, registration, epoll

\* Fetching moves events from one part of what is reported to the other.
LEMMA ProcessIsUnseen ==
    ASSUME LoopInvariant, ProcessEvents
    PROVE  UNCHANGED Contract!vars
<1>1. UNCHANGED <<alive, registration, postedEventTypes, scheduled, userRuns>>
  BY DEF ProcessEvents, lists, deletions
<1>2. /\ fetched' = ready /\ ready' = [t \in Sources |-> {}]
      /\ \A t \in Sources : fetched[t] = {}
  BY DEF ProcessEvents, Nothing, LoopInvariant, NothingFetched
<1>3. reportedEvents' = reportedEvents  BY <1>2 DEF reportedEvents
<1> QED  BY <1>1, <1>3, UnseenSteps

LEMMA ContractStep == LoopInvariant /\ [Next]_vars => [Contract!Next]_Contract!vars
<1> SUFFICES ASSUME LoopInvariant, [Next]_vars PROVE Contract!Next \/ UNCHANGED Contract!vars
  OBVIOUS
<1>1. ASSUME NEW s \in Sources, User(s) \/ Report(s)
      PROVE  Contract!Next \/ UNCHANGED Contract!vars
  <2>1. CASE \/ Enable(s) \/ Disable(s) \/ Report(s) \/ RemovePostedEvents(s)
             \/ ScheduleForDeletion(s) \/ Delete(s)
    BY <2>1, EnableIsRegister, DisableIsRegister, ReportIsReport, RemoveIsRemovePosted,
       ScheduleIsSchedule, DeleteIsDelete DEF Contract!Next
  <2>2. ASSUME NEW es \in SUBSET Events, SetEventTypes(s, es)
        PROVE  Contract!Next \/ UNCHANGED Contract!vars
    BY <2>2, SetEventTypesIsRegister DEF Contract!Next
  <2>3. ASSUME NEW e \in Events, PostEvent(s, e) PROVE Contract!Next
    BY <2>3, PostIsPost DEF Contract!Next
  <2> QED  BY <1>1, <2>1, <2>2, <2>3 DEF User
<1>2. CASE ProcessEvents  BY <1>2, ProcessIsUnseen
<1>3. ASSUME NEW s \in Sources, CallOnEvent(s) PROVE Contract!Next
  BY <1>3, CallIsDeliver DEF Contract!Next
<1>4. ASSUME NEW d \in Dispatchers, CallDispatcher(d) PROVE UNCHANGED Contract!vars
  <2>1. UNCHANGED <<alive, registration, ready, fetched, postedEventTypes, scheduled, userRuns>>
    BY <1>4 DEF CallDispatcher, deletions
  <2> QED  BY <2>1, UnseenSteps DEF reportedEvents
<1>5. CASE TriggerNext  BY <1>5, TriggerIsDeliverPosted DEF Contract!Next
<1>6. CASE DeleteNext  BY <1>6, DeleteNextIsDeleteScheduled DEF Contract!Next
<1>7. CASE DispatcherReturns \/ ProcessEventsReturns
  <2>1. UNCHANGED <<alive, registration, epoll, postedEventTypes, scheduled, userRuns>>
    BY <1>7 DEF DispatcherReturns, ProcessEventsReturns, lists, deletions
  <2> QED  BY <2>1, UnseenSteps DEF epoll, reportedEvents
<1>8. CASE HandlerReturns
  <2>1. userRuns' = FALSE /\ UNCHANGED <<alive, registration, epoll, postedEventTypes, scheduled>>
    BY <1>8 DEF HandlerReturns, lists, deletions
  <2>2. /\ UNCHANGED <<enabled, eventTypes>> /\ UNCHANGED <<ready, fetched>>
    BY <2>1 DEF registration, epoll
  <2>3. UNCHANGED <<wantedTypes, reportedEvents, scheduledSources>>
    BY <2>1, <2>2 DEF wantedTypes, reportedEvents, scheduledSources
  <2>4. Contract!HandlerReturns
    BY <2>1, <2>3 DEF Contract!HandlerReturns, wantedTypes, reportedEvents, scheduledSources
  <2> QED  BY <2>4 DEF Contract!Next
<1>9. CASE UNCHANGED vars
  <2>1. UNCHANGED <<alive, registration, epoll, postedEventTypes, scheduled, userRuns>>
    BY <1>9 DEF vars, lists, deletions, control
  <2> QED  BY <2>1, UnseenSteps DEF epoll, reportedEvents
<1> QED
  BY <1>1, <1>2, <1>3, <1>4, <1>5, <1>6, <1>7, <1>8, <1>9 DEF Next, Loop

LEMMA ContractInit == Init => Contract!Init
<1> SUFFICES ASSUME Init PROVE Contract!Init  OBVIOUS
<1>1. /\ wantedTypes = Nothing /\ reportedEvents = Nothing /\ scheduledSources = {}
  BY DEF Init, Nothing, wantedTypes, reportedEvents, scheduledSources
<1> QED
  BY <1>1, ContractNothing
     DEF Init, Contract!Init, wantedTypes, reportedEvents, scheduledSources

\* Every event that epoll reports or that is posted reaches a source that still wants
\* it, once, and every scheduled deletion happens once: each step of the batch, the
\* lists and the vector is one of the contract or is unseen by it.
THEOREM LoopImplementsDelivery == Spec => ImplementsDelivery
  BY ContractInit, ContractStep, LoopIsInvariant, PTL DEF Spec, ImplementsDelivery, Contract!Spec

=============================================================================
