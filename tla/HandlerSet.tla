------------------------------ MODULE HandlerSet ------------------------------
(***************************************************************************)
(* What ConnectionHandlerRepository promises to the worker that owns it: a *)
(* set of handlers.  stop() asks every handler in it to finish, one after  *)
(* the other and each one once, however many finish meanwhile; stopped()   *)
(* is emitted once, when the set has become empty.                         *)
(***************************************************************************)
EXTENDS Naturals

CONSTANTS Handlers, None

VARIABLES
    members,   \* the handlers in the repository
    stopping,  \* stop() was called, or the repository is destroyed
    toAsk,     \* the handlers that stop() has still to ask to finish
    asking,    \* the handler that it is asking, or None
    stopped    \* how often stopped() was emitted

vars == <<members, stopping, toAsk, asking, stopped>>

Init ==
    /\ members = {} /\ stopping = FALSE
    /\ toAsk = {} /\ asking = None
    /\ stopped = 0

Add(h) ==
    /\ ~stopping
    /\ h \notin members
    /\ members' = members \cup {h}
    /\ UNCHANGED <<stopping, toAsk, asking, stopped>>

StopEmpty ==
    /\ ~stopping /\ members = {}
    /\ stopping' = TRUE
    /\ stopped' = stopped + 1
    /\ UNCHANGED <<members, toAsk, asking>>

Stop(h) ==
    /\ ~stopping /\ h \in members
    /\ stopping' = TRUE
    /\ asking' = h
    /\ toAsk' = members \ {h}
    /\ UNCHANGED <<members, stopped>>

AskNext(h) ==
    /\ asking # None /\ h \in toAsk
    /\ asking' = h
    /\ toAsk' = toAsk \ {h}
    /\ UNCHANGED <<members, stopping, stopped>>

AllAsked ==
    /\ asking # None /\ toAsk = {}
    /\ asking' = None
    /\ UNCHANGED <<members, stopping, toAsk, stopped>>

Finished(h) ==
    /\ h \in members
    /\ members' = members \ {h}
    /\ toAsk' = toAsk \ {h}
    /\ stopped' = IF stopping /\ members = {h} THEN stopped + 1 ELSE stopped
    /\ UNCHANGED <<stopping, asking>>

Destroy ==
    /\ asking = None
    /\ stopping' = TRUE
    /\ members' = {}
    /\ UNCHANGED <<toAsk, asking, stopped>>

Next ==
    \/ \E h \in Handlers : Add(h) \/ Stop(h) \/ AskNext(h) \/ Finished(h)
    \/ StopEmpty
    \/ AllAsked
    \/ Destroy

Spec == Init /\ [][Next]_vars
=============================================================================
