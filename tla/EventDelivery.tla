---------------------------- MODULE EventDelivery ----------------------------
(***************************************************************************)
(* What the event loop of a thread promises its event sources, with no     *)
(* batches, lists or event descriptors: the events that epoll reports and  *)
(* those that are posted are delivered, one at a time, to sources that     *)
(* still want them, and an object that is scheduled for deletion is        *)
(* deleted once, when no other handler runs.                               *)
(***************************************************************************)
EXTENDS FiniteSets

CONSTANTS Sources, Events

VARIABLES
    alive,      \* the sources that have not been deleted
    wanted,     \* the event types each source is registered for, none if it is disabled
    reported,   \* the events each source has to be told of
    posted,     \* the events posted to each source
    scheduled,  \* the sources that are scheduled for deletion
    handling    \* a handler or a destructor that was called by the loop runs

vars == <<alive, wanted, reported, posted, scheduled, handling>>

Nothing == [s \in Sources |-> {}]

Init ==
    /\ alive = Sources
    /\ wanted = Nothing
    /\ reported = Nothing
    /\ posted = Nothing
    /\ scheduled = {}
    /\ handling = FALSE

Report(s) ==
    /\ \E es \in SUBSET wanted[s] : reported' = [reported EXCEPT ![s] = @ \cup es]
    /\ UNCHANGED <<alive, wanted, posted, scheduled, handling>>

\* The source is enabled, disabled, or registered for other types.
Register(s) ==
    /\ s \in alive
    /\ \E es \in SUBSET Events :
          /\ wanted' = [wanted EXCEPT ![s] = es]
          /\ \E rs \in SUBSET es :
                 /\ reported[s] \cap es \subseteq rs
                 /\ reported' = [reported EXCEPT ![s] = rs]
    /\ UNCHANGED <<alive, posted, scheduled, handling>>

Post(s) ==
    /\ s \in alive
    /\ \E es \in SUBSET Events : posted' = [posted EXCEPT ![s] = @ \cup es]
    /\ UNCHANGED <<alive, wanted, reported, scheduled, handling>>

RemovePosted(s) ==
    /\ posted' = [posted EXCEPT ![s] = {}]
    /\ UNCHANGED <<alive, wanted, reported, scheduled, handling>>

Schedule(s) ==
    /\ s \in alive
    /\ scheduled' = scheduled \cup {s}
    /\ UNCHANGED <<alive, wanted, reported, posted, handling>>

\* A source is told of events that it wants; what was reported again since is left to
\* a later call.
Deliver(s) ==
    /\ ~handling
    /\ handling' = TRUE
    /\ reported[s] # {}
    /\ \E es \in SUBSET reported[s] : reported' = [reported EXCEPT ![s] = es]
    /\ UNCHANGED <<alive, wanted, posted, scheduled>>

DeliverPosted(s) ==
    /\ ~handling
    /\ handling' = TRUE
    /\ posted[s] # {}
    /\ posted' = [posted EXCEPT ![s] = {}]
    /\ UNCHANGED <<alive, wanted, reported, scheduled>>

\* Nothing of a source outlives it.
Gone(s) ==
    /\ s \in alive
    /\ alive' = alive \ {s}
    /\ wanted' = [wanted EXCEPT ![s] = {}]
    /\ reported' = [reported EXCEPT ![s] = {}]
    /\ posted' = [posted EXCEPT ![s] = {}]

\* Its owner deletes a source that is not scheduled for deletion.
Delete(s) ==
    /\ s \notin scheduled
    /\ Gone(s)
    /\ UNCHANGED <<scheduled, handling>>

DeleteScheduled(s) ==
    /\ ~handling
    /\ handling' = TRUE
    /\ s \in scheduled
    /\ scheduled' = scheduled \ {s}
    /\ Gone(s)

HandlerReturns ==
    /\ handling' = FALSE
    /\ UNCHANGED <<alive, wanted, reported, posted, scheduled>>

Next ==
    \/ \E s \in Sources :
           \/ Report(s) \/ Register(s)
           \/ Post(s) \/ RemovePosted(s)
           \/ Schedule(s) \/ Delete(s) \/ DeleteScheduled(s)
           \/ Deliver(s) \/ DeliverPosted(s)
    \/ HandlerReturns

Spec == Init /\ [][Next]_vars
=============================================================================
