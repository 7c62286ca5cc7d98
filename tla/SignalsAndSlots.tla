--------------------------- MODULE SignalsAndSlots ---------------------------
(***************************************************************************)
(* What Object promises of signals and slots, with no lists, no counters   *)
(* and no flags: an emission calls, latest connected first, the slots that *)
(* were connected to the signal when it began and still are, and nothing   *)
(* of an object outlives the object.                                       *)
(***************************************************************************)
EXTENDS Integers, SequencesExt

CONSTANTS Objects, Signals, NoReceiver

VARIABLES
    connected,  \* the connections there are
    made,       \* how many were ever made: their ids, in the order of connect()
    emissions   \* the emissions under way, innermost last

vars == <<connected, made, emissions>>

Init ==
    /\ connected = {}
    /\ made = 0
    /\ emissions = <<>>

\* User code runs: outside of any emission, or in a slot.
UserRuns == emissions # <<>> => Last(emissions).calling

Ids(cs) == {c.id : c \in cs}

Connect(o, s, r) ==
    /\ UserRuns
    /\ made' = made + 1
    /\ connected' = connected \cup {[id |-> made', emitter |-> o, signal |-> s, receiver |-> r]}
    /\ UNCHANGED emissions

\* The connections gone are gone from the emissions under way, too.
Forget(gone) ==
    /\ connected' = connected \ gone
    /\ emissions' = [i \in DOMAIN emissions |-> [emissions[i] EXCEPT !.due = @ \ Ids(gone)]]
    /\ UNCHANGED made

\* disconnect(o, s, r, nullptr), with sets for what may be a wildcard.
Disconnect(o, ss, rs) ==
    /\ UserRuns
    /\ Forget({c \in connected : c.emitter = o /\ c.signal \in ss /\ c.receiver \in rs})

Destroy(o) ==
    /\ UserRuns
    /\ Forget({c \in connected : c.emitter = o \/ c.receiver = o})

Emit(o, s) ==
    /\ UserRuns
    /\ LET due == Ids({c \in connected : c.emitter = o /\ c.signal = s})
       IN  emissions' = Append(emissions, [due |-> due, calling |-> FALSE])
    /\ UNCHANGED <<connected, made>>

CallSlot ==
    /\ ~UserRuns
    /\ \E id \in Last(emissions).due :
           /\ \A other \in Last(emissions).due : other <= id
           /\ emissions' = [emissions EXCEPT ![Len(emissions)].due = @ \ {id},
                                             ![Len(emissions)].calling = TRUE]
    /\ UNCHANGED <<connected, made>>

SlotReturns ==
    /\ emissions # <<>> /\ UserRuns
    /\ emissions' = [emissions EXCEPT ![Len(emissions)].calling = FALSE]
    /\ UNCHANGED <<connected, made>>

\* Also when a slot that destroyed the emitter returns.
EmissionEnds ==
    /\ emissions # <<>>
    /\ Last(emissions).due = {}
    /\ emissions' = Front(emissions)
    /\ UNCHANGED <<connected, made>>

Next ==
    \/ \E o \in Objects, s \in Signals, r \in Objects \cup {NoReceiver} : Connect(o, s, r)
    \/ \E o \in Objects, ss \in SUBSET Signals, rs \in SUBSET (Objects \cup {NoReceiver}) :
           Disconnect(o, ss, rs)
    \/ \E o \in Objects : Destroy(o) \/ \E s \in Signals : Emit(o, s)
    \/ CallSlot
    \/ SlotReturns
    \/ EmissionEnds

Spec == Init /\ [][Next]_vars
=============================================================================
