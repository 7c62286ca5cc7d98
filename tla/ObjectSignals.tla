---------------------------- MODULE ObjectSignals ----------------------------
(***************************************************************************)
(* Object: connections, emissions and destruction.                         *)
(*                                                                         *)
(* An emitter keeps its connections in a list, latest first; a receiver    *)
(* keeps a count of connections for each of its emitters.  An emission     *)
(* walks the list and calls slots, in which user code may connect,         *)
(* disconnect, emit again and destroy any object, the emitter included.    *)
(* While an object is emitting, what is disconnected stays in its list     *)
(* without its MetaSignalSlotConnection, so that no iterator dangles.      *)
(* Entries are only ever pushed to the front, so that a list is the set of *)
(* its entries, in the order of their ids, latest first.                   *)
(*                                                                         *)
(* Slots are told apart by their receivers only; the arguments of signals  *)
(* are left out.  Objects are used by one thread.                          *)
(***************************************************************************)
EXTENDS Integers, FiniteSets, SequencesExt

CONSTANTS
    Objects,         \* the objects, each created once
    Signals,
    NoReceiver,      \* the receiver of a function connected without a context object
    MaxConnections,  \* bound: connections that are ever made
    MaxDepth         \* bound: nested emissions

ASSUME NoReceiverAssumption == NoReceiver \notin Objects
ASSUME BoundsAssumption == MaxConnections \in Nat /\ MaxDepth \in Nat

VARIABLES
    alive,             \* the objects that have not been destroyed
    connections,       \* m_pSignalSlotConnections of every object: the entries of its list
    emitters,          \* m_pConnectedEmitters: for each receiver, connections by emitter
    isEmitting,        \* m_isEmitting
    hasToCleanup,      \* m_hasToCleanupConnections
    pIsDestroyed,      \* m_pIsDestroyed: depth of the emission that owns it, 0 if null
    emissions,         \* the calls of emitSignal, innermost last
    made,              \* history: connections made, which are their ids
    touchesDestroyed   \* history: a destroyed object was accessed

objectVars == <<alive, connections, emitters, isEmitting, hasToCleanup, pIsDestroyed>>
vars == <<objectVars, emissions, made, touchesDestroyed>>

Receivers == Objects \cup {NoReceiver}

\* connected is FALSE once pMetaConnection is null.
ConnectionData ==
    [id: 1..MaxConnections, signal: Signals, receiver: Receivers, connected: BOOLEAN]

\* The iterator is at the latest entry that is not later than rest; flag is the depth of
\* the emission whose isDestroyed this one reads.
Emission ==
    [emitter: Objects, signal: Signals, rest: 0..MaxConnections, flag: 1..MaxDepth,
     isDestroyed: BOOLEAN, isFirstToEmit: BOOLEAN, calling: BOOLEAN]

Init ==
    /\ alive = Objects
    /\ connections = [o \in Objects |-> {}]
    /\ emitters = [o \in Objects |-> [e \in Objects |-> 0]]
    /\ isEmitting = [o \in Objects |-> FALSE]
    /\ hasToCleanup = [o \in Objects |-> FALSE]
    /\ pIsDestroyed = [o \in Objects |-> 0]
    /\ emissions = <<>>
    /\ made = 0
    /\ touchesDestroyed = FALSE

Top == Last(emissions)
Depth == Len(emissions)

\* User code runs: outside of any emission, or in a slot.
UserRuns == emissions # <<>> => Top.calling

-----------------------------------------------------------------------------
Connect(o, s, r) ==
    /\ UserRuns
    /\ o \in alive
    /\ r \in alive \cup {NoReceiver}
    /\ made < MaxConnections
    /\ made' = made + 1
    /\ LET new == [id |-> made', signal |-> s, receiver |-> r, connected |-> TRUE]
       IN  connections' = [connections EXCEPT ![o] = @ \cup {new}]
    /\ emitters' = IF r = NoReceiver THEN emitters
                   ELSE [emitters EXCEPT ![r][o] = @ + 1]
    /\ UNCHANGED <<alive, isEmitting, hasToCleanup, pIsDestroyed, emissions, touchesDestroyed>>

Count(list, r) == Cardinality({c \in list : c.receiver = r})

\* removeEmitter(o) for every connection of the list gone: a count never drops
\* below zero, an emitter that is not found is left alone.
RemoveEmitters(em, o, gone) ==
    [r \in Objects |->
        [em[r] EXCEPT ![o] = IF @ > Count(gone, r) THEN @ - Count(gone, r) ELSE 0]]

Connected(list) == {c \in list : c.connected}

\* The list of o when the entries gone of it are disconnected: while o is emitting they
\* stay in it, with a null pMetaConnection.
Without(o, list, gone) ==
    (list \ gone) \cup (IF isEmitting[o] THEN {[c EXCEPT !.connected = FALSE] : c \in gone}
                        ELSE {})

\* The connections of o that disconnect(o, signal, receiver, nullptr) is about, where
\* nullptr matches any: ss and rs are the signals and receivers that match.
Matching(o, ss, rs) ==
    {c \in Connected(connections[o]) : c.signal \in ss /\ c.receiver \in rs}

\* Mutant of Disconnect: the receiver is only told when the entry is erased.
DisconnectTellsIfErased(o, ss, rs) ==
    LET gone == Matching(o, ss, rs)
    IN  /\ UserRuns
        /\ o \in alive
        /\ gone # {}
        /\ connections' = [connections EXCEPT ![o] = Without(o, @, gone)]
        /\ emitters' = IF isEmitting[o] THEN emitters ELSE RemoveEmitters(emitters, o, gone)
        /\ hasToCleanup' = [hasToCleanup EXCEPT ![o] = @ \/ isEmitting[o]]
        /\ UNCHANGED <<alive, isEmitting, pIsDestroyed, emissions, made, touchesDestroyed>>

\* disconnect(): what matches is erased or marked, and its receivers are told.
Disconnect(o, ss, rs) ==
    LET gone == Matching(o, ss, rs)
    IN  /\ UserRuns
        /\ o \in alive
        /\ gone # {}
        /\ connections' = [connections EXCEPT ![o] = Without(o, @, gone)]
        /\ emitters' = RemoveEmitters(emitters, o, gone)
        /\ hasToCleanup' = [hasToCleanup EXCEPT ![o] = @ \/ isEmitting[o]]
        /\ UNCHANGED <<alive, isEmitting, pIsDestroyed, emissions, made, touchesDestroyed>>

\* ~Object: the emission that watches o is told; every emitter of o disconnects it;
\* then o is taken from its receivers, also for connections that are in its list only
\* because it is emitting.
Destroy(o) ==
    LET mine == {e \in Objects : emitters[o][e] > 0}
        left == [e \in Objects |->
                    IF e \in mine
                    THEN Without(e, connections[e], Matching(e, Signals, {o}))
                    ELSE connections[e]]
        receivers == {c.receiver : c \in left[o]} \ {NoReceiver}
        removed == RemoveEmitters(emitters, o, left[o])
    IN  /\ UserRuns
        /\ o \in alive
        /\ alive' = alive \ {o}
        /\ emissions' = IF isEmitting[o]
                        THEN [emissions EXCEPT ![pIsDestroyed[o]].isDestroyed = TRUE]
                        ELSE emissions
        /\ connections' = [left EXCEPT ![o] = {}]
        /\ hasToCleanup' = [e \in Objects |->
               e # o /\ (hasToCleanup[e] \/ (isEmitting[e] /\ left[e] # connections[e]))]
        /\ emitters' = [removed EXCEPT ![o] = [e \in Objects |-> 0]]
        /\ isEmitting' = [isEmitting EXCEPT ![o] = FALSE]
        /\ pIsDestroyed' = [pIsDestroyed EXCEPT ![o] = 0]
        /\ touchesDestroyed' = (touchesDestroyed \/ ~((mine \cup receivers) \subseteq alive))
        /\ UNCHANGED made

-----------------------------------------------------------------------------
NewEmission(o, s, flag) ==
    [emitter |-> o, signal |-> s, rest |-> made, flag |-> flag, isDestroyed |-> FALSE,
     isFirstToEmit |-> ~isEmitting[o], calling |-> FALSE]

\* Mutant of Emit: every emission watches a flag of its own.
EmitWithOwnFlag(o, s) ==
    /\ UserRuns
    /\ o \in alive
    /\ Depth < MaxDepth
    /\ emissions' = Append(emissions, NewEmission(o, s, Depth + 1))
    /\ isEmitting' = [isEmitting EXCEPT ![o] = TRUE]
    /\ pIsDestroyed' = [pIsDestroyed EXCEPT ![o] = Depth + 1]
    /\ UNCHANGED <<alive, connections, emitters, hasToCleanup, made, touchesDestroyed>>

\* emitSignal: a nested emission of the same object shares the flag of the first.
Emit(o, s) ==
    /\ UserRuns
    /\ o \in alive
    /\ Depth < MaxDepth
    /\ LET flag == IF isEmitting[o] THEN pIsDestroyed[o] ELSE Depth + 1
       IN  /\ emissions' = Append(emissions, NewEmission(o, s, flag))
           /\ pIsDestroyed' = [pIsDestroyed EXCEPT ![o] = flag]
    /\ isEmitting' = [isEmitting EXCEPT ![o] = TRUE]
    /\ UNCHANGED <<alive, connections, emitters, hasToCleanup, made, touchesDestroyed>>

\* The connections whose slots an emission e has still to call, of those up to rest.
Due(e, rest) ==
    {c \in Connected(connections[e.emitter]) : c.signal = e.signal /\ c.id <= rest}

\* The iterator moves on to the next connection of the signal, whose slot is called.
CallSlot ==
    /\ ~UserRuns
    /\ \E c \in Due(Top, Top.rest) :
           /\ \A d \in Due(Top, Top.rest) : d.id <= c.id
           /\ emissions' = [emissions EXCEPT ![Depth].rest = c.id, ![Depth].calling = TRUE]
           /\ touchesDestroyed' =
                  (touchesDestroyed \/ c.receiver \notin alive \cup {NoReceiver})
    /\ UNCHANGED <<objectVars, made>>

\* A slot returns; if the emitter was destroyed, so does emitSignal, at once.
SlotReturns ==
    /\ emissions # <<>> /\ UserRuns
    /\ emissions' = IF emissions[Top.flag].isDestroyed
                    THEN Front(emissions)
                    ELSE [emissions EXCEPT ![Depth].rest = @ - 1, ![Depth].calling = FALSE]
    /\ UNCHANGED <<objectVars, made, touchesDestroyed>>

\* The first to emit erases what was disconnected meanwhile.
Cleanup(o) ==
    /\ hasToCleanup' = [hasToCleanup EXCEPT ![o] = FALSE]
    /\ connections' = IF hasToCleanup[o] THEN [connections EXCEPT ![o] = Connected(@)]
                      ELSE connections

EmissionEnds ==
    /\ ~UserRuns
    /\ Due(Top, Top.rest) = {}
    /\ emissions' = Front(emissions)
    /\ IF Top.isFirstToEmit
       THEN /\ Cleanup(Top.emitter)
            /\ isEmitting' = [isEmitting EXCEPT ![Top.emitter] = FALSE]
            /\ pIsDestroyed' = [pIsDestroyed EXCEPT ![Top.emitter] = 0]
       ELSE UNCHANGED <<connections, hasToCleanup, isEmitting, pIsDestroyed>>
    /\ UNCHANGED <<alive, emitters, made, touchesDestroyed>>

Next ==
    \/ \E o \in Objects, s \in Signals, r \in Receivers : Connect(o, s, r)
    \/ \E o \in Objects :
           \E ss \in {Signals} \cup {{s} : s \in Signals},
              rs \in {Receivers} \cup {{r} : r \in Objects} : Disconnect(o, ss, rs)
    \/ \E o \in Objects : Destroy(o)
    \/ \E o \in Objects, s \in Signals : Emit(o, s)
    \/ CallSlot
    \/ SlotReturns
    \/ EmissionEnds

Spec == Init /\ [][Next]_vars

-----------------------------------------------------------------------------
\* Every variable has the type of what it stands for.
TypeOK ==
    /\ alive \subseteq Objects
    /\ connections \in [Objects -> SUBSET ConnectionData]
    /\ emitters \in [Objects -> [Objects -> Nat]]
    /\ isEmitting \in [Objects -> BOOLEAN]
    /\ hasToCleanup \in [Objects -> BOOLEAN]
    /\ pIsDestroyed \in [Objects -> 0..MaxDepth]
    /\ emissions \in Seq(Emission)
    /\ made \in 0..MaxConnections
    /\ touchesDestroyed \in BOOLEAN

\* A receiver counts, for each emitter, the connections there are between the two, so
\* that its destructor finds each of its emitters, and none that is gone (Object.cpp:
\* addEmitter, removeEmitter, ~Object).
EmittersExact ==
    \A r \in Objects, e \in Objects :
        /\ emitters[r][e] = Count(Connected(connections[e]), r)
        /\ emitters[r][e] > 0 => {r, e} \subseteq alive

\* Entries without a connection are only in the list of an object that is emitting and
\* knows that it has to erase them; m_pIsDestroyed points to the flag of a call of
\* emitSignal that has not returned.
ListsClean ==
    /\ \A o \in Objects :
           /\ ~hasToCleanup[o] => Connected(connections[o]) = connections[o]
           /\ hasToCleanup[o] => isEmitting[o]
           /\ isEmitting[o] <=> pIsDestroyed[o] # 0
           /\ isEmitting[o] => /\ pIsDestroyed[o] <= Depth
                               /\ emissions[pIsDestroyed[o]].emitter = o

\* Whatever slots have done, both sides of every connection agree on it, and nothing is
\* left to clean up once no one emits.
ListsExact == TypeOK /\ EmittersExact /\ ListsClean

\* No object is accessed that was destroyed before.
NeverTouchesDestroyed == ~touchesDestroyed

\* The connections there are, and what the emissions have still to call.
AllConnected ==
    UNION {{[id |-> c.id, emitter |-> o, signal |-> c.signal, receiver |-> c.receiver] :
               c \in Connected(connections[o])} : o \in Objects}
EmissionsDue ==
    [i \in DOMAIN emissions |->
        LET e == emissions[i]
            rest == IF e.calling THEN e.rest - 1 ELSE e.rest
        IN  [due |-> {c.id : c \in Due(e, rest)}, calling |-> e.calling]]

Contract == INSTANCE SignalsAndSlots WITH connected <- AllConnected, emissions <- EmissionsDue

\* Lists, counts and flags implement the contract: however slots connect, disconnect,
\* emit and destroy, a slot is called if and only if it is still due.
ImplementsSignals == Contract!Spec
=============================================================================
