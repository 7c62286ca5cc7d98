------------------------------- MODULE TcpSocket -------------------------------
(***************************************************************************)
(* A TcpSocket with its TcpSocketPrivate, its descriptor in the kernel and *)
(* the thread's EpollEventNotifier, which calls onEvent for what epoll     *)
(* reports and for the events the socket has posted to itself.             *)
(*                                                                         *)
(* Signals call the user's slots at once, and a slot may call any function *)
(* of the socket, delete it or connect it anew before it returns to the    *)
(* function that emitted.  stack holds the calls of onEvent and setError   *)
(* that have not returned, the running one last; a frame's at is the       *)
(* signal whose slots run, or the part of onEvent that is next, and same   *)
(* tells whether m_contextId is still what the call has noted.             *)
(*                                                                         *)
(* Bytes are counted.  The peer and the kernel act between any two steps.  *)
(***************************************************************************)
EXTENDS Naturals, Sequences, SequencesExt

CONSTANTS
    MaxConnections,  \* bound: connections a socket is used for
    MaxAddresses,    \* bound: addresses a name has
    MaxArriving,     \* bound: bytes the peers send
    MaxWritten,      \* bound: bytes the user writes
    Capacities,      \* capacities the user may give to the read buffer; 0 is unlimited
    BoundSocketFails \* the user binds the socket to an IPv6 address, and socket() may fail

ASSUME BoundsAssumption ==
    /\ MaxConnections \in Nat \ {0}
    /\ MaxAddresses \in Nat \ {0}
    /\ MaxArriving \in Nat
    /\ MaxWritten \in Nat
ASSUME CapacitiesAssumption == Capacities \subseteq Nat /\ BoundSocketFails \in BOOLEAN

VARIABLES
    sock,         \* the members of the TcpSocket and of its TcpSocketPrivate
    kernel,       \* its descriptor, and what epoll knows of it
    stack,        \* the calls that have not returned
    told,         \* what the user knows of the connection from calls and signals
    alive,        \* the TcpSocket has not been deleted
    connections,  \* how many connections it was used for
    arrived,      \* bytes the peers have sent
    written       \* bytes the user has written

vars == <<sock, kernel, stack, told, alive, connections, arrived, written>>

States == {"Unconnected", "Connecting", "Connected", "Disconnecting"}

\* No descriptor.  space: room for data to send; it is awaited after a send that
\* found too little of it.  edge: the descriptor is in epoll's ready list; fetched:
\* the events that epoll_wait has returned and processEvents has not reached.
NoChannel ==
    [link |-> "none", recvQ |-> 0, space |-> "free", gone |-> FALSE,
     edge |-> FALSE, fetched |-> {}]

NewSocket(cap) ==
    [state |-> "Unconnected", addresses |-> 0, lookingUp |-> FALSE,
     open |-> FALSE, enabled |-> FALSE, interest |-> {"in", "out"},
     connectTimer |-> FALSE, disconnectTimer |-> FALSE,
     hasToAdd |-> FALSE,   \* m_hasToAddSocketToReadyEventSourceListAfterReading
     scheduled |-> FALSE,  \* m_hasAlreadyScheduledWriteEvent
     posted |-> {}, readBuf |-> 0, writeBuf |-> 0, capacity |-> cap]

\* A socket to connect, or one made from the descriptor of an accepted connection.
Init ==
    /\ \E cap \in Capacities :
        \/ /\ sock = NewSocket(cap)
           /\ kernel = NoChannel
           /\ told = "none" /\ connections = 0
        \/ /\ sock = [NewSocket(cap) EXCEPT !.state = "Connected",
                                         !.open = TRUE, !.enabled = TRUE]
           /\ kernel = [NoChannel EXCEPT !.link = "up", !.edge = TRUE]
           /\ told = "connected" /\ connections = 1
    /\ stack = <<>> /\ alive = TRUE
    /\ arrived = 0 /\ written = 0

-----------------------------------------------------------------------------
(* What the functions of the socket do to its members x and its channel k. *)

\* Mutant of Aborted: the events that were posted stay.
AbortedKeepingEvents(x) ==
    [NewSocket(x.capacity) EXCEPT !.scheduled = x.scheduled, !.posted = x.posted]

\* abort(): all is reset but the flag of the scheduled write event.
Aborted(x) == [NewSocket(x.capacity) EXCEPT !.scheduled = x.scheduled]

\* The end of a connection: what was received and not read yet stays readable.
Closed(x) ==
    IF x.readBuf > 0
    THEN [x EXCEPT !.state = "Unconnected", !.open = FALSE, !.enabled = FALSE,
                   !.writeBuf = 0]
    ELSE Aborted(x)

Full(x) == x.capacity > 0 /\ x.readBuf = x.capacity

\* How many bytes readDataFromChannel reads.
Readable(x, k) ==
    IF x.capacity = 0 \/ x.capacity - x.readBuf > k.recvQ THEN k.recvQ
    ELSE x.capacity - x.readBuf

\* Mutant of Filled: what did not fit is forgotten.
FilledOnly(x, k) == [x EXCEPT !.readBuf = @ + Readable(x, k)]

\* readDataFromChannel: data is left behind only by a buffer that is full.
Filled(x, k) ==
    [x EXCEPT !.readBuf = @ + Readable(x, k),
              !.hasToAdd = @ \/ Readable(x, k) < k.recvQ]

Emptied(x, k) == [k EXCEPT !.recvQ = @ - Readable(x, k)]

\* Events the kernel has for a channel whose events of interest are i.
Ready(k, i) ==
    {e \in i : \/ e = "in" /\ (k.recvQ > 0 \/ k.gone \/ k.link = "failed")
               \/ e = "out" /\ k.link # "pending" /\ (k.space = "free" \/ k.gone)}
    \cup IF k.gone \/ k.link = "failed" THEN {"hup"} ELSE {}

\* setEventTypes: epoll looks at the channel again, and what was fetched is dropped.
Modified(x, k, i) ==
    IF x.interest = i THEN k ELSE [k EXCEPT !.edge = TRUE, !.fetched = {}]

-----------------------------------------------------------------------------
(* Calls. *)
\* The signals whose slots may run; the last is TlsSocket's.
Slots == {"connected", "receivedData", "sentData", "draining", "disconnected", "error",
          "encrypted"}

\* The part of onEvent at which it goes on after the slots of a signal.
After == [connected |-> "in", receivedData |-> "sent", draining |-> "drain"]

Frame(at, mask, was) == [at |-> at, mask |-> mask, sent |-> FALSE, same |-> TRUE, was |-> was]

Top == Last(stack)
Caller == Front(stack)
Running(at) == stack # <<>> /\ Top.at = at
UserRuns == IF stack = <<>> THEN TRUE ELSE Top.at \in Slots
Goes(f) == stack' = Append(Caller, f)

\* Mutant of OtherContext: no call learns of an abort.
SameContext(calls) == calls

\* ++m_contextId: every call that has not returned is told.
OtherContext(calls) == [i \in 1..Len(calls) |-> [calls[i] EXCEPT !.same = FALSE]]

\* What Closed(x) does to the calls.
AfterClosing(calls, x) == IF x.readBuf > 0 THEN calls ELSE OtherContext(calls)

\* setError(), called by calls, up to its signal.
Fails(calls, was) ==
    /\ stack' = Append(calls, Frame("error", {}, was))
    /\ told' = "none"

\* Mutant of ConnectToHost: the timer is started for the first address only.
ConnectToHostTimedOnce(x, calls) ==
    \/ /\ x.addresses > 0
       /\ \E n \in 0..(x.addresses - 1) :
            sock' = [x EXCEPT !.addresses = n, !.open = TRUE, !.enabled = TRUE,
                              !.connectTimer = ~x.open]
       /\ kernel' = [NoChannel EXCEPT !.link = "pending"]
       /\ stack' = calls /\ told' = "connecting"
    \/ /\ sock' = [x EXCEPT !.addresses = 0, !.open = FALSE, !.enabled = FALSE]
       /\ kernel' = NoChannel
       /\ Fails(calls, "connecting")

\* connectToHost(): the first of the addresses that are left to which connecting
\* can start, or an error.  Without an address left the last descriptor, if any,
\* stays until the error has been told.  A socket bound to an IPv6 address is left
\* without descriptor, timer and error if socket() fails.
ConnectToHost(x, calls) ==
    \/ /\ x.addresses > 0
       /\ \E n \in 0..(x.addresses - 1) :
            sock' = [x EXCEPT !.addresses = n, !.open = TRUE, !.enabled = TRUE,
                              !.connectTimer = TRUE]
       /\ kernel' = [NoChannel EXCEPT !.link = "pending"]
       /\ stack' = calls /\ told' = "connecting"
    \/ /\ x.addresses > 0
       /\ \E n \in 0..(x.addresses - 1), o \in BOOLEAN :
            sock' = [x EXCEPT !.addresses = n, !.open = o, !.enabled = FALSE]
       /\ kernel' = NoChannel
       /\ Fails(calls, "connecting")
    \/ /\ x.addresses = 0
       /\ sock' = x
       /\ UNCHANGED kernel
       /\ Fails(calls, "connecting")
    \/ /\ BoundSocketFails /\ x.addresses > 0
       /\ \E n \in 0..(x.addresses - 1) :
            sock' = [x EXCEPT !.addresses = n, !.open = FALSE, !.enabled = FALSE]
       /\ kernel' = NoChannel
       /\ stack' = calls /\ told' = "connecting"

-----------------------------------------------------------------------------
(* The user, in a slot or in some event of its own. *)

Connect ==
    /\ UserRuns /\ alive
    /\ connections < MaxConnections
    /\ connections' = connections + 1
    /\ \/ /\ sock' = Aborted(sock)  \* an empty host or port 0
          /\ kernel' = NoChannel
          /\ Fails(OtherContext(stack), "connecting")
       \/ ConnectToHost([Aborted(sock) EXCEPT !.state = "Connecting", !.addresses = 1],
                        OtherContext(stack))
       \/ /\ sock' = [Aborted(sock) EXCEPT !.state = "Connecting", !.lookingUp = TRUE]
          /\ kernel' = NoChannel
          /\ stack' = OtherContext(stack)
          /\ told' = "connecting"
    /\ UNCHANGED <<alive, arrived, written>>

\* abort(), disconnectFromPeer() while connecting, or the destructor.
Abort ==
    /\ UserRuns /\ alive
    /\ alive' \in BOOLEAN
    /\ sock' = Aborted(sock)
    /\ kernel' = NoChannel
    /\ stack' = OtherContext(stack)
    /\ told' = "none"
    /\ UNCHANGED <<connections, arrived, written>>

\* disconnectFromPeer(): shutdown can fail if the peer has reset the connection.
DisconnectFromPeer ==
    /\ UserRuns /\ alive
    /\ sock.state = "Connected"
    /\ LET i == IF sock.writeBuf = 0 THEN {} ELSE sock.interest \ {"in"}
           x == [sock EXCEPT !.state = "Disconnecting", !.disconnectTimer = TRUE,
                             !.interest = i]
       IN \/ /\ sock' = x
             /\ kernel' = Modified(sock, kernel, i)
             /\ UNCHANGED <<stack, told>>
          \/ /\ sock.writeBuf = 0 /\ kernel.gone
             /\ sock' = Closed(x)
             /\ kernel' = NoChannel
             /\ stack' = Append(AfterClosing(stack, x), Frame("disconnected", {}, told))
             /\ told' = "none"
    /\ UNCHANGED <<alive, connections, arrived, written>>

Write ==
    /\ UserRuns /\ alive
    /\ sock.state = "Connected"
    /\ written < MaxWritten
    /\ written' = written + 1
    /\ sock' = [sock EXCEPT !.writeBuf = @ + 1,
                            !.posted = IF sock.scheduled THEN @ ELSE @ \cup {"out"},
                            !.scheduled = TRUE]
    /\ UNCHANGED <<kernel, stack, told, alive, connections, arrived>>

\* read(): what waits in the kernel for a buffer that was full is asked for.
Read ==
    /\ UserRuns /\ alive
    /\ \E n \in 0..sock.readBuf :
        sock' = [sock EXCEPT !.readBuf = @ - n,
                             !.posted = IF sock.hasToAdd THEN @ \cup {"in"} ELSE @,
                             !.hasToAdd = FALSE]
    /\ UNCHANGED <<kernel, stack, told, alive, connections, arrived, written>>

\* skip() and readAll() go by the buffer having been full.
Skip ==
    /\ UserRuns /\ alive
    /\ \E n \in 1..sock.readBuf :
        sock' = [sock EXCEPT !.readBuf = @ - n,
                             !.posted = IF Full(sock) THEN @ \cup {"in"} ELSE @]
    /\ UNCHANGED <<kernel, stack, told, alive, connections, arrived, written>>

SetReadBufferCapacity ==
    /\ UserRuns /\ alive
    /\ \E cap \in Capacities :
        /\ cap = 0 \/ cap >= sock.readBuf
        /\ sock' = [sock EXCEPT !.capacity = cap]
    /\ UNCHANGED <<kernel, stack, told, alive, connections, arrived, written>>

\* After sentData(): the end of onEvent, or of the connection too.
Finishes ==
    IF Top.same /\ "hup" \in Top.mask
    THEN Goes([Top EXCEPT !.at = "drain"])
    ELSE stack' = Caller

\* The slots of a signal have returned to onEvent, setError or the function that
\* emitted disconnected() last of all.
SlotReturns ==
    /\ stack # <<>>
    /\ CASE Top.at = "disconnected" \/ (Top.at = "connected" /\ ~Top.same) ->
              stack' = Caller /\ UNCHANGED <<sock, kernel, told>>
         [] Top.at = "error" ->
              IF Top.same
              THEN /\ sock' = Aborted(sock)
                   /\ kernel' = NoChannel
                   /\ stack' = OtherContext(Caller)
                   /\ UNCHANGED told
              ELSE stack' = Caller /\ UNCHANGED <<sock, kernel, told>>
         [] Top.at = "sentData" -> Finishes /\ UNCHANGED <<sock, kernel, told>>
         [] OTHER ->
              /\ Top.at \in DOMAIN After
              /\ Goes([Top EXCEPT !.at = After[Top.at]])
              /\ UNCHANGED <<sock, kernel, told>>
    /\ UNCHANGED <<alive, connections, arrived, written>>

-----------------------------------------------------------------------------
(* The event loop calls onEvent. *)

\* epoll_wait returns what the channel is ready for at that time.
EpollWait ==
    /\ stack = <<>>
    /\ kernel.edge /\ kernel.fetched = {}
    /\ sock.enabled
    /\ kernel' = [kernel EXCEPT !.edge = FALSE, !.fetched = Ready(kernel, sock.interest)]
    /\ UNCHANGED <<sock, stack, told, alive, connections, arrived, written>>

\* processEvents() reaches the event that was fetched.
ProcessFetched ==
    /\ stack = <<>>
    /\ kernel.fetched # {}
    /\ kernel' = [kernel EXCEPT !.fetched = {}]
    /\ stack' = <<Frame("out", kernel.fetched, told)>>
    /\ UNCHANGED <<sock, told, alive, connections, arrived, written>>

\* The ready registrar reaches the events that were posted.
ProcessPosted ==
    /\ stack = <<>>
    /\ sock.posted # {}
    /\ sock' = [sock EXCEPT !.posted = {}]
    /\ stack' = <<Frame("out", sock.posted, told)>>
    /\ UNCHANGED <<kernel, told, alive, connections, arrived, written>>

\* Sending size bytes: all of them, or what the kernel has space for, which may just
\* be enough.
Sendable(size) == IF kernel.space = "free" /\ size > 0 THEN 1..size ELSE {0}

\* Mutant of Sent: the write event stays scheduled.
SentStillScheduled(n) == [sock EXCEPT !.writeBuf = @ - n]

Sent(n) == [sock EXCEPT !.writeBuf = @ - n, !.scheduled = FALSE]

\* What becomes of the channel k that has taken n of size bytes.
Takes(k, size, n) ==
    IF n < size THEN {[k EXCEPT !.space = "awaited"]}
    ELSE IF n > 0 THEN {k, [k EXCEPT !.space = "full"]} ELSE {k}

OutWhileConnected ==
    /\ sock.state = "Connected"
    /\ \E n \in Sendable(sock.writeBuf) :
        /\ sock' = Sent(n)
        /\ kernel' \in Takes(kernel, sock.writeBuf, n)
        /\ Goes([Top EXCEPT !.at = "in", !.sent = n > 0])
    /\ UNCHANGED told

\* With nothing left to write the sending side is shut down, if it can be.
OutWhileDisconnecting ==
    /\ sock.state = "Disconnecting"
    /\ \E n \in Sendable(sock.writeBuf) :
        LET x == Sent(n)
            i == IF x.writeBuf = 0 THEN x.interest \ {"out"} ELSE x.interest
        IN \E k \in Takes(kernel, sock.writeBuf, n), hup \in BOOLEAN :
            /\ hup => x.writeBuf = 0 /\ kernel.gone
            /\ sock' = [x EXCEPT !.interest = i, !.disconnectTimer = @ /\ ~hup]
            /\ kernel' = Modified(x, k, i)
            /\ Goes([Top EXCEPT !.at = "in", !.sent = n > 0,
                                !.mask = IF hup THEN @ \cup {"hup"} ELSE @])
    /\ UNCHANGED told

\* The outcome of connecting to one address.  (Once connected, the addresses that are
\* left are not looked at any more: the model drops them.)
OutWhileConnecting ==
    /\ sock.state = "Connecting"
    /\ LET x == [sock EXCEPT !.connectTimer = FALSE]
       IN \/ /\ kernel.link = "up"
             /\ sock' = [x EXCEPT !.state = "Connected", !.addresses = 0]
             /\ Goes([Top EXCEPT !.at = "connected", !.was = told])
             /\ told' = "connected"
             /\ UNCHANGED kernel
          \/ /\ kernel.link # "up" \/ kernel.gone
             /\ ConnectToHost(x, Caller)

OnEventOut ==
    /\ Running("out")
    /\ IF "out" \in Top.mask /\ sock.state # "Unconnected"
       THEN OutWhileConnected \/ OutWhileDisconnecting \/ OutWhileConnecting
       ELSE Goes([Top EXCEPT !.at = "in"]) /\ UNCHANGED <<sock, kernel, told>>
    /\ UNCHANGED <<alive, connections, arrived, written>>

OnEventIn ==
    /\ Running("in")
    /\ LET reads == "in" \in Top.mask /\ sock.state = "Connected"
           x == IF reads THEN Filled(sock, kernel) ELSE sock
       IN /\ sock' = [x EXCEPT !.disconnectTimer = @ /\ "hup" \notin Top.mask]
          /\ kernel' = IF reads THEN Emptied(sock, kernel) ELSE kernel
          /\ Goes([Top EXCEPT !.same = TRUE, !.was = told,
                              !.at = IF x.readBuf = sock.readBuf THEN "sent"
                                     ELSE "receivedData"])
    /\ UNCHANGED <<told, alive, connections, arrived, written>>

OnEventSent ==
    /\ Running("sent")
    /\ IF Top.same /\ Top.sent THEN Goes([Top EXCEPT !.at = "sentData"]) ELSE Finishes
    /\ UNCHANGED <<sock, kernel, told, alive, connections, arrived, written>>

Drains == Top.same /\ Readable(sock, kernel) > 0

\* What the kernel has is read as long as it fits, then the connection is closed,
\* if the slots of receivedData() have not closed it and it is still the same.
OnEventDrain ==
    /\ Running("drain")
    /\ LET x == [sock EXCEPT !.hasToAdd = FALSE, !.posted = {}]
           told1 == sock.state \in {"Connected", "Disconnecting"}
       IN CASE Drains ->
                 /\ sock' = Filled(sock, kernel)
                 /\ kernel' = Emptied(sock, kernel)
                 /\ Goes([Top EXCEPT !.at = "draining", !.was = told])
                 /\ UNCHANGED told
            [] ~Drains /\ Top.same ->
                 /\ sock' = Closed(x)
                 /\ kernel' = NoChannel
                 /\ stack' = AfterClosing(Caller, x) \o
                             IF told1 THEN <<Frame("disconnected", {}, told)>> ELSE <<>>
                 /\ told' = IF told1 THEN "none" ELSE told
            [] OTHER ->
                 /\ sock' = x
                 /\ stack' = Caller
                 /\ UNCHANGED <<kernel, told>>
    /\ UNCHANGED <<alive, connections, arrived, written>>

-----------------------------------------------------------------------------
(* Timers and lookups. *)

OnConnectTimeout ==
    /\ stack = <<>>
    /\ sock.connectTimer
    /\ LET x == [sock EXCEPT !.connectTimer = FALSE]
       IN IF sock.state = "Connecting"
          THEN ConnectToHost(x, stack)
          ELSE sock' = x /\ UNCHANGED <<kernel, stack, told>>
    /\ UNCHANGED <<alive, connections, arrived, written>>

GivesUp == sock.state = "Disconnecting"

OnDisconnectTimeout ==
    /\ stack = <<>>
    /\ sock.disconnectTimer
    /\ LET x == [sock EXCEPT !.disconnectTimer = FALSE]
       IN IF GivesUp
          THEN /\ sock' = Closed(x)
               /\ kernel' = NoChannel
               /\ stack' = <<Frame("disconnected", {}, told)>>
               /\ told' = "none"
          ELSE sock' = x /\ UNCHANGED <<kernel, stack, told>>
    /\ UNCHANGED <<alive, connections, arrived, written>>

OnHostFound ==
    /\ stack = <<>>
    /\ sock.lookingUp
    /\ \E n \in 0..MaxAddresses :
        LET x == [sock EXCEPT !.lookingUp = FALSE, !.addresses = n]
        IN IF n > 0 THEN ConnectToHost(x, stack)
           ELSE sock' = x /\ UNCHANGED kernel /\ Fails(stack, told)
    /\ UNCHANGED <<alive, connections, arrived, written>>

-----------------------------------------------------------------------------
(* The kernel and the peer.  epoll hears of what the socket is interested in. *)
Wakes(e) == kernel.edge \/ e \in sock.interest

ConnectionDecided ==
    /\ kernel.link = "pending"
    /\ kernel' \in {[kernel EXCEPT !.link = l, !.edge = TRUE] : l \in {"up", "failed"}}

DataArrives ==
    /\ kernel.link = "up" /\ ~kernel.gone
    /\ arrived < MaxArriving
    /\ arrived' = arrived + 1
    /\ kernel' = [kernel EXCEPT !.recvQ = @ + 1, !.edge = Wakes("in")]
    /\ UNCHANGED <<sock, stack, told, alive, connections, written>>

\* The peer closes or resets the connection.
PeerGoes ==
    /\ kernel.link = "up" /\ ~kernel.gone
    /\ kernel' = [kernel EXCEPT !.gone = TRUE, !.edge = TRUE]

\* The peer takes data.  epoll is told if a send has found too little space.
SpaceFrees ==
    /\ kernel.space # "free"
    /\ kernel' = [kernel EXCEPT !.space = "free",
                                !.edge = IF kernel.space = "awaited" THEN Wakes("out")
                                         ELSE @]

Network ==
    /\ ConnectionDecided \/ PeerGoes \/ SpaceFrees
    /\ UNCHANGED <<sock, stack, told, alive, connections, arrived, written>>

User == \/ Connect \/ Abort \/ DisconnectFromPeer \/ Write
        \/ Read \/ Skip \/ SetReadBufferCapacity

OnEvent == OnEventOut \/ OnEventIn \/ OnEventSent \/ OnEventDrain

Loop == EpollWait \/ ProcessFetched \/ ProcessPosted

Next ==
    \/ User
    \/ SlotReturns
    \/ OnEvent
    \/ Loop
    \/ OnConnectTimeout \/ OnDisconnectTimeout \/ OnHostFound
    \/ DataArrives
    \/ Network

Spec == Init /\ [][Next]_vars

\* Slots return; the event loop reaches, again and again, both what was posted and
\* what epoll has to report; a timer that goes on running expires, and a lookup ends;
\* a peer that stays takes what it is sent.
Fairness ==
    /\ WF_vars(SlotReturns \/ OnEvent)
    /\ WF_vars(ProcessPosted) /\ SF_vars(EpollWait) /\ SF_vars(ProcessFetched)
    /\ WF_vars(OnConnectTimeout) /\ SF_vars(OnDisconnectTimeout) /\ WF_vars(OnHostFound)
    /\ WF_vars(SpaceFrees /\ Network)

FairSpec == Spec /\ Fairness

-----------------------------------------------------------------------------
\* Every variable has the type of its member; bytes stay within the bounds.
TypeOK ==
    /\ sock.state \in States
    /\ sock.addresses \in 0..MaxAddresses
    /\ sock.interest \subseteq {"in", "out"} /\ sock.posted \subseteq {"in", "out"}
    /\ sock.readBuf \in 0..MaxArriving /\ sock.writeBuf \in 0..MaxWritten
    /\ sock.capacity \in Capacities
    /\ kernel.link \in {"none", "pending", "up", "failed"}
    /\ kernel.recvQ \in 0..MaxArriving /\ kernel.space \in {"free", "full", "awaited"}
    /\ kernel.fetched \subseteq {"in", "out", "hup"}
    /\ told \in {"none", "connecting", "connected"}
    /\ \A i \in 1..Len(stack) :
        stack[i].at \in Slots \cup {"out", "in", "sent", "drain"}
    /\ alive \in BOOLEAN /\ connections \in 0..MaxConnections
    /\ arrived \in 0..MaxArriving /\ written \in 0..MaxWritten

\* Whatever slots do in between, the state of the socket, its descriptor, its
\* timers and the events on their way belong to the same connection: nothing that
\* was fetched or posted for an earlier descriptor can reach a later one, and
\* whenever the socket waits for the peer one of its timers, or a lookup, runs.
Consistent ==
    /\ TypeOK
    /\ sock.enabled => sock.open
    /\ sock.state \in {"Connected", "Disconnecting"} => sock.enabled /\ kernel.link = "up"
    /\ sock.state = "Unconnected" => ~sock.open /\ ~sock.connectTimer /\ ~sock.lookingUp
    /\ ~sock.enabled => kernel.fetched = {} /\ kernel.link = "none"
    /\ sock.state = "Connecting" => sock.posted = {} /\ sock.readBuf = 0
    /\ stack = <<>> =>
        /\ told = CASE sock.state = "Unconnected" -> "none"
                    [] sock.state = "Connecting"  -> "connecting"
                    [] OTHER                      -> "connected"
        /\ sock.state = "Connecting" => sock.lookingUp \/ (sock.connectTimer /\ sock.enabled)
        /\ sock.state = "Disconnecting" => sock.disconnectTimer
    /\ ~alive => sock.state = "Unconnected" /\ \A i \in 1..Len(stack) : ~stack[i].same

\* connected() and error() are awaited by a user who has asked for a connection and has
\* not been told about it; disconnected() and data by one who knows it to be connected.
SignalsAwaited ==
    \A i \in 1..Len(stack) :
        /\ stack[i].at \in {"connected", "error"} => stack[i].was = "connecting"
        /\ stack[i].at \in {"receivedData", "draining", "disconnected"} =>
              stack[i].was = "connected"

EmitsDisconnected ==
    told = "connected" /\ told' = "none" /\ Running("disconnected")' /\ Top'.same

\* onEvent has found the end of the connection, or could not shut it down.
PeerEnds == Running("drain") /\ "hup" \in Top.mask /\ kernel.gone

\* The two other ends there are, neither of them graceful.
ShutdownFails == UserRuns /\ sock.state = "Connected" /\ kernel.gone
TimesOut == stack = <<>> /\ sock.state = "Disconnecting" /\ sock.disconnectTimer

EndsKnown == EmitsDisconnected => PeerEnds \/ ShutdownFails \/ TimesOut

\* Every signal is one that the user awaits; none is emitted twice for a connection, or
\* for one that a slot has aborted.  disconnected() tells that the peer has gone, but for
\* one case: a peer that stays until the disconnect timer expires.  The documentation
\* (TcpSocket.cpp:53-55) has disconnected() for graceful shutdowns only, and error() for
\* whatever else ends a connection while disconnecting.  The code does not do so, and
\* this property does not say so: the timer (TcpSocketPrivate_epoll.cpp:653-669), a
\* shutdown that fails (:435-448, :568-572) and a reset all end with disconnected(), and
\* error() is never emitted once connected() has been.  A socket starts with no signal.
SignalsFit == [][SignalsAwaited' /\ EndsKnown]_vars

\* Data the kernel has received is read once the read buffer has room: an event for it
\* is under way, or the next read() posts one.
ReadsScheduled ==
    stack = <<>> /\ sock.state = "Connected" /\ kernel.recvQ > 0 /\ ~Full(sock) =>
        "in" \in sock.posted \cup kernel.fetched \/ kernel.edge \/ sock.hasToAdd

\* Connecting ends, with connected(), error() or abort(), whatever the peers do, and
\* disconnecting ends, also if the peer never closes its side.
AttemptsEnd ==
    /\ sock.state = "Connecting" ~> sock.state # "Connecting"
    /\ sock.state = "Disconnecting" ~> sock.state # "Disconnecting"

\* Data written is sent, or the connection ends: no slot or nested event leaves data
\* without an event that sends it.  (This holds for the first connection of a socket; one
\* that is made from a descriptor usually has no other.)
WritesLeave ==
    sock.state = "Connected" /\ sock.writeBuf > 0 /\ connections = 1
        ~> sock.writeBuf = 0 \/ sock.state # "Connected"
=============================================================================
