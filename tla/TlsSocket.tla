------------------------------- MODULE TlsSocket -------------------------------
(***************************************************************************)
(* A TlsSocket: a TcpSocket whose TlsSocketPrivate runs OpenSSL between    *)
(* the buffers of the user and two more buffers of encrypted data.  It has *)
(* its own onEvent, disconnectFromPeer, abort, read and timeouts; the way  *)
(* it connects, setError, the event loop, the kernel and the user's other  *)
(* calls are those of TcpSocket.                                           *)
(*                                                                         *)
(* OpenSSL is external.  What the peer sends is counted in fragments: a    *)
(* flight of the handshake, a data record or the first part of one, a      *)
(* close_notify, or bytes that OpenSSL refuses.  OpenSSL takes every       *)
(* fragment that it is shown, keeps the part of a record until the rest    *)
(* comes, and keeps what it has decrypted and was not asked for.           *)
(***************************************************************************)
EXTENDS TcpSocket, FiniteSets

VARIABLE tls  \* the members of TlsSocketPrivate, and its SSL object

tlsVars == <<vars, tls>>

\* Flights of the handshake that a client, or a server, awaits.
Flights == [client |-> 1, server |-> 2, none |-> 0]

\* abortTls(): without an SSL object.  The role is that of m_tlsContext, none if
\* there is no context.
NewTls(role) ==
    [ssl |-> FALSE, role |-> role,
     completed |-> FALSE,     \* m_hasCompletedHandshake
     timer |-> FALSE,         \* m_handshakeTimer is active
     inbound |-> <<>>,        \* fragments in the encrypted incoming buffer, and then
                              \* those in the kernel
     out |-> 0,               \* records in the encrypted outgoing buffer
     awaited |-> 0,           \* flights that the SSL object still awaits
     parts |-> 0,             \* first parts of records in the SSL object
     pending |-> 0,           \* decrypted units that are still in the SSL object
     wantsToRead |-> FALSE,   \* SSL_want_read
     closeSent |-> FALSE, closeReceived |-> FALSE, failed |-> FALSE,
     heard |-> FALSE,         \* something was sent to the peer
     behind |-> FALSE]        \* a read left data although the read buffer was not full,
                              \* or the user has given room to a full one

\* setupTls()
SetUp(role) == [NewTls(role) EXCEPT !.ssl = TRUE, !.awaited = Flights[role]]

\* Mutant of AbortedTls: the handshake timer runs on.
AbortedTlsTimed == [NewTls(tls.role) EXCEPT !.timer = tls.timer]

AbortedTls == NewTls(tls.role)

\* A socket to connect, with or without a context, or one that was made from the
\* descriptor of an accepted connection, with its first doHandshake behind it.
TlsInit ==
    /\ Init
    /\ IF sock.state = "Unconnected"
       THEN tls \in {NewTls("client"), NewTls("none")}
       ELSE tls = [SetUp("server") EXCEPT !.timer = TRUE, !.wantsToRead = TRUE]

-----------------------------------------------------------------------------
(* Reading and writing. *)

\* OpenSSL takes a fragment.
Decrypted(t, f) ==
    CASE f = "flight" -> [t EXCEPT !.awaited = @ - 1, !.out = @ + 1]
      [] f = "part"   -> [t EXCEPT !.parts = 1]
      [] f = "data"   -> [t EXCEPT !.pending = @ + t.parts + 1, !.parts = 0]
      [] f = "close"  -> [t EXCEPT !.closeReceived = TRUE]
      [] f = "bad"    -> [t EXCEPT !.failed = TRUE]

\* TlsSocketDataSource::read: fragments are taken until there is enough for the room.
Shown(t, room) ==
    IF t.pending >= room \/ t.failed THEN t
    ELSE [Decrypted(t, Head(t.inbound)) EXCEPT !.inbound = Tail(@)]

SslRead(t, room) ==
    LET after[n \in 0..Len(t.inbound)] ==
          IF n = 0 THEN t ELSE Shown(after[n - 1], room)
    IN after[Len(t.inbound)]

Least(a, b) == IF a < b THEN a ELSE b

\* The room RingBuffer::write finds or makes: it goes by the size of the encrypted
\* data, which is less than OpenSSL has if parts of records came before.
Free(x) == IF x.capacity = 0 THEN MaxArriving ELSE x.capacity - x.readBuf
Rooms(x, t) == Least(Len(t.inbound), Free(x))..Free(x)

\* Mutant of Disconnecting: the close_notify waits for an event.
DisconnectingQuietly(x, t) ==
    [x |-> [x EXCEPT !.state = "Disconnecting", !.disconnectTimer = TRUE],
     t |-> IF x.writeBuf = 0 THEN [t EXCEPT !.closeSent = TRUE, !.out = @ + 1] ELSE t]

\* disconnectFromPeer() of a socket that is encrypted.  OpenSSL appends a close_notify
\* to the outgoing buffer, which is then not empty: the shutdown() that follows it in
\* the code is left to onEvent.
Disconnecting(x, t) ==
    [x |-> [x EXCEPT !.state = "Disconnecting", !.disconnectTimer = TRUE,
                     !.posted = IF x.writeBuf = 0 THEN @ \cup {"out"} ELSE @],
     t |-> IF x.writeBuf = 0 THEN [t EXCEPT !.closeSent = TRUE, !.out = @ + 1] ELSE t]

\* readDataFromChannel, from a channel that is emptied unless the read buffer is full.
ReadDataFromChannel(room) ==
    LET u == SslRead(tls, room)
        got == Least(room, u.pending)
        x == [sock EXCEPT !.readBuf = @ + got,
                          !.posted = IF tls.wantsToRead \/ u.out > tls.out
                                     THEN @ \cup {"out"} ELSE @]
        left == u.pending > got \/ u.inbound # <<>>
        t == [u EXCEPT !.pending = @ - got,
                       !.wantsToRead = IF room = 0 THEN @
                                       ELSE u.pending < room /\ ~u.closeReceived,
                       !.behind = left /\ ~Full(x)]
        c == IF t.completed /\ t.closeReceived /\ x.state = "Connected"
             THEN Disconnecting(x, t) ELSE [x |-> x, t |-> t]
    IN IF Full(sock) THEN [x |-> sock, t |-> tls, got |-> 0]
       ELSE IF u.failed THEN [x |-> sock, t |-> u, got |-> 0]
       ELSE [x |-> c.x, t |-> c.t, got |-> got]

EmptiedUnlessFull == IF Full(sock) THEN kernel ELSE [kernel EXCEPT !.recvQ = 0]

\* The first half of writeDataToChannel: what the user has written is encrypted, but
\* not before the handshake has completed.
Encrypted(x, t) ==
    IF t.completed
    THEN [x |-> [x EXCEPT !.writeBuf = 0], t |-> [t EXCEPT !.out = @ + x.writeBuf]]
    ELSE [x |-> x, t |-> t]

\* The second: n records of the encrypted data are sent.
TlsSent(c, n) ==
    [x |-> [c.x EXCEPT !.scheduled = FALSE],
     t |-> [c.t EXCEPT !.out = @ - n, !.heard = @ \/ n > 0]]

-----------------------------------------------------------------------------
(* The handshake. *)

HandshakeDone(c) ==
    [c EXCEPT !.t.completed = TRUE, !.t.timer = FALSE, !.t.wantsToRead = FALSE,
              !.x.posted = @ \cup {"out"}]

\* onEvent goes on behind its second part, with the members x.
GoesOn(x, read) ==
    /\ sock' = [x EXCEPT !.disconnectTimer = @ /\ "hup" \notin Top.mask]
    /\ Goes([Top EXCEPT !.same = TRUE, !.was = told,
                        !.at = IF read THEN "receivedData" ELSE "sent"])

\* The first doHandshake of a client: its first flight goes to the outgoing buffer.
Hello == [tls EXCEPT !.out = @ + 1, !.wantsToRead = TRUE, !.timer = TRUE]

\* onConnected, after the slots of connected().
ConnectedReturns ==
    /\ Running("connected")
    /\ IF Top.same
       THEN \E n \in Sendable(Hello.out) :
              LET c == TlsSent([x |-> sock, t |-> Hello], n)
              IN /\ sock' = c.x /\ tls' = c.t
                 /\ kernel' \in Takes(kernel, Hello.out, n)
                 /\ Goes([Top EXCEPT !.at = "in"])
       ELSE stack' = Caller /\ UNCHANGED <<sock, kernel, tls>>
    /\ UNCHANGED <<told, alive, connections, arrived, written>>

\* onEvent, after the slots of encrypted().
EncryptedReturns ==
    /\ Running("encrypted")
    /\ IF Top.same THEN GoesOn(sock, "read" \in Top.mask)
       ELSE stack' = Caller /\ UNCHANGED sock
    /\ UNCHANGED <<kernel, tls, told, alive, connections, arrived, written>>

TlsSlotReturns ==
    \/ ConnectedReturns
    \/ EncryptedReturns
    \/ /\ SlotReturns
       /\ Top.at \notin {"connected", "encrypted"}
       /\ tls' = IF Top.at = "error" /\ Top.same THEN AbortedTls ELSE tls

-----------------------------------------------------------------------------
(* onEvent. *)

TlsOutWhileConnected ==
    /\ sock.state = "Connected"
    /\ LET e == Encrypted(sock, tls)
       IN \E n \in Sendable(e.t.out) :
            /\ sock' = TlsSent(e, n).x /\ tls' = TlsSent(e, n).t
            /\ kernel' \in Takes(kernel, e.t.out, n)
            /\ Goes([Top EXCEPT !.at = "in", !.sent = n > 0 /\ tls.completed])
    /\ UNCHANGED told

\* All of the data, and then a close_notify, which a later event sends; behind the last
\* of the encrypted data the sending side of the channel is shut down, if it can be.
TlsOutWhileDisconnecting ==
    /\ sock.state = "Disconnecting"
    /\ LET e == Encrypted(sock, tls)
       IN \E n \in Sendable(e.t.out) : \E k \in Takes(kernel, e.t.out, n), hup \in BOOLEAN :
            LET c == TlsSent(e, n)
                t == IF c.t.closeSent THEN c.t
                     ELSE [c.t EXCEPT !.closeSent = TRUE, !.out = @ + 1]
                i == IF t.out = 0 THEN {} ELSE sock.interest
                x == [c.x EXCEPT !.posted = IF c.t.closeSent THEN @ ELSE @ \cup {"out"},
                                 !.interest = i, !.disconnectTimer = @ /\ ~hup]
            IN /\ hup => t.out = 0 /\ kernel.gone
               /\ sock' = x /\ tls' = t
               /\ kernel' = Modified(sock, k, i)
               /\ Goes([Top EXCEPT !.at = "in", !.sent = n > 0,
                                   !.mask = IF hup THEN @ \cup {"hup"} ELSE @])
    /\ UNCHANGED told

TlsOnEventOut ==
    /\ Running("out")
    /\ IF "out" \in Top.mask /\ sock.state # "Unconnected"
       THEN \/ TlsOutWhileConnected
            \/ TlsOutWhileDisconnecting
            \/ OutWhileConnecting /\ UNCHANGED tls
       ELSE Goes([Top EXCEPT !.at = "in"]) /\ UNCHANGED <<sock, kernel, told, tls>>
    /\ UNCHANGED <<alive, connections, arrived, written>>

\* What SSL_do_handshake, or SSL_read before it, throws at.
Refused(t) == t.failed \/ (t.closeReceived /\ t.awaited > 0)

\* Data is read; while the handshake has not completed it goes on, and what it has to
\* send is sent at once.
ReadsOrShakesHands(r) ==
    IF tls.completed
    THEN /\ GoesOn(r.x, r.got > 0)
         /\ tls' = r.t /\ kernel' = EmptiedUnlessFull
         /\ UNCHANGED told
    ELSE \E n \in Sendable(r.t.out) :
         LET c == TlsSent(r, n)
         IN /\ kernel' \in Takes(EmptiedUnlessFull, r.t.out, n)
            /\ IF r.t.awaited > 0
               THEN GoesOn(c.x, FALSE) /\ tls' = c.t /\ UNCHANGED told
               ELSE /\ sock' = HandshakeDone(c).x /\ tls' = HandshakeDone(c).t
                    /\ told' = "encrypted"
                    /\ Goes([Top EXCEPT !.at = "encrypted", !.same = TRUE, !.was = told,
                                        !.mask = IF r.got > 0 THEN @ \cup {"read"} ELSE @])

TlsOnEventIn ==
    /\ Running("in")
    /\ IF "in" \in Top.mask /\ sock.state = "Connected"
       THEN \E room \in Rooms(sock, tls) :
              LET r == ReadDataFromChannel(room)
              IN IF r.t.failed \/ (~tls.completed /\ Refused(r.t))
                 THEN /\ sock' = r.x /\ tls' = r.t
                      /\ kernel' = EmptiedUnlessFull
                      /\ Fails(Caller, told)
                 ELSE ReadsOrShakesHands(r)
       ELSE GoesOn(sock, FALSE) /\ UNCHANGED <<kernel, told, tls>>
    /\ UNCHANGED <<alive, connections, arrived, written>>

\* What is left in the kernel or in the encrypted buffer is read as long as there is
\* data in it, and fits; what OpenSSL has decrypted does not count.
TlsDrains == tls.inbound # <<>> /\ ~Full(sock)

CloseWhenDrained(s) ==
    LET x == [s EXCEPT !.hasToAdd = FALSE, !.posted = {}]
        told1 == sock.state \in {"Connected", "Disconnecting"}
    IN /\ sock' = Closed(x)
       /\ kernel' = NoChannel
       /\ tls' = AbortedTls
       /\ stack' = AfterClosing(Caller, x) \o
                   IF told1 THEN <<Frame("disconnected", {}, told)>> ELSE <<>>
       /\ told' = IF told1 THEN "none" ELSE told

TlsOnEventDrain ==
    /\ Running("drain")
    /\ \/ /\ ~Top.same
          /\ sock' = [sock EXCEPT !.hasToAdd = FALSE, !.posted = {}]
          /\ stack' = Caller
          /\ UNCHANGED <<kernel, told, tls>>
       \/ /\ Top.same /\ TlsDrains
          /\ \E room \in Rooms(sock, tls) :
               LET r == ReadDataFromChannel(room)
               IN \/ /\ r.t.failed
                     /\ sock' = r.x /\ tls' = r.t /\ kernel' = EmptiedUnlessFull
                     /\ Fails(Caller, told)
                  \/ /\ ~r.t.failed /\ r.got > 0
                     /\ sock' = r.x /\ tls' = r.t /\ kernel' = EmptiedUnlessFull
                     /\ Goes([Top EXCEPT !.at = "draining", !.was = told])
                     /\ UNCHANGED told
                  \/ ~r.t.failed /\ r.got = 0 /\ CloseWhenDrained(r.x)
       \/ Top.same /\ ~TlsDrains /\ CloseWhenDrained(sock)
    /\ UNCHANGED <<alive, connections, arrived, written>>

TlsOnEvent ==
    \/ TlsOnEventOut
    \/ TlsOnEventIn
    \/ OnEventSent /\ UNCHANGED tls
    \/ TlsOnEventDrain

-----------------------------------------------------------------------------
(* The user. *)

\* connect(), which does not get to abort the last connection if there is no context,
\* or none for a client can be made: the error is told first.
TlsConnect ==
    \/ /\ Connect
       /\ tls.role # "none"
       /\ tls' = IF sock'.state = "Connecting" THEN SetUp("client") ELSE NewTls("client")
    \/ /\ UserRuns /\ alive
       /\ tls.role # "client"
       /\ connections < MaxConnections
       /\ connections' = connections + 1
       /\ Fails(stack, "connecting")
       /\ tls' = [tls EXCEPT !.role = "none"]
       /\ UNCHANGED <<sock, kernel, alive, arrived, written>>

\* abort(), the destructor, or disconnectFromPeer() before the handshake has completed.
TlsAbort == Abort /\ tls' = AbortedTls

TlsDisconnectFromPeer ==
    /\ UserRuns /\ alive
    /\ sock.state = "Connected" /\ tls.completed
    /\ sock' = Disconnecting(sock, tls).x /\ tls' = Disconnecting(sock, tls).t
    /\ UNCHANGED <<kernel, stack, told, alive, connections, arrived, written>>

\* Mutant of FreesRoom: the buffer is looked at after it has been read from.
FreesRoomLate(n) == sock.capacity > 0 /\ sock.readBuf - n = sock.capacity

\* The data that a full buffer had no room for is asked for.
FreesRoom(n) == Full(sock)

\* read(), readAll() or skip().
TlsRead ==
    /\ UserRuns /\ alive
    /\ \E n \in 1..sock.readBuf :
        sock' = [sock EXCEPT !.readBuf = @ - n,
                             !.posted = IF FreesRoom(n) THEN @ \cup {"in"} ELSE @]
    /\ UNCHANGED <<kernel, tls, stack, told, alive, connections, arrived, written>>

\* setReadBufferCapacity() asks for nothing.
TlsSetReadBufferCapacity ==
    /\ SetReadBufferCapacity
    /\ tls' = [tls EXCEPT !.behind =
                  @ \/ (Full(sock) /\ (tls.pending > 0 \/ tls.inbound # <<>>))]

TlsUser ==
    \/ TlsConnect \/ TlsAbort \/ TlsDisconnectFromPeer
    \/ Write /\ UNCHANGED tls
    \/ TlsRead \/ TlsSetReadBufferCapacity

-----------------------------------------------------------------------------
(* Timeouts, the event loop, the kernel and the peer. *)

OnHandshakeTimeout ==
    /\ stack = <<>>
    /\ tls.timer
    /\ tls' = [tls EXCEPT !.timer = FALSE]
    /\ Fails(stack, told)
    /\ UNCHANGED <<sock, kernel, alive, connections, arrived, written>>

TlsOnDisconnectTimeout ==
    /\ OnDisconnectTimeout
    /\ tls' = IF GivesUp THEN AbortedTls ELSE tls

\* What the peer may send next.  It keeps to the protocol or sends nonsense; a server
\* does not speak first, and a client goes on with the handshake when it was answered.
MaySend ==
    LET ended == \/ tls.closeReceived \/ tls.failed
                 \/ ToSet(tls.inbound) \cap {"close", "bad"} # {}
        inRecord == IF tls.inbound = <<>> THEN tls.parts = 1 ELSE Last(tls.inbound) = "part"
        toCome == tls.awaited - Cardinality({i \in DOMAIN tls.inbound : tls.inbound[i] = "flight"})
        silent == ~tls.heard /\ (tls.role = "client" \/ toCome = 1)
    IN IF ended THEN {}
       ELSE IF inRecord THEN {"data"}
       ELSE IF silent THEN {}
       ELSE {"close", "bad"} \cup IF toCome > 0 THEN {"flight"} ELSE {"data", "part"}

FragmentArrives ==
    /\ DataArrives
    /\ tls.ssl
    /\ \E f \in MaySend : tls' = [tls EXCEPT !.inbound = Append(@, f)]

TlsNext ==
    \/ TlsUser
    \/ TlsSlotReturns
    \/ TlsOnEvent
    \/ Loop /\ UNCHANGED tls
    \/ (OnConnectTimeout \/ OnHostFound) /\ UNCHANGED tls
    \/ OnHandshakeTimeout
    \/ TlsOnDisconnectTimeout
    \/ FragmentArrives
    \/ Network /\ UNCHANGED tls

TlsSpec == TlsInit /\ [][TlsNext]_tlsVars

-----------------------------------------------------------------------------
\* The variable has the type of its members, and the SSL object, the handshake, its
\* timer and the buffers belong to the connection the socket has, whatever slots do
\* in between: onEvent never calls OpenSSL without an SSL object, a handshake is
\* always timed, and its timer never outlives it.
TlsConsistent ==
    /\ tls.role \in DOMAIN Flights /\ tls.awaited \in 0..2
    /\ tls.out \in 0..(MaxWritten + 4) /\ tls.pending \in 0..MaxArriving
    /\ sock.state \in {"Connected", "Disconnecting"} => tls.ssl
    /\ sock.state = "Unconnected" => tls = AbortedTls
    /\ tls.completed => sock.state \in {"Connected", "Disconnecting"} /\ tls.awaited = 0
    /\ sock.state = "Disconnecting" => tls.completed
    /\ tls.timer => sock.state = "Connected" /\ ~tls.completed
    /\ tls.inbound # <<>> => kernel.link = "up" /\ kernel.recvQ <= Len(tls.inbound)
    /\ sock.state = "Disconnecting" /\ sock.interest = {} =>
          sock.writeBuf = 0 /\ tls.out = 0 /\ tls.closeSent
    /\ stack = <<>> =>
        /\ told = CASE sock.state = "Unconnected" -> "none"
                    [] sock.state = "Connecting"  -> "connecting"
                    [] OTHER -> IF tls.completed THEN "encrypted" ELSE "connected"
        /\ sock.state = "Connected" /\ ~tls.completed => tls.timer
        /\ sock.state = "Disconnecting" => sock.disconnectTimer

\* encrypted() is emitted once for a connection, after connected(); data is told of
\* only when it was, and disconnected() only for a connection that the user knows of.
TlsSignalsFit ==
    \A i \in 1..Len(stack) :
        /\ stack[i].at = "connected" => stack[i].was = "connecting"
        /\ stack[i].at = "encrypted" => stack[i].was = "connected"
        /\ stack[i].at \in {"receivedData", "draining"} => stack[i].was = "encrypted"
        /\ stack[i].at \in {"disconnected", "error"} => stack[i].was # "none"

\* Whenever the event loop is left with an encrypted socket that has data to encrypt
\* or to send, an event for it is under way, also if it was written before the
\* handshake had completed.  (As for a TcpSocket, on the first connection.)
TlsWritesScheduled ==
    /\ stack = <<>> /\ connections <= 1 /\ sock.state \in {"Connected", "Disconnecting"}
    /\ (tls.completed /\ sock.writeBuf > 0) \/ tls.out > 0
    => \/ "out" \in sock.posted \cup kernel.fetched
       \/ kernel.edge \/ kernel.space = "awaited"

\* "TlsSocket emits the receivedData signal when it decrypts data from the channel",
\* and dataAvailable() counts what was decrypted (TlsSocket.cpp): what is left of it in
\* the kernel, in the encrypted buffer or in the SSL object of a connected socket whose
\* read buffer has room has an event under way that reads it.
TlsReadsScheduled ==
    /\ stack = <<>> /\ sock.state = "Connected" /\ ~Full(sock)
    /\ tls.inbound # <<>> \/ tls.pending > 0
    => "in" \in sock.posted \cup kernel.fetched \/ kernel.edge

\* Received data waits without an event only for a full buffer, and read(), readAll() and
\* skip() post one then.  The exceptions are those of behind: the last read left data
\* although the read buffer was not full, as after a record that came in parts, whose size
\* its room was not made for; or setReadBufferCapacity() has given room to a full one.
TlsReadsScheduledOrBehind == TlsReadsScheduled \/ tls.behind
=============================================================================
