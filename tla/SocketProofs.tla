-------------------------------- MODULE SocketProofs -------------------------------
(***************************************************************************)
(* Proofs about TcpSocket and TlsSocket for any number of connections,     *)
(* addresses and bytes and any capacities: whatever slots do to the socket *)
(* while onEvent or setError runs, its state, descriptor, timers, signals  *)
(* and reads fit one another, and those of a TlsSocket fit its handshake,  *)
(* its SSL object and the encrypted data as well.  What a suspended call   *)
(* may assume is the heart of both.                                        *)
(***************************************************************************)
EXTENDS TlsSocket, SequenceTheorems, FiniteSetTheorems, WellFoundedInduction, TLAPS

-----------------------------------------------------------------------------
(* The TCP socket. *)

Both == {"in", "out"}
Masks == SUBSET {"in", "out", "hup"}
FrameMasks == SUBSET {"in", "out", "hup", "read"}
Knowledge == {"none", "connecting", "connected", "encrypted"}

Socks ==
    [state : States, addresses : 0..MaxAddresses, lookingUp : BOOLEAN,
     open : BOOLEAN, enabled : BOOLEAN, interest : SUBSET Both,
     connectTimer : BOOLEAN, disconnectTimer : BOOLEAN,
     hasToAdd : BOOLEAN, scheduled : BOOLEAN, posted : SUBSET Both,
     readBuf : 0..MaxArriving, writeBuf : 0..MaxWritten, capacity : Capacities]

Channels ==
    [link : {"none", "pending", "up", "failed"}, recvQ : 0..MaxArriving,
     space : {"free", "full", "awaited"}, gone : BOOLEAN, edge : BOOLEAN, fetched : Masks]

Frames ==
    [at : Slots \cup {"out", "in", "sent", "drain"}, mask : FrameMasks,
     sent : BOOLEAN, same : BOOLEAN, was : Knowledge]

Typed ==
    /\ sock \in Socks /\ kernel \in Channels /\ stack \in Seq(Frames)
    /\ told \in Knowledge /\ alive \in BOOLEAN
    /\ connections \in 0..MaxConnections
    /\ arrived \in 0..MaxArriving /\ written \in 0..MaxWritten

\* The members of a socket agree with each other and with its channel.
Fits(x, k) ==
    /\ x.capacity = 0 \/ x.readBuf <= x.capacity
    /\ x.enabled => x.open
    /\ x.lookingUp => x.state = "Connecting" /\ ~x.enabled
    /\ x.connectTimer => x.state = "Connecting" /\ ~x.lookingUp
    /\ x.state = "Unconnected" => ~x.open
    /\ x.state \in {"Connecting", "Connected"} => x.interest = Both
    /\ x.state \in {"Connected", "Disconnecting"} => x.enabled /\ k.link = "up"
    /\ x.state = "Connecting" =>
        /\ x.posted = {} /\ x.readBuf = 0 /\ ~x.hasToAdd
        /\ k.space = "free" /\ (k.fetched # {} => "out" \in k.fetched)
    /\ ~x.enabled => k.fetched = {} /\ k.link = "none"
    /\ k.link # "up" => k.recvQ = 0 /\ ~k.gone

Bounded(x, k, a, w) == x.readBuf + k.recvQ <= a /\ x.writeBuf <= w

\* Only slots are suspended, above onEvent only setError and disconnectFromPeer run,
\* and whoever is called by a slot of error() has begun another connection.
Nested(s) ==
    \A i \in 1..Len(s) :
        /\ i > 1 => s[i].at \in {"error", "disconnected"}
        /\ i < Len(s) => s[i].at \in Slots /\ (s[i].at = "error" => ~s[i].same)

\* What the calls may assume of the socket's state: one that is told of another context
\* finds a socket that has not got further than connecting, and one that is not is never
\* past the outcome of connecting while the socket connects.
Context(s, state) ==
    \A i \in 1..Len(s) :
        /\ ~s[i].same => state \in {"Unconnected", "Connecting"}
        /\ s[i].at = "error" => state \in {"Unconnected", "Connecting"}
        /\ s[i].at \in {"out", "in"} => s[i].same
        /\ s[i].same /\ state = "Connecting" =>
              s[i].at = "error" \/ (s[i].at = "out" /\ "out" \in s[i].mask)

Signalled(s) ==
    \A i \in 1..Len(s) :
        /\ s[i].at \in {"connected", "error"} => s[i].was = "connecting"
        /\ s[i].at \in {"receivedData", "draining", "disconnected"} => s[i].was = "connected"

\* The connection's error is being told; what is read next, and what closes it, is on
\* its way.
Failing(s) == s # <<>> /\ Last(s).at = "error" /\ Last(s).same
Reading(s) ==
    s # <<>> /\ s[1].same /\ "in" \in s[1].mask /\ s[1].at \in {"out", "connected", "in"}
Closing(s) ==
    /\ s # <<>> /\ "hup" \in s[1].mask
    /\ s[1].at \in {"in", "receivedData", "sent", "sentData", "drain", "draining"}

Knows(u, s, state) ==
    /\ state = "Unconnected" => u = "none"
    /\ state = "Connecting" => u = IF Failing(s) THEN "none" ELSE "connecting"
    /\ state \in {"Connected", "Disconnecting"} => u = "connected"

Waits(x, s) ==
    /\ x.state = "Connecting" =>
        /\ \/ x.lookingUp \/ (x.connectTimer /\ x.enabled) \/ Failing(s)
           \/ BoundSocketFails
        /\ s # <<>> /\ s[1].at = "out" => x.enabled
    /\ x.state = "Disconnecting" => x.disconnectTimer \/ Closing(s)

ReadsComing(x, k, s) ==
    (x.state = "Connected" \/ (x.state = "Connecting" /\ ~Failing(s))) /\ k.recvQ > 0 =>
        "in" \in x.posted \cup k.fetched \/ k.edge \/ x.hasToAdd \/ Reading(s)

\* What the calls s know of the socket x, and u, what the user does.
Calls(x, s, u) ==
    /\ Nested(s) /\ Context(s, x.state) /\ Signalled(s)
    /\ Knows(u, s, x.state) /\ Waits(x, s)

Deleted ==
    ~alive =>
        /\ sock.state = "Unconnected" /\ sock.posted = {}
        /\ \A i \in 1..Len(stack) : ~stack[i].same

SocketInvariant ==
    /\ Typed
    /\ Fits(sock, kernel) /\ Bounded(sock, kernel, arrived, written)
    /\ Calls(sock, stack, told)
    /\ ReadsComing(sock, kernel, stack)
    /\ Deleted

-----------------------------------------------------------------------------
(* The stack. *)

LEMMA TopOfStack ==
    ASSUME NEW s \in Seq(Frames), s # <<>>
    PROVE  /\ Front(s) \in Seq(Frames) /\ Len(Front(s)) = Len(s) - 1
           /\ \A i \in 1..(Len(s) - 1) : Front(s)[i] = s[i]
           /\ Last(s) = s[Len(s)] /\ Last(s) \in Frames
           /\ Len(s) \in Nat \ {0}
<1>1. Len(s) \in Nat \ {0} /\ s[Len(s)] \in Frames
  BY EmptySeq, ElementOfSeq, LenProperties
<1>2. \A i \in 1..(Len(s) - 1) : s[i] \in Frames  BY <1>1, ElementOfSeq
<1>3. /\ SubSeq(s, 1, Len(s) - 1) \in Seq(Frames)
      /\ Len(SubSeq(s, 1, Len(s) - 1)) = Len(s) - 1
      /\ \A i \in 1..(Len(s) - 1) : SubSeq(s, 1, Len(s) - 1)[i] = s[i]
  <2> DEFINE n == Len(s) - 1
  <2>1. n \in Nat /\ \A i \in 1..n : s[i] \in Frames  BY <1>1, <1>2
  <2> HIDE DEF n
  <2>2. /\ SubSeq(s, 1, n) \in Seq(Frames)
        /\ Len(SubSeq(s, 1, n)) = IF 1 <= n THEN n - 1 + 1 ELSE 0
        /\ \A i \in 1..(n - 1 + 1) : SubSeq(s, 1, n)[i] = s[1 + i - 1]
    BY <2>1, SubSeqProperties
  <2>3. Len(SubSeq(s, 1, n)) = n /\ \A i \in 1..n : SubSeq(s, 1, n)[i] = s[i]
    BY <2>1, <2>2
  <2> QED  BY <2>2, <2>3 DEF n
<1> QED  BY <1>1, <1>3 DEF Front, Last

LEMMA Appended ==
    ASSUME NEW s \in Seq(Frames), NEW f \in Frames
    PROVE  /\ Append(s, f) \in Seq(Frames) /\ Append(s, f) # <<>>
           /\ Len(Append(s, f)) = Len(s) + 1 /\ Len(s) \in Nat
           /\ \A i \in 1..Len(s) : Append(s, f)[i] = s[i]
           /\ Append(s, f)[Len(s) + 1] = f /\ Last(Append(s, f)) = f
<1> DEFINE a == Append(s, f)
<1>1. /\ a \in Seq(Frames) /\ a # <<>> /\ Len(a) = Len(s) + 1 /\ a[Len(s) + 1] = f
      /\ \A i \in 1..Len(s) : a[i] = s[i]
      /\ Len(s) \in Nat
  BY AppendProperties, LenProperties
<1>2. Last(a) = f  BY <1>1 DEF Last
<1> QED  BY <1>1, <1>2

\* Every call is told that the context is another one.
LEMMA Told ==
    ASSUME NEW s \in Seq(Frames)
    PROVE  /\ OtherContext(s) \in Seq(Frames) /\ Len(OtherContext(s)) = Len(s)
           /\ Len(s) \in Nat /\ (s = <<>> <=> OtherContext(s) = <<>>)
           /\ \A i \in 1..Len(s) :
                /\ OtherContext(s)[i] = [s[i] EXCEPT !.same = FALSE]
                /\ OtherContext(s)[i] \in Frames /\ s[i] \in Frames
<1>1. Len(s) \in Nat /\ \A i \in 1..Len(s) : s[i] \in Frames
  BY ElementOfSeq, LenProperties
<1>2. \A i \in 1..Len(s) : [s[i] EXCEPT !.same = FALSE] \in Frames
  BY <1>1 DEF Frames
<1>3. OtherContext(s) \in [1..Len(s) -> Frames]  BY <1>2 DEF OtherContext
<1>4. OtherContext(s) \in Seq(Frames) /\ Len(OtherContext(s)) = Len(s)
  <2> DEFINE o == OtherContext(s)
  <2>1. o \in [1..Len(s) -> Frames]  BY <1>3
  <2> HIDE DEF o
  <2>2. o \in Seq(Frames)  BY <1>1, <2>1, IsASeq
  <2>3. Len(o) = Len(s)  BY <1>1, <2>1, <2>2, LenProperties
  <2> QED  BY <2>2, <2>3 DEF o
<1>5. s = <<>> <=> OtherContext(s) = <<>>  BY <1>4, EmptySeq
<1>6. \A i \in 1..Len(s) : OtherContext(s)[i] = [s[i] EXCEPT !.same = FALSE]
  BY DEF OtherContext
<1> QED  BY <1>1, <1>2, <1>4, <1>5, <1>6

\* setError is called where no call is left that knows the context.
LEMMA Failed ==
    ASSUME NEW s \in Seq(Frames), NEW x, Nested(s), Signalled(s), Context(s, x.state),
           s = <<>> \/ Last(s).at \in Slots,
           \A i \in 1..Len(s) : ~s[i].same,
           x.state \in {"Unconnected", "Connecting"},
           NEW f, f = Frame("error", {}, "connecting")
    PROVE  /\ Append(s, f) \in Seq(Frames) /\ Calls(x, Append(s, f), "none")
           /\ Failing(Append(s, f))
<1> DEFINE a == Append(s, f)
<1>0. /\ f \in Frames /\ f.at = "error" /\ f.same /\ f.was = "connecting"
      /\ f.at \in Slots /\ f.mask = {}
  BY DEF Frame, Frames, Slots, FrameMasks, Knowledge
<1>1. /\ a \in Seq(Frames) /\ a # <<>> /\ Len(a) = Len(s) + 1 /\ a[Len(s) + 1] = f
      /\ \A i \in 1..Len(s) : a[i] = s[i]
      /\ Len(s) \in Nat /\ Last(a) = f
  BY <1>0, Appended
<1>2. s # <<>> => Last(s) = s[Len(s)] /\ Len(s) # 0  BY TopOfStack
<1>3. s = <<>> => Len(s) = 0  OBVIOUS
<1> HIDE DEF a
<1>4. Nested(a)  BY <1>0, <1>1, <1>2, <1>3 DEF Nested
<1>5. Context(a, x.state)  BY <1>0, <1>1 DEF Context
<1>6. Signalled(a)  BY <1>0, <1>1 DEF Signalled
<1>7. Failing(a)  BY <1>0, <1>1 DEF Failing
<1>8. a[1].at # "out"
  <2>1. CASE Len(s) = 0  BY <1>0, <1>1, <2>1
  <2>2. CASE Len(s) # 0
    <3>1. 1 \in 1..Len(s)  BY <1>1, <2>2
    <3> QED  BY <1>1, <3>1 DEF Context
  <2> QED  BY <2>1, <2>2
<1>9. Knows("none", a, x.state) /\ Waits(x, a)  BY <1>7, <1>8 DEF Knows, Waits
<1> USE DEF a
<1> QED  BY <1>1, <1>4, <1>5, <1>6, <1>7, <1>9 DEF Calls

\* disconnected() is emitted by whoever has closed the connection x was of.
LEMMA Ended ==
    ASSUME NEW s \in Seq(Frames), NEW x, Nested(s), Signalled(s),
           s = <<>> \/ Last(s).at \in Slots,
           \A i \in 1..Len(s) : s[i].at # "error",
           NEW y, NEW r, r = AfterClosing(s, y), x.state = "Unconnected",
           NEW f, f = Frame("disconnected", {}, "connected")
    PROVE  Append(r, f) \in Seq(Frames) /\ Calls(x, Append(r, f), "none")
<1> DEFINE a == Append(r, f)
<1>0. /\ f \in Frames /\ f.at = "disconnected" /\ f.same /\ f.was = "connected"
      /\ f.at \in Slots /\ f.mask = {}
  BY DEF Frame, Frames, Slots, FrameMasks, Knowledge
<1>1. /\ r \in Seq(Frames) /\ Len(r) = Len(s) /\ Len(s) \in Nat
      /\ \A i \in 1..Len(s) : r[i].at = s[i].at /\ r[i].was = s[i].was /\ s[i] \in Frames
  <2>1. \A i \in 1..Len(s) : s[i] \in Frames  BY Told
  <2>2. CASE r = s  BY <2>1, <2>2, LenProperties
  <2>3. CASE r = OtherContext(s)
    <3> DEFINE o == OtherContext(s)
    <3>1. /\ o \in Seq(Frames) /\ Len(o) = Len(s) /\ Len(s) \in Nat
          /\ \A i \in 1..Len(s) : o[i] = [s[i] EXCEPT !.same = FALSE]
      BY Told
    <3> HIDE DEF o
    <3>2. \A i \in 1..Len(s) : o[i].at = s[i].at /\ o[i].was = s[i].was
      BY <2>1, <3>1 DEF Frames
    <3> QED  BY <2>1, <2>3, <3>1, <3>2 DEF o
  <2> QED  BY <2>2, <2>3 DEF AfterClosing
<1>2. /\ a \in Seq(Frames) /\ a # <<>> /\ Len(a) = Len(s) + 1 /\ a[Len(s) + 1] = f
      /\ \A i \in 1..Len(s) : a[i] = r[i]
      /\ Last(a) = f
  BY <1>0, <1>1, Appended
<1>3. s # <<>> => Last(s) = s[Len(s)] /\ Len(s) # 0  BY TopOfStack
<1>4. s = <<>> => Len(s) = 0  OBVIOUS
<1> HIDE DEF a
<1>5. Nested(a)
  BY <1>0, <1>1, <1>2, <1>3, <1>4 DEF Nested
<1>6. \A i \in 1..Len(s) : s[i].at \in Slots
  BY <1>1, <1>3 DEF Nested
<1>7. Context(a, "Unconnected")
  BY <1>0, <1>1, <1>2, <1>6 DEF Context, Slots
<1>8. Signalled(a)  BY <1>0, <1>1, <1>2 DEF Signalled
<1>9. Knows("none", a, "Unconnected") /\ Waits(x, a)  BY DEF Knows, Waits
<1> USE DEF a
<1> QED  BY <1>2, <1>5, <1>7, <1>8, <1>9 DEF Calls

\* A slot, or an event of the user's, ends what the calls were about.
LEMMA Restarted ==
    ASSUME NEW s \in Seq(Frames), Nested(s), Signalled(s),
           s = <<>> \/ Last(s).at \in Slots,
           NEW state \in {"Unconnected", "Connecting"}
    PROVE  /\ OtherContext(s) \in Seq(Frames)
           /\ OtherContext(s) = <<>> \/ Last(OtherContext(s)).at \in Slots
           /\ Nested(OtherContext(s)) /\ Signalled(OtherContext(s))
           /\ Context(OtherContext(s), state)
           /\ \A i \in 1..Len(OtherContext(s)) : ~OtherContext(s)[i].same
           /\ ~Failing(OtherContext(s))
<1> DEFINE o == OtherContext(s)
<1>1. /\ o \in Seq(Frames) /\ Len(o) = Len(s) /\ Len(s) \in Nat /\ (s = <<>> <=> o = <<>>)
      /\ \A i \in 1..Len(s) : o[i] = [s[i] EXCEPT !.same = FALSE] /\ s[i] \in Frames
  BY Told
<1>2. s # <<>> => Last(s) = s[Len(s)] /\ Len(s) # 0 /\ Last(o) = o[Len(o)]
  BY <1>1, TopOfStack
<1>3. s = <<>> => Len(s) = 0  OBVIOUS
<1> HIDE DEF o
<1>4. \A i \in 1..Len(s) : o[i].at = s[i].at /\ o[i].was = s[i].was /\ ~o[i].same
  BY <1>1 DEF Frames
<1>5. \A i \in 1..Len(s) : s[i].at \in Slots
  BY <1>1, <1>2 DEF Nested
<1>6. Nested(o)  BY <1>1, <1>4 DEF Nested
<1>7. Signalled(o)  BY <1>1, <1>4 DEF Signalled
<1>8. Context(o, state)
  <2> SUFFICES ASSUME NEW i \in 1..Len(s)
               PROVE  ~o[i].same /\ o[i].at \notin {"out", "in"}
    BY <1>1 DEF Context
  <2> QED  BY <1>4, <1>5 DEF Slots
<1>9. o = <<>> \/ Last(o).at \in Slots
  BY <1>1, <1>2, <1>4, <1>5
<1>10. ~Failing(o)  BY <1>1, <1>2, <1>4 DEF Failing
<1> USE DEF o
<1> QED  BY <1>1, <1>4, <1>6, <1>7, <1>8, <1>9, <1>10

\* The running call returns, and it was not the one that closes or fails the connection.
LEMMA Returned ==
    ASSUME NEW s \in Seq(Frames), s # <<>>, NEW x, NEW u, Calls(x, s, u), ~Failing(s),
           x.state = "Disconnecting" => x.disconnectTimer \/ Len(s) > 1
    PROVE  Front(s) \in Seq(Frames) /\ Calls(x, Front(s), u)
<1> DEFINE f == Front(s)
<1>1. /\ f \in Seq(Frames) /\ Len(f) = Len(s) - 1 /\ Len(s) \in Nat \ {0}
      /\ \A i \in 1..(Len(s) - 1) : f[i] = s[i]
      /\ Last(s) = s[Len(s)]
  BY TopOfStack
<1>2. f # <<>> => Last(f) = s[Len(s) - 1] /\ Len(s) - 1 \in 1..(Len(s) - 1)
  BY <1>1, TopOfStack
<1>3. f = <<>> <=> Len(s) = 1  BY <1>1, EmptySeq
<1> HIDE DEF f
<1>4. Nested(f) /\ Context(f, x.state) /\ Signalled(f)
  BY <1>1 DEF Calls, Nested, Context, Signalled
<1>5. ~Failing(f)
  BY <1>1, <1>2 DEF Failing, Calls, Nested
<1>6. Knows(u, f, x.state)  BY <1>5 DEF Calls, Knows
<1>7. Waits(x, f)
  BY <1>1, <1>3, <1>5 DEF Calls, Waits, Closing
<1> USE DEF f
<1> QED  BY <1>1, <1>4, <1>6, <1>7 DEF Calls

\* A call of onEvent is the first; that it goes on leaves no other.
LEMMA Alone ==
    ASSUME NEW s \in Seq(Frames), s # <<>>, Nested(s), Last(s).at \notin {"error", "disconnected"}
    PROVE  /\ Front(s) = <<>> /\ Len(s) = 1 /\ Last(s) = s[1] /\ s[1] \in Frames
           /\ \A f : Append(Front(s), f) = <<f>>
<1>1. /\ Front(s) \in Seq(Frames) /\ Len(Front(s)) = Len(s) - 1 /\ Len(s) \in Nat \ {0}
      /\ Last(s) = s[Len(s)] /\ Last(s) \in Frames
  BY TopOfStack
<1>2. Len(s) = 1  BY <1>1 DEF Nested
<1>3. Front(s) = <<>>  BY <1>1, <1>2, EmptySeq
<1>4. \A f : Append(<<>>, f) = <<f>>  OBVIOUS
<1> QED  BY <1>1, <1>2, <1>3, <1>4

-----------------------------------------------------------------------------
(* The socket and its channel. *)

LEMMA AbortedFits ==
    ASSUME NEW x \in Socks
    PROVE  /\ Aborted(x) \in Socks /\ NoChannel \in Channels
           /\ Aborted(x).state = "Unconnected" /\ Aborted(x).posted = {}
           /\ Aborted(x).readBuf = 0 /\ Aborted(x).writeBuf = 0 /\ NoChannel.recvQ = 0
           /\ Fits(Aborted(x), NoChannel)
<1>1. NoChannel \in Channels /\ NoChannel.recvQ = 0
  BY BoundsAssumption DEF NoChannel, Channels, Masks
<1> DEFINE y == NewSocket(x.capacity)
<1>2. y \in Socks
  <2>1. x.capacity \in Capacities  BY DEF Socks
  <2>2. 0 \in 0..MaxAddresses /\ 0 \in 0..MaxArriving /\ 0 \in 0..MaxWritten
    BY BoundsAssumption
  <2> QED  BY <2>1, <2>2 DEF NewSocket, Socks, States, Both
<1>3. /\ y.state = "Unconnected" /\ y.posted = {} /\ y.readBuf = 0 /\ y.writeBuf = 0
      /\ y.capacity = x.capacity /\ ~y.enabled /\ ~y.lookingUp /\ ~y.open
      /\ ~y.connectTimer
  BY DEF NewSocket
<1>4. x.scheduled \in BOOLEAN  BY DEF Socks
<1>5. x.capacity \in Nat  BY CapacitiesAssumption DEF Socks
<1>6. Aborted(x) = [y EXCEPT !.scheduled = x.scheduled]  BY DEF Aborted
<1> HIDE DEF y
<1>7. Aborted(x) \in Socks  BY <1>2, <1>4, <1>6 DEF Socks
<1>8. /\ Aborted(x).state = "Unconnected" /\ Aborted(x).posted = {}
      /\ Aborted(x).readBuf = 0 /\ Aborted(x).writeBuf = 0
      /\ Aborted(x).capacity = x.capacity /\ ~Aborted(x).enabled
      /\ ~Aborted(x).lookingUp /\ ~Aborted(x).open /\ ~Aborted(x).connectTimer
  BY <1>2, <1>3, <1>6 DEF Socks
<1>9. Fits(Aborted(x), NoChannel)
  BY <1>5, <1>8 DEF Fits, NoChannel
<1> QED  BY <1>1, <1>7, <1>8, <1>9

LEMMA ClosedFits ==
    ASSUME NEW x \in Socks, ~x.lookingUp, ~x.connectTimer,
           x.capacity = 0 \/ x.readBuf <= x.capacity
    PROVE  /\ Closed(x) \in Socks /\ Closed(x).state = "Unconnected"
           /\ Closed(x).readBuf <= x.readBuf /\ Closed(x).writeBuf = 0
           /\ Fits(Closed(x), NoChannel)
<1>1. x.readBuf \in Nat /\ x.writeBuf \in Nat /\ 0 \in 0..MaxWritten
  BY BoundsAssumption DEF Socks
<1>2. CASE x.readBuf > 0
  <2> DEFINE y == [x EXCEPT !.state = "Unconnected", !.open = FALSE, !.enabled = FALSE,
                            !.writeBuf = 0]
  <2>1. Closed(x) = y  BY <1>2 DEF Closed
  <2>2. /\ y.state = "Unconnected" /\ ~y.open /\ ~y.enabled /\ y.writeBuf = 0
        /\ ~y.lookingUp /\ ~y.connectTimer
        /\ y.readBuf = x.readBuf /\ y.capacity = x.capacity
    BY DEF Socks
  <2>3. y \in Socks  BY <1>1 DEF Socks, States
  <2> HIDE DEF y
  <2>4. Fits(y, NoChannel)  BY <2>2 DEF Fits, NoChannel
  <2> QED  BY <1>1, <2>1, <2>2, <2>3, <2>4
<1>3. CASE ~(x.readBuf > 0)
  BY <1>1, <1>3, AbortedFits DEF Closed
<1> QED  BY <1>2, <1>3

LEMMA Reads ==
    ASSUME NEW x \in Socks, NEW k \in Channels, NEW a \in 0..MaxArriving,
           x.capacity = 0 \/ x.readBuf <= x.capacity, x.readBuf + k.recvQ <= a
    PROVE  /\ Readable(x, k) \in 0..k.recvQ
           /\ Filled(x, k) \in Socks /\ Emptied(x, k) \in Channels
           /\ Filled(x, k).readBuf + Emptied(x, k).recvQ <= a
           /\ x.capacity = 0 \/ Filled(x, k).readBuf <= x.capacity
           /\ Emptied(x, k).recvQ > 0 => Filled(x, k).hasToAdd
           /\ Emptied(x, k).recvQ \in 0..k.recvQ
<1>1. /\ x.readBuf \in Nat /\ k.recvQ \in Nat /\ x.capacity \in Nat /\ a \in Nat
      /\ MaxArriving \in Nat /\ a <= MaxArriving
  <2>1. x.readBuf \in 0..MaxArriving /\ k.recvQ \in 0..MaxArriving
    BY DEF Socks, Channels
  <2>2. x.capacity \in Nat  BY CapacitiesAssumption DEF Socks
  <2>3. MaxArriving \in Nat  BY BoundsAssumption
  <2> QED  BY <2>1, <2>2, <2>3
<1> DEFINE n == Readable(x, k)
<1>2. n \in 0..k.recvQ /\ (x.capacity = 0 \/ x.readBuf + n <= x.capacity)
  BY <1>1 DEF Readable
<1>3. n < k.recvQ \/ n = k.recvQ  BY <1>1, <1>2
<1> HIDE DEF n
<1>4. /\ Filled(x, k) = [x EXCEPT !.readBuf = @ + n, !.hasToAdd = @ \/ n < k.recvQ]
      /\ Emptied(x, k) = [k EXCEPT !.recvQ = @ - n]
  BY DEF Filled, Emptied, n
<1>5. x.readBuf + n \in 0..MaxArriving /\ k.recvQ - n \in 0..MaxArriving
  BY <1>1, <1>2
<1>6. (x.hasToAdd \/ n < k.recvQ) \in BOOLEAN  OBVIOUS
<1>7. Filled(x, k) \in Socks  BY <1>4, <1>5, <1>6 DEF Socks
<1>8. Emptied(x, k) \in Channels  BY <1>4, <1>5 DEF Channels
<1>9. /\ Filled(x, k).readBuf = x.readBuf + n /\ Emptied(x, k).recvQ = k.recvQ - n
      /\ n < k.recvQ => Filled(x, k).hasToAdd
  BY <1>4 DEF Socks, Channels
<1>10. /\ Filled(x, k).readBuf + Emptied(x, k).recvQ <= a
       /\ x.capacity = 0 \/ Filled(x, k).readBuf <= x.capacity
       /\ Emptied(x, k).recvQ > 0 => Filled(x, k).hasToAdd
       /\ Emptied(x, k).recvQ \in 0..k.recvQ
  <2>1. (x.readBuf + n) + (k.recvQ - n) <= a /\ k.recvQ - n \in 0..k.recvQ
    BY <1>1, <1>2
  <2>2. k.recvQ - n > 0 => n < k.recvQ  BY <1>1, <1>2
  <2> QED  BY <1>2, <1>9, <2>1, <2>2
<1>11. Readable(x, k) \in 0..k.recvQ  BY <1>2 DEF n
<1> QED  BY <1>7, <1>8, <1>10, <1>11

-----------------------------------------------------------------------------
(* Connecting to the next address: called by Connect, by onEvent, by the timer and by  *)
(* the lookup, always for a socket that has nothing of an earlier connection left.     *)

LEMMA Connecting ==
    ASSUME SocketInvariant,
           NEW x \in Socks, x.state = "Connecting", x.posted = {}, x.readBuf = 0,
           ~x.hasToAdd, x.interest = Both, ~x.lookingUp,
           x.writeBuf <= written,
           x.addresses = 0 => Fits(x, kernel),
           NEW calls \in Seq(Frames), Nested(calls), Signalled(calls),
           Context(calls, "Connecting"),
           calls = <<>> \/ Last(calls).at \in Slots,
           \A i \in 1..Len(calls) : ~calls[i].same, ~Failing(calls),
           ConnectToHost(x, calls)
    PROVE  /\ sock' \in Socks /\ kernel' \in Channels /\ stack' \in Seq(Frames)
           /\ told' \in Knowledge
           /\ Fits(sock', kernel') /\ Bounded(sock', kernel', arrived, written)
           /\ Calls(sock', stack', told') /\ sock'.state = "Connecting"
           /\ ReadsComing(sock', kernel', stack')
<1>1. /\ x.addresses \in 0..MaxAddresses /\ MaxAddresses \in Nat /\ kernel \in Channels
      /\ arrived \in Nat /\ kernel.recvQ \in Nat /\ sock.readBuf \in Nat
      /\ x.capacity \in Nat /\ sock.readBuf + kernel.recvQ <= arrived
      /\ x.writeBuf \in Nat /\ written \in Nat
  <2>1. /\ sock \in Socks /\ kernel \in Channels /\ sock.readBuf + kernel.recvQ <= arrived
        /\ arrived \in 0..MaxArriving /\ written \in 0..MaxWritten
    BY DEF SocketInvariant, Typed, Bounded
  <2>2. x.addresses \in 0..MaxAddresses /\ x.writeBuf \in 0..MaxWritten  BY DEF Socks
  <2>3. kernel.recvQ \in 0..MaxArriving /\ sock.readBuf \in 0..MaxArriving
    BY <2>1 DEF Socks, Channels
  <2>4. x.capacity \in Nat  BY CapacitiesAssumption DEF Socks
  <2>5. MaxAddresses \in Nat /\ MaxArriving \in Nat /\ MaxWritten \in Nat
    BY BoundsAssumption
  <2> QED  BY <2>1, <2>2, <2>3, <2>4, <2>5
<1>2. NoChannel \in Channels /\ [NoChannel EXCEPT !.link = "pending"] \in Channels
  BY AbortedFits, BoundsAssumption DEF NoChannel, Channels, Masks
<1>3. ASSUME NEW n \in 0..(x.addresses - 1), NEW o \in BOOLEAN, NEW e \in BOOLEAN,
             NEW t \in BOOLEAN, NEW k \in Channels,
             sock' = [x EXCEPT !.addresses = n, !.open = o, !.enabled = e, !.connectTimer = t],
             kernel' = k, k.recvQ = 0, ~k.gone, k.fetched = {}, k.space = "free",
             e => o, ~e => k.link = "none"
      PROVE  /\ sock' \in Socks /\ kernel' \in Channels /\ sock'.state = "Connecting"
             /\ Fits(sock', kernel') /\ Bounded(sock', kernel', arrived, written)
             /\ sock'.connectTimer = t /\ sock'.enabled = e /\ kernel'.recvQ = 0
  <2>1. n \in 0..MaxAddresses  BY <1>1
  <2> DEFINE y == [x EXCEPT !.addresses = n, !.open = o, !.enabled = e, !.connectTimer = t]
  <2>2. y \in Socks  BY <2>1, ZenonT(40) DEF Socks
  <2>3. /\ y.state = "Connecting" /\ y.posted = {} /\ y.readBuf = 0 /\ ~y.hasToAdd
        /\ y.interest = Both /\ ~y.lookingUp /\ y.open = o /\ y.enabled = e
        /\ y.connectTimer = t /\ y.writeBuf = x.writeBuf /\ y.capacity = x.capacity
    BY DEF Socks
  <2>4. sock' = y  BY <1>3
  <2> HIDE DEF y
  <2>5. Fits(y, k)  BY <1>1, <1>3, <2>3 DEF Fits
  <2>6. Bounded(y, k, arrived, written)  BY <1>1, <1>3, <2>3 DEF Bounded
  <2> QED  BY <1>3, <2>2, <2>3, <2>4, <2>5, <2>6
<1>4. ASSUME Fails(calls, "connecting"), sock'.state = "Connecting"
      PROVE  /\ stack' \in Seq(Frames) /\ told' \in Knowledge
             /\ Calls(sock', stack', told') /\ ReadsComing(sock', kernel', stack')
  <2>1. stack' = Append(calls, Frame("error", {}, "connecting")) /\ told' = "none"
    BY <1>4 DEF Fails
  <2>2. stack' \in Seq(Frames) /\ Calls(sock', stack', "none") /\ Failing(stack')
    BY <1>4, <2>1, Failed
  <2> QED  BY <1>4, <2>1, <2>2 DEF Knowledge, ReadsComing
<1>5. ASSUME stack' = calls, told' = "connecting", sock'.state = "Connecting",
             (sock'.connectTimer /\ sock'.enabled) \/ BoundSocketFails, kernel'.recvQ = 0
      PROVE  /\ stack' \in Seq(Frames) /\ told' \in Knowledge
             /\ Calls(sock', stack', told') /\ ReadsComing(sock', kernel', stack')
  <2>1. calls # <<>> => calls[1].at # "out"
    <3>1. calls # <<>> => 1 \in 1..Len(calls)  BY TopOfStack
    <3> QED  BY <3>1 DEF Context
  <2> QED  BY <1>5, <2>1 DEF Calls, Knows, Waits, Knowledge, ReadsComing
<1>6. CASE /\ x.addresses > 0
           /\ \E n \in 0..(x.addresses - 1) :
                sock' = [x EXCEPT !.addresses = n, !.open = TRUE, !.enabled = TRUE,
                                  !.connectTimer = TRUE]
           /\ kernel' = [NoChannel EXCEPT !.link = "pending"]
           /\ stack' = calls /\ told' = "connecting"
  <2>1. PICK n \in 0..(x.addresses - 1) :
          sock' = [x EXCEPT !.addresses = n, !.open = TRUE, !.enabled = TRUE,
                            !.connectTimer = TRUE]
    BY <1>6
  <2>2. /\ kernel'.recvQ = 0 /\ ~kernel'.gone /\ kernel'.fetched = {}
        /\ kernel'.space = "free"
    BY <1>6 DEF NoChannel
  <2>3. PICK k \in Channels : kernel' = k  BY <1>2, <1>6
  <2>4. /\ sock' \in Socks /\ kernel' \in Channels /\ sock'.state = "Connecting"
        /\ Fits(sock', kernel') /\ Bounded(sock', kernel', arrived, written)
        /\ sock'.connectTimer /\ sock'.enabled /\ kernel'.recvQ = 0
    BY <1>3, <2>1, <2>2, <2>3
  <2> QED  BY <1>5, <1>6, <2>4
<1>7. CASE /\ x.addresses > 0
           /\ \E n \in 0..(x.addresses - 1), o \in BOOLEAN :
                sock' = [x EXCEPT !.addresses = n, !.open = o, !.enabled = FALSE]
           /\ kernel' = NoChannel
           /\ Fails(calls, "connecting")
  <2>1. PICK n \in 0..(x.addresses - 1), o \in BOOLEAN :
          sock' = [x EXCEPT !.addresses = n, !.open = o, !.enabled = FALSE]
    BY <1>7
  <2>2. sock' = [x EXCEPT !.addresses = n, !.open = o, !.enabled = FALSE,
                          !.connectTimer = x.connectTimer]
    BY <2>1 DEF Socks
  <2>3. /\ NoChannel.recvQ = 0 /\ ~NoChannel.gone /\ NoChannel.fetched = {}
        /\ NoChannel.space = "free" /\ NoChannel.link = "none"
    BY DEF NoChannel
  <2>4. x.connectTimer \in BOOLEAN  BY DEF Socks
  <2>5. /\ sock' \in Socks /\ kernel' \in Channels /\ sock'.state = "Connecting"
        /\ Fits(sock', kernel') /\ Bounded(sock', kernel', arrived, written)
    BY <1>2, <1>3, <1>7, <2>2, <2>3, <2>4
  <2> QED  BY <1>4, <1>7, <2>5
<1>8. CASE /\ x.addresses = 0
           /\ sock' = x
           /\ UNCHANGED kernel
           /\ Fails(calls, "connecting")
  <2>1. Bounded(x, kernel, arrived, written)
    BY <1>1 DEF Bounded
  <2> QED  BY <1>1, <1>4, <1>8, <2>1
<1>9. CASE /\ BoundSocketFails /\ x.addresses > 0
           /\ \E n \in 0..(x.addresses - 1) :
                sock' = [x EXCEPT !.addresses = n, !.open = FALSE, !.enabled = FALSE]
           /\ kernel' = NoChannel
           /\ stack' = calls /\ told' = "connecting"
  <2>1. PICK n \in 0..(x.addresses - 1) :
          sock' = [x EXCEPT !.addresses = n, !.open = FALSE, !.enabled = FALSE]
    BY <1>9
  <2>2. sock' = [x EXCEPT !.addresses = n, !.open = FALSE, !.enabled = FALSE,
                          !.connectTimer = x.connectTimer]
    BY <2>1 DEF Socks
  <2>3. /\ NoChannel.recvQ = 0 /\ ~NoChannel.gone /\ NoChannel.fetched = {}
        /\ NoChannel.space = "free" /\ NoChannel.link = "none"
    BY DEF NoChannel
  <2>4. x.connectTimer \in BOOLEAN  BY DEF Socks
  <2>5. /\ sock' \in Socks /\ kernel' \in Channels /\ sock'.state = "Connecting"
        /\ Fits(sock', kernel') /\ Bounded(sock', kernel', arrived, written)
        /\ kernel'.recvQ = 0
    BY <1>2, <1>3, <1>9, <2>2, <2>3, <2>4
  <2> QED  BY <1>5, <1>9, <2>5
<1> QED  BY <1>6, <1>7, <1>8, <1>9 DEF ConnectToHost

-----------------------------------------------------------------------------
(* The user. *)

LEMMA UserFacts ==
    ASSUME SocketInvariant, UserRuns
    PROVE  /\ sock \in Socks /\ kernel \in Channels /\ stack \in Seq(Frames)
           /\ told \in Knowledge /\ alive \in BOOLEAN
           /\ connections \in 0..MaxConnections
           /\ arrived \in 0..MaxArriving /\ written \in 0..MaxWritten
           /\ Fits(sock, kernel) /\ Bounded(sock, kernel, arrived, written)
           /\ Nested(stack) /\ Context(stack, sock.state) /\ Signalled(stack)
           /\ Knows(told, stack, sock.state) /\ Waits(sock, stack)
           /\ stack = <<>> \/ Last(stack).at \in Slots
           /\ arrived \in Nat /\ written \in Nat
           /\ sock.readBuf \in Nat /\ sock.writeBuf \in Nat /\ kernel.recvQ \in Nat
<1>1. /\ sock \in Socks /\ kernel \in Channels /\ stack \in Seq(Frames)
      /\ told \in Knowledge /\ alive \in BOOLEAN
      /\ connections \in 0..MaxConnections
      /\ arrived \in 0..MaxArriving /\ written \in 0..MaxWritten
      /\ Fits(sock, kernel) /\ Bounded(sock, kernel, arrived, written)
      /\ Nested(stack) /\ Context(stack, sock.state) /\ Signalled(stack)
      /\ Knows(told, stack, sock.state) /\ Waits(sock, stack)
  BY DEF SocketInvariant, Typed, Calls
<1>2. stack = <<>> \/ Last(stack).at \in Slots  BY DEF UserRuns, Top
<1>3. sock.readBuf \in 0..MaxArriving /\ kernel.recvQ \in 0..MaxArriving
  BY <1>1 DEF Socks, Channels
<1>4. sock.writeBuf \in 0..MaxWritten  BY <1>1 DEF Socks
<1>5. MaxArriving \in Nat /\ MaxWritten \in Nat  BY BoundsAssumption
<1>6. /\ arrived \in Nat /\ written \in Nat
      /\ sock.readBuf \in Nat /\ sock.writeBuf \in Nat /\ kernel.recvQ \in Nat
  BY <1>1, <1>3, <1>4, <1>5
<1> QED  BY <1>1, <1>2, <1>6

\* A socket that starts anew is no longer the one the calls were about.
LEMMA NewConnection ==
    ASSUME SocketInvariant, UserRuns
    PROVE  /\ Bounded(Aborted(sock), NoChannel, arrived, written)
           /\ Calls(Aborted(sock), OtherContext(stack), "none")
<1>1. /\ Aborted(sock).readBuf = 0 /\ NoChannel.recvQ = 0 /\ Aborted(sock).writeBuf = 0
      /\ Aborted(sock).state = "Unconnected"
  BY UserFacts, AbortedFits
<1>2. Bounded(Aborted(sock), NoChannel, arrived, written)
  BY <1>1, UserFacts DEF Bounded
<1>3. /\ Nested(OtherContext(stack)) /\ Signalled(OtherContext(stack))
      /\ Context(OtherContext(stack), "Unconnected")
  BY UserFacts, Restarted
<1>4. Calls(Aborted(sock), OtherContext(stack), "none")
  BY <1>1, <1>3 DEF Calls, Knows, Waits
<1> QED  BY <1>2, <1>4

LEMMA ConnectStep ==
    ASSUME SocketInvariant, Connect  PROVE SocketInvariant'
<1>1. UserRuns /\ alive /\ alive' /\ arrived' = arrived /\ written' = written
      /\ connections < MaxConnections /\ connections' = connections + 1
  BY DEF Connect
<1>2. connections' \in 0..MaxConnections
  BY <1>1, UserFacts, BoundsAssumption
<1> DEFINE o == OtherContext(stack)
           y == Aborted(sock)
<1>3. /\ y \in Socks /\ NoChannel \in Channels /\ y.state = "Unconnected"
      /\ y.posted = {} /\ y.readBuf = 0 /\ y.writeBuf = 0 /\ NoChannel.recvQ = 0
      /\ Fits(y, NoChannel)
  BY <1>1, UserFacts, AbortedFits
<1>4. /\ y.interest = Both /\ ~y.hasToAdd /\ ~y.enabled /\ ~y.lookingUp /\ ~y.connectTimer
      /\ ~y.disconnectTimer /\ ~y.open /\ y.capacity = sock.capacity
  BY DEF Aborted, NewSocket, Both
<1>5. y.capacity \in Nat  BY <1>3, CapacitiesAssumption DEF Socks
<1>6. /\ o \in Seq(Frames) /\ (o = <<>> \/ Last(o).at \in Slots)
      /\ Nested(o) /\ Signalled(o)
      /\ Context(o, "Unconnected") /\ Context(o, "Connecting")
      /\ (\A i \in 1..Len(o) : ~o[i].same) /\ ~Failing(o)
  BY <1>1, UserFacts, Restarted
<1>7. SUFFICES
        /\ sock' \in Socks /\ kernel' \in Channels /\ stack' \in Seq(Frames)
        /\ told' \in Knowledge
        /\ Fits(sock', kernel') /\ Bounded(sock', kernel', arrived, written)
        /\ Calls(sock', stack', told') /\ ReadsComing(sock', kernel', stack')
  BY <1>1, <1>2, UserFacts DEF SocketInvariant, Typed, Deleted
<1>8. CASE /\ sock' = Aborted(sock)
           /\ kernel' = NoChannel
           /\ Fails(OtherContext(stack), "connecting")
  <2>1. stack' = Append(o, Frame("error", {}, "connecting")) /\ told' = "none"
    BY <1>8 DEF Fails
  <2>2. Bounded(y, NoChannel, arrived, written)  BY <1>1, NewConnection
  <2> HIDE DEF o, y
  <2>3. stack' \in Seq(Frames) /\ Calls(y, stack', "none")
    BY <1>3, <1>6, <2>1, Failed
  <2>4. sock' = y  BY <1>8 DEF y
  <2> QED  BY <1>3, <1>8, <2>1, <2>2, <2>3, <2>4 DEF Knowledge, ReadsComing
<1>9. CASE ConnectToHost([Aborted(sock) EXCEPT !.state = "Connecting", !.addresses = 1],
                         OtherContext(stack))
  <2> DEFINE x == [y EXCEPT !.state = "Connecting", !.addresses = 1]
  <2>1. ConnectToHost(x, o)  BY <1>9
  <2> HIDE DEF o, y
  <2>2. 1 \in 0..MaxAddresses  BY BoundsAssumption
  <2>3. x \in Socks  BY <1>3, <2>2 DEF Socks, States
  <2>4. /\ x.state = "Connecting" /\ x.posted = {} /\ x.readBuf = 0 /\ ~x.hasToAdd
        /\ x.interest = Both /\ ~x.lookingUp /\ x.writeBuf = 0 /\ x.addresses # 0
    BY <1>3, <1>4 DEF Socks
  <2>5. 0 <= written  BY <1>1, UserFacts
  <2> HIDE DEF x
  <2>6. x.writeBuf <= written  BY <2>4, <2>5
  <2> QED  BY <1>6, <2>1, <2>3, <2>4, <2>6, Connecting
<1>10. CASE /\ sock' = [Aborted(sock) EXCEPT !.state = "Connecting", !.lookingUp = TRUE]
            /\ kernel' = NoChannel
            /\ stack' = OtherContext(stack)
            /\ told' = "connecting"
  <2>1. Bounded(y, NoChannel, arrived, written)  BY <1>1, NewConnection
  <2>2. sock' = [y EXCEPT !.state = "Connecting", !.lookingUp = TRUE] /\ stack' = o
    BY <1>10
  <2> HIDE DEF o, y
  <2>3. sock' \in Socks  BY <1>3, <2>2 DEF Socks, States
  <2>4. /\ sock'.state = "Connecting" /\ sock'.posted = {} /\ sock'.readBuf = 0
        /\ ~sock'.hasToAdd /\ sock'.interest = Both /\ sock'.lookingUp /\ ~sock'.enabled
        /\ ~sock'.connectTimer /\ sock'.writeBuf = y.writeBuf /\ sock'.capacity = y.capacity
    BY <1>3, <1>4, <2>2 DEF Socks
  <2>5. Fits(sock', NoChannel)  BY <1>3, <1>5, <2>4 DEF Fits, NoChannel
  <2>6. Bounded(sock', NoChannel, arrived, written)
    BY <1>3, <2>1, <2>4 DEF Bounded
  <2>7. Calls(sock', o, "connecting")
    <3>1. o # <<>> => 1 \in 1..Len(o)  BY <1>6, TopOfStack
    <3>2. o # <<>> => o[1].at # "out"  BY <1>6, <3>1 DEF Context
    <3> QED  BY <1>6, <2>4, <3>2 DEF Calls, Knows, Waits
  <2> QED  BY <1>3, <1>6, <1>10, <2>2, <2>3, <2>4, <2>5, <2>6, <2>7
           DEF Knowledge, ReadsComing
<1> QED  BY <1>8, <1>9, <1>10 DEF Connect

LEMMA AbortStep ==
    ASSUME SocketInvariant, Abort  PROVE SocketInvariant'
<1>1. /\ UserRuns /\ alive' \in BOOLEAN /\ sock' = Aborted(sock) /\ kernel' = NoChannel
      /\ stack' = OtherContext(stack) /\ told' = "none"
      /\ connections' = connections /\ arrived' = arrived /\ written' = written
  BY DEF Abort
<1>2. /\ Aborted(sock) \in Socks /\ NoChannel \in Channels
      /\ Aborted(sock).state = "Unconnected" /\ Aborted(sock).posted = {}
      /\ Fits(Aborted(sock), NoChannel)
  BY <1>1, UserFacts, AbortedFits
<1>3. /\ Bounded(Aborted(sock), NoChannel, arrived, written)
      /\ Calls(Aborted(sock), OtherContext(stack), "none")
  BY <1>1, NewConnection
<1>4. /\ OtherContext(stack) \in Seq(Frames)
      /\ \A i \in 1..Len(OtherContext(stack)) : ~OtherContext(stack)[i].same
  BY <1>1, UserFacts, Restarted
<1>5. Typed'  BY <1>1, <1>2, <1>4, UserFacts DEF Typed, Knowledge
<1>6. ReadsComing(sock', kernel', stack')  BY <1>1, <1>2 DEF ReadsComing
<1>7. Deleted'  BY <1>1, <1>2, <1>4 DEF Deleted
<1> QED  BY <1>1, <1>2, <1>3, <1>5, <1>6, <1>7 DEF SocketInvariant

\* While the socket is connected no call has lost it or failed.
LEMMA ConnectedCalls ==
    ASSUME SocketInvariant, sock.state \in {"Connected", "Disconnecting"}
    PROVE  /\ told = "connected" /\ sock.enabled /\ kernel.link = "up" /\ alive
           /\ \A i \in 1..Len(stack) : stack[i].same /\ stack[i].at # "error"
           /\ ~sock.lookingUp /\ ~sock.connectTimer
  BY DEF SocketInvariant, Typed, Fits, Calls, Context, Knows, Deleted

LEMMA DisconnectStep ==
    ASSUME SocketInvariant, DisconnectFromPeer  PROVE SocketInvariant'
<1>1. /\ UserRuns /\ alive /\ sock.state = "Connected"
      /\ alive' = alive /\ connections' = connections /\ arrived' = arrived
      /\ written' = written
  BY DEF DisconnectFromPeer
<1> DEFINE i == IF sock.writeBuf = 0 THEN {} ELSE sock.interest \ {"in"}
           x == [sock EXCEPT !.state = "Disconnecting", !.disconnectTimer = TRUE,
                             !.interest = i]
<1>2. /\ sock \in Socks /\ kernel \in Channels /\ stack \in Seq(Frames)
      /\ Fits(sock, kernel) /\ Bounded(sock, kernel, arrived, written)
      /\ Nested(stack) /\ Signalled(stack) /\ Context(stack, "Connected")
      /\ stack = <<>> \/ Last(stack).at \in Slots
  BY <1>1, UserFacts
<1>3. /\ told = "connected" /\ sock.enabled /\ kernel.link = "up"
      /\ \A j \in 1..Len(stack) : stack[j].same /\ stack[j].at # "error"
      /\ ~sock.lookingUp /\ ~sock.connectTimer
  BY <1>1, ConnectedCalls
<1>4. i \in SUBSET Both  BY <1>2 DEF Socks
<1>5. \/ sock' = x /\ kernel' = Modified(sock, kernel, i) /\ stack' = stack /\ told' = told
      \/ /\ sock' = Closed(x) /\ kernel' = NoChannel
         /\ stack' = Append(AfterClosing(stack, x), Frame("disconnected", {}, told))
         /\ told' = "none"
  BY DEF DisconnectFromPeer
<1> HIDE DEF i
<1>6. x \in Socks  BY <1>2, <1>4 DEF Socks, States
<1>7. /\ x.state = "Disconnecting" /\ x.disconnectTimer /\ x.interest = i
      /\ x.enabled /\ x.open = sock.open /\ ~x.lookingUp /\ ~x.connectTimer
      /\ x.readBuf = sock.readBuf /\ x.writeBuf = sock.writeBuf
      /\ x.capacity = sock.capacity
  BY <1>2, <1>3 DEF Socks
<1> HIDE DEF x
<1>8. SUFFICES
        /\ sock' \in Socks /\ kernel' \in Channels /\ stack' \in Seq(Frames)
        /\ told' \in Knowledge
        /\ Fits(sock', kernel') /\ Bounded(sock', kernel', arrived, written)
        /\ Calls(sock', stack', told') /\ sock'.state \notin {"Connecting", "Connected"}
  BY <1>1, UserFacts DEF SocketInvariant, Typed, ReadsComing, Deleted
<1>9. CASE sock' = x /\ kernel' = Modified(sock, kernel, i) /\ stack' = stack /\ told' = told
  <2>1. /\ kernel' \in Channels /\ kernel'.link = kernel.link /\ kernel'.recvQ = kernel.recvQ
        /\ kernel'.gone = kernel.gone
    BY <1>2, <1>9 DEF Modified, Channels, Masks
  <2>2. Fits(x, kernel')  BY <1>2, <1>3, <1>7, <2>1 DEF Fits
  <2>3. Bounded(x, kernel', arrived, written)  BY <1>2, <1>7, <2>1 DEF Bounded
  <2>4. Context(stack, "Disconnecting")  BY <1>3, <1>2 DEF Context
  <2>5. Calls(x, stack, told)
    BY <1>2, <1>3, <1>7, <2>4 DEF Calls, Knows, Waits
  <2> QED  BY <1>2, <1>3, <1>6, <1>7, <1>9, <2>1, <2>2, <2>3, <2>5 DEF Knowledge
<1>10. CASE /\ sock' = Closed(x) /\ kernel' = NoChannel
            /\ stack' = Append(AfterClosing(stack, x), Frame("disconnected", {}, told))
            /\ told' = "none"
  <2>1. x.capacity = 0 \/ x.readBuf <= x.capacity  BY <1>2, <1>7 DEF Fits
  <2>2. /\ Closed(x) \in Socks /\ Closed(x).state = "Unconnected"
        /\ Closed(x).readBuf <= x.readBuf /\ Closed(x).writeBuf = 0
        /\ Fits(Closed(x), NoChannel)
    BY <1>6, <1>7, <2>1, ClosedFits
  <2>3. NoChannel \in Channels /\ NoChannel.recvQ = 0  BY <1>2, AbortedFits
  <2>4. Closed(x).readBuf \in Nat /\ x.readBuf \in Nat
    <3>1. Closed(x).readBuf \in 0..MaxArriving /\ x.readBuf \in 0..MaxArriving
      BY <1>6, <2>2 DEF Socks
    <3> QED  BY <3>1, BoundsAssumption
  <2>5. Bounded(Closed(x), NoChannel, arrived, written)
    BY <1>1, <1>2, <1>7, <2>2, <2>3, <2>4, UserFacts DEF Bounded
  <2>6. /\ Append(AfterClosing(stack, x), Frame("disconnected", {}, told)) \in Seq(Frames)
        /\ Calls(Closed(x), Append(AfterClosing(stack, x),
                                   Frame("disconnected", {}, told)), "none")
    BY <1>2, <1>3, <2>2, Ended
  <2> QED  BY <1>10, <2>2, <2>3, <2>5, <2>6 DEF Knowledge
<1> QED  BY <1>5, <1>9, <1>10

LEMMA WriteStep ==
    ASSUME SocketInvariant, Write  PROVE SocketInvariant'
<1> DEFINE p == IF sock.scheduled THEN sock.posted ELSE sock.posted \cup {"out"}
<1>1. /\ UserRuns /\ alive /\ sock.state = "Connected" /\ written < MaxWritten
      /\ written' = written + 1
      /\ sock' = [sock EXCEPT !.writeBuf = @ + 1, !.posted = p, !.scheduled = TRUE]
      /\ kernel' = kernel /\ stack' = stack /\ told' = told /\ alive' = alive
      /\ connections' = connections /\ arrived' = arrived
  BY DEF Write
<1>2. /\ sock \in Socks /\ kernel \in Channels /\ Fits(sock, kernel)
      /\ Bounded(sock, kernel, arrived, written) /\ Calls(sock, stack, told)
      /\ sock.writeBuf \in Nat /\ written \in Nat /\ written' \in 0..MaxWritten
  BY <1>1, UserFacts, BoundsAssumption DEF Calls
<1>3. p \in SUBSET Both /\ sock.posted \subseteq p  BY <1>2 DEF Socks, Both
<1>4. sock.writeBuf + 1 <= written + 1 /\ sock.writeBuf + 1 \in 0..MaxWritten
  BY <1>1, <1>2, BoundsAssumption DEF Bounded
<1> HIDE DEF p
<1>5. sock' \in Socks  BY <1>1, <1>2, <1>3, <1>4 DEF Socks
<1>6. /\ sock'.state = "Connected" /\ sock'.writeBuf = sock.writeBuf + 1 /\ sock'.posted = p
      /\ sock'.readBuf = sock.readBuf /\ sock'.capacity = sock.capacity
      /\ sock'.enabled = sock.enabled /\ sock'.open = sock.open
      /\ sock'.lookingUp = sock.lookingUp /\ sock'.connectTimer = sock.connectTimer
      /\ sock'.disconnectTimer = sock.disconnectTimer /\ sock'.interest = sock.interest
      /\ sock'.hasToAdd = sock.hasToAdd
  BY <1>1, <1>2 DEF Socks
<1>7. Fits(sock', kernel)  BY <1>1, <1>2, <1>6 DEF Fits
<1>8. Bounded(sock', kernel, arrived, written')  BY <1>1, <1>2, <1>4, <1>6 DEF Bounded
<1>9. Calls(sock', stack, told)  BY <1>1, <1>2, <1>6 DEF Calls, Waits
<1>10. ReadsComing(sock', kernel, stack)
  BY <1>1, <1>3, <1>6 DEF SocketInvariant, ReadsComing
<1>11. Typed' /\ Deleted'
  BY <1>1, <1>2, <1>5, UserFacts DEF Typed, Deleted
<1> QED  BY <1>1, <1>7, <1>8, <1>9, <1>10, <1>11 DEF SocketInvariant

\* The user takes data out of the read buffer, or gives it another capacity.
LEMMA TakeStep ==
    ASSUME SocketInvariant, UserRuns, alive,
           NEW n \in 0..sock.readBuf, NEW p \in SUBSET Both, NEW h \in BOOLEAN,
           NEW c \in Capacities,
           sock' = [sock EXCEPT !.readBuf = @ - n, !.posted = p, !.hasToAdd = h,
                                !.capacity = c],
           c = 0 \/ sock.readBuf - n <= c,
           sock.posted \subseteq p, sock.hasToAdd => h \/ "in" \in p,
           sock.state = "Connecting" => p = {} /\ ~h,
           UNCHANGED <<kernel, stack, told, alive, connections, arrived, written>>
    PROVE  SocketInvariant'
<1>1. /\ sock \in Socks /\ kernel \in Channels /\ Fits(sock, kernel)
      /\ Bounded(sock, kernel, arrived, written) /\ Calls(sock, stack, told)
      /\ sock.readBuf \in Nat /\ kernel.recvQ \in Nat /\ arrived \in Nat
  BY UserFacts DEF Calls
<1>2. sock.readBuf - n \in 0..MaxArriving /\ sock.readBuf - n <= sock.readBuf
  <2>1. sock.readBuf \in 0..MaxArriving  BY <1>1 DEF Socks
  <2> QED  BY <2>1, BoundsAssumption
<1>3. sock' \in Socks  BY <1>1, <1>2 DEF Socks
<1>4. /\ sock'.state = sock.state /\ sock'.readBuf = sock.readBuf - n /\ sock'.posted = p
      /\ sock'.hasToAdd = h /\ sock'.capacity = c /\ sock'.writeBuf = sock.writeBuf
      /\ sock'.enabled = sock.enabled /\ sock'.open = sock.open
      /\ sock'.lookingUp = sock.lookingUp /\ sock'.connectTimer = sock.connectTimer
      /\ sock'.disconnectTimer = sock.disconnectTimer /\ sock'.interest = sock.interest
  BY <1>1 DEF Socks
<1>5. sock.state = "Connecting" => sock'.readBuf = 0
  BY <1>1, <1>4 DEF Fits
<1>6. Fits(sock', kernel)  BY <1>1, <1>4, <1>5 DEF Fits
<1>7. Bounded(sock', kernel, arrived, written)
  BY <1>1, <1>2, <1>4 DEF Bounded
<1>8. Calls(sock', stack, told)  BY <1>1, <1>4 DEF Calls, Waits
<1>9. ReadsComing(sock', kernel, stack)
  BY <1>4 DEF SocketInvariant, ReadsComing
<1>10. Typed' /\ Deleted'
  BY <1>3, UserFacts DEF Typed, Deleted
<1> QED  BY <1>6, <1>7, <1>8, <1>9, <1>10 DEF SocketInvariant

LEMMA ReadStep ==
    ASSUME SocketInvariant, Read  PROVE SocketInvariant'
<1> DEFINE p == IF sock.hasToAdd THEN sock.posted \cup {"in"} ELSE sock.posted
<1>1. PICK n \in 0..sock.readBuf :
        sock' = [sock EXCEPT !.readBuf = @ - n, !.posted = p, !.hasToAdd = FALSE]
  BY DEF Read
<1>2. /\ UserRuns /\ alive
      /\ UNCHANGED <<kernel, stack, told, alive, connections, arrived, written>>
  BY DEF Read
<1>3. sock \in Socks /\ Fits(sock, kernel) /\ sock.readBuf \in Nat  BY <1>2, UserFacts
<1>4. p \in SUBSET Both /\ sock.posted \subseteq p /\ (sock.hasToAdd => "in" \in p)
  BY <1>3 DEF Socks, Both
<1>5. sock.state = "Connecting" => p = {}  BY <1>3 DEF Fits
<1> HIDE DEF p
<1>6. PICK c \in Capacities : c = sock.capacity  BY <1>3 DEF Socks
<1>7. sock' = [sock EXCEPT !.readBuf = @ - n, !.posted = p, !.hasToAdd = FALSE,
                           !.capacity = c]
  BY <1>1, <1>3, <1>6 DEF Socks
<1>8. c \in Nat  BY CapacitiesAssumption
<1>9. c = 0 \/ sock.readBuf - n <= c  BY <1>3, <1>6, <1>8 DEF Fits
<1> QED  BY <1>2, <1>4, <1>5, <1>7, <1>9, TakeStep

LEMMA SkipStep ==
    ASSUME SocketInvariant, Skip  PROVE SocketInvariant'
<1> DEFINE p == IF Full(sock) THEN sock.posted \cup {"in"} ELSE sock.posted
<1>1. PICK n \in 1..sock.readBuf : sock' = [sock EXCEPT !.readBuf = @ - n, !.posted = p]
  BY DEF Skip
<1>2. /\ UserRuns /\ alive
      /\ UNCHANGED <<kernel, stack, told, alive, connections, arrived, written>>
  BY DEF Skip
<1>3. sock \in Socks /\ Fits(sock, kernel) /\ sock.readBuf \in Nat  BY <1>2, UserFacts
<1>4. p \in SUBSET Both /\ sock.posted \subseteq p  BY <1>3 DEF Socks, Both
<1>5. sock.state # "Connecting"  BY <1>3 DEF Fits
<1> HIDE DEF p
<1>6. PICK c \in Capacities : c = sock.capacity  BY <1>3 DEF Socks
<1>7. PICK h \in BOOLEAN : h = sock.hasToAdd  BY <1>3 DEF Socks
<1>8. sock' = [sock EXCEPT !.readBuf = @ - n, !.posted = p, !.hasToAdd = h,
                           !.capacity = c]
  BY <1>1, <1>3, <1>6, <1>7 DEF Socks
<1>9. c \in Nat  BY CapacitiesAssumption
<1>10. c = 0 \/ sock.readBuf - n <= c  BY <1>3, <1>6, <1>9 DEF Fits
<1>11. n \in 0..sock.readBuf  BY <1>3
<1> QED  BY <1>2, <1>4, <1>5, <1>7, <1>8, <1>10, <1>11, TakeStep

LEMMA CapacityStep ==
    ASSUME SocketInvariant, SetReadBufferCapacity  PROVE SocketInvariant'
<1>1. PICK c \in Capacities :
        (c = 0 \/ c >= sock.readBuf) /\ sock' = [sock EXCEPT !.capacity = c]
  BY DEF SetReadBufferCapacity
<1>2. /\ UserRuns /\ alive
      /\ UNCHANGED <<kernel, stack, told, alive, connections, arrived, written>>
  BY DEF SetReadBufferCapacity
<1>3. sock \in Socks /\ Fits(sock, kernel) /\ sock.readBuf \in Nat  BY <1>2, UserFacts
<1>4. PICK h \in BOOLEAN : h = sock.hasToAdd  BY <1>3 DEF Socks
<1>5. PICK p \in SUBSET Both : p = sock.posted  BY <1>3 DEF Socks
<1>6. sock' = [sock EXCEPT !.readBuf = @ - 0, !.posted = p, !.hasToAdd = h,
                           !.capacity = c]
  <2>1. sock.readBuf - 0 = sock.readBuf  BY <1>3
  <2>2. sock' = [sock EXCEPT !.readBuf = sock.readBuf, !.posted = p, !.hasToAdd = h,
                             !.capacity = c]
    BY <1>1, <1>3, <1>4, <1>5 DEF Socks
  <2> QED  BY <2>1, <2>2
<1>7. c \in Nat  BY CapacitiesAssumption
<1>8. c = 0 \/ sock.readBuf - 0 <= c  BY <1>1, <1>3, <1>7
<1>9. 0 \in 0..sock.readBuf  BY <1>3
<1>10. sock.state = "Connecting" => p = {} /\ ~h  BY <1>3, <1>4, <1>5 DEF Fits
<1> QED  BY <1>2, <1>4, <1>5, <1>6, <1>8, <1>9, <1>10, TakeStep

-----------------------------------------------------------------------------
(* Calls go on or return. *)

\* The only call, one of onEvent, is at f.
One(x, f, u) ==
    /\ f.at \notin {"error", "disconnected"}
    /\ ~f.same => x.state \in {"Unconnected", "Connecting"}
    /\ f.at \in {"out", "in"} => f.same
    /\ f.same /\ x.state = "Connecting" => f.at = "out" /\ "out" \in f.mask /\ x.enabled
    /\ f.at = "connected" => f.was = "connecting"
    /\ f.at \in {"receivedData", "draining"} => f.was = "connected"
    /\ x.state = "Unconnected" => u = "none"
    /\ x.state = "Connecting" =>
        /\ u = "connecting"
        /\ x.lookingUp \/ (x.connectTimer /\ x.enabled) \/ BoundSocketFails
    /\ x.state \in {"Connected", "Disconnecting"} => u = "connected"
    /\ x.state = "Disconnecting" =>
        \/ x.disconnectTimer
        \/ /\ "hup" \in f.mask
           /\ f.at \in {"in", "receivedData", "sent", "sentData", "drain", "draining"}

LEMMA OneCall ==
    ASSUME NEW f \in Frames, NEW x, NEW u, One(x, f, u)
    PROVE  /\ <<f>> \in Seq(Frames) /\ Len(<<f>>) = 1 /\ <<f>>[1] = f /\ Calls(x, <<f>>, u)
<1> DEFINE s == <<f>>
<1>1. s \in Seq(Frames) /\ Len(s) = 1 /\ s[1] = f /\ s # <<>>  OBVIOUS
<1>2. Last(s) = f  BY <1>1 DEF Last
<1> HIDE DEF s
<1>3. ~Failing(s)  BY <1>2 DEF Failing, One
<1>4. Nested(s) /\ Context(s, x.state) /\ Signalled(s)
  BY <1>1 DEF Nested, Context, Signalled, One
<1>5. Knows(u, s, x.state)  BY <1>3 DEF Knows, One
<1>6. Waits(x, s)  BY <1>1 DEF Waits, Closing, One
<1> USE DEF s
<1> QED  BY <1>1, <1>4, <1>5, <1>6 DEF Calls

LEMMA Resumed ==
    ASSUME SocketInvariant, stack # <<>>, Top.at \notin {"error", "disconnected"}
    PROVE  /\ Top \in Frames /\ Caller = <<>> /\ One(sock, Top, told)
           /\ \A f : Goes(f) <=> stack' = <<f>>
           /\ Reading(stack) <=>
                  Top.same /\ "in" \in Top.mask /\ Top.at \in {"out", "connected", "in"}
           /\ ~Failing(stack)
           /\ ~alive => sock.state = "Unconnected" /\ sock.posted = {} /\ ~Top.same
           /\ Len(stack) = 1
<1>1. stack \in Seq(Frames) /\ Calls(sock, stack, told)
  BY DEF SocketInvariant, Typed
<1>2. /\ Caller = <<>> /\ Len(stack) = 1 /\ Top = stack[1] /\ Top \in Frames
      /\ \A f : Append(Caller, f) = <<f>>
  BY <1>1, Alone DEF Calls, Top, Caller
<1>3. ~Failing(stack)  BY DEF Failing, Top
<1>4. One(sock, Top, told)
  <2>1. /\ ~Top.same => sock.state \in {"Unconnected", "Connecting"}
        /\ Top.at \in {"out", "in"} => Top.same
        /\ Top.same /\ sock.state = "Connecting" => Top.at = "out" /\ "out" \in Top.mask
    BY <1>1, <1>2 DEF Calls, Context
  <2>2. /\ Top.at = "connected" => Top.was = "connecting"
        /\ Top.at \in {"receivedData", "draining"} => Top.was = "connected"
    BY <1>1, <1>2 DEF Calls, Signalled
  <2>3. Knows(told, stack, sock.state) /\ Waits(sock, stack)  BY <1>1 DEF Calls
  <2> QED  BY <1>2, <1>3, <2>1, <2>2, <2>3 DEF One, Knows, Waits, Closing
<1>5. Reading(stack) <=>
        Top.same /\ "in" \in Top.mask /\ Top.at \in {"out", "connected", "in"}
  BY <1>2 DEF Reading
<1>6. ~alive => sock.state = "Unconnected" /\ sock.posted = {} /\ ~Top.same
  BY <1>2 DEF SocketInvariant, Deleted
<1> QED  BY <1>2, <1>3, <1>4, <1>5, <1>6 DEF Goes

\* The running call goes on at f.
LEMMA CallGoesOn ==
    ASSUME SocketInvariant, stack # <<>>, Top.at \notin {"error", "disconnected"},
           NEW f \in Frames, One(sock, f, told), Goes(f),
           f.same = Top.same,
           Top.same /\ "in" \in Top.mask /\ Top.at \in {"out", "connected", "in"} =>
               "in" \in f.mask /\ f.at \in {"out", "connected", "in"},
           UNCHANGED <<sock, kernel, told, alive, connections, arrived, written>>
    PROVE  SocketInvariant'
<1>1. stack' = <<f>>  BY Resumed
<1>2. /\ stack' \in Seq(Frames) /\ Len(stack') = 1 /\ stack'[1] = f
      /\ Calls(sock, stack', told)
  BY <1>1, OneCall
<1>3. ReadsComing(sock, kernel, stack')
  BY <1>1, <1>2, Resumed DEF SocketInvariant, ReadsComing, Reading
<1>4. Deleted'  BY <1>2, Resumed DEF Deleted
<1>5. Typed'  BY <1>2 DEF SocketInvariant, Typed
<1> QED  BY <1>2, <1>3, <1>4, <1>5 DEF SocketInvariant

LEMMA Pops ==
    ASSUME SocketInvariant, stack # <<>>, ~Failing(stack),
           sock.state = "Disconnecting" => sock.disconnectTimer \/ Len(stack) > 1,
           Len(stack) = 1 => ~Reading(stack),
           stack' = Caller,
           UNCHANGED <<sock, kernel, told, alive, connections, arrived, written>>
    PROVE  SocketInvariant'
<1>1. stack \in Seq(Frames) /\ Calls(sock, stack, told)
  BY DEF SocketInvariant, Typed
<1>2. stack' \in Seq(Frames) /\ Calls(sock, stack', told)
  BY <1>1, Returned DEF Caller
<1>3. /\ Len(stack') = Len(stack) - 1 /\ Len(stack) \in Nat \ {0}
      /\ \A i \in 1..(Len(stack) - 1) : stack'[i] = stack[i]
  BY <1>1, TopOfStack DEF Caller
<1>4. ReadsComing(sock, kernel, stack')
  <2>1. CASE Len(stack) = 1
    BY <2>1 DEF SocketInvariant, ReadsComing
  <2>2. CASE Len(stack) > 1
    <3>1. stack' # <<>> /\ stack'[1] = stack[1]  BY <1>3, <2>2
    <3> QED  BY <3>1 DEF SocketInvariant, ReadsComing, Reading
  <2> QED  BY <1>3, <2>1, <2>2
<1>5. Deleted'  BY <1>3 DEF SocketInvariant, Deleted
<1>6. Typed'  BY <1>2 DEF SocketInvariant, Typed
<1> QED  BY <1>2, <1>4, <1>5, <1>6 DEF SocketInvariant

\* After sentData() the connection is closed, or the call returns.
LEMMA FinishesStep ==
    ASSUME SocketInvariant, stack # <<>>, Top.at \in {"sent", "sentData"}, Finishes,
           UNCHANGED <<sock, kernel, told, alive, connections, arrived, written>>
    PROVE  SocketInvariant'
<1>0. Top.at \notin {"error", "disconnected"}  OBVIOUS
<1>1. Top \in Frames /\ One(sock, Top, told) /\ Len(stack) = 1
  BY <1>0, Resumed
<1>2. CASE Top.same /\ "hup" \in Top.mask
  <2> DEFINE f == [Top EXCEPT !.at = "drain"]
  <2>1. Goes(f)  BY <1>2 DEF Finishes
  <2>2. f \in Frames  BY <1>1 DEF Frames
  <2>3. f.at = "drain" /\ f.same = Top.same /\ f.mask = Top.mask /\ f.was = Top.was
    BY <1>1 DEF Frames
  <2> HIDE DEF f
  <2>4. One(sock, f, told)  BY <1>1, <1>2, <2>3 DEF One
  <2> QED  BY <1>0, <1>2, <2>1, <2>2, <2>3, <2>4, CallGoesOn
<1>3. CASE ~(Top.same /\ "hup" \in Top.mask)
  <2>1. stack' = Caller  BY <1>3 DEF Finishes
  <2>2. ~Failing(stack)  BY DEF Failing, Top
  <2>3. sock.state = "Disconnecting" => sock.disconnectTimer
    BY <1>1, <1>3 DEF One
  <2>4. ~Reading(stack)  BY <1>0, Resumed
  <2> QED  BY <2>1, <2>2, <2>3, <2>4, Pops
<1> QED  BY <1>2, <1>3

LEMMA SlotReturnsStep ==
    ASSUME SocketInvariant, SlotReturns  PROVE SocketInvariant'
<1>0. /\ stack # <<>> /\ UNCHANGED <<alive, connections, arrived, written>>
      /\ stack \in Seq(Frames) /\ Calls(sock, stack, told) /\ sock \in Socks
      /\ kernel \in Channels
  BY DEF SlotReturns, SocketInvariant, Typed
<1>1. /\ Top = stack[Len(stack)] /\ Top \in Frames /\ Len(stack) \in Nat \ {0}
  BY <1>0, TopOfStack DEF Top
<1>2. CASE Top.at = "disconnected" \/ (Top.at = "connected" /\ ~Top.same)
  <2>1. stack' = Caller /\ UNCHANGED <<sock, kernel, told>>  BY <1>2 DEF SlotReturns
  <2>2. ~Failing(stack)  BY <1>2 DEF Failing, Top
  <2>3. sock.state = "Disconnecting" => sock.disconnectTimer \/ Len(stack) > 1
    BY <1>0, <1>1, <1>2 DEF Calls, Context, Waits, Closing
  <2>4. Len(stack) = 1 => ~Reading(stack)
    BY <1>1, <1>2 DEF Reading
  <2> QED  BY <1>0, <2>1, <2>2, <2>3, <2>4, Pops
<1>3. CASE Top.at = "error" /\ Top.same
  <2>1. /\ sock' = Aborted(sock) /\ kernel' = NoChannel
        /\ stack' = OtherContext(Caller) /\ told' = told
    BY <1>3 DEF SlotReturns
  <2>2. sock.state \in {"Unconnected", "Connecting"}
    BY <1>0, <1>1, <1>3 DEF Calls, Context
  <2>3. told = "none"
    BY <1>0, <1>3, <2>2 DEF Calls, Knows, Failing, Top
  <2>4. /\ Caller \in Seq(Frames) /\ Len(Caller) = Len(stack) - 1
        /\ \A i \in 1..(Len(stack) - 1) : Caller[i] = stack[i]
    BY <1>0, TopOfStack DEF Caller
  <2>5. Nested(Caller) /\ Signalled(Caller)
    BY <1>0, <1>1, <2>4 DEF Calls, Nested, Signalled
  <2>6. Caller = <<>> \/ Last(Caller).at \in Slots
    <3>1. Caller # <<>> => Last(Caller) = Caller[Len(Caller)] /\ Len(Caller) \in Nat \ {0}
      BY <2>4, TopOfStack
    <3> QED  BY <1>0, <1>1, <2>4, <3>1 DEF Calls, Nested
  <2>7. /\ stack' \in Seq(Frames) /\ Nested(stack') /\ Signalled(stack')
        /\ Context(stack', "Unconnected")
        /\ \A i \in 1..Len(stack') : ~stack'[i].same
    BY <2>1, <2>4, <2>5, <2>6, Restarted
  <2>8. /\ sock' \in Socks /\ kernel' \in Channels /\ sock'.state = "Unconnected"
        /\ sock'.posted = {} /\ sock'.readBuf = 0 /\ sock'.writeBuf = 0 /\ kernel'.recvQ = 0
        /\ Fits(sock', kernel')
    BY <1>0, <2>1, AbortedFits
  <2>9. Calls(sock', stack', told')
    BY <2>1, <2>3, <2>7, <2>8 DEF Calls, Knows, Waits
  <2>10. Bounded(sock', kernel', arrived, written)
    <3>1. arrived \in Nat /\ written \in Nat
      BY BoundsAssumption DEF SocketInvariant, Typed
    <3> QED  BY <2>8, <3>1 DEF Bounded
  <2>11. ReadsComing(sock', kernel', stack')  BY <2>8 DEF ReadsComing
  <2>12. Deleted'  BY <2>7, <2>8 DEF Deleted
  <2>13. Typed'
    BY <1>0, <2>1, <2>3, <2>7, <2>8 DEF SocketInvariant, Typed, Knowledge
  <2> QED  BY <1>0, <2>8, <2>9, <2>10, <2>11, <2>12, <2>13 DEF SocketInvariant
<1>4. CASE Top.at = "error" /\ ~Top.same
  <2>1. stack' = Caller /\ UNCHANGED <<sock, kernel, told>>  BY <1>4 DEF SlotReturns
  <2>2. ~Failing(stack)  BY <1>4 DEF Failing, Top
  <2>3. sock.state \in {"Unconnected", "Connecting"}
    BY <1>0, <1>1, <1>4 DEF Calls, Context
  <2>4. Len(stack) = 1 => ~Reading(stack)  BY <1>1, <1>4 DEF Reading
  <2> QED  BY <1>0, <2>1, <2>2, <2>3, <2>4, Pops
<1>5. CASE Top.at = "sentData"
  <2>1. Finishes /\ UNCHANGED <<sock, kernel, told>>  BY <1>5 DEF SlotReturns
  <2> QED  BY <1>0, <1>5, <2>1, FinishesStep
<1>6. CASE /\ Top.at \notin {"disconnected", "error", "sentData"}
           /\ ~(Top.at = "connected" /\ ~Top.same)
  <2>1. /\ Top.at \in DOMAIN After /\ Goes([Top EXCEPT !.at = After[Top.at]])
        /\ UNCHANGED <<sock, kernel, told>>
    BY <1>6 DEF SlotReturns
  <2>2. \/ Top.at = "connected" /\ After[Top.at] = "in"
        \/ Top.at = "receivedData" /\ After[Top.at] = "sent"
        \/ Top.at = "draining" /\ After[Top.at] = "drain"
    BY <2>1 DEF After
  <2> DEFINE a == After[Top.at]
             f == [Top EXCEPT !.at = a]
  <2>3. a \in {"in", "sent", "drain"}  BY <2>2
  <2>4. Goes(f)  BY <2>1
  <2> HIDE DEF a
  <2>5. f \in Frames  BY <1>1, <2>3 DEF Frames
  <2>6. f.at = a /\ f.same = Top.same /\ f.mask = Top.mask /\ f.was = Top.was
    BY <1>1 DEF Frames
  <2> HIDE DEF f
  <2>7. One(sock, Top, told)  BY <1>0, <1>6, Resumed
  <2>8. One(sock, f, told)
    BY <1>6, <2>2, <2>6, <2>7 DEF One, a
  <2>9. Top.at = "connected" => f.at = "in"  BY <2>2, <2>6 DEF a
  <2>10. Top.at \notin {"out", "in"}  BY <2>2
  <2> QED  BY <1>0, <1>6, <2>1, <2>4, <2>5, <2>6, <2>8, <2>9, <2>10, CallGoesOn
<1> QED  BY <1>2, <1>3, <1>4, <1>5, <1>6

-----------------------------------------------------------------------------
(* The event loop. *)

LEMMA Facts ==
    ASSUME SocketInvariant
    PROVE  /\ sock \in Socks /\ kernel \in Channels /\ stack \in Seq(Frames)
           /\ told \in Knowledge /\ alive \in BOOLEAN
           /\ arrived \in 0..MaxArriving /\ arrived \in Nat /\ written \in Nat
           /\ Fits(sock, kernel) /\ Bounded(sock, kernel, arrived, written)
           /\ Calls(sock, stack, told)
           /\ sock.readBuf \in Nat /\ sock.writeBuf \in Nat /\ kernel.recvQ \in Nat
           /\ MaxArriving \in Nat /\ MaxWritten \in Nat
<1>1. /\ sock \in Socks /\ kernel \in Channels /\ stack \in Seq(Frames)
      /\ told \in Knowledge /\ alive \in BOOLEAN
      /\ arrived \in 0..MaxArriving /\ written \in 0..MaxWritten
      /\ Fits(sock, kernel) /\ Bounded(sock, kernel, arrived, written)
      /\ Calls(sock, stack, told)
  BY DEF SocketInvariant, Typed
<1>2. sock.readBuf \in 0..MaxArriving /\ kernel.recvQ \in 0..MaxArriving
  BY <1>1 DEF Socks, Channels
<1>3. sock.writeBuf \in 0..MaxWritten  BY <1>1 DEF Socks
<1>4. MaxArriving \in Nat /\ MaxWritten \in Nat  BY BoundsAssumption
<1>5. /\ arrived \in Nat /\ written \in Nat
      /\ sock.readBuf \in Nat /\ sock.writeBuf \in Nat /\ kernel.recvQ \in Nat
  BY <1>1, <1>2, <1>3, <1>4
<1> QED  BY <1>1, <1>4, <1>5

\* Nobody is called: what the user knows is the socket's state, and a timer or a lookup
\* runs for what it waits for.
LEMMA Idle ==
    ASSUME SocketInvariant, stack = <<>>
    PROVE  /\ sock.state = "Unconnected" => told = "none"
           /\ sock.state = "Connecting" =>
                /\ told = "connecting"
                /\ sock.lookingUp \/ (sock.connectTimer /\ sock.enabled) \/ BoundSocketFails
           /\ sock.state \in {"Connected", "Disconnecting"} => told = "connected"
           /\ sock.state = "Disconnecting" => sock.disconnectTimer
           /\ ~alive => sock.state = "Unconnected" /\ sock.posted = {}
  BY DEF SocketInvariant, Calls, Knows, Waits, Failing, Closing, Deleted

LEMMA EpollWaitStep ==
    ASSUME SocketInvariant, EpollWait  PROVE SocketInvariant'
<1> DEFINE r == Ready(kernel, sock.interest)
<1>1. /\ stack = <<>> /\ sock.enabled /\ kernel.fetched = {}
      /\ kernel' = [kernel EXCEPT !.edge = FALSE, !.fetched = r]
      /\ UNCHANGED <<sock, stack, told, alive, connections, arrived, written>>
  BY DEF EpollWait
<1>2. r \in Masks
  <2>1. sock.interest \in SUBSET Both  BY Facts DEF Socks
  <2> QED  BY <2>1 DEF Ready, Masks, Both
<1>3. sock.state = "Connecting" /\ r # {} => "out" \in r
  <2>1. ASSUME sock.state = "Connecting", kernel.link = "pending" PROVE r = {}
    <3>1. kernel.recvQ = 0 /\ ~kernel.gone  BY <2>1, Facts DEF Fits
    <3> QED  BY <2>1, <3>1 DEF Ready
  <2>2. ASSUME sock.state = "Connecting", kernel.link # "pending" PROVE "out" \in r
    <3>1. sock.interest = Both /\ kernel.space = "free"  BY <2>2, Facts DEF Fits
    <3> QED  BY <2>2, <3>1 DEF Ready, Both
  <2> QED  BY <2>1, <2>2
<1>4. sock.state \in {"Connecting", "Connected"} /\ kernel.recvQ > 0 => "in" \in r
  <2> SUFFICES ASSUME sock.state \in {"Connecting", "Connected"}, kernel.recvQ > 0 PROVE "in" \in r
    OBVIOUS
  <2>1. sock.interest = Both  BY Facts DEF Fits
  <2> QED  BY <2>1 DEF Ready, Both
<1> HIDE DEF r
<1>5. kernel' \in Channels  BY <1>1, <1>2, Facts DEF Channels
<1>6. /\ kernel'.link = kernel.link /\ kernel'.recvQ = kernel.recvQ
      /\ kernel'.gone = kernel.gone /\ kernel'.space = kernel.space /\ kernel'.fetched = r
  BY <1>1, Facts DEF Channels
<1>7. Fits(sock, kernel')  BY <1>1, <1>3, <1>6, Facts DEF Fits
<1>8. Bounded(sock, kernel', arrived, written)  BY <1>6, Facts DEF Bounded
<1>9. ReadsComing(sock, kernel', stack)  BY <1>4, <1>6 DEF ReadsComing
<1> QED  BY <1>1, <1>5, <1>7, <1>8, <1>9 DEF SocketInvariant, Typed, Deleted

\* onEvent is called with mask m.
LEMMA EventBegins ==
    ASSUME SocketInvariant, stack = <<>>, NEW m \in FrameMasks,
           stack' = <<Frame("out", m, told)>>, alive,
           sock.state = "Connecting" => "out" \in m /\ sock.enabled
    PROVE  /\ stack' \in Seq(Frames) /\ Len(stack') = 1 /\ stack'[1].at = "out"
           /\ stack'[1].mask = m /\ stack'[1].same /\ Calls(sock, stack', told)
<1> DEFINE f == Frame("out", m, told)
<1>1. /\ f \in Frames /\ f.at = "out" /\ f.mask = m /\ f.same
  BY Facts DEF Frame, Frames, Slots
<1>2. stack' = <<f>>  OBVIOUS
<1> HIDE DEF f
<1>3. One(sock, f, told)  BY <1>1, Idle DEF One
<1> QED  BY <1>1, <1>2, <1>3, OneCall

LEMMA ProcessFetchedStep ==
    ASSUME SocketInvariant, ProcessFetched  PROVE SocketInvariant'
<1>1. /\ stack = <<>> /\ kernel.fetched # {}
      /\ kernel' = [kernel EXCEPT !.fetched = {}]
      /\ stack' = <<Frame("out", kernel.fetched, told)>>
      /\ UNCHANGED <<sock, told, alive, connections, arrived, written>>
  BY DEF ProcessFetched
<1>2. kernel.fetched \in FrameMasks  BY Facts DEF Channels, Masks, FrameMasks
<1>3. sock.enabled /\ (sock.state = "Connecting" => "out" \in kernel.fetched)
  BY <1>1, Facts DEF Fits
<1>4. alive  BY <1>1, <1>3, Idle, Facts DEF Fits
<1>5. /\ stack' \in Seq(Frames) /\ Len(stack') = 1 /\ stack'[1].at = "out"
      /\ stack'[1].same /\ stack'[1].mask = kernel.fetched /\ Calls(sock, stack', told)
  BY <1>1, <1>2, <1>3, <1>4, EventBegins
<1>6. /\ kernel' \in Channels
      /\ kernel'.link = kernel.link /\ kernel'.recvQ = kernel.recvQ
      /\ kernel'.gone = kernel.gone /\ kernel'.space = kernel.space
      /\ kernel'.fetched = {} /\ kernel'.edge = kernel.edge
  BY <1>1, Facts DEF Channels, Masks
<1>7. Fits(sock, kernel')  BY <1>3, <1>6, Facts DEF Fits
<1>8. Bounded(sock, kernel', arrived, written)  BY <1>6, Facts DEF Bounded
<1>9. ReadsComing(sock, kernel', stack')
  <2>1. "in" \in kernel.fetched => Reading(stack')
    BY <1>1, <1>5 DEF Reading
  <2>2. ~Reading(stack) /\ ~Failing(stack)  BY <1>1 DEF Reading, Failing
  <2> QED  BY <1>6, <2>1, <2>2 DEF SocketInvariant, ReadsComing
<1>10. Typed' /\ Deleted'
  BY <1>1, <1>4, <1>5, <1>6 DEF SocketInvariant, Typed, Deleted
<1> QED  BY <1>1, <1>5, <1>7, <1>8, <1>9, <1>10 DEF SocketInvariant

LEMMA ProcessPostedStep ==
    ASSUME SocketInvariant, ProcessPosted  PROVE SocketInvariant'
<1>1. /\ stack = <<>> /\ sock.posted # {}
      /\ sock' = [sock EXCEPT !.posted = {}]
      /\ stack' = <<Frame("out", sock.posted, told)>>
      /\ UNCHANGED <<kernel, told, alive, connections, arrived, written>>
  BY DEF ProcessPosted
<1>2. sock.posted \in FrameMasks  BY Facts DEF Socks, FrameMasks, Both
<1>3. sock.state # "Connecting"  BY <1>1, Facts DEF Fits
<1>4. alive  BY <1>1, Idle, Facts
<1>5. /\ stack' \in Seq(Frames) /\ Len(stack') = 1 /\ stack'[1].at = "out"
      /\ stack'[1].same /\ stack'[1].mask = sock.posted /\ Calls(sock, stack', told)
  BY <1>1, <1>2, <1>3, <1>4, EventBegins
<1>6. /\ sock' \in Socks /\ sock'.state = sock.state /\ sock'.posted = {}
      /\ sock'.readBuf = sock.readBuf /\ sock'.writeBuf = sock.writeBuf
      /\ sock'.capacity = sock.capacity /\ sock'.hasToAdd = sock.hasToAdd
      /\ sock'.enabled = sock.enabled /\ sock'.open = sock.open
      /\ sock'.lookingUp = sock.lookingUp /\ sock'.connectTimer = sock.connectTimer
      /\ sock'.disconnectTimer = sock.disconnectTimer /\ sock'.interest = sock.interest
  BY <1>1, Facts DEF Socks
<1>7. Fits(sock', kernel)  BY <1>6, Facts DEF Fits
<1>8. Bounded(sock', kernel, arrived, written)  BY <1>6, Facts DEF Bounded
<1>9. ReadsComing(sock', kernel, stack')
  <2>1. "in" \in sock.posted => Reading(stack')
    BY <1>1, <1>5 DEF Reading
  <2>2. ~Reading(stack) /\ ~Failing(stack)  BY <1>1 DEF Reading, Failing
  <2> QED  BY <1>6, <2>1, <2>2 DEF SocketInvariant, ReadsComing
<1>10. Calls(sock', stack', told)  BY <1>5, <1>6 DEF Calls, Waits
<1>11. Typed' /\ Deleted'
  BY <1>1, <1>4, <1>5, <1>6 DEF SocketInvariant, Typed, Deleted
<1> QED  BY <1>1, <1>7, <1>8, <1>9, <1>10, <1>11 DEF SocketInvariant

-----------------------------------------------------------------------------
(* onEvent. *)

\* onEvent goes on at f, after it has changed the socket or its channel.
LEMMA EventGoesOn ==
    ASSUME SocketInvariant, stack # <<>>, Top.at \notin {"error", "disconnected"}, alive,
           NEW f \in Frames, Goes(f),
           sock' \in Socks, kernel' \in Channels, told' \in Knowledge,
           Fits(sock', kernel'), Bounded(sock', kernel', arrived, written),
           One(sock', f, told'),
           sock'.state \in {"Connected", "Connecting"} /\ kernel'.recvQ > 0 =>
               \/ "in" \in sock'.posted \cup kernel'.fetched
               \/ kernel'.edge \/ sock'.hasToAdd
               \/ f.same /\ "in" \in f.mask /\ f.at \in {"out", "connected", "in"},
           UNCHANGED <<alive, connections, arrived, written>>
    PROVE  SocketInvariant'
<1>1. stack' = <<f>>  BY Resumed
<1>2. /\ stack' \in Seq(Frames) /\ Len(stack') = 1 /\ stack'[1] = f
      /\ Calls(sock', stack', told')
  BY <1>1, OneCall
<1>3. ReadsComing(sock', kernel', stack')
  BY <1>1, <1>2 DEF ReadsComing, Reading
<1>4. Deleted'  BY DEF Deleted
<1>5. Typed'  BY <1>2 DEF SocketInvariant, Typed
<1> QED  BY <1>2, <1>3, <1>4, <1>5 DEF SocketInvariant

\* What sending n bytes does to the socket.
LEMMA Sends ==
    ASSUME SocketInvariant, NEW n \in Sendable(sock.writeBuf)
    PROVE  /\ Sent(n) \in Socks /\ n \in Nat
           /\ Sent(n).writeBuf <= sock.writeBuf /\ Sent(n).writeBuf \in Nat
           /\ Sent(n).state = sock.state /\ Sent(n).posted = sock.posted
           /\ Sent(n).readBuf = sock.readBuf /\ Sent(n).capacity = sock.capacity
           /\ Sent(n).hasToAdd = sock.hasToAdd /\ Sent(n).enabled = sock.enabled
           /\ Sent(n).open = sock.open /\ Sent(n).lookingUp = sock.lookingUp
           /\ Sent(n).connectTimer = sock.connectTimer /\ Sent(n).interest = sock.interest
           /\ Sent(n).disconnectTimer = sock.disconnectTimer
<1>1. sock \in Socks /\ sock.writeBuf \in Nat /\ MaxWritten \in Nat  BY Facts
<1>2. sock.writeBuf \in 0..MaxWritten  BY <1>1 DEF Socks
<1>3. n \in 0..sock.writeBuf  BY <1>1 DEF Sendable
<1>4. /\ sock.writeBuf - n \in 0..MaxWritten /\ sock.writeBuf - n <= sock.writeBuf
      /\ sock.writeBuf - n \in Nat /\ n \in Nat
  BY <1>1, <1>2, <1>3
<1> HIDE <1>3
<1> QED  BY <1>1, <1>4 DEF Sent, Socks

LEMMA TakesSpace ==
    ASSUME NEW k \in Channels, NEW size, NEW n, NEW r \in Takes(k, size, n)
    PROVE  /\ r \in Channels /\ r.link = k.link /\ r.recvQ = k.recvQ /\ r.gone = k.gone
           /\ r.edge = k.edge /\ r.fetched = k.fetched
<1>1. r \in {k, [k EXCEPT !.space = "awaited"], [k EXCEPT !.space = "full"]}
  BY DEF Takes
<1> QED  BY <1>1 DEF Channels

LEMMA OutFacts ==
    ASSUME SocketInvariant, Running("out")
    PROVE  /\ stack # <<>> /\ Top.at = "out" /\ Top.at \notin {"error", "disconnected"}
           /\ Top \in Frames /\ Caller = <<>> /\ One(sock, Top, told) /\ Top.same /\ alive
           /\ Reading(stack) <=> "in" \in Top.mask
           /\ ~Failing(stack)
<1>1. stack # <<>> /\ Top.at = "out" /\ Top.at \notin {"error", "disconnected"}
  BY DEF Running
<1>2. Top.same  BY <1>1, Resumed DEF One
<1>3. alive  BY <1>1, <1>2, Resumed, Facts
<1> QED  BY <1>1, <1>2, <1>3, Resumed

LEMMA OutWhileConnectedStep ==
    ASSUME SocketInvariant, Running("out"), OutWhileConnected,
           UNCHANGED <<alive, connections, arrived, written>>
    PROVE  SocketInvariant'
<1>1. PICK n \in Sendable(sock.writeBuf) :
        /\ sock' = Sent(n)
        /\ kernel' \in Takes(kernel, sock.writeBuf, n)
        /\ Goes([Top EXCEPT !.at = "in", !.sent = n > 0])
  BY DEF OutWhileConnected
<1>2. sock.state = "Connected" /\ told' = told  BY DEF OutWhileConnected
<1>3. /\ sock' \in Socks /\ sock'.writeBuf <= sock.writeBuf /\ sock'.writeBuf \in Nat
      /\ sock'.state = sock.state /\ sock'.posted = sock.posted
      /\ sock'.readBuf = sock.readBuf /\ sock'.capacity = sock.capacity
      /\ sock'.hasToAdd = sock.hasToAdd /\ sock'.enabled = sock.enabled
      /\ sock'.open = sock.open /\ sock'.lookingUp = sock.lookingUp
      /\ sock'.connectTimer = sock.connectTimer /\ sock'.interest = sock.interest
      /\ sock'.disconnectTimer = sock.disconnectTimer
  BY <1>1, Sends
<1>4. /\ kernel' \in Channels /\ kernel'.link = kernel.link /\ kernel'.recvQ = kernel.recvQ
      /\ kernel'.gone = kernel.gone /\ kernel'.edge = kernel.edge
      /\ kernel'.fetched = kernel.fetched
  BY <1>1, Facts, TakesSpace
<1>5. Fits(sock', kernel')  BY <1>2, <1>3, <1>4, Facts DEF Fits
<1>6. Bounded(sock', kernel', arrived, written)
  BY <1>3, <1>4, Facts DEF Bounded
<1>7. PICK b \in BOOLEAN : b = (n > 0)
  <2>1. (n > 0) \in BOOLEAN  OBVIOUS
  <2>2. (n > 0) = (n > 0)  OBVIOUS
  <2> QED  BY <2>1, <2>2, Zenon
<1> DEFINE f == [Top EXCEPT !.at = "in", !.sent = b]
<1>8. Goes(f)  BY <1>1, <1>7
<1>9. f \in Frames  BY <1>7, OutFacts DEF Frames
<1>10. f.at = "in" /\ f.same = Top.same /\ f.mask = Top.mask  BY OutFacts DEF Frames
<1> HIDE DEF f
<1>11. One(sock', f, told')
  BY <1>2, <1>3, <1>10, OutFacts DEF One
<1>12. kernel'.recvQ > 0 =>
           \/ "in" \in sock'.posted \cup kernel'.fetched
           \/ kernel'.edge \/ sock'.hasToAdd
           \/ f.same /\ "in" \in f.mask /\ f.at \in {"out", "connected", "in"}
  BY <1>2, <1>3, <1>4, <1>10, OutFacts DEF SocketInvariant, ReadsComing
<1> QED  BY <1>2, <1>3, <1>4, <1>5, <1>6, <1>8, <1>9, <1>11, <1>12, OutFacts, Facts, EventGoesOn

LEMMA OutWhileDisconnectingStep ==
    ASSUME SocketInvariant, Running("out"), OutWhileDisconnecting,
           UNCHANGED <<alive, connections, arrived, written>>
    PROVE  SocketInvariant'
<1> DEFINE I(n) == IF Sent(n).writeBuf = 0 THEN Sent(n).interest \ {"out"}
                   ELSE Sent(n).interest
<1>0. PICK n \in Sendable(sock.writeBuf) :
        \E k \in Takes(kernel, sock.writeBuf, n), hup \in BOOLEAN :
            /\ sock' = [Sent(n) EXCEPT !.interest = I(n), !.disconnectTimer = @ /\ ~hup]
            /\ kernel' = Modified(Sent(n), k, I(n))
            /\ Goes([Top EXCEPT !.at = "in", !.sent = n > 0,
                                !.mask = IF hup THEN @ \cup {"hup"} ELSE @])
  BY DEF OutWhileDisconnecting
<1>1. PICK k \in Takes(kernel, sock.writeBuf, n), hup \in BOOLEAN :
        /\ sock' = [Sent(n) EXCEPT !.interest = I(n), !.disconnectTimer = @ /\ ~hup]
        /\ kernel' = Modified(Sent(n), k, I(n))
        /\ Goes([Top EXCEPT !.at = "in", !.sent = n > 0,
                            !.mask = IF hup THEN @ \cup {"hup"} ELSE @])
  BY <1>0
<1>2. sock.state = "Disconnecting" /\ told' = told  BY DEF OutWhileDisconnecting
<1> DEFINE x == Sent(n)
           i == I(n)
<1>3. /\ x \in Socks /\ x.writeBuf <= sock.writeBuf /\ x.writeBuf \in Nat
      /\ x.state = sock.state /\ x.readBuf = sock.readBuf /\ x.capacity = sock.capacity
      /\ x.enabled = sock.enabled /\ x.open = sock.open /\ x.lookingUp = sock.lookingUp
      /\ x.connectTimer = sock.connectTimer /\ x.interest = sock.interest
      /\ x.disconnectTimer = sock.disconnectTimer
  BY Sends
<1>4. i \in SUBSET Both  BY <1>3 DEF Socks
<1>5. PICK d \in BOOLEAN : d = (x.disconnectTimer /\ ~hup)  OBVIOUS
<1>6. sock' = [x EXCEPT !.interest = i, !.disconnectTimer = d] /\ kernel' = Modified(x, k, i)
  BY <1>1, <1>5
<1> HIDE DEF x, i
<1>7. /\ sock' \in Socks /\ sock'.writeBuf <= sock.writeBuf /\ sock'.writeBuf \in Nat
      /\ sock'.state = sock.state /\ sock'.readBuf = sock.readBuf
      /\ sock'.capacity = sock.capacity /\ sock'.enabled = sock.enabled
      /\ sock'.open = sock.open /\ sock'.lookingUp = sock.lookingUp
      /\ sock'.connectTimer = sock.connectTimer /\ sock'.disconnectTimer = d
  BY <1>3, <1>4, <1>6 DEF Socks
<1>8. /\ k \in Channels /\ k.link = kernel.link /\ k.recvQ = kernel.recvQ
      /\ k.gone = kernel.gone /\ k.fetched = kernel.fetched
  BY Facts, TakesSpace
<1>9. /\ kernel' \in Channels /\ kernel'.link = kernel.link /\ kernel'.recvQ = kernel.recvQ
      /\ kernel'.gone = kernel.gone
  BY <1>6, <1>8 DEF Modified, Channels, Masks
<1>10. Fits(sock', kernel')  BY <1>2, <1>7, <1>9, Facts DEF Fits
<1>11. Bounded(sock', kernel', arrived, written)
  BY <1>7, <1>9, Facts DEF Bounded
<1>12. PICK b \in BOOLEAN : b = (n > 0)
  <2>1. (n > 0) \in BOOLEAN  OBVIOUS
  <2>2. (n > 0) = (n > 0)  OBVIOUS
  <2> QED  BY <2>1, <2>2, Zenon
<1>13. PICK m : m = IF hup THEN Top.mask \cup {"hup"} ELSE Top.mask  OBVIOUS
<1>14. m \in FrameMasks /\ (hup => "hup" \in m) /\ Top.mask \subseteq m
  BY <1>13, OutFacts DEF Frames, FrameMasks
<1> DEFINE f == [Top EXCEPT !.at = "in", !.sent = b, !.mask = m]
<1>15. Goes(f)  BY <1>1, <1>12, <1>13
<1>16. f \in Frames  BY <1>12, <1>14, OutFacts DEF Frames
<1>17. f.at = "in" /\ f.same = Top.same /\ f.mask = m  BY OutFacts DEF Frames
<1> HIDE DEF f
<1>18. d \/ hup
  BY <1>2, <1>3, <1>5, OutFacts DEF One
<1>19. One(sock', f, told')
  BY <1>2, <1>7, <1>14, <1>17, <1>18, OutFacts DEF One
<1>20. sock'.state \notin {"Connected", "Connecting"}  BY <1>2, <1>7
<1> QED  BY <1>2, <1>7, <1>9, <1>10, <1>11, <1>15, <1>16, <1>19, <1>20, OutFacts, Facts,
            EventGoesOn

LEMMA OutWhileConnectingStep ==
    ASSUME SocketInvariant, Running("out"), OutWhileConnecting,
           UNCHANGED <<alive, connections, arrived, written>>
    PROVE  SocketInvariant'
<1> DEFINE x == [sock EXCEPT !.connectTimer = FALSE]
<1>1. sock.state = "Connecting"  BY DEF OutWhileConnecting
<1>2. \/ /\ kernel.link = "up"
         /\ sock' = [x EXCEPT !.state = "Connected", !.addresses = 0]
         /\ Goes([Top EXCEPT !.at = "connected", !.was = told])
         /\ told' = "connected" /\ kernel' = kernel
      \/ ConnectToHost(x, Caller)
  BY DEF OutWhileConnecting
<1>3. /\ x \in Socks /\ x.state = sock.state /\ x.posted = sock.posted
      /\ x.readBuf = sock.readBuf /\ x.writeBuf = sock.writeBuf
      /\ x.capacity = sock.capacity /\ x.hasToAdd = sock.hasToAdd
      /\ x.enabled = sock.enabled /\ x.open = sock.open /\ x.lookingUp = sock.lookingUp
      /\ ~x.connectTimer /\ x.interest = sock.interest
      /\ x.disconnectTimer = sock.disconnectTimer
  BY Facts DEF Socks
<1> HIDE DEF x
<1>4. Fits(x, kernel)  BY <1>3, Facts DEF Fits
<1>5. CASE /\ kernel.link = "up"
           /\ sock' = [x EXCEPT !.state = "Connected", !.addresses = 0]
           /\ Goes([Top EXCEPT !.at = "connected", !.was = told])
           /\ told' = "connected" /\ kernel' = kernel
  <2>1. 0 \in 0..MaxAddresses  BY BoundsAssumption
  <2>2. /\ sock' \in Socks /\ sock'.state = "Connected" /\ sock'.posted = x.posted
        /\ sock'.readBuf = x.readBuf /\ sock'.writeBuf = x.writeBuf
        /\ sock'.capacity = x.capacity /\ sock'.hasToAdd = x.hasToAdd
        /\ sock'.enabled = x.enabled /\ sock'.open = x.open
        /\ sock'.lookingUp = x.lookingUp /\ ~sock'.connectTimer
        /\ sock'.interest = x.interest
    BY <1>3, <1>5, <2>1 DEF Socks, States
  <2>3. sock.enabled /\ ~sock.lookingUp
    BY <1>5, Facts DEF Fits
  <2>4. Fits(sock', kernel)
    BY <1>1, <1>3, <1>4, <1>5, <2>2, <2>3 DEF Fits
  <2>5. Bounded(sock', kernel, arrived, written)
    BY <1>3, <2>2, Facts DEF Bounded
  <2> DEFINE f == [Top EXCEPT !.at = "connected", !.was = told]
  <2>6. Goes(f)  BY <1>5
  <2>7. f \in Frames  BY OutFacts, Facts DEF Frames, Slots
  <2>8. f.at = "connected" /\ f.same = Top.same /\ f.mask = Top.mask /\ f.was = told
    BY OutFacts DEF Frames
  <2> HIDE DEF f
  <2>9. told = "connecting"  BY <1>1, OutFacts DEF One
  <2>10. One(sock', f, "connected")
    BY <2>2, <2>8, <2>9, OutFacts DEF One
  <2>11. kernel.recvQ > 0 =>
            \/ "in" \in sock'.posted \cup kernel.fetched
            \/ kernel.edge \/ sock'.hasToAdd
            \/ f.same /\ "in" \in f.mask /\ f.at \in {"out", "connected", "in"}
    BY <1>1, <1>3, <2>2, <2>8, OutFacts DEF SocketInvariant, ReadsComing
  <2>12. "connected" \in Knowledge  BY DEF Knowledge
  <2> QED  BY <1>5, <2>2, <2>4, <2>5, <2>6, <2>7, <2>10, <2>11, <2>12, OutFacts, Facts,
              EventGoesOn
<1>6. CASE ConnectToHost(x, Caller)
  <2>1. /\ x.posted = {} /\ x.readBuf = 0 /\ ~x.hasToAdd /\ x.interest = Both
    BY <1>1, <1>3, Facts DEF Fits
  <2>2. ~x.lookingUp
    <3>1. sock.enabled  BY <1>1, OutFacts DEF One
    <3> QED  BY <1>3, <3>1, Facts DEF Fits
  <2>3. x.writeBuf <= written  BY <1>3, Facts DEF Bounded
  <2> DEFINE c == Caller
  <2>4. c = <<>>  BY OutFacts
  <2>5. ConnectToHost(x, c)  BY <1>6
  <2> HIDE DEF c
  <2>6. /\ c \in Seq(Frames) /\ Nested(c) /\ Signalled(c) /\ Context(c, "Connecting")
        /\ (\A i \in 1..Len(c) : ~c[i].same) /\ ~Failing(c)
    BY <2>4 DEF Nested, Signalled, Context, Failing
  <2>7. /\ sock' \in Socks /\ kernel' \in Channels /\ stack' \in Seq(Frames)
        /\ told' \in Knowledge
        /\ Fits(sock', kernel') /\ Bounded(sock', kernel', arrived, written)
        /\ Calls(sock', stack', told') /\ ReadsComing(sock', kernel', stack')
    BY <1>1, <1>3, <1>4, <2>1, <2>2, <2>3, <2>4, <2>5, <2>6, Connecting
  <2>8. Typed' /\ Deleted'
    BY <2>7, OutFacts DEF SocketInvariant, Typed, Deleted
  <2> QED  BY <2>7, <2>8 DEF SocketInvariant
<1> QED  BY <1>2, <1>5, <1>6

LEMMA OnEventOutStep ==
    ASSUME SocketInvariant, OnEventOut  PROVE SocketInvariant'
<1>1. Running("out") /\ UNCHANGED <<alive, connections, arrived, written>>
  BY DEF OnEventOut
<1>2. CASE "out" \in Top.mask /\ sock.state # "Unconnected"
  <2>1. OutWhileConnected \/ OutWhileDisconnecting \/ OutWhileConnecting
    BY <1>2 DEF OnEventOut
  <2> QED  BY <1>1, <2>1, OutWhileConnectedStep, OutWhileDisconnectingStep,
              OutWhileConnectingStep
<1>3. CASE ~("out" \in Top.mask /\ sock.state # "Unconnected")
  <2> DEFINE f == [Top EXCEPT !.at = "in"]
  <2>1. Goes(f) /\ UNCHANGED <<sock, kernel, told>>  BY <1>3 DEF OnEventOut
  <2>2. f \in Frames  BY <1>1, OutFacts DEF Frames
  <2>3. f.at = "in" /\ f.same = Top.same /\ f.mask = Top.mask  BY <1>1, OutFacts DEF Frames
  <2> HIDE DEF f
  <2>4. One(sock, f, told)  BY <1>1, <1>3, <2>3, OutFacts DEF One
  <2> QED  BY <1>1, <2>1, <2>2, <2>3, <2>4, OutFacts, CallGoesOn
<1> QED  BY <1>2, <1>3

LEMMA OnEventInStep ==
    ASSUME SocketInvariant, OnEventIn  PROVE SocketInvariant'
<1> DEFINE reads == "in" \in Top.mask /\ sock.state = "Connected"
           x == IF reads THEN Filled(sock, kernel) ELSE sock
           a == IF x.readBuf = sock.readBuf THEN "sent" ELSE "receivedData"
<1>1. /\ Running("in") /\ told' = told /\ UNCHANGED <<alive, connections, arrived, written>>
      /\ sock' = [x EXCEPT !.disconnectTimer = @ /\ "hup" \notin Top.mask]
      /\ kernel' = IF reads THEN Emptied(sock, kernel) ELSE kernel
      /\ Goes([Top EXCEPT !.same = TRUE, !.was = told, !.at = a])
  BY DEF OnEventIn
<1>2. stack # <<>> /\ Top.at = "in" /\ Top.at \notin {"error", "disconnected"}
  BY <1>1 DEF Running
<1>3. /\ Top \in Frames /\ One(sock, Top, told) /\ Top.same /\ alive
      /\ Reading(stack) <=> "in" \in Top.mask
      /\ ~Failing(stack) /\ sock.state # "Connecting"
  <2>1. Top.same  BY <1>2, Resumed DEF One
  <2> QED  BY <1>2, <2>1, Resumed, Facts DEF One
<1>4. /\ x \in Socks /\ kernel' \in Channels
      /\ x.capacity = 0 \/ x.readBuf <= x.capacity
      /\ x.readBuf + kernel'.recvQ <= arrived
      /\ kernel'.recvQ \in 0..kernel.recvQ
      /\ reads /\ kernel'.recvQ > 0 => x.hasToAdd
      /\ x.capacity = sock.capacity
  <2>1. sock.capacity = 0 \/ sock.readBuf <= sock.capacity  BY Facts DEF Fits
  <2>2. sock.readBuf + kernel.recvQ <= arrived  BY Facts DEF Bounded
  <2>3. CASE reads
    <3>1. /\ Filled(sock, kernel) \in Socks /\ Emptied(sock, kernel) \in Channels
          /\ Filled(sock, kernel).readBuf + Emptied(sock, kernel).recvQ <= arrived
          /\ sock.capacity = 0 \/ Filled(sock, kernel).readBuf <= sock.capacity
          /\ Emptied(sock, kernel).recvQ > 0 => Filled(sock, kernel).hasToAdd
          /\ Emptied(sock, kernel).recvQ \in 0..kernel.recvQ
      BY <2>1, <2>2, Facts, Reads
    <3>2. Filled(sock, kernel).capacity = sock.capacity  BY Facts DEF Filled, Socks
    <3>3. x = Filled(sock, kernel) /\ kernel' = Emptied(sock, kernel)  BY <1>1, <2>3
    <3> QED  BY <3>1, <3>2, <3>3
  <2>4. CASE ~reads
    <3>1. x = sock /\ kernel' = kernel  BY <1>1, <2>4
    <3> QED  BY <2>1, <2>2, <2>4, <3>1, Facts
  <2> QED  BY <2>3, <2>4
<1>5. /\ x.state = sock.state /\ x.posted = sock.posted /\ x.writeBuf = sock.writeBuf
      /\ x.enabled = sock.enabled /\ x.open = sock.open /\ x.lookingUp = sock.lookingUp
      /\ x.connectTimer = sock.connectTimer /\ x.interest = sock.interest
      /\ x.disconnectTimer = sock.disconnectTimer
      /\ ~reads => x.hasToAdd = sock.hasToAdd
  <2>1. sock \in Socks  BY Facts
  <2>2. CASE reads
    <3>1. x = Filled(sock, kernel)  BY <2>2
    <3> QED  BY <2>1, <2>2, <3>1 DEF Filled, Socks
  <2>3. CASE ~reads  BY <2>3
  <2> QED  BY <2>2, <2>3
<1>6. /\ kernel'.link = kernel.link /\ kernel'.gone = kernel.gone
      /\ kernel'.space = kernel.space /\ kernel'.edge = kernel.edge
      /\ kernel'.fetched = kernel.fetched
      /\ ~reads => kernel'.recvQ = kernel.recvQ
  <2>1. kernel \in Channels  BY Facts
  <2>2. CASE reads
    <3>1. kernel' = Emptied(sock, kernel)  BY <1>1, <2>2
    <3> QED  BY <2>1, <2>2, <3>1 DEF Emptied, Channels
  <2>3. CASE ~reads  BY <1>1, <2>3
  <2> QED  BY <2>2, <2>3
<1>7. /\ a \in {"sent", "receivedData"}
      /\ a = "receivedData" => sock.state = "Connected"
  <2>1. ~reads => x = sock  OBVIOUS
  <2> QED  BY <2>1
<1>8. PICK d \in BOOLEAN : d = (x.disconnectTimer /\ "hup" \notin Top.mask)  OBVIOUS
<1>9. sock' = [x EXCEPT !.disconnectTimer = d]  BY <1>1, <1>8
<1> DEFINE f == [Top EXCEPT !.same = TRUE, !.was = told, !.at = a]
<1>10. Goes(f)  BY <1>1
<1>11. reads <=> "in" \in Top.mask /\ sock.state = "Connected"  OBVIOUS
<1> HIDE DEF x, a, reads
<1>12. /\ sock' \in Socks /\ sock'.state = sock.state /\ sock'.posted = sock.posted
       /\ sock'.writeBuf = sock.writeBuf /\ sock'.readBuf = x.readBuf
       /\ sock'.capacity = x.capacity /\ sock'.hasToAdd = x.hasToAdd
       /\ sock'.enabled = sock.enabled /\ sock'.open = sock.open
       /\ sock'.lookingUp = sock.lookingUp /\ sock'.connectTimer = sock.connectTimer
       /\ sock'.interest = sock.interest /\ sock'.disconnectTimer = d
  BY <1>4, <1>5, <1>9 DEF Socks
<1>13. kernel.link # "up" => kernel'.recvQ = 0  BY <1>4, Facts DEF Fits
<1>14. Fits(sock', kernel')
  BY <1>3, <1>4, <1>6, <1>12, <1>13, Facts DEF Fits
<1>15. Bounded(sock', kernel', arrived, written)  BY <1>4, <1>12, Facts DEF Bounded
<1>16. f \in Frames  BY <1>3, <1>7, Facts DEF Frames, Slots
<1>17. f.at = a /\ f.same /\ f.mask = Top.mask /\ f.was = told  BY <1>3 DEF Frames
<1> HIDE DEF f
<1>18. One(sock', f, told)
  BY <1>3, <1>5, <1>7, <1>8, <1>12, <1>17 DEF One
<1>19. sock'.state \in {"Connected", "Connecting"} /\ kernel'.recvQ > 0 =>
          \/ "in" \in sock'.posted \cup kernel'.fetched
          \/ kernel'.edge \/ sock'.hasToAdd
          \/ f.same /\ "in" \in f.mask /\ f.at \in {"out", "connected", "in"}
  <2>1. CASE reads  BY <1>4, <1>12, <2>1
  <2>2. CASE ~reads
    <3>1. sock.state = "Connected" => ~Reading(stack)  BY <1>3, <1>11, <2>2
    <3> QED  BY <1>3, <1>5, <1>6, <1>12, <2>2, <3>1 DEF SocketInvariant, ReadsComing
  <2> QED  BY <2>1, <2>2
<1> QED  BY <1>1, <1>2, <1>3, <1>4, <1>10, <1>12, <1>14, <1>15, <1>16, <1>18, <1>19, Facts,
            EventGoesOn

LEMMA OnEventSentStep ==
    ASSUME SocketInvariant, OnEventSent  PROVE SocketInvariant'
<1>1. /\ Running("sent")
      /\ UNCHANGED <<sock, kernel, told, alive, connections, arrived, written>>
  BY DEF OnEventSent
<1>2. stack # <<>> /\ Top.at = "sent" /\ Top.at \notin {"error", "disconnected"}
  BY <1>1 DEF Running
<1>3. CASE Top.same /\ Top.sent
  <2> DEFINE f == [Top EXCEPT !.at = "sentData"]
  <2>1. Goes(f)  BY <1>3 DEF OnEventSent
  <2>2. Top \in Frames /\ One(sock, Top, told)  BY <1>2, Resumed
  <2>3. f \in Frames  BY <2>2 DEF Frames, Slots
  <2>4. f.at = "sentData" /\ f.same = Top.same /\ f.mask = Top.mask  BY <2>2 DEF Frames
  <2> HIDE DEF f
  <2>5. One(sock, f, told)  BY <1>2, <1>3, <2>2, <2>4 DEF One
  <2> QED  BY <1>1, <1>2, <2>1, <2>3, <2>4, <2>5, CallGoesOn
<1>4. CASE ~(Top.same /\ Top.sent)
  <2>1. Finishes  BY <1>4 DEF OnEventSent
  <2> QED  BY <1>1, <1>2, <2>1, FinishesStep
<1> QED  BY <1>3, <1>4

\* The last thing a call of onEvent does to a connection.
LEMMA OnEventDrainStep ==
    ASSUME SocketInvariant, OnEventDrain  PROVE SocketInvariant'
<1> DEFINE x == [sock EXCEPT !.hasToAdd = FALSE, !.posted = {}]
           told1 == sock.state \in {"Connected", "Disconnecting"}
<1>1. /\ Running("drain") /\ UNCHANGED <<alive, connections, arrived, written>>
      /\ \/ /\ Drains
            /\ sock' = Filled(sock, kernel) /\ kernel' = Emptied(sock, kernel)
            /\ Goes([Top EXCEPT !.at = "draining", !.was = told])
            /\ told' = told
         \/ /\ ~Drains /\ Top.same
            /\ sock' = Closed(x) /\ kernel' = NoChannel
            /\ stack' = AfterClosing(Caller, x) \o
                        IF told1 THEN <<Frame("disconnected", {}, told)>> ELSE <<>>
            /\ told' = IF told1 THEN "none" ELSE told
         \/ /\ ~Drains /\ ~Top.same
            /\ sock' = x /\ stack' = Caller /\ kernel' = kernel /\ told' = told
  <2>1. CASE Drains  BY <2>1 DEF OnEventDrain
  <2>2. CASE ~Drains /\ Top.same  BY <2>2 DEF OnEventDrain
  <2>3. CASE ~Drains /\ ~Top.same  BY <2>3 DEF OnEventDrain
  <2> QED  BY <2>1, <2>2, <2>3
<1>2. stack # <<>> /\ Top.at = "drain" /\ Top.at \notin {"error", "disconnected"}
  BY <1>1 DEF Running
<1>3. /\ Top \in Frames /\ One(sock, Top, told) /\ Caller = <<>>
      /\ ~Reading(stack) /\ ~Failing(stack)
      /\ ~alive => ~Top.same
  BY <1>2, Resumed
<1>4. Top.same => /\ sock.state # "Connecting" /\ alive
                  /\ ~sock.lookingUp /\ ~sock.connectTimer
  <2>1. Top.same => sock.state # "Connecting"  BY <1>2, <1>3 DEF One
  <2> QED  BY <1>3, <2>1, Facts DEF Fits
<1>5. /\ x \in Socks /\ x.state = sock.state /\ x.posted = {} /\ ~x.hasToAdd
      /\ x.writeBuf = sock.writeBuf /\ x.readBuf = sock.readBuf
      /\ x.capacity = sock.capacity /\ x.enabled = sock.enabled /\ x.open = sock.open
      /\ x.lookingUp = sock.lookingUp /\ x.connectTimer = sock.connectTimer
      /\ x.interest = sock.interest /\ x.disconnectTimer = sock.disconnectTimer
  BY Facts DEF Socks
<1>6. (sock.capacity = 0 \/ sock.readBuf <= sock.capacity) /\ sock.readBuf + kernel.recvQ <= arrived
  BY Facts DEF Fits, Bounded
<1> HIDE DEF x
<1>7. CASE /\ Drains
           /\ sock' = Filled(sock, kernel) /\ kernel' = Emptied(sock, kernel)
           /\ Goes([Top EXCEPT !.at = "draining", !.was = told])
           /\ told' = told
  <2>1. /\ Readable(sock, kernel) \in 0..kernel.recvQ
        /\ sock' \in Socks /\ kernel' \in Channels
        /\ sock'.readBuf + kernel'.recvQ <= arrived
        /\ sock.capacity = 0 \/ sock'.readBuf <= sock.capacity
        /\ kernel'.recvQ > 0 => sock'.hasToAdd
    BY <1>6, <1>7, Facts, Reads
  <2>2. Top.same /\ kernel.recvQ > 0  BY <1>7, <2>1, Facts DEF Drains
  <2>3. sock.state \in {"Connected", "Disconnecting"} /\ kernel.link = "up" /\ sock.enabled
    <3>1. kernel.link = "up" /\ sock.enabled /\ sock.open  BY <2>2, Facts DEF Fits
    <3>2. sock.state \in States  BY Facts DEF Socks
    <3> QED  BY <1>4, <2>2, <3>1, <3>2, Facts DEF Fits, States
  <2>4. /\ sock'.state = sock.state /\ sock'.posted = sock.posted
        /\ sock'.writeBuf = sock.writeBuf /\ sock'.capacity = sock.capacity
        /\ sock'.enabled = sock.enabled /\ sock'.open = sock.open
        /\ sock'.lookingUp = sock.lookingUp /\ sock'.connectTimer = sock.connectTimer
        /\ sock'.interest = sock.interest /\ sock'.disconnectTimer = sock.disconnectTimer
    BY <1>7, Facts DEF Filled, Socks
  <2>5. /\ kernel'.link = kernel.link /\ kernel'.gone = kernel.gone
        /\ kernel'.fetched = kernel.fetched
    BY <1>7, Facts DEF Emptied, Channels
  <2>6. Fits(sock', kernel')  BY <2>1, <2>3, <2>4, <2>5, Facts DEF Fits
  <2>7. Bounded(sock', kernel', arrived, written)  BY <2>1, <2>4, Facts DEF Bounded
  <2> DEFINE f == [Top EXCEPT !.at = "draining", !.was = told]
  <2>8. Goes(f)  BY <1>7
  <2>9. f \in Frames  BY <1>3, Facts DEF Frames, Slots
  <2>10. f.at = "draining" /\ f.same = Top.same /\ f.mask = Top.mask /\ f.was = told
    BY <1>3 DEF Frames
  <2> HIDE DEF f
  <2>11. One(sock', f, told)
    BY <1>2, <1>3, <2>2, <2>3, <2>4, <2>10 DEF One
  <2> QED  BY <1>1, <1>2, <1>4, <1>7, <2>1, <2>2, <2>6, <2>7, <2>8, <2>9, <2>11, Facts,
              EventGoesOn
<1>8. CASE /\ ~Drains /\ Top.same
           /\ sock' = Closed(x) /\ kernel' = NoChannel
           /\ stack' = AfterClosing(Caller, x) \o
                       IF told1 THEN <<Frame("disconnected", {}, told)>> ELSE <<>>
           /\ told' = IF told1 THEN "none" ELSE told
  <2> DEFINE c == Caller
             r == AfterClosing(c, x)
             f == Frame("disconnected", {}, told)
  <2>1. /\ sock' \in Socks /\ sock'.state = "Unconnected"
        /\ sock'.readBuf <= x.readBuf /\ sock'.writeBuf = 0
        /\ Fits(sock', NoChannel)
    BY <1>4, <1>5, <1>6, <1>8, ClosedFits
  <2>2. NoChannel \in Channels /\ NoChannel.recvQ = 0  BY Facts, AbortedFits
  <2>3. Bounded(sock', NoChannel, arrived, written)
    <3>1. sock'.readBuf \in 0..MaxArriving  BY <2>1 DEF Socks
    <3> QED  BY <1>5, <1>6, <2>1, <2>2, <3>1, Facts DEF Bounded
  <2>4. r = <<>>
    <3> DEFINE e == <<>>
    <3>1. e \in Seq(Frames) /\ e = <<>>  OBVIOUS
    <3> HIDE DEF e
    <3>2. OtherContext(e) = <<>>  BY <3>1, Told
    <3> QED  BY <1>3, <3>1, <3>2 DEF AfterClosing
  <2>5. c = <<>>  BY <1>3
  <2>6. stack' \in Seq(Frames) /\ Calls(sock', stack', told') /\ told' \in Knowledge
    <3>1. CASE told1
      <4>1. told = "connected"  BY <1>3, <3>1 DEF One
      <4>2. stack' = Append(r, f) /\ told' = "none"
        BY <1>8, <2>4, <3>1
      <4>3. f = Frame("disconnected", {}, "connected")  BY <4>1
      <4> HIDE DEF f
      <4>4. /\ c \in Seq(Frames) /\ Nested(c) /\ Signalled(c)
            /\ \A i \in 1..Len(c) : c[i].at # "error"
        BY <2>5 DEF Nested, Signalled
      <4>5. r = AfterClosing(c, x)  OBVIOUS
      <4> HIDE DEF r, c
      <4>6. Append(r, f) \in Seq(Frames) /\ Calls(sock', Append(r, f), "none")
        BY <2>1, <2>5, <4>3, <4>4, <4>5, Ended
      <4> QED  BY <4>2, <4>6 DEF Knowledge
    <3>2. CASE ~told1
      <4>1. stack' = <<>> /\ told' = told  BY <1>8, <2>4, <3>2
      <4>2. sock.state = "Unconnected"
        <5>1. sock.state \in States  BY Facts DEF Socks
        <5> QED  BY <1>4, <1>8, <3>2, <5>1 DEF States
      <4>3. told = "none"  BY <1>3, <4>2 DEF One
      <4>4. Calls(sock', <<>>, "none")
        BY <2>1 DEF Calls, Nested, Context, Signalled, Knows, Waits
      <4> QED  BY <4>1, <4>3, <4>4 DEF Knowledge
    <3> QED  BY <3>1, <3>2
  <2>7. ReadsComing(sock', kernel', stack')  BY <2>1 DEF ReadsComing
  <2>8. Typed' /\ Deleted'
    BY <1>1, <1>4, <1>8, <2>1, <2>2, <2>6 DEF SocketInvariant, Typed, Deleted
  <2> QED  BY <1>1, <1>8, <2>1, <2>3, <2>6, <2>7, <2>8 DEF SocketInvariant
<1>9. CASE /\ ~Drains /\ ~Top.same
           /\ sock' = x /\ stack' = Caller /\ kernel' = kernel /\ told' = told
  <2>1. sock.state \in {"Unconnected", "Connecting"}  BY <1>3, <1>9 DEF One
  <2>2. Fits(x, kernel)  BY <1>5, Facts DEF Fits
  <2>3. Bounded(x, kernel, arrived, written)  BY <1>5, Facts DEF Bounded
  <2>4. stack' \in Seq(Frames) /\ Calls(sock, stack', told)
    BY <1>2, <1>3, <1>9, <2>1, Facts, Returned DEF Caller
  <2>5. Calls(x, stack', told)  BY <1>5, <2>4 DEF Calls, Waits
  <2>6. ReadsComing(x, kernel, stack')
    <3>1. sock.state = "Connecting" => ~sock.hasToAdd /\ sock.posted = {}
      BY Facts DEF Fits
    <3> QED  BY <1>3, <1>5, <2>1, <3>1 DEF SocketInvariant, ReadsComing
  <2>7. Typed'  BY <1>1, <1>5, <1>9, <2>4 DEF SocketInvariant, Typed
  <2>8. Deleted'
    <3>1. stack' = <<>>  BY <1>3, <1>9
    <3> QED  BY <1>1, <1>5, <1>9, <3>1 DEF SocketInvariant, Deleted
  <2> QED  BY <1>1, <1>9, <2>2, <2>3, <2>5, <2>6, <2>7, <2>8 DEF SocketInvariant
<1> QED  BY <1>1, <1>7, <1>8, <1>9

-----------------------------------------------------------------------------
(* Timers and lookups. *)

\* Nobody is called, the socket connects as x, and tries the next address.
LEMMA NextAddress ==
    ASSUME SocketInvariant, stack = <<>>, alive,
           NEW x \in Socks, x.state = "Connecting", x.posted = {}, x.readBuf = 0,
           ~x.hasToAdd, x.interest = Both, ~x.lookingUp, x.writeBuf <= written,
           x.addresses = 0 => Fits(x, kernel),
           ConnectToHost(x, stack),
           UNCHANGED <<alive, connections, arrived, written>>
    PROVE  SocketInvariant'
<1>1. /\ stack \in Seq(Frames) /\ Nested(stack) /\ Signalled(stack)
      /\ Context(stack, "Connecting")
      /\ (\A i \in 1..Len(stack) : ~stack[i].same) /\ ~Failing(stack)
  BY DEF Nested, Signalled, Context, Failing
<1>2. /\ sock' \in Socks /\ kernel' \in Channels /\ stack' \in Seq(Frames)
      /\ told' \in Knowledge
      /\ Fits(sock', kernel') /\ Bounded(sock', kernel', arrived, written)
      /\ Calls(sock', stack', told') /\ ReadsComing(sock', kernel', stack')
  BY <1>1, Connecting
<1> QED  BY <1>2 DEF SocketInvariant, Typed, Deleted

LEMMA OnConnectTimeoutStep ==
    ASSUME SocketInvariant, OnConnectTimeout  PROVE SocketInvariant'
<1> DEFINE x == [sock EXCEPT !.connectTimer = FALSE]
<1>1. /\ stack = <<>> /\ sock.connectTimer
      /\ UNCHANGED <<alive, connections, arrived, written>>
      /\ sock.state = "Connecting" => ConnectToHost(x, stack)
  BY DEF OnConnectTimeout
<1>2. sock.state = "Connecting"  BY <1>1, Facts DEF Fits
<1>3. /\ sock.posted = {} /\ sock.readBuf = 0 /\ ~sock.hasToAdd /\ sock.interest = Both
  BY <1>2, Facts DEF Fits
<1>4. alive  BY <1>1, <1>2, Idle, Facts
<1>5. /\ x \in Socks /\ x.state = "Connecting" /\ x.posted = {} /\ x.readBuf = 0
      /\ x.writeBuf = sock.writeBuf /\ x.capacity = sock.capacity /\ ~x.hasToAdd
      /\ x.enabled = sock.enabled /\ x.open = sock.open /\ x.lookingUp = sock.lookingUp
      /\ ~x.connectTimer /\ x.interest = Both
  BY <1>2, <1>3, Facts DEF Socks
<1> HIDE DEF x
<1>6. Fits(x, kernel) /\ x.writeBuf <= written
  BY <1>2, <1>3, <1>5, Facts DEF Fits, Bounded
<1>7. ~sock.lookingUp  BY <1>1, Facts DEF Fits
<1> QED  BY <1>1, <1>2, <1>4, <1>5, <1>6, <1>7, NextAddress

LEMMA OnDisconnectTimeoutStep ==
    ASSUME SocketInvariant, OnDisconnectTimeout  PROVE SocketInvariant'
<1> DEFINE x == [sock EXCEPT !.disconnectTimer = FALSE]
<1>1. /\ stack = <<>> /\ UNCHANGED <<alive, connections, arrived, written>>
      /\ IF GivesUp
         THEN /\ sock' = Closed(x)
              /\ kernel' = NoChannel
              /\ stack' = <<Frame("disconnected", {}, told)>>
              /\ told' = "none"
         ELSE sock' = x /\ UNCHANGED <<kernel, stack, told>>
  BY DEF OnDisconnectTimeout
<1>2. /\ x \in Socks /\ x.state = sock.state /\ x.posted = sock.posted
      /\ x.hasToAdd = sock.hasToAdd
      /\ x.writeBuf = sock.writeBuf /\ x.readBuf = sock.readBuf
      /\ x.capacity = sock.capacity /\ x.enabled = sock.enabled /\ x.open = sock.open
      /\ x.lookingUp = sock.lookingUp /\ x.connectTimer = sock.connectTimer
      /\ x.interest = sock.interest
  BY Facts DEF Socks
<1> HIDE DEF x
<1>3. CASE GivesUp
  <2> DEFINE f == Frame("disconnected", {}, told)
             c == stack
             r == AfterClosing(c, x)
  <2>1. sock.state = "Disconnecting"  BY <1>3 DEF GivesUp
  <2>2. told = "connected" /\ alive /\ ~sock.lookingUp /\ ~sock.connectTimer
    BY <2>1, ConnectedCalls
  <2>3. x.capacity = 0 \/ x.readBuf <= x.capacity  BY <1>2, Facts DEF Fits
  <2>4. /\ sock' \in Socks /\ sock'.state = "Unconnected"
        /\ sock'.readBuf <= x.readBuf /\ sock'.writeBuf = 0
        /\ Fits(sock', NoChannel)
    BY <1>1, <1>2, <1>3, <2>2, <2>3, ClosedFits
  <2>5. NoChannel \in Channels /\ NoChannel.recvQ = 0  BY Facts, AbortedFits
  <2>6. Bounded(sock', NoChannel, arrived, written)
    <3>1. sock'.readBuf \in 0..MaxArriving  BY <2>4 DEF Socks
    <3>2. sock.readBuf + kernel.recvQ <= arrived  BY Facts DEF Bounded
    <3> QED  BY <1>2, <2>4, <2>5, <3>1, <3>2, Facts DEF Bounded
  <2>7. r = <<>>
    <3>1. OtherContext(c) = <<>>  BY <1>1, Facts, Told
    <3> QED  BY <1>1, <3>1 DEF AfterClosing
  <2>8. stack' = Append(r, f) /\ told' = "none"  BY <1>1, <1>3, <2>7
  <2>9. f = Frame("disconnected", {}, "connected") /\ r = AfterClosing(c, x)  BY <2>2
  <2>10. /\ c \in Seq(Frames) /\ Nested(c) /\ Signalled(c) /\ c = <<>>
         /\ \A i \in 1..Len(c) : c[i].at # "error"
    BY <1>1 DEF Nested, Signalled
  <2> HIDE DEF f, r, c
  <2>11. Append(r, f) \in Seq(Frames) /\ Calls(sock', Append(r, f), "none")
    BY <2>4, <2>9, <2>10, Ended
  <2>12. ReadsComing(sock', kernel', stack')  BY <2>4 DEF ReadsComing
  <2>13. Typed' /\ Deleted'
    BY <1>1, <1>3, <2>2, <2>4, <2>5, <2>8, <2>11 DEF SocketInvariant, Typed, Deleted, Knowledge
  <2> QED  BY <1>1, <1>3, <2>4, <2>6, <2>8, <2>11, <2>12, <2>13 DEF SocketInvariant
<1>4. CASE ~GivesUp
  <2>1. sock' = x /\ UNCHANGED <<kernel, stack, told>>  BY <1>1, <1>4
  <2>2. sock.state # "Disconnecting"  BY <1>4 DEF GivesUp
  <2>3. Fits(x, kernel) /\ Bounded(x, kernel, arrived, written)
    BY <1>2, Facts DEF Fits, Bounded
  <2>4. Calls(x, stack, told)  BY <1>2, <2>2, Facts DEF Calls, Waits
  <2>5. ReadsComing(x, kernel, stack)  BY <1>2 DEF SocketInvariant, ReadsComing
  <2>6. Typed' /\ Deleted'
    BY <1>1, <1>2, <2>1 DEF SocketInvariant, Typed, Deleted
  <2> QED  BY <1>1, <2>1, <2>3, <2>4, <2>5, <2>6 DEF SocketInvariant
<1> QED  BY <1>3, <1>4

LEMMA OnHostFoundStep ==
    ASSUME SocketInvariant, OnHostFound  PROVE SocketInvariant'
<1>1. /\ stack = <<>> /\ sock.lookingUp
      /\ UNCHANGED <<alive, connections, arrived, written>>
  BY DEF OnHostFound
<1>2. PICK n \in 0..MaxAddresses :
        LET x == [sock EXCEPT !.lookingUp = FALSE, !.addresses = n]
        IN IF n > 0 THEN ConnectToHost(x, stack)
           ELSE sock' = x /\ UNCHANGED kernel /\ Fails(stack, told)
  BY DEF OnHostFound
<1> DEFINE x == [sock EXCEPT !.lookingUp = FALSE, !.addresses = n]
<1>3. \/ n > 0 /\ ConnectToHost(x, stack)
      \/ sock' = x /\ kernel' = kernel /\ Fails(stack, told)
  BY <1>2
<1>4. sock.state = "Connecting" /\ ~sock.enabled  BY <1>1, Facts DEF Fits
<1>5. /\ sock.posted = {} /\ sock.readBuf = 0 /\ ~sock.hasToAdd /\ sock.interest = Both
  BY <1>4, Facts DEF Fits
<1>6. alive /\ told = "connecting"  BY <1>1, <1>4, Idle, Facts
<1>7. /\ x \in Socks /\ x.state = "Connecting" /\ x.posted = {} /\ x.readBuf = 0
      /\ x.writeBuf = sock.writeBuf /\ x.capacity = sock.capacity /\ ~x.hasToAdd
      /\ x.enabled = sock.enabled /\ x.open = sock.open /\ ~x.lookingUp
      /\ x.connectTimer = sock.connectTimer /\ x.interest = Both /\ x.addresses = n
  BY <1>4, <1>5, Facts DEF Socks
<1> HIDE DEF x
<1>8. Fits(x, kernel) /\ x.writeBuf <= written
  BY <1>4, <1>5, <1>7, Facts DEF Fits, Bounded
<1>9. CASE n > 0 /\ ConnectToHost(x, stack)
  BY <1>1, <1>6, <1>7, <1>8, <1>9, NextAddress
<1>10. CASE sock' = x /\ kernel' = kernel /\ Fails(stack, told)
  <2> DEFINE f == Frame("error", {}, told)
             c == stack
  <2>1. stack' = Append(c, f) /\ told' = "none"  BY <1>10 DEF Fails
  <2>2. f = Frame("error", {}, "connecting")  BY <1>6
  <2>3. /\ c \in Seq(Frames) /\ Nested(c) /\ Signalled(c) /\ Context(c, "Connecting")
        /\ (\A i \in 1..Len(c) : ~c[i].same) /\ c = <<>>
    BY <1>1 DEF Nested, Signalled, Context
  <2> HIDE DEF f, c
  <2>4. /\ stack' \in Seq(Frames) /\ Calls(x, stack', "none") /\ Failing(stack')
    BY <1>7, <2>1, <2>2, <2>3, Failed
  <2>5. Bounded(x, kernel, arrived, written)  BY <1>5, <1>7, Facts DEF Bounded
  <2>6. ReadsComing(x, kernel, stack')  BY <1>7, <2>4 DEF ReadsComing
  <2>7. Typed' /\ Deleted'
    BY <1>1, <1>6, <1>7, <1>10, <2>1, <2>4 DEF SocketInvariant, Typed, Deleted, Knowledge
  <2> QED  BY <1>1, <1>8, <1>10, <2>1, <2>4, <2>5, <2>6, <2>7 DEF SocketInvariant
<1> QED  BY <1>3, <1>9, <1>10

-----------------------------------------------------------------------------
(* The kernel and the peer. *)

\* Something happens to the channel.
LEMMA ChannelStep ==
    ASSUME SocketInvariant, kernel' \in Channels, NEW a, a = arrived',
           a \in 0..MaxArriving, arrived <= a,
           Fits(sock, kernel'), Bounded(sock, kernel', a, written),
           sock.state \in {"Connecting", "Connected"} =>
               \/ kernel'.edge
               \/ /\ kernel'.edge = kernel.edge /\ kernel'.recvQ = kernel.recvQ
                  /\ kernel'.fetched = kernel.fetched,
           UNCHANGED <<sock, stack, told, alive, connections, written>>
    PROVE  SocketInvariant'
<1>1. ReadsComing(sock, kernel', stack)
  BY DEF SocketInvariant, ReadsComing
<1>2. Typed' /\ Deleted'  BY DEF SocketInvariant, Typed, Deleted
<1> QED  BY <1>1, <1>2 DEF SocketInvariant

LEMMA WakesInterested ==
    ASSUME SocketInvariant, NEW e \in Both
    PROVE  /\ Wakes(e) \in BOOLEAN
           /\ sock.state \in {"Connecting", "Connected"} => Wakes(e)
<1>1. sock.state \in {"Connecting", "Connected"} => sock.interest = Both  BY Facts DEF Fits
<1>2. kernel.edge \in BOOLEAN  BY Facts DEF Channels
<1> QED  BY <1>1, <1>2 DEF Wakes

LEMMA DataArrivesStep ==
    ASSUME SocketInvariant, DataArrives  PROVE SocketInvariant'
<1> DEFINE w == Wakes("in")
<1>1. /\ kernel.link = "up" /\ arrived < MaxArriving /\ arrived' = arrived + 1
      /\ kernel' = [kernel EXCEPT !.recvQ = @ + 1, !.edge = w]
      /\ UNCHANGED <<sock, stack, told, alive, connections, written>>
  BY DEF DataArrives
<1>2. w \in BOOLEAN /\ (sock.state \in {"Connecting", "Connected"} => w)
  BY WakesInterested DEF Both
<1> HIDE DEF w
<1>3. /\ sock.readBuf + (kernel.recvQ + 1) <= arrived + 1
      /\ kernel.recvQ + 1 \in 0..MaxArriving /\ arrived + 1 \in 0..MaxArriving
  BY SMTT(30), <1>1, Facts DEF Bounded
<1>4. /\ kernel' \in Channels /\ kernel'.link = "up" /\ kernel'.recvQ = kernel.recvQ + 1
      /\ kernel'.gone = kernel.gone /\ kernel'.space = kernel.space /\ kernel'.edge = w
      /\ kernel'.fetched = kernel.fetched
  BY <1>1, <1>2, <1>3, Facts DEF Channels
<1>5. Fits(sock, kernel')  BY <1>1, <1>4, Facts DEF Fits
<1>6. Bounded(sock, kernel', arrived + 1, written)  BY <1>3, <1>4, Facts DEF Bounded
<1>7. arrived <= arrived + 1  BY Facts
<1> QED  BY <1>1, <1>2, <1>3, <1>4, <1>5, <1>6, <1>7, ChannelStep

LEMMA NetworkStep ==
    ASSUME SocketInvariant, Network  PROVE SocketInvariant'
<1>0. /\ UNCHANGED <<sock, stack, told, alive, connections, arrived, written>>
      /\ arrived \in 0..MaxArriving /\ arrived <= arrived
  BY Facts DEF Network
<1>1. CASE ConnectionDecided
  <2>1. kernel.link = "pending"  BY <1>1 DEF ConnectionDecided
  <2>2. PICK l \in {"up", "failed"} : kernel' = [kernel EXCEPT !.link = l, !.edge = TRUE]
    BY <1>1 DEF ConnectionDecided
  <2>3. /\ kernel' \in Channels /\ kernel'.link = l /\ kernel'.recvQ = kernel.recvQ
        /\ kernel'.gone = kernel.gone /\ kernel'.space = kernel.space /\ kernel'.edge
        /\ kernel'.fetched = kernel.fetched
    BY <2>2, Facts DEF Channels
  <2>4. Fits(sock, kernel')  BY <2>1, <2>3, Facts DEF Fits
  <2>5. Bounded(sock, kernel', arrived, written)  BY <2>3, Facts DEF Bounded
  <2> QED  BY <1>0, <2>3, <2>4, <2>5, ChannelStep
<1>2. CASE PeerGoes
  <2>1. kernel.link = "up" /\ kernel' = [kernel EXCEPT !.gone = TRUE, !.edge = TRUE]
    BY <1>2 DEF PeerGoes
  <2>2. /\ kernel' \in Channels /\ kernel'.link = "up" /\ kernel'.recvQ = kernel.recvQ
        /\ kernel'.space = kernel.space /\ kernel'.edge
        /\ kernel'.fetched = kernel.fetched
    BY <2>1, Facts DEF Channels
  <2>3. Fits(sock, kernel')  BY <2>1, <2>2, Facts DEF Fits
  <2>4. Bounded(sock, kernel', arrived, written)  BY <2>2, Facts DEF Bounded
  <2> QED  BY <1>0, <2>2, <2>3, <2>4, ChannelStep
<1>3. CASE SpaceFrees
  <2> DEFINE e == IF kernel.space = "awaited" THEN Wakes("out") ELSE kernel.edge
  <2>1. kernel' = [kernel EXCEPT !.space = "free", !.edge = e]
    BY <1>3, Facts DEF SpaceFrees, Channels
  <2>2. /\ e \in BOOLEAN
        /\ sock.state \in {"Connecting", "Connected"} => e \/ e = kernel.edge
    <3>1. /\ Wakes("out") \in BOOLEAN
          /\ sock.state \in {"Connecting", "Connected"} => Wakes("out")
      BY WakesInterested DEF Both
    <3>2. kernel.edge \in BOOLEAN  BY Facts DEF Channels
    <3> QED  BY <3>1, <3>2
  <2> HIDE DEF e
  <2>3. /\ kernel' \in Channels /\ kernel'.link = kernel.link /\ kernel'.recvQ = kernel.recvQ
        /\ kernel'.gone = kernel.gone /\ kernel'.space = "free" /\ kernel'.edge = e
        /\ kernel'.fetched = kernel.fetched
    BY <2>1, <2>2, Facts DEF Channels
  <2>4. Fits(sock, kernel')  BY <2>3, Facts DEF Fits
  <2>5. Bounded(sock, kernel', arrived, written)  BY <2>3, Facts DEF Bounded
  <2> QED  BY <1>0, <2>2, <2>3, <2>4, <2>5, ChannelStep
<1> QED  BY <1>1, <1>2, <1>3 DEF Network

-----------------------------------------------------------------------------
(* The theorems. *)

LEMMA InitSocketInvariant == Init => SocketInvariant
<1> SUFFICES ASSUME Init PROVE SocketInvariant  OBVIOUS
<1>1. /\ stack = <<>> /\ alive = TRUE /\ arrived = 0 /\ written = 0
  BY DEF Init
<1>2. 0 \in 0..MaxArriving /\ 0 \in 0..MaxWritten /\ 0 \in 0..MaxAddresses
      /\ 0 \in 0..MaxConnections /\ 1 \in 0..MaxConnections
  BY BoundsAssumption
<1>3. PICK cap \in Capacities :
        \/ /\ sock = NewSocket(cap) /\ kernel = NoChannel
           /\ told = "none" /\ connections = 0
        \/ /\ sock = [NewSocket(cap) EXCEPT !.state = "Connected",
                                         !.open = TRUE, !.enabled = TRUE]
           /\ kernel = [NoChannel EXCEPT !.link = "up", !.edge = TRUE]
           /\ told = "connected" /\ connections = 1
  BY DEF Init
<1> DEFINE y == NewSocket(cap)
<1>4. y \in Socks  BY <1>2 DEF NewSocket, Socks, States, Both
<1>5. /\ y.state = "Unconnected" /\ y.posted = {} /\ y.readBuf = 0 /\ y.writeBuf = 0
      /\ y.capacity = cap /\ ~y.enabled /\ ~y.lookingUp /\ ~y.open /\ ~y.connectTimer
      /\ y.interest = Both
  BY DEF NewSocket, Both
<1>6. cap \in Nat  BY CapacitiesAssumption
<1>7. NoChannel \in Channels  BY <1>4, AbortedFits
<1>8. Nested(stack) /\ Signalled(stack) /\ (\A state : Context(stack, state))
      /\ ~Failing(stack)
  BY <1>1 DEF Nested, Signalled, Context, Failing
<1> HIDE DEF y
<1>9. CASE sock = y /\ kernel = NoChannel /\ told = "none" /\ connections = 0
  <2>1. NoChannel.recvQ = 0  BY DEF NoChannel
  <2>2. Fits(y, NoChannel)  BY <1>5, <1>6 DEF Fits, NoChannel
  <2>3. Bounded(y, NoChannel, 0, 0)  BY <1>5, <2>1 DEF Bounded
  <2>4. Calls(y, stack, "none")  BY <1>1, <1>5, <1>8 DEF Calls, Knows, Waits
  <2>5. ReadsComing(y, NoChannel, stack)  BY <1>5 DEF ReadsComing
  <2>6. Typed /\ Deleted
    BY <1>1, <1>2, <1>4, <1>7, <1>9 DEF Typed, Deleted, Knowledge
  <2> QED  BY <1>1, <1>9, <2>2, <2>3, <2>4, <2>5, <2>6 DEF SocketInvariant
<1>10. CASE /\ sock = [y EXCEPT !.state = "Connected", !.open = TRUE, !.enabled = TRUE]
            /\ kernel = [NoChannel EXCEPT !.link = "up", !.edge = TRUE]
            /\ told = "connected" /\ connections = 1
  <2>1. sock \in Socks  BY <1>4, <1>10 DEF Socks, States
  <2>2. /\ sock.state = "Connected" /\ sock.enabled /\ sock.open
        /\ sock.readBuf = 0 /\ sock.writeBuf = 0 /\ sock.capacity = cap
        /\ ~sock.lookingUp /\ ~sock.connectTimer /\ sock.interest = Both
    BY <1>4, <1>5, <1>10 DEF Socks
  <2>3. /\ kernel \in Channels /\ kernel.link = "up" /\ kernel.edge /\ kernel.recvQ = 0
    BY <1>7, <1>10 DEF NoChannel, Channels
  <2>4. Fits(sock, kernel)  BY <1>6, <2>2, <2>3 DEF Fits
  <2>5. Bounded(sock, kernel, 0, 0)  BY <2>2, <2>3 DEF Bounded
  <2>6. Calls(sock, stack, "connected")  BY <1>1, <1>8, <2>2 DEF Calls, Knows, Waits
  <2>7. ReadsComing(sock, kernel, stack)  BY <2>3 DEF ReadsComing
  <2>8. Typed /\ Deleted
    BY <1>1, <1>2, <1>10, <2>1, <2>3 DEF Typed, Deleted, Knowledge
  <2> QED  BY <1>1, <1>10, <2>4, <2>5, <2>6, <2>7, <2>8 DEF SocketInvariant
<1> QED  BY <1>3, <1>9, <1>10 DEF y

LEMMA SocketInvariantStep == SocketInvariant /\ [Next]_vars => SocketInvariant'
<1> SUFFICES ASSUME SocketInvariant, [Next]_vars PROVE SocketInvariant'  OBVIOUS
<1>1. CASE User
  BY <1>1, ConnectStep, AbortStep, DisconnectStep, WriteStep, ReadStep, SkipStep,
     CapacityStep DEF User
<1>2. CASE SlotReturns  BY <1>2, SlotReturnsStep
<1>3. CASE OnEvent
  BY <1>3, OnEventOutStep, OnEventInStep, OnEventSentStep, OnEventDrainStep DEF OnEvent
<1>4. CASE Loop  BY <1>4, EpollWaitStep, ProcessFetchedStep, ProcessPostedStep DEF Loop
<1>5. CASE OnConnectTimeout \/ OnDisconnectTimeout \/ OnHostFound
  BY <1>5, OnConnectTimeoutStep, OnDisconnectTimeoutStep, OnHostFoundStep
<1>6. CASE DataArrives \/ Network  BY <1>6, DataArrivesStep, NetworkStep
<1>7. CASE UNCHANGED vars
  BY <1>7 DEF vars, SocketInvariant, Typed, Deleted
<1> QED  BY <1>1, <1>2, <1>3, <1>4, <1>5, <1>6, <1>7 DEF Next

\* Whatever slots do to the socket while onEvent or setError runs, its members fit its
\* descriptor, every suspended call knows whether the connection is still its own, and
\* what the user has been told is what the socket is in.
THEOREM SocketIsInvariant == Spec => []SocketInvariant
  BY InitSocketInvariant, SocketInvariantStep, PTL DEF Spec

LEMMA InvariantTypeOK == SocketInvariant => TypeOK
<1> SUFFICES ASSUME SocketInvariant PROVE TypeOK  OBVIOUS
<1>1. \A i \in 1..Len(stack) : stack[i] \in Frames  BY Facts, Told
<1>2. \A i \in 1..Len(stack) : stack[i].at \in Slots \cup {"out", "in", "sent", "drain"}
  BY <1>1 DEF Frames
<1>3. told \in {"none", "connecting", "connected"}
  <2>1. Knows(told, stack, sock.state) /\ sock.state \in States
    BY DEF SocketInvariant, Typed, Calls, Socks
  <2> QED  BY <2>1 DEF Knows, States
<1> QED  BY <1>2, <1>3 DEF SocketInvariant, Typed, TypeOK, Socks, Channels, Both, Masks

\* Unless a bound socket is left without a descriptor, the socket, its channel and its
\* timers belong to the same connection, and between events something will end whatever
\* the socket waits for.
THEOREM SocketIsConsistent ==
    ASSUME ~BoundSocketFails
    PROVE  Spec => []Consistent
<1>1. SocketInvariant => Consistent
  <2> SUFFICES ASSUME SocketInvariant PROVE Consistent  OBVIOUS
  <2>1. TypeOK  BY InvariantTypeOK
  <2>2. /\ sock.enabled => sock.open
        /\ sock.state \in {"Connected", "Disconnecting"} => sock.enabled /\ kernel.link = "up"
        /\ sock.state = "Unconnected" =>
              ~sock.open /\ ~sock.connectTimer /\ ~sock.lookingUp
        /\ ~sock.enabled => kernel.fetched = {} /\ kernel.link = "none"
        /\ sock.state = "Connecting" => sock.posted = {} /\ sock.readBuf = 0
    BY Facts DEF Fits
  <2>3. stack = <<>> =>
          /\ told = CASE sock.state = "Unconnected" -> "none"
                      [] sock.state = "Connecting"  -> "connecting"
                      [] OTHER                      -> "connected"
          /\ sock.state = "Connecting" => sock.lookingUp \/ (sock.connectTimer /\ sock.enabled)
          /\ sock.state = "Disconnecting" => sock.disconnectTimer
    <3>1. sock.state \in States  BY Facts DEF Socks
    <3> QED  BY <3>1, Idle DEF States
  <2>4. ~alive => sock.state = "Unconnected" /\ \A i \in 1..Len(stack) : ~stack[i].same
    BY DEF SocketInvariant, Deleted
  <2> QED  BY <2>1, <2>2, <2>3, <2>4 DEF Consistent
<1> QED  BY <1>1, SocketIsInvariant, PTL

-----------------------------------------------------------------------------
(* What disconnected() tells. *)

\* Events e tell of the end of a connection only if its channel k has come to it.
Hup(e, k) == "hup" \in e => k.gone \/ k.link = "failed"

\* What was fetched for the channel k, and what the call of onEvent in s was given while
\* the connection of the socket x is still its own, tell only of an end there is; a call
\* that drains the channel has been told of one.
Heard(x, k, s) ==
    /\ Hup(k.fetched, k)
    /\ s # <<>> =>
        /\ s[1].same /\ x.state # "Unconnected" => Hup(s[1].mask, k)
        /\ s[1].at \in {"drain", "draining"} => "hup" \in s[1].mask

EndsHeard == Heard(sock, kernel, stack)

LEMMA HeardAppended ==
    ASSUME NEW s \in Seq(Frames), NEW x, NEW k, Heard(x, k, s),
           NEW f \in Frames, f.mask = {}, f.at \notin {"drain", "draining"}
    PROVE  Heard(x, k, Append(s, f))
<1> DEFINE a == Append(s, f)
<1>1. /\ Len(s) \in Nat /\ (\A i \in 1..Len(s) : a[i] = s[i]) /\ a[Len(s) + 1] = f
  BY Appended
<1>2. s # <<>> => Len(s) \in Nat \ {0}  BY TopOfStack
<1>3. s = <<>> => Len(s) = 0  OBVIOUS
<1> HIDE DEF a
<1>4. IF s = <<>> THEN a[1] = f ELSE a[1] = s[1]  BY <1>1, <1>2, <1>3
<1>5. Heard(x, k, a)  BY <1>4 DEF Heard, Hup
<1> QED  BY <1>5 DEF a

LEMMA HeardReturned ==
    ASSUME NEW s \in Seq(Frames), s # <<>>, NEW x, NEW k, Heard(x, k, s)
    PROVE  Heard(x, k, Front(s))
<1> DEFINE r == Front(s)
<1>1. /\ r \in Seq(Frames) /\ Len(r) = Len(s) - 1 /\ Len(s) \in Nat \ {0}
      /\ \A i \in 1..(Len(s) - 1) : r[i] = s[i]
  BY TopOfStack
<1> HIDE DEF r
<1>2. r # <<>> => r[1] = s[1]
  <2>1. r # <<>> => Len(r) \in Nat \ {0}  BY <1>1, TopOfStack
  <2> QED  BY <1>1, <2>1
<1>3. Heard(x, k, r)  BY <1>2 DEF Heard
<1> QED  BY <1>3 DEF r

\* Nobody asks what a call has been told for an earlier context.
LEMMA HeardElsewhere ==
    ASSUME NEW s \in Seq(Frames), NEW x, NEW k, Heard(x, k, s),
           NEW y, NEW c, Hup(c.fetched, c)
    PROVE  Heard(y, c, OtherContext(s))
<1> DEFINE o == OtherContext(s)
<1>1. /\ (s = <<>> <=> o = <<>>)
      /\ \A i \in 1..Len(s) : o[i] = [s[i] EXCEPT !.same = FALSE] /\ s[i] \in Frames
  BY Told
<1>2. s # <<>> => 1 \in 1..Len(s)  BY TopOfStack
<1> HIDE DEF o
<1>3. s # <<>> => o[1].at = s[1].at /\ o[1].mask = s[1].mask /\ ~o[1].same
  BY <1>1, <1>2 DEF Frames
<1>4. Heard(y, c, o)  BY <1>1, <1>3 DEF Heard
<1> QED  BY <1>4 DEF o

\* error() is no disconnected().
LEMMA HeardError ==
    ASSUME NEW s \in Seq(Frames), NEW x, NEW k, Heard(x, k, s), NEW w \in Knowledge,
           Fails(s, w)
    PROVE  Heard(x, k, stack') /\ ~EmitsDisconnected
<1> DEFINE f == Frame("error", {}, w)
<1>1. stack' = Append(s, f)  BY DEF Fails
<1>2. f \in Frames /\ f.mask = {} /\ f.at = "error"
  BY DEF Frame, Frames, Slots, FrameMasks
<1> HIDE DEF f
<1>3. Heard(x, k, stack')  BY <1>1, <1>2, HeardAppended
<1>4. Last(stack') = f  BY <1>1, <1>2, Appended
<1> QED  BY <1>2, <1>3, <1>4 DEF EmitsDisconnected, Running, Top

\* Nor does anything tell of the end of a connection that begins.
LEMMA HeardConnecting ==
    ASSUME NEW x, NEW c \in Seq(Frames), Heard(x, kernel, c),
           c # <<>> => ~c[1].same, ConnectToHost(x, c)
    PROVE  Heard(sock', kernel', stack') /\ ~EmitsDisconnected
<1>1. \A y : Heard(y, kernel, c)  BY DEF Heard
<1>2. \A y, k : Hup(k.fetched, k) => Heard(y, k, c)  BY DEF Heard
<1>3. Hup(NoChannel.fetched, NoChannel)  BY DEF Hup, NoChannel
<1>4. LET k == [NoChannel EXCEPT !.link = "pending"] IN Hup(k.fetched, k)
  BY DEF Hup, NoChannel
<1>5. "connecting" \in Knowledge  BY DEF Knowledge
<1>6. CASE Fails(c, "connecting") /\ kernel' \in {kernel, NoChannel}
  <2>1. Heard(sock', kernel', c)  BY <1>1, <1>2, <1>3, <1>6
  <2> QED  BY <1>5, <1>6, <2>1, HeardError
<1>7. CASE /\ stack' = c /\ told' = "connecting"
           /\ kernel' \in {NoChannel, [NoChannel EXCEPT !.link = "pending"]}
  <2>1. Heard(sock', kernel', c)  BY <1>2, <1>3, <1>4, <1>7
  <2> QED  BY <1>7, <2>1 DEF EmitsDisconnected
<1>8. \/ Fails(c, "connecting") /\ kernel' \in {kernel, NoChannel}
      \/ /\ stack' = c /\ told' = "connecting"
         /\ kernel' \in {NoChannel, [NoChannel EXCEPT !.link = "pending"]}
  BY DEF ConnectToHost
<1> QED  BY <1>6, <1>7, <1>8

\* Neither the channel nor the calls hear of an end, and the user is not told of one.
Quiet == Heard(sock', kernel', stack') /\ ~EmitsDisconnected

LEMMA HeardUser ==
    ASSUME SocketInvariant, EndsHeard, User
    PROVE  EndsHeard' /\ EndsKnown
<1>1. /\ UserRuns /\ Heard(sock, kernel, stack) /\ stack \in Seq(Frames)
      /\ sock \in Socks /\ kernel \in Channels /\ told \in Knowledge
  BY Facts DEF EndsHeard, User, Connect, Abort, DisconnectFromPeer, Write, Read, Skip,
               SetReadBufferCapacity
<1>2. Hup(kernel.fetched, kernel) /\ Hup(NoChannel.fetched, NoChannel)
  BY <1>1 DEF Heard, Hup, NoChannel
<1>3. SUFFICES Quiet \/ (Heard(sock', kernel', stack') /\ ShutdownFails)
  BY DEF Quiet, EndsHeard, EndsKnown
<1>4. CASE Connect
  <2> DEFINE o == OtherContext(stack)
             x == [Aborted(sock) EXCEPT !.state = "Connecting", !.addresses = 1]
  <2>1. \/ kernel' = NoChannel /\ Fails(o, "connecting")
        \/ ConnectToHost(x, o)
        \/ kernel' = NoChannel /\ stack' = o /\ told' = "connecting"
    BY <1>4 DEF Connect
  <2>2. o \in Seq(Frames) /\ (o # <<>> => ~o[1].same)
    <3>1. o \in Seq(Frames) /\ \A i \in 1..Len(o) : ~o[i].same  BY <1>1, UserFacts, Restarted
    <3> QED  BY <3>1, TopOfStack
  <2>3. Heard(x, kernel, o) /\ Heard(sock', NoChannel, o)
    BY <1>1, <1>2, HeardElsewhere
  <2> HIDE DEF o, x
  <2>4. "connecting" \in Knowledge  BY DEF Knowledge
  <2>5. Fails(o, "connecting") /\ kernel' = NoChannel => Quiet
    BY <2>2, <2>3, <2>4, HeardError DEF Quiet
  <2>6. ConnectToHost(x, o) => Quiet  BY <2>2, <2>3, HeardConnecting DEF Quiet
  <2>7. kernel' = NoChannel /\ stack' = o /\ told' = "connecting" => Quiet
    BY <2>3 DEF Quiet, EmitsDisconnected
  <2> QED  BY <2>1, <2>5, <2>6, <2>7
<1>5. CASE Abort
  <2> DEFINE o == OtherContext(stack)
  <2>1. kernel' = NoChannel /\ stack' = o  BY <1>5 DEF Abort
  <2>2. Heard(sock', NoChannel, o)  BY <1>1, <1>2, HeardElsewhere
  <2>3. o \in Seq(Frames) /\ \A i \in 1..Len(o) : ~o[i].same  BY <1>1, UserFacts, Restarted
  <2> HIDE DEF o
  <2>4. o # <<>> => ~Last(o).same  BY <2>3, TopOfStack
  <2> QED  BY <2>1, <2>2, <2>4 DEF Quiet, EmitsDisconnected, Running, Top
<1>6. CASE DisconnectFromPeer
  <2>1. sock.state = "Connected"  BY <1>6 DEF DisconnectFromPeer
  <2>2. CASE stack' = stack /\ told' = told
    <3>1. PICK i : kernel' = Modified(sock, kernel, i)
      <4>1. told = "connected"  BY <2>1, ConnectedCalls
      <4> QED  BY <1>6, <2>2, <4>1 DEF DisconnectFromPeer
    <3>2. /\ kernel'.link = kernel.link /\ kernel'.gone = kernel.gone
          /\ kernel'.fetched \in {kernel.fetched, {}}
      BY <1>1, <3>1 DEF Modified, Channels
    <3>3. Heard(sock', kernel', stack')
      BY <1>1, <2>1, <2>2, <3>2 DEF Heard, Hup
    <3> QED  BY <2>2, <3>3 DEF Quiet, EmitsDisconnected
  <2>3. CASE ~(stack' = stack /\ told' = told)
    <3> DEFINE i == IF sock.writeBuf = 0 THEN {} ELSE sock.interest \ {"in"}
               x == [sock EXCEPT !.state = "Disconnecting", !.disconnectTimer = TRUE,
                                 !.interest = i]
               r == AfterClosing(stack, x)
               f == Frame("disconnected", {}, told)
    <3>1. /\ kernel.gone /\ sock' = Closed(x) /\ kernel' = NoChannel
          /\ stack' = Append(r, f)
      BY <1>6, <2>3 DEF DisconnectFromPeer
    <3>2. Closed(x).state = "Unconnected"  BY DEF Closed, Aborted, NewSocket
    <3>3. r \in Seq(Frames) /\ Heard(sock', NoChannel, r)
      <4>1. Heard(sock', NoChannel, stack)
        BY <1>1, <1>2, <3>1, <3>2 DEF Heard
      <4>2. OtherContext(stack) \in Seq(Frames)  BY <1>1, Told
      <4>3. Heard(sock', NoChannel, OtherContext(stack))  BY <1>1, <1>2, HeardElsewhere
      <4> QED  BY <1>1, <4>1, <4>2, <4>3 DEF AfterClosing
    <3>4. f \in Frames /\ f.mask = {} /\ f.at = "disconnected"
      BY <1>1 DEF Frame, Frames, Slots, FrameMasks
    <3> HIDE DEF r, f, x
    <3>5. Heard(sock', kernel', stack')  BY <3>1, <3>3, <3>4, HeardAppended
    <3> QED  BY <1>1, <2>1, <3>1, <3>5 DEF ShutdownFails
  <2> QED  BY <2>2, <2>3
<1>7. CASE Write \/ Read \/ Skip \/ SetReadBufferCapacity
  <2>1. sock'.state = sock.state /\ UNCHANGED <<kernel, stack, told>>
    BY <1>1, <1>7 DEF Write, Read, Skip, SetReadBufferCapacity, Socks
  <2> QED  BY <1>1, <2>1 DEF Quiet, EmitsDisconnected, Heard
<1> QED  BY <1>4, <1>5, <1>6, <1>7 DEF User

\* The call of onEvent goes on, with an end in its mask only if there is one.
LEMMA HeardGoesOn ==
    ASSUME SocketInvariant, EndsHeard, stack # <<>>,
           Top.at \notin {"error", "disconnected"},
           NEW f \in Frames, Goes(f), f.at # "disconnected",
           f.same => Top.same,
           f.mask = Top.mask \/ Hup(f.mask, kernel'),
           f.at \in {"drain", "draining"} => "hup" \in f.mask,
           sock'.state # "Unconnected" => sock.state # "Unconnected",
           kernel'.link = kernel.link, kernel'.gone = kernel.gone,
           kernel'.fetched \in {kernel.fetched, {}}
    PROVE  Quiet
<1>1. stack' = <<f>> /\ Top = stack[1]
  <2>1. Nested(stack) /\ stack \in Seq(Frames)  BY Facts DEF Calls
  <2> QED  BY <2>1, Alone, Resumed DEF Top
<1>2. stack'[1] = f /\ Last(stack') = f  BY <1>1 DEF Last
<1>3. Heard(sock', kernel', stack')  BY <1>1, <1>2 DEF EndsHeard, Heard, Hup
<1> QED  BY <1>2, <1>3 DEF Quiet, EmitsDisconnected, Running, Top

LEMMA HeardFinishes ==
    ASSUME SocketInvariant, EndsHeard, stack # <<>>, Top.at \in {"sent", "sentData"},
           Finishes, UNCHANGED <<sock, kernel, told>>
    PROVE  Quiet
<1>1. Top \in Frames  BY Resumed
<1>2. CASE Top.same /\ "hup" \in Top.mask
  <2> DEFINE f == [Top EXCEPT !.at = "drain"]
  <2>1. Goes(f)  BY <1>2 DEF Finishes
  <2>2. f \in Frames /\ f.at = "drain" /\ f.same = Top.same /\ f.mask = Top.mask
    BY <1>1 DEF Frames
  <2> HIDE DEF f
  <2> QED  BY <1>2, <2>1, <2>2, HeardGoesOn
<1>3. CASE ~(Top.same /\ "hup" \in Top.mask)
  <2>1. stack' = Caller  BY <1>3 DEF Finishes
  <2>2. Heard(sock, kernel, stack')  BY <2>1, Facts, HeardReturned DEF EndsHeard, Caller
  <2> QED  BY <2>2 DEF Quiet, EmitsDisconnected
<1> QED  BY <1>2, <1>3

LEMMA HeardSlotReturns ==
    ASSUME SocketInvariant, EndsHeard, SlotReturns  PROVE Quiet
<1>1. /\ stack # <<>> /\ told' = told /\ stack \in Seq(Frames)
      /\ Heard(sock, kernel, stack) /\ Heard(sock, kernel, Caller) /\ Caller \in Seq(Frames)
  <2>1. stack # <<>> /\ told' = told  BY DEF SlotReturns, Finishes
  <2> QED  BY <2>1, Facts, HeardReturned, TopOfStack DEF EndsHeard, Caller
<1>2. CASE stack' = Caller /\ UNCHANGED <<sock, kernel>>
  BY <1>1, <1>2 DEF Quiet, EmitsDisconnected
<1>3. CASE Top.at = "error" /\ Top.same
  <2>1. kernel' = NoChannel /\ stack' = OtherContext(Caller)  BY <1>3 DEF SlotReturns
  <2>2. Hup(NoChannel.fetched, NoChannel)  BY DEF Hup, NoChannel
  <2> QED  BY <1>1, <2>1, <2>2, HeardElsewhere DEF Quiet, EmitsDisconnected
<1>4. CASE Top.at = "sentData"
  <2>1. Finishes /\ UNCHANGED <<sock, kernel, told>>  BY <1>4 DEF SlotReturns
  <2> QED  BY <1>1, <1>4, <2>1, HeardFinishes
<1>5. CASE /\ Top.at \in DOMAIN After /\ ~(Top.at = "connected" /\ ~Top.same)
  <2> DEFINE f == [Top EXCEPT !.at = After[Top.at]]
  <2>1. Top.at \in {"connected", "receivedData", "draining"}  BY <1>5 DEF After
  <2>2. Goes(f) /\ UNCHANGED <<sock, kernel>>  BY <1>5, <2>1 DEF SlotReturns
  <2>3. Top \in Frames /\ Top = stack[1]
    <3>1. Nested(stack)  BY Facts DEF Calls
    <3> QED  BY <1>1, <2>1, <3>1, Alone DEF Top
  <2>4. /\ After[Top.at] \in {"in", "sent", "drain"}
        /\ After[Top.at] = "drain" => Top.at = "draining"
    BY <2>1 DEF After
  <2>5. /\ f \in Frames /\ f.at = After[Top.at] /\ f.same = Top.same /\ f.mask = Top.mask
    BY <2>3, <2>4 DEF Frames
  <2>6. f.at = "drain" => "hup" \in f.mask  BY <1>1, <2>3, <2>4, <2>5 DEF Heard
  <2> HIDE DEF f
  <2>7. f.at \notin {"disconnected", "draining"}  BY <2>4, <2>5
  <2> QED  BY <1>1, <2>1, <2>2, <2>5, <2>6, <2>7, HeardGoesOn
<1>6. CASE Top.at = "error" /\ ~Top.same
  <2>1. stack' = Caller /\ UNCHANGED <<sock, kernel>>  BY <1>6 DEF SlotReturns
  <2> QED  BY <1>2, <2>1
<1>7. CASE Top.at = "disconnected" \/ (Top.at = "connected" /\ ~Top.same)
  <2>1. stack' = Caller /\ UNCHANGED <<sock, kernel>>  BY <1>7 DEF SlotReturns
  <2> QED  BY <1>2, <2>1
<1>8. Top.at \in {"disconnected", "error", "sentData"} \cup DOMAIN After
  <2>1. ASSUME Top.at \notin {"disconnected", "error", "sentData"}
        PROVE  Top.at \in DOMAIN After
    BY <2>1, <1>7 DEF SlotReturns, After
  <2> QED  BY <2>1
<1> QED  BY <1>3, <1>4, <1>5, <1>6, <1>7, <1>8

LEMMA HeardOut ==
    ASSUME SocketInvariant, EndsHeard, OnEventOut  PROVE Quiet
<1>1. /\ Running("out") /\ stack # <<>> /\ Top.at = "out" /\ Top \in Frames
      /\ Top.at \notin {"error", "disconnected"} /\ Caller = <<>>
      /\ sock \in Socks /\ kernel \in Channels
  BY OutFacts, Facts DEF OnEventOut
<1>2. CASE OutWhileConnected
  <2>1. PICK n \in Sendable(sock.writeBuf) :
          /\ sock' = Sent(n) /\ kernel' \in Takes(kernel, sock.writeBuf, n)
          /\ Goes([Top EXCEPT !.at = "in", !.sent = n > 0])
    BY <1>2 DEF OutWhileConnected
  <2>0. PICK b \in BOOLEAN : b = (n > 0)
    <3>1. (n > 0) \in BOOLEAN  OBVIOUS
    <3>2. (n > 0) = (n > 0)  OBVIOUS
    <3> QED  BY <3>1, <3>2, Zenon
  <2> DEFINE f == [Top EXCEPT !.at = "in", !.sent = b]
  <2>2. Goes(f)  BY <2>0, <2>1
  <2>3. f \in Frames /\ f.at = "in" /\ f.same = Top.same /\ f.mask = Top.mask
    BY <1>1, <2>0 DEF Frames
  <2> HIDE DEF f
  <2>4. sock.state = "Connected"  BY <1>2 DEF OutWhileConnected
  <2>5. /\ kernel'.link = kernel.link /\ kernel'.gone = kernel.gone
        /\ kernel'.fetched = kernel.fetched
    BY <1>1, <2>1, TakesSpace
  <2> QED  BY <1>1, <2>2, <2>3, <2>4, <2>5, HeardGoesOn
<1>3. CASE OutWhileDisconnecting
  <2> DEFINE I(n) == IF Sent(n).writeBuf = 0 THEN Sent(n).interest \ {"out"}
                     ELSE Sent(n).interest
  <2>0. PICK n \in Sendable(sock.writeBuf) :
          \E k \in Takes(kernel, sock.writeBuf, n), hup \in BOOLEAN :
            /\ hup => Sent(n).writeBuf = 0 /\ kernel.gone
            /\ kernel' = Modified(Sent(n), k, I(n))
            /\ Goes([Top EXCEPT !.at = "in", !.sent = n > 0,
                                !.mask = IF hup THEN @ \cup {"hup"} ELSE @])
    BY <1>3 DEF OutWhileDisconnecting
  <2>1. PICK k \in Takes(kernel, sock.writeBuf, n), hup \in BOOLEAN :
          /\ hup => kernel.gone
          /\ kernel' = Modified(Sent(n), k, I(n))
          /\ Goes([Top EXCEPT !.at = "in", !.sent = n > 0,
                              !.mask = IF hup THEN @ \cup {"hup"} ELSE @])
    BY <2>0
  <2>2. k \in Channels /\ k.link = kernel.link /\ k.gone = kernel.gone
        /\ k.fetched = kernel.fetched
    BY <1>1, TakesSpace
  <2>3. /\ kernel'.link = kernel.link /\ kernel'.gone = kernel.gone
        /\ kernel'.fetched \in {kernel.fetched, {}}
    BY <2>1, <2>2 DEF Modified, Channels
  <2>4. PICK b \in BOOLEAN : b = (n > 0)
    <3>1. (n > 0) \in BOOLEAN  OBVIOUS
    <3>2. (n > 0) = (n > 0)  OBVIOUS
    <3> QED  BY <3>1, <3>2, Zenon
  <2>5. PICK m \in FrameMasks : m = IF hup THEN Top.mask \cup {"hup"} ELSE Top.mask
    BY <1>1 DEF Frames, FrameMasks
  <2> DEFINE f == [Top EXCEPT !.at = "in", !.sent = b, !.mask = m]
  <2>6. Goes(f)  BY <2>1, <2>4, <2>5
  <2>7. f \in Frames /\ f.at = "in" /\ f.same = Top.same /\ f.mask = m
    BY <1>1, <2>4, <2>5 DEF Frames
  <2> HIDE DEF f
  <2>8. f.mask = Top.mask \/ Hup(f.mask, kernel')  BY <2>1, <2>3, <2>5, <2>7 DEF Hup
  <2>9. sock.state = "Disconnecting"  BY <1>3 DEF OutWhileDisconnecting
  <2> QED  BY <1>1, <2>3, <2>8, <2>9, <2>6, <2>7, HeardGoesOn
<1>4. CASE OutWhileConnecting
  <2> DEFINE x == [sock EXCEPT !.connectTimer = FALSE]
             c == Caller
  <2>1. CASE ConnectToHost(x, Caller)
    <3>1. c = <<>> /\ Heard(x, kernel, c) /\ ConnectToHost(x, c)
      <4>1. Hup(kernel.fetched, kernel)  BY DEF EndsHeard, Heard
      <4> QED  BY <1>1, <2>1, <4>1 DEF Heard
    <3>2. c \in Seq(Frames)  BY <3>1
    <3> HIDE DEF x, c
    <3> QED  BY <3>1, <3>2, HeardConnecting DEF Quiet
  <2>2. CASE ~ConnectToHost(x, Caller)
    <3> DEFINE f == [Top EXCEPT !.at = "connected", !.was = told]
    <3>1. Goes(f) /\ kernel' = kernel /\ sock.state = "Connecting"
      BY <1>4, <2>2 DEF OutWhileConnecting
    <3>2. f \in Frames /\ f.at = "connected" /\ f.same = Top.same /\ f.mask = Top.mask
      BY <1>1, Facts DEF Frames, Slots
    <3> HIDE DEF f
    <3> QED  BY <1>1, <3>1, <3>2, HeardGoesOn
  <2> QED  BY <2>1, <2>2
<1>5. CASE ~("out" \in Top.mask /\ sock.state # "Unconnected")
  <2> DEFINE f == [Top EXCEPT !.at = "in"]
  <2>1. Goes(f) /\ UNCHANGED <<sock, kernel, told>>  BY <1>5 DEF OnEventOut
  <2>2. f \in Frames /\ f.at = "in" /\ f.same = Top.same /\ f.mask = Top.mask
    BY <1>1 DEF Frames
  <2> HIDE DEF f
  <2> QED  BY <1>1, <2>1, <2>2, HeardGoesOn
<1> QED  BY <1>2, <1>3, <1>4, <1>5 DEF OnEventOut

LEMMA HeardIn ==
    ASSUME SocketInvariant, EndsHeard, OnEventIn  PROVE Quiet
<1>1. /\ Running("in") /\ stack # <<>> /\ Top.at = "in"
      /\ Top.at \notin {"error", "disconnected"}
      /\ sock \in Socks /\ kernel \in Channels
  BY Facts DEF OnEventIn, Running
<1>2. Top \in Frames /\ Top.same  BY <1>1, Resumed DEF One
<1>3. PICK a \in {"sent", "receivedData"} :
        Goes([Top EXCEPT !.same = TRUE, !.was = told, !.at = a])
  BY DEF OnEventIn
<1> DEFINE f == [Top EXCEPT !.same = TRUE, !.was = told, !.at = a]
<1>4. Goes(f)  BY <1>3
<1>5. f \in Frames /\ f.at = a /\ f.mask = Top.mask
  BY <1>2, Facts DEF Frames, Slots
<1> HIDE DEF f
<1>6. sock'.state = sock.state
  BY <1>1 DEF OnEventIn, Filled, Socks
<1>7. /\ kernel'.link = kernel.link /\ kernel'.gone = kernel.gone
      /\ kernel'.fetched = kernel.fetched
  BY <1>1 DEF OnEventIn, Emptied, Channels
<1> QED  BY <1>1, <1>2, <1>4, <1>5, <1>6, <1>7, HeardGoesOn

LEMMA HeardSent ==
    ASSUME SocketInvariant, EndsHeard, OnEventSent  PROVE Quiet
<1>1. /\ stack # <<>> /\ Top.at = "sent" /\ Top.at \notin {"error", "disconnected"}
      /\ UNCHANGED <<sock, kernel, told>>
  BY DEF OnEventSent, Running
<1>2. CASE Top.same /\ Top.sent
  <2> DEFINE f == [Top EXCEPT !.at = "sentData"]
  <2>1. Goes(f)  BY <1>2 DEF OnEventSent
  <2>2. Top \in Frames  BY <1>1, Resumed
  <2>3. f \in Frames /\ f.at = "sentData" /\ f.same = Top.same /\ f.mask = Top.mask
    BY <2>2 DEF Frames, Slots
  <2> HIDE DEF f
  <2> QED  BY <1>1, <2>1, <2>3, HeardGoesOn
<1>3. CASE ~(Top.same /\ Top.sent)
  <2>1. Finishes  BY <1>3 DEF OnEventSent
  <2> QED  BY <1>1, <2>1, HeardFinishes
<1> QED  BY <1>2, <1>3

\* Only a call that has heard of the end, of a connection that has come to it, gets here.
LEMMA HeardDrain ==
    ASSUME SocketInvariant, EndsHeard, OnEventDrain
    PROVE  EndsHeard' /\ EndsKnown
<1> DEFINE x == [sock EXCEPT !.hasToAdd = FALSE, !.posted = {}]
           told1 == sock.state \in {"Connected", "Disconnecting"}
           f == Frame("disconnected", {}, told)
<1>1. /\ Running("drain") /\ stack # <<>> /\ Top.at = "drain"
      /\ Top.at \notin {"error", "disconnected"}
      /\ sock \in Socks /\ kernel \in Channels
  BY Facts DEF OnEventDrain, Running
<1>2. Top \in Frames /\ Caller = <<>> /\ Top = stack[1]
  <2>1. Nested(stack) /\ stack \in Seq(Frames)  BY Facts DEF Calls
  <2> QED  BY <1>1, <2>1, Alone, Resumed DEF Top
<1>3. /\ "hup" \in Top.mask /\ Hup(kernel.fetched, kernel)
      /\ Top.same /\ sock.state # "Unconnected" => Hup(Top.mask, kernel)
  BY <1>1, <1>2 DEF EndsHeard, Heard
<1>4. CASE Drains
  <2> DEFINE g == [Top EXCEPT !.at = "draining", !.was = told]
  <2>1. Goes(g) /\ sock' = Filled(sock, kernel) /\ kernel' = Emptied(sock, kernel)
    BY <1>4 DEF OnEventDrain
  <2>2. g \in Frames /\ g.at = "draining" /\ g.same = Top.same /\ g.mask = Top.mask
    BY <1>2, Facts DEF Frames, Slots
  <2>3. sock'.state = sock.state  BY <1>1, <2>1 DEF Filled, Socks
  <2>4. /\ kernel'.link = kernel.link /\ kernel'.gone = kernel.gone
        /\ kernel'.fetched = kernel.fetched
    BY <1>1, <2>1 DEF Emptied, Channels
  <2> HIDE DEF g
  <2>5. Quiet  BY <1>1, <1>3, <2>1, <2>2, <2>3, <2>4, HeardGoesOn
  <2> QED  BY <2>5 DEF Quiet, EndsHeard, EndsKnown
<1>5. CASE ~Drains /\ Top.same
  <2> DEFINE r == AfterClosing(Caller, x)
  <2>1. /\ kernel' = NoChannel /\ stack' = r \o IF told1 THEN <<f>> ELSE <<>>
        /\ told' = IF told1 THEN "none" ELSE told
    BY <1>5 DEF OnEventDrain
  <2>2. r = <<>>
    <3>1. OtherContext(<<>>) = <<>>
      <4>1. <<>> \in Seq(Frames)  OBVIOUS
      <4> QED  BY <4>1, Told
    <3> QED  BY <1>2, <3>1 DEF AfterClosing
  <2> HIDE DEF r
  <2>3. f.at = "disconnected"  BY DEF Frame
  <2> HIDE DEF f
  <2>4. stack' = IF told1 THEN <<f>> ELSE <<>>  BY <2>1, <2>2
  <2>5. sock'.state = "Unconnected"
    <3>1. sock' = Closed(x)  BY <1>5 DEF OnEventDrain
    <3>2. sock \in Socks  BY <1>1
    <3>3. x \in Socks  BY <3>2 DEF Socks, Both
    <3> HIDE DEF x
    <3>4. Closed(x).state = "Unconnected"
      BY <3>3 DEF Closed, Aborted, NewSocket, Socks
    <3> QED  BY <3>1, <3>4
  <2>6. EndsHeard'  BY <2>1, <2>3, <2>4, <2>5 DEF EndsHeard, Heard, Hup, NoChannel
  <2>7. ASSUME EmitsDisconnected PROVE PeerEnds
    <3>1. told1  BY <2>1, <2>7 DEF EmitsDisconnected
    <3>2. kernel.link = "up"  BY <3>1, Facts DEF Fits
    <3>3. kernel.gone  BY <1>3, <1>5, <3>1, <3>2 DEF Hup
    <3> QED  BY <1>1, <1>3, <3>3 DEF PeerEnds
  <2> QED  BY <2>6, <2>7 DEF EndsKnown
<1>6. CASE ~Drains /\ ~Top.same
  <2>1. stack' = <<>> /\ kernel' = kernel /\ told' = told
    BY <1>2, <1>6 DEF OnEventDrain
  <2> QED  BY <1>3, <2>1 DEF EndsHeard, Heard, EndsKnown, EmitsDisconnected
<1> QED  BY <1>4, <1>5, <1>6

LEMMA HeardLoop ==
    ASSUME SocketInvariant, EndsHeard, Loop  PROVE Quiet
<1>1. /\ stack = <<>> /\ told' = told /\ Hup(kernel.fetched, kernel)
      /\ sock \in Socks /\ kernel \in Channels
  BY Facts DEF Loop, EpollWait, ProcessFetched, ProcessPosted, EndsHeard, Heard
<1>2. CASE EpollWait
  <2>1. stack' = <<>> /\ kernel' = [kernel EXCEPT !.edge = FALSE,
                                                  !.fetched = Ready(kernel, sock.interest)]
    BY <1>2 DEF EpollWait
  <2>2. sock.interest \in SUBSET Both  BY <1>1 DEF Socks
  <2>3. Hup(Ready(kernel, sock.interest), kernel)  BY <2>2 DEF Hup, Ready, Both
  <2>4. Hup(kernel'.fetched, kernel')  BY <1>1, <2>1, <2>3 DEF Hup, Channels
  <2> QED  BY <1>1, <2>1, <2>4 DEF Quiet, Heard, EmitsDisconnected
<1>3. CASE ProcessFetched
  <2> DEFINE m == kernel.fetched
             f == Frame("out", m, told)
  <2>1. stack' = <<f>> /\ kernel' = [kernel EXCEPT !.fetched = {}]
    BY <1>3 DEF ProcessFetched
  <2>2. f.at = "out" /\ f.mask = m  BY DEF Frame
  <2>3. kernel'.fetched = {} /\ kernel'.link = kernel.link /\ kernel'.gone = kernel.gone
    BY <1>1, <2>1 DEF Channels
  <2> HIDE DEF f
  <2>4. stack'[1] = f  BY <2>1
  <2> QED  BY <1>1, <2>2, <2>3, <2>4 DEF Quiet, Heard, Hup, EmitsDisconnected
<1>4. CASE ProcessPosted
  <2> DEFINE f == Frame("out", sock.posted, told)
  <2>1. stack' = <<f>> /\ kernel' = kernel  BY <1>4 DEF ProcessPosted
  <2>2. f.at = "out" /\ "hup" \notin f.mask
    <3>1. sock.posted \in SUBSET Both  BY <1>1 DEF Socks
    <3>2. f.at = "out" /\ f.mask = sock.posted  BY DEF Frame
    <3> HIDE DEF f
    <3> QED  BY <3>1, <3>2 DEF Both
  <2> HIDE DEF f
  <2>3. stack'[1] = f  BY <2>1
  <2> QED  BY <1>1, <2>1, <2>2, <2>3 DEF Quiet, Heard, Hup, EmitsDisconnected
<1> QED  BY <1>2, <1>3, <1>4 DEF Loop

LEMMA HeardTimers ==
    ASSUME SocketInvariant, EndsHeard, OnConnectTimeout \/ OnDisconnectTimeout \/ OnHostFound
    PROVE  EndsHeard' /\ EndsKnown
<1>1. /\ stack = <<>> /\ Hup(kernel.fetched, kernel) /\ told \in Knowledge
      /\ stack \in Seq(Frames) /\ \A x : Heard(x, kernel, stack)
  BY Facts DEF OnConnectTimeout, OnDisconnectTimeout, OnHostFound, EndsHeard, Heard
<1>2. \A x : ConnectToHost(x, stack) => Quiet
  BY <1>1, HeardConnecting DEF Quiet
<1>3. SUFFICES Quiet \/ (EndsHeard' /\ TimesOut)  BY DEF Quiet, EndsHeard, EndsKnown
<1>4. CASE OnConnectTimeout
  BY <1>1, <1>2, <1>4 DEF OnConnectTimeout, Quiet, EmitsDisconnected
<1>5. CASE OnDisconnectTimeout
  <2>1. CASE GivesUp
    <3> DEFINE f == Frame("disconnected", {}, told)
    <3>1. kernel' = NoChannel /\ stack' = <<f>>  BY <1>5, <2>1 DEF OnDisconnectTimeout
    <3>2. f.at = "disconnected" /\ f.mask = {}  BY DEF Frame
    <3> HIDE DEF f
    <3>3. stack'[1] = f  BY <3>1
    <3>4. EndsHeard'  BY <3>1, <3>2, <3>3 DEF EndsHeard, Heard, Hup, NoChannel
    <3>5. TimesOut  BY <1>1, <1>5, <2>1 DEF OnDisconnectTimeout, GivesUp, TimesOut
    <3> QED  BY <3>4, <3>5
  <2>2. CASE ~GivesUp
    <3>1. UNCHANGED <<kernel, stack, told>>  BY <1>5, <2>2 DEF OnDisconnectTimeout
    <3> QED  BY <1>1, <3>1 DEF Quiet, EmitsDisconnected
  <2> QED  BY <2>1, <2>2
<1>6. CASE OnHostFound
  <2>1. ASSUME kernel' = kernel, Fails(stack, told) PROVE Quiet
    BY <1>1, <2>1, HeardError DEF Quiet
  <2> QED  BY <1>2, <1>6, <2>1 DEF OnHostFound
<1> QED  BY <1>3, <1>4, <1>5, <1>6

\* A channel whose peer has gone, or that has failed, stays so.
LEMMA HeardKernel ==
    ASSUME SocketInvariant, EndsHeard, DataArrives \/ Network  PROVE Quiet
<1>1. /\ stack' = stack /\ sock' = sock /\ told' = told /\ kernel \in Channels
  BY Facts DEF DataArrives, Network
<1>2. /\ kernel'.fetched = kernel.fetched /\ (kernel.gone => kernel'.gone)
      /\ kernel.link = "failed" => kernel'.link = "failed"
  BY <1>1 DEF DataArrives, Network, ConnectionDecided, PeerGoes, SpaceFrees, Channels
<1> QED  BY <1>1, <1>2 DEF EndsHeard, Heard, Hup, Quiet, EmitsDisconnected

LEMMA EndsHeardStep ==
    SocketInvariant /\ EndsHeard /\ [Next]_vars => EndsHeard' /\ [EndsKnown]_vars
<1> SUFFICES ASSUME SocketInvariant, EndsHeard, [Next]_vars
             PROVE  EndsHeard' /\ EndsKnown
  OBVIOUS
<1>1. Quiet => EndsHeard' /\ EndsKnown  BY DEF Quiet, EndsHeard, EndsKnown
<1>2. CASE User  BY <1>2, HeardUser
<1>3. CASE SlotReturns  BY <1>1, <1>3, HeardSlotReturns
<1>4. CASE OnEvent
  BY <1>1, <1>4, HeardOut, HeardIn, HeardSent, HeardDrain DEF OnEvent
<1>5. CASE Loop  BY <1>1, <1>5, HeardLoop
<1>6. CASE OnConnectTimeout \/ OnDisconnectTimeout \/ OnHostFound
  BY <1>6, HeardTimers
<1>7. CASE DataArrives \/ Network  BY <1>1, <1>7, HeardKernel
<1>8. CASE UNCHANGED vars
  BY <1>8 DEF vars, EndsHeard, EndsKnown, EmitsDisconnected
<1> QED  BY <1>2, <1>3, <1>4, <1>5, <1>6, <1>7, <1>8 DEF Next

\* Every signal is one the user awaits: none is emitted for a connection it does not know
\* of, and none twice; and disconnected() tells that the peer has gone, but for a peer that
\* stays until the disconnect timer expires.  (That the shutdown failed, or the time was
\* over, is not told by error(), as the documentation has it.)
THEOREM SignalsAreExpected == Spec => SignalsFit
<1>1. SocketInvariant => SignalsAwaited
  BY DEF SocketInvariant, Calls, Signalled, SignalsAwaited
<1>2. Init => EndsHeard
  <2> SUFFICES ASSUME Init PROVE EndsHeard  OBVIOUS
  <2>1. stack = <<>> /\ kernel \in {NoChannel, [NoChannel EXCEPT !.link = "up", !.edge = TRUE]}
    BY DEF Init
  <2>2. /\ NoChannel.fetched = {}
        /\ [NoChannel EXCEPT !.link = "up", !.edge = TRUE].fetched = {}
    BY DEF NoChannel
  <2> QED  BY <2>1, <2>2 DEF EndsHeard, Heard, Hup
<1> QED  BY <1>1, <1>2, EndsHeardStep, SocketIsInvariant, PTL DEF Spec, SignalsFit

\* What the kernel holds is read once there is room for it.
THEOREM ReadsAreScheduled == Spec => []ReadsScheduled
<1>1. SocketInvariant => ReadsScheduled
  BY DEF SocketInvariant, ReadsComing, Reading, Failing, ReadsScheduled
<1> QED  BY <1>1, SocketIsInvariant, PTL

-----------------------------------------------------------------------------
(* The TLS socket.  OpenSSL first: what it makes of the fragments it is shown. *)

Fragments == {"flight", "part", "data", "close", "bad"}
Roles == {"client", "server", "none"}

TlsObjects ==
    [ssl : BOOLEAN, role : Roles, completed : BOOLEAN, timer : BOOLEAN,
     inbound : Seq(Fragments), out : Nat, awaited : 0..2, parts : 0..1, pending : Nat,
     wantsToRead : BOOLEAN, closeSent : BOOLEAN, closeReceived : BOOLEAN,
     failed : BOOLEAN, heard : BOOLEAN, behind : BOOLEAN]

\* The flights of the handshake come before any data, and nothing after a close_notify
\* or a fragment that is refused; there is no data before the last flight.
Ordered(t) ==
    /\ \A j \in 1..Len(t.inbound) :
        /\ t.inbound[j] = "flight" => j <= t.awaited
        /\ t.inbound[j] \in {"part", "data"} => t.awaited < j
        /\ t.inbound[j] \in {"close", "bad"} => j = Len(t.inbound)
    /\ t.parts > 0 \/ t.pending > 0 => t.awaited = 0

Held(t) == t.pending + t.parts + Len(t.inbound)

LEMMA LeastOf ==
    ASSUME NEW S, S \subseteq Nat, S # {}
    PROVE  \E n \in S : \A m \in S : n <= m
<1>1. PICK n \in S : \A m \in S : ~(<<m, n>> \in OpToRel(<, Nat))
  BY NatLessThanWellFounded, WFMin
<1>2. \A m \in S : m \in Nat /\ n \in Nat /\ ~(m < n)  BY <1>1 DEF OpToRel
<1>3. \A m \in S : n <= m
  <2> SUFFICES ASSUME NEW m \in S PROVE n <= m  OBVIOUS
  <2>1. m \in Nat /\ n \in Nat /\ ~(m < n)  BY <1>2
  <2> QED  BY <2>1
<1> QED  BY <1>3

\* The fragments are shown one by one.
LEMMA SslReadRuns ==
    ASSUME NEW t, NEW room, Len(t.inbound) \in Nat
    PROVE  \E f : /\ f[0] = t /\ SslRead(t, room) = f[Len(t.inbound)]
                  /\ \A n \in 1..Len(t.inbound) : f[n] = Shown(f[n - 1], room)
<1> DEFINE L == Len(t.inbound)
           Run(f, n) ==
             f = [i \in 0..n |-> IF i = 0 THEN t ELSE Shown(f[i - 1], room)]
           Bad == {n \in Nat : \A f : ~Run(f, n)}
<1>1. Bad = {}
  <2> SUFFICES ASSUME Bad # {} PROVE FALSE  OBVIOUS
  <2>1. Bad \subseteq Nat  OBVIOUS
  <2>2. PICK n \in Bad : \A m \in Bad : n <= m
    <3> HIDE DEF Bad
    <3> QED  BY <2>1, LeastOf
  <2>3. n \in Nat /\ \A f : ~Run(f, n)  OBVIOUS
  <2>4. CASE n = 0
    <3> DEFINE g == [i \in 0..0 |-> t]
    <3>1. Run(g, 0)  OBVIOUS
    <3> QED  BY <2>3, <2>4, <3>1
  <2>5. CASE n # 0
    <3>1. n - 1 \in Nat /\ n - 1 \notin Bad
      <4>1. n - 1 \in Nat /\ ~(n <= n - 1)  BY <2>3, <2>5
      <4> HIDE DEF Bad
      <4> QED  BY <2>2, <4>1
    <3>2. PICK f : Run(f, n - 1)  BY <3>1
    <3>3. f = [i \in 0..(n - 1) |-> IF i = 0 THEN t ELSE Shown(f[i - 1], room)]  BY <3>2
    <3> DEFINE g == [i \in 0..n |-> IF i = n THEN Shown(f[n - 1], room) ELSE f[i]]
    <3>4. \A i \in 0..n : g[i] = IF i = 0 THEN t ELSE Shown(g[i - 1], room)
      <4> SUFFICES ASSUME NEW i \in 0..n
                   PROVE  g[i] = IF i = 0 THEN t ELSE Shown(g[i - 1], room)
        OBVIOUS
      <4>1. CASE i = n
        <5>1. n - 1 \in 0..n /\ n - 1 # n /\ n \in 0..n  BY <2>3, <3>1
        <5>2. g[n - 1] = f[n - 1] /\ g[n] = Shown(f[n - 1], room)  BY <5>1
        <5> QED  BY <2>5, <4>1, <5>2
      <4>2. CASE i # n
        <5>1. i \in 0..(n - 1) /\ (i # 0 => i - 1 \in 0..n /\ i - 1 # n)
          BY <2>3, <4>2
        <5>2. g[i] = f[i] /\ (i # 0 => g[i - 1] = f[i - 1])  BY <4>2, <5>1
        <5>3. f[i] = IF i = 0 THEN t ELSE Shown(f[i - 1], room)  BY <3>3, <5>1
        <5> QED  BY <5>2, <5>3
      <4> QED  BY <4>1, <4>2
    <3>5. g = [i \in 0..n |-> g[i]]  OBVIOUS
    <3> HIDE DEF g
    <3>6. g = [i \in 0..n |-> IF i = 0 THEN t ELSE Shown(g[i - 1], room)]
      BY <3>4, <3>5
    <3>7. Run(g, n)  BY <3>6
    <3> QED  BY <2>3, <3>7
  <2> QED  BY <2>4, <2>5
<1>2. \E f : Run(f, L)  BY <1>1
<1> DEFINE g == CHOOSE f : Run(f, L)
<1>3. Run(g, L)  BY <1>2
<1>4. SslRead(t, room) = g[L]  BY DEF SslRead
<1> HIDE DEF g
<1>5. /\ g[0] = t
      /\ \A n \in 1..L : g[n] = Shown(g[n - 1], room)
  <2>1. g = [i \in 0..L |-> IF i = 0 THEN t ELSE Shown(g[i - 1], room)]  BY <1>3
  <2>2. 0 \in 0..L /\ \A n \in 1..L : n \in 0..L /\ n # 0  OBVIOUS
  <2> QED  BY <2>1, <2>2
<1> QED  BY <1>4, <1>5

Enough(t, room) == t.pending >= room \/ t.failed

\* What OpenSSL leaves alone, and what it may change, when it is shown fragments.
Progresses(t, u) ==
    /\ u \in TlsObjects /\ Ordered(u)
    /\ u.ssl = t.ssl /\ u.role = t.role /\ u.completed = t.completed /\ u.timer = t.timer
    /\ u.wantsToRead = t.wantsToRead /\ u.closeSent = t.closeSent /\ u.heard = t.heard
    /\ u.behind = t.behind
    /\ Held(u) <= Held(t) /\ Len(u.inbound) <= Len(t.inbound)
    /\ u.out + u.awaited = t.out + t.awaited /\ u.awaited <= t.awaited

LEMMA TlsNumbers ==
    ASSUME NEW t \in TlsObjects
    PROVE  /\ t.out \in Nat /\ t.awaited \in 0..2 /\ t.awaited \in Nat
           /\ t.parts \in 0..1 /\ t.parts \in Nat
           /\ t.pending \in Nat /\ t.inbound \in Seq(Fragments) /\ Len(t.inbound) \in Nat
           /\ Held(t) \in Nat
<1>1. /\ t.out \in Nat /\ t.awaited \in 0..2 /\ t.parts \in 0..1 /\ t.pending \in Nat
      /\ t.inbound \in Seq(Fragments)
  BY DEF TlsObjects
<1>2. Len(t.inbound) \in Nat  BY <1>1, LenProperties
<1> QED  BY <1>1, <1>2 DEF Held

LEMMA ShownFragment ==
    ASSUME NEW t \in TlsObjects, Ordered(t), NEW room \in Nat, ~Enough(t, room),
           t.inbound # <<>>
    PROVE  /\ Progresses(t, Shown(t, room))
           /\ Len(Shown(t, room).inbound) = Len(t.inbound) - 1
<1> DEFINE f == Head(t.inbound)
           r == Tail(t.inbound)
           d == Decrypted(t, f)
           u == [d EXCEPT !.inbound = r]
<1>1. Shown(t, room) = u
  <2>1. Shown(t, room) = [d EXCEPT !.inbound = Tail(@)]  BY DEF Shown, Enough
  <2>2. d.inbound = t.inbound
    <3>1. f \in Fragments  BY TlsNumbers, HeadTailProperties
    <3> QED  BY <3>1 DEF Decrypted, Fragments, TlsObjects
  <2>3. f \in Fragments  BY TlsNumbers, HeadTailProperties
  <2>4. [d EXCEPT !.inbound = Tail(@)] = [d EXCEPT !.inbound = r]
    <3>1. [d EXCEPT !.inbound = Tail(@)] = [d EXCEPT !.inbound = Tail(d.inbound)]  OBVIOUS
    <3> QED  BY <2>2, <3>1
  <2> QED  BY <2>1, <2>4
<1>2. /\ f \in Fragments /\ r \in Seq(Fragments) /\ Len(r) = Len(t.inbound) - 1
      /\ f = t.inbound[1] /\ Len(t.inbound) \in Nat \ {0}
      /\ \A j \in 1..Len(r) : r[j] = t.inbound[j + 1]
  BY TlsNumbers, HeadTailProperties, EmptySeq
<1>3. /\ f = "flight" => t.awaited >= 1
      /\ f \in {"part", "data"} => t.awaited = 0
      /\ f \in {"close", "bad"} => Len(r) = 0
  <2>1. 1 \in 1..Len(t.inbound)  BY <1>2
  <2>2. /\ f = "flight" => 1 <= t.awaited
        /\ f \in {"part", "data"} => t.awaited < 1
        /\ f \in {"close", "bad"} => 1 = Len(t.inbound)
    BY <1>2, <2>1 DEF Ordered
  <2> QED  BY <1>2, <2>2, TlsNumbers
<1> DEFINE a == IF f = "flight" THEN t.awaited - 1 ELSE t.awaited
           o == IF f = "flight" THEN t.out + 1 ELSE t.out
           p == IF f = "part" THEN 1 ELSE IF f = "data" THEN 0 ELSE t.parts
           q == IF f = "data" THEN t.pending + t.parts + 1 ELSE t.pending
           c == f = "close" \/ t.closeReceived
           b == f = "bad" \/ t.failed
<1>4. /\ a \in 0..2 /\ a <= t.awaited /\ o \in Nat /\ p \in 0..1 /\ q \in Nat
      /\ o + a = t.out + t.awaited
      /\ q + p + Len(r) <= Held(t)
      /\ c \in BOOLEAN /\ b \in BOOLEAN
  <2>0. /\ t.awaited \in 0..2 /\ t.out \in Nat /\ t.parts \in 0..1 /\ t.pending \in Nat
        /\ t.closeReceived \in BOOLEAN /\ t.failed \in BOOLEAN
        /\ Len(r) \in Nat /\ Held(t) = t.pending + t.parts + Len(r) + 1
    BY <1>2 DEF Held, TlsObjects
  <2> HIDE DEF f, r, d, u
  <2>1. CASE f = "flight"
    <3>1. /\ a = t.awaited - 1 /\ o = t.out + 1 /\ p = t.parts /\ q = t.pending
          /\ c = t.closeReceived /\ b = t.failed
      BY <2>0, <2>1
    <3> HIDE DEF a, o, p, q, c, b
    <3> QED  BY <1>3, <2>0, <2>1, <3>1
  <2>2. CASE f = "part"
    <3>1. /\ a = t.awaited /\ o = t.out /\ p = 1 /\ q = t.pending
          /\ c = t.closeReceived /\ b = t.failed
      BY <2>0, <2>2
    <3> HIDE DEF a, o, p, q, c, b
    <3> QED  BY <2>0, <3>1
  <2>3. CASE f = "data"
    <3>1. /\ a = t.awaited /\ o = t.out /\ p = 0 /\ q = t.pending + t.parts + 1
          /\ c = t.closeReceived /\ b = t.failed
      BY <2>0, <2>3
    <3> HIDE DEF a, o, p, q, c, b
    <3> QED  BY <2>0, <3>1
  <2>4. CASE f \in {"close", "bad"}
    <3>1. /\ a = t.awaited /\ o = t.out /\ p = t.parts /\ q = t.pending
          /\ c \in BOOLEAN /\ b \in BOOLEAN
      BY <2>0, <2>4
    <3> HIDE DEF a, o, p, q, c, b
    <3> QED  BY <2>0, <3>1
  <2> HIDE DEF a, o, p, q, c, b
  <2> QED  BY <1>2, <2>1, <2>2, <2>3, <2>4 DEF Fragments
<1>5. u = [t EXCEPT !.inbound = r, !.awaited = a, !.out = o, !.parts = p, !.pending = q,
                    !.closeReceived = c, !.failed = b]
  <2>1. CASE f = "flight"  BY <2>1, ZenonT(40) DEF Decrypted, TlsObjects
  <2>2. CASE f = "part"  BY <2>2, ZenonT(40) DEF Decrypted, TlsObjects
  <2>3. CASE f = "data"  BY <2>3, ZenonT(40) DEF Decrypted, TlsObjects
  <2>4. CASE f = "close"  BY <2>4, ZenonT(40) DEF Decrypted, TlsObjects
  <2>5. CASE f = "bad"  BY <2>5, ZenonT(40) DEF Decrypted, TlsObjects
  <2> QED  BY <1>2, <2>1, <2>2, <2>3, <2>4, <2>5 DEF Fragments
<1>6. Ordered([t EXCEPT !.inbound = r, !.awaited = a, !.out = o, !.parts = p, !.pending = q,
                        !.closeReceived = c, !.failed = b])
  <2> DEFINE v == [t EXCEPT !.inbound = r, !.awaited = a, !.out = o, !.parts = p,
                            !.pending = q, !.closeReceived = c, !.failed = b]
  <2>1. v.inbound = r /\ v.awaited = a /\ v.parts = p /\ v.pending = q
    BY DEF TlsObjects
  <2>0. /\ f = "flight" => a = t.awaited - 1
        /\ f # "flight" => a = t.awaited
    OBVIOUS
  <2> HIDE DEF v, f, r, a, p, q
  <2>2. ASSUME NEW j \in 1..Len(r)
        PROVE  /\ r[j] = "flight" => j <= a
               /\ r[j] \in {"part", "data"} => a < j
               /\ r[j] \in {"close", "bad"} => j = Len(r)
    <3>1. r[j] = t.inbound[j + 1] /\ j + 1 \in 1..Len(t.inbound) /\ j \in Nat
      BY <1>2
    <3>2. /\ r[j] = "flight" => j + 1 <= t.awaited
          /\ r[j] \in {"part", "data"} => t.awaited < j + 1
          /\ r[j] \in {"close", "bad"} => j + 1 = Len(t.inbound)
      BY <3>1 DEF Ordered
    <3>3. f \in {"flight", "part", "data"}
      BY <1>2, <1>3 DEF Fragments
    <3>4. CASE f = "flight"
      <4>1. a = t.awaited - 1 /\ t.awaited \in Nat  BY <2>0, <3>4, TlsNumbers
      <4> QED  BY <1>2, <3>1, <3>2, <4>1
    <3>5. CASE f \in {"part", "data"}
      <4>1. a = 0 /\ t.awaited = 0  BY <1>3, <2>0, <3>5
      <4> QED  BY <1>2, <3>1, <3>2, <4>1
    <3> QED  BY <3>3, <3>4, <3>5
  <2> USE DEF f, a, p, q
  <2>3. p > 0 \/ q > 0 => a = 0
    <3>1. CASE f \in {"part", "data"}  BY <1>3, <3>1
    <3>2. CASE f \notin {"part", "data"}
      <4>1. t.parts > 0 \/ t.pending > 0 => t.awaited = 0  BY DEF Ordered
      <4>2. f = "flight" => t.awaited >= 1  BY <1>3
      <4> QED  BY <3>2, <4>1, <4>2, TlsNumbers
    <3> QED  BY <3>1, <3>2
  <2> HIDE DEF r, a, p, q
  <2> QED  BY <2>1, <2>2, <2>3 DEF Ordered, v
<1> HIDE DEF u, f, r, d, a, o, p, q, c, b
<1>7. /\ u \in TlsObjects /\ u.inbound = r /\ u.awaited = a /\ u.out = o
      /\ u.parts = p /\ u.pending = q
      /\ u.ssl = t.ssl /\ u.role = t.role /\ u.completed = t.completed /\ u.timer = t.timer
      /\ u.wantsToRead = t.wantsToRead /\ u.closeSent = t.closeSent /\ u.heard = t.heard
      /\ u.behind = t.behind
  BY <1>2, <1>4, <1>5 DEF TlsObjects
<1>8. Held(u) <= Held(t)  BY <1>4, <1>7 DEF Held
<1>9. Len(u.inbound) <= Len(t.inbound)  BY <1>2, <1>7
<1>10. Ordered(u)  BY <1>5, <1>6
<1> QED  BY <1>1, <1>2, <1>4, <1>7, <1>8, <1>9, <1>10 DEF Progresses

LEMMA ProgressIsTransitive ==
    ASSUME NEW t \in TlsObjects, NEW u, NEW v, Progresses(t, u), Progresses(u, v)
    PROVE  Progresses(t, v)
<1>1. u \in TlsObjects /\ v \in TlsObjects  BY DEF Progresses
<1> QED  BY <1>1, TlsNumbers DEF Progresses

\* OpenSSL is shown fragments until it has enough, or there are none left.
LEMMA SslReads ==
    ASSUME NEW t \in TlsObjects, Ordered(t), NEW room \in Nat
    PROVE  /\ Progresses(t, SslRead(t, room))
           /\ SslRead(t, room).inbound = <<>> \/ Enough(SslRead(t, room), room)
<1> DEFINE L == Len(t.inbound)
<1>1. Len(t.inbound) \in Nat  BY TlsNumbers
<1>2. PICK f : /\ f[0] = t /\ SslRead(t, room) = f[L]
               /\ \A n \in 1..L : f[n] = Shown(f[n - 1], room)
  BY <1>1, SslReadRuns
<1> DEFINE Good(n) == /\ Progresses(t, f[n])
                      /\ Enough(f[n], room) \/ Len(f[n].inbound) = L - n
           Bad == {n \in 0..L : ~Good(n)}
<1>3. Bad = {}
  <2> SUFFICES ASSUME Bad # {} PROVE FALSE  OBVIOUS
  <2>1. Bad \subseteq Nat  BY <1>1
  <2>2. PICK n \in Bad : \A m \in Bad : n <= m
    <3> HIDE DEF Bad
    <3> QED  BY <2>1, LeastOf
  <2>3. n \in 0..L /\ ~Good(n)  OBVIOUS
  <2>4. CASE n = 0
    <3>1. Progresses(t, t)  BY TlsNumbers DEF Progresses
    <3>2. Len(t.inbound) = L - 0  BY <1>1
    <3> QED  BY <1>2, <2>3, <2>4, <3>1, <3>2
  <2>5. CASE n # 0
    <3>1. n - 1 \in 0..L /\ n \in 1..L /\ ~(n <= n - 1)  BY <1>1, <2>3, <2>5
    <3>2. Good(n - 1)
      <4>1. n - 1 \notin Bad
        <5> HIDE DEF Bad
        <5> QED  BY <2>2, <3>1
      <4> QED  BY <3>1, <4>1
    <3> DEFINE u == f[n - 1]
    <3>3. f[n] = Shown(u, room)  BY <1>2, <3>1
    <3>4. Progresses(t, u) /\ (Enough(u, room) \/ Len(u.inbound) = L - (n - 1))
      BY <3>2
    <3> HIDE DEF u
    <3>5. u \in TlsObjects /\ Ordered(u)  BY <3>4 DEF Progresses
    <3>6. CASE Enough(u, room)
      <4>1. f[n] = u  BY <3>3, <3>6 DEF Shown, Enough
      <4> QED  BY <2>3, <3>4, <3>6, <4>1
    <3>7. CASE ~Enough(u, room)
      <4>1. Len(u.inbound) = L - (n - 1) /\ Len(u.inbound) # 0
        BY <1>1, <3>1, <3>4, <3>7
      <4>2. u.inbound # <<>>  BY <4>1
      <4>3. Progresses(u, f[n]) /\ Len(f[n].inbound) = Len(u.inbound) - 1
        BY <3>3, <3>5, <3>7, <4>2, ShownFragment
      <4>4. Progresses(t, f[n])  BY <3>4, <4>3, ProgressIsTransitive
      <4>5. Len(f[n].inbound) = L - n  BY <1>1, <3>1, <4>1, <4>3
      <4> QED  BY <2>3, <4>4, <4>5
    <3> QED  BY <3>6, <3>7
  <2> QED  BY <2>4, <2>5
<1>4. Good(L)
  <2>1. L \in 0..L  BY <1>1
  <2> QED  BY <1>3, <2>1
<1>5. Progresses(t, SslRead(t, room))  BY <1>2, <1>4
<1>6. Enough(SslRead(t, room), room) \/ Len(SslRead(t, room).inbound) = 0
  BY <1>1, <1>2, <1>4
<1>7. Len(SslRead(t, room).inbound) = 0 => SslRead(t, room).inbound = <<>>
  BY <1>5, TlsNumbers, EmptySeq DEF Progresses
<1> QED  BY <1>5, <1>6, <1>7

-----------------------------------------------------------------------------
(* The invariant. *)

Is(x) == x.state \in {"Connected", "Disconnecting"}

\* What the encrypted data may still become: the flights and the close_notify to come
\* are counted as if they were there.
Left(t) == IF t.closeSent THEN t.out + t.awaited ELSE t.out + t.awaited + 1

\* No unit of what the peer sends, or the user writes, is counted twice.
Units(x, k, t, a, w) ==
    /\ x.readBuf + Held(t) <= a /\ k.recvQ <= Len(t.inbound)
    /\ Left(t) + x.writeBuf <= w + 3 /\ x.writeBuf <= w

\* The SSL object, the handshake and its timer are those of the connection the socket has.
Agrees(x, k, t) ==
    /\ x.state = "Unconnected" => t = NewTls(t.role)
    /\ x.state = "Connecting" => t = SetUp("client")
    /\ Is(x) => t.ssl
    /\ t.completed => Is(x) /\ t.awaited = 0
    /\ x.state = "Disconnecting" => t.completed
    /\ t.timer => x.state = "Connected" /\ ~t.completed
    /\ x.state = "Connected" => ~t.closeSent
    /\ t.inbound # <<>> => k.link = "up"
    /\ x.state = "Connected" /\ ~t.completed => x.readBuf = 0
    /\ x.state = "Disconnecting" /\ x.interest # Both =>
          x.writeBuf = 0 /\ t.out = 0 /\ t.closeSent /\ ~x.scheduled
    /\ "hup" \in k.fetched =>
        /\ k.gone \/ k.link = "failed"
        /\ x.state \in {"Connecting", "Connected"} => "in" \in k.fetched

\* The flag of the scheduled write event survives abort(), so it can only be relied on
\* during the first connection.
Fresh(x, c) ==
    /\ c = 0 => ~x.scheduled /\ x.state = "Unconnected"
    /\ c = 1 /\ x.state = "Connecting" => ~x.scheduled

Members(x, k, t, a, w, c) ==
    Fits(x, k) /\ Ordered(t) /\ Units(x, k, t, a, w) /\ Agrees(x, k, t) /\ Fresh(x, c)

\* Below a slot of error() there is at most one call of onEvent, or a slot.
TlsNested(s) ==
    \A i \in 1..Len(s) :
        /\ i > 1 => s[i].at = "error"
        /\ i < Len(s) => s[i].at \in Slots

Early == {"out", "connected", "in"}

\* What a call may assume: one that is told of another context finds a socket that has
\* not got further than connecting; a hang-up is read up to, before it closes anything.
InContext(f, x, k, t) ==
    /\ ~f.same \/ f.at = "disconnected" => x.state \in {"Unconnected", "Connecting"}
    /\ f.at \in {"out", "in"} => f.same
    /\ f.same /\ x.state = "Connecting" =>
          f.at = "error" \/ (f.at = "out" /\ "out" \in f.mask /\ x.enabled)
    /\ f.at = "connected" /\ f.same => x.state = "Connected" /\ t = SetUp("client")
    /\ f.at = "encrypted" /\ f.same => t.completed
    /\ f.at \in {"drain", "draining"} /\ f.same => "hup" \in f.mask
    /\ f.same /\ "hup" \in f.mask =>
        /\ k.gone \/ k.link = "failed"
        /\ x.state \in {"Connecting", "Connected"} /\ ~t.completed =>
              IF f.at \in Early THEN "in" \in f.mask ELSE t.inbound = <<>>

Expected(f) ==
    /\ f.at = "connected" => f.was = "connecting"
    /\ f.at = "encrypted" => f.was = "connected"
    /\ f.at \in {"receivedData", "draining"} => f.was = "encrypted"
    /\ f.at \in {"disconnected", "error"} => f.was # "none"

\* The error of the connection is being told: it ends when the slots return.
Doomed(s) == \E i \in 1..Len(s) : s[i].at = "error" /\ s[i].same

Known(doomed, x, t) ==
    IF doomed \/ x.state = "Unconnected" THEN "none"
    ELSE IF x.state = "Connecting" THEN "connecting"
    ELSE IF t.completed THEN "encrypted" ELSE "connected"

\* The call of onEvent that has not returned, if any.
Idling == [at |-> "idle", mask |-> {}]
First(s) == IF s = <<>> THEN Idling ELSE s[1]

Closes(f) ==
    /\ "hup" \in f.mask
    /\ f.at \in {"in", "encrypted", "receivedData", "sent", "sentData", "drain", "draining"}

Timed(f, x, t) ==
    /\ x.state = "Connected" /\ ~t.completed => t.timer \/ f.at = "connected"
    /\ x.state = "Disconnecting" => x.disconnectTimer \/ Closes(f)

SendComing(f, x, k) ==
    \/ "out" \in x.posted \cup k.fetched
    \/ k.edge /\ k.space = "free"
    \/ k.space = "awaited"
    \/ f.at = "out" /\ "out" \in f.mask

ReadComing(f, x, k, t) ==
    \/ "in" \in x.posted \cup k.fetched
    \/ k.edge /\ k.recvQ > 0
    \/ t.behind
    \/ f.at \in Early /\ "in" \in f.mask

\* A timer runs for what the socket waits for, and what it has to send or to read has an
\* event under way.
CaredFor(f, x, k, t, c) ==
    /\ Timed(f, x, t)
    /\ c = 1 /\ Is(x) /\ (x.scheduled \/ (t.completed /\ x.writeBuf > 0) \/ t.out > 0) =>
          SendComing(f, x, k)
    /\ x.state = "Connected" /\ ~Full(x) /\ (t.inbound # <<>> \/ t.pending > 0) =>
          ReadComing(f, x, k, t)

TlsCalls(x, k, t, s, u, c) ==
    /\ TlsNested(s)
    /\ \A i \in 1..Len(s) : InContext(s[i], x, k, t) /\ Expected(s[i])
    /\ u = Known(Doomed(s), x, t)
    /\ ~Doomed(s) => CaredFor(First(s), x, k, t, c)

TlsTyped ==
    /\ sock \in Socks /\ kernel \in Channels /\ stack \in Seq(Frames)
    /\ told \in Knowledge /\ tls \in TlsObjects
    /\ connections \in 0..MaxConnections
    /\ arrived \in 0..MaxArriving /\ written \in 0..MaxWritten

TlsInvariant ==
    /\ TlsTyped
    /\ Members(sock, kernel, tls, arrived, written, connections)
    /\ TlsCalls(sock, kernel, tls, stack, told, connections)

-----------------------------------------------------------------------------
(* The stack. *)

\* Nothing is owed to a socket that is not connected.
LEMMA NothingOwed ==
    ASSUME NEW x, x.state \in {"Unconnected", "Connecting"}, NEW f, NEW k, NEW t, NEW c
    PROVE  CaredFor(f, x, k, t, c)
BY DEF CaredFor, Timed, Is

\* No call is left, or only one, which is not a slot of error().
LEMMA NoCall ==
    ASSUME NEW x, NEW k, NEW t, NEW u, NEW c
    PROVE  TlsCalls(x, k, t, <<>>, u, c) <=>
               u = Known(FALSE, x, t) /\ CaredFor(Idling, x, k, t, c)
<1>1. ~Doomed(<<>>) /\ TlsNested(<<>>) /\ First(<<>>) = Idling
  BY DEF Doomed, TlsNested, First
<1>2. Known(Doomed(<<>>), x, t) = Known(FALSE, x, t)  BY <1>1 DEF Known
<1>3. \A i \in 1..Len(<<>>) : InContext(<<>>[i], x, k, t) /\ Expected(<<>>[i])
  <2>1. 1..Len(<<>>) = {}  OBVIOUS
  <2> QED  BY <2>1
<1> QED  BY <1>1, <1>2, <1>3 DEF TlsCalls

LEMMA SingleCall ==
    ASSUME NEW f \in Frames, f.at # "error", NEW x, NEW k, NEW t, NEW u, NEW c
    PROVE  /\ <<f>> \in Seq(Frames)
           /\ TlsCalls(x, k, t, <<f>>, u, c) <=>
                /\ InContext(f, x, k, t) /\ Expected(f)
                /\ u = Known(FALSE, x, t) /\ CaredFor(f, x, k, t, c)
<1> DEFINE s == <<f>>
<1>1. s \in Seq(Frames) /\ Len(s) = 1 /\ s[1] = f /\ s # <<>>  OBVIOUS
<1> HIDE DEF s
<1>2. ~Doomed(s) /\ TlsNested(s) /\ First(s) = f
  BY <1>1 DEF Doomed, TlsNested, First
<1>3. Known(Doomed(s), x, t) = Known(FALSE, x, t)  BY <1>2 DEF Known
<1>4. (\A i \in 1..Len(s) : InContext(s[i], x, k, t) /\ Expected(s[i])) <=>
          InContext(f, x, k, t) /\ Expected(f)
  BY <1>1
<1>5. TlsCalls(x, k, t, s, u, c) <=>
        /\ InContext(f, x, k, t) /\ Expected(f)
        /\ u = Known(FALSE, x, t) /\ CaredFor(f, x, k, t, c)
  BY <1>2, <1>3, <1>4 DEF TlsCalls
<1> QED  BY <1>1, <1>5 DEF s

\* An error is told, whatever the calls below were at.
LEMMA ErrorTold ==
    ASSUME NEW s \in Seq(Frames), TlsNested(s), s = <<>> \/ Last(s).at \in Slots,
           NEW x, NEW k, NEW t, NEW c,
           \A i \in 1..Len(s) : InContext(s[i], x, k, t) /\ Expected(s[i]),
           NEW was \in Knowledge, was # "none"
    PROVE  /\ Append(s, Frame("error", {}, was)) \in Seq(Frames)
           /\ TlsCalls(x, k, t, Append(s, Frame("error", {}, was)), "none", c)
<1> DEFINE f == Frame("error", {}, was)
           a == Append(s, f)
<1>1. f \in Frames /\ f.at = "error" /\ f.same /\ f.was = was /\ f.mask = {}
  BY DEF Frame, Frames, Slots, FrameMasks
<1> HIDE DEF f
<1>2. /\ a \in Seq(Frames) /\ Len(a) = Len(s) + 1 /\ Len(s) \in Nat
      /\ \A i \in 1..Len(s) : a[i] = s[i]
      /\ a[Len(s) + 1] = f
  BY <1>1, Appended
<1>3. s # <<>> => Last(s) = s[Len(s)] /\ Len(s) # 0  BY TopOfStack
<1>4. s = <<>> => Len(s) = 0  OBVIOUS
<1> HIDE DEF a
<1>5. TlsNested(a)
  BY <1>1, <1>2, <1>3, <1>4 DEF TlsNested
<1>6. Doomed(a)
  <2>1. Len(s) + 1 \in 1..Len(a)  BY <1>2
  <2> QED  BY <1>1, <1>2, <2>1 DEF Doomed
<1>7. InContext(f, x, k, t) /\ Expected(f)
  BY <1>1 DEF InContext, Expected
<1>8. \A i \in 1..Len(a) : InContext(a[i], x, k, t) /\ Expected(a[i])
  <2> SUFFICES ASSUME NEW i \in 1..Len(a) PROVE InContext(a[i], x, k, t) /\ Expected(a[i])
    OBVIOUS
  <2>1. i \in 1..Len(s) \/ i = Len(s) + 1  BY <1>2
  <2> QED  BY <1>2, <1>7, <2>1
<1>9. Known(Doomed(a), x, t) = "none"  BY <1>6 DEF Known
<1>10. TlsCalls(x, k, t, a, "none", c)  BY <1>5, <1>6, <1>8, <1>9 DEF TlsCalls
<1> QED  BY <1>2, <1>10 DEF a, f

\* A slot, or an event of the user's, ends what the calls were about.
LEMMA AnotherContext ==
    ASSUME NEW s \in Seq(Frames), NEW x, NEW k, NEW t, NEW c,
           TlsNested(s), s = <<>> \/ Last(s).at \in Slots,
           \A i \in 1..Len(s) : Expected(s[i]),
           x.state \in {"Unconnected", "Connecting"}
    PROVE  /\ OtherContext(s) \in Seq(Frames) /\ TlsNested(OtherContext(s))
           /\ ~Doomed(OtherContext(s))
           /\ OtherContext(s) = <<>> \/ Last(OtherContext(s)).at \in Slots
           /\ \A i \in 1..Len(OtherContext(s)) :
                 InContext(OtherContext(s)[i], x, k, t) /\ Expected(OtherContext(s)[i])
           /\ TlsCalls(x, k, t, OtherContext(s), Known(FALSE, x, t), c)
<1> DEFINE o == OtherContext(s)
<1>1. /\ o \in Seq(Frames) /\ Len(o) = Len(s) /\ Len(s) \in Nat /\ (s = <<>> <=> o = <<>>)
      /\ \A i \in 1..Len(s) : o[i] = [s[i] EXCEPT !.same = FALSE] /\ s[i] \in Frames
  BY Told
<1>2. s # <<>> => Last(s) = s[Len(s)] /\ Len(s) # 0 /\ Last(o) = o[Len(o)]
  BY <1>1, TopOfStack
<1>3. s = <<>> => Len(s) = 0  OBVIOUS
<1> HIDE DEF o
<1>4. \A i \in 1..Len(s) : o[i].at = s[i].at /\ o[i].was = s[i].was /\ ~o[i].same
  BY <1>1 DEF Frames
<1>5. \A i \in 1..Len(s) : s[i].at \in Slots
  BY <1>1, <1>2 DEF TlsNested
<1>6. TlsNested(o)  BY <1>1, <1>4 DEF TlsNested
<1>7. \A i \in 1..Len(o) : InContext(o[i], x, k, t) /\ Expected(o[i])
  <2> SUFFICES ASSUME NEW i \in 1..Len(s) PROVE InContext(o[i], x, k, t) /\ Expected(o[i])
    BY <1>1
  <2>1. o[i].at \in Slots /\ ~o[i].same  BY <1>4, <1>5
  <2>2. InContext(o[i], x, k, t)  BY <2>1 DEF InContext, Slots
  <2>3. Expected(s[i])  OBVIOUS
  <2> QED  BY <1>4, <2>2, <2>3 DEF Expected
<1>8. o = <<>> \/ Last(o).at \in Slots
  BY <1>1, <1>2, <1>4, <1>5
<1>9. ~Doomed(o)  BY <1>1, <1>4 DEF Doomed
<1>10. CaredFor(First(o), x, k, t, c)  BY NothingOwed
<1>11. Known(Doomed(o), x, t) = Known(FALSE, x, t)  BY <1>9 DEF Known
<1>12. TlsCalls(x, k, t, o, Known(FALSE, x, t), c)
  BY <1>6, <1>7, <1>10, <1>11 DEF TlsCalls
<1> QED  BY <1>1, <1>6, <1>7, <1>8, <1>9, <1>12 DEF o

\* A call of onEvent is the only one.
LEMMA TlsAlone ==
    ASSUME NEW s \in Seq(Frames), s # <<>>, TlsNested(s), Last(s).at # "error"
    PROVE  /\ Front(s) = <<>> /\ Len(s) = 1 /\ Last(s) = s[1] /\ s[1] \in Frames
           /\ s = <<Last(s)>>
           /\ \A f : Append(Front(s), f) = <<f>>
<1>1. /\ Front(s) \in Seq(Frames) /\ Len(Front(s)) = Len(s) - 1 /\ Len(s) \in Nat \ {0}
      /\ Last(s) = s[Len(s)] /\ Last(s) \in Frames
  BY TopOfStack
<1>2. Len(s) = 1  BY <1>1 DEF TlsNested
<1>3. Front(s) = <<>>  BY <1>1, <1>2, EmptySeq
<1>4. \A f : Append(<<>>, f) = <<f>>  OBVIOUS
<1>5. s = <<Last(s)>>
  <2>1. <<Last(s)>> \in Seq(Frames) /\ Len(<<Last(s)>>) = 1 /\ <<Last(s)>>[1] = Last(s)
    BY <1>1
  <2> QED  BY <1>1, <1>2, <2>1, SeqEqual
<1> QED  BY <1>1, <1>2, <1>3, <1>4, <1>5

LEMMA TlsFacts ==
    ASSUME TlsInvariant
    PROVE  /\ sock \in Socks /\ kernel \in Channels /\ stack \in Seq(Frames)
           /\ told \in Knowledge /\ tls \in TlsObjects
           /\ connections \in 0..MaxConnections /\ connections \in Nat
           /\ arrived \in 0..MaxArriving /\ written \in 0..MaxWritten
           /\ arrived \in Nat /\ written \in Nat
           /\ Fits(sock, kernel) /\ Ordered(tls) /\ Agrees(sock, kernel, tls)
           /\ Units(sock, kernel, tls, arrived, written) /\ Fresh(sock, connections)
           /\ TlsCalls(sock, kernel, tls, stack, told, connections)
           /\ sock.readBuf \in Nat /\ sock.writeBuf \in Nat /\ kernel.recvQ \in Nat
           /\ sock.capacity \in Nat /\ Held(tls) \in Nat /\ Left(tls) \in Nat
           /\ MaxArriving \in Nat /\ MaxWritten \in Nat /\ MaxConnections \in Nat
<1>1. /\ sock \in Socks /\ kernel \in Channels /\ stack \in Seq(Frames)
      /\ told \in Knowledge /\ tls \in TlsObjects
      /\ connections \in 0..MaxConnections
      /\ arrived \in 0..MaxArriving /\ written \in 0..MaxWritten
      /\ Fits(sock, kernel) /\ Ordered(tls) /\ Agrees(sock, kernel, tls)
      /\ Units(sock, kernel, tls, arrived, written) /\ Fresh(sock, connections)
      /\ TlsCalls(sock, kernel, tls, stack, told, connections)
  BY DEF TlsInvariant, TlsTyped, Members
<1>2. sock.readBuf \in 0..MaxArriving /\ kernel.recvQ \in 0..MaxArriving
  BY <1>1 DEF Socks, Channels
<1>3. sock.writeBuf \in 0..MaxWritten  BY <1>1 DEF Socks
<1>4. MaxArriving \in Nat /\ MaxWritten \in Nat /\ MaxConnections \in Nat
  BY BoundsAssumption
<1>5. sock.capacity \in Nat  BY <1>1, CapacitiesAssumption DEF Socks
<1>6. Held(tls) \in Nat /\ Left(tls) \in Nat  BY <1>1, TlsNumbers DEF Left
<1>7. /\ arrived \in Nat /\ written \in Nat /\ connections \in Nat
      /\ sock.readBuf \in Nat /\ sock.writeBuf \in Nat /\ kernel.recvQ \in Nat
  BY <1>1, <1>2, <1>3, <1>4
<1> QED  BY <1>1, <1>4, <1>5, <1>6, <1>7

LEMMA TlsUserFacts ==
    ASSUME TlsInvariant, UserRuns
    PROVE  /\ stack = <<>> \/ Last(stack).at \in Slots
           /\ TlsNested(stack)
           /\ \A i \in 1..Len(stack) :
                 stack[i] \in Frames /\ InContext(stack[i], sock, kernel, tls)
                 /\ Expected(stack[i])
<1>1. stack \in Seq(Frames) /\ TlsCalls(sock, kernel, tls, stack, told, connections)
  BY TlsFacts
<1>2. \A i \in 1..Len(stack) : stack[i] \in Frames  BY <1>1, Told
<1> QED  BY <1>1, <1>2 DEF UserRuns, Top, TlsCalls

\* Members change below the calls, and these need not know.
LEMMA CallsStay ==
    ASSUME TlsInvariant, stack' = stack, told' = told,
           sock' \in Socks, kernel' \in Channels, tls' \in TlsObjects,
           arrived' \in 0..MaxArriving, written' \in 0..MaxWritten,
           Members(sock', kernel', tls', arrived', written', connections),
           connections' = connections,
           \A f \in Frames : InContext(f, sock, kernel, tls) => InContext(f, sock', kernel', tls'),
           \A d \in BOOLEAN : Known(d, sock', tls') = Known(d, sock, tls),
           \A f : CaredFor(f, sock, kernel, tls, connections) =>
                      CaredFor(f, sock', kernel', tls', connections)
    PROVE  TlsInvariant'
<1>1. stack \in Seq(Frames) /\ TlsCalls(sock, kernel, tls, stack, told, connections)
  BY TlsFacts
<1>2. \A i \in 1..Len(stack) : stack[i] \in Frames  BY <1>1, Told
<1>3. Doomed(stack) \in BOOLEAN  BY DEF Doomed
<1>4. Known(Doomed(stack), sock', tls') = Known(Doomed(stack), sock, tls)  BY <1>3
<1>5. TlsCalls(sock', kernel', tls', stack, told, connections)
  <2>1. /\ TlsNested(stack) /\ told = Known(Doomed(stack), sock, tls)
        /\ \A i \in 1..Len(stack) : InContext(stack[i], sock, kernel, tls) /\ Expected(stack[i])
        /\ ~Doomed(stack) => CaredFor(First(stack), sock, kernel, tls, connections)
    BY <1>1 DEF TlsCalls
  <2>2. \A i \in 1..Len(stack) : InContext(stack[i], sock', kernel', tls')
    BY <1>2, <2>1
  <2>3. ~Doomed(stack) => CaredFor(First(stack), sock', kernel', tls', connections)
    BY <2>1
  <2> QED  BY <1>4, <2>1, <2>2, <2>3 DEF TlsCalls
<1>6. TlsTyped'  BY TlsFacts DEF TlsTyped
<1> QED  BY <1>5, <1>6 DEF TlsInvariant

\* The running call of onEvent.
LEMMA RunningCall ==
    ASSUME TlsInvariant, stack # <<>>, Top.at # "error"
    PROVE  /\ Top \in Frames /\ Caller = <<>> /\ stack = <<Top>> /\ Len(stack) = 1
           /\ \A f : Goes(f) <=> stack' = <<f>>
           /\ InContext(Top, sock, kernel, tls) /\ Expected(Top)
           /\ told = Known(FALSE, sock, tls)
           /\ CaredFor(Top, sock, kernel, tls, connections)
<1>1. stack \in Seq(Frames) /\ TlsCalls(sock, kernel, tls, stack, told, connections)
  BY TlsFacts
<1>2. TlsNested(stack)  BY <1>1 DEF TlsCalls
<1>3. /\ Caller = <<>> /\ Len(stack) = 1 /\ Top = stack[1] /\ Top \in Frames
      /\ stack = <<Top>> /\ \A f : Append(Caller, f) = <<f>>
  BY <1>1, <1>2, TlsAlone DEF Top, Caller
<1>4. /\ InContext(Top, sock, kernel, tls) /\ Expected(Top)
      /\ told = Known(FALSE, sock, tls)
      /\ CaredFor(Top, sock, kernel, tls, connections)
  <2> DEFINE f == Top
  <2>1. f \in Frames /\ f.at # "error" /\ stack = <<f>>  BY <1>3
  <2> HIDE DEF f
  <2>2. TlsCalls(sock, kernel, tls, <<f>>, told, connections)  BY <1>1, <2>1
  <2>3. /\ InContext(f, sock, kernel, tls) /\ Expected(f)
        /\ told = Known(FALSE, sock, tls)
        /\ CaredFor(f, sock, kernel, tls, connections)
    BY <2>1, <2>2, SingleCall
  <2> QED  BY <2>3 DEF f
<1> QED  BY <1>3, <1>4 DEF Goes

\* One call is left, at f.
LEMMA CallIs ==
    ASSUME TlsInvariant,
           NEW f \in Frames, f.at # "error", stack' = <<f>>, Expected(f),
           sock' \in Socks, kernel' \in Channels, tls' \in TlsObjects,
           Members(sock', kernel', tls', arrived, written, connections),
           InContext(f, sock', kernel', tls'),
           told' = Known(FALSE, sock', tls'),
           CaredFor(f, sock', kernel', tls', connections),
           UNCHANGED <<connections, arrived, written>>
    PROVE  TlsInvariant'
<1>1. /\ stack' \in Seq(Frames)
      /\ TlsCalls(sock', kernel', tls', stack', told', connections)
  BY SingleCall
<1>2. told' \in Knowledge  BY DEF Known, Knowledge
<1>3. TlsTyped'  BY <1>1, <1>2, TlsFacts DEF TlsTyped
<1> QED  BY <1>1, <1>3 DEF TlsInvariant

\* onEvent goes on at f, after it has changed the socket, its channel or its SSL object.
LEMMA CallContinues ==
    ASSUME TlsInvariant, stack # <<>>, Top.at # "error",
           NEW f \in Frames, f.at # "error", Goes(f), Expected(f),
           sock' \in Socks, kernel' \in Channels, tls' \in TlsObjects,
           Members(sock', kernel', tls', arrived, written, connections),
           InContext(f, sock', kernel', tls'),
           told' = Known(FALSE, sock', tls'),
           CaredFor(f, sock', kernel', tls', connections),
           UNCHANGED <<connections, arrived, written>>
    PROVE  TlsInvariant'
<1>1. stack' = <<f>>  BY RunningCall
<1> QED  BY <1>1, CallIs

\* No call is left.
LEMMA NoCallLeft ==
    ASSUME TlsInvariant, stack' = <<>>,
           sock' \in Socks, kernel' \in Channels, tls' \in TlsObjects,
           Members(sock', kernel', tls', arrived, written, connections),
           told' = Known(FALSE, sock', tls'),
           CaredFor(Idling, sock', kernel', tls', connections),
           UNCHANGED <<connections, arrived, written>>
    PROVE  TlsInvariant'
<1>1. TlsCalls(sock', kernel', tls', stack', told', connections)  BY NoCall
<1>2. told' \in Knowledge  BY DEF Known, Knowledge
<1>3. stack' \in Seq(Frames)  BY EmptySeq
<1>4. TlsTyped'  BY <1>2, <1>3, TlsFacts DEF TlsTyped
<1> QED  BY <1>1, <1>4 DEF TlsInvariant

\* The error of the connection is told by onEvent, or by a timer.
LEMMA ErrorBegins ==
    ASSUME TlsInvariant,
           sock' \in Socks, kernel' \in Channels, tls' \in TlsObjects,
           Members(sock', kernel', tls', arrived, written, connections),
           NEW was \in Knowledge, was # "none",
           Fails(<<>>, was),
           UNCHANGED <<connections, arrived, written>>
    PROVE  TlsInvariant'
<1> DEFINE s == <<>>
<1>1. s \in Seq(Frames) /\ Len(s) = 0 /\ s = <<>>  BY EmptySeq
<1>2. stack' = Append(s, Frame("error", {}, was)) /\ told' = "none"  BY DEF Fails
<1> HIDE DEF s
<1>3. TlsNested(s) /\ \A i \in 1..Len(s) :
                          InContext(s[i], sock', kernel', tls') /\ Expected(s[i])
  BY <1>1 DEF TlsNested
<1>4. /\ stack' \in Seq(Frames)
      /\ TlsCalls(sock', kernel', tls', stack', told', connections)
  BY <1>1, <1>2, <1>3, ErrorTold
<1>5. told' \in Knowledge  BY <1>2 DEF Knowledge
<1>6. TlsTyped'  BY <1>4, <1>5, TlsFacts DEF TlsTyped
<1> QED  BY <1>4, <1>6 DEF TlsInvariant

LEMMA NewTlsTyped ==
    ASSUME NEW role \in Roles
    PROVE  NewTls(role) \in TlsObjects
<1>1. <<>> \in Seq(Fragments)  BY EmptySeq
<1> QED  BY <1>1 DEF NewTls, TlsObjects

\* Nothing is left of the connection: the members of a socket after abort().
LEMMA NothingLeft ==
    ASSUME TlsInvariant
    PROVE  /\ Aborted(sock) \in Socks /\ NoChannel \in Channels
           /\ AbortedTls \in TlsObjects /\ NewTls("client") \in TlsObjects
           /\ Aborted(sock).state = "Unconnected"
           /\ Aborted(sock).scheduled = sock.scheduled
           /\ \A c : Fresh(sock, c) =>
                Members(Aborted(sock), NoChannel, AbortedTls, arrived, written, c)
           /\ \A c : Fresh(sock, c) =>
                Members(Aborted(sock), NoChannel, NewTls("client"), arrived, written, c)
<1>1. /\ Aborted(sock) \in Socks /\ NoChannel \in Channels
      /\ Aborted(sock).state = "Unconnected" /\ Aborted(sock).posted = {}
      /\ Aborted(sock).readBuf = 0 /\ Aborted(sock).writeBuf = 0 /\ NoChannel.recvQ = 0
      /\ Fits(Aborted(sock), NoChannel)
  BY TlsFacts, AbortedFits
<1>2. NoChannel.fetched = {} /\ NoChannel.link = "none"  BY DEF NoChannel
<1>3. Aborted(sock).scheduled = sock.scheduled
  <2>1. Aborted(sock) = [NewSocket(sock.capacity) EXCEPT !.scheduled = sock.scheduled]
    BY DEF Aborted
  <2> QED  BY <2>1 DEF NewSocket
<1>4. ASSUME NEW role \in Roles, NEW c, Fresh(sock, c)
      PROVE  /\ NewTls(role) \in TlsObjects
             /\ Members(Aborted(sock), NoChannel, NewTls(role), arrived, written, c)
  <2> DEFINE t == NewTls(role)
  <2>1. t \in TlsObjects
    <3>1. <<>> \in Seq(Fragments)  BY EmptySeq
    <3> QED  BY <3>1 DEF NewTls, TlsObjects
  <2>2. /\ t.inbound = <<>> /\ t.pending = 0 /\ t.parts = 0 /\ t.out = 0 /\ t.awaited = 0
        /\ ~t.closeSent /\ ~t.completed /\ ~t.timer /\ t.role = role
    BY DEF NewTls
  <2>3. t = NewTls(t.role)  BY <2>2
  <2> HIDE DEF t
  <2>4. Len(t.inbound) = 0  BY <2>2
  <2>5. Held(t) = 0 /\ Left(t) = 1  BY <2>2, <2>4 DEF Held, Left
  <2>6. Ordered(t)  BY <2>2, <2>4 DEF Ordered
  <2>7. Units(Aborted(sock), NoChannel, t, arrived, written)
    BY <1>1, <2>4, <2>5, TlsFacts DEF Units
  <2>8. Agrees(Aborted(sock), NoChannel, t)
    BY <1>1, <1>2, <2>2, <2>3 DEF Agrees, Is
  <2>9. Fresh(Aborted(sock), c)  BY <1>1, <1>3, <1>4 DEF Fresh
  <2> QED  BY <1>1, <2>1, <2>6, <2>7, <2>8, <2>9 DEF Members, t
<1>5. tls.role \in Roles /\ "client" \in Roles  BY TlsFacts DEF TlsObjects, Roles
<1>6. AbortedTls = NewTls(tls.role)  BY DEF AbortedTls
<1>7. AbortedTls \in TlsObjects /\ NewTls("client") \in TlsObjects
  <2>1. \A role \in Roles : NewTls(role) \in TlsObjects
    <3>1. <<>> \in Seq(Fragments)  BY EmptySeq
    <3> QED  BY <3>1 DEF NewTls, TlsObjects
  <2> QED  BY <1>5, <1>6, <2>1
<1> QED  BY <1>1, <1>3, <1>4, <1>5, <1>6, <1>7

-----------------------------------------------------------------------------
(* Connecting. *)

\* What trying the addresses that are left comes to.
LEMMA AddressTried ==
    ASSUME NEW x \in Socks, x.state = "Connecting", x.posted = {}, x.readBuf = 0,
           ~x.hasToAdd, x.interest = Both, ~x.lookingUp,
           kernel \in Channels, x.addresses = 0 => Fits(x, kernel),
           NEW calls, ConnectToHost(x, calls)
    PROVE  /\ sock' \in Socks /\ kernel' \in Channels /\ sock'.state = "Connecting"
           /\ Fits(sock', kernel') /\ sock'.readBuf = 0 /\ sock'.writeBuf = x.writeBuf
           /\ sock'.scheduled = x.scheduled
           /\ \/ x.addresses = 0 /\ kernel' = kernel
              \/ kernel'.recvQ = 0 /\ kernel'.fetched = {}
           /\ \/ stack' = calls /\ told' = "connecting"
              \/ Fails(calls, "connecting")
<1>1. /\ x.addresses \in 0..MaxAddresses /\ MaxAddresses \in Nat /\ x.capacity \in Nat
      /\ x.readBuf \in Nat
  <2>1. x.addresses \in 0..MaxAddresses /\ x.capacity \in Capacities  BY DEF Socks
  <2>2. MaxAddresses \in Nat  BY BoundsAssumption
  <2>3. x.capacity \in Nat  BY <2>1, CapacitiesAssumption
  <2>4. x.readBuf \in Nat  OBVIOUS
  <2> QED  BY <2>1, <2>2, <2>3, <2>4
<1>2. /\ NoChannel \in Channels /\ [NoChannel EXCEPT !.link = "pending"] \in Channels
      /\ NoChannel.recvQ = 0 /\ ~NoChannel.gone /\ NoChannel.fetched = {}
      /\ NoChannel.space = "free" /\ NoChannel.link = "none"
  BY AbortedFits, BoundsAssumption DEF NoChannel, Channels, Masks
<1>3. ASSUME NEW n \in 0..(x.addresses - 1), NEW o \in BOOLEAN, NEW e \in BOOLEAN,
             NEW t \in BOOLEAN, NEW k \in Channels,
             sock' = [x EXCEPT !.addresses = n, !.open = o, !.enabled = e, !.connectTimer = t],
             kernel' = k, k.recvQ = 0, ~k.gone, k.fetched = {}, k.space = "free",
             e => o, ~e => k.link = "none"
      PROVE  /\ sock' \in Socks /\ kernel' \in Channels /\ sock'.state = "Connecting"
             /\ Fits(sock', kernel') /\ sock'.readBuf = 0 /\ sock'.writeBuf = x.writeBuf
             /\ sock'.scheduled = x.scheduled
             /\ kernel'.recvQ = 0 /\ kernel'.fetched = {}
  <2>1. n \in 0..MaxAddresses  BY <1>1
  <2> DEFINE y == [x EXCEPT !.addresses = n, !.open = o, !.enabled = e, !.connectTimer = t]
  <2>2. y \in Socks  BY <2>1 DEF Socks
  <2>3. /\ y.state = "Connecting" /\ y.posted = {} /\ y.readBuf = 0 /\ ~y.hasToAdd
        /\ y.interest = Both /\ ~y.lookingUp /\ y.open = o /\ y.enabled = e
        /\ y.connectTimer = t /\ y.writeBuf = x.writeBuf /\ y.capacity = x.capacity
        /\ y.scheduled = x.scheduled
    BY DEF Socks
  <2>4. sock' = y  BY <1>3
  <2> HIDE DEF y
  <2>5. Fits(y, k)  BY <1>1, <1>3, <2>3 DEF Fits
  <2> QED  BY <1>3, <2>2, <2>3, <2>4, <2>5
<1>4. CASE /\ x.addresses > 0
           /\ \E n \in 0..(x.addresses - 1) :
                sock' = [x EXCEPT !.addresses = n, !.open = TRUE, !.enabled = TRUE,
                                  !.connectTimer = TRUE]
           /\ kernel' = [NoChannel EXCEPT !.link = "pending"]
           /\ stack' = calls /\ told' = "connecting"
  <2>1. PICK n \in 0..(x.addresses - 1) :
          sock' = [x EXCEPT !.addresses = n, !.open = TRUE, !.enabled = TRUE,
                            !.connectTimer = TRUE]
    BY <1>4
  <2>2. /\ kernel' \in Channels /\ kernel'.recvQ = 0 /\ ~kernel'.gone
        /\ kernel'.fetched = {} /\ kernel'.space = "free"
    BY <1>2, <1>4 DEF NoChannel
  <2> QED  BY <1>3, <1>4, <2>1, <2>2
<1>5. CASE /\ x.addresses > 0
           /\ \E n \in 0..(x.addresses - 1), o \in BOOLEAN :
                sock' = [x EXCEPT !.addresses = n, !.open = o, !.enabled = FALSE]
           /\ kernel' = NoChannel
           /\ Fails(calls, "connecting")
  <2>1. PICK n \in 0..(x.addresses - 1), o \in BOOLEAN :
          sock' = [x EXCEPT !.addresses = n, !.open = o, !.enabled = FALSE]
    BY <1>5
  <2>2. sock' = [x EXCEPT !.addresses = n, !.open = o, !.enabled = FALSE,
                          !.connectTimer = x.connectTimer]
    BY <2>1 DEF Socks
  <2>3. x.connectTimer \in BOOLEAN  BY DEF Socks
  <2> QED  BY <1>2, <1>3, <1>5, <2>2, <2>3
<1>6. CASE /\ x.addresses = 0
           /\ sock' = x
           /\ UNCHANGED kernel
           /\ Fails(calls, "connecting")
  BY <1>6
<1>7. CASE /\ BoundSocketFails /\ x.addresses > 0
           /\ \E n \in 0..(x.addresses - 1) :
                sock' = [x EXCEPT !.addresses = n, !.open = FALSE, !.enabled = FALSE]
           /\ kernel' = NoChannel
           /\ stack' = calls /\ told' = "connecting"
  <2>1. PICK n \in 0..(x.addresses - 1) :
          sock' = [x EXCEPT !.addresses = n, !.open = FALSE, !.enabled = FALSE]
    BY <1>7
  <2>2. sock' = [x EXCEPT !.addresses = n, !.open = FALSE, !.enabled = FALSE,
                          !.connectTimer = x.connectTimer]
    BY <2>1 DEF Socks
  <2>3. x.connectTimer \in BOOLEAN  BY DEF Socks
  <2> QED  BY <1>2, <1>3, <1>7, <2>2, <2>3
<1> QED  BY <1>4, <1>5, <1>6, <1>7 DEF ConnectToHost

\* The SSL object of a client that is not connected yet.
LEMMA ClientSetUp ==
    /\ SetUp("client") \in TlsObjects /\ Ordered(SetUp("client"))
    /\ Held(SetUp("client")) = 0 /\ Left(SetUp("client")) = 2
    /\ SetUp("client").inbound = <<>> /\ Len(SetUp("client").inbound) = 0
    /\ SetUp("client").pending = 0 /\ SetUp("client").out = 0
    /\ SetUp("client").awaited = 1 /\ SetUp("client").role = "client"
    /\ SetUp("client").ssl /\ ~SetUp("client").completed /\ ~SetUp("client").timer
    /\ ~SetUp("client").closeSent /\ ~SetUp("client").failed
    /\ ~SetUp("client").closeReceived
<1> DEFINE t == SetUp("client")
<1>1. <<>> \in Seq(Fragments) /\ Len(<<>>) = 0  BY EmptySeq
<1>2. /\ t.inbound = <<>> /\ t.pending = 0 /\ t.out = 0 /\ t.awaited = 1 /\ t.ssl
      /\ t.role = "client" /\ t.parts = 0
      /\ ~t.completed /\ ~t.timer /\ ~t.closeSent /\ ~t.failed /\ ~t.closeReceived
  BY DEF SetUp, NewTls, Flights
<1>3. t \in TlsObjects
  <2>1. NewTls("client") \in TlsObjects  BY <1>1 DEF NewTls, TlsObjects, Roles
  <2>2. Flights["client"] = 1  BY DEF Flights
  <2> DEFINE n == NewTls("client")
  <2>3. t = [n EXCEPT !.ssl = TRUE, !.awaited = 1]  BY <2>2 DEF SetUp
  <2>4. TRUE \in BOOLEAN /\ 1 \in 0..2  OBVIOUS
  <2> HIDE DEF t, n
  <2> QED  BY <2>1, <2>3, <2>4 DEF TlsObjects, n
<1> HIDE DEF t
<1>4. Len(t.inbound) = 0  BY <1>1, <1>2
<1>5. Held(t) = 0 /\ Left(t) = 2 /\ Ordered(t)
  BY <1>2, <1>4 DEF Held, Left, Ordered
<1> USE DEF t
<1> QED  BY <1>2, <1>3, <1>4, <1>5

\* A socket that connects, with an SSL object that has done nothing yet.
LEMMA ConnectingMembers ==
    ASSUME NEW x \in Socks, NEW k \in Channels, NEW a \in Nat, NEW w \in Nat, NEW c,
           x.state = "Connecting", Fits(x, k), k.recvQ = 0, x.writeBuf <= w,
           c # 0, c = 1 => ~x.scheduled,
           "hup" \in k.fetched => (k.gone \/ k.link = "failed") /\ "in" \in k.fetched
    PROVE  Members(x, k, SetUp("client"), a, w, c)
<1>1. x.readBuf = 0  BY DEF Fits
<1>2. x.writeBuf \in Nat  BY BoundsAssumption DEF Socks
<1>3. Units(x, k, SetUp("client"), a, w)
  BY <1>1, <1>2, ClientSetUp DEF Units
<1>4. Agrees(x, k, SetUp("client"))  BY ClientSetUp DEF Agrees, Is
<1>5. Fresh(x, c)  BY DEF Fresh
<1> QED  BY <1>3, <1>4, <1>5, ClientSetUp DEF Members

\* The next address is tried by Connect, by onEvent, by the timer and by the lookup.
LEMMA TlsConnecting ==
    ASSUME NEW x \in Socks, NEW calls \in Seq(Frames),
           TlsInvariant, x.state = "Connecting", x.posted = {}, x.readBuf = 0,
           ~x.hasToAdd, x.interest = Both, ~x.lookingUp, x.writeBuf <= written,
           x.addresses = 0 => Fits(x, kernel) /\ sock.state = "Connecting",
           TlsNested(calls),
           calls = <<>> \/ Last(calls).at \in Slots, ~Doomed(calls),
           \A y, k : y.state = "Connecting" =>
               \A i \in 1..Len(calls) :
                   InContext(calls[i], y, k, SetUp("client")) /\ Expected(calls[i]),
           ConnectToHost(x, calls), tls' = SetUp("client"),
           connections' \in 0..MaxConnections, connections' # 0,
           connections' = 1 => ~x.scheduled,
           UNCHANGED <<arrived, written>>
    PROVE  TlsInvariant'
<1>1. /\ sock' \in Socks /\ kernel' \in Channels /\ sock'.state = "Connecting"
      /\ Fits(sock', kernel') /\ sock'.readBuf = 0 /\ sock'.writeBuf = x.writeBuf
      /\ sock'.scheduled = x.scheduled
      /\ \/ x.addresses = 0 /\ kernel' = kernel
         \/ kernel'.recvQ = 0 /\ kernel'.fetched = {}
      /\ \/ stack' = calls /\ told' = "connecting"
         \/ Fails(calls, "connecting")
  BY TlsFacts, AddressTried
<1>2. /\ kernel'.recvQ = 0
      /\ "hup" \in kernel'.fetched =>
            (kernel'.gone \/ kernel'.link = "failed") /\ "in" \in kernel'.fetched
  <2>1. CASE x.addresses = 0 /\ kernel' = kernel
    <3>1. tls = SetUp("client")  BY <2>1, TlsFacts DEF Agrees
    <3>2. kernel.recvQ = 0  BY <3>1, TlsFacts, ClientSetUp DEF Units
    <3> QED  BY <2>1, <3>2, TlsFacts DEF Agrees
  <2>2. CASE kernel'.recvQ = 0 /\ kernel'.fetched = {}  BY <2>2
  <2> QED  BY <1>1, <2>1, <2>2
<1>3. Members(sock', kernel', tls', arrived, written, connections')
  BY <1>1, <1>2, TlsFacts, ConnectingMembers
<1>4. \A i \in 1..Len(calls) :
          InContext(calls[i], sock', kernel', tls') /\ Expected(calls[i])
  BY <1>1
<1>5. /\ stack' \in Seq(Frames) /\ told' \in Knowledge
      /\ TlsCalls(sock', kernel', tls', stack', told', connections')
  <2>1. CASE stack' = calls /\ told' = "connecting"
    <3>1. CaredFor(First(calls), sock', kernel', tls', connections')
      BY <1>1, NothingOwed
    <3>2. told' = Known(Doomed(calls), sock', tls')  BY <1>1, <2>1 DEF Known
    <3> QED  BY <1>4, <2>1, <3>1, <3>2 DEF TlsCalls, Knowledge
  <2>2. CASE Fails(calls, "connecting")
    <3>1. /\ stack' = Append(calls, Frame("error", {}, "connecting")) /\ told' = "none"
          /\ "connecting" \in Knowledge
      BY <2>2 DEF Fails, Knowledge
    <3> QED  BY <1>4, <3>1, ErrorTold DEF Knowledge
  <2> QED  BY <1>1, <2>1, <2>2
<1>6. TlsTyped'  BY <1>1, <1>5, TlsFacts, ClientSetUp DEF TlsTyped
<1> QED  BY <1>3, <1>5, <1>6 DEF TlsInvariant

\* The calls that have not returned are told, and the socket is another one's.
LEMMA TlsRestarts ==
    ASSUME TlsInvariant, UserRuns,
           sock' \in Socks, kernel' \in Channels, tls' \in TlsObjects,
           sock'.state \in {"Unconnected", "Connecting"},
           connections' \in 0..MaxConnections,
           Members(sock', kernel', tls', arrived, written, connections'),
           \/ stack' = OtherContext(stack) /\ told' = Known(FALSE, sock', tls')
           \/ Fails(OtherContext(stack), "connecting"),
           UNCHANGED <<arrived, written>>
    PROVE  TlsInvariant'
<1> DEFINE o == OtherContext(stack)
<1>1. stack \in Seq(Frames)  BY TlsFacts
<1>2. /\ o \in Seq(Frames) /\ TlsNested(o) /\ (o = <<>> \/ Last(o).at \in Slots)
      /\ \A i \in 1..Len(o) : InContext(o[i], sock', kernel', tls') /\ Expected(o[i])
      /\ TlsCalls(sock', kernel', tls', o, Known(FALSE, sock', tls'), connections')
  <2>1. /\ stack = <<>> \/ Last(stack).at \in Slots
        /\ TlsNested(stack) /\ \A i \in 1..Len(stack) : Expected(stack[i])
    BY TlsUserFacts
  <2> QED  BY <1>1, <2>1, AnotherContext
<1> HIDE DEF o
<1>3. /\ stack' \in Seq(Frames) /\ told' \in Knowledge
      /\ TlsCalls(sock', kernel', tls', stack', told', connections')
  <2>1. CASE stack' = o /\ told' = Known(FALSE, sock', tls')
    BY <1>2, <2>1 DEF Known, Knowledge
  <2>2. CASE Fails(o, "connecting")
    <3>1. /\ stack' = Append(o, Frame("error", {}, "connecting")) /\ told' = "none"
          /\ "connecting" \in Knowledge
      BY <2>2 DEF Fails, Knowledge
    <3> QED  BY <1>2, <3>1, ErrorTold DEF Knowledge
  <2> QED  BY <2>1, <2>2 DEF o
<1>4. TlsTyped'  BY <1>3, TlsFacts DEF TlsTyped
<1> QED  BY <1>3, <1>4 DEF TlsInvariant

-----------------------------------------------------------------------------
(* The user. *)

LEMMA TlsConnectStep ==
    ASSUME TlsInvariant, TlsConnect
    PROVE  TlsInvariant'
<1> DEFINE o == OtherContext(stack)
           c == connections + 1
<1>1. /\ UserRuns /\ connections < MaxConnections /\ connections' = c
      /\ UNCHANGED <<arrived, written>>
  BY DEF TlsConnect, Connect
<1>2. c \in 0..MaxConnections /\ c # 0 /\ Fresh(sock, c) /\ (c = 1 => ~sock.scheduled)
  BY <1>1, TlsFacts DEF Fresh
<1>3. /\ stack \in Seq(Frames) /\ TlsNested(stack) /\ (stack = <<>> \/ Last(stack).at \in Slots)
      /\ \A i \in 1..Len(stack) : InContext(stack[i], sock, kernel, tls) /\ Expected(stack[i])
  BY <1>1, TlsFacts, TlsUserFacts
<1> HIDE DEF c
<1>4. CASE Connect /\ tls' = IF sock'.state = "Connecting" THEN SetUp("client")
                             ELSE NewTls("client")
  <2> DEFINE a == Aborted(sock)
  <2>1. /\ a \in Socks /\ NoChannel \in Channels /\ NewTls("client") \in TlsObjects
        /\ a.state = "Unconnected" /\ a.scheduled = sock.scheduled
        /\ Members(a, NoChannel, NewTls("client"), arrived, written, c)
    BY <1>2, NothingLeft
  <2>2. /\ a.posted = {} /\ a.readBuf = 0 /\ ~a.hasToAdd /\ a.interest = Both
        /\ ~a.lookingUp /\ a.writeBuf = 0 /\ ~a.connectTimer /\ ~a.open /\ ~a.enabled
    <3>1. a = [NewSocket(sock.capacity) EXCEPT !.scheduled = sock.scheduled]
      BY DEF Aborted
    <3> QED  BY <3>1 DEF NewSocket, Both
  <2> HIDE DEF a
  <2>3. CASE sock' = a /\ kernel' = NoChannel /\ Fails(o, "connecting")
    <3>1. tls' = NewTls("client")  BY <1>4, <2>1, <2>3
    <3> QED  BY <1>1, <1>2, <2>1, <2>3, <3>1, TlsRestarts
  <2>4. CASE ConnectToHost([a EXCEPT !.state = "Connecting", !.addresses = 1], o)
    <3> DEFINE x == [a EXCEPT !.state = "Connecting", !.addresses = 1]
    <3>1. 1 \in 0..MaxAddresses /\ "Connecting" \in States
      BY BoundsAssumption DEF States
    <3>2. /\ x \in Socks /\ x.state = "Connecting" /\ x.posted = {} /\ x.readBuf = 0
          /\ ~x.hasToAdd /\ x.interest = Both /\ ~x.lookingUp /\ x.writeBuf = 0
          /\ x.addresses = 1 /\ x.scheduled = sock.scheduled
      BY <2>1, <2>2, <3>1 DEF Socks
    <3>3. ConnectToHost(x, o)  BY <2>4
    <3> HIDE DEF x
    <3>4. o \in Seq(Frames) /\ TlsNested(o) /\ ~Doomed(o) /\ (o = <<>> \/ Last(o).at \in Slots)
      <4>1. a.state \in {"Unconnected", "Connecting"}  BY <2>1
      <4> QED  BY <1>3, <4>1, AnotherContext
    <3>5. ASSUME NEW y, NEW k, y.state = "Connecting"
          PROVE  \A i \in 1..Len(o) : InContext(o[i], y, k, SetUp("client")) /\ Expected(o[i])
      <4>1. y.state \in {"Unconnected", "Connecting"}  BY <3>5
      <4> QED  BY <1>3, <4>1, AnotherContext
    <3>6. sock'.state = "Connecting"
      <4>1. kernel \in Channels /\ x.addresses # 0  BY <3>2, TlsFacts
      <4> QED  BY <3>2, <3>3, <4>1, AddressTried
    <3>7. tls' = SetUp("client")  BY <1>4, <3>6
    <3>8. x.writeBuf <= written  BY <3>2, TlsFacts
    <3>9. /\ x.addresses = 0 => Fits(x, kernel) /\ sock.state = "Connecting"
          /\ connections' \in 0..MaxConnections /\ connections' # 0
          /\ connections' = 1 => ~x.scheduled
      BY <1>1, <1>2, <3>2
    <3>10. \A y, k : y.state = "Connecting" =>
             \A i \in 1..Len(o) : InContext(o[i], y, k, SetUp("client")) /\ Expected(o[i])
      BY <3>5
    <3> HIDE DEF o
    <3> QED  BY <1>1, <3>2, <3>3, <3>4, <3>7, <3>8, <3>9, <3>10, TlsConnecting
  <2>5. CASE /\ sock' = [a EXCEPT !.state = "Connecting", !.lookingUp = TRUE]
             /\ kernel' = NoChannel /\ stack' = o /\ told' = "connecting"
    <3> DEFINE x == [a EXCEPT !.state = "Connecting", !.lookingUp = TRUE]
    <3>1. /\ x \in Socks /\ x.state = "Connecting" /\ x.posted = {} /\ x.readBuf = 0
          /\ ~x.hasToAdd /\ x.interest = Both /\ x.writeBuf = 0 /\ ~x.connectTimer
          /\ ~x.enabled /\ ~x.open /\ x.scheduled = sock.scheduled /\ x.capacity = a.capacity
      BY <2>1, <2>2 DEF Socks, States
    <3>2. sock' = x  BY <2>5
    <3> HIDE DEF x
    <3>3. /\ NoChannel.fetched = {} /\ NoChannel.link = "none" /\ NoChannel.recvQ = 0
          /\ ~NoChannel.gone /\ NoChannel.space = "free"
      BY DEF NoChannel
    <3>4. Fits(x, NoChannel)
      <4>1. x.capacity \in Nat  BY <3>1, CapacitiesAssumption DEF Socks
      <4> QED  BY <3>1, <3>3, <4>1 DEF Fits
    <3>5. tls' = SetUp("client") /\ SetUp("client") \in TlsObjects
      BY <1>4, <3>1, <3>2, ClientSetUp
    <3>6. Members(x, NoChannel, SetUp("client"), arrived, written, c)
      BY <1>2, <2>1, <3>1, <3>3, <3>4, TlsFacts, ConnectingMembers
    <3>7. told' = Known(FALSE, sock', tls')  BY <2>5, <3>1, <3>2 DEF Known
    <3> QED  BY <1>1, <1>2, <2>1, <2>5, <3>1, <3>2, <3>5, <3>6, <3>7, TlsRestarts
  <2> QED  BY <1>4, <2>3, <2>4, <2>5 DEF Connect, a
<1>5. CASE /\ tls.role # "client" /\ Fails(stack, "connecting")
           /\ tls' = [tls EXCEPT !.role = "none"]
           /\ UNCHANGED <<sock, kernel>>
  <2> DEFINE t == [tls EXCEPT !.role = "none"]
  <2>1. /\ t \in TlsObjects /\ t.role = "none" /\ t.inbound = tls.inbound /\ t.out = tls.out
        /\ t.awaited = tls.awaited /\ t.parts = tls.parts /\ t.pending = tls.pending
        /\ t.closeSent = tls.closeSent /\ t.completed = tls.completed /\ t.ssl = tls.ssl
        /\ t.timer = tls.timer
    BY TlsFacts DEF TlsObjects, Roles
  <2>2. sock.state # "Connecting"
    <3>1. sock.state = "Connecting" => tls = SetUp("client")  BY TlsFacts DEF Agrees
    <3> QED  BY <1>5, <3>1, ClientSetUp
  <2>3. sock.state = "Unconnected" => t = NewTls(t.role)
    <3>1. sock.state = "Unconnected" => tls = NewTls(tls.role)  BY TlsFacts DEF Agrees
    <3>2. "none" \in Roles /\ NewTls("none") \in TlsObjects  BY NewTlsTyped DEF Roles
    <3>3. ASSUME sock.state = "Unconnected" PROVE t = NewTls("none")
      <4> DEFINE r == tls.role
      <4>1. tls = NewTls(r)  BY <3>1, <3>3
      <4> HIDE DEF r
      <4>2. /\ tls.wantsToRead = NewTls("none").wantsToRead
            /\ tls.closeReceived = NewTls("none").closeReceived
            /\ tls.failed = NewTls("none").failed /\ tls.heard = NewTls("none").heard
            /\ tls.behind = NewTls("none").behind /\ tls.ssl = NewTls("none").ssl
            /\ tls.completed = NewTls("none").completed /\ tls.timer = NewTls("none").timer
            /\ tls.inbound = NewTls("none").inbound /\ tls.out = NewTls("none").out
            /\ tls.awaited = NewTls("none").awaited /\ tls.parts = NewTls("none").parts
            /\ tls.pending = NewTls("none").pending
            /\ tls.closeSent = NewTls("none").closeSent
        BY <4>1 DEF NewTls
      <4>3. NewTls("none").role = "none"  BY DEF NewTls
      <4> DEFINE n == NewTls("none")
      <4> HIDE DEF n
      <4>4. [tls EXCEPT !.role = "none"] = n
        BY <3>2, <4>2, <4>3, TlsFacts DEF n, TlsObjects
      <4> QED  BY <4>4 DEF n, t
    <3> QED  BY <2>1, <3>3
  <2>4. tls' = t  BY <1>5
  <2> HIDE DEF t
  <2>5. Members(sock, kernel, t, arrived, written, c)
    <3>1. Ordered(t)  BY <2>1, TlsFacts DEF Ordered
    <3>2. Units(sock, kernel, t, arrived, written)
      BY <2>1, TlsFacts DEF Units, Held, Left
    <3>3. Agrees(sock, kernel, t)  BY <2>1, <2>2, <2>3, TlsFacts DEF Agrees, Is
    <3>4. Fresh(sock, c)  BY <1>2
    <3> QED  BY <3>1, <3>2, <3>3, <3>4, TlsFacts DEF Members
  <2>6. \A i \in 1..Len(stack) : InContext(stack[i], sock, kernel, t) /\ Expected(stack[i])
    <3> SUFFICES ASSUME NEW i \in 1..Len(stack) PROVE InContext(stack[i], sock, kernel, t)
      BY <1>3
    <3>1. InContext(stack[i], sock, kernel, tls)  BY <1>3
    <3>2. tls # SetUp("client")  BY <1>5, ClientSetUp
    <3> QED  BY <2>1, <3>1, <3>2 DEF InContext
  <2>7. /\ stack' = Append(stack, Frame("error", {}, "connecting")) /\ told' = "none"
        /\ "connecting" \in Knowledge /\ "none" \in Knowledge
    BY <1>5 DEF Fails, Knowledge
  <2>8. /\ stack' \in Seq(Frames)
        /\ TlsCalls(sock, kernel, t, stack', "none", c)
    BY <1>3, <2>6, <2>7, ErrorTold
  <2>9. TlsTyped'  BY <1>1, <1>2, <1>5, <2>1, <2>4, <2>7, <2>8, TlsFacts DEF TlsTyped
  <2> QED  BY <1>1, <1>5, <2>4, <2>5, <2>7, <2>8, <2>9 DEF TlsInvariant
<1> QED  BY <1>4, <1>5 DEF TlsConnect

LEMMA TlsAbortStep ==
    ASSUME TlsInvariant, TlsAbort
    PROVE  TlsInvariant'
<1>1. /\ UserRuns /\ sock' = Aborted(sock) /\ kernel' = NoChannel /\ tls' = AbortedTls
      /\ stack' = OtherContext(stack) /\ told' = "none"
      /\ connections' = connections /\ UNCHANGED <<arrived, written>>
  BY DEF TlsAbort, Abort
<1>2. /\ Aborted(sock) \in Socks /\ NoChannel \in Channels /\ AbortedTls \in TlsObjects
      /\ Aborted(sock).state = "Unconnected"
      /\ Members(Aborted(sock), NoChannel, AbortedTls, arrived, written, connections)
      /\ connections \in 0..MaxConnections
  BY TlsFacts, NothingLeft
<1>3. told' = Known(FALSE, sock', tls')  BY <1>1, <1>2 DEF Known
<1> QED  BY <1>1, <1>2, <1>3, TlsRestarts

\* What most functions of the socket leave alone.
Settled(y, x) ==
    /\ y.open = x.open /\ y.enabled = x.enabled /\ y.lookingUp = x.lookingUp
    /\ y.connectTimer = x.connectTimer /\ y.interest = x.interest
    /\ y.hasToAdd = x.hasToAdd

\* What disconnectFromPeer() does to a socket that is encrypted.
Disconnects(y, u, x, t) ==
    /\ y \in Socks /\ Settled(y, x)
    /\ y.state = "Disconnecting" /\ y.disconnectTimer
    /\ x.posted \subseteq y.posted /\ (x.writeBuf = 0 => "out" \in y.posted)
    /\ y.readBuf = x.readBuf /\ y.writeBuf = x.writeBuf
    /\ y.capacity = x.capacity /\ y.scheduled = x.scheduled
    /\ u \in TlsObjects
    /\ x.writeBuf = 0 => u.closeSent /\ u.out = t.out + 1
    /\ x.writeBuf # 0 => u = t
    /\ u.ssl = t.ssl /\ u.role = t.role /\ u.completed = t.completed
    /\ u.timer = t.timer /\ u.inbound = t.inbound /\ u.awaited = t.awaited
    /\ u.parts = t.parts /\ u.pending = t.pending
    /\ u.behind = t.behind

LEMMA DisconnectingFields ==
    ASSUME NEW x \in Socks, NEW t \in TlsObjects
    PROVE  Disconnects(Disconnecting(x, t).x, Disconnecting(x, t).t, x, t)
<1> DEFINE y == Disconnecting(x, t).x
           u == Disconnecting(x, t).t
<1>1. /\ y = [x EXCEPT !.state = "Disconnecting", !.disconnectTimer = TRUE,
                       !.posted = IF x.writeBuf = 0 THEN x.posted \cup {"out"} ELSE x.posted]
      /\ u = IF x.writeBuf = 0 THEN [t EXCEPT !.closeSent = TRUE, !.out = t.out + 1] ELSE t
  BY DEF Disconnecting
<1> HIDE DEF y, u
<1>2. "Disconnecting" \in States /\ "out" \in Both  BY DEF States, Both
<1>3. t.out + 1 \in Nat  BY TlsNumbers
<1>4. (x.posted \cup {"out"}) \in SUBSET Both  BY <1>2 DEF Socks
<1>5. /\ y \in Socks /\ Settled(y, x)
      /\ y.state = "Disconnecting" /\ y.disconnectTimer
      /\ y.posted = IF x.writeBuf = 0 THEN x.posted \cup {"out"} ELSE x.posted
      /\ y.readBuf = x.readBuf /\ y.writeBuf = x.writeBuf
      /\ y.capacity = x.capacity /\ y.scheduled = x.scheduled
  BY <1>1, <1>2, <1>4 DEF Socks, Settled
<1>6. /\ u \in TlsObjects
      /\ x.writeBuf = 0 => u.closeSent /\ u.out = t.out + 1
      /\ x.writeBuf # 0 => u = t
      /\ u.ssl = t.ssl /\ u.role = t.role /\ u.completed = t.completed
      /\ u.timer = t.timer /\ u.inbound = t.inbound /\ u.awaited = t.awaited
      /\ u.parts = t.parts /\ u.pending = t.pending
      /\ u.behind = t.behind
  <2>1. CASE x.writeBuf = 0  BY <1>1, <1>3, <2>1 DEF TlsObjects
  <2>2. CASE x.writeBuf # 0
    <3>1. u = t  BY <1>1, <2>2
    <3> QED  BY <2>2, <3>1
  <2> QED  BY <2>1, <2>2
<1>7. Disconnects(y, u, x, t)  BY <1>5, <1>6 DEF Disconnects
<1> QED  BY <1>7 DEF y, u

\* Its members still agree, and what has to be sent has an event.
LEMMA DisconnectingFits ==
    ASSUME NEW x \in Socks, NEW t \in TlsObjects, NEW k, NEW a, NEW w, NEW c, NEW f,
           NEW y, NEW u, Disconnects(y, u, x, t),
           Members(x, k, t, a, w, c), x.state = "Connected", t.completed
    PROVE  /\ Members(y, k, u, a, w, c)
           /\ \A d \in BOOLEAN : Known(d, y, u) = Known(d, x, t)
           /\ CaredFor(f, x, k, t, c) => CaredFor(f, y, k, u, c)
<1>2. Fits(x, k) /\ Ordered(t) /\ Units(x, k, t, a, w) /\ Agrees(x, k, t) /\ Fresh(x, c)
  BY DEF Members
<1>3. x.writeBuf \in Nat
  <2>1. x.writeBuf \in 0..MaxWritten  BY DEF Socks
  <2> QED  BY <2>1, BoundsAssumption
<1>4. Fits(y, k)  BY <1>2 DEF Fits, Settled, Disconnects
<1>5. Ordered(u)  BY <1>2 DEF Ordered, Disconnects
<1>6. Units(y, k, u, a, w)
  <2>1. Held(u) = Held(t)  BY DEF Held, Disconnects
  <2>2. Left(u) = Left(t)
    <3>1. ~t.closeSent  BY <1>2 DEF Agrees
    <3>2. CASE x.writeBuf = 0
      <4>1. u.closeSent /\ u.out = t.out + 1 /\ u.awaited = t.awaited
        BY <3>2 DEF Disconnects
      <4>2. Left(u) = t.out + 1 + t.awaited /\ Left(t) = t.out + t.awaited + 1
        BY <3>1, <4>1 DEF Left
      <4> QED  BY <4>2, TlsNumbers
    <3>3. CASE x.writeBuf # 0  BY <3>3 DEF Disconnects
    <3> QED  BY <3>2, <3>3
  <2>3. y.readBuf = x.readBuf /\ y.writeBuf = x.writeBuf /\ u.inbound = t.inbound
    BY DEF Disconnects
  <2> QED  BY <1>2, <2>1, <2>2, <2>3 DEF Units
<1>7. Agrees(y, k, u)
  <2>1. x.interest = Both  BY <1>2 DEF Fits
  <2> QED  BY <1>2, <2>1 DEF Agrees, Is, Settled, Disconnects
<1>8. Fresh(y, c)  BY <1>2 DEF Fresh, Disconnects
<1>9. \A d \in BOOLEAN : Known(d, y, u) = Known(d, x, t)  BY DEF Known, Disconnects
<1>10. ASSUME CaredFor(f, x, k, t, c) PROVE CaredFor(f, y, k, u, c)
  <2>1. Timed(f, y, u)  BY DEF Timed, Disconnects
  <2>2. ASSUME c = 1 PROVE SendComing(f, y, k)
    <3>1. CASE x.writeBuf = 0  BY <3>1 DEF SendComing, Disconnects
    <3>2. CASE x.writeBuf # 0
      <4>1. x.writeBuf > 0  BY <1>3, <3>2
      <4>2. SendComing(f, x, k)  BY <1>10, <2>2, <4>1 DEF CaredFor, Is
      <4> QED  BY <3>2, <4>2 DEF SendComing, Disconnects
    <3> QED  BY <3>1, <3>2
  <2>3. y.state # "Connected"  BY DEF Disconnects
  <2> QED  BY <2>1, <2>2, <2>3 DEF CaredFor
<1> QED  BY <1>4, <1>5, <1>6, <1>7, <1>8, <1>9, <1>10 DEF Members

LEMMA TlsDisconnectStep ==
    ASSUME TlsInvariant, TlsDisconnectFromPeer
    PROVE  TlsInvariant'
<1> DEFINE y == Disconnecting(sock, tls).x
           u == Disconnecting(sock, tls).t
<1>1. /\ sock.state = "Connected" /\ tls.completed /\ sock' = y /\ tls' = u
      /\ UNCHANGED <<kernel, stack, told, connections, arrived, written>>
  BY DEF TlsDisconnectFromPeer
<1>2a. Disconnects(y, u, sock, tls)  BY TlsFacts, DisconnectingFields
<1>2. /\ y \in Socks /\ u \in TlsObjects /\ y.state = "Disconnecting"
      /\ u.completed = tls.completed /\ u.inbound = tls.inbound
  BY <1>2a DEF Disconnects
<1>3. Members(sock, kernel, tls, arrived, written, connections)  BY DEF TlsInvariant
<1>4. /\ Members(y, kernel, u, arrived, written, connections)
      /\ \A d \in BOOLEAN : Known(d, y, u) = Known(d, sock, tls)
      /\ \A f : CaredFor(f, sock, kernel, tls, connections) =>
                    CaredFor(f, y, kernel, u, connections)
  <2> HIDE DEF y, u
  <2>1. sock \in Socks /\ tls \in TlsObjects  BY TlsFacts
  <2> QED  BY <1>1, <1>2a, <1>3, <2>1, DisconnectingFits
<1> HIDE DEF y, u
<1>5. \A f : InContext(f, sock, kernel, tls) => InContext(f, y, kernel, u)
  <2>1. tls # SetUp("client")  BY <1>1, ClientSetUp
  <2> QED  BY <1>1, <1>2, <2>1 DEF InContext
<1> QED  BY <1>1, <1>2, <1>4, <1>5, TlsFacts, CallsStay

LEMMA TlsWriteStep ==
    ASSUME TlsInvariant, Write, UNCHANGED tls
    PROVE  TlsInvariant'
<1> DEFINE p == IF sock.scheduled THEN sock.posted ELSE sock.posted \cup {"out"}
           x == [sock EXCEPT !.writeBuf = sock.writeBuf + 1, !.posted = p, !.scheduled = TRUE]
<1>1. /\ sock.state = "Connected" /\ written < MaxWritten /\ written' = written + 1
      /\ sock' = x
      /\ UNCHANGED <<kernel, tls, stack, told, connections, arrived>>
  BY DEF Write
<1>2. sock.writeBuf + 1 \in 0..MaxWritten
  <2>1. sock.writeBuf <= written  BY TlsFacts DEF Units
  <2>2. written < MaxWritten /\ sock.writeBuf \in Nat /\ MaxWritten \in Nat /\ written \in Nat
    BY <1>1, TlsFacts
  <2> QED  BY <2>1, <2>2
<1>3. p \in SUBSET Both  BY TlsFacts DEF Socks, Both
<1>4. p = sock.posted \/ "out" \in p  OBVIOUS
<1>5. ~sock.scheduled => "out" \in p  OBVIOUS
<1>5a. sock.posted \subseteq p  OBVIOUS
<1> HIDE DEF p
<1>6. /\ x \in Socks /\ Settled(x, sock) /\ x.state = sock.state /\ x.readBuf = sock.readBuf
      /\ x.disconnectTimer = sock.disconnectTimer /\ x.posted = p /\ x.scheduled
      /\ x.writeBuf = sock.writeBuf + 1 /\ x.capacity = sock.capacity
  BY <1>2, <1>3, TlsFacts DEF Socks, Settled
<1> HIDE DEF x
<1>7. Members(x, kernel, tls, arrived, written + 1, connections)
  <2>1. Fits(x, kernel)  BY <1>1, <1>6, TlsFacts DEF Fits, Settled
  <2>2. Units(x, kernel, tls, arrived, written + 1)
    <3>1. /\ sock.readBuf + Held(tls) <= arrived /\ kernel.recvQ <= Len(tls.inbound)
          /\ Left(tls) + sock.writeBuf <= written + 3 /\ sock.writeBuf <= written
          /\ Left(tls) \in Nat /\ sock.writeBuf \in Nat /\ written \in Nat
      BY TlsFacts DEF Units
    <3>2. /\ Left(tls) + (sock.writeBuf + 1) <= (written + 1) + 3
          /\ sock.writeBuf + 1 <= written + 1
      BY <3>1
    <3> QED  BY <1>6, <3>1, <3>2 DEF Units
  <2>3. Agrees(x, kernel, tls)  BY <1>1, <1>6, TlsFacts DEF Agrees, Is, Settled
  <2>4. Fresh(x, connections)  BY <1>1, <1>6, TlsFacts DEF Fresh
  <2> QED  BY <2>1, <2>2, <2>3, <2>4, TlsFacts DEF Members
<1>8. \A f : InContext(f, sock, kernel, tls) => InContext(f, x, kernel, tls)
  BY <1>6 DEF InContext, Settled
<1>9. \A d \in BOOLEAN : Known(d, x, tls) = Known(d, sock, tls)  BY <1>6 DEF Known
<1>10. ASSUME NEW f, CaredFor(f, sock, kernel, tls, connections)
       PROVE  CaredFor(f, x, kernel, tls, connections)
  <2>1. Timed(f, x, tls)  BY <1>6, <1>10 DEF Timed, CaredFor
  <2>2. ASSUME connections = 1 PROVE SendComing(f, x, kernel)
    <3>1. CASE sock.scheduled
      <4>1. SendComing(f, sock, kernel)  BY <1>1, <1>10, <2>2, <3>1 DEF CaredFor, Is
      <4> QED  BY <1>5a, <1>6, <4>1 DEF SendComing
    <3>2. CASE ~sock.scheduled  BY <1>5, <1>6, <3>2 DEF SendComing
    <3> QED  BY <3>1, <3>2
  <2>3. ASSUME x.state = "Connected", ~Full(x), tls.inbound # <<>> \/ tls.pending > 0
        PROVE  ReadComing(f, x, kernel, tls)
    <3>1. ReadComing(f, sock, kernel, tls)  BY <1>6, <1>10, <2>3 DEF CaredFor, Full
    <3> QED  BY <1>5a, <1>6, <3>1 DEF ReadComing
  <2> QED  BY <2>1, <2>2, <2>3 DEF CaredFor
<1>11. written' \in 0..MaxWritten  BY <1>1, TlsFacts
<1> QED  BY <1>1, <1>6, <1>7, <1>8, <1>9, <1>10, <1>11, TlsFacts, CallsStay

LEMMA TlsReadStep ==
    ASSUME TlsInvariant, TlsRead
    PROVE  TlsInvariant'
<1>1. PICK n \in 1..sock.readBuf :
        sock' = [sock EXCEPT !.readBuf = @ - n,
                             !.posted = IF FreesRoom(n) THEN @ \cup {"in"} ELSE @]
  BY DEF TlsRead
<1> DEFINE p == IF Full(sock) THEN sock.posted \cup {"in"} ELSE sock.posted
           x == [sock EXCEPT !.readBuf = sock.readBuf - n, !.posted = p]
<1>2. sock' = x /\ UNCHANGED <<kernel, tls, stack, told, connections, arrived, written>>
  BY <1>1 DEF TlsRead, FreesRoom
<1>3. /\ n \in Nat /\ n >= 1 /\ n <= sock.readBuf
      /\ sock.readBuf - n \in Nat /\ sock.readBuf - n <= sock.readBuf
  <2> HIDE DEF p, x
  <2>1. sock.readBuf \in Nat  BY TlsFacts
  <2> QED  BY <2>1
<1>4. sock.readBuf - n \in 0..MaxArriving
  <2>1. sock.readBuf \in 0..MaxArriving  BY TlsFacts DEF Socks
  <2> QED  BY <1>3, <2>1, TlsFacts
<1>5. p \in SUBSET Both /\ sock.posted \subseteq p /\ (Full(sock) => "in" \in p)
  BY TlsFacts DEF Socks, Both
<1> HIDE DEF p
<1>6. /\ x \in Socks /\ Settled(x, sock) /\ x.state = sock.state
      /\ x.readBuf = sock.readBuf - n
      /\ x.disconnectTimer = sock.disconnectTimer /\ x.posted = p
      /\ x.scheduled = sock.scheduled
      /\ x.writeBuf = sock.writeBuf /\ x.capacity = sock.capacity
  BY <1>4, <1>5, TlsFacts DEF Socks, Settled
<1> HIDE DEF x
<1>7. sock.readBuf # 0  BY <1>3, TlsFacts
<1>8. sock.state # "Connecting"  BY <1>7, TlsFacts DEF Fits
<1>9. Members(x, kernel, tls, arrived, written, connections)
  <2>1. Fits(x, kernel)
    <3>1. x.capacity = 0 \/ x.readBuf <= x.capacity
      <4>1. sock.capacity = 0 \/ sock.readBuf <= sock.capacity  BY TlsFacts DEF Fits
      <4> QED  BY <1>3, <1>6, <4>1, TlsFacts
    <3> QED  BY <1>6, <1>8, <3>1, TlsFacts DEF Fits, Settled
  <2>2. Units(x, kernel, tls, arrived, written)
    <3>1. /\ sock.readBuf + Held(tls) <= arrived /\ Held(tls) \in Nat /\ arrived \in Nat
          /\ sock.readBuf \in Nat
      BY TlsFacts DEF Units
    <3>2. (sock.readBuf - n) + Held(tls) <= arrived  BY <1>3, <3>1
    <3> QED  BY <1>6, <3>2, TlsFacts DEF Units
  <2>3. Agrees(x, kernel, tls)  BY <1>6, <1>7, TlsFacts DEF Agrees, Is, Settled
  <2>4. Fresh(x, connections)  BY <1>6, TlsFacts DEF Fresh
  <2> QED  BY <2>1, <2>2, <2>3, <2>4, TlsFacts DEF Members
<1>10. \A f : InContext(f, sock, kernel, tls) => InContext(f, x, kernel, tls)
  BY <1>6 DEF InContext, Settled
<1>11. \A d \in BOOLEAN : Known(d, x, tls) = Known(d, sock, tls)  BY <1>6 DEF Known
<1>12. ASSUME NEW f, CaredFor(f, sock, kernel, tls, connections)
       PROVE  CaredFor(f, x, kernel, tls, connections)
  <2>1. Timed(f, x, tls)  BY <1>6, <1>12 DEF Timed, CaredFor
  <2>2. SendComing(f, sock, kernel) => SendComing(f, x, kernel)
    BY <1>5, <1>6 DEF SendComing
  <2>3. ASSUME x.state = "Connected", tls.inbound # <<>> \/ tls.pending > 0
        PROVE  ReadComing(f, x, kernel, tls)
    <3>1. CASE Full(sock)  BY <1>5, <1>6, <3>1 DEF ReadComing
    <3>2. CASE ~Full(sock)
      <4>1. ReadComing(f, sock, kernel, tls)  BY <1>6, <1>12, <2>3, <3>2 DEF CaredFor
      <4> QED  BY <1>5, <1>6, <4>1 DEF ReadComing
    <3> QED  BY <3>1, <3>2
  <2> QED  BY <1>6, <1>12, <2>1, <2>2, <2>3 DEF CaredFor, Is
<1> QED  BY <1>2, <1>6, <1>9, <1>10, <1>11, <1>12, TlsFacts, CallsStay

LEMMA TlsCapacityStep ==
    ASSUME TlsInvariant, TlsSetReadBufferCapacity
    PROVE  TlsInvariant'
<1> DEFINE b == tls.behind \/ (Full(sock) /\ (tls.pending > 0 \/ tls.inbound # <<>>))
           t == [tls EXCEPT !.behind = b]
<1>1. PICK cap \in Capacities :
        /\ cap = 0 \/ cap >= sock.readBuf
        /\ sock' = [sock EXCEPT !.capacity = cap]
  BY DEF TlsSetReadBufferCapacity, SetReadBufferCapacity
<1> DEFINE x == [sock EXCEPT !.capacity = cap]
<1>2. /\ sock' = x /\ tls' = t
      /\ UNCHANGED <<kernel, stack, told, connections, arrived, written>>
  BY <1>1 DEF TlsSetReadBufferCapacity, SetReadBufferCapacity
<1>3. /\ x \in Socks /\ Settled(x, sock) /\ x.state = sock.state
      /\ x.readBuf = sock.readBuf
      /\ x.disconnectTimer = sock.disconnectTimer /\ x.posted = sock.posted
      /\ x.scheduled = sock.scheduled
      /\ x.writeBuf = sock.writeBuf /\ x.capacity = cap
  BY TlsFacts DEF Socks, Settled
<1>4. /\ b \in BOOLEAN /\ (tls.behind => b)
      /\ Full(sock) /\ (tls.pending > 0 \/ tls.inbound # <<>>) => b
      /\ tls.pending = 0 /\ tls.inbound = <<>> => b = tls.behind
  <2>1. tls.behind \in BOOLEAN  BY TlsFacts DEF TlsObjects
  <2> QED  BY <2>1
<1> HIDE DEF b
<1>5. /\ t \in TlsObjects /\ t.role = tls.role /\ t.inbound = tls.inbound /\ t.out = tls.out
      /\ t.awaited = tls.awaited /\ t.parts = tls.parts /\ t.pending = tls.pending
      /\ t.closeSent = tls.closeSent /\ t.completed = tls.completed /\ t.ssl = tls.ssl
      /\ t.timer = tls.timer /\ t.behind = b
  BY <1>4, TlsFacts DEF TlsObjects
<1>6. tls.pending = 0 /\ tls.inbound = <<>> => t = tls
  BY <1>4, TlsFacts DEF TlsObjects
<1> HIDE DEF x, t
<1>7. \A role : /\ NewTls(role).pending = 0 /\ NewTls(role).inbound = <<>>
                /\ SetUp(role).pending = 0 /\ SetUp(role).inbound = <<>>
  BY DEF NewTls, SetUp
<1>8. Members(x, kernel, t, arrived, written, connections)
  <2>1. Fits(x, kernel)
    <3>1. x.capacity = 0 \/ x.readBuf <= x.capacity
      <4>1. cap \in Nat  BY CapacitiesAssumption
      <4> QED  BY <1>1, <1>3, <4>1, TlsFacts
    <3> QED  BY <1>3, <3>1, TlsFacts DEF Fits, Settled
  <2>2. Units(x, kernel, t, arrived, written)
    BY <1>3, <1>5, TlsFacts DEF Units, Held, Left
  <2>3. Agrees(x, kernel, t)
    <3>1. sock.state = "Unconnected" => t = NewTls(t.role)
      <4>1. sock.state = "Unconnected" => tls = NewTls(tls.role)
        BY TlsFacts DEF Agrees
      <4> QED  BY <1>5, <1>6, <1>7, <4>1
    <3>2. sock.state = "Connecting" => t = SetUp("client")
      <4>1. sock.state = "Connecting" => tls = SetUp("client")  BY TlsFacts DEF Agrees
      <4> QED  BY <1>6, <1>7, <4>1
    <3> QED  BY <1>3, <1>5, <3>1, <3>2, TlsFacts DEF Agrees, Is, Settled
  <2>4. Ordered(t)  BY <1>5, TlsFacts DEF Ordered
  <2>5. Fresh(x, connections)  BY <1>3, TlsFacts DEF Fresh
  <2> QED  BY <2>1, <2>2, <2>3, <2>4, <2>5 DEF Members
<1>9. \A f : InContext(f, sock, kernel, tls) => InContext(f, x, kernel, t)
  <2>1. tls = SetUp("client") => t = SetUp("client")  BY <1>6, <1>7
  <2> QED  BY <1>3, <1>5, <2>1 DEF InContext, Settled
<1>10. \A d \in BOOLEAN : Known(d, x, t) = Known(d, sock, tls)  BY <1>3, <1>5 DEF Known
<1>11. ASSUME NEW f, CaredFor(f, sock, kernel, tls, connections)
       PROVE  CaredFor(f, x, kernel, t, connections)
  <2>1. Timed(f, x, t)  BY <1>3, <1>5, <1>11 DEF Timed, CaredFor
  <2>2. SendComing(f, sock, kernel) => SendComing(f, x, kernel)
    BY <1>3 DEF SendComing
  <2>3. ASSUME x.state = "Connected", tls.inbound # <<>> \/ tls.pending > 0
        PROVE  ReadComing(f, x, kernel, t)
    <3>1. CASE Full(sock)  BY <1>4, <1>5, <2>3, <3>1 DEF ReadComing
    <3>2. CASE ~Full(sock)
      <4>1. ReadComing(f, sock, kernel, tls)  BY <1>3, <1>11, <2>3, <3>2 DEF CaredFor
      <4> QED  BY <1>3, <1>4, <1>5, <4>1 DEF ReadComing
    <3> QED  BY <3>1, <3>2
  <2> QED  BY <1>3, <1>5, <1>11, <2>1, <2>2, <2>3 DEF CaredFor, Is
<1> QED  BY <1>2, <1>3, <1>5, <1>8, <1>9, <1>10, <1>11, TlsFacts, CallsStay

-----------------------------------------------------------------------------
(* Slots return. *)

\* What is taken care of without the running call stays so when it returns.
LEMMA CaredForWithout ==
    ASSUME NEW f, NEW g, NEW x, NEW k, NEW t, NEW c,
           f.at \notin Early, ~Closes(f), CaredFor(f, x, k, t, c)
    PROVE  CaredFor(g, x, k, t, c)
<1>1. Timed(g, x, t)  BY DEF CaredFor, Timed, Early
<1>2. SendComing(f, x, k) => SendComing(g, x, k)  BY DEF SendComing, Early
<1>3. ReadComing(f, x, k, t) => ReadComing(g, x, k, t)  BY DEF ReadComing
<1> QED  BY <1>1, <1>2, <1>3 DEF CaredFor

\* The call of onEvent returns.
LEMMA CallReturns ==
    ASSUME TlsInvariant, stack # <<>>, Top.at # "error", stack' = Caller,
           \/ Top.at \notin Early /\ ~Closes(Top)
           \/ sock.state \in {"Unconnected", "Connecting"},
           UNCHANGED <<sock, kernel, tls, told, connections, arrived, written>>
    PROVE  TlsInvariant'
<1>1. /\ Top \in Frames /\ Caller = <<>> /\ told = Known(FALSE, sock, tls)
      /\ CaredFor(Top, sock, kernel, tls, connections)
  BY RunningCall
<1>2. CaredFor(Idling, sock, kernel, tls, connections)
  BY <1>1, CaredForWithout, NothingOwed
<1>3. Members(sock, kernel, tls, arrived, written, connections)  BY DEF TlsInvariant
<1>4. /\ sock' \in Socks /\ kernel' \in Channels /\ tls' \in TlsObjects
  BY TlsFacts
<1> QED  BY <1>1, <1>2, <1>3, <1>4, NoCallLeft

\* After the slots of error(), or of a call that was told: the caller goes on.
LEMMA TlsErrorReturns ==
    ASSUME TlsInvariant, stack # <<>>, Top.at = "error", SlotReturns,
           tls' = IF Top.same THEN AbortedTls ELSE tls
    PROVE  TlsInvariant'
<1>1. /\ Top.at # "sentData" /\ Top.at # "connected" /\ Top.at # "disconnected"
      /\ UNCHANGED <<connections, arrived, written>>
      /\ IF Top.same THEN /\ sock' = Aborted(sock) /\ kernel' = NoChannel
                          /\ stack' = OtherContext(Caller) /\ told' = told
         ELSE stack' = Caller /\ UNCHANGED <<sock, kernel, told>>
  BY DEF SlotReturns
<1>2. stack \in Seq(Frames) /\ TlsCalls(sock, kernel, tls, stack, told, connections)
  BY TlsFacts
<1>3. /\ TlsNested(stack)
      /\ \A i \in 1..Len(stack) : InContext(stack[i], sock, kernel, tls) /\ Expected(stack[i])
      /\ told = Known(Doomed(stack), sock, tls)
  BY <1>2 DEF TlsCalls
<1>4. /\ Caller \in Seq(Frames) /\ Len(Caller) = Len(stack) - 1 /\ Len(stack) \in Nat \ {0}
      /\ Top = stack[Len(stack)] /\ Top \in Frames
      /\ \A i \in 1..(Len(stack) - 1) : Caller[i] = stack[i]
  BY <1>2, TopOfStack DEF Caller, Top
<1> DEFINE s == Caller
<1>5. TlsNested(s)
  <2> SUFFICES ASSUME NEW i \in 1..Len(s)
               PROVE  /\ i > 1 => s[i].at = "error"
                      /\ i < Len(s) => s[i].at \in Slots
    BY DEF TlsNested
  <2>1. i \in 1..Len(stack) /\ s[i] = stack[i] /\ i < Len(stack)  BY <1>4
  <2> QED  BY <1>3, <1>4, <2>1 DEF TlsNested
<1>6. \A i \in 1..Len(s) : InContext(s[i], sock, kernel, tls) /\ Expected(s[i])
  <2> SUFFICES ASSUME NEW i \in 1..Len(s)
               PROVE  InContext(s[i], sock, kernel, tls) /\ Expected(s[i])
    OBVIOUS
  <2>1. i \in 1..Len(stack) /\ s[i] = stack[i]  BY <1>4
  <2> QED  BY <1>3, <2>1
<1>7. s = <<>> \/ Last(s).at \in Slots
  <2> SUFFICES ASSUME s # <<>> PROVE Last(s).at \in Slots  OBVIOUS
  <2>1. Last(s) = s[Len(s)] /\ Len(s) \in 1..Len(s)  BY <1>4, TopOfStack
  <2>2. Len(s) \in 1..Len(stack) /\ Len(s) < Len(stack) /\ s[Len(s)] = stack[Len(s)]
    BY <1>4, <2>1
  <2> QED  BY <1>3, <2>1, <2>2 DEF TlsNested
<1>8. CASE Top.same
  <2>1. Doomed(stack)
    <3>1. Len(stack) \in 1..Len(stack)  BY <1>4
    <3> QED  BY <1>4, <1>8, <3>1 DEF Doomed
  <2>2. told' = "none"  BY <1>1, <1>3, <1>8, <2>1 DEF Known
  <2>3. /\ sock' = Aborted(sock) /\ kernel' = NoChannel /\ stack' = OtherContext(s)
        /\ tls' = AbortedTls
    BY <1>1, <1>8
  <2>4. /\ Aborted(sock) \in Socks /\ NoChannel \in Channels /\ AbortedTls \in TlsObjects
        /\ Aborted(sock).state = "Unconnected"
        /\ Members(Aborted(sock), NoChannel, AbortedTls, arrived, written, connections)
    BY TlsFacts, NothingLeft
  <2>5. Known(FALSE, sock', tls') = "none"  BY <2>3, <2>4 DEF Known
  <2>6. sock'.state \in {"Unconnected", "Connecting"}  BY <2>3, <2>4
  <2> HIDE DEF s
  <2>7. /\ OtherContext(s) \in Seq(Frames)
        /\ TlsCalls(sock', kernel', tls', OtherContext(s), Known(FALSE, sock', tls'), connections)
    BY <1>4, <1>5, <1>6, <1>7, <2>6, AnotherContext DEF s
  <2>8. TlsTyped'
    BY <1>1, <2>2, <2>3, <2>4, <2>7, TlsFacts DEF TlsTyped, Knowledge
  <2> QED  BY <1>1, <2>2, <2>3, <2>4, <2>5, <2>7, <2>8 DEF TlsInvariant
<1>9. CASE ~Top.same
  <2>1. stack' = s /\ UNCHANGED <<sock, kernel, tls, told>>  BY <1>1, <1>9
  <2>2. sock.state \in {"Unconnected", "Connecting"}
    <3>1. InContext(Top, sock, kernel, tls)
      <4>1. Len(stack) \in 1..Len(stack)  BY <1>4
      <4> QED  BY <1>3, <1>4, <4>1
    <3> QED  BY <1>9, <3>1 DEF InContext
  <2>3. Doomed(s) = Doomed(stack)
    <3>1. Doomed(s) => Doomed(stack)
      <4> SUFFICES ASSUME NEW i \in 1..Len(s), s[i].at = "error", s[i].same
                   PROVE  Doomed(stack)
        BY DEF Doomed
      <4>1. i \in 1..Len(stack) /\ s[i] = stack[i]  BY <1>4
      <4> QED  BY <4>1 DEF Doomed
    <3>2. Doomed(stack) => Doomed(s)
      <4> SUFFICES ASSUME NEW i \in 1..Len(stack), stack[i].at = "error", stack[i].same
                   PROVE  Doomed(s)
        BY DEF Doomed
      <4>1. i # Len(stack)  BY <1>4, <1>9
      <4>2. i \in 1..Len(s) /\ s[i] = stack[i]  BY <1>4, <4>1
      <4> QED  BY <4>2 DEF Doomed
    <3>3. Doomed(s) \in BOOLEAN /\ Doomed(stack) \in BOOLEAN  BY DEF Doomed
    <3> QED  BY <3>1, <3>2, <3>3
  <2>4. CaredFor(First(s), sock, kernel, tls, connections)  BY <2>2, NothingOwed
  <2>5. TlsCalls(sock, kernel, tls, s, told, connections)
    BY <1>3, <1>5, <1>6, <2>3, <2>4 DEF TlsCalls
  <2>6. TlsTyped'  BY <1>1, <1>4, <2>1, TlsFacts DEF TlsTyped
  <2>7. Members(sock, kernel, tls, arrived, written, connections)  BY DEF TlsInvariant
  <2> QED  BY <1>1, <2>1, <2>5, <2>6, <2>7 DEF TlsInvariant
<1> QED  BY <1>8, <1>9

\* The end of onEvent, or of the connection too.
LEMMA TlsFinishes ==
    ASSUME TlsInvariant, stack # <<>>, Top.at \in {"sent", "sentData"}, Finishes,
           UNCHANGED <<sock, kernel, tls, told, connections, arrived, written>>
    PROVE  TlsInvariant'
<1>1. /\ Top \in Frames /\ InContext(Top, sock, kernel, tls) /\ Expected(Top)
      /\ told = Known(FALSE, sock, tls)
      /\ CaredFor(Top, sock, kernel, tls, connections)
  BY RunningCall
<1>2. CASE Top.same /\ "hup" \in Top.mask
  <2> DEFINE f == [Top EXCEPT !.at = "drain"]
  <2>1. Goes(f)  BY <1>2 DEF Finishes
  <2>2. f \in Frames /\ f.at = "drain" /\ f.same = Top.same /\ f.mask = Top.mask
    BY <1>1 DEF Frames
  <2> HIDE DEF f
  <2>3. InContext(f, sock, kernel, tls) /\ Expected(f)
    BY <1>1, <1>2, <2>2 DEF InContext, Expected, Early
  <2>4. CaredFor(f, sock, kernel, tls, connections)
    BY <1>1, <1>2, <2>2
       DEF CaredFor, Timed, Closes, SendComing, ReadComing, Early
  <2>5. Members(sock, kernel, tls, arrived, written, connections)  BY DEF TlsInvariant
  <2> QED  BY <1>1, <2>1, <2>2, <2>3, <2>4, <2>5, TlsFacts, CallContinues
<1>3. CASE ~(Top.same /\ "hup" \in Top.mask)
  <2>1. stack' = Caller  BY <1>3 DEF Finishes
  <2>2. ~Top.same => sock.state \in {"Unconnected", "Connecting"}  BY <1>1 DEF InContext
  <2>3. Top.same => ~Closes(Top)  BY <1>3 DEF Closes
  <2>4. Top.at \notin Early /\ Top.at # "error"  BY DEF Early
  <2> QED  BY <2>1, <2>2, <2>3, <2>4, CallReturns
<1> QED  BY <1>2, <1>3

LEMMA TlsSlotsReturn ==
    ASSUME TlsInvariant, SlotReturns, Top.at \notin {"connected", "encrypted", "error"},
           UNCHANGED tls
    PROVE  TlsInvariant'
<1>1. stack # <<>> /\ UNCHANGED <<connections, arrived, written>>  BY DEF SlotReturns
<1>2. /\ Top \in Frames /\ InContext(Top, sock, kernel, tls) /\ Expected(Top)
      /\ told = Known(FALSE, sock, tls)
      /\ CaredFor(Top, sock, kernel, tls, connections)
  BY <1>1, RunningCall
<1>3. CASE Top.at = "disconnected"
  <2>1. stack' = Caller /\ UNCHANGED <<sock, kernel, told>>
    BY <1>3 DEF SlotReturns
  <2>2. sock.state \in {"Unconnected", "Connecting"}  BY <1>2, <1>3 DEF InContext
  <2> QED  BY <1>1, <2>1, <2>2, CallReturns
<1>4. CASE Top.at = "sentData"
  <2>1. Finishes /\ UNCHANGED <<sock, kernel, told>>  BY <1>4 DEF SlotReturns
  <2> QED  BY <1>1, <1>4, <2>1, TlsFinishes
<1>5. CASE Top.at \notin {"disconnected", "sentData"}
  <2>1. /\ Top.at \in DOMAIN After /\ Goes([Top EXCEPT !.at = After[Top.at]])
        /\ UNCHANGED <<sock, kernel, told>>
    BY <1>5 DEF SlotReturns
  <2>2. PICK a \in {"sent", "drain"} : Goes([Top EXCEPT !.at = a]) /\ a = After[Top.at]
    BY <2>1 DEF After
  <2>3. Top.at \in {"receivedData", "draining"} /\ (a = "drain" => Top.at = "draining")
    BY <2>1, <2>2 DEF After
  <2> DEFINE f == [Top EXCEPT !.at = a]
  <2>4. f \in Frames /\ f.at = a /\ f.same = Top.same /\ f.mask = Top.mask
    BY <1>2 DEF Frames
  <2>5. Goes(f)  BY <2>2
  <2> HIDE DEF f
  <2>6. InContext(f, sock, kernel, tls) /\ Expected(f)
    BY <1>2, <2>3, <2>4 DEF InContext, Expected, Early
  <2>7. CaredFor(f, sock, kernel, tls, connections)
    BY <1>2, <2>3, <2>4
       DEF CaredFor, Timed, Closes, SendComing, ReadComing, Early
  <2>8. Members(sock, kernel, tls, arrived, written, connections)  BY DEF TlsInvariant
  <2> QED  BY <1>1, <1>2, <2>1, <2>3, <2>4, <2>5, <2>6, <2>7, <2>8, TlsFacts, CallContinues
<1> QED  BY <1>3, <1>4, <1>5

-----------------------------------------------------------------------------
(* Sending. *)

\* What sending n records does, and what becomes of the channel.
SendsRecords(y, u, x, t, n) ==
    /\ y \in Socks /\ Settled(y, x) /\ y.state = x.state
    /\ y.disconnectTimer = x.disconnectTimer /\ y.posted = x.posted
    /\ y.readBuf = x.readBuf /\ y.writeBuf = x.writeBuf
    /\ y.capacity = x.capacity /\ ~y.scheduled
    /\ u \in TlsObjects /\ u.out = t.out - n
    /\ u.ssl = t.ssl /\ u.role = t.role /\ u.completed = t.completed
    /\ u.timer = t.timer /\ u.inbound = t.inbound /\ u.awaited = t.awaited
    /\ u.parts = t.parts /\ u.pending = t.pending /\ u.closeSent = t.closeSent
    /\ u.behind = t.behind /\ u.failed = t.failed /\ u.closeReceived = t.closeReceived

HasTaken(r, k, left) ==
    /\ r \in Channels /\ r.link = k.link /\ r.recvQ = k.recvQ /\ r.gone = k.gone
    /\ r.edge = k.edge /\ r.fetched = k.fetched
    /\ left > 0 => r.space = "awaited"

LEMMA SentFields ==
    ASSUME NEW c, c.x \in Socks, c.t \in TlsObjects, NEW n \in Sendable(c.t.out)
    PROVE  /\ n \in 0..c.t.out
           /\ SendsRecords(TlsSent(c, n).x, TlsSent(c, n).t, c.x, c.t, n)
<1> DEFINE y == TlsSent(c, n).x
           u == TlsSent(c, n).t
           x == c.x
           t == c.t
<1>1. x \in Socks /\ t \in TlsObjects /\ t.out \in Nat  BY TlsNumbers
<1>2. n \in 0..t.out
  <2>1. n \in 1..t.out \/ n = 0  BY DEF Sendable
  <2> QED  BY <1>1, <2>1
<1>3. PICK h \in BOOLEAN : h = (t.heard \/ n > 0)
  <2>1. (t.heard \/ n > 0) \in BOOLEAN  OBVIOUS
  <2> QED  BY <2>1, Zenon
<1>4. y = [x EXCEPT !.scheduled = FALSE] /\ u = [t EXCEPT !.out = t.out - n, !.heard = h]
  BY <1>3 DEF TlsSent
<1> HIDE DEF y, u, x, t
<1>5. t.out - n \in Nat  BY <1>1, <1>2
<1>6. SendsRecords(y, u, x, t, n)
  BY <1>1, <1>3, <1>4, <1>5, ZenonT(40) DEF SendsRecords, Socks, TlsObjects, Settled
<1> QED  BY <1>2, <1>6 DEF x, t, y, u

LEMMA ChannelTakes ==
    ASSUME NEW k \in Channels, NEW size \in Nat, NEW n \in 0..size, NEW r \in Takes(k, size, n)
    PROVE  HasTaken(r, k, size - n)
<1>1. /\ r \in Channels /\ r.link = k.link /\ r.recvQ = k.recvQ /\ r.gone = k.gone
      /\ r.edge = k.edge /\ r.fetched = k.fetched
  BY TakesSpace
<1>2. ASSUME size - n > 0 PROVE r.space = "awaited"
  <2>1. n < size  BY <1>2
  <2>2. r = [k EXCEPT !.space = "awaited"]  BY <2>1 DEF Takes
  <2> QED  BY <2>2 DEF Channels
<1> QED  BY <1>1, <1>2 DEF HasTaken

\* The members agree after it.
LEMMA SendingFits ==
    ASSUME NEW x \in Socks, NEW t \in TlsObjects, NEW y, NEW u, NEW k, NEW r, NEW n \in Nat,
           NEW a, NEW w \in Nat, NEW c, n <= t.out,
           Members(x, k, t, a, w, c), Is(x), SendsRecords(y, u, x, t, n),
           HasTaken(r, k, u.out)
    PROVE  Members(y, r, u, a, w, c)
<1>1. Fits(x, k) /\ Ordered(t) /\ Units(x, k, t, a, w) /\ Agrees(x, k, t) /\ Fresh(x, c)
  BY DEF Members
<1>2. Fits(y, r)  BY <1>1 DEF Fits, Settled, SendsRecords, HasTaken, Is
<1>3. Ordered(u)  BY <1>1 DEF Ordered, SendsRecords
<1>4. Units(y, r, u, a, w)
  <2>1. Held(u) = Held(t)  BY DEF Held, SendsRecords
  <2>2. x.writeBuf \in Nat
    <3>1. x.writeBuf \in 0..MaxWritten  BY DEF Socks
    <3> QED  BY <3>1, BoundsAssumption
  <2>3. Left(u) + x.writeBuf <= Left(t) + x.writeBuf
    <3>1. /\ u.out = t.out - n /\ u.awaited = t.awaited /\ u.closeSent = t.closeSent
      BY DEF SendsRecords
    <3>2. t.out \in Nat /\ t.awaited \in Nat  BY TlsNumbers
    <3>3. CASE t.closeSent
      <4>1. Left(u) = t.out - n + t.awaited /\ Left(t) = t.out + t.awaited
        BY <3>1, <3>3 DEF Left
      <4> QED  BY <2>2, <3>2, <4>1
    <3>4. CASE ~t.closeSent
      <4>1. Left(u) = t.out - n + t.awaited + 1 /\ Left(t) = t.out + t.awaited + 1
        BY <3>1, <3>4 DEF Left
      <4> QED  BY <2>2, <3>2, <4>1
    <3> QED  BY <3>3, <3>4
  <2>4. Left(u) + x.writeBuf <= w + 3
    <3>1. Left(t) + x.writeBuf <= w + 3  BY <1>1 DEF Units
    <3>2. Left(t) \in Nat  BY TlsNumbers DEF Left
    <3>3. u \in TlsObjects  BY DEF SendsRecords
    <3>4. Left(u) \in Nat  BY <3>3, TlsNumbers DEF Left
    <3> QED  BY <2>2, <2>3, <3>1, <3>2, <3>4
  <2> QED  BY <1>1, <2>1, <2>4 DEF Units, SendsRecords, HasTaken
<1>5. Agrees(y, r, u)
  <2>1. ASSUME x.state = "Disconnecting", x.interest # Both
        PROVE  y.writeBuf = 0 /\ u.out = 0 /\ u.closeSent /\ ~y.scheduled
    <3>1. x.writeBuf = 0 /\ t.out = 0 /\ t.closeSent  BY <1>1, <2>1 DEF Agrees
    <3>2. n = 0  BY <3>1
    <3> QED  BY <3>1, <3>2 DEF SendsRecords
  <2> QED  BY <1>1, <2>1 DEF Agrees, Is, Settled, SendsRecords, HasTaken
<1>6. Fresh(y, c)  BY <1>1 DEF Fresh, Is, SendsRecords
<1> QED  BY <1>2, <1>3, <1>4, <1>5, <1>6 DEF Members

\* Before anything is sent, what the user has written is encrypted.
Encrypts(y, u, x, t) ==
    /\ y \in Socks /\ Settled(y, x) /\ y.state = x.state
    /\ y.disconnectTimer = x.disconnectTimer /\ y.posted = x.posted
    /\ y.readBuf = x.readBuf /\ (t.completed => y.writeBuf = 0)
    /\ y.capacity = x.capacity /\ y.scheduled = x.scheduled
    /\ u \in TlsObjects
    /\ u.ssl = t.ssl /\ u.role = t.role /\ u.completed = t.completed
    /\ u.timer = t.timer /\ u.inbound = t.inbound /\ u.awaited = t.awaited
    /\ u.parts = t.parts /\ u.pending = t.pending /\ u.closeSent = t.closeSent
    /\ u.behind = t.behind

LEMMA EncryptingFits ==
    ASSUME NEW x \in Socks, NEW t \in TlsObjects, NEW k, NEW a, NEW w \in Nat, NEW c,
           Members(x, k, t, a, w, c), Is(x)
    PROVE  /\ Encrypts(Encrypted(x, t).x, Encrypted(x, t).t, x, t)
           /\ Members(Encrypted(x, t).x, k, Encrypted(x, t).t, a, w, c)
<1> DEFINE y == Encrypted(x, t).x
           u == Encrypted(x, t).t
<1>1. Fits(x, k) /\ Ordered(t) /\ Units(x, k, t, a, w) /\ Agrees(x, k, t) /\ Fresh(x, c)
  BY DEF Members
<1>2. /\ t.completed => y = [x EXCEPT !.writeBuf = 0] /\ u = [t EXCEPT !.out = t.out + x.writeBuf]
      /\ ~t.completed => y = x /\ u = t
  BY DEF Encrypted
<1> HIDE DEF y, u
<1>3. CASE ~t.completed
  <2>1. y = x /\ u = t  BY <1>2, <1>3
  <2>2. Encrypts(y, u, x, t)  BY <1>3, <2>1 DEF Encrypts, Settled
  <2> QED  BY <2>1, <2>2 DEF y, u
<1>4. CASE t.completed
  <2>1. x.writeBuf \in Nat /\ MaxWritten \in Nat
    <3>1. x.writeBuf \in 0..MaxWritten  BY DEF Socks
    <3> QED  BY <3>1, BoundsAssumption
  <2>2. t.out + x.writeBuf \in Nat /\ 0 \in 0..MaxWritten  BY <2>1, TlsNumbers
  <2>3. y = [x EXCEPT !.writeBuf = 0] /\ u = [t EXCEPT !.out = t.out + x.writeBuf]
    BY <1>2, <1>4
  <2>4. Encrypts(y, u, x, t) /\ y.writeBuf = 0 /\ u.out = t.out + x.writeBuf
    BY <1>4, <2>2, <2>3 DEF Encrypts, Settled, Socks, TlsObjects
  <2>5. Fits(y, k)  BY <1>1, <2>4 DEF Fits, Settled, Encrypts
  <2>6. Ordered(u)  BY <1>1, <2>4 DEF Ordered, Encrypts
  <2>7. Units(y, k, u, a, w)
    <3>1. Held(u) = Held(t)  BY <2>4 DEF Held, Encrypts
    <3>2. Left(u) + 0 = Left(t) + x.writeBuf
      <4>1. u.closeSent = t.closeSent /\ u.awaited = t.awaited  BY <2>4 DEF Encrypts
      <4>2. t.out \in Nat /\ t.awaited \in Nat  BY TlsNumbers
      <4>3. CASE t.closeSent
        <5>1. Left(u) = t.out + x.writeBuf + t.awaited /\ Left(t) = t.out + t.awaited
          BY <2>4, <4>1, <4>3 DEF Left
        <5> QED  BY <2>1, <4>2, <5>1
      <4>4. CASE ~t.closeSent
        <5>1. /\ Left(u) = t.out + x.writeBuf + t.awaited + 1
              /\ Left(t) = t.out + t.awaited + 1
          BY <2>4, <4>1, <4>4 DEF Left
        <5> QED  BY <2>1, <4>2, <5>1
      <4> QED  BY <4>3, <4>4
    <3> QED  BY <1>1, <2>4, <3>1, <3>2 DEF Units, Encrypts
  <2>8. Agrees(y, k, u)
    <3>1. ASSUME x.state = "Disconnecting", x.interest # Both
          PROVE  y.writeBuf = 0 /\ u.out = 0 /\ u.closeSent /\ ~y.scheduled
      <4>1. x.writeBuf = 0 /\ t.out = 0 /\ t.closeSent /\ ~x.scheduled
        BY <1>1, <3>1 DEF Agrees
      <4> QED  BY <2>4, <4>1 DEF Encrypts
    <3> QED  BY <1>1, <2>4, <3>1 DEF Agrees, Is, Settled, Encrypts
  <2>9. Fresh(y, c)  BY <1>1, <2>4 DEF Fresh, Encrypts
  <2> QED  BY <2>4, <2>5, <2>6, <2>7, <2>8, <2>9 DEF Members, y, u
<1> QED  BY <1>3, <1>4

-----------------------------------------------------------------------------
(* onEvent goes on. *)

\* Behind its second part, with the members x: the disconnect timer stops for a
\* connection that is about to be closed.
LEMMA TlsGoesOn ==
    ASSUME NEW x \in Socks, NEW read \in BOOLEAN,
           TlsInvariant, stack # <<>>, Top.at \in {"in", "encrypted"}, Top.same,
           GoesOn(x, read), read => told = "encrypted",
           kernel' \in Channels, tls' \in TlsObjects,
           Members(x, kernel', tls', arrived, written, connections),
           x.state # "Connecting", told' = told, told = Known(FALSE, x, tls'),
           "hup" \in Top.mask =>
               /\ kernel'.gone \/ kernel'.link = "failed"
               /\ x.state = "Connected" /\ ~tls'.completed => tls'.inbound = <<>>,
           CaredFor([Top EXCEPT !.at = "sent"], x, kernel', tls', connections),
           UNCHANGED <<connections, arrived, written>>
    PROVE  TlsInvariant'
<1> DEFINE g == [Top EXCEPT !.at = "sent"]
           h == "hup" \notin Top.mask
<1>1. Top \in Frames /\ Top.at # "error" /\ told \in Knowledge
  BY RunningCall, TlsFacts
<1>2. PICK a \in {"receivedData", "sent"} :
        /\ Goes([Top EXCEPT !.same = TRUE, !.was = told, !.at = a])
        /\ a = "receivedData" => read
  <2>1. CASE read  BY <2>1 DEF GoesOn
  <2>2. CASE ~read  BY <2>2 DEF GoesOn
  <2> QED  BY <2>1, <2>2
<1> DEFINE f == [Top EXCEPT !.same = TRUE, !.was = told, !.at = a]
<1>3. f \in Frames /\ f.at = a /\ f.same /\ f.was = told /\ f.mask = Top.mask
  BY <1>1 DEF Frames, Slots
<1>4. g.at = "sent" /\ g.mask = Top.mask  BY <1>1 DEF Frames
<1>5. Goes(f)  BY <1>2
<1>6. /\ sock' = [x EXCEPT !.disconnectTimer = x.disconnectTimer /\ h]
      /\ x.disconnectTimer \in BOOLEAN
  BY DEF GoesOn, Socks
<1>7. CaredFor(g, x, kernel', tls', connections)  OBVIOUS
<1> HIDE DEF f, g
<1>8. PICK d \in BOOLEAN : d = (x.disconnectTimer /\ h)
  <2>1. (x.disconnectTimer /\ h) \in BOOLEAN  BY <1>6
  <2> QED  BY <2>1, Zenon
<1>9. /\ h /\ x.disconnectTimer => d
      /\ d => x.disconnectTimer
  BY <1>8
<1>10. sock' = [x EXCEPT !.disconnectTimer = d]  BY <1>6, <1>8
<1> HIDE DEF h
<1>11. /\ sock' \in Socks /\ Settled(sock', x) /\ sock'.state = x.state
       /\ sock'.disconnectTimer = d /\ sock'.posted = x.posted
       /\ sock'.readBuf = x.readBuf /\ sock'.writeBuf = x.writeBuf
       /\ sock'.capacity = x.capacity /\ sock'.scheduled = x.scheduled
  BY <1>10 DEF Socks, Settled
<1>12. Members(sock', kernel', tls', arrived, written, connections)
  <2>1. /\ Fits(x, kernel') /\ Ordered(tls') /\ Units(x, kernel', tls', arrived, written)
        /\ Agrees(x, kernel', tls') /\ Fresh(x, connections)
    BY DEF Members
  <2>2. Fits(sock', kernel')  BY <1>11, <2>1 DEF Fits, Settled
  <2>3. Units(sock', kernel', tls', arrived, written)  BY <1>11, <2>1 DEF Units
  <2>4. Agrees(sock', kernel', tls')  BY <1>11, <2>1 DEF Agrees, Is, Settled
  <2>5. Fresh(sock', connections)  BY <1>11, <2>1 DEF Fresh
  <2> QED  BY <2>1, <2>2, <2>3, <2>4, <2>5 DEF Members
<1>13. InContext(f, sock', kernel', tls')
  BY <1>3, <1>11 DEF InContext, Early
<1>14. Expected(f)  BY <1>2, <1>3 DEF Expected
<1>15. told' = Known(FALSE, sock', tls')
  BY <1>11 DEF Known
<1>16. CaredFor(f, sock', kernel', tls', connections)
  <2>1. /\ x.state = "Connected" /\ ~tls'.completed => tls'.timer
        /\ x.state = "Disconnecting" => x.disconnectTimer \/ "hup" \in Top.mask
    BY <1>4, <1>7 DEF CaredFor, Timed, Closes
  <2>2. Timed(f, sock', tls')
    BY <1>2, <1>3, <1>9, <1>11, <2>1 DEF Timed, Closes, h
  <2>3. SendComing(g, x, kernel') => SendComing(f, sock', kernel')
    BY <1>4, <1>11 DEF SendComing
  <2>4. ReadComing(g, x, kernel', tls') => ReadComing(f, sock', kernel', tls')
    BY <1>4, <1>11 DEF ReadComing, Early
  <2> QED  BY <1>7, <1>11, <2>2, <2>3, <2>4 DEF CaredFor, Is, Full
<1> QED  BY <1>1, <1>2, <1>3, <1>5, <1>11, <1>12, <1>13, <1>14, <1>15, <1>16, CallContinues

\* After the slots of connected(), a client speaks first.
LEMMA ConnectedReturnsStep ==
    ASSUME TlsInvariant, ConnectedReturns
    PROVE  TlsInvariant'
<1>1. /\ stack # <<>> /\ Top.at = "connected" /\ Top.at # "error"
      /\ UNCHANGED <<told, connections, arrived, written>>
  BY DEF ConnectedReturns, Running
<1>2. /\ Top \in Frames /\ InContext(Top, sock, kernel, tls) /\ Expected(Top)
      /\ told = Known(FALSE, sock, tls)
      /\ CaredFor(Top, sock, kernel, tls, connections)
  BY <1>1, RunningCall
<1>3. CASE Top.same
  <2> DEFINE c == [x |-> sock, t |-> Hello]
  <2>1. PICK n \in Sendable(Hello.out) :
          /\ sock' = TlsSent(c, n).x /\ tls' = TlsSent(c, n).t
          /\ kernel' \in Takes(kernel, Hello.out, n)
          /\ Goes([Top EXCEPT !.at = "in"])
    BY <1>3 DEF ConnectedReturns
  <2>2. sock.state = "Connected" /\ tls = SetUp("client")
    BY <1>1, <1>2, <1>3 DEF InContext
  <2>3. /\ Hello \in TlsObjects /\ Hello.out = 1 /\ Hello.awaited = 1 /\ Hello.timer
        /\ Hello.inbound = <<>> /\ Hello.pending = 0 /\ Hello.parts = 0 /\ Hello.ssl
        /\ ~Hello.completed /\ ~Hello.closeSent /\ Hello.role = "client"
    <3>1. Hello = [tls EXCEPT !.out = tls.out + 1, !.wantsToRead = TRUE, !.timer = TRUE]
      BY DEF Hello
    <3>2. tls.out + 1 = 1 /\ 1 \in Nat /\ tls \in TlsObjects
      BY <2>2, ClientSetUp
    <3>3. tls.parts = 0  BY <2>2, ClientSetUp, TlsNumbers DEF Held
    <3> HIDE DEF c
    <3> QED  BY <2>2, <3>1, <3>2, <3>3, ClientSetUp DEF TlsObjects
  <2>4. Members(sock, kernel, Hello, arrived, written, connections)
    <3>1. Len(Hello.inbound) = 0  BY <2>3, EmptySeq
    <3>2. Len(tls.inbound) = 0 /\ Held(tls) = 0  BY <2>2, ClientSetUp
    <3>3. Held(Hello) = 0 /\ Left(Hello) = 3  BY <2>3, <3>1 DEF Held, Left
    <3>4. Ordered(Hello)  BY <2>3, <3>1 DEF Ordered
    <3>5. Units(sock, kernel, Hello, arrived, written)
      <4>1. sock.writeBuf <= written /\ sock.readBuf + 0 <= arrived /\ kernel.recvQ <= 0
        BY <3>2, TlsFacts DEF Units
      <4>2. 3 + sock.writeBuf <= written + 3  BY <4>1, TlsFacts
      <4> QED  BY <3>1, <3>3, <4>1, <4>2 DEF Units
    <3>6. Agrees(sock, kernel, Hello)
      <4>1. sock.state = "Connected" /\ ~tls.completed => sock.readBuf = 0
        BY TlsFacts DEF Agrees
      <4>2. sock.readBuf = 0  BY <2>2, <4>1, ClientSetUp
      <4>3. "hup" \in kernel.fetched =>
               /\ kernel.gone \/ kernel.link = "failed"
               /\ sock.state \in {"Connecting", "Connected"} => "in" \in kernel.fetched
        BY TlsFacts DEF Agrees
      <4> QED  BY <2>2, <2>3, <4>2, <4>3 DEF Agrees, Is
    <3> QED  BY <3>4, <3>5, <3>6, TlsFacts DEF Members
  <2>5. c.x = sock /\ c.t = Hello /\ sock \in Socks  BY TlsFacts
  <2> HIDE DEF c
  <2>6. n \in 0..Hello.out /\ SendsRecords(sock', tls', sock, Hello, n)
    BY <2>1, <2>3, <2>5, SentFields
  <2>7. Hello.out \in Nat /\ n \in Nat /\ n <= Hello.out  BY <2>3, <2>6
  <2>8. HasTaken(kernel', kernel, Hello.out - n)
    BY <2>1, <2>6, <2>7, TlsFacts, ChannelTakes
  <2>9. HasTaken(kernel', kernel, tls'.out)  BY <2>6, <2>8 DEF SendsRecords
  <2>10. Members(sock', kernel', tls', arrived, written, connections)
    <3>1. Is(sock) /\ written \in Nat  BY <2>2, TlsFacts DEF Is
    <3> QED  BY <2>3, <2>4, <2>5, <2>6, <2>7, <2>9, <3>1, SendingFits
  <2> DEFINE f == [Top EXCEPT !.at = "in"]
  <2>11. Goes(f)  BY <2>1
  <2>12. f \in Frames /\ f.at = "in" /\ f.same /\ f.mask = Top.mask
    BY <1>2, <1>3 DEF Frames
  <2> HIDE DEF f
  <2>13. /\ sock'.state = "Connected" /\ ~tls'.completed /\ tls'.timer /\ ~sock'.scheduled
         /\ tls'.inbound = <<>> /\ tls'.pending = 0 /\ tls'.out \in Nat
         /\ tls' \in TlsObjects /\ sock' \in Socks
    <3>1. tls' \in TlsObjects  BY <2>6 DEF SendsRecords
    <3> QED  BY <2>2, <2>3, <2>6, <3>1, TlsNumbers DEF SendsRecords
  <2>14. InContext(f, sock', kernel', tls')
    <3>1. "hup" \in Top.mask =>
             (kernel.gone \/ kernel.link = "failed") /\ "in" \in Top.mask
      BY <1>1, <1>2, <1>3, <2>2, ClientSetUp DEF InContext, Early
    <3> QED  BY <2>9, <2>12, <2>13, <3>1 DEF InContext, Early, HasTaken
  <2>15. Expected(f)  BY <2>12 DEF Expected
  <2>16. told' = Known(FALSE, sock', tls')
    BY <1>1, <1>2, <2>2, <2>13, ClientSetUp DEF Known
  <2>17. CaredFor(f, sock', kernel', tls', connections)
    <3>1. tls'.out > 0 => kernel'.space = "awaited"  BY <2>9 DEF HasTaken
    <3> QED  BY <2>13, <3>1 DEF CaredFor, Timed, SendComing
  <2>18. kernel' \in Channels  BY <2>9 DEF HasTaken
  <2> QED  BY <1>1, <2>10, <2>11, <2>12, <2>13, <2>14, <2>15, <2>16, <2>17, <2>18,
              CallContinues
<1>4. CASE ~Top.same
  <2>1. stack' = Caller /\ UNCHANGED <<sock, kernel, tls>>
    BY <1>4 DEF ConnectedReturns
  <2>2. sock.state \in {"Unconnected", "Connecting"}  BY <1>2, <1>4 DEF InContext
  <2> QED  BY <1>1, <2>1, <2>2, CallReturns
<1> QED  BY <1>3, <1>4

\* After the slots of encrypted().
LEMMA EncryptedReturnsStep ==
    ASSUME TlsInvariant, EncryptedReturns
    PROVE  TlsInvariant'
<1>1. /\ stack # <<>> /\ Top.at = "encrypted" /\ Top.at # "error"
      /\ UNCHANGED <<kernel, tls, told, connections, arrived, written>>
  BY DEF EncryptedReturns, Running
<1>2. /\ Top \in Frames /\ InContext(Top, sock, kernel, tls) /\ Expected(Top)
      /\ told = Known(FALSE, sock, tls)
      /\ CaredFor(Top, sock, kernel, tls, connections)
  BY <1>1, RunningCall
<1>3. CASE Top.same
  <2>1. GoesOn(sock, "read" \in Top.mask)  BY <1>3 DEF EncryptedReturns
  <2>2. PICK r \in BOOLEAN : r = ("read" \in Top.mask)
    <3>1. ("read" \in Top.mask) \in BOOLEAN  OBVIOUS
    <3> QED  BY <3>1, Zenon
  <2>3. GoesOn(sock, r)  BY <2>1, <2>2
  <2>4. tls.completed  BY <1>1, <1>2, <1>3 DEF InContext
  <2>5. Is(sock)  BY <2>4, TlsFacts DEF Agrees
  <2>6. told = "encrypted" /\ sock.state # "Connecting" /\ sock.state # "Unconnected"
    BY <1>2, <2>4, <2>5 DEF Known, Is
  <2>7. /\ "hup" \in Top.mask => kernel.gone \/ kernel.link = "failed"
    BY <1>2, <1>3 DEF InContext
  <2>8. CaredFor([Top EXCEPT !.at = "sent"], sock, kernel, tls, connections)
    <3> DEFINE g == [Top EXCEPT !.at = "sent"]
    <3>1. g.at = "sent" /\ g.mask = Top.mask  BY <1>2 DEF Frames
    <3> HIDE DEF g
    <3>2. CaredFor(g, sock, kernel, tls, connections)
      BY <1>1, <1>2, <3>1 DEF CaredFor, Timed, Closes, SendComing, ReadComing, Early
    <3> QED  BY <3>2 DEF g
  <2>9. Members(sock, kernel, tls, arrived, written, connections)  BY DEF TlsInvariant
  <2> QED  BY <1>1, <1>2, <1>3, <2>3, <2>4, <2>6, <2>7, <2>8, <2>9, TlsFacts, TlsGoesOn
<1>4. CASE ~Top.same
  <2>1. stack' = Caller /\ UNCHANGED sock  BY <1>4 DEF EncryptedReturns
  <2>2. sock.state \in {"Unconnected", "Connecting"}  BY <1>2, <1>4 DEF InContext
  <2> QED  BY <1>1, <2>1, <2>2, CallReturns
<1> QED  BY <1>3, <1>4

LEMMA TlsSlotReturnsStep ==
    ASSUME TlsInvariant, TlsSlotReturns
    PROVE  TlsInvariant'
<1>1. CASE ConnectedReturns  BY <1>1, ConnectedReturnsStep
<1>2. CASE EncryptedReturns  BY <1>2, EncryptedReturnsStep
<1>3. CASE /\ SlotReturns /\ Top.at \notin {"connected", "encrypted"}
           /\ tls' = IF Top.at = "error" /\ Top.same THEN AbortedTls ELSE tls
  <2>1. stack # <<>>  BY <1>3 DEF SlotReturns
  <2>2. CASE Top.at = "error"
    <3>1. tls' = IF Top.same THEN AbortedTls ELSE tls  BY <1>3, <2>2
    <3> QED  BY <1>3, <2>1, <2>2, <3>1, TlsErrorReturns
  <2>3. CASE Top.at # "error"
    <3>1. UNCHANGED tls  BY <1>3, <2>3
    <3> QED  BY <1>3, <2>3, <3>1, TlsSlotsReturn
  <2> QED  BY <2>2, <2>3
<1> QED  BY <1>1, <1>2, <1>3 DEF TlsSlotReturns

-----------------------------------------------------------------------------
(* The first part of onEvent. *)

\* What the frame and the members are while it is next.
LEMMA TlsOutFacts ==
    ASSUME TlsInvariant, Running("out")
    PROVE  /\ stack # <<>> /\ Top.at = "out" /\ Top.at # "error"
           /\ Top \in Frames /\ Caller = <<>> /\ Top.same
           /\ InContext(Top, sock, kernel, tls)
           /\ told = Known(FALSE, sock, tls)
           /\ CaredFor(Top, sock, kernel, tls, connections)
<1>1. stack # <<>> /\ Top.at = "out" /\ Top.at # "error"  BY DEF Running
<1>2. /\ Top \in Frames /\ Caller = <<>> /\ InContext(Top, sock, kernel, tls)
      /\ told = Known(FALSE, sock, tls)
      /\ CaredFor(Top, sock, kernel, tls, connections)
  BY <1>1, RunningCall
<1>3. Top.same  BY <1>1, <1>2 DEF InContext
<1> QED  BY <1>1, <1>2, <1>3

LEMMA TlsOutWhileConnectedStep ==
    ASSUME TlsInvariant, Running("out"), TlsOutWhileConnected,
           UNCHANGED <<connections, arrived, written>>
    PROVE  TlsInvariant'
<1> DEFINE e == Encrypted(sock, tls)
<1>1. PICK n \in Sendable(e.t.out) :
        /\ sock' = TlsSent(e, n).x /\ tls' = TlsSent(e, n).t
        /\ kernel' \in Takes(kernel, e.t.out, n)
        /\ Goes([Top EXCEPT !.at = "in", !.sent = n > 0 /\ tls.completed])
  BY DEF TlsOutWhileConnected
<1>2. sock.state = "Connected" /\ told' = told /\ Is(sock)
  BY DEF TlsOutWhileConnected, Is
<1>3. Members(sock, kernel, tls, arrived, written, connections)  BY DEF TlsInvariant
<1>4. /\ Encrypts(e.x, e.t, sock, tls)
      /\ Members(e.x, kernel, e.t, arrived, written, connections)
  BY <1>2, <1>3, TlsFacts, EncryptingFits
<1> HIDE DEF e
<1>5. e.x \in Socks /\ e.t \in TlsObjects /\ e.t.out \in Nat /\ Is(e.x)
  BY <1>2, <1>4, TlsNumbers DEF Encrypts, Is
<1>6. n \in 0..e.t.out /\ SendsRecords(sock', tls', e.x, e.t, n)
  BY <1>1, <1>5, SentFields
<1>7. n \in Nat /\ n <= e.t.out  BY <1>5, <1>6
<1>8. HasTaken(kernel', kernel, e.t.out - n)
  BY <1>1, <1>5, <1>6, TlsFacts, ChannelTakes
<1>9. HasTaken(kernel', kernel, tls'.out)  BY <1>6, <1>8 DEF SendsRecords
<1>10. Members(sock', kernel', tls', arrived, written, connections)
  BY <1>4, <1>5, <1>6, <1>7, <1>9, TlsFacts, SendingFits
<1>11. PICK b \in BOOLEAN : b = (n > 0 /\ tls.completed)
  <2>1. (n > 0 /\ tls.completed) \in BOOLEAN  OBVIOUS
  <2> QED  BY <2>1, Zenon
<1> DEFINE f == [Top EXCEPT !.at = "in", !.sent = b]
<1>12. Goes(f)  BY <1>1, <1>11
<1>13. f \in Frames /\ f.at = "in" /\ f.same /\ f.mask = Top.mask
  BY TlsOutFacts DEF Frames
<1> HIDE DEF f
<1>14. /\ sock' \in Socks /\ tls' \in TlsObjects /\ sock'.state = "Connected"
       /\ tls'.completed = tls.completed /\ tls'.timer = tls.timer
       /\ tls'.inbound = tls.inbound /\ tls'.pending = tls.pending
       /\ tls'.behind = tls.behind
       /\ ~sock'.scheduled /\ (tls.completed => sock'.writeBuf = 0)
       /\ sock'.posted = sock.posted /\ sock'.readBuf = sock.readBuf
       /\ sock'.capacity = sock.capacity
  BY <1>2, <1>4, <1>6 DEF SendsRecords, Encrypts
<1>15. /\ kernel' \in Channels /\ kernel'.link = kernel.link /\ kernel'.recvQ = kernel.recvQ
       /\ kernel'.gone = kernel.gone /\ kernel'.edge = kernel.edge
       /\ kernel'.fetched = kernel.fetched
       /\ tls'.out > 0 => kernel'.space = "awaited"
  BY <1>9 DEF HasTaken
<1>16. InContext(f, sock', kernel', tls')
  <2>1. "hup" \in Top.mask =>
          /\ kernel.gone \/ kernel.link = "failed"
          /\ ~tls.completed => "in" \in Top.mask
    BY <1>2, TlsOutFacts DEF InContext, Early
  <2> QED  BY <1>13, <1>14, <1>15, <2>1 DEF InContext, Early
<1>17. Expected(f)  BY <1>13 DEF Expected
<1>18. told' = Known(FALSE, sock', tls')
  BY <1>2, <1>14, TlsOutFacts DEF Known
<1>19. CaredFor(f, sock', kernel', tls', connections)
  <2>1. Timed(f, sock', tls')
    BY <1>2, <1>14, TlsOutFacts DEF CaredFor, Timed
  <2>2. sock'.scheduled \/ (tls'.completed /\ sock'.writeBuf > 0) \/ tls'.out > 0 =>
            SendComing(f, sock', kernel')
    BY <1>14, <1>15 DEF SendComing
  <2>3. ReadComing(Top, sock, kernel, tls) => ReadComing(f, sock', kernel', tls')
    BY <1>13, <1>14, <1>15 DEF ReadComing, Early
  <2> QED  BY <1>2, <1>14, <2>1, <2>2, <2>3, TlsOutFacts DEF CaredFor, Full
<1> QED  BY <1>10, <1>12, <1>13, <1>14, <1>15, <1>16, <1>17, <1>18, <1>19, TlsOutFacts,
            CallContinues

\* A close_notify follows the last of the data, and the sending side is shut down.
LEMMA TlsOutWhileDisconnectingStep ==
    ASSUME TlsInvariant, Running("out"), TlsOutWhileDisconnecting,
           UNCHANGED <<connections, arrived, written>>
    PROVE  TlsInvariant'
<1> DEFINE e == Encrypted(sock, tls)
           C(n) == TlsSent(e, n)
           T(n) == IF C(n).t.closeSent THEN C(n).t
                   ELSE [C(n).t EXCEPT !.closeSent = TRUE, !.out = @ + 1]
           I(n) == IF T(n).out = 0 THEN {} ELSE sock.interest
           X(n, hup) == [C(n).x EXCEPT !.posted = IF C(n).t.closeSent THEN @ ELSE @ \cup {"out"},
                                       !.interest = I(n), !.disconnectTimer = @ /\ ~hup]
<1>1. PICK n \in Sendable(e.t.out) : \E k \in Takes(kernel, e.t.out, n), hup \in BOOLEAN :
        /\ hup => T(n).out = 0 /\ kernel.gone
        /\ sock' = X(n, hup) /\ tls' = T(n)
        /\ kernel' = Modified(sock, k, I(n))
        /\ Goes([Top EXCEPT !.at = "in", !.sent = n > 0,
                            !.mask = IF hup THEN @ \cup {"hup"} ELSE @])
  BY DEF TlsOutWhileDisconnecting
<1>2. PICK k \in Takes(kernel, e.t.out, n), hup \in BOOLEAN :
        /\ hup => T(n).out = 0 /\ kernel.gone
        /\ sock' = X(n, hup) /\ tls' = T(n)
        /\ kernel' = Modified(sock, k, I(n))
        /\ Goes([Top EXCEPT !.at = "in", !.sent = n > 0,
                            !.mask = IF hup THEN @ \cup {"hup"} ELSE @])
  BY <1>1
<1>3. sock.state = "Disconnecting" /\ told' = told /\ Is(sock)
  BY DEF TlsOutWhileDisconnecting, Is
<1>4. tls.completed  BY <1>3, TlsFacts DEF Agrees
<1>5. Members(sock, kernel, tls, arrived, written, connections)  BY DEF TlsInvariant
<1>6. /\ Encrypts(e.x, e.t, sock, tls)
      /\ Members(e.x, kernel, e.t, arrived, written, connections)
  BY <1>3, <1>5, TlsFacts, EncryptingFits
<1> DEFINE y == C(n).x
           u == C(n).t
           i == I(n)
           t == T(n)
<1> HIDE DEF e
<1>7. e.x \in Socks /\ e.t \in TlsObjects /\ e.t.out \in Nat /\ Is(e.x)
  BY <1>3, <1>6, TlsNumbers DEF Encrypts, Is
<1>8. n \in 0..e.t.out /\ SendsRecords(y, u, e.x, e.t, n)
  BY <1>7, SentFields
<1>9. /\ t = IF u.closeSent THEN u ELSE [u EXCEPT !.closeSent = TRUE, !.out = u.out + 1]
      /\ i = IF t.out = 0 THEN {} ELSE sock.interest
      /\ sock' = [y EXCEPT !.posted = IF u.closeSent THEN y.posted ELSE y.posted \cup {"out"},
                           !.interest = i, !.disconnectTimer = y.disconnectTimer /\ ~hup]
      /\ tls' = t /\ kernel' = Modified(sock, k, i)
      /\ hup => t.out = 0 /\ kernel.gone
  BY <1>2
<1> HIDE DEF y, u, i, t, C, T, I, X
<1>10. n \in Nat /\ n <= e.t.out  BY <1>7, <1>8
<1>11. HasTaken(k, kernel, u.out)
  <2>1. HasTaken(k, kernel, e.t.out - n)  BY <1>7, <1>8, TlsFacts, ChannelTakes
  <2> QED  BY <1>8, <2>1 DEF SendsRecords
<1>12. Members(y, k, u, arrived, written, connections)
  BY <1>6, <1>7, <1>8, <1>10, <1>11, TlsFacts, SendingFits
<1>13. /\ y \in Socks /\ u \in TlsObjects /\ Settled(y, sock) /\ y.state = "Disconnecting"
       /\ y.disconnectTimer = sock.disconnectTimer /\ y.readBuf = sock.readBuf
       /\ y.writeBuf = 0 /\ ~y.scheduled /\ y.posted = sock.posted
       /\ u.completed /\ u.inbound = tls.inbound
       /\ u.closeSent \in BOOLEAN /\ u.out \in Nat
  <2>1. y \in Socks /\ u \in TlsObjects  BY <1>8 DEF SendsRecords
  <2>2. u.out \in Nat /\ u.closeSent \in BOOLEAN  BY <2>1, TlsNumbers DEF TlsObjects
  <2> QED  BY <1>3, <1>4, <1>6, <1>8, <2>1, <2>2 DEF SendsRecords, Encrypts, Settled
<1>14. /\ t \in TlsObjects /\ t.closeSent /\ t.out = IF u.closeSent THEN u.out ELSE u.out + 1
       /\ t.ssl = u.ssl /\ t.role = u.role /\ t.completed = u.completed
       /\ t.timer = u.timer /\ t.inbound = u.inbound /\ t.awaited = u.awaited
       /\ t.parts = u.parts /\ t.pending = u.pending
  <2>1. u.out + 1 \in Nat  BY <1>13
  <2>2. CASE u.closeSent
    <3>1. t = u  BY <1>9, <2>2
    <3> QED  BY <1>13, <2>2, <3>1
  <2>3. CASE ~u.closeSent
    <3>1. t = [u EXCEPT !.closeSent = TRUE, !.out = u.out + 1]  BY <1>9, <2>3
    <3> QED  BY <1>13, <2>1, <2>3, <3>1 DEF TlsObjects
  <2> QED  BY <2>2, <2>3
<1>15. Left(t) = Left(u)
  <2>1. u.awaited \in Nat  BY <1>13, TlsNumbers
  <2> QED  BY <1>13, <1>14, <2>1 DEF Left
<1>16. PICK d \in BOOLEAN : d = (y.disconnectTimer /\ ~hup)
  <2>1. (y.disconnectTimer /\ ~hup) \in BOOLEAN  OBVIOUS
  <2> QED  BY <2>1, Zenon
<1>17. PICK p \in SUBSET Both : p = IF u.closeSent THEN y.posted ELSE y.posted \cup {"out"}
  <2>1. y.posted \in SUBSET Both  BY <1>13 DEF Socks
  <2> QED  BY <2>1 DEF Both
<1>18. sock' = [y EXCEPT !.posted = p, !.interest = i, !.disconnectTimer = d]
  BY <1>9, <1>16, <1>17
<1>19. i \in SUBSET Both
  <2>1. sock.interest \in SUBSET Both  BY TlsFacts DEF Socks
  <2> QED  BY <1>9, <2>1
<1>20. /\ sock' \in Socks /\ sock'.state = "Disconnecting" /\ sock'.open = y.open
       /\ sock'.enabled = y.enabled /\ sock'.lookingUp = y.lookingUp
       /\ sock'.connectTimer = y.connectTimer /\ sock'.hasToAdd = y.hasToAdd
       /\ sock'.interest = i /\ sock'.posted = p /\ sock'.disconnectTimer = d
       /\ sock'.readBuf = y.readBuf /\ sock'.writeBuf = 0 /\ sock'.capacity = y.capacity
       /\ ~sock'.scheduled
  BY <1>13, <1>18, <1>19 DEF Socks
<1>21. /\ k \in Channels /\ k.link = kernel.link /\ k.recvQ = kernel.recvQ
       /\ k.gone = kernel.gone /\ (u.out > 0 => k.space = "awaited")
  BY <1>11 DEF HasTaken
<1>22. /\ kernel' \in Channels /\ kernel'.link = k.link /\ kernel'.recvQ = k.recvQ
       /\ kernel'.gone = k.gone /\ kernel'.space = k.space
       /\ kernel'.fetched = k.fetched \/ kernel'.fetched = {}
  <2>1. kernel' = k \/ kernel' = [k EXCEPT !.edge = TRUE, !.fetched = {}]
    BY <1>9 DEF Modified
  <2>2. {} \in Masks  BY DEF Masks
  <2> QED  BY <1>21, <2>1, <2>2 DEF Channels
<1>23. Members(sock', kernel', tls', arrived, written, connections)
  <2>1. /\ Fits(y, k) /\ Ordered(u) /\ Units(y, k, u, arrived, written)
        /\ Agrees(y, k, u) /\ Fresh(y, connections)
    BY <1>12 DEF Members
  <2>2. Fits(sock', kernel')  BY <1>13, <1>20, <1>22, <2>1 DEF Fits
  <2>3. Ordered(t)  BY <1>14, <2>1 DEF Ordered
  <2>4. Units(sock', kernel', t, arrived, written)
    <3>1. Held(t) = Held(u)  BY <1>14 DEF Held
    <3> QED  BY <1>13, <1>14, <1>15, <1>20, <1>22, <2>1, <3>1 DEF Units
  <2>5. Agrees(sock', kernel', t)
    <3>1. i # Both => t.out = 0
      <4>1. CASE i = sock.interest
        <5>1. y.interest # Both => u.out = 0 /\ u.closeSent
          BY <1>13, <2>1 DEF Agrees
        <5> QED  BY <1>13, <1>14, <4>1, <5>1 DEF Settled
      <4>2. CASE i # sock.interest  BY <1>9, <4>2
      <4> QED  BY <4>1, <4>2
    <3> QED  BY <1>13, <1>14, <1>20, <1>22, <2>1, <3>1 DEF Agrees, Is
  <2>6. Fresh(sock', connections)  BY <1>13, <1>20, <2>1 DEF Fresh
  <2> QED  BY <1>9, <2>2, <2>3, <2>4, <2>5, <2>6 DEF Members
<1>24. PICK b \in BOOLEAN : b = (n > 0)
  <2>1. (n > 0) \in BOOLEAN  OBVIOUS
  <2> QED  BY <2>1, Zenon
<1>25. PICK m : m = IF hup THEN Top.mask \cup {"hup"} ELSE Top.mask  OBVIOUS
<1> DEFINE f == [Top EXCEPT !.at = "in", !.sent = b, !.mask = m]
<1>26. Goes(f)  BY <1>2, <1>24, <1>25
<1>27. m \in FrameMasks
  <2>1. Top.mask \in FrameMasks  BY TlsOutFacts DEF Frames
  <2> QED  BY <1>25, <2>1 DEF FrameMasks
<1>28. f \in Frames /\ f.at = "in" /\ f.same /\ f.mask = m
  BY <1>27, TlsOutFacts DEF Frames
<1> HIDE DEF f
<1>29. InContext(f, sock', kernel', tls')
  <2>1. "hup" \in m => kernel.gone \/ kernel.link = "failed"
    <3>1. "hup" \in Top.mask => kernel.gone \/ kernel.link = "failed"
      BY TlsOutFacts DEF InContext
    <3> QED  BY <1>9, <1>25, <3>1
  <2> QED  BY <1>20, <1>21, <1>22, <1>28, <2>1 DEF InContext
<1>30. Expected(f)  BY <1>28 DEF Expected
<1>31. told' = Known(FALSE, sock', tls')
  BY <1>3, <1>4, <1>9, <1>13, <1>14, <1>20, TlsOutFacts DEF Known
<1>32. CaredFor(f, sock', kernel', tls', connections)
  <2>1. sock.disconnectTimer  BY <1>3, TlsOutFacts DEF CaredFor, Timed, Closes
  <2>2. Timed(f, sock', tls')
    <3>1. CASE hup  BY <1>20, <1>25, <1>28, <3>1 DEF Timed, Closes
    <3>2. CASE ~hup  BY <1>13, <1>16, <1>20, <2>1, <3>2 DEF Timed
    <3> QED  BY <3>1, <3>2
  <2>3. ASSUME tls'.out > 0 PROVE SendComing(f, sock', kernel')
    <3>1. CASE u.closeSent
      BY <1>9, <1>14, <1>21, <1>22, <2>3, <3>1 DEF SendComing
    <3>2. CASE ~u.closeSent
      BY <1>17, <1>20, <3>2 DEF SendComing
    <3> QED  BY <3>1, <3>2
  <2> QED  BY <1>20, <2>2, <2>3 DEF CaredFor
<1> QED  BY <1>9, <1>14, <1>20, <1>22, <1>23, <1>26, <1>28, <1>29, <1>30, <1>31, <1>32,
            TlsOutFacts, CallContinues

\* The next address, if there is one, is tried by onEvent and by the timer.
LEMMA NextAddressTried ==
    ASSUME TlsInvariant, sock.state = "Connecting", ~sock.lookingUp,
           ConnectToHost([sock EXCEPT !.connectTimer = FALSE], <<>>),
           UNCHANGED <<tls, connections, arrived, written>>
    PROVE  TlsInvariant'
<1> DEFINE x == [sock EXCEPT !.connectTimer = FALSE]
           s == <<>>
<1>1. /\ x \in Socks /\ x.state = sock.state /\ x.posted = sock.posted
      /\ x.readBuf = sock.readBuf /\ x.writeBuf = sock.writeBuf
      /\ x.capacity = sock.capacity /\ x.hasToAdd = sock.hasToAdd
      /\ x.enabled = sock.enabled /\ x.open = sock.open /\ x.lookingUp = sock.lookingUp
      /\ ~x.connectTimer /\ x.interest = sock.interest
      /\ x.disconnectTimer = sock.disconnectTimer /\ x.scheduled = sock.scheduled
  BY TlsFacts DEF Socks
<1>2. ConnectToHost(x, s)  OBVIOUS
<1> HIDE DEF x
<1>3. /\ x.posted = {} /\ x.readBuf = 0 /\ ~x.hasToAdd /\ x.interest = Both
      /\ ~x.lookingUp /\ x.writeBuf <= written
  BY <1>1, TlsFacts DEF Fits, Units
<1>4. Fits(x, kernel)  BY <1>1, TlsFacts DEF Fits
<1>5. s \in Seq(Frames) /\ Len(s) = 0 /\ s = <<>>  BY EmptySeq
<1> HIDE DEF s
<1>6. TlsNested(s) /\ ~Doomed(s)  BY <1>5 DEF TlsNested, Doomed
<1>7. \A y, k : y.state = "Connecting" =>
         \A i \in 1..Len(s) : InContext(s[i], y, k, SetUp("client")) /\ Expected(s[i])
  BY <1>5
<1>8. tls' = SetUp("client")  BY TlsFacts DEF Agrees
<1>9. connections' \in 0..MaxConnections /\ connections' # 0
  BY TlsFacts DEF Fresh
<1>10. connections' = 1 => ~x.scheduled  BY <1>1, TlsFacts DEF Fresh
<1> QED  BY <1>1, <1>2, <1>3, <1>4, <1>5, <1>6, <1>7, <1>8, <1>9, <1>10, TlsConnecting

LEMMA TlsOutWhileConnectingStep ==
    ASSUME TlsInvariant, Running("out"), OutWhileConnecting,
           UNCHANGED <<tls, connections, arrived, written>>
    PROVE  TlsInvariant'
<1>1. sock.state = "Connecting"  BY DEF OutWhileConnecting
<1>2. \/ /\ kernel.link = "up"
         /\ sock' = [[sock EXCEPT !.connectTimer = FALSE]
                        EXCEPT !.state = "Connected", !.addresses = 0]
         /\ Goes([Top EXCEPT !.at = "connected", !.was = told])
         /\ told' = "connected" /\ kernel' = kernel
      \/ ConnectToHost([sock EXCEPT !.connectTimer = FALSE], Caller)
  BY DEF OutWhileConnecting
<1>3. "out" \in Top.mask /\ sock.enabled
  BY <1>1, TlsOutFacts DEF InContext
<1>4. ~sock.lookingUp  BY <1>3, TlsFacts DEF Fits
<1>5. CASE /\ kernel.link = "up"
           /\ sock' = [[sock EXCEPT !.connectTimer = FALSE]
                          EXCEPT !.state = "Connected", !.addresses = 0]
           /\ Goes([Top EXCEPT !.at = "connected", !.was = told])
           /\ told' = "connected" /\ kernel' = kernel
  <2>1. 0 \in 0..MaxAddresses /\ "Connected" \in States  BY BoundsAssumption DEF States
  <2>2. /\ sock' \in Socks /\ sock'.state = "Connected" /\ sock'.posted = sock.posted
        /\ sock'.readBuf = sock.readBuf /\ sock'.writeBuf = sock.writeBuf
        /\ sock'.capacity = sock.capacity /\ sock'.hasToAdd = sock.hasToAdd
        /\ sock'.enabled = sock.enabled /\ sock'.open = sock.open
        /\ sock'.lookingUp = sock.lookingUp /\ ~sock'.connectTimer
        /\ sock'.interest = sock.interest /\ sock'.scheduled = sock.scheduled
    BY <1>5, <2>1, TlsFacts DEF Socks
  <2>3. tls = SetUp("client") /\ connections # 0 /\ (connections = 1 => ~sock.scheduled)
    BY <1>1, TlsFacts DEF Agrees, Fresh
  <2>4. Members(sock', kernel', tls', arrived, written, connections)
    <3>1. Fits(sock', kernel)
      BY <1>1, <1>3, <1>4, <1>5, <2>2, TlsFacts DEF Fits
    <3>2. Units(sock', kernel, tls, arrived, written)  BY <2>2, TlsFacts DEF Units
    <3>3. Agrees(sock', kernel, tls)
      <4>1. sock.readBuf = 0  BY <1>1, TlsFacts DEF Fits
      <4>2. "hup" \in kernel.fetched =>
               (kernel.gone \/ kernel.link = "failed") /\ "in" \in kernel.fetched
        BY <1>1, TlsFacts DEF Agrees
      <4> QED  BY <2>2, <2>3, <4>1, <4>2, ClientSetUp DEF Agrees, Is
    <3>4. Fresh(sock', connections)  BY <2>2, <2>3 DEF Fresh
    <3> QED  BY <1>5, <3>1, <3>2, <3>3, <3>4, TlsFacts DEF Members
  <2> DEFINE f == [Top EXCEPT !.at = "connected", !.was = told]
  <2>5. Goes(f)  BY <1>5
  <2>6. f \in Frames /\ f.at = "connected" /\ f.same /\ f.mask = Top.mask /\ f.was = told
    BY TlsOutFacts, TlsFacts DEF Frames, Slots
  <2> HIDE DEF f
  <2>7. told = "connecting"  BY <1>1, TlsOutFacts DEF Known
  <2>8. Expected(f)  BY <2>6, <2>7 DEF Expected
  <2>9. InContext(f, sock', kernel', tls')
    <3>1. "hup" \in Top.mask =>
             (kernel.gone \/ kernel.link = "failed") /\ "in" \in Top.mask
      BY <1>1, <2>3, TlsOutFacts, ClientSetUp DEF InContext, Early
    <3> QED  BY <1>5, <2>2, <2>3, <2>6, <3>1 DEF InContext, Early
  <2>10. told' = Known(FALSE, sock', tls')
    BY <1>5, <2>2, <2>3, ClientSetUp DEF Known
  <2>11. CaredFor(f, sock', kernel', tls', connections)
    <3>1. /\ ~tls'.completed /\ tls'.out = 0 /\ tls'.pending = 0 /\ tls'.inbound = <<>>
      BY <2>3, ClientSetUp
    <3> QED  BY <2>2, <2>3, <2>6, <3>1 DEF CaredFor, Timed
  <2> QED  BY <1>5, <2>2, <2>4, <2>5, <2>6, <2>8, <2>9, <2>10, <2>11, TlsOutFacts, TlsFacts,
              CallContinues
<1>6. CASE ConnectToHost([sock EXCEPT !.connectTimer = FALSE], Caller)
  <2>1. ConnectToHost([sock EXCEPT !.connectTimer = FALSE], <<>>)
    BY <1>6, TlsOutFacts
  <2> QED  BY <1>1, <1>4, <2>1, NextAddressTried
<1> QED  BY <1>2, <1>5, <1>6

LEMMA TlsOnEventOutStep ==
    ASSUME TlsInvariant, TlsOnEventOut
    PROVE  TlsInvariant'
<1>1. Running("out") /\ UNCHANGED <<connections, arrived, written>>  BY DEF TlsOnEventOut
<1>2. CASE "out" \in Top.mask /\ sock.state # "Unconnected"
  <2>1. \/ TlsOutWhileConnected
        \/ TlsOutWhileDisconnecting
        \/ OutWhileConnecting /\ UNCHANGED tls
    BY <1>2 DEF TlsOnEventOut
  <2> QED  BY <1>1, <2>1, TlsOutWhileConnectedStep, TlsOutWhileDisconnectingStep,
              TlsOutWhileConnectingStep
<1>3. CASE ~("out" \in Top.mask /\ sock.state # "Unconnected")
  <2>1. Goes([Top EXCEPT !.at = "in"]) /\ UNCHANGED <<sock, kernel, told, tls>>
    BY <1>3 DEF TlsOnEventOut
  <2> DEFINE f == [Top EXCEPT !.at = "in"]
  <2>2. Goes(f)  BY <2>1
  <2>3. f \in Frames /\ f.at = "in" /\ f.same /\ f.mask = Top.mask
    BY <1>1, TlsOutFacts DEF Frames
  <2> HIDE DEF f
  <2>4. InContext(f, sock, kernel, tls)
    BY <1>1, <1>3, <2>3, TlsOutFacts DEF InContext, Early
  <2>5. Expected(f)  BY <2>3 DEF Expected
  <2>6. CaredFor(f, sock, kernel, tls, connections)
    BY <1>1, <1>3, <2>3, TlsOutFacts
       DEF CaredFor, Timed, Closes, SendComing, ReadComing, Early, Is
  <2>7. Members(sock, kernel, tls, arrived, written, connections)  BY DEF TlsInvariant
  <2> QED  BY <1>1, <2>1, <2>2, <2>3, <2>4, <2>5, <2>6, <2>7, TlsOutFacts, TlsFacts,
              CallContinues
<1> QED  BY <1>2, <1>3

\* The slots of sentData() run, or onEvent ends.
LEMMA TlsOnEventSentStep ==
    ASSUME TlsInvariant, OnEventSent, UNCHANGED tls
    PROVE  TlsInvariant'
<1>1. /\ stack # <<>> /\ Top.at = "sent" /\ Top.at # "error"
      /\ UNCHANGED <<sock, kernel, tls, told, connections, arrived, written>>
  BY DEF OnEventSent, Running
<1>2. /\ Top \in Frames /\ InContext(Top, sock, kernel, tls)
      /\ told = Known(FALSE, sock, tls)
      /\ CaredFor(Top, sock, kernel, tls, connections)
  BY <1>1, RunningCall
<1>3. CASE Top.same /\ Top.sent
  <2> DEFINE f == [Top EXCEPT !.at = "sentData"]
  <2>1. Goes(f)  BY <1>3 DEF OnEventSent
  <2>2. f \in Frames /\ f.at = "sentData" /\ f.same = Top.same /\ f.mask = Top.mask
    BY <1>2 DEF Frames, Slots
  <2> HIDE DEF f
  <2>3. InContext(f, sock, kernel, tls) /\ Expected(f)
    BY <1>1, <1>2, <2>2 DEF InContext, Expected, Early
  <2>4. CaredFor(f, sock, kernel, tls, connections)
    BY <1>1, <1>2, <2>2 DEF CaredFor, Timed, Closes, SendComing, ReadComing, Early
  <2>5. Members(sock, kernel, tls, arrived, written, connections)  BY DEF TlsInvariant
  <2> QED  BY <1>1, <1>2, <2>1, <2>2, <2>3, <2>4, <2>5, TlsFacts, CallContinues
<1>4. CASE ~(Top.same /\ Top.sent)
  <2>1. Finishes  BY <1>4 DEF OnEventSent
  <2> QED  BY <1>1, <2>1, TlsFinishes
<1> QED  BY <1>3, <1>4

-----------------------------------------------------------------------------
(* Reading. *)

\* What is read: no unit comes from nowhere, and what is left without a full buffer is
\* noted.
TakesIn(y, u, g) ==
    /\ y \in Socks /\ Settled(y, sock) /\ y.state = sock.state
    /\ y.disconnectTimer = sock.disconnectTimer
    /\ sock.posted \subseteq y.posted /\ (u.out > tls.out => "out" \in y.posted)
    /\ y.readBuf = sock.readBuf + g /\ y.writeBuf = sock.writeBuf
    /\ y.capacity = sock.capacity /\ y.scheduled = sock.scheduled
    /\ y.capacity = 0 \/ y.readBuf <= y.capacity
    /\ u \in TlsObjects /\ Ordered(u) /\ g \in Nat
    /\ u.ssl = tls.ssl /\ u.role = tls.role /\ u.completed = tls.completed
    /\ u.timer = tls.timer /\ u.closeSent = tls.closeSent /\ ~u.failed
    /\ Held(u) + g <= Held(tls)
    /\ u.out + u.awaited = tls.out + tls.awaited /\ u.awaited <= tls.awaited
    /\ u.inbound # <<>> \/ u.pending > 0 => u.behind \/ Full(y)
    /\ u.awaited > 0 => g = 0 /\ u.inbound = <<>>

\* The room for a read.
LEMMA RoomFound ==
    ASSUME TlsInvariant, ~Full(sock), NEW room \in Rooms(sock, tls)
    PROVE  /\ room \in Nat
           /\ sock.capacity = 0 \/ sock.readBuf + room <= sock.capacity
           /\ tls.inbound # <<>> => room >= 1
<1>1. /\ sock.readBuf \in Nat /\ sock.capacity \in Nat /\ MaxArriving \in Nat
      /\ sock.capacity = 0 \/ sock.readBuf <= sock.capacity
  BY TlsFacts DEF Fits
<1>2. sock.capacity = 0 \/ sock.readBuf < sock.capacity  BY <1>1 DEF Full
<1>3. Len(tls.inbound) \in Nat /\ (tls.inbound # <<>> => Len(tls.inbound) >= 1)
  <2>1. tls.inbound \in Seq(Fragments) /\ Len(tls.inbound) \in Nat  BY TlsFacts, TlsNumbers
  <2>2. tls.inbound # <<>> => Len(tls.inbound) # 0  BY <2>1, EmptySeq
  <2> QED  BY <2>1, <2>2
<1>4. Len(tls.inbound) <= MaxArriving
  <2>1. /\ sock.readBuf + Held(tls) <= arrived /\ Held(tls) \in Nat
        /\ arrived \in 0..MaxArriving
    BY TlsFacts DEF Units
  <2>2. /\ Held(tls) = tls.pending + tls.parts + Len(tls.inbound)
        /\ tls.pending \in Nat /\ tls.parts \in Nat
    BY TlsFacts, TlsNumbers DEF Held
  <2> QED  BY <1>1, <1>3, <2>1, <2>2
<1> DEFINE F == Free(sock)
           m == Least(Len(tls.inbound), F)
<1>5. /\ F \in Nat /\ (sock.capacity = 0 \/ sock.readBuf + F <= sock.capacity)
      /\ tls.inbound # <<>> => F >= 1
  BY <1>1, <1>2, <1>3, <1>4 DEF Free
<1>6. room \in m..F  BY DEF Rooms
<1> HIDE DEF F
<1>7. m \in Nat /\ (tls.inbound # <<>> => m >= 1)  BY <1>3, <1>5 DEF Least
<1> HIDE DEF m
<1> QED  BY <1>1, <1>5, <1>6, <1>7

\* readDataFromChannel, unless OpenSSL refuses what it is shown, or the buffer is full.
LEMMA DataIsRead ==
    ASSUME TlsInvariant, ~Full(sock), NEW room \in Rooms(sock, tls)
    PROVE  /\ SslRead(tls, room).failed =>
                /\ ReadDataFromChannel(room) =
                      [x |-> sock, t |-> SslRead(tls, room), got |-> 0]
           /\ ~SslRead(tls, room).failed =>
                \E y, u, g :
                  /\ TakesIn(y, u, g)
                  /\ ReadDataFromChannel(room) =
                       IF u.completed /\ u.closeReceived /\ y.state = "Connected"
                       THEN [x |-> Disconnecting(y, u).x, t |-> Disconnecting(y, u).t,
                             got |-> g]
                       ELSE [x |-> y, t |-> u, got |-> g]
<1>1. SslRead(tls, room).failed =>
         ReadDataFromChannel(room) = [x |-> sock, t |-> SslRead(tls, room), got |-> 0]
  BY DEF ReadDataFromChannel
<1> SUFFICES ASSUME ~SslRead(tls, room).failed
             PROVE  \E y, u, g :
                      /\ TakesIn(y, u, g)
                      /\ ReadDataFromChannel(room) =
                           IF u.completed /\ u.closeReceived /\ y.state = "Connected"
                           THEN [x |-> Disconnecting(y, u).x, t |-> Disconnecting(y, u).t,
                                 got |-> g]
                           ELSE [x |-> y, t |-> u, got |-> g]
  BY <1>1
<1> DEFINE v == SslRead(tls, room)
           g == Least(room, v.pending)
           p == IF tls.wantsToRead \/ v.out > tls.out THEN sock.posted \cup {"out"}
                ELSE sock.posted
           y == [sock EXCEPT !.readBuf = sock.readBuf + g, !.posted = p]
           q == v.pending - g
           r == IF room = 0 THEN v.wantsToRead
                ELSE v.pending < room /\ ~v.closeReceived
           b == (v.pending > g \/ v.inbound # <<>>) /\ ~Full(y)
           u == [v EXCEPT !.pending = q, !.wantsToRead = r, !.behind = b]
<1>2. ReadDataFromChannel(room) =
        IF u.completed /\ u.closeReceived /\ y.state = "Connected"
        THEN [x |-> Disconnecting(y, u).x, t |-> Disconnecting(y, u).t, got |-> g]
        ELSE [x |-> y, t |-> u, got |-> g]
  BY DEF ReadDataFromChannel
<1>3. /\ room \in Nat /\ (sock.capacity = 0 \/ sock.readBuf + room <= sock.capacity)
      /\ tls.inbound # <<>> => room >= 1
  BY RoomFound
<1>4. Progresses(tls, v) /\ (v.inbound = <<>> \/ Enough(v, room))
  BY <1>3, TlsFacts, SslReads
<1>5. ~v.failed  OBVIOUS
<1> HIDE DEF v
<1>6. v \in TlsObjects /\ Ordered(v) /\ v.pending \in Nat /\ v.parts \in Nat
      /\ v.inbound \in Seq(Fragments) /\ Len(v.inbound) \in Nat /\ Held(v) \in Nat
      /\ v.awaited \in Nat /\ v.out \in Nat
  BY <1>4, TlsNumbers DEF Progresses
<1>7. g \in Nat /\ g <= room /\ g <= v.pending /\ (g = room \/ g = v.pending)
  BY <1>3, <1>6 DEF Least
<1>8. p \in SUBSET Both /\ sock.posted \subseteq p /\ (v.out > tls.out => "out" \in p)
  BY TlsFacts DEF Socks, Both
<1>9. q \in Nat /\ q = v.pending - g /\ (q > 0 => v.pending > g)  BY <1>6, <1>7
<1>10. r \in BOOLEAN
  <2>1. v.wantsToRead \in BOOLEAN /\ v.closeReceived \in BOOLEAN  BY <1>6 DEF TlsObjects
  <2> QED  BY <2>1
<1>11. PICK e \in BOOLEAN : e = b
  <2>1. b \in BOOLEAN  OBVIOUS
  <2> QED  BY <2>1, Zenon
<1>12. q > 0 \/ v.inbound # <<>> => e \/ Full(y)  BY <1>9, <1>11
<1>13. u = [v EXCEPT !.pending = q, !.wantsToRead = r, !.behind = e]  BY <1>11
<1> HIDE DEF g, p, q, r, b, u, y
<1>14. sock.readBuf + g \in 0..MaxArriving
  <2>1. /\ sock.readBuf + Held(tls) <= arrived /\ Held(tls) \in Nat
        /\ arrived \in 0..MaxArriving /\ sock.readBuf \in Nat /\ MaxArriving \in Nat
    BY TlsFacts DEF Units
  <2>2. Held(v) <= Held(tls)  BY <1>4 DEF Progresses
  <2>3. g <= Held(v)
    <3>1. Held(v) = v.pending + v.parts + Len(v.inbound)  BY DEF Held
    <3> QED  BY <1>6, <1>7, <3>1
  <2> QED  BY <1>6, <1>7, <2>1, <2>2, <2>3
<1>15. /\ y \in Socks /\ Settled(y, sock) /\ y.state = sock.state
       /\ y.disconnectTimer = sock.disconnectTimer /\ y.posted = p
       /\ y.readBuf = sock.readBuf + g /\ y.writeBuf = sock.writeBuf
       /\ y.capacity = sock.capacity /\ y.scheduled = sock.scheduled
  BY <1>8, <1>14, TlsFacts DEF y, Socks, Settled
<1>16. /\ u \in TlsObjects /\ u.pending = q /\ u.behind = e /\ u.inbound = v.inbound
       /\ u.out = v.out /\ u.awaited = v.awaited /\ u.parts = v.parts /\ ~u.failed
       /\ u.ssl = v.ssl /\ u.role = v.role /\ u.completed = v.completed
       /\ u.timer = v.timer /\ u.closeSent = v.closeSent
  BY <1>5, <1>6, <1>9, <1>10, <1>13 DEF TlsObjects
<1>17. y.capacity = 0 \/ y.readBuf <= y.capacity
  <2>1. sock.readBuf \in Nat /\ sock.capacity \in Nat  BY TlsFacts
  <2>2. sock.capacity = 0 \/ sock.readBuf + g <= sock.capacity  BY <1>3, <1>7, <2>1
  <2> QED  BY <1>15, <2>2
<1>18. Ordered(u)
  <2>1. q > 0 => v.pending > 0  BY <1>6, <1>7, <1>9
  <2> QED  BY <1>6, <1>16, <2>1 DEF Ordered
<1>19. Held(u) + g <= Held(tls)
  <2>1. Held(u) = q + v.parts + Len(v.inbound)  BY <1>16 DEF Held
  <2>2. Held(v) = v.pending + v.parts + Len(v.inbound)  BY DEF Held
  <2>3. (q + v.parts + Len(v.inbound)) + g = v.pending + v.parts + Len(v.inbound)
    <3> DEFINE i == v.pending
               m == v.parts
               n == Len(v.inbound)
    <3>1. i \in Nat /\ m \in Nat /\ n \in Nat /\ g \in Nat  BY <1>6, <1>7
    <3>2. q = i - g  BY <1>9
    <3> HIDE DEF i, m, n
    <3>3. (q + m + n) + g = i + m + n  BY <3>1, <3>2
    <3> QED  BY <3>3 DEF i, m, n
  <2>4. Held(u) + g = Held(v)  BY <2>1, <2>2, <2>3
  <2> QED  BY <1>4, <2>4 DEF Progresses
<1>20. /\ u.out + u.awaited = tls.out + tls.awaited /\ u.awaited <= tls.awaited
       /\ u.ssl = tls.ssl /\ u.role = tls.role /\ u.completed = tls.completed
       /\ u.timer = tls.timer /\ u.closeSent = tls.closeSent
  BY <1>4, <1>16 DEF Progresses
<1>21. ASSUME u.awaited > 0 PROVE g = 0 /\ u.inbound = <<>>
  <2>1. ~(v.pending > 0)  BY <1>6, <1>16, <1>21 DEF Ordered
  <2>2. v.pending = 0  BY <1>6, <2>1
  <2>3. g = 0  BY <1>7, <2>2
  <2>4. v.inbound = <<>>
    <3>1. CASE tls.inbound = <<>>
      <4>1. Len(v.inbound) <= Len(tls.inbound) /\ Len(tls.inbound) = 0
        BY <1>4, <3>1, EmptySeq DEF Progresses
      <4> QED  BY <1>6, <4>1, EmptySeq
    <3>2. CASE tls.inbound # <<>>
      <4>1. ~Enough(v, room)  BY <1>3, <1>5, <2>2, <3>2 DEF Enough
      <4> QED  BY <1>4, <4>1
    <3> QED  BY <3>1, <3>2
  <2> QED  BY <1>16, <2>3, <2>4
<1>22. TakesIn(y, u, g)
  BY <1>7, <1>8, <1>12, <1>15, <1>16, <1>17, <1>18, <1>19, <1>20, <1>21 DEF TakesIn
<1> QED  BY <1>2, <1>22

\* The members agree after it, also when the handshake completes by it.
Follows(z, v, y, u) ==
    /\ z \in Socks /\ Settled(z, y) /\ z.state = y.state
    /\ z.readBuf = y.readBuf /\ z.writeBuf = y.writeBuf
    /\ z.capacity = y.capacity /\ z.scheduled = y.scheduled
    /\ z.disconnectTimer = y.disconnectTimer /\ y.posted \subseteq z.posted
    /\ v \in TlsObjects /\ v.ssl = u.ssl /\ v.role = u.role /\ v.inbound = u.inbound
    /\ v.out = u.out /\ v.awaited = u.awaited /\ v.parts = u.parts
    /\ v.pending = u.pending /\ v.closeSent = u.closeSent /\ v.behind = u.behind
    /\ \/ v.completed = u.completed /\ v.timer = u.timer
       \/ v.completed /\ ~v.timer /\ u.awaited = 0

\* The channel is emptied.
LEMMA ChannelEmptied ==
    ASSUME TlsInvariant, NEW k, k = EmptiedUnlessFull
    PROVE  /\ k \in Channels /\ k.link = kernel.link /\ k.space = kernel.space
           /\ k.gone = kernel.gone /\ k.edge = kernel.edge /\ k.fetched = kernel.fetched
           /\ k.recvQ \in 0..kernel.recvQ /\ (~Full(sock) => k.recvQ = 0)
<1>1. kernel \in Channels /\ kernel.recvQ \in Nat  BY TlsFacts
<1>2. 0 \in 0..MaxArriving  BY TlsFacts
<1>3. CASE Full(sock)  BY <1>1, <1>3 DEF EmptiedUnlessFull
<1>4. CASE ~Full(sock)
  <2>1. k = [kernel EXCEPT !.recvQ = 0]  BY <1>4 DEF EmptiedUnlessFull
  <2> QED  BY <1>1, <1>2, <2>1 DEF Channels
<1> QED  BY <1>3, <1>4

LEMMA TakingInFits ==
    ASSUME TlsInvariant, Is(sock), ~Full(sock), NEW y, NEW u, NEW g, TakesIn(y, u, g),
           NEW z, NEW v, Follows(z, v, y, u), v.completed \/ z.readBuf = 0,
           NEW k, k = EmptiedUnlessFull
    PROVE  Members(z, k, v, arrived, written, connections)
<1>1. /\ k \in Channels /\ k.link = kernel.link /\ k.space = kernel.space
      /\ k.gone = kernel.gone /\ k.fetched = kernel.fetched /\ k.recvQ = 0
  BY ChannelEmptied
<1>2. Fits(z, k)
  <2>1. z.capacity = 0 \/ z.readBuf <= z.capacity  BY DEF TakesIn, Follows
  <2> QED  BY <1>1, <2>1, TlsFacts DEF Fits, Settled, TakesIn, Follows, Is
<1>3. Ordered(v)  BY DEF Ordered, TakesIn, Follows
<1>4. u \in TlsObjects /\ v \in TlsObjects /\ u.out \in Nat /\ u.awaited \in Nat
      /\ Held(u) \in Nat /\ Len(v.inbound) \in Nat /\ tls.out \in Nat /\ tls.awaited \in Nat
      /\ g \in Nat
  BY TlsFacts, TlsNumbers DEF TakesIn, Follows
<1>5. Units(z, k, v, arrived, written)
  <2>1. Held(v) = Held(u)  BY DEF Held, Follows
  <2>2. z.readBuf + Held(v) <= arrived
    <3>1. z.readBuf = sock.readBuf + g /\ Held(u) + g <= Held(tls)
      BY DEF TakesIn, Follows
    <3>2. sock.readBuf + Held(tls) <= arrived  BY TlsFacts DEF Units
    <3>3. sock.readBuf \in Nat /\ Held(tls) \in Nat /\ arrived \in Nat  BY TlsFacts
    <3>4. (sock.readBuf + g) + Held(u) <= arrived  BY <1>4, <3>1, <3>2, <3>3
    <3> QED  BY <2>1, <3>1, <3>4
  <2>3. Left(v) = Left(tls)
    <3>1. /\ v.out = u.out /\ v.awaited = u.awaited /\ v.closeSent = tls.closeSent
          /\ u.out + u.awaited = tls.out + tls.awaited
      BY DEF TakesIn, Follows
    <3> QED  BY <3>1 DEF Left
  <2>4. z.writeBuf = sock.writeBuf  BY DEF TakesIn, Follows
  <2> QED  BY <1>1, <1>4, <2>2, <2>3, <2>4, TlsFacts DEF Units
<1>6. Agrees(z, k, v)
  <2>1. tls.awaited = 0 => u.awaited = 0 /\ u.out = tls.out
    <3>1. u.awaited <= tls.awaited /\ u.out + u.awaited = tls.out + tls.awaited
      BY DEF TakesIn
    <3> QED  BY <1>4, <3>1
  <2>2. z.state = sock.state /\ z.state # "Unconnected" /\ z.state # "Connecting"
    BY DEF TakesIn, Follows, Is
  <2>3. v.completed => v.awaited = 0
    <3>1. tls.completed => tls.awaited = 0  BY TlsFacts DEF Agrees
    <3> QED  BY <2>1, <3>1 DEF TakesIn, Follows
  <2>4. z.state = "Disconnecting" => v.completed
    BY <2>2, TlsFacts DEF Agrees, TakesIn, Follows
  <2>5. v.timer => z.state = "Connected" /\ ~v.completed
    BY <2>2, TlsFacts DEF Agrees, TakesIn, Follows
  <2>6. /\ z.state = "Connected" => ~v.closeSent
        /\ v.ssl /\ k.link = "up"
        /\ "hup" \in k.fetched =>
             /\ k.gone \/ k.link = "failed"
             /\ z.state \in {"Connecting", "Connected"} => "in" \in k.fetched
    BY <1>1, <2>2, TlsFacts DEF Agrees, Fits, Is, TakesIn, Follows
  <2>7. z.state = "Disconnecting" /\ z.interest # Both =>
          z.writeBuf = 0 /\ v.out = 0 /\ v.closeSent /\ ~z.scheduled
    <3> SUFFICES ASSUME z.state = "Disconnecting", z.interest # Both
                 PROVE  z.writeBuf = 0 /\ v.out = 0 /\ v.closeSent /\ ~z.scheduled
      OBVIOUS
    <3>1. sock.state = "Disconnecting" /\ sock.interest # Both
      BY <2>2 DEF TakesIn, Follows, Settled
    <3>2. sock.writeBuf = 0 /\ tls.out = 0 /\ tls.closeSent /\ ~sock.scheduled
      BY <3>1, TlsFacts DEF Agrees
    <3>3. tls.awaited = 0  BY <3>1, TlsFacts DEF Agrees
    <3> QED  BY <2>1, <3>2, <3>3 DEF TakesIn, Follows
  <2> QED  BY <2>2, <2>3, <2>4, <2>5, <2>6, <2>7 DEF Agrees, Is
<1>7. Fresh(z, connections)
  <2>1. z.scheduled = sock.scheduled /\ z.state = sock.state /\ z.state # "Connecting"
        /\ z.state # "Unconnected"
    BY DEF TakesIn, Follows, Is
  <2> QED  BY <2>1, TlsFacts DEF Fresh
<1> QED  BY <1>2, <1>3, <1>5, <1>6, <1>7 DEF Members

\* And what has to be sent or read has an event, or is noted.
LEMMA TakingInCares ==
    ASSUME TlsInvariant, Is(sock), ~Full(sock), NEW y, NEW u, NEW g, TakesIn(y, u, g),
           stack # <<>>, Top.at \in {"in", "drain"},
           NEW k, k = EmptiedUnlessFull,
           NEW f, f.at \in {"sent", "draining"}, f.mask = Top.mask
    PROVE  CaredFor(f, y, k, u, connections)
<1>1. /\ k \in Channels /\ k.link = kernel.link /\ k.space = kernel.space
      /\ k.edge = kernel.edge /\ k.fetched = kernel.fetched
  BY ChannelEmptied
<1>2. CaredFor(Top, sock, kernel, tls, connections)  BY RunningCall
<1>3. Timed(f, y, u)
  BY <1>2 DEF CaredFor, Timed, Closes, TakesIn
<1>4. ASSUME connections = 1, y.scheduled \/ (u.completed /\ y.writeBuf > 0) \/ u.out > 0
      PROVE  SendComing(f, y, k)
  <2>1. CASE u.out > tls.out  BY <2>1 DEF SendComing, TakesIn
  <2>2. CASE ~(u.out > tls.out)
    <3>1. u.out > 0 => tls.out > 0
      <4>1. u.out \in Nat /\ tls.out \in Nat  BY TlsFacts, TlsNumbers DEF TakesIn
      <4> QED  BY <2>2, <4>1
    <3>2. SendComing(Top, sock, kernel)
      BY <1>2, <1>4, <3>1 DEF CaredFor, TakesIn
    <3> QED  BY <1>1, <3>2 DEF SendComing, TakesIn
  <2> QED  BY <2>1, <2>2
<1>5. ~Full(y) /\ (u.inbound # <<>> \/ u.pending > 0) => ReadComing(f, y, k, u)
  BY DEF ReadComing, TakesIn
<1> QED  BY <1>3, <1>4, <1>5 DEF CaredFor

-----------------------------------------------------------------------------
(* The second part of onEvent. *)

LEMMA TlsInFacts ==
    ASSUME TlsInvariant, Running("in")
    PROVE  /\ stack # <<>> /\ Top.at = "in" /\ Top.at # "error"
           /\ Top \in Frames /\ Caller = <<>> /\ Top.same
           /\ InContext(Top, sock, kernel, tls)
           /\ told = Known(FALSE, sock, tls)
           /\ CaredFor(Top, sock, kernel, tls, connections)
<1>1. stack # <<>> /\ Top.at = "in" /\ Top.at # "error"  BY DEF Running
<1>2. /\ Top \in Frames /\ Caller = <<>> /\ InContext(Top, sock, kernel, tls)
      /\ told = Known(FALSE, sock, tls)
      /\ CaredFor(Top, sock, kernel, tls, connections)
  BY <1>1, RunningCall
<1>3. Top.same  BY <1>1, <1>2 DEF InContext
<1> QED  BY <1>1, <1>2, <1>3

\* OpenSSL refuses what it is shown: nothing but its object has changed.
LEMMA RefusedFits ==
    ASSUME TlsInvariant, Is(sock), ~Full(sock), NEW room \in Nat,
           NEW v, v = SslRead(tls, room), NEW k, k = EmptiedUnlessFull
    PROVE  v \in TlsObjects /\ Members(sock, k, v, arrived, written, connections)
<1>1. Progresses(tls, v)  BY TlsFacts, SslReads
<1>2. /\ k \in Channels /\ k.link = kernel.link /\ k.space = kernel.space
      /\ k.gone = kernel.gone /\ k.fetched = kernel.fetched /\ k.recvQ = 0
  BY ChannelEmptied
<1>3. v \in TlsObjects /\ Ordered(v)  BY <1>1 DEF Progresses
<1>4. /\ v.out \in Nat /\ v.awaited \in Nat /\ Held(v) \in Nat /\ Len(v.inbound) \in Nat
      /\ tls.out \in Nat /\ tls.awaited \in Nat
  BY <1>3, TlsFacts, TlsNumbers
<1>5. tls.awaited = 0 => v.awaited = 0 /\ v.out = tls.out
  <2>1. v.awaited <= tls.awaited /\ v.out + v.awaited = tls.out + tls.awaited
    BY <1>1 DEF Progresses
  <2> QED  BY <1>4, <2>1
<1>6. Fits(sock, k)  BY <1>2, TlsFacts DEF Fits, Is
<1>7. Units(sock, k, v, arrived, written)
  <2>1. Left(v) = Left(tls)  BY <1>1 DEF Left, Progresses
  <2>2. sock.readBuf + Held(v) <= arrived
    <3>1. Held(v) <= Held(tls)  BY <1>1 DEF Progresses
    <3>2. sock.readBuf + Held(tls) <= arrived  BY TlsFacts DEF Units
    <3>3. sock.readBuf \in Nat /\ Held(tls) \in Nat /\ arrived \in Nat  BY TlsFacts
    <3> QED  BY <1>4, <3>1, <3>2, <3>3
  <2> QED  BY <1>2, <1>4, <2>1, <2>2, TlsFacts DEF Units
<1>8. Agrees(sock, k, v)
  <2>1. /\ v.ssl = tls.ssl /\ v.completed = tls.completed /\ v.timer = tls.timer
        /\ v.closeSent = tls.closeSent
    BY <1>1 DEF Progresses
  <2>2. k.link = "up"  BY <1>2, TlsFacts DEF Fits, Is
  <2>3. sock.state = "Disconnecting" => tls.awaited = 0  BY TlsFacts DEF Agrees
  <2>4. tls.completed => v.awaited = 0  BY <1>5, TlsFacts DEF Agrees
  <2>5. sock.state # "Unconnected" /\ sock.state # "Connecting"  BY DEF Is
  <2>6. sock.state = "Disconnecting" /\ sock.interest # Both =>
          sock.writeBuf = 0 /\ v.out = 0 /\ v.closeSent /\ ~sock.scheduled
    BY <1>5, <2>1, <2>3, TlsFacts DEF Agrees
  <2> QED  BY <1>2, <2>1, <2>2, <2>4, <2>5, <2>6, TlsFacts DEF Agrees, Is
<1> QED  BY <1>3, <1>6, <1>7, <1>8, TlsFacts DEF Members

\* The handshake fails, or the data cannot be decrypted.
LEMMA TlsRefusedStep ==
    ASSUME TlsInvariant, Is(sock), stack # <<>>, Top.at # "error", Fails(Caller, told),
           sock' \in Socks, kernel' = EmptiedUnlessFull, tls' \in TlsObjects,
           Members(sock', kernel', tls', arrived, written, connections),
           UNCHANGED <<connections, arrived, written>>
    PROVE  TlsInvariant'
<1>1. Fails(<<>>, told) /\ told = Known(FALSE, sock, tls)  BY RunningCall
<1>2. told # "none" /\ told \in Knowledge  BY <1>1, TlsFacts DEF Known, Is
<1>3. kernel' \in Channels
  <2> DEFINE k == EmptiedUnlessFull
  <2>1. k \in Channels
    <3> HIDE DEF k
    <3> QED  BY ChannelEmptied DEF k
  <2> QED  BY <2>1
<1> QED  BY <1>1, <1>2, <1>3, ErrorBegins

\* Once the handshake has completed: what the connection is left with.
LEMMA EncryptedDataRead ==
    ASSUME TlsInvariant, Is(sock), tls.completed, ~Full(sock), stack # <<>>,
           Top.at \in {"in", "drain"}, NEW room \in Rooms(sock, tls),
           ~SslRead(tls, room).failed,
           NEW r, r = ReadDataFromChannel(room), NEW k, k = EmptiedUnlessFull
    PROVE  /\ r.x \in Socks /\ r.t \in TlsObjects /\ Is(r.x) /\ r.t.completed
           /\ r.got \in Nat /\ r.x.readBuf = sock.readBuf + r.got
           /\ Settled(r.x, sock) /\ r.x.scheduled = sock.scheduled
           /\ Members(r.x, k, r.t, arrived, written, connections)
           /\ \A f : f.at \in {"sent", "draining"} /\ f.mask = Top.mask =>
                 CaredFor(f, r.x, k, r.t, connections)
<1>1. PICK y, u, g :
        /\ TakesIn(y, u, g)
        /\ ReadDataFromChannel(room) =
             IF u.completed /\ u.closeReceived /\ y.state = "Connected"
             THEN [x |-> Disconnecting(y, u).x, t |-> Disconnecting(y, u).t, got |-> g]
             ELSE [x |-> y, t |-> u, got |-> g]
  BY DataIsRead
<1>2. /\ y \in Socks /\ u \in TlsObjects /\ u.completed /\ g \in Nat
      /\ y.state = sock.state /\ y.readBuf = sock.readBuf + g
      /\ Settled(y, sock) /\ y.scheduled = sock.scheduled
  BY <1>1 DEF TakesIn
<1>3. Follows(y, u, y, u)  BY <1>2 DEF Follows, Settled
<1>4. Members(y, k, u, arrived, written, connections)
  BY <1>1, <1>2, <1>3, TakingInFits
<1>5. \A f : f.at \in {"sent", "draining"} /\ f.mask = Top.mask =>
         CaredFor(f, y, k, u, connections)
  BY <1>1, TakingInCares
<1>6. CASE ~(u.closeReceived /\ y.state = "Connected")
  <2>1. r = [x |-> y, t |-> u, got |-> g]  BY <1>1, <1>6
  <2>2. r.x = y /\ r.t = u /\ r.got = g  BY <2>1
  <2> QED  BY <1>2, <1>4, <1>5, <2>2 DEF Is
<1>7. CASE u.closeReceived /\ y.state = "Connected"
  <2> DEFINE z == Disconnecting(y, u).x
             v == Disconnecting(y, u).t
  <2>1. r = [x |-> z, t |-> v, got |-> g]  BY <1>1, <1>2, <1>7
  <2>2. Disconnects(z, v, y, u)  BY <1>2, DisconnectingFields
  <2> HIDE DEF z, v
  <2>3. r.x = z /\ r.t = v /\ r.got = g  BY <2>1
  <2>4. /\ Members(z, k, v, arrived, written, connections)
        /\ \A f : CaredFor(f, y, k, u, connections) => CaredFor(f, z, k, v, connections)
    BY <1>2, <1>4, <1>7, <2>2, DisconnectingFits
  <2>5. /\ z \in Socks /\ v \in TlsObjects /\ Is(z) /\ v.completed
        /\ z.readBuf = y.readBuf /\ Settled(z, sock) /\ z.scheduled = y.scheduled
    BY <1>2, <2>2 DEF Disconnects, Is, Settled
  <2> QED  BY <1>2, <1>5, <2>3, <2>4, <2>5
<1> QED  BY <1>6, <1>7

LEMMA SentFrame ==
    ASSUME TlsInvariant, stack # <<>>, Top.at # "error"
    PROVE  /\ [Top EXCEPT !.at = "sent"].at = "sent"
           /\ [Top EXCEPT !.at = "sent"].mask = Top.mask
<1>1. Top \in Frames  BY RunningCall
<1> QED  BY <1>1 DEF Frames

\* Encrypted data is read.
LEMMA TlsReadsStep ==
    ASSUME TlsInvariant, Running("in"), sock.state = "Connected", tls.completed,
           ~Full(sock), NEW room \in Rooms(sock, tls), ~SslRead(tls, room).failed,
           NEW r, r = ReadDataFromChannel(room), ReadsOrShakesHands(r),
           UNCHANGED <<connections, arrived, written>>
    PROVE  TlsInvariant'
<1> DEFINE k == EmptiedUnlessFull
<1>1. Is(sock)  BY DEF Is
<1>2. /\ stack # <<>> /\ Top.at = "in" /\ Top.same /\ InContext(Top, sock, kernel, tls)
      /\ told = Known(FALSE, sock, tls) /\ Top.at # "error"
  BY TlsInFacts
<1>3. GoesOn(r.x, r.got > 0) /\ tls' = r.t /\ kernel' = k /\ told' = told
  BY DEF ReadsOrShakesHands
<1>4. /\ k \in Channels /\ k.link = kernel.link /\ k.gone = kernel.gone
  <2> HIDE DEF k
  <2> QED  BY ChannelEmptied DEF k
<1>5. /\ r.x \in Socks /\ r.t \in TlsObjects /\ Is(r.x) /\ r.t.completed
      /\ Members(r.x, k, r.t, arrived, written, connections)
      /\ \A f : f.at \in {"sent", "draining"} /\ f.mask = Top.mask =>
            CaredFor(f, r.x, k, r.t, connections)
  BY <1>1, <1>2, EncryptedDataRead
<1> HIDE DEF k
<1>6. PICK b \in BOOLEAN : b = (r.got > 0)
  <2>1. (r.got > 0) \in BOOLEAN  OBVIOUS
  <2> QED  BY <2>1, Zenon
<1>7. GoesOn(r.x, b)  BY <1>3, <1>6
<1>8. told = "encrypted" /\ told = Known(FALSE, r.x, tls')
  BY <1>1, <1>2, <1>3, <1>5 DEF Known, Is
<1>9. CaredFor([Top EXCEPT !.at = "sent"], r.x, kernel', tls', connections)
  BY <1>2, <1>3, <1>5, SentFrame
<1>10. "hup" \in Top.mask => kernel'.gone \/ kernel'.link = "failed"
  BY <1>2, <1>3, <1>4 DEF InContext
<1>11. r.x.state # "Connecting"  BY <1>5 DEF Is
<1> QED  BY <1>2, <1>3, <1>4, <1>5, <1>7, <1>8, <1>9, <1>10, <1>11, TlsGoesOn

\* The handshake goes on.
LEMMA TlsShakesHandsStep ==
    ASSUME TlsInvariant, Running("in"), sock.state = "Connected", ~tls.completed,
           ~Full(sock), NEW y, NEW u, NEW g, TakesIn(y, u, g),
           NEW r, r = [x |-> y, t |-> u, got |-> g], ReadsOrShakesHands(r),
           UNCHANGED <<connections, arrived, written>>
    PROVE  TlsInvariant'
<1> DEFINE k == EmptiedUnlessFull
<1>1. Is(sock) /\ sock.readBuf = 0  BY TlsFacts DEF Is, Agrees
<1>2. /\ stack # <<>> /\ Top.at = "in" /\ Top.same /\ InContext(Top, sock, kernel, tls)
      /\ told = Known(FALSE, sock, tls) /\ Top.at # "error" /\ Top \in Frames
      /\ CaredFor(Top, sock, kernel, tls, connections)
  BY TlsInFacts
<1>3. r.x = y /\ r.t = u /\ r.got = g  OBVIOUS
<1>4. PICK n \in Sendable(u.out) :
        LET c == TlsSent(r, n)
        IN /\ kernel' \in Takes(k, u.out, n)
           /\ IF u.awaited > 0
              THEN GoesOn(c.x, FALSE) /\ tls' = c.t /\ UNCHANGED told
              ELSE /\ sock' = HandshakeDone(c).x /\ tls' = HandshakeDone(c).t
                   /\ told' = "encrypted"
                   /\ Goes([Top EXCEPT !.at = "encrypted", !.same = TRUE, !.was = told,
                                       !.mask = IF g > 0 THEN @ \cup {"read"} ELSE @])
  BY <1>3 DEF ReadsOrShakesHands
<1> DEFINE c == TlsSent(r, n)
<1>5. /\ y \in Socks /\ u \in TlsObjects /\ ~u.completed /\ u.timer = tls.timer
      /\ y.state = "Connected" /\ y.readBuf = g /\ g \in Nat
      /\ u.awaited > 0 => g = 0 /\ u.inbound = <<>>
      /\ u.inbound # <<>> \/ u.pending > 0 => u.behind \/ Full(y)
  BY <1>1 DEF TakesIn
<1>6. n \in 0..u.out /\ SendsRecords(c.x, c.t, y, u, n)
  <2>1. r.x \in Socks /\ r.t \in TlsObjects /\ n \in Sendable(r.t.out)  BY <1>3, <1>5
  <2> QED  BY <1>3, <2>1, SentFields
<1>7. /\ k \in Channels /\ k.link = kernel.link /\ k.gone = kernel.gone
  <2> HIDE DEF k
  <2> QED  BY ChannelEmptied DEF k
<1>8. u.out \in Nat /\ n \in Nat /\ n <= u.out /\ u.awaited \in Nat /\ u.pending \in Nat
  BY <1>5, <1>6, TlsNumbers
<1>9. HasTaken(kernel', k, u.out - n)
  <2> HIDE DEF k
  <2> QED  BY <1>4, <1>6, <1>7, <1>8, ChannelTakes
<1>10. kernel' \in Channels /\ kernel'.gone = kernel.gone /\ kernel'.link = kernel.link
  BY <1>7, <1>9 DEF HasTaken
<1>11. Is(y) /\ written \in Nat /\ sock.state # "Connecting" /\ told = "connected"
  BY <1>1, <1>2, <1>5, TlsFacts DEF Is, Known
<1>12. "hup" \in Top.mask => kernel'.gone \/ kernel'.link = "failed"
  BY <1>2, <1>10 DEF InContext
<1>13. CASE u.awaited > 0
  <2>1. GoesOn(c.x, FALSE) /\ tls' = c.t /\ told' = told  BY <1>4, <1>13
  <2>2. Follows(y, u, y, u)  BY <1>5 DEF Follows, Settled
  <2>3. Members(y, k, u, arrived, written, connections)
    BY <1>1, <1>5, <1>13, <2>2, TakingInFits
  <2> HIDE DEF c, k
  <2>4. HasTaken(kernel', k, c.t.out)  BY <1>6, <1>9 DEF SendsRecords
  <2>5. Members(c.x, kernel', c.t, arrived, written, connections)
    BY <1>5, <1>6, <1>8, <1>11, <2>3, <2>4, SendingFits
  <2>6. /\ c.x \in Socks /\ c.t \in TlsObjects /\ c.x.state = "Connected"
        /\ ~c.t.completed /\ c.t.timer = tls.timer /\ c.t.inbound = <<>>
        /\ c.t.pending = u.pending /\ ~c.x.scheduled /\ c.t.out \in Nat
    <3>1. c.t \in TlsObjects  BY <1>6 DEF SendsRecords
    <3> QED  BY <1>5, <1>6, <1>13, <3>1, TlsNumbers DEF SendsRecords
  <2>7. u.pending = 0
    <3>1. Ordered(u)  BY DEF TakesIn
    <3> QED  BY <1>8, <1>13, <3>1 DEF Ordered
  <2>8. told = Known(FALSE, c.x, tls')  BY <1>11, <2>1, <2>6 DEF Known
  <2> DEFINE f == [Top EXCEPT !.at = "sent"]
  <2>9. f.at = "sent" /\ f.mask = Top.mask  BY <1>2, SentFrame
  <2> HIDE DEF f
  <2>10. CaredFor(f, c.x, kernel', c.t, connections)
    <3>1. tls.timer  BY <1>2 DEF CaredFor, Timed
    <3>2. c.t.out > 0 => kernel'.space = "awaited"  BY <2>4 DEF HasTaken
    <3> QED  BY <2>6, <2>7, <3>1, <3>2 DEF CaredFor, Timed, SendComing
  <2>11. CaredFor([Top EXCEPT !.at = "sent"], c.x, kernel', tls', connections)
    BY <2>1, <2>10 DEF f
  <2> QED  BY <1>2, <1>10, <1>12, <2>1, <2>5, <2>6, <2>8, <2>11, TlsGoesOn
<1>14. CASE ~(u.awaited > 0)
  <2> DEFINE z == [y EXCEPT !.posted = y.posted \cup {"out"}]
             v == [u EXCEPT !.completed = TRUE, !.timer = FALSE, !.wantsToRead = FALSE]
             p == Top.mask \cup {"read"}
  <2>1. /\ sock' = [c.x EXCEPT !.posted = c.x.posted \cup {"out"}]
        /\ tls' = [c.t EXCEPT !.completed = TRUE, !.timer = FALSE, !.wantsToRead = FALSE]
        /\ told' = "encrypted"
    BY <1>4, <1>14 DEF HandshakeDone, TlsSent
  <2>2. PICK m \in {Top.mask, p} :
          Goes([Top EXCEPT !.at = "encrypted", !.same = TRUE, !.was = told, !.mask = m])
    <3>1. CASE g > 0  BY <1>4, <1>14, <3>1
    <3>2. CASE ~(g > 0)  BY <1>4, <1>14, <3>2
    <3> QED  BY <3>1, <3>2
  <2> DEFINE f == [Top EXCEPT !.at = "encrypted", !.same = TRUE, !.was = told, !.mask = m]
  <2>3. y.posted \cup {"out"} \in SUBSET Both  BY <1>5 DEF Socks, Both
  <2>4. Follows(z, v, y, u)
    <3>1. u.awaited = 0  BY <1>8, <1>14
    <3> QED  BY <1>5, <2>3, <3>1 DEF Follows, Settled, Socks, TlsObjects
  <2>5. v.completed /\ v.out = u.out /\ "out" \in z.posted
    BY <1>5 DEF TlsObjects, Socks
  <2>6. z \in Socks /\ v \in TlsObjects  BY <2>4 DEF Follows
  <2>7. SendsRecords(sock', tls', z, v, n)
    <3>1. c.x \in Socks /\ c.t \in TlsObjects /\ c.x.posted = y.posted
      BY <1>6 DEF SendsRecords
    <3> HIDE DEF c
    <3>2. /\ sock' \in Socks /\ Settled(sock', y) /\ sock'.state = y.state
          /\ sock'.disconnectTimer = y.disconnectTimer
          /\ sock'.posted = y.posted \cup {"out"}
          /\ sock'.readBuf = y.readBuf /\ sock'.writeBuf = y.writeBuf
          /\ sock'.capacity = y.capacity /\ ~sock'.scheduled
      BY <1>6, <2>1, <2>3, <3>1 DEF SendsRecords, Socks, Settled
    <3>3. /\ tls' \in TlsObjects /\ tls'.out = u.out - n /\ tls'.completed /\ ~tls'.timer
          /\ tls'.ssl = u.ssl /\ tls'.role = u.role
          /\ tls'.inbound = u.inbound /\ tls'.awaited = u.awaited
          /\ tls'.parts = u.parts /\ tls'.pending = u.pending
          /\ tls'.closeSent = u.closeSent /\ tls'.behind = u.behind
          /\ tls'.failed = u.failed /\ tls'.closeReceived = u.closeReceived
      BY <1>6, <2>1, <3>1 DEF SendsRecords, TlsObjects
    <3>4. /\ Settled(z, y) /\ z.state = y.state /\ z.disconnectTimer = y.disconnectTimer
          /\ z.posted = y.posted \cup {"out"} /\ z.readBuf = y.readBuf
          /\ z.writeBuf = y.writeBuf /\ z.capacity = y.capacity
      BY <1>5 DEF Socks, Settled
    <3>5. /\ v.out = u.out /\ v.completed /\ ~v.timer
          /\ v.ssl = u.ssl /\ v.role = u.role
          /\ v.inbound = u.inbound /\ v.awaited = u.awaited
          /\ v.parts = u.parts /\ v.pending = u.pending
          /\ v.closeSent = u.closeSent /\ v.behind = u.behind
          /\ v.failed = u.failed /\ v.closeReceived = u.closeReceived
      BY <1>5 DEF TlsObjects
    <3>6. v.timer = FALSE /\ tls'.timer = FALSE /\ v.completed = TRUE /\ tls'.completed = TRUE
      BY <1>5, <1>6, <2>1, <3>1 DEF TlsObjects
    <3> HIDE DEF z, v
    <3> QED  BY <3>2, <3>3, <3>4, <3>5, <3>6 DEF SendsRecords, Settled
  <2> HIDE DEF z, v, c, k
  <2>8. Members(z, k, v, arrived, written, connections)
    BY <1>1, <2>4, <2>5, TakingInFits DEF k
  <2>9. HasTaken(kernel', k, tls'.out)
    BY <1>9, <2>5, <2>7 DEF SendsRecords
  <2>10. Is(z) /\ n <= v.out  BY <1>5, <1>8, <2>4, <2>5 DEF Is, Follows
  <2>11. Members(sock', kernel', tls', arrived, written, connections)
    BY <1>8, <1>11, <2>6, <2>7, <2>8, <2>9, <2>10, SendingFits
  <2>12. /\ sock' \in Socks /\ tls' \in TlsObjects /\ sock'.state = "Connected"
         /\ tls'.completed /\ "out" \in sock'.posted
         /\ sock'.readBuf = y.readBuf /\ sock'.capacity = y.capacity
         /\ tls'.inbound = u.inbound /\ tls'.pending = u.pending /\ tls'.behind = u.behind
    BY <1>5, <2>4, <2>5, <2>7 DEF SendsRecords, Follows
  <2>13. f \in Frames /\ f.at = "encrypted" /\ f.same /\ f.was = told /\ f.mask = m
    <3>1. Top.mask \in FrameMasks  BY <1>2 DEF Frames
    <3>2. m \in FrameMasks  BY <3>1 DEF FrameMasks
    <3> QED  BY <1>2, <3>2, TlsFacts DEF Frames, Slots
  <2>14. Goes(f)  BY <2>2
  <2> HIDE DEF f
  <2>15. InContext(f, sock', kernel', tls')
    <3>1. "hup" \in m => "hup" \in Top.mask  OBVIOUS
    <3> QED  BY <1>12, <2>12, <2>13, <3>1 DEF InContext
  <2>16. Expected(f)  BY <1>11, <2>13 DEF Expected
  <2>17. told' = Known(FALSE, sock', tls')  BY <2>1, <2>12 DEF Known
  <2>18. CaredFor(f, sock', kernel', tls', connections)
    BY <1>5, <2>12 DEF CaredFor, Timed, SendComing, ReadComing, Full
  <2> QED  BY <1>2, <1>10, <2>11, <2>12, <2>13, <2>14, <2>15, <2>16, <2>17, <2>18,
              CallContinues
<1> QED  BY <1>13, <1>14

\* Reading, or shaking hands, or finding no room for either.
LEMMA TlsOnEventInStep ==
    ASSUME TlsInvariant, TlsOnEventIn
    PROVE  TlsInvariant'
<1> DEFINE k == EmptiedUnlessFull
<1>1. Running("in") /\ UNCHANGED <<connections, arrived, written>>  BY DEF TlsOnEventIn
<1>2. /\ stack # <<>> /\ Top.at = "in" /\ Top.same /\ InContext(Top, sock, kernel, tls)
      /\ told = Known(FALSE, sock, tls) /\ Top.at # "error"
      /\ CaredFor(Top, sock, kernel, tls, connections)
  BY <1>1, TlsInFacts
<1>3. Members(sock, kernel, tls, arrived, written, connections)  BY DEF TlsInvariant
<1>4. sock.state # "Connecting"  BY <1>2 DEF InContext
<1>5. CASE ~("in" \in Top.mask /\ sock.state = "Connected")
  <2>1. GoesOn(sock, FALSE) /\ UNCHANGED <<kernel, told, tls>>
    BY <1>5 DEF TlsOnEventIn
  <2>2. "hup" \in Top.mask =>
          /\ kernel.gone \/ kernel.link = "failed"
          /\ sock.state = "Connected" /\ ~tls.completed => tls.inbound = <<>>
    BY <1>2, <1>5 DEF InContext, Early
  <2> DEFINE f == [Top EXCEPT !.at = "sent"]
  <2>3. f.at = "sent" /\ f.mask = Top.mask  BY <1>2, SentFrame
  <2> HIDE DEF f
  <2>4. CaredFor(f, sock, kernel, tls, connections)
    BY <1>2, <1>5, <2>3 DEF CaredFor, Timed, Closes, SendComing, ReadComing, Early
  <2>5. CaredFor([Top EXCEPT !.at = "sent"], sock, kernel', tls', connections)
    BY <2>1, <2>4 DEF f
  <2> QED  BY <1>1, <1>2, <1>3, <1>4, <2>1, <2>2, <2>5, TlsFacts, TlsGoesOn
<1>6. CASE "in" \in Top.mask /\ sock.state = "Connected"
  <2>1. PICK room \in Rooms(sock, tls) :
          LET r == ReadDataFromChannel(room)
          IN IF r.t.failed \/ (~tls.completed /\ Refused(r.t))
             THEN sock' = r.x /\ tls' = r.t /\ kernel' = EmptiedUnlessFull
                  /\ Fails(Caller, told)
             ELSE ReadsOrShakesHands(r)
    BY <1>6 DEF TlsOnEventIn
  <2> DEFINE r == ReadDataFromChannel(room)
  <2>2. Is(sock)  BY <1>6 DEF Is
  <2>3. CASE Full(sock)
    <3>1. r = [x |-> sock, t |-> tls, got |-> 0] /\ k = kernel
      BY <2>3 DEF ReadDataFromChannel, EmptiedUnlessFull
    <3>2. r.x = sock /\ r.t = tls /\ r.got = 0  BY <3>1
    <3>3. tls.completed
      <4>1. sock.readBuf # 0  BY <2>3, TlsFacts DEF Full
      <4> QED  BY <1>6, <4>1, TlsFacts DEF Agrees
    <3> HIDE DEF r
    <3>4. CASE tls.failed
      <4>1. sock' = sock /\ tls' = tls /\ kernel' = EmptiedUnlessFull /\ Fails(Caller, told)
        BY <2>1, <3>2, <3>4 DEF r
      <4> QED  BY <1>1, <1>2, <1>3, <2>2, <3>1, <4>1, TlsFacts, TlsRefusedStep
    <3>5. CASE ~tls.failed
      <4>1. ReadsOrShakesHands(r)  BY <2>1, <3>2, <3>3, <3>5 DEF r
      <4>2. GoesOn(sock, FALSE) /\ UNCHANGED <<kernel, told, tls>>
        <5>1. GoesOn(r.x, r.got > 0) /\ tls' = r.t /\ kernel' = k /\ told' = told
          BY <3>3, <4>1 DEF ReadsOrShakesHands
        <5>2. PICK b \in BOOLEAN : b = (r.got > 0)
          <6>1. (r.got > 0) \in BOOLEAN  OBVIOUS
          <6> QED  BY <6>1, Zenon
        <5>3. GoesOn(r.x, b)  BY <5>1, <5>2
        <5>4. b = FALSE
          <6>1. ~(r.got > 0)  BY <3>2
          <6> QED  BY <5>2, <6>1, Zenon
        <5> QED  BY <3>1, <3>2, <5>1, <5>3, <5>4
      <4>3. "hup" \in Top.mask => kernel.gone \/ kernel.link = "failed"
        BY <1>2 DEF InContext
      <4> DEFINE f == [Top EXCEPT !.at = "sent"]
      <4>4. f.at = "sent" /\ f.mask = Top.mask  BY <1>2, SentFrame
      <4> HIDE DEF f
      <4>5. CaredFor(f, sock, kernel, tls, connections)
        BY <1>2, <2>3, <3>3, <4>4 DEF CaredFor, Timed, Closes, SendComing
      <4>6. CaredFor([Top EXCEPT !.at = "sent"], sock, kernel', tls', connections)
        BY <4>2, <4>5 DEF f
      <4> QED  BY <1>1, <1>2, <1>3, <1>4, <3>3, <4>2, <4>3, <4>6, TlsFacts, TlsGoesOn
    <3> QED  BY <3>4, <3>5
  <2>4. CASE ~Full(sock) /\ SslRead(tls, room).failed
    <3> DEFINE v == SslRead(tls, room)
    <3>1. r = [x |-> sock, t |-> v, got |-> 0]  BY <2>4, DataIsRead
    <3>2. v \in TlsObjects /\ Members(sock, k, v, arrived, written, connections)
      <4> HIDE DEF v, k
      <4> QED  BY <2>2, <2>4, RoomFound, RefusedFits DEF v, k
    <3> HIDE DEF r, v
    <3>3. r.x = sock /\ r.t = v /\ v.failed  BY <2>4, <3>1 DEF v
    <3>4. sock' = sock /\ tls' = v /\ kernel' = k /\ Fails(Caller, told)
      BY <2>1, <3>3 DEF r
    <3> QED  BY <1>1, <1>2, <2>2, <3>2, <3>4, TlsFacts, TlsRefusedStep
  <2>5. CASE ~Full(sock) /\ ~SslRead(tls, room).failed /\ tls.completed
    <3>1. /\ r.x \in Socks /\ r.t \in TlsObjects
          /\ Members(r.x, k, r.t, arrived, written, connections)
      BY <1>2, <2>2, <2>5, EncryptedDataRead
    <3>2. CASE r.t.failed
      <4>1. sock' = r.x /\ tls' = r.t /\ kernel' = k /\ Fails(Caller, told)
        BY <2>1, <3>2
      <4> HIDE DEF r
      <4> QED  BY <1>1, <1>2, <2>2, <3>1, <4>1, TlsRefusedStep
    <3>3. CASE ~r.t.failed
      <4>1. ReadsOrShakesHands(r)  BY <2>1, <2>5, <3>3
      <4> QED  BY <1>1, <1>6, <2>5, <4>1, TlsReadsStep
    <3> QED  BY <3>2, <3>3
  <2>6. CASE ~Full(sock) /\ ~SslRead(tls, room).failed /\ ~tls.completed
    <3>1. PICK y, u, g :
            /\ TakesIn(y, u, g)
            /\ r = IF u.completed /\ u.closeReceived /\ y.state = "Connected"
                   THEN [x |-> Disconnecting(y, u).x, t |-> Disconnecting(y, u).t, got |-> g]
                   ELSE [x |-> y, t |-> u, got |-> g]
      BY <2>6, DataIsRead
    <3>2. /\ ~u.completed /\ y \in Socks /\ u \in TlsObjects /\ ~u.failed /\ g \in Nat
          /\ y.readBuf = sock.readBuf + g
      BY <2>6, <3>1 DEF TakesIn
    <3>3. r = [x |-> y, t |-> u, got |-> g]  BY <3>1, <3>2
    <3> HIDE DEF r
    <3>4. r.x = y /\ r.t = u  BY <3>3
    <3>5. CASE Refused(u)
      <4>1. sock' = y /\ tls' = u /\ kernel' = k /\ Fails(Caller, told)
        BY <2>1, <2>6, <3>4, <3>5 DEF r
      <4>2. y.readBuf = 0
        <5>1. u.awaited > 0  BY <3>2, <3>5 DEF Refused
        <5>2. g = 0  BY <3>1, <5>1 DEF TakesIn
        <5>3. sock.readBuf = 0  BY <1>6, <2>6, TlsFacts DEF Agrees
        <5> QED  BY <3>2, <5>2, <5>3
      <4>3. Follows(y, u, y, u)  BY <3>2 DEF Follows, Settled
      <4> HIDE DEF k
      <4>4. Members(y, k, u, arrived, written, connections)
        BY <2>2, <2>6, <3>1, <4>2, <4>3, TakingInFits DEF k
      <4> QED  BY <1>1, <1>2, <2>2, <3>2, <4>1, <4>4, TlsRefusedStep DEF k
    <3>6. CASE ~Refused(u)
      <4>1. ReadsOrShakesHands(r)  BY <2>1, <3>2, <3>4, <3>6 DEF r
      <4> QED  BY <1>1, <1>6, <2>6, <3>1, <3>3, <4>1, TlsShakesHandsStep
    <3> QED  BY <3>5, <3>6
  <2> QED  BY <2>3, <2>4, <2>5, <2>6
<1> QED  BY <1>5, <1>6

(* The last part of onEvent, and the disconnect timeout. *)

\* The connection ends: what was received and not read yet stays readable, and the user
\* is told if it knew of the connection.
LEMMA ConnectionCloses ==
    ASSUME TlsInvariant, NEW x \in Socks, ~x.lookingUp, ~x.connectTimer,
           x.capacity = 0 \/ x.readBuf <= x.capacity,
           x.readBuf <= arrived, x.scheduled = sock.scheduled,
           sock' = Closed(x), kernel' = NoChannel, tls' = AbortedTls,
           told' = "none", told \in Knowledge,
           \/ stack' = <<Frame("disconnected", {}, told)>> /\ told # "none"
           \/ stack' = <<>>,
           UNCHANGED <<connections, arrived, written>>
    PROVE  TlsInvariant'
<1>1. /\ sock' \in Socks /\ sock'.state = "Unconnected"
      /\ sock'.readBuf <= x.readBuf /\ sock'.writeBuf = 0
      /\ Fits(sock', NoChannel)
  BY ClosedFits
<1>2. sock'.scheduled = sock.scheduled
  <2>1. CASE x.readBuf > 0
    <3>1. sock' = [x EXCEPT !.state = "Unconnected", !.open = FALSE, !.enabled = FALSE,
                            !.writeBuf = 0]
      BY <2>1 DEF Closed
    <3> QED  BY <3>1 DEF Socks
  <2>2. CASE ~(x.readBuf > 0)
    <3>1. sock' = [NewSocket(x.capacity) EXCEPT !.scheduled = x.scheduled]
      BY <2>2 DEF Closed, Aborted
    <3> QED  BY <3>1 DEF NewSocket
  <2> QED  BY <2>1, <2>2
<1>3. NoChannel \in Channels /\ NoChannel.fetched = {} /\ NoChannel.link = "none"
      /\ NoChannel.recvQ = 0
  BY NothingLeft DEF NoChannel
<1>4. PICK role \in Roles : tls' = NewTls(role)
  BY TlsFacts DEF AbortedTls, TlsObjects
<1> DEFINE t == NewTls(role)
<1>5. t \in TlsObjects  BY NewTlsTyped
<1>6. /\ t.inbound = <<>> /\ t.pending = 0 /\ t.parts = 0 /\ t.out = 0 /\ t.awaited = 0
      /\ ~t.closeSent /\ ~t.completed /\ ~t.timer /\ t.role = role
  BY DEF NewTls
<1>7. t = NewTls(t.role)  BY <1>6
<1> HIDE DEF t
<1>8. Len(t.inbound) = 0  BY <1>6
<1>9. Held(t) = 0 /\ Left(t) = 1  BY <1>6, <1>8 DEF Held, Left
<1>10. Ordered(t)  BY <1>6, <1>8 DEF Ordered
<1>11. Units(sock', NoChannel, t, arrived, written)
  <2>1. x.readBuf \in Nat /\ sock'.readBuf \in Nat
    BY <1>1, BoundsAssumption DEF Socks
  <2>2. sock'.readBuf + Held(t) <= arrived  BY <1>1, <1>9, <2>1, TlsFacts
  <2> QED  BY <1>1, <1>3, <1>8, <1>9, <2>2, TlsFacts DEF Units
<1>12. Agrees(sock', NoChannel, t)
  BY <1>1, <1>3, <1>6, <1>7 DEF Agrees, Is
<1>13. Fresh(sock', connections)  BY <1>1, <1>2, TlsFacts DEF Fresh
<1>14. tls' \in TlsObjects
       /\ Members(sock', kernel', tls', arrived, written, connections)
  BY <1>1, <1>4, <1>5, <1>10, <1>11, <1>12, <1>13 DEF Members, t
<1>15. told' = Known(FALSE, sock', tls')  BY <1>1 DEF Known
<1>16. \A f : CaredFor(f, sock', kernel', tls', connections)  BY <1>1, NothingOwed
<1>17. CASE stack' = <<Frame("disconnected", {}, told)>> /\ told # "none"
  <2> DEFINE f == Frame("disconnected", {}, told)
  <2>1. /\ f \in Frames /\ f.at = "disconnected" /\ f.same /\ f.mask = {} /\ f.was = told
        /\ f.at # "error"
    BY DEF Frame, Frames, Slots, FrameMasks
  <2>2. stack' = <<f>>  BY <1>17
  <2> HIDE DEF f
  <2>3. InContext(f, sock', kernel', tls') /\ Expected(f)
    BY <1>1, <1>17, <2>1 DEF InContext, Expected
  <2> QED  BY <1>1, <1>3, <1>14, <1>15, <1>16, <2>1, <2>2, <2>3, CallIs
<1>18. CASE stack' = <<>>
  BY <1>1, <1>3, <1>14, <1>15, <1>16, <1>18, NoCallLeft
<1> QED  BY <1>17, <1>18

\* At its end, the call of onEvent closes it, if it is still the same.
LEMMA TlsClosesStep ==
    ASSUME TlsInvariant, Running("drain"), sock.state # "Connecting",
           NEW s \in Socks, Settled(s, sock), s.readBuf <= arrived,
           s.capacity = 0 \/ s.readBuf <= s.capacity, s.scheduled = sock.scheduled,
           CloseWhenDrained(s), UNCHANGED <<connections, arrived, written>>
    PROVE  TlsInvariant'
<1> DEFINE x == [s EXCEPT !.hasToAdd = FALSE, !.posted = {}]
           b == sock.state \in {"Connected", "Disconnecting"}
<1>1. /\ sock' = Closed(x) /\ kernel' = NoChannel /\ tls' = AbortedTls
      /\ stack' = AfterClosing(Caller, x) \o
                   IF b THEN <<Frame("disconnected", {}, told)>> ELSE <<>>
      /\ told' = IF b THEN "none" ELSE told
  BY DEF CloseWhenDrained
<1>2. Caller = <<>> /\ told = Known(FALSE, sock, tls)  BY RunningCall DEF Running
<1>3. AfterClosing(Caller, x) = <<>>
  <2>1. Caller \in Seq(Frames)  BY <1>2, EmptySeq
  <2>2. OtherContext(Caller) = <<>>  BY <1>2, <2>1, Told
  <2> QED  BY <1>2, <2>2 DEF AfterClosing
<1>4. /\ x \in Socks /\ x.readBuf = s.readBuf /\ x.capacity = s.capacity
      /\ x.scheduled = s.scheduled /\ x.lookingUp = s.lookingUp
      /\ x.connectTimer = s.connectTimer
  BY DEF Socks, Both
<1> HIDE DEF x
<1>5. ~x.lookingUp /\ ~x.connectTimer  BY <1>4, TlsFacts DEF Fits, Settled
<1>6. CASE b
  <2>1. told' = "none" /\ told # "none"  BY <1>1, <1>2, <1>6 DEF Known
  <2> DEFINE l == <<Frame("disconnected", {}, told)>>
  <2>2. stack' = <<>> \o l  BY <1>1, <1>3, <1>6
  <2>3. stack' = l
    <3>1. l \in Seq({Frame("disconnected", {}, told)})  OBVIOUS
    <3> HIDE DEF l
    <3> QED  BY <2>2, <3>1, EmptySeq, ConcatEmptySeq
  <2> QED  BY <1>1, <1>4, <1>5, <2>1, <2>3, TlsFacts, ConnectionCloses
<1>7. CASE ~b
  <2>1. told' = told /\ told = "none"
    BY <1>1, <1>2, <1>7, TlsFacts DEF Known, Socks, States
  <2>2. stack' = <<>>
    <3>1. stack' = <<>> \o <<>>  BY <1>1, <1>3, <1>7
    <3> QED  BY <3>1
  <2> QED  BY <1>1, <1>4, <1>5, <2>1, <2>2, TlsFacts, ConnectionCloses
<1> QED  BY <1>6, <1>7

\* What is left is read as long as there is any, and then the connection is closed.
LEMMA TlsOnEventDrainStep ==
    ASSUME TlsInvariant, TlsOnEventDrain
    PROVE  TlsInvariant'
<1> DEFINE k == EmptiedUnlessFull
<1>1. Running("drain") /\ UNCHANGED <<connections, arrived, written>>
  BY DEF TlsOnEventDrain
<1>2. stack # <<>> /\ Top.at = "drain" /\ Top.at # "error"  BY <1>1 DEF Running
<1>3. /\ Top \in Frames /\ Caller = <<>> /\ InContext(Top, sock, kernel, tls)
      /\ told = Known(FALSE, sock, tls)
      /\ CaredFor(Top, sock, kernel, tls, connections)
  BY <1>2, RunningCall
<1>4. Members(sock, kernel, tls, arrived, written, connections)  BY DEF TlsInvariant
<1>5. CASE /\ ~Top.same
           /\ sock' = [sock EXCEPT !.hasToAdd = FALSE, !.posted = {}]
           /\ stack' = Caller
           /\ UNCHANGED <<kernel, told, tls>>
  <2>1. sock.state \in {"Unconnected", "Connecting"}  BY <1>3, <1>5 DEF InContext
  <2>2. /\ sock' \in Socks /\ sock'.posted = {} /\ ~sock'.hasToAdd
        /\ sock'.state = sock.state /\ sock'.open = sock.open
        /\ sock'.enabled = sock.enabled /\ sock'.lookingUp = sock.lookingUp
        /\ sock'.connectTimer = sock.connectTimer /\ sock'.interest = sock.interest
        /\ sock'.readBuf = sock.readBuf /\ sock'.writeBuf = sock.writeBuf
        /\ sock'.capacity = sock.capacity /\ sock'.scheduled = sock.scheduled
    BY <1>5, TlsFacts DEF Socks, Both
  <2>3. Members(sock', kernel, tls, arrived, written, connections)
    <3>1. Fits(sock', kernel)  BY <2>2, TlsFacts DEF Fits
    <3>2. Units(sock', kernel, tls, arrived, written)  BY <2>2, TlsFacts DEF Units
    <3>3. Agrees(sock', kernel, tls)  BY <2>1, <2>2, TlsFacts DEF Agrees, Is
    <3>4. Fresh(sock', connections)  BY <2>2, TlsFacts DEF Fresh
    <3> QED  BY <3>1, <3>2, <3>3, <3>4, TlsFacts DEF Members
  <2>4. told' = Known(FALSE, sock', tls')  BY <1>3, <1>5, <2>2 DEF Known
  <2>5. CaredFor(Idling, sock', kernel', tls', connections)
    BY <2>1, <2>2, NothingOwed
  <2>6. stack' = <<>>  BY <1>3, <1>5
  <2> QED  BY <1>1, <1>5, <2>2, <2>3, <2>4, <2>5, <2>6, TlsFacts, NoCallLeft
<1>6. ASSUME Top.same  PROVE sock.state # "Connecting"
  BY <1>2, <1>3, <1>6 DEF InContext
<1>7. CASE Top.same /\ ~TlsDrains /\ CloseWhenDrained(sock)
  <2>1. sock.readBuf <= arrived
    <3>1. sock.readBuf + Held(tls) <= arrived  BY TlsFacts DEF Units
    <3> QED  BY <3>1, TlsFacts
  <2>2. sock.capacity = 0 \/ sock.readBuf <= sock.capacity  BY TlsFacts DEF Fits
  <2>3. Settled(sock, sock)  BY DEF Settled
  <2> QED  BY <1>1, <1>6, <1>7, <2>1, <2>2, <2>3, TlsFacts, TlsClosesStep
<1>8. CASE /\ Top.same /\ TlsDrains
           /\ \E room \in Rooms(sock, tls) :
                LET r == ReadDataFromChannel(room)
                IN \/ /\ r.t.failed
                      /\ sock' = r.x /\ tls' = r.t /\ kernel' = EmptiedUnlessFull
                      /\ Fails(Caller, told)
                   \/ /\ ~r.t.failed /\ r.got > 0
                      /\ sock' = r.x /\ tls' = r.t /\ kernel' = EmptiedUnlessFull
                      /\ Goes([Top EXCEPT !.at = "draining", !.was = told])
                      /\ UNCHANGED told
                   \/ ~r.t.failed /\ r.got = 0 /\ CloseWhenDrained(r.x)
  <2>1. PICK room \in Rooms(sock, tls) :
          LET r == ReadDataFromChannel(room)
          IN \/ /\ r.t.failed
                /\ sock' = r.x /\ tls' = r.t /\ kernel' = EmptiedUnlessFull
                /\ Fails(Caller, told)
             \/ /\ ~r.t.failed /\ r.got > 0
                /\ sock' = r.x /\ tls' = r.t /\ kernel' = EmptiedUnlessFull
                /\ Goes([Top EXCEPT !.at = "draining", !.was = told])
                /\ UNCHANGED told
             \/ ~r.t.failed /\ r.got = 0 /\ CloseWhenDrained(r.x)
    BY <1>8
  <2> DEFINE r == ReadDataFromChannel(room)
  <2>2. ~Full(sock) /\ tls.inbound # <<>>  BY <1>8 DEF TlsDrains
  <2>3. Is(sock)
    <3>1. NewTls(tls.role).inbound = <<>>  BY DEF NewTls
    <3> QED  BY <1>6, <1>8, <2>2, <3>1, TlsFacts DEF Agrees, Is, Socks, States
  <2>4. tls.completed
    <3>1. "hup" \in Top.mask  BY <1>2, <1>3, <1>8 DEF InContext
    <3>2. sock.state = "Connected" /\ ~tls.completed => tls.inbound = <<>>
      BY <1>2, <1>3, <1>8, <3>1 DEF InContext, Early
    <3> QED  BY <2>2, <2>3, <3>2, TlsFacts DEF Agrees, Is
  <2>5. CASE SslRead(tls, room).failed
    <3> DEFINE v == SslRead(tls, room)
    <3>1. r = [x |-> sock, t |-> v, got |-> 0]  BY <2>2, <2>5, DataIsRead
    <3>2. v \in TlsObjects /\ Members(sock, k, v, arrived, written, connections)
      <4> HIDE DEF v, k
      <4> QED  BY <2>2, <2>3, RoomFound, RefusedFits DEF v, k
    <3> HIDE DEF r, v
    <3>3. r.x = sock /\ r.t = v /\ v.failed  BY <2>5, <3>1 DEF v
    <3>4. sock' = sock /\ tls' = v /\ kernel' = k /\ Fails(Caller, told)
      BY <2>1, <3>3 DEF r
    <3> QED  BY <1>1, <1>2, <2>3, <3>2, <3>4, TlsFacts, TlsRefusedStep
  <2>6. CASE ~SslRead(tls, room).failed
    <3>1. /\ r.x \in Socks /\ r.t \in TlsObjects /\ Is(r.x) /\ r.t.completed
          /\ r.got \in Nat /\ r.x.readBuf = sock.readBuf + r.got
          /\ Settled(r.x, sock) /\ r.x.scheduled = sock.scheduled
          /\ Members(r.x, k, r.t, arrived, written, connections)
          /\ \A f : f.at \in {"sent", "draining"} /\ f.mask = Top.mask =>
                CaredFor(f, r.x, k, r.t, connections)
      BY <1>2, <2>2, <2>3, <2>4, <2>6, EncryptedDataRead
    <3>2. CASE /\ r.t.failed /\ sock' = r.x /\ tls' = r.t /\ kernel' = k
               /\ Fails(Caller, told)
      <4> HIDE DEF r
      <4> QED  BY <1>1, <1>2, <2>3, <3>1, <3>2, TlsRefusedStep
    <3>3. CASE /\ sock' = r.x /\ tls' = r.t /\ kernel' = k
               /\ Goes([Top EXCEPT !.at = "draining", !.was = told])
               /\ UNCHANGED told
      <4> DEFINE f == [Top EXCEPT !.at = "draining", !.was = told]
      <4>1. /\ k \in Channels /\ k.link = kernel.link /\ k.gone = kernel.gone
        <5> HIDE DEF k
        <5> QED  BY ChannelEmptied DEF k
      <4>2. /\ f \in Frames /\ f.at = "draining" /\ f.same = Top.same
            /\ f.mask = Top.mask /\ f.was = told /\ f.at # "error"
        BY <1>3, TlsFacts DEF Frames, Slots
      <4>3. Goes(f)  BY <3>3
      <4> HIDE DEF f, k, r
      <4>4. told = "encrypted" /\ told' = Known(FALSE, r.x, r.t)
        BY <1>3, <2>3, <2>4, <3>1, <3>3 DEF Known, Is
      <4>5. InContext(f, r.x, k, r.t)
        BY <1>2, <1>3, <1>8, <3>1, <4>1, <4>2 DEF InContext, Is
      <4>6. Expected(f)  BY <4>2, <4>4 DEF Expected
      <4>7. CaredFor(f, r.x, k, r.t, connections)  BY <3>1, <4>2
      <4> QED  BY <1>1, <1>2, <3>1, <3>3, <4>1, <4>2, <4>3, <4>4, <4>5, <4>6, <4>7,
                  CallContinues
    <3>4. CASE CloseWhenDrained(r.x)
      <4> HIDE DEF r, k
      <4>1. /\ r.x.readBuf + Held(r.t) <= arrived
            /\ r.x.capacity = 0 \/ r.x.readBuf <= r.x.capacity
        BY <3>1 DEF Members, Units, Fits
      <4>2. r.x.readBuf \in Nat /\ Held(r.t) \in Nat
        BY <3>1, TlsNumbers, BoundsAssumption DEF Socks
      <4>3. r.x.readBuf <= arrived
        <5>1. \A m, h, a \in Nat : m + h <= a => m <= a  OBVIOUS
        <5> QED  BY <4>1, <4>2, <5>1, TlsFacts
      <4> QED  BY <1>1, <1>6, <1>8, <3>1, <3>4, <4>1, <4>3, TlsClosesStep
    <3> QED  BY <2>1, <3>2, <3>3, <3>4
  <2> QED  BY <2>5, <2>6
<1> QED  BY <1>5, <1>7, <1>8 DEF TlsOnEventDrain

LEMMA TlsOnDisconnectTimeoutStep ==
    ASSUME TlsInvariant, TlsOnDisconnectTimeout
    PROVE  TlsInvariant'
<1> DEFINE x == [sock EXCEPT !.disconnectTimer = FALSE]
<1>1. /\ stack = <<>> /\ UNCHANGED <<connections, arrived, written>>
      /\ IF GivesUp
         THEN /\ sock' = Closed(x)
              /\ kernel' = NoChannel
              /\ stack' = <<Frame("disconnected", {}, told)>>
              /\ told' = "none"
         ELSE sock' = x /\ UNCHANGED <<kernel, stack, told>>
      /\ tls' = IF GivesUp THEN AbortedTls ELSE tls
  BY DEF TlsOnDisconnectTimeout, OnDisconnectTimeout
<1>2. /\ x \in Socks /\ x.state = sock.state /\ x.posted = sock.posted
      /\ Settled(x, sock) /\ x.scheduled = sock.scheduled
      /\ x.writeBuf = sock.writeBuf /\ x.readBuf = sock.readBuf
      /\ x.capacity = sock.capacity
  BY TlsFacts DEF Socks, Settled
<1>3. told = Known(FALSE, sock, tls) /\ CaredFor(Idling, sock, kernel, tls, connections)
  <2>1. TlsCalls(sock, kernel, tls, <<>>, told, connections)  BY <1>1, TlsFacts
  <2> QED  BY <2>1, NoCall
<1> HIDE DEF x
<1>4. CASE GivesUp
  <2>1. sock.state = "Disconnecting"  BY <1>4 DEF GivesUp
  <2>2. told # "none"  BY <1>3, <2>1 DEF Known
  <2>3. ~x.lookingUp /\ ~x.connectTimer  BY <1>2, <2>1, TlsFacts DEF Fits, Settled
  <2>4. x.capacity = 0 \/ x.readBuf <= x.capacity  BY <1>2, TlsFacts DEF Fits
  <2>5. x.readBuf <= arrived
    <3>1. sock.readBuf + Held(tls) <= arrived  BY TlsFacts DEF Units
    <3> QED  BY <1>2, <3>1, TlsFacts
  <2> QED  BY <1>1, <1>2, <1>4, <2>2, <2>3, <2>4, <2>5, TlsFacts, ConnectionCloses
<1>5. CASE ~GivesUp
  <2>1. sock' = x /\ UNCHANGED <<kernel, stack, told, tls>>  BY <1>1, <1>5
  <2>2. sock.state # "Disconnecting"  BY <1>5 DEF GivesUp
  <2>3. Members(x, kernel, tls, arrived, written, connections)
    <3>1. Fits(x, kernel)  BY <1>2, TlsFacts DEF Fits, Settled
    <3>2. Units(x, kernel, tls, arrived, written)  BY <1>2, TlsFacts DEF Units
    <3>3. Agrees(x, kernel, tls)  BY <1>2, TlsFacts DEF Agrees, Is, Settled
    <3>4. Fresh(x, connections)  BY <1>2, TlsFacts DEF Fresh
    <3> QED  BY <3>1, <3>2, <3>3, <3>4, TlsFacts DEF Members
  <2>4. told = Known(FALSE, x, tls)  BY <1>2, <1>3 DEF Known
  <2>5. CaredFor(Idling, x, kernel, tls, connections)
    BY <1>2, <1>3, <2>2 DEF CaredFor, Timed, Is, SendComing, ReadComing, Full
  <2> QED  BY <1>1, <1>2, <2>1, <2>3, <2>4, <2>5, TlsFacts, NoCallLeft
<1> QED  BY <1>4, <1>5

-----------------------------------------------------------------------------
(* The event loop and the timers. *)

\* Whenever the event loop runs.
LEMMA TlsIdleFacts ==
    ASSUME TlsInvariant, stack = <<>>
    PROVE  /\ told = Known(FALSE, sock, tls)
           /\ CaredFor(Idling, sock, kernel, tls, connections)
           /\ Members(sock, kernel, tls, arrived, written, connections)
<1>1. TlsCalls(sock, kernel, tls, <<>>, told, connections)  BY TlsFacts
<1> QED  BY <1>1, NoCall DEF TlsInvariant

\* An event was fetched, or posted: onEvent begins.
LEMMA TlsEventBegins ==
    ASSUME TlsInvariant, stack = <<>>, NEW m \in Masks,
           stack' = <<Frame("out", m, told)>>,
           sock' \in Socks, kernel' \in Channels,
           Members(sock', kernel', tls, arrived, written, connections),
           sock'.state = sock.state,
           sock.state = "Connecting" => "out" \in m /\ sock'.enabled,
           "hup" \in m =>
               /\ kernel'.gone \/ kernel'.link = "failed"
               /\ sock.state \in {"Connecting", "Connected"} => "in" \in m,
           CaredFor([at |-> "out", mask |-> m], sock', kernel', tls, connections),
           UNCHANGED <<tls, told, connections, arrived, written>>
    PROVE  TlsInvariant'
<1> DEFINE f == Frame("out", m, told)
<1>1. told = Known(FALSE, sock, tls)  BY TlsIdleFacts
<1>2. /\ f \in Frames /\ f.at = "out" /\ f.same /\ f.mask = m /\ f.at # "error"
  BY TlsFacts DEF Frame, Frames, FrameMasks, Masks
<1>3. stack' = <<f>>  OBVIOUS
<1> HIDE DEF f
<1>4. InContext(f, sock', kernel', tls) /\ Expected(f)
  BY <1>2 DEF InContext, Expected, Early
<1>5. told' = Known(FALSE, sock', tls')  BY <1>1 DEF Known
<1>6. CaredFor(f, sock', kernel', tls, connections)
  <2> DEFINE g == [at |-> "out", mask |-> m]
  <2>1. CaredFor(g, sock', kernel', tls, connections) /\ g.at = "out" /\ g.mask = m
    OBVIOUS
  <2> HIDE DEF g
  <2> QED  BY <1>2, <2>1 DEF CaredFor, Timed, Closes, SendComing, ReadComing
<1> QED  BY <1>2, <1>3, <1>4, <1>5, <1>6, TlsFacts, CallIs

LEMMA TlsProcessFetchedStep ==
    ASSUME TlsInvariant, ProcessFetched, UNCHANGED tls
    PROVE  TlsInvariant'
<1> DEFINE k == [kernel EXCEPT !.fetched = {}]
<1>1. /\ stack = <<>> /\ kernel.fetched # {} /\ kernel' = k
      /\ stack' = <<Frame("out", kernel.fetched, told)>>
      /\ UNCHANGED <<sock, told, connections, arrived, written>>
  BY DEF ProcessFetched
<1>2. /\ k \in Channels /\ k.link = kernel.link /\ k.space = kernel.space
      /\ k.gone = kernel.gone /\ k.edge = kernel.edge /\ k.fetched = {}
      /\ k.recvQ = kernel.recvQ /\ kernel.fetched \in Masks
  BY TlsFacts DEF Channels, Masks
<1> HIDE DEF k
<1>3. CaredFor(Idling, sock, kernel, tls, connections)  BY <1>1, TlsIdleFacts
<1>4. Members(sock, k, tls, arrived, written, connections)
  <2>1. Fits(sock, k)  BY <1>2, TlsFacts DEF Fits
  <2>2. Units(sock, k, tls, arrived, written)  BY <1>2, TlsFacts DEF Units
  <2>3. Agrees(sock, k, tls)  BY <1>2, TlsFacts DEF Agrees
  <2> QED  BY <2>1, <2>2, <2>3, TlsFacts DEF Members
<1>5. sock.enabled  BY <1>1, TlsFacts DEF Fits
<1>6. sock.state = "Connecting" => "out" \in kernel.fetched  BY <1>1, TlsFacts DEF Fits
<1>7. "hup" \in kernel.fetched =>
          /\ k.gone \/ k.link = "failed"
          /\ sock.state \in {"Connecting", "Connected"} => "in" \in kernel.fetched
  BY <1>2, TlsFacts DEF Agrees
<1> DEFINE g == [at |-> "out", mask |-> kernel.fetched]
<1>8. CaredFor(g, sock, k, tls, connections)
  <2>1. /\ g.at = "out" /\ g.mask = kernel.fetched
        /\ Idling.at = "idle" /\ Idling.mask = {}
    BY DEF Idling
  <2> HIDE DEF g
  <2> QED  BY <1>2, <1>3, <2>1 DEF CaredFor, Timed, Closes, SendComing, ReadComing, Early
<1> QED  BY <1>1, <1>2, <1>4, <1>5, <1>6, <1>7, <1>8, TlsFacts, TlsEventBegins

LEMMA TlsProcessPostedStep ==
    ASSUME TlsInvariant, ProcessPosted, UNCHANGED tls
    PROVE  TlsInvariant'
<1> DEFINE x == [sock EXCEPT !.posted = {}]
<1>1. /\ stack = <<>> /\ sock.posted # {} /\ sock' = x
      /\ stack' = <<Frame("out", sock.posted, told)>>
      /\ UNCHANGED <<kernel, told, connections, arrived, written>>
  BY DEF ProcessPosted
<1>2. /\ x \in Socks /\ Settled(x, sock) /\ x.state = sock.state /\ x.posted = {}
      /\ x.disconnectTimer = sock.disconnectTimer
      /\ x.readBuf = sock.readBuf /\ x.writeBuf = sock.writeBuf
      /\ x.capacity = sock.capacity /\ x.scheduled = sock.scheduled
      /\ sock.posted \in Masks /\ "hup" \notin sock.posted
  BY TlsFacts DEF Socks, Settled, Both, Masks
<1> HIDE DEF x
<1>3. CaredFor(Idling, sock, kernel, tls, connections)  BY <1>1, TlsIdleFacts
<1>4. Members(x, kernel, tls, arrived, written, connections)
  <2>1. Fits(x, kernel)  BY <1>2, TlsFacts DEF Fits, Settled
  <2>2. Units(x, kernel, tls, arrived, written)  BY <1>2, TlsFacts DEF Units
  <2>3. Agrees(x, kernel, tls)  BY <1>2, TlsFacts DEF Agrees, Is, Settled
  <2>4. Fresh(x, connections)  BY <1>2, TlsFacts DEF Fresh
  <2> QED  BY <2>1, <2>2, <2>3, <2>4, TlsFacts DEF Members
<1>5. sock.state # "Connecting"  BY <1>1, TlsFacts DEF Fits
<1> DEFINE g == [at |-> "out", mask |-> sock.posted]
<1>6. CaredFor(g, x, kernel, tls, connections)
  <2>1. /\ g.at = "out" /\ g.mask = sock.posted
        /\ Idling.at = "idle" /\ Idling.mask = {}
    BY DEF Idling
  <2> HIDE DEF g
  <2>2. Timed(g, x, tls)  BY <1>2, <1>3, <2>1 DEF CaredFor, Timed, Closes
  <2>3. SendComing(Idling, sock, kernel) => SendComing(g, x, kernel)
    BY <1>2, <2>1 DEF SendComing, Idling
  <2>4. ReadComing(Idling, sock, kernel, tls) => ReadComing(g, x, kernel, tls)
    BY <1>2, <2>1 DEF ReadComing, Idling, Early
  <2> QED  BY <1>2, <1>3, <2>2, <2>3, <2>4 DEF CaredFor, Is, Full
<1> QED  BY <1>1, <1>2, <1>4, <1>5, <1>6, TlsFacts, TlsEventBegins

LEMMA TlsEpollWaitStep ==
    ASSUME TlsInvariant, EpollWait, UNCHANGED tls
    PROVE  TlsInvariant'
<1> DEFINE r == Ready(kernel, sock.interest)
           k == [kernel EXCEPT !.edge = FALSE, !.fetched = r]
<1>1. /\ stack = <<>> /\ sock.enabled /\ kernel.fetched = {} /\ kernel' = k
      /\ UNCHANGED <<sock, stack, told, connections, arrived, written>>
  BY DEF EpollWait
<1>2. r \in Masks
  <2>1. sock.interest \in SUBSET Both  BY TlsFacts DEF Socks
  <2> QED  BY <2>1 DEF Ready, Masks, Both
<1>3. sock.state = "Connecting" /\ r # {} => "out" \in r
  <2>1. ASSUME sock.state = "Connecting", kernel.link = "pending" PROVE r = {}
    <3>1. kernel.recvQ = 0 /\ ~kernel.gone  BY <2>1, TlsFacts DEF Fits
    <3> QED  BY <2>1, <3>1 DEF Ready
  <2>2. ASSUME sock.state = "Connecting", kernel.link # "pending" PROVE "out" \in r
    <3>1. sock.interest = Both /\ kernel.space = "free"  BY <2>2, TlsFacts DEF Fits
    <3> QED  BY <2>2, <3>1 DEF Ready, Both
  <2> QED  BY <2>1, <2>2
<1>4. /\ sock.interest = Both /\ kernel.recvQ > 0 => "in" \in r
      /\ sock.interest = Both /\ kernel.link = "up" /\ kernel.space = "free" => "out" \in r
      /\ "hup" \in r => kernel.gone \/ kernel.link = "failed"
      /\ sock.interest = Both /\ "hup" \in r => "in" \in r
  <2>1. sock.interest \in SUBSET Both  BY TlsFacts DEF Socks
  <2> QED  BY <2>1 DEF Ready, Both
<1> HIDE DEF r
<1>5. /\ k \in Channels /\ k.link = kernel.link /\ k.recvQ = kernel.recvQ
      /\ k.gone = kernel.gone /\ k.space = kernel.space /\ k.fetched = r
  BY <1>2, TlsFacts DEF Channels
<1> HIDE DEF k
<1>6. sock.state \in {"Connecting", "Connected"} => sock.interest = Both
  BY TlsFacts DEF Fits
<1>7. Members(sock, k, tls, arrived, written, connections)
  <2>1. Fits(sock, k)  BY <1>1, <1>3, <1>5, TlsFacts DEF Fits
  <2>2. Units(sock, k, tls, arrived, written)  BY <1>5, TlsFacts DEF Units
  <2>3. Agrees(sock, k, tls)  BY <1>4, <1>5, <1>6, TlsFacts DEF Agrees
  <2> QED  BY <2>1, <2>2, <2>3, TlsFacts DEF Members
<1>8. /\ told = Known(FALSE, sock, tls) /\ CaredFor(Idling, sock, kernel, tls, connections)
      /\ Idling.at = "idle" /\ Idling.mask = {}
  BY <1>1, TlsIdleFacts DEF Idling
<1>9. CaredFor(Idling, sock, k, tls, connections)
  <2>1. Timed(Idling, sock, tls)  BY <1>8 DEF CaredFor
  <2>2. ASSUME connections = 1, Is(sock),
               sock.scheduled \/ (tls.completed /\ sock.writeBuf > 0) \/ tls.out > 0
        PROVE  SendComing(Idling, sock, k)
    <3>1. SendComing(Idling, sock, kernel)  BY <1>8, <2>2 DEF CaredFor
    <3>2. kernel.link = "up"  BY <2>2, TlsFacts DEF Fits, Is
    <3>3. sock.interest = Both
      <4>1. CASE sock.state = "Connected"  BY <1>6, <4>1
      <4>2. CASE sock.state = "Disconnecting"
        <5>1. ~(sock.writeBuf = 0 /\ tls.out = 0 /\ ~sock.scheduled)
          BY <2>2, TlsFacts, TlsNumbers
        <5> QED  BY <4>2, <5>1, TlsFacts DEF Agrees
      <4> QED  BY <2>2, <4>1, <4>2 DEF Is
    <3> QED  BY <1>1, <1>4, <1>5, <1>8, <3>1, <3>2, <3>3 DEF SendComing
  <2>3. ASSUME sock.state = "Connected", ~Full(sock), tls.inbound # <<>> \/ tls.pending > 0
        PROVE  ReadComing(Idling, sock, k, tls)
    <3>1. ReadComing(Idling, sock, kernel, tls)  BY <1>8, <2>3 DEF CaredFor
    <3> QED  BY <1>1, <1>4, <1>5, <1>6, <1>8, <2>3, <3>1 DEF ReadComing
  <2> QED  BY <2>1, <2>2, <2>3 DEF CaredFor
<1> QED  BY <1>1, <1>5, <1>7, <1>8, <1>9, TlsFacts, NoCallLeft

\* The name was found, or not.
LEMMA TlsOnHostFoundStep ==
    ASSUME TlsInvariant, OnHostFound, UNCHANGED tls
    PROVE  TlsInvariant'
<1>1. stack = <<>> /\ sock.lookingUp /\ UNCHANGED <<connections, arrived, written>>
  BY DEF OnHostFound
<1>2. PICK n \in 0..MaxAddresses :
        LET x == [sock EXCEPT !.lookingUp = FALSE, !.addresses = n]
        IN IF n > 0 THEN ConnectToHost(x, stack)
           ELSE sock' = x /\ UNCHANGED kernel /\ Fails(stack, told)
  BY DEF OnHostFound
<1> DEFINE x == [sock EXCEPT !.lookingUp = FALSE, !.addresses = n]
           s == <<>>
<1>3. /\ x \in Socks /\ x.state = sock.state /\ x.posted = sock.posted
      /\ x.readBuf = sock.readBuf /\ x.writeBuf = sock.writeBuf
      /\ x.capacity = sock.capacity /\ x.hasToAdd = sock.hasToAdd
      /\ x.enabled = sock.enabled /\ x.open = sock.open /\ ~x.lookingUp
      /\ x.connectTimer = sock.connectTimer /\ x.interest = sock.interest
      /\ x.disconnectTimer = sock.disconnectTimer /\ x.scheduled = sock.scheduled
      /\ x.addresses = n
  BY TlsFacts DEF Socks
<1>4. IF n > 0 THEN ConnectToHost(x, s) ELSE sock' = x /\ UNCHANGED kernel /\ Fails(s, told)
  BY <1>1, <1>2
<1> HIDE DEF x
<1>5. sock.state = "Connecting"  BY <1>1, TlsFacts DEF Fits
<1>6. /\ x.posted = {} /\ x.readBuf = 0 /\ ~x.hasToAdd /\ x.interest = Both
      /\ x.writeBuf <= written
  BY <1>3, <1>5, TlsFacts DEF Fits, Units
<1>7. s \in Seq(Frames) /\ Len(s) = 0 /\ s = <<>>  BY EmptySeq
<1>8. tls = SetUp("client")  BY <1>5, TlsFacts DEF Agrees
<1>9. connections \in 0..MaxConnections /\ connections # 0
      /\ (connections = 1 => ~x.scheduled)
  BY <1>3, <1>5, TlsFacts DEF Fresh
<1>10. CASE n > 0
  <2> HIDE DEF s
  <2>1. TlsNested(s) /\ ~Doomed(s)  BY <1>7 DEF TlsNested, Doomed
  <2>2. \A y, k : y.state = "Connecting" =>
           \A i \in 1..Len(s) : InContext(s[i], y, k, SetUp("client")) /\ Expected(s[i])
    BY <1>7
  <2>3. x.addresses # 0  BY <1>3, <1>10
  <2>4. ConnectToHost(x, s)  BY <1>4, <1>10
  <2> QED  BY <1>1, <1>3, <1>5, <1>6, <1>7, <1>8, <1>9, <2>1, <2>2, <2>3, <2>4,
              TlsConnecting
<1>11. CASE ~(n > 0)
  <2>1. sock' = x /\ kernel' = kernel /\ Fails(<<>>, told)  BY <1>4, <1>11
  <2>2. Members(x, kernel, tls, arrived, written, connections)
    <3>1. Fits(x, kernel)  BY <1>3, TlsFacts DEF Fits
    <3>2. Units(x, kernel, tls, arrived, written)  BY <1>3, TlsFacts DEF Units
    <3>3. Agrees(x, kernel, tls)  BY <1>3, TlsFacts DEF Agrees, Is
    <3>4. Fresh(x, connections)  BY <1>3, TlsFacts DEF Fresh
    <3> QED  BY <3>1, <3>2, <3>3, <3>4, TlsFacts DEF Members
  <2>3. told # "none"  BY <1>1, <1>5, TlsIdleFacts DEF Known
  <2> QED  BY <1>1, <1>3, <2>1, <2>2, <2>3, TlsFacts, ErrorBegins
<1> QED  BY <1>10, <1>11

LEMMA TlsOnConnectTimeoutStep ==
    ASSUME TlsInvariant, OnConnectTimeout, UNCHANGED tls
    PROVE  TlsInvariant'
<1>1. /\ stack = <<>> /\ sock.connectTimer /\ UNCHANGED <<connections, arrived, written>>
  BY DEF OnConnectTimeout
<1>2. sock.state = "Connecting" /\ ~sock.lookingUp  BY <1>1, TlsFacts DEF Fits
<1>3. ConnectToHost([sock EXCEPT !.connectTimer = FALSE], <<>>)
  BY <1>1, <1>2 DEF OnConnectTimeout
<1> QED  BY <1>1, <1>2, <1>3, NextAddressTried

LEMMA OnHandshakeTimeoutStep ==
    ASSUME TlsInvariant, OnHandshakeTimeout
    PROVE  TlsInvariant'
<1> DEFINE u == [tls EXCEPT !.timer = FALSE]
<1>1. /\ stack = <<>> /\ tls.timer /\ tls' = u /\ Fails(<<>>, told)
      /\ UNCHANGED <<sock, kernel, connections, arrived, written>>
  BY DEF OnHandshakeTimeout
<1>2. /\ u \in TlsObjects /\ ~u.timer /\ u.ssl = tls.ssl /\ u.role = tls.role
      /\ u.completed = tls.completed /\ u.inbound = tls.inbound /\ u.out = tls.out
      /\ u.awaited = tls.awaited /\ u.parts = tls.parts /\ u.pending = tls.pending
      /\ u.closeSent = tls.closeSent
  BY TlsFacts DEF TlsObjects
<1> HIDE DEF u
<1>3. sock.state = "Connected" /\ ~tls.completed  BY <1>1, TlsFacts DEF Agrees
<1>4. Members(sock, kernel, u, arrived, written, connections)
  <2>1. Ordered(u)  BY <1>2, TlsFacts DEF Ordered
  <2>2. Units(sock, kernel, u, arrived, written)
    <3>1. Held(u) = Held(tls) /\ Left(u) = Left(tls)  BY <1>2 DEF Held, Left
    <3> QED  BY <1>2, <3>1, TlsFacts DEF Units
  <2>3. Agrees(sock, kernel, u)  BY <1>2, <1>3, TlsFacts DEF Agrees, Is
  <2> QED  BY <2>1, <2>2, <2>3, TlsFacts DEF Members
<1>5. told # "none"  BY <1>1, <1>3, TlsIdleFacts DEF Known
<1> QED  BY <1>1, <1>2, <1>4, <1>5, TlsFacts, ErrorBegins

-----------------------------------------------------------------------------
(* The network and the peer. *)

LEMMA TlsWakes ==
    ASSUME TlsInvariant, NEW e \in Both
    PROVE  /\ Wakes(e) \in BOOLEAN /\ (kernel.edge => Wakes(e))
           /\ sock.interest = Both => Wakes(e)
<1>1. kernel.edge \in BOOLEAN  BY TlsFacts DEF Channels
<1> QED  BY <1>1 DEF Wakes

LEMMA TlsNetworkStep ==
    ASSUME TlsInvariant, Network, UNCHANGED tls
    PROVE  TlsInvariant'
<1>1. /\ UNCHANGED <<sock, stack, told, connections, arrived, written>>
      /\ arrived \in 0..MaxArriving /\ written \in 0..MaxWritten
  BY TlsFacts DEF Network
<1>2. \A d \in BOOLEAN : Known(d, sock', tls') = Known(d, sock, tls)  BY <1>1
<1>3. CASE ConnectionDecided
  <2>1. kernel.link = "pending"  BY <1>3 DEF ConnectionDecided
  <2>2. PICK l \in {"up", "failed"} : kernel' = [kernel EXCEPT !.link = l, !.edge = TRUE]
    BY <1>3 DEF ConnectionDecided
  <2>3. /\ kernel' \in Channels /\ kernel'.link = l /\ kernel'.recvQ = kernel.recvQ
        /\ kernel'.gone = kernel.gone /\ kernel'.space = kernel.space /\ kernel'.edge
        /\ kernel'.fetched = kernel.fetched
    BY <2>2, TlsFacts DEF Channels
  <2>4. sock.state \in {"Unconnected", "Connecting"} /\ ~kernel.gone
    BY <2>1, TlsFacts DEF Fits, Socks, States
  <2>5. Members(sock, kernel', tls, arrived, written, connections)
    <3>1. Fits(sock, kernel')  BY <2>1, <2>3, TlsFacts DEF Fits
    <3>2. Units(sock, kernel', tls, arrived, written)  BY <2>3, TlsFacts DEF Units
    <3>3. Agrees(sock, kernel', tls)  BY <2>1, <2>3, <2>4, TlsFacts DEF Agrees, Is
    <3> QED  BY <3>1, <3>2, <3>3, TlsFacts DEF Members
  <2>6. \A f \in Frames : InContext(f, sock, kernel, tls) => InContext(f, sock, kernel', tls)
    BY <2>1, <2>4 DEF InContext
  <2>7. \A f : CaredFor(f, sock, kernel', tls, connections)  BY <2>4, NothingOwed
  <2> QED  BY <1>1, <1>2, <2>3, <2>5, <2>6, <2>7, TlsFacts, CallsStay
<1>4. CASE PeerGoes
  <2>1. kernel.link = "up" /\ kernel' = [kernel EXCEPT !.gone = TRUE, !.edge = TRUE]
    BY <1>4 DEF PeerGoes
  <2>2. /\ kernel' \in Channels /\ kernel'.link = "up" /\ kernel'.recvQ = kernel.recvQ
        /\ kernel'.space = kernel.space /\ kernel'.edge /\ kernel'.gone
        /\ kernel'.fetched = kernel.fetched
    BY <2>1, TlsFacts DEF Channels
  <2>3. Members(sock, kernel', tls, arrived, written, connections)
    <3>1. Fits(sock, kernel')  BY <2>1, <2>2, TlsFacts DEF Fits
    <3>2. Units(sock, kernel', tls, arrived, written)  BY <2>2, TlsFacts DEF Units
    <3>3. Agrees(sock, kernel', tls)  BY <2>1, <2>2, TlsFacts DEF Agrees
    <3> QED  BY <3>1, <3>2, <3>3, TlsFacts DEF Members
  <2>4. \A f \in Frames : InContext(f, sock, kernel, tls) => InContext(f, sock, kernel', tls)
    BY <2>2 DEF InContext
  <2>5. \A f : CaredFor(f, sock, kernel, tls, connections) =>
                   CaredFor(f, sock, kernel', tls, connections)
    BY <2>2 DEF CaredFor, SendComing, ReadComing
  <2> QED  BY <1>1, <1>2, <2>2, <2>3, <2>4, <2>5, TlsFacts, CallsStay
<1>5. CASE SpaceFrees
  <2> DEFINE e == IF kernel.space = "awaited" THEN Wakes("out") ELSE kernel.edge
  <2>1. kernel.space # "free" /\ kernel' = [kernel EXCEPT !.space = "free", !.edge = e]
    BY <1>5, TlsFacts DEF SpaceFrees, Channels
  <2>2. /\ e \in BOOLEAN /\ (kernel.edge => e)
        /\ kernel.space = "awaited" /\ sock.interest = Both => e
    <3>1. kernel.edge \in BOOLEAN  BY TlsFacts DEF Channels
    <3>2. /\ Wakes("out") \in BOOLEAN /\ (kernel.edge => Wakes("out"))
          /\ sock.interest = Both => Wakes("out")
      BY TlsWakes DEF Both
    <3> QED  BY <3>1, <3>2
  <2> HIDE DEF e
  <2>3. /\ kernel' \in Channels /\ kernel'.link = kernel.link /\ kernel'.recvQ = kernel.recvQ
        /\ kernel'.gone = kernel.gone /\ kernel'.space = "free" /\ kernel'.edge = e
        /\ kernel'.fetched = kernel.fetched
    BY <2>1, <2>2, TlsFacts DEF Channels
  <2>4. Members(sock, kernel', tls, arrived, written, connections)
    <3>1. Fits(sock, kernel')  BY <2>3, TlsFacts DEF Fits
    <3>2. Units(sock, kernel', tls, arrived, written)  BY <2>3, TlsFacts DEF Units
    <3>3. Agrees(sock, kernel', tls)  BY <2>3, TlsFacts DEF Agrees
    <3> QED  BY <3>1, <3>2, <3>3, TlsFacts DEF Members
  <2>5. \A f \in Frames : InContext(f, sock, kernel, tls) => InContext(f, sock, kernel', tls)
    BY <2>3 DEF InContext
  <2>6. ASSUME NEW f, CaredFor(f, sock, kernel, tls, connections)
        PROVE  CaredFor(f, sock, kernel', tls, connections)
    <3>1. Timed(f, sock, tls)  BY <2>6 DEF CaredFor
    <3>2. ASSUME connections = 1, Is(sock),
                 sock.scheduled \/ (tls.completed /\ sock.writeBuf > 0) \/ tls.out > 0
          PROVE  SendComing(f, sock, kernel')
      <4>1. SendComing(f, sock, kernel)  BY <2>6, <3>2 DEF CaredFor
      <4>2. sock.interest = Both
        <5>1. CASE sock.state = "Connected"  BY <5>1, TlsFacts DEF Fits
        <5>2. CASE sock.state = "Disconnecting"
          <6>1. ~(sock.writeBuf = 0 /\ tls.out = 0 /\ ~sock.scheduled)
            BY <3>2, TlsFacts, TlsNumbers
          <6> QED  BY <5>2, <6>1, TlsFacts DEF Agrees
        <5> QED  BY <3>2, <5>1, <5>2 DEF Is
      <4> QED  BY <2>1, <2>2, <2>3, <4>1, <4>2 DEF SendComing
    <3>3. \A t : ReadComing(f, sock, kernel, t) => ReadComing(f, sock, kernel', t)
      BY <2>2, <2>3 DEF ReadComing
    <3> QED  BY <2>6, <3>1, <3>2, <3>3 DEF CaredFor
  <2> QED  BY <1>1, <1>2, <2>3, <2>4, <2>5, <2>6, TlsFacts, CallsStay
<1> QED  BY <1>3, <1>4, <1>5 DEF Network

\* The flights are the first of the fragments, as many as are awaited.
LEMMA FlightsCounted ==
    ASSUME NEW t \in TlsObjects, Ordered(t), ToSet(t.inbound) \cap {"close", "bad"} = {},
           NEW n, n = Cardinality({i \in DOMAIN t.inbound : t.inbound[i] = "flight"})
    PROVE  /\ Len(t.inbound) < t.awaited => n = Len(t.inbound)
           /\ t.awaited <= Len(t.inbound) => n = t.awaited
<1>1. t.inbound \in Seq(Fragments) /\ Len(t.inbound) \in Nat /\ t.awaited \in Nat
  BY TlsNumbers
<1>2. /\ DOMAIN t.inbound = 1..Len(t.inbound)
      /\ \A i \in 1..Len(t.inbound) : t.inbound[i] \in Fragments
  BY <1>1, LenProperties, ElementOfSeq
<1>3. \A i \in 1..Len(t.inbound) : t.inbound[i] \in {"flight", "part", "data"}
  <2> TAKE i \in 1..Len(t.inbound)
  <2>1. t.inbound[i] \in ToSet(t.inbound)  BY <1>2 DEF ToSet
  <2> QED  BY <1>2, <2>1 DEF Fragments
<1>4. \A i \in 1..Len(t.inbound) :
        /\ t.inbound[i] = "flight" => i <= t.awaited
        /\ t.inbound[i] # "flight" => t.awaited < i
  BY <1>3 DEF Ordered
<1>5. ASSUME Len(t.inbound) < t.awaited  PROVE n = Len(t.inbound)
  <2>1. {i \in DOMAIN t.inbound : t.inbound[i] = "flight"} = 1..Len(t.inbound)
    BY <1>1, <1>2, <1>4, <1>5
  <2>2. Cardinality(1..Len(t.inbound)) = Len(t.inbound)  BY <1>1, FS_Interval
  <2> QED  BY <2>1, <2>2
<1>6. ASSUME t.awaited <= Len(t.inbound)  PROVE n = t.awaited
  <2>1. {i \in DOMAIN t.inbound : t.inbound[i] = "flight"} = 1..t.awaited
    BY <1>1, <1>2, <1>4, <1>6
  <2>2. Cardinality(1..t.awaited) = t.awaited  BY <1>1, FS_Interval
  <2> QED  BY <2>1, <2>2
<1> QED  BY <1>5, <1>6

\* What the peer sends next keeps the order of the fragments.
LEMMA NextFragment ==
    ASSUME TlsInvariant, NEW f \in MaySend
    PROVE  /\ f \in Fragments /\ tls # SetUp("client")
           /\ ToSet(tls.inbound) \cap {"close", "bad"} = {}
           /\ f = "flight" => Len(tls.inbound) < tls.awaited
           /\ f \in {"data", "part"} => tls.awaited <= Len(tls.inbound)
<1> DEFINE n == Cardinality({i \in DOMAIN tls.inbound : tls.inbound[i] = "flight"})
           inRecord == IF tls.inbound = <<>> THEN tls.parts = 1 ELSE Last(tls.inbound) = "part"
           silent == ~tls.heard /\ (tls.role = "client" \/ tls.awaited - n = 1)
<1>1. /\ ToSet(tls.inbound) \cap {"close", "bad"} = {}
      /\ inRecord \/ ~silent
      /\ inRecord => f = "data"
      /\ ~inRecord => f \in {"close", "bad"} \cup
                            IF tls.awaited - n > 0 THEN {"flight"} ELSE {"data", "part"}
  BY DEF MaySend
<1>2. f \in Fragments  BY <1>1 DEF Fragments
<1>3. /\ tls.inbound \in Seq(Fragments) /\ Len(tls.inbound) \in Nat /\ tls.awaited \in Nat
      /\ tls.parts \in Nat
  BY TlsFacts, TlsNumbers
<1>4. tls # SetUp("client")
  <2> SUFFICES ASSUME tls = SetUp("client") PROVE FALSE  OBVIOUS
  <2>1. ~tls.heard /\ tls.role = "client" /\ tls.inbound = <<>> /\ tls.parts = 0
    BY DEF SetUp, NewTls
  <2> QED  BY <1>1, <2>1
<1>5. /\ Len(tls.inbound) < tls.awaited => n = Len(tls.inbound)
      /\ tls.awaited <= Len(tls.inbound) => n = tls.awaited
  BY <1>1, TlsFacts, FlightsCounted
<1>6. inRecord => tls.awaited <= Len(tls.inbound)
  <2>1. CASE tls.inbound = <<>>
    <3>1. inRecord => tls.awaited = 0  BY <1>3, <2>1, TlsFacts DEF Ordered
    <3> QED  BY <1>3, <3>1
  <2>2. CASE tls.inbound # <<>>
    <3>1. Len(tls.inbound) \in 1..Len(tls.inbound)  BY <1>3, <2>2, EmptySeq
    <3>2. Last(tls.inbound) = tls.inbound[Len(tls.inbound)]  BY DEF Last
    <3>3. inRecord => tls.inbound[Len(tls.inbound)] = "part"  BY <2>2, <3>2
    <3> HIDE DEF inRecord
    <3>4. inRecord => tls.awaited < Len(tls.inbound)
      BY <3>1, <3>3, TlsFacts DEF Ordered
    <3> QED  BY <1>3, <3>4
  <2> QED  BY <2>1, <2>2
<1> HIDE DEF n, inRecord
<1>7. f = "flight" => Len(tls.inbound) < tls.awaited
  BY <1>1, <1>3, <1>5
<1>8. f \in {"data", "part"} => tls.awaited <= Len(tls.inbound)
  BY <1>1, <1>3, <1>5, <1>6
<1> QED  BY <1>1, <1>2, <1>4, <1>7, <1>8

LEMMA FragmentArrivesStep ==
    ASSUME TlsInvariant, FragmentArrives
    PROVE  TlsInvariant'
<1> DEFINE w == Wakes("in")
           k == [kernel EXCEPT !.recvQ = kernel.recvQ + 1, !.edge = w]
<1>1. /\ kernel.link = "up" /\ ~kernel.gone /\ arrived < MaxArriving
      /\ arrived' = arrived + 1 /\ kernel' = k /\ tls.ssl
      /\ UNCHANGED <<sock, stack, told, connections, written>>
  <2>1. DataArrives /\ tls.ssl  BY DEF FragmentArrives
  <2> QED  BY <2>1 DEF DataArrives
<1>2. PICK f \in MaySend : tls' = [tls EXCEPT !.inbound = Append(tls.inbound, f)]
  BY DEF FragmentArrives
<1> DEFINE u == [tls EXCEPT !.inbound = Append(tls.inbound, f)]
<1>3. /\ w \in BOOLEAN /\ (kernel.edge => w) /\ (sock.interest = Both => w)
  BY TlsWakes DEF Both
<1> HIDE DEF w
<1>4. /\ kernel.recvQ <= Len(tls.inbound) /\ sock.readBuf + Held(tls) <= arrived
      /\ Held(tls) = tls.pending + tls.parts + Len(tls.inbound)
      /\ tls.inbound \in Seq(Fragments) /\ Len(tls.inbound) \in Nat
      /\ tls.pending \in Nat /\ tls.parts \in Nat /\ tls.awaited \in Nat
      /\ tls.out \in Nat
  BY TlsFacts, TlsNumbers DEF Units, Held
<1>5. arrived + 1 \in 0..MaxArriving /\ kernel.recvQ + 1 \in 0..MaxArriving
  <2>1. kernel.recvQ <= arrived
    <3>1. \A q, l, m, p, b, a \in Nat :
              q <= l /\ b + (m + p + l) <= a => q <= a
      OBVIOUS
    <3> QED  BY <1>4, <3>1, TlsFacts
  <2> QED  BY SMTT(30), <1>1, <2>1, TlsFacts
<1>6. /\ k \in Channels /\ k.link = kernel.link /\ k.recvQ = kernel.recvQ + 1
      /\ k.gone = kernel.gone /\ k.space = kernel.space /\ k.edge = w
      /\ k.fetched = kernel.fetched
  BY <1>3, <1>5, TlsFacts DEF Channels
<1> HIDE DEF k
<1>7. /\ f \in Fragments /\ tls # SetUp("client")
      /\ ToSet(tls.inbound) \cap {"close", "bad"} = {}
      /\ f = "flight" => Len(tls.inbound) < tls.awaited
      /\ f \in {"data", "part"} => tls.awaited <= Len(tls.inbound)
  BY NextFragment
<1>8. Is(sock)
  <2>1. ~NewTls(tls.role).ssl  BY DEF NewTls
  <2> QED  BY <1>1, <1>7, <2>1, TlsFacts DEF Agrees, Is, Socks, States
<1> DEFINE s == Append(tls.inbound, f)
<1>9. /\ s \in Seq(Fragments) /\ s # <<>> /\ Len(s) = Len(tls.inbound) + 1
      /\ \A i \in 1..Len(tls.inbound) : s[i] = tls.inbound[i]
      /\ s[Len(tls.inbound) + 1] = f
  BY <1>4, <1>7, AppendProperties
<1> HIDE DEF s
<1>10. tls' = [tls EXCEPT !.inbound = s]  BY <1>2 DEF s
<1>11. /\ tls' \in TlsObjects /\ tls'.inbound = s
       /\ tls'.ssl = tls.ssl /\ tls'.role = tls.role /\ tls'.completed = tls.completed
       /\ tls'.timer = tls.timer /\ tls'.out = tls.out /\ tls'.awaited = tls.awaited
       /\ tls'.parts = tls.parts /\ tls'.pending = tls.pending
       /\ tls'.closeSent = tls.closeSent /\ tls'.behind = tls.behind
  BY <1>9, <1>10, TlsFacts DEF TlsObjects
<1>12. Ordered(tls')
  <2>1. ASSUME NEW j \in 1..Len(s)
        PROVE  /\ s[j] = "flight" => j <= tls.awaited
               /\ s[j] \in {"part", "data"} => tls.awaited < j
               /\ s[j] \in {"close", "bad"} => j = Len(s)
    <3>1. CASE j = Len(tls.inbound) + 1  BY <1>4, <1>7, <1>9, <3>1
    <3>2. CASE j \in 1..Len(tls.inbound)
      <4>1. tls.inbound[j] \in ToSet(tls.inbound)
        BY <1>4, <3>2, LenProperties DEF ToSet
      <4> QED  BY <1>7, <1>9, <3>2, <4>1, TlsFacts DEF Ordered
    <3> QED  BY <1>4, <1>9, <3>1, <3>2
  <2>2. tls'.parts > 0 \/ tls'.pending > 0 => tls'.awaited = 0
    BY <1>11, TlsFacts DEF Ordered
  <2> QED  BY <1>11, <2>1, <2>2 DEF Ordered
<1>13. Units(sock, k, tls', arrived + 1, written)
  <2>1. Held(tls') = Held(tls) + 1  BY <1>4, <1>9, <1>11 DEF Held
  <2>2. Left(tls') = Left(tls)  BY <1>11 DEF Left
  <2>3. sock.readBuf + Held(tls') <= arrived + 1
    <3>1. \A b, h, a \in Nat : b + h <= a => b + (h + 1) <= a + 1  OBVIOUS
    <3> HIDE DEF u
    <3> QED  BY <1>4, <2>1, <3>1, TlsFacts
  <2>4. k.recvQ <= Len(tls'.inbound)
    <3>1. \A q, l \in Nat : q <= l => q + 1 <= l + 1  OBVIOUS
    <3>2. k.recvQ = kernel.recvQ + 1 /\ Len(tls'.inbound) = Len(tls.inbound) + 1
      BY <1>6, <1>9, <1>11
    <3> QED  BY <1>4, <3>1, <3>2, TlsFacts
  <2> QED  BY <2>2, <2>3, <2>4, TlsFacts DEF Units
<1>14. Agrees(sock, k, tls')
  <2>1. sock.state # "Unconnected" /\ sock.state # "Connecting"  BY <1>8 DEF Is
  <2> QED  BY <1>1, <1>6, <1>11, <2>1, TlsFacts DEF Agrees, Is
<1>15. Fits(sock, k)  BY <1>1, <1>6, <1>8, TlsFacts DEF Fits, Is
<1>16. Members(sock, k, tls', arrived + 1, written, connections)
  BY <1>12, <1>13, <1>14, <1>15, TlsFacts DEF Members
<1>17. ASSUME NEW g \in Frames, InContext(g, sock, kernel, tls)
       PROVE  InContext(g, sock, k, tls')
  BY <1>1, <1>7, <1>11, <1>17 DEF InContext
<1>18. ASSUME NEW g, CaredFor(g, sock, kernel, tls, connections)
       PROVE  CaredFor(g, sock, k, tls', connections)
  <2>1. Timed(g, sock, tls')  BY <1>11, <1>18 DEF CaredFor, Timed
  <2>2. SendComing(g, sock, kernel) => SendComing(g, sock, k)
    BY <1>3, <1>6 DEF SendComing
  <2>3. sock.state = "Connected" => ReadComing(g, sock, k, tls')
    <3>1. k.recvQ > 0  BY <1>6, TlsFacts
    <3>2. sock.state = "Connected" => k.edge  BY <1>3, <1>6, TlsFacts DEF Fits
    <3> QED  BY <3>1, <3>2 DEF ReadComing
  <2> QED  BY <1>11, <1>18, <2>1, <2>2, <2>3 DEF CaredFor
<1>19. \A d \in BOOLEAN : Known(d, sock, tls') = Known(d, sock, tls)  BY <1>11 DEF Known
<1> QED  BY <1>1, <1>5, <1>6, <1>11, <1>16, <1>17, <1>18, <1>19, TlsFacts, CallsStay

-----------------------------------------------------------------------------
(* The theorems on the TLS socket. *)

LEMMA TlsInitInvariant == TlsInit => TlsInvariant
<1> SUFFICES ASSUME TlsInit PROVE TlsInvariant  OBVIOUS
<1>1. stack = <<>> /\ arrived = 0 /\ written = 0  BY DEF TlsInit, Init
<1>2. 0 \in 0..MaxArriving /\ 0 \in 0..MaxWritten /\ 0 \in 0..MaxAddresses
      /\ 0 \in 0..MaxConnections /\ 1 \in 0..MaxConnections
  BY BoundsAssumption
<1>3. PICK cap \in Capacities :
        \/ /\ sock = NewSocket(cap) /\ kernel = NoChannel
           /\ told = "none" /\ connections = 0
        \/ /\ sock = [NewSocket(cap) EXCEPT !.state = "Connected",
                                         !.open = TRUE, !.enabled = TRUE]
           /\ kernel = [NoChannel EXCEPT !.link = "up", !.edge = TRUE]
           /\ told = "connected" /\ connections = 1
  BY DEF TlsInit, Init
<1> DEFINE y == NewSocket(cap)
<1>4. y \in Socks  BY <1>2 DEF NewSocket, Socks, States, Both
<1>5. /\ y.state = "Unconnected" /\ y.posted = {} /\ y.readBuf = 0 /\ y.writeBuf = 0
      /\ y.capacity = cap /\ ~y.enabled /\ ~y.lookingUp /\ ~y.open /\ ~y.connectTimer
      /\ y.interest = Both /\ ~y.scheduled /\ ~y.disconnectTimer
  BY DEF NewSocket, Both
<1>6. cap \in Nat  BY CapacitiesAssumption
<1>7. /\ NoChannel \in Channels /\ NoChannel.fetched = {} /\ NoChannel.recvQ = 0
      /\ NoChannel.link = "none" /\ ~NoChannel.gone
  BY <1>4, AbortedFits DEF NoChannel
<1> HIDE DEF y
<1>8. CASE sock = y /\ kernel = NoChannel /\ told = "none" /\ connections = 0
  <2>1. PICK role \in {"client", "none"} : tls = NewTls(role)
    BY <1>5, <1>8 DEF TlsInit
  <2>2. role \in Roles  BY DEF Roles
  <2>3. tls \in TlsObjects  BY <2>1, <2>2, NewTlsTyped
  <2>4. /\ tls.inbound = <<>> /\ tls.pending = 0 /\ tls.parts = 0 /\ tls.out = 0
        /\ tls.awaited = 0 /\ ~tls.closeSent /\ ~tls.completed /\ ~tls.timer
        /\ tls.role = role
    BY <2>1 DEF NewTls
  <2>5. tls = NewTls(tls.role)
    <3>1. NewTls(role).role = role  BY DEF NewTls
    <3> QED  BY <2>1, <2>4
  <2>6. Len(tls.inbound) = 0  BY <2>4
  <2>7. Held(tls) = 0 /\ Left(tls) = 1  BY <2>4, <2>6 DEF Held, Left
  <2>8. Members(sock, kernel, tls, arrived, written, connections)
    <3>1. Fits(sock, kernel)  BY <1>5, <1>6, <1>7, <1>8 DEF Fits
    <3>2. Ordered(tls)  BY <2>4, <2>6 DEF Ordered
    <3>3. Units(sock, kernel, tls, arrived, written)
      BY <1>1, <1>5, <1>7, <1>8, <2>6, <2>7 DEF Units
    <3>4. Agrees(sock, kernel, tls)  BY <1>5, <1>7, <1>8, <2>4, <2>5 DEF Agrees, Is
    <3>5. Fresh(sock, connections)  BY <1>5, <1>8 DEF Fresh
    <3> QED  BY <3>1, <3>2, <3>3, <3>4, <3>5 DEF Members
  <2>9. told = Known(FALSE, sock, tls)  BY <1>5, <1>8 DEF Known
  <2>10. CaredFor(Idling, sock, kernel, tls, connections)  BY <1>5, <1>8, NothingOwed
  <2>11. TlsCalls(sock, kernel, tls, stack, told, connections)
    BY <1>1, <2>9, <2>10, NoCall
  <2>12. TlsTyped
    BY <1>1, <1>2, <1>4, <1>7, <1>8, <2>3, EmptySeq DEF TlsTyped, Knowledge
  <2> QED  BY <2>8, <2>11, <2>12 DEF TlsInvariant
<1>9. CASE /\ sock = [y EXCEPT !.state = "Connected", !.open = TRUE, !.enabled = TRUE]
           /\ kernel = [NoChannel EXCEPT !.link = "up", !.edge = TRUE]
           /\ told = "connected" /\ connections = 1
  <2>1. sock \in Socks  BY <1>4, <1>9 DEF Socks, States
  <2>2. /\ sock.state = "Connected" /\ sock.enabled /\ sock.open
        /\ sock.readBuf = 0 /\ sock.writeBuf = 0 /\ sock.capacity = cap
        /\ ~sock.lookingUp /\ ~sock.connectTimer /\ sock.interest = Both
        /\ ~sock.scheduled
    BY <1>4, <1>5, <1>9 DEF Socks
  <2>3. /\ kernel \in Channels /\ kernel.link = "up" /\ kernel.edge /\ kernel.recvQ = 0
        /\ kernel.fetched = {}
    BY <1>7, <1>9 DEF NoChannel, Channels
  <2>4. tls = [SetUp("server") EXCEPT !.timer = TRUE, !.wantsToRead = TRUE]
    BY <2>2 DEF TlsInit
  <2>5. /\ tls.inbound = <<>> /\ tls.pending = 0 /\ tls.parts = 0 /\ tls.out = 0
        /\ tls.awaited = 2 /\ ~tls.closeSent /\ ~tls.completed /\ tls.timer
        /\ tls.ssl
    BY <2>4 DEF SetUp, NewTls, Flights
  <2>6. tls \in TlsObjects
    <3> DEFINE t == NewTls("server")
               v == SetUp("server")
    <3>1. t \in TlsObjects  BY NewTlsTyped DEF Roles
    <3>2. v = [t EXCEPT !.ssl = TRUE, !.awaited = 2]  BY DEF SetUp, Flights
    <3>3. TRUE \in BOOLEAN /\ 2 \in 0..2  OBVIOUS
    <3>4. tls = [v EXCEPT !.timer = TRUE, !.wantsToRead = TRUE]  BY <2>4
    <3> HIDE DEF t, v
    <3>5. v \in TlsObjects  BY <3>1, <3>2, <3>3 DEF TlsObjects
    <3> QED  BY <3>3, <3>4, <3>5 DEF TlsObjects
  <2>7. Len(tls.inbound) = 0  BY <2>5
  <2>8. Held(tls) = 0 /\ Left(tls) = 3  BY <2>5, <2>7 DEF Held, Left
  <2>9. Members(sock, kernel, tls, arrived, written, connections)
    <3>1. Fits(sock, kernel)  BY <1>6, <2>2, <2>3 DEF Fits
    <3>2. Ordered(tls)  BY <2>5, <2>7 DEF Ordered
    <3>3. Units(sock, kernel, tls, arrived, written)
      BY <1>1, <2>2, <2>3, <2>7, <2>8 DEF Units
    <3>4. Agrees(sock, kernel, tls)  BY <2>2, <2>3, <2>5 DEF Agrees, Is
    <3>5. Fresh(sock, connections)  BY <1>9, <2>2 DEF Fresh
    <3> QED  BY <3>1, <3>2, <3>3, <3>4, <3>5 DEF Members
  <2>10. told = Known(FALSE, sock, tls)  BY <1>9, <2>2, <2>5 DEF Known
  <2>11. CaredFor(Idling, sock, kernel, tls, connections)
    BY <2>2, <2>5 DEF CaredFor, Timed
  <2>12. TlsCalls(sock, kernel, tls, stack, told, connections)
    BY <1>1, <2>10, <2>11, NoCall
  <2>13. TlsTyped
    BY <1>1, <1>2, <1>9, <2>1, <2>3, <2>6, EmptySeq DEF TlsTyped, Knowledge
  <2> QED  BY <2>9, <2>12, <2>13 DEF TlsInvariant
<1> QED  BY <1>3, <1>8, <1>9 DEF y

LEMMA TlsInvariantStep == TlsInvariant /\ [TlsNext]_tlsVars => TlsInvariant'
<1> SUFFICES ASSUME TlsInvariant, [TlsNext]_tlsVars PROVE TlsInvariant'  OBVIOUS
<1>1. CASE TlsUser
  BY <1>1, TlsConnectStep, TlsAbortStep, TlsDisconnectStep, TlsWriteStep, TlsReadStep,
     TlsCapacityStep DEF TlsUser
<1>2. CASE TlsSlotReturns  BY <1>2, TlsSlotReturnsStep
<1>3. CASE TlsOnEvent
  BY <1>3, TlsOnEventOutStep, TlsOnEventInStep, TlsOnEventSentStep, TlsOnEventDrainStep
     DEF TlsOnEvent
<1>4. CASE Loop /\ UNCHANGED tls
  BY <1>4, TlsEpollWaitStep, TlsProcessFetchedStep, TlsProcessPostedStep DEF Loop
<1>5. CASE \/ (OnConnectTimeout \/ OnHostFound) /\ UNCHANGED tls
           \/ OnHandshakeTimeout
           \/ TlsOnDisconnectTimeout
  BY <1>5, TlsOnConnectTimeoutStep, TlsOnHostFoundStep, OnHandshakeTimeoutStep,
     TlsOnDisconnectTimeoutStep
<1>6. CASE FragmentArrives \/ (Network /\ UNCHANGED tls)
  BY <1>6, FragmentArrivesStep, TlsNetworkStep
<1>7. CASE UNCHANGED tlsVars
  BY <1>7 DEF tlsVars, vars, TlsInvariant, TlsTyped
<1> QED  BY <1>1, <1>2, <1>3, <1>4, <1>5, <1>6, <1>7 DEF TlsNext

\* Whatever slots do while onEvent or setError runs, and whatever the peer sends, the
\* handshake, its timer, the buffers and the SSL object are those of the connection the
\* socket has, every suspended call knows whether it is still its own, and what has to
\* be sent or read has an event under way.
THEOREM TlsIsInvariant == TlsSpec => []TlsInvariant
  BY TlsInitInvariant, TlsInvariantStep, PTL DEF TlsSpec

\* onEvent never calls OpenSSL without an SSL object, a handshake is always timed, its
\* timer never outlives it, and nothing is left of a connection that has ended.
THEOREM TlsSocketIsConsistent == TlsSpec => []TlsConsistent
<1>1. TlsInvariant => TlsConsistent
  <2> SUFFICES ASSUME TlsInvariant PROVE TlsConsistent  OBVIOUS
  <2>1. tls.role \in DOMAIN Flights /\ tls.awaited \in 0..2
    BY TlsFacts DEF TlsObjects, Roles, Flights
  <2>2. tls.out \in 0..(MaxWritten + 4) /\ tls.pending \in 0..MaxArriving
    <3>1. /\ tls.out \in Nat /\ tls.awaited \in Nat /\ tls.parts \in Nat
          /\ tls.pending \in Nat /\ Len(tls.inbound) \in Nat
      BY TlsFacts, TlsNumbers
    <3>2. tls.out <= Left(tls)  BY <3>1 DEF Left
    <3>3. Left(tls) + sock.writeBuf <= written + 3  BY TlsFacts DEF Units
    <3>4. tls.out <= MaxWritten + 4
      <4>1. \A o, l, b, w, m \in Nat :
                o <= l /\ l + b <= w + 3 /\ w <= m => o <= m + 4
        OBVIOUS
      <4>2. written <= MaxWritten  BY TlsFacts
      <4> QED  BY <3>1, <3>2, <3>3, <4>1, <4>2, TlsFacts
    <3>5. tls.pending <= MaxArriving
      <4>1. \A b, p, q, l, a, m \in Nat :
                b + (p + q + l) <= a /\ a <= m => p <= m
        OBVIOUS
      <4>2. sock.readBuf + (tls.pending + tls.parts + Len(tls.inbound)) <= arrived
        BY TlsFacts DEF Units, Held
      <4>3. arrived <= MaxArriving  BY TlsFacts
      <4> QED  BY <3>1, <4>1, <4>2, <4>3, TlsFacts
    <3>6. \A n, m \in Nat : n <= m => n \in 0..m  OBVIOUS
    <3>7. MaxWritten + 4 \in Nat /\ MaxArriving \in Nat  BY BoundsAssumption
    <3> QED  BY <3>1, <3>4, <3>5, <3>6, <3>7
  <2>3. /\ sock.state \in {"Connected", "Disconnecting"} => tls.ssl
        /\ sock.state = "Unconnected" => tls = AbortedTls
        /\ tls.completed => sock.state \in {"Connected", "Disconnecting"} /\ tls.awaited = 0
        /\ sock.state = "Disconnecting" => tls.completed
        /\ tls.timer => sock.state = "Connected" /\ ~tls.completed
        /\ tls.inbound # <<>> => kernel.link = "up" /\ kernel.recvQ <= Len(tls.inbound)
    BY TlsFacts DEF Agrees, Is, Units, AbortedTls
  <2>4. sock.state = "Disconnecting" /\ sock.interest = {} =>
          sock.writeBuf = 0 /\ tls.out = 0 /\ tls.closeSent
    <3>1. {} # Both  BY DEF Both
    <3> QED  BY <3>1, TlsFacts DEF Agrees
  <2>5. ASSUME stack = <<>>
        PROVE  /\ told = CASE sock.state = "Unconnected" -> "none"
                           [] sock.state = "Connecting"  -> "connecting"
                           [] OTHER -> IF tls.completed THEN "encrypted" ELSE "connected"
               /\ sock.state = "Connected" /\ ~tls.completed => tls.timer
               /\ sock.state = "Disconnecting" => sock.disconnectTimer
    <3>1. told = Known(FALSE, sock, tls) /\ Timed(Idling, sock, tls)
      BY <2>5, TlsIdleFacts DEF CaredFor
    <3>2. Idling.at = "idle" /\ Idling.mask = {}  BY DEF Idling
    <3> QED  BY <3>1, <3>2 DEF Known, Timed, Closes
  <2> QED  BY <2>1, <2>2, <2>3, <2>4, <2>5 DEF TlsConsistent
<1> QED  BY <1>1, TlsIsInvariant, PTL

\* connected(), encrypted(), data and disconnected() come in this order for each
\* connection, and none of them for one the user does not know of.
THEOREM TlsSignalsAreExpected == TlsSpec => []TlsSignalsFit
<1>1. TlsInvariant => TlsSignalsFit
  BY DEF TlsInvariant, TlsCalls, Expected, TlsSignalsFit
<1> QED  BY <1>1, TlsIsInvariant, PTL

\* Between events, what an encrypted socket has to encrypt or to send has an event.
THEOREM TlsWritesAreScheduled == TlsSpec => []TlsWritesScheduled
<1>1. TlsInvariant => TlsWritesScheduled
  <2> SUFFICES ASSUME TlsInvariant,
                      stack = <<>>, connections <= 1,
                      sock.state \in {"Connected", "Disconnecting"},
                      (tls.completed /\ sock.writeBuf > 0) \/ tls.out > 0
               PROVE  \/ "out" \in sock.posted \cup kernel.fetched
                      \/ kernel.edge \/ kernel.space = "awaited"
    BY DEF TlsWritesScheduled
  <2>1. connections = 1
    <3>1. connections # 0  BY TlsFacts DEF Fresh
    <3> QED  BY <3>1, TlsFacts
  <2>2. SendComing(Idling, sock, kernel)
    BY <2>1, TlsIdleFacts DEF CaredFor, Is
  <2>3. Idling.at # "out"  BY DEF Idling
  <2> QED  BY <2>2, <2>3 DEF SendComing
<1> QED  BY <1>1, TlsIsInvariant, PTL

\* Between events, what was received and has room in the read buffer has an event that
\* reads it, unless it was left behind when the buffer was not full.
THEOREM TlsReadsAreScheduled == TlsSpec => []TlsReadsScheduledOrBehind
<1>1. TlsInvariant => TlsReadsScheduledOrBehind
  <2> SUFFICES ASSUME TlsInvariant, ~tls.behind,
                      stack = <<>>, sock.state = "Connected", ~Full(sock),
                      tls.inbound # <<>> \/ tls.pending > 0
               PROVE  "in" \in sock.posted \cup kernel.fetched \/ kernel.edge
    BY DEF TlsReadsScheduledOrBehind, TlsReadsScheduled
  <2>1. ReadComing(Idling, sock, kernel, tls)  BY TlsIdleFacts DEF CaredFor
  <2>2. Idling.at \notin Early  BY DEF Idling, Early
  <2> QED  BY <2>1, <2>2 DEF ReadComing
<1> QED  BY <1>1, TlsIsInvariant, PTL

=============================================================================
