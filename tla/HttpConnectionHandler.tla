------------------------ MODULE HttpConnectionHandler ------------------------
(***************************************************************************)
(* One HTTP connection: the HttpConnectionHandler, its HttpBroker, the     *)
(* framing its HttpRequestParser gives to the bytes received, its timer,   *)
(* and the user's code that answers the requests.                          *)
(*                                                                         *)
(* Everything runs in one thread and signals call their slots at once, so  *)
(* the handler is re-entered: user code that writes a response in a slot   *)
(* of receivedBodyData runs onWroteResponse, reset and a nested            *)
(* onReceivedData before it returns.  stack holds the calls that have not  *)
(* returned, the running one last: "loop" is onReceivedData's loop, the    *)
(* others are user code.  Where a suspended loop goes on is decided by the *)
(* user code it called.                                                    *)
(***************************************************************************)
EXTENDS Naturals, Sequences, SequencesExt

CONSTANTS
    MaxPieces,       \* bound: pieces of requests the client sends
    MaxBurst,        \* bound: pieces that arrive together
    TimeoutOptions   \* which of "idle" and "request" may be set as options

ASSUME MaxPiecesAssumption == MaxPieces \in Nat \ {0}
ASSUME MaxBurstAssumption == MaxBurst \in Nat \ {0}
ASSUME TimeoutsAssumption == TimeoutOptions \subseteq SUBSET {"idle", "request"}

VARIABLES
    timeouts,        \* the timeouts that are set: m_idleTimeoutInMSecs, m_requestTimeoutInMSecs
    sent,            \* pieces the client has sent
    sending,         \* where its last piece has left the client's requests
    buffer,          \* pieces in the socket's read buffer, not parsed
    partial,         \* is there an unfinished piece behind them?
    parser,          \* HttpRequestParser::m_parserState
    unskipped,       \* parsed bytes are still in the read buffer
    parsedMetadata,  \* m_parsedRequestMetadata
    receivedComplete,\* m_receivedCompleteRequest
    timer,           \* m_timer, and for which of the two timeouts it runs
    inIdle,          \* m_isInIdleTimeout
    attached,        \* the timer's and the socket's slots are connected
    chunking,        \* HttpBrokerPrivate::m_isWritingChunkedResponse
    wrote,           \* HttpBrokerPrivate::m_wroteResponse
    closeAfter,      \* HttpBrokerPrivate::m_closeAfterResponding
    closeWritten,    \* HttpBrokerPrivate::m_hasWrittenCloseConnectionHeader
    object,          \* the request whose user code set m_pObject, 0 if none
    listener,        \* the request whose user code listens to the broker, 0 if none
    sock,            \* the socket's state
    stack,           \* the calls that have not returned
    routed,          \* requests given to user code so far
    finished,        \* requests whose user code has completed a response
    wire             \* who wrote each response sent; 0 for the server itself

\* Are the IdleTimeoutInSecs and RequestTimeoutInSecs options set?
IdleTimeout == "idle" \in timeouts
RequestTimeout == "request" \in timeouts

clientVars == <<sent, sending>>
inputVars == <<buffer, partial, parser, unskipped>>
handlerVars == <<parsedMetadata, receivedComplete, timer, inIdle, attached>>
brokerVars == <<chunking, wrote, closeAfter, closeWritten, object, listener>>
historyVars == <<routed, finished, wire>>
vars == <<timeouts, clientVars, inputVars, handlerVars, brokerVars, sock, stack,
          historyVars>>

Init ==
    /\ timeouts \in TimeoutOptions
    /\ sent = 0 /\ sending = "line"
    /\ buffer = <<>> /\ partial = FALSE
    /\ parser = "line" /\ unskipped = FALSE
    /\ parsedMetadata = FALSE
    /\ receivedComplete = FALSE
    /\ timer = IF IdleTimeout THEN "idle" ELSE "off"
    /\ inIdle = IdleTimeout
    /\ attached = TRUE
    /\ chunking = FALSE /\ wrote = FALSE
    /\ closeAfter = FALSE /\ closeWritten = FALSE
    /\ object = 0 /\ listener = 0
    /\ sock = "Connected"
    /\ stack = <<>>
    /\ routed = 0 /\ finished = {} /\ wire = <<>>

-----------------------------------------------------------------------------
(***************************************************************************)
(* Framing.  A request arrives as one piece, or as a head, pieces of body  *)
(* and a last piece; a body's length is given ahead, or it is chunked.  A  *)
(* bad piece is one the parser rejects.                                    *)
(***************************************************************************)
Heads == {"request", "lengthHead", "chunkedHead"}
Pieces == Heads \cup {"data", "last", "bad"}
ParserStates == {"line", "length", "chunked"}

\* The parser's state after it has parsed piece p in state st.
Parsed(st, p) ==
    CASE st = "line" /\ p = "request"     -> "line"
      [] st = "line" /\ p = "lengthHead"  -> "length"
      [] st = "line" /\ p = "chunkedHead" -> "chunked"
      [] st \in {"length", "chunked"} /\ p = "data" -> st
      [] st \in {"length", "chunked"} /\ p = "last" -> "line"
      [] OTHER -> "failed"

\* What a client may send next in state st; after a bad piece, nothing that matters.
MaySend(st, p) ==
    IF p = "bad" THEN st \in {"line", "chunked"} ELSE Parsed(st, p) # "failed"

Bursts ==
    [from \in ParserStates \cup {"failed"} |->
        {s \in BoundedSeq(Pieces, MaxBurst) :
            \A i \in 1..Len(s) :
                MaySend(FoldLeft(Parsed, from, SubSeq(s, 1, i - 1)), s[i])}]

\* dataAvailable() > 0
DataAvailable == unskipped \/ buffer # <<>> \/ partial

Running(code) == stack # <<>> /\ Last(stack).code = code
Loop == [code |-> "loop", req |-> 0]
Caller == Front(stack)

-----------------------------------------------------------------------------
\* The state of the socket after disconnectFromPeer(): with nothing left to
\* send, it may close at once.
AfterDisconnect(canClose) ==
    IF sock = "Connected"
    THEN {"Disconnecting"} \cup (IF canClose THEN {"Closed"} ELSE {})
    ELSE {sock}

\* Mutant of StartIdle: the timer is left as it is.
LeaveTimer == UNCHANGED timer

\* The idle timeout starts, or nothing does.
StartIdle == timer' = IF IdleTimeout THEN "idle" ELSE "off"

\* Mutant of Reset: the broker is not reset.
ResetHandlerOnly ==
    /\ parsedMetadata' = FALSE
    /\ receivedComplete' = FALSE
    /\ wrote' = FALSE
    /\ UNCHANGED <<object, listener>>
    /\ IF DataAvailable THEN UNCHANGED <<timer, inIdle>>
       ELSE StartIdle /\ inIdle' = (inIdle \/ IdleTimeout)

\* reset(), when the loop goes on with the next request.
Reset ==
    /\ parsedMetadata' = FALSE
    /\ receivedComplete' = FALSE
    /\ wrote' = closeWritten
    /\ object' = 0
    /\ listener' = 0
    /\ IF DataAvailable
       THEN /\ timer' = IF RequestTimeout THEN "request" ELSE "off"
            /\ UNCHANGED inIdle
       ELSE /\ StartIdle
            /\ inIdle' = (inIdle \/ IdleTimeout)

\* Mutant of TimerInLoop: the request timeout is not started.
OnlyStopIdle(t, idle) == IF idle THEN "off" ELSE t

\* The timer when onReceivedData enters its loop.
TimerInLoop(t, idle) ==
    IF RequestTimeout /\ (idle \/ t = "off") THEN "request"
    ELSE IF idle THEN "off" ELSE t

\* onWroteResponse() for a request that is complete: reset(), which forgets an
\* idle timeout as soon as onReceivedData starts on what is in the buffer.
ResetAndReceive ==
    /\ parsedMetadata' = FALSE
    /\ receivedComplete' = FALSE
    /\ wrote' = closeWritten'
    /\ object' = 0
    /\ listener' = 0
    /\ timer' = IF RequestTimeout THEN "request" ELSE "off"
    /\ inIdle' = FALSE
    /\ stack' = Append(stack, Loop)

\* Mutant of OnWroteResponse: the rest of an incomplete request is forgotten.
ResetAlways == ResetAndReceive

OnWroteResponse ==
    IF receivedComplete
    THEN ResetAndReceive
    ELSE /\ wrote' = TRUE
         /\ UNCHANGED <<parsedMetadata, receivedComplete, timer, inIdle, object,
                        listener, stack>>

\* finishResponseWritingAndEmitWroteResponse() in user code of request r, after
\* the whole of a response, or the end of the one being written in chunks.
FinishResponse(r, whole) ==
    /\ wire' = IF whole /\ sock = "Connected" THEN Append(wire, r) ELSE wire
    /\ chunking' = FALSE
    /\ closeWritten' = (closeWritten \/ (whole /\ closeAfter))
    /\ sock' \in IF closeWritten' THEN AfterDisconnect(FALSE) ELSE {sock}
    /\ finished' = finished \cup {r}
    /\ OnWroteResponse

\* The broker ignores whatever is written after the response.
MayWrite == ~wrote

\* The server itself answers (nothing, if a response has been written; the end
\* of the response that is being written in chunks) and disconnects.
Refuse(answered) ==
    /\ wire' = IF ~answered /\ ~chunking /\ sock = "Connected" THEN Append(wire, 0) ELSE wire
    /\ chunking' = (chunking /\ answered)
    /\ closeWritten' = (closeWritten \/ (~answered /\ ~chunking /\ closeAfter))
    /\ wrote' = TRUE
    /\ attached' = FALSE
    /\ timer' = "off"
    /\ sock' \in AfterDisconnect(answered)

-----------------------------------------------------------------------------
\* Bytes arrive and the socket emits receivedData(): onReceivedData enters.
Receive ==
    /\ stack = <<>> /\ sock # "Closed" /\ attached
    /\ sent < MaxPieces
    /\ \E burst \in Bursts[sending], fragment \in BOOLEAN, to \in ParserStates \cup {"failed"} :
           /\ sent + Len(burst) <= MaxPieces
           /\ burst # <<>> \/ (fragment /\ ~partial)
           /\ to = FoldLeft(Parsed, sending, burst)
           /\ fragment => to \in {"line", "chunked"} /\ sent + Len(burst) < MaxPieces
           /\ sending' = to
           /\ sent' = sent + Len(burst)
           /\ buffer' = buffer \o burst
           /\ partial' = fragment
    /\ IF receivedComplete
       THEN timer' = "off" /\ UNCHANGED <<inIdle, stack>>
       ELSE /\ timer' = TimerInLoop(timer, inIdle)
            /\ inIdle' = FALSE
            /\ stack' = <<Loop>>
    /\ UNCHANGED <<parser, unskipped, parsedMetadata, receivedComplete, attached,
                   brokerVars, sock, historyVars>>

\* parse() returns NeedsMoreData: onReceivedData returns.
NeedsMoreData ==
    /\ Running("loop")
    /\ buffer = <<>>
    /\ unskipped' = FALSE
    /\ IF ~parsedMetadata /\ ~partial
       THEN /\ StartIdle
            /\ inIdle' = (inIdle \/ IdleTimeout)
       ELSE UNCHANGED <<timer, inIdle>>
    /\ stack' = Caller
    /\ UNCHANGED <<clientVars, buffer, partial, parser, parsedMetadata, receivedComplete,
                   attached, brokerVars, sock, historyVars>>

\* parse() fails: 400.  The parser is left at what it has rejected, or behind it.
Fail ==
    /\ Running("loop")
    /\ buffer # <<>>
    /\ Parsed(parser, Head(buffer)) = "failed"
    /\ buffer' \in {buffer, Tail(buffer)}
    /\ parser' = "line"
    /\ unskipped' = FALSE
    /\ Refuse(wrote)
    /\ stack' = Caller
    /\ UNCHANGED <<clientVars, partial, parsedMetadata, receivedComplete, inIdle,
                   closeAfter, object, listener, routed, finished>>

\* parse() accepts the next piece.
Parses(p) ==
    /\ Running("loop")
    /\ buffer # <<>>
    /\ p = Head(buffer)
    /\ Parsed(parser, p) # "failed"
    /\ parser' = Parsed(parser, p)
    /\ buffer' = Tail(buffer)

ParsesRequest(p) == Parses(p) /\ (p \in Heads \/ (p = "last" /\ parser = "chunked"))

\* It returns ParsedRequest with the metadata of a request that has a handler.
CallHandler(p) ==
    /\ ParsesRequest(p)
    /\ ~parsedMetadata
    /\ parsedMetadata' = TRUE
    /\ unskipped' = TRUE
    /\ routed' = routed + 1
    /\ stack' = Append(stack, [code |-> "handler", req |-> routed + 1])
    /\ UNCHANGED <<clientVars, partial, receivedComplete, timer, inIdle, attached,
                   brokerVars, sock, finished, wire>>

\* It returns ParsedRequest with metadata for which there is no handler: 404.
RefuseUnrouted(p) ==
    /\ ParsesRequest(p)
    /\ ~parsedMetadata
    /\ parsedMetadata' = TRUE
    /\ unskipped' = TRUE
    /\ Refuse(wrote)
    /\ stack' = Caller
    /\ UNCHANGED <<clientVars, partial, receivedComplete, inIdle, closeAfter, object,
                   listener, routed, finished>>

\* receivedBodyData is emitted, complete or not: the user code that listens runs.
Emits(complete) ==
    /\ receivedComplete' = complete
    /\ stack' = Append(stack, [code |-> "slot", req |-> listener])
    /\ UNCHANGED <<clientVars, partial, parsedMetadata, timer, inIdle, attached,
                   brokerVars, sock, historyVars>>

\* It returns ParsedRequest again, with the last chunk (and perhaps trailers).
ReceiveLastChunk(p) ==
    /\ ParsesRequest(p)
    /\ parsedMetadata
    /\ unskipped' \in BOOLEAN
    /\ Emits(TRUE)

\* It returns ParsedBody.
ReceiveBody(p) ==
    /\ Parses(p)
    /\ ~(p \in Heads \/ (p = "last" /\ parser = "chunked"))
    /\ unskipped' = TRUE
    /\ Emits(p = "last")

-----------------------------------------------------------------------------
\* Mutant of GoOn: a complete request is done with, answered or not.
GoOnAnyway(complete) ==
    IF complete
    THEN Reset /\ stack' = Caller
    ELSE /\ stack' = Caller
         /\ UNCHANGED <<parsedMetadata, wrote, object, listener, inIdle, receivedComplete, timer>>

\* Where the loop goes on after the handler or the slots it called: with the next
\* request if this one is complete and answered; nowhere if it is not answered.
GoOn(complete) ==
    IF complete /\ wrote
    THEN Reset /\ stack' = Caller
    ELSE /\ receivedComplete' = complete
         /\ timer' = IF complete THEN "off" ELSE timer
         /\ stack' = IF complete THEN Front(Caller) ELSE Caller
         /\ UNCHANGED <<parsedMetadata, wrote, object, listener, inIdle>>

\* The user's slots of receivedBodyData return.
SlotReturns ==
    /\ Running("slot")
    /\ GoOn(receivedComplete)
    /\ UNCHANGED <<clientVars, inputVars, attached, chunking, closeAfter, closeWritten,
                   sock, historyVars>>

\* The user's handler returns, having answered or left an object that will.
HandlerReturns ==
    /\ Running("handler")
    /\ wrote \/ object # 0
    /\ GoOn(parser = "line")
    /\ UNCHANGED <<clientVars, inputVars, attached, chunking, closeAfter, closeWritten,
                   sock, historyVars>>

\* It has done neither: the connection is closed.
HandlerGivesUp ==
    /\ Running("handler")
    /\ ~wrote /\ object = 0
    /\ receivedComplete' = (parser = "line")
    /\ timer' = "off"
    /\ attached' = FALSE
    /\ sock' \in AfterDisconnect(TRUE)
    /\ stack' = Front(Caller)
    /\ UNCHANGED <<clientVars, inputVars, parsedMetadata, inIdle, brokerVars, historyVars>>

\* It throws: 500.
HandlerThrows ==
    /\ Running("handler")
    /\ Refuse(wrote)
    /\ stack' = Front(Caller)
    /\ UNCHANGED <<clientVars, inputVars, parsedMetadata, receivedComplete, inIdle,
                   closeAfter, object, listener, routed, finished>>

EventReturns ==
    /\ Running("event")
    /\ stack' = Caller
    /\ UNCHANGED <<clientVars, inputVars, handlerVars, brokerVars, sock, historyVars>>

-----------------------------------------------------------------------------
\* User code of request r uses the broker.  It stops when its response is complete:
\* onWroteResponse then resets the broker, which does not know any more that there was
\* one (HttpConnectionHandler.cpp:209), and would take another.
Uses(r) ==
    /\ \E code \in {"handler", "slot", "event"} : Running(code)
    /\ r = Last(stack).req
    /\ r # 0
    /\ r \notin finished

SetQObject(r, listens) ==
    /\ Uses(r)
    /\ Running("handler") /\ object = 0
    /\ object' = r
    /\ listener' = IF listens THEN r ELSE listener
    /\ UNCHANGED <<clientVars, inputVars, handlerVars, chunking, wrote, closeAfter,
                   closeWritten, sock, stack, historyVars>>

CloseConnectionAfterResponding(r) ==
    /\ Uses(r)
    /\ ~closeAfter
    /\ closeAfter' = TRUE
    /\ UNCHANGED <<clientVars, inputVars, handlerVars, chunking, wrote, closeWritten,
                   object, listener, sock, stack, historyVars>>

\* writeResponse(); or writeLastChunk(), or a response begun while another is
\* being written in chunks, which only ends that one.
WriteResponse(r) ==
    /\ Uses(r)
    /\ MayWrite
    /\ FinishResponse(r, ~chunking)
    /\ UNCHANGED <<clientVars, inputVars, attached, closeAfter, routed>>

\* writeChunkedResponse() when no response is being written.
WriteChunkedResponse(r) ==
    /\ Uses(r)
    /\ MayWrite /\ ~chunking
    /\ chunking' = TRUE
    /\ closeWritten' = (closeWritten \/ closeAfter)
    /\ wire' = IF sock = "Connected" THEN Append(wire, r) ELSE wire
    /\ UNCHANGED <<clientVars, inputVars, handlerVars, wrote, closeAfter, object,
                   listener, sock, stack, routed, finished>>

\* The object of the current request gets an event of its own.
ObjectEvent ==
    /\ stack = <<>> /\ sock # "Closed"
    /\ object # 0
    /\ stack' = <<[code |-> "event", req |-> object]>>
    /\ UNCHANGED <<clientVars, inputVars, handlerVars, brokerVars, sock, historyVars>>

-----------------------------------------------------------------------------
\* onTimeout(): 408, even when the response was written before the request ended.
Timeout ==
    /\ stack = <<>> /\ sock # "Closed"
    /\ timer # "off" /\ attached
    /\ Refuse(wrote /\ closeWritten)
    /\ object' = IF wrote THEN 0 ELSE object
    /\ listener' = IF wrote THEN 0 ELSE listener
    /\ UNCHANGED <<clientVars, inputVars, parsedMetadata, receivedComplete, inIdle,
                   closeAfter, stack, routed, finished>>

\* finish(), called by the repository that stops.
Finish ==
    /\ stack = <<>> /\ sock = "Connected"
    /\ sock' \in AfterDisconnect(TRUE)
    /\ UNCHANGED <<clientVars, inputVars, handlerVars, brokerVars, stack, historyVars>>

\* The socket emits disconnected() or error(): onDisconnected() emits finished().
Disconnected ==
    /\ stack = <<>> /\ sock # "Closed"
    /\ sock' = "Closed"
    /\ UNCHANGED <<clientVars, inputVars, handlerVars, brokerVars, stack, historyVars>>

-----------------------------------------------------------------------------
LoopStep ==
    \/ NeedsMoreData
    \/ Fail
    \/ \E p \in Pieces : \/ CallHandler(p)
                         \/ RefuseUnrouted(p)
                         \/ ReceiveLastChunk(p)
                         \/ ReceiveBody(p)

UserReturns ==
    \/ HandlerReturns
    \/ HandlerGivesUp
    \/ HandlerThrows
    \/ SlotReturns
    \/ EventReturns

UserWrites ==
    \E r \in 1..routed : \/ \E listens \in BOOLEAN : SetQObject(r, listens)
                         \/ CloseConnectionAfterResponding(r)
                         \/ WriteResponse(r)
                         \/ WriteChunkedResponse(r)

Next ==
    /\ \/ Receive
       \/ LoopStep
       \/ UserReturns
       \/ UserWrites
       \/ ObjectEvent
       \/ Timeout
       \/ Finish
       \/ Disconnected
    /\ UNCHANGED timeouts

\* User code returns, a timer that runs times out, and so does a socket that is
\* disconnecting.
Fairness ==
    /\ WF_vars(LoopStep /\ UNCHANGED timeouts)
    /\ WF_vars(UserReturns /\ UNCHANGED timeouts)
    /\ SF_vars(Timeout /\ UNCHANGED timeouts)
    /\ SF_vars(sock = "Disconnecting" /\ Disconnected /\ UNCHANGED timeouts)

Spec == Init /\ [][Next]_vars
FairSpec == Spec /\ Fairness

-----------------------------------------------------------------------------
Frames ==
    [code : {"loop"}, req : {0}] \cup
    [code : {"handler", "slot", "event"}, req : 0..MaxPieces]

\* Every variable has the type of the member it stands for.
TypeOK ==
    /\ timeouts \in TimeoutOptions
    /\ sent \in 0..MaxPieces
    /\ sending \in ParserStates \cup {"failed"}
    /\ buffer \in Seq(Pieces)
    /\ partial \in BOOLEAN
    /\ parser \in ParserStates
    /\ unskipped \in BOOLEAN
    /\ parsedMetadata \in BOOLEAN
    /\ receivedComplete \in BOOLEAN
    /\ timer \in {"off", "idle", "request"}
    /\ inIdle \in BOOLEAN
    /\ attached \in BOOLEAN
    /\ chunking \in BOOLEAN
    /\ wrote \in BOOLEAN
    /\ closeAfter \in BOOLEAN
    /\ closeWritten \in BOOLEAN
    /\ object \in 0..MaxPieces
    /\ listener \in 0..MaxPieces
    /\ sock \in {"Connected", "Disconnecting", "Closed"}
    /\ stack \in Seq(Frames)
    /\ routed \in 0..MaxPieces
    /\ finished \subseteq 1..MaxPieces
    /\ wire \in Seq(0..MaxPieces)

\* The i-th response on the wire is the one written by the user code of the i-th
\* request; only the last response of a connection may be the server's own.
ResponsesInOrder ==
    \A i \in 1..Len(wire) : wire[i] = i \/ (wire[i] = 0 /\ i = Len(wire))

\* While the connection is open, a request is given to its handler only after
\* the response to the one before it has been written to the end.
OneRequestAtATime ==
    sock = "Connected" =>
        /\ Len(wire) >= routed - 1
        /\ chunking => Len(wire) = routed

\* The event loop finds a timer running on every open connection that waits for
\* its client, the right one, and none on one whose complete request waits for its
\* response (HttpServer does not time out after a complete request is received).
TimerFits ==
    stack = <<>> /\ sock = "Connected" /\ attached =>
        timer = IF receivedComplete THEN "off"
                ELSE IF parsedMetadata \/ DataAvailable
                THEN IF RequestTimeout THEN "request" ELSE "off"
                ELSE IF IdleTimeout THEN "idle" ELSE "off"

\* The object and the slots of a request are gone before the next one is handled:
\* none gets the body of, or can be asked to answer, a request that is not its own.
UserOfCurrentRequest == {object, listener} \subseteq {0, routed}

\* Whoever is re-entered, the broker never believes that it is writing a response
\* it has completed, and the loop never parses on beyond a request not answered.
Consistent ==
    /\ TypeOK
    /\ chunking => ~wrote
    /\ Running("loop") \/ Running("handler") => ~receivedComplete

\* With both timeouts set a connection does not linger: it closes, unless a complete
\* request waits for the object that is to answer it.
EventuallyClosed ==
    IdleTimeout /\ RequestTimeout =>
        <>[](sock = "Closed" \/ (receivedComplete /\ object # 0))
=============================================================================
