---------------------- MODULE HttpConnectionHandlerProofs ----------------------
(***************************************************************************)
(* Proofs about HttpConnectionHandler for any number of pieces, bursts of  *)
(* any size and any setting of the timeouts: responses are those of the    *)
(* requests, in their order, one request at a time, and an open connection *)
(* that waits has the timer it should have.                                *)
(* Then about the router that finds the handler of a request: for any      *)
(* routes it is that of the most specific one.                             *)
(***************************************************************************)
EXTENDS HttpConnectionHandler, HttpRequestRouter, SequenceTheorems, WellFoundedInduction, TLAPS

Slot == {"slot", "event"}

\* The calls of s: a loop calls handlers and slots, and is entered by the event loop or
\* by user code that has completed its response; only the event loop begins an event of
\* an object.
Nested(s) ==
    \A i \in 1..Len(s) :
        /\ s[i].code = "loop" => i = 1 \/ s[i - 1].code \in Slot
        /\ s[i].code \in {"handler", "slot"} => i > 1 /\ s[i - 1].code = "loop"
        /\ s[i].code = "event" => i = 1

\* User code that has called something has completed the response of its request, one
\* of those in done; the running one is that of the current request cur, or of none.
Answered(s, done, cur) ==
    /\ \A i \in 1..(Len(s) - 1) : s[i].code # "loop" => s[i].req \in done
    /\ s # <<>> /\ Last(s).code # "loop" => Last(s).req \in done \cup {0, cur}

Counted == routed + Len(buffer) <= sent /\ finished \subseteq 1..routed

\* Objects and slots are those of the current request, once it has been parsed.
UsersCurrent ==
    /\ UserOfCurrentRequest
    /\ ~parsedMetadata => object = 0 /\ listener = 0
    /\ Running("handler") => parsedMetadata

\* The responses of an open connection are those of the requests, up to the current
\* one, whose response is on the wire once it has been begun.
WireExact ==
    sock = "Connected" =>
        /\ \A i \in 1..Len(wire) : wire[i] = i
        /\ Len(wire) = IF parsedMetadata /\ ~wrote /\ ~chunking THEN routed - 1 ELSE routed
        /\ wrote \/ chunking => parsedMetadata
        /\ closeWritten => chunking
        /\ wrote \/ ~parsedMetadata => routed \in finished \cup {0}

RequestTimer == IF RequestTimeout THEN "request" ELSE "off"
IdleTimer == IF IdleTimeout THEN "idle" ELSE "off"

\* The timer of an open connection that the event loop, or an event of an object, finds,
\* and what it is while a loop or what it has called runs.
TimerExact ==
    /\ timer = "idle" => inIdle
    /\ timer = "request" => RequestTimeout
    /\ sock = "Connected" =>
        /\ attached
        /\ stack = <<>> \/ Running("event") =>
               timer = IF receivedComplete THEN "off"
                       ELSE IF parsedMetadata \/ DataAvailable THEN RequestTimer ELSE IdleTimer
        /\ Running("loop") \/ Running("handler") \/ (Running("slot") /\ ~receivedComplete) =>
               (parsedMetadata \/ partial \/ buffer # <<>> => timer = RequestTimer)

ConnectionInvariant ==
    /\ Consistent
    /\ Nested(stack) /\ Answered(stack, finished, routed)
    /\ Counted
    /\ UsersCurrent
    /\ ResponsesInOrder /\ WireExact
    /\ TimerExact

-----------------------------------------------------------------------------
(* The stack. *)

LEMMA TopOfStack ==
    ASSUME NEW s \in Seq(Frames), s # <<>>
    PROVE  /\ Front(s) \in Seq(Frames) /\ Len(Front(s)) = Len(s) - 1
           /\ \A i \in 1..(Len(s) - 1) : Front(s)[i] = s[i]
           /\ Last(s) = s[Len(s)] /\ Last(s) \in Frames
           /\ Len(s) \in Nat \ {0}
<1>1. Len(s) \in Nat \ {0} /\ s[Len(s)] \in Frames
  BY EmptySeq, ElementOfSeq, LenProperties
<1>2. \A i \in 1..(Len(s) - 1) : s[i] \in Frames  BY <1>1, ElementOfSeq
<1>3. /\ SubSeq(s, 1, Len(s) - 1) \in Seq(Frames)
      /\ Len(SubSeq(s, 1, Len(s) - 1)) = Len(s) - 1
      /\ \A i \in 1..(Len(s) - 1) : SubSeq(s, 1, Len(s) - 1)[i] = s[i]
  <2> DEFINE n == Len(s) - 1
  <2>1. n \in Nat /\ \A i \in 1..n : s[i] \in Frames  BY <1>1, <1>2
  <2> HIDE DEF n
  <2>2. /\ SubSeq(s, 1, n) \in Seq(Frames)
        /\ Len(SubSeq(s, 1, n)) = IF 1 <= n THEN n - 1 + 1 ELSE 0
        /\ \A i \in 1..(n - 1 + 1) : SubSeq(s, 1, n)[i] = s[1 + i - 1]
    BY <2>1, SubSeqProperties
  <2>3. Len(SubSeq(s, 1, n)) = n /\ \A i \in 1..n : SubSeq(s, 1, n)[i] = s[i]
    BY <2>1, <2>2
  <2> QED  BY <2>2, <2>3 DEF n
<1> QED  BY <1>1, <1>3 DEF Front, Last

\* What is left when the running call returns, and what has called it.
LEMMA Returning ==
    ASSUME NEW s \in Seq(Frames), s # <<>>, NEW done, NEW cur, Nested(s), Answered(s, done, cur)
    PROVE  /\ Nested(Front(s)) /\ Answered(Front(s), done, cur)
           /\ Last(s).code = "loop" =>
                  Front(s) = <<>> \/ Last(Front(s)).code \in Slot
           /\ Last(s).code \in {"handler", "slot"} =>
                  Front(s) # <<>> /\ Last(Front(s)).code = "loop"
           /\ Last(s).code = "event" => Front(s) = <<>>
<1> DEFINE f == Front(s)
<1>1. /\ f \in Seq(Frames) /\ Len(f) = Len(s) - 1 /\ Len(s) \in Nat \ {0}
      /\ \A i \in 1..(Len(s) - 1) : f[i] = s[i]
      /\ Last(s) = s[Len(s)]
  BY TopOfStack
<1>2. f # <<>> => Last(f) = s[Len(s) - 1] /\ Len(s) - 1 \in 1..(Len(s) - 1)
  BY <1>1, TopOfStack
<1>3. f = <<>> <=> Len(s) = 1  BY <1>1, EmptySeq
<1> HIDE DEF f
<1>4. Nested(f)  BY <1>1 DEF Nested
<1>5. Answered(f, done, cur)
  BY <1>1, <1>2, <1>3 DEF Answered
<1>6. /\ Last(s).code = "loop" => f = <<>> \/ Last(f).code \in Slot
      /\ Last(s).code \in {"handler", "slot"} => f # <<>> /\ Last(f).code = "loop"
      /\ Last(s).code = "event" => f = <<>>
  BY <1>1, <1>2, <1>3 DEF Nested
<1> USE DEF f
<1> QED  BY <1>4, <1>5, <1>6

\* A handler, a slot or an event begins, and a loop does.
LEMMA Calling ==
    ASSUME NEW s \in Seq(Frames), NEW done, NEW cur, NEW now, Nested(s), Answered(s, done, cur),
           NEW f \in Frames, f.code # "loop", f.req \in done \cup {0, now},
           IF f.code = "event" THEN s = <<>> ELSE s # <<>> /\ Last(s).code = "loop"
    PROVE  /\ Append(s, f) \in Seq(Frames) /\ Append(s, f) # <<>> /\ Last(Append(s, f)) = f
           /\ Nested(Append(s, f)) /\ Answered(Append(s, f), done, now)
<1> DEFINE a == Append(s, f)
<1>1. /\ a \in Seq(Frames) /\ a # <<>> /\ Len(a) = Len(s) + 1 /\ a[Len(s) + 1] = f
      /\ \A i \in 1..Len(s) : a[i] = s[i]
      /\ Len(s) \in Nat
  BY AppendProperties, LenProperties
<1>2. Last(a) = f  BY <1>1 DEF Last
<1>3. s # <<>> => Last(s) = s[Len(s)] /\ Len(s) # 0  BY TopOfStack
<1>4. s = <<>> => Len(s) = 0  OBVIOUS
<1> HIDE DEF a
<1>5. f.code \in {"handler", "slot", "event"}  BY DEF Frames
<1>6. Nested(a)
  BY <1>1, <1>3, <1>4, <1>5 DEF Nested
<1>7. Answered(a, done, now)
  BY <1>1, <1>2, <1>3, <1>4 DEF Answered
<1> USE DEF a
<1> QED  BY <1>1, <1>2, <1>6, <1>7

LEMMA Entering ==
    ASSUME NEW s \in Seq(Frames), NEW done, NEW cur, Nested(s), Answered(s, done, cur),
           s = <<>> \/ (Last(s).code \in Slot /\ Last(s).req \in done)
    PROVE  /\ Append(s, Loop) \in Seq(Frames) /\ Append(s, Loop) # <<>>
           /\ Last(Append(s, Loop)) = Loop
           /\ Nested(Append(s, Loop)) /\ Answered(Append(s, Loop), done, cur)
<1> DEFINE a == Append(s, Loop)
<1>0. Loop \in Frames /\ Loop.code = "loop"  BY DEF Loop, Frames
<1>1. /\ a \in Seq(Frames) /\ a # <<>> /\ Len(a) = Len(s) + 1 /\ a[Len(s) + 1] = Loop
      /\ \A i \in 1..Len(s) : a[i] = s[i]
      /\ Len(s) \in Nat
  BY <1>0, AppendProperties, LenProperties
<1>2. Last(a) = Loop  BY <1>1 DEF Last
<1>3. s # <<>> => Last(s) = s[Len(s)] /\ Len(s) # 0  BY TopOfStack
<1>4. s = <<>> => Len(s) = 0  OBVIOUS
<1> HIDE DEF a
<1>5. Nested(a)
  BY <1>0, <1>1, <1>3, <1>4 DEF Nested
<1>6. Answered(a, done, cur)
  BY <1>0, <1>1, <1>2, <1>3, <1>4 DEF Answered, Slot
<1> USE DEF a
<1> QED  BY <1>1, <1>2, <1>5, <1>6

LEMMA AnsweredMore ==
    ASSUME NEW s, NEW done, NEW more, NEW cur, done \subseteq more, Answered(s, done, cur)
    PROVE  Answered(s, more, cur)
  BY DEF Answered

-----------------------------------------------------------------------------
(* The invariant's parts that the steps of all actions rest on, in one place. *)

LEMMA InvariantFacts ==
    ASSUME ConnectionInvariant
    PROVE  /\ TypeOK /\ Counted /\ Nested(stack) /\ Answered(stack, finished, routed)
           /\ chunking => ~wrote
           /\ Running("loop") \/ Running("handler") => ~receivedComplete
           /\ stack \in Seq(Frames)
  BY DEF ConnectionInvariant, Consistent, TypeOK

\* The caller of a loop is user code, or nobody; that of a handler or slot is a loop.
LEMMA Callers ==
    ASSUME ConnectionInvariant, stack # <<>>
    PROVE  /\ Caller \in Seq(Frames) /\ Last(stack) \in Frames
           /\ Nested(Caller) /\ Answered(Caller, finished, routed)
           /\ Running("loop") => Caller = <<>> \/ Last(Caller).code \in Slot
           /\ Running("handler") \/ Running("slot") =>
                  /\ Caller # <<>> /\ Last(Caller).code = "loop"
                  /\ Front(Caller) \in Seq(Frames)
                  /\ Nested(Front(Caller)) /\ Answered(Front(Caller), finished, routed)
                  /\ Front(Caller) = <<>> \/ Last(Front(Caller)).code \in Slot
           /\ Running("event") => Caller = <<>>
<1>1. /\ stack \in Seq(Frames) /\ Nested(stack) /\ Answered(stack, finished, routed)
  BY InvariantFacts
<1>2. Caller \in Seq(Frames) /\ Last(stack) \in Frames  BY <1>1, TopOfStack DEF Caller
<1>3. /\ Nested(Caller) /\ Answered(Caller, finished, routed)
      /\ Running("loop") => Caller = <<>> \/ Last(Caller).code \in Slot
      /\ Running("handler") \/ Running("slot") => Caller # <<>> /\ Last(Caller).code = "loop"
      /\ Running("event") => Caller = <<>>
  BY <1>1, Returning DEF Caller, Running
<1>4. ASSUME Running("handler") \/ Running("slot")
      PROVE  /\ Front(Caller) \in Seq(Frames)
             /\ Nested(Front(Caller)) /\ Answered(Front(Caller), finished, routed)
             /\ Front(Caller) = <<>> \/ Last(Front(Caller)).code \in Slot
  <2>1. Caller # <<>> /\ Last(Caller).code = "loop"  BY <1>3, <1>4
  <2>2. Front(Caller) \in Seq(Frames)  BY <1>2, <2>1, TopOfStack
  <2>3. /\ Nested(Front(Caller)) /\ Answered(Front(Caller), finished, routed)
        /\ Front(Caller) = <<>> \/ Last(Front(Caller)).code \in Slot
    BY <1>2, <1>3, <2>1, Returning
  <2> QED  BY <2>2, <2>3
<1> QED  BY <1>2, <1>3, <1>4

\* Whoever refuses a request ends the connection.
LEMMA Refusing ==
    ASSUME ConnectionInvariant, NEW answered \in BOOLEAN, Refuse(answered)
    PROVE  /\ sock' # "Connected"
           /\ wire' \in Seq(0..MaxPieces) /\ chunking' \in BOOLEAN /\ closeWritten' \in BOOLEAN
           /\ wrote' = TRUE /\ attached' = FALSE /\ timer' = "off"
           /\ sock' \in {"Connected", "Disconnecting", "Closed"}
<1>1. TypeOK /\ 0 \in 0..MaxPieces
  BY InvariantFacts, MaxPiecesAssumption
<1>2. wire' \in Seq(0..MaxPieces)
  <2>1. wire \in Seq(0..MaxPieces)  BY <1>1 DEF TypeOK
  <2>2. Append(wire, 0) \in Seq(0..MaxPieces)  BY <1>1, <2>1, AppendProperties
  <2> QED  BY <2>1, <2>2 DEF Refuse
<1>3. sock' # "Connected" /\ sock' \in {"Connected", "Disconnecting", "Closed"}
  BY <1>1 DEF Refuse, AfterDisconnect, TypeOK
<1> QED  BY <1>1, <1>2, <1>3 DEF Refuse, TypeOK

\* Who writes is the current request, which has been parsed, is not answered, and
\* whose user code was called by a loop or an event.
LEMMA Writers ==
    ASSUME ConnectionInvariant, NEW r \in 1..routed, Uses(r)
    PROVE  /\ r = routed /\ r = Last(stack).req /\ r \notin finished /\ routed # 0
           /\ stack # <<>> /\ Last(stack).code \in {"handler", "slot", "event"}
           /\ receivedComplete => Last(stack).code \in Slot
<1>1. /\ r = Last(stack).req /\ r \notin finished /\ r # 0
      /\ stack # <<>> /\ Last(stack).code \in {"handler", "slot", "event"}
  BY DEF Uses, Running
<1>2. r = routed  BY <1>1, InvariantFacts DEF Answered
<1>3. receivedComplete => Last(stack).code # "handler"
  BY <1>1, InvariantFacts DEF Running
<1> QED  BY <1>1, <1>2, <1>3 DEF Slot

-----------------------------------------------------------------------------
(* The type of the variables. *)

LEMMA GoOnType ==
    ASSUME TypeOK, NEW complete \in BOOLEAN, GoOn(complete)
    PROVE  /\ parsedMetadata' \in BOOLEAN /\ receivedComplete' \in BOOLEAN /\ wrote' \in BOOLEAN
           /\ object' \in 0..MaxPieces /\ listener' \in 0..MaxPieces
           /\ timer' \in {"off", "idle", "request"} /\ inIdle' \in BOOLEAN
           /\ stack' \in {Caller, Front(Caller)}
<1>0. 0 \in 0..MaxPieces  BY MaxPiecesAssumption
<1>1. CASE complete /\ wrote
  <2>1. Reset /\ stack' = Caller  BY <1>1 DEF GoOn
  <2> QED  BY <1>0, <2>1 DEF TypeOK, Reset, StartIdle, IdleTimeout
<1>2. CASE ~(complete /\ wrote)
  BY <1>2 DEF GoOn, TypeOK
<1> QED  BY <1>1, <1>2

LEMMA WriteType ==
    ASSUME ConnectionInvariant, NEW r \in 1..routed, WriteResponse(r)
    PROVE  /\ wire' \in Seq(0..MaxPieces) /\ chunking' = FALSE /\ closeWritten' \in BOOLEAN
           /\ sock' \in {"Connected", "Disconnecting", "Closed"}
           /\ finished' = finished \cup {r}
           /\ parsedMetadata' \in BOOLEAN /\ receivedComplete' \in BOOLEAN /\ wrote' \in BOOLEAN
           /\ object' \in 0..MaxPieces /\ listener' \in 0..MaxPieces
           /\ timer' \in {"off", "idle", "request"} /\ inIdle' \in BOOLEAN
           /\ stack' \in {stack, Append(stack, Loop)}
<1>1. TypeOK /\ 0 \in 0..MaxPieces /\ r \in 0..MaxPieces
  BY InvariantFacts, MaxPiecesAssumption DEF TypeOK
<1>2. FinishResponse(r, ~chunking)  BY DEF WriteResponse
<1>3. wire' \in Seq(0..MaxPieces)
  <2>1. wire \in Seq(0..MaxPieces)  BY <1>1 DEF TypeOK
  <2>2. Append(wire, r) \in Seq(0..MaxPieces)  BY <1>1, <2>1, AppendProperties
  <2> QED  BY <1>2, <2>1, <2>2 DEF FinishResponse
<1>4. /\ chunking' = FALSE /\ closeWritten' \in BOOLEAN /\ finished' = finished \cup {r}
      /\ sock' \in {"Connected", "Disconnecting", "Closed"}
  BY <1>1, <1>2 DEF FinishResponse, AfterDisconnect, TypeOK
<1>5. CASE receivedComplete
  <2>1. ResetAndReceive  BY <1>2, <1>5 DEF FinishResponse, OnWroteResponse
  <2> QED  BY <1>1, <1>3, <1>4, <2>1 DEF ResetAndReceive
<1>6. CASE ~receivedComplete
  BY <1>1, <1>2, <1>3, <1>4, <1>6 DEF FinishResponse, OnWroteResponse, TypeOK
<1> QED  BY <1>5, <1>6

\* What a loop takes out of the buffer, and that a request more is still within what
\* was sent.
LEMMA Taking ==
    ASSUME ConnectionInvariant, NEW p, Parses(p)
    PROVE  /\ buffer' \in Seq(Pieces) /\ parser' \in ParserStates /\ p \in Pieces
           /\ Len(buffer') = Len(buffer) - 1 /\ Len(buffer) \in Nat \ {0}
           /\ routed + 1 \in 0..MaxPieces /\ stack # <<>> /\ Running("loop")
<1>1. TypeOK /\ Counted  BY InvariantFacts
<1>2. /\ buffer \in Seq(Pieces) /\ buffer # <<>> /\ p = Head(buffer) /\ buffer' = Tail(buffer)
      /\ Parsed(parser, p) # "failed" /\ parser' = Parsed(parser, p) /\ Running("loop")
  BY <1>1 DEF Parses, TypeOK
<1>3. /\ Tail(buffer) \in Seq(Pieces) /\ Len(Tail(buffer)) = Len(buffer) - 1
      /\ p \in Pieces /\ Len(buffer) \in Nat \ {0}
  BY <1>2, HeadTailProperties, EmptySeq, LenProperties
<1>4. parser' \in ParserStates
  BY <1>1, <1>2 DEF Parsed, ParserStates, TypeOK
<1>5. routed + 1 \in 0..MaxPieces
  BY <1>1, <1>3, MaxPiecesAssumption DEF TypeOK, Counted
<1> QED  BY <1>2, <1>3, <1>4, <1>5 DEF Running

LEMMA ReceiveType ==
    ASSUME ConnectionInvariant, Receive, timeouts' = timeouts
    PROVE  TypeOK' /\ Counted'
<1>1. TypeOK /\ Counted /\ stack = <<>>  BY InvariantFacts DEF Receive
<1>2. PICK burst \in Bursts[sending], fragment \in BOOLEAN, to \in ParserStates \cup {"failed"} :
        /\ sent + Len(burst) <= MaxPieces
        /\ sending' = to /\ sent' = sent + Len(burst)
        /\ buffer' = buffer \o burst /\ partial' = fragment
  BY DEF Receive
<1>3. burst \in Seq(Pieces)
  <2>1. sending \in ParserStates \cup {"failed"}  BY <1>1 DEF TypeOK
  <2>2. burst \in BoundedSeq(Pieces, MaxBurst)  BY <2>1 DEF Bursts
  <2>3. PICK n \in 0..MaxBurst : burst \in [1..n -> Pieces]
    BY <2>2 DEF BoundedSeq, SeqOf
  <2>4. n \in Nat  BY MaxBurstAssumption
  <2> QED  BY <2>3, <2>4, IsASeq
<1>4. /\ buffer' \in Seq(Pieces) /\ Len(buffer') = Len(buffer) + Len(burst)
      /\ Len(burst) \in Nat /\ Len(buffer) \in Nat
  BY <1>1, <1>2, <1>3, ConcatProperties, LenProperties DEF TypeOK
<1>5. sent' \in 0..MaxPieces /\ partial' \in BOOLEAN /\ sending' \in ParserStates \cup {"failed"}
  BY <1>1, <1>2, <1>4, MaxPiecesAssumption DEF TypeOK
<1>6. /\ timer' \in {"off", "idle", "request"} /\ inIdle' \in BOOLEAN
      /\ stack' \in {<<>>, <<Loop>>}
  <2>1. CASE receivedComplete  BY <1>1, <2>1 DEF Receive, TypeOK
  <2>2. CASE ~receivedComplete
    <3>1. timer' = TimerInLoop(timer, inIdle) /\ inIdle' = FALSE /\ stack' = <<Loop>>
      BY <2>2 DEF Receive
    <3> QED  BY <1>1, <3>1 DEF TimerInLoop, TypeOK
  <2> QED  BY <2>1, <2>2
<1>7. stack' \in Seq(Frames)
  <2>1. Loop \in Frames  BY DEF Loop, Frames
  <2>2. <<Loop>> \in Seq(Frames) /\ <<>> \in Seq(Frames)  BY <2>1
  <2> QED  BY <1>6, <2>2
<1>8. UNCHANGED <<timeouts, parser, unskipped, parsedMetadata, receivedComplete, attached,
                  brokerVars, sock, historyVars>>
  BY DEF Receive
<1>9. TypeOK'
  BY <1>1, <1>4, <1>5, <1>6, <1>7, <1>8 DEF TypeOK, brokerVars, historyVars
<1>10. Counted'
  BY <1>1, <1>2, <1>4, <1>8 DEF Counted, TypeOK, historyVars
<1> QED  BY <1>9, <1>10

LEMMA TypeStep == ConnectionInvariant /\ [Next]_vars => TypeOK' /\ Counted'
<1> SUFFICES ASSUME ConnectionInvariant, [Next]_vars PROVE TypeOK' /\ Counted'  OBVIOUS
<1>0. /\ TypeOK /\ Counted /\ stack \in Seq(Frames)
      /\ 0 \in 0..MaxPieces /\ MaxPieces \in Nat
      /\ chunking => ~wrote
  BY InvariantFacts, MaxPiecesAssumption
<1>1. CASE UNCHANGED vars
  BY <1>0, <1>1
     DEF vars, clientVars, inputVars, handlerVars, brokerVars, historyVars, TypeOK, Counted
<1> SUFFICES ASSUME Next PROVE TypeOK' /\ Counted'  BY <1>1
<1>t. timeouts' = timeouts  BY DEF Next
<1> USE DEF clientVars, inputVars, handlerVars, brokerVars, historyVars
<1>2. CASE Receive  BY <1>2, <1>t, ReceiveType
<1>3. CASE NeedsMoreData
  <2>1. Caller \in Seq(Frames)  BY <1>3, Callers DEF NeedsMoreData, Running
  <2>2. timer' \in {"off", "idle", "request"} /\ inIdle' \in BOOLEAN
    BY <1>0, <1>3 DEF NeedsMoreData, StartIdle, TypeOK, IdleTimeout
  <2> QED  BY <1>0, <1>3, <1>t, <2>1, <2>2 DEF NeedsMoreData, TypeOK, Counted
<1>4. CASE Fail
  <2>1. Caller \in Seq(Frames)  BY <1>4, Callers DEF Fail, Running
  <2>2. Tail(buffer) \in Seq(Pieces) /\ Len(Tail(buffer)) = Len(buffer) - 1 /\ Len(buffer) \in Nat
    BY <1>0, <1>4, HeadTailProperties, LenProperties DEF Fail, TypeOK
  <2>3. buffer' \in Seq(Pieces) /\ Len(buffer') <= Len(buffer) /\ Len(buffer') \in Nat
    <3>1. buffer \in Seq(Pieces) /\ Len(buffer) \in Nat /\ Len(Tail(buffer)) \in Nat
      BY <1>0, <2>2, LenProperties DEF TypeOK
    <3>2. buffer' = buffer \/ buffer' = Tail(buffer)  BY <1>4 DEF Fail
    <3> QED  BY <2>2, <3>1, <3>2
  <2>4. Refuse(wrote) /\ wrote \in BOOLEAN  BY <1>0, <1>4 DEF Fail, TypeOK
  <2>5. /\ wire' \in Seq(0..MaxPieces) /\ chunking' \in BOOLEAN /\ closeWritten' \in BOOLEAN
        /\ wrote' = TRUE /\ attached' = FALSE /\ timer' = "off"
        /\ sock' \in {"Connected", "Disconnecting", "Closed"}
    BY <2>4, Refusing
  <2>6. parser' = "line"  BY <1>4 DEF Fail
  <2>7. TypeOK'
    BY <1>0, <1>4, <1>t, <2>1, <2>3, <2>5, <2>6 DEF Fail, TypeOK, ParserStates
  <2>8. Counted'
    <3>1. UNCHANGED <<routed, finished, sent>> /\ routed \in Nat /\ sent \in Nat
      BY <1>0, <1>4 DEF Fail, TypeOK
    <3> QED  BY <1>0, <2>2, <2>3, <3>1 DEF Counted
  <2> QED  BY <2>7, <2>8
<1>5. ASSUME NEW p \in Pieces, CallHandler(p) PROVE TypeOK' /\ Counted'
  <2>1. Parses(p)  BY <1>5 DEF CallHandler, ParsesRequest
  <2>2. stack' \in Seq(Frames)
    <3>1. [code |-> "handler", req |-> routed + 1] \in Frames  BY <2>1, Taking DEF Frames
    <3> QED  BY <1>0, <1>5, <3>1, AppendProperties DEF CallHandler
  <2>3. TypeOK'  BY <1>0, <1>5, <1>t, <2>1, <2>2, Taking DEF CallHandler, TypeOK
  <2>4. finished' \subseteq 1..routed'  BY <1>0, <1>5 DEF CallHandler, Counted, TypeOK
  <2>5. routed' + Len(buffer') <= sent'
    BY <1>0, <1>5, <2>1, Taking DEF CallHandler, Counted, TypeOK
  <2> QED  BY <2>3, <2>4, <2>5 DEF Counted
<1>6. ASSUME NEW p \in Pieces, RefuseUnrouted(p) PROVE TypeOK' /\ Counted'
  <2>1. Parses(p)  BY <1>6 DEF RefuseUnrouted, ParsesRequest
  <2>2. Caller \in Seq(Frames)  BY <2>1, Taking, Callers
  <2>3. Refuse(wrote) /\ wrote \in BOOLEAN  BY <1>0, <1>6 DEF RefuseUnrouted, TypeOK
  <2>4. /\ wire' \in Seq(0..MaxPieces) /\ chunking' \in BOOLEAN /\ closeWritten' \in BOOLEAN
        /\ wrote' = TRUE /\ attached' = FALSE /\ timer' = "off"
        /\ sock' \in {"Connected", "Disconnecting", "Closed"}
    BY <2>3, Refusing
  <2>5. TypeOK'  BY <1>0, <1>6, <1>t, <2>1, <2>2, <2>4, Taking DEF RefuseUnrouted, TypeOK
  <2>6. Counted'  BY <1>0, <1>6, <2>1, Taking DEF RefuseUnrouted, Counted, TypeOK
  <2> QED  BY <2>5, <2>6
<1>7. ASSUME NEW p \in Pieces, NEW complete \in BOOLEAN, Parses(p), Emits(complete),
             unskipped' \in BOOLEAN
      PROVE  TypeOK' /\ Counted'
  <2>1. stack' \in Seq(Frames)
    <3>1. [code |-> "slot", req |-> listener] \in Frames  BY <1>0 DEF Frames, TypeOK
    <3> QED  BY <1>0, <1>7, <3>1, AppendProperties DEF Emits
  <2>2. TypeOK'  BY <1>0, <1>7, <1>t, <2>1, Taking DEF Emits, TypeOK
  <2>3. Counted'  BY <1>0, <1>7, Taking DEF Emits, Counted, TypeOK
  <2> QED  BY <2>2, <2>3
<1>8. ASSUME NEW p \in Pieces, ReceiveLastChunk(p) \/ ReceiveBody(p) PROVE TypeOK' /\ Counted'
  BY <1>7, <1>8 DEF ReceiveLastChunk, ReceiveBody, ParsesRequest
<1>9. CASE SlotReturns \/ HandlerReturns
  <2>1. PICK complete \in BOOLEAN : GoOn(complete)
    BY <1>0, <1>9 DEF SlotReturns, HandlerReturns, TypeOK
  <2>2. stack' \in Seq(Frames)
    BY <1>0, <1>9, <2>1, GoOnType, Callers DEF SlotReturns, HandlerReturns, Running
  <2> QED
    BY <1>0, <1>9, <1>t, <2>1, <2>2, GoOnType DEF SlotReturns, HandlerReturns, TypeOK, Counted
<1>10. CASE HandlerGivesUp
  <2>1. Front(Caller) \in Seq(Frames)  BY <1>10, Callers DEF HandlerGivesUp, Running
  <2>2. sock' \in {"Connected", "Disconnecting", "Closed"}
    BY <1>0, <1>10 DEF HandlerGivesUp, AfterDisconnect, TypeOK
  <2> QED  BY <1>0, <1>10, <1>t, <2>1, <2>2 DEF HandlerGivesUp, TypeOK, Counted
<1>11. CASE HandlerThrows
  <2>1. Front(Caller) \in Seq(Frames)  BY <1>11, Callers DEF HandlerThrows, Running
  <2>2. Refuse(wrote) /\ wrote \in BOOLEAN  BY <1>0, <1>11 DEF HandlerThrows, TypeOK
  <2>3. /\ wire' \in Seq(0..MaxPieces) /\ chunking' \in BOOLEAN /\ closeWritten' \in BOOLEAN
        /\ wrote' = TRUE /\ attached' = FALSE /\ timer' = "off"
        /\ sock' \in {"Connected", "Disconnecting", "Closed"}
    BY <2>2, Refusing
  <2> QED  BY <1>0, <1>11, <1>t, <2>1, <2>3 DEF HandlerThrows, TypeOK, Counted
<1>12. CASE EventReturns
  <2>1. Caller \in Seq(Frames)  BY <1>12, Callers DEF EventReturns, Running
  <2> QED  BY <1>0, <1>12, <1>t, <2>1 DEF EventReturns, TypeOK, Counted
<1>13. ASSUME NEW r \in 1..routed, NEW listens \in BOOLEAN, SetQObject(r, listens)
       PROVE  TypeOK' /\ Counted'
  BY <1>0, <1>13, <1>t DEF SetQObject, TypeOK, Counted
<1>14. ASSUME NEW r \in 1..routed, CloseConnectionAfterResponding(r) PROVE TypeOK' /\ Counted'
  BY <1>0, <1>14, <1>t DEF CloseConnectionAfterResponding, TypeOK, Counted
<1>15. ASSUME NEW r \in 1..routed, WriteResponse(r) PROVE TypeOK' /\ Counted'
  <2>1. stack' \in Seq(Frames)
    <3>1. Loop \in Frames  BY DEF Loop, Frames
    <3>2. Append(stack, Loop) \in Seq(Frames)  BY <1>0, <3>1, AppendProperties
    <3>3. stack' \in {stack, Append(stack, Loop)}  BY <1>15, WriteType
    <3> QED  BY <1>0, <3>2, <3>3
  <2>2. /\ wire' \in Seq(0..MaxPieces) /\ chunking' = FALSE /\ closeWritten' \in BOOLEAN
        /\ sock' \in {"Connected", "Disconnecting", "Closed"}
        /\ finished' = finished \cup {r}
        /\ parsedMetadata' \in BOOLEAN /\ receivedComplete' \in BOOLEAN /\ wrote' \in BOOLEAN
        /\ object' \in 0..MaxPieces /\ listener' \in 0..MaxPieces
        /\ timer' \in {"off", "idle", "request"} /\ inIdle' \in BOOLEAN
    BY <1>15, WriteType
  <2>3. UNCHANGED <<timeouts, sent, sending, buffer, partial, parser, unskipped, attached,
                    closeAfter, routed>>
    BY <1>15, <1>t DEF WriteResponse
  <2>4. finished' \subseteq 1..routed' /\ finished' \subseteq 1..MaxPieces
    BY <1>0, <2>2, <2>3 DEF Counted, TypeOK
  <2> QED  BY <1>0, <2>1, <2>2, <2>3, <2>4 DEF TypeOK, Counted
<1>16. ASSUME NEW r \in 1..routed, WriteChunkedResponse(r) PROVE TypeOK' /\ Counted'
  <2>1. wire' \in Seq(0..MaxPieces)
    <3>1. wire \in Seq(0..MaxPieces) /\ r \in 0..MaxPieces  BY <1>0, MaxPiecesAssumption DEF TypeOK
    <3>2. Append(wire, r) \in Seq(0..MaxPieces)  BY <3>1, AppendProperties
    <3> QED  BY <1>16, <3>1, <3>2 DEF WriteChunkedResponse
  <2> QED  BY <1>0, <1>16, <1>t, <2>1 DEF WriteChunkedResponse, TypeOK, Counted
<1>17. CASE ObjectEvent
  <2>1. stack' \in Seq(Frames)
    <3>1. [code |-> "event", req |-> object] \in Frames  BY <1>0 DEF Frames, TypeOK
    <3> QED  BY <1>17, <3>1 DEF ObjectEvent
  <2> QED  BY <1>0, <1>17, <1>t, <2>1 DEF ObjectEvent, TypeOK, Counted
<1>18. CASE Timeout
  <2>1. Refuse(wrote /\ closeWritten) /\ (wrote /\ closeWritten) \in BOOLEAN
    BY <1>0, <1>18 DEF Timeout, TypeOK
  <2>2. /\ wire' \in Seq(0..MaxPieces) /\ chunking' \in BOOLEAN /\ closeWritten' \in BOOLEAN
        /\ wrote' = TRUE /\ attached' = FALSE /\ timer' = "off"
        /\ sock' \in {"Connected", "Disconnecting", "Closed"}
    BY <2>1, Refusing
  <2> QED  BY <1>0, <1>18, <1>t, <2>2 DEF Timeout, TypeOK, Counted
<1>19. CASE Finish \/ Disconnected
  <2>1. sock' \in {"Connected", "Disconnecting", "Closed"}
    BY <1>0, <1>19 DEF Finish, Disconnected, AfterDisconnect, TypeOK
  <2>2. UNCHANGED <<clientVars, inputVars, handlerVars, brokerVars, stack, historyVars>>
    BY <1>19 DEF Finish, Disconnected
  <2> QED  BY <1>0, <1>t, <2>1, <2>2 DEF TypeOK, Counted
<1> QED
  BY <1>2, <1>3, <1>4, <1>5, <1>6, <1>8, <1>9, <1>10, <1>11, <1>12, <1>13, <1>14, <1>15, <1>16,
     <1>17, <1>18, <1>19 DEF Next, LoopStep, UserReturns, UserWrites

-----------------------------------------------------------------------------
(* The calls, and the flags their code goes by. *)

LEMMA StackStep ==
    ConnectionInvariant /\ [Next]_vars => Nested(stack') /\ Answered(stack', finished', routed')
<1> SUFFICES ASSUME ConnectionInvariant, [Next]_vars
             PROVE  Nested(stack') /\ Answered(stack', finished', routed')
  OBVIOUS
<1>0. /\ TypeOK /\ stack \in Seq(Frames) /\ Nested(stack) /\ Answered(stack, finished, routed)
  BY InvariantFacts
<1>1. CASE UNCHANGED <<stack, finished, routed>>  BY <1>0, <1>1
<1>2. CASE stack' \in {Caller, Front(Caller)} /\ (Running("handler") \/ Running("slot"))
           /\ UNCHANGED <<finished, routed>>
  BY <1>2, Callers DEF Running
<1>3. CASE stack' = Caller /\ stack # <<>> /\ UNCHANGED <<finished, routed>>
  BY <1>3, Callers
<1>4. CASE Receive
  <2>1. CASE receivedComplete  BY <1>1, <1>4, <2>1 DEF Receive, historyVars
  <2>2. CASE ~receivedComplete
    <3>1. stack = <<>> /\ stack' = Append(<<>>, Loop) /\ UNCHANGED <<finished, routed>>
      BY <1>4, <2>2 DEF Receive, historyVars
    <3> QED  BY <1>0, <3>1, Entering
  <2> QED  BY <2>1, <2>2
<1>5. ASSUME NEW p \in Pieces, CallHandler(p)
      PROVE  Nested(stack') /\ Answered(stack', finished', routed')
  <2> DEFINE f == [code |-> "handler", req |-> routed + 1]
  <2>1. Parses(p) /\ stack' = Append(stack, f) /\ routed' = routed + 1 /\ finished' = finished
    BY <1>5 DEF CallHandler, ParsesRequest
  <2>2. f \in Frames /\ f.code = "handler" /\ f.req = routed'
    BY <2>1, Taking DEF Frames
  <2>3. stack # <<>> /\ Last(stack).code = "loop"  BY <2>1, Taking DEF Running
  <2> HIDE DEF f
  <2> QED  BY <1>0, <2>1, <2>2, <2>3, Calling
<1>6. ASSUME NEW p \in Pieces, NEW complete \in BOOLEAN, Parses(p), Emits(complete)
      PROVE  Nested(stack') /\ Answered(stack', finished', routed')
  <2> DEFINE f == [code |-> "slot", req |-> listener]
  <2>1. stack' = Append(stack, f) /\ UNCHANGED <<finished, routed>>
    BY <1>6 DEF Emits, historyVars
  <2>2. f \in Frames /\ f.code = "slot" /\ f.req \in {0, routed}
    BY <1>0 DEF Frames, TypeOK, ConnectionInvariant, UsersCurrent, UserOfCurrentRequest
  <2>3. stack # <<>> /\ Last(stack).code = "loop"  BY <1>6, Taking DEF Running
  <2> HIDE DEF f
  <2> QED  BY <1>0, <2>1, <2>2, <2>3, Calling
<1>7. ASSUME NEW r \in 1..routed, WriteResponse(r)
      PROVE  Nested(stack') /\ Answered(stack', finished', routed')
  <2>1. /\ r = Last(stack).req /\ r = routed /\ stack # <<>>
        /\ receivedComplete => Last(stack).code \in Slot
    BY <1>7, Writers DEF WriteResponse
  <2>2. finished' = finished \cup {r} /\ routed' = routed
    BY <1>7, WriteType DEF WriteResponse
  <2>3. Answered(stack, finished', routed)  BY <1>0, <2>2, AnsweredMore
  <2>4. CASE receivedComplete
    <3>1. stack' = Append(stack, Loop)
      BY <1>7, <2>4 DEF WriteResponse, FinishResponse, OnWroteResponse, ResetAndReceive
    <3> QED  BY <1>0, <2>1, <2>2, <2>3, <2>4, <3>1, Entering
  <2>5. CASE ~receivedComplete
    <3>1. stack' = stack  BY <1>7, <2>5 DEF WriteResponse, FinishResponse, OnWroteResponse
    <3> QED  BY <1>0, <2>2, <2>3, <3>1
  <2> QED  BY <2>4, <2>5
<1>8. CASE ObjectEvent
  <2> DEFINE f == [code |-> "event", req |-> object]
  <2>1. stack = <<>> /\ stack' = Append(stack, f) /\ UNCHANGED <<finished, routed>>
    BY <1>8 DEF ObjectEvent, historyVars
  <2>2. f \in Frames /\ f.code = "event" /\ f.req \in {0, routed}
    BY <1>0 DEF Frames, TypeOK, ConnectionInvariant, UsersCurrent, UserOfCurrentRequest
  <2> HIDE DEF f
  <2> QED  BY <1>0, <2>1, <2>2, Calling
<1>9. CASE NeedsMoreData \/ Fail \/ (\E p \in Pieces : RefuseUnrouted(p)) \/ EventReturns
  BY <1>3, <1>9
     DEF NeedsMoreData, Fail, RefuseUnrouted, ParsesRequest, Parses, EventReturns, Running,
         historyVars
<1>10. CASE SlotReturns \/ HandlerReturns
  <2>1. PICK complete \in BOOLEAN : GoOn(complete)
    BY <1>0, <1>10 DEF SlotReturns, HandlerReturns, TypeOK
  <2>2. Running("handler") \/ Running("slot")  BY <1>10 DEF SlotReturns, HandlerReturns
  <2>3. UNCHANGED <<finished, routed>>  BY <1>10 DEF SlotReturns, HandlerReturns, historyVars
  <2> QED  BY <1>0, <1>2, <2>1, <2>2, <2>3, GoOnType
<1>11. CASE HandlerGivesUp \/ HandlerThrows
  BY <1>2, <1>11 DEF HandlerGivesUp, HandlerThrows, historyVars
<1>12. CASE \/ \E r \in 1..routed : \/ \E listens \in BOOLEAN : SetQObject(r, listens)
                                    \/ CloseConnectionAfterResponding(r)
                                    \/ WriteChunkedResponse(r)
            \/ Timeout \/ Finish \/ Disconnected \/ UNCHANGED vars
  BY <1>1, <1>12
     DEF SetQObject, CloseConnectionAfterResponding, WriteChunkedResponse, Timeout, Finish,
         Disconnected, vars, historyVars
<1> QED
  BY <1>4, <1>5, <1>6, <1>7, <1>8, <1>9, <1>10, <1>11, <1>12
     DEF Next, LoopStep, UserReturns, UserWrites, ReceiveLastChunk, ReceiveBody, ParsesRequest

LEMMA CompleteStep ==
    ConnectionInvariant /\ [Next]_vars =>
        (Running("loop")' \/ Running("handler")' => ~receivedComplete')
<1> SUFFICES ASSUME ConnectionInvariant, [Next]_vars
             PROVE  Running("loop")' \/ Running("handler")' => ~receivedComplete'
  OBVIOUS
<1>0. Running("loop") \/ Running("handler") => ~receivedComplete  BY InvariantFacts
<1>1. CASE receivedComplete' = FALSE  BY <1>1
<1>2. CASE UNCHANGED <<stack, receivedComplete>>  BY <1>0, <1>2 DEF Running
<1>3. CASE stack' = <<>>  BY <1>3 DEF Running
<1>4. CASE Running("loop") /\ stack' = Caller  BY <1>4, Callers DEF Running, Slot
<1>5. CASE (Running("handler") \/ Running("slot")) /\ stack' = Front(Caller)
  BY <1>5, Callers DEF Running, Slot
<1>6. CASE Receive
  BY <1>2, <1>6 DEF Receive
<1>7. ASSUME NEW p \in Pieces, CallHandler(p)
      PROVE  Running("loop")' \/ Running("handler")' => ~receivedComplete'
  BY <1>0, <1>7, Taking DEF CallHandler, ParsesRequest
<1>8. ASSUME NEW complete \in BOOLEAN, Emits(complete)
      PROVE  Running("loop")' \/ Running("handler")' => ~receivedComplete'
  <2> DEFINE f == [code |-> "slot", req |-> listener]
  <2>1. stack' = Append(stack, f) /\ f.code = "slot"  BY <1>8 DEF Emits
  <2>2. f \in Frames  BY InvariantFacts DEF TypeOK, Frames
  <2> HIDE DEF f
  <2>3. Last(stack') = f  BY <2>1, <2>2, InvariantFacts, AppendProperties, LenProperties DEF Last
  <2> QED  BY <2>1, <2>3 DEF Running
<1>9. CASE NeedsMoreData \/ Fail \/ \E p \in Pieces : RefuseUnrouted(p)
  BY <1>4, <1>9 DEF NeedsMoreData, Fail, RefuseUnrouted, ParsesRequest, Parses
<1>10. CASE SlotReturns \/ HandlerReturns
  <2>1. Running("handler") \/ Running("slot")  BY <1>10 DEF SlotReturns, HandlerReturns
  <2>2. PICK complete \in BOOLEAN : GoOn(complete)
    BY <1>10, InvariantFacts DEF SlotReturns, HandlerReturns, TypeOK
  <2>3. receivedComplete' = FALSE \/ stack' = Front(Caller)
    BY <2>2 DEF GoOn, Reset
  <2> QED  BY <1>1, <1>5, <2>1, <2>3
<1>11. CASE HandlerGivesUp \/ HandlerThrows
  BY <1>5, <1>11 DEF HandlerGivesUp, HandlerThrows
<1>12. CASE EventReturns
  BY <1>3, <1>12, Callers DEF EventReturns, Running
<1>13. ASSUME NEW r \in 1..routed, WriteResponse(r)
       PROVE  Running("loop")' \/ Running("handler")' => ~receivedComplete'
  BY <1>1, <1>2, <1>13 DEF WriteResponse, FinishResponse, OnWroteResponse, ResetAndReceive
<1>14. CASE ObjectEvent
  BY <1>14 DEF ObjectEvent, Running, Last
<1>15. CASE \/ \E r \in 1..routed : \/ \E listens \in BOOLEAN : SetQObject(r, listens)
                                    \/ CloseConnectionAfterResponding(r)
                                    \/ WriteChunkedResponse(r)
            \/ Timeout \/ Finish \/ Disconnected \/ UNCHANGED vars
  BY <1>2, <1>15
     DEF SetQObject, CloseConnectionAfterResponding, WriteChunkedResponse, Timeout, Finish,
         Disconnected, vars, handlerVars
<1> QED
  BY <1>6, <1>7, <1>8, <1>9, <1>10, <1>11, <1>12, <1>13, <1>14, <1>15
     DEF Next, LoopStep, UserReturns, UserWrites, ReceiveLastChunk, ReceiveBody

LEMMA ChunkingStep ==
    ConnectionInvariant /\ [Next]_vars => (chunking' => ~wrote')
<1> SUFFICES ASSUME ConnectionInvariant, [Next]_vars PROVE chunking' => ~wrote'  OBVIOUS
<1>0. TypeOK /\ (chunking => ~wrote)  BY InvariantFacts
<1>1. CASE UNCHANGED <<chunking, wrote>>  BY <1>0, <1>1
<1>2. ASSUME NEW answered \in BOOLEAN, Refuse(answered), answered => wrote
      PROVE  chunking' => ~wrote'
  BY <1>0, <1>2 DEF Refuse, TypeOK
<1>3. CASE Fail \/ (\E p \in Pieces : RefuseUnrouted(p)) \/ HandlerThrows
  BY <1>0, <1>2, <1>3 DEF Fail, RefuseUnrouted, HandlerThrows, TypeOK
<1>4. CASE Timeout
  BY <1>0, <1>2, <1>4 DEF Timeout, TypeOK
<1>5. CASE SlotReturns \/ HandlerReturns
  <2>1. (\E complete \in BOOLEAN : GoOn(complete)) /\ chunking' = chunking
    BY <1>0, <1>5 DEF SlotReturns, HandlerReturns, TypeOK
  <2> QED  BY <1>0, <2>1 DEF GoOn
<1>6. CASE \E r \in 1..routed : WriteResponse(r)
  BY <1>6 DEF WriteResponse, FinishResponse
<1>7. CASE \E r \in 1..routed : WriteChunkedResponse(r)
  BY <1>7 DEF WriteChunkedResponse, MayWrite
<1> QED
  BY <1>1, <1>3, <1>4, <1>5, <1>6, <1>7
     DEF Next, Receive, LoopStep, NeedsMoreData, CallHandler, ReceiveLastChunk, ReceiveBody, Emits,
         UserReturns, HandlerGivesUp, EventReturns, UserWrites, SetQObject,
         CloseConnectionAfterResponding, ObjectEvent, Finish, Disconnected, vars, brokerVars

-----------------------------------------------------------------------------
(* Objects and slots. *)

\* Which call runs after a step.
LEMMA RunningNext ==
    ASSUME ConnectionInvariant
    PROVE  /\ Running("loop") /\ stack' = Caller =>
                  ~Running("loop")' /\ ~Running("handler")' /\ (stack' = <<>> \/ Last(stack').code \in Slot)
           /\ Running("event") /\ stack' = Caller => stack' = <<>>
           /\ (Running("handler") \/ Running("slot")) /\ stack' = Front(Caller) =>
                  ~Running("loop")' /\ ~Running("handler")' /\ (stack' = <<>> \/ Last(stack').code \in Slot)
           /\ (Running("handler") \/ Running("slot")) /\ stack' = Caller => Running("loop")'
           /\ \A f \in Frames : stack' = Append(stack, f) => stack' # <<>> /\ Last(stack') = f
           /\ \A f \in Frames : stack' = <<f>> => stack' # <<>> /\ Last(stack') = f
<1>1. \A f \in Frames : stack' = Append(stack, f) => stack' # <<>> /\ Last(stack') = f
  BY InvariantFacts, AppendProperties, LenProperties DEF Last
<1>2. \A f \in Frames : stack' = <<f>> => stack' # <<>> /\ Last(stack') = f
  BY DEF Last
<1> QED  BY <1>1, <1>2, Callers DEF Running, Slot

LEMMA UsersStep == ConnectionInvariant /\ [Next]_vars => UsersCurrent'
<1> SUFFICES ASSUME ConnectionInvariant, [Next]_vars PROVE UsersCurrent'  OBVIOUS
<1>0. /\ TypeOK
      /\ object \in {0, routed} /\ listener \in {0, routed}
      /\ ~parsedMetadata => object = 0 /\ listener = 0
      /\ Running("handler") => parsedMetadata
  BY InvariantFacts DEF ConnectionInvariant, UsersCurrent, UserOfCurrentRequest
<1>u. UsersCurrent' <=>
        /\ object' \in {0, routed'} /\ listener' \in {0, routed'}
        /\ ~parsedMetadata' => object' = 0 /\ listener' = 0
        /\ Running("handler")' => parsedMetadata'
  BY DEF UsersCurrent, UserOfCurrentRequest
<1>1. CASE /\ UNCHANGED <<object, listener, routed, parsedMetadata>>
           /\ stack' = stack \/ ~Running("handler")'
  BY <1>0, <1>1, <1>u DEF Running
<1>2. CASE /\ object' = 0 /\ listener' = 0 /\ ~Running("handler")'
  BY <1>2, <1>u
<1>3. CASE Receive
  <2>1. stack' = stack \/ stack' = <<Loop>>  BY <1>3 DEF Receive
  <2>2. Loop \in Frames /\ Loop.code = "loop"  BY DEF Loop, Frames
  <2>3. stack' = stack \/ ~Running("handler")'  BY <2>1, <2>2, RunningNext DEF Running
  <2> QED  BY <1>1, <1>3, <2>3 DEF Receive, brokerVars, historyVars
<1>4. CASE NeedsMoreData \/ Fail
  <2>1. ~Running("handler")'
    BY <1>4, RunningNext DEF NeedsMoreData, Fail
  <2> QED  BY <1>1, <1>4, <2>1 DEF NeedsMoreData, Fail, brokerVars, historyVars
<1>5. ASSUME NEW p \in Pieces, CallHandler(p) PROVE UsersCurrent'
  <2>1. parsedMetadata' = TRUE /\ object' = 0 /\ listener' = 0
    BY <1>0, <1>5 DEF CallHandler, brokerVars
  <2> QED  BY <1>u, <2>1
<1>6. ASSUME NEW p \in Pieces, RefuseUnrouted(p) PROVE UsersCurrent'
  <2>1. parsedMetadata' = TRUE /\ object' = 0 /\ listener' = 0
    BY <1>0, <1>6 DEF RefuseUnrouted
  <2> QED  BY <1>u, <2>1
<1>7. ASSUME NEW complete \in BOOLEAN, Emits(complete) PROVE UsersCurrent'
  <2> DEFINE f == [code |-> "slot", req |-> listener]
  <2>1. stack' = Append(stack, f) /\ f.code = "slot"  BY <1>7 DEF Emits
  <2>2. f \in Frames  BY <1>0 DEF TypeOK, Frames
  <2> HIDE DEF f
  <2>3. ~Running("handler")'  BY <2>1, <2>2, RunningNext DEF Running
  <2> QED  BY <1>1, <1>7, <2>3 DEF Emits, brokerVars, historyVars
<1>8. CASE SlotReturns \/ HandlerReturns
  <2>1. PICK complete \in BOOLEAN : GoOn(complete)
    BY <1>0, <1>8 DEF SlotReturns, HandlerReturns, TypeOK
  <2>2. ~Running("handler")'
    BY <1>8, <2>1, GoOnType, InvariantFacts, RunningNext DEF SlotReturns, HandlerReturns, Running
  <2>3. routed' = routed  BY <1>8 DEF SlotReturns, HandlerReturns, historyVars
  <2>4. CASE complete /\ wrote  BY <1>2, <2>1, <2>2, <2>4 DEF GoOn, Reset
  <2>5. CASE ~(complete /\ wrote)  BY <1>1, <2>1, <2>2, <2>3, <2>5 DEF GoOn
  <2> QED  BY <2>4, <2>5
<1>9. CASE HandlerGivesUp \/ HandlerThrows
  <2>1. ~Running("handler")'
    BY <1>9, RunningNext DEF HandlerGivesUp, HandlerThrows
  <2> QED  BY <1>1, <1>9, <2>1 DEF HandlerGivesUp, HandlerThrows, brokerVars, historyVars
<1>10. CASE EventReturns
  <2>1. ~Running("handler")'  BY <1>10, RunningNext DEF EventReturns, Running
  <2> QED  BY <1>1, <1>10, <2>1 DEF EventReturns, handlerVars, brokerVars, historyVars
<1>11. ASSUME NEW r \in 1..routed, NEW listens \in BOOLEAN, SetQObject(r, listens)
       PROVE  UsersCurrent'
  <2>1. r = routed  BY <1>11, Writers DEF SetQObject
  <2>2. /\ object' = r /\ listener' \in {r, listener} /\ routed' = routed
        /\ parsedMetadata' = parsedMetadata /\ Running("handler")
    BY <1>11 DEF SetQObject, handlerVars, historyVars
  <2> QED  BY <1>0, <1>u, <2>1, <2>2
<1>12. ASSUME NEW r \in 1..routed, WriteResponse(r) PROVE UsersCurrent'
  <2>1. routed' = routed /\ (receivedComplete => Last(stack).code \in Slot)
    BY <1>12, Writers DEF WriteResponse
  <2>2. CASE receivedComplete
    <3>1. stack' = Append(stack, Loop) /\ object' = 0 /\ listener' = 0
      BY <1>12, <2>2 DEF WriteResponse, FinishResponse, OnWroteResponse, ResetAndReceive
    <3>2. Loop \in Frames /\ Loop.code = "loop"  BY DEF Loop, Frames
    <3>3. ~Running("handler")'  BY <3>1, <3>2, RunningNext DEF Running
    <3> QED  BY <1>2, <3>1, <3>3
  <2>3. CASE ~receivedComplete
    BY <1>1, <1>12, <2>1, <2>3 DEF WriteResponse, FinishResponse, OnWroteResponse
  <2> QED  BY <2>2, <2>3
<1>13. CASE ObjectEvent
  <2> DEFINE f == [code |-> "event", req |-> object]
  <2>1. stack' = <<f>> /\ f.code = "event"  BY <1>13 DEF ObjectEvent
  <2>2. f \in Frames  BY <1>0 DEF TypeOK, Frames
  <2> HIDE DEF f
  <2>3. ~Running("handler")'  BY <2>1, <2>2, RunningNext DEF Running
  <2> QED  BY <1>1, <1>13, <2>3 DEF ObjectEvent, handlerVars, brokerVars, historyVars
<1>14. CASE Timeout
  <2>1. object' \in {0, object} /\ listener' \in {0, listener} /\ stack' = stack
        /\ parsedMetadata' = parsedMetadata /\ routed' = routed
    BY <1>14 DEF Timeout
  <2> QED  BY <1>0, <1>u, <2>1 DEF Running
<1>15. CASE \/ \E r \in 1..routed : CloseConnectionAfterResponding(r) \/ WriteChunkedResponse(r)
            \/ Finish \/ Disconnected \/ UNCHANGED vars
  BY <1>1, <1>15
     DEF CloseConnectionAfterResponding, WriteChunkedResponse, Finish, Disconnected, vars,
         handlerVars, brokerVars, historyVars
<1> QED
  BY <1>3, <1>4, <1>5, <1>6, <1>7, <1>8, <1>9, <1>10, <1>11, <1>12, <1>13, <1>14, <1>15
     DEF Next, LoopStep, UserReturns, UserWrites, ReceiveLastChunk, ReceiveBody

-----------------------------------------------------------------------------
(* Responses. *)

LEMMA WireStep == ConnectionInvariant /\ [Next]_vars => ResponsesInOrder' /\ WireExact'
<1> SUFFICES ASSUME ConnectionInvariant, [Next]_vars PROVE ResponsesInOrder' /\ WireExact'
  OBVIOUS
<1>0. /\ TypeOK /\ (chunking => ~wrote) /\ ResponsesInOrder /\ WireExact
      /\ wire \in Seq(0..MaxPieces) /\ Len(wire) \in Nat /\ routed \in Nat
  BY InvariantFacts, LenProperties, MaxPiecesAssumption DEF ConnectionInvariant, TypeOK
<1>w. ASSUME NEW r \in 0..MaxPieces, wire' = Append(wire, r)
      PROVE  /\ Len(wire') = Len(wire) + 1 /\ wire'[Len(wire) + 1] = r
             /\ \A i \in 1..Len(wire) : wire'[i] = wire[i]
  BY <1>0, <1>w, AppendProperties
<1>1. CASE UNCHANGED <<wire, sock, parsedMetadata, wrote, chunking, closeWritten, routed, finished>>
  BY <1>0, <1>1 DEF ResponsesInOrder, WireExact
<1>2. CASE wire' = wire /\ sock' # "Connected"
  BY <1>0, <1>2 DEF ResponsesInOrder, WireExact
<1>3. CASE \E answered \in BOOLEAN : Refuse(answered)
  <2>1. PICK answered \in BOOLEAN : Refuse(answered)  BY <1>3
  <2>2. sock' # "Connected"  BY <2>1, Refusing
  <2>3. wire' = wire \/ (wire' = Append(wire, 0) /\ sock = "Connected")  BY <2>1 DEF Refuse
  <2>4. CASE wire' = Append(wire, 0) /\ sock = "Connected"
    <3>1. 0 \in 0..MaxPieces  BY MaxPiecesAssumption
    <3>2. \A i \in 1..Len(wire) : wire[i] = i  BY <1>0, <2>4 DEF WireExact
    <3>3. \A i \in 1..Len(wire') : i \in 1..Len(wire) \/ i = Len(wire')
      BY <1>0, <1>w, <2>4, <3>1
    <3> QED  BY <1>0, <1>w, <2>2, <2>4, <3>1, <3>2, <3>3 DEF ResponsesInOrder, WireExact
  <2> QED  BY <1>2, <2>2, <2>3, <2>4
<1>4. CASE Receive \/ NeedsMoreData \/ ObjectEvent \/ EventReturns \/ UNCHANGED vars
  BY <1>1, <1>4
     DEF Receive, NeedsMoreData, ObjectEvent, EventReturns, vars, handlerVars, brokerVars, historyVars
<1>5. CASE Fail \/ (\E p \in Pieces : RefuseUnrouted(p)) \/ HandlerThrows \/ Timeout
  BY <1>0, <1>3, <1>5 DEF Fail, RefuseUnrouted, HandlerThrows, Timeout, TypeOK
<1>6. ASSUME NEW p \in Pieces, CallHandler(p) PROVE ResponsesInOrder' /\ WireExact'
  <2>1. /\ ~parsedMetadata /\ parsedMetadata' = TRUE /\ routed' = routed + 1
        /\ UNCHANGED <<wire, sock, wrote, chunking, closeWritten, finished>>
    BY <1>6 DEF CallHandler, brokerVars
  <2> QED  BY <1>0, <2>1 DEF ResponsesInOrder, WireExact
<1>7. ASSUME NEW complete \in BOOLEAN, Emits(complete) PROVE ResponsesInOrder' /\ WireExact'
  BY <1>1, <1>7 DEF Emits, brokerVars, historyVars
<1>8. CASE SlotReturns \/ HandlerReturns
  <2>1. PICK complete \in BOOLEAN : GoOn(complete)
    BY <1>0, <1>8 DEF SlotReturns, HandlerReturns, TypeOK
  <2>2. UNCHANGED <<wire, sock, chunking, closeWritten, routed, finished>>
    BY <1>8 DEF SlotReturns, HandlerReturns, historyVars
  <2>3. CASE complete /\ wrote
    <3>1. parsedMetadata' = FALSE /\ wrote' = closeWritten  BY <2>1, <2>3 DEF GoOn, Reset
    <3> QED  BY <1>0, <2>2, <2>3, <3>1 DEF ResponsesInOrder, WireExact
  <2>4. CASE ~(complete /\ wrote)
    BY <1>1, <2>1, <2>2, <2>4 DEF GoOn
  <2> QED  BY <2>3, <2>4
<1>9. CASE HandlerGivesUp \/ Finish \/ Disconnected
  <2>1. wire' = wire  BY <1>9 DEF HandlerGivesUp, Finish, Disconnected, historyVars
  <2>2. sock' # "Connected"
    BY <1>9 DEF HandlerGivesUp, Finish, Disconnected, AfterDisconnect
  <2> QED  BY <1>2, <2>1, <2>2
<1>10. ASSUME NEW r \in 1..routed, NEW listens \in BOOLEAN, SetQObject(r, listens)
       PROVE  ResponsesInOrder' /\ WireExact'
  BY <1>1, <1>10 DEF SetQObject, handlerVars, historyVars
<1>11. ASSUME NEW r \in 1..routed, CloseConnectionAfterResponding(r)
       PROVE  ResponsesInOrder' /\ WireExact'
  BY <1>1, <1>11 DEF CloseConnectionAfterResponding, handlerVars, historyVars
<1>12. ASSUME NEW r \in 1..routed, WriteChunkedResponse(r)
       PROVE  ResponsesInOrder' /\ WireExact'
  <2>1. /\ ~wrote /\ ~chunking /\ chunking' = TRUE /\ r = routed /\ r \notin finished /\ r # 0
        /\ wire' = (IF sock = "Connected" THEN Append(wire, r) ELSE wire)
        /\ UNCHANGED <<sock, wrote, parsedMetadata, routed, finished>>
    BY <1>12, Writers DEF WriteChunkedResponse, MayWrite, handlerVars
  <2>2. CASE sock # "Connected"  BY <1>2, <2>1, <2>2
  <2>3. CASE sock = "Connected"
    <3>1. /\ \A i \in 1..Len(wire) : wire[i] = i
          /\ parsedMetadata /\ Len(wire) = routed - 1
      BY <1>0, <2>1, <2>3 DEF WireExact
    <3>2. r \in 0..MaxPieces  BY <1>0, MaxPiecesAssumption DEF TypeOK
    <3>3. /\ Len(wire') = routed /\ wire'[routed] = routed
          /\ \A i \in 1..(routed - 1) : wire'[i] = i
      BY <1>0, <1>w, <2>1, <2>3, <3>1, <3>2
    <3>4. \A i \in 1..Len(wire') : wire'[i] = i
      <4>1. \A i \in 1..routed : i \in 1..(routed - 1) \/ i = routed  BY <1>0
      <4> QED  BY <3>3, <4>1
    <3>5. /\ closeWritten' \in BOOLEAN /\ chunking' = TRUE /\ parsedMetadata' = TRUE
          /\ Len(wire') = routed' /\ wrote' = FALSE
      BY <1>0, <1>12, <2>1, <3>1, <3>3 DEF WriteChunkedResponse, TypeOK
    <3> QED  BY <3>4, <3>5 DEF ResponsesInOrder, WireExact
  <2> QED  BY <2>2, <2>3
<1>13. ASSUME NEW r \in 1..routed, WriteResponse(r) PROVE ResponsesInOrder' /\ WireExact'
  <2>1. /\ ~wrote /\ r = routed /\ r \notin finished /\ r # 0 /\ routed' = routed
        /\ finished' = finished \cup {r} /\ chunking' = FALSE
        /\ wire' = (IF ~chunking /\ sock = "Connected" THEN Append(wire, r) ELSE wire)
        /\ closeWritten' = (closeWritten \/ (~chunking /\ closeAfter))
        /\ sock' \in IF closeWritten' THEN AfterDisconnect(FALSE) ELSE {sock}
    BY <1>13, Writers DEF WriteResponse, FinishResponse, MayWrite
  <2>2. CASE sock # "Connected"
    BY <1>2, <2>1, <2>2 DEF AfterDisconnect
  <2>3. CASE sock = "Connected"
    <3>1. \/ wrote' = TRUE /\ parsedMetadata' = parsedMetadata
          \/ wrote' = closeWritten' /\ parsedMetadata' = FALSE
      BY <1>13 DEF WriteResponse, FinishResponse, OnWroteResponse, ResetAndReceive
    <3>2. /\ \A i \in 1..Len(wire) : wire[i] = i
          /\ parsedMetadata
          /\ Len(wire) = IF chunking THEN routed ELSE routed - 1
      BY <1>0, <2>1, <2>3 DEF WireExact
    <3>3. r \in 0..MaxPieces  BY <1>0, MaxPiecesAssumption DEF TypeOK
    <3>4. /\ Len(wire') = routed
          /\ \A i \in 1..routed : wire'[i] = i
      <4>1. CASE chunking  BY <2>1, <3>2, <4>1
      <4>2. CASE ~chunking
        <5>1. wire' = Append(wire, r) /\ Len(wire) = routed - 1  BY <2>1, <2>3, <3>2, <4>2
        <5>2. /\ Len(wire') = routed /\ wire'[routed] = routed
              /\ \A i \in 1..(routed - 1) : wire'[i] = wire[i]
          BY <1>0, <1>w, <2>1, <3>3, <5>1
        <5>3. \A i \in 1..routed : i \in 1..(routed - 1) \/ i = routed  BY <1>0
        <5> QED  BY <3>2, <5>1, <5>2, <5>3
      <4> QED  BY <4>1, <4>2
    <3>5. sock' = "Connected" => closeWritten' = FALSE
      BY <1>0, <2>1, <2>3 DEF AfterDisconnect, TypeOK
    <3>6. ResponsesInOrder'  BY <3>4 DEF ResponsesInOrder
    <3>7. WireExact'  BY <2>1, <3>1, <3>2, <3>4, <3>5 DEF WireExact
    <3> QED  BY <3>6, <3>7
  <2> QED  BY <2>2, <2>3
<1> QED
  BY <1>4, <1>5, <1>6, <1>7, <1>8, <1>9, <1>10, <1>11, <1>12, <1>13
     DEF Next, LoopStep, UserReturns, UserWrites, ReceiveLastChunk, ReceiveBody

-----------------------------------------------------------------------------
(* The timer. *)

LEMMA TimerStep == ConnectionInvariant /\ [Next]_vars => TimerExact'
<1> SUFFICES ASSUME ConnectionInvariant, [Next]_vars PROVE TimerExact'  OBVIOUS
<1>0. TypeOK /\ TimerExact /\ (Running("loop") \/ Running("handler") => ~receivedComplete)
  BY InvariantFacts DEF ConnectionInvariant
<1>t. /\ RequestTimer \in {"request", "off"} /\ (RequestTimer = "request" => RequestTimeout)
      /\ IdleTimer \in {"idle", "off"} /\ (IdleTimer = "idle" => IdleTimeout)
      /\ timeouts' = timeouts
      /\ RequestTimeout' = RequestTimeout /\ IdleTimeout' = IdleTimeout
      /\ RequestTimer' = RequestTimer /\ IdleTimer' = IdleTimer
  BY DEF Next, vars, RequestTimer, IdleTimer, RequestTimeout, IdleTimeout
<1>i. TimerExact' <=>
        /\ timer' = "idle" => inIdle'
        /\ timer' = "request" => RequestTimeout
        /\ sock' = "Connected" =>
            /\ attached'
            /\ stack' = <<>> \/ Running("event")' =>
                   timer' = IF receivedComplete' THEN "off"
                            ELSE IF parsedMetadata' \/ DataAvailable' THEN RequestTimer
                            ELSE IdleTimer
            /\ Running("loop")' \/ Running("handler")' \/ (Running("slot")' /\ ~receivedComplete') =>
                   (parsedMetadata' \/ partial' \/ buffer' # <<>> => timer' = RequestTimer)
  BY <1>t DEF TimerExact
<1>1. CASE timer' = "off" /\ sock' # "Connected"  BY <1>1, <1>i
<1>2. CASE UNCHANGED <<timer, inIdle>> /\ sock' # "Connected"  BY <1>0, <1>2, <1>i DEF TimerExact
<1>3. CASE UNCHANGED <<timer, inIdle, sock, attached, stack, receivedComplete, parsedMetadata,
                       inputVars>>
  BY <1>0, <1>3, <1>i DEF TimerExact, Running, DataAvailable, inputVars
<1>4. CASE \E answered \in BOOLEAN : Refuse(answered)
  BY <1>1, <1>4, Refusing
<1>5. CASE Fail \/ (\E p \in Pieces : RefuseUnrouted(p)) \/ HandlerThrows \/ Timeout
  BY <1>0, <1>4, <1>5 DEF Fail, RefuseUnrouted, HandlerThrows, Timeout, TypeOK
<1>6. CASE Receive
  <2>1. CASE receivedComplete
    <3>1. stack = <<>> /\ stack' = stack /\ timer' = "off"
          /\ UNCHANGED <<receivedComplete, attached, sock>>
      BY <1>6, <2>1 DEF Receive
    <3> QED  BY <1>0, <1>i, <2>1, <3>1 DEF TimerExact, Running
  <2>2. CASE ~receivedComplete
    <3>1. /\ stack = <<>> /\ stack' = <<Loop>> /\ timer' = TimerInLoop(timer, inIdle)
          /\ inIdle' = FALSE /\ UNCHANGED <<receivedComplete, attached, sock>>
      BY <1>6, <2>2 DEF Receive
    <3>2. Loop \in Frames /\ Loop.code = "loop"  BY DEF Loop, Frames
    <3>3. stack' # <<>> /\ ~Running("event")'  BY <3>1, <3>2, RunningNext DEF Running
    <3>4. sock = "Connected" => timer' = RequestTimer
      BY <1>0, <1>t, <2>2, <3>1 DEF TimerExact, TimerInLoop, RequestTimer, TypeOK
    <3>5. timer' # "idle" /\ (timer' = "request" => RequestTimeout)
      BY <1>0, <3>1 DEF TimerExact, TimerInLoop
    <3> QED  BY <1>0, <1>i, <3>1, <3>3, <3>4, <3>5 DEF TimerExact
  <2> QED  BY <2>1, <2>2
<1>7. CASE NeedsMoreData
  <2>1. /\ Running("loop") /\ stack' = Caller /\ buffer = <<>> /\ buffer' = <<>> /\ ~unskipped'
        /\ ~receivedComplete /\ partial' = partial
        /\ UNCHANGED <<receivedComplete, parsedMetadata, attached, sock>>
    BY <1>0, <1>7 DEF NeedsMoreData
  <2>2. ~Running("loop")' /\ ~Running("handler")'  BY <2>1, RunningNext
  <2>3. CASE ~parsedMetadata /\ ~partial
    <3>1. timer' = IdleTimer /\ inIdle' = (inIdle \/ IdleTimeout)
      BY <1>7, <2>3 DEF NeedsMoreData, StartIdle, IdleTimer
    <3>2. ~DataAvailable'  BY <2>1, <2>3 DEF DataAvailable
    <3> QED  BY <1>0, <1>t, <1>i, <2>1, <2>2, <2>3, <3>1, <3>2 DEF TimerExact
  <2>4. CASE parsedMetadata \/ partial
    <3>1. UNCHANGED <<timer, inIdle>>  BY <1>7, <2>4 DEF NeedsMoreData
    <3>2. sock = "Connected" => timer = RequestTimer  BY <1>0, <2>1, <2>4 DEF TimerExact
    <3>3. parsedMetadata' \/ DataAvailable'  BY <2>1, <2>4 DEF DataAvailable
    <3> QED  BY <1>0, <1>i, <2>1, <2>2, <3>1, <3>2, <3>3 DEF TimerExact
  <2> QED  BY <2>3, <2>4
<1>8. ASSUME NEW p, Parses(p), NEW f \in Frames, f.code \in {"handler", "slot"},
             stack' = Append(stack, f), UNCHANGED <<timer, inIdle, attached, sock>>
      PROVE  TimerExact'
  <2>1. Running("loop") /\ buffer # <<>>  BY <1>8 DEF Parses
  <2>2. sock = "Connected" => timer = RequestTimer  BY <1>0, <2>1 DEF TimerExact
  <2>3. stack' # <<>> /\ ~Running("event")'  BY <1>8, RunningNext DEF Running
  <2> QED  BY <1>0, <1>i, <1>8, <2>2, <2>3 DEF TimerExact
<1>9. ASSUME NEW p \in Pieces, CallHandler(p) PROVE TimerExact'
  <2> DEFINE f == [code |-> "handler", req |-> routed + 1]
  <2>1. Parses(p) /\ stack' = Append(stack, f) /\ f.code = "handler"
        /\ UNCHANGED <<timer, inIdle, attached, sock>>
    BY <1>9 DEF CallHandler, ParsesRequest
  <2>2. f \in Frames  BY <2>1, Taking DEF Frames
  <2> HIDE DEF f
  <2> QED  BY <1>8, <2>1, <2>2
<1>10. ASSUME NEW p \in Pieces, NEW complete \in BOOLEAN, Parses(p), Emits(complete)
       PROVE  TimerExact'
  <2> DEFINE f == [code |-> "slot", req |-> listener]
  <2>1. stack' = Append(stack, f) /\ f.code = "slot" /\ UNCHANGED <<timer, inIdle, attached, sock>>
    BY <1>10 DEF Emits
  <2>2. f \in Frames  BY <1>0 DEF TypeOK, Frames
  <2> HIDE DEF f
  <2> QED  BY <1>8, <1>10, <2>1, <2>2
<1>11. CASE SlotReturns \/ HandlerReturns
  <2>1. PICK complete \in BOOLEAN :
           GoOn(complete) /\ (Running("slot") => complete = receivedComplete)
    BY <1>0, <1>11 DEF SlotReturns, HandlerReturns, TypeOK, Running
  <2>2. /\ Running("handler") \/ Running("slot")
        /\ UNCHANGED <<attached, sock, buffer, partial, unskipped>>
    BY <1>11 DEF SlotReturns, HandlerReturns, inputVars
  <2>3. CASE complete /\ wrote
    <3>1. Reset /\ stack' = Caller  BY <2>1, <2>3 DEF GoOn
    <3>2. Running("loop")'  BY <2>2, <3>1, RunningNext
    <3>3. stack' # <<>> /\ ~Running("event")'  BY <3>2 DEF Running
    <3>4. parsedMetadata' = FALSE  BY <3>1 DEF Reset
    <3>5. CASE DataAvailable
      <4>1. timer' = RequestTimer /\ inIdle' = inIdle
        BY <3>1, <3>5 DEF Reset, RequestTimer
      <4> QED  BY <1>0, <1>t, <1>i, <2>2, <3>3, <4>1 DEF TimerExact
    <3>6. CASE ~DataAvailable
      <4>1. timer' = IdleTimer /\ inIdle' = (inIdle \/ IdleTimeout)
        BY <3>1, <3>6 DEF Reset, StartIdle, IdleTimer
      <4>2. buffer' = <<>> /\ ~partial'  BY <2>2, <3>6 DEF DataAvailable
      <4> QED  BY <1>0, <1>t, <1>i, <2>2, <3>3, <3>4, <4>1, <4>2 DEF TimerExact
    <3> QED  BY <3>5, <3>6
  <2>4. CASE complete /\ ~wrote
    <3>1. /\ receivedComplete' = TRUE /\ timer' = "off" /\ stack' = Front(Caller)
      BY <2>1, <2>4 DEF GoOn
    <3>2. ~Running("loop")' /\ ~Running("handler")'  BY <2>2, <3>1, RunningNext
    <3> QED  BY <1>0, <1>i, <2>2, <3>1, <3>2 DEF TimerExact
  <2>5. CASE ~complete
    <3>1. /\ receivedComplete' = FALSE /\ timer' = timer /\ inIdle' = inIdle /\ stack' = Caller
          /\ parsedMetadata' = parsedMetadata
      BY <2>1, <2>5 DEF GoOn
    <3>2. Running("loop")'  BY <2>2, <3>1, RunningNext
    <3>3. stack' # <<>> /\ ~Running("event")'  BY <3>2 DEF Running
    <3> QED  BY <1>0, <1>i, <2>1, <2>2, <2>5, <3>1, <3>3 DEF TimerExact
  <2> QED  BY <2>3, <2>4, <2>5
<1>12. CASE HandlerGivesUp \/ Finish \/ Disconnected
  <2>1. sock' # "Connected" /\ (timer' = "off" \/ UNCHANGED <<timer, inIdle>>)
    BY <1>12 DEF HandlerGivesUp, Finish, Disconnected, AfterDisconnect, handlerVars
  <2> QED  BY <1>1, <1>2, <2>1
<1>13. CASE EventReturns
  <2>1. Running("event") /\ stack' = <<>>  BY <1>13, RunningNext DEF EventReturns
  <2>2. UNCHANGED <<timer, inIdle, sock, attached, receivedComplete, parsedMetadata, inputVars>>
    BY <1>13 DEF EventReturns, handlerVars
  <2> QED  BY <1>0, <1>i, <2>1, <2>2 DEF TimerExact, Running, DataAvailable, inputVars
<1>14. CASE ObjectEvent
  <2> DEFINE f == [code |-> "event", req |-> object]
  <2>1. stack = <<>> /\ stack' = <<f>> /\ f.code = "event"
        /\ UNCHANGED <<timer, inIdle, sock, attached, receivedComplete, parsedMetadata, inputVars>>
    BY <1>14 DEF ObjectEvent, handlerVars
  <2>2. f \in Frames  BY <1>0 DEF TypeOK, Frames
  <2> HIDE DEF f
  <2>3. stack' # <<>> /\ Last(stack').code = "event"  BY <2>1, <2>2, RunningNext
  <2> QED  BY <1>0, <1>i, <2>1, <2>3 DEF TimerExact, Running, DataAvailable, inputVars
<1>15. ASSUME NEW r \in 1..routed, WriteResponse(r) PROVE TimerExact'
  <2>1. sock' = sock \/ sock' # "Connected"
    BY <1>0, <1>15 DEF WriteResponse, FinishResponse, AfterDisconnect, TypeOK
  <2>2. UNCHANGED <<inputVars, attached>>  BY <1>15 DEF WriteResponse
  <2>3. CASE receivedComplete
    <3>1. stack' = Append(stack, Loop) /\ timer' = RequestTimer
      BY <1>15, <2>3
         DEF WriteResponse, FinishResponse, OnWroteResponse, ResetAndReceive, RequestTimer
    <3>2. Loop \in Frames /\ Loop.code = "loop"  BY DEF Loop, Frames
    <3>3. stack' # <<>> /\ ~Running("event")'  BY <3>1, <3>2, RunningNext DEF Running
    <3> QED  BY <1>0, <1>t, <1>i, <2>1, <2>2, <3>1, <3>3 DEF TimerExact
  <2>4. CASE ~receivedComplete
    <3>1. UNCHANGED <<timer, inIdle, stack, receivedComplete, parsedMetadata>>
      BY <1>15, <2>4 DEF WriteResponse, FinishResponse, OnWroteResponse
    <3> QED  BY <1>2, <1>3, <2>1, <2>2, <3>1
  <2> QED  BY <2>3, <2>4
<1>16. CASE \/ \E r \in 1..routed : \/ \E listens \in BOOLEAN : SetQObject(r, listens)
                                    \/ CloseConnectionAfterResponding(r)
                                    \/ WriteChunkedResponse(r)
            \/ UNCHANGED vars
  BY <1>3, <1>16
     DEF SetQObject, CloseConnectionAfterResponding, WriteChunkedResponse, vars, handlerVars
<1> QED
  BY <1>5, <1>6, <1>7, <1>9, <1>10, <1>11, <1>12, <1>13, <1>14, <1>15, <1>16
     DEF Next, LoopStep, UserReturns, UserWrites, ReceiveLastChunk, ReceiveBody, ParsesRequest

-----------------------------------------------------------------------------
(* The invariant. *)

LEMMA InitConnectionInvariant == Init => ConnectionInvariant
<1> SUFFICES ASSUME Init PROVE ConnectionInvariant  OBVIOUS
<1>0. MaxPieces \in Nat /\ 0 \in 0..MaxPieces  BY MaxPiecesAssumption
<1>1. TypeOK
  <2>1. /\ buffer \in Seq(Pieces) /\ stack \in Seq(Frames) /\ wire \in Seq(0..MaxPieces)
    BY EmptySeq DEF Init
  <2>2. timer \in {"off", "idle", "request"} /\ inIdle \in BOOLEAN
    BY DEF Init, IdleTimeout
  <2> QED  BY <1>0, <2>1, <2>2 DEF Init, TypeOK, ParserStates
<1>2. stack = <<>> /\ ~Running("loop") /\ ~Running("handler") /\ ~Running("slot") /\ ~Running("event")
  BY DEF Init, Running
<1>3. Consistent  BY <1>1, <1>2 DEF Init, Consistent
<1>4. Nested(stack) /\ Answered(stack, finished, routed)
  BY <1>2 DEF Nested, Answered
<1>5. Counted  BY <1>0 DEF Init, Counted
<1>6. UsersCurrent  BY <1>2 DEF Init, UsersCurrent, UserOfCurrentRequest
<1>7. ResponsesInOrder /\ WireExact  BY DEF Init, ResponsesInOrder, WireExact
<1>8. TimerExact
  <2>1. /\ timer = IdleTimer /\ inIdle = IdleTimeout /\ attached /\ ~receivedComplete
        /\ ~parsedMetadata /\ ~DataAvailable
    BY DEF Init, IdleTimer, DataAvailable
  <2> QED  BY <1>2, <2>1 DEF TimerExact, IdleTimer
<1> QED  BY <1>3, <1>4, <1>5, <1>6, <1>7, <1>8 DEF ConnectionInvariant

LEMMA ConnectionInvariantStep == ConnectionInvariant /\ [Next]_vars => ConnectionInvariant'
<1> SUFFICES ASSUME ConnectionInvariant, [Next]_vars PROVE ConnectionInvariant'  OBVIOUS
<1>1. TypeOK' /\ Counted'  BY TypeStep
<1>2. Consistent'  BY <1>1, ChunkingStep, CompleteStep DEF Consistent
<1>3. Nested(stack)' /\ Answered(stack, finished, routed)'  BY StackStep
<1> QED  BY <1>1, <1>2, <1>3, UsersStep, WireStep, TimerStep DEF ConnectionInvariant

\* Whatever slots of user code, nested calls of onReceivedData, timeouts and the peer do,
\* the members of the handler and its broker agree on which request is current, how far
\* its response is and what the timer waits for.
THEOREM ConnectionIsInvariant == Spec => []ConnectionInvariant
  BY InitConnectionInvariant, ConnectionInvariantStep, PTL DEF Spec

\* No call on the stack believes that it goes on with a request that another has
\* completed or left unanswered.
THEOREM ConnectionIsConsistent == Spec => []Consistent
<1>1. ConnectionInvariant => Consistent  BY DEF ConnectionInvariant
<1> QED  BY <1>1, ConnectionIsInvariant, PTL

\* The i-th response on the wire answers the i-th request.
THEOREM ResponsesAreInOrder == Spec => []ResponsesInOrder
<1>1. ConnectionInvariant => ResponsesInOrder  BY DEF ConnectionInvariant
<1> QED  BY <1>1, ConnectionIsInvariant, PTL

\* No request is given to its handler before the one ahead of it has its response.
THEOREM RequestsAreOneAtATime == Spec => []OneRequestAtATime
<1>1. ConnectionInvariant => OneRequestAtATime
  <2> SUFFICES ASSUME ConnectionInvariant PROVE OneRequestAtATime  OBVIOUS
  <2>1. routed \in Nat /\ WireExact  BY InvariantFacts, MaxPiecesAssumption DEF TypeOK, ConnectionInvariant
  <2> QED  BY <2>1 DEF WireExact, OneRequestAtATime
<1> QED  BY <1>1, ConnectionIsInvariant, PTL

\* An open connection that waits has the timer of what it waits for.
THEOREM TimersFit == Spec => []TimerFits
<1>1. ConnectionInvariant => TimerFits
  BY DEF ConnectionInvariant, TimerExact, TimerFits, RequestTimer, IdleTimer
<1> QED  BY <1>1, ConnectionIsInvariant, PTL

\* No object or slot of an earlier request is left when the next one is handled.
THEOREM UsersAreCurrent == Spec => []UserOfCurrentRequest
<1>1. ConnectionInvariant => UserOfCurrentRequest
  BY DEF ConnectionInvariant, UsersCurrent
<1> QED  BY <1>1, ConnectionIsInvariant, PTL

-----------------------------------------------------------------------------
(* The order of paths. *)

Paths == Seq(Nat)

LEMMA SmallestMember ==
    ASSUME NEW S, S \subseteq Nat, S # {}
    PROVE  Min(S) \in S /\ \A n \in S : Min(S) <= n
<1>1. PICK n \in S : \A m \in S : ~(<<m, n>> \in OpToRel(<, Nat))
  BY NatLessThanWellFounded, WFMin
<1>2. \A m \in S : m \in Nat /\ n \in Nat /\ ~(m < n)  BY <1>1 DEF OpToRel
<1>3. \A m \in S : n <= m
  <2> SUFFICES ASSUME NEW m \in S PROVE n <= m  OBVIOUS
  <2>1. m \in Nat /\ n \in Nat /\ ~(m < n)  BY <1>2
  <2> QED  BY <2>1
<1> QED  BY <1>3 DEF Min

LEMMA PrefixByPosition ==
    ASSUME NEW p \in Paths, NEW q \in Paths
    PROVE  IsPrefix(p, q) <=> Len(p) <= Len(q) /\ \A i \in 1..Len(p) : p[i] = q[i]
<1>1. Len(p) \in Nat /\ Len(q) \in Nat  BY DEF Paths
<1> DEFINE a == SubSeq(p, 1, Len(p))
           b == SubSeq(q, 1, Len(p))
<1>2. ASSUME Len(p) <= Len(q) PROVE a = b <=> \A i \in 1..Len(p) : p[i] = q[i]
  <2>1. a \in Seq(Nat) /\ Len(a) = Len(p) /\ \A i \in 1..Len(p) : a[i] = p[i]
    BY <1>1 DEF Paths
  <2>2. b \in Seq(Nat) /\ Len(b) = Len(p) /\ \A i \in 1..Len(p) : b[i] = q[i]
    BY <1>1, <1>2 DEF Paths
  <2>3. ASSUME \A i \in 1..Len(p) : p[i] = q[i] PROVE a = b
    <3>1. \A i \in 1..Len(a) : a[i] = b[i]  BY <2>1, <2>2, <2>3
    <3> HIDE DEF a, b
    <3> QED  BY <2>1, <2>2, <3>1, SeqEqual
  <2>4. ASSUME a = b PROVE \A i \in 1..Len(p) : p[i] = q[i]
    <3> HIDE DEF a, b
    <3> QED  BY <2>1, <2>2, <2>4
  <2> QED  BY <2>3, <2>4
<1> QED  BY <1>2 DEF IsPrefix

\* p is greater at its i-th byte, the first at which p and q differ or that q has not.
GreaterAt(p, q, i) ==
    /\ i - 1 <= Len(q) /\ \A j \in 1..(i - 1) : p[j] = q[j]
    /\ i > Len(q) \/ p[i] > q[i]

LEMMA GreaterSomewhere ==
    ASSUME NEW p \in Paths, NEW q \in Paths
    PROVE  Greater(p, q) <=> \E i \in 1..Len(p) : GreaterAt(p, q, i)
<1>1. Len(p) \in Nat /\ Len(q) \in Nat  BY DEF Paths
<1>2. ASSUME Greater(p, q) PROVE \E i \in 1..Len(p) : GreaterAt(p, q, i)
  <2>1. CASE IsStrictPrefix(q, p)
    <3>1. Len(q) <= Len(p) /\ \A i \in 1..Len(q) : q[i] = p[i]
      BY <2>1, PrefixByPosition DEF IsStrictPrefix
    <3>2. Len(q) # Len(p)
      <4> SUFFICES ASSUME Len(q) = Len(p) PROVE FALSE  OBVIOUS
      <4>1. q = p  BY <3>1, SeqEqual DEF Paths
      <4> QED  BY <2>1, <4>1 DEF IsStrictPrefix
    <3>3. Len(q) + 1 \in 1..Len(p) /\ (Len(q) + 1) - 1 = Len(q)  BY <1>1, <3>1, <3>2
    <3>4. GreaterAt(p, q, Len(q) + 1)  BY <1>1, <3>1, <3>3 DEF GreaterAt
    <3> QED  BY <3>3, <3>4
  <2>2. CASE \E i \in 1..Len(p) : /\ i <= Len(q) /\ p[i] > q[i]
                                  /\ \A j \in 1..(i - 1) : p[j] = q[j]
    BY <1>1, <2>2 DEF GreaterAt
  <2> QED  BY <1>2, <2>1, <2>2 DEF Greater
<1>3. ASSUME NEW i \in 1..Len(p), GreaterAt(p, q, i) PROVE Greater(p, q)
  <2>1. CASE i <= Len(q)
    <3>1. p[i] > q[i] /\ \A j \in 1..(i - 1) : p[j] = q[j]  BY <1>1, <1>3, <2>1 DEF GreaterAt
    <3> QED  BY <2>1, <3>1 DEF Greater
  <2>2. CASE i > Len(q)
    <3>1. i - 1 = Len(q) /\ Len(q) < Len(p)  BY <1>1, <1>3, <2>2 DEF GreaterAt
    <3>2. \A j \in 1..Len(q) : q[j] = p[j]  BY <1>3, <3>1 DEF GreaterAt
    <3>3. IsPrefix(q, p)  BY <1>1, <3>1, <3>2, PrefixByPosition
    <3>4. q # p  BY <3>1, <1>1
    <3> QED  BY <3>3, <3>4 DEF Greater, IsStrictPrefix
  <2> QED  BY <1>1, <2>1, <2>2
<1> QED  BY <1>2, <1>3

LEMMA PathsAreOrdered ==
    ASSUME NEW p \in Paths, NEW q \in Paths
    PROVE  p = q \/ Greater(p, q) \/ Greater(q, p)
<1>1. Len(p) \in Nat /\ Len(q) \in Nat /\ p \in Seq(Nat) /\ q \in Seq(Nat)  BY DEF Paths
<1> DEFINE differing == {i \in 1..Len(p) : i <= Len(q) /\ p[i] # q[i]}
<1>2. CASE differing = {}
  <2>1. \A i \in 1..Len(p) : i <= Len(q) => p[i] = q[i]  BY <1>2
  <2>2. CASE Len(p) = Len(q)
    <3>1. \A i \in 1..Len(p) : p[i] = q[i]  BY <1>1, <2>1, <2>2
    <3> QED  BY <1>1, <2>2, <3>1, SeqEqual
  <2>3. CASE Len(p) < Len(q)
    <3>1. Len(p) + 1 \in 1..Len(q) /\ (Len(p) + 1) - 1 = Len(p)  BY <1>1, <2>3
    <3>2. \A j \in 1..Len(p) : q[j] = p[j]  BY <1>1, <2>1, <2>3
    <3>3. GreaterAt(q, p, Len(p) + 1)  BY <1>1, <3>1, <3>2 DEF GreaterAt
    <3> QED  BY <3>1, <3>3, GreaterSomewhere
  <2>4. CASE Len(q) < Len(p)
    <3>1. Len(q) + 1 \in 1..Len(p) /\ (Len(q) + 1) - 1 = Len(q)  BY <1>1, <2>4
    <3>2. \A j \in 1..Len(q) : p[j] = q[j]  BY <1>1, <2>1, <2>4
    <3>3. GreaterAt(p, q, Len(q) + 1)  BY <1>1, <3>1, <3>2 DEF GreaterAt
    <3> QED  BY <3>1, <3>3, GreaterSomewhere
  <2> QED  BY <1>1, <2>2, <2>3, <2>4
<1>3. CASE differing # {}
  <2> DEFINE i == Min(differing)
  <2>1. i \in differing /\ \A j \in differing : i <= j
    <3>1. differing \subseteq Nat  BY <1>1
    <3> HIDE DEF differing
    <3> QED  BY <1>3, <3>1, SmallestMember
  <2>2. i \in 1..Len(p) /\ i <= Len(q) /\ p[i] # q[i]  BY <2>1
  <2>3. \A j \in 1..(i - 1) : p[j] = q[j]
    <3> SUFFICES ASSUME NEW j \in 1..(i - 1) PROVE p[j] = q[j]  OBVIOUS
    <3> HIDE DEF i
    <3>1. j \in 1..Len(p) /\ j <= Len(q) /\ ~(i <= j)  BY <1>1, <2>2
    <3> QED  BY <2>1, <3>1
  <2> HIDE DEF i
  <2>4. p[i] \in Nat /\ q[i] \in Nat /\ i \in 1..Len(q)  BY <1>1, <2>2
  <2>5. GreaterAt(p, q, i) \/ GreaterAt(q, p, i)
    BY <1>1, <2>2, <2>3, <2>4 DEF GreaterAt
  <2> QED  BY <2>2, <2>4, <2>5, GreaterSomewhere
<1> QED  BY <1>2, <1>3

LEMMA GreaterIsTransitive ==
    ASSUME NEW p \in Paths, NEW q \in Paths, NEW r \in Paths,
           Greater(p, q), Greater(q, r)
    PROVE  Greater(p, r)
<1>1. /\ Len(p) \in Nat /\ Len(q) \in Nat /\ Len(r) \in Nat
      /\ p \in Seq(Nat) /\ q \in Seq(Nat) /\ r \in Seq(Nat)
  BY DEF Paths
<1>2. PICK i \in 1..Len(p) : GreaterAt(p, q, i)  BY GreaterSomewhere
<1>3. PICK k \in 1..Len(q) : GreaterAt(q, r, k)  BY GreaterSomewhere
<1>4. /\ \A j \in 1..(i - 1) : p[j] = q[j]
      /\ \A j \in 1..(k - 1) : q[j] = r[j]
      /\ i - 1 <= Len(q) /\ (i > Len(q) \/ p[i] > q[i])
      /\ k - 1 <= Len(r) /\ (k > Len(r) \/ q[k] > r[k])
  BY <1>2, <1>3 DEF GreaterAt
<1>5. CASE i < k
  <2>0. i <= k - 1 /\ i \in Nat /\ 1 <= i /\ k \in Nat  BY <1>1, <1>5
  <2>1. i \in 1..Len(q) /\ i \in 1..Len(r) /\ i - 1 <= Len(r)
    <3>1. k <= Len(q) /\ k - 1 <= Len(r)  BY <1>1, <1>4
    <3> QED  BY <1>1, <2>0, <3>1
  <2>2. p[i] > q[i] /\ q[i] = r[i]  BY <1>1, <1>4, <1>5, <2>1
  <2>3. \A j \in 1..(i - 1) : p[j] = r[j]  BY <1>1, <1>4, <1>5
  <2>4. GreaterAt(p, r, i)  BY <2>1, <2>2, <2>3 DEF GreaterAt
  <2> QED  BY <2>4, GreaterSomewhere
<1>6. CASE i = k
  <2>0. i \in 1..Len(q) /\ ~(i > Len(q))  BY <1>1, <1>6
  <2>1. p[i] > q[i] /\ p[i] \in Nat /\ q[i] \in Nat  BY <1>1, <1>4, <2>0
  <2>2. i > Len(r) \/ p[i] > r[i]
    <3>1. CASE k > Len(r)  BY <1>6, <3>1
    <3>2. CASE ~(k > Len(r))
      <4>1. r[i] \in Nat  BY <1>1, <1>6, <3>2
      <4> QED  BY <1>4, <1>6, <2>1, <3>2, <4>1
    <3> QED  BY <3>1, <3>2
  <2>3. \A j \in 1..(i - 1) : p[j] = r[j]  BY <1>4, <1>6
  <2>4. GreaterAt(p, r, i)  BY <1>4, <1>6, <2>2, <2>3 DEF GreaterAt
  <2> QED  BY <2>4, GreaterSomewhere
<1>7. CASE k < i
  <2>1. k \in 1..Len(p) /\ p[k] = q[k]  BY <1>1, <1>4, <1>7
  <2>2. \A j \in 1..(k - 1) : p[j] = r[j]  BY <1>1, <1>4, <1>7
  <2>3. GreaterAt(p, r, k)  BY <1>4, <2>1, <2>2 DEF GreaterAt
  <2> QED  BY <2>1, <2>3, GreaterSomewhere
<1> QED  BY <1>1, <1>5, <1>6, <1>7

\* Of two paths that another one begins with, the greater is the longer.
LEMMA GreaterPrefixIsLonger ==
    ASSUME NEW p \in Paths, NEW q \in Paths, NEW s \in Paths,
           Greater(p, q), IsPrefix(p, s), IsPrefix(q, s)
    PROVE  Len(q) < Len(p)
<1>1. Len(p) \in Nat /\ Len(q) \in Nat /\ p \in Seq(Nat) /\ q \in Seq(Nat)  BY DEF Paths
<1>2. PICK i \in 1..Len(p) : GreaterAt(p, q, i)  BY GreaterSomewhere
<1>3. /\ \A j \in 1..Len(p) : p[j] = s[j]
      /\ \A j \in 1..Len(q) : q[j] = s[j]
  BY PrefixByPosition
<1>4. CASE i > Len(q)  BY <1>1, <1>4
<1>5. CASE i <= Len(q)
  <2>1. p[i] = q[i] /\ p[i] \in Nat  BY <1>1, <1>3, <1>5
  <2>2. p[i] > q[i]  BY <1>1, <1>2, <1>5 DEF GreaterAt
  <2> QED  BY <2>1, <2>2
<1> QED  BY <1>1, <1>4, <1>5

-----------------------------------------------------------------------------
(* The handlers of a method. *)

RoutesTo(H) == [path : Paths, handler : H]

LEMMA PositionIsFirstStop ==
    ASSUME NEW H, NEW handlers \in Seq(RoutesTo(H)), NEW path \in Paths
    PROVE  /\ Position(handlers, path) \in 1..(Len(handlers) + 1)
           /\ \A j \in 1..Len(handlers) :
                 j < Position(handlers, path) => ~IsStop(handlers, path, j)
           /\ Position(handlers, path) <= Len(handlers) =>
                 IsStop(handlers, path, Position(handlers, path))
<1> DEFINE stops == {i \in 1..Len(handlers) : IsStop(handlers, path, i)}
<1>1. Len(handlers) \in Nat  OBVIOUS
<1>2. CASE stops = {}
  <2>1. Position(handlers, path) = Len(handlers) + 1  BY <1>2 DEF Position
  <2>2. \A j \in 1..Len(handlers) : ~IsStop(handlers, path, j)  BY <1>2
  <2> QED  BY <1>1, <2>1, <2>2
<1>3. CASE stops # {}
  <2>1. Position(handlers, path) = Min(stops)  BY <1>3 DEF Position
  <2>2. stops \subseteq Nat  BY <1>1
  <2>3. stops \subseteq 1..Len(handlers) /\ \A j \in 1..Len(handlers) :
           j \in stops <=> IsStop(handlers, path, j)
    OBVIOUS
  <2> HIDE DEF stops
  <2> DEFINE first == Min(stops)
  <2>4. first \in stops /\ \A n \in stops : first <= n
    BY <1>3, <2>2, SmallestMember
  <2> HIDE DEF first
  <2>5. first \in 1..Len(handlers) /\ IsStop(handlers, path, first)  BY <2>3, <2>4
  <2>6. \A j \in 1..Len(handlers) : j < first => ~IsStop(handlers, path, j)
    <3> SUFFICES ASSUME NEW j \in 1..Len(handlers), j < first, j \in stops PROVE FALSE
      BY <2>3
    <3>1. first <= j  BY <2>4
    <3> QED  BY <1>1, <2>5, <3>1
  <2>7. Position(handlers, path) = first  BY <2>1 DEF first
  <2> QED  BY <1>1, <2>5, <2>6, <2>7
<1> QED  BY <1>2, <1>3

LEMMA InsertedAt ==
    ASSUME NEW S, NEW s \in Seq(S), NEW i \in 1..(Len(s) + 1), NEW e \in S
    PROVE  /\ InsertAt(s, i, e) \in Seq(S)
           /\ Len(InsertAt(s, i, e)) = Len(s) + 1
           /\ \A j \in 1..(Len(s) + 1) :
                 InsertAt(s, i, e)[j] = IF j < i THEN s[j] ELSE IF j = i THEN e ELSE s[j - 1]
<1> DEFINE a == SubSeq(s, 1, i - 1)
           b == SubSeq(s, i, Len(s))
           c == a \o <<e>>
           t == c \o b
<1>1. Len(s) \in Nat /\ i \in Nat  OBVIOUS
<1>2. a \in Seq(S) /\ Len(a) = i - 1 /\ \A j \in 1..(i - 1) : a[j] = s[j]  BY <1>1
<1>3. /\ b \in Seq(S) /\ Len(b) = Len(s) - i + 1
      /\ \A j \in 1..(Len(s) - i + 1) : b[j] = s[i + j - 1]
  BY <1>1
<1>4. InsertAt(s, i, e) = t  BY DEF InsertAt
<1> HIDE DEF a, b
<1>5. /\ c \in Seq(S) /\ Len(c) = i
      /\ \A j \in 1..i : c[j] = IF j < i THEN s[j] ELSE e
  BY <1>1, <1>2
<1> HIDE DEF c
<1>6. t \in Seq(S) /\ Len(t) = Len(s) + 1
  <2>0. b \in Seq(S) /\ c \in Seq(S)  BY <1>3, <1>5
  <2>1. t \in Seq(S) /\ Len(t) = Len(c) + Len(b)  BY <2>0, ConcatProperties
  <2> QED  BY <1>1, <1>3, <1>5, <2>1
<1>7. ASSUME NEW j \in 1..(Len(s) + 1)
      PROVE  t[j] = IF j < i THEN s[j] ELSE IF j = i THEN e ELSE s[j - 1]
  <2>1. CASE j <= i
    <3>1. t[j] = c[j]  BY <1>1, <1>3, <1>5, <2>1
    <3> QED  BY <1>1, <1>5, <2>1, <3>1
  <2>2. CASE j > i
    <3>1. t[j] = b[j - i]  BY <1>1, <1>3, <1>5, <2>2
    <3>2. j - i \in 1..(Len(s) - i + 1) /\ i + (j - i) - 1 = j - 1  BY <1>1, <2>2
    <3>3. b[j - i] = s[j - 1]  BY <1>3, <3>2
    <3> QED  BY <1>1, <2>2, <3>1, <3>3
  <2>3. j <= i \/ j > i  BY <1>1
  <2> QED  BY <2>1, <2>2, <2>3
<1> HIDE DEF t
<1> QED  BY <1>4, <1>6, <1>7

\* What a new route finds in the list: greater paths before its position, lesser ones
\* from there on, or its own.
LEMMA PositionSplits ==
    ASSUME NEW H, NEW handlers \in Seq(RoutesTo(H)), NEW path \in Paths,
           IsOrdered(handlers), NEW j \in 1..Len(handlers)
    PROVE  /\ j < Position(handlers, path) => Greater(handlers[j].path, path)
           /\ /\ j >= Position(handlers, path)
              /\ handlers[Position(handlers, path)].path # path
              => Greater(path, handlers[j].path)
<1> DEFINE pos == Position(handlers, path)
<1>0. Len(handlers) \in Nat /\ \A i \in 1..Len(handlers) : handlers[i] \in RoutesTo(H)
  OBVIOUS
<1>1. Len(handlers) \in Nat /\ \A i \in 1..Len(handlers) : handlers[i].path \in Paths
  BY <1>0 DEF RoutesTo
<1>2. /\ pos \in 1..(Len(handlers) + 1)
      /\ \A i \in 1..Len(handlers) : i < pos => ~IsStop(handlers, path, i)
      /\ pos <= Len(handlers) => IsStop(handlers, path, pos)
  BY PositionIsFirstStop
<1> HIDE DEF pos
<1>3. ASSUME j < pos PROVE Greater(handlers[j].path, path)
  <2>1. path # handlers[j].path /\ ~Greater(path, handlers[j].path)
    BY <1>2, <1>3 DEF IsStop
  <2> QED  BY <1>1, <2>1, PathsAreOrdered
<1>4. ASSUME j >= pos, handlers[pos].path # path PROVE Greater(path, handlers[j].path)
  <2>1. pos \in 1..Len(handlers)  BY <1>1, <1>2, <1>4
  <2>2. Greater(path, handlers[pos].path)  BY <1>2, <1>4, <2>1 DEF IsStop
  <2>3. CASE j = pos  BY <2>2, <2>3
  <2>4. CASE j # pos
    <3>1. pos < j  BY <1>1, <1>4, <2>1, <2>4
    <3>2. Greater(handlers[pos].path, handlers[j].path)  BY <2>1, <3>1 DEF IsOrdered
    <3> QED  BY <1>1, <2>1, <2>2, <3>2, GreaterIsTransitive
  <2> QED  BY <2>3, <2>4
<1> QED  BY <1>3, <1>4 DEF pos

LEMMA NoneIsGreaterThanItself ==
    ASSUME NEW p \in Paths PROVE ~Greater(p, p)
<1>1. Len(p) \in Nat /\ p \in Seq(Nat)  BY DEF Paths
<1>2. SUFFICES ASSUME NEW i \in 1..Len(p), GreaterAt(p, p, i) PROVE FALSE
  BY GreaterSomewhere
<1>3. p[i] \in Nat  BY <1>1
<1> QED  BY <1>1, <1>2, <1>3 DEF GreaterAt

\* A list stays in the order of its paths, and a route replaces that of the same path.
LEMMA InsertIsExact ==
    ASSUME NEW H, NEW handlers \in Seq(RoutesTo(H)), NEW path \in Paths, NEW h \in H,
           IsOrdered(handlers)
    PROVE  /\ Insert(handlers, path, h) \in Seq(RoutesTo(H))
           /\ IsOrdered(Insert(handlers, path, h))
           /\ RoutesOf(Insert(handlers, path, h)) =
                 {r \in RoutesOf(handlers) : r.path # path}
                     \cup {[path |-> path, handler |-> h]}
<1> DEFINE pos == Position(handlers, path)
           new == [path |-> path, handler |-> h]
           t == Insert(handlers, path, h)
           old == {r \in RoutesOf(handlers) : r.path # path}
<1>1. Len(handlers) \in Nat /\ \A i \in 1..Len(handlers) : handlers[i] \in RoutesTo(H)
  OBVIOUS
<1>2. \A i \in 1..Len(handlers) : handlers[i].path \in Paths  BY <1>1 DEF RoutesTo
<1>3. new \in RoutesTo(H) /\ new.path = path  BY DEF RoutesTo
<1>4. pos \in 1..(Len(handlers) + 1)  BY PositionIsFirstStop
<1>5. CASE pos <= Len(handlers) /\ handlers[pos].path = path
  <2>1. pos \in 1..Len(handlers)  BY <1>1, <1>4, <1>5
  <2>2. t = [handlers EXCEPT ![pos].handler = h]  BY <1>5 DEF Insert
  <2>3. [handlers[pos] EXCEPT !.handler = h] = new
    <3> DEFINE r == handlers[pos]
    <3>1. r \in RoutesTo(H) /\ r.path = path  BY <1>1, <1>5, <2>1
    <3> HIDE DEF r
    <3> DEFINE u == [r EXCEPT !.handler = h]
    <3>2. u \in RoutesTo(H) /\ u.path = path /\ u.handler = h  BY <3>1 DEF RoutesTo
    <3> HIDE DEF u
    <3>3. u = new  BY <3>2 DEF RoutesTo
    <3> QED  BY <3>3 DEF r, u
  <2> HIDE DEF new, pos
  <2>4. t = [handlers EXCEPT ![pos] = new]  BY <2>2, <2>3
  <2> HIDE DEF t
  <2>5. t \in Seq(RoutesTo(H)) /\ Len(t) = Len(handlers)  BY <1>3, <2>1, <2>4
  <2>6. \A i \in 1..Len(handlers) : t[i] = IF i = pos THEN new ELSE handlers[i]
    BY <2>1, <2>4
  <2>7. \A i \in 1..Len(handlers) : t[i].path = handlers[i].path  BY <1>3, <1>5, <2>6
  <2>8. IsOrdered(t)  BY <2>5, <2>7 DEF IsOrdered
  <2>9. \A i \in 1..Len(handlers) : i # pos => handlers[i].path # path
    <3> SUFFICES ASSUME NEW i \in 1..Len(handlers), i # pos, handlers[i].path = path
                 PROVE  FALSE
      OBVIOUS
    <3>1. i < pos \/ pos < i  BY <1>1, <2>1
    <3>2. Greater(path, path)  BY <1>5, <2>1, <3>1 DEF IsOrdered
    <3> QED  BY <3>2, NoneIsGreaterThanItself
  <2>10. RoutesOf(t) = old \cup {new}
    <3>1. \A r : r \in RoutesOf(t) <=> \E i \in 1..Len(handlers) : r = t[i]
      BY <2>5 DEF RoutesOf
    <3>2. \A r : r \in old <=> r.path # path /\ \E i \in 1..Len(handlers) : r = handlers[i]
      BY DEF RoutesOf
    <3> HIDE DEF old
    <3>3. ASSUME NEW r \in RoutesOf(t) PROVE r \in old \cup {new}
      BY <2>6, <2>9, <3>1, <3>2
    <3>4. ASSUME NEW r \in old PROVE r \in RoutesOf(t)
      <4>1. PICK i \in 1..Len(handlers) : r = handlers[i] /\ r.path # path  BY <3>2
      <4>2. i # pos  BY <1>5, <4>1
      <4> QED  BY <2>6, <3>1, <4>1, <4>2
    <3>5. new \in RoutesOf(t)  BY <2>1, <2>6, <3>1
    <3> QED  BY <3>3, <3>4, <3>5
  <2> QED  BY <2>5, <2>8, <2>10 DEF t, new
<1>6. CASE ~(pos <= Len(handlers) /\ handlers[pos].path = path)
  <2>1. t = InsertAt(handlers, pos, new)  BY <1>6 DEF Insert
  <2>2. \A j \in 1..Len(handlers) :
           /\ j < pos => Greater(handlers[j].path, path)
           /\ j >= pos => Greater(path, handlers[j].path)
    <3> SUFFICES ASSUME NEW j \in 1..Len(handlers)
                 PROVE  /\ j < pos => Greater(handlers[j].path, path)
                        /\ j >= pos => Greater(path, handlers[j].path)
      OBVIOUS
    <3>1. j >= pos => handlers[pos].path # path  BY <1>1, <1>4, <1>6
    <3> QED  BY <3>1, PositionSplits
  <2> HIDE DEF new, pos
  <2>3. /\ t \in Seq(RoutesTo(H)) /\ Len(t) = Len(handlers) + 1
        /\ \A j \in 1..(Len(handlers) + 1) :
              t[j] = IF j < pos THEN handlers[j] ELSE IF j = pos THEN new ELSE handlers[j - 1]
    <3> DEFINE R == RoutesTo(H)
    <3>1. handlers \in Seq(R) /\ new \in R /\ pos \in 1..(Len(handlers) + 1)
      BY <1>3, <1>4 DEF new
    <3> HIDE DEF R, t
    <3>2. InsertAt(handlers, pos, new) \in Seq(R)  BY <3>1, InsertedAt
    <3>3. Len(InsertAt(handlers, pos, new)) = Len(handlers) + 1  BY <3>1, InsertedAt
    <3>4. \A j \in 1..(Len(handlers) + 1) :
             InsertAt(handlers, pos, new)[j] =
                 IF j < pos THEN handlers[j] ELSE IF j = pos THEN new ELSE handlers[j - 1]
      BY <3>1, InsertedAt
    <3> QED  BY <2>1, <3>2, <3>3, <3>4 DEF R
  <2> HIDE DEF t
  <2>4. IsOrdered(t)
    <3> SUFFICES ASSUME NEW i \in 1..Len(t), NEW j \in 1..Len(t), i < j
                 PROVE  Greater(t[i].path, t[j].path)
      BY DEF IsOrdered
    <3>1. i \in 1..(Len(handlers) + 1) /\ j \in 1..(Len(handlers) + 1)  BY <2>3
    <3>2. CASE j < pos
      <4>1. i \in 1..Len(handlers) /\ j \in 1..Len(handlers) /\ i < pos
        BY <1>1, <1>4, <3>1, <3>2
      <4> QED  BY <2>3, <3>1, <3>2, <4>1 DEF IsOrdered
    <3>3. CASE j = pos
      <4>1. i \in 1..Len(handlers) /\ i < pos  BY <1>1, <1>4, <3>1, <3>3
      <4>2. t[i] = handlers[i] /\ t[j] = new  BY <2>3, <3>1, <3>3, <4>1
      <4> QED  BY <1>3, <2>2, <4>1, <4>2
    <3>4. CASE j > pos
      <4>1. j - 1 \in 1..Len(handlers) /\ j - 1 >= pos /\ ~(j < pos) /\ j # pos
        BY <1>1, <1>4, <3>1, <3>4
      <4>2. t[j] = handlers[j - 1]  BY <2>3, <3>1, <4>1
      <4>3. CASE i < pos
        <5>1. i \in 1..Len(handlers) /\ i < j - 1  BY <1>1, <1>4, <3>1, <4>1, <4>3
        <5>2. t[i] = handlers[i]  BY <2>3, <3>1, <4>3
        <5> QED  BY <4>1, <4>2, <5>1, <5>2 DEF IsOrdered
      <4>4. CASE i = pos
        <5>1. t[i] = new  BY <1>4, <2>3, <3>1, <4>4
        <5> QED  BY <1>3, <2>2, <4>1, <4>2, <5>1
      <4>5. CASE i > pos
        <5>1. i - 1 \in 1..Len(handlers) /\ i - 1 < j - 1 /\ ~(i < pos) /\ i # pos
          BY <1>1, <1>4, <3>1, <4>1, <4>5
        <5>2. t[i] = handlers[i - 1]  BY <2>3, <3>1, <5>1
        <5> QED  BY <4>1, <4>2, <5>1, <5>2 DEF IsOrdered
      <4> QED  BY <1>4, <3>1, <4>3, <4>4, <4>5
    <3> QED  BY <1>4, <3>1, <3>2, <3>3, <3>4
  <2>5. \A i \in 1..Len(handlers) : handlers[i].path # path
    <3> SUFFICES ASSUME NEW i \in 1..Len(handlers), handlers[i].path = path PROVE FALSE
      OBVIOUS
    <3>1. i < pos \/ i >= pos  BY <1>1, <1>4
    <3>2. Greater(path, path)  BY <2>2, <3>1
    <3> QED  BY <3>2, NoneIsGreaterThanItself
  <2>6. RoutesOf(t) = old \cup {new}
    <3>1. \A r : r \in RoutesOf(t) <=> \E i \in 1..(Len(handlers) + 1) : r = t[i]
      BY <2>3 DEF RoutesOf
    <3>2. \A r : r \in old <=> \E i \in 1..Len(handlers) : r = handlers[i]
      BY <2>5 DEF RoutesOf
    <3> HIDE DEF old
    <3>3. ASSUME NEW r \in RoutesOf(t) PROVE r \in old \cup {new}
      <4>1. PICK i \in 1..(Len(handlers) + 1) : r = t[i]  BY <3>1
      <4>2. CASE i < pos
        <5>1. i \in 1..Len(handlers) /\ r = handlers[i]  BY <1>1, <1>4, <2>3, <4>1, <4>2
        <5> QED  BY <3>2, <5>1
      <4>3. CASE i = pos  BY <1>4, <2>3, <4>1, <4>3
      <4>4. CASE i > pos
        <5>1. i - 1 \in 1..Len(handlers) /\ ~(i < pos) /\ i # pos  BY <1>1, <1>4, <4>4
        <5>2. r = handlers[i - 1]  BY <2>3, <4>1, <5>1
        <5> QED  BY <3>2, <5>1, <5>2
      <4> QED  BY <1>4, <4>2, <4>3, <4>4
    <3>4. ASSUME NEW r \in old PROVE r \in RoutesOf(t)
      <4>1. PICK i \in 1..Len(handlers) : r = handlers[i]  BY <3>2
      <4>2. CASE i < pos
        <5>1. i \in 1..(Len(handlers) + 1) /\ t[i] = handlers[i]  BY <1>1, <2>3, <4>2
        <5> QED  BY <3>1, <4>1, <5>1
      <4>3. CASE i >= pos
        <5>1. /\ i + 1 \in 1..(Len(handlers) + 1) /\ ~(i + 1 < pos) /\ i + 1 # pos
              /\ (i + 1) - 1 = i
          BY <1>1, <1>4, <4>3
        <5>2. t[i + 1] = handlers[i]  BY <2>3, <5>1
        <5> QED  BY <3>1, <4>1, <5>1, <5>2
      <4> QED  BY <1>4, <4>2, <4>3
    <3>5. new \in RoutesOf(t)  BY <1>4, <2>3, <3>1
    <3> QED  BY <3>3, <3>4, <3>5
  <2> QED  BY <2>3, <2>4, <2>6 DEF t, new
<1> QED  BY <1>5, <1>6

-----------------------------------------------------------------------------
(* The router. *)

\* A router of the methods M, with handlers out of H, all in order.
IsRouter(router, M, H) ==
    router \in [M -> Seq(RoutesTo(H))] /\ \A m \in M : IsOrdered(router[m])

\* addRoute() keeps the lists in order, replaces the route of a path that has one, and
\* changes nothing when it refuses a route (HttpRequestRouter::addRoute).
THEOREM RoutesAreKept ==
    ASSUME NEW M, NEW H, NEW router, IsRouter(router, M, H),
           NEW m \in M, NEW path \in Paths, NEW h \in H
    PROVE  /\ IsRouter(AddRoute(router, m, path, h), M, H)
           /\ \A other \in M \ {m} : AddRoute(router, m, path, h)[other] = router[other]
           /\ RoutesOf(AddRoute(router, m, path, h)[m]) =
                 IF IsAccepted(m, path, h)
                 THEN {r \in RoutesOf(router[m]) : r.path # path}
                          \cup {[path |-> path, handler |-> h]}
                 ELSE RoutesOf(router[m])
<1>1. CASE IsAccepted(m, path, h)
  <2> DEFINE list == Insert(router[m], path, h)
  <2>1. router[m] \in Seq(RoutesTo(H)) /\ IsOrdered(router[m])  BY DEF IsRouter
  <2>2. /\ list \in Seq(RoutesTo(H)) /\ IsOrdered(list)
        /\ RoutesOf(list) = {r \in RoutesOf(router[m]) : r.path # path}
                                \cup {[path |-> path, handler |-> h]}
    BY <2>1, InsertIsExact
  <2>3. AddRoute(router, m, path, h) = [router EXCEPT ![m] = list]  BY <1>1 DEF AddRoute
  <2> HIDE DEF list
  <2>4. \A o \in M : AddRoute(router, m, path, h)[o] = IF o = m THEN list ELSE router[o]
    BY <2>3 DEF IsRouter
  <2>5. AddRoute(router, m, path, h) \in [M -> Seq(RoutesTo(H))]
    BY <2>2, <2>3 DEF IsRouter
  <2>6. IsRouter(AddRoute(router, m, path, h), M, H)  BY <2>2, <2>4, <2>5 DEF IsRouter
  <2> QED  BY <1>1, <2>2, <2>4, <2>6
<1>2. CASE ~IsAccepted(m, path, h)  BY <1>2 DEF AddRoute
<1> QED  BY <1>1, <1>2

\* getHandler() finds the handler of the most specific route, and none only if there is
\* none (HttpRequestRouter::getHandler; "the handler mapped to the most specific path",
\* AddingHandlers.md).
THEOREM MostSpecificIsFound ==
    ASSUME NEW M, NEW H, NEW router, IsRouter(router, M, H), NEW m \in M, NEW path \in Paths
    PROVE  IsMostSpecific(GetHandler(router, m, path), RoutesOf(router[m]), path)
<1> DEFINE handlers == router[m]
           positions == {i \in 1..Len(handlers) : IsPrefix(handlers[i].path, path)}
           matching == {r \in RoutesOf(handlers) : IsPrefix(r.path, path)}
           found == GetHandler(router, m, path)
<1>1. handlers \in Seq(RoutesTo(H)) /\ IsOrdered(handlers)  BY DEF IsRouter
<1>2. found = IF positions = {} THEN NoHandler ELSE handlers[Min(positions)].handler
  BY DEF GetHandler
<1> HIDE DEF handlers, found
<1>3. Len(handlers) \in Nat /\ \A i \in 1..Len(handlers) : handlers[i].path \in Paths
  <2>1. Len(handlers) \in Nat /\ \A i \in 1..Len(handlers) : handlers[i] \in RoutesTo(H)
    BY <1>1
  <2> QED  BY <2>1 DEF RoutesTo
<1>4. \A r : r \in matching <=> \E i \in positions : r = handlers[i]  BY DEF RoutesOf
<1>5. \A i \in positions : i \in 1..Len(handlers) /\ IsPrefix(handlers[i].path, path)
  OBVIOUS
<1>6. positions \subseteq Nat  BY <1>3
<1> HIDE DEF positions, matching
<1>7. CASE positions = {}
  <2>1. matching = {} /\ found = NoHandler  BY <1>2, <1>4, <1>7
  <2> QED  BY <2>1 DEF IsMostSpecific, matching, found, handlers
<1>8. CASE positions # {}
  <2> DEFINE first == Min(positions)
  <2>1. first \in positions /\ \A i \in positions : first <= i
    BY <1>6, <1>8, SmallestMember
  <2>2. found = handlers[first].handler  BY <1>2, <1>8
  <2> HIDE DEF first
  <2>3. handlers[first] \in matching  BY <1>4, <2>1
  <2>4. \A s \in matching \ {handlers[first]} : Len(s.path) < Len(handlers[first].path)
    <3> SUFFICES ASSUME NEW s \in matching, s # handlers[first]
                 PROVE  Len(s.path) < Len(handlers[first].path)
      OBVIOUS
    <3>1. PICK i \in positions : s = handlers[i]  BY <1>4
    <3>2. first < i  BY <1>6, <2>1, <3>1
    <3>3. Greater(handlers[first].path, handlers[i].path)
      BY <1>1, <1>5, <2>1, <3>2 DEF IsOrdered
    <3> QED  BY <1>3, <1>5, <2>1, <3>1, <3>3, GreaterPrefixIsLonger
  <2>5. matching # {} /\ \E r \in matching :
           r.handler = found /\ \A s \in matching \ {r} : Len(s.path) < Len(r.path)
    BY <2>2, <2>3, <2>4
  <2> QED  BY <2>5 DEF IsMostSpecific, matching, found, handlers
<1> QED  BY <1>7, <1>8

=============================================================================
