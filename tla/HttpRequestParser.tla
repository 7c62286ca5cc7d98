-------------------------- MODULE HttpRequestParser --------------------------
(***************************************************************************)
(* The incremental parser of a connection (Src/Http/HttpRequestParser.cpp, *)
(* HttpChunkMetadataParser.cpp, HttpRequestBody.h, HttpFieldBlock.cpp).    *)
(* It works in the read buffer of the channel: bytes stay there until      *)
(* parse() skips them, at the start of the call after the one that handed  *)
(* them over, and every index counts from what is left.                    *)
(*                                                                         *)
(* One step is one call of parse(). It ends where the bytes that have      *)
(* arrived end, and each function below maps the members of the parser     *)
(* (and the channel's read position) to those it leaves behind.            *)
(***************************************************************************)
EXTENDS RequestShapes

CONSTANTS
    Connections,  \* what clients may send: sequences of requests
    LimitsFor(_)  \* the limits a connection is tried with

ASSUME LimitsAssumption == \A requests \in Connections : LimitsFor(requests) \subseteq Limits

VARIABLES
    frames, wire,      \* what the connection carries, and its bytes
    limits,            \* the limits of the server
    arrived,           \* the number of them that have arrived
    parser,            \* the members of HttpRequestParser, HttpRequestPrivate and the channel
    status,            \* the result of the last call of parse()
    begun, ended, handed  \* what was handed over, as RequestFraming counts it

vars == <<frames, wire, limits, arrived, parser, status, begun, ended, handed>>

NoLine == [options |-> FALSE, path |-> 0, pathSize |-> 0, query |-> 0, querySize |-> 0]

BodyOf(type, size) == [type |-> type, size |-> size, pending |-> size, index |-> 0, part |-> 0]

NoBody == BodyOf("NoBody", 0)

Block(start) == [start |-> start, lines |-> <<>>]

Init ==
    /\ \E requests \in Connections :
          /\ limits \in LimitsFor(requests)
          /\ frames = Frames(requests, limits)
          /\ wire = FlattenSeq([i \in DOMAIN requests |-> Bytes(requests[i])])
    /\ arrived = 0
    /\ parser = [state |-> "RequestLine", error |-> "NoError", skipped |-> 0, requestSize |-> 0, trailersSize |-> 0,
                 host |-> FALSE, expects |-> FALSE, interim |-> 0,
                 line |-> NoLine, body |-> NoBody, block |-> Block(0)]
    /\ status = "NeedsMoreData"
    /\ begun = 0 /\ ended = 0 /\ handed = <<>>

(* ------------------------------ the channel ---------------------------- *)

Available(p) == arrived - p.skipped

At(p, i) == wire[p.skipped + i + 1]

Slice(p, i, n) == [k \in 1..n |-> At(p, i + k - 1)]

Skip(p, n) == [p EXCEPT !.skipped = @ + n]

\* The first index from i on that is not one of those that pass, or the last one to look at.
Stop(i, last, passing) ==
    CHOOSE j \in i..last : i..(j - 1) \subseteq passing /\ (j = last \/ j \notin passing)

ScanTo(p, i, last, class) == Stop(i, last, {k \in i..last : At(p, k) \in class})

(* ------------------------------ the results ---------------------------- *)

Result(p, s) == [parser |-> p, status |-> s]

NeedsMoreData(p) == Result(p, "NeedsMoreData")

\* The loop over the field lines goes on.
Another(p) == Result(p, "Another")

Fail(p, e) == Result([p EXCEPT !.state = "RequestLine", !.error = e], "Failed")

\* Waits for more of a request that has n bytes so far, the URL included, unless it is too big already.
Within(p, n, start) == n - start <= limits.maxUrlSize /\ n <= limits.maxRequestSize

AwaitLine(p, n, start) ==
    IF Within(p, n, start) THEN NeedsMoreData([p EXCEPT !.requestSize = 0])
    ELSE Fail([p EXCEPT !.requestSize = n], "TooBigRequest")

(* --------------------------- HttpRequestBody --------------------------- *)

Handing(body, i, n) ==
    [body EXCEPT !.index = i, !.part = n, !.pending = @ - n, !.size = IF body.type = "Chunked" THEN @ + n ELSE @]

SetCurrentBodyPart(p, i, n) == [p EXCEPT !.body = Handing(@, i, n)]

PartEnd(p) == p.body.index + p.body.part

(* ------------------------------ header lines --------------------------- *)

\* The field line from index i on: where its name and its value end, or why they do not yet. before is the size of
\* what the indices do not count of the request, one is what the look at an unfinished value adds to its size.
FieldLine(p, i, before, one, nameSize, valueSize) ==
    LET avail == Available(p)
        colon == ScanTo(p, i, avail - 1, NameBytes)
        value == colon + 1
        end == ScanTo(p, value, avail - 4, TextBytes)
        is(outcome) == [outcome |-> outcome, name |-> i, colon |-> colon]
    IN IF At(p, colon) = ":"
       THEN CASE colon = i -> is("MalformedRequest")
              [] colon > i /\ colon - i > nameSize -> is("TooBigRequest")
              [] colon > i /\ colon - i <= nameSize /\ colon + 5 > avail -> is("more")
              [] OTHER ->
                   IF Slice(p, end, 2) = CRLF
                   THEN IF end - value <= valueSize /\ before + end + 2 <= limits.maxRequestSize
                        THEN [outcome |-> "line", name |-> i, colon |-> colon, end |-> end]
                        ELSE is("TooBigRequest")
                   ELSE IF end + 4 = avail
                        THEN IF end - value + one <= valueSize /\ before + end + 4 <= limits.maxRequestSize
                             THEN is("more") ELSE is("TooBigRequest")
                        ELSE is("MalformedRequest")
       ELSE IF colon + 1 = avail
            THEN IF colon - i + 1 <= nameSize /\ before + colon + 1 <= limits.maxRequestSize
                 THEN is("more") ELSE is("TooBigRequest")
            ELSE is("MalformedRequest")

NameOf(p, f) == Slice(p, f.name, f.colon - f.name)
ValueOf(p, f) == Slice(p, f.colon + 1, f.end - f.colon - 1)

\* The coding is chunked, alone or after a comma, and blanks.
EndsChunked(v) ==
    LET others == Trim(Front(v)) IN Last(v) = "chunked" /\ (others = <<>> \/ Last(others) = ",")

Verdict(p, ok) == [parser |-> p, ok |-> ok]

\* A fault: the last of several lengths wins.
ContentLengthUnchecked(p, v) ==
    IF v = <<>> \/ Len(v) > 19 \/ ~(Range(v) \subseteq Digits) THEN Verdict(p, FALSE)
    ELSE Verdict([p EXCEPT !.body = BodyOf("NotChunked", Number(v, 10))], p.body.type # "Chunked")

ContentLength(p, v) ==
    IF v = <<>> \/ Len(v) > 19 \/ ~(Range(v) \subseteq Digits) THEN Verdict(p, FALSE)
    ELSE CASE p.body.type = "Chunked"    -> Verdict(p, FALSE)
           [] p.body.type = "NotChunked" -> Verdict(p, p.body.size = Number(v, 10))
           [] p.body.type = "NoBody"     -> Verdict([p EXCEPT !.body = BodyOf("NotChunked", Number(v, 10))], TRUE)

TransferEncoding(p, v) ==
    IF v # <<>> /\ EndsChunked(v) /\ p.body.type = "NoBody"
    THEN Verdict([p EXCEPT !.body = BodyOf("Chunked", 0)], TRUE)
    ELSE Verdict(p, FALSE)

ValidateHeaderLine(p, f) ==
    LET v == Trim(ValueOf(p, f))
    IN CASE NameOf(p, f) = <<"Host">>              -> Verdict([p EXCEPT !.host = ~@], ~p.host)
         [] NameOf(p, f) = <<"Content-Length">>    -> ContentLength(p, v)
         [] NameOf(p, f) = <<"Transfer-Encoding">> -> TransferEncoding(p, v)
         [] NameOf(p, f) = <<"Expect">>            -> Verdict([p EXCEPT !.expects = @ \/ v = <<"100-continue">>], TRUE)
         [] OTHER                                  -> Verdict(p, TRUE)

AddFieldLine(p, f) ==
    [p EXCEPT !.block.lines = Append(@, [nameSize |-> f.colon - f.name, valueSize |-> f.end - f.colon - 1])]

\* The header of a request with a body of a known size hands over what has arrived of it.
BeginBody(p) ==
    LET total == p.requestSize + p.body.size
    IN IF p.body.size > limits.maxBodySize \/ total > limits.maxRequestSize THEN Fail(p, "TooBigRequest")
       ELSE IF total <= Available(p)
       THEN Result([SetCurrentBodyPart(p, p.requestSize, p.body.size) EXCEPT !.requestSize = total, !.state = "RequestLine"],
                   "ParsedRequest")
       ELSE Result([SetCurrentBodyPart(p, p.requestSize, Available(p) - p.requestSize)
                       EXCEPT !.requestSize = Available(p), !.state = "Body"],
                   "ParsedRequest")

EndHeaders(p) ==
    LET q == [p EXCEPT !.requestSize = @ + 2, !.interim = IF p.expects THEN @ + 1 ELSE @]
    IN IF ~p.host THEN Fail(p, "MalformedRequest")
       ELSE CASE q.body.type = "NotChunked" -> BeginBody(q)
              [] q.body.type = "Chunked"    -> Result([SetCurrentBodyPart(q, q.requestSize, 0) EXCEPT !.state = "ChunkMetadata"],
                                                      "ParsedRequest")
              [] q.body.type = "NoBody"     -> Result([q EXCEPT !.state = "RequestLine"], "ParsedRequest")

Least(a, b) == IF a <= b THEN a ELSE b
MaxFieldLines == 128

\* What is made of a line that was looked at, f.
TakeHeaderLine(p, f) ==
    LET next == f.end + 2
        checked == ValidateHeaderLine([p EXCEPT !.requestSize = next], f)
        added == AddFieldLine(checked.parser, f)
    IN IF f.outcome = "more" THEN NeedsMoreData(p)
       ELSE IF f.outcome # "line" THEN Fail(p, f.outcome)
       ELSE IF ~checked.ok THEN Fail(checked.parser, "MalformedRequest")
       ELSE IF Slice(p, next, 2) = CRLF THEN EndHeaders(added)
       ELSE Another(added)

HeaderLine(p) ==
    TakeHeaderLine(p, FieldLine(p, p.requestSize, 0, 0, limits.maxHeaderNameSize, limits.maxHeaderValueSize))

TakeTrailerLine(p, f) ==
    LET next == f.end + 2
        added == [AddFieldLine(p, f) EXCEPT !.trailersSize = next]
        last == [added EXCEPT !.trailersSize = @ + 2, !.requestSize = @ + next + 2]
    IN IF f.outcome = "more" THEN NeedsMoreData(p)
       ELSE IF f.outcome # "line" THEN Fail(p, f.outcome)
       ELSE IF Slice(p, next, 2) # CRLF THEN Another(added)
       ELSE IF last.requestSize > limits.maxRequestSize THEN Fail(last, "TooBigRequest")
       ELSE Result([last EXCEPT !.state = "RequestLine"], "ParsedRequest")

TrailerLine(p) ==
    TakeTrailerLine(p, FieldLine(p, p.trailersSize, p.requestSize, 1, limits.maxTrailerNameSize, limits.maxTrailerValueSize))

\* What a number of passes through the loop over the lines make of the parser.
Passes(p, count) ==
    LET pass[n \in 0..count] ==
          IF n = 0 THEN Another(p)
          ELSE LET before == pass[n - 1]
               IN IF before.status # "Another" THEN before
                  ELSE IF p.state = "Headers" THEN HeaderLine(before.parser) ELSE TrailerLine(before.parser)
    IN pass[count]

\* Lines are left when the loop ends.
Exhausted(result) == IF result.status = "Another" THEN Fail(result.parser, "TooBigRequest") ELSE result

Lines(p, maxLineCount) == Exhausted(Passes(p, Least(MaxFieldLines, maxLineCount) - Len(p.block.lines)))

ParseHeaders(p) ==
    IF p.requestSize >= Available(p) THEN NeedsMoreData(p)
    ELSE Lines(p, limits.maxHeaderLineCount)

(* ------------------------------ request line --------------------------- *)

ParseVersion(p) ==
    LET next == p.requestSize + Len(Version)
        q == [p EXCEPT !.requestSize = next]
    IN IF next > Available(p)
       THEN IF next <= limits.maxRequestSize THEN NeedsMoreData([p EXCEPT !.requestSize = 0]) ELSE Fail(q, "TooBigRequest")
       ELSE IF Slice(p, p.requestSize, Len(Version)) # Version THEN Fail(p, "MalformedRequest")
       ELSE IF next > limits.maxRequestSize THEN Fail(q, "TooBigRequest")
       ELSE ParseHeaders([q EXCEPT !.state = "Headers", !.block = Block(next), !.body = NoBody,
                                   !.host = FALSE, !.expects = FALSE])

\* Where the scan of a path or a query stops: behind the last byte of the class, or escape, that has arrived. The digits of
\* an escape are of the class.
ScanUrl(p, i, class) ==
    LET last == Available(p) - 1
        escape(k) == At(p, k) = "%" /\ k + 3 <= last /\ {At(p, k + 1), At(p, k + 2)} \subseteq Digits
    IN Stop(i, last, {k \in i..last : At(p, k) \in class \/ escape(k)})

\* A path or a query that stops at a byte which ends neither.
StopUrl(p, i) ==
    CASE At(p, i) = "%" /\ i + 3 >= Available(p)     -> AwaitLine(p, i + 3, p.line.path)
      [] At(p, i) # "%" /\ i + 1 = Available(p)      -> AwaitLine(p, i + 1, p.line.path)
      [] OTHER                                       -> Fail([p EXCEPT !.requestSize = i], "MalformedRequest")

ParseQuery(p) ==
    LET i == ScanUrl(p, p.requestSize, QueryBytes)
        q == [p EXCEPT !.line.query = p.requestSize, !.line.querySize = i - p.requestSize, !.requestSize = i + 1]
    IN IF p.requestSize >= Available(p) THEN NeedsMoreData([p EXCEPT !.requestSize = 0])
       ELSE IF At(p, i) # " " THEN StopUrl(p, i)
       ELSE IF Within(p, i + 1, p.line.path + 1) THEN ParseVersion(q)
       ELSE Fail(q, "TooBigRequest")

ParsePath(p) ==
    LET i == ScanUrl(p, p.requestSize, PathBytes)
        q == [p EXCEPT !.line.path = p.requestSize, !.line.pathSize = i - p.requestSize, !.requestSize = i + 1]
    IN CASE At(p, i) = " " -> IF Within(q, i + 1, q.line.path + 1) THEN ParseVersion(q) ELSE Fail(q, "TooBigRequest")
         [] At(p, i) = "?" -> IF Within(q, i + 1, q.line.path) THEN ParseQuery(q) ELSE Fail(q, "TooBigRequest")
         [] OTHER          -> StopUrl([p EXCEPT !.line.path = p.requestSize], i)

ParseTarget(p) ==
    LET i == p.requestSize
    IN IF i + 2 > Available(p) THEN NeedsMoreData([p EXCEPT !.requestSize = 0])
       ELSE IF At(p, i) = "/" /\ At(p, i + 1) # "/" THEN ParsePath(p)
       ELSE IF p.line.options /\ At(p, i) = "*" /\ At(p, i + 1) = " "
       THEN ParseVersion([p EXCEPT !.line.path = i, !.line.pathSize = 1, !.requestSize = i + 2])
       ELSE Fail(p, "MalformedRequest")

\* The first eight bytes hold the longest method and the blank that ends it.
ParseMethod(p) ==
    LET blanks == {i \in 0..7 : At(p, i) = " "}
        word == Slice(p, 0, Min(blanks))
        options == Range(word) = {"o"}
        known == IF options THEN Len(word) = 7 ELSE Range(word) = {"m"} /\ Len(word) \in 3..6
    IN IF Available(p) < 8 THEN NeedsMoreData(p)
       ELSE IF blanks = {} \/ ~known THEN Fail(p, "MalformedRequest")
       ELSE ParseTarget([p EXCEPT !.requestSize = Len(word) + 1, !.line.options = options])

\* A fault: the trailers stay in the buffer.
LeftoverNoTrailers(p) ==
    CASE p.body.type = "NotChunked" -> PartEnd(p)
      [] p.body.type = "NoBody"     -> p.requestSize
      [] p.body.type = "Chunked"    -> 0

\* What is left of the last request is skipped first.
Leftover(p) ==
    CASE p.body.type = "NotChunked" -> PartEnd(p)
      [] p.body.type = "NoBody"     -> p.requestSize
      [] p.body.type = "Chunked"    -> p.trailersSize

ParseRequestLine(p) ==
    ParseMethod([Skip(p, Leftover(p)) EXCEPT !.requestSize = 0, !.trailersSize = 0, !.line = NoLine, !.body = NoBody])

(* --------------------------------- body -------------------------------- *)

HandsOver(p) == Result(p, IF p.body.part > 0 THEN "ParsedBody" ELSE "NeedsMoreData")

ParseBody(p) ==
    LET q == Skip(p, PartEnd(p))
        n == Least(q.body.pending, Available(q))
    IN HandsOver([SetCurrentBodyPart(q, 0, n) EXCEPT !.requestSize = @ + n,
                     !.state = IF q.body.pending <= Available(q) THEN "RequestLine" ELSE @])

(* -------------------------------- chunks ------------------------------- *)

MaxSizeDigits == 12

MetadataIs(outcome, data, size) == [outcome |-> outcome, data |-> data, size |-> size]

\* A fault: the look at what follows the last chunk is one byte too long.
AfterMetadataLookFar(p, i, data) ==
    CASE data > 0                            -> MetadataIs("data", data, i + 2)
      [] data = 0 /\ i + 4 >= Available(p)   -> MetadataIs("more", 0, 0)
      [] OTHER -> IF Slice(p, i + 2, 2) = CRLF THEN MetadataIs("end", 0, i + 4) ELSE MetadataIs("trailers", 0, i + 2)

\* What follows the size digits and the extensions, which end at index i.
AfterMetadata(p, i, data) ==
    CASE data > 0                            -> MetadataIs("data", data, i + 2)
      [] data = 0 /\ i + 4 > Available(p)    -> MetadataIs("more", 0, 0)
      [] OTHER -> IF Slice(p, i + 2, 2) = CRLF THEN MetadataIs("end", 0, i + 4) ELSE MetadataIs("trailers", 0, i + 2)

ChunkMetadata(p) ==
    LET avail == Available(p)
        digits == ScanTo(p, 0, avail - 1, Digits)
        i == ScanTo(p, digits, avail - 2, TextBytes)
        is(outcome) == MetadataIs(outcome, 0, 0)
    IN CASE avail < 3 -> is("more")
         [] avail >= 3 /\ digits \notin 1..MaxSizeDigits -> is("MalformedRequest")
         [] avail >= 3 /\ digits \in 1..MaxSizeDigits /\ digits + 1 >= avail -> is("more")
         [] OTHER ->
              IF Slice(p, i, 2) = CRLF THEN AfterMetadata(p, i, Number(Slice(p, 0, digits), 16))
              ELSE IF i + 2 = avail /\ At(p, i) # "cr" THEN is("more")
              ELSE is("MalformedRequest")

\* The part is skipped; two bytes are kept back, for they may be those that end the chunk.
ParseChunkData(p) ==
    LET q == SetCurrentBodyPart(Skip(p, PartEnd(p)), 0, 0)
        pending == q.body.pending
        all == pending + 2 <= Available(q)
        n == IF all THEN pending ELSE Available(q) - 2
        taken == [SetCurrentBodyPart(q, 0, n) EXCEPT !.requestSize = @ + n + IF all THEN 2 ELSE 0]
    IN IF Available(q) < 3 THEN NeedsMoreData(q)
       ELSE IF ~all THEN HandsOver(taken)
       ELSE IF Slice(q, n, 2) = CRLF THEN HandsOver([taken EXCEPT !.state = "ChunkMetadata"])
       ELSE Fail(taken, "MalformedRequest")

ParseTrailers(p) ==
    IF p.trailersSize >= Available(p) THEN NeedsMoreData(p)
    ELSE Lines(p, limits.maxTrailerLineCount)

\* The chunk of which a part was handed over last ends with a line break that is skipped with it.
ParseChunkMetadata(p) ==
    LET q == [SetCurrentBodyPart(Skip(p, PartEnd(p) + IF p.body.part > 0 THEN 2 ELSE 0), 0, 0) EXCEPT !.block = Block(0)]
        meta == ChunkMetadata(q)
        size == q.requestSize + meta.size
        read == [Skip(q, meta.size) EXCEPT !.requestSize = size, !.trailersSize = 0]
        fits == size <= limits.maxRequestSize /\ meta.size <= limits.maxChunkMetadataSize
        chunk == [read EXCEPT !.state = "ChunkData", !.body.pending = meta.data, !.body.index = 0, !.body.part = 0]
    IN CASE meta.outcome = "MalformedRequest" -> Fail(q, "MalformedRequest")
         [] meta.outcome = "more" ->
              IF q.requestSize + Available(q) <= limits.maxRequestSize /\ Available(q) <= limits.maxChunkMetadataSize
              THEN NeedsMoreData(q) ELSE Fail(q, "TooBigRequest")
         [] meta.outcome = "data" ->
              IF fits /\ size + meta.data + 2 <= limits.maxRequestSize /\ q.body.size + meta.data <= limits.maxBodySize
              THEN ParseChunkData(chunk) ELSE Fail(chunk, "TooBigRequest")
         [] meta.outcome = "end" ->
              IF fits THEN Result([read EXCEPT !.state = "RequestLine"], "ParsedRequest") ELSE Fail(read, "TooBigRequest")
         [] meta.outcome = "trailers" ->
              IF fits THEN ParseTrailers([read EXCEPT !.state = "Trailers"]) ELSE Fail(read, "TooBigRequest")

(* ------------------------------- the request --------------------------- *)

Path(p) == Slice(p, p.line.path, p.line.pathSize)
Query(p) == Slice(p, p.line.query, p.line.querySize)

\* A fault: the colon is not counted.
FieldStartNoColon(p, i) ==
    LET lines == p.block.lines
        at[k \in 1..i] == IF k = 1 THEN p.block.start ELSE at[k - 1] + lines[k - 1].nameSize + lines[k - 1].valueSize + 2
    IN at[i]

\* Where the name of the i-th field line begins: the lines are told apart by their sizes, a colon and a line break each.
FieldStart(p, i) ==
    LET lines == p.block.lines
        at[k \in 1..i] == IF k = 1 THEN p.block.start ELSE at[k - 1] + lines[k - 1].nameSize + lines[k - 1].valueSize + 3
    IN at[i]

FieldName(p, i) == Slice(p, FieldStart(p, i), p.block.lines[i].nameSize)
FieldValue(p, i) ==
    Trim(Slice(p, FieldStart(p, i) + p.block.lines[i].nameSize + 1, p.block.lines[i].valueSize))

\* The values of the fields with a name, in order; the last of a block may not be read beyond it.
FieldValues(p, name) ==
    LET named == SelectSeq([i \in DOMAIN p.block.lines |-> i], LAMBDA i : FieldName(p, i) = name)
    IN [k \in DOMAIN named |-> FieldValue(p, named[k])]

(* -------------------------------- actions ------------------------------ *)

Parsed ==
    CASE parser.state = "RequestLine"   -> ParseRequestLine(parser)
      [] parser.state = "Headers"       -> ParseHeaders(parser)
      [] parser.state = "Body"          -> ParseBody(parser)
      [] parser.state = "ChunkMetadata" -> ParseChunkMetadata(parser)
      [] parser.state = "ChunkData"     -> ParseChunkData(parser)
      [] parser.state = "Trailers"      -> ParseTrailers(parser)

\* The places in the stream of the part of the body that can be read.
Part(p) == [i \in 1..p.body.part |-> p.skipped + p.body.index + i]

\* A request was parsed: its header, or, if it was under way, its last chunk.
BeginsRequest == status' = "ParsedRequest" /\ begun = ended

IsComplete(p) ==
    CASE p.body.type = "NoBody"     -> TRUE
      [] p.body.type = "NotChunked" -> p.body.pending = 0
      [] p.body.type = "Chunked"    -> status' = "ParsedRequest" /\ begun > ended

HandOver ==
    /\ begun' = IF BeginsRequest THEN begun + 1 ELSE begun
    /\ handed' = CASE BeginsRequest           -> Part(parser')
                   [] status' = "ParsedBody"  -> handed \o Part(parser')
                   [] OTHER                   -> handed
    /\ ended' = IF status' \in {"ParsedRequest", "ParsedBody"} /\ IsComplete(parser') THEN ended + 1 ELSE ended

\* The handler parses until it needs more data or fails; it may also parse again without new data, when a response was written.
Parse ==
    /\ status # "Failed"
    /\ \E result \in {Parsed} : parser' = result.parser /\ status' = result.status
    /\ HandOver
    /\ UNCHANGED <<frames, wire, limits, arrived>>

\* One more byte has arrived; as parse() may be called later, any number of them.
Arrive ==
    /\ status # "Failed"
    /\ arrived < Len(wire)
    /\ arrived' = arrived + 1
    /\ UNCHANGED <<frames, wire, limits, parser, status, begun, ended, handed>>

Next == Arrive \/ Parse

Spec == Init /\ [][Next]_vars

(* ------------------------------ properties ----------------------------- *)

Framing == INSTANCE RequestFraming WITH interim <- parser.interim, verdict <- parser.error

\* The requests, the bodies and the errors the parser reports are those of the stream, whatever the pieces in
\* which it arrives: bodies are handed over byte by byte as they were sent, and a request is refused only for a fault of its own.
ImplementsFraming == Framing!Spec

\* How far the parser has got in what is left of the stream, between two calls.
Reached(p) ==
    CASE p.state = "RequestLine"   -> Leftover(p)
      [] p.state = "Headers"       -> p.requestSize
      [] p.state \in {"Body", "ChunkData"} -> PartEnd(p)
      [] p.state = "ChunkMetadata" -> PartEnd(p) + IF p.body.part > 0 THEN 2 ELSE 0
      [] p.state = "Trailers"      -> 0

\* Nothing is ever skipped that has not arrived.
NothingSkippedAhead == status # "Failed" => parser.skipped + Reached(parser) <= arrived

\* What m_requestSize has counted of a request when parse() is called: a request line is parsed from its first byte on.
Counted(p) == IF p.state = "RequestLine" THEN 0 ELSE p.requestSize

\* A call of parse() gets on in the stream by what it adds to m_requestSize, whatever it skips and wherever it stops: each
\* request begins where the one before it ended.
MovesAsCounted ==
    status # "Failed" =>
        \A result \in {Parsed} : result.status # "Failed" =>
            result.parser.skipped + Reached(result.parser) + Counted(parser)
                = parser.skipped + Reached(parser) + result.parser.requestSize

\* m_requestSize counts, from the first byte of the request on, up to the byte that is parsed next, whatever was skipped of it;
\* nothing is ever skipped that has not arrived, and the next call moves on by what it counts.
PositionsExact ==
    LET start == IF ended = Len(frames) THEN Len(wire) ELSE frames[ended + 1].from
    IN /\ NothingSkippedAhead
       /\ MovesAsCounted
       /\ status # "Failed" => parser.skipped + Reached(parser) = start + Counted(parser)

\* However the stream is cut: what is handed over of a body has arrived and is handed over in the order of the stream and
\* once, never more than maxBodySize; a body with a length is one run of bytes, as many as it says once it is complete, and
\* what has been handed over of a chunked one is as long as its recorded size.
BodiesAccounted ==
    LET n == Len(handed)
        under == begun > ended
    IN /\ n <= limits.maxBodySize
       /\ \A i \in 1..n : handed[i] <= arrived /\ \A j \in 1..(i - 1) : handed[j] < handed[i]
       /\ begun = ended \/ begun = ended + 1
       /\ status \in {"ParsedRequest", "ParsedBody"} =>
             CASE parser.body.type = "NoBody"     -> n = 0 /\ ~under
               [] parser.body.type = "Chunked"    -> n = parser.body.size
               [] parser.body.type = "NotChunked" ->
                    /\ n + parser.body.pending = parser.body.size
                    /\ under <=> n < parser.body.size
                    /\ \A i \in 1..n : handed[i] = handed[1] + i - 1

\* What the parser waits for more of, or hands over, is within the limits, but for the blank line behind a header.
SizesLimited ==
    status # "Failed" =>
        /\ parser.requestSize <= limits.maxRequestSize + 2
        /\ parser.state = "Headers" => Len(parser.block.lines) <= Least(MaxFieldLines, limits.maxHeaderLineCount)
        /\ parser.state = "Trailers" => Len(parser.block.lines) <= Least(MaxFieldLines, limits.maxTrailerLineCount)
        /\ parser.state = "Body" => parser.requestSize + parser.body.pending <= limits.maxRequestSize
        /\ parser.state = "ChunkData" => /\ parser.requestSize + parser.body.pending + 2 <= limits.maxRequestSize
                                         /\ parser.body.size + parser.body.pending <= limits.maxBodySize

\* An end has not arrived from index i on, nor what the parser looks at together with it.
NoneArrived(p, i, end, looked) == \A k \in i..(Available(p) - looked) : Slice(p, k, Len(end)) # end

NoBlankLine(p, i) == NoneArrived(p, i, CRLF \o CRLF, 4) /\ (i + 2 <= Available(p) => Slice(p, i, 2) # CRLF)

\* What the parser p waits for more of has no end in what has arrived: a request line or the size of a chunk no line break,
\* field lines no blank line behind them, and of a body there is nothing to hand over.
Incomplete(p) ==
    CASE p.state = "RequestLine"   -> NoneArrived(p, 0, CRLF, Len(Version))
      [] p.state = "Headers"       -> NoBlankLine(p, p.requestSize)
      [] p.state = "Body"          -> Available(p) = 0
      [] p.state = "ChunkData"     -> Available(p) <= 2
      [] p.state = "ChunkMetadata" -> NoneArrived(p, 0, CRLF, 4)
      [] p.state = "Trailers"      -> NoBlankLine(p, p.trailersSize)

\* Whatever has arrived: parse() never waits for more of what is there.
NothingCompleteWaits ==
    status # "Failed" => \A result \in {Parsed} : result.status = "NeedsMoreData" => Incomplete(result.parser)

\* When a call of parse() waits for more, what has arrived does not hold a whole request: the parser never waits for bytes
\* of the next one, and puts off no refusal beyond the end of a request; nor does it wait for more of what is there.
NothingHeldBack ==
    /\ NothingCompleteWaits
    /\ status # "Failed" /\ ended < Len(frames) /\ Parsed.status = "NeedsMoreData" => arrived < frames[ended + 1].to

\* The i-th field line is in the buffer what its sizes say: a name, a colon, a value and a line break.
FieldStands(p, i) ==
    LET name == FieldStart(p, i)
        colon == name + p.block.lines[i].nameSize
        end == colon + 1 + p.block.lines[i].valueSize
    IN /\ name < colon /\ \A k \in name..(colon - 1) : At(p, k) \in NameBytes
       /\ At(p, colon) = ":"
       /\ \A k \in (colon + 1)..(end - 1) : At(p, k) \in TextBytes
       /\ Slice(p, end, 2) = CRLF

\* The field lines follow one another, and the blank line follows the last one.
BlockStands(p) ==
    /\ \A i \in DOMAIN p.block.lines : FieldStands(p, i)
    /\ p.block.lines # <<>> => Slice(p, FieldStart(p, Len(p.block.lines) + 1), 2) = CRLF

\* Nothing but a path or a query, with its escapes.
UrlStands(p, i, n, class) ==
    \A k \in i..(i + n - 1) :
        At(p, k) \in class \/ (At(p, k) = "%" /\ {At(p, k + 1), At(p, k + 2)} \subseteq Digits)

\* The request line is in the buffer what the indices of the target say, and the field lines begin where it ends.
RequestLineStands(p) ==
    LET path == p.line.path
        pathEnd == path + p.line.pathSize
        end == IF At(p, pathEnd) = "?" THEN p.line.query + p.line.querySize ELSE pathEnd
    IN /\ path \in IF p.line.options THEN {8} ELSE 4..7
       /\ \A k \in 0..(path - 2) : At(p, k) = IF p.line.options THEN "o" ELSE "m"
       /\ At(p, path - 1) = " "
       /\ \/ p.line.options /\ p.line.pathSize = 1 /\ At(p, path) = "*" /\ At(p, pathEnd) = " "
          \/ /\ At(p, path) = "/" /\ At(p, path + 1) # "/"
             /\ UrlStands(p, path, p.line.pathSize, PathBytes)
       /\ IF At(p, pathEnd) = "?"
          THEN p.line.query = pathEnd + 1 /\ UrlStands(p, p.line.query, p.line.querySize, QueryBytes)
          ELSE p.line.querySize = 0
       /\ At(p, end) = " " /\ Slice(p, end + 1, Len(Version)) = Version
       /\ p.block.start = end + 1 + Len(Version)

Named(p, name) == {i \in DOMAIN p.block.lines : FieldName(p, i) = name}

\* What the parser has taken from the field lines for itself leaves no doubt: one host, and lengths that agree or one coding.
FieldsHeeded(p) ==
    LET hosts == Named(p, <<"Host">>)
        lengths == Named(p, <<"Content-Length">>)
        codings == Named(p, <<"Transfer-Encoding">>)
        values(S) == {FieldValue(p, i) : i \in S}
    IN /\ p.host <=> hosts # {}
       /\ \A i, j \in hosts : i = j
       /\ p.expects <=> <<"100-continue">> \in values(Named(p, <<"Expect">>))
       /\ CASE p.body.type = "NoBody"     -> lengths = {} /\ codings = {}
            [] p.body.type = "NotChunked" -> /\ lengths # {} /\ codings = {}
                                             /\ \A v \in values(lengths) : v # <<>> /\ Range(v) \subseteq Digits /\ Number(v, 10) = p.body.size
            [] p.body.type = "Chunked"    -> /\ lengths = {} /\ codings # {} /\ \A i, j \in codings : i = j
                                             /\ \A v \in values(codings) : v # <<>> /\ EndsChunked(v)

\* Whatever the bytes are: when a request is reported, what can be read of it is a request line, field lines and a blank
\* line, one behind the other, as the grammar has them, with one host and one framing of its body; and when its last chunk
\* is, so are the trailers.
HeaderDelimited ==
    status = "ParsedRequest" =>
        /\ BlockStands(parser)
        /\ ~(parser.body.type = "Chunked" /\ ended = begun) =>
              parser.block.lines # <<>> /\ RequestLineStands(parser) /\ parser.host /\ FieldsHeeded(parser)

\* What the handler reads of a request, its target and its fields by name, is what was sent, although the parser keeps only
\* the sizes of the fields; and the same holds of the trailers when the last chunk was parsed.
FieldsReadable ==
    /\ HeaderDelimited
    /\ status = "ParsedRequest" =>
          LET current == frames[begun]
              atEnd == current.chunked /\ ended = begun
              fields == IF atEnd THEN current.trailers ELSE current.fields
          IN /\ \A f \in Range(fields) : FieldValues(parser, f.name) = Values(fields, f.name)
             /\ Len(parser.block.lines) = Len(fields)
             /\ ~atEnd => Path(parser) = PathOf(current.target) /\ Query(parser) = QueryOf(current.target)

==============================================================================
