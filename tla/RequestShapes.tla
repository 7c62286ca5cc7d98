---------------------------- MODULE RequestShapes ----------------------------
(***************************************************************************)
(* What a client may send: requests by the grammar that the comments of    *)
(* HttpRequestParser.cpp quote, well formed or not, the bytes they are     *)
(* made of, and what the limits of HttpRequestLimits say about them.       *)
(*                                                                         *)
(* A byte is the class it belongs to: the tables of the parser tell no     *)
(* more apart. "m" and "o" are the letters of OPTIONS and of the other     *)
(* methods, "u" a character of a URL, "V" one of HTTP/1.1, "d" one of a    *)
(* body, "bad" one that no rule admits. A field name that the parser       *)
(* knows, and the coding and expectation it knows, is a single byte.       *)
(***************************************************************************)
EXTENDS Naturals, Sequences, SequencesExt

CRLF == <<"cr", "lf">>

Version == [i \in 1..8 |-> "V"] \o CRLF

Digits == {"0", "1", "2", "3", "5"}
DigitValue == [d \in Digits |-> CASE d = "0" -> 0 [] d = "1" -> 1 [] d = "2" -> 2 [] d = "3" -> 3 [] d = "5" -> 5]
Number(ds, base) ==
    LET value[n \in 0..Len(ds)] == IF n = 0 THEN 0 ELSE base * value[n - 1] + DigitValue[ds[n]]
    IN value[Len(ds)]

PathBytes == {"/", "u"} \cup Digits
QueryBytes == PathBytes \cup {"?"}
KnownNames == {"Host", "Content-Length", "Transfer-Encoding", "Expect"}
NameBytes == KnownNames \cup {"n"}
ControlBytes == {"cr", "lf", "bad"}
TextBytes == {"m", "o", " ", "*", "%", ":", ",", "V", "d", "chunked", "100-continue"} \cup QueryBytes \cup NameBytes

\* The words of a line without the blanks around them.
Trim(s) ==
    LET words == {i \in DOMAIN s : s[i] # " "}
    IN IF words = {} THEN <<>> ELSE SubSeq(s, Min(words), Max(words))

(* -------------------------------- bytes -------------------------------- *)

FieldBytes(f) == f.name \o <<":">> \o f.value \o CRLF

ChunkBytes(c) == c.size \o c.ext \o CRLF \o [i \in 1..c.data |-> "d"] \o c.ending

IsChunked(r) == r.chunks # <<>>

Header(r) == r.method \o <<" ">> \o r.target \o <<" ">> \o Version \o FlattenSeq([i \in DOMAIN r.fields |-> FieldBytes(r.fields[i])]) \o CRLF

Body(r) ==
    IF IsChunked(r)
    THEN FlattenSeq([i \in DOMAIN r.chunks |-> ChunkBytes(r.chunks[i])])
             \o FlattenSeq([i \in DOMAIN r.trailers |-> FieldBytes(r.trailers[i])]) \o CRLF
    ELSE [i \in 1..r.data |-> "d"]

Bytes(r) == Header(r) \o Body(r)

(* --------------------------- well-formedness --------------------------- *)

Values(fields, name) == LET named == SelectSeq(fields, LAMBDA f : f.name = name)
                        IN [i \in DOMAIN named |-> Trim(named[i].value)]

IsMethod(m) ==
    \/ Len(m) \in 3..6 /\ Range(m) = {"m"}
    \/ Len(m) = 7 /\ Range(m) = {"o"}

\* Every percent sign is followed by two digits, whatever lies behind the first question mark is a query.
IsTarget(t, m) ==
    \/ t = <<"*">> /\ Range(m) = {"o"}
    \/ /\ t # <<>> /\ t[1] = "/"
       /\ Len(t) > 1 => t[2] # "/"
       /\ Range(t) \subseteq QueryBytes \cup {"%"}
       /\ \A i \in DOMAIN t : t[i] = "%" => i + 2 \in DOMAIN t /\ {t[i + 1], t[i + 2]} \subseteq Digits

\* The path of a target ends before its first question mark, behind which the query lies.
PathEnd(t) == Min({Len(t) + 1} \cup {i \in DOMAIN t : t[i] = "?"})
PathOf(t) == SubSeq(t, 1, PathEnd(t) - 1)
QueryOf(t) == SubSeq(t, PathEnd(t) + 1, Len(t))

IsField(f) == f.name # <<>> /\ Range(f.name) \subseteq NameBytes /\ Range(f.value) \cap ControlBytes = {}

IsCoding(v) == v \in {<<"chunked">>, <<"n", ",", "chunked">>, <<"n", ",", " ", "chunked">>}

FramesBody(r) ==
    LET lengths == Values(r.fields, <<"Content-Length">>)
        codings == Values(r.fields, <<"Transfer-Encoding">>)
    IN IF IsChunked(r)
       THEN lengths = <<>> /\ Len(codings) = 1 /\ IsCoding(codings[1])
       ELSE /\ codings = <<>>
            /\ lengths = <<>> => r.data = 0
            /\ \A v \in Range(lengths) : v # <<>> /\ Range(v) \subseteq Digits /\ Number(v, 10) = r.data

HeaderWellFormed(r) ==
    /\ IsMethod(r.method) /\ IsTarget(r.target, r.method)
    /\ \A f \in Range(r.fields) : IsField(f)
    /\ Len(Values(r.fields, <<"Host">>)) = 1
    /\ FramesBody(r)

IsChunk(c, last) ==
    /\ Len(c.size) \in 1..12 /\ Range(c.size) \subseteq Digits /\ Number(c.size, 16) = c.data
    /\ Range(c.ext) \cap ControlBytes = {}
    /\ last <=> c.data = 0
    /\ c.ending = IF last THEN <<>> ELSE CRLF

WellFormed(r) ==
    /\ HeaderWellFormed(r)
    /\ \A i \in DOMAIN r.chunks : IsChunk(r.chunks[i], i = Len(r.chunks))
    /\ \A f \in Range(r.trailers) : IsField(f)

Expects(r) == \E v \in Range(Values(r.fields, <<"Expect">>)) : v = <<"100-continue">>

(* -------------------------------- limits ------------------------------- *)

NoLimits == [maxUrlSize |-> 1000, maxHeaderNameSize |-> 1000, maxHeaderValueSize |-> 1000, maxHeaderLineCount |-> 8,
             maxTrailerNameSize |-> 1000, maxTrailerValueSize |-> 1000, maxTrailerLineCount |-> 8,
             maxChunkMetadataSize |-> 1000, maxRequestSize |-> 1000, maxBodySize |-> 1000]

Limits == [maxUrlSize : Nat, maxHeaderNameSize : Nat, maxHeaderValueSize : Nat, maxHeaderLineCount : Nat,
           maxTrailerNameSize : Nat, maxTrailerValueSize : Nat, maxTrailerLineCount : Nat,
           maxChunkMetadataSize : Nat, maxRequestSize : Nat, maxBodySize : Nat]

FieldsWithin(fields, count, nameSize, valueSize) ==
    /\ Len(fields) <= count
    /\ \A f \in Range(fields) : Len(f.name) <= nameSize /\ Len(f.value) <= valueSize

BodySize(r) == Len(SelectSeq(Body(r), LAMBDA b : b = "d"))

Metadata(c) == Len(c.size) + Len(c.ext) + 2

HeaderWithin(r, l) ==
    /\ Len(r.target) <= l.maxUrlSize
    /\ FieldsWithin(r.fields, l.maxHeaderLineCount, l.maxHeaderNameSize, l.maxHeaderValueSize)

BodyWithin(r, l) ==
    /\ BodySize(r) <= l.maxBodySize
    /\ FieldsWithin(r.trailers, l.maxTrailerLineCount, l.maxTrailerNameSize, l.maxTrailerValueSize)
    /\ \A c \in Range(r.chunks) : Metadata(c) <= l.maxChunkMetadataSize

\* The blank line after the last chunk may count as a part of its metadata, or not.
WithinLimits(r, l) ==
    /\ HeaderWithin(r, l) /\ BodyWithin(r, l)
    /\ IsChunked(r) => Metadata(Last(r.chunks)) + 2 <= l.maxChunkMetadataSize
    /\ Len(Bytes(r)) <= l.maxRequestSize

\* The blank line that ends the header of a request with no body, or a chunked one, does not count against its size.
HeaderAcceptable(r, l) ==
    /\ HeaderWellFormed(r) /\ HeaderWithin(r, l)
    /\ Len(Header(r)) <= l.maxRequestSize + 2
    /\ r.data > 0 => Len(Bytes(r)) <= l.maxRequestSize /\ r.data <= l.maxBodySize

Acceptable(r, l) ==
    /\ HeaderAcceptable(r, l) /\ WellFormed(r) /\ BodyWithin(r, l)
    /\ IsChunked(r) => Len(Bytes(r)) <= l.maxRequestSize

(* -------------------------------- frames ------------------------------- *)

\* What a stream of requests says, by the grammar and the limits: where each one lies and its body, and what may become of it.
Frame(r, l, from) ==
    LET bytes == Bytes(r)
    IN [from |-> from, to |-> from + Len(bytes),
        data |-> SetToSortSeq({from + i : i \in {j \in DOMAIN bytes : bytes[j] = "d"}}, <),
        target |-> r.target, fields |-> r.fields, trailers |-> r.trailers,
        chunked |-> IsChunked(r), expects |-> Expects(r), maxBody |-> l.maxBodySize,
        wellFormed |-> WellFormed(r), withinLimits |-> WithinLimits(r, l),
        headerAcceptable |-> HeaderAcceptable(r, l), acceptable |-> Acceptable(r, l)]

Frames(rs, l) ==
    FoldLeft(LAMBDA fs, r : Append(fs, Frame(r, l, IF fs = <<>> THEN 0 ELSE Last(fs).to)), <<>>, rs)
==============================================================================
