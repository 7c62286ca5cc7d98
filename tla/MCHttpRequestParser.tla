-------------------------- MODULE MCHttpRequestParser ------------------------
EXTENDS HttpRequestParser

Field(name, value) == [name |-> <<name>>, value |-> value]
Host == Field("Host", <<"n">>)

Get == [method |-> <<"m", "m", "m">>, target |-> <<"/">>, fields |-> <<Host>>, data |-> 0, chunks |-> <<>>, trailers |-> <<>>]

With(r, fs) == [r EXCEPT !.fields = fs]

Length(n) == Field("Content-Length", <<" ", n>>)
Sized(n) == [With(Get, <<Host, Length(n)>>) EXCEPT !.data = DigitValue[n]]
Expecting == With(Sized("2"), <<Host, Field("Expect", <<"100-continue">>), Length("2"), Field("n", <<>>)>>)

Coding == Field("Transfer-Encoding", <<"n", ",", " ", "chunked", " ">>)
Chunk(n) == [size |-> <<n>>, ext |-> <<>>, data |-> DigitValue[n], ending |-> CRLF]
LastChunk == [size |-> <<"0">>, ext |-> <<>>, data |-> 0, ending |-> <<>>]
Chunked(cs) == [With(Get, <<Coding, Host>>) EXCEPT !.chunks = Append(cs, LastChunk)]
TwoChunks == Chunked(<<Chunk("2"), [Chunk("1") EXCEPT !.size = <<"0", "1">>, !.ext = <<" ", "n">>]>>)
Trailed == [Chunked(<<Chunk("1")>>) EXCEPT !.trailers = <<Field("n", <<" ", "n">>), [name |-> <<"n", "n">>, value |-> <<>>]>>]

Options == [Get EXCEPT !.method = <<"o", "o", "o", "o", "o", "o", "o">>, !.target = <<"*">>]
Rooted == [Options EXCEPT !.target = <<"/", "?">>]
Escaped == [Get EXCEPT !.target = <<"/", "%", "2", "0", "?", "u", "/", "%", "1", "1">>]

Requests == {Get, Sized("0"), Sized("3"), Expecting, TwoChunks, Chunked(<<>>), Trailed, Options, Rooted, Escaped}

Faulty ==
    {[Get EXCEPT !.target = t] : t \in {<<"/", "/">>, <<"*">>, <<"/", "%", "u", "0">>, <<"/", "?", "bad">>}}
        \cup {With(Get, fs) : fs \in {<<>>, <<Host, Host>>, <<Length("0")>>, <<Host, Length("2"), Length("3")>>,
                                      <<Host, Length("u")>>, <<Host, Coding, Length("2")>>, <<Length("2"), Coding, Host>>,
                                      <<Host, Coding, Coding>>, <<Host, Field("Transfer-Encoding", <<"chunked", ",">>)>>,
                                      <<Host, Field("n", <<"n", "bad", "n">>)>>, <<Host, Field(" ", <<"n">>)>>}}
        \cup {Chunked(<<c>>) : c \in {[Chunk("2") EXCEPT !.ending = <<"d", "d">>], [Chunk("1") EXCEPT !.size = <<>>],
                                      [Chunk("1") EXCEPT !.size = [i \in 1..13 |-> "0"] \o <<"1">>],
                                      [Chunk("1") EXCEPT !.ext = <<"n", "bad">>]}}
        \cup {[Get EXCEPT !.method = <<"m", "m">>]}

\* One request alone, with a limit that it just keeps or just breaks; a well formed one before a faulty one or any other.
TheConnections ==
    {<<r>> : r \in Requests}
        \cup {<<Sized("1"), r>> : r \in Faulty}
        \cup {<<r, s>> : r \in Requests, s \in {Get, Sized("2"), Trailed}}

Longest(S) == IF S = {} THEN 0 ELSE Max({Len(s) : s \in S})

Measure(r) ==
    [maxUrlSize |-> Len(r.target), maxHeaderLineCount |-> Len(r.fields), maxTrailerLineCount |-> Len(r.trailers),
     maxHeaderNameSize |-> 1, maxHeaderValueSize |-> Longest({f.value : f \in Range(r.fields)}),
     maxTrailerNameSize |-> Longest({f.name : f \in Range(r.trailers)}),
     maxTrailerValueSize |-> Longest({f.value : f \in Range(r.trailers)}),
     maxChunkMetadataSize |-> Max({0} \cup {Metadata(c) : c \in Range(r.chunks)}),
     maxRequestSize |-> Len(Bytes(r)), maxBodySize |-> BodySize(r)]

\* A limit of zero stands for none.
TightLimits(r) ==
    LET near(l) == {n \in 1..Measure(r)[l] : n + 2 >= Measure(r)[l]}
    IN UNION {{[NoLimits EXCEPT ![l] = n] : n \in near(l)} : l \in DOMAIN NoLimits}

LimitsOf(rs) == IF Len(rs) = 1 THEN TightLimits(rs[1]) ELSE {NoLimits}
==============================================================================
