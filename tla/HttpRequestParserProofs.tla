----------------------- MODULE HttpRequestParserProofs -----------------------
(***************************************************************************)
(* Proofs about HttpRequestParser for any bytes in any pieces, well formed *)
(* or not, and any limits: what it skips, hands over and waits for.        *)
(***************************************************************************)
EXTENDS HttpRequestParser, SequenceTheorems, WellFoundedInduction, TLAPS

States == {"RequestLine", "Headers", "Body", "ChunkMetadata", "ChunkData", "Trailers"}
Errors == {"NoError", "MalformedRequest", "TooBigRequest"}
Statuses == {"NeedsMoreData", "ParsedRequest", "ParsedBody", "Failed"}

RequestLines == [options : BOOLEAN, path : Nat, pathSize : Nat, query : Nat, querySize : Nat]
Bodies == [type : {"NoBody", "NotChunked", "Chunked"}, size : Nat, pending : Nat, index : Nat, part : Nat]
Blocks == [start : Nat, lines : Seq([nameSize : Nat, valueSize : Nat])]

Parsers ==
    [state : States, error : Errors, skipped : Nat, requestSize : Nat, trailersSize : Nat,
     host : BOOLEAN, expects : BOOLEAN, interim : Nat, line : RequestLines, body : Bodies, block : Blocks]

Sizes == limits \in Limits /\ arrived \in Nat

-----------------------------------------------------------------------------
(* Numbers. *)

LEMMA LeastOf ==
    ASSUME NEW S, S \subseteq Nat, S # {}
    PROVE  \E n \in S : \A m \in S : n <= m
<1>1. PICK n \in S : \A m \in S : ~(<<m, n>> \in OpToRel(<, Nat))
  BY NatLessThanWellFounded, WFMin
<1>2. \A m \in S : m \in Nat /\ n \in Nat /\ ~(m < n)  BY <1>1 DEF OpToRel
<1>3. \A m \in S : n <= m
  <2> SUFFICES ASSUME NEW m \in S PROVE n <= m  OBVIOUS
  <2>1. m \in Nat /\ n \in Nat /\ ~(m < n)  BY <1>2
  <2> QED  BY <2>1
<1> QED  BY <1>3

LEMMA LeastType ==
    ASSUME NEW a \in Nat, NEW b \in Nat
    PROVE  Least(a, b) \in Nat /\ Least(a, b) <= a /\ Least(a, b) <= b
  BY DEF Least

\* A scan stops at the first index that does not pass, or at the last one.
LEMMA StopStops ==
    ASSUME NEW i \in Nat, NEW last \in Nat, i <= last, NEW passing
    PROVE  /\ Stop(i, last, passing) \in i..last
           /\ Stop(i, last, passing) \in Nat
           /\ \A k \in i..(Stop(i, last, passing) - 1) : k \in passing
           /\ Stop(i, last, passing) = last \/ Stop(i, last, passing) \notin passing
<1> DEFINE S == {j \in i..last : j = last \/ j \notin passing}
<1>1. S \subseteq Nat /\ last \in S  OBVIOUS
<1>2. PICK j \in S : \A m \in S : j <= m
  <2> HIDE DEF S
  <2> QED  BY <1>1, LeastOf
<1>3. i..(j - 1) \subseteq passing
  <2> SUFFICES ASSUME NEW k \in i..(j - 1) PROVE k \in passing  OBVIOUS
  <2>1. k \in i..last /\ k # last /\ ~(j <= k)  BY <1>1, <1>2
  <2>2. k \notin S  BY <1>2, <2>1
  <2> QED  BY <2>1, <2>2
<1>4. \E m \in i..last : i..(m - 1) \subseteq passing /\ (m = last \/ m \notin passing)
  BY <1>2, <1>3
<1> DEFINE s == Stop(i, last, passing)
<1>5. s \in i..last /\ i..(s - 1) \subseteq passing /\ (s = last \/ s \notin passing)
  BY <1>4 DEF Stop
<1> HIDE DEF s
<1>6. s \in Nat  BY <1>5
<1> QED  BY <1>5, <1>6 DEF s

-----------------------------------------------------------------------------
(* What is in the buffer. *)

LEMMA ScanStops ==
    ASSUME NEW p, NEW i \in Nat, NEW last \in Nat, i <= last, NEW class, NEW j, j = ScanTo(p, i, last, class)
    PROVE  /\ j \in Nat /\ i <= j /\ j <= last
           /\ \A k \in i..(j - 1) : At(p, k) \in class
           /\ j = last \/ At(p, j) \notin class
<1> DEFINE passing == {k \in i..last : At(p, k) \in class}
<1>1. j = Stop(i, last, passing)  BY DEF ScanTo
<1>2. \A k \in passing : At(p, k) \in class  OBVIOUS
<1>3. \A k \in i..last : At(p, k) \in class => k \in passing  OBVIOUS
<1> HIDE DEF passing
<1>4. /\ j \in i..last /\ j \in Nat
      /\ \A k \in i..(j - 1) : k \in passing
      /\ j = last \/ j \notin passing
  BY <1>1, StopStops
<1> QED  BY <1>2, <1>3, <1>4

LEMMA SliceIs ==
    ASSUME NEW p, NEW i \in Int, NEW n \in Nat, NEW v, Slice(p, i, n) = v
    PROVE  DOMAIN v = 1..n /\ \A k \in 1..n : At(p, i + k - 1) = v[k]
  BY DEF Slice

LEMMA BreakIs ==
    /\ CRLF \in Seq({"cr", "lf"}) /\ Len(CRLF) = 2 /\ CRLF[1] = "cr" /\ CRLF[2] = "lf"
    /\ Len(CRLF \o CRLF) = 4 /\ (CRLF \o CRLF)[1] = "cr" /\ (CRLF \o CRLF)[2] = "lf"
<1>1. CRLF \in Seq({"cr", "lf"})  BY DEF CRLF
<1>2. Len(CRLF) = 2 /\ CRLF[1] = "cr" /\ CRLF[2] = "lf"  BY DEF CRLF
<1>3. /\ Len(CRLF \o CRLF) = Len(CRLF) + Len(CRLF)
      /\ \A i \in 1..(Len(CRLF) + Len(CRLF)) :
            (CRLF \o CRLF)[i] = IF i <= Len(CRLF) THEN CRLF[i] ELSE CRLF[i - Len(CRLF)]
  BY <1>1, ConcatProperties
<1>4. 1 \in 1..(2 + 2) /\ 2 \in 1..(2 + 2)  OBVIOUS
<1> QED  BY <1>1, <1>2, <1>3, <1>4

\* A line break is nowhere but at its first byte.
LEMMA BreakBegins ==
    ASSUME NEW p, NEW i \in Int
    PROVE  /\ Slice(p, i, 2) = CRLF => At(p, i) = "cr"
           /\ Slice(p, i, Len(CRLF)) = CRLF => At(p, i) = "cr" /\ Slice(p, i, 2) = CRLF
           /\ Slice(p, i, Len(CRLF \o CRLF)) = CRLF \o CRLF => At(p, i) = "cr" /\ Slice(p, i, 2) = CRLF
<1>1. 1 \in 1..2 /\ 2 \in 1..2 /\ 1 \in 1..4 /\ 2 \in 1..4 /\ 2 \in Nat /\ 4 \in Nat /\ i + 1 - 1 = i  OBVIOUS
<1>2. Slice(p, i, 2) = CRLF => At(p, i) = "cr"  BY <1>1, SliceIs, BreakIs
<1>3. ASSUME Slice(p, i, 4) = CRLF \o CRLF
      PROVE  At(p, i) = "cr" /\ Slice(p, i, 2) = CRLF
  <2>1. At(p, i + 1 - 1) = "cr" /\ At(p, i + 2 - 1) = "lf"  BY <1>1, <1>3, SliceIs, BreakIs
  <2>2. Slice(p, i, 2) = [k \in 1..2 |-> At(p, i + k - 1)]  BY DEF Slice
  <2>3. \A k \in 1..2 : At(p, i + k - 1) = CRLF[k]
    <3>1. \A k \in 1..2 : k = 1 \/ k = 2  OBVIOUS
    <3> QED  BY <2>1, <3>1, BreakIs
  <2>4. CRLF = [k \in 1..2 |-> CRLF[k]]  BY DEF CRLF
  <2> QED  BY <1>1, <2>1, <2>2, <2>3, <2>4
<1> QED  BY <1>2, <1>3, BreakIs

\* The bytes that the rules of a line admit end none.
LEMMA NoRuleAdmitsBreaks ==
    /\ "cr" \notin NameBytes /\ "cr" \notin TextBytes /\ "cr" \notin QueryBytes /\ "cr" \notin PathBytes /\ "cr" \notin Digits
    /\ ":" \notin NameBytes /\ ":" # "cr"
  BY DEF NameBytes, TextBytes, QueryBytes, PathBytes, Digits, KnownNames

-----------------------------------------------------------------------------
(* What is parsed of a number. *)

DigitsOf(v) == \A n \in 1..Len(v) : v[n] \in Digits

LEMMA NumberType ==
    ASSUME NEW v, Len(v) \in Nat, DigitsOf(v), NEW base \in Nat
    PROVE  Number(v, base) \in Nat
<1> DEFINE Value(f, n) ==
             f = [i \in 0..n |-> IF i = 0 THEN 0 ELSE base * f[i - 1] + DigitValue[v[i]]]
           Good(n) == \E f : Value(f, n)
           Bad == {n \in 0..Len(v) : ~Good(n)}
<1>1. \A d \in Digits : DigitValue[d] \in Nat  BY DEF Digits, DigitValue
<1>2. Bad = {}
  <2> SUFFICES ASSUME Bad # {} PROVE FALSE  OBVIOUS
  <2>1. Bad \subseteq Nat  OBVIOUS
  <2>2. PICK n \in Bad : \A m \in Bad : n <= m
    <3> HIDE DEF Bad
    <3> QED  BY <2>1, LeastOf
  <2>3. n \in 0..Len(v) /\ ~Good(n)  OBVIOUS
  <2>4. CASE n = 0
    <3> DEFINE g == [i \in 0..0 |-> 0]
    <3>1. Value(g, 0)  OBVIOUS
    <3> QED  BY <2>3, <2>4, <3>1
  <2>5. CASE n # 0
    <3>1. n - 1 \in 0..Len(v) /\ n - 1 \notin Bad /\ n - 1 \in Nat
      <4>1. n - 1 \in 0..Len(v) /\ ~(n <= n - 1)  BY <2>3, <2>5
      <4> HIDE DEF Bad
      <4> QED  BY <2>2, <4>1
    <3>2. PICK f : Value(f, n - 1)  BY <3>1
    <3>3. f = [i \in 0..(n - 1) |-> IF i = 0 THEN 0 ELSE base * f[i - 1] + DigitValue[v[i]]]  BY <3>2
    <3> DEFINE top == base * f[n - 1] + DigitValue[v[n]]
               g == [i \in 0..n |-> IF i = n THEN top ELSE f[i]]
    <3>4. \A i \in 0..n : g[i] = IF i = 0 THEN 0 ELSE base * g[i - 1] + DigitValue[v[i]]
      <4> SUFFICES ASSUME NEW i \in 0..n
                   PROVE  g[i] = IF i = 0 THEN 0 ELSE base * g[i - 1] + DigitValue[v[i]]
        OBVIOUS
      <4>1. CASE i = n
        <5>1. n - 1 \in 0..n /\ n - 1 # n /\ n \in 0..n  BY <2>3, <3>1
        <5>2. g[n - 1] = f[n - 1] /\ g[n] = top
          <6> HIDE DEF top
          <6> QED  BY <5>1
        <5> QED  BY <2>5, <4>1, <5>2
      <4>2. CASE i # n
        <5>1. i \in 0..(n - 1) /\ (i # 0 => i - 1 \in 0..n /\ i - 1 # n)
          BY <2>3, <4>2
        <5>2. g[i] = f[i] /\ (i # 0 => g[i - 1] = f[i - 1])
          <6> HIDE DEF top
          <6> QED  BY <4>2, <5>1
        <5>3. f[i] = IF i = 0 THEN 0 ELSE base * f[i - 1] + DigitValue[v[i]]  BY <3>3, <5>1
        <5> HIDE DEF g
        <5> QED  BY <5>2, <5>3
      <4> QED  BY <4>1, <4>2
    <3>5. g = [i \in 0..n |-> g[i]]  OBVIOUS
    <3> HIDE DEF g
    <3>6. Value(g, n)  BY <3>4, <3>5
    <3> QED  BY <2>3, <3>6
  <2> QED  BY <2>4, <2>5
<1>3. Good(Len(v))
  <2>1. Len(v) \in 0..Len(v)  OBVIOUS
  <2> HIDE DEF Good
  <2> QED  BY <1>2, <2>1
<1> DEFINE g == CHOOSE f : Value(f, Len(v))
<1>4. Value(g, Len(v))  BY <1>3
<1>5. Number(v, base) = g[Len(v)]  BY DEF Number
<1> HIDE DEF g
<1>6. \A i \in 0..Len(v) : g[i] = IF i = 0 THEN 0 ELSE base * g[i - 1] + DigitValue[v[i]]
  BY <1>4
<1> DEFINE Wrong == {i \in 0..Len(v) : g[i] \notin Nat}
<1>7. Wrong = {}
  <2> SUFFICES ASSUME Wrong # {} PROVE FALSE  OBVIOUS
  <2>1. Wrong \subseteq Nat  OBVIOUS
  <2>2. PICK n \in Wrong : \A m \in Wrong : n <= m
    <3> HIDE DEF Wrong
    <3> QED  BY <2>1, LeastOf
  <2>3. n \in 0..Len(v) /\ g[n] \notin Nat  OBVIOUS
  <2>4. n # 0  BY <1>6, <2>3
  <2>5. n - 1 \in 0..Len(v) /\ ~(n <= n - 1)  BY <2>3, <2>4
  <2>6. g[n - 1] \in Nat
    <3>1. n - 1 \notin Wrong
      <4> HIDE DEF Wrong
      <4> QED  BY <2>2, <2>5
    <3> QED  BY <2>5, <3>1
  <2>7. DigitValue[v[n]] \in Nat
    <3>1. v[n] \in Digits  BY <2>3, <2>4 DEF DigitsOf
    <3> QED  BY <1>1, <3>1
  <2>8. base * g[n - 1] \in Nat  BY <2>6
  <2>9. g[n] = base * g[n - 1] + DigitValue[v[n]]  BY <1>6, <2>3, <2>4
  <2> QED  BY <2>3, <2>7, <2>8, <2>9
<1>8. Len(v) \in 0..Len(v)  OBVIOUS
<1> QED  BY <1>5, <1>7, <1>8

LEMMA GreatestOf ==
    ASSUME NEW S, NEW n \in Nat, S \subseteq 0..n, S # {}
    PROVE  \E m \in S : \A k \in S : m >= k
<1> DEFINE T == {n - k : k \in S}
<1>1. T \subseteq Nat /\ T # {}
  <2>1. ASSUME NEW k \in S PROVE n - k \in Nat
    <3>1. k \in 0..n  OBVIOUS
    <3> QED  BY <3>1
  <2> QED  BY <2>1
<1>2. PICK t \in T : \A u \in T : t <= u
  <2> HIDE DEF T
  <2> QED  BY <1>1, LeastOf
<1>3. PICK m \in S : t = n - m  OBVIOUS
<1>4. ASSUME NEW k \in S PROVE m >= k
  <2>1. n - k \in T  OBVIOUS
  <2>2. n - m <= n - k
    <3> HIDE DEF T
    <3> QED  BY <1>2, <1>3, <2>1
  <2> QED  BY <1>3, <2>2
<1> QED  BY <1>3, <1>4

LEMMA TrimType ==
    ASSUME NEW S, NEW v \in Seq(S)
    PROVE  Trim(v) \in Seq(S)
<1> DEFINE words == {i \in DOMAIN v : v[i] # " "}
<1>1. Len(v) \in Nat /\ DOMAIN v = 1..Len(v) /\ \A i \in 1..Len(v) : v[i] \in S  BY LenProperties, ElementOfSeq
<1>2. CASE words = {}
  <2>1. Trim(v) = <<>>  BY <1>2 DEF Trim
  <2> QED  BY <2>1, EmptySeq
<1>3. CASE words # {}
  <2>1. words \subseteq Nat /\ words \subseteq 0..Len(v) /\ words \subseteq 1..Len(v)
    <3>1. words \subseteq 1..Len(v)  BY <1>1
    <3>2. 1..Len(v) \subseteq Nat /\ 1..Len(v) \subseteq 0..Len(v)  BY <1>1
    <3> HIDE DEF words
    <3> QED  BY <3>1, <3>2
  <2> HIDE DEF words
  <2>2. \E m \in words : \A k \in words : m <= k  BY <1>3, <2>1, LeastOf
  <2>3. \E m \in words : \A k \in words : m >= k  BY <1>1, <1>3, <2>1, GreatestOf
  <2>4. Min(words) \in words /\ Max(words) \in words
    <3>1. Min(words) \in words  BY <2>2 DEF Min
    <3>2. Max(words) \in words  BY <2>3 DEF Max
    <3> QED  BY <3>1, <3>2
  <2>5. Trim(v) = SubSeq(v, Min(words), Max(words))  BY <1>3 DEF Trim, words
  <2>6. /\ Min(words) \in Int /\ Max(words) \in Int
        /\ \A i \in Min(words)..Max(words) : v[i] \in S
    <3>1. Min(words) \in 1..Len(v) /\ Max(words) \in 1..Len(v)  BY <2>1, <2>4
    <3> DEFINE a == Min(words)
               b == Max(words)
    <3>2. a \in 1..Len(v) /\ b \in 1..Len(v)  BY <3>1
    <3> HIDE DEF a, b
    <3>3. a \in Int /\ b \in Int /\ \A i \in a..b : v[i] \in S  BY <1>1, <3>2
    <3> QED  BY <3>3 DEF a, b
  <2>7. SubSeq(v, Min(words), Max(words)) \in Seq(S)  BY <2>6, SubSeqProperties
  <2> QED  BY <2>5, <2>7
<1> QED  BY <1>2, <1>3

\* A length that is accepted is a number.
LEMMA LengthType ==
    ASSUME NEW S, NEW v \in Seq(S), Range(v) \subseteq Digits, NEW base \in Nat
    PROVE  Number(v, base) \in Nat
<1>1. Len(v) \in Nat /\ DOMAIN v = 1..Len(v)  BY LenProperties
<1>2. DigitsOf(v)  BY <1>1 DEF DigitsOf, Range
<1> QED  BY <1>1, <1>2, NumberType

-----------------------------------------------------------------------------
(* Field lines. *)

LEMMA SliceType ==
    ASSUME NEW p, NEW i \in Int, NEW n \in Nat
    PROVE  \E S : Slice(p, i, n) \in Seq(S)
<1> DEFINE S == {At(p, i + k - 1) : k \in 1..n}
<1>1. \A k \in 1..n : At(p, i + k - 1) \in S  OBVIOUS
<1>2. Slice(p, i, n) = [k \in 1..n |-> At(p, i + k - 1)]  BY DEF Slice
<1> HIDE DEF S
<1>3. Slice(p, i, n) \in Seq(S)  BY <1>1, <1>2, IsASeq
<1> QED  BY <1>3

\* The body of a request whose header is being read: nothing of it was handed over.
Unread(b) ==
    /\ b \in Bodies
    /\ b.index = 0 /\ b.part = 0 /\ b.pending = b.size
    /\ b.type # "NotChunked" => b.size = 0

LEMMA BodyOfType ==
    ASSUME NEW n \in Nat, NEW type \in {"NotChunked", "Chunked", "NoBody"}, type # "NotChunked" => n = 0
    PROVE  Unread(BodyOf(type, n)) /\ BodyOf(type, n).type = type
  BY DEF Unread, BodyOf, Bodies

\* The parser q is at the place where p is.
Beside(p, q) ==
    /\ q \in Parsers
    /\ q.state = p.state /\ q.skipped = p.skipped
    /\ q.requestSize = p.requestSize /\ q.trailersSize = p.trailersSize
    /\ q.block = p.block /\ q.line = p.line

LEMMA NewBody ==
    ASSUME NEW p \in Parsers, NEW b \in Bodies, NEW q, q = [p EXCEPT !.body = b]
    PROVE  Beside(p, q) /\ q.body = b /\ q.host = p.host /\ q.expects = p.expects
  BY DEF Beside, Parsers

LEMMA ContentLengthReads ==
    ASSUME NEW p \in Parsers, Unread(p.body), NEW S, NEW v \in Seq(S), ContentLength(p, v).ok
    PROVE  /\ Beside(p, ContentLength(p, v).parser)
           /\ Unread(ContentLength(p, v).parser.body)
<1> DEFINE n == Number(v, 10)
           b == BodyOf("NotChunked", n)
           q == [p EXCEPT !.body = b]
<1>1. ~(v = <<>> \/ Len(v) > 19 \/ ~(Range(v) \subseteq Digits))
  BY DEF ContentLength, Verdict
<1>2. n \in Nat  BY <1>1, LengthType
<1> HIDE DEF n
<1>3. Unread(b) /\ b \in Bodies  BY <1>2, BodyOfType DEF Unread
<1> HIDE DEF b
<1>4. Beside(p, q) /\ q.body = b  BY <1>3, NewBody
<1>5. p.body.type \in {"NotChunked", "Chunked", "NoBody"}  BY DEF Parsers, Bodies
<1>6. CASE p.body.type = "Chunked"
  <2>1. ContentLength(p, v) = Verdict(p, FALSE)  BY <1>1, <1>6 DEF ContentLength
  <2> QED  BY <2>1 DEF Verdict
<1>7. CASE p.body.type = "NotChunked"
  <2>1. ContentLength(p, v) = Verdict(p, p.body.size = n)  BY <1>1, <1>7 DEF ContentLength, n
  <2>2. ContentLength(p, v).parser = p  BY <2>1 DEF Verdict
  <2> QED  BY <2>2 DEF Beside
<1>8. CASE p.body.type = "NoBody"
  <2>1. ContentLength(p, v) = Verdict(q, TRUE)  BY <1>1, <1>8 DEF ContentLength, n, b
  <2>2. ContentLength(p, v).parser = q  BY <2>1 DEF Verdict
  <2> QED  BY <1>3, <1>4, <2>2
<1> QED  BY <1>5, <1>6, <1>7, <1>8

LEMMA TransferEncodingReads ==
    ASSUME NEW p \in Parsers, Unread(p.body), NEW v, TransferEncoding(p, v).ok
    PROVE  /\ Beside(p, TransferEncoding(p, v).parser)
           /\ Unread(TransferEncoding(p, v).parser.body)
<1> DEFINE b == BodyOf("Chunked", 0)
           q == [p EXCEPT !.body = b]
<1>1. Unread(b) /\ b \in Bodies  BY BodyOfType DEF Unread
<1> HIDE DEF b
<1>2. Beside(p, q) /\ q.body = b  BY <1>1, NewBody
<1>3. TransferEncoding(p, v) = Verdict(q, TRUE)
  BY DEF TransferEncoding, Verdict, b
<1>4. TransferEncoding(p, v).parser = q  BY <1>3 DEF Verdict
<1> QED  BY <1>1, <1>2, <1>4

\* A header line that is accepted moves nothing, and leaves the body to be read.
LEMMA HeaderLineIsValid ==
    ASSUME NEW p \in Parsers, Unread(p.body), NEW f, f.colon \in Nat, f.end \in Nat, f.colon < f.end,
           ValidateHeaderLine(p, f).ok
    PROVE  /\ Beside(p, ValidateHeaderLine(p, f).parser)
           /\ Unread(ValidateHeaderLine(p, f).parser.body)
<1> DEFINE v == Trim(ValueOf(p, f))
           r == ValidateHeaderLine(p, f)
<1>1. \E S : v \in Seq(S)
  <2>1. PICK S : Slice(p, f.colon + 1, f.end - f.colon - 1) \in Seq(S)  BY SliceType
  <2> QED  BY <2>1, TrimType DEF ValueOf
<1> HIDE DEF v
<1>2. CASE NameOf(p, f) = <<"Host">>
  <2>1. r = Verdict([p EXCEPT !.host = ~@], ~p.host)  BY <1>2 DEF ValidateHeaderLine
  <2>2. r.parser = [p EXCEPT !.host = ~@]  BY <2>1 DEF Verdict
  <2>3. [p EXCEPT !.host = ~@] \in Parsers  BY DEF Parsers
  <2> HIDE DEF r
  <2>4. Beside(p, r.parser) /\ r.parser.body = p.body  BY <2>2, <2>3 DEF Beside, Parsers
  <2> QED  BY <2>4 DEF r
<1>3. CASE NameOf(p, f) = <<"Content-Length">>
  <2>1. r = ContentLength(p, v)  BY <1>3 DEF ValidateHeaderLine, v
  <2> QED  BY <1>1, <2>1, ContentLengthReads
<1>4. CASE NameOf(p, f) = <<"Transfer-Encoding">>
  <2>1. r = TransferEncoding(p, v)  BY <1>4 DEF ValidateHeaderLine, v
  <2> QED  BY <2>1, TransferEncodingReads
<1>5. CASE NameOf(p, f) = <<"Expect">>
  <2> DEFINE e == p.expects \/ v = <<"100-continue">>
  <2>1. r = Verdict([p EXCEPT !.expects = e], TRUE)  BY <1>5 DEF ValidateHeaderLine, v
  <2>2. r.parser = [p EXCEPT !.expects = e]  BY <2>1 DEF Verdict
  <2>3. e \in BOOLEAN  OBVIOUS
  <2> HIDE DEF e, r
  <2>4. Beside(p, r.parser) /\ r.parser.body = p.body  BY <2>2, <2>3 DEF Beside, Parsers
  <2> QED  BY <2>4 DEF r
<1>6. CASE NameOf(p, f) \notin {<<"Host">>, <<"Content-Length">>, <<"Transfer-Encoding">>, <<"Expect">>}
  <2>1. r = Verdict(p, TRUE)  BY <1>6 DEF ValidateHeaderLine
  <2>2. r.parser = p  BY <2>1 DEF Verdict
  <2> QED  BY <2>2 DEF Beside
<1> QED  BY <1>2, <1>3, <1>4, <1>5, <1>6

\* The look f has found a whole line.
Found(p, f) ==
    /\ f.name \in Nat /\ f.colon \in Nat /\ f.end \in Nat /\ f.name < f.colon /\ f.colon < f.end
    /\ \A k \in f.name..(f.colon - 1) : At(p, k) \in NameBytes
    /\ At(p, f.colon) = ":"
    /\ \A k \in (f.colon + 1)..(f.end - 1) : At(p, k) \in TextBytes
    /\ Slice(p, f.end, 2) = CRLF

\* Where no line break begins there is no blank line.
LEMMA NoBlankLineThere ==
    ASSUME NEW p, NEW i \in Nat, Available(p) \in Int,
           \A k \in i..(Available(p) - 4) : At(p, k) # "cr" \/ Slice(p, k, 2) # CRLF,
           i + 2 <= Available(p) => At(p, i) # "cr"
    PROVE  NoBlankLine(p, i)
<1>1. NoneArrived(p, i, CRLF \o CRLF, 4)
  <2> SUFFICES ASSUME NEW k \in i..(Available(p) - 4), Slice(p, k, Len(CRLF \o CRLF)) = CRLF \o CRLF PROVE FALSE
    BY DEF NoneArrived
  <2>1. k \in Int  OBVIOUS
  <2>2. At(p, k) = "cr" /\ Slice(p, k, 2) = CRLF  BY <2>1, BreakBegins
  <2> QED  BY <2>2
<1>2. i + 2 <= Available(p) => Slice(p, i, 2) # CRLF
  <2>1. i \in Int  OBVIOUS
  <2> QED  BY <2>1, BreakBegins
<1> QED  BY <1>1, <1>2 DEF NoBlankLine

\* The look f at the field line from index i on has found one, which has arrived with four bytes behind it; or it has found
\* none yet, nor a blank line.
Looked(p, i, before, f) ==
    /\ f.outcome \in {"MalformedRequest", "TooBigRequest", "more", "line"}
    /\ f.outcome = "line" =>
          /\ Found(p, f) /\ f.name = i
          /\ f.colon \in Nat /\ i < f.colon
          /\ f.end \in Nat /\ f.colon < f.end /\ f.end + 4 <= Available(p)
          /\ before + f.end + 2 <= limits.maxRequestSize
    /\ f.outcome = "more" => NoBlankLine(p, i)

LEMMA FieldLineReads ==
    ASSUME Sizes, NEW p \in Parsers, NEW i \in Nat, i < Available(p), NEW before \in Nat, NEW one \in Nat,
           NEW nameSize \in Nat, NEW valueSize \in Nat,
           NEW f, f = FieldLine(p, i, before, one, nameSize, valueSize)
    PROVE  Looked(p, i, before, f)
<1> DEFINE avail == Available(p)
           colon == ScanTo(p, i, avail - 1, NameBytes)
           value == colon + 1
           end == ScanTo(p, value, avail - 4, TextBytes)
           is(outcome) == [outcome |-> outcome, name |-> i, colon |-> colon]
           line == [outcome |-> "line", name |-> i, colon |-> colon, end |-> end]
           refused == {is("TooBigRequest"), is("MalformedRequest")}
           ok == colon > i /\ colon - i <= nameSize /\ ~(colon + 5 > avail)
<1>1. avail \in Nat /\ avail - 1 \in Nat /\ i <= avail - 1  BY DEF Sizes, Parsers, Available
<1>2. limits.maxRequestSize \in Nat  BY DEF Sizes, Limits
<1> HIDE DEF avail
<1>3. /\ colon \in Nat /\ colon >= i /\ colon < avail
      /\ \A k \in i..(colon - 1) : At(p, k) \in NameBytes
  <2> HIDE DEF colon
  <2> QED  BY <1>1, ScanStops DEF colon
<1>4. value <= avail - 4 => /\ end \in Nat /\ end >= value /\ end <= avail - 4
                            /\ \A k \in value..(end - 1) : At(p, k) \in TextBytes
  <2> SUFFICES ASSUME value <= avail - 4
               PROVE  /\ end \in Nat /\ end >= value /\ end <= avail - 4
                      /\ \A k \in value..(end - 1) : At(p, k) \in TextBytes
    OBVIOUS
  <2>1. value \in Nat /\ avail - 4 \in Nat  BY <1>1, <1>3
  <2> HIDE DEF value, end
  <2> QED  BY <2>1, ScanStops DEF end
<1> HIDE DEF colon, end
<1>5. \/ f \in refused
      \/ f = is("more") /\ At(p, colon) # ":" /\ colon + 1 = avail
      \/ f = is("more") /\ At(p, colon) = ":" /\ colon > i /\ colon + 5 > avail
      \/ f = is("more") /\ At(p, colon) = ":" /\ ok /\ end + 4 = avail /\ Slice(p, end, 2) # CRLF
      \/ f = line /\ At(p, colon) = ":" /\ ok /\ Slice(p, end, 2) = CRLF /\ before + end + 2 <= limits.maxRequestSize
  <2>1. CASE At(p, colon) # ":"
    <3>1. f \in refused \/ (f = is("more") /\ colon + 1 = avail)  BY <2>1 DEF FieldLine, avail, colon
    <3> HIDE DEF is, refused
    <3> QED  BY <2>1, <3>1
  <2>2. CASE At(p, colon) = ":" /\ ~ok
    <3>1. f \in refused \/ (f = is("more") /\ colon > i /\ colon + 5 > avail)
      <4>1. CASE colon = i
        <5>1. f = is("MalformedRequest")  BY <2>2, <4>1 DEF FieldLine, avail, colon
        <5> QED  BY <5>1
      <4>2. CASE colon > i /\ colon - i > nameSize
        <5>1. f = is("TooBigRequest")  BY <1>3, <2>2, <4>2 DEF FieldLine, avail, colon
        <5> QED  BY <5>1
      <4>3. CASE colon > i /\ colon - i <= nameSize /\ colon + 5 > avail
        <5>1. f = is("more")  BY <1>3, <2>2, <4>3 DEF FieldLine, avail, colon
        <5> QED  BY <4>3, <5>1
      <4> QED  BY <1>1, <1>3, <2>2, <4>1, <4>2, <4>3
    <3> HIDE DEF is, refused
    <3> QED  BY <2>2, <3>1
  <2>3. CASE At(p, colon) = ":" /\ ok
    <3>1. colon # i  BY <1>3, <2>3
    <3>2. f = IF Slice(p, end, 2) = CRLF
              THEN IF end - value <= valueSize /\ before + end + 2 <= limits.maxRequestSize
                   THEN line ELSE is("TooBigRequest")
              ELSE IF end + 4 = avail
                   THEN IF end - value + one <= valueSize /\ before + end + 4 <= limits.maxRequestSize
                        THEN is("more") ELSE is("TooBigRequest")
                   ELSE is("MalformedRequest")
      BY <1>3, <2>3, <3>1 DEF FieldLine, avail, colon, end
    <3>3. is("TooBigRequest") \in refused /\ is("MalformedRequest") \in refused  OBVIOUS
    <3> HIDE DEF is, line, value, refused, ok
    <3> QED  BY <2>3, <3>2, <3>3
  <2> QED  BY <2>1, <2>2, <2>3
<1>6. CASE f \in refused
  <2>1. f.outcome \in {"MalformedRequest", "TooBigRequest"}  BY <1>6
  <2> QED  BY <2>1 DEF Looked
<1>7. \A k : At(p, k) \in NameBytes \/ At(p, k) \in TextBytes \/ At(p, k) = ":" => At(p, k) # "cr"
  BY NoRuleAdmitsBreaks
<1>8. avail = Available(p)  BY DEF avail
<1> HIDE DEF refused
<1>9. CASE f = is("more") /\ At(p, colon) # ":" /\ colon + 1 = avail
  <2>1. f.outcome = "more"  BY <1>9
  <2>2. \A k \in i..(avail - 4) : At(p, k) # "cr"
    <3> SUFFICES ASSUME NEW k \in i..(avail - 4) PROVE At(p, k) # "cr"  OBVIOUS
    <3>1. k \in i..(colon - 1)  BY <1>1, <1>3, <1>9
    <3> QED  BY <1>3, <1>7, <3>1
  <2>3. i + 2 <= avail => At(p, i) # "cr"
    <3> SUFFICES ASSUME i + 2 <= avail PROVE At(p, i) # "cr"  OBVIOUS
    <3>1. i \in i..(colon - 1)  BY <1>1, <1>3, <1>9
    <3> QED  BY <1>3, <1>7, <3>1
  <2>4. NoBlankLine(p, i)  BY <1>1, <1>8, <2>2, <2>3, NoBlankLineThere
  <2> QED  BY <2>1, <2>4 DEF Looked
<1>10. CASE f = is("more") /\ At(p, colon) = ":" /\ colon > i /\ colon + 5 > avail
  <2>1. f.outcome = "more"  BY <1>10
  <2>2. \A k \in i..(avail - 4) : At(p, k) # "cr"
    <3> SUFFICES ASSUME NEW k \in i..(avail - 4) PROVE At(p, k) # "cr"  OBVIOUS
    <3>1. k \in i..(colon - 1) \/ k = colon  BY <1>1, <1>3, <1>10
    <3> QED  BY <1>3, <1>7, <1>10, <3>1
  <2>3. At(p, i) # "cr"
    <3>1. i \in i..(colon - 1)  BY <1>3, <1>10
    <3> QED  BY <1>3, <1>7, <3>1
  <2>4. NoBlankLine(p, i)  BY <1>1, <1>8, <2>2, <2>3, NoBlankLineThere
  <2> QED  BY <2>1, <2>4 DEF Looked
<1>11. ok => /\ end \in Nat /\ end >= value /\ end <= avail - 4
             /\ \A k \in value..(end - 1) : At(p, k) \in TextBytes
  BY <1>1, <1>3, <1>4
<1>12. CASE f = is("more") /\ At(p, colon) = ":" /\ ok /\ end + 4 = avail /\ Slice(p, end, 2) # CRLF
  <2>1. f.outcome = "more"  BY <1>12
  <2>2. \A k \in i..(avail - 4) : At(p, k) # "cr" \/ Slice(p, k, 2) # CRLF
    <3> SUFFICES ASSUME NEW k \in i..(avail - 4) PROVE At(p, k) # "cr" \/ Slice(p, k, 2) # CRLF  OBVIOUS
    <3>1. k \in i..(colon - 1) \/ k = colon \/ k \in value..(end - 1) \/ k = end  BY <1>1, <1>3, <1>11, <1>12
    <3> QED  BY <1>3, <1>7, <1>11, <1>12, <3>1
  <2>3. At(p, i) # "cr"
    <3>1. i \in i..(colon - 1)  BY <1>3, <1>12
    <3> QED  BY <1>3, <1>7, <3>1
  <2>4. NoBlankLine(p, i)  BY <1>1, <1>8, <2>2, <2>3, NoBlankLineThere
  <2> QED  BY <2>1, <2>4 DEF Looked
<1>13. CASE f = line /\ At(p, colon) = ":" /\ ok /\ Slice(p, end, 2) = CRLF /\ before + end + 2 <= limits.maxRequestSize
  <2>1. f.outcome = "line" /\ f.name = i /\ f.colon = colon /\ f.end = end  BY <1>13
  <2>2. i < colon /\ colon < end /\ end \in Nat /\ end + 4 <= avail  BY <1>1, <1>3, <1>11, <1>13
  <2>3. Found(p, f)
    <3> HIDE DEF line
    <3> QED  BY <1>3, <1>11, <1>13, <2>1, <2>2 DEF Found
  <2>4. before + f.end + 2 <= limits.maxRequestSize
    <3> HIDE DEF line
    <3> QED  BY <1>13, <2>1
  <2> HIDE DEF line
  <2> QED  BY <1>3, <1>8, <2>1, <2>2, <2>3, <2>4 DEF Looked
<1> QED
  <2> HIDE DEF is, line, ok
  <2> QED  BY <1>5, <1>6, <1>9, <1>10, <1>12, <1>13

\* The block of q is that of p, and the line that the look f has found.
HasNext(p, f, q) ==
    /\ q.block.start = p.block.start
    /\ q.block.lines = Append(p.block.lines, [nameSize |-> f.colon - f.name, valueSize |-> f.end - f.colon - 1])

LEMMA LineIsAdded ==
    ASSUME NEW p \in Parsers, NEW f, f.name \in Nat, f.colon \in Nat, f.end \in Nat, f.name < f.colon, f.colon < f.end,
           NEW q, q = AddFieldLine(p, f)
    PROVE  /\ q \in Parsers
           /\ q.state = p.state /\ q.skipped = p.skipped /\ q.requestSize = p.requestSize
           /\ q.trailersSize = p.trailersSize /\ q.body = p.body
           /\ q.line = p.line /\ q.host = p.host /\ q.expects = p.expects
           /\ Len(q.block.lines) = Len(p.block.lines) + 1 /\ HasNext(p, f, q)
<1> DEFINE l == [nameSize |-> f.colon - f.name, valueSize |-> f.end - f.colon - 1]
           lines == Append(p.block.lines, l)
           b == [p.block EXCEPT !.lines = lines]
<1>1. p.block \in Blocks /\ p.block.lines \in Seq([nameSize : Nat, valueSize : Nat])  BY DEF Parsers, Blocks
<1>2. l \in [nameSize : Nat, valueSize : Nat]
  <2>1. f.colon - f.name \in Nat /\ f.end - f.colon - 1 \in Nat  OBVIOUS
  <2> QED  BY <2>1
<1>3. q = [p EXCEPT !.block = b]  BY DEF AddFieldLine
<1>8. lines = Append(p.block.lines, [nameSize |-> f.colon - f.name, valueSize |-> f.end - f.colon - 1])  OBVIOUS
<1> HIDE DEF l
<1>4. lines \in Seq([nameSize : Nat, valueSize : Nat]) /\ Len(lines) = Len(p.block.lines) + 1
  BY <1>1, <1>2, AppendProperties
<1> HIDE DEF lines
<1>5. b \in Blocks /\ b.lines = lines /\ b.start = p.block.start  BY <1>1, <1>4 DEF Blocks
<1> HIDE DEF b
<1>6. q \in Parsers  BY <1>3, <1>5 DEF Parsers
<1>7. /\ q.state = p.state /\ q.skipped = p.skipped /\ q.requestSize = p.requestSize
      /\ q.trailersSize = p.trailersSize /\ q.body = p.body /\ q.block = b
      /\ q.line = p.line /\ q.host = p.host /\ q.expects = p.expects
  BY <1>3 DEF Parsers
<1>9. HasNext(p, f, q)
  <2> HIDE DEF b
  <2> QED  BY <1>5, <1>7, <1>8 DEF HasNext
<1> QED  BY <1>4, <1>5, <1>6, <1>7, <1>9

-----------------------------------------------------------------------------
(* The field lines of a block. *)

LineSizes == [nameSize : Nat, valueSize : Nat]

LEMMA BlockTypes ==
    ASSUME NEW p \in Parsers
    PROVE  /\ p.block \in Blocks /\ p.block.start \in Nat
           /\ p.block.lines \in Seq(LineSizes) /\ Len(p.block.lines) \in Nat
           /\ DOMAIN p.block.lines = 1..Len(p.block.lines)
           /\ \A i \in 1..Len(p.block.lines) : p.block.lines[i].nameSize \in Nat /\ p.block.lines[i].valueSize \in Nat
<1>1. p.block \in Blocks  BY DEF Parsers
<1>2. p.block.start \in Nat /\ p.block.lines \in Seq(LineSizes)  BY <1>1 DEF Blocks, LineSizes
<1>3. Len(p.block.lines) \in Nat /\ DOMAIN p.block.lines = 1..Len(p.block.lines)  BY <1>2, LenProperties
<1>4. \A i \in 1..Len(p.block.lines) : p.block.lines[i] \in LineSizes  BY <1>2, ElementOfSeq
<1>5. \A l \in LineSizes : l.nameSize \in Nat /\ l.valueSize \in Nat  BY DEF LineSizes
<1> QED  BY <1>1, <1>2, <1>3, <1>4, <1>5

\* Where each field line begins is worked out from where the one before it does.
LEMMA FieldStartIs ==
    ASSUME NEW p \in Parsers
    PROVE  /\ FieldStart(p, 1) = p.block.start
           /\ \A i \in 1..Len(p.block.lines) :
                 FieldStart(p, i + 1) = FieldStart(p, i) + p.block.lines[i].nameSize + p.block.lines[i].valueSize + 3
           /\ \A i \in 1..(Len(p.block.lines) + 1) : FieldStart(p, i) \in Nat
<1> DEFINE lines == p.block.lines
           n == Len(lines)
           Step(f, k) == IF k = 1 THEN p.block.start ELSE f[k - 1] + lines[k - 1].nameSize + lines[k - 1].valueSize + 3
           Runs(f, m) == f = [k \in 1..m |-> Step(f, k)]
           Good(m) == \E f : Runs(f, m)
           Bad == {m \in Nat : m # 0 /\ ~Good(m)}
<1>1. Bad = {}
  <2> SUFFICES ASSUME Bad # {} PROVE FALSE  OBVIOUS
  <2>1. Bad \subseteq Nat  OBVIOUS
  <2>2. PICK m \in Bad : \A k \in Bad : m <= k
    <3> HIDE DEF Bad
    <3> QED  BY <2>1, LeastOf
  <2>3. m \in Nat /\ m # 0 /\ ~Good(m)  OBVIOUS
  <2>4. CASE m = 1
    <3> DEFINE g == [k \in 1..1 |-> p.block.start]
    <3>1. \A k \in 1..1 : Step(g, k) = p.block.start
      <4>1. \A k \in 1..1 : k = 1  OBVIOUS
      <4> QED  BY <4>1
    <3>2. g = [k \in 1..1 |-> Step(g, k)]
      <4> HIDE DEF Step
      <4> QED  BY <3>1
    <3> QED  BY <2>3, <2>4, <3>2
  <2>5. CASE m # 1
    <3>1. m - 1 \in Nat /\ m - 1 # 0 /\ m - 1 \notin Bad
      <4>1. m - 1 \in Nat /\ m - 1 # 0 /\ ~(m <= m - 1)  BY <2>3, <2>5
      <4> HIDE DEF Bad
      <4> QED  BY <2>2, <4>1
    <3>2. PICK f : Runs(f, m - 1)
      <4> HIDE DEF Good
      <4>1. Good(m - 1)  BY <3>1
      <4> QED  BY <4>1 DEF Good
    <3> DEFINE top == Step(f, m)
               g == [k \in 1..m |-> IF k = m THEN top ELSE f[k]]
    <3>3. \A k \in 1..m : g[k] = Step(g, k)
      <4> SUFFICES ASSUME NEW k \in 1..m PROVE g[k] = Step(g, k)  OBVIOUS
      <4>1. CASE k = m
        <5>1. m - 1 \in 1..m /\ m - 1 # m /\ m \in 1..m  BY <2>3, <3>1
        <5>2. g[m - 1] = f[m - 1] /\ g[m] = top
          <6> HIDE DEF top
          <6> QED  BY <5>1
        <5>3. Step(g, m) = Step(f, m)
          <6> HIDE DEF g, top
          <6> QED  BY <5>2
        <5> HIDE DEF g, Step
        <5> QED  BY <4>1, <5>2, <5>3 DEF top
      <4>2. CASE k # m
        <5>1. k \in 1..(m - 1) /\ (k # 1 => k - 1 \in 1..m /\ k - 1 # m)  BY <2>3, <4>2
        <5>2. g[k] = f[k] /\ (k # 1 => g[k - 1] = f[k - 1])
          <6> HIDE DEF top
          <6> QED  BY <4>2, <5>1
        <5>3. f[k] = Step(f, k)
          <6> HIDE DEF Step
          <6> QED  BY <3>2, <5>1
        <5>4. Step(g, k) = Step(f, k)
          <6> HIDE DEF g
          <6> QED  BY <5>2
        <5> HIDE DEF g, Step
        <5> QED  BY <5>2, <5>3, <5>4
      <4> QED  BY <4>1, <4>2
    <3>4. g = [k \in 1..m |-> g[k]]  OBVIOUS
    <3> HIDE DEF g, Step
    <3>5. Runs(g, m)  BY <3>3, <3>4
    <3> QED  BY <2>3, <3>5
  <2> QED  BY <2>4, <2>5
<1> DEFINE h(m) == CHOOSE f : Runs(f, m)
<1>2. ASSUME NEW m \in Nat, m # 0
      PROVE  \A k \in 1..m : h(m)[k] = Step(h(m), k)
  <2>1. Good(m)
    <3> HIDE DEF Good
    <3> QED  BY <1>1, <1>2
  <2>2. Runs(h(m), m)
    <3> HIDE DEF Runs
    <3> QED  BY <2>1
  <2> HIDE DEF h, Step
  <2> QED  BY <2>2
<1>3. \A m \in Nat : FieldStart(p, m) = h(m)[m]  BY DEF FieldStart
<1> HIDE DEF h
<1>4. ASSUME NEW m \in Nat, NEW l \in Nat, m # 0, m <= l
      PROVE  \A k \in 1..m : h(m)[k] = h(l)[k]
  <2> DEFINE Off == {k \in 1..m : h(m)[k] # h(l)[k]}
  <2> SUFFICES ASSUME Off # {} PROVE FALSE  OBVIOUS
  <2>1. Off \subseteq Nat  OBVIOUS
  <2>2. PICK k \in Off : \A j \in Off : k <= j
    <3> HIDE DEF Off
    <3> QED  BY <2>1, LeastOf
  <2>3. k \in 1..m /\ k \in 1..l /\ h(m)[k] # h(l)[k]  BY <1>4
  <2>4. h(m)[k] = Step(h(m), k) /\ h(l)[k] = Step(h(l), k)
    <3> HIDE DEF Step
    <3>1. l # 0  BY <1>4
    <3> QED  BY <1>2, <1>4, <2>3, <3>1
  <2>5. k # 1  BY <2>3, <2>4
  <2>6. k - 1 \in 1..m /\ ~(k <= k - 1)  BY <2>3, <2>5
  <2>7. h(m)[k - 1] = h(l)[k - 1]
    <3>1. k - 1 \notin Off
      <4> HIDE DEF Off
      <4> QED  BY <2>2, <2>6
    <3> QED  BY <2>6, <3>1
  <2> QED  BY <2>3, <2>4, <2>5, <2>7
<1>5. n \in Nat  BY BlockTypes
<1>6. FieldStart(p, 1) = p.block.start
  <2>1. h(1)[1] = Step(h(1), 1)
    <3> HIDE DEF Step
    <3>1. 1 \in Nat /\ 1 # 0 /\ 1 \in 1..1  OBVIOUS
    <3> QED  BY <1>2, <3>1
  <2> QED  BY <1>3, <2>1
<1>7. ASSUME NEW i \in 1..n
      PROVE  FieldStart(p, i + 1) = FieldStart(p, i) + lines[i].nameSize + lines[i].valueSize + 3
  <2>1. i \in Nat /\ i + 1 \in Nat /\ i # 0 /\ i + 1 # 0 /\ i + 1 # 1 /\ i <= i + 1 /\ i + 1 \in 1..(i + 1) /\ i \in 1..i /\ i + 1 - 1 = i
    BY <1>5
  <2>2. h(i + 1)[i + 1] = Step(h(i + 1), i + 1)
    <3> HIDE DEF Step
    <3> QED  BY <1>2, <2>1
  <2>3. h(i)[i] = h(i + 1)[i]  BY <1>4, <2>1
  <2>4. Step(h(i + 1), i + 1) = h(i + 1)[i] + lines[i].nameSize + lines[i].valueSize + 3  BY <2>1
  <2> HIDE DEF Step
  <2> QED  BY <1>3, <2>1, <2>2, <2>3, <2>4
<1> DEFINE Wrong == {i \in 1..(n + 1) : FieldStart(p, i) \notin Nat}
<1>8. Wrong = {}
  <2> SUFFICES ASSUME Wrong # {} PROVE FALSE  OBVIOUS
  <2>1. Wrong \subseteq Nat  OBVIOUS
  <2>2. PICK i \in Wrong : \A j \in Wrong : i <= j
    <3> HIDE DEF Wrong
    <3> QED  BY <2>1, LeastOf
  <2>3. i \in 1..(n + 1) /\ FieldStart(p, i) \notin Nat  OBVIOUS
  <2>4. i # 1  BY <1>6, <2>3, BlockTypes
  <2>5. i - 1 \in 1..n /\ i - 1 \in 1..(n + 1) /\ ~(i <= i - 1) /\ i - 1 + 1 = i  BY <1>5, <2>3, <2>4
  <2>6. FieldStart(p, i - 1) \in Nat
    <3>1. i - 1 \notin Wrong
      <4> HIDE DEF Wrong
      <4> QED  BY <2>2, <2>5
    <3> QED  BY <2>5, <3>1
  <2>7. lines[i - 1].nameSize \in Nat /\ lines[i - 1].valueSize \in Nat  BY <2>5, BlockTypes
  <2>8. FieldStart(p, i - 1 + 1) = FieldStart(p, i - 1) + lines[i - 1].nameSize + lines[i - 1].valueSize + 3  BY <1>7, <2>5
  <2> QED  BY <2>3, <2>5, <2>6, <2>7, <2>8, SMTT(30)
<1> QED  BY <1>6, <1>7, <1>8

\* The parser q reads the same bytes as p, and has the field lines of p and maybe more.
Extends(p, q) ==
    /\ q.skipped = p.skipped /\ q.block.start = p.block.start
    /\ Len(p.block.lines) <= Len(q.block.lines)
    /\ \A i \in 1..Len(p.block.lines) : q.block.lines[i] = p.block.lines[i]

LEMMA SamePlace ==
    ASSUME NEW p, NEW q, q.skipped = p.skipped
    PROVE  /\ \A k : At(q, k) = At(p, k)
           /\ \A i, n : Slice(q, i, n) = Slice(p, i, n)
  BY DEF At, Slice

LEMMA LinesStay ==
    ASSUME NEW p \in Parsers, NEW q \in Parsers, Extends(p, q)
    PROVE  /\ \A i \in 1..(Len(p.block.lines) + 1) : FieldStart(q, i) = FieldStart(p, i)
           /\ \A i \in 1..Len(p.block.lines) :
                 /\ FieldStands(q, i) = FieldStands(p, i)
                 /\ FieldName(q, i) = FieldName(p, i) /\ FieldValue(q, i) = FieldValue(p, i)
<1> DEFINE n == Len(p.block.lines)
           Off == {i \in 1..(n + 1) : FieldStart(q, i) # FieldStart(p, i)}
<1>1. n \in Nat /\ Len(q.block.lines) \in Nat /\ n <= Len(q.block.lines) /\ q.block.start = p.block.start
  BY BlockTypes DEF Extends
<1>2. \A i \in 1..n : q.block.lines[i] = p.block.lines[i]  BY DEF Extends
<1>3. Off = {}
  <2> SUFFICES ASSUME Off # {} PROVE FALSE  OBVIOUS
  <2>1. Off \subseteq Nat  OBVIOUS
  <2>2. PICK i \in Off : \A j \in Off : i <= j
    <3> HIDE DEF Off
    <3> QED  BY <2>1, LeastOf
  <2>3. i \in 1..(n + 1) /\ FieldStart(q, i) # FieldStart(p, i)  OBVIOUS
  <2>4. i # 1  BY <1>1, <2>3, FieldStartIs
  <2>5. i - 1 \in 1..n /\ i - 1 \in 1..Len(q.block.lines) /\ i - 1 \in 1..(n + 1) /\ ~(i <= i - 1) /\ i - 1 + 1 = i
    <3> DEFINE l == Len(q.block.lines)
    <3>1. n \in Nat /\ l \in Nat /\ n <= l  BY <1>1
    <3>2. i \in 1..(n + 1) /\ i # 1  BY <2>3, <2>4
    <3> HIDE DEF n, l, Off
    <3>3. i - 1 \in 1..n /\ i - 1 \in 1..l /\ i - 1 \in 1..(n + 1) /\ ~(i <= i - 1) /\ i - 1 + 1 = i  BY <3>1, <3>2
    <3> QED  BY <3>3 DEF l
  <2>6. FieldStart(q, i - 1) = FieldStart(p, i - 1)
    <3>1. i - 1 \notin Off
      <4> HIDE DEF Off
      <4> QED  BY <2>2, <2>5
    <3> QED  BY <2>5, <3>1
  <2>7. /\ FieldStart(p, i - 1 + 1)
             = FieldStart(p, i - 1) + p.block.lines[i - 1].nameSize + p.block.lines[i - 1].valueSize + 3
        /\ FieldStart(q, i - 1 + 1)
             = FieldStart(q, i - 1) + q.block.lines[i - 1].nameSize + q.block.lines[i - 1].valueSize + 3
    BY <2>5, FieldStartIs
  <2>8. q.block.lines[i - 1] = p.block.lines[i - 1]  BY <1>2, <2>5
  <2>9. FieldStart(q, i - 1 + 1) = FieldStart(p, i - 1 + 1)
    <3> HIDE DEF Off
    <3> QED  BY <2>6, <2>7, <2>8
  <2>10. FieldStart(q, i) = FieldStart(p, i)
    <3> HIDE DEF Off
    <3> QED  BY <2>5, <2>9
  <2> QED  BY <2>3, <2>10
<1>4. \A i \in 1..(n + 1) : FieldStart(q, i) = FieldStart(p, i)  BY <1>3
<1>5. ASSUME NEW i \in 1..n
      PROVE  /\ FieldStands(q, i) = FieldStands(p, i)
             /\ FieldName(q, i) = FieldName(p, i) /\ FieldValue(q, i) = FieldValue(p, i)
  <2>1. FieldStart(q, i) = FieldStart(p, i) /\ q.block.lines[i] = p.block.lines[i]  BY <1>1, <1>2, <1>4
  <2>2. /\ \A k : At(q, k) = At(p, k)
        /\ \A k, m : Slice(q, k, m) = Slice(p, k, m)
    BY SamePlace DEF Extends
  <2>3. FieldStands(q, i) = FieldStands(p, i)  BY <2>1, <2>2 DEF FieldStands
  <2>4. FieldName(q, i) = FieldName(p, i)  BY <2>1, <2>2 DEF FieldName
  <2>5. FieldValue(q, i) = FieldValue(p, i)  BY <2>1, <2>2 DEF FieldValue
  <2> QED  BY <2>3, <2>4, <2>5
<1> QED  BY <1>4, <1>5

\* The field lines that were read end at index n.
LinesRead(p, n) ==
    /\ \A i \in 1..Len(p.block.lines) : FieldStands(p, i)
    /\ FieldStart(p, Len(p.block.lines) + 1) = n

\* A line that is found where the others end is the next of the block.
LEMMA LineRead ==
    ASSUME NEW p \in Parsers, NEW f, Found(p, f), LinesRead(p, f.name), NEW q \in Parsers, q.skipped = p.skipped,
           HasNext(p, f, q)
    PROVE  /\ Extends(p, q) /\ Len(q.block.lines) = Len(p.block.lines) + 1
           /\ LinesRead(q, f.end + 2)
           /\ FieldName(q, Len(q.block.lines)) = NameOf(p, f)
           /\ FieldValue(q, Len(q.block.lines)) = Trim(ValueOf(p, f))
<1> DEFINE n == Len(p.block.lines)
           m == n + 1
           l == [nameSize |-> f.colon - f.name, valueSize |-> f.end - f.colon - 1]
<1>1. n \in Nat /\ p.block.lines \in Seq(LineSizes)  BY BlockTypes
<1>2. f.name \in Nat /\ f.colon \in Nat /\ f.end \in Nat /\ f.name < f.colon /\ f.colon < f.end  BY DEF Found
<1>3. l \in LineSizes /\ l.nameSize = f.colon - f.name /\ l.valueSize = f.end - f.colon - 1
  <2>1. f.colon - f.name \in Nat /\ f.end - f.colon - 1 \in Nat  BY <1>2
  <2> QED  BY <2>1 DEF LineSizes
<1>16. q.block.start = p.block.start /\ q.block.lines = Append(p.block.lines, l)  BY DEF HasNext
<1> HIDE DEF l
<1>4. /\ Len(q.block.lines) = m
      /\ \A i \in 1..n : q.block.lines[i] = p.block.lines[i]
      /\ q.block.lines[m] = l
  BY <1>1, <1>3, <1>16, AppendProperties
<1>5. Extends(p, q)
  <2>1. n <= m  BY <1>1
  <2> QED  BY <1>4, <1>16, <2>1 DEF Extends
<1>6. m \in 1..(n + 1) /\ m \in 1..Len(q.block.lines)  BY <1>1, <1>4
<1>7. FieldStart(q, m) = f.name
  <2>1. FieldStart(q, m) = FieldStart(p, m)  BY <1>5, <1>6, LinesStay
  <2> QED  BY <2>1 DEF LinesRead
<1>8. FieldStart(q, m + 1) = f.end + 2
  <2>1. FieldStart(q, m + 1) = FieldStart(q, m) + q.block.lines[m].nameSize + q.block.lines[m].valueSize + 3
    BY <1>6, FieldStartIs
  <2>2. q.block.lines[m].nameSize = f.colon - f.name /\ q.block.lines[m].valueSize = f.end - f.colon - 1  BY <1>3, <1>4
  <2> HIDE DEF m
  <2>3. FieldStart(q, m + 1) = f.name + (f.colon - f.name) + (f.end - f.colon - 1) + 3  BY <1>7, <2>1, <2>2
  <2> QED  BY <1>2, <2>3
<1>9. /\ \A k : At(q, k) = At(p, k)
      /\ \A k, j : Slice(q, k, j) = Slice(p, k, j)
  BY SamePlace
<1>10. f.name + (f.colon - f.name) = f.colon /\ f.colon + 1 + (f.end - f.colon - 1) = f.end
  BY <1>2
<1>11. FieldStands(q, m)
  <2>1. /\ \A k \in f.name..(f.colon - 1) : At(q, k) \in NameBytes
        /\ At(q, f.colon) = ":"
        /\ \A k \in (f.colon + 1)..(f.end - 1) : At(q, k) \in TextBytes
        /\ Slice(q, f.end, 2) = CRLF
    BY <1>9 DEF Found
  <2>2. q.block.lines[m].nameSize = f.colon - f.name /\ q.block.lines[m].valueSize = f.end - f.colon - 1  BY <1>3, <1>4
  <2> HIDE DEF m
  <2> QED  BY <1>2, <1>7, <1>10, <2>1, <2>2 DEF FieldStands
<1>12. \A i \in 1..n : FieldStands(q, i)  BY <1>5, LinesStay DEF LinesRead
<1>13. LinesRead(q, f.end + 2)
  <2>1. \A i \in 1..m : i \in 1..n \/ i = m  BY <1>1
  <2> QED  BY <1>4, <1>8, <1>11, <1>12, <2>1 DEF LinesRead
<1>14. FieldName(q, m) = NameOf(p, f)
  BY <1>3, <1>4, <1>7, <1>9 DEF FieldName, NameOf
<1>15. FieldValue(q, m) = Trim(ValueOf(p, f))
  BY <1>3, <1>4, <1>7, <1>9, <1>10 DEF FieldValue, ValueOf
<1> QED  BY <1>4, <1>5, <1>13, <1>14, <1>15

\* What a header line with this name and this value makes of what the parser p has taken from those before it.
Heeds(p, name, v, q) ==
    /\ q.host \in BOOLEAN /\ q.expects \in BOOLEAN
    /\ name = <<"Host">> => ~p.host
    /\ q.host <=> p.host \/ name = <<"Host">>
    /\ q.expects <=> p.expects \/ (name = <<"Expect">> /\ v = <<"100-continue">>)
    /\ name = <<"Content-Length">> =>
          /\ p.body.type # "Chunked" /\ (p.body.type = "NotChunked" => p.body.size = q.body.size)
          /\ q.body.type = "NotChunked" /\ v # <<>> /\ Range(v) \subseteq Digits /\ Number(v, 10) = q.body.size
    /\ name = <<"Transfer-Encoding">> =>
          p.body.type = "NoBody" /\ q.body.type = "Chunked" /\ v # <<>> /\ EndsChunked(v)
    /\ name \notin {<<"Content-Length">>, <<"Transfer-Encoding">>} =>
          q.body.type = p.body.type /\ q.body.size = p.body.size

LEMMA NamesDiffer ==
    /\ <<"Host">> # <<"Content-Length">> /\ <<"Host">> # <<"Transfer-Encoding">> /\ <<"Host">> # <<"Expect">>
    /\ <<"Content-Length">> # <<"Transfer-Encoding">> /\ <<"Content-Length">> # <<"Expect">>
    /\ <<"Transfer-Encoding">> # <<"Expect">>
  OBVIOUS

LEMMA LineHeeded ==
    ASSUME NEW p \in Parsers, NEW q \in Parsers, Extends(p, q), Len(q.block.lines) = Len(p.block.lines) + 1,
           FieldsHeeded(p), NEW name, NEW v, name = FieldName(q, Len(q.block.lines)), v = FieldValue(q, Len(q.block.lines)),
           Heeds(p, name, v, q)
    PROVE  FieldsHeeded(q)
<1> DEFINE n == Len(p.block.lines)
           m == n + 1
           values(r, S) == {FieldValue(r, i) : i \in S}
<1>1. n \in Nat /\ DOMAIN p.block.lines = 1..n /\ DOMAIN q.block.lines = 1..m  BY BlockTypes
<1>2. m \notin 1..n /\ 1..m = (1..n) \cup {m}  BY <1>1
<1>3. \A i \in 1..n : FieldName(q, i) = FieldName(p, i) /\ FieldValue(q, i) = FieldValue(p, i)  BY LinesStay
<1>4. name = FieldName(q, m) /\ v = FieldValue(q, m)  OBVIOUS
<1> HIDE DEF n, m
<1>5. ASSUME NEW x
      PROVE  /\ Named(p, x) \subseteq 1..n
             /\ name = x => Named(q, x) = Named(p, x) \cup {m}
             /\ name # x => Named(q, x) = Named(p, x)
  <2>1. Named(p, x) = {i \in 1..n : FieldName(p, i) = x}  BY <1>1 DEF Named
  <2>2. Named(q, x) = {i \in 1..m : FieldName(q, i) = x}  BY <1>1 DEF Named
  <2> QED  BY <1>2, <1>3, <1>4, <2>1, <2>2
<1>6. ASSUME NEW x
      PROVE  /\ name = x => values(q, Named(q, x)) = values(p, Named(p, x)) \cup {v}
             /\ name # x => values(q, Named(q, x)) = values(p, Named(p, x))
  <2>1. \A i \in Named(p, x) : FieldValue(q, i) = FieldValue(p, i)  BY <1>3, <1>5
  <2> QED  BY <1>4, <1>5, <2>1
<1> DEFINE Says(r) ==
             /\ r.host <=> Named(r, <<"Host">>) # {}
             /\ \A i, j \in Named(r, <<"Host">>) : i = j
             /\ r.expects <=> <<"100-continue">> \in values(r, Named(r, <<"Expect">>))
             /\ r.body.type = "NoBody" => Named(r, <<"Content-Length">>) = {} /\ Named(r, <<"Transfer-Encoding">>) = {}
             /\ r.body.type = "NotChunked" =>
                   /\ Named(r, <<"Content-Length">>) # {} /\ Named(r, <<"Transfer-Encoding">>) = {}
                   /\ \A w \in values(r, Named(r, <<"Content-Length">>)) :
                         w # <<>> /\ Range(w) \subseteq Digits /\ Number(w, 10) = r.body.size
             /\ r.body.type = "Chunked" =>
                   /\ Named(r, <<"Content-Length">>) = {} /\ Named(r, <<"Transfer-Encoding">>) # {}
                   /\ \A i, j \in Named(r, <<"Transfer-Encoding">>) : i = j
                   /\ \A w \in values(r, Named(r, <<"Transfer-Encoding">>)) : w # <<>> /\ EndsChunked(w)
<1>7. ASSUME NEW r \in Parsers
      PROVE  FieldsHeeded(r) <=> Says(r)
  <2>1. r.body.type \in {"NoBody", "NotChunked", "Chunked"}  BY DEF Parsers, Bodies
  <2> QED  BY <2>1 DEF FieldsHeeded
<1>8. Says(p)  BY <1>7
<1>9. p.body.type \in {"NoBody", "NotChunked", "Chunked"}  BY DEF Parsers, Bodies
<1> HIDE DEF values
<1>10. /\ q.host <=> Named(q, <<"Host">>) # {}
       /\ \A i, j \in Named(q, <<"Host">>) : i = j
  <2>1. CASE name = <<"Host">>
    <3>1. Named(p, <<"Host">>) = {} /\ q.host  BY <1>8, <2>1 DEF Heeds
    <3>2. Named(q, <<"Host">>) = {m}  BY <1>5, <2>1, <3>1
    <3> QED  BY <3>1, <3>2
  <2>2. CASE name # <<"Host">>
    <3>1. q.host <=> p.host  BY <2>2 DEF Heeds
    <3>2. Named(q, <<"Host">>) = Named(p, <<"Host">>)  BY <1>5, <2>2
    <3> QED  BY <1>8, <3>1, <3>2
  <2> QED  BY <2>1, <2>2
<1>11. q.expects <=> <<"100-continue">> \in values(q, Named(q, <<"Expect">>))
  <2>1. CASE name = <<"Expect">>
    <3>1. values(q, Named(q, <<"Expect">>)) = values(p, Named(p, <<"Expect">>)) \cup {v}  BY <1>6, <2>1
    <3>2. q.expects <=> p.expects \/ v = <<"100-continue">>  BY <2>1 DEF Heeds
    <3> QED  BY <1>8, <3>1, <3>2
  <2>2. CASE name # <<"Expect">>
    <3>1. values(q, Named(q, <<"Expect">>)) = values(p, Named(p, <<"Expect">>))  BY <1>6, <2>2
    <3>2. q.expects <=> p.expects  BY <2>2 DEF Heeds
    <3> QED  BY <1>8, <3>1, <3>2
  <2> QED  BY <2>1, <2>2
<1>12. CASE name = <<"Content-Length">>
  <2>1. /\ p.body.type # "Chunked" /\ (p.body.type = "NotChunked" => p.body.size = q.body.size)
        /\ q.body.type = "NotChunked" /\ v # <<>> /\ Range(v) \subseteq Digits /\ Number(v, 10) = q.body.size
    BY <1>12 DEF Heeds
  <2>2. Named(q, <<"Content-Length">>) = Named(p, <<"Content-Length">>) \cup {m}  BY <1>5, <1>12
  <2>3. name # <<"Transfer-Encoding">>  BY <1>12, NamesDiffer
  <2>4. Named(q, <<"Transfer-Encoding">>) = Named(p, <<"Transfer-Encoding">>)  BY <1>5, <2>3
  <2>5. Named(p, <<"Transfer-Encoding">>) = {}  BY <1>8, <1>9, <2>1
  <2>6. values(q, Named(q, <<"Content-Length">>)) = values(p, Named(p, <<"Content-Length">>)) \cup {v}  BY <1>6, <1>12
  <2>7. \A w \in values(p, Named(p, <<"Content-Length">>)) : w # <<>> /\ Range(w) \subseteq Digits /\ Number(w, 10) = q.body.size
    <3>1. CASE p.body.type = "NotChunked"
      BY <1>8, <2>1, <3>1
    <3>2. CASE p.body.type = "NoBody"
      <4>1. Named(p, <<"Content-Length">>) = {}  BY <1>8, <3>2
      <4> QED  BY <4>1 DEF values
    <3> QED  BY <1>9, <2>1, <3>1, <3>2
  <2>8. /\ Named(q, <<"Content-Length">>) # {} /\ Named(q, <<"Transfer-Encoding">>) = {}
        /\ \A w \in values(q, Named(q, <<"Content-Length">>)) : w # <<>> /\ Range(w) \subseteq Digits /\ Number(w, 10) = q.body.size
    BY <2>1, <2>2, <2>4, <2>5, <2>6, <2>7
  <2>9. Says(q)  BY <1>10, <1>11, <2>1, <2>8
  <2> QED  BY <1>7, <2>9
<1>13. CASE name = <<"Transfer-Encoding">>
  <2>1. p.body.type = "NoBody" /\ q.body.type = "Chunked" /\ v # <<>> /\ EndsChunked(v)  BY <1>13 DEF Heeds
  <2>2. Named(p, <<"Content-Length">>) = {} /\ Named(p, <<"Transfer-Encoding">>) = {}  BY <1>8, <2>1
  <2>3. name # <<"Content-Length">>  BY <1>13, NamesDiffer
  <2>4. Named(q, <<"Content-Length">>) = {}  BY <1>5, <2>2, <2>3
  <2>5. Named(q, <<"Transfer-Encoding">>) = {m}  BY <1>5, <1>13, <2>2
  <2>6. values(q, Named(q, <<"Transfer-Encoding">>)) = {v}  BY <1>4, <2>5 DEF values
  <2>7. /\ Named(q, <<"Content-Length">>) = {} /\ Named(q, <<"Transfer-Encoding">>) # {}
        /\ \A i, j \in Named(q, <<"Transfer-Encoding">>) : i = j
        /\ \A w \in values(q, Named(q, <<"Transfer-Encoding">>)) : w # <<>> /\ EndsChunked(w)
    BY <2>1, <2>4, <2>5, <2>6
  <2>8. Says(q)  BY <1>10, <1>11, <2>1, <2>7
  <2> QED  BY <1>7, <2>8
<1>14. CASE name \notin {<<"Content-Length">>, <<"Transfer-Encoding">>}
  <2>1. q.body.type = p.body.type /\ q.body.size = p.body.size  BY <1>14 DEF Heeds
  <2>2. /\ Named(q, <<"Content-Length">>) = Named(p, <<"Content-Length">>)
        /\ Named(q, <<"Transfer-Encoding">>) = Named(p, <<"Transfer-Encoding">>)
    BY <1>5, <1>14
  <2>3. /\ values(q, Named(q, <<"Content-Length">>)) = values(p, Named(p, <<"Content-Length">>))
        /\ values(q, Named(q, <<"Transfer-Encoding">>)) = values(p, Named(p, <<"Transfer-Encoding">>))
    BY <1>6, <1>14
  <2>4. /\ q.body.type = "NoBody" => Named(q, <<"Content-Length">>) = {} /\ Named(q, <<"Transfer-Encoding">>) = {}
        /\ q.body.type = "NotChunked" =>
              /\ Named(q, <<"Content-Length">>) # {} /\ Named(q, <<"Transfer-Encoding">>) = {}
              /\ \A w \in values(q, Named(q, <<"Content-Length">>)) :
                    w # <<>> /\ Range(w) \subseteq Digits /\ Number(w, 10) = q.body.size
        /\ q.body.type = "Chunked" =>
              /\ Named(q, <<"Content-Length">>) = {} /\ Named(q, <<"Transfer-Encoding">>) # {}
              /\ \A i, j \in Named(q, <<"Transfer-Encoding">>) : i = j
              /\ \A w \in values(q, Named(q, <<"Transfer-Encoding">>)) : w # <<>> /\ EndsChunked(w)
    BY <1>8, <2>1, <2>2, <2>3
  <2>5. Says(q)  BY <1>10, <1>11, <2>4
  <2> QED  BY <1>7, <2>5
<1> QED  BY <1>12, <1>13, <1>14

-----------------------------------------------------------------------------
(* The bytes of a request line. *)

\* No line break begins in the first n bytes.
Clean(p, n) == \A k \in 0..(n - 1) : At(p, k) # "cr"

\* The first n bytes are the method and the blank behind it.
MethodStands(p, n, options) ==
    /\ n \in IF options THEN {8} ELSE 4..7
    /\ \A k \in 0..(n - 2) : At(p, k) = IF options THEN "o" ELSE "m"
    /\ At(p, n - 1) = " "

\* The path is the n bytes from index i on.
PathStands(p, i, n, options) ==
    \/ options /\ n = 1 /\ At(p, i) = "*" /\ At(p, i + n) = " "
    \/ At(p, i) = "/" /\ At(p, i + 1) # "/" /\ UrlStands(p, i, n, PathBytes)

\* The first n bytes are what the line l says, up to the blank behind the target.
TargetStands(p, l, n) ==
    LET pathEnd == l.path + l.pathSize
        queryEnd == l.query + l.querySize
    IN /\ MethodStands(p, l.path, l.options) /\ PathStands(p, l.path, l.pathSize, l.options)
       /\ \/ At(p, pathEnd) = " " /\ l.querySize = 0 /\ n = pathEnd + 1
          \/ /\ At(p, pathEnd) = "?" /\ l.query = pathEnd + 1 /\ UrlStands(p, l.query, l.querySize, QueryBytes)
             /\ At(p, queryEnd) = " " /\ n = queryEnd + 1

LEMMA VersionLength == Len(Version) = 10
<1> DEFINE name == [i \in 1..8 |-> "V"]
<1>1. Version = name \o CRLF  BY DEF Version
<1>2. name \in Seq({"V", "cr", "lf"}) /\ Len(name) = 8
  <2>1. \A i \in 1..8 : name[i] \in {"V", "cr", "lf"}  OBVIOUS
  <2>2. 8 \in Nat /\ DOMAIN name = 1..8  OBVIOUS
  <2>3. name \in Seq({"V", "cr", "lf"})  BY <2>1, <2>2, IsASeq
  <2> HIDE DEF name
  <2> QED  BY <2>2, <2>3, LenProperties
<1> HIDE DEF name
<1>3. CRLF \in Seq({"V", "cr", "lf"}) /\ Len(CRLF) = 2  BY DEF CRLF
<1>4. Len(name \o CRLF) = Len(name) + Len(CRLF)  BY <1>2, <1>3, ConcatProperties
<1> QED  BY <1>1, <1>2, <1>3, <1>4

LEMMA SameLine ==
    ASSUME NEW p, NEW q, q.skipped = p.skipped
    PROVE  /\ \A n : Clean(q, n) = Clean(p, n)
           /\ \A n, options : MethodStands(q, n, options) = MethodStands(p, n, options)
           /\ \A i, n, class : UrlStands(q, i, n, class) = UrlStands(p, i, n, class)
           /\ \A i, n, options : PathStands(q, i, n, options) = PathStands(p, i, n, options)
           /\ \A l, n : TargetStands(q, l, n) = TargetStands(p, l, n)
<1>1. \A k : At(q, k) = At(p, k)  BY SamePlace
<1>2. \A n : Clean(q, n) = Clean(p, n)  BY <1>1 DEF Clean
<1>3. \A n, options : MethodStands(q, n, options) = MethodStands(p, n, options)  BY <1>1 DEF MethodStands
<1>4. \A i, n, class : UrlStands(q, i, n, class) = UrlStands(p, i, n, class)  BY <1>1 DEF UrlStands
<1>5. \A i, n, options : PathStands(q, i, n, options) = PathStands(p, i, n, options)  BY <1>1, <1>4, ZenonT(40) DEF PathStands
<1>6. \A l, n : TargetStands(q, l, n) = TargetStands(p, l, n)  BY <1>1, <1>3, <1>4, <1>5, ZenonT(40) DEF TargetStands
<1> QED  BY <1>2, <1>3, <1>4, <1>5, <1>6

LEMMA CleanByOne ==
    ASSUME NEW p, NEW n \in Nat, Clean(p, n), At(p, n) # "cr"
    PROVE  Clean(p, n + 1)
<1>1. \A k \in 0..(n + 1 - 1) : k \in 0..(n - 1) \/ k = n  OBVIOUS
<1> QED  BY <1>1 DEF Clean

LEMMA UrlClean ==
    ASSUME NEW p, NEW i \in Nat, NEW n \in Nat, NEW class, "cr" \notin class, UrlStands(p, i, n, class), Clean(p, i)
    PROVE  Clean(p, i + n)
<1> SUFFICES ASSUME NEW k \in 0..(i + n - 1) PROVE At(p, k) # "cr"  BY DEF Clean
<1>1. CASE k < i
  <2>1. k \in 0..(i - 1)  BY <1>1
  <2> QED  BY <2>1 DEF Clean
<1>2. CASE ~(k < i)
  <2>1. k \in i..(i + n - 1)  BY <1>2
  <2>2. At(p, k) \in class \/ At(p, k) = "%"  BY <2>1 DEF UrlStands
  <2> QED  BY <2>2
<1> QED  BY <1>1, <1>2

LEMMA MethodClean ==
    ASSUME NEW p, NEW n, NEW options, MethodStands(p, n, options)
    PROVE  n \in Nat /\ n > 0 /\ Clean(p, n)
<1>1. n \in Nat /\ n > 0
  <2>1. n \in {8} \/ n \in 4..7
    <3>1. CASE options
      BY <3>1 DEF MethodStands
    <3>2. CASE ~options
      BY <3>2 DEF MethodStands
    <3> QED  BY <3>1, <3>2
  <2> QED  BY <2>1
<1>2. \A k \in 0..(n - 1) : k \in 0..(n - 2) \/ k = n - 1  BY <1>1
<1>3. \A k \in 0..(n - 1) : At(p, k) \in {"o", "m", " "}  BY <1>2 DEF MethodStands
<1> QED  BY <1>1, <1>3 DEF Clean

LEMMA PathClean ==
    ASSUME NEW p, NEW i \in Nat, NEW n \in Nat, NEW options, PathStands(p, i, n, options), Clean(p, i)
    PROVE  Clean(p, i + n)
<1>1. CASE options /\ n = 1 /\ At(p, i) = "*"
  BY <1>1, CleanByOne
<1>2. CASE UrlStands(p, i, n, PathBytes)
  BY <1>2, UrlClean, NoRuleAdmitsBreaks
<1> QED  BY <1>1, <1>2 DEF PathStands

LEMMA TargetClean ==
    ASSUME NEW p, NEW l \in RequestLines, NEW n, TargetStands(p, l, n)
    PROVE  n \in Nat /\ Clean(p, n)
<1> DEFINE i == l.path
           m == l.pathSize
           j == l.query
           k == l.querySize
<1>1. i \in Nat /\ m \in Nat /\ j \in Nat /\ k \in Nat  BY DEF RequestLines
<1>2. Clean(p, i)  BY MethodClean DEF TargetStands
<1>3. PathStands(p, i, m, l.options)  BY DEF TargetStands
<1>4. \/ At(p, i + m) = " " /\ n = i + m + 1
      \/ /\ At(p, i + m) = "?" /\ j = i + m + 1 /\ UrlStands(p, j, k, QueryBytes)
         /\ At(p, j + k) = " " /\ n = j + k + 1
  BY DEF TargetStands
<1> DEFINE options == l.options
<1> HIDE DEF i, m, j, k, options
<1>5. Clean(p, i + m) /\ i + m \in Nat  BY <1>1, <1>2, <1>3, PathClean DEF options
<1>6. CASE At(p, i + m) = " " /\ n = i + m + 1
  <2> DEFINE e == i + m
  <2>1. At(p, e) # "cr" /\ n = e + 1 /\ e \in Nat /\ Clean(p, e)  BY <1>5, <1>6
  <2> HIDE DEF e
  <2> QED  BY <2>1, CleanByOne
<1>7. CASE /\ At(p, i + m) = "?" /\ j = i + m + 1 /\ UrlStands(p, j, k, QueryBytes)
           /\ At(p, j + k) = " " /\ n = j + k + 1
  <2> DEFINE e == i + m
             a == j + k
  <2>1. At(p, e) # "cr" /\ j = e + 1 /\ e \in Nat /\ Clean(p, e)  BY <1>5, <1>7
  <2> HIDE DEF e
  <2>2. Clean(p, j)  BY <2>1, CleanByOne
  <2>3. Clean(p, a) /\ a \in Nat
    <3>1. "cr" \notin QueryBytes /\ UrlStands(p, j, k, QueryBytes) /\ j \in Nat /\ k \in Nat  BY <1>1, <1>7, NoRuleAdmitsBreaks
    <3>2. Clean(p, j + k)  BY <2>2, <3>1, UrlClean
    <3> QED  BY <3>1, <3>2
  <2>4. Clean(p, a) /\ At(p, a) # "cr" /\ n = a + 1  BY <1>7, <2>3
  <2> HIDE DEF a
  <2> QED  BY <2>3, <2>4, CleanByOne
<1> QED  BY <1>4, <1>6, <1>7

\* A request line is one when the version stands behind its target.
LEMMA LineStands ==
    ASSUME NEW p, NEW q, q.skipped = p.skipped, q.line \in RequestLines, NEW n \in Nat, TargetStands(p, q.line, n),
           Slice(p, n, Len(Version)) = Version, q.block.start = n + Len(Version)
    PROVE  RequestLineStands(q)
<1> DEFINE l == q.line
           pathEnd == l.path + l.pathSize
           queryEnd == l.query + l.querySize
           end == IF At(q, pathEnd) = "?" THEN queryEnd ELSE pathEnd
<1>1. l.path \in Nat /\ pathEnd \in Nat /\ queryEnd \in Nat  BY DEF RequestLines
<1>2. TargetStands(q, l, n)  BY SameLine
<1>3. MethodStands(q, l.path, l.options) /\ PathStands(q, l.path, l.pathSize, l.options)  BY <1>2 DEF TargetStands
<1>4. /\ IF At(q, pathEnd) = "?"
         THEN l.query = pathEnd + 1 /\ UrlStands(q, l.query, l.querySize, QueryBytes)
         ELSE l.querySize = 0
      /\ At(q, end) = " " /\ n = end + 1
  BY <1>2 DEF TargetStands
<1>5. end \in Nat  BY <1>1
<1>6. Slice(q, end + 1, Len(Version)) = Version
  <2>1. n = end + 1  BY <1>4
  <2> HIDE DEF end
  <2>2. Slice(q, n, Len(Version)) = Slice(p, n, Len(Version))  BY SamePlace
  <2> QED  BY <2>1, <2>2
<1>7. q.block.start = end + 1 + Len(Version)  BY <1>4
<1> HIDE DEF end
<1>8. /\ l.path \in IF l.options THEN {8} ELSE 4..7
      /\ \A k \in 0..(l.path - 2) : At(q, k) = IF l.options THEN "o" ELSE "m"
      /\ At(q, l.path - 1) = " "
      /\ \/ l.options /\ l.pathSize = 1 /\ At(q, l.path) = "*" /\ At(q, pathEnd) = " "
         \/ /\ At(q, l.path) = "/" /\ At(q, l.path + 1) # "/"
            /\ UrlStands(q, l.path, l.pathSize, PathBytes)
  BY <1>3 DEF MethodStands, PathStands
<1> QED  BY <1>4, <1>6, <1>7, <1>8 DEF RequestLineStands, end

-----------------------------------------------------------------------------
(* What was read of a header. *)

\* What was read of a header is in the buffer, up to where the parser is, and was heeded.
HeaderRead(p) == RequestLineStands(p) /\ LinesRead(p, p.requestSize) /\ FieldsHeeded(p)

\* A whole header is in the buffer, and was heeded.
Delimited(p) == BlockStands(p) /\ p.block.lines # <<>> /\ RequestLineStands(p) /\ p.host /\ FieldsHeeded(p)

\* The parser q is where p is, and has read the same of a header.
SameHeader(p, q) ==
    /\ q.skipped = p.skipped /\ q.line = p.line /\ q.block = p.block /\ q.host = p.host /\ q.expects = p.expects
    /\ q.body.type = p.body.type /\ (p.body.type = "NotChunked" => q.body.size = p.body.size)

LEMMA RequestLineStays ==
    ASSUME NEW p, NEW q, q.skipped = p.skipped, q.line = p.line, q.block.start = p.block.start, RequestLineStands(p)
    PROVE  RequestLineStands(q)
<1>1. /\ \A k : At(q, k) = At(p, k)
      /\ \A i, n : Slice(q, i, n) = Slice(p, i, n)
      /\ \A i, n, class : UrlStands(q, i, n, class) = UrlStands(p, i, n, class)
  BY SamePlace, SameLine
<1> DEFINE blank == " "
           Is(r, l, start) ==
             LET pathEnd == l.path + l.pathSize
                 end == IF At(r, pathEnd) = "?" THEN l.query + l.querySize ELSE pathEnd
             IN /\ l.path \in IF l.options THEN {8} ELSE 4..7
                /\ \A k \in 0..(l.path - 2) : At(r, k) = IF l.options THEN "o" ELSE "m"
                /\ At(r, l.path - 1) = blank
                /\ \/ l.options /\ l.pathSize = 1 /\ At(r, l.path) = "*" /\ At(r, pathEnd) = blank
                   \/ /\ At(r, l.path) = "/" /\ At(r, l.path + 1) # "/"
                      /\ UrlStands(r, l.path, l.pathSize, PathBytes)
                /\ IF At(r, pathEnd) = "?"
                   THEN l.query = pathEnd + 1 /\ UrlStands(r, l.query, l.querySize, QueryBytes)
                   ELSE l.querySize = 0
                /\ At(r, end) = blank /\ Slice(r, end + 1, Len(Version)) = Version
                /\ start = end + 1 + Len(Version)
<1>2. Is(p, p.line, p.block.start)  BY DEF RequestLineStands
<1>3. Is(q, q.line, q.block.start) => RequestLineStands(q)  BY DEF RequestLineStands
<1> HIDE DEF blank
<1>4. Is(q, p.line, p.block.start)  BY <1>1, <1>2
<1> HIDE DEF Is
<1> QED  BY <1>3, <1>4

LEMMA BlockStays ==
    ASSUME NEW p \in Parsers, NEW q \in Parsers, q.skipped = p.skipped, q.block = p.block
    PROVE  /\ Extends(p, q)
           /\ \A n : LinesRead(p, n) => LinesRead(q, n)
           /\ BlockStands(p) => BlockStands(q)
<1> DEFINE n == Len(p.block.lines)
<1>1. n \in Nat /\ DOMAIN p.block.lines = 1..n  BY BlockTypes
<1>2. Extends(p, q)  BY <1>1 DEF Extends
<1>3. /\ \A i \in 1..(n + 1) : FieldStart(q, i) = FieldStart(p, i)
      /\ \A i \in 1..n : FieldStands(q, i) = FieldStands(p, i)
  BY <1>2, LinesStay
<1>4. n + 1 \in 1..(n + 1)  BY <1>1
<1>5. \A m : LinesRead(p, m) => LinesRead(q, m)  BY <1>3, <1>4 DEF LinesRead
<1>6. Slice(q, FieldStart(q, n + 1), 2) = Slice(p, FieldStart(p, n + 1), 2)  BY <1>3, <1>4, SamePlace
<1>7. BlockStands(p) => BlockStands(q)  BY <1>1, <1>3, <1>6 DEF BlockStands
<1> QED  BY <1>2, <1>5, <1>7

LEMMA HeaderStays ==
    ASSUME NEW p \in Parsers, NEW q \in Parsers, SameHeader(p, q)
    PROVE  /\ RequestLineStands(p) => RequestLineStands(q)
           /\ \A n : LinesRead(p, n) => LinesRead(q, n)
           /\ BlockStands(p) => BlockStands(q)
           /\ FieldsHeeded(p) => FieldsHeeded(q)
<1> DEFINE n == Len(p.block.lines)
           values(r, x) == {FieldValue(r, i) : i \in Named(r, x)}
<1>1. RequestLineStands(p) => RequestLineStands(q)  BY RequestLineStays DEF SameHeader
<1>2. n \in Nat /\ DOMAIN p.block.lines = 1..n  BY BlockTypes
<1>3. q.skipped = p.skipped /\ q.block = p.block  BY DEF SameHeader
<1>4. /\ Extends(p, q)
      /\ \A m : LinesRead(p, m) => LinesRead(q, m)
      /\ BlockStands(p) => BlockStands(q)
  BY <1>3, BlockStays
<1>5. \A i \in 1..n : FieldName(q, i) = FieldName(p, i) /\ FieldValue(q, i) = FieldValue(p, i)  BY <1>4, LinesStay
<1>6. \A x : Named(p, x) \subseteq 1..n /\ Named(q, x) = Named(p, x)  BY <1>2, <1>3, <1>5 DEF Named
<1>7. \A x : values(q, x) = values(p, x)  BY <1>5, <1>6
<1>8. FieldsHeeded(p) => FieldsHeeded(q)
  <2>1. q.host = p.host /\ q.expects = p.expects /\ q.body.type = p.body.type  BY DEF SameHeader
  <2>2. p.body.type = "NotChunked" => q.body.size = p.body.size  BY DEF SameHeader
  <2>3. p.body.type \in {"NoBody", "NotChunked", "Chunked"}  BY DEF Parsers, Bodies
  <2> QED  BY <1>6, <1>7, <2>1, <2>2, <2>3 DEF FieldsHeeded
<1> QED  BY <1>1, <1>4, <1>8

LEMMA NoLineRead ==
    ASSUME NEW p \in Parsers, Len(p.block.lines) = 0
    PROVE  LinesRead(p, p.block.start)
<1>1. FieldStart(p, 0 + 1) = p.block.start  BY FieldStartIs
<1> QED  BY <1>1 DEF LinesRead

\* Before the first field line there is nothing to heed.
LEMMA NothingHeeded ==
    ASSUME NEW p \in Parsers, Len(p.block.lines) = 0, p.body.type = "NoBody", p.host = FALSE, p.expects = FALSE
    PROVE  LinesRead(p, p.block.start) /\ FieldsHeeded(p)
<1>1. DOMAIN p.block.lines = {}  BY BlockTypes
<1>2. \A x : Named(p, x) = {}  BY <1>1 DEF Named
<1>3. FieldsHeeded(p)  BY <1>2 DEF FieldsHeeded
<1> QED  BY <1>3, NoLineRead

\* The blank line behind the lines that were read ends them.
LEMMA BlockEnds ==
    ASSUME NEW p \in Parsers, NEW n, LinesRead(p, n), Slice(p, n, 2) = CRLF
    PROVE  BlockStands(p)
<1>1. DOMAIN p.block.lines = 1..Len(p.block.lines)  BY BlockTypes
<1> QED  BY <1>1 DEF LinesRead, BlockStands

LEMMA EmptyBlockStands ==
    ASSUME NEW p, p.block = Block(0)
    PROVE  BlockStands(p)
<1>1. p.block.lines = <<>>  BY DEF Block
<1>2. DOMAIN p.block.lines = {}  BY <1>1
<1> QED  BY <1>1, <1>2 DEF BlockStands

LEMMA VerdictIs == \A p, ok : Verdict(p, ok).parser = p /\ Verdict(p, ok).ok = ok
  BY DEF Verdict

LEMMA LengthHeeds ==
    ASSUME NEW p \in Parsers, NEW v, ContentLength(p, v).ok, NEW q, q = ContentLength(p, v).parser
    PROVE  /\ p.body.type # "Chunked" /\ (p.body.type = "NotChunked" => p.body.size = q.body.size)
           /\ q.body.type = "NotChunked" /\ v # <<>> /\ Range(v) \subseteq Digits /\ Number(v, 10) = q.body.size
           /\ q.host = p.host /\ q.expects = p.expects
<1> DEFINE n == Number(v, 10)
           b == BodyOf("NotChunked", n)
           c == [p EXCEPT !.body = b]
<1>1. ~(v = <<>> \/ Len(v) > 19 \/ ~(Range(v) \subseteq Digits))
  BY DEF ContentLength, Verdict
<1> HIDE DEF n
<1>2. b.type = "NotChunked" /\ b.size = n  BY DEF BodyOf
<1> HIDE DEF b
<1>3. p.body.type \in {"NotChunked", "Chunked", "NoBody"}  BY DEF Parsers, Bodies
<1>4. CASE p.body.type = "Chunked"
  <2>1. ContentLength(p, v) = Verdict(p, FALSE)  BY <1>1, <1>4 DEF ContentLength
  <2> QED  BY <2>1 DEF Verdict
<1>5. CASE p.body.type = "NotChunked"
  <2> DEFINE same == p.body.size = n
  <2>1. ContentLength(p, v) = Verdict(p, same)  BY <1>1, <1>5 DEF ContentLength, n
  <2> HIDE DEF same
  <2>2. q = p /\ same  BY <2>1, VerdictIs
  <2> QED  BY <1>1, <1>5, <2>2 DEF n, same
<1>6. CASE p.body.type = "NoBody"
  <2>1. ContentLength(p, v) = Verdict(c, TRUE)  BY <1>1, <1>6 DEF ContentLength, n, b
  <2>2. q = c  BY <2>1 DEF Verdict
  <2>3. c.body = b /\ c.host = p.host /\ c.expects = p.expects  BY DEF Parsers
  <2> QED  BY <1>1, <1>2, <1>6, <2>2, <2>3 DEF n
<1> QED  BY <1>3, <1>4, <1>5, <1>6

LEMMA CodingHeeds ==
    ASSUME NEW p \in Parsers, NEW v, TransferEncoding(p, v).ok, NEW q, q = TransferEncoding(p, v).parser
    PROVE  /\ p.body.type = "NoBody" /\ q.body.type = "Chunked" /\ v # <<>> /\ EndsChunked(v)
           /\ q.host = p.host /\ q.expects = p.expects
<1> DEFINE b == BodyOf("Chunked", 0)
           c == [p EXCEPT !.body = b]
<1>1. b.type = "Chunked"  BY DEF BodyOf
<1> HIDE DEF b
<1>2. v # <<>> /\ EndsChunked(v) /\ p.body.type = "NoBody"  BY DEF TransferEncoding, Verdict
<1>3. TransferEncoding(p, v) = Verdict(c, TRUE)  BY <1>2 DEF TransferEncoding, b
<1>4. q = c  BY <1>3 DEF Verdict
<1>5. c.body = b /\ c.host = p.host /\ c.expects = p.expects  BY DEF Parsers
<1> QED  BY <1>1, <1>2, <1>4, <1>5

\* A header line that is accepted is heeded.
LEMMA HeaderLineHeeds ==
    ASSUME NEW p \in Parsers, NEW f, ValidateHeaderLine(p, f).ok, NEW q, q = ValidateHeaderLine(p, f).parser
    PROVE  Heeds(p, NameOf(p, f), Trim(ValueOf(p, f)), q)
<1> DEFINE v == Trim(ValueOf(p, f))
           name == NameOf(p, f)
           r == ValidateHeaderLine(p, f)
<1>1. p.host \in BOOLEAN /\ p.expects \in BOOLEAN  BY DEF Parsers
<1>2. CASE name = <<"Host">>
  <2> DEFINE none == ~p.host
             c == [p EXCEPT !.host = ~@]
  <2>1. r = Verdict(c, none)  BY <1>2 DEF ValidateHeaderLine
  <2> HIDE DEF none, c
  <2>2. q = c /\ none  BY <2>1, VerdictIs
  <2> USE DEF none, c
  <2>3. q.host = ~p.host /\ q.expects = p.expects /\ q.body = p.body  BY <2>2 DEF Parsers
  <2>4. name # <<"Content-Length">> /\ name # <<"Transfer-Encoding">> /\ name # <<"Expect">>  BY <1>2, NamesDiffer
  <2> HIDE DEF name, v
  <2>5. Heeds(p, name, v, q)  BY <1>1, <1>2, <2>2, <2>3, <2>4 DEF Heeds
  <2> QED  BY <2>5 DEF name, v
<1>3. CASE name = <<"Content-Length">>
  <2>1. r = ContentLength(p, v)  BY <1>3 DEF ValidateHeaderLine
  <2> HIDE DEF v
  <2>2. /\ p.body.type # "Chunked" /\ (p.body.type = "NotChunked" => p.body.size = q.body.size)
        /\ q.body.type = "NotChunked" /\ v # <<>> /\ Range(v) \subseteq Digits /\ Number(v, 10) = q.body.size
        /\ q.host = p.host /\ q.expects = p.expects
    BY <2>1, LengthHeeds
  <2>3. name # <<"Host">> /\ name # <<"Transfer-Encoding">> /\ name # <<"Expect">>  BY <1>3, NamesDiffer
  <2> HIDE DEF name
  <2>4. Heeds(p, name, v, q)  BY <1>1, <1>3, <2>2, <2>3 DEF Heeds
  <2> QED  BY <2>4 DEF name, v
<1>4. CASE name = <<"Transfer-Encoding">>
  <2>1. r = TransferEncoding(p, v)  BY <1>4 DEF ValidateHeaderLine
  <2> HIDE DEF v
  <2>2. /\ p.body.type = "NoBody" /\ q.body.type = "Chunked" /\ v # <<>> /\ EndsChunked(v)
        /\ q.host = p.host /\ q.expects = p.expects
    BY <2>1, CodingHeeds
  <2>3. name # <<"Host">> /\ name # <<"Content-Length">> /\ name # <<"Expect">>  BY <1>4, NamesDiffer
  <2> HIDE DEF name
  <2>4. Heeds(p, name, v, q)  BY <1>1, <1>4, <2>2, <2>3 DEF Heeds
  <2> QED  BY <2>4 DEF name, v
<1>5. CASE name = <<"Expect">>
  <2> DEFINE e == p.expects \/ v = <<"100-continue">>
  <2>1. r = Verdict([p EXCEPT !.expects = e], TRUE)  BY <1>5 DEF ValidateHeaderLine
  <2>2. q = [p EXCEPT !.expects = e]  BY <2>1 DEF Verdict
  <2>3. e \in BOOLEAN  OBVIOUS
  <2> HIDE DEF e
  <2>4. q.expects = e /\ q.host = p.host /\ q.body = p.body  BY <2>2 DEF Parsers
  <2>5. name # <<"Host">> /\ name # <<"Content-Length">> /\ name # <<"Transfer-Encoding">>  BY <1>5, NamesDiffer
  <2> HIDE DEF name, v
  <2>6. Heeds(p, name, v, q)  BY <1>1, <1>5, <2>3, <2>4, <2>5 DEF Heeds, e
  <2> QED  BY <2>6 DEF name, v
<1>6. CASE name \notin {<<"Host">>, <<"Content-Length">>, <<"Transfer-Encoding">>, <<"Expect">>}
  <2>1. r = Verdict(p, TRUE)  BY <1>6 DEF ValidateHeaderLine
  <2>2. q = p  BY <2>1 DEF Verdict
  <2> HIDE DEF name, v
  <2>3. Heeds(p, name, v, q)  BY <1>1, <1>6, <2>2 DEF Heeds
  <2> QED  BY <2>3 DEF name, v
<1> QED  BY <1>2, <1>3, <1>4, <1>5, <1>6

\* A header line that is found where the others end, accepted and added leaves the header as it stands.
LEMMA HeaderGrows ==
    ASSUME NEW p \in Parsers, HeaderRead(p), NEW f, Found(p, f), f.name = p.requestSize,
           NEW s \in Parsers, SameHeader(p, s), ValidateHeaderLine(s, f).ok,
           NEW c \in Parsers, c = ValidateHeaderLine(s, f).parser, Beside(s, c),
           NEW q \in Parsers, q.skipped = c.skipped, q.line = c.line, q.host = c.host, q.expects = c.expects,
           q.body = c.body, HasNext(c, f, q)
    PROVE  /\ RequestLineStands(q) /\ LinesRead(q, f.end + 2) /\ FieldsHeeded(q)
           /\ Len(q.block.lines) # 0
<1>1. RequestLineStands(s) /\ LinesRead(s, f.name) /\ FieldsHeeded(s)  BY HeaderStays DEF HeaderRead
<1>2. s.skipped = p.skipped /\ c.skipped = s.skipped /\ c.line = s.line /\ c.block = s.block  BY DEF SameHeader, Beside
<1>3. Found(s, f)
  <2>1. /\ \A k : At(s, k) = At(p, k)
        /\ \A i, n : Slice(s, i, n) = Slice(p, i, n)
    BY <1>2, SamePlace
  <2> QED  BY <2>1 DEF Found
<1>4. HasNext(s, f, q)  BY <1>2 DEF HasNext
<1>5. /\ Extends(s, q) /\ Len(q.block.lines) = Len(s.block.lines) + 1
      /\ LinesRead(q, f.end + 2)
      /\ FieldName(q, Len(q.block.lines)) = NameOf(s, f)
      /\ FieldValue(q, Len(q.block.lines)) = Trim(ValueOf(s, f))
  BY <1>1, <1>2, <1>3, <1>4, LineRead
<1> DEFINE name == NameOf(s, f)
           v == Trim(ValueOf(s, f))
<1>6. Heeds(s, name, v, c)  BY HeaderLineHeeds
<1>7. name = FieldName(q, Len(q.block.lines)) /\ v = FieldValue(q, Len(q.block.lines))  BY <1>5
<1> HIDE DEF name, v
<1>8. Heeds(s, name, v, q)  BY <1>6 DEF Heeds
<1>9. FieldsHeeded(q)  BY <1>1, <1>5, <1>7, <1>8, LineHeeded
<1>10. RequestLineStands(q)
  <2>1. q.skipped = s.skipped /\ q.line = s.line /\ q.block.start = s.block.start  BY <1>2 DEF HasNext
  <2> QED  BY <1>1, <2>1, RequestLineStays
<1>11. Len(q.block.lines) # 0
  <2>1. Len(s.block.lines) \in Nat  BY BlockTypes
  <2> QED  BY <1>5, <2>1
<1> QED  BY <1>5, <1>9, <1>10, <1>11

-----------------------------------------------------------------------------
(* Where the parser stands between two calls. *)

InBody(p) == p.state \in {"Body", "ChunkMetadata", "ChunkData", "Trailers"}

Stands(p) ==
    /\ p \in Parsers
    /\ p.skipped + Reached(p) <= arrived
    /\ p.requestSize <= limits.maxRequestSize + 2
    /\ p.state = "RequestLine" => /\ p.body.type = "NotChunked" => p.body.pending = 0
                                  /\ p.body.type # "NoBody" => p.body.size <= limits.maxBodySize
    /\ p.state = "Headers" => /\ Unread(p.body) /\ p.requestSize <= limits.maxRequestSize
                              /\ Len(p.block.lines) <= Least(MaxFieldLines, limits.maxHeaderLineCount)
                              /\ HeaderRead(p)
    /\ InBody(p) => p.body.size <= limits.maxBodySize
    /\ p.state = "Body" => /\ p.body.type = "NotChunked" /\ p.body.pending > 0
                           /\ p.requestSize + p.body.pending <= limits.maxRequestSize
    /\ p.state \in {"ChunkMetadata", "ChunkData", "Trailers"} => p.body.type = "Chunked"
    /\ p.state = "ChunkData" => /\ p.body.pending > 0
                                /\ p.requestSize + p.body.pending + 2 <= limits.maxRequestSize
                                /\ p.body.size + p.body.pending <= limits.maxBodySize
    /\ p.state = "Trailers" => /\ p.body.index = 0 /\ p.body.part = 0
                               /\ p.trailersSize <= Available(p)
                               /\ Len(p.block.lines) <= Least(MaxFieldLines, limits.maxTrailerLineCount)
                               /\ LinesRead(p, p.trailersSize)

\* The parser q has begun a request, and handed over what has arrived of its body.
Opens(q) ==
    /\ Reached(q) = q.requestSize
    /\ q.body.type = "NoBody" => q.state = "RequestLine" /\ q.body.part = 0
    /\ q.body.type = "NotChunked" => /\ q.state \in {"RequestLine", "Body"}
                                     /\ q.body.part + q.body.pending = q.body.size
    /\ q.body.type = "Chunked" => q.state = "ChunkMetadata" /\ q.body.part = 0 /\ q.body.size = 0

\* The parser gets on from p to q in the stream by what it has counted on the way.
Moves(p, q) == q.skipped + Reached(q) + p.requestSize = p.skipped + Reached(p) + q.requestSize

\* The parser q goes on with the body of p.
Continues(p, q, s) ==
    /\ Moves(p, q)
    /\ q.body.type = p.body.type /\ q.body.index = 0
    /\ q.skipped >= p.skipped + PartEnd(p)
    /\ s = "NeedsMoreData" => Incomplete(q)
    /\ s = "ParsedRequest" => BlockStands(q)
    /\ p.body.type = "NotChunked" =>
          /\ q.skipped = p.skipped + PartEnd(p)
          /\ q.body.size = p.body.size /\ q.body.part + q.body.pending = p.body.pending
          /\ q.state = IF q.body.pending = 0 THEN "RequestLine" ELSE "Body"
          /\ s = IF q.body.part > 0 THEN "ParsedBody" ELSE "NeedsMoreData"
    /\ p.body.type = "Chunked" =>
          /\ q.body.size = p.body.size + q.body.part
          /\ \/ s = "ParsedRequest" /\ q.body.part = 0 /\ q.state = "RequestLine"
             \/ s = "ParsedBody" /\ q.body.part > 0 /\ q.state \in {"ChunkData", "ChunkMetadata"}
             \/ s = "NeedsMoreData" /\ q.body.part = 0 /\ q.state \in {"ChunkData", "ChunkMetadata", "Trailers"}

LEMMA LimitTypes ==
    ASSUME Sizes
    PROVE  /\ arrived \in Nat
           /\ limits.maxUrlSize \in Nat /\ limits.maxRequestSize \in Nat /\ limits.maxBodySize \in Nat
           /\ limits.maxHeaderNameSize \in Nat /\ limits.maxHeaderValueSize \in Nat
           /\ limits.maxTrailerNameSize \in Nat /\ limits.maxTrailerValueSize \in Nat
           /\ limits.maxHeaderLineCount \in Nat /\ limits.maxTrailerLineCount \in Nat
           /\ limits.maxChunkMetadataSize \in Nat
  BY DEF Sizes, Limits

LEMMA ParserTypes ==
    ASSUME NEW p \in Parsers
    PROVE  /\ p.state \in States /\ p.skipped \in Nat /\ p.requestSize \in Nat /\ p.trailersSize \in Nat
           /\ p.body \in Bodies /\ p.body.type \in {"NoBody", "NotChunked", "Chunked"}
           /\ p.body.size \in Nat /\ p.body.pending \in Nat /\ p.body.index \in Nat /\ p.body.part \in Nat
           /\ PartEnd(p) \in Nat
           /\ p.block \in Blocks /\ p.line \in RequestLines
           /\ Len(p.block.lines) \in Nat
<1>1. /\ p.state \in States /\ p.skipped \in Nat /\ p.requestSize \in Nat /\ p.trailersSize \in Nat
      /\ p.body \in Bodies /\ p.block \in Blocks /\ p.line \in RequestLines
  BY DEF Parsers
<1>2. /\ p.body.type \in {"NoBody", "NotChunked", "Chunked"}
      /\ p.body.size \in Nat /\ p.body.pending \in Nat /\ p.body.index \in Nat /\ p.body.part \in Nat
  BY <1>1 DEF Bodies
<1>3. p.block.lines \in Seq([nameSize : Nat, valueSize : Nat])  BY <1>1 DEF Blocks
<1>4. Len(p.block.lines) \in Nat  BY <1>3, LenProperties
<1> QED  BY <1>1, <1>2, <1>4, SMTT(30) DEF PartEnd

LEMMA ReachedType ==
    ASSUME NEW p \in Parsers
    PROVE  Reached(p) \in Nat
<1>1. /\ p.trailersSize \in Nat /\ p.requestSize \in Nat /\ PartEnd(p) \in Nat /\ PartEnd(p) + 2 \in Nat
      /\ p.state \in States /\ p.body.type \in {"NoBody", "NotChunked", "Chunked"}
  BY ParserTypes
<1>2. Leftover(p) \in Nat  BY <1>1 DEF Leftover
<1> QED  BY <1>1, <1>2 DEF Reached, States

LEMMA MovesOn ==
    ASSUME NEW p \in Parsers, NEW q \in Parsers, NEW r \in Parsers, Moves(p, q), Moves(q, r)
    PROVE  Moves(p, r)
<1>1. /\ Reached(p) \in Nat /\ Reached(q) \in Nat /\ Reached(r) \in Nat
      /\ p.skipped \in Nat /\ q.skipped \in Nat /\ r.skipped \in Nat
      /\ p.requestSize \in Nat /\ q.requestSize \in Nat /\ r.requestSize \in Nat
  BY ParserTypes, ReachedType
<1>2. /\ q.skipped + Reached(q) + p.requestSize = p.skipped + Reached(p) + q.requestSize
      /\ r.skipped + Reached(r) + q.requestSize = q.skipped + Reached(q) + r.requestSize
  BY DEF Moves
<1> DEFINE a == p.skipped + Reached(p)
           b == q.skipped + Reached(q)
           c == r.skipped + Reached(r)
<1>3. a \in Nat /\ b \in Nat /\ c \in Nat  BY <1>1
<1>4. b + p.requestSize = a + q.requestSize /\ c + q.requestSize = b + r.requestSize  BY <1>2
<1> HIDE DEF a, b, c
<1>5. c + p.requestSize = a + r.requestSize  BY <1>1, <1>3, <1>4
<1> QED  BY <1>5 DEF Moves, a, c

LEMMA HandingTypes ==
    ASSUME NEW b \in Bodies, NEW i \in Nat, NEW n \in Nat, n <= b.pending, NEW c, c = Handing(b, i, n)
    PROVE  /\ c \in Bodies
           /\ c.index = i /\ c.part = n /\ c.type = b.type /\ c.pending = b.pending - n
           /\ c.size = IF b.type = "Chunked" THEN b.size + n ELSE b.size
<1> DEFINE m == b.pending - n
           s == IF b.type = "Chunked" THEN b.size + n ELSE b.size
<1>1. m \in Nat /\ s \in Nat  BY DEF Bodies
<1>2. c = [b EXCEPT !.index = i, !.part = n, !.pending = m, !.size = s]  BY DEF Handing
<1> HIDE DEF m, s
<1>3. c \in Bodies  BY <1>1, <1>2 DEF Bodies
<1>4. c.index = i /\ c.part = n /\ c.type = b.type /\ c.pending = m /\ c.size = s
  BY <1>2 DEF Bodies
<1> QED  BY <1>3, <1>4 DEF m, s

LEMMA PartIsSet ==
    ASSUME NEW p \in Parsers, NEW i \in Nat, NEW n \in Nat, n <= p.body.pending, NEW q, q = SetCurrentBodyPart(p, i, n)
    PROVE  /\ q \in Parsers
           /\ q.state = p.state /\ q.skipped = p.skipped /\ q.requestSize = p.requestSize
           /\ q.trailersSize = p.trailersSize /\ q.block = p.block
           /\ q.line = p.line /\ q.host = p.host /\ q.expects = p.expects
           /\ q.body.index = i /\ q.body.part = n /\ q.body.type = p.body.type
           /\ q.body.pending = p.body.pending - n
           /\ q.body.size = IF p.body.type = "Chunked" THEN p.body.size + n ELSE p.body.size
<1> DEFINE b == Handing(p.body, i, n)
<1>1. p.body \in Bodies  BY DEF Parsers
<1>2. /\ b \in Bodies
      /\ b.index = i /\ b.part = n /\ b.type = p.body.type /\ b.pending = p.body.pending - n
      /\ b.size = IF p.body.type = "Chunked" THEN p.body.size + n ELSE p.body.size
  BY <1>1, HandingTypes
<1>3. q = [p EXCEPT !.body = b]  BY DEF SetCurrentBodyPart
<1> HIDE DEF b
<1>4. q \in Parsers  BY <1>2, <1>3 DEF Parsers
<1>5. /\ q.body = b /\ q.state = p.state /\ q.skipped = p.skipped /\ q.requestSize = p.requestSize
      /\ q.trailersSize = p.trailersSize /\ q.block = p.block
      /\ q.line = p.line /\ q.host = p.host /\ q.expects = p.expects
  BY <1>3 DEF Parsers
<1> QED  BY <1>2, <1>4, <1>5

LEMMA Skipped ==
    ASSUME NEW p \in Parsers, NEW n \in Nat, NEW q, q = Skip(p, n)
    PROVE  /\ q \in Parsers
           /\ q.skipped = p.skipped + n
           /\ q.state = p.state /\ q.requestSize = p.requestSize /\ q.trailersSize = p.trailersSize
           /\ q.body = p.body /\ q.block = p.block
<1> DEFINE s == p.skipped + n
<1>1. s \in Nat  BY DEF Parsers
<1>2. q = [p EXCEPT !.skipped = s]  BY DEF Skip
<1> HIDE DEF s
<1>3. q \in Parsers  BY <1>1, <1>2 DEF Parsers
<1>4. /\ q.skipped = s /\ q.state = p.state /\ q.requestSize = p.requestSize
      /\ q.trailersSize = p.trailersSize /\ q.body = p.body /\ q.block = p.block
  BY <1>2 DEF Parsers
<1> QED  BY <1>3, <1>4 DEF s

LEMMA SizeSet ==
    ASSUME NEW p \in Parsers, NEW n \in Nat, NEW q, q = [p EXCEPT !.requestSize = n]
    PROVE  /\ q \in Parsers
           /\ q.skipped = p.skipped /\ q.state = p.state /\ q.requestSize = n
           /\ q.trailersSize = p.trailersSize /\ q.body = p.body /\ q.block = p.block
           /\ q.line = p.line /\ q.host = p.host /\ q.expects = p.expects
<1>1. q \in Parsers  BY DEF Parsers
<1>2. /\ q.skipped = p.skipped /\ q.state = p.state /\ q.requestSize = n
      /\ q.trailersSize = p.trailersSize /\ q.body = p.body /\ q.block = p.block
      /\ q.line = p.line /\ q.host = p.host /\ q.expects = p.expects
  BY DEF Parsers
<1> QED  BY <1>1, <1>2

LEMMA StateSet ==
    ASSUME NEW p \in Parsers, NEW s \in States, NEW q, q = [p EXCEPT !.state = s]
    PROVE  /\ q \in Parsers
           /\ q.skipped = p.skipped /\ q.state = s /\ q.requestSize = p.requestSize
           /\ q.trailersSize = p.trailersSize /\ q.body = p.body /\ q.block = p.block
           /\ q.line = p.line /\ q.host = p.host /\ q.expects = p.expects
<1>1. q \in Parsers  BY DEF Parsers
<1>2. /\ q.skipped = p.skipped /\ q.state = s /\ q.requestSize = p.requestSize
      /\ q.trailersSize = p.trailersSize /\ q.body = p.body /\ q.block = p.block
      /\ q.line = p.line /\ q.host = p.host /\ q.expects = p.expects
  BY DEF Parsers
<1> QED  BY <1>1, <1>2

LEMMA FailedIs == \A p, e : Fail(p, e).status = "Failed"
  BY DEF Fail, Result

\* The header of a request with a body of a known size hands over the whole of it, or all that has arrived.
LEMMA BodyBegins ==
    ASSUME Sizes, NEW p \in Parsers, p.body.type = "NotChunked", p.body.pending = p.body.size,
           p.requestSize <= Available(p), NEW r, r = BeginBody(p), r.status # "Failed"
    PROVE  /\ r.status = "ParsedRequest" /\ SameHeader(p, r.parser)
           /\ Stands(r.parser) /\ Opens(r.parser)
<1> DEFINE total == p.requestSize + p.body.size
           avail == Available(p)
           whole == SetCurrentBodyPart(p, p.requestSize, p.body.size)
           done == [whole EXCEPT !.requestSize = total, !.state = "RequestLine"]
           some == SetCurrentBodyPart(p, p.requestSize, avail - p.requestSize)
           more == [some EXCEPT !.requestSize = avail, !.state = "Body"]
<1>1. /\ p.skipped \in Nat /\ p.requestSize \in Nat /\ p.body.size \in Nat
      /\ limits.maxRequestSize \in Nat /\ limits.maxBodySize \in Nat /\ arrived \in Nat
      /\ p.body.type \in {"NoBody", "NotChunked", "Chunked"}
  BY ParserTypes, LimitTypes
<1>2. avail = arrived - p.skipped /\ avail \in Nat /\ total \in Nat  BY <1>1 DEF Available
<1> HIDE DEF avail
<1>3. p.body.size <= limits.maxBodySize /\ total <= limits.maxRequestSize
  <2>1. ~(p.body.size > limits.maxBodySize \/ total > limits.maxRequestSize)
    BY FailedIs DEF BeginBody
  <2> QED  BY <1>1, <1>2, <2>1
<1>4. CASE total <= avail
  <2>1. r = Result(done, "ParsedRequest")
    <3>1. ~(p.body.size > limits.maxBodySize \/ total > limits.maxRequestSize)  BY <1>1, <1>2, <1>3
    <3> QED  BY <1>4, <3>1 DEF BeginBody, avail
  <2>2. r.parser = done /\ r.status = "ParsedRequest"  BY <2>1 DEF Result
  <2>3. /\ whole \in Parsers /\ whole.skipped = p.skipped
        /\ whole.line = p.line /\ whole.block = p.block /\ whole.host = p.host /\ whole.expects = p.expects
        /\ whole.body.index = p.requestSize /\ whole.body.part = p.body.size
        /\ whole.body.type = "NotChunked" /\ whole.body.pending = 0 /\ whole.body.size = p.body.size
    <3>1. p.body.size <= p.body.pending  BY <1>1
    <3>2. /\ whole \in Parsers /\ whole.skipped = p.skipped
          /\ whole.line = p.line /\ whole.block = p.block /\ whole.host = p.host /\ whole.expects = p.expects
          /\ whole.body.index = p.requestSize /\ whole.body.part = p.body.size
          /\ whole.body.type = p.body.type /\ whole.body.pending = p.body.pending - p.body.size
          /\ whole.body.size = IF p.body.type = "Chunked" THEN p.body.size + p.body.size ELSE p.body.size
      BY <1>1, <3>1, PartIsSet
    <3> HIDE DEF whole
    <3>3. whole.body.type = "NotChunked"  BY <3>2
    <3>4. whole.body.pending = 0  BY <1>1, <1>2, <3>2
    <3>5. whole.body.size = p.body.size  BY <3>2
    <3> QED  BY <3>2, <3>3, <3>4, <3>5
  <2> HIDE DEF whole
  <2>4. "RequestLine" \in States  BY DEF States
  <2>5. /\ done \in Parsers /\ done.skipped = p.skipped /\ done.state = "RequestLine"
        /\ done.requestSize = total /\ done.body = whole.body
        /\ done.line = p.line /\ done.block = p.block /\ done.host = p.host /\ done.expects = p.expects
    <3> HIDE DEF total
    <3> DEFINE sized == [whole EXCEPT !.requestSize = total]
    <3>1. done = [sized EXCEPT !.state = "RequestLine"]  OBVIOUS
    <3> HIDE DEF done
    <3>2. /\ sized \in Parsers /\ sized.skipped = whole.skipped /\ sized.requestSize = total /\ sized.body = whole.body
          /\ sized.line = p.line /\ sized.block = p.block /\ sized.host = p.host /\ sized.expects = p.expects
      BY <1>2, <2>3, SizeSet
    <3> HIDE DEF sized
    <3> QED  BY <2>3, <2>4, <3>1, <3>2, StateSet
  <2> HIDE DEF done
  <2>6. Reached(done) = total
    <3>1. Reached(done) = Leftover(done)  BY <2>5 DEF Reached
    <3>2. Leftover(done) = PartEnd(done)  BY <2>3, <2>5 DEF Leftover
    <3> QED  BY <2>3, <2>5, <3>1, <3>2 DEF PartEnd
  <2>7. Stands(done)
    BY <1>1, <1>2, <1>3, <1>4, <2>3, <2>5, <2>6 DEF Stands, InBody
  <2>8. Opens(done)  BY <1>1, <2>3, <2>5, <2>6 DEF Opens
  <2>9. SameHeader(p, done)  BY <2>3, <2>5 DEF SameHeader
  <2> QED  BY <2>2, <2>7, <2>8, <2>9
<1>5. CASE ~(total <= avail)
  <2>1. r = Result(more, "ParsedRequest")
    <3>1. ~(p.body.size > limits.maxBodySize \/ total > limits.maxRequestSize)  BY <1>1, <1>2, <1>3
    <3> QED  BY <1>5, <3>1 DEF BeginBody, avail
  <2>2. r.parser = more /\ r.status = "ParsedRequest"  BY <2>1 DEF Result
  <2>3. /\ some \in Parsers /\ some.skipped = p.skipped
        /\ some.line = p.line /\ some.block = p.block /\ some.host = p.host /\ some.expects = p.expects
        /\ some.body.index = p.requestSize /\ some.body.part = avail - p.requestSize
        /\ some.body.type = "NotChunked" /\ some.body.size = p.body.size
        /\ some.body.pending = p.body.size - (avail - p.requestSize)
    <3>1. avail - p.requestSize \in Nat /\ avail - p.requestSize <= p.body.pending
      BY <1>1, <1>2, <1>5 DEF avail
    <3>2. /\ some \in Parsers /\ some.skipped = p.skipped
          /\ some.line = p.line /\ some.block = p.block /\ some.host = p.host /\ some.expects = p.expects
          /\ some.body.index = p.requestSize /\ some.body.part = avail - p.requestSize
          /\ some.body.type = p.body.type /\ some.body.pending = p.body.pending - (avail - p.requestSize)
          /\ some.body.size = IF p.body.type = "Chunked" THEN p.body.size + (avail - p.requestSize) ELSE p.body.size
      BY <1>1, <3>1, PartIsSet, SMTT(30)
    <3> HIDE DEF some
    <3>3. some.body.type = "NotChunked"  BY <3>2
    <3>4. some.body.pending = p.body.size - (avail - p.requestSize)  BY <1>1, <1>2, <3>2
    <3>5. some.body.size = p.body.size  BY <3>2
    <3> QED  BY <3>2, <3>3, <3>4, <3>5
  <2> HIDE DEF some
  <2>4. "Body" \in States  BY DEF States
  <2>5. /\ more \in Parsers /\ more.skipped = p.skipped /\ more.state = "Body"
        /\ more.requestSize = avail /\ more.body = some.body
        /\ more.line = p.line /\ more.block = p.block /\ more.host = p.host /\ more.expects = p.expects
    <3> DEFINE sized == [some EXCEPT !.requestSize = avail]
    <3>1. more = [sized EXCEPT !.state = "Body"]  OBVIOUS
    <3> HIDE DEF more
    <3>2. /\ sized \in Parsers /\ sized.skipped = some.skipped /\ sized.requestSize = avail /\ sized.body = some.body
          /\ sized.line = p.line /\ sized.block = p.block /\ sized.host = p.host /\ sized.expects = p.expects
      BY <1>2, <2>3, SizeSet
    <3> HIDE DEF sized
    <3> QED  BY <2>3, <2>4, <3>1, <3>2, StateSet
  <2> HIDE DEF more
  <2>6. Reached(more) = avail
    <3>1. Reached(more) = PartEnd(more)  BY <2>5 DEF Reached
    <3> QED  BY <1>1, <1>2, <2>3, <2>5, <3>1 DEF PartEnd
  <2>7. Stands(more)
    <3>1. more.body.pending > 0  BY <1>1, <1>2, <1>5, <2>3, <2>5
    <3>2. more.requestSize + more.body.pending = total  BY <1>1, <1>2, <2>3, <2>5
    <3> QED  BY <1>1, <1>2, <1>3, <2>3, <2>5, <2>6, <3>1, <3>2 DEF Stands, InBody
  <2>8. Opens(more)  BY <1>1, <1>2, <2>3, <2>5, <2>6 DEF Opens
  <2>9. SameHeader(p, more)  BY <2>3, <2>5 DEF SameHeader
  <2> QED  BY <2>2, <2>7, <2>8, <2>9
<1> QED  BY <1>4, <1>5

\* The blank line behind the header begins the request, whatever its body.
LEMMA HeadersEnd ==
    ASSUME Sizes, NEW p \in Parsers, Unread(p.body), p.requestSize + 2 <= Available(p),
           p.requestSize <= limits.maxRequestSize,
           NEW r, r = EndHeaders(p), r.status # "Failed"
    PROVE  /\ r.status = "ParsedRequest" /\ SameHeader(p, r.parser) /\ p.host
           /\ Stands(r.parser) /\ Opens(r.parser)
<1> DEFINE n == p.requestSize + 2
           m == IF p.expects THEN p.interim + 1 ELSE p.interim
           q == [p EXCEPT !.requestSize = n, !.interim = m]
<1>1. /\ p.skipped \in Nat /\ p.requestSize \in Nat /\ p.body.size \in Nat
      /\ limits.maxRequestSize \in Nat /\ limits.maxBodySize \in Nat /\ arrived \in Nat
      /\ p.body.type \in {"NoBody", "NotChunked", "Chunked"} /\ p.interim \in Nat
  <2>1. p.interim \in Nat  BY DEF Parsers
  <2> QED  BY <2>1, ParserTypes, LimitTypes
<1>2. n \in Nat /\ m \in Nat /\ p.skipped + n <= arrived  BY <1>1 DEF Available
<1>3. /\ q \in Parsers /\ q.skipped = p.skipped /\ q.requestSize = n /\ q.body = p.body
      /\ q.line = p.line /\ q.block = p.block /\ q.host = p.host /\ q.expects = p.expects
  <2> HIDE DEF n, m
  <2>1. q \in Parsers  BY <1>2 DEF Parsers
  <2>2. /\ q.skipped = p.skipped /\ q.requestSize = n /\ q.body = p.body
        /\ q.line = p.line /\ q.block = p.block /\ q.host = p.host /\ q.expects = p.expects
    BY DEF Parsers
  <2> QED  BY <2>1, <2>2
<1>4. p.host  BY FailedIs DEF EndHeaders
<1>5. q = [p EXCEPT !.requestSize = @ + 2, !.interim = IF p.expects THEN @ + 1 ELSE @]  OBVIOUS
<1> HIDE DEF q
<1>6. CASE p.body.type = "NotChunked"
  <2>1. r = BeginBody(q)  BY <1>3, <1>4, <1>5, <1>6 DEF EndHeaders
  <2>2. q.body.type = "NotChunked" /\ q.body.pending = q.body.size  BY <1>3, <1>6 DEF Unread
  <2>3. q.requestSize <= Available(q)  BY <1>1, <1>2, <1>3 DEF Available
  <2>4. /\ r.status = "ParsedRequest" /\ SameHeader(q, r.parser)
        /\ Stands(r.parser) /\ Opens(r.parser)
    BY <1>3, <2>1, <2>2, <2>3, BodyBegins
  <2>5. SameHeader(p, r.parser)  BY <1>3, <2>4 DEF SameHeader
  <2> QED  BY <1>4, <2>4, <2>5
<1>7. CASE p.body.type = "NoBody"
  <2> DEFINE t == [q EXCEPT !.state = "RequestLine"]
  <2>1. r = Result(t, "ParsedRequest")  BY <1>3, <1>4, <1>5, <1>7 DEF EndHeaders
  <2>2. r.parser = t /\ r.status = "ParsedRequest"  BY <2>1 DEF Result
  <2>3. "RequestLine" \in States  BY DEF States
  <2>4. /\ t \in Parsers /\ t.skipped = p.skipped /\ t.state = "RequestLine"
        /\ t.requestSize = n /\ t.body = p.body
        /\ t.line = p.line /\ t.block = p.block /\ t.host = p.host /\ t.expects = p.expects
    BY <1>3, <2>3, StateSet
  <2> HIDE DEF t
  <2>5. Reached(t) = n
    <3>1. Reached(t) = Leftover(t)  BY <2>4 DEF Reached
    <3> QED  BY <1>7, <2>4, <3>1 DEF Leftover
  <2>6. Stands(t)
    BY <1>1, <1>2, <1>7, <2>4, <2>5 DEF Stands, InBody
  <2>7. Opens(t)  BY <1>7, <2>4, <2>5 DEF Opens, Unread
  <2>8. SameHeader(p, t)  BY <2>4 DEF SameHeader
  <2> QED  BY <1>4, <2>2, <2>6, <2>7, <2>8
<1>8. CASE p.body.type = "Chunked"
  <2> DEFINE u == SetCurrentBodyPart(q, q.requestSize, 0)
             t == [u EXCEPT !.state = "ChunkMetadata"]
  <2>1. r = Result(t, "ParsedRequest")  BY <1>3, <1>4, <1>5, <1>8 DEF EndHeaders
  <2>2. r.parser = t /\ r.status = "ParsedRequest"  BY <2>1 DEF Result
  <2>3. "ChunkMetadata" \in States  BY DEF States
  <2>4. p.body.size = 0 /\ p.body.pending = 0  BY <1>8 DEF Unread
  <2>5. /\ u \in Parsers /\ u.skipped = p.skipped /\ u.requestSize = n
        /\ u.line = p.line /\ u.block = p.block /\ u.host = p.host /\ u.expects = p.expects
        /\ u.body.index = n /\ u.body.part = 0 /\ u.body.type = "Chunked" /\ u.body.size = 0
    <3>1. n \in Nat /\ 0 \in Nat /\ 0 <= q.body.pending  BY <1>2, <1>3, <2>4
    <3>2. /\ u \in Parsers /\ u.skipped = q.skipped /\ u.requestSize = q.requestSize
          /\ u.line = q.line /\ u.block = q.block /\ u.host = q.host /\ u.expects = q.expects
          /\ u.body.index = q.requestSize /\ u.body.part = 0 /\ u.body.type = q.body.type
          /\ u.body.size = IF q.body.type = "Chunked" THEN q.body.size + 0 ELSE q.body.size
      BY <1>3, <3>1, PartIsSet
    <3> HIDE DEF u
    <3> QED  BY <1>3, <1>8, <2>4, <3>2
  <2> HIDE DEF u
  <2>6. /\ t \in Parsers /\ t.skipped = p.skipped /\ t.state = "ChunkMetadata"
        /\ t.requestSize = n /\ t.body = u.body
        /\ t.line = p.line /\ t.block = p.block /\ t.host = p.host /\ t.expects = p.expects
    BY <2>3, <2>5, StateSet
  <2> HIDE DEF t
  <2>7. Reached(t) = n
    <3>1. PartEnd(t) = n /\ ~(t.body.part > 0)  BY <1>2, <2>5, <2>6 DEF PartEnd
    <3>2. Reached(t) = PartEnd(t) + 0  BY <2>6, <3>1 DEF Reached
    <3> QED  BY <1>2, <3>1, <3>2
  <2>8. Stands(t)
    BY <1>1, <1>2, <2>5, <2>6, <2>7 DEF Stands, InBody
  <2>9. Opens(t)  BY <2>5, <2>6, <2>7 DEF Opens
  <2>10. SameHeader(p, t)  BY <1>8, <2>5, <2>6 DEF SameHeader
  <2> QED  BY <1>4, <2>2, <2>8, <2>9, <2>10
<1> QED  BY <1>1, <1>6, <1>7, <1>8

-----------------------------------------------------------------------------
(* The loop over the field lines. *)

\* The parser is before the field line of a header that is read next.
AtHeader(p) ==
    /\ p \in Parsers /\ p.state = "Headers" /\ Unread(p.body)
    /\ p.requestSize < Available(p) /\ p.requestSize <= limits.maxRequestSize
    /\ HeaderRead(p)

AtTrailer(p) ==
    /\ p \in Parsers /\ p.state = "Trailers"
    /\ p.body.type = "Chunked" /\ p.body.index = 0 /\ p.body.part = 0 /\ p.body.size <= limits.maxBodySize
    /\ p.trailersSize < Available(p) /\ p.requestSize <= limits.maxRequestSize + 2
    /\ LinesRead(p, p.trailersSize)

LEMMA ResultIs == \A p, s : Result(p, s).parser = p /\ Result(p, s).status = s
  BY DEF Result

\* A header line that has arrived is read; the one before the blank line begins the request.
LEMMA HeaderLineSteps ==
    ASSUME Sizes, NEW p, AtHeader(p), NEW r, r = HeaderLine(p), r.status # "Failed"
    PROVE  \/ /\ r.status = "Another" /\ AtHeader(r.parser) /\ r.parser.skipped = p.skipped
              /\ Len(r.parser.block.lines) = Len(p.block.lines) + 1
           \/ r.status = "NeedsMoreData" /\ r.parser = p /\ Incomplete(p)
           \/ /\ r.status = "ParsedRequest" /\ r.parser.skipped = p.skipped /\ Stands(r.parser) /\ Opens(r.parser)
              /\ Delimited(r.parser)
<1> DEFINE f == FieldLine(p, p.requestSize, 0, 0, limits.maxHeaderNameSize, limits.maxHeaderValueSize)
           next == f.end + 2
           sized == [p EXCEPT !.requestSize = next]
           checked == ValidateHeaderLine(sized, f)
           added == AddFieldLine(checked.parser, f)
<1>1. /\ p \in Parsers /\ p.skipped \in Nat /\ p.requestSize \in Nat /\ p.requestSize < Available(p)
      /\ limits.maxHeaderNameSize \in Nat /\ limits.maxHeaderValueSize \in Nat
      /\ limits.maxRequestSize \in Nat /\ arrived \in Nat
  BY ParserTypes, LimitTypes DEF AtHeader
<1>2. /\ f.outcome \in {"MalformedRequest", "TooBigRequest", "more", "line"}
      /\ f.outcome = "line" =>
           /\ Found(p, f) /\ f.name = p.requestSize
           /\ f.colon \in Nat /\ p.requestSize < f.colon
           /\ f.end \in Nat /\ f.colon < f.end /\ f.end + 4 <= Available(p)
           /\ 0 + f.end + 2 <= limits.maxRequestSize
      /\ f.outcome = "more" => NoBlankLine(p, p.requestSize)
  <2>1. 0 \in Nat  OBVIOUS
  <2>2. f = FieldLine(p, p.requestSize, 0, 0, limits.maxHeaderNameSize, limits.maxHeaderValueSize)  OBVIOUS
  <2> HIDE DEF f
  <2>3. Looked(p, p.requestSize, 0, f)  BY <1>1, <2>1, <2>2, FieldLineReads
  <2> QED  BY <2>3 DEF Looked
<1>3. r = IF f.outcome = "more" THEN NeedsMoreData(p)
          ELSE IF f.outcome # "line" THEN Fail(p, f.outcome)
          ELSE IF ~checked.ok THEN Fail(checked.parser, "MalformedRequest")
          ELSE IF Slice(p, next, 2) = CRLF THEN EndHeaders(added)
          ELSE Another(added)
  BY DEF HeaderLine, TakeHeaderLine
<1> HIDE DEF f
<1>4. CASE f.outcome = "more"
  <2>1. r = NeedsMoreData(p)  BY <1>3, <1>4
  <2>2. Incomplete(p)  BY <1>2, <1>4 DEF Incomplete, AtHeader
  <2> QED  BY <2>1, <2>2, ResultIs DEF NeedsMoreData
<1>5. CASE f.outcome = "line"
  <2>1. /\ f.name \in Nat /\ f.colon \in Nat /\ f.end \in Nat /\ f.name < f.colon /\ f.colon < f.end
        /\ next \in Nat /\ next + 2 <= Available(p) /\ next <= limits.maxRequestSize
    BY <1>1, <1>2, <1>5
  <2>2. /\ sized \in Parsers /\ sized.skipped = p.skipped /\ sized.state = "Headers"
        /\ sized.requestSize = next /\ sized.body = p.body /\ sized.block = p.block
        /\ SameHeader(p, sized)
    <3> HIDE DEF next
    <3>1. sized = [p EXCEPT !.requestSize = next]  OBVIOUS
    <3> HIDE DEF sized
    <3>2. p.state = "Headers"  BY DEF AtHeader
    <3> QED  BY <1>1, <2>1, <3>1, <3>2, SizeSet DEF SameHeader
  <2>3. checked.ok  BY <1>3, <1>5, FailedIs
  <2>4. Unread(sized.body)  BY <2>2 DEF AtHeader
  <2> HIDE DEF sized
  <2>5. /\ Beside(sized, checked.parser) /\ Unread(checked.parser.body)
        /\ ValidateHeaderLine(sized, f).ok /\ checked.parser = ValidateHeaderLine(sized, f).parser
    BY <2>1, <2>2, <2>3, <2>4, HeaderLineIsValid
  <2> HIDE DEF checked
  <2>6. /\ added \in Parsers
        /\ added.state = "Headers" /\ added.skipped = p.skipped /\ added.requestSize = next
        /\ Unread(added.body)
        /\ Len(added.block.lines) = Len(p.block.lines) + 1
        /\ RequestLineStands(added) /\ LinesRead(added, next) /\ FieldsHeeded(added) /\ added.block.lines # <<>>
    <3>1. checked.parser \in Parsers  BY <2>5 DEF Beside
    <3> DEFINE c == checked.parser
    <3>2. added = AddFieldLine(c, f)  OBVIOUS
    <3>3. c \in Parsers  BY <3>1
    <3> HIDE DEF added, c
    <3>4. /\ added \in Parsers
          /\ added.state = c.state /\ added.skipped = c.skipped
          /\ added.requestSize = c.requestSize
          /\ added.body = c.body /\ added.line = c.line /\ added.host = c.host /\ added.expects = c.expects
          /\ Len(added.block.lines) = Len(c.block.lines) + 1 /\ HasNext(c, f, added)
      BY <2>1, <3>2, <3>3, LineIsAdded
    <3>5. /\ RequestLineStands(added) /\ LinesRead(added, f.end + 2) /\ FieldsHeeded(added)
          /\ Len(added.block.lines) # 0
      <4>1. HeaderRead(p) /\ Found(p, f) /\ f.name = p.requestSize  BY <1>2, <1>5 DEF AtHeader
      <4>2. Beside(sized, c) /\ ValidateHeaderLine(sized, f).ok /\ c = ValidateHeaderLine(sized, f).parser
        BY <2>5 DEF c
      <4> QED  BY <1>1, <2>2, <3>3, <3>4, <4>1, <4>2, HeaderGrows
    <3>6. added.block.lines # <<>>  BY <3>5, EmptySeq
    <3> QED  BY <2>2, <2>5, <3>4, <3>5, <3>6 DEF Beside, c
  <2> HIDE DEF added
  <2>7. Available(added) = Available(p)  BY <2>6 DEF Available
  <2>8. CASE Slice(p, next, 2) = CRLF
    <3>1. r = EndHeaders(added)  BY <1>3, <1>5, <2>3, <2>8
    <3>2. added.requestSize + 2 <= Available(added) /\ added.requestSize <= limits.maxRequestSize
      BY <2>1, <2>6, <2>7
    <3>3. /\ r.status = "ParsedRequest" /\ SameHeader(added, r.parser) /\ added.host
          /\ Stands(r.parser) /\ Opens(r.parser)
      BY <2>6, <3>1, <3>2, HeadersEnd
    <3>4. BlockStands(added)
      <4>1. Slice(added, next, 2) = CRLF  BY <2>6, <2>8, SamePlace
      <4> HIDE DEF next
      <4> QED  BY <2>6, <4>1, BlockEnds
    <3>5. BlockStands(r.parser) /\ RequestLineStands(r.parser) /\ FieldsHeeded(r.parser)
      <4>1. r.parser \in Parsers  BY <3>3 DEF Stands
      <4> QED  BY <2>6, <3>3, <3>4, <4>1, HeaderStays
    <3>6. r.parser.skipped = p.skipped /\ r.parser.host /\ r.parser.block.lines # <<>>  BY <2>6, <3>3 DEF SameHeader
    <3> QED  BY <3>3, <3>5, <3>6 DEF Delimited
  <2>9. CASE Slice(p, next, 2) # CRLF
    <3>1. r = Another(added)  BY <1>3, <1>5, <2>3, <2>9
    <3>2. r.parser = added /\ r.status = "Another"  BY <3>1, ResultIs DEF Another
    <3>3. added.requestSize < Available(added)  BY <1>1, <2>1, <2>6, <2>7 DEF Available
    <3>4. AtHeader(added)  BY <2>1, <2>6, <3>3 DEF AtHeader, HeaderRead
    <3> QED  BY <2>6, <3>2, <3>4
  <2> QED  BY <2>8, <2>9
<1>6. CASE f.outcome \notin {"more", "line"}
  <2>1. r = Fail(p, f.outcome)  BY <1>3, <1>6
  <2> QED  BY <2>1, FailedIs
<1> QED  BY <1>4, <1>5, <1>6

\* A trailer line that has arrived is read; the one before the blank line ends the request.
LEMMA TrailerLineSteps ==
    ASSUME Sizes, NEW p, AtTrailer(p), NEW r, r = TrailerLine(p), r.status # "Failed"
    PROVE  \/ /\ r.status = "Another" /\ AtTrailer(r.parser)
              /\ r.parser.skipped = p.skipped /\ r.parser.body = p.body /\ r.parser.requestSize = p.requestSize
              /\ Len(r.parser.block.lines) = Len(p.block.lines) + 1
           \/ r.status = "NeedsMoreData" /\ r.parser = p /\ Incomplete(p)
           \/ /\ r.status = "ParsedRequest" /\ r.parser.skipped = p.skipped /\ r.parser.body = p.body
              /\ r.parser.state = "RequestLine" /\ Stands(r.parser) /\ Moves(p, r.parser) /\ BlockStands(r.parser)
<1> DEFINE f == FieldLine(p, p.trailersSize, p.requestSize, 1, limits.maxTrailerNameSize, limits.maxTrailerValueSize)
           next == f.end + 2
           line == AddFieldLine(p, f)
           added == [line EXCEPT !.trailersSize = next]
           last == [added EXCEPT !.trailersSize = @ + 2, !.requestSize = @ + next + 2]
           done == [last EXCEPT !.state = "RequestLine"]
<1>1. /\ p \in Parsers /\ p.skipped \in Nat /\ p.requestSize \in Nat /\ p.trailersSize \in Nat
      /\ p.trailersSize < Available(p) /\ p.state = "Trailers"
      /\ limits.maxTrailerNameSize \in Nat /\ limits.maxTrailerValueSize \in Nat
      /\ limits.maxRequestSize \in Nat /\ limits.maxBodySize \in Nat /\ arrived \in Nat
  BY ParserTypes, LimitTypes DEF AtTrailer
<1>2. /\ f.outcome \in {"MalformedRequest", "TooBigRequest", "more", "line"}
      /\ f.outcome = "line" =>
           /\ Found(p, f) /\ f.name = p.trailersSize
           /\ f.colon \in Nat /\ p.trailersSize < f.colon
           /\ f.end \in Nat /\ f.colon < f.end /\ f.end + 4 <= Available(p)
           /\ p.requestSize + f.end + 2 <= limits.maxRequestSize
      /\ f.outcome = "more" => NoBlankLine(p, p.trailersSize)
  <2>1. 1 \in Nat  OBVIOUS
  <2>2. f = FieldLine(p, p.trailersSize, p.requestSize, 1, limits.maxTrailerNameSize, limits.maxTrailerValueSize)  OBVIOUS
  <2> HIDE DEF f
  <2>3. Looked(p, p.trailersSize, p.requestSize, f)  BY <1>1, <2>1, <2>2, FieldLineReads
  <2> QED  BY <2>3 DEF Looked
<1>3. r = IF f.outcome = "more" THEN NeedsMoreData(p)
          ELSE IF f.outcome # "line" THEN Fail(p, f.outcome)
          ELSE IF Slice(p, next, 2) # CRLF THEN Another(added)
          ELSE IF last.requestSize > limits.maxRequestSize THEN Fail(last, "TooBigRequest")
          ELSE Result(done, "ParsedRequest")
  BY DEF TrailerLine, TakeTrailerLine
<1> HIDE DEF f
<1>4. CASE f.outcome = "more"
  <2>1. r = NeedsMoreData(p)  BY <1>3, <1>4
  <2>2. Incomplete(p)  BY <1>2, <1>4 DEF Incomplete, AtTrailer
  <2> QED  BY <2>1, <2>2, ResultIs DEF NeedsMoreData
<1>5. CASE f.outcome = "line"
  <2>1. /\ f.name \in Nat /\ f.colon \in Nat /\ f.end \in Nat /\ f.name < f.colon /\ f.colon < f.end
        /\ next \in Nat /\ next + 2 <= Available(p) /\ p.requestSize + next <= limits.maxRequestSize
    BY <1>1, <1>2, <1>5
  <2>2. /\ line \in Parsers /\ line.state = "Trailers" /\ line.skipped = p.skipped
        /\ line.requestSize = p.requestSize /\ line.body = p.body
        /\ Len(line.block.lines) = Len(p.block.lines) + 1
        /\ HasNext(p, f, line)
    BY <1>1, <2>1, LineIsAdded, SMTT(30)
  <2> HIDE DEF line
  <2>3. LinesRead(line, next)
    <3>1. Found(p, f) /\ LinesRead(p, f.name)  BY <1>2, <1>5 DEF AtTrailer
    <3> QED  BY <1>1, <2>2, <3>1, LineRead
  <2>4. /\ added \in Parsers /\ added.state = "Trailers" /\ added.skipped = p.skipped
        /\ added.requestSize = p.requestSize /\ added.body = p.body /\ added.trailersSize = next
        /\ added.block = line.block
    <3> HIDE DEF next
    <3>1. added \in Parsers  BY <2>1, <2>2 DEF Parsers
    <3>2. /\ added.state = line.state /\ added.skipped = line.skipped
          /\ added.requestSize = line.requestSize /\ added.body = line.body /\ added.trailersSize = next
          /\ added.block = line.block
      BY <2>2 DEF Parsers
    <3> QED  BY <2>2, <3>1, <3>2
  <2>5. LinesRead(added, next)
    <3> HIDE DEF added, next
    <3> QED  BY <2>2, <2>4, <2>3, BlockStays
  <2>6. Available(added) = Available(p)  BY <2>4 DEF Available
  <2>7. CASE Slice(p, next, 2) # CRLF
    <3>1. r = Another(added)  BY <1>3, <1>5, <2>7
    <3> HIDE DEF added
    <3>2. r.parser = added /\ r.status = "Another"  BY <3>1, ResultIs DEF Another
    <3>3. added.trailersSize < Available(added)  BY <1>1, <2>1, <2>4, <2>6 DEF Available
    <3>4. AtTrailer(added)  BY <2>4, <2>5, <3>3 DEF AtTrailer
    <3> QED  BY <2>2, <2>4, <3>2, <3>4
  <2>8. CASE Slice(p, next, 2) = CRLF
    <3> DEFINE t == next + 2
               n == p.requestSize + next + 2
    <3>1. last = [added EXCEPT !.trailersSize = t, !.requestSize = n]  BY <2>4
    <3>2. t \in Nat /\ n \in Nat /\ t <= Available(p)  BY <1>1, <2>1
    <3> HIDE DEF t, n, added
    <3>3. /\ last \in Parsers /\ last.skipped = p.skipped /\ last.body = p.body
          /\ last.trailersSize = t /\ last.requestSize = n /\ last.block = added.block
      <4>1. last \in Parsers  BY <2>4, <3>1, <3>2 DEF Parsers
      <4>2. /\ last.skipped = added.skipped /\ last.body = added.body
            /\ last.trailersSize = t /\ last.requestSize = n /\ last.block = added.block
        BY <2>4, <3>1 DEF Parsers
      <4> QED  BY <2>4, <4>1, <4>2
    <3>4. ~(last.requestSize > limits.maxRequestSize)  BY <1>3, <1>5, <2>8, FailedIs DEF added
    <3>5. r = Result(done, "ParsedRequest")  BY <1>3, <1>5, <2>8, <3>4 DEF added
    <3>6. "RequestLine" \in States  BY DEF States
    <3> HIDE DEF last
    <3>7. /\ done \in Parsers /\ done.skipped = p.skipped /\ done.state = "RequestLine"
          /\ done.trailersSize = t /\ done.requestSize = n /\ done.body = p.body /\ done.block = added.block
      BY <3>3, <3>6, StateSet
    <3> HIDE DEF done
    <3>8. r.parser = done /\ r.status = "ParsedRequest"  BY <3>5, ResultIs
    <3>9. p.body.type = "Chunked" /\ p.body.size <= limits.maxBodySize  BY DEF AtTrailer
    <3>10. Reached(done) = t
      <4>1. Reached(done) = Leftover(done)  BY <3>7 DEF Reached
      <4> QED  BY <3>7, <3>9, <4>1 DEF Leftover
    <3>11. p.skipped + t <= arrived  BY <1>1, <3>2 DEF Available
    <3>12. Stands(done)
      BY <1>1, <3>2, <3>3, <3>4, <3>7, <3>9, <3>10, <3>11 DEF Stands, InBody
    <3>13. Moves(p, done)
      <4>1. Reached(p) = 0  BY <1>1 DEF Reached
      <4> QED  BY <1>1, <2>1, <3>2, <3>7, <3>10, <4>1 DEF Moves, t, n
    <3>14. BlockStands(done)
      <4>1. Slice(added, next, 2) = CRLF  BY <2>4, <2>8, SamePlace
      <4> HIDE DEF next
      <4>2. BlockStands(added)  BY <2>4, <2>5, <4>1, BlockEnds
      <4> QED  BY <2>4, <3>7, <4>2, BlockStays
    <3> QED  BY <3>7, <3>8, <3>12, <3>13, <3>14
  <2> QED  BY <2>7, <2>8
<1>6. CASE f.outcome \notin {"more", "line"}
  <2>1. r = Fail(p, f.outcome)  BY <1>3, <1>6
  <2> QED  BY <2>1, FailedIs
<1> QED  BY <1>4, <1>5, <1>6

\* A pass through the loop that p entered, when the passes so far have led to before.
PassFrom(p, before) ==
    IF before.status # "Another" THEN before
    ELSE IF p.state = "Headers" THEN HeaderLine(before.parser) ELSE TrailerLine(before.parser)

LEMMA PassesRun ==
    ASSUME NEW p, NEW count \in Nat
    PROVE  \E f : /\ Passes(p, count) = f[count] /\ f[0] = Another(p)
                  /\ \A n \in 1..count : f[n] = PassFrom(p, f[n - 1])
<1> DEFINE Runs(f, n) == f = [i \in 0..n |-> IF i = 0 THEN Another(p) ELSE PassFrom(p, f[i - 1])]
           Good(n) == \E f : Runs(f, n)
           Bad == {n \in 0..count : ~Good(n)}
<1>1. Bad = {}
  <2> SUFFICES ASSUME Bad # {} PROVE FALSE  OBVIOUS
  <2>1. Bad \subseteq Nat  OBVIOUS
  <2>2. PICK n \in Bad : \A m \in Bad : n <= m
    <3> HIDE DEF Bad
    <3> QED  BY <2>1, LeastOf
  <2>3. n \in 0..count /\ ~Good(n)  OBVIOUS
  <2>4. CASE n = 0
    <3> DEFINE g == [i \in 0..0 |-> Another(p)]
    <3>1. Runs(g, 0)  OBVIOUS
    <3> QED  BY <2>3, <2>4, <3>1
  <2>5. CASE n # 0
    <3>1. n - 1 \in 0..count /\ n - 1 \notin Bad /\ n - 1 \in Nat
      <4>1. n - 1 \in 0..count /\ ~(n <= n - 1)  BY <2>3, <2>5
      <4> HIDE DEF Bad
      <4> QED  BY <2>2, <4>1
    <3>2. PICK f : Runs(f, n - 1)  BY <3>1
    <3>3. f = [i \in 0..(n - 1) |-> IF i = 0 THEN Another(p) ELSE PassFrom(p, f[i - 1])]  BY <3>2
    <3> DEFINE top == PassFrom(p, f[n - 1])
               g == [i \in 0..n |-> IF i = n THEN top ELSE f[i]]
    <3>4. \A i \in 0..n : g[i] = IF i = 0 THEN Another(p) ELSE PassFrom(p, g[i - 1])
      <4> SUFFICES ASSUME NEW i \in 0..n
                   PROVE  g[i] = IF i = 0 THEN Another(p) ELSE PassFrom(p, g[i - 1])
        OBVIOUS
      <4>1. CASE i = n
        <5>1. n - 1 \in 0..n /\ n - 1 # n /\ n \in 0..n  BY <2>3, <3>1
        <5>2. g[n - 1] = f[n - 1] /\ g[n] = top
          <6> HIDE DEF top
          <6> QED  BY <5>1
        <5> QED  BY <2>5, <4>1, <5>2
      <4>2. CASE i # n
        <5>1. i \in 0..(n - 1) /\ (i # 0 => i - 1 \in 0..n /\ i - 1 # n)
          BY <2>3, <4>2
        <5>2. g[i] = f[i] /\ (i # 0 => g[i - 1] = f[i - 1])
          <6> HIDE DEF top
          <6> QED  BY <4>2, <5>1
        <5>3. f[i] = IF i = 0 THEN Another(p) ELSE PassFrom(p, f[i - 1])  BY <3>3, <5>1
        <5> HIDE DEF g
        <5> QED  BY <5>2, <5>3
      <4> QED  BY <4>1, <4>2
    <3>5. g = [i \in 0..n |-> g[i]]  OBVIOUS
    <3> HIDE DEF g
    <3>6. Runs(g, n)  BY <3>4, <3>5
    <3> QED  BY <2>3, <3>6
  <2> QED  BY <2>4, <2>5
<1>2. Good(count)
  <2>1. count \in 0..count  OBVIOUS
  <2> HIDE DEF Good
  <2> QED  BY <1>1, <2>1
<1> DEFINE g == CHOOSE f : Runs(f, count)
<1>3. Runs(g, count)  BY <1>2
<1>4. Passes(p, count) = g[count]  BY DEF Passes, PassFrom
<1> HIDE DEF g
<1>5. g[0] = Another(p)  BY <1>3
<1>6. \A n \in 1..count : g[n] = PassFrom(p, g[n - 1])
  <2> SUFFICES ASSUME NEW n \in 1..count PROVE g[n] = PassFrom(p, g[n - 1])  OBVIOUS
  <2>1. n \in 0..count /\ n # 0  OBVIOUS
  <2> QED  BY <1>3, <2>1
<1> QED  BY <1>4, <1>5, <1>6

\* What a call that works on a request line or a header leaves, where the request it may begin is skipped up to n.
Proceeds(n, r) ==
    /\ r.parser.skipped = n /\ Stands(r.parser) /\ Reached(r.parser) = r.parser.requestSize
    /\ \/ r.status = "NeedsMoreData" /\ r.parser.state \in {"RequestLine", "Headers"} /\ Incomplete(r.parser)
       \/ r.status = "ParsedRequest" /\ Opens(r.parser) /\ Delimited(r.parser)

LEMMA HeadersRead ==
    ASSUME Sizes, NEW p, AtHeader(p), Len(p.block.lines) <= Least(MaxFieldLines, limits.maxHeaderLineCount),
           NEW r, r = Lines(p, limits.maxHeaderLineCount), r.status # "Failed"
    PROVE  Proceeds(p.skipped, r)
<1> DEFINE most == Least(MaxFieldLines, limits.maxHeaderLineCount)
           had == Len(p.block.lines)
           count == most - had
<1>1. /\ p.skipped \in Nat /\ had \in Nat /\ p.state = "Headers"
      /\ limits.maxHeaderLineCount \in Nat /\ limits.maxRequestSize \in Nat /\ arrived \in Nat
  BY ParserTypes, LimitTypes DEF AtHeader
<1>2. most \in Nat /\ count \in Nat
  <2>1. MaxFieldLines \in Nat  BY DEF MaxFieldLines
  <2>2. most \in Nat  BY <1>1, <2>1, LeastType
  <2>3. had <= most  OBVIOUS
  <2> HIDE DEF most, had
  <2> QED  BY <1>1, <2>2, <2>3
<1>3. r = IF Passes(p, count).status = "Another" THEN Fail(Passes(p, count).parser, "TooBigRequest")
          ELSE Passes(p, count)
  BY DEF Lines, Exhausted
<1>4. r = Passes(p, count) /\ r.status # "Another"  BY <1>3, FailedIs
<1> HIDE DEF most, had, count
<1>5. PICK f : /\ Passes(p, count) = f[count] /\ f[0] = Another(p)
               /\ \A n \in 1..count : f[n] = PassFrom(p, f[n - 1])
  BY <1>2, PassesRun
<1> DEFINE Ok(n) ==
             \/ f[n].status = "Failed"
             \/ /\ f[n].status \in {"Another", "NeedsMoreData"}
                /\ f[n].status = "NeedsMoreData" => Incomplete(f[n].parser)
                /\ AtHeader(f[n].parser) /\ f[n].parser.skipped = p.skipped
                /\ Len(f[n].parser.block.lines) <= had + n
             \/ /\ f[n].status = "ParsedRequest" /\ f[n].parser.skipped = p.skipped
                /\ Stands(f[n].parser) /\ Opens(f[n].parser) /\ Delimited(f[n].parser)
           Bad == {n \in 0..count : ~Ok(n)}
<1>6. Bad = {}
  <2> SUFFICES ASSUME Bad # {} PROVE FALSE  OBVIOUS
  <2>1. Bad \subseteq Nat  BY <1>2
  <2>2. PICK n \in Bad : \A m \in Bad : n <= m
    <3> HIDE DEF Bad
    <3> QED  BY <2>1, LeastOf
  <2>3. n \in 0..count /\ ~Ok(n)  OBVIOUS
  <2>4. CASE n = 0
    <3>1. f[n].status = "Another" /\ f[n].parser = p  BY <1>5, <2>4, ResultIs DEF Another
    <3>2. Len(f[n].parser.block.lines) <= had + n  BY <1>1, <2>4, <3>1 DEF had
    <3>3. Ok(n)  BY <3>1, <3>2
    <3> QED  BY <2>3, <3>3
  <2>5. CASE n # 0
    <3>1. n \in 1..count /\ n - 1 \in 0..count /\ n \in Nat /\ ~(n <= n - 1)  BY <1>2, <2>3, <2>5
    <3>2. Ok(n - 1)
      <4>1. n - 1 \notin Bad
        <5> HIDE DEF Bad
        <5> QED  BY <2>2, <3>1
      <4> HIDE DEF Ok
      <4> QED  BY <3>1, <4>1
    <3>3. f[n] = PassFrom(p, f[n - 1])  BY <1>5, <3>1
    <3>4. CASE f[n - 1].status # "Another"
      <4>1. f[n] = f[n - 1]  BY <3>3, <3>4 DEF PassFrom
      <4>2. \A m \in Nat : m <= had + (n - 1) => m <= had + n  BY <1>1, <3>1
      <4>3. \A q : AtHeader(q) => Len(q.block.lines) \in Nat  BY ParserTypes DEF AtHeader
      <4> QED  BY <2>3, <3>2, <4>1, <4>2, <4>3
    <3>5. CASE f[n - 1].status = "Another" /\ f[n].status # "Failed"
      <4> DEFINE q == f[n - 1].parser
                 t == f[n]
      <4>1. AtHeader(q) /\ q.skipped = p.skipped /\ Len(q.block.lines) <= had + (n - 1)  BY <3>2, <3>5
      <4>2. t = HeaderLine(q)  BY <1>1, <3>3, <3>5 DEF PassFrom
      <4>3. \/ /\ t.status = "Another" /\ AtHeader(t.parser) /\ t.parser.skipped = q.skipped
               /\ Len(t.parser.block.lines) = Len(q.block.lines) + 1
            \/ t.status = "NeedsMoreData" /\ t.parser = q /\ Incomplete(q)
            \/ /\ t.status = "ParsedRequest" /\ t.parser.skipped = q.skipped /\ Stands(t.parser) /\ Opens(t.parser)
               /\ Delimited(t.parser)
        BY <3>5, <4>1, <4>2, HeaderLineSteps
      <4>4. Len(q.block.lines) \in Nat  BY <4>1, ParserTypes DEF AtHeader
      <4>5. Len(q.block.lines) <= had + n /\ Len(q.block.lines) + 1 <= had + n
        <5>1. \A m, h, k \in Nat : m <= h + (k - 1) => m <= h + k /\ m + 1 <= h + k  OBVIOUS
        <5> QED  BY <1>1, <3>1, <4>1, <4>4, <5>1
      <4>6. Ok(n)
        <5> HIDE DEF q
        <5> QED  BY <4>1, <4>3, <4>5
      <4> QED  BY <2>3, <4>6
    <3> QED  BY <2>3, <3>4, <3>5
  <2> QED  BY <2>4, <2>5
<1>7. Ok(count)
  <2>1. count \in 0..count  BY <1>2
  <2> HIDE DEF Ok
  <2> QED  BY <1>6, <2>1
<1>8. f[count] = r  BY <1>4, <1>5
<1>9. CASE r.status = "ParsedRequest"
  BY <1>7, <1>8, <1>9 DEF Proceeds, Opens
<1>10. CASE r.status = "NeedsMoreData"
  <2>1. /\ AtHeader(r.parser) /\ r.parser.skipped = p.skipped /\ Len(r.parser.block.lines) <= had + count
        /\ Incomplete(r.parser)
    BY <1>7, <1>8, <1>10
  <2>2. had + count = most  BY <1>1, <1>2 DEF count
  <2>3. /\ r.parser \in Parsers /\ r.parser.state = "Headers" /\ r.parser.requestSize \in Nat
        /\ r.parser.skipped + r.parser.requestSize <= arrived
        /\ r.parser.requestSize <= limits.maxRequestSize + 2
    BY <1>1, <2>1, ParserTypes, SMTT(30) DEF AtHeader, Available
  <2>4. Reached(r.parser) = r.parser.requestSize  BY <2>3 DEF Reached
  <2>5. Stands(r.parser)
    BY <1>1, <2>1, <2>2, <2>3, <2>4 DEF Stands, AtHeader, InBody, most
  <2> QED  BY <1>10, <2>1, <2>3, <2>4, <2>5 DEF Proceeds
<1> QED  BY <1>4, <1>7, <1>8, <1>9, <1>10

LEMMA TrailersRead ==
    ASSUME Sizes, NEW p, AtTrailer(p), Len(p.block.lines) <= Least(MaxFieldLines, limits.maxTrailerLineCount),
           NEW r, r = Lines(p, limits.maxTrailerLineCount), r.status # "Failed"
    PROVE  /\ r.parser.skipped = p.skipped /\ r.parser.body = p.body /\ Stands(r.parser) /\ Moves(p, r.parser)
           /\ \/ r.status = "NeedsMoreData" /\ r.parser.state = "Trailers" /\ Incomplete(r.parser)
              \/ r.status = "ParsedRequest" /\ r.parser.state = "RequestLine" /\ BlockStands(r.parser)
<1> DEFINE most == Least(MaxFieldLines, limits.maxTrailerLineCount)
           had == Len(p.block.lines)
           count == most - had
<1>1. /\ p.skipped \in Nat /\ had \in Nat /\ p.state = "Trailers"
      /\ limits.maxTrailerLineCount \in Nat /\ limits.maxRequestSize \in Nat /\ arrived \in Nat
  BY ParserTypes, LimitTypes DEF AtTrailer
<1>2. most \in Nat /\ count \in Nat
  <2>1. MaxFieldLines \in Nat  BY DEF MaxFieldLines
  <2>2. most \in Nat  BY <1>1, <2>1, LeastType
  <2>3. had <= most  OBVIOUS
  <2> HIDE DEF most, had
  <2> QED  BY <1>1, <2>2, <2>3
<1>3. r = IF Passes(p, count).status = "Another" THEN Fail(Passes(p, count).parser, "TooBigRequest")
          ELSE Passes(p, count)
  BY DEF Lines, Exhausted
<1>4. r = Passes(p, count) /\ r.status # "Another"  BY <1>3, FailedIs
<1> HIDE DEF most, had, count
<1>5. PICK f : /\ Passes(p, count) = f[count] /\ f[0] = Another(p)
               /\ \A n \in 1..count : f[n] = PassFrom(p, f[n - 1])
  BY <1>2, PassesRun
<1> DEFINE Ok(n) ==
             \/ f[n].status = "Failed"
             \/ /\ f[n].status \in {"Another", "NeedsMoreData"}
                /\ f[n].status = "NeedsMoreData" => Incomplete(f[n].parser)
                /\ AtTrailer(f[n].parser) /\ f[n].parser.skipped = p.skipped /\ f[n].parser.body = p.body
                /\ f[n].parser.requestSize = p.requestSize
                /\ Len(f[n].parser.block.lines) <= had + n
             \/ /\ f[n].status = "ParsedRequest" /\ f[n].parser.skipped = p.skipped /\ f[n].parser.body = p.body
                /\ f[n].parser.state = "RequestLine" /\ Stands(f[n].parser) /\ Moves(p, f[n].parser)
                /\ BlockStands(f[n].parser)
           Bad == {n \in 0..count : ~Ok(n)}
<1>6. Bad = {}
  <2> SUFFICES ASSUME Bad # {} PROVE FALSE  OBVIOUS
  <2>1. Bad \subseteq Nat  BY <1>2
  <2>2. PICK n \in Bad : \A m \in Bad : n <= m
    <3> HIDE DEF Bad
    <3> QED  BY <2>1, LeastOf
  <2>3. n \in 0..count /\ ~Ok(n)  OBVIOUS
  <2>4. CASE n = 0
    <3>1. f[n].status = "Another" /\ f[n].parser = p  BY <1>5, <2>4, ResultIs DEF Another
    <3>2. Len(f[n].parser.block.lines) <= had + n  BY <1>1, <2>4, <3>1 DEF had
    <3>3. Ok(n)  BY <3>1, <3>2
    <3> QED  BY <2>3, <3>3
  <2>5. CASE n # 0
    <3>1. n \in 1..count /\ n - 1 \in 0..count /\ n \in Nat /\ ~(n <= n - 1)  BY <1>2, <2>3, <2>5
    <3>2. Ok(n - 1)
      <4>1. n - 1 \notin Bad
        <5> HIDE DEF Bad
        <5> QED  BY <2>2, <3>1
      <4> HIDE DEF Ok
      <4> QED  BY <3>1, <4>1
    <3>3. f[n] = PassFrom(p, f[n - 1])  BY <1>5, <3>1
    <3>4. CASE f[n - 1].status # "Another"
      <4>1. f[n] = f[n - 1]  BY <3>3, <3>4 DEF PassFrom
      <4>2. \A m \in Nat : m <= had + (n - 1) => m <= had + n  BY <1>1, <3>1
      <4>3. \A q : AtTrailer(q) => Len(q.block.lines) \in Nat  BY ParserTypes DEF AtTrailer
      <4> QED  BY <2>3, <3>2, <4>1, <4>2, <4>3
    <3>5. CASE f[n - 1].status = "Another" /\ f[n].status # "Failed"
      <4> DEFINE q == f[n - 1].parser
                 t == f[n]
      <4>1. /\ AtTrailer(q) /\ q.skipped = p.skipped /\ q.body = p.body /\ q.requestSize = p.requestSize
            /\ Len(q.block.lines) <= had + (n - 1)
        BY <3>2, <3>5
      <4>2. t = TrailerLine(q)  BY <1>1, <3>3, <3>5 DEF PassFrom
      <4>3. \/ /\ t.status = "Another" /\ AtTrailer(t.parser)
               /\ t.parser.skipped = q.skipped /\ t.parser.body = q.body /\ t.parser.requestSize = q.requestSize
               /\ Len(t.parser.block.lines) = Len(q.block.lines) + 1
            \/ t.status = "NeedsMoreData" /\ t.parser = q /\ Incomplete(q)
            \/ /\ t.status = "ParsedRequest" /\ t.parser.skipped = q.skipped /\ t.parser.body = q.body
               /\ t.parser.state = "RequestLine" /\ Stands(t.parser) /\ Moves(q, t.parser) /\ BlockStands(t.parser)
        BY <3>5, <4>1, <4>2, TrailerLineSteps
      <4>4. Len(q.block.lines) \in Nat  BY <4>1, ParserTypes DEF AtTrailer
      <4>5. Len(q.block.lines) <= had + n /\ Len(q.block.lines) + 1 <= had + n
        <5>1. \A m, h, k \in Nat : m <= h + (k - 1) => m <= h + k /\ m + 1 <= h + k  OBVIOUS
        <5> QED  BY <1>1, <3>1, <4>1, <4>4, <5>1
      <4>6. t.status = "ParsedRequest" => Moves(p, t.parser)
        <5>1. Reached(q) = 0 /\ Reached(p) = 0  BY <1>1, <4>1 DEF AtTrailer, Reached
        <5> QED  BY <4>1, <4>3, <5>1 DEF Moves
      <4>7. Ok(n)
        <5> HIDE DEF q
        <5> QED  BY <4>1, <4>3, <4>5, <4>6
      <4> QED  BY <2>3, <4>7
    <3> QED  BY <2>3, <3>4, <3>5
  <2> QED  BY <2>4, <2>5
<1>7. Ok(count)
  <2>1. count \in 0..count  BY <1>2
  <2> HIDE DEF Ok
  <2> QED  BY <1>6, <2>1
<1>8. f[count] = r  BY <1>4, <1>5
<1>9. CASE r.status = "ParsedRequest"
  BY <1>7, <1>8, <1>9
<1>10. CASE r.status = "NeedsMoreData"
  <2>1. /\ AtTrailer(r.parser) /\ r.parser.skipped = p.skipped /\ r.parser.body = p.body
        /\ r.parser.requestSize = p.requestSize
        /\ Len(r.parser.block.lines) <= had + count
        /\ Incomplete(r.parser)
    BY <1>7, <1>8, <1>10
  <2>2. had + count = most  BY <1>1, <1>2 DEF count
  <2>3. /\ r.parser \in Parsers /\ r.parser.state = "Trailers" /\ r.parser.skipped \in Nat
        /\ r.parser.trailersSize \in Nat /\ r.parser.trailersSize < Available(r.parser)
    BY <2>1, ParserTypes DEF AtTrailer
  <2>4. Reached(r.parser) = 0  BY <2>3 DEF Reached
  <2>5. r.parser.skipped + 0 <= arrived /\ r.parser.trailersSize <= Available(r.parser)
    BY <1>1, <2>3 DEF Available
  <2>6. Stands(r.parser)
    BY <1>1, <2>1, <2>2, <2>3, <2>4, <2>5 DEF Stands, AtTrailer, InBody, most
  <2>7. Moves(p, r.parser)
    <3>1. Reached(p) = 0  BY <1>1 DEF Reached
    <3> QED  BY <2>1, <2>4, <3>1 DEF Moves
  <2> QED  BY <1>10, <2>1, <2>3, <2>6, <2>7
<1> QED  BY <1>4, <1>7, <1>8, <1>9, <1>10

-----------------------------------------------------------------------------
(* The request line. *)

\* The parser is in a request line, of which it has handed over nothing.
InLine(p) == p \in Parsers /\ p.state = "RequestLine" /\ p.body.type = "NoBody" /\ p.skipped <= arrived

\* What a look at a request line that is not refused leaves.
Reads(p, r) == r.status = "Failed" \/ Proceeds(p.skipped, r)

\* The line is awaited when no break has arrived in the bytes that were looked at, and no version behind them.
LEMMA WaitsForLine ==
    ASSUME Sizes, NEW p, InLine(p), NEW i \in Nat, Clean(p, i), Available(p) < i + Len(Version)
    PROVE  Reads(p, NeedsMoreData([p EXCEPT !.requestSize = 0]))
<1> DEFINE q == [p EXCEPT !.requestSize = 0]
<1> HIDE DEF q
<1>1. p \in Parsers /\ 0 \in Nat /\ limits.maxRequestSize \in Nat /\ p.skipped \in Nat /\ arrived \in Nat
  BY ParserTypes, LimitTypes DEF InLine
<1>2. q \in Parsers /\ q.skipped = p.skipped /\ q.state = p.state /\ q.requestSize = 0 /\ q.body = p.body
  BY <1>1, SizeSet, SMTT(30) DEF q
<1>3. q.state = "RequestLine" /\ q.body.type = "NoBody"  BY <1>2 DEF InLine
<1>4. Reached(q) = 0  BY <1>2, <1>3 DEF Reached, Leftover
<1>5. Stands(q)  BY <1>1, <1>2, <1>3, <1>4 DEF Stands, InBody, InLine
<1>6. NoneArrived(q, 0, CRLF, Len(Version))
  <2> SUFFICES ASSUME NEW k \in 0..(Available(q) - Len(Version)), Slice(q, k, Len(CRLF)) = CRLF PROVE FALSE
    BY DEF NoneArrived
  <2>1. Available(q) = Available(p) /\ Available(p) \in Int  BY <1>1, <1>2 DEF Available
  <2>2. k \in 0..(i - 1) /\ k \in Int  BY <2>1, VersionLength
  <2>3. At(q, k) = "cr"  BY <2>2, BreakBegins
  <2>4. Clean(q, i)  BY <1>2, SameLine
  <2> QED  BY <2>2, <2>3, <2>4 DEF Clean
<1>7. Incomplete(q)  BY <1>3, <1>6 DEF Incomplete
<1>8. Reads(p, NeedsMoreData(q))  BY <1>2, <1>3, <1>4, <1>5, <1>7, ResultIs DEF Reads, Proceeds, NeedsMoreData
<1> QED  BY <1>8 DEF q

LEMMA LineAwaited ==
    ASSUME Sizes, NEW p, InLine(p), NEW n, NEW start, NEW i \in Nat, Clean(p, i), Available(p) < i + Len(Version)
    PROVE  Reads(p, AwaitLine(p, n, start))
<1>1. CASE Within(p, n, start)
  <2>1. AwaitLine(p, n, start) = NeedsMoreData([p EXCEPT !.requestSize = 0])  BY <1>1 DEF AwaitLine
  <2> QED  BY <2>1, WaitsForLine
<1>2. CASE ~Within(p, n, start)
  <2>1. AwaitLine(p, n, start) = Fail([p EXCEPT !.requestSize = n], "TooBigRequest")  BY <1>2 DEF AwaitLine
  <2> QED  BY <2>1, FailedIs DEF Reads
<1> QED  BY <1>1, <1>2

LEMMA UrlStops ==
    ASSUME Sizes, NEW p, InLine(p), NEW i \in Nat, Clean(p, i)
    PROVE  Reads(p, StopUrl(p, i))
<1>1. \/ StopUrl(p, i) = AwaitLine(p, i + 3, p.line.path) /\ i + 3 >= Available(p)
      \/ StopUrl(p, i) = AwaitLine(p, i + 1, p.line.path) /\ i + 1 = Available(p)
      \/ StopUrl(p, i) = Fail([p EXCEPT !.requestSize = i], "MalformedRequest")
  BY DEF StopUrl
<1>2. Available(p) \in Int  BY ParserTypes, LimitTypes DEF InLine, Available
<1>3. i + 3 >= Available(p) \/ i + 1 = Available(p) => Available(p) < i + Len(Version)  BY <1>2, VersionLength
<1>4. CASE Available(p) < i + Len(Version)
  <2>1. Reads(p, AwaitLine(p, i + 3, p.line.path)) /\ Reads(p, AwaitLine(p, i + 1, p.line.path))  BY <1>4, LineAwaited
  <2> QED  BY <1>1, <2>1, FailedIs DEF Reads
<1>5. CASE ~(Available(p) < i + Len(Version))
  BY <1>1, <1>3, <1>5, FailedIs DEF Reads
<1> QED  BY <1>4, <1>5

LEMMA HeadersParsed ==
    ASSUME Sizes, NEW p \in Parsers, p.state = "Headers", Stands(p)
    PROVE  Reads(p, ParseHeaders(p))
<1> DEFINE r == ParseHeaders(p)
<1>1. /\ p.skipped \in Nat /\ p.requestSize \in Nat /\ Available(p) \in Int
      /\ Unread(p.body) /\ p.requestSize <= limits.maxRequestSize
      /\ Len(p.block.lines) <= Least(MaxFieldLines, limits.maxHeaderLineCount)
      /\ HeaderRead(p)
  BY ParserTypes, LimitTypes, SMTT(30) DEF Stands, Available
<1>2. CASE p.requestSize >= Available(p)
  <2>1. r = NeedsMoreData(p)  BY <1>2 DEF ParseHeaders
  <2>2. r.parser = p /\ r.status = "NeedsMoreData"  BY <2>1, ResultIs DEF NeedsMoreData
  <2>3. Reached(p) = p.requestSize  BY DEF Reached
  <2>4. NoBlankLine(p, p.requestSize)
    <3>1. \A k \in p.requestSize..(Available(p) - 4) : FALSE  BY <1>1, <1>2
    <3>2. ~(p.requestSize + 2 <= Available(p))  BY <1>1, <1>2
    <3> QED  BY <3>1, <3>2 DEF NoBlankLine, NoneArrived
  <2>5. Incomplete(p)  BY <2>4 DEF Incomplete
  <2> QED  BY <2>2, <2>3, <2>5 DEF Reads, Proceeds
<1>3. CASE ~(p.requestSize >= Available(p))
  <2>1. r = Lines(p, limits.maxHeaderLineCount)  BY <1>3 DEF ParseHeaders
  <2>2. AtHeader(p)  BY <1>1, <1>3 DEF AtHeader
  <2> HIDE DEF r
  <2> QED  BY <1>1, <2>1, <2>2, HeadersRead DEF Reads, r
<1> QED  BY <1>2, <1>3

LEMMA NoBodyIs == NoBody \in Bodies /\ NoBody.type = "NoBody" /\ Unread(NoBody)
  BY DEF NoBody, BodyOf, Bodies, Unread

LEMMA VersionParsed ==
    ASSUME Sizes, NEW p, InLine(p), TargetStands(p, p.line, p.requestSize)
    PROVE  Reads(p, ParseVersion(p))
<1> DEFINE r == ParseVersion(p)
           next == p.requestSize + Len(Version)
           q == [p EXCEPT !.requestSize = next]
           h == [q EXCEPT !.state = "Headers", !.block = Block(next), !.body = NoBody, !.host = FALSE, !.expects = FALSE]
<1>1. /\ p \in Parsers /\ p.requestSize \in Nat /\ p.skipped \in Nat /\ arrived \in Nat
      /\ limits.maxRequestSize \in Nat /\ limits.maxHeaderLineCount \in Nat
  BY ParserTypes, LimitTypes DEF InLine
<1>2. next \in Nat
  <2>1. Len(Version) \in Nat  BY DEF Version
  <2> QED  BY <1>1, <2>1
<1>3. \/ r = NeedsMoreData([p EXCEPT !.requestSize = 0]) /\ next > Available(p)
      \/ r = Fail(q, "TooBigRequest")
      \/ r = Fail(p, "MalformedRequest")
      \/ /\ r = ParseHeaders(h) /\ ~(next > Available(p)) /\ ~(next > limits.maxRequestSize)
         /\ Slice(p, p.requestSize, Len(Version)) = Version
  BY DEF ParseVersion
<1>4. CASE r = NeedsMoreData([p EXCEPT !.requestSize = 0]) /\ next > Available(p)
  <2>1. Clean(p, p.requestSize)
    <3>1. p.line \in RequestLines  BY <1>1 DEF Parsers
    <3> QED  BY <3>1, TargetClean
  <2>2. Available(p) < p.requestSize + Len(Version)
    <3>1. Available(p) \in Int  BY <1>1 DEF Available
    <3> QED  BY <1>1, <1>2, <1>4, <3>1
  <2> HIDE DEF r
  <2> QED  BY <1>1, <1>4, <2>1, <2>2, WaitsForLine DEF r
<1>5. CASE r = Fail(q, "TooBigRequest") \/ r = Fail(p, "MalformedRequest")
  BY <1>5, FailedIs DEF Reads
<1>6. CASE /\ r = ParseHeaders(h) /\ ~(next > Available(p)) /\ ~(next > limits.maxRequestSize)
           /\ Slice(p, p.requestSize, Len(Version)) = Version
  <2> HIDE DEF next
  <2>1. q \in Parsers /\ q.skipped = p.skipped /\ q.requestSize = next /\ q.line = p.line
    <3>1. q = [p EXCEPT !.requestSize = next]  OBVIOUS
    <3> HIDE DEF q
    <3> QED  BY <1>1, <1>2, <3>1, SizeSet
  <2> DEFINE b == Block(next)
             empty == [start |-> next, lines |-> <<>>]
  <2>2. b \in Blocks /\ Len(b.lines) = 0 /\ b.start = next
    <3>1. b = empty  BY DEF Block
    <3>2. empty.lines = <<>> /\ <<>> \in Seq([nameSize : Nat, valueSize : Nat])  BY EmptySeq
    <3>3. empty \in Blocks  BY <1>2, <3>2 DEF Blocks
    <3>4. Len(empty.lines) = 0  BY <3>2, EmptySeq
    <3> QED  BY <3>1, <3>3, <3>4
  <2> HIDE DEF b, q
  <2>3. "Headers" \in States  BY DEF States
  <2>4. h = [q EXCEPT !.state = "Headers", !.block = b, !.body = NoBody, !.host = FALSE, !.expects = FALSE]
    BY DEF b
  <2>5. NoBody \in Bodies  BY NoBodyIs
  <2> HIDE DEF h
  <2>6. h \in Parsers  BY <2>1, <2>2, <2>3, <2>4, <2>5 DEF Parsers
  <2>7. /\ h.skipped = q.skipped /\ h.state = "Headers" /\ h.requestSize = q.requestSize
        /\ h.body = NoBody /\ h.block = b /\ h.line = q.line /\ h.host = FALSE /\ h.expects = FALSE
    BY <2>1, <2>4 DEF Parsers
  <2>8. Reached(h) = next  BY <2>1, <2>7 DEF Reached
  <2>9. p.skipped + next <= arrived /\ next <= limits.maxRequestSize
    BY <1>1, <1>2, <1>6 DEF Available
  <2>10. Len(h.block.lines) <= Least(MaxFieldLines, limits.maxHeaderLineCount)
    <3>1. MaxFieldLines \in Nat  BY DEF MaxFieldLines
    <3>2. Least(MaxFieldLines, limits.maxHeaderLineCount) \in Nat  BY <1>1, <3>1, LeastType
    <3>3. Len(h.block.lines) = 0  BY <2>2, <2>7
    <3> QED  BY <3>2, <3>3
  <2>11. HeaderRead(h)
    <3>1. LinesRead(h, h.block.start) /\ FieldsHeeded(h)
      <4>1. Len(h.block.lines) = 0 /\ h.body.type = "NoBody"  BY <2>2, <2>7, NoBodyIs
      <4> QED  BY <2>6, <2>7, <4>1, NothingHeeded
    <3>2. RequestLineStands(h)
      <4> DEFINE n == p.requestSize
      <4>1. h.skipped = p.skipped /\ h.line = p.line /\ h.block.start = n + Len(Version)  BY <2>1, <2>2, <2>7 DEF next
      <4>2. n \in Nat /\ h.line \in RequestLines  BY <1>1, <2>6 DEF Parsers
      <4>3. TargetStands(p, h.line, n) /\ Slice(p, n, Len(Version)) = Version  BY <1>6, <4>1
      <4> HIDE DEF n
      <4> QED  BY <4>1, <4>2, <4>3, LineStands
    <3> QED  BY <2>1, <2>2, <2>7, <3>1, <3>2 DEF HeaderRead
  <2>12. Stands(h)
    BY <1>1, <1>2, <2>1, <2>6, <2>7, <2>8, <2>9, <2>10, <2>11, NoBodyIs DEF Stands, InBody
  <2>13. Reads(h, ParseHeaders(h))  BY <2>6, <2>7, <2>12, HeadersParsed
  <2> QED  BY <1>6, <2>1, <2>7, <2>13 DEF Reads
<1> QED  BY <1>3, <1>4, <1>5, <1>6

\* A change to the positions of the target.
LEMMA LineSet ==
    ASSUME NEW p, InLine(p), NEW l \in RequestLines, NEW q, q = [p EXCEPT !.line = l]
    PROVE  InLine(q) /\ q.skipped = p.skipped /\ q.line = l
<1>1. q \in Parsers  BY DEF Parsers, InLine
<1>2. q.skipped = p.skipped /\ q.state = p.state /\ q.body = p.body /\ q.line = l
  BY DEF Parsers, InLine
<1> QED  BY <1>1, <1>2 DEF InLine

LEMMA LineSized ==
    ASSUME NEW p, InLine(p), NEW n \in Nat, NEW q, q = [p EXCEPT !.requestSize = n]
    PROVE  InLine(q) /\ q.skipped = p.skipped /\ q.line = p.line /\ q.requestSize = n
<1>1. q \in Parsers  BY DEF Parsers, InLine
<1>2. q.skipped = p.skipped /\ q.state = p.state /\ q.body = p.body /\ q.line = p.line /\ q.requestSize = n
  BY DEF Parsers, InLine
<1> QED  BY <1>1, <1>2 DEF InLine

LEMMA UrlScanned ==
    ASSUME Sizes, NEW p \in Parsers, NEW class, p.requestSize < Available(p),
           NEW i, i = ScanUrl(p, p.requestSize, class)
    PROVE  /\ i \in Nat /\ i >= p.requestSize /\ i - p.requestSize \in Nat
           /\ UrlStands(p, p.requestSize, i - p.requestSize, class)
<1> DEFINE last == Available(p) - 1
           escape(k) == At(p, k) = "%" /\ k + 3 <= last /\ {At(p, k + 1), At(p, k + 2)} \subseteq Digits
           passing == {k \in p.requestSize..last : At(p, k) \in class \/ escape(k)}
<1>1. p.requestSize \in Nat /\ last \in Nat /\ p.requestSize <= last
  <2>1. p.requestSize \in Nat /\ p.skipped \in Nat /\ arrived \in Nat  BY ParserTypes, LimitTypes
  <2> QED  BY <2>1 DEF Available
<1>2. i = Stop(p.requestSize, last, passing)  BY DEF ScanUrl
<1>3. \A k \in passing : At(p, k) \in class \/ (At(p, k) = "%" /\ {At(p, k + 1), At(p, k + 2)} \subseteq Digits)
  OBVIOUS
<1> HIDE DEF passing, last
<1>4. i \in Nat /\ i >= p.requestSize /\ \A k \in p.requestSize..(i - 1) : k \in passing  BY <1>1, <1>2, StopStops
<1>5. i - p.requestSize \in Nat /\ p.requestSize + (i - p.requestSize) - 1 = i - 1  BY <1>1, <1>4
<1>6. UrlStands(p, p.requestSize, i - p.requestSize, class)  BY <1>3, <1>4, <1>5 DEF UrlStands
<1> QED  BY <1>4, <1>5, <1>6

\* The path of the line l is before index n, which a question mark precedes.
PathRead(p, l, n) ==
    /\ MethodStands(p, l.path, l.options) /\ PathStands(p, l.path, l.pathSize, l.options)
    /\ At(p, l.path + l.pathSize) = "?" /\ n = l.path + l.pathSize + 1

LEMMA PathReadClean ==
    ASSUME NEW p, NEW l \in RequestLines, NEW n, PathRead(p, l, n)
    PROVE  n \in Nat /\ Clean(p, n)
<1> DEFINE e == l.path + l.pathSize
           options == l.options
<1>1. l.path \in Nat /\ l.pathSize \in Nat /\ e \in Nat  BY DEF RequestLines
<1>2. MethodStands(p, l.path, options) /\ PathStands(p, l.path, l.pathSize, options)  BY DEF PathRead
<1> HIDE DEF options
<1>3. Clean(p, l.path)  BY <1>2, MethodClean
<1>4. Clean(p, l.path + l.pathSize)  BY <1>1, <1>2, <1>3, PathClean
<1>5. Clean(p, e) /\ At(p, e) # "cr" /\ n = e + 1  BY <1>4 DEF PathRead
<1> HIDE DEF e
<1> QED  BY <1>1, <1>5, CleanByOne

LEMMA QueryParsed ==
    ASSUME Sizes, NEW p, InLine(p), PathRead(p, p.line, p.requestSize)
    PROVE  Reads(p, ParseQuery(p))
<1> DEFINE r == ParseQuery(p)
           i == ScanUrl(p, p.requestSize, QueryBytes)
           q == [p EXCEPT !.line.query = p.requestSize, !.line.querySize = i - p.requestSize, !.requestSize = i + 1]
<1>1. p \in Parsers /\ p.requestSize \in Nat /\ Available(p) \in Int /\ p.line \in RequestLines
  BY ParserTypes, LimitTypes DEF InLine, Available
<1>4. Clean(p, p.requestSize)  BY <1>1, PathReadClean
<1>2. CASE p.requestSize >= Available(p)
  <2>1. r = NeedsMoreData([p EXCEPT !.requestSize = 0])  BY <1>2 DEF ParseQuery
  <2>2. Available(p) < p.requestSize + Len(Version)  BY <1>1, <1>2, VersionLength
  <2> HIDE DEF r
  <2> QED  BY <1>1, <1>4, <2>1, <2>2, WaitsForLine DEF r
<1>3. CASE ~(p.requestSize >= Available(p))
  <2>1. /\ i \in Nat /\ i >= p.requestSize /\ i - p.requestSize \in Nat
        /\ UrlStands(p, p.requestSize, i - p.requestSize, QueryBytes)
    <3>1. p.requestSize < Available(p)  BY <1>1, <1>3
    <3> QED  BY <1>1, <3>1, UrlScanned
  <2>2. \/ r = StopUrl(p, i)
        \/ r = ParseVersion(q) /\ At(p, i) = " "
        \/ r = Fail(q, "TooBigRequest")
    BY <1>3 DEF ParseQuery
  <2> HIDE DEF i
  <2>6. p.requestSize + (i - p.requestSize) = i  BY <1>1, <2>1
  <2>3. CASE r = StopUrl(p, i)
    <3>1. Clean(p, p.requestSize + (i - p.requestSize))
      <4> DEFINE m == i - p.requestSize
      <4>1. m \in Nat /\ UrlStands(p, p.requestSize, m, QueryBytes)  BY <2>1
      <4> HIDE DEF m
      <4>2. Clean(p, p.requestSize + m)  BY <1>1, <1>4, <4>1, UrlClean, NoRuleAdmitsBreaks
      <4> QED  BY <4>2 DEF m
    <3>2. Clean(p, i)  BY <2>6, <3>1
    <3> QED  BY <2>1, <2>3, <3>2, UrlStops
  <2>4. CASE r = Fail(q, "TooBigRequest")
    BY <2>4, FailedIs DEF Reads
  <2>5. CASE r = ParseVersion(q) /\ At(p, i) = " "
    <3> DEFINE m == i - p.requestSize
               l == [p.line EXCEPT !.query = p.requestSize, !.querySize = m]
               n == i + 1
    <3>1. m \in Nat /\ n \in Nat  BY <1>1, <2>1
    <3> DEFINE u == [p EXCEPT !.line = l]
    <3>2. q = [u EXCEPT !.requestSize = n]  BY <1>1 DEF Parsers
    <3> HIDE DEF q, m, n
    <3>3. l \in RequestLines  BY <1>1, <3>1 DEF RequestLines
    <3>4. u = [p EXCEPT !.line = l]  OBVIOUS
    <3>8. /\ l.path = p.line.path /\ l.pathSize = p.line.pathSize /\ l.options = p.line.options
          /\ l.query = p.requestSize /\ l.querySize = m
      BY <1>1 DEF RequestLines
    <3> HIDE DEF l, u
    <3>5. InLine(u) /\ u.skipped = p.skipped /\ u.line = l  BY <3>1, <3>3, <3>4, LineSet
    <3>6. InLine(q) /\ q.skipped = p.skipped /\ q.line = l /\ q.requestSize = n  BY <3>1, <3>3, <3>2, <3>5, LineSized
    <3>9. TargetStands(p, l, n)
      <4>1. UrlStands(p, l.query, l.querySize, QueryBytes) /\ At(p, l.query + l.querySize) = " "
            /\ n = l.query + l.querySize + 1
        <5>1. m = i - p.requestSize /\ n = i + 1 /\ l.query + l.querySize = i  BY <2>6, <3>8 DEF m, n
        <5>2. UrlStands(p, p.requestSize, m, QueryBytes)  BY <2>1 DEF m
        <5> QED  BY <2>5, <3>8, <5>1, <5>2
      <4>2. /\ MethodStands(p, l.path, l.options) /\ PathStands(p, l.path, l.pathSize, l.options)
            /\ At(p, l.path + l.pathSize) = "?" /\ l.query = l.path + l.pathSize + 1
        BY <3>8 DEF PathRead
      <4> QED  BY <4>1, <4>2 DEF TargetStands
    <3>10. TargetStands(q, q.line, q.requestSize)  BY <3>6, <3>9, SameLine
    <3>7. Reads(q, ParseVersion(q))  BY <3>6, <3>10, VersionParsed
    <3> QED  BY <2>5, <3>6, <3>7 DEF Reads
  <2> QED  BY <2>2, <2>3, <2>4, <2>5
<1> QED  BY <1>2, <1>3

LEMMA PathParsed ==
    ASSUME Sizes, NEW p, InLine(p), p.requestSize < Available(p),
           MethodStands(p, p.requestSize, p.line.options), p.line.querySize = 0,
           At(p, p.requestSize) = "/", At(p, p.requestSize + 1) # "/"
    PROVE  Reads(p, ParsePath(p))
<1> DEFINE r == ParsePath(p)
           i == ScanUrl(p, p.requestSize, PathBytes)
           q == [p EXCEPT !.line.path = p.requestSize, !.line.pathSize = i - p.requestSize, !.requestSize = i + 1]
           s == [p EXCEPT !.line.path = p.requestSize]
<1>1. p \in Parsers /\ p.requestSize \in Nat /\ p.line \in RequestLines  BY ParserTypes DEF InLine
<1>2. /\ i \in Nat /\ i >= p.requestSize /\ i - p.requestSize \in Nat
      /\ UrlStands(p, p.requestSize, i - p.requestSize, PathBytes)
  BY <1>1, UrlScanned
<1>3. \/ r = ParseVersion(q) /\ At(p, i) = " "
      \/ r = ParseQuery(q) /\ At(p, i) = "?"
      \/ r = Fail(q, "TooBigRequest")
      \/ r = StopUrl(s, i)
  BY DEF ParsePath
<1> HIDE DEF i
<1> DEFINE l == [p.line EXCEPT !.path = p.requestSize, !.pathSize = i - p.requestSize]
<1>8. /\ l \in RequestLines
      /\ l.options = p.line.options /\ l.path = p.requestSize /\ l.pathSize = i - p.requestSize
      /\ l.querySize = 0
  <2> DEFINE m == i - p.requestSize
  <2>1. m \in Nat  BY <1>2
  <2> HIDE DEF m
  <2>2. l = [p.line EXCEPT !.path = p.requestSize, !.pathSize = m]  BY DEF m
  <2> HIDE DEF l
  <2>3. /\ l \in RequestLines /\ l.options = p.line.options /\ l.path = p.requestSize /\ l.pathSize = m
        /\ l.querySize = p.line.querySize
    BY <1>1, <2>1, <2>2 DEF RequestLines
  <2> QED  BY <2>3 DEF m
<1> HIDE DEF l
<1>4. InLine(q) /\ q.skipped = p.skipped /\ q.line = l /\ q.requestSize = i + 1
  <2> DEFINE n == i + 1
  <2>1. n \in Nat  BY <1>1, <1>2
  <2> DEFINE u == [p EXCEPT !.line = l]
  <2>2. q = [u EXCEPT !.requestSize = n]  BY <1>1 DEF Parsers, l
  <2>6. n = i + 1  OBVIOUS
  <2> HIDE DEF q, n
  <2>4. u = [p EXCEPT !.line = l]  OBVIOUS
  <2> HIDE DEF u
  <2>5. InLine(u) /\ u.skipped = p.skipped /\ u.line = l  BY <1>8, <2>4, LineSet
  <2> QED  BY <2>1, <2>2, <2>5, <2>6, LineSized
<1>5. InLine(s) /\ s.skipped = p.skipped
  <2> DEFINE k == [p.line EXCEPT !.path = p.requestSize]
  <2> DEFINE u == [p EXCEPT !.line = k]
  <2>1. s = [u EXCEPT !.requestSize = p.requestSize]  BY <1>1 DEF Parsers
  <2> HIDE DEF s
  <2>2. k \in RequestLines  BY <1>1 DEF RequestLines
  <2>3. u = [p EXCEPT !.line = k]  OBVIOUS
  <2> HIDE DEF k, u
  <2>4. InLine(u) /\ u.skipped = p.skipped  BY <1>1, <2>2, <2>3, LineSet
  <2> QED  BY <1>1, <2>2, <2>1, <2>4, LineSized
<1> HIDE DEF q, s
<1>9. l.path + l.pathSize = i  BY <1>1, <1>2, <1>8
<1>10. MethodStands(p, l.path, l.options) /\ PathStands(p, l.path, l.pathSize, l.options)
  BY <1>2, <1>8 DEF PathStands
<1>6. CASE r = ParseVersion(q) /\ At(p, i) = " "
  <2>1. TargetStands(p, l, i + 1)  BY <1>6, <1>8, <1>9, <1>10 DEF TargetStands
  <2>2. TargetStands(q, q.line, q.requestSize)  BY <1>4, <2>1, SameLine
  <2>3. Reads(q, r)  BY <1>4, <1>6, <2>2, VersionParsed
  <2> QED  BY <1>4, <2>3 DEF Reads
<1>11. CASE r = ParseQuery(q) /\ At(p, i) = "?"
  <2>1. PathRead(p, l, i + 1)  BY <1>9, <1>10, <1>11 DEF PathRead
  <2>2. PathRead(q, l, i + 1)
    <3>1. At(q, l.path + l.pathSize) = At(p, l.path + l.pathSize)  BY <1>4, SamePlace
    <3>2. MethodStands(q, l.path, l.options) /\ PathStands(q, l.path, l.pathSize, l.options)  BY <1>4, <1>10, SameLine
    <3> QED  BY <2>1, <3>1, <3>2 DEF PathRead
  <2>3. Reads(q, r)  BY <1>4, <1>11, <2>2, QueryParsed
  <2> QED  BY <1>4, <2>3 DEF Reads
<1>7. CASE r = StopUrl(s, i)
  <2>1. Clean(p, i)
    <3>1. l.path \in Nat /\ l.pathSize \in Nat  BY <1>1, <1>2, <1>8
    <3> DEFINE options == l.options
    <3>2. MethodStands(p, l.path, options) /\ PathStands(p, l.path, l.pathSize, options)  BY <1>10
    <3> HIDE DEF options
    <3>3. Clean(p, l.path)  BY <3>2, MethodClean
    <3>4. Clean(p, l.path + l.pathSize)  BY <3>1, <3>2, <3>3, PathClean
    <3> QED  BY <1>9, <3>4
  <2>2. Clean(s, i)  BY <1>5, <2>1, SameLine
  <2>3. Reads(s, r)  BY <1>2, <1>5, <1>7, <2>2, UrlStops
  <2> QED  BY <1>5, <2>3 DEF Reads
<1>12. CASE r = Fail(q, "TooBigRequest")
  BY <1>12, FailedIs DEF Reads
<1> QED  BY <1>3, <1>6, <1>7, <1>11, <1>12

LEMMA TargetParsed ==
    ASSUME Sizes, NEW p, InLine(p), MethodStands(p, p.requestSize, p.line.options), p.line.querySize = 0
    PROVE  Reads(p, ParseTarget(p))
<1> DEFINE r == ParseTarget(p)
           i == p.requestSize
           q == [p EXCEPT !.line.path = i, !.line.pathSize = 1, !.requestSize = i + 2]
<1>1. p \in Parsers /\ p.requestSize \in Nat /\ p.line \in RequestLines /\ Available(p) \in Int
  BY ParserTypes, LimitTypes DEF InLine, Available
<1>2. \/ r = NeedsMoreData([p EXCEPT !.requestSize = 0]) /\ i + 2 > Available(p)
      \/ r = ParsePath(p) /\ ~(i + 2 > Available(p)) /\ At(p, i) = "/" /\ At(p, i + 1) # "/"
      \/ r = ParseVersion(q) /\ p.line.options /\ At(p, i) = "*" /\ At(p, i + 1) = " "
      \/ r = Fail(p, "MalformedRequest")
  BY DEF ParseTarget
<1>3. CASE r = NeedsMoreData([p EXCEPT !.requestSize = 0]) /\ i + 2 > Available(p)
  <2>1. Clean(p, i)
    <3> DEFINE options == p.line.options
    <3>1. MethodStands(p, i, options)  OBVIOUS
    <3> HIDE DEF options, i
    <3> QED  BY <3>1, MethodClean
  <2>2. Available(p) < i + Len(Version) /\ i \in Nat  BY <1>1, <1>3, VersionLength
  <2> HIDE DEF r, i
  <2> QED  BY <1>3, <2>1, <2>2, WaitsForLine DEF r
<1>4. CASE r = ParsePath(p) /\ ~(i + 2 > Available(p)) /\ At(p, i) = "/" /\ At(p, i + 1) # "/"
  <2>1. p.requestSize < Available(p)  BY <1>1, <1>4
  <2> HIDE DEF r
  <2> QED  BY <1>4, <2>1, PathParsed DEF r
<1>5. CASE r = ParseVersion(q) /\ p.line.options /\ At(p, i) = "*" /\ At(p, i + 1) = " "
  <2> DEFINE l == [p.line EXCEPT !.path = i, !.pathSize = 1]
             n == i + 2
  <2>1. n \in Nat  BY <1>1
  <2> DEFINE u == [p EXCEPT !.line = l]
  <2>2. q = [u EXCEPT !.requestSize = n]  BY <1>1 DEF Parsers
  <2> HIDE DEF q, n
  <2>3. /\ l \in RequestLines /\ l.options = p.line.options /\ l.path = i /\ l.pathSize = 1
        /\ l.querySize = p.line.querySize
    BY <1>1 DEF RequestLines
  <2>4. u = [p EXCEPT !.line = l]  OBVIOUS
  <2> HIDE DEF l, u
  <2>5. InLine(u) /\ u.skipped = p.skipped /\ u.line = l  BY <2>1, <2>3, <2>4, LineSet
  <2>6. InLine(q) /\ q.skipped = p.skipped /\ q.line = l /\ q.requestSize = n  BY <2>1, <2>3, <2>2, <2>5, LineSized
  <2>8. TargetStands(p, l, n)
    <3>1. MethodStands(p, l.path, l.options)  BY <2>3
    <3>2. n = l.path + l.pathSize + 1 /\ l.path + l.pathSize = i + 1  BY <1>1, <2>3 DEF n
    <3>3. l.options /\ l.pathSize = 1 /\ At(p, l.path) = "*" /\ l.querySize = 0 /\ At(p, l.path + l.pathSize) = " "
      BY <1>5, <2>3, <3>2
    <3>4. PathStands(p, l.path, l.pathSize, l.options)  BY <3>3 DEF PathStands
    <3> QED  BY <3>1, <3>2, <3>3, <3>4 DEF TargetStands
  <2>9. TargetStands(q, q.line, q.requestSize)  BY <2>6, <2>8, SameLine
  <2>7. Reads(q, r)  BY <1>5, <2>6, <2>9, VersionParsed
  <2> QED  BY <2>6, <2>7 DEF Reads
<1>6. CASE r = Fail(p, "MalformedRequest")
  BY <1>6, FailedIs DEF Reads
<1> QED  BY <1>2, <1>3, <1>4, <1>5, <1>6

LEMMA MethodParsed ==
    ASSUME Sizes, NEW p, InLine(p), p.requestSize = 0, p.line.querySize = 0
    PROVE  Reads(p, ParseMethod(p))
<1> DEFINE r == ParseMethod(p)
           blanks == {i \in 0..7 : At(p, i) = " "}
           word == Slice(p, 0, Min(blanks))
           options == Range(word) = {"o"}
           known == IF options THEN Len(word) = 7 ELSE Range(word) = {"m"} /\ Len(word) \in 3..6
           q == [p EXCEPT !.requestSize = Len(word) + 1, !.line.options = options]
<1>1. p \in Parsers /\ p.line \in RequestLines /\ Available(p) \in Int
  BY ParserTypes, LimitTypes DEF InLine, Available
<1>2. \/ r = NeedsMoreData(p) /\ Available(p) < 8
      \/ r = Fail(p, "MalformedRequest")
      \/ r = ParseTarget(q) /\ known /\ blanks # {}
  BY DEF ParseMethod
<1>3. CASE r = NeedsMoreData(p) /\ Available(p) < 8
  <2>1. p = [p EXCEPT !.requestSize = 0]  BY <1>1 DEF Parsers
  <2>2. Clean(p, 0) /\ 0 \in Nat /\ Available(p) < 0 + Len(Version)  BY <1>1, <1>3, VersionLength DEF Clean
  <2> HIDE DEF r
  <2>3. Reads(p, NeedsMoreData([p EXCEPT !.requestSize = 0]))  BY <2>2, WaitsForLine
  <2> QED  BY <1>3, <2>1, <2>3 DEF r
<1>4. CASE r = Fail(p, "MalformedRequest")
  BY <1>4, FailedIs DEF Reads
<1>5. CASE r = ParseTarget(q) /\ known /\ blanks # {}
  <2> DEFINE n == Len(word) + 1
             l == [p.line EXCEPT !.options = options]
  <2>1. options \in BOOLEAN  OBVIOUS
  <2>2. n \in Nat
    <3>1. Len(word) = 7 \/ Len(word) \in 3..6  BY <1>5
    <3> HIDE DEF word
    <3> QED  BY <3>1
  <2>9. MethodStands(p, n, options)
    <3> DEFINE m == Min(blanks)
               blank(k) == At(p, k) = " "
    <3>11. blanks = {k \in 0..7 : blank(k)}  OBVIOUS
    <3>12. blanks # {}  BY <1>5
    <3>13. /\ Len(word) = 7 \/ Len(word) \in 3..6
           /\ IF options THEN Range(word) = {"o"} /\ Len(word) = 7 ELSE Range(word) = {"m"} /\ Len(word) \in 3..6
      BY <1>5
    <3>14. n = Len(word) + 1  OBVIOUS
    <3>15. word = Slice(p, 0, m)  OBVIOUS
    <3> HIDE DEF blanks, blank, word, options, n
    <3>1. blanks \subseteq Nat /\ blanks # {}  BY <3>11, <3>12
    <3>2. m \in blanks
      <4>1. \E x \in blanks : \A y \in blanks : x <= y  BY <3>1, LeastOf
      <4> QED  BY <4>1 DEF Min
    <3>3. m \in Nat /\ blank(m)  BY <3>2, <3>11
    <3> HIDE DEF m
    <3>4. word = [k \in 1..m |-> At(p, 0 + k - 1)]  BY <3>15 DEF Slice
    <3>5. Len(word) = m /\ DOMAIN word = 1..m
      <4>1. PICK S : word \in Seq(S)
        <5>1. 0 \in Int  OBVIOUS
        <5> QED  BY <3>3, <3>15, <5>1, SliceType
      <4>2. DOMAIN word = 1..m  BY <3>4
      <4>3. Len(word) \in Nat /\ DOMAIN word = 1..Len(word)  BY <4>1, LenProperties
      <4>4. 1..m = 1..Len(word)  BY <4>2, <4>3
      <4>5. ASSUME NEW a \in Nat, NEW b \in Nat, 1..a = 1..b PROVE ~(a < b)
        <5>1. a < b => b \in 1..b /\ b \notin 1..a  OBVIOUS
        <5> QED  BY <4>5, <5>1
      <4>6. Len(word) = m
        <5>1. m \in Nat /\ Len(word) \in Nat  BY <3>3, <4>3
        <5>2. ~(m < Len(word)) /\ ~(Len(word) < m)  BY <4>4, <4>5, <5>1
        <5> QED  BY <5>1, <5>2
      <4> QED  BY <4>2, <4>6
    <3>6. \A k \in 0..(m - 1) : At(p, k) \in Range(word)
      <4> SUFFICES ASSUME NEW k \in 0..(m - 1) PROVE At(p, k) \in Range(word)  OBVIOUS
      <4>1. k + 1 \in 1..m /\ 0 + (k + 1) - 1 = k  BY <3>3
      <4>2. word[k + 1] = At(p, k)  BY <3>4, <4>1
      <4> QED  BY <3>5, <4>1, <4>2 DEF Range
    <3>8. n = m + 1 /\ n - 1 = m /\ n - 2 = m - 1  BY <3>3, <3>5, <3>14
    <3>16. At(p, n - 1) = " "  BY <3>3, <3>8 DEF blank
    <3>9. CASE options
      <4>1. Range(word) = {"o"} /\ m = 7  BY <3>5, <3>9, <3>13
      <4>2. n = 8  BY <3>8, <4>1
      <4>3. \A k \in 0..(n - 2) : At(p, k) = "o"  BY <3>6, <3>8, <4>1
      <4> QED  BY <3>9, <3>16, <4>2, <4>3 DEF MethodStands
    <3>10. CASE ~options
      <4>1. Range(word) = {"m"} /\ m \in 3..6  BY <3>5, <3>10, <3>13
      <4>2. n \in 4..7  BY <3>8, <4>1
      <4>3. \A k \in 0..(n - 2) : At(p, k) = "m"  BY <3>6, <3>8, <4>1
      <4> QED  BY <3>10, <3>16, <4>2, <4>3 DEF MethodStands
    <3> QED  BY <3>9, <3>10
  <2> HIDE DEF options, word
  <2> DEFINE u == [p EXCEPT !.line = l]
  <2>3. q = [u EXCEPT !.requestSize = n]  BY <1>1 DEF Parsers
  <2> HIDE DEF q, n
  <2>4. l \in RequestLines /\ l.options = options /\ l.querySize = 0  BY <1>1, <2>1 DEF RequestLines
  <2>5. u = [p EXCEPT !.line = l]  OBVIOUS
  <2> HIDE DEF l, u
  <2>6. InLine(u) /\ u.skipped = p.skipped /\ u.line = l  BY <2>2, <2>4, <2>5, LineSet
  <2>7. InLine(q) /\ q.skipped = p.skipped /\ q.line = l /\ q.requestSize = n  BY <2>2, <2>4, <2>3, <2>6, LineSized
  <2>10. MethodStands(q, q.requestSize, q.line.options)  BY <2>4, <2>7, <2>9, SameLine
  <2>8. Reads(q, r)  BY <1>5, <2>4, <2>7, <2>10, TargetParsed
  <2> QED  BY <2>7, <2>8 DEF Reads
<1> QED  BY <1>2, <1>3, <1>4, <1>5

\* What is left of the last request is skipped, and all that has been looked at of a line that has not arrived stays.
LEMMA RequestLineParsed ==
    ASSUME Sizes, NEW p, Stands(p), p.state = "RequestLine", NEW r, r = ParseRequestLine(p), r.status # "Failed"
    PROVE  Proceeds(p.skipped + Leftover(p), r)
<1> DEFINE n == Leftover(p)
           s == Skip(p, n)
           q == [s EXCEPT !.requestSize = 0, !.trailersSize = 0, !.line = NoLine, !.body = NoBody]
<1>1. p \in Parsers  BY DEF Stands
<1>2. n \in Nat
  <2>1. p.body.type \in {"NoBody", "NotChunked", "Chunked"} /\ PartEnd(p) \in Nat
        /\ p.requestSize \in Nat /\ p.trailersSize \in Nat
    BY <1>1, ParserTypes
  <2> QED  BY <2>1 DEF Leftover
<1>3. p.skipped + n <= arrived  BY DEF Stands, Reached
<1>4. r = ParseMethod(q)  BY DEF ParseRequestLine
<1> HIDE DEF n
<1>5. s \in Parsers /\ s.skipped = p.skipped + n /\ s.state = "RequestLine"  BY <1>1, <1>2, Skipped
<1> HIDE DEF s
<1>6. NoLine \in RequestLines /\ NoLine.querySize = 0  BY DEF NoLine, RequestLines
<1>7. NoBody \in Bodies /\ NoBody.type = "NoBody"  BY NoBodyIs
<1>8. q \in Parsers  BY <1>5, <1>6, <1>7 DEF Parsers
<1>9. q.skipped = s.skipped /\ q.state = s.state /\ q.body = NoBody /\ q.requestSize = 0 /\ q.line = NoLine
  BY <1>5 DEF Parsers
<1> HIDE DEF q
<1>10. InLine(q)  BY <1>3, <1>5, <1>7, <1>8, <1>9 DEF InLine
<1>11. Reads(q, r)  BY <1>4, <1>6, <1>9, <1>10, MethodParsed
<1> QED  BY <1>5, <1>9, <1>11 DEF Reads, n

-----------------------------------------------------------------------------
(* The body. *)

LEMMA HandsOverIs ==
    ASSUME NEW p
    PROVE  /\ HandsOver(p).parser = p
           /\ HandsOver(p).status = IF p.body.part > 0 THEN "ParsedBody" ELSE "NeedsMoreData"
  BY ResultIs DEF HandsOver

\* The body of a known size: what was handed over is skipped, and what has arrived of the rest is handed over.
LEMMA BodyParsed ==
    ASSUME Sizes, NEW p, Stands(p), p.state = "Body", NEW r, r = ParseBody(p)
    PROVE  Stands(r.parser) /\ Continues(p, r.parser, r.status)
<1> DEFINE gone == PartEnd(p)
           q == Skip(p, gone)
           avail == Available(q)
           n == Least(q.body.pending, avail)
           t == SetCurrentBodyPart(q, 0, n)
           size == t.requestSize + n
           s == IF q.body.pending <= avail THEN "RequestLine" ELSE t.state
           u == [t EXCEPT !.requestSize = @ + n, !.state = IF q.body.pending <= avail THEN "RequestLine" ELSE @]
<1>1. /\ p \in Parsers /\ p.skipped \in Nat /\ p.requestSize \in Nat /\ gone \in Nat
      /\ p.body.type = "NotChunked" /\ p.body.size \in Nat /\ p.body.pending \in Nat /\ p.body.pending > 0
      /\ p.body.size <= limits.maxBodySize /\ p.requestSize + p.body.pending <= limits.maxRequestSize
      /\ arrived \in Nat /\ limits.maxBodySize \in Nat /\ limits.maxRequestSize \in Nat
  BY ParserTypes, LimitTypes DEF Stands, InBody
<1>2. p.skipped + gone <= arrived
  <2>1. Reached(p) = gone  BY DEF Reached
  <2> QED  BY <2>1 DEF Stands
<1>3. r = HandsOver(u)  BY DEF ParseBody
<1> HIDE DEF gone
<1>4. /\ q \in Parsers /\ q.skipped = p.skipped + gone /\ q.state = "Body"
      /\ q.requestSize = p.requestSize /\ q.body = p.body
  <2>1. p \in Parsers /\ gone \in Nat  BY <1>1
  <2>2. /\ q \in Parsers /\ q.skipped = p.skipped + gone /\ q.state = p.state
        /\ q.requestSize = p.requestSize /\ q.body = p.body
    BY <2>1, Skipped
  <2> QED  BY <2>2
<1> HIDE DEF q
<1>5. avail \in Nat /\ avail = arrived - q.skipped  BY <1>1, <1>2, <1>4 DEF Available
<1> HIDE DEF avail
<1>6. /\ n \in Nat /\ n <= p.body.pending /\ n <= avail
      /\ p.body.pending <= avail => n = p.body.pending
      /\ ~(p.body.pending <= avail) => n = avail
  BY <1>1, <1>4, <1>5 DEF Least
<1> HIDE DEF n
<1>7. /\ t \in Parsers /\ t.state = "Body" /\ t.skipped = q.skipped /\ t.requestSize = p.requestSize
      /\ t.body.index = 0 /\ t.body.part = n /\ t.body.type = "NotChunked"
      /\ t.body.pending = p.body.pending - n /\ t.body.size = p.body.size
  <2>1. 0 \in Nat /\ n <= q.body.pending  BY <1>4, <1>6
  <2>2. /\ t \in Parsers /\ t.state = q.state /\ t.skipped = q.skipped /\ t.requestSize = q.requestSize
        /\ t.body.index = 0 /\ t.body.part = n /\ t.body.type = q.body.type
        /\ t.body.pending = q.body.pending - n
        /\ t.body.size = IF q.body.type = "Chunked" THEN q.body.size + n ELSE q.body.size
    BY <1>4, <1>6, <2>1, PartIsSet
  <2> HIDE DEF t
  <2>3. t.body.type = "NotChunked" /\ q.body.type # "Chunked"  BY <1>1, <1>4, <2>2
  <2> QED  BY <1>4, <2>2, <2>3
<1> HIDE DEF t
<1>8. size \in Nat /\ s \in States /\ size = p.requestSize + n
  <2>1. size \in Nat /\ size = p.requestSize + n  BY <1>1, <1>6, <1>7
  <2>2. s \in States  BY <1>7 DEF States
  <2> QED  BY <2>1, <2>2
<1>9. u = [t EXCEPT !.requestSize = size, !.state = s]  OBVIOUS
<1> HIDE DEF size, s, u
<1>10. /\ u \in Parsers /\ u.skipped = q.skipped /\ u.body = t.body /\ u.requestSize = size /\ u.state = s
  <2>1. u \in Parsers  BY <1>7, <1>8, <1>9 DEF Parsers
  <2>2. u.skipped = t.skipped /\ u.body = t.body /\ u.requestSize = size /\ u.state = s
    BY <1>7, <1>9 DEF Parsers
  <2> QED  BY <1>7, <2>1, <2>2
<1>11. r.parser = u /\ r.status = IF n > 0 THEN "ParsedBody" ELSE "NeedsMoreData"
  BY <1>3, <1>7, <1>10, HandsOverIs
<1>12. PartEnd(u) = n
  BY <1>6, <1>7, <1>10 DEF PartEnd
<1>13. u.skipped + n <= arrived  BY <1>1, <1>2, <1>4, <1>5, <1>6, <1>10
<1>14. CASE p.body.pending <= avail
  <2>1. s = "RequestLine" /\ n = p.body.pending /\ t.body.pending = 0
    <3>1. s = "RequestLine"  BY <1>4, <1>14 DEF s
    <3>2. n = p.body.pending  BY <1>6, <1>14
    <3> QED  BY <1>1, <1>7, <3>1, <3>2
  <2>2. Reached(u) = n
    <3>1. Reached(u) = Leftover(u)  BY <1>10, <2>1 DEF Reached
    <3> QED  BY <1>7, <1>10, <1>12, <3>1 DEF Leftover
  <2>3. Stands(u)
    BY <1>1, <1>7, <1>8, <1>10, <1>13, <2>1, <2>2 DEF Stands, InBody
  <2>4. Moves(p, u)
    <3>1. Reached(p) = gone  BY DEF Reached, gone
    <3> QED  BY <1>1, <1>4, <1>6, <1>8, <1>10, <2>2, <3>1 DEF Moves
  <2>5. r.status = "ParsedBody"  BY <1>1, <1>11, <2>1
  <2>6. Continues(p, u, r.status)
    BY <1>1, <1>4, <1>7, <1>10, <1>11, <2>1, <2>4, <2>5 DEF Continues, gone
  <2> QED  BY <1>11, <2>3, <2>6
<1>15. CASE ~(p.body.pending <= avail)
  <2>1. s = "Body" /\ n = avail /\ t.body.pending > 0
    <3>1. s = "Body"  BY <1>4, <1>7, <1>15 DEF s
    <3>2. n = avail  BY <1>6, <1>15
    <3> QED  BY <1>1, <1>5, <1>7, <1>15, <3>1, <3>2
  <2>2. Reached(u) = n  BY <1>10, <1>12, <2>1 DEF Reached
  <2>3. u.requestSize + u.body.pending = p.requestSize + p.body.pending  BY <1>1, <1>6, <1>7, <1>8, <1>10
  <2>4. u.requestSize <= limits.maxRequestSize + 2  BY <1>1, <1>6, <1>8, <1>10
  <2>5. Stands(u)
    BY <1>1, <1>7, <1>10, <1>13, <2>1, <2>2, <2>3, <2>4 DEF Stands, InBody
  <2>6. n + (p.body.pending - n) = p.body.pending  BY <1>1, <1>6
  <2>7. t.body.pending # 0  BY <1>1, <1>6, <1>7, <2>1
  <2>8. Moves(p, u)
    <3>1. Reached(p) = gone  BY DEF Reached, gone
    <3> QED  BY <1>1, <1>4, <1>6, <1>8, <1>10, <2>2, <3>1 DEF Moves
  <2>9. r.status = "NeedsMoreData" => Incomplete(u)
    <3> SUFFICES ASSUME r.status = "NeedsMoreData" PROVE Incomplete(u)  OBVIOUS
    <3>1. avail = 0  BY <1>6, <1>11, <2>1
    <3>2. Available(u) = 0  BY <1>5, <1>10, <3>1 DEF Available
    <3> QED  BY <1>10, <2>1, <3>2 DEF Incomplete
  <2>10. Continues(p, u, r.status)
    BY <1>1, <1>4, <1>7, <1>10, <1>11, <2>1, <2>6, <2>7, <2>8, <2>9 DEF Continues, gone
  <2> QED  BY <1>11, <2>5, <2>10
<1> QED  BY <1>14, <1>15

\* A chunk: what was handed over is skipped, and what has arrived of the rest is handed over, but for the last two bytes,
\* which may be those that end it.
LEMMA ChunkDataParsed ==
    ASSUME Sizes, NEW p, Stands(p), p.state = "ChunkData", NEW r, r = ParseChunkData(p), r.status # "Failed"
    PROVE  Stands(r.parser) /\ Continues(p, r.parser, r.status)
<1> DEFINE gone == PartEnd(p)
           k == Skip(p, gone)
           q == SetCurrentBodyPart(k, 0, 0)
           avail == Available(q)
           pending == q.body.pending
           all == pending + 2 <= avail
           n == IF all THEN pending ELSE avail - 2
           t == SetCurrentBodyPart(q, 0, n)
           size == t.requestSize + n + IF all THEN 2 ELSE 0
           taken == [t EXCEPT !.requestSize = @ + n + IF all THEN 2 ELSE 0]
           done == [taken EXCEPT !.state = "ChunkMetadata"]
<1>1. /\ p \in Parsers /\ p.skipped \in Nat /\ p.requestSize \in Nat /\ gone \in Nat
      /\ p.body.type = "Chunked" /\ p.body.size \in Nat /\ p.body.pending \in Nat /\ p.body.pending > 0
      /\ p.body.size + p.body.pending <= limits.maxBodySize
      /\ p.requestSize + p.body.pending + 2 <= limits.maxRequestSize
      /\ arrived \in Nat /\ limits.maxBodySize \in Nat /\ limits.maxRequestSize \in Nat
  BY ParserTypes, LimitTypes DEF Stands, InBody
<1>2. p.skipped + gone <= arrived
  <2>1. Reached(p) = gone  BY DEF Reached
  <2> QED  BY <2>1 DEF Stands
<1>3. r = IF avail < 3 THEN NeedsMoreData(q)
          ELSE IF ~all THEN HandsOver(taken)
          ELSE IF Slice(q, n, 2) = CRLF THEN HandsOver(done)
          ELSE Fail(taken, "MalformedRequest")
  BY DEF ParseChunkData
<1> HIDE DEF gone
<1>4. /\ k \in Parsers /\ k.skipped = p.skipped + gone /\ k.state = "ChunkData"
      /\ k.requestSize = p.requestSize /\ k.body = p.body
  <2>1. p \in Parsers /\ gone \in Nat  BY <1>1
  <2>2. /\ k \in Parsers /\ k.skipped = p.skipped + gone /\ k.state = p.state
        /\ k.requestSize = p.requestSize /\ k.body = p.body
    BY <2>1, Skipped
  <2> QED  BY <2>2
<1> HIDE DEF k
<1>5. /\ q \in Parsers /\ q.skipped = p.skipped + gone /\ q.state = "ChunkData"
      /\ q.requestSize = p.requestSize
      /\ q.body.index = 0 /\ q.body.part = 0 /\ q.body.type = "Chunked"
      /\ q.body.pending = p.body.pending /\ q.body.size = p.body.size
  <2>1. 0 \in Nat /\ 0 <= k.body.pending  BY <1>1, <1>4
  <2>2. /\ q \in Parsers /\ q.state = k.state /\ q.skipped = k.skipped /\ q.requestSize = k.requestSize
        /\ q.body.index = 0 /\ q.body.part = 0 /\ q.body.type = k.body.type
        /\ q.body.pending = k.body.pending - 0
        /\ q.body.size = IF k.body.type = "Chunked" THEN k.body.size + 0 ELSE k.body.size
    BY <1>4, <2>1, PartIsSet
  <2> HIDE DEF q
  <2>3. q.body.type = "Chunked" /\ k.body.type = "Chunked"  BY <1>1, <1>4, <2>2
  <2>4. q.body.pending = p.body.pending /\ q.body.size = p.body.size  BY <1>1, <1>4, <2>2, <2>3
  <2> QED  BY <1>4, <2>2, <2>3, <2>4
<1> HIDE DEF q
<1>6. avail \in Nat /\ avail = arrived - q.skipped  BY <1>1, <1>2, <1>5 DEF Available
<1> HIDE DEF avail
<1>7. pending \in Nat /\ pending > 0 /\ pending = p.body.pending  BY <1>1, <1>5
<1> HIDE DEF pending
<1>8. CASE avail < 3
  <2>1. r = NeedsMoreData(q)  BY <1>3, <1>8
  <2>2. r.parser = q /\ r.status = "NeedsMoreData"  BY <2>1, ResultIs DEF NeedsMoreData
  <2>3. Reached(q) = 0  BY <1>5 DEF Reached, PartEnd
  <2>4. q.skipped + 0 <= arrived  BY <1>1, <1>2, <1>5
  <2>5. Stands(q)
    BY <1>1, <1>5, <2>3, <2>4 DEF Stands, InBody
  <2>6. Moves(p, q)
    <3>1. Reached(p) = gone  BY DEF Reached, gone
    <3> QED  BY <1>1, <1>5, <2>3, <3>1 DEF Moves
  <2>7. Incomplete(q)
    <3>1. Available(q) <= 2  BY <1>6, <1>8 DEF avail
    <3> QED  BY <1>5, <3>1 DEF Incomplete
  <2>8. Continues(p, q, "NeedsMoreData")  BY <1>1, <1>5, <2>6, <2>7 DEF Continues, gone
  <2> QED  BY <2>2, <2>5, <2>8
<1>9. CASE ~(avail < 3)
  <2>1. n \in Nat /\ n > 0 /\ n <= pending /\ n + 2 <= avail /\ (~all => n < pending)  BY <1>6, <1>7, <1>9
  <2>2. /\ t \in Parsers /\ t.state = "ChunkData" /\ t.skipped = q.skipped /\ t.requestSize = p.requestSize
        /\ t.body.index = 0 /\ t.body.part = n /\ t.body.type = "Chunked"
        /\ t.body.pending = pending - n /\ t.body.size = p.body.size + n
    <3> HIDE DEF n
    <3>1. 0 \in Nat /\ n <= q.body.pending  BY <2>1 DEF pending
    <3>2. /\ t \in Parsers /\ t.state = q.state /\ t.skipped = q.skipped /\ t.requestSize = q.requestSize
          /\ t.body.index = 0 /\ t.body.part = n /\ t.body.type = q.body.type
          /\ t.body.pending = q.body.pending - n
          /\ t.body.size = IF q.body.type = "Chunked" THEN q.body.size + n ELSE q.body.size
      BY <1>5, <2>1, <3>1, PartIsSet
    <3> HIDE DEF t
    <3>3. t.body.type = "Chunked" /\ q.body.type = "Chunked"  BY <1>5, <3>2
    <3> QED  BY <1>5, <3>2, <3>3 DEF pending
  <2>3. size \in Nat /\ size = p.requestSize + n + (IF all THEN 2 ELSE 0)
    <3> HIDE DEF n, t
    <3>1. (IF all THEN 2 ELSE 0) \in Nat  OBVIOUS
    <3> HIDE DEF all
    <3> QED  BY <1>1, <2>1, <2>2, <3>1
  <2>4. taken = [t EXCEPT !.requestSize = size]  OBVIOUS
  <2>5. n <= pending /\ (all => n = pending)  BY <2>1
  <2> HIDE DEF n, t, size, taken
  <2>6. /\ taken \in Parsers /\ taken.skipped = t.skipped /\ taken.state = t.state
        /\ taken.requestSize = size /\ taken.body = t.body
    BY <2>2, <2>3, <2>4, SizeSet
  <2>7. taken.body.size <= limits.maxBodySize /\ taken.body.size + taken.body.pending <= limits.maxBodySize
    BY <1>1, <1>7, <2>1, <2>2, <2>6
  <2>8. CASE ~all
    <3>1. r = HandsOver(taken)  BY <1>3, <1>9, <2>8
    <3>2. r.parser = taken /\ r.status = "ParsedBody"  BY <2>1, <2>2, <2>6, <3>1, HandsOverIs
    <3>3. size = p.requestSize + n  BY <1>1, <2>1, <2>3, <2>8
    <3>4. taken.body.pending > 0 /\ taken.requestSize + taken.body.pending + 2 <= limits.maxRequestSize
      BY <1>1, <1>7, <2>1, <2>2, <2>6, <2>8, <3>3
    <3>5. taken.requestSize <= limits.maxRequestSize + 2  BY <1>1, <1>7, <2>1, <2>6, <3>3
    <3>6. PartEnd(taken) = n  BY <2>1, <2>2, <2>6 DEF PartEnd
    <3>7. Reached(taken) = n  BY <2>2, <2>6, <3>6 DEF Reached
    <3>8. taken.skipped + n <= arrived  BY <1>1, <1>2, <1>5, <1>6, <2>1, <2>2, <2>6
    <3>9. Stands(taken)
      BY <2>2, <2>6, <2>7, <3>4, <3>5, <3>7, <3>8 DEF Stands, InBody
    <3>10. Moves(p, taken)
      <4>1. Reached(p) = gone  BY DEF Reached, gone
      <4> QED  BY <1>1, <1>5, <2>1, <2>2, <2>6, <3>3, <3>7, <4>1 DEF Moves
    <3>11. Continues(p, taken, "ParsedBody")
      BY <1>1, <1>5, <2>1, <2>2, <2>6, <3>10 DEF Continues, gone
    <3> QED  BY <3>2, <3>9, <3>11
  <2>9. CASE all /\ Slice(q, n, 2) = CRLF
    <3>1. r = HandsOver(done)  BY <1>3, <1>9, <2>9
    <3>2. "ChunkMetadata" \in States  BY DEF States
    <3>3. /\ done \in Parsers /\ done.skipped = t.skipped /\ done.state = "ChunkMetadata"
          /\ done.requestSize = size /\ done.body = t.body
      BY <2>6, <3>2, StateSet
    <3> HIDE DEF done
    <3>4. r.parser = done /\ r.status = "ParsedBody"  BY <2>1, <2>2, <3>1, <3>3, HandsOverIs
    <3>5. size = p.requestSize + n + 2  BY <1>1, <2>1, <2>3, <2>9
    <3>6. done.requestSize <= limits.maxRequestSize + 2  BY <1>1, <1>7, <2>1, <3>3, <3>5
    <3>7. PartEnd(done) = n /\ done.body.part > 0  BY <2>1, <2>2, <3>3 DEF PartEnd
    <3>8. Reached(done) = n + 2  BY <3>3, <3>7 DEF Reached
    <3>9. done.skipped + (n + 2) <= arrived  BY <1>1, <1>2, <1>5, <1>6, <2>1, <2>2, <3>3
    <3>10. Stands(done)
      BY <2>2, <2>6, <2>7, <3>3, <3>6, <3>8, <3>9 DEF Stands, InBody
    <3>11. Moves(p, done)
      <4>1. Reached(p) = gone  BY DEF Reached, gone
      <4> QED  BY <1>1, <1>5, <2>1, <2>2, <3>3, <3>5, <3>8, <4>1 DEF Moves
    <3>12. Continues(p, done, "ParsedBody")
      BY <1>1, <1>5, <2>1, <2>2, <3>3, <3>11 DEF Continues, gone
    <3> QED  BY <3>4, <3>10, <3>12
  <2>10. CASE all /\ Slice(q, n, 2) # CRLF
    <3>1. r = Fail(taken, "MalformedRequest")  BY <1>3, <1>9, <2>10
    <3> QED  BY <3>1, FailedIs
  <2> QED  BY <2>8, <2>9, <2>10
<1> QED  BY <1>8, <1>9

\* What a look at the size of a chunk finds; one that is complete has arrived with the line break behind it.
LEMMA MetadataReads ==
    ASSUME Sizes, NEW p \in Parsers, p.skipped <= arrived, NEW m, m = ChunkMetadata(p)
    PROVE  /\ m.outcome \in {"MalformedRequest", "more", "data", "end", "trailers"}
           /\ m.outcome \in {"data", "end", "trailers"} => m.size \in Nat /\ m.size <= Available(p)
           /\ m.outcome = "data" => m.data \in Nat /\ m.data > 0
           /\ m.outcome = "more" => NoneArrived(p, 0, CRLF, 4)
<1> DEFINE avail == Available(p)
           digits == ScanTo(p, 0, avail - 1, Digits)
           i == ScanTo(p, digits, avail - 2, TextBytes)
           data == Number(Slice(p, 0, digits), 16)
<1>1. avail \in Nat
  <2>1. p.skipped \in Nat /\ arrived \in Nat  BY ParserTypes, LimitTypes
  <2> QED  BY <2>1 DEF Available
<1>2. \A o, d, s : /\ MetadataIs(o, d, s).outcome = o
                   /\ MetadataIs(o, d, s).data = d /\ MetadataIs(o, d, s).size = s
  BY DEF MetadataIs
<1>3. \/ /\ m = MetadataIs("more", 0, 0)
         /\ \/ avail < 3
            \/ ~(avail < 3) /\ digits \in 1..MaxSizeDigits /\ digits + 1 >= avail
            \/ ~(avail < 3) /\ digits \in 1..MaxSizeDigits /\ ~(digits + 1 >= avail) /\ i + 2 = avail /\ At(p, i) # "cr"
      \/ m = MetadataIs("MalformedRequest", 0, 0)
      \/ /\ m = AfterMetadata(p, i, data)
         /\ ~(avail < 3) /\ digits \in 1..MaxSizeDigits /\ ~(digits + 1 >= avail)
  <2>1. CASE avail < 3
    <3>1. ~(avail >= 3)
      <4> HIDE DEF avail, digits
      <4> QED  BY <1>1, <2>1
    <3>2. m = MetadataIs("more", 0, 0)  BY <2>1, <3>1 DEF ChunkMetadata
    <3> QED  BY <2>1, <3>2
  <2>2. CASE avail >= 3 /\ digits \notin 1..MaxSizeDigits
    <3>1. ~(avail < 3)
      <4> HIDE DEF avail, digits
      <4> QED  BY <1>1, <2>2
    <3>2. m = MetadataIs("MalformedRequest", 0, 0)  BY <2>2, <3>1 DEF ChunkMetadata
    <3> QED  BY <3>2
  <2>3. CASE avail >= 3 /\ digits \in 1..MaxSizeDigits /\ digits + 1 >= avail
    <3>1. ~(avail < 3)
      <4> HIDE DEF avail, digits
      <4> QED  BY <1>1, <2>3
    <3>2. m = MetadataIs("more", 0, 0)  BY <2>3, <3>1 DEF ChunkMetadata
    <3> QED  BY <2>3, <3>1, <3>2
  <2>4. CASE /\ ~(avail < 3) /\ digits \in 1..MaxSizeDigits /\ ~(digits + 1 >= avail)
    <3>1. m = IF Slice(p, i, 2) = CRLF THEN AfterMetadata(p, i, data)
              ELSE IF i + 2 = avail /\ At(p, i) # "cr" THEN MetadataIs("more", 0, 0)
              ELSE MetadataIs("MalformedRequest", 0, 0)
      BY <2>4 DEF ChunkMetadata
    <3> QED  BY <2>4, <3>1
  <2> HIDE DEF avail, digits
  <2> QED  BY <1>1, <2>1, <2>2, <2>3, <2>4
<1>4. CASE m = MetadataIs("MalformedRequest", 0, 0)
  BY <1>2, <1>4
<1> DEFINE scanned == /\ digits \in Nat /\ digits <= avail - 1
                      /\ \A k \in 0..(digits - 1) : At(p, k) \in Digits
           read == /\ i \in Nat /\ digits <= i /\ i <= avail - 2
                   /\ \A k \in digits..(i - 1) : At(p, k) \in TextBytes
<1>5. ~(avail < 3) /\ digits \in 1..MaxSizeDigits => scanned
  <2> SUFFICES ASSUME ~(avail < 3), digits \in 1..MaxSizeDigits PROVE scanned  OBVIOUS
  <2>1. avail - 1 \in Nat  BY <1>1
  <2> DEFINE last == avail - 1
             j == digits
  <2>2. j = ScanTo(p, 0, last, Digits)  OBVIOUS
  <2> HIDE DEF j, avail, last
  <2>3. last \in Nat /\ 0 \in Nat /\ 0 <= last  BY <2>1 DEF last
  <2>4. j \in Nat /\ j <= last /\ \A k \in 0..(j - 1) : At(p, k) \in Digits  BY <2>2, <2>3, ScanStops
  <2> QED  BY <2>4 DEF j, last
<1>6. ~(avail < 3) /\ digits \in 1..MaxSizeDigits /\ ~(digits + 1 >= avail) => read
  <2> SUFFICES ASSUME ~(avail < 3), digits \in 1..MaxSizeDigits, ~(digits + 1 >= avail) PROVE read  OBVIOUS
  <2>1. scanned  BY <1>5
  <2> DEFINE last == avail - 2
             d == digits
             j == i
  <2>2. j = ScanTo(p, d, last, TextBytes)  OBVIOUS
  <2> HIDE DEF j, avail, last, d, digits
  <2>3. d \in Nat /\ last \in Nat /\ d <= last  BY <1>1, <2>1 DEF d, last
  <2>4. j \in Nat /\ d <= j /\ j <= last /\ \A k \in d..(j - 1) : At(p, k) \in TextBytes  BY <2>2, <2>3, ScanStops
  <2> QED  BY <2>4 DEF j, last, d
<1>7. ASSUME NEW n, n \in Int, \A k \in 0..(n - 1) : At(p, k) # "cr", avail < n + 4
      PROVE  NoneArrived(p, 0, CRLF, 4)
  <2> SUFFICES ASSUME NEW k \in 0..(avail - 4), Slice(p, k, Len(CRLF)) = CRLF PROVE FALSE
    BY DEF NoneArrived
  <2>1. k \in 0..(n - 1) /\ k \in Int
    <3> HIDE DEF avail
    <3> QED  BY <1>1, <1>7
  <2> QED  BY <1>7, <2>1, BreakBegins
<1>8. CASE m = MetadataIs("more", 0, 0) /\ avail < 3
  <2>1. \A k \in 0..(0 - 1) : At(p, k) # "cr"  OBVIOUS
  <2>2. avail < 0 + 4
    <3> HIDE DEF avail
    <3> QED  BY <1>1, <1>8
  <2> HIDE DEF avail
  <2>3. NoneArrived(p, 0, CRLF, 4)  BY <1>7, <2>1, <2>2
  <2> QED  BY <1>2, <1>8, <2>3
<1>9. CASE m = MetadataIs("more", 0, 0) /\ ~(avail < 3) /\ digits \in 1..MaxSizeDigits /\ digits + 1 >= avail
  <2>1. scanned  BY <1>5, <1>9
  <2>2. \A k \in 0..(digits - 1) : At(p, k) # "cr"  BY <2>1, NoRuleAdmitsBreaks
  <2> HIDE DEF avail, digits
  <2>3. avail < digits + 4 /\ digits \in Int  BY <1>1, <1>9, <2>1
  <2>4. NoneArrived(p, 0, CRLF, 4)  BY <1>7, <2>2, <2>3
  <2> QED  BY <1>2, <1>9, <2>4
<1>10. ASSUME ~(avail < 3), digits \in 1..MaxSizeDigits, ~(digits + 1 >= avail)
      PROVE  i \in Nat /\ i <= avail - 2 /\ \A k \in 0..(i - 1) : At(p, k) # "cr"
  <2>1. scanned /\ read  BY <1>5, <1>6, <1>10
  <2> HIDE DEF avail, digits, i
  <2>2. \A k \in 0..(i - 1) : k \in 0..(digits - 1) \/ k \in digits..(i - 1)  BY <2>1
  <2> QED  BY <2>1, <2>2, NoRuleAdmitsBreaks
<1>11. CASE m = MetadataIs("more", 0, 0) /\ ~(avail < 3) /\ digits \in 1..MaxSizeDigits /\ ~(digits + 1 >= avail)
           /\ i + 2 = avail /\ At(p, i) # "cr"
  <2>1. i \in Nat /\ \A k \in 0..(i - 1) : At(p, k) # "cr"  BY <1>10, <1>11
  <2> HIDE DEF avail, digits, i
  <2>2. avail < i + 4 /\ i \in Int  BY <1>1, <1>11, <2>1
  <2>3. NoneArrived(p, 0, CRLF, 4)  BY <1>7, <2>1, <2>2
  <2> QED  BY <1>2, <1>11, <2>3
<1>12. CASE /\ m = AfterMetadata(p, i, data)
           /\ ~(avail < 3) /\ digits \in 1..MaxSizeDigits /\ ~(digits + 1 >= avail)
  <2>1. digits \in Nat /\ \A k \in 0..(digits - 1) : At(p, k) \in Digits  BY <1>12, <1>5
  <2>2. i \in Nat /\ i <= avail - 2 /\ \A k \in 0..(i - 1) : At(p, k) # "cr"  BY <1>12, <1>10
  <2>3. i + 2 \in Nat /\ i + 2 <= avail
    <3> HIDE DEF i, avail
    <3> QED  BY <1>1, <2>2
  <2>4. data \in Nat
    <3> DEFINE v == Slice(p, 0, digits)
    <3> HIDE DEF digits, avail
    <3>1. v = [k \in 1..digits |-> At(p, 0 + k - 1)]  BY DEF Slice
    <3>2. \A k \in 1..digits : At(p, 0 + k - 1) \in Digits
      <4> SUFFICES ASSUME NEW k \in 1..digits PROVE At(p, 0 + k - 1) \in Digits  OBVIOUS
      <4>1. 0 + k - 1 \in 0..(digits - 1)  BY <2>1
      <4> QED  BY <2>1, <4>1
    <3>3. v \in Seq(Digits)  BY <2>1, <3>1, <3>2, IsASeq
    <3>4. Range(v) \subseteq Digits
      <4>1. Len(v) \in Nat /\ DOMAIN v = 1..Len(v) /\ \A k \in 1..Len(v) : v[k] \in Digits
        BY <3>3, LenProperties, ElementOfSeq
      <4> QED  BY <4>1 DEF Range
    <3>5. 16 \in Nat  OBVIOUS
    <3> HIDE DEF v
    <3>6. Number(v, 16) \in Nat  BY <3>3, <3>4, <3>5, LengthType
    <3> QED  BY <3>6 DEF v
  <2> HIDE DEF data, i, avail, digits
  <2>5. CASE data > 0
    <3>1. m = MetadataIs("data", data, i + 2)  BY <1>12, <2>5 DEF AfterMetadata
    <3>2. m.outcome = "data" /\ m.data = data /\ m.size = i + 2  BY <1>2, <3>1
    <3> QED  BY <2>3, <2>4, <2>5, <3>2 DEF avail
  <2>6. CASE data = 0 /\ i + 4 > avail
    <3>1. ~(data > 0)  BY <2>6
    <3>2. m = MetadataIs("more", 0, 0)  BY <1>12, <2>6, <3>1 DEF AfterMetadata, avail
    <3>3. m.outcome = "more"  BY <1>2, <3>2
    <3>4. avail < i + 4 /\ i \in Int  BY <1>1, <2>2, <2>6
    <3>5. NoneArrived(p, 0, CRLF, 4)  BY <1>7, <2>2, <3>4
    <3> QED  BY <3>3, <3>5
  <2>7. CASE data = 0 /\ ~(i + 4 > avail)
    <3>1. ~(data > 0)  BY <2>7
    <3>2. m = IF Slice(p, i + 2, 2) = CRLF THEN MetadataIs("end", 0, i + 4) ELSE MetadataIs("trailers", 0, i + 2)
      BY <1>12, <2>7, <3>1 DEF AfterMetadata, avail
    <3>3. i + 4 \in Nat /\ i + 4 <= avail  BY <1>1, <2>2, <2>7
    <3>4. \/ m.outcome = "end" /\ m.size = i + 4
          \/ m.outcome = "trailers" /\ m.size = i + 2
      BY <1>2, <3>2
    <3> QED  BY <2>3, <3>3, <3>4 DEF avail
  <2> QED  BY <2>4, <2>5, <2>6, <2>7
<1> HIDE DEF avail, digits, i, data
<1> QED  BY <1>3, <1>4, <1>12, <1>8, <1>9, <1>11

LEMMA TrailersParsed ==
    ASSUME Sizes, NEW p, Stands(p), p.state = "Trailers", NEW r, r = ParseTrailers(p), r.status # "Failed"
    PROVE  /\ r.parser.skipped = p.skipped /\ r.parser.body = p.body /\ Stands(r.parser) /\ Moves(p, r.parser)
           /\ \/ r.status = "NeedsMoreData" /\ r.parser.state = "Trailers" /\ Incomplete(r.parser)
              \/ r.status = "ParsedRequest" /\ r.parser.state = "RequestLine" /\ BlockStands(r.parser)
<1>1. /\ p \in Parsers /\ p.skipped \in Nat /\ p.trailersSize \in Nat /\ arrived \in Nat
      /\ p.body.type = "Chunked" /\ p.body.index = 0 /\ p.body.part = 0 /\ p.body.size <= limits.maxBodySize
      /\ p.requestSize <= limits.maxRequestSize + 2
      /\ Len(p.block.lines) <= Least(MaxFieldLines, limits.maxTrailerLineCount)
      /\ LinesRead(p, p.trailersSize)
  BY ParserTypes, LimitTypes DEF Stands, InBody
<1>2. CASE p.trailersSize >= Available(p)
  <2>1. r = NeedsMoreData(p)  BY <1>2 DEF ParseTrailers
  <2>2. r.parser = p /\ r.status = "NeedsMoreData"  BY <2>1, ResultIs DEF NeedsMoreData
  <2>3. NoBlankLine(p, p.trailersSize)
    <3>1. Available(p) \in Int  BY <1>1 DEF Available
    <3>2. \A k \in p.trailersSize..(Available(p) - 4) : FALSE  BY <1>1, <1>2, <3>1
    <3>3. ~(p.trailersSize + 2 <= Available(p))  BY <1>1, <1>2, <3>1
    <3> QED  BY <3>2, <3>3 DEF NoBlankLine, NoneArrived
  <2>4. Incomplete(p)  BY <2>3 DEF Incomplete
  <2> QED  BY <2>2, <2>4 DEF Moves
<1>3. CASE ~(p.trailersSize >= Available(p))
  <2>1. r = Lines(p, limits.maxTrailerLineCount)  BY <1>3 DEF ParseTrailers
  <2>2. p.trailersSize < Available(p)  BY <1>1, <1>3 DEF Available
  <2>3. AtTrailer(p)  BY <1>1, <2>2 DEF AtTrailer
  <2> QED  BY <1>1, <2>1, <2>3, TrailersRead
<1> QED  BY <1>2, <1>3

\* What is read of the trailers hands over nothing.
LEMMA TrailersContinue ==
    ASSUME Sizes, NEW p, p \in Parsers, p.body.type = "Chunked",
           NEW q, Stands(q), q.state = "Trailers", q.body.type = "Chunked", q.body.size = p.body.size,
           q.skipped >= p.skipped + PartEnd(p), Moves(p, q),
           NEW r, r = ParseTrailers(q), r.status # "Failed"
    PROVE  Stands(r.parser) /\ Continues(p, r.parser, r.status)
<1>1. /\ r.parser.skipped = q.skipped /\ r.parser.body = q.body /\ Stands(r.parser) /\ Moves(q, r.parser)
      /\ \/ r.status = "NeedsMoreData" /\ r.parser.state = "Trailers" /\ Incomplete(r.parser)
         \/ r.status = "ParsedRequest" /\ r.parser.state = "RequestLine" /\ BlockStands(r.parser)
  BY TrailersParsed
<1>2. q.body.index = 0 /\ q.body.part = 0  BY DEF Stands
<1>3. p.body.size \in Nat  BY ParserTypes
<1>4. r.parser.body.size = p.body.size + r.parser.body.part  BY <1>1, <1>2, <1>3
<1>5. Moves(p, r.parser)
  <2>1. q \in Parsers /\ r.parser \in Parsers  BY <1>1 DEF Stands
  <2> QED  BY <1>1, <2>1, MovesOn
<1> QED  BY <1>1, <1>2, <1>4, <1>5 DEF Continues

\* The look at the size of the next chunk: nothing that has not arrived is skipped with it, and the chunk is not too big.
LEMMA ChunkMetadataParsed ==
    ASSUME Sizes, NEW p, Stands(p), p.state = "ChunkMetadata", NEW r, r = ParseChunkMetadata(p), r.status # "Failed"
    PROVE  Stands(r.parser) /\ Continues(p, r.parser, r.status)
<1> DEFINE at == Reached(p)
           gone == PartEnd(p) + IF p.body.part > 0 THEN 2 ELSE 0
           k == Skip(p, gone)
           t == SetCurrentBodyPart(k, 0, 0)
           q == [t EXCEPT !.block = Block(0)]
           meta == ChunkMetadata(q)
           size == q.requestSize + meta.size
           s == Skip(q, meta.size)
           read == [s EXCEPT !.requestSize = size, !.trailersSize = 0]
           fits == size <= limits.maxRequestSize /\ meta.size <= limits.maxChunkMetadataSize
           chunk == [read EXCEPT !.state = "ChunkData", !.body.pending = meta.data, !.body.index = 0, !.body.part = 0]
           done == [read EXCEPT !.state = "RequestLine"]
           trail == [read EXCEPT !.state = "Trailers"]
<1>1. /\ p \in Parsers /\ p.skipped \in Nat /\ p.requestSize \in Nat
      /\ p.requestSize <= limits.maxRequestSize + 2
      /\ p.body.type = "Chunked" /\ p.body.size \in Nat /\ p.body.pending \in Nat /\ p.body.part \in Nat
      /\ p.body.size <= limits.maxBodySize /\ PartEnd(p) \in Nat
      /\ arrived \in Nat /\ limits.maxBodySize \in Nat /\ limits.maxRequestSize \in Nat
      /\ limits.maxChunkMetadataSize \in Nat /\ limits.maxTrailerLineCount \in Nat
  BY ParserTypes, LimitTypes DEF Stands, InBody
<1>2. gone \in Nat /\ gone >= PartEnd(p) /\ p.skipped + gone <= arrived /\ at = gone
  <2>1. gone \in Nat /\ gone >= PartEnd(p)  BY <1>1
  <2>2. at = gone  BY DEF Reached
  <2> HIDE DEF gone
  <2> QED  BY <2>1, <2>2 DEF Stands
<1>3. \/ r = Fail(q, "MalformedRequest") \/ r = Fail(q, "TooBigRequest")
      \/ r = Fail(chunk, "TooBigRequest") \/ r = Fail(read, "TooBigRequest")
      \/ meta.outcome = "more" /\ r = NeedsMoreData(q)
      \/ /\ meta.outcome = "data" /\ r = ParseChunkData(chunk)
         /\ fits /\ size + meta.data + 2 <= limits.maxRequestSize /\ q.body.size + meta.data <= limits.maxBodySize
      \/ meta.outcome = "end" /\ fits /\ r = Result(done, "ParsedRequest")
      \/ meta.outcome = "trailers" /\ fits /\ r = ParseTrailers(trail)
      \/ meta.outcome \notin {"MalformedRequest", "more", "data", "end", "trailers"}
  <2> DEFINE R == \/ r = Fail(q, "MalformedRequest") \/ r = Fail(q, "TooBigRequest")
                  \/ r = Fail(chunk, "TooBigRequest") \/ r = Fail(read, "TooBigRequest")
  <2>1. meta.outcome = "MalformedRequest" => r = Fail(q, "MalformedRequest")
    BY ZenonT(40) DEF ParseChunkMetadata
  <2>2. meta.outcome = "more" => r = NeedsMoreData(q) \/ r = Fail(q, "TooBigRequest")
    BY ZenonT(40) DEF ParseChunkMetadata
  <2>3. meta.outcome = "data" =>
          \/ r = Fail(chunk, "TooBigRequest")
          \/ /\ r = ParseChunkData(chunk)
             /\ fits /\ size + meta.data + 2 <= limits.maxRequestSize /\ q.body.size + meta.data <= limits.maxBodySize
    BY ZenonT(40) DEF ParseChunkMetadata
  <2>4. meta.outcome = "end" => r = Fail(read, "TooBigRequest") \/ (fits /\ r = Result(done, "ParsedRequest"))
    BY ZenonT(40) DEF ParseChunkMetadata
  <2>5. meta.outcome = "trailers" => r = Fail(read, "TooBigRequest") \/ (fits /\ r = ParseTrailers(trail))
    BY ZenonT(40) DEF ParseChunkMetadata
  <2> HIDE DEF meta, q, chunk, read, done, trail, fits, size
  <2> QED  BY <2>1, <2>2, <2>3, <2>4, <2>5, SMTT(30)
<1> HIDE DEF gone, at
<1>4. /\ k \in Parsers /\ k.skipped = p.skipped + gone /\ k.state = p.state
      /\ k.requestSize = p.requestSize /\ k.body = p.body
  <2>1. p \in Parsers /\ gone \in Nat  BY <1>1, <1>2
  <2> QED  BY <2>1, Skipped
<1> HIDE DEF k
<1>5. /\ t \in Parsers /\ t.state = k.state /\ t.skipped = k.skipped /\ t.requestSize = k.requestSize
      /\ t.body.index = 0 /\ t.body.part = 0 /\ t.body.type = k.body.type
      /\ t.body.pending = k.body.pending - 0
      /\ t.body.size = IF k.body.type = "Chunked" THEN k.body.size + 0 ELSE k.body.size
  <2>1. 0 \in Nat /\ 0 <= k.body.pending  BY <1>1, <1>4
  <2> QED  BY <1>4, <2>1, PartIsSet
<1> HIDE DEF t
<1>6. t.body.type = "Chunked" /\ t.body.size = p.body.size  BY <1>1, <1>4, <1>5
<1>7. Block(0) \in Blocks /\ Len(Block(0).lines) = 0
  <2> DEFINE empty == [start |-> 0, lines |-> <<>>]
  <2>1. Block(0) = empty  BY DEF Block
  <2>2. empty.lines = <<>> /\ <<>> \in Seq([nameSize : Nat, valueSize : Nat])  BY EmptySeq
  <2>3. empty \in Blocks  BY <2>2 DEF Blocks
  <2>4. Len(empty.lines) = 0  BY <2>2, EmptySeq
  <2> QED  BY <2>1, <2>3, <2>4
<1>8. /\ q \in Parsers /\ q.state = "ChunkMetadata" /\ q.skipped = p.skipped + gone
      /\ q.requestSize = p.requestSize /\ q.body = t.body /\ q.block = Block(0)
  <2>1. q \in Parsers  BY <1>5, <1>7 DEF Parsers
  <2>2. q.state = t.state /\ q.skipped = t.skipped /\ q.requestSize = t.requestSize /\ q.body = t.body
        /\ q.block = Block(0)
    BY <1>5 DEF Parsers
  <2> QED  BY <1>4, <1>5, <2>1, <2>2
<1> HIDE DEF q
<1>9. /\ meta.outcome \in {"MalformedRequest", "more", "data", "end", "trailers"}
      /\ meta.outcome \in {"data", "end", "trailers"} => meta.size \in Nat /\ meta.size <= Available(q)
      /\ meta.outcome = "data" => meta.data \in Nat /\ meta.data > 0
      /\ meta.outcome = "more" => NoneArrived(q, 0, CRLF, 4)
  <2>1. q.skipped <= arrived  BY <1>2, <1>8
  <2> QED  BY <1>8, <2>1, MetadataReads
<1> HIDE DEF meta
<1>10. CASE meta.outcome = "more" /\ r = NeedsMoreData(q)
  <2>1. r.parser = q /\ r.status = "NeedsMoreData"  BY <1>10, ResultIs DEF NeedsMoreData
  <2>2. PartEnd(q) = 0 /\ ~(q.body.part > 0)  BY <1>5, <1>8 DEF PartEnd
  <2>3. Reached(q) = 0  BY <1>8, <2>2 DEF Reached
  <2>4. q.skipped + 0 <= arrived /\ q.skipped >= p.skipped + PartEnd(p)  BY <1>1, <1>2, <1>8
  <2>5. Stands(q)
    BY <1>1, <1>6, <1>8, <2>3, <2>4 DEF Stands, InBody
  <2>6. q.body.type = "Chunked" /\ q.body.index = 0 /\ q.body.part = 0 /\ q.body.size = p.body.size + q.body.part
    BY <1>1, <1>5, <1>6, <1>8
  <2>7. Moves(p, q)  BY <1>1, <1>2, <1>8, <2>3 DEF Moves, at
  <2>8. Incomplete(q)  BY <1>8, <1>9, <1>10 DEF Incomplete
  <2>9. Continues(p, q, "NeedsMoreData")
    BY <1>1, <1>8, <2>4, <2>6, <2>7, <2>8 DEF Continues
  <2> QED  BY <2>1, <2>5, <2>9
<1>11. ASSUME meta.outcome \in {"data", "end", "trailers"}, fits
       PROVE  /\ read \in Parsers /\ read.skipped \in Nat /\ read.skipped <= arrived
              /\ read.skipped >= p.skipped + PartEnd(p)
              /\ read.requestSize = size /\ size \in Nat /\ size <= limits.maxRequestSize
              /\ read.skipped + p.requestSize = p.skipped + at + size
              /\ read.trailersSize = 0 /\ read.body = t.body /\ read.block = Block(0)
  <2>1. meta.size \in Nat /\ meta.size <= Available(q)  BY <1>9, <1>11
  <2>2. size \in Nat  BY <1>1, <1>8, <2>1
  <2>3. size <= limits.maxRequestSize /\ size = p.requestSize + meta.size  BY <1>8, <1>11
  <2> HIDE DEF size
  <2>4. /\ s \in Parsers /\ s.skipped = q.skipped + meta.size /\ s.body = q.body /\ s.block = q.block
    BY <1>8, <2>1, Skipped
  <2> HIDE DEF s
  <2>5. read \in Parsers  BY <2>2, <2>4 DEF Parsers
  <2>6. /\ read.skipped = s.skipped /\ read.requestSize = size /\ read.trailersSize = 0
        /\ read.body = s.body /\ read.block = s.block
    BY <2>2, <2>4 DEF Parsers
  <2>7. s.skipped \in Nat /\ s.skipped <= arrived /\ s.skipped >= p.skipped + PartEnd(p)
    <3>1. q.skipped \in Nat  BY <1>1, <1>2, <1>8
    <3>2. meta.size <= arrived - q.skipped  BY <2>1 DEF Available
    <3> QED  BY <1>1, <1>2, <1>8, <2>1, <2>4, <3>1, <3>2
  <2>8. s.skipped + p.requestSize = p.skipped + at + size  BY <1>1, <1>2, <1>8, <2>1, <2>3, <2>4
  <2> QED  BY <1>8, <2>2, <2>3, <2>4, <2>5, <2>6, <2>7, <2>8
<1>12. CASE /\ meta.outcome = "data" /\ r = ParseChunkData(chunk)
            /\ fits /\ size + meta.data + 2 <= limits.maxRequestSize /\ q.body.size + meta.data <= limits.maxBodySize
  <2>1. /\ read \in Parsers /\ read.skipped \in Nat /\ read.skipped <= arrived
        /\ read.skipped >= p.skipped + PartEnd(p)
        /\ read.requestSize = size /\ size \in Nat /\ size <= limits.maxRequestSize
        /\ read.skipped + p.requestSize = p.skipped + at + size
        /\ read.body = t.body
    BY <1>11, <1>12
  <2>2. size + meta.data + 2 <= limits.maxRequestSize /\ t.body.size + meta.data <= limits.maxBodySize
    BY <1>8, <1>12
  <2>3. meta.data \in Nat /\ meta.data > 0  BY <1>9, <1>12
  <2> HIDE DEF size, read
  <2> DEFINE b == [read.body EXCEPT !.pending = meta.data, !.index = 0, !.part = 0]
  <2>4. chunk = [read EXCEPT !.state = "ChunkData", !.body = b]  BY <2>1 DEF Parsers
  <2>5. /\ b \in Bodies /\ b.type = "Chunked" /\ b.size = p.body.size
        /\ b.pending = meta.data /\ b.index = 0 /\ b.part = 0
    <3>1. read.body \in Bodies  BY <2>1 DEF Parsers
    <3>2. b \in Bodies  BY <2>3, <3>1 DEF Bodies
    <3>3. /\ b.type = read.body.type /\ b.size = read.body.size
          /\ b.pending = meta.data /\ b.index = 0 /\ b.part = 0
      BY <3>1 DEF Bodies
    <3> QED  BY <1>6, <2>1, <3>2, <3>3
  <2> HIDE DEF b, chunk
  <2>6. "ChunkData" \in States  BY DEF States
  <2>7. chunk \in Parsers  BY <2>1, <2>4, <2>5, <2>6 DEF Parsers
  <2>8. /\ chunk.state = "ChunkData" /\ chunk.body = b /\ chunk.skipped = read.skipped
        /\ chunk.requestSize = size
    <3>1. /\ chunk.state = "ChunkData" /\ chunk.body = b /\ chunk.skipped = read.skipped
          /\ chunk.requestSize = read.requestSize
      BY <2>1, <2>4 DEF Parsers
    <3> QED  BY <2>1, <3>1
  <2>9. PartEnd(chunk) = 0  BY <2>5, <2>8 DEF PartEnd
  <2>10. Reached(chunk) = 0  BY <2>8, <2>9 DEF Reached
  <2>11. chunk.body.size <= limits.maxBodySize  BY <1>1, <2>5, <2>8
  <2>12. chunk.requestSize <= limits.maxRequestSize + 2 /\ chunk.skipped + 0 <= arrived  BY <1>1, <2>1, <2>8
  <2>13. /\ chunk.body.pending > 0
         /\ chunk.requestSize + chunk.body.pending + 2 <= limits.maxRequestSize
         /\ chunk.body.size + chunk.body.pending <= limits.maxBodySize
    BY <1>6, <2>2, <2>3, <2>5, <2>8
  <2>14. Stands(chunk)
    BY <2>5, <2>7, <2>8, <2>10, <2>11, <2>12, <2>13 DEF Stands, InBody
  <2>15. Stands(r.parser) /\ Continues(chunk, r.parser, r.status)
    BY <1>12, <2>8, <2>14, ChunkDataParsed
  <2>16. chunk.body.type = "Chunked" /\ chunk.body.size = p.body.size  BY <2>5, <2>8
  <2>17. r.parser.skipped >= p.skipped + PartEnd(p)
    <3>1. r.parser.skipped >= chunk.skipped + PartEnd(chunk) /\ r.parser.skipped \in Nat
      BY <2>15, ParserTypes DEF Continues, Stands
    <3> QED  BY <1>1, <2>1, <2>8, <2>9, <3>1
  <2>18. Moves(p, r.parser)
    <3>1. Moves(p, chunk)  BY <1>1, <2>1, <2>8, <2>10 DEF Moves, at
    <3>2. Moves(chunk, r.parser) /\ r.parser \in Parsers  BY <2>15 DEF Continues, Stands
    <3> QED  BY <1>1, <2>7, <3>1, <3>2, MovesOn
  <2>19. Continues(p, r.parser, r.status)
    BY <1>1, <2>15, <2>16, <2>17, <2>18 DEF Continues
  <2> QED  BY <2>15, <2>19
<1>13. CASE meta.outcome = "end" /\ fits /\ r = Result(done, "ParsedRequest")
  <2>1. /\ read \in Parsers /\ read.skipped \in Nat /\ read.skipped <= arrived
        /\ read.skipped >= p.skipped + PartEnd(p)
        /\ read.requestSize = size /\ size \in Nat /\ size <= limits.maxRequestSize
        /\ read.skipped + p.requestSize = p.skipped + at + size
        /\ read.trailersSize = 0 /\ read.body = t.body /\ read.block = Block(0)
    BY <1>11, <1>13
  <2> HIDE DEF size, read
  <2>2. "RequestLine" \in States  BY DEF States
  <2>3. /\ done \in Parsers /\ done.skipped = read.skipped /\ done.state = "RequestLine"
        /\ done.requestSize = size /\ done.trailersSize = 0 /\ done.body = t.body /\ done.block = Block(0)
    <3>1. /\ done \in Parsers /\ done.skipped = read.skipped /\ done.state = "RequestLine"
          /\ done.requestSize = read.requestSize /\ done.trailersSize = read.trailersSize /\ done.body = read.body
          /\ done.block = read.block
      BY <2>1, <2>2, StateSet
    <3> QED  BY <2>1, <3>1
  <2> HIDE DEF done
  <2>4. r.parser = done /\ r.status = "ParsedRequest"  BY <1>13, ResultIs
  <2>5. Reached(done) = 0
    <3>1. Reached(done) = Leftover(done)  BY <2>3 DEF Reached
    <3> QED  BY <1>6, <2>3, <3>1 DEF Leftover
  <2>6. done.skipped + 0 <= arrived /\ done.requestSize <= limits.maxRequestSize + 2  BY <1>1, <2>1, <2>3
  <2>7. Stands(done)
    BY <1>1, <1>6, <2>3, <2>5, <2>6 DEF Stands, InBody
  <2>8. done.body.type = "Chunked" /\ done.body.index = 0 /\ done.body.part = 0 /\ done.body.size = p.body.size + done.body.part
    BY <1>1, <1>5, <1>6, <2>3
  <2>9. Moves(p, done)  BY <1>1, <2>1, <2>3, <2>5 DEF Moves, at
  <2>10. Continues(p, done, "ParsedRequest")
    BY <1>1, <2>1, <2>3, <2>8, <2>9, EmptyBlockStands DEF Continues
  <2> QED  BY <2>4, <2>7, <2>10
<1>14. CASE meta.outcome = "trailers" /\ fits /\ r = ParseTrailers(trail)
  <2>1. /\ read \in Parsers /\ read.skipped \in Nat /\ read.skipped <= arrived
        /\ read.skipped >= p.skipped + PartEnd(p)
        /\ read.requestSize = size /\ size \in Nat /\ size <= limits.maxRequestSize
        /\ read.skipped + p.requestSize = p.skipped + at + size
        /\ read.trailersSize = 0 /\ read.body = t.body /\ read.block = Block(0)
    BY <1>11, <1>14
  <2> HIDE DEF size, read
  <2>2. "Trailers" \in States  BY DEF States
  <2>3. /\ trail \in Parsers /\ trail.skipped = read.skipped /\ trail.state = "Trailers"
        /\ trail.requestSize = size /\ trail.trailersSize = 0 /\ trail.body = t.body /\ trail.block = Block(0)
    <3>1. /\ trail \in Parsers /\ trail.skipped = read.skipped /\ trail.state = "Trailers"
          /\ trail.requestSize = read.requestSize /\ trail.trailersSize = read.trailersSize
          /\ trail.body = read.body /\ trail.block = read.block
      BY <2>1, <2>2, StateSet
    <3> QED  BY <2>1, <3>1
  <2> HIDE DEF trail
  <2>4. Reached(trail) = 0  BY <2>3 DEF Reached
  <2>5. /\ trail.skipped + 0 <= arrived /\ trail.requestSize <= limits.maxRequestSize + 2
        /\ trail.trailersSize <= Available(trail)
    BY <1>1, <2>1, <2>3 DEF Available
  <2>6. Len(trail.block.lines) <= Least(MaxFieldLines, limits.maxTrailerLineCount)
    <3>1. MaxFieldLines \in Nat  BY DEF MaxFieldLines
    <3>2. Least(MaxFieldLines, limits.maxTrailerLineCount) \in Nat  BY <1>1, <3>1, LeastType
    <3>3. Len(trail.block.lines) = 0  BY <1>7, <2>3
    <3> QED  BY <3>2, <3>3
  <2>7. /\ trail.body.type = "Chunked" /\ trail.body.index = 0 /\ trail.body.part = 0
        /\ trail.body.size = p.body.size /\ trail.body.size <= limits.maxBodySize
    BY <1>1, <1>5, <1>6, <2>3
  <2>8. LinesRead(trail, trail.trailersSize)
    <3>1. Len(trail.block.lines) = 0 /\ trail.block.start = 0  BY <1>7, <2>3 DEF Block
    <3> QED  BY <2>3, <3>1, NoLineRead
  <2>9. Stands(trail)
    BY <2>3, <2>4, <2>5, <2>6, <2>7, <2>8 DEF Stands, InBody
  <2>10. trail.skipped >= p.skipped + PartEnd(p)  BY <2>1, <2>3
  <2>11. Moves(p, trail)  BY <1>1, <2>1, <2>3, <2>4 DEF Moves, at
  <2> QED  BY <1>1, <1>14, <2>3, <2>7, <2>9, <2>10, <2>11, TrailersContinue
<1>15. CASE \/ r = Fail(q, "MalformedRequest") \/ r = Fail(q, "TooBigRequest")
            \/ r = Fail(chunk, "TooBigRequest") \/ r = Fail(read, "TooBigRequest")
  BY <1>15, FailedIs
<1> QED
  <2> HIDE DEF chunk, read, done, trail, fits, size
  <2> QED  BY <1>3, <1>9, <1>10, <1>12, <1>13, <1>14, <1>15

-----------------------------------------------------------------------------
(* What was handed over. *)

\* The bytes at these places of the stream have arrived, and are in its order.
Ordered(h) ==
    /\ h \in Seq(Nat)
    /\ \A i \in 1..Len(h) : h[i] <= arrived /\ \A j \in 1..(i - 1) : h[j] < h[i]

\* While the body is under way: nothing was handed over beyond where the parser stands, and the body is as long as it says.
UnderWay(p, h) ==
    /\ \A i \in 1..Len(h) : h[i] <= p.skipped + PartEnd(p)
    /\ p.body.type = "Chunked" => Len(h) = p.body.size
    /\ p.body.type = "NotChunked" =>
          /\ Len(h) + p.body.pending = p.body.size
          /\ \A i \in 1..Len(h) : h[i] = (p.skipped + PartEnd(p)) - Len(h) + i

\* What the handler is told of a body, which is under way or not.
Reported(p, h, under) ==
    CASE p.body.type = "NoBody"     -> Len(h) = 0 /\ ~under
      [] p.body.type = "Chunked"    -> Len(h) = p.body.size
      [] p.body.type = "NotChunked" ->
           /\ Len(h) + p.body.pending = p.body.size
           /\ under <=> Len(h) < p.body.size
           /\ \A i \in 1..Len(h) : h[i] = h[1] + i - 1

Kept(p, h) == Ordered(h) /\ Len(h) <= limits.maxBodySize /\ (InBody(p) => UnderWay(p, h))

LEMMA SameInterval ==
    ASSUME NEW m \in Nat, NEW n \in Nat, 1..m = 1..n
    PROVE  m = n
<1>1. CASE m < n
  <2>1. n \in 1..n /\ n \notin 1..m  BY <1>1
  <2> QED  BY <2>1
<1>2. CASE n < m
  <2>1. m \in 1..m /\ m \notin 1..n  BY <1>2
  <2> QED  BY <2>1
<1> QED  BY <1>1, <1>2

LEMMA PartIs ==
    ASSUME NEW p \in Parsers
    PROVE  /\ Part(p) \in Seq(Nat) /\ Len(Part(p)) = p.body.part
           /\ \A i \in 1..p.body.part : Part(p)[i] = p.skipped + p.body.index + i
<1>1. p.skipped \in Nat /\ p.body.index \in Nat /\ p.body.part \in Nat  BY ParserTypes
<1> DEFINE n == p.body.part
           from == p.skipped + p.body.index
           h == [i \in 1..n |-> from + i]
<1>2. n \in Nat /\ from \in Nat  BY <1>1
<1>3. Part(p) = h  BY DEF Part
<1> HIDE DEF n, from
<1>4. \A i \in 1..n : from + i \in Nat  BY <1>2
<1>5. h \in Seq(Nat)  BY <1>2, <1>4, IsASeq
<1>6. DOMAIN h = 1..n /\ \A i \in 1..n : h[i] = from + i  OBVIOUS
<1> HIDE DEF h
<1>7. Len(h) \in Nat /\ DOMAIN h = 1..Len(h)  BY <1>5, LenProperties
<1>8. Len(h) = n  BY <1>2, <1>6, <1>7, SameInterval
<1> QED  BY <1>3, <1>5, <1>6, <1>8 DEF n, from

\* What can be read of the body has arrived.
LEMMA PartHasArrived ==
    ASSUME Sizes, NEW q, Stands(q), InBody(q) \/ q.body.type = "NotChunked", q.state \in {"RequestLine", "Body", "ChunkMetadata", "ChunkData"}
    PROVE  q.skipped + PartEnd(q) <= arrived
<1>1. q.skipped \in Nat /\ PartEnd(q) \in Nat /\ q.body.part \in Nat /\ arrived \in Nat /\ q.skipped + Reached(q) <= arrived
  BY ParserTypes, LimitTypes DEF Stands
<1>2. CASE q.state = "RequestLine"
  <2>1. q.body.type = "NotChunked"  BY <1>2 DEF InBody
  <2>2. Reached(q) = PartEnd(q)
    <3>1. Reached(q) = Leftover(q)  BY <1>2 DEF Reached
    <3> QED  BY <2>1, <3>1 DEF Leftover
  <2> QED  BY <1>1, <2>2
<1>3. CASE q.state \in {"Body", "ChunkData"}
  <2>1. Reached(q) = PartEnd(q)  BY <1>3 DEF Reached
  <2> QED  BY <1>1, <2>1
<1>4. CASE q.state = "ChunkMetadata"
  <2>1. Reached(q) = PartEnd(q) + IF q.body.part > 0 THEN 2 ELSE 0  BY <1>4 DEF Reached
  <2>2. Reached(q) = PartEnd(q) + 2 \/ Reached(q) = PartEnd(q) + 0  BY <2>1
  <2> QED  BY <1>1, <2>2
<1> QED  BY <1>2, <1>3, <1>4

\* A request that begins hands over what has arrived of its body, and is complete when that is all of it.
LEMMA RequestBegins ==
    ASSUME Sizes, NEW q, Stands(q), Opens(q), NEW h, h = Part(q)
    PROVE  /\ Kept(q, h) /\ Reported(q, h, InBody(q))
           /\ InBody(q) <=> q.body.type = "Chunked" \/ (q.body.type = "NotChunked" /\ q.body.pending # 0)
<1>1. /\ q \in Parsers /\ q.skipped \in Nat /\ PartEnd(q) = q.body.index + q.body.part
      /\ q.body.type \in {"NoBody", "NotChunked", "Chunked"}
      /\ q.body.size \in Nat /\ q.body.pending \in Nat /\ q.body.index \in Nat /\ q.body.part \in Nat
      /\ arrived \in Nat /\ limits.maxBodySize \in Nat
  BY ParserTypes, LimitTypes DEF Stands, PartEnd
<1>2. /\ h \in Seq(Nat) /\ Len(h) = q.body.part
      /\ \A i \in 1..q.body.part : h[i] = q.skipped + q.body.index + i
  BY <1>1, PartIs
<1>3. Ordered(h) \/ q.body.part # 0
  <2> SUFFICES ASSUME q.body.part = 0 PROVE Ordered(h)  OBVIOUS
  <2>1. Len(h) = 0  BY <1>2
  <2> QED  BY <1>2, <2>1 DEF Ordered
<1>4. CASE q.body.type = "NoBody"
  <2>1. q.state = "RequestLine" /\ q.body.part = 0  BY <1>4 DEF Opens
  <2>2. ~InBody(q)  BY <2>1 DEF InBody
  <2>3. Len(h) = 0  BY <1>2, <2>1
  <2>4. Kept(q, h)  BY <1>1, <1>3, <2>1, <2>2, <2>3 DEF Kept
  <2>5. Reported(q, h, InBody(q))  BY <1>4, <2>2, <2>3 DEF Reported
  <2> QED  BY <1>4, <2>2, <2>4, <2>5
<1>5. CASE q.body.type = "Chunked"
  <2>1. q.state = "ChunkMetadata" /\ q.body.part = 0 /\ q.body.size = 0  BY <1>5 DEF Opens
  <2>2. InBody(q)  BY <2>1 DEF InBody
  <2>3. Len(h) = 0  BY <1>2, <2>1
  <2>4. UnderWay(q, h)
    <3>1. 1..Len(h) = {}  BY <2>3
    <3>2. Len(h) = q.body.size  BY <2>1, <2>3
    <3> QED  BY <1>5, <3>1, <3>2 DEF UnderWay
  <2>5. Kept(q, h)  BY <1>1, <1>3, <2>1, <2>3, <2>4 DEF Kept
  <2>6. Reported(q, h, InBody(q))  BY <1>5, <2>1, <2>3 DEF Reported
  <2> QED  BY <1>5, <2>2, <2>5, <2>6
<1>6. CASE q.body.type = "NotChunked"
  <2>1. q.state \in {"RequestLine", "Body"} /\ q.body.part + q.body.pending = q.body.size  BY <1>6 DEF Opens
  <2>2. q.skipped + PartEnd(q) <= arrived  BY <1>6, <2>1, PartHasArrived
  <2>3. InBody(q) <=> q.state = "Body"  BY <2>1 DEF InBody
  <2>4. InBody(q) <=> q.body.pending # 0
    <3>1. q.state = "Body" => q.body.pending > 0  BY DEF Stands
    <3>2. q.state = "RequestLine" => q.body.pending = 0  BY <1>6 DEF Stands
    <3> QED  BY <1>1, <2>1, <2>3, <3>1, <3>2
  <2>5. q.body.size <= limits.maxBodySize  BY <1>6, <2>1 DEF Stands, InBody
  <2> DEFINE n == Len(h)
             from == q.skipped + q.body.index
  <2>6. /\ n \in Nat /\ from \in Nat /\ n = q.body.part
        /\ \A i \in 1..n : h[i] = from + i
        /\ from + n <= arrived /\ q.skipped + PartEnd(q) = from + n
    BY <1>1, <1>2, <2>2, SMTT(30)
  <2>7. n <= limits.maxBodySize /\ n + q.body.pending = q.body.size  BY <1>1, <2>1, <2>5, <2>6
  <2> HIDE DEF from
  <2>8. Ordered(h)
    <3> HIDE DEF n
    <3>1. \A i \in 1..n : h[i] <= arrived /\ \A j \in 1..(i - 1) : h[j] < h[i]
      <4> SUFFICES ASSUME NEW i \in 1..n
                   PROVE  h[i] <= arrived /\ \A j \in 1..(i - 1) : h[j] < h[i]
        OBVIOUS
      <4>1. h[i] = from + i /\ \A j \in 1..(i - 1) : h[j] = from + j  BY <2>6
      <4> QED  BY <1>1, <2>6, <4>1
    <3> QED  BY <1>2, <3>1 DEF Ordered, n
  <2>9. UnderWay(q, h)
    <3> DEFINE end == q.skipped + PartEnd(q)
    <3>1. end = from + n  BY <2>6
    <3> HIDE DEF end, n
    <3>2. \A i \in 1..n : h[i] <= end  BY <2>6, <3>1
    <3>3. \A i \in 1..n : h[i] = end - n + i  BY <2>6, <3>1
    <3> QED  BY <1>6, <2>7, <3>2, <3>3 DEF UnderWay, end, n
  <2>10. Kept(q, h)  BY <2>7, <2>8, <2>9 DEF Kept
  <2>11. Reported(q, h, InBody(q))
    <3> HIDE DEF n
    <3>1. \A i \in 1..n : h[i] = h[1] + i - 1
      <4> SUFFICES ASSUME NEW i \in 1..n PROVE h[i] = h[1] + i - 1  OBVIOUS
      <4>1. 1 \in 1..n  BY <2>6
      <4>2. h[i] = from + i /\ h[1] = from + 1  BY <2>6, <4>1
      <4> QED  BY <2>6, <4>2
    <3>2. InBody(q) <=> n < q.body.size  BY <1>1, <2>4, <2>6, <2>7
    <3> QED  BY <1>6, <2>7, <3>1, <3>2 DEF Reported, n
  <2> QED  BY <1>6, <2>4, <2>10, <2>11
<1> QED  BY <1>1, <1>4, <1>5, <1>6

\* A part of a body that is handed over goes on where the last one ended.
LEMMA BodyGrows ==
    ASSUME Sizes, NEW p, Stands(p), InBody(p), NEW h, Kept(p, h),
           NEW q, Stands(q), Continues(p, q, "ParsedBody"), NEW g, g = h \o Part(q)
    PROVE  /\ Kept(q, g) /\ Reported(q, g, InBody(q))
           /\ InBody(q) <=> q.body.type = "Chunked" \/ (q.body.type = "NotChunked" /\ q.body.pending # 0)
<1> DEFINE a == Len(h)
           b == q.body.part
           stop == p.skipped + PartEnd(p)
           from == q.skipped
<1>1. /\ p \in Parsers /\ p.skipped \in Nat /\ PartEnd(p) \in Nat /\ p.body.size \in Nat /\ p.body.pending \in Nat
      /\ q \in Parsers /\ from \in Nat /\ b \in Nat /\ q.body.size \in Nat /\ q.body.pending \in Nat
      /\ arrived \in Nat /\ limits.maxBodySize \in Nat
  BY ParserTypes, LimitTypes DEF Stands
<1>2. /\ q.body.index = 0 /\ q.body.type = p.body.type /\ from >= stop
      /\ p.body.type = "NotChunked" => from = stop
  BY DEF Continues
<1>3. p.body.type = "Chunked" \/ (p.body.type = "NotChunked" /\ p.state = "Body")  BY DEF Stands, InBody
<1>4. PartEnd(q) = b  BY <1>1, <1>2 DEF PartEnd
<1>5. q.state \in {"RequestLine", "Body", "ChunkMetadata", "ChunkData"} /\ (q.state = "RequestLine" => q.body.type = "NotChunked")
  BY <1>2, <1>3 DEF Continues
<1>6. from + b <= arrived
  <2>1. InBody(q) \/ q.body.type = "NotChunked"  BY <1>5 DEF InBody
  <2> QED  BY <1>4, <1>5, <2>1, PartHasArrived
<1>7. UnderWay(p, h) /\ Ordered(h)  BY DEF Kept
<1>8. /\ Part(q) \in Seq(Nat) /\ Len(Part(q)) = b
      /\ \A i \in 1..b : Part(q)[i] = from + i
  <2>1. /\ Part(q) \in Seq(Nat) /\ Len(Part(q)) = q.body.part
        /\ \A i \in 1..q.body.part : Part(q)[i] = q.skipped + q.body.index + i
    BY <1>1, PartIs
  <2>2. \A i \in 1..b : Part(q)[i] = from + 0 + i  BY <1>2, <2>1
  <2> HIDE DEF from, b
  <2>3. \A i \in 1..b : Part(q)[i] = from + i  BY <1>1, <2>2
  <2> QED  BY <2>1, <2>3 DEF b
<1>9. h \in Seq(Nat) /\ a \in Nat /\ \A i \in 1..a : h[i] \in Nat /\ h[i] <= stop
  <2>1. h \in Seq(Nat)  BY <1>7 DEF Ordered
  <2>2. a \in Nat  BY <2>1, LenProperties
  <2>3. \A i \in 1..a : h[i] \in Nat  BY <2>1, ElementOfSeq
  <2> QED  BY <1>7, <2>1, <2>2, <2>3 DEF UnderWay
<1>10. /\ g \in Seq(Nat) /\ Len(g) = a + b
       /\ \A i \in 1..(a + b) : g[i] = IF i <= a THEN h[i] ELSE from + (i - a)
  <2> DEFINE s == Part(q)
  <2>1. /\ g \in Seq(Nat) /\ Len(g) = Len(h) + Len(s)
        /\ \A i \in 1..(Len(h) + Len(s)) : g[i] = IF i <= Len(h) THEN h[i] ELSE s[i - Len(h)]
    <3>1. s \in Seq(Nat)  BY <1>8
    <3> HIDE DEF s
    <3>2. g = h \o s  BY DEF s
    <3> QED  BY <1>9, <3>1, <3>2, ConcatProperties
  <2>2. Len(s) = b  BY <1>8
  <2>3. \A i \in 1..(a + b) : g[i] = IF i <= a THEN h[i] ELSE s[i - a]  BY <2>1, <2>2
  <2>4. \A i \in 1..b : s[i] = from + i  BY <1>8
  <2>5. Len(g) = a + b  BY <2>1, <2>2
  <2> HIDE DEF a, b, s, from
  <2>6. \A i \in 1..(a + b) : ~(i <= a) => i - a \in 1..b  BY <1>1, <1>9
  <2> QED  BY <2>1, <2>3, <2>4, <2>5, <2>6
<1> HIDE DEF a, b, stop, from
<1>11. /\ stop \in Nat /\ from \in Nat /\ a \in Nat /\ b \in Nat /\ arrived \in Nat
       /\ from >= stop /\ from + b <= arrived
  BY <1>1, <1>2, <1>6, <1>9 DEF stop
<1>12. Ordered(g)
  <2>1. \A i \in 1..a : \A j \in 1..(i - 1) : h[j] < h[i]  BY <1>7 DEF Ordered, a
  <2>2. ASSUME NEW i \in 1..(a + b) PROVE g[i] <= arrived /\ \A j \in 1..(i - 1) : g[j] < g[i]
    <3>1. CASE i <= a
      <4>1. i \in 1..a /\ \A j \in 1..(i - 1) : j \in 1..a /\ j \in 1..(a + b) /\ j <= a  BY <1>11, <3>1
      <4>2. g[i] = h[i] /\ \A j \in 1..(i - 1) : g[j] = h[j]  BY <1>10, <3>1, <4>1
      <4>3. h[i] \in Nat /\ h[i] <= stop  BY <1>9, <4>1
      <4>4. h[i] <= arrived  BY <1>11, <4>3
      <4> QED  BY <2>1, <4>1, <4>2, <4>4
    <3>2. CASE ~(i <= a)
      <4>1. g[i] = from + (i - a)  BY <1>10, <3>2
      <4>2. i \in Nat /\ i - a \in 1..b  BY <1>11, <3>2
      <4>3. g[i] <= arrived  BY <1>11, <4>1, <4>2
      <4>4. ASSUME NEW j \in 1..(i - 1) PROVE g[j] < g[i]
        <5>1. j \in 1..(a + b) /\ j < i  BY <1>11
        <5>2. CASE j <= a
          <6>1. g[j] = h[j] /\ j \in 1..a  BY <1>10, <5>1, <5>2
          <6>2. h[j] \in Nat /\ h[j] <= stop  BY <1>9, <6>1
          <6> QED  BY <1>11, <4>1, <4>2, <6>1, <6>2
        <5>3. CASE ~(j <= a)
          <6>1. g[j] = from + (j - a)  BY <1>10, <5>1, <5>3
          <6> QED  BY <1>11, <4>1, <4>2, <5>1, <6>1
        <5> QED  BY <5>2, <5>3
      <4> QED  BY <4>3, <4>4
    <3> QED  BY <3>1, <3>2
  <2> QED  BY <1>10, <2>2 DEF Ordered
<1>13. \A i \in 1..Len(g) : g[i] <= from + b
  <2> SUFFICES ASSUME NEW i \in 1..(a + b) PROVE g[i] <= from + b  BY <1>10
  <2>1. CASE i <= a
    <3>1. g[i] = h[i] /\ i \in 1..a  BY <1>10, <1>11, <2>1
    <3>2. h[i] \in Nat /\ h[i] <= stop  BY <1>9, <3>1
    <3> QED  BY <1>11, <3>1, <3>2
  <2>2. CASE ~(i <= a)
    <3>1. g[i] = from + (i - a)  BY <1>10, <2>2
    <3> QED  BY <1>11, <2>2, <3>1
  <2> QED  BY <2>1, <2>2
<1>14. q.skipped + PartEnd(q) = from + b  BY <1>4 DEF from
<1>15. CASE p.body.type = "Chunked"
  <2>1. q.body.type = "Chunked" /\ q.body.size = p.body.size + b /\ q.state \in {"ChunkData", "ChunkMetadata"}
    BY <1>15 DEF Continues, b
  <2>2. InBody(q)  BY <2>1 DEF InBody
  <2>3. a = p.body.size  BY <1>7, <1>15 DEF UnderWay, a
  <2>4. Len(g) = q.body.size  BY <1>10, <2>1, <2>3
  <2>5. q.body.size <= limits.maxBodySize  BY <2>2 DEF Stands
  <2>6. UnderWay(q, g)  BY <1>13, <1>14, <2>1, <2>4 DEF UnderWay
  <2>7. Kept(q, g)  BY <1>12, <2>4, <2>5, <2>6 DEF Kept
  <2>8. Reported(q, g, InBody(q))  BY <2>1, <2>4 DEF Reported
  <2> QED  BY <2>1, <2>2, <2>7, <2>8
<1>16. CASE p.body.type = "NotChunked"
  <2>1. /\ q.body.type = "NotChunked" /\ from = stop
        /\ q.body.size = p.body.size /\ b + q.body.pending = p.body.pending
        /\ q.state = IF q.body.pending = 0 THEN "RequestLine" ELSE "Body"
        /\ b > 0
    <3>1. /\ q.body.type = "NotChunked" /\ q.body.size = p.body.size /\ b + q.body.pending = p.body.pending
          /\ q.state = IF q.body.pending = 0 THEN "RequestLine" ELSE "Body"
          /\ "ParsedBody" = IF b > 0 THEN "ParsedBody" ELSE "NeedsMoreData"
      BY <1>16 DEF Continues, b
    <3> QED  BY <1>2, <1>16, <3>1
  <2>2. InBody(q) <=> q.body.pending # 0  BY <2>1 DEF InBody
  <2>3. a + p.body.pending = p.body.size /\ \A i \in 1..a : h[i] = stop - a + i
    BY <1>7, <1>16 DEF UnderWay, a, stop
  <2>4. Len(g) + q.body.pending = q.body.size
    <3>1. Len(g) = a + b  BY <1>10
    <3>2. a + p.body.pending = p.body.size  BY <2>3
    <3>3. b + q.body.pending = p.body.pending  BY <2>1
    <3>4. q.body.size = p.body.size  BY <2>1
    <3>5. a \in Nat /\ b \in Nat /\ q.body.pending \in Nat  BY <1>1, <1>11
    <3>6. a + (b + q.body.pending) = q.body.size  BY <3>2, <3>3, <3>4
    <3>7. (a + b) + q.body.pending = a + (b + q.body.pending)  BY <3>5
    <3> QED  BY <3>1, <3>6, <3>7
  <2>5. q.body.size <= limits.maxBodySize
    <3>1. p.body.size <= limits.maxBodySize  BY DEF Stands
    <3> QED  BY <2>1, <3>1
  <2>6. \A i \in 1..(a + b) : g[i] = (from - a) + i
    <3> SUFFICES ASSUME NEW i \in 1..(a + b) PROVE g[i] = (from - a) + i  OBVIOUS
    <3>1. CASE i <= a
      <4>1. g[i] = h[i] /\ i \in 1..a  BY <1>10, <1>11, <3>1
      <4> QED  BY <1>11, <2>1, <2>3, <4>1
    <3>2. CASE ~(i <= a)
      <4>1. g[i] = from + (i - a)  BY <1>10, <3>2
      <4> QED  BY <1>11, <4>1
    <3> QED  BY <3>1, <3>2
  <2>7. UnderWay(q, g)
    <3>1. (from + b) - (a + b) = from - a  BY <1>11
    <3>2. \A i \in 1..Len(g) : g[i] = (from + b) - Len(g) + i  BY <1>10, <2>6, <3>1
    <3> QED  BY <1>13, <1>14, <2>1, <2>4, <3>2 DEF UnderWay
  <2>8. Len(g) <= limits.maxBodySize  BY <1>1, <1>10, <1>11, <2>4, <2>5
  <2>9. Kept(q, g)  BY <1>12, <2>7, <2>8 DEF Kept
  <2>10. Reported(q, g, InBody(q))
    <3>1. \A i \in 1..Len(g) : g[i] = g[1] + i - 1
      <4> SUFFICES ASSUME NEW i \in 1..(a + b) PROVE g[i] = g[1] + i - 1  BY <1>10
      <4>1. 1 \in 1..(a + b)  BY <1>11
      <4>2. g[i] = (from - a) + i /\ g[1] = (from - a) + 1  BY <2>6, <4>1
      <4> QED  BY <1>11, <4>2
    <3>2. InBody(q) <=> Len(g) < q.body.size  BY <1>1, <1>10, <1>11, <2>2, <2>4
    <3> QED  BY <2>1, <2>4, <3>1, <3>2 DEF Reported
  <2> QED  BY <2>1, <2>2, <2>9, <2>10
<1> QED  BY <1>3, <1>15, <1>16

\* A call that waits for more of a body keeps what was handed over.
LEMMA BodyWaits ==
    ASSUME Sizes, NEW p, Stands(p), InBody(p), NEW h, Kept(p, h), NEW q, Stands(q), Continues(p, q, "NeedsMoreData")
    PROVE  Kept(q, h) /\ InBody(q)
<1>1. /\ p \in Parsers /\ p.skipped \in Nat /\ PartEnd(p) \in Nat /\ p.body.size \in Nat /\ p.body.pending \in Nat
      /\ q \in Parsers /\ q.skipped \in Nat /\ q.body.part \in Nat /\ q.body.size \in Nat /\ q.body.pending \in Nat
  BY ParserTypes DEF Stands
<1>2. /\ q.body.index = 0 /\ q.body.type = p.body.type /\ q.skipped >= p.skipped + PartEnd(p)
  BY DEF Continues
<1>3. p.body.type = "Chunked" \/ (p.body.type = "NotChunked" /\ p.state = "Body" /\ p.body.pending > 0)
  BY DEF Stands, InBody
<1>4. UnderWay(p, h) /\ Ordered(h)  BY DEF Kept
<1>5. Len(h) \in Nat /\ \A i \in 1..Len(h) : h[i] \in Nat
  <2>1. h \in Seq(Nat)  BY <1>4 DEF Ordered
  <2> QED  BY <2>1, LenProperties, ElementOfSeq
<1>6. CASE p.body.type = "Chunked"
  <2>1. /\ q.body.size = p.body.size + q.body.part /\ q.body.part = 0
        /\ q.state \in {"ChunkData", "ChunkMetadata", "Trailers"}
    BY <1>6 DEF Continues
  <2>2. PartEnd(q) = 0 /\ q.body.size = p.body.size  BY <1>1, <1>2, <2>1 DEF PartEnd
  <2>3. InBody(q)  BY <2>1 DEF InBody
  <2>4. \A i \in 1..Len(h) : h[i] <= q.skipped + PartEnd(q)
    <3>1. \A i \in 1..Len(h) : h[i] <= p.skipped + PartEnd(p)  BY <1>4 DEF UnderWay
    <3> SUFFICES ASSUME NEW i \in 1..Len(h) PROVE h[i] <= q.skipped + PartEnd(q)  OBVIOUS
    <3>2. h[i] \in Nat /\ h[i] <= p.skipped + PartEnd(p)  BY <1>5, <3>1
    <3>3. q.skipped + PartEnd(q) = q.skipped  BY <1>1, <2>2
    <3> QED  BY <1>1, <1>2, <3>2, <3>3
  <2>5. Len(h) = q.body.size  BY <1>4, <1>6, <2>2 DEF UnderWay
  <2>6. UnderWay(q, h)  BY <1>2, <1>6, <2>4, <2>5 DEF UnderWay
  <2> QED  BY <1>4, <2>3, <2>6 DEF Kept
<1>7. CASE p.body.type = "NotChunked"
  <2>1. /\ q.skipped = p.skipped + PartEnd(p) /\ q.body.size = p.body.size
        /\ q.body.part + q.body.pending = p.body.pending
        /\ q.state = IF q.body.pending = 0 THEN "RequestLine" ELSE "Body"
        /\ "NeedsMoreData" = IF q.body.part > 0 THEN "ParsedBody" ELSE "NeedsMoreData"
    BY <1>7 DEF Continues
  <2>2. q.body.part = 0  BY <1>1, <2>1
  <2>3. q.body.pending = p.body.pending /\ q.body.pending # 0  BY <1>1, <1>3, <1>7, <2>1, <2>2
  <2>4. q.state = "Body"  BY <2>1, <2>3
  <2>5. InBody(q)  BY <2>4 DEF InBody
  <2>6. PartEnd(q) = 0 /\ q.skipped + PartEnd(q) = p.skipped + PartEnd(p)  BY <1>1, <1>2, <2>1, <2>2 DEF PartEnd
  <2>7. UnderWay(q, h)  BY <1>2, <1>4, <1>7, <2>1, <2>3, <2>6 DEF UnderWay
  <2> QED  BY <1>4, <2>5, <2>7 DEF Kept
<1> QED  BY <1>3, <1>6, <1>7

\* The last chunk, or the trailers behind it, end the body as it is.
LEMMA BodyEnds ==
    ASSUME Sizes, NEW p, Stands(p), InBody(p), NEW h, Kept(p, h), NEW q, Stands(q), Continues(p, q, "ParsedRequest")
    PROVE  /\ Kept(q, h) /\ ~InBody(q) /\ q.state = "RequestLine"
           /\ q.body.type = "Chunked" /\ Reported(q, h, InBody(q))
<1>1. p \in Parsers /\ p.body.size \in Nat  BY ParserTypes DEF Stands
<1>2. p.body.type = "Chunked"
  <2>1. p.body.type = "Chunked" \/ p.body.type = "NotChunked"  BY DEF Stands, InBody
  <2>2. p.body.type # "NotChunked"  BY DEF Continues
  <2> QED  BY <2>1, <2>2
<1>3. /\ q.body.type = "Chunked" /\ q.body.size = p.body.size + q.body.part /\ q.body.part = 0
      /\ q.state = "RequestLine"
  BY <1>2 DEF Continues
<1>4. ~InBody(q)  BY <1>3 DEF InBody
<1>5. Len(h) = q.body.size  BY <1>1, <1>2, <1>3 DEF Kept, UnderWay
<1>6. Reported(q, h, InBody(q))  BY <1>3, <1>5 DEF Reported
<1>7. Kept(q, h)  BY <1>4 DEF Kept
<1> QED  BY <1>3, <1>4, <1>6, <1>7

-----------------------------------------------------------------------------
(* The invariant of the parser. *)

LEMMA ParsedFits ==
    ASSUME Sizes, Stands(parser), NEW r, r = Parsed, r.status # "Failed"
    PROVE  \/ ~InBody(parser) /\ \E n : n + Counted(parser) = parser.skipped + Reached(parser) /\ Proceeds(n, r)
           \/ InBody(parser) /\ Stands(r.parser) /\ Continues(parser, r.parser, r.status)
<1>1. parser \in Parsers /\ parser.state \in States  BY ParserTypes DEF Stands
<1>2. CASE parser.state = "RequestLine"
  <2>1. r = ParseRequestLine(parser)  BY <1>2 DEF Parsed
  <2>2. Proceeds(parser.skipped + Leftover(parser), r)  BY <1>2, <2>1, RequestLineParsed
  <2>3. Counted(parser) = 0 /\ Reached(parser) = Leftover(parser)  BY <1>2 DEF Counted, Reached
  <2>4. parser.skipped \in Nat /\ Leftover(parser) \in Nat  BY <1>1, <2>3, ParserTypes, ReachedType
  <2> QED  BY <1>2, <2>2, <2>3, <2>4 DEF InBody
<1>3. CASE parser.state = "Headers"
  <2>1. r = ParseHeaders(parser)  BY <1>3 DEF Parsed
  <2>2. Reads(parser, r)  BY <1>1, <1>3, <2>1, HeadersParsed
  <2>3. Proceeds(parser.skipped, r)  BY <2>2 DEF Reads
  <2>4. Counted(parser) = Reached(parser)  BY <1>3 DEF Counted, Reached
  <2> QED  BY <1>3, <2>3, <2>4 DEF InBody
<1>4. CASE parser.state = "Body"
  <2>1. r = ParseBody(parser)  BY <1>4 DEF Parsed
  <2> QED  BY <1>4, <2>1, BodyParsed DEF InBody
<1>5. CASE parser.state = "ChunkMetadata"
  <2>1. r = ParseChunkMetadata(parser)  BY <1>5 DEF Parsed
  <2> QED  BY <1>5, <2>1, ChunkMetadataParsed DEF InBody
<1>6. CASE parser.state = "ChunkData"
  <2>1. r = ParseChunkData(parser)  BY <1>6 DEF Parsed
  <2> QED  BY <1>6, <2>1, ChunkDataParsed DEF InBody
<1>7. CASE parser.state = "Trailers"
  <2>1. r = ParseTrailers(parser)  BY <1>7 DEF Parsed
  <2>2. InBody(parser)  BY <1>7 DEF InBody
  <2>3. parser.body.type = "Chunked" /\ parser.body.index = 0 /\ parser.body.part = 0  BY <1>7 DEF Stands
  <2>4. parser.skipped >= parser.skipped + PartEnd(parser)
    <3>1. parser.skipped \in Nat /\ PartEnd(parser) = 0  BY <1>1, <2>3, ParserTypes DEF PartEnd
    <3> QED  BY <3>1
  <2>5. Moves(parser, parser)  BY DEF Moves
  <2> QED  BY <1>1, <1>7, <2>1, <2>2, <2>3, <2>4, <2>5, TrailersContinue
<1> QED  BY <1>1, <1>2, <1>3, <1>4, <1>5, <1>6, <1>7 DEF States

\* When b requests have begun and e have ended, what was reported last can be read: a header or, at the end of the last chunk,
\* the trailers.
Delimits(p, b, e) == BlockStands(p) /\ (~(p.body.type = "Chunked" /\ e = b) => Delimited(p))

Accounted ==
    /\ Sizes /\ begun \in Nat /\ ended \in Nat
    /\ begun = ended \/ begun = ended + 1
    /\ Ordered(handed) /\ Len(handed) <= limits.maxBodySize
    /\ status # "Failed" => /\ Stands(parser) /\ Kept(parser, handed)
                            /\ InBody(parser) <=> begun # ended
    /\ status \in {"ParsedRequest", "ParsedBody"} => Reported(parser, handed, begun > ended)
    /\ status = "ParsedRequest" => Delimits(parser, begun, ended)

LEMMA AccountedAtFirst ==
    ASSUME Init
    PROVE  Accounted
<1>1. PICK requests \in Connections :
         /\ limits \in LimitsFor(requests)
         /\ frames = Frames(requests, limits)
         /\ wire = FlattenSeq([i \in DOMAIN requests |-> Bytes(requests[i])])
  BY DEF Init
<1>2. Sizes
  <2>1. limits \in Limits  BY <1>1, LimitsAssumption
  <2>2. arrived \in Nat  BY DEF Init
  <2> QED  BY <2>1, <2>2 DEF Sizes
<1>3. /\ arrived = 0 /\ status = "NeedsMoreData" /\ begun = 0 /\ ended = 0 /\ handed = <<>>
      /\ parser = [state |-> "RequestLine", error |-> "NoError", skipped |-> 0, requestSize |-> 0, trailersSize |-> 0,
                   host |-> FALSE, expects |-> FALSE, interim |-> 0,
                   line |-> NoLine, body |-> NoBody, block |-> Block(0)]
  BY DEF Init
<1>4. NoLine \in RequestLines /\ NoBody \in Bodies /\ NoBody.type = "NoBody"
  BY NoBodyIs DEF NoLine, RequestLines
<1>5. Block(0) \in Blocks
  <2> DEFINE empty == [start |-> 0, lines |-> <<>>]
  <2>1. Block(0) = empty  BY DEF Block
  <2>2. <<>> \in Seq([nameSize : Nat, valueSize : Nat])  BY EmptySeq
  <2>3. empty \in Blocks  BY <2>2 DEF Blocks
  <2> QED  BY <2>1, <2>3
<1>6. parser \in Parsers  BY <1>3, <1>4, <1>5 DEF Parsers, States, Errors
<1>7. /\ parser.state = "RequestLine" /\ parser.skipped = 0 /\ parser.requestSize = 0
      /\ parser.body.type = "NoBody"
  BY <1>3, <1>4
<1>8. Reached(parser) = 0
  <2>1. Reached(parser) = Leftover(parser)  BY <1>7 DEF Reached
  <2> QED  BY <1>7, <2>1 DEF Leftover
<1>9. limits.maxRequestSize \in Nat /\ limits.maxBodySize \in Nat  BY <1>2, LimitTypes
<1>10. Stands(parser)  BY <1>3, <1>6, <1>7, <1>8, <1>9 DEF Stands, InBody
<1>11. Len(handed) = 0 /\ handed \in Seq(Nat)  BY <1>3, EmptySeq
<1>12. Ordered(handed)  BY <1>11 DEF Ordered
<1>13. ~InBody(parser)  BY <1>7 DEF InBody
<1>14. Kept(parser, handed)  BY <1>9, <1>11, <1>12, <1>13 DEF Kept
<1> QED  BY <1>2, <1>3, <1>9, <1>10, <1>11, <1>12, <1>13, <1>14 DEF Accounted

\* What was read is as it stands, as the stream is the same.
LEMMA ReadLater ==
    ASSUME wire' = wire
    PROVE  /\ RequestLineStands(parser)' <=> RequestLineStands(parser')
           /\ BlockStands(parser)' <=> BlockStands(parser')
           /\ FieldsHeeded(parser)' <=> FieldsHeeded(parser')
           /\ LinesRead(parser, parser.requestSize)' <=> LinesRead(parser', parser'.requestSize)
           /\ LinesRead(parser, parser.trailersSize)' <=> LinesRead(parser', parser'.trailersSize)
<1>1. RequestLineStands(parser)' <=> RequestLineStands(parser')
  BY ZenonT(40) DEF RequestLineStands, UrlStands, At, Slice
<1>2. BlockStands(parser)' <=> BlockStands(parser')
  BY DEF BlockStands, FieldStands, FieldStart, At, Slice
<1>3. FieldsHeeded(parser)' <=> FieldsHeeded(parser')
  BY DEF FieldsHeeded, Named, FieldName, FieldValue, FieldStart, At, Slice
<1>4. LinesRead(parser, parser.requestSize)' <=> LinesRead(parser', parser'.requestSize)
  BY DEF LinesRead, FieldStands, FieldStart, At, Slice
<1>5. LinesRead(parser, parser.trailersSize)' <=> LinesRead(parser', parser'.trailersSize)
  BY DEF LinesRead, FieldStands, FieldStart, At, Slice
<1> QED  BY <1>1, <1>2, <1>3, <1>4, <1>5

\* More bytes do not matter to what the parser stands for.
LEMMA StandsLater ==
    ASSUME Sizes, arrived' \in Nat, arrived' >= arrived, limits' = limits, wire' = wire, NEW p, p = parser', Stands(p)
    PROVE  Stands(parser)'
<1>1. /\ p \in Parsers /\ p.skipped \in Nat /\ Reached(p) \in Nat /\ p.trailersSize \in Nat /\ arrived \in Nat
  <2>1. p \in Parsers  BY DEF Stands
  <2> QED  BY <2>1, ParserTypes, ReachedType, LimitTypes
<1>2. p.skipped + Reached(p) <= arrived'  BY <1>1 DEF Stands
<1>3. p.trailersSize <= arrived - p.skipped => p.trailersSize <= arrived' - p.skipped  BY <1>1
<1>4. HeaderRead(p) => HeaderRead(parser)'  BY ReadLater DEF HeaderRead
<1>5. LinesRead(p, p.trailersSize) => LinesRead(parser, parser.trailersSize)'  BY ReadLater
<1> QED  BY <1>1, <1>2, <1>3, <1>4, <1>5 DEF Stands, Available

LEMMA OrderedLater ==
    ASSUME Sizes, arrived' \in Nat, arrived' >= arrived, limits' = limits, Ordered(handed')
    PROVE  Ordered(handed)'
<1>1. \A i \in 1..Len(handed') : handed'[i] \in Nat  BY ElementOfSeq DEF Ordered
<1>2. arrived \in Nat  BY LimitTypes
<1>3. \A i \in 1..Len(handed') : handed'[i] <= arrived'  BY <1>1, <1>2 DEF Ordered
<1> QED  BY <1>3 DEF Ordered

\* What a step must show of what it leaves.
LEMMA AccountedLater ==
    ASSUME Sizes, arrived' \in Nat, arrived' >= arrived, limits' = limits, wire' = wire,
           begun' \in Nat, ended' \in Nat, begun' = ended' \/ begun' = ended' + 1,
           Ordered(handed'), Len(handed') <= limits.maxBodySize,
           status' # "Failed" => /\ Stands(parser') /\ Kept(parser', handed')
                                 /\ InBody(parser') <=> begun' # ended',
           status' \in {"ParsedRequest", "ParsedBody"} => Reported(parser', handed', begun' > ended'),
           status' = "ParsedRequest" => Delimits(parser', begun', ended')
    PROVE  Accounted'
<1>1. Sizes'  BY DEF Sizes
<1>2. Ordered(handed)'  BY OrderedLater
<1>3. Len(handed') <= limits'.maxBodySize  OBVIOUS
<1>4. status' # "Failed" => Stands(parser)'  BY StandsLater
<1>5. status' # "Failed" => Kept(parser, handed)'
  <2>1. status' # "Failed" => (InBody(parser') => UnderWay(parser', handed'))  BY DEF Kept
  <2>2. InBody(parser)' = InBody(parser')  BY DEF InBody
  <2>3. UnderWay(parser, handed)' = UnderWay(parser', handed')  BY DEF UnderWay
  <2> QED  BY <1>2, <1>3, <2>1, <2>2, <2>3 DEF Kept
<1>6. status' # "Failed" => (InBody(parser)' <=> begun' # ended')  BY DEF InBody
<1>7. status' \in {"ParsedRequest", "ParsedBody"} => Reported(parser, handed, begun > ended)'  BY DEF Reported
<1>8. status' = "ParsedRequest" => Delimits(parser, begun, ended)'  BY ReadLater DEF Delimits, Delimited
<1> QED  BY <1>1, <1>2, <1>3, <1>4, <1>5, <1>6, <1>7, <1>8 DEF Accounted

LEMMA ArriveKeeps ==
    ASSUME Accounted, Arrive
    PROVE  Accounted'
<1>1. /\ arrived' = arrived + 1
      /\ limits' = limits /\ wire' = wire /\ parser' = parser /\ status' = status /\ begun' = begun /\ ended' = ended /\ handed' = handed
  BY DEF Arrive
<1>2. Sizes /\ arrived \in Nat  BY DEF Accounted, Sizes
<1>3. arrived' \in Nat /\ arrived' >= arrived  BY <1>1, <1>2
<1>4. /\ begun' \in Nat /\ ended' \in Nat /\ (begun' = ended' \/ begun' = ended' + 1)
      /\ Ordered(handed') /\ Len(handed') <= limits.maxBodySize
  BY <1>1 DEF Accounted
<1>5. status' # "Failed" => /\ Stands(parser') /\ Kept(parser', handed')
                            /\ InBody(parser') <=> begun' # ended'
  BY <1>1 DEF Accounted
<1>6. status' \in {"ParsedRequest", "ParsedBody"} => Reported(parser', handed', begun' > ended')
  BY <1>1 DEF Accounted
<1>7. status' = "ParsedRequest" => Delimits(parser', begun', ended')
  BY <1>1 DEF Accounted
<1> QED  BY <1>1, <1>2, <1>3, <1>4, <1>5, <1>6, <1>7, AccountedLater

\* One request begun and not ended at most: the counts differ exactly when there is one.
LEMMA OneAhead ==
    ASSUME NEW b \in Nat, NEW e \in Nat, b = e \/ b = e + 1
    PROVE  b > e <=> b # e
<1>1. CASE b = e  BY <1>1
<1>2. CASE b = e + 1
  <2>1. e + 1 > e /\ e + 1 # e  OBVIOUS
  <2> QED  BY <1>2, <2>1
<1> QED  BY <1>1, <1>2

\* A call of parse() hands over the part that its body's length counts, or begins a request, and counts what ends.
LEMMA ParseKeeps ==
    ASSUME Accounted, Parse
    PROVE  Accounted'
<1> DEFINE r == Parsed
           q == parser'
<1>1. /\ status # "Failed" /\ q = r.parser /\ status' = r.status
      /\ limits' = limits /\ wire' = wire /\ arrived' = arrived /\ HandOver
  BY DEF Parse
<1>2. /\ Sizes /\ arrived \in Nat /\ begun \in Nat /\ ended \in Nat
      /\ begun = ended \/ begun = ended + 1
      /\ Ordered(handed) /\ Len(handed) <= limits.maxBodySize
      /\ Stands(parser) /\ Kept(parser, handed) /\ (InBody(parser) <=> begun # ended)
  BY <1>1 DEF Accounted, Sizes
<1>3. arrived' \in Nat /\ arrived' >= arrived  BY <1>1, <1>2
<1> HIDE DEF r
<1>4. CASE status' = "Failed"
  <2>1. ~BeginsRequest  BY <1>4 DEF BeginsRequest
  <2>2. begun' = begun /\ handed' = handed /\ ended' = ended  BY <1>1, <1>4, <2>1 DEF HandOver
  <2>3. /\ begun' \in Nat /\ ended' \in Nat /\ (begun' = ended' \/ begun' = ended' + 1)
        /\ Ordered(handed') /\ Len(handed') <= limits.maxBodySize
    BY <1>2, <2>2
  <2> QED  BY <1>1, <1>2, <1>3, <1>4, <2>3, AccountedLater
<1>5. CASE status' = "NeedsMoreData"
  <2>1. ~BeginsRequest  BY <1>5 DEF BeginsRequest
  <2>2. begun' = begun /\ handed' = handed /\ ended' = ended  BY <1>1, <1>5, <2>1 DEF HandOver
  <2>3. Stands(q) /\ Kept(q, handed) /\ (InBody(q) <=> InBody(parser))
    <3>1. r.status # "Failed" /\ r.status = "NeedsMoreData"  BY <1>1, <1>5
    <3>2. \/ ~InBody(parser) /\ \E n : Proceeds(n, r)
          \/ InBody(parser) /\ Stands(r.parser) /\ Continues(parser, r.parser, r.status)
      BY <1>2, <3>1, ParsedFits DEF r
    <3>3. CASE ~InBody(parser) /\ \E n : Proceeds(n, r)
      <4>1. Stands(q) /\ q.state \in {"RequestLine", "Headers"}  BY <1>1, <3>1, <3>3 DEF Proceeds
      <4>2. ~InBody(q)  BY <4>1 DEF InBody
      <4> QED  BY <1>2, <3>3, <4>1, <4>2 DEF Kept
    <3>4. CASE InBody(parser) /\ Stands(r.parser) /\ Continues(parser, r.parser, r.status)
      <4>1. Stands(q) /\ Continues(parser, q, "NeedsMoreData")  BY <1>1, <3>1, <3>4
      <4>2. Kept(q, handed) /\ InBody(q)  BY <1>2, <3>4, <4>1, BodyWaits
      <4> QED  BY <3>4, <4>1, <4>2
    <3> QED  BY <3>2, <3>3, <3>4
  <2>4. /\ begun' \in Nat /\ ended' \in Nat /\ (begun' = ended' \/ begun' = ended' + 1)
        /\ Ordered(handed') /\ Len(handed') <= limits.maxBodySize
        /\ Stands(parser') /\ Kept(parser', handed') /\ (InBody(parser') <=> begun' # ended')
    BY <1>2, <2>2, <2>3
  <2> QED  BY <1>1, <1>2, <1>3, <1>5, <2>4, AccountedLater
<1>6. CASE status' # "Failed" /\ status' # "NeedsMoreData"
  <2>1. r.status # "Failed" /\ r.status # "NeedsMoreData"  BY <1>1, <1>6
  <2>2. \/ ~InBody(parser) /\ \E n : Proceeds(n, r)
        \/ InBody(parser) /\ Stands(r.parser) /\ Continues(parser, r.parser, r.status)
    BY <1>2, <2>1, ParsedFits DEF r
  <2>3. /\ begun' \in Nat /\ ended' \in Nat /\ (begun' = ended' \/ begun' = ended' + 1)
        /\ Stands(q) /\ Kept(q, handed') /\ Reported(q, handed', InBody(q))
        /\ InBody(q) <=> begun' # ended'
        /\ status' = "ParsedRequest" => Delimits(q, begun', ended')
    <3>1. CASE ~InBody(parser) /\ \E n : Proceeds(n, r)
      <4>1. Stands(q) /\ Opens(q) /\ Delimited(q) /\ status' = "ParsedRequest"  BY <1>1, <2>1, <3>1 DEF Proceeds
      <4>2. begun = ended /\ BeginsRequest  BY <1>2, <3>1, <4>1 DEF BeginsRequest
      <4>3. begun' = begun + 1 /\ handed' = Part(q)
        <5>1. begun' = begun + 1  BY <1>1, <4>2 DEF HandOver
        <5>2. handed' = CASE BeginsRequest -> Part(parser') [] status' = "ParsedBody" -> handed \o Part(parser') [] OTHER -> handed
          BY <1>1 DEF HandOver
        <5>3. handed' = Part(parser')  BY <4>1, <4>2, <5>2
        <5>4. parser' = q  BY <1>1
        <5> QED  BY <5>1, <5>3, <5>4
      <4>4. ended' = IF IsComplete(q) THEN ended + 1 ELSE ended  BY <1>1, <4>1 DEF HandOver
      <4>5. /\ Kept(q, handed') /\ Reported(q, handed', InBody(q))
            /\ InBody(q) <=> q.body.type = "Chunked" \/ (q.body.type = "NotChunked" /\ q.body.pending # 0)
        BY <1>2, <4>1, <4>3, RequestBegins
      <4>6. q.body.type \in {"NoBody", "NotChunked", "Chunked"}  BY <4>1, ParserTypes DEF Stands
      <4>7. IsComplete(q) <=> ~InBody(q)
        <5>1. ~(begun > ended)  BY <1>2, <4>2
        <5> QED  BY <4>5, <4>6, <5>1 DEF IsComplete
      <4>8. InBody(q) <=> begun' # ended'  BY <1>2, <4>2, <4>3, <4>4, <4>7
      <4>9. begun' \in Nat /\ ended' \in Nat /\ (begun' = ended' \/ begun' = ended' + 1)
        BY <1>2, <4>2, <4>3, <4>4
      <4>10. Delimits(q, begun', ended')  BY <4>1 DEF Delimits, Delimited
      <4> QED  BY <4>1, <4>5, <4>8, <4>9, <4>10
    <3>2. CASE InBody(parser) /\ Stands(r.parser) /\ Continues(parser, r.parser, r.status)
      <4>1. Stands(q) /\ Continues(parser, q, status')  BY <1>1, <3>2
      <4>2. begun = ended + 1 /\ begun > ended /\ ~BeginsRequest /\ begun' = begun
        <5>1. begun = ended + 1  BY <1>2, <3>2
        <5>2. begun > ended /\ begun # ended  BY <1>2, <5>1
        <5>3. ~BeginsRequest  BY <5>2 DEF BeginsRequest
        <5> QED  BY <1>1, <5>1, <5>2, <5>3 DEF HandOver
      <4>3. status' \in {"ParsedRequest", "ParsedBody"}
        <5>1. parser.body.type = "Chunked" \/ parser.body.type = "NotChunked"  BY <1>2, <3>2 DEF Stands, InBody
        <5> QED  BY <1>6, <4>1, <5>1 DEF Continues
      <4>4. ended' = IF IsComplete(q) THEN ended + 1 ELSE ended  BY <1>1, <4>3 DEF HandOver
      <4>5. CASE status' = "ParsedBody"
        <5>1. handed' = handed \o Part(q)  BY <1>1, <4>2, <4>5 DEF HandOver
        <5>2. /\ Kept(q, handed') /\ Reported(q, handed', InBody(q))
              /\ InBody(q) <=> q.body.type = "Chunked" \/ (q.body.type = "NotChunked" /\ q.body.pending # 0)
          BY <1>2, <3>2, <4>1, <4>5, <5>1, BodyGrows
        <5>3. q.body.type = "Chunked" \/ q.body.type = "NotChunked"
          <6>1. parser.body.type = "Chunked" \/ parser.body.type = "NotChunked"  BY <1>2, <3>2 DEF Stands, InBody
          <6> QED  BY <4>1, <6>1 DEF Continues
        <5>4. IsComplete(q) <=> ~InBody(q)
          <6>1. CASE q.body.type = "Chunked"
            <7>1. ~IsComplete(q)  BY <4>5, <6>1 DEF IsComplete
            <7> QED  BY <5>2, <6>1, <7>1
          <6>2. CASE q.body.type = "NotChunked"
            <7>1. IsComplete(q) <=> q.body.pending = 0  BY <6>2 DEF IsComplete
            <7> QED  BY <5>2, <6>2, <7>1
          <6> QED  BY <5>3, <6>1, <6>2
        <5>5. InBody(q) <=> begun' # ended'  BY <1>2, <4>2, <4>4, <5>4
        <5>6. begun' \in Nat /\ ended' \in Nat /\ (begun' = ended' \/ begun' = ended' + 1)
          BY <1>2, <4>2, <4>4
        <5> QED  BY <4>1, <4>5, <5>2, <5>5, <5>6
      <4>6. CASE status' = "ParsedRequest"
        <5>1. handed' = handed  BY <1>1, <4>2, <4>6 DEF HandOver
        <5>2. /\ Kept(q, handed) /\ ~InBody(q) /\ q.body.type = "Chunked" /\ Reported(q, handed, InBody(q))
          BY <1>2, <3>2, <4>1, <4>6, BodyEnds
        <5>3. IsComplete(q)  BY <4>2, <4>6, <5>2 DEF IsComplete
        <5>4. ended' = ended + 1  BY <4>4, <5>3
        <5>5. begun' = ended' /\ begun' \in Nat /\ ended' \in Nat  BY <1>2, <4>2, <5>4
        <5>6. Delimits(q, begun', ended')
          <6>1. BlockStands(q)  BY <4>1, <4>6 DEF Continues
          <6> QED  BY <5>2, <5>5, <6>1 DEF Delimits
        <5> QED  BY <4>1, <5>1, <5>2, <5>5, <5>6
      <4> QED  BY <4>3, <4>5, <4>6
    <3> QED  BY <2>2, <3>1, <3>2
  <2>4. begun' > ended' <=> begun' # ended'  BY <2>3, OneAhead
  <2>5. Ordered(handed') /\ Len(handed') <= limits.maxBodySize  BY <2>3 DEF Kept
  <2>6. Reported(q, handed', begun' > ended')
    <3>1. begun' > ended' <=> InBody(q)  BY <2>3, <2>4
    <3> QED  BY <2>3, <3>1 DEF Reported
  <2> QED  BY <1>1, <1>2, <1>3, <2>3, <2>5, <2>6, AccountedLater
<1> QED  BY <1>4, <1>5, <1>6

\* Whatever bytes arrive, in whatever pieces: what the parser has skipped has arrived, what it hands over is in order and
\* within the limits, and the body under way is as long as it says.
THEOREM AccountedIsInvariant == Spec => []Accounted
<1>1. Init => Accounted  BY AccountedAtFirst
<1>2. Accounted /\ [Next]_vars => Accounted'
  <2> SUFFICES ASSUME Accounted, [Next]_vars PROVE Accounted'  OBVIOUS
  <2>1. CASE Arrive
    BY <2>1, ArriveKeeps
  <2>2. CASE Parse
    BY <2>2, ParseKeeps
  <2>3. CASE UNCHANGED vars
    <3>1. /\ arrived' = arrived /\ limits' = limits /\ wire' = wire /\ parser' = parser /\ status' = status
          /\ begun' = begun /\ ended' = ended /\ handed' = handed
      BY <2>3 DEF vars
    <3>2. Sizes /\ arrived \in Nat  BY DEF Accounted, Sizes
    <3>3. arrived' \in Nat /\ arrived' >= arrived  BY <3>1, <3>2
    <3>4. /\ begun' \in Nat /\ ended' \in Nat /\ (begun' = ended' \/ begun' = ended' + 1)
          /\ Ordered(handed') /\ Len(handed') <= limits.maxBodySize
      BY <3>1 DEF Accounted
    <3>5. status' # "Failed" => /\ Stands(parser') /\ Kept(parser', handed')
                                /\ InBody(parser') <=> begun' # ended'
      BY <3>1 DEF Accounted
    <3>6. status' \in {"ParsedRequest", "ParsedBody"} => Reported(parser', handed', begun' > ended')
      BY <3>1 DEF Accounted
    <3>7. status' = "ParsedRequest" => Delimits(parser', begun', ended')
      BY <3>1 DEF Accounted
    <3> QED  BY <3>1, <3>2, <3>3, <3>4, <3>5, <3>6, <3>7, AccountedLater
  <2> QED  BY <2>1, <2>2, <2>3 DEF Next
<1> QED  BY <1>1, <1>2, PTL DEF Spec

\* Nothing that has not arrived is ever skipped, or would be by the next call of parse().
THEOREM NothingIsSkippedAhead == Spec => []NothingSkippedAhead
<1>1. Accounted => NothingSkippedAhead  BY DEF Accounted, Stands, NothingSkippedAhead
<1> QED  BY <1>1, AccountedIsInvariant, PTL

\* A call of parse() gets on in the stream by what it adds to m_requestSize, whatever bytes arrive in whatever pieces.
THEOREM MovesAreCounted == Spec => []MovesAsCounted
<1>1. Accounted => MovesAsCounted
  <2> SUFFICES ASSUME Accounted, status # "Failed", NEW result \in {Parsed}, result.status # "Failed"
               PROVE  result.parser.skipped + Reached(result.parser) + Counted(parser)
                          = parser.skipped + Reached(parser) + result.parser.requestSize
    BY DEF MovesAsCounted
  <2> DEFINE q == result.parser
  <2>1. Sizes /\ Stands(parser) /\ parser \in Parsers  BY DEF Accounted, Stands
  <2>2. \/ ~InBody(parser) /\ \E n : n + Counted(parser) = parser.skipped + Reached(parser) /\ Proceeds(n, result)
        \/ InBody(parser) /\ Stands(q) /\ Continues(parser, q, result.status)
    BY <2>1, ParsedFits
  <2>3. CASE ~InBody(parser) /\ \E n : n + Counted(parser) = parser.skipped + Reached(parser) /\ Proceeds(n, result)
    <3>1. PICK n : n + Counted(parser) = parser.skipped + Reached(parser) /\ Proceeds(n, result)  BY <2>3
    <3>2. q.skipped = n /\ Reached(q) = q.requestSize /\ q \in Parsers  BY <3>1 DEF Proceeds, Stands
    <3>3. q.skipped \in Nat /\ q.requestSize \in Nat /\ Counted(parser) \in Nat  BY <2>1, <3>2, ParserTypes DEF Counted
    <3>4. q.skipped + q.requestSize + Counted(parser) = (q.skipped + Counted(parser)) + q.requestSize  BY <3>3
    <3> QED  BY <3>1, <3>2, <3>4
  <2>4. CASE InBody(parser) /\ Stands(q) /\ Continues(parser, q, result.status)
    <3>1. Counted(parser) = parser.requestSize  BY <2>4 DEF InBody, Counted
    <3> QED  BY <2>4, <3>1 DEF Continues, Moves
  <2> QED  BY <2>2, <2>3, <2>4
<1> QED  BY <1>1, AccountedIsInvariant, PTL

\* When a call of parse() waits for more, what it waits for has no end in what has arrived, whatever bytes those are: a
\* request line or the size of a chunk no line break, field lines no blank line behind them, a body nothing to hand over.
THEOREM NothingCompleteIsHeld == Spec => []NothingCompleteWaits
<1>1. Accounted => NothingCompleteWaits
  <2> SUFFICES ASSUME Accounted, status # "Failed", NEW result \in {Parsed}, result.status = "NeedsMoreData"
               PROVE  Incomplete(result.parser)
    BY DEF NothingCompleteWaits
  <2>1. Sizes /\ Stands(parser)  BY DEF Accounted
  <2>2. \/ \E n : Proceeds(n, result)
        \/ Continues(parser, result.parser, result.status)
    BY <2>1, ParsedFits
  <2> QED  BY <2>2 DEF Proceeds, Continues
<1> QED  BY <1>1, AccountedIsInvariant, PTL

\* Whatever bytes arrive, in whatever pieces: when a request is reported, what can be read of it is a request line, field
\* lines and a blank line, one behind the other, as the grammar has them, with one host and one framing of its body; and
\* when its last chunk is, so are the trailers. The sizes of the field lines are all the parser keeps of them.
THEOREM HeadersAreDelimited == Spec => []HeaderDelimited
<1>1. Accounted => HeaderDelimited  BY DEF Accounted, Delimits, Delimited, HeaderDelimited
<1> QED  BY <1>1, AccountedIsInvariant, PTL

\* What parse() waits for more of, or hands over, is within the limits of the server.
THEOREM SizesAreLimited == Spec => []SizesLimited
<1>1. Accounted => SizesLimited  BY DEF Accounted, Stands, SizesLimited
<1> QED  BY <1>1, AccountedIsInvariant, PTL

\* Bodies are handed over in the order of the stream and once, and are as long as their headers or chunks say.
THEOREM BodiesAreAccounted == Spec => []BodiesAccounted
<1>1. Accounted => BodiesAccounted
  <2> SUFFICES ASSUME Accounted PROVE BodiesAccounted  OBVIOUS
  <2>1. Ordered(handed) /\ Len(handed) <= limits.maxBodySize /\ (begun = ended \/ begun = ended + 1)  BY DEF Accounted
  <2>2. status \in {"ParsedRequest", "ParsedBody"} => Reported(parser, handed, begun > ended)  BY DEF Accounted
  <2> QED  BY <2>1, <2>2 DEF Ordered, Reported, BodiesAccounted
<1> QED  BY <1>1, AccountedIsInvariant, PTL

==============================================================================
