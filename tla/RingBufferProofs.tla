--------------------------- MODULE RingBufferProofs ---------------------------
(***************************************************************************)
(* Proofs about RingBuffer for every capacity, allocation size and byte:   *)
(* its layout is always that of a buffer, and it implements a bounded FIFO.*)
(***************************************************************************)
EXTENDS RingBuffer, SequenceTheorems, WellFoundedInduction, TLAPS

-----------------------------------------------------------------------------
(* The contents of a buffer, as a sequence. *)

LEMMA FunctionIsSeq ==
    ASSUME NEW S, NEW n \in Nat, NEW f \in [1..n -> S]
    PROVE  f \in Seq(S) /\ Len(f) = n
  OBVIOUS

LEMMA ContentsIsSeq ==
    ASSUME NEW b, Laid(b)
    PROVE  /\ Size(b) \in Nat /\ Size(b) <= b.cur
           /\ Contents(b) \in Seq(Cells)
           /\ Len(Contents(b)) = Size(b)
<1>0. /\ b.cur \in Nat /\ b.offset \in Nat /\ b.right \in Nat /\ b.space \in Nat /\ b.left \in Nat
      /\ b.offset + b.right + b.space = b.cur /\ b.left <= b.offset
  BY DEF Laid, IsBuffer
<1>1. Size(b) \in Nat /\ Size(b) <= b.cur  BY <1>0 DEF Size
<1>2. Contents(b) \in [1..Size(b) -> Cells]
  <2>1. ASSUME NEW i \in 1..Size(b) PROVE Contents(b)[i] \in Cells
    <3>1. CASE i <= b.right
      <4>1. b.offset + i - 1 \in 0..(b.cur - 1)  BY <1>0, <1>1, <3>1
      <4> QED  BY <3>1, <4>1 DEF Contents, Laid, IsBuffer
    <3>2. CASE ~(i <= b.right)
      <4>1. i - b.right - 1 \in 0..(b.cur - 1)  BY <1>0, <3>2 DEF Size
      <4> QED  BY <3>2, <4>1 DEF Contents, Laid, IsBuffer
    <3> QED  BY <3>1, <3>2
  <2> QED  BY <2>1 DEF Contents
<1> QED  BY <1>1, <1>2, FunctionIsSeq

\* A fresh allocation is laid out and empty.
LEMMA FreshIsLaid ==
    ASSUME NEW n \in Nat
    PROVE  Laid(Fresh(n)) /\ Size(Fresh(n)) = 0 /\ Contents(Fresh(n)) = <<>> /\ Fresh(n).cur = n
<1>1. Laid(Fresh(n)) /\ Size(Fresh(n)) = 0 /\ Fresh(n).cur = n
  BY DEF Laid, IsBuffer, Fresh, Buffer, Size, Cells
<1>2. Contents(Fresh(n)) = <<>>
  BY <1>1, ContentsIsSeq
<1> QED  BY <1>1, <1>2

\* Emptying a buffer in place.
LEMMA EmptiedIsLaid ==
    ASSUME NEW b, Laid(b)
    PROVE  Laid(Emptied(b)) /\ Size(Emptied(b)) = 0 /\ Contents(Emptied(b)) = <<>>
           /\ Emptied(b).cur = b.cur
<1>1. Laid(Emptied(b)) /\ Size(Emptied(b)) = 0 /\ Emptied(b).cur = b.cur
  BY DEF Laid, IsBuffer, Emptied, Buffer, Size
<1> QED  BY <1>1, ContentsIsSeq

\* Moving to a new allocation keeps the contents.
LEMMA MovedIsLaid ==
    ASSUME NEW b, Laid(b), NEW n \in Nat, Size(b) <= n
    PROVE  /\ Laid(Moved(b, n))
           /\ Size(Moved(b, n)) = Size(b)
           /\ Contents(Moved(b, n)) = Contents(b)
           /\ Moved(b, n).cur = n
<1> DEFINE m == Moved(b, n)
<1>1. Size(b) \in Nat /\ Contents(b) \in Seq(Cells) /\ Len(Contents(b)) = Size(b)
  BY ContentsIsSeq
<1>2. m.mem \in [0..(n - 1) -> Cells]
  BY <1>1 DEF Moved, Buffer, Cells
<1>3. Laid(m) /\ Size(m) = Size(b) /\ m.cur = n
  BY <1>1, <1>2 DEF Laid, IsBuffer, Moved, Buffer, Size
<1>4. ASSUME NEW i \in 1..Size(b) PROVE Contents(m)[i] = Contents(b)[i]
  <2>1. i - 1 \in 0..(n - 1) /\ i - 1 < Size(b)  BY <1>1
  <2>2. Contents(m)[i] = m.mem[i - 1]  BY <1>1, <1>3 DEF Contents, Moved, Buffer, Size
  <2>3. m.mem[i - 1] = Contents(b)[i]  BY <2>1, <1>1 DEF Moved, Buffer
  <2> QED  BY <2>2, <2>3
<1>5. Contents(m) \in Seq(Cells) /\ Len(Contents(m)) = Size(b)  BY <1>3, ContentsIsSeq
<1>6. Contents(m) = Contents(b)  BY <1>1, <1>4, <1>5, SeqEqual
<1> QED  BY <1>3, <1>6

-----------------------------------------------------------------------------
(* Growing. *)

\* bit_ceil gives a number that is large enough.
LEMMA BitCeilIsEnough ==
    ASSUME NEW n \in Nat, n <= MaxSize
    PROVE  BitCeil(n) \in Nat /\ BitCeil(n) >= n
<1> DEFINE T == {p \in PowersOfTwo : p >= n}
<1>1. T \subseteq Nat /\ T # {}
  <2>1. PICK p \in PowersOfTwo : p >= MaxSize  BY PowersAssumption
  <2>2. p \in T  BY <2>1, PowersAssumption, CapacityAssumption
  <2> QED  BY <2>2, PowersAssumption
<1>2. PICK p \in T : \A q \in T : ~(<<q, p>> \in OpToRel(<, Nat))
  <2> HIDE DEF T
  <2> QED  BY <1>1, NatLessThanWellFounded, WFMin
<1>3. \A q \in T : ~(q < p)
  BY <1>1, <1>2 DEF OpToRel
<1>4. p \in PowersOfTwo /\ p >= n /\ \A q \in PowersOfTwo : q >= n => p <= q
  BY <1>1, <1>3
<1> QED  BY <1>4, PowersAssumption DEF BitCeil

\* tryToEnlargeBuffer keeps the contents and makes the room that the capacity allows.
LEMMA WithRoomIsLaid ==
    ASSUME NEW b, Laid(b), b.cur > 0, NEW cap \in Nat, cap > 0 => b.cur <= cap,
           NEW n \in Nat, Size(b) + n <= MaxSize
    PROVE  LET room == WithRoom(b, cap, n)
           IN /\ Laid(room)
              /\ Contents(room) = Contents(b)
              /\ Size(room) = Size(b)
              /\ room.cur > 0
              /\ cap > 0 => room.cur <= cap
              /\ room.cur - Size(room) >= n \/ (cap > 0 /\ room.cur = cap)
<1> DEFINE c == IF cap > 0 THEN Least(cap, BitCeil(Size(b) + n)) ELSE BitCeil(Size(b) + n)
<1>1. Size(b) \in Nat /\ Size(b) <= b.cur /\ b.cur \in Nat
  BY ContentsIsSeq DEF Laid, IsBuffer
<1>2. CASE b.cur - Size(b) >= n \/ b.cur = cap
  BY <1>1, <1>2 DEF WithRoom
<1>3. CASE ~(b.cur - Size(b) >= n \/ b.cur = cap)
  <2>1. BitCeil(Size(b) + n) \in Nat /\ BitCeil(Size(b) + n) >= Size(b) + n
    BY <1>1, BitCeilIsEnough
  <2>2. c \in Nat /\ c > 0 /\ Size(b) <= c /\ (cap > 0 => c <= cap)
        /\ (c - Size(b) >= n \/ (cap > 0 /\ c = cap))
    BY <1>1, <1>3, <2>1 DEF Least
  <2>3. WithRoom(b, cap, n) = Moved(b, c)  BY <1>3 DEF WithRoom
  <2> HIDE DEF c
  <2> QED  BY <2>2, <2>3, MovedIsLaid
<1> QED  BY <1>2, <1>3

-----------------------------------------------------------------------------
(* Writing. *)

\* data has n bytes to write.
Has(data, n) == data \in Seq(Byte) /\ n \in Nat /\ n <= Len(data)

\* An allocation of c bytes, and n bytes to copy to it.
MayCopy(c, mem, at, data, skipped, n) ==
    /\ c \in Nat /\ mem \in [0..(c - 1) -> Cells] /\ at \in Nat
    /\ skipped \in Nat /\ n \in Nat /\ Has(data, skipped + n)

\* Copying bytes into an allocation changes the cells they go to and no other.
LEMMA CopyChanges ==
    ASSUME NEW c, NEW mem, NEW at, NEW data, NEW skipped, NEW n,
           MayCopy(c, mem, at, data, skipped, n)
    PROVE  /\ Copy(mem, at, data, skipped, n) \in [0..(c - 1) -> Cells]
           /\ \A i \in 0..(c - 1) :
                 Copy(mem, at, data, skipped, n)[i] =
                     IF at <= i /\ i < at + n THEN data[skipped + i - at + 1] ELSE mem[i]
<1>0. /\ c \in Nat /\ mem \in [0..(c - 1) -> Cells] /\ at \in Nat
      /\ skipped \in Nat /\ n \in Nat /\ Has(data, skipped + n)
  BY DEF MayCopy
<1>1. ASSUME NEW i \in 0..(c - 1), at <= i, i < at + n
      PROVE  data[skipped + i - at + 1] \in Cells
  <2>1. skipped + i - at + 1 \in 1..Len(data) /\ data \in Seq(Byte)  BY <1>0, <1>1 DEF Has
  <2> QED  BY <2>1 DEF Cells
<1>2. DOMAIN mem = 0..(c - 1)  BY <1>0
<1> QED  BY <1>0, <1>1, <1>2 DEF Copy

\* The prefix of what is written.
LEMMA PrefixOf ==
    ASSUME NEW S, NEW data \in Seq(S), NEW n \in Nat, n <= Len(data)
    PROVE  /\ SubSeq(data, 1, n) \in Seq(S)
           /\ Len(SubSeq(data, 1, n)) = n
           /\ \A i \in 1..n : SubSeq(data, 1, n)[i] = data[i]
  BY SubSeqProperties

\* A write puts its bytes behind the contents, at the right and then at the left.
LEMMA AppendedIsLaid ==
    ASSUME NEW b, Laid(b), NEW data, NEW n \in Nat, Has(data, n), n <= b.cur - Size(b)
    PROVE  /\ Laid(Appended(b, data, n))
           /\ Size(Appended(b, data, n)) = Size(b) + n
           /\ Contents(Appended(b, data, n)) = Contents(b) \o SubSeq(data, 1, n)
           /\ Appended(b, data, n).cur = b.cur
<1> DEFINE a == Appended(b, data, n)
           t == Contents(b) \o SubSeq(data, 1, n)
<1> SUFFICES Laid(a) /\ Size(a) = Size(b) + n /\ Contents(a) = t /\ a.cur = b.cur
  OBVIOUS
<1> HIDE DEF a, t
<1>0. /\ b.cur \in Nat /\ b.offset \in Nat /\ b.right \in Nat /\ b.space \in Nat /\ b.left \in Nat
      /\ b.offset + b.right + b.space = b.cur /\ b.left <= b.offset
      /\ b.left > 0 => b.space = 0
      /\ b.right = 0 => b.offset = 0
  BY DEF Laid, IsBuffer
<1>m. b.mem \in [0..(b.cur - 1) -> Cells]
  BY DEF Laid, IsBuffer
<1>1. Size(b) = b.right + b.left /\ Size(b) \in Nat
  BY <1>0 DEF Size
<1>2. Contents(b) \in Seq(Cells) /\ Len(Contents(b)) = Size(b)
  BY ContentsIsSeq
<1>3. /\ SubSeq(data, 1, n) \in Seq(Cells) /\ Len(SubSeq(data, 1, n)) = n
      /\ \A i \in 1..n : SubSeq(data, 1, n)[i] = data[i]
  <2>1. data \in Seq(Cells) /\ n <= Len(data)  BY SeqMonotonic DEF Cells, Has
  <2> QED  BY <2>1, PrefixOf
<1>4. /\ t \in Seq(Cells) /\ Len(t) = Size(b) + n
      /\ \A i \in 1..(Size(b) + n) :
            t[i] = IF i <= Size(b) THEN Contents(b)[i] ELSE data[i - Size(b)]
  <2>1. t = Contents(b) \o SubSeq(data, 1, n)  BY DEF t
  <2>2. t \in Seq(Cells) /\ Len(t) = Size(b) + n
    BY <2>1, <1>1, <1>2, <1>3, ConcatProperties
  <2>3. ASSUME NEW i \in 1..(Size(b) + n)
        PROVE  t[i] = IF i <= Size(b) THEN Contents(b)[i] ELSE data[i - Size(b)]
    <3>1. t[i] = IF i <= Size(b) THEN Contents(b)[i] ELSE SubSeq(data, 1, n)[i - Size(b)]
      BY <2>1, <1>1, <1>2, <1>3, ConcatProperties
    <3>2. ~(i <= Size(b)) => i - Size(b) \in 1..n  BY <1>1
    <3> QED  BY <3>1, <3>2, <1>3
  <2> QED  BY <2>2, <2>3
<1>5. CASE n < b.space
  <2> DEFINE m == Copy(b.mem, b.offset + b.right, data, 0, n)
  <2>1. b.left = 0  BY <1>0, <1>5
  <2>2. /\ m \in [0..(b.cur - 1) -> Cells]
        /\ \A i \in 0..(b.cur - 1) :
              m[i] = IF b.offset + b.right <= i /\ i < b.offset + b.right + n
                     THEN data[0 + i - (b.offset + b.right) + 1] ELSE b.mem[i]
    <3>1. MayCopy(b.cur, b.mem, b.offset + b.right, data, 0, n)
      BY <1>0, <1>m DEF MayCopy
    <3> QED  BY <3>1, CopyChanges
  <2> HIDE DEF m
  <2>3. a = Buffer(m, b.cur, b.offset, b.right + n, b.space - n, b.left)
    BY <1>5 DEF a, Appended, m
  <2>4. /\ a.mem = m /\ a.cur = b.cur /\ a.offset = b.offset /\ a.right = b.right + n
        /\ a.space = b.space - n /\ a.left = 0
    BY <2>1, <2>3 DEF Buffer
  <2>5. Laid(a) /\ Size(a) = Size(b) + n
    <3>1. a.mem \in [0..(a.cur - 1) -> Cells]  BY <2>2, <2>4
    <3>2. /\ a.cur \in Nat /\ a.offset \in Nat /\ a.right \in Nat
          /\ a.space \in Nat /\ a.left \in Nat
          /\ a.offset + a.right + a.space = a.cur
          /\ a.left <= a.offset
          /\ a.left > 0 => a.space = 0
          /\ a.right = 0 => a.offset = 0
          /\ a.right + a.left = Size(b) + n
      BY <1>0, <1>1, <1>5, <2>1, <2>4
    <3> QED  BY <3>1, <3>2 DEF Laid, IsBuffer, Size
  <2>6. ASSUME NEW i \in 1..(Size(b) + n) PROVE Contents(a)[i] = t[i]
    <3>1. Contents(a)[i] = m[b.offset + i - 1]
      BY <2>1, <2>4, <2>5, <1>1, <1>0 DEF Contents
    <3>2. b.offset + i - 1 \in 0..(b.cur - 1)  BY <1>0, <1>1, <1>5, <2>1
    <3>3. CASE i <= Size(b)
      <4>0. ~(b.offset + b.right <= b.offset + i - 1)  BY <1>0, <1>1, <2>1, <3>3
      <4>1. m[b.offset + i - 1] = b.mem[b.offset + i - 1]
        BY <2>2, <3>2, <4>0
      <4>2. Contents(b)[i] = b.mem[b.offset + i - 1]
        BY <1>0, <1>1, <2>1, <3>3 DEF Contents
      <4> QED  BY <3>1, <3>3, <4>1, <4>2, <1>4
    <3>4. CASE ~(i <= Size(b))
      <4>0. /\ b.offset + b.right <= b.offset + i - 1
            /\ b.offset + i - 1 < b.offset + b.right + n
        BY <1>0, <1>1, <2>1, <3>4
      <4>1. m[b.offset + i - 1] = data[0 + (b.offset + i - 1) - (b.offset + b.right) + 1]
        BY <2>2, <3>2, <4>0
      <4>2. 0 + (b.offset + i - 1) - (b.offset + b.right) + 1 = i - Size(b)
        BY <1>0, <1>1, <2>1
      <4> QED  BY <3>1, <3>4, <4>1, <4>2, <1>4
    <3> QED  BY <3>3, <3>4
  <2>7. Contents(a) \in Seq(Cells) /\ Len(Contents(a)) = Size(b) + n  BY <2>5, ContentsIsSeq
  <2>8. Contents(a) = t  BY <2>6, <2>7, <1>4, SeqEqual
  <2> QED  BY <2>4, <2>5, <2>8
<1>6. CASE ~(n < b.space)
  <2> DEFINE rest == n - b.space
             m1 == Copy(b.mem, b.offset + b.right, data, 0, b.space)
             m == Copy(m1, b.left, data, b.space, rest)
  <2>1. rest \in Nat /\ b.left + rest <= b.offset /\ b.space + rest = n
    BY <1>0, <1>1, <1>6
  <2>2. /\ m1 \in [0..(b.cur - 1) -> Cells]
        /\ \A i \in 0..(b.cur - 1) :
              m1[i] = IF b.offset + b.right <= i /\ i < b.offset + b.right + b.space
                      THEN data[0 + i - (b.offset + b.right) + 1] ELSE b.mem[i]
    <3>1. Has(data, 0 + b.space)  BY <1>0, <1>6 DEF Has
    <3>2. MayCopy(b.cur, b.mem, b.offset + b.right, data, 0, b.space)
      BY <3>1, <1>0, <1>m DEF MayCopy
    <3> QED  BY <3>2, CopyChanges
  <2> HIDE DEF m1
  <2>3. /\ m \in [0..(b.cur - 1) -> Cells]
        /\ \A i \in 0..(b.cur - 1) :
              m[i] = IF b.left <= i /\ i < b.left + rest
                     THEN data[b.space + i - b.left + 1] ELSE m1[i]
    <3> HIDE DEF rest
    <3>1. Has(data, b.space + rest)  BY <2>1
    <3>2. MayCopy(b.cur, m1, b.left, data, b.space, rest)
      BY <3>1, <2>1, <2>2, <1>0 DEF MayCopy
    <3> QED  BY <3>2, CopyChanges
  <2>4. a = Buffer(m, b.cur, b.offset, b.right + b.space, 0, b.left + rest)
    BY <1>6 DEF a, Appended, m, m1
  <2> HIDE DEF m
  <2>5. /\ a.mem = m /\ a.cur = b.cur /\ a.offset = b.offset /\ a.right = b.right + b.space
        /\ a.space = 0 /\ a.left = b.left + rest
    BY <2>4 DEF Buffer
  <2> HIDE DEF rest
  <2>6. Laid(a) /\ Size(a) = Size(b) + n
    <3>1. a.mem \in [0..(a.cur - 1) -> Cells]  BY <2>3, <2>5
    <3>2. /\ a.cur \in Nat /\ a.offset \in Nat /\ a.right \in Nat
          /\ a.space \in Nat /\ a.left \in Nat
          /\ a.offset + a.right + a.space = a.cur
          /\ a.left <= a.offset
          /\ a.left > 0 => a.space = 0
          /\ a.right = 0 => a.offset = 0
          /\ a.right + a.left = Size(b) + n
      BY <1>0, <1>1, <1>6, <2>1, <2>5
    <3> QED  BY <3>1, <3>2 DEF Laid, IsBuffer, Size
  <2>7. ASSUME NEW i \in 1..(Size(b) + n) PROVE Contents(a)[i] = t[i]
    <3>1. CASE i <= b.right
      <4>1. b.offset + i - 1 \in 0..(b.cur - 1)  BY <1>0, <3>1
      <4>2. Contents(a)[i] = m[b.offset + i - 1]
        BY <2>5, <2>6, <1>1, <1>0, <3>1 DEF Contents
      <4>3. ~(b.offset + i - 1 < b.left + rest) /\ ~(b.offset + b.right <= b.offset + i - 1)
        BY <1>0, <2>1, <3>1
      <4>4. m[b.offset + i - 1] = b.mem[b.offset + i - 1]  BY <2>2, <2>3, <4>1, <4>3
      <4>5. Contents(b)[i] = b.mem[b.offset + i - 1] /\ i <= Size(b)
        BY <1>0, <1>1, <3>1 DEF Contents
      <4> QED  BY <4>2, <4>4, <4>5, <1>4
    <3>2. CASE b.right < i /\ i <= b.right + b.space
      <4>1. b.offset + i - 1 \in 0..(b.cur - 1)  BY <1>0, <3>2
      <4>2. Contents(a)[i] = m[b.offset + i - 1]
        BY <2>5, <2>6, <1>1, <1>0, <3>2 DEF Contents
      <4>3. /\ ~(b.offset + i - 1 < b.left + rest)
            /\ b.offset + b.right <= b.offset + i - 1
            /\ b.offset + i - 1 < b.offset + b.right + b.space
        BY <1>0, <2>1, <3>2
      <4>4. m[b.offset + i - 1] = data[0 + (b.offset + i - 1) - (b.offset + b.right) + 1]
        BY <2>2, <2>3, <4>1, <4>3
      <4>5. /\ 0 + (b.offset + i - 1) - (b.offset + b.right) + 1 = i - Size(b)
            /\ ~(i <= Size(b))
        BY <1>0, <1>1, <3>2
      <4> QED  BY <4>2, <4>4, <4>5, <1>4
    <3>3. CASE b.right + b.space < i /\ i - (b.right + b.space) - 1 < b.left
      <4> DEFINE k == i - (b.right + b.space) - 1
      <4>1. b.space = 0 /\ k = i - b.right - 1  BY <1>0, <3>3
      <4>2. k \in 0..(b.cur - 1) /\ ~(b.left <= k) /\ ~(b.offset + b.right <= k)
            /\ i <= Size(b) /\ ~(i <= b.right)
        BY <1>0, <1>1, <3>3
      <4>3. Contents(a)[i] = m[k]
        BY <2>5, <2>6, <1>1, <1>0, <3>3 DEF Contents
      <4> HIDE DEF k
      <4>4. m[k] = b.mem[k]  BY <2>2, <2>3, <4>2
      <4>5. Contents(b)[i] = b.mem[k]
        BY <4>1, <4>2, <1>0, <1>1 DEF Contents
      <4> QED  BY <4>2, <4>3, <4>4, <4>5, <1>4
    <3>4. CASE b.right + b.space < i /\ ~(i - (b.right + b.space) - 1 < b.left)
      <4> DEFINE k == i - (b.right + b.space) - 1
      <4>1. k \in 0..(b.cur - 1) /\ b.left <= k /\ k < b.left + rest /\ ~(i <= Size(b))
        BY <1>0, <1>1, <2>1, <3>4
      <4>2. Contents(a)[i] = m[k]
        BY <2>5, <2>6, <1>1, <1>0, <3>4 DEF Contents
      <4>3. b.space + k - b.left + 1 = i - Size(b)  BY <1>0, <1>1
      <4> HIDE DEF k
      <4>4. m[k] = data[b.space + k - b.left + 1]  BY <2>3, <4>1
      <4> QED  BY <4>1, <4>2, <4>3, <4>4, <1>4
    <3>5. i <= b.right \/ (b.right < i /\ i <= b.right + b.space) \/ b.right + b.space < i
      BY <1>0, <1>1
    <3> QED  BY <3>1, <3>2, <3>3, <3>4, <3>5
  <2>8. Contents(a) \in Seq(Cells) /\ Len(Contents(a)) = Size(b) + n  BY <2>6, ContentsIsSeq
  <2>9. Contents(a) = t  BY <2>7, <2>8, <1>4, SeqEqual
  <2> QED  BY <2>5, <2>6, <2>9
<1> QED  BY <1>5, <1>6

-----------------------------------------------------------------------------
(* Reading. *)

\* A read takes the first bytes away, from the right and then from the left.
LEMMA DroppedIsLaid ==
    ASSUME NEW b, Laid(b), NEW n \in Nat, n <= Size(b)
    PROVE  /\ Laid(Dropped(b, n))
           /\ Size(Dropped(b, n)) = Size(b) - n
           /\ Contents(Dropped(b, n)) = SubSeq(Contents(b), n + 1, Size(b))
           /\ Dropped(b, n).cur = b.cur
<1> DEFINE d == Dropped(b, n)
           t == SubSeq(Contents(b), n + 1, Size(b))
<1> SUFFICES Laid(d) /\ Size(d) = Size(b) - n /\ Contents(d) = t /\ d.cur = b.cur
  OBVIOUS
<1> HIDE DEF d
<1>0. /\ b.cur \in Nat /\ b.offset \in Nat /\ b.right \in Nat /\ b.space \in Nat /\ b.left \in Nat
      /\ b.offset + b.right + b.space = b.cur /\ b.left <= b.offset
      /\ b.left > 0 => b.space = 0
      /\ b.right = 0 => b.offset = 0
  BY DEF Laid, IsBuffer
<1>m. b.mem \in [0..(b.cur - 1) -> Cells]
  BY DEF Laid, IsBuffer
<1>1. Size(b) = b.right + b.left /\ Size(b) \in Nat
  BY <1>0 DEF Size
<1>2. Contents(b) \in Seq(Cells) /\ Len(Contents(b)) = Size(b)
  BY ContentsIsSeq
<1>3. /\ t \in Seq(Cells) /\ Len(t) = Size(b) - n
      /\ \A i \in 1..(Size(b) - n) : t[i] = Contents(b)[i + n]
  <2>1. \A i \in (n + 1)..Size(b) : Contents(b)[i] \in Cells  BY <1>1, <1>2
  <2>2. /\ t \in Seq(Cells)
        /\ Len(t) = IF n + 1 <= Size(b) THEN Size(b) - (n + 1) + 1 ELSE 0
        /\ \A i \in 1..(Size(b) - (n + 1) + 1) : t[i] = Contents(b)[(n + 1) + i - 1]
    BY <1>1, <2>1, SubSeqProperties
  <2> HIDE DEF t
  <2> QED  BY <1>1, <2>2
<1> HIDE DEF t
<1>4. CASE n < b.right
  <2>1. /\ d.mem = b.mem /\ d.cur = b.cur /\ d.offset = b.offset + n /\ d.right = b.right - n
        /\ d.space = b.space /\ d.left = b.left
    BY <1>4 DEF d, Dropped, Buffer
  <2>2. Laid(d) /\ Size(d) = Size(b) - n
    <3>1. d.mem \in [0..(d.cur - 1) -> Cells]  BY <1>m, <2>1
    <3>2. /\ d.cur \in Nat /\ d.offset \in Nat /\ d.right \in Nat
          /\ d.space \in Nat /\ d.left \in Nat
          /\ d.offset + d.right + d.space = d.cur
          /\ d.left <= d.offset
          /\ d.left > 0 => d.space = 0
          /\ d.right = 0 => d.offset = 0
          /\ d.right + d.left = Size(b) - n
      BY <1>0, <1>1, <1>4, <2>1
    <3> QED  BY <3>1, <3>2 DEF Laid, IsBuffer, Size
  <2>3. ASSUME NEW i \in 1..(Size(b) - n) PROVE Contents(d)[i] = Contents(b)[i + n]
    <3>1. i + n \in 1..Size(b)  BY <1>1
    <3>2. Contents(d)[i] = IF i <= b.right - n THEN b.mem[b.offset + n + i - 1]
                                               ELSE b.mem[i - (b.right - n) - 1]
      BY <2>1, <2>2, <1>1 DEF Contents
    <3>3. Contents(b)[i + n] = IF i + n <= b.right THEN b.mem[b.offset + (i + n) - 1]
                                                   ELSE b.mem[(i + n) - b.right - 1]
      BY <3>1 DEF Contents
    <3>4. /\ (i <= b.right - n) <=> (i + n <= b.right)
          /\ b.offset + n + i - 1 = b.offset + (i + n) - 1
          /\ i - (b.right - n) - 1 = (i + n) - b.right - 1
      BY <1>0
    <3> QED  BY <3>2, <3>3, <3>4
  <2>4. Contents(d) = t
    <3>1. Contents(d) \in Seq(Cells) /\ Len(Contents(d)) = Size(b) - n  BY <2>2, ContentsIsSeq
    <3> QED  BY <3>1, <2>3, <1>3, SeqEqual
  <2> QED  BY <2>1, <2>2, <2>4
<1>5. CASE ~(n < b.right) /\ n = Size(b)
  <2>1. d = Emptied(b)  BY <1>5 DEF d, Dropped
  <2>2. t = <<>>  BY <1>3, <1>5, <1>1
  <2> QED  BY <2>1, <2>2, <1>1, <1>5, EmptiedIsLaid
<1>6. CASE ~(n < b.right) /\ n # Size(b)
  <2>1. /\ d.mem = b.mem /\ d.cur = b.cur /\ d.offset = n - b.right
        /\ d.right = b.left - (n - b.right) /\ d.space = b.cur - b.left /\ d.left = 0
    BY <1>6 DEF d, Dropped, Buffer
  <2>2. Laid(d) /\ Size(d) = Size(b) - n
    <3>1. d.mem \in [0..(d.cur - 1) -> Cells]  BY <1>m, <2>1
    <3>2. /\ d.cur \in Nat /\ d.offset \in Nat /\ d.right \in Nat
          /\ d.space \in Nat /\ d.left \in Nat
          /\ d.offset + d.right + d.space = d.cur
          /\ d.left <= d.offset
          /\ d.left > 0 => d.space = 0
          /\ d.right = 0 => d.offset = 0
          /\ d.right + d.left = Size(b) - n
      <4>0. b.right <= n /\ n < b.right + b.left  BY <1>0, <1>1, <1>6
      <4>1. n - b.right \in Nat /\ b.left - (n - b.right) \in Nat \ {0} /\ b.cur - b.left \in Nat
        BY <1>0, <4>0
      <4>2. /\ (n - b.right) + (b.left - (n - b.right)) + (b.cur - b.left) = b.cur
            /\ b.left - (n - b.right) = Size(b) - n
        BY <1>0, <1>1, <4>1
      <4>3. d.offset \in Nat /\ d.right \in Nat \ {0} /\ d.space \in Nat /\ d.left = 0 /\ d.cur = b.cur
        BY <2>1, <4>1
      <4>4. d.offset + d.right + d.space = d.cur /\ d.right = Size(b) - n
        BY <2>1, <4>2
      <4> QED  BY <1>0, <4>3, <4>4
    <3> QED  BY <3>1, <3>2 DEF Laid, IsBuffer, Size
  <2>3. ASSUME NEW i \in 1..(Size(b) - n) PROVE Contents(d)[i] = Contents(b)[i + n]
    <3>1. i + n \in 1..Size(b) /\ ~(i + n <= b.right) /\ i <= b.left - (n - b.right)
      BY <1>0, <1>1, <1>6
    <3>2. Contents(d)[i] = b.mem[(n - b.right) + i - 1]
      BY <2>1, <2>2, <1>1, <3>1 DEF Contents
    <3>3. Contents(b)[i + n] = b.mem[(i + n) - b.right - 1]
      BY <3>1 DEF Contents
    <3>4. (n - b.right) + i - 1 = (i + n) - b.right - 1
      BY <1>0
    <3> QED  BY <3>2, <3>3, <3>4
  <2>4. Contents(d) = t
    <3>1. Contents(d) \in Seq(Cells) /\ Len(Contents(d)) = Size(b) - n  BY <2>2, ContentsIsSeq
    <3> QED  BY <3>1, <2>3, <1>3, SeqEqual
  <2> QED  BY <2>1, <2>2, <2>4
<1> QED  BY <1>4, <1>5, <1>6

-----------------------------------------------------------------------------
(* Steps: each call keeps the layout and is a step of the FIFO. *)

LEMMA DataIsSeq ==
    ASSUME NEW n \in Nat, NEW data \in DataUpTo(n)
    PROVE  data \in Seq(Byte) /\ Len(data) \in Nat /\ Len(data) <= n
<1>1. PICK m \in 0..n : data \in [1..m -> Byte]  BY DEF DataUpTo
<1>2. data \in Seq(Byte) /\ Len(data) = m  BY <1>1, FunctionIsSeq
<1> QED  BY <1>1, <1>2

\* What the invariant says of a buffer that may hold bytes of a given capacity.
Holds(b, cap) ==
    /\ Laid(b)
    /\ Contents(b) \in Seq(Byte)
    /\ Size(b) <= MaxSize
    /\ b.cur > 0 /\ cap \in Nat
    /\ cap > 0 => b.cur <= cap

LEMMA InvariantHolds == LayoutInvariant <=> Holds(buf, capacity)
  BY DEF LayoutInvariant, Holds

\* The numbers that a buffer's contents give.
LEMMA HoldsNumbers ==
    ASSUME NEW b, NEW cap, Holds(b, cap)
    PROVE  /\ b.cur \in Nat /\ Size(b) \in Nat /\ Size(b) <= b.cur /\ Size(b) <= MaxSize
           /\ Len(Contents(b)) = Size(b) /\ MaxSize \in Nat /\ cap \in Nat
  BY ContentsIsSeq, CapacityAssumption DEF Holds, Laid, IsBuffer

LEMMA DefaultIsPositive == DefaultCapacity \in Nat /\ DefaultCapacity > 0
  BY CapacityAssumption

\* Storing n bytes.
LEMMA AppendedHolds ==
    ASSUME NEW b, NEW cap, Holds(b, cap), NEW data, NEW n \in Nat, Has(data, n),
           n <= b.cur - Size(b), Size(b) + n <= MaxSize
    PROVE  /\ Holds(Appended(b, data, n), cap)
           /\ Contents(Appended(b, data, n)) = Contents(b) \o SubSeq(data, 1, n)
<1>1. /\ Laid(Appended(b, data, n))
      /\ Size(Appended(b, data, n)) = Size(b) + n
      /\ Contents(Appended(b, data, n)) = Contents(b) \o SubSeq(data, 1, n)
      /\ Appended(b, data, n).cur = b.cur
  BY AppendedIsLaid DEF Holds
<1>2. Contents(b) \o SubSeq(data, 1, n) \in Seq(Byte)
  BY PrefixOf, ConcatProperties DEF Has, Holds
<1> QED  BY <1>1, <1>2 DEF Holds

\* Taking n bytes away.
LEMMA DroppedHolds ==
    ASSUME NEW b, NEW cap, Holds(b, cap), NEW n \in Nat, n <= Size(b)
    PROVE  /\ Holds(Dropped(b, n), cap)
           /\ Contents(Dropped(b, n)) = SubSeq(Contents(b), n + 1, Len(Contents(b)))
<1>0. Size(b) \in Nat /\ Size(b) <= MaxSize /\ Len(Contents(b)) = Size(b) /\ MaxSize \in Nat
  BY HoldsNumbers
<1>1. /\ Laid(Dropped(b, n))
      /\ Size(Dropped(b, n)) = Size(b) - n
      /\ Contents(Dropped(b, n)) = SubSeq(Contents(b), n + 1, Size(b))
      /\ Dropped(b, n).cur = b.cur
  BY DroppedIsLaid DEF Holds
<1>2. SubSeq(Contents(b), n + 1, Size(b)) \in Seq(Byte)
  <2>1. Contents(b) \in Seq(Byte)  BY DEF Holds
  <2>2. \A i \in (n + 1)..Size(b) : Contents(b)[i] \in Byte  BY <2>1, <1>0
  <2> QED  BY <1>0, <2>1, <2>2, SubSeqProperties
<1>3. Size(b) - n <= MaxSize  BY <1>0
<1> QED  BY <1>0, <1>1, <1>2, <1>3 DEF Holds

\* Emptying a buffer.
LEMMA EmptiedHolds ==
    ASSUME NEW b, NEW cap, Holds(b, cap)
    PROVE  Holds(Emptied(b), cap) /\ Contents(Emptied(b)) = <<>>
<1>1. /\ Laid(Emptied(b)) /\ Size(Emptied(b)) = 0 /\ Contents(Emptied(b)) = <<>>
      /\ Emptied(b).cur = b.cur
  BY EmptiedIsLaid DEF Holds
<1>2. <<>> \in Seq(Byte)  OBVIOUS
<1>3. 0 <= MaxSize  BY CapacityAssumption
<1> QED  BY <1>1, <1>2, <1>3 DEF Holds

\* A new allocation.
LEMMA FreshHolds ==
    ASSUME NEW n \in Nat, n > 0, NEW cap \in Nat, cap > 0 => n <= cap
    PROVE  Holds(Fresh(n), cap) /\ Contents(Fresh(n)) = <<>>
<1>1. <<>> \in Seq(Byte)  OBVIOUS
<1>2. 0 <= MaxSize  BY CapacityAssumption
<1> QED  BY <1>1, <1>2, FreshIsLaid DEF Holds

\* Moving to an allocation that the capacity allows.
LEMMA MovedHolds ==
    ASSUME NEW b, NEW cap, Holds(b, cap), NEW n \in Nat, n > 0, Size(b) <= n,
           NEW c \in Nat, c > 0 => n <= c
    PROVE  Holds(Moved(b, n), c) /\ Contents(Moved(b, n)) = Contents(b)
  BY MovedIsLaid DEF Holds

\* Making room.
LEMMA WithRoomHolds ==
    ASSUME NEW b, NEW cap, Holds(b, cap), NEW n \in Nat, Size(b) + n <= MaxSize
    PROVE  LET room == WithRoom(b, cap, n)
           IN /\ Holds(room, cap)
              /\ Contents(room) = Contents(b)
              /\ Size(room) = Size(b)
              /\ room.cur - Size(room) >= n \/ (cap > 0 /\ room.cur = cap)
  BY WithRoomIsLaid DEF Holds

\* write(pData, maxSize) takes what the capacity allows, behind what is there.
LEMMA WriteStep ==
    ASSUME Holds(buf, capacity), NEW data \in DataUpTo(MaxSize - Size(buf)), Write(data)
    PROVE  Holds(buf', capacity') /\ Fifo!Write(data)
<1> DEFINE room == WithRoom(buf, capacity, Len(data))
           n == Least(Len(data), room.cur - Size(room))
<1>0. /\ Size(buf) \in Nat /\ MaxSize \in Nat /\ Size(buf) <= MaxSize
      /\ Len(Contents(buf)) = Size(buf)
  BY HoldsNumbers
<1>1. MaxSize - Size(buf) \in Nat  BY <1>0
<1>2. data \in Seq(Byte) /\ Len(data) \in Nat /\ Len(data) <= MaxSize - Size(buf)
  BY <1>1, DataIsSeq
<1>3. Size(buf) + Len(data) <= MaxSize  BY <1>0, <1>2
<1>4. /\ Holds(room, capacity)
      /\ Contents(room) = Contents(buf)
      /\ Size(room) = Size(buf)
      /\ room.cur - Size(room) >= Len(data) \/ (capacity > 0 /\ room.cur = capacity)
  BY <1>2, <1>3, WithRoomHolds
<1>5. buf' = Appended(room, data, n) /\ count' = n /\ got' = <<>> /\ capacity' = capacity
  BY DEF Write
<1> HIDE DEF room
<1>6. /\ room.cur \in Nat /\ Size(room) <= room.cur /\ capacity \in Nat
      /\ capacity > 0 => room.cur <= capacity
  BY <1>4, HoldsNumbers DEF Holds
<1>7. /\ n \in Nat /\ n <= Len(data) /\ n <= room.cur - Size(room)
      /\ n = Len(data) \/ (capacity > 0 /\ Size(buf) + n = capacity)
      /\ capacity > 0 => Size(buf) + n <= capacity
      /\ Size(buf) + n <= MaxSize
  BY <1>0, <1>2, <1>3, <1>4, <1>6 DEF Least
<1> HIDE DEF n
<1>8. Has(data, n)  BY <1>2, <1>7 DEF Has
<1>9. /\ Holds(Appended(room, data, n), capacity)
      /\ Contents(Appended(room, data, n)) = Contents(buf) \o SubSeq(data, 1, n)
  BY <1>4, <1>7, <1>8, AppendedHolds
<1>10. Fifo!Write(data)
  <2>1. n \in 0..Len(data)  BY <1>2, <1>7
  <2>2. n = Len(data) \/ (capacity > 0 /\ Len(Contents(buf)) + n = capacity)  BY <1>0, <1>7
  <2>3. n > 0 => (capacity > 0 => Len(Contents(buf)) + n <= capacity)  BY <1>0, <1>7
  <2>4. Contents(buf') = Contents(buf) \o SubSeq(data, 1, n)  BY <1>5, <1>9
  <2> QED  BY <1>5, <2>1, <2>2, <2>3, <2>4 DEF Fifo!Write, Fifo!Fits
<1> QED  BY <1>5, <1>9, <1>10

\* write(dataSource) takes what the source gives.
LEMMA WriteFromStep ==
    ASSUME Holds(buf, capacity), NEW data \in DataUpTo(MaxSize - Size(buf)),
           NEW announced \in 0..(MaxSize - Size(buf)), WriteFrom(announced, data)
    PROVE  Holds(buf', capacity') /\ Fifo!WriteFrom(data)
<1> DEFINE room == WithRoom(buf, capacity, announced)
<1>0. /\ Size(buf) \in Nat /\ MaxSize \in Nat /\ Size(buf) <= MaxSize
      /\ Len(Contents(buf)) = Size(buf)
  BY HoldsNumbers
<1>1. MaxSize - Size(buf) \in Nat  BY <1>0
<1>2. data \in Seq(Byte) /\ Len(data) \in Nat /\ Len(data) <= MaxSize - Size(buf)
  BY <1>1, DataIsSeq
<1>3. announced \in Nat /\ Size(buf) + announced <= MaxSize  BY <1>0
<1>4. Holds(room, capacity) /\ Contents(room) = Contents(buf) /\ Size(room) = Size(buf)
  BY <1>3, WithRoomHolds
<1>5. /\ Len(data) <= room.cur - Size(room)
      /\ buf' = Appended(room, data, Len(data)) /\ count' = Len(data)
      /\ got' = <<>> /\ capacity' = capacity
  BY DEF WriteFrom
<1> HIDE DEF room
<1>6. /\ room.cur \in Nat /\ capacity \in Nat /\ (capacity > 0 => room.cur <= capacity)
  BY <1>4, HoldsNumbers DEF Holds
<1>7. Has(data, Len(data)) /\ Size(room) + Len(data) <= MaxSize
  BY <1>0, <1>2, <1>4 DEF Has
<1>8. /\ Holds(Appended(room, data, Len(data)), capacity)
      /\ Contents(Appended(room, data, Len(data))) = Contents(buf) \o SubSeq(data, 1, Len(data))
  BY <1>2, <1>4, <1>5, <1>7, AppendedHolds
<1>9. SubSeq(data, 1, Len(data)) = data
  BY <1>2, PrefixOf, SeqEqual
<1>10. Fifo!WriteFrom(data)
  <2>1. capacity > 0 => Len(Contents(buf)) + Len(data) <= capacity
    BY <1>0, <1>2, <1>4, <1>5, <1>6
  <2>2. Contents(buf') = Contents(buf) \o data  BY <1>5, <1>8, <1>9
  <2> QED  BY <1>5, <2>1, <2>2 DEF Fifo!WriteFrom, Fifo!Fits
<1> QED  BY <1>5, <1>8, <1>10

\* read() and popFront() take the first bytes away.
LEMMA DropStep ==
    ASSUME Holds(buf, capacity), NEW n \in Nat, n <= Size(buf), NEW shown \in BOOLEAN,
           buf' = Dropped(buf, n), count' = n, capacity' = capacity,
           got' = IF shown THEN SubSeq(Contents(buf), 1, n) ELSE <<>>
    PROVE  Holds(buf', capacity') /\ Fifo!Read(n, shown)
<1>1. /\ Holds(Dropped(buf, n), capacity)
      /\ Contents(Dropped(buf, n)) = SubSeq(Contents(buf), n + 1, Len(Contents(buf)))
  BY DroppedHolds
<1>2. n <= Len(Contents(buf))  BY HoldsNumbers
<1> QED  BY <1>1, <1>2 DEF Fifo!Read

LEMMA ReadsStep ==
    ASSUME Holds(buf, capacity), NEW m \in 0..MaxSize, Read(m) \/ ReadInto(m) \/ PopFront(m)
    PROVE  /\ Holds(buf', capacity')
           /\ \E n \in 0..MaxSize, shown \in BOOLEAN : Fifo!Read(n, shown)
<1> DEFINE n == Least(m, Size(buf))
<1>0. MaxSize \in Nat /\ Size(buf) \in Nat /\ m \in 0..MaxSize
  BY HoldsNumbers
<1>1. n \in 0..MaxSize /\ n \in Nat /\ n <= Size(buf)
  BY <1>0 DEF Least
<1>2. m <= Size(buf) => n = m  BY DEF Least
<1>3. /\ buf' = Dropped(buf, n) /\ count' = n /\ capacity' = capacity
      /\ \E shown \in BOOLEAN :
             got' = IF shown THEN SubSeq(Contents(buf), 1, n) ELSE <<>>
  <2>1. CASE Read(m)  BY <2>1 DEF Read
  <2>2. CASE ReadInto(m)
    <3>1. m <= Size(buf)  BY <2>2 DEF ReadInto
    <3> QED  BY <2>2, <3>1, <1>2 DEF ReadInto
  <2>3. CASE PopFront(m)  BY <2>3 DEF PopFront
  <2> QED  BY <2>1, <2>2, <2>3
<1> HIDE DEF n
<1>4. PICK shown \in BOOLEAN : got' = IF shown THEN SubSeq(Contents(buf), 1, n) ELSE <<>>
  BY <1>3
<1>5. Holds(buf', capacity') /\ Fifo!Read(n, shown)
  BY <1>1, <1>3, <1>4, DropStep
<1> QED  BY <1>1, <1>5

\* readAll() gives all bytes and leaves none.
LEMMA ReadAllStep ==
    ASSUME Holds(buf, capacity), ReadAll
    PROVE  /\ Holds(buf', capacity')
           /\ \E n \in 0..MaxSize : Fifo!Read(n, TRUE)
<1> DEFINE n == Len(Contents(buf))
<1>1. buf' = Emptied(buf) /\ got' = Contents(buf) /\ count' = Size(buf) /\ capacity' = capacity
  BY DEF ReadAll
<1>2. Holds(Emptied(buf), capacity) /\ Contents(Emptied(buf)) = <<>>
  BY EmptiedHolds
<1>3. n \in 0..MaxSize /\ n \in Nat /\ n = Size(buf)  BY HoldsNumbers
<1>4. Contents(buf) \in Seq(Byte)  BY DEF Holds
<1>5. SubSeq(Contents(buf), 1, n) = Contents(buf)  BY <1>3, <1>4, PrefixOf, SeqEqual
<1>6. SubSeq(Contents(buf), n + 1, n) = <<>>  BY <1>3, <1>4, SubSeqProperties
<1>7. Contents(buf') = SubSeq(Contents(buf), n + 1, n)  BY <1>1, <1>2, <1>6
<1>8. Fifo!Read(n, TRUE)  BY <1>1, <1>3, <1>5, <1>7 DEF Fifo!Read
<1> QED  BY <1>1, <1>2, <1>3, <1>8

\* slice() changes nothing that its caller sees, even if it moves the bytes.
LEMMA SliceStep ==
    ASSUME Holds(buf, capacity), NEW pos \in 0..MaxSize, NEW n \in 0..MaxSize,
           NEW threadEnds \in BOOLEAN, Slice(pos, n, threadEnds)
    PROVE  Holds(buf', capacity') /\ Fifo!Slice(pos, n)
<1>0. /\ Size(buf) \in Nat /\ buf.cur \in Nat /\ Size(buf) <= buf.cur
      /\ Len(Contents(buf)) = Size(buf) /\ capacity \in Nat
      /\ buf.cur > 0 /\ (capacity > 0 => buf.cur <= capacity)
  BY HoldsNumbers DEF Holds
<1>1. /\ buf' = Moved(buf, buf.cur) \/ buf' = buf
      /\ got' = SubSeq(Contents(buf), pos + 1, pos + n) /\ count' = n
      /\ capacity' = capacity /\ pos + n <= Size(buf)
  BY DEF Slice
<1>2. Holds(Moved(buf, buf.cur), capacity) /\ Contents(Moved(buf, buf.cur)) = Contents(buf)
  BY <1>0, MovedHolds
<1>3. Holds(buf', capacity') /\ Contents(buf') = Contents(buf)
  BY <1>1, <1>2
<1> QED  BY <1>0, <1>1, <1>3 DEF Fifo!Slice

\* A capacity is taken unless more bytes than that are waiting.
LEMMA SetCapacityStep ==
    ASSUME Holds(buf, capacity), NEW c \in Capacities, SetCapacity(c)
    PROVE  Holds(buf', capacity') /\ Fifo!SetCapacity(c)
<1>0. /\ Size(buf) \in Nat /\ buf.cur \in Nat /\ Size(buf) <= buf.cur /\ Size(buf) <= MaxSize
      /\ Len(Contents(buf)) = Size(buf) /\ buf.cur > 0
      /\ c \in Nat /\ DefaultCapacity \in Nat /\ DefaultCapacity > 0
  <2>1. c \in Nat  BY CapacityAssumption
  <2>2. buf.cur > 0  BY DEF Holds
  <2> QED  BY <2>1, <2>2, HoldsNumbers, DefaultIsPositive
<1>1. CASE c >= buf.cur \/ c = 0
  <2>1. capacity' = c /\ count' = 1 /\ buf' = buf /\ got' = <<>>  BY <1>1 DEF SetCapacity
  <2>2. c > 0 => buf.cur <= c  BY <1>0, <1>1
  <2>3. Holds(buf', capacity')  BY <1>0, <2>1, <2>2 DEF Holds
  <2>4. c = 0 \/ Len(Contents(buf)) <= c  BY <1>0, <1>1
  <2> QED  BY <2>1, <2>3, <2>4 DEF Fifo!SetCapacity
<1>2. CASE ~(c >= buf.cur \/ c = 0) /\ Size(buf) > c
  <2>1. capacity' = capacity /\ count' = 0 /\ buf' = buf /\ got' = <<>>  BY <1>2 DEF SetCapacity
  <2>2. ~(c = 0 \/ Len(Contents(buf)) <= c)  BY <1>0, <1>2
  <2> QED  BY <2>1, <2>2 DEF Fifo!SetCapacity
<1>3. CASE ~(c >= buf.cur \/ c = 0) /\ ~(Size(buf) > c)
  <2> DEFINE n == Least(c, Most(DefaultCapacity, BitCeil(Size(buf))))
  <2>1. capacity' = c /\ count' = 1 /\ buf' = Moved(buf, n) /\ got' = <<>>
    BY <1>3 DEF SetCapacity
  <2>2. BitCeil(Size(buf)) \in Nat /\ BitCeil(Size(buf)) >= Size(buf)
    BY <1>0, BitCeilIsEnough
  <2>3. n \in Nat /\ n > 0 /\ Size(buf) <= n /\ n <= c
    BY <1>0, <1>3, <2>2 DEF Least, Most
  <2> HIDE DEF n
  <2>4. Holds(Moved(buf, n), c) /\ Contents(Moved(buf, n)) = Contents(buf)
    BY <1>0, <2>3, MovedHolds
  <2>5. c = 0 \/ Len(Contents(buf)) <= c  BY <1>0, <1>3
  <2> QED  BY <2>1, <2>4, <2>5 DEF Fifo!SetCapacity
<1> QED  BY <1>1, <1>2, <1>3

\* clear() empties the buffer; reset() does only if there is nothing to lose.
LEMMA ClearStep ==
    ASSUME Holds(buf, capacity), Clear
    PROVE  Holds(buf', capacity') /\ Fifo!Clear
<1>0. /\ DefaultCapacity \in Nat /\ DefaultCapacity > 0 /\ buf.cur \in Nat /\ capacity \in Nat
      /\ capacity > 0 => buf.cur <= capacity
  <2>1. capacity > 0 => buf.cur <= capacity  BY DEF Holds
  <2> QED  BY <2>1, HoldsNumbers, DefaultIsPositive
<1>1. /\ buf' = IF buf.cur > DefaultCapacity THEN Fresh(DefaultCapacity) ELSE Emptied(buf)
      /\ got' = <<>> /\ count' = 1 /\ capacity' = capacity
  BY DEF Clear
<1>2. Holds(buf', capacity') /\ Contents(buf') = <<>>
  <2>1. CASE buf.cur > DefaultCapacity
    <3>1. capacity > 0 => DefaultCapacity <= capacity  BY <1>0, <2>1
    <3>2. Holds(Fresh(DefaultCapacity), capacity) /\ Contents(Fresh(DefaultCapacity)) = <<>>
      BY <1>0, <3>1, FreshHolds
    <3> QED  BY <1>1, <2>1, <3>2
  <2>2. CASE ~(buf.cur > DefaultCapacity)
    BY <1>1, <2>2, EmptiedHolds
  <2> QED  BY <2>1, <2>2
<1> QED  BY <1>1, <1>2 DEF Fifo!Clear

LEMMA ResetStep ==
    ASSUME Holds(buf, capacity), Reset
    PROVE  Holds(buf', capacity') /\ (Fifo!Clear \/ Fifo!RefuseReset)
<1>1. CASE Size(buf) = 0
  BY <1>1, ClearStep DEF Reset
<1>2. CASE Size(buf) # 0
  <2>1. buf' = buf /\ capacity' = capacity /\ got' = <<>> /\ count' = 0  BY <1>2 DEF Reset
  <2>2. Contents(buf) # <<>>  BY <1>2, HoldsNumbers
  <2> QED  BY <2>1, <2>2 DEF Fifo!RefuseReset
<1> QED  BY <1>1, <1>2

\* Every step keeps the layout and is a step of the FIFO.
LEMMA StepHolds ==
    ASSUME Holds(buf, capacity), [Next]_vars
    PROVE  Holds(buf', capacity') /\ [Fifo!Next]_(Fifo!vars)
<1>0. MaxSize \in Nat /\ Size(buf) \in Nat /\ Size(buf) <= MaxSize  BY HoldsNumbers
<1>1. DataUpTo(MaxSize - Size(buf)) \subseteq DataUpTo(MaxSize)
  <2>1. 0..(MaxSize - Size(buf)) \subseteq 0..MaxSize  BY <1>0
  <2> QED  BY <2>1 DEF DataUpTo
<1>2. ASSUME NEW data \in DataUpTo(MaxSize - Size(buf)), Write(data)
      PROVE  Holds(buf', capacity') /\ Fifo!Next
  BY <1>1, <1>2, WriteStep DEF Fifo!Next
<1>3. ASSUME NEW data \in DataUpTo(MaxSize - Size(buf)),
             NEW announced \in 0..(MaxSize - Size(buf)), WriteFrom(announced, data)
      PROVE  Holds(buf', capacity') /\ Fifo!Next
  BY <1>1, <1>3, WriteFromStep DEF Fifo!Next
<1>4. ASSUME NEW n \in 0..MaxSize, Read(n) \/ ReadInto(n) \/ PopFront(n)
      PROVE  Holds(buf', capacity') /\ Fifo!Next
  BY <1>4, ReadsStep DEF Fifo!Next
<1>5. ASSUME NEW pos \in 0..MaxSize, NEW n \in 0..MaxSize, NEW threadEnds \in BOOLEAN,
             Slice(pos, n, threadEnds)
      PROVE  Holds(buf', capacity') /\ Fifo!Next
  BY <1>5, SliceStep DEF Fifo!Next
<1>6. ASSUME NEW c \in Capacities, SetCapacity(c)
      PROVE  Holds(buf', capacity') /\ Fifo!Next
  BY <1>6, SetCapacityStep DEF Fifo!Next
<1>7. CASE ReadAll  BY <1>7, ReadAllStep DEF Fifo!Next
<1>8. CASE Clear  BY <1>8, ClearStep DEF Fifo!Next
<1>9. CASE Reset  BY <1>9, ResetStep DEF Fifo!Next
<1>10. CASE UNCHANGED vars
  <2>1. buf' = buf /\ capacity' = capacity /\ got' = got /\ count' = count  BY <1>10 DEF vars
  <2> QED  BY <2>1 DEF Fifo!vars
<1> QED  BY <1>2, <1>3, <1>4, <1>5, <1>6, <1>7, <1>8, <1>9, <1>10 DEF Next

LEMMA InitHolds ==
    ASSUME Init
    PROVE  Holds(buf, capacity) /\ Fifo!Init
<1> DEFINE n == IF capacity > 0 THEN Least(capacity, DefaultCapacity) ELSE DefaultCapacity
<1>1. capacity \in Capacities /\ buf = Fresh(n) /\ got = <<>> /\ count = 0  BY DEF Init
<1>2. capacity \in Nat /\ n \in Nat /\ n > 0 /\ (capacity > 0 => n <= capacity)
  BY <1>1, CapacityAssumption DEF Least
<1> HIDE DEF n
<1>3. Holds(buf, capacity) /\ Contents(buf) = <<>>  BY <1>1, <1>2, FreshHolds
<1> QED  BY <1>1, <1>3 DEF Fifo!Init

-----------------------------------------------------------------------------
\* The buffer's layout always describes its allocation: its blocks and free spaces
\* tile it, it never outgrows the capacity, and it only holds bytes that were written.
THEOREM LayoutIsInvariant == Spec => []LayoutInvariant
<1>1. Init => LayoutInvariant  BY InitHolds, InvariantHolds
<1>2. LayoutInvariant /\ [Next]_vars => LayoutInvariant'
  BY StepHolds DEF LayoutInvariant, Holds
<1> QED  BY <1>1, <1>2, PTL DEF Spec

\* Whatever the capacity, the default allocation and the sizes asked for, the buffer
\* is a bounded FIFO: no byte is lost, duplicated or reordered when it wraps, grows,
\* shrinks or is sliced.
THEOREM RingBufferImplementsFifo == Spec => ImplementsFifo
<1>1. Init => Fifo!Init  BY InitHolds
<1>2. LayoutInvariant /\ [Next]_vars => [Fifo!Next]_(Fifo!vars)
  BY StepHolds, InvariantHolds
<1> QED  BY <1>1, <1>2, LayoutIsInvariant, PTL DEF Spec, ImplementsFifo, Fifo!Spec
=============================================================================
