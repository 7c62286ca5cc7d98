------------------------------ MODULE RingBuffer ------------------------------
(***************************************************************************)
(* Kourier::RingBuffer, the buffer behind both directions of an IOChannel: *)
(* one allocation in which the data begins at an offset (m_pData), runs to *)
(* the right (m_rightBlockSize) and may go on at the allocation's start    *)
(* (m_leftBlockSize).  It grows by reallocation up to its capacity.        *)
(* Bytes are opaque; what a fresh allocation holds is NoByte.              *)
(***************************************************************************)
EXTENDS Naturals, Sequences

CONSTANTS
    Byte,             \* the bytes
    NoByte,           \* what an allocation holds where nothing was stored
    DefaultCapacity,  \* defaultCapacity()
    PowersOfTwo,      \* the values of std::bit_ceil
    Capacities,       \* the capacities asked for, 0 for no limit
    MaxSize           \* bound: bytes held or written at a time

ASSUME ByteAssumption == NoByte \notin Byte
ASSUME CapacityAssumption ==
    DefaultCapacity \in Nat \ {0} /\ Capacities \subseteq Nat /\ MaxSize \in Nat
ASSUME PowersAssumption ==
    PowersOfTwo \subseteq Nat /\ \E p \in PowersOfTwo : p >= MaxSize

VARIABLES
    buf,        \* the allocation and the four sizes that describe its layout
    capacity,   \* m_capacity
    got,        \* the bytes the last call has handed out
    count       \* the size, or success, the last call has returned

vars == <<buf, capacity, got, count>>

-----------------------------------------------------------------------------
Least(m, n) == IF m <= n THEN m ELSE n
Most(m, n) == IF m >= n THEN m ELSE n

\* std::bit_ceil
BitCeil(n) ==
    CHOOSE p \in PowersOfTwo : p >= n /\ \A q \in PowersOfTwo : q >= n => p <= q

Size(b) == b.right + b.left

\* The bytes in the buffer, oldest first.
Contents(b) ==
    [i \in 1..Size(b) |-> IF i <= b.right THEN b.mem[b.offset + i - 1]
                                          ELSE b.mem[i - b.right - 1]]

\* An allocation of n bytes and what describes its layout.
Buffer(mem, n, offset, right, space, left) ==
    [mem |-> mem, cur |-> n, offset |-> offset, right |-> right, space |-> space, left |-> left]

\* A new allocation of n bytes with nothing in it.
Fresh(n) == Buffer([i \in 0..(n - 1) |-> NoByte], n, 0, 0, n, 0)

\* The same allocation with nothing in it.
Emptied(b) == Buffer(b.mem, b.cur, 0, 0, b.cur, 0)

\* A new allocation of n bytes with the contents moved to its start.
Moved(b, n) ==
    Buffer([i \in 0..(n - 1) |-> IF i < Size(b) THEN Contents(b)[i + 1] ELSE NoByte],
           n, 0, Size(b), n - Size(b), 0)

\* tryToEnlargeBuffer(), called if there is no room for n more bytes.
WithRoom(b, cap, n) ==
    IF b.cur - Size(b) >= n \/ b.cur = cap THEN b
    ELSE Moved(b, IF cap > 0 THEN Least(cap, BitCeil(Size(b) + n)) ELSE BitCeil(Size(b) + n))

\* Bytes skipped + 1 .. skipped + n of data, copied to the allocation from at on.
Copy(mem, at, data, skipped, n) ==
    [i \in DOMAIN mem |->
        IF at <= i /\ i < at + n THEN data[skipped + i - at + 1] ELSE mem[i]]

\* Mutant of Appended: what does not fit at the right goes on at the left, over
\* what is there.
AppendedOver(b, data, n) ==
    IF n < b.space
    THEN Buffer(Copy(b.mem, b.offset + b.right, data, 0, n),
                b.cur, b.offset, b.right + n, b.space - n, b.left)
    ELSE Buffer(Copy(Copy(b.mem, b.offset + b.right, data, 0, b.space),
                     0, data, b.space, n - b.space),
                b.cur, b.offset, b.right + b.space, 0, b.left + (n - b.space))

\* The first n bytes of data are stored behind the contents: at the right, then,
\* when nothing is free there any more, at the left.
Appended(b, data, n) ==
    IF n < b.space
    THEN Buffer(Copy(b.mem, b.offset + b.right, data, 0, n),
                b.cur, b.offset, b.right + n, b.space - n, b.left)
    ELSE Buffer(Copy(Copy(b.mem, b.offset + b.right, data, 0, b.space),
                     b.left, data, b.space, n - b.space),
                b.cur, b.offset, b.right + b.space, 0, b.left + (n - b.space))

\* Mutant of Dropped: the space that opens behind the data is forgotten.
DroppedKeepsSpace(b, n) ==
    IF n < b.right
    THEN Buffer(b.mem, b.cur, b.offset + n, b.right - n, b.space, b.left)
    ELSE Buffer(b.mem, b.cur, n - b.right, b.left - (n - b.right), b.space, 0)

\* The first n bytes are gone.  When all at the right are, the layout starts afresh
\* with what was at the left.
Dropped(b, n) ==
    IF n < b.right
    THEN Buffer(b.mem, b.cur, b.offset + n, b.right - n, b.space, b.left)
    ELSE IF n = Size(b)
    THEN Emptied(b)
    ELSE Buffer(b.mem, b.cur, n - b.right, b.left - (n - b.right), b.cur - b.left, 0)

-----------------------------------------------------------------------------
Init ==
    /\ capacity \in Capacities
    /\ buf = Fresh(IF capacity > 0 THEN Least(capacity, DefaultCapacity) ELSE DefaultCapacity)
    /\ got = <<>> /\ count = 0

\* write(pData, maxSize)
Write(data) ==
    LET room == WithRoom(buf, capacity, Len(data))
        n == Least(Len(data), room.cur - Size(room))
    IN /\ buf' = Appended(room, data, n)
       /\ count' = n
       /\ got' = <<>>
       /\ UNCHANGED capacity

\* write(dataSource): the source announces a size, then gives what it has; what
\* there is room for at the right comes first and the rest only if all of that came.
WriteFrom(announced, data) ==
    LET room == WithRoom(buf, capacity, announced)
    IN /\ Len(data) <= room.cur - Size(room)
       /\ buf' = Appended(room, data, Len(data))
       /\ count' = Len(data)
       /\ got' = <<>>
       /\ UNCHANGED capacity

\* read(pData, maxSize)
Read(maxSize) ==
    LET n == Least(maxSize, Size(buf))
    IN /\ buf' = Dropped(buf, n)
       /\ got' = SubSeq(Contents(buf), 1, n)
       /\ count' = n
       /\ UNCHANGED capacity

\* read(dataSink): the sink takes as much as it will of what is at the right, and
\* what is at the left only if it has taken all of that.
ReadInto(n) ==
    /\ n <= Size(buf)
    /\ buf' = Dropped(buf, n)
    /\ got' = SubSeq(Contents(buf), 1, n)
    /\ count' = n
    /\ UNCHANGED capacity

PopFront(maxSize) ==
    LET n == Least(maxSize, Size(buf))
    IN /\ buf' = Dropped(buf, n)
       /\ got' = <<>>
       /\ count' = n
       /\ UNCHANGED capacity

\* readAll(): a slice of everything, which ends up empty wherever it is.
ReadAll ==
    /\ buf' = Emptied(buf)
    /\ got' = Contents(buf)
    /\ count' = Size(buf)
    /\ UNCHANGED capacity

\* slice(pos, n), n > 0.  A slice that spans both blocks is put together in a buffer
\* of the thread or, when the thread is ending and that is gone, in a new allocation.
Slice(pos, n, threadEnds) ==
    /\ n > 0 /\ pos + n <= Size(buf)
    /\ buf' = IF threadEnds /\ pos < buf.right /\ pos + n > buf.right
              THEN Moved(buf, buf.cur) ELSE buf
    /\ got' = SubSeq(Contents(buf), pos + 1, pos + n)
    /\ count' = n
    /\ UNCHANGED capacity

SetCapacity(c) ==
    /\ IF c >= buf.cur \/ c = 0
       THEN capacity' = c /\ count' = 1 /\ UNCHANGED buf
       ELSE IF Size(buf) > c
       THEN count' = 0 /\ UNCHANGED <<buf, capacity>>
       ELSE /\ capacity' = c
            /\ count' = 1
            /\ buf' = Moved(buf, Least(c, Most(DefaultCapacity, BitCeil(Size(buf)))))
    /\ got' = <<>>

Clear ==
    /\ buf' = IF buf.cur > DefaultCapacity THEN Fresh(DefaultCapacity) ELSE Emptied(buf)
    /\ got' = <<>> /\ count' = 1
    /\ UNCHANGED capacity

\* reset()
Reset ==
    IF Size(buf) = 0 THEN Clear
    ELSE got' = <<>> /\ count' = 0 /\ UNCHANGED <<buf, capacity>>

-----------------------------------------------------------------------------
DataUpTo(n) == UNION {[1..m -> Byte] : m \in 0..n}

Next ==
    \/ \E data \in DataUpTo(MaxSize - Size(buf)) :
           \/ data # <<>> /\ Write(data)
           \/ \E announced \in 0..(MaxSize - Size(buf)) : WriteFrom(announced, data)
    \/ \E n \in 0..MaxSize : \/ Read(n)
                             \/ ReadInto(n)
                             \/ PopFront(n)
    \/ \E pos, n \in 0..MaxSize, threadEnds \in BOOLEAN : Slice(pos, n, threadEnds)
    \/ \E c \in Capacities : SetCapacity(c)
    \/ ReadAll
    \/ Clear
    \/ Reset

Spec == Init /\ [][Next]_vars

-----------------------------------------------------------------------------
Cells == Byte \cup {NoByte}

\* A buffer is an allocation of cur cells and the sizes of its four parts.
IsBuffer(b) ==
    /\ b.cur \in Nat /\ b.offset \in Nat
    /\ b.right \in Nat /\ b.space \in Nat /\ b.left \in Nat
    /\ b.mem \in [0..(b.cur - 1) -> Cells]

\* The layout of a buffer: its blocks and free spaces tile the allocation, data at
\* the left only follows data that reaches the allocation's end, and an empty
\* buffer starts at the allocation's start.
Laid(b) ==
    /\ IsBuffer(b)
    /\ b.offset + b.right + b.space = b.cur
    /\ b.left <= b.offset
    /\ b.left > 0 => b.space = 0
    /\ b.right = 0 => b.offset = 0

\* The sizes always describe the allocation they belong to, it never exceeds the
\* capacity, it can always grow to it, and all data it holds was written.
LayoutInvariant ==
    /\ Laid(buf)
    /\ Contents(buf) \in Seq(Byte)
    /\ Size(buf) <= MaxSize
    /\ buf.cur > 0 /\ capacity \in Nat
    /\ capacity > 0 => buf.cur <= capacity

Fifo == INSTANCE BoundedFifo WITH
    queue <- Contents(buf), limit <- capacity,
    Data <- DataUpTo(MaxSize), Sizes <- 0..MaxSize, Limits <- Capacities

\* The ring buffer is a bounded FIFO, whatever its layout and allocation.
ImplementsFifo == Fifo!Spec
=============================================================================
