----------------------------- MODULE BoundedFifo -----------------------------
(***************************************************************************)
(* What RingBuffer promises to IOChannel: a first-in first-out queue of    *)
(* bytes with a limit that can be changed, 0 for none.  A write takes as   *)
(* much as the limit allows, a read gives the oldest bytes, nothing is     *)
(* lost, duplicated or reordered, and looking at bytes changes nothing.    *)
(***************************************************************************)
EXTENDS Naturals, Sequences

CONSTANTS
    Data,    \* the sequences of bytes that may be written
    Sizes,   \* the sizes that may be asked for
    Limits   \* the capacities that may be asked for, 0 for no limit

VARIABLES
    queue,   \* the bytes written and not yet read
    limit,   \* the capacity: how many bytes it may hold, 0 if any number
    got,     \* the bytes the last call has handed out
    count    \* the size, or success, the last call has returned

vars == <<queue, limit, got, count>>

Init ==
    /\ queue = <<>> /\ limit \in Limits
    /\ got = <<>> /\ count = 0

Fits(n) == limit > 0 => n <= limit

\* A write of data takes its first n bytes, and all of them if they fit.
Write(data) ==
    \E n \in 0..Len(data) :
        /\ n = Len(data) \/ (limit > 0 /\ Len(queue) + n = limit)
        /\ n > 0 => Fits(Len(queue) + n)
        /\ queue' = queue \o SubSeq(data, 1, n)
        /\ count' = n
        /\ got' = <<>>
        /\ UNCHANGED limit

\* A write from a source takes what the source gives at that moment.
WriteFrom(data) ==
    /\ data # <<>> => Fits(Len(queue) + Len(data))
    /\ queue' = queue \o data
    /\ count' = Len(data)
    /\ got' = <<>>
    /\ UNCHANGED limit

\* A read gives the first n bytes; popFront only drops them.
Read(n, shown) ==
    /\ n <= Len(queue)
    /\ queue' = SubSeq(queue, n + 1, Len(queue))
    /\ got' = IF shown THEN SubSeq(queue, 1, n) ELSE <<>>
    /\ count' = n
    /\ UNCHANGED limit

Slice(pos, n) ==
    /\ pos + n <= Len(queue)
    /\ got' = SubSeq(queue, pos + 1, pos + n)
    /\ count' = n
    /\ UNCHANGED <<queue, limit>>

\* A capacity is refused if more bytes than that are waiting.
SetCapacity(c) ==
    /\ IF c = 0 \/ Len(queue) <= c
       THEN limit' = c /\ count' = 1
       ELSE UNCHANGED limit /\ count' = 0
    /\ got' = <<>>
    /\ UNCHANGED queue

Clear ==
    /\ queue' = <<>>
    /\ got' = <<>> /\ count' = 1
    /\ UNCHANGED limit

\* reset() of a buffer that is not empty is refused.
RefuseReset ==
    /\ queue # <<>>
    /\ got' = <<>> /\ count' = 0
    /\ UNCHANGED <<queue, limit>>

Next ==
    \/ \E data \in Data : Write(data) \/ WriteFrom(data)
    \/ \E n \in Sizes, shown \in BOOLEAN : Read(n, shown)
    \/ \E pos, n \in Sizes : Slice(pos, n)
    \/ \E c \in Limits : SetCapacity(c)
    \/ Clear
    \/ RefuseReset

Spec == Init /\ [][Next]_vars
=============================================================================
