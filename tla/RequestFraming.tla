---------------------------- MODULE RequestFraming ---------------------------
(***************************************************************************)
(* What the parser promises of a connection, with no positions and         *)
(* whatever the pieces in which the bytes arrive: it hands over the        *)
(* requests one after the other, the bytes of each body in order and       *)
(* those alone, and refuses the first request that breaks the grammar or   *)
(* a limit, and only such a one.                                           *)
(***************************************************************************)
EXTENDS Naturals, Sequences

VARIABLES
    frames,    \* what the client sends, one request after the other, as RequestShapes reads it
    begun,     \* the number of requests whose header was handed over
    ended,     \* the number of requests that were handed over completely
    handed,    \* the places, in the stream, of the bytes of the current body handed over
    interim,   \* the number of 100 Continue responses written
    verdict    \* the error reported, or NoError

vars == <<frames, begun, ended, handed, interim, verdict>>

Running == verdict = "NoError" /\ ended < Len(frames)

Current == frames[ended + 1]

\* The bytes of the body up to the n-th one are handed over: all of it ends the request, unless it comes in chunks.
HandsOver(n) ==
    /\ handed' = SubSeq(Current.data, 1, n)
    /\ ended' = IF ~Current.chunked /\ n = Len(Current.data) THEN ended + 1 ELSE ended

\* Any stream: it is the parameter of a behaviour.
Init == begun = 0 /\ ended = 0 /\ handed = <<>> /\ interim = 0 /\ verdict = "NoError"

Begin ==
    /\ Running /\ begun = ended
    /\ Current.headerAcceptable
    /\ begun' = begun + 1
    /\ \E n \in 0..Len(Current.data) : (Current.chunked => n = 0) /\ HandsOver(n)
    /\ interim' = interim + IF Current.expects THEN 1 ELSE 0
    /\ UNCHANGED <<frames, verdict>>

Continue ==
    /\ Running /\ begun > ended
    /\ \E n \in (Len(handed) + 1)..Len(Current.data) : n <= Current.maxBody /\ HandsOver(n)
    /\ UNCHANGED <<frames, begun, interim, verdict>>

EndChunked ==
    /\ Running /\ begun > ended
    /\ Current.chunked /\ Current.acceptable /\ handed = Current.data
    /\ ended' = begun
    /\ UNCHANGED <<frames, begun, handed, interim, verdict>>

\* A client that waits for 100 Continue may get it before it is refused.
Refuse ==
    /\ Running
    /\ \/ verdict' = "MalformedRequest" /\ ~Current.wellFormed
       \/ verdict' = "TooBigRequest" /\ ~Current.withinLimits
    /\ \/ interim' = interim
       \/ interim' = interim + 1 /\ begun = ended /\ Current.expects
    /\ UNCHANGED <<frames, begun, ended, handed>>

Next == Begin \/ Continue \/ EndChunked \/ Refuse

Spec == Init /\ [][Next]_vars
==============================================================================
