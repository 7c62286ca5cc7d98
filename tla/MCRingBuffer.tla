----------------------------- MODULE MCRingBuffer -----------------------------
(* Instances of RingBuffer for TLC. *)
EXTENDS RingBuffer

CONSTANTS b1, b2

TwoBytes == {b1, b2}
Powers == {1, 2, 4, 8}
=============================================================================
