--------------------------- MODULE MCObjectSignals ---------------------------
(* Instances of ObjectSignals for TLC. *)
EXTENDS ObjectSignals

\* Objects and signals are only ever compared for equality.
Symmetry == Permutations(Objects) \cup Permutations(Signals)
=============================================================================
