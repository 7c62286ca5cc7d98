---------------------------- MODULE MCTimerWheels ----------------------------
(* Instances of TimerWheels for TLC. *)
EXTENDS TimerWheels, TLC

CONSTANTS t1, t2

\* t1 passes through every wheel; t2 turns the high resolution ticker on and off.
LongAndShort == t1 :> {5, 11} @@ t2 :> {0, 2}
=============================================================================
