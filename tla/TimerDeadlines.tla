--------------------------- MODULE TimerDeadlines ---------------------------
(***************************************************************************)
(* What a Timer promises, with no wheels and no ticks: a running timer     *)
(* times out neither Early(t) milliseconds before nor Late milliseconds    *)
(* after its interval has elapsed, once for each time it is started, and   *)
(* never after it is stopped.                                              *)
(***************************************************************************)
EXTENDS Integers

CONSTANTS
    Timers,
    MaxTimeout,  \* the longest interval that is honoured
    Off,         \* no number, no timer: what is not running, or nothing
    Early(_),    \* how early a timer may time out
    Late         \* how late any timer may time out

VARIABLES
    left,        \* milliseconds until a timer is due
    emitting     \* the timer whose timeout() is being emitted

vars == <<left, emitting>>

Running(t) == left[t] # Off

Init ==
    /\ left = [t \in Timers |-> Off]
    /\ emitting = Off

Start(t) ==
    /\ \E interval \in 0..MaxTimeout : left' = [left EXCEPT ![t] = interval]
    /\ UNCHANGED emitting

Stop(t) ==
    /\ left' = [left EXCEPT ![t] = Off]
    /\ UNCHANGED emitting

\* The timer is due: it stops, or starts over if it is periodic, and emits timeout().
TimeOut(t) ==
    /\ emitting = Off
    /\ emitting' = t
    /\ Running(t)
    /\ left[t] <= Early(t)
    /\ \/ left' = [left EXCEPT ![t] = Off]
       \/ \E interval \in 1..MaxTimeout : left' = [left EXCEPT ![t] = interval]

Return ==
    /\ emitting' = Off
    /\ UNCHANGED left

\* A millisecond passes; no timer that is Late already is kept waiting.
Elapse ==
    /\ \A t \in Timers : Running(t) => left[t] > -Late
    /\ left' = [t \in Timers |-> IF Running(t) THEN left[t] - 1 ELSE Off]
    /\ UNCHANGED emitting

Next ==
    \/ \E t \in Timers : Start(t) \/ Stop(t) \/ TimeOut(t)
    \/ Return
    \/ Elapse

Spec == Init /\ [][Next]_vars
=============================================================================
