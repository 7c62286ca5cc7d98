----------------------------- MODULE TimerWheels -----------------------------
(***************************************************************************)
(* The timers of one thread: TimerNotifier, its TimerWheels, its two       *)
(* ClockTickers and the TimerPrivate of every Timer.                       *)
(*                                                                         *)
(* A wheel has Slots slots (64 in the code); wheel i ticks every Slots^i   *)
(* milliseconds, wheel 0 driven by the high resolution ticker, which runs  *)
(* only while that wheel holds a timer, all others by the low resolution   *)
(* one.  Time passes in whole milliseconds, also while an event handler    *)
(* runs: the loop then lags, ticks accumulate in the tickers' descriptors, *)
(* and the notifier's idea of the time is that of the last tick it was     *)
(* told of.  lowAge and highAge are the real time since those.             *)
(*                                                                         *)
(* The lists of a slot and of the timers to notify are sets: the order in  *)
(* a list decides only which of several timers that are due is told first. *)
(***************************************************************************)
EXTENDS Integers, FiniteSets

CONSTANTS
    Timers,
    Slots,        \* slots of a wheel, a power of two
    WheelCount,   \* wheels, 7 in the code
    Intervals,    \* the intervals each timer is started with
    Precise,      \* the timers of type Precise; the others are Coarse or VeryCoarse
    Off,          \* what left is of a timer that is not running
    MaxLag        \* bound: how long, in ms, the loop leaves an event waiting

ASSUME SlotsAssumption == Slots \in Nat \ {0, 1}
ASSUME WheelCountAssumption == WheelCount \in Nat \ {0, 1}
ASSUME IntervalsAssumption == Intervals \in [Timers -> SUBSET Nat]
ASSUME OffAssumption == Off \notin Int
ASSUME PreciseAssumption == Precise \subseteq Timers
\* A loop that is stopped for a whole low resolution tick is not modelled.
ASSUME MaxLagAssumption == MaxLag \in 0..(Slots - 2)

Wheels == 0..(WheelCount - 1)
Resolution(i) == Slots ^ i
\* What ^ means, for the provers, to which it is only a symbol.
ASSUME ResolutionAssumption ==
    Resolution(0) = 1 /\ \A i \in Wheels : Resolution(i + 1) = Slots * Resolution(i)
MaxTimeout == Slots ^ WheelCount
NoWheel == -1

VARIABLES
    timer,        \* the TimerPrivate of every timer
    timersToNotify, \* the timers of m_timersToNotify
    next,         \* m_idxNextTimersToExpire of every wheel
    tickCounter,  \* m_lowResolutionTickCounter, modulo what it is used for
    lowAge,       \* now - m_lowResolutionTime
    highEnabled,  \* the high resolution ticker is enabled
    highAge,      \* now - m_highResolutionTime, 0 while it is not
    handler,      \* the event handler that runs, "loop" if none of these does
    expirations,  \* the ticks a ticker's onEvent has still to emit
    emitting,     \* the timer whose timeout() is being emitted, Off if none
    left,         \* history: ms until each timer is due, Off if it is not running
    lag           \* how long the loop has been busy

tickers == <<next, tickCounter, lowAge, highEnabled, highAge>>
vars == <<timer, timersToNotify, tickers, handler, expirations,
          emitting, left, lag>>

TimerRecord ==
    [active: BOOLEAN, wheel: Wheels \cup {NoWheel}, slot: 0..(Slots - 1),
     timeout: Nat, extra: Nat, interval: Nat]

\* A timer that is not active: what it keeps of its last run is of no use, and its
\* settings are chosen again when it is started.
Inactive == [active |-> FALSE, wheel |-> NoWheel, slot |-> 0, timeout |-> 0,
             extra |-> 0, interval |-> 0]

Init ==
    /\ timer = [t \in Timers |-> Inactive]
    /\ timersToNotify = {}
    /\ next = [i \in Wheels |-> 0]
    /\ tickCounter = 0
    /\ lowAge = 0
    /\ highEnabled = FALSE
    /\ highAge = 0
    /\ handler = "loop"
    /\ expirations = 0
    /\ emitting = Off
    /\ left = [t \in Timers |-> Off]
    /\ lag = 0

-----------------------------------------------------------------------------
\* The wheel of a timeout: the first that spans it.
WheelFor(timeout) ==
    CHOOSE i \in Wheels : /\ timeout <= Resolution(i + 1) \/ i = WheelCount - 1
                          /\ \A j \in 0..(i - 1) : timeout > Resolution(j + 1)

\* TimerWheel::getSlotIdx, of a wheel whose next slot is idx.
SlotFor(i, timeout, idx) == ((timeout \div Resolution(i)) - 1 + idx) % Slots

\* TimerWheel::canAdd; a timer no wheel can hold is left Active in no list.
CanAdd(i, timeout) == Resolution(i) <= timeout /\ timeout <= Resolution(i + 1)

InWheel(ts, i) == {t \in Timers : ts[t].wheel = i}

\* setHighResolutionClockTickerEnabled(!m_timerWheels[0].isEmpty()), with the timers
\* ts: enabling the ticker makes now its time, disabling it drops its ticks.
SetHighResolutionTicker(ts, enabled, age) ==
    /\ highEnabled' = (InWheel(ts, 0) # {})
    /\ highAge' = IF highEnabled' /\ enabled THEN age ELSE 0

\* addAdjustedTimer on timer d, with next slots nx: where it is put.
Adjusted(d, nx) ==
    LET sum == d.timeout + d.extra
        e == IF d.timeout > 0 /\ sum > MaxTimeout THEN [d EXCEPT !.extra = 0] ELSE d
        i == WheelFor(d.timeout)
    IN  IF d.timeout > 0 /\ CanAdd(i, d.timeout)
        THEN [e EXCEPT !.active = TRUE, !.wheel = i, !.slot = SlotFor(i, d.timeout, nx[i])]
        ELSE [e EXCEPT !.active = TRUE, !.wheel = NoWheel, !.slot = 0]

\* The part of a low resolution tick that has elapsed, which a timer is started in.
SubTick(t, timeout) ==
    IF t \notin Precise /\ timeout >= Slots * Slots THEN 0
    ELSE IF timeout > Slots THEN lowAge
    ELSE highAge

\* Mutant of Prepared: the ticks since the wheel's last turn are not added.
ForgetsTicks(t, d) ==
    [d EXCEPT !.timeout = d.interval,
              !.extra = IF d.interval = 0 THEN 0 ELSE SubTick(t, d.interval)]

\* What addTimer makes of timer d: its timeout, and its extra timeout: the time
\* since the last tick of its wheel.
Prepared(t, d) ==
    LET T == d.interval
    IN  [d EXCEPT !.timeout = T,
                  !.extra = IF T = 0 THEN 0
                            ELSE SubTick(t, T) + ((tickCounter * Slots) % Resolution(WheelFor(T)))]

\* Timer d is taken out of the list it is in.
Unlisted(d) == [d EXCEPT !.active = FALSE, !.wheel = NoWheel, !.slot = 0]

\* addTimer(t), where d is t with its new interval.  A timer that stays in its slot is
\* left where it is; any other is removed, which may disable the high resolution
\* ticker, and added again, which then enables it anew.
AddTimer(t, d) ==
    LET p == Prepared(t, d)
        T == p.timeout
        i == WheelFor(T)
        stays == T > 0 /\ p.active /\ p.wheel = i /\ p.slot = SlotFor(i, T, next[i])
        others == [timer EXCEPT ![t] = Inactive]
        a == Adjusted(Unlisted(p), next)
        kept == highEnabled /\ (~p.active \/ p.wheel = NoWheel \/ InWheel(others, 0) # {})
    IN  IF stays
        THEN /\ timer' = [timer EXCEPT ![t] = p]
             /\ UNCHANGED <<timersToNotify, highEnabled, highAge>>
        ELSE /\ timer' = [timer EXCEPT ![t] = a]
             /\ timersToNotify' = IF T = 0 THEN timersToNotify \cup {t}
                                  ELSE timersToNotify \ {t}
             /\ SetHighResolutionTicker(timer', kept, highAge)

-----------------------------------------------------------------------------
\* User code runs: in the handler of another event, or in a slot of timeout().
UserRuns == handler = "loop" \/ emitting # Off

\* Timer::start(), start(interval), and setInterval(interval) of an active timer.
Start(t) ==
    /\ UserRuns
    /\ \E interval \in Intervals[t] :
          /\ AddTimer(t, [timer[t] EXCEPT !.interval = interval])
          /\ left' = [left EXCEPT ![t] = interval]
    /\ UNCHANGED <<next, tickCounter, lowAge, handler, expirations, emitting, lag>>

\* Mutant of Stop: a timer that has expired is not taken out of m_timersToNotify.
StopOnlyInWheel(t) ==
    /\ UserRuns
    /\ timer[t].active
    /\ timer' = [timer EXCEPT ![t] = Inactive]
    /\ SetHighResolutionTicker(timer', highEnabled, highAge)
    /\ left' = [left EXCEPT ![t] = Off]
    /\ UNCHANGED <<timersToNotify, next, tickCounter, lowAge, handler, expirations,
                   emitting, lag>>

\* Timer::stop(), and the destructor of a Timer.
Stop(t) ==
    /\ UserRuns
    /\ timer[t].active
    /\ timer' = [timer EXCEPT ![t] = Inactive]
    /\ timersToNotify' = timersToNotify \ {t}
    /\ IF timer[t].wheel # NoWheel
       THEN SetHighResolutionTicker(timer', highEnabled, highAge)
       ELSE UNCHANGED <<highEnabled, highAge>>
    /\ left' = [left EXCEPT ![t] = Off]
    /\ UNCHANGED <<next, tickCounter, lowAge, handler, expirations, emitting, lag>>

-----------------------------------------------------------------------------
\* The timers that the wheels ws lose in a tick.
Expired(ws) == {t \in Timers : \E i \in ws : timer[t].wheel = i /\ timer[t].slot = next[i]}

\* The wheels ws tick, and processExpiredTimers moves each timer they lose on to
\* where what is left of its timeout belongs.
TickWheels(ws) ==
    LET remaining(d) == [d EXCEPT !.timeout = (@ % Resolution(d.wheel)) + d.extra,
                                  !.extra = 0, !.wheel = NoWheel, !.slot = 0]
        nx == [i \in Wheels |-> IF i \in ws THEN (next[i] + 1) % Slots ELSE next[i]]
        due == {t \in Expired(ws) : remaining(timer[t]).timeout = 0}
    IN  /\ next' = nx
        /\ timer' = [t \in Timers |-> IF t \in Expired(ws)
                                      THEN Adjusted(remaining(timer[t]), nx) ELSE timer[t]]
        /\ timersToNotify' = timersToNotify \cup due

\* ClockTicker::onEvent of the low resolution ticker reads how often it expired.
LowResolutionExpired ==
    /\ handler = "loop"
    /\ lowAge >= Slots
    /\ handler' = "low"
    /\ expirations' = lowAge \div Slots
    /\ UNCHANGED <<timer, timersToNotify, tickers, emitting, left, lag>>

HighResolutionExpired ==
    /\ handler = "loop"
    /\ highEnabled /\ highAge > 0
    /\ handler' = "high"
    /\ expirations' = highAge
    /\ UNCHANGED <<timer, timersToNotify, tickers, emitting, left, lag>>

\* One tick() of the ticker whose expirations are being emitted.
Tick(h) ==
    /\ handler = h
    /\ expirations' = expirations - 1
    /\ handler' = IF expirations = 1 THEN "loop" ELSE h
    /\ UNCHANGED <<emitting, left, lag>>

\* The wheels a low resolution tick turns: those whose resolution divides its time.
WheelsAt(counter) == {i \in Wheels \ {0} : (counter * Slots) % Resolution(i) = 0}

OnLowResolutionTick ==
    /\ Tick("low")
    /\ lowAge' = lowAge - Slots
    /\ tickCounter' = (tickCounter + 1) % Resolution(WheelCount - 1)
    /\ TickWheels(WheelsAt(tickCounter'))
    /\ SetHighResolutionTicker(timer', highEnabled, highAge)

OnHighResolutionTick ==
    /\ Tick("high")
    /\ TickWheels({0})
    /\ SetHighResolutionTicker(timer', highEnabled, highAge - 1)
    /\ UNCHANGED <<tickCounter, lowAge>>

-----------------------------------------------------------------------------
\* TimerNotifier::onEvent: triggerTimerWhenControlReturnsToEventLoop set the event.
OnEvent ==
    /\ handler = "loop"
    /\ timersToNotify # {}
    /\ handler' = "notify"
    /\ UNCHANGED <<timer, timersToNotify, tickers, expirations, emitting, left, lag>>

\* A turn of notifyTimers: processTimeout restarts a timer that is not single-shot
\* (setSingleShot may be called at any time before), then emits timeout(), in whose
\* slots user code runs.
ProcessTimeout(t) ==
    /\ handler = "notify"
    /\ emitting = Off
    /\ t \in timersToNotify
    /\ emitting' = t
    /\ LET d == Unlisted(timer[t])
       IN  \/ /\ timer' = [timer EXCEPT ![t] = Inactive]
              /\ timersToNotify' = timersToNotify \ {t}
              /\ left' = [left EXCEPT ![t] = Off]
              /\ UNCHANGED <<highEnabled, highAge>>
           \/ /\ d.interval > 0
              /\ AddTimer(t, d)
              /\ left' = [left EXCEPT ![t] = d.interval]
    /\ UNCHANGED <<next, tickCounter, lowAge, handler, expirations, lag>>

TimeoutReturns ==
    /\ emitting # Off
    /\ emitting' = Off
    /\ UNCHANGED <<timer, timersToNotify, tickers, handler, expirations, left, lag>>

NotifyTimersReturns ==
    /\ handler = "notify"
    /\ emitting = Off
    /\ timersToNotify = {}
    /\ handler' = "loop"
    /\ UNCHANGED <<timer, timersToNotify, tickers, expirations, emitting, left, lag>>

\* Nothing waits for the loop.
LoopIdle ==
    /\ handler = "loop"
    /\ lowAge < Slots
    /\ highAge = 0
    /\ timersToNotify = {}

\* A millisecond passes, in the loop or in a handler that is slow.
Elapse ==
    /\ LoopIdle \/ lag < MaxLag
    /\ lag' = IF LoopIdle THEN 0 ELSE lag + 1
    /\ lowAge' = lowAge + 1
    /\ highAge' = IF highEnabled THEN highAge + 1 ELSE 0
    /\ left' = [t \in Timers |-> IF left[t] = Off THEN Off ELSE left[t] - 1]
    /\ UNCHANGED <<timer, timersToNotify, next, tickCounter, highEnabled, handler,
                   expirations, emitting>>

Next ==
    \/ \E t \in Timers : Start(t) \/ Stop(t) \/ ProcessTimeout(t)
    \/ LowResolutionExpired
    \/ HighResolutionExpired
    \/ OnLowResolutionTick
    \/ OnHighResolutionTick
    \/ OnEvent
    \/ TimeoutReturns
    \/ NotifyTimersReturns
    \/ Elapse

Spec == Init /\ [][Next]_vars

-----------------------------------------------------------------------------
\* Every variable has the type of what it stands for.
TypeOK ==
    /\ timer \in [Timers -> TimerRecord]
    /\ timersToNotify \subseteq Timers
    /\ next \in [Wheels -> 0..(Slots - 1)]
    /\ tickCounter \in 0..(Resolution(WheelCount - 1) - 1)
    /\ lowAge \in Nat
    /\ highEnabled \in BOOLEAN
    /\ highAge \in Nat
    /\ handler \in {"loop", "low", "high", "notify"}
    /\ expirations \in Nat
    /\ emitting \in Timers \cup {Off}
    /\ left \in [Timers -> Int \cup {Off}]
    /\ lag \in 0..MaxLag

\* Every active timer is in one list, a slot of the wheel it points to or the timers
\* to notify, and no other timer is in any.
ListedOnce ==
    /\ TypeOK
    /\ \A t \in Timers :
           /\ timer[t].active = (left[t] # Off)
           /\ t \in timersToNotify <=> timer[t].active /\ timer[t].wheel = NoWheel
           /\ timer[t].wheel # NoWheel => timer[t].active

-----------------------------------------------------------------------------
\* What lag costs a timer at most.  A tick of the other ticker that is handled first
\* makes a timer early that moves to wheel 0 (epoll_wait promises no order of the two);
\* what has passed since the last tick makes it late if it moves there, or if starting
\* it enables the high resolution ticker anew, and so does the lag at the end.  A coarse
\* timer of a long interval also ignores how long ago the last tick was.
EarlyBy(t) == IF t \in Precise THEN MaxLag + 1 ELSE Slots + 2 * MaxLag + 1
LateBy == 2 * MaxLag + 1

Deadlines == INSTANCE TimerDeadlines WITH Early <- EarlyBy, Late <- LateBy

\* The wheels implement deadlines: however a timer moves through them, and whatever
\* is started and stopped meanwhile, it times out once, and at its time.
ImplementsDeadlines == Deadlines!Spec
=============================================================================
