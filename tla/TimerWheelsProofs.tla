--------------------------- MODULE TimerWheelsProofs ---------------------------
(***************************************************************************)
(* Proofs about TimerWheels for any set of timers, any number of wheels    *)
(* and slots and any lag: a running timer is in one slot or in the list of *)
(* the timers to notify.  That needs each timeout that is left of a timer  *)
(* which moves on to another wheel to be one that a wheel can hold.        *)
(* And it times out when it should: where a timer stands in the wheels     *)
(* tells when it is due, and each turn of them keeps that true.            *)
(***************************************************************************)
EXTENDS TimerWheels, WellFoundedInduction, TLAPS

Handlers == {"loop", "low", "high", "notify"}

\* What is left of a timer's timeout when its slot expires.
Remaining(d) == (d.timeout % Resolution(d.wheel)) + d.extra

TimersTyped ==
    /\ timer \in [Timers -> TimerRecord]
    /\ timersToNotify \subseteq Timers
    /\ left \in [Timers -> Int \cup {Off}]

Listed ==
    \A t \in Timers :
        /\ timer[t].active = (left[t] # Off)
        /\ t \in timersToNotify <=> timer[t].active /\ timer[t].wheel = NoWheel
        /\ timer[t].wheel # NoWheel => timer[t].active

\* Whatever is left of a timer fits in a wheel.
RestFits ==
    \A t \in Timers :
        /\ timer[t].interval <= MaxTimeout
        /\ timer[t].wheel # NoWheel => Remaining(timer[t]) <= MaxTimeout

\* The tickers, and how far the handler that runs has got with their ticks.
Clocks ==
    /\ next \in [Wheels -> 0..(Slots - 1)]
    /\ tickCounter \in 0..(Resolution(WheelCount - 1) - 1)
    /\ highEnabled = (InWheel(timer, 0) # {})
    /\ handler \in Handlers /\ expirations \in Nat
    /\ emitting \in Timers \cup {Off} /\ (emitting # Off => handler = "notify")
    /\ lag \in 0..MaxLag
    /\ lowAge \in 0..(Slots + lag) /\ highAge \in 0..(1 + lag)
    /\ handler \in {"low", "high"} => expirations > 0
    /\ handler = "low" => Slots * expirations <= lowAge
    /\ handler = "high" /\ highEnabled => expirations <= highAge

WheelsInvariant == TimersTyped /\ Listed /\ RestFits /\ Clocks

-----------------------------------------------------------------------------
(* Resolutions. *)

LEMMA Least ==
    ASSUME NEW S, S \subseteq Nat, S # {}
    PROVE  \E n \in S : \A m \in S : n <= m
<1>1. PICK n \in S : \A m \in S : ~(<<m, n>> \in OpToRel(<, Nat))
  BY NatLessThanWellFounded, WFMin
<1>2. \A m \in S : m \in Nat /\ n \in Nat /\ ~(m < n)  BY <1>1 DEF OpToRel
<1>3. \A m \in S : n <= m
  <2> SUFFICES ASSUME NEW m \in S PROVE n <= m  OBVIOUS
  <2>1. m \in Nat /\ n \in Nat /\ ~(m < n)  BY <1>2
  <2> QED  BY <2>1
<1> QED  BY <1>3

LEMMA ResolutionType ==
    /\ WheelCount \in Nat /\ WheelCount >= 2 /\ Slots \in Nat /\ Slots >= 2
    /\ \A i \in 0..WheelCount : Resolution(i) \in Nat /\ Resolution(i) >= 1
<1>1. WheelCount \in Nat /\ WheelCount >= 2 /\ Slots \in Nat /\ Slots >= 2
  BY WheelCountAssumption, SlotsAssumption
<1> DEFINE Bad == {i \in 0..WheelCount : ~(Resolution(i) \in Nat /\ Resolution(i) >= 1)}
<1>2. SUFFICES ASSUME Bad # {} PROVE FALSE  BY <1>1
<1>3. Bad \subseteq Nat  BY <1>1
<1>4. PICK n \in Bad : \A m \in Bad : n <= m
  <2> HIDE DEF Bad
  <2> QED  BY <1>2, <1>3, Least
<1>5. n \in 0..WheelCount /\ ~(Resolution(n) \in Nat /\ Resolution(n) >= 1)  OBVIOUS
<1>6. n # 0  BY <1>5, ResolutionAssumption
<1>7. n - 1 \in Wheels /\ n - 1 \in 0..WheelCount  BY <1>1, <1>5, <1>6 DEF Wheels
<1>8. n - 1 \notin Bad
  <2> HIDE DEF Bad
  <2> QED  BY <1>1, <1>4, <1>5
<1>9. Resolution(n - 1) \in Nat /\ Resolution(n - 1) >= 1  BY <1>7, <1>8
<1>10. Resolution(n - 1 + 1) = Slots * Resolution(n - 1)  BY <1>7, ResolutionAssumption
<1>11. n - 1 + 1 = n  BY <1>5
<1>12. Slots * Resolution(n - 1) \in Nat /\ Slots * Resolution(n - 1) >= 1
  <2> DEFINE r == Resolution(n - 1)
  <2>1. r \in Nat /\ r >= 1  BY <1>9
  <2> HIDE DEF r
  <2>2. Slots * r \in Nat /\ Slots * r >= 1  BY <1>1, <2>1
  <2> QED  BY <2>2 DEF r
<1> QED  BY <1>5, <1>10, <1>11, <1>12

LEMMA ResolutionStep ==
    ASSUME NEW i \in Wheels
    PROVE  /\ i \in 0..WheelCount /\ i + 1 \in 0..WheelCount
           /\ Resolution(i) \in Nat /\ Resolution(i) >= 1 /\ Resolution(i + 1) \in Nat
           /\ Resolution(i + 1) = Slots * Resolution(i)
           /\ Resolution(i) <= Resolution(i + 1)
<1>1. i \in 0..WheelCount /\ i + 1 \in 0..WheelCount  BY ResolutionType DEF Wheels
<1>2. Resolution(i + 1) = Slots * Resolution(i)  BY ResolutionAssumption
<1> DEFINE r == Resolution(i)
<1>3. r \in Nat /\ r >= 1 /\ Slots \in Nat /\ Slots >= 2  BY <1>1, ResolutionType
<1> HIDE DEF r
<1>4. r <= Slots * r /\ Slots * r \in Nat  BY <1>3
<1> QED  BY <1>1, <1>2, <1>3, <1>4 DEF r

\* No wheel spans more than the last one.
LEMMA SpanOfLast ==
    ASSUME NEW i \in 0..WheelCount
    PROVE  Resolution(i) <= MaxTimeout /\ MaxTimeout \in Nat
<1>0. MaxTimeout = Resolution(WheelCount)  BY DEF MaxTimeout, Resolution
<1> DEFINE Bad == {j \in 0..WheelCount : Resolution(WheelCount - j) > MaxTimeout}
<1>1. Bad \subseteq Nat /\ WheelCount \in Nat  BY ResolutionType
<1>2. MaxTimeout \in Nat  BY <1>0, ResolutionType
<1>3. Bad = {}
  <2> SUFFICES ASSUME Bad # {} PROVE FALSE  OBVIOUS
  <2>1. PICK n \in Bad : \A m \in Bad : n <= m
    <3> HIDE DEF Bad
    <3> QED  BY <1>1, Least
  <2>2. n \in 0..WheelCount /\ Resolution(WheelCount - n) > MaxTimeout  OBVIOUS
  <2>3. n # 0  BY <1>0, <1>1, <1>2, <2>2
  <2>4. n - 1 \in 0..WheelCount /\ WheelCount - n \in Wheels
        /\ WheelCount - (n - 1) = WheelCount - n + 1
    BY <1>1, <2>2, <2>3 DEF Wheels
  <2>5. n - 1 \notin Bad
    <3> HIDE DEF Bad
    <3> QED  BY <1>1, <2>1, <2>2
  <2>6. Resolution(WheelCount - n + 1) <= MaxTimeout
    <3>1. WheelCount - n + 1 \in 0..WheelCount  BY <2>4, ResolutionStep
    <3>2. Resolution(WheelCount - n + 1) \in Nat  BY <3>1, ResolutionType
    <3> QED  BY <1>2, <2>4, <2>5, <3>2
  <2>7. Resolution(WheelCount - n) <= Resolution(WheelCount - n + 1)
        /\ Resolution(WheelCount - n) \in Nat /\ Resolution(WheelCount - n + 1) \in Nat
    BY <2>4, ResolutionStep
  <2> QED  BY <1>2, <2>2, <2>6, <2>7
<1>4. WheelCount - i \in 0..WheelCount /\ WheelCount - (WheelCount - i) = i  BY <1>1
<1>5. Resolution(i) \in Nat  BY ResolutionType
<1> QED  BY <1>2, <1>3, <1>4, <1>5

-----------------------------------------------------------------------------
(* Where a timeout belongs. *)

\* Some wheel spans every timeout, and its resolution is not too coarse for it; no
\* finer one does.
LEMMA WheelIsFound ==
    ASSUME NEW T \in Nat, T > 0, T <= MaxTimeout
    PROVE  /\ WheelFor(T) \in Wheels /\ CanAdd(WheelFor(T), T)
           /\ \A j \in 0..(WheelFor(T) - 1) : T > Resolution(j + 1)
<1> DEFINE P(i) == /\ T <= Resolution(i + 1) \/ i = WheelCount - 1
                   /\ \A j \in 0..(i - 1) : T > Resolution(j + 1)
           Spans == {i \in Wheels : T <= Resolution(i + 1) \/ i = WheelCount - 1}
<1>1. Spans \subseteq Nat /\ WheelCount - 1 \in Spans  BY ResolutionType DEF Wheels
<1>2. PICK n \in Spans : \A m \in Spans : n <= m
  <2> HIDE DEF Spans
  <2> QED  BY <1>1, Least
<1>3. n \in Wheels /\ P(n)
  <2>1. n \in Wheels /\ (T <= Resolution(n + 1) \/ n = WheelCount - 1)  OBVIOUS
  <2>2. ASSUME NEW j \in 0..(n - 1) PROVE T > Resolution(j + 1)
    <3>1. j \in Wheels  BY <2>1, <2>2, ResolutionType DEF Wheels
    <3>2. j \notin Spans
      <4>1. j < n /\ j \in Nat /\ n \in Nat  BY <2>1, <2>2, ResolutionType DEF Wheels
      <4> HIDE DEF Spans
      <4> QED  BY <1>2, <4>1
    <3>3. Resolution(j + 1) \in Nat  BY <3>1, ResolutionStep
    <3> QED  BY <3>1, <3>2, <3>3
  <2> QED  BY <2>1, <2>2
<1>4. WheelFor(T) = CHOOSE i \in Wheels : P(i)  BY DEF WheelFor
<1> DEFINE w == WheelFor(T)
<1>5. w \in Wheels /\ P(w)
  <2> HIDE DEF P
  <2> QED  BY <1>3, <1>4
<1> HIDE DEF w
<1>6. w \in Nat /\ w <= WheelCount - 1 /\ WheelCount \in Nat  BY <1>5, ResolutionType DEF Wheels
<1>7. T <= Resolution(w + 1)
  <2>1. CASE T <= Resolution(w + 1)  BY <2>1
  <2>2. CASE w = WheelCount - 1
    <3>1. w + 1 = WheelCount  BY <1>6, <2>2
    <3> QED  BY <3>1 DEF MaxTimeout, Resolution
  <2> QED  BY <1>5, <2>1, <2>2
<1>8. Resolution(w) <= T
  <2>1. CASE w = 0  BY <2>1, ResolutionAssumption
  <2>2. CASE w # 0
    <3>1. w - 1 \in 0..(w - 1) /\ w - 1 + 1 = w  BY <1>6, <2>2
    <3>2. T > Resolution(w)  BY <1>5, <3>1
    <3>3. Resolution(w) \in Nat  BY <1>5, ResolutionStep
    <3> QED  BY <3>2, <3>3
  <2> QED  BY <2>1, <2>2
<1> QED  BY <1>5, <1>7, <1>8 DEF CanAdd, w

LEMMA Remainder ==
    ASSUME NEW a \in Nat, NEW r \in Nat, r >= 1
    PROVE  /\ a % r \in 0..(r - 1) /\ a % r <= a
           /\ a \div r \in Nat /\ r * (a \div r) <= a
           /\ a >= r => a \div r > 0
  OBVIOUS

LEMMA SlotType ==
    ASSUME NEW i \in Wheels, NEW T \in Nat, NEW k \in 0..(Slots - 1)
    PROVE  SlotFor(i, T, k) \in 0..(Slots - 1)
<1> DEFINE r == Resolution(i)
           q == T \div r
<1>1. r \in Nat /\ r >= 1 /\ Slots \in Nat /\ Slots >= 2  BY ResolutionStep, ResolutionType
<1>2. SlotFor(i, T, k) = (q - 1 + k) % Slots  BY DEF SlotFor
<1> HIDE DEF r
<1>3. q \in Nat  BY <1>1, Remainder
<1> HIDE DEF q
<1>4. (q - 1 + k) % Slots \in 0..(Slots - 1)  BY <1>1, <1>3
<1> QED  BY <1>2, <1>4

\* A timer whose timeout has passed is in no wheel, any other is in one that goes on
\* with a timeout some wheel can hold.
LEMMA AdjustedFits ==
    ASSUME NEW d \in TimerRecord, d.timeout <= MaxTimeout,
           NEW nx \in [Wheels -> 0..(Slots - 1)], NEW a, a = Adjusted(d, nx)
    PROVE  /\ a \in TimerRecord /\ a.active /\ a.interval = d.interval
           /\ d.timeout = 0 => a.wheel = NoWheel
           /\ d.timeout > 0 => a.wheel \in Wheels /\ Remaining(a) <= MaxTimeout
<1> DEFINE e == IF d.timeout > 0 /\ d.timeout + d.extra > MaxTimeout
                THEN [d EXCEPT !.extra = 0] ELSE d
           i == WheelFor(d.timeout)
<1>1. d.timeout \in Nat /\ d.extra \in Nat /\ MaxTimeout \in Nat /\ 0 \in 0..(Slots - 1)
  BY SpanOfLast, ResolutionType DEF TimerRecord
<1>2. e \in TimerRecord /\ e.interval = d.interval /\ e.timeout = d.timeout
  BY <1>1 DEF TimerRecord
<1>3. CASE d.timeout = 0
  <2>1. a = [e EXCEPT !.active = TRUE, !.wheel = NoWheel, !.slot = 0]
    BY <1>3 DEF Adjusted
  <2> HIDE DEF e
  <2>2. a \in TimerRecord  BY <1>1, <1>2, <2>1 DEF TimerRecord
  <2>3. a.active /\ a.interval = e.interval /\ a.wheel = NoWheel
    BY <1>2, <2>1 DEF TimerRecord
  <2> QED  BY <1>2, <1>3, <2>2, <2>3
<1>4. CASE d.timeout > 0
  <2>1. i \in Wheels /\ CanAdd(i, d.timeout)  BY <1>1, <1>4, WheelIsFound
  <2>2. a = [e EXCEPT !.active = TRUE, !.wheel = i, !.slot = SlotFor(i, d.timeout, nx[i])]
    BY <1>4, <2>1 DEF Adjusted
  <2>3. e.extra \in Nat /\ d.timeout + e.extra <= MaxTimeout
    BY <1>1, <1>4, <1>2 DEF TimerRecord
  <2>4. SlotFor(i, d.timeout, nx[i]) \in 0..(Slots - 1)  BY <1>1, <2>1, SlotType
  <2> DEFINE k == SlotFor(i, d.timeout, nx[i])
  <2> HIDE DEF e, i, k
  <2>5. /\ a \in TimerRecord /\ a.active /\ a.interval = e.interval
        /\ a.wheel = i /\ a.timeout = e.timeout /\ a.extra = e.extra
    BY <1>2, <2>1, <2>2, <2>4 DEF TimerRecord, k
  <2>6. (d.timeout % Resolution(i)) \in Nat /\ (d.timeout % Resolution(i)) <= d.timeout
    <3>1. Resolution(i) \in Nat /\ Resolution(i) >= 1  BY <2>1, ResolutionStep
    <3> DEFINE r == Resolution(i)
               x == d.timeout
    <3> HIDE DEF r, x
    <3>2. x % r \in 0..(r - 1) /\ x % r <= x
      BY <1>1, <3>1, Remainder DEF r, x
    <3>3. r \in Nat  BY <3>1 DEF r
    <3>4. x % r \in Nat /\ x % r <= x  BY <3>2, <3>3
    <3> QED  BY <3>4 DEF r, x
  <2>7. Remaining(a) <= MaxTimeout
    <3>1. Remaining(a) = (d.timeout % Resolution(i)) + e.extra
      BY <1>2, <2>5 DEF Remaining
    <3> HIDE DEF Remaining
    <3> QED  BY <1>1, <2>3, <2>6, <3>1
  <2> QED  BY <1>1, <1>2, <1>4, <2>1, <2>5, <2>7
<1> QED  BY <1>1, <1>3, <1>4

\* The ticks a timer is started in the middle of are fewer than what is left of the span
\* of the last wheel.
LEMMA PreparedFits ==
    ASSUME Clocks, NEW t \in Timers, NEW d \in TimerRecord, d.interval <= MaxTimeout,
           NEW p, p = Prepared(t, d)
    PROVE  /\ p \in TimerRecord /\ p.timeout = d.interval /\ p.interval = d.interval
           /\ p.active = d.active /\ p.wheel = d.wheel /\ p.slot = d.slot
           /\ d.interval > 0 =>
                (p.timeout % Resolution(WheelFor(p.timeout))) + p.extra <= MaxTimeout
<1> DEFINE T == d.interval
           w == WheelFor(T)
           r == Resolution(w)
           ticks == (tickCounter * Slots) % r
           x == SubTick(t, T)
<1>1. T \in Nat /\ MaxTimeout \in Nat  BY SpanOfLast, ResolutionType DEF TimerRecord
<1>2. Slots \in Nat /\ Slots >= 2 /\ MaxLag \in Nat /\ MaxLag <= Slots - 2
  BY ResolutionType, MaxLagAssumption
<1>3. x \in Nat /\ x <= 2 * Slots - 2
  <2>1. x \in {0, lowAge, highAge}  BY DEF SubTick
  <2>2. lowAge \in Nat /\ lowAge <= Slots + MaxLag /\ highAge \in Nat /\ highAge <= 1 + MaxLag
    BY <1>2 DEF Clocks
  <2> HIDE DEF x
  <2> QED  BY <1>2, <2>1, <2>2
<1>4. CASE T = 0
  <2>1. p = [d EXCEPT !.timeout = 0, !.extra = 0]  BY <1>4 DEF Prepared
  <2> DEFINE z == 0
  <2>2. p = [d EXCEPT !.timeout = z, !.extra = z] /\ z \in Nat  BY <2>1
  <2> HIDE DEF z
  <2>3. p \in TimerRecord  BY <2>2 DEF TimerRecord
  <2>4. /\ p.timeout = 0 /\ p.interval = d.interval
        /\ p.active = d.active /\ p.wheel = d.wheel /\ p.slot = d.slot
    BY <2>1 DEF TimerRecord
  <2> QED  BY <1>4, <2>3, <2>4
<1>5. CASE T # 0
  <2>1. w \in Wheels  BY <1>1, <1>5, WheelIsFound
  <2>2. p = [d EXCEPT !.timeout = T, !.extra = x + ticks]  BY <1>5 DEF Prepared
  <2>3. /\ r \in Nat /\ r >= 1 /\ w \in Nat
        /\ Resolution(w + 1) = Slots * r /\ Resolution(w + 1) <= MaxTimeout
    BY <2>1, ResolutionStep, SpanOfLast DEF Wheels
  <2>4. tickCounter * Slots \in Nat
    <3>1. WheelCount - 1 \in 0..WheelCount  BY ResolutionType
    <3>2. Resolution(WheelCount - 1) \in Nat  BY <3>1, ResolutionType
    <3>3. tickCounter \in Nat  BY <3>2 DEF Clocks
    <3> QED  BY <1>2, <3>3
  <2>5. ticks \in 0..(r - 1) /\ T % r \in 0..(r - 1)
    <3> HIDE DEF T, r
    <3> QED  BY <1>1, <2>3, <2>4, Remainder
  <2>6. r = 1 \/ r >= Slots
    <3>1. CASE w = 0  BY <3>1, ResolutionAssumption
    <3>2. CASE w # 0
      <4>1. w - 1 \in Wheels /\ w - 1 + 1 = w  BY <2>1, <3>2, ResolutionType DEF Wheels
      <4>2. Resolution(w - 1) \in Nat /\ Resolution(w - 1) >= 1
            /\ r = Slots * Resolution(w - 1)
        BY <4>1, ResolutionStep
      <4> DEFINE z == Resolution(w - 1)
      <4> HIDE DEF z, r
      <4>3. z \in Nat /\ z >= 1 /\ r = Slots * z  BY <4>2 DEF z
      <4> QED  BY <1>2, <4>3
    <3> QED  BY <3>1, <3>2
  <2>7. (T % r) + (x + ticks) <= MaxTimeout
    <3> DEFINE v == T % r
    <3>1. v \in 0..(r - 1)  BY <2>5
    <3> HIDE DEF v, T, r, x, ticks, w
    <3>2. CASE r = 1
      <4>1. v = 0 /\ ticks = 0  BY <2>5, <3>1, <3>2
      <4>2. 2 * Slots - 2 <= Slots * Slots  BY <1>2
      <4>3. Slots * Slots <= MaxTimeout
        <5>1. 1 \in Wheels /\ 0 \in Wheels /\ 2 \in 0..WheelCount
          BY ResolutionType DEF Wheels
        <5>2. Resolution(0 + 1) = Slots * Resolution(0)  BY <5>1, ResolutionAssumption
        <5>3. Resolution(1 + 1) = Slots * Resolution(1)  BY <5>1, ResolutionAssumption
        <5>4. Resolution(2) <= MaxTimeout  BY <5>1, SpanOfLast
        <5>5. Resolution(0) = 1  BY ResolutionAssumption
        <5> HIDE DEF Resolution
        <5>6. Slots * 1 = Slots /\ 0 + 1 = 1 /\ 1 + 1 = 2  BY <1>2
        <5> QED  BY <5>2, <5>3, <5>4, <5>5, <5>6
      <4>4. Slots * Slots \in Nat  BY <1>2
      <4>5. (v + (x + ticks)) <= MaxTimeout
        BY <1>1, <1>2, <1>3, <4>1, <4>2, <4>3, <4>4
      <4> QED  BY <4>5 DEF v
    <3>3. CASE r >= Slots
      <4> DEFINE s == Slots - 2
      <4>1. s \in Nat /\ Slots = s + 2  BY <1>2
      <4>2. Slots * r = s * r + 2 * r /\ s * r \in Nat  BY <2>3, <4>1
      <4>3. s * 2 <= s * r
        <5>1. r >= 2 /\ r \in Nat  BY <1>2, <2>3, <3>3
        <5> HIDE DEF s
        <5> QED  BY <4>1, <5>1
      <4>4. s * r + 2 * r <= MaxTimeout  BY <2>3, <4>2
      <4> DEFINE sr == s * r
      <4>5. sr \in Nat /\ s * 2 <= sr /\ sr + 2 * r <= MaxTimeout  BY <4>2, <4>3, <4>4
      <4> HIDE DEF sr
      <4>6. (v + (x + ticks)) <= MaxTimeout
        BY <1>1, <1>2, <1>3, <2>3, <2>5, <3>1, <4>1, <4>5
      <4> QED  BY <4>6 DEF v
    <3> QED  BY <2>6, <3>2, <3>3
  <2>8. x + ticks \in Nat
    <3> HIDE DEF x, ticks, r
    <3> QED  BY <1>3, <2>3, <2>5
  <2> DEFINE extra == x + ticks
  <2>9. p = [d EXCEPT !.timeout = T, !.extra = extra]  BY <2>2
  <2>10. extra \in Nat  BY <2>8
  <2> HIDE DEF extra
  <2>11. /\ p \in TimerRecord /\ p.timeout = T /\ p.interval = d.interval
         /\ p.active = d.active /\ p.wheel = d.wheel /\ p.slot = d.slot /\ p.extra = extra
    BY <1>1, <2>9, <2>10 DEF TimerRecord
  <2> QED  BY <2>7, <2>11 DEF extra
<1> QED  BY <1>4, <1>5

-----------------------------------------------------------------------------
(* Starting a timer, and the turning of wheels. *)

LEMMA RecordsTyped ==
    ASSUME TimersTyped, NEW t \in Timers
    PROVE  /\ timer[t] \in TimerRecord /\ timer[t].active \in BOOLEAN
           /\ timer[t].wheel \in Wheels \cup {NoWheel} /\ timer[t].slot \in 0..(Slots - 1)
           /\ timer[t].timeout \in Nat /\ timer[t].extra \in Nat /\ timer[t].interval \in Nat
<1>1. timer[t] \in TimerRecord  BY DEF TimersTyped
<1> QED  BY <1>1 DEF TimerRecord

LEMMA WheelsAreNatural == Wheels \subseteq Nat /\ NoWheel \notin Wheels /\ 0 \in Wheels
  BY ResolutionType DEF Wheels, NoWheel

\* The high resolution ticker runs only while the first wheel holds a timer.
LEMMA HighTicker ==
    ASSUME NEW x, NEW kept \in BOOLEAN, NEW age \in 0..(1 + lag), lag \in Nat,
           SetHighResolutionTicker(x, kept, age)
    PROVE  highEnabled' = (InWheel(x, 0) # {}) /\ highAge' \in {age, 0}
           /\ highAge' \in 0..(1 + lag)
  BY DEF SetHighResolutionTicker

\* addTimer leaves the timer in one place; d is the timer with its settings.
LEMMA Added ==
    ASSUME WheelsInvariant, NEW t \in Timers, NEW d \in TimerRecord,
           d.interval <= MaxTimeout, d.active => d.wheel = timer[t].wheel,
           AddTimer(t, d)
    PROVE  /\ timer' \in [Timers -> TimerRecord]
           /\ \A u \in Timers \ {t} : timer'[u] = timer[u]
           /\ timersToNotify' \subseteq Timers
           /\ \A u \in Timers \ {t} : u \in timersToNotify' <=> u \in timersToNotify
           /\ timer'[t].active /\ timer'[t].interval = d.interval
           /\ t \in timersToNotify' <=> timer'[t].wheel = NoWheel
           /\ timer'[t].wheel # NoWheel => Remaining(timer'[t]) <= MaxTimeout
           /\ highEnabled' = (InWheel(timer', 0) # {}) /\ highAge' \in 0..(1 + lag)
<1> DEFINE p == Prepared(t, d)
           T == p.timeout
           w == WheelFor(T)
           stays == T > 0 /\ p.active /\ p.wheel = w /\ p.slot = SlotFor(w, T, next[w])
           a == Adjusted(Unlisted(p), next)
           kept == highEnabled
                   /\ (~p.active \/ p.wheel = NoWheel
                       \/ InWheel([timer EXCEPT ![t] = Inactive], 0) # {})
<1>1. /\ p \in TimerRecord /\ p.timeout = d.interval /\ p.interval = d.interval
      /\ p.active = d.active /\ p.wheel = d.wheel /\ p.slot = d.slot
      /\ d.interval > 0 => (p.timeout % Resolution(w)) + p.extra <= MaxTimeout
  BY PreparedFits DEF WheelsInvariant
<1>2. /\ timer \in [Timers -> TimerRecord] /\ timersToNotify \subseteq Timers
      /\ highEnabled \in BOOLEAN /\ highEnabled = (InWheel(timer, 0) # {})
      /\ lag \in Nat /\ highAge \in 0..(1 + lag)
      /\ next \in [Wheels -> 0..(Slots - 1)]
      /\ d.interval \in Nat
  BY MaxLagAssumption DEF WheelsInvariant, TimersTyped, Clocks, TimerRecord
<1>3. CASE stays
  <2>1. timer' = [timer EXCEPT ![t] = p] /\ UNCHANGED <<timersToNotify, highEnabled, highAge>>
    BY <1>3 DEF AddTimer
  <2>2. w \in Wheels  BY <1>1, <1>2, <1>3, WheelIsFound
  <2>3. p.wheel = timer[t].wheel /\ p.wheel = w /\ p.active  BY <1>1, <1>3
  <2>4. t \notin timersToNotify
    BY <2>2, <2>3, WheelsAreNatural DEF WheelsInvariant, Listed
  <2>5. Remaining(p) <= MaxTimeout  BY <1>1, <1>3 DEF Remaining
  <2> HIDE DEF p, w, stays
  <2>6. timer' \in [Timers -> TimerRecord] /\ timer'[t] = p
        /\ \A u \in Timers \ {t} : timer'[u] = timer[u]
    BY <1>1, <1>2, <2>1
  <2>7. InWheel(timer', 0) = InWheel(timer, 0)  BY <2>3, <2>6 DEF InWheel
  <2> QED
    BY <1>1, <1>2, <2>1, <2>2, <2>3, <2>4, <2>5, <2>6, <2>7, WheelsAreNatural
<1>4. CASE ~stays
  <2>1. /\ timer' = [timer EXCEPT ![t] = a]
        /\ timersToNotify' = IF T = 0 THEN timersToNotify \cup {t} ELSE timersToNotify \ {t}
        /\ SetHighResolutionTicker(timer', kept, highAge)
    BY <1>4 DEF AddTimer
  <2> DEFINE q == Unlisted(p)
  <2>2. q \in TimerRecord /\ q.timeout = T /\ q.interval = p.interval
    <3>1. 0 \in 0..(Slots - 1)  BY ResolutionType
    <3> HIDE DEF p
    <3> QED  BY <1>1, <3>1 DEF Unlisted, TimerRecord
  <2>3. /\ a \in TimerRecord /\ a.active /\ a.interval = q.interval
        /\ q.timeout = 0 => a.wheel = NoWheel
        /\ q.timeout > 0 => a.wheel \in Wheels /\ Remaining(a) <= MaxTimeout
    <3>1. q.timeout <= MaxTimeout  BY <1>1, <2>2
    <3> HIDE DEF q
    <3> QED  BY <1>2, <2>2, <3>1, AdjustedFits DEF q
  <2> HIDE DEF a, q
  <2>4. timer' \in [Timers -> TimerRecord] /\ timer'[t] = a
        /\ \A u \in Timers \ {t} : timer'[u] = timer[u]
    BY <1>2, <2>1, <2>3
  <2>5. highEnabled' = (InWheel(timer', 0) # {}) /\ highAge' \in 0..(1 + lag)
    <3>1. kept \in BOOLEAN  BY <1>2
    <3> HIDE DEF kept
    <3> QED  BY <1>2, <2>1, <3>1, HighTicker
  <2>6. T \in Nat  BY <1>1, <1>2
  <2> HIDE DEF p, T
  <2>7. t \in timersToNotify' <=> T = 0  BY <2>1
  <2>8. T = 0 <=> a.wheel = NoWheel  BY <2>2, <2>3, <2>6, WheelsAreNatural
  <2>9. a.wheel # NoWheel => Remaining(a) <= MaxTimeout
    BY <2>2, <2>3, <2>6, <2>8
  <2>10. timersToNotify' \subseteq Timers
         /\ \A u \in Timers \ {t} : u \in timersToNotify' <=> u \in timersToNotify
    BY <1>2, <2>1
  <2>11. a.interval = d.interval  BY <1>1, <2>2, <2>3 DEF p
  <2> QED  BY <2>3, <2>4, <2>5, <2>7, <2>8, <2>9, <2>10, <2>11
<1> QED  BY <1>3, <1>4

\* A timer that is taken out leaves the others alone.
LEMMA Removed ==
    ASSUME TimersTyped, Listed, RestFits, NEW t \in Timers,
           timer' = [timer EXCEPT ![t] = Inactive],
           timersToNotify' = timersToNotify \ {t},
           left' = [left EXCEPT ![t] = Off]
    PROVE  TimersTyped' /\ Listed' /\ RestFits'
<1>1. Inactive \in TimerRecord  BY ResolutionType DEF Inactive, TimerRecord
<1>2. /\ timer' \in [Timers -> TimerRecord] /\ timer'[t] = Inactive
      /\ \A u \in Timers \ {t} : timer'[u] = timer[u]
      /\ left' \in [Timers -> Int \cup {Off}] /\ left'[t] = Off
      /\ \A u \in Timers \ {t} : left'[u] = left[u]
  BY <1>1 DEF TimersTyped
<1>3. Inactive.interval = 0 /\ Inactive.wheel = NoWheel /\ Inactive.active = FALSE
  BY DEF Inactive
<1>4. TimersTyped'  BY <1>2 DEF TimersTyped
<1>5. Listed'  BY <1>2, <1>3 DEF Listed
<1>6. RestFits'
  <2>1. MaxTimeout \in Nat  BY SpanOfLast, ResolutionType
  <2>2. ASSUME NEW u \in Timers
        PROVE  /\ timer'[u].interval <= MaxTimeout
               /\ timer'[u].wheel # NoWheel => Remaining(timer'[u]) <= MaxTimeout
    <3>1. CASE u = t  BY <1>2, <1>3, <2>1, <3>1
    <3>2. CASE u # t  BY <1>2, <3>2 DEF RestFits
    <3> QED  BY <3>1, <3>2
  <2> QED  BY <2>2 DEF RestFits
<1> QED  BY <1>4, <1>5, <1>6

LEMMA Started ==
    ASSUME WheelsInvariant, NEW t \in Timers, NEW d \in TimerRecord,
           d.interval <= MaxTimeout, d.active => d.wheel = timer[t].wheel,
           AddTimer(t, d), left' = [left EXCEPT ![t] = d.interval]
    PROVE  /\ TimersTyped' /\ Listed' /\ RestFits'
           /\ highEnabled' = (InWheel(timer', 0) # {}) /\ highAge' \in 0..(1 + lag)
<1>1. /\ timer' \in [Timers -> TimerRecord]
      /\ \A u \in Timers \ {t} : timer'[u] = timer[u]
      /\ timersToNotify' \subseteq Timers
      /\ \A u \in Timers \ {t} : u \in timersToNotify' <=> u \in timersToNotify
      /\ timer'[t].active /\ timer'[t].interval = d.interval
      /\ t \in timersToNotify' <=> timer'[t].wheel = NoWheel
      /\ timer'[t].wheel # NoWheel => Remaining(timer'[t]) <= MaxTimeout
      /\ highEnabled' = (InWheel(timer', 0) # {}) /\ highAge' \in 0..(1 + lag)
  BY Added
<1>2. d.interval \in Int /\ d.interval # Off  BY OffAssumption DEF TimerRecord
<1>3. /\ left' \in [Timers -> Int \cup {Off}] /\ left'[t] # Off
      /\ \A u \in Timers \ {t} : left'[u] = left[u]
  BY <1>2 DEF WheelsInvariant, TimersTyped
<1>4. TimersTyped'  BY <1>1, <1>3 DEF TimersTyped
<1>5. timer'[t].active = TRUE
  <2>1. timer'[t].active \in BOOLEAN  BY <1>1 DEF TimerRecord
  <2> QED  BY <1>1, <2>1
<1>6. Listed'
  <2>1. ASSUME NEW u \in Timers
        PROVE  /\ timer'[u].active = (left'[u] # Off)
               /\ u \in timersToNotify' <=> timer'[u].active /\ timer'[u].wheel = NoWheel
               /\ timer'[u].wheel # NoWheel => timer'[u].active
    <3>1. CASE u = t  BY <1>1, <1>3, <1>5, <3>1
    <3>2. CASE u # t
      <4>1. /\ timer'[u] = timer[u] /\ left'[u] = left[u]
            /\ u \in timersToNotify' <=> u \in timersToNotify
        BY <1>1, <1>3, <3>2
      <4> QED  BY <4>1 DEF WheelsInvariant, Listed
    <3> QED  BY <3>1, <3>2
  <2> QED  BY <2>1 DEF Listed
<1>7. RestFits'
  <2>1. ASSUME NEW u \in Timers
        PROVE  /\ timer'[u].interval <= MaxTimeout
               /\ timer'[u].wheel # NoWheel => Remaining(timer'[u]) <= MaxTimeout
    <3>1. CASE u = t  BY <1>1, <3>1
    <3>2. CASE u # t  BY <1>1, <3>2 DEF WheelsInvariant, RestFits
    <3> QED  BY <3>1, <3>2
  <2> QED  BY <2>1 DEF RestFits
<1> QED  BY <1>1, <1>4, <1>6, <1>7

\* Whatever the wheels lose moves on to where it belongs.
LEMMA Ticked ==
    ASSUME WheelsInvariant, NEW ws \in SUBSET Wheels, TickWheels(ws), UNCHANGED left
    PROVE  /\ TimersTyped' /\ Listed' /\ RestFits'
           /\ next' \in [Wheels -> 0..(Slots - 1)]
           /\ Expired(ws) = {} => timer' = timer
<1> DEFINE rest(d) == [d EXCEPT !.timeout = (@ % Resolution(d.wheel)) + d.extra,
                                !.extra = 0, !.wheel = NoWheel, !.slot = 0]
           nx == [i \in Wheels |-> IF i \in ws THEN (next[i] + 1) % Slots ELSE next[i]]
           due == {t \in Expired(ws) : rest(timer[t]).timeout = 0}
<1>1. /\ next' = nx /\ timersToNotify' = timersToNotify \cup due
      /\ timer' = [t \in Timers |-> IF t \in Expired(ws)
                                    THEN Adjusted(rest(timer[t]), nx) ELSE timer[t]]
  BY DEF TickWheels
<1>2. nx \in [Wheels -> 0..(Slots - 1)]
  <2>1. ASSUME NEW i \in Wheels
        PROVE  next[i] \in 0..(Slots - 1) /\ (next[i] + 1) % Slots \in 0..(Slots - 1)
    <3>1. next[i] \in 0..(Slots - 1) /\ Slots \in Nat /\ Slots >= 1
      BY ResolutionType DEF WheelsInvariant, Clocks
    <3>2. next[i] + 1 \in Nat  BY <3>1
    <3> QED  BY <3>1, <3>2, Remainder
  <2> QED  BY <2>1
<1>3. /\ timer \in [Timers -> TimerRecord] /\ timersToNotify \subseteq Timers
      /\ left \in [Timers -> Int \cup {Off}] /\ TimersTyped /\ MaxTimeout \in Nat
  BY SpanOfLast, ResolutionType DEF WheelsInvariant, TimersTyped
<1>4. ASSUME NEW t \in Expired(ws)
      PROVE  /\ t \in Timers /\ timer[t].wheel \in Wheels /\ timer[t].wheel # NoWheel
             /\ timer'[t] \in TimerRecord /\ timer'[t].active
             /\ timer'[t].interval = timer[t].interval
             /\ t \in due <=> timer'[t].wheel = NoWheel
             /\ timer'[t].wheel # NoWheel => Remaining(timer'[t]) <= MaxTimeout
  <2> DEFINE d == timer[t]
             q == rest(d)
             a == Adjusted(q, nx)
  <2>1. t \in Timers /\ d.wheel \in Wheels  BY DEF Expired
  <2>2. d.wheel # NoWheel  BY <2>1, WheelsAreNatural
  <2>3. Remaining(d) <= MaxTimeout  BY <2>1, <2>2 DEF WheelsInvariant, RestFits
  <2>4. Remaining(d) \in Nat
    <3>1. d.timeout \in Nat /\ d.extra \in Nat  BY <1>3, <2>1, RecordsTyped
    <3> DEFINE r == Resolution(d.wheel)
    <3>2. r \in Nat /\ r >= 1  BY <2>1, ResolutionStep
    <3> HIDE DEF r
    <3>3. d.timeout % r \in 0..(r - 1)  BY <3>1, <3>2, Remainder
    <3>4. (d.timeout % r) + d.extra \in Nat  BY <3>1, <3>2, <3>3
    <3> QED  BY <3>4 DEF Remaining, r
  <2>5. d \in TimerRecord  BY <1>3, <2>1
  <2>6. q = [d EXCEPT !.timeout = Remaining(d), !.extra = 0, !.wheel = NoWheel, !.slot = 0]
    <3>1. d = [active |-> d.active, wheel |-> d.wheel, slot |-> d.slot,
               timeout |-> d.timeout, extra |-> d.extra, interval |-> d.interval]
      <4> HIDE DEF d
      <4> QED  BY <2>5 DEF TimerRecord
    <3> HIDE DEF d
    <3> QED  BY DEF Remaining
  <2> DEFINE left_ == Remaining(d)
  <2>7. left_ \in Nat /\ left_ <= MaxTimeout  BY <2>3, <2>4
  <2>8. q = [d EXCEPT !.timeout = left_, !.extra = 0, !.wheel = NoWheel, !.slot = 0]
    BY <2>6
  <2>9. 0 \in 0..(Slots - 1)  BY ResolutionType
  <2>10. q.timeout = rest(timer[t]).timeout  OBVIOUS
  <2>11. timer'[t] = a  BY <1>1, <2>1
  <2> HIDE DEF left_, q, a, due, d
  <2>12. q \in TimerRecord /\ q.timeout = left_ /\ q.interval = d.interval
    BY <2>5, <2>7, <2>8, <2>9 DEF TimerRecord
  <2>13. /\ a \in TimerRecord /\ a.active /\ a.interval = q.interval
         /\ q.timeout = 0 => a.wheel = NoWheel
         /\ q.timeout > 0 => a.wheel \in Wheels /\ Remaining(a) <= MaxTimeout
    <3> HIDE DEF nx
    <3> QED  BY <1>2, <2>7, <2>12, AdjustedFits DEF a
  <2>14. t \in due <=> q.timeout = 0  BY <2>10 DEF due
  <2>15. q.timeout = 0 <=> a.wheel = NoWheel  BY <2>7, <2>12, <2>13, WheelsAreNatural
  <2>16. a.wheel # NoWheel => Remaining(a) <= MaxTimeout  BY <2>7, <2>12, <2>13, <2>15
  <2>17. timer[t].wheel \in Wheels /\ timer[t].wheel # NoWheel
    BY <2>1, <2>2 DEF d
  <2>18. timer'[t].interval = timer[t].interval  BY <2>11, <2>12, <2>13 DEF d
  <2> QED  BY <2>1, <2>11, <2>13, <2>14, <2>15, <2>16, <2>17, <2>18
<1>5. \A t \in Timers \ Expired(ws) : timer'[t] = timer[t] /\ t \notin due  BY <1>1
<1>6. due \subseteq Timers /\ Expired(ws) \subseteq Timers  BY DEF Expired
<1> HIDE DEF due, nx
<1>7. timer' \in [Timers -> TimerRecord]
  <2>1. \A t \in Timers : timer'[t] \in TimerRecord  BY <1>3, <1>4, <1>5
  <2> QED  BY <1>1, <2>1
<1>8. TimersTyped'  BY <1>1, <1>3, <1>6, <1>7 DEF TimersTyped
<1>9. Listed'
  <2>1. ASSUME NEW t \in Timers
        PROVE  /\ timer'[t].active = (left'[t] # Off)
               /\ t \in timersToNotify' <=> timer'[t].active /\ timer'[t].wheel = NoWheel
               /\ timer'[t].wheel # NoWheel => timer'[t].active
    <3>1. /\ timer[t].active = (left[t] # Off)
          /\ t \in timersToNotify <=> timer[t].active /\ timer[t].wheel = NoWheel
          /\ timer[t].wheel # NoWheel => timer[t].active
      BY DEF WheelsInvariant, Listed
    <3>2. CASE t \in Expired(ws)
      <4>1. /\ timer[t].wheel # NoWheel /\ timer'[t].active
            /\ t \in due <=> timer'[t].wheel = NoWheel
        BY <1>4, <3>2
      <4>2. t \notin timersToNotify /\ left[t] # Off  BY <3>1, <4>1
      <4>3. timer'[t].active = TRUE
        <5>1. timer'[t].active \in BOOLEAN  BY <1>7 DEF TimerRecord
        <5> QED  BY <4>1, <5>1
      <4> QED  BY <1>1, <4>1, <4>2, <4>3
    <3>3. CASE t \notin Expired(ws)
      <4>1. timer'[t] = timer[t] /\ t \notin due  BY <1>5, <3>3
      <4> QED  BY <1>1, <3>1, <4>1
    <3> QED  BY <3>2, <3>3
  <2> QED  BY <2>1 DEF Listed
<1>10. RestFits'
  <2>1. ASSUME NEW t \in Timers
        PROVE  /\ timer'[t].interval <= MaxTimeout
               /\ timer'[t].wheel # NoWheel => Remaining(timer'[t]) <= MaxTimeout
    <3>1. CASE t \in Expired(ws)  BY <1>4, <3>1 DEF WheelsInvariant, RestFits
    <3>2. CASE t \notin Expired(ws)  BY <1>5, <3>2 DEF WheelsInvariant, RestFits
    <3> QED  BY <3>1, <3>2
  <2> QED  BY <2>1 DEF RestFits
<1>11. Expired(ws) = {} => timer' = timer
  <2> SUFFICES ASSUME Expired(ws) = {} PROVE timer' = timer  OBVIOUS
  <2>1. \A t \in Timers : timer'[t] = timer[t]  BY <1>5
  <2> QED  BY <1>3, <1>7, <2>1
<1> QED  BY <1>1, <1>2, <1>8, <1>9, <1>10, <1>11

-----------------------------------------------------------------------------
(* The steps. *)

LEMMA InitWheelsInvariant == Init => WheelsInvariant
<1> SUFFICES ASSUME Init PROVE WheelsInvariant  OBVIOUS
<1>1. Inactive \in TimerRecord  BY ResolutionType DEF Inactive, TimerRecord
<1>2. \A t \in Timers : timer[t] = Inactive /\ left[t] = Off  BY DEF Init
<1>3. Inactive.interval = 0 /\ Inactive.wheel = NoWheel /\ Inactive.active = FALSE
  BY DEF Inactive
<1>4. TimersTyped  BY <1>1 DEF Init, TimersTyped
<1>5. Listed  BY <1>2, <1>3 DEF Init, Listed
<1>6. MaxTimeout \in Nat  BY SpanOfLast, ResolutionType
<1>7. RestFits  BY <1>2, <1>3, <1>6 DEF RestFits
<1>8. InWheel(timer, 0) = {}  BY <1>2, <1>3 DEF InWheel, NoWheel
<1>9. Resolution(WheelCount - 1) \in Nat /\ Resolution(WheelCount - 1) >= 1
  <2>1. WheelCount - 1 \in 0..WheelCount  BY ResolutionType
  <2> QED  BY <2>1, ResolutionType
<1>10. Clocks
  <2>1. Slots \in Nat /\ Slots >= 2 /\ MaxLag \in Nat  BY ResolutionType, MaxLagAssumption
  <2>2. next \in [Wheels -> 0..(Slots - 1)]  BY <2>1 DEF Init
  <2>3. highEnabled = (InWheel(timer, 0) # {})  BY <1>8 DEF Init
  <2>4. tickCounter \in 0..(Resolution(WheelCount - 1) - 1)
    <3> HIDE DEF Resolution
    <3> QED  BY <1>9 DEF Init
  <2>5. /\ lag \in 0..MaxLag /\ lowAge \in 0..(Slots + lag) /\ highAge \in 0..(1 + lag)
        /\ handler = "loop" /\ expirations \in Nat /\ emitting = Off
    BY <2>1 DEF Init
  <2> QED  BY <2>2, <2>3, <2>4, <2>5 DEF Clocks, Handlers
<1> QED  BY <1>4, <1>5, <1>7, <1>10 DEF WheelsInvariant

LEMMA StartStep ==
    ASSUME \A t \in Timers : Intervals[t] \subseteq 0..MaxTimeout,
           WheelsInvariant, NEW t \in Timers, Start(t)
    PROVE  WheelsInvariant'
<1>1. PICK i \in Intervals[t] : /\ AddTimer(t, [timer[t] EXCEPT !.interval = i])
                                /\ left' = [left EXCEPT ![t] = i]
  BY DEF Start
<1> DEFINE d == [timer[t] EXCEPT !.interval = i]
<1>2. i \in Nat /\ i <= MaxTimeout
  <2>1. MaxTimeout \in Nat  BY SpanOfLast, ResolutionType
  <2> QED  BY <2>1
<1>3. /\ d \in TimerRecord /\ d.interval = i
      /\ d.active = timer[t].active /\ d.wheel = timer[t].wheel
  <2>1. timer[t] \in TimerRecord  BY RecordsTyped DEF WheelsInvariant
  <2> QED  BY <1>2, <2>1 DEF TimerRecord
<1> HIDE DEF d
<1>4. AddTimer(t, d) /\ left' = [left EXCEPT ![t] = d.interval]  BY <1>1, <1>3 DEF d
<1>5. /\ TimersTyped' /\ Listed' /\ RestFits'
      /\ highEnabled' = (InWheel(timer', 0) # {}) /\ highAge' \in 0..(1 + lag)
  BY <1>2, <1>3, <1>4, Started
<1>6. /\ UNCHANGED <<next, tickCounter, lowAge, handler, expirations, emitting, lag>>
      /\ handler \notin {"low", "high"}
  BY DEF Start, UserRuns, WheelsInvariant, Clocks
<1>7. Clocks'  BY <1>5, <1>6 DEF WheelsInvariant, Clocks
<1> QED  BY <1>5, <1>7 DEF WheelsInvariant

LEMMA StopStep ==
    ASSUME WheelsInvariant, NEW t \in Timers, Stop(t)
    PROVE  WheelsInvariant'
<1>1. /\ timer' = [timer EXCEPT ![t] = Inactive] /\ timersToNotify' = timersToNotify \ {t}
      /\ left' = [left EXCEPT ![t] = Off]
      /\ UNCHANGED <<next, tickCounter, lowAge, handler, expirations, emitting, lag>>
      /\ handler \notin {"low", "high"}
  BY DEF Stop, UserRuns, WheelsInvariant, Clocks
<1>2. TimersTyped' /\ Listed' /\ RestFits'  BY <1>1, Removed DEF WheelsInvariant
<1>3. highEnabled' = (InWheel(timer', 0) # {}) /\ highAge' \in 0..(1 + lag)
  <2>1. /\ lag \in Nat /\ highAge \in 0..(1 + lag) /\ highEnabled \in BOOLEAN
        /\ highEnabled = (InWheel(timer, 0) # {})
    BY MaxLagAssumption DEF WheelsInvariant, Clocks
  <2>2. CASE timer[t].wheel # NoWheel
    <3>1. SetHighResolutionTicker(timer', highEnabled, highAge)  BY <2>2 DEF Stop
    <3> QED  BY <2>1, <3>1, HighTicker
  <2>3. CASE timer[t].wheel = NoWheel
    <3>1. UNCHANGED <<highEnabled, highAge>>  BY <2>3 DEF Stop
    <3>2. \A u \in Timers : timer'[u].wheel = timer[u].wheel
      BY <1>1, <2>3 DEF Inactive, WheelsInvariant, TimersTyped
    <3>3. InWheel(timer', 0) = InWheel(timer, 0)  BY <3>2 DEF InWheel
    <3> QED  BY <2>1, <3>1, <3>3
  <2> QED  BY <2>2, <2>3
<1>4. Clocks'  BY <1>1, <1>3 DEF WheelsInvariant, Clocks
<1> QED  BY <1>2, <1>4 DEF WheelsInvariant

LEMMA ProcessTimeoutStep ==
    ASSUME WheelsInvariant, NEW t \in Timers, ProcessTimeout(t)
    PROVE  WheelsInvariant'
<1> DEFINE d == Unlisted(timer[t])
<1>1. /\ handler = "notify" /\ t \in timersToNotify /\ emitting' = t
      /\ UNCHANGED <<next, tickCounter, lowAge, handler, expirations, lag>>
  BY DEF ProcessTimeout
<1>2. /\ lag \in Nat /\ highAge \in 0..(1 + lag) /\ highEnabled = (InWheel(timer, 0) # {})
      /\ timer[t].wheel = NoWheel
  BY <1>1, MaxLagAssumption DEF WheelsInvariant, Clocks, Listed
<1>3. /\ TimersTyped' /\ Listed' /\ RestFits'
      /\ highEnabled' = (InWheel(timer', 0) # {}) /\ highAge' \in 0..(1 + lag)
  <2>1. CASE /\ timer' = [timer EXCEPT ![t] = Inactive]
             /\ timersToNotify' = timersToNotify \ {t}
             /\ left' = [left EXCEPT ![t] = Off]
             /\ UNCHANGED <<highEnabled, highAge>>
    <3>1. TimersTyped' /\ Listed' /\ RestFits'  BY <2>1, Removed DEF WheelsInvariant
    <3>2. \A u \in Timers : timer'[u].wheel = timer[u].wheel
      BY <1>2, <2>1 DEF Inactive, WheelsInvariant, TimersTyped
    <3>3. InWheel(timer', 0) = InWheel(timer, 0)  BY <3>2 DEF InWheel
    <3> QED  BY <1>2, <2>1, <3>1, <3>3
  <2>2. CASE /\ d.interval > 0 /\ AddTimer(t, d)
             /\ left' = [left EXCEPT ![t] = d.interval]
    <3>1. d \in TimerRecord /\ d.interval = timer[t].interval /\ d.active = FALSE
      <4>1. timer[t] \in TimerRecord /\ 0 \in 0..(Slots - 1)
        BY RecordsTyped, ResolutionType DEF WheelsInvariant
      <4> QED  BY <4>1 DEF Unlisted, TimerRecord
    <3>2. d.interval <= MaxTimeout  BY <3>1 DEF WheelsInvariant, RestFits
    <3> HIDE DEF d
    <3> QED  BY <2>2, <3>1, <3>2, Started
  <2> QED  BY <2>1, <2>2 DEF ProcessTimeout
<1>4. Clocks'  BY <1>1, <1>3 DEF WheelsInvariant, Clocks
<1> QED  BY <1>3, <1>4 DEF WheelsInvariant

\* The ticks that a ticker has still to emit never exceed the time that has passed.
LEMMA TickerExpires ==
    ASSUME WheelsInvariant, LowResolutionExpired \/ HighResolutionExpired
    PROVE  WheelsInvariant'
<1>1. TimersTyped' /\ Listed' /\ RestFits'
  BY DEF LowResolutionExpired, HighResolutionExpired, WheelsInvariant, TimersTyped, Listed,
         RestFits, Remaining
<1>2. InWheel(timer', 0) = InWheel(timer, 0)
  BY DEF LowResolutionExpired, HighResolutionExpired, InWheel
<1>3. Slots \in Nat /\ Slots >= 2 /\ lag \in Nat /\ lowAge \in Nat /\ highAge \in Nat
  BY ResolutionType, MaxLagAssumption DEF WheelsInvariant, Clocks
<1>4. CASE LowResolutionExpired
  <2>1. /\ handler' = "low" /\ expirations' = lowAge \div Slots /\ lowAge >= Slots
        /\ emitting = Off
        /\ UNCHANGED <<next, tickCounter, lowAge, highEnabled, highAge, emitting, lag>>
    BY <1>4 DEF LowResolutionExpired, tickers, WheelsInvariant, Clocks
  <2>2. /\ expirations' \in Nat /\ expirations' > 0 /\ Slots * expirations' <= lowAge
    BY <1>3, <2>1, Remainder
  <2>3. Clocks'  BY <1>2, <2>1, <2>2 DEF WheelsInvariant, Clocks, Handlers
  <2> QED  BY <1>1, <2>3 DEF WheelsInvariant
<1>5. CASE HighResolutionExpired
  <2>1. /\ handler' = "high" /\ expirations' = highAge /\ highAge > 0 /\ emitting = Off
        /\ UNCHANGED <<next, tickCounter, lowAge, highEnabled, highAge, emitting, lag>>
    BY <1>5 DEF HighResolutionExpired, tickers, WheelsInvariant, Clocks
  <2>2. Clocks'  BY <1>2, <1>3, <2>1 DEF WheelsInvariant, Clocks, Handlers
  <2> QED  BY <1>1, <2>2 DEF WheelsInvariant
<1> QED  BY <1>4, <1>5

LEMMA LowTickStep ==
    ASSUME WheelsInvariant, OnLowResolutionTick
    PROVE  WheelsInvariant'
<1> DEFINE ws == WheelsAt(tickCounter')
           r == Resolution(WheelCount - 1)
<1>1. /\ handler = "low" /\ expirations' = expirations - 1
      /\ handler' = IF expirations = 1 THEN "loop" ELSE "low"
      /\ UNCHANGED <<emitting, left, lag>>
      /\ lowAge' = lowAge - Slots
      /\ tickCounter' = (tickCounter + 1) % r
      /\ TickWheels(ws) /\ SetHighResolutionTicker(timer', highEnabled, highAge)
  BY DEF OnLowResolutionTick, Tick
<1>2. ws \in SUBSET Wheels  BY DEF WheelsAt
<1>3. /\ TimersTyped' /\ Listed' /\ RestFits' /\ next' \in [Wheels -> 0..(Slots - 1)]
  <2> HIDE DEF ws
  <2> QED  BY <1>1, <1>2, Ticked
<1>4. /\ Slots \in Nat /\ Slots >= 2 /\ lag \in Nat /\ lag' = lag
      /\ lowAge \in 0..(Slots + lag) /\ highAge \in 0..(1 + lag)
      /\ expirations \in Nat /\ expirations > 0 /\ Slots * expirations <= lowAge
      /\ highEnabled \in BOOLEAN /\ emitting = Off /\ lag' \in 0..MaxLag
  BY <1>1, ResolutionType, MaxLagAssumption DEF WheelsInvariant, Clocks
<1>5. highEnabled' = (InWheel(timer', 0) # {}) /\ highAge' \in 0..(1 + lag)
  BY <1>1, <1>4, HighTicker
<1>6. tickCounter' \in 0..(r - 1)
  <2>1. WheelCount - 1 \in 0..WheelCount  BY ResolutionType
  <2>2. r \in Nat /\ r >= 1  BY <2>1, ResolutionType
  <2>3. tickCounter \in 0..(r - 1)  BY DEF WheelsInvariant, Clocks
  <2> HIDE DEF r
  <2>4. tickCounter + 1 \in Nat  BY <2>2, <2>3
  <2> QED  BY <1>1, <2>2, <2>4, Remainder
<1>7. Slots * (expirations - 1) = Slots * expirations - Slots  BY <1>4
<1>8. /\ expirations' \in Nat /\ lowAge' \in 0..(Slots + lag)
      /\ handler' = "low" => expirations' > 0 /\ Slots * expirations' <= lowAge'
      /\ handler' \in {"loop", "low"}
  <2> DEFINE x == Slots * expirations
  <2>1. x \in Nat /\ x >= Slots /\ x <= lowAge /\ Slots * (expirations - 1) = x - Slots
    BY <1>4, <1>7
  <2> HIDE DEF x
  <2>2. expirations' \in Nat /\ lowAge' \in 0..(Slots + lag)  BY <1>1, <1>4, <2>1
  <2>3. Slots * expirations' <= lowAge'  BY <1>1, <1>4, <2>1
  <2>4. handler' = "low" => expirations' > 0  BY <1>1, <1>4
  <2> QED  BY <1>1, <2>2, <2>3, <2>4
<1>9. Clocks'
  BY <1>1, <1>3, <1>4, <1>5, <1>6, <1>8 DEF Clocks, Handlers
<1> QED  BY <1>3, <1>9 DEF WheelsInvariant

LEMMA HighTickStep ==
    ASSUME WheelsInvariant, OnHighResolutionTick
    PROVE  WheelsInvariant'
<1>1. /\ handler = "high" /\ expirations' = expirations - 1
      /\ handler' = IF expirations = 1 THEN "loop" ELSE "high"
      /\ UNCHANGED <<emitting, left, lag, tickCounter, lowAge>>
      /\ TickWheels({0}) /\ SetHighResolutionTicker(timer', highEnabled, highAge - 1)
  BY DEF OnHighResolutionTick, Tick
<1>2. /\ TimersTyped' /\ Listed' /\ RestFits' /\ next' \in [Wheels -> 0..(Slots - 1)]
      /\ Expired({0}) = {} => timer' = timer
  BY <1>1, WheelsAreNatural, Ticked
<1>3. /\ lag \in Nat /\ highAge \in 0..(1 + lag) /\ expirations \in Nat /\ expirations > 0
      /\ highEnabled => expirations <= highAge
      /\ highEnabled = (InWheel(timer, 0) # {}) /\ emitting = Off
  BY <1>1, MaxLagAssumption DEF WheelsInvariant, Clocks
<1>4. highEnabled' => highEnabled
  <2> SUFFICES ASSUME ~highEnabled PROVE ~highEnabled'  OBVIOUS
  <2>1. Expired({0}) = {}  BY <1>3 DEF InWheel, Expired
  <2>2. InWheel(timer', 0) = {}  BY <1>2, <1>3, <2>1
  <2> QED  BY <1>1, <2>2 DEF SetHighResolutionTicker
<1>5. /\ highEnabled' = (InWheel(timer', 0) # {})
      /\ highAge' = IF highEnabled' /\ highEnabled THEN highAge - 1 ELSE 0
  BY <1>1 DEF SetHighResolutionTicker
<1>6. /\ highAge' \in 0..(1 + lag)
      /\ highEnabled' => expirations' <= highAge'
  BY <1>1, <1>3, <1>4, <1>5
<1>7. /\ expirations' \in Nat /\ handler' \in {"loop", "high"}
      /\ handler' = "high" => expirations' > 0
  BY <1>1, <1>3
<1>8. Clocks'
  BY <1>1, <1>2, <1>3, <1>5, <1>6, <1>7 DEF WheelsInvariant, Clocks, Handlers
<1> QED  BY <1>2, <1>8 DEF WheelsInvariant

LEMMA HandlerStep ==
    ASSUME WheelsInvariant, OnEvent \/ TimeoutReturns \/ NotifyTimersReturns
    PROVE  WheelsInvariant'
<1>1. /\ UNCHANGED <<timer, timersToNotify, tickers, expirations, left, lag>>
      /\ handler' \in {"loop", "notify"}
      /\ emitting' \in {emitting, Off} /\ (emitting' # Off => handler' = "notify")
  BY DEF OnEvent, TimeoutReturns, NotifyTimersReturns, WheelsInvariant, Clocks
<1>2. TimersTyped' /\ Listed' /\ RestFits'
  BY <1>1 DEF WheelsInvariant, TimersTyped, Listed, RestFits, Remaining
<1>3. InWheel(timer', 0) = InWheel(timer, 0)  BY <1>1 DEF InWheel
<1>4. Clocks'  BY <1>1, <1>3 DEF WheelsInvariant, Clocks, Handlers, tickers
<1> QED  BY <1>2, <1>4 DEF WheelsInvariant

LEMMA ElapseStep ==
    ASSUME WheelsInvariant, Elapse
    PROVE  WheelsInvariant'
<1>1. /\ UNCHANGED <<timer, timersToNotify, next, tickCounter, highEnabled, handler,
                     expirations, emitting>>
      /\ lowAge' = lowAge + 1 /\ highAge' = IF highEnabled THEN highAge + 1 ELSE 0
      /\ lag' = IF LoopIdle THEN 0 ELSE lag + 1
      /\ LoopIdle \/ lag < MaxLag
      /\ left' = [t \in Timers |-> IF left[t] = Off THEN Off ELSE left[t] - 1]
  BY DEF Elapse
<1>2. \A t \in Timers : left'[t] \in Int \cup {Off} /\ (left'[t] = Off <=> left[t] = Off)
  <2>1. ASSUME NEW t \in Timers
        PROVE  left'[t] \in Int \cup {Off} /\ (left'[t] = Off <=> left[t] = Off)
    <3>1. left[t] \in Int \cup {Off}  BY DEF WheelsInvariant, TimersTyped
    <3>2. CASE left[t] = Off  BY <1>1, <3>2
    <3>3. CASE left[t] # Off
      <4>1. left[t] \in Int /\ left'[t] = left[t] - 1  BY <1>1, <3>1, <3>3
      <4>2. left'[t] \in Int  BY <4>1
      <4> QED  BY <3>3, <4>2, OffAssumption
    <3> QED  BY <3>2, <3>3
  <2> QED  BY <2>1
<1>3. left' \in [Timers -> Int \cup {Off}]  BY <1>1, <1>2
<1>4. TimersTyped' /\ Listed' /\ RestFits'
  BY <1>1, <1>2, <1>3 DEF WheelsInvariant, TimersTyped, Listed, RestFits, Remaining
<1>5. InWheel(timer', 0) = InWheel(timer, 0)  BY <1>1 DEF InWheel
<1>6. /\ Slots \in Nat /\ Slots >= 2 /\ MaxLag \in Nat /\ lag \in 0..MaxLag
      /\ lowAge \in 0..(Slots + lag) /\ highAge \in 0..(1 + lag) /\ highEnabled \in BOOLEAN
      /\ expirations \in Nat
  BY ResolutionType, MaxLagAssumption DEF WheelsInvariant, Clocks
<1>7. /\ lag' \in 0..MaxLag /\ lowAge' \in 0..(Slots + lag') /\ highAge' \in 0..(1 + lag')
  <2>1. CASE LoopIdle  BY <1>1, <1>6, <2>1 DEF LoopIdle
  <2>2. CASE ~LoopIdle  BY <1>1, <1>6, <2>2
  <2> QED  BY <2>1, <2>2
<1>8. handler' = "low" => Slots * expirations' <= lowAge'
  <2>1. handler = "low" => Slots * expirations <= lowAge  BY DEF WheelsInvariant, Clocks
  <2> DEFINE x == Slots * expirations
  <2>2. x \in Nat  BY <1>6
  <2>3. expirations' = expirations /\ handler' = handler  BY <1>1
  <2>4. Slots * expirations' = x  BY <2>3
  <2>5. handler = "low" => x <= lowAge  BY <2>1
  <2> HIDE DEF x
  <2> QED  BY <1>1, <1>6, <2>2, <2>3, <2>4, <2>5
<1>9. handler' = "high" /\ highEnabled' => expirations' <= highAge'
  BY <1>1, <1>6 DEF WheelsInvariant, Clocks
<1>10. Clocks'
  BY <1>1, <1>5, <1>7, <1>8, <1>9 DEF WheelsInvariant, Clocks
<1> QED  BY <1>4, <1>10 DEF WheelsInvariant

LEMMA WheelsStep ==
    ASSUME \A t \in Timers : Intervals[t] \subseteq 0..MaxTimeout
    PROVE  WheelsInvariant /\ [Next]_vars => WheelsInvariant'
<1> SUFFICES ASSUME WheelsInvariant, [Next]_vars PROVE WheelsInvariant'  OBVIOUS
<1>1. ASSUME NEW t \in Timers, Start(t) PROVE WheelsInvariant'  BY <1>1, StartStep
<1>2. ASSUME NEW t \in Timers, Stop(t) PROVE WheelsInvariant'  BY <1>2, StopStep
<1>3. ASSUME NEW t \in Timers, ProcessTimeout(t) PROVE WheelsInvariant'
  BY <1>3, ProcessTimeoutStep
<1>4. CASE LowResolutionExpired \/ HighResolutionExpired  BY <1>4, TickerExpires
<1>5. CASE OnLowResolutionTick  BY <1>5, LowTickStep
<1>6. CASE OnHighResolutionTick  BY <1>6, HighTickStep
<1>7. CASE OnEvent \/ TimeoutReturns \/ NotifyTimersReturns  BY <1>7, HandlerStep
<1>8. CASE Elapse  BY <1>8, ElapseStep
<1>9. CASE UNCHANGED vars
  <2>1. TimersTyped' /\ Listed' /\ RestFits'
    BY <1>9 DEF vars, WheelsInvariant, TimersTyped, Listed, RestFits, Remaining
  <2>2. InWheel(timer', 0) = InWheel(timer, 0)  BY <1>9 DEF vars, InWheel
  <2>3. Clocks'  BY <1>9, <2>2 DEF vars, tickers, WheelsInvariant, Clocks
  <2> QED  BY <2>1, <2>3 DEF WheelsInvariant
<1> QED  BY <1>1, <1>2, <1>3, <1>4, <1>5, <1>6, <1>7, <1>8, <1>9 DEF Next

\* For any wheels, timers and lag: nothing that is left of a running timer's timeout is
\* more than a wheel can hold, and a ticker never emits more ticks than have passed.
\* (A timer that is started with more than all the wheels span is in no list: the
\* assignments to timeout() that were to prevent this change a temporary.)
THEOREM WheelsAreInvariant ==
    ASSUME \A t \in Timers : Intervals[t] \subseteq 0..MaxTimeout
    PROVE  Spec => []WheelsInvariant
<1>1. WheelsInvariant /\ [Next]_vars => WheelsInvariant'  BY WheelsStep
<1> QED  BY <1>1, InitWheelsInvariant, PTL DEF Spec

\* A running timer is in exactly one place, a slot of its wheel or the timers to
\* notify, and one that does not run in none.
THEOREM TimersAreListedOnce ==
    ASSUME \A t \in Timers : Intervals[t] \subseteq 0..MaxTimeout
    PROVE  Spec => []ListedOnce
<1>1. WheelsInvariant => ListedOnce
  <2> SUFFICES ASSUME WheelsInvariant PROVE ListedOnce  OBVIOUS
  <2>1. lag \in Nat /\ lowAge \in Nat /\ highAge \in Nat /\ highEnabled \in BOOLEAN
    BY ResolutionType, MaxLagAssumption DEF WheelsInvariant, Clocks
  <2>2. TypeOK
    BY <2>1 DEF WheelsInvariant, TimersTyped, Clocks, Handlers, TypeOK
  <2> QED  BY <2>2 DEF WheelsInvariant, Listed, ListedOnce
<1> QED  BY <1>1, WheelsAreInvariant, PTL

-----------------------------------------------------------------------------
(* Division. *)

LEMMA Division ==
    ASSUME NEW m \in Nat, m >= 1, NEW a \in Nat, NEW q \in Nat, NEW r \in 0..(m - 1),
           a = m * q + r
    PROVE  a % m = r /\ a \div m = q
<1> DEFINE p == a \div m
           s == a % m
<1>1. p \in Nat /\ s \in 0..(m - 1) /\ a = m * p + s  OBVIOUS
<1> HIDE DEF p, s
<1>2. p = q
  <2>1. CASE p < q
    <3>1. q - p >= 1 /\ q - p \in Nat  BY <1>1, <2>1
    <3>2. m * (q - p) >= m  BY <3>1
    <3>3. m * (q - p) = m * q - m * p  BY <1>1
    <3> QED  BY <1>1, <3>2, <3>3
  <2>2. CASE p > q
    <3>1. p - q >= 1 /\ p - q \in Nat  BY <1>1, <2>2
    <3>2. m * (p - q) >= m  BY <3>1
    <3>3. m * (p - q) = m * p - m * q  BY <1>1
    <3> QED  BY <1>1, <3>2, <3>3
  <2> QED  BY <1>1, <2>1, <2>2
<1>3. s = r  BY <1>1, <1>2
<1> QED  BY <1>2, <1>3 DEF p, s

LEMMA Successor ==
    ASSUME NEW m \in Nat, m >= 1, NEW a \in Nat
    PROVE  (a + 1) % m = IF (a % m) + 1 = m THEN 0 ELSE (a % m) + 1
<1> DEFINE p == a \div m
           s == a % m
<1>1. p \in Nat /\ s \in 0..(m - 1) /\ a = m * p + s  OBVIOUS
<1> HIDE DEF p, s
<1>2. CASE s + 1 = m
  <2>1. a + 1 = m * (p + 1) + 0  BY <1>1, <1>2
  <2>2. (a + 1) % m = 0  BY <1>1, <2>1, Division
  <2> QED  BY <1>2, <2>2 DEF s
<1>3. CASE s + 1 # m
  <2>1. a + 1 = m * p + (s + 1) /\ s + 1 \in 0..(m - 1)  BY <1>1, <1>3
  <2>2. (a + 1) % m = s + 1  BY <1>1, <2>1, Division
  <2> QED  BY <1>3, <2>2 DEF s
<1> QED  BY <1>2, <1>3

LEMMA Scaled ==
    ASSUME NEW m \in Nat, m >= 1, NEW n \in Nat, n >= 1, NEW a \in Nat
    PROVE  (a * n) % (n * m) = n * (a % m)
<1> DEFINE p == a \div m
           s == a % m
<1>1. p \in Nat /\ s \in 0..(m - 1) /\ a = m * p + s  OBVIOUS
<1> HIDE DEF p, s
<1>2. a * n = (n * m) * p + n * s
  <2>1. a * n = (m * p + s) * n  BY <1>1
  <2>2. m * p \in Nat  BY <1>1
  <2> DEFINE mp == m * p
  <2>3. (mp + s) * n = mp * n + s * n
    <3> HIDE DEF mp
    <3> QED  BY <1>1, <2>2 DEF mp
  <2>4. mp * n = (n * m) * p  BY <1>1
  <2>5. s * n = n * s  BY <1>1
  <2> QED  BY <2>1, <2>3, <2>4, <2>5
<1>3. n * s \in Nat /\ n * s <= n * m - 1 /\ n * m \in Nat /\ n * m >= 1
  <2>1. s \in Nat /\ m - s \in Nat /\ m - s >= 1  BY <1>1
  <2>2. n * (m - s) >= n /\ n * (m - s) = n * m - n * s  BY <2>1
  <2>3. n * s \in Nat /\ n * m \in Nat  BY <2>1
  <2> QED  BY <2>2, <2>3
<1> DEFINE nm == n * m
           ns == n * s
           an == a * n
<1>4. an = nm * p + ns /\ nm \in Nat /\ nm >= 1 /\ ns \in 0..(nm - 1) /\ an \in Nat
  BY <1>2, <1>3
<1> HIDE DEF nm, ns, an
<1>5. an % nm = ns  BY <1>1, <1>4, Division
<1> QED  BY <1>5 DEF nm, ns, an, s

LEMMA MultipleOf ==
    ASSUME NEW m \in Nat, m >= 1, NEW k \in Nat, k >= 1, NEW a \in Nat, a % (k * m) = 0
    PROVE  a % m = 0
<1> DEFINE km == k * m
           p == a \div km
<1>1. km \in Nat /\ km >= 1  OBVIOUS
<1>2. p \in Nat /\ a = km * p
  <2> HIDE DEF km
  <2>1. a % km = 0  BY DEF km
  <2> QED  BY <1>1, <2>1
<1> HIDE DEF p
<1>3. a = m * (k * p) + 0 /\ k * p \in Nat  BY <1>2
<1> DEFINE q == k * p
<1>4. q \in Nat /\ a = m * q + 0  BY <1>3
<1> HIDE DEF q
<1> QED  BY <1>4, Division

-----------------------------------------------------------------------------
(* How the wheels turn. *)

\* A coarser wheel turns only when every finer one does.
LEMMA Multiples ==
    ASSUME NEW i \in 0..WheelCount, NEW j \in 0..i
    PROVE  \E k \in Nat : k >= 1 /\ Resolution(i) = k * Resolution(j)
<1> DEFINE P(n) == \E k \in Nat : k >= 1 /\ Resolution(n) = k * Resolution(j)
           Bad == {n \in j..WheelCount : ~P(n)}
<1>1. WheelCount \in Nat /\ i \in j..WheelCount /\ j \in Nat /\ Bad \subseteq Nat
      /\ Slots \in Nat /\ Slots >= 2
  BY ResolutionType
<1>2. Bad = {}
  <2> SUFFICES ASSUME Bad # {} PROVE FALSE  OBVIOUS
  <2>1. PICK n \in Bad : \A m \in Bad : n <= m
    <3> HIDE DEF Bad
    <3> QED  BY <1>1, Least
  <2>2. n \in j..WheelCount /\ ~P(n)  OBVIOUS
  <2>3. n # j
    <3>1. Resolution(j) \in Nat  BY <1>1, <2>2, ResolutionType
    <3>2. Resolution(j) = 1 * Resolution(j)  BY <3>1
    <3>3. P(j)  BY <3>2
    <3> QED  BY <2>2, <3>3
  <2>4. n - 1 \in j..WheelCount /\ n - 1 \in Wheels /\ n - 1 + 1 = n
    BY <1>1, <2>2, <2>3 DEF Wheels
  <2>5. n - 1 \notin Bad
    <3> HIDE DEF Bad
    <3> QED  BY <1>1, <2>1, <2>2
  <2> HIDE DEF P
  <2>6. P(n - 1)  BY <2>4, <2>5
  <2>7. PICK k \in Nat : k >= 1 /\ Resolution(n - 1) = k * Resolution(j)  BY <2>6 DEF P
  <2>8. Resolution(n) = Slots * Resolution(n - 1) /\ Resolution(j) \in Nat
    <3>1. j \in 0..WheelCount  BY <1>1, <2>2
    <3> QED  BY <2>4, <3>1, ResolutionStep, ResolutionType
  <2>9. Slots * k \in Nat /\ Slots * k >= 1 /\ Resolution(n) = (Slots * k) * Resolution(j)
    <3> DEFINE r == Resolution(j)
    <3>1. r \in Nat /\ Resolution(n) = Slots * (k * r)  BY <2>7, <2>8
    <3> HIDE DEF r
    <3>2. Slots * (k * r) = (Slots * k) * r  BY <1>1, <2>7, <3>1
    <3>3. Slots * k \in Nat /\ Slots * k >= 1  BY <1>1, <2>7
    <3> QED  BY <3>1, <3>2, <3>3 DEF r
  <2>10. P(n)  BY <2>9 DEF P
  <2> QED  BY <2>2, <2>10
<1> HIDE DEF Bad
<1>3. i \notin Bad  BY <1>2
<1> QED  BY <1>1, <1>3 DEF Bad

\* How far a wheel has got in its turn, in milliseconds, after c low resolution ticks.
Phase(c, i) == (c * Slots) % Resolution(i)

LEMMA PhaseOfFirst ==
    ASSUME NEW c \in Nat
    PROVE  Phase(c, 0) = 0
<1>1. c * Slots \in Nat  BY ResolutionType
<1> DEFINE x == c * Slots
<1>2. x \in Nat  BY <1>1
<1> HIDE DEF x
<1>3. x % 1 = 0  BY <1>2
<1> QED  BY <1>3, ResolutionAssumption DEF Phase, x

\* The ticks of wheel i in units of the wheel below it.
LEMMA PhaseScaled ==
    ASSUME NEW c \in Nat, NEW i \in Wheels \ {0}
    PROVE  /\ i - 1 \in Wheels /\ Resolution(i - 1) \in Nat /\ Resolution(i - 1) >= 1
           /\ Resolution(i) = Slots * Resolution(i - 1)
           /\ Phase(c, i) = Slots * (c % Resolution(i - 1))
           /\ c % Resolution(i - 1) \in 0..(Resolution(i - 1) - 1)
<1>1. i - 1 \in Wheels /\ i - 1 + 1 = i /\ Slots \in Nat /\ Slots >= 2
  BY ResolutionType DEF Wheels
<1> DEFINE m == Resolution(i - 1)
<1>2. m \in Nat /\ m >= 1 /\ Resolution(i) = Slots * m  BY <1>1, ResolutionStep
<1>3. Phase(c, i) = (c * Slots) % (Slots * m)  BY <1>2 DEF Phase
<1> HIDE DEF m
<1>4. (c * Slots) % (Slots * m) = Slots * (c % m)
  <2> DEFINE n == Slots
  <2>1. n \in Nat /\ n >= 1  BY <1>1
  <2> HIDE DEF n
  <2>2. (c * n) % (n * m) = n * (c % m)  BY <1>2, <2>1, Scaled, Zenon
  <2> QED  BY <2>2 DEF n
<1>5. c % m \in 0..(m - 1)  BY <1>2, Remainder
<1> QED  BY <1>1, <1>2, <1>3, <1>4, <1>5 DEF m

LEMMA PhaseType ==
    ASSUME NEW c \in Nat, NEW i \in Wheels
    PROVE  /\ Phase(c, i) \in Nat
           /\ i # 0 => Phase(c, i) + Slots <= Resolution(i)
           /\ Phase(c, i) <= Resolution(i) - 1
<1>1. CASE i = 0  BY <1>1, PhaseOfFirst, ResolutionAssumption
<1>2. CASE i # 0
  <2> DEFINE m == Resolution(i - 1)
             k == c % m
  <2>1. /\ m \in Nat /\ m >= 1 /\ Resolution(i) = Slots * m /\ Phase(c, i) = Slots * k
        /\ k \in 0..(m - 1) /\ Slots \in Nat /\ Slots >= 2
    BY <1>2, PhaseScaled, ResolutionType
  <2> HIDE DEF k, m
  <2>2. m - k \in Nat /\ m - k >= 1 /\ k \in Nat  BY <2>1
  <2>3. Slots * (m - k) >= Slots /\ Slots * (m - k) = Slots * m - Slots * k
    BY <2>1, <2>2
  <2>4. Slots * k \in Nat /\ Slots * m \in Nat  BY <2>1, <2>2
  <2> QED  BY <2>1, <2>3, <2>4
<1> QED  BY <1>1, <1>2

\* The counter as it wraps round says the same of every wheel.
LEMMA PhaseAdvances ==
    ASSUME NEW c \in 0..(Resolution(WheelCount - 1) - 1), NEW i \in Wheels \ {0}
    PROVE  LET e == (c + 1) % Resolution(WheelCount - 1)
           IN  /\ e \in 0..(Resolution(WheelCount - 1) - 1)
               /\ Phase(e, i) = IF Phase(c, i) + Slots = Resolution(i) THEN 0
                                ELSE Phase(c, i) + Slots
<1> DEFINE top == Resolution(WheelCount - 1)
           e == (c + 1) % top
           m == Resolution(i - 1)
<1>1. i - 1 \in 0..(WheelCount - 1) /\ WheelCount - 1 \in 0..WheelCount /\ WheelCount - 1 \in Wheels
  BY ResolutionType DEF Wheels
<1>2. PICK k \in Nat : k >= 1 /\ top = k * m  BY <1>1, Multiples
<1>3. top \in Nat /\ top >= 1 /\ m \in Nat /\ m >= 1 /\ Slots \in Nat /\ Slots >= 2
  BY <1>1, PhaseScaled, ResolutionType
<1>4. /\ c \in Nat /\ c + 1 \in Nat /\ c \in 0..(top - 1)
  BY <1>3
<1>5. Resolution(i) = Slots * m /\ Phase(c, i) = Slots * (c % m) /\ c % m \in 0..(m - 1)
  BY <1>4, PhaseScaled
<1> HIDE DEF top, m
<1>6. e \in 0..(top - 1) /\ e \in Nat  BY <1>3, <1>4, Remainder
<1>7. e % m = (c + 1) % m
  <2>1. CASE c + 1 = top
    <3>1. c + 1 = top * 1 + 0  BY <1>3, <2>1
    <3>2. e = 0  BY <1>3, <1>4, <3>1, Division
    <3>3. c + 1 = m * k + 0  BY <1>2, <1>3, <2>1
    <3>4. (c + 1) % m = 0
      <4> DEFINE a == c + 1
      <4>1. a \in Nat /\ a = m * k + 0 /\ 0 \in 0..(m - 1)  BY <1>3, <1>4, <3>3
      <4> HIDE DEF a
      <4>2. a % m = 0  BY <1>2, <1>3, <4>1, Division, Zenon
      <4> QED  BY <4>2 DEF a
    <3>5. 0 = m * 0 + 0  BY <1>3
    <3>6. 0 % m = 0  BY <1>3, <3>5, Division
    <3> QED  BY <3>2, <3>4, <3>6
  <2>2. CASE c + 1 # top
    <3>1. c + 1 = top * 0 + (c + 1) /\ c + 1 \in 0..(top - 1)  BY <1>3, <1>4, <2>2
    <3>2. e = c + 1  BY <1>3, <1>4, <3>1, Division
    <3> QED  BY <3>2
  <2> QED  BY <2>1, <2>2
<1>8. (c + 1) % m = IF (c % m) + 1 = m THEN 0 ELSE (c % m) + 1  BY <1>3, <1>4, Successor
<1>9. Phase(e, i) = Slots * (e % m)
  <2> HIDE DEF e
  <2> QED  BY <1>6, PhaseScaled DEF m
<1> HIDE DEF e
<1> DEFINE s == c % m
<1>10. /\ s \in 0..(m - 1) /\ Phase(c, i) = Slots * s /\ Resolution(i) = Slots * m
       /\ Phase(e, i) = Slots * (IF s + 1 = m THEN 0 ELSE s + 1)
  BY <1>5, <1>7, <1>8, <1>9
<1> HIDE DEF s
<1>11. CASE s + 1 = m
  <2>1. Slots * s + Slots = Slots * m  BY <1>3, <1>10, <1>11
  <2>2. Phase(e, i) = 0  BY <1>3, <1>10, <1>11
  <2> QED  BY <1>6, <1>10, <2>1, <2>2 DEF e, top
<1>12. CASE s + 1 # m
  <2>1. Slots * (s + 1) = Slots * s + Slots  BY <1>3, <1>10
  <2>2. Slots * s + Slots # Slots * m
    <3>1. m - s - 1 \in Nat /\ m - s - 1 >= 1  BY <1>3, <1>10, <1>12
    <3>2. Slots * (m - s - 1) >= 1  BY <1>3, <3>1
    <3>3. Slots * (m - s - 1) = Slots * m - (Slots * s + Slots)  BY <1>3, <1>10
    <3> QED  BY <1>3, <1>10, <3>2, <3>3
  <2>3. Phase(e, i) = Slots * s + Slots  BY <1>10, <1>12, <2>1
  <2> QED  BY <1>6, <1>10, <2>2, <2>3 DEF e, top
<1> QED  BY <1>11, <1>12

LEMMA FinerTurnsToo ==
    ASSUME NEW c \in Nat, NEW i \in Wheels, NEW j \in 0..i, Phase(c, i) = 0
    PROVE  Phase(c, j) = 0
<1> DEFINE x == c * Slots
           r == Resolution(j)
<1>1. x \in Nat /\ i \in 0..WheelCount /\ j \in 0..WheelCount
  BY ResolutionType DEF Wheels
<1>2. PICK k \in Nat : k >= 1 /\ Resolution(i) = k * r  BY <1>1, Multiples
<1>3. r \in Nat /\ r >= 1 /\ x % (k * r) = 0  BY <1>1, <1>2, ResolutionType DEF Phase
<1> HIDE DEF x, r
<1>4. x % r = 0  BY <1>1, <1>2, <1>3, MultipleOf
<1> QED  BY <1>4 DEF Phase, x, r

-----------------------------------------------------------------------------
(* When a timer is due. *)

\* The longest interval that is honoured wherever in the turns of the wheels it begins.
Longest == MaxTimeout - Resolution(WheelCount - 1) - 2 * Slots

\* The turns of its wheel until the slot of a timer expires.
Turns(d, nx) == IF d.slot >= nx[d.wheel] THEN d.slot - nx[d.wheel] + 1
                ELSE d.slot - nx[d.wheel] + 1 + Slots

\* The milliseconds until a timer in a wheel is told to time out, if no tick is late:
\* those of the turns that are left, less what has passed of this one, and what is
\* left of its timeout then.
DueIn(d, nx, c, low, high) ==
    Turns(d, nx) * Resolution(d.wheel) - Phase(c, d.wheel)
        - (IF d.wheel = 0 THEN high ELSE low) + Remaining(d)

\* What a timer of a long interval ignores when it is started.
Slack(t) == IF t \in Precise THEN 0 ELSE Slots + MaxLag

OnTime(t, d, l, nx, c, low, high, behind) ==
    /\ d.wheel \in Wheels =>
         /\ Remaining(d) <= Resolution(d.wheel + 1)
         /\ l \in Int
    /\ d.wheel \in Wheels \ {0} =>
         /\ DueIn(d, nx, c, low, high) <= l
         /\ l <= DueIn(d, nx, c, low, high) + Slack(t)
    /\ d.wheel = 0 =>
         /\ DueIn(d, nx, c, low, high) - (MaxLag + 1) <= l
         /\ l <= DueIn(d, nx, c, low, high) + Slack(t) + MaxLag + 1
    /\ d.wheel = NoWheel /\ d.active =>
         /\ l \in Int
         /\ -(behind + MaxLag + 1) <= l
         /\ l <= Slack(t) + MaxLag + 1

Timely ==
    /\ ~highEnabled => highAge = 0
    /\ \A t \in Timers :
         /\ timer[t].interval > 0 => timer[t].interval <= Longest
         /\ OnTime(t, timer[t], left[t], next, tickCounter, lowAge, highAge, lag)

DeadlinesInvariant == WheelsInvariant /\ Timely


LEMMA WheelsOrdered ==
    ASSUME NEW i \in 0..WheelCount, NEW j \in 0..i
    PROVE  Resolution(j) \in Nat /\ Resolution(i) \in Nat /\ Resolution(j) <= Resolution(i)
<1>1. PICK k \in Nat : k >= 1 /\ Resolution(i) = k * Resolution(j)  BY Multiples
<1> DEFINE r == Resolution(j)
<1>2. r \in Nat /\ Resolution(i) \in Nat
  BY ResolutionType
<1> HIDE DEF r
<1>3. k * r >= r  BY <1>1, <1>2
<1> QED  BY <1>1, <1>2, <1>3 DEF r

LEMMA TurnsOfSlot ==
    ASSUME NEW d, NEW nx, NEW k \in 0..(Slots - 1), nx[d.wheel] = k,
           NEW q \in 1..Slots, d.slot = (q - 1 + k) % Slots
    PROVE  Turns(d, nx) = q
<1>1. /\ Slots \in Nat /\ Slots >= 2 /\ Slots >= 1 /\ q \in Nat /\ q >= 1 /\ q <= Slots
      /\ k \in Nat /\ k <= Slots - 1 /\ q - 1 + k \in Nat
  BY ResolutionType
<1> DEFINE a == q - 1 + k
<1>2. a \in Nat /\ d.slot = a % Slots  BY <1>1
<1>3. CASE a < Slots
  <2>1. a % Slots = a
    <3> HIDE DEF a
    <3>1. a = Slots * 0 + a /\ a \in 0..(Slots - 1)  BY <1>1, <1>2, <1>3
    <3> QED  BY <1>1, <1>2, <3>1, Division
  <2>2. d.slot = a  BY <1>2, <2>1
  <2> QED  BY <1>1, <2>2 DEF Turns
<1>4. CASE a >= Slots
  <2> DEFINE b == a - Slots
  <2>1. b \in 0..(Slots - 1)  BY <1>1, <1>4
  <2>2. a % Slots = b
    <3> HIDE DEF a
    <3>1. a = Slots * 1 + b  BY <1>1, <1>2
    <3> HIDE DEF b
    <3> QED  BY <1>1, <1>2, <2>1, <3>1, Division
  <2>3. d.slot = b  BY <1>2, <2>2
  <2> QED  BY <1>1, <2>3 DEF Turns
<1> QED  BY <1>1, <1>3, <1>4

LEMMA TurnsType ==
    ASSUME NEW d \in TimerRecord, d.wheel \in Wheels, NEW nx \in [Wheels -> 0..(Slots - 1)]
    PROVE  Turns(d, nx) \in 1..Slots
<1>1. d.slot \in 0..(Slots - 1) /\ nx[d.wheel] \in 0..(Slots - 1) /\ Slots \in Nat
  BY ResolutionType DEF TimerRecord
<1> QED  BY <1>1 DEF Turns

LEMMA RemainingType ==
    ASSUME NEW d \in TimerRecord, d.wheel \in Wheels
    PROVE  Remaining(d) \in Nat /\ d.timeout % Resolution(d.wheel) \in Nat
<1> DEFINE r == Resolution(d.wheel)
           x == d.timeout
<1>1. r \in Nat /\ r >= 1 /\ x \in Nat /\ d.extra \in Nat
  BY ResolutionStep DEF TimerRecord
<1> HIDE DEF r, x
<1>2. x % r \in Nat  BY <1>1, Remainder
<1> QED  BY <1>1, <1>2 DEF Remaining, r, x

\* A timer is put where as many turns as its timeout takes are ahead of it.
LEMMA Placed ==
    ASSUME NEW d \in TimerRecord, d.timeout > 0, d.timeout + d.extra <= MaxTimeout,
           NEW nx \in [Wheels -> 0..(Slots - 1)], NEW a, a = Adjusted(d, nx),
           NEW w, w = WheelFor(d.timeout)
    PROVE  /\ w \in Wheels /\ a.wheel = w /\ a.active /\ a.interval = d.interval
           /\ a \in TimerRecord /\ a.timeout = d.timeout /\ a.extra = d.extra
           /\ a.slot = SlotFor(w, d.timeout, nx[w])
<1>1. /\ d.timeout \in Nat /\ d.extra \in Nat /\ MaxTimeout \in Nat
      /\ d.interval \in Nat /\ d.slot \in 0..(Slots - 1)
  BY SpanOfLast, ResolutionType DEF TimerRecord
<1>2. w \in Wheels /\ CanAdd(w, d.timeout)
  <2>1. d.timeout <= MaxTimeout  BY <1>1
  <2> QED  BY <1>1, <2>1, WheelIsFound
<1>3. SlotFor(w, d.timeout, nx[w]) \in 0..(Slots - 1)  BY <1>1, <1>2, SlotType
<1>4. ~(d.timeout + d.extra > MaxTimeout)  BY <1>1
<1>5. a = [d EXCEPT !.active = TRUE, !.wheel = w, !.slot = SlotFor(w, d.timeout, nx[w])]
  BY <1>2, <1>4 DEF Adjusted
<1> DEFINE k == SlotFor(w, d.timeout, nx[w])
<1>6. k \in 0..(Slots - 1) /\ a = [d EXCEPT !.active = TRUE, !.wheel = w, !.slot = k]
  BY <1>3, <1>5
<1> HIDE DEF k
<1> QED  BY <1>2, <1>6 DEF TimerRecord, k

\* The slot of a timeout and the remainder are the timeout.
LEMMA SlotSpans ==
    ASSUME NEW a, NEW T \in Nat, T > 0, T <= MaxTimeout, a.wheel = WheelFor(T),
           a.timeout = T, NEW nx \in [Wheels -> 0..(Slots - 1)],
           a.slot = SlotFor(a.wheel, T, nx[a.wheel]), a.extra \in Nat
    PROVE  Turns(a, nx) * Resolution(a.wheel) + Remaining(a) = T + a.extra
<1> DEFINE w == a.wheel
           r == Resolution(w)
           q == T \div r
           k == nx[w]
<1>1. w \in Wheels /\ r <= T /\ T <= Resolution(w + 1)  BY WheelIsFound DEF CanAdd
<1>2. /\ r \in Nat /\ r >= 1 /\ Resolution(w + 1) = Slots * r
      /\ Slots \in Nat /\ Slots >= 2 /\ k \in 0..(Slots - 1)
  BY <1>1, ResolutionStep, ResolutionType
<1> DEFINE s == T % r
<1> HIDE DEF r
<1>3. q \in Nat /\ s \in 0..(r - 1) /\ T = r * q + s  BY <1>2
<1> HIDE DEF q, s
<1>4. q \in 1..Slots
  <2>1. q # 0  BY <1>1, <1>2, <1>3 DEF r
  <2>2. q <= Slots
    <3> SUFFICES ASSUME q > Slots PROVE FALSE  BY <1>2, <1>3
    <3>1. q - Slots \in Nat /\ q - Slots >= 1  BY <1>2, <1>3
    <3>2. r * (q - Slots) >= r /\ r * (q - Slots) = r * q - r * Slots
      BY <1>2, <1>3, <3>1
    <3>3. r * Slots = Slots * r /\ r * Slots \in Nat /\ r * q \in Nat  BY <1>2, <1>3
    <3> QED  BY <1>1, <1>2, <1>3, <3>2, <3>3
  <2> QED  BY <1>2, <1>3, <2>1, <2>2
<1>5. a.slot = (q - 1 + k) % Slots  BY DEF SlotFor, q, r
<1>6. Turns(a, nx) = q  BY <1>2, <1>4, <1>5, TurnsOfSlot
<1>7. Remaining(a) = s + a.extra  BY DEF Remaining, s, r
<1>8. q * r = r * q /\ r * q \in Nat  BY <1>2, <1>3
<1> QED  BY <1>2, <1>3, <1>6, <1>7, <1>8 DEF r

LEMMA ClockNumbers ==
    ASSUME WheelsInvariant
    PROVE  /\ Slots \in Nat /\ Slots >= 2 /\ MaxLag \in Nat /\ MaxLag <= Slots - 2
           /\ lag \in Nat /\ lag <= MaxLag
           /\ lowAge \in Nat /\ lowAge <= Slots + lag
           /\ highAge \in Nat /\ highAge <= 1 + lag
           /\ tickCounter \in Nat /\ tickCounter \in 0..(Resolution(WheelCount - 1) - 1)
           /\ next \in [Wheels -> 0..(Slots - 1)] /\ highEnabled \in BOOLEAN
           /\ timer \in [Timers -> TimerRecord] /\ MaxTimeout \in Nat
<1>1. Slots \in Nat /\ Slots >= 2 /\ MaxLag \in Nat /\ MaxLag <= Slots - 2
  BY ResolutionType, MaxLagAssumption
<1>2. Resolution(WheelCount - 1) \in Nat /\ MaxTimeout \in Nat
  <2>1. WheelCount - 1 \in 0..WheelCount  BY ResolutionType
  <2> QED  BY <2>1, ResolutionType, SpanOfLast
<1>3. lag \in Nat /\ lag <= MaxLag  BY <1>1 DEF WheelsInvariant, Clocks
<1>4. /\ lowAge \in Nat /\ lowAge <= Slots + lag
      /\ highAge \in Nat /\ highAge <= 1 + lag
  BY <1>1, <1>3 DEF WheelsInvariant, Clocks
<1>5. tickCounter \in Nat /\ tickCounter \in 0..(Resolution(WheelCount - 1) - 1)
  <2> DEFINE r == Resolution(WheelCount - 1)
  <2>1. tickCounter \in 0..(r - 1) /\ r \in Nat  BY <1>2 DEF WheelsInvariant, Clocks
  <2> HIDE DEF r
  <2>2. tickCounter \in Nat  BY <2>1
  <2> QED  BY <2>1, <2>2 DEF r
<1>6. /\ next \in [Wheels -> 0..(Slots - 1)] /\ highEnabled \in BOOLEAN
      /\ timer \in [Timers -> TimerRecord]
  BY DEF WheelsInvariant, Clocks, TimersTyped
<1> QED  BY <1>1, <1>2, <1>3, <1>4, <1>5, <1>6

LEMMA LongestType ==
    /\ Longest \in Int /\ Longest <= MaxTimeout - 2 * Slots
    /\ \A w \in Wheels : Longest + Resolution(w) + 2 * Slots <= MaxTimeout
<1>1. WheelCount - 1 \in 0..WheelCount /\ Slots \in Nat /\ MaxTimeout \in Nat
  BY ResolutionType, SpanOfLast
<1> DEFINE r == Resolution(WheelCount - 1)
<1>2. r \in Nat /\ Longest = MaxTimeout - r - 2 * Slots
  BY <1>1, ResolutionType DEF Longest
<1>3. ASSUME NEW w \in Wheels PROVE Resolution(w) \in Nat /\ Resolution(w) <= r
  <2>1. w \in 0..(WheelCount - 1)  BY DEF Wheels
  <2> QED  BY <1>1, <2>1, WheelsOrdered
<1> HIDE DEF r
<1>4. ASSUME NEW w \in Wheels PROVE Longest + Resolution(w) + 2 * Slots <= MaxTimeout
  <2> DEFINE x == Resolution(w)
  <2>1. x \in Nat /\ x <= r  BY <1>3
  <2> HIDE DEF x
  <2>2. Longest + x + 2 * Slots <= MaxTimeout  BY <1>1, <1>2, <2>1
  <2> QED  BY <2>2 DEF x
<1>5. Longest \in Int /\ Longest <= MaxTimeout - 2 * Slots  BY <1>1, <1>2
<1> QED  BY <1>4, <1>5

\* What is added to a timeout stays within the turn that it is begun in.
LEMMA ExtraFits ==
    ASSUME WheelsInvariant, NEW t \in Timers, NEW T \in Nat, T > 0, T <= Longest,
           NEW w, w = WheelFor(T), NEW x, x = SubTick(t, T)
    PROVE  /\ w \in Wheels /\ T <= MaxTimeout
           /\ w = 0 => x = highAge
           /\ w # 0 => x \in {0, lowAge} /\ (t \in Precise => x = lowAge)
           /\ x \in Nat /\ Phase(tickCounter, w) \in Nat
           /\ T + (x + Phase(tickCounter, w)) <= MaxTimeout
           /\ (T % Resolution(w)) + (x + Phase(tickCounter, w)) <= Resolution(w + 1)
<1>1. /\ Slots \in Nat /\ Slots >= 2 /\ MaxLag \in Nat /\ MaxLag <= Slots - 2
      /\ lag \in Nat /\ lag <= MaxLag /\ lowAge \in Nat /\ lowAge <= Slots + lag
      /\ highAge \in Nat /\ highAge <= 1 + lag /\ tickCounter \in Nat /\ MaxTimeout \in Nat
  BY ClockNumbers
<1>2. T <= MaxTimeout /\ Longest \in Int  BY <1>1, LongestType
<1>3. w \in Wheels /\ CanAdd(w, T) /\ \A j \in 0..(w - 1) : T > Resolution(j + 1)
  BY <1>2, WheelIsFound
<1>4. 0 \in Wheels /\ Resolution(0) = 1 /\ Resolution(0 + 1) = Slots
  <2>1. 0 \in Wheels  BY WheelsAreNatural
  <2>2. Resolution(0) = 1 /\ Resolution(0 + 1) = Slots * Resolution(0)
    BY <2>1, ResolutionAssumption
  <2>3. Slots * 1 = Slots  BY <1>1
  <2> QED  BY <2>1, <2>2, <2>3
<1>5. w \in Nat  BY <1>3, WheelsAreNatural
<1>6. w = 0 => T <= Slots  BY <1>3, <1>4 DEF CanAdd
<1>7. w # 0 => T > Slots
  <2> SUFFICES ASSUME w # 0 PROVE T > Slots  OBVIOUS
  <2>1. 0 \in 0..(w - 1)  BY <1>5
  <2>2. T > Resolution(0 + 1)  BY <1>3, <2>1
  <2> QED  BY <1>4, <2>2
<1>8. Slots * Slots > Slots /\ Slots * Slots \in Nat  BY <1>1
<1>9. w = 0 => x = highAge
  <2> DEFINE ss == Slots * Slots
  <2>1. ss > Slots /\ ss \in Nat  BY <1>8
  <2>2. x = IF t \notin Precise /\ T >= ss THEN 0 ELSE IF T > Slots THEN lowAge ELSE highAge
    BY DEF SubTick
  <2> HIDE DEF ss
  <2> QED  BY <1>1, <1>6, <2>1, <2>2
<1>10. w # 0 => x \in {0, lowAge} /\ (t \in Precise => x = lowAge)  BY <1>7 DEF SubTick
<1>11. x \in Nat /\ (w = 0 => x <= Slots - 1) /\ x <= 2 * Slots - 2
  BY <1>1, <1>9, <1>10
<1> DEFINE r == Resolution(w)
           f == Phase(tickCounter, w)
           v == T % r
<1>12. /\ r \in Nat /\ r >= 1 /\ Resolution(w + 1) = Slots * r
       /\ f \in Nat /\ (w # 0 => f + Slots <= r) /\ (w = 0 => f = 0) /\ f <= r - 1
       /\ Longest + r + 2 * Slots <= MaxTimeout /\ (w = 0 => r = 1)
  BY <1>1, <1>3, <1>4, ResolutionStep, PhaseType, PhaseOfFirst, LongestType
<1>13. v \in 0..(r - 1)
  <2> HIDE DEF r
  <2> QED  BY <1>12, Remainder
<1>14. T + (x + f) <= MaxTimeout
  <2> HIDE DEF r, f, v
  <2> QED  BY <1>1, <1>2, <1>11, <1>12
<1>15. v + (x + f) <= Slots * r
  <2> HIDE DEF r, f, v
  <2>1. CASE w = 0
    <3>1. r = 1 /\ v = 0 /\ f = 0 /\ x <= Slots - 1  BY <1>11, <1>12, <1>13, <2>1
    <3>2. Slots * r = Slots  BY <1>1, <3>1
    <3> QED  BY <1>1, <1>11, <3>1, <3>2
  <2>2. CASE w # 0
    <3> DEFINE s == Slots - 2
               sr == s * r
    <3>1. s \in Nat /\ sr \in Nat /\ sr >= s
      BY <1>1, <1>12
    <3>2. Slots * r = sr + 2 * r  BY <1>1, <1>12
    <3>3. v + (x + f) <= s + 2 * r  BY <1>1, <1>11, <1>12, <1>13, <2>2
    <3> HIDE DEF sr
    <3> QED  BY <1>1, <1>11, <1>12, <1>13, <3>1, <3>2, <3>3
  <2> QED  BY <2>1, <2>2
<1> QED  BY <1>2, <1>3, <1>9, <1>10, <1>11, <1>12, <1>14, <1>15

\* A timer that is put into a wheel now, with what its wheel has turned already added to
\* its timeout, is due when its interval has elapsed: a coarse one a little earlier, and
\* one for which the high resolution ticker is enabled anew a little later.
LEMMA StartsOnTime ==
    ASSUME WheelsInvariant, NEW t \in Timers, NEW d \in TimerRecord, d.timeout > 0,
           d.timeout <= Longest, d.wheel = WheelFor(d.timeout),
           d.extra = SubTick(t, d.timeout) + Phase(tickCounter, d.wheel),
           d.slot = SlotFor(d.wheel, d.timeout, next[d.wheel]),
           NEW high \in {0, highAge}
    PROVE  OnTime(t, d, d.timeout, next, tickCounter, lowAge, high, lag)
<1> DEFINE T == d.timeout
           w == d.wheel
           x == SubTick(t, T)
           f == Phase(tickCounter, w)
           n == Turns(d, next) * Resolution(w)
           m == Remaining(d)
<1>1. /\ Slots \in Nat /\ Slots >= 2 /\ MaxLag \in Nat /\ lag \in Nat /\ lag <= MaxLag
      /\ lowAge \in Nat /\ lowAge <= Slots + lag
      /\ highAge \in Nat /\ highAge <= 1 + lag /\ next \in [Wheels -> 0..(Slots - 1)]
  BY ClockNumbers
<1>2. T \in Nat /\ d.extra \in Nat  BY DEF TimerRecord
<1>3. /\ w \in Wheels /\ T <= MaxTimeout
      /\ w = 0 => x = highAge
      /\ w # 0 => x \in {0, lowAge} /\ (t \in Precise => x = lowAge)
      /\ x \in Nat /\ f \in Nat
      /\ (T % Resolution(w)) + (x + f) <= Resolution(w + 1)
  BY <1>2, ExtraFits
<1>4. n + m = T + (x + f)  BY <1>1, <1>2, <1>3, SlotSpans
<1>5. m <= Resolution(w + 1)  BY <1>3 DEF Remaining
<1>6. n \in Nat /\ m \in Nat
  <2>1. Turns(d, next) \in 1..Slots /\ Resolution(w) \in Nat /\ m \in Nat
    BY <1>1, <1>3, TurnsType, RemainingType, ResolutionStep
  <2> DEFINE a == Turns(d, next)
             b == Resolution(w)
  <2>2. a \in Nat /\ b \in Nat  BY <1>1, <2>1
  <2> HIDE DEF a, b
  <2>3. a * b \in Nat  BY <2>2
  <2> QED  BY <2>1, <2>3 DEF a, b
<1> DEFINE due == DueIn(d, next, tickCounter, lowAge, high)
<1>7. due = n - f - (IF w = 0 THEN high ELSE lowAge) + m  BY DEF DueIn
<1>8. Slack(t) \in Nat /\ (t \notin Precise => Slack(t) = Slots + MaxLag)
  BY <1>1 DEF Slack
<1> HIDE DEF T, w, x, f, n, m, due
<1>9. w # 0 => due <= T /\ T <= due + Slack(t)
  BY <1>1, <1>2, <1>3, <1>4, <1>6, <1>7, <1>8
<1>10. w = 0 => due - (MaxLag + 1) <= T /\ T <= due + Slack(t) + MaxLag + 1
  BY <1>1, <1>2, <1>3, <1>4, <1>6, <1>7, <1>8
<1>11. w # NoWheel  BY <1>3, WheelsAreNatural
<1> QED  BY <1>2, <1>5, <1>9, <1>10, <1>11 DEF OnTime, T, w, m, due

\* Who does not see that the high resolution ticker is enabled anew stays on time.
LEMMA OthersOnTime ==
    ASSUME NEW u \in Timers, NEW high,
           OnTime(u, timer[u], left[u], next, tickCounter, lowAge, highAge, lag),
           timer[u].wheel = 0 => high = highAge
    PROVE  OnTime(u, timer[u], left[u], next, tickCounter, lowAge, high, lag)
<1>1. CASE timer[u].wheel = 0  BY <1>1
<1>2. CASE timer[u].wheel # 0
  <2>1. DueIn(timer[u], next, tickCounter, lowAge, high)
          = DueIn(timer[u], next, tickCounter, lowAge, highAge)
    BY <1>2 DEF DueIn
  <2> QED  BY <1>2, <2>1 DEF OnTime
<1> QED  BY <1>1, <1>2

LEMMA AddedOnTime ==
    ASSUME DeadlinesInvariant, NEW t \in Timers, NEW d \in TimerRecord,
           d.interval <= MaxTimeout, d.interval > 0 => d.interval <= Longest,
           d.active => d.wheel = timer[t].wheel,
           AddTimer(t, d), left' = [left EXCEPT ![t] = d.interval],
           UNCHANGED <<next, tickCounter, lowAge, lag>>
    PROVE  Timely'
<1> DEFINE p == Prepared(t, d)
           T == d.interval
           w == WheelFor(T)
           extra == SubTick(t, T) + Phase(tickCounter, w)
           stays == p.timeout > 0 /\ p.active /\ p.wheel = WheelFor(p.timeout)
                    /\ p.slot = SlotFor(WheelFor(p.timeout), p.timeout, next[WheelFor(p.timeout)])
           q == Unlisted(p)
           a == Adjusted(q, next)
           others == [timer EXCEPT ![t] = Inactive]
           kept == highEnabled /\ (~p.active \/ p.wheel = NoWheel \/ InWheel(others, 0) # {})
<1>1. /\ WheelsInvariant /\ Clocks
      /\ timer \in [Timers -> TimerRecord] /\ left \in [Timers -> Int \cup {Off}]
      /\ highEnabled \in BOOLEAN /\ highEnabled = (InWheel(timer, 0) # {})
      /\ next \in [Wheels -> 0..(Slots - 1)] /\ lag \in Nat /\ MaxLag \in Nat /\ Slots \in Nat
      /\ ~highEnabled => highAge = 0
  BY ClockNumbers DEF DeadlinesInvariant, WheelsInvariant, TimersTyped, Clocks, Timely
<1>2. /\ p \in TimerRecord /\ p.timeout = T /\ p.interval = T
      /\ p.active = d.active /\ p.wheel = d.wheel /\ p.slot = d.slot
  BY <1>1, PreparedFits
<1>3. T \in Nat /\ T <= MaxTimeout  BY DEF TimerRecord
<1>4. T > 0 => p.extra = extra
  <2> SUFFICES ASSUME T > 0 PROVE p.extra = extra  OBVIOUS
  <2>1. T # 0  BY <1>3
  <2>2. p = [d EXCEPT !.timeout = T, !.extra = extra]  BY <2>1 DEF Prepared, Phase
  <2> HIDE DEF p, extra
  <2> QED  BY <2>2 DEF TimerRecord
<1>5. T > 0 => /\ w \in Wheels /\ extra \in Nat /\ T + extra <= MaxTimeout
  <2> SUFFICES ASSUME T > 0
               PROVE  w \in Wheels /\ extra \in Nat /\ T + extra <= MaxTimeout
    OBVIOUS
  <2> DEFINE x == SubTick(t, T)
             f == Phase(tickCounter, w)
  <2>1. T <= Longest  OBVIOUS
  <2>2. w \in Wheels /\ x \in Nat /\ f \in Nat /\ T + (x + f) <= MaxTimeout
    <3> HIDE DEF T
    <3> QED  BY <1>1, <1>3, <2>1, ExtraFits
  <2> HIDE DEF w, x, f, T
  <2>3. x + f \in Nat  BY <2>2
  <2> QED  BY <2>2, <2>3 DEF x, f
<1>6. /\ \A u \in Timers \ {t} : timer'[u] = timer[u] /\ left'[u] = left[u]
      /\ timer'[t].interval = T /\ left'[t] = T /\ timer'[t].active
      /\ highEnabled' = (InWheel(timer', 0) # {})
  BY <1>1, Added
<1>7. /\ ~highEnabled' => highAge' = 0
      /\ highAge' \in {0, highAge}
      /\ \A u \in Timers \ {t} : timer[u].wheel = 0 => highAge' = highAge
  <2>1. CASE stays
    <3>1. UNCHANGED <<highEnabled, highAge>>  BY <2>1 DEF AddTimer
    <3> QED  BY <1>1, <3>1
  <2>2. CASE ~stays
    <3>1. SetHighResolutionTicker(timer', kept, highAge)  BY <2>2 DEF AddTimer
    <3>2. ASSUME NEW u \in Timers \ {t}, timer[u].wheel = 0
          PROVE  kept /\ highEnabled'
      <4>1. u \in InWheel(timer, 0)  BY <3>2 DEF InWheel
      <4>2. u \in InWheel(timer', 0)  BY <1>6, <3>2 DEF InWheel
      <4>3. u \in InWheel(others, 0)  BY <1>1, <3>2 DEF InWheel
      <4> QED  BY <1>1, <1>6, <4>1, <4>2, <4>3
    <3> HIDE DEF kept
    <3>3. highAge' = IF highEnabled' /\ kept THEN highAge ELSE 0
      BY <3>1 DEF SetHighResolutionTicker
    <3> QED  BY <3>2, <3>3
  <2> QED  BY <2>1, <2>2
<1>8. T > 0 => /\ timer'[t] \in TimerRecord /\ timer'[t].timeout = T
               /\ timer'[t].wheel = w /\ timer'[t].extra = extra
               /\ timer'[t].slot = SlotFor(w, T, next[w])
  <2> SUFFICES ASSUME T > 0
               PROVE  /\ timer'[t] \in TimerRecord /\ timer'[t].timeout = T
                      /\ timer'[t].wheel = w /\ timer'[t].extra = extra
                      /\ timer'[t].slot = SlotFor(w, T, next[w])
    OBVIOUS
  <2>1. CASE stays
    <3>1. timer' = [timer EXCEPT ![t] = p]  BY <2>1 DEF AddTimer
    <3>2. timer'[t] = p  BY <1>1, <3>1
    <3>3. p.wheel = w /\ p.slot = SlotFor(w, T, next[w])  BY <1>2, <2>1
    <3> HIDE DEF p, w, extra, stays
    <3> QED  BY <1>2, <1>4, <3>2, <3>3
  <2>2. CASE ~stays
    <3>1. timer' = [timer EXCEPT ![t] = a]  BY <2>2 DEF AddTimer
    <3>2. timer'[t] = a  BY <1>1, <3>1
    <3>3. q \in TimerRecord /\ q.timeout = T /\ q.extra = extra /\ q.interval = T
      <4>1. 0 \in 0..(Slots - 1)  BY ResolutionType
      <4> HIDE DEF p, extra
      <4> QED  BY <1>2, <1>4, <4>1 DEF Unlisted, TimerRecord
    <3> HIDE DEF q, extra, p
    <3>4. /\ a.wheel = w /\ a \in TimerRecord /\ a.timeout = T /\ a.extra = extra
          /\ a.slot = SlotFor(w, T, next[w])
      BY <1>1, <1>3, <1>5, <3>3, Placed
    <3> QED  BY <3>2, <3>4
  <2> QED  BY <2>1, <2>2
<1>9. T = 0 => timer'[t].wheel = NoWheel
  <2> SUFFICES ASSUME T = 0 PROVE timer'[t].wheel = NoWheel  OBVIOUS
  <2>1. p.timeout = 0  BY <1>2
  <2>2. timer' = [timer EXCEPT ![t] = a]  BY <2>1 DEF AddTimer
  <2>3. timer'[t] = a  BY <1>1, <2>2
  <2>4. q.timeout = 0 /\ q \in TimerRecord
    <3>1. 0 \in 0..(Slots - 1)  BY ResolutionType
    <3> HIDE DEF p
    <3> QED  BY <1>2, <2>1, <3>1 DEF Unlisted, TimerRecord
  <2> HIDE DEF q
  <2>5. a = [q EXCEPT !.active = TRUE, !.wheel = NoWheel, !.slot = 0]
    BY <2>4 DEF Adjusted
  <2>6. a.wheel = NoWheel
    <3> HIDE DEF a
    <3> QED  BY <2>4, <2>5 DEF TimerRecord
  <2> QED  BY <2>3, <2>6
<1>10. OnTime(t, timer'[t], T, next, tickCounter, lowAge, highAge', lag)
  <2>1. CASE T > 0
    <3>1. T <= Longest  BY <2>1
    <3> DEFINE z == timer'[t]
               h == highAge'
    <3>2. /\ z \in TimerRecord /\ z.timeout = T /\ z.wheel = w /\ z.extra = extra
          /\ z.slot = SlotFor(w, T, next[w]) /\ h \in {0, highAge}
      BY <1>7, <1>8, <2>1
    <3> HIDE DEF z, h
    <3>3. /\ z.timeout > 0 /\ z.timeout <= Longest /\ z.wheel = WheelFor(z.timeout)
          /\ z.extra = SubTick(t, z.timeout) + Phase(tickCounter, z.wheel)
          /\ z.slot = SlotFor(z.wheel, z.timeout, next[z.wheel])
      BY <2>1, <3>1, <3>2
    <3>4. OnTime(t, z, z.timeout, next, tickCounter, lowAge, h, lag)
      BY <1>1, <3>2, <3>3, StartsOnTime
    <3> QED  BY <3>2, <3>4 DEF z, h
  <2>2. CASE T = 0
    <3>1. timer'[t].wheel = NoWheel /\ NoWheel \notin Wheels /\ NoWheel # 0
      BY <1>9, <2>2, WheelsAreNatural
    <3>2. T \in Int /\ -(lag + MaxLag + 1) <= T /\ T <= Slack(t) + MaxLag + 1
      BY <1>1, <2>2 DEF Slack
    <3> QED  BY <3>1, <3>2 DEF OnTime
  <2> QED  BY <1>3, <2>1, <2>2
<1>11. ASSUME NEW u \in Timers
       PROVE  /\ timer'[u].interval > 0 => timer'[u].interval <= Longest
              /\ OnTime(u, timer'[u], left'[u], next, tickCounter, lowAge, highAge', lag)
  <2>1. CASE u = t  BY <1>6, <1>10, <2>1
  <2>2. CASE u # t
    <3>1. /\ timer'[u] = timer[u] /\ left'[u] = left[u]
          /\ timer[u].wheel = 0 => highAge' = highAge
      BY <1>6, <1>7, <2>2
    <3>2. /\ timer[u].interval > 0 => timer[u].interval <= Longest
          /\ OnTime(u, timer[u], left[u], next, tickCounter, lowAge, highAge, lag)
      BY DEF DeadlinesInvariant, Timely
    <3>3. OnTime(u, timer[u], left[u], next, tickCounter, lowAge, highAge', lag)
      BY <3>1, <3>2, OthersOnTime
    <3> QED  BY <3>1, <3>2, <3>3
  <2> QED  BY <2>1, <2>2
<1>12. /\ next' = next /\ tickCounter' = tickCounter /\ lowAge' = lowAge /\ lag' = lag
  OBVIOUS
<1> QED  BY <1>7, <1>11, <1>12 DEF Timely

-----------------------------------------------------------------------------
(* Ticks and deadlines. *)

\* When a wheel turns, all of its slots come nearer but the one that expires.
LEMMA TurnsAdvance ==
    ASSUME NEW d \in TimerRecord, d.wheel \in Wheels,
           NEW nx \in [Wheels -> 0..(Slots - 1)], NEW ny,
           ny[d.wheel] = (nx[d.wheel] + 1) % Slots
    PROVE  /\ d.slot = nx[d.wheel] => Turns(d, nx) = 1
           /\ d.slot # nx[d.wheel] => Turns(d, ny) = Turns(d, nx) - 1
<1> DEFINE s == d.slot
           k == nx[d.wheel]
           j == ny[d.wheel]
<1>1. s \in 0..(Slots - 1) /\ k \in 0..(Slots - 1) /\ Slots \in Nat /\ Slots >= 2
  BY ResolutionType DEF TimerRecord
<1>2. j = IF k + 1 = Slots THEN 0 ELSE k + 1
  <2> HIDE DEF k
  <2>1. k \in Nat /\ Slots >= 1  BY <1>1
  <2>2. k % Slots = k
    <3>1. k = Slots * 0 + k  BY <1>1
    <3> QED  BY <1>1, <2>1, <3>1, Division
  <2>3. (k + 1) % Slots = IF (k % Slots) + 1 = Slots THEN 0 ELSE (k % Slots) + 1
    BY <1>1, <2>1, Successor
  <2> QED  BY <2>2, <2>3 DEF k
<1>3. /\ Turns(d, nx) = IF s >= k THEN s - k + 1 ELSE s - k + 1 + Slots
      /\ Turns(d, ny) = IF s >= j THEN s - j + 1 ELSE s - j + 1 + Slots
  BY DEF Turns
<1> HIDE DEF s, k, j
<1>4. s = k => Turns(d, nx) = 1  BY <1>1, <1>3
<1>5. s # k => Turns(d, ny) = Turns(d, nx) - 1
  <2>1. CASE k + 1 = Slots  BY <1>1, <1>2, <1>3, <2>1
  <2>2. CASE k + 1 # Slots  BY <1>1, <1>2, <1>3, <2>2
  <2> QED  BY <2>1, <2>2
<1> QED  BY <1>4, <1>5 DEF s, k

\* What a timer takes with it to another wheel when its slot expires.
Rest(d) == [d EXCEPT !.timeout = (@ % Resolution(d.wheel)) + d.extra,
                     !.extra = 0, !.wheel = NoWheel, !.slot = 0]

\* A timer moves on to a wheel that is not coarser, where it has as long to wait as was
\* left of its timeout.
LEMMA MovesOn ==
    ASSUME NEW d \in TimerRecord, d.wheel \in Wheels, NEW m, m = Remaining(d),
           m <= Resolution(d.wheel + 1),
           NEW nx \in [Wheels -> 0..(Slots - 1)], NEW a, a = Adjusted(Rest(d), nx)
    PROVE  /\ a \in TimerRecord /\ a.interval = d.interval /\ a.active
           /\ m = 0 => a.wheel = NoWheel
           /\ m > 0 => /\ a.wheel \in Wheels /\ a.wheel \in 0..d.wheel
                       /\ Turns(a, nx) * Resolution(a.wheel) + Remaining(a) = m
                       /\ Remaining(a) <= Resolution(a.wheel + 1)
<1> DEFINE q == Rest(d)
           w == WheelFor(m)
<1>1. /\ m \in Nat /\ MaxTimeout \in Nat /\ d.wheel \in Nat
      /\ Resolution(d.wheel + 1) \in Nat /\ Resolution(d.wheel + 1) <= MaxTimeout
  BY RemainingType, SpanOfLast, ResolutionType, ResolutionStep, WheelsAreNatural
<1>2. m <= MaxTimeout  BY <1>1
<1>3. q = [d EXCEPT !.timeout = m, !.extra = 0, !.wheel = NoWheel, !.slot = 0]
  <2>1. q = [d EXCEPT !.timeout = (d.timeout % Resolution(d.wheel)) + d.extra, !.extra = 0,
                      !.wheel = NoWheel, !.slot = 0]
    BY DEF Rest
  <2> QED  BY <2>1 DEF Remaining
<1>4. q \in TimerRecord /\ q.timeout = m /\ q.extra = 0 /\ q.interval = d.interval
  <2>1. 0 \in 0..(Slots - 1)  BY ResolutionType
  <2> HIDE DEF q
  <2> QED  BY <1>1, <1>3, <2>1 DEF TimerRecord
<1> HIDE DEF q
<1>5. /\ a \in TimerRecord /\ a.active /\ a.interval = d.interval
      /\ m = 0 => a.wheel = NoWheel
  BY <1>2, <1>4, AdjustedFits DEF q
<1>6. ASSUME m > 0
      PROVE  /\ a.wheel \in Wheels /\ a.wheel \in 0..d.wheel
             /\ Turns(a, nx) * Resolution(a.wheel) + Remaining(a) = m
             /\ Remaining(a) <= Resolution(a.wheel + 1)
  <2>1. q.timeout > 0 /\ q.timeout + q.extra <= MaxTimeout  BY <1>1, <1>2, <1>4, <1>6
  <2>2. /\ w \in Wheels /\ a.wheel = w /\ a.timeout = m /\ a.extra = 0
        /\ a.slot = SlotFor(w, m, nx[w])
    BY <1>4, <2>1, Placed DEF q
  <2>3. w \in 0..d.wheel
    <3>1. w \in Nat  BY <2>2, WheelsAreNatural
    <3>2. SUFFICES ASSUME w > d.wheel PROVE FALSE  BY <1>1, <3>1
    <3>3. d.wheel \in 0..(w - 1)  BY <1>1, <3>1, <3>2
    <3>4. m > Resolution(d.wheel + 1)  BY <1>1, <1>2, <1>6, <3>3, WheelIsFound
    <3> QED  BY <1>1, <3>4
  <2>4. Turns(a, nx) * Resolution(a.wheel) + Remaining(a) = m + a.extra
    BY <1>1, <1>2, <1>6, <2>2, SlotSpans
  <2>5. Remaining(a) <= Resolution(a.wheel + 1)
    <3> DEFINE r == Resolution(w)
    <3>1. r \in Nat /\ r >= 1 /\ Resolution(w + 1) \in Nat /\ r <= Resolution(w + 1)
      BY <2>2, ResolutionStep
    <3>2. Remaining(a) = (m % r) + 0  BY <2>2 DEF Remaining
    <3> HIDE DEF r, w
    <3>3. m % r \in 0..(r - 1)  BY <1>1, <3>1, Remainder
    <3> QED  BY <2>2, <3>1, <3>2, <3>3
  <2>6. m + a.extra = m  BY <1>1, <2>2
  <2> QED  BY <2>2, <2>3, <2>4, <2>5, <2>6
<1> QED  BY <1>5, <1>6

\* What a tick does to each timer.
LEMMA EachTicked ==
    ASSUME WheelsInvariant, NEW ws \in SUBSET Wheels, TickWheels(ws)
    PROVE  /\ next' \in [Wheels -> 0..(Slots - 1)]
           /\ \A i \in ws : next'[i] = (next[i] + 1) % Slots
           /\ \A i \in Wheels \ ws : next'[i] = next[i]
           /\ \A t \in Expired(ws) : timer'[t] = Adjusted(Rest(timer[t]), next')
           /\ \A t \in Timers \ Expired(ws) : timer'[t] = timer[t]
<1>1. ASSUME NEW i \in Wheels
      PROVE  next[i] \in 0..(Slots - 1) /\ (next[i] + 1) % Slots \in 0..(Slots - 1)
  <2>1. next[i] \in 0..(Slots - 1) /\ Slots \in Nat /\ Slots >= 1
    BY ResolutionType DEF WheelsInvariant, Clocks
  <2>2. next[i] + 1 \in Nat  BY <2>1
  <2> QED  BY <2>1, <2>2, Remainder
<1>2. next' = [i \in Wheels |-> IF i \in ws THEN (next[i] + 1) % Slots ELSE next[i]]
  BY DEF TickWheels
<1>3. timer' = [t \in Timers |-> IF t \in Expired(ws) THEN Adjusted(Rest(timer[t]), next')
                                 ELSE timer[t]]
  BY DEF TickWheels, Rest
<1>4. next' \in [Wheels -> 0..(Slots - 1)]  BY <1>1, <1>2
<1>5. Expired(ws) \subseteq Timers  BY DEF Expired
<1> QED  BY <1>2, <1>3, <1>4, <1>5

LEMMA DueType ==
    ASSUME WheelsInvariant, NEW d \in TimerRecord, d.wheel \in Wheels,
           NEW nx \in [Wheels -> 0..(Slots - 1)]
    PROVE  /\ Turns(d, nx) \in Nat /\ Turns(d, nx) >= 1
           /\ Resolution(d.wheel) \in Nat /\ Resolution(d.wheel) >= 1
           /\ Turns(d, nx) * Resolution(d.wheel) \in Nat
           /\ Remaining(d) \in Nat
           /\ Phase(tickCounter, d.wheel) \in Nat
<1>1. Turns(d, nx) \in 1..Slots /\ Slots \in Nat /\ tickCounter \in Nat
  BY TurnsType, ClockNumbers
<1>2. Turns(d, nx) \in Nat /\ Turns(d, nx) >= 1  BY <1>1
<1>3. Resolution(d.wheel) \in Nat /\ Resolution(d.wheel) >= 1  BY ResolutionStep
<1>4. Remaining(d) \in Nat /\ Phase(tickCounter, d.wheel) \in Nat
  BY <1>1, RemainingType, PhaseType
<1> DEFINE a == Turns(d, nx)
           b == Resolution(d.wheel)
<1>5. a \in Nat /\ b \in Nat  BY <1>2, <1>3
<1> HIDE DEF a, b
<1>6. a * b \in Nat  BY <1>5
<1> QED  BY <1>2, <1>3, <1>4, <1>6 DEF a, b

LEMMA LowTickOnTime ==
    ASSUME DeadlinesInvariant, OnLowResolutionTick
    PROVE  Timely'
<1> DEFINE ws == WheelsAt(tickCounter')
           c == tickCounter'
           low == lowAge'
           high == highAge'
           nx == next'
<1>1. /\ WheelsInvariant /\ handler = "low" /\ UNCHANGED <<left, lag>>
      /\ lowAge' = lowAge - Slots /\ tickCounter' = (tickCounter + 1) % Resolution(WheelCount - 1)
      /\ TickWheels(ws) /\ SetHighResolutionTicker(timer', highEnabled, highAge)
  BY DEF OnLowResolutionTick, Tick, DeadlinesInvariant
<1>2. ws \in SUBSET Wheels /\ 0 \notin ws  BY DEF WheelsAt
<1>3. /\ nx \in [Wheels -> 0..(Slots - 1)]
      /\ \A i \in ws : nx[i] = (next[i] + 1) % Slots
      /\ \A i \in Wheels \ ws : nx[i] = next[i]
      /\ \A t \in Expired(ws) : timer'[t] = Adjusted(Rest(timer[t]), nx)
      /\ \A t \in Timers \ Expired(ws) : timer'[t] = timer[t]
  <2> HIDE DEF ws
  <2> QED  BY <1>1, <1>2, EachTicked
<1>4. /\ Slots \in Nat /\ Slots >= 2 /\ MaxLag \in Nat /\ lag \in Nat /\ lag <= MaxLag
      /\ lowAge \in Nat /\ lowAge <= Slots + lag /\ lowAge >= Slots
      /\ highAge \in Nat /\ highAge <= 1 + lag /\ tickCounter \in Nat
      /\ tickCounter \in 0..(Resolution(WheelCount - 1) - 1)
      /\ next \in [Wheels -> 0..(Slots - 1)] /\ timer \in [Timers -> TimerRecord]
      /\ highEnabled \in BOOLEAN /\ highEnabled = (InWheel(timer, 0) # {})
  <2>1. expirations \in Nat /\ expirations > 0 /\ Slots * expirations <= lowAge
    BY <1>1 DEF WheelsInvariant, Clocks
  <2> DEFINE x == Slots * expirations
  <2>2. x >= Slots /\ x \in Nat /\ x <= lowAge  BY <2>1, ResolutionType
  <2> HIDE DEF x
  <2>3. lowAge >= Slots  BY <1>1, <2>2, ClockNumbers
  <2> QED  BY <1>1, <2>3, ClockNumbers DEF WheelsInvariant, Clocks
<1>5. ASSUME NEW i \in Wheels \ {0}
      PROVE  Phase(c, i) = IF Phase(tickCounter, i) + Slots = Resolution(i) THEN 0
                           ELSE Phase(tickCounter, i) + Slots
  BY <1>1, <1>4, PhaseAdvances
<1>6. c \in Nat
  <2>1. WheelCount - 1 \in 0..WheelCount  BY ResolutionType
  <2> DEFINE r == Resolution(WheelCount - 1)
  <2>2. r \in Nat /\ r >= 1 /\ tickCounter + 1 \in Nat  BY <1>4, <2>1, ResolutionType
  <2> HIDE DEF r
  <2>3. (tickCounter + 1) % r \in 0..(r - 1)  BY <2>2, Remainder
  <2>4. (tickCounter + 1) % r \in Nat  BY <2>2, <2>3
  <2> QED  BY <1>1, <2>4 DEF r
<1>7. \A i \in Wheels \ {0} : i \in ws <=> Phase(c, i) = 0  BY DEF WheelsAt, Phase
<1>8. low \in Nat /\ low <= lag /\ low = lowAge - Slots  BY <1>1, <1>4
<1>9. /\ high \in {0, highAge} /\ high \in Nat /\ high <= MaxLag + 1
      /\ ~highEnabled' => high = 0
      /\ \A t \in Timers : timer[t].wheel = 0 => high = highAge
  <2>1. /\ high = IF highEnabled' /\ highEnabled THEN highAge ELSE 0
        /\ highEnabled' = (InWheel(timer', 0) # {})
    BY <1>1 DEF SetHighResolutionTicker
  <2>2. ASSUME NEW t \in Timers, timer[t].wheel = 0 PROVE high = highAge
    <3>1. t \in InWheel(timer, 0)  BY <2>2 DEF InWheel
    <3>2. t \notin Expired(ws)  BY <1>2, <2>2 DEF Expired
    <3>3. t \in InWheel(timer', 0)  BY <1>3, <2>2, <3>2 DEF InWheel
    <3> QED  BY <1>4, <2>1, <3>1, <3>3
  <2> QED  BY <1>4, <2>1, <2>2
<1>10. ASSUME NEW t \in Timers
       PROVE  /\ timer'[t].interval > 0 => timer'[t].interval <= Longest
              /\ OnTime(t, timer'[t], left[t], nx, c, low, high, lag)
  <2> DEFINE d == timer[t]
             l == left[t]
             w == d.wheel
             was == DueIn(d, next, tickCounter, lowAge, highAge)
             m == Remaining(d)
             n == Turns(d, next) * Resolution(w)
             f == Phase(tickCounter, w)
  <2>1. /\ d.interval > 0 => d.interval <= Longest
        /\ OnTime(t, d, l, next, tickCounter, lowAge, highAge, lag)
        /\ d \in TimerRecord
    BY <1>4 DEF DeadlinesInvariant, Timely
  <2>2. w \in Wheels => /\ n \in Nat /\ m \in Nat /\ f \in Nat
                        /\ Turns(d, next) \in Nat /\ Turns(d, next) >= 1
                        /\ Resolution(w) \in Nat /\ Resolution(w) >= 1
    BY <1>1, <1>4, <2>1, DueType
  <2>3. Slack(t) \in Nat  BY <1>4 DEF Slack
  <2>4. CASE t \notin Expired(ws)
    <3>1. timer'[t] = d  BY <1>3, <2>4
    <3>2. CASE w = NoWheel
      <4>1. w \notin Wheels  BY <3>2, WheelsAreNatural
      <4> QED  BY <2>1, <3>1, <3>2, <4>1, WheelsAreNatural DEF OnTime
    <3>3. CASE w = 0
      <4>1. 0 \in Wheels \ ws  BY <1>2, WheelsAreNatural
      <4>2. Turns(d, nx) = Turns(d, next)
        BY <1>3, <3>3, <4>1 DEF Turns
      <4>3. Phase(c, 0) = Phase(tickCounter, 0)  BY <1>4, <1>6, PhaseOfFirst
      <4>4. DueIn(d, nx, c, low, high) = was  BY <1>9, <3>3, <4>2, <4>3 DEF DueIn
      <4> QED  BY <2>1, <3>1, <3>3, <4>4, WheelsAreNatural DEF OnTime
    <3>4. CASE w \in Wheels \ {0}
      <4> DEFINE n2 == Turns(d, nx) * Resolution(w)
                 f2 == Phase(c, w)
      <4>1. /\ was = n - f - lowAge + m
            /\ DueIn(d, nx, c, low, high) = n2 - f2 - low + m
        BY <3>4 DEF DueIn
      <4>2. n2 - f2 = n - f - Slots
        <5>1. CASE w \in ws
          <6>1. f2 = 0 /\ f + Slots = Resolution(w)  BY <1>4, <1>5, <1>7, <2>2, <3>4, <5>1
          <6>2. d.slot # next[w]  BY <2>4, <5>1 DEF Expired
          <6>3. Turns(d, nx) = Turns(d, next) - 1
            BY <1>3, <1>4, <2>1, <3>4, <5>1, <6>2, TurnsAdvance
          <6> DEFINE a == Turns(d, next)
                     b == Resolution(w)
          <6>4. (a - 1) * b = a * b - b  BY <2>2, <3>4
          <6>5. n2 = n - b  BY <6>3, <6>4
          <6> HIDE DEF n, n2, f, f2
          <6> QED  BY <1>4, <2>2, <3>4, <6>1, <6>5
        <5>2. CASE w \notin ws
          <6>1. f2 = f + Slots  BY <1>5, <1>7, <3>4, <5>2
          <6>2. Turns(d, nx) = Turns(d, next)  BY <1>3, <3>4, <5>2 DEF Turns
          <6>3. n2 = n  BY <6>2
          <6> HIDE DEF n, n2, f, f2
          <6> QED  BY <1>4, <2>2, <3>4, <6>1, <6>3
        <5> QED  BY <5>1, <5>2
      <4>3. n2 \in Nat /\ f2 \in Nat
        <5>1. Turns(d, nx) \in 1..Slots  BY <1>3, <2>1, <3>4, TurnsType
        <5> DEFINE a == Turns(d, nx)
                   b == Resolution(w)
        <5>2. a \in Nat /\ b \in Nat  BY <1>4, <2>2, <3>4, <5>1
        <5> HIDE DEF a, b
        <5>3. a * b \in Nat  BY <5>2
        <5>4. f2 \in Nat  BY <1>6, <3>4, PhaseType
        <5> QED  BY <5>3, <5>4 DEF a, b
      <4> HIDE DEF n, n2, f, f2, m
      <4>4. DueIn(d, nx, c, low, high) = was
        BY <1>4, <1>8, <2>2, <3>4, <4>1, <4>2, <4>3
      <4> QED  BY <2>1, <3>1, <3>4, <4>4, WheelsAreNatural DEF OnTime
    <3> QED  BY <2>1, <3>1, <3>2, <3>3, <3>4 DEF TimerRecord
  <2>5. CASE t \in Expired(ws)
    <3> DEFINE a == timer'[t]
    <3>1. w \in Wheels \ {0} /\ w \in ws /\ d.slot = next[w]
      BY <1>2, <2>5 DEF Expired
    <3>2. a = Adjusted(Rest(d), nx)  BY <1>3, <2>5
    <3>3. m <= Resolution(w + 1) /\ l \in Int /\ was <= l /\ l <= was + Slack(t)
      BY <2>1, <3>1 DEF OnTime
    <3>4. /\ a \in TimerRecord /\ a.interval = d.interval /\ a.active
          /\ m = 0 => a.wheel = NoWheel
          /\ m > 0 => /\ a.wheel \in Wheels /\ a.wheel \in 0..w
                      /\ Turns(a, nx) * Resolution(a.wheel) + Remaining(a) = m
                      /\ Remaining(a) <= Resolution(a.wheel + 1)
      <4> HIDE DEF d, a, nx
      <4> QED  BY <1>3, <2>1, <3>1, <3>2, <3>3, MovesOn
    <3>5. was = m - low
      <4>1. Turns(d, next) = 1  BY <1>3, <1>4, <2>1, <3>1, TurnsAdvance
      <4>2. n = Resolution(w)
        <5> DEFINE b == Resolution(w)
        <5>1. 1 * b = b  BY <2>2, <3>1
        <5> QED  BY <4>1, <5>1
      <4>3. f + Slots = Resolution(w)  BY <1>4, <1>5, <1>7, <2>2, <3>1
      <4>4. was = n - f - lowAge + m  BY <3>1 DEF DueIn
      <4> HIDE DEF n, f, m, was
      <4> QED  BY <1>4, <1>8, <2>2, <3>1, <4>2, <4>3, <4>4
    <3> HIDE DEF a, m, was
    <3>6. m \in Nat  BY <2>2, <3>1
    <3>7. CASE m = 0
      <4>1. a.wheel = NoWheel  BY <3>4, <3>7
      <4>2. -(lag + MaxLag + 1) <= l /\ l <= Slack(t) + MaxLag + 1
        BY <1>4, <1>8, <2>3, <3>3, <3>5, <3>7
      <4>3. OnTime(t, a, l, nx, c, low, high, lag)
        BY <3>3, <4>1, <4>2, WheelsAreNatural DEF OnTime
      <4> QED  BY <2>1, <3>4, <4>3 DEF a
    <3>8. CASE m # 0
      <4>1. /\ a.wheel \in Wheels /\ a.wheel \in 0..w
            /\ Turns(a, nx) * Resolution(a.wheel) + Remaining(a) = m
            /\ Remaining(a) <= Resolution(a.wheel + 1)
        BY <3>4, <3>6, <3>8
      <4> DEFINE n2 == Turns(a, nx) * Resolution(a.wheel)
                 due == DueIn(a, nx, c, low, high)
      <4>2. n2 \in Nat /\ Remaining(a) \in Nat  BY <1>1, <1>3, <3>4, <4>1, DueType
      <4>3. Phase(c, a.wheel) = 0
        <5>1. w \in Wheels /\ Phase(c, w) = 0  BY <1>7, <3>1
        <5> QED  BY <1>6, <4>1, <5>1, FinerTurnsToo
      <4>4. due = n2 - 0 - (IF a.wheel = 0 THEN high ELSE low) + Remaining(a)
        BY <4>3 DEF DueIn
      <4>5. n2 + Remaining(a) = m  BY <4>1
      <4> HIDE DEF n2, due
      <4>6. due = m - (IF a.wheel = 0 THEN high ELSE low)
        BY <1>8, <1>9, <3>6, <4>2, <4>4, <4>5
      <4>7. a.wheel # 0 => due <= l /\ l <= due + Slack(t)  BY <3>3, <3>5, <4>6
      <4>8. a.wheel = 0 => due - (MaxLag + 1) <= l /\ l <= due + Slack(t) + MaxLag + 1
        BY <1>4, <1>8, <1>9, <2>3, <3>3, <3>5, <3>6, <4>6
      <4>9. a.wheel # NoWheel  BY <4>1, WheelsAreNatural
      <4>10. OnTime(t, a, l, nx, c, low, high, lag)
        BY <3>3, <4>1, <4>7, <4>8, <4>9 DEF OnTime, due
      <4> QED  BY <2>1, <3>4, <4>10 DEF a
    <3> QED  BY <3>7, <3>8
  <2> QED  BY <2>4, <2>5
<1> QED  BY <1>1, <1>9, <1>10 DEF Timely

LEMMA HighTickOnTime ==
    ASSUME DeadlinesInvariant, OnHighResolutionTick
    PROVE  Timely'
<1> DEFINE high == highAge'
           nx == next'
<1>1. /\ WheelsInvariant /\ handler = "high"
      /\ UNCHANGED <<left, lag, tickCounter, lowAge>>
      /\ TickWheels({0}) /\ SetHighResolutionTicker(timer', highEnabled, highAge - 1)
  BY DEF OnHighResolutionTick, Tick, DeadlinesInvariant
<1>2. 0 \in Wheels  BY WheelsAreNatural
<1>3. /\ nx \in [Wheels -> 0..(Slots - 1)]
      /\ nx[0] = (next[0] + 1) % Slots
      /\ \A i \in Wheels \ {0} : nx[i] = next[i]
      /\ \A t \in Expired({0}) : timer'[t] = Adjusted(Rest(timer[t]), nx)
      /\ \A t \in Timers \ Expired({0}) : timer'[t] = timer[t]
  BY <1>1, <1>2, EachTicked
<1>4. /\ Slots \in Nat /\ Slots >= 2 /\ MaxLag \in Nat /\ lag \in Nat /\ lag <= MaxLag
      /\ lowAge \in Nat /\ highAge \in Nat /\ highAge <= 1 + lag /\ tickCounter \in Nat
      /\ next \in [Wheels -> 0..(Slots - 1)] /\ timer \in [Timers -> TimerRecord]
      /\ highEnabled \in BOOLEAN /\ highEnabled = (InWheel(timer, 0) # {})
      /\ highEnabled => highAge >= 1
  <2>1. expirations \in Nat /\ expirations > 0 /\ (highEnabled => expirations <= highAge)
    BY <1>1 DEF WheelsInvariant, Clocks
  <2> QED  BY <1>1, <2>1, ClockNumbers DEF WheelsInvariant, Clocks
<1>5. /\ highEnabled' = (InWheel(timer', 0) # {})
      /\ high = IF highEnabled' /\ highEnabled THEN highAge - 1 ELSE 0
  BY <1>1 DEF SetHighResolutionTicker
<1>6. ASSUME NEW t \in Timers
      PROVE  /\ timer'[t].interval > 0 => timer'[t].interval <= Longest
             /\ OnTime(t, timer'[t], left[t], nx, tickCounter, lowAge, high, lag)
  <2> DEFINE d == timer[t]
             l == left[t]
             was == DueIn(d, next, tickCounter, lowAge, highAge)
             m == Remaining(d)
             n == Turns(d, next) * Resolution(0)
  <2>1. /\ d.interval > 0 => d.interval <= Longest
        /\ OnTime(t, d, l, next, tickCounter, lowAge, highAge, lag)
        /\ d \in TimerRecord
    BY <1>4 DEF DeadlinesInvariant, Timely
  <2>2. Slack(t) \in Nat  BY <1>4 DEF Slack
  <2>3. CASE d.wheel # 0
    <3>1. timer'[t] = d
      <4>1. t \notin Expired({0})  BY <2>3 DEF Expired
      <4> QED  BY <1>3, <4>1
    <3>2. d.wheel \in Wheels => DueIn(d, nx, tickCounter, lowAge, high) = was
      <4> SUFFICES ASSUME d.wheel \in Wheels
                   PROVE  DueIn(d, nx, tickCounter, lowAge, high) = was
        OBVIOUS
      <4>1. Turns(d, nx) = Turns(d, next)  BY <1>3, <2>3 DEF Turns
      <4> QED  BY <2>3, <4>1 DEF DueIn
    <3> QED  BY <2>1, <2>3, <3>1, <3>2 DEF OnTime
  <2>4. CASE d.wheel = 0
    <3>1. /\ n \in Nat /\ m \in Nat /\ Turns(d, next) \in Nat /\ Turns(d, next) >= 1
          /\ Resolution(0) = 1 /\ Resolution(0) \in Nat
      BY <1>1, <1>2, <1>4, <2>1, <2>4, DueType, ResolutionAssumption
    <3>2. n = Turns(d, next)
      <4> DEFINE a == Turns(d, next)
      <4>1. a * 1 = a  BY <3>1
      <4> QED  BY <3>1, <4>1
    <3>3. was = n - highAge + m
      <4>1. was = n - Phase(tickCounter, 0) - highAge + m  BY <2>4 DEF DueIn
      <4>2. Phase(tickCounter, 0) = 0  BY <1>4, PhaseOfFirst
      <4> HIDE DEF was, n, m
      <4> QED  BY <1>4, <3>1, <4>1, <4>2
    <3>4. highEnabled = TRUE /\ highAge >= 1
      <4>1. t \in InWheel(timer, 0)  BY <2>4 DEF InWheel
      <4> QED  BY <1>4, <4>1
    <3>5. /\ m <= Resolution(0 + 1) /\ l \in Int /\ was - (MaxLag + 1) <= l
          /\ l <= was + Slack(t) + MaxLag + 1
      BY <1>2, <2>1, <2>4 DEF OnTime
    <3>6. CASE d.slot # next[0]
      <4>1. t \notin Expired({0})  BY <2>4, <3>6 DEF Expired
      <4>2. timer'[t] = d  BY <1>3, <4>1
      <4>3. high = highAge - 1
        <5>1. t \in InWheel(timer', 0)  BY <2>4, <4>2 DEF InWheel
        <5> QED  BY <1>5, <3>4, <5>1
      <4>4. Turns(d, nx) = Turns(d, next) - 1
        BY <1>2, <1>3, <1>4, <2>1, <2>4, <3>6, TurnsAdvance
      <4>5. DueIn(d, nx, tickCounter, lowAge, high) = was
        <5> DEFINE b == Turns(d, nx)
        <5>1. b \in Nat /\ b = n - 1  BY <3>1, <3>2, <4>4
        <5>2. DueIn(d, nx, tickCounter, lowAge, high)
                = b * Resolution(0) - Phase(tickCounter, 0) - high + m
          BY <2>4 DEF DueIn
        <5>3. Phase(tickCounter, 0) = 0  BY <1>4, PhaseOfFirst
        <5> HIDE DEF b, was, n, m
        <5>4. b * Resolution(0) = b  BY <3>1, <5>1
        <5> QED  BY <1>4, <3>1, <3>3, <4>3, <5>1, <5>2, <5>3, <5>4
      <4> QED  BY <2>1, <2>4, <4>2, <4>5, WheelsAreNatural DEF OnTime
    <3>7. CASE d.slot = next[0]
      <4> DEFINE a == timer'[t]
      <4>1. a = Adjusted(Rest(d), nx)
        <5>1. t \in Expired({0})  BY <2>4, <3>7 DEF Expired
        <5> QED  BY <1>3, <5>1
      <4>2. /\ a \in TimerRecord /\ a.interval = d.interval /\ a.active
            /\ m = 0 => a.wheel = NoWheel
            /\ m > 0 => /\ a.wheel \in Wheels /\ a.wheel \in 0..0
                        /\ Turns(a, nx) * Resolution(a.wheel) + Remaining(a) = m
                        /\ Remaining(a) <= Resolution(a.wheel + 1)
        <5> HIDE DEF d, a, nx
        <5> QED  BY <1>2, <1>3, <2>1, <2>4, <3>5, <4>1, MovesOn
      <4>3. was = 1 - highAge + m
        <5>1. Turns(d, next) = 1  BY <1>2, <1>3, <1>4, <2>1, <2>4, <3>7, TurnsAdvance
        <5> QED  BY <3>2, <3>3, <5>1
      <4> HIDE DEF a, m, was
      <4>4. CASE m = 0
        <5>1. a.wheel = NoWheel  BY <4>2, <4>4
        <5>2. -(lag + MaxLag + 1) <= l /\ l <= Slack(t) + MaxLag + 1
          BY <1>4, <2>2, <3>4, <3>5, <4>3, <4>4
        <5>3. OnTime(t, a, l, nx, tickCounter, lowAge, high, lag)
          BY <3>5, <5>1, <5>2, WheelsAreNatural DEF OnTime
        <5> QED  BY <2>1, <4>2, <5>3 DEF a
      <4>5. CASE m # 0
        <5>1. /\ a.wheel = 0
              /\ Turns(a, nx) * Resolution(a.wheel) + Remaining(a) = m
              /\ Remaining(a) <= Resolution(a.wheel + 1)
          BY <3>1, <4>2, <4>5
        <5>2. high = highAge - 1
          <6>1. t \in InWheel(timer', 0)  BY <5>1 DEF InWheel, a
          <6> QED  BY <1>5, <3>4, <6>1
        <5> DEFINE n2 == Turns(a, nx) * Resolution(a.wheel)
                   due == DueIn(a, nx, tickCounter, lowAge, high)
        <5>3. n2 \in Nat /\ Remaining(a) \in Nat  BY <1>1, <1>2, <1>3, <4>2, <5>1, DueType
        <5>4. due = n2 - 0 - high + Remaining(a)
          <6>1. Phase(tickCounter, 0) = 0  BY <1>4, PhaseOfFirst
          <6> QED  BY <5>1, <6>1 DEF DueIn
        <5>5. n2 + Remaining(a) = m  BY <5>1
        <5> HIDE DEF n2, due
        <5>6. due = was
          <6> DEFINE r == Remaining(a)
          <6>1. /\ n2 \in Nat /\ r \in Nat /\ m \in Nat /\ highAge \in Nat
                /\ due = n2 - 0 - high + r /\ n2 + r = m
            BY <1>4, <3>1, <5>3, <5>4, <5>5
          <6> HIDE DEF r
          <6> QED  BY <4>3, <5>2, <6>1
        <5>7. OnTime(t, a, l, nx, tickCounter, lowAge, high, lag)
          BY <3>5, <5>1, <5>6, WheelsAreNatural DEF OnTime, due
        <5> QED  BY <2>1, <4>2, <5>7 DEF a
      <4> QED  BY <4>4, <4>5
    <3> QED  BY <3>6, <3>7
  <2> QED  BY <2>3, <2>4
<1>7. ~highEnabled' => high = 0  BY <1>5
<1> QED  BY <1>1, <1>6, <1>7 DEF Timely

\* A millisecond brings every timer nearer; the handlers that lag do not make it late
\* by more than they lag.
LEMMA ElapseOnTime ==
    ASSUME DeadlinesInvariant, Elapse
    PROVE  Timely'
<1>1. /\ UNCHANGED <<timer, timersToNotify, next, tickCounter, highEnabled>>
      /\ lowAge' = lowAge + 1 /\ highAge' = IF highEnabled THEN highAge + 1 ELSE 0
      /\ lag' = IF LoopIdle THEN 0 ELSE lag + 1
      /\ left' = [t \in Timers |-> IF left[t] = Off THEN Off ELSE left[t] - 1]
  BY DEF Elapse
<1>2. /\ WheelsInvariant /\ MaxLag \in Nat /\ lag \in Nat /\ lowAge \in Nat /\ highAge \in Nat
      /\ next \in [Wheels -> 0..(Slots - 1)] /\ timer \in [Timers -> TimerRecord]
      /\ highEnabled = (InWheel(timer, 0) # {}) /\ Slots \in Nat
      /\ Listed
  BY ClockNumbers DEF DeadlinesInvariant, WheelsInvariant, Clocks
<1>3. ASSUME NEW t \in Timers
      PROVE  /\ timer[t].interval > 0 => timer[t].interval <= Longest
             /\ OnTime(t, timer[t], left'[t], next, tickCounter, lowAge', highAge', lag')
  <2> DEFINE d == timer[t]
             l == left[t]
             was == DueIn(d, next, tickCounter, lowAge, highAge)
  <2>1. /\ d.interval > 0 => d.interval <= Longest
        /\ OnTime(t, d, l, next, tickCounter, lowAge, highAge, lag)
        /\ d \in TimerRecord
    BY <1>2 DEF DeadlinesInvariant, Timely
  <2>2. Slack(t) \in Nat  BY <1>2 DEF Slack
  <2>3. l \in Int => left'[t] = l - 1 /\ left'[t] \in Int  BY <1>1, OffAssumption
  <2>4. CASE d.wheel \in Wheels
    <3>1. l \in Int  BY <2>1, <2>4 DEF OnTime
    <3> DEFINE due == DueIn(d, next, tickCounter, lowAge', highAge')
               n == Turns(d, next) * Resolution(d.wheel)
               f == Phase(tickCounter, d.wheel)
               m == Remaining(d)
    <3>2. n \in Nat /\ m \in Nat /\ f \in Nat  BY <1>2, <2>1, <2>4, DueType
    <3>3. d.wheel = 0 => highAge' = highAge + 1
      <4>1. d.wheel = 0 => t \in InWheel(timer, 0)  BY DEF InWheel
      <4> QED  BY <1>1, <1>2, <4>1
    <3>4. /\ was = n - f - (IF d.wheel = 0 THEN highAge ELSE lowAge) + m
          /\ due = n - f - (IF d.wheel = 0 THEN highAge' ELSE lowAge') + m
      BY DEF DueIn
    <3>5. was \in Int /\ due = was - 1
      <4> HIDE DEF n, f, m, was, due
      <4>1. CASE d.wheel = 0  BY <1>2, <3>2, <3>3, <3>4, <4>1
      <4>2. CASE d.wheel # 0  BY <1>1, <1>2, <3>2, <3>4, <4>2
      <4> QED  BY <4>1, <4>2
    <3>6. d.wheel # NoWheel  BY <2>4, WheelsAreNatural
    <3> DEFINE k == left'[t]
    <3>7. k = l - 1 /\ k \in Int  BY <2>3, <3>1
    <3>8. /\ Remaining(d) <= Resolution(d.wheel + 1)
          /\ d.wheel \in Wheels \ {0} => was <= l /\ l <= was + Slack(t)
          /\ d.wheel = 0 => was - (MaxLag + 1) <= l /\ l <= was + Slack(t) + MaxLag + 1
      BY <2>1, <2>4 DEF OnTime
    <3> HIDE DEF was, due, k
    <3>9. /\ d.wheel \in Wheels \ {0} => due <= k /\ k <= due + Slack(t)
          /\ d.wheel = 0 => due - (MaxLag + 1) <= k /\ k <= due + Slack(t) + MaxLag + 1
      BY <1>2, <2>2, <3>1, <3>5, <3>7, <3>8
    <3> QED  BY <2>1, <3>6, <3>7, <3>8, <3>9 DEF OnTime, due, k
  <2>5. CASE d.wheel \notin Wheels
    <3>1. d.wheel = NoWheel /\ d.wheel # 0  BY <2>1, <2>5, WheelsAreNatural DEF TimerRecord
    <3>2. d.active => t \in timersToNotify  BY <1>2, <3>1 DEF Listed
    <3>3. d.active => lag' = lag + 1  BY <1>1, <3>2 DEF LoopIdle
    <3>4. d.active => /\ l \in Int /\ -(lag + MaxLag + 1) <= l
                      /\ l <= Slack(t) + MaxLag + 1
      BY <2>1, <3>1 DEF OnTime
    <3> DEFINE k == left'[t]
    <3>5. d.active => k = l - 1 /\ k \in Int  BY <2>3, <3>4
    <3> HIDE DEF k
    <3>6. d.active => /\ k \in Int /\ -(lag' + MaxLag + 1) <= k
                      /\ k <= Slack(t) + MaxLag + 1
      BY <1>2, <2>2, <3>3, <3>4, <3>5
    <3> QED  BY <2>1, <2>5, <3>1, <3>6 DEF OnTime, k
  <2> QED  BY <2>4, <2>5
<1>4. ~highEnabled' => highAge' = 0  BY <1>1
<1> QED  BY <1>1, <1>3, <1>4 DEF Timely

-----------------------------------------------------------------------------
(* The wheels implement deadlines. *)

LEMMA InitDeadlinesInvariant == Init => DeadlinesInvariant
<1> SUFFICES ASSUME Init PROVE DeadlinesInvariant  OBVIOUS
<1>1. WheelsInvariant  BY InitWheelsInvariant
<1>2. ASSUME NEW t \in Timers
      PROVE  /\ timer[t].interval > 0 => timer[t].interval <= Longest
             /\ OnTime(t, timer[t], left[t], next, tickCounter, lowAge, highAge, lag)
  <2>1. timer[t] = Inactive  BY DEF Init
  <2>2. Inactive.interval = 0 /\ Inactive.wheel = NoWheel /\ Inactive.active = FALSE
    BY DEF Inactive
  <2> QED  BY <2>1, <2>2, WheelsAreNatural DEF OnTime
<1> QED  BY <1>1, <1>2 DEF DeadlinesInvariant, Timely, Init

\* A timer that is stopped disables the high resolution ticker only if it was the last.
LEMMA RemovedOnTime ==
    ASSUME DeadlinesInvariant, NEW t \in Timers,
           timer' = [timer EXCEPT ![t] = Inactive],
           left' = [left EXCEPT ![t] = Off],
           UNCHANGED <<next, tickCounter, lowAge, lag>>,
           ~highEnabled' => highAge' = 0,
           \A u \in Timers \ {t} : timer[u].wheel = 0 => highAge' = highAge
    PROVE  Timely'
<1>1. /\ timer \in [Timers -> TimerRecord] /\ left \in [Timers -> Int \cup {Off}]
  BY DEF DeadlinesInvariant, WheelsInvariant, TimersTyped
<1>2. ASSUME NEW u \in Timers
      PROVE  /\ timer'[u].interval > 0 => timer'[u].interval <= Longest
             /\ OnTime(u, timer'[u], left'[u], next, tickCounter, lowAge, highAge', lag)
  <2>1. CASE u = t
    <3>1. timer'[u] = Inactive  BY <1>1, <2>1
    <3>2. Inactive.interval = 0 /\ Inactive.wheel = NoWheel /\ Inactive.active = FALSE
      BY DEF Inactive
    <3> QED  BY <3>1, <3>2, WheelsAreNatural DEF OnTime
  <2>2. CASE u # t
    <3>1. /\ timer'[u] = timer[u] /\ left'[u] = left[u]
          /\ timer[u].wheel = 0 => highAge' = highAge
      BY <1>1, <2>2
    <3>2. /\ timer[u].interval > 0 => timer[u].interval <= Longest
          /\ OnTime(u, timer[u], left[u], next, tickCounter, lowAge, highAge, lag)
      BY DEF DeadlinesInvariant, Timely
    <3>3. OnTime(u, timer[u], left[u], next, tickCounter, lowAge, highAge', lag)
      BY <3>1, <3>2, OthersOnTime
    <3> QED  BY <3>1, <3>2, <3>3
  <2> QED  BY <2>1, <2>2
<1>3. next' = next /\ tickCounter' = tickCounter /\ lowAge' = lowAge /\ lag' = lag
  OBVIOUS
<1> QED  BY <1>2, <1>3 DEF Timely

LEMMA StartOnTime ==
    ASSUME \A t \in Timers : Intervals[t] \subseteq 0..Longest,
           DeadlinesInvariant, NEW t \in Timers, Start(t)
    PROVE  Timely'
<1>1. PICK i \in Intervals[t] : /\ AddTimer(t, [timer[t] EXCEPT !.interval = i])
                                /\ left' = [left EXCEPT ![t] = i]
  BY DEF Start
<1> DEFINE d == [timer[t] EXCEPT !.interval = i]
<1>2. i \in Nat /\ i <= Longest /\ i <= MaxTimeout
  <2>1. i \in 0..Longest /\ Longest \in Int /\ Longest <= MaxTimeout - 2 * Slots
    BY LongestType
  <2>2. MaxTimeout \in Nat /\ Slots \in Nat  BY SpanOfLast, ResolutionType
  <2> QED  BY <2>1, <2>2
<1>3. /\ d \in TimerRecord /\ d.interval = i
      /\ d.active = timer[t].active /\ d.wheel = timer[t].wheel
  <2>1. timer[t] \in TimerRecord  BY RecordsTyped DEF DeadlinesInvariant, WheelsInvariant
  <2> QED  BY <1>2, <2>1 DEF TimerRecord
<1> HIDE DEF d
<1>4. AddTimer(t, d) /\ left' = [left EXCEPT ![t] = d.interval]  BY <1>1, <1>3 DEF d
<1>5. UNCHANGED <<next, tickCounter, lowAge, lag>>  BY DEF Start
<1> QED  BY <1>2, <1>3, <1>4, <1>5, AddedOnTime

LEMMA StopOnTime ==
    ASSUME DeadlinesInvariant, NEW t \in Timers, Stop(t)
    PROVE  Timely'
<1>1. /\ timer' = [timer EXCEPT ![t] = Inactive] /\ left' = [left EXCEPT ![t] = Off]
      /\ UNCHANGED <<next, tickCounter, lowAge, lag>>
  BY DEF Stop
<1>2. /\ timer \in [Timers -> TimerRecord] /\ highEnabled = (InWheel(timer, 0) # {})
      /\ ~highEnabled => highAge = 0
  BY DEF DeadlinesInvariant, WheelsInvariant, TimersTyped, Clocks, Timely
<1>3. /\ ~highEnabled' => highAge' = 0
      /\ \A u \in Timers \ {t} : timer[u].wheel = 0 => highAge' = highAge
  <2>1. CASE timer[t].wheel # NoWheel
    <3>1. /\ highEnabled' = (InWheel(timer', 0) # {})
          /\ highAge' = IF highEnabled' /\ highEnabled THEN highAge ELSE 0
      BY <2>1 DEF Stop, SetHighResolutionTicker
    <3>2. ASSUME NEW u \in Timers \ {t}, timer[u].wheel = 0 PROVE highAge' = highAge
      <4>1. u \in InWheel(timer, 0)  BY <3>2 DEF InWheel
      <4>2. u \in InWheel(timer', 0)  BY <1>1, <1>2, <3>2 DEF InWheel
      <4> QED  BY <1>2, <3>1, <4>1, <4>2
    <3> QED  BY <3>1, <3>2
  <2>2. CASE timer[t].wheel = NoWheel  BY <1>2, <2>2 DEF Stop
  <2> QED  BY <2>1, <2>2
<1> QED  BY <1>1, <1>3, RemovedOnTime

LEMMA ProcessTimeoutOnTime ==
    ASSUME DeadlinesInvariant, NEW t \in Timers, ProcessTimeout(t)
    PROVE  Timely'
<1> DEFINE d == Unlisted(timer[t])
<1>1. t \in timersToNotify /\ UNCHANGED <<next, tickCounter, lowAge, lag>>
  BY DEF ProcessTimeout
<1>2. ~highEnabled => highAge = 0  BY DEF DeadlinesInvariant, Timely
<1>3. CASE /\ timer' = [timer EXCEPT ![t] = Inactive]
           /\ left' = [left EXCEPT ![t] = Off]
           /\ UNCHANGED <<highEnabled, highAge>>
  BY <1>1, <1>2, <1>3, RemovedOnTime
<1>4. CASE /\ d.interval > 0 /\ AddTimer(t, d)
           /\ left' = [left EXCEPT ![t] = d.interval]
  <2>1. d \in TimerRecord /\ d.interval = timer[t].interval /\ d.active = FALSE
    <3>1. timer[t] \in TimerRecord /\ 0 \in 0..(Slots - 1)
      BY RecordsTyped, ResolutionType DEF DeadlinesInvariant, WheelsInvariant
    <3> QED  BY <3>1 DEF Unlisted, TimerRecord
  <2>2. d.interval <= MaxTimeout
    BY <2>1 DEF DeadlinesInvariant, WheelsInvariant, RestFits
  <2>3. d.interval > 0 => d.interval <= Longest  BY <2>1 DEF DeadlinesInvariant, Timely
  <2> HIDE DEF d
  <2> QED  BY <1>1, <1>4, <2>1, <2>2, <2>3, AddedOnTime
<1> QED  BY <1>3, <1>4 DEF ProcessTimeout

LEMMA DeadlinesStep ==
    ASSUME \A t \in Timers : Intervals[t] \subseteq 0..Longest
    PROVE  DeadlinesInvariant /\ [Next]_vars => DeadlinesInvariant'
<1> SUFFICES ASSUME DeadlinesInvariant, [Next]_vars PROVE DeadlinesInvariant'  OBVIOUS
<1>0. \A t \in Timers : Intervals[t] \subseteq 0..MaxTimeout
  <2>1. Longest \in Int /\ Longest <= MaxTimeout - 2 * Slots /\ MaxTimeout \in Nat /\ Slots \in Nat
    BY LongestType, SpanOfLast, ResolutionType
  <2>2. \A i \in 0..Longest : i \in 0..MaxTimeout  BY <2>1
  <2> QED  BY <2>2
<1>1. WheelsInvariant'  BY <1>0, WheelsStep DEF DeadlinesInvariant
<1>2. Timely'
  <2>1. ASSUME NEW t \in Timers, Start(t) PROVE Timely'  BY <2>1, StartOnTime
  <2>2. ASSUME NEW t \in Timers, Stop(t) PROVE Timely'  BY <2>2, StopOnTime
  <2>3. ASSUME NEW t \in Timers, ProcessTimeout(t) PROVE Timely'
    BY <2>3, ProcessTimeoutOnTime
  <2>4. CASE OnLowResolutionTick  BY <2>4, LowTickOnTime
  <2>5. CASE OnHighResolutionTick  BY <2>5, HighTickOnTime
  <2>6. CASE Elapse  BY <2>6, ElapseOnTime
  <2>7. CASE UNCHANGED <<timer, left, tickers, lag>>
    BY <2>7 DEF DeadlinesInvariant, Timely, OnTime, DueIn, Turns, Phase, Remaining, tickers
  <2>8. LowResolutionExpired \/ HighResolutionExpired \/ OnEvent \/ TimeoutReturns
        \/ NotifyTimersReturns \/ UNCHANGED vars
          => UNCHANGED <<timer, left, tickers, lag>>
    BY DEF LowResolutionExpired, HighResolutionExpired, OnEvent, TimeoutReturns,
           NotifyTimersReturns, vars
  <2> QED  BY <2>1, <2>2, <2>3, <2>4, <2>5, <2>6, <2>7, <2>8 DEF Next
<1> QED  BY <1>1, <1>2 DEF DeadlinesInvariant

\* A millisecond passes only while no timer is later than it may be.
LEMMA NoneKeptWaiting ==
    ASSUME DeadlinesInvariant, Elapse, NEW t \in Timers, left[t] # Off
    PROVE  left[t] > -LateBy
<1> DEFINE d == timer[t]
           l == left[t]
           due == DueIn(d, next, tickCounter, lowAge, highAge)
<1>1. /\ WheelsInvariant /\ MaxLag \in Nat /\ lag \in Nat /\ lag <= MaxLag
      /\ lowAge \in Nat /\ lowAge <= Slots + lag /\ highAge \in Nat
      /\ next \in [Wheels -> 0..(Slots - 1)] /\ d \in TimerRecord /\ Slots \in Nat
      /\ tickCounter \in Nat
  BY ClockNumbers DEF DeadlinesInvariant
<1>2. /\ d.active /\ (d.wheel = NoWheel => t \in timersToNotify)
      /\ OnTime(t, d, l, next, tickCounter, lowAge, highAge, lag)
  BY DEF DeadlinesInvariant, WheelsInvariant, Listed, Timely
<1>3. LoopIdle \/ lag < MaxLag  BY DEF Elapse
<1>4. LateBy = 2 * MaxLag + 1  BY DEF LateBy
<1>5. CASE d.wheel = NoWheel
  <2>1. -(lag + MaxLag + 1) <= l /\ l \in Int  BY <1>2, <1>5 DEF OnTime
  <2>2. lag < MaxLag  BY <1>2, <1>3, <1>5 DEF LoopIdle
  <2> HIDE DEF l
  <2> QED  BY <1>1, <1>4, <2>1, <2>2 DEF l
<1>6. CASE d.wheel # NoWheel
  <2> DEFINE n == Turns(d, next) * Resolution(d.wheel)
             f == Phase(tickCounter, d.wheel)
             m == Remaining(d)
  <2>1. d.wheel \in Wheels  BY <1>1, <1>6 DEF TimerRecord
  <2>2. /\ n \in Nat /\ m \in Nat /\ f \in Nat
        /\ Turns(d, next) \in Nat /\ Turns(d, next) >= 1 /\ Resolution(d.wheel) \in Nat
    BY <1>1, <2>1, DueType
  <2>3. n >= Resolution(d.wheel)
    <3> DEFINE a == Turns(d, next)
               b == Resolution(d.wheel)
    <3>1. a \in Nat /\ a >= 1 /\ b \in Nat  BY <2>2
    <3> HIDE DEF a, b
    <3>2. a * b >= b  BY <3>1
    <3> QED  BY <3>2 DEF a, b
  <2>4. /\ d.wheel # 0 => f + Slots <= Resolution(d.wheel)
        /\ d.wheel = 0 => f = 0 /\ Resolution(d.wheel) = 1
    BY <1>1, <2>1, PhaseType, PhaseOfFirst, ResolutionAssumption
  <2>5. due = n - f - (IF d.wheel = 0 THEN highAge ELSE lowAge) + m  BY DEF DueIn
  <2>6. l \in Int /\ due - (MaxLag + 1) <= l
    <3>1. l \in Int  BY <1>2, <2>1 DEF OnTime
    <3>2. d.wheel = 0 => due - (MaxLag + 1) <= l  BY <1>2 DEF OnTime
    <3>3. d.wheel # 0 => due <= l  BY <1>2, <2>1 DEF OnTime
    <3>4. due \in Int
      <4> HIDE DEF n, f, m
      <4> QED  BY <1>1, <2>2, <2>5
    <3> HIDE DEF due, l
    <3> QED  BY <1>1, <3>1, <3>2, <3>3, <3>4
  <2>7. d.wheel # 0 => due <= l  BY <1>2, <2>1 DEF OnTime
  <2> DEFINE r == Resolution(d.wheel)
  <2>8. LoopIdle => (d.wheel = 0 => highAge = 0) /\ lowAge < Slots  BY DEF LoopIdle
  <2>9. d.wheel = 0 => highAge <= 1 + lag  BY ClockNumbers DEF DeadlinesInvariant
  <2>10. r \in Nat /\ n >= r /\ (d.wheel # 0 => f + Slots <= r)
         /\ (d.wheel = 0 => f = 0 /\ r = 1)
    BY <2>2, <2>3, <2>4
  <2> HIDE DEF n, f, m, r, due, l
  <2>11. CASE d.wheel = 0  BY <1>1, <1>3, <1>4, <2>2, <2>5, <2>6, <2>8, <2>9, <2>10, <2>11 DEF l
  <2>12. CASE d.wheel # 0
    BY <1>1, <1>3, <1>4, <2>2, <2>5, <2>6, <2>7, <2>8, <2>10, <2>12 DEF l
  <2> QED  BY <2>11, <2>12
<1> QED  BY <1>5, <1>6

\* However a timer moves through the wheels, it times out once each time it is started,
\* neither earlier nor later than a lagging loop and the resolution of its kind make it.
THEOREM WheelsImplementDeadlines ==
    ASSUME \A t \in Timers : Intervals[t] \subseteq 0..Longest
    PROVE  Spec => ImplementsDeadlines
<1>1. Init => Deadlines!Init  BY DEF Init, Deadlines!Init
<1>2. DeadlinesInvariant /\ [Next]_vars => [Deadlines!Next]_(Deadlines!vars)
  <2> SUFFICES ASSUME DeadlinesInvariant, [Next]_vars
               PROVE  [Deadlines!Next]_(Deadlines!vars)
    OBVIOUS
  <2>0. MaxTimeout \in Nat  BY SpanOfLast, ResolutionType
  <2>1. ASSUME NEW t \in Timers, Start(t) PROVE Deadlines!Next
    <3>1. PICK i \in Intervals[t] : left' = [left EXCEPT ![t] = i]
      BY <2>1 DEF Start
    <3>2. i \in 0..MaxTimeout
      <4>1. i \in 0..Longest /\ Longest \in Int /\ Longest <= MaxTimeout - 2 * Slots
        BY LongestType
      <4>2. Slots \in Nat  BY ResolutionType
      <4> QED  BY <2>0, <4>1, <4>2
    <3>3. UNCHANGED emitting  BY <2>1 DEF Start
    <3>4. Deadlines!Start(t)  BY <3>1, <3>2, <3>3 DEF Deadlines!Start
    <3> QED  BY <3>4 DEF Deadlines!Next
  <2>2. ASSUME NEW t \in Timers, Stop(t) PROVE Deadlines!Next
    <3>1. Deadlines!Stop(t)  BY <2>2 DEF Stop, Deadlines!Stop
    <3> QED  BY <3>1 DEF Deadlines!Next
  <2>3. ASSUME NEW t \in Timers, ProcessTimeout(t) PROVE Deadlines!Next
    <3>1. emitting = Off /\ emitting' = t /\ t \in timersToNotify
      BY <2>3 DEF ProcessTimeout
    <3>2. timer[t].active /\ timer[t].wheel = NoWheel /\ left[t] # Off
      BY <3>1 DEF DeadlinesInvariant, WheelsInvariant, Listed
    <3>3. left[t] <= EarlyBy(t)
      <4>1. left[t] <= Slack(t) + MaxLag + 1 /\ left[t] \in Int
        BY <3>2 DEF DeadlinesInvariant, Timely, OnTime
      <4>2. MaxLag \in Nat /\ Slots \in Nat  BY ClockNumbers DEF DeadlinesInvariant
      <4>3. Slack(t) + MaxLag + 1 = EarlyBy(t)  BY <4>2 DEF Slack, EarlyBy
      <4> QED  BY <4>1, <4>3
    <3>4. \/ left' = [left EXCEPT ![t] = Off]
          \/ \E interval \in 1..MaxTimeout : left' = [left EXCEPT ![t] = interval]
      <4> DEFINE i == Unlisted(timer[t]).interval
      <4>1. timer[t] \in TimerRecord
        BY RecordsTyped DEF DeadlinesInvariant, WheelsInvariant
      <4>2. i = timer[t].interval /\ i \in Nat /\ i <= MaxTimeout
        <5>1. i = timer[t].interval  BY <4>1 DEF Unlisted, TimerRecord
        <5>2. timer[t].interval \in Nat  BY <4>1 DEF TimerRecord
        <5>3. timer[t].interval <= MaxTimeout
          BY DEF DeadlinesInvariant, WheelsInvariant, RestFits
        <5> QED  BY <5>1, <5>2, <5>3
      <4>3. left' = [left EXCEPT ![t] = Off] \/ (i > 0 /\ left' = [left EXCEPT ![t] = i])
        BY <2>3 DEF ProcessTimeout
      <4> HIDE DEF i
      <4>4. i > 0 => i \in 1..MaxTimeout  BY <2>0, <4>2
      <4> QED  BY <4>3, <4>4
    <3>5. Deadlines!TimeOut(t)
      BY <3>1, <3>2, <3>3, <3>4 DEF Deadlines!TimeOut, Deadlines!Running
    <3> QED  BY <3>5 DEF Deadlines!Next
  <2>4. CASE Elapse
    <3>1. \A t \in Timers : Deadlines!Running(t) => left[t] > -LateBy
      BY <2>4, NoneKeptWaiting DEF Deadlines!Running
    <3>2. left' = [t \in Timers |-> IF Deadlines!Running(t) THEN left[t] - 1 ELSE Off]
      BY <2>4 DEF Elapse, Deadlines!Running
    <3>3. UNCHANGED emitting  BY <2>4 DEF Elapse
    <3>4. Deadlines!Elapse  BY <3>1, <3>2, <3>3 DEF Deadlines!Elapse
    <3> QED  BY <3>4 DEF Deadlines!Next
  <2>5. CASE TimeoutReturns
    <3>1. Deadlines!Return  BY <2>5 DEF TimeoutReturns, Deadlines!Return
    <3> QED  BY <3>1 DEF Deadlines!Next
  <2>6. CASE UNCHANGED <<left, emitting>>  BY <2>6 DEF Deadlines!vars
  <2>7. LowResolutionExpired \/ HighResolutionExpired \/ OnLowResolutionTick
        \/ OnHighResolutionTick \/ OnEvent \/ NotifyTimersReturns \/ UNCHANGED vars
          => UNCHANGED <<left, emitting>>
    BY DEF LowResolutionExpired, HighResolutionExpired, OnLowResolutionTick,
           OnHighResolutionTick, Tick, OnEvent, NotifyTimersReturns, vars
  <2> QED  BY <2>1, <2>2, <2>3, <2>4, <2>5, <2>6, <2>7 DEF Next
<1>3. DeadlinesInvariant /\ [Next]_vars => DeadlinesInvariant'  BY DeadlinesStep
<1> QED
  BY <1>1, <1>2, <1>3, InitDeadlinesInvariant, PTL DEF Spec, ImplementsDeadlines, Deadlines!Spec

=============================================================================
