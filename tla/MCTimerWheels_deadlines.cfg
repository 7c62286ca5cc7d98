SPECIFICATION Spec
CONSTANTS
    Off = Off
    t1 = t1
    t2 = t2
    Timers = {t1, t2}
    Precise = {t2}
    Slots = 3
    WheelCount = 3
    Intervals <- LongAndShort
    MaxLag = 1
INVARIANTS ListedOnce
PROPERTIES ImplementsDeadlines
