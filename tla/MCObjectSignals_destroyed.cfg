SPECIFICATION Spec
CONSTANTS
    NoReceiver = NoReceiver
    Objects = {o1, o2}
    Signals = {s1}
    MaxConnections = 2
    MaxDepth = 1
SYMMETRY Symmetry
INVARIANTS NeverTouchesDestroyed
CHECK_DEADLOCK FALSE
