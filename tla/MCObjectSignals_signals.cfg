SPECIFICATION Spec
CONSTANTS
    NoReceiver = NoReceiver
    Objects = {o1, o2}
    Signals = {s1, s2}
    MaxConnections = 3
    MaxDepth = 2
SYMMETRY Symmetry
INVARIANTS ListsExact
PROPERTIES ImplementsSignals
CHECK_DEADLOCK FALSE
