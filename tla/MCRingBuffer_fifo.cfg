SPECIFICATION Spec
CONSTANTS
    b1 = b1
    b2 = b2
    NoByte = NoByte
    Byte <- TwoBytes
    DefaultCapacity = 3
    PowersOfTwo <- Powers
    Capacities = {0, 2, 4}
    MaxSize = 4
INVARIANT LayoutInvariant
PROPERTY ImplementsFifo
