SPECIFICATION FairSpec
CONSTANTS
    MaxConnections = 2
    MaxAddresses = 2
    MaxArriving = 2
    MaxWritten = 2
    Capacities = {0, 1}
    BoundSocketFails = FALSE
INVARIANTS Consistent ReadsScheduled
PROPERTIES  AttemptsEnd WritesLeave
\* A socket that has been deleted, or is connected to a silent peer, has no more steps.
CHECK_DEADLOCK FALSE
