SPECIFICATION TlsSpec
CONSTANTS
    MaxConnections = 1
    MaxAddresses = 1
    MaxArriving = 3
    MaxWritten = 1
    Capacities = {0}
    BoundSocketFails = FALSE
INVARIANTS TlsReadsScheduled
\* A socket that has been deleted, or is connected to a silent peer, has no more steps.
CHECK_DEADLOCK FALSE
