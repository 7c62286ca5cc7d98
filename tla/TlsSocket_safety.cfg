SPECIFICATION TlsSpec
CONSTANTS
    MaxConnections = 2
    MaxAddresses = 1
    MaxArriving = 3
    MaxWritten = 1
    Capacities = {0, 1}
    BoundSocketFails = FALSE
INVARIANTS TlsConsistent TlsSignalsFit TlsWritesScheduled TlsReadsScheduledOrBehind
\* A socket that has been deleted, or is connected to a silent peer, has no more steps.
CHECK_DEADLOCK FALSE
