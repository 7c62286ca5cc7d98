SPECIFICATION FairSpec
CONSTANTS
    MaxPieces = 4
    MaxBurst = 3
    TimeoutOptions = {{}, {"idle"}, {"request"}, {"idle", "request"}}
INVARIANTS ResponsesInOrder OneRequestAtATime TimerFits UserOfCurrentRequest Consistent
PROPERTIES EventuallyClosed
CHECK_DEADLOCK FALSE
