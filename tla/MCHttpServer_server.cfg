SPECIFICATION FairSpec
CONSTANTS
    WorkerCount = 2
    c1 = c1
    c2 = c2
    Conns <- TwoConns
    MaxConnectionCount = 1
    Tls = TRUE
    PathUrls <- SomePaths
    NoHandler = NoHandler
    FailingConstructions <- LaterConstructionFails
INVARIANTS ProtocolInvariant CountExact LiveWithinLimit StartedMeansListening StoppedMeansQuiet
PROPERTIES StartAnswered StopCompletesUnlessAborted ImplementsContract
CHECK_DEADLOCK FALSE
