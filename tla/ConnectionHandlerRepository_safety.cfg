SPECIFICATION FairRepositorySpec
CONSTANTS
    AllHandlers = {h1, h2, h3, h4}
    None = None
INVARIANT RepositoryInvariant
PROPERTIES ImplementsHandlerSet StopEnds
\* Once destroyed with nothing left to delete, a repository has no more steps.
CHECK_DEADLOCK FALSE
