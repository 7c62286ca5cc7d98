SPECIFICATION Spec
CONSTANTS
    Connections <- TheConnections
    LimitsFor <- LimitsOf
INVARIANTS PositionsExact NothingHeldBack FieldsReadable
PROPERTY ImplementsFraming
CHECK_DEADLOCK FALSE
