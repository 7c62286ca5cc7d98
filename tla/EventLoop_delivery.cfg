SPECIFICATION FairSpec
CONSTANTS
    Null = Null
    Sources = {a, b, c}
    Registered = {a}
    Events = {in}
INVARIANTS ListsExact NoDanglingSource
PROPERTIES ImplementsDelivery EventuallyDelivered
CHECK_DEADLOCK FALSE
