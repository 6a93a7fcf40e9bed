CONSTANTS
    e1 = e1
    e2 = e2
    x1 = x1
    x2 = x2
    Events <- MCEvents
    Poison <- MCPoison
    Dispatchers = {p1, p2}
    Limit = 2
    MaxAttempts = 2
    MaxDispatchFaults = 1
SPECIFICATION FairSpec
INVARIANTS BatchesDisjoint DispatchedWasPublished DeadMeansExhausted
PROPERTY GoodEventsDispatched
CHECK_DEADLOCK FALSE
