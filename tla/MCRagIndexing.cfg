CONSTANTS
    d1 = d1
    d2 = d2
    k1 = k1
    Docs = {d1}
    Keys = {k1}
    KeyOf <- MCKeyOf
    Workers = {w1, w2}
    Requests = {r1}
    Repairers = {q1}
    Dispatchers = {p1}
    Limit = 3
    MaxAttempts = 1
    MaxRetries = 1
    MaxDeleteRetries = 1
    MaxVersion = 2
    MaxFaults = 1
    MaxDispatchFaults = 0
    Nobody = Nobody
SPECIFICATION Spec
SYMMETRY Symmetry
INVARIANTS NoOrphanChunks ReadyHasOneIndex ReadyHasObject OutboxCoversDocuments
PROPERTIES IndexResultCurrent StaleTaskHarmless OutcomeKept
CHECK_DEADLOCK FALSE
