CONSTANTS
    d1 = d1
    d2 = d2
    k1 = k1
    Docs = {d1, d2}
    Keys = {k1}
    KeyOf <- MCKeyOf
    Workers = {w1}
    Requests = {r1, r2}
    Repairers = {q1}
    Dispatchers = {p1}
    Limit = 4
    MaxAttempts = 1
    MaxRetries = 0
    MaxDeleteRetries = 0
    MaxVersion = 1
    MaxFaults = 1
    MaxDispatchFaults = 0
    Nobody = Nobody
SPECIFICATION Spec
INVARIANT StoredBeforeDispatch
CHECK_DEADLOCK FALSE
