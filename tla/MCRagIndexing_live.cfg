CONSTANTS
    d1 = d1
    d2 = d2
    k1 = k1
    Docs = {d1}
    Keys = {k1}
    KeyOf <- MCKeyOf
    Workers = {w1}
    Requests = {r1}
    Repairers = {q1}
    Dispatchers = {p1}
    Limit = 3
    MaxAttempts = 1
    MaxRetries = 1
    MaxDeleteRetries = 0
    MaxVersion = 2
    MaxFaults = 1
    MaxDispatchFaults = 1
    Nobody = Nobody
SPECIFICATION LiveSpec
PROPERTIES OutboxSpec  DeletionsFinish
CHECK_DEADLOCK FALSE
