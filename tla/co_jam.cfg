CONSTANTS
    w1 = w1
    w2 = w2
    w3 = w3
    c1 = c1
    c2 = c2
    Workers = {w1, w2, w3}
    Callers = {c1}
    Flushers = 1
    Lens = {2}
    Capacity = 2
    MaxLogs = 3
SPECIFICATION FairSpec
CHECK_DEADLOCK FALSE
PROPERTY FuturesGetReady
