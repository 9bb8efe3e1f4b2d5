CONSTANTS
    w1 = w1
    w2 = w2
    w3 = w3
    c1 = c1
    c2 = c2
    Workers = {w1, w2, w3}
    Callers = {c1, c2}
    Flushers = 2
    Lens = {1, 2}
    Capacity = 2
    MaxLogs = 1
SPECIFICATION FairSpec
CHECK_DEADLOCK FALSE
INVARIANTS TypeOK Conservation EachTaskOnce NoMissedWakeup
PROPERTIES Implements WrittenIsDelivered ShutdownReturns
