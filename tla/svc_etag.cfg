CONSTANTS
    f1 = f1
    f2 = f2
    a = a
    b = b
    Names = {f1}
    Contents = {a, b}
    Size <- MCSize
    MaxRequests = 4
    MaxCrashes = 0
    MaxFaults = 0
    MaxClock = 1
SPECIFICATION Spec
CHECK_DEADLOCK FALSE
INVARIANT ETagTracksModification
