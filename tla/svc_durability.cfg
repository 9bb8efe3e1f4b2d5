CONSTANTS
    f1 = f1
    f2 = f2
    a = a
    b = b
    Names = {f1, f2}
    Contents = {a}
    Size <- MCSize
    MaxRequests = 3
    MaxCrashes = 1
    MaxFaults = 0
    MaxClock = 0
SPECIFICATION Spec
CHECK_DEADLOCK FALSE
INVARIANT AckedStaysListed
